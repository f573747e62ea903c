--------------------------- MODULE TFSFilesProofs ---------------------------
(***************************************************************************)
(* TecnicoFS, called by disciplined callers, implements FileStore, for     *)
(* every size of its tables.                                               *)
(***************************************************************************)
EXTENDS TFSFiles, TFSDisciplinedProofs, FiniteSetTheorems, SequenceTheorems

-----------------------------------------------------------------------------
(* Names and inodes *)

Files == TakenInodes \ {ROOT_DIR_INUM}

\* Every file has one name and every name one file.
OneToOne ==
  /\ \A name \in StoredNames :
       /\ name \in Name /\ InodeOf(name) \in Files /\ NameOf(InodeOf(name)) = name
       /\ find_in_dir(name) = {InodeOf(name)}
  /\ \A name : name \notin StoredNames => find_in_dir(name) = {}
  /\ \A n \in Files : NameOf(n) \in StoredNames /\ InodeOf(NameOf(n)) = n
  /\ \A i \in LiveEntries :
       InodeOf(dir[i].d_name) = dir[i].d_inumber /\ NameOf(dir[i].d_inumber) = dir[i].d_name

LEMMA Links == Consistent => OneToOne
<1> SUFFICES ASSUME Consistent PROVE OneToOne
  OBVIOUS
<1>1. ASSUME NEW i \in LiveEntries, NEW name, dir[i].d_name = name
      PROVE  find_in_dir(name) = {dir[i].d_inumber}
  <2>1. find_in_dir(name) # {}
    BY <1>1, LookupMissesNothing
  <2>2. ASSUME NEW n \in find_in_dir(name) PROVE n = dir[i].d_inumber
    <3>1. PICK k \in LiveEntries : dir[k].d_name = name /\ dir[k].d_inumber = n
      BY <2>2, LookupFindsLiveEntry DEF Consistent
    <3> QED
      BY <1>1, <3>1 DEF Consistent, DirectoryConsistent
  <2> QED
    BY <2>1, <2>2
<1>2. ASSUME NEW name, name \notin StoredNames
      PROVE  find_in_dir(name) = {}
  BY <1>2, LookupFindsLiveEntry DEF Consistent, StoredNames
<1>3. ASSUME NEW i \in LiveEntries
      PROVE  /\ dir[i].d_name \in Name /\ dir[i].d_name \in StoredNames
             /\ dir[i].d_inumber \in Files /\ dir[i].d_inumber \in Inumber
             /\ InodeOf(dir[i].d_name) = dir[i].d_inumber
             /\ NameOf(dir[i].d_inumber) = dir[i].d_name
  <2>1. /\ dir[i].d_name \in Name /\ dir[i].d_inumber \in Files
        /\ dir[i].d_name \in StoredNames /\ dir[i].d_inumber \in Inumber
    BY DEF Consistent, DirectoryConsistent, StoredNames, Files, TakenInodes
  <2>2. InodeOf(dir[i].d_name) = dir[i].d_inumber
    BY <1>1, <2>1 DEF InodeOf
  <2>3. \A name \in Name : dir[i].d_inumber \in find_in_dir(name) => name = dir[i].d_name
    <3> SUFFICES ASSUME NEW name \in Name, dir[i].d_inumber \in find_in_dir(name)
                 PROVE  name = dir[i].d_name
      OBVIOUS
    <3>1. PICK k \in LiveEntries : dir[k].d_name = name /\ dir[k].d_inumber = dir[i].d_inumber
      BY LookupFindsLiveEntry DEF Consistent
    <3> QED
      BY <3>1 DEF Consistent, DirectoryConsistent
  <2>4. dir[i].d_inumber \in find_in_dir(dir[i].d_name)
    BY <1>1
  <2>5. NameOf(dir[i].d_inumber) = dir[i].d_name
    BY <2>1, <2>3, <2>4 DEF NameOf
  <2> QED
    BY <2>1, <2>2, <2>5
<1>4. ASSUME NEW name \in StoredNames
      PROVE  /\ name \in Name /\ InodeOf(name) \in Files /\ NameOf(InodeOf(name)) = name
             /\ find_in_dir(name) = {InodeOf(name)}
  <2>1. PICK i \in LiveEntries : dir[i].d_name = name
    BY DEF StoredNames
  <2> QED
    BY <1>1, <1>3, <2>1
<1>5. ASSUME NEW n \in Files
      PROVE  NameOf(n) \in StoredNames /\ InodeOf(NameOf(n)) = n
  <2>1. PICK i \in LiveEntries : dir[i].d_inumber = n
    BY DEF Consistent, DirectoryConsistent, Files
  <2> QED
    BY <1>3, <2>1
<1> QED
  BY <1>2, <1>3, <1>4, <1>5 DEF OneToOne

LEMMA LinksNext == Consistent' => OneToOne'
BY Links, PTL

\* A directory that did not change.
LEMMA SameDirectory ==
  ASSUME dir' = dir
  PROVE  /\ StoredNames' = StoredNames
         /\ \A name : InodeOf(name)' = InodeOf(name)
         /\ \A n : NameOf(n)' = NameOf(n)
BY DEF StoredNames, LiveEntries, InodeOf, NameOf, find_in_dir

\* An entry that did not change links the same name and inode.
LEMMA SameEntry ==
  ASSUME Consistent, Consistent', NEW i \in LiveEntries, dir'[i] = dir[i],
         NEW name, name = dir[i].d_name, NEW n, n = dir[i].d_inumber
  PROVE  /\ name \in StoredNames /\ InodeOf(name) = n /\ NameOf(n) = name
         /\ name \in StoredNames' /\ InodeOf(name)' = n /\ NameOf(n)' = name
<1>1. i \in LiveEntries'
  BY DEF LiveEntries
<1>2. OneToOne /\ OneToOne'
  BY Links, LinksNext
<1> QED
  BY <1>1, <1>2 DEF OneToOne, StoredNames

\* tfs_open adds a name.
LEMMA NameAdded ==
  ASSUME Consistent, Consistent', NEW path, NEW inum, NEW i \in Entry,
         dir[i].d_inumber = Fail, inum # Fail,
         dir' = [dir EXCEPT ![i] = [d_name |-> path, d_inumber |-> inum]]
  PROVE  /\ StoredNames' = StoredNames \cup {path} /\ path \notin StoredNames
         /\ InodeOf(path)' = inum /\ NameOf(inum)' = path
         /\ \A name \in StoredNames : InodeOf(name)' = InodeOf(name)
         /\ \A n \in Files : NameOf(n)' = NameOf(n)
<1>1. /\ dir'[i] = [d_name |-> path, d_inumber |-> inum]
      /\ \A k \in Entry \ {i} : dir'[k] = dir[k]
  BY DEF Consistent, TypeOK
<1>2. LiveEntries' = LiveEntries \cup {i} /\ i \notin LiveEntries /\ LiveEntries \subseteq Entry
  BY <1>1 DEF LiveEntries
<1>3. OneToOne /\ OneToOne' /\ DirectoryConsistent'
  BY Links, LinksNext DEF Consistent
<1>4. \A k \in LiveEntries : dir'[k] = dir[k]
  BY <1>1, <1>2
<1>5. StoredNames' = StoredNames \cup {path}
  BY <1>1, <1>2, <1>4 DEF StoredNames
<1>6. path \notin StoredNames
  BY <1>1, <1>2, <1>3, <1>4 DEF DirectoryConsistent, StoredNames
<1>7. InodeOf(path)' = inum /\ NameOf(inum)' = path
  BY <1>1, <1>2, <1>3 DEF OneToOne
<1>8. ASSUME NEW name \in StoredNames PROVE InodeOf(name)' = InodeOf(name)
  <2>1. PICK k \in LiveEntries : dir[k].d_name = name
    BY DEF StoredNames
  <2> QED
    BY <1>4, <2>1, SameEntry
<1>9. ASSUME NEW n \in Files PROVE NameOf(n)' = NameOf(n)
  <2>1. PICK k \in LiveEntries : dir[k].d_inumber = n
    BY DEF Files, Consistent, DirectoryConsistent
  <2> QED
    BY <1>4, <2>1, SameEntry
<1> QED
  BY <1>5, <1>6, <1>7, <1>8, <1>9

\* tfs_unlink removes a name.
LEMMA NameRemoved ==
  ASSUME Consistent, Consistent', NEW path, NEW inum, NEW i \in LiveEntries,
         dir[i].d_name = path, dir[i].d_inumber = inum, dir'[i].d_inumber = Fail,
         \A k \in Entry \ {i} : dir'[k] = dir[k]
  PROVE  /\ StoredNames' = StoredNames \ {path} /\ path \in StoredNames
         /\ \A name \in StoredNames' : InodeOf(name)' = InodeOf(name)
         /\ \A n \in Files \ {inum} : NameOf(n)' = NameOf(n)
<1>1. LiveEntries' = LiveEntries \ {i} /\ \A k \in LiveEntries' : dir'[k] = dir[k]
  BY DEF LiveEntries
<1>2. StoredNames' = StoredNames \ {path} /\ path \in StoredNames
  BY <1>1 DEF StoredNames, Consistent, DirectoryConsistent
<1>3. ASSUME NEW name \in StoredNames' PROVE InodeOf(name)' = InodeOf(name)
  <2>1. PICK k \in LiveEntries' : dir'[k].d_name = name
    BY DEF StoredNames
  <2> QED
    BY <1>1, <2>1, SameEntry
<1>4. ASSUME NEW n \in Files \ {inum} PROVE NameOf(n)' = NameOf(n)
  <2>1. PICK k \in LiveEntries : dir[k].d_inumber = n
    BY DEF Files, Consistent, DirectoryConsistent
  <2>2. k \in Entry \ {i}
    BY <2>1 DEF LiveEntries
  <2> QED
    BY <2>1, <2>2, SameEntry
<1> QED
  BY <1>2, <1>3, <1>4

-----------------------------------------------------------------------------
(* Contents and handles *)

\* The content of a file is as long as its size, and in its block.
Contents ==
  \A n \in Inumber :
    LET inode == inode_table[n]
    IN  /\ inode.i_size \in 0 .. BlockSize
        /\ Content(n) \in Seq(Byte \cup {Stale}) /\ Len(Content(n)) = inode.i_size
        /\ \A k \in 1 .. inode.i_size : Content(n)[k] = fs_data[inode.i_data_block][k - 1]
        /\ inode.i_size > 0 => inode.i_data_block \in Block
        /\ Content(n) = <<>> <=> inode.i_size = 0

LEMMA ContentsTyped == Consistent => Contents
<1> SUFFICES ASSUME Consistent, NEW n \in Inumber
             PROVE  LET inode == inode_table[n]
                    IN  /\ inode.i_size \in 0 .. BlockSize
                        /\ Content(n) \in Seq(Byte \cup {Stale}) /\ Len(Content(n)) = inode.i_size
                        /\ \A k \in 1 .. inode.i_size :
                             Content(n)[k] = fs_data[inode.i_data_block][k - 1]
                        /\ inode.i_size > 0 => inode.i_data_block \in Block
                        /\ Content(n) = <<>> <=> inode.i_size = 0
  BY DEF Contents
<1> DEFINE size  == inode_table[n].i_size
           block == inode_table[n].i_data_block
<1>1. size \in 0 .. BlockSize /\ size \in Nat /\ (size > 0 => block \in Block)
  BY SizesAssumption DEF Consistent, TypeOK, inode_t
<1>2. \A k \in 1 .. size : fs_data[block][k - 1] \in Byte \cup {Stale}
  <2> SUFFICES ASSUME NEW k \in 1 .. size PROVE fs_data[block][k - 1] \in Byte \cup {Stale}
    OBVIOUS
  <2>1. block \in Block /\ k - 1 \in Offset
    <3> HIDE DEF size
    <3> QED
      BY <1>1, SizesAssumption DEF Offset
  <2> QED
    BY <2>1 DEF Consistent, TypeOK
<1>3. Content(n) = [k \in 1 .. size |-> fs_data[block][k - 1]]
  BY DEF Content
<1> HIDE DEF size, block
<1>4. Content(n) \in [1 .. size -> Byte \cup {Stale}]
  BY <1>2, <1>3
<1>5. Content(n) \in Seq(Byte \cup {Stale}) /\ Len(Content(n)) = size
  BY <1>1, <1>4
<1>6. Content(n) = <<>> <=> size = 0
  BY <1>5, EmptySeq
<1> QED
  BY <1>1, <1>3, <1>5, <1>6 DEF size, block

LEMMA ContentsNext == Consistent' => Contents'
BY ContentsTyped, PTL

\* A file whose inode and block did not change.
LEMMA SameContent ==
  ASSUME Consistent, NEW n \in Inumber,
         inode_table'[n].i_size = inode_table[n].i_size,
         inode_table'[n].i_data_block = inode_table[n].i_data_block,
         inode_table[n].i_size > 0 =>
           fs_data'[inode_table[n].i_data_block] = fs_data[inode_table[n].i_data_block]
  PROVE  Content(n)' = Content(n)
<1>1. inode_table[n].i_size \in 0 .. BlockSize
  BY DEF Consistent, TypeOK, inode_t
<1>2. ASSUME NEW k \in 1 .. inode_table[n].i_size
      PROVE  fs_data'[inode_table[n].i_data_block] = fs_data[inode_table[n].i_data_block]
  BY <1>1, <1>2, SizesAssumption
<1> QED
  BY <1>2 DEF Content

\* One file is new or has another content.
LEMMA FilePut ==
  ASSUME NEW path, NEW content,
         StoredNames' = StoredNames \cup {path}, Content(InodeOf(path))' = content,
         \A name \in StoredNames \ {path} : Content(InodeOf(name))' = Content(InodeOf(name))
  PROVE  StoredFiles' = Store!Put(StoredFiles, path, content)
<1>1. DOMAIN StoredFiles = StoredNames
  BY DEF StoredFiles
<1>2. StoredFiles' = [name \in StoredNames' |-> Content(InodeOf(name))']
  BY DEF StoredFiles
<1>3. \A name \in StoredNames : StoredFiles[name] = Content(InodeOf(name))
  BY DEF StoredFiles
<1> QED
  BY <1>1, <1>2, <1>3 DEF Store!Put

\* The handles of a caller: their files are not the root, and have names.
LEMMA HandlesFile ==
  ASSUME Consistent, Alive, NEW h \in OpenHandles
  PROVE  open_file_table[h].of_inumber \in Files
BY HandleInFile DEF Files, Consistent, BlocksOwned

\* No handle changed, nor did the name of its file.
LEMMA HandlesSame ==
  ASSUME Consistent, Alive, UNCHANGED openVars,
         \A h \in OpenHandles, n \in Files :
           open_file_table[h].of_inumber = n => NameOf(n)' = NameOf(n)
  PROVE  StoredHandles' = StoredHandles
<1>1. OpenHandles' = OpenHandles /\ open_file_table' = open_file_table
  BY DEF openVars, OpenHandles
<1>2. ASSUME NEW h \in OpenHandles
      PROVE  NameOf(open_file_table[h].of_inumber)' = NameOf(open_file_table[h].of_inumber)
  BY <1>1, <1>2, HandlesFile
<1> QED
  BY <1>1, <1>2 DEF StoredHandles

\* One handle is new or has moved.
LEMMA HandlePut ==
  ASSUME Consistent, Alive, NEW h, NEW n, NEW pos, NEW name,
         OpenHandles' = OpenHandles \cup {h},
         open_file_table'[h].of_inumber = n, open_file_table'[h].of_offset = pos,
         NameOf(n)' = name,
         \A k \in OpenHandles \ {h} : open_file_table'[k] = open_file_table[k],
         \A m \in Files : NameOf(m)' = NameOf(m)
  PROVE  StoredHandles' = Store!Put(StoredHandles, h, [name |-> name, pos |-> pos])
<1>1. DOMAIN StoredHandles = OpenHandles
  BY DEF StoredHandles
<1>2. StoredHandles' = [k \in OpenHandles' |-> [name |-> NameOf(open_file_table[k].of_inumber)',
                                               pos  |-> open_file_table'[k].of_offset]]
  BY DEF StoredHandles
<1>3. ASSUME NEW k \in OpenHandles \ {h}
      PROVE  NameOf(open_file_table[k].of_inumber)' = NameOf(open_file_table[k].of_inumber)
  BY <1>3, HandlesFile
<1>4. NameOf(open_file_table[h].of_inumber)' = name
  OBVIOUS
<1>5. \A k \in OpenHandles \ {h} :
        StoredHandles[k] = [name |-> NameOf(open_file_table[k].of_inumber),
                            pos  |-> open_file_table[k].of_offset]
  BY DEF StoredHandles
<1> QED
  BY <1>1, <1>2, <1>3, <1>4, <1>5 DEF Store!Put

-----------------------------------------------------------------------------
(* The calls on a handle *)

LEMMA FilesSame ==
  ASSUME UNCHANGED fileVars
  PROVE  StoredFiles' = StoredFiles /\ \A n : NameOf(n)' = NameOf(n)
<1>1. \A n : Content(n)' = Content(n)
  BY DEF Content, fileVars, inodeVars, blockVars
<1>2. /\ StoredNames' = StoredNames
      /\ \A name : InodeOf(name)' = InodeOf(name)
      /\ \A n : NameOf(n)' = NameOf(n)
  BY SameDirectory DEF fileVars
<1> QED
  BY <1>1, <1>2 DEF StoredFiles

LEMMA NothingMoves ==
  ASSUME Consistent, Alive, UNCHANGED <<fileVars, openVars>>
  PROVE  StoredFiles' = StoredFiles /\ StoredHandles' = StoredHandles
BY FilesSame, HandlesSame

\* A call that fails and touches nothing.
LEMMA StoreFails ==
  ASSUME Consistent, Alive, UNCHANGED <<fileVars, openVars>>, Return(Fail)
  PROVE  Store!Fails
BY NothingMoves DEF Store!Fails, Store!Returns, Return, Fail

LEMMA CloseImplements ==
  ASSUME Consistent, Alive, NEW h, tfs_close(h)
  PROVE  Store!Close(h)
<1>1. DOMAIN StoredHandles = OpenHandles
  BY DEF StoredHandles
<1>2. CASE get_open_file_entry(h)
  <2>1. /\ UNCHANGED <<fileVars, open_file_table>> /\ Return(0) /\ h \in OpenHandles
        /\ OpenHandles' = OpenHandles \ {h}
    BY <1>2 DEF tfs_close, remove_from_open_file_table, get_open_file_entry, OpenHandles
  <2>2. StoredFiles' = StoredFiles /\ \A n : NameOf(n)' = NameOf(n)
    BY <2>1, FilesSame
  <2>3. StoredHandles' = Store!Without(StoredHandles, h)
    BY <1>1, <2>1, <2>2 DEF StoredHandles, Store!Without
  <2> QED
    BY <1>1, <2>1, <2>2, <2>3 DEF Store!Close, Store!Returns, Return
<1>3. CASE ~get_open_file_entry(h)
  <2>1. h \notin OpenHandles /\ UNCHANGED <<fileVars, openVars>> /\ Return(Fail)
    BY <1>3 DEF tfs_close, get_open_file_entry, OpenHandles, openVars
  <2> QED
    BY <1>1, <2>1, StoreFails DEF Store!Close
<1> QED
  BY <1>2, <1>3

\* What the store knows of an open handle.
LEMMA OpenHandle ==
  ASSUME Consistent, Alive, NEW h \in OpenHandles
  PROVE  /\ h \in DOMAIN StoredHandles
         /\ StoredHandles[h] = [name |-> NameOf(open_file_table[h].of_inumber),
                                pos  |-> open_file_table[h].of_offset]
         /\ StoredHandles[h].name = NameOf(open_file_table[h].of_inumber)
         /\ StoredHandles[h].pos = open_file_table[h].of_offset
         /\ StoredHandles[h].name \in StoredNames
         /\ InodeOf(StoredHandles[h].name) = open_file_table[h].of_inumber
         /\ StoredFiles[StoredHandles[h].name] = Content(open_file_table[h].of_inumber)
<1>1. open_file_table[h].of_inumber \in Files
  BY HandlesFile
<1>2. OneToOne
  BY Links
<1> QED
  BY <1>1, <1>2 DEF OneToOne, StoredHandles, StoredFiles

\* A part of a sequence, element by element.
LEMMA SubSeqIs ==
  ASSUME NEW S, NEW s \in Seq(S), NEW m \in Nat, NEW c \in Nat, c > 0, m + c <= Len(s),
         NEW r \in [1 .. c -> S], \A k \in 1 .. c : r[k] = s[m + k]
  PROVE  r = SubSeq(s, m + 1, m + c)
<1> DEFINE first == m + 1
           last  == m + c
<1>1. first \in Int /\ last \in Int /\ last - first + 1 = c /\ first <= last
  OBVIOUS
<1>2. \A i \in first .. last : s[i] \in S
  OBVIOUS
<1> HIDE DEF first, last
<1>3. /\ SubSeq(s, first, last) \in Seq(S)
      /\ Len(SubSeq(s, first, last)) = c
      /\ \A k \in 1 .. c : SubSeq(s, first, last)[k] = s[first + k - 1]
  BY <1>1, <1>2, SubSeqProperties
<1>4. r \in Seq(S) /\ Len(r) = c
  OBVIOUS
<1>5. \A k \in 1 .. c : first + k - 1 = m + k
  BY DEF first
<1>6. r = SubSeq(s, first, last)
  BY <1>3, <1>4, <1>5, SeqEqual
<1> QED
  BY <1>6 DEF first, last

\* tfs_read returns the bytes of the file from the offset on.
LEMMA ReadImplements ==
  ASSUME Consistent, Alive, NEW h, NEW len \in 0 .. MaxLen, tfs_read(h, len)
  PROVE  Store!Read(h, len)
<1> DEFINE n       == open_file_table[h].of_inumber
           pos     == open_file_table[h].of_offset
           count   == ReadLength(h, len)
           size    == inode_table[n].i_size
           block   == inode_table[n].i_data_block
           content == Content(n)
<1>1. DOMAIN StoredHandles = OpenHandles
  BY DEF StoredHandles
<1>2. CASE ~get_open_file_entry(h)
  <2>1. h \notin OpenHandles /\ UNCHANGED <<fileVars, openVars>> /\ Return(Fail)
    BY <1>2 DEF tfs_read, get_open_file_entry, OpenHandles
  <2> QED
    BY <1>1, <2>1, StoreFails DEF Store!Read
<1>3. CASE get_open_file_entry(h)
  <2>1. h \in OpenHandles /\ UNCHANGED fileVars
    BY <1>3 DEF get_open_file_entry, OpenHandles, tfs_read
  <2>2. /\ n \in Inumber /\ pos \in Nat /\ size \in 0 .. BlockSize /\ pos <= size
        /\ count \in Nat /\ pos + count <= size
    <3>1. len \in Nat
      BY SizesAssumption
    <3> QED
      BY <2>1, <3>1, HandleInFile, LengthsFit DEF Consistent
  <2>3. /\ content \in Seq(Byte \cup {Stale}) /\ Len(content) = size
        /\ \A k \in 1 .. size : content[k] = fs_data[block][k - 1]
        /\ size > 0 => block \in Block
    BY <2>2, ContentsTyped DEF Contents
  <2>4. count = IF pos + len > Len(content) THEN Len(content) - pos ELSE len
    <3>1. SizeSub(size, pos) = size - pos
      BY <2>2 DEF SizeSub
    <3>2. count = Smaller(size - pos, len)
      BY <3>1 DEF ReadLength
    <3> HIDE DEF count, size, pos, content
    <3> QED
      BY <2>2, <2>3, <3>2, SizesAssumption DEF Smaller
  <2>5. /\ ret' = [val |-> count, data |-> SubSeq(content, pos + 1, pos + count)]
        /\ StoredHandles' = Store!Put(StoredHandles, h, [name |-> NameOf(n), pos |-> pos + count])
    <3>1. CASE count = 0
      <4>1. UNCHANGED openVars /\ Return(0)
        BY <1>3, <3>1 DEF tfs_read
      <4>2. SubSeq(content, pos + 1, pos + count) = <<>>
        <5> HIDE DEF content, pos, count
        <5> QED
          BY <2>2, <3>1, SubSeqEmpty
      <4>3. StoredHandles' = Store!Put(StoredHandles, h, [name |-> NameOf(n), pos |-> pos])
        BY <2>1, <4>1, FilesSame, HandlePut DEF openVars, OpenHandles
      <4>4. pos + count = pos
        <5> HIDE DEF pos, count
        <5> QED
          BY <2>2, <3>1
      <4> QED
        BY <3>1, <4>1, <4>2, <4>3, <4>4 DEF Return
    <3>2. CASE count > 0
      <4> HIDE DEF count, pos, size, content
      <4>1. size > 0 /\ pos + count - 1 \in 0 .. BlockSize - 1
        BY <2>2, <3>2, SizesAssumption
      <4>2. block \in Block /\ Readable(block, pos + count - 1)
        BY <2>3, <4>1, BlocksReadable
      <4>3. ReadBytes(h, block, count)
        BY <1>3, <3>2, <4>2 DEF tfs_read, ReadOutside, pos, count
      <4>4. ret' = [val |-> count, data |-> [k \in 1 .. count |-> ByteAt(block, pos + k - 1)]]
        BY <4>3 DEF ReadBytes, pos
      <4>5. ASSUME NEW k \in 1 .. count
            PROVE  ByteAt(block, pos + k - 1) = content[pos + k]
        <5>1. pos + k - 1 \in 0 .. BlockSize - 1 /\ pos + k \in 1 .. size
          BY <2>2, SizesAssumption
        <5>2. (pos + k - 1) \div BlockSize = 0 /\ (pos + k - 1) % BlockSize = pos + k - 1
          BY <5>1, SizesAssumption
        <5>3. block + 0 = block /\ pos + k - 1 = (pos + k) - 1
          BY <2>2, <4>2 DEF Block
        <5> QED
          BY <2>3, <5>1, <5>2, <5>3 DEF ByteAt
      <4>6. [k \in 1 .. count |-> ByteAt(block, pos + k - 1)] = SubSeq(content, pos + 1, pos + count)
        <5> DEFINE read == [k \in 1 .. count |-> ByteAt(block, pos + k - 1)]
        <5>1. \A k \in 1 .. count : content[pos + k] \in Byte \cup {Stale}
          BY <2>2, <2>3
        <5>2. read \in [1 .. count -> Byte \cup {Stale}] /\ \A k \in 1 .. count : read[k] = content[pos + k]
          BY <4>5, <5>1
        <5>3. count \in Nat /\ count > 0 /\ pos \in Nat /\ pos + count <= Len(content)
          BY <2>2, <2>3, <3>2
        <5> HIDE DEF read
        <5>4. read = SubSeq(content, pos + 1, pos + count)
          BY <2>3, <5>2, <5>3, SubSeqIs
        <5> QED
          BY <5>4 DEF read
      <4>7. /\ OpenHandles' = OpenHandles
            /\ open_file_table'[h].of_inumber = n /\ open_file_table'[h].of_offset = pos + count
            /\ \A k \in OpenHandles \ {h} : open_file_table'[k] = open_file_table[k]
        BY <2>1, <4>3 DEF ReadBytes, pos, OpenHandles, Consistent, TypeOK, open_file_entry_t
      <4>8. StoredHandles' = Store!Put(StoredHandles, h, [name |-> NameOf(n), pos |-> pos + count])
        BY <2>1, <4>7, FilesSame, HandlePut
      <4> QED
        BY <4>4, <4>6, <4>8
    <3> HIDE DEF count
    <3> QED
      BY <2>2, <3>1, <3>2
  <2>6. StoredFiles' = StoredFiles
    BY <2>1, FilesSame
  <2>7. /\ h \in DOMAIN StoredHandles /\ StoredHandles[h].pos = pos
        /\ StoredHandles[h].name = NameOf(n) /\ StoredFiles[StoredHandles[h].name] = content
    BY <2>1, OpenHandle
  <2> HIDE DEF count, content, pos, n
  <2>8. StoredFiles' = StoredFiles
    BY <2>6
  <2> QED
    BY <2>4, <2>5, <2>7, <2>8, Zenon DEF Store!Read
<1> QED
  BY <1>2, <1>3

-----------------------------------------------------------------------------
(* How many files there are *)

\* FileStore counts with the operator of its own module.
LEMMA SameCount == \A S : Store!Cardinality(S) = Cardinality(S)
BY DEF Store!Cardinality, Cardinality

\* A function that is one-to-one and onto.
LEMMA EqualCount ==
  ASSUME NEW S, NEW T, IsFiniteSet(T), NEW f \in [S -> T],
         \A x, y \in S : f[x] = f[y] => x = y,
         \A z \in T : \E x \in S : f[x] = z
  PROVE  Cardinality(S) = Cardinality(T)
<1>1. f \in Injection(S, T) /\ f \in Surjection(S, T)
  BY DEF Injection, IsInjective, Surjection
<1> QED
  BY <1>1, FS_Injection

\* A table of n places of which one is not counted, as the root's is not.
LEMMA PlacesCount ==
  ASSUME NEW n \in Nat \ {0}, NEW root \in 0 .. n - 1, NEW S, S \subseteq (0 .. n - 1) \ {root}
  PROVE  /\ IsFiniteSet(S) /\ Cardinality(S) \in Nat
         /\ S = (0 .. n - 1) \ {root} => Cardinality(S) = n - 1
         /\ \A k \in (0 .. n - 1) \ {root} : k \notin S => Cardinality(S) < n - 1
<1> DEFINE all == (0 .. n - 1) \ {root}
<1>1. IsFiniteSet(0 .. n - 1) /\ Cardinality(0 .. n - 1) = n
  BY FS_Interval
<1>2. IsFiniteSet(all) /\ Cardinality(all) = n - 1
  BY <1>1, FS_RemoveElement
<1> HIDE DEF all
<1>3. S \in SUBSET all
  BY DEF all
<1>4. /\ IsFiniteSet(S) /\ Cardinality(S) <= Cardinality(all)
      /\ Cardinality(all) = Cardinality(S) => all = S
  BY <1>2, <1>3, FS_Subset
<1>5. Cardinality(S) \in Nat
  BY <1>4, FS_CardinalityType
<1>6. S = all => Cardinality(S) = n - 1
  BY <1>2
<1>7. \A k \in all : k \notin S => Cardinality(S) < n - 1
  <2> SUFFICES ASSUME NEW k \in all, k \notin S PROVE Cardinality(S) < n - 1
    OBVIOUS
  <2>1. Cardinality(S) # n - 1 /\ Cardinality(S) <= n - 1
    BY <1>2, <1>4
  <2> QED
    BY <1>5, <2>1
<1> QED
  BY <1>4, <1>5, <1>6, <1>7 DEF all

\* There are as many names as files.
LEMMA NamesCount == ASSUME Consistent PROVE Cardinality(StoredNames) = Cardinality(Files)
<1>1. OneToOne
  BY Links
<1>2. Files \subseteq Inumber
  BY DEF Files, TakenInodes
<1>3. IsFiniteSet(Files)
  <2>1. ROOT_DIR_INUM \in 0 .. NumInodes - 1 /\ Files \subseteq (0 .. NumInodes - 1) \ {ROOT_DIR_INUM}
    BY <1>2, SizesAssumption DEF Files, Inumber, ROOT_DIR_INUM
  <2> QED
    BY <2>1, SizesAssumption, PlacesCount
<1> DEFINE f == [name \in StoredNames |-> InodeOf(name)]
<1>4. f \in [StoredNames -> Files]
  BY <1>1 DEF OneToOne
<1>5. \A x, y \in StoredNames : f[x] = f[y] => x = y
  BY <1>1 DEF OneToOne
<1>6. \A z \in Files : \E x \in StoredNames : f[x] = z
  BY <1>1 DEF OneToOne
<1> HIDE DEF f
<1> QED
  BY <1>3, <1>4, <1>5, <1>6, EqualCount

\* And as many live entries as names.
LEMMA EntriesCount ==
  ASSUME Consistent
  PROVE  IsFiniteSet(LiveEntries) /\ Cardinality(LiveEntries) = Cardinality(StoredNames)
<1>1. IsFiniteSet(Entry)
  BY FS_Interval, SizesAssumption DEF Entry
<1>2. IsFiniteSet(LiveEntries)
  BY <1>1, FS_Subset DEF LiveEntries
<1> DEFINE f == [i \in LiveEntries |-> dir[i].d_name]
<1>3. f \in [LiveEntries -> StoredNames]
  BY DEF StoredNames
<1>4. \A i, j \in LiveEntries : f[i] = f[j] => i = j
  BY DEF Consistent, DirectoryConsistent
<1>5. \A name \in StoredNames : \E i \in LiveEntries : f[i] = name
  BY DEF StoredNames
<1> HIDE DEF f
<1>6. f \in Injection(LiveEntries, StoredNames) /\ f \in Surjection(LiveEntries, StoredNames)
  BY <1>3, <1>4, <1>5 DEF Injection, IsInjective, Surjection
<1> QED
  BY <1>2, <1>6, FS_Surjection

\* As long as there is an inode and an entry left, the store has room for a
\* file; without one of them it is full.
LEMMA RoomForFile ==
  ASSUME Consistent
  PROVE  LET full == Smaller(NumInodes - 1, NumEntries)
         IN  /\ Cardinality(StoredNames) \in Nat
             /\ freeinode_ts # {} /\ LiveEntries # Entry => Cardinality(StoredNames) < full
             /\ freeinode_ts = {} \/ LiveEntries = Entry => Cardinality(StoredNames) >= full
<1> DEFINE count == Cardinality(StoredNames)
<1>1. /\ ROOT_DIR_INUM \in 0 .. NumInodes - 1
      /\ Files \subseteq (0 .. NumInodes - 1) \ {ROOT_DIR_INUM}
      /\ NumInodes \in Nat \ {0} /\ NumEntries \in Nat
  BY SizesAssumption DEF Files, TakenInodes, Inumber, ROOT_DIR_INUM
<1>2. /\ count \in Nat
      /\ Files = (0 .. NumInodes - 1) \ {ROOT_DIR_INUM} => count = NumInodes - 1
      /\ \A k \in (0 .. NumInodes - 1) \ {ROOT_DIR_INUM} : k \notin Files => count < NumInodes - 1
  BY <1>1, NamesCount, PlacesCount
<1>3. freeinode_ts = {} => count = NumInodes - 1
  BY <1>2 DEF Files, TakenInodes, Inumber
<1>4. freeinode_ts # {} => count < NumInodes - 1
  <2> SUFFICES ASSUME NEW n \in freeinode_ts PROVE count < NumInodes - 1
    OBVIOUS
  <2>1. n \in Inumber /\ n # ROOT_DIR_INUM /\ n \notin Files
    BY DEF Consistent, TypeOK, BlocksOwned, BlockOwners, TakenInodes, Files
  <2> QED
    BY <1>2, <2>1 DEF Inumber
<1>5. IsFiniteSet(Entry) /\ Cardinality(Entry) = NumEntries
  <2>1. /\ IsFiniteSet(0 .. NumEntries - 1)
        /\ Cardinality(0 .. NumEntries - 1) = IF 0 > NumEntries - 1 THEN 0 ELSE NumEntries - 1 - 0 + 1
    BY <1>1, FS_Interval
  <2> QED
    BY <1>1, <2>1 DEF Entry
<1>6. LiveEntries = Entry => count = NumEntries
  BY <1>5, EntriesCount
<1>7. LiveEntries # Entry => count < NumEntries
  <2>1. LiveEntries \in SUBSET Entry
    BY DEF LiveEntries
  <2>2. count <= NumEntries /\ (count = NumEntries => LiveEntries = Entry)
    BY <1>5, <2>1, EntriesCount, FS_Subset
  <2> QED
    BY <1>1, <1>2, <2>2
<1> HIDE DEF count
<1>8. /\ freeinode_ts # {} /\ LiveEntries # Entry => count < Smaller(NumInodes - 1, NumEntries)
      /\ freeinode_ts = {} \/ LiveEntries = Entry => count >= Smaller(NumInodes - 1, NumEntries)
  BY <1>1, <1>2, <1>3, <1>4, <1>6, <1>7 DEF Smaller
<1> QED
  BY <1>2, <1>8 DEF count

\* The names of the files that hold bytes.
NonEmpty == {name \in DOMAIN StoredFiles : StoredFiles[name] # <<>>}

\* As long as there is a block left, the store has room for another one.
LEMMA RoomForBytes ==
  ASSUME Consistent, Alive
  PROVE  /\ free_blocks # {} => Cardinality(NonEmpty) < NumBlocks - 1
         /\ free_blocks = {} => Cardinality(NonEmpty) >= NumBlocks - 1
<1> DEFINE root == inode_table[ROOT_DIR_INUM].i_data_block
           used == (Block \ free_blocks) \ {root}
<1>1. OneToOne /\ Contents
  BY Links, ContentsTyped
<1>2. /\ root \in Block \ free_blocks /\ ROOT_DIR_INUM \in BlockOwners
      /\ BlockOwners \ {ROOT_DIR_INUM} = {n \in Files : inode_table[n].i_size > 0}
  BY DEF Consistent, BlocksOwned, BlockOwners, Files
<1>3. Files \subseteq Inumber
  BY DEF Files, TakenInodes
<1>4. \A name \in NonEmpty : /\ name \in StoredNames
                             /\ InodeOf(name) \in BlockOwners \ {ROOT_DIR_INUM}
  <2> SUFFICES ASSUME NEW name \in NonEmpty
               PROVE  name \in StoredNames /\ InodeOf(name) \in BlockOwners \ {ROOT_DIR_INUM}
    OBVIOUS
  <2>1. name \in StoredNames /\ Content(InodeOf(name)) # <<>>
    BY DEF NonEmpty, StoredFiles
  <2>2. InodeOf(name) \in Files /\ InodeOf(name) \in Inumber
    BY <1>1, <1>3, <2>1 DEF OneToOne
  <2>3. inode_table[InodeOf(name)].i_size # 0 /\ inode_table[InodeOf(name)].i_size \in 0 .. BlockSize
    BY <1>1, <2>1, <2>2 DEF Contents
  <2> QED
    BY <1>2, <2>1, <2>2, <2>3, SizesAssumption
<1>5. \A n \in BlockOwners \ {ROOT_DIR_INUM} : NameOf(n) \in NonEmpty /\ InodeOf(NameOf(n)) = n
  <2> SUFFICES ASSUME NEW n \in BlockOwners \ {ROOT_DIR_INUM}
               PROVE  NameOf(n) \in NonEmpty /\ InodeOf(NameOf(n)) = n
    OBVIOUS
  <2>1. n \in Files /\ n \in Inumber /\ inode_table[n].i_size > 0
    BY <1>2, <1>3
  <2>2. NameOf(n) \in StoredNames /\ InodeOf(NameOf(n)) = n
    BY <1>1, <2>1 DEF OneToOne
  <2>3. Content(n) # <<>>
    BY <1>1, <2>1 DEF Contents
  <2> QED
    BY <2>2, <2>3 DEF NonEmpty, StoredFiles
<1>6. /\ \A n \in BlockOwners : inode_table[n].i_data_block \in Block \ free_blocks
      /\ \A m, n \in BlockOwners :
           inode_table[m].i_data_block = inode_table[n].i_data_block => m = n
      /\ \A b \in Block \ free_blocks : \E n \in BlockOwners : inode_table[n].i_data_block = b
  BY DEF Consistent, BlocksOwned, Alive, NoLeakedBlock
<1> DEFINE f == [name \in NonEmpty |-> inode_table[InodeOf(name)].i_data_block]
<1>7. f \in [NonEmpty -> used]
  BY <1>2, <1>4, <1>6
<1>8. \A x, y \in NonEmpty : f[x] = f[y] => x = y
  <2> SUFFICES ASSUME NEW x \in NonEmpty, NEW y \in NonEmpty, f[x] = f[y] PROVE x = y
    OBVIOUS
  <2>1. InodeOf(x) = InodeOf(y)
    BY <1>4, <1>6
  <2> QED
    BY <1>1, <1>4, <2>1 DEF OneToOne
<1>9. \A b \in used : \E x \in NonEmpty : f[x] = b
  <2> SUFFICES ASSUME NEW b \in used PROVE \E x \in NonEmpty : f[x] = b
    OBVIOUS
  <2>1. PICK n \in BlockOwners \ {ROOT_DIR_INUM} : inode_table[n].i_data_block = b
    BY <1>6
  <2> QED
    BY <1>5, <2>1
<1>10. used \subseteq (0 .. NumBlocks - 1) \ {root} /\ root \in 0 .. NumBlocks - 1 /\ NumBlocks \in Nat \ {0}
  BY <1>2, SizesAssumption DEF Block
<1>11. free_blocks = {} => used = (0 .. NumBlocks - 1) \ {root}
  BY DEF Block
<1>12. \A b \in free_blocks : b \in (0 .. NumBlocks - 1) \ {root} /\ b \notin used
  BY <1>2 DEF Consistent, TypeOK, Block
<1> HIDE DEF used, root, f
<1>13. /\ IsFiniteSet(used) /\ Cardinality(used) \in Nat
       /\ used = (0 .. NumBlocks - 1) \ {root} => Cardinality(used) = NumBlocks - 1
       /\ \A k \in (0 .. NumBlocks - 1) \ {root} : k \notin used => Cardinality(used) < NumBlocks - 1
  BY <1>10, PlacesCount
<1>14. Cardinality(NonEmpty) = Cardinality(used)
  BY <1>7, <1>8, <1>9, <1>13, EqualCount
<1> QED
  BY <1>11, <1>12, <1>13, <1>14, SizesAssumption

-----------------------------------------------------------------------------
(* tfs_write *)

\* The bytes of the file after a write, when the handle is not past its end.
LEMMA WriteContent ==
  ASSUME Consistent, NEW h \in Handle, NEW n \in Inumber, open_file_table[h].of_inumber = n,
         NEW pos \in Nat, open_file_table[h].of_offset = pos,
         pos <= inode_table[n].i_size,
         NEW count \in Nat, count > 0, pos + count <= BlockSize,
         NEW b \in WriteTarget(inode_table[n]), b \in Block,
         NEW buffer, WriteBytes(h, b, count, buffer)
  PROVE  Content(n)' = Store!Overwrite(Content(n), pos, buffer, count)
<1> DEFINE size  == inode_table[n].i_size
           grown == Larger(size, pos + count)
<1>1. size \in 0 .. BlockSize /\ size \in Nat /\ Len(Content(n)) = size
  BY ContentsTyped, SizesAssumption DEF Contents
<1>2. grown = (IF pos + count > Len(Content(n)) THEN pos + count ELSE Len(Content(n)))
  <2> HIDE DEF size
  <2> QED
    BY <1>1 DEF Larger
<1>3. inode_table'[n].i_size = grown /\ inode_table'[n].i_data_block = b
  BY DEF WriteBytes, Consistent, TypeOK
<1>4. \A k \in Offset :
        fs_data'[b][k] = IF pos <= k /\ k < pos + count THEN buffer[k - pos + 1] ELSE fs_data[b][k]
  BY DEF WriteBytes, Consistent, TypeOK
<1>5. ASSUME NEW k \in 1 .. grown
      PROVE  fs_data'[b][k - 1] = IF pos < k /\ k <= pos + count THEN buffer[k - pos]
                                                                ELSE Content(n)[k]
  <2>1. k \in Nat /\ k - 1 \in Offset /\ k - 1 - pos + 1 = k - pos /\ (k <= size \/ k <= pos + count)
    <3> HIDE DEF size
    <3> QED
      BY <1>1, <1>2, SizesAssumption DEF Offset
  <2>2. CASE pos < k /\ k <= pos + count
    <3>1. pos <= k - 1 /\ k - 1 < pos + count
      BY <2>1, <2>2
    <3>2. fs_data'[b][k - 1] = buffer[k - 1 - pos + 1]
      BY <1>4, <2>1, <3>1
    <3> QED
      BY <2>1, <2>2, <3>2
  <2>3. CASE ~(pos < k /\ k <= pos + count)
    <3>1. ~(pos <= k - 1 /\ k - 1 < pos + count) /\ k \in 1 .. size /\ size # 0
      <4>1. pos <= size
        OBVIOUS
      <4> HIDE DEF size
      <4> QED
        BY <1>1, <2>1, <2>3, <4>1
    <3>2. fs_data'[b][k - 1] = fs_data[b][k - 1]
      BY <1>4, <2>1, <3>1
    <3>3. b = inode_table[n].i_data_block
      BY <3>1 DEF WriteTarget
    <3>4. Content(n)[k] = fs_data[b][k - 1]
      BY <3>1, <3>3 DEF Content
    <3> QED
      BY <2>3, <3>2, <3>4
  <2> QED
    BY <2>2, <2>3
<1>6. Content(n)' = [k \in 1 .. grown |-> fs_data'[b][k - 1]]
  BY <1>3 DEF Content
<1> HIDE DEF grown
<1>7. Content(n)' = [k \in 1 .. grown |-> IF pos < k /\ k <= pos + count THEN buffer[k - pos]
                                                                        ELSE Content(n)[k]]
  BY <1>5, <1>6
<1> QED
  BY <1>2, <1>7 DEF Store!Overwrite

\* No other file has bytes in the block that is written.
LEMMA WriteOthers ==
  ASSUME Consistent, NEW h \in Handle, NEW n \in Files, open_file_table[h].of_inumber = n,
         NEW count, NEW b \in WriteTarget(inode_table[n]), b \in Block,
         NEW buffer, WriteBytes(h, b, count, buffer),
         NEW m \in Files, m # n
  PROVE  Content(m)' = Content(m)
<1>1. /\ m \in Inumber /\ n \in Inumber /\ m \in TakenInodes /\ n \in TakenInodes
  BY DEF Files, TakenInodes
<1>2. inode_table'[m] = inode_table[m]
  BY <1>1 DEF WriteBytes, Consistent, TypeOK
<1>3. \A c \in Block : c # b => fs_data'[c] = fs_data[c]
  BY DEF WriteBytes, Consistent, TypeOK
<1>4. ASSUME inode_table[m].i_size > 0
      PROVE  fs_data'[inode_table[m].i_data_block] = fs_data[inode_table[m].i_data_block]
  <2>1. m \in BlockOwners /\ inode_table[m].i_data_block \in Block \ free_blocks
    BY <1>1, <1>4 DEF Consistent, BlocksOwned, BlockOwners
  <2>2. CASE inode_table[n].i_size = 0
    BY <1>3, <2>1, <2>2 DEF WriteTarget, data_block_alloc, First
  <2>3. CASE inode_table[n].i_size # 0
    <3>1. n \in BlockOwners /\ b = inode_table[n].i_data_block
      BY <1>1, <2>3, SizesAssumption DEF WriteTarget, BlockOwners, Consistent, TypeOK, inode_t
    <3> QED
      BY <1>3, <2>1, <3>1 DEF Consistent, BlocksOwned
  <2> QED
    BY <2>2, <2>3
<1> QED
  BY <1>1, <1>2, <1>4, SameContent

\* Writing nothing leaves the file as it is.
LEMMA WriteNothing ==
  ASSUME NEW S, NEW content \in Seq(S), NEW pos \in Nat, pos <= Len(content), NEW buffer
  PROVE  Store!Overwrite(content, pos, buffer, 0) = content
<1>1. Len(content) \in Nat /\ content = [k \in 1 .. Len(content) |-> content[k]]
  BY LenProperties
<1>2. (IF pos + 0 > Len(content) THEN pos + 0 ELSE Len(content)) = Len(content)
  BY <1>1
<1>3. \A k \in 1 .. Len(content) : ~(pos < k /\ k <= pos + 0)
  BY <1>1
<1> QED
  BY <1>1, <1>2, <1>3 DEF Store!Overwrite
\* The step in which bytes are written.
LEMMA WriteBytesImplements ==
  ASSUME Consistent, Alive, NEW h \in OpenHandles,
         NEW count \in Nat, count > 0, open_file_table[h].of_offset + count <= BlockSize,
         NEW b \in WriteTarget(inode_table[open_file_table[h].of_inumber]),
         NEW buffer, WriteBytes(h, b, count, buffer)
  PROVE  LET n       == open_file_table[h].of_inumber
             pos     == open_file_table[h].of_offset
             content == Content(n)
             name    == StoredHandles[h].name
         IN  /\ StoredFiles' = Store!Put(StoredFiles, name,
                                         Store!Overwrite(content, pos, buffer, count))
             /\ StoredHandles' = Store!Put(StoredHandles, h, [name |-> name, pos |-> pos + count])
             /\ ret' = [val |-> count, data |-> <<>>]
             /\ content # <<>> \/ Store!Cardinality(NonEmpty) < NumBlocks - 1
<1>1. PICK n, pos, content, name :
        /\ n = open_file_table[h].of_inumber /\ pos = open_file_table[h].of_offset
        /\ content = Content(n) /\ name = StoredHandles[h].name
  OBVIOUS
<1>2. /\ n \in Files /\ n \in Inumber /\ h \in Handle /\ pos \in Nat
      /\ pos <= inode_table[n].i_size /\ inode_table[n].i_size \in 0 .. BlockSize
  BY <1>1, HandlesFile, HandleInFile DEF Consistent
<1>3. name \in StoredNames /\ InodeOf(name) = n /\ name = NameOf(n)
  BY <1>1, OpenHandle
<1>4. b \in Block
  BY <1>1, <1>2, SizesAssumption DEF WriteTarget, data_block_alloc, First, Consistent, TypeOK
<1>5. /\ UNCHANGED dir /\ ret' = [val |-> count, data |-> <<>>] /\ OpenHandles' = OpenHandles
      /\ open_file_table'[h].of_inumber = n /\ open_file_table'[h].of_offset = pos + count
      /\ \A k \in OpenHandles \ {h} : open_file_table'[k] = open_file_table[k]
  BY <1>1, <1>2 DEF WriteBytes, Return, OpenHandles, Consistent, TypeOK, open_file_entry_t
<1>6. /\ StoredNames' = StoredNames
      /\ \A other : InodeOf(other)' = InodeOf(other)
      /\ \A m : NameOf(m)' = NameOf(m)
  BY <1>5, SameDirectory
<1>7. Content(InodeOf(name))' = Store!Overwrite(content, pos, buffer, count)
  <2>1. Content(n)' = Store!Overwrite(Content(n), pos, buffer, count)
    BY <1>1, <1>2, <1>4, WriteContent
  <2> QED
    BY <1>1, <1>3, <1>6, <2>1
<1>8. ASSUME NEW other \in StoredNames \ {name}
      PROVE  Content(InodeOf(other))' = Content(InodeOf(other))
  <2>1. PICK m : m = InodeOf(other)
    OBVIOUS
  <2>2. m \in Files /\ m # n
    BY <1>3, <1>8, <2>1, Links DEF OneToOne
  <2>3. Content(m)' = Content(m)
    BY <1>1, <1>2, <1>4, <2>2, WriteOthers
  <2> QED
    BY <1>6, <2>1, <2>3
<1>9. StoredFiles' = Store!Put(StoredFiles, name, Store!Overwrite(content, pos, buffer, count))
  BY <1>3, <1>6, <1>7, <1>8, FilePut
<1>10. StoredHandles' = Store!Put(StoredHandles, h, [name |-> name, pos |-> pos + count])
  BY <1>3, <1>5, <1>6, HandlePut
<1>11. content # <<>> \/ Store!Cardinality(NonEmpty) < NumBlocks - 1
  <2>1. CASE inode_table[n].i_size = 0
    <3>1. free_blocks # {}
      BY <1>1, <2>1 DEF WriteTarget, data_block_alloc, First
    <3> QED
      BY <3>1, RoomForBytes, SameCount
  <2>2. CASE inode_table[n].i_size # 0
    BY <1>1, <1>2, <2>2, ContentsTyped DEF Contents
  <2> QED
    BY <2>1, <2>2
<1> QED
  BY <1>1, <1>5, <1>9, <1>10, <1>11

\* tfs_write puts the bytes at the offset, fewer at the end of the block, and
\* fails only when the file needs a block and there is none.
LEMMA WriteImplements ==
  ASSUME Consistent, Alive, NEW h, NEW buffer \in Buffer, tfs_write(h, buffer)
  PROVE  Store!Write(h, buffer)
<1> DEFINE n       == open_file_table[h].of_inumber
           pos     == open_file_table[h].of_offset
           count   == WriteLength(h, Len(buffer))
           size    == inode_table[n].i_size
           content == Content(n)
           name    == StoredHandles[h].name
<1>1. DOMAIN StoredHandles = OpenHandles /\ DOMAIN StoredFiles = StoredNames
  BY DEF StoredHandles, StoredFiles
<1>2. CASE ~get_open_file_entry(h)
  <2>1. h \notin OpenHandles /\ UNCHANGED <<fileVars, openVars>> /\ Return(Fail)
    BY <1>2 DEF tfs_write, get_open_file_entry, OpenHandles
  <2> QED
    BY <1>1, <2>1, StoreFails DEF Store!Write
<1>3. CASE get_open_file_entry(h)
  <2>1. h \in OpenHandles /\ h \in Handle /\ n \in Files
    BY <1>3, HandlesFile DEF get_open_file_entry, OpenHandles
  <2>2. Len(buffer) \in Nat
    <3>1. PICK len \in 0 .. MaxLen : buffer \in [1 .. len -> Byte]
      BY DEF Buffer
    <3> QED
      BY <3>1, SizesAssumption
  <2>3. /\ n \in Inumber /\ pos \in Nat /\ size \in 0 .. BlockSize /\ pos <= size
        /\ count \in 0 .. BlockSize /\ pos + count <= BlockSize
    BY <2>1, <2>2, HandleInFile, LengthsFit DEF Consistent
  <2>4. /\ content \in Seq(Byte \cup {Stale}) /\ Len(content) = size
        /\ content = <<>> <=> size = 0
    BY <2>3, ContentsTyped DEF Contents
  <2>5. count = IF pos + Len(buffer) > BlockSize THEN BlockSize - pos ELSE Len(buffer)
    <3>1. SizeSub(BlockSize, pos) = BlockSize - pos
      <4> HIDE DEF pos, size
      <4> QED
        BY <2>3, SizesAssumption DEF SizeSub
    <3>2. count = IF Len(buffer) + pos > BlockSize THEN BlockSize - pos ELSE Len(buffer)
      BY <3>1 DEF WriteLength
    <3> HIDE DEF pos, count
    <3> QED
      BY <2>2, <2>3, <3>2
  <2>6. /\ h \in DOMAIN StoredHandles /\ StoredHandles[h].pos = pos
        /\ name = NameOf(n) /\ StoredFiles[name] = content
        /\ name \in StoredNames /\ InodeOf(name) = n
    BY <2>1, OpenHandle
  <2>7. \/ count = 0 /\ Return(0) /\ UNCHANGED <<fileVars, openVars>>
        \/ count > 0 /\ WriteTarget(inode_table[n]) = {} /\ Return(Fail) /\ UNCHANGED <<fileVars, openVars>>
        \/ count > 0 /\ \E b \in WriteTarget(inode_table[n]) : WriteBytes(h, b, count, buffer)
    <3>1. ~(count > BlockSize)
      <4> HIDE DEF count
      <4> QED
        BY <2>3, SizesAssumption
    <3> QED
      BY <1>3, <3>1 DEF tfs_write
  \* The three ends of the call, in the words of the store.
  <2>8. CASE count = 0 /\ Return(0) /\ UNCHANGED <<fileVars, openVars>>
    <3>1. Store!Overwrite(content, pos, buffer, 0) = content
      <4> HIDE DEF content, pos, size
      <4> QED
        BY <2>3, <2>4, WriteNothing
    <3>2. /\ StoredFiles' = StoredFiles /\ StoredHandles' = StoredHandles
      BY <2>8, NothingMoves
    <3>3. StoredFiles = Store!Put(StoredFiles, name, content)
      BY <1>1, <2>6 DEF Store!Put, StoredFiles
    <3>4. StoredHandles = Store!Put(StoredHandles, h, [name |-> name, pos |-> pos])
      <4>1. StoredHandles[h] = [name |-> name, pos |-> pos]
        BY <2>1, <2>6, OpenHandle
      <4> QED
        BY <2>6, <4>1 DEF Store!Put, StoredHandles
    <3> HIDE DEF count, content, pos, n, name
    <3>5. pos + count = pos
      BY <2>3, <2>8
    <3>6. ret' = [val |-> count, data |-> <<>>]
      BY <2>8 DEF Return
    <3> QED
      BY <2>5, <2>6, <2>8, <3>1, <3>2, <3>3, <3>4, <3>5, <3>6
      DEF Store!Write, Store!Returns, name
  <2>9. CASE count > 0 /\ WriteTarget(inode_table[n]) = {} /\ Return(Fail)
              /\ UNCHANGED <<fileVars, openVars>>
    <3>1. size = 0 /\ First(free_blocks) = {}
      BY <2>9 DEF WriteTarget, data_block_alloc
    <3>2. free_blocks \in SUBSET Nat
      BY SizesAssumption DEF Consistent, TypeOK, Block
    <3>3. free_blocks = {}
      BY <3>1, <3>2, ScanFinds
    <3>4. Store!Cardinality(NonEmpty) >= NumBlocks - 1
      BY <3>3, RoomForBytes, SameCount
    <3>5. Store!Fails
      BY <2>9, StoreFails
    <3>6. content = <<>>
      BY <2>4, <3>1
    <3> HIDE DEF count, content, pos, n
    <3> QED
      BY <2>5, <2>6, <2>9, <3>4, <3>5, <3>6 DEF Store!Write, NonEmpty
  <2>10. ASSUME count > 0, NEW b \in WriteTarget(inode_table[n]), WriteBytes(h, b, count, buffer)
         PROVE  Store!Write(h, buffer)
    <3>1. /\ StoredFiles' = Store!Put(StoredFiles, name, Store!Overwrite(content, pos, buffer, count))
          /\ StoredHandles' = Store!Put(StoredHandles, h, [name |-> name, pos |-> pos + count])
          /\ ret' = [val |-> count, data |-> <<>>]
          /\ content # <<>> \/ Store!Cardinality(NonEmpty) < NumBlocks - 1
      <4> HIDE DEF count
      <4>1. count \in Nat
        BY <2>3, SizesAssumption
      <4> QED
        BY <2>1, <2>3, <2>10, <4>1, WriteBytesImplements
    <3> HIDE DEF count, content, pos, n, name
    <3> QED
      BY <2>5, <2>6, <2>10, <3>1 DEF Store!Write, Store!Returns, NonEmpty, name
  <2> QED
    BY <2>7, <2>8, <2>9, <2>10
<1> QED
  BY <1>2, <1>3

-----------------------------------------------------------------------------
(* tfs_open *)

\* The last part of an open, which finds a handle or is without one.
LEMMA AttachImplements ==
  ASSUME Consistent, Alive, NEW n, NEW pos, NEW name, add_to_open_file_table(n, pos),
         NameOf(n)' = name, \A m \in Files : NameOf(m)' = NameOf(m)
  PROVE  Store!Attach(name, pos)
<1>1. DOMAIN StoredHandles = OpenHandles /\ Store!Handle = Handle
  BY DEF StoredHandles, Store!Handle, Handle
<1>2. CASE free_open_file_entries = {}
  <2>1. UNCHANGED openVars /\ Return(Fail) /\ OpenHandles = Handle
    BY <1>2 DEF add_to_open_file_table, First, OpenHandles
  <2>2. StoredHandles' = StoredHandles
    BY <2>1, HandlesSame
  <2> QED
    BY <1>1, <2>1, <2>2 DEF Store!Attach, Store!Returns, Return, Fail
<1>3. ASSUME NEW h \in First(free_open_file_entries),
             free_open_file_entries' = free_open_file_entries \ {h},
             open_file_table' =
               [open_file_table EXCEPT ![h] = [of_inumber |-> n, of_offset |-> pos]],
             Return(h)
      PROVE  Store!Attach(name, pos)
  <2>1. /\ h \in Handle \ OpenHandles /\ OpenHandles' = OpenHandles \cup {h}
        /\ open_file_table'[h].of_inumber = n /\ open_file_table'[h].of_offset = pos
        /\ \A k \in OpenHandles \ {h} : open_file_table'[k] = open_file_table[k]
    BY <1>3 DEF First, Consistent, TypeOK, OpenHandles
  <2>2. StoredHandles' = Store!Put(StoredHandles, h, [name |-> name, pos |-> pos])
    BY <2>1, HandlePut
  <2> QED
    BY <1>1, <1>3, <2>1, <2>2 DEF Store!Attach, Store!Returns, Return
<1> QED
  BY <1>2, <1>3 DEF add_to_open_file_table

\* A file that exists is opened, and truncated when nobody has it open.
LEMMA OpenExistingImplements ==
  ASSUME Consistent, Alive, Consistent', NEW path, NEW mode, NEW n \in find_in_dir(path),
         OpenExisting(n, mode),
         "TRUNC" \in mode => \A h \in OpenHandles : open_file_table[h].of_inumber # n
  PROVE  Store!OpenFile(path, mode)
<1>1. /\ path \in StoredNames /\ InodeOf(path) = n /\ n \in Files /\ n \in Inumber
      /\ NameOf(n) = path
  BY Links DEF OneToOne, Files, TakenInodes
<1>2. DOMAIN StoredFiles = StoredNames /\ StoredFiles[path] = Content(n)
  BY <1>1 DEF StoredFiles
<1>3. /\ StoredNames' = StoredNames
      /\ \A name : InodeOf(name)' = InodeOf(name)
      /\ \A m : NameOf(m)' = NameOf(m)
  BY SameDirectory DEF OpenExisting
<1>4. /\ fs_data' = fs_data
      /\ inode_table'[n].i_size = SizeAfterOpen(n, mode)
      /\ \A m \in Inumber : inode_table'[m].i_data_block = inode_table[m].i_data_block
      /\ \A m \in Inumber \ {n} : inode_table'[m].i_size = inode_table[m].i_size
  BY <1>1 DEF OpenExisting, Consistent, TypeOK, inode_t
<1>5. PICK content : content = IF "TRUNC" \in mode THEN <<>> ELSE StoredFiles[path]
  OBVIOUS
<1>6. Content(n)' = content /\ Len(content) = SizeAfterOpen(n, mode)
  <2>1. CASE "TRUNC" \in mode
    <3>1. inode_table'[n].i_size = 0
      BY <1>4, <2>1 DEF SizeAfterOpen
    <3>2. Content(n)' = <<>>
      BY <1>1, <3>1, ContentsNext DEF Contents
    <3> QED
      BY <1>5, <2>1, <3>2 DEF SizeAfterOpen
  <2>2. CASE "TRUNC" \notin mode
    <3>1. inode_table'[n].i_size = inode_table[n].i_size
      BY <1>4, <2>2 DEF SizeAfterOpen
    <3>2. Content(n)' = Content(n)
      BY <1>1, <1>4, <3>1, SameContent
    <3> QED
      BY <1>1, <1>2, <1>5, <2>2, <3>2, ContentsTyped DEF SizeAfterOpen, Contents
  <2> QED
    BY <2>1, <2>2
<1>7. ASSUME NEW other \in StoredNames \ {path}
      PROVE  Content(InodeOf(other))' = Content(InodeOf(other))
  <2>1. PICK m : m = InodeOf(other)
    OBVIOUS
  <2>2. m \in Inumber \ {n}
    BY <1>1, <1>7, <2>1, Links DEF OneToOne, Files, TakenInodes
  <2>3. Content(m)' = Content(m)
    BY <1>4, <2>2, SameContent
  <2> QED
    BY <1>3, <2>1, <2>3
<1>8. StoredFiles' = Store!Put(StoredFiles, path, content)
  <2>1. Content(InodeOf(path))' = content
    BY <1>1, <1>3, <1>6
  <2> QED
    BY <1>1, <1>3, <1>7, <2>1, FilePut
<1>9. Store!Attach(path, IF "APPEND" \in mode THEN Len(content) ELSE 0)
  <2>1. PICK pos : pos = InitialOffset(n, mode)
    OBVIOUS
  <2>2. Store!Attach(path, pos)
    BY <1>1, <1>3, <2>1, AttachImplements DEF OpenExisting
  <2> QED
    BY <1>6, <2>1, <2>2 DEF InitialOffset
<1>10. "TRUNC" \in mode => ~Store!InUse(path)
  <2> SUFFICES ASSUME "TRUNC" \in mode, NEW h \in DOMAIN StoredHandles, StoredHandles[h].name = path
               PROVE  FALSE
    BY DEF Store!InUse
  <2>1. h \in OpenHandles
    BY DEF StoredHandles
  <2>2. open_file_table[h].of_inumber = n
    BY <1>1, <2>1, OpenHandle
  <2> QED
    BY <2>1, <2>2
<1> QED
  BY <1>1, <1>2, <1>5, <1>8, <1>9, <1>10 DEF Store!OpenFile

\* An inode that was FREE may change: no file is in it.
LEMMA FilesKeepContent ==
  ASSUME Consistent, NEW n \in freeinode_ts, inode_table' = [inode_table EXCEPT ![n] = NewFileInode],
         UNCHANGED blockVars
  PROVE  \A m \in Files : Content(m)' = Content(m)
<1> SUFFICES ASSUME NEW m \in Files PROVE Content(m)' = Content(m)
  OBVIOUS
<1>1. m \in Inumber /\ m # n
  BY DEF Files, TakenInodes
<1>2. inode_table'[m] = inode_table[m]
  BY <1>1 DEF Consistent, TypeOK
<1> QED
  BY <1>1, <1>2, SameContent DEF blockVars

\* tfs_open creates a file as long as there is an inode and an entry.
LEMMA OpenCreateImplements ==
  ASSUME Consistent, Alive, Consistent', NEW path \in Name, find_in_dir(path) = {},
         OpenCreate(path), NEW mode, "CREAT" \in mode
  PROVE  Store!Open(path, mode)
<1>1. path \notin StoredNames
  BY Links DEF OneToOne
<1>2. DOMAIN StoredFiles = StoredNames /\ UNCHANGED blockVars
  BY DEF StoredFiles, OpenCreate
<1>3. ASSUME Store!Fails,
             path \in LongName \/ Cardinality(StoredNames) >= Smaller(NumInodes - 1, NumEntries)
      PROVE  Store!Open(path, mode)
  BY <1>1, <1>2, <1>3, SameCount DEF Store!Open, Store!RefuseOpen
<1>4. CASE freeinode_ts = {} /\ Return(Fail) /\ UNCHANGED <<inodeVars, dir, openVars>>
  <2>1. Store!Fails
    BY <1>2, <1>4, StoreFails DEF fileVars
  <2> QED
    BY <1>3, <1>4, <2>1, RoomForFile
<1>5. ASSUME NEW n \in freeinode_ts, inode_table' = [inode_table EXCEPT ![n] = NewFileInode],
             CreateWithoutEntry(n, path)
      PROVE  Store!Open(path, mode)
  <2>1. UNCHANGED <<dir, openVars>> /\ Return(Fail) /\ add_dir_entry(path) = {}
    BY <1>5 DEF CreateWithoutEntry
  <2>2. /\ StoredNames' = StoredNames
        /\ \A name : InodeOf(name)' = InodeOf(name)
        /\ \A m : NameOf(m)' = NameOf(m)
    BY <2>1, SameDirectory
  <2>3. ASSUME NEW name \in StoredNames
        PROVE  Content(InodeOf(name))' = Content(InodeOf(name))
    <3>1. PICK m : m = InodeOf(name)
      OBVIOUS
    <3>2. m \in Files
      BY <2>3, <3>1, Links DEF OneToOne
    <3>3. Content(m)' = Content(m)
      BY <1>2, <1>5, <3>2, FilesKeepContent
    <3> QED
      BY <2>2, <3>1, <3>3
  <2>4. StoredFiles' = StoredFiles /\ StoredHandles' = StoredHandles
    <3>1. StoredHandles' = StoredHandles
      BY <2>1, <2>2, HandlesSame
    <3> QED
      BY <2>2, <2>3, <3>1 DEF StoredFiles
  <2>5. Store!Fails
    BY <2>1, <2>4 DEF Store!Fails, Store!Returns, Return, Fail
  <2>6. path \in LongName \/ LiveEntries = Entry
    <3>1. CASE path \notin LongName
      <4>1. {i \in Entry : dir[i].d_inumber = Fail} \in SUBSET Nat
        BY SizesAssumption DEF Entry
      <4>2. {i \in Entry : dir[i].d_inumber = Fail} = {}
        BY <2>1, <3>1, <4>1, ScanFinds DEF add_dir_entry
      <4> QED
        BY <4>2 DEF LiveEntries
    <3> QED
      BY <3>1
  <2> QED
    BY <1>3, <2>5, <2>6, RoomForFile
<1>6. ASSUME NEW n \in freeinode_ts, inode_table' = [inode_table EXCEPT ![n] = NewFileInode],
             CreateWithEntry(n, path)
      PROVE  Store!Open(path, mode)
  <2>1. PICK i \in add_dir_entry(path) :
          /\ dir' = [dir EXCEPT ![i] = [d_name |-> path, d_inumber |-> n]]
          /\ add_to_open_file_table(n, 0)
    BY <1>6 DEF CreateWithEntry
  <2>2. path \notin LongName /\ i \in Entry /\ dir[i].d_inumber = Fail /\ i \notin LiveEntries
    BY DEF add_dir_entry, First, LiveEntries
  <2>3. n \in Inumber /\ n # Fail
    BY SizesAssumption DEF Consistent, TypeOK, Inumber, Fail
  <2>4. /\ StoredNames' = StoredNames \cup {path}
        /\ InodeOf(path)' = n /\ NameOf(n)' = path
        /\ \A name \in StoredNames : InodeOf(name)' = InodeOf(name)
        /\ \A m \in Files : NameOf(m)' = NameOf(m)
    BY <2>1, <2>2, <2>3, NameAdded
  <2>5. Content(InodeOf(path))' = <<>>
    <3>1. inode_table'[n].i_size = 0
      BY <1>6, <2>3 DEF Consistent, TypeOK, NewFileInode, NewInode
    <3>2. Content(n)' = <<>>
      BY <2>3, <3>1, ContentsNext DEF Contents
    <3> QED
      BY <2>4, <3>2
  <2>6. ASSUME NEW other \in StoredNames \ {path}
        PROVE  Content(InodeOf(other))' = Content(InodeOf(other))
    <3>1. PICK m : m = InodeOf(other)
      OBVIOUS
    <3>2. m \in Files
      BY <2>6, <3>1, Links DEF OneToOne
    <3>3. Content(m)' = Content(m)
      BY <1>2, <1>6, <3>2, FilesKeepContent
    <3> QED
      BY <2>4, <2>6, <3>1, <3>3
  <2>7. StoredFiles' = Store!Put(StoredFiles, path, <<>>)
    BY <2>4, <2>5, <2>6, FilePut
  <2>8. Store!Attach(path, 0)
    BY <2>1, <2>4, AttachImplements
  <2>9. Store!Cardinality(DOMAIN StoredFiles) < Smaller(NumInodes - 1, NumEntries)
    BY <1>2, <1>6, <2>2, RoomForFile, SameCount
  <2> QED
    BY <1>1, <1>2, <2>2, <2>7, <2>8, <2>9 DEF Store!Open, Store!CreateFile
<1> QED
  BY <1>4, <1>5, <1>6 DEF OpenCreate, inode_alloc, First

LEMMA OpenImplements ==
  ASSUME Disciplined, Consistent, Alive, Consistent', NEW path \in Path, NEW mode, CallOpen(path, mode)
  PROVE  Store!Open(path, mode)
<1>1. CASE /\ ~valid_pathname(path) \/ (tfs_lookup(path) = {} /\ "CREAT" \notin mode)
           /\ Return(Fail)
           /\ UNCHANGED <<fileVars, openVars>>
  <2>1. path \notin StoredNames
    <3>1. CASE ~valid_pathname(path)
      BY <3>1, Links, NamesAssumption DEF valid_pathname, OneToOne
    <3>2. CASE valid_pathname(path)
      BY <1>1, <3>2, Links DEF tfs_lookup, OneToOne
    <3> QED
      BY <3>1, <3>2
  <2>2. Store!Fails
    BY <1>1, StoreFails
  <2> QED
    BY <1>1, <2>1, <2>2 DEF Store!Open, Store!RefuseOpen, StoredFiles, valid_pathname
<1>2. ASSUME NEW n \in tfs_lookup(path), OpenExisting(n, mode)
      PROVE  Store!Open(path, mode)
  <2>1. n \in find_in_dir(path)
    BY <1>2 DEF tfs_lookup
  <2>2. "TRUNC" \in mode => \A h \in OpenHandles : open_file_table[h].of_inumber # n
    BY <1>2 DEF CallOpen, IsOpen, OpenHandles
  <2> QED
    BY <1>2, <2>1, <2>2, OpenExistingImplements DEF Store!Open
<1>3. CASE valid_pathname(path) /\ tfs_lookup(path) = {} /\ "CREAT" \in mode /\ OpenCreate(path)
  <2>1. path \in Name /\ find_in_dir(path) = {}
    BY <1>3 DEF Path, valid_pathname, tfs_lookup
  <2> QED
    BY <1>3, <2>1, OpenCreateImplements
<1> QED
  BY <1>1, <1>2, <1>3 DEF CallOpen, tfs_open

-----------------------------------------------------------------------------
(* tfs_unlink *)

LEMMA UnlinkImplements ==
  ASSUME Disciplined, Consistent, Alive, Consistent', NEW path \in Path, CallUnlink(path)
  PROVE  Store!Unlink(path)
<1>1. DOMAIN StoredFiles = StoredNames
  BY DEF StoredFiles
<1>2. CASE tfs_lookup(path) = {} /\ Return(Fail) /\ UNCHANGED <<fileVars, openVars>>
  <2>1. path \notin StoredNames
    BY <1>2, Links, NamesAssumption DEF valid_pathname, tfs_lookup, OneToOne
  <2> QED
    BY <1>1, <1>2, <2>1, StoreFails DEF Store!Unlink
<1>3. ASSUME NEW n \in tfs_lookup(path), DeleteFile(n, path)
      PROVE  Store!Unlink(path)
  <2>1. n \in find_in_dir(path)
    BY <1>3 DEF tfs_lookup
  <2>2. PICK i \in LiveEntries : dir[i].d_name = path /\ dir[i].d_inumber = n
    BY <2>1, LookupFindsLiveEntry DEF Consistent
  <2>3. clear_dir_entry(path) = {i} /\ i \in Entry
    BY <2>2, ClearHitsLive DEF Consistent, LiveEntries
  <2>4. /\ dir'[i].d_inumber = Fail /\ \A k \in Entry \ {i} : dir'[k] = dir[k]
        /\ Return(0) /\ UNCHANGED <<inode_table, fs_data, openVars>>
    BY <1>3, <2>3 DEF DeleteFile
  <2>5. /\ StoredNames' = StoredNames \ {path} /\ path \in StoredNames
        /\ \A name \in StoredNames' : InodeOf(name)' = InodeOf(name)
        /\ \A m \in Files \ {n} : NameOf(m)' = NameOf(m)
    BY <2>2, <2>4, NameRemoved
  <2>6. \A h \in OpenHandles : open_file_table[h].of_inumber # n
    BY <1>3 DEF CallUnlink, IsOpen, OpenHandles
  <2>7. \A m : Content(m)' = Content(m)
    BY <2>4 DEF Content
  <2>8. StoredFiles' = Store!Without(StoredFiles, path)
    BY <2>5, <2>7 DEF StoredFiles, Store!Without
  <2>9. StoredHandles' = StoredHandles
    BY <2>4, <2>5, <2>6, HandlesSame
  <2>10. ~Store!InUse(path)
    <3> SUFFICES ASSUME NEW h \in DOMAIN StoredHandles, StoredHandles[h].name = path PROVE FALSE
      BY DEF Store!InUse
    <3>1. h \in OpenHandles /\ open_file_table[h].of_inumber = InodeOf(path)
      BY OpenHandle DEF StoredHandles
    <3>2. InodeOf(path) = n
      BY <2>1, <2>5, Links DEF OneToOne
    <3> QED
      BY <2>6, <3>1, <3>2
  <2> QED
    BY <1>1, <2>4, <2>5, <2>8, <2>9, <2>10 DEF Store!Unlink, Store!Returns, Return
<1> QED
  BY <1>2, <1>3 DEF CallUnlink, tfs_unlink

-----------------------------------------------------------------------------
(* Steps, and the theorems *)

\* Outside of tfs_init and tfs_destroy there is no file and no handle.
EmptyOutside == status # "running" => LiveEntries = {} /\ OpenHandles = {}

LEMMA NothingStored ==
  LiveEntries = {} /\ OpenHandles = {} =>
    StoredFiles = Store!NoFile /\ StoredHandles = Store!NoHandle
BY DEF StoredFiles, StoredNames, StoredHandles, Store!NoFile, Store!NoHandle

LEMMA NothingStoredNext ==
  LiveEntries' = {} /\ OpenHandles' = {} =>
    StoredFiles' = Store!NoFile /\ StoredHandles' = Store!NoHandle
BY DEF StoredFiles, StoredNames, StoredHandles, Store!NoFile, Store!NoHandle

\* tfs_init and tfs_destroy leave tables without contents.
LEMMA NoContentsEmpty ==
  /\ Init => LiveEntries = {} /\ OpenHandles = {}
  /\ InitTables \/ tfs_destroy => LiveEntries' = {} /\ OpenHandles' = {}
BY DEF Init, InitTables, tfs_destroy, NoEntries, LiveEntries, OpenHandles

\* A call goes on running or ends the process.
LEMMA CallStatus ==
  ASSUME Call
  PROVE  status' \in {"running"} \cup Ended
<1>1. \A path, mode : tfs_open(path, mode) => status' \in {status, "panic"}
  BY DEF tfs_open, OpenExisting, OpenCreate, ALWAYS_ASSERT
<1>2. \A h : tfs_close(h) => status' = status
  BY DEF tfs_close
<1>3. \A h, buffer : tfs_write(h, buffer) => status' \in {status, "panic", "undefined"}
  BY DEF tfs_write, WriteBytes, ALWAYS_ASSERT
<1>4. \A h, len : tfs_read(h, len) => status' \in {status, "panic", "undefined"}
  BY DEF tfs_read, ReadBytes, ReadOutside
<1>5. \A path : tfs_unlink(path) => status' \in {status, "panic"}
  BY DEF tfs_unlink, DeleteFile, inode_delete, ALWAYS_ASSERT
<1> QED
  BY <1>1, <1>2, <1>3, <1>4, <1>5 DEF Call, CallOpen, CallUnlink, Ended

LEMMA EmptyOutsideStep ==
  ASSUME Disciplined, EmptyOutside, Alive', [Next]_vars
  PROVE  EmptyOutside'
<1>1. CASE Call
  BY <1>1, CallStatus DEF Alive, NeverPanics, EmptyOutside
<1>2. CASE InitTables \/ tfs_destroy
  BY <1>2, NoContentsEmpty DEF EmptyOutside
<1>3. CASE UNCHANGED <<fileVars, openVars>> /\ (status' = status \/ status # "running")
  BY <1>3 DEF EmptyOutside, LiveEntries, OpenHandles, fileVars, openVars
<1> QED
  BY <1>1, <1>2, <1>3 DEF Next, CallWithoutTables, tfs_init, AlreadyInitialized, vars

\* Each call is the store's.
LEMMA CallsImplement ==
  ASSUME Disciplined, Consistent, Alive, Consistent'
  PROVE  /\ \A h : tfs_close(h) => Store!Close(h)
         /\ \A h, len : len \in 0 .. MaxLen /\ tfs_read(h, len) => Store!Read(h, len)
         /\ \A h, buffer : buffer \in Buffer /\ tfs_write(h, buffer) => Store!Write(h, buffer)
         /\ \A path, mode : path \in Path /\ CallOpen(path, mode) => Store!Open(path, mode)
         /\ \A path : path \in Path /\ CallUnlink(path) => Store!Unlink(path)
BY CloseImplements, ReadImplements, WriteImplements, OpenImplements, UnlinkImplements

LEMMA StepImplements ==
  ASSUME Disciplined, AlwaysConsistent, AlwaysConsistent', Alive, Alive', EmptyOutside, [Next]_vars
  PROVE  [Store!Next]_Store!storeVars
<1>1. CASE Call
  <2>1. status = "running" /\ status' = "running"
    BY <1>1, CallStatus DEF Call, Alive, NeverPanics
  <2>2. Consistent /\ Consistent'
    BY <2>1 DEF AlwaysConsistent, Consistent, BlockOwnership
  <2>3. /\ Store!Handle \cup {-1, NumHandles} = AnyHandle
        /\ Store!Buffers = Buffer /\ Store!Modes = Mode /\ Path = Name \cup {BadPath}
    BY DEF Store!Handle, AnyHandle, Handle, Fail, Store!Buffers, Buffer, Store!Modes, Mode, Path
  <2>4. Store!Call
    BY <1>1, <2>2, <2>3, CallsImplement DEF Call, Store!Call
  <2> QED
    BY <2>1, <2>4 DEF Store!Next
<1>2. CASE InitTables /\ status' = "running" /\ status # "running" /\ Return(0)
  <2>1. LiveEntries = {} /\ OpenHandles = {} /\ LiveEntries' = {} /\ OpenHandles' = {}
    BY <1>2, NoContentsEmpty DEF EmptyOutside
  <2>2. StoredFiles' = StoredFiles /\ StoredHandles' = StoredHandles
    BY <2>1, NothingStored, NothingStoredNext
  <2> QED
    BY <1>2, <2>2 DEF Store!Next, Store!Mount, Store!Returns, Return
<1>3. ASSUME UNCHANGED <<fileVars, openVars>>
      PROVE  StoredFiles' = StoredFiles /\ StoredHandles' = StoredHandles
  <2>1. OpenHandles' = OpenHandles /\ open_file_table' = open_file_table
    BY <1>3 DEF openVars, OpenHandles
  <2> QED
    BY <1>3, <2>1, FilesSame DEF StoredHandles
<1>4. CASE /\ UNCHANGED <<fileVars, openVars>> /\ Return(Fail)
           /\ (status' = "running") = (status = "running")
  BY <1>3, <1>4 DEF Store!Next, Store!Mount, Store!Fails, Store!Returns, Return, Fail
<1>5. CASE tfs_destroy
  <2>1. StoredFiles' = Store!NoFile /\ StoredHandles' = Store!NoHandle
    BY <1>5, NoContentsEmpty, NothingStoredNext
  <2>2. status' # "running" /\ Return(0)
    BY <1>5 DEF tfs_destroy
  <2> QED
    BY <2>1, <2>2 DEF Store!Next, Store!Unmount, Store!Returns, Return
<1>6. CASE UNCHANGED vars
  BY <1>3, <1>6 DEF vars, Store!storeVars
<1> QED
  BY <1>1, <1>2, <1>4, <1>5, <1>6 DEF Next, CallWithoutTables, tfs_init, AlreadyInitialized

\* TecnicoFS is the file store that operations.h describes, for every size of
\* its tables and every sequence of calls of disciplined callers: the same
\* names, contents, offsets and results, and no call fails for want of an
\* inode, an entry, a block or a handle unless files and handles use them all.
THEOREM ImplementsFileStoreCorrect == Disciplined => (Spec => ImplementsFileStore)
<1> SUFFICES ASSUME Disciplined PROVE Spec => ImplementsFileStore
  OBVIOUS
<1>1. Init => EmptyOutside
  BY NoContentsEmpty DEF EmptyOutside
<1>2. EmptyOutside /\ Alive' /\ [Next]_vars => EmptyOutside'
  BY EmptyOutsideStep
<1>3. Init => Store!Init
  <2> SUFFICES ASSUME Init PROVE Store!Init
    OBVIOUS
  <2>1. StoredFiles = Store!NoFile /\ StoredHandles = Store!NoHandle
    BY NoContentsEmpty, NothingStored
  <2> QED
    BY <2>1 DEF Init, Store!Init
<1>4. /\ AlwaysConsistent /\ AlwaysConsistent' /\ Alive /\ Alive' /\ EmptyOutside /\ [Next]_vars
      => [Store!Next]_Store!storeVars
  BY StepImplements
<1>5. Spec => []AlwaysConsistent /\ []Alive
  BY ConsistentAlways, AliveAlways, PTL
<1> QED
  BY <1>1, <1>2, <1>3, <1>4, <1>5, PTL DEF Spec, ImplementsFileStore, Store!Spec

\* The store's call is the one the caller made.
LEMMA SameCallStep ==
  ASSUME Disciplined, AlwaysConsistent, AlwaysConsistent', Alive, Alive'
  PROVE  SameCall
<1> SUFFICES ASSUME status = "running" PROVE SameCall
  BY DEF SameCall
<1>1. Call => Consistent /\ Consistent'
  BY CallStatus DEF Alive, NeverPanics, AlwaysConsistent, Consistent, BlockOwnership
<1>2. ASSUME NEW path \in Path, NEW mode \in Mode, CallOpen(path, mode)
      PROVE  Store!Open(path, mode)
  BY <1>1, <1>2, CallsImplement DEF Call
<1>3. ASSUME NEW path \in Path, CallUnlink(path)
      PROVE  Store!Unlink(path)
  BY <1>1, <1>3, CallsImplement DEF Call
<1>4. ASSUME NEW h \in OpenHandles, NEW buffer \in Buffer, tfs_write(h, buffer)
      PROVE  Store!Write(h, buffer)
  <2>1. h \in AnyHandle
    BY DEF OpenHandles, AnyHandle
  <2> QED
    BY <1>1, <1>4, <2>1, CallsImplement DEF Call
<1>5. ASSUME NEW h \in OpenHandles, NEW len \in 0 .. MaxLen, tfs_read(h, len)
      PROVE  Store!Read(h, len)
  <2>1. h \in AnyHandle
    BY DEF OpenHandles, AnyHandle
  <2> QED
    BY <1>1, <1>5, <2>1, CallsImplement DEF Call
<1>6. {"CREAT"} \in Mode /\ Name \subseteq Path
  BY DEF Mode, Path
<1> QED
  BY <1>2, <1>3, <1>4, <1>5, <1>6 DEF SameCall

\* The step of the store is the call that the caller made, when it opens or
\* moves a handle or fails.
THEOREM CallsMatchCorrect == Disciplined => (Spec => CallsMatch)
<1> SUFFICES ASSUME Disciplined PROVE Spec => CallsMatch
  OBVIOUS
<1>1. AlwaysConsistent /\ AlwaysConsistent' /\ Alive /\ Alive' => [SameCall]_vars
  BY SameCallStep
<1>2. Spec => []AlwaysConsistent /\ []Alive
  BY ConsistentAlways, AliveAlways, PTL
<1> QED
  BY <1>1, <1>2, PTL DEF CallsMatch
=============================================================================
