------------------------ MODULE TFSDisciplinedProofs ------------------------
(***************************************************************************)
(* What holds of TecnicoFS for callers that do not unlink or truncate an   *)
(* open file, for every size of its tables.                                *)
(***************************************************************************)
EXTENDS TFSProofs

\* Names for a scan, a record type or a single assignment: always expanded.
USE DEF inode_alloc, data_block_alloc, data_block_free, remove_from_open_file_table,
        inode_delete, inode_t, dir_entry_t, open_file_entry_t

\* With AlwaysConsistent, the inductive invariant of disciplined callers.
Alive == OpenFilesAlive /\ NoLeakedBlock /\ NeverPanics

-----------------------------------------------------------------------------
(* What the calls on a handle take for granted *)

\* The file of an open handle: its inode, its size and where the handle is.
LEMMA HandleInFile ==
  ASSUME TypeOK, Alive, NEW h \in OpenHandles
  PROVE  /\ h \in Handle
         /\ open_file_table[h].of_inumber \in TakenInodes
         /\ open_file_table[h].of_inumber \in Inumber
         /\ open_file_table[h].of_offset \in Nat
         /\ inode_table[open_file_table[h].of_inumber].i_size \in 0 .. BlockSize
         /\ open_file_table[h].of_offset <= inode_table[open_file_table[h].of_inumber].i_size
<1>1. h \in Handle
  BY DEF OpenHandles
<1>2. /\ open_file_table[h].of_inumber \in Inumber
      /\ open_file_table[h].of_offset \in 0 .. NumBlocks * BlockSize
  BY <1>1 DEF TypeOK
<1>3. NumBlocks * BlockSize \in Nat
  BY SizesAssumption
<1>4. open_file_table[h].of_offset \in Nat
  BY <1>2, <1>3
<1>5. inode_table[open_file_table[h].of_inumber].i_size \in 0 .. BlockSize
  BY <1>1, <1>2 DEF TypeOK
<1> QED
  BY <1>1, <1>2, <1>4, <1>5 DEF Alive, OpenFilesAlive, OpenInodesTaken, OffsetsWithinFile

\* So a write never runs past the block, and a read never past the file.
LEMMA LengthsFit ==
  ASSUME TypeOK, Alive, NEW h \in OpenHandles
  PROVE  /\ \A to_write \in Nat :
              /\ WriteLength(h, to_write) \in 0 .. BlockSize
              /\ open_file_table[h].of_offset + WriteLength(h, to_write) <= BlockSize
         /\ \A len \in Nat :
              /\ ReadLength(h, len) \in Nat
              /\ open_file_table[h].of_offset + ReadLength(h, len)
                   <= inode_table[open_file_table[h].of_inumber].i_size
<1>1. ~Overtaken(h)
  BY HandleInFile, SizesAssumption DEF Overtaken
<1> QED
  BY <1>1, LengthsInFile

-----------------------------------------------------------------------------
(* The calls *)

\* Nothing that Alive speaks of changed but the handles, which stay in their
\* files.
LEMMA SameFiles ==
  ASSUME Alive, UNCHANGED <<status, fileVars>>,
         \A h \in OpenHandles' :
           LET f == open_file_table'[h]
           IN  f.of_inumber \in TakenInodes /\ f.of_offset <= inode_table[f.of_inumber].i_size
  PROVE  Alive'
BY DEF Alive, OpenFilesAlive, OpenInodesTaken, OffsetsWithinFile, NoLeakedBlock, NeverPanics,
       TakenInodes, BlockOwners, fileVars, inodeVars, blockVars

LEMMA NothingChanged ==
  ASSUME Alive, UNCHANGED <<status, fileVars, openVars>>
  PROVE  Alive'
BY DEF Alive, OpenFilesAlive, OpenInodesTaken, OffsetsWithinFile, NoLeakedBlock, NeverPanics,
       TakenInodes, BlockOwners, OpenHandles, fileVars, inodeVars, blockVars, openVars

LEMMA CloseKeepsAlive ==
  ASSUME Alive, NEW h, tfs_close(h)
  PROVE  Alive'
<1>1. UNCHANGED <<status, fileVars, open_file_table>> /\ OpenHandles' \subseteq OpenHandles
  BY DEF tfs_close, OpenHandles
<1> QED
  BY <1>1, SameFiles DEF Alive, OpenFilesAlive, OpenInodesTaken, OffsetsWithinFile

LEMMA ReadKeepsAlive ==
  ASSUME Consistent, Alive, NEW h \in AnyHandle, NEW len \in 0 .. MaxLen, tfs_read(h, len)
  PROVE  Alive'
<1>1. CASE UNCHANGED <<status, fileVars, openVars>>
  BY <1>1, NothingChanged
<1> DEFINE inum   == open_file_table[h].of_inumber
           offset == open_file_table[h].of_offset
           n      == ReadLength(h, len)
           b      == inode_table[inum].i_data_block
<1>2. ASSUME h \in OpenHandles, n > 0
      PROVE  /\ n \in Nat /\ offset \in Nat /\ offset + n <= inode_table[inum].i_size
             /\ b \in Block /\ Readable(b, offset + n - 1)
  <2>1. len \in Nat
    BY SizesAssumption
  <2>2. /\ inum \in Inumber /\ offset \in Nat /\ inode_table[inum].i_size \in 0 .. BlockSize
        /\ n \in Nat /\ offset + n <= inode_table[inum].i_size
    BY <1>2, <2>1, HandleInFile, LengthsFit DEF Consistent
  <2> HIDE DEF offset, n
  <2>3. inode_table[inum].i_size > 0 /\ offset + n - 1 \in 0 .. BlockSize - 1
    BY <1>2, <2>2, SizesAssumption
  <2>4. b \in Block
    BY <2>2, <2>3 DEF Consistent, TypeOK
  <2> QED
    BY <2>2, <2>3, <2>4, BlocksReadable
<1>3. CASE h \in OpenHandles /\ n > 0 /\ ReadBytes(h, b, n)
  <2>1. /\ UNCHANGED <<status, fileVars, free_open_file_entries>>
        /\ open_file_table' = [open_file_table EXCEPT ![h].of_offset = offset + n]
    BY <1>3 DEF tfs_read, ReadBytes
  <2>2. open_file_table \in [Handle -> open_file_entry_t] /\ h \in Handle
    BY <1>3 DEF Consistent, TypeOK, OpenHandles
  <2>3. /\ open_file_table'[h].of_inumber = inum /\ open_file_table'[h].of_offset = offset + n
        /\ \A k \in Handle \ {h} : open_file_table'[k] = open_file_table[k]
    BY <2>1, <2>2
  <2>4. OpenHandles' = OpenHandles
    BY <2>1 DEF OpenHandles
  <2>5. ASSUME NEW k \in OpenHandles'
        PROVE  /\ open_file_table'[k].of_inumber \in TakenInodes
               /\ open_file_table'[k].of_offset <= inode_table[open_file_table'[k].of_inumber].i_size
    BY <1>2, <1>3, <2>3, <2>4, HandleInFile DEF Consistent
  <2> QED
    BY <2>1, <2>5, SameFiles
<1>4. CASE h \in OpenHandles /\ n > 0 /\ ReadOutside(h, b, n)
  BY <1>2, <1>4 DEF ReadOutside
<1> QED
  BY <1>1, <1>3, <1>4 DEF tfs_read, get_open_file_entry, OpenHandles

\* The block that an empty file gets is its own, and no handle is left behind
\* by a file that grows.
LEMMA WriteKeepsAlive ==
  ASSUME Consistent, Alive, NEW h \in AnyHandle, NEW buffer \in Buffer, tfs_write(h, buffer)
  PROVE  Alive'
<1>1. CASE UNCHANGED <<status, fileVars, openVars>>
  BY <1>1, NothingChanged
<1> DEFINE inum   == open_file_table[h].of_inumber
           offset == open_file_table[h].of_offset
           n      == WriteLength(h, Len(buffer))
           size   == inode_table[inum].i_size
<1>2. ASSUME h \in OpenHandles
      PROVE  /\ inum \in TakenInodes /\ inum \in Inumber
             /\ offset \in Nat /\ size \in 0 .. BlockSize /\ n \in 0 .. BlockSize
  <2>1. Len(buffer) \in Nat
    <3>1. PICK len \in 0 .. MaxLen : buffer \in [1 .. len -> Byte]
      BY DEF Buffer
    <3> QED
      BY <3>1, SizesAssumption
  <2> QED
    BY <1>2, <2>1, HandleInFile, LengthsFit DEF Consistent
<1>3. ASSUME h \in OpenHandles, n > 0, NEW b \in WriteTarget(inode_table[inum]),
             WriteBytes(h, b, n, buffer)
      PROVE  Alive'
  <2>1. /\ inum \in TakenInodes /\ inum \in Inumber /\ h \in Handle
        /\ offset \in Nat /\ size \in 0 .. BlockSize /\ n \in 1 .. BlockSize
    BY <1>2, <1>3, HandleInFile DEF Consistent
  <2>2. b \in Block
    BY <1>3, <2>1, SizesAssumption DEF WriteTarget, First, Consistent, TypeOK
  <2> HIDE DEF n
  <2>3. Larger(size, offset + n) \in Nat /\ Larger(size, offset + n) > 0
        /\ size <= Larger(size, offset + n) /\ offset + n <= Larger(size, offset + n)
    <3> HIDE DEF offset, size
    <3> QED
      BY <2>1, SizesAssumption DEF Larger
  <2>4. /\ inode_table'[inum].i_size = Larger(size, offset + n)
        /\ inode_table'[inum].i_data_block = b
        /\ \A m \in Inumber \ {inum} : inode_table'[m] = inode_table[m]
    BY <1>3, <2>1 DEF WriteBytes, Consistent, TypeOK
  <2>5. /\ open_file_table'[h].of_inumber = inum /\ open_file_table'[h].of_offset = offset + n
        /\ \A k \in Handle \ {h} : open_file_table'[k] = open_file_table[k]
    BY <1>3, <2>1 DEF WriteBytes, Consistent, TypeOK
  <2>6. status' = status /\ TakenInodes' = TakenInodes /\ OpenHandles' = OpenHandles
    BY <1>3, <2>2 DEF WriteBytes, ALWAYS_ASSERT, TakenInodes, OpenHandles
  <2>7. OpenFilesAlive'
    <3>1. ASSUME NEW k \in OpenHandles
          PROVE  /\ open_file_table'[k].of_inumber \in TakenInodes
                 /\ open_file_table'[k].of_offset
                      <= inode_table'[open_file_table'[k].of_inumber].i_size
      <4>1. CASE k = h
        BY <2>1, <2>3, <2>4, <2>5, <4>1
      <4>2. CASE k # h
        <5>1. /\ k \in Handle /\ open_file_table[k].of_inumber \in TakenInodes
              /\ open_file_table[k].of_inumber \in Inumber /\ open_file_table[k].of_offset \in Nat
              /\ inode_table[open_file_table[k].of_inumber].i_size \in 0 .. BlockSize
              /\ open_file_table[k].of_offset
                   <= inode_table[open_file_table[k].of_inumber].i_size
          BY HandleInFile DEF Consistent
        <5>2. open_file_table'[k] = open_file_table[k]
          BY <2>5, <4>2, <5>1
        <5>3. CASE open_file_table[k].of_inumber = inum
          <6> DEFINE mine == open_file_table[k].of_offset
                     grown == Larger(size, offset + n)
          <6>1. mine <= size /\ size <= grown /\ mine \in Nat /\ size \in Nat /\ grown \in Nat
            BY <2>1, <2>3, <5>1, <5>3, SizesAssumption
          <6> HIDE DEF mine, size, grown
          <6>2. mine <= grown
            BY <6>1
          <6> QED
            BY <2>4, <5>1, <5>2, <5>3, <6>2 DEF mine, size, grown
        <5>4. CASE open_file_table[k].of_inumber # inum
          BY <2>4, <5>1, <5>2, <5>4
        <5> QED
          BY <5>3, <5>4
      <4> QED
        BY <4>1, <4>2
    <3> QED
      BY <2>6, <3>1 DEF OpenFilesAlive, OpenInodesTaken, OffsetsWithinFile
  <2>8. NoLeakedBlock'
    <3>1. BlockOwners' = BlockOwners \cup {inum}
      BY <2>1, <2>3, <2>4, <2>6 DEF BlockOwners, TakenInodes
    <3>2. CASE size = 0
      <4>1. inum \notin BlockOwners
        BY <3>2 DEF BlockOwners
      <4>2. free_blocks' = free_blocks \ {b} /\ b \in free_blocks
        BY <1>3, <3>2 DEF WriteBytes, WriteTarget, First
      <4>3. {inode_table'[m].i_data_block : m \in BlockOwners'}
              = {inode_table[m].i_data_block : m \in BlockOwners} \cup {b}
        BY <2>4, <3>1, <4>1 DEF BlockOwners, TakenInodes
      <4> QED
        BY <2>2, <4>2, <4>3 DEF Alive, NoLeakedBlock
    <3>3. CASE size # 0
      <4>1. b = inode_table[inum].i_data_block /\ free_blocks' = free_blocks
        BY <1>3, <3>3 DEF WriteBytes, WriteTarget
      <4>2. inum \in BlockOwners
        BY <2>1, <3>3, SizesAssumption DEF BlockOwners
      <4>3. {inode_table'[m].i_data_block : m \in BlockOwners'}
              = {inode_table[m].i_data_block : m \in BlockOwners}
        BY <2>4, <3>1, <4>1, <4>2 DEF BlockOwners, TakenInodes
      <4> QED
        BY <4>1, <4>3 DEF Alive, NoLeakedBlock
    <3> QED
      BY <3>2, <3>3
  <2> QED
    BY <2>6, <2>7, <2>8 DEF Alive, NeverPanics
<1>4. h \in OpenHandles => ~(n > BlockSize)
  <2> HIDE DEF n
  <2> QED
    BY <1>2, SizesAssumption
<1> QED
  BY <1>1, <1>3, <1>4 DEF tfs_write, get_open_file_entry, OpenHandles

\* An inode that is neither open nor an owner changes nothing, and a new
\* handle starts inside its file.
LEMMA HandleAdded ==
  ASSUME Consistent, NEW inum, NEW offset, add_to_open_file_table(inum, offset)
  PROVE  \/ UNCHANGED openVars
         \/ \E h \in Handle \ OpenHandles :
              /\ OpenHandles' = OpenHandles \cup {h}
              /\ open_file_table'[h] = [of_inumber |-> inum, of_offset |-> offset]
              /\ \A k \in OpenHandles : open_file_table'[k] = open_file_table[k]
<1>1. CASE UNCHANGED openVars
  BY <1>1
<1>2. ASSUME NEW h \in First(free_open_file_entries),
             free_open_file_entries' = free_open_file_entries \ {h},
             open_file_table' =
               [open_file_table EXCEPT ![h] = [of_inumber |-> inum, of_offset |-> offset]]
      PROVE  /\ h \in Handle \ OpenHandles
             /\ OpenHandles' = OpenHandles \cup {h}
             /\ open_file_table'[h] = [of_inumber |-> inum, of_offset |-> offset]
             /\ \A k \in OpenHandles : open_file_table'[k] = open_file_table[k]
  BY <1>2 DEF First, Consistent, TypeOK, OpenHandles
<1> QED
  BY <1>1, <1>2 DEF add_to_open_file_table

LEMMA OpenExistingKeepsAlive ==
  ASSUME Consistent, Alive, NEW path, NEW mode, NEW inum \in find_in_dir(path),
         OpenExisting(inum, mode),
         "TRUNC" \in mode => \A h \in OpenHandles : open_file_table[h].of_inumber # inum
  PROVE  Alive'
<1> DEFINE size == inode_table[inum].i_size
           new  == SizeAfterOpen(inum, mode)
<1>1. inum \in TakenInodes /\ inum \in Inumber /\ TypeOK
  BY LookupFindsTakenInode DEF Consistent
<1>2. size \in 0 .. BlockSize /\ (size > 0 => inode_table[inum].i_data_block \in Block)
  BY <1>1 DEF TypeOK
<1>3. /\ inode_table'[inum].i_size = new
      /\ inode_table'[inum].i_data_block = inode_table[inum].i_data_block
      /\ \A m \in Inumber \ {inum} : inode_table'[m] = inode_table[m]
  <2>1. inode_table' = [inode_table EXCEPT ![inum].i_size = new]
    BY DEF OpenExisting
  <2>2. inode_table \in [Inumber -> inode_t]
    BY <1>1 DEF TypeOK
  <2> HIDE DEF new
  <2> QED
    BY <1>1, <2>1, <2>2
<1>4. UNCHANGED status /\ TakenInodes' = TakenInodes
  BY <1>2 DEF OpenExisting, ALWAYS_ASSERT, TakenInodes
<1>5. new = (IF "TRUNC" \in mode THEN 0 ELSE size) /\ InitialOffset(inum, mode) \in {0, new}
  BY DEF SizeAfterOpen, InitialOffset
<1>6. new \in Nat /\ InitialOffset(inum, mode) <= new
  <2> HIDE DEF size, new
  <2> QED
    BY <1>2, <1>5, SizesAssumption
<1> HIDE DEF new
<1>7. OpenFilesAlive'
  <2>1. ASSUME NEW k \in OpenHandles, open_file_table'[k] = open_file_table[k]
        PROVE  /\ open_file_table'[k].of_inumber \in TakenInodes
               /\ open_file_table'[k].of_offset
                    <= inode_table'[open_file_table'[k].of_inumber].i_size
    <3>1. /\ open_file_table[k].of_inumber \in TakenInodes
          /\ open_file_table[k].of_inumber \in Inumber
          /\ open_file_table[k].of_offset <= inode_table[open_file_table[k].of_inumber].i_size
      BY HandleInFile DEF Consistent
    <3>2. CASE open_file_table[k].of_inumber = inum
      BY <1>3, <1>5, <2>1, <3>1, <3>2
    <3>3. CASE open_file_table[k].of_inumber # inum
      BY <1>3, <2>1, <3>1, <3>3
    <3> QED
      BY <3>2, <3>3
  <2>2. add_to_open_file_table(inum, InitialOffset(inum, mode))
    BY DEF OpenExisting
  <2>3. CASE UNCHANGED openVars
    BY <1>4, <2>1, <2>3 DEF OpenFilesAlive, OpenInodesTaken, OffsetsWithinFile, OpenHandles, openVars
  <2>4. ASSUME NEW h \in Handle \ OpenHandles,
               OpenHandles' = OpenHandles \cup {h},
               open_file_table'[h] = [of_inumber |-> inum, of_offset |-> InitialOffset(inum, mode)],
               \A k \in OpenHandles : open_file_table'[k] = open_file_table[k]
        PROVE  OpenFilesAlive'
    BY <1>1, <1>3, <1>4, <1>6, <2>1, <2>4 DEF OpenFilesAlive, OpenInodesTaken, OffsetsWithinFile
  <2> QED
    BY <2>2, <2>3, <2>4, HandleAdded
<1>8. NoLeakedBlock'
  <2>1. CASE "TRUNC" \in mode /\ size > 0
    <3>1. BlockOwners' = BlockOwners \ {inum} /\ inum \in BlockOwners
      BY <1>1, <1>3, <1>4, <1>5, <2>1 DEF BlockOwners, TakenInodes
    <3>2. free_blocks' = free_blocks \cup {inode_table[inum].i_data_block}
      BY <2>1 DEF OpenExisting
    <3>3. \A m \in BlockOwners \ {inum} :
            /\ inode_table'[m] = inode_table[m]
            /\ inode_table[m].i_data_block # inode_table[inum].i_data_block
      BY <1>3, <3>1 DEF Consistent, BlocksOwned, BlockOwners, TakenInodes
    <3>4. {inode_table'[m].i_data_block : m \in BlockOwners'}
            = {inode_table[m].i_data_block : m \in BlockOwners} \ {inode_table[inum].i_data_block}
      BY <3>1, <3>3
    <3> QED
      BY <3>2, <3>4 DEF Alive, NoLeakedBlock
  <2>2. CASE ~("TRUNC" \in mode /\ size > 0)
    <3>1. new = size /\ free_blocks' = free_blocks
      <4>1. "TRUNC" \in mode => size = 0
        BY <1>2, <2>2, SizesAssumption
      <4> QED
        BY <1>5, <2>2, <4>1 DEF OpenExisting
    <3>2. \A m \in Inumber : /\ inode_table'[m].i_size = inode_table[m].i_size
                             /\ inode_table'[m].i_data_block = inode_table[m].i_data_block
      BY <1>3, <3>1
    <3>3. BlockOwners' = BlockOwners
      BY <1>4, <3>2 DEF BlockOwners, TakenInodes
    <3>4. {inode_table'[m].i_data_block : m \in BlockOwners'}
            = {inode_table[m].i_data_block : m \in BlockOwners}
      BY <3>2, <3>3 DEF BlockOwners, TakenInodes
    <3> QED
      BY <3>1, <3>4 DEF Alive, NoLeakedBlock
  <2> QED
    BY <2>1, <2>2
<1> QED
  BY <1>4, <1>7, <1>8 DEF Alive, NeverPanics

\* No handle is on the inode a new file takes, for it was FREE.
LEMMA OpenCreateKeepsAlive ==
  ASSUME Consistent, Alive, NEW path \in Name, OpenCreate(path)
  PROVE  Alive'
<1>1. UNCHANGED <<status, blockVars>> /\ TypeOK
  BY DEF OpenCreate, Consistent
<1>2. CASE UNCHANGED <<inodeVars, dir, openVars>>
  BY <1>1, <1>2, NothingChanged DEF fileVars
<1>3. ASSUME NEW inum \in inode_alloc,
             inode_table' = [inode_table EXCEPT ![inum] = NewFileInode],
             CreateWithoutEntry(inum, path) \/ CreateWithEntry(inum, path)
      PROVE  Alive'
  <2>1. inum \in Inumber /\ inum \notin TakenInodes
    BY <1>1, <1>3 DEF First, TakenInodes, TypeOK
  <2>2. /\ inode_table'[inum].i_size = 0
        /\ \A m \in Inumber \ {inum} : inode_table'[m] = inode_table[m]
    BY <1>1, <1>3, <2>1 DEF TypeOK, NewFileInode, NewInode
  <2>3. TakenInodes' \in {TakenInodes, TakenInodes \cup {inum}}
    <3>1. CASE CreateWithoutEntry(inum, path)
      BY <3>1 DEF CreateWithoutEntry, InodeGivenBack, TakenInodes
    <3>2. CASE CreateWithEntry(inum, path)
      BY <2>1, <3>2 DEF CreateWithEntry, TakenInodes
    <3> QED
      BY <1>3, <3>1, <3>2
  <2>4. BlockOwners' = BlockOwners /\ \A m \in BlockOwners : inode_table'[m] = inode_table[m]
    BY <2>1, <2>2, <2>3 DEF BlockOwners, TakenInodes
  <2>5. NoLeakedBlock'
    BY <1>1, <2>4 DEF Alive, NoLeakedBlock, blockVars
  <2>6. ASSUME NEW k \in OpenHandles, open_file_table'[k] = open_file_table[k]
        PROVE  /\ open_file_table'[k].of_inumber \in TakenInodes'
               /\ open_file_table'[k].of_offset
                    <= inode_table'[open_file_table'[k].of_inumber].i_size
    BY <2>1, <2>2, <2>3, <2>6, HandleInFile DEF Consistent
  <2>7. OpenFilesAlive'
    <3>1. CASE UNCHANGED openVars
      BY <2>6, <3>1 DEF OpenFilesAlive, OpenInodesTaken, OffsetsWithinFile, OpenHandles, openVars
    <3>2. ASSUME CreateWithEntry(inum, path), NEW h \in Handle \ OpenHandles,
                 OpenHandles' = OpenHandles \cup {h},
                 open_file_table'[h] = [of_inumber |-> inum, of_offset |-> 0],
                 \A k \in OpenHandles : open_file_table'[k] = open_file_table[k]
          PROVE  OpenFilesAlive'
      <4>1. inum \in TakenInodes'
        BY <2>1, <3>2 DEF CreateWithEntry, TakenInodes
      <4> QED
        BY <2>2, <2>6, <3>2, <4>1 DEF OpenFilesAlive, OpenInodesTaken, OffsetsWithinFile
    <3>3. CASE CreateWithEntry(inum, path)
      <4>1. add_to_open_file_table(inum, 0)
        BY <3>3 DEF CreateWithEntry
      <4> QED
        BY <3>1, <3>2, <3>3, <4>1, HandleAdded
    <3> QED
      BY <1>3, <3>1, <3>3 DEF CreateWithoutEntry
  <2> QED
    BY <1>1, <2>5, <2>7 DEF Alive, NeverPanics
<1> QED
  BY <1>2, <1>3 DEF OpenCreate

LEMMA CallOpenKeepsAlive ==
  ASSUME Disciplined, Consistent, Alive,
         NEW path \in Path, NEW mode \in Mode, CallOpen(path, mode)
  PROVE  Alive'
<1>1. CASE UNCHANGED <<status, fileVars, openVars>>
  BY <1>1, NothingChanged
<1>2. ASSUME NEW inum \in tfs_lookup(path), OpenExisting(inum, mode)
      PROVE  Alive'
  <2>1. inum \in find_in_dir(path)
    BY <1>2 DEF tfs_lookup
  <2>2. "TRUNC" \in mode => \A h \in OpenHandles : open_file_table[h].of_inumber # inum
    BY <1>2 DEF CallOpen, IsOpen, OpenHandles
  <2> QED
    BY <1>2, <2>1, <2>2, OpenExistingKeepsAlive
<1>3. CASE path \in Name /\ OpenCreate(path)
  BY <1>3, OpenCreateKeepsAlive
<1> QED
  BY <1>1, <1>2, <1>3 DEF CallOpen, tfs_open, valid_pathname, Path

\* Only a file without a handle is deleted, with the block it owned.
LEMMA CallUnlinkKeepsAlive ==
  ASSUME Disciplined, Consistent, Alive, NEW path \in Path, CallUnlink(path)
  PROVE  Alive'
<1>1. CASE UNCHANGED <<status, fileVars, openVars>>
  BY <1>1, NothingChanged
<1>2. ASSUME NEW inum \in tfs_lookup(path), DeleteFile(inum, path)
      PROVE  Alive'
  <2>1. inum \in TakenInodes /\ inum \in Inumber /\ TypeOK
    BY <1>2, LookupFindsTakenInode DEF tfs_lookup, Consistent
  <2>2. UNCHANGED <<inode_table, openVars>> /\ TakenInodes' = TakenInodes \ {inum}
    BY <1>2 DEF DeleteFile, TakenInodes
  <2>3. BlocksAfterDelete(inum) \subseteq Block
    BY <2>1 DEF BlocksAfterDelete, TypeOK
  <2>4. UNCHANGED status
    BY <1>2, <2>1, <2>3 DEF DeleteFile, ALWAYS_ASSERT, TakenInodes
  <2>5. \A h \in OpenHandles : open_file_table[h].of_inumber # inum
    BY <1>2 DEF CallUnlink, IsOpen, OpenHandles
  <2>6. OpenFilesAlive'
    BY <2>2, <2>5 DEF Alive, OpenFilesAlive, OpenInodesTaken, OffsetsWithinFile, OpenHandles, openVars
  <2>7. BlockOwners' = BlockOwners \ {inum}
    BY <2>2 DEF BlockOwners
  <2>8. NoLeakedBlock'
    <3>1. CASE inode_table[inum].i_size > 0
      <4>1. inum \in BlockOwners /\ free_blocks' = free_blocks \cup {inode_table[inum].i_data_block}
        BY <1>2, <2>1, <3>1 DEF DeleteFile, BlocksAfterDelete, BlockOwners
      <4>2. \A m \in BlockOwners \ {inum} :
              inode_table[m].i_data_block # inode_table[inum].i_data_block
        BY <4>1 DEF Consistent, BlocksOwned
      <4>3. {inode_table'[m].i_data_block : m \in BlockOwners'}
              = {inode_table[m].i_data_block : m \in BlockOwners} \ {inode_table[inum].i_data_block}
        BY <2>2, <2>7, <4>2
      <4> QED
        BY <4>1, <4>3 DEF Alive, NoLeakedBlock
    <3>2. CASE ~(inode_table[inum].i_size > 0)
      <4>1. BlockOwners' = BlockOwners /\ free_blocks' = free_blocks
        BY <1>2, <2>7, <3>2 DEF DeleteFile, BlocksAfterDelete, BlockOwners
      <4> QED
        BY <2>2, <4>1 DEF Alive, NoLeakedBlock
    <3> QED
      BY <3>1, <3>2
  <2> QED
    BY <2>4, <2>6, <2>8 DEF Alive, NeverPanics
<1> QED
  BY <1>1, <1>2 DEF CallUnlink, tfs_unlink

-----------------------------------------------------------------------------
(* tfs_init, tfs_destroy, and the theorems *)

\* Without a TAKEN inode there is nothing to lose.
LEMMA NoContentsAlive ==
  /\ Init => Alive
  /\ tfs_destroy => Alive'
<1>1. Init => /\ OpenHandles = {} /\ BlockOwners = {} /\ Block \ free_blocks = {}
              /\ status = "uninitialized"
  BY DEF Init, OpenHandles, BlockOwners, TakenInodes
<1>2. tfs_destroy => /\ OpenHandles' = {} /\ BlockOwners' = {} /\ Block \ free_blocks' = {}
                     /\ status' \in {"uninitialized", "destroyed"}
  BY DEF tfs_destroy, OpenHandles, BlockOwners, TakenInodes
<1> QED
  BY <1>1, <1>2 DEF Alive, OpenFilesAlive, OpenInodesTaken, OffsetsWithinFile, NoLeakedBlock,
                    NeverPanics, Ended

LEMMA InitTablesAlive ==
  ASSUME InitTables, status' = "running"
  PROVE  Alive'
<1>1. TakenInodes' = {ROOT_DIR_INUM} /\ OpenHandles' = {} /\ ROOT_DIR_INUM \in Inumber
  BY SizesAssumption DEF InitTables, TakenInodes, OpenHandles, Inumber, ROOT_DIR_INUM
<1>2. inode_table'[ROOT_DIR_INUM].i_size = BlockSize /\ inode_table'[ROOT_DIR_INUM].i_data_block = 0
  BY <1>1, SizesAssumption DEF InitTables, NewInode, Fail
<1>3. BlockOwners' = {ROOT_DIR_INUM}
  BY <1>1, <1>2, SizesAssumption DEF BlockOwners
<1>4. Block \ free_blocks' = {0}
  BY SizesAssumption DEF InitTables, Block
<1> QED
  BY <1>1, <1>2, <1>3, <1>4
  DEF Alive, OpenFilesAlive, OpenInodesTaken, OffsetsWithinFile, NoLeakedBlock, NeverPanics, Ended

LEMMA AliveStep ==
  ASSUME Disciplined, AlwaysConsistent, Alive, [Next]_vars
  PROVE  Alive'
<1>1. CASE Call
  <2>1. Consistent
    BY <1>1 DEF Call, AlwaysConsistent, Consistent, BlockOwnership
  <2> QED
    BY <1>1, <2>1, CloseKeepsAlive, CallOpenKeepsAlive, WriteKeepsAlive, ReadKeepsAlive,
       CallUnlinkKeepsAlive DEF Call
<1>2. CASE UNCHANGED <<fileVars, openVars>> /\ status' \notin Ended
  BY <1>2 DEF Alive, OpenFilesAlive, OpenInodesTaken, OffsetsWithinFile, NoLeakedBlock, NeverPanics,
              TakenInodes, BlockOwners, OpenHandles, fileVars, inodeVars, blockVars, openVars
<1>3. CASE tfs_init
  <2>1. CASE InitTables /\ status' = "running"
    BY <2>1, InitTablesAlive
  <2>2. CASE ~(InitTables /\ status' = "running")
    BY <1>2, <1>3, <2>2 DEF tfs_init, AlreadyInitialized, Ended
  <2> QED
    BY <2>1, <2>2
<1>4. CASE tfs_destroy
  BY <1>4, NoContentsAlive
<1>5. CASE UNCHANGED vars
  BY <1>5, NothingChanged DEF vars
<1> QED
  BY <1>1, <1>3, <1>4, <1>5 DEF Next, CallWithoutTables

LEMMA AliveAlways == Disciplined => (Spec => []Alive)
<1> SUFFICES ASSUME Disciplined PROVE Spec => []Alive
  OBVIOUS
<1>1. Init => Alive
  BY NoContentsAlive
<1>2. AlwaysConsistent /\ Alive /\ [Next]_vars => Alive'
  BY AliveStep
<1> QED
  BY <1>1, <1>2, ConsistentAlways, PTL DEF Spec

\* The inode of an open file is never deleted and no handle is past the end of
\* its file, when callers neither unlink nor truncate open files: the calls
\* that tfs_read and tfs_write are made for.
THEOREM OpenFilesAliveCorrect == Disciplined => (Spec => []OpenFilesAlive)
<1>1. Alive => OpenFilesAlive
  BY DEF Alive
<1> QED
  BY <1>1, AliveAlways, PTL

\* Truncating, unlinking and writing lose no block, however long they go on.
THEOREM NoLeakedBlockCorrect == Disciplined => (Spec => []NoLeakedBlock)
<1>1. Alive => NoLeakedBlock
  BY DEF Alive
<1> QED
  BY <1>1, AliveAlways, PTL

\* No ALWAYS_ASSERT fires and no memcpy of tfs_read and tfs_write leaves its
\* block.
THEOREM NeverPanicsCorrect == Disciplined => (Spec => []NeverPanics)
<1>1. Alive => NeverPanics
  BY DEF Alive
<1> QED
  BY <1>1, AliveAlways, PTL

\* tfs_read stops at the end of the file, as operations.h says: only callers
\* that truncate or unlink open files can see bytes behind it.
THEOREM ReadsWithinFileCorrect == Disciplined => (Spec => []ReadsWithinFile)
<1>1. AlwaysConsistent /\ Alive => ReadsWithinFile
  <2> SUFFICES ASSUME AlwaysConsistent, Alive, NEW h \in OpenHandles
               PROVE  ReadLength(h, MaxLen) <= inode_table[open_file_table[h].of_inumber].i_size
    BY DEF ReadsWithinFile
  <2> DEFINE offset == open_file_table[h].of_offset
             size   == inode_table[open_file_table[h].of_inumber].i_size
             n      == ReadLength(h, MaxLen)
  <2>1. TypeOK
    BY DEF AlwaysConsistent
  <2>2. offset \in Nat /\ size \in Nat /\ n \in Nat /\ offset + n <= size
    BY <2>1, HandleInFile, LengthsFit, SizesAssumption
  <2> HIDE DEF offset, size, n
  <2>3. n <= size
    BY <2>2
  <2> QED
    BY <2>3 DEF n, size
<1> QED
  BY <1>1, AliveAlways, ConsistentAlways, PTL
=============================================================================
