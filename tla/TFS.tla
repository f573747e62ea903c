-------------------------------- MODULE TFS --------------------------------
(***************************************************************************)
(* TecnicoFS, the in-memory file system in which the broker stores its     *)
(* boxes (fs/operations.c over fs/state.c).                                *)
(*                                                                         *)
(* Every tfs_* operation runs from its first to its last statement under   *)
(* g_library_mutex, so an operation is one step here.  The arrays of       *)
(* allocation_state_t are modelled by the set of their FREE indices; the   *)
(* root directory's block is modelled by "dir", its array of dir_entry_t;  *)
(* the other blocks hold bytes.  tfs_init, which every caller gives the    *)
(* same tfs_params, allocates the tables and tfs_destroy frees them, as    *)
(* often as callers like.                                                  *)
(***************************************************************************)
EXTENDS Integers, Sequences

CONSTANTS
  Name,         \* file names, what follows the '/' of a path
  LongName,     \* those of Name with more than MAX_FILE_NAME - 1 characters
  NoName,       \* the name a cleared directory entry holds ("")
  BadPath,      \* a path valid_pathname refuses
  Byte,         \* what callers write
  Stale,        \* what an allocated block holds before anything is written
  NumInodes,    \* max_inode_count
  NumBlocks,    \* max_block_count
  NumEntries,   \* MAX_DIR_ENTRIES
  NumHandles,   \* max_open_files_count
  BlockSize,    \* block_size
  MaxLen,       \* bound: the longest buffer a caller passes
  SIZE_MOD,     \* 2^64, the modulus of size_t
  Disciplined   \* callers never unlink or truncate a file that is open, and
                \* call nothing before tfs_init or after tfs_destroy

ASSUME NamesAssumption ==
  /\ LongName \subseteq Name
  /\ NoName \notin Name
  /\ BadPath \notin Name

ASSUME SizesAssumption ==
  /\ NumInodes \in Nat \ {0} /\ NumBlocks \in Nat \ {0}
  /\ NumEntries \in Nat /\ NumHandles \in Nat
  /\ BlockSize \in Nat \ {0} /\ MaxLen \in Nat
  /\ SIZE_MOD \in Nat /\ SIZE_MOD > NumBlocks * BlockSize + MaxLen
  /\ Disciplined \in BOOLEAN

Inumber == 0 .. NumInodes - 1
Block   == 0 .. NumBlocks - 1
Entry   == 0 .. NumEntries - 1
Handle  == 0 .. NumHandles - 1
Offset  == 0 .. BlockSize - 1

ROOT_DIR_INUM == 0
Fail          == -1        \* every "return -1", "no inode" and "no block"

Mode    == SUBSET {"CREAT", "TRUNC", "APPEND"}
Buffer  == UNION {[1..n -> Byte] : n \in 0..MaxLen}

inode_t           == [i_node_type : {"T_FILE", "T_DIRECTORY"}, i_size : 0..BlockSize,
                      i_data_block : Block \cup {Fail}]
dir_entry_t       == [d_name : Name \cup {NoName}, d_inumber : Inumber \cup {Fail}]
open_file_entry_t == [of_inumber : Inumber, of_offset : 0 .. NumBlocks * BlockSize]

\* "uninitialized": tfs_init was never called, and fs_params is all zero;
\* "partial": a tfs_init ran out of memory after it had an inode table;
\* "destroyed": there is no inode table, but fs_params is set;
\* "running": between tfs_init and tfs_destroy.
WithoutTables == {"uninitialized", "partial", "destroyed"}
Ended         == {"panic", "undefined"}

VARIABLES
  status,                  \* of the library, or how the process ended
  freeinode_ts,            \* the FREE inumbers
  inode_table,
  free_blocks,             \* the FREE block numbers
  fs_data,
  dir,                     \* the root directory's entries
  free_open_file_entries,  \* the FREE file handles
  open_file_table,
  ret                      \* what the last call returned

inodeVars == <<freeinode_ts, inode_table>>
blockVars == <<free_blocks, fs_data>>
openVars  == <<free_open_file_entries, open_file_table>>
fileVars  == <<inodeVars, blockVars, dir>>
vars      == <<status, fileVars, openVars, ret>>

-----------------------------------------------------------------------------
(* Helpers *)

\* A scan of a table from index 0 finds the least index of a set, or nothing.
First(S) == {i \in S : \A j \in S : i <= j}

inode_alloc         == First(freeinode_ts)
data_block_alloc    == First(free_blocks)
data_block_free(b)  == free_blocks \cup {b}

\* Subtraction of two size_t.
SizeSub(a, b) == IF b <= a THEN a - b ELSE (a - b) + SIZE_MOD

Smaller(a, b) == IF a <= b THEN a ELSE b
Larger(a, b)  == IF a <= b THEN b ELSE a

Return(v) == ret' = [val |-> v, data |-> <<>>]

\* PANIC prints a message and exits the process.
ALWAYS_ASSERT(cond) == status' = IF cond THEN status ELSE "panic"

valid_pathname(path) == path # BadPath

get_open_file_entry(h) == h \in Handle \ free_open_file_entries

-----------------------------------------------------------------------------
(* The root directory *)

\* The inumber of the first live entry called name: a set, empty when the
\* scan of find_in_dir ends without a match.
find_in_dir(name) ==
  {dir[i].d_inumber :
     i \in First({k \in Entry : dir[k].d_inumber # Fail /\ dir[k].d_name = name})}

tfs_lookup(path) == IF valid_pathname(path) THEN find_in_dir(path) ELSE {}

\* The entry add_dir_entry fills: the first one without an inode.
LastEmptyEntry(name) ==          \* mutant: the scan starts from the end
  {i \in Entry : /\ name \notin LongName
                 /\ dir[i].d_inumber = Fail
                 /\ \A j \in Entry : dir[j].d_inumber = Fail => j <= i}
add_dir_entry(name) ==
  IF name \in LongName THEN {}
  ELSE First({i \in Entry : dir[i].d_inumber = Fail})

\* The entry clear_dir_entry erases: the first one called name, whether it
\* is live or not.
NoEntryCleared(name) == {}       \* mutant: the entry is left behind
clear_dir_entry(name) == First({i \in Entry : dir[i].d_name = name})

-----------------------------------------------------------------------------
(* tfs_init, tfs_destroy, and calls outside of them *)

\* A new inode: a directory has a block at once, a file has none.
NewInode(i_type, b) ==
  [i_node_type |-> i_type, i_size |-> IF b = Fail THEN 0 ELSE BlockSize, i_data_block |-> b]
NewFileInode == NewInode("T_FILE", Fail)

\* Without tables, and in the tables malloc returns, no value is looked at
\* before it is assigned, but for the names in the root directory; so the
\* others start with any fixed value.
NoInodes  == [n \in Inumber |-> NewFileInode]
NoHandles == [h \in Handle |-> [of_inumber |-> ROOT_DIR_INUM, of_offset |-> 0]]
NoBytes   == [b \in Block |-> [k \in Offset |-> Stale]]
NoEntries == [i \in Entry |-> [d_name |-> NoName, d_inumber |-> Fail]]

Init ==
  /\ status = "uninitialized"
  /\ freeinode_ts = Inumber /\ inode_table = NoInodes
  /\ free_blocks = Block /\ fs_data = NoBytes /\ dir = NoEntries
  /\ free_open_file_entries = Handle /\ open_file_table = NoHandles
  /\ ret = [val |-> 0, data |-> <<>>]

\* state_init marks everything FREE, and inode_create(T_DIRECTORY) takes the
\* first inode and the first block and clears the d_inumber of each entry.
InitTables ==
  /\ freeinode_ts' = Inumber \ {ROOT_DIR_INUM}
  /\ inode_table' = [n \in Inumber |->
       IF n = ROOT_DIR_INUM THEN NewInode("T_DIRECTORY", 0) ELSE NewFileInode]
  /\ free_blocks' = Block \ {0}
  /\ fs_data' = NoBytes
  /\ \E names \in [Entry -> Name \cup {NoName}] :
       dir' = [i \in Entry |-> [d_name |-> names[i], d_inumber |-> Fail]]
  /\ free_open_file_entries' = Handle
  /\ open_file_table' = NoHandles

\* Only the inode table tells whether the library is initialized.
AlreadyInitialized ==
  /\ status \in {"running", "partial"}
  /\ Return(Fail)
  /\ UNCHANGED <<status, fileVars, openVars>>

tfs_init ==
  \/ AlreadyInitialized
  \/ /\ status \in {"uninitialized", "destroyed"}
     /\ \/ InitTables /\ status' = "running" /\ Return(0)
        \/ /\ status' \in {"partial", "destroyed"}   \* a malloc failed
           /\ Return(Fail)
           /\ UNCHANGED <<fileVars, openVars>>

tfs_destroy ==
  /\ status' = IF status = "uninitialized" THEN status ELSE "destroyed"
  /\ freeinode_ts' = Inumber /\ inode_table' = NoInodes
  /\ free_blocks' = Block /\ fs_data' = NoBytes /\ dir' = NoEntries
  /\ free_open_file_entries' = Handle /\ open_file_table' = NoHandles
  /\ Return(0)

\* tfs_open and tfs_unlink without tables: ROOT_DIR_INUM is not valid, or the
\* inode is NULL, or the inode is whatever malloc left.
PathCallWithoutTables(path) ==
  /\ IF valid_pathname(path)
     THEN status' = (IF status = "partial" THEN "undefined" ELSE "panic") /\ UNCHANGED ret
     ELSE Return(Fail) /\ UNCHANGED status
  /\ UNCHANGED <<fileVars, openVars>>

\* tfs_close, tfs_write and tfs_read without tables: get_open_file_entry looks
\* for the handle in a table that is NULL or uninitialized.
HandleCallWithoutTables(h) ==
  /\ IF status # "uninitialized" /\ h \in Handle
     THEN status' = "undefined" /\ UNCHANGED ret
     ELSE Return(Fail) /\ UNCHANGED status
  /\ UNCHANGED <<fileVars, openVars>>

-----------------------------------------------------------------------------
(* tfs_open *)

\* add_to_open_file_table: the last step of tfs_open, which may fail after
\* the file was created or truncated.
add_to_open_file_table(inum, offset) ==
  \/ \E h \in First(free_open_file_entries) :
       /\ free_open_file_entries' = free_open_file_entries \ {h}
       /\ open_file_table' =
            [open_file_table EXCEPT ![h] = [of_inumber |-> inum, of_offset |-> offset]]
       /\ Return(h)
  \/ /\ free_open_file_entries = {}
     /\ Return(Fail)
     /\ UNCHANGED openVars

\* The size of a file that tfs_open found, after the truncation it may ask.
KeepSize(inum, mode) == inode_table[inum].i_size   \* mutant: i_size is not reset
SizeAfterOpen(inum, mode) ==
  IF "TRUNC" \in mode THEN 0 ELSE inode_table[inum].i_size

AppendAtStart(inum, mode) == 0                     \* mutant: TFS_O_APPEND ignored
AppendAtBlockEnd(inum, mode) ==                    \* mutant: offset of the block's end
  IF "APPEND" \in mode THEN BlockSize ELSE 0
InitialOffset(inum, mode) ==
  IF "APPEND" \in mode THEN SizeAfterOpen(inum, mode) ELSE 0

OpenExisting(inum, mode) ==
  LET block  == inode_table[inum].i_data_block
      frees  == "TRUNC" \in mode /\ inode_table[inum].i_size > 0
  IN  /\ ALWAYS_ASSERT(frees => block \in Block)
      /\ free_blocks' = IF frees THEN data_block_free(block) ELSE free_blocks
      /\ inode_table' = [inode_table EXCEPT ![inum].i_size = SizeAfterOpen(inum, mode)]
      /\ add_to_open_file_table(inum, InitialOffset(inum, mode))
      /\ UNCHANGED <<freeinode_ts, fs_data, dir>>

\* The inodes that stay FREE when the new file gets no directory entry:
\* inode_delete gives back the one inode_create took.
InodeKept(inum) == freeinode_ts \ {inum}           \* mutant: no inode_delete
InodeGivenBack(inum) == freeinode_ts

CreateWithoutEntry(inum, name) ==
  /\ add_dir_entry(name) = {}
  /\ freeinode_ts' = InodeGivenBack(inum)
  /\ Return(Fail)
  /\ UNCHANGED <<dir, openVars>>

CreateWithEntry(inum, name) ==
  \E i \in add_dir_entry(name) :
    /\ freeinode_ts' = freeinode_ts \ {inum}
    /\ dir' = [dir EXCEPT ![i] = [d_name |-> name, d_inumber |-> inum]]
    /\ add_to_open_file_table(inum, 0)

OpenCreate(name) ==
  /\ UNCHANGED <<status, blockVars>>
  /\ \/ /\ freeinode_ts = {}
        /\ Return(Fail)
        /\ UNCHANGED <<inodeVars, dir, openVars>>
     \/ \E inum \in inode_alloc :
          /\ inode_table' = [inode_table EXCEPT ![inum] = NewFileInode]
          /\ CreateWithoutEntry(inum, name) \/ CreateWithEntry(inum, name)

tfs_open(path, mode) ==
  \/ /\ ~valid_pathname(path) \/ (tfs_lookup(path) = {} /\ "CREAT" \notin mode)
     /\ Return(Fail)
     /\ UNCHANGED <<status, fileVars, openVars>>
  \/ \E inum \in tfs_lookup(path) : OpenExisting(inum, mode)
  \/ /\ valid_pathname(path) /\ tfs_lookup(path) = {} /\ "CREAT" \in mode
     /\ OpenCreate(path)

-----------------------------------------------------------------------------
(* tfs_close *)

remove_from_open_file_table(h) ==
  /\ free_open_file_entries' = free_open_file_entries \cup {h}

tfs_close(h) ==
  /\ \/ /\ get_open_file_entry(h)
        /\ remove_from_open_file_table(h)
        /\ Return(0)
     \/ /\ ~get_open_file_entry(h)
        /\ Return(Fail)
        /\ UNCHANGED free_open_file_entries
  /\ UNCHANGED <<status, fileVars, open_file_table>>

-----------------------------------------------------------------------------
(* tfs_write *)

\* How many bytes are written: no file grows past its single block.  The
\* subtraction wraps around when of_offset is already past the block.
NotClipped(h, to_write) == to_write   \* mutant: the size of the block is ignored
WriteLength(h, to_write) ==
  LET offset == open_file_table[h].of_offset
  IN  IF to_write + offset > BlockSize THEN SizeSub(BlockSize, offset) ELSE to_write

\* The block written to: an empty file gets the first FREE one.
WriteTarget(inode) ==
  IF inode.i_size = 0 THEN data_block_alloc ELSE {inode.i_data_block}

WriteBytes(h, b, n, buffer) ==
  LET inum   == open_file_table[h].of_inumber
      offset == open_file_table[h].of_offset
      size   == inode_table[inum].i_size
  IN  /\ ALWAYS_ASSERT(b \in Block)
      /\ free_blocks' = IF size = 0 THEN free_blocks \ {b} ELSE free_blocks
      /\ fs_data' = [fs_data EXCEPT ![b] = [k \in Offset |->
                       IF offset <= k /\ k < offset + n THEN buffer[k - offset + 1] ELSE @[k]]]
      /\ open_file_table' = [open_file_table EXCEPT ![h].of_offset = offset + n]
      /\ inode_table' = [inode_table EXCEPT ![inum] =
                           [i_node_type |-> @.i_node_type,
                            i_size |-> Larger(size, offset + n), i_data_block |-> b]]
      /\ Return(n)
      /\ UNCHANGED <<freeinode_ts, dir, free_open_file_entries>>

tfs_write(h, buffer) ==
  \/ /\ ~get_open_file_entry(h)
     /\ Return(Fail)
     /\ UNCHANGED <<status, fileVars, openVars>>
  \/ /\ get_open_file_entry(h)
     /\ LET n     == WriteLength(h, Len(buffer))
            inode == inode_table[open_file_table[h].of_inumber]
        IN  \/ /\ n = 0
               /\ Return(0)
               /\ UNCHANGED <<status, fileVars, openVars>>
            \/ /\ n > 0 /\ WriteTarget(inode) = {}
               /\ Return(Fail)
               /\ UNCHANGED <<status, fileVars, openVars>>
            \/ /\ 0 < n /\ n <= BlockSize
               /\ \E b \in WriteTarget(inode) : WriteBytes(h, b, n, buffer)
            \/ /\ n > BlockSize /\ WriteTarget(inode) # {}
               /\ status' = "undefined"       \* memcpy of almost 2^64 bytes
               /\ UNCHANGED <<fileVars, openVars, ret>>

-----------------------------------------------------------------------------
(* tfs_read *)

\* How many bytes are read.  The subtraction wraps around when the handle is
\* past the end of a file that was truncated or replaced: len is read then.
ReadLength(h, len) ==
  LET file == open_file_table[h]
  IN  Smaller(SizeSub(inode_table[file.of_inumber].i_size, file.of_offset), len)

\* The k-th byte after the start of block b, in the blocks that follow it when
\* k is past its end.
FirstByte(b, k) == fs_data[b][0]   \* mutant: the offset is not added to the block
ByteAt(b, k)   == fs_data[b + k \div BlockSize][k % BlockSize]
Readable(b, k) == b * BlockSize + k < NumBlocks * BlockSize

ReadBytes(h, b, n) ==
  LET offset == open_file_table[h].of_offset
  IN  /\ Readable(b, offset + n - 1)
      /\ ret' = [val |-> n, data |-> [k \in 1..n |-> ByteAt(b, offset + k - 1)]]
      /\ open_file_table' = [open_file_table EXCEPT ![h].of_offset = offset + n]
      /\ UNCHANGED <<status, free_open_file_entries>>

ReadOutside(h, b, n) ==
  /\ b \in Block => ~Readable(b, open_file_table[h].of_offset + n - 1)
  /\ status' = IF b \in Block THEN "undefined" ELSE "panic"
  /\ UNCHANGED <<openVars, ret>>

tfs_read(h, len) ==
  /\ UNCHANGED fileVars
  /\ \/ /\ ~get_open_file_entry(h)
        /\ Return(Fail)
        /\ UNCHANGED <<status, openVars>>
     \/ /\ get_open_file_entry(h) /\ ReadLength(h, len) = 0
        /\ Return(0)
        /\ UNCHANGED <<status, openVars>>
     \/ /\ get_open_file_entry(h) /\ ReadLength(h, len) > 0
        /\ LET b == inode_table[open_file_table[h].of_inumber].i_data_block
               n == ReadLength(h, len)
           IN  \/ b \in Block /\ ReadBytes(h, b, n)
               \/ ReadOutside(h, b, n)

-----------------------------------------------------------------------------
(* tfs_unlink: inode_delete, then clear_dir_entry *)

\* The FREE blocks after the inode is deleted.
BlockKept(inum) == free_blocks   \* mutant: data_block_free is not called
BlocksAfterDelete(inum) ==
  IF inode_table[inum].i_size > 0
  THEN data_block_free(inode_table[inum].i_data_block)
  ELSE free_blocks

inode_delete(inum) ==
  /\ ALWAYS_ASSERT(/\ inum \notin freeinode_ts
                   /\ BlocksAfterDelete(inum) \subseteq Block)
  /\ freeinode_ts' = freeinode_ts \cup {inum}
  /\ free_blocks' = BlocksAfterDelete(inum)

DeleteFile(inum, name) ==
  /\ inode_delete(inum)
  /\ dir' = [i \in Entry |-> IF i \in clear_dir_entry(name)
                             THEN [d_name |-> NoName, d_inumber |-> Fail]
                             ELSE dir[i]]
  /\ Return(IF clear_dir_entry(name) = {} THEN Fail ELSE 0)
  /\ UNCHANGED <<inode_table, fs_data, openVars>>

tfs_unlink(path) ==
  \/ /\ tfs_lookup(path) = {}
     /\ Return(Fail)
     /\ UNCHANGED <<status, fileVars, openVars>>
  \/ \E inum \in tfs_lookup(path) : DeleteFile(inum, path)

-----------------------------------------------------------------------------
(* The callers, and the specification *)

\* The file of this name has a handle in the open file table.
IsOpen(path) ==
  \E inum \in tfs_lookup(path), h \in Handle \ free_open_file_entries :
    open_file_table[h].of_inumber = inum

CallOpen(path, mode) ==
  /\ Disciplined /\ "TRUNC" \in mode => ~IsOpen(path)
  /\ tfs_open(path, mode)

CallUnlink(path) ==
  /\ Disciplined => ~IsOpen(path)
  /\ tfs_unlink(path)

\* What callers pass: names, and handles they may not have.
Path      == Name \cup {BadPath}
AnyHandle == Handle \cup {Fail, NumHandles}

Call ==
  /\ status = "running"
  /\ \/ \E h \in AnyHandle : tfs_close(h)
     \/ \E path \in Path, mode \in Mode : CallOpen(path, mode)
     \/ \E h \in AnyHandle, buffer \in Buffer : tfs_write(h, buffer)
     \/ \E h \in AnyHandle, len \in 0..MaxLen : tfs_read(h, len)
     \/ \E path \in Path : CallUnlink(path)

CallWithoutTables ==
  /\ status \in WithoutTables /\ ~Disciplined
  /\ \/ \E path \in Path : PathCallWithoutTables(path)
     \/ \E h \in AnyHandle : HandleCallWithoutTables(h)

Next ==
  \/ Call
  \/ CallWithoutTables
  \/ status \notin Ended /\ (tfs_init \/ tfs_destroy)

Spec == Init /\ [][Next]_vars

-----------------------------------------------------------------------------
(* Properties of every use of the library *)

LiveEntries == {i \in Entry : dir[i].d_inumber # Fail}
TakenInodes == Inumber \ freeinode_ts
OpenHandles == Handle \ free_open_file_entries
BlockOwners == {n \in TakenInodes : inode_table[n].i_size > 0}

\* Every table holds values of its C type; no file is longer than a block, and
\* an inode with a size has a block.
TypeOK ==
  /\ status \in {"running"} \cup WithoutTables \cup Ended
  /\ freeinode_ts \subseteq Inumber
  /\ inode_table \in [Inumber -> inode_t]
  /\ \A n \in Inumber : inode_table[n].i_size > 0 => inode_table[n].i_data_block \in Block
  /\ free_blocks \subseteq Block
  /\ fs_data \in [Block -> [Offset -> Byte \cup {Stale}]]
  /\ dir \in [Entry -> dir_entry_t]
  /\ free_open_file_entries \subseteq Handle
  /\ open_file_table \in [Handle -> open_file_entry_t]
  /\ ret.val \in Int

\* The directory and the inode table agree: live entries have different names
\* and name different TAKEN inodes, and every TAKEN inode but the root has an
\* entry, so that it can be found and deleted again (tfs_open takes both or
\* neither, tfs_unlink gives back both).
DirectoryConsistent ==
  /\ \A i \in LiveEntries :
       /\ dir[i].d_name \in Name
       /\ dir[i].d_inumber \in TakenInodes \ {ROOT_DIR_INUM}
  /\ \A i, j \in LiveEntries :
       i # j => dir[i].d_name # dir[j].d_name /\ dir[i].d_inumber # dir[j].d_inumber
  /\ \A n \in TakenInodes \ {ROOT_DIR_INUM} : \E i \in LiveEntries : dir[i].d_inumber = n

\* clear_dir_entry compares names without asking whether the entry is live,
\* and inode_create leaves the names of a new directory uninitialized; still
\* it always erases the entry that find_in_dir found.
ClearHitsLookup ==
  \A i \in LiveEntries : clear_dir_entry(dir[i].d_name) = {i}

\* A TAKEN inode with a size owns a TAKEN block that no other such inode
\* owns; the root directory keeps its inode and its block (data_block_alloc,
\* data_block_free and the resets of i_size that go with them).
BlocksOwned ==
  /\ \A n \in BlockOwners : inode_table[n].i_data_block \in Block \ free_blocks
  /\ \A m, n \in BlockOwners :
       m # n => inode_table[m].i_data_block # inode_table[n].i_data_block
  /\ ROOT_DIR_INUM \in BlockOwners
  /\ inode_table[ROOT_DIR_INUM].i_node_type = "T_DIRECTORY"
  /\ \A h \in OpenHandles : open_file_table[h].of_inumber # ROOT_DIR_INUM
BlockOwnership == status = "running" => BlocksOwned

\* A call that fails changes nothing a caller can observe, tfs_init on a file
\* system that runs included, with one exception: when the open file table is
\* full, tfs_open may already have created the file, which its last comment says,
\* or truncated it, which no comment says; no other file is lost.
FailureHarmless ==
  ret'.val = Fail =>
    /\ UNCHANGED <<openVars, fs_data>>
    /\ \/ /\ UNCHANGED <<freeinode_ts, free_blocks, dir>>
          /\ \A n \in TakenInodes : inode_table'[n] = inode_table[n]
       \/ /\ free_open_file_entries = {}
          /\ \A i \in LiveEntries : dir'[i] = dir[i]
FailureAtomic == [][FailureHarmless]_vars

\* A call changes one file at the most, and never the root directory.  A handle
\* whose file was deleted still has the size and the block of its inode, so that
\* tfs_write through it may hit a file that has the block by now; but also then the
\* others keep their inodes, their bytes and their entries, as does the directory's
\* block, which is why it can be modelled apart, by dir.
OthersKept(n) ==
  /\ \A m \in TakenInodes \ {n} :
       /\ m \notin freeinode_ts' /\ inode_table'[m] = inode_table[m]
       /\ inode_table[m].i_size > 0 =>
            fs_data'[inode_table[m].i_data_block] = fs_data[inode_table[m].i_data_block]
  /\ \A i \in LiveEntries : dir[i].d_inumber # n => dir'[i] = dir[i]
OthersUntouched ==
  status = "running" /\ status' = "running" =>
    \E n \in (Inumber \ {ROOT_DIR_INUM}) \cup {Fail} : OthersKept(n)
OneFilePerCall == [][OthersUntouched]_vars

\* The subtractions of size_t in tfs_write and tfs_read, and the assertions on
\* blocks and inodes, end the process only while some handle is past the end of
\* its file: every other sequence of calls, stale handles and reused inodes
\* included, keeps lengths and blocks in range.
Overtaken(h) ==
  open_file_table[h].of_offset > inode_table[open_file_table[h].of_inumber].i_size
EndsOvertaken ==
  status = "running" /\ status' \in Ended => \E h \in OpenHandles : Overtaken(h)
LostOnlyPastEnd == [][EndsOvertaken]_vars

-----------------------------------------------------------------------------
(* Properties of disciplined callers *)

\* What the assertions of tfs_read and tfs_write say ("inode of open file
\* deleted"): unlinking never takes the inode away from a handle.
OpenInodesTaken ==
  \A h \in OpenHandles : open_file_table[h].of_inumber \in TakenInodes

\* No handle is past the end of its file, as the unsigned subtractions of
\* tfs_read and tfs_write assume.
OffsetsWithinFile ==
  \A h \in OpenHandles :
    open_file_table[h].of_offset <= inode_table[open_file_table[h].of_inumber].i_size

\* Both: what the calls on a handle take for granted about its file.
OpenFilesAlive == OpenInodesTaken /\ OffsetsWithinFile

\* tfs_read never copies more bytes than the file holds: operations.h says it
\* reads less than len when the size of the file is reached.
ReadsWithinFile ==
  \A h \in OpenHandles :
    ReadLength(h, MaxLen) <= inode_table[open_file_table[h].of_inumber].i_size

\* A TAKEN block is owned: unlinking and truncating lose no block.
NoLeakedBlock ==
  Block \ free_blocks = {inode_table[n].i_data_block : n \in BlockOwners}

\* No ALWAYS_ASSERT fires and no memcpy leaves its block.
NeverPanics == status \notin Ended
=============================================================================
