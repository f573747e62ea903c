----------------------------- MODULE TFSProofs -----------------------------
(***************************************************************************)
(* What holds of TecnicoFS for every size of its tables and every sequence *)
(* of calls, disciplined or not.                                           *)
(***************************************************************************)
EXTENDS TFS, TLAPS, NaturalsInduction, WellFoundedInduction

\* Names for a scan, a record type or a single assignment: always expanded.
USE DEF inode_alloc, data_block_alloc, data_block_free, remove_from_open_file_table,
        inode_delete, inode_t, dir_entry_t, open_file_entry_t

-----------------------------------------------------------------------------
(* Scans *)

\* What a scan returns is in the table and unique, and every index before it
\* was passed over.
LEMMA FirstIsLeast ==
  ASSUME NEW S \in SUBSET Int, NEW i \in First(S)
  PROVE  /\ i \in S /\ First(S) = {i}
         /\ \A j \in S : i <= j
<1>1. i \in S /\ \A j \in S : i <= j
  BY DEF First
<1>2. ASSUME NEW j \in First(S) PROVE j = i
  BY <1>1, <1>2 DEF First
<1> QED
  BY <1>1, <1>2

\* A scan finds something when there is something to find.
LEMMA ScanFinds ==
  ASSUME NEW S \in SUBSET Nat, S # {}
  PROVE  \E i \in S : i \in First(S)
<1>1. \E i \in S : \A j \in S : ~(<<j, i>> \in OpToRel(<, Nat))
  BY WFMin, NatLessThanWellFounded
<1>2. PICK i \in S : \A j \in S : ~(<<j, i>> \in OpToRel(<, Nat))
  BY <1>1
<1>3. \A j \in S : ~(j < i)
  BY <1>2 DEF OpToRel
<1>4. i \in First(S)
  BY <1>3 DEF First
<1> QED
  BY <1>4

\* find_in_dir returns the inumber of a live entry of that name.
LEMMA LookupFindsLiveEntry ==
  ASSUME TypeOK, NEW name, NEW inum \in find_in_dir(name)
  PROVE  \E i \in LiveEntries : dir[i].d_name = name /\ dir[i].d_inumber = inum
BY DEF find_in_dir, First, LiveEntries

\* find_in_dir returns no inumber only when no live entry has the name.
LEMMA LookupMissesNothing ==
  ASSUME NEW name, find_in_dir(name) = {}
  PROVE  \A i \in LiveEntries : dir[i].d_name # name
<1>1. SUFFICES ASSUME NEW k \in LiveEntries, dir[k].d_name = name
               PROVE  FALSE
  OBVIOUS
<1> DEFINE S == {i \in Entry : dir[i].d_inumber # Fail /\ dir[i].d_name = name}
<1>2. S \in SUBSET Nat /\ k \in S
  BY <1>1, SizesAssumption DEF Entry, LiveEntries
<1>3. PICK i \in S : i \in First(S)
  BY <1>2, ScanFinds
<1>4. dir[i].d_inumber \in find_in_dir(name)
  BY <1>3 DEF find_in_dir
<1> QED
  BY <1>4

-----------------------------------------------------------------------------
(* Type correctness *)

\* tfs_open truncates, creates and adds handles within the tables.
LEMMA OpenKeepsTypes ==
  ASSUME TypeOK, NEW path \in Name \cup {BadPath}, NEW mode \in Mode, tfs_open(path, mode)
  PROVE  TypeOK'
<1>1. ASSUME NEW inum \in Inumber, NEW offset \in 0..BlockSize,
             add_to_open_file_table(inum, offset)
      PROVE  /\ free_open_file_entries' \subseteq Handle
             /\ open_file_table' \in [Handle -> open_file_entry_t]
             /\ ret'.val \in Int
  <2>1. offset \in 0 .. NumBlocks * BlockSize
    BY SizesAssumption
  <2>2. CASE \E h \in First(free_open_file_entries) :
               /\ free_open_file_entries' = free_open_file_entries \ {h}
               /\ open_file_table' =
                    [open_file_table EXCEPT ![h] = [of_inumber |-> inum, of_offset |-> offset]]
               /\ Return(h)
    BY <1>1, <2>1, <2>2, SizesAssumption DEF TypeOK, First, Handle, Return
  <2>3. CASE UNCHANGED openVars /\ Return(Fail)
    BY <2>3 DEF TypeOK, openVars, Return, Fail
  <2> QED
    BY <1>1, <2>2, <2>3 DEF add_to_open_file_table
<1>2. CASE Return(Fail) /\ UNCHANGED <<status, fileVars, openVars>>
  BY <1>2 DEF TypeOK, Return, Fail, fileVars, inodeVars, blockVars, openVars
<1>3. ASSUME NEW inum \in find_in_dir(path), OpenExisting(inum, mode)
      PROVE  TypeOK'
  <2>1. inum \in Inumber
    BY LookupFindsLiveEntry DEF TypeOK, LiveEntries, Fail
  <2>2. inode_table[inum].i_size \in 0..BlockSize
    BY <2>1 DEF TypeOK
  <2>3. SizeAfterOpen(inum, mode) \in {0, inode_table[inum].i_size}
    BY DEF SizeAfterOpen
  <2>4. InitialOffset(inum, mode) \in 0..BlockSize
    BY <2>2, <2>3, SizesAssumption DEF InitialOffset
  <2>5. add_to_open_file_table(inum, InitialOffset(inum, mode))
    BY <1>3 DEF OpenExisting
  <2>6. /\ inode_table' \in [Inumber -> inode_t]
        /\ \A n \in Inumber : inode_table'[n].i_size > 0 => inode_table'[n].i_data_block \in Block
    <3>1. inode_table' = [inode_table EXCEPT ![inum].i_size = SizeAfterOpen(inum, mode)]
      BY <1>3 DEF OpenExisting
    <3>2. /\ SizeAfterOpen(inum, mode) \in 0..BlockSize
          /\ SizeAfterOpen(inum, mode) > 0 => inode_table[inum].i_size > 0
      BY <2>2, <2>3, SizesAssumption
    <3>3. inode_table \in [Inumber -> inode_t]
      BY DEF TypeOK
    <3>4. inode_table' \in [Inumber -> inode_t]
      BY <2>1, <3>1, <3>2, <3>3
    <3>5. \A n \in Inumber : /\ inode_table'[n].i_data_block = inode_table[n].i_data_block
                             /\ inode_table'[n].i_size > 0 => inode_table[n].i_size > 0
      BY <2>1, <3>1, <3>2, <3>3
    <3> QED
      BY <3>4, <3>5 DEF TypeOK
  <2>7. free_blocks' \subseteq Block
    <3>1. inode_table[inum].i_size > 0 => inode_table[inum].i_data_block \in Block
      BY <2>1 DEF TypeOK
    <3>2. free_blocks \subseteq Block
      BY DEF TypeOK
    <3> QED
      BY <1>3, <3>1, <3>2 DEF OpenExisting
  <2>8. status' \in {"running"} \cup WithoutTables \cup Ended
    BY <1>3 DEF OpenExisting, TypeOK, ALWAYS_ASSERT, Ended
  <2> QED
    BY <1>1, <1>3, <2>1, <2>4, <2>5, <2>6, <2>7, <2>8 DEF OpenExisting, TypeOK
<1>4. ASSUME path \in Name, OpenCreate(path)
      PROVE  TypeOK'
  <2>1. CASE Return(Fail) /\ UNCHANGED <<inodeVars, dir, openVars>>
    BY <1>4, <2>1 DEF OpenCreate, TypeOK, Return, Fail, inodeVars, blockVars, openVars
  <2>2. ASSUME NEW inum \in inode_alloc,
               inode_table' = [inode_table EXCEPT ![inum] = NewFileInode],
               CreateWithoutEntry(inum, path) \/ CreateWithEntry(inum, path)
        PROVE  TypeOK'
    <3>1. inum \in Inumber
      BY <2>2 DEF TypeOK, First
    <3>2. /\ inode_table' \in [Inumber -> inode_t]
          /\ \A n \in Inumber : inode_table'[n].i_size > 0 => inode_table'[n].i_data_block \in Block
      BY <2>2, <3>1, SizesAssumption DEF TypeOK, NewFileInode, NewInode, Fail
    <3>3. UNCHANGED <<status, free_blocks, fs_data>>
      BY <1>4 DEF OpenCreate, blockVars
    <3>4. CASE CreateWithoutEntry(inum, path)
      BY <3>2, <3>3, <3>4
      DEF CreateWithoutEntry, InodeGivenBack, TypeOK, Return, Fail, openVars
    <3>5. CASE CreateWithEntry(inum, path)
      <4>1. PICK i \in add_dir_entry(path) :
              /\ freeinode_ts' = freeinode_ts \ {inum}
              /\ dir' = [dir EXCEPT ![i] = [d_name |-> path, d_inumber |-> inum]]
              /\ add_to_open_file_table(inum, 0)
        BY <3>5 DEF CreateWithEntry
      <4>2. i \in Entry
        BY DEF add_dir_entry, First
      <4>3. dir' \in [Entry -> dir_entry_t]
        BY <1>4, <3>1, <4>1, <4>2 DEF TypeOK
      <4>4. 0 \in 0..BlockSize
        BY SizesAssumption
      <4> QED
        BY <1>1, <3>1, <3>2, <3>3, <4>1, <4>3, <4>4 DEF TypeOK
    <3> QED
      BY <2>2, <3>4, <3>5
  <2> QED
    BY <1>4, <2>1, <2>2 DEF OpenCreate
<1>5. path # BadPath => path \in Name
  OBVIOUS
<1> QED
  BY <1>2, <1>3, <1>4, <1>5 DEF tfs_open, tfs_lookup, valid_pathname

\* tfs_close only gives back a handle of the table.
LEMMA CloseKeepsTypes ==
  ASSUME TypeOK, NEW h, tfs_close(h)
  PROVE  TypeOK'
BY DEF tfs_close, get_open_file_entry, TypeOK, Return, Fail, fileVars, inodeVars, blockVars

\* The length tfs_write settles on stays within the block and the buffer,
\* unless the handle was past the block: then it is longer than a block.
LEMMA WriteStaysInBlock ==
  ASSUME TypeOK, NEW h \in Handle, NEW to_write \in 0..MaxLen,
         WriteLength(h, to_write) <= BlockSize
  PROVE  /\ WriteLength(h, to_write) \in 0..to_write
         /\ WriteLength(h, to_write) > 0 =>
              open_file_table[h].of_offset + WriteLength(h, to_write) <= BlockSize
<1>1. open_file_table[h].of_offset \in 0 .. NumBlocks * BlockSize
  BY DEF TypeOK
<1> DEFINE space == NumBlocks * BlockSize
<1>2. space \in Nat /\ SIZE_MOD \in Nat /\ SIZE_MOD > space
  BY SizesAssumption
<1>3. open_file_table[h].of_offset \in 0..space
  BY <1>1
<1> HIDE DEF space
<1> QED
  BY <1>2, <1>3, SizesAssumption DEF WriteLength, SizeSub

\* tfs_write keeps the size of the file within its block, and gives it a block
\* when it gets a size.
LEMMA WriteKeepsTypes ==
  ASSUME TypeOK, NEW h \in Handle \cup {Fail, NumHandles}, NEW buffer \in Buffer,
         tfs_write(h, buffer)
  PROVE  TypeOK'
<1>1. CASE (Return(Fail) \/ Return(0)) /\ UNCHANGED <<status, fileVars, openVars>>
  BY <1>1 DEF TypeOK, Return, Fail, fileVars, inodeVars, blockVars, openVars
<1>2. CASE status' = "undefined" /\ UNCHANGED <<fileVars, openVars, ret>>
  BY <1>2 DEF TypeOK, Ended, fileVars, inodeVars, blockVars, openVars
<1> DEFINE n == WriteLength(h, Len(buffer))
           inum == open_file_table[h].of_inumber
           offset == open_file_table[h].of_offset
<1>3. ASSUME h \in Handle, 0 < n, n <= BlockSize,
             NEW b \in WriteTarget(inode_table[inum]), WriteBytes(h, b, n, buffer)
      PROVE  TypeOK'
  <2>1. PICK len \in 0..MaxLen : buffer \in [1..len -> Byte]
    BY DEF Buffer
  <2>2. Len(buffer) = len
    BY <2>1, SizesAssumption
  <2>3. n \in 1..len /\ offset + n <= BlockSize
    BY <1>3, <2>2, WriteStaysInBlock
  <2>4. inum \in Inumber /\ offset \in Nat
    BY <1>3, SizesAssumption DEF TypeOK
  <2>5. inode_table[inum].i_size \in 0..BlockSize
    BY <2>4 DEF TypeOK
  <2>6. b \in Block
    BY <2>4, <2>5 DEF WriteTarget, First, TypeOK
  <2> HIDE DEF n, inum, offset
  <2>7. free_blocks' \subseteq Block /\ status' \in {"running"} \cup WithoutTables \cup Ended
    BY <1>3 DEF WriteBytes, TypeOK, ALWAYS_ASSERT, Ended, inum
  <2>8. fs_data' \in [Block -> [Offset -> Byte \cup {Stale}]]
    <3>1. \A k \in Offset : offset <= k /\ k < offset + n => buffer[k - offset + 1] \in Byte
      BY <2>1, <2>3, <2>4, SizesAssumption DEF Offset
    <3> QED
      BY <1>3, <2>6, <3>1 DEF WriteBytes, TypeOK, offset
  <2>9. open_file_table' \in [Handle -> open_file_entry_t]
    <3>1. offset + n \in 0 .. BlockSize
      BY <2>3, <2>4
    <3>2. BlockSize <= NumBlocks * BlockSize
      BY SizesAssumption
    <3>3. offset + n \in 0 .. NumBlocks * BlockSize
      BY <3>1, <3>2, SizesAssumption
    <3>4. open_file_table' = [open_file_table EXCEPT ![h].of_offset = offset + n]
      BY <1>3 DEF WriteBytes, offset
    <3> QED
      BY <1>3, <3>3, <3>4 DEF TypeOK
  <2>10. /\ inode_table' \in [Inumber -> inode_t]
         /\ \A m \in Inumber : inode_table'[m].i_size > 0 => inode_table'[m].i_data_block \in Block
    <3>1. Larger(inode_table[inum].i_size, offset + n) \in 0..BlockSize
      BY <2>3, <2>4, <2>5, SizesAssumption DEF Larger
    <3> DEFINE size == Larger(inode_table[inum].i_size, offset + n)
               new  == [i_node_type |-> inode_table[inum].i_node_type,
                        i_size |-> size, i_data_block |-> b]
    <3> HIDE DEF size
    <3>3. inode_table' = [inode_table EXCEPT ![inum] = new]
      BY <1>3 DEF WriteBytes, inum, offset, size
    <3>4. new \in inode_t
      BY <2>4, <2>6, <3>1 DEF TypeOK, size
    <3> QED
      BY <2>4, <2>6, <3>3, <3>4 DEF TypeOK
  <2>11. ret'.val \in Int
    BY <1>3, <2>3, <2>1 DEF WriteBytes, Return
  <2> QED
    BY <1>3, <2>7, <2>8, <2>9, <2>10, <2>11 DEF WriteBytes, TypeOK
<1> QED
  BY <1>1, <1>2, <1>3 DEF tfs_write, get_open_file_entry

\* tfs_read leaves its handle within the blocks, even when it reads past the
\* end of its file.
LEMMA ReadKeepsTypes ==
  ASSUME TypeOK, NEW h \in Handle \cup {Fail, NumHandles}, NEW len \in 0..MaxLen,
         tfs_read(h, len)
  PROVE  TypeOK'
<1>1. CASE (Return(Fail) \/ Return(0)) /\ UNCHANGED <<status, fileVars, openVars>>
  BY <1>1 DEF TypeOK, Return, Fail, fileVars, inodeVars, blockVars, openVars
<1> DEFINE n == ReadLength(h, len)
           b == inode_table[open_file_table[h].of_inumber].i_data_block
           offset == open_file_table[h].of_offset
<1>2. CASE UNCHANGED fileVars /\ ReadOutside(h, b, n)
  BY <1>2 DEF ReadOutside, TypeOK, Ended, fileVars, inodeVars, blockVars, openVars
<1>3. ASSUME h \in Handle, n > 0, b \in Block, ReadBytes(h, b, n), UNCHANGED fileVars
      PROVE  TypeOK'
  <2>1. offset \in Nat /\ open_file_table[h].of_inumber \in Inumber
    BY <1>3, SizesAssumption DEF TypeOK
  <2>2. n \in Nat
    <3>1. inode_table[open_file_table[h].of_inumber].i_size \in Int
      BY <2>1, SizesAssumption DEF TypeOK
    <3> QED
      BY <1>3, <2>1, <3>1, SizesAssumption DEF ReadLength, SizeSub, Smaller
  <2> HIDE DEF n, b, offset
  <2>3. offset + n \in 0 .. NumBlocks * BlockSize
    <3>1. b * BlockSize \in Nat /\ NumBlocks * BlockSize \in Nat
      BY <1>3, SizesAssumption DEF Block
    <3>2. b * BlockSize + (offset + n - 1) < NumBlocks * BlockSize
      BY <1>3 DEF ReadBytes, Readable, offset
    <3> DEFINE start == b * BlockSize
               end   == NumBlocks * BlockSize
    <3> HIDE DEF start, end
    <3>3. start \in Nat /\ end \in Nat /\ start + (offset + n - 1) < end
      BY <3>1, <3>2 DEF start, end
    <3>4. offset + n \in 0..end
      BY <2>1, <2>2, <3>3
    <3> QED
      BY <3>4 DEF end
  <2>4. open_file_table' = [open_file_table EXCEPT ![h].of_offset = offset + n]
    BY <1>3 DEF ReadBytes, offset
  <2>5. ret'.val \in Int
    BY <1>3, <2>2 DEF ReadBytes
  <2> QED
    BY <1>3, <2>3, <2>4, <2>5 DEF ReadBytes, TypeOK, fileVars, inodeVars, blockVars
<1> QED
  BY <1>1, <1>2, <1>3 DEF tfs_read, get_open_file_entry

\* tfs_unlink gives back an inode and a block of the tables.
LEMMA UnlinkKeepsTypes ==
  ASSUME TypeOK, NEW path, tfs_unlink(path)
  PROVE  TypeOK'
<1>1. CASE Return(Fail) /\ UNCHANGED <<status, fileVars, openVars>>
  BY <1>1 DEF TypeOK, Return, Fail, fileVars, inodeVars, blockVars, openVars
<1>2. ASSUME NEW inum \in find_in_dir(path), DeleteFile(inum, path)
      PROVE  TypeOK'
  <2>1. inum \in Inumber
    BY LookupFindsLiveEntry DEF TypeOK, LiveEntries, Fail
  <2>2. BlocksAfterDelete(inum) \subseteq Block
    BY <2>1 DEF BlocksAfterDelete, TypeOK
  <2>3. dir' \in [Entry -> dir_entry_t]
    BY <1>2 DEF DeleteFile, TypeOK
  <2>4. ret'.val \in Int
    BY <1>2 DEF DeleteFile, Return, Fail
  <2> QED
    BY <1>2, <2>1, <2>2, <2>3, <2>4 DEF DeleteFile, ALWAYS_ASSERT, TypeOK, Ended, openVars
<1> QED
  BY <1>1, <1>2 DEF tfs_unlink, tfs_lookup

\* The tables without contents, before tfs_init and after tfs_destroy.
LEMMA NoContentsTyped ==
  /\ NoInodes \in [Inumber -> inode_t] /\ \A n \in Inumber : NoInodes[n].i_size = 0
  /\ NoHandles \in [Handle -> open_file_entry_t]
  /\ NoBytes \in [Block -> [Offset -> Byte \cup {Stale}]]
  /\ NoEntries \in [Entry -> dir_entry_t]
<1>1. ROOT_DIR_INUM \in Inumber /\ 0 \in 0 .. NumBlocks * BlockSize /\ 0 \in 0..BlockSize
  BY SizesAssumption DEF Inumber, ROOT_DIR_INUM
<1> QED
  BY <1>1 DEF NoInodes, NoHandles, NoBytes, NoEntries, NewFileInode, NewInode, Fail

LEMMA InitTyped == Init => TypeOK
BY NoContentsTyped DEF Init, TypeOK, WithoutTables

\* tfs_init gives the root an inode and a block of the tables.
LEMMA InitTablesTyped ==
  ASSUME TypeOK, tfs_init
  PROVE  TypeOK'
<1>1. CASE UNCHANGED <<fileVars, openVars>> /\ Return(Fail)
           /\ status' \in {status, "partial", "destroyed"}
  BY <1>1 DEF TypeOK, WithoutTables, Return, Fail, fileVars, inodeVars, blockVars, openVars
<1>2. CASE InitTables /\ status' = "running" /\ Return(0)
  <2>1. 0 \in Block /\ BlockSize \in 0..BlockSize /\ BlockSize > 0 /\ 0 \in Int
    BY SizesAssumption DEF Block
  <2>2. /\ inode_table' \in [Inumber -> inode_t]
        /\ \A n \in Inumber : inode_table'[n].i_size > 0 => inode_table'[n].i_data_block \in Block
    <3>1. NewInode("T_DIRECTORY", 0) = [i_node_type |-> "T_DIRECTORY", i_size |-> BlockSize,
                                        i_data_block |-> 0]
      BY DEF NewInode, Fail
    <3>2. NewFileInode = [i_node_type |-> "T_FILE", i_size |-> 0, i_data_block |-> Fail]
      BY DEF NewFileInode, NewInode
    <3>3. inode_table' = [n \in Inumber |-> IF n = ROOT_DIR_INUM THEN NewInode("T_DIRECTORY", 0)
                                                                  ELSE NewFileInode]
      BY <1>2 DEF InitTables
    <3> QED
      BY <2>1, <3>1, <3>2, <3>3, SizesAssumption
  <2>3. dir' \in [Entry -> dir_entry_t]
    BY <1>2 DEF InitTables
  <2> QED
    BY <1>2, <2>1, <2>2, <2>3, NoContentsTyped DEF InitTables, TypeOK, Return
<1> QED
  BY <1>1, <1>2 DEF tfs_init, AlreadyInitialized

\* tfs_destroy leaves the tables empty.
LEMMA DestroyKeepsTypes ==
  ASSUME TypeOK, tfs_destroy
  PROVE  TypeOK'
BY NoContentsTyped DEF tfs_destroy, TypeOK, WithoutTables, Return

\* Without tables a call fails or ends the process.
LEMMA WithoutTablesKeepsTypes ==
  ASSUME TypeOK, CallWithoutTables
  PROVE  TypeOK' /\ UNCHANGED <<fileVars, openVars>> /\ status' # "running"
<1>1. ASSUME NEW path, PathCallWithoutTables(path)
      PROVE  TypeOK' /\ UNCHANGED <<fileVars, openVars>> /\ status' \in {status} \cup Ended
  BY <1>1 DEF PathCallWithoutTables, TypeOK, Ended, Return, Fail,
              fileVars, inodeVars, blockVars, openVars
<1>2. ASSUME NEW h, HandleCallWithoutTables(h)
      PROVE  TypeOK' /\ UNCHANGED <<fileVars, openVars>> /\ status' \in {status} \cup Ended
  BY <1>2 DEF HandleCallWithoutTables, TypeOK, Ended, Return, Fail,
              fileVars, inodeVars, blockVars, openVars
<1> QED
  BY <1>1, <1>2 DEF CallWithoutTables, WithoutTables, Ended

\* Any step keeps the types.
LEMMA NextKeepsTypes ==
  ASSUME TypeOK, [Next]_vars
  PROVE  TypeOK'
<1>1. CASE Call
  BY <1>1, OpenKeepsTypes, CloseKeepsTypes, WriteKeepsTypes, ReadKeepsTypes,
     UnlinkKeepsTypes DEF Call, CallOpen, CallUnlink, Path, AnyHandle
<1>2. CASE UNCHANGED vars
  BY <1>2 DEF TypeOK, vars, fileVars, inodeVars, blockVars, openVars
<1> QED
  BY <1>1, <1>2, InitTablesTyped, DestroyKeepsTypes, WithoutTablesKeepsTypes DEF Next

\* Every table keeps its C type under every sequence of calls: no file grows
\* past its block, and no handle leaves the data blocks.
THEOREM TypeCorrect == Spec => []TypeOK
BY InitTyped, NextKeepsTypes, PTL DEF Spec

-----------------------------------------------------------------------------
(* The directory, the inodes and the blocks agree *)

\* No entry before a live one has its name, not even an empty entry whose name
\* was never initialized: add_dir_entry fills the first empty one.
NamesFoundFirst ==
  \A i \in LiveEntries, j \in Entry : j < i => dir[j].d_name # dir[i].d_name

\* What a call of a file system that runs relies on.  Each part needs the
\* others: an unlink frees the inode of the entry it clears only if both scans
\* stop at the same entry.
Consistent == TypeOK /\ DirectoryConsistent /\ BlocksOwned /\ NamesFoundFirst

\* The inductive invariant: without tables there is no root to own a block.
AlwaysConsistent == TypeOK /\ DirectoryConsistent /\ NamesFoundFirst /\ BlockOwnership

\* Live entries and TAKEN inodes only depend on the directory and freeinode_ts.
LEMMA DirectoryUntouched ==
  ASSUME Consistent, UNCHANGED <<freeinode_ts, dir>>
  PROVE  DirectoryConsistent' /\ NamesFoundFirst'
BY DEF Consistent, DirectoryConsistent, NamesFoundFirst, LiveEntries, TakenInodes

\* The blocks keep their owners when no file nor handle is touched.
LEMMA BlocksUntouched ==
  ASSUME Consistent, UNCHANGED fileVars,
         \A h \in OpenHandles' : open_file_table'[h].of_inumber # ROOT_DIR_INUM
  PROVE  BlocksOwned'
BY DEF Consistent, BlocksOwned, BlockOwners, TakenInodes, OpenHandles,
       fileVars, inodeVars, blockVars

\* A new handle is on the inode it was opened for.
LEMMA NewHandleAvoidsRoot ==
  ASSUME Consistent, NEW inum \in Inumber \ {ROOT_DIR_INUM}, NEW offset,
         add_to_open_file_table(inum, offset)
  PROVE  \A h \in OpenHandles' : open_file_table'[h].of_inumber # ROOT_DIR_INUM
<1>1. CASE UNCHANGED openVars
  BY <1>1 DEF Consistent, BlocksOwned, openVars, OpenHandles
<1>2. ASSUME NEW h \in First(free_open_file_entries),
             free_open_file_entries' = free_open_file_entries \ {h},
             open_file_table' =
               [open_file_table EXCEPT ![h] = [of_inumber |-> inum, of_offset |-> offset]]
      PROVE  \A k \in OpenHandles' : open_file_table'[k].of_inumber # ROOT_DIR_INUM
  BY <1>2 DEF Consistent, TypeOK, BlocksOwned, OpenHandles, First
<1> QED
  BY <1>1, <1>2 DEF add_to_open_file_table

\* An inumber the directory holds is TAKEN and is not the root's.
LEMMA LookupFindsTakenInode ==
  ASSUME Consistent, NEW name, NEW inum \in find_in_dir(name)
  PROVE  inum \in TakenInodes \ {ROOT_DIR_INUM} /\ inum \in Inumber
BY LookupFindsLiveEntry DEF Consistent, DirectoryConsistent, TakenInodes

\* Truncating a file gives its block back to nobody else's harm.
LEMMA OpenExistingKeepsConsistent ==
  ASSUME Consistent, NEW path, NEW mode, NEW inum \in find_in_dir(path),
         OpenExisting(inum, mode)
  PROVE  DirectoryConsistent' /\ NamesFoundFirst' /\ BlocksOwned'
<1>1. inum \in TakenInodes \ {ROOT_DIR_INUM} /\ inum \in Inumber
  BY LookupFindsTakenInode
<1>2. DirectoryConsistent' /\ NamesFoundFirst'
  BY DirectoryUntouched DEF OpenExisting
<1>3. \A h \in OpenHandles' : open_file_table'[h].of_inumber # ROOT_DIR_INUM
  BY <1>1, NewHandleAvoidsRoot DEF OpenExisting
<1>4. inode_table' = [inode_table EXCEPT ![inum].i_size = SizeAfterOpen(inum, mode)]
  BY DEF OpenExisting
<1>5. TypeOK /\ BlocksOwned
  BY DEF Consistent
<1>6. /\ \A n \in Inumber : inode_table'[n].i_data_block = inode_table[n].i_data_block
      /\ \A n \in Inumber : inode_table'[n].i_node_type = inode_table[n].i_node_type
      /\ \A n \in Inumber \ {inum} : inode_table'[n].i_size = inode_table[n].i_size
      /\ inode_table'[inum].i_size = SizeAfterOpen(inum, mode)
  BY <1>1, <1>4, <1>5 DEF TypeOK
<1>7. TakenInodes' = TakenInodes
  BY DEF TakenInodes, OpenExisting
<1>8. CASE "TRUNC" \in mode /\ inode_table[inum].i_size > 0
  <2>1. BlockOwners' = BlockOwners \ {inum}
    BY <1>1, <1>6, <1>7, <1>8 DEF BlockOwners, TakenInodes, SizeAfterOpen
  <2>2. free_blocks' = free_blocks \cup {inode_table[inum].i_data_block}
    BY <1>8 DEF OpenExisting
  <2>3. inum \in BlockOwners
    BY <1>1, <1>8 DEF BlockOwners
  <2> QED
    BY <1>1, <1>2, <1>3, <1>5, <1>6, <2>1, <2>2, <2>3
    DEF BlocksOwned, BlockOwners, TakenInodes
<1>9. CASE ~("TRUNC" \in mode /\ inode_table[inum].i_size > 0)
  <2>1. inode_table[inum].i_size \in 0..BlockSize
    BY <1>1, <1>5 DEF TypeOK
  <2>2. SizeAfterOpen(inum, mode) = inode_table[inum].i_size
    BY <1>9, <2>1, SizesAssumption DEF SizeAfterOpen
  <2>3. BlockOwners' = BlockOwners
    BY <1>6, <1>7, <2>2 DEF BlockOwners, TakenInodes
  <2>4. free_blocks' = free_blocks
    BY <1>9 DEF OpenExisting
  <2> QED
    BY <1>2, <1>3, <1>5, <1>6, <2>3, <2>4 DEF BlocksOwned, BlockOwners, TakenInodes, ROOT_DIR_INUM
<1> QED
  BY <1>2, <1>8, <1>9

\* tfs_open creates a file with an inode and an entry of its own, or neither.
LEMMA OpenCreateKeepsConsistent ==
  ASSUME Consistent, NEW path \in Name, find_in_dir(path) = {}, OpenCreate(path)
  PROVE  DirectoryConsistent' /\ NamesFoundFirst' /\ BlocksOwned'
<1>1. UNCHANGED blockVars /\ TypeOK /\ BlocksOwned
  BY DEF Consistent, OpenCreate
<1>2. CASE UNCHANGED <<inodeVars, dir, openVars>>
  <2>1. UNCHANGED fileVars
    BY <1>1, <1>2 DEF fileVars
  <2>2. \A h \in OpenHandles' : open_file_table'[h].of_inumber # ROOT_DIR_INUM
    BY <1>1, <1>2 DEF BlocksOwned, OpenHandles, openVars
  <2> QED
    BY <1>2, <2>1, <2>2, DirectoryUntouched, BlocksUntouched DEF inodeVars
<1>3. ASSUME NEW inum \in inode_alloc,
             inode_table' = [inode_table EXCEPT ![inum] = NewFileInode],
             CreateWithoutEntry(inum, path) \/ CreateWithEntry(inum, path)
      PROVE  DirectoryConsistent' /\ NamesFoundFirst' /\ BlocksOwned'
  <2>1. inum \in freeinode_ts /\ inum \in Inumber /\ inum \notin TakenInodes
    BY <1>1 DEF First, TypeOK, TakenInodes
  <2>2. inum # ROOT_DIR_INUM
    BY <1>1, <2>1 DEF BlocksOwned, BlockOwners
  <2>3. /\ \A n \in Inumber \ {inum} : inode_table'[n] = inode_table[n]
        /\ inode_table'[inum].i_size = 0
    BY <1>1, <1>3, <2>1 DEF TypeOK, NewFileInode, NewInode
  <2>4. ASSUME TakenInodes' \subseteq TakenInodes \cup {inum},
               TakenInodes \subseteq TakenInodes',
               \A h \in OpenHandles' : open_file_table'[h].of_inumber # ROOT_DIR_INUM
        PROVE  BlocksOwned'
    <3>1. BlockOwners' = BlockOwners
      BY <2>1, <2>3, <2>4 DEF BlockOwners, TakenInodes
    <3> QED
      BY <1>1, <2>1, <2>2, <2>3, <2>4, <3>1 DEF BlocksOwned, BlockOwners, TakenInodes, blockVars
  <2>5. CASE CreateWithoutEntry(inum, path)
    <3>1. UNCHANGED <<freeinode_ts, dir, openVars>>
      BY <2>5 DEF CreateWithoutEntry, InodeGivenBack
    <3>2. TakenInodes' = TakenInodes
      BY <3>1 DEF TakenInodes
    <3>3. \A h \in OpenHandles' : open_file_table'[h].of_inumber # ROOT_DIR_INUM
      BY <1>1, <3>1 DEF BlocksOwned, OpenHandles, openVars
    <3> QED
      BY <2>4, <3>1, <3>2, <3>3, DirectoryUntouched
  <2>6. CASE CreateWithEntry(inum, path)
    <3>1. PICK i \in add_dir_entry(path) :
            /\ freeinode_ts' = freeinode_ts \ {inum}
            /\ dir' = [dir EXCEPT ![i] = [d_name |-> path, d_inumber |-> inum]]
            /\ add_to_open_file_table(inum, 0)
      BY <2>6 DEF CreateWithEntry
    <3>2. /\ i \in Entry /\ dir[i].d_inumber = Fail
          /\ \A j \in Entry : dir[j].d_inumber = Fail => i <= j
      BY DEF add_dir_entry, First
    <3>3. /\ dir'[i].d_name = path /\ dir'[i].d_inumber = inum
          /\ \A j \in Entry \ {i} : dir'[j] = dir[j]
      BY <1>1, <3>1, <3>2 DEF TypeOK
    <3>4. LiveEntries' = LiveEntries \cup {i} /\ i \notin LiveEntries
      BY <2>1, <3>2, <3>3 DEF LiveEntries, Fail, Inumber
    <3>5. TakenInodes' = TakenInodes \cup {inum}
      BY <2>1, <3>1 DEF TakenInodes
    <3>6. \A j \in LiveEntries : dir[j].d_name # path
      BY LookupMissesNothing
    <3>7. DirectoryConsistent'
      <4>1. DirectoryConsistent
        BY DEF Consistent
      <4>2. \A k \in LiveEntries : k \in Entry /\ dir'[k] = dir[k]
        BY <3>3, <3>4 DEF LiveEntries
      <4>3. \A k \in LiveEntries' :
              /\ dir'[k].d_name \in Name
              /\ dir'[k].d_inumber \in TakenInodes' \ {ROOT_DIR_INUM}
        BY <2>2, <3>3, <3>4, <3>5, <4>1, <4>2 DEF DirectoryConsistent
      <4>4. \A j, k \in LiveEntries' :
              j # k => dir'[j].d_name # dir'[k].d_name /\ dir'[j].d_inumber # dir'[k].d_inumber
        BY <2>1, <3>3, <3>4, <3>6, <4>1, <4>2 DEF DirectoryConsistent
      <4>5. \A n \in TakenInodes' \ {ROOT_DIR_INUM} :
              \E k \in LiveEntries' : dir'[k].d_inumber = n
        BY <3>3, <3>4, <3>5, <4>1, <4>2 DEF DirectoryConsistent
      <4> QED
        BY <4>3, <4>4, <4>5 DEF DirectoryConsistent
    <3>8. NamesFoundFirst'
      <4>1. SUFFICES ASSUME NEW k \in LiveEntries', NEW j \in Entry, j < k
                     PROVE  dir'[j].d_name # dir'[k].d_name
        BY DEF NamesFoundFirst
      <4>2. CASE k = i
        <5>1. j \in LiveEntries /\ j # i
          BY <3>2, <4>1, <4>2, SizesAssumption DEF LiveEntries, Entry
        <5> QED
          BY <3>3, <3>6, <4>2, <5>1 DEF LiveEntries
      <4>3. CASE k # i
        <5>1. k \in LiveEntries /\ k \in Entry
          BY <3>4, <4>3 DEF LiveEntries
        <5> QED
          BY <3>3, <3>6, <4>1, <4>3, <5>1 DEF Consistent, NamesFoundFirst
      <4> QED
        BY <4>2, <4>3
    <3>9. \A h \in OpenHandles' : open_file_table'[h].of_inumber # ROOT_DIR_INUM
      BY <2>1, <2>2, <3>1, NewHandleAvoidsRoot
    <3> QED
      BY <2>4, <3>5, <3>7, <3>8, <3>9
  <2> QED
    BY <1>3, <2>5, <2>6
<1> QED
  BY <1>2, <1>3 DEF OpenCreate

\* tfs_write gives an empty file a block that had no owner, even through a
\* handle whose inode was deleted.
LEMMA WriteKeepsConsistent ==
  ASSUME Consistent, NEW h \in Handle \cup {Fail, NumHandles}, NEW buffer \in Buffer,
         tfs_write(h, buffer)
  PROVE  DirectoryConsistent' /\ NamesFoundFirst' /\ BlocksOwned'
<1>1. TypeOK /\ BlocksOwned
  BY DEF Consistent
<1>2. CASE UNCHANGED <<fileVars, openVars>>
  <2>1. \A k \in OpenHandles' : open_file_table'[k].of_inumber # ROOT_DIR_INUM
    BY <1>1, <1>2 DEF BlocksOwned, OpenHandles, openVars
  <2> QED
    BY <1>2, <2>1, DirectoryUntouched, BlocksUntouched DEF fileVars, inodeVars
<1> DEFINE n == WriteLength(h, Len(buffer))
           inum == open_file_table[h].of_inumber
           offset == open_file_table[h].of_offset
<1>3. ASSUME h \in OpenHandles, 0 < n,
             NEW b \in WriteTarget(inode_table[inum]), WriteBytes(h, b, n, buffer)
      PROVE  DirectoryConsistent' /\ NamesFoundFirst' /\ BlocksOwned'
  <2> DEFINE size == Larger(inode_table[inum].i_size, offset + n)
             new  == [i_node_type |-> inode_table[inum].i_node_type,
                      i_size |-> size, i_data_block |-> b]
  <2>1. inum \in Inumber /\ h \in Handle /\ inum # ROOT_DIR_INUM
    BY <1>1, <1>3 DEF TypeOK, OpenHandles, BlocksOwned
  <2>2. size > 0
    <3>1. n \in Int /\ offset \in Nat /\ inode_table[inum].i_size \in Nat
      <4>1. Len(buffer) \in Nat
        BY SizesAssumption DEF Buffer
      <4>2. offset \in Nat /\ inode_table[inum].i_size \in Nat
        BY <1>1, <2>1, SizesAssumption DEF TypeOK
      <4> QED
        BY <4>1, <4>2, SizesAssumption DEF WriteLength, SizeSub
    <3> HIDE DEF n, offset, inum
    <3> QED
      BY <1>3, <3>1 DEF Larger
  <2>3. inode_table' = [inode_table EXCEPT ![inum] = new]
    BY <1>3 DEF WriteBytes
  <2> HIDE DEF size, n
  <2>4. /\ \A m \in Inumber \ {inum} : inode_table'[m] = inode_table[m]
        /\ inode_table'[inum].i_size > 0 /\ inode_table'[inum].i_data_block = b
    BY <1>1, <2>1, <2>2, <2>3 DEF TypeOK
  <2> HIDE DEF inum, offset
  <2>5. UNCHANGED <<freeinode_ts, dir, free_open_file_entries>> /\ TakenInodes' = TakenInodes
    BY <1>3 DEF WriteBytes, TakenInodes
  <2>6. \A k \in OpenHandles' : open_file_table'[k].of_inumber # ROOT_DIR_INUM
    <3>1. open_file_table' = [open_file_table EXCEPT ![h].of_offset = offset + n]
      BY <1>3 DEF WriteBytes, offset
    <3> QED
      BY <1>1, <2>1, <2>5, <3>1 DEF TypeOK, OpenHandles, BlocksOwned
  <2>7. BlocksOwned'
    <3>1. CASE inode_table[inum].i_size = 0
      <4>1. b \in free_blocks /\ free_blocks' = free_blocks \ {b} /\ b \in Block
        BY <1>1, <1>3, <3>1 DEF WriteTarget, First, WriteBytes, inum, TypeOK
      <4>2. BlockOwners' \subseteq BlockOwners \cup {inum} /\ inum \notin BlockOwners
        BY <2>4, <2>5, <3>1 DEF BlockOwners, TakenInodes
      <4>3. \A m \in BlockOwners : /\ m \in BlockOwners'
                                   /\ inode_table'[m] = inode_table[m]
                                   /\ inode_table[m].i_data_block \in Block \ free_blocks
        BY <1>1, <2>4, <2>5, <4>2 DEF BlockOwners, BlocksOwned, TakenInodes
      <4> QED
        BY <1>1, <2>1, <2>4, <2>6, <4>1, <4>2, <4>3 DEF BlocksOwned
    <3>2. CASE inode_table[inum].i_size # 0
      <4>1. b = inode_table[inum].i_data_block /\ free_blocks' = free_blocks
        BY <1>3, <3>2 DEF WriteTarget, WriteBytes, inum
      <4>2. inode_table[inum].i_size > 0
        BY <1>1, <2>1, <3>2, SizesAssumption DEF TypeOK
      <4>3. BlockOwners' = BlockOwners
        BY <2>4, <2>5, <4>2 DEF BlockOwners, TakenInodes
      <4>4. \A m \in Inumber : inode_table'[m].i_data_block = inode_table[m].i_data_block
        BY <2>4, <4>1
      <4>5. inode_table'[ROOT_DIR_INUM] = inode_table[ROOT_DIR_INUM]
        BY <1>1, <2>1, <2>4 DEF BlocksOwned, BlockOwners, TakenInodes
      <4> QED
        BY <1>1, <2>6, <4>1, <4>3, <4>4, <4>5 DEF BlocksOwned, BlockOwners, TakenInodes
    <3> QED
      BY <3>1, <3>2
  <2> QED
    BY <2>5, <2>7, DirectoryUntouched
<1> QED
  BY <1>2, <1>3 DEF tfs_write, get_open_file_entry, OpenHandles, fileVars, openVars

\* tfs_read changes one offset.
LEMMA ReadKeepsConsistent ==
  ASSUME Consistent, NEW h \in Handle \cup {Fail, NumHandles}, NEW len \in 0..MaxLen,
         tfs_read(h, len)
  PROVE  DirectoryConsistent' /\ NamesFoundFirst' /\ BlocksOwned'
<1>1. UNCHANGED fileVars
  BY DEF tfs_read
<1>2. \A k \in OpenHandles' : open_file_table'[k].of_inumber # ROOT_DIR_INUM
  <2>1. CASE UNCHANGED openVars
    BY <2>1 DEF Consistent, BlocksOwned, OpenHandles, openVars
  <2>2. ASSUME h \in OpenHandles, NEW n, NEW b, ReadBytes(h, b, n)
        PROVE  \A k \in OpenHandles' : open_file_table'[k].of_inumber # ROOT_DIR_INUM
    BY <2>2 DEF Consistent, TypeOK, BlocksOwned, OpenHandles, ReadBytes
  <2> QED
    BY <2>1, <2>2 DEF tfs_read, ReadOutside, get_open_file_entry, OpenHandles
<1> QED
  BY <1>1, <1>2, DirectoryUntouched, BlocksUntouched DEF fileVars, inodeVars

\* tfs_close gives back one handle.
LEMMA CloseKeepsConsistent ==
  ASSUME Consistent, NEW h, tfs_close(h)
  PROVE  DirectoryConsistent' /\ NamesFoundFirst' /\ BlocksOwned'
<1>1. UNCHANGED fileVars
  BY DEF tfs_close
<1>2. \A k \in OpenHandles' : open_file_table'[k].of_inumber # ROOT_DIR_INUM
  BY DEF tfs_close, Consistent, BlocksOwned, OpenHandles
<1> QED
  BY <1>1, <1>2, DirectoryUntouched, BlocksUntouched DEF fileVars, inodeVars

\* The scan of clear_dir_entry, which also looks at empty entries, stops at the
\* entry find_in_dir stopped at.
LEMMA ClearHitsLive ==
  ASSUME NamesFoundFirst, NEW i \in LiveEntries
  PROVE  clear_dir_entry(dir[i].d_name) = {i}
<1> DEFINE S == {k \in Entry : dir[k].d_name = dir[i].d_name}
<1>1. i \in S /\ S \in SUBSET Int
  BY SizesAssumption DEF LiveEntries, Entry
<1>2. \A j \in S : i <= j
  BY <1>1 DEF NamesFoundFirst
<1>3. i \in First(S)
  BY <1>1, <1>2 DEF First
<1>4. First(S) = {i}
  BY <1>1, <1>3, FirstIsLeast
<1> QED
  BY <1>4 DEF clear_dir_entry

\* tfs_unlink erases the entry whose inode it deletes, and frees the block the
\* file owned.
LEMMA UnlinkKeepsConsistent ==
  ASSUME Consistent, NEW path, tfs_unlink(path)
  PROVE  DirectoryConsistent' /\ NamesFoundFirst' /\ BlocksOwned'
<1>1. TypeOK /\ DirectoryConsistent /\ BlocksOwned /\ NamesFoundFirst
  BY DEF Consistent
<1>2. CASE UNCHANGED <<fileVars, openVars>>
  <2>1. \A k \in OpenHandles' : open_file_table'[k].of_inumber # ROOT_DIR_INUM
    BY <1>1, <1>2 DEF BlocksOwned, OpenHandles, openVars
  <2> QED
    BY <1>2, <2>1, DirectoryUntouched, BlocksUntouched DEF fileVars, inodeVars
<1>3. ASSUME NEW inum \in find_in_dir(path), DeleteFile(inum, path)
      PROVE  DirectoryConsistent' /\ NamesFoundFirst' /\ BlocksOwned'
  <2>1. PICK i \in LiveEntries : dir[i].d_name = path /\ dir[i].d_inumber = inum
    BY <1>1, <1>3, LookupFindsLiveEntry
  <2>2. inum \in TakenInodes \ {ROOT_DIR_INUM} /\ inum \in Inumber
    BY <1>3, LookupFindsTakenInode
  <2>3. clear_dir_entry(path) = {i} /\ i \in Entry
    BY <1>1, <2>1, ClearHitsLive DEF LiveEntries
  <2>4. /\ dir'[i].d_name = NoName /\ dir'[i].d_inumber = Fail
        /\ \A j \in Entry \ {i} : dir'[j] = dir[j]
    BY <1>3, <2>3 DEF DeleteFile
  <2>5. LiveEntries' = LiveEntries \ {i}
    BY <2>4 DEF LiveEntries
  <2>6. TakenInodes' = TakenInodes \ {inum} /\ UNCHANGED <<inode_table, openVars>>
    BY <1>3 DEF DeleteFile, TakenInodes
  <2>7. DirectoryConsistent'
    BY <1>1, <2>1, <2>4, <2>5, <2>6 DEF DirectoryConsistent, LiveEntries
  <2>8. NamesFoundFirst'
    <3>1. SUFFICES ASSUME NEW k \in LiveEntries', NEW j \in Entry, j < k
                   PROVE  dir'[j].d_name # dir'[k].d_name
      BY DEF NamesFoundFirst
    <3>2. k \in LiveEntries /\ dir'[k] = dir[k] /\ dir[k].d_name \in Name
      BY <1>1, <2>4, <2>5 DEF LiveEntries, DirectoryConsistent
    <3>3. CASE j = i
      BY <2>4, <3>2, <3>3, NamesAssumption
    <3>4. CASE j # i
      BY <1>1, <2>4, <3>1, <3>2, <3>4 DEF NamesFoundFirst
    <3> QED
      BY <3>3, <3>4
  <2>9. BlocksOwned'
    <3>1. BlockOwners' = BlockOwners \ {inum}
      BY <2>6 DEF BlockOwners
    <3>2. free_blocks' \subseteq free_blocks \cup {inode_table[inum].i_data_block}
      BY <1>3 DEF DeleteFile, BlocksAfterDelete
    <3>3. \/ free_blocks' = free_blocks
          \/ inum \in BlockOwners
      BY <1>3, <2>2 DEF DeleteFile, BlocksAfterDelete, BlockOwners
    <3> QED
      BY <1>1, <2>2, <2>6, <3>1, <3>2, <3>3 DEF BlocksOwned, OpenHandles, openVars
  <2> QED
    BY <2>7, <2>8, <2>9
<1> QED
  BY <1>2, <1>3 DEF tfs_unlink, tfs_lookup

\* Without tables there is no live entry and no TAKEN inode.
LEMMA NoContentsConsistent ==
  /\ Init => AlwaysConsistent
  /\ TypeOK' /\ tfs_destroy => AlwaysConsistent'
<1>1. Init => LiveEntries = {} /\ TakenInodes = {}
  BY DEF Init, NoEntries, LiveEntries, TakenInodes
<1>2. tfs_destroy => LiveEntries' = {} /\ TakenInodes' = {}
  BY DEF tfs_destroy, NoEntries, LiveEntries, TakenInodes
<1>3. (Init => status # "running") /\ (tfs_destroy => status' # "running")
  BY DEF Init, tfs_destroy
<1> QED
  BY <1>1, <1>2, <1>3, InitTyped
  DEF AlwaysConsistent, DirectoryConsistent, NamesFoundFirst, BlockOwnership

\* tfs_init leaves a root directory without a live entry.
LEMMA InitTablesConsistent ==
  ASSUME InitTables
  PROVE  DirectoryConsistent' /\ NamesFoundFirst' /\ BlocksOwned'
<1>1. LiveEntries' = {} /\ TakenInodes' = {ROOT_DIR_INUM} /\ OpenHandles' = {}
  BY SizesAssumption
  DEF InitTables, LiveEntries, TakenInodes, OpenHandles, Inumber, ROOT_DIR_INUM
<1>2. inode_table'[ROOT_DIR_INUM] = [i_node_type |-> "T_DIRECTORY", i_size |-> BlockSize,
                                     i_data_block |-> 0]
  BY SizesAssumption DEF InitTables, NewInode, Fail, Inumber, ROOT_DIR_INUM
<1>3. BlockOwners' = {ROOT_DIR_INUM}
  BY <1>1, <1>2, SizesAssumption DEF BlockOwners
<1>4. 0 \in Block \ free_blocks'
  BY SizesAssumption DEF InitTables, Block
<1> QED
  BY <1>1, <1>2, <1>3, <1>4 DEF DirectoryConsistent, BlocksOwned, NamesFoundFirst

\* A call of a file system that runs.
LEMMA CallKeepsConsistent ==
  ASSUME Consistent, Call
  PROVE  DirectoryConsistent' /\ NamesFoundFirst' /\ BlocksOwned'
<1>1. ASSUME NEW path \in Name \cup {BadPath}, NEW mode \in Mode, tfs_open(path, mode)
      PROVE  DirectoryConsistent' /\ NamesFoundFirst' /\ BlocksOwned'
  <2>1. CASE UNCHANGED <<fileVars, openVars>>
    <3>1. \A k \in OpenHandles' : open_file_table'[k].of_inumber # ROOT_DIR_INUM
      BY <2>1 DEF Consistent, BlocksOwned, OpenHandles, openVars
    <3> QED
      BY <2>1, <3>1, DirectoryUntouched, BlocksUntouched DEF fileVars, inodeVars
  <2>2. CASE \E inum \in find_in_dir(path) : OpenExisting(inum, mode)
    BY <2>2, OpenExistingKeepsConsistent
  <2>3. CASE path \in Name /\ find_in_dir(path) = {} /\ OpenCreate(path)
    BY <2>3, OpenCreateKeepsConsistent
  <2> QED
    BY <1>1, <2>1, <2>2, <2>3 DEF tfs_open, tfs_lookup, valid_pathname
<1> QED
  BY <1>1, WriteKeepsConsistent, ReadKeepsConsistent, CloseKeepsConsistent,
     UnlinkKeepsConsistent DEF Call, CallOpen, CallUnlink, Path, AnyHandle

\* The invariant is kept by every call, by tfs_init and by tfs_destroy.
THEOREM ConsistentAlways == Spec => []AlwaysConsistent
<1>1. AlwaysConsistent /\ [Next]_vars => AlwaysConsistent'
  <2>1. SUFFICES ASSUME AlwaysConsistent, [Next]_vars PROVE AlwaysConsistent'
    OBVIOUS
  <2>2. TypeOK'
    BY <2>1, NextKeepsTypes DEF AlwaysConsistent
  <2>3. CASE Call
    <3>1. Consistent
      BY <2>1, <2>3 DEF Call, AlwaysConsistent, Consistent, BlockOwnership
    <3> QED
      BY <2>2, <2>3, <3>1, CallKeepsConsistent DEF AlwaysConsistent, BlockOwnership
  <2>4. CASE UNCHANGED <<fileVars, openVars>> /\ status' \in {status} \cup WithoutTables \cup Ended
    <3>1. status' = "running" => status = "running"
      BY <2>4 DEF WithoutTables, Ended
    <3> QED
      BY <2>1, <2>2, <2>4, <3>1
      DEF AlwaysConsistent, DirectoryConsistent, NamesFoundFirst, BlockOwnership, BlocksOwned,
          LiveEntries, TakenInodes, OpenHandles, BlockOwners,
          fileVars, inodeVars, blockVars, openVars
  <2>5. CASE CallWithoutTables
    <3>1. UNCHANGED <<fileVars, openVars>> /\ status' # "running"
      BY <2>1, <2>5, WithoutTablesKeepsTypes DEF AlwaysConsistent
    <3> QED
      BY <2>2, <2>4, <3>1 DEF TypeOK
  <2>6. CASE tfs_init
    <3>1. CASE InitTables
      BY <2>2, <3>1, InitTablesConsistent DEF AlwaysConsistent, BlockOwnership
    <3>2. CASE ~InitTables
      BY <2>4, <2>6, <3>2 DEF tfs_init, AlreadyInitialized, WithoutTables
    <3> QED
      BY <3>1, <3>2
  <2>7. CASE tfs_destroy
    BY <2>2, <2>7, NoContentsConsistent
  <2>8. CASE UNCHANGED vars
    BY <2>4, <2>8 DEF vars
  <2> QED
    BY <2>1, <2>3, <2>5, <2>6, <2>7, <2>8 DEF Next
<1> QED
  BY <1>1, NoContentsConsistent, PTL DEF Spec

\* Every file can be found and deleted again, whatever was called before.
THEOREM DirectoryCorrect == Spec => []DirectoryConsistent
<1>1. AlwaysConsistent => DirectoryConsistent
  BY DEF AlwaysConsistent
<1> QED
  BY <1>1, ConsistentAlways, PTL

\* clear_dir_entry erases the entry that find_in_dir found, although it also
\* compares the names of empty entries.
THEOREM ClearCorrect == Spec => []ClearHitsLookup
<1>1. AlwaysConsistent => ClearHitsLookup
  BY ClearHitsLive DEF AlwaysConsistent, ClearHitsLookup
<1> QED
  BY <1>1, ConsistentAlways, PTL

\* No block ever has two owners, and the root's is never given away.
THEOREM BlocksCorrect == Spec => []BlockOwnership
<1>1. AlwaysConsistent => BlockOwnership
  BY DEF AlwaysConsistent
<1> QED
  BY <1>1, ConsistentAlways, PTL

-----------------------------------------------------------------------------
(* Calls that fail *)

\* A handle is never -1: add_to_open_file_table fails only without one left.
LEMMA NoHandleNoChange ==
  ASSUME TypeOK, NEW inum, NEW offset, add_to_open_file_table(inum, offset), ret'.val = Fail
  PROVE  free_open_file_entries = {} /\ UNCHANGED openVars
BY SizesAssumption DEF TypeOK, add_to_open_file_table, First, Handle, Return, Fail

\* tfs_open takes back the inode it created when the directory has no room; it
\* keeps what it did to the file only when the open file table is full.
LEMMA FailedOpenHarmless ==
  ASSUME Consistent, NEW path \in Name \cup {BadPath}, NEW mode \in Mode,
         tfs_open(path, mode), ret'.val = Fail
  PROVE  FailureHarmless
<1>1. TypeOK
  BY DEF Consistent
<1>2. CASE UNCHANGED <<fileVars, openVars>>
  BY <1>2 DEF FailureHarmless, fileVars, inodeVars, blockVars
<1>3. ASSUME NEW inum \in find_in_dir(path), OpenExisting(inum, mode)
      PROVE  FailureHarmless
  BY <1>1, <1>3, NoHandleNoChange DEF FailureHarmless, OpenExisting
<1>4. ASSUME OpenCreate(path)
      PROVE  FailureHarmless
  <2>1. CASE UNCHANGED <<inodeVars, dir, openVars>>
    BY <1>4, <2>1 DEF FailureHarmless, OpenCreate, inodeVars, blockVars
  <2>2. ASSUME NEW inum \in inode_alloc,
               inode_table' = [inode_table EXCEPT ![inum] = NewFileInode],
               CreateWithoutEntry(inum, path)
        PROVE  FailureHarmless
    <3>1. \A n \in TakenInodes : inode_table'[n] = inode_table[n]
      BY <1>1, <2>2 DEF TakenInodes, First, TypeOK
    <3> QED
      BY <1>4, <2>2, <3>1
      DEF FailureHarmless, CreateWithoutEntry, InodeGivenBack, OpenCreate, blockVars
  <2>3. ASSUME NEW inum, CreateWithEntry(inum, path)
        PROVE  FailureHarmless
    <3>1. PICK i \in add_dir_entry(path) :
            /\ dir' = [dir EXCEPT ![i] = [d_name |-> path, d_inumber |-> inum]]
            /\ add_to_open_file_table(inum, 0)
      BY <2>3 DEF CreateWithEntry
    <3>2. dir[i].d_inumber = Fail
      BY DEF add_dir_entry, First
    <3>3. \A k \in LiveEntries : dir'[k] = dir[k]
      BY <1>1, <3>1, <3>2 DEF LiveEntries, TypeOK
    <3> QED
      BY <1>1, <1>4, <3>1, <3>3, NoHandleNoChange DEF FailureHarmless, OpenCreate, blockVars
  <2> QED
    BY <1>4, <2>1, <2>2, <2>3 DEF OpenCreate
<1> QED
  BY <1>2, <1>3, <1>4 DEF tfs_open, tfs_lookup

\* tfs_write and tfs_read change something only when they return a count.
LEMMA FailedTransferHarmless ==
  ASSUME Consistent, NEW h \in Handle \cup {Fail, NumHandles}, ret'.val = Fail,
         \/ \E buffer \in Buffer : tfs_write(h, buffer)
         \/ \E len \in 0..MaxLen : tfs_read(h, len)
  PROVE  FailureHarmless
<1>1. CASE UNCHANGED <<fileVars, openVars>>
  BY <1>1 DEF FailureHarmless, fileVars, inodeVars, blockVars
<1>2. ASSUME NEW n, n > 0, NEW b, NEW buffer, WriteBytes(h, b, n, buffer)
      PROVE  FALSE
  BY <1>2 DEF WriteBytes, Return, Fail
<1>3. ASSUME NEW n, n > 0, NEW b, ReadBytes(h, b, n)
      PROVE  FALSE
  BY <1>3 DEF ReadBytes, Fail
<1> QED
  BY <1>1, <1>2, <1>3 DEF tfs_write, tfs_read, ReadOutside, fileVars, openVars

\* tfs_unlink never fails after it deleted the inode.
LEMMA FailedUnlinkHarmless ==
  ASSUME Consistent, NEW path, tfs_unlink(path), ret'.val = Fail
  PROVE  FailureHarmless
<1>1. CASE UNCHANGED <<fileVars, openVars>>
  BY <1>1 DEF FailureHarmless, fileVars, inodeVars, blockVars
<1>2. ASSUME NEW inum \in find_in_dir(path), DeleteFile(inum, path)
      PROVE  FALSE
  <2>1. \E i \in LiveEntries : dir[i].d_name = path
    BY <1>2, LookupFindsLiveEntry DEF Consistent
  <2>2. clear_dir_entry(path) # {}
    BY <2>1, ClearHitsLive DEF Consistent
  <2> QED
    BY <1>2, <2>2 DEF DeleteFile, Return, Fail
<1> QED
  BY <1>1, <1>2 DEF tfs_unlink, tfs_lookup

\* No call that fails loses a file, a handle or a byte.
THEOREM FailureAtomicCorrect == Spec => FailureAtomic
<1>1. AlwaysConsistent /\ [Next]_vars => [FailureHarmless]_vars
  <2>1. SUFFICES ASSUME AlwaysConsistent, Next, ret'.val = Fail PROVE FailureHarmless
    BY DEF FailureHarmless
  <2>2. ASSUME UNCHANGED <<fileVars, openVars>>
        PROVE  FailureHarmless
    BY <2>2 DEF FailureHarmless, fileVars, inodeVars, blockVars
  <2>3. CASE Call
    <3>1. Consistent
      BY <2>1, <2>3 DEF Call, AlwaysConsistent, Consistent, BlockOwnership
    <3>2. ASSUME NEW h, tfs_close(h)
          PROVE  FailureHarmless
      BY <2>1, <3>2 DEF tfs_close, Return, Fail, FailureHarmless,
                        fileVars, inodeVars, blockVars, openVars
    <3> QED
      BY <2>1, <2>3, <3>1, <3>2, FailedOpenHarmless, FailedTransferHarmless, FailedUnlinkHarmless
      DEF Call, CallOpen, CallUnlink, Path, AnyHandle
  <2>4. CASE CallWithoutTables
    BY <2>1, <2>2, <2>4, WithoutTablesKeepsTypes DEF AlwaysConsistent
  <2>5. CASE tfs_init \/ tfs_destroy
    BY <2>1, <2>2, <2>5 DEF tfs_init, AlreadyInitialized, tfs_destroy, Return, Fail
  <2> QED
    BY <2>1, <2>3, <2>4, <2>5 DEF Next
<1> QED
  BY <1>1, ConsistentAlways, PTL DEF Spec, FailureAtomic

-----------------------------------------------------------------------------
(* Calls that end the process *)

\* Where a handle that is not past the end of its file is.
LEMMA NotOvertaken ==
  ASSUME TypeOK, NEW h \in OpenHandles, ~Overtaken(h)
  PROVE  /\ h \in Handle
         /\ open_file_table[h].of_inumber \in Inumber
         /\ open_file_table[h].of_offset \in Nat
         /\ inode_table[open_file_table[h].of_inumber].i_size \in 0 .. BlockSize
         /\ open_file_table[h].of_offset <= inode_table[open_file_table[h].of_inumber].i_size
<1>1. h \in Handle
  BY DEF OpenHandles
<1>2. /\ open_file_table[h].of_inumber \in Inumber
      /\ open_file_table[h].of_offset \in 0 .. NumBlocks * BlockSize
  BY <1>1 DEF TypeOK
<1>3. NumBlocks * BlockSize \in Nat
  BY SizesAssumption
<1>4. open_file_table[h].of_offset \in Nat
  BY <1>2, <1>3
<1>5. inode_table[open_file_table[h].of_inumber].i_size \in 0 .. BlockSize
  BY <1>1, <1>2 DEF TypeOK
<1> QED
  BY <1>1, <1>2, <1>4, <1>5, SizesAssumption DEF Overtaken

\* The subtractions of size_t do not wrap around for it.
LEMMA LengthsInFile ==
  ASSUME TypeOK, NEW h \in OpenHandles, ~Overtaken(h)
  PROVE  /\ \A to_write \in Nat :
              /\ WriteLength(h, to_write) \in 0 .. BlockSize
              /\ open_file_table[h].of_offset + WriteLength(h, to_write) <= BlockSize
         /\ \A len \in Nat :
              /\ ReadLength(h, len) \in Nat
              /\ open_file_table[h].of_offset + ReadLength(h, len)
                   <= inode_table[open_file_table[h].of_inumber].i_size
<1> DEFINE offset == open_file_table[h].of_offset
           size   == inode_table[open_file_table[h].of_inumber].i_size
<1>1. offset \in Nat /\ size \in 0 .. BlockSize /\ offset <= size /\ BlockSize \in Nat
  BY NotOvertaken, SizesAssumption
<1>2. /\ \A k : WriteLength(h, k) = IF k + offset > BlockSize THEN SizeSub(BlockSize, offset) ELSE k
      /\ \A len : ReadLength(h, len) = Smaller(SizeSub(size, offset), len)
  BY DEF WriteLength, ReadLength
<1> HIDE DEF offset, size
<1>3. SizeSub(BlockSize, offset) = BlockSize - offset /\ SizeSub(size, offset) = size - offset
  BY <1>1 DEF SizeSub
<1>4. ASSUME NEW k \in Nat
      PROVE  WriteLength(h, k) \in 0 .. BlockSize /\ offset + WriteLength(h, k) <= BlockSize
  BY <1>1, <1>2, <1>3
<1>5. ASSUME NEW len \in Nat
      PROVE  ReadLength(h, len) \in Nat /\ offset + ReadLength(h, len) <= size
  BY <1>1, <1>2, <1>3 DEF Smaller
<1> QED
  BY <1>4, <1>5 DEF offset, size

\* A byte inside a block is inside the blocks.
LEMMA BlocksReadable ==
  ASSUME NEW b \in Block, NEW k \in 0 .. BlockSize - 1
  PROVE  Readable(b, k)
<1>1. b \in Nat /\ b + 1 <= NumBlocks /\ BlockSize \in Nat /\ NumBlocks \in Nat
  BY SizesAssumption DEF Block
<1>2. (b + 1) * BlockSize <= NumBlocks * BlockSize
  BY <1>1
<1>3. (b + 1) * BlockSize = b * BlockSize + BlockSize
  BY <1>1
<1> DEFINE start == b * BlockSize
           end   == NumBlocks * BlockSize
<1>4. start \in Nat /\ end \in Nat /\ start + BlockSize <= end
  BY <1>1, <1>2, <1>3
<1> HIDE DEF start, end
<1>5. start + k < end
  BY <1>1, <1>4
<1> QED
  BY <1>5 DEF Readable, start, end

\* Opening and unlinking find a live entry, whose inode is TAKEN and has a
\* block of the file system when it has a size.
LEMMA PathCallGoesOn ==
  ASSUME Consistent, status = "running", NEW path \in Name \cup {BadPath}, NEW mode \in Mode,
         tfs_open(path, mode) \/ tfs_unlink(path)
  PROVE  status' = "running"
<1>1. ASSUME NEW inum \in find_in_dir(path)
      PROVE  /\ inum \in Inumber \ freeinode_ts /\ free_blocks \subseteq Block
             /\ inode_table[inum].i_size > 0 => inode_table[inum].i_data_block \in Block
  BY LookupFindsTakenInode DEF Consistent, TypeOK, TakenInodes
<1>2. ASSUME NEW inum \in find_in_dir(path), OpenExisting(inum, mode)
      PROVE  status' = "running"
  BY <1>1, <1>2 DEF OpenExisting, ALWAYS_ASSERT
<1>3. ASSUME NEW inum \in find_in_dir(path), DeleteFile(inum, path)
      PROVE  status' = "running"
  BY <1>1, <1>3 DEF DeleteFile, ALWAYS_ASSERT, BlocksAfterDelete
<1> QED
  BY <1>2, <1>3 DEF tfs_open, tfs_unlink, tfs_lookup, OpenCreate

\* A write settles on a length within the block, and finds a block.
LEMMA WriteGoesOn ==
  ASSUME Consistent, status = "running", \A k \in OpenHandles : ~Overtaken(k),
         NEW h, NEW buffer \in Buffer, tfs_write(h, buffer)
  PROVE  status' = "running"
<1> DEFINE n    == WriteLength(h, Len(buffer))
           inum == open_file_table[h].of_inumber
<1>1. ASSUME h \in OpenHandles
      PROVE  n \in 0 .. BlockSize /\ BlockSize \in Nat /\ inum \in Inumber
  <2>1. Len(buffer) \in Nat
    <3>1. PICK len \in 0 .. MaxLen : buffer \in [1 .. len -> Byte]
      BY DEF Buffer
    <3> QED
      BY <3>1, SizesAssumption
  <2> QED
    BY <1>1, <2>1, NotOvertaken, LengthsInFile, SizesAssumption DEF Consistent
<1>2. ASSUME h \in OpenHandles, NEW b \in WriteTarget(inode_table[inum]),
             WriteBytes(h, b, n, buffer)
      PROVE  status' = "running"
  <2>1. b \in Block
    BY <1>1, <1>2, SizesAssumption DEF WriteTarget, First, Consistent, TypeOK
  <2> QED
    BY <1>2, <2>1 DEF WriteBytes, ALWAYS_ASSERT
<1>3. h \in OpenHandles => ~(n > BlockSize)
  <2> HIDE DEF n
  <2> QED
    BY <1>1
<1> QED
  BY <1>2, <1>3 DEF tfs_write, get_open_file_entry, OpenHandles

\* A read stays within the size of its file, and so within its block.
LEMMA ReadGoesOn ==
  ASSUME Consistent, status = "running", \A k \in OpenHandles : ~Overtaken(k),
         NEW h, NEW len \in 0 .. MaxLen, tfs_read(h, len)
  PROVE  status' = "running"
<1> DEFINE inum   == open_file_table[h].of_inumber
           offset == open_file_table[h].of_offset
           n      == ReadLength(h, len)
           b      == inode_table[inum].i_data_block
<1>1. ASSUME h \in OpenHandles, n > 0
      PROVE  b \in Block /\ Readable(b, offset + n - 1)
  <2>1. len \in Nat
    BY SizesAssumption
  <2>2. /\ inum \in Inumber /\ offset \in Nat /\ inode_table[inum].i_size \in 0 .. BlockSize
        /\ n \in Nat /\ offset + n <= inode_table[inum].i_size
    BY <1>1, <2>1, NotOvertaken, LengthsInFile DEF Consistent
  <2> HIDE DEF offset, n
  <2>3. inode_table[inum].i_size > 0 /\ offset + n - 1 \in 0 .. BlockSize - 1
    BY <1>1, <2>2, SizesAssumption
  <2>4. b \in Block
    BY <2>2, <2>3 DEF Consistent, TypeOK
  <2> QED
    BY <2>3, <2>4, BlocksReadable
<1> QED
  BY <1>1 DEF tfs_read, ReadBytes, ReadOutside, get_open_file_entry, OpenHandles

\* While no handle is past the end of its file, no call ends the process,
\* whatever was unlinked and truncated before.
THEOREM LostOnlyPastEndCorrect == Spec => LostOnlyPastEnd
<1>1. AlwaysConsistent /\ [Next]_vars => [EndsOvertaken]_vars
  <2>1. SUFFICES ASSUME AlwaysConsistent, Next, status = "running",
                        \A h \in OpenHandles : ~Overtaken(h)
                 PROVE  status' \notin Ended
    BY DEF EndsOvertaken
  <2>2. CASE Call
    <3>1. Consistent
      BY <2>1 DEF AlwaysConsistent, Consistent, BlockOwnership
    <3>2. ASSUME NEW h, tfs_close(h) PROVE status' = "running"
      BY <2>1, <3>2 DEF tfs_close
    <3>3. status' = "running"
      <4>1. ASSUME NEW path \in Path, NEW mode \in Mode, tfs_open(path, mode)
            PROVE  status' = "running"
        BY <2>1, <3>1, <4>1, PathCallGoesOn DEF Path
      <4>2. ASSUME NEW path \in Path, tfs_unlink(path)
            PROVE  status' = "running"
        <5>1. {} \in Mode
          BY DEF Mode
        <5> QED
          BY <2>1, <3>1, <4>2, <5>1, PathCallGoesOn DEF Path
      <4> QED
        BY <2>1, <2>2, <3>1, <3>2, <4>1, <4>2, WriteGoesOn, ReadGoesOn
        DEF Call, CallOpen, CallUnlink
    <3> QED
      BY <3>3 DEF Ended
  <2>3. CASE CallWithoutTables
    BY <2>1, <2>3 DEF CallWithoutTables, WithoutTables
  <2>4. CASE tfs_init \/ tfs_destroy
    BY <2>1, <2>4 DEF tfs_init, AlreadyInitialized, tfs_destroy, Ended
  <2> QED
    BY <2>1, <2>2, <2>3, <2>4 DEF Next
<1> QED
  BY <1>1, ConsistentAlways, PTL DEF Spec, LostOnlyPastEnd

-----------------------------------------------------------------------------
(* Calls change one file *)

\* No other inode, TAKEN or FREE, has the block of the root directory: an inode
\* that was deleted keeps its size and its block, and a handle may still be on it.
RootApart ==
  \A n \in Inumber \ {ROOT_DIR_INUM} :
    inode_table[n].i_size > 0 =>
      inode_table[n].i_data_block # inode_table[ROOT_DIR_INUM].i_data_block

\* What each call does: it keeps the root's block apart, and changes one file.
ChangesOne ==
  RootApart' /\ \E n \in (Inumber \ {ROOT_DIR_INUM}) \cup {Fail} : OthersKept(n)

LEMMA RootTaken ==
  ASSUME Consistent
  PROVE  /\ ROOT_DIR_INUM \in Inumber \ freeinode_ts
         /\ inode_table[ROOT_DIR_INUM].i_size > 0
         /\ inode_table[ROOT_DIR_INUM].i_data_block \in Block \ free_blocks
BY DEF Consistent, BlocksOwned, BlockOwners, TakenInodes

LEMMA NoFileTouched ==
  ASSUME RootApart, UNCHANGED fileVars
  PROVE  ChangesOne
<1>1. OthersKept(Fail)
  BY DEF OthersKept, TakenInodes, fileVars, inodeVars, blockVars
<1> QED
  BY <1>1 DEF ChangesOne, RootApart, fileVars, inodeVars

\* A truncation is seen in the file that is opened.
LEMMA OpenExistingChangesOne ==
  ASSUME Consistent, RootApart, NEW path, NEW mode, NEW inum \in find_in_dir(path),
         OpenExisting(inum, mode)
  PROVE  ChangesOne
<1>1. inum \in TakenInodes \ {ROOT_DIR_INUM} /\ inum \in Inumber
  BY LookupFindsTakenInode
<1>2. inode_table' = [inode_table EXCEPT ![inum].i_size = SizeAfterOpen(inum, mode)]
  BY DEF OpenExisting
<1>3. /\ \A n \in Inumber : inode_table'[n].i_data_block = inode_table[n].i_data_block
      /\ \A n \in Inumber \ {inum} : inode_table'[n] = inode_table[n]
      /\ inode_table'[inum].i_size = SizeAfterOpen(inum, mode)
  BY <1>1, <1>2 DEF Consistent, TypeOK
<1>4. SizeAfterOpen(inum, mode) > 0 => inode_table[inum].i_size > 0
  BY DEF SizeAfterOpen
<1>5. RootApart'
  BY <1>1, <1>3, <1>4, RootTaken DEF RootApart
<1>6. OthersKept(inum)
  BY <1>3 DEF OthersKept, OpenExisting, TakenInodes
<1> QED
  BY <1>1, <1>5, <1>6 DEF ChangesOne

\* A new file takes a FREE inode and an empty entry.
LEMMA OpenCreateChangesOne ==
  ASSUME Consistent, RootApart, NEW path, OpenCreate(path)
  PROVE  ChangesOne
<1>1. CASE UNCHANGED <<inodeVars, dir, openVars>>
  BY <1>1, NoFileTouched DEF OpenCreate, fileVars
<1>2. ASSUME NEW inum \in inode_alloc,
             inode_table' = [inode_table EXCEPT ![inum] = NewFileInode],
             CreateWithoutEntry(inum, path) \/ CreateWithEntry(inum, path)
      PROVE  ChangesOne
  <2>1. inum \in freeinode_ts /\ inum \in Inumber \ {ROOT_DIR_INUM}
    BY <1>2, RootTaken DEF First, Consistent, TypeOK
  <2>2. /\ \A n \in Inumber \ {inum} : inode_table'[n] = inode_table[n]
        /\ inode_table'[inum].i_size = 0
    BY <1>2, <2>1 DEF Consistent, TypeOK, NewFileInode, NewInode, Fail
  <2>3. RootApart'
    BY <2>1, <2>2, RootTaken DEF RootApart
  <2>4. freeinode_ts' \subseteq freeinode_ts
    BY <1>2 DEF CreateWithoutEntry, InodeGivenBack, CreateWithEntry
  <2>5. \A i \in LiveEntries : dir'[i] = dir[i]
    <3>1. CASE CreateWithoutEntry(inum, path)
      BY <3>1 DEF CreateWithoutEntry
    <3>2. CASE CreateWithEntry(inum, path)
      <4>1. PICK i \in add_dir_entry(path) :
              dir' = [dir EXCEPT ![i] = [d_name |-> path, d_inumber |-> inum]]
        BY <3>2 DEF CreateWithEntry
      <4>2. dir[i].d_inumber = Fail
        BY DEF add_dir_entry, First
      <4> QED
        BY <4>1, <4>2 DEF LiveEntries, Consistent, TypeOK
    <3> QED
      BY <1>2, <3>1, <3>2
  <2>6. OthersKept(inum)
    BY <2>2, <2>4, <2>5 DEF OthersKept, OpenCreate, blockVars, TakenInodes
  <2> QED
    BY <2>1, <2>3, <2>6 DEF ChangesOne
<1> QED
  BY <1>1, <1>2 DEF OpenCreate

\* tfs_write changes the file of its handle or, when that was deleted, the one
\* that has its block by now, if any.
LEMMA WriteChangesOne ==
  ASSUME Consistent, RootApart, NEW h \in Handle \cup {Fail, NumHandles}, NEW buffer,
         tfs_write(h, buffer)
  PROVE  ChangesOne
<1> DEFINE n == WriteLength(h, Len(buffer))
           inum == open_file_table[h].of_inumber
<1>1. CASE UNCHANGED <<fileVars, openVars>>
  BY <1>1, NoFileTouched
<1>2. ASSUME h \in OpenHandles, NEW b \in WriteTarget(inode_table[inum]),
             WriteBytes(h, b, n, buffer)
      PROVE  ChangesOne
  <2>1. inum \in Inumber \ {ROOT_DIR_INUM}
    BY <1>2 DEF Consistent, TypeOK, OpenHandles, BlocksOwned
  <2>2. /\ \A m \in Inumber \ {inum} : inode_table'[m] = inode_table[m]
        /\ inode_table'[inum].i_data_block = b
    BY <1>2, <2>1 DEF WriteBytes, Consistent, TypeOK
  <2>3. \A c \in Block \ {b} : fs_data'[c] = fs_data[c]
    BY <1>2 DEF WriteBytes, Consistent, TypeOK
  <2>4. UNCHANGED <<freeinode_ts, dir>>
    BY <1>2 DEF WriteBytes
  <2>5. \A m \in BlockOwners : inode_table[m].i_data_block \in Block \ free_blocks
    BY DEF Consistent, BlocksOwned
  <2>6. \/ b \in free_blocks
        \/ b = inode_table[inum].i_data_block /\ inode_table[inum].i_size > 0
    BY <1>2, <2>1, SizesAssumption DEF WriteTarget, First, Consistent, TypeOK
  <2>7. RootApart'
    BY <2>1, <2>2, <2>6, RootTaken DEF RootApart
  <2> HIDE DEF inum
  <2>8. CASE \A m \in BlockOwners \ {inum} : inode_table[m].i_data_block # b
    <3>1. OthersKept(inum)
      BY <2>2, <2>3, <2>4, <2>5, <2>8 DEF OthersKept, TakenInodes, BlockOwners
    <3> QED
      BY <2>1, <2>7, <3>1 DEF ChangesOne
  <2>9. ASSUME NEW m \in BlockOwners \ {inum}, inode_table[m].i_data_block = b
        PROVE  ChangesOne
    <3>1. b = inode_table[inum].i_data_block /\ inode_table[inum].i_size > 0
      BY <2>5, <2>6, <2>9
    <3>2. m \in Inumber \ {ROOT_DIR_INUM}
      BY <2>1, <2>9, <3>1 DEF RootApart, BlockOwners, TakenInodes
    <3>3. inum \notin TakenInodes
      BY <2>1, <2>9, <3>1 DEF Consistent, BlocksOwned, BlockOwners, TakenInodes
    <3>4. \A k \in BlockOwners \ {m} : inode_table[k].i_data_block # b
      BY <2>9 DEF Consistent, BlocksOwned
    <3>5. OthersKept(m)
      BY <2>2, <2>3, <2>4, <2>5, <3>3, <3>4 DEF OthersKept, TakenInodes, BlockOwners
    <3> QED
      BY <2>7, <3>2, <3>5 DEF ChangesOne
  <2> QED
    BY <2>8, <2>9
<1> QED
  BY <1>1, <1>2 DEF tfs_write, get_open_file_entry, OpenHandles

\* tfs_unlink deletes the file whose entry it clears.
LEMMA UnlinkChangesOne ==
  ASSUME Consistent, RootApart, NEW path, tfs_unlink(path)
  PROVE  ChangesOne
<1>1. CASE UNCHANGED <<fileVars, openVars>>
  BY <1>1, NoFileTouched
<1>2. ASSUME NEW inum \in find_in_dir(path), DeleteFile(inum, path)
      PROVE  ChangesOne
  <2>1. PICK i \in LiveEntries : dir[i].d_name = path /\ dir[i].d_inumber = inum
    BY <1>2, LookupFindsLiveEntry DEF Consistent
  <2>2. inum \in Inumber \ {ROOT_DIR_INUM}
    BY <1>2, LookupFindsTakenInode
  <2>3. clear_dir_entry(path) = {i}
    BY <2>1, ClearHitsLive DEF Consistent
  <2>4. \A j \in Entry \ {i} : dir'[j] = dir[j]
    BY <1>2, <2>3 DEF DeleteFile
  <2>5. UNCHANGED <<inode_table, fs_data>> /\ freeinode_ts' = freeinode_ts \cup {inum}
    BY <1>2 DEF DeleteFile
  <2>6. OthersKept(inum)
    BY <2>1, <2>4, <2>5 DEF OthersKept, TakenInodes, LiveEntries
  <2>7. RootApart'
    BY <2>5 DEF RootApart
  <2> QED
    BY <2>2, <2>6, <2>7 DEF ChangesOne
<1> QED
  BY <1>1, <1>2 DEF tfs_unlink, tfs_lookup

\* However handles outlive their files, one call changes one file, and none
\* touches the block of the root directory.
THEOREM OneFilePerCallCorrect == Spec => OneFilePerCall
<1> DEFINE Apart == status = "running" => RootApart
<1>1. Init => Apart
  BY DEF Init
<1>2. AlwaysConsistent /\ Apart /\ [Next]_vars => Apart' /\ [OthersUntouched]_vars
  <2> SUFFICES ASSUME AlwaysConsistent, Apart, [Next]_vars, status' = "running"
               PROVE  RootApart' /\ [OthersUntouched]_vars
    BY DEF OthersUntouched
  <2>1. CASE Call
    <3>1. Consistent /\ RootApart /\ status = "running"
      BY <2>1 DEF Call, AlwaysConsistent, Consistent, BlockOwnership
    <3>2. ASSUME NEW path \in Name \cup {BadPath}, NEW mode \in Mode, tfs_open(path, mode)
          PROVE  ChangesOne
      BY <3>1, <3>2, NoFileTouched, OpenExistingChangesOne, OpenCreateChangesOne
      DEF tfs_open, tfs_lookup, valid_pathname
    <3>3. ASSUME NEW h, tfs_close(h) PROVE ChangesOne
      BY <3>1, <3>3, NoFileTouched DEF tfs_close
    <3>4. ASSUME NEW h, NEW len, tfs_read(h, len) PROVE ChangesOne
      BY <3>1, <3>4, NoFileTouched DEF tfs_read
    <3>5. ChangesOne
      BY <2>1, <3>1, <3>2, <3>3, <3>4, WriteChangesOne, UnlinkChangesOne
      DEF Call, CallOpen, CallUnlink, Path, AnyHandle
    <3> QED
      BY <3>5 DEF ChangesOne, OthersUntouched
  <2>2. CASE UNCHANGED fileVars /\ status = "running"
    <3>1. ChangesOne
      BY <2>2, NoFileTouched
    <3> QED
      BY <3>1 DEF ChangesOne, OthersUntouched
  <2>3. CASE InitTables /\ status # "running"
    <3>1. \A n \in Inumber \ {ROOT_DIR_INUM} : inode_table'[n].i_size = 0
      BY <2>3 DEF InitTables, NewFileInode, NewInode, Fail
    <3> QED
      BY <2>3, <3>1 DEF RootApart, OthersUntouched
  <2>4. CASE CallWithoutTables
    BY <2>4, WithoutTablesKeepsTypes DEF AlwaysConsistent
  <2>5. CASE tfs_init \/ tfs_destroy
    BY <2>2, <2>3, <2>5 DEF tfs_init, AlreadyInitialized, tfs_destroy
  <2>6. CASE UNCHANGED vars
    BY <2>2, <2>6 DEF vars
  <2> QED
    BY <2>1, <2>4, <2>5, <2>6 DEF Next
<1> QED
  BY <1>1, <1>2, ConsistentAlways, PTL DEF Spec, OneFilePerCall
=============================================================================
