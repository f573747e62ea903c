------------------------------ MODULE TFSFiles ------------------------------
(***************************************************************************)
(* TecnicoFS implements the file store of fs/operations.h, for callers     *)
(* that never unlink or truncate a file that is open, and call nothing     *)
(* but tfs_init and tfs_destroy outside of the two.                        *)
(***************************************************************************)
EXTENDS TFS, FiniteSets

\* The bytes of the file whose inode this is.
Content(inum) ==
  LET inode == inode_table[inum]
  IN  [k \in 1..inode.i_size |-> fs_data[inode.i_data_block][k - 1]]

StoredNames == {dir[i].d_name : i \in LiveEntries}

\* The inode of a name, and the name of an inode, in the directory.
InodeOf(name) == CHOOSE inum \in Inumber : inum \in find_in_dir(name)
NameOf(inum)  == CHOOSE name \in Name : inum \in find_in_dir(name)

StoredFiles == [name \in StoredNames |-> Content(InodeOf(name))]

StoredHandles ==
  [h \in OpenHandles |-> [name |-> NameOf(open_file_table[h].of_inumber),
                          pos  |-> open_file_table[h].of_offset]]

Store == INSTANCE FileStore WITH
           mounted <- status = "running",
           file <- StoredFiles, handle <- StoredHandles,
           MaxFiles <- Smaller(NumInodes - 1, NumEntries),
           MaxNonEmpty <- NumBlocks - 1, MaxOpen <- NumHandles,
           MaxFileSize <- BlockSize

\* Every step of TecnicoFS is a call of the file store, with the same result
\* and the same effect on names, contents and offsets.  A call fails for want
\* of an inode, an entry, a block or a handle only when the files and handles
\* that exist use them all.
ImplementsFileStore == Store!Spec

\* It is moreover the call the caller made, when that call opens a handle,
\* moves one, or fails: the file has the bytes of this buffer, the offset is
\* the one this mode asks for, the bytes read are those of this length, and
\* the failure is one that this call may report.
SameCall ==
  status = "running" =>
    /\ \A h \in free_open_file_entries \ free_open_file_entries', path \in Name :
         \A mode \in Mode :
           open_file_table'[h].of_inumber \in find_in_dir(path)' /\ CallOpen(path, mode)
             => Store!Open(path, mode)
    /\ \A h \in {g \in OpenHandles : open_file_table'[g] # open_file_table[g]} :
         /\ \A buffer \in Buffer : tfs_write(h, buffer) => Store!Write(h, buffer)
         /\ \A len \in 0..MaxLen : tfs_read(h, len) => Store!Read(h, len)
    /\ ret'.val = Fail =>
         /\ \A path \in Name :
              /\ CallOpen(path, {"CREAT"}) => Store!Open(path, {"CREAT"})
              /\ CallUnlink(path) => Store!Unlink(path)
         /\ \A h \in OpenHandles, buffer \in Buffer :
              tfs_write(h, buffer) => Store!Write(h, buffer)
CallsMatch == [][SameCall]_vars
=============================================================================
