----------------------------- MODULE FileStore -----------------------------
(***************************************************************************)
(* What fs/operations.h promises its callers: named files of bytes, and    *)
(* handles with an offset.  Nothing here mentions inodes, blocks or a      *)
(* directory.  A call fails for lack of a resource exactly when the        *)
(* resource is exhausted, so that no inode, entry, block or handle is ever *)
(* lost.                                                                   *)
(***************************************************************************)
EXTENDS Integers, Sequences, FiniteSets

CONSTANTS Name, LongName, BadPath, Byte,
          MaxFiles,       \* how many files fit
          MaxNonEmpty,    \* how many of them can hold bytes
          MaxOpen,        \* how many handles there are
          MaxFileSize,    \* bytes in a file
          MaxLen          \* bound: the longest buffer a caller passes

VARIABLES mounted,        \* between tfs_init and tfs_destroy
          file,           \* a sequence of bytes for every name that exists
          handle,         \* the file and the offset of every open handle
          ret             \* what the last call returned

storeVars == <<mounted, file, handle, ret>>

Handle == 0 .. MaxOpen - 1
Modes  == SUBSET {"CREAT", "TRUNC", "APPEND"}
Buffers == UNION {[1..n -> Byte] : n \in 0..MaxLen}

Put(f, k, v) == [x \in DOMAIN f \cup {k} |-> IF x = k THEN v ELSE f[x]]
Without(f, k) == [x \in DOMAIN f \ {k} |-> f[x]]

Returns(v) == ret' = [val |-> v, data |-> <<>>]
Fails      == Returns(-1) /\ UNCHANGED <<file, handle>>

InUse(name) == \E h \in DOMAIN handle : handle[h].name = name

NoFile   == [n \in {} |-> <<>>]
NoHandle == [h \in {} |-> 0]

Init ==
  /\ mounted = FALSE
  /\ file = NoFile /\ handle = NoHandle
  /\ ret = [val |-> 0, data |-> <<>>]

\* tfs_init is refused while mounted, and may always run out of memory.
Mount ==
  \/ ~mounted /\ mounted' = TRUE /\ Returns(0) /\ UNCHANGED <<file, handle>>
  \/ Fails /\ UNCHANGED mounted

\* No file and no handle outlives tfs_destroy.
Unmount ==
  /\ mounted' = FALSE
  /\ file' = NoFile /\ handle' = NoHandle
  /\ Returns(0)

\* A handle on the file, at this offset; without a handle left the file stays
\* as the open made it.
Attach(name, pos) ==
  \/ \E h \in Handle \ DOMAIN handle :
       /\ handle' = Put(handle, h, [name |-> name, pos |-> pos])
       /\ Returns(h)
  \/ /\ DOMAIN handle = Handle
     /\ Returns(-1)
     /\ UNCHANGED handle

OpenFile(name, mode) ==
  /\ name \in DOMAIN file
  /\ "TRUNC" \in mode => ~InUse(name)
  /\ LET content == IF "TRUNC" \in mode THEN <<>> ELSE file[name]
     IN  /\ file' = Put(file, name, content)
         /\ Attach(name, IF "APPEND" \in mode THEN Len(content) ELSE 0)

CreateFile(name) ==
  /\ name \in Name \ (LongName \cup DOMAIN file)
  /\ Cardinality(DOMAIN file) < MaxFiles
  /\ file' = Put(file, name, <<>>)
  /\ Attach(name, 0)

RefuseOpen(name, mode) ==
  /\ name \notin DOMAIN file
  /\ \/ name = BadPath
     \/ "CREAT" \notin mode
     \/ name \in LongName
     \/ Cardinality(DOMAIN file) >= MaxFiles
  /\ Fails

Open(name, mode) ==
  \/ OpenFile(name, mode)
  \/ "CREAT" \in mode /\ CreateFile(name)
  \/ RefuseOpen(name, mode)

Close(h) ==
  \/ /\ h \in DOMAIN handle
     /\ handle' = Without(handle, h)
     /\ Returns(0)
     /\ UNCHANGED file
  \/ h \notin DOMAIN handle /\ Fails

Overwrite(content, pos, buffer, n) ==
  [k \in 1..(IF pos + n > Len(content) THEN pos + n ELSE Len(content)) |->
     IF pos < k /\ k <= pos + n THEN buffer[k - pos] ELSE content[k]]

Write(h, buffer) ==
  \/ h \notin DOMAIN handle /\ Fails
  \/ /\ h \in DOMAIN handle
     /\ LET name == handle[h].name
            pos  == handle[h].pos
            n    == IF pos + Len(buffer) > MaxFileSize THEN MaxFileSize - pos ELSE Len(buffer)
        IN  \/ /\ n > 0 => \/ file[name] # <<>>
                           \/ Cardinality({m \in DOMAIN file : file[m] # <<>>}) < MaxNonEmpty
               /\ file' = Put(file, name, Overwrite(file[name], pos, buffer, n))
               /\ handle' = Put(handle, h, [name |-> name, pos |-> pos + n])
               /\ Returns(n)
            \/ /\ n > 0 /\ file[name] = <<>>
               /\ Cardinality({m \in DOMAIN file : file[m] # <<>>}) >= MaxNonEmpty
               /\ Fails

Read(h, len) ==
  \/ h \notin DOMAIN handle /\ Fails
  \/ /\ h \in DOMAIN handle
     /\ LET content == file[handle[h].name]
            pos     == handle[h].pos
            n       == IF pos + len > Len(content) THEN Len(content) - pos ELSE len
        IN  /\ ret' = [val |-> n, data |-> SubSeq(content, pos + 1, pos + n)]
            /\ handle' = Put(handle, h, [name |-> handle[h].name, pos |-> pos + n])
            /\ UNCHANGED file

Unlink(name) ==
  \/ /\ name \in DOMAIN file /\ ~InUse(name)
     /\ file' = Without(file, name)
     /\ Returns(0)
     /\ UNCHANGED handle
  \/ name \notin DOMAIN file /\ Fails

Call ==
  \/ \E name \in Name \cup {BadPath}, mode \in Modes : Open(name, mode)
  \/ \E h \in Handle \cup {-1, MaxOpen} :
       \/ Close(h)
       \/ \E buffer \in Buffers : Write(h, buffer)
       \/ \E len \in 0..MaxLen : Read(h, len)
  \/ \E name \in Name \cup {BadPath} : Unlink(name)

Next ==
  \/ Mount
  \/ Unmount
  \/ mounted /\ UNCHANGED mounted /\ Call

Spec == Init /\ [][Next]_storeVars
=============================================================================
