# TLA+ specification of the Ex2 message broker

The repository (`src/projeto-so-2022-23`) is a publish/subscribe system in C:
a broker process keeps *boxes* (files of messages) in TecnicoFS, an in-memory
file system; publishers, subscribers and managers are processes that talk to
the broker over named pipes. This directory holds its TLA+ models, the TLC
configurations that check them, and the theorems TLAPS proves about them.

## 1. Inventory

| Component | Source | State | Operations |
|---|---|---|---|
| TecnicoFS operations | `fs/operations.c` | none of its own; `g_library_mutex` | `tfs_init`, `tfs_destroy`, `tfs_open`, `tfs_close`, `tfs_write`, `tfs_read`, `tfs_unlink` (`tfs_link`, `tfs_sym_link` and `tfs_copy_from_external_fs` are declared and never defined) |
| TecnicoFS state | `fs/state.c` | inode table, block table, root directory, open file table, each with an array of FREE/TAKEN | allocation and deletion of inodes, blocks and handles; directory scans |
| Producer-consumer queue | `producer-consumer/` | ring buffer, head, tail, size; five mutexes, two condition variables | `pcq_create`, `pcq_destroy`, `pcq_enqueue`, `pcq_dequeue` |
| Box list | `utils/utility_funcs.c` | a sorted linked list | `newBox_b`, `insertion_sort`, `find_box`, `remove_box` |
| Broker | `mbroker/mbroker.c` | `server_running`, the last request, the box list, the register FIFO | main loop, `selector`, `codeR_PUB`, `codeR_SUB`, `codeC_BOX`, `codeR_BOX`, `codeL_BOX`, `sig_handler` |
| Clients | `manager/manager.c`, `publisher/pub.c`, `subscriber/sub.c` | a session FIFO each | register, then create/remove/list, write, or read |
| Requests | `utils/utility_funcs.c` | none | `newRequest`, `send_request` |
| Logging, assertions | `utils/logging.*`, `utils/betterassert.h` | none | `PANIC`, `ALWAYS_ASSERT` |
| Test | `tests/test.c` | none | prints one request |

How they interact: a client creates its session FIFO, opens the broker's
register FIFO and writes one request; the broker's only thread reads it and
runs the handler of its code, which opens the session FIFO and calls `tfs_*`
and the box list. The queue is created by `mbroker.c:77` and then not used: the
comment at `mbroker.c:15` tells how worker threads would call it, and
`producer-consumer.h:8` says it is tested on its own. In the broker
the pointer to the list's head is never assigned (`mbroker.c:51`), so
`find_box` is given NULL there, and `insertion_sort` and `remove_box` would
dereference it. So in this version of the program the broker dies in its first
request, before the queue, the list and the file system are used together: each
of them has a module of its own, and `Sessions` composes the broker with its
clients only.

What is hard in this code: sequences of file system calls through stale
handles; unsigned arithmetic at the end of a file and of a block; tables that
fill up in the middle of a call; condition variables with the wrong mutex;
locks that are not given back; spurious wakeups; loops over a linked list;
FIFO rendezvous between processes that may both be waiting; a read that
returned nothing and is dispatched all the same.

What makes each component correct:

* TecnicoFS: directory, inode table and block table agree at all times; no
  block has two owners or none; a call that fails changes nothing; reads and
  writes see one sequence of bytes per file.
* Queue: every call takes effect once, in the order of a queue of that
  capacity, and returns when it can.
* Box list: sorted, whole, and its functions return what they were asked for.
* Broker and clients: a request is handled once and is not thrown away, each
  rendezvous ends, whoever returns leaves no pipe behind, and nobody waits
  actively.

## 2. Modules

| Module | What it is |
|---|---|
| `TFS` | TecnicoFS. One action per `tfs_*` function |
| `FileStore` | what `operations.h` promises: files, handles, returned values; no inode, block or entry |
| `TFSFiles` | the refinement mapping from `TFS` to `FileStore` |
| `MCTFS` | the symmetry set with which TLC checks `TFSFiles` |
| `TFSProofs`, `TFSDisciplinedProofs` | theorems about `TFS`: for every caller, and for disciplined ones |
| `TFSFilesProofs` | the proof that `TFS` implements `FileStore` |
| `ProducerConsumer` | the queue. One action per operation on a mutex or condition variable |
| `BoundedQueue` | what `producer-consumer.h` promises, and the refinement's target |
| `ProducerConsumerProofs` | the queue's invariant, and the proof that it implements `BoundedQueue` |
| `BoxList`, `BoxListProofs` | the list, one action per iteration of a loop, and its theorems |
| `Sessions` | broker and clients over named pipes. One action per system call |
| `SessionsProofs`, `SessionsEndsProofs` | theorems about `Sessions`: what the broker does with a request, and which pipes are open at which statement |

### TFS

Every `tfs_*` function locks `g_library_mutex` in its first statement and
unlocks it before each of its returns, so its whole body is one step (the
error branches of the lock test for -1, which the pthread functions never
return). Each array of `allocation_state_t` is the set of its FREE indices,
under the array's name (`freeinode_ts`, `free_blocks`,
`free_open_file_entries`). `dir` is the array of `dir_entry_t` in the root's block. A
scan from index 0 is `First(S)`, a set that holds the least index or is empty.
`ret` is what the last call returned, with the bytes that were read.

`status` tells where the library is between `tfs_init` and `tfs_destroy`, and how
the process ended: `"panic"` when an `ALWAYS_ASSERT` fails, `"undefined"` when
memory is used that is not the file system's. `tfs_init` may run out of memory
after some tables were allocated; it then returns -1, but only the inode table
tells it that it ran, so every later `tfs_init` is refused (`"partial"`) until
`tfs_destroy`. Calls without tables are modelled too: `tfs_open` and `tfs_unlink`
panic, because the root's inumber is not valid or its inode is NULL, and the
calls that take a handle look it up in a table that is not there, unless
`fs_params` is still all zero. A read
that passes its own block but stays in `fs_data` reads the blocks that follow,
as the code does. The subtractions of `size_t` wrap at `SIZE_MOD`.

`TFSFiles` maps this state to `FileStore`: the content of a file is the first
`i_size` bytes of its block, a handle is the name of its inode and its offset.
`ImplementsFileStore` is the refinement. Its steps leave it open with which
arguments the store was called, so that `CallsMatch` adds that a call which
opens or moves a handle is the store's call with the same arguments.

The constant `Disciplined` tells what callers do. When it is TRUE they never
unlink or truncate a file that has a handle, and call nothing before `tfs_init` or
after `tfs_destroy`: that is the use the assertions of
the code assume. When it is FALSE they call anything in any order.

Left out: the storage delays (`insert_delay`); `tfs_params` other than the
defaults, which no caller passes; several threads in the library (all but
`tfs_init` and `tfs_destroy` hold the one mutex throughout, and the broker has
one thread); directories other than the root, which the code cannot create; the
characters of names, of which only "too long for an entry", "refused by
`valid_pathname`" and equality are kept. Tables that the code leaves
uninitialized start with a fixed value, except the names of directory
entries, which start with any value, because `clear_dir_entry` reads them.

### ProducerConsumer

Threads may call again and again. The fields are only touched under
`pcq_current_size_lock` (checked: `FieldsProtected`), so what happens between
two lock operations is one step. `pthread_cond_wait` is modelled as glibc does
it with the mutex the code passes, which is not locked: it unlocks it, sleeps,
and locks it again on a wakeup. As nobody signals, all wakeups are spurious.
`pcq_destroy` and `pcq_create` happen while no thread is in a call. When `malloc`
returns NULL, `pcq_create` returns -1 before it initializes the mutexes, and only
`pcq_create` may be called again (`NotAllocated`). Otherwise what the buffer
holds is arbitrary. `malloc(capacity * sizeof(void))` asks for a byte per element where an
element is a pointer (`producer-consumer.c:19`). That error is recorded here
and not modelled: a slot of `pcq_buffer` is memory that keeps what is stored, whether
it lies in the block that was allocated or not.

The code takes one element correctly and then blocks for ever, since
`pcq_dequeue` leaves `pcq_current_size_lock` locked. The run `pcq_taken` shows this
error: `LaterCallsGoOn`, that a call made after an element was taken goes on, is
violated. It also hides two others: that
`pcq_head` moves by two, and that `pcq_tail` goes round one slot late. `SlotsInRange`
says that no slot but the `Capacity` of the queue is used all the same, which
needs `pcq_create` to reset the indices, and stops being true when only the lock is
repaired. The refinement of `BoundedQueue` holds for the same reason: every call that
returns is right, and the failures are failures to return (`SleepsUntilSpace`,
`LaterCallsGoOn`). A call that got past the test of its loop does return
(`CallsReturn`), since the locks it still needs are held by nobody who waits.

### BoxList

Boxes have addresses and `next` pointers. An iteration of a loop is a step, so
the list is also looked at in the middle of an insertion. Names are integers in
the order of `strcmp`. Boxes are never freed, so an address is used once. A
dereference of NULL is the end `"crashed"`. `insertion_sort` is called with the
box that `newBox_b` has just returned, as its two callers do. Each function is given
either the address of a head, as it is written for, or NULL, which is what the
broker and the manager pass: `find_box` then returns NULL, the two others crash.

`find_box` has the code's inverted test of `strcmp` (`utility_funcs.c:64`): it returns the
first box of another name. This contradicts its comment (`utility_funcs.c:56`, "return NULL if don't
find an element wanted") and its callers in the broker, which take the
result for the box of that name (`mbroker.c:162`, `:360`). One call shows it, so there is
no run for it; no property takes what `find_box` returns for right. The boxes that a walk along `next` passes are
`From(b)`, and the list is `From(head)`.

### Sessions

The broker and any number of clients, each with a session pipe of its own
name; all may be started again after they ended and may get SIGINT at any
time. A run begins at its `mkfifo`: either the path exists and the run returns
at once (`Refused`), or it makes the pipe (`MakePipe`, where it shows which program a client
is). A second instance that is started while the first one runs is refused in the same
way and changes nothing, so that it is not a process of the model. `mkfifo` fails with
EEXIST only; the code looks at no other error. `left` tells how the run that left its pipe
behind ended. `pc` names the next statement, `ends` holds the ends of pipes that are open
or waiting in `open`. A pipe that is unlinked lives on for those who have it
(`Deleted`). `Open` is the kernel's: it waits for the other end, and an open
releases those who wait.

The module keeps what this code really does, which is less than the protocol
says, and explains the error that `mbroker.c:26` reports without a cause ("the information of the
request is lost"):

* `send_request` calls `newRequest` with a NULL message, which `strncpy`
  reads. That is undefined; gcc's builds die there, and a compiler may drop the copy,
  because a `memset` overwrites it. Both are choices of the model (`SendDies`,
  `Send`). The subscriber, and a manager without a fifth argument, have no box name at all and always die.
* A manager with five arguments sends the request of its instruction, `list` with a
  box name included, and leaves the code of an instruction it does not know uninitialized
  (`manager.c:49`): such a request may have any code (`Codes`).
* A SIGINT that interrupts the `write` to a full register pipe makes `send_request` call
  `ERROR`, which exits (`logging.h:34`) and leaves the session pipe.
* The broker's read does not wait. With nothing to read it hands the zeroed
  buffer to `selector`, and code 0 stops the server.
* When a request does arrive, the handler opens the session pipe. Past that point each
  handler dies, because `head` is NULL: `codeR_PUB` and `codeR_SUB`
  dereference what `find_box` returns, the others call `newRequest` with NULL names, or
  `insertion_sort` with a NULL list. So each handler is one action, and the statements after
  it, and the answers to clients, are not modelled: they cannot be reached. A broker therefore
  never serves a request to its end, while the project's instructions ('Instruções do projeto TEXT EDITOR':118)
  have it wait for the next one in a loop. No property asserts this behaviour;
  `sessions_eof` shows a broker that stops for another reason. In particular
  `codeC_BOX` always finds an empty box name and `tfs_open` refuses it: `send_request`
  zeroes 256 bytes from the end of the session pipe's name, and the box name is the next string of `argv`.
* At its returns the broker calls `tfs_close` with the 0 that `tfs_init` returned; no file
  is open, and it fails without effect.
* `sub` wants two arguments where its usage names three, so that the box name is NULL, and
  the usage of `manager` does not name the session pipe. The models follow the code.

With `_POSIX_C_SOURCE`, `signal` installs a handler for one signal: the first SIGINT
makes a waiting `open` fail and the second kills (`armed`). What a
process does between two system calls on pipes is not split further.

## 3. Runs

| Run | Expectation | Shows |
|---|---|---|
| `tfs_any` | pass | `TypeOK`, `DirectoryConsistent`, `ClearHitsLookup`, `BlockOwnership`, `FailureAtomic`, `OneFilePerCall`, `LostOnlyPastEnd` whatever callers do |
| `tfs_disciplined` | pass | `OpenFilesAlive`, `NoLeakedBlock`, `NeverPanics`, `ImplementsFileStore`, `CallsMatch` for disciplined callers |
| `tfs_deleted_inode` | violation of `OpenInodesTaken` | unlinking an open file frees its inode; the assertions at `operations.c:202` and `:261` test a pointer that is never NULL |
| `tfs_read_past_size` | violation of `ReadsWithinFile` | a read after a truncation returns bytes past the end (`operations.c:264`) |
| `pcq` | pass | `TypeOK`, `WayOutClear`, `SlotsInRange`, `FieldsProtected`, `ImplementsQueue`, `CallsReturn`, over any number of lives of the queue |
| `pcq_full` | violation of `SleepsUntilSpace` | a thread that sleeps keeps the lock that the others need; `pcq_dequeue` sleeps in the same way (`producer-consumer.c:79`) |
| `pcq_taken` | violation of `LaterCallsGoOn` | `pcq_dequeue` unlocks another mutex in the place of the size lock (`producer-consumer.c:92`), so that every later call blocks |
| `box_list` | pass | `TypeOK`, `Sorted`, `NoCycle`, `KeepsTheOthers`, `LoopsEnd` |
| `box_remove` | violation of `RemoveReturns` | the loop does not advance (`utility_funcs.c:86`) |
| `sessions` | pass | `TypeOK`, `NoRequestTwice`, `NoStaleErrno`, `CreateMeets`, `PipesRemoved`, `NeverWaitsForReturned`, `BrokerEnds` |
| `sessions_eof` | violation of `EofHarmless` | the end of file stops the server (`mbroker.c:118`), so the broker's loop runs once |
| `sessions_rendezvous` | violation of `NotBothWaiting` | publisher and broker both open the session pipe for writing (`pub.c:58`, `mbroker.c:156`) |

`PipesRemoved` says which runs leave a pipe behind: those that died, and publishers that could
not open the register pipe. `pub.c:47` returns without the `unlink` that the other clients
do at that point, against line 19 of 'Instruções do projeto TEXT EDITOR' ("O pipe da sessão deve ser
removido do sistema de ficheiros depois do fim de sessão"). A run that is refused because
the pipe exists is not to blame for it, and does not count as the one that left it.

`LostOnlyPastEnd` is about the callers that `NeverPanics` leaves out: also after
unlinking and truncating open files, the process is only lost when some handle is past the
end of its file.

### Bounds

* `tfs_any`: three names, one too long; two entries, two inodes and two blocks
  besides the root's, two handles, blocks of one byte, buffers of up to two. Every
  table fills up, files share no block although two exist, a
  stale handle can see its inode or its block given to another file, and a handle
  can be moved past its block, which needs a file whose block has a successor. Two
  byte values, so that it shows when a block is overwritten (`OneFilePerCall`).
* `tfs_disciplined`: the same with blocks of two bytes and two byte values,
  so that writes are cut at the block's end, overwrite part of a file and can be told
  apart, but with a single block for files, so that blocks run out while a
  second file is empty and a freed block is reused with its old bytes in it.
  Two files with blocks at once are covered by `BlockOwnership` in `tfs_any`.
* `MaxLen` bounds buffers; nothing else in `TFS` needs a bound.
* `pcq`: two producers, two consumers, two elements, capacity two: a thread of
  either kind can sleep while another of its kind and one of the other call, and
  two elements in the queue can be told apart. In `pcq_full` capacity one. In
  `pcq_taken` one producer and two consumers, so that a consumer can call after
  another one has taken an element.
* `box_list`: four boxes and three names: two equal names in the
  list, a first, a middle and a last box. `box_remove`: three boxes.
* `sessions`: two clients with any number of runs each, so that the broker can wait for
  one while the other comes and goes, and a later run can meet the handler of an earlier
  run's request. The register pipe holds one request, so that it is full as soon
  as a client was served late; no second request is ever read by the same broker, so that more room
  shows nothing new, and the safety properties are proved for any capacity.
  The violations need one client.

Names of one length, and bytes, are only compared for equality, so the `tfs_*` runs,
whose properties are all safety, use `SYMMETRY`; the others check liveness and do not. Deadlock is not checked where the program does
stop: after a panic, when every thread of the queue blocks, when the list crashes, and when
everyone waits for a broker that died.

### Fairness

`ProducerConsumer`: `RunningSpec` has weak fairness of each thread's own statements,
which is the scheduler: a thread runs that no mutex stops. `CallsReturn` needs no more.
`FairSpec`, for `SleepsUntilSpace` and `LaterCallsGoOn`, adds that threads keep calling (weak fairness) and that a
mutex is in the end given to each thread that waits for it (strong fairness).
glibc's mutexes promise less; the violations hold even so. No fairness for spurious wakeups.
`BoxList`: weak fairness of the loop steps, the one thread runs.
`Sessions`: weak fairness of the broker's statements; nobody has to start, to
send a signal, or to open the other end of a pipe, so `BrokerEnds` lets the broker wait in `open` for ever.
`TFS` has no liveness: its calls are single steps.

## 4. Theorems

Every safety property of the passing runs, action properties included, and both
refinements, are proved for every value of the constants.

**TecnicoFS** (`TFSProofs`), for every value of the constants that satisfies
`NamesAssumption` (names, the cleared name and the bad path are different
things) and `SizesAssumption` (at least one inode, block and byte per block;
`size_t` is wider than the data), with disciplined callers or not:

* `TypeCorrect`: `Spec => []TypeOK`. The argument that carries it is
  `WriteStaysInBlock`: the wrapped length of a handle past its block is longer
  than a block, which is the undefined case, and every other length fits both
  the block and the buffer.
* `ConsistentAlways`: `Spec => []AlwaysConsistent`, the inductive invariant, from
  which `DirectoryCorrect`, `BlocksCorrect` and `ClearCorrect` follow.
  `DirectoryConsistent` is not inductive by itself: `tfs_unlink` deletes
  the inode of the entry `find_in_dir` stops at and clears the entry
  `clear_dir_entry` stops at, and these are the same only if no earlier entry,
  live or not, has the name (`NamesFoundFirst`). That in turn holds because
  `add_dir_entry` fills the first empty entry. A block has one owner
  because a write to an empty file takes a FREE block, even when its
  handle is stale.
* `FailureAtomicCorrect`: `Spec => FailureAtomic`, from the same invariant:
  `tfs_unlink` cannot fail after it deleted the inode, since the entry exists.
* `OneFilePerCallCorrect`: `Spec => OneFilePerCall`. Each call changes the file of
  its path or of its handle (`OpenExistingChangesOne`, `UnlinkChangesOne`, ...), with
  one exception that the proof brought up: `inode_delete` leaves `i_size` and
  `i_data_block` in the inode, so that a handle that outlives its file writes into
  the file that has the block by now, and into that one only (`WriteChangesOne`).
  The block of the root directory is safe from it, by an invariant that also speaks
  of FREE inodes (`RootApart`); this is why `dir` can be a variable of its own.
* `LostOnlyPastEndCorrect`: `Spec => LostOnlyPastEnd`. For a handle that is not past the
  end of its file neither subtraction of `size_t` wraps and every copy stays in the file
  system's block (`LengthsInFile`, `BlocksReadable`), whether its inode is TAKEN
  or not; and what `tfs_open` and `tfs_unlink` find in the directory is TAKEN.

`ScanFinds` (a scan of a non-empty set finds its least index) comes from the
well-foundedness of `<` in the library.

`TFSDisciplinedProofs` proves `Disciplined => (Spec => []P)` where `P` is
`OpenFilesAlive`, `NoLeakedBlock` or `NeverPanics`. None is inductive alone: a
block is not lost because the inode that owns it is not deleted under a handle,
and an assertion does not fire because the handle's inode and block are TAKEN.
With the invariant of `TFSProofs` their conjunction `Alive` is inductive. Its key
lemma is `LengthsFit`: a handle is never past its file's size, so that `LengthsInFile`
holds of every one. The same lemma
gives `ReadsWithinFileCorrect`: what the run `tfs_read_past_size` refutes for any
caller (a read past the end of the file) holds for disciplined ones, whatever the sizes.

`TFSFilesProofs` proves, for disciplined callers, `ImplementsFileStoreCorrect` and
`CallsMatchCorrect`: each `tfs_*` call is the store's call of the same name with the same
arguments (`CloseImplements`, `ReadImplements`, `WriteImplements`, `OpenImplements`,
`UnlinkImplements`). Two arguments carry them. Names and inodes are `OneToOne`, so that a
change of one entry, inode or block changes one file of the store (`FilePut`,
`HandlePut`, `WriteOthers`). And what is left of each table is counted:
`RoomForFile` (there are as many names as TAKEN inodes besides the root's, and
as live entries) and `RoomForBytes` (as many files with bytes as TAKEN blocks
besides the root's, which is where `NoLeakedBlock` is needed) show that a call
fails for want of a resource only when files use it up.

**Queue** (`ProducerConsumerProofs`), for any number of threads and any capacity
that leaves room below `SIZE_MOD` (`CapacityAssumption`; `ThreadsAssumption`: no
thread is of both kinds). The invariant `QueueInv` says that a thread inside has
the size lock (`HolderInside`), that what its loop tested still holds
(`TestHolds`), that the elements are in the buffer (`StoredInBuffer`), and why
the wrong indices are never used: as long as nothing was taken, head is 0 and
tail is the size less one, and once something was taken the consumer that took
it has the size lock for ever (`LockedOnceTaken`). From it follow
`QueueTypeCorrect` (the size stays between 0 and the capacity, whatever wakes a thread up),
`SlotsInRangeCorrect`, `FieldsProtectedCorrect` and `ImplementsQueueCorrect`, which
maps every step to one of `BoundedQueue` or to a stutter: the store of an
element is `Enqueue`, its reading is `Dequeue`, the return of a call `Return`.
`WayOutClearCorrect` says
that two calls on their way out never wait for each other. It is the safety half of
`CallsReturn`, and needs a second invariant, `LocksHeld`, which tells for each
statement which of the two inner locks its thread has.

**Box list** (`BoxListProofs`), for any number of boxes and any names
(`BoxAssumption`: NULL is no box, names are integers): `BoxTypeCorrect` and
`SortedCorrect`, for every box that was created, whether it is in the list or
was removed. The invariant `Ordered` adds what the loop of `insertion_sort`
knows: the box it stands on has a smaller name than the one to be inserted.
The other properties are about the boxes that `next` leads to from the head. `Reach`
is that set, defined as the intersection of all sets that contain the start and
are closed under `next`: with the least closed set no fact about lists of any
length needs an induction. From the lemmas on it (what is reached
after one step, `ReachStep`; what stays reached when a pointer changes elsewhere,
`ReachOn`; of two boxes one is reached from the other, `ReachLinear`) follows what the
four assignments of the code do to the list: `LinkFirst`, `LinkBehind`,
`UnlinkFirst`, `UnlinkBehind`. The invariant `Linked` (each set of boxes has one
that leads out of it; nothing leads yet to the box to insert; where the loop stands
in the list) then gives

* `KeepsTheOthersCorrect`: no step loses a box or brings one back;
* `NoCycleCorrect` and `WalksEnd`: each step along `next` leaves fewer boxes
  ahead, so that a loop that follows it ends: the safety half of `LoopsEnd`.

**Sessions**, for any number of clients and any `PipeCapacity`
(`SessionsAssumption`: the names of processes and pipes differ).
`SessionsProofs`:

* `NoRequestTwiceCorrect` and `NoStaleErrnoCorrect`, with the invariant `ServedOnce`:
  the buffer is zeroed and errno untouched until the broker enters its loop; then each way back to the loop
  either found nothing to read, which stops the server, or failed to open the session pipe,
  which stops it too.
* `PipesRemovedCorrect`, which is inductive with no more than `Tidy` adds (that `pc` and
  `left` are tables of the processes). Its steps
  are of three kinds: one that makes a pipe (`MadeTidy`), one that ends a run (`EndsTidy`, which asks
  that a return past `mkfifo` has unlinked the pipe, and takes a refused run as it is) and the
  rest (`GoesOnTidy`).

`SessionsEndsProofs`: `SessionsTypeCorrect`, `CreateMeetsCorrect` and
`NeverWaitsForReturnedCorrect`, with the invariant `EndsInv`. It tells for each
end of a pipe which process may have it, at which statements and in which
direction (`EndOk`), that nobody waits for an end that is open (`PairOk`), and that the
paths a running process made exist (`PathsExist`). `CreateMeets` and
`NeverWaitsForReturned` relate two processes at two statements, and hold because of
what both may have open there.

Model-checked only: the liveness properties `CallsReturn`, `LoopsEnd` and `BrokerEnds`,
since fairness and `ENABLED` are out of the prover's reach. For the first two, the part that
is a safety property is proved: `WayOutClear` and `WalksEnd`.

## 5. Not modelled, and the plan

* The handlers past the statement at which each one dies, and the loop of the subscriber: no execution reaches them (see `Sessions`). They
  are to be modelled when `head` is assigned and requests name their box; the answers
  and messages then belong in `Sessions`, over `TFS` and `BoxList`.
* `utils/logging.*` and `tests/test.c`: they print and keep no state.
* `fs_params` changed by a `tfs_init` that is refused (`state.c:96`): every caller
  passes the defaults, so that nothing changes.
* The size of the queue's buffer (`producer-consumer.c:19`), and several threads in `tfs_*`: see
  `ProducerConsumer` and `TFS` above.
* A `mkfifo` that fails for another reason than that the path exists.
* `tfs_link`, `tfs_sym_link`, `tfs_copy_from_external_fs`: declared, not defined.

Nothing else is left to prove but the step from those safety properties to liveness.
