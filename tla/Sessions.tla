------------------------------ MODULE Sessions ------------------------------
(***************************************************************************)
(* The broker and its clients, processes that meet at named pipes          *)
(* (mbroker.c, manager.c, pub.c, sub.c).                                   *)
(*                                                                         *)
(* A step is one system call and what follows it up to the next one.  A    *)
(* process may be started again after it ended, and may get SIGINT at any  *)
(* time.  The code is compiled with _POSIX_C_SOURCE, so that signal()      *)
(* installs a handler for one signal only and interrupts a blocked call.   *)
(***************************************************************************)
EXTENDS Integers, Sequences

CONSTANTS
  Client,       \* the clients; each has a session pipe of its own name
  Broker,       \* the broker
  Register,     \* the path of the register pipe
  Deleted,      \* what an unlinked pipe becomes for those who have it open
  NoRequest,    \* the zeroed Request a broker starts with (code 0)
  PipeCapacity  \* how many requests the register pipe holds (PIPE_BUF of the kernel)

ASSUME SessionsAssumption ==
  /\ Broker \notin Client /\ Register \notin Client
  /\ Deleted \notin Client \cup {Register}
  /\ PipeCapacity \in Nat \ {0}

Process == Client \cup {Broker}

\* The programs that a client may be.
Kind == {"pub", "sub", "manager"}

\* What send_request writes.  selector knows five codes.
Code    == {"pub", "sub", "create", "remove", "list", "unknown"}
Request == [code : Code, session : Client]

VARIABLES
  fifos,            \* the paths that exist
  ends,             \* the open and the opening ends of pipes
  pending,          \* the requests in the register pipe
  pc,               \* the next statement of a process, or "off"
  kind,             \* which program a client is, or "none" if it has no pipe
  request,          \* the broker's buffer
  server_running,
  errno,            \* the broker's: "EINTR", or "other"
  armed,            \* the SIGINT handler is installed
  left              \* how the run that left its pipe behind ended, or "no"

pipes  == <<fifos, ends, pending>>
broker == <<request, server_running, errno>>
vars   == <<pipes, broker, pc, kind, armed, left>>

-----------------------------------------------------------------------------
(* Named pipes *)

Opposite(dir) == IF dir = "r" THEN "w" ELSE "r"

OtherEnds(path, dir) == {e \in ends : e.path = path /\ e.dir = Opposite(dir)}
Waiting(p) == \E e \in ends : e.proc = p /\ e.waiting

\* open() waits until the other end is opened, and lets those go who waited.
Open(p, path, dir) ==
  LET others == OtherEnds(path, dir)
  IN  ends' = (ends \ others)
              \cup {[e EXCEPT !.waiting = FALSE] : e \in others}
              \cup {[proc |-> p, path |-> path, dir |-> dir, waiting |-> others = {}]}

\* The pipe that a process makes.
OwnPath(p) == IF p = Broker THEN Register ELSE p

\* p ends, after it unlinked these paths; the kernel closes its ends and frees
\* its memory.  (armed and the broker's variables are about the next run then.)
\* A run that ends at its mkfifo has no pipe: the one that is there is older.
End(p, how, unlinked) ==
  /\ ends' = {[e EXCEPT !.path = IF @ \in unlinked THEN Deleted ELSE @] :
                e \in {f \in ends : f.proc # p}}
  /\ fifos' = fifos \ unlinked
  /\ pending' = IF p = Broker THEN <<>> ELSE pending
  /\ pc' = [pc EXCEPT ![p] = "off"]
  /\ left' = [left EXCEPT ![p] = IF OwnPath(p) \in unlinked THEN "no"
                                 ELSE IF pc[p] = "mkfifo" THEN @ ELSE how]
  /\ kind' = [c \in Client |-> IF c = p THEN "none" ELSE kind[c]]
  /\ armed' = [armed EXCEPT ![p] = TRUE]
  /\ IF p = Broker
     THEN request' = NoRequest /\ server_running' = FALSE /\ errno' = "other"
     ELSE UNCHANGED broker

At(p, stmt) == pc[p] = stmt /\ ~Waiting(p)
Goto(p, stmt) == pc' = [pc EXCEPT ![p] = stmt]

-----------------------------------------------------------------------------
(* mkfifo, in the broker and in each client, before which it does not show   *)
(* which program a client is: the path exists, or it is made.                *)

Refused(p) ==
  /\ pc[p] = "mkfifo" /\ OwnPath(p) \in fifos
  /\ End(p, "returned", {})

MakePipe(p) ==
  /\ pc[p] = "mkfifo" /\ OwnPath(p) \notin fifos
  /\ fifos' = fifos \cup {OwnPath(p)}
  /\ left' = [left EXCEPT ![p] = "no"]
  /\ Goto(p, IF p = Broker THEN "register" ELSE "server")
  /\ \E k \in Kind : kind' = IF p = Broker THEN kind ELSE [kind EXCEPT ![p] = k]
  /\ UNCHANGED <<ends, pending, broker, armed>>

-----------------------------------------------------------------------------
(* The clients *)

Start(c) ==
  /\ pc[c] = "off"
  /\ Goto(c, "mkfifo")
  /\ UNCHANGED <<pipes, broker, kind, armed, left>>

\* The client could not open the register pipe.  pub returns without unlink.
AlwaysLeft(c) == {}                     \* mutant: nobody removes the session pipe
UnlinkedOnFailure(c) == IF kind[c] = "pub" THEN {} ELSE {c}
ServerOpenFailed(c) ==
  End(c, IF kind[c] = "pub" THEN "unregistered" ELSE "returned", UnlinkedOnFailure(c))

OpenServer(c) ==
  /\ At(c, "server")
  /\ \/ Register \notin fifos /\ ServerOpenFailed(c)
     \/ /\ Register \in fifos
        /\ Open(c, Register, "w")
        /\ Goto(c, "send")
        /\ UNCHANGED <<fifos, pending, broker, kind, armed, left>>

\* send_request: strlen(NULL), if there is no box name (sub never has one, a
\* manager has one with its fifth argument); or newRequest copies from NULL,
\* which is undefined and kills the process unless the compiler drops the copy,
\* overwritten by the memset that follows; or SIGPIPE.
SendDies(c) ==
  /\ At(c, "send")
  /\ End(c, "died", {})

\* A manager sends the code of its instruction, and leaves the code of an
\* instruction it does not know uninitialized.
Codes(c) == IF kind[c] = "pub" THEN {"pub"} ELSE Code

SwappedArgs(c, code) == [code |-> code, session |-> Register]  \* mutant: argv[1] for argv[2]
RequestOf(c, code)   == [code |-> code, session |-> c]

Send(c) ==
  /\ At(c, "send") /\ kind[c] # "sub"
  /\ \E e \in ends : e.proc = c /\ e.path = Register /\ OtherEnds(Register, "w") # {}
  /\ Len(pending) < PipeCapacity
  /\ \E code \in Codes(c) : pending' = Append(pending, RequestOf(c, code))
  /\ Goto(c, "session")
  /\ UNCHANGED <<fifos, ends, broker, kind, armed, left>>

OpenSession(c) ==
  /\ At(c, "session")
  /\ Open(c, c, IF kind[c] = "pub" THEN "w" ELSE "r")
  /\ Goto(c, "loop")
  /\ UNCHANGED <<fifos, pending, broker, kind, armed, left>>

\* pub: an interrupt before the loop skips it; the first message is copied
\* from a request with NULL names.
Publish(c) ==
  /\ At(c, "loop") /\ kind[c] = "pub"
  /\ \/ End(c, "died", {})
     \/ ~armed[c] /\ End(c, "returned", {c})

\* manager: the broker never writes, so the read ends with the end of file
\* and an uninitialized request, or it is interrupted.
ReadAnswer(c) ==
  /\ At(c, "loop") /\ kind[c] # "pub"
  /\ \/ OtherEnds(c, "r") = {} /\ End(c, "died", {})
     \/ /\ OtherEnds(c, "r") = {} \/ ~armed[c]
        /\ End(c, "returned", {c})

-----------------------------------------------------------------------------
(* The broker *)

StartBroker ==
  /\ pc[Broker] = "off"
  /\ Goto(Broker, "mkfifo")
  /\ UNCHANGED <<pipes, broker, kind, armed, left>>

OpenRegister ==
  /\ At(Broker, "register")
  /\ Open(Broker, Register, "r")
  /\ Goto(Broker, "opened")
  /\ UNCHANGED <<fifos, pending, broker, kind, armed, left>>

\* An interrupt that came before is forgotten.
SetRunning ==
  /\ At(Broker, "opened")
  /\ server_running' = TRUE
  /\ Goto(Broker, "while")
  /\ UNCHANGED <<pipes, request, errno, kind, armed, left>>

LeftBehind(path) == {}                  \* mutant: no unlink after the loop
UnlinkedAtExit(path) == {path}

While ==
  /\ At(Broker, "while")
  /\ \/ /\ server_running
        /\ Goto(Broker, "read")
        /\ UNCHANGED <<pipes, broker, kind, armed, left>>
     \/ ~server_running /\ End(Broker, "returned", UnlinkedAtExit(Register))

\* Nothing to read, be it the end of file or EAGAIN, leaves the buffer alone.
\* selector gets it all the same.
Received == IF pending = <<>> THEN request ELSE Head(pending)
AtEof    == pending = <<>> /\ OtherEnds(Register, "r") = {}

\* errno is tested whatever the read returned, but for the end of file, and
\* only a read that fails sets it.
Errno == IF pending = <<>> /\ ~AtEof THEN "other" ELSE errno

\* selector stops the server on a code it does not know, such as the 0 of a
\* buffer never filled.
HasHandler == Received # NoRequest /\ Received.code # "unknown"

Select ==
  /\ request' = Received
  /\ pending' = IF pending = <<>> THEN <<>> ELSE Tail(pending)
  /\ errno' = Errno
  /\ \/ HasHandler /\ UNCHANGED server_running /\ Goto(Broker, "open")
     \/ ~HasHandler /\ server_running' = FALSE /\ Goto(Broker, "while")
  /\ UNCHANGED <<fifos, ends, kind, armed, left>>

Read ==
  /\ At(Broker, "read")
  /\ IF ~AtEof /\ Errno = "EINTR" THEN End(Broker, "returned", {Register}) ELSE Select

\* The handlers.  A session pipe that cannot be opened stops the server.
KeepsRunning == server_running          \* mutant: the failed open is ignored
RunningAfterFailure == FALSE

ReadsFromManager(code) == "r"           \* mutant: codeC_BOX opens as codeR_BOX
HandlerDir(code) == IF code \in {"pub", "create"} THEN "w" ELSE "r"

OpenInHandler ==
  /\ At(Broker, "open")
  /\ \/ /\ request.session \notin fifos
        /\ server_running' = RunningAfterFailure
        /\ errno' = "other"
        /\ Goto(Broker, "while")
        /\ UNCHANGED ends
     \/ /\ request.session \in fifos
        /\ Open(Broker, request.session, HandlerDir(request.code))
        /\ Goto(Broker, "handler")
        /\ UNCHANGED <<server_running, errno>>
  /\ UNCHANGED <<fifos, pending, request, kind, armed, left>>

\* No handler survives, for head is NULL and find_box returns NULL.
codeR_PUB ==                  \* reads n_publishers of the box that is NULL
  /\ At(Broker, "handler") /\ request.code = "pub"
  /\ End(Broker, "died", {})

codeR_SUB ==                  \* reads n_subscribers of the box that is NULL
  /\ At(Broker, "handler") /\ request.code = "sub"
  /\ End(Broker, "died", {})

codeC_BOX ==                  \* tfs_open refuses the empty name; newRequest(NULL)
  /\ At(Broker, "handler") /\ request.code = "create"
  /\ End(Broker, "died", {})

codeR_BOX ==                  \* newRequest(NULL), as the box does not exist
  /\ At(Broker, "handler") /\ request.code = "remove"
  /\ End(Broker, "died", {})

codeL_BOX ==                  \* newRequest(NULL), as head is NULL
  /\ At(Broker, "handler") /\ request.code = "list"
  /\ End(Broker, "died", {})

-----------------------------------------------------------------------------
(* SIGINT *)

\* A blocked open or write fails with EINTR.  send_request calls ERROR then,
\* which is exit(EXIT_FAILURE).
InterruptClient(c) ==
  /\ pc[c] # "off"
  /\ \/ ~armed[c] /\ End(c, "died", {})
     \/ armed[c] /\ Waiting(c) /\ pc[c] = "send" /\ ServerOpenFailed(c)
     \/ armed[c] /\ At(c, "send") /\ Len(pending) = PipeCapacity /\ End(c, "died", {})
     \/ armed[c] /\ Waiting(c) /\ pc[c] = "loop" /\ End(c, "returned", {c})
     \/ /\ armed[c] /\ ~Waiting(c)
        /\ armed' = [armed EXCEPT ![c] = FALSE]
        /\ UNCHANGED <<pipes, broker, pc, kind, left>>

RegisterOpenIgnored ==                  \* mutant: no return after the failed open
  /\ armed' = [armed EXCEPT ![Broker] = FALSE]
  /\ errno' = "EINTR"
  /\ ends' = {e \in ends : e.proc # Broker}
  /\ UNCHANGED <<fifos, pending, request, server_running, pc, kind, left>>
RegisterOpenFailed == End(Broker, "returned", {Register})

InterruptBroker ==
  /\ pc[Broker] # "off"
  /\ \/ ~armed[Broker] /\ End(Broker, "died", {})
     \/ armed[Broker] /\ Waiting(Broker) /\ pc[Broker] = "opened" /\ RegisterOpenFailed
     \/ /\ armed[Broker] /\ ~(Waiting(Broker) /\ pc[Broker] = "opened")
        /\ armed' = [armed EXCEPT ![Broker] = FALSE]
        /\ server_running' = FALSE
        /\ errno' = IF Waiting(Broker) THEN "EINTR" ELSE errno
        /\ ends' = {e \in ends : ~(e.proc = Broker /\ e.waiting)}
        /\ Goto(Broker, IF Waiting(Broker) THEN "while" ELSE pc[Broker])
        /\ UNCHANGED <<fifos, pending, request, kind, left>>

-----------------------------------------------------------------------------
Init ==
  /\ fifos = {} /\ ends = {} /\ pending = <<>>
  /\ pc = [p \in Process |-> "off"]
  /\ kind = [c \in Client |-> "none"]
  /\ request = NoRequest /\ server_running = FALSE /\ errno = "other"
  /\ armed = [p \in Process |-> TRUE]
  /\ left = [p \in Process |-> "no"]

BrokerGoesOn ==
  \/ Refused(Broker) \/ MakePipe(Broker) \/ OpenRegister \/ SetRunning
  \/ While \/ Read \/ OpenInHandler
  \/ codeR_PUB \/ codeR_SUB \/ codeC_BOX \/ codeR_BOX \/ codeL_BOX

Next ==
  \/ StartBroker \/ BrokerGoesOn \/ InterruptBroker
  \/ \E c \in Client :
       \/ Start(c) \/ Refused(c) \/ MakePipe(c)
       \/ OpenServer(c) \/ SendDies(c) \/ Send(c) \/ OpenSession(c)
       \/ Publish(c) \/ ReadAnswer(c) \/ InterruptClient(c)

Spec == Init /\ [][Next]_vars

\* The broker's process gets the processor; nobody has to start, to be
\* interrupted, or to open the other end of a pipe.
FairSpec == Spec /\ WF_vars(BrokerGoesOn)
-----------------------------------------------------------------------------
(* Properties *)

\* Requests name session pipes; a pipe is only held by a process that runs,
\* and by each process once for reading or writing.
TypeOK ==
  /\ fifos \subseteq Client \cup {Register}
  /\ ends \subseteq [proc : Process, path : Client \cup {Register, Deleted},
                     dir : {"r", "w"}, waiting : BOOLEAN]
  /\ \A e \in ends : pc[e.proc] \notin {"off", "mkfifo"}
  /\ \A e, f \in ends : e.proc = f.proc /\ e.path = f.path /\ e.path # Deleted => e = f
  /\ pending \in Seq(Request) /\ Len(pending) <= PipeCapacity
  /\ request \in Request \cup {NoRequest}
  /\ pc \in [Process -> {"off", "mkfifo", "server", "send", "session", "loop",
                         "register", "opened", "while", "read", "open", "handler"}]
  /\ kind \in [Client -> Kind \cup {"none"}]
  /\ server_running \in BOOLEAN /\ errno \in {"other", "EINTR"} /\ armed \in [Process -> BOOLEAN]
  /\ left \in [Process -> {"no", "returned", "unregistered", "died"}]

\* main hands its buffer to selector whether the read filled it or not; still
\* no request is handled twice, because the broker never goes round the loop
\* with a request in the buffer: every handler dies, waits, or stops the server.
NoRequestTwice ==
  pc[Broker] \in {"while", "read"} /\ request # NoRequest => ~server_running

\* main tests errno after reads that succeeded, too: no interrupted open of an
\* earlier pipe leaves it at EINTR when the broker gets to a read, or it would
\* throw a request away and return as if the read had failed.
NoStaleErrno == pc[Broker] = "read" => errno # "EINTR"

\* codeC_BOX opens the session pipe for writing, and every client but pub opens
\* it for reading.  So they never wait for each other, also when a manager is
\* interrupted and the handler of its request meets the next run of that name.
CreateMeets ==
  \A c \in Client, e \in ends :
    e.proc = Broker /\ e.path = c /\ request.code = "create" /\ e.waiting
      => ~\E f \in ends : f.proc = c /\ f.path = c /\ kind[c] # "pub"

\* Whoever returns has unlinked the pipe it made, wherever an error or SIGINT
\* made it return; a run that is refused because the pipe exists unlinks
\* nothing, and is not to blame for it.  So a pipe without a process was left
\* by a run that died (a signal, or the exit of ERROR), or by a publisher that
\* found no register pipe: that return of pub.c has no unlink.
PipesRemoved ==
  \A p \in Process :
    pc[p] \in {"off", "mkfifo"} /\ OwnPath(p) \in fifos =>
      left[p] \in {"died", "unregistered"}

\* A client waits in the open of the register pipe only for a broker that is
\* about to open it, or for one that died and left it behind: no order of
\* starts, stops and failures makes it wait for a broker that returned, be it
\* one that was refused because the pipe exists.
NeverWaitsForReturned ==
  \A e \in ends :
    e.proc \in Client /\ pc[e.proc] = "send" /\ e.waiting =>
      \/ pc[Broker] = "register"
      \/ pc[Broker] \in {"off", "mkfifo"} /\ left[Broker] = "died"

\* The broker never waits actively ("Nunca devem ser usados mecanismos de espera
\* ativa", the project's instructions): although its reads do not block, and
\* whatever the clients send, it ends or waits in the open of a pipe.
BrokerEnds == pc[Broker] # "off" ~> (pc[Broker] = "off" \/ Waiting(Broker))

\* mbroker.c, on a read that returns 0: "if EOF do nothing".  When the clients
\* have closed the register pipe, the read leaves the server running.
EofHarmless ==
  [][pc[Broker] = "read" /\ pc'[Broker] # "read"
       /\ pending = <<>> /\ OtherEnds(Register, "r") = {}
       => server_running' = server_running]_vars

\* pub.c, before it opens its session pipe: "this waits for server to open it
\* for reading".  The broker never waits for the same end as its client.
NotBothWaiting ==
  \A e, f \in ends :
    e.proc = Broker /\ f.proc \in Client /\ e.path = f.path /\ e.path \in Client =>
      ~(e.waiting /\ f.waiting)
=============================================================================
