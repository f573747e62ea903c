------------------------- MODULE SessionsEndsProofs -------------------------
(***************************************************************************)
(* Theorems about Sessions that rest on which ends of which pipes a        *)
(* process holds at each of its statements, for any number of clients and  *)
(* any capacity of the register pipe.                                      *)
(***************************************************************************)
EXTENDS Sessions, TLAPS

End_t == [proc : Process, path : Client \cup {Register, Deleted},
          dir : {"r", "w"}, waiting : BOOLEAN]
Stmt  == {"off", "mkfifo", "server", "send", "session", "loop",
          "register", "opened", "while", "read", "open", "handler"}

\* The variables other than ends, and the buffer of a handler.
Typed ==
  /\ fifos \subseteq Client \cup {Register}
  /\ pending \in Seq(Request) /\ Len(pending) <= PipeCapacity
  /\ request \in Request \cup {NoRequest}
  /\ pc \in [Process -> Stmt]
  /\ kind \in [Client -> Kind \cup {"none"}]
  /\ server_running \in BOOLEAN /\ errno \in {"other", "EINTR"} /\ armed \in [Process -> BOOLEAN]
  /\ left \in [Process -> {"no", "returned", "unregistered", "died"}]
  /\ pc[Broker] \in {"open", "handler"} => request \in Request

\* A process has its own path from mkfifo until it ends, and only a broker that
\* died leaves the register pipe behind.
PathsExist ==
  /\ \A c \in Client : pc[c] \notin {"off", "mkfifo"} => c \in fifos
  /\ pc[Broker] \notin {"off", "mkfifo"} => Register \in fifos
  /\ pc[Broker] \in {"off", "mkfifo"} /\ Register \in fifos => left[Broker] = "died"

-----------------------------------------------------------------------------
LEMMA Names ==
  /\ Broker \in Process /\ \A c \in Client : c \in Process /\ c # Broker
  /\ \A c \in Client : c # Register /\ c # Deleted
  /\ Register # Deleted
BY SessionsAssumption DEF Process

\* A process that ends keeps the types.
LEMMA EndTyped ==
  ASSUME Typed, NEW p \in Process, NEW how \in {"returned", "unregistered", "died"}, NEW S, End(p, how, S)
  PROVE  Typed'
<1>1. <<>> \in Seq(Request) /\ Len(<<>>) <= PipeCapacity
  BY SessionsAssumption
<1>2. /\ pc' \in [Process -> Stmt] /\ left' \in [Process -> {"no", "returned", "unregistered", "died"}]
      /\ armed' \in [Process -> BOOLEAN] /\ kind' \in [Client -> Kind \cup {"none"}]
  BY DEF Typed, End, Stmt
<1>3. pc'[Broker] \in {"open", "handler"} => request' \in Request
  BY Names DEF Typed, End, broker
<1> QED
  BY <1>1, <1>2, <1>3 DEF Typed, End, broker

\* Every step keeps them.
LEMMA TypedStep == Typed /\ [Next]_vars => Typed'
<1> SUFFICES ASSUME Typed, [Next]_vars PROVE Typed'
  OBVIOUS
<1> USE Names
<1>e. ASSUME NEW p \in Process, NEW S, \E how \in {"returned", "unregistered", "died"} : End(p, how, S)
      PROVE  Typed'
  BY <1>e, EndTyped
<1>g. ASSUME NEW p \in Process, NEW stmt \in Stmt, Goto(p, stmt)
      PROVE  pc' \in [Process -> Stmt] /\ (p # Broker => pc'[Broker] = pc[Broker])
             /\ (p = Broker => pc'[Broker] = stmt)
  BY <1>g DEF Goto, Typed
<1>1. CASE StartBroker \/ MakePipe(Broker)
  BY <1>1, <1>g DEF StartBroker, MakePipe, OwnPath, Typed, pipes, broker, Stmt
<1>r. ASSUME NEW p \in Process, Refused(p)
      PROVE  Typed'
  BY <1>r, <1>e DEF Refused
<1>2. CASE OpenRegister
  BY <1>2, <1>g DEF OpenRegister, Typed, broker, Stmt
<1>3. CASE SetRunning
  BY <1>3, <1>g DEF SetRunning, Typed, pipes, Stmt
<1>4. CASE While
  BY <1>4, <1>e, <1>g DEF While, Typed, pipes, broker, Stmt
<1>5. CASE Read
  <2>1. CASE Select
    <3>1. Received \in Request \cup {NoRequest}
      BY DEF Received, Typed
    <3>2. pending' \in Seq(Request) /\ Len(pending') <= PipeCapacity
      BY <2>1, SessionsAssumption DEF Select, Typed
    <3>3. Errno \in {"other", "EINTR"}
      BY DEF Errno, Typed
    <3> QED
      BY <2>1, <1>g, <3>1, <3>2, <3>3 DEF Select, HasHandler, Typed, Stmt
  <2> QED
    BY <1>5, <1>e, <2>1 DEF Read
<1>6. CASE OpenInHandler
  BY <1>6, <1>g DEF OpenInHandler, RunningAfterFailure, At, Typed, Stmt
<1>7. CASE codeR_PUB \/ codeR_SUB \/ codeC_BOX \/ codeR_BOX \/ codeL_BOX
  BY <1>7, <1>e DEF codeR_PUB, codeR_SUB, codeC_BOX, codeR_BOX, codeL_BOX
<1>8. CASE InterruptBroker
  <2>1. CASE \/ End(Broker, "died", {})
             \/ End(Broker, "returned", {Register})
    BY <2>1, <1>e
  <2>2. CASE /\ armed' = [armed EXCEPT ![Broker] = FALSE]
             /\ server_running' = FALSE
             /\ errno' = IF Waiting(Broker) THEN "EINTR" ELSE errno
             /\ Goto(Broker, IF Waiting(Broker) THEN "while" ELSE pc[Broker])
             /\ UNCHANGED <<fifos, pending, request, kind, left>>
    <3>1. (IF Waiting(Broker) THEN "while" ELSE pc[Broker]) \in Stmt
      BY DEF Typed, Stmt
    <3> QED
      BY <2>2, <3>1, <1>g DEF Typed
  <2> QED
    BY <1>8, <2>1, <2>2 DEF InterruptBroker, RegisterOpenFailed
<1>9. ASSUME NEW c \in Client, Start(c) \/ MakePipe(c)
      PROVE  Typed'
  BY <1>9, <1>g DEF Start, MakePipe, OwnPath, Typed, pipes, broker, Stmt
<1>10. ASSUME NEW c \in Client, OpenServer(c) \/ OpenSession(c)
       PROVE  Typed'
  BY <1>10, <1>e, <1>g DEF OpenServer, ServerOpenFailed, OpenSession, Typed, broker, Stmt
<1>11. ASSUME NEW c \in Client, Send(c)
       PROVE  Typed'
  <2>1. \A code \in Codes(c) : RequestOf(c, code) \in Request
    BY DEF Codes, Code, RequestOf, Request
  <2>2. pending' \in Seq(Request) /\ Len(pending') <= PipeCapacity
    BY <1>11, <2>1, SessionsAssumption DEF Send, Typed
  <2> QED
    BY <1>11, <1>g, <2>2 DEF Send, Typed, broker, Stmt
<1>12. ASSUME NEW c \in Client, SendDies(c) \/ Publish(c) \/ ReadAnswer(c)
       PROVE  Typed'
  BY <1>12, <1>e DEF SendDies, Publish, ReadAnswer
<1>13. ASSUME NEW c \in Client, InterruptClient(c)
       PROVE  Typed'
  <2>1. CASE /\ armed' = [armed EXCEPT ![c] = FALSE]
             /\ UNCHANGED <<pipes, broker, pc, kind, left>>
    BY <2>1 DEF Typed, pipes, broker
  <2> QED
    BY <1>13, <1>e, <2>1 DEF InterruptClient, ServerOpenFailed
<1>14. CASE UNCHANGED vars
  BY <1>14 DEF Typed, vars, pipes, broker
<1> QED
  BY <1>1, <1>r, <1>2, <1>3, <1>4, <1>5, <1>6, <1>7, <1>8, <1>9, <1>10, <1>11, <1>12, <1>13,
     <1>14
  DEF Next, BrokerGoesOn

-----------------------------------------------------------------------------
(* Which ends a process holds *)

SessionDir(c) == IF kind[c] = "pub" THEN "w" ELSE "r"

\* The broker's ends: the register pipe, and the pipe of the handler's client.
BrokersEnd(e) ==
  /\ pc[Broker] \notin {"off", "mkfifo", "register"}
  /\ \/ e.path = Register /\ e.dir = "r" /\ (e.waiting => pc[Broker] = "opened")
     \/ /\ pc[Broker] = "handler"
        /\ e.path \in Client \cup {Deleted} /\ e.dir = HandlerDir(request.code)

\* A client's: the register pipe, perhaps of a broker that is gone, and its own.
ClientsEnd(e) ==
  /\ pc[e.proc] \notin {"off", "mkfifo", "server"}
  /\ \/ e.path \in {Register, Deleted} /\ e.dir = "w"
     \/ pc[e.proc] = "loop" /\ e.path = e.proc /\ e.dir = SessionDir(e.proc)
  /\ pc[e.proc] = "send" /\ e.waiting => e.path = Register

EndOk(e) ==
  /\ e \in End_t
  /\ e.path # Deleted => e.path \in fifos
  /\ IF e.proc = Broker THEN BrokersEnd(e) ELSE ClientsEnd(e)

\* Nobody waits for an end that is open, and nobody holds two ends of a pipe.
PairOk(e, f) ==
  /\ e.waiting /\ e.path # Deleted /\ f.path = e.path => f.dir # Opposite(e.dir)
  /\ e.proc = f.proc /\ e.path = f.path /\ e.path # Deleted => e = f
  /\ e.proc = Broker /\ f.proc = Broker /\ Register \notin {e.path, f.path} => e = f

BrokerReads ==
  pc[Broker] \notin {"off", "mkfifo", "register"} =>
    \E e \in ends : e.proc = Broker /\ e.path = Register /\ e.dir = "r"

EndsInv ==
  /\ Typed /\ PathsExist /\ BrokerReads
  /\ \A e \in ends : EndOk(e)
  /\ \A e, f \in ends : PairOk(e, f)

\* A step that leaves the ends and the paths alone, and moves a process between
\* statements at which it may hold the same ends.
Keeps(p, stmt) ==
  /\ UNCHANGED <<fifos, ends, kind, left>>
  /\ pc' = [pc EXCEPT ![p] = stmt]
  /\ stmt \notin {"off", "mkfifo", "register"} /\ pc[p] \notin {"off", "mkfifo", "register"}
  /\ p = Broker => stmt # "opened" /\ ~Waiting(Broker) /\ pc[Broker] # "handler"
  /\ p # Broker => pc[p] = "send" /\ stmt = "session" /\ UNCHANGED request

LEMMA KeepsEnds ==
  ASSUME EndsInv, Typed', NEW p \in Process, NEW stmt, Keeps(p, stmt)
  PROVE  EndsInv'
<1> USE Names
<1>1. pc'[p] = stmt /\ \A q \in Process : q # p => pc'[q] = pc[q]
  BY DEF EndsInv, Typed, Keeps
<1>2. PathsExist'
  BY <1>1 DEF EndsInv, PathsExist, Keeps, Process
<1>3. BrokerReads'
  BY <1>1 DEF EndsInv, BrokerReads, Keeps
<1>4. ASSUME NEW e \in ends
      PROVE  EndOk(e)'
  <2>1. EndOk(e) /\ e.proc \in Process
    BY DEF EndsInv, EndOk, End_t
  <2>2. CASE e.proc = Broker
    <3>1. BrokersEnd(e)'
      <4>1. CASE p = Broker
        BY <1>1, <2>1, <2>2, <4>1 DEF EndOk, BrokersEnd, Keeps, Waiting
      <4>2. CASE p # Broker
        BY <1>1, <2>1, <2>2, <4>2 DEF EndOk, BrokersEnd, Keeps
      <4> QED
        BY <4>1, <4>2
    <3> QED
      BY <2>1, <2>2, <3>1 DEF EndOk, Keeps
  <2>3. CASE e.proc # Broker
    <3>1. ClientsEnd(e)'
      BY <1>1, <2>1, <2>3 DEF EndOk, ClientsEnd, SessionDir, Keeps
    <3> QED
      BY <2>1, <2>3, <3>1 DEF EndOk, Keeps
  <2> QED
    BY <2>2, <2>3
<1>5. \A e, f \in ends : PairOk(e, f)'
  BY DEF EndsInv, PairOk, Keeps
<1> QED
  BY <1>2, <1>3, <1>4, <1>5 DEF EndsInv, Keeps

\* A process holds no end before it made its pipe, and none just after.
LEMMA BeforePipe ==
  ASSUME EndsInv, Typed', NEW p \in Process, NEW stmt, UNCHANGED <<ends, request>>,
         pc' = [pc EXCEPT ![p] = stmt],
         \/ pc[p] = "off" /\ stmt = "mkfifo" /\ UNCHANGED <<fifos, left, kind>>
         \/ pc[p] = "mkfifo" /\ MakePipe(p)
  PROVE  EndsInv'
<1> USE Names
<1>1. /\ pc'[p] = stmt /\ \A q \in Process : q # p => pc'[q] = pc[q] /\ left'[q] = left[q]
      /\ \A c \in Client : c # p => kind'[c] = kind[c]
      /\ fifos \subseteq fifos'
  BY DEF EndsInv, Typed, MakePipe
<1>2. stmt = "mkfifo" \/ (stmt = IF p = Broker THEN "register" ELSE "server")
  BY <1>1 DEF MakePipe, Goto, EndsInv, Typed
<1>3. PathsExist'
  <2>1. CASE stmt = "mkfifo"
    BY <1>1, <2>1 DEF EndsInv, PathsExist, MakePipe, Goto, Typed
  <2>2. CASE stmt # "mkfifo"
    BY <1>1, <1>2, <2>2 DEF EndsInv, PathsExist, MakePipe, OwnPath, Process
  <2> QED
    BY <2>1, <2>2
<1>4. BrokerReads'
  BY <1>1, <1>2 DEF EndsInv, BrokerReads
<1>5. ASSUME NEW e \in ends
      PROVE  EndOk(e)'
  <2>1. EndOk(e) /\ e.proc \in Process /\ e.proc # p
    BY DEF EndsInv, EndOk, End_t, BrokersEnd, ClientsEnd
  <2>2. e.proc = Broker => BrokersEnd(e)'
    BY <1>1, <2>1 DEF EndOk, BrokersEnd
  <2>3. e.proc # Broker => ClientsEnd(e)'
    BY <1>1, <2>1 DEF EndOk, ClientsEnd, SessionDir, Process
  <2> QED
    BY <1>1, <2>1, <2>2, <2>3 DEF EndOk
<1>6. \A e, f \in ends : PairOk(e, f)'
  BY DEF EndsInv, PairOk
<1> QED
  BY <1>3, <1>4, <1>5, <1>6 DEF EndsInv

-----------------------------------------------------------------------------
\* The four opens of the code: which process, which pipe, from which end.
Opens(p, path, dir, stmt) ==
  \/ /\ p = Broker /\ path = Register /\ dir = "r"
     /\ pc[p] = "register" /\ stmt = "opened"
  \/ /\ p = Broker /\ path \in Client /\ path \in fifos /\ dir = HandlerDir(request.code)
     /\ pc[p] = "open" /\ stmt = "handler"
  \/ /\ p \in Client /\ path = Register /\ path \in fifos /\ dir = "w"
     /\ pc[p] = "server" /\ stmt = "send"
  \/ /\ p \in Client /\ path = p /\ dir = SessionDir(p)
     /\ pc[p] = "session" /\ stmt = "loop"

\* An end after an open: the new one, one that waited for it, or another.
LEMMA OpenedEnds ==
  ASSUME NEW p \in Process, NEW path, NEW dir \in {"r", "w"}, Open(p, path, dir),
         ends \subseteq End_t, path \in Client \cup {Register}
  PROVE  /\ \A e \in ends' : e \in End_t
         /\ \A e \in ends' :
              \/ /\ e.proc = p /\ e.path = path /\ e.dir = dir
                 /\ e.waiting => OtherEnds(path, dir) = {}
                 /\ \A f \in ends' : f.proc = p /\ f.path = path =>
                      f = e \/ \E g \in ends : g.proc = p /\ g.path = path
              \/ \E f \in ends :
                   /\ e.proc = f.proc /\ e.path = f.path /\ e.dir = f.dir
                   /\ e.waiting => f.waiting
                   /\ e.path = path /\ e.dir = Opposite(dir) => ~e.waiting
                   /\ e = IF f \in OtherEnds(path, dir)
                          THEN [f EXCEPT !.waiting = FALSE] ELSE f
         /\ \A f \in ends : \E e \in ends' :
              e.proc = f.proc /\ e.path = f.path /\ e.dir = f.dir
         /\ \E e \in ends' : e.proc = p /\ e.path = path /\ e.dir = dir
<1> DEFINE others == OtherEnds(path, dir)
           new == [proc |-> p, path |-> path, dir |-> dir, waiting |-> others = {}]
           woken(f) == [f EXCEPT !.waiting = FALSE]
<1>1. ends' = (ends \ others) \cup {woken(f) : f \in others} \cup {new}
  BY DEF Open
<1>2. others \subseteq ends
  BY DEF OtherEnds
<1>3. \A f \in ends : /\ woken(f) \in End_t /\ woken(f).proc = f.proc
                      /\ woken(f).path = f.path /\ woken(f).dir = f.dir
                      /\ woken(f).waiting = FALSE
  BY DEF End_t
<1>4. /\ new \in End_t /\ new.proc = p /\ new.path = path /\ new.dir = dir
      /\ new.waiting => others = {}
  BY DEF End_t
<1>5. \A e \in ends' : e = new \/ e \in ends \ others \/ \E f \in others : e = woken(f)
  BY <1>1
<1>6. \A f \in ends : (IF f \in others THEN woken(f) ELSE f) \in ends'
  BY <1>1
<1>7. new \in ends'
  BY <1>1
<1>8. \A f \in ends \ others : f.path = path => f.dir # Opposite(dir)
  BY DEF OtherEnds
<1> QED
  <2> HIDE DEF others, new, woken
  <2>1. \A e \in ends' : e \in End_t
    BY <1>2, <1>3, <1>4, <1>5
  <2>2. ASSUME NEW e \in ends', e = new
        PROVE  /\ e.proc = p /\ e.path = path /\ e.dir = dir
               /\ e.waiting => others = {}
               /\ \A f \in ends' : f.proc = p /\ f.path = path =>
                    f = e \/ \E g \in ends : g.proc = p /\ g.path = path
    BY <2>2, <1>2, <1>3, <1>4, <1>5
  <2>3. ASSUME NEW e \in ends', e # new
        PROVE  \E f \in ends :
                 /\ e.proc = f.proc /\ e.path = f.path /\ e.dir = f.dir
                 /\ e.waiting => f.waiting
                 /\ e.path = path /\ e.dir = Opposite(dir) => ~e.waiting
                 /\ e = IF f \in others THEN woken(f) ELSE f
    <3>1. CASE e \in ends \ others
      BY <3>1, <1>8
    <3>2. CASE \E f \in others : e = woken(f)
      BY <3>2, <1>2, <1>3
    <3> QED
      BY <2>3, <3>1, <3>2, <1>5
  <2>4. \A f \in ends : \E e \in ends' : e.proc = f.proc /\ e.path = f.path /\ e.dir = f.dir
    BY <1>6, <1>3
  <2>5. \E e \in ends' : e.proc = p /\ e.path = path /\ e.dir = dir
    BY <1>4, <1>7
  <2> QED
    BY <2>1, <2>2, <2>3, <2>4, <2>5 DEF others, woken

\* Each of them leaves every process with the ends it may hold.
LEMMA OpensEnds ==
  ASSUME EndsInv, Typed', NEW p \in Process, NEW path, NEW dir, NEW stmt,
         Opens(p, path, dir, stmt), Open(p, path, dir), Goto(p, stmt),
         UNCHANGED <<fifos, request, kind, left>>
  PROVE  EndsInv'
<1> USE Names
<1>0. /\ path \in Client \cup {Register} /\ path \in fifos /\ path # Deleted
      /\ dir \in {"r", "w"} /\ ends \subseteq End_t
  BY DEF Opens, HandlerDir, SessionDir, EndsInv, PathsExist, EndOk, Typed
<1>1. pc'[p] = stmt /\ \A q \in Process : q # p => pc'[q] = pc[q]
  BY DEF EndsInv, Typed, Goto
<1>2. \A g \in ends : EndOk(g) /\ g.proc \in Process
  BY DEF EndsInv, EndOk, End_t
<1>3. /\ \A g \in ends : g.proc = p => g.path # path
      /\ p = Broker /\ path # Register => \A g \in ends : g.proc = p => g.path = Register
  BY <1>2 DEF Opens, EndOk, BrokersEnd, ClientsEnd
<1>4. PathsExist'
  BY <1>1 DEF EndsInv, PathsExist, Opens, Process
<1>5. BrokerReads'
  <2>1. CASE p = Broker /\ path = Register
    BY <2>1, <1>0, OpenedEnds DEF BrokerReads, Opens
  <2>2. CASE p = Broker /\ path # Register
    <3>1. \E f \in ends : f.proc = Broker /\ f.path = Register /\ f.dir = "r"
      BY <2>2 DEF EndsInv, BrokerReads, Opens
    <3> QED
      BY <3>1, <1>0, OpenedEnds DEF BrokerReads
  <2>3. CASE p # Broker
    <3>1. pc'[Broker] = pc[Broker]
      BY <1>1, <2>3
    <3>2. SUFFICES ASSUME pc[Broker] \notin {"off", "mkfifo", "register"}
                   PROVE  \E e \in ends' : e.proc = Broker /\ e.path = Register /\ e.dir = "r"
      BY <3>1 DEF BrokerReads
    <3>3. \E f \in ends : f.proc = Broker /\ f.path = Register /\ f.dir = "r"
      BY <3>2 DEF EndsInv, BrokerReads
    <3> QED
      BY <3>3, <1>0, OpenedEnds
  <2> QED
    BY <2>1, <2>2, <2>3
<1>6. ASSUME NEW e \in ends'
      PROVE  EndOk(e)'
  <2>1. e \in End_t
    BY <1>0, OpenedEnds
  <2>2. CASE e.proc = p /\ e.path = path /\ e.dir = dir
    <3>1. e.proc = Broker => BrokersEnd(e)'
      BY <2>2, <1>1 DEF Opens, BrokersEnd
    <3>2. e.proc # Broker => ClientsEnd(e)'
      BY <2>2, <1>1 DEF Opens, ClientsEnd, SessionDir
    <3> QED
      BY <2>1, <2>2, <1>0, <3>1, <3>2 DEF EndOk
  <2>3. CASE \E f \in ends :
               /\ e.proc = f.proc /\ e.path = f.path /\ e.dir = f.dir
               /\ e.waiting => f.waiting
    <3>1. PICK f \in ends : /\ e.proc = f.proc /\ e.path = f.path /\ e.dir = f.dir
                            /\ e.waiting => f.waiting
      BY <2>3
    <3>2. EndOk(f) /\ f.proc \in Process
      BY <1>2
    <3>3. e.proc = Broker => BrokersEnd(e)'
      <4>1. SUFFICES ASSUME e.proc = Broker PROVE BrokersEnd(e)'
        OBVIOUS
      <4>2. BrokersEnd(f)
        BY <3>1, <3>2, <4>1 DEF EndOk
      <4>3. CASE p = Broker
        BY <3>1, <4>1, <4>2, <4>3, <1>1 DEF BrokersEnd, Opens
      <4>4. CASE p # Broker
        BY <3>1, <4>1, <4>2, <4>4, <1>1 DEF BrokersEnd
      <4> QED
        BY <4>3, <4>4
    <3>4. e.proc # Broker => ClientsEnd(e)'
      <4>1. SUFFICES ASSUME e.proc # Broker PROVE ClientsEnd(e)'
        OBVIOUS
      <4>2. ClientsEnd(f)
        BY <3>1, <3>2, <4>1 DEF EndOk
      <4>3. CASE p = e.proc
        BY <3>1, <3>2, <4>1, <4>2, <4>3, <1>1 DEF ClientsEnd, Opens, SessionDir
      <4>4. CASE p # e.proc
        BY <3>1, <3>2, <4>1, <4>2, <4>4, <1>1 DEF ClientsEnd, SessionDir
      <4> QED
        BY <4>3, <4>4
    <3>5. e.path # Deleted => e.path \in fifos'
      BY <3>1, <3>2 DEF EndOk
    <3> QED
      BY <2>1, <3>3, <3>4, <3>5 DEF EndOk
  <2> QED
    <3> HIDE DEF EndOk
    <3> QED
      BY <2>2, <2>3, <1>0, OpenedEnds
<1>7. ASSUME NEW e \in ends', NEW f \in ends'
      PROVE  PairOk(e, f)'
  <2> DEFINE IsNew(g) == /\ g.proc = p /\ g.path = path /\ g.dir = dir
                         /\ g.waiting => OtherEnds(path, dir) = {}
                         /\ \A h \in ends' : h.proc = p /\ h.path = path => h = g
             From(g, h) == /\ g.proc = h.proc /\ g.path = h.path /\ g.dir = h.dir
                           /\ g.waiting => h.waiting
                           /\ g.path = path /\ g.dir = Opposite(dir) => ~g.waiting
                           /\ g = IF h \in OtherEnds(path, dir)
                                  THEN [h EXCEPT !.waiting = FALSE] ELSE h
  <2>1. \A g \in ends' : IsNew(g) \/ \E h \in ends : From(g, h)
    BY <1>0, <1>3, OpenedEnds
  <2>2. CASE IsNew(e) /\ IsNew(f)
    <3>1. e = f
      BY <2>2
    <3> QED
      BY <2>2, <3>1, <1>0 DEF PairOk, Opposite
  <2>3. ASSUME IsNew(e), NEW h \in ends, From(f, h)
        PROVE  PairOk(e, f)'
    <3>1. e.waiting /\ e.path # Deleted /\ f.path = e.path => f.dir # Opposite(e.dir)
      BY <2>3 DEF OtherEnds
    <3>2. e.proc = f.proc => e.path # f.path
      BY <2>3, <1>3
    <3>3. ~(e.proc = Broker /\ f.proc = Broker /\ Register \notin {e.path, f.path})
      BY <2>3, <1>3
    <3> QED
      BY <3>1, <3>2, <3>3 DEF PairOk
  <2>4. ASSUME IsNew(f), NEW h \in ends, From(e, h)
        PROVE  PairOk(e, f)'
    <3>1. e.waiting /\ e.path # Deleted /\ f.path = e.path => f.dir # Opposite(e.dir)
      <4>1. h \in End_t /\ e.dir = h.dir
        BY <2>4, <1>0
      <4> QED
        BY <2>4, <4>1, <1>0 DEF Opposite, End_t
    <3>2. e.proc = f.proc => e.path # f.path
      BY <2>4, <1>3
    <3>3. ~(e.proc = Broker /\ f.proc = Broker /\ Register \notin {e.path, f.path})
      BY <2>4, <1>3
    <3> QED
      BY <3>1, <3>2, <3>3 DEF PairOk
  <2>5. ASSUME NEW g \in ends, NEW h \in ends, From(e, g), From(f, h)
        PROVE  PairOk(e, f)'
    <3>1. PairOk(g, h)
      BY DEF EndsInv
    <3>2. g = h => e = f
      BY <2>5
    <3> QED
      BY <2>5, <3>1, <3>2 DEF PairOk
  <2> QED
    <3> HIDE DEF IsNew, From
    <3> QED
      BY <2>1, <2>2, <2>3, <2>4, <2>5
<1> QED
  BY <1>4, <1>5, <1>6, <1>7 DEF EndsInv

-----------------------------------------------------------------------------
\* A process that ends takes its ends with it.  Nobody waits for a broker that
\* unlinks the register pipe, as it has it open.
LEMMA EndEnds ==
  ASSUME EndsInv, NEW p \in Process, NEW how \in {"returned", "unregistered", "died"}, NEW S, End(p, how, S),
         S = {} \/ S = {OwnPath(p)},
         p = Broker => how = "died" \/ S = {Register} \/ pc[p] = "mkfifo",
         p = Broker /\ S # {} => pc[Broker] \notin {"off", "mkfifo", "register"}
  PROVE  EndsInv'
<1> USE Names
<1>1. /\ pc'[p] = "off"
      /\ left'[p] = IF OwnPath(p) \in S THEN "no" ELSE IF pc[p] = "mkfifo" THEN left[p] ELSE how
      /\ \A q \in Process : q # p => pc'[q] = pc[q] /\ left'[q] = left[q]
      /\ fifos' = fifos \ S /\ \A c \in Client : c # p => kind'[c] = kind[c]
  BY DEF EndsInv, Typed, End
<1>2. Typed'
  BY EndTyped DEF EndsInv
<1>3. PathsExist'
  <2>1. \A c \in Client : pc'[c] \notin {"off", "mkfifo"} => c \in fifos'
    BY <1>1 DEF EndsInv, PathsExist, Process, OwnPath
  <2>2. pc'[Broker] \notin {"off", "mkfifo"} => Register \in fifos'
    BY <1>1 DEF EndsInv, PathsExist, OwnPath, Process
  <2>3. pc'[Broker] \in {"off", "mkfifo"} /\ Register \in fifos' => left'[Broker] = "died"
    BY <1>1 DEF EndsInv, PathsExist, OwnPath, Process
  <2> QED
    BY <2>1, <2>2, <2>3 DEF PathsExist
<1>4. \A e \in ends' : \E f \in ends :
        /\ f.proc # p /\ e.proc = f.proc /\ e.dir = f.dir /\ e.waiting = f.waiting
        /\ e.path = IF f.path \in S THEN Deleted ELSE f.path
        /\ e = [f EXCEPT !.path = IF @ \in S THEN Deleted ELSE @]
        /\ e \in End_t
  BY DEF End, EndsInv, EndOk, End_t
<1>5. BrokerReads'
  <2>1. SUFFICES ASSUME p # Broker, pc[Broker] \notin {"off", "mkfifo", "register"}
                 PROVE  \E e \in ends' : e.proc = Broker /\ e.path = Register /\ e.dir = "r"
    BY <1>1 DEF BrokerReads
  <2>2. PICK f \in ends : f.proc = Broker /\ f.path = Register /\ f.dir = "r"
    BY <2>1 DEF EndsInv, BrokerReads
  <2>3. f \in End_t /\ f.path \notin S
    BY <2>1, <2>2 DEF EndsInv, EndOk, OwnPath, Process
  <2>4. [f EXCEPT !.path = IF @ \in S THEN Deleted ELSE @] = f
    BY <2>3 DEF End_t
  <2>5. f \in ends'
    BY <2>1, <2>2, <2>4 DEF End
  <2> QED
    BY <2>2, <2>5
<1>6. ASSUME NEW e \in ends'
      PROVE  EndOk(e)'
  <2>1. PICK f \in ends :
          /\ f.proc # p /\ e.proc = f.proc /\ e.dir = f.dir /\ e.waiting = f.waiting
          /\ e.path = IF f.path \in S THEN Deleted ELSE f.path
          /\ e \in End_t
    BY <1>4
  <2>2. EndOk(f) /\ f.proc \in Process
    BY DEF EndsInv, EndOk, End_t
  <2>3. e.proc = Broker => BrokersEnd(e)'
    <3>1. SUFFICES ASSUME e.proc = Broker PROVE BrokersEnd(e)'
      OBVIOUS
    <3>2. BrokersEnd(f) /\ p # Broker /\ request' = request /\ Register \notin S
      BY <2>1, <2>2, <3>1 DEF EndOk, End, broker, OwnPath, Process
    <3> QED
      BY <2>1, <3>2, <1>1 DEF BrokersEnd
  <2>4. e.proc # Broker => ClientsEnd(e)'
    <3>1. SUFFICES ASSUME e.proc # Broker PROVE ClientsEnd(e)'
      OBVIOUS
    <3>2. ClientsEnd(f) /\ pc'[f.proc] = pc[f.proc] /\ f.proc # p
      BY <2>1, <2>2, <3>1, <1>1 DEF EndOk
    <3>3. CASE f.path \notin S
      BY <2>1, <2>2, <3>1, <3>2, <3>3, <1>1 DEF ClientsEnd, SessionDir, Process
    <3>4. CASE f.path \in S
      <4>1. p = Broker /\ f.path = Register /\ S = {Register}
        BY <3>2, <3>4 DEF ClientsEnd, OwnPath, Process
      <4>2. PICK g \in ends : g.path = Register /\ g.dir = "r"
        BY <4>1 DEF EndsInv, BrokerReads
      <4>3. f.dir = "w" /\ pc[f.proc] \notin {"off", "mkfifo", "server"}
        BY <2>1, <2>2, <3>1, <3>2, <4>1 DEF ClientsEnd, Process
      <4>4. ~f.waiting
        BY <4>1, <4>2, <4>3 DEF EndsInv, PairOk, Opposite
      <4> QED
        BY <2>1, <3>2, <3>4, <4>3, <4>4 DEF ClientsEnd
    <3> QED
      BY <3>3, <3>4
  <2>5. e.path # Deleted => e.path \in fifos'
    BY <2>1, <2>2, <1>1 DEF EndOk
  <2> QED
    BY <2>1, <2>3, <2>4, <2>5 DEF EndOk
<1>7. ASSUME NEW e \in ends', NEW f \in ends'
      PROVE  PairOk(e, f)'
  <2> DEFINE From(g, h) == /\ h.proc # p /\ g.proc = h.proc /\ g.dir = h.dir
                           /\ g.waiting = h.waiting
                           /\ g.path = IF h.path \in S THEN Deleted ELSE h.path
                           /\ g = [h EXCEPT !.path = IF @ \in S THEN Deleted ELSE @]
  <2>1. PICK g \in ends : From(e, g)
    BY <1>4
  <2>2. PICK h \in ends : From(f, h)
    BY <1>4
  <2>3. PairOk(g, h)
    BY DEF EndsInv
  <2>4. g = h => e = f
    BY <2>1, <2>2
  <2>5. g.proc = Broker => Register \notin S
    BY <2>1 DEF OwnPath, Process
  <2> QED
    BY <2>1, <2>2, <2>3, <2>4, <2>5 DEF PairOk
<1> QED
  BY <1>2, <1>3, <1>5, <1>6, <1>7 DEF EndsInv

\* SIGINT ends the broker's open of a session pipe, and its loop.
Interrupted ==
  /\ pc[Broker] # "off" /\ ~(Waiting(Broker) /\ pc[Broker] = "opened")
  /\ ends' = {e \in ends : ~(e.proc = Broker /\ e.waiting)}
  /\ Goto(Broker, IF Waiting(Broker) THEN "while" ELSE pc[Broker])
  /\ UNCHANGED <<fifos, request, kind, left>>

LEMMA InterruptedEnds ==
  ASSUME EndsInv, Typed', Interrupted
  PROVE  EndsInv'
<1> USE Names
<1>1. /\ pc'[Broker] = IF Waiting(Broker) THEN "while" ELSE pc[Broker]
      /\ \A q \in Process : q # Broker => pc'[q] = pc[q]
  BY DEF EndsInv, Typed, Interrupted, Goto
<1>2. \A e \in ends : EndOk(e) /\ e.proc \in Process
  BY DEF EndsInv, EndOk, End_t
<1>3. Waiting(Broker) => pc[Broker] = "handler"
  BY <1>2 DEF Waiting, EndOk, BrokersEnd, Interrupted
<1>4. PathsExist'
  BY <1>1, <1>3 DEF EndsInv, PathsExist, Interrupted, Process
<1>5. BrokerReads'
  <2>1. SUFFICES ASSUME pc'[Broker] \notin {"off", "mkfifo", "register"}
                 PROVE  \E e \in ends' : e.proc = Broker /\ e.path = Register /\ e.dir = "r"
    BY DEF BrokerReads
  <2>2. PICK e \in ends : e.proc = Broker /\ e.path = Register /\ e.dir = "r"
    BY <1>1, <1>3, <2>1 DEF EndsInv, BrokerReads
  <2>3. ~e.waiting
    BY <1>2, <1>3, <2>2 DEF EndOk, BrokersEnd, Waiting, HandlerDir
  <2> QED
    BY <2>2, <2>3 DEF Interrupted
<1>6. ASSUME NEW e \in ends'
      PROVE  EndOk(e)'
  <2>1. e \in ends /\ ~(e.proc = Broker /\ e.waiting) /\ EndOk(e)
    BY <1>2 DEF Interrupted
  <2>2. e.proc = Broker => BrokersEnd(e)'
    <3>1. SUFFICES ASSUME e.proc = Broker PROVE BrokersEnd(e)'
      OBVIOUS
    <3>2. BrokersEnd(e)
      BY <2>1, <3>1 DEF EndOk
    <3>3. CASE Waiting(Broker)
      <4>1. PICK w \in ends : w.proc = Broker /\ w.waiting
        BY <3>3 DEF Waiting
      <4>2. w.path # Register
        BY <1>2, <1>3, <3>3, <4>1 DEF EndOk, BrokersEnd
      <4>3. e.path = Register
        BY <2>1, <3>1, <4>1, <4>2 DEF EndsInv, PairOk
      <4> QED
        BY <1>1, <2>1, <3>1, <3>2, <3>3, <4>3 DEF BrokersEnd
    <3>4. CASE ~Waiting(Broker)
      BY <1>1, <3>2, <3>4 DEF BrokersEnd, Interrupted
    <3> QED
      BY <3>3, <3>4
  <2>3. e.proc # Broker => ClientsEnd(e)'
    BY <1>1, <1>2, <2>1 DEF EndOk, ClientsEnd, SessionDir, Interrupted
  <2> QED
    BY <2>1, <2>2, <2>3 DEF EndOk, Interrupted
<1>7. \A e, f \in ends' : PairOk(e, f)'
  BY DEF EndsInv, PairOk, Interrupted
<1> QED
  BY <1>4, <1>5, <1>6, <1>7 DEF EndsInv

-----------------------------------------------------------------------------
\* Every step starts a process, makes its pipe, ends one, opens a pipe, or keeps
\* the ends.
LEMMA EndsInvStep == EndsInv /\ [Next]_vars => EndsInv'
<1> SUFFICES ASSUME EndsInv, [Next]_vars PROVE EndsInv'
  OBVIOUS
<1> USE Names
<1>t. Typed'
  BY TypedStep DEF EndsInv
<1>d. ASSUME NEW p \in Process, End(p, "died", {})
      PROVE  EndsInv'
  BY <1>d, EndEnds
<1>r. ASSUME NEW c \in Client, NEW S \in {{}, {c}},
             \E how \in {"returned", "unregistered"} : End(c, how, S)
      PROVE  EndsInv'
  BY <1>r, EndEnds DEF OwnPath
<1>b. ASSUME pc[Broker] \notin {"off", "mkfifo", "register"}, End(Broker, "returned", {Register})
      PROVE  EndsInv'
  BY <1>b, EndEnds DEF OwnPath
<1>k. ASSUME NEW stmt \in {"while", "read", "open"}, Goto(Broker, stmt),
             pc[Broker] \in {"opened", "while", "read", "open"}, ~Waiting(Broker),
             UNCHANGED <<fifos, ends, kind, left>>
      PROVE  EndsInv'
  BY <1>k, <1>t, KeepsEnds DEF Keeps, Goto
<1>0. ASSUME NEW p \in Process, Refused(p)
      PROVE  EndsInv'
  BY <1>0, EndEnds DEF Refused
<1>m. ASSUME NEW p \in Process, MakePipe(p)
      PROVE  EndsInv'
  BY <1>m, <1>t, BeforePipe DEF MakePipe, Goto, broker
<1>1. CASE StartBroker
  BY <1>1, <1>t, BeforePipe DEF StartBroker, Goto, pipes, broker
<1>2. CASE OpenRegister
  BY <1>2, <1>t, OpensEnds DEF OpenRegister, Opens, At, broker
<1>3. CASE SetRunning
  BY <1>3, <1>k DEF SetRunning, At, pipes
<1>4. CASE While
  BY <1>4, <1>k, <1>b DEF While, At, pipes, UnlinkedAtExit
<1>5. CASE Read
  BY <1>5, <1>k, <1>b DEF Read, Select, At
<1>6. CASE OpenInHandler
  <2>1. CASE request.session \notin fifos
    BY <1>6, <2>1, <1>k DEF OpenInHandler, At
  <2>2. CASE request.session \in fifos
    <3>1. request.session \in Client
      BY <1>6 DEF OpenInHandler, At, EndsInv, Typed, Request
    <3> QED
      BY <1>6, <2>2, <3>1, <1>t, OpensEnds DEF OpenInHandler, Opens, At
  <2> QED
    BY <2>1, <2>2
<1>7. CASE codeR_PUB \/ codeR_SUB \/ codeC_BOX \/ codeR_BOX \/ codeL_BOX
  BY <1>7, <1>d DEF codeR_PUB, codeR_SUB, codeC_BOX, codeR_BOX, codeL_BOX
<1>8. CASE InterruptBroker
  <2>1. CASE End(Broker, "died", {})
    BY <2>1, <1>d
  <2>2. CASE pc[Broker] = "opened" /\ End(Broker, "returned", {Register})
    BY <2>2, <1>b
  <2>3. CASE Interrupted
    BY <2>3, <1>t, InterruptedEnds
  <2> QED
    BY <1>8, <2>1, <2>2, <2>3 DEF InterruptBroker, RegisterOpenFailed, Interrupted
<1>9. ASSUME NEW c \in Client, Start(c)
      PROVE  EndsInv'
  BY <1>9, <1>t, BeforePipe DEF Start, Goto, pipes, broker
<1>10. ASSUME NEW c \in Client, ServerOpenFailed(c)
       PROVE  EndsInv'
  BY <1>10, <1>r DEF ServerOpenFailed, UnlinkedOnFailure
<1>11. ASSUME NEW c \in Client, OpenServer(c)
       PROVE  EndsInv'
  BY <1>11, <1>10, <1>t, OpensEnds DEF OpenServer, Opens, At, broker
<1>12. ASSUME NEW c \in Client, Send(c)
       PROVE  EndsInv'
  <2>1. Keeps(c, "session")
    BY <1>12 DEF Send, At, Keeps, broker, Goto
  <2> QED
    BY <2>1, <1>t, KeepsEnds
<1>13. ASSUME NEW c \in Client, OpenSession(c)
       PROVE  EndsInv'
  BY <1>13, <1>t, OpensEnds DEF OpenSession, Opens, At, SessionDir, broker
<1>14. ASSUME NEW c \in Client, SendDies(c) \/ Publish(c) \/ ReadAnswer(c)
       PROVE  EndsInv'
  BY <1>14, <1>d, <1>r DEF SendDies, Publish, ReadAnswer
<1>15. CASE UNCHANGED <<fifos, ends, pc, request, kind, left>>
  <2>1. PathsExist' /\ BrokerReads' /\ \A e, f \in ends : PairOk(e, f)'
    BY <1>15 DEF EndsInv, PathsExist, BrokerReads, PairOk
  <2>2. \A e \in ends : EndOk(e)'
    BY <1>15 DEF EndsInv, EndOk, BrokersEnd, ClientsEnd, SessionDir
  <2> QED
    BY <1>15, <1>t, <2>1, <2>2 DEF EndsInv
<1>16. ASSUME NEW c \in Client, InterruptClient(c)
       PROVE  EndsInv'
  BY <1>16, <1>d, <1>r, <1>10, <1>15 DEF InterruptClient, pipes, broker
<1> QED
  BY <1>0, <1>m, <1>1, <1>2, <1>3, <1>4, <1>5, <1>6, <1>7, <1>8, <1>9, <1>11, <1>12, <1>13, <1>14,
     <1>15, <1>16
  DEF Next, BrokerGoesOn, vars, pipes, broker

LEMMA EndsInvInit == Init => EndsInv
<1>1. Init => Typed
  <2>1. <<>> \in Seq(Request) /\ Len(<<>>) <= PipeCapacity
    BY SessionsAssumption
  <2>2. Init => kind \in [Client -> Kind \cup {"none"}]
    BY DEF Init
  <2>3. Init => /\ pc \in [Process -> Stmt] /\ pc[Broker] = "off"
                /\ armed \in [Process -> BOOLEAN]
                /\ left \in [Process -> {"no", "returned", "unregistered", "died"}]
    BY Names DEF Init, Stmt
  <2> QED
    BY <2>1, <2>2, <2>3 DEF Init, Typed
<1>2. Init => PathsExist /\ BrokerReads /\ ends = {}
  BY Names DEF Init, PathsExist, BrokerReads
<1> QED
  BY <1>1, <1>2 DEF EndsInv

LEMMA EndsInvAlways == Spec => []EndsInv
BY EndsInvInit, EndsInvStep, PTL DEF Spec

-----------------------------------------------------------------------------
\* Every end belongs to a process that runs, and nobody opens a pipe twice:
\* the kernel closed the ends of whoever died, so no client's second run meets
\* what its first run left open.
THEOREM SessionsTypeCorrect == Spec => []TypeOK
<1>1. EndsInv => TypeOK
  <2> SUFFICES ASSUME EndsInv PROVE TypeOK
    OBVIOUS
  <2>1. ends \subseteq [proc : Process, path : Client \cup {Register, Deleted},
                        dir : {"r", "w"}, waiting : BOOLEAN]
    BY DEF EndsInv, EndOk, End_t
  <2>2. \A e \in ends : pc[e.proc] \notin {"off", "mkfifo"}
    BY DEF EndsInv, EndOk, BrokersEnd, ClientsEnd
  <2>3. \A e, f \in ends : e.proc = f.proc /\ e.path = f.path /\ e.path # Deleted => e = f
    BY DEF EndsInv, PairOk
  <2> QED
    BY <2>1, <2>2, <2>3 DEF TypeOK, EndsInv, Typed, Stmt
<1> QED
  BY <1>1, EndsInvAlways, PTL

\* codeC_BOX opens the session pipe for writing and managers for reading, so
\* the broker that waits in this open has not met a manager, be it the one that
\* sent the request or a later one of that name.
THEOREM CreateMeetsCorrect == Spec => []CreateMeets
<1>1. EndsInv => CreateMeets
  <2> SUFFICES ASSUME EndsInv, NEW c \in Client, NEW e \in ends, NEW f \in ends,
                      e.proc = Broker, e.path = c, request.code = "create", e.waiting,
                      f.proc = c, f.path = c, kind[c] # "pub"
               PROVE  FALSE
    BY DEF CreateMeets
  <2>1. e.dir = "w"
    BY Names DEF EndsInv, EndOk, BrokersEnd, HandlerDir
  <2>2. f.dir = "r"
    BY Names DEF EndsInv, EndOk, ClientsEnd, SessionDir
  <2> QED
    BY <2>1, <2>2, Names DEF EndsInv, PairOk, Opposite
<1> QED
  BY <1>1, EndsInvAlways, PTL

\* A client that waits in the open of the register pipe waits for a broker that
\* comes, or for one that died: a broker unlinks the pipe when it returns, and
\* nobody can be waiting then, because it has the pipe open.
THEOREM NeverWaitsForReturnedCorrect == Spec => []NeverWaitsForReturned
<1>1. EndsInv => NeverWaitsForReturned
  <2> SUFFICES ASSUME EndsInv, NEW e \in ends, e.proc \in Client, pc[e.proc] = "send",
                      e.waiting, pc[Broker] # "register"
               PROVE  pc[Broker] \in {"off", "mkfifo"} /\ left[Broker] = "died"
    BY DEF NeverWaitsForReturned
  <2>1. e.path = Register /\ e.dir = "w" /\ Register \in fifos
    BY Names DEF EndsInv, EndOk, ClientsEnd
  <2>2. ~\E f \in ends : f.path = Register /\ f.dir = "r"
    BY <2>1, Names DEF EndsInv, PairOk, Opposite
  <2> QED
    BY <2>1, <2>2 DEF EndsInv, BrokerReads, PathsExist
<1> QED
  BY <1>1, EndsInvAlways, PTL
=============================================================================
