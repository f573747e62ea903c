--------------------------- MODULE SessionsProofs ---------------------------
(* Theorems about Sessions, for any number of clients and of restarts. *)
EXTENDS Sessions, TLAPS

\* What makes NoRequestTwice and NoStaleErrno inductive: the buffer is still
\* zeroed and errno untouched when the broker comes to its loop, it stays in
\* the loop only without an interrupted open, and pc has an entry for every
\* process.
ServedOnce ==
  /\ pc = [p \in Process |-> pc[p]]
  /\ pc[Broker] \in {"off", "mkfifo", "register", "opened"} => request = NoRequest /\ errno = "other"
  /\ pc[Broker] \in {"read", "open"} => errno = "other"
  /\ pc[Broker] = "while" /\ server_running => errno = "other"
  /\ NoRequestTwice

\* End and Goto move one process only.
LEMMA OthersStay ==
  ASSUME ServedOnce, NEW c \in Client, UNCHANGED broker,
         \E stmt : pc' = [pc EXCEPT ![c] = stmt]
  PROVE  ServedOnce'
<1>1. pc'[Broker] = pc[Broker]
  BY SessionsAssumption DEF ServedOnce, Process
<1> QED
  BY <1>1 DEF ServedOnce, NoRequestTwice, broker

\* The steps of the clients leave the broker's loop alone.
LEMMA ClientsStay ==
  ASSUME ServedOnce, NEW c \in Client,
         \/ Start(c) \/ Refused(c) \/ MakePipe(c)
         \/ OpenServer(c) \/ SendDies(c) \/ Send(c) \/ OpenSession(c)
         \/ Publish(c) \/ ReadAnswer(c) \/ InterruptClient(c)
  PROVE  ServedOnce'
<1>1. CASE UNCHANGED <<pc, broker>>
  BY <1>1 DEF ServedOnce, NoRequestTwice, broker
<1>2. CASE UNCHANGED broker /\ \E stmt : pc' = [pc EXCEPT ![c] = stmt]
  BY <1>2, OthersStay
<1>3. UNCHANGED broker /\ (UNCHANGED pc \/ \E stmt : pc' = [pc EXCEPT ![c] = stmt])
  <2>1. ASSUME NEW how, NEW S, End(c, how, S)
        PROVE  UNCHANGED broker /\ pc' = [pc EXCEPT ![c] = "off"]
    BY <2>1, SessionsAssumption DEF End
  <2>2. CASE Start(c) \/ MakePipe(c)
    BY <2>2 DEF Start, MakePipe, Goto
  <2>r. CASE Refused(c)
    BY <2>1, <2>r DEF Refused
  <2>3. CASE OpenServer(c)
    BY <2>1, <2>3 DEF OpenServer, ServerOpenFailed, Goto
  <2>4. CASE SendDies(c)
    BY <2>1, <2>4 DEF SendDies
  <2>5. CASE Send(c)
    BY <2>5 DEF Send, Goto
  <2>6. CASE OpenSession(c)
    BY <2>6 DEF OpenSession, Goto
  <2>7. CASE Publish(c)
    BY <2>1, <2>7 DEF Publish
  <2>8. CASE ReadAnswer(c)
    BY <2>1, <2>8 DEF ReadAnswer
  <2>9. CASE InterruptClient(c)
    BY <2>1, <2>9 DEF InterruptClient, ServerOpenFailed
  <2> QED
    BY <2>2, <2>r, <2>3, <2>4, <2>5, <2>6, <2>7, <2>8, <2>9
<1> QED
  BY <1>1, <1>2, <1>3

\* A broker that ended is not in its loop.
LEMMA BrokerGone ==
  ASSUME ServedOnce, NEW how, NEW S, End(Broker, how, S)
  PROVE  ServedOnce'
<1>1. /\ pc'[Broker] = "off" /\ pc' = [p \in Process |-> pc'[p]]
      /\ request' = NoRequest /\ errno' = "other"
  BY DEF End, ServedOnce, Process
<1> QED
  BY <1>1 DEF ServedOnce, NoRequestTwice

\* Every way back to the loop stops the server, and every way into it has a
\* zeroed buffer.
LEMMA ServedOnceStep == ServedOnce /\ [Next]_vars => ServedOnce'
<1> SUFFICES ASSUME ServedOnce, [Next]_vars
             PROVE  ServedOnce'
  OBVIOUS
<1> USE DEF ServedOnce, NoRequestTwice, Process, Goto
<1>1. CASE StartBroker \/ MakePipe(Broker)
  BY <1>1 DEF StartBroker, MakePipe, broker
<1>r. CASE Refused(Broker)
  BY <1>r, BrokerGone DEF Refused
<1>2. CASE OpenRegister
  BY <1>2 DEF OpenRegister, At, broker
<1>3. CASE SetRunning
  BY <1>3 DEF SetRunning, At
<1>4. CASE While
  BY <1>4, BrokerGone DEF While, At, broker
<1>5. CASE Read
  BY <1>5, BrokerGone DEF Read, Select, Errno, At
<1>6. CASE OpenInHandler
  BY <1>6 DEF OpenInHandler, At, RunningAfterFailure
<1>7. CASE codeR_PUB \/ codeR_SUB \/ codeC_BOX \/ codeR_BOX \/ codeL_BOX
  BY <1>7, BrokerGone DEF codeR_PUB, codeR_SUB, codeC_BOX, codeR_BOX, codeL_BOX
<1>8. CASE InterruptBroker
  <2>1. CASE \E how, S : End(Broker, how, S)
    BY <2>1, BrokerGone
  <2>2. CASE /\ server_running' = FALSE /\ request' = request
             /\ errno' = IF Waiting(Broker) THEN "EINTR" ELSE errno
             /\ Goto(Broker, IF Waiting(Broker) THEN "while" ELSE pc[Broker])
    BY <2>2
  <2> QED
    BY <1>8, <2>1, <2>2 DEF InterruptBroker, RegisterOpenFailed
<1>9. CASE \E c \in Client :
             \/ Start(c) \/ Refused(c) \/ MakePipe(c)
             \/ OpenServer(c) \/ SendDies(c) \/ Send(c) \/ OpenSession(c)
             \/ Publish(c) \/ ReadAnswer(c) \/ InterruptClient(c)
  BY <1>9, ClientsStay
<1>10. CASE UNCHANGED vars
  BY <1>10 DEF vars, broker
<1> QED
  BY <1>1, <1>r, <1>2, <1>3, <1>4, <1>5, <1>6, <1>7, <1>8, <1>9, <1>10
  DEF Next, BrokerGoesOn

LEMMA ServedOnceAlways == Spec => []ServedOnce
<1>1. Init => ServedOnce
  BY DEF Init, ServedOnce, NoRequestTwice, Process
<1> QED
  BY <1>1, ServedOnceStep, PTL DEF Spec

\* No broker handles a request twice, however many clients come, go, are
\* interrupted and come again under the same name (main and the handlers).
THEOREM NoRequestTwiceCorrect == Spec => []NoRequestTwice
<1>1. ServedOnce => NoRequestTwice
  BY DEF ServedOnce
<1> QED
  BY <1>1, ServedOnceAlways, PTL

\* errno is clean at every read, whatever SIGINT interrupted before: an
\* interrupted open either returns from main or stops the loop.
THEOREM NoStaleErrnoCorrect == Spec => []NoStaleErrno
<1>1. ServedOnce => NoStaleErrno
  BY DEF ServedOnce, NoStaleErrno
<1> QED
  BY <1>1, ServedOnceAlways, PTL

-----------------------------------------------------------------------------
\* What makes PipesRemoved inductive: the tables have an entry for everyone.
Tidy ==
  /\ pc = [p \in Process |-> pc[p]]
  /\ left = [p \in Process |-> left[p]]
  /\ PipesRemoved

\* Nobody has the pipe of another.
LEMMA OwnPaths ==
  /\ Broker \in Process /\ \A c \in Client : c \in Process /\ c # Broker
  /\ \A p, q \in Process : OwnPath(p) = OwnPath(q) => p = q
BY SessionsAssumption DEF Process, OwnPath

\* A process that ends after it made its pipe leaves the others' alone, and
\* has unlinked its own, unless it died or could not register.
LEMMA EndsTidy ==
  ASSUME Tidy, NEW p \in Process, NEW how, NEW S, End(p, how, S),
         \/ OwnPath(p) \in S
         \/ how \in {"died", "unregistered"}
         \/ pc[p] = "mkfifo"
  PROVE  Tidy'
<1>1. /\ pc' = [q \in Process |-> pc'[q]] /\ left' = [q \in Process |-> left'[q]]
      /\ fifos' = fifos \ S
  BY DEF End, Tidy
<1>2. ASSUME NEW q \in Process, q # p
      PROVE  pc'[q] = pc[q] /\ left'[q] = left[q]
  BY <1>2 DEF End, Tidy
<1>3. left'[p] = IF OwnPath(p) \in S THEN "no" ELSE IF pc[p] = "mkfifo" THEN left[p] ELSE how
  BY DEF End, Tidy
<1>4. ASSUME NEW q \in Process, pc'[q] \in {"off", "mkfifo"}, OwnPath(q) \in fifos'
      PROVE  left'[q] \in {"died", "unregistered"}
  <2>1. CASE q = p
    BY <1>1, <1>3, <1>4, <2>1 DEF Tidy, PipesRemoved
  <2>2. CASE q # p
    BY <1>1, <1>2, <1>4, <2>2 DEF Tidy, PipesRemoved
  <2> QED
    BY <2>1, <2>2
<1> QED
  BY <1>1, <1>4 DEF Tidy, PipesRemoved, OwnPath

\* A statement that neither ends a process nor makes a pipe changes nothing.
LEMMA GoesOnTidy ==
  ASSUME Tidy, UNCHANGED <<fifos, left>>,
         \/ UNCHANGED pc
         \/ \E p \in Process : \E stmt :
              /\ pc' = [pc EXCEPT ![p] = stmt] /\ stmt # "off"
              /\ stmt = "mkfifo" => pc[p] \in {"off", "mkfifo"}
  PROVE  Tidy'
<1>1. /\ pc' = [q \in Process |-> pc'[q]]
      /\ \A q \in Process : pc'[q] \in {"off", "mkfifo"} => pc[q] \in {"off", "mkfifo"}
  BY DEF Tidy
<1> QED
  BY <1>1 DEF Tidy, PipesRemoved, OwnPath

\* Who made its pipe is about to use it.
LEMMA MadeTidy ==
  ASSUME Tidy, NEW p \in Process, MakePipe(p)
  PROVE  Tidy'
<1>1. /\ pc' = [q \in Process |-> pc'[q]] /\ left' = [q \in Process |-> left'[q]]
      /\ pc'[p] \in {"register", "server"} /\ fifos' = fifos \cup {OwnPath(p)}
  BY DEF Tidy, MakePipe, Goto
<1>2. ASSUME NEW q \in Process, q # p
      PROVE  pc'[q] = pc[q] /\ left'[q] = left[q] /\ OwnPath(q) # OwnPath(p)
  BY <1>2, OwnPaths DEF Tidy, MakePipe, Goto
<1>3. ASSUME NEW q \in Process, pc'[q] \in {"off", "mkfifo"}, OwnPath(q) \in fifos'
      PROVE  left'[q] \in {"died", "unregistered"}
  BY <1>1, <1>2, <1>3 DEF Tidy, PipesRemoved
<1> QED
  BY <1>1, <1>3 DEF Tidy, PipesRemoved, OwnPath

\* Every step makes a pipe, ends a run, or goes on with it.
LEMMA TidyStep == Tidy /\ [Next]_vars => Tidy'
<1> SUFFICES ASSUME Tidy, [Next]_vars
             PROVE  Tidy'
  OBVIOUS
<1>p. /\ Broker \in Process /\ \A c \in Client : c \in Process /\ c # Broker
      /\ OwnPath(Broker) = Register /\ \A c \in Client : OwnPath(c) = c
  BY OwnPaths DEF OwnPath
<1>0. ASSUME NEW p \in Process, Refused(p) \/ MakePipe(p)
      PROVE  Tidy'
  BY <1>0, EndsTidy, MadeTidy DEF Refused
<1>1. CASE StartBroker
  BY <1>1, <1>p, GoesOnTidy DEF StartBroker, Goto, pipes
<1>2. CASE OpenRegister \/ SetRunning \/ Select \/ OpenInHandler
  BY <1>2, <1>p, GoesOnTidy DEF OpenRegister, SetRunning, Select, OpenInHandler, Goto, pipes
<1>3. CASE While
  BY <1>3, <1>p, GoesOnTidy, EndsTidy DEF While, Goto, pipes, UnlinkedAtExit
<1>r. CASE Read
  BY <1>2, <1>r, <1>p, EndsTidy DEF Read
<1>4. CASE codeR_PUB \/ codeR_SUB \/ codeC_BOX \/ codeR_BOX \/ codeL_BOX
  BY <1>4, <1>p, EndsTidy DEF codeR_PUB, codeR_SUB, codeC_BOX, codeR_BOX, codeL_BOX
<1>5. CASE InterruptBroker
  <2>1. CASE End(Broker, "died", {}) \/ End(Broker, "returned", {Register})
    BY <2>1, <1>p, EndsTidy
  <2>2. CASE /\ pc[Broker] # "off" /\ UNCHANGED <<fifos, left>>
             /\ Goto(Broker, IF Waiting(Broker) THEN "while" ELSE pc[Broker])
    <3>1. PICK stmt : stmt \in {"while", pc[Broker]} /\ pc' = [pc EXCEPT ![Broker] = stmt]
      BY <2>2 DEF Goto
    <3>2. stmt # "off" /\ (stmt = "mkfifo" => pc[Broker] \in {"off", "mkfifo"})
      BY <2>2, <3>1
    <3> QED
      BY <2>2, <3>1, <3>2, <1>p, GoesOnTidy
  <2> QED
    BY <1>5, <2>1, <2>2 DEF InterruptBroker, RegisterOpenFailed
<1>6. ASSUME NEW c \in Client,
             \/ Start(c) \/ Refused(c) \/ MakePipe(c)
             \/ OpenServer(c) \/ SendDies(c) \/ Send(c) \/ OpenSession(c)
             \/ Publish(c) \/ ReadAnswer(c) \/ InterruptClient(c)
      PROVE  Tidy'
  <2>1. CASE Start(c)
    BY <2>1, <1>p, GoesOnTidy DEF Start, Goto, pipes
  <2>2. ASSUME ServerOpenFailed(c)
        PROVE  Tidy'
    BY <2>2, <1>p, EndsTidy DEF ServerOpenFailed, UnlinkedOnFailure
  <2>3. ASSUME End(c, "died", {}) \/ End(c, "returned", {c})
        PROVE  Tidy'
    BY <2>3, <1>p, EndsTidy
  <2>4. CASE OpenServer(c)
    BY <2>4, <2>2, <1>p, GoesOnTidy DEF OpenServer, Goto
  <2>5. CASE SendDies(c) \/ Publish(c) \/ ReadAnswer(c)
    BY <2>5, <2>3 DEF SendDies, Publish, ReadAnswer
  <2>6. CASE Send(c) \/ OpenSession(c)
    BY <2>6, <1>p, GoesOnTidy DEF Send, OpenSession, Goto
  <2>7. CASE InterruptClient(c)
    BY <2>7, <2>2, <2>3, GoesOnTidy DEF InterruptClient, pipes
  <2> QED
    BY <1>0, <1>6, <1>p, <2>1, <2>4, <2>5, <2>6, <2>7
<1>7. CASE UNCHANGED vars
  BY <1>7, GoesOnTidy DEF vars, pipes
<1> QED
  BY <1>p, <1>0, <1>1, <1>2, <1>3, <1>r, <1>4, <1>5, <1>6, <1>7 DEF Next, BrokerGoesOn

\* Whoever made a pipe unlinks it on every way to a return, whichever step an
\* error or SIGINT interrupts, but for the publisher that cannot open the
\* register pipe: a run that is refused by mkfifo meets what one of these left,
\* or what somebody still uses.
THEOREM PipesRemovedCorrect == Spec => []PipesRemoved
<1>1. Init => Tidy
  BY DEF Init, Tidy, PipesRemoved
<1>2. Tidy => PipesRemoved
  BY DEF Tidy
<1> QED
  BY <1>1, <1>2, TidyStep, PTL DEF Spec
=============================================================================
