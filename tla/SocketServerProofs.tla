-------------------------- MODULE SocketServerProofs -------------------------
(***************************************************************************)
(* Proofs about SocketServer for any number of clients, any limits and any *)
(* sizes of messages: the count of connections is never too low, no scheme *)
(* serves more clients at a time than it may, the streams stay bounded, and*)
(* a buffer is overrun only where a read has split a message.              *)
(***************************************************************************)
EXTENDS SocketServer, FiniteSetTheorems, TLAPS

PCs     == {"loop", "waitpid", "accept", "fork", "load", "store",
            "pthread_create", "doService", "exited"}
Workers == {"none", "reading", "writing", "ended", "reaped", "killed"}
Forking == {Unbounded, Bounded}

Busy    == Cardinality(Serving)
Pending == IF sigchld THEN 1 ELSE 0

-----------------------------------------------------------------------------
(***************************************************************************)
(* The control of the server.                                              *)
(***************************************************************************)
ControlTypes ==
  /\ scheme \in Schemes /\ pc \in PCs
  /\ reg \in Int /\ NUM_CONECTIONS \in Int
  /\ connectionFD \in Clients \cup {None} /\ fds \in 0 .. MaxFD
  /\ sigchld \in BOOLEAN
  /\ worker \in [Clients -> Workers]
  /\ backlog \in Seq(Clients)
  /\ IsFiniteSet(Serving)

\* Each scheme has its own part of main, and works for the client it accepted.
SchemePoints ==
  /\ scheme = Sequential => pc \in {"loop", "accept", "doService", "exited"}
  /\ pc = "doService" => scheme = Sequential
  /\ pc = "pthread_create" => scheme = Threaded
  /\ pc \in {"fork", "load", "store", "waitpid"} => scheme \in Forking
  /\ pc \in {"fork", "pthread_create", "doService"} => connectionFD \in Clients

\* A child is counted until its end has been, once its parent is past the store;
\* before that the register counts, and nothing but SIGCHLD lowers the count.
Covered ==
  scheme \in Forking =>
    /\ pc \in {"loop", "waitpid", "accept", "fork"} => Busy + Pending <= NUM_CONECTIONS
    /\ pc = "load" => Busy + Pending <= NUM_CONECTIONS + 1
    /\ pc = "store" => Busy + Pending <= reg + 1

\* main only goes on to accept below the limit, or with no child left.
BelowLimit ==
  scheme = Bounded => /\ Busy <= MAX_CLIENTS
                      /\ pc \in {"accept", "fork"} => Busy < MAX_CLIENTS

\* The sequential server is its own worker.
OneAtATime ==
  scheme = Sequential =>
    Serving = IF pc = "doService" THEN {connectionFD} ELSE {}

Control == ControlTypes /\ SchemePoints /\ Covered /\ BelowLimit /\ OneAtATime

\* One worker changes its state.
LEMMA OneWorker ==
  ASSUME ControlTypes, NEW c \in Clients, NEW s \in Workers,
         worker' = [worker EXCEPT ![c] = s]
  PROVE  /\ worker' \in [Clients -> Workers]
         /\ Serving' = IF s \in {"reading", "writing"} THEN Serving \cup {c}
                                                       ELSE Serving \ {c}
         /\ IsFiniteSet(Serving') /\ Busy \in Nat /\ Busy' \in Nat
         /\ Busy' <= Busy + 1
         /\ s \notin {"reading", "writing"} => Busy' <= Busy
         /\ s \notin {"reading", "writing"} /\ c \in Serving => Busy' = Busy - 1
         /\ c \in Serving /\ s \in {"reading", "writing"} => Serving' = Serving
<1>1. worker' \in [Clients -> Workers]
  BY DEF ControlTypes
<1>2. Serving' = IF s \in {"reading", "writing"} THEN Serving \cup {c}
                                                 ELSE Serving \ {c}
  BY DEF ControlTypes, Serving
<1>3. IsFiniteSet(Serving) /\ Busy \in Nat
  BY FS_CardinalityType DEF ControlTypes, Busy
<1>4. /\ IsFiniteSet(Serving \cup {c})
      /\ Cardinality(Serving \cup {c}) = IF c \in Serving THEN Busy ELSE Busy + 1
  BY <1>3, FS_AddElement DEF Busy
<1>5. /\ IsFiniteSet(Serving \ {c})
      /\ Cardinality(Serving \ {c}) = IF c \in Serving THEN Busy - 1 ELSE Busy
  BY <1>3, FS_RemoveElement DEF Busy
<1>6. c \in Serving => Serving \cup {c} = Serving
  OBVIOUS
<1>7. Busy' = Cardinality(Serving')
  BY DEF Busy
<1>8. CASE s \in {"reading", "writing"}
  BY <1>1, <1>2, <1>3, <1>4, <1>6, <1>7, <1>8
<1>9. CASE s \notin {"reading", "writing"}
  <2>1. Busy' = IF c \in Serving THEN Busy - 1 ELSE Busy
    BY <1>2, <1>5, <1>7, <1>9
  <2>2. IsFiniteSet(Serving')
    BY <1>2, <1>5, <1>9
  <2>3. Busy' \in Nat
    BY <1>7, <2>2, FS_CardinalityType
  <2> QED
    BY <1>1, <1>2, <1>3, <1>9, <2>1, <2>2, <2>3
<1> QED
  BY <1>8, <1>9

\* The workers do not change.
LEMMA SameWorkers ==
  ASSUME ControlTypes, worker' = worker
  PROVE  Serving' = Serving /\ Busy' = Busy /\ Busy \in Nat
<1>1. Serving' = Serving
  BY DEF Serving
<1> QED
  BY <1>1, FS_CardinalityType DEF ControlTypes, Busy

\* The head of while (1), whatever the scheme.
LEMMA InitControl == Init => Control
<1> SUFFICES ASSUME Init PROVE Control
  OBVIOUS
<1>1. Serving = {}
  BY DEF Init, Serving
<1>2. IsFiniteSet(Serving) /\ Busy = 0
  BY <1>1, FS_EmptySet DEF Busy
<1>3. <<>> \in Seq(Clients)
  OBVIOUS
<1>4. ControlTypes
  <2>1. sigchld \in BOOLEAN /\ backlog \in Seq(Clients)
    BY <1>3, Zenon DEF Init
  <2>2. worker \in [Clients -> Workers] /\ fds \in 0 .. MaxFD
    BY ServerAssumption DEF Init, Workers
  <2> QED
    BY <1>2, <2>1, <2>2 DEF Init, ControlTypes, PCs
<1> QED
  BY <1>1, <1>2, <1>4, ServerAssumption
     DEF Init, Control, SchemePoints, Covered, BelowLimit, OneAtATime, Pending,
         Forking, Sequential, Unbounded, Bounded

\* main up to accept.
LEMMA LoopControl == Control /\ (ServerLoop \/ waitpid) => Control'
<1> SUFFICES ASSUME Control, ServerLoop \/ waitpid PROVE Control'
  OBVIOUS
<1> USE DEF Control
<1>1. CASE ServerLoop
  <2>1. /\ pc = "loop" /\ pc' = IF scheme = Bounded /\ NUM_CONECTIONS >= MAX_CLIENTS
                                  THEN "waitpid" ELSE "accept"
        /\ worker' = worker
        /\ UNCHANGED <<scheme, reg, connectionFD, fds, NUM_CONECTIONS, sigchld, backlog>>
    BY <1>1 DEF ServerLoop, mainVars
  <2>2. Serving' = Serving /\ Busy' = Busy /\ Busy \in Nat
    BY <2>1, SameWorkers
  <2>3. ControlTypes' /\ SchemePoints'
    BY <2>1, <2>2 DEF ControlTypes, SchemePoints, PCs, Forking, Sequential, Bounded,
                      Unbounded, Threaded
  <2>4. Covered'
    BY <2>1, <2>2 DEF Covered, Pending
  <2>5. BelowLimit'
    <3>1. scheme = Bounded => Busy <= NUM_CONECTIONS
      BY <2>1, <2>2 DEF Covered, Pending, Forking, ControlTypes
    <3> QED
      BY <2>1, <2>2, <3>1, ServerAssumption DEF BelowLimit, ControlTypes
  <2>6. OneAtATime'
    BY <2>1, <2>2 DEF OneAtATime
  <2> QED
    BY <2>3, <2>4, <2>5, <2>6
<1>2. CASE waitpid
  <2>1. /\ pc = "waitpid"
        /\ UNCHANGED <<scheme, reg, connectionFD, fds, NUM_CONECTIONS, sigchld, backlog>>
    BY <1>2 DEF waitpid, mainVars
  <2>2. CASE /\ \E c \in Clients : /\ worker[c] = "ended"
                                   /\ worker' = [worker EXCEPT ![c] = "reaped"]
             /\ UNCHANGED pc
    <3>1. PICK c \in Clients : /\ worker[c] = "ended"
                               /\ worker' = [worker EXCEPT ![c] = "reaped"]
      BY <2>2
    <3>2. /\ worker' \in [Clients -> Workers] /\ Serving' = Serving \ {c}
      BY <3>1, OneWorker DEF Workers
    <3>3. Serving' = Serving /\ Busy' = Busy
      BY <3>1, <3>2 DEF Serving, Busy
    <3> QED
      BY <2>1, <2>2, <3>2, <3>3
         DEF ControlTypes, SchemePoints, Covered, Pending, BelowLimit, OneAtATime
  <2>3. CASE Unreaped = {} /\ pc' = "accept" /\ UNCHANGED worker
    <3>1. Serving' = Serving /\ Busy' = Busy /\ Busy \in Nat
      BY <2>3, SameWorkers
    <3>2. Serving = {} /\ Busy = 0
      BY <2>3, FS_EmptySet DEF Unreaped, Busy
    <3>3. ControlTypes' /\ SchemePoints'
      BY <2>1, <2>3, <3>1 DEF ControlTypes, SchemePoints, PCs, Forking, Sequential,
                              Bounded, Unbounded, Threaded
    <3>4. Covered' /\ BelowLimit' /\ OneAtATime'
      BY <2>1, <2>3, <3>1, <3>2, ServerAssumption
         DEF Covered, Pending, BelowLimit, OneAtATime, SchemePoints, Forking,
             Sequential, Bounded, Unbounded
    <3> QED
      BY <3>3, <3>4
  <2> QED
    BY <1>2, <2>2, <2>3 DEF waitpid
<1> QED
  BY <1>1, <1>2

\* exit(1), wherever main calls it.
LEMMA ExitControl ==
  ASSUME Control, exit_1, pc \in {"accept", "fork", "pthread_create"}
  PROVE  Control'
<1> USE DEF Control
<1>1. /\ pc' = "exited"
      /\ worker' = [c \in Clients |->
           IF scheme = Threaded /\ c \in Serving THEN "killed" ELSE worker[c]]
      /\ UNCHANGED <<scheme, reg, connectionFD, fds, NUM_CONECTIONS, sigchld, backlog>>
  BY DEF exit_1, mainVars
<1>2. worker' \in [Clients -> Workers]
  BY <1>1 DEF ControlTypes, Workers
<1>3. Serving' = IF scheme = Threaded THEN {} ELSE Serving
  BY <1>1 DEF Serving, ControlTypes
<1>4. IsFiniteSet(Serving')
  BY <1>3, FS_EmptySet DEF ControlTypes
<1>5. scheme # Threaded => Busy' = Busy
  BY <1>3 DEF Busy
<1>6. ControlTypes' /\ SchemePoints'
  BY <1>1, <1>2, <1>4 DEF ControlTypes, SchemePoints, PCs
<1>7. Covered' /\ BelowLimit'
  BY <1>1, <1>5 DEF Covered, BelowLimit, Bounded, Threaded
<1>8. OneAtATime'
  BY <1>1, <1>3 DEF OneAtATime, SchemePoints, Sequential, Threaded
<1> QED
  BY <1>6, <1>7, <1>8

\* accept, for the scheme that asked for it.
LEMMA AcceptControl == Control /\ acceptNewConnections => Control'
<1> SUFFICES ASSUME Control, acceptNewConnections PROVE Control'
  OBVIOUS
<1>1. CASE fds = MaxFD /\ exit_1
  BY <1>1, ExitControl DEF acceptNewConnections
<1>2. CASE ~(fds = MaxFD /\ exit_1)
  <2> USE DEF Control
  <2> DEFINE c == Head(backlog)
  <2>1. /\ pc = "accept" /\ fds < MaxFD /\ backlog # <<>>
        /\ connectionFD' = c /\ backlog' = Tail(backlog) /\ fds' = fds + 1
        /\ pc' = AfterAccept
        /\ worker' = IF scheme = Sequential
                       THEN [worker EXCEPT ![c] = "reading"] ELSE worker
        /\ UNCHANGED <<scheme, reg, NUM_CONECTIONS, sigchld>>
    BY <1>2 DEF acceptNewConnections
  <2>2. c \in Clients /\ Tail(backlog) \in Seq(Clients)
    BY <2>1 DEF ControlTypes
  <2> HIDE DEF c
  <2>3. fds + 1 \in 0 .. MaxFD
    BY <2>1, ServerAssumption DEF ControlTypes
  <2>4. pc' \in PCs /\ SchemePoints'
    BY <2>1, <2>2, ServerAssumption
       DEF AfterAccept, PCs, SchemePoints, ControlTypes, Forking, Sequential,
           Bounded, Unbounded, Threaded
  <2>5. CASE scheme = Sequential
    <3>1. /\ worker' \in [Clients -> Workers] /\ IsFiniteSet(Serving')
          /\ Serving' = Serving \cup {c}
      BY <2>1, <2>2, <2>5, OneWorker DEF Workers
    <3>4. Serving = {}
      BY <2>1, <2>5 DEF OneAtATime
    <3>5. AfterAccept = "doService"
      BY <2>5 DEF AfterAccept, Sequential, Threaded
    <3>2. Serving' = {c} /\ pc' = "doService"
      BY <2>1, <3>1, <3>4, <3>5
    <3>3. Covered' /\ BelowLimit' /\ OneAtATime'
      BY <2>1, <2>5, <3>2 DEF Covered, BelowLimit, OneAtATime, Forking, Sequential,
                              Bounded, Unbounded
    <3> QED
      BY <2>1, <2>2, <2>3, <2>4, <3>1, <3>3 DEF ControlTypes
  <2>6. CASE scheme # Sequential
    <3>1. Serving' = Serving /\ Busy' = Busy /\ worker' = worker
      BY <2>1, <2>6, SameWorkers
    <3>2. ControlTypes'
      BY <2>1, <2>2, <2>3, <2>4, <3>1 DEF ControlTypes
    <3>3. Covered' /\ BelowLimit' /\ OneAtATime'
      BY <2>1, <2>6, <3>1
         DEF AfterAccept, Covered, BelowLimit, OneAtATime, Pending, Forking,
             Sequential, Bounded, Unbounded, Threaded
    <3> QED
      BY <2>4, <3>2, <3>3
  <2> QED
    BY <2>5, <2>6
<1> QED
  BY <1>1, <1>2

\* A child or a thread for the connection; NUM_CONECTIONS++ comes later.
LEMMA StartControl == Control /\ (doServiceFork \/ threadedServerLoop) => Control'
<1> SUFFICES ASSUME Control, doServiceFork \/ threadedServerLoop PROVE Control'
  OBVIOUS
<1>1. CASE exit_1
  BY <1>1, ExitControl DEF doServiceFork, threadedServerLoop
<1>2. CASE ~exit_1
  <2> USE DEF Control
  <2>1. /\ worker' = [worker EXCEPT ![connectionFD] = "reading"]
        /\ UNCHANGED <<scheme, reg, fds, NUM_CONECTIONS, sigchld, backlog>>
        /\ \/ pc = "fork" /\ pc' = "load" /\ connectionFD' = connectionFD
           \/ pc = "pthread_create" /\ pc' = "loop" /\ connectionFD' = None
    BY <1>2 DEF doServiceFork, threadedServerLoop, mainVars
  <2>2. connectionFD \in Clients /\ scheme # Sequential
    BY <2>1 DEF SchemePoints
  <2>3. /\ worker' \in [Clients -> Workers] /\ IsFiniteSet(Serving')
        /\ Busy \in Nat /\ Busy' \in Nat /\ Busy' <= Busy + 1
    BY <2>1, <2>2, OneWorker DEF Workers
  <2>4. ControlTypes' /\ SchemePoints'
    BY <2>1, <2>2, <2>3 DEF ControlTypes, SchemePoints, PCs, Forking, Sequential,
                            Bounded, Unbounded, Threaded
  <2>5. Covered'
    <3>1. Pending' = Pending /\ (Pending = 0 \/ Pending = 1)
      BY <2>1 DEF Pending
    <3>2. CASE pc = "fork"
      <4> SUFFICES ASSUME scheme \in Forking PROVE Busy' + Pending' <= NUM_CONECTIONS' + 1
        BY <2>1, <3>2 DEF Covered
      <4>1. Busy + Pending <= NUM_CONECTIONS /\ NUM_CONECTIONS' = NUM_CONECTIONS
        BY <2>1, <3>2 DEF Covered
      <4>2. NUM_CONECTIONS \in Int
        BY DEF ControlTypes
      <4> QED
        BY <2>3, <3>1, <4>1, <4>2
    <3>3. CASE pc = "pthread_create"
      BY <2>1, <3>3 DEF Covered, SchemePoints, Forking, Bounded, Unbounded, Threaded
    <3> QED
      BY <2>1, <3>2, <3>3
  <2>6. BelowLimit' /\ OneAtATime'
    BY <2>1, <2>2, <2>3, ServerAssumption
       DEF BelowLimit, OneAtATime, SchemePoints, Bounded, Threaded
  <2> QED
    BY <2>4, <2>5, <2>6
<1> QED
  BY <1>1, <1>2

\* NUM_CONECTIONS++, and the handler at any point of it.
LEMMA CountControl == Control /\ (load \/ store \/ func_sigchild) => Control'
<1> SUFFICES ASSUME Control, load \/ store \/ func_sigchild PROVE Control'
  OBVIOUS
<1> USE DEF Control
<1>1. CASE load
  <2>1. /\ pc = "load" /\ reg' = NUM_CONECTIONS /\ pc' = "store" /\ worker' = worker
        /\ UNCHANGED <<scheme, connectionFD, fds, NUM_CONECTIONS, sigchld, backlog>>
    BY <1>1 DEF load
  <2>2. Serving' = Serving /\ Busy' = Busy /\ Busy \in Nat
    BY <2>1, SameWorkers
  <2>3. ControlTypes' /\ SchemePoints'
    BY <2>1, <2>2 DEF ControlTypes, SchemePoints, PCs
  <2>4. Covered' /\ BelowLimit' /\ OneAtATime'
    BY <2>1, <2>2 DEF Covered, BelowLimit, OneAtATime, Pending
  <2> QED
    BY <2>3, <2>4
<1>2. CASE store
  <2>1. /\ pc = "store" /\ NUM_CONECTIONS' = reg + 1 /\ pc' = "loop" /\ worker' = worker
        /\ reg' = 0 /\ connectionFD' = None
        /\ UNCHANGED <<scheme, fds, sigchld, backlog>>
    BY <1>2 DEF store
  <2>2. Serving' = Serving /\ Busy' = Busy /\ Busy \in Nat
    BY <2>1, SameWorkers
  <2>3. ControlTypes' /\ SchemePoints'
    BY <2>1, <2>2 DEF ControlTypes, SchemePoints, PCs, Forking, Sequential, Bounded,
                      Unbounded
  <2>4. Covered' /\ BelowLimit' /\ OneAtATime'
    BY <2>1, <2>2 DEF Covered, BelowLimit, OneAtATime, Pending
  <2> QED
    BY <2>3, <2>4
<1>3. CASE func_sigchild
  <2>1. /\ sigchld /\ NUM_CONECTIONS' = NUM_CONECTIONS - 1 /\ worker' = worker
        /\ sigchld' = FALSE
        /\ UNCHANGED <<scheme, pc, reg, connectionFD, fds, backlog>>
    BY <1>3 DEF func_sigchild, mainVars
  <2>2. Serving' = Serving /\ Busy' = Busy /\ Busy \in Nat
    BY <2>1, SameWorkers
  <2>3. Pending = 1 /\ Pending' = 0 /\ sigchld' \in BOOLEAN
    BY <2>1, Zenon DEF Pending
  <2>4. ControlTypes' /\ SchemePoints'
    BY <2>1, <2>2, <2>3 DEF ControlTypes, SchemePoints
  <2>5. Covered' /\ BelowLimit' /\ OneAtATime'
    BY <2>1, <2>2, <2>3 DEF Covered, BelowLimit, OneAtATime, ControlTypes
  <2> QED
    BY <2>4, <2>5
<1> QED
  BY <1>1, <1>2, <1>3

\* A worker reads and writes.
LEMMA WorkControl ==
  ASSUME Control, NEW c \in Clients, doServiceRead(c) \/ doServiceWrite(c)
  PROVE  Control'
<1> USE DEF Control
<1>1. PICK s \in {"reading", "writing"} : worker' = [worker EXCEPT ![c] = s]
  BY DEF doServiceRead, doServiceWrite
<1>2. c \in Serving
  BY DEF doServiceRead, doServiceWrite, Serving
<1>3. UNCHANGED <<scheme, pc, reg, connectionFD, fds, NUM_CONECTIONS, sigchld, backlog>>
  BY DEF doServiceRead, doServiceWrite, mainVars
<1>4. worker' \in [Clients -> Workers] /\ Serving' = Serving
  BY <1>1, <1>2, OneWorker DEF Workers
<1>5. Busy' = Busy
  BY <1>4 DEF Busy
<1> QED
  BY <1>3, <1>4, <1>5
     DEF ControlTypes, SchemePoints, Covered, Pending, BelowLimit, OneAtATime

\* A child's end raises SIGCHLD, if main is there to take it.
LEMMA EndControl ==
  ASSUME Control, NEW c \in Clients, c \in Serving, WorkerEnds(c)
  PROVE  Control'
<1> USE DEF Control
<1> DEFINE s == IF scheme = Sequential THEN "reaped" ELSE "ended"
<1>1. /\ worker' = [worker EXCEPT ![c] = s]
      /\ IF scheme = Sequential THEN pc' = "loop" /\ connectionFD' = None
                                ELSE pc' = pc /\ connectionFD' = connectionFD
      /\ UNCHANGED <<scheme, reg, fds, NUM_CONECTIONS, backlog>>
  BY DEF WorkerEnds
<1>2. s \in Workers /\ s \notin {"reading", "writing"}
  BY DEF Workers
<1> HIDE DEF s
<1>3. /\ worker' \in [Clients -> Workers] /\ IsFiniteSet(Serving')
      /\ Serving' = Serving \ {c} /\ Busy \in Nat /\ Busy' = Busy - 1
  BY <1>1, <1>2, OneWorker
<1>4. sigchld' \in BOOLEAN
  BY Zenon DEF WorkerEnds
<1>5. (Pending = 0 \/ Pending = 1) /\ (Pending' = 0 \/ Pending' = 1)
  BY Zenon DEF Pending
<1>6. ControlTypes' /\ SchemePoints'
  BY <1>1, <1>3, <1>4 DEF ControlTypes, SchemePoints, PCs, Sequential, Forking,
                          Unbounded, Bounded, Threaded
<1>7. Covered'
  <2> SUFFICES ASSUME scheme \in Forking PROVE Covered'
    BY <1>1 DEF Covered
  <2>1. pc' = pc /\ reg' = reg /\ NUM_CONECTIONS' = NUM_CONECTIONS /\ scheme' = scheme
    BY <1>1 DEF Forking, Sequential, Unbounded, Bounded
  <2>2. Busy' + Pending' <= Busy + Pending /\ Busy' + Pending' \in Int
    BY <1>3, <1>5
  <2>3. Busy + Pending \in Int /\ reg \in Int /\ NUM_CONECTIONS \in Int
    BY <1>3, <1>5 DEF ControlTypes
  <2> QED
    BY <2>1, <2>2, <2>3 DEF Covered
<1>8. BelowLimit'
  BY <1>1, <1>3, ServerAssumption DEF BelowLimit, Sequential, Bounded
<1>9. OneAtATime'
  BY <1>1, <1>3 DEF OneAtATime
<1> QED
  BY <1>6, <1>7, <1>8, <1>9

\* A worker ends by itself or by a signal.
LEMMA ServiceControl ==
  ASSUME Control, NEW c \in Clients,
         endService(c) \/ doServicePipe(c) \/ doServiceAbort(c)
  PROVE  Control'
<1>1. c \in Serving
  BY DEF endService, doServicePipe, doServiceAbort, Serving
<1>2. CASE WorkerEnds(c)
  BY <1>1, <1>2, EndControl
<1>3. CASE ~WorkerEnds(c)
  <2> USE DEF Control
  <2>1. /\ scheme \notin Forking /\ pc' = "exited"
        /\ worker' = [d \in Clients |-> IF d \in Serving THEN "killed" ELSE worker[d]]
        /\ UNCHANGED <<scheme, reg, connectionFD, fds, NUM_CONECTIONS, sigchld, backlog>>
    BY <1>3 DEF endService, doServicePipe, doServiceAbort, KilledBySignal, mainVars,
                Forking
  <2>2. worker' \in [Clients -> Workers]
    BY <2>1 DEF ControlTypes, Workers
  <2>3. Serving' = {}
    BY <2>1 DEF Serving, ControlTypes
  <2>4. IsFiniteSet(Serving')
    BY <2>3, FS_EmptySet
  <2>5. ControlTypes' /\ SchemePoints'
    BY <2>1, <2>2, <2>4 DEF ControlTypes, SchemePoints, PCs
  <2>6. Covered' /\ BelowLimit' /\ OneAtATime'
    BY <2>1, <2>3 DEF Covered, BelowLimit, OneAtATime, Forking
  <2> QED
    BY <2>5, <2>6
<1> QED
  BY <1>2, <1>3

\* Of what main looks at, a client only changes the backlog.
LEMMA ClientControl ==
  ASSUME Control, NEW c \in Clients,
         \/ clientConnection(c) \/ clientWrite(c) \/ clientRead(c)
         \/ deleteSocket(c) \/ clientAbort(c) \/ clientError(c)
  PROVE  Control'
<1> USE DEF Control
<1>1. /\ UNCHANGED <<scheme, pc, reg, connectionFD, fds, NUM_CONECTIONS, sigchld, worker>>
      /\ backlog' \in {backlog, Append(backlog, c)}
  BY DEF clientConnection, clientWrite, clientRead, deleteSocket, clientAbort, Close,
         clientError, mainVars
<1>2. backlog' \in Seq(Clients)
  BY <1>1 DEF ControlTypes
<1>3. Serving' = Serving /\ Busy' = Busy
  BY <1>1, SameWorkers
<1> QED
  BY <1>1, <1>2, <1>3
     DEF ControlTypes, SchemePoints, Covered, Pending, BelowLimit, OneAtATime

\* Every step of server and clients.
LEMMA NextControl == Control /\ [Next]_vars => Control'
<1> SUFFICES ASSUME Control, [Next]_vars PROVE Control'
  OBVIOUS
<1>1. CASE UNCHANGED vars
  <2>1. UNCHANGED <<scheme, pc, reg, connectionFD, fds, NUM_CONECTIONS, sigchld,
                    worker, backlog>>
    BY <1>1 DEF vars, mainVars
  <2>2. Serving' = Serving /\ Busy' = Busy
    BY <2>1, SameWorkers DEF Control
  <2> QED
    BY <2>1, <2>2 DEF Control, ControlTypes, SchemePoints, Covered, Pending,
                      BelowLimit, OneAtATime
<1>2. CASE \/ ServerLoop \/ waitpid \/ acceptNewConnections \/ doServiceFork
           \/ load \/ store \/ threadedServerLoop \/ func_sigchild
  BY <1>2, LoopControl, AcceptControl, StartControl, CountControl
<1>3. ASSUME NEW c \in Clients,
             \/ doServiceRead(c) \/ doServiceWrite(c)
             \/ endService(c) \/ doServicePipe(c) \/ doServiceAbort(c)
             \/ clientConnection(c) \/ clientWrite(c) \/ clientRead(c)
             \/ deleteSocket(c) \/ clientAbort(c) \/ clientError(c)
      PROVE  Control'
  BY <1>3, WorkControl, ServiceControl, ClientControl
<1> QED
  BY <1>1, <1>2, <1>3 DEF Next

\* The control of the server, in every state.
LEMMA SpecControl == Spec => []Control
<1> QED
  BY InitControl, NextControl, PTL DEF Spec

(***************************************************************************)
(* The count is never below the number of children at work while main is   *)
(* between two connections, whatever SIGCHLD does to NUM_CONECTIONS++ and  *)
(* however many ends one SIGCHLD stands for.                               *)
(***************************************************************************)
THEOREM ServerCountNeverLow == Spec => []CountNeverLow
<1>1. Control => CountNeverLow
  <2> SUFFICES ASSUME Control, scheme \in Forking,
                      pc \in {"loop", "waitpid", "accept", "fork"}
               PROVE  Busy <= NUM_CONECTIONS
    BY DEF CountNeverLow, Forking, Busy
  <2>1. Busy \in Nat /\ NUM_CONECTIONS \in Int
    BY FS_CardinalityType DEF Control, ControlTypes, Busy
  <2>2. Pending = 0 \/ Pending = 1
    BY DEF Pending
  <2> QED
    BY <2>1, <2>2 DEF Control, Covered
<1> QED
  BY <1>1, SpecControl, PTL

(***************************************************************************)
(* The bounded server never serves more than MAX_CLIENTS clients at a time *)
(* and the sequential one never more than one, for any number of clients.  *)
(***************************************************************************)
THEOREM ServerSchemeBound == Spec => []SchemeBound
<1>1. Control => SchemeBound
  <2> SUFFICES ASSUME Control PROVE SchemeBound
    OBVIOUS
  <2>1. scheme = Sequential => Cardinality(Serving) <= 1
    <3> SUFFICES ASSUME scheme = Sequential PROVE Cardinality(Serving) <= 1
      OBVIOUS
    <3>1. CASE pc = "doService"
      <4>1. Serving = {connectionFD}
        BY <3>1 DEF Control, OneAtATime
      <4> QED
        BY <4>1, FS_Singleton
    <3>2. CASE pc # "doService"
      <4>1. Serving = {}
        BY <3>2 DEF Control, OneAtATime
      <4> QED
        BY <4>1, FS_EmptySet
    <3> QED
      BY <3>1, <3>2
  <2>2. scheme = Bounded => Cardinality(Serving) <= MAX_CLIENTS
    BY DEF Control, BelowLimit, Busy
  <2> QED
    BY <2>1, <2>2 DEF SchemeBound
<1> QED
  BY <1>1, SpecControl, PTL

-----------------------------------------------------------------------------
(***************************************************************************)
(* The traffic of one client.  Units is what its connection may still make *)
(* the server answer: the requests on the way, the one its worker has read *)
(* and those of the rounds to come.  No step makes it grow, and an answer  *)
(* takes one unit away.                                                    *)
(***************************************************************************)
ClientStates == {"new", "open", "reading", "closed", "failed"}

Cap(k) == k * HOLA

Todo(cl, lf) == IF cl \in {"closed", "failed"} THEN 0
                ELSE IF cl = "reading" THEN lf - 1 ELSE lf

Units(r, w, cl, lf) == r + (IF w = "writing" THEN 1 ELSE 0) + HOLA * Todo(cl, lf)

Traffic(k, a, r, w, cl, lf) ==
  /\ a \in Nat /\ r \in Nat /\ cl \in ClientStates /\ lf \in 0 .. k
  /\ cl = "reading" => lf > 0
  /\ Units(r, w, cl, lf) <= Cap(k)
  /\ a + Units(r, w, cl, lf) * CARACOLA <= Cap(k) * CARACOLA

\* Products of the sizes of messages.
LEMMA Product == ASSUME NEW m \in Nat, NEW n \in Nat PROVE m * n \in Nat
  OBVIOUS

\* One factor less by one.
LEMMA ProductStep ==
  ASSUME NEW m \in Nat, NEW n \in Int PROVE m * (n - 1) = m * n - m
  OBVIOUS

\* A product grows with its factor.
LEMMA ProductOrder ==
  ASSUME NEW m \in Nat, NEW n \in Nat, NEW k \in Nat, m <= n
  PROVE  m * k <= n * k
<1>1. n * k = m * k + (n - m) * k
  OBVIOUS
<1>2. (n - m) \in Nat
  OBVIOUS
<1>3. (n - m) * k \in Nat
  BY <1>2, Product
<1> QED
  BY <1>1, <1>3, Product

\* Rounds to come and units are natural numbers.
LEMMA UnitsType ==
  ASSUME NEW k \in Nat, NEW r \in Nat, NEW w, NEW cl \in ClientStates,
         NEW lf \in 0 .. k,
         cl = "reading" => lf > 0
  PROVE  Todo(cl, lf) \in Nat /\ Units(r, w, cl, lf) \in Nat
<1>1. Todo(cl, lf) \in Nat
  BY ServerAssumption DEF Todo
<1>2. HOLA * Todo(cl, lf) \in Nat
  BY <1>1, Product, ServerAssumption
<1> QED
  BY <1>1, <1>2 DEF Units

\* Fewer units and no more answers, or an answer for one unit.
LEMMA LessTraffic ==
  ASSUME NEW k \in Nat, NEW a, NEW r, NEW w, NEW cl, NEW lf,
         Traffic(k, a, r, w, cl, lf),
         NEW b \in Nat, NEW q \in Nat, NEW x, NEW dl \in ClientStates,
         NEW mf \in 0 .. k, dl = "reading" => mf > 0,
         \/ Units(q, x, dl, mf) <= Units(r, w, cl, lf) /\ b <= a
         \/ Units(q, x, dl, mf) = Units(r, w, cl, lf) - 1 /\ b = a + CARACOLA
  PROVE  Traffic(k, b, q, x, dl, mf)
<1> DEFINE u == Units(r, w, cl, lf)
           v == Units(q, x, dl, mf)
<1>1. u \in Nat /\ v \in Nat /\ u <= Cap(k) /\ a \in Nat
      /\ a + u * CARACOLA <= Cap(k) * CARACOLA
  BY UnitsType DEF Traffic
<1>2. Cap(k) \in Nat /\ CARACOLA \in Nat
  BY Product, ServerAssumption DEF Cap
<1>3. u * CARACOLA \in Nat /\ v * CARACOLA \in Nat /\ Cap(k) * CARACOLA \in Nat
  BY <1>1, <1>2, Product
<1>4. \/ v <= u /\ b <= a
      \/ v = u - 1 /\ b = a + CARACOLA
  OBVIOUS
<1> HIDE DEF u, v
<1>5. v <= Cap(k) /\ b + v * CARACOLA <= Cap(k) * CARACOLA
  <2>1. CASE v <= u /\ b <= a
    <3>1. v * CARACOLA <= u * CARACOLA
      BY <1>1, <1>2, <2>1, ProductOrder
    <3> QED
      BY <1>1, <1>2, <1>3, <2>1, <3>1
  <2>2. CASE v = u - 1 /\ b = a + CARACOLA
    <3>1. v * CARACOLA = u * CARACOLA - CARACOLA
      BY <1>1, <1>2, <2>2
    <3> QED
      BY <1>1, <1>2, <1>3, <2>2, <3>1
  <2> QED
    BY <1>4, <2>1, <2>2
<1> QED
  BY <1>5 DEF Traffic, u, v

\* A worker starts, ends or is killed.
LEMMA WorkerTraffic ==
  ASSUME NEW k \in Nat, NEW a, NEW r, NEW w, NEW cl, NEW lf,
         Traffic(k, a, r, w, cl, lf),
         NEW x, x # "writing" \/ x = w
  PROVE  Traffic(k, a, r, x, cl, lf)
<1>1. /\ a \in Nat /\ r \in Nat /\ cl \in ClientStates /\ lf \in 0 .. k
      /\ cl = "reading" => lf > 0
  BY DEF Traffic
<1>2. HOLA * Todo(cl, lf) \in Nat
  BY <1>1, UnitsType, Product, ServerAssumption
<1>3. Units(r, x, cl, lf) <= Units(r, w, cl, lf)
  BY <1>1, <1>2 DEF Units
<1>4. a <= a
  BY <1>1
<1> QED
  BY <1>1, <1>3, <1>4, LessTraffic

\* read takes some units and leaves one to answer; write answers it.
LEMMA ServiceTraffic ==
  ASSUME NEW k \in Nat, NEW a, NEW r, NEW cl, NEW lf
  PROVE  /\ Traffic(k, a, r, "reading", cl, lf) =>
              \A n \in 1 .. r : Traffic(k, a, r - n, "writing", cl, lf)
         /\ Traffic(k, a, r, "writing", cl, lf) =>
              Traffic(k, a + CARACOLA, r, "reading", cl, lf)
<1>1. ASSUME NEW w, Traffic(k, a, r, w, cl, lf)
      PROVE  /\ a \in Nat /\ r \in Nat /\ cl \in ClientStates /\ lf \in 0 .. k
             /\ cl = "reading" => lf > 0
             /\ HOLA * Todo(cl, lf) \in Nat
  <2>1. /\ a \in Nat /\ r \in Nat /\ cl \in ClientStates /\ lf \in 0 .. k
        /\ cl = "reading" => lf > 0
    BY <1>1 DEF Traffic
  <2> QED
    BY <2>1, UnitsType, Product, ServerAssumption
<1>2. ASSUME Traffic(k, a, r, "reading", cl, lf), NEW n \in 1 .. r
      PROVE  Traffic(k, a, r - n, "writing", cl, lf)
  <2>1. r - n \in Nat /\ a <= a
    BY <1>1, <1>2
  <2>2. Units(r - n, "writing", cl, lf) <= Units(r, "reading", cl, lf)
    BY <1>1, <1>2 DEF Units
  <2> QED
    BY <1>1, <1>2, <2>1, <2>2, LessTraffic
<1>3. ASSUME Traffic(k, a, r, "writing", cl, lf)
      PROVE  Traffic(k, a + CARACOLA, r, "reading", cl, lf)
  <2>1. a + CARACOLA \in Nat
    BY <1>1, <1>3, ServerAssumption
  <2>2. Units(r, "reading", cl, lf) = Units(r, "writing", cl, lf) - 1
    BY <1>1, <1>3 DEF Units
  <2> QED
    BY <1>1, <1>3, <2>1, <2>2, LessTraffic
<1> QED
  BY <1>2, <1>3

\* The rounds of a client: a write turns one to come into units on the way.
LEMMA ClientTraffic ==
  ASSUME NEW k \in Nat, NEW a, NEW r, NEW w, NEW lf
  PROVE  /\ Traffic(k, a, r, w, "new", lf) => Traffic(k, a, r, w, "open", lf)
         /\ Traffic(k, a, r, w, "open", lf) /\ lf > 0 =>
              Traffic(k, a, r + HOLA, w, "reading", lf)
         /\ Traffic(k, a, r, w, "reading", lf) =>
              \A b \in 0 .. a : Traffic(k, b, r, w, "open", lf - 1)
         /\ Traffic(k, a, r, w, "open", lf) /\ lf = 0 =>
              Traffic(k, 0, r, w, "closed", lf)
<1>1. CASE r \in Nat /\ a \in Nat /\ lf \in 0 .. k
  <2>1. lf \in Int /\ k \in Nat /\ HOLA \in Nat /\ r + HOLA \in Nat /\ a <= a
    BY <1>1, ServerAssumption
  <2>2. HOLA * lf \in Nat /\ HOLA * (lf - 1) = HOLA * lf - HOLA
    BY <1>1, <2>1, Product, ProductStep
  <2>3. /\ Units(r, w, "new", lf) = Units(r, w, "open", lf)
        /\ Units(r, w, "reading", lf) = Units(r, w, "open", lf - 1)
    BY DEF Units, Todo
  <2>4. Units(r + HOLA, w, "reading", lf) = Units(r, w, "open", lf)
    BY <1>1, <2>1, <2>2 DEF Units, Todo
  <2>5. lf = 0 => Units(r, w, "closed", lf) = Units(r, w, "open", lf)
    BY DEF Units, Todo
  <2>6. ASSUME Traffic(k, a, r, w, "new", lf) PROVE Traffic(k, a, r, w, "open", lf)
    BY <2>3, <2>6 DEF Traffic, ClientStates
  <2>7. ASSUME Traffic(k, a, r, w, "open", lf), lf > 0
        PROVE  Traffic(k, a, r + HOLA, w, "reading", lf)
    BY <2>1, <2>4, <2>7 DEF Traffic, ClientStates
  <2>8. ASSUME Traffic(k, a, r, w, "reading", lf), NEW b \in 0 .. a
        PROVE  Traffic(k, b, r, w, "open", lf - 1)
    <3>1. lf - 1 \in 0 .. k /\ b \in Nat /\ b <= a
      BY <1>1, <2>1, <2>8 DEF Traffic
    <3>2. Units(r, w, "open", lf - 1) \in Nat
      BY <1>1, <3>1, UnitsType DEF ClientStates
    <3>3. Units(r, w, "open", lf - 1) <= Units(r, w, "reading", lf)
      BY <2>3, <3>2
    <3> QED
      BY <1>1, <2>8, <3>1, <3>3, LessTraffic DEF ClientStates
  <2>9. ASSUME Traffic(k, a, r, w, "open", lf), lf = 0
        PROVE  Traffic(k, 0, r, w, "closed", lf)
    <3>1. Units(r, w, "closed", lf) \in Nat
      BY <1>1, UnitsType DEF ClientStates
    <3>2. Units(r, w, "closed", lf) <= Units(r, w, "open", lf) /\ 0 <= a
      BY <1>1, <2>5, <2>9, <3>1
    <3> QED
      BY <1>1, <2>9, <3>2, LessTraffic DEF ClientStates
  <2> QED
    BY <2>6, <2>7, <2>8, <2>9
<1>2. CASE ~(r \in Nat /\ a \in Nat /\ lf \in 0 .. k)
  BY <1>2 DEF Traffic
<1> QED
  BY <1>1, <1>2

\* A client that fails does none of the rounds it had left.
LEMMA FailedTraffic ==
  ASSUME NEW k \in Nat, NEW a, NEW r, NEW w, NEW cl, NEW lf,
         Traffic(k, a, r, w, cl, lf), NEW b \in 0 .. a
  PROVE  Traffic(k, b, r, w, "failed", lf)
<1>1. /\ a \in Nat /\ r \in Nat /\ cl \in ClientStates /\ lf \in 0 .. k
      /\ cl = "reading" => lf > 0
  BY DEF Traffic
<1>2. HOLA * Todo(cl, lf) \in Nat
  BY <1>1, UnitsType, Product, ServerAssumption
<1>3. HOLA * Todo("failed", lf) = 0
  BY ServerAssumption DEF Todo
<1>4. Units(r, w, "failed", lf) <= Units(r, w, cl, lf) /\ b \in Nat /\ b <= a
  BY <1>1, <1>2, <1>3 DEF Units
<1> QED
  BY <1>1, <1>4, LessTraffic DEF ClientStates

-----------------------------------------------------------------------------
(***************************************************************************)
(* The traffic of all clients.                                             *)
(***************************************************************************)
TrafficOf(c) ==
  Traffic(NUM_IT[c], answers[c], requests[c], worker[c], client[c], left[c])

Flow ==
  /\ answers \in [Clients -> Nat] /\ requests \in [Clients -> Nat]
  /\ client \in [Clients -> ClientStates] /\ left \in [Clients -> Nat]
  /\ reset \subseteq Clients
  /\ \A c \in Clients : TrafficOf(c)

\* A step that touches the connection of one client.
LEMMA OneFlow ==
  ASSUME Flow, NEW c \in Clients, reset' \subseteq Clients, TrafficOf(c)',
         answers' = [d \in Clients |-> answers'[d]],
         requests' = [d \in Clients |-> requests'[d]],
         client' = [d \in Clients |-> client'[d]],
         left' = [d \in Clients |-> left'[d]],
         \A d \in Clients \ {c} :
           /\ answers'[d] = answers[d] /\ requests'[d] = requests[d]
           /\ client'[d] = client[d] /\ left'[d] = left[d]
           /\ worker'[d] = worker[d]
  PROVE  Flow'
<1>1. ASSUME NEW d \in Clients PROVE TrafficOf(d)'
  <2>1. CASE d = c
    BY <2>1
  <2>2. CASE d # c
    BY <2>2 DEF Flow, TrafficOf
  <2> QED
    BY <2>1, <2>2
<1>2. \A d \in Clients : /\ answers'[d] \in Nat /\ requests'[d] \in Nat
                         /\ client'[d] \in ClientStates /\ left'[d] \in Nat
  BY <1>1, ServerAssumption DEF TrafficOf, Traffic
<1>3. answers' \in [Clients -> Nat] /\ requests' \in [Clients -> Nat]
  BY <1>2
<1>4. client' \in [Clients -> ClientStates] /\ left' \in [Clients -> Nat]
  BY <1>2
<1> QED
  BY <1>1, <1>3, <1>4 DEF Flow

\* A step of main leaves the connections alone.
LEMMA WorkersFlow ==
  ASSUME Flow, UNCHANGED <<answers, requests, client, left, reset>>,
         \A c \in Clients : worker'[c] # "writing" \/ worker'[c] = worker[c]
  PROVE  Flow'
<1>1. ASSUME NEW c \in Clients PROVE TrafficOf(c)'
  <2>1. NUM_IT[c] \in Nat
    BY ServerAssumption
  <2>2. Traffic(NUM_IT[c], answers[c], requests[c], worker'[c], client[c], left[c])
    BY <2>1, WorkerTraffic DEF Flow, TrafficOf
  <2> QED
    BY <2>2 DEF TrafficOf
<1> QED
  BY <1>1 DEF Flow

\* At first all rounds are to come.
LEMMA InitFlow == Init => Flow
<1> SUFFICES ASSUME Init PROVE Flow
  OBVIOUS
<1>1. /\ answers = [c \in Clients |-> 0] /\ requests = [c \in Clients |-> 0]
      /\ client = [c \in Clients |-> "new"] /\ left = NUM_IT
      /\ worker = [c \in Clients |-> "none"] /\ reset = {}
  BY DEF Init
<1>2. ASSUME NEW k \in Nat PROVE Traffic(k, 0, 0, "none", "new", k)
  <2>1. Units(0, "none", "new", k) = Cap(k)
    BY ServerAssumption DEF Units, Todo, Cap
  <2>2. Cap(k) \in Nat /\ Cap(k) * CARACOLA \in Nat
    BY Product, ServerAssumption DEF Cap
  <2> QED
    BY <2>1, <2>2 DEF Traffic, ClientStates
<1>3. ASSUME NEW c \in Clients PROVE TrafficOf(c)
  <2>1. NUM_IT[c] \in Nat
    BY ServerAssumption
  <2>2. Traffic(NUM_IT[c], 0, 0, "none", "new", NUM_IT[c])
    BY <1>2, <2>1
  <2> QED
    BY <1>1, <2>2 DEF TrafficOf
<1> QED
  BY <1>1, <1>3, ServerAssumption DEF Flow, ClientStates

\* main and the ends of workers leave the connections alone, and make nobody write.
LEMMA MainWorkers ==
  ASSUME Control,
         \/ ServerLoop \/ waitpid \/ acceptNewConnections \/ doServiceFork
         \/ load \/ store \/ threadedServerLoop \/ func_sigchild
         \/ \E c \in Clients : endService(c) \/ doServicePipe(c) \/ doServiceAbort(c)
  PROVE  /\ UNCHANGED <<answers, requests, client, left, reset>>
         /\ \A c \in Clients : worker'[c] # "writing" \/ worker'[c] = worker[c]
<1>1. UNCHANGED <<answers, requests, client, left, reset>>
  BY DEF ServerLoop, waitpid, acceptNewConnections, doServiceFork, load, store,
         threadedServerLoop, func_sigchild, endService, doServicePipe, doServiceAbort,
         KilledBySignal, WorkerEnds, exit_1, clientVars, wire
<1>2. \/ worker' = worker
      \/ \E c : worker' = [worker EXCEPT ![c] = "reading"]
      \/ \E c : worker' = [worker EXCEPT ![c] = "ended"]
      \/ \E c : worker' = [worker EXCEPT ![c] = "reaped"]
      \/ \E S \in SUBSET Clients :
           worker' = [c \in Clients |-> IF c \in S THEN "killed" ELSE worker[c]]
  <2>1. CASE ServerLoop \/ load \/ store \/ func_sigchild
    BY <2>1 DEF ServerLoop, load, store, func_sigchild
  <2>2. CASE waitpid
    BY <2>2 DEF waitpid
  <2>3. CASE exit_1
    <3>1. {c \in Clients : scheme = Threaded /\ c \in Serving} \in SUBSET Clients
      OBVIOUS
    <3>2. worker' = [c \in Clients |->
            IF c \in {d \in Clients : scheme = Threaded /\ d \in Serving}
              THEN "killed" ELSE worker[c]]
      BY <2>3 DEF exit_1
    <3> QED
      BY <3>1, <3>2
  <2>4. CASE (acceptNewConnections \/ doServiceFork \/ threadedServerLoop) /\ ~exit_1
    BY <2>4 DEF acceptNewConnections, doServiceFork, threadedServerLoop
  <2>5. ASSUME NEW c \in Clients, WorkerEnds(c)
        PROVE  \/ worker' = [worker EXCEPT ![c] = "ended"]
               \/ worker' = [worker EXCEPT ![c] = "reaped"]
    BY <2>5 DEF WorkerEnds
  <2>6. CASE \E c \in Clients : endService(c) \/ doServicePipe(c) \/ doServiceAbort(c)
    <3>1. PICK c \in Clients : endService(c) \/ doServicePipe(c) \/ doServiceAbort(c)
      BY <2>6
    <3>2. CASE WorkerEnds(c)
      BY <2>5, <3>2
    <3>3. CASE ~WorkerEnds(c)
      <4>1. worker' = [d \in Clients |-> IF d \in Serving THEN "killed" ELSE worker[d]]
        BY <3>1, <3>3 DEF endService, doServicePipe, doServiceAbort, KilledBySignal
      <4>2. Serving \in SUBSET Clients
        BY DEF Serving
      <4> QED
        BY <4>1, <4>2
    <3> QED
      BY <3>2, <3>3
  <2> QED
    BY <2>1, <2>2, <2>3, <2>4, <2>6
<1>3. worker \in [Clients -> Workers]
  BY DEF Control, ControlTypes
<1>4. \A c \in Clients : worker'[c] # "writing" \/ worker'[c] = worker[c]
  BY <1>2, <1>3
<1> QED
  BY <1>1, <1>4

\* The same steps keep the traffic in bounds.
LEMMA MainFlow ==
  ASSUME Control, Flow,
         \/ ServerLoop \/ waitpid \/ acceptNewConnections \/ doServiceFork
         \/ load \/ store \/ threadedServerLoop \/ func_sigchild
         \/ \E c \in Clients : endService(c) \/ doServicePipe(c) \/ doServiceAbort(c)
  PROVE  Flow'
  BY MainWorkers, WorkersFlow

\* doService and a client's calls.
LEMMA CallFlow ==
  ASSUME Control, Flow, NEW c \in Clients,
         \/ doServiceRead(c) \/ doServiceWrite(c) \/ clientConnection(c)
         \/ clientWrite(c) \/ clientRead(c) \/ deleteSocket(c) \/ clientAbort(c)
         \/ clientError(c)
  PROVE  Flow'
<1>1. TrafficOf(c) /\ answers[c] \in Nat /\ NUM_IT[c] \in Nat
  BY ServerAssumption DEF Flow
<1>2. worker \in [Clients -> Workers]
  BY DEF Control, ControlTypes
<1> USE DEF TrafficOf, Flow
<1>3. CASE doServiceRead(c)
  <2>1. PICK n \in 1 .. requests[c] : requests' = [requests EXCEPT ![c] = @ - n]
    BY <1>3 DEF doServiceRead
  <2>2. worker[c] = "reading" /\ worker' = [worker EXCEPT ![c] = "writing"]
        /\ UNCHANGED <<answers, client, left, reset>>
    BY <1>3 DEF doServiceRead, clientVars
  <2>3. Traffic(NUM_IT[c], answers[c], requests[c] - n, "writing", client[c], left[c])
    BY <1>1, <2>1, <2>2, ServiceTraffic
  <2>4. TrafficOf(c)'
    BY <1>2, <2>1, <2>2, <2>3
  <2> QED
    BY <1>2, <2>1, <2>2, <2>4, OneFlow
<1>4. CASE doServiceWrite(c)
  <2>1. /\ worker[c] = "writing" /\ worker' = [worker EXCEPT ![c] = "reading"]
        /\ UNCHANGED <<requests, client, left>>
    BY <1>4 DEF doServiceWrite, clientVars
  <2>2. CASE client[c] \in {"closed", "failed"}
    <3>1. reset' = reset \cup {c} /\ answers' = answers
      BY <1>4, <2>2 DEF doServiceWrite
    <3>2. Traffic(NUM_IT[c], answers[c], requests[c], "reading", client[c], left[c])
      BY <1>1, WorkerTraffic
    <3>3. TrafficOf(c)'
      BY <1>2, <2>1, <3>1, <3>2
    <3> QED
      BY <1>2, <2>1, <3>1, <3>3, OneFlow
  <2>3. CASE client[c] \notin {"closed", "failed"}
    <3>1. reset' = reset /\ answers' = [answers EXCEPT ![c] = @ + CARACOLA]
      BY <1>4, <2>3 DEF doServiceWrite
    <3>2. Traffic(NUM_IT[c], answers[c] + CARACOLA, requests[c], "reading",
                  client[c], left[c])
      BY <1>1, <2>1, ServiceTraffic
    <3>3. TrafficOf(c)'
      BY <1>2, <2>1, <3>1, <3>2
    <3> QED
      BY <1>2, <2>1, <3>1, <3>3, OneFlow
  <2> QED
    BY <2>2, <2>3
<1>5. CASE clientConnection(c)
  <2>1. /\ client[c] = "new" /\ client' = [client EXCEPT ![c] = "open"]
        /\ UNCHANGED <<worker, left, requests, answers, reset>>
    BY <1>5 DEF clientConnection, wire
  <2>2. Traffic(NUM_IT[c], answers[c], requests[c], worker[c], "open", left[c])
    BY <1>1, <2>1, ClientTraffic
  <2>3. TrafficOf(c)'
    BY <2>1, <2>2
  <2> QED
    BY <2>1, <2>3, OneFlow
<1>6. CASE clientWrite(c)
  <2>1. /\ client[c] = "open" /\ left[c] > 0 /\ client' = [client EXCEPT ![c] = "reading"]
        /\ requests' = [requests EXCEPT ![c] = @ + HOLA]
        /\ UNCHANGED <<worker, left, answers, reset>>
    BY <1>6 DEF clientWrite
  <2>2. Traffic(NUM_IT[c], answers[c], requests[c] + HOLA, worker[c], "reading", left[c])
    BY <1>1, <2>1, ClientTraffic
  <2>3. TrafficOf(c)'
    BY <2>1, <2>2
  <2> QED
    BY <2>1, <2>3, OneFlow
<1>7. CASE clientRead(c)
  <2>1. /\ client[c] = "reading" /\ client' = [client EXCEPT ![c] = "open"]
        /\ left' = [left EXCEPT ![c] = @ - 1]
        /\ UNCHANGED <<worker, requests, reset>>
    BY <1>7 DEF clientRead
  <2>2. PICK b \in 0 .. answers[c] : answers' = [answers EXCEPT ![c] = b]
    <3>1. CASE answers' = answers
      <4>1. answers' = [answers EXCEPT ![c] = answers[c]]
        BY <3>1
      <4>2. answers[c] \in 0 .. answers[c]
        BY <1>1
      <4> QED
        BY <4>1, <4>2
    <3>2. CASE \E n \in 1 .. answers[c] : answers' = [answers EXCEPT ![c] = @ - n]
      <4>1. PICK n \in 1 .. answers[c] : answers' = [answers EXCEPT ![c] = @ - n]
        BY <3>2
      <4>2. answers[c] - n \in 0 .. answers[c]
        BY <1>1
      <4>3. answers' = [answers EXCEPT ![c] = answers[c] - n]
        BY <4>1
      <4> QED
        BY <4>2, <4>3
    <3> QED
      BY <1>7, <3>1, <3>2 DEF clientRead
  <2>3. Traffic(NUM_IT[c], b, requests[c], worker[c], "open", left[c] - 1)
    BY <1>1, <2>1, ClientTraffic
  <2>4. TrafficOf(c)'
    BY <2>1, <2>2, <2>3
  <2> QED
    BY <2>1, <2>2, <2>4, OneFlow
<1>8. CASE deleteSocket(c)
  <2>1. /\ client[c] = "open" /\ left[c] = 0 /\ client' = [client EXCEPT ![c] = "closed"]
        /\ reset' \subseteq Clients /\ answers' = [answers EXCEPT ![c] = 0]
        /\ UNCHANGED <<worker, left, requests>>
    BY <1>8 DEF deleteSocket, Close, Flow
  <2>2. Traffic(NUM_IT[c], 0, requests[c], worker[c], "closed", left[c])
    BY <1>1, <2>1, ClientTraffic
  <2>3. TrafficOf(c)'
    BY <2>1, <2>2
  <2> QED
    BY <2>1, <2>3, OneFlow
<1>9. CASE clientError(c)
  <2>1. /\ client' = [client EXCEPT ![c] = "failed"]
        /\ UNCHANGED <<worker, left, requests, answers, reset>>
    BY <1>9 DEF clientError, wire
  <2>2. answers[c] \in 0 .. answers[c]
    BY <1>1
  <2>3. Traffic(NUM_IT[c], answers[c], requests[c], worker[c], "failed", left[c])
    BY <1>1, <2>2, FailedTraffic
  <2>4. TrafficOf(c)'
    BY <2>1, <2>3
  <2> QED
    BY <2>1, <2>4, OneFlow
<1>10. CASE clientAbort(c)
  <2>1. /\ client' = [client EXCEPT ![c] = "failed"]
        /\ reset' \subseteq Clients /\ answers' = [answers EXCEPT ![c] = 0]
        /\ UNCHANGED <<worker, left, requests>>
    BY <1>10 DEF clientAbort, Close, Flow
  <2>2. 0 \in 0 .. answers[c]
    BY <1>1
  <2>3. Traffic(NUM_IT[c], 0, requests[c], worker[c], "failed", left[c])
    BY <1>1, <2>2, FailedTraffic
  <2>4. TrafficOf(c)'
    BY <2>1, <2>3
  <2> QED
    BY <2>1, <2>4, OneFlow
<1> QED
  BY <1>3, <1>4, <1>5, <1>6, <1>7, <1>8, <1>9, <1>10

\* Every step keeps the traffic of every client in bounds.
LEMMA NextFlow == Control /\ Flow /\ [Next]_vars => Flow'
<1> SUFFICES ASSUME Control, Flow, [Next]_vars PROVE Flow'
  OBVIOUS
<1>1. CASE UNCHANGED vars
  BY <1>1, WorkersFlow DEF vars, clientVars, wire
<1>2. CASE Next
  BY <1>2, MainFlow, CallFlow DEF Next
<1> QED
  BY <1>1, <1>2

-----------------------------------------------------------------------------
(***************************************************************************)
(* The buffers.                                                            *)
(***************************************************************************)
Buffers ==
  /\ smashed \subseteq {"worker", "client"} \X Clients
  /\ partial \subseteq Clients

\* No buffer has been overrun yet.
LEMMA InitBuffers == Init => Buffers
  BY DEF Init, Buffers

\* Only reads touch the buffers.
LEMMA OtherBuffers ==
  ASSUME [Next]_vars, \A c \in Clients : ~doServiceRead(c) /\ ~clientRead(c)
  PROVE  UNCHANGED <<smashed, partial>>
<1>1. CASE UNCHANGED vars
  BY <1>1 DEF vars, buffs
<1>2. CASE \/ ServerLoop \/ waitpid \/ acceptNewConnections \/ doServiceFork
           \/ load \/ store \/ threadedServerLoop \/ func_sigchild
  BY <1>2 DEF ServerLoop, waitpid, acceptNewConnections, doServiceFork, load, store,
              threadedServerLoop, func_sigchild, exit_1, buffs
<1>3. ASSUME NEW c \in Clients,
             \/ doServiceWrite(c) \/ endService(c) \/ doServicePipe(c)
             \/ doServiceAbort(c)
      PROVE  UNCHANGED <<smashed, partial>>
  BY <1>3 DEF doServiceWrite, endService, doServicePipe, doServiceAbort,
              KilledBySignal, WorkerEnds, buffs
<1>4. ASSUME NEW c \in Clients,
             \/ clientConnection(c) \/ clientWrite(c) \/ deleteSocket(c)
             \/ clientAbort(c) \/ clientError(c)
      PROVE  UNCHANGED <<smashed, partial>>
  BY <1>4 DEF clientConnection, clientWrite, deleteSocket, clientAbort, Close,
              clientError, buffs
<1> QED
  BY <1>1, <1>2, <1>3, <1>4 DEF Next

\* A read marks its own end and its own connection.
LEMMA NextBuffers == Buffers /\ [Next]_vars => Buffers'
<1> SUFFICES ASSUME Buffers, [Next]_vars PROVE Buffers'
  OBVIOUS
<1>1. ASSUME NEW c \in Clients, NEW e \in {"worker", "client"}, NEW n, NEW m,
             Reads(e, c, n, m)
      PROVE  Buffers'
  BY <1>1 DEF Reads, Buffers
<1>2. ASSUME NEW c \in Clients, doServiceRead(c) PROVE Buffers'
  BY <1>1, <1>2 DEF doServiceRead
<1>3. ASSUME NEW c \in Clients, clientRead(c) PROVE Buffers'
  <2>1. CASE UNCHANGED buffs
    BY <2>1 DEF buffs, Buffers
  <2> QED
    BY <1>1, <1>3, <2>1 DEF clientRead
<1>4. CASE UNCHANGED <<smashed, partial>>
  BY <1>4 DEF Buffers
<1> QED
  BY <1>2, <1>3, <1>4, OtherBuffers

(***************************************************************************)
(* Every variable keeps its type, which bounds the bytes on the way: reads *)
(* that split and join messages never make the server answer more than the *)
(* units its clients have sent, so that a connection never holds more than *)
(* the answers to all requests of one client.                              *)
(***************************************************************************)
THEOREM ServerTypeCorrect == Spec => []TypeOK
<1>1. Control /\ Flow /\ Buffers => TypeOK
  <2> SUFFICES ASSUME Control, Flow, Buffers PROVE TypeOK
    OBVIOUS
  <2>1. ASSUME NEW c \in Clients
        PROVE  /\ left[c] <= NUM_IT[c] /\ requests[c] <= NUM_IT[c] * HOLA
               /\ answers[c] <= NUM_IT[c] * HOLA * CARACOLA
    <3> DEFINE k == NUM_IT[c]
               u == Units(requests[c], worker[c], client[c], left[c])
    <3>1. Traffic(k, answers[c], requests[c], worker[c], client[c], left[c])
      BY DEF Flow, TrafficOf
    <3>2. k \in Nat
      BY ServerAssumption
    <3> HIDE DEF k
    <3>3. HOLA * Todo(client[c], left[c]) \in Nat /\ u \in Nat /\ left[c] \in 0 .. k
      BY <3>1, <3>2, UnitsType, Product, ServerAssumption DEF Traffic
    <3>4. requests[c] \in Nat /\ answers[c] \in Nat /\ requests[c] <= u
      BY <3>1, <3>3 DEF Traffic, Units
    <3>5. u <= Cap(k) /\ answers[c] + u * CARACOLA <= Cap(k) * CARACOLA
      BY <3>1 DEF Traffic
    <3>6. u * CARACOLA \in Nat /\ Cap(k) \in Nat /\ Cap(k) * CARACOLA \in Nat
      BY <3>2, <3>3, Product, ServerAssumption DEF Cap
    <3> HIDE DEF u
    <3>7. left[c] <= k /\ requests[c] <= Cap(k) /\ answers[c] <= Cap(k) * CARACOLA
      BY <3>2, <3>3, <3>4, <3>5, <3>6
    <3> QED
      BY <3>7 DEF Cap, k
  <2> QED
    BY <2>1 DEF TypeOK, Control, ControlTypes, Flow, Buffers, PCs, Workers, ClientStates
<1> QED
  BY <1>1, SpecControl, InitFlow, NextFlow, InitBuffers, NextBuffers, PTL DEF Spec

-----------------------------------------------------------------------------
(***************************************************************************)
(* The rounds of a client and the answers to its reads.                    *)
(***************************************************************************)
\* A request is on the way, or its worker has it, or its answer is on the way.
InStep(c) ==
  /\ client[c] # "reading" =>
       requests[c] = 0 /\ answers[c] = 0 /\ worker[c] # "writing"
  /\ client[c] = "reading" =>
       /\ requests[c] \in {0, HOLA}
       /\ requests[c] = HOLA => worker[c] # "writing" /\ answers[c] = 0
       /\ worker[c] = "writing" => answers[c] = 0

\* With the server gone a client may write without an answer, but nobody reads it.
InSync(c) ==
  /\ ~Smashed(c) /\ answers[c] \in {0, CARACOLA}
  /\ ServerGone \/ InStep(c)

Sync == \A c \in Clients : c \in partial \/ InSync(c)

\* The initial states have no rounds yet.
LEMMA InitSync == Init => Sync
<1> SUFFICES ASSUME Init, NEW c \in Clients PROVE InSync(c)
  BY DEF Sync
<1>1. smashed = {} /\ answers[c] = 0 /\ requests[c] = 0 /\ client[c] = "new"
      /\ worker[c] = "none"
  BY DEF Init
<1> QED
  BY <1>1 DEF InSync, InStep, Smashed

\* A server that is gone does not come back.
LEMMA GoneStays ==
  ASSUME Control, ServerGone, [Next]_vars
  PROVE  ServerGone'
<1>1. pc = "exited" /\ Serving = {}
  BY DEF ServerGone
<1>2. \A c \in Clients : worker[c] \notin {"reading", "writing"}
  BY <1>1 DEF Serving
<1>3. pc' = pc /\ worker' = worker
  <2>1. CASE UNCHANGED vars
    BY <2>1 DEF vars
  <2>2. CASE \/ ServerLoop \/ waitpid \/ acceptNewConnections \/ doServiceFork
             \/ load \/ store \/ threadedServerLoop \/ func_sigchild
    BY <1>1, <2>2 DEF ServerLoop, waitpid, acceptNewConnections, doServiceFork, load,
                      store, threadedServerLoop, func_sigchild
  <2>3. ASSUME NEW c \in Clients,
               \/ doServiceRead(c) \/ doServiceWrite(c) \/ endService(c)
               \/ doServicePipe(c) \/ doServiceAbort(c)
        PROVE  FALSE
    BY <1>1, <1>2, <2>3
       DEF doServiceRead, doServiceWrite, endService, doServicePipe, doServiceAbort
  <2>4. ASSUME NEW c \in Clients,
               \/ clientConnection(c) \/ clientWrite(c) \/ clientRead(c)
               \/ deleteSocket(c) \/ clientAbort(c) \/ clientError(c)
        PROVE  pc' = pc /\ worker' = worker
    BY <2>4 DEF clientConnection, clientWrite, clientRead, deleteSocket, clientAbort,
                Close, clientError
  <2> QED
    BY <2>1, <2>2, <2>3, <2>4 DEF Next
<1> QED
  BY <1>1, <1>3 DEF ServerGone, Serving

\* A step that leaves the connection of d alone, or ends its worker.
LEMMA KeepSync ==
  ASSUME Control, [Next]_vars, NEW d \in Clients, InSync(d),
         answers'[d] = answers[d], requests'[d] = requests[d],
         client'[d] = client[d], worker'[d] # "writing" \/ worker'[d] = worker[d],
         Smashed(d)' => Smashed(d)
  PROVE  InSync(d)'
<1>1. ServerGone => ServerGone'
  BY GoneStays
<1>2. InStep(d) => InStep(d)'
  BY DEF InStep
<1> QED
  BY <1>1, <1>2 DEF InSync

\* A read that leaves nothing behind takes one message, which the buffers hold.
LEMMA WholeRead ==
  ASSUME NEW c \in Clients, NEW e \in {"worker", "client"}, NEW n \in Nat, NEW m \in Nat,
         n \in 1 .. m, Reads(e, c, n, m), c \notin partial', m <= LINE
  PROVE  n = m /\ smashed' = smashed
<1>1. n = m
  BY DEF Reads
<1>2. ~Overruns(n)
  BY <1>1, ServerAssumption DEF Overruns
<1> QED
  BY <1>1, <1>2 DEF Reads

\* The calls on one connection do not touch the others.
LEMMA OthersSync ==
  ASSUME Control, Flow, Buffers, [Next]_vars, NEW c \in Clients,
         \/ doServiceRead(c) \/ doServiceWrite(c) \/ clientConnection(c)
         \/ clientWrite(c) \/ clientRead(c) \/ deleteSocket(c) \/ clientAbort(c)
         \/ clientError(c),
         NEW d \in Clients, d # c, InSync(d)
  PROVE  InSync(d)'
<1>1. worker \in [Clients -> Workers]
  BY DEF Control, ControlTypes
<1>2. /\ answers'[d] = answers[d] /\ requests'[d] = requests[d]
      /\ client'[d] = client[d] /\ worker'[d] = worker[d]
  <2>1. CASE doServiceRead(c) \/ doServiceWrite(c)
    BY <1>1, <2>1 DEF doServiceRead, doServiceWrite, clientVars, Flow
  <2>2. CASE clientConnection(c) \/ clientWrite(c) \/ clientError(c)
    BY <2>2 DEF clientConnection, clientWrite, clientError, wire, Flow
  <2>3. CASE clientRead(c)
    BY <2>3 DEF clientRead, Flow
  <2>4. CASE deleteSocket(c) \/ clientAbort(c)
    BY <2>4 DEF deleteSocket, clientAbort, Close, Flow
  <2> QED
    BY <2>1, <2>2, <2>3, <2>4
<1>3. smashed' \subseteq smashed \cup {<<"worker", c>>, <<"client", c>>}
  <2>1. CASE UNCHANGED <<smashed, partial>>
    BY <2>1
  <2>2. CASE doServiceRead(c)
    BY <2>2 DEF doServiceRead, Reads
  <2>3. CASE clientRead(c)
    BY <2>3 DEF clientRead, Reads, buffs
  <2>4. CASE doServiceWrite(c)
    BY <2>4 DEF doServiceWrite, buffs
  <2>5. CASE \/ clientConnection(c) \/ clientWrite(c) \/ deleteSocket(c)
             \/ clientAbort(c) \/ clientError(c)
    BY <2>5 DEF clientConnection, clientWrite, deleteSocket, clientAbort, Close,
                clientError, buffs
  <2> QED
    BY <2>1, <2>2, <2>3, <2>4, <2>5
<1>4. Smashed(d)' => Smashed(d)
  BY <1>3 DEF Smashed
<1> QED
  BY <1>2, <1>4, KeepSync

\* A worker reads a request and answers it.
LEMMA WorkSync ==
  ASSUME Control, Flow, NEW c \in Clients, doServiceRead(c) \/ doServiceWrite(c),
         InSync(c), c \notin partial'
  PROVE  InSync(c)'
<1>1. worker \in [Clients -> Workers] /\ requests[c] \in Nat
  BY DEF Control, ControlTypes, Flow
<1>2. ~ServerGone /\ InStep(c)
  BY DEF doServiceRead, doServiceWrite, ServerGone, Serving, InSync
<1>3. HOLA \in Nat /\ HOLA > 0 /\ HOLA <= LINE /\ 0 <= LINE
  BY ServerAssumption
<1>4. CASE doServiceRead(c)
  <2>1. /\ worker[c] = "reading" /\ worker' = [worker EXCEPT ![c] = "writing"]
        /\ UNCHANGED <<answers, client>>
    BY <1>4 DEF doServiceRead, clientVars
  <2>2. PICK n \in 1 .. requests[c] :
          /\ Reads("worker", c, n, requests[c])
          /\ requests' = [requests EXCEPT ![c] = @ - n]
    BY <1>4 DEF doServiceRead
  <2>3. client[c] = "reading" /\ requests[c] = HOLA /\ answers[c] = 0
    BY <1>1, <1>2, <2>2 DEF InStep
  <2>4. n = requests[c] /\ smashed' = smashed
    BY <1>1, <1>3, <2>2, <2>3, WholeRead
  <2>5. requests'[c] = 0 /\ worker'[c] = "writing"
    BY <1>1, <2>1, <2>2, <2>4 DEF Flow
  <2>6. InStep(c)'
    BY <1>3, <2>1, <2>3, <2>5 DEF InStep
  <2> QED
    BY <2>1, <2>3, <2>4, <2>6 DEF InSync, Smashed
<1>5. CASE doServiceWrite(c)
  <2>1. /\ worker[c] = "writing" /\ worker' = [worker EXCEPT ![c] = "reading"]
        /\ UNCHANGED <<requests, client, smashed>>
    BY <1>5 DEF doServiceWrite, clientVars, buffs
  <2>2. client[c] = "reading" /\ requests[c] = 0 /\ answers[c] = 0
    BY <1>2, <2>1 DEF InStep
  <2>3. answers' = [answers EXCEPT ![c] = @ + CARACOLA]
    BY <1>5, <2>2 DEF doServiceWrite
  <2>4. answers'[c] = CARACOLA /\ worker'[c] = "reading"
    BY <1>1, <2>1, <2>2, <2>3, ServerAssumption DEF Flow
  <2>5. InStep(c)'
    BY <1>3, <2>1, <2>2, <2>4 DEF InStep
  <2> QED
    BY <2>1, <2>4, <2>5 DEF InSync, Smashed
<1> QED
  BY <1>4, <1>5

\* A client writes, reads, ends or fails.
LEMMA ClientSync ==
  ASSUME Control, Flow, [Next]_vars, NEW c \in Clients,
         \/ clientConnection(c) \/ clientWrite(c) \/ clientRead(c)
         \/ deleteSocket(c) \/ clientAbort(c) \/ clientError(c),
         InSync(c), c \notin partial'
  PROVE  InSync(c)'
<1>1. answers[c] \in Nat /\ requests[c] \in Nat /\ (ServerGone => ServerGone')
  BY GoneStays DEF Flow
<1>2. /\ HOLA \in Nat /\ HOLA > 0
      /\ CARACOLA \in Nat /\ CARACOLA > 0 /\ CARACOLA <= LINE
  BY ServerAssumption
<1>3. CASE clientConnection(c)
  <2>1. /\ client[c] = "new" /\ client'[c] = "open"
        /\ UNCHANGED <<worker, requests, answers, smashed>>
    BY <1>3 DEF clientConnection, wire, buffs, Flow
  <2> QED
    BY <1>1, <2>1 DEF InSync, InStep, Smashed
<1>4. CASE clientWrite(c)
  <2>1. /\ client[c] = "open" /\ client'[c] = "reading"
        /\ requests'[c] = requests[c] + HOLA
        /\ UNCHANGED <<worker, answers, smashed>>
    BY <1>4 DEF clientWrite, buffs, Flow
  <2>2. InStep(c) => InStep(c)'
    BY <1>2, <2>1 DEF InStep
  <2> QED
    BY <1>1, <2>1, <2>2 DEF InSync, Smashed
<1>5. CASE clientRead(c)
  <2>1. /\ client[c] = "reading" /\ client'[c] = "open"
        /\ UNCHANGED <<worker, requests>>
    BY <1>5 DEF clientRead, Flow
  <2>2. CASE answers[c] = 0 /\ ServerGone /\ UNCHANGED <<answers, buffs>>
    BY <1>1, <2>2 DEF InSync, Smashed, buffs
  <2>3. CASE \E n \in 1 .. answers[c] : /\ Reads("client", c, n, answers[c])
                                         /\ answers' = [answers EXCEPT ![c] = @ - n]
    <3>1. PICK n \in 1 .. answers[c] : /\ Reads("client", c, n, answers[c])
                                       /\ answers' = [answers EXCEPT ![c] = @ - n]
      BY <2>3
    <3>2. answers[c] = CARACOLA
      BY <1>1, <3>1 DEF InSync
    <3>3. n = answers[c] /\ smashed' = smashed
      BY <1>1, <1>2, <3>1, <3>2, WholeRead
    <3>4. answers'[c] = 0
      BY <1>1, <3>1, <3>3 DEF Flow
    <3>5. InStep(c) => InStep(c)'
      BY <1>2, <2>1, <3>2, <3>4 DEF InStep
    <3> QED
      BY <1>1, <3>3, <3>4, <3>5 DEF InSync, Smashed
  <2> QED
    BY <1>5, <2>2, <2>3 DEF clientRead
<1>6. CASE deleteSocket(c)
  <2>1. /\ client[c] = "open" /\ client'[c] = "closed" /\ answers'[c] = 0
        /\ UNCHANGED <<worker, requests, smashed>>
    BY <1>6 DEF deleteSocket, Close, buffs, Flow
  <2> QED
    BY <1>1, <2>1 DEF InSync, InStep, Smashed
<1>7. CASE clientAbort(c)
  BY <1>7 DEF clientAbort, InSync, Smashed
<1>8. CASE clientError(c)
  <2>1. ServerGone /\ UNCHANGED <<answers, smashed>>
    BY <1>8 DEF clientError, wire, buffs
  <2> QED
    BY <1>1, <2>1 DEF InSync, Smashed
<1> QED
  BY <1>3, <1>4, <1>5, <1>6, <1>7, <1>8

\* Every step of server and clients.
LEMMA NextSync == Control /\ Flow /\ Buffers /\ Sync /\ [Next]_vars => Sync'
<1> SUFFICES ASSUME Control, Flow, Buffers, Sync, [Next]_vars,
                    NEW d \in Clients, d \notin partial'
             PROVE  InSync(d)'
  BY DEF Sync
<1>1. partial \subseteq partial'
  <2>1. ASSUME NEW c \in Clients, doServiceRead(c) PROVE partial \subseteq partial'
    BY <2>1 DEF doServiceRead, Reads
  <2>2. ASSUME NEW c \in Clients, clientRead(c) PROVE partial \subseteq partial'
    BY <2>2 DEF clientRead, Reads, buffs
  <2>3. CASE UNCHANGED <<smashed, partial>>
    BY <2>3
  <2> QED
    BY <2>1, <2>2, <2>3, OtherBuffers
<1>2. InSync(d)
  BY <1>1 DEF Sync
<1>3. CASE UNCHANGED vars
  <2>1. UNCHANGED <<answers, requests, client, worker, smashed>>
    BY <1>3 DEF vars, clientVars, wire, buffs
  <2> QED
    BY <1>2, <2>1, KeepSync DEF Smashed
<1>4. CASE \/ ServerLoop \/ waitpid \/ acceptNewConnections \/ doServiceFork
           \/ load \/ store \/ threadedServerLoop \/ func_sigchild
           \/ \E c \in Clients : endService(c) \/ doServicePipe(c) \/ doServiceAbort(c)
  <2>1. /\ UNCHANGED <<answers, requests, client>>
        /\ worker'[d] # "writing" \/ worker'[d] = worker[d]
    BY <1>4, MainWorkers
  <2>2. smashed' = smashed
    BY <1>4 DEF ServerLoop, waitpid, acceptNewConnections, doServiceFork, load, store,
                threadedServerLoop, func_sigchild, exit_1, endService, doServicePipe,
                doServiceAbort, KilledBySignal, WorkerEnds, buffs
  <2> QED
    BY <1>2, <2>1, <2>2, KeepSync DEF Smashed
<1>5. ASSUME NEW c \in Clients,
             \/ doServiceRead(c) \/ doServiceWrite(c) \/ clientConnection(c)
             \/ clientWrite(c) \/ clientRead(c) \/ deleteSocket(c) \/ clientAbort(c)
             \/ clientError(c)
      PROVE  InSync(d)'
  <2>1. CASE d # c
    BY <1>2, <1>5, <2>1, OthersSync
  <2>2. CASE d = c
    BY <1>2, <1>5, <2>2, WorkSync, ClientSync
  <2> QED
    BY <2>1, <2>2
<1> QED
  BY <1>3, <1>4, <1>5 DEF Next

(***************************************************************************)
(* For any number of clients, rounds and messages, and whatever main,      *)
(* children and signals do, neither doService nor a client writes past its *)
(* 80 bytes on a connection none of whose reads has split a message.       *)
(***************************************************************************)
THEOREM ServerOverrunNeedsSplit == Spec => []OverrunNeedsSplit
<1>1. Sync => OverrunNeedsSplit
  BY DEF Sync, InSync, OverrunNeedsSplit
<1> QED
  BY <1>1, SpecControl, InitFlow, NextFlow, InitBuffers, NextBuffers, InitSync,
     NextSync, PTL DEF Spec
=============================================================================
