---------------------------- MODULE SocketServer ----------------------------
(***************************************************************************)
(* The server of sockets/serverSocket.c in its four schemes, with the      *)
(* clients of sockets/clientSocket.c and the connections of socketMng.c.   *)
(*                                                                         *)
(* main is cut where a signal matters: NUM_CONECTIONS++ is a load and a    *)
(* store in the build of the Makefile, and SIGCHLD may arrive in between.  *)
(* signal() installs the handler with restarted system calls, and a        *)
(* pending SIGCHLD stands for any number of children.  A worker is the     *)
(* child, the thread or main itself at work in doService for a client.     *)
(*                                                                         *)
(* Connections are reliable byte streams: a read returns some of the bytes *)
(* there are, so that it may split or join messages.  A close with bytes   *)
(* unread, or bytes sent to a closed end, reset the connection, and a      *)
(* write to it then ends the writing process by SIGPIPE.                   *)
(*                                                                         *)
(* Both ends read into a buffer and print what they read in a line of a    *)
(* second one, of the same size, that does not hold a full first one.  A   *)
(* process that has written past its end goes on or is ended by a signal,  *)
(* then or later.                                                          *)
(*                                                                         *)
(* A message is reduced to a few units of bytes; the texts printed are     *)
(* left out, but for their length.                                         *)
(***************************************************************************)
EXTENDS Integers, Sequences, FiniteSets

CONSTANTS
  Clients,       \* the client processes
  Schemes,       \* the values of the second argument
  MAX_CLIENTS,   \* the third argument (100 by default)
  NUM_IT,        \* of each client, the messages it sends: its first argument
  HOLA,          \* units a request may be split into
  CARACOLA,      \* units an answer may be split into
  SIZE_BUFF,     \* units a read takes at most                 (80 bytes)
  LINE,          \* units read whose line fits its buffer (51 to 57 bytes, by
                 \* the digits of the PID in the line)
  BACKLOG,       \* connections that wait for accept (10 in socketMng.c)
  MaxFD,         \* connections the server may have open: none is closed
  MaxWorkers     \* children not waited for, or threads not joined, that the
                 \* system allows

Sequential == 1
Unbounded  == 2
Bounded    == 3
Threaded   == 4

ASSUME ServerAssumption ==
  /\ Schemes \subseteq {Sequential, Unbounded, Bounded, Threaded}
  /\ MAX_CLIENTS \in Nat \ {0} /\ BACKLOG \in Nat \ {0}
  /\ NUM_IT \in [Clients -> Nat]
  /\ HOLA \in Nat \ {0} /\ CARACOLA \in Nat \ {0}
  /\ LINE \in Nat /\ SIZE_BUFF \in Nat /\ LINE < SIZE_BUFF
  /\ HOLA <= LINE /\ CARACOLA <= LINE
  /\ MaxFD \in Nat /\ MaxWorkers \in Nat \ {0}

VARIABLES
  scheme,           \* which loop ServerLoop points to
  pc,               \* where main of the server is
  reg,              \* the register that holds NUM_CONECTIONS for ++
  NUM_CONECTIONS,
  connectionFD,     \* local to the loop: the client whose connection it accepted
  fds,              \* connections open in the server
  sigchld,          \* SIGCHLD is pending
  worker,           \* of each client's connection
  backlog,          \* connected clients that main has not accepted
  client,           \* state of each client
  left,             \* rounds it still has to do
  requests,         \* units on the way to its worker
  answers,          \* units on the way back
  reset,            \* the connections that have been reset
  smashed,          \* the ends of connections that have overrun their buffer
  partial           \* history: connections on which a read left some bytes

mainVars   == <<reg, connectionFD, fds>>
clientVars == <<client, left>>
wire       == <<requests, answers, reset>>
buffs      == <<smashed, partial>>
vars == <<scheme, pc, mainVars, NUM_CONECTIONS, sigchld, worker, backlog,
          clientVars, wire, buffs>>

None == "none"

\* Workers in doService, before its read or between it and its write.
Serving  == {c \in Clients : worker[c] \in {"reading", "writing"}}
Unreaped == Serving \cup {c \in Clients : worker[c] = "ended"}

\* The state at the head of while (1), for the scheme of the command line.
Init ==
  /\ scheme \in Schemes
  /\ pc = "loop" /\ reg = 0 /\ NUM_CONECTIONS = 0
  /\ connectionFD = None /\ fds = 0
  /\ sigchld = FALSE
  /\ worker = [c \in Clients |-> "none"]
  /\ backlog = <<>>
  /\ client = [c \in Clients |-> "new"]
  /\ left = NUM_IT
  /\ requests = [c \in Clients |-> 0] /\ answers = [c \in Clients |-> 0]
  /\ reset = {}
  /\ smashed = {} /\ partial = {}

(***************************************************************************)
(* The server.                                                             *)
(***************************************************************************)
\* Mutant: an off-by-one in the bound.
ServerLoop_late ==
  /\ pc = "loop"
  /\ pc' = IF scheme = Bounded /\ NUM_CONECTIONS > MAX_CLIENTS
             THEN "waitpid" ELSE "accept"
  /\ UNCHANGED <<scheme, mainVars, NUM_CONECTIONS, sigchld, worker, backlog,
                 clientVars, wire, buffs>>
\* Only the bounded scheme looks at the count.
ServerLoop ==
  /\ pc = "loop"
  /\ pc' = IF scheme = Bounded /\ NUM_CONECTIONS >= MAX_CLIENTS
             THEN "waitpid" ELSE "accept"
  /\ UNCHANGED <<scheme, mainVars, NUM_CONECTIONS, sigchld, worker, backlog,
                 clientVars, wire, buffs>>

\* Mutant: main waits until the count allows another connection.
waitpid_count ==
  /\ pc = "waitpid"
  /\ NUM_CONECTIONS < MAX_CLIENTS
  /\ pc' = "accept"
  /\ UNCHANGED <<scheme, mainVars, NUM_CONECTIONS, sigchld, worker, backlog,
                 clientVars, wire, buffs>>
\* while (waitpid(-1, NULL, 0) > 0): until there is no child left, dead or alive.
waitpid ==
  /\ pc = "waitpid"
  /\ \/ /\ \E c \in Clients : /\ worker[c] = "ended"
                              /\ worker' = [worker EXCEPT ![c] = "reaped"]
        /\ UNCHANGED pc
     \/ /\ Unreaped = {}
        /\ pc' = "accept"
        /\ UNCHANGED worker
  /\ UNCHANGED <<scheme, mainVars, NUM_CONECTIONS, sigchld, backlog, clientVars,
                 wire, buffs>>

\* exit(1) of main ends its threads, not its children.
exit_1 ==
  /\ pc' = "exited"
  /\ worker' = [c \in Clients |->
       IF scheme = Threaded /\ c \in Serving THEN "killed" ELSE worker[c]]
  /\ UNCHANGED <<scheme, mainVars, NUM_CONECTIONS, sigchld, backlog, clientVars,
                 wire, buffs>>

\* What each server loop does with the connection it has accepted.
AfterAccept == CASE scheme = Sequential -> "doService"
                 [] scheme = Threaded -> "pthread_create"
                 [] OTHER -> "fork"

\* A failing accept ends the server in acceptNewConnections itself.
acceptNewConnections ==
  /\ pc = "accept"
  /\ \/ fds = MaxFD /\ exit_1
     \/ /\ fds < MaxFD
        /\ backlog # <<>>
        /\ connectionFD' = Head(backlog) /\ backlog' = Tail(backlog)
        /\ fds' = fds + 1
        /\ pc' = AfterAccept
        /\ worker' = IF scheme = Sequential
                       THEN [worker EXCEPT ![Head(backlog)] = "reading"] ELSE worker
        /\ UNCHANGED <<scheme, reg, NUM_CONECTIONS, sigchld, clientVars, wire, buffs>>

\* The parent goes on to NUM_CONECTIONS++ with the child already running.
doServiceFork ==
  /\ pc = "fork"
  /\ \/ Cardinality(Unreaped) = MaxWorkers /\ exit_1
     \/ /\ Cardinality(Unreaped) < MaxWorkers
        /\ worker' = [worker EXCEPT ![connectionFD] = "reading"]
        /\ pc' = "load"
        /\ UNCHANGED <<scheme, mainVars, NUM_CONECTIONS, sigchld, backlog,
                       clientVars, wire, buffs>>

load ==
  /\ pc = "load"
  /\ reg' = NUM_CONECTIONS
  /\ pc' = "store"
  /\ UNCHANGED <<scheme, connectionFD, fds, NUM_CONECTIONS, sigchld, worker,
                 backlog, clientVars, wire, buffs>>
store ==
  /\ pc = "store"
  /\ NUM_CONECTIONS' = reg + 1
  /\ pc' = "loop"
  /\ reg' = 0 /\ connectionFD' = None
  /\ UNCHANGED <<scheme, fds, sigchld, worker, backlog, clientVars, wire, buffs>>

threadedServerLoop ==
  /\ pc = "pthread_create"
  /\ \/ Cardinality(Unreaped) = MaxWorkers /\ exit_1
     \/ /\ Cardinality(Unreaped) < MaxWorkers
        /\ worker' = [worker EXCEPT ![connectionFD] = "reading"]
        /\ pc' = "loop" /\ connectionFD' = None
        /\ UNCHANGED <<scheme, reg, fds, NUM_CONECTIONS, sigchld, backlog,
                       clientVars, wire, buffs>>

\* Mutant: one count less for every child that has ended.
func_sigchild_each ==
  /\ sigchld /\ pc # "exited"
  /\ NUM_CONECTIONS' =
       NUM_CONECTIONS - Cardinality({c \in Clients : worker[c] = "ended"})
  /\ sigchld' = FALSE
  /\ UNCHANGED <<scheme, pc, mainVars, worker, backlog, clientVars, wire, buffs>>
\* Between any two instructions of main.
func_sigchild ==
  /\ sigchld /\ pc # "exited"
  /\ NUM_CONECTIONS' = NUM_CONECTIONS - 1
  /\ sigchld' = FALSE
  /\ UNCHANGED <<scheme, pc, mainVars, worker, backlog, clientVars, wire, buffs>>

\* Mutant: the line buffer is a byte too short.
Overruns_short(n) == n >= LINE
\* The line with n units read does not fit; buff[ret] does not either when the
\* read fills its buffer.
Overruns(n) == n > LINE

\* The end e of the connection of c reads n units of the there that have arrived.
Reads(e, c, n, there) ==
  /\ n <= SIZE_BUFF
  /\ smashed' = IF Overruns(n) THEN smashed \cup {<<e, c>>} ELSE smashed
  /\ partial' = IF n < there THEN partial \cup {c} ELSE partial

(***************************************************************************)
(* doService.  The process that runs it is a child, or main itself and its *)
(* threads.                                                                *)
(***************************************************************************)
doServiceRead(c) ==
  /\ worker[c] = "reading"
  /\ \E n \in 1 .. requests[c] : /\ Reads("worker", c, n, requests[c])
                                 /\ requests' = [requests EXCEPT ![c] = @ - n]
  /\ worker' = [worker EXCEPT ![c] = "writing"]
  /\ UNCHANGED <<scheme, pc, mainVars, NUM_CONECTIONS, sigchld, backlog,
                 clientVars, answers, reset>>

doServiceWrite(c) ==
  /\ worker[c] = "writing"
  /\ worker' = [worker EXCEPT ![c] = "reading"]
  /\ IF client[c] \in {"closed", "failed"}
       THEN reset' = reset \cup {c} /\ UNCHANGED answers
       ELSE answers' = [answers EXCEPT ![c] = @ + CARACOLA] /\ UNCHANGED reset
  /\ UNCHANGED <<scheme, pc, mainVars, NUM_CONECTIONS, sigchld, backlog,
                 clientVars, requests, buffs>>

\* The worker of c ends: a child with SIGCHLD, a thread, or main's call.
WorkerEnds(c) ==
  /\ worker' = [worker EXCEPT ![c] = IF scheme = Sequential THEN "reaped" ELSE "ended"]
  /\ IF scheme = Sequential
       THEN pc' = "loop" /\ connectionFD' = None
       ELSE UNCHANGED <<pc, connectionFD>>
  /\ sigchld' = (sigchld \/ (scheme \in {Unbounded, Bounded} /\ pc # "exited"))
  /\ UNCHANGED <<scheme, reg, fds, NUM_CONECTIONS, backlog, clientVars, wire, buffs>>

\* read has returned 0 or an error.
endService(c) ==
  /\ worker[c] = "reading"
  /\ \/ client[c] \in {"closed", "failed"} /\ requests[c] = 0
     \/ c \in reset
  /\ WorkerEnds(c)

\* A signal ends the process of the worker: the child, or main with all its
\* threads.
KilledBySignal(c) ==
  IF scheme \in {Unbounded, Bounded}
    THEN WorkerEnds(c)
    ELSE /\ pc' = "exited"
         /\ worker' = [d \in Clients |-> IF d \in Serving THEN "killed" ELSE worker[d]]
         /\ UNCHANGED <<scheme, mainVars, NUM_CONECTIONS, sigchld, backlog,
                        clientVars, wire, buffs>>

\* SIGPIPE.
doServicePipe(c) ==
  /\ worker[c] = "writing" /\ c \in reset
  /\ KilledBySignal(c)

\* What an overrun of its buffer may end in.
doServiceAbort(c) ==
  /\ c \in Serving /\ <<"worker", c>> \in smashed
  /\ KilledBySignal(c)

(***************************************************************************)
(* A client.                                                               *)
(***************************************************************************)
\* Children keep the listening socket and the connections they inherited open.
ServerGone == pc = "exited" /\ Serving = {}

clientConnection(c) ==
  /\ client[c] = "new"
  /\ ~ServerGone /\ Len(backlog) < BACKLOG
  /\ client' = [client EXCEPT ![c] = "open"]
  /\ backlog' = Append(backlog, c)
  /\ UNCHANGED <<scheme, pc, mainVars, NUM_CONECTIONS, sigchld, worker, left,
                 wire, buffs>>

\* Mutant: one round too many.
clientWrite_more(c) ==
  /\ client[c] = "open" /\ left[c] >= 0
  /\ client' = [client EXCEPT ![c] = "reading"]
  /\ requests' = [requests EXCEPT ![c] = @ + HOLA]
  /\ UNCHANGED <<scheme, pc, mainVars, NUM_CONECTIONS, sigchld, worker, backlog,
                 left, answers, reset, buffs>>
clientWrite(c) ==
  /\ client[c] = "open" /\ left[c] > 0
  /\ client' = [client EXCEPT ![c] = "reading"]
  /\ requests' = [requests EXCEPT ![c] = @ + HOLA]
  /\ UNCHANGED <<scheme, pc, mainVars, NUM_CONECTIONS, sigchld, worker, backlog,
                 left, answers, reset, buffs>>

\* Whatever part of an answer, or end of file, completes the round.
clientRead(c) ==
  /\ client[c] = "reading"
  /\ \/ \E n \in 1 .. answers[c] : /\ Reads("client", c, n, answers[c])
                                   /\ answers' = [answers EXCEPT ![c] = @ - n]
     \/ answers[c] = 0 /\ ServerGone /\ UNCHANGED <<answers, buffs>>
  /\ client' = [client EXCEPT ![c] = "open"]
  /\ left' = [left EXCEPT ![c] = @ - 1]
  /\ UNCHANGED <<scheme, pc, mainVars, NUM_CONECTIONS, sigchld, worker, backlog,
                 requests, reset>>

\* The connection is closed, by the client or with its process.
Close(c, state) ==
  /\ client' = [client EXCEPT ![c] = state]
  /\ reset' = IF answers[c] > 0 THEN reset \cup {c} ELSE reset
  /\ answers' = [answers EXCEPT ![c] = 0]
  /\ UNCHANGED <<scheme, pc, mainVars, NUM_CONECTIONS, sigchld, worker, backlog,
                 left, requests, buffs>>

deleteSocket(c) ==
  /\ client[c] = "open" /\ left[c] = 0
  /\ Close(c, "closed")

\* What an overrun of its buffer may end in.
clientAbort(c) ==
  /\ client[c] \in {"open", "reading"} /\ <<"client", c>> \in smashed
  /\ Close(c, "failed")

\* connect, write or read fails because no process of the server is left.
clientError(c) ==
  /\ \/ client[c] = "new"
     \/ client[c] = "open" /\ left[c] > 0
     \/ client[c] = "reading" /\ answers[c] = 0
  /\ ServerGone
  /\ client' = [client EXCEPT ![c] = "failed"]
  /\ UNCHANGED <<scheme, pc, mainVars, NUM_CONECTIONS, sigchld, worker, backlog,
                 left, wire, buffs>>

Main == \/ ServerLoop \/ waitpid \/ acceptNewConnections \/ doServiceFork
        \/ load \/ store \/ threadedServerLoop
Client(c) == \/ clientWrite(c) \/ clientRead(c) \/ deleteSocket(c)
             \/ client[c] # "new" /\ clientError(c)
Worker(c) == doServiceRead(c) \/ doServiceWrite(c) \/ endService(c)

Next ==
  \/ ServerLoop \/ waitpid \/ acceptNewConnections \/ doServiceFork
  \/ load \/ store \/ threadedServerLoop
  \/ func_sigchild
  \/ \E c \in Clients :
       \/ doServiceRead(c) \/ doServiceWrite(c) \/ endService(c)
       \/ doServicePipe(c) \/ doServiceAbort(c)
       \/ clientConnection(c) \/ clientWrite(c) \/ clientRead(c)
       \/ deleteSocket(c) \/ clientAbort(c) \/ clientError(c)

Spec == Init /\ [][Next]_vars

\* The processes are scheduled, and a pending signal is delivered.  Whether a
\* client is started at all is left open.
Fairness ==
  /\ WF_vars(Main) /\ WF_vars(func_sigchild)
  /\ \A c \in Clients : WF_vars(Client(c)) /\ WF_vars(Worker(c))

FairSpec == Spec /\ Fairness

-----------------------------------------------------------------------------
(***************************************************************************)
(* Properties.                                                             *)
(***************************************************************************)
\* Every variable keeps its type.
TypeOK ==
  /\ scheme \in Schemes
  /\ pc \in {"loop", "waitpid", "accept", "fork", "load", "store",
             "pthread_create", "doService", "exited"}
  /\ reg \in Int /\ NUM_CONECTIONS \in Int
  /\ connectionFD \in Clients \cup {None} /\ fds \in 0 .. MaxFD
  /\ sigchld \in BOOLEAN
  /\ worker \in [Clients -> {"none", "reading", "writing", "ended", "reaped",
                         "killed"}]
  /\ backlog \in Seq(Clients)
  /\ client \in [Clients -> {"new", "open", "reading", "closed", "failed"}]
  /\ left \in [Clients -> Nat] /\ requests \in [Clients -> Nat]
  /\ answers \in [Clients -> Nat]
  /\ \A c \in Clients : /\ left[c] <= NUM_IT[c]
                        /\ requests[c] <= NUM_IT[c] * HOLA
                        /\ answers[c] <= NUM_IT[c] * HOLA * CARACOLA
  /\ reset \subseteq Clients
  /\ smashed \subseteq {"worker", "client"} \X Clients /\ partial \subseteq Clients

AtWork(c)  == client[c] \in {"open", "reading"}
Smashed(c) == <<"worker", c>> \in smashed \/ <<"client", c>> \in smashed

\* The count may be wrong in one direction only: between two connections it is
\* never below the number of children at work.  A SIGCHLD that hits
\* NUM_CONECTIONS++ loses the decrement, not the increment, and children that
\* share one SIGCHLD are counted down once.
CountNeverLow ==
  scheme \in {Unbounded, Bounded} /\ pc \in {"loop", "waitpid", "accept", "fork"}
    => Cardinality(Serving) <= NUM_CONECTIONS

\* The bounded scheme never has more than MAX_CLIENTS children at work, however
\* wrong the count is, and the sequential one serves one client at a time.
SchemeBound ==
  /\ scheme = Bounded => Cardinality(Serving) <= MAX_CLIENTS
  /\ scheme = Sequential => Cardinality(Serving) <= 1

\* The 80 bytes of buff and buff2 are enough as long as no read splits a message:
\* the rounds of a client and the answers to its reads then keep in step, and no
\* two messages are ever joined.
OverrunNeedsSplit == \A c \in Clients : Smashed(c) => c \in partial

\* main has exited, and c has no child of the server that goes on without it.
Abandoned(c) ==
  /\ pc = "exited"
  /\ scheme \in {Sequential, Threaded} \/ worker[c] = "none"

\* A client that has connected is served to the end in every scheme, also when
\* the count has drifted up to the limit for good and when reads split or join
\* messages, so that rounds are answered by parts of earlier answers; a client
\* with a child of its own, also when main exits.  The exceptions are a client
\* one of whose ends has overrun its buffer, and one left by a server that exits
\* because it has run out of descriptors or processes or a signal has ended it.
\* It takes clients that go on: main waits for all of them at its limit.
AllServed ==
  \A c \in Clients :
    AtWork(c) ~> (client[c] = "closed" \/ Smashed(c) \/ Abandoned(c))

\* "quan un fill acaba descompta el nombre de conexions totals"
\* (serverSocket.c:197): with every signal handled the count is the number of
\* children at work.
CountExact ==
  scheme = Bounded /\ pc = "loop" /\ ~sigchld
    => NUM_CONECTIONS = Cardinality(Serving)
=============================================================================
