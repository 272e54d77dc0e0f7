----------------------------- MODULE ZeosProcess ----------------------------
(***************************************************************************)
(* What ZeOS promises to user programs, without PCBs, lists, frames or     *)
(* page tables: processes named by their PID, at most one of which runs,   *)
(* each with data of its own.  A process is created as a copy of the one   *)
(* that runs, under a PID never used before; only the process that runs    *)
(* changes its data, blocks or ends; only a blocked one is woken.          *)
(***************************************************************************)
EXTENDS Integers

CONSTANTS Pages, Values

VARIABLES
  proc,     \* PID -> [st, data], for the processes there are
  last      \* the last PID given out

pvars == <<proc, last>>

Status == {"running", "ready", "blocked"}
Pids   == DOMAIN proc
In(s)  == {p \in Pids : proc[p].st = s}

PInit ==
  /\ proc = [p \in {1} |-> [st |-> "running", data |-> [x \in Pages |-> 0]]]
  /\ last = 1

Move(p, s) == [proc EXCEPT ![p].st = s]

\* The CPU passes to a ready process of P, or to nobody.
Dispatch(P) ==
  \/ proc' = P
  \/ \E q \in DOMAIN P : /\ P[q].st = "ready"
                         /\ proc' = [P EXCEPT ![q].st = "running"]

\* The process that runs creates another, alike but for its PID.
Fork(p) ==
  /\ last' = last + 1
  /\ proc' = [q \in Pids \cup {last + 1} |->
                IF q = last + 1 THEN [st |-> "ready", data |-> proc[p].data]
                                ELSE proc[q]]

Exit(p)  == Dispatch([q \in Pids \ {p} |-> proc[q]]) /\ UNCHANGED last
Block(p) == Dispatch(Move(p, "blocked")) /\ UNCHANGED last

Store(p) ==
  /\ \E x \in Pages, v \in Values : proc' = [proc EXCEPT ![p].data[x] = v]
  /\ UNCHANGED last

\* The clock: the process that runs may be put back among the ready ones.
Preempt ==
  /\ \/ In("running") = {} /\ Dispatch(proc)
     \/ \E p \in In("running") : Dispatch(Move(p, "ready"))
  /\ UNCHANGED last

\* The console: one blocked process becomes ready, and the CPU may change
\* hands in the same moment.
Wake ==
  /\ \E b \in In("blocked") :
       \/ proc' = Move(b, "ready")
       \/ In("running") = {} /\ Dispatch(Move(b, "ready"))
       \/ \E p \in In("running") :
            Dispatch([Move(b, "ready") EXCEPT ![p].st = "ready"])
  /\ UNCHANGED last

PNext ==
  \/ \E p \in In("running") : Fork(p) \/ Exit(p) \/ Block(p) \/ Store(p)
  \/ Preempt
  \/ Wake

PSpec == PInit /\ [][PNext]_pvars
=============================================================================
