---------------------------- MODULE LaunchClient ----------------------------
(***************************************************************************)
(* sockets/launchClient.c: it starts nclients clients, counts those that   *)
(* run at the same time, and waits for all of them.                        *)
(*                                                                         *)
(* SIGCHLD may interrupt main between any two instructions, so that main   *)
(* is cut at its accesses to current_concurrent (the build of the Makefile *)
(* does not optimise).  The handler runs with SIGCHLD blocked, reaps as    *)
(* many children as there are and leaves the signal pending for those that *)
(* end meanwhile; signal() restarts the waitpid it interrupts.  All        *)
(* children are alike, so they are counts.                                 *)
(*                                                                         *)
(* The arguments, the directory and the files of results are left out.     *)
(***************************************************************************)
EXTENDS Integers

CONSTANT nclients      \* the first argument

ASSUME LaunchAssumption == nclients \in Nat

VARIABLES
  pc,                  \* where main is
  i,                   \* children started
  current_concurrent, max_concurrent,
  reg,                 \* the register of current_concurrent++ and of the copy
  handling,            \* trat_sigchld has interrupted main
  sigchld,             \* SIGCHLD is pending
  running, zombies     \* children at work, and ended but not waited for

mainVars == <<pc, i, max_concurrent, reg>>
vars == <<mainVars, current_concurrent, handling, sigchld, running, zombies>>

Init ==
  /\ pc = "loop" /\ i = 0 /\ reg = 0
  /\ current_concurrent = 0 /\ max_concurrent = 0
  /\ handling = FALSE /\ sigchld = FALSE
  /\ running = 0 /\ zombies = 0

\* main goes from one point to another unless it is interrupted.
At(from) == pc = from /\ ~handling

\* The child runs at once; a failing fork ends the launcher, not its children.
fork ==
  /\ At("loop") /\ i < nclients
  /\ \/ pc' = "load" /\ running' = running + 1
     \/ pc' = "failed" /\ UNCHANGED running
  /\ UNCHANGED <<i, max_concurrent, reg, current_concurrent, handling, sigchld,
                 zombies>>

load ==
  /\ At("load")
  /\ reg' = current_concurrent
  /\ pc' = "store"
  /\ UNCHANGED <<i, max_concurrent, current_concurrent, handling, sigchld,
                 running, zombies>>

\* Mutant: the increment is lost when the register is stale.
store_lost ==
  /\ At("store")
  /\ current_concurrent' =
       IF reg = current_concurrent THEN reg + 1 ELSE current_concurrent
  /\ pc' = "compare"
  /\ UNCHANGED <<i, max_concurrent, reg, handling, sigchld, running, zombies>>
store ==
  /\ At("store")
  /\ current_concurrent' = reg + 1
  /\ pc' = "compare"
  /\ UNCHANGED <<i, max_concurrent, reg, handling, sigchld, running, zombies>>

compare ==
  /\ At("compare")
  /\ IF current_concurrent > max_concurrent
       THEN pc' = "load_max" /\ UNCHANGED i
       ELSE pc' = "loop" /\ i' = i + 1
  /\ UNCHANGED <<max_concurrent, reg, current_concurrent, handling, sigchld,
                 running, zombies>>

load_max ==
  /\ At("load_max")
  /\ reg' = current_concurrent
  /\ pc' = "store_max"
  /\ UNCHANGED <<i, max_concurrent, current_concurrent, handling, sigchld,
                 running, zombies>>

store_max ==
  /\ At("store_max")
  /\ max_concurrent' = reg
  /\ pc' = "loop" /\ i' = i + 1
  /\ UNCHANGED <<reg, current_concurrent, handling, sigchld, running, zombies>>

endLoop ==
  /\ At("loop") /\ i = nclients
  /\ pc' = "waitpid"
  /\ UNCHANGED <<i, max_concurrent, reg, current_concurrent, handling, sigchld,
                 running, zombies>>

\* Mutant: until the count says that no client is left.
waitpid_count ==
  /\ At("waitpid")
  /\ current_concurrent = 0
  /\ pc' = "done"
  /\ UNCHANGED <<i, max_concurrent, reg, current_concurrent, handling, sigchld,
                 running, zombies>>
\* while (waitpid(-1, NULL, 0) > 0): whatever the handler has not reaped, and
\* without counting it down.
waitpid ==
  /\ At("waitpid")
  /\ \/ zombies > 0 /\ zombies' = zombies - 1 /\ UNCHANGED pc
     \/ zombies = 0 /\ running = 0 /\ pc' = "done" /\ UNCHANGED zombies
  /\ UNCHANGED <<i, max_concurrent, reg, current_concurrent, handling, sigchld,
                 running>>

(***************************************************************************)
(* The handler, and the end of a client.                                   *)
(***************************************************************************)
signalled ==
  /\ sigchld /\ ~handling /\ pc \notin {"done", "failed"}
  /\ handling' = TRUE /\ sigchld' = FALSE
  /\ UNCHANGED <<mainVars, current_concurrent, running, zombies>>

\* Mutant: counted down before waitpid says that there is a child.
trat_sigchld_extra ==
  /\ handling
  /\ zombies' = IF zombies > 0 THEN zombies - 1 ELSE 0
  /\ current_concurrent' = current_concurrent - 1
  /\ handling' = (zombies > 0)
  /\ UNCHANGED <<mainVars, sigchld, running>>
trat_sigchld ==
  /\ handling
  /\ \/ /\ zombies > 0
        /\ zombies' = zombies - 1
        /\ current_concurrent' = current_concurrent - 1
        /\ UNCHANGED handling
     \/ /\ zombies = 0
        /\ handling' = FALSE
        /\ UNCHANGED <<zombies, current_concurrent>>
  /\ UNCHANGED <<mainVars, sigchld, running>>

\* clientSocket ends, or could not be loaded.
clientEnds ==
  /\ running > 0
  /\ running' = running - 1 /\ zombies' = zombies + 1
  /\ sigchld' = TRUE
  /\ UNCHANGED <<mainVars, current_concurrent, handling>>

Main == \/ fork \/ load \/ store \/ compare \/ load_max \/ store_max
        \/ endLoop \/ waitpid
Next == \/ fork \/ load \/ store \/ compare \/ load_max \/ store_max
        \/ endLoop \/ waitpid
        \/ signalled \/ trat_sigchld \/ clientEnds

Spec == Init /\ [][Next]_vars

\* The processes are scheduled, a pending signal is delivered, and the clients
\* end, served or not: it is assumed that none of them waits for ever.
Fairness == /\ WF_vars(Main) /\ WF_vars(signalled) /\ WF_vars(trat_sigchld)
            /\ WF_vars(clientEnds)
FairSpec == Spec /\ Fairness

-----------------------------------------------------------------------------
(***************************************************************************)
(* Properties.                                                             *)
(***************************************************************************)
\* Between fork and the store of the increment a child is not counted yet.
Uncounted == IF pc \in {"load", "store"} THEN 1 ELSE 0

\* The children main has counted so far, whether they are still there or not.
Counted == i + (IF pc \in {"compare", "load_max", "store_max"} THEN 1 ELSE 0)

\* Every variable keeps its type; the count is at most one below zero, when
\* the handler reaps a child before main has counted it, and neither it nor
\* the maximum exceeds the number of children counted so far, although the
\* copies main makes of the count may be stale.
TypeOK ==
  /\ pc \in {"loop", "load", "store", "compare", "load_max", "store_max",
             "waitpid", "done", "failed"}
  /\ i \in 0 .. nclients
  /\ current_concurrent \in -1 .. Counted
  /\ max_concurrent \in 0 .. Counted
  /\ reg \in -1 .. nclients
  /\ handling \in BOOLEAN /\ sigchld \in BOOLEAN
  /\ running \in 0 .. nclients /\ zombies \in 0 .. nclients

\* The count errs in one direction only: it is never below the number of
\* clients not yet waited for.  A handler that runs inside the increment loses
\* its decrements, not the increment.
CountNeverLow == running + zombies <= current_concurrent + Uncounted

\* The launcher ends although its count may never come back to zero.
Ends == <>(pc \in {"done", "failed"})
=============================================================================
