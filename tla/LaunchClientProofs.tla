------------------------- MODULE LaunchClientProofs -------------------------
(***************************************************************************)
(* Proofs about LaunchClient for any number of clients.                    *)
(***************************************************************************)
EXTENDS LaunchClient, TLAPS

\* Whatever interrupts main between the load and the store only lowers the
\* count, so that the register is never below it.
RegCovers == pc = "store" => current_concurrent <= reg

Counts == /\ i \in Nat /\ reg \in Int
          /\ current_concurrent \in Int /\ max_concurrent \in Int
          /\ running \in Nat /\ zombies \in Nat

LaunchInv == Counts /\ RegCovers /\ CountNeverLow

\* Every step of main, of the handler and of a client preserves the invariant.
LEMMA LaunchInvStep == LaunchInv /\ [Next]_vars => LaunchInv'
<1> SUFFICES ASSUME LaunchInv, [Next]_vars PROVE LaunchInv'
  OBVIOUS
<1> USE DEF LaunchInv, Counts, RegCovers, CountNeverLow, Uncounted, At, mainVars
<1>1. CASE fork
  BY <1>1 DEF fork
<1>2. CASE load
  BY <1>2 DEF load
<1>3. CASE store
  BY <1>3 DEF store
<1>4. CASE compare
  BY <1>4 DEF compare
<1>5. CASE load_max
  BY <1>5 DEF load_max
<1>6. CASE store_max
  BY <1>6 DEF store_max
<1>7. CASE endLoop
  BY <1>7 DEF endLoop
<1>8. CASE waitpid
  BY <1>8 DEF waitpid
<1>9. CASE signalled
  BY <1>9 DEF signalled
<1>10. CASE trat_sigchld
  <2>1. /\ pc' = pc /\ i' = i /\ max_concurrent' = max_concurrent /\ reg' = reg
        /\ running' = running
    BY <1>10 DEF trat_sigchld
  <2>2. \/ /\ zombies > 0 /\ zombies' = zombies - 1
           /\ current_concurrent' = current_concurrent - 1
        \/ zombies' = zombies /\ current_concurrent' = current_concurrent
    BY <1>10 DEF trat_sigchld
  <2> QED
    BY <2>1, <2>2
<1>11. CASE clientEnds
  BY <1>11 DEF clientEnds
<1>12. CASE UNCHANGED vars
  BY <1>12 DEF vars
<1> QED
  BY <1>1, <1>2, <1>3, <1>4, <1>5, <1>6, <1>7, <1>8, <1>9, <1>10, <1>11,
     <1>12 DEF Next

LEMMA LaunchInvAlways == Spec => []LaunchInv
<1>1. Init => LaunchInv
  BY LaunchAssumption DEF Init, LaunchInv, Counts, RegCovers, CountNeverLow,
                          Uncounted
<1> QED
  BY <1>1, LaunchInvStep, PTL DEF Spec

\* current_concurrent is never below the number of clients not waited for,
\* wherever SIGCHLD interrupts main and however many clients there are.
THEOREM LaunchCountNeverLow == Spec => []CountNeverLow
BY LaunchInvAlways, PTL DEF LaunchInv

-----------------------------------------------------------------------------
(***************************************************************************)
(* The ranges of the counts, which need the invariant above: the maximum   *)
(* is not negative only because the count is never low.                    *)
(***************************************************************************)
Body    == {"load", "store", "compare", "load_max", "store_max"}
Points  == Body \cup {"loop", "waitpid", "done", "failed"}

Ranges ==
  /\ pc \in Points
  /\ i <= nclients /\ (pc \in Body => i < nclients)
  /\ current_concurrent <= Counted
  /\ 0 <= max_concurrent /\ max_concurrent <= Counted
  /\ -1 <= reg /\ reg <= nclients
  /\ pc = "store" => reg <= i
  /\ pc = "store_max" => 0 <= reg /\ reg <= Counted

Flags == handling \in BOOLEAN /\ sigchld \in BOOLEAN

\* The flags stay Boolean.
LEMMA FlagsStep == Flags /\ [Next]_vars => Flags'
<1> SUFFICES ASSUME Flags, [Next]_vars PROVE Flags'
  OBVIOUS
<1>1. CASE fork \/ load \/ store \/ compare \/ load_max \/ store_max \/ endLoop \/ waitpid
  BY <1>1, Zenon DEF Flags, fork, load, store, compare, load_max, store_max, endLoop, waitpid
<1>2. CASE signalled \/ trat_sigchld \/ clientEnds
  BY <1>2, Zenon DEF Flags, signalled, trat_sigchld, clientEnds
<1>3. CASE UNCHANGED vars
  BY <1>3, Zenon DEF Flags, vars
<1> QED
  BY <1>1, <1>2, <1>3 DEF Next

\* The ranges are kept: a stale register holds a count of fewer children than
\* have been started, and what is copied to the maximum is not negative.
LEMMA RangesStep == LaunchInv /\ Ranges /\ [Next]_vars => Ranges'
<1> SUFFICES ASSUME LaunchInv, Ranges, [Next]_vars PROVE Ranges'
  OBVIOUS
<1> USE LaunchAssumption DEF LaunchInv, Counts, CountNeverLow, Uncounted, Ranges, Counted,
            Body, Points, At, mainVars
<1>1. CASE fork
  BY <1>1 DEF fork
<1>2. CASE load
  BY <1>2 DEF load
<1>3. CASE store
  BY <1>3 DEF store
<1>4. CASE compare
  BY <1>4 DEF compare
<1>5. CASE load_max
  BY <1>5 DEF load_max
<1>6. CASE store_max
  BY <1>6 DEF store_max
<1>7. CASE endLoop
  BY <1>7 DEF endLoop
<1>8. CASE waitpid
  BY <1>8 DEF waitpid
<1>9. CASE signalled
  BY <1>9 DEF signalled
<1>10. CASE trat_sigchld
  <2>1. pc' = pc /\ i' = i /\ max_concurrent' = max_concurrent /\ reg' = reg
    BY <1>10 DEF trat_sigchld
  <2>2. \/ current_concurrent' = current_concurrent - 1
        \/ current_concurrent' = current_concurrent
    BY <1>10 DEF trat_sigchld
  <2> QED
    BY <2>1, <2>2
<1>11. CASE clientEnds
  BY <1>11 DEF clientEnds
<1>12. CASE UNCHANGED vars
  BY <1>12 DEF vars
<1> QED
  BY <1>1, <1>2, <1>3, <1>4, <1>5, <1>6, <1>7, <1>8, <1>9, <1>10, <1>11,
     <1>12 DEF Next

\* The count is at most one below zero, and neither it nor the maximum exceeds
\* the number of children counted so far, wherever the handler interrupts main.
THEOREM LaunchTypeCorrect == Spec => []TypeOK
<1>1. Init => Ranges /\ Flags
  <2>1. Init => Ranges
    BY LaunchAssumption DEF Init, Ranges, Points, Body, Counted
  <2>2. Init => Flags
    BY Zenon DEF Init, Flags
  <2> QED
    BY <2>1, <2>2
<1>2. LaunchInv /\ Ranges /\ Flags => TypeOK
  <2> SUFFICES ASSUME LaunchInv, Ranges, Flags PROVE TypeOK
    OBVIOUS
  <2>1. /\ pc \in {"loop", "load", "store", "compare", "load_max", "store_max",
                   "waitpid", "done", "failed"}
        /\ i \in 0 .. nclients /\ max_concurrent \in 0 .. Counted
        /\ reg \in -1 .. nclients /\ current_concurrent \in -1 .. Counted
        /\ running \in 0 .. nclients /\ zombies \in 0 .. nclients
    BY LaunchAssumption DEF LaunchInv, Counts, CountNeverLow, Uncounted, Ranges, Counted,
                            Body, Points
  <2>2. handling \in BOOLEAN /\ sigchld \in BOOLEAN
    BY Zenon DEF Flags
  <2> QED
    BY <2>1, <2>2, Zenon DEF TypeOK
<1> QED
  BY <1>1, <1>2, LaunchInvAlways, RangesStep, FlagsStep, PTL DEF Spec
=============================================================================
