--------------------------- MODULE ZeosRefinement ---------------------------
(***************************************************************************)
(* ZeosKernel implements ZeosProcess: a process is a PCB outside           *)
(* freequeue, known by its PID; its status is the list it is linked in,    *)
(* and its data are what its page table maps.                              *)
(***************************************************************************)
EXTENDS ZeosKernel

\* The PCB of the living process pid.
TaskOf(pid) == CHOOSE t \in Alive : PID[t] = pid

StatusOf(t) == IF t = Running THEN "running"
               ELSE IF t \in Range(readyqueue) THEN "ready" ELSE "blocked"

procBar ==
  [pid \in {PID[t] : t \in Alive} |->
     [st   |-> StatusOf(TaskOf(pid)),
      data |-> [p \in DataPages |-> DataOf(TaskOf(pid), p)]]]

Process == INSTANCE ZeosProcess
             WITH Pages <- DataPages, proc <- procBar, last <- PID_MAX

\* Every step of the kernel is a step user programs may expect: processes come
\* from fork with the parent's data and a new PID, lose the CPU, block, wake
\* and end only as ZeosProcess allows, and no handler touches another process.
ImplementsProcess == Process!PSpec
=============================================================================
