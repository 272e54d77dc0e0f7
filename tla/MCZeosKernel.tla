---------------------------- MODULE MCZeosKernel ----------------------------
(***************************************************************************)
(* Instances of ZeosKernel for TLC.  The .cfg files give the sizes; the    *)
(* definitions below are the sets and the negative sizes a .cfg cannot     *)
(* write.                                                                  *)
(***************************************************************************)
EXTENDS ZeosRefinement

\* A read that takes two ticks, and one that sys_read refuses.
MCReadTicks == {-1, 2}

\* Both policies and an argument that sys_set_sched_policy refuses.
MCPolicies == {RR, FCFS, 2}
=============================================================================
