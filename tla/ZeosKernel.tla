----------------------------- MODULE ZeosKernel -----------------------------
(***************************************************************************)
(* Processes, scheduling, blocking reads and process memory of ZeOS: the   *)
(* timer interrupt (zeos/interrupt.c), the scheduler and the task switch   *)
(* (zeos/sched.c), fork and exit (zeos/sys.c) over the frames and page     *)
(* tables of ZeosMM (zeos/mm.c).  The FCFS policy, the policy selector and *)
(* the emulated console are linked from zeos/libschedperf.a.               *)
(*                                                                         *)
(* Every gate of the IDT is an interrupt gate, so a handler runs with      *)
(* interrupts off until it returns to user mode.  It is one action, cut    *)
(* only where task_switch hands the CPU to another task: where[t] is the   *)
(* point of the code at which task t goes on, and while where[cur] is a    *)
(* point inside the kernel its continuation is the only enabled action.    *)
(*                                                                         *)
(* Left out, because nothing here reads them: the accounting in statics    *)
(* (the act_ticks_* functions keep only their effect on t_state),          *)
(* zeos_ticks, and the screen.                                             *)
(***************************************************************************)
EXTENDS ZeosMM, ZeosQueues, Functions

CONSTANTS
  NR_TASKS,         \* entries of task[]                          (10 in ZeOS)
  INITIAL_QUANTUM,  \* ticks a process runs under round robin     (18 in ZeOS)
  NR_IORBS,         \* I/O request blocks of the console          (10 in ZeOS)
  INT_MAX,          \* largest int: CPU_QUANTUM wraps around it (2^31-1)
  MaxPID,           \* bound: the last PID a fork of this instance hands out
  ReadTicks,        \* the sizes user programs pass to read
  Policies,         \* the arguments user programs pass to set_sched_policy
  Values            \* what a user program may store in a page

RR   == 0
FCFS == 1

ASSUME KernelAssumption ==
  /\ NR_TASKS \in Nat /\ NR_TASKS >= 4
  /\ INT_MAX \in Nat /\ INITIAL_QUANTUM \in 1 .. INT_MAX
  /\ NR_IORBS \in Nat
  /\ MaxPID \in Nat \ {0}
  /\ ReadTicks \subseteq Int
  /\ Policies \subseteq Int
  /\ 0 \in Values

EBADF  == 9
EAGAIN == 11
ENOMEM == 12
EINVAL == 22

ST_RUN     == "ST_RUN"
ST_READY   == "ST_READY"
ST_BLOCKED == "ST_BLOCKED"

Tasks == 0 .. NR_TASKS - 1
\* init_sched pushes task[0], task[1], ... at the front of freequeue, so the
\* last two entries become idle_task and init_task.
IDLE == NR_TASKS - 1
INIT == NR_TASKS - 2
\* main runs on the kernel stack of task[1] (INITIAL_ESP) until return_gate.
BOOT == 1

VARIABLES
  cur,              \* current(): the task whose kernel stack %esp points into
  cr3,              \* the task whose page directory the CPU uses
  esp0,             \* the task whose kernel stack the TSS names
  PID, quantum, t_state,   \* fields of each task_struct
  where,            \* the program point at which each task goes on
  eax,              \* what each task's last system call returned
  freequeue, readyqueue, console_blocked,
  pending_reads,    \* the console's I/O request blocks in use, in order
  free_iorbs,       \* how many are left
  CPU_QUANTUM, policy, PID_MAX,
  phys_mem, pagusr_table,
  mem               \* the contents of each frame

cpuVars   == <<cur, cr3, esp0>>
queueVars == <<freequeue, readyqueue, console_blocked>>
ioVars    == <<pending_reads, free_iorbs>>
mmVars    == <<phys_mem, pagusr_table, mem>>
vars == <<cpuVars, PID, quantum, t_state, where, eax, queueVars, ioVars,
          CPU_QUANTUM, policy, PID_MAX, mmVars>>

(***************************************************************************)
(* Program points.  A task suspended inside task_switch still has to run   *)
(* its epilogue; a new child and the idle task start without it.           *)
(***************************************************************************)
Interruptible == {"boot", "user", "cpu_idle"}
InTaskSwitch  == {"clock_sched", "clock_exit", "read_return"}
Points == Interruptible \cup InTaskSwitch \cup {"ret_from_fork", "dead"}

\* The code a timer interrupt of task t returns to.
Interrupted(t) ==
  IF t = IDLE THEN "cpu_idle" ELSE IF PID[t] = -1 THEN "boot" ELSE "user"

(***************************************************************************)
(* The state in which main calls enable_int: the queues as init_sched,     *)
(* init_idle and init_task1 leave them, the FCFS policy, and user pages    *)
(* for init_task only.                                                     *)
(***************************************************************************)
init_sched_policy == FCFS

Init ==
  /\ cur = BOOT /\ cr3 = INIT /\ esp0 = INIT
  /\ PID = [t \in Tasks |-> IF t = IDLE THEN 0 ELSE IF t = INIT THEN 1 ELSE -1]
  /\ quantum = [t \in Tasks |-> IF t = INIT THEN INITIAL_QUANTUM ELSE 0]
  /\ t_state = [t \in Tasks |-> IF t = IDLE THEN ST_READY ELSE ST_RUN]
  /\ where = [t \in Tasks |-> CASE t = BOOT -> "boot"
                                [] t = IDLE -> "cpu_idle"
                                [] t = INIT -> "user"
                                [] OTHER -> "dead"]
  /\ eax = [t \in Tasks |-> 0]
  /\ freequeue = [i \in 1 .. NR_TASKS - 2 |-> NR_TASKS - 2 - i]
  /\ readyqueue = <<>> /\ console_blocked = <<>>
  /\ pending_reads = <<>> /\ free_iorbs = NR_IORBS
  /\ CPU_QUANTUM = 0 /\ policy = init_sched_policy /\ PID_MAX = 1
  /\ \E g \in alloc_frame(init_frames, CodePages \cup DataPages) :
       /\ phys_mem = MarkUsed(init_frames, {g[p] : p \in CodePages \cup DataPages})
       /\ pagusr_table = [t \in Tasks |->
            IF t = INIT THEN set_user_pages(g) ELSE init_table_pages]
  /\ mem = [f \in Frames |-> 0]

\* The end of main: lret to user mode leaves the boot stack for good.
return_gate ==
  /\ where[cur] = "boot"
  /\ cur' = INIT
  /\ where' = [where EXCEPT ![cur] = "dead"]
  /\ UNCHANGED <<cr3, esp0, PID, quantum, t_state, eax, queueVars, ioVars,
                 CPU_QUANTUM, policy, PID_MAX, mmVars>>

(***************************************************************************)
(* The scheduling policies.  cq is CPU_QUANTUM and rq is readyqueue at the *)
(* moment of the call.                                                     *)
(***************************************************************************)
needs_sched_rr(cq)   == cq <= 0
needs_sched_fcfs(rq) == cur = IDLE /\ ~list_empty(rq)
needs_sched(cq, rq)  ==
  IF policy = RR THEN needs_sched_rr(cq) ELSE needs_sched_fcfs(rq)

update_sched_data_rr(cq) == IF cq = -INT_MAX - 1 THEN INT_MAX ELSE cq - 1
update_sched_data(cq)    ==
  IF policy = RR THEN update_sched_data_rr(cq) ELSE cq

\* Mutant: list_add for list_add_tail.
update_current_state_front(q) == list_add(cur, q)
\* Both policies put the current task at the end of the list.
update_current_state(q) == list_add_tail(cur, q)

\* Mutant: the page directory of the old task stays in use.
inner_task_switch_cr3(next) == cur' = next /\ esp0' = next /\ UNCHANGED cr3
inner_task_switch(next) == cur' = next /\ esp0' = next /\ cr3' = next

\* The current task stops at point k and next goes on.  The prologue marks the
\* one ST_READY; the epilogue, which runs on the stack of the other once it is
\* back inside task_switch, marks it ST_RUN.
task_switch(next, ts, k) ==
  /\ where' = [where EXCEPT ![cur] = k]
  /\ t_state' = [[ts EXCEPT ![cur] = ST_READY] EXCEPT
                   ![next] = IF where'[next] \in InTaskSwitch THEN ST_RUN ELSE @]
  /\ inner_task_switch(next)

\* Mutant: the quantum of the next task is not loaded.
sched_next_rr_keep(rq, cq, ts, k) ==
  /\ readyqueue' = IF list_empty(rq) THEN rq ELSE Tail(rq)
  /\ CPU_QUANTUM' = cq
  /\ task_switch(IF list_empty(rq) THEN IDLE ELSE list_first(rq), ts, k)
\* Round robin does not reload CPU_QUANTUM when it falls back on idle.
sched_next_rr(rq, cq, ts, k) ==
  IF list_empty(rq)
    THEN /\ readyqueue' = rq
         /\ CPU_QUANTUM' = cq
         /\ task_switch(IDLE, ts, k)
    ELSE /\ readyqueue' = Tail(rq)
         /\ CPU_QUANTUM' = quantum[list_first(rq)]
         /\ task_switch(list_first(rq), ts, k)

sched_next_fcfs(rq, cq, ts, k) ==
  /\ readyqueue' = IF list_empty(rq) THEN rq ELSE Tail(rq)
  /\ CPU_QUANTUM' = cq
  /\ task_switch(IF list_empty(rq) THEN IDLE ELSE list_first(rq), ts, k)

sched_next(rq, cq, ts, k) ==
  IF policy = RR THEN sched_next_rr(rq, cq, ts, k)
                 ELSE sched_next_fcfs(rq, cq, ts, k)

(***************************************************************************)
(* The timer interrupt.  Its body reaches sched_next at two places, inside *)
(* zeos_update_read_console_emul and at its own end; a task switched out   *)
(* at the first one runs the rest of the routine when it comes back.       *)
(***************************************************************************)
unblock_process(b) ==
  LET rq == list_add_tail(b, readyqueue)
      ts == [t_state EXCEPT ![b] = ST_READY]
  IN  /\ console_blocked' = list_del(b, console_blocked)
      /\ IF needs_sched(CPU_QUANTUM, rq)
           THEN sched_next(update_current_state(rq), CPU_QUANTUM, ts, "clock_sched")
           ELSE /\ readyqueue' = rq /\ t_state' = ts
                /\ where' = [where EXCEPT ![cur] = "clock_sched"]
                /\ UNCHANGED <<cpuVars, CPU_QUANTUM>>

\* The console serves the first pending read only, one unit per tick.
zeos_update_read_console_emul ==
  \/ /\ pending_reads # <<>> /\ Head(pending_reads).ticks - 1 <= 0
     /\ pending_reads' = Tail(pending_reads)
     /\ free_iorbs' = free_iorbs + 1
     /\ unblock_process(Head(pending_reads).task)
  \/ /\ pending_reads # <<>> /\ Head(pending_reads).ticks - 1 > 0
     /\ pending_reads' = [pending_reads EXCEPT ![1].ticks = @ - 1]
     /\ where' = [where EXCEPT ![cur] = "clock_sched"]
     /\ UNCHANGED <<cpuVars, t_state, readyqueue, console_blocked, free_iorbs,
                    CPU_QUANTUM>>
  \/ /\ pending_reads = <<>>
     /\ where' = [where EXCEPT ![cur] = "clock_sched"]
     /\ UNCHANGED <<cpuVars, t_state, readyqueue, console_blocked, ioVars,
                    CPU_QUANTUM>>

\* Mutant: the clock does not drive the console.
clock_routine_lost ==
  /\ where[cur] \in Interruptible
  /\ where' = [where EXCEPT ![cur] = "clock_sched"]
  /\ UNCHANGED <<cpuVars, PID, quantum, t_state, eax, queueVars, ioVars,
                 CPU_QUANTUM, policy, PID_MAX, mmVars>>
clock_routine ==
  /\ where[cur] \in Interruptible
  /\ zeos_update_read_console_emul
  /\ UNCHANGED <<PID, quantum, eax, freequeue, policy, PID_MAX, mmVars>>

clock_sched ==
  /\ where[cur] = "clock_sched"
  /\ LET cq == update_sched_data(CPU_QUANTUM)
     IN  IF needs_sched(cq, readyqueue)
           THEN sched_next(IF PID[cur] # 0 THEN update_current_state(readyqueue)
                                           ELSE readyqueue,
                           cq, t_state, "clock_exit")
           ELSE /\ CPU_QUANTUM' = cq
                /\ where' = [where EXCEPT ![cur] = "clock_exit"]
                /\ UNCHANGED <<cpuVars, t_state, readyqueue>>
  /\ UNCHANGED <<PID, quantum, eax, freequeue, console_blocked, ioVars, policy,
                 PID_MAX, mmVars>>

clock_exit ==
  /\ where[cur] = "clock_exit"
  /\ where' = [where EXCEPT ![cur] = Interrupted(cur)]
  /\ UNCHANGED <<cpuVars, PID, quantum, t_state, eax, queueVars, ioVars,
                 CPU_QUANTUM, policy, PID_MAX, mmVars>>

(***************************************************************************)
(* fork.  The copy of the data goes through logical addresses only: fork   *)
(* maps the frames of the child in the parent's table too, right above the *)
(* parent's data, and copies from the one area to the other as cr3 maps    *)
(* them.                                                                   *)
(***************************************************************************)
Return(r) == eax' = [eax EXCEPT ![cur] = r]

\* Back to the front of freequeue.
free_PCB(t, q) == list_add(t, q)

\* Mutant: the frames taken so far stay in use.
TakeAndReturn_leak(pm) == MarkUsed(pm, Allocatable(pm))
\* The loop of fork that runs out of frames: it takes all there are, and gives
\* them back.
TakeAndReturn(pm) == free_frame(MarkUsed(pm, Allocatable(pm)), Allocatable(pm))

\* Mutant: the PID of the last process again.
NewPID_last == PID_MAX
NewPID      == PID_MAX + 1

\* Mutant: nothing is copied.
copy_data_none(pt) == mem
\* The data pages copied to the pages NUM_PAG_DATA further up, with pt as the
\* page table in use.
copy_data(pt) ==
  [f \in Frames |->
     IF \E p \in DataPages : get_frame(pt, p + NUM_PAG_DATA) = f
       THEN mem[get_frame(pt, CHOOSE p \in DataPages :
                                get_frame(pt, p + NUM_PAG_DATA) = f)]
       ELSE mem[f]]

\* The code pages of the parent, mapped in the child's table.
ShareCode(pt) ==
  set_ss_pag(pt, CodePages,
             [p \in CodePages |-> get_frame(pagusr_table[cur], p)])

\* The tables during the copy: the frames g are the data of the child and,
\* above its own data, of the parent.
MapChild(child, g) ==
  [pagusr_table EXCEPT
     ![cur] = set_ss_pag(@, TempPages, [p \in TempPages |-> g[p - NUM_PAG_DATA]]),
     ![child] = set_ss_pag(ShareCode(@), DataPages, g)]

\* No free PCB.
sys_fork_EAGAIN ==
  /\ list_empty(freequeue)
  /\ Return(-EAGAIN)
  /\ UNCHANGED <<cpuVars, PID, quantum, t_state, where, queueVars, ioVars,
                 CPU_QUANTUM, policy, PID_MAX, mmVars>>

\* A frame is missing: the frames and the PCB are given back, but the PCB stays
\* as copy_data left it, a copy of the parent's.
sys_fork_ENOMEM ==
  /\ ~list_empty(freequeue)
  /\ alloc_frame(phys_mem, DataPages) = {}
  /\ LET child == list_first(freequeue)
     IN  /\ PID' = [PID EXCEPT ![child] = PID[cur]]
         /\ quantum' = [quantum EXCEPT ![child] = quantum[cur]]
         /\ t_state' = [t_state EXCEPT ![child] = t_state[cur]]
         /\ pagusr_table' = [pagusr_table EXCEPT ![child] = ShareCode(@)]
         /\ phys_mem' = TakeAndReturn(phys_mem)
         /\ freequeue' = free_PCB(child, Tail(freequeue))
  /\ Return(-ENOMEM)
  /\ UNCHANGED <<cpuVars, where, readyqueue, console_blocked, ioVars,
                 CPU_QUANTUM, policy, PID_MAX, mem>>

sys_fork_child ==
  /\ ~list_empty(freequeue)
  /\ PID_MAX < MaxPID
  /\ LET child == list_first(freequeue)
     IN  \E g \in alloc_frame(phys_mem, DataPages) :
           /\ freequeue' = Tail(freequeue)
           /\ quantum' = [quantum EXCEPT ![child] = quantum[cur]]
           /\ phys_mem' = MarkUsed(phys_mem, {g[p] : p \in DataPages})
           /\ mem' = copy_data(MapChild(child, g)[cr3])
           /\ pagusr_table' = [MapChild(child, g) EXCEPT
                                 ![cur] = del_ss_pag(@, TempPages)]
           /\ cr3' = cur
           /\ PID' = [PID EXCEPT ![child] = NewPID]
           /\ PID_MAX' = NewPID
           /\ where' = [where EXCEPT ![child] = "ret_from_fork"]
           /\ t_state' = [t_state EXCEPT ![child] = ST_READY]
           /\ readyqueue' = list_add_tail(child, readyqueue)
           /\ Return(NewPID)
  /\ UNCHANGED <<cur, esp0, console_blocked, ioVars, CPU_QUANTUM, policy>>

sys_fork ==
  /\ where[cur] = "user"
  /\ sys_fork_EAGAIN \/ sys_fork_ENOMEM \/ sys_fork_child

\* The first code of a child: its fork returns 0.
ret_from_fork ==
  /\ where[cur] = "ret_from_fork"
  /\ where' = [where EXCEPT ![cur] = "user"]
  /\ Return(0)
  /\ UNCHANGED <<cpuVars, PID, quantum, t_state, queueVars, ioVars,
                 CPU_QUANTUM, policy, PID_MAX, mmVars>>

(***************************************************************************)
(* exit, read and set_sched_policy.                                        *)
(***************************************************************************)
\* Mutant: the loop stops one page early.
ExitFrames_short ==
  {get_frame(pagusr_table[cur], p) : p \in {q \in DataPages : q + 1 \in DataPages}}
\* The frames sys_exit gives back; the page table keeps its entries.
ExitFrames == {get_frame(pagusr_table[cur], p) : p \in DataPages}

\* Mutant: the PID is left in the PCB.
sys_exit_pid ==
  /\ where[cur] = "user"
  /\ phys_mem' = free_frame(phys_mem, ExitFrames)
  /\ freequeue' = update_current_state(freequeue)
  /\ sched_next(readyqueue, CPU_QUANTUM, t_state, "dead")
  /\ UNCHANGED <<PID, quantum, eax, console_blocked, ioVars, policy, PID_MAX,
                 pagusr_table, mem>>
sys_exit ==
  /\ where[cur] = "user"
  /\ phys_mem' = free_frame(phys_mem, ExitFrames)
  /\ PID' = [PID EXCEPT ![cur] = -1]
  /\ freequeue' = update_current_state(freequeue)
  /\ sched_next(readyqueue, CPU_QUANTUM, t_state, "dead")
  /\ UNCHANGED <<quantum, eax, console_blocked, ioVars, policy, PID_MAX,
                 pagusr_table, mem>>

\* The task leaves as ST_BLOCKED, and the prologue of task_switch overwrites it.
block_process ==
  /\ console_blocked' = update_current_state(console_blocked)
  /\ sched_next(readyqueue, CPU_QUANTUM,
                [t_state EXCEPT ![cur] = ST_BLOCKED], "read_return")

sys_read_error(r) ==
  /\ Return(r)
  /\ UNCHANGED <<cpuVars, PID, quantum, t_state, where, queueVars, ioVars,
                 CPU_QUANTUM, policy, PID_MAX, mmVars>>

\* Mutant: the console does not ask whether a request block is left.
zeos_read_console_emul_unchecked(nbytes) ==
  /\ free_iorbs' = free_iorbs - 1
  /\ pending_reads' = Append(pending_reads, [task |-> cur, ticks |-> nbytes])
  /\ Return(nbytes)
  /\ block_process
  /\ UNCHANGED <<PID, quantum, freequeue, policy, PID_MAX, mmVars>>
zeos_read_console_emul(nbytes) ==
  \/ /\ free_iorbs = 0
     /\ sys_read_error(-EAGAIN)
  \/ /\ free_iorbs # 0
     /\ free_iorbs' = free_iorbs - 1
     /\ pending_reads' = Append(pending_reads, [task |-> cur, ticks |-> nbytes])
     /\ Return(nbytes)
     /\ block_process
     /\ UNCHANGED <<PID, quantum, freequeue, policy, PID_MAX, mmVars>>

sys_read(fd, nbytes) ==
  /\ where[cur] = "user"
  /\ \/ fd # 0 /\ sys_read_error(-EBADF)
     \/ fd = 0 /\ nbytes < 0 /\ sys_read_error(-EINVAL)
     \/ fd = 0 /\ nbytes >= 0 /\ zeos_read_console_emul(nbytes)

\* Back from block_process: the result was put in eax when the call blocked.
read_return ==
  /\ where[cur] = "read_return"
  /\ where' = [where EXCEPT ![cur] = "user"]
  /\ UNCHANGED <<cpuVars, PID, quantum, t_state, eax, queueVars, ioVars,
                 CPU_QUANTUM, policy, PID_MAX, mmVars>>

sys_set_sched_policy(p) ==
  /\ where[cur] = "user"
  /\ \/ p \in {RR, FCFS} /\ policy' = p /\ Return(0)
     \/ p \notin {RR, FCFS} /\ Return(-EINVAL) /\ UNCHANGED policy
  /\ UNCHANGED <<cpuVars, PID, quantum, t_state, where, queueVars, ioVars,
                 CPU_QUANTUM, PID_MAX, mmVars>>

\* User code stores v in one of its writable pages, through the MMU.
user_store(p, v) ==
  /\ where[cur] = "user"
  /\ pagusr_table[cr3][p].rw
  /\ mem' = [mem EXCEPT ![get_frame(pagusr_table[cr3], p)] = v]
  /\ UNCHANGED <<cpuVars, PID, quantum, t_state, where, eax, queueVars, ioVars,
                 CPU_QUANTUM, policy, PID_MAX, phys_mem, pagusr_table>>

Next ==
  \/ return_gate
  \/ clock_routine
  \/ clock_sched
  \/ clock_exit
  \/ sys_fork
  \/ ret_from_fork
  \/ sys_exit
  \/ \E fd \in {0, 1}, n \in ReadTicks : sys_read(fd, n)
  \/ read_return
  \/ \E p \in Policies : sys_set_sched_policy(p)
  \/ \E p \in UserPages, v \in Values : user_store(p, v)

Spec == Init /\ [][Next]_vars

(***************************************************************************)
(* Fairness.  The timer is periodic and the interrupt controller holds its *)
(* request while interrupts are off; a handler that has started, or a task *)
(* that has been given the CPU, runs on.  Nothing is assumed of user code. *)
(***************************************************************************)
Fairness ==
  /\ WF_vars(clock_routine)
  /\ WF_vars(clock_sched) /\ WF_vars(clock_exit)
  /\ WF_vars(ret_from_fork) /\ WF_vars(read_return)

FairSpec == Spec /\ Fairness

-----------------------------------------------------------------------------
(***************************************************************************)
(* Properties.                                                             *)
(***************************************************************************)
\* Every variable keeps its type: no PCB has more quantum than round robin gives,
\* every page table names frames that exist, and the console never takes a
\* request block it does not have.
TypeOK ==
  /\ cur \in Tasks /\ cr3 \in Tasks /\ esp0 \in Tasks
  /\ PID \in [Tasks -> Int]
  /\ quantum \in [Tasks -> 0 .. INITIAL_QUANTUM]
  /\ t_state \in [Tasks -> {ST_RUN, ST_READY, ST_BLOCKED}]
  /\ where \in [Tasks -> Points]
  /\ eax \in [Tasks -> Int]
  /\ freequeue \in Seq(Tasks) /\ readyqueue \in Seq(Tasks)
  /\ console_blocked \in Seq(Tasks)
  /\ pending_reads \in Seq([task : Tasks, ticks : Int])
  /\ free_iorbs \in Nat
  /\ CPU_QUANTUM \in -INT_MAX - 1 .. INT_MAX
  /\ policy \in {RR, FCFS}
  /\ PID_MAX \in Nat
  /\ phys_mem \in [Frames -> {FREE_FRAME, USED_FRAME}]
  /\ pagusr_table \in [Tasks -> [UserPages -> PTE]]
  /\ mem \in [Frames -> Values]

\* The process on whose behalf the CPU runs: while main is still on the boot
\* stack, which lies in a free PCB, that is init_task.
Running == IF PID[cur] = -1 THEN INIT ELSE cur

\* The processes there are, idle aside: those with a PCB out of freequeue.
Alive == (Tasks \ {IDLE}) \ Range(freequeue)

\* The lists fq, rq and bq while task run has the CPU: no PCB is linked twice,
\* run is linked nowhere, idle is neither free nor blocked, and no other PCB is
\* lost.
Linked(fq, rq, bq, run) ==
  /\ IsInjective(fq) /\ IsInjective(rq) /\ IsInjective(bq)
  /\ Range(fq) \cap Range(rq) = {}
  /\ Range(fq) \cap Range(bq) = {}
  /\ Range(rq) \cap Range(bq) = {}
  /\ run \notin Range(fq) \cup Range(rq) \cup Range(bq)
  /\ IDLE \notin Range(fq) \cup Range(bq)
  /\ Tasks \ {IDLE} \subseteq {run} \cup Range(fq) \cup Range(rq) \cup Range(bq)

\* Every PCB but the idle one is running, ready, blocked or free, and only one
\* of these.  list_add and list_del keep this only if each caller in fork, exit,
\* block_process, unblock_process and clock_routine unlinks a PCB before it
\* links it again.
QueueIntegrity == Linked(freequeue, readyqueue, console_blocked, Running)

\* The console takes its requests in the order in which block_process queued
\* their tasks, so that the task it wakes is the first of console_blocked and
\* really is blocked; no request block is lost.
ReadersMatchPending ==
  /\ Len(console_blocked) = Len(pending_reads)
  /\ \A i \in DOMAIN pending_reads : console_blocked[i] = pending_reads[i].task
  /\ Len(pending_reads) + free_iorbs = NR_IORBS

\* A suspended task can be resumed where it was left: what task_switch finds on
\* the stack of a ready or a blocked task is a point of the kernel, never the
\* stack of a task that is dead or already in user mode.
Resumable ==
  /\ \A t \in Range(readyqueue) : where[t] \in InTaskSwitch \cup {"ret_from_fork"}
  /\ \A t \in Range(console_blocked) : where[t] = "read_return"
  /\ \A t \in Range(freequeue) \ {cur} : where[t] = "dead"
  /\ where[cur] # "dead"

\* The CPU uses the page directory of the running process, and an interrupt of
\* user mode enters on the kernel stack of that process.
ContextMatches == cr3 = Running /\ esp0 = Running

\* The first PCB of the table with this PID, as sys_get_stats looks it up.
getStatPID(pid) ==
  LET found == {t \in Tasks : PID[t] = pid}
  IN  IF found = {} THEN -1 ELSE CHOOSE t \in found : \A u \in found : t <= u

\* The scan of the task table by PID finds the living process with that PID
\* and no other PCB, and fork never hands out a PID that is in use.
LookupFindsLive ==
  /\ \A t \in Alive \cup {IDLE} : getStatPID(PID[t]) = t
  /\ \A t \in Alive : PID[t] \in 1 .. PID_MAX

\* "PID = -1 -> Task morta o no inicialitzada" (sys.c:239).
DeadTasksHaveNoPID == \A t \in Range(freequeue) : PID[t] = -1

\* While there is a PCB for a child there are frames for its data.  The memory
\* of ZeOS is large enough for this as long as exit gives back every frame; with
\* less, a failing fork leaves a copy of its parent's PID in a free PCB.
FramesSuffice == freequeue # <<>> => alloc_frame(phys_mem, DataPages) # {}

\* A process never runs with a quantum that is used up, left over from idling
\* or larger than the one round robin gives, whatever policy changes and
\* wrap-arounds of CPU_QUANTUM came before.
QuantumBounded == cur # IDLE => CPU_QUANTUM \in 0 .. INITIAL_QUANTUM

DataFrames(t) == {get_frame(pagusr_table[t], p) : p \in DataPages}
\* The code loaded at boot; the PCB of init_task keeps mapping it for ever.
CodeFrames    == {get_frame(pagusr_table[INIT], p) : p \in CodePages}

\* The frames in use are exactly the kernel's, the shared code and the data of
\* the living processes: none is leaked by exit or a failed fork, none is
\* shared or freed while it is mapped.  All processes map the same code, and
\* none of the mappings through which fork copies is left in a table.
FrameOwnership ==
  /\ \A t \in Alive, p, q \in DataPages : p # q =>
       get_frame(pagusr_table[t], p) # get_frame(pagusr_table[t], q)
  /\ \A t, u \in Alive : t # u => DataFrames(t) \cap DataFrames(u) = {}
  /\ \A t \in Alive : DataFrames(t) \cap CodeFrames = {}
  /\ \A t \in Alive, p \in CodePages :
       get_frame(pagusr_table[t], p) = get_frame(pagusr_table[INIT], p)
  /\ \A t \in Tasks, p \in TempPages : pagusr_table[t][p] = NoEntry
  /\ {f \in Frames : phys_mem[f] = USED_FRAME} =
       0 .. NUM_PAG_KERNEL - 1 \cup CodeFrames
         \cup UNION {DataFrames(t) : t \in Alive}

\* What process t reads at its data page p.
DataOf(t, p) == mem[get_frame(pagusr_table[t], p)]

\* Processes do not see each other's data: a step changes no data page of a
\* process other than the one that runs, and the data of a new process are
\* those of the running one at that moment.
Isolation ==
  [][/\ \A t \in Alive \ {Running}, p \in DataPages :
          (t \in Alive)' => DataOf(t, p)' = DataOf(t, p)
     /\ \A t \in Tasks \ Alive, p \in DataPages :
          (t \in Alive)' => DataOf(t, p)' = DataOf(Running, p)]_vars

\* A system call that fails leaves no trace: a fork that runs out of frames in
\* the middle gives back those it took and its PCB, a read without request
\* block does not block, and no living process loses a mapping.
FailedCallsUndone ==
  [][(\E t \in Tasks : eax'[t] < 0 /\ eax'[t] # eax[t]) =>
       /\ UNCHANGED <<cpuVars, where, queueVars, ioVars, CPU_QUANTUM, PID_MAX,
                      phys_mem, mem>>
       /\ \A u \in Alive : UNCHANGED <<PID[u], pagusr_table[u]>>]_vars

\* Under round robin every ready process gets the CPU, although processes keep
\* running and read and fork, and idle has leftover quantum to use up.
RoundRobinServesAll ==
  \A t \in Tasks \ {IDLE} :
    (policy = RR /\ t \in Range(readyqueue)) ~> (cur = t)

\* Every process that blocks in read is made ready again, under both policies.
ReadersWakeUp ==
  \A t \in Tasks \ {IDLE} :
    (t \in Range(console_blocked)) ~> (t \notin Range(console_blocked))
=============================================================================
