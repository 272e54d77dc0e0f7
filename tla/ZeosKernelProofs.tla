-------------------------- MODULE ZeosKernelProofs --------------------------
(***************************************************************************)
(* The safety of ZeosKernel for every number of tasks, frames, request     *)
(* blocks and PIDs.  IInv is the inductive invariant: besides the          *)
(* properties it holds the facts about PIDs, program points and the boot   *)
(* phase on which they depend.                                             *)
(***************************************************************************)
EXTENDS ZeosKernel, SequenceTheorems, TLAPS

(***************************************************************************)
(* Lists.                                                                  *)
(***************************************************************************)

\* list_add_tail adds one element, and repeats none if the element is new.
LEMMA AppendRange ==
  ASSUME NEW S, NEW q \in Seq(S), NEW t \in S
  PROVE  /\ Append(q, t) \in Seq(S)
         /\ Append(q, t) # <<>>
         /\ Range(Append(q, t)) = Range(q) \cup {t}
         /\ IsInjective(q) /\ t \notin Range(q) => IsInjective(Append(q, t))
<1> DEFINE a == Append(q, t)
<1>1. /\ a \in Seq(S) /\ a # <<>> /\ Len(a) = Len(q) + 1
      /\ \A i \in 1 .. Len(q) : a[i] = q[i]
      /\ a[Len(q) + 1] = t
  BY AppendProperties
<1>2. Len(q) \in Nat /\ DOMAIN q = 1 .. Len(q) /\ DOMAIN a = 1 .. Len(q) + 1
  BY <1>1, LenProperties
<1>3. Range(a) = Range(q) \cup {t}
  BY <1>1, <1>2, SMT DEF Range
<1>4. IsInjective(q) /\ t \notin Range(q) => IsInjective(a)
  BY <1>1, <1>2, SMT DEF IsInjective, Range
<1> QED
  BY <1>1, <1>3, <1>4

\* Taking the first element of a list without repetitions.
LEMMA TailRange ==
  ASSUME NEW S, NEW q \in Seq(S), q # <<>>
  PROVE  /\ Head(q) \in S /\ Tail(q) \in Seq(S)
         /\ Len(Tail(q)) = Len(q) - 1
         /\ \A i \in 1 .. Len(Tail(q)) : Tail(q)[i] = q[i + 1]
         /\ Head(q) = q[1] /\ Len(q) >= 1
         /\ Range(q) = {Head(q)} \cup Range(Tail(q))
         /\ IsInjective(q) => IsInjective(Tail(q)) /\ Head(q) \notin Range(Tail(q))
<1> DEFINE a == Tail(q)
<1>1. /\ Head(q) \in S /\ a \in Seq(S) /\ Len(a) = Len(q) - 1
      /\ \A i \in 1 .. Len(a) : a[i] = q[i + 1]
  BY HeadTailProperties
<1>2. /\ Len(q) \in Nat \ {0} /\ DOMAIN q = 1 .. Len(q)
      /\ DOMAIN a = 1 .. Len(q) - 1
  BY <1>1, LenProperties, EmptySeq
<1>3. Head(q) = q[1]
  OBVIOUS
<1>4. Range(q) = {Head(q)} \cup Range(a)
  <2>1. ASSUME NEW x \in Range(q) PROVE x \in {Head(q)} \cup Range(a)
    <3>1. PICK i \in 1 .. Len(q) : x = q[i]
      BY <1>2 DEF Range
    <3>2. CASE i = 1
      BY <3>1, <3>2, <1>3
    <3>3. CASE i # 1
      <4>1. i - 1 \in DOMAIN a /\ a[i - 1] = x
        BY <3>1, <3>3, <1>1, <1>2
      <4> QED
        BY <4>1 DEF Range
    <3> QED
      BY <3>2, <3>3
  <2>2. ASSUME NEW x \in Range(a) PROVE x \in Range(q)
    BY <1>1, <1>2 DEF Range
  <2>3. Head(q) \in Range(q)
    BY <1>2, <1>3 DEF Range
  <2> QED
    BY <2>1, <2>2, <2>3
<1>5. ASSUME IsInjective(q)
      PROVE  IsInjective(a) /\ Head(q) \notin Range(a)
  <2>1. \A i, j \in 1 .. Len(q) : q[i] = q[j] => i = j
    BY <1>2, <1>5 DEF IsInjective
  <2>2. IsInjective(a)
    <3>1. SUFFICES ASSUME NEW i \in DOMAIN a, NEW j \in DOMAIN a, a[i] = a[j]
                   PROVE  i = j
      BY DEF IsInjective
    <3>2. q[i + 1] = q[j + 1] /\ i + 1 \in 1 .. Len(q) /\ j + 1 \in 1 .. Len(q)
      BY <1>1, <1>2, <3>1
    <3>3. i + 1 = j + 1
      BY <2>1, <3>2
    <3> QED
      BY <1>2, <3>3
  <2>3. ASSUME NEW i \in DOMAIN a, a[i] = Head(q) PROVE FALSE
    <3>1. q[i + 1] = q[1] /\ i + 1 \in 1 .. Len(q) /\ 1 \in 1 .. Len(q) /\ i \in Nat \ {0}
      BY <1>1, <1>2, <1>3, <2>3
    <3>2. i + 1 = 1
      BY <2>1, <3>1
    <3> QED
      BY <3>1, <3>2
  <2> QED
    BY <2>2, <2>3 DEF Range
<1> QED
  BY <1>1, <1>2, <1>3, <1>4, <1>5

\* Unlinking the first element of a list without repetitions drops the head.
LEMMA DelFirst ==
  ASSUME NEW S, NEW q \in Seq(S), q # <<>>, IsInjective(q)
  PROVE  list_del(Head(q), q) = Tail(q)
<1> DEFINE i == CHOOSE j \in DOMAIN q : q[j] = Head(q)
<1>1. Len(q) \in Nat \ {0} /\ DOMAIN q = 1 .. Len(q) /\ Head(q) = q[1]
  BY LenProperties, EmptySeq
<1>2. i \in DOMAIN q /\ q[i] = q[1]
  BY <1>1
<1>3. i = 1
  BY <1>1, <1>2 DEF IsInjective
<1>4. list_del(Head(q), q) = SubSeq(q, 1, 0) \o SubSeq(q, 2, Len(q))
  <2>1. list_del(Head(q), q) = SubSeq(q, 1, i - 1) \o SubSeq(q, i + 1, Len(q))
    BY Zenon DEF list_del
  <2> HIDE DEF i
  <2>2. i - 1 = 0 /\ i + 1 = 2
    BY <1>3
  <2> QED
    BY <2>1, <2>2
<1>5. SubSeq(q, 1, 0) = <<>>
  BY SubSeqEmpty
<1>6. SubSeq(q, 2, Len(q)) = Tail(q)
  BY TailIsSubSeq
<1>7. Tail(q) \in Seq(S)
  BY HeadTailProperties
<1> QED
  BY <1>4, <1>5, <1>6, <1>7, ConcatEmptySeq

\* Putting the first element back gives the list again.
LEMMA AddFirst ==
  ASSUME NEW S, NEW q \in Seq(S), q # <<>>
  PROVE  list_add(Head(q), Tail(q)) = q
BY HeadTailProperties, EmptySeq, LenProperties, SMT DEF list_add

(***************************************************************************)
(* How the operations move PCBs between the lists.  Parked is Linked at    *)
(* the moment when the task that leaves the CPU has been put in a list and *)
(* no other has been taken out.                                            *)
(***************************************************************************)
Parked(fq, rq, bq) ==
  /\ IsInjective(fq) /\ IsInjective(rq) /\ IsInjective(bq)
  /\ Range(fq) \cap Range(rq) = {}
  /\ Range(fq) \cap Range(bq) = {}
  /\ Range(rq) \cap Range(bq) = {}
  /\ IDLE \notin Range(fq) \cup Range(bq)
  /\ Tasks \ {IDLE} \subseteq Range(fq) \cup Range(rq) \cup Range(bq)

\* The task sched_next picks and the list it leaves.
NextOf(rq) == IF rq = <<>> THEN IDLE ELSE Head(rq)
RestOf(rq) == IF rq = <<>> THEN rq ELSE Tail(rq)

LEMMA IdleInit == IDLE \in Tasks /\ INIT \in Tasks /\ BOOT \in Tasks
                  /\ IDLE # INIT /\ IDLE # BOOT /\ INIT # BOOT
BY KernelAssumption DEF IDLE, INIT, BOOT, Tasks

\* sched_next takes the first ready task, or idle.
LEMMA DispatchLinked ==
  ASSUME NEW fq \in Seq(Tasks), NEW rq \in Seq(Tasks), NEW bq \in Seq(Tasks),
         Parked(fq, rq, bq)
  PROVE  /\ NextOf(rq) \in Tasks /\ RestOf(rq) \in Seq(Tasks)
         /\ Linked(fq, RestOf(rq), bq, NextOf(rq))
         /\ NextOf(rq) \in Range(rq) \cup {IDLE}
         /\ Range(RestOf(rq)) \subseteq Range(rq)
<1>1. CASE rq = <<>>
  <2>1. Range(rq) = {} /\ NextOf(rq) = IDLE /\ RestOf(rq) = rq
    BY <1>1 DEF Range, NextOf, RestOf
  <2> QED
    BY <2>1, IdleInit DEF Parked, Linked
<1>2. CASE rq # <<>>
  <2>1. NextOf(rq) = Head(rq) /\ RestOf(rq) = Tail(rq)
    BY <1>2 DEF NextOf, RestOf
  <2>2. /\ Head(rq) \in Tasks /\ Tail(rq) \in Seq(Tasks)
        /\ Range(rq) = {Head(rq)} \cup Range(Tail(rq))
        /\ IsInjective(rq) => IsInjective(Tail(rq)) /\ Head(rq) \notin Range(Tail(rq))
    BY <1>2, TailRange
  <2> QED
    BY <2>1, <2>2, Zenon DEF Parked, Linked
<1> QED
  BY <1>1, <1>2

\* The running task is put at the end of one of the lists; idle only ever of
\* readyqueue, or of none.
LEMMA ParkLinked ==
  ASSUME NEW fq \in Seq(Tasks), NEW rq \in Seq(Tasks), NEW bq \in Seq(Tasks),
         NEW run \in Tasks, Linked(fq, rq, bq, run)
  PROVE  /\ Parked(fq, Append(rq, run), bq)
         /\ run = IDLE => Parked(fq, rq, bq)
         /\ run # IDLE => Parked(Append(fq, run), rq, bq)
         /\ run # IDLE => Parked(fq, rq, Append(bq, run))
<1>1. /\ Range(Append(rq, run)) = Range(rq) \cup {run}
      /\ IsInjective(rq) /\ run \notin Range(rq) => IsInjective(Append(rq, run))
  BY AppendRange
<1>2. /\ Range(Append(fq, run)) = Range(fq) \cup {run}
      /\ IsInjective(fq) /\ run \notin Range(fq) => IsInjective(Append(fq, run))
  BY AppendRange
<1>3. /\ Range(Append(bq, run)) = Range(bq) \cup {run}
      /\ IsInjective(bq) /\ run \notin Range(bq) => IsInjective(Append(bq, run))
  BY AppendRange
<1>4. Parked(fq, Append(rq, run), bq)
  BY <1>1, Zenon DEF Linked, Parked
<1>5. run = IDLE => Parked(fq, rq, bq)
  BY Zenon DEF Linked, Parked
<1>6. run # IDLE => Parked(Append(fq, run), rq, bq)
  BY <1>2, Zenon DEF Linked, Parked
<1>7. run # IDLE => Parked(fq, rq, Append(bq, run))
  BY <1>3, Zenon DEF Linked, Parked
<1> QED
  BY <1>4, <1>5, <1>6, <1>7

\* unblock_process moves the first blocked task to the end of readyqueue.
LEMMA WakeLinked ==
  ASSUME NEW fq \in Seq(Tasks), NEW rq \in Seq(Tasks), NEW bq \in Seq(Tasks),
         NEW run \in Tasks, Linked(fq, rq, bq, run), bq # <<>>
  PROVE  Linked(fq, Append(rq, Head(bq)), Tail(bq), run)
<1>1. /\ Head(bq) \in Tasks /\ Tail(bq) \in Seq(Tasks)
      /\ Range(bq) = {Head(bq)} \cup Range(Tail(bq))
      /\ IsInjective(bq) => IsInjective(Tail(bq)) /\ Head(bq) \notin Range(Tail(bq))
  BY TailRange
<1>2. /\ Range(Append(rq, Head(bq))) = Range(rq) \cup {Head(bq)}
      /\ IsInjective(rq) /\ Head(bq) \notin Range(rq)
           => IsInjective(Append(rq, Head(bq)))
  BY <1>1, AppendRange
<1> QED
  BY <1>1, <1>2, Zenon DEF Linked

\* fork moves the first free PCB to the end of readyqueue.
LEMMA ForkLinked ==
  ASSUME NEW fq \in Seq(Tasks), NEW rq \in Seq(Tasks), NEW bq \in Seq(Tasks),
         NEW run \in Tasks, Linked(fq, rq, bq, run), fq # <<>>
  PROVE  Linked(Tail(fq), Append(rq, Head(fq)), bq, run)
<1>1. /\ Head(fq) \in Tasks /\ Tail(fq) \in Seq(Tasks)
      /\ Range(fq) = {Head(fq)} \cup Range(Tail(fq))
      /\ IsInjective(fq) => IsInjective(Tail(fq)) /\ Head(fq) \notin Range(Tail(fq))
  BY TailRange
<1>2. /\ Range(Append(rq, Head(fq))) = Range(rq) \cup {Head(fq)}
      /\ IsInjective(rq) /\ Head(fq) \notin Range(rq)
           => IsInjective(Append(rq, Head(fq)))
  BY <1>1, AppendRange
<1> QED
  BY <1>1, <1>2, Zenon DEF Linked

(***************************************************************************)
(* The inductive invariant.                                                *)
(***************************************************************************)

\* idle alone has PID 0, and no task that is ready or blocked is dead.
PidInv ==
  /\ PID[IDLE] = 0
  /\ \A t \in Tasks \ {IDLE} : PID[t] # 0
  /\ PID_MAX >= 1
  /\ \A t \in Range(readyqueue) \cup Range(console_blocked) : PID[t] # -1

\* idle never leaves the kernel, a task that is in a system call or in user mode
\* is alive, and only the task that boots is at main.
PointInv ==
  /\ where[IDLE] \in {"cpu_idle", "clock_sched", "clock_exit"}
  /\ \A t \in Tasks : where[t] \in {"user", "ret_from_fork", "read_return"}
                         => PID[t] # -1
  /\ \A t \in Tasks : where[t] = "boot" => t = cur /\ PID[t] = -1

\* Until main returns to user mode nothing but the console's silence and the
\* FCFS policy keeps the timer from switching away from the boot stack.
BootInv ==
  PID[cur] = -1 => /\ cur = BOOT /\ PID[INIT] # -1 /\ where[INIT] = "user"
                   /\ policy = FCFS
                   /\ readyqueue = <<>> /\ console_blocked = <<>>
                   /\ pending_reads = <<>>

\* Under FCFS nothing changes CPU_QUANTUM, not even in idle.
QuantumInv ==
  cur # IDLE \/ policy = FCFS => CPU_QUANTUM \in 0 .. INITIAL_QUANTUM

IInv ==
  /\ TypeOK
  /\ QueueIntegrity
  /\ ReadersMatchPending
  /\ Resumable
  /\ ContextMatches
  /\ PidInv
  /\ PointInv
  /\ BootInv
  /\ QuantumInv

States == {ST_RUN, ST_READY, ST_BLOCKED}
Ints   == -INT_MAX - 1 .. INT_MAX

\* Whoever is in user mode is a living process other than idle.
LEMMA UserRuns ==
  ASSUME IInv, where[cur] \in {"user", "ret_from_fork", "read_return"}
  PROVE  PID[cur] # -1 /\ Running = cur /\ cur # IDLE /\ cur \in Tasks
BY DEF IInv, TypeOK, PointInv, Running

\* What sched_next does under both policies.
LEMMA SchedNext ==
  ASSUME TypeOK, NEW rq \in Seq(Tasks), NEW cq \in Ints,
         NEW ts \in [Tasks -> States], NEW k \in Points,
         sched_next(rq, cq, ts, k)
  PROVE  /\ cur' = NextOf(rq) /\ cr3' = NextOf(rq) /\ esp0' = NextOf(rq)
         /\ readyqueue' = RestOf(rq)
         /\ where' = [where EXCEPT ![cur] = k]
         /\ t_state' \in [Tasks -> States]
         /\ CPU_QUANTUM' \in Ints
         /\ IF policy = RR /\ rq # <<>>
              THEN CPU_QUANTUM' \in 0 .. INITIAL_QUANTUM
              ELSE CPU_QUANTUM' = cq
<1>1. /\ task_switch(NextOf(rq), ts, k)
      /\ readyqueue' = RestOf(rq)
      /\ IF policy = RR /\ rq # <<>>
           THEN CPU_QUANTUM' = quantum[Head(rq)] ELSE CPU_QUANTUM' = cq
  BY DEF sched_next, sched_next_rr, sched_next_fcfs, list_empty, list_first,
         NextOf, RestOf
<1>2. rq # <<>> => Head(rq) \in Tasks
  BY HeadTailProperties
<1>3. NextOf(rq) \in Tasks
  BY <1>2, IdleInit DEF NextOf
<1>4. /\ cur' = NextOf(rq) /\ cr3' = NextOf(rq) /\ esp0' = NextOf(rq)
      /\ where' = [where EXCEPT ![cur] = k]
      /\ t_state' \in [Tasks -> States]
  BY <1>1, <1>3 DEF task_switch, inner_task_switch, TypeOK, States
<1>5. rq # <<>> => quantum[Head(rq)] \in 0 .. INITIAL_QUANTUM
  BY <1>2 DEF TypeOK
<1>6. 0 .. INITIAL_QUANTUM \subseteq Ints
  BY KernelAssumption DEF Ints
<1> QED
  BY <1>1, <1>4, <1>5, <1>6

(***************************************************************************)
(* Initial states.                                                         *)
(***************************************************************************)
LEMMA PagesFrames ==
  /\ Frames \subseteq Int
  /\ DataPages \subseteq UserPages /\ CodePages \subseteq UserPages
  /\ NoEntry \in PTE
  /\ \A pm : Allocatable(pm) \subseteq Frames
  /\ \A pm, P : \A g \in alloc_frame(pm, P) : g \in [P -> Frames]
<1>1. 0 \in Frames /\ Frames \subseteq Int
  BY MMAssumption DEF Frames
<1>2. \A pm : Allocatable(pm) \subseteq Frames
  BY MMAssumption DEF Allocatable, Frames
<1>3. \A pm, P : \A g \in alloc_frame(pm, P) : g \in [P -> Frames]
  BY <1>2, Zenon DEF alloc_frame
<1> QED
  BY <1>1, <1>2, <1>3 DEF UserPages, NoEntry, PTE

LEMMA InitIInv == Init => IInv
<1> SUFFICES ASSUME Init PROVE IInv
  OBVIOUS
<1> DEFINE fq == [i \in 1 .. NR_TASKS - 2 |-> NR_TASKS - 2 - i]
<1>1. fq \in Seq(Tasks) /\ DOMAIN fq = 1 .. NR_TASKS - 2
  <2>1. NR_TASKS - 2 \in Nat
    BY KernelAssumption
  <2>2. \A i \in 1 .. NR_TASKS - 2 : NR_TASKS - 2 - i \in Tasks
    BY KernelAssumption DEF Tasks
  <2> QED
    BY <2>1, <2>2, IsASeq
<1>2. IsInjective(fq) /\ Range(fq) = Tasks \ {IDLE, INIT}
  <2>1. IsInjective(fq)
    BY KernelAssumption DEF IsInjective
  <2>2. ASSUME NEW t \in Tasks \ {IDLE, INIT} PROVE t \in Range(fq)
    <3>1. NR_TASKS - 2 - t \in 1 .. NR_TASKS - 2
      BY <2>2, KernelAssumption DEF Tasks, IDLE, INIT
    <3>2. fq[NR_TASKS - 2 - t] = t
      BY <3>1, KernelAssumption DEF Tasks
    <3> QED
      BY <3>1, <3>2 DEF Range
  <2>3. ASSUME NEW i \in DOMAIN fq PROVE fq[i] \in Tasks \ {IDLE, INIT}
    BY KernelAssumption DEF Tasks, IDLE, INIT
  <2> QED
    BY <2>1, <2>2, <2>3 DEF Range
<1> HIDE DEF fq
<1>3. freequeue = fq
  BY DEF Init, fq
<1>4. TypeOK
  <2>1. /\ quantum \in [Tasks -> 0 .. INITIAL_QUANTUM]
        /\ CPU_QUANTUM \in -INT_MAX - 1 .. INT_MAX
        /\ PID \in [Tasks -> Int] /\ eax \in [Tasks -> Int]
        /\ free_iorbs \in Nat /\ PID_MAX \in Nat
    BY KernelAssumption DEF Init
  <2>2. /\ cur \in Tasks /\ cr3 \in Tasks /\ esp0 \in Tasks
        /\ policy \in {RR, FCFS}
        /\ mem \in [Frames -> Values]
    BY IdleInit, KernelAssumption DEF Init, init_sched_policy
  <2>3. t_state \in [Tasks -> {ST_RUN, ST_READY, ST_BLOCKED}]
    BY DEF Init
  <2>4. where \in [Tasks -> Points]
    BY DEF Init, Points, Interruptible
  <2>5. /\ freequeue \in Seq(Tasks) /\ readyqueue \in Seq(Tasks)
        /\ console_blocked \in Seq(Tasks)
        /\ pending_reads \in Seq([task : Tasks, ticks : Int])
    BY <1>1, <1>3, EmptySeq DEF Init
  <2>6. /\ phys_mem \in [Frames -> {FREE_FRAME, USED_FRAME}]
        /\ pagusr_table \in [Tasks -> [UserPages -> PTE]]
    <3>1. PICK g \in alloc_frame(init_frames, CodePages \cup DataPages) :
            /\ phys_mem = MarkUsed(init_frames,
                                   {g[p] : p \in CodePages \cup DataPages})
            /\ pagusr_table = [t \in Tasks |->
                 IF t = INIT THEN set_user_pages(g) ELSE init_table_pages]
      BY DEF Init
    <3>2. init_frames \in [Frames -> {FREE_FRAME, USED_FRAME}]
      BY DEF init_frames
    <3>3. phys_mem \in [Frames -> {FREE_FRAME, USED_FRAME}]
      BY <3>1, <3>2 DEF MarkUsed
    <3>4. g \in [CodePages \cup DataPages -> Frames]
      BY PagesFrames
    <3>5. set_user_pages(g) \in [UserPages -> PTE]
      BY <3>4, PagesFrames DEF set_user_pages, PTE
    <3>6. init_table_pages \in [UserPages -> PTE]
      BY PagesFrames DEF init_table_pages
    <3> QED
      BY <3>1, <3>3, <3>5, <3>6
  <2> QED
    BY <2>1, <2>2, <2>3, <2>4, <2>5, <2>6 DEF TypeOK
<1>5. /\ PID[BOOT] = -1 /\ PID[INIT] = 1 /\ PID[IDLE] = 0
      /\ cur = BOOT /\ Running = INIT
  BY IdleInit DEF Init, Running
<1>6. Range(readyqueue) = {} /\ Range(console_blocked) = {}
      /\ IsInjective(readyqueue) /\ IsInjective(console_blocked)
  BY DEF Init, Range, IsInjective
<1>7. QueueIntegrity
  BY <1>2, <1>3, <1>5, <1>6, IdleInit DEF QueueIntegrity, Linked
<1>8. ReadersMatchPending
  BY KernelAssumption DEF Init, ReadersMatchPending
<1>9. Resumable
  BY <1>2, <1>3, <1>5, <1>6, IdleInit DEF Init, Resumable
<1>10. ContextMatches
  BY <1>5 DEF Init, ContextMatches
<1>11. PidInv /\ PointInv
  BY <1>5, <1>6, IdleInit DEF Init, PidInv, PointInv
<1>12. BootInv /\ QuantumInv
  BY <1>5, IdleInit, KernelAssumption
     DEF Init, BootInv, QuantumInv, init_sched_policy
<1> QED
  BY <1>4, <1>7, <1>8, <1>9, <1>10, <1>11, <1>12 DEF IInv

(***************************************************************************)
(* Steps that leave lists, PIDs and CPU alone.                             *)
(***************************************************************************)

\* No list holds the current task, the boot stack in freequeue aside.
LEMMA CurUnlinked ==
  ASSUME IInv
  PROVE  /\ cur \in Tasks
         /\ cur \notin Range(readyqueue) \cup Range(console_blocked)
         /\ PID[cur] # -1 => Running = cur /\ cur \notin Range(freequeue)
<1>1. CASE PID[cur] = -1
  BY <1>1 DEF IInv, TypeOK, BootInv, Range
<1>2. CASE PID[cur] # -1
  BY <1>2 DEF IInv, TypeOK, QueueIntegrity, Linked, Running
<1> QED
  BY <1>1, <1>2

\* The current task goes on to point k and nothing else moves.
LEMMA Quiet ==
  ASSUME IInv, NEW k \in Points \ {"dead"},
         where' = [where EXCEPT ![cur] = k],
         UNCHANGED <<cpuVars, PID, queueVars, ioVars, PID_MAX>>,
         cur = IDLE => k \in {"cpu_idle", "clock_sched", "clock_exit"},
         k \in {"user", "ret_from_fork", "read_return"} => PID[cur] # -1,
         k = "boot" => PID[cur] = -1
  PROVE  /\ QueueIntegrity' /\ ReadersMatchPending' /\ Resumable'
         /\ ContextMatches' /\ PidInv' /\ PointInv'
<1> USE DEF cpuVars, queueVars, ioVars
<1>1. QueueIntegrity' /\ ReadersMatchPending' /\ ContextMatches' /\ PidInv'
  BY DEF IInv, QueueIntegrity, ReadersMatchPending, ContextMatches, PidInv,
         Linked, Running
<1>2. where' \in [Tasks -> Points] /\ where'[cur] = k
      /\ \A t \in Tasks \ {cur} : where'[t] = where[t]
  BY CurUnlinked DEF IInv, TypeOK
<1>3. /\ Range(readyqueue) \subseteq Tasks /\ Range(console_blocked) \subseteq Tasks
      /\ Range(freequeue) \subseteq Tasks
  BY RangeOfSeq DEF IInv, TypeOK
<1>4. Resumable'
  BY <1>2, <1>3, CurUnlinked DEF IInv, Resumable
<1>5. PointInv'
  BY <1>2, CurUnlinked, IdleInit DEF IInv, PointInv
<1> QED
  BY <1>1, <1>4, <1>5

LEMMA ReturnGateIInv == IInv /\ return_gate => IInv'
<1> SUFFICES ASSUME IInv, return_gate PROVE IInv'
  OBVIOUS
<1>1. /\ cur = BOOT /\ PID[cur] = -1 /\ PID[INIT] # -1 /\ policy = FCFS
      /\ where[INIT] = "user"
      /\ readyqueue = <<>> /\ console_blocked = <<>> /\ pending_reads = <<>>
  BY CurUnlinked DEF IInv, return_gate, PointInv, BootInv
<1>2. TypeOK'
  BY IdleInit DEF IInv, TypeOK, return_gate, queueVars, ioVars, mmVars, Points
<1>3. /\ where' \in [Tasks -> Points] /\ where'[BOOT] = "dead"
      /\ \A t \in Tasks \ {BOOT} : where'[t] = where[t]
      /\ UNCHANGED <<PID, PID_MAX, queueVars, ioVars, cr3, esp0, policy, CPU_QUANTUM>>
      /\ cur' = INIT
  BY <1>1, IdleInit DEF IInv, TypeOK, return_gate, Points
<1>4. Running = INIT /\ Running' = INIT
  BY <1>1, <1>3 DEF Running
<1>5. QueueIntegrity' /\ ReadersMatchPending' /\ ContextMatches' /\ PidInv'
  BY <1>3, <1>4 DEF IInv, QueueIntegrity, ReadersMatchPending, ContextMatches,
                    PidInv, Linked, queueVars, ioVars
<1>6. Range(readyqueue) = {} /\ Range(console_blocked) = {}
      /\ Range(freequeue) \subseteq Tasks
  BY <1>1, RangeOfSeq DEF Range, IInv, TypeOK
<1>7. INIT \in Tasks /\ BOOT \in Tasks /\ INIT # BOOT /\ IDLE # INIT /\ IDLE # BOOT
  BY IdleInit
<1>8. Resumable'
  BY <1>1, <1>3, <1>4, <1>6, <1>7 DEF IInv, Resumable, queueVars
<1>9. PointInv'
  BY <1>1, <1>3, IdleInit DEF IInv, PointInv
<1>10. BootInv' /\ QuantumInv'
  BY <1>1, <1>3, <1>7 DEF IInv, BootInv, QuantumInv
<1> QED
  BY <1>2, <1>5, <1>8, <1>9, <1>10 DEF IInv

LEMMA ClockExitIInv == IInv /\ clock_exit => IInv'
<1> SUFFICES ASSUME IInv, clock_exit PROVE IInv'
  OBVIOUS
<1>1. cur \in Tasks /\ PID[IDLE] = 0
  BY CurUnlinked DEF IInv, PidInv
<1>2. /\ Interrupted(cur) \in Points \ {"dead"}
      /\ cur = IDLE => Interrupted(cur) \in {"cpu_idle", "clock_sched", "clock_exit"}
      /\ Interrupted(cur) \in {"user", "ret_from_fork", "read_return"} => PID[cur] # -1
      /\ Interrupted(cur) = "boot" => PID[cur] = -1
  BY <1>1 DEF Interrupted, Points, Interruptible
<1>3. where' = [where EXCEPT ![cur] = Interrupted(cur)]
  BY DEF clock_exit
<1>4. /\ QueueIntegrity' /\ ReadersMatchPending' /\ Resumable'
      /\ ContextMatches' /\ PidInv' /\ PointInv'
  BY <1>2, <1>3, Quiet DEF clock_exit, cpuVars, queueVars, ioVars
<1>5. TypeOK'
  BY <1>2 DEF IInv, TypeOK, clock_exit, cpuVars, queueVars, ioVars, mmVars
<1>6. BootInv'
  BY <1>1, <1>3, IdleInit
     DEF IInv, BootInv, TypeOK, clock_exit, cpuVars, queueVars, ioVars
<1>7. QuantumInv'
  BY DEF IInv, QuantumInv, clock_exit, cpuVars
<1> QED
  BY <1>4, <1>5, <1>6, <1>7 DEF IInv

LEMMA RetFromForkIInv == IInv /\ ret_from_fork => IInv'
<1> SUFFICES ASSUME IInv, ret_from_fork PROVE IInv'
  OBVIOUS
<1>1. PID[cur] # -1 /\ cur # IDLE
  BY UserRuns DEF ret_from_fork
<1>2. where' = [where EXCEPT ![cur] = "user"] /\ "user" \in Points \ {"dead"}
  BY DEF ret_from_fork, Points, Interruptible
<1>3. /\ QueueIntegrity' /\ ReadersMatchPending' /\ Resumable'
      /\ ContextMatches' /\ PidInv' /\ PointInv'
  BY <1>1, <1>2, Quiet DEF ret_from_fork, cpuVars, queueVars, ioVars
<1>4. TypeOK'
  BY <1>2 DEF IInv, TypeOK, ret_from_fork, Return, cpuVars, queueVars, ioVars, mmVars
<1>5. BootInv' /\ QuantumInv'
  BY <1>1 DEF IInv, BootInv, QuantumInv, ret_from_fork, cpuVars
<1> QED
  BY <1>3, <1>4, <1>5 DEF IInv

LEMMA ReadReturnIInv == IInv /\ read_return => IInv'
<1> SUFFICES ASSUME IInv, read_return PROVE IInv'
  OBVIOUS
<1>1. PID[cur] # -1 /\ cur # IDLE
  BY UserRuns DEF read_return
<1>2. where' = [where EXCEPT ![cur] = "user"] /\ "user" \in Points \ {"dead"}
  BY DEF read_return, Points, Interruptible
<1>3. /\ QueueIntegrity' /\ ReadersMatchPending' /\ Resumable'
      /\ ContextMatches' /\ PidInv' /\ PointInv'
  BY <1>1, <1>2, Quiet DEF read_return, cpuVars, queueVars, ioVars
<1>4. TypeOK'
  BY <1>2 DEF IInv, TypeOK, read_return, cpuVars, queueVars, ioVars, mmVars
<1>5. BootInv' /\ QuantumInv'
  BY <1>1 DEF IInv, BootInv, QuantumInv, read_return, cpuVars
<1> QED
  BY <1>3, <1>4, <1>5 DEF IInv

\* System calls and stores that return to user mode at once.
LEMMA StayInUser ==
  ASSUME IInv, where[cur] = "user", TypeOK',
         UNCHANGED <<cpuVars, PID, where, queueVars, ioVars, PID_MAX, CPU_QUANTUM>>
  PROVE  IInv'
<1>1. PID[cur] # -1 /\ cur # IDLE /\ cur \in Tasks
  BY UserRuns
<1>2. where' = [where EXCEPT ![cur] = "user"] /\ "user" \in Points \ {"dead"}
  BY <1>1 DEF IInv, TypeOK, Points, Interruptible
<1>3. /\ QueueIntegrity' /\ ReadersMatchPending' /\ Resumable'
      /\ ContextMatches' /\ PidInv' /\ PointInv'
  BY <1>1, <1>2, Quiet DEF cpuVars, queueVars, ioVars
<1>4. BootInv' /\ QuantumInv'
  BY <1>1 DEF IInv, BootInv, QuantumInv, cpuVars
<1> QED
  BY <1>3, <1>4 DEF IInv

LEMMA SetPolicyIInv ==
  ASSUME IInv, NEW p \in Policies, sys_set_sched_policy(p) PROVE IInv'
<1>1. policy' \in {RR, FCFS}
  BY Zenon DEF IInv, TypeOK, sys_set_sched_policy
<1>2. PICK r \in Int : Return(r)
  BY DEF sys_set_sched_policy, EINVAL
<1>3. TypeOK'
  BY <1>1, <1>2
     DEF IInv, TypeOK, sys_set_sched_policy, Return, cpuVars, queueVars, ioVars, mmVars
<1> QED
  BY <1>3, StayInUser DEF sys_set_sched_policy, cpuVars, queueVars, ioVars

LEMMA UserStoreIInv ==
  ASSUME IInv, NEW p \in UserPages, NEW v \in Values, user_store(p, v) PROVE IInv'
<1>1. TypeOK'
  BY DEF IInv, TypeOK, user_store, get_frame, cpuVars, queueVars, ioVars, PTE
<1> QED
  BY <1>1, StayInUser DEF user_store, cpuVars, queueVars, ioVars

LEMMA ReadErrorIInv ==
  ASSUME IInv, where[cur] = "user", NEW r \in Int, sys_read_error(r) PROVE IInv'
<1>1. TypeOK'
  BY DEF IInv, TypeOK, sys_read_error, Return, cpuVars, queueVars, ioVars, mmVars
<1> QED
  BY <1>1, StayInUser DEF sys_read_error, cpuVars, queueVars, ioVars

(***************************************************************************)
(* Steps that give the CPU to another task.                                *)
(***************************************************************************)

\* The current task stops at point k, linked in the list that belongs to k,
\* and sched_next runs with rq for readyqueue.
LEMMA Switch ==
  ASSUME IInv, PID[cur] # -1,
         NEW rq \in Seq(Tasks), NEW cq \in Ints, NEW ts \in [Tasks -> States],
         NEW k \in InTaskSwitch \cup {"dead"},
         sched_next(rq, cq, ts, k),
         freequeue' \in Seq(Tasks), console_blocked' \in Seq(Tasks),
         Parked(freequeue', rq, console_blocked'),
         Range(rq) \subseteq Range(readyqueue) \cup Range(console_blocked) \cup {cur},
         Range(console_blocked') \subseteq Range(console_blocked) \cup {cur},
         Range(freequeue') \subseteq Range(freequeue) \cup {cur},
         cur \in Range(rq) => k # "dead",
         cur \in Range(console_blocked') => k = "read_return",
         cur \in Range(freequeue') => k = "dead",
         cur = IDLE => k \in {"clock_sched", "clock_exit"},
         IF k = "dead" THEN PID' = [PID EXCEPT ![cur] = -1] ELSE PID' = PID,
         PID_MAX' = PID_MAX, policy' = policy,
         policy = FCFS => cq \in 0 .. INITIAL_QUANTUM
  PROVE  /\ QueueIntegrity' /\ Resumable' /\ ContextMatches' /\ PidInv'
         /\ PointInv' /\ BootInv' /\ QuantumInv'
         /\ cur' \in Tasks /\ cr3' \in Tasks /\ esp0' \in Tasks
         /\ PID' \in [Tasks -> Int] /\ where' \in [Tasks -> Points]
         /\ readyqueue' \in Seq(Tasks)
         /\ t_state' \in [Tasks -> States] /\ CPU_QUANTUM' \in Ints
<1> DEFINE next == NextOf(rq)
<1>1. k \in Points
  BY DEF Points, InTaskSwitch
<1>2. /\ cur' = next /\ cr3' = next /\ esp0' = next
      /\ readyqueue' = RestOf(rq)
      /\ where' = [where EXCEPT ![cur] = k]
      /\ t_state' \in [Tasks -> States]
      /\ CPU_QUANTUM' \in Ints
      /\ IF policy = RR /\ rq # <<>>
           THEN CPU_QUANTUM' \in 0 .. INITIAL_QUANTUM
           ELSE CPU_QUANTUM' = cq
  BY <1>1, SchedNext DEF IInv
<1>3. /\ next \in Tasks /\ RestOf(rq) \in Seq(Tasks)
      /\ Linked(freequeue', RestOf(rq), console_blocked', next)
      /\ next \in Range(rq) \cup {IDLE}
      /\ Range(RestOf(rq)) \subseteq Range(rq)
  BY DispatchLinked
<1>4. /\ cur \in Tasks
      /\ cur \notin Range(readyqueue) \cup Range(console_blocked)
      /\ Running = cur /\ cur \notin Range(freequeue)
  BY CurUnlinked
<1>5. /\ where' \in [Tasks -> Points] /\ where'[cur] = k
      /\ \A t \in Tasks \ {cur} : where'[t] = where[t]
  BY <1>1, <1>2, <1>4 DEF IInv, TypeOK
<1>6. /\ PID' \in [Tasks -> Int]
      /\ \A t \in Tasks \ {cur} : PID'[t] = PID[t]
      /\ PID'[cur] = IF k = "dead" THEN -1 ELSE PID[cur]
  <2>1. PID \in [Tasks -> Int]
    BY DEF IInv, TypeOK
  <2>2. CASE k = "dead"
    BY <1>4, <2>1, <2>2
  <2>3. CASE k # "dead"
    BY <1>4, <2>1, <2>3
  <2> QED
    BY <2>2, <2>3
<1>7. /\ Range(readyqueue) \subseteq Tasks /\ Range(console_blocked) \subseteq Tasks
      /\ Range(freequeue) \subseteq Tasks
  BY RangeOfSeq DEF IInv, TypeOK
<1> HIDE DEF next
<1>8. \A t \in Range(rq) : PID'[t] # -1
  BY <1>4, <1>6, <1>7 DEF IInv, PidInv
<1>9. PidInv'
  <2>1. PID'[IDLE] = 0 /\ \A t \in Tasks \ {IDLE} : PID'[t] # 0
    BY <1>4, <1>6, IdleInit DEF IInv, PidInv
  <2>2. \A t \in Range(readyqueue') : PID'[t] # -1
    BY <1>2, <1>3, <1>8
  <2>3. \A t \in Range(console_blocked') : PID'[t] # -1
    BY <1>4, <1>6, <1>7 DEF IInv, PidInv
  <2> QED
    BY <2>1, <2>2, <2>3 DEF IInv, PidInv
<1>10. PID'[cur'] # -1 /\ Running' = cur'
  BY <1>2, <1>3, <1>8, <1>9 DEF PidInv, Running
<1>11. QueueIntegrity' /\ ContextMatches' /\ BootInv'
  BY <1>2, <1>3, <1>10 DEF QueueIntegrity, ContextMatches, BootInv
<1>12. Resumable'
  <2>1. \A t \in Range(rq) : where'[t] \in InTaskSwitch \cup {"ret_from_fork"}
    <3>1. ASSUME NEW t \in Range(rq), t # cur
          PROVE  where'[t] \in InTaskSwitch \cup {"ret_from_fork"}
      BY <1>5, <1>7, <3>1 DEF IInv, Resumable, InTaskSwitch
    <3> QED
      BY <3>1, <1>5
  <2>2. \A t \in Range(console_blocked') : where'[t] = "read_return"
    BY <1>5, <1>7 DEF IInv, Resumable
  <2>3. \A t \in Range(freequeue') : where'[t] = "dead"
    BY <1>4, <1>5, <1>7 DEF IInv, Resumable
  <2>4. where'[cur'] # "dead"
    <3>1. where'[IDLE] # "dead"
      BY <1>5, IdleInit DEF IInv, PointInv
    <3> QED
      BY <1>2, <1>3, <2>1, <3>1 DEF InTaskSwitch
  <2> QED
    BY <1>2, <1>3, <2>1, <2>2, <2>3, <2>4 DEF Resumable
<1>13. PointInv'
  BY <1>4, <1>5, <1>6, IdleInit DEF IInv, PointInv, InTaskSwitch
<1>14. QuantumInv'
  <2>1. CASE policy = FCFS
    BY <1>2, <2>1 DEF QuantumInv, RR, FCFS
  <2>2. CASE policy # FCFS
    <3>1. policy = RR /\ policy' # FCFS
      BY <2>2 DEF IInv, TypeOK
    <3>2. cur' # IDLE => rq # <<>>
      BY <1>2 DEF NextOf, next
    <3> QED
      BY <1>2, <3>1, <3>2 DEF QuantumInv
  <2> QED
    BY <2>1, <2>2
<1> QED
  BY <1>2, <1>3, <1>5, <1>6, <1>9, <1>11, <1>12, <1>13, <1>14

LEMMA UpdateSchedData ==
  ASSUME IInv
  PROVE  /\ update_sched_data(CPU_QUANTUM) \in Ints
         /\ policy = FCFS => update_sched_data(CPU_QUANTUM) = CPU_QUANTUM
         /\ CPU_QUANTUM \in 0 .. INITIAL_QUANTUM
              => update_sched_data(CPU_QUANTUM) <= INITIAL_QUANTUM
<1>1. CPU_QUANTUM \in -INT_MAX - 1 .. INT_MAX
  BY DEF IInv, TypeOK
<1> QED
  BY <1>1, KernelAssumption
     DEF update_sched_data, update_sched_data_rr, Ints, RR, FCFS

\* A step of the timer interrupt that stays with the current task.
LEMMA ClockStays ==
  ASSUME IInv, NEW k \in {"clock_sched", "clock_exit"},
         where' = [where EXCEPT ![cur] = k],
         UNCHANGED <<cpuVars, PID, queueVars, ioVars, PID_MAX, policy>>
  PROVE  /\ QueueIntegrity' /\ ReadersMatchPending' /\ Resumable'
         /\ ContextMatches' /\ PidInv' /\ PointInv' /\ BootInv'
<1>1. k \in Points \ {"dead"}
  BY DEF Points, InTaskSwitch
<1>2. /\ QueueIntegrity' /\ ReadersMatchPending' /\ Resumable'
      /\ ContextMatches' /\ PidInv' /\ PointInv'
  BY <1>1, Quiet DEF cpuVars, queueVars, ioVars
<1>3. BootInv'
  BY CurUnlinked, IdleInit DEF IInv, BootInv, TypeOK, cpuVars, queueVars, ioVars
<1> QED
  BY <1>2, <1>3

LEMMA ClockSchedIInv == IInv /\ clock_sched => IInv'
<1> SUFFICES ASSUME IInv, clock_sched PROVE IInv'
  OBVIOUS
<1> DEFINE cq == update_sched_data(CPU_QUANTUM)
           rq == IF PID[cur] # 0 THEN update_current_state(readyqueue)
                                 ELSE readyqueue
<1>1. UNCHANGED <<PID, quantum, eax, freequeue, console_blocked, ioVars, policy,
                  PID_MAX, mmVars>>
  BY DEF clock_sched
<1>2. cq \in Ints /\ cur \in Tasks /\ t_state \in [Tasks -> States]
  BY UpdateSchedData, CurUnlinked DEF IInv, TypeOK, States
<1>3. CASE needs_sched(cq, readyqueue)
  <2>1. sched_next(rq, cq, t_state, "clock_exit")
    BY <1>3 DEF clock_sched
  <2>2. PID[cur] # -1 /\ Running = cur
    <3>1. policy = FCFS => cur = IDLE
      BY <1>3 DEF needs_sched, needs_sched_fcfs, RR, FCFS
    <3> QED
      BY <3>1, CurUnlinked, IdleInit DEF IInv, BootInv, PidInv
  <2>3. /\ freequeue \in Seq(Tasks) /\ readyqueue \in Seq(Tasks)
        /\ console_blocked \in Seq(Tasks)
        /\ Linked(freequeue, readyqueue, console_blocked, cur)
    BY <2>2 DEF IInv, TypeOK, QueueIntegrity
  <2>4. rq \in Seq(Tasks) /\ Range(rq) \subseteq Range(readyqueue) \cup {cur}
    BY <1>2, <2>3, AppendRange DEF update_current_state, list_add_tail
  <2>5. PID[cur] = 0 => cur = IDLE
    BY <1>2 DEF IInv, PidInv
  <2>6. Parked(freequeue, rq, console_blocked)
    BY <1>2, <2>3, <2>5, ParkLinked DEF update_current_state, list_add_tail
  <2>7. policy = FCFS => cq \in 0 .. INITIAL_QUANTUM
    BY UpdateSchedData DEF IInv, QuantumInv
  <2>8. "clock_exit" \in InTaskSwitch
    BY DEF InTaskSwitch
  <2> HIDE DEF rq, cq
  <2>9. /\ QueueIntegrity' /\ Resumable' /\ ContextMatches' /\ PidInv'
        /\ PointInv' /\ BootInv' /\ QuantumInv'
        /\ cur' \in Tasks /\ cr3' \in Tasks /\ esp0' \in Tasks
        /\ PID' \in [Tasks -> Int] /\ where' \in [Tasks -> Points]
        /\ readyqueue' \in Seq(Tasks)
        /\ t_state' \in [Tasks -> States] /\ CPU_QUANTUM' \in Ints
    BY <1>1, <1>2, <2>1, <2>2, <2>3, <2>4, <2>6, <2>7, <2>8, CurUnlinked, Switch
  <2>10. TypeOK'
    BY <1>1, <2>9 DEF IInv, TypeOK, ioVars, mmVars, States, Ints
  <2>11. ReadersMatchPending'
    BY <1>1 DEF IInv, ReadersMatchPending, ioVars
  <2> QED
    BY <2>9, <2>10, <2>11 DEF IInv
<1>4. CASE ~needs_sched(cq, readyqueue)
  <2>1. /\ CPU_QUANTUM' = cq
        /\ where' = [where EXCEPT ![cur] = "clock_exit"]
        /\ UNCHANGED <<cpuVars, t_state, readyqueue>>
    BY <1>4 DEF clock_sched
  <2>2. TypeOK'
    BY <1>1, <1>2, <2>1
       DEF IInv, TypeOK, cpuVars, ioVars, mmVars, Ints, Points, InTaskSwitch
  <2>3. QuantumInv'
    <3>1. CASE policy = FCFS
      BY <1>1, <2>1, <3>1, UpdateSchedData DEF IInv, QuantumInv, cpuVars
    <3>2. CASE policy # FCFS /\ cur # IDLE
      <4>1. policy = RR
        BY <3>2 DEF IInv, TypeOK
      <4>2. cq > 0
        BY <1>2, <1>4, <4>1 DEF needs_sched, needs_sched_rr, Ints
      <4>3. cq <= INITIAL_QUANTUM
        BY <3>2, UpdateSchedData DEF IInv, QuantumInv
      <4>4. cq \in 0 .. INITIAL_QUANTUM
        BY <1>2, <4>2, <4>3, KernelAssumption DEF Ints
      <4> QED
        BY <2>1, <4>4 DEF QuantumInv
    <3>3. CASE policy # FCFS /\ cur = IDLE
      BY <1>1, <2>1, <3>3 DEF QuantumInv, cpuVars
    <3> QED
      BY <3>1, <3>2, <3>3
  <2> QED
    BY <1>1, <2>1, <2>2, <2>3, ClockStays DEF IInv, queueVars
<1> QED
  BY <1>3, <1>4

\* The console's first request is that of the first blocked task; serving it
\* drops both.
LEMMA FirstReader ==
  ASSUME IInv, pending_reads # <<>>
  PROVE  /\ PID[cur] # -1 /\ Running = cur
         /\ console_blocked # <<>>
         /\ Head(pending_reads).task = Head(console_blocked)
         /\ Head(console_blocked) \in Tasks
         /\ list_del(Head(console_blocked), console_blocked) = Tail(console_blocked)
         /\ Tail(console_blocked) \in Seq(Tasks)
         /\ Tail(pending_reads) \in Seq([task : Tasks, ticks : Int])
         /\ Len(Tail(console_blocked)) = Len(Tail(pending_reads))
         /\ \A i \in DOMAIN Tail(pending_reads) :
              Tail(console_blocked)[i] = Tail(pending_reads)[i].task
         /\ Len(Tail(pending_reads)) + (free_iorbs + 1) = NR_IORBS
<1> DEFINE R == [task : Tasks, ticks : Int]
<1>1. /\ pending_reads \in Seq(R) /\ console_blocked \in Seq(Tasks)
      /\ free_iorbs \in Nat
  BY DEF IInv, TypeOK
<1>2. /\ Len(console_blocked) = Len(pending_reads)
      /\ \A i \in DOMAIN pending_reads : console_blocked[i] = pending_reads[i].task
      /\ Len(pending_reads) + free_iorbs = NR_IORBS
  BY DEF IInv, ReadersMatchPending
<1>3. Len(pending_reads) \in Nat \ {0} /\ DOMAIN pending_reads = 1 .. Len(pending_reads)
  BY <1>1, LenProperties, EmptySeq
<1>4. console_blocked # <<>>
  BY <1>2, <1>3
<1>5. /\ Tail(pending_reads) \in Seq(R)
      /\ Len(Tail(pending_reads)) = Len(pending_reads) - 1
      /\ \A i \in 1 .. Len(Tail(pending_reads)) :
           Tail(pending_reads)[i] = pending_reads[i + 1]
      /\ Head(pending_reads) = pending_reads[1]
  BY <1>1, TailRange
<1>6. /\ Head(console_blocked) \in Tasks /\ Tail(console_blocked) \in Seq(Tasks)
      /\ Len(Tail(console_blocked)) = Len(console_blocked) - 1
      /\ \A i \in 1 .. Len(Tail(console_blocked)) :
           Tail(console_blocked)[i] = console_blocked[i + 1]
      /\ Head(console_blocked) = console_blocked[1]
  BY <1>1, <1>4, TailRange
<1>7. IsInjective(console_blocked)
  BY DEF IInv, QueueIntegrity, Linked
<1>8. list_del(Head(console_blocked), console_blocked) = Tail(console_blocked)
  BY <1>1, <1>4, <1>7, DelFirst
<1>9. Head(pending_reads).task = Head(console_blocked)
  BY <1>2, <1>3, <1>5, <1>6
<1>10. DOMAIN Tail(pending_reads) = 1 .. Len(pending_reads) - 1
  BY <1>5, LenProperties
<1>11. \A i \in DOMAIN Tail(pending_reads) :
         Tail(console_blocked)[i] = Tail(pending_reads)[i].task
  BY <1>2, <1>3, <1>5, <1>6, <1>10
<1>12. Len(Tail(pending_reads)) + (free_iorbs + 1) = NR_IORBS
  BY <1>1, <1>2, <1>3, <1>5
<1>13. PID[cur] # -1 /\ Running = cur
  BY CurUnlinked DEF IInv, BootInv
<1> QED
  BY <1>2, <1>4, <1>5, <1>6, <1>8, <1>9, <1>11, <1>12, <1>13

\* The rest of clock_routine's frame.
ClockFrame == UNCHANGED <<PID, quantum, eax, freequeue, policy, PID_MAX, mmVars>>

LEMMA UnblockIInv ==
  ASSUME IInv, ClockFrame, pending_reads # <<>>,
         pending_reads' = Tail(pending_reads), free_iorbs' = free_iorbs + 1,
         unblock_process(Head(pending_reads).task)
  PROVE  IInv'
<1> DEFINE b  == Head(console_blocked)
           r1 == Append(readyqueue, b)
           r2 == Append(r1, cur)
           ts == [t_state EXCEPT ![b] = ST_READY]
<1>1. /\ PID[cur] # -1 /\ Running = cur /\ cur \in Tasks
      /\ console_blocked # <<>> /\ Head(pending_reads).task = b /\ b \in Tasks
      /\ list_del(b, console_blocked) = Tail(console_blocked)
      /\ Tail(console_blocked) \in Seq(Tasks)
  BY FirstReader, CurUnlinked
<1>2. ReadersMatchPending' /\ pending_reads' \in Seq([task : Tasks, ticks : Int])
      /\ free_iorbs' \in Nat /\ console_blocked' = Tail(console_blocked)
  <2>1. console_blocked' = Tail(console_blocked)
    BY <1>1 DEF unblock_process
  <2>2. free_iorbs \in Nat
    BY DEF IInv, TypeOK
  <2> QED
    BY <2>1, <2>2, FirstReader DEF ReadersMatchPending
<1>3. /\ freequeue \in Seq(Tasks) /\ readyqueue \in Seq(Tasks)
      /\ console_blocked \in Seq(Tasks)
      /\ Linked(freequeue, readyqueue, console_blocked, cur)
      /\ CPU_QUANTUM \in Ints /\ t_state \in [Tasks -> States]
  BY <1>1 DEF IInv, TypeOK, QueueIntegrity, Ints, States
<1>4. Linked(freequeue, r1, Tail(console_blocked), cur)
  BY <1>1, <1>3, WakeLinked
<1>5. r1 \in Seq(Tasks) /\ Range(r1) = Range(readyqueue) \cup {b}
  BY <1>1, <1>3, AppendRange
<1>6. r2 \in Seq(Tasks) /\ Range(r2) = Range(readyqueue) \cup {b, cur}
  <2> HIDE DEF r1, b
  <2>1. r2 \in Seq(Tasks) /\ Range(r2) = Range(r1) \cup {cur}
    BY <1>1, <1>5, AppendRange
  <2> QED
    BY <1>5, <2>1
<1>7. b \in Range(console_blocked)
      /\ Range(Tail(console_blocked)) \subseteq Range(console_blocked)
  BY <1>1, <1>3, TailRange
<1>8. ts \in [Tasks -> States]
  BY <1>1, <1>3 DEF States
<1>9. "clock_sched" \in InTaskSwitch /\ "clock_sched" \in Points
  BY DEF InTaskSwitch, Points
<1>10. CASE needs_sched(CPU_QUANTUM, r1)
  <2>1. sched_next(r2, CPU_QUANTUM, ts, "clock_sched")
    BY <1>1, <1>10 DEF unblock_process, list_add_tail, update_current_state
  <2>2. Parked(freequeue, r2, Tail(console_blocked))
    BY <1>1, <1>3, <1>4, <1>5, ParkLinked
  <2>3. policy = FCFS => CPU_QUANTUM \in 0 .. INITIAL_QUANTUM
    BY DEF IInv, QuantumInv
  <2>4. UNCHANGED <<PID, freequeue, policy, PID_MAX>>
    BY DEF ClockFrame
  <2> HIDE DEF r2, r1, ts, b
  <2>5. /\ QueueIntegrity' /\ Resumable' /\ ContextMatches' /\ PidInv'
        /\ PointInv' /\ BootInv' /\ QuantumInv'
        /\ cur' \in Tasks /\ cr3' \in Tasks /\ esp0' \in Tasks
        /\ PID' \in [Tasks -> Int] /\ where' \in [Tasks -> Points]
        /\ readyqueue' \in Seq(Tasks)
        /\ t_state' \in [Tasks -> States] /\ CPU_QUANTUM' \in Ints
    <3>1. Range(r2) \subseteq Range(readyqueue) \cup Range(console_blocked) \cup {cur}
      BY <1>6, <1>7
    <3>2. Range(console_blocked') \subseteq Range(console_blocked) \cup {cur}
          /\ cur \notin Range(console_blocked')
          /\ cur \notin Range(freequeue')
          /\ Range(freequeue') \subseteq Range(freequeue) \cup {cur}
      BY <1>1, <1>2, <1>7, <2>4, CurUnlinked
    <3> QED
      BY <1>1, <1>2, <1>3, <1>6, <1>8, <1>9, <2>1, <2>2, <2>3, <2>4, <3>1, <3>2,
         Switch
  <2>6. TypeOK'
    BY <1>1, <1>2, <2>5 DEF IInv, TypeOK, ClockFrame, mmVars, States, Ints
  <2> QED
    BY <1>2, <2>5, <2>6 DEF IInv
<1>11. CASE ~needs_sched(CPU_QUANTUM, r1)
  <2>1. /\ readyqueue' = r1 /\ t_state' = ts
        /\ where' = [where EXCEPT ![cur] = "clock_sched"]
        /\ UNCHANGED <<cpuVars, CPU_QUANTUM>>
    BY <1>1, <1>11 DEF unblock_process, list_add_tail
  <2>2. Running' = cur
    BY <1>1, <2>1 DEF ClockFrame, Running, cpuVars
  <2> HIDE DEF r1, r2, ts, b
  <2>3. QueueIntegrity' /\ ContextMatches'
    BY <1>1, <1>2, <1>4, <2>1, <2>2
       DEF QueueIntegrity, ContextMatches, ClockFrame, cpuVars, IInv
  <2>4. TypeOK'
    BY <1>1, <1>2, <1>5, <1>8, <1>9, <2>1
       DEF IInv, TypeOK, ClockFrame, mmVars, cpuVars, States, Ints
  <2>5. /\ where'[cur] = "clock_sched"
        /\ \A t \in Tasks \ {cur} : where'[t] = where[t]
    BY <1>1, <2>1 DEF IInv, TypeOK
  <2>6. /\ Range(readyqueue) \subseteq Tasks /\ Range(console_blocked) \subseteq Tasks
        /\ Range(freequeue) \subseteq Tasks
    BY <1>3, RangeOfSeq
  <2>7. Resumable'
    <3>1. \A t \in Range(readyqueue') : where'[t] \in InTaskSwitch \cup {"ret_from_fork"}
      BY <1>5, <1>7, <1>9, <2>1, <2>5, <2>6 DEF IInv, Resumable, InTaskSwitch
    <3>2. \A t \in Range(console_blocked') : where'[t] = "read_return"
      BY <1>2, <1>7, <2>5, <2>6, CurUnlinked DEF IInv, Resumable
    <3>3. \A t \in Range(freequeue') \ {cur'} : where'[t] = "dead"
      BY <2>1, <2>5, <2>6 DEF IInv, Resumable, ClockFrame, cpuVars
    <3>4. where'[cur'] # "dead"
      BY <2>1, <2>5 DEF cpuVars
    <3> QED
      BY <3>1, <3>2, <3>3, <3>4 DEF Resumable
  <2>8. PidInv'
    BY <1>2, <1>5, <1>7, <2>1, <2>6 DEF IInv, PidInv, ClockFrame
  <2>9. PointInv'
    BY <1>1, <2>1, <2>5, IdleInit DEF IInv, PointInv, ClockFrame, cpuVars
  <2>10. BootInv' /\ QuantumInv'
    BY <1>1, <2>1 DEF IInv, BootInv, QuantumInv, ClockFrame, cpuVars
  <2> QED
    BY <1>2, <2>3, <2>4, <2>7, <2>8, <2>9, <2>10 DEF IInv
<1> QED
  BY <1>10, <1>11

LEMMA ClockRoutineIInv == IInv /\ clock_routine => IInv'
<1> SUFFICES ASSUME IInv, clock_routine PROVE IInv'
  OBVIOUS
<1>1. ClockFrame /\ zeos_update_read_console_emul
  BY DEF clock_routine, ClockFrame
<1>2. "clock_sched" \in Points
  BY DEF Points, InTaskSwitch
<1>3. CASE /\ pending_reads # <<>> /\ Head(pending_reads).ticks - 1 <= 0
           /\ pending_reads' = Tail(pending_reads)
           /\ free_iorbs' = free_iorbs + 1
           /\ unblock_process(Head(pending_reads).task)
  BY <1>1, <1>3, UnblockIInv
<1>4. CASE /\ pending_reads # <<>>
           /\ pending_reads' = [pending_reads EXCEPT ![1].ticks = @ - 1]
           /\ where' = [where EXCEPT ![cur] = "clock_sched"]
           /\ UNCHANGED <<cpuVars, t_state, readyqueue, console_blocked,
                          free_iorbs, CPU_QUANTUM>>
  <2> DEFINE R == [task : Tasks, ticks : Int]
  <2>1. pending_reads \in Seq(R)
    BY DEF IInv, TypeOK
  <2>2. Len(pending_reads) \in Nat \ {0} /\ DOMAIN pending_reads = 1 .. Len(pending_reads)
    BY <1>4, <2>1, LenProperties, EmptySeq
  <2>3. pending_reads[1] \in R
    <3> HIDE DEF R
    <3>1. 1 \in 1 .. Len(pending_reads)
      BY <2>2
    <3> QED
      BY <2>1, <3>1, ElementOfSeq
  <2>4. [pending_reads[1] EXCEPT !.ticks = @ - 1] \in R
    BY <2>3
  <2>5. pending_reads' = [pending_reads EXCEPT ![1] =
                            [pending_reads[1] EXCEPT !.ticks = @ - 1]]
    BY <1>4
  <2>6. /\ pending_reads' \in Seq(R) /\ Len(pending_reads') = Len(pending_reads)
        /\ DOMAIN pending_reads' = DOMAIN pending_reads
        /\ \A i \in DOMAIN pending_reads : pending_reads'[i].task = pending_reads[i].task
    <3>1. /\ pending_reads' \in Seq(R) /\ Len(pending_reads') = Len(pending_reads)
      BY <2>1, <2>2, <2>4, <2>5, ExceptSeq
    <3>2. DOMAIN pending_reads' = DOMAIN pending_reads
      BY <2>5
    <3>3. ASSUME NEW i \in DOMAIN pending_reads
          PROVE  pending_reads'[i].task = pending_reads[i].task
      BY <2>3, <2>5, <3>3
    <3> QED
      BY <3>1, <3>2, <3>3
  <2>7. ReadersMatchPending'
    BY <1>4, <2>6 DEF IInv, ReadersMatchPending
  <2>8. PID[cur] # -1 /\ Running = cur /\ cur \in Tasks
    BY <1>4, FirstReader, CurUnlinked
  <2>9. TypeOK'
    BY <1>1, <1>2, <1>4, <2>6 DEF IInv, TypeOK, ClockFrame, cpuVars, mmVars
  <2>10. QueueIntegrity' /\ ContextMatches' /\ PidInv' /\ BootInv' /\ QuantumInv'
    BY <1>1, <1>4, <2>8
       DEF IInv, QueueIntegrity, Linked, ContextMatches, PidInv, BootInv,
           QuantumInv, Running, ClockFrame, cpuVars
  <2>11. /\ where'[cur] = "clock_sched"
         /\ \A t \in Tasks \ {cur} : where'[t] = where[t]
    BY <1>4, <2>8 DEF IInv, TypeOK
  <2>12. /\ Range(readyqueue) \subseteq Tasks /\ Range(console_blocked) \subseteq Tasks
         /\ Range(freequeue) \subseteq Tasks
    BY RangeOfSeq DEF IInv, TypeOK
  <2>13. Resumable'
    BY <1>1, <1>4, <2>11, <2>12, CurUnlinked DEF IInv, Resumable, ClockFrame, cpuVars
  <2>14. PointInv'
    BY <1>1, <1>4, <2>8, <2>11, IdleInit DEF IInv, PointInv, ClockFrame, cpuVars
  <2> QED
    BY <2>7, <2>9, <2>10, <2>13, <2>14 DEF IInv
<1>5. CASE /\ where' = [where EXCEPT ![cur] = "clock_sched"]
           /\ UNCHANGED <<cpuVars, t_state, readyqueue, console_blocked, ioVars,
                          CPU_QUANTUM>>
  <2>1. TypeOK'
    BY <1>1, <1>2, <1>5 DEF IInv, TypeOK, ClockFrame, cpuVars, ioVars, mmVars
  <2>2. QuantumInv'
    BY <1>1, <1>5 DEF IInv, QuantumInv, ClockFrame, cpuVars
  <2> QED
    BY <1>1, <1>5, <2>1, <2>2, ClockStays DEF IInv, ClockFrame, queueVars
<1> QED
  BY <1>1, <1>3, <1>4, <1>5, Zenon DEF zeos_update_read_console_emul

(***************************************************************************)
(* exit and read.                                                          *)
(***************************************************************************)
LEMMA ExitIInv == IInv /\ sys_exit => IInv'
<1> SUFFICES ASSUME IInv, sys_exit PROVE IInv'
  OBVIOUS
<1>1. PID[cur] # -1 /\ Running = cur /\ cur # IDLE /\ cur \in Tasks
  BY UserRuns DEF sys_exit
<1>2. /\ freequeue' = Append(freequeue, cur)
      /\ sched_next(readyqueue, CPU_QUANTUM, t_state, "dead")
      /\ PID' = [PID EXCEPT ![cur] = -1]
      /\ phys_mem' = free_frame(phys_mem, ExitFrames)
      /\ UNCHANGED <<quantum, eax, console_blocked, ioVars, policy, PID_MAX,
                     pagusr_table, mem>>
  BY DEF sys_exit, update_current_state, list_add_tail
<1>3. /\ freequeue \in Seq(Tasks) /\ readyqueue \in Seq(Tasks)
      /\ console_blocked \in Seq(Tasks)
      /\ Linked(freequeue, readyqueue, console_blocked, cur)
      /\ CPU_QUANTUM \in Ints /\ t_state \in [Tasks -> States]
  BY <1>1 DEF IInv, TypeOK, QueueIntegrity, Ints, States
<1>4. freequeue' \in Seq(Tasks) /\ Range(freequeue') = Range(freequeue) \cup {cur}
  BY <1>1, <1>2, <1>3, AppendRange
<1>5. Parked(freequeue', readyqueue, console_blocked')
  BY <1>1, <1>2, <1>3, ParkLinked
<1>6. policy = FCFS => CPU_QUANTUM \in 0 .. INITIAL_QUANTUM
  BY DEF IInv, QuantumInv
<1>7. /\ QueueIntegrity' /\ Resumable' /\ ContextMatches' /\ PidInv'
      /\ PointInv' /\ BootInv' /\ QuantumInv'
      /\ cur' \in Tasks /\ cr3' \in Tasks /\ esp0' \in Tasks
      /\ PID' \in [Tasks -> Int] /\ where' \in [Tasks -> Points]
      /\ readyqueue' \in Seq(Tasks)
      /\ t_state' \in [Tasks -> States] /\ CPU_QUANTUM' \in Ints
  BY <1>1, <1>2, <1>3, <1>4, <1>5, <1>6, CurUnlinked, Switch
<1>8. phys_mem' \in [Frames -> {FREE_FRAME, USED_FRAME}]
  BY <1>2 DEF IInv, TypeOK, free_frame
<1>9. TypeOK'
  BY <1>2, <1>4, <1>7, <1>8 DEF IInv, TypeOK, ioVars, States, Ints
<1>10. ReadersMatchPending'
  BY <1>2 DEF IInv, ReadersMatchPending, ioVars
<1> QED
  BY <1>7, <1>9, <1>10 DEF IInv

LEMMA ReadBlockIInv ==
  ASSUME IInv, where[cur] = "user", NEW n \in Int,
         free_iorbs # 0, free_iorbs' = free_iorbs - 1,
         pending_reads' = Append(pending_reads, [task |-> cur, ticks |-> n]),
         Return(n), block_process,
         UNCHANGED <<PID, quantum, freequeue, policy, PID_MAX, mmVars>>
  PROVE  IInv'
<1> DEFINE R  == [task : Tasks, ticks : Int]
           ts == [t_state EXCEPT ![cur] = ST_BLOCKED]
<1>1. PID[cur] # -1 /\ Running = cur /\ cur # IDLE /\ cur \in Tasks
  BY UserRuns
<1>2. /\ console_blocked' = Append(console_blocked, cur)
      /\ sched_next(readyqueue, CPU_QUANTUM, ts, "read_return")
  BY DEF block_process, update_current_state, list_add_tail
<1>3. /\ freequeue \in Seq(Tasks) /\ readyqueue \in Seq(Tasks)
      /\ console_blocked \in Seq(Tasks) /\ pending_reads \in Seq(R)
      /\ Linked(freequeue, readyqueue, console_blocked, cur)
      /\ CPU_QUANTUM \in Ints /\ t_state \in [Tasks -> States]
      /\ free_iorbs \in Nat
  BY <1>1 DEF IInv, TypeOK, QueueIntegrity, Ints, States
<1>4. /\ console_blocked' \in Seq(Tasks)
      /\ Range(console_blocked') = Range(console_blocked) \cup {cur}
  BY <1>1, <1>2, <1>3, AppendRange
<1>5. Parked(freequeue', readyqueue, console_blocked')
  BY <1>1, <1>2, <1>3, ParkLinked
<1>6. policy = FCFS => CPU_QUANTUM \in 0 .. INITIAL_QUANTUM
  BY DEF IInv, QuantumInv
<1>7. ts \in [Tasks -> States] /\ "read_return" \in InTaskSwitch
  BY <1>3 DEF States, InTaskSwitch
<1> HIDE DEF ts
<1>8. /\ QueueIntegrity' /\ Resumable' /\ ContextMatches' /\ PidInv'
      /\ PointInv' /\ BootInv' /\ QuantumInv'
      /\ cur' \in Tasks /\ cr3' \in Tasks /\ esp0' \in Tasks
      /\ PID' \in [Tasks -> Int] /\ where' \in [Tasks -> Points]
      /\ readyqueue' \in Seq(Tasks)
      /\ t_state' \in [Tasks -> States] /\ CPU_QUANTUM' \in Ints
  BY <1>1, <1>2, <1>3, <1>4, <1>5, <1>6, <1>7, CurUnlinked, Switch
<1>9. /\ pending_reads' \in Seq(R) /\ free_iorbs' \in Nat
      /\ eax' \in [Tasks -> Int]
  <2>1. [task |-> cur, ticks |-> n] \in R
    BY <1>1
  <2>2. pending_reads' \in Seq(R)
    BY <1>3, <2>1, AppendProperties
  <2>3. free_iorbs' \in Nat
    BY <1>3
  <2>4. eax' \in [Tasks -> Int]
    BY DEF Return, IInv, TypeOK
  <2> QED
    BY <2>2, <2>3, <2>4
<1>10. TypeOK'
  BY <1>4, <1>8, <1>9 DEF IInv, TypeOK, mmVars, States, Ints
<1>11. ReadersMatchPending'
  <2> DEFINE r == [task |-> cur, ticks |-> n]
  <2>1. r \in R /\ r.task = cur
    BY <1>1
  <2>2. /\ Len(console_blocked) = Len(pending_reads)
        /\ \A i \in DOMAIN pending_reads : console_blocked[i] = pending_reads[i].task
        /\ Len(pending_reads) + free_iorbs = NR_IORBS
    BY DEF IInv, ReadersMatchPending
  <2> HIDE DEF r
  <2>3. pending_reads' = Append(pending_reads, r)
    BY DEF r
  <2>4. /\ pending_reads' \in Seq(R) /\ Len(pending_reads') = Len(pending_reads) + 1
        /\ \A i \in 1 .. Len(pending_reads) : pending_reads'[i] = pending_reads[i]
        /\ pending_reads'[Len(pending_reads) + 1] = r
    BY <1>3, <2>1, <2>3, AppendProperties
  <2>5. /\ Len(console_blocked') = Len(console_blocked) + 1
        /\ \A i \in 1 .. Len(console_blocked) : console_blocked'[i] = console_blocked[i]
        /\ console_blocked'[Len(console_blocked) + 1] = cur
    BY <1>1, <1>2, <1>3, AppendProperties
  <2>6. /\ Len(pending_reads) \in Nat
        /\ DOMAIN pending_reads = 1 .. Len(pending_reads)
        /\ DOMAIN pending_reads' = 1 .. Len(pending_reads) + 1
    BY <1>3, <2>4, LenProperties
  <2>7. ASSUME NEW i \in DOMAIN pending_reads'
        PROVE  console_blocked'[i] = pending_reads'[i].task
    <3>1. CASE i = Len(pending_reads) + 1
      BY <2>1, <2>2, <2>4, <2>5, <3>1
    <3>2. CASE i # Len(pending_reads) + 1
      <4>1. i \in 1 .. Len(pending_reads)
        BY <2>6, <3>2
      <4> QED
        BY <2>2, <2>4, <2>5, <2>6, <4>1
    <3> QED
      BY <3>1, <3>2
  <2>8. /\ Len(console_blocked') = Len(pending_reads')
        /\ Len(pending_reads') + free_iorbs' = NR_IORBS
    BY <1>3, <2>2, <2>4, <2>5, <2>6
  <2> QED
    BY <2>7, <2>8 DEF ReadersMatchPending
<1> QED
  BY <1>8, <1>10, <1>11 DEF IInv

LEMMA ReadIInv ==
  ASSUME IInv, NEW fd, NEW n \in ReadTicks, sys_read(fd, n) PROVE IInv'
<1>1. where[cur] = "user" /\ n \in Int
  BY KernelAssumption DEF sys_read
<1>2. CASE sys_read_error(-EBADF)
  BY <1>1, <1>2, ReadErrorIInv DEF EBADF
<1>3. CASE sys_read_error(-EINVAL)
  BY <1>1, <1>3, ReadErrorIInv DEF EINVAL
<1>4. CASE zeos_read_console_emul(n)
  <2>1. CASE sys_read_error(-EAGAIN)
    BY <1>1, <2>1, ReadErrorIInv DEF EAGAIN
  <2>2. CASE ~sys_read_error(-EAGAIN)
    BY <1>1, <1>4, <2>2, ReadBlockIInv DEF zeos_read_console_emul
  <2> QED
    BY <2>1, <2>2
<1> QED
  BY <1>2, <1>3, <1>4, Zenon DEF sys_read

(***************************************************************************)
(* fork.                                                                   *)
(***************************************************************************)

\* The PCB fork takes is dead, and neither idle nor that of the parent.
LEMMA FreeChild ==
  ASSUME IInv, where[cur] = "user", freequeue # <<>>
  PROVE  /\ PID[cur] # -1 /\ Running = cur /\ cur # IDLE /\ cur \in Tasks
         /\ PID[cur] # 0
         /\ Head(freequeue) \in Tasks /\ Head(freequeue) # cur
         /\ Head(freequeue) # IDLE /\ where[Head(freequeue)] = "dead"
         /\ Head(freequeue) \notin Range(readyqueue) \cup Range(console_blocked)
         /\ Linked(freequeue, readyqueue, console_blocked, cur)
<1>1. PID[cur] # -1 /\ Running = cur /\ cur # IDLE /\ cur \in Tasks
  BY UserRuns
<1>2. Linked(freequeue, readyqueue, console_blocked, cur)
  BY <1>1 DEF IInv, QueueIntegrity
<1>3. Head(freequeue) \in Range(freequeue) /\ Head(freequeue) \in Tasks
  <2>1. freequeue \in Seq(Tasks)
    BY DEF IInv, TypeOK
  <2>2. /\ Head(freequeue) \in Tasks
        /\ Range(freequeue) = {Head(freequeue)} \cup Range(Tail(freequeue))
    BY <2>1, TailRange
  <2> QED
    BY <2>2
<1>4. /\ Head(freequeue) # cur /\ Head(freequeue) # IDLE
      /\ Head(freequeue) \notin Range(readyqueue) \cup Range(console_blocked)
  BY <1>2, <1>3 DEF Linked
<1>5. where[Head(freequeue)] = "dead"
  BY <1>3, <1>4 DEF IInv, Resumable
<1>6. PID[cur] # 0
  BY <1>1 DEF IInv, PidInv
<1> QED
  BY <1>1, <1>2, <1>3, <1>4, <1>5, <1>6

LEMMA ShareCodeType ==
  ASSUME TypeOK, NEW pt \in [UserPages -> PTE]
  PROVE  ShareCode(pt) \in [UserPages -> PTE]
<1>1. \A p \in CodePages : get_frame(pagusr_table[cur], p) \in Frames
  BY PagesFrames DEF TypeOK, get_frame, PTE
<1> QED
  BY <1>1 DEF ShareCode, set_ss_pag, PTE

LEMMA ForkEnomemIInv ==
  ASSUME IInv, where[cur] = "user", sys_fork_ENOMEM PROVE IInv'
<1> DEFINE child == Head(freequeue)
<1>1. freequeue # <<>>
  BY DEF sys_fork_ENOMEM, list_empty
<1>2. /\ PID[cur] # -1 /\ Running = cur /\ cur # IDLE /\ cur \in Tasks
      /\ PID[cur] # 0 /\ child \in Tasks /\ child # cur
      /\ child # IDLE /\ where[child] = "dead"
      /\ child \notin Range(readyqueue) \cup Range(console_blocked)
  BY <1>1, FreeChild
<1>3. freequeue' = freequeue
  <2>1. freequeue \in Seq(Tasks)
    BY DEF IInv, TypeOK
  <2> QED
    BY <1>1, <2>1, AddFirst DEF sys_fork_ENOMEM, free_PCB, list_first
<1>4. /\ PID' = [PID EXCEPT ![child] = PID[cur]]
      /\ quantum' = [quantum EXCEPT ![child] = quantum[cur]]
      /\ t_state' = [t_state EXCEPT ![child] = t_state[cur]]
      /\ pagusr_table' = [pagusr_table EXCEPT ![child] = ShareCode(@)]
      /\ phys_mem' = TakeAndReturn(phys_mem)
      /\ Return(-ENOMEM)
      /\ UNCHANGED <<cpuVars, where, readyqueue, console_blocked, ioVars,
                     CPU_QUANTUM, policy, PID_MAX, mem>>
  BY DEF sys_fork_ENOMEM, list_first
<1> HIDE DEF child
<1>5. TypeOK'
  <2>1. /\ PID' \in [Tasks -> Int] /\ quantum' \in [Tasks -> 0 .. INITIAL_QUANTUM]
        /\ t_state' \in [Tasks -> {ST_RUN, ST_READY, ST_BLOCKED}]
    BY <1>2, <1>4 DEF IInv, TypeOK
  <2>2. eax' \in [Tasks -> Int]
    BY <1>4 DEF IInv, TypeOK, Return, ENOMEM
  <2>3. phys_mem' \in [Frames -> {FREE_FRAME, USED_FRAME}]
    BY <1>4 DEF IInv, TypeOK, TakeAndReturn, free_frame, MarkUsed
  <2>4. pagusr_table' \in [Tasks -> [UserPages -> PTE]]
    <3>1. pagusr_table[child] \in [UserPages -> PTE]
      BY <1>2 DEF IInv, TypeOK
    <3>2. ShareCode(pagusr_table[child]) \in [UserPages -> PTE]
      BY <3>1, ShareCodeType DEF IInv
    <3> QED
      BY <1>4, <3>2 DEF IInv, TypeOK
  <2> QED
    BY <1>3, <1>4, <2>1, <2>2, <2>3, <2>4 DEF IInv, TypeOK, cpuVars, ioVars
<1>6. /\ PID'[child] = PID[cur]
      /\ \A t \in Tasks \ {child} : PID'[t] = PID[t]
  BY <1>2, <1>4 DEF IInv, TypeOK
<1>7. Running' = cur
  BY <1>2, <1>4, <1>6 DEF Running, cpuVars
<1>8. QueueIntegrity' /\ ReadersMatchPending' /\ Resumable' /\ ContextMatches'
  BY <1>2, <1>3, <1>4, <1>7
     DEF IInv, QueueIntegrity, ReadersMatchPending, Resumable, ContextMatches,
         cpuVars, ioVars
<1>9. PidInv'
  <2>1. /\ Range(readyqueue) \subseteq Tasks /\ Range(console_blocked) \subseteq Tasks
    BY RangeOfSeq DEF IInv, TypeOK
  <2> QED
    BY <1>2, <1>4, <1>6, <2>1, IdleInit DEF IInv, PidInv
<1>10. PointInv'
  BY <1>2, <1>4, <1>6 DEF IInv, PointInv, cpuVars
<1>11. BootInv' /\ QuantumInv'
  BY <1>2, <1>4, <1>6 DEF IInv, BootInv, QuantumInv, cpuVars
<1> QED
  BY <1>5, <1>8, <1>9, <1>10, <1>11 DEF IInv

\* The tables through which fork copies: the frames g are the data of the child,
\* and the running task reaches them right above its own data.
LEMMA MapChildTables ==
  ASSUME IInv, NEW child \in Tasks, child # cur,
         NEW g \in alloc_frame(phys_mem, DataPages)
  PROVE  /\ MapChild(child, g) \in [Tasks -> [UserPages -> PTE]]
         /\ MapChild(child, g)[child] =
              set_ss_pag(ShareCode(pagusr_table[child]), DataPages, g)
         /\ \A p \in UserPages \ TempPages :
              MapChild(child, g)[cur][p] = pagusr_table[cur][p]
         /\ \A p \in DataPages :
              get_frame(MapChild(child, g)[cur], p + NUM_PAG_DATA) = g[p]
         /\ \A t \in Tasks \ {cur, child} : MapChild(child, g)[t] = pagusr_table[t]
<1> DEFINE up == [p \in TempPages |-> g[p - NUM_PAG_DATA]]
           own == set_ss_pag(pagusr_table[cur], TempPages, up)
           new == set_ss_pag(ShareCode(pagusr_table[child]), DataPages, g)
<1>1. /\ pagusr_table \in [Tasks -> [UserPages -> PTE]] /\ cur \in Tasks
      /\ ShareCode(pagusr_table[child]) \in [UserPages -> PTE]
  BY ShareCodeType DEF IInv, TypeOK
<1>2. g \in [DataPages -> Frames]
  BY PagesFrames
<1>3. /\ \A p \in TempPages : p - NUM_PAG_DATA \in DataPages /\ p \in UserPages
      /\ \A p \in DataPages : /\ p + NUM_PAG_DATA \in TempPages
                             /\ (p + NUM_PAG_DATA) - NUM_PAG_DATA = p
                             /\ p + NUM_PAG_DATA \in UserPages
  BY MMAssumption DEF DataPages, TempPages, UserPages
<1>4. up \in [TempPages -> Frames]
  BY <1>2, <1>3
<1>5. own \in [UserPages -> PTE]
  BY <1>1, <1>4 DEF set_ss_pag, PTE
<1>6. new \in [UserPages -> PTE]
  BY <1>1, <1>2 DEF set_ss_pag, PTE
<1>7. \A p \in UserPages \ TempPages : own[p] = pagusr_table[cur][p]
  BY DEF set_ss_pag
<1>8. \A p \in DataPages : get_frame(own, p + NUM_PAG_DATA) = g[p]
  BY <1>3 DEF set_ss_pag, get_frame
<1>9. MapChild(child, g) = [pagusr_table EXCEPT ![cur] = own, ![child] = new]
  BY <1>1 DEF MapChild
<1> HIDE DEF own, new
<1>10. /\ MapChild(child, g) \in [Tasks -> [UserPages -> PTE]]
       /\ MapChild(child, g)[child] = new /\ MapChild(child, g)[cur] = own
       /\ \A t \in Tasks \ {cur, child} : MapChild(child, g)[t] = pagusr_table[t]
  BY <1>1, <1>5, <1>6, <1>9
<1> QED
  BY <1>7, <1>8, <1>10 DEF new

LEMMA ForkChildIInv ==
  ASSUME IInv, where[cur] = "user", sys_fork_child PROVE IInv'
<1> DEFINE child == Head(freequeue)
<1>1. freequeue # <<>>
  BY DEF sys_fork_child, list_empty
<1>2. /\ PID[cur] # -1 /\ Running = cur /\ cur # IDLE /\ cur \in Tasks
      /\ PID[cur] # 0 /\ child \in Tasks /\ child # cur
      /\ child # IDLE /\ where[child] = "dead"
      /\ child \notin Range(readyqueue) \cup Range(console_blocked)
      /\ Linked(freequeue, readyqueue, console_blocked, cur)
  BY <1>1, FreeChild
<1>3. PICK g \in alloc_frame(phys_mem, DataPages) :
        /\ freequeue' = Tail(freequeue)
        /\ quantum' = [quantum EXCEPT ![child] = quantum[cur]]
        /\ phys_mem' = MarkUsed(phys_mem, {g[p] : p \in DataPages})
        /\ mem' = copy_data(MapChild(child, g)[cr3])
        /\ pagusr_table' = [MapChild(child, g) EXCEPT
                              ![cur] = del_ss_pag(@, TempPages)]
        /\ cr3' = cur
        /\ PID' = [PID EXCEPT ![child] = NewPID]
        /\ PID_MAX' = NewPID
        /\ where' = [where EXCEPT ![child] = "ret_from_fork"]
        /\ t_state' = [t_state EXCEPT ![child] = ST_READY]
        /\ readyqueue' = Append(readyqueue, child)
        /\ Return(NewPID)
  BY DEF sys_fork_child, list_first, list_add_tail
<1>4. UNCHANGED <<cur, esp0, console_blocked, ioVars, CPU_QUANTUM, policy>>
  BY DEF sys_fork_child
<1>5. /\ freequeue \in Seq(Tasks) /\ readyqueue \in Seq(Tasks)
      /\ console_blocked \in Seq(Tasks) /\ PID_MAX \in Nat
  BY DEF IInv, TypeOK
<1>6. /\ freequeue' \in Seq(Tasks) /\ readyqueue' \in Seq(Tasks)
      /\ Range(readyqueue') = Range(readyqueue) \cup {child}
      /\ Range(freequeue) = {child} \cup Range(freequeue')
      /\ Linked(freequeue', readyqueue', console_blocked', cur)
  <2>1. Linked(Tail(freequeue), Append(readyqueue, child), console_blocked, cur)
    BY <1>1, <1>2, <1>5, ForkLinked
  <2>2. Tail(freequeue) \in Seq(Tasks) /\ Range(freequeue) = {child} \cup Range(Tail(freequeue))
    BY <1>1, <1>5, TailRange
  <2>3. /\ Append(readyqueue, child) \in Seq(Tasks)
        /\ Range(Append(readyqueue, child)) = Range(readyqueue) \cup {child}
    BY <1>2, <1>5, AppendRange
  <2> QED
    BY <1>3, <1>4, <2>1, <2>2, <2>3
<1> HIDE DEF child
<1>7. NewPID \in Nat /\ NewPID >= 2
  BY <1>5 DEF NewPID, IInv, PidInv
<1>8. /\ PID' \in [Tasks -> Int] /\ PID'[child] = NewPID
      /\ \A t \in Tasks \ {child} : PID'[t] = PID[t]
  BY <1>2, <1>3, <1>7 DEF IInv, TypeOK
<1>9. /\ where' \in [Tasks -> Points] /\ where'[child] = "ret_from_fork"
      /\ \A t \in Tasks \ {child} : where'[t] = where[t]
  BY <1>2, <1>3 DEF IInv, TypeOK, Points
<1>10. TypeOK'
  <2>1. /\ quantum' \in [Tasks -> 0 .. INITIAL_QUANTUM]
        /\ t_state' \in [Tasks -> {ST_RUN, ST_READY, ST_BLOCKED}]
    BY <1>2, <1>3 DEF IInv, TypeOK
  <2>2. eax' \in [Tasks -> Int]
    BY <1>3, <1>7 DEF IInv, TypeOK, Return
  <2>3. phys_mem' \in [Frames -> {FREE_FRAME, USED_FRAME}]
    BY <1>3 DEF IInv, TypeOK, MarkUsed
  <2>4. g \in [DataPages -> Frames]
    BY PagesFrames
  <2>5. pagusr_table' \in [Tasks -> [UserPages -> PTE]]
    <3>1. MapChild(child, g) \in [Tasks -> [UserPages -> PTE]]
      BY <1>2, MapChildTables
    <3>2. del_ss_pag(MapChild(child, g)[cur], TempPages) \in [UserPages -> PTE]
      BY <1>2, <3>1, PagesFrames DEF del_ss_pag
    <3> QED
      BY <1>2, <1>3, <3>1, <3>2
  <2>6. mem' \in [Frames -> Values]
    <3> DEFINE pt == MapChild(child, g)[cr3]
               To(p, f) == get_frame(pt, p + NUM_PAG_DATA) = f
    <3>1. mem \in [Frames -> Values] /\ pt \in [UserPages -> PTE]
      BY <1>2, MapChildTables DEF IInv, TypeOK
    <3>2. \A p \in DataPages : get_frame(pt, p) \in Frames
      BY <3>1, PagesFrames DEF get_frame, PTE
    <3>3. \A f \in Frames : (\E p \in DataPages : To(p, f))
            => (CHOOSE p \in DataPages : To(p, f)) \in DataPages
      BY Zenon
    <3>4. mem' = [f \in Frames |->
                    IF \E p \in DataPages : To(p, f)
                      THEN mem[get_frame(pt, CHOOSE p \in DataPages : To(p, f))]
                      ELSE mem[f]]
      BY <1>3 DEF copy_data
    <3> HIDE DEF pt, To
    <3> QED
      BY <3>1, <3>2, <3>3, <3>4
  <2> QED
    BY <1>2, <1>3, <1>4, <1>6, <1>7, <1>8, <1>9, <2>1, <2>2, <2>3, <2>5, <2>6
       DEF IInv, TypeOK, ioVars
<1>11. Running' = cur
  BY <1>2, <1>4, <1>8 DEF Running
<1>12. QueueIntegrity' /\ ReadersMatchPending' /\ ContextMatches'
  BY <1>2, <1>3, <1>4, <1>6, <1>11
     DEF IInv, QueueIntegrity, ReadersMatchPending, ContextMatches, ioVars
<1>13. /\ Range(readyqueue) \subseteq Tasks /\ Range(console_blocked) \subseteq Tasks
       /\ Range(freequeue) \subseteq Tasks
  BY <1>5, RangeOfSeq
<1>14. child \notin Range(freequeue')
  BY <1>6 DEF Linked
<1>15. Resumable'
  BY <1>2, <1>4, <1>6, <1>9, <1>13, <1>14 DEF IInv, Resumable
<1>16. PidInv'
  BY <1>2, <1>3, <1>4, <1>6, <1>7, <1>8, <1>13, IdleInit DEF IInv, PidInv
<1>17. PointInv'
  BY <1>2, <1>4, <1>7, <1>8, <1>9, IdleInit DEF IInv, PointInv
<1>18. BootInv' /\ QuantumInv'
  BY <1>2, <1>4, <1>8 DEF IInv, BootInv, QuantumInv
<1> QED
  BY <1>10, <1>12, <1>15, <1>16, <1>17, <1>18 DEF IInv

LEMMA ForkIInv == IInv /\ sys_fork => IInv'
<1> SUFFICES ASSUME IInv, sys_fork PROVE IInv'
  OBVIOUS
<1>1. where[cur] = "user"
  BY DEF sys_fork
<1>2. CASE sys_fork_EAGAIN
  <2>1. TypeOK'
    BY <1>2 DEF IInv, TypeOK, sys_fork_EAGAIN, Return, EAGAIN, cpuVars, queueVars,
                ioVars, mmVars
  <2> QED
    BY <1>1, <1>2, <2>1, StayInUser DEF sys_fork_EAGAIN, cpuVars, queueVars, ioVars
<1>3. CASE sys_fork_ENOMEM
  BY <1>1, <1>3, ForkEnomemIInv
<1>4. CASE sys_fork_child
  BY <1>1, <1>4, ForkChildIInv
<1> QED
  BY <1>2, <1>3, <1>4 DEF sys_fork

(***************************************************************************)
(* The theorems.                                                           *)
(***************************************************************************)
LEMMA NextIInv == IInv /\ [Next]_vars => IInv'
<1> SUFFICES ASSUME IInv, [Next]_vars PROVE IInv'
  OBVIOUS
<1>1. CASE UNCHANGED vars
  BY <1>1 DEF vars, cpuVars, queueVars, ioVars, mmVars, IInv, TypeOK,
     QueueIntegrity, Linked, Running, ReadersMatchPending, Resumable,
     ContextMatches, PidInv, PointInv, BootInv, QuantumInv
<1>2. CASE Next
  BY <1>2, ReturnGateIInv, ClockRoutineIInv, ClockSchedIInv, ClockExitIInv,
     ForkIInv, RetFromForkIInv, ExitIInv, ReadIInv, ReadReturnIInv,
     SetPolicyIInv, UserStoreIInv DEF Next
<1> QED
  BY <1>1, <1>2

LEMMA SpecIInv == Spec => []IInv
BY InitIInv, NextIInv, PTL DEF Spec

\* Every handler and every interrupt keeps the types of the kernel's data,
\* and CPU_QUANTUM stays an int.
THEOREM TypeCorrect == Spec => []TypeOK
<1>1. IInv => TypeOK
  BY DEF IInv
<1> QED
  BY <1>1, SpecIInv, PTL

\* Whatever the interleaving of system calls and timer interrupts, every PCB is
\* in exactly one place: running, ready, blocked or free.
THEOREM QueuesCorrect == Spec => []QueueIntegrity
<1>1. IInv => QueueIntegrity
  BY DEF IInv
<1> QED
  BY <1>1, SpecIInv, PTL

\* The console wakes the tasks that block_process queued, in their order, and
\* loses no request block.
THEOREM ReadersCorrect == Spec => []ReadersMatchPending
<1>1. IInv => ReadersMatchPending
  BY DEF IInv
<1> QED
  BY <1>1, SpecIInv, PTL

\* task_switch always finds a point of the kernel on the stack it resumes.
THEOREM ResumeCorrect == Spec => []Resumable
<1>1. IInv => Resumable
  BY DEF IInv
<1> QED
  BY <1>1, SpecIInv, PTL

\* Page directory and kernel stack are those of the running process.
THEOREM ContextCorrect == Spec => []ContextMatches
<1>1. IInv => ContextMatches
  BY DEF IInv
<1> QED
  BY <1>1, SpecIInv, PTL

\* No process runs on an exhausted, leftover or wrapped quantum.
THEOREM QuantumCorrect == Spec => []QuantumBounded
<1>1. IInv => QuantumBounded
  BY DEF IInv, QuantumInv, QuantumBounded
<1> QED
  BY <1>1, SpecIInv, PTL

-----------------------------------------------------------------------------
(***************************************************************************)
(* PIDs.  Living processes always have different ones.  The PCBs in        *)
(* freequeue have none as long as no fork runs out of frames.              *)
(***************************************************************************)
\* Only fork, exit and a store of user code change memory or the processes
\* there are.
ProcessesSame == UNCHANGED <<freequeue, PID, PID_MAX, mmVars>>

LEMMA ProcessSteps ==
  ASSUME [Next]_vars
  PROVE  \/ ProcessesSame
         \/ where[cur] = "user" /\ sys_fork_ENOMEM
         \/ where[cur] = "user" /\ sys_fork_child
         \/ sys_exit
         \/ \E p \in UserPages, v \in Values : user_store(p, v)
<1>1. UNCHANGED vars => ProcessesSame
  BY DEF ProcessesSame, vars, queueVars
<1>2. return_gate => ProcessesSame
  BY DEF ProcessesSame, return_gate, queueVars
<1>3. clock_routine => ProcessesSame
  BY DEF ProcessesSame, clock_routine
<1>4. clock_sched => ProcessesSame
  BY DEF ProcessesSame, clock_sched
<1>5. clock_exit \/ ret_from_fork \/ read_return => ProcessesSame
  BY DEF ProcessesSame, clock_exit, ret_from_fork, read_return, queueVars
<1>6. sys_fork_EAGAIN => ProcessesSame
  BY DEF ProcessesSame, sys_fork_EAGAIN, queueVars
<1>7. ASSUME NEW fd \in {0, 1}, NEW n \in ReadTicks, sys_read(fd, n)
      PROVE  ProcessesSame
  BY <1>7 DEF ProcessesSame, sys_read, sys_read_error, zeos_read_console_emul, queueVars
<1>8. ASSUME NEW p \in Policies, sys_set_sched_policy(p)
      PROVE  ProcessesSame
  BY <1>8 DEF ProcessesSame, sys_set_sched_policy, queueVars
<1> QED
  BY <1>1, <1>2, <1>3, <1>4, <1>5, <1>6, <1>7, <1>8 DEF Next, sys_fork

\* The PIDs of living processes lie below PID_MAX and differ.
PidsUnique ==
  /\ \A t \in Alive : PID[t] \in 1 .. PID_MAX
  /\ \A t, u \in Alive : PID[t] = PID[u] => t = u

\* fork, on the processes there are and their PIDs.
LEMMA ForkPids ==
  ASSUME IInv, where[cur] = "user", sys_fork_child
  PROVE  LET child == Head(freequeue)
         IN  /\ child \in Tasks \ (Alive \cup {IDLE}) /\ child \in Range(freequeue)
             /\ Alive' = Alive \cup {child}
             /\ Range(freequeue') \subseteq Range(freequeue) \ {child}
             /\ PID_MAX \in Nat /\ PID_MAX' = PID_MAX + 1
             /\ PID'[child] = PID_MAX + 1
             /\ \A t \in Tasks \ {child} : PID'[t] = PID[t]
<1> DEFINE child == Head(freequeue)
<1>1. freequeue # <<>> /\ freequeue \in Seq(Tasks) /\ PID_MAX \in Nat
      /\ PID \in [Tasks -> Int]
  BY DEF sys_fork_child, list_empty, IInv, TypeOK
<1>2. /\ child \in Tasks /\ child # IDLE
      /\ Linked(freequeue, readyqueue, console_blocked, cur)
  BY <1>1, FreeChild
<1>3. /\ freequeue' = Tail(freequeue) /\ PID' = [PID EXCEPT ![child] = NewPID]
      /\ PID_MAX' = NewPID
  BY DEF sys_fork_child, list_first
<1>4. /\ Range(freequeue) = {child} \cup Range(Tail(freequeue))
      /\ child \notin Range(Tail(freequeue))
  BY <1>1, <1>2, TailRange DEF Linked
<1> HIDE DEF child
<1>5. child \notin Alive /\ Alive' = Alive \cup {child}
  BY <1>2, <1>3, <1>4 DEF Alive
<1>6. /\ PID_MAX' = PID_MAX + 1 /\ PID'[child] = PID_MAX + 1
      /\ \A t \in Tasks \ {child} : PID'[t] = PID[t]
  BY <1>1, <1>2, <1>3 DEF NewPID
<1>7. child \in Range(freequeue) /\ Range(freequeue') \subseteq Range(freequeue) \ {child}
  BY <1>3, <1>4
<1> QED
  BY <1>1, <1>2, <1>5, <1>6, <1>7 DEF child

\* exit, on the processes there are and their PIDs.
LEMMA ExitPids ==
  ASSUME IInv, sys_exit
  PROVE  /\ cur \in Alive /\ Alive' = Alive \ {cur}
         /\ Range(freequeue') = Range(freequeue) \cup {cur}
         /\ PID_MAX' = PID_MAX /\ PID'[cur] = -1
         /\ \A t \in Tasks \ {cur} : PID'[t] = PID[t]
<1>1. /\ where[cur] = "user" /\ freequeue' = Append(freequeue, cur)
      /\ PID' = [PID EXCEPT ![cur] = -1] /\ PID_MAX' = PID_MAX
  BY DEF sys_exit, update_current_state, list_add_tail
<1>2. freequeue \in Seq(Tasks) /\ PID \in [Tasks -> Int]
  BY DEF IInv, TypeOK
<1>3. cur \in Tasks /\ cur \in Alive
  BY <1>1, UserRuns DEF IInv, QueueIntegrity, Linked, Alive
<1>4. Range(freequeue') = Range(freequeue) \cup {cur}
  BY <1>1, <1>2, <1>3, AppendRange
<1> QED
  BY <1>1, <1>2, <1>3, <1>4 DEF Alive

\* A failing fork writes to a free PCB only.
LEMMA EnomemPids ==
  ASSUME IInv, where[cur] = "user", sys_fork_ENOMEM
  PROVE  /\ freequeue # <<>> /\ freequeue' = freequeue /\ PID_MAX' = PID_MAX
         /\ \A t \in Alive : PID'[t] = PID[t]
<1>1. freequeue # <<>> /\ freequeue \in Seq(Tasks) /\ PID \in [Tasks -> Int]
  BY DEF sys_fork_ENOMEM, list_empty, IInv, TypeOK
<1>2. freequeue' = freequeue
  BY <1>1, AddFirst DEF sys_fork_ENOMEM, free_PCB, list_first
<1>3. Head(freequeue) \notin Alive
  BY <1>1, TailRange DEF Alive
<1>4. PID' = [PID EXCEPT ![Head(freequeue)] = PID[cur]] /\ PID_MAX' = PID_MAX
  BY DEF sys_fork_ENOMEM, list_first
<1> QED
  BY <1>1, <1>2, <1>3, <1>4 DEF Alive

\* The boot leaves one process.
LEMMA InitAlive ==
  ASSUME Init
  PROVE  /\ Alive = {INIT}
         /\ \A t \in Range(freequeue) : t \in Tasks /\ t # IDLE /\ t # INIT
<1>1. freequeue = [i \in 1 .. NR_TASKS - 2 |-> NR_TASKS - 2 - i]
  BY DEF Init
<1>2. Range(freequeue) = 0 .. NR_TASKS - 3
  <2>1. ASSUME NEW t \in 0 .. NR_TASKS - 3 PROVE t \in Range(freequeue)
    <3>1. /\ NR_TASKS - 2 - t \in 1 .. NR_TASKS - 2
          /\ NR_TASKS - 2 - (NR_TASKS - 2 - t) = t
      BY KernelAssumption
    <3> QED
      BY <1>1, <3>1 DEF Range
  <2>2. ASSUME NEW t \in Range(freequeue) PROVE t \in 0 .. NR_TASKS - 3
    BY <1>1, KernelAssumption DEF Range
  <2> QED
    BY <2>1, <2>2
<1> QED
  BY <1>2, KernelAssumption DEF Alive, Tasks, IDLE, INIT

\* init_task has PID 1, and the free PCBs have none.
LEMMA InitPids == Init => PidsUnique /\ DeadTasksHaveNoPID
<1> SUFFICES ASSUME Init PROVE PidsUnique /\ DeadTasksHaveNoPID
  OBVIOUS
<1>1. /\ PID = [t \in Tasks |-> IF t = IDLE THEN 0 ELSE IF t = INIT THEN 1 ELSE -1]
      /\ PID_MAX = 1
  BY DEF Init
<1> QED
  BY <1>1, InitAlive, IdleInit DEF PidsUnique, DeadTasksHaveNoPID

\* Every step keeps the PIDs of the living processes apart.
LEMMA NextPids == IInv /\ PidsUnique /\ [Next]_vars => PidsUnique'
<1> SUFFICES ASSUME IInv, PidsUnique, [Next]_vars PROVE PidsUnique'
  OBVIOUS
<1>0. Alive \subseteq Tasks /\ PID_MAX \in Nat
  BY DEF Alive, IInv, TypeOK
<1>1. CASE ProcessesSame
  BY <1>1 DEF ProcessesSame, PidsUnique, Alive
<1>2. CASE where[cur] = "user" /\ sys_fork_ENOMEM
  <2>1. Alive' = Alive /\ PID_MAX' = PID_MAX /\ \A t \in Alive : PID'[t] = PID[t]
    BY <1>2, EnomemPids DEF Alive
  <2> QED
    BY <2>1 DEF PidsUnique
<1>3. CASE where[cur] = "user" /\ sys_fork_child
  <2>1. PICK child \in Tasks \ Alive :
          /\ Alive' = Alive \cup {child} /\ PID_MAX' = PID_MAX + 1
          /\ PID'[child] = PID_MAX + 1 /\ \A t \in Tasks \ {child} : PID'[t] = PID[t]
    BY <1>3, ForkPids
  <2>2. \A t \in Alive : PID'[t] = PID[t] /\ PID'[t] \in 1 .. PID_MAX
    BY <1>0, <2>1 DEF PidsUnique
  <2>3. \A t \in Alive : PID'[t] # PID_MAX + 1 /\ PID'[t] \in 1 .. PID_MAX + 1
    BY <1>0, <2>2
  <2>4. PID_MAX + 1 \in 1 .. PID_MAX + 1
    BY <1>0
  <2> QED
    BY <2>1, <2>2, <2>3, <2>4 DEF PidsUnique
<1>4. CASE sys_exit
  <2>1. /\ Alive' = Alive \ {cur} /\ PID_MAX' = PID_MAX
        /\ \A t \in Tasks \ {cur} : PID'[t] = PID[t]
    BY <1>4, ExitPids
  <2> QED
    BY <1>0, <2>1 DEF PidsUnique
<1>5. CASE \E p \in UserPages, v \in Values : user_store(p, v)
  BY <1>5 DEF PidsUnique, Alive, user_store, queueVars
<1> QED
  BY <1>1, <1>2, <1>3, <1>4, <1>5, ProcessSteps

\* The two invariants together.
LEMMA SpecPids == Spec => [](IInv /\ PidsUnique)
<1>1. Init => IInv /\ PidsUnique
  BY InitIInv, InitPids
<1>2. IInv /\ PidsUnique /\ [Next]_vars => (IInv /\ PidsUnique)'
  BY NextIInv, NextPids
<1> QED
  BY <1>1, <1>2, PTL DEF Spec

\* A step frees no PCB that keeps its PID, unless a fork fails.
LEMMA NextDead ==
  IInv /\ FramesSuffice /\ DeadTasksHaveNoPID /\ [Next]_vars => DeadTasksHaveNoPID'
<1> SUFFICES ASSUME IInv, FramesSuffice, DeadTasksHaveNoPID, [Next]_vars
             PROVE  DeadTasksHaveNoPID'
  OBVIOUS
<1>0. Range(freequeue) \subseteq Tasks
  BY RangeOfSeq DEF IInv, TypeOK
<1>1. CASE ProcessesSame
  BY <1>1 DEF ProcessesSame, DeadTasksHaveNoPID
<1>2. CASE where[cur] = "user" /\ sys_fork_ENOMEM
  BY <1>2, EnomemPids DEF sys_fork_ENOMEM, FramesSuffice
<1>3. CASE where[cur] = "user" /\ sys_fork_child
  <2>1. PICK child \in Tasks :
          /\ Range(freequeue') \subseteq Range(freequeue) \ {child}
          /\ \A t \in Tasks \ {child} : PID'[t] = PID[t]
    BY <1>3, ForkPids
  <2> QED
    BY <1>0, <2>1 DEF DeadTasksHaveNoPID
<1>4. CASE sys_exit
  <2>1. /\ Range(freequeue') = Range(freequeue) \cup {cur} /\ PID'[cur] = -1
        /\ \A t \in Tasks \ {cur} : PID'[t] = PID[t]
    BY <1>4, ExitPids
  <2> QED
    BY <1>0, <2>1 DEF DeadTasksHaveNoPID
<1>5. CASE \E p \in UserPages, v \in Values : user_store(p, v)
  BY <1>5 DEF DeadTasksHaveNoPID, user_store, queueVars
<1> QED
  BY <1>1, <1>2, <1>3, <1>4, <1>5, ProcessSteps

\* As long as there are frames for every child, a PCB that exit or the boot has
\* left free has no PID.
LEMMA DeadCorrect == Spec /\ []FramesSuffice => []DeadTasksHaveNoPID
<1>1. Init => DeadTasksHaveNoPID
  BY InitPids
<1> QED
  BY <1>1, NextDead, SpecIInv, PTL DEF Spec

\* As long as there are frames for every child, the scan of sys_get_stats finds
\* the living process with the PID it is given, for any number of processes.
LEMMA LookupCorrect == Spec /\ []FramesSuffice => []LookupFindsLive
<1>1. IInv /\ PidsUnique /\ DeadTasksHaveNoPID => LookupFindsLive
  <2> SUFFICES ASSUME IInv, PidsUnique, DeadTasksHaveNoPID PROVE LookupFindsLive
    OBVIOUS
  <2>1. /\ Tasks = Alive \cup {IDLE} \cup Range(freequeue)
        /\ PID[IDLE] = 0 /\ PID_MAX \in Nat
    <3>1. Range(freequeue) \subseteq Tasks
      BY RangeOfSeq DEF IInv, TypeOK
    <3> QED
      BY <3>1, IdleInit DEF Alive, IInv, PidInv, TypeOK
  <2>2. ASSUME NEW t \in Alive \cup {IDLE}, NEW u \in Tasks, PID[u] = PID[t]
        PROVE  u = t
    <3>1. \A w \in Alive : PID[w] # 0 /\ PID[w] # -1
      BY <2>1 DEF PidsUnique
    <3>2. \A w \in Range(freequeue) : PID[w] = -1
      BY DEF DeadTasksHaveNoPID
    <3> QED
      BY <2>1, <2>2, <3>1, <3>2 DEF PidsUnique
  <2>3. ASSUME NEW t \in Alive \cup {IDLE} PROVE getStatPID(PID[t]) = t
    <3>1. {u \in Tasks : PID[u] = PID[t]} = {t}
      BY <2>1, <2>2
    <3>2. t \in Int
      BY <2>1, KernelAssumption DEF Tasks
    <3>3. (CHOOSE v \in {t} : \A u \in {t} : v <= u) = t
      BY <3>2
    <3> QED
      BY <3>1, <3>3 DEF getStatPID
  <2> QED
    BY <2>3 DEF LookupFindsLive, PidsUnique
<1> QED
  BY <1>1, SpecPids, DeadCorrect, PTL
=============================================================================
