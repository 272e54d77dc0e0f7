------------------------------ MODULE ZeosStats ------------------------------
(***************************************************************************)
(* The accounting of zeos/sched.c: every PCB has a struct stats in which   *)
(* the act_ticks_* functions add up where its process spent its time.      *)
(*                                                                         *)
(* The steps are those of ZeosKernel, cut at the same points of the code,  *)
(* with the calls of the accounting functions in their order.  What only   *)
(* decides who runs next (policies, quantum, the order of the lists, the   *)
(* console's requests) is a free choice here: readyqueue and               *)
(* console_blocked are sets, a switch may happen wherever the code asks    *)
(* needs_sched, and any ready task or idle may be next.                    *)
(*                                                                         *)
(* get_ticks reads the cycle counter of the CPU.  Each call reads it anew, *)
(* so a step chooses a later or equal value for every read.  The functions *)
(* read it twice: the difference uses the first value, the stamp left for  *)
(* the next difference is the second.                                      *)
(*                                                                         *)
(* A handler that reads no clock lets time pass and leaves the statics as  *)
(* they are.                                                               *)
(*                                                                         *)
(* The numbers of a free PCB are not kept: fork overwrites them with its   *)
(* parent's before anything reads them.                                    *)
(***************************************************************************)
EXTENDS Integers

CONSTANTS
  Procs,      \* the PCBs but the one of idle
  InitTask,   \* the PCB of init_task
  Idle,       \* the PCB of idle_task
  MaxTime,    \* bound: the last value get_ticks returns in this instance
  ULONG_MAX   \* largest unsigned long: total_trans wraps around it (2^32-1)

ASSUME StatsAssumption ==
  /\ InitTask \in Procs /\ Idle \notin Procs
  /\ MaxTime \in Nat
  /\ ULONG_MAX \in Nat \ {0}

Tasks == Procs \cup {Idle}

VARIABLES
  cur,              \* current()
  where,            \* the program point at which each task goes on
  freequeue, readyqueue, console_blocked,
  now,              \* the cycle counter: get_ticks never returns less
  statics,          \* the struct stats of each PCB
  origin,           \* history: when the accounting began, less what it inherits
  missed,           \* history: dispatches that total_trans did not count
  dispatched        \* history: when the running task was given the CPU

taskVars == <<cur, where, freequeue, readyqueue, console_blocked>>
statVars == <<now, statics, origin, missed, dispatched>>
vars     == <<taskVars, statVars>>

\* Points at which a task is inside task_switch when another one runs; a new
\* child and a new idle task start without its epilogue.
InTaskSwitch == {"clock_sched", "clock_exit", "read_return"}
Points == InTaskSwitch \cup {"user", "cpu_idle", "ret_from_fork", "dead"}

\* The values get_ticks may return once it has returned t.
Later(t) == t .. MaxTime

Wrap(n) == n % (ULONG_MAX + 1)

\* The struct stats that the boot leaves, get_ticks having returned 0.
ini_stats == [user_ticks |-> 0, system_ticks |-> 0, blocked_ticks |-> 0,
              ready_ticks |-> 0, elapsed_total_ticks |-> 0, total_trans |-> 0]

(***************************************************************************)
(* The functions of sched.c, on the table st of all statics; a and b are   *)
(* the two reads of get_ticks.                                             *)
(***************************************************************************)
Stamp(st, t, b) == [st EXCEPT ![t].elapsed_total_ticks = b]
\* Mutant: the difference is taken the wrong way round.
Since_swapped(st, t, a) == st[t].elapsed_total_ticks - a
Since(st, t, a) == a - st[t].elapsed_total_ticks

act_ticks_user2kernel(st, t, a, b) ==
  Stamp([st EXCEPT ![t].user_ticks = @ + Since(st, t, a)], t, b)

act_ticks_kernel2user(st, t, a, b) ==
  Stamp([st EXCEPT ![t].system_ticks = @ + Since(st, t, a)], t, b)

\* Mutant: the stamp is not renewed.
act_ticks_kernel2ready_stale(st, t, a, b) ==
  [st EXCEPT ![t].system_ticks = @ + Since(st, t, a)]
act_ticks_kernel2ready(st, t, a, b) ==
  Stamp([st EXCEPT ![t].system_ticks = @ + Since(st, t, a)], t, b)

\* Mutant: the dispatch is not counted.
act_ticks_ready2kernel_uncounted(st, t, a, b) ==
  Stamp([st EXCEPT ![t].ready_ticks = @ + Since(st, t, a)], t, b)
act_ticks_ready2kernel(st, t, a, b) ==
  Stamp([st EXCEPT ![t].ready_ticks = @ + Since(st, t, a),
                   ![t].total_trans = Wrap(@ + 1)], t, b)

act_stats_surt_idle(st, a, b) ==
  Stamp([st EXCEPT ![Idle].system_ticks = @ + Since(st, Idle, a)], Idle, b)

\* What block_process does with the times: system_ticks is assigned.
BlockStats(st, t, a, b) ==
  Stamp([st EXCEPT ![t].system_ticks = Since(st, t, a)], t, b)

\* Mutant: blocked_ticks is assigned.
UnblockStats_assign(st, t, a, b) ==
  Stamp([st EXCEPT ![t].blocked_ticks = Since(st, t, a)], t, b)
UnblockStats(st, t, a, b) ==
  Stamp([st EXCEPT ![t].blocked_ticks = @ + Since(st, t, a)], t, b)

\* Mutant: the child starts with the stamp of its parent.
set_ini_stats_stamp(s, a) ==
  [s EXCEPT !.user_ticks = 0, !.system_ticks = 0, !.blocked_ticks = 0,
            !.total_trans = 0]
\* ready_ticks is not reset.
set_ini_stats(s, a) ==
  [s EXCEPT !.user_ticks = 0, !.system_ticks = 0, !.blocked_ticks = 0,
            !.elapsed_total_ticks = a, !.total_trans = 0]

\* main has returned to user mode, some time after init_idle and init_task1.
Init ==
  /\ cur = InitTask
  /\ where = [t \in Tasks |-> CASE t = InitTask -> "user"
                                [] t = Idle -> "cpu_idle"
                                [] OTHER -> "dead"]
  /\ freequeue = Procs \ {InitTask}
  /\ readyqueue = {} /\ console_blocked = {}
  /\ now \in 0 .. MaxTime
  /\ statics = [t \in Tasks |-> ini_stats]
  /\ origin = [t \in Tasks |-> 0]
  /\ missed = [t \in Tasks |-> 0]
  /\ dispatched = 0

\* Table f with the entries of free PCBs dropped.
Drop(f, none) == [t \in Tasks |-> IF where'[t] = "dead" THEN none ELSE f[t]]

(***************************************************************************)
(* task_switch(next), called at time t with the table st by the current    *)
(* task at point k; rq is readyqueue with the current task in it if it has *)
(* been queued.                                                            *)
(***************************************************************************)
task_switch(next, rq, st, t, k) ==
  /\ cur' = next
  /\ where' = [where EXCEPT ![cur] = k]
  /\ readyqueue' = rq \ {next}
  /\ \E a \in Later(t) : \E b \in Later(a) :
       LET out == act_ticks_kernel2ready(st, cur, a, b)
       IN  /\ dispatched' = b
           /\ IF where'[next] \in InTaskSwitch
                THEN \E c \in Later(b) : \E d \in Later(c) :
                       /\ statics' = Drop(act_ticks_ready2kernel(out, next, c, d),
                                          ini_stats)
                       /\ now' = d
                ELSE statics' = Drop(out, ini_stats) /\ now' = b
  /\ LET counted == Wrap(statics'[next].total_trans - statics[next].total_trans)
     IN  missed' = Drop([missed EXCEPT ![next] = @ + 1 - counted], 0)
  /\ origin' = Drop(origin, 0)

\* A ready task, or idle; idle is never kept in the set of ready tasks.
sched_next(rq, st, t, k) ==
  \E next \in rq \cup {Idle} : task_switch(next, rq \ {Idle}, st, t, k)

Stay(st, t) ==
  /\ statics' = st /\ now' = t
  /\ UNCHANGED <<cur, readyqueue, origin, missed, dispatched>>

\* Kernel code that does not read the clock.
Silent == \E a \in Later(now) : Stay(statics, a)

\* The last call of a handler before it returns to user mode.
ToUser(st, t) ==
  \E a \in Later(t) : \E b \in Later(a) :
    Stay(act_ticks_kernel2user(st, cur, a, b), b)

(***************************************************************************)
(* The timer interrupt, with the wake-up of a reader inside.               *)
(***************************************************************************)
unblock_process(w, st, t) ==
  /\ console_blocked' = console_blocked \ {w}
  /\ \E a \in Later(t) : \E b \in Later(a) :
       LET up == UnblockStats(st, w, a, b)
       IN  \/ /\ statics' = up /\ now' = b
              /\ readyqueue' = readyqueue \cup {w}
              /\ where' = [where EXCEPT ![cur] = "clock_sched"]
              /\ UNCHANGED <<cur, origin, missed, dispatched>>
           \/ sched_next(readyqueue \cup {w, cur}, up, b, "clock_sched")

clock_routine ==
  /\ where[cur] \in {"user", "cpu_idle"}
  /\ \E a \in Later(now) : \E b \in Later(a) :
       LET st == act_ticks_user2kernel(statics, cur, a, b)
       IN  \/ \E w \in console_blocked : unblock_process(w, st, b)
           \/ /\ Stay(st, b)
              /\ where' = [where EXCEPT ![cur] = "clock_sched"]
              /\ UNCHANGED console_blocked
  /\ UNCHANGED freequeue

clock_sched ==
  /\ where[cur] = "clock_sched"
  /\ \/ /\ where' = [where EXCEPT ![cur] = "clock_exit"]
        /\ Stay(statics, now)
     \/ /\ cur # Idle
        /\ sched_next(readyqueue \cup {cur}, statics, now, "clock_exit")
     \/ /\ cur = Idle
        /\ \E a \in Later(now) : \E b \in Later(a) :
             sched_next(readyqueue, act_stats_surt_idle(statics, a, b), b,
                        "clock_exit")
  /\ UNCHANGED <<freequeue, console_blocked>>

clock_exit ==
  /\ where[cur] = "clock_exit"
  /\ where' = [where EXCEPT ![cur] = IF cur = Idle THEN "cpu_idle" ELSE "user"]
  /\ ToUser(statics, now)
  /\ UNCHANGED <<freequeue, console_blocked>>

(***************************************************************************)
(* The system calls.                                                       *)
(***************************************************************************)
sys_fork_child ==
  /\ where[cur] = "user"
  /\ \E child \in freequeue :
     \E a \in Later(now) : \E b \in Later(a) : \E c \in Later(b) :
     \E d \in Later(c) : \E e \in Later(d) :
       LET st   == act_ticks_user2kernel(statics, cur, a, b)
           born == [st EXCEPT ![child] = set_ini_stats(st[cur], c)]
       IN  /\ freequeue' = freequeue \ {child}
           /\ readyqueue' = readyqueue \cup {child}
           /\ where' = [where EXCEPT ![child] = "ret_from_fork"]
           /\ statics' = act_ticks_kernel2user(born, cur, d, e)
           /\ now' = e
           /\ origin' = [origin EXCEPT ![child] = c - st[cur].ready_ticks]
           /\ missed' = [missed EXCEPT ![child] = 0]
  /\ UNCHANGED <<cur, console_blocked, dispatched>>

\* Mutant: the child starts unaccounted.
ret_from_fork_silent ==
  /\ where[cur] = "ret_from_fork"
  /\ where' = [where EXCEPT ![cur] = "user"]
  /\ Stay(statics, now)
  /\ UNCHANGED <<freequeue, console_blocked>>
ret_from_fork ==
  /\ where[cur] = "ret_from_fork"
  /\ where' = [where EXCEPT ![cur] = "user"]
  /\ ToUser(statics, now)
  /\ UNCHANGED <<freequeue, console_blocked>>

sys_exit ==
  /\ where[cur] = "user"
  /\ freequeue' = freequeue \cup {cur}
  /\ \E a \in Later(now) : \E b \in Later(a) :
       sched_next(readyqueue, act_ticks_user2kernel(statics, cur, a, b), b, "dead")
  /\ UNCHANGED console_blocked

\* The system call table names sys_read itself, which accounts for nothing: a
\* read that blocks changes the statics in block_process only.
sys_read ==
  /\ where[cur] = "user"
  /\ console_blocked' = console_blocked \cup {cur}
  /\ \E a \in Later(now) : \E b \in Later(a) :
       sched_next(readyqueue, BlockStats(statics, cur, a, b), b, "read_return")
  /\ UNCHANGED freequeue

read_return ==
  /\ where[cur] = "read_return"
  /\ where' = [where EXCEPT ![cur] = "user"]
  /\ Silent
  /\ UNCHANGED <<freequeue, console_blocked>>

\* write, gettime, getpid and get_stats, whether they succeed or fail, and a
\* fork without a PCB or a frame: in and out.
quick_call ==
  /\ where[cur] = "user"
  /\ \E a \in Later(now) : \E b \in Later(a) :
       ToUser(act_ticks_user2kernel(statics, cur, a, b), b)
  /\ UNCHANGED <<where, freequeue, console_blocked>>

\* The calls that account for nothing: a read that fails, set_sched_policy, the
\* unused entries of the table, and the numbers outside it.
silent_call ==
  /\ where[cur] = "user"
  /\ Silent
  /\ UNCHANGED <<where, freequeue, console_blocked>>

\* Nor does the keyboard interrupt.
keyboard_routine ==
  /\ where[cur] \in {"user", "cpu_idle"}
  /\ Silent
  /\ UNCHANGED <<where, freequeue, console_blocked>>

Next ==
  \/ clock_routine
  \/ clock_sched
  \/ clock_exit
  \/ sys_fork_child
  \/ ret_from_fork
  \/ sys_exit
  \/ sys_read
  \/ read_return
  \/ quick_call
  \/ silent_call
  \/ keyboard_routine

Spec == Init /\ [][Next]_vars

-----------------------------------------------------------------------------
(***************************************************************************)
(* Properties.                                                             *)
(***************************************************************************)
Counters == {"user_ticks", "system_ticks", "blocked_ticks", "ready_ticks"}
Living   == Tasks \ freequeue

\* Every variable keeps its type.  The counters are unsigned long: a difference
\* against a stamp from the future would wrap around, and here leave its range.
TypeOK ==
  /\ cur \in Living
  /\ where \in [Tasks -> Points]
  /\ freequeue \subseteq Procs
  /\ readyqueue \subseteq Procs \ freequeue
  /\ console_blocked \subseteq Procs \ freequeue
  /\ now \in 0 .. MaxTime
  /\ \A t \in Tasks :
       /\ \A c \in Counters : statics[t][c] \in 0 .. MaxTime
       /\ statics[t].elapsed_total_ticks \in 0 .. now
       /\ statics[t].total_trans \in 0 .. ULONG_MAX
  /\ origin \in [Tasks -> 0 .. MaxTime]
  /\ missed \in [Tasks -> Int]
  /\ dispatched \in 0 .. now

Accounted(s) == s.user_ticks + s.system_ticks + s.blocked_ticks + s.ready_ticks

\* No time is charged twice: what the four counters of a process hold fits
\* between the start of its accounting and its last stamp, across switches in
\* the middle of an interrupt, blocking, waking up during another task's
\* interrupt, and the first run of a child.
AccountedOnce ==
  \A t \in Living :
    Accounted(statics[t]) <= statics[t].elapsed_total_ticks - origin[t]

\* User time is time on the CPU: while a process runs user code, its stamp is
\* not older than the moment it got the CPU, so that the next entry into the
\* kernel charges as user time nothing that it spent in a queue and nothing that
\* another process ran.  This says no more: the kernel time of a call or of an
\* interrupt that reads no clock goes to user_ticks.
UserTimeIsOwnTime ==
  where[cur] = "user" => statics[cur].elapsed_total_ticks >= dispatched

\* "Number of times the process has got the CPU" (stats.h:12) is right up to
\* one: only the first dispatch of a child, which starts at ret_from_fork, and
\* of idle goes uncounted, however often the counter has wrapped around.
DispatchesCounted ==
  \A t \in Living :
    missed[t] \in IF where[t] = "ret_from_fork" /\ cur # t THEN {0} ELSE {0, 1}

\* The counters of a living process never fall, with the exception of
\* system_ticks, which block_process overwrites.
CountersOnlyGrow ==
  [][\A t \in Living \cap Living', c \in Counters \ {"system_ticks"} :
       statics'[t][c] >= statics[t][c]]_vars
=============================================================================
