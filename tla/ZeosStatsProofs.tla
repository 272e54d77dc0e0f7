--------------------------- MODULE ZeosStatsProofs ---------------------------
(***************************************************************************)
(* Proofs about ZeosStats, for any number of tasks and any readings of the *)
(* clock: no time is charged twice, user time is time on the CPU,          *)
(* dispatches are counted and the counters of a living process only grow.  *)
(***************************************************************************)
EXTENDS ZeosStats, TLAPS

StatRec == [user_ticks : Nat, system_ticks : Nat, blocked_ticks : Nat,
            ready_ticks : Nat, elapsed_total_ticks : Nat, total_trans : Int]

\* The accounting s of a process since o, at time n.
Once(s, o, n) == /\ s \in StatRec
                 /\ s.elapsed_total_ticks <= n
                 /\ Accounted(s) <= s.elapsed_total_ticks - o

Table(st, o, n) == /\ st \in [Tasks -> StatRec]
                   /\ \A t \in Tasks : Once(st[t], o[t], n)

-----------------------------------------------------------------------------
(***************************************************************************)
(* The functions of sched.c keep a table of accounts right.                *)
(***************************************************************************)
\* Replacing the account of one task by one that is right at a later time.
LEMMA Update ==
  ASSUME NEW o, NEW n \in Nat, NEW b \in Nat, n <= b,
         NEW st, Table(st, o, n), NEW t \in Tasks, NEW s, Once(s, o[t], b),
         NEW up, up = [st EXCEPT ![t] = s]
  PROVE  Table(up, o, b)
<1>1. st \in [Tasks -> StatRec] /\ s \in StatRec
  BY DEF Table, Once
<1>2. up \in [Tasks -> StatRec]
  BY <1>1
<1>3. ASSUME NEW u \in Tasks PROVE Once(up[u], o[u], b)
  <2>1. CASE u = t
    BY <1>1, <2>1
  <2>2. CASE u # t
    <3>1. up[u] = st[u] /\ Once(st[u], o[u], n) /\ st[u] \in StatRec
      BY <1>1, <2>2 DEF Table
    <3>2. st[u].elapsed_total_ticks \in Nat
      BY <3>1 DEF StatRec
    <3> QED
      BY <3>1, <3>2 DEF Once
  <2> QED
    BY <2>1, <2>2
<1> QED
  BY <1>2, <1>3 DEF Table

\* The clock does not go back.
LEMMA LaterNat ==
  ASSUME NEW n \in Nat, NEW a \in Later(n)
  PROVE  a \in Nat /\ n <= a
BY StatsAssumption DEF Later

\* A table stays right while time passes.
LEMMA TableLater ==
  ASSUME NEW o, NEW n \in Nat, NEW b \in Nat, n <= b, NEW st, Table(st, o, n)
  PROVE  Table(st, o, b)
<1>1. ASSUME NEW u \in Tasks PROVE Once(st[u], o[u], b)
  <2>1. Once(st[u], o[u], n) /\ st[u] \in StatRec
    BY DEF Table
  <2>2. st[u].elapsed_total_ticks \in Nat
    BY <2>1 DEF StatRec
  <2> QED
    BY <2>1, <2>2 DEF Once
<1> QED
  BY <1>1 DEF Table

\* Charging the time since the stamp to one counter, or letting it replace the
\* system time, and stamping again.
LEMMA Charge ==
  ASSUME NEW o \in Int, NEW n \in Nat, NEW s, Once(s, o, n),
         NEW a \in Later(n), NEW b \in Later(a), NEW k \in Int, NEW d,
         d = a - s.elapsed_total_ticks
  PROVE  /\ Once([[s EXCEPT !.user_ticks = @ + d] EXCEPT
                    !.elapsed_total_ticks = b], o, b)
         /\ Once([[s EXCEPT !.system_ticks = @ + d] EXCEPT
                    !.elapsed_total_ticks = b], o, b)
         /\ Once([[s EXCEPT !.system_ticks = d] EXCEPT
                    !.elapsed_total_ticks = b], o, b)
         /\ Once([[s EXCEPT !.blocked_ticks = @ + d] EXCEPT
                    !.elapsed_total_ticks = b], o, b)
         /\ Once([[s EXCEPT !.ready_ticks = @ + d, !.total_trans = k] EXCEPT
                    !.elapsed_total_ticks = b], o, b)
<1>1. a \in Nat /\ n <= a /\ b \in Nat /\ a <= b
  BY LaterNat
<1>2. s \in StatRec /\ s.elapsed_total_ticks <= n
  BY DEF Once
<1>3. /\ s.user_ticks + s.system_ticks + s.blocked_ticks + s.ready_ticks
           <= s.elapsed_total_ticks - o
      /\ s.user_ticks \in Nat /\ s.system_ticks \in Nat /\ s.blocked_ticks \in Nat
      /\ s.ready_ticks \in Nat /\ s.elapsed_total_ticks \in Nat
  BY <1>2 DEF Once, Accounted, StatRec
<1>4. d \in Nat /\ d + s.elapsed_total_ticks <= b
  BY <1>1, <1>2, <1>3
<1>5. Once([[s EXCEPT !.user_ticks = @ + d] EXCEPT !.elapsed_total_ticks = b], o, b)
  <2> DEFINE q == [s EXCEPT !.user_ticks = @ + d]
             r == [q EXCEPT !.elapsed_total_ticks = b]
  <2>1. q \in StatRec
    BY <1>2, <1>3, <1>4 DEF StatRec
  <2>2. r \in StatRec
    BY <1>1, <2>1 DEF StatRec
  <2>3. /\ r.elapsed_total_ticks = b
        /\ r.user_ticks = s.user_ticks + d
        /\ r.system_ticks = s.system_ticks
        /\ r.blocked_ticks = s.blocked_ticks
        /\ r.ready_ticks = s.ready_ticks
    BY <1>2, <2>1 DEF StatRec
  <2> HIDE DEF r, q
  <2>4. Accounted(r) <= r.elapsed_total_ticks - o
    BY <1>1, <1>3, <1>4, <2>3 DEF Accounted
  <2>5. Once(r, o, b)
    BY <1>1, <2>2, <2>3, <2>4 DEF Once
  <2> QED
    BY <2>5 DEF r, q
<1>6. Once([[s EXCEPT !.system_ticks = @ + d] EXCEPT !.elapsed_total_ticks = b], o, b)
  <2> DEFINE q == [s EXCEPT !.system_ticks = @ + d]
             r == [q EXCEPT !.elapsed_total_ticks = b]
  <2>1. q \in StatRec
    BY <1>2, <1>3, <1>4 DEF StatRec
  <2>2. r \in StatRec
    BY <1>1, <2>1 DEF StatRec
  <2>3. /\ r.elapsed_total_ticks = b
        /\ r.user_ticks = s.user_ticks
        /\ r.system_ticks = s.system_ticks + d
        /\ r.blocked_ticks = s.blocked_ticks
        /\ r.ready_ticks = s.ready_ticks
    BY <1>2, <2>1 DEF StatRec
  <2> HIDE DEF r, q
  <2>4. Accounted(r) <= r.elapsed_total_ticks - o
    BY <1>1, <1>3, <1>4, <2>3 DEF Accounted
  <2>5. Once(r, o, b)
    BY <1>1, <2>2, <2>3, <2>4 DEF Once
  <2> QED
    BY <2>5 DEF r, q
<1>7. Once([[s EXCEPT !.system_ticks = d] EXCEPT !.elapsed_total_ticks = b], o, b)
  <2> DEFINE q == [s EXCEPT !.system_ticks = d]
             r == [q EXCEPT !.elapsed_total_ticks = b]
  <2>1. q \in StatRec
    BY <1>2, <1>3, <1>4 DEF StatRec
  <2>2. r \in StatRec
    BY <1>1, <2>1 DEF StatRec
  <2>3. /\ r.elapsed_total_ticks = b
        /\ r.user_ticks = s.user_ticks
        /\ r.system_ticks = d
        /\ r.blocked_ticks = s.blocked_ticks
        /\ r.ready_ticks = s.ready_ticks
    BY <1>2, <2>1 DEF StatRec
  <2> HIDE DEF r, q
  <2>4. Accounted(r) <= r.elapsed_total_ticks - o
    BY <1>1, <1>3, <1>4, <2>3 DEF Accounted
  <2>5. Once(r, o, b)
    BY <1>1, <2>2, <2>3, <2>4 DEF Once
  <2> QED
    BY <2>5 DEF r, q
<1>8. Once([[s EXCEPT !.blocked_ticks = @ + d] EXCEPT !.elapsed_total_ticks = b], o, b)
  <2> DEFINE q == [s EXCEPT !.blocked_ticks = @ + d]
             r == [q EXCEPT !.elapsed_total_ticks = b]
  <2>1. q \in StatRec
    BY <1>2, <1>3, <1>4 DEF StatRec
  <2>2. r \in StatRec
    BY <1>1, <2>1 DEF StatRec
  <2>3. /\ r.elapsed_total_ticks = b
        /\ r.user_ticks = s.user_ticks
        /\ r.system_ticks = s.system_ticks
        /\ r.blocked_ticks = s.blocked_ticks + d
        /\ r.ready_ticks = s.ready_ticks
    BY <1>2, <2>1 DEF StatRec
  <2> HIDE DEF r, q
  <2>4. Accounted(r) <= r.elapsed_total_ticks - o
    BY <1>1, <1>3, <1>4, <2>3 DEF Accounted
  <2>5. Once(r, o, b)
    BY <1>1, <2>2, <2>3, <2>4 DEF Once
  <2> QED
    BY <2>5 DEF r, q
<1>9. Once([[s EXCEPT !.ready_ticks = @ + d, !.total_trans = k] EXCEPT
             !.elapsed_total_ticks = b], o, b)
  <2> DEFINE p == [s EXCEPT !.ready_ticks = @ + d]
             q == [p EXCEPT !.total_trans = k]
             r == [q EXCEPT !.elapsed_total_ticks = b]
  <2>0. p \in StatRec
    BY <1>2, <1>3, <1>4 DEF StatRec
  <2>1. q \in StatRec
    BY <2>0 DEF StatRec
  <2>2. r \in StatRec
    BY <1>1, <2>1 DEF StatRec
  <2>3. /\ r.elapsed_total_ticks = b
        /\ r.user_ticks = s.user_ticks
        /\ r.system_ticks = s.system_ticks
        /\ r.blocked_ticks = s.blocked_ticks
        /\ r.ready_ticks = s.ready_ticks + d
    BY <1>2, <2>0, <2>1 DEF StatRec
  <2> HIDE DEF r, q, p
  <2>4. Accounted(r) <= r.elapsed_total_ticks - o
    BY <1>1, <1>3, <1>4, <2>3 DEF Accounted
  <2>5. Once(r, o, b)
    BY <1>1, <2>2, <2>3, <2>4 DEF Once
  <2> QED
    BY <2>5 DEF r, q, p
<1> QED
  BY <1>5, <1>6, <1>7, <1>8, <1>9

\* Every counter of every function.
LEMMA Acts ==
  ASSUME NEW o \in [Tasks -> Int], NEW n \in Nat, NEW st, Table(st, o, n),
         NEW t \in Tasks, NEW a \in Later(n), NEW b \in Later(a)
  PROVE  /\ Table(act_ticks_user2kernel(st, t, a, b), o, b)
         /\ Table(act_ticks_kernel2user(st, t, a, b), o, b)
         /\ Table(act_ticks_kernel2ready(st, t, a, b), o, b)
         /\ Table(BlockStats(st, t, a, b), o, b)
         /\ Table(UnblockStats(st, t, a, b), o, b)
         /\ Table(act_ticks_ready2kernel(st, t, a, b), o, b)
<1>1. a \in Nat /\ n <= a /\ b \in Nat /\ a <= b /\ n <= b
  BY LaterNat
<1>2. o[t] \in Int /\ Once(st[t], o[t], n)
  BY DEF Table
<1>3. st \in [Tasks -> StatRec] /\ st[t] \in StatRec
  BY DEF Table
<1>4. Table(act_ticks_user2kernel(st, t, a, b), o, b)
  <2>1. Once([[st[t] EXCEPT !.user_ticks = @ + Since(st, t, a)]
              EXCEPT !.elapsed_total_ticks = b], o[t], b)
    BY <1>2, Charge DEF Since
  <2>2. act_ticks_user2kernel(st, t, a, b) =
          [st EXCEPT ![t] =
             [[st[t] EXCEPT !.user_ticks = @ + Since(st, t, a)]
              EXCEPT !.elapsed_total_ticks = b]]
    BY <1>3 DEF act_ticks_user2kernel, Stamp
  <2> QED
    BY <1>1, <2>1, <2>2, Update
<1>5. Table(act_ticks_kernel2user(st, t, a, b), o, b)
  <2>1. Once([[st[t] EXCEPT !.system_ticks = @ + Since(st, t, a)]
              EXCEPT !.elapsed_total_ticks = b], o[t], b)
    BY <1>2, Charge DEF Since
  <2>2. act_ticks_kernel2user(st, t, a, b) =
          [st EXCEPT ![t] =
             [[st[t] EXCEPT !.system_ticks = @ + Since(st, t, a)]
              EXCEPT !.elapsed_total_ticks = b]]
    BY <1>3 DEF act_ticks_kernel2user, Stamp
  <2> QED
    BY <1>1, <2>1, <2>2, Update
<1>6. Table(act_ticks_kernel2ready(st, t, a, b), o, b)
  <2>1. Once([[st[t] EXCEPT !.system_ticks = @ + Since(st, t, a)]
              EXCEPT !.elapsed_total_ticks = b], o[t], b)
    BY <1>2, Charge DEF Since
  <2>2. act_ticks_kernel2ready(st, t, a, b) =
          [st EXCEPT ![t] =
             [[st[t] EXCEPT !.system_ticks = @ + Since(st, t, a)]
              EXCEPT !.elapsed_total_ticks = b]]
    BY <1>3 DEF act_ticks_kernel2ready, Stamp
  <2> QED
    BY <1>1, <2>1, <2>2, Update
<1>7. Table(BlockStats(st, t, a, b), o, b)
  <2>1. Once([[st[t] EXCEPT !.system_ticks = Since(st, t, a)]
              EXCEPT !.elapsed_total_ticks = b], o[t], b)
    BY <1>2, Charge DEF Since
  <2>2. BlockStats(st, t, a, b) =
          [st EXCEPT ![t] =
             [[st[t] EXCEPT !.system_ticks = Since(st, t, a)]
              EXCEPT !.elapsed_total_ticks = b]]
    BY <1>3 DEF BlockStats, Stamp
  <2> QED
    BY <1>1, <2>1, <2>2, Update
<1>8. Table(UnblockStats(st, t, a, b), o, b)
  <2>1. Once([[st[t] EXCEPT !.blocked_ticks = @ + Since(st, t, a)]
              EXCEPT !.elapsed_total_ticks = b], o[t], b)
    BY <1>2, Charge DEF Since
  <2>2. UnblockStats(st, t, a, b) =
          [st EXCEPT ![t] =
             [[st[t] EXCEPT !.blocked_ticks = @ + Since(st, t, a)]
              EXCEPT !.elapsed_total_ticks = b]]
    BY <1>3 DEF UnblockStats, Stamp
  <2> QED
    BY <1>1, <2>1, <2>2, Update
<1>9. Table(act_ticks_ready2kernel(st, t, a, b), o, b)
  <2> DEFINE k == Wrap(st[t].total_trans + 1)
  <2>1. k \in Int
    BY <1>3, StatsAssumption DEF Wrap, StatRec
  <2> HIDE DEF k
  <2>2. Once([[st[t] EXCEPT !.ready_ticks = @ + Since(st, t, a), !.total_trans = k]
               EXCEPT !.elapsed_total_ticks = b], o[t], b)
    BY <1>2, <2>1, Charge DEF Since
  <2>3. act_ticks_ready2kernel(st, t, a, b) =
          [st EXCEPT ![t] =
             [[st[t] EXCEPT !.ready_ticks = @ + Since(st, t, a), !.total_trans = k]
               EXCEPT !.elapsed_total_ticks = b]]
    BY <1>3 DEF act_ticks_ready2kernel, Stamp, k, StatRec
  <2> QED
    BY <1>1, <2>2, <2>3, Update
<1> QED
  BY <1>4, <1>5, <1>6, <1>7, <1>8, <1>9

\* Both functions leave the second read of the clock as the stamp.
LEMMA Stamps ==
  ASSUME NEW o, NEW n, NEW st, Table(st, o, n), NEW t \in Tasks, NEW a, NEW b
  PROVE  /\ act_ticks_kernel2user(st, t, a, b)[t].elapsed_total_ticks = b
         /\ act_ticks_ready2kernel(st, t, a, b)[t].elapsed_total_ticks = b
<1>1. st \in [Tasks -> StatRec] /\ st[t] \in StatRec
  BY DEF Table
<1>2. act_ticks_kernel2user(st, t, a, b)[t].elapsed_total_ticks = b
  BY <1>1 DEF act_ticks_kernel2user, Stamp, StatRec
<1>3. act_ticks_ready2kernel(st, t, a, b)[t].elapsed_total_ticks = b
  BY <1>1 DEF act_ticks_ready2kernel, Stamp, StatRec
<1> QED
  BY <1>2, <1>3

\* The entries of free PCBs may be dropped.
LEMMA DropTable ==
  ASSUME NEW o \in [Tasks -> Int], NEW n \in Nat, NEW st, Table(st, o, n),
         where' \in [Tasks -> Points]
  PROVE  Table(Drop(st, ini_stats), Drop(o, 0), n) /\ Drop(o, 0) \in [Tasks -> Int]
<1>1. Once(ini_stats, 0, n)
  BY DEF Once, ini_stats, Accounted, StatRec
<1>2. ASSUME NEW t \in Tasks
      PROVE  Once(Drop(st, ini_stats)[t], Drop(o, 0)[t], n)
  BY <1>1 DEF Drop, Table
<1>3. Drop(st, ini_stats) \in [Tasks -> StatRec]
  BY <1>1 DEF Drop, Table, Once
<1>4. Drop(o, 0) \in [Tasks -> Int]
  BY DEF Drop
<1> QED
  BY <1>2, <1>3, <1>4 DEF Table

-----------------------------------------------------------------------------
(***************************************************************************)
(* The inductive invariant.                                                *)
(***************************************************************************)
Places == /\ cur \in Tasks /\ where \in [Tasks -> Points]
          /\ freequeue \subseteq Tasks /\ readyqueue \subseteq Tasks
          /\ console_blocked \subseteq Tasks

Accounts == /\ now \in Nat /\ origin \in [Tasks -> Int]
            /\ Table(statics, origin, now)

\* A task that has left the CPU is inside the kernel.
UserIsCurrent == \A t \in Tasks : where[t] = "user" => t = cur

\* The stamp is from this turn on the CPU in user mode, and before a return from
\* read, which reads no clock.
Fresh ==
  /\ dispatched \in Nat /\ dispatched <= now
  /\ where[cur] \in {"user", "read_return"}
       => dispatched <= statics[cur].elapsed_total_ticks

StatsInv == Places /\ Accounts /\ UserIsCurrent /\ Fresh

\* task_switch, wherever it is called.
LEMMA TaskSwitch ==
  ASSUME StatsInv, NEW next \in Tasks, NEW rq, rq \subseteq Tasks,
         NEW t \in Nat, NEW st, Table(st, origin, t),
         NEW k \in InTaskSwitch \cup {"dead"}, task_switch(next, rq, st, t, k),
         freequeue' \subseteq Tasks, console_blocked' \subseteq Tasks
  PROVE  StatsInv'
<1>1. Places'
  BY DEF StatsInv, Places, task_switch, Points, InTaskSwitch
<1>2. UserIsCurrent' /\ where'[next] # "user"
  BY DEF StatsInv, Places, UserIsCurrent, task_switch, InTaskSwitch
<1>3. PICK a \in Later(t) : \E b \in Later(a) :
        LET out == act_ticks_kernel2ready(st, cur, a, b)
        IN  /\ dispatched' = b
            /\ IF where'[next] \in InTaskSwitch
                 THEN \E c \in Later(b) : \E d \in Later(c) :
                        /\ statics' = Drop(act_ticks_ready2kernel(out, next, c, d), ini_stats)
                        /\ now' = d
                 ELSE statics' = Drop(out, ini_stats) /\ now' = b
  BY DEF task_switch
<1>4. PICK b \in Later(a) :
        LET out == act_ticks_kernel2ready(st, cur, a, b)
        IN  /\ dispatched' = b
            /\ IF where'[next] \in InTaskSwitch
                 THEN \E c \in Later(b) : \E d \in Later(c) :
                        /\ statics' = Drop(act_ticks_ready2kernel(out, next, c, d), ini_stats)
                        /\ now' = d
                 ELSE statics' = Drop(out, ini_stats) /\ now' = b
  BY <1>3
<1> DEFINE out == act_ticks_kernel2ready(st, cur, a, b)
<1>5. /\ cur \in Tasks /\ origin \in [Tasks -> Int]
      /\ where' \in [Tasks -> Points] /\ cur' = next /\ origin' = Drop(origin, 0)
  BY <1>1 DEF StatsInv, Places, Accounts, task_switch
<1>6. b \in Nat /\ Table(out, origin, b)
  BY <1>5, Acts, LaterNat
<1>7. CASE where'[next] \notin InTaskSwitch
  <2>1. statics' = Drop(out, ini_stats) /\ now' = b /\ dispatched' = b
    BY <1>4, <1>7
  <2>2. Accounts'
    BY <1>5, <1>6, <2>1, DropTable DEF Accounts
  <2>3. Fresh'
    BY <1>2, <1>5, <1>6, <1>7, <2>1 DEF Fresh, InTaskSwitch
  <2> QED
    BY <1>1, <1>2, <2>2, <2>3 DEF StatsInv
<1>8. CASE where'[next] \in InTaskSwitch
  <2>1. PICK c \in Later(b) : \E d \in Later(c) :
          /\ statics' = Drop(act_ticks_ready2kernel(out, next, c, d), ini_stats)
          /\ now' = d
    BY <1>4, <1>8
  <2>2. PICK d \in Later(c) :
          /\ statics' = Drop(act_ticks_ready2kernel(out, next, c, d), ini_stats)
          /\ now' = d
    BY <2>1
  <2> HIDE DEF out
  <2>3. d \in Nat /\ Table(act_ticks_ready2kernel(out, next, c, d), origin, d)
    BY <1>5, <1>6, Acts, LaterNat
  <2>8. dispatched' = b /\ b <= d
    <3>1. c \in Nat /\ b <= c
      BY <1>6, LaterNat
    <3>2. d \in Nat /\ c <= d
      BY <3>1, LaterNat
    <3> QED
      BY <1>4, <1>6, <3>1, <3>2
  <2>4. Accounts'
    BY <1>5, <2>2, <2>3, DropTable DEF Accounts
  <2>5. act_ticks_ready2kernel(out, next, c, d)[next].elapsed_total_ticks = d
    BY <1>6, Stamps
  <2>6. statics'[next] = act_ticks_ready2kernel(out, next, c, d)[next]
    BY <1>8, <2>2 DEF Drop, InTaskSwitch
  <2>7. Fresh'
    BY <1>5, <1>6, <2>2, <2>3, <2>5, <2>6, <2>8 DEF Fresh
  <2> QED
    BY <1>1, <1>2, <2>4, <2>7 DEF StatsInv
<1> QED
  BY <1>7, <1>8

\* A ready task or idle gets the CPU.
LEMMA SchedNext ==
  ASSUME StatsInv, NEW rq, rq \subseteq Tasks,
         NEW t \in Nat, NEW st, Table(st, origin, t),
         NEW k \in InTaskSwitch \cup {"dead"}, sched_next(rq, st, t, k),
         freequeue' \subseteq Tasks, console_blocked' \subseteq Tasks
  PROVE  StatsInv'
<1>1. PICK next \in rq \cup {Idle} : task_switch(next, rq \ {Idle}, st, t, k)
  BY DEF sched_next
<1>2. next \in Tasks /\ rq \ {Idle} \subseteq Tasks
  BY DEF Tasks
<1> QED
  BY <1>1, <1>2, TaskSwitch

\* The return of a handler to user mode.
LEMMA ReturnToUser ==
  ASSUME StatsInv, NEW t \in Nat, now <= t, NEW st, Table(st, origin, t),
         ToUser(st, t), NEW p \in {"user", "cpu_idle"}, where' = [where EXCEPT ![cur] = p],
         UNCHANGED <<freequeue, console_blocked>>
  PROVE  StatsInv'
<1>1. PICK a \in Later(t) : \E b \in Later(a) :
        Stay(act_ticks_kernel2user(st, cur, a, b), b)
  BY DEF ToUser
<1>2. PICK b \in Later(a) : Stay(act_ticks_kernel2user(st, cur, a, b), b)
  BY <1>1
<1>3. cur \in Tasks /\ origin \in [Tasks -> Int]
  BY DEF StatsInv, Places, Accounts
<1>4. /\ b \in Nat /\ Table(act_ticks_kernel2user(st, cur, a, b), origin, b)
      /\ act_ticks_kernel2user(st, cur, a, b)[cur].elapsed_total_ticks = b
  BY <1>3, Acts, LaterNat, Stamps
<1>5. Places' /\ UserIsCurrent'
  BY <1>2 DEF StatsInv, Places, UserIsCurrent, Stay, Points
<1>6. Accounts'
  BY <1>2, <1>3, <1>4 DEF Accounts, Stay
<1>7. now <= b /\ now \in Nat
  BY LaterNat DEF StatsInv, Accounts
<1>8. Fresh'
  BY <1>2, <1>3, <1>4, <1>7 DEF StatsInv, Fresh, Stay
<1> QED
  BY <1>5, <1>6, <1>8 DEF StatsInv

\* A return to user mode that reads no clock.
LEMMA ReturnSilent ==
  ASSUME StatsInv, Silent, NEW p \in {"user", "cpu_idle"},
         where' = [where EXCEPT ![cur] = p],
         p = "user" => where[cur] \in {"user", "read_return"},
         UNCHANGED <<freequeue, console_blocked>>
  PROVE  StatsInv'
<1>1. PICK a \in Later(now) : Stay(statics, a)
  BY DEF Silent
<1>2. /\ cur \in Tasks /\ origin \in [Tasks -> Int] /\ now \in Nat
      /\ where \in [Tasks -> Points] /\ Table(statics, origin, now)
  BY DEF StatsInv, Places, Accounts
<1>3. a \in Nat /\ now <= a
  BY <1>2, LaterNat
<1>4. Places' /\ UserIsCurrent'
  BY <1>1 DEF StatsInv, Places, UserIsCurrent, Stay, Points
<1>5. Accounts'
  BY <1>1, <1>2, <1>3, TableLater DEF Accounts, Stay
<1>6. Fresh'
  BY <1>1, <1>2, <1>3 DEF StatsInv, Fresh, Stay
<1> QED
  BY <1>4, <1>5, <1>6 DEF StatsInv

\* A step inside the kernel that leaves the table st at time t.
LEMMA StayInKernel ==
  ASSUME StatsInv, NEW t \in Nat, now <= t, NEW st, Table(st, origin, t),
         statics' = st, now' = t, UNCHANGED <<cur, origin, freequeue, dispatched>>,
         NEW p \in {"clock_sched", "clock_exit"}, where' = [where EXCEPT ![cur] = p],
         readyqueue' \subseteq Tasks, console_blocked' \subseteq Tasks
  PROVE  StatsInv'
<1>1. Places' /\ UserIsCurrent'
  BY DEF StatsInv, Places, UserIsCurrent, Points, InTaskSwitch
<1>2. Accounts' /\ Fresh'
  BY DEF StatsInv, Places, Accounts, Fresh
<1> QED
  BY <1>1, <1>2 DEF StatsInv

\* The timer interrupt up to its scheduling point, waking up a reader or not.
LEMMA ClockRoutine == StatsInv /\ clock_routine => StatsInv'
<1> SUFFICES ASSUME StatsInv, clock_routine PROVE StatsInv'
  OBVIOUS
<1>0. PICK a \in Later(now) : \E b \in Later(a) :
        LET st == act_ticks_user2kernel(statics, cur, a, b)
        IN  \/ \E w \in console_blocked : unblock_process(w, st, b)
            \/ /\ Stay(st, b)
               /\ where' = [where EXCEPT ![cur] = "clock_sched"]
               /\ UNCHANGED console_blocked
  BY DEF clock_routine
<1>1. PICK b \in Later(a) :
        LET st == act_ticks_user2kernel(statics, cur, a, b)
        IN  \/ \E w \in console_blocked : unblock_process(w, st, b)
            \/ /\ Stay(st, b)
               /\ where' = [where EXCEPT ![cur] = "clock_sched"]
               /\ UNCHANGED console_blocked
  BY <1>0
<1> DEFINE st == act_ticks_user2kernel(statics, cur, a, b)
<1>2. /\ cur \in Tasks /\ origin \in [Tasks -> Int] /\ now \in Nat
      /\ freequeue' = freequeue /\ freequeue \subseteq Tasks
      /\ readyqueue \subseteq Tasks /\ console_blocked \subseteq Tasks
      /\ Table(statics, origin, now)
  BY DEF StatsInv, Places, Accounts, clock_routine
<1>3. b \in Nat /\ now <= b /\ Table(st, origin, b)
  BY <1>2, Acts, LaterNat
<1> HIDE DEF st
<1>4. ASSUME NEW w \in console_blocked, unblock_process(w, st, b) PROVE StatsInv'
  <2>0. PICK c \in Later(b) : \E d \in Later(c) :
          LET up == UnblockStats(st, w, c, d)
          IN  \/ /\ statics' = up /\ now' = d
                 /\ readyqueue' = readyqueue \cup {w}
                 /\ where' = [where EXCEPT ![cur] = "clock_sched"]
                 /\ UNCHANGED <<cur, origin, missed, dispatched>>
              \/ sched_next(readyqueue \cup {w, cur}, up, d, "clock_sched")
    BY <1>4 DEF unblock_process
  <2>1. PICK d \in Later(c) :
          LET up == UnblockStats(st, w, c, d)
          IN  \/ /\ statics' = up /\ now' = d
                 /\ readyqueue' = readyqueue \cup {w}
                 /\ where' = [where EXCEPT ![cur] = "clock_sched"]
                 /\ UNCHANGED <<cur, origin, missed, dispatched>>
              \/ sched_next(readyqueue \cup {w, cur}, up, d, "clock_sched")
    BY <2>0
  <2>2. w \in Tasks /\ console_blocked' \subseteq Tasks
    BY <1>2, <1>4 DEF unblock_process
  <2>3. d \in Nat /\ now <= d /\ Table(UnblockStats(st, w, c, d), origin, d)
    BY <1>2, <1>3, <2>2, Acts, LaterNat
  <2>4. CASE sched_next(readyqueue \cup {w, cur}, UnblockStats(st, w, c, d), d,
                        "clock_sched")
    <3>1. readyqueue \cup {w, cur} \subseteq Tasks
      BY <1>2, <2>2 DEF Tasks
    <3> QED
      BY <1>2, <2>2, <2>3, <2>4, <3>1, SchedNext DEF InTaskSwitch
  <2>5. CASE /\ statics' = UnblockStats(st, w, c, d) /\ now' = d
             /\ readyqueue' = readyqueue \cup {w}
             /\ where' = [where EXCEPT ![cur] = "clock_sched"]
             /\ UNCHANGED <<cur, origin, missed, dispatched>>
    BY <1>2, <1>3, <2>2, <2>3, <2>5, StayInKernel
  <2> QED
    BY <2>1, <2>4, <2>5
<1>5. CASE /\ Stay(st, b)
           /\ where' = [where EXCEPT ![cur] = "clock_sched"]
           /\ UNCHANGED console_blocked
  BY <1>2, <1>3, <1>5, StayInKernel DEF Stay
<1> QED
  BY <1>1, <1>4, <1>5 DEF st


\* The rest of the timer interrupt, with or without a switch.
LEMMA ClockSched == StatsInv /\ clock_sched => StatsInv'
<1> SUFFICES ASSUME StatsInv, clock_sched PROVE StatsInv'
  OBVIOUS
<1>1. /\ cur \in Tasks /\ origin \in [Tasks -> Int] /\ now \in Nat
      /\ freequeue' = freequeue /\ freequeue' \subseteq Tasks
      /\ readyqueue \subseteq Tasks /\ console_blocked' \subseteq Tasks
      /\ Table(statics, origin, now)
  BY DEF StatsInv, Places, Accounts, clock_sched
<1>2. CASE where' = [where EXCEPT ![cur] = "clock_exit"] /\ Stay(statics, now)
  BY <1>1, <1>2, StayInKernel DEF Stay
<1>3. CASE sched_next(readyqueue \cup {cur}, statics, now, "clock_exit")
  <2>1. readyqueue \cup {cur} \subseteq Tasks
    BY <1>1 DEF Tasks
  <2> QED
    BY <1>1, <1>3, <2>1, SchedNext DEF InTaskSwitch
<1>4. CASE \E a \in Later(now) : \E b \in Later(a) :
             sched_next(readyqueue, act_stats_surt_idle(statics, a, b), b, "clock_exit")
  <2>1. PICK a \in Later(now) : \E b \in Later(a) :
          sched_next(readyqueue, act_stats_surt_idle(statics, a, b), b, "clock_exit")
    BY <1>4
  <2>2. PICK b \in Later(a) :
          sched_next(readyqueue, act_stats_surt_idle(statics, a, b), b, "clock_exit")
    BY <2>1
  <2>3. /\ act_stats_surt_idle(statics, a, b) = act_ticks_kernel2user(statics, Idle, a, b)
        /\ Idle \in Tasks
    BY DEF act_stats_surt_idle, act_ticks_kernel2user, Tasks
  <2>4. b \in Nat /\ Table(act_stats_surt_idle(statics, a, b), origin, b)
    BY <1>1, <2>3, Acts, LaterNat
  <2>5. readyqueue \subseteq Tasks
    BY <1>1 DEF Tasks
  <2> QED
    BY <1>1, <2>2, <2>4, <2>5, SchedNext DEF InTaskSwitch
<1> QED
  BY <1>2, <1>3, <1>4 DEF clock_sched

\* The ways back to user mode.
LEMMA Returns ==
  StatsInv /\ (\/ clock_exit \/ ret_from_fork \/ read_return
               \/ quick_call \/ silent_call \/ keyboard_routine) => StatsInv'
<1> SUFFICES ASSUME StatsInv PROVE
      (\/ clock_exit \/ ret_from_fork \/ read_return
       \/ quick_call \/ silent_call \/ keyboard_routine) => StatsInv'
  OBVIOUS
<1>1. /\ cur \in Tasks /\ origin \in [Tasks -> Int] /\ now \in Nat /\ now <= now
      /\ where \in [Tasks -> Points] /\ Table(statics, origin, now)
  BY DEF StatsInv, Places, Accounts
<1>2. ASSUME clock_exit PROVE StatsInv'
  <2>1. PICK p \in {"user", "cpu_idle"} : where' = [where EXCEPT ![cur] = p]
    BY <1>2 DEF clock_exit
  <2> QED
    BY <1>1, <1>2, <2>1, ReturnToUser DEF clock_exit
<1>3. ASSUME ret_from_fork PROVE StatsInv'
  BY <1>1, <1>3, ReturnToUser DEF ret_from_fork
<1>4. ASSUME read_return PROVE StatsInv'
  BY <1>4, ReturnSilent DEF read_return
<1>6. ASSUME silent_call \/ keyboard_routine PROVE StatsInv'
  <2>1. PICK p \in {"user", "cpu_idle"} : p = where[cur]
    BY <1>6 DEF silent_call, keyboard_routine
  <2>2. /\ where' = [where EXCEPT ![cur] = p] /\ Silent
        /\ UNCHANGED <<freequeue, console_blocked>>
    BY <1>1, <1>6, <2>1 DEF silent_call, keyboard_routine
  <2>3. p = "user" => where[cur] \in {"user", "read_return"}
    BY <2>1
  <2> QED
    BY <2>2, <2>3, ReturnSilent
<1>5. ASSUME quick_call PROVE StatsInv'
  <2>1. PICK a \in Later(now) : \E b \in Later(a) :
          ToUser(act_ticks_user2kernel(statics, cur, a, b), b)
    BY <1>5 DEF quick_call
  <2>2. PICK b \in Later(a) : ToUser(act_ticks_user2kernel(statics, cur, a, b), b)
    BY <2>1
  <2>3. /\ b \in Nat /\ now <= b
        /\ Table(act_ticks_user2kernel(statics, cur, a, b), origin, b)
    BY <1>1, Acts, LaterNat
  <2>4. where' = [where EXCEPT ![cur] = "user"]
    BY <1>1, <1>5 DEF quick_call
  <2> QED
    BY <1>5, <2>2, <2>3, <2>4, ReturnToUser DEF quick_call
<1> QED
  BY <1>2, <1>3, <1>4, <1>5, <1>6

\* The system calls after which another task runs.
LEMMA Leaves == StatsInv /\ (sys_exit \/ sys_read) => StatsInv'
<1> SUFFICES ASSUME StatsInv PROVE sys_exit \/ sys_read => StatsInv'
  OBVIOUS
<1>1. /\ cur \in Tasks /\ origin \in [Tasks -> Int] /\ now \in Nat
      /\ freequeue \subseteq Tasks /\ console_blocked \subseteq Tasks
      /\ readyqueue \subseteq Tasks /\ Table(statics, origin, now)
  BY DEF StatsInv, Places, Accounts, Tasks
<1>2. ASSUME sys_exit PROVE StatsInv'
  <2>1. PICK a \in Later(now) : \E b \in Later(a) :
          sched_next(readyqueue, act_ticks_user2kernel(statics, cur, a, b), b, "dead")
    BY <1>2 DEF sys_exit
  <2>2. PICK b \in Later(a) :
          sched_next(readyqueue, act_ticks_user2kernel(statics, cur, a, b), b, "dead")
    BY <2>1
  <2>3. b \in Nat /\ Table(act_ticks_user2kernel(statics, cur, a, b), origin, b)
    BY <1>1, Acts, LaterNat
  <2>4. freequeue' \subseteq Tasks /\ console_blocked' \subseteq Tasks
    BY <1>1, <1>2 DEF sys_exit
  <2> QED
    BY <1>1, <2>2, <2>3, <2>4, SchedNext
<1>3. ASSUME sys_read PROVE StatsInv'
  <2>1. PICK a \in Later(now) : \E b \in Later(a) :
          sched_next(readyqueue, BlockStats(statics, cur, a, b), b, "read_return")
    BY <1>3 DEF sys_read
  <2>2. PICK b \in Later(a) :
          sched_next(readyqueue, BlockStats(statics, cur, a, b), b, "read_return")
    BY <2>1
  <2>3. b \in Nat /\ Table(BlockStats(statics, cur, a, b), origin, b)
    BY <1>1, Acts, LaterNat
  <2>4. freequeue' \subseteq Tasks /\ console_blocked' \subseteq Tasks
    BY <1>1, <1>3 DEF sys_read
  <2> QED
    BY <1>1, <2>2, <2>3, <2>4, SchedNext DEF InTaskSwitch
<1> QED
  BY <1>2, <1>3

\* The child's account starts with the ready time of its parent and its stamp.
LEMMA Born ==
  ASSUME NEW s \in StatRec, NEW c \in Nat
  PROVE  Once(set_ini_stats(s, c), c - s.ready_ticks, c)
<1> DEFINE p == [s EXCEPT !.user_ticks = 0]
           q == [p EXCEPT !.system_ticks = 0]
           u == [q EXCEPT !.blocked_ticks = 0]
           v == [u EXCEPT !.elapsed_total_ticks = c]
           r == [v EXCEPT !.total_trans = 0]
<1>5. set_ini_stats(s, c) = r
  BY DEF set_ini_stats, StatRec
<1>6. /\ p \in StatRec /\ s.ready_ticks \in Nat
      /\ p.user_ticks = 0 /\ p.ready_ticks = s.ready_ticks
  BY DEF StatRec
<1> HIDE DEF p
<1>7. /\ q \in StatRec
      /\ q.user_ticks = 0 /\ q.system_ticks = 0 /\ q.ready_ticks = s.ready_ticks
  BY <1>6 DEF StatRec
<1> HIDE DEF q
<1>8. /\ u \in StatRec
      /\ u.user_ticks = 0 /\ u.system_ticks = 0 /\ u.blocked_ticks = 0
      /\ u.ready_ticks = s.ready_ticks
  BY <1>7 DEF StatRec
<1> HIDE DEF u
<1>9. /\ v \in StatRec
      /\ v.user_ticks = 0 /\ v.system_ticks = 0 /\ v.blocked_ticks = 0
      /\ v.ready_ticks = s.ready_ticks /\ v.elapsed_total_ticks = c
  BY <1>8 DEF StatRec
<1> HIDE DEF v
<1>1. r \in StatRec
  BY <1>9 DEF StatRec
<1>2. /\ r.user_ticks = 0 /\ r.system_ticks = 0 /\ r.blocked_ticks = 0
      /\ r.ready_ticks = s.ready_ticks /\ r.elapsed_total_ticks = c
      /\ s.ready_ticks \in Nat
  BY <1>6, <1>9 DEF StatRec
<1> HIDE DEF r
<1>3. Accounted(r) <= r.elapsed_total_ticks - (c - s.ready_ticks)
  BY <1>2 DEF Accounted
<1>4. Once(r, c - s.ready_ticks, c)
  BY <1>1, <1>2, <1>3 DEF Once
<1> QED
  BY <1>4, <1>5

\* fork: the account of the child begins, the parent goes on.
LEMMA Fork == StatsInv /\ sys_fork_child => StatsInv'
<1> SUFFICES ASSUME StatsInv, sys_fork_child PROVE StatsInv'
  OBVIOUS
<1>1. /\ cur \in Tasks /\ origin \in [Tasks -> Int] /\ now \in Nat
      /\ where \in [Tasks -> Points] /\ freequeue \subseteq Tasks
      /\ Table(statics, origin, now) /\ cur' = cur /\ dispatched' = dispatched
  BY DEF StatsInv, Places, Accounts, sys_fork_child
<1> DEFINE St(a, b) == act_ticks_user2kernel(statics, cur, a, b)
           Forked(child, st, c, d, e) ==
             /\ freequeue' = freequeue \ {child}
             /\ readyqueue' = readyqueue \cup {child}
             /\ where' = [where EXCEPT ![child] = "ret_from_fork"]
             /\ statics' = act_ticks_kernel2user(
                             [st EXCEPT ![child] = set_ini_stats(st[cur], c)], cur, d, e)
             /\ now' = e
             /\ origin' = [origin EXCEPT ![child] = c - st[cur].ready_ticks]
             /\ missed' = [missed EXCEPT ![child] = 0]
<1>2. \E child \in freequeue : \E a \in Later(now) : \E b \in Later(a) :
      \E c \in Later(b) : \E d \in Later(c) : \E e \in Later(d) :
        Forked(child, St(a, b), c, d, e)
  BY DEF sys_fork_child
<1> HIDE DEF Forked
<1>3. PICK child \in freequeue : \E a \in Later(now) : \E b \in Later(a) :
        \E c \in Later(b) : \E d \in Later(c) : \E e \in Later(d) :
          Forked(child, St(a, b), c, d, e)
  BY <1>2
<1>4. PICK a \in Later(now) : \E b \in Later(a) : \E c \in Later(b) :
        \E d \in Later(c) : \E e \in Later(d) : Forked(child, St(a, b), c, d, e)
  BY <1>3
<1>5. PICK b \in Later(a) : \E c \in Later(b) : \E d \in Later(c) :
        \E e \in Later(d) : Forked(child, St(a, b), c, d, e)
  BY <1>4
<1>6. PICK c \in Later(b) : \E d \in Later(c) : \E e \in Later(d) :
        Forked(child, St(a, b), c, d, e)
  BY <1>5
<1>7. PICK d \in Later(c) : \E e \in Later(d) : Forked(child, St(a, b), c, d, e)
  BY <1>6
<1>8. PICK e \in Later(d) : Forked(child, St(a, b), c, d, e)
  BY <1>7
<1> DEFINE st   == St(a, b)
           born == [st EXCEPT ![child] = set_ini_stats(st[cur], c)]
           o    == [origin EXCEPT ![child] = c - st[cur].ready_ticks]
<1>9. /\ b \in Nat /\ c \in Nat /\ b <= c /\ e \in Nat /\ now <= e
      /\ Table(st, origin, b)
  <2>1. a \in Nat /\ now <= a /\ b \in Nat /\ a <= b
    BY <1>1, LaterNat
  <2>2. c \in Nat /\ b <= c /\ d \in Nat /\ c <= d /\ e \in Nat /\ d <= e
    BY <2>1, LaterNat
  <2> QED
    BY <1>1, <2>1, <2>2, Acts
<1>10. /\ where' = [where EXCEPT ![child] = "ret_from_fork"]
       /\ statics' = act_ticks_kernel2user(born, cur, d, e)
       /\ now' = e /\ origin' = o
       /\ freequeue' = freequeue \ {child}
       /\ readyqueue' = readyqueue \cup {child}
  BY <1>8 DEF Forked
<1> HIDE DEF st, St
<1>11. child \in Tasks /\ st \in [Tasks -> StatRec] /\ st[cur] \in StatRec
  BY <1>1, <1>9 DEF Table
<1>12. o \in [Tasks -> Int] /\ Table(born, o, c)
  <2>1. st[cur].ready_ticks \in Nat
    BY <1>11 DEF StatRec
  <2>2. o \in [Tasks -> Int] /\ o[child] = c - st[cur].ready_ticks
    BY <1>1, <1>9, <1>11, <2>1
  <2>3. Once(born[child], o[child], c) /\ born \in [Tasks -> StatRec]
    <3>1. Once(set_ini_stats(st[cur], c), c - st[cur].ready_ticks, c)
      BY <1>9, <1>11, Born
    <3>2. set_ini_stats(st[cur], c) \in StatRec
      BY <3>1 DEF Once
    <3> QED
      BY <1>11, <2>2, <3>1, <3>2
  <2>4. ASSUME NEW u \in Tasks, u # child PROVE Once(born[u], o[u], c)
    <3>1. born[u] = st[u] /\ o[u] = origin[u] /\ Once(st[u], origin[u], b)
      BY <1>1, <1>9, <1>11, <2>4 DEF Table
    <3>2. st[u] \in StatRec
      BY <1>11
    <3>3. st[u].elapsed_total_ticks \in Nat
      BY <3>2 DEF StatRec
    <3> QED
      BY <1>9, <3>1, <3>3 DEF Once
  <2> QED
    BY <2>2, <2>3, <2>4 DEF Table
<1> HIDE DEF born, o
<1>13. Table(statics', origin', now') /\ statics'[cur].elapsed_total_ticks = now'
  BY <1>1, <1>9, <1>10, <1>12, Acts, Stamps
<1>14. Places' /\ UserIsCurrent'
  BY <1>1, <1>10, <1>11
     DEF StatsInv, Places, UserIsCurrent, Points, InTaskSwitch, sys_fork_child
<1>15. Accounts'
  BY <1>1, <1>9, <1>10, <1>12, <1>13 DEF Accounts
<1>16. Fresh'
  BY <1>1, <1>9, <1>10, <1>13 DEF StatsInv, Fresh
<1> QED
  BY <1>14, <1>15, <1>16 DEF StatsInv

-----------------------------------------------------------------------------
\* The boot leaves every account right.
LEMMA StatsInitial == Init => StatsInv
<1> SUFFICES ASSUME Init PROVE StatsInv
  OBVIOUS
<1>1. Places /\ UserIsCurrent
  BY StatsAssumption DEF Init, Places, UserIsCurrent, Tasks, Points, InTaskSwitch
<1>2. now \in Nat /\ origin \in [Tasks -> Int]
  BY StatsAssumption DEF Init
<1>3. Once(ini_stats, 0, now)
  BY <1>2 DEF Once, ini_stats, Accounted, StatRec
<1>4. Table(statics, origin, now)
  BY <1>3 DEF Init, Table, Once
<1>5. Fresh
  BY <1>1, <1>2 DEF Init, Fresh, ini_stats, Places
<1> QED
  BY <1>1, <1>2, <1>4, <1>5 DEF StatsInv, Accounts

\* Every step of the kernel keeps the invariant.
LEMMA StatsStep == StatsInv /\ [Next]_vars => StatsInv'
<1> SUFFICES ASSUME StatsInv, [Next]_vars PROVE StatsInv'
  OBVIOUS
<1>1. CASE Next
  BY <1>1, ClockRoutine, ClockSched, Returns, Leaves, Fork DEF Next
<1>2. CASE UNCHANGED vars
  BY <1>2 DEF vars, taskVars, statVars, StatsInv, Places, Accounts, Table,
              UserIsCurrent, Fresh
<1> QED
  BY <1>1, <1>2

\* The invariant holds in every behaviour.
LEMMA StatsInductive == Spec => []StatsInv
BY StatsInitial, StatsStep, PTL DEF Spec

\* No time is charged twice by the act_ticks functions, block_process,
\* unblock_process and set_ini_stats, for any number of processes and any
\* values of the cycle counter.
THEOREM StatsAccountedOnce == Spec => []AccountedOnce
<1>1. StatsInv => AccountedOnce
  BY DEF StatsInv, Accounts, Table, Once, AccountedOnce, Living
<1> QED
  BY <1>1, StatsInductive, PTL

\* In user mode the stamp of a process is not older than its turn on the CPU,
\* whichever of the returns to user mode it took, also those that read no clock:
\* user_ticks never gets time spent in a queue or run by another process.
THEOREM StatsUserTime == Spec => []UserTimeIsOwnTime
<1>1. StatsInv => UserTimeIsOwnTime
  <2> SUFFICES ASSUME StatsInv, where[cur] = "user"
               PROVE  statics[cur].elapsed_total_ticks >= dispatched
    BY DEF UserTimeIsOwnTime
  <2>1. statics[cur] \in StatRec /\ dispatched \in Nat
    BY DEF StatsInv, Places, Accounts, Table, Fresh
  <2>2. statics[cur].elapsed_total_ticks \in Nat
    BY <2>1 DEF StatRec
  <2> QED
    BY <2>1, <2>2 DEF StatsInv, Fresh
<1> QED
  BY <1>1, StatsInductive, PTL
-----------------------------------------------------------------------------
(***************************************************************************)
(* What the steps of a handler do to the counters before it returns or     *)
(* switches: Reached(st, n) says that the table st, at time n, comes from  *)
(* statics without a dispatch.                                             *)
(***************************************************************************)
Grows(s, r) == /\ s.user_ticks <= r.user_ticks
               /\ s.blocked_ticks <= r.blocked_ticks
               /\ s.ready_ticks <= r.ready_ticks

Reached(st, n) ==
  /\ n \in Nat /\ n <= MaxTime /\ Table(st, origin, n)
  /\ \A t \in Tasks : /\ Grows(statics[t], st[t])
                      /\ st[t].total_trans = statics[t].total_trans

\* Growth is transitive.
LEMMA GrowsTransitive ==
  ASSUME NEW s \in StatRec, NEW r \in StatRec, NEW q \in StatRec,
         Grows(s, r), Grows(r, q)
  PROVE  Grows(s, q)
BY DEF Grows, StatRec

\* Every function but act_ticks_ready2kernel leads from a table that is reached
\* to one that is.
LEMMA Reach ==
  ASSUME StatsInv, NEW n, NEW st, Reached(st, n), NEW t \in Tasks,
         NEW a \in Later(n), NEW b \in Later(a)
  PROVE  /\ Reached(act_ticks_user2kernel(st, t, a, b), b)
         /\ Reached(act_ticks_kernel2user(st, t, a, b), b)
         /\ Reached(act_ticks_kernel2ready(st, t, a, b), b)
         /\ Reached(BlockStats(st, t, a, b), b)
         /\ Reached(UnblockStats(st, t, a, b), b)
<1>1. /\ n \in Nat /\ Table(st, origin, n) /\ origin \in [Tasks -> Int]
      /\ st \in [Tasks -> StatRec] /\ statics \in [Tasks -> StatRec]
      /\ st[t] \in StatRec /\ Once(st[t], origin[t], n)
  BY DEF Reached, StatsInv, Accounts, Table
<1>2. a \in Nat /\ n <= a /\ b \in Nat /\ a <= b /\ b <= MaxTime
  BY <1>1, LaterNat, StatsAssumption DEF Later
<1>3. Since(st, t, a) \in Nat
  BY <1>1, <1>2 DEF Since, Once, StatRec
<1>4. ASSUME NEW s, Table([st EXCEPT ![t] = s], origin, b), Grows(st[t], s),
             s.total_trans = st[t].total_trans
      PROVE  Reached([st EXCEPT ![t] = s], b)
  <2> DEFINE up == [st EXCEPT ![t] = s]
  <2>1. ASSUME NEW u \in Tasks
        PROVE  Grows(statics[u], up[u]) /\ up[u].total_trans = statics[u].total_trans
    <3>1. Grows(statics[u], st[u]) /\ st[u].total_trans = statics[u].total_trans
      BY DEF Reached
    <3>2. CASE u # t
      BY <1>1, <3>1, <3>2
    <3>3. CASE u = t
      <4>1. up[u] = s
        BY <1>1, <3>3
      <4>2. s \in StatRec
        BY <1>4, <4>1 DEF Table
      <4> QED
        BY <1>1, <1>4, <3>1, <3>3, <4>1, <4>2, GrowsTransitive
    <3> QED
      BY <3>2, <3>3
  <2> QED
    BY <1>2, <1>4, <2>1 DEF Reached
<1>5. Reached(act_ticks_user2kernel(st, t, a, b), b)
  <2> DEFINE d == Since(st, t, a)
             s == [[st[t] EXCEPT !.user_ticks = @ + d] EXCEPT !.elapsed_total_ticks = b]
  <2>1. act_ticks_user2kernel(st, t, a, b) = [st EXCEPT ![t] = s]
    BY <1>1 DEF act_ticks_user2kernel, Stamp
  <2> HIDE DEF d
  <2>3. Table(act_ticks_user2kernel(st, t, a, b), origin, b)
    BY <1>1, Acts
  <2>2. Grows(st[t], s) /\ s.total_trans = st[t].total_trans
    BY <1>1, <1>3 DEF Grows, StatRec, d
  <2> HIDE DEF s
  <2> QED
    BY <1>4, <2>1, <2>2, <2>3
<1>6. Reached(act_ticks_kernel2user(st, t, a, b), b)
  <2> DEFINE d == Since(st, t, a)
             s == [[st[t] EXCEPT !.system_ticks = @ + d] EXCEPT !.elapsed_total_ticks = b]
  <2>1. act_ticks_kernel2user(st, t, a, b) = [st EXCEPT ![t] = s]
    BY <1>1 DEF act_ticks_kernel2user, Stamp
  <2> HIDE DEF d
  <2>3. Table(act_ticks_kernel2user(st, t, a, b), origin, b)
    BY <1>1, Acts
  <2>2. Grows(st[t], s) /\ s.total_trans = st[t].total_trans
    BY <1>1, <1>3 DEF Grows, StatRec, d
  <2> HIDE DEF s
  <2> QED
    BY <1>4, <2>1, <2>2, <2>3
<1>7. Reached(act_ticks_kernel2ready(st, t, a, b), b)
  <2> DEFINE d == Since(st, t, a)
             s == [[st[t] EXCEPT !.system_ticks = @ + d] EXCEPT !.elapsed_total_ticks = b]
  <2>1. act_ticks_kernel2ready(st, t, a, b) = [st EXCEPT ![t] = s]
    BY <1>1 DEF act_ticks_kernel2ready, Stamp
  <2> HIDE DEF d
  <2>3. Table(act_ticks_kernel2ready(st, t, a, b), origin, b)
    BY <1>1, Acts
  <2>2. Grows(st[t], s) /\ s.total_trans = st[t].total_trans
    BY <1>1, <1>3 DEF Grows, StatRec, d
  <2> HIDE DEF s
  <2> QED
    BY <1>4, <2>1, <2>2, <2>3
<1>8. Reached(BlockStats(st, t, a, b), b)
  <2> DEFINE d == Since(st, t, a)
             s == [[st[t] EXCEPT !.system_ticks = d] EXCEPT !.elapsed_total_ticks = b]
  <2>1. BlockStats(st, t, a, b) = [st EXCEPT ![t] = s]
    BY <1>1 DEF BlockStats, Stamp
  <2> HIDE DEF d
  <2>3. Table(BlockStats(st, t, a, b), origin, b)
    BY <1>1, Acts
  <2>2. Grows(st[t], s) /\ s.total_trans = st[t].total_trans
    BY <1>1, <1>3 DEF Grows, StatRec, d
  <2> HIDE DEF s
  <2> QED
    BY <1>4, <2>1, <2>2, <2>3
<1>9. Reached(UnblockStats(st, t, a, b), b)
  <2> DEFINE d == Since(st, t, a)
             s == [[st[t] EXCEPT !.blocked_ticks = @ + d] EXCEPT !.elapsed_total_ticks = b]
  <2>1. UnblockStats(st, t, a, b) = [st EXCEPT ![t] = s]
    BY <1>1 DEF UnblockStats, Stamp
  <2> HIDE DEF d
  <2>3. Table(UnblockStats(st, t, a, b), origin, b)
    BY <1>1, Acts
  <2>2. Grows(st[t], s) /\ s.total_trans = st[t].total_trans
    BY <1>1, <1>3 DEF Grows, StatRec, d
  <2> HIDE DEF s
  <2> QED
    BY <1>4, <2>1, <2>2, <2>3
<1> QED
  BY <1>5, <1>6, <1>7, <1>8, <1>9

\* A dispatch is counted once, also where the counter wraps around.
LEMMA Dispatch ==
  ASSUME StatsInv, NEW n, NEW st, Reached(st, n), NEW t \in Tasks,
         NEW a \in Later(n), NEW b \in Later(a)
  PROVE  LET up == act_ticks_ready2kernel(st, t, a, b)
         IN  /\ Table(up, origin, b) /\ b \in Nat /\ b <= MaxTime
             /\ \A u \in Tasks :
                  /\ Grows(statics[u], up[u])
                  /\ up[u].total_trans = IF u = t THEN Wrap(statics[t].total_trans + 1)
                                                  ELSE statics[u].total_trans
<1>1. /\ n \in Nat /\ Table(st, origin, n) /\ origin \in [Tasks -> Int]
      /\ st \in [Tasks -> StatRec] /\ statics \in [Tasks -> StatRec]
      /\ st[t] \in StatRec /\ Once(st[t], origin[t], n)
  BY DEF Reached, StatsInv, Accounts, Table
<1>2. a \in Nat /\ n <= a /\ b \in Nat /\ a <= b /\ b <= MaxTime
  BY <1>1, LaterNat, StatsAssumption DEF Later
<1>3. Since(st, t, a) \in Nat
  BY <1>1, <1>2 DEF Since, Once, StatRec
<1> DEFINE up == act_ticks_ready2kernel(st, t, a, b)
           k == Wrap(st[t].total_trans + 1)
           s == [[st[t] EXCEPT !.ready_ticks = @ + Since(st, t, a), !.total_trans = k]
                   EXCEPT !.elapsed_total_ticks = b]
<1>4. k \in Int /\ k = Wrap(statics[t].total_trans + 1)
  BY <1>1, StatsAssumption DEF Wrap, StatRec, Reached
<1> HIDE DEF k
<1>5. up = [st EXCEPT ![t] = s]
  BY <1>1 DEF act_ticks_ready2kernel, Stamp, k, StatRec
<1>6. Grows(st[t], s) /\ s.total_trans = k
  BY <1>1, <1>3, <1>4 DEF Grows, StatRec
<1>7. Table(up, origin, b)
  BY <1>1, Acts
<1> HIDE DEF up, s
<1>8. ASSUME NEW u \in Tasks
      PROVE  /\ Grows(statics[u], up[u])
             /\ up[u].total_trans = IF u = t THEN Wrap(statics[t].total_trans + 1)
                                             ELSE statics[u].total_trans
  <2>1. Grows(statics[u], st[u]) /\ st[u].total_trans = statics[u].total_trans
    BY DEF Reached
  <2>2. CASE u # t
    BY <1>1, <1>5, <2>1, <2>2
  <2>3. CASE u = t
    <3>1. up[u] = s
      BY <1>1, <1>5, <2>3
    <3>2. s \in StatRec
      BY <1>7, <3>1 DEF Table
    <3> QED
      BY <1>1, <1>4, <1>6, <2>1, <2>3, <3>1, <3>2, GrowsTransitive
  <2> QED
    BY <2>2, <2>3
<1> QED
  BY <1>2, <1>7, <1>8 DEF up

\* The counter's difference shows one dispatch, whatever its value.
LEMMA OneMore ==
  ASSUME NEW x \in 0 .. ULONG_MAX
  PROVE  /\ Wrap(Wrap(x + 1) - x) = 1 /\ Wrap(x - x) = 0
         /\ Wrap(x + 1) \in 0 .. ULONG_MAX
<1>1. CASE x < ULONG_MAX
  BY <1>1, StatsAssumption DEF Wrap
<1>2. CASE x = ULONG_MAX
  <2>1. Wrap(x + 1) = 0
    BY <1>2, StatsAssumption DEF Wrap
  <2>2. (0 - ULONG_MAX) % (ULONG_MAX + 1) = 1
    BY StatsAssumption
  <2>3. Wrap(x - x) = 0
    BY <1>2, StatsAssumption DEF Wrap
  <2> QED
    BY <1>2, <2>1, <2>2, <2>3, StatsAssumption DEF Wrap
<1> QED
  BY <1>1, <1>2, StatsAssumption

-----------------------------------------------------------------------------
(***************************************************************************)
(* The second invariant: lists, dispatches and ranges.                     *)
(***************************************************************************)
\* A PCB is in one list at most, the current one in none, idle in none; free
\* PCBs are the dead ones.
Lists ==
  /\ cur \in Tasks /\ freequeue \subseteq Procs
  /\ readyqueue \subseteq Procs /\ console_blocked \subseteq Procs
  /\ readyqueue \cap freequeue = {} /\ console_blocked \cap freequeue = {}
  /\ readyqueue \cap console_blocked = {}
  /\ cur \notin freequeue /\ cur \notin readyqueue /\ cur \notin console_blocked
  /\ \A t \in Tasks : where[t] = "dead" <=> t \in freequeue
  /\ where[Idle] \in {"cpu_idle", "clock_sched", "clock_exit"}

\* A task that has not run yet has missed no count; one that has, at most one.
Counts ==
  /\ missed \in [Tasks -> Int]
  /\ \A t \in Tasks :
       /\ missed[t] = 0 \/ missed[t] = 1
       /\ where[t] \in {"ret_from_fork", "cpu_idle"} /\ cur # t => missed[t] = 0

Ranges == /\ now <= MaxTime
          /\ \A t \in Tasks : /\ 0 <= origin[t]
                              /\ statics[t].total_trans \in 0 .. ULONG_MAX

CountInv == Lists /\ Counts /\ Ranges

\* No counter but system_ticks of a task that lives on is lowered by a step.
Growth == \A t \in Tasks :
            where[t] # "dead" /\ where'[t] # "dead" => Grows(statics[t], statics'[t])

\* A handler starts from the table it finds.
LEMMA ReachedNow == StatsInv /\ CountInv => Reached(statics, now)
<1> SUFFICES ASSUME StatsInv, CountInv PROVE Reached(statics, now)
  OBVIOUS
<1>1. /\ now \in Nat /\ now <= MaxTime /\ Table(statics, origin, now)
      /\ statics \in [Tasks -> StatRec]
  BY DEF StatsInv, Accounts, Table, CountInv, Ranges
<1>2. ASSUME NEW t \in Tasks PROVE Grows(statics[t], statics[t])
  <2>1. statics[t] \in StatRec
    BY <1>1
  <2> QED
    BY <2>1 DEF Grows, StatRec
<1> QED
  BY <1>1, <1>2 DEF Reached

\* task_switch counts the dispatch of the next task unless it starts at
\* ret_from_fork or cpu_idle, which it does once.
LEMMA SwitchCounts ==
  ASSUME StatsInv, CountInv, NEW t, NEW st, Reached(st, t), NEW next \in Tasks,
         NEW rq, NEW k \in InTaskSwitch \cup {"dead"},
         task_switch(next, rq, st, t, k), Lists',
         next # cur => where[next] # "dead", k = "dead" => next # cur
  PROVE  CountInv' /\ Growth
<1>1. /\ cur \in Tasks /\ where \in [Tasks -> Points] /\ origin \in [Tasks -> Int]
      /\ statics \in [Tasks -> StatRec] /\ missed \in [Tasks -> Int]
  BY DEF StatsInv, Places, Accounts, Table, CountInv, Counts
<1>2. /\ cur' = next /\ where' = [where EXCEPT ![cur] = k]
      /\ origin' = Drop(origin, 0)
      /\ missed' = Drop([missed EXCEPT ![next] = @ + 1 -
                           Wrap(statics'[next].total_trans - statics[next].total_trans)], 0)
  BY DEF task_switch
<1>3. /\ where' \in [Tasks -> Points] /\ where'[cur] = k /\ where'[next] # "dead"
      /\ \A u \in Tasks : u # cur => where'[u] = where[u]
  BY <1>1, <1>2 DEF Points, InTaskSwitch
<1>4. \E up : \E n \in Nat :
        /\ statics' = Drop(up, ini_stats) /\ now' = n /\ n <= MaxTime
        /\ \A u \in Tasks :
             /\ Grows(statics[u], up[u])
             /\ up[u].total_trans =
                  IF u = next /\ where'[next] \in InTaskSwitch
                    THEN Wrap(statics[u].total_trans + 1) ELSE statics[u].total_trans
  <2>1. PICK a \in Later(t) : \E b \in Later(a) :
          LET out == act_ticks_kernel2ready(st, cur, a, b)
          IN  /\ dispatched' = b
              /\ IF where'[next] \in InTaskSwitch
                   THEN \E c \in Later(b) : \E d \in Later(c) :
                          /\ statics' = Drop(act_ticks_ready2kernel(out, next, c, d), ini_stats)
                          /\ now' = d
                   ELSE statics' = Drop(out, ini_stats) /\ now' = b
    BY DEF task_switch
  <2>2. PICK b \in Later(a) :
          LET out == act_ticks_kernel2ready(st, cur, a, b)
          IN  /\ dispatched' = b
              /\ IF where'[next] \in InTaskSwitch
                   THEN \E c \in Later(b) : \E d \in Later(c) :
                          /\ statics' = Drop(act_ticks_ready2kernel(out, next, c, d), ini_stats)
                          /\ now' = d
                   ELSE statics' = Drop(out, ini_stats) /\ now' = b
    BY <2>1
  <2> DEFINE out == act_ticks_kernel2ready(st, cur, a, b)
  <2>3. Reached(out, b)
    BY <1>1, Reach
  <2>4. CASE where'[next] \notin InTaskSwitch
    <3>1. statics' = Drop(out, ini_stats) /\ now' = b
      BY <2>2, <2>4
    <3> HIDE DEF out
    <3> QED
      BY <2>3, <2>4, <3>1 DEF Reached
  <2>5. CASE where'[next] \in InTaskSwitch
    <3>1. PICK c \in Later(b) : \E d \in Later(c) :
            /\ statics' = Drop(act_ticks_ready2kernel(out, next, c, d), ini_stats)
            /\ now' = d
      BY <2>2, <2>5
    <3>2. PICK d \in Later(c) :
            /\ statics' = Drop(act_ticks_ready2kernel(out, next, c, d), ini_stats)
            /\ now' = d
      BY <3>1
    <3> HIDE DEF out
    <3> DEFINE up == act_ticks_ready2kernel(out, next, c, d)
    <3>3. /\ d \in Nat /\ d <= MaxTime
          /\ \A u \in Tasks :
               /\ Grows(statics[u], up[u])
               /\ up[u].total_trans = IF u = next THEN Wrap(statics[next].total_trans + 1)
                                                  ELSE statics[u].total_trans
      BY <2>3, Dispatch
    <3>4. statics' = Drop(up, ini_stats) /\ now' = d
      BY <3>2
    <3> HIDE DEF up
    <3> QED
      BY <2>5, <3>3, <3>4
  <2> QED
    BY <2>4, <2>5
<1>5. PICK up : \E n \in Nat :
        /\ statics' = Drop(up, ini_stats) /\ now' = n /\ n <= MaxTime
        /\ \A u \in Tasks :
             /\ Grows(statics[u], up[u])
             /\ up[u].total_trans =
                  IF u = next /\ where'[next] \in InTaskSwitch
                    THEN Wrap(statics[u].total_trans + 1) ELSE statics[u].total_trans
  BY <1>4
<1>6. /\ \A u \in Tasks : statics'[u] = IF where'[u] = "dead" THEN ini_stats ELSE up[u]
      /\ now' <= MaxTime
  BY <1>5 DEF Drop
<1>7. ASSUME NEW u \in Tasks PROVE statics[u].total_trans \in 0 .. ULONG_MAX
  BY DEF CountInv, Ranges
<1>8. Ranges'
  <2>1. ASSUME NEW u \in Tasks PROVE statics'[u].total_trans \in 0 .. ULONG_MAX
    <3>1. CASE where'[u] = "dead"
      BY <1>6, <3>1, StatsAssumption DEF ini_stats
    <3>2. CASE where'[u] # "dead"
      BY <1>5, <1>6, <1>7, <3>2, OneMore
    <3> QED
      BY <3>1, <3>2
  <2>2. ASSUME NEW u \in Tasks PROVE 0 <= origin'[u]
    BY <1>1, <1>2 DEF Drop, CountInv, Ranges
  <2> QED
    BY <1>6, <2>1, <2>2 DEF Ranges
<1>9. Growth
  BY <1>5, <1>6 DEF Growth
<1>10. missed'[next] = IF where'[next] \in InTaskSwitch THEN missed[next]
                                                        ELSE missed[next] + 1
  <2> DEFINE x == statics[next].total_trans
             w == Wrap(statics'[next].total_trans - x)
  <2>1. missed'[next] = missed[next] + 1 - w
    BY <1>1, <1>2, <1>3 DEF Drop
  <2>2. x \in 0 .. ULONG_MAX
    BY <1>7
  <2>3. statics'[next].total_trans = IF where'[next] \in InTaskSwitch THEN Wrap(x + 1) ELSE x
    BY <1>3, <1>5, <1>6
  <2> HIDE DEF x
  <2>4. w = IF where'[next] \in InTaskSwitch THEN 1 ELSE 0
    BY <2>2, <2>3, OneMore
  <2> HIDE DEF w
  <2>5. missed[next] \in Int
    BY <1>1
  <2> QED
    BY <2>1, <2>4, <2>5
<1>11. \A u \in Tasks : u # next => missed'[u] = IF where'[u] = "dead" THEN 0 ELSE missed[u]
  BY <1>1, <1>2 DEF Drop
<1>12. where'[next] \notin InTaskSwitch => missed[next] = 0
  <2> SUFFICES ASSUME where'[next] \notin InTaskSwitch PROVE missed[next] = 0
    OBVIOUS
  <2>1. next # cur
    BY <1>3
  <2>2. where[next] \in {"ret_from_fork", "cpu_idle"}
    BY <1>1, <1>3, <2>1 DEF StatsInv, UserIsCurrent, Points
  <2> QED
    BY <2>1, <2>2 DEF CountInv, Counts
<1>13. Counts'
  <2>1. missed' \in [Tasks -> Int]
    <3>1. \A u \in Tasks : missed'[u] \in Int
      BY <1>1, <1>10, <1>11
    <3> QED
      BY <1>2, <3>1 DEF Drop
  <2>2. ASSUME NEW u \in Tasks
        PROVE  /\ missed'[u] = 0 \/ missed'[u] = 1
               /\ where'[u] \in {"ret_from_fork", "cpu_idle"} /\ cur' # u
                    => missed'[u] = 0
    <3>1. /\ missed[u] = 0 \/ missed[u] = 1
          /\ where[u] \in {"ret_from_fork", "cpu_idle"} /\ cur # u => missed[u] = 0
      BY DEF CountInv, Counts
    <3>2. CASE u = next
      BY <1>2, <1>10, <1>12, <3>1, <3>2
    <3>3. CASE u # next
      BY <1>3, <1>11, <3>1, <3>3 DEF InTaskSwitch
    <3> QED
      BY <3>2, <3>3
  <2> QED
    BY <2>1, <2>2 DEF Counts
<1> QED
  BY <1>8, <1>9, <1>13 DEF CountInv

\* A switch to a ready task or to idle, by a task that waits at k afterwards.
LEMMA SchedCounts ==
  ASSUME StatsInv, CountInv, NEW t, NEW st, Reached(st, t), NEW rq,
         NEW k \in InTaskSwitch \cup {"dead"}, sched_next(rq, st, t, k),
         rq \subseteq Tasks, rq \cap freequeue' = {}, rq \cap console_blocked' = {},
         console_blocked' \subseteq Procs, console_blocked' \cap freequeue' = {},
         freequeue' = IF k = "dead" THEN freequeue \cup {cur} ELSE freequeue,
         cur = Idle => k \in {"clock_sched", "clock_exit"}
  PROVE  CountInv' /\ Growth
<1>1. PICK next \in rq \cup {Idle} : task_switch(next, rq \ {Idle}, st, t, k)
  BY DEF sched_next
<1>2. /\ next \in Tasks /\ cur \in Tasks /\ where \in [Tasks -> Points]
      /\ Idle \notin Procs /\ freequeue \subseteq Procs
      /\ \A u \in Tasks : where[u] = "dead" <=> u \in freequeue
  BY <1>1, StatsAssumption DEF Tasks, StatsInv, Places, CountInv, Lists
<1>3. /\ cur' = next /\ where' = [where EXCEPT ![cur] = k]
      /\ readyqueue' = (rq \ {Idle}) \ {next}
  BY <1>1 DEF task_switch
<1>4. freequeue' \subseteq Procs /\ next \notin freequeue' /\ next \notin console_blocked'
  BY <1>1, <1>2 DEF Tasks
<1>5. \A u \in Tasks : where'[u] = "dead" <=> u \in freequeue'
  <2>1. k = "dead" \/ (k # "dead" /\ cur \notin freequeue)
    BY DEF CountInv, Lists
  <2> QED
    BY <1>2, <1>3, <2>1
<1>6. where'[Idle] \in {"cpu_idle", "clock_sched", "clock_exit"}
  BY <1>2, <1>3 DEF CountInv, Lists, Tasks
<1>7. readyqueue' \subseteq Procs
  BY <1>3 DEF Tasks
<1>8. Lists'
  BY <1>2, <1>3, <1>4, <1>5, <1>6, <1>7 DEF Lists
<1>9. next # cur => where[next] # "dead"
  BY <1>2, <1>4
<1>10. k = "dead" => next # cur
  BY <1>4
<1> QED
  BY <1>1, <1>2, <1>8, <1>9, <1>10, SwitchCounts

\* A step that ends with the table st at time t and the current task at p.
LEMMA StayCounts ==
  ASSUME StatsInv, CountInv, NEW t, NEW st, Reached(st, t), statics' = st, now' = t,
         UNCHANGED <<cur, freequeue, origin, missed>>,
         NEW p \in Points \ {"dead"}, where' = [where EXCEPT ![cur] = p],
         cur = Idle => p \in {"cpu_idle", "clock_sched", "clock_exit"},
         \/ UNCHANGED <<readyqueue, console_blocked>>
         \/ \E w \in console_blocked : /\ readyqueue' = readyqueue \cup {w}
                                       /\ console_blocked' = console_blocked \ {w}
  PROVE  CountInv' /\ Growth
<1>1. /\ cur \in Tasks /\ where \in [Tasks -> Points]
  BY DEF StatsInv, Places
<1>2. /\ readyqueue' \subseteq Procs /\ console_blocked' \subseteq Procs
      /\ readyqueue' \cap freequeue' = {} /\ console_blocked' \cap freequeue' = {}
      /\ readyqueue' \cap console_blocked' = {}
      /\ cur' \notin readyqueue' /\ cur' \notin console_blocked'
  <2>1. CASE UNCHANGED <<readyqueue, console_blocked>>
    BY <2>1 DEF CountInv, Lists
  <2>2. CASE \E w \in console_blocked : /\ readyqueue' = readyqueue \cup {w}
                                        /\ console_blocked' = console_blocked \ {w}
    BY <2>2 DEF CountInv, Lists
  <2> QED
    BY <2>1, <2>2
<1>3. Lists'
  BY <1>1, <1>2 DEF CountInv, Lists, Tasks
<1>4. Counts'
  BY <1>1 DEF CountInv, Counts
<1>5. Ranges'
  BY DEF CountInv, Ranges, Reached
<1>6. Growth
  BY DEF Growth, Reached
<1> QED
  BY <1>3, <1>4, <1>5, <1>6 DEF CountInv

\* The last accounting before user mode.
LEMMA ToUserCounts ==
  ASSUME StatsInv, CountInv, NEW t, NEW st, Reached(st, t), ToUser(st, t),
         NEW p \in {"user", "cpu_idle"}, where' = [where EXCEPT ![cur] = p],
         cur = Idle => p = "cpu_idle", UNCHANGED <<freequeue, console_blocked>>
  PROVE  CountInv' /\ Growth
<1>1. PICK a \in Later(t) : \E b \in Later(a) :
        Stay(act_ticks_kernel2user(st, cur, a, b), b)
  BY DEF ToUser
<1>2. PICK b \in Later(a) : Stay(act_ticks_kernel2user(st, cur, a, b), b)
  BY <1>1
<1>3. cur \in Tasks
  BY DEF StatsInv, Places
<1>4. Reached(act_ticks_kernel2user(st, cur, a, b), b)
  BY <1>3, Reach
<1>5. /\ statics' = act_ticks_kernel2user(st, cur, a, b) /\ now' = b
      /\ UNCHANGED <<cur, readyqueue, origin, missed>>
  BY <1>2 DEF Stay
<1>6. p \in Points \ {"dead"}
  BY DEF Points
<1> QED
  BY <1>4, <1>5, <1>6, StayCounts

\* The timer interrupt, waking up a reader or not.
LEMMA ClockRoutineCounts ==
  StatsInv /\ CountInv /\ clock_routine => CountInv' /\ Growth
<1> SUFFICES ASSUME StatsInv, CountInv, clock_routine PROVE CountInv' /\ Growth
  OBVIOUS
<1>0. PICK a \in Later(now) : \E b \in Later(a) :
        LET st == act_ticks_user2kernel(statics, cur, a, b)
        IN  \/ \E w \in console_blocked : unblock_process(w, st, b)
            \/ /\ Stay(st, b)
               /\ where' = [where EXCEPT ![cur] = "clock_sched"]
               /\ UNCHANGED console_blocked
  BY DEF clock_routine
<1>1. PICK b \in Later(a) :
        LET st == act_ticks_user2kernel(statics, cur, a, b)
        IN  \/ \E w \in console_blocked : unblock_process(w, st, b)
            \/ /\ Stay(st, b)
               /\ where' = [where EXCEPT ![cur] = "clock_sched"]
               /\ UNCHANGED console_blocked
  BY <1>0
<1> DEFINE st == act_ticks_user2kernel(statics, cur, a, b)
<1>2. /\ cur \in Tasks /\ freequeue' = freequeue
      /\ "clock_sched" \in Points \ {"dead"} /\ "clock_sched" \in InTaskSwitch
  BY DEF StatsInv, Places, clock_routine, Points, InTaskSwitch
<1>3. Reached(st, b)
  BY <1>2, ReachedNow, Reach
<1> HIDE DEF st
<1>4. ASSUME NEW w \in console_blocked, unblock_process(w, st, b)
      PROVE  CountInv' /\ Growth
  <2>0. PICK c \in Later(b) : \E d \in Later(c) :
          LET up == UnblockStats(st, w, c, d)
          IN  \/ /\ statics' = up /\ now' = d
                 /\ readyqueue' = readyqueue \cup {w}
                 /\ where' = [where EXCEPT ![cur] = "clock_sched"]
                 /\ UNCHANGED <<cur, origin, missed, dispatched>>
              \/ sched_next(readyqueue \cup {w, cur}, up, d, "clock_sched")
    BY <1>4 DEF unblock_process
  <2>1. PICK d \in Later(c) :
          LET up == UnblockStats(st, w, c, d)
          IN  \/ /\ statics' = up /\ now' = d
                 /\ readyqueue' = readyqueue \cup {w}
                 /\ where' = [where EXCEPT ![cur] = "clock_sched"]
                 /\ UNCHANGED <<cur, origin, missed, dispatched>>
              \/ sched_next(readyqueue \cup {w, cur}, up, d, "clock_sched")
    BY <2>0
  <2> DEFINE up == UnblockStats(st, w, c, d)
  <2>2. w \in Tasks /\ console_blocked' = console_blocked \ {w}
    BY <1>4 DEF unblock_process, CountInv, Lists, Tasks
  <2>3. Reached(up, d)
    BY <1>3, <2>2, Reach
  <2>4. CASE sched_next(readyqueue \cup {w, cur}, up, d, "clock_sched")
    <3> HIDE DEF up
    <3>1. /\ readyqueue \cup {w, cur} \subseteq Tasks
          /\ (readyqueue \cup {w, cur}) \cap freequeue' = {}
          /\ (readyqueue \cup {w, cur}) \cap console_blocked' = {}
          /\ console_blocked' \subseteq Procs /\ console_blocked' \cap freequeue' = {}
      BY <1>2, <2>2 DEF CountInv, Lists, Tasks
    <3> QED
      BY <1>2, <2>3, <2>4, <3>1, SchedCounts
  <2>5. CASE /\ statics' = up /\ now' = d
             /\ readyqueue' = readyqueue \cup {w}
             /\ where' = [where EXCEPT ![cur] = "clock_sched"]
             /\ UNCHANGED <<cur, origin, missed, dispatched>>
    <3> HIDE DEF up
    <3> QED
      BY <1>2, <2>2, <2>3, <2>5, StayCounts
  <2> QED
    BY <2>1, <2>4, <2>5
<1>5. CASE /\ Stay(st, b)
           /\ where' = [where EXCEPT ![cur] = "clock_sched"]
           /\ UNCHANGED console_blocked
  BY <1>2, <1>3, <1>5, StayCounts DEF Stay
<1> QED
  BY <1>1, <1>4, <1>5 DEF st

\* The rest of the timer interrupt.
LEMMA ClockSchedCounts ==
  StatsInv /\ CountInv /\ clock_sched => CountInv' /\ Growth
<1> SUFFICES ASSUME StatsInv, CountInv, clock_sched PROVE CountInv' /\ Growth
  OBVIOUS
<1>1. /\ cur \in Tasks /\ Reached(statics, now)
      /\ UNCHANGED <<freequeue, console_blocked>>
      /\ "clock_exit" \in Points \ {"dead"} /\ "clock_exit" \in InTaskSwitch
  BY ReachedNow DEF StatsInv, Places, clock_sched, Points, InTaskSwitch
<1>2. CASE where' = [where EXCEPT ![cur] = "clock_exit"] /\ Stay(statics, now)
  BY <1>1, <1>2, StayCounts DEF Stay
<1>3. /\ readyqueue \subseteq Tasks /\ readyqueue \cup {cur} \subseteq Tasks
      /\ readyqueue \cap freequeue' = {} /\ readyqueue \cap console_blocked' = {}
      /\ (readyqueue \cup {cur}) \cap freequeue' = {}
      /\ (readyqueue \cup {cur}) \cap console_blocked' = {}
      /\ console_blocked' \subseteq Procs /\ console_blocked' \cap freequeue' = {}
  BY <1>1 DEF CountInv, Lists, Tasks
<1>4. CASE sched_next(readyqueue \cup {cur}, statics, now, "clock_exit")
  BY <1>1, <1>3, <1>4, SchedCounts
<1>5. CASE \E a \in Later(now) : \E b \in Later(a) :
             sched_next(readyqueue, act_stats_surt_idle(statics, a, b), b, "clock_exit")
  <2>1. PICK a \in Later(now) : \E b \in Later(a) :
          sched_next(readyqueue, act_stats_surt_idle(statics, a, b), b, "clock_exit")
    BY <1>5
  <2>2. PICK b \in Later(a) :
          sched_next(readyqueue, act_stats_surt_idle(statics, a, b), b, "clock_exit")
    BY <2>1
  <2>3. /\ act_stats_surt_idle(statics, a, b) = act_ticks_kernel2user(statics, Idle, a, b)
        /\ Idle \in Tasks
    BY DEF act_stats_surt_idle, act_ticks_kernel2user, Tasks
  <2>4. Reached(act_stats_surt_idle(statics, a, b), b)
    BY <1>1, <2>3, Reach
  <2> QED
    BY <1>1, <1>3, <2>2, <2>4, SchedCounts
<1> QED
  BY <1>2, <1>4, <1>5 DEF clock_sched

\* A return that reads no clock.
LEMMA SilentCounts ==
  ASSUME StatsInv, CountInv, Silent, NEW p \in {"user", "cpu_idle"},
         where' = [where EXCEPT ![cur] = p], cur = Idle => p = "cpu_idle",
         UNCHANGED <<freequeue, console_blocked>>
  PROVE  CountInv' /\ Growth
<1>1. PICK a \in Later(now) : Stay(statics, a)
  BY DEF Silent
<1>2. Reached(statics, now) /\ now \in Nat
  BY ReachedNow DEF StatsInv, Accounts
<1>3. a \in Nat /\ now <= a /\ a <= MaxTime
  BY <1>2, LaterNat, StatsAssumption DEF Later
<1>4. Reached(statics, a)
  BY <1>2, <1>3, TableLater DEF Reached
<1>5. /\ statics' = statics /\ now' = a
      /\ UNCHANGED <<cur, readyqueue, origin, missed>>
  BY <1>1 DEF Stay
<1>6. p \in Points \ {"dead"}
  BY DEF Points
<1> QED
  BY <1>4, <1>5, <1>6, StayCounts

\* The ways back to user mode.
LEMMA ReturnsCounts ==
  StatsInv /\ CountInv /\ (\/ clock_exit \/ ret_from_fork \/ read_return
                           \/ quick_call \/ silent_call \/ keyboard_routine)
    => CountInv' /\ Growth
<1> SUFFICES ASSUME StatsInv, CountInv PROVE
      (\/ clock_exit \/ ret_from_fork \/ read_return
       \/ quick_call \/ silent_call \/ keyboard_routine) => CountInv' /\ Growth
  OBVIOUS
<1>1. /\ cur \in Tasks /\ where \in [Tasks -> Points] /\ Reached(statics, now)
      /\ where[Idle] \in {"cpu_idle", "clock_sched", "clock_exit"}
  BY ReachedNow DEF StatsInv, Places, CountInv, Lists
<1>2. ASSUME clock_exit PROVE CountInv' /\ Growth
  <2>1. PICK p \in {"user", "cpu_idle"} : /\ where' = [where EXCEPT ![cur] = p]
                                          /\ cur = Idle => p = "cpu_idle"
    BY <1>2 DEF clock_exit
  <2> QED
    BY <1>1, <1>2, <2>1, ToUserCounts DEF clock_exit
<1>3. ASSUME ret_from_fork PROVE CountInv' /\ Growth
  <2>1. /\ cur # Idle /\ where' = [where EXCEPT ![cur] = "user"]
        /\ ToUser(statics, now) /\ UNCHANGED <<freequeue, console_blocked>>
    BY <1>1, <1>3 DEF ret_from_fork
  <2> QED
    BY <1>1, <2>1, ToUserCounts
<1>4. ASSUME read_return PROVE CountInv' /\ Growth
  <2>1. /\ cur # Idle /\ where' = [where EXCEPT ![cur] = "user"]
        /\ Silent /\ UNCHANGED <<freequeue, console_blocked>>
    BY <1>1, <1>4 DEF read_return
  <2> QED
    BY <2>1, SilentCounts
<1>6. ASSUME silent_call \/ keyboard_routine PROVE CountInv' /\ Growth
  <2>1. PICK p \in {"user", "cpu_idle"} : p = where[cur]
    BY <1>6 DEF silent_call, keyboard_routine
  <2>2. /\ where' = [where EXCEPT ![cur] = p] /\ Silent
        /\ UNCHANGED <<freequeue, console_blocked>> /\ (cur = Idle => p = "cpu_idle")
    BY <1>1, <1>6, <2>1 DEF silent_call, keyboard_routine
  <2> QED
    BY <2>1, <2>2, SilentCounts
<1>5. ASSUME quick_call PROVE CountInv' /\ Growth
  <2>1. PICK a \in Later(now) : \E b \in Later(a) :
          ToUser(act_ticks_user2kernel(statics, cur, a, b), b)
    BY <1>5 DEF quick_call
  <2>2. PICK b \in Later(a) : ToUser(act_ticks_user2kernel(statics, cur, a, b), b)
    BY <2>1
  <2>3. Reached(act_ticks_user2kernel(statics, cur, a, b), b)
    BY <1>1, Reach
  <2>4. /\ cur # Idle /\ where' = [where EXCEPT ![cur] = "user"]
        /\ UNCHANGED <<freequeue, console_blocked>>
    BY <1>1, <1>5 DEF quick_call
  <2> QED
    BY <2>2, <2>3, <2>4, ToUserCounts
<1> QED
  BY <1>2, <1>3, <1>4, <1>5, <1>6

\* The system calls after which another task runs.
LEMMA LeavesCounts ==
  StatsInv /\ CountInv /\ (sys_exit \/ sys_read) => CountInv' /\ Growth
<1> SUFFICES ASSUME StatsInv, CountInv PROVE sys_exit \/ sys_read => CountInv' /\ Growth
  OBVIOUS
<1>1. cur \in Tasks /\ Reached(statics, now) /\ (where[cur] = "user" => cur # Idle)
  BY ReachedNow DEF StatsInv, Places, CountInv, Lists
<1>2. ASSUME sys_exit PROVE CountInv' /\ Growth
  <2>1. PICK a \in Later(now) : \E b \in Later(a) :
          sched_next(readyqueue, act_ticks_user2kernel(statics, cur, a, b), b, "dead")
    BY <1>2 DEF sys_exit
  <2>2. PICK b \in Later(a) :
          sched_next(readyqueue, act_ticks_user2kernel(statics, cur, a, b), b, "dead")
    BY <2>1
  <2>3. Reached(act_ticks_user2kernel(statics, cur, a, b), b)
    BY <1>1, Reach
  <2>4. /\ cur # Idle /\ freequeue' = freequeue \cup {cur}
        /\ console_blocked' = console_blocked
    BY <1>1, <1>2 DEF sys_exit
  <2>5. /\ readyqueue \subseteq Tasks
        /\ readyqueue \cap freequeue' = {} /\ readyqueue \cap console_blocked' = {}
        /\ console_blocked' \subseteq Procs /\ console_blocked' \cap freequeue' = {}
    BY <2>4 DEF CountInv, Lists, Tasks
  <2> QED
    BY <2>2, <2>3, <2>4, <2>5, SchedCounts
<1>3. ASSUME sys_read PROVE CountInv' /\ Growth
  <2>1. PICK a \in Later(now) : \E b \in Later(a) :
          sched_next(readyqueue, BlockStats(statics, cur, a, b), b, "read_return")
    BY <1>3 DEF sys_read
  <2>2. PICK b \in Later(a) :
          sched_next(readyqueue, BlockStats(statics, cur, a, b), b, "read_return")
    BY <2>1
  <2>3. Reached(BlockStats(statics, cur, a, b), b)
    BY <1>1, Reach
  <2>4. /\ cur # Idle /\ freequeue' = freequeue
        /\ console_blocked' = console_blocked \cup {cur}
        /\ "read_return" \in InTaskSwitch
    BY <1>1, <1>3 DEF sys_read, InTaskSwitch
  <2>5. /\ readyqueue \subseteq Tasks
        /\ readyqueue \cap freequeue' = {} /\ readyqueue \cap console_blocked' = {}
        /\ console_blocked' \subseteq Procs /\ console_blocked' \cap freequeue' = {}
    BY <1>1, <2>4 DEF CountInv, Lists, Tasks
  <2> QED
    BY <2>2, <2>3, <2>4, <2>5, SchedCounts
<1> QED
  BY <1>2, <1>3

\* The return to user mode charges system time of one task, nothing else.
LEMMA KernelToUser ==
  ASSUME NEW st \in [Tasks -> StatRec], NEW t \in Tasks, NEW a, NEW b, NEW up,
         up = act_ticks_kernel2user(st, t, a, b)
  PROVE  \A u \in Tasks : Grows(st[u], up[u]) /\ up[u].total_trans = st[u].total_trans
<1> DEFINE s == [[st[t] EXCEPT !.system_ticks = @ + Since(st, t, a)]
                 EXCEPT !.elapsed_total_ticks = b]
<1>1. st[t] \in StatRec
  OBVIOUS
<1>2. up = [st EXCEPT ![t] = s]
  BY DEF act_ticks_kernel2user, Stamp
<1>3. Grows(st[t], s) /\ s.total_trans = st[t].total_trans
  BY <1>1 DEF Grows, StatRec
<1> HIDE DEF s
<1>4. ASSUME NEW u \in Tasks PROVE Grows(st[u], st[u])
  <2>1. st[u] \in StatRec
    OBVIOUS
  <2> QED
    BY <2>1 DEF Grows, StatRec
<1>5. ASSUME NEW u \in Tasks
      PROVE  Grows(st[u], up[u]) /\ up[u].total_trans = st[u].total_trans
  BY <1>2, <1>3, <1>4
<1> QED
  BY <1>5

\* fork: the child's counts begin, the parent's go on.
LEMMA ForkCounts == StatsInv /\ CountInv /\ sys_fork_child => CountInv' /\ Growth
<1> SUFFICES ASSUME StatsInv, CountInv, sys_fork_child PROVE CountInv' /\ Growth
  OBVIOUS
<1>1. /\ cur \in Tasks /\ origin \in [Tasks -> Int] /\ where \in [Tasks -> Points]
      /\ statics \in [Tasks -> StatRec] /\ Reached(statics, now)
      /\ cur' = cur /\ console_blocked' = console_blocked
  BY ReachedNow DEF StatsInv, Places, Accounts, Table, sys_fork_child
<1> DEFINE St(a, b) == act_ticks_user2kernel(statics, cur, a, b)
           Forked(child, st, c, d, e) ==
             /\ freequeue' = freequeue \ {child}
             /\ readyqueue' = readyqueue \cup {child}
             /\ where' = [where EXCEPT ![child] = "ret_from_fork"]
             /\ statics' = act_ticks_kernel2user(
                             [st EXCEPT ![child] = set_ini_stats(st[cur], c)], cur, d, e)
             /\ now' = e
             /\ origin' = [origin EXCEPT ![child] = c - st[cur].ready_ticks]
             /\ missed' = [missed EXCEPT ![child] = 0]
<1>2. \E child \in freequeue : \E a \in Later(now) : \E b \in Later(a) :
      \E c \in Later(b) : \E d \in Later(c) : \E e \in Later(d) :
        Forked(child, St(a, b), c, d, e)
  BY DEF sys_fork_child
<1> HIDE DEF Forked
<1>3. PICK child \in freequeue : \E a \in Later(now) : \E b \in Later(a) :
        \E c \in Later(b) : \E d \in Later(c) : \E e \in Later(d) :
          Forked(child, St(a, b), c, d, e)
  BY <1>2
<1>4. PICK a \in Later(now) : \E b \in Later(a) : \E c \in Later(b) :
        \E d \in Later(c) : \E e \in Later(d) : Forked(child, St(a, b), c, d, e)
  BY <1>3
<1>5. PICK b \in Later(a) : \E c \in Later(b) : \E d \in Later(c) :
        \E e \in Later(d) : Forked(child, St(a, b), c, d, e)
  BY <1>4
<1>6. PICK c \in Later(b) : \E d \in Later(c) : \E e \in Later(d) :
        Forked(child, St(a, b), c, d, e)
  BY <1>5
<1>7. PICK d \in Later(c) : \E e \in Later(d) : Forked(child, St(a, b), c, d, e)
  BY <1>6
<1>8. PICK e \in Later(d) : Forked(child, St(a, b), c, d, e)
  BY <1>7
<1> DEFINE st   == St(a, b)
           born == [st EXCEPT ![child] = set_ini_stats(st[cur], c)]
<1>9. Reached(st, b)
  BY <1>1, Reach
<1>10. /\ freequeue' = freequeue \ {child} /\ readyqueue' = readyqueue \cup {child}
       /\ where' = [where EXCEPT ![child] = "ret_from_fork"]
       /\ statics' = act_ticks_kernel2user(born, cur, d, e) /\ now' = e
       /\ origin' = [origin EXCEPT ![child] = c - st[cur].ready_ticks]
       /\ missed' = [missed EXCEPT ![child] = 0]
  BY <1>8 DEF Forked
<1> HIDE DEF st, St
<1>11. /\ child \in Tasks /\ child \in Procs /\ child # cur
       /\ st \in [Tasks -> StatRec] /\ Once(st[cur], origin[cur], b)
       /\ b \in Nat /\ c \in Nat /\ b <= c /\ e <= MaxTime
  <2>1. b \in Nat /\ Table(st, origin, b)
    BY <1>9 DEF Reached
  <2>2. c \in Nat /\ b <= c
    BY <2>1, LaterNat
  <2>3. d \in Nat
    BY <2>2, LaterNat
  <2>4. e <= MaxTime
    BY <2>3, StatsAssumption DEF Later
  <2> QED
    BY <1>1, <2>1, <2>2, <2>4 DEF Table, CountInv, Lists, Tasks
<1>12. set_ini_stats(st[cur], c) \in StatRec /\ set_ini_stats(st[cur], c).total_trans = 0
  <2>1. st[cur] \in StatRec
    BY <1>1, <1>11
  <2>2. set_ini_stats(st[cur], c) \in StatRec
    BY <1>11, <2>1, Born DEF Once
  <2>3. set_ini_stats(st[cur], c).total_trans = 0
    BY <2>1 DEF set_ini_stats, StatRec
  <2> QED
    BY <2>2, <2>3
<1>13. /\ born \in [Tasks -> StatRec] /\ born[child].total_trans = 0
       /\ \A u \in Tasks : u # child => born[u] = st[u]
  BY <1>11, <1>12
<1> HIDE DEF born
<1>14. \A u \in Tasks : /\ Grows(born[u], statics'[u])
                        /\ statics'[u].total_trans = born[u].total_trans
  <2> DEFINE up == act_ticks_kernel2user(born, cur, d, e)
  <2>1. born \in [Tasks -> StatRec] /\ cur \in Tasks
    BY <1>1, <1>13
  <2>2. \A u \in Tasks : Grows(born[u], up[u]) /\ up[u].total_trans = born[u].total_trans
    BY <2>1, KernelToUser
  <2>3. statics' = up
    BY <1>10
  <2> HIDE DEF up
  <2> QED
    BY <2>2, <2>3
<1>15. Lists'
  BY <1>1, <1>10, <1>11, StatsAssumption DEF CountInv, Lists, Tasks
<1>16. Counts'
  BY <1>1, <1>10, <1>11 DEF CountInv, Counts
<1>17. Ranges'
  <2>1. ASSUME NEW u \in Tasks PROVE statics'[u].total_trans \in 0 .. ULONG_MAX
    <3>1. CASE u = child
      BY <1>13, <1>14, <3>1, StatsAssumption
    <3>2. CASE u # child
      <4>1. statics'[u].total_trans = statics[u].total_trans
        BY <1>9, <1>13, <1>14, <3>2 DEF Reached
      <4> QED
        BY <4>1 DEF CountInv, Ranges
    <3> QED
      BY <3>1, <3>2
  <2>2. 0 <= c - st[cur].ready_ticks
    <3>1. /\ st[cur].user_ticks \in Nat /\ st[cur].system_ticks \in Nat
          /\ st[cur].blocked_ticks \in Nat /\ st[cur].ready_ticks \in Nat
          /\ st[cur].elapsed_total_ticks \in Nat
      BY <1>11 DEF Once, StatRec
    <3>2. /\ st[cur].elapsed_total_ticks <= b
          /\ st[cur].user_ticks + st[cur].system_ticks + st[cur].blocked_ticks
               + st[cur].ready_ticks <= st[cur].elapsed_total_ticks - origin[cur]
      BY <1>11 DEF Once, Accounted
    <3>3. 0 <= origin[cur] /\ origin[cur] \in Int
      BY <1>1 DEF CountInv, Ranges
    <3> QED
      BY <1>11, <3>1, <3>2, <3>3
  <2>3. ASSUME NEW u \in Tasks PROVE 0 <= origin'[u]
    BY <1>1, <1>10, <1>11, <2>2 DEF CountInv, Ranges
  <2> QED
    BY <1>10, <1>11, <2>1, <2>3 DEF Ranges
<1>18. Growth
  <2>1. ASSUME NEW u \in Tasks, where[u] # "dead" PROVE Grows(statics[u], statics'[u])
    <3>1. u # child
      BY <2>1, <1>11 DEF CountInv, Lists
    <3>2. statics'[u] \in StatRec
      <4>1. StatsInv'
        BY Fork
      <4> QED
        BY <4>1 DEF StatsInv, Accounts, Table
    <3>3. Grows(statics[u], st[u]) /\ Grows(st[u], statics'[u])
      BY <1>9, <1>13, <1>14, <3>1 DEF Reached
    <3> QED
      BY <1>1, <1>11, <3>2, <3>3, GrowsTransitive
  <2> QED
    BY <2>1 DEF Growth
<1> QED
  BY <1>15, <1>16, <1>17, <1>18 DEF CountInv

\* The boot leaves one process, which runs, and idle, which has never run.
LEMMA CountsInitial == Init => CountInv
<1> SUFFICES ASSUME Init PROVE CountInv
  OBVIOUS
<1>1. Lists
  BY StatsAssumption DEF Init, Lists, Tasks
<1>2. Counts
  BY DEF Init, Counts
<1>3. Ranges
  BY StatsAssumption DEF Init, Ranges, ini_stats
<1> QED
  BY <1>1, <1>2, <1>3 DEF CountInv

\* Every step keeps the second invariant and lowers no counter.
LEMMA CountsStep == StatsInv /\ CountInv /\ [Next]_vars => CountInv' /\ [Growth]_vars
<1> SUFFICES ASSUME StatsInv, CountInv, [Next]_vars PROVE CountInv' /\ [Growth]_vars
  OBVIOUS
<1>1. CASE Next
  BY <1>1, ClockRoutineCounts, ClockSchedCounts, ReturnsCounts, LeavesCounts, ForkCounts
     DEF Next
<1>2. CASE UNCHANGED vars
  BY <1>2 DEF vars, taskVars, statVars, CountInv, Lists, Counts, Ranges
<1> QED
  BY <1>1, <1>2

\* The second invariant holds in every behaviour.
LEMMA CountsInductive == Spec => []CountInv
<1>1. StatsInv /\ CountInv /\ [Next]_vars => CountInv'
  BY CountsStep
<1> QED
  BY <1>1, CountsInitial, StatsInductive, PTL DEF Spec

\* For any number of processes and any width of the counter, total_trans misses
\* the first dispatch of a process at most, and never another one.
THEOREM StatsDispatches == Spec => []DispatchesCounted
<1>1. CountInv => DispatchesCounted
  BY DEF CountInv, Counts, DispatchesCounted, Living
<1> QED
  BY <1>1, CountsInductive, PTL

\* A living process never loses user, blocked or ready time from its statics,
\* whichever handler runs and whoever it switches to.
THEOREM StatsGrow == Spec => CountersOnlyGrow
<1>1. StatsInv /\ CountInv /\ CountInv' /\ StatsInv' /\ [Next]_vars =>
        [\A t \in Living \cap Living', c \in Counters \ {"system_ticks"} :
           statics'[t][c] >= statics[t][c]]_vars
  <2> SUFFICES ASSUME StatsInv, CountInv, CountInv', StatsInv', [Next]_vars, ~ UNCHANGED vars,
                      NEW t \in Living \cap Living', NEW c \in Counters \ {"system_ticks"}
               PROVE  statics'[t][c] >= statics[t][c]
    OBVIOUS
  <2>1. Growth
    BY CountsStep
  <2>2. t \in Tasks /\ where[t] # "dead" /\ where'[t] # "dead"
    BY DEF CountInv, Lists, Living
  <2>3. Grows(statics[t], statics'[t])
    BY <2>1, <2>2 DEF Growth
  <2>4. statics[t] \in StatRec /\ statics'[t] \in StatRec
    BY <2>2 DEF StatsInv, Accounts, Table
  <2>5. c = "user_ticks" \/ c = "blocked_ticks" \/ c = "ready_ticks"
    BY DEF Counters
  <2> QED
    BY <2>3, <2>4, <2>5 DEF Grows, StatRec
<1> QED
  BY <1>1, StatsInductive, CountsInductive, PTL DEF Spec, CountersOnlyGrow

\* Every variable keeps its type: no counter leaves its range, which it would
\* where a difference is taken against a stamp from the future.
THEOREM StatsTypeCorrect == Spec => []TypeOK
<1>1. StatsInv /\ CountInv => TypeOK
  <2> SUFFICES ASSUME StatsInv, CountInv PROVE TypeOK
    OBVIOUS
  <2>1. /\ cur \in Living /\ where \in [Tasks -> Points] /\ freequeue \subseteq Procs
        /\ readyqueue \subseteq Procs \ freequeue
        /\ console_blocked \subseteq Procs \ freequeue
    BY DEF StatsInv, Places, CountInv, Lists, Living
  <2>2. now \in 0 .. MaxTime /\ origin \in [Tasks -> Int] /\ missed \in [Tasks -> Int]
    BY StatsAssumption DEF StatsInv, Accounts, CountInv, Ranges, Counts
  <2>5. dispatched \in 0 .. now
    BY <2>2 DEF StatsInv, Fresh
  <2>3. ASSUME NEW t \in Tasks
        PROVE  /\ \A c \in Counters : statics[t][c] \in 0 .. MaxTime
               /\ statics[t].elapsed_total_ticks \in 0 .. now
               /\ statics[t].total_trans \in 0 .. ULONG_MAX
               /\ origin[t] \in 0 .. MaxTime
    <3>1. Once(statics[t], origin[t], now) /\ now \in Nat
      BY DEF StatsInv, Accounts, Table
    <3>2. /\ statics[t].user_ticks \in Nat /\ statics[t].system_ticks \in Nat
          /\ statics[t].blocked_ticks \in Nat /\ statics[t].ready_ticks \in Nat
          /\ statics[t].elapsed_total_ticks \in Nat
      BY <3>1 DEF Once, StatRec
    <3>3. /\ statics[t].elapsed_total_ticks <= now
          /\ statics[t].user_ticks + statics[t].system_ticks + statics[t].blocked_ticks
               + statics[t].ready_ticks <= statics[t].elapsed_total_ticks - origin[t]
      BY <3>1 DEF Once, Accounted
    <3>4. /\ 0 <= origin[t] /\ origin[t] \in Int /\ now <= MaxTime /\ MaxTime \in Nat
          /\ statics[t].total_trans \in 0 .. ULONG_MAX
      BY <2>2, StatsAssumption DEF CountInv, Ranges
    <3>5. /\ statics[t].user_ticks \in 0 .. MaxTime /\ statics[t].system_ticks \in 0 .. MaxTime
          /\ statics[t].blocked_ticks \in 0 .. MaxTime /\ statics[t].ready_ticks \in 0 .. MaxTime
          /\ statics[t].elapsed_total_ticks \in 0 .. now /\ origin[t] \in 0 .. MaxTime
      BY <3>1, <3>2, <3>3, <3>4
    <3> QED
      BY <3>4, <3>5 DEF Counters
  <2>4. origin \in [Tasks -> 0 .. MaxTime]
    BY <2>2, <2>3
  <2> QED
    BY <2>1, <2>2, <2>3, <2>4, <2>5 DEF TypeOK
<1> QED
  BY <1>1, StatsInductive, CountsInductive, PTL
=============================================================================
