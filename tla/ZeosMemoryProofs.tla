--------------------------- MODULE ZeosMemoryProofs --------------------------
(***************************************************************************)
(* Proofs about the memory of processes in ZeosKernel, for any number of   *)
(* tasks, frames and pages: who owns which frame, that processes do not    *)
(* see each other's data, that a system call that fails undoes what it has *)
(* done, and that the kernel implements ZeosProcess.  They rest on the     *)
(* invariant IInv of ZeosKernelProofs.                                     *)
(***************************************************************************)
EXTENDS ZeosRefinement, ZeosKernelProofs, FiniteSetTheorems

\* The frame that page p of task t maps in the tables pt.
Frame(pt, t, p) == get_frame(pt[t], p)

(***************************************************************************)
(* The tables pt and the frame map pm are right for the processes al.  The *)
(* data lie strictly above the first frame after the kernel, which the     *)
(* code of init_task holds: free_frame never gives that one back.          *)
(***************************************************************************)
Disjoint(al, pt) ==
  \A t, u \in al, p, q \in DataPages :
    Frame(pt, t, p) = Frame(pt, u, q) => t = u /\ p = q
NotCode(al, pt) ==
  \A t \in al, p \in DataPages, q \in CodePages : Frame(pt, t, p) # Frame(pt, INIT, q)
SameCode(al, pt) ==
  \A t \in al, p \in CodePages : Frame(pt, t, p) = Frame(pt, INIT, p)
NoTemp(pt) == \A t \in Tasks, p \in TempPages : pt[t][p] = NoEntry
Needed(al, pt, f) ==
  \/ f < NUM_PAG_KERNEL
  \/ \E q \in CodePages : f = Frame(pt, INIT, q)
  \/ \E t \in al, p \in DataPages : f = Frame(pt, t, p)
UsedIfNeeded(al, pt, pm) ==
  \A f \in Frames : pm[f] = USED_FRAME <=> Needed(al, pt, f)
AboveKernel(al, pt) ==
  /\ \A t \in al, p \in DataPages : Frame(pt, t, p) > NUM_PAG_KERNEL
  /\ \E q \in CodePages : Frame(pt, INIT, q) = NUM_PAG_KERNEL

Owned(al, pt, pm) ==
  /\ Disjoint(al, pt) /\ NotCode(al, pt) /\ SameCode(al, pt) /\ NoTemp(pt)
  /\ UsedIfNeeded(al, pt, pm) /\ AboveKernel(al, pt)

Tables   == [Tasks -> [UserPages -> PTE]]
FrameMap == [Frames -> {FREE_FRAME, USED_FRAME}]

\* The frame of a mapped page exists.
LEMMA FrameType ==
  ASSUME NEW pt \in Tables, NEW t \in Tasks, NEW p \in CodePages \cup DataPages
  PROVE  Frame(pt, t, p) \in Frames
BY PagesFrames DEF Tables, Frame, get_frame, PTE

-----------------------------------------------------------------------------
(***************************************************************************)
(* exit and fork, on the tables and the frame map.                         *)
(***************************************************************************)
\* exit gives back the data of c and nothing else.
LEMMA ExitOwned ==
  ASSUME NEW al, al \subseteq Tasks, NEW pt \in Tables, NEW pm \in FrameMap,
         Owned(al, pt, pm), NEW c \in al
  PROVE  Owned(al \ {c}, pt, free_frame(pm, {Frame(pt, c, p) : p \in DataPages}))
<1> DEFINE F  == {Frame(pt, c, p) : p \in DataPages}
           pn == free_frame(pm, F)
<1>1. /\ Disjoint(al \ {c}, pt) /\ NotCode(al \ {c}, pt) /\ SameCode(al \ {c}, pt)
      /\ NoTemp(pt) /\ AboveKernel(al \ {c}, pt)
  BY DEF Owned, Disjoint, NotCode, SameCode, AboveKernel
<1>2. UsedIfNeeded(al \ {c}, pt, pn)
  <2> SUFFICES ASSUME NEW f \in Frames
               PROVE  pn[f] = USED_FRAME <=> Needed(al \ {c}, pt, f)
    BY DEF UsedIfNeeded
  <2>0. pm[f] = USED_FRAME <=> Needed(al, pt, f)
    BY DEF Owned, UsedIfNeeded
  <2>1. CASE f \in F
    <3>1. PICK p \in DataPages : f = Frame(pt, c, p)
      BY <2>1
    <3>2. f > NUM_PAG_KERNEL /\ f < TOTAL_PAGES /\ ~(f < NUM_PAG_KERNEL)
      BY <3>1, MMAssumption DEF Owned, AboveKernel, Frames
    <3>3. pn[f] = FREE_FRAME
      BY <2>1, <3>2 DEF free_frame
    <3>4. ~Needed(al \ {c}, pt, f)
      <4>1. ~\E q \in CodePages : f = Frame(pt, INIT, q)
        BY <3>1 DEF Owned, NotCode
      <4>2. ~\E t \in al \ {c}, q \in DataPages : f = Frame(pt, t, q)
        BY <3>1 DEF Owned, Disjoint
      <4> QED
        BY <3>2, <4>1, <4>2 DEF Needed
    <3> QED
      BY <3>3, <3>4 DEF FREE_FRAME, USED_FRAME
  <2>2. CASE f \notin F
    <3>1. pn[f] = pm[f]
      BY <2>2 DEF free_frame
    <3>2. Needed(al, pt, f) <=> Needed(al \ {c}, pt, f)
      BY <2>2 DEF Needed
    <3> QED
      BY <2>0, <3>1, <3>2
  <2> QED
    BY <2>1, <2>2
<1> QED
  BY <1>1, <1>2 DEF Owned

\* The frames of one alloc_frame per data page differ, and nobody owns them.
LEMMA AllocFresh ==
  ASSUME NEW al, NEW pt, NEW pm, Owned(al, pt, pm), NEW g \in alloc_frame(pm, DataPages)
  PROVE  /\ \A p \in DataPages : g[p] \in Frames /\ g[p] >= NUM_PAG_KERNEL
         /\ \A p, q \in DataPages : g[p] = g[q] => p = q
         /\ \A p \in DataPages, q \in CodePages : g[p] # Frame(pt, INIT, q)
         /\ \A p \in DataPages, t \in al, q \in DataPages : g[p] # Frame(pt, t, q)
<1>1. /\ \A p \in DataPages : g[p] \in Allocatable(pm)
      /\ \A p, q \in DataPages : p < q => g[p] < g[q]
  BY DEF alloc_frame
<1>2. \A p \in DataPages : /\ g[p] \in Frames /\ g[p] >= NUM_PAG_KERNEL
                           /\ pm[g[p]] = FREE_FRAME
  BY <1>1, MMAssumption DEF Allocatable, Frames
<1>3. \A p, q \in DataPages : g[p] = g[q] => p = q
  BY <1>1, <1>2, MMAssumption DEF DataPages, Frames
<1>4. \A p \in DataPages : ~Needed(al, pt, g[p])
  BY <1>2 DEF Owned, UsedIfNeeded, FREE_FRAME, USED_FRAME
<1>5. /\ \A p \in DataPages, q \in CodePages : g[p] # Frame(pt, INIT, q)
      /\ \A p \in DataPages, t \in al, q \in DataPages : g[p] # Frame(pt, t, q)
  BY <1>4 DEF Needed
<1> QED
  BY <1>2, <1>3, <1>5

\* fork gives the child c, which is not alive, free frames for its data and the
\* code of its parent u.
LEMMA ForkOwned ==
  ASSUME NEW al, al \subseteq Tasks, NEW pt \in Tables, NEW pm \in FrameMap,
         Owned(al, pt, pm), NEW c \in Tasks \ al, NEW u \in al,
         NEW g \in alloc_frame(pm, DataPages), NEW pu \in Tables,
         \A t \in Tasks, p \in CodePages \cup DataPages :
           Frame(pu, t, p) = IF t # c THEN Frame(pt, t, p)
                             ELSE IF p \in CodePages THEN Frame(pt, u, p) ELSE g[p],
         NoTemp(pu)
  PROVE  Owned(al \cup {c}, pu, MarkUsed(pm, {g[p] : p \in DataPages}))
<1> DEFINE F  == {g[p] : p \in DataPages}
           pn == MarkUsed(pm, F)
           an == al \cup {c}
<1>0. CodePages \cap DataPages = {}
  BY MMAssumption DEF CodePages, DataPages
<1>1. /\ \A p \in DataPages : g[p] \in Frames /\ g[p] >= NUM_PAG_KERNEL
      /\ \A p, q \in DataPages : g[p] = g[q] => p = q
      /\ \A p \in DataPages, q \in CodePages : g[p] # Frame(pt, INIT, q)
      /\ \A p \in DataPages, t \in al, q \in DataPages : g[p] # Frame(pt, t, q)
  BY AllocFresh
<1>6. \A t \in an, p \in DataPages :
        Frame(pu, t, p) = IF t = c THEN g[p] ELSE Frame(pt, t, p)
  BY <1>0
<1>7. \A p \in CodePages : Frame(pu, INIT, p) = Frame(pt, INIT, p)
  BY IdleInit DEF Owned, SameCode
<1>8. Disjoint(an, pu)
  BY <1>1, <1>6 DEF Owned, Disjoint
<1>9. NotCode(an, pu)
  BY <1>1, <1>6, <1>7 DEF Owned, NotCode
<1>10. SameCode(an, pu)
  BY <1>7 DEF Owned, SameCode
<1>11. AboveKernel(an, pu)
  <2>1. \A p \in DataPages : g[p] > NUM_PAG_KERNEL
    BY <1>1, MMAssumption DEF Owned, AboveKernel, Frames
  <2> QED
    BY <1>6, <1>7, <2>1 DEF Owned, AboveKernel
<1>12. UsedIfNeeded(an, pu, pn)
  <2> SUFFICES ASSUME NEW f \in Frames
               PROVE  pn[f] = USED_FRAME <=> Needed(an, pu, f)
    BY DEF UsedIfNeeded
  <2>1. pn[f] = USED_FRAME <=> f \in F \/ pm[f] = USED_FRAME
    BY DEF MarkUsed
  <2>2. Needed(an, pu, f) <=> f \in F \/ Needed(al, pt, f)
    BY <1>6, <1>7 DEF Needed
  <2> QED
    BY <2>1, <2>2 DEF Owned, UsedIfNeeded
<1> QED
  BY <1>8, <1>9, <1>10, <1>11, <1>12 DEF Owned

\* A fork that runs out of frames gives back the ones it took.
LEMMA TakeAndReturnSame ==
  ASSUME NEW al, NEW pt \in Tables, NEW pm \in FrameMap, Owned(al, pt, pm)
  PROVE  TakeAndReturn(pm) = pm
<1>1. NUM_PAG_KERNEL \in Frames /\ pm[NUM_PAG_KERNEL] = USED_FRAME
  BY MMAssumption DEF Owned, AboveKernel, UsedIfNeeded, Needed, Frames
<1>2. ASSUME NEW f \in Allocatable(pm)
      PROVE  f > NUM_PAG_KERNEL /\ f < TOTAL_PAGES /\ pm[f] = FREE_FRAME
  BY <1>1, MMAssumption DEF Allocatable, FREE_FRAME, USED_FRAME
<1>3. ASSUME NEW f \in Frames PROVE TakeAndReturn(pm)[f] = pm[f]
  BY <1>2 DEF TakeAndReturn, free_frame, MarkUsed
<1>4. TakeAndReturn(pm) = [f \in Frames |-> TakeAndReturn(pm)[f]]
  BY DEF TakeAndReturn, free_frame
<1> QED
  BY <1>3, <1>4 DEF FrameMap

-----------------------------------------------------------------------------
(***************************************************************************)
(* The invariant, and what a step may do to memory.                        *)
(***************************************************************************)
MemInv == Owned(Alive, pagusr_table, phys_mem)

\* Owned says what FrameOwnership says, page by page.
LEMMA MemInvOwnership == IInv /\ MemInv => FrameOwnership
<1> SUFFICES ASSUME IInv, MemInv PROVE FrameOwnership
  OBVIOUS
<1> DEFINE pt == pagusr_table
<1>1. /\ Alive \subseteq Tasks /\ pt \in Tables /\ phys_mem \in FrameMap
      /\ INIT \in Tasks
  BY IdleInit DEF Alive, IInv, TypeOK, Tables, FrameMap
<1> HIDE DEF pt
<1>2. /\ \A t \in Tasks : DataFrames(t) = {Frame(pt, t, p) : p \in DataPages}
      /\ CodeFrames = {Frame(pt, INIT, p) : p \in CodePages}
      /\ \A t \in Tasks, p \in UserPages : get_frame(pagusr_table[t], p) = Frame(pt, t, p)
  BY DEF DataFrames, CodeFrames, Frame, pt
<1>3. CodePages \subseteq UserPages /\ DataPages \subseteq UserPages
  BY PagesFrames
<1>4. \A t \in Alive, p, q \in DataPages : p # q =>
        get_frame(pagusr_table[t], p) # get_frame(pagusr_table[t], q)
  BY DEF MemInv, Owned, Disjoint, Frame
<1>5. \A t, u \in Alive : t # u => DataFrames(t) \cap DataFrames(u) = {}
  BY <1>1, <1>2 DEF MemInv, Owned, Disjoint, pt
<1>6. \A t \in Alive : DataFrames(t) \cap CodeFrames = {}
  BY <1>1, <1>2 DEF MemInv, Owned, NotCode, pt
<1>7. \A t \in Alive, p \in CodePages :
        get_frame(pagusr_table[t], p) = get_frame(pagusr_table[INIT], p)
  BY DEF MemInv, Owned, SameCode, Frame
<1>8. {f \in Frames : phys_mem[f] = USED_FRAME} =
        0 .. NUM_PAG_KERNEL - 1 \cup CodeFrames \cup UNION {DataFrames(t) : t \in Alive}
  <2>1. ASSUME NEW f
        PROVE  f \in CodeFrames <=> \E q \in CodePages : f = Frame(pt, INIT, q)
    BY <1>2
  <2>2. ASSUME NEW f
        PROVE  f \in UNION {DataFrames(t) : t \in Alive} <=>
                 \E t \in Alive, p \in DataPages : f = Frame(pt, t, p)
    BY <1>1, <1>2
  <2>3. ASSUME NEW f
        PROVE  f \in 0 .. NUM_PAG_KERNEL - 1 <=> f \in Frames /\ f < NUM_PAG_KERNEL
    BY MMAssumption DEF Frames
  <2>4. /\ \A q \in CodePages : Frame(pt, INIT, q) \in Frames
        /\ \A t \in Alive, p \in DataPages : Frame(pt, t, p) \in Frames
    BY <1>1, FrameType
  <2>5. \A f \in Frames : phys_mem[f] = USED_FRAME <=> Needed(Alive, pt, f)
    BY DEF MemInv, Owned, UsedIfNeeded, pt
  <2> QED
    BY <2>1, <2>2, <2>3, <2>4, <2>5 DEF Needed
<1> QED
  BY <1>4, <1>5, <1>6, <1>7, <1>8 DEF FrameOwnership, MemInv, Owned, NoTemp

\* init_task takes the first frames above the kernel, its code the first of all.
LEMMA InitMem == Init => MemInv
<1> SUFFICES ASSUME Init PROVE MemInv
  OBVIOUS
<1> DEFINE P == CodePages \cup DataPages
<1>1. PICK g \in alloc_frame(init_frames, P) :
        /\ phys_mem = MarkUsed(init_frames, {g[p] : p \in P})
        /\ pagusr_table = [t \in Tasks |->
             IF t = INIT THEN set_user_pages(g) ELSE init_table_pages]
  BY DEF Init
<1>2. Alive = {INIT}
  BY InitAlive
<1>3. /\ \A p \in P : g[p] \in Allocatable(init_frames)
      /\ \A p, q \in P : p < q => g[p] < g[q]
      /\ \A f \in Allocatable(init_frames) : \A p \in P :
           f < g[p] => \E q \in P : g[q] = f
  BY DEF alloc_frame
<1>4. \A p \in P : g[p] \in Frames /\ g[p] >= NUM_PAG_KERNEL
  BY <1>3, MMAssumption DEF Allocatable, Frames
<1>5. \A p, q \in P : g[p] = g[q] => p = q
  BY <1>3, <1>4, MMAssumption DEF CodePages, DataPages, Frames
<1>6. g[NUM_PAG_KERNEL] = NUM_PAG_KERNEL /\ NUM_PAG_KERNEL \in CodePages
  <2>1. /\ NUM_PAG_KERNEL \in CodePages /\ NUM_PAG_KERNEL \in P
        /\ \A p \in P : p \in Int /\ p >= NUM_PAG_KERNEL
    BY MMAssumption DEF CodePages, DataPages
  <2>2. NUM_PAG_KERNEL \in Allocatable(init_frames)
    <3>1. NUM_PAG_KERNEL \in NUM_PAG_KERNEL .. TOTAL_PAGES - 1
          /\ (NUM_PAG_KERNEL - NUM_PAG_KERNEL) % 2 = 0
          /\ NUM_PAG_KERNEL \in Frames /\ ~(NUM_PAG_KERNEL < NUM_PAG_KERNEL)
      BY MMAssumption DEF Frames
    <3> QED
      BY <3>1 DEF Allocatable, init_frames
  <2>3. CASE NUM_PAG_KERNEL < g[NUM_PAG_KERNEL]
    <3>1. PICK q \in P : g[q] = NUM_PAG_KERNEL
      BY <1>3, <2>1, <2>2, <2>3
    <3>2. q = NUM_PAG_KERNEL \/ NUM_PAG_KERNEL < q
      BY <2>1, MMAssumption
    <3>3. g[NUM_PAG_KERNEL] \in Int
      BY <1>4, <2>1, PagesFrames
    <3> QED
      BY <1>3, <2>1, <2>3, <3>1, <3>2, <3>3, MMAssumption
  <2> QED
    BY <1>4, <2>1, <2>3, MMAssumption DEF Frames
<1> HIDE DEF P
<1>7. CodePages \cap DataPages = {} /\ CodePages \subseteq P /\ DataPages \subseteq P
      /\ CodePages \cap TempPages = {} /\ DataPages \cap TempPages = {}
      /\ TempPages \subseteq UserPages /\ NUM_PAG_KERNEL \notin DataPages
  BY MMAssumption DEF CodePages, DataPages, TempPages, UserPages, P
<1>8. \A p \in P : Frame(pagusr_table, INIT, p) = g[p]
  BY <1>1, IdleInit, PagesFrames DEF Frame, get_frame, set_user_pages, P
<1>9. Disjoint({INIT}, pagusr_table) /\ NotCode({INIT}, pagusr_table)
      /\ SameCode({INIT}, pagusr_table)
  BY <1>5, <1>7, <1>8 DEF Disjoint, NotCode, SameCode
<1>10. NoTemp(pagusr_table)
  BY <1>1, <1>7 DEF NoTemp, set_user_pages, init_table_pages, P
<1>11. AboveKernel({INIT}, pagusr_table)
  <2>1. \A p \in DataPages : g[p] # NUM_PAG_KERNEL
    BY <1>5, <1>6, <1>7
  <2>2. \A p \in DataPages : g[p] > NUM_PAG_KERNEL
    BY <1>4, <1>7, <2>1, MMAssumption DEF Frames
  <2> QED
    BY <1>6, <1>7, <1>8, <2>2 DEF AboveKernel
<1>12. UsedIfNeeded({INIT}, pagusr_table, phys_mem)
  <2> SUFFICES ASSUME NEW f \in Frames
               PROVE  phys_mem[f] = USED_FRAME <=> Needed({INIT}, pagusr_table, f)
    BY DEF UsedIfNeeded
  <2>1. phys_mem[f] = USED_FRAME <=> f < NUM_PAG_KERNEL \/ \E p \in P : f = g[p]
    BY <1>1 DEF MarkUsed, init_frames, FREE_FRAME, USED_FRAME
  <2>2. (\E p \in P : f = g[p]) <=> \/ \E q \in CodePages : f = g[q]
                                    \/ \E p \in DataPages : f = g[p]
    BY DEF P
  <2> QED
    BY <1>7, <1>8, <2>1, <2>2 DEF Needed
<1> QED
  BY <1>2, <1>9, <1>10, <1>11, <1>12 DEF MemInv, Owned

\* The types these proofs use, and the processes a task in user mode is one of.
LEMMA MemTypes ==
  ASSUME IInv
  PROVE  /\ Alive \subseteq Tasks /\ pagusr_table \in Tables /\ phys_mem \in FrameMap
         /\ mem \in [Frames -> Values] /\ freequeue \in Seq(Tasks)
         /\ where[cur] = "user" => cur \in Alive /\ Running = cur /\ cr3 = cur
<1>1. where[cur] = "user" => cur \in Alive /\ Running = cur /\ cr3 = cur
  BY UserRuns DEF IInv, QueueIntegrity, Linked, Alive, ContextMatches
<1> QED
  BY <1>1 DEF IInv, TypeOK, Alive, Tables, FrameMap

\* What a successful fork does to memory.
LEMMA ForkMemory ==
  ASSUME IInv, where[cur] = "user", sys_fork_child
  PROVE  \E child \in Tasks \ Alive, g \in alloc_frame(phys_mem, DataPages) :
           /\ Alive' = Alive \cup {child}
           /\ phys_mem' = MarkUsed(phys_mem, {g[p] : p \in DataPages})
           /\ pagusr_table' \in Tables
           /\ \A t \in Tasks, p \in CodePages \cup DataPages :
                Frame(pagusr_table', t, p) =
                  IF t # child THEN Frame(pagusr_table, t, p)
                  ELSE IF p \in CodePages THEN Frame(pagusr_table, cur, p) ELSE g[p]
           /\ NoTemp(pagusr_table) => NoTemp(pagusr_table')
           /\ \A f \in Frames : (\A p \in DataPages : g[p] # f) => mem'[f] = mem[f]
           /\ \A p \in DataPages : mem'[g[p]] = mem[Frame(pagusr_table, cur, p)]
<1> DEFINE child == Head(freequeue)
<1>1. freequeue # <<>> /\ freequeue \in Seq(Tasks)
  BY MemTypes DEF sys_fork_child, list_empty
<1>2. cur \in Tasks /\ child \in Tasks /\ child # cur /\ child # IDLE
      /\ Linked(freequeue, readyqueue, console_blocked, cur)
  BY <1>1, FreeChild
<1>3. PICK g \in alloc_frame(phys_mem, DataPages) :
        /\ freequeue' = Tail(freequeue)
        /\ phys_mem' = MarkUsed(phys_mem, {g[p] : p \in DataPages})
        /\ mem' = copy_data(MapChild(child, g)[cr3])
        /\ pagusr_table' = [MapChild(child, g) EXCEPT
                              ![cur] = del_ss_pag(@, TempPages)]
  BY DEF sys_fork_child, list_first
<1>4. /\ Range(freequeue) = {child} \cup Range(Tail(freequeue))
      /\ child \notin Range(Tail(freequeue))
  BY <1>1, <1>2, TailRange DEF Linked
<1> HIDE DEF child
<1>5. child \notin Alive /\ Alive' = Alive \cup {child}
  BY <1>2, <1>3, <1>4 DEF Alive
<1>6. pagusr_table' \in Tables
  BY ForkChildIInv DEF IInv, TypeOK, Tables
<1>7. CodePages \cap DataPages = {} /\ CodePages \cap TempPages = {}
      /\ DataPages \cap TempPages = {} /\ TempPages \subseteq UserPages
      /\ CodePages \subseteq UserPages /\ DataPages \subseteq UserPages
  BY MMAssumption DEF CodePages, DataPages, TempPages, UserPages
<1>8. pagusr_table \in Tables
  BY MemTypes
<1>13. /\ MapChild(child, g) \in [Tasks -> [UserPages -> PTE]]
       /\ MapChild(child, g)[child] =
            set_ss_pag(ShareCode(pagusr_table[child]), DataPages, g)
       /\ \A p \in UserPages \ TempPages :
            MapChild(child, g)[cur][p] = pagusr_table[cur][p]
       /\ \A p \in DataPages :
            get_frame(MapChild(child, g)[cur], p + NUM_PAG_DATA) = g[p]
       /\ \A t \in Tasks \ {cur, child} : MapChild(child, g)[t] = pagusr_table[t]
  BY <1>2, MapChildTables
<1>9. /\ pagusr_table'[child] = set_ss_pag(ShareCode(pagusr_table[child]), DataPages, g)
      /\ \A p \in UserPages : pagusr_table'[cur][p] =
           IF p \in TempPages THEN NoEntry ELSE pagusr_table[cur][p]
      /\ \A t \in Tasks : t # child /\ t # cur => pagusr_table'[t] = pagusr_table[t]
  <2>1. pagusr_table'[cur] = del_ss_pag(MapChild(child, g)[cur], TempPages)
    BY <1>2, <1>3, <1>13
  <2>2. \A p \in UserPages : pagusr_table'[cur][p] =
          IF p \in TempPages THEN NoEntry ELSE MapChild(child, g)[cur][p]
    BY <2>1 DEF del_ss_pag
  <2> QED
    BY <1>2, <1>3, <1>13, <2>2
<1>10. ASSUME NEW t \in Tasks, NEW p \in CodePages \cup DataPages
       PROVE  Frame(pagusr_table', t, p) =
                IF t # child THEN Frame(pagusr_table, t, p)
                ELSE IF p \in CodePages THEN Frame(pagusr_table, cur, p) ELSE g[p]
  <2>1. CASE t = child
    BY <1>7, <1>9, <2>1 DEF Frame, get_frame, set_ss_pag, ShareCode
  <2>2. CASE t = cur
    BY <1>2, <1>7, <1>9, <2>2 DEF Frame, get_frame
  <2>3. CASE t # child /\ t # cur
    BY <1>9, <2>3 DEF Frame
  <2> QED
    BY <2>1, <2>2, <2>3
<1>11. ASSUME NoTemp(pagusr_table), NEW t \in Tasks, NEW p \in TempPages
       PROVE  pagusr_table'[t][p] = NoEntry
  <2>1. pagusr_table[t][p] = NoEntry
    BY <1>11 DEF NoTemp
  <2>2. CASE t = child
    BY <1>7, <1>9, <2>1, <2>2 DEF set_ss_pag, ShareCode
  <2>3. CASE t = cur
    BY <1>7, <1>9, <2>3
  <2>4. CASE t # child /\ t # cur
    BY <1>9, <2>1, <2>4
  <2> QED
    BY <2>2, <2>3, <2>4
<1>12. NoTemp(pagusr_table) => NoTemp(pagusr_table')
  BY <1>11 DEF NoTemp
<1>14. /\ \A f \in Frames : (\A p \in DataPages : g[p] # f) => mem'[f] = mem[f]
       /\ \A p \in DataPages : mem'[g[p]] = mem[Frame(pagusr_table, cur, p)]
  <2> DEFINE pt == MapChild(child, g)[cr3]
             Up(p) == get_frame(pt, p + NUM_PAG_DATA)
  <2>1. /\ \A p \in DataPages : Up(p) = g[p]
        /\ \A p \in DataPages : get_frame(pt, p) = Frame(pagusr_table, cur, p)
    BY <1>7, <1>13, MemTypes DEF Frame, get_frame
  <2>2. mem' = [f \in Frames |->
                  IF \E p \in DataPages : Up(p) = f
                    THEN mem[get_frame(pt, CHOOSE p \in DataPages : Up(p) = f)]
                    ELSE mem[f]]
    BY <1>3 DEF copy_data
  <2> HIDE DEF pt, Up
  <2>3. \A p \in DataPages : g[p] \in Frames
    BY PagesFrames
  <2>4. \A p, q \in DataPages : g[p] = g[q] => p = q
    <3>1. \A p, q \in DataPages : p < q => g[p] < g[q]
      BY DEF alloc_frame
    <3>2. DataPages \subseteq Int /\ \A p \in DataPages : g[p] \in Int
      BY <2>3, MMAssumption DEF DataPages, Frames
    <3> QED
      BY <3>1, <3>2
  <2>5. ASSUME NEW p \in DataPages PROVE mem'[g[p]] = mem[Frame(pagusr_table, cur, p)]
    <3>1. (CHOOSE q \in DataPages : Up(q) = g[p]) = p
      BY <2>1, <2>4
    <3> QED
      BY <2>1, <2>2, <2>3, <3>1
  <2> QED
    BY <2>1, <2>2, <2>5
<1>15. child \in Tasks \ Alive
  BY <1>2, <1>5
<1>16. phys_mem' = MarkUsed(phys_mem, {g[p] : p \in DataPages})
  BY <1>3
<1>17. WITNESS child \in Tasks \ Alive, g \in alloc_frame(phys_mem, DataPages)
<1> QED
  BY <1>5, <1>6, <1>10, <1>12, <1>14, <1>16

\* A fork without frames: the PCB goes back, and its table has the code again.
LEMMA EnomemMemory ==
  ASSUME IInv, MemInv, where[cur] = "user", sys_fork_ENOMEM
  PROVE  /\ freequeue' = freequeue /\ phys_mem' = phys_mem /\ mem' = mem
         /\ \A t \in Alive : pagusr_table'[t] = pagusr_table[t] /\ PID'[t] = PID[t]
         /\ MemInv'
<1> DEFINE child == Head(freequeue)
<1>1. freequeue # <<>> /\ freequeue \in Seq(Tasks)
  BY MemTypes DEF sys_fork_ENOMEM, list_empty
<1>2. child \in Tasks /\ child # cur /\ child # IDLE
  BY <1>1, FreeChild
<1>3. freequeue' = freequeue
  BY <1>1, AddFirst DEF sys_fork_ENOMEM, free_PCB, list_first
<1>4. phys_mem' = phys_mem /\ mem' = mem
  BY MemTypes, TakeAndReturnSame DEF sys_fork_ENOMEM, MemInv
<1>5. child \notin Alive
  BY <1>1, TailRange DEF Alive
<1>6. /\ pagusr_table' = [pagusr_table EXCEPT ![child] = ShareCode(@)]
      /\ PID' = [PID EXCEPT ![child] = PID[cur]]
  BY DEF sys_fork_ENOMEM, list_first
<1> HIDE DEF child
<1>7. /\ pagusr_table \in Tables /\ Alive \subseteq Tasks /\ cur \in Alive
      /\ PID \in [Tasks -> Int]
  BY MemTypes DEF IInv, TypeOK
<1>8. \A t \in Tasks : t # child => pagusr_table'[t] = pagusr_table[t] /\ PID'[t] = PID[t]
  BY <1>6, <1>7 DEF Tables
<1>9. /\ \A p \in CodePages :
           Frame(pagusr_table', INIT, p) = Frame(pagusr_table, INIT, p)
      /\ \A t \in Alive : pagusr_table'[t] = pagusr_table[t] /\ PID'[t] = PID[t]
  <2>1. \A p \in CodePages : Frame(pagusr_table', child, p) = Frame(pagusr_table, cur, p)
    BY <1>2, <1>6, <1>7, PagesFrames
       DEF Tables, Frame, get_frame, ShareCode, set_ss_pag
  <2>2. \A p \in CodePages : Frame(pagusr_table, cur, p) = Frame(pagusr_table, INIT, p)
    BY <1>7 DEF MemInv, Owned, SameCode
  <2>3. INIT # child => pagusr_table'[INIT] = pagusr_table[INIT]
    BY <1>8, IdleInit
  <2> QED
    BY <1>5, <1>7, <1>8, <2>1, <2>2, <2>3 DEF Frame
<1>10. NoTemp(pagusr_table')
  <2>1. TempPages \subseteq UserPages /\ CodePages \cap TempPages = {}
    BY MMAssumption DEF CodePages, TempPages, UserPages
  <2>2. \A p \in TempPages : pagusr_table'[child][p] = pagusr_table[child][p]
    BY <1>2, <1>6, <1>7, <2>1 DEF Tables, ShareCode, set_ss_pag
  <2> QED
    BY <1>2, <1>8, <2>2 DEF MemInv, Owned, NoTemp
<1>11. /\ Alive' = Alive
       /\ \A t \in Alive, p \in DataPages \cup CodePages :
            Frame(pagusr_table', t, p) = Frame(pagusr_table, t, p)
  BY <1>3, <1>9 DEF Alive, Frame
<1>12. MemInv'
  <2>1. Disjoint(Alive, pagusr_table') /\ SameCode(Alive, pagusr_table')
    BY <1>9, <1>11 DEF MemInv, Owned, Disjoint, SameCode
  <2>2. NotCode(Alive, pagusr_table') /\ AboveKernel(Alive, pagusr_table')
    BY <1>9, <1>11 DEF MemInv, Owned, NotCode, AboveKernel
  <2>3. UsedIfNeeded(Alive, pagusr_table', phys_mem)
    BY <1>9, <1>11 DEF MemInv, Owned, UsedIfNeeded, Needed
  <2> QED
    BY <1>4, <1>10, <1>11, <2>1, <2>2, <2>3 DEF MemInv, Owned
<1> QED
  BY <1>3, <1>4, <1>9, <1>12

\* What exit does to memory.
LEMMA ExitMemory ==
  ASSUME IInv, sys_exit
  PROVE  /\ cur \in Alive /\ Alive' = Alive \ {cur}
         /\ phys_mem' = free_frame(phys_mem, {Frame(pagusr_table, cur, p) : p \in DataPages})
         /\ UNCHANGED <<pagusr_table, mem>>
<1>1. where[cur] = "user" /\ freequeue' = Append(freequeue, cur)
  BY DEF sys_exit, update_current_state, list_add_tail
<1>2. cur \in Alive /\ freequeue \in Seq(Tasks) /\ cur \in Tasks
  BY <1>1, MemTypes DEF Alive
<1>3. Range(freequeue') = Range(freequeue) \cup {cur}
  BY <1>1, <1>2, AppendRange
<1> QED
  BY <1>2, <1>3 DEF sys_exit, ExitFrames, Alive, Frame

\* Every step keeps the ownership of frames.
LEMMA NextMem == IInv /\ MemInv /\ [Next]_vars => MemInv'
<1> SUFFICES ASSUME IInv, MemInv, [Next]_vars PROVE MemInv'
  OBVIOUS
<1>1. CASE ProcessesSame
  BY <1>1 DEF ProcessesSame, MemInv, Alive, mmVars
<1>2. CASE where[cur] = "user" /\ sys_fork_ENOMEM
  BY <1>2, EnomemMemory
<1>3. CASE where[cur] = "user" /\ sys_fork_child
  <2>1. PICK child \in Tasks \ Alive, g \in alloc_frame(phys_mem, DataPages) :
          /\ Alive' = Alive \cup {child}
          /\ phys_mem' = MarkUsed(phys_mem, {g[p] : p \in DataPages})
          /\ pagusr_table' \in Tables
          /\ \A t \in Tasks, p \in CodePages \cup DataPages :
               Frame(pagusr_table', t, p) =
                 IF t # child THEN Frame(pagusr_table, t, p)
                 ELSE IF p \in CodePages THEN Frame(pagusr_table, cur, p) ELSE g[p]
          /\ NoTemp(pagusr_table) => NoTemp(pagusr_table')
    BY <1>3, ForkMemory
  <2>2. /\ Alive \subseteq Tasks /\ pagusr_table \in Tables /\ phys_mem \in FrameMap
        /\ cur \in Alive /\ NoTemp(pagusr_table')
    BY <1>3, <2>1, MemTypes DEF MemInv, Owned
  <2>3. Owned(Alive, pagusr_table, phys_mem)
    BY DEF MemInv
  <2> DEFINE pu == pagusr_table'
  <2>4. pu \in Tables /\ NoTemp(pu)
        /\ \A t \in Tasks, p \in CodePages \cup DataPages :
             Frame(pu, t, p) = IF t # child THEN Frame(pagusr_table, t, p)
                               ELSE IF p \in CodePages
                                      THEN Frame(pagusr_table, cur, p) ELSE g[p]
    BY <2>1, <2>2
  <2> HIDE DEF pu
  <2>5. Owned(Alive \cup {child}, pu, MarkUsed(phys_mem, {g[p] : p \in DataPages}))
    BY <2>2, <2>3, <2>4, ForkOwned
  <2> QED
    BY <2>1, <2>5, Zenon DEF MemInv, pu
<1>4. CASE sys_exit
  <2>1. /\ cur \in Alive /\ Alive' = Alive \ {cur}
        /\ phys_mem' = free_frame(phys_mem, {Frame(pagusr_table, cur, p) : p \in DataPages})
        /\ pagusr_table' = pagusr_table
    BY <1>4, ExitMemory
  <2>2. Owned(Alive \ {cur}, pagusr_table,
              free_frame(phys_mem, {Frame(pagusr_table, cur, p) : p \in DataPages}))
    BY <2>1, ExitOwned, MemTypes DEF MemInv
  <2> QED
    BY <2>1, <2>2, Zenon DEF MemInv
<1>5. CASE \E p \in UserPages, v \in Values : user_store(p, v)
  BY <1>5 DEF MemInv, Alive, user_store, queueVars
<1> QED
  BY <1>1, <1>2, <1>3, <1>4, <1>5, ProcessSteps

\* The invariants of processes and memory together.
LEMMA SpecMem == Spec => [](IInv /\ MemInv)
<1>1. Init => IInv /\ MemInv
  BY InitIInv, InitMem
<1>2. IInv /\ MemInv /\ [Next]_vars => (IInv /\ MemInv)'
  BY NextIInv, NextMem
<1> QED
  BY <1>1, <1>2, PTL DEF Spec

\* Whatever forks and exits in whatever order, and also when frames run out, the
\* frames in use are the kernel's, the code and the data of the living
\* processes, each with one owner.
THEOREM FramesCorrect == Spec => []FrameOwnership
BY MemInvOwnership, SpecMem, PTL

-----------------------------------------------------------------------------
(***************************************************************************)
(* Frames suffice: counting the frames in use, which are known from their  *)
(* owners.                                                                 *)
(***************************************************************************)
\* A nonempty set of numbers has a least one.
LEMMA LeastElement ==
  ASSUME NEW S, S \subseteq Nat, S # {}
  PROVE  \E m \in S : \A n \in S : m <= n
<1>1. PICK R : R = OpToRel(<, Nat)
  OBVIOUS
<1>2. PICK m \in S : \A n \in S : ~(<<n, m>> \in R)
  <2>1. IsWellFoundedOn(R, Nat)
    BY <1>1, NatLessThanWellFounded
  <2> QED
    BY <2>1, WFMin
<1>3. \A n \in S : n < m => <<n, m>> \in R
  BY <1>1 DEF OpToRel
<1>4. ASSUME NEW n \in S PROVE m <= n
  <2>1. n \in Nat /\ m \in Nat /\ ~(n < m)
    BY <1>2, <1>3
  <2> QED
    BY <2>1
<1> QED
  BY <1>4

\* A function has no more values than arguments.
LEMMA ImageCardinality ==
  ASSUME NEW S, IsFiniteSet(S), NEW f, f = [x \in S |-> f[x]]
  PROVE  LET T == {f[x] : x \in S}
         IN  IsFiniteSet(T) /\ Cardinality(T) <= Cardinality(S)
<1> DEFINE T == {f[x] : x \in S}
<1>1. f \in Surjection(S, T)
  BY DEF Surjection
<1> HIDE DEF T
<1>2. IsFiniteSet(T) /\ Cardinality(T) <= Cardinality(S)
  BY <1>1, FS_Surjection
<1> QED
  BY <1>2 DEF T

\* The lowest frames of A, in order.
Lowest(A, P, g) ==
  /\ g \in [P -> A]
  /\ \A p, q \in P : p < q => g[p] < g[q]
  /\ \A f \in A : \A p \in P : f < g[p] => \E q \in P : g[q] = f

\* The next frame of A, after those of n pages.
LEMMA NextLowest ==
  ASSUME NEW A, A \subseteq Nat, IsFiniteSet(A), NEW b \in Int, NEW n \in Nat,
         n < Cardinality(A), NEW g, Lowest(A, b .. b + (n - 1), g)
  PROVE  \E h : Lowest(A, b .. b + n, h)
<1> DEFINE P == b .. b + (n - 1)
           V == {g[p] : p \in P}
<1>1. IsFiniteSet(P) /\ Cardinality(P) = n
  <2>1. b + (n - 1) \in Int
    OBVIOUS
  <2>2. /\ IsFiniteSet(b .. b + (n - 1))
        /\ Cardinality(b .. b + (n - 1)) =
             IF b > b + (n - 1) THEN 0 ELSE (b + (n - 1)) - b + 1
    BY <2>1, FS_Interval
  <2> QED
    BY <2>2
<1>2. /\ g \in [P -> A] /\ \A p, q \in P : p < q => g[p] < g[q]
      /\ \A f \in A : \A p \in P : f < g[p] => \E q \in P : g[q] = f
  BY DEF Lowest
<1>3. IsFiniteSet(V) /\ Cardinality(V) <= n
  <2>1. g = [p \in P |-> g[p]]
    BY <1>2
  <2> HIDE DEF P
  <2> QED
    BY <1>1, <2>1, ImageCardinality
<1>4. V \subseteq A /\ A \ V # {}
  <2>1. V \subseteq A
    BY <1>2
  <2>2. CASE A = V
    <3>1. Cardinality(A) <= n
      BY <1>3, <2>2, Zenon
    <3> QED
      BY <3>1, FS_CardinalityType
  <2> QED
    BY <2>1, <2>2
<1>5. PICK e \in A \ V : \A f \in A \ V : e <= f
  BY <1>4, LeastElement
<1> DEFINE h == [p \in b .. b + n |-> IF p = b + n THEN e ELSE g[p]]
<1>6. \A p \in b .. b + n : p # b + n => p \in P
  OBVIOUS
<1>7. \A p \in P : g[p] < e /\ p \in b .. b + n /\ p # b + n
  <2> SUFFICES ASSUME NEW p \in P PROVE g[p] < e /\ p \in b .. b + n /\ p # b + n
    OBVIOUS
  <2>1. g[p] \in Nat /\ e \in Nat /\ g[p] # e /\ ~(e < g[p])
    BY <1>2, <1>5
  <2>2. p \in b .. b + n /\ p # b + n
    OBVIOUS
  <2> QED
    BY <2>1, <2>2
<1>8. h \in [b .. b + n -> A]
  BY <1>2, <1>5, <1>6
<1>9. ASSUME NEW p \in b .. b + n, NEW q \in b .. b + n, p < q PROVE h[p] < h[q]
  <2>1. p \in P
    BY <1>9
  <2>2. h[p] = g[p]
    BY <1>7, <2>1
  <2>3. CASE q = b + n
    BY <1>7, <2>1, <2>2, <2>3
  <2>4. CASE q # b + n
    BY <1>2, <1>6, <1>9, <2>1, <2>2, <2>4
  <2> QED
    BY <2>3, <2>4
<1>10. ASSUME NEW f \in A, NEW p \in b .. b + n, f < h[p]
       PROVE  \E q \in b .. b + n : h[q] = f
  <2>1. CASE f \in V
    <3>1. PICK q \in P : g[q] = f
      BY <2>1
    <3>2. q \in b .. b + n /\ h[q] = f
      BY <1>7, <3>1
    <3> QED
      BY <3>2
  <2>2. CASE f \notin V
    <3>1. e <= f /\ e \in Nat /\ f \in Nat
      BY <1>5, <2>2
    <3>2. h[p] = e \/ \E q \in P : h[p] = g[q]
      BY <1>6
    <3>3. h[p] \in Nat
      BY <1>8
    <3>4. h[p] = e \/ h[p] < e
      BY <1>7, <3>2
    <3> QED
      BY <1>10, <3>1, <3>3, <3>4
  <2> QED
    BY <2>1, <2>2
<1> HIDE DEF h
<1>11. Lowest(A, b .. b + n, h)
  BY <1>8, <1>9, <1>10 DEF Lowest
<1> QED
  BY <1>11

\* There is an allocation for d pages when there are d frames.
LEMMA LowestExists ==
  ASSUME NEW A, A \subseteq Nat, IsFiniteSet(A), NEW b \in Int, NEW d \in Nat,
         d <= Cardinality(A)
  PROVE  \E g : Lowest(A, b .. b + (d - 1), g)
<1> DEFINE Bad == {n \in 0 .. d : ~ \E g : Lowest(A, b .. b + (n - 1), g)}
<1>1. SUFFICES ASSUME Bad # {} PROVE FALSE
  OBVIOUS
<1>2. PICK m \in Bad : \A n \in Bad : m <= n
  <2>1. Bad \subseteq Nat
    OBVIOUS
  <2> HIDE DEF Bad
  <2> QED
    BY <1>1, <2>1, LeastElement
<1>3. m \in 0 .. d /\ ~ \E g : Lowest(A, b .. b + (m - 1), g)
  BY <1>2
<1>4. m # 0
  <2>1. SUFFICES ASSUME m = 0 PROVE \E g : Lowest(A, b .. b + (m - 1), g)
    BY <1>3
  <2>2. b .. b + (m - 1) = {}
    BY <2>1
  <2>3. Lowest(A, {}, [p \in {} |-> p])
    BY DEF Lowest
  <2> QED
    BY <2>2, <2>3, Zenon
<1>5. PICK n \in Nat : n = m - 1 /\ n \in 0 .. d /\ n < d
  BY <1>3, <1>4
<1>6. n \notin Bad
  <2>1. ~(m <= n)
    BY <1>3, <1>5
  <2> QED
    BY <1>2, <2>1, Zenon
<1>7. PICK g : Lowest(A, b .. b + (n - 1), g)
  BY <1>5, <1>6
<1>8. n < Cardinality(A)
  BY <1>5, FS_CardinalityType
<1>9. \E h : Lowest(A, b .. b + n, h)
  BY <1>7, <1>8, NextLowest
<1> QED
  BY <1>3, <1>5, <1>9

\* Frames that alloc_frame looks at, free or not.
Slots == {f \in NUM_PAG_KERNEL .. TOTAL_PAGES - 1 : (f - NUM_PAG_KERNEL) % 2 = 0}

\* Memory has frames for the code and for the data of all processes, two frame
\* numbers apart (in ZeOS 256 + 2 * (8 + 9 * 20) = 632 of 1024).
EnoughFrames ==
  NUM_PAG_KERNEL + 2 * (NUM_PAG_CODE + (NR_TASKS - 1) * NUM_PAG_DATA) <= TOTAL_PAGES

\* So many frames alloc_frame looks at.
LEMMA SlotsEnough ==
  ASSUME EnoughFrames
  PROVE  /\ IsFiniteSet(Slots)
         /\ NUM_PAG_CODE + (NR_TASKS - 1) * NUM_PAG_DATA <= Cardinality(Slots)
<1>1. PICK N \in Nat : /\ N = NUM_PAG_CODE + (NR_TASKS - 1) * NUM_PAG_DATA
                       /\ NUM_PAG_KERNEL + 2 * N <= TOTAL_PAGES
  BY MMAssumption, KernelAssumption DEF EnoughFrames
<1>2. IsFiniteSet(Slots)
  <2>1. IsFiniteSet(NUM_PAG_KERNEL .. TOTAL_PAGES - 1)
    BY FS_Interval, MMAssumption
  <2> QED
    BY <2>1, FS_Subset DEF Slots
<1>3. ASSUME NEW i \in 1 .. N PROVE NUM_PAG_KERNEL + 2 * (i - 1) \in Slots
  <2>1. PICK f \in NUM_PAG_KERNEL .. TOTAL_PAGES - 1 : f = NUM_PAG_KERNEL + 2 * (i - 1)
    BY <1>1, MMAssumption
  <2>2. (f - NUM_PAG_KERNEL) % 2 = 0
    BY <2>1, MMAssumption
  <2> QED
    BY <2>1, <2>2 DEF Slots
<1> DEFINE h == [i \in 1 .. N |-> NUM_PAG_KERNEL + 2 * (i - 1)]
<1>4. h \in Injection(1 .. N, Slots)
  <2>1. h \in [1 .. N -> Slots]
    BY <1>3
  <2>2. \A i, j \in 1 .. N : h[i] = h[j] => i = j
    BY MMAssumption
  <2> HIDE DEF h
  <2> QED
    BY <2>1, <2>2 DEF Injection, IsInjective
<1> HIDE DEF h
<1>5. Cardinality(1 .. N) <= Cardinality(Slots)
  BY <1>2, <1>4, FS_Injection
<1>6. Cardinality(1 .. N) = N
  BY FS_Interval
<1> QED
  BY <1>1, <1>2, <1>5, <1>6

\* The frames that are used and that alloc_frame looks at are those of the code
\* and of the data of the living processes.
LEMMA UsedFew ==
  ASSUME NEW al, al \subseteq Tasks, NEW pt \in Tables, NEW pm \in FrameMap, Owned(al, pt, pm)
  PROVE  LET U == {f \in Slots : pm[f] = USED_FRAME}
         IN  /\ IsFiniteSet(U) /\ Cardinality(U) \in Nat /\ Cardinality(al) \in Nat
             /\ Cardinality(U) <= NUM_PAG_CODE + Cardinality(al) * NUM_PAG_DATA
<1> DEFINE U  == {f \in Slots : pm[f] = USED_FRAME}
           d  == [x \in al \X DataPages |-> Frame(pt, x[1], x[2])]
           c  == [q \in CodePages |-> Frame(pt, INIT, q)]
           DF == {d[x] : x \in al \X DataPages}
           CF == {c[q] : q \in CodePages}
<1>1. IsFiniteSet(al) /\ Cardinality(al) \in Nat
  <2>1. IsFiniteSet(Tasks)
    BY FS_Interval, KernelAssumption DEF Tasks
  <2> QED
    BY <2>1, FS_Subset, FS_CardinalityType
<1>2. IsFiniteSet(CodePages) /\ Cardinality(CodePages) = NUM_PAG_CODE
  BY FS_Interval, MMAssumption DEF CodePages
<1>3. IsFiniteSet(DataPages) /\ Cardinality(DataPages) = NUM_PAG_DATA
  BY FS_Interval, MMAssumption DEF DataPages
<1>4. /\ IsFiniteSet(al \X DataPages)
      /\ Cardinality(al \X DataPages) = Cardinality(al) * NUM_PAG_DATA
  BY <1>1, <1>3, FS_Product
<1>5. IsFiniteSet(DF) /\ Cardinality(DF) <= Cardinality(al) * NUM_PAG_DATA
  <2>1. d = [x \in al \X DataPages |-> d[x]]
    OBVIOUS
  <2> HIDE DEF d
  <2> QED
    BY <1>4, <2>1, ImageCardinality
<1>6. IsFiniteSet(CF) /\ Cardinality(CF) <= NUM_PAG_CODE
  <2>1. c = [q \in CodePages |-> c[q]]
    OBVIOUS
  <2> HIDE DEF c
  <2> QED
    BY <1>2, <2>1, ImageCardinality
<1>7. U \subseteq CF \cup DF
  <2> SUFFICES ASSUME NEW f \in U PROVE f \in CF \cup DF
    OBVIOUS
  <2>1. f \in Frames /\ pm[f] = USED_FRAME /\ ~(f < NUM_PAG_KERNEL)
    BY MMAssumption DEF Slots, Frames
  <2>2. \/ \E q \in CodePages : f = Frame(pt, INIT, q)
        \/ \E t \in al, p \in DataPages : f = Frame(pt, t, p)
    BY <2>1, Zenon DEF Owned, UsedIfNeeded, Needed
  <2>3. CASE \E q \in CodePages : f = Frame(pt, INIT, q)
    BY <2>3
  <2>4. CASE \E t \in al, p \in DataPages : f = Frame(pt, t, p)
    <3>1. PICK t \in al, p \in DataPages : f = Frame(pt, t, p)
      BY <2>4
    <3>2. <<t, p>> \in al \X DataPages /\ d[<<t, p>>] = f
      BY <3>1
    <3> QED
      BY <3>2
  <2> QED
    BY <2>2, <2>3, <2>4
<1> HIDE DEF U, DF, CF
<1>8. /\ IsFiniteSet(CF \cup DF)
      /\ Cardinality(CF \cup DF) <= NUM_PAG_CODE + Cardinality(al) * NUM_PAG_DATA
  <2>1. /\ IsFiniteSet(CF \cup DF)
        /\ Cardinality(CF \cup DF) = Cardinality(CF) + Cardinality(DF) - Cardinality(CF \cap DF)
    BY <1>5, <1>6, FS_Union
  <2>2. /\ Cardinality(CF) \in Nat /\ Cardinality(DF) \in Nat /\ Cardinality(CF \cap DF) \in Nat
        /\ Cardinality(al) * NUM_PAG_DATA \in Nat
    <3>1. IsFiniteSet(CF \cap DF)
      BY <1>5, FS_Intersection
    <3>2. Cardinality(al) * NUM_PAG_DATA \in Nat
      BY <1>1, MMAssumption
    <3> QED
      BY <1>5, <1>6, <3>1, <3>2, FS_CardinalityType
  <2> QED
    BY <1>5, <1>6, <2>1, <2>2, MMAssumption
<1>9. IsFiniteSet(U) /\ Cardinality(U) <= Cardinality(CF \cup DF)
  BY <1>7, <1>8, FS_Subset
<1>10. Cardinality(U) \in Nat /\ Cardinality(CF \cup DF) \in Nat
  BY <1>8, <1>9, FS_CardinalityType
<1>11. Cardinality(U) <= NUM_PAG_CODE + Cardinality(al) * NUM_PAG_DATA
  <2>1. PICK X \in Nat : X = Cardinality(al) * NUM_PAG_DATA
    BY <1>1, MMAssumption
  <2> QED
    BY <1>8, <1>9, <1>10, <2>1, MMAssumption
<1> QED
  BY <1>1, <1>9, <1>10, <1>11 DEF U

\* A free PCB is neither idle nor alive.
LEMMA FewAlive ==
  ASSUME IInv, freequeue # <<>>
  PROVE  Cardinality(Alive) \in Nat /\ Cardinality(Alive) <= NR_TASKS - 2
<1>1. freequeue \in Seq(Tasks) /\ IDLE \notin Range(freequeue) /\ IDLE \in Tasks
  BY IdleInit DEF IInv, TypeOK, QueueIntegrity, Linked
<1>2. PICK t \in Tasks : t \in Range(freequeue) /\ t # IDLE
  <2>1. freequeue[1] \in Range(freequeue) /\ freequeue[1] \in Tasks
    BY <1>1 DEF Range
  <2> QED
    BY <1>1, <2>1
<1>3. IsFiniteSet(Tasks) /\ Cardinality(Tasks) = NR_TASKS
  BY FS_Interval, KernelAssumption DEF Tasks
<1>4. IsFiniteSet(Tasks \ {IDLE}) /\ Cardinality(Tasks \ {IDLE}) = NR_TASKS - 1
  BY <1>1, <1>3, FS_RemoveElement
<1>5. /\ IsFiniteSet((Tasks \ {IDLE}) \ {t})
      /\ Cardinality((Tasks \ {IDLE}) \ {t}) = (NR_TASKS - 1) - 1
  BY <1>2, <1>4, FS_RemoveElement
<1>6. Alive \subseteq (Tasks \ {IDLE}) \ {t}
  BY <1>2 DEF Alive
<1>7. IsFiniteSet(Alive) /\ Cardinality(Alive) <= (NR_TASKS - 1) - 1
  BY <1>5, <1>6, FS_Subset
<1>8. Cardinality(Alive) \in Nat
  BY <1>7, FS_CardinalityType
<1> QED
  BY <1>7, <1>8, KernelAssumption

\* With memory for all processes there are frames for the child of a fork that
\* gets a PCB.
LEMMA FreeFrames ==
  ASSUME EnoughFrames, IInv, MemInv, freequeue # <<>>
  PROVE  alloc_frame(phys_mem, DataPages) # {}
<1> DEFINE U == {f \in Slots : phys_mem[f] = USED_FRAME}
           A == Allocatable(phys_mem)
<1>1. /\ Alive \subseteq Tasks /\ pagusr_table \in Tables /\ phys_mem \in FrameMap
      /\ Owned(Alive, pagusr_table, phys_mem)
  BY MemTypes DEF MemInv
<1>2. /\ IsFiniteSet(U) /\ Cardinality(U) \in Nat /\ Cardinality(Alive) \in Nat
      /\ Cardinality(U) <= NUM_PAG_CODE + Cardinality(Alive) * NUM_PAG_DATA
  BY <1>1, UsedFew
<1>3. /\ IsFiniteSet(Slots) /\ Cardinality(Slots) \in Nat
      /\ NUM_PAG_CODE + (NR_TASKS - 1) * NUM_PAG_DATA <= Cardinality(Slots)
  BY SlotsEnough, FS_CardinalityType
<1>4. A = Slots \ U /\ U \subseteq Slots /\ A \subseteq Nat
  <2>1. \A f \in Slots : f \in Frames /\ f \in Nat
    BY MMAssumption DEF Slots, Frames
  <2>2. \A f \in Frames : phys_mem[f] = FREE_FRAME <=> phys_mem[f] # USED_FRAME
    BY <1>1 DEF FrameMap, FREE_FRAME, USED_FRAME
  <2>3. A = {f \in Slots : phys_mem[f] = FREE_FRAME}
    BY DEF Allocatable, Slots
  <2> QED
    BY <2>1, <2>2, <2>3
<1> HIDE DEF U, A
<1>5. IsFiniteSet(A) /\ Cardinality(A) = Cardinality(Slots) - Cardinality(U)
  <2>1. /\ IsFiniteSet(Slots \ U)
        /\ Cardinality(Slots \ U) = Cardinality(Slots) - Cardinality(Slots \cap U)
    BY <1>3, FS_Difference
  <2>2. Slots \cap U = U
    BY <1>4
  <2> QED
    BY <1>4, <2>1, <2>2, Zenon
<1>6. Cardinality(Alive) * NUM_PAG_DATA <= (NR_TASKS - 2) * NUM_PAG_DATA
  <2>1. PICK a \in Nat : a = Cardinality(Alive) /\ a <= NR_TASKS - 2
    BY FewAlive
  <2>2. a * NUM_PAG_DATA <= (NR_TASKS - 2) * NUM_PAG_DATA
    BY <2>1, MMAssumption, KernelAssumption
  <2> QED
    BY <2>1, <2>2
<1>7. (NR_TASKS - 1) * NUM_PAG_DATA = (NR_TASKS - 2) * NUM_PAG_DATA + NUM_PAG_DATA
  BY MMAssumption, KernelAssumption
<1>8. NUM_PAG_DATA <= Cardinality(A)
  <2>1. PICK X \in Int, Y \in Int : /\ X = (NR_TASKS - 2) * NUM_PAG_DATA
                                    /\ Y = Cardinality(Alive) * NUM_PAG_DATA
    BY <1>2, MMAssumption, KernelAssumption
  <2> QED
    BY <1>2, <1>3, <1>5, <1>6, <1>7, <2>1, MMAssumption
<1>9. PICK g : Lowest(A, DataPages, g)
  <2>1. PICK b \in Int, n \in Nat : b = NUM_PAG_KERNEL + NUM_PAG_CODE /\ n = NUM_PAG_DATA
    BY MMAssumption
  <2>2. DataPages = b .. b + (n - 1)
    BY <2>1, MMAssumption DEF DataPages
  <2>3. \E g : Lowest(A, b .. b + (n - 1), g)
    BY <1>4, <1>5, <1>8, <2>1, LowestExists
  <2> QED
    BY <2>2, <2>3, Zenon
<1>10. g \in alloc_frame(phys_mem, DataPages)
  BY <1>9, Zenon DEF Lowest, alloc_frame, A
<1> QED
  BY <1>10

\* In a memory for all processes fork never fails for want of frames: whenever
\* there is a free PCB there are frames for the data of the child.
THEOREM FramesAlwaysSuffice ==
  ASSUME EnoughFrames
  PROVE  Spec => []FramesSuffice
<1>1. IInv /\ MemInv => FramesSuffice
  BY FreeFrames DEF FramesSuffice
<1> QED
  BY <1>1, SpecMem, PTL

\* In such a memory a free PCB never has a PID.
THEOREM DeadAlways ==
  ASSUME EnoughFrames
  PROVE  Spec => []DeadTasksHaveNoPID
BY FramesAlwaysSuffice, DeadCorrect, PTL

\* In such a memory sys_get_stats finds every living process by its PID.
THEOREM LookupAlways ==
  ASSUME EnoughFrames
  PROVE  Spec => []LookupFindsLive
BY FramesAlwaysSuffice, LookupCorrect, PTL

-----------------------------------------------------------------------------
(***************************************************************************)
(* Processes do not see each other's data.                                 *)
(***************************************************************************)
Isolated ==
  /\ \A t \in Alive \ {Running}, p \in DataPages :
       (t \in Alive)' => DataOf(t, p)' = DataOf(t, p)
  /\ \A t \in Tasks \ Alive, p \in DataPages :
       (t \in Alive)' => DataOf(t, p)' = DataOf(Running, p)

\* A store of user code reaches the writer's data or the code, never the data
\* of another process.
LEMMA StoreIsolated ==
  ASSUME IInv, MemInv, NEW x \in UserPages, NEW v \in Values, user_store(x, v)
  PROVE  Isolated
<1>1. /\ where[cur] = "user" /\ pagusr_table[cr3][x].rw
      /\ mem' = [mem EXCEPT ![get_frame(pagusr_table[cr3], x)] = v]
      /\ pagusr_table' = pagusr_table /\ Alive' = Alive
  BY DEF user_store, queueVars, Alive
<1>2. cur \in Alive /\ Running = cur /\ cr3 = cur /\ Alive \subseteq Tasks
      /\ mem \in [Frames -> Values] /\ pagusr_table \in Tables
  BY <1>1, MemTypes
<1>3. x \in CodePages \cup DataPages
  <2>1. x \notin TempPages
    BY <1>1, <1>2 DEF MemInv, Owned, NoTemp, NoEntry
  <2> QED
    BY <2>1 DEF UserPages
<1>4. ASSUME NEW t \in Alive \ {cur}, NEW p \in DataPages
      PROVE  DataOf(t, p)' = DataOf(t, p)
  <2>1. Frame(pagusr_table, t, p) # Frame(pagusr_table, cur, x)
    <3>1. CASE x \in DataPages
      BY <1>2, <3>1 DEF MemInv, Owned, Disjoint
    <3>2. CASE x \in CodePages
      BY <1>2, <3>2 DEF MemInv, Owned, NotCode, SameCode
    <3> QED
      BY <1>3, <3>1, <3>2
  <2>2. Frame(pagusr_table, t, p) \in Frames
    BY <1>2, FrameType
  <2> QED
    BY <1>1, <1>2, <2>1, <2>2 DEF DataOf, Frame
<1> QED
  BY <1>1, <1>2, <1>4 DEF Isolated

\* fork writes frames that belonged to nobody, and copies page by page.
LEMMA ForkData ==
  ASSUME IInv, MemInv, where[cur] = "user", sys_fork_child
  PROVE  /\ \A t \in Alive, p \in DataPages : DataOf(t, p)' = DataOf(t, p)
         /\ \A t \in Tasks \ Alive, p \in DataPages :
              (t \in Alive)' => DataOf(t, p)' = DataOf(Running, p)
<1>1. PICK child \in Tasks \ Alive, g \in alloc_frame(phys_mem, DataPages) :
        /\ Alive' = Alive \cup {child}
        /\ \A t \in Tasks, p \in CodePages \cup DataPages :
             Frame(pagusr_table', t, p) =
               IF t # child THEN Frame(pagusr_table, t, p)
               ELSE IF p \in CodePages THEN Frame(pagusr_table, cur, p) ELSE g[p]
        /\ \A f \in Frames : (\A p \in DataPages : g[p] # f) => mem'[f] = mem[f]
        /\ \A p \in DataPages : mem'[g[p]] = mem[Frame(pagusr_table, cur, p)]
  BY ForkMemory
<1>2. cur \in Alive /\ Running = cur /\ cr3 = cur /\ Alive \subseteq Tasks
      /\ mem \in [Frames -> Values] /\ pagusr_table \in Tables
  BY MemTypes
<1>3. /\ \A p \in DataPages : g[p] \in Frames
      /\ \A p, q \in DataPages : g[p] = g[q] => p = q
      /\ \A p \in DataPages, t \in Alive, q \in DataPages :
           g[p] # Frame(pagusr_table, t, q)
  BY AllocFresh DEF MemInv
<1>4. CodePages \cap DataPages = {}
  BY MMAssumption DEF CodePages, DataPages
<1>5. ASSUME NEW t \in Alive, NEW p \in DataPages PROVE DataOf(t, p)' = DataOf(t, p)
  <2> DEFINE f == Frame(pagusr_table, t, p)
  <2>1. f \in Frames /\ ~\E q \in DataPages : g[q] = f
    BY <1>2, <1>3, FrameType
  <2>2. mem'[f] = mem[f]
    BY <1>1, <2>1
  <2>3. Frame(pagusr_table', t, p) = f
    BY <1>1, <1>2
  <2> QED
    BY <2>2, <2>3 DEF DataOf, Frame
<1>6. ASSUME NEW p \in DataPages PROVE DataOf(child, p)' = DataOf(cur, p)
  <2>2. mem'[g[p]] = mem[Frame(pagusr_table, cur, p)]
    BY <1>1
  <2>3. Frame(pagusr_table', child, p) = g[p]
    BY <1>1, <1>4
  <2> QED
    BY <1>2, <2>2, <2>3 DEF DataOf, Frame
<1> QED
  BY <1>1, <1>2, <1>5, <1>6

\* No step lets one process see another's data.
LEMMA NextIsolated == IInv /\ MemInv /\ [Next]_vars => Isolated
<1> SUFFICES ASSUME IInv, MemInv, [Next]_vars PROVE Isolated
  OBVIOUS
<1>1. CASE ProcessesSame
  <2>1. Alive' = Alive /\ pagusr_table' = pagusr_table /\ mem' = mem
    BY <1>1 DEF ProcessesSame, Alive, mmVars
  <2> QED
    BY <2>1 DEF Isolated, DataOf
<1>2. CASE where[cur] = "user" /\ sys_fork_ENOMEM
  <2>1. /\ Alive' = Alive /\ mem' = mem
        /\ \A t \in Alive : pagusr_table'[t] = pagusr_table[t]
    BY <1>2, EnomemMemory DEF Alive
  <2> QED
    BY <2>1 DEF Isolated, DataOf
<1>3. CASE where[cur] = "user" /\ sys_fork_child
  BY <1>3, ForkData DEF Isolated
<1>4. CASE sys_exit
  <2>1. Alive' = Alive \ {cur} /\ pagusr_table' = pagusr_table /\ mem' = mem
    BY <1>4, ExitMemory
  <2> QED
    BY <2>1 DEF Isolated, DataOf
<1>5. CASE \E p \in UserPages, v \in Values : user_store(p, v)
  BY <1>5, StoreIsolated
<1> QED
  BY <1>1, <1>2, <1>3, <1>4, <1>5, ProcessSteps

\* No step of the kernel or of another process changes the data of a process,
\* and fork gives a child the data of its parent, for any sizes of memory and
\* any number of processes.
THEOREM IsolationCorrect == Spec => Isolation
<1>1. IInv /\ MemInv /\ [Next]_vars => [Isolated]_vars
  BY NextIsolated
<1> QED
  BY <1>1, SpecMem, PTL DEF Spec, Isolation, Isolated

-----------------------------------------------------------------------------
(***************************************************************************)
(* A system call that fails leaves no trace.                               *)
(***************************************************************************)
Failed == \E t \in Tasks : eax'[t] < 0 /\ eax'[t] # eax[t]
Undone ==
  /\ UNCHANGED <<cpuVars, where, queueVars, ioVars, CPU_QUANTUM, PID_MAX,
                 phys_mem, mem>>
  /\ \A u \in Alive : UNCHANGED <<PID[u], pagusr_table[u]>>

\* A system call that does not return an error is not a failure.
LEMMA Succeeds ==
  ASSUME TypeOK, NEW r \in Int, r >= 0, Return(r)
  PROVE  ~Failed
BY DEF TypeOK, Return, Failed

\* The ways in which fork fails.
LEMMA ForkUndone == IInv /\ MemInv /\ sys_fork => (Failed => Undone)
<1> SUFFICES ASSUME IInv, MemInv, sys_fork, Failed PROVE Undone
  OBVIOUS
<1>1. where[cur] = "user"
  BY DEF sys_fork
<1>2. CASE sys_fork_EAGAIN
  BY <1>2 DEF sys_fork_EAGAIN, Undone, mmVars
<1>3. CASE sys_fork_ENOMEM
  <2>1. /\ freequeue' = freequeue /\ phys_mem' = phys_mem /\ mem' = mem
        /\ \A t \in Alive : pagusr_table'[t] = pagusr_table[t] /\ PID'[t] = PID[t]
    BY <1>1, <1>3, EnomemMemory
  <2> QED
    BY <1>3, <2>1 DEF sys_fork_ENOMEM, Undone, queueVars
<1>4. CASE sys_fork_child
  <2>1. NewPID \in Int /\ NewPID >= 0 /\ Return(NewPID) /\ TypeOK
    BY <1>4 DEF IInv, TypeOK, NewPID, sys_fork_child
  <2> QED
    BY <2>1, Succeeds
<1> QED
  BY <1>2, <1>3, <1>4 DEF sys_fork

\* The ways in which read fails: it blocks only when it succeeds.
LEMMA ReadUndone ==
  ASSUME IInv, NEW fd, NEW n \in ReadTicks, sys_read(fd, n), Failed
  PROVE  Undone
<1>1. ASSUME NEW r, sys_read_error(r) PROVE Undone
  BY <1>1 DEF sys_read_error, Undone, mmVars
<1>2. ASSUME n >= 0, Return(n) PROVE FALSE
  BY <1>2, Succeeds, KernelAssumption DEF IInv
<1> QED
  BY <1>1, <1>2 DEF sys_read, zeos_read_console_emul

\* The failures of all steps.
LEMMA NextUndone == IInv /\ MemInv /\ [Next]_vars => (Failed => Undone)
<1> SUFFICES ASSUME IInv, MemInv, [Next]_vars, Failed PROVE Undone
  OBVIOUS
<1>1. ~UNCHANGED eax
  BY DEF Failed
<1>2. ~UNCHANGED vars /\ ~return_gate /\ ~clock_routine /\ ~clock_sched
  BY <1>1 DEF vars, return_gate, clock_routine, clock_sched
<1>3. ~clock_exit /\ ~sys_exit /\ ~read_return
  BY <1>1 DEF clock_exit, sys_exit, read_return
<1>4. ~\E p \in UserPages, v \in Values : user_store(p, v)
  BY <1>1 DEF user_store
<1>5. ~ret_from_fork
  BY Succeeds DEF ret_from_fork, IInv
<1>6. ASSUME NEW p \in Policies, sys_set_sched_policy(p) PROVE Undone
  BY <1>6 DEF sys_set_sched_policy, Undone, mmVars
<1> QED
  BY <1>2, <1>3, <1>4, <1>5, <1>6, ForkUndone, ReadUndone DEF Next

\* A system call that returns an error changes nothing but its result: the fork
\* that runs out of frames after it has taken some, in particular, puts back
\* every frame and the PCB.
THEOREM FailuresUndone == Spec => FailedCallsUndone
<1>1. IInv /\ MemInv /\ [Next]_vars => [Failed => Undone]_vars
  BY NextUndone
<1> QED
  BY <1>1, SpecMem, PTL DEF Spec, FailedCallsUndone, Failed, Undone
-----------------------------------------------------------------------------
(***************************************************************************)
(* ZeosKernel implements ZeosProcess, for any number of tasks, frames and  *)
(* pages: every step of the kernel is, to user programs, one of the steps  *)
(* of ZeosProcess or no step at all.                                       *)
(***************************************************************************)
KInv == IInv /\ PidsUnique /\ MemInv

\* A process as user programs see it.
View(t) == [st |-> StatusOf(t), data |-> [p \in DataPages |-> DataOf(t, p)]]

\* A table f gives process t of al, known as pid[t], the view v[t].
Shows(f, al, pid, v) ==
  /\ f = [x \in {pid[t] : t \in al} |-> f[x]]
  /\ \A t \in al : f[pid[t]] = v[t]

\* Tables that show the same processes alike are the same.
LEMMA ShowsUnique ==
  ASSUME NEW al, NEW pid, NEW v, NEW f, NEW g, Shows(f, al, pid, v), Shows(g, al, pid, v)
  PROVE  f = g
<1>1. \A x \in {pid[t] : t \in al} : f[x] = g[x]
  BY DEF Shows
<1> QED
  BY <1>1 DEF Shows

\* A table in which process b alone has moved to status s.
LEMMA MoveShows ==
  ASSUME NEW al, NEW pid, NEW v, NEW f, Shows(f, al, pid, v),
         \A t, u \in al : pid[t] = pid[u] => t = u,
         NEW b \in al, NEW s, NEW old, NEW d, v[b] = [st |-> old, data |-> d]
  PROVE  Shows([f EXCEPT ![pid[b]].st = s], al, pid,
               [t \in al |-> IF t = b THEN [st |-> s, data |-> d] ELSE v[t]])
<1> DEFINE g == [f EXCEPT ![pid[b]].st = s]
           w == [t \in al |-> IF t = b THEN [st |-> s, data |-> d] ELSE v[t]]
<1>1. pid[b] \in DOMAIN f /\ f[pid[b]] = [st |-> old, data |-> d]
  BY DEF Shows
<1>2. g = [x \in {pid[t] : t \in al} |-> g[x]]
  BY DEF Shows
<1>3. g[pid[b]] = [f[pid[b]] EXCEPT !.st = s]
  BY <1>1
<1>4. g[pid[b]] = [st |-> s, data |-> d]
  <2> HIDE DEF g
  <2> QED
    BY <1>1, <1>3
<1>5. ASSUME NEW t \in al, t # b PROVE g[pid[t]] = v[t]
  <2>1. pid[t] # pid[b] /\ pid[t] \in DOMAIN f
    BY <1>5 DEF Shows
  <2> QED
    BY <2>1 DEF Shows
<1>6. \A t \in al : g[pid[t]] = w[t]
  <2> HIDE DEF g
  <2> QED
    BY <1>4, <1>5
<1> HIDE DEF g, w
<1>7. Shows(g, al, pid, w)
  BY <1>2, <1>6 DEF Shows
<1> QED
  BY <1>7 DEF g, w

\* The table of PCBs is such a table, before and after a step.
LEMMA TableShows == PidsUnique => Shows(procBar, Alive, PID, [t \in Alive |-> View(t)])
<1> SUFFICES ASSUME PidsUnique
             PROVE  Shows(procBar, Alive, PID, [t \in Alive |-> View(t)])
  OBVIOUS
<1>1. \A t \in Alive : TaskOf(PID[t]) = t
  BY DEF PidsUnique, TaskOf
<1>2. procBar = [x \in {PID[t] : t \in Alive} |-> View(TaskOf(x))]
  BY DEF procBar, View
<1> QED
  BY <1>1, <1>2 DEF Shows

\* After a step, with the PCBs as the step leaves them.
LEMMA TableShowsNext ==
  PidsUnique' => Shows(procBar', Alive', PID', [t \in Alive' |-> View(t)'])
<1>1. (PidsUnique => Shows(procBar, Alive, PID, [t \in Alive |-> View(t)]))'
  BY TableShows, PTL
<1> QED
  BY <1>1

\* The status of process t while run has the CPU and rq is readyqueue.
St(run, rq, t) == IF t = run THEN "running"
                  ELSE IF t \in Range(rq) THEN "ready" ELSE "blocked"

\* What a view is made of, before and after a step.
LEMMA ViewParts ==
  /\ \A t : View(t) = [st |-> St(Running, readyqueue, t),
                      data |-> [p \in DataPages |-> DataOf(t, p)]]
  /\ \A t : View(t)' = [st |-> St(Running', readyqueue', t),
                       data |-> [p \in DataPages |-> DataOf(t, p)']]
BY DEF View, StatusOf, St

\* A step after which table f shows the processes leads to f.
LEMMA TableNext ==
  ASSUME PidsUnique', NEW f, Shows(f, Alive', PID', [t \in Alive' |-> View(t)'])
  PROVE  procBar' = f
BY TableShowsNext, ShowsUnique

\* The processes there are.
LEMMA TableEntries ==
  ASSUME KInv
  PROVE  /\ procBar = [x \in {PID[t] : t \in Alive} |-> procBar[x]]
         /\ DOMAIN procBar = {PID[t] : t \in Alive}
         /\ \A t \in Alive : procBar[PID[t]] = View(t)
         /\ \A t, u \in Alive : PID[t] = PID[u] => t = u
         /\ IDLE \notin Alive /\ Alive \subseteq Tasks
BY TableShows DEF KInv, Shows, PidsUnique, Alive

\* The processes there are after a step.
LEMMA PidsApart ==
  ASSUME KInv'
  PROVE  /\ \A t, u \in Alive' : PID'[t] = PID'[u] => t = u
         /\ IDLE \notin Alive' /\ Alive' \subseteq Tasks
BY DEF KInv, PidsUnique, Alive

\* Only the running process is shown as running, and nobody while idle runs.
LEMMA RunningTable ==
  ASSUME KInv, PID[cur] # -1
  PROVE  /\ Running = cur
         /\ cur = IDLE => Process!In("running") = {}
         /\ cur # IDLE => cur \in Alive /\ PID[cur] \in Process!In("running")
<1>1. Running = cur
  BY DEF Running
<1>2. \A t \in Alive : View(t).st = "running" <=> t = cur
  BY <1>1, ViewParts DEF St
<1>3. cur # IDLE => cur \in Alive
  BY <1>1 DEF KInv, IInv, TypeOK, QueueIntegrity, Linked, Alive
<1>4. \A x \in DOMAIN procBar : \E t \in Alive : x = PID[t] /\ procBar[x] = View(t)
  BY TableEntries
<1>5. Process!In("running") = {x \in DOMAIN procBar : procBar[x].st = "running"}
  BY DEF Process!In, Process!Pids
<1>6. ASSUME cur = IDLE PROVE Process!In("running") = {}
  BY <1>2, <1>4, <1>5, <1>6, TableEntries
<1>7. ASSUME cur # IDLE PROVE PID[cur] \in Process!In("running")
  BY <1>2, <1>3, <1>5, <1>7, TableEntries
<1> QED
  BY <1>1, <1>3, <1>6, <1>7

(***************************************************************************)
(* sched_next.  P is the table once the task that leaves the CPU has been  *)
(* put in a list, rq the list of ready tasks at that moment.               *)
(***************************************************************************)
LEMMA DispatchStep ==
  ASSUME KInv', NEW rq \in Seq(Tasks), IsInjective(rq),
         Range(rq) \cap Range(freequeue') = {},
         cur' = NextOf(rq), readyqueue' = RestOf(rq), PID'[cur'] # -1,
         NEW P, Shows(P, Alive', PID',
           [t \in Alive' |-> [st |-> IF t \in Range(rq) THEN "ready" ELSE "blocked",
                             data |-> [p \in DataPages |-> DataOf(t, p)']]])
  PROVE  Process!Dispatch(P)
<1> DEFINE n == NextOf(rq)
<1>1. Running' = n
  BY DEF Running
<1>2. \A t : View(t)' = [st |-> St(n, RestOf(rq), t),
                        data |-> [p \in DataPages |-> DataOf(t, p)']]
  BY <1>1, ViewParts
<1>3. \A t \in Alive' : P[PID'[t]] = [st |-> IF t \in Range(rq) THEN "ready" ELSE "blocked",
                                     data |-> [p \in DataPages |-> DataOf(t, p)']]
  BY DEF Shows
<1>4. rq # <<>> => /\ n = Head(rq) /\ RestOf(rq) = Tail(rq) /\ n \in Tasks
                   /\ Range(rq) = {n} \cup Range(RestOf(rq)) /\ n \notin Range(RestOf(rq))
  BY TailRange DEF NextOf, RestOf
<1>5. rq = <<>> => n = IDLE /\ RestOf(rq) = rq
  BY DEF NextOf, RestOf
<1>6. P = [x \in {PID'[t] : t \in Alive'} |-> P[x]] /\ PidsUnique'
  BY DEF Shows, KInv
<1> HIDE DEF n
<1>7. CASE n = IDLE
  <2>1. \A t \in Alive' : P[PID'[t]] = View(t)'
    BY <1>2, <1>3, <1>4, <1>5, <1>7, PidsApart DEF St
  <2>2. procBar' = P
    BY <1>6, <2>1, TableNext DEF Shows
  <2> QED
    BY <2>2 DEF Process!Dispatch
<1>8. CASE n # IDLE
  <2>1. n \in Alive' /\ n \in Range(rq)
    BY <1>4, <1>5, <1>8 DEF Alive
  <2> DEFINE f == [P EXCEPT ![PID'[n]].st = "running"]
  <2> DEFINE d == [p \in DataPages |-> DataOf(n, p)']
  <2>7. PID'[n] \in DOMAIN P
    BY <1>6, <2>1
  <2>8. P[PID'[n]] = [st |-> "ready", data |-> d]
    BY <1>3, <2>1
  <2>2. P[PID'[n]].st = "ready"
    <3> HIDE DEF d
    <3> QED
      BY <2>8
  <2>3. f = [x \in {PID'[t] : t \in Alive'} |-> f[x]]
    BY <1>6
  <2>4. f[PID'[n]] = View(n)'
    <3>1. View(n)' = [st |-> "running", data |-> d]
      BY <1>2 DEF St
    <3>2. f[PID'[n]] = [P[PID'[n]] EXCEPT !.st = "running"]
      BY <2>7
    <3> HIDE DEF d, f
    <3>3. [P[PID'[n]] EXCEPT !.st = "running"] = [st |-> "running", data |-> d]
      BY <2>8
    <3> QED
      BY <3>1, <3>2, <3>3
  <2>5. \A t \in Alive' : t # n => f[PID'[t]] = View(t)'
    <3> SUFFICES ASSUME NEW t \in Alive', t # n PROVE f[PID'[t]] = View(t)'
      OBVIOUS
    <3>1. PID'[t] # PID'[n] /\ PID'[t] \in DOMAIN P
      BY <1>6, <2>1, PidsApart
    <3>2. f[PID'[t]] = P[PID'[t]]
      BY <3>1
    <3>3. t \in Range(rq) <=> t \in Range(RestOf(rq))
      BY <1>4, <1>5
    <3> QED
      BY <1>2, <1>3, <3>2, <3>3 DEF St
  <2>6. procBar' = f
    <3> HIDE DEF f
    <3> QED
      BY <1>6, <2>3, <2>4, <2>5, TableNext DEF Shows
  <2> QED
    BY <2>7, <2>2, <2>6 DEF Process!Dispatch
<1> QED
  BY <1>7, <1>8

-----------------------------------------------------------------------------
(***************************************************************************)
(* The steps, one by one.                                                  *)
(***************************************************************************)
PStep == Process!PNext \/ UNCHANGED Process!pvars

\* The same processes, with the same data.
SameData == /\ Alive' = Alive /\ PID_MAX' = PID_MAX
            /\ \A t \in Alive : PID'[t] = PID[t]
            /\ \A t \in Alive, p \in DataPages : DataOf(t, p)' = DataOf(t, p)

\* Handlers that leave freequeue, PIDs and memory alone.
LEMMA SameMemory ==
  ASSUME UNCHANGED <<freequeue, PID, PID_MAX, mmVars>> PROVE SameData
BY DEF SameData, Alive, DataOf, mmVars

\* Nothing that user programs see has changed.
LEMMA StutterStep ==
  ASSUME KInv, KInv', SameData, Running' = Running, readyqueue' = readyqueue
  PROVE  PStep
<1>1. \A t \in Alive : View(t)' = View(t)
  BY ViewParts DEF SameData
<1>2. [t \in Alive' |-> View(t)'] = [t \in Alive |-> View(t)]
  BY <1>1 DEF SameData
<1>3. Shows(procBar, Alive', PID', [t \in Alive |-> View(t)])
  <2>1. {PID'[t] : t \in Alive'} = {PID[t] : t \in Alive}
    BY DEF SameData
  <2> QED
    BY <2>1, TableShows DEF Shows, KInv, SameData
<1>4. procBar' = procBar
  BY <1>2, <1>3, TableNext DEF KInv
<1> QED
  BY <1>4 DEF PStep, Process!pvars, SameData

\* In a step that keeps processes and data, a table that shows the views v of
\* the processes before shows them after.
LEMMA ShowsAfter ==
  ASSUME SameData, NEW f, NEW v, Shows(f, Alive, PID, v)
  PROVE  Shows(f, Alive', PID', v)
<1>1. {PID'[t] : t \in Alive'} = {PID[t] : t \in Alive}
  BY DEF SameData
<1> QED
  BY <1>1 DEF Shows, SameData

\* The table when process b has moved to status s.
LEMMA MoveTable ==
  ASSUME KInv, NEW b \in Alive, NEW s
  PROVE  Shows(Process!Move(PID[b], s), Alive, PID,
               [t \in Alive |-> [st |-> IF t = b THEN s ELSE St(Running, readyqueue, t),
                                data |-> [p \in DataPages |-> DataOf(t, p)]]])
<1> DEFINE v == [t \in Alive |-> View(t)]
           D(t) == [p \in DataPages |-> DataOf(t, p)]
<1>1. Shows(procBar, Alive, PID, v)
  BY TableShows DEF KInv
<1>2. v[b] = [st |-> St(Running, readyqueue, b), data |-> D(b)]
  BY ViewParts
<1>3. \A t, u \in Alive : PID[t] = PID[u] => t = u
  BY TableEntries
<1> HIDE DEF v, D
<1>4. Shows([procBar EXCEPT ![PID[b]].st = s], Alive, PID,
            [t \in Alive |-> IF t = b THEN [st |-> s, data |-> D(b)] ELSE v[t]])
  BY <1>1, <1>2, <1>3, MoveShows
<1>5. ASSUME NEW t \in Alive
      PROVE  (IF t = b THEN [st |-> s, data |-> D(b)] ELSE v[t])
               = [st |-> IF t = b THEN s ELSE St(Running, readyqueue, t), data |-> D(t)]
  <2>1. v[t] = [st |-> St(Running, readyqueue, t), data |-> D(t)]
    BY ViewParts DEF v, D
  <2> QED
    BY <2>1
<1>6. [t \in Alive |-> IF t = b THEN [st |-> s, data |-> D(b)] ELSE v[t]]
        = [t \in Alive |-> [st |-> IF t = b THEN s ELSE St(Running, readyqueue, t),
                           data |-> D(t)]]
  BY <1>5
<1>7. Process!Move(PID[b], s) = [procBar EXCEPT ![PID[b]].st = s]
  BY DEF Process!Move
<1> QED
  BY <1>4, <1>6, <1>7 DEF D

\* The same for the running process, in any table.
LEMMA MoveAgain ==
  ASSUME KInv, NEW f, NEW v, Shows(f, Alive, PID, v), NEW c \in Alive, NEW d,
         v[c] = [st |-> "running", data |-> d]
  PROVE  Shows([f EXCEPT ![PID[c]].st = "ready"], Alive, PID,
               [t \in Alive |-> IF t = c THEN [st |-> "ready", data |-> d] ELSE v[t]])
<1>1. \A t, u \in Alive : PID[t] = PID[u] => t = u
  BY TableEntries
<1> QED
  BY <1>1, MoveShows

\* What sched_next needs: the lists are in order once cur is in one of them.
LEMMA ParkedStep ==
  ASSUME KInv', SameData, NEW rq \in Seq(Tasks),
         Parked(freequeue', rq, console_blocked'),
         cur' = NextOf(rq), readyqueue' = RestOf(rq), PID'[cur'] # -1,
         NEW P, Shows(P, Alive, PID,
           [t \in Alive |-> [st |-> IF t \in Range(rq) THEN "ready" ELSE "blocked",
                            data |-> [p \in DataPages |-> DataOf(t, p)]]])
  PROVE  Process!Dispatch(P)
<1>1. IsInjective(rq) /\ Range(rq) \cap Range(freequeue') = {}
  BY DEF Parked
<1>2. \A t \in Alive : [p \in DataPages |-> DataOf(t, p)'] = [p \in DataPages |-> DataOf(t, p)]
  BY DEF SameData
<1> DEFINE w == [t \in Alive' |->
                  [st |-> IF t \in Range(rq) THEN "ready" ELSE "blocked",
                   data |-> [p \in DataPages |-> DataOf(t, p)']]]
<1>3. w = [t \in Alive |-> [st |-> IF t \in Range(rq) THEN "ready" ELSE "blocked",
                         data |-> [p \in DataPages |-> DataOf(t, p)]]]
  BY <1>2 DEF SameData
<1>4. Shows(P, Alive', PID', w)
  BY <1>3, ShowsAfter
<1> QED
  BY <1>1, <1>4, DispatchStep

\* sched_next in a handler that leaves processes and memory alone.
LEMMA SwitchStep ==
  ASSUME KInv, KInv', PID[cur] # -1, UNCHANGED <<freequeue, PID, PID_MAX, mmVars>>,
         NEW rq \in Seq(Tasks), NEW cq \in Ints, NEW ts \in [Tasks -> States],
         NEW k \in Points, sched_next(rq, cq, ts, k),
         Parked(freequeue, rq, console_blocked'),
         Range(rq) \subseteq Range(readyqueue) \cup Range(console_blocked) \cup {cur},
         NEW P, Shows(P, Alive, PID,
           [t \in Alive |-> [st |-> IF t \in Range(rq) THEN "ready" ELSE "blocked",
                            data |-> [p \in DataPages |-> DataOf(t, p)]]])
  PROVE  Process!Dispatch(P)
<1>1. cur' = NextOf(rq) /\ readyqueue' = RestOf(rq)
  BY SchedNext DEF KInv, IInv
<1>2. NextOf(rq) \in Range(rq) \cup {IDLE}
  BY TailRange DEF NextOf
<1>3. PID'[cur'] # -1
  BY <1>1, <1>2 DEF KInv, IInv, PidInv
<1>4. Parked(freequeue', rq, console_blocked')
  OBVIOUS
<1> QED
  BY <1>1, <1>3, <1>4, SameMemory, ParkedStep

\* read blocks the running process.
LEMMA BlockStep ==
  ASSUME KInv, KInv', where[cur] = "user", block_process,
         UNCHANGED <<freequeue, PID, PID_MAX, mmVars>>
  PROVE  PStep
<1>1. PID[cur] # -1 /\ Running = cur /\ cur # IDLE /\ cur \in Tasks
  BY UserRuns DEF KInv
<1>2. cur \in Alive /\ PID[cur] \in Process!In("running")
  BY <1>1, RunningTable
<1>3. /\ freequeue \in Seq(Tasks) /\ readyqueue \in Seq(Tasks)
      /\ console_blocked \in Seq(Tasks) /\ CPU_QUANTUM \in Ints
      /\ t_state \in [Tasks -> States]
      /\ Linked(freequeue, readyqueue, console_blocked, cur)
  BY <1>1 DEF KInv, IInv, TypeOK, QueueIntegrity, Ints, States
<1>4. /\ console_blocked' = Append(console_blocked, cur)
      /\ sched_next(readyqueue, CPU_QUANTUM, [t_state EXCEPT ![cur] = ST_BLOCKED],
                    "read_return")
  BY DEF block_process, update_current_state, list_add_tail
<1>5. Parked(freequeue, readyqueue, console_blocked')
  BY <1>1, <1>3, <1>4, ParkLinked
<1>6. [t_state EXCEPT ![cur] = ST_BLOCKED] \in [Tasks -> States]
      /\ "read_return" \in Points
  BY <1>1, <1>3 DEF States, Points, InTaskSwitch
<1> DEFINE v == [t \in Alive |->
                  [st |-> IF t \in Range(readyqueue) THEN "ready" ELSE "blocked",
                   data |-> [p \in DataPages |-> DataOf(t, p)]]]
           P == Process!Move(PID[cur], "blocked")
<1>7. v = [t \in Alive |-> [st |-> IF t = cur THEN "blocked" ELSE St(Running, readyqueue, t),
                           data |-> [p \in DataPages |-> DataOf(t, p)]]]
  BY <1>1, <1>3 DEF St, Linked
<1>8. Shows(P, Alive, PID, v)
  BY <1>2, <1>7, MoveTable
<1> HIDE DEF P
<1>9. Process!Dispatch(P)
  BY <1>1, <1>3, <1>4, <1>5, <1>6, <1>8, SwitchStep
<1> QED
  BY <1>2, <1>9 DEF PStep, Process!PNext, Process!Block, P

\* The timer takes the CPU from a process, or from idle.
LEMMA PreemptStep == KInv /\ KInv' /\ clock_sched => PStep
<1> SUFFICES ASSUME KInv, KInv', clock_sched PROVE PStep
  OBVIOUS
<1> DEFINE cq == update_sched_data(CPU_QUANTUM)
           rq == IF PID[cur] # 0 THEN Append(readyqueue, cur) ELSE readyqueue
<1>1. UNCHANGED <<freequeue, console_blocked, PID, PID_MAX, mmVars>>
  BY DEF clock_sched
<1>2. CASE needs_sched(cq, readyqueue)
  <2>1. sched_next(rq, cq, t_state, "clock_exit")
    BY <1>2 DEF clock_sched, update_current_state, list_add_tail
  <2>2. PID[cur] # -1 /\ Running = cur
    <3>1. policy = FCFS => cur = IDLE
      BY <1>2 DEF needs_sched, needs_sched_fcfs, RR, FCFS
    <3> QED
      BY <3>1, CurUnlinked, IdleInit DEF KInv, IInv, BootInv, PidInv
  <2>3. /\ freequeue \in Seq(Tasks) /\ readyqueue \in Seq(Tasks)
        /\ console_blocked \in Seq(Tasks) /\ cur \in Tasks
        /\ t_state \in [Tasks -> States]
        /\ Linked(freequeue, readyqueue, console_blocked, cur)
    BY <2>2 DEF KInv, IInv, TypeOK, QueueIntegrity, States
  <2>4. cq \in Ints /\ "clock_exit" \in Points
    BY UpdateSchedData DEF KInv, Points, InTaskSwitch
  <2>5. PID[cur] = 0 <=> cur = IDLE
    BY <2>3 DEF KInv, IInv, PidInv
  <2>6. rq \in Seq(Tasks) /\ Range(rq) \subseteq Range(readyqueue) \cup {cur}
    BY <2>3, AppendRange
  <2>7. Parked(freequeue, rq, console_blocked')
    BY <1>1, <2>3, <2>5, ParkLinked
  <2> DEFINE v == [t \in Alive |->
                    [st |-> IF t \in Range(rq) THEN "ready" ELSE "blocked",
                     data |-> [p \in DataPages |-> DataOf(t, p)]]]
  <2>8. ASSUME NEW P, Shows(P, Alive, PID, v) PROVE Process!Dispatch(P)
    <3> HIDE DEF rq, cq
    <3> QED
      BY <1>1, <2>1, <2>2, <2>3, <2>4, <2>6, <2>7, <2>8, SwitchStep
  <2>9. CASE cur = IDLE
    <3>1. \A t \in Alive : View(t) =
            [st |-> IF t \in Range(rq) THEN "ready" ELSE "blocked",
             data |-> [p \in DataPages |-> DataOf(t, p)]]
      BY <2>2, <2>5, <2>9, ViewParts, TableEntries DEF St
    <3>2. v = [t \in Alive |-> View(t)]
      BY <3>1
    <3>3. Shows(procBar, Alive, PID, v)
      BY <3>2, TableShows DEF KInv
    <3>4. Process!Dispatch(procBar)
      BY <2>8, <3>3
    <3>5. Process!In("running") = {}
      BY <2>2, <2>9, RunningTable
    <3> QED
      BY <1>1, <3>4, <3>5 DEF PStep, Process!PNext, Process!Preempt
  <2>10. CASE cur # IDLE
    <3>1. cur \in Alive /\ PID[cur] \in Process!In("running")
      BY <2>2, <2>10, RunningTable
    <3>2. Range(rq) = Range(readyqueue) \cup {cur}
      BY <2>3, <2>5, <2>10, AppendRange
    <3>3. v = [t \in Alive |->
                [st |-> IF t = cur THEN "ready" ELSE St(Running, readyqueue, t),
                 data |-> [p \in DataPages |-> DataOf(t, p)]]]
      <4> HIDE DEF rq
      <4> QED
        BY <2>2, <3>2 DEF St
    <3>4. Shows(Process!Move(PID[cur], "ready"), Alive, PID, v)
      BY <3>1, <3>3, MoveTable
    <3>5. Process!Dispatch(Process!Move(PID[cur], "ready"))
      BY <2>8, <3>4
    <3> QED
      BY <1>1, <3>1, <3>5 DEF PStep, Process!PNext, Process!Preempt
  <2> QED
    BY <2>9, <2>10
<1>3. CASE ~needs_sched(cq, readyqueue)
  <2>1. UNCHANGED <<cur, readyqueue>>
    BY <1>3 DEF clock_sched, cpuVars
  <2>2. Running' = Running
    BY <1>1, <2>1 DEF Running
  <2> QED
    BY <1>1, <2>1, <2>2, SameMemory, StutterStep
<1> QED
  BY <1>2, <1>3

\* The console wakes the first process it has blocked, and may take the CPU from
\* the running one at the same time.
LEMMA WakeStep ==
  ASSUME KInv, KInv', ClockFrame, pending_reads # <<>>,
         unblock_process(Head(pending_reads).task)
  PROVE  PStep
<1> DEFINE b  == Head(console_blocked)
           r1 == Append(readyqueue, b)
           r2 == Append(r1, cur)
           ts == [t_state EXCEPT ![b] = ST_READY]
           D(t) == [p \in DataPages |-> DataOf(t, p)]
           M == Process!Move(PID[b], "ready")
           v == [t \in Alive |-> [st |-> IF t = b THEN "ready" ELSE St(Running, readyqueue, t),
                                 data |-> D(t)]]
<1>1. /\ PID[cur] # -1 /\ Running = cur /\ cur \in Tasks
      /\ console_blocked # <<>> /\ Head(pending_reads).task = b /\ b \in Tasks
      /\ console_blocked' = Tail(console_blocked)
  BY FirstReader, CurUnlinked DEF KInv, unblock_process
<1>2. UNCHANGED <<freequeue, PID, PID_MAX, mmVars>>
  BY DEF ClockFrame
<1>3. /\ freequeue \in Seq(Tasks) /\ readyqueue \in Seq(Tasks)
      /\ console_blocked \in Seq(Tasks) /\ CPU_QUANTUM \in Ints
      /\ t_state \in [Tasks -> States]
      /\ Linked(freequeue, readyqueue, console_blocked, cur)
  BY <1>1 DEF KInv, IInv, TypeOK, QueueIntegrity, Ints, States
<1>4. b \in Range(console_blocked)
  BY <1>1, <1>3, TailRange
<1>5. b \in Alive /\ b # cur /\ b \notin Range(readyqueue)
  BY <1>1, <1>3, <1>4 DEF Linked, Alive
<1>6. r1 \in Seq(Tasks) /\ Range(r1) = Range(readyqueue) \cup {b}
  BY <1>1, <1>3, AppendRange
<1>7. PID[b] \in Process!In("blocked")
  <2>1. View(b) = [st |-> "blocked", data |-> D(b)]
    BY <1>1, <1>5, ViewParts DEF St
  <2>2. PID[b] \in DOMAIN procBar /\ procBar[PID[b]] = View(b)
    BY <1>5, TableEntries
  <2> HIDE DEF D, b
  <2> QED
    BY <2>1, <2>2 DEF Process!In, Process!Pids
<1>8. Shows(M, Alive, PID, v)
  BY <1>5, MoveTable
<1>9. CASE needs_sched(CPU_QUANTUM, r1)
  <2>1. sched_next(r2, CPU_QUANTUM, ts, "clock_sched")
    BY <1>1, <1>9 DEF unblock_process, list_add_tail, update_current_state
  <2>2. Linked(freequeue, r1, Tail(console_blocked), cur) /\ Tail(console_blocked) \in Seq(Tasks)
    BY <1>1, <1>3, WakeLinked, TailRange
  <2>3. Parked(freequeue, r2, console_blocked')
    <3> HIDE DEF r1
    <3> QED
      BY <1>1, <1>3, <1>6, <2>2, ParkLinked
  <2>4. r2 \in Seq(Tasks) /\ Range(r2) = Range(readyqueue) \cup {b, cur}
    <3> HIDE DEF r1, b
    <3>1. r2 \in Seq(Tasks) /\ Range(r2) = Range(r1) \cup {cur}
      BY <1>1, <1>6, AppendRange
    <3> QED
      BY <1>6, <3>1
  <2>5. ts \in [Tasks -> States] /\ "clock_sched" \in Points
    BY <1>1, <1>3 DEF States, Points, InTaskSwitch
  <2> DEFINE w == [t \in Alive |->
                    [st |-> IF t \in Range(r2) THEN "ready" ELSE "blocked", data |-> D(t)]]
  <2>6. ASSUME NEW P, Shows(P, Alive, PID, w) PROVE Process!Dispatch(P)
    <3>1. Range(r2) \subseteq Range(readyqueue) \cup Range(console_blocked) \cup {cur}
      BY <1>4, <2>4
    <3> HIDE DEF r2, ts, b
    <3> QED
      BY <1>1, <1>2, <1>3, <2>1, <2>3, <2>4, <2>5, <2>6, <3>1, SwitchStep
  <2>7. CASE cur = IDLE
    <3>1. w = v
      <4> HIDE DEF r2, b, D
      <4> QED
        BY <1>1, <2>4, <2>7, TableEntries DEF St
    <3>2. Process!Dispatch(M)
      BY <1>8, <2>6, <3>1
    <3>3. Process!In("running") = {}
      BY <1>1, <2>7, RunningTable
    <3> QED
      BY <1>2, <1>7, <3>2, <3>3 DEF PStep, Process!PNext, Process!Wake
  <2>8. CASE cur # IDLE
    <3>1. cur \in Alive /\ PID[cur] \in Process!In("running")
      BY <1>1, <2>8, RunningTable
    <3> DEFINE Q == [M EXCEPT ![PID[cur]].st = "ready"]
               u == [t \in Alive |-> IF t = cur THEN [st |-> "ready", data |-> D(cur)] ELSE v[t]]
    <3>2. v[cur] = [st |-> "running", data |-> D(cur)]
      BY <1>1, <1>5, <3>1 DEF St
    <3>3. Shows(Q, Alive, PID, u)
      <4> HIDE DEF v, M, D, b
      <4> QED
        BY <1>8, <3>1, <3>2, MoveAgain
    <3>4. u = w
      <4> HIDE DEF r2, b, D
      <4>1. ASSUME NEW t \in Alive PROVE u[t] = w[t]
        BY <1>1, <2>4 DEF St
      <4> QED
        BY <4>1
    <3>5. Process!Dispatch(Q)
      BY <2>6, <3>3, <3>4
    <3> QED
      BY <1>2, <1>7, <3>1, <3>5 DEF PStep, Process!PNext, Process!Wake
  <2> QED
    BY <2>7, <2>8
<1>10. CASE ~needs_sched(CPU_QUANTUM, r1)
  <2>1. readyqueue' = r1 /\ cur' = cur
    BY <1>1, <1>10 DEF unblock_process, list_add_tail, cpuVars
  <2>2. Running' = cur /\ SameData
    BY <1>1, <1>2, <2>1, SameMemory DEF Running
  <2>3. ASSUME NEW t \in Alive PROVE View(t)' = v[t]
    <3>1. View(t)' = [st |-> St(cur, r1, t), data |-> D(t)]
      BY <2>1, <2>2, ViewParts DEF SameData
    <3>2. St(cur, r1, t) = IF t = b THEN "ready" ELSE St(Running, readyqueue, t)
      <4> HIDE DEF r1, b
      <4> QED
        BY <1>1, <1>5, <1>6 DEF St
    <3> QED
      BY <3>1, <3>2
  <2>4. [t \in Alive' |-> View(t)'] = v
    BY <2>2, <2>3 DEF SameData
  <2>5. Shows(M, Alive', PID', v)
    BY <1>8, <2>2, ShowsAfter
  <2>6. procBar' = M
    BY <2>4, <2>5, TableNext DEF KInv
  <2> QED
    BY <1>2, <1>7, <2>6 DEF PStep, Process!PNext, Process!Wake
<1> QED
  BY <1>9, <1>10

\* The rest of the timer's work is not seen by user programs.
LEMMA ClockStep == KInv /\ KInv' /\ clock_routine => PStep
<1> SUFFICES ASSUME KInv, KInv', clock_routine PROVE PStep
  OBVIOUS
<1>1. ClockFrame
  BY DEF clock_routine, ClockFrame
<1>2. CASE pending_reads # <<>> /\ unblock_process(Head(pending_reads).task)
  BY <1>1, <1>2, WakeStep
<1>3. CASE ~(pending_reads # <<>> /\ unblock_process(Head(pending_reads).task))
  <2>1. cur' = cur /\ readyqueue' = readyqueue
    BY <1>3 DEF clock_routine, zeos_update_read_console_emul, cpuVars
  <2>2. Running' = Running /\ SameData
    BY <1>1, <2>1, SameMemory DEF Running, ClockFrame
  <2> QED
    BY <2>1, <2>2, StutterStep
<1> QED
  BY <1>2, <1>3

\* exit takes the running process out of the table.
LEMMA ExitStep == KInv /\ KInv' /\ sys_exit => PStep
<1> SUFFICES ASSUME KInv, KInv', sys_exit PROVE PStep
  OBVIOUS
<1>1. PID[cur] # -1 /\ Running = cur /\ cur # IDLE /\ cur \in Tasks
  BY UserRuns DEF KInv, sys_exit
<1>2. PID[cur] \in Process!In("running")
  BY <1>1, RunningTable
<1>3. /\ cur \in Alive /\ Alive' = Alive \ {cur} /\ PID_MAX' = PID_MAX
      /\ Range(freequeue') = Range(freequeue) \cup {cur}
      /\ \A t \in Tasks \ {cur} : PID'[t] = PID[t]
  BY ExitPids DEF KInv
<1>4. /\ readyqueue \in Seq(Tasks) /\ CPU_QUANTUM \in Ints
      /\ t_state \in [Tasks -> States] /\ "dead" \in Points
      /\ Linked(freequeue, readyqueue, console_blocked, cur)
  BY <1>1 DEF KInv, IInv, TypeOK, QueueIntegrity, Ints, States, Points
<1>5. sched_next(readyqueue, CPU_QUANTUM, t_state, "dead")
  BY DEF sys_exit
<1>6. cur' = NextOf(readyqueue) /\ readyqueue' = RestOf(readyqueue)
  BY <1>4, <1>5, SchedNext DEF KInv, IInv
<1>7. IsInjective(readyqueue) /\ Range(readyqueue) \cap Range(freequeue') = {}
      /\ cur \notin Range(readyqueue)
  BY <1>3, <1>4 DEF Linked
<1>8. PID'[cur'] # -1
  <2>1. NextOf(readyqueue) \in Range(readyqueue) \cup {IDLE}
    BY <1>4, TailRange DEF NextOf
  <2>2. cur' # cur /\ cur' \in Tasks
    BY <1>1, <1>6, <1>7, <2>1 DEF KInv, IInv, TypeOK
  <2>3. PID[cur'] # -1
    BY <1>6, <2>1 DEF KInv, IInv, PidInv
  <2> QED
    BY <1>3, <2>2, <2>3
<1> DEFINE P == [x \in Process!Pids \ {PID[cur]} |-> procBar[x]]
<1>9. Process!Pids = {PID[t] : t \in Alive}
  BY TableEntries DEF Process!Pids
<1>10. Process!Pids \ {PID[cur]} = {PID'[t] : t \in Alive'}
  BY <1>3, <1>9, TableEntries
<1>11. ASSUME NEW t \in Alive'
      PROVE  P[PID'[t]] = [st |-> IF t \in Range(readyqueue) THEN "ready" ELSE "blocked",
                           data |-> [p \in DataPages |-> DataOf(t, p)']]
  <2>1. t \in Alive /\ t # cur /\ PID'[t] = PID[t]
    BY <1>3, TableEntries
  <2>2. P[PID'[t]] = View(t)
    BY <1>10, <2>1, TableEntries
  <2>3. \A p \in DataPages : DataOf(t, p)' = DataOf(t, p)
    BY ExitMemory DEF KInv, DataOf
  <2>4. View(t) = [st |-> IF t \in Range(readyqueue) THEN "ready" ELSE "blocked",
                   data |-> [p \in DataPages |-> DataOf(t, p)]]
    BY <1>1, <2>1, ViewParts DEF St
  <2> QED
    BY <2>2, <2>3, <2>4
<1>12. P = [x \in {PID'[t] : t \in Alive'} |-> P[x]]
  BY <1>10
<1> HIDE DEF P
<1>13. Process!Dispatch(P)
  <2>1. Shows(P, Alive', PID', [t \in Alive' |->
          [st |-> IF t \in Range(readyqueue) THEN "ready" ELSE "blocked",
           data |-> [p \in DataPages |-> DataOf(t, p)']]])
    BY <1>11, <1>12 DEF Shows
  <2> QED
    BY <1>4, <1>6, <1>7, <1>8, <2>1, DispatchStep
<1> QED
  BY <1>2, <1>3, <1>13 DEF PStep, Process!PNext, Process!Exit, P

\* fork adds a ready process with the data of the running one.
LEMMA ForkStep ==
  ASSUME KInv, KInv', where[cur] = "user", sys_fork_child
  PROVE  PStep
<1> DEFINE new == PID_MAX + 1
           D(t) == [p \in DataPages |-> DataOf(t, p)]
           f == [q \in Process!Pids \cup {new} |->
                   IF q = new THEN [st |-> "ready", data |-> procBar[PID[cur]].data]
                              ELSE procBar[q]]
<1>1. PID[cur] # -1 /\ Running = cur /\ cur # IDLE /\ cur \in Tasks
  BY UserRuns DEF KInv
<1>2. cur \in Alive /\ PID[cur] \in Process!In("running")
  BY <1>1, RunningTable
<1>3. PICK c \in Alive : c = cur
  BY <1>2
<1>4. PICK child \in Tasks \ Alive :
        /\ child = Head(freequeue) /\ Alive' = Alive \cup {child}
        /\ PID_MAX \in Nat /\ PID_MAX' = new /\ PID'[child] = new
        /\ \A t \in Alive : PID'[t] = PID[t]
  <2>1. Head(freequeue) \in Tasks \ Alive
    BY ForkPids DEF KInv
  <2> QED
    BY <2>1, ForkPids, TableEntries DEF KInv
<1>15. cur' = cur /\ readyqueue' = Append(readyqueue, child)
  BY <1>4 DEF sys_fork_child, list_first, list_add_tail
<1>5. Range(readyqueue') = Range(readyqueue) \cup {child}
  <2>1. readyqueue \in Seq(Tasks)
    BY DEF KInv, IInv, TypeOK
  <2> QED
    BY <1>15, <2>1, AppendRange
<1>6. Running' = c /\ Running = c
  BY <1>1, <1>3, <1>4, <1>15 DEF Running
<1>7. /\ \A t \in Alive, p \in DataPages : DataOf(t, p)' = DataOf(t, p)
      /\ \A p \in DataPages : DataOf(child, p)' = DataOf(c, p)
  <2>1. \A p : DataOf(Running, p) = DataOf(c, p)
    BY <1>6
  <2> QED
    BY <1>4, <2>1, ForkData DEF KInv
<1>8. Process!Pids = {PID[t] : t \in Alive} /\ \A t \in Alive : PID[t] # new
  BY <1>4, TableEntries DEF Process!Pids, KInv, PidsUnique
<1>9. Process!Pids \cup {new} = {PID'[t] : t \in Alive'}
  BY <1>4, <1>8
<1>10. ASSUME NEW t \in Alive PROVE f[PID'[t]] = View(t)'
  <2>1. f[PID'[t]] = View(t)
    BY <1>4, <1>8, TableEntries
  <2>2. t # child
    BY <1>4
  <2>3. View(t) = [st |-> St(c, readyqueue, t), data |-> D(t)]
    BY <1>6, ViewParts
  <2>4. View(t)' = [st |-> St(c, readyqueue', t), data |-> D(t)]
    BY <1>6, <1>7, ViewParts
  <2>5. St(c, readyqueue', t) = St(c, readyqueue, t)
    BY <1>5, <2>2 DEF St
  <2> QED
    BY <2>1, <2>3, <2>4, <2>5
<1>11. f[PID'[child]] = View(child)'
  <2>1. f[PID'[child]] = [st |-> "ready", data |-> procBar[PID[cur]].data]
    BY <1>4
  <2>2. procBar[PID[cur]] = [st |-> St(c, readyqueue, c), data |-> D(c)]
    BY <1>3, <1>6, ViewParts, TableEntries
  <2>3. procBar[PID[cur]].data = D(c)
    <3> HIDE DEF D
    <3> QED
      BY <2>2
  <2>4. View(child)' = [st |-> St(c, readyqueue', child), data |-> D(c)]
    BY <1>6, <1>7, ViewParts
  <2>5. St(c, readyqueue', child) = "ready"
    BY <1>4, <1>5 DEF St
  <2> HIDE DEF f, D
  <2> QED
    BY <2>1, <2>3, <2>4, <2>5
<1>12. f = [x \in {PID'[t] : t \in Alive'} |-> f[x]]
  BY <1>9
<1>13. procBar' = f
  <2> HIDE DEF f
  <2>1. \A t \in Alive' : f[PID'[t]] = View(t)'
    BY <1>4, <1>10, <1>11
  <2>2. Shows(f, Alive', PID', [t \in Alive' |-> View(t)'])
    BY <1>12, <2>1 DEF Shows
  <2> QED
    BY <2>2, TableNext DEF KInv
<1>14. Process!Fork(PID[cur])
  BY <1>4, <1>13 DEF Process!Fork
<1> QED
  BY <1>2, <1>14 DEF PStep, Process!PNext

\* A fork that fails is not seen, but by its caller's result.
LEMMA EnomemStep ==
  ASSUME KInv, KInv', where[cur] = "user", sys_fork_ENOMEM
  PROVE  PStep
<1>1. cur \in Alive
  BY MemTypes DEF KInv
<1>2. /\ freequeue' = freequeue /\ mem' = mem /\ PID_MAX' = PID_MAX
      /\ \A t \in Alive : pagusr_table'[t] = pagusr_table[t] /\ PID'[t] = PID[t]
  BY EnomemMemory, EnomemPids DEF KInv
<1>3. SameData
  BY <1>2 DEF SameData, Alive, DataOf
<1>4. cur' = cur /\ readyqueue' = readyqueue
  BY DEF sys_fork_ENOMEM, cpuVars
<1>5. Running' = Running
  BY <1>1, <1>2, <1>4 DEF Running
<1> QED
  BY <1>3, <1>4, <1>5, StutterStep

\* A store changes the page of the process that runs, or the code, which no
\* process has among its data.
LEMMA StoreStep ==
  ASSUME KInv, KInv', NEW x \in UserPages, NEW val \in Values, user_store(x, val)
  PROVE  PStep
<1>1. /\ where[cur] = "user" /\ pagusr_table[cr3][x].rw
      /\ mem' = [mem EXCEPT ![get_frame(pagusr_table[cr3], x)] = val]
      /\ UNCHANGED <<cur, PID, PID_MAX, pagusr_table, freequeue, readyqueue>>
  BY DEF user_store, queueVars, cpuVars
<1>2. /\ cur \in Alive /\ Running = cur /\ cr3 = cur /\ Alive \subseteq Tasks
      /\ mem \in [Frames -> Values] /\ pagusr_table \in Tables
  BY <1>1, MemTypes DEF KInv
<1>8. PICK c \in Alive : c = cur
  BY <1>2
<1>3. Running' = c /\ Running = c /\ Alive' = Alive
  BY <1>1, <1>2, <1>8 DEF Running, Alive
<1>4. x \in CodePages \cup DataPages
  <2>1. x \notin TempPages
    BY <1>1, <1>2 DEF KInv, MemInv, Owned, NoTemp, NoEntry
  <2> QED
    BY <2>1 DEF UserPages
<1>5. ASSUME NEW t \in Alive, NEW p \in DataPages
      PROVE  DataOf(t, p)' = IF Frame(pagusr_table, t, p) = Frame(pagusr_table, c, x)
                               THEN val ELSE DataOf(t, p)
  <2>1. Frame(pagusr_table, t, p) \in Frames
    BY <1>2, FrameType
  <2> QED
    BY <1>1, <1>2, <1>8, <2>1 DEF DataOf, Frame
<1>6. CASE x \in CodePages
  <2>1. \A t \in Alive, p \in DataPages :
          Frame(pagusr_table, t, p) # Frame(pagusr_table, c, x)
    BY <1>2, <1>6 DEF KInv, MemInv, Owned, NotCode, SameCode
  <2>2. SameData
    BY <1>1, <1>3, <1>5, <2>1 DEF SameData
  <2> QED
    BY <1>1, <1>2, <1>3, <2>2, StutterStep
<1>7. CASE x \in DataPages
  <2> DEFINE D(t) == [p \in DataPages |-> DataOf(t, p)]
             d == [D(c) EXCEPT ![x] = val]
             f == [procBar EXCEPT ![PID[c]].data[x] = val]
  <2>1. \A t \in Alive, p \in DataPages :
          Frame(pagusr_table, t, p) = Frame(pagusr_table, c, x) <=> t = c /\ p = x
    BY <1>2, <1>7 DEF KInv, MemInv, Owned, Disjoint
  <2>2. PID[c] \in Process!In("running")
    BY <1>1, <1>2, <1>8, UserRuns, RunningTable DEF KInv
  <2>3. ASSUME NEW t \in Alive, t # c PROVE View(t)' = View(t)
    <3>1. \A p \in DataPages : DataOf(t, p)' = DataOf(t, p)
      BY <1>5, <2>1, <2>3
    <3> QED
      BY <1>1, <1>2, <1>3, <3>1, ViewParts
  <2>4. View(c)' = [st |-> St(c, readyqueue, c), data |-> d]
    <3>1. \A p \in DataPages : DataOf(c, p)' = IF p = x THEN val ELSE DataOf(c, p)
      BY <1>2, <1>5, <2>1
    <3>2. [p \in DataPages |-> DataOf(c, p)'] = d
      BY <3>1
    <3>3. \A t : View(t)' = [st |-> St(c, readyqueue, t),
                            data |-> [p \in DataPages |-> DataOf(t, p)']]
      BY <1>1, <1>3, ViewParts
    <3> QED
      BY <1>1, <3>2, <3>3
  <2>5. procBar[PID[c]] = [st |-> St(c, readyqueue, c), data |-> D(c)] /\ PID[c] \in DOMAIN procBar
    BY <1>3, ViewParts, TableEntries
  <2>6. f[PID[c]] = [st |-> St(c, readyqueue, c), data |-> d]
    <3>1. f[PID[c]] = [procBar[PID[c]] EXCEPT !.data[x] = val]
      BY <2>5
    <3>2. procBar[PID[c]].data = D(c)
      <4> HIDE DEF D
      <4> QED
        BY <2>5
    <3>3. [procBar[PID[c]] EXCEPT !.data = d] = [st |-> St(c, readyqueue, c), data |-> d]
      <4> HIDE DEF d, D
      <4> QED
        BY <2>5
    <3>4. [procBar[PID[c]] EXCEPT !.data[x] = val] = [procBar[PID[c]] EXCEPT !.data = d]
      BY <3>2
    <3> QED
      BY <3>1, <3>3, <3>4
  <2>7. ASSUME NEW t \in Alive, t # c PROVE f[PID[t]] = View(t)
    <3>1. PID[t] # PID[c] /\ PID[t] \in DOMAIN procBar
      BY <2>7, TableEntries
    <3> QED
      BY <3>1, TableEntries
  <2>8. f = [y \in {PID[t] : t \in Alive} |-> f[y]]
    BY TableEntries
  <2>9. procBar' = f
    <3> HIDE DEF f, d
    <3>1. \A t \in Alive : f[PID[t]] = View(t)'
      BY <2>3, <2>4, <2>6, <2>7
    <3>2. Shows(f, Alive', PID', [t \in Alive' |-> View(t)'])
      BY <1>1, <1>3, <2>8, <3>1 DEF Shows
    <3> QED
      BY <3>2, TableNext DEF KInv
  <2>10. Process!Store(PID[c])
    BY <1>1, <1>7, <2>9 DEF Process!Store
  <2> QED
    BY <2>2, <2>10 DEF PStep, Process!PNext
<1> QED
  BY <1>4, <1>6, <1>7

\* Steps in which the running process goes on, whatever they return to it.
LEMMA QuietStep ==
  ASSUME KInv, KInv', UNCHANGED <<cur, readyqueue, freequeue, PID, PID_MAX, mmVars>>
  PROVE  PStep
<1>1. Running' = Running
  BY DEF Running
<1> QED
  BY <1>1, SameMemory, StutterStep

\* The end of the boot: init_task has been the running process all along.
LEMMA BootStep == KInv /\ KInv' /\ return_gate => PStep
<1> SUFFICES ASSUME KInv, KInv', return_gate PROVE PStep
  OBVIOUS
<1>1. /\ where[cur] = "boot" /\ cur' = INIT
      /\ UNCHANGED <<readyqueue, freequeue, PID, PID_MAX, mmVars>>
  BY DEF return_gate, queueVars
<1>2. PID[cur] = -1 /\ PID[INIT] # -1
  BY <1>1 DEF KInv, IInv, TypeOK, PointInv, BootInv
<1>3. Running' = Running
  BY <1>1, <1>2 DEF Running
<1> QED
  BY <1>1, <1>3, SameMemory, StutterStep

\* read, in all its outcomes.
LEMMA ReadStep ==
  ASSUME KInv, KInv', NEW fd, NEW n, sys_read(fd, n)
  PROVE  PStep
<1>1. CASE \E r : sys_read_error(r)
  BY <1>1, QuietStep DEF sys_read_error, cpuVars, queueVars
<1>2. CASE ~\E r : sys_read_error(r)
  <2>1. /\ where[cur] = "user" /\ block_process
        /\ UNCHANGED <<freequeue, PID, PID_MAX, mmVars>>
    BY <1>2 DEF sys_read, zeos_read_console_emul
  <2> QED
    BY <2>1, BlockStep
<1> QED
  BY <1>1, <1>2

\* Every step of the kernel.
LEMMA NextStep == KInv /\ KInv' /\ [Next]_vars => PStep
<1> SUFFICES ASSUME KInv, KInv', [Next]_vars PROVE PStep
  OBVIOUS
<1>1. CASE return_gate
  BY <1>1, BootStep
<1>2. CASE clock_routine \/ clock_sched
  BY <1>2, ClockStep, PreemptStep
<1>3. CASE sys_fork
  <2>1. CASE sys_fork_EAGAIN
    BY <2>1, QuietStep DEF sys_fork_EAGAIN, cpuVars, queueVars
  <2> QED
    BY <1>3, <2>1, EnomemStep, ForkStep DEF sys_fork
<1>4. CASE sys_exit
  BY <1>4, ExitStep
<1>5. CASE \E fd \in {0, 1}, n \in ReadTicks : sys_read(fd, n)
  BY <1>5, ReadStep
<1>6. CASE \E p \in UserPages, v \in Values : user_store(p, v)
  BY <1>6, StoreStep
<1>7. CASE \/ clock_exit \/ ret_from_fork \/ read_return
           \/ \E p \in Policies : sys_set_sched_policy(p)
  BY <1>7, QuietStep DEF clock_exit, ret_from_fork, read_return,
                         sys_set_sched_policy, cpuVars, queueVars
<1>8. CASE UNCHANGED vars
  BY <1>8, QuietStep DEF vars, cpuVars, queueVars
<1> QED
  BY <1>1, <1>2, <1>3, <1>4, <1>5, <1>6, <1>7, <1>8 DEF Next

\* The boot leaves one process, PID 1, with empty data.
LEMMA InitTable == Init => Process!PInit
<1> SUFFICES ASSUME Init PROVE Process!PInit
  OBVIOUS
<1>1. IInv /\ PidsUnique /\ Alive = {INIT}
  BY InitIInv, InitPids, InitAlive
<1>2. PID[INIT] = 1 /\ Running = INIT /\ PID_MAX = 1
  BY IdleInit DEF Init, Running
<1>3. \A p \in DataPages : DataOf(INIT, p) = 0
  <2> SUFFICES ASSUME NEW p \in DataPages PROVE DataOf(INIT, p) = 0
    OBVIOUS
  <2>1. Frame(pagusr_table, INIT, p) \in Frames
    BY <1>1, IdleInit, FrameType DEF IInv, TypeOK, Tables
  <2> QED
    BY <2>1 DEF Init, DataOf, Frame
<1> DEFINE f == [p \in {1} |-> [st |-> "running", data |-> [x \in DataPages |-> 0]]]
<1>4. View(INIT) = f[1]
  BY <1>2, <1>3, ViewParts DEF St
<1>5. Shows(f, Alive, PID, [t \in Alive |-> View(t)])
  <2>1. {PID[t] : t \in Alive} = {1}
    BY <1>1, <1>2
  <2>2. f = [x \in {1} |-> f[x]]
    OBVIOUS
  <2> HIDE DEF f
  <2> QED
    BY <1>1, <1>2, <1>4, <2>1, <2>2 DEF Shows
<1>6. procBar = f
  BY <1>1, <1>5, TableShows, ShowsUnique
<1> QED
  BY <1>2, <1>6 DEF Process!PInit

\* The invariants on which the steps rest, together.
LEMMA SpecKInv == Spec => []KInv
<1>1. IInv /\ PidsUnique /\ IInv /\ MemInv => KInv
  BY DEF KInv
<1> QED
  BY <1>1, SpecPids, SpecMem, PTL

(***************************************************************************)
(* For any number of tasks, frames and pages the kernel is, to the user    *)
(* programs, what ZeosProcess says: processes come from fork with a new    *)
(* PID and the data of their parent, only the running one stores, blocks   *)
(* or ends, and interrupts that arrive anywhere in a system call, the      *)
(* epilogue of task_switch, the idle task and its place in readyqueue, and *)
(* forks that fail half way are not seen.                                  *)
(***************************************************************************)
THEOREM RefinementCorrect == Spec => ImplementsProcess
<1>1. KInv /\ KInv' /\ [Next]_vars => [Process!PNext]_(Process!pvars)
  BY NextStep DEF PStep
<1> QED
  BY <1>1, InitTable, SpecKInv, PTL DEF Spec, ImplementsProcess, Process!PSpec
=============================================================================
