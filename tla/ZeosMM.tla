------------------------------- MODULE ZeosMM -------------------------------
(***************************************************************************)
(* Physical frames and page tables of ZeOS (zeos/mm.c), as operators on    *)
(* values: a frame map pm is the array phys_mem, a page table is the part  *)
(* of pagusr_table[t] above the kernel pages.  The entries of the kernel   *)
(* pages are set once by init_table_pages and never change, so they are    *)
(* left out.  An entry whose word is 0 is not present and its base address *)
(* reads as 0, which is a kernel frame; NoEntry says exactly that.         *)
(***************************************************************************)
EXTENDS Integers

CONSTANTS
  TOTAL_PAGES,      \* frames of physical memory                (1024 in ZeOS)
  NUM_PAG_KERNEL,   \* frames and logical pages of the kernel    (256 in ZeOS)
  NUM_PAG_CODE,     \* code pages of a process                     (8 in ZeOS)
  NUM_PAG_DATA      \* data and stack pages of a process          (20 in ZeOS)

\* init_task1 needs its pages to fit, two frame numbers apart; the rest is as
\* in mm_address.h, with at least one page of each kind.
ASSUME MMAssumption ==
  /\ TOTAL_PAGES \in Nat /\ NUM_PAG_KERNEL \in Nat \ {0}
  /\ NUM_PAG_CODE \in Nat \ {0} /\ NUM_PAG_DATA \in Nat \ {0}
  /\ NUM_PAG_KERNEL + 2 * (NUM_PAG_CODE + NUM_PAG_DATA) <= TOTAL_PAGES

FREE_FRAME == 0
USED_FRAME == 1

Frames    == 0 .. TOTAL_PAGES - 1
CodePages == NUM_PAG_KERNEL .. NUM_PAG_KERNEL + NUM_PAG_CODE - 1
DataPages == NUM_PAG_KERNEL + NUM_PAG_CODE ..
               NUM_PAG_KERNEL + NUM_PAG_CODE + NUM_PAG_DATA - 1
\* The pages right above the data, where sys_fork maps the child's frames.
TempPages == NUM_PAG_KERNEL + NUM_PAG_CODE + NUM_PAG_DATA ..
               NUM_PAG_KERNEL + NUM_PAG_CODE + 2 * NUM_PAG_DATA - 1
UserPages == CodePages \cup DataPages \cup TempPages

PTE     == [pbase_addr : Frames, rw : BOOLEAN]
NoEntry == [pbase_addr |-> 0, rw |-> FALSE]

(***************************************************************************)
(* The frame map.                                                          *)
(***************************************************************************)
init_frames ==
  [f \in Frames |-> IF f < NUM_PAG_KERNEL THEN USED_FRAME ELSE FREE_FRAME]

\* The frames alloc_frame may return: it scans from NUM_PAG_KERNEL in steps of
\* two ("There will be holes! This is intended"), and takes the first free one.
Allocatable(pm) ==
  {f \in NUM_PAG_KERNEL .. TOTAL_PAGES - 1 :
     (f - NUM_PAG_KERNEL) % 2 = 0 /\ pm[f] = FREE_FRAME}

\* The result of one alloc_frame per page of the interval P, in order: the
\* lowest allocatable frames, increasing.  The set is empty when alloc_frame
\* runs out and returns -1, and has one element otherwise.
alloc_frame(pm, P) ==
  {g \in [P -> Allocatable(pm)] :
     /\ \A p, q \in P : p < q => g[p] < g[q]
     /\ \A f \in Allocatable(pm) : \A p \in P :
          f < g[p] => \E q \in P : g[q] = f}

MarkUsed(pm, F) == [f \in Frames |-> IF f \in F THEN USED_FRAME ELSE pm[f]]

\* A free_frame call for every frame of F.  The bound is strict on both sides:
\* the first frame above the kernel is never freed.
free_frame(pm, F) ==
  [f \in Frames |->
     IF f \in F /\ f > NUM_PAG_KERNEL /\ f < TOTAL_PAGES
       THEN FREE_FRAME ELSE pm[f]]

(***************************************************************************)
(* Page tables.                                                            *)
(***************************************************************************)
get_frame(pt, page) == pt[page].pbase_addr

\* set_ss_pag for every page of P, with the frames g gives; always writable.
set_ss_pag(pt, P, g) ==
  [p \in UserPages |->
     IF p \in P THEN [pbase_addr |-> g[p], rw |-> TRUE] ELSE pt[p]]

\* Mutant: the loop stops one page early.
del_ss_pag_short(pt, P) ==
  [p \in UserPages |-> IF p \in P /\ p + 1 \in P THEN NoEntry ELSE pt[p]]
del_ss_pag(pt, P) == [p \in UserPages |-> IF p \in P THEN NoEntry ELSE pt[p]]

\* No user page is mapped.
init_table_pages == [p \in UserPages |-> NoEntry]

\* The table set_user_pages fills for init_task: code without the rw bit.
set_user_pages(g) ==
  [p \in UserPages |->
     IF p \in CodePages \cup DataPages
       THEN [pbase_addr |-> g[p], rw |-> p \in DataPages]
       ELSE NoEntry]
=============================================================================
