------------------------------ MODULE ZeosList ------------------------------
(***************************************************************************)
(* zeos/list.c by its pointers: circular doubly linked lists whose nodes   *)
(* are the list heads (freequeue, readyqueue, console_blocked) and the     *)
(* list fields of the PCBs.                                                *)
(*                                                                         *)
(* A caller links only an entry that is in no list and unlinks only one    *)
(* that is: QueueIntegrity of ZeosKernel shows this of all callers.        *)
(***************************************************************************)
EXTENDS Integers, Sequences, Functions

CONSTANTS
  Heads,     \* the list heads
  Entries,   \* the list fields of the PCBs
  NULL

Nodes == Heads \cup Entries

ASSUME ListAssumption == Heads \cap Entries = {} /\ NULL \notin Nodes

VARIABLES
  next, prev,   \* the pointers of every node
  lists         \* history: each list as the sequences of ZeosQueues have it

vars == <<next, prev, lists>>

Q == INSTANCE ZeosQueues

\* INIT_LIST_HEAD on every head; the PCBs are in zeroed memory.
Init ==
  /\ next = [n \in Nodes |-> IF n \in Heads THEN n ELSE NULL]
  /\ prev = [n \in Nodes |-> IF n \in Heads THEN n ELSE NULL]
  /\ lists = [h \in Heads |-> <<>>]

\* Mutant: next->prev = new is missing.
InsertBetween_oneway(new, before, after) ==
  /\ next' = [next EXCEPT ![new] = after, ![before] = new]
  /\ prev' = [prev EXCEPT ![new] = before]
\* __list_add: before and after may be the same node.
InsertBetween(new, before, after) ==
  /\ next' = [next EXCEPT ![new] = after, ![before] = new]
  /\ prev' = [prev EXCEPT ![after] = new, ![new] = before]

list_add(new, head) ==
  /\ next[new] = NULL
  /\ InsertBetween(new, head, next[head])
  /\ lists' = [lists EXCEPT ![head] = Q!list_add(new, @)]

list_add_tail(new, head) ==
  /\ next[new] = NULL
  /\ InsertBetween(new, prev[head], head)
  /\ lists' = [lists EXCEPT ![head] = Q!list_add_tail(new, @)]

\* __list_del on the neighbours, then the pointers of the entry are cleared.
list_del(entry) ==
  /\ next[entry] # NULL
  /\ next' = [next EXCEPT ![prev[entry]] = next[entry], ![entry] = NULL]
  /\ prev' = [prev EXCEPT ![next[entry]] = prev[entry], ![entry] = NULL]
  /\ lists' = [h \in Heads |-> IF entry \in Range(lists[h])
                                 THEN Q!list_del(entry, lists[h]) ELSE lists[h]]

list_empty(head)         == next[head] = head
list_first(head)         == next[head]
\* Mutant: the wrong pointer is compared.
list_is_last_first(entry, head) == prev[entry] = head
list_is_last(entry, head)       == next[entry] = head

Next ==
  \E e \in Entries :
    \/ \E h \in Heads : list_add(e, h)
    \/ \E h \in Heads : list_add_tail(e, h)
    \/ list_del(e)

Spec == Init /\ [][Next]_vars

-----------------------------------------------------------------------------
(***************************************************************************)
(* Properties.                                                             *)
(***************************************************************************)
\* Every pointer is a node or null.
TypeOK ==
  /\ next \in [Nodes -> Nodes \cup {NULL}]
  /\ prev \in [Nodes -> Nodes \cup {NULL}]
  /\ lists \in [Heads -> Seq(Entries)]

\* The i-th node of the ring that head h closes around the entries of q.
Ring(q, h, i) == IF i \in 1 .. Len(q) THEN q[i] ELSE h

\* Walking nx from h meets the entries of q in order and comes back to h, and
\* walking pv meets them in the reverse order.
Closed(nx, pv, q, h) ==
  \A i \in 0 .. Len(q) : /\ nx[Ring(q, h, i)] = Ring(q, h, i + 1)
                         /\ pv[Ring(q, h, i + 1)] = Ring(q, h, i)

\* What the pointers represent is what the sequences say, in both directions;
\* an entry is linked once, and the pointers of an entry in no list are null.
\* It depends on the stores of __list_add and __list_del being right when the
\* list is empty or has one entry and the two neighbours are the same node.
Represents ==
  /\ \A h \in Heads : IsInjective(lists[h])
  /\ \A g, h \in Heads : g # h => Range(lists[g]) \cap Range(lists[h]) = {}
  /\ \A h \in Heads : Closed(next, prev, lists[h], h)
  /\ \A e \in Entries : (\A h \in Heads : e \notin Range(lists[h])) =>
       next[e] = NULL /\ prev[e] = NULL

\* The tests that callers make on the pointers answer what they answer on the
\* sequences.
ReadsAgree ==
  \A h \in Heads :
    /\ list_empty(h) <=> Q!list_empty(lists[h])
    /\ ~Q!list_empty(lists[h]) => list_first(h) = Q!list_first(lists[h])
    /\ \A e \in Range(lists[h]) :
         list_is_last(e, h) <=> e = lists[h][Len(lists[h])]
=============================================================================
