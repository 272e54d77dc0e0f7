----------------------------- MODULE ZeosQueues -----------------------------
(***************************************************************************)
(* What the lists of zeos/list.c are to their callers: sequences of list   *)
(* entries.  ZeosList shows that the pointer code implements this.         *)
(***************************************************************************)
EXTENDS Naturals, Sequences

list_empty(q)       == q = <<>>
list_first(q)       == Head(q)
list_add(t, q)      == <<t>> \o q
list_add_tail(t, q) == Append(q, t)
\* Mutant: the element is not unlinked.
list_del_none(t, q) == q
list_del(t, q)      ==
  LET i == CHOOSE j \in DOMAIN q : q[j] = t
  IN  SubSeq(q, 1, i - 1) \o SubSeq(q, i + 1, Len(q))
=============================================================================
