------------------------------ MODULE ListSpec ------------------------------
(***************************************************************************)
(* What the two-way list of ut0lst.h promises its users: the elements form *)
(* a sequence without repetition, and an operation puts one element at the *)
(* front, at the back or behind another one, or takes one out.  UtList is  *)
(* shown to implement this specification.                                  *)
(***************************************************************************)
EXTENDS Integers, SequencesExt

CONSTANT Elem

VARIABLE seq

Init == seq = <<>>

\* The position of e in seq.
Position(e) == CHOOSE i \in 1 .. Len(seq) : seq[i] = e

AddFirst(e) == e \notin Range(seq) /\ seq' = <<e>> \o seq

AddLast(e) == e \notin Range(seq) /\ seq' = seq \o <<e>>

InsertBehind(e1, e2) ==
    /\ e1 \in Range(seq)
    /\ e2 \notin Range(seq)
    /\ seq' = InsertAt(seq, Position(e1) + 1, e2)

TakeOut(e) == e \in Range(seq) /\ seq' = RemoveAt(seq, Position(e))

Next ==
    \/ \E e \in Elem : AddFirst(e) \/ AddLast(e) \/ TakeOut(e)
    \/ \E e1, e2 \in Elem : InsertBehind(e1, e2)

Spec == Init /\ [][Next]_seq
=============================================================================
