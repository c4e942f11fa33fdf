------------------------------- MODULE Deque --------------------------------
(***************************************************************************)
(* What a circular vector promises: a double-ended queue of elements.      *)
(***************************************************************************)
EXTENDS Integers, Sequences

CONSTANT Elem

VARIABLE q

Init == q = <<>>

PushBack == \E t \in Elem : q' = Append(q, t)

PushFront == \E t \in Elem : q' = <<t>> \o q

PopBack == q # <<>> /\ q' = SubSeq(q, 1, Len(q) - 1)

PopFront == q # <<>> /\ q' = Tail(q)

Cleanup == q' = <<>>

Next == PushBack \/ PushFront \/ PopBack \/ PopFront \/ Cleanup

Spec == Init /\ [][Next]_q
=============================================================================
