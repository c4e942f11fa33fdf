------------------------------- MODULE CircVec ------------------------------
(***************************************************************************)
(* One CircularVector_t driven through its operations by a client that     *)
(* keeps their preconditions (a pop is only asked of a non-empty vector:   *)
(* the assert in TaskList_t::popTaskFront).  It implements a double-ended  *)
(* queue, as long as push_front meets a non-empty vector.                  *)
(***************************************************************************)
EXTENDS CircularVector

CONSTANT MaxSize   \* bound on the number of elements

ASSUME MaxSizeAssumption == MaxSize \in Nat

VARIABLE vec

Init == vec = null

PushBack(t) == size(vec) < MaxSize /\ vec' = push_back(vec, t)

PushFront(t) == size(vec) < MaxSize /\ vec' = push_front(vec, t)

PopBack == ~empty(vec) /\ vec' = pop_back(vec)

PopFront == ~empty(vec) /\ vec' = pop_front(vec)

Cleanup == vec' = null

Next ==
    \/ \E t \in Elem : PushBack(t) \/ (~empty(vec) /\ PushFront(t))
    \/ PopBack
    \/ PopFront
    \/ Cleanup

Spec == Init /\ [][Next]_vec

-----------------------------------------------------------------------------
(* The fields stay in the table of CircularVector.  In particular empty0() *)
(* finds an empty vector with its head at slot 0: its assert, line 130.    *)
TypeOK == IsVector(vec)

(***************************************************************************)
(* Every operation acts on the elements as the same operation of a         *)
(* double-ended queue does, across wrap-around, growth and emptying.       *)
(***************************************************************************)
Abstract == INSTANCE Deque WITH q <- Contents(vec)

ImplementsDeque == Abstract!Spec

(***************************************************************************)
(* The buffer is reallocated only by a push that finds every slot taken,   *)
(* or dropped as a whole by cleanup().                                     *)
(***************************************************************************)
GrowsOnlyWhenFull ==
    [][vec'.cap # vec.cap => size(vec) = vec.cap \/ vec' = null]_vec
=============================================================================
