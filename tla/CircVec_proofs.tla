--------------------------- MODULE CircVec_proofs ---------------------------
(***************************************************************************)
(* For every set of elements and every bound on their number: a circular   *)
(* vector keeps the shape of its fields, its empty() never fails its       *)
(* assert, and it implements the double-ended queue.                       *)
(***************************************************************************)
EXTENDS CircVec, CircularVector_proofs

LEMMA InitTypeOK == Init => TypeOK
  BY NullIsVector DEF Init, TypeOK

LEMMA NextTypeOK == TypeOK /\ [Next]_vec => TypeOK'
  <1> SUFFICES ASSUME TypeOK, [Next]_vec
               PROVE  TypeOK'
    OBVIOUS
  <1>0. IsVector(vec)
    BY DEF TypeOK
  <1>1. ASSUME NEW t \in Elem, PushBack(t)
        PROVE  TypeOK'
    BY <1>0, <1>1, PushBackElements DEF PushBack, TypeOK
  <1>2. ASSUME NEW t \in Elem, ~empty(vec), PushFront(t)
        PROVE  TypeOK'
    BY <1>0, <1>2, PushFrontElements DEF PushFront, TypeOK
  <1>3. CASE PopBack
    BY <1>0, <1>3, PopBackElements DEF PopBack, TypeOK
  <1>4. CASE PopFront
    BY <1>0, <1>4, PopFrontElements DEF PopFront, TypeOK
  <1>5. CASE Cleanup
    BY <1>5, NullIsVector DEF Cleanup, TypeOK
  <1>6. CASE UNCHANGED vec
    BY <1>6 DEF TypeOK
  <1> QED BY <1>1, <1>2, <1>3, <1>4, <1>5, <1>6 DEF Next

(***************************************************************************)
(* The fields of the vector stay in the table at the head of               *)
(* CircularVector, whatever the elements and however many.                 *)
(***************************************************************************)
THEOREM TypeCorrect == Spec => []TypeOK
  BY InitTypeOK, NextTypeOK, PTL DEF Spec

-----------------------------------------------------------------------------
LEMMA InitRefines == Init => Abstract!Init
  <1> SUFFICES ASSUME Init PROVE Contents(vec) = <<>>
    BY DEF Abstract!Init
  <1>1. IsVector(vec) /\ size(vec) = 0
    BY NullIsVector DEF Init
  <1>2. Contents(vec) \in Seq(Elem) /\ Len(Contents(vec)) = 0
    BY <1>1, ContentsIsSequence
  <1> QED BY <1>2

LEMMA NextRefines == TypeOK /\ [Next]_vec => [Abstract!Next]_(Contents(vec))
  <1> SUFFICES ASSUME TypeOK, [Next]_vec
               PROVE  [Abstract!Next]_(Contents(vec))
    OBVIOUS
  <1>0. IsVector(vec)
    BY DEF TypeOK
  <1>nonempty. ASSUME ~empty(vec) PROVE Contents(vec) # <<>>
    BY <1>0, <1>nonempty, ContentsIsSequence, SizeOfVector
  <1>1. ASSUME NEW t \in Elem, PushBack(t)
        PROVE  Abstract!PushBack
    BY <1>0, <1>1, PushBackElements DEF PushBack, Abstract!PushBack
  <1>2. ASSUME NEW t \in Elem, ~empty(vec), PushFront(t)
        PROVE  Abstract!PushFront
    BY <1>0, <1>2, PushFrontElements DEF PushFront, Abstract!PushFront
  <1>3. CASE PopBack
    <2>1. ~empty(vec) /\ Contents(vec)' = SubSeq(Contents(vec), 1, Len(Contents(vec)) - 1)
      BY <1>0, <1>3, PopBackElements DEF PopBack
    <2> QED BY <1>nonempty, <2>1 DEF Abstract!Next, Abstract!PopBack
  <1>4. CASE PopFront
    <2>1. ~empty(vec) /\ Contents(vec)' = Tail(Contents(vec))
      BY <1>0, <1>4, PopFrontElements DEF PopFront
    <2> QED BY <1>nonempty, <2>1 DEF Abstract!Next, Abstract!PopFront
  <1>5. CASE Cleanup
    <2>1. IsVector(null) /\ Contents(null) \in Seq(Elem) /\ Len(Contents(null)) = 0
      BY NullIsVector, ContentsIsSequence
    <2>2. Contents(vec)' = <<>>
      BY <1>5, <2>1 DEF Cleanup
    <2> QED BY <2>2 DEF Abstract!Next, Abstract!Cleanup
  <1>6. CASE UNCHANGED vec
    BY <1>6
  <1> QED BY <1>1, <1>2, <1>3, <1>4, <1>5, <1>6 DEF Next, Abstract!Next

(***************************************************************************)
(* The vector is a double-ended queue: its elements from front to back,    *)
(* read around the end of the buffer and across every reallocation, change *)
(* as a sequence under Append, concatenation, Tail and SubSeq does.        *)
(***************************************************************************)
THEOREM Refinement == Spec => ImplementsDeque
  BY InitTypeOK, NextTypeOK, InitRefines, NextRefines, PTL
     DEF Spec, ImplementsDeque, Abstract!Spec

-----------------------------------------------------------------------------
LEMMA PushKeepsBuffer ==
  ASSUME NEW v, IsVector(v), size(v) # v.cap
  PROVE  /\ \A t : push_back(v, t).cap = v.cap
         /\ \A t : push_front(v, t).cap = v.cap
  <1>1. v.tail # v.head
    BY VectorFields DEF size, empty
  <1>2. room(v) = v
    BY <1>1 DEF room
  <1> QED BY <1>2 DEF push_back, push_front, putBack, putFront

LEMMA NextGrows == TypeOK /\ [Next]_vec =>
                     (vec'.cap # vec.cap => size(vec) = vec.cap \/ vec' = null)
  <1> SUFFICES ASSUME TypeOK, [Next]_vec, size(vec) # vec.cap, vec' # null
               PROVE  vec'.cap = vec.cap
    OBVIOUS
  <1>1. CASE \E t \in Elem : PushBack(t) \/ PushFront(t)
    BY <1>1, PushKeepsBuffer DEF TypeOK, PushBack, PushFront
  <1>2. CASE PopBack \/ PopFront
    BY <1>2 DEF PopBack, PopFront, pop_back, pop_front, withEnds
  <1> QED BY <1>1, <1>2 DEF Next, Cleanup

(***************************************************************************)
(* A push reallocates the buffer only if every slot of it holds an         *)
(* element: head meets tail in no other reachable vector, the emptied one, *)
(* whose tail is its capacity, included.                                   *)
(***************************************************************************)
THEOREM GrowsWhenFull == Spec => GrowsOnlyWhenFull
  BY TypeCorrect, NextGrows, PTL DEF Spec, GrowsOnlyWhenFull
=============================================================================
