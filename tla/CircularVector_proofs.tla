--------------------------- MODULE CircularVector_proofs -----------------------
(***************************************************************************)
(* Lemmas about the operators of CircularVector, for every set of          *)
(* elements: each operation keeps the shape of the fields and does to the  *)
(* contents what the same operation of a double-ended queue does.          *)
(***************************************************************************)
EXTENDS CircularVector, TLAPS

-----------------------------------------------------------------------------
(* What the fields of a vector are, and how many elements it holds.        *)

LEMMA VectorFields ==
  ASSUME NEW v, IsVector(v)
  PROVE  /\ v.cap \in Nat /\ v.head \in Nat /\ v.tail \in Nat
         /\ v.buf \in [0 .. v.cap - 1 -> Elem]
         /\ v = [buf |-> v.buf, cap |-> v.cap, head |-> v.head, tail |-> v.tail]
         /\ \/ v.cap = 0 /\ v.head = 0 /\ v.tail = 0
            \/ v.cap > 0 /\ v.head = 0 /\ v.tail = v.cap
            \/ v.cap > 0 /\ v.head < v.cap /\ v.tail < v.cap
  BY DEF IsVector

LEMMA SizeOfVector ==
  ASSUME NEW v, IsVector(v)
  PROVE  /\ size(v) \in 0 .. v.cap
         /\ empty(v) <=> size(v) = 0
         /\ \A i \in 0 .. size(v) - 1 : slot(v, i) \in 0 .. v.cap - 1 /\ at(v, i) \in Elem
  BY VectorFields DEF size, empty, slot, at

LEMMA ContentsIsSequence ==
  ASSUME NEW v, IsVector(v)
  PROVE  /\ Contents(v) \in Seq(Elem)
         /\ Len(Contents(v)) = size(v)
         /\ \A i \in 1 .. size(v) : Contents(v)[i] = at(v, i - 1)
  <1>1. size(v) \in Nat /\ \A i \in 1 .. size(v) : at(v, i - 1) \in Elem
    BY SizeOfVector, VectorFields
  <1>2. Contents(v) \in [1 .. size(v) -> Elem]
    BY <1>1 DEF Contents
  <1> QED BY <1>1, <1>2 DEF Contents

LEMMA NullIsVector == IsVector(null) /\ size(null) = 0
  BY DEF IsVector, null, size, empty

-----------------------------------------------------------------------------
(* Growing keeps the elements and their order.                             *)

LEMMA ExpandIsVector ==
  ASSUME NEW v, IsVector(v), v.tail = v.head, v.cap # 0
  PROVE  /\ expand(v).buf = [i \in 0 .. 2 * v.cap - 1 |->
                               IF i < v.tail THEN v.buf[i]
                               ELSE IF i >= v.cap + v.head THEN v.buf[i - v.cap]
                               ELSE Blank]
         /\ expand(v).cap = 2 * v.cap
         /\ expand(v).head = v.cap + v.head
         /\ expand(v).tail = v.tail
         /\ IsVector(expand(v))
  <1>1. /\ v.cap \in Nat /\ v.cap > 0 /\ v.head \in Nat /\ v.tail = v.head /\ v.head < v.cap
        /\ v.buf \in [0 .. v.cap - 1 -> Elem]
    BY VectorFields
  <1> DEFINE b == [i \in 0 .. 2 * v.cap - 1 |->
                     IF i < v.tail THEN v.buf[i]
                     ELSE IF i >= v.cap + v.head THEN v.buf[i - v.cap]
                     ELSE Blank]
  <1>2. expand(v) = [buf |-> b, cap |-> 2 * v.cap, head |-> v.cap + v.head, tail |-> v.tail]
    BY DEF expand
  <1>3. b \in [0 .. 2 * v.cap - 1 -> Elem]
    <2> SUFFICES ASSUME NEW i \in 0 .. 2 * v.cap - 1
                 PROVE  b[i] \in Elem
      OBVIOUS
    <2>1. CASE i < v.tail
      <3>1. i \in 0 .. v.cap - 1 /\ b[i] = v.buf[i]
        BY <1>1, <2>1
      <3> QED BY <1>1, <3>1
    <2>2. CASE ~(i < v.tail) /\ i >= v.cap + v.head
      <3>1. i - v.cap \in 0 .. v.cap - 1 /\ b[i] = v.buf[i - v.cap]
        BY <1>1, <2>2
      <3> QED BY <1>1, <3>1
    <2>3. CASE ~(i < v.tail) /\ ~(i >= v.cap + v.head)
      BY <2>3, BlankAssumption
    <2> QED BY <2>1, <2>2, <2>3
  <1> HIDE DEF b
  <1>4. IsVector(expand(v))
    BY <1>1, <1>2, <1>3 DEF IsVector
  <1> QED BY <1>2, <1>4 DEF b

LEMMA RoomKeepsElements ==
  ASSUME NEW v, IsVector(v)
  PROVE  /\ IsVector(room(v))
         /\ room(v).cap > 0
         /\ room(v).tail # room(v).head
         /\ size(room(v)) = size(v)
         /\ \A i \in 0 .. size(v) - 1 : at(room(v), i) = at(v, i)
  <1>1. CASE v.tail # v.head
    BY <1>1, VectorFields DEF room
  <1>2. CASE v.tail = v.head /\ v.cap = 0
    BY <1>2, BlankAssumption DEF IsVector, room, expand, size, empty
  <1>3. CASE v.tail = v.head /\ v.cap # 0
    <2>1. room(v) = expand(v)
      BY <1>3 DEF room
    <2>2. /\ v.cap \in Nat /\ v.cap > 0 /\ v.head \in Nat /\ v.tail = v.head /\ v.head < v.cap
      BY <1>3, VectorFields
    <2> DEFINE w == expand(v)
    <2>3. /\ IsVector(w) /\ w.cap = 2 * v.cap /\ w.head = v.cap + v.head /\ w.tail = v.tail
      BY <1>3, ExpandIsVector
    <2>4. /\ \A i \in 0 .. v.tail - 1 : w.buf[i] = v.buf[i]
          /\ \A i \in v.head .. v.cap - 1 : w.buf[v.cap + i] = v.buf[i]
      <3>1. w.buf = [i \in 0 .. 2 * v.cap - 1 |->
                       IF i < v.tail THEN v.buf[i]
                       ELSE IF i >= v.cap + v.head THEN v.buf[i - v.cap]
                       ELSE Blank]
        BY <1>3, ExpandIsVector
      <3>2. ASSUME NEW i \in v.head .. v.cap - 1
            PROVE  w.buf[v.cap + i] = v.buf[i]
        <4>1. /\ v.cap + i \in 0 .. 2 * v.cap - 1
              /\ ~(v.cap + i < v.tail)
              /\ v.cap + i >= v.cap + v.head
              /\ (v.cap + i) - v.cap = i
          BY <2>2
        <4> HIDE DEF w
        <4> QED BY <3>1, <4>1
      <3>3. ASSUME NEW i \in 0 .. v.tail - 1
            PROVE  w.buf[i] = v.buf[i]
        <4>1. i \in 0 .. 2 * v.cap - 1 /\ i < v.tail
          BY <2>2
        <4> HIDE DEF w
        <4> QED BY <3>1, <4>1
      <3> QED BY <3>2, <3>3
    <2> HIDE DEF w
    <2>5. size(v) = v.cap /\ size(w) = v.cap
      BY <2>2, <2>3 DEF size, empty
    <2>6. ASSUME NEW i \in 0 .. size(v) - 1
          PROVE  at(w, i) = at(v, i)
      <3>1. CASE i < v.cap - v.head
        <4>1. slot(v, i) = v.head + i /\ slot(w, i) = v.cap + (v.head + i)
          BY <2>2, <2>3, <2>5, <3>1 DEF slot
        <4> QED BY <2>2, <2>4, <3>1, <4>1 DEF at
      <3>2. CASE ~(i < v.cap - v.head)
        <4>1. slot(v, i) = i - (v.cap - v.head) /\ slot(w, i) = i - (v.cap - v.head)
          BY <2>2, <2>3, <2>5, <3>2 DEF slot
        <4>2. i - (v.cap - v.head) \in 0 .. v.tail - 1
          BY <2>2, <2>5, <3>2
        <4> QED BY <2>4, <4>1, <4>2 DEF at
      <3> QED BY <3>1, <3>2
    <2> QED
      BY <2>1, <2>2, <2>3, <2>5, <2>6 DEF w
  <1> QED BY <1>1, <1>2, <1>3

-----------------------------------------------------------------------------
(* Pushing.                                                                *)

LEMMA PutBackElements ==
  ASSUME NEW v, IsVector(v), v.cap > 0, v.tail # v.head, NEW t \in Elem
  PROVE  /\ IsVector(putBack(v, t))
         /\ size(putBack(v, t)) = size(v) + 1
         /\ \A i \in 0 .. size(v) - 1 : at(putBack(v, t), i) = at(v, i)
         /\ at(putBack(v, t), size(v)) = t
  <1>1. /\ v.cap \in Nat /\ v.head \in Nat /\ v.tail \in Nat
        /\ v.buf \in [0 .. v.cap - 1 -> Elem]
        /\ v = [buf |-> v.buf, cap |-> v.cap, head |-> v.head, tail |-> v.tail]
        /\ \/ v.head = 0 /\ v.tail = v.cap
           \/ v.head < v.cap /\ v.tail < v.cap
    BY VectorFields
  <1> DEFINE k == IF v.tail = v.cap THEN 0 ELSE v.tail
             w == putBack(v, t)
  <1>2. /\ w.buf = [v.buf EXCEPT ![k] = t]
        /\ w.cap = v.cap
        /\ w.head = v.head
        /\ w.tail = (IF k + 1 = v.cap THEN 0 ELSE k + 1)
        /\ w = [buf |-> w.buf, cap |-> w.cap, head |-> w.head, tail |-> w.tail]
    BY <1>1 DEF putBack
  <1>3. k \in 0 .. v.cap - 1
    BY <1>1
  <1>4. /\ w.buf \in [0 .. v.cap - 1 -> Elem]
        /\ w.buf[k] = t
        /\ \A i \in 0 .. v.cap - 1 : i # k => w.buf[i] = v.buf[i]
    BY <1>1, <1>2, <1>3
  <1> HIDE DEF w
  <1>5. IsVector(w)
    BY <1>1, <1>2, <1>4 DEF IsVector
  <1>6. size(w) = size(v) + 1
    <2>1. CASE v.tail = v.cap
      BY <1>1, <1>2, <2>1 DEF size, empty
    <2>2. CASE v.tail # v.cap
      <3>1. size(v) = IF v.tail > v.head THEN v.tail - v.head ELSE (v.cap - v.head) + v.tail
        BY <1>1, <2>2 DEF size, empty
      <3>2. size(w) = IF w.tail > v.head THEN w.tail - v.head ELSE (v.cap - v.head) + w.tail
        BY <1>1, <1>2, <2>2 DEF size, empty
      <3> QED BY <1>1, <1>2, <2>2, <3>1, <3>2
    <2> QED BY <2>1, <2>2
  <1>7. slot(w, size(v)) = k
    BY <1>1, <1>2 DEF size, empty, slot
  <1>8. ASSUME NEW i \in 0 .. size(v) - 1
        PROVE  slot(w, i) = slot(v, i) /\ slot(v, i) # k
    BY <1>1, <1>2 DEF size, empty, slot
  <1>9. \A i \in 0 .. size(v) - 1 : at(w, i) = at(v, i)
    BY <1>4, <1>8, SizeOfVector DEF at
  <1> QED BY <1>4, <1>5, <1>6, <1>7, <1>9 DEF w, at

(* push_back: one more element, at the end. *)
LEMMA PushBackElements ==
  ASSUME NEW v, IsVector(v), NEW t \in Elem
  PROVE  /\ IsVector(push_back(v, t))
         /\ size(push_back(v, t)) = size(v) + 1
         /\ Contents(push_back(v, t)) = Append(Contents(v), t)
  <1> DEFINE w == push_back(v, t)
  <1>1. /\ IsVector(w)
        /\ size(w) = size(v) + 1
        /\ \A i \in 0 .. size(v) - 1 : at(w, i) = at(v, i)
        /\ at(w, size(v)) = t
    BY RoomKeepsElements, PutBackElements DEF push_back
  <1> HIDE DEF w
  <1>2. size(v) \in Nat
    BY SizeOfVector, VectorFields
  <1>3. Contents(w) = Append(Contents(v), t)
    <2>1. /\ Contents(w) \in Seq(Elem) /\ Contents(v) \in Seq(Elem)
          /\ Len(Contents(w)) = size(w) /\ Len(Contents(v)) = size(v)
      BY <1>1, ContentsIsSequence
    <2>2. ASSUME NEW i \in 1 .. size(v) + 1
          PROVE  Contents(w)[i] = Append(Contents(v), t)[i]
      <3>1. Contents(w)[i] = at(w, i - 1)
        BY <1>1, ContentsIsSequence
      <3>2. CASE i = size(v) + 1
        BY <1>1, <1>2, <2>1, <3>1, <3>2
      <3>3. CASE i \in 1 .. size(v)
        BY <1>1, <1>2, <2>1, <3>1, <3>3, ContentsIsSequence
      <3>4. i = size(v) + 1 \/ i \in 1 .. size(v)
        BY <1>2
      <3> QED BY <3>2, <3>3, <3>4
    <2> QED BY <1>1, <1>2, <2>1, <2>2
  <1> QED BY <1>1, <1>3 DEF w

LEMMA PutFrontElements ==
  ASSUME NEW v, IsVector(v), ~empty(v), v.tail # v.head, NEW t \in Elem
  PROVE  /\ IsVector(putFront(v, t))
         /\ size(putFront(v, t)) = size(v) + 1
         /\ \A i \in 0 .. size(v) - 1 : at(putFront(v, t), i + 1) = at(v, i)
         /\ at(putFront(v, t), 0) = t
  <1>1. /\ v.cap \in Nat /\ v.head \in Nat /\ v.tail \in Nat
        /\ v.buf \in [0 .. v.cap - 1 -> Elem]
        /\ v.cap > 0 /\ v.head < v.cap /\ v.tail < v.cap
    BY VectorFields DEF empty
  <1> DEFINE k == (IF v.head = 0 THEN v.cap ELSE v.head) - 1
             w == putFront(v, t)
  <1>2. /\ w = [buf |-> w.buf, cap |-> w.cap, head |-> w.head, tail |-> w.tail]
        /\ w.buf = [v.buf EXCEPT ![k] = t]
        /\ w.cap = v.cap
        /\ w.head = k
        /\ w.tail = v.tail
    BY DEF putFront
  <1>3. k \in 0 .. v.cap - 1
    BY <1>1
  <1>4. /\ w.buf \in [0 .. v.cap - 1 -> Elem]
        /\ w.buf[k] = t
        /\ \A i \in 0 .. v.cap - 1 : i # k => w.buf[i] = v.buf[i]
    BY <1>1, <1>2, <1>3
  <1> HIDE DEF w
  <1>5. IsVector(w)
    BY <1>1, <1>2, <1>3, <1>4 DEF IsVector
  <1>6. /\ size(v) = IF v.tail > v.head THEN v.tail - v.head ELSE (v.cap - v.head) + v.tail
        /\ size(w) = IF v.tail > k THEN v.tail - k ELSE (v.cap - k) + v.tail
    BY <1>1, <1>2 DEF size, empty
  <1>7. size(w) = size(v) + 1
    BY <1>1, <1>6
  <1>8. slot(w, 0) = k
    BY <1>1, <1>2 DEF slot
  <1>9. ASSUME NEW i \in 0 .. size(v) - 1
        PROVE  slot(w, i + 1) = slot(v, i) /\ slot(v, i) # k
    <2>1. slot(w, i + 1) = IF v.tail > k \/ i + 1 < v.cap - k
                           THEN k + (i + 1)
                           ELSE (i + 1) - (v.cap - k)
      BY <1>2 DEF slot
    <2>2. slot(v, i) = IF v.tail > v.head \/ i < v.cap - v.head
                       THEN v.head + i
                       ELSE i - (v.cap - v.head)
      BY DEF slot
    <2>3. i \in Int /\ i >= 0 /\ i < size(v)
      BY <1>1, <1>6
    <2>4. CASE v.head = 0
      <3>1. k = v.cap - 1 /\ ~(v.tail > k)
        BY <1>1, <2>4
      <3> QED BY <1>1, <1>6, <2>1, <2>2, <2>3, <2>4, <3>1
    <2>5. CASE v.head # 0 /\ v.tail > v.head
      <3>1. k = v.head - 1 /\ v.tail > k
        BY <1>1, <2>5
      <3> QED BY <1>1, <1>6, <2>1, <2>2, <2>3, <2>5, <3>1
    <2>6. CASE v.head # 0 /\ ~(v.tail > v.head)
      <3>1. k = v.head - 1 /\ ~(v.tail > k)
        BY <1>1, <2>6
      <3>2. size(v) = (v.cap - v.head) + v.tail /\ v.tail < v.head
        BY <1>1, <1>6, <2>6
      <3>3. CASE i < v.cap - v.head
        <4>1. slot(w, i + 1) = k + (i + 1) /\ slot(v, i) = v.head + i
          BY <1>1, <2>1, <2>2, <2>3, <3>1, <3>3
        <4> QED BY <1>1, <2>3, <3>1, <4>1
      <3>4. CASE ~(i < v.cap - v.head)
        <4>1. slot(w, i + 1) = (i + 1) - (v.cap - k) /\ slot(v, i) = i - (v.cap - v.head)
          BY <1>1, <2>1, <2>2, <2>3, <2>6, <3>1, <3>4
        <4>2. slot(w, i + 1) = slot(v, i) BY <1>1, <2>3, <3>1, <4>1
        <4>3. i < (v.cap - v.head) + v.tail BY <2>3, <3>2
        <4>4. slot(v, i) < v.head - 1 BY <1>1, <2>3, <3>2, <4>1, <4>3
        <4> QED BY <1>1, <2>3, <3>1, <4>1, <4>2, <4>4
      <3> QED BY <3>3, <3>4
    <2> QED BY <2>4, <2>5, <2>6
  <1>10. \A i \in 0 .. size(v) - 1 : at(w, i + 1) = at(v, i)
    BY <1>4, <1>9, SizeOfVector DEF at
  <1> QED BY <1>4, <1>5, <1>7, <1>8, <1>10 DEF w, at

(* push_front on a vector that is not empty: one more element, in front. *)
LEMMA PushFrontElements ==
  ASSUME NEW v, IsVector(v), ~empty(v), NEW t \in Elem
  PROVE  /\ IsVector(push_front(v, t))
         /\ size(push_front(v, t)) = size(v) + 1
         /\ Contents(push_front(v, t)) = <<t>> \o Contents(v)
  <1> DEFINE w == push_front(v, t)
  <1>1. size(v) \in Nat /\ size(v) # 0
    BY SizeOfVector, VectorFields
  <1>2. /\ IsVector(w)
        /\ size(w) = size(v) + 1
        /\ \A i \in 0 .. size(v) - 1 : at(w, i + 1) = at(v, i)
        /\ at(w, 0) = t
    <2>1. ~empty(room(v))
      BY <1>1, RoomKeepsElements, SizeOfVector
    <2> QED BY <2>1, RoomKeepsElements, PutFrontElements DEF push_front
  <1> HIDE DEF w
  <1>3. Contents(w) = <<t>> \o Contents(v)
    <2>1. /\ Contents(w) \in Seq(Elem) /\ Contents(v) \in Seq(Elem)
          /\ Len(Contents(w)) = size(w) /\ Len(Contents(v)) = size(v)
      BY <1>2, ContentsIsSequence
    <2>2. ASSUME NEW i \in 1 .. size(v) + 1
          PROVE  Contents(w)[i] = (<<t>> \o Contents(v))[i]
      <3>1. Contents(w)[i] = at(w, i - 1)
        BY <1>2, ContentsIsSequence
      <3>2. CASE i = 1
        BY <1>2, <2>1, <3>1, <3>2
      <3>3. CASE i \in 2 .. size(v) + 1
        <4>1. i - 1 \in 1 .. size(v) /\ i - 2 \in 0 .. size(v) - 1 /\ (i - 2) + 1 = i - 1
          BY <1>1, <3>3
        <4>2. Contents(v)[i - 1] = at(v, (i - 1) - 1) /\ (i - 1) - 1 = i - 2
          BY <4>1, ContentsIsSequence
        <4>3. at(w, i - 1) = at(v, i - 2)
          BY <1>2, <4>1
        <4>4. (<<t>> \o Contents(v))[i] = Contents(v)[i - 1]
          BY <1>1, <2>1, <3>3
        <4> QED BY <3>1, <4>2, <4>3, <4>4
      <3>4. i = 1 \/ i \in 2 .. size(v) + 1
        BY <1>1
      <3> QED BY <3>2, <3>3, <3>4
    <2>3. /\ <<t>> \o Contents(v) \in Seq(Elem)
          /\ Len(<<t>> \o Contents(v)) = size(v) + 1
      BY <1>1, <2>1
    <2> DEFINE u == <<t>> \o Contents(v)
    <2> HIDE DEF u
    <2>4. u \in Seq(Elem) /\ Len(u) = size(v) + 1
      BY <2>3 DEF u
    <2>5. \A i \in 1 .. size(v) + 1 : Contents(w)[i] = u[i]
      BY <2>2 DEF u
    <2>6. Contents(w) = u
      BY <1>1, <1>2, <2>1, <2>4, <2>5
    <2> QED BY <2>6 DEF u
  <1> QED BY <1>2, <1>3 DEF w

-----------------------------------------------------------------------------
(* Popping.                                                                *)

LEMMA PopFrontElements ==
  ASSUME NEW v, IsVector(v), ~empty(v)
  PROVE  /\ IsVector(pop_front(v))
         /\ size(pop_front(v)) = size(v) - 1
         /\ Contents(pop_front(v)) = Tail(Contents(v))
         /\ \A i \in 0 .. size(v) - 2 : slot(pop_front(v), i) = slot(v, i + 1)
  <1>1. /\ v.cap \in Nat /\ v.head \in Nat /\ v.tail \in Nat
        /\ v.buf \in [0 .. v.cap - 1 -> Elem]
        /\ v.cap > 0 /\ v.head < v.cap /\ v.tail < v.cap
    BY VectorFields DEF empty
  <1> DEFINE k == IF v.head + 1 = v.cap THEN 0 ELSE v.head + 1
             w == pop_front(v)
  <1>2. /\ w = [buf |-> w.buf, cap |-> w.cap, head |-> w.head, tail |-> w.tail]
        /\ w.buf = v.buf
        /\ w.cap = v.cap
        /\ w.head = (IF v.tail = k THEN 0 ELSE k)
        /\ w.tail = (IF v.tail = k THEN v.cap ELSE v.tail)
    BY DEF pop_front, withEnds
  <1> HIDE DEF w
  <1>3. IsVector(w)
    BY <1>1, <1>2 DEF IsVector
  <1>4. size(v) = IF v.tail > v.head THEN v.tail - v.head ELSE (v.cap - v.head) + v.tail
    BY <1>1 DEF size, empty
  <1>5. size(w) = size(v) - 1
    <2>1. CASE v.tail = k
      BY <1>1, <1>2, <1>4, <2>1 DEF size, empty
    <2>2. CASE v.tail # k
      <3>1. size(w) = IF v.tail > k THEN v.tail - k ELSE (v.cap - k) + v.tail
        BY <1>1, <1>2, <2>2 DEF size, empty
      <3>2. CASE v.head + 1 = v.cap
        BY <1>1, <1>4, <2>2, <3>1, <3>2
      <3>3. CASE v.head + 1 # v.cap
        BY <1>1, <1>4, <2>2, <3>1, <3>3
      <3> QED BY <3>2, <3>3
    <2> QED BY <2>1, <2>2
  <1>6. ASSUME NEW i \in 0 .. size(v) - 2
        PROVE  slot(w, i) = slot(v, i + 1)
    <2>1. v.tail # k
      BY <1>1, <1>4
    <2>2. /\ w.head = k /\ w.tail = v.tail /\ w.cap = v.cap
      BY <1>2, <2>1
    <2>3. slot(w, i) = IF v.tail > k \/ i < v.cap - k
                       THEN k + i
                       ELSE i - (v.cap - k)
      BY <2>2 DEF slot
    <2>4. slot(v, i + 1) = IF v.tail > v.head \/ i + 1 < v.cap - v.head
                           THEN v.head + (i + 1)
                           ELSE (i + 1) - (v.cap - v.head)
      BY DEF slot
    <2>5. CASE v.tail > v.head
      <3>1. v.head + 1 < v.cap /\ k = v.head + 1 /\ v.tail > k
        BY <1>1, <2>1, <2>5
      <3> QED BY <1>1, <2>3, <2>4, <2>5, <3>1
    <2>6. CASE ~(v.tail > v.head)
      <3>1. CASE v.head + 1 = v.cap
        <4>1. k = 0 /\ v.tail > k /\ i >= 0 /\ i \in Int
          BY <1>1, <1>4, <2>1, <2>6, <3>1
        <4> QED BY <1>1, <2>3, <2>4, <2>6, <3>1, <4>1
      <3>2. CASE v.head + 1 # v.cap
        <4>1. k = v.head + 1 /\ ~(v.tail > k) /\ i \in Int
          BY <1>1, <2>6, <3>2
        <4>2. CASE i < v.cap - k
          <5>1. slot(w, i) = k + i /\ slot(v, i + 1) = v.head + (i + 1)
            BY <1>1, <2>3, <2>4, <4>1, <4>2
          <5> QED BY <1>1, <4>1, <5>1
        <4>3. CASE ~(i < v.cap - k)
          <5>1. slot(w, i) = i - (v.cap - k) /\ slot(v, i + 1) = (i + 1) - (v.cap - v.head)
            BY <1>1, <2>3, <2>4, <2>6, <4>1, <4>3
          <5> QED BY <1>1, <4>1, <5>1
        <4> QED BY <4>2, <4>3
      <3> QED BY <3>1, <3>2
    <2> QED BY <2>5, <2>6
  <1>7. \A i \in 0 .. size(v) - 2 : at(w, i) = at(v, i + 1)
    BY <1>2, <1>6 DEF at
  <1>8. Contents(w) = Tail(Contents(v))
    <2>1. size(v) \in Nat /\ size(v) # 0
      BY SizeOfVector, VectorFields
    <2>2. /\ Contents(w) \in Seq(Elem) /\ Contents(v) \in Seq(Elem)
          /\ Len(Contents(w)) = size(w) /\ Len(Contents(v)) = size(v)
      BY <1>3, ContentsIsSequence
    <2>3. /\ Tail(Contents(v)) \in Seq(Elem)
          /\ Len(Tail(Contents(v))) = size(v) - 1
          /\ \A i \in 1 .. size(v) - 1 : Tail(Contents(v))[i] = Contents(v)[i + 1]
      BY <2>1, <2>2
    <2>4. ASSUME NEW i \in 1 .. size(v) - 1
          PROVE  Contents(w)[i] = Contents(v)[i + 1]
      <3>1. i - 1 \in 0 .. size(v) - 2 /\ (i - 1) + 1 = i /\ (i + 1) - 1 = i
            /\ i + 1 \in 1 .. size(v) /\ i \in 1 .. size(w)
        BY <1>5, <2>1
      <3>2. Contents(w)[i] = at(w, i - 1)
        BY <1>3, <3>1, ContentsIsSequence
      <3>3. Contents(v)[i + 1] = at(v, (i + 1) - 1)
        BY <3>1, ContentsIsSequence
      <3> QED BY <1>7, <3>1, <3>2, <3>3
    <2> QED BY <1>5, <2>1, <2>2, <2>3, <2>4
  <1> QED BY <1>3, <1>5, <1>6, <1>8 DEF w

LEMMA PopBackElements ==
  ASSUME NEW v, IsVector(v), ~empty(v)
  PROVE  /\ IsVector(pop_back(v))
         /\ size(pop_back(v)) = size(v) - 1
         /\ Contents(pop_back(v)) = SubSeq(Contents(v), 1, Len(Contents(v)) - 1)
  <1>1. /\ v.cap \in Nat /\ v.head \in Nat /\ v.tail \in Nat
        /\ v.buf \in [0 .. v.cap - 1 -> Elem]
        /\ v.cap > 0 /\ v.head < v.cap /\ v.tail < v.cap
    BY VectorFields DEF empty
  <1> DEFINE k == (IF v.tail = 0 THEN v.cap ELSE v.tail) - 1
             w == pop_back(v)
  <1>2. /\ w = [buf |-> w.buf, cap |-> w.cap, head |-> w.head, tail |-> w.tail]
        /\ w.buf = v.buf
        /\ w.cap = v.cap
        /\ w.head = (IF k = v.head THEN 0 ELSE v.head)
        /\ w.tail = (IF k = v.head THEN v.cap ELSE k)
    BY DEF pop_back, withEnds
  <1> HIDE DEF w
  <1>3. IsVector(w)
    BY <1>1, <1>2 DEF IsVector
  <1>4. size(v) = IF v.tail > v.head THEN v.tail - v.head ELSE (v.cap - v.head) + v.tail
    BY <1>1 DEF size, empty
  <1>5. size(w) = size(v) - 1
    <2>1. CASE k = v.head
      BY <1>1, <1>2, <1>4, <2>1 DEF size, empty
    <2>2. CASE k # v.head
      <3>1. size(w) = IF k > v.head THEN k - v.head ELSE (v.cap - v.head) + k
        BY <1>1, <1>2, <2>2 DEF size, empty
      <3>2. CASE v.tail = 0
        <4>1. k = v.cap - 1 /\ k > v.head BY <1>1, <2>2, <3>2
        <4>2. size(v) = v.cap - v.head BY <1>1, <1>4, <3>2
        <4> QED BY <1>1, <3>1, <4>1, <4>2
      <3>3. CASE v.tail # 0
        BY <1>1, <1>4, <2>2, <3>1, <3>3
      <3> QED BY <3>2, <3>3
    <2> QED BY <2>1, <2>2
  <1>6. ASSUME NEW i \in 0 .. size(v) - 2
        PROVE  slot(w, i) = slot(v, i)
    <2>1. k # v.head
      BY <1>1, <1>4
    <2> QED BY <1>1, <1>2, <1>4, <2>1 DEF slot
  <1>7. \A i \in 0 .. size(v) - 2 : at(w, i) = at(v, i)
    BY <1>2, <1>6 DEF at
  <1>8. Contents(w) = SubSeq(Contents(v), 1, Len(Contents(v)) - 1)
    <2>1. size(v) \in Nat /\ size(v) # 0
      BY SizeOfVector, VectorFields
    <2>2. /\ Contents(w) \in Seq(Elem) /\ Contents(v) \in Seq(Elem)
          /\ Len(Contents(w)) = size(w) /\ Len(Contents(v)) = size(v)
      BY <1>3, ContentsIsSequence
    <2> DEFINE u == SubSeq(Contents(v), 1, Len(Contents(v)) - 1)
    <2>3. /\ u \in Seq(Elem)
          /\ Len(u) = size(v) - 1
          /\ \A i \in 1 .. size(v) - 1 : u[i] = Contents(v)[i]
      BY <2>1, <2>2
    <2> HIDE DEF u
    <2>4. ASSUME NEW i \in 1 .. size(v) - 1
          PROVE  Contents(w)[i] = Contents(v)[i]
      <3>1. i - 1 \in 0 .. size(v) - 2 /\ i \in 1 .. size(v) /\ i \in 1 .. size(w)
        BY <1>5, <2>1
      <3>2. Contents(w)[i] = at(w, i - 1)
        BY <1>3, <3>1, ContentsIsSequence
      <3>3. Contents(v)[i] = at(v, i - 1)
        BY <3>1, ContentsIsSequence
      <3> QED BY <1>7, <3>1, <3>2, <3>3
    <2>5. Contents(w) = u
      BY <1>5, <2>1, <2>2, <2>3, <2>4
    <2> QED BY <2>5 DEF u
  <1> QED BY <1>3, <1>5, <1>8 DEF w
=============================================================================
