--------------------------- MODULE CircularVector ---------------------------
(***************************************************************************)
(* CircularVector_t<T> of shared/circvec.h: the ring buffer under the task *)
(* list of the binary analyzer.  A vector is a record of the fields of the *)
(* class; every operation is an operator from a vector to a vector, so     *)
(* that a machine over any number of vectors can be built from them.       *)
(*                                                                         *)
(* "cap" is what capacity() returns: 0 while mpBuf is null, otherwise      *)
(* 2^mCapacityPow.  The class has no element count.  It tells the empty    *)
(* vector from the full one by where mTail stands:                         *)
(*    never allocated    head = tail = cap = 0                             *)
(*    emptied            head = 0, tail = cap       (cap > 0)              *)
(*    full               head = tail < cap                                 *)
(* and in every other state head and tail delimit the elements, possibly   *)
(* around the end of the buffer.                                           *)
(***************************************************************************)
EXTENDS Integers, Sequences

CONSTANTS Elem,   \* what a slot can hold
          Blank   \* a default-constructed T: what "new T[n]" fills a slot with

ASSUME BlankAssumption == Blank \in Elem

(* The constructor, and cleanup(): no buffer. *)
null == [buf |-> [i \in {} |-> Blank], cap |-> 0, head |-> 0, tail |-> 0]

(* empty0(), without its assert(mHead == 0). *)
empty(v) == ~(v.tail < v.cap)

(* size0() *)
size(v) ==
    IF empty(v) THEN 0
    ELSE IF v.tail > v.head THEN v.tail - v.head
    ELSE (v.cap - v.head) + v.tail

(* The slot that at(index) selects. *)
slot(v, index) ==
    IF v.tail > v.head \/ index < v.cap - v.head
    THEN v.head + index
    ELSE index - (v.cap - v.head)

at(v, index) == v.buf[slot(v, index)]

front(v) == v.buf[v.head]

back(v) == IF v.tail = 0 THEN v.buf[v.cap - 1] ELSE v.buf[v.tail - 1]

(* Mutant of expand: mHead moves, the elements do not. *)
expandMovesHeadOnly(v) ==
    IF v.cap = 0
    THEN [buf |-> [i \in {0} |-> Blank], cap |-> 1, head |-> 0, tail |-> 1]
    ELSE [buf  |-> [i \in 0 .. 2 * v.cap - 1 |-> IF i < v.cap THEN v.buf[i] ELSE Blank],
          cap  |-> 2 * v.cap,
          head |-> v.cap + v.head,
          tail |-> v.tail]

(***************************************************************************)
(* expand(), called when mTail == mHead.  The elements before tail keep    *)
(* their slots, those from head on move to the end of the doubled buffer.  *)
(***************************************************************************)
expand(v) ==
    IF v.cap = 0
    THEN [buf |-> [i \in {0} |-> Blank], cap |-> 1, head |-> 0, tail |-> 1]
    ELSE [buf  |-> [i \in 0 .. 2 * v.cap - 1 |->
                      IF i < v.tail THEN v.buf[i]
                      ELSE IF i >= v.cap + v.head THEN v.buf[i - v.cap]
                      ELSE Blank],
          cap  |-> 2 * v.cap,
          head |-> v.cap + v.head,
          tail |-> v.tail]

(* Mutant of room: grows an emptied vector, too. *)
roomWhenEmptied(v) == IF v.tail \in {v.head, v.cap} THEN expand(v) ELSE v

room(v) == IF v.tail = v.head THEN expand(v) ELSE v

(* The body of push_back after the check for room. *)
putBack(v, t) ==
    LET k == IF v.tail = v.cap THEN 0 ELSE v.tail
    IN  [buf  |-> [v.buf EXCEPT ![k] = t],
         cap  |-> v.cap,
         head |-> v.head,
         tail |-> IF k + 1 = v.cap THEN 0 ELSE k + 1]

push_back(v, t) == putBack(room(v), t)

putFront(v, t) ==
    LET k == (IF v.head = 0 THEN v.cap ELSE v.head) - 1
    IN  [buf |-> [v.buf EXCEPT ![k] = t], cap |-> v.cap, head |-> k, tail |-> v.tail]

push_front(v, t) == putFront(room(v), t)

(* Mutant of withEnds: mHead is not reset. *)
withEndsKeepsHead(v, head, tail) ==
    [buf |-> v.buf, cap |-> v.cap, head |-> head,
     tail |-> IF tail = head THEN v.cap ELSE tail]

(* Both pops end with this: ends that meet are recorded as "emptied". *)
withEnds(v, head, tail) ==
    LET emptied == tail = head
    IN  [buf  |-> v.buf,
         cap  |-> v.cap,
         head |-> IF emptied THEN 0 ELSE head,
         tail |-> IF emptied THEN v.cap ELSE tail]

pop_back(v) == withEnds(v, v.head, (IF v.tail = 0 THEN v.cap ELSE v.tail) - 1)

pop_front(v) == withEnds(v, IF v.head + 1 = v.cap THEN 0 ELSE v.head + 1, v.tail)

-----------------------------------------------------------------------------
(* The elements from front to back, and the slots they occupy. *)
Contents(v) == [i \in 1 .. size(v) |-> at(v, i - 1)]

Live(v) == {slot(v, i) : i \in 0 .. size(v) - 1}

(* The shape of every reachable vector (see the table above). *)
IsVector(v) ==
    /\ v \in [buf : [0 .. v.cap - 1 -> Elem], cap : Nat,
              head : 0 .. v.cap, tail : 0 .. v.cap]
    /\ \/ v.cap = 0 /\ v.head = 0 /\ v.tail = 0
       \/ v.cap > 0 /\ v.head = 0 /\ v.tail = v.cap
       \/ v.cap > 0 /\ v.head < v.cap /\ v.tail < v.cap
=============================================================================
