--------------------------- MODULE TaskList_proofs --------------------------
(***************************************************************************)
(* For every set of addresses, and with no bound on the list: the two sets *)
(* agree with the circular vector after every operation, the whole is the  *)
(* first-in-first-out queue of TaskQueue, and what it refuses is covered.  *)
(***************************************************************************)
EXTENDS TaskList, CircularVector_proofs

-----------------------------------------------------------------------------
(* Sequences without repetition.                                           *)

Members(s) == {s[i] : i \in 1 .. Len(s)}

NoRepeats(s) == \A i, j \in 1 .. Len(s) : i # j => s[i] # s[j]

LEMMA AppendNew ==
  ASSUME NEW S, NEW s \in Seq(S), NEW t \in S, t \notin Members(s), NoRepeats(s)
  PROVE  /\ Append(s, t) \in Seq(S)
         /\ Members(Append(s, t)) = Members(s) \cup {t}
         /\ NoRepeats(Append(s, t))
  <1> DEFINE u == Append(s, t)
  <1>1. /\ u \in Seq(S)
        /\ Len(u) = Len(s) + 1
        /\ Len(s) \in Nat
        /\ \A i \in 1 .. Len(s) : u[i] = s[i]
        /\ u[Len(s) + 1] = t
    OBVIOUS
  <1> HIDE DEF u
  <1>2. Members(u) = Members(s) \cup {t}
    <2>1. ASSUME NEW x \in Members(u) PROVE x \in Members(s) \cup {t}
      BY <1>1, <2>1 DEF Members
    <2>2. Members(s) \subseteq Members(u)
      BY <1>1 DEF Members
    <2>3. t \in Members(u)
      BY <1>1 DEF Members
    <2> QED BY <2>1, <2>2, <2>3
  <1>3. NoRepeats(u)
    <2> SUFFICES ASSUME NEW i \in 1 .. Len(u), NEW j \in 1 .. Len(u), i # j
                 PROVE  u[i] # u[j]
      BY DEF NoRepeats
    <2>1. CASE i \in 1 .. Len(s) /\ j \in 1 .. Len(s)
      BY <1>1, <2>1 DEF NoRepeats
    <2>2. CASE i = Len(s) + 1
      <3>1. j \in 1 .. Len(s)
        BY <1>1, <2>2
      <3> QED BY <1>1, <2>2, <3>1 DEF Members
    <2>3. CASE j = Len(s) + 1
      <3>1. i \in 1 .. Len(s)
        BY <1>1, <2>3
      <3> QED BY <1>1, <2>3, <3>1 DEF Members
    <2> QED BY <1>1, <2>1, <2>2, <2>3
  <1> QED BY <1>1, <1>2, <1>3 DEF u

LEMMA TailOfDistinct ==
  ASSUME NEW S, NEW s \in Seq(S), s # <<>>, NoRepeats(s)
  PROVE  /\ Tail(s) \in Seq(S)
         /\ s[1] \in Members(s)
         /\ Members(Tail(s)) = Members(s) \ {s[1]}
         /\ NoRepeats(Tail(s))
  <1> DEFINE u == Tail(s)
  <1>1. /\ u \in Seq(S)
        /\ Len(s) \in Nat /\ Len(s) > 0
        /\ Len(u) = Len(s) - 1
        /\ \A i \in 1 .. Len(u) : u[i] = s[i + 1]
    OBVIOUS
  <1> HIDE DEF u
  <1>2. s[1] \in Members(s)
    BY <1>1 DEF Members
  <1>3. Members(u) = Members(s) \ {s[1]}
    <2>1. ASSUME NEW i \in 1 .. Len(u) PROVE u[i] \in Members(s) \ {s[1]}
      <3>1. i + 1 \in 1 .. Len(s) /\ 1 \in 1 .. Len(s) /\ i + 1 # 1
        BY <1>1
      <3> QED BY <1>1, <3>1 DEF Members, NoRepeats
    <2>2. ASSUME NEW i \in 1 .. Len(s), s[i] # s[1] PROVE s[i] \in Members(u)
      <3>1. i - 1 \in 1 .. Len(u) /\ u[i - 1] = s[(i - 1) + 1] /\ (i - 1) + 1 = i
        BY <1>1, <2>2
      <3> QED BY <3>1 DEF Members
    <2> QED BY <2>1, <2>2 DEF Members
  <1>4. NoRepeats(u)
    <2> SUFFICES ASSUME NEW i \in 1 .. Len(u), NEW j \in 1 .. Len(u), i # j
                 PROVE  u[i] # u[j]
      BY DEF NoRepeats
    <2>1. i + 1 \in 1 .. Len(s) /\ j + 1 \in 1 .. Len(s) /\ i + 1 # j + 1
      BY <1>1
    <2> QED BY <1>1, <2>1 DEF NoRepeats
  <1> QED BY <1>1, <1>2, <1>3, <1>4 DEF u

-----------------------------------------------------------------------------
(* popTaskFront clears the slot of the first element only.                 *)

LEMMA ClearFrontElements ==
  ASSUME NEW v, IsVector(v), ~empty(v)
  PROVE  /\ IsVector(clearFront(v))
         /\ ~empty(clearFront(v))
         /\ size(clearFront(v)) = size(v)
         /\ \A i \in 1 .. size(v) - 1 : at(clearFront(v), i) = at(v, i)
  <1>1. /\ v.cap \in Nat /\ v.head \in Nat /\ v.tail \in Nat
        /\ v.buf \in [0 .. v.cap - 1 -> Elem]
        /\ v.cap > 0 /\ v.head < v.cap /\ v.tail < v.cap
    BY VectorFields DEF empty
  <1> DEFINE c == clearFront(v)
  <1>2. /\ c = [buf |-> c.buf, cap |-> c.cap, head |-> c.head, tail |-> c.tail]
        /\ c.buf = [v.buf EXCEPT ![v.head] = Blank]
        /\ c.cap = v.cap /\ c.head = v.head /\ c.tail = v.tail
    BY DEF clearFront
  <1> HIDE DEF c
  <1>3. c.buf \in [0 .. v.cap - 1 -> Elem] /\ \A k \in 0 .. v.cap - 1 : k # v.head => c.buf[k] = v.buf[k]
    BY <1>1, <1>2, BlankAssumption
  <1>4. IsVector(c)
    BY <1>1, <1>2, <1>3 DEF IsVector
  <1>5. ~empty(c) /\ size(c) = size(v)
    BY <1>1, <1>2 DEF empty, size
  <1>6. ASSUME NEW i \in 1 .. size(v) - 1
        PROVE  at(c, i) = at(v, i)
    <2>1. size(v) = IF v.tail > v.head THEN v.tail - v.head ELSE (v.cap - v.head) + v.tail
      BY <1>1 DEF size, empty
    <2>2. slot(v, i) # v.head
      <3>1. CASE v.tail > v.head \/ i < v.cap - v.head
        BY <1>1, <2>1, <3>1 DEF slot
      <3>2. CASE ~(v.tail > v.head) /\ ~(i < v.cap - v.head)
        <4>1. slot(v, i) = i - (v.cap - v.head)
          BY <1>1, <3>2 DEF slot
        <4> QED BY <1>1, <2>1, <3>2, <4>1
      <3> QED BY <3>1, <3>2
    <2>3. size(v) \in Nat /\ i \in 0 .. size(v) - 1
      BY SizeOfVector, <1>1
    <2>4. slot(v, i) \in 0 .. v.cap - 1
      BY <2>3, SizeOfVector
    <2>5. slot(c, i) = slot(v, i)
      BY <1>2 DEF slot
    <2> QED BY <1>3, <2>2, <2>4, <2>5 DEF at
  <1> QED BY <1>4, <1>5, <1>6 DEF c

LEMMA TakeFront ==
  ASSUME NEW v, IsVector(v), ~empty(v)
  PROVE  /\ IsVector(pop_front(clearFront(v)))
         /\ Contents(pop_front(clearFront(v))) = Tail(Contents(v))
         /\ Contents(v) # <<>>
         /\ front(v) = Contents(v)[1]
  <1> DEFINE c == clearFront(v)
  <1>1. /\ IsVector(c) /\ ~empty(c) /\ size(c) = size(v)
        /\ \A i \in 1 .. size(v) - 1 : at(c, i) = at(v, i)
    BY ClearFrontElements
  <1> HIDE DEF c
  <1>2. IsVector(pop_front(c)) /\ Contents(pop_front(c)) = Tail(Contents(c))
    BY <1>1, PopFrontElements
  <1>3. size(v) \in Nat /\ size(v) # 0
    BY SizeOfVector, VectorFields
  <1>4. /\ Contents(c) \in Seq(Elem) /\ Len(Contents(c)) = size(v)
        /\ Contents(v) \in Seq(Elem) /\ Len(Contents(v)) = size(v)
    BY <1>1, ContentsIsSequence
  <1>5. ASSUME NEW i \in 2 .. size(v)
        PROVE  Contents(c)[i] = Contents(v)[i]
    <2>1. i \in 1 .. size(v) /\ i - 1 \in 1 .. size(v) - 1
      BY <1>3
    <2>2. Contents(c)[i] = at(c, i - 1) /\ Contents(v)[i] = at(v, i - 1)
      BY <1>1, <2>1, ContentsIsSequence
    <2> QED BY <1>1, <2>1, <2>2
  <1>6. Tail(Contents(c)) = Tail(Contents(v))
    <2> DEFINE x == Tail(Contents(c))
               y == Tail(Contents(v))
    <2>1. /\ x \in Seq(Elem) /\ y \in Seq(Elem)
          /\ Len(x) = size(v) - 1 /\ Len(y) = size(v) - 1
          /\ \A i \in 1 .. size(v) - 1 : x[i] = Contents(c)[i + 1] /\ y[i] = Contents(v)[i + 1]
      BY <1>3, <1>4
    <2> HIDE DEF x, y
    <2>2. \A i \in 1 .. size(v) - 1 : i + 1 \in 2 .. size(v)
      BY <1>3
    <2>3. \A i \in 1 .. size(v) - 1 : x[i] = y[i]
      BY <1>5, <2>1, <2>2
    <2>4. x = y
      BY <1>3, <2>1, <2>3
    <2> QED BY <2>4 DEF x, y
  <1>7. front(v) = Contents(v)[1]
    <2>1. 1 \in 1 .. size(v) /\ 1 - 1 = 0
      BY <1>3
    <2>2. Contents(v)[1] = at(v, 0)
      BY <2>1, ContentsIsSequence
    <2>3. v.cap \in Nat /\ v.head \in Nat /\ v.head < v.cap
      BY VectorFields DEF empty
    <2>4. slot(v, 0) = v.head
      BY <2>3 DEF slot
    <2> QED BY <2>2, <2>4 DEF at, front
  <1> QED BY <1>2, <1>3, <1>4, <1>6, <1>7 DEF c

-----------------------------------------------------------------------------
(* The requests that the sets A (code and data) and B (functions) name. *)
Requests(A, B) == {codeTask(va) : va \in A} \cup {funcTask(va) : va \in B}

LEMMA TaskKinds ==
  \A y, z : /\ codeTask(y) = codeTask(z) => y = z
            /\ funcTask(y) = funcTask(z) => y = z
            /\ codeTask(y) # funcTask(z)
            /\ codeTask(y).va = y /\ codeTask(y).func = FALSE
            /\ funcTask(y).va = y /\ funcTask(y).func = TRUE
  BY DEF codeTask, funcTask

LEMMA TasksAreTasks == \A va \in VA : codeTask(va) \in Task /\ funcTask(va) \in Task
  BY DEF codeTask, funcTask, Task

(* The inductive invariant: the fields are well-formed, the list holds     *)
(* tasks only (no blank), no task twice, and the sets name its members.    *)

Waiting == Contents(mToDoList)

IInv ==
    /\ IsVector(mToDoList)
    /\ Waiting \in Seq(Task)
    /\ mSet \subseteq VA /\ mSetF \subseteq VA
    /\ current \in Task \cup {Idle}
    /\ Members(Waiting) = Requests(mSet, mSetF)
    /\ NoRepeats(Waiting)

LEMMA NullIsEmpty == IsVector(null) /\ Contents(null) = <<>>
  <1>1. Contents(null) \in Seq(Elem) /\ Len(Contents(null)) = 0
    BY NullIsVector, ContentsIsSequence
  <1> QED BY <1>1, NullIsVector

LEMMA EmptyListIsFine ==
  ASSUME mToDoList = null, mSet = {}, mSetF = {}, current \in Task \cup {Idle}
  PROVE  IInv
  <1>1. Members(<<>>) = {} /\ NoRepeats(<<>>)
    BY DEF Members, NoRepeats
  <1> QED BY <1>1, NullIsEmpty DEF IInv, Waiting, Requests

LEMMA PushKeeps ==
  ASSUME NEW t \in Task, IInv, t \notin Members(Waiting),
         mToDoList' = push_back(mToDoList, t)
  PROVE  /\ IsVector(mToDoList)'
         /\ Waiting' = Append(Waiting, t)
         /\ Waiting' \in Seq(Task)
         /\ Members(Waiting)' = Members(Waiting) \cup {t}
         /\ NoRepeats(Waiting)'
  <1>1. IsVector(mToDoList) /\ t \in Elem
    BY SlotAssumption DEF IInv
  <1>2. IsVector(mToDoList') /\ Contents(mToDoList') = Append(Waiting, t)
    BY <1>1, PushBackElements DEF Waiting
  <1>3. Waiting' = Append(Waiting, t)
    BY <1>2 DEF Waiting
  <1>4. /\ Append(Waiting, t) \in Seq(Task)
        /\ Members(Append(Waiting, t)) = Members(Waiting) \cup {t}
        /\ NoRepeats(Append(Waiting, t))
    BY AppendNew DEF IInv
  <1>5. Members(Waiting)' = Members(Waiting') /\ NoRepeats(Waiting)' = NoRepeats(Waiting')
    BY DEF Members, NoRepeats
  <1> QED BY <1>2, <1>3, <1>4, <1>5

LEMMA ProcessTakesFirst ==
  ASSUME IInv, Process
  PROVE  /\ IsVector(mToDoList)'
         /\ Waiting # <<>>
         /\ current' = Waiting[1]
         /\ current' \in Members(Waiting)
         /\ Waiting' = Tail(Waiting)
         /\ Waiting' \in Seq(Task)
         /\ Members(Waiting)' = Members(Waiting) \ {Waiting[1]}
         /\ NoRepeats(Waiting)'
  <1>1. /\ IsVector(mToDoList) /\ ~empty(mToDoList)
        /\ current' = front(mToDoList)
        /\ mToDoList' = pop_front(clearFront(mToDoList))
    BY DEF IInv, Process
  <1>2. /\ IsVector(mToDoList')
        /\ Contents(mToDoList') = Tail(Waiting)
        /\ Waiting # <<>>
        /\ front(mToDoList) = Waiting[1]
    BY <1>1, TakeFront DEF Waiting
  <1>3. Waiting' = Tail(Waiting)
    BY <1>2 DEF Waiting
  <1>4. /\ Tail(Waiting) \in Seq(Task)
        /\ Waiting[1] \in Members(Waiting)
        /\ Members(Tail(Waiting)) = Members(Waiting) \ {Waiting[1]}
        /\ NoRepeats(Tail(Waiting))
    BY <1>2, TailOfDistinct DEF IInv
  <1>5. Members(Waiting)' = Members(Waiting') /\ NoRepeats(Waiting)' = NoRepeats(Waiting')
    BY DEF Members, NoRepeats
  <1> QED BY <1>1, <1>2, <1>3, <1>4, <1>5

LEMMA InitIInv == Init => IInv
  BY EmptyListIsFine DEF Init

LEMMA NextIInv == IInv /\ [Next]_vars => IInv'
  <1> SUFFICES ASSUME IInv, [Next]_vars
               PROVE  IInv'
    OBVIOUS
  <1>1. ASSUME NEW va \in VA, PushFunc(va)
        PROVE  IInv'
    <2> DEFINE t == funcTask(va)
    <2>1. t \in Task /\ t \notin Members(Waiting)
      BY <1>1, TaskKinds, TasksAreTasks DEF PushFunc, refused, IInv, Requests
    <2>2. /\ IsVector(mToDoList)' /\ Waiting' \in Seq(Task) /\ NoRepeats(Waiting)'
          /\ Members(Waiting)' = Members(Waiting) \cup {t}
      BY <1>1, <2>1, PushKeeps DEF PushFunc
    <2>3. /\ mSet' \subseteq VA /\ mSetF' \subseteq VA
          /\ current' \in Task \cup {Idle}
      BY <1>1 DEF PushFunc, IInv
    <2>4. Members(Waiting)' = Requests(mSet', mSetF')
      BY <1>1, <2>2, TaskKinds DEF PushFunc, refused, IInv, Requests
    <2> QED BY <2>2, <2>3, <2>4 DEF IInv, Requests
  <1>2. ASSUME NEW va \in VA, PushCode(va)
        PROVE  IInv'
    <2> DEFINE t == codeTask(va)
    <2>1. t \in Task /\ t \notin Members(Waiting)
      BY <1>2, TaskKinds, TasksAreTasks DEF PushCode, refused, IInv, Requests
    <2>2. /\ IsVector(mToDoList)' /\ Waiting' \in Seq(Task) /\ NoRepeats(Waiting)'
          /\ Members(Waiting)' = Members(Waiting) \cup {t}
      BY <1>2, <2>1, PushKeeps DEF PushCode
    <2>3. /\ mSet' \subseteq VA /\ mSetF' \subseteq VA
          /\ current' \in Task \cup {Idle}
      BY <1>2 DEF PushCode, IInv
    <2>4. Members(Waiting)' = Requests(mSet', mSetF')
      BY <1>2, <2>2, TaskKinds DEF PushCode, refused, IInv, Requests
    <2> QED BY <2>2, <2>3, <2>4 DEF IInv, Requests
  <1>3. CASE Process
    <2> DEFINE a == Waiting[1]
    <2>1. /\ IsVector(mToDoList)' /\ Waiting' \in Seq(Task) /\ NoRepeats(Waiting)'
          /\ current' = a /\ a \in Members(Waiting)
          /\ Members(Waiting)' = Members(Waiting) \ {a}
      BY <1>3, ProcessTakesFirst
    <2>2. /\ mSetF' = IF a.func THEN mSetF \ {a.va} ELSE mSetF
          /\ mSet'  = IF a.func THEN mSet ELSE mSet \ {a.va}
      BY <1>3, <2>1 DEF Process
    <2>3. /\ a \in Task
          /\ \/ a.va \in mSet /\ a = codeTask(a.va) /\ a.func = FALSE
             \/ a.va \in mSetF /\ a = funcTask(a.va) /\ a.func = TRUE
      BY <2>1, TaskKinds, TasksAreTasks DEF IInv, Requests
    <2>4. /\ mSet' \subseteq VA /\ mSetF' \subseteq VA
          /\ current' \in Task \cup {Idle}
      BY <2>1, <2>2, <2>3 DEF IInv
    <2> HIDE DEF a
    <2>5. Members(Waiting)' = Requests(mSet', mSetF')
      <3>1. CASE a = codeTask(a.va) /\ a.func = FALSE
        <4>1. mSetF' = mSetF /\ mSet' = mSet \ {a.va}
          BY <2>2, <3>1
        <4> QED BY <2>1, <3>1, <4>1, TaskKinds DEF IInv, Requests
      <3>2. CASE a = funcTask(a.va) /\ a.func = TRUE
        <4>1. mSetF' = mSetF \ {a.va} /\ mSet' = mSet
          BY <2>2, <3>2
        <4> QED BY <2>1, <3>2, <4>1, TaskKinds DEF IInv, Requests
      <3> QED BY <2>3, <3>1, <3>2
    <2> QED BY <2>1, <2>4, <2>5 DEF IInv
  <1>4. CASE Finish
    BY <1>4 DEF Finish, IInv, Waiting, Members, NoRepeats, Requests
  <1>5. CASE Destroy
    <2>1. Members(<<>>) = {} /\ NoRepeats(<<>>)
      BY DEF Members, NoRepeats
    <2>2. Waiting' = <<>> /\ IsVector(mToDoList)'
      BY <1>5, NullIsEmpty DEF Destroy, Waiting
    <2>3. Members(Waiting)' = {} /\ NoRepeats(Waiting)'
      BY <2>1, <2>2 DEF Members, NoRepeats
    <2> QED BY <1>5, <2>2, <2>3 DEF Destroy, IInv, Requests
  <1>6. CASE UNCHANGED vars
    BY <1>6 DEF vars, IInv, Waiting, Members, NoRepeats, Requests
  <1> QED BY <1>1, <1>2, <1>3, <1>4, <1>5, <1>6 DEF Next

LEMMA Inductive == Spec => []IInv
  BY InitIInv, NextIInv, PTL DEF Spec

(***************************************************************************)
(* The vector keeps its shape and the sets hold addresses only.            *)
(***************************************************************************)
THEOREM TypeCorrect == Spec => []TypeOK
  <1>1. IInv => TypeOK
    BY DEF IInv, TypeOK
  <1> QED BY <1>1, Inductive, PTL

(***************************************************************************)
(* The sets mSet and mSetF name exactly the pending requests, each pending *)
(* once, for any number of addresses and any history of requests: ASSERT0  *)
(* of popTaskFront never fires.                                            *)
(***************************************************************************)
THEOREM SetsAgree == Spec => []SetsMatchQueue
  <1>1. IInv => SetsMatchQueue
    <2> SUFFICES ASSUME IInv PROVE SetsMatchQueue
      OBVIOUS
    <2>1. Len(Waiting) = size(mToDoList)
      BY ContentsIsSequence DEF IInv, Waiting
    <2>2. Tasks = Members(Waiting)
      BY <2>1 DEF Tasks, Members, Waiting
    <2> QED BY <2>1, <2>2 DEF IInv, SetsMatchQueue, NoRepeats, Waiting, Requests
  <1> QED BY <1>1, Inductive, PTL

(***************************************************************************)
(* For any addresses and any history, a request is turned away only while  *)
(* the list holds a task that covers it: nothing is refused for ever on    *)
(* account of an address left behind in one of the sets.                   *)
(***************************************************************************)
THEOREM RefusalsAreCovered == Spec => []RefusedOnlyIfCovered
  <1>1. IInv => RefusedOnlyIfCovered
    <2> SUFFICES ASSUME IInv, NEW t \in Task, refused(t)
                 PROVE  \E u \in Tasks : Abstract!Covers(u, t)
      BY DEF RefusedOnlyIfCovered
    <2>1. Len(Waiting) = size(mToDoList)
      BY ContentsIsSequence DEF IInv, Waiting
    <2>2. Tasks = Members(Waiting)
      BY <2>1 DEF Tasks, Members, Waiting
    <2>3. CASE t.va \in mSetF
      <3>1. funcTask(t.va) \in Tasks BY <2>2, <2>3 DEF IInv, Requests
      <3>2. Abstract!Covers(funcTask(t.va), t) BY DEF Abstract!Covers, funcTask
      <3> QED BY <3>1, <3>2
    <2>4. CASE ~t.func /\ t.va \in mSet
      <3>1. codeTask(t.va) \in Tasks BY <2>2, <2>4 DEF IInv, Requests
      <3>2. t = codeTask(t.va) BY <2>4 DEF codeTask, Task
      <3>3. Abstract!Covers(codeTask(t.va), t) BY <3>2 DEF Abstract!Covers, codeTask
      <3> QED BY <3>1, <3>3
    <2> QED BY <2>3, <2>4 DEF refused
  <1> QED BY <1>1, Inductive, PTL

-----------------------------------------------------------------------------
LEMMA InitRefines == Init => Abstract!Init
  BY NullIsEmpty DEF Init, Abstract!Init

LEMMA NextRefines == IInv /\ [Next]_vars => [Abstract!Next]_(Abstract!vars)
  <1> SUFFICES ASSUME IInv, [Next]_vars
               PROVE  [Abstract!Next]_(Abstract!vars)
    OBVIOUS
  <1> USE DEF Abstract!Next, Abstract!Task, Task
  <1>0. Abstract!Pending = Members(Waiting)
    BY DEF Abstract!Pending, Members, Waiting
  <1>1. ASSUME NEW va \in VA, PushFunc(va)
        PROVE  Abstract!Next
    <2> DEFINE t == funcTask(va)
    <2>1. t \in Task /\ t \notin Members(Waiting)
      BY <1>1, TaskKinds, TasksAreTasks DEF PushFunc, refused, IInv, Requests
    <2>2. Waiting' = Append(Waiting, t)
      BY <1>1, <2>1, PushKeeps DEF PushFunc
    <2>3. \A u \in Members(Waiting) : ~Abstract!Covers(u, t)
      BY <1>1, TaskKinds DEF PushFunc, refused, IInv, Requests, Abstract!Covers
    <2> QED BY <1>0, <1>1, <2>1, <2>2, <2>3 DEF PushFunc, Abstract!Accept, Waiting
  <1>2. ASSUME NEW va \in VA, PushCode(va)
        PROVE  Abstract!Next
    <2> DEFINE t == codeTask(va)
    <2>1. t \in Task /\ t \notin Members(Waiting)
      BY <1>2, TaskKinds, TasksAreTasks DEF PushCode, refused, IInv, Requests
    <2>2. Waiting' = Append(Waiting, t)
      BY <1>2, <2>1, PushKeeps DEF PushCode
    <2>3. \A u \in Members(Waiting) : ~Abstract!Covers(u, t)
      BY <1>2, TaskKinds DEF PushCode, refused, IInv, Requests, Abstract!Covers
    <2> QED BY <1>0, <1>2, <2>1, <2>2, <2>3 DEF PushCode, Abstract!Accept, Waiting
  <1>3. CASE Process
    BY <1>3, ProcessTakesFirst DEF Process, Abstract!Start, Waiting
  <1>4. CASE Finish
    BY <1>4 DEF Finish, Abstract!Finish
  <1>5. CASE Destroy
    BY <1>5, NullIsEmpty DEF Destroy, Abstract!Discard
  <1>6. CASE UNCHANGED vars
    BY <1>6 DEF vars, Abstract!vars
  <1> QED BY <1>1, <1>2, <1>3, <1>4, <1>5, <1>6 DEF Next

(***************************************************************************)
(* The list serves requests in the order of their acceptance and accepts   *)
(* none that is covered: the circular vector and the two sets implement    *)
(* the abstract queue, in which there is neither.                          *)
(***************************************************************************)
THEOREM Refinement == Spec => ImplementsTaskQueue
  BY Inductive, InitRefines, NextRefines, PTL
     DEF Spec, ImplementsTaskQueue, Abstract!Spec

-----------------------------------------------------------------------------
(* A slot outside the list, told by where the ends are.                    *)
Free(v, k) ==
    \/ empty(v)
    \/ v.tail > v.head /\ (k < v.head \/ k >= v.tail)
    \/ v.tail =< v.head /\ k >= v.tail /\ k < v.head

Cleared(v) == \A k \in 0 .. v.cap - 1 : Free(v, k) => v.buf[k] = Blank

LEMMA FreeSlots ==
  ASSUME NEW v, IsVector(v), NEW k \in 0 .. v.cap - 1
  PROVE  Free(v, k) <=> k \notin Live(v)
  <1>1. /\ v.cap \in Nat /\ v.head \in Nat /\ v.tail \in Nat
        /\ \/ v.cap = 0 /\ v.head = 0 /\ v.tail = 0
           \/ v.cap > 0 /\ v.head = 0 /\ v.tail = v.cap
           \/ v.cap > 0 /\ v.head < v.cap /\ v.tail < v.cap
    BY VectorFields
  <1>2. CASE empty(v)
    <2>1. size(v) = 0 BY <1>2 DEF size
    <2>2. Live(v) = {} BY <2>1 DEF Live
    <2> QED BY <1>2, <2>2 DEF Free
  <1>3. CASE ~empty(v)
    <2>1. v.head < v.cap /\ v.tail < v.cap BY <1>1, <1>3 DEF empty
    <2>2. size(v) = IF v.tail > v.head THEN v.tail - v.head ELSE (v.cap - v.head) + v.tail
      BY <1>3 DEF size
    <2>3. ASSUME NEW i \in 0 .. size(v) - 1
          PROVE  ~Free(v, slot(v, i))
      BY <1>1, <1>3, <2>1, <2>2 DEF Free, slot
    <2>4. ASSUME ~Free(v, k)
          PROVE  \E i \in 0 .. size(v) - 1 : slot(v, i) = k
      <3>1. CASE k >= v.head
        <4>1. k - v.head \in 0 .. size(v) - 1 /\ slot(v, k - v.head) = k
          BY <1>1, <1>3, <2>1, <2>2, <2>4, <3>1 DEF Free, slot
        <4> QED BY <4>1
      <3>2. CASE k < v.head
        <4>1. /\ k + (v.cap - v.head) \in 0 .. size(v) - 1
              /\ slot(v, k + (v.cap - v.head)) = k
          BY <1>1, <1>3, <2>1, <2>2, <2>4, <3>2 DEF Free, slot
        <4> QED BY <4>1
      <3> QED BY <1>1, <3>1, <3>2
    <2> QED BY <2>3, <2>4 DEF Live
  <1> QED BY <1>2, <1>3

(* Growing moves what is behind the hole and leaves the hole blank.        *)
LEMMA RoomCleared ==
  ASSUME NEW v, IsVector(v), Cleared(v)
  PROVE  Cleared(room(v))
  <1>1. CASE v.tail # v.head
    BY <1>1 DEF room
  <1>2. CASE v.tail = v.head /\ v.cap = 0
    BY <1>2 DEF room, expand, Cleared
  <1>3. CASE v.tail = v.head /\ v.cap # 0
    <2>1. room(v) = expand(v) BY <1>3 DEF room
    <2>2. v.cap \in Nat /\ v.cap > 0 /\ v.head \in Nat /\ v.tail = v.head /\ v.head < v.cap
      BY <1>3, VectorFields
    <2> DEFINE w == expand(v)
    <2>3. /\ w.buf = [i \in 0 .. 2 * v.cap - 1 |->
                        IF i < v.tail THEN v.buf[i]
                        ELSE IF i >= v.cap + v.head THEN v.buf[i - v.cap]
                        ELSE Blank]
          /\ w.cap = 2 * v.cap /\ w.head = v.cap + v.head /\ w.tail = v.tail
      BY <1>3, ExpandIsVector
    <2> HIDE DEF w
    <2>4. ASSUME NEW k \in 0 .. w.cap - 1, Free(w, k)
          PROVE  w.buf[k] = Blank
      <3>1. k \in 0 .. 2 * v.cap - 1 /\ k >= v.tail /\ k < v.cap + v.head
        BY <2>2, <2>3, <2>4 DEF Free, empty
      <3>2. ~(k < v.tail) /\ ~(k >= v.cap + v.head) BY <2>2, <3>1
      <3> QED BY <2>3, <3>1, <3>2
    <2>5. Cleared(w) BY <2>4 DEF Cleared
    <2> QED BY <2>1, <2>5 DEF w
  <1> QED BY <1>1, <1>2, <1>3

LEMMA PushCleared ==
  ASSUME NEW v, IsVector(v), Cleared(v), NEW t \in Elem
  PROVE  Cleared(push_back(v, t))
  <1> DEFINE r == room(v)
             k == IF r.tail = r.cap THEN 0 ELSE r.tail
             w == putBack(r, t)
  <1>1. IsVector(r) /\ r.cap > 0 /\ r.tail # r.head /\ Cleared(r)
    BY RoomKeepsElements, RoomCleared
  <1> HIDE DEF r
  <1>2. /\ r.cap \in Nat /\ r.head \in Nat /\ r.tail \in Nat
        /\ r.buf \in [0 .. r.cap - 1 -> Elem]
        /\ \/ r.head = 0 /\ r.tail = r.cap
           \/ r.head < r.cap /\ r.tail < r.cap
    BY <1>1, VectorFields
  <1>3. /\ w.buf = [r.buf EXCEPT ![k] = t]
        /\ w.cap = r.cap /\ w.head = r.head
        /\ w.tail = (IF k + 1 = r.cap THEN 0 ELSE k + 1)
    BY DEF putBack
  <1> HIDE DEF w
  <1>4. ASSUME NEW j \in 0 .. w.cap - 1, Free(w, j)
        PROVE  w.buf[j] = Blank
    <2>1. Free(r, j) /\ j # k
      <3>1. CASE r.tail = r.cap
        BY <1>1, <1>2, <1>3, <1>4, <3>1 DEF Free, empty
      <3>2. CASE r.tail # r.cap
        BY <1>1, <1>2, <1>3, <1>4, <3>2 DEF Free, empty
      <3> QED BY <3>1, <3>2
    <2>2. j \in 0 .. r.cap - 1 BY <1>3
    <2>3. r.buf[j] = Blank BY <1>1, <2>1, <2>2 DEF Cleared
    <2> HIDE DEF k
    <2> QED BY <1>2, <1>3, <2>1, <2>2, <2>3
  <1>5. Cleared(w) BY <1>4 DEF Cleared
  <1> QED BY <1>5 DEF w, r, push_back

LEMMA PopCleared ==
  ASSUME NEW v, IsVector(v), ~empty(v), Cleared(v)
  PROVE  Cleared(pop_front(clearFront(v)))
  <1> DEFINE k == IF v.head + 1 = v.cap THEN 0 ELSE v.head + 1
             w == pop_front(clearFront(v))
  <1>1. /\ v.cap \in Nat /\ v.head \in Nat /\ v.tail \in Nat
        /\ v.buf \in [0 .. v.cap - 1 -> Elem]
        /\ v.cap > 0 /\ v.head < v.cap /\ v.tail < v.cap
    BY VectorFields DEF empty
  <1>2. /\ w.buf = [v.buf EXCEPT ![v.head] = Blank]
        /\ w.cap = v.cap
        /\ w.head = (IF v.tail = k THEN 0 ELSE k)
        /\ w.tail = (IF v.tail = k THEN v.cap ELSE v.tail)
    BY DEF pop_front, withEnds, clearFront
  <1> HIDE DEF w
  <1>3. ASSUME NEW j \in 0 .. w.cap - 1, Free(w, j)
        PROVE  w.buf[j] = Blank
    <2>1. j \in 0 .. v.cap - 1 BY <1>2
    <2>2. j = v.head \/ Free(v, j)
      <3>1. CASE v.tail = k
        BY <1>1, <2>1, <3>1 DEF Free
      <3>2. CASE v.tail # k
        BY <1>1, <1>2, <1>3, <2>1, <3>2 DEF Free, empty
      <3> QED BY <3>1, <3>2
    <2>3. CASE j = v.head
      BY <1>1, <1>2, <2>1, <2>3
    <2>4. CASE j # v.head
      <3>1. v.buf[j] = Blank BY <2>1, <2>2, <2>4 DEF Cleared
      <3> QED BY <1>1, <1>2, <2>1, <2>4, <3>1
    <2> QED BY <2>3, <2>4
  <1> QED BY <1>3 DEF Cleared, w

(***************************************************************************)
(* Whatever has been pushed and popped, and however the buffer has grown   *)
(* in between, a slot outside the list holds no task: "front() = Task_t()" *)
(* releases the command of a task for good.                                *)
(***************************************************************************)
THEOREM NoTaskLeftBehind == Spec => []DeadSlotsCleared
  <1>1. IInv => (DeadSlotsCleared <=> Cleared(mToDoList))
    <2> SUFFICES ASSUME IInv PROVE DeadSlotsCleared <=> Cleared(mToDoList)
      OBVIOUS
    <2>1. IsVector(mToDoList) BY DEF IInv
    <2>2. DOMAIN mToDoList.buf = 0 .. mToDoList.cap - 1 BY <2>1, VectorFields
    <2> QED BY <2>1, <2>2, FreeSlots DEF DeadSlotsCleared, Cleared
  <1>2. Cleared(null)
    BY DEF Cleared, null
  <1>3. Init => Cleared(mToDoList)
    BY <1>2 DEF Init
  <1>4. IInv /\ Cleared(mToDoList) /\ [Next]_vars => Cleared(mToDoList)'
    <2> SUFFICES ASSUME IInv, Cleared(mToDoList), [Next]_vars
                 PROVE  Cleared(mToDoList')
      BY DEF Cleared, Free, empty
    <2>1. IsVector(mToDoList) BY DEF IInv
    <2>2. ASSUME NEW va \in VA, PushFunc(va) \/ PushCode(va)
          PROVE  Cleared(mToDoList')
      <3>1. funcTask(va) \in Elem /\ codeTask(va) \in Elem
        BY TasksAreTasks, SlotAssumption
      <3> QED BY <2>1, <2>2, <3>1, PushCleared DEF PushFunc, PushCode
    <2>3. CASE Process
      BY <2>1, <2>3, PopCleared DEF Process
    <2>4. CASE Destroy
      BY <1>2, <2>4 DEF Destroy
    <2>5. CASE Finish \/ UNCHANGED vars
      BY <2>5 DEF Finish, vars
    <2> QED BY <2>2, <2>3, <2>4, <2>5 DEF Next
  <1> QED BY <1>1, <1>3, <1>4, Inductive, PTL DEF Spec
=============================================================================
