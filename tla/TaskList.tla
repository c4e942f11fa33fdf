------------------------------ MODULE TaskList ------------------------------
(***************************************************************************)
(* TaskList_t and the loop of BinaryAnalyzer_t around it (db/anlzbin.h,    *)
(* db/anlzbin.cpp): a circular vector of tasks, and two sets of the        *)
(* addresses that have a pending task, one for "makefunc" requests and one *)
(* for all others, so that a repeated request is turned away without a     *)
(* search.  The sets are kept by hand: each push inserts, each pop erases, *)
(* and ASSERT0 stands where an erase would find nothing.                   *)
(***************************************************************************)
EXTENDS CircularVector

CONSTANTS VA,      \* virtual addresses
          Idle     \* no task is being processed

Task == [va : VA, func : BOOLEAN]

codeTask(va) == [va |-> va, func |-> FALSE]

funcTask(va) == [va |-> va, func |-> TRUE]

(* A slot holds a task or a default-constructed Task_t, which has no       *)
(* command and is never a request.                                         *)
ASSUME SlotAssumption == Elem = Task \cup {Blank} /\ Blank \notin Task

ASSUME IdleAssumption == Idle \notin Elem

VARIABLES mToDoList,    \* the circular vector
          mSet, mSetF,  \* addresses of pending code/data and function tasks
          current       \* "node" of process(), while its command is executed

vars == <<mToDoList, mSet, mSetF, current>>

Init ==
    /\ mToDoList = null
    /\ mSet = {} /\ mSetF = {}
    /\ current = Idle

(***************************************************************************)
(* pushTask, called by the command under execution (a sweep that met a     *)
(* jump or a call, for instance) or by a command of the user.  When the    *)
(* request is turned away nothing changes and the caller is told so.       *)
(***************************************************************************)
(* The test of pushTaskBack: the address is already in the set of function *)
(* requests or, for any other request, in the other set.                   *)
refused(t) == t.va \in mSetF \/ (~t.func /\ t.va \in mSet)

(* Mutant of PushFunc: the list becomes a stack. *)
PushFuncFirst(va) ==
    /\ ~refused(funcTask(va))
    /\ mSetF' = mSetF \cup {va}
    /\ mToDoList' = IF empty(mToDoList) THEN push_back(mToDoList, funcTask(va))
                    ELSE push_front(mToDoList, funcTask(va))
    /\ UNCHANGED <<mSet, current>>

(* Mutant of PushFunc: the address goes to both sets, to be erased of one. *)
PushFuncInBoth(va) ==
    /\ ~refused(funcTask(va))
    /\ mSetF' = mSetF \cup {va} /\ mSet' = mSet \cup {va}
    /\ mToDoList' = push_back(mToDoList, funcTask(va))
    /\ UNCHANGED current

PushFunc(va) ==
    /\ ~refused(funcTask(va))
    /\ mSetF' = mSetF \cup {va}
    /\ mToDoList' = push_back(mToDoList, funcTask(va))
    /\ UNCHANGED <<mSet, current>>

(* Mutant of PushCode: a pending function task is not looked for. *)
PushCodeUnchecked(va) ==
    /\ va \notin mSet
    /\ mSet' = mSet \cup {va}
    /\ mToDoList' = push_back(mToDoList, codeTask(va))
    /\ UNCHANGED <<mSetF, current>>

PushCode(va) ==
    /\ ~refused(codeTask(va))
    /\ mSet' = mSet \cup {va}
    /\ mToDoList' = push_back(mToDoList, codeTask(va))
    /\ UNCHANGED <<mSetF, current>>

(* Mutant of clearFront: the popped slot keeps its task. *)
clearNothing(v) == v

(* "front() = Task_t()": the popped slot keeps no command string. *)
clearFront(v) ==
    [buf |-> [v.buf EXCEPT ![v.head] = Blank], cap |-> v.cap, head |-> v.head, tail |-> v.tail]

(* Mutant of Process: the task is read after its slot was cleared. *)
ProcessReadsCleared ==
    /\ current = Idle
    /\ ~empty(mToDoList)
    /\ LET a == front(mToDoList)
       IN  /\ current' = front(clearFront(mToDoList))
           /\ mToDoList' = pop_front(clearFront(mToDoList))
           /\ mSetF' = IF a.func THEN mSetF \ {a.va} ELSE mSetF
           /\ mSet'  = IF a.func THEN mSet ELSE mSet \ {a.va}

(* Mutant of Process: one set is taken for the other. *)
ProcessErasesFromSet ==
    /\ current = Idle
    /\ ~empty(mToDoList)
    /\ current' = front(mToDoList)
    /\ mToDoList' = pop_front(clearFront(mToDoList))
    /\ mSet' = mSet \ {front(mToDoList).va}
    /\ UNCHANGED mSetF

(***************************************************************************)
(* process(): the task leaves the list, and its address the set, before    *)
(* its command is executed; so the command may request the same again.     *)
(***************************************************************************)
Process ==
    /\ current = Idle
    /\ ~empty(mToDoList)
    /\ LET a == front(mToDoList)
       IN  /\ current' = a
           /\ mToDoList' = pop_front(clearFront(mToDoList))
           /\ mSetF' = IF a.func THEN mSetF \ {a.va} ELSE mSetF
           /\ mSet'  = IF a.func THEN mSet ELSE mSet \ {a.va}

(* The command returns, whatever its outcome: a failed task is not retried. *)
Finish == current # Idle /\ current' = Idle /\ UNCHANGED <<mToDoList, mSet, mSetF>>

(* The analyzer is dropped with its list, and a new one made. *)
Destroy ==
    /\ current = Idle
    /\ mToDoList' = null
    /\ mSet' = {} /\ mSetF' = {}
    /\ UNCHANGED current

Next ==
    \/ \E va \in VA : PushFunc(va) \/ PushCode(va)
    \/ Process
    \/ Finish
    \/ Destroy

Spec == Init /\ [][Next]_vars

(***************************************************************************)
(* The event loop calls execAnalyzer again as long as tasks are left       *)
(* (Main_t::OnBusy), and a command ends.                                   *)
(***************************************************************************)
FairSpec == Spec /\ WF_vars(Process) /\ WF_vars(Finish)

-----------------------------------------------------------------------------
Tasks == {Contents(mToDoList)[i] : i \in 1 .. size(mToDoList)}

(* The shape of the state; the task under execution is never a blank slot. *)
TypeOK ==
    /\ IsVector(mToDoList)
    /\ mSet \subseteq VA /\ mSetF \subseteq VA
    /\ current \in Task \cup {Idle}

(***************************************************************************)
(* The two sets say exactly which requests are pending, and each is        *)
(* pending once: the reason why ASSERT0 in popTaskFront never fires.       *)
(***************************************************************************)
SetsMatchQueue ==
    /\ Tasks = {codeTask(va) : va \in mSet} \cup {funcTask(va) : va \in mSetF}
    /\ \A i, j \in 1 .. size(mToDoList) :
          i # j => Contents(mToDoList)[i] # Contents(mToDoList)[j]

(* A slot outside the list holds no task: a popped command is released. *)
DeadSlotsCleared ==
    \A k \in DOMAIN mToDoList.buf \ Live(mToDoList) : mToDoList.buf[k] = Blank

(* First in, first out, and no request accepted while a pending one covers *)
(* it.  The refinement says nothing of the requests turned away.           *)
Abstract == INSTANCE TaskQueue WITH q <- Contents(mToDoList)

ImplementsTaskQueue == Abstract!Spec

(***************************************************************************)
(* A request is turned away only when covered: whatever pushTaskBack would *)
(* refuse, a task in the list, not merely an address in a set, stands for. *)
(***************************************************************************)
RefusedOnlyIfCovered ==
    \A t \in Task : refused(t) => \E u \in Tasks : Abstract!Covers(u, t)

(* An accepted task is processed, unless the analyzer is dropped first. *)
EveryTaskProcessed ==
    \A t \in Task : t \in Tasks ~> current = t \/ mToDoList = null
=============================================================================
