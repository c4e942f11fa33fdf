------------------------------ MODULE TaskQueue -----------------------------
(***************************************************************************)
(* What the to-do list of the binary analyzer does with its requests: they *)
(* are served in the order of their acceptance, and none is accepted while *)
(* a pending one covers it.  Which requests it may turn away is not said   *)
(* here: a step that refuses one is a stuttering step.                     *)
(***************************************************************************)
EXTENDS Integers, Sequences

CONSTANTS VA,      \* virtual addresses
          Idle     \* no task is being processed

(* A task asks for work at an address; func is TRUE for "makefunc".        *)
Task == [va : VA, func : BOOLEAN]

VARIABLES q,       \* the pending tasks, oldest first
          current  \* the task being processed

vars == <<q, current>>

Pending == {q[i] : i \in 1 .. Len(q)}

Covers(u, t) == u.va = t.va /\ (u.func \/ u = t)

Init == q = <<>> /\ current = Idle

Accept(t) ==
    /\ \A u \in Pending : ~Covers(u, t)
    /\ q' = Append(q, t)
    /\ UNCHANGED current

Start ==
    /\ current = Idle
    /\ q # <<>>
    /\ current' = q[1]
    /\ q' = Tail(q)

Finish == current # Idle /\ current' = Idle /\ UNCHANGED q

Discard == current = Idle /\ q' = <<>> /\ UNCHANGED current

Next == (\E t \in Task : Accept(t)) \/ Start \/ Finish \/ Discard

Spec == Init /\ [][Next]_vars
=============================================================================
