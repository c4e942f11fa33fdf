---------------------------- MODULE Disassembly -----------------------------
(***************************************************************************)
(* What generating a function's body promises: only code the function can  *)
(* reach is taken, one instruction after another, and the body is handed   *)
(* on only when nothing reachable is missing, or the user gave it up.      *)
(***************************************************************************)
EXTENDS Integers

CONSTANT Entry   \* the address a function begins at

VARIABLES code,    \* the program: succ is the set of addresses that may follow
          found,   \* the addresses of the instructions in the body
          ready,   \* the body has been handed on to the later stages
          stopped  \* the user has stopped before it was complete

vars == <<code, found, ready, stopped>>

Init == found = {} /\ ready = FALSE /\ stopped = FALSE

Reach(a) == a = Entry \/ \E b \in found : a \in code[b].succ

Take(a) ==
    /\ ~ready /\ ~stopped
    /\ a \in DOMAIN code \ found
    /\ Reach(a)
    /\ found' = found \cup {a}
    /\ UNCHANGED <<code, ready, stopped>>

HandOn ==
    /\ stopped \/ \A a \in DOMAIN code : Reach(a) => a \in found
    /\ ready' = TRUE
    /\ UNCHANGED <<code, found, stopped>>

Withdraw == ready' = FALSE /\ UNCHANGED <<code, found, stopped>>

(* The instruction at hand may be left in the body.                        *)
GiveUp ==
    /\ ~ready
    /\ stopped' = TRUE
    /\ found' \in {found} \cup {found \cup {a} : a \in {b \in DOMAIN code : Reach(b)}}
    /\ UNCHANGED <<code, ready>>

Destroy == found' = {} /\ ready' = FALSE /\ stopped' = FALSE /\ UNCHANGED code

Next == (\E a \in DOMAIN code : Take(a)) \/ HandOn \/ Withdraw \/ GiveUp \/ Destroy

Spec == Init /\ [][Next]_vars
=============================================================================
