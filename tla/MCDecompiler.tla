---------------------------- MODULE MCDecompiler ----------------------------
(* Functions of a few instructions; a jump to Out leaves the function.     *)
EXTENDS Decompiler

CONSTANT Length  \* instructions

Ins(kind, by, to) == [kind |-> kind, by |-> by, to |-> to]

Places == 1 .. Length

Straights == {Ins("op", -1, 0), Ins("set", 0, 0), Ins("call", 0, 0)}
Returns == {Ins("ret", 0, 0), Ins("ret", 1, 0)}

Instructions ==
    Straights \cup Returns \cup {Ins(k, 0, t) : k \in Jumps, t \in 1 .. Length + 1}

FallsThrough(i) == i.kind \notin {"jmp", "ret"}

Count(p, kind) == Cardinality({a \in Places : p[a].kind = kind})

(* One call, no straight instruction and no return twice. A function with  *)
(* branches has a return that removes nothing.                             *)
Varied(p) ==
    /\ ~FallsThrough(p[Length])
    /\ Count(p, "call") = 1
    /\ \A a, b \in Places : a # b /\ p[a].kind \notin Jumps => p[a] # p[b]
    /\ Ins("ret", 0, 0) \in Range(p) \/ (Count(p, "jif") = 0 /\ Count(p, "ret") = 0)

(* The code can all be reached.                                            *)
Connected(p) ==
    LET next(a) == (IF FallsThrough(p[a]) THEN {a + 1} ELSE {})
                   \cup (IF p[a].kind \in Jumps THEN {p[a].to} ELSE {})
        reach[n \in 0 .. Length] ==
            IF n = 0 THEN {1}
            ELSE reach[n - 1] \cup UNION {next(a) : a \in reach[n - 1] \cap Places}
    IN  Places \subseteq reach[Length]

(* No jump leads to a jump that may be joined to the path before it, none  *)
(* to one that is exchanged with a conditional jump, none in a circle, and *)
(* none out of a function that branches: README, "Findings".               *)
Plain(p) ==
    \A a \in Places : p[a].kind \in Jumps =>
        LET t == p[a].to
        IN  IF t \notin Places THEN Count(p, "jif") = 0
            ELSE /\ p[t].kind = "jmp" =>
                       t # a /\ (t > 1 => p[t - 1].kind \in {"jmp", "jif", "ret"})
                 /\ p[t].kind = "jmp" /\ p[a].kind = "jmp" => t > a
                 /\ t > 1 => ~(p[t].kind \in {"jmp", "ret"} /\ p[t - 1].kind = "jif")

PlainPrograms ==
    {p \in [Places -> Instructions] : Varied(p) /\ Connected(p) /\ Plain(p)}

(* if (A) goto 3; 2: goto 4; 3: ...; 4: if (B) goto 2; return              *)
ExchangedProgram ==
    {<<Ins("jif", 0, 3), Ins("jmp", 0, 4), Ins("op", 0, 0), Ins("jif", 0, 2), Ins("ret", 0, 0)>>}
=============================================================================
