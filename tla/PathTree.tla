------------------------------ MODULE PathTree ------------------------------
(***************************************************************************)
(* The body of a function while the decompiler builds it (ana_pcode.cpp,   *)
(* the gotos of ana_branch.cpp): operations in paths, the paths in a tree, *)
(* which at this stage is one row of leaves, and the map from addresses to *)
(* the paths that begin there.                                             *)
(*                                                                         *)
(* A body is a record:                                                     *)
(*   root   the tree has been created (a function without it is a stub)    *)
(*   tree   the paths in order; a path has the name of the address it was  *)
(*          registered at, the tail path at the end is Exit                *)
(*   ops    the operations of each path: <<address, part>>                 *)
(*   ref    the path the jump at an address refers to                      *)
(*   flip   the addresses of the conditional jumps that were inverted      *)
(*   done   the paths that carry the flag m_analized                       *)
(*   sin    the level of the stack before each operation                   *)
(*   map    mPathMap: the path that begins at an address, Gap for an entry *)
(*          with no path (a path ends before it), None for no entry        *)
(*   cur    the path being generated, or None                              *)
(*   last   the operation before the next one, or NoOp                     *)
(*   broken the code reads freed or null memory next, or does not return:  *)
(*          from there on nothing is said                                  *)
(***************************************************************************)
EXTENDS Integers, Sequences, FiniteSetsExt, SequencesExt

CONSTANTS N,        \* the instructions of the function
          Programs  \* the functions considered: [1 .. N -> Instr]

Addr == 1 .. N
Out == N + 1        \* an address the function does not contain
Exit == 0
None == -1
Gap == -2
NoOp == <<0, 0>>

Instr == [kind : {"op", "set", "call", "jmp", "jif", "ret"}, by : Int, to : Int]

Jumps == {"jmp", "jif"}

ASSUME ProgramsAssumption == N \in Nat \ {0} /\ Programs \subseteq [Addr -> Instr]

VARIABLES code,  \* the instructions
          body,
          stub   \* what the callee removes from the stack, or None: not known

Op == Addr \X {1, 2}

(* A call is two operations, the push of the return address and the call.  *)
Parts(a) == IF code[a].kind = "call" THEN <<<<a, 1>>, <<a, 2>>>> ELSE <<<<a, 1>>>>

Kind(o) == code[o[1]].kind

IsCall(o) == Kind(o) = "call" /\ o[2] = 2

(* The level of the stack after an operation that finds it at s.           *)
StackOut(o, s) ==
    CASE Kind(o) = "set" -> code[o[1]].by
      [] IsCall(o) -> s + 1 + stub
      [] Kind(o) = "call" /\ o[2] = 1 -> s - 1
      [] Kind(o) = "ret" -> s + 1 + code[o[1]].by
      [] OTHER -> s + code[o[1]].by

Level(b, o) == StackOut(o, b.sin[o])

(* The operation that comes next in the code, if it goes straight on.      *)
NextOp(o) == IF o # Last(Parts(o[1])) THEN <<o[1], 2>> ELSE <<o[1] + 1, 1>>

(* A path holds the instructions from its address on, each once and whole. *)
IsRun(p, ops) ==
    ops # <<>> =>
        /\ ops[1] = <<p, 1>>
        /\ \A i \in 1 .. Len(ops) - 1 : ops[i + 1] = NextOp(ops[i])
        /\ Last(ops) = Last(Parts(Last(ops)[1]))

EmptyBody ==
    [root |-> FALSE, tree |-> <<>>, ops |-> [p \in Addr |-> <<>>],
     ref |-> [a \in Addr |-> None], flip |-> {}, done |-> {}, sin |-> [o \in Op |-> 0],
     map |-> [a \in Addr \cup {Out} |-> None], cur |-> None, last |-> NoOp, broken |-> FALSE]

Paths(b) == Range(b.tree) \ {Exit}

OpsOf(b, p) == IF p \in Addr THEN b.ops[p] ELSE <<>>

HeadOp(b, p) == IF OpsOf(b, p) = <<>> THEN NoOp ELSE Head(b.ops[p])
TailOp(b, p) == IF OpsOf(b, p) = <<>> THEN NoOp ELSE Last(b.ops[p])

IsRetOp(b, o) == Kind(o) \in {"jmp", "ret"} /\ b.ref[o[1]] = Exit

(* Mutant of BlockType: the tail path is like any other.                   *)
BlockTypeOfOps(b, p) ==
    IF TailOp(b, p) = NoOp THEN "null"
    ELSE CASE Kind(TailOp(b, p)) \in {"jmp", "ret"} -> "jmp"
           [] Kind(TailOp(b, p)) = "jif" -> "jif"
           [] OTHER -> "null"

BlockType(b, p) ==
    IF p = Exit THEN "exit"
    ELSE IF TailOp(b, p) = NoOp THEN "null"
    ELSE CASE Kind(TailOp(b, p)) \in {"jmp", "ret"} -> "jmp"
           [] Kind(TailOp(b, p)) = "jif" -> "jif"
           [] OTHER -> "null"

Place(s, e) == CHOOSE i \in DOMAIN s : s[i] = e
NextPath(b, p) == IF p = Last(b.tree) THEN None ELSE b.tree[Place(b.tree, p) + 1]
PrevPath(b, p) == IF p = Head(b.tree) THEN None ELSE b.tree[Place(b.tree, p) - 1]

GotoPath(b, p) == b.ref[TailOp(b, p)[1]]

HasRefs(b, p) == \E a \in Addr : b.ref[a] = p

(* The elements of s that are in K, in their order.                        *)
Kept(s, K) ==
    LET first[i \in 0 .. Len(s)] ==
            IF i = 0 THEN <<>>
            ELSE IF s[i] \in K THEN Append(first[i - 1], s[i]) ELSE first[i - 1]
    IN  first[Len(s)]

-----------------------------------------------------------------------------
(* The path map.                                                           *)

(* The entry an address falls into: the greatest one that is not above it. *)
Below(b, a) == {k \in 1 .. a : b.map[k] # None}
Within(b, a) == IF Below(b, a) = {} THEN None ELSE b.map[Max(Below(b, a))]

CreateTailPath(b) ==
    IF Exit \in Range(b.tree) THEN b
    ELSE [b EXCEPT !.tree = Append(@, Exit), !.done = @ \cup {Exit}]

InsertPathBefore(b, a) ==
    LET above == {k \in a + 1 .. N : b.map[k] # None}
        next == IF above = {} THEN Gap ELSE b.map[Min(above)]
        at == IF next # Gap THEN Place(b.tree, next)
              ELSE IF Exit \in Range(b.tree) THEN Len(b.tree) ELSE Len(b.tree) + 1
    IN  [b EXCEPT !.tree = InsertAt(@, at, a), !.map[a] = a]

SplitPath(b, p, a) ==
    LET len == Len(b.ops[p])
        first == Min({i \in 1 .. len : b.ops[p][i][1] >= a} \cup {len + 1})
        before == SubSeq(b.ops[p], 1, first - 1)
        after == SubSeq(b.ops[p], first, len)
    IN  [b EXCEPT !.tree = InsertAt(@, Place(@, p) + 1, a),
                  !.ops[p] = before, !.ops[a] = after,
                  !.done = IF p \in @ THEN @ \cup {a} ELSE @,
                  !.map[a] = a,
                  !.cur = IF @ = p THEN a ELSE @]

(* now is the address of the instruction being generated: of the current   *)
(* path only what is not above it exists.                                  *)
AssurePathBeginsAt(b, a, now) ==
    LET p == Within(b, a)
    IN  IF b.map[a] \in Addr THEN b
        ELSE IF p \in Addr /\ OpsOf(b, p) # <<>> /\ (p = b.cur => a <= now)
             THEN SplitPath(b, p, a)
             ELSE InsertPathBefore(b, a)

(* The operation a reference comes from.                                   *)
GetRefOp(b, a) == TailOp(b, Within(b, a))

-----------------------------------------------------------------------------
(* The gotos.                                                              *)

(* The path begins with a jump that leads on. *)
Forwards(b, p) ==
    LET o == HeadOp(b, p)
    IN  o # NoOp /\ Kind(o) = "jmp" /\ ~IsRetOp(b, o) /\ b.ref[o[1]] # None

(* A jump to a jump goes where that one goes, at most through all paths:   *)
(* what still forwards then is in a circle.                                *)
TraceGoto(b, to) ==
    LET hop[k \in 0 .. N + 1] ==
            IF k = 0 THEN to
            ELSE IF Forwards(b, hop[k - 1]) THEN b.ref[HeadOp(b, hop[k - 1])[1]]
            ELSE hop[k - 1]
    IN  hop[N + 1]

(* A path nobody refers to is joined to the one before it, or removed when *)
(* a jump stands there. The map still holds it.                            *)
CheckDanglingPath(b, p) ==
    LET prev == PrevPath(b, p)
    IN  IF HasRefs(b, p) \/ prev = None \/ BlockType(b, prev) = "jif" THEN b
        ELSE [b EXCEPT !.tree = Kept(@, Range(@) \ {p}),
                       !.ops[prev] = IF BlockType(b, prev) = "null" THEN @ \o b.ops[p] ELSE @,
                       !.ops[p] = <<>>,
                       !.cur = IF @ = p THEN prev ELSE @,
                       !.broken = TRUE]

(* The code does not return from a circle of jumps.                        *)
AdjustGoto(b, p) ==
    LET o == TailOp(b, p)
        to == b.ref[o[1]]
        dest == TraceGoto(b, to)
    IN  IF IsRetOp(b, o) \/ to = None \/ OpsOf(b, to) = <<>> THEN b
        ELSE IF Forwards(b, dest) THEN [b EXCEPT !.broken = TRUE]
        ELSE IF dest = to THEN b
        ELSE CheckDanglingPath([b EXCEPT !.ref[o[1]] = dest], to)

(* Mutant of AdjustGoto2: the condition is inverted twice.                 *)
AdjustGoto2Upright(b, p) ==
    LET prev == PrevPath(b, p)
        self == TailOp(b, p)[1]
        jif == TailOp(b, prev)[1]
    IN  IF /\ BlockType(b, p) = "jmp" /\ Len(b.ops[p]) = 1
           /\ prev # None /\ BlockType(b, prev) = "jif"
           /\ b.ref[jif] # None /\ b.ref[jif] = NextPath(b, p)
        THEN [b EXCEPT !.ref[jif] = b.ref[self], !.ref[self] = b.ref[jif],
                       !.broken = @ \/ b.ref[self] = None]
        ELSE b

(* if (A) goto L1; goto L2; L1: becomes if (!A) goto L2; goto L1; L1:      *)
AdjustGoto2(b, p) ==
    LET prev == PrevPath(b, p)
        self == TailOp(b, p)[1]
        jif == TailOp(b, prev)[1]
    IN  IF /\ BlockType(b, p) = "jmp" /\ Len(b.ops[p]) = 1
           /\ prev # None /\ BlockType(b, prev) = "jif"
           /\ b.ref[jif] # None /\ b.ref[jif] = NextPath(b, p)
        THEN [b EXCEPT !.ref[jif] = b.ref[self], !.ref[self] = b.ref[jif],
                       !.flip = (@ \ {jif}) \cup ({jif} \ @),
                       !.broken = @ \/ b.ref[self] = None]
        ELSE b

(* A jump ends its path: the entry behind it marks that.                   *)
FinalizePath(b, a) ==
    LET c == AdjustGoto(b, b.cur)
        d == AdjustGoto2(c, c.cur)
    IN  [d EXCEPT !.map[a + 1] = IF @ = None THEN Gap ELSE @, !.cur = None]
=============================================================================
