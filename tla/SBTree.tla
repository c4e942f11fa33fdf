------------------------------- MODULE SBTree -------------------------------
(***************************************************************************)
(* The intrusive size balanced tree of shared/sbtree2.h, which holds the   *)
(* fields, globals and names of a project.  A tree is the links of its     *)
(* nodes: the sentinel Nil has the root as its parent, the most left node  *)
(* as its left and the most right one as its right child, and size 0.      *)
(* The templates' flag is_left is a side here, "L" or "R".                 *)
(***************************************************************************)
EXTENDS Integers, Sequences, FiniteSets

CONSTANTS Node,    \* the nodes a program may link into the tree
          Nil,     \* the sentinel of the tree
          Null,    \* the null pointer: the links of a node in no tree
          KeyOf    \* the key of a node

ASSUME NodesAssumption ==
    /\ {Nil, Null} \cap Node = {} /\ Nil # Null
    /\ KeyOf \in [Node -> Int]

VARIABLES t,       \* the tree
          iter     \* the iterator the last operation returned

vars == <<t, iter>>

Side == {"L", "R"}
Other(d) == IF d = "L" THEN "R" ELSE "L"

Trees ==
    [parent : [Node \cup {Nil} -> Node \cup {Nil, Null}],
     child : [Side -> [Node \cup {Nil} -> Node \cup {Nil, Null}]],
     size : [Node \cup {Nil} -> 0 .. Cardinality(Node)]]

EmptyTree ==
    [parent |-> [n \in Node \cup {Nil} |-> IF n = Nil THEN Nil ELSE Null],
     child |-> [d \in Side |->
                  [n \in Node \cup {Nil} |-> IF n = Nil THEN Nil ELSE Null]],
     size |-> [n \in Node \cup {Nil} |-> 0]]

Root(s) == s.parent[Nil]
LinkedTo(s, n, p) == [s EXCEPT !.parent[n] = p]
WithChild(s, d, n, c) == [s EXCEPT !.child[d][n] = c]
(* The replacement of the child of p, which may be the sentinel.           *)
InPlaceOf(s, old, new, p) ==
    IF Root(s) = old THEN LinkedTo(s, Nil, new)
    ELSE WithChild(s, IF s.child["L"][p] = old THEN "L" ELSE "R", p, new)
(* Links a child that exists; the sentinel's parent is the root.           *)
Adopt(s, n, p) == IF n = Nil THEN s ELSE LinkedTo(s, n, p)

Resized(s, n) ==
    [s EXCEPT !.size[n] = s.size[s.child["L"][n]] + s.size[s.child["R"][n]] + 1]

(* The nodes from n up to the root, n among them.                          *)
Path(s, n) ==
    LET up[m \in Node \cup {Nil}] ==
            IF m = Nil THEN {} ELSE {m} \cup up[s.parent[m]]
    IN up[n]

Grown(s, ns, by) ==
    [s EXCEPT !.size = [n \in DOMAIN @ |-> IF n \in ns THEN @[n] + by ELSE @[n]]]

-----------------------------------------------------------------------------
(* Steps through the tree.                                                 *)

Most(s, d, n) ==
    LET far[m \in Node] == IF s.child[d][m] = Nil THEN m ELSE far[s.child[d][m]]
    IN far[n]

(* The neighbour of n in order: the next one on side "R".  From the        *)
(* sentinel the walk begins at the other end.                              *)
Move(s, d, n) ==
    LET climb[m \in Node] ==
            IF s.parent[m] # Nil /\ s.child[d][s.parent[m]] = m
            THEN climb[s.parent[m]]
            ELSE s.parent[m]
    IN IF n = Nil THEN s.child[Other(d)][Nil]
       ELSE IF s.child[d][n] # Nil THEN Most(s, Other(d), s.child[d][n])
       ELSE climb[n]

(* step positions away from n, by the sizes of the subtrees.               *)
RECURSIVE Advance(_, _, _)
Advance(s, n, step) ==
    LET d == IF step > 0 THEN "R" ELSE "L"
        dist == IF step > 0 THEN step ELSE -step
        sign == IF step > 0 THEN 1 ELSE -1
        p == s.parent[n]
        c == s.child[d][n]
    IN IF step = 0 THEN n
       ELSE IF n = Nil
       THEN LET first == s.child[Other(d)][Nil] IN
            IF first = Nil THEN Nil ELSE Advance(s, first, step - sign)
       ELSE IF s.size[c] >= dist
       THEN Advance(s, c, step - sign * (s.size[s.child[Other(d)][c]] + 1))
       ELSE IF p = Nil THEN Nil
       ELSE IF s.child["R"][p] = n
       THEN Advance(s, p, step + s.size[s.child["L"][n]] + 1)
       ELSE Advance(s, p, step - (s.size[s.child["R"][n]] + 1))

(* The last node on the way down from the root that has a greater key, or  *)
(* not a smaller one, and how many nodes are passed on its left.           *)
Bound(s, strict, k) ==
    LET Before(n) == IF strict THEN KeyOf[n] <= k ELSE KeyOf[n] < k
        down[n \in Node \cup {Nil}] ==
            IF n = Nil THEN Nil
            ELSE IF Before(n) THEN down[s.child["R"][n]]
            ELSE LET b == down[s.child["L"][n]] IN IF b = Nil THEN n ELSE b
    IN down[Root(s)]
LowerBound(s, k) == Bound(s, FALSE, k)
UpperBound(s, k) == Bound(s, TRUE, k)

(* Both at once: the way to the lower one passes the first node with a     *)
(* greater key, and the upper one is looked for from there.                *)
EqualRange(s, k) ==
    LET pass[n \in Node \cup {Nil}] ==
            IF n = Nil THEN Nil
            ELSE IF KeyOf[n] < k THEN pass[s.child["R"][n]]
            ELSE IF k < KeyOf[n] THEN n ELSE pass[s.child["L"][n]]
        down[n \in Node \cup {Nil}] ==
            IF n = Nil THEN Nil
            ELSE IF KeyOf[n] <= k THEN down[s.child["R"][n]]
            ELSE LET b == down[s.child["L"][n]] IN IF b = Nil THEN n ELSE b
        u == pass[Root(s)]
        v == down[IF u = Nil THEN Root(s) ELSE s.child["L"][u]]
    IN <<LowerBound(s, k), IF v = Nil THEN u ELSE v>>

BoundRank(s, strict, k) ==
    LET Before(n) == IF strict THEN KeyOf[n] <= k ELSE KeyOf[n] < k
        down[n \in Node \cup {Nil}] ==
            IF n = Nil THEN 0
            ELSE IF Before(n)
            THEN s.size[s.child["L"][n]] + 1 + down[s.child["R"][n]]
            ELSE down[s.child["L"][n]]
    IN down[Root(s)]

Find(s, k) ==
    LET n == LowerBound(s, k) IN IF n = Nil \/ k < KeyOf[n] THEN Nil ELSE n

Rank(s, n) ==
    LET up[m \in Node] ==
            LET p == s.parent[m] IN
            IF p = Nil THEN 0
            ELSE up[p] + (IF s.child["R"][p] = m
                          THEN s.size[s.child["L"][p]] + 1 ELSE 0)
    IN IF n = Nil THEN s.size[Root(s)] ELSE s.size[s.child["L"][n]] + up[n]

RECURSIVE AtFrom(_, _, _)
AtFrom(s, n, i) ==
    LET r == s.size[s.child["L"][n]] IN
    IF i = r THEN n
    ELSE IF i < r THEN AtFrom(s, s.child["L"][n], i)
    ELSE AtFrom(s, s.child["R"][n], i - (r + 1))
At(s, i) == IF i >= s.size[Root(s)] THEN Nil ELSE AtFrom(s, Root(s), i)

-----------------------------------------------------------------------------
(* Balance.                                                                *)

(* Mutant: the size of the node that went down is not refreshed.           *)
RotateStale(s, d, n) ==
    LET c == s.child[Other(d)][n]
        inner == s.child[d][c]
        s1 == Adopt(WithChild(s, Other(d), n, inner), inner, n)
        s2 == InPlaceOf(LinkedTo(s1, c, s.parent[n]), n, c, s.parent[n])
        s3 == LinkedTo(WithChild(s2, d, c, n), n, c)
    IN [s3 EXCEPT !.size[c] = s.size[n]]

(* The child of n on the other side comes up in its place.                 *)
Rotate(s, d, n) ==
    LET c == s.child[Other(d)][n]
        inner == s.child[d][c]
        s1 == Adopt(WithChild(s, Other(d), n, inner), inner, n)
        s2 == InPlaceOf(LinkedTo(s1, c, s.parent[n]), n, c, s.parent[n])
        s3 == LinkedTo(WithChild(s2, d, c, n), n, c)
    IN Resized([s3 EXCEPT !.size[c] = s.size[n]], n)

(* [t, n]: the tree when the child of n on side d is no longer too large,  *)
(* and the node that has taken the place of n.                             *)
RECURSIVE Maintain(_, _, _)
MaintainChild(s, d, n) ==
    IF s.child[d][n] = Nil THEN s ELSE Maintain(s, d, s.child[d][n]).t
MaintainAll(s, n) ==
    LET both == MaintainChild(MaintainChild(s, "L", n), "R", n)
        left == Maintain(both, "L", n)
    IN Maintain(left.t, "R", left.n)
Maintain(s, d, n) ==
    LET c == s.child[d][n]
        o == Other(d)
        allowed == s.size[s.child[o][n]]
        inner == s.child[o][c]
    IN IF c = Nil THEN [t |-> s, n |-> n]
       ELSE IF s.size[s.child[d][c]] > allowed
       THEN MaintainAll(Rotate(s, o, n), c)
       ELSE IF s.size[inner] > allowed
       THEN MaintainAll(Rotate(Rotate(s, d, c), o, n), inner)
       ELSE [t |-> s, n |-> n]

(* From the parent of n up to the root: n has grown or has shrunk.         *)
RECURSIVE MaintainUp(_, _, _)
MaintainUp(s, n, grown) ==
    LET p == s.parent[n]
        d == IF s.child["L"][p] = n THEN "L" ELSE "R"
        m == Maintain(s, IF grown THEN d ELSE Other(d), p)
    IN IF p = Nil THEN s ELSE MaintainUp(m.t, m.n, grown)

(* Mutant: the side that shrank is maintained, not the other one.          *)
EraseMaintainSame(s, n, d) ==
    LET m == Maintain(s, d, n) IN MaintainUp(m.t, m.n, FALSE)

EraseMaintain(s, n, d) ==
    LET m == Maintain(s, Other(d), n) IN MaintainUp(m.t, m.n, FALSE)

-----------------------------------------------------------------------------
(* Insertion.                                                              *)

Fresh(s, n, p) ==
    [s EXCEPT !.parent[n] = p, !.child["L"][n] = Nil, !.child["R"][n] = Nil,
              !.size[n] = 1]

InsertFirst(s, n) ==
    [Fresh(s, n, Nil) EXCEPT !.parent[Nil] = n, !.child["L"][Nil] = n,
                             !.child["R"][Nil] = n]

(* n becomes the child of where on side d.                                 *)
InsertAt(s, d, where, n) ==
    LET s1 == WithChild(Fresh(Grown(s, Path(s, where), 1), n, where), d, where, n)
        s2 == IF s.child[d][Nil] = where THEN WithChild(s1, d, Nil, n) ELSE s1
    IN MaintainUp(s2, n, TRUE)

(* Mutant: nodes of the same key are passed on the wrong side.             *)
InsertDownBefore(s, leftish, n) ==
    LET Side0(m) == IF (IF leftish THEN KeyOf[m] > KeyOf[n] ELSE KeyOf[n] <= KeyOf[m])
                    THEN "L" ELSE "R"
        leaf[m \in Node] ==
            IF s.child[Side0(m)][m] = Nil THEN m ELSE leaf[s.child[Side0(m)][m]]
        where == leaf[Root(s)]
    IN IF Root(s) = Nil THEN InsertFirst(s, n)
       ELSE InsertAt(s, Side0(where), where, n)

(* Down from the root, before or behind the nodes of the same key.         *)
InsertDown(s, leftish, n) ==
    LET Side0(m) == IF (IF leftish THEN KeyOf[m] >= KeyOf[n] ELSE KeyOf[n] < KeyOf[m])
                    THEN "L" ELSE "R"
        leaf[m \in Node] ==
            IF s.child[Side0(m)][m] = Nil THEN m ELSE leaf[s.child[Side0(m)][m]]
        where == leaf[Root(s)]
    IN IF Root(s) = Nil THEN InsertFirst(s, n)
       ELSE InsertAt(s, Side0(where), where, n)

(* Next to the node hint, if n fits there; down from the root otherwise.   *)
InsertHint(s, hint, n) ==
    LET k == KeyOf[n]
        prev == Move(s, "L", hint)
        next == Move(s, "R", hint)
    IN IF Root(s) = Nil THEN InsertFirst(s, n)
       ELSE IF hint = s.child["L"][Nil]
       THEN IF KeyOf[hint] >= k THEN InsertAt(s, "L", hint, n)
            ELSE InsertDown(s, TRUE, n)
       ELSE IF hint = Nil
       THEN IF k >= KeyOf[s.child["R"][Nil]] THEN InsertAt(s, "R", s.child["R"][Nil], n)
            ELSE InsertDown(s, FALSE, n)
       ELSE IF KeyOf[hint] >= k /\ k >= KeyOf[prev]
       THEN IF s.child["R"][prev] = Nil THEN InsertAt(s, "R", prev, n)
            ELSE InsertAt(s, "L", hint, n)
       ELSE IF k >= KeyOf[hint] /\ (next = Nil \/ KeyOf[next] >= k)
       THEN IF s.child["R"][hint] = Nil THEN InsertAt(s, "R", hint, n)
            ELSE InsertAt(s, "L", next, n)
       ELSE InsertDown(s, TRUE, n)

-----------------------------------------------------------------------------
(* Removal.                                                                *)

(* A node with two children: its neighbour from the larger side d takes    *)
(* its place.                                                              *)
EraseInner(s, e, d) ==
    LET o == Other(d)
        n == Move(s, d, e)
        fix == s.child[d][n]
        fixParent == IF n = s.child[d][e] THEN n ELSE s.parent[n]
        s1 == Grown(s, Path(s, s.parent[n]) \ Path(s, e), -1)
        s2 == WithChild(LinkedTo(s1, s.child[o][e], n), o, n, s.child[o][e])
        s3 == IF fixParent = n THEN s2
              ELSE LinkedTo(WithChild(WithChild(Adopt(s2, fix, fixParent),
                                                o, fixParent, fix),
                                      d, n, s.child[d][e]),
                            s.child[d][e], n)
        s4 == LinkedTo(InPlaceOf(s3, e, n, s.parent[e]), n, s.parent[e])
    IN EraseMaintain(Resized(s4, n), fixParent, d)

(* A node with at most one child, on side d if anywhere.                   *)
EraseOuter(s, e, d) ==
    LET fix == s.child[d][e]
        p == s.parent[e]
        side == IF s.child["L"][p] = e THEN "L" ELSE "R"
        s1 == InPlaceOf(Adopt(s, fix, p), e, fix, p)
        s2 == IF Root(s) = e THEN s1 ELSE EraseMaintain(s1, p, side)
        WithEnd(x, a) ==
            IF x.child[a][Nil] # e THEN x
            ELSE WithChild(x, a, Nil, IF fix = Nil THEN p ELSE Most(x, a, fix))
    IN WithEnd(WithEnd(s2, "L"), "R")

(* Mutant: the node that is taken out keeps its links.                     *)
EraseKeepsLinks(s, e) ==
    LET l == s.child["L"][e]
        r == s.child["R"][e]
        s1 == Grown(s, Path(s, s.parent[e]), -1)
        s2 == IF l = Nil THEN EraseOuter(s1, e, "R")
              ELSE IF r = Nil THEN EraseOuter(s1, e, "L")
              ELSE EraseInner(s1, e, IF s.size[l] > s.size[r] THEN "L" ELSE "R")
    IN [s2 EXCEPT !.size[e] = 0]

(* sbt_erase_; the node that is taken out keeps no links (take).  Its size *)
(* is not read again: 0 here.                                              *)
Erase(s, e) ==
    LET l == s.child["L"][e]
        r == s.child["R"][e]
        s1 == Grown(s, Path(s, s.parent[e]), -1)
        s2 == IF l = Nil THEN EraseOuter(s1, e, "R")
              ELSE IF r = Nil THEN EraseOuter(s1, e, "L")
              ELSE EraseInner(s1, e, IF s.size[l] > s.size[r] THEN "L" ELSE "R")
    IN [s2 EXCEPT !.parent[e] = Null, !.child["L"][e] = Null,
                  !.child["R"][e] = Null, !.size[e] = 0]

(* Mutant: the ends of the tree are forgotten.                             *)
ReboundInside(s, from, to) ==
    LET p == s.parent[from]
        s1 == [s EXCEPT !.parent[to] = p, !.size[to] = s.size[from],
                        !.child["L"][to] = s.child["L"][from],
                        !.child["R"][to] = s.child["R"][from],
                        !.parent[from] = Null, !.size[from] = 0,
                        !.child["L"][from] = Null, !.child["R"][from] = Null]
        s2 == InPlaceOf(s1, from, to, p)
    IN Adopt(Adopt(s2, s.child["L"][from], to), s.child["R"][from], to)

(* A node is moved in memory: to is its copy, from is blank.               *)
Rebound(s, from, to) ==
    LET p == s.parent[from]
        At2(d) == IF s.child[d][Nil] = from THEN to ELSE s.child[d][Nil]
        s1 == [s EXCEPT !.parent[to] = p, !.size[to] = s.size[from],
                        !.child["L"][to] = s.child["L"][from],
                        !.child["R"][to] = s.child["R"][from],
                        !.parent[from] = Null, !.size[from] = 0,
                        !.child["L"][from] = Null, !.child["R"][from] = Null]
        s2 == InPlaceOf(s1, from, to, p)
        s3 == Adopt(Adopt(s2, s.child["L"][from], to), s.child["R"][from], to)
    IN [s3 EXCEPT !.child["L"][Nil] = At2("L"), !.child["R"][Nil] = At2("R")]

-----------------------------------------------------------------------------
Linked == IF Root(t) = Nil THEN {} ELSE {n \in Node : t.size[n] > 0}

Init == t = EmptyTree /\ iter = Nil

Insert(n) ==
    /\ n \notin Linked
    /\ t' = InsertDown(t, FALSE, n)
    /\ iter' = n

InsertUnique(n) ==
    /\ n \notin Linked
    /\ LET lb == LowerBound(t, KeyOf[n]) IN
       IF lb # Nil /\ ~ KeyOf[n] < KeyOf[lb]
       THEN iter' = lb /\ UNCHANGED t
       ELSE t' = InsertHint(t, lb, n) /\ iter' = n

(* take() with a forward iterator (step 1) or a reverse one (-1).          *)
Take(n, step) ==
    /\ n \in Linked
    /\ iter' = Advance(t, n, step)
    /\ t' = Erase(t, n)

Rebind(from, to) ==
    /\ from \in Linked
    /\ to \notin Linked
    /\ KeyOf[to] = KeyOf[from]
    /\ t' = Rebound(t, from, to)
    /\ iter' = to

(* deallocator_t::clear: the nodes are deleted, and the sentinel forgets   *)
(* the root and nothing else.                                              *)
Cleared(s) ==
    [EmptyTree EXCEPT !.child["L"][Nil] = s.child["L"][Nil],
                      !.child["R"][Nil] = s.child["R"][Nil]]

Clear == t' = Cleared(t) /\ iter' = Nil

Next ==
    \/ \E n \in Node : Insert(n) \/ InsertUnique(n) \/ Take(n, 1) \/ Take(n, -1)
    \/ \E from, to \in Node : Rebind(from, to)
    \/ Clear

Spec == Init /\ [][Next]_vars

-----------------------------------------------------------------------------
(* The nodes from left to right.                                           *)
InOrder(s) ==
    LET walk[n \in Node \cup {Nil}] ==
            IF n = Nil THEN <<>>
            ELSE walk[s.child["L"][n]] \o <<n>> \o walk[s.child["R"][n]]
    IN walk[Root(s)]

(* A node has links exactly while it is in the tree: the assert of         *)
(* overrideKey.                                                            *)
TypeOK ==
    /\ t \in Trees
    /\ iter \in Node \cup {Nil}
    /\ \A n \in Node :
          LET links == {t.parent[n], t.child["L"][n], t.child["R"][n]} IN
          IF n \in Linked THEN Null \notin links ELSE links = {Null}

(***************************************************************************)
(* After every operation each child names its parent and each parent its   *)
(* child, the sizes are those of the subtrees, and nothing that was taken  *)
(* out is linked: what sbt_rotate_, sbt_erase_ and rebind relink by hand.  *)
(***************************************************************************)
WellLinked ==
    /\ \A n \in Linked :
          /\ t.size[n] = t.size[t.child["L"][n]] + t.size[t.child["R"][n]] + 1
          /\ \A d \in Side : t.child[d][n] # Nil =>
                t.child[d][n] \in Linked /\ t.parent[t.child[d][n]] = n
          /\ IF t.parent[n] = Nil THEN Root(t) = n
             ELSE \E d \in Side : t.child[d][t.parent[n]] = n
    /\ t.size[Nil] = 0
    /\ Root(t) = Nil \/ \A d \in Side : t.child[d][Nil] = Most(t, d, Root(t))

(***************************************************************************)
(* The tree is the ordered list its users take it for: insertion, rotation *)
(* and removal keep the order, nodes of equal keys stay in the order of    *)
(* insertion, and take() answers with the neighbour, though it restructures *)
(* the tree after it has asked for it.                                     *)
(***************************************************************************)
Abstract == INSTANCE OrderedList WITH list <- InOrder(t)

ImplementsOrderedList == Abstract!Spec

(***************************************************************************)
(* Searches by key, by position and by iterator (lower_bound, upper_bound, *)
(* find, equal_range, at, rank, lower_rank, upper_rank, +=, ++ and --)       *)
(* answer what the list of the nodes says; they rest on the sizes and on   *)
(* the sentinel's links.                                                   *)
(***************************************************************************)
SearchesAgree ==
    LET l == InOrder(t)
        len == Len(l)
        NodeAt(i) == IF i \in 1 .. len THEN l[i] ELSE Nil
    IN /\ \A k \in {KeyOf[n] : n \in Node} :
             LET lo == Cardinality({i \in 1 .. len : KeyOf[l[i]] < k})
                 hi == Cardinality({i \in 1 .. len : KeyOf[l[i]] <= k})
             IN /\ LowerBound(t, k) = NodeAt(lo + 1)
                /\ UpperBound(t, k) = NodeAt(hi + 1)
                /\ Find(t, k) = IF lo < hi THEN l[lo + 1] ELSE Nil
                /\ EqualRange(t, k) = <<NodeAt(lo + 1), NodeAt(hi + 1)>>
                /\ BoundRank(t, FALSE, k) = lo
                /\ BoundRank(t, TRUE, k) = hi
       /\ \A i \in 1 .. len + 1 : At(t, i - 1) = NodeAt(i)
       /\ \A i \in 1 .. len :
             /\ Rank(t, l[i]) = i - 1
             /\ Move(t, "R", l[i]) = NodeAt(i + 1)
             /\ Move(t, "L", l[i]) = NodeAt(i - 1)
             /\ \A j \in 0 .. len + 1 : Advance(t, l[i], j - i) = NodeAt(j)
       /\ Rank(t, Nil) = len

(* No subtree is smaller than a subtree of its sibling.                    *)
BalancedAt(s, n) ==
    \A d \in Side, e \in Side :
        LET c == s.child[d][n] IN
        c # Nil => s.size[s.child[e][c]] <= s.size[s.child[Other(d)][n]]

Balanced == \A n \in Linked : BalancedAt(t, n)

(* A node with two children whose neighbour on its larger side is not its  *)
(* child.                                                                  *)
HasDeepNeighbour(s, n) ==
    LET l == s.child["L"][n]
        r == s.child["R"][n]
        d == IF s.size[l] > s.size[r] THEN "L" ELSE "R"
    IN l # Nil /\ r # Nil /\ s.child[Other(d)][s.child[d][n]] # Nil

(***************************************************************************)
(* What sbt_maintain_ is called for, and what the class is named for: a    *)
(* balanced tree stays balanced in every operation, but for one.  When a   *)
(* node is replaced by a neighbour deeper down, sbt_erase_at_ returns the  *)
(* parent of that neighbour, whose side that shrank is the other one than  *)
(* the one sbt_erase_ then has maintained.                                 *)
(***************************************************************************)
BalanceKept ==
    [][Balanced =>
         \/ Balanced'
         \/ \E n \in Linked : n \notin Linked' /\ HasDeepNeighbour(t, n)]_vars
=============================================================================
