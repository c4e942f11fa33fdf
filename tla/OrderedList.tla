---------------------------- MODULE OrderedList -----------------------------
(***************************************************************************)
(* What the intrusive tree promises: the nodes in a list ordered by key,   *)
(* nodes of one key in the order of insertion, every operation answering   *)
(* with an iterator: a node of the list, or Nil for its end.               *)
(***************************************************************************)
EXTENDS Integers, SequencesExt

CONSTANTS Node, Nil, KeyOf

VARIABLES list,  \* the nodes, in order
          iter   \* the iterator the last operation returned

vars == <<list, iter>>

NodesIn(l) == {l[i] : i \in 1 .. Len(l)}

(* The number of nodes before the first whose key is greater.              *)
UpperRank(l, k) == Cardinality({i \in 1 .. Len(l) : KeyOf[l[i]] <= k})

LowerRank(l, k) == Cardinality({i \in 1 .. Len(l) : KeyOf[l[i]] < k})

(* The node at position i, the end past the last.                          *)
NodeAt(l, i) == IF i \in 1 .. Len(l) THEN l[i] ELSE Nil

RankOf(l, n) == CHOOSE i \in 1 .. Len(l) : l[i] = n

Init == list = <<>> /\ iter = Nil

Insert(n) ==
    /\ n \notin NodesIn(list)
    /\ list' = InsertAt(list, UpperRank(list, KeyOf[n]) + 1, n)
    /\ iter' = n

(* A key that is there is not inserted again: the answer is its first node. *)
InsertUnique(n) ==
    /\ n \notin NodesIn(list)
    /\ LET r == LowerRank(list, KeyOf[n]) IN
       IF UpperRank(list, KeyOf[n]) > r
       THEN iter' = list[r + 1] /\ UNCHANGED list
       ELSE list' = InsertAt(list, r + 1, n) /\ iter' = n

(* Taking a node out answers with the one after it, or before it.          *)
Take(n, step) ==
    /\ n \in NodesIn(list)
    /\ iter' = NodeAt(list, RankOf(list, n) + step)
    /\ list' = Remove(list, n)

(* A node is replaced by another of the same key, in the same place.       *)
Rebind(from, to) ==
    /\ from \in NodesIn(list)
    /\ to \notin NodesIn(list)
    /\ KeyOf[to] = KeyOf[from]
    /\ list' = [list EXCEPT ![RankOf(list, from)] = to]
    /\ iter' = to

Clear == list' = <<>> /\ iter' = Nil

Next ==
    \/ \E n \in Node : Insert(n) \/ InsertUnique(n) \/ Take(n, 1) \/ Take(n, -1)
    \/ \E from, to \in Node : Rebind(from, to)
    \/ Clear

Spec == Init /\ [][Next]_vars
=============================================================================
