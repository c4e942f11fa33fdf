----------------------------- MODULE ExprSimpl -----------------------------
(***************************************************************************)
(* The expression simplifier of the decompiler (dc/expr_simpl.cpp).        *)
(*                                                                         *)
(* Simplify() rewrites one expression tree in place, in four loops.  A     *)
(* loop walks the tree from the root, the left branch before the right,    *)
(* applies the first rule that fits and starts again at the root, until no *)
(* rule fits.  The rules are translated for signed integer terms: the      *)
(* tests for pointers, reals, fields and calls are taken as false.         *)
(*                                                                         *)
(* A tree is a tuple: <<op, left, right>> for an operation (a unary one    *)
(* has its operand on the right, as Out_t::AddChild puts it), <<"imm", n>> *)
(* for a number and <<"var", x>> for a storage.  A node is named by the    *)
(* path that leads to it from the root, a sequence of 2s and 3s: what the  *)
(* code does with mpU, mpL and mpR is done here with paths.                *)
(***************************************************************************)
EXTENDS Integers, Sequences

CONSTANTS Inputs,      \* the expressions that are simplified
          Width,       \* the bits of value_t::i32
          Valuations   \* some values of the storages, to compare meanings

ASSUME WidthAssumption == Width \in Nat \ {0}

VARIABLES input,       \* the expression as it was handed over
          expr,        \* the expression now
          phase        \* the loop of Simplify() that is running

vars == <<input, expr, phase>>

Nil == <<"nil">>

Op(x) == x[1]
L(x) == x[2]
R(x) == x[3]

\* int arithmetic wraps at Width bits
Wrap(n) == ((n + 2^(Width-1)) % 2^Width) - 2^(Width-1)
imm(n) == <<"imm", Wrap(n)>>

isImmidiate(x) == Op(x) = "imm"
isNum(x, n) == x = <<"imm", n>>
isTerm(x) == Op(x) \in {"imm", "var"}
isActionAddOrSub(x) == Op(x) \in {"add", "sub"}

\* conditional jumps (ACTN_JMPIF + condition) and comparisons, each followed
\* by its inverse: the code inverts one by flipping the last bit of its number
JmpIfs == <<"ifL", "ifGE", "ifE", "ifNE", "ifLE", "ifG">>
Cmps == <<"<", ">=", "==", "!=", "<=", ">">>
isComparAction0(x) == \E i \in 1..6 : Op(x) = JmpIfs[i]
isComparAction(x) == \E i \in 1..6 : Op(x) = Cmps[i]
inverse(ops, op) == LET i == CHOOSE i \in 1..6 : ops[i] = op
                    IN ops[IF i % 2 = 1 THEN i + 1 ELSE i - 1]

---------------------------------------------------------------------------
\* the tree

RECURSIVE At(_, _), Put(_, _, _)
At(e, p) == IF p = <<>> THEN e ELSE At(e[Head(p)], Tail(p))
Put(e, p, x) ==
  IF p = <<>> THEN x ELSE [e EXCEPT ![Head(p)] = Put(@, Tail(p), x)]

up(p) == SubSeq(p, 1, Len(p) - 1)
isRight(p) == p[Len(p)] = 3
sibling(p) == Append(up(p), 5 - p[Len(p)])
OpUp(e, p) == Op(At(e, up(p)))                      \* pSelf->mpU->mAction

\* ordered choice: the results of the first rule that fits
When(fits, result) == IF fits THEN {result} ELSE {}
a ?? b == UNION {IF r # {} THEN r ELSE b : r \in {a}}

---------------------------------------------------------------------------
\* MoveHigher: (x +- (a +- b)) and its mirrors, with a taken one level up.
\* Row: which sides a and its parent are on; column: which of the two
\* operations are additions.  Bit 0 of an entry: the lower operation becomes
\* an addition; bit 1: the upper one does; bit 2: the whole changes its sign.
\* mutant: two entries of the first row swapped
MoveTableSwapped == << <<1, 0, 2, 3>>,
                       <<0, 2, 1, 3>>,
                       <<5, 4, 2, 3>>,
                       <<2, 0, 1, 3>> >>

MoveTable == << <<1, 2, 0, 3>>,
                <<0, 2, 1, 3>>,
                <<5, 4, 2, 3>>,
                <<2, 0, 1, 3>> >>

bit(n, b) == (n \div b) % 2 = 1
num(c, n) == IF c THEN n ELSE 0
addOrSub(c) == IF c THEN "add" ELSE "sub"

MoveHigher(e, p) ==
  LET pU == up(p)
      pUU == up(pU)
      self == At(e, p)
      entry == MoveTable[1 + num(isRight(p), 1) + num(isRight(pU), 2)]
                        [1 + num(OpUp(e, p) = "add", 1) + num(OpUp(e, pU) = "add", 2)]
      lower(x) == [Put(At(e, pUU), <<pU[Len(pU)]>>, At(e, sibling(p)))
                     EXCEPT ![1] = addOrSub(bit(x, 1))]
      upper(x) == IF isRight(p) THEN <<addOrSub(bit(x, 2)), lower(x), self>>
                                ELSE <<addOrSub(bit(x, 2)), self, lower(x)>>
  IN IF isActionAddOrSub(At(e, pU)) /\ isActionAddOrSub(At(e, pUU))
       THEN {Put(e, pUU, IF bit(x, 4) THEN <<"chs", Nil, upper(x)>> ELSE upper(x)) : x \in {entry}}
       ELSE {}

---------------------------------------------------------------------------
\* rules of the primary loop

\* CHS1 -i, CHS9 --a
SimplifySign(e, p) ==
  LET s == At(e, p)
      r == R(s)
  IN    When(isImmidiate(r), Put(e, p, imm(0 - r[2])))
     ?? When(Op(r) = "chs", Put(e, p, R(r)))

\* ADD3, ADD6, ADD1, SWA2, SUB1, ZER1, CHS3, CHS5, CHS6
SimplifyAdd(e, p) ==
  LET s == At(e, p)
      l == L(s)
      r == R(s)
  IN    (IF isActionAddOrSub(l) /\ ~isActionAddOrSub(L(l))
            THEN MoveHigher(e, p \o <<2, 2>>) ELSE {})
     ?? (IF isImmidiate(l) /\ isActionAddOrSub(r) /\ ~isImmidiate(L(r))
            THEN MoveHigher(e, p \o <<3, 2>>) ELSE {})
     ?? When(isImmidiate(l) /\ isImmidiate(r), Put(e, p, imm(l[2] + r[2])))
     ?? When(isImmidiate(l) /\ ~isActionAddOrSub(r), Put(e, p, <<"add", r, l>>))
     ?? When(isImmidiate(r) /\ r[2] < 0 /\ r[2] # 0 - 2^(Width-1),
             Put(e, p, <<"sub", l, imm(0 - r[2])>>))
     ?? When(isNum(r, 0), Put(e, p, l))
     ?? When(isImmidiate(r) /\ r[2] < 0, Put(e, p, <<"sub", l, imm(0 - r[2])>>))
     ?? When(Op(l) = "chs", Put(e, p, <<"chs", Nil, <<"sub", R(l), r>>>>))
     ?? When(Op(r) = "chs", Put(e, p, <<"sub", l, R(r)>>))

\* ADD3, SUB2, SUB3, SUB4, CMP1, SUB6, NEG1, IMM3, CHS7, CHS8
SimplifySub(e, p) ==
  LET s == At(e, p)
      l == L(s)
      r == R(s)
  IN    (IF isActionAddOrSub(l) /\ ~isActionAddOrSub(L(l))
            THEN MoveHigher(e, p \o <<2, 2>>) ELSE {})
     ?? When(isNum(l, 0), Put(e, p, <<"chs", Nil, r>>))
     ?? When(isNum(r, 0), Put(e, p, l))
     ?? When(isTerm(l) /\ l = r, Put(e, p, imm(0)))
     ?? When(isComparAction0(r),
             Put(e, p, <<"sub", <<"add", l, <<inverse(JmpIfs, Op(r)), Nil, R(r)>>>>,
                         imm(1)>>))
     ?? (IF isImmidiate(l) /\ isActionAddOrSub(r) /\ ~isImmidiate(L(r))
            THEN MoveHigher(e, p \o <<3, 2>>) ELSE {})
     ?? When(isImmidiate(r) /\ r[2] < 0, Put(e, p, <<"add", l, imm(0 - r[2])>>))
     ?? When(isImmidiate(r) /\ isImmidiate(l), Put(e, p, imm(l[2] - r[2])))
     ?? When(Op(l) = "chs", Put(e, p, <<"chs", Nil, <<"add", R(l), r>>>>))
     ?? When(Op(r) = "chs", Put(e, p, <<"add", l, R(r)>>))

\* div() of the C library: the quotient is rounded towards zero
Abs(n) == IF n < 0 THEN 0 - n ELSE n
quot(n, d) == LET q == Abs(n) \div Abs(d) IN IF (n < 0) = (d < 0) THEN q ELSE 0 - q
divides(d, n) == d # 0 /\ n % Abs(d) = 0

\* MUL1, MUL2, IMM4, MUL4, DIV1, ADD2, SUB5, IMM5, MUL7, MUL8
SimplifyMultiply(e, p) ==
  LET s == At(e, p)
      l == L(s)
      r == R(s)
      u == At(e, up(p))
  IN    When(isNum(l, 1), Put(e, p, r))
     ?? When(isNum(r, 1), Put(e, p, l))
     ?? When(isImmidiate(r) /\ isImmidiate(l), Put(e, p, imm(l[2] * r[2])))
     ?? When(isImmidiate(r) /\ Op(l) = "mul" /\ isImmidiate(R(l)),
             Put(e, p, <<"mul", L(l), imm(R(l)[2] * r[2])>>))
     ?? When(isImmidiate(r) /\ Op(l) = "div" /\ isImmidiate(R(l)) /\ divides(R(l)[2], r[2]),
             Put(e, p, <<"mul", L(l), imm(quot(r[2], R(l)[2]))>>))
     ?? When(isImmidiate(r) /\ Op(u) = "add" /\ isRight(p) /\ l = L(u),
             Put(e, up(p), <<"mul", l, imm(r[2] + 1)>>))
     ?? When(isImmidiate(r) /\ Op(u) = "sub" /\ ~isRight(p) /\ l = R(u),
             Put(e, up(p), <<"mul", l, imm(r[2] - 1)>>))
     ?? When(isImmidiate(r) /\ isActionAddOrSub(l),
             Put(e, p, <<Op(l), <<"mul", L(l), r>>, <<"mul", R(l), r>>>>))
     ?? When(Op(l) = "chs", Put(e, p, <<"chs", Nil, <<"mul", R(l), r>>>>))
     ?? When(Op(r) = "chs", Put(e, p, <<"chs", Nil, <<"mul", l, R(r)>>>>))

\* x divided by n where that is easy: one factor of a product, or one part of
\* a sum, the other part getting a division of its own
RECURSIVE DivideWith(_, _)
DivideWith(x, n) ==
  LET l == DivideWith(L(x), n)
      r == DivideWith(R(x), n)
      half(parts, part) == IF parts # {} THEN parts ELSE {<<"div", part, imm(n)>>}
  IN CASE isImmidiate(x) -> When(divides(n, x[2]), imm(quot(x[2], n)))
       [] Op(x) = "mul" -> {<<"mul", q, R(x)>> : q \in l} ?? {<<"mul", L(x), q>> : q \in r}
       [] isActionAddOrSub(x) /\ (l # {} \/ r # {}) ->
            {<<Op(x), q1, q2>> : q1 \in half(l, L(x)), q2 \in half(r, R(x))}
       [] OTHER -> {}

\* MUL5, DIV2, DIV3, DIV4, DIV5, DIV6, DIV7
SimplifyDivide(e, p) ==
  LET s == At(e, p)
      l == L(s)
      r == R(s)
  IN    When(isNum(l, 1) /\ OpUp(e, p) = "mul",
             Put(e, up(p), <<"div", At(e, sibling(p)), r>>))
     ?? When(Op(l) = "div", Put(e, p, <<"div", L(l), <<"mul", R(l), r>>>>))
     ?? When(Op(r) = "div", Put(e, p, <<"div", <<"mul", l, R(r)>>, L(r)>>))
     ?? When(isNum(r, 1), Put(e, p, l))
     ?? (IF isImmidiate(r) THEN {Put(e, p, q) : q \in DivideWith(l, r[2])} ELSE {})
     ?? When(Op(l) = "chs", Put(e, p, <<"chs", Nil, <<"div", R(l), r>>>>))
     ?? When(Op(r) = "chs", Put(e, p, <<"chs", Nil, <<"div", l, R(r)>>>>))

\* SHL1, SHL2
SimplifyShiftLeft(e, p) ==
  LET l == L(At(e, p))
      r == R(At(e, p))
  IN    When(isImmidiate(r) /\ Op(l) = "mul" /\ isImmidiate(R(l)),
             Put(e, p, <<"mul", L(l), imm(R(l)[2] * 2^r[2])>>))
     ?? When(isImmidiate(r) /\ isImmidiate(l), Put(e, p, imm(l[2] * 2^r[2])))

\* SHR2 (SHR1 is about values of twice the width)
SimplifyShiftRight(e, p) ==
  LET l == L(At(e, p))
      r == R(At(e, p))
  IN When(isImmidiate(r) /\ r[2] < Width - 1, Put(e, p, <<"div", l, imm(2^r[2])>>))

\* FindPeerTerm: where, on the branch at q, the storage x is a factor
RECURSIVE FindPeerFactor(_, _, _), FindPeerTerm(_, _, _)
FindPeerFactor(e, q, x) ==
  LET s == At(e, q)
  IN IF Op(s) = "mul"
       THEN FindPeerFactor(e, Append(q, 2), x) ?? FindPeerFactor(e, Append(q, 3), x)
       ELSE When(s = x, q)
FindPeerTerm(e, q, x) ==
  LET s == At(e, q)
  IN IF ~isActionAddOrSub(s) THEN FindPeerFactor(e, q, x)
     ELSE IF Op(L(s)) # "mul" THEN {}
     ELSE FindPeerTerm(e, Append(q, 2), x) ?? FindPeerTerm(e, Append(q, 3), x)

\* the top of the product that the node at p is a factor of
RECURSIVE product(_, _)
product(e, p) == IF OpUp(e, p) = "mul" THEN product(e, up(p)) ELSE p

\* ADD5: a*x +- a*y => a*(x +- y), with a replaced by 1 in both products;
\* ADD4, and the MoveHigher before ADD5, bring the peer to the level of a
SimplifyCommonMult(e, p) ==
  LET a == At(e, p)
      selfU == product(e, p)
      top == up(selfU)
      common(f, t, self, peer) ==
        Put(f, t, <<"mul", a, Put(Put(At(f, t), self, imm(1)), peer, imm(1))>>)
      below(q, branch) == branch \o SubSeq(q, Len(product(e, q)) + 1, Len(q))
      merge(peer, peerU) ==
        CASE up(peerU) = top -> {common(e, top, below(p, <<2>>), below(peer, <<3>>))}
          [] up(peerU) = sibling(selfU) ->
               {LET t == top \o (IF Op(At(f, top)) = "chs" THEN <<3>> ELSE <<>>)
                             \o <<peerU[Len(peerU)]>>
                IN common(f, t, below(p, <<2>>), below(peer, <<3>>))
                  : f \in MoveHigher(e, sibling(peerU))}
          [] OTHER -> MoveHigher(e, peerU)
  IN IF Op(a) = "var" /\ ~isRight(selfU) /\ isActionAddOrSub(At(e, top))
       THEN UNION {merge(q, product(e, q)) : q \in FindPeerTerm(e, sibling(selfU), a)}
       ELSE {}

PrimaryRules(e, p) ==
  CASE Op(At(e, p)) = "chs" -> SimplifySign(e, p)
    [] Op(At(e, p)) = "add" -> SimplifyAdd(e, p)
    [] Op(At(e, p)) = "sub" -> SimplifySub(e, p)
    [] Op(At(e, p)) = "mul" -> SimplifyMultiply(e, p)
    [] Op(At(e, p)) = "div" -> SimplifyDivide(e, p)
    [] Op(At(e, p)) = "shl" -> SimplifyShiftLeft(e, p)
    [] Op(At(e, p)) = "shr" -> SimplifyShiftRight(e, p)
    [] Op(At(e, p)) = "var" -> SimplifyCommonMult(e, p)
    [] OTHER -> {}

---------------------------------------------------------------------------
\* rules of the post loop

\* NEG4 -(a-b), NEG5 -(a+b), NEG7 -(a*b) and -(a/b)
SimplifySign2(e, p) ==
  LET s == At(e, p)
      r == R(s)
  IN IF Op(s) # "chs" THEN {} ELSE
        When(Op(r) = "sub", Put(e, p, <<"sub", R(r), L(r)>>))
     ?? When(Op(r) = "add", Put(e, p, <<"sub", <<"chs", Nil, L(r)>>, R(r)>>))
     ?? When(Op(r) \in {"mul", "div"}, Put(e, p, <<Op(r), <<"chs", Nil, L(r)>>, R(r)>>))

\* SWA4 jump on the sign of a => a cmp 0; ZER4 a-b cmp 0; CHS4 a+b cmp 0
SimplifyCompar(e, p) ==
  LET s == At(e, p)
      l == L(s)
      r == R(s)
      cmp == Cmps[CHOOSE i \in 1..6 : JmpIfs[i] = Op(s)]
  IN    When(isComparAction0(s), Put(e, p, <<cmp, r, imm(0)>>))
     ?? When(isComparAction(s) /\ isNum(r, 0) /\ Op(l) = "sub",
             Put(e, p, <<Op(s), L(l), R(l)>>))
     ?? When(isComparAction(s) /\ isNum(r, 0) /\ Op(l) = "add",
             Put(e, p, <<Op(s), L(l), <<"chs", Nil, R(l)>>>>))

\* mutant: LOG4 detaches one parent more than the two signs
SimplifyLogicTooHigh(e, p) ==
  LET s == At(e, p)
  IN When(p # <<>> /\ OpUp(e, p) = "lognot" /\ Op(s) = "lognot", Put(e, up(up(p)), R(s)))

\* LOG1 !(a cmp b), LOG2 !(a||b), LOG3 !(a&&b), LOG4 !!a
SimplifyLogic(e, p) ==
  LET s == At(e, p)
      not(x) == <<"lognot", Nil, x>>
  IN IF p = <<>> \/ OpUp(e, p) # "lognot" THEN {} ELSE
        When(isComparAction(s), Put(e, up(p), [s EXCEPT ![1] = inverse(Cmps, @)]))
     ?? When(Op(s) = "logor", Put(e, up(p), <<"logand", not(L(s)), not(R(s))>>))
     ?? When(Op(s) = "logand", Put(e, up(p), <<"logor", not(L(s)), not(R(s))>>))
     ?? When(Op(s) = "lognot", Put(e, up(p), R(s)))

\* LOG5 a==0 => !a, LOG6 a!=0 => a, LOG7 a ? t : 0 => a, all only as a
\* condition.  A zero on the left is flipped to the right first.
SimplifyLogic2(e, p) ==
  LET s == At(e, p)
      other == IF isNum(L(s), 0) THEN R(s) ELSE L(s)
      zero == isNum(L(s), 0) \/ isNum(R(s), 0)
  IN IF p = <<>> \/ OpUp(e, p) \notin {"top", "logand", "logor", "goto"} THEN {} ELSE
        When(Op(s) = "==" /\ zero, Put(e, p, <<"lognot", Nil, other>>))
     ?? When(Op(s) = "!=" /\ zero, Put(e, p, other))
     ?? When(Op(s) = "query" /\ OpUp(e, p) # "goto" /\ isNum(R(R(s)), 0) /\ ~isNum(L(R(s)), 0),
             Put(e, p, L(s)))

PostRules(e, p) == SimplifySign2(e, p) ?? SimplifyCompar(e, p)
                   ?? SimplifyLogic(e, p) ?? SimplifyLogic2(e, p)

---------------------------------------------------------------------------
\* rules of the secondary loop

isPowerOf2(n) == \E i \in 0..(Width-1) : n % 2^Width = 2^i
log2(n) == CHOOSE i \in 0..(Width-1) : n % 2^Width = 2^i

\* BIN1 a*2^n => a<<n, BIN2 a/2^n => a>>n
SimplifyMulDiv(e, p) ==
  LET s == At(e, p)
      r == R(s)
      shift(op) == <<op, L(s), imm(log2(r[2]))>>
  IN    When(Op(s) = "mul" /\ Op(L(s)) # "chs" /\ isImmidiate(r) /\ isPowerOf2(r[2]),
             Put(e, p, shift("shl")))
     ?? When(Op(s) = "div" /\ isImmidiate(r) /\ isPowerOf2(r[2]), Put(e, p, shift("shr")))

\* NEG3 -a == 0 => a == 0
SimplifyEqu(e, p) ==
  LET s == At(e, p)
  IN When(Op(s) \in {"==", "!="} /\ Op(L(s)) = "chs" /\ isNum(R(s), 0),
          Put(e, p, <<Op(s), R(L(s)), R(s)>>))

\* mutant: the rule SHR2 of the primary loop in the secondary loop as well
SecondaryRulesShift(e, p) ==
  SimplifyMulDiv(e, p) ?? SimplifyEqu(e, p)
  ?? (IF Op(At(e, p)) = "shr" THEN SimplifyShiftRight(e, p) ELSE {})

SecondaryRules(e, p) == SimplifyMulDiv(e, p) ?? SimplifyEqu(e, p)

---------------------------------------------------------------------------
\* the loops of Simplify()

Phases == <<"primary", "post", "primary again", "secondary", "done">>

\* mutant: the primary loop is not run again after the post loop
RulesOnce(e, p) == CASE phase = "primary" -> PrimaryRules(e, p)
                     [] phase = "post" -> PostRules(e, p)
                     [] phase = "secondary" -> SecondaryRules(e, p)
                     [] OTHER -> {}

Rules(e, p) == CASE phase = "post" -> PostRules(e, p)
                 [] phase = "secondary" -> SecondaryRules(e, p)
                 [] OTHER -> PrimaryRules(e, p)

\* DispatchSimplify: a walk meets a node before the nodes of its left branch,
\* and those before the nodes of its right branch
RECURSIVE Nodes(_)
Nodes(x) == IF x = Nil THEN {}
            ELSE IF isTerm(x) THEN {<<>>}
            ELSE {<<>>} \cup {<<2>> \o p : p \in Nodes(L(x))}
                        \cup {<<3>> \o p : p \in Nodes(R(x))}
Met(p, q) == \/ Len(p) <= Len(q) /\ p = SubSeq(q, 1, Len(p))
             \/ \E i \in DOMAIN p : /\ i <= Len(q) /\ p[i] < q[i]
                                    /\ SubSeq(p, 1, i - 1) = SubSeq(q, 1, i - 1)

Fits == {p \in Nodes(expr) : Rules(expr, p) # {}}

Init ==
  /\ input \in Inputs
  /\ expr = input
  /\ phase = "primary"

\* one turn of the loop that is running
Simplify ==
  /\ phase # "done"
  /\ \E fits \in {Fits} :
       \E p \in fits : /\ \A q \in fits : Met(p, q)
                       /\ \E x \in Rules(expr, p) : expr' = x
  /\ UNCHANGED <<input, phase>>

\* no rule fits: on to the next loop
NextLoop ==
  /\ phase # "done"
  /\ Fits = {}
  /\ phase' = Phases[1 + CHOOSE i \in 1..4 : Phases[i] = phase]
  /\ UNCHANGED <<input, expr>>

Next == Simplify \/ NextLoop

Spec == Init /\ [][Next]_vars /\ WF_vars(Next)

---------------------------------------------------------------------------
\* what an expression means

truth(c) == IF c THEN 1 ELSE 0

holds(op, m, n) ==
  CASE op \in {"<", "ifL"} -> m < n
    [] op \in {">=", "ifGE"} -> m >= n
    [] op \in {"==", "ifE"} -> m = n
    [] op \in {"!=", "ifNE"} -> m # n
    [] op \in {"<=", "ifLE"} -> m <= n
    [] op \in {">", "ifG"} -> m > n

\* its value over the integers, for values v of the storages: what an
\* assignment assigns, and whether any other expression is true
RECURSIVE Value(_, _)
Value(x, v) ==
  LET l == Value(L(x), v)
      r == Value(R(x), v)
  IN CASE Op(x) = "imm" -> x[2]
       [] Op(x) = "var" -> v[x[2]]
       [] Op(x) = "chs" -> 0 - r
       [] Op(x) = "add" -> l + r
       [] Op(x) = "sub" -> l - r
       [] Op(x) = "mul" -> l * r
       [] Op(x) = "div" -> IF r = 0 THEN 0 ELSE quot(l, r)
       [] Op(x) = "shl" -> l * 2^r
       [] Op(x) = "shr" -> l \div 2^r
       [] Op(x) = "lognot" -> truth(r = 0)
       [] Op(x) = "logand" -> truth(l # 0 /\ r # 0)
       [] Op(x) = "logor" -> truth(l # 0 \/ r # 0)
       [] Op(x) = "query" -> IF l # 0 THEN Value(L(R(x)), v) ELSE Value(R(R(x)), v)
       [] Op(x) = "mov" -> r
       [] Op(x) \in {"top", "goto"} -> IF Op(L(x)) = "mov" THEN l ELSE truth(l # 0)
       [] isComparAction0(x) -> truth(holds(Op(x), r, 0))
       [] OTHER -> truth(holds(Op(x), l, r))

RECURSIVE IsExact(_, _), Within(_)

\* every division of x leaves no remainder
IsExact(x, v) ==
  \/ Op(x) = "nil" \/ isTerm(x)
  \/ /\ IsExact(L(x), v) /\ IsExact(R(x), v)
     /\ Op(x) = "div" => divides(Value(R(x), v), Value(L(x), v))
     /\ Op(x) = "shr" => divides(2^Value(R(x), v), Value(L(x), v))

\* the nodes of x
Within(x) == IF Op(x) = "nil" THEN {}
             ELSE IF isTerm(x) THEN {x}
             ELSE {x} \cup Within(L(x)) \cup Within(R(x))

---------------------------------------------------------------------------

TypeOK ==
  /\ Op(expr) = "top"
  /\ phase \in {Phases[i] : i \in 1..5}

\* However the rules follow each other, the expression keeps its meaning: the
\* same value modulo 2^Width, or as a condition the same outcome, as the
\* expression that was handed over.  The division rules treat / as an exact
\* division (a sum is divided part by part as soon as one part can be), so a
\* valuation counts where no division leaves a remainder.
Sound ==
  \A v \in Valuations :
    IsExact(input, v) /\ IsExact(expr, v) =>
      (Value(expr, v) - Value(input, v)) % 2^Width = 0

\* What one loop has put in order, the rules of the later loops do not leave in
\* disorder: in the end a sum has no sum on its left ("children adds/subs must
\* be found only on right side of expression"), signs are not doubled, no jump
\* condition is left, no comparison of a difference with 0, and no negation of
\* a comparison, a conjunction, a disjunction or a negation.
Normal ==
  phase = "done" =>
    \A x \in Within(expr) :
      /\ ~isComparAction0(x)
      /\ isActionAddOrSub(x) => ~isActionAddOrSub(L(x))
      /\ Op(x) = "chs" => Op(R(x)) \notin {"chs", "imm"}
      /\ Op(x) = "lognot" => /\ Op(R(x)) \notin {"lognot", "logand", "logor"}
                             /\ ~isComparAction(R(x))
      /\ isComparAction(x) /\ isNum(R(x), 0) => ~isActionAddOrSub(L(x))

\* No two rules undo each other for ever: every loop comes to an end.  The loops
\* have no bound of their own (imax is -1).
Terminates == <>(phase = "done")
=============================================================================
