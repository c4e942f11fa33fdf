---------------------------- MODULE MCExprSimpl ----------------------------
(* ExprSimpl over small families of expressions.                           *)
EXTENDS ExprSimpl

a == <<"var", "a">>
b == <<"var", "b">>
Minus(X) == {<<"chs", Nil, x>> : x \in X}
Not(X) == {<<"lognot", Nil, x>> : x \in X}
Pairs(ops, X, Y) == {<<op, x, y>> : op \in ops, x \in X, y \in Y}
Jumps(ops, X) == {<<op, Nil, x>> : op \in ops, x \in X}

\* the values of an assignment, the conditions of an if and of a goto
Assigned(X) == {<<"top", <<"mov", <<"var", "x">>, x>>, Nil>> : x \in X}
Asked(X) == {<<"top", x, Nil>> : x \in X}
Jumped(X) == {<<"top", <<"goto", x, Nil>>, Nil>> : x \in X}

Sums == {"add", "sub"}
Products == {"add", "sub", "mul"}

\* two levels of sums, products and signs
Small == {b, imm(-1)} \cup Minus({a, b})
         \cup Pairs(Products, {a, imm(2)}, {b, imm(3)})
Arithmetic == Pairs(Products, Small, Small) \cup Minus(Pairs(Products, Small, {a, b}))

\* sums of three and four terms, with common factors
Terms == {a, b, imm(4), <<"mul", a, imm(2)>>, <<"mul", b, a>>}
LongSums == Pairs(Sums, Terms \ {b}, Pairs(Sums, Terms, Pairs(Sums, {a, imm(-5), <<"mul", b, a>>}, {b})))

\* quotients, shifts, and products of quotients
Quotients == Pairs({"div"}, Terms \cup {imm(1)} \cup Minus({a}) \cup Pairs(Sums, Terms, {a, imm(8)}), {b, imm(1), imm(4)})
             \cup Minus(Pairs({"div"}, {a}, {b}))
Divisions == Quotients
             \cup Pairs({"div", "mul"}, Quotients, {a, imm(1), imm(4)} \cup Minus({b}))
             \cup Pairs({"div", "mul"}, {b, imm(1)}, Quotients)
             \cup Pairs({"shl", "shr"}, Terms \cup Quotients, {imm(1), imm(2), imm(7)})

\* numbers that wrap
Wrapping == Pairs(Sums, Pairs(Products, {a, imm(100)}, {imm(90), imm(-99)}),
                  {b, imm(77)})

\* comparisons as the jump conditions give them, alone, negated and combined
Compared == Jumps({"ifL", "ifGE", "ifE", "ifNE", "ifLE", "ifG"},
                  {a} \cup Minus({a}) \cup Pairs(Sums, {a, <<"mul", b, imm(2)>>}, {b, imm(3)}))
Flags == Jumps({"ifE", "ifG"}, {a, b})
Pick == Pairs({"query"}, Flags, Pairs({"else"}, {imm(1)}, {imm(0)}))
Conditions == Compared \cup Not(Compared) \cup Not(Not(Compared))
              \cup Pick \cup Pairs({"!=", "=="}, Flags \cup Compared, {imm(0)})
Combined == LET Half == Flags \cup Not(Flags) \cup Pick
                Whole == Pairs({"logand", "logor"}, Half, Half)
            IN Whole \cup Not(Whole)
BorrowedFlags == Pairs({"sub"}, {a, imm(0), imm(2)}, Compared \cup Flags)

MCInputs == Assigned(Arithmetic \cup LongSums \cup Divisions \cup Wrapping \cup BorrowedFlags)
            \cup Asked(Conditions \cup Combined) \cup Jumped(Conditions)

MCValuations == { [a |-> 0, b |-> 5], [a |-> -4, b |-> 3], [a |-> 12, b |-> 4],
                  [a |-> 1, b |-> 3] }

\* adding the least number of Width bits
MCLeast == Assigned({<<"add", a, imm(0 - 2^(Width-1))>>})
=============================================================================
