---------------------------- MODULE Levels_proofs ----------------------------
(***************************************************************************)
(* The levels of the stack in a generated body agree, whichever way an     *)
(* operation is reached.                                                   *)
(*                                                                         *)
(* While the body is generated this cannot be said of the body alone: a    *)
(* jump may refer to a path that is still empty, by way of jumps that were *)
(* there before. What holds is that the levels follow: give every address  *)
(* a level, such that what is generated has its own and what waits has the *)
(* one its task will bring, then they agree along every goto and from      *)
(* every instruction to the next.                                          *)
(*                                                                         *)
(* And control goes in the body where it goes in the code, though gotos    *)
(* are turned to where the jump they lead to leads, and exchanged: each    *)
(* goto by itself leads to the same place as the jump it belongs to, by    *)
(* smaller numbers.                                                        *)
(***************************************************************************)
EXTENDS Decompiler_proofs

(* No jump moves the stack.                                                *)
JumpsAreLevel == \A p \in Programs : \A a \in Addr : p[a].kind \in Jumps => p[a].by = 0

Turns == {"jmp", "jif", "ret"}

Falls(a) == code[a].kind \notin {"jmp", "ret"}

(* The address the level left by the last operation is for.                *)
Upon(t, x) == IF x # 0 THEN x ELSE IF Rolls(t) THEN Head(t).at ELSE 0

(* The level an instruction finds, and the one it leaves.                  *)
In(b, a) == b.sin[<<a, 1>>]
Past(b, a) == Level(b, Last(Parts(a)))

-----------------------------------------------------------------------------
(* The shape of a body being generated, F the instructions in it.          *)

(* Behind a jump no path goes on.                                          *)
Stops(b, F) == \A a \in F : code[a].kind \in Turns => a + 1 = Out \/ b.map[a + 1] # None

RefersOnly(b, F) == \A a \in Addr \ F : b.ref[a] = None

GoesOn(F, y) == \A a \in F : Falls(a) /\ a + 1 \in Addr => a + 1 \in F \cup {y}

CallsKnown(b, F) ==
    \A a \in F : code[a].kind = "call" =>
        stub # None /\ b.sin[<<a, 2>>] = Level(b, <<a, 1>>)

Follows(b, F, y) == y # 0 /\ b.last # NoOp => \E c \in F : b.last = Last(Parts(c))

(* A task comes from a jump, is the rest of a call, or is the first.       *)
TasksAre(b, F, t, x) ==
    \A i \in 1 .. Len(t) :
        IF t[i].ref # 0 THEN t[i].roll = 0 /\ t[i].ref \in F /\ code[t[i].ref].kind \in Jumps
        ELSE t[i].roll = 0 => Len(t) = 1 /\ x = 0 /\ b.last = NoOp

Shaped(b, F, t, x) ==
    /\ Stops(b, F)
    /\ RefersOnly(b, F)
    /\ Paths(b) \subseteq Leading(F)
    /\ GoesOn(F, Upon(t, x))
    /\ CallsKnown(b, F)
    /\ Follows(b, F, Upon(t, x))
    /\ TasksAre(b, F, t, x)

(* The levels v agree with the body, and with what the tasks will bring.   *)
Agrees(b, F, v) == \A a \in F : v[a] = In(b, a)

Brought(b, t, x, v) ==
    /\ \A i \in 1 .. Len(t) : t[i].ref # 0 => v[t[i].at] = In(b, t[i].ref)
    /\ Upon(t, x) # 0 /\ b.last # NoOp => v[Upon(t, x)] = Level(b, b.last)

(* They agree along the gotos, and from one instruction to the next.       *)
JumpsMeet(b, F, v) ==
    \A a \in F : code[a].kind \in Jumps /\ b.ref[a] \in Addr => v[b.ref[a]] = In(b, a)
FallsMeet(b, F, v) ==
    \A a \in F : Falls(a) /\ a + 1 \in Addr => v[a + 1] = Past(b, a)

Levelled(b, F, t, x) ==
    \A v \in [Addr -> Int] :
        Agrees(b, F, v) /\ Brought(b, t, x, v) => JumpsMeet(b, F, v) /\ FallsMeet(b, F, v)

-----------------------------------------------------------------------------
(* What the operators on a body do to the levels and to the map.           *)

MapGrows(b, c) == \A k \in Addr \cup {Out} : b.map[k] # None => c.map[k] # None

(* A path may have been registered at an address.                          *)
Opens(b, c, a) == SameRest(b, c) /\ Paths(c) \subseteq Paths(b) \cup {a} /\ MapGrows(b, c)

LEMMA AssureOpens ==
  ASSUME NEW b \in Body, Tiled(b), Mapped(b), NEW a \in Addr, NEW now \in Addr,
         CurEnds(b, now + 1)
  PROVE  Opens(b, AssurePathBeginsAt(b, a, now), a)
  <1> DEFINE c == AssurePathBeginsAt(b, a, now)
  <1>1. Registers(b, a, c) BY AssureKeeps
  <1>2. \A k \in Addr \cup {Out} : b.map[k] # None => c.map[k] # None BY AssureMap
  <1> HIDE DEF c
  <1> QED BY <1>1, <1>2 DEF Registers, Opens, MapGrows, c

LEMMA RegisteredOpens ==
  ASSUME body \in Body, Tiled(body), Mapped(body), at \in Addr
  PROVE  Opens(body, Registered, at)
  <1>1. CASE body.cur = None
    <2>1. Registered = AssurePathBeginsAt(body, at, at) BY <1>1 DEF Registered
    <2>2. CurEnds(body, at + 1) BY <1>1 DEF CurEnds
    <2> QED BY <2>1, <2>2, AssureOpens
  <1>2. CASE body.cur # None
    <2>1. Registered = body BY <1>2 DEF Registered
    <2> QED BY <2>1 DEF Opens, SameRest, MapGrows
  <1> QED BY <1>1, <1>2

LEMMA EnteredOpens ==
  ASSUME body \in Body, Tiled(body), Mapped(body), at \in Addr, CurEnds(body, at)
  PROVE  Opens(body, Entered, at)
  <1> DEFINE r == Registered
             c == [r EXCEPT !.cur = r.map[at], !.done = r.done \cup {r.map[at]}]
  <1>1. Opens(body, r, at) BY RegisteredOpens
  <1>2. r \in Body BY RegisteredIs
  <1>3. Entered = IF NewPath(r) THEN c ELSE r
    <2>1. r.done = r.done OBVIOUS
    <2> QED BY <1>2 DEF Entered, Body
  <1> HIDE DEF r
  <1>4. /\ c.tree = r.tree /\ c.map = r.map
        /\ c.root = r.root /\ c.ref = r.ref /\ c.flip = r.flip /\ c.sin = r.sin
        /\ c.last = r.last /\ c.broken = r.broken
    BY <1>2 DEF Body
  <1> HIDE DEF c
  <1>5. Opens(body, c, at) BY <1>1, <1>4 DEF Opens, SameRest, MapGrows, Paths
  <1> QED BY <1>1, <1>3, <1>5

LEMMA PutSets ==
  ASSUME NEW b \in Body, NEW o
  PROVE  LET c == Put(b, o)
         IN  /\ c.sin = [b.sin EXCEPT ![o] = IF b.last = NoOp THEN 0 ELSE Level(b, b.last)]
             /\ c.last = o
             /\ c.tree = b.tree /\ c.map = b.map /\ c.ref = b.ref /\ c.flip = b.flip
  BY DEF Put, Body

(* The instruction at hand finds the level the last operation left, and    *)
(* the parts of a call follow one another.                                 *)
Arrives(b, c, a) ==
    /\ \A o \in Op : o[1] # a => c.sin[o] = b.sin[o]
    /\ In(c, a) = IF b.last = NoOp THEN 0 ELSE Level(b, b.last)

LEMMA GenerateArrives ==
  ASSUME Typed, at \in Addr, Builds(body, tasks, at), ~IsProcessed
  PROVE  LET c == Generate
         IN  /\ Arrives(body, c, at)
             /\ code[at].kind = "call" => c.sin[<<at, 2>>] = Level(c, <<at, 1>>)
             /\ c.last = Last(Parts(at))
             /\ c.ref = body.ref /\ c.flip = body.flip
             /\ MapGrows(body, c) /\ Paths(c) \subseteq Paths(body) \cup {at}
  <1> DEFINE e == Entered
             o == <<at, 1>>
             r == <<at, 2>>
             p == Put(e, o)
             q == Put(p, r)
             c == IF code[at].kind = "call" THEN q ELSE p
  <1>1. /\ body \in Body /\ Tiled(body) /\ Mapped(body) /\ CurEnds(body, at)
        /\ Takes(body, e, at)
    BY EnteredAt
  <1>2. Opens(body, e, at) BY <1>1, EnteredOpens
  <1>3. e \in Body /\ e.cur \in Addr BY <1>1 DEF Takes
  <1>4. Generate = c BY DEF Generate
  <1>5. o \in Op /\ r \in Op BY PartsAreOps
  <1>6. o # NoOp BY <1>5, NoOpIsNone
  <1>7. o # r /\ o[1] = at /\ r[1] = at OBVIOUS
  <1>8. code \in Programs /\ stub \in Cleanups \cup {None} BY DEF Typed
  <1>9. Last(Parts(at)) = IF code[at].kind = "call" THEN r ELSE o BY LastPart
  <1> HIDE DEF e
  <1>10. \A w : Level(e, w) = Level(body, w) BY <1>2 DEF Opens, SameRest, Level
  <1>11. /\ p.sin = [e.sin EXCEPT ![o] = IF e.last = NoOp THEN 0 ELSE Level(e, e.last)]
         /\ p.last = o /\ p.tree = e.tree /\ p.map = e.map /\ p.ref = e.ref /\ p.flip = e.flip
    BY <1>3, PutSets
  <1>12. p \in Body
    <2> HIDE DEF p, o
    <2> QED BY <1>3, <1>5, <1>8, PutIs DEF p
  <1> HIDE DEF p
  <1>13. /\ q.sin = [p.sin EXCEPT ![r] = Level(p, o)]
         /\ q.last = r /\ q.tree = p.tree /\ q.map = p.map /\ q.ref = p.ref /\ q.flip = p.flip
    <2>1. p.last = o /\ p.last # NoOp BY <1>6, <1>11
    <2> HIDE DEF o, r
    <2>2. q.sin = [p.sin EXCEPT ![r] = IF p.last = NoOp THEN 0 ELSE Level(p, p.last)]
      BY <1>12, PutSets
    <2>3. q.last = r /\ q.tree = p.tree /\ q.map = p.map /\ q.ref = p.ref /\ q.flip = p.flip
      BY <1>12, PutSets
    <2> QED BY <2>1, <2>2, <2>3
  <1>14. e.sin \in [Op -> Int] /\ p.sin \in [Op -> Int] BY <1>3, <1>12 DEF Body
  <1>15. Level(q, o) = Level(p, o) /\ q.sin[r] = Level(p, o)
    BY <1>5, <1>7, <1>13, <1>14 DEF Level
  <1> HIDE DEF q
  <1>16. /\ p.sin[o] = IF body.last = NoOp THEN 0 ELSE Level(body, body.last)
         /\ \A w \in Op \ {o} : p.sin[w] = body.sin[w]
    BY <1>2, <1>5, <1>10, <1>11, <1>14 DEF Opens, SameRest
  <1>17. \A w \in Op \ {r} : q.sin[w] = p.sin[w] BY <1>5, <1>13, <1>14
  <1>18. Arrives(body, p, at) BY <1>7, <1>16 DEF Arrives, In
  <1>19. Arrives(body, q, at) BY <1>5, <1>7, <1>16, <1>17 DEF Arrives, In
  <1>20. /\ c.ref = body.ref /\ c.flip = body.flip
         /\ MapGrows(body, c) /\ Paths(c) \subseteq Paths(body) \cup {at}
    BY <1>2, <1>11, <1>13 DEF Opens, SameRest, MapGrows, Paths
  <1> QED BY <1>4, <1>9, <1>11, <1>13, <1>15, <1>18, <1>19, <1>20

-----------------------------------------------------------------------------
(* Where paths lie.                                                        *)

(* The instructions in the paths, whole.                                   *)
WholeIn(b) == {a \in Addr : Last(Parts(a)) \in Contents(b)}

LEMMA InWhole ==
  ASSUME NEW b \in Body, Tiled(b), NEW a \in WholeIn(b)
  PROVE  /\ a \in Addr
         /\ \E p \in Paths(b) : /\ Last(Parts(a)) \in Range(b.ops[p]) /\ b.ops[p] # <<>>
                                /\ p <= a /\ a < EndOf(b, p)
  <1>1. a \in Addr /\ Last(Parts(a)) \in Contents(b) BY DEF WholeIn
  <1>2. PICK p \in Addr : Last(Parts(a)) \in Range(b.ops[p]) BY <1>1 DEF Contents
  <1>3. b.ops[p] \in Seq(Op) /\ b.ops[p] # <<>>
    <2>1. Range(<<>>) = {} BY DEF Range
    <2> QED BY <1>2, <2>1, BodyFields
  <1>4. p \in Paths(b) /\ IsRun(p, b.ops[p]) BY <1>3 DEF Tiled
  <1>5. PICK i \in 1 .. Len(b.ops[p]) : b.ops[p][i] = Last(Parts(a))
    <2>1. \A e \in Range(b.ops[p]) : \E i \in 1 .. Len(b.ops[p]) : b.ops[p][i] = e
      BY <1>3, RangeFacts
    <2> QED BY <1>2, <2>1
  <1>6. Last(Parts(a))[1] = a BY LastPart
  <1>7. p <= a /\ a <= Last(b.ops[p])[1] /\ Last(b.ops[p])[1] \in Addr
    BY <1>3, <1>4, <1>5, <1>6, RunLiesWithin
  <1>8. a < EndOf(b, p) BY <1>1, <1>3, <1>7, Bounds DEF EndOf
  <1> QED BY <1>1, <1>2, <1>3, <1>4, <1>7, <1>8

(* The first and the last instruction of a path are in it.                 *)
LEMMA EndsInWhole ==
  ASSUME NEW b \in Body, Tiled(b), NEW p \in Addr, b.ops[p] # <<>>
  PROVE  /\ p \in Paths(b) /\ p \in WholeIn(b)
         /\ HeadOp(b, p) = <<p, 1>> /\ HeadOp(b, p) # NoOp
         /\ TailOp(b, p) = Last(b.ops[p]) /\ TailOp(b, p) # NoOp
         /\ TailOp(b, p)[1] \in WholeIn(b) /\ TailOp(b, p) = Last(Parts(TailOp(b, p)[1]))
         /\ EndOf(b, p) = TailOp(b, p)[1] + 1
  <1>1. p \in Paths(b) /\ IsRun(p, b.ops[p]) /\ b.ops[p] \in Seq(Op) BY BodyFields DEF Tiled
  <1>2. /\ Len(b.ops[p]) \in Nat \ {0} /\ b.ops[p][1] = <<p, 1>>
        /\ Last(b.ops[p]) = Last(Parts(Last(b.ops[p])[1]))
    BY <1>1, RunSteps
  <1>3. Last(b.ops[p]) \in Op /\ Last(b.ops[p])[1] \in Addr /\ Last(b.ops[p]) \in Range(b.ops[p])
    BY <1>1, LastOf, OpPair
  <1>4. p \in WholeIn(b) BY <1>1, RunIsWhole DEF WholeIn, Contents
  <1>5. Last(b.ops[p])[1] \in WholeIn(b) BY <1>2, <1>3 DEF WholeIn, Contents
  <1>6. TailOp(b, p) = Last(b.ops[p]) /\ HeadOp(b, p) = b.ops[p][1]
    BY <1>1, <1>2 DEF TailOp, HeadOp, OpsOf
  <1>7. b.ops[p][1] \in Op BY <1>2, PartsAreOps
  <1> QED BY <1>1, <1>2, <1>3, <1>4, <1>5, <1>6, <1>7, NoOpIsNone DEF EndOf

(* A jump is the last operation of its path.                               *)
LEMMA JumpEnds ==
  ASSUME NEW b \in Body, Tiled(b), Mapped(b), NEW F, Stops(b, F),
         NEW p \in Addr, NEW o \in Range(b.ops[p]), o[1] \in F, Kind(o) \in Turns
  PROVE  p \in Paths(b) /\ b.ops[p] # <<>> /\ o = Last(b.ops[p])
  <1>1. b.ops[p] \in Seq(Op) /\ b.ops[p] # <<>>
    <2>1. Range(<<>>) = {} BY DEF Range
    <2> QED BY <2>1, BodyFields
  <1>2. p \in Paths(b) /\ IsRun(p, b.ops[p]) BY <1>1 DEF Tiled
  <1>3. PICK i \in 1 .. Len(b.ops[p]) : b.ops[p][i] = o
    <2>1. \A e \in Range(b.ops[p]) : \E i \in 1 .. Len(b.ops[p]) : b.ops[p][i] = e
      BY <1>1, RangeFacts
    <2> QED BY <2>1
  <1>4. IsPart(o) /\ o \in Op BY <1>1, <1>2, <1>3, RunAscends, RunSteps
  <1> DEFINE a == o[1]
             z == Last(b.ops[p])[1]
  <1>5. a \in Addr /\ z \in Addr /\ p <= a /\ a <= z
    BY <1>1, <1>2, <1>3, <1>4, RunLiesWithin, OpPair
  <1>6. o = <<a, 1>> BY <1>4, OpPair DEF IsPart, Turns
  <1>7. code[a].kind \in Turns BY DEF Kind
  <1>8. EndOf(b, p) = z + 1 BY <1>1 DEF EndOf
  <1>9. Last(b.ops[p]) = Last(Parts(z)) BY <1>1, <1>2, RunSteps
  <1> HIDE DEF a, z
  <1>10. a = z
    <2> SUFFICES ASSUME a < z PROVE FALSE
      BY <1>5, Bounds
    <2>1. a + 1 \in Addr /\ a + 1 <= z BY <1>5, Bounds
    <2>2. b.map[a + 1] # None BY <1>7, <2>1, Bounds DEF Stops, a
    <2>3. CASE a + 1 \in Paths(b)
      <3>1. EndOf(b, p) <= a + 1 BY <1>2, <1>5, <2>1, <2>3, Bounds DEF Tiled
      <3> QED BY <1>5, <1>8, <2>1, <3>1, Bounds
    <2>4. CASE a + 1 \notin Paths(b)
      <3>1. b.map[a + 1] = Gap BY <2>1, <2>2, <2>4 DEF Mapped
      <3>2. PICK q \in Paths(b) : b.ops[q] # <<>> /\ EndOf(b, q) = a + 1 BY <2>1, <3>1 DEF Mapped
      <3>3. q \in Addr /\ q < a + 1 BY <3>2, EndOfBounds
      <3>4. CASE q < p
        <4>1. EndOf(b, q) <= p BY <1>2, <3>4 DEF Tiled
        <4> QED BY <1>5, <3>2, <4>1, Bounds
      <3>5. CASE q = p BY <1>5, <1>8, <2>1, <3>2, <3>5, Bounds
      <3>6. CASE p < q
        <4>1. EndOf(b, p) <= q BY <1>2, <3>6 DEF Tiled
        <4> QED BY <1>5, <1>8, <2>1, <3>3, <4>1, Bounds
      <3> QED BY <3>3, <3>4, <3>5, <3>6, Bounds
    <2> QED BY <2>3, <2>4
  <1>11. Last(Parts(a)) = <<a, 1>> BY <1>7, LastPart DEF Turns
  <1> QED BY <1>1, <1>2, <1>6, <1>9, <1>10, <1>11

(* The operation a task comes from is the jump it was made for.            *)
LEMMA RefOpIsJump ==
  ASSUME NEW b \in Body, Tiled(b), Mapped(b), NEW F, Stops(b, F), F \subseteq WholeIn(b),
         NEW a \in F, code[a].kind \in Jumps
  PROVE  GetRefOp(b, a) = <<a, 1>>
  <1>1. a \in WholeIn(b) /\ a \in Addr BY DEF WholeIn
  <1>2. Last(Parts(a)) = <<a, 1>> BY LastPart DEF Jumps
  <1>3. PICK p \in Paths(b) : <<a, 1>> \in Range(b.ops[p]) /\ p <= a /\ a < EndOf(b, p)
    BY <1>1, <1>2, InWhole
  <1>4. p \in Addr BY BodyFields
  <1>5. b.ops[p] # <<>> /\ <<a, 1>> = Last(b.ops[p])
    <2> DEFINE o == <<a, 1>>
    <2>1. o \in Range(b.ops[p]) /\ o[1] \in F /\ Kind(o) \in Turns
      BY <1>3 DEF Kind, Jumps, Turns
    <2> HIDE DEF o
    <2>2. b.ops[p] # <<>> /\ o = Last(b.ops[p]) BY <1>4, <2>1, JumpEnds
    <2> QED BY <2>2 DEF o
  <1>6. EndOf(b, p) = a + 1 BY <1>5 DEF EndOf
  <1>7. b.map[p] = p /\ p # None BY <1>3, <1>4, Bounds DEF Mapped
  <1>8. p \in 1 .. a BY <1>1, <1>3, <1>4, Bounds
  <1>9. PICK k \in 1 .. a : /\ Within(b, a) = b.map[k] /\ b.map[k] # None
                            /\ \A h \in 1 .. a : b.map[h] # None => h <= k
    BY <1>1, <1>7, <1>8, WithinIs
  <1>10. k \in Addr /\ p <= k BY <1>1, <1>7, <1>8, <1>9, Bounds
  <1>11. k = p
    <2> SUFFICES ASSUME p < k PROVE FALSE
      BY <1>4, <1>10, Bounds
    <2>1. CASE k \in Paths(b)
      <3>1. a + 1 <= k BY <1>3, <1>6, <2>1 DEF Tiled
      <3> QED BY <1>1, <1>9, <3>1, Bounds
    <2>2. CASE k \notin Paths(b)
      <3>1. b.map[k] = Gap BY <1>9, <1>10, <2>2 DEF Mapped
      <3>2. PICK q \in Paths(b) : b.ops[q] # <<>> /\ EndOf(b, q) = k BY <1>10, <3>1 DEF Mapped
      <3>3. q \in Addr /\ q < k BY <3>2, EndOfBounds
      <3>4. CASE q < p
        <4>1. k <= p BY <1>3, <3>2, <3>4 DEF Tiled
        <4> QED BY <1>4, <1>10, <4>1, Bounds
      <3>5. CASE q = p BY <1>1, <1>6, <1>9, <3>2, <3>5, Bounds
      <3>6. CASE p < q
        <4>1. a + 1 <= q BY <1>3, <1>6, <3>6 DEF Tiled
        <4> QED BY <1>1, <1>9, <3>3, <4>1, Bounds
      <3> QED BY <1>4, <3>3, <3>4, <3>5, <3>6, Bounds
    <2> QED BY <2>1, <2>2
  <1>12. Within(b, a) = p BY <1>7, <1>9, <1>11
  <1> QED BY <1>4, <1>5, <1>12, EndsInWhole DEF GetRefOp

(* The paths next to a path in the tree are the next in the code.          *)
LEMMA NextIsNext ==
  ASSUME NEW b \in Body, Ordered(b.tree), NEW p \in Paths(b), NEW q, q = NextPath(b, p)
  PROVE  /\ q \in Paths(b) => p < q
         /\ q \in Paths(b) \cup {Exit, None}
         /\ \A r \in Paths(b) : r <= p \/ (q \in Paths(b) /\ q <= r)
  <1> DEFINE s == b.tree
             k == Place(s, p)
             n == Len(s)
  <1>1. s \in Seq(Addr \cup {Exit}) /\ p \in Range(s) /\ p \in Addr BY BodyFields DEF Paths
  <1>2. k \in 1 .. n /\ s[k] = p BY <1>1, PlaceOf
  <1>3. n \in Nat /\ s # <<>> /\ Last(s) = s[n] BY <1>1, <1>2, LastOf, EmptySeq
  <1>4. \A i, j \in 1 .. n : i < j => s[i] # Exit /\ (s[j] = Exit \/ s[i] < s[j])
    BY DEF Ordered
  <1>5. \A i \in 1 .. n : s[i] \in Range(s) /\ s[i] \in Addr \cup {Exit} BY <1>1, RangeFacts
  <1>6. q = IF p = Last(s) THEN None ELSE s[k + 1] BY DEF NextPath
  <1>7. \A r \in Paths(b) : \E j \in 1 .. n : s[j] = r
    <2>1. \A e \in Range(s) : \E j \in 1 .. n : s[j] = e BY <1>1, RangeFacts
    <2> QED BY <2>1 DEF Paths
  <1>8. Paths(b) = Range(s) \ {Exit} BY DEF Paths
  <1> HIDE DEF s, k, n
  <1>9. CASE k = n
    <2>1. q = None BY <1>2, <1>3, <1>6, <1>9
    <2>2. ASSUME NEW r \in Paths(b) PROVE r <= p
      <3>1. PICK j \in 1 .. n : s[j] = r BY <1>7
      <3>2. j = k \/ j < k BY <1>2, <1>3, <1>9, <3>1
      <3> QED BY <1>1, <1>2, <1>4, <3>1, <3>2, Bounds
    <2>3. q \notin Paths(b) BY <2>1, BodyFields, Bounds
    <2> QED BY <2>1, <2>2, <2>3
  <1>10. CASE k # n
    <2>1. k + 1 \in 1 .. n /\ k < n BY <1>2, <1>3, <1>10
    <2>2. s[k] # s[n] BY <1>1, <1>2, <1>3, <1>4, <2>1, Bounds
    <2>3. q = s[k + 1] /\ q \in Range(s) BY <1>2, <1>3, <1>5, <1>6, <2>1, <2>2
    <2>4. q = Exit \/ p < q BY <1>2, <1>4, <2>1, <2>3
    <2>5. ASSUME NEW r \in Paths(b) PROVE r <= p \/ (q # Exit /\ q <= r)
      <3>1. PICK j \in 1 .. n : s[j] = r BY <1>7
      <3>2. r # Exit /\ r \in Addr BY <1>5, <1>8, <3>1
      <3>3. j <= k \/ j = k + 1 \/ k + 1 < j BY <1>2
      <3>4. CASE j <= k
        <4>1. j = k \/ j < k BY <1>2, <3>4
        <4> QED BY <1>1, <1>2, <1>4, <3>1, <3>2, <4>1, Bounds
      <3>5. CASE j = k + 1 BY <2>3, <3>1, <3>2, <3>5, Bounds
      <3>6. CASE k + 1 < j
        <4>1. q # Exit /\ q < r BY <1>4, <2>1, <2>3, <3>1, <3>2, <3>6
        <4>2. q \in Addr BY <1>5, <2>1, <2>3, <4>1
        <4> QED BY <3>2, <4>1, <4>2, Bounds
      <3> QED BY <3>3, <3>4, <3>5, <3>6
    <2> QED BY <1>8, <2>3, <2>4, <2>5
  <1> QED BY <1>9, <1>10

LEMMA PrevIsPrev ==
  ASSUME NEW b \in Body, Ordered(b.tree), NEW p \in Paths(b), NEW q, q = PrevPath(b, p), q # None
  PROVE  /\ q \in Paths(b) /\ q < p
         /\ \A r \in Paths(b) : r <= q \/ p <= r
  <1> DEFINE s == b.tree
             k == Place(s, p)
             n == Len(s)
  <1>1. s \in Seq(Addr \cup {Exit}) /\ p \in Range(s) /\ p \in Addr BY BodyFields DEF Paths
  <1>2. k \in 1 .. n /\ s[k] = p BY <1>1, PlaceOf
  <1>3. n \in Nat /\ s # <<>> /\ Head(s) = s[1] BY <1>1, <1>2, EmptySeq
  <1>4. \A i, j \in 1 .. n : i < j => s[i] # Exit /\ (s[j] = Exit \/ s[i] < s[j])
    BY DEF Ordered
  <1>5. \A i \in 1 .. n : s[i] \in Range(s) /\ s[i] \in Addr \cup {Exit} BY <1>1, RangeFacts
  <1>6. q = s[k - 1] /\ p # Head(s) BY DEF PrevPath
  <1>7. \A r \in Paths(b) : \E j \in 1 .. n : s[j] = r
    <2>1. \A e \in Range(s) : \E j \in 1 .. n : s[j] = e BY <1>1, RangeFacts
    <2> QED BY <2>1 DEF Paths
  <1>8. Paths(b) = Range(s) \ {Exit} BY DEF Paths
  <1> HIDE DEF s, k, n
  <1>9. k # 1 BY <1>2, <1>3, <1>6
  <1>10. k - 1 \in 1 .. n /\ k - 1 < k BY <1>2, <1>3, <1>9
  <1>11. q # Exit /\ q < p /\ q \in Addr /\ q \in Paths(b)
    BY <1>1, <1>2, <1>4, <1>5, <1>6, <1>8, <1>10, Bounds
  <1>12. ASSUME NEW r \in Paths(b) PROVE r <= q \/ p <= r
    <2>1. PICK j \in 1 .. n : s[j] = r BY <1>7
    <2>2. r # Exit /\ r \in Addr BY <1>5, <1>8, <2>1
    <2>3. j < k - 1 \/ j = k - 1 \/ j = k \/ k < j BY <1>2
    <2>4. j < k - 1 => r < q BY <1>4, <1>6, <1>10, <1>11, <2>1
    <2>5. k < j => p < r BY <1>2, <1>4, <2>1, <2>2
    <2> QED BY <1>1, <1>2, <1>6, <1>11, <2>1, <2>2, <2>3, <2>4, <2>5, Bounds
  <1> QED BY <1>11, <1>12

-----------------------------------------------------------------------------
(* The gotos turned: the levels agree along them all the same.             *)

(* The level does not change along a trail of jumps.                       *)
LEMMA TraceMeets ==
  ASSUME NEW b \in Body, Tiled(b), NEW F, F = WholeIn(b), NEW v \in [Addr -> Int],
         Agrees(b, F, v), JumpsMeet(b, F, v),
         NEW to \in Addr, TraceGoto(b, to) \in Addr
  PROVE  v[TraceGoto(b, to)] = v[to]
  <1> DEFINE X == {q \in Addr \cup {Exit, None} : q \in Addr => v[q] = v[to]}
  <1>1. to \in X OBVIOUS
  <1>2. ASSUME NEW q \in X, Forwards(b, q) PROVE b.ref[HeadOp(b, q)[1]] \in X
    <2>1. HeadOp(b, q) # NoOp /\ Kind(HeadOp(b, q)) = "jmp" BY <1>2 DEF Forwards
    <2>2. q \in Addr /\ b.ops[q] # <<>> BY <2>1, HeadIs
    <2>3. q \in F /\ HeadOp(b, q) = <<q, 1>> BY <2>2, EndsInWhole
    <2>4. HeadOp(b, q)[1] = q /\ code[q].kind \in Jumps BY <2>1, <2>3 DEF Kind, Jumps
    <2>5. v[q] = v[to] /\ v[q] = In(b, q) BY <2>2, <2>3 DEF Agrees
    <2>6. b.ref[q] \in Addr => v[b.ref[q]] = In(b, q) BY <2>3, <2>4 DEF JumpsMeet
    <2>7. b.ref[q] \in Addr \cup {Exit, None} BY <2>2, BodyFields
    <2> QED BY <2>4, <2>5, <2>6, <2>7
  <1> HIDE DEF X
  <1>3. TraceGoto(b, to) \in X BY <1>1, <1>2, TraceWithin
  <1> QED BY <1>3 DEF X

(* The gotos of c are those of b, or the levels agree along them as well.  *)
Meanwhile(b, c, F) ==
    /\ RefersOnly(b, F) => RefersOnly(c, F)
    /\ \A v \in [Addr -> Int] :
          Agrees(b, F, v) /\ JumpsMeet(b, F, v) /\ FallsMeet(b, F, v) => JumpsMeet(c, F, v)

LEMMA AdjustMeets ==
  ASSUME NEW b \in Body, Tiled(b), NEW F, F = WholeIn(b),
         NEW p \in Addr, b.ops[p] # <<>>,
         NEW c, c = AdjustGoto(b, p), ~c.broken
  PROVE  Meanwhile(b, c, F) /\ (IsRetOp(b, TailOp(b, p)) => c = b)
  <1> DEFINE o == TailOp(b, p)
             to == b.ref[o[1]]
             dest == TraceGoto(b, to)
             e == [b EXCEPT !.ref = [b.ref EXCEPT ![o[1]] = dest]]
  <1>1. o[1] \in F /\ F \subseteq Addr BY EndsInWhole DEF WholeIn
  <1>2. Meanwhile(b, b, F) BY DEF Meanwhile
  <1>3. CASE IsRetOp(b, o) \/ to = None \/ OpsOf(b, to) = <<>>
    <2>1. c = b BY <1>3 DEF AdjustGoto
    <2> QED BY <1>2, <2>1
  <1>4. CASE ~(IsRetOp(b, o) \/ to = None \/ OpsOf(b, to) = <<>>)
    <2>1. to \in Addr BY <1>4 DEF OpsOf
    <2>2. CASE Forwards(b, dest)
      <3>1. c = [b EXCEPT !.broken = TRUE] BY <1>4, <2>2 DEF AdjustGoto
      <3>2. c.broken BY <3>1 DEF Body
      <3> QED BY <3>2
    <2>3. CASE ~Forwards(b, dest) /\ dest = to
      <3>1. c = b BY <1>4, <2>3 DEF AdjustGoto
      <3> QED BY <1>2, <3>1
    <2>4. CASE ~Forwards(b, dest) /\ dest # to
      <3>1. c = CheckDanglingPath(e, to) BY <1>4, <2>4 DEF AdjustGoto, Body
      <3>2. to \in Range(b.tree) BY <1>1, <2>1, Bounds DEF Tiled
      <3>3. dest \in Addr \cup {Exit}
        <4>1. \A a \in Addr : b.ref[a] \in Range(b.tree) \cup {None} BY DEF Tiled
        <4>2. dest \in Range(b.tree) BY <3>2, <4>1, TraceStays
        <4> QED BY <4>2, BodyFields
      <3>4. b.ref \in [Addr -> Addr \cup {Exit, None}] BY BodyFields
      <3>5. \A v \in [Addr -> Int] :
                Agrees(b, F, v) /\ JumpsMeet(b, F, v) /\ dest \in Addr => v[dest] = v[to]
        BY <2>1, TraceMeets
      <3> HIDE DEF o, dest, to
      <3>6. /\ e.ref = [b.ref EXCEPT ![o[1]] = dest] /\ e.sin = b.sin /\ e \in Body
        <4>1. [b.ref EXCEPT ![o[1]] = dest] \in [Addr -> Addr \cup {Exit, None}] BY <3>3, <3>4
        <4> QED BY <4>1 DEF Body
      <3> HIDE DEF e
      <3>7. c = e
        <4> SUFFICES ASSUME c # e PROVE c.broken
          OBVIOUS
        <4> DEFINE prev == PrevPath(e, to)
                   ops == [e.ops EXCEPT ![prev] = IF BlockType(e, prev) = "null" THEN @ \o e.ops[to] ELSE @,
                                        ![to] = <<>>]
        <4>1. c = [e EXCEPT !.tree = Kept(e.tree, Range(e.tree) \ {to}),
                            !.ops[prev] = IF BlockType(e, prev) = "null" THEN @ \o e.ops[to] ELSE @,
                            !.ops[to] = <<>>,
                            !.cur = IF @ = to THEN prev ELSE @,
                            !.broken = TRUE]
          BY <3>1 DEF CheckDanglingPath
        <4> QED BY <3>6, <4>1 DEF Body
      <3>8. RefersOnly(b, F) => RefersOnly(e, F) BY <1>1, <3>4, <3>6 DEF RefersOnly
      <3>9. ASSUME NEW v \in [Addr -> Int], Agrees(b, F, v), JumpsMeet(b, F, v),
                   NEW a \in F, code[a].kind \in Jumps, e.ref[a] \in Addr
            PROVE  v[e.ref[a]] = In(e, a)
        <4>1. a \in Addr /\ In(e, a) = In(b, a) BY <1>1, <3>6 DEF In
        <4>2. CASE a = o[1]
          <5>1. e.ref[a] = dest /\ b.ref[a] = to BY <3>4, <3>6, <4>1, <4>2 DEF to
          <5>2. v[to] = In(b, a) BY <2>1, <3>9, <5>1 DEF JumpsMeet
          <5>3. v[dest] = v[to] BY <3>5, <3>9, <5>1
          <5> QED BY <4>1, <5>1, <5>2, <5>3
        <4>3. CASE a # o[1]
          <5>1. e.ref[a] = b.ref[a] BY <3>4, <3>6, <4>1, <4>3
          <5> QED BY <3>9, <4>1, <5>1 DEF JumpsMeet
        <4> QED BY <4>2, <4>3
      <3>10. Meanwhile(b, e, F) BY <3>8, <3>9 DEF Meanwhile, JumpsMeet
      <3> QED BY <1>4, <3>7, <3>10 DEF o, to
    <2> QED BY <2>2, <2>3, <2>4
  <1> QED BY <1>3, <1>4

(* if (A) goto L1; goto L2; L1: - the two jumps find the stack alike.      *)
LEMMA Adjust2Meets ==
  ASSUME JumpsAreLevel, code \in Programs,
         NEW b \in Body, Tiled(b), ~b.broken, NEW F, F = WholeIn(b),
         NEW p \in Addr, b.ops[p] # <<>>,
         Kind(TailOp(b, p)) \in Jumps \/ b.ref[TailOp(b, p)[1]] = Exit,
         \A a \in F : Falls(a) /\ a # TailOp(b, p)[1] /\ a + 1 \in Addr => a + 1 \in F,
         NEW c, c = AdjustGoto2(b, p), ~c.broken
  PROVE  Meanwhile(b, c, F)
  <1> DEFINE prev == PrevPath(b, p)
             self == TailOp(b, p)[1]
             jif == TailOp(b, prev)[1]
             swaps == /\ BlockType(b, p) = "jmp" /\ Len(b.ops[p]) = 1
                      /\ prev # None /\ BlockType(b, prev) = "jif"
                      /\ b.ref[jif] # None /\ b.ref[jif] = NextPath(b, p)
             d == [b EXCEPT !.ref = [b.ref EXCEPT ![jif] = b.ref[self], ![self] = b.ref[jif]],
                            !.flip = (b.flip \ {jif}) \cup ({jif} \ b.flip),
                            !.broken = b.broken \/ b.ref[self] = None]
  <1>1. CASE ~swaps
    <2>1. c = b BY <1>1 DEF AdjustGoto2
    <2> QED BY <2>1 DEF Meanwhile
  <1>2. CASE swaps
    <2>1. p \in Paths(b) /\ Ordered(b.tree) BY EndsInWhole DEF Tiled
    <2>2. prev \in Paths(b) /\ prev < p /\ \A r \in Paths(b) : r <= prev \/ p <= r
      BY <1>2, <2>1, PrevIsPrev
    <2>3. prev \in Addr /\ b.ops[prev] # <<>> /\ Kind(TailOp(b, prev)) = "jif"
      <3>1. TailOp(b, prev) # NoOp BY <1>2, JumpHasTail
      <3>2. Kind(TailOp(b, prev)) = "jif" BY <1>2, <3>1 DEF BlockType
      <3> QED BY <3>1, <3>2, TailIs
    <2>4. /\ jif \in F /\ EndOf(b, prev) = jif + 1 /\ F \subseteq Addr
          /\ code[jif].kind = "jif" /\ Last(Parts(jif)) = <<jif, 1>>
      BY <2>3, EndsInWhole, LastPart DEF Kind, WholeIn
    <2>5. self = p /\ p \in F
      <3>1. b.ops[p] \in Seq(Op) /\ Len(b.ops[p]) = 1 BY <1>2, BodyFields
      <3>2. Last(b.ops[p]) = b.ops[p][1] BY <3>1, LastOf
      <3>3. IsRun(p, b.ops[p]) BY <2>1 DEF Tiled
      <3>4. TailOp(b, p) = <<p, 1>> BY <3>1, <3>2, <3>3, EndsInWhole, RunSteps
      <3> QED BY <3>4, EndsInWhole
    <2>6. Kind(TailOp(b, p)) # "jif" BY <1>2, JumpHasTail DEF BlockType
    <2>7. jif # p /\ code[p].kind = Kind(TailOp(b, p)) BY <2>4, <2>5, <2>6 DEF Kind
    <2>8. b.ref \in [Addr -> Addr \cup {Exit, None}] /\ b.sin \in [Op -> Int] BY BodyFields DEF Body
    <2>9. c = d BY <1>2 DEF AdjustGoto2, Body
    <2>10. /\ c.ref = [b.ref EXCEPT ![jif] = b.ref[p], ![p] = b.ref[jif]] /\ c.sin = b.sin
      BY <2>5, <2>9 DEF Body
    <2>11. p = jif + 1
      <3>1. jif \in Addr /\ jif + 1 <= p BY <2>1, <2>2, <2>4 DEF Tiled
      <3>2. jif + 1 \in Addr BY <3>1, Bounds
      <3>3. jif + 1 \in F BY <2>4, <2>5, <2>7, <3>2 DEF Falls
      <3>4. PICK r \in Paths(b) : r <= jif + 1 /\ jif + 1 < EndOf(b, r) BY <3>3, InWhole
      <3>5. r \in Addr BY <3>4, BodyFields
      <3>6. r # prev BY <2>4, <3>1, <3>4, Bounds
      <3>7. ~(r < prev)
        <4> SUFFICES ASSUME r < prev PROVE FALSE
          OBVIOUS
        <4>1. EndOf(b, r) <= prev BY <2>2, <3>4 DEF Tiled
        <4>2. prev < jif + 1 BY <2>2, <2>3, <2>4, EndOfBounds
        <4>3. EndOf(b, r) \in Int BY <3>4, EndOfBounds, Bounds
        <4> QED BY <2>3, <3>1, <3>4, <4>1, <4>2, <4>3, Bounds
      <3>8. p <= r BY <2>2, <2>3, <3>4, <3>5, <3>6, <3>7, Bounds
      <3> QED BY <3>1, <3>4, <3>5, <3>8, Bounds
    <2> HIDE DEF jif, self, prev, swaps, d
    <2>12. code[p].kind \in Jumps \/ b.ref[p] = Exit BY <2>5, <2>7 DEF self
    <2>13. RefersOnly(b, F) => RefersOnly(c, F) BY <2>4, <2>5, <2>8, <2>10 DEF RefersOnly
    <2>14. ASSUME NEW v \in [Addr -> Int], Agrees(b, F, v), JumpsMeet(b, F, v), FallsMeet(b, F, v),
                  NEW a \in F, code[a].kind \in Jumps, c.ref[a] \in Addr
           PROVE  v[c.ref[a]] = In(c, a)
      <3>1. In(c, a) = In(b, a) /\ a \in Addr BY <2>4, <2>10 DEF In
      <3>2. In(b, p) = In(b, jif)
        <4>1. v[p] = In(b, p) BY <2>5, <2>14 DEF Agrees
        <4>2. v[jif + 1] = Past(b, jif) BY <2>4, <2>11, <2>14 DEF FallsMeet, Falls
        <4>3. code[jif].by = 0
          <5>1. jif \in Addr BY <2>4
          <5> QED BY <2>4, <5>1 DEF JumpsAreLevel, Jumps
        <4>4. <<jif, 1>> \in Op /\ In(b, jif) \in Int BY <2>4, <2>8, PartsAreOps DEF In
        <4>5. Past(b, jif) = In(b, jif) + 0
          <5> DEFINE o == <<jif, 1>>
          <5>1. o[1] = jif /\ o[2] = 1 OBVIOUS
          <5>2. Past(b, jif) = StackOut(o, b.sin[o]) BY <2>4 DEF Past, Level
          <5> HIDE DEF o
          <5>3. StackOut(o, b.sin[o]) = b.sin[o] + 0
            BY <2>4, <4>3, <5>1 DEF StackOut, Kind, IsCall
          <5> QED BY <5>2, <5>3 DEF o, In
        <4> QED BY <2>11, <4>1, <4>2, <4>4, <4>5
      <3>3. CASE a = jif
        <4>1. c.ref[a] = b.ref[p] BY <2>7, <2>8, <2>10, <3>1, <3>3
        <4>2. code[p].kind \in Jumps BY <2>12, <2>14, <4>1, Bounds
        <4>3. v[b.ref[p]] = In(b, p) BY <2>5, <2>14, <4>1, <4>2 DEF JumpsMeet
        <4> QED BY <3>1, <3>2, <3>3, <4>1, <4>3
      <3>4. CASE a = p
        <4>1. c.ref[a] = b.ref[jif] BY <2>7, <2>8, <2>10, <3>1, <3>4
        <4>2. v[b.ref[jif]] = In(b, jif) BY <2>4, <2>14, <4>1 DEF JumpsMeet, Jumps
        <4> QED BY <3>1, <3>2, <3>4, <4>1, <4>2
      <3>5. CASE a # jif /\ a # p
        <4>1. c.ref[a] = b.ref[a] BY <2>8, <2>10, <3>1, <3>5
        <4> QED BY <2>14, <3>1, <4>1 DEF JumpsMeet
      <3> QED BY <3>3, <3>4, <3>5
    <2> QED BY <2>13, <2>14 DEF Meanwhile, JumpsMeet
  <1> QED BY <1>1, <1>2

(* A path is finished: its goto turned, a conditional jump before it too.  *)
LEMMA FinalizeMeets ==
  ASSUME JumpsAreLevel, code \in Programs,
         NEW b \in Body, Tiled(b), Mapped(b), ~b.broken, NEW a \in Addr,
         b.cur # None, b.ops[b.cur] # <<>>, EndOf(b, b.cur) = a + 1,
         code[a].kind \in Jumps \/ (code[a].kind = "ret" /\ b.ref[a] = Exit),
         NEW F, F = WholeIn(b),
         \A y \in F : Falls(y) /\ y # a /\ y + 1 \in Addr => y + 1 \in F,
         NEW c, c = FinalizePath(b, a), ~c.broken
  PROVE  /\ Meanwhile(b, c, F)
         /\ MapGrows(b, c) /\ c.map[a + 1] # None
         /\ c.tree = b.tree
  <1> DEFINE p == b.cur
             e == AdjustGoto(b, p)
             d == AdjustGoto2(e, e.cur)
             m == [d.map EXCEPT ![a + 1] = IF d.map[a + 1] = None THEN Gap ELSE d.map[a + 1]]
  <1>1. p \in Addr BY BodyFields DEF Mapped
  <1>2. /\ TailOp(b, p) # NoOp /\ TailOp(b, p)[1] = a /\ Kind(TailOp(b, p)) = code[a].kind
    <2> HIDE DEF p
    <2>1. TailOp(b, p) # NoOp /\ EndOf(b, p) = TailOp(b, p)[1] + 1
      BY <1>1, EndsInWhole DEF p
    <2>2. TailOp(b, p)[1] \in Addr BY <2>1, TailIs
    <2> QED BY <2>1, <2>2, Bounds DEF p, Kind
  <1>3. Redirects(b, e) BY <1>2, AdjustKeeps
  <1>4. e \in Body /\ (~e.broken => \A x \in Addr : e.ref[x] \in Range(e.tree) \cup {None})
    BY <1>3 DEF Redirects
  <1>5. Redirects(e, d)
    <2> HIDE DEF e
    <2> QED BY <1>4, Adjust2Keeps
  <1>6. d \in Body BY <1>5 DEF Redirects
  <1>7. c = [d EXCEPT !.map = m, !.cur = None]
    <2> HIDE DEF d
    <2>1. c = [d EXCEPT !.map[a + 1] = IF @ = None THEN Gap ELSE @, !.cur = None]
      BY DEF FinalizePath, d
    <2> QED BY <1>6, <2>1 DEF Body
  <1> HIDE DEF d
  <1>8. c.map = m /\ c.ref = d.ref /\ c.sin = d.sin /\ c.broken = d.broken /\ c.tree = d.tree
    BY <1>6, <1>7 DEF Body
  <1>9. /\ ~e.broken /\ e.tree = b.tree /\ e.ops = b.ops /\ e.map = b.map /\ e.cur = p
        /\ ~d.broken /\ d.map = b.map /\ d.tree = b.tree
        /\ \A x \in Addr : e.ref[x] \in Range(e.tree) \cup {None}
    BY <1>3, <1>5, <1>8 DEF Redirects
  <1>10. Meanwhile(b, e, F) /\ (IsRetOp(b, TailOp(b, p)) => e = b) BY <1>1, <1>9, AdjustMeets
  <1>11. /\ Tiled(e) /\ WholeIn(e) = F /\ TailOp(e, p) = TailOp(b, p)
    <2> HIDE DEF e
    <2>1. Paths(e) = Paths(b) /\ \A q : EndOf(e, q) = EndOf(b, q) BY <1>9 DEF Paths, EndOf
    <2>2. Tiled(e) BY <1>9, <2>1 DEF Tiled
    <2>3. Contents(e) = Contents(b) BY <1>9 DEF Contents
    <2> QED BY <1>9, <2>2, <2>3 DEF WholeIn, TailOp, OpsOf
  <1>12. Kind(TailOp(e, p)) \in Jumps \/ e.ref[TailOp(e, p)[1]] = Exit
    <2>1. CASE code[a].kind \in Jumps BY <1>2, <1>11, <2>1
    <2>2. CASE code[a].kind = "ret" /\ b.ref[a] = Exit
      <3>1. IsRetOp(b, TailOp(b, p)) BY <1>2, <2>2 DEF IsRetOp
      <3> QED BY <1>2, <1>10, <1>11, <2>2, <3>1
    <2> QED BY <2>1, <2>2
  <1> HIDE DEF e, p
  <1>13. Meanwhile(e, d, F)
    <2>1. p \in Addr /\ e.ops[p] # <<>> /\ d = AdjustGoto2(e, p) BY <1>1, <1>9 DEF d, p
    <2>2. \A y \in F : Falls(y) /\ y # TailOp(e, p)[1] /\ y + 1 \in Addr => y + 1 \in F
      BY <1>2, <1>11
    <2> QED BY <1>4, <1>9, <1>11, <1>12, <2>1, <2>2, Adjust2Meets
  <1>14. b.sin = e.sin
    BY <1>3 DEF Redirects
  <1>15. Meanwhile(b, c, F)
    <2>1. \A v \in [Addr -> Int] : Agrees(b, F, v) /\ FallsMeet(b, F, v) =>
              Agrees(e, F, v) /\ FallsMeet(e, F, v)
      BY <1>14 DEF Agrees, FallsMeet, In, Past, Level
    <2>2. \A v \in [Addr -> Int] : JumpsMeet(d, F, v) => JumpsMeet(c, F, v)
      BY <1>8 DEF JumpsMeet, In
    <2>3. RefersOnly(d, F) => RefersOnly(c, F) BY <1>8 DEF RefersOnly
    <2> QED BY <1>10, <1>13, <2>1, <2>2, <2>3 DEF Meanwhile
  <1>16. a + 1 \in Addr \cup {Out} BY Bounds
  <1>17. /\ c.map[a + 1] # None
         /\ \A k \in Addr \cup {Out} : b.map[k] # None => c.map[k] # None
    <2>1. d.map \in [Addr \cup {Out} -> Addr \cup {Gap, None}] BY <1>6, BodyFields
    <2>2. Gap # None BY DEF Gap, None
    <2> HIDE DEF m
    <2>3. /\ m[a + 1] = IF d.map[a + 1] = None THEN Gap ELSE d.map[a + 1]
          /\ \A k \in (Addr \cup {Out}) \ {a + 1} : m[k] = d.map[k]
      BY <1>16, <2>1 DEF m
    <2> QED BY <1>8, <1>9, <2>2, <2>3
  <1> QED BY <1>8, <1>9, <1>15, <1>17 DEF MapGrows

-----------------------------------------------------------------------------
(* The steps of the generation.                                            *)

(* While an instruction is at hand, all that waits are jumps.              *)
LEMMA AllRefer ==
  ASSUME Typed, at \in Addr, Builds(body, tasks, at), NEW F, Shaped(body, F, tasks, at)
  PROVE  /\ \A i \in 1 .. Len(tasks) : /\ tasks[i].roll = 0 /\ tasks[i].ref # 0
                                       /\ tasks[i].ref \in F /\ code[tasks[i].ref].kind \in Jumps
         /\ Upon(tasks, at) = at /\ at # 0
  <1>1. NoRoll(tasks) BY EnteredAt
  <1>2. at # 0 BY Bounds
  <1> QED BY <1>1, <1>2 DEF NoRoll, Shaped, TasksAre, Upon

LEMMA TasksRefer ==
  ASSUME NEW b, NEW F, NEW t, NEW x,
         \A i \in 1 .. Len(t) : /\ t[i].roll = 0 /\ t[i].ref # 0
                                /\ t[i].ref \in F /\ code[t[i].ref].kind \in Jumps
  PROVE  TasksAre(b, F, t, x)
  BY DEF TasksAre

(* With the instruction at hand the body keeps its shape.                  *)
LEMMA ShapedMore ==
  ASSUME Typed, at \in Addr, Builds(body, tasks, at),
         NEW F, Shaped(body, F, tasks, at), at \notin F, F \subseteq Addr,
         NEW c, MapGrows(body, c), RefersOnly(c, F \cup {at}),
         \A o \in Op : o[1] # at => c.sin[o] = body.sin[o],
         code[at].kind = "call" => stub # None /\ c.sin[<<at, 2>>] = Level(c, <<at, 1>>),
         code[at].kind \in Turns => at + 1 = Out \/ c.map[at + 1] # None,
         Paths(c) \subseteq Leading(F \cup {at}),
         NEW t, NEW x, ~Rolls(t),
         Falls(at) /\ at + 1 \in Addr => x = at + 1 /\ x # 0,
         x # 0 /\ c.last # NoOp => c.last = Last(Parts(at)),
         TasksAre(c, F \cup {at}, t, x)
  PROVE  Shaped(c, F \cup {at}, t, x)
  <1> DEFINE G == F \cup {at}
  <1>1. Upon(tasks, at) = at /\ Upon(t, x) = x BY AllRefer DEF Upon
  <1>2. Stops(c, G)
    <2>1. ASSUME NEW a \in F, code[a].kind \in Turns PROVE a + 1 = Out \/ c.map[a + 1] # None
      <3>1. a \in Addr /\ a + 1 \in Addr \cup {Out} BY Bounds
      <3>2. a + 1 = Out \/ body.map[a + 1] # None BY <2>1 DEF Shaped, Stops
      <3> QED BY <3>1, <3>2 DEF MapGrows
    <2> QED BY <2>1 DEF Stops
  <1>3. GoesOn(G, Upon(t, x)) BY <1>1 DEF Shaped, GoesOn
  <1>4. CallsKnown(c, G)
    <2>1. ASSUME NEW a \in F, code[a].kind = "call"
          PROVE  stub # None /\ c.sin[<<a, 2>>] = Level(c, <<a, 1>>)
      <3> DEFINE o == <<a, 1>>
                 r == <<a, 2>>
      <3>1. a \in Addr /\ a # at BY <2>1
      <3>2. o \in Op /\ r \in Op /\ o[1] = a /\ r[1] = a BY <3>1, PartsAreOps
      <3>3. stub # None /\ body.sin[r] = Level(body, o) BY <2>1 DEF Shaped, CallsKnown
      <3> HIDE DEF o, r
      <3>4. c.sin[o] = body.sin[o] /\ c.sin[r] = body.sin[r] BY <3>1, <3>2
      <3>5. stub # None /\ c.sin[r] = Level(c, o) BY <3>3, <3>4 DEF Level
      <3> QED BY <3>5 DEF o, r
    <2> QED BY <2>1 DEF CallsKnown
  <1>5. Follows(c, G, Upon(t, x)) BY <1>1 DEF Follows
  <1> QED BY <1>2, <1>3, <1>4, <1>5 DEF Shaped

(* The levels of the other instructions stay.                              *)
LEMMA LevelsStay ==
  ASSUME NEW b, NEW c, NEW F, F \subseteq Addr, NEW z, z \notin F,
         \A o \in Op : o[1] # z => c.sin[o] = b.sin[o]
  PROVE  \A a \in F : In(c, a) = In(b, a) /\ Past(c, a) = Past(b, a)
  <1> SUFFICES ASSUME NEW a \in F PROVE In(c, a) = In(b, a) /\ Past(c, a) = Past(b, a)
    OBVIOUS
  <1> DEFINE o == <<a, 1>>
             r == Last(Parts(a))
  <1>1. a \in Addr /\ a # z OBVIOUS
  <1>2. o[1] = a /\ r[1] = a BY <1>1, LastPart
  <1>3. o \in Op /\ r \in Op BY <1>1, PartsAreOps
  <1> HIDE DEF o, r
  <1>4. c.sin[o] = b.sin[o] /\ c.sin[r] = b.sin[r] BY <1>1, <1>2, <1>3
  <1> QED BY <1>4 DEF In, Past, Level, o, r

(* The levels that agree with the body and the instruction agreed with it  *)
(* before.                                                                 *)
LEMMA MeetsMore ==
  ASSUME Typed, at \in Addr, Builds(body, tasks, at),
         NEW F, Shaped(body, F, tasks, at), Levelled(body, F, tasks, at), at \notin F, F \subseteq Addr,
         NEW b, Arrives(body, b, at), \A a \in F : b.ref[a] = body.ref[a],
         NEW v \in [Addr -> Int], Agrees(b, F \cup {at}, v),
         \A i \in 1 .. Len(tasks) : v[tasks[i].at] = In(body, tasks[i].ref),
         code[at].kind \in Jumps /\ b.ref[at] \in Addr => v[b.ref[at]] = In(b, at),
         Falls(at) /\ at + 1 \in Addr => v[at + 1] = Past(b, at)
  PROVE  JumpsMeet(b, F \cup {at}, v) /\ FallsMeet(b, F \cup {at}, v)
  <1>1. \A a \in F : In(b, a) = In(body, a) /\ Past(b, a) = Past(body, a)
    BY LevelsStay DEF Arrives
  <1>2. Agrees(body, F, v) BY <1>1 DEF Agrees
  <1>3. Brought(body, tasks, at, v)
    <2>1. Upon(tasks, at) = at /\ at # 0 BY AllRefer
    <2>2. v[at] = In(b, at) BY DEF Agrees
    <2> QED BY <2>1, <2>2 DEF Brought, Arrives
  <1>4. JumpsMeet(body, F, v) /\ FallsMeet(body, F, v) BY <1>2, <1>3 DEF Levelled
  <1> QED BY <1>1, <1>4 DEF JumpsMeet, FallsMeet

(* The instruction at hand is one the body leads to, and not in it yet.    *)
LEMMA AtLeads ==
  ASSUME Typed, at \in Addr, Builds(body, tasks, at)
  PROVE  /\ at \in Leading(Has(body, tasks)) /\ Has(body, tasks) \subseteq Addr
         /\ ~IsProcessed => at \notin Has(body, tasks)
         /\ \A G : Has(body, tasks) \subseteq G => Leading(Has(body, tasks)) \subseteq Leading(G)
  <1>1. at \in Waits(tasks, at)
    <2>1. tasks \in Seq(Task) BY EnteredAt
    <2> QED BY <2>1, WaitsFor, Bounds
  <1>2. at \in Leading(Has(body, tasks)) BY <1>1 DEF Builds, Covers
  <1>3. ASSUME ~IsProcessed PROVE at \notin Has(body, tasks)
    <2> DEFINE e == Entered
    <2>1. Takes(body, e, at) BY <1>3, EnteredAt
    <2> HIDE DEF e
    <2>2. /\ e \in Body /\ Tiled(e) /\ Mapped(e) /\ e.cur # None
          /\ EndOf(e, e.cur) = at /\ e.map[at] \notin Addr \ {e.cur} /\ Contents(e) = Contents(body)
      BY <2>1, Bounds DEF Takes
    <2>3. Last(Parts(at)) \notin Contents(e) BY <2>2, NotThereYet
    <2> QED BY <2>2, <2>3 DEF Has
  <1>4. Has(body, tasks) \subseteq Addr BY DEF Has
  <1>5. \A G : Has(body, tasks) \subseteq G => Leading(Has(body, tasks)) \subseteq Leading(G)
    BY DEF Leading
  <1> QED BY <1>2, <1>3, <1>4, <1>5

(* A step keeps the shape, and the levels unless it finds an error.        *)
Grades(b, t, x) ==
    ~b.broken =>
        /\ Shaped(b, Has(b, t), t, x)
        /\ Levelled(body, Has(body, tasks), tasks, at) /\ status' # Error =>
              Levelled(b, Has(b, t), t, x)

LEMMA StraightGrades ==
  ASSUME Typed, at \in Addr, Builds(body, tasks, at),
         Shaped(body, Has(body, tasks), tasks, at), Straight
  PROVE  Grades(body', tasks', at')
  <1> SUFFICES ASSUME ~body'.broken PROVE Grades(body', tasks', at')
    BY DEF Grades
  <1> DEFINE g == Generate
             c == body'
             x == at'
             F == Has(body, tasks)
             G == F \cup {at}
  <1>1. /\ Arrives(body, g, at)
        /\ code[at].kind = "call" => g.sin[<<at, 2>>] = Level(g, <<at, 1>>)
        /\ g.last = Last(Parts(at))
        /\ g.ref = body.ref /\ MapGrows(body, g) /\ Paths(g) \subseteq Paths(body) \cup {at}
    BY GenerateArrives DEF Straight
  <1>2. g \in Body
    <2>1. Takes(body, Entered, at) BY EnteredAt DEF Straight
    <2> QED BY <2>1, GenerateKeeps
  <1>3. Has(c, tasks') = G BY StraightStep
  <1>4. code[at].kind \in {"op", "set", "call"} /\ (code[at].kind = "call" => stub # None)
    BY DEF Straight, Fault
  <1>5. /\ at \in Leading(F) /\ F \subseteq Addr /\ at \notin F
        /\ Leading(F) \subseteq Leading(G)
    BY AtLeads DEF Straight
  <1>6. IF at < N THEN c = g /\ x = at + 1 /\ tasks' = tasks
        ELSE c = [g EXCEPT !.cur = None, !.last = NoOp] /\ x = 0 /\ tasks' = tasks
    BY DEF Straight, EndTask
  <1> HIDE DEF g
  <1>7. /\ c.sin = g.sin /\ c.ref = g.ref /\ c.map = g.map /\ c.tree = g.tree /\ tasks' = tasks
        /\ at < N => c.last = g.last /\ x = at + 1
        /\ ~(at < N) => c.last = NoOp /\ x = 0
    BY <1>2, <1>6 DEF Body
  <1> HIDE DEF c, x, F
  <1>8. \A o : Level(c, o) = Level(g, o) BY <1>7 DEF Level
  <1>9. Falls(at) /\ at + 1 \in Addr => x = at + 1 /\ x # 0
    BY <1>7, Bounds
  <1>10. \A i \in 1 .. Len(tasks) : /\ tasks[i].roll = 0 /\ tasks[i].ref # 0
                                    /\ tasks[i].ref \in F /\ code[tasks[i].ref].kind \in Jumps
    BY AllRefer DEF F
  <1>11. Shaped(c, G, tasks, x)
    <2>1. MapGrows(body, c) BY <1>1, <1>7 DEF MapGrows
    <2>2. RefersOnly(c, G) BY <1>1, <1>7 DEF RefersOnly, Shaped, F
    <2>3. \A o \in Op : o[1] # at => c.sin[o] = body.sin[o] BY <1>1, <1>7 DEF Arrives
    <2>4. code[at].kind = "call" => stub # None /\ c.sin[<<at, 2>>] = Level(c, <<at, 1>>)
      BY <1>1, <1>4, <1>7, <1>8
    <2>5. code[at].kind \notin Turns BY <1>4 DEF Turns
    <2>6. Paths(c) \subseteq Leading(G)
      <3>1. Paths(c) = Paths(g) /\ Paths(body) \subseteq Leading(F)
        BY <1>7 DEF Paths, Shaped, F
      <3> QED BY <1>1, <1>5, <3>1
    <2>7. ~Rolls(tasks)
      <3>1. tasks \in Seq(Task) /\ NoRoll(tasks) BY EnteredAt
      <3> QED BY <3>1, NoRollMore
    <2>8. x # 0 /\ c.last # NoOp => c.last = Last(Parts(at)) BY <1>1, <1>7
    <2>9. TasksAre(c, G, tasks, x) BY <1>10, TasksRefer
    <2>10. Shaped(body, F, tasks, at) BY DEF F
    <2> QED BY <1>5, <1>9, <2>1, <2>2, <2>3, <2>4, <2>5, <2>6, <2>7, <2>8, <2>9, <2>10, ShapedMore
  <1>12. ASSUME Levelled(body, F, tasks, at),
                NEW v \in [Addr -> Int], Agrees(c, G, v), Brought(c, tasks, x, v)
         PROVE  JumpsMeet(c, G, v) /\ FallsMeet(c, G, v)
    <2>1. Arrives(body, c, at) BY <1>1, <1>7 DEF Arrives, In
    <2>2. \A a \in F : c.ref[a] = body.ref[a] BY <1>1, <1>7
    <2>3. \A i \in 1 .. Len(tasks) : v[tasks[i].at] = In(body, tasks[i].ref)
      <3>1. \A a \in F : In(c, a) = In(body, a) BY <1>5, <2>1, LevelsStay DEF Arrives
      <3> QED BY <1>10, <1>12, <3>1 DEF Brought
    <2>4. code[at].kind \notin Jumps BY <1>4 DEF Jumps
    <2>5. ASSUME at + 1 \in Addr PROVE v[at + 1] = Past(c, at)
      <3>1. at < N BY <2>5, Bounds
      <3>2. x = at + 1 /\ x # 0 /\ Upon(tasks, x) = x BY <1>7, <3>1, Bounds DEF Upon
      <3>3. Last(Parts(at)) \in Op BY PartsAreOps
      <3>4. c.last = Last(Parts(at)) /\ c.last # NoOp BY <1>1, <1>7, <3>1, <3>3, NoOpIsNone
      <3> QED BY <1>12, <3>2, <3>4 DEF Brought, Past
    <2>6. Shaped(body, F, tasks, at) BY DEF F
    <2> QED BY <1>5, <1>12, <2>1, <2>2, <2>3, <2>4, <2>5, <2>6, MeetsMore
  <1>13. Levelled(body, F, tasks, at) => Levelled(c, G, tasks, x) BY <1>12 DEF Levelled
  <1> QED BY <1>3, <1>7, <1>11, <1>13 DEF Grades, F, c, x

(* Running into code generated before: the levels were compared.           *)
LEMMA RunIntoGrades ==
  ASSUME Typed, at \in Addr, Builds(body, tasks, at),
         Shaped(body, Has(body, tasks), tasks, at), RunInto
  PROVE  Grades(body', tasks', at')
  <1> DEFINE r == Registered
             F == Has(body, tasks)
             q == r.map[at]
  <1>1. /\ body \in Body /\ Tiled(body) /\ Mapped(body) /\ CurEnds(body, at)
        /\ tasks \in Seq(Task) /\ NoRoll(tasks)
    BY EnteredAt
  <1>2. r \in Body /\ Tiled(r) /\ Mapped(r) BY <1>1, RegisteredIs
  <1>3. Opens(body, r, at) BY <1>1, RegisteredOpens
  <1>4. /\ body' = r /\ tasks' = tasks /\ at' = 0
        /\ status' # Error => r.sin[HeadOp(r, q)] = Level(body, body.last)
        /\ q \in Addr /\ OpsOf(r, q) # <<>>
    BY DEF RunInto, EndTask, IsProcessed, NewPath
  <1>5. Has(r, tasks) = F /\ at \in F BY <1>4, RunIntoStep
  <1>6. at \in Leading(F) /\ F \subseteq Addr BY AtLeads
  <1>7. \A i \in 1 .. Len(tasks) : /\ tasks[i].roll = 0 /\ tasks[i].ref # 0
                                   /\ tasks[i].ref \in F /\ code[tasks[i].ref].kind \in Jumps
    BY AllRefer
  <1>8. Upon(tasks, at) = at /\ Upon(tasks, 0) = 0
    <2>1. ~Rolls(tasks) BY <1>1, NoRollMore
    <2> QED BY <2>1, AllRefer DEF Upon
  <1> HIDE DEF r, F
  <1>9. /\ r.ref = body.ref /\ r.sin = body.sin /\ MapGrows(body, r)
        /\ Paths(r) \subseteq Paths(body) \cup {at}
    BY <1>3 DEF Opens, SameRest
  <1>10. HeadOp(r, q) = <<at, 1>>
    <2>1. q = at BY <1>2, <1>4, Bounds DEF Mapped
    <2>2. r.ops[q] # <<>> BY <1>4 DEF OpsOf
    <2> QED BY <1>2, <1>4, <2>1, <2>2, EndsInWhole
  <1>11. Shaped(r, F, tasks, 0)
    <2>1. Shaped(body, F, tasks, at) BY DEF F
    <2>2. Stops(r, F)
      <3>1. \A a \in F : a + 1 \in Addr \cup {Out} BY <1>6, Bounds
      <3> QED BY <1>9, <2>1, <3>1 DEF Shaped, Stops, MapGrows
    <2>3. RefersOnly(r, F) BY <1>9, <2>1 DEF Shaped, RefersOnly
    <2>4. Paths(r) \subseteq Leading(F) BY <1>6, <1>9, <2>1 DEF Shaped
    <2>5. GoesOn(F, Upon(tasks, 0)) BY <1>5, <1>8, <2>1 DEF Shaped, GoesOn
    <2>6. CallsKnown(r, F) BY <1>9, <2>1 DEF Shaped, CallsKnown, Level
    <2>7. Follows(r, F, Upon(tasks, 0)) BY <1>8 DEF Follows
    <2>8. TasksAre(r, F, tasks, 0) BY <1>7, TasksRefer
    <2> QED BY <2>2, <2>3, <2>4, <2>5, <2>6, <2>7, <2>8 DEF Shaped
  <1>12. ASSUME Levelled(body, F, tasks, at), status' # Error,
                NEW v \in [Addr -> Int], Agrees(r, F, v), Brought(r, tasks, 0, v)
         PROVE  JumpsMeet(r, F, v) /\ FallsMeet(r, F, v)
    <2>1. \A a : In(r, a) = In(body, a) /\ Past(r, a) = Past(body, a)
      BY <1>9 DEF In, Past, Level
    <2>2. Agrees(body, F, v) BY <1>12, <2>1 DEF Agrees
    <2>3. Brought(body, tasks, at, v)
      <3>1. v[at] = Level(body, body.last)
        <4>1. v[at] = In(r, at) BY <1>5, <1>12 DEF Agrees, F
        <4> QED BY <1>4, <1>10, <1>12, <4>1 DEF In
      <3> QED BY <1>8, <1>12, <2>1, <3>1 DEF Brought
    <2>4. JumpsMeet(body, F, v) /\ FallsMeet(body, F, v) BY <1>12, <2>2, <2>3 DEF Levelled
    <2> QED BY <1>9, <2>1, <2>4 DEF JumpsMeet, FallsMeet
  <1>13. Levelled(body, F, tasks, at) /\ status' # Error => Levelled(r, F, tasks, 0)
    BY <1>12 DEF Levelled
  <1> QED BY <1>4, <1>5, <1>11, <1>13 DEF Grades, F

(* The call nobody has described is to be done again, with what it found.  *)
LEMMA CallUnknownGrades ==
  ASSUME Typed, at \in Addr, Builds(body, tasks, at),
         Shaped(body, Has(body, tasks), tasks, at), CallUnknown
  PROVE  Grades(body', tasks', at')
  <1> DEFINE e == Entered
             o == <<at, 1>>
             p == Put(e, o)
             s == Append(p.ops[e.cur], <<at, 2>>)
             c == [p EXCEPT !.ops = [p.ops EXCEPT ![e.cur] = s], !.last = body.last]
             k == [at |-> at, ref |-> 0, roll |-> 2]
             t == <<k>> \o tasks
             F == Has(body, tasks)
  <1>1. /\ body \in Body /\ Tiled(body) /\ Mapped(body) /\ CurEnds(body, at)
        /\ tasks \in Seq(Task) /\ Takes(body, e, at)
    BY EnteredAt DEF CallUnknown
  <1>2. Opens(body, e, at) BY <1>1, EnteredOpens
  <1>3. e \in Body /\ e.cur \in Addr BY <1>1 DEF Takes
  <1>4. body' = [p EXCEPT !.ops[e.cur] = s, !.last = body.last] /\ tasks' = t /\ at' = 0
    BY DEF CallUnknown, EndTask
  <1>5. Has(body', tasks') = F /\ at \notin F BY CallUnknownStep
  <1>6. at \in Leading(F) /\ F \subseteq Addr BY AtLeads
  <1>7. \A i \in 1 .. Len(tasks) : /\ tasks[i].roll = 0 /\ tasks[i].ref # 0
                                   /\ tasks[i].ref \in F /\ code[tasks[i].ref].kind \in Jumps
    BY AllRefer
  <1>8. Upon(tasks, at) = at /\ at # 0 BY AllRefer
  <1>9. /\ k \in Task /\ k.roll = 2 /\ k.at = at /\ k.ref = 0 BY Bounds DEF Task
  <1>10. o \in Op /\ o[1] = at BY PartsAreOps
  <1>11. code \in Programs /\ stub \in Cleanups \cup {None} BY DEF Typed
  <1> HIDE DEF e, o, k, F
  <1>12. /\ p.sin = [e.sin EXCEPT ![o] = IF e.last = NoOp THEN 0 ELSE Level(e, e.last)]
         /\ p.tree = e.tree /\ p.map = e.map /\ p.ref = e.ref
    BY <1>3, PutSets
  <1>13. p \in Body BY <1>3, <1>10, <1>11, PutIs
  <1> HIDE DEF p, s
  <1>14. body' = c BY <1>4, <1>13 DEF Body
  <1>15. /\ c.sin = p.sin /\ c.tree = p.tree /\ c.map = p.map /\ c.ref = p.ref
         /\ c.last = body.last
    BY <1>13 DEF Body
  <1> HIDE DEF c
  <1>16. \A w \in Op : w[1] # at => c.sin[w] = body.sin[w]
    <2>1. e.sin \in [Op -> Int] /\ e.sin = body.sin BY <1>2, <1>3 DEF Body, Opens, SameRest
    <2> QED BY <1>10, <1>12, <1>15, <2>1
  <1>17. /\ c.ref = body.ref /\ MapGrows(body, c) /\ Paths(c) \subseteq Paths(body) \cup {at}
    BY <1>2, <1>12, <1>15 DEF Opens, SameRest, MapGrows, Paths
  <1>18. \A a \in F : In(c, a) = In(body, a) /\ Past(c, a) = Past(body, a)
    BY <1>5, <1>6, <1>16, LevelsStay
  <1>19. /\ t # <<>> /\ Head(t) = k /\ Len(t) = Len(tasks) + 1 /\ t[1] = k
         /\ \A i \in 1 .. Len(tasks) : t[i + 1] = tasks[i]
         /\ \A i \in 2 .. Len(t) : i - 1 \in 1 .. Len(tasks) /\ t[i] = tasks[i - 1]
    BY <1>1, <1>9, TaskBefore
  <1> HIDE DEF t
  <1>20. Upon(t, 0) = at BY <1>9, <1>19 DEF Upon, Rolls
  <1>21. body.last # NoOp => \E a \in F : body.last = Last(Parts(a))
    BY <1>8 DEF Shaped, Follows, F
  <1>22. Shaped(c, F, t, 0)
    <2>1. Shaped(body, F, tasks, at) BY DEF F
    <2>2. Stops(c, F)
      <3>1. \A a \in F : a + 1 \in Addr \cup {Out} BY <1>6, Bounds
      <3> QED BY <1>17, <2>1, <3>1 DEF Shaped, Stops, MapGrows
    <2>3. RefersOnly(c, F) BY <1>17, <2>1 DEF Shaped, RefersOnly
    <2>4. Paths(c) \subseteq Leading(F) BY <1>6, <1>17, <2>1 DEF Shaped
    <2>5. GoesOn(F, Upon(t, 0)) BY <1>8, <1>20, <2>1 DEF Shaped
    <2>6. CallsKnown(c, F)
      <3> SUFFICES ASSUME NEW a \in F, code[a].kind = "call"
                   PROVE  stub # None /\ c.sin[<<a, 2>>] = Level(c, <<a, 1>>)
        BY DEF CallsKnown
      <3> DEFINE w == <<a, 1>>
                 z == <<a, 2>>
      <3>1. a \in Addr /\ a # at BY <1>5, <1>6
      <3>2. w[1] = a /\ z[1] = a OBVIOUS
      <3>3. w \in Op /\ z \in Op BY <3>1, PartsAreOps
      <3>4. stub # None /\ body.sin[z] = Level(body, w) BY <2>1 DEF Shaped, CallsKnown
      <3> HIDE DEF w, z
      <3>5. c.sin[z] = body.sin[z] /\ c.sin[w] = body.sin[w] BY <1>16, <3>1, <3>2, <3>3
      <3>6. stub # None /\ c.sin[z] = Level(c, w) BY <3>4, <3>5 DEF Level
      <3> QED BY <3>6 DEF w, z
    <2>7. Follows(c, F, Upon(t, 0)) BY <1>15, <1>21 DEF Follows
    <2>8. TasksAre(c, F, t, 0)
      <3> SUFFICES ASSUME NEW i \in 1 .. Len(t)
                   PROVE  IF t[i].ref # 0
                          THEN t[i].roll = 0 /\ t[i].ref \in F /\ code[t[i].ref].kind \in Jumps
                          ELSE t[i].roll = 0 => Len(t) = 1 /\ c.last = NoOp
        BY DEF TasksAre
      <3>1. i = 1 \/ i \in 2 .. Len(t) OBVIOUS
      <3> QED BY <1>7, <1>9, <1>19, <3>1
    <2> QED BY <2>2, <2>3, <2>4, <2>5, <2>6, <2>7, <2>8 DEF Shaped
  <1>23. ASSUME Levelled(body, F, tasks, at),
                NEW v \in [Addr -> Int], Agrees(c, F, v), Brought(c, t, 0, v)
         PROVE  JumpsMeet(c, F, v) /\ FallsMeet(c, F, v)
    <2>1. Agrees(body, F, v) BY <1>18, <1>23 DEF Agrees
    <2>2. Brought(body, tasks, at, v)
      <3>1. ASSUME NEW i \in 1 .. Len(tasks) PROVE v[tasks[i].at] = In(body, tasks[i].ref)
        <4>1. i + 1 \in 1 .. Len(t) /\ t[i + 1] = tasks[i] BY <1>1, <1>19
        <4>2. tasks[i].ref \in F /\ tasks[i].ref # 0 BY <1>7
        <4>3. v[tasks[i].at] = In(c, tasks[i].ref) BY <1>23, <4>1, <4>2 DEF Brought
        <4> QED BY <1>18, <4>2, <4>3
      <3>2. ASSUME body.last # NoOp PROVE v[at] = Level(body, body.last)
        <4>1. v[at] = Level(c, body.last) BY <1>8, <1>15, <1>20, <1>23, <3>2 DEF Brought
        <4>2. PICK a \in F : body.last = Last(Parts(a)) BY <1>21, <3>2
        <4> QED BY <1>18, <4>1, <4>2 DEF Past
      <3> QED BY <1>8, <3>1, <3>2 DEF Brought
    <2>3. JumpsMeet(body, F, v) /\ FallsMeet(body, F, v) BY <1>23, <2>1, <2>2 DEF Levelled
    <2> QED BY <1>17, <1>18, <2>3 DEF JumpsMeet, FallsMeet
  <1>24. Levelled(body, F, tasks, at) => Levelled(c, F, t, 0) BY <1>23 DEF Levelled
  <1> QED BY <1>4, <1>5, <1>14, <1>22, <1>24 DEF Grades, F

(* A jump or a return: b is the body before its path is finished, f after, *)
(* and c is f or f with the way straight on given up.                      *)
LEMMA TurnGrades ==
  ASSUME JumpsAreLevel, Typed, at \in Addr, Builds(body, tasks, at), ~IsProcessed, ~body.broken,
         Shaped(body, Has(body, tasks), tasks, at), code[at].kind \in Turns,
         NEW b \in Body, Tiled(b), Mapped(b), b.broken = body.broken,
         b.cur # None, b.ops[b.cur] # <<>>, EndOf(b, b.cur) = at + 1,
         Arrives(body, b, at), b.last = Last(Parts(at)), MapGrows(body, b),
         Paths(b) \subseteq Leading(Has(body, tasks) \cup {at}),
         \A a \in Addr : a # at => b.ref[a] = body.ref[a],
         code[at].kind \in Jumps \/ b.ref[at] = Exit,
         NEW t \in Seq(Task), NoRoll(t), NEW x \in Addr \cup {0},
         \A i \in 1 .. Len(tasks) : \E j \in 1 .. Len(t) : t[j] = tasks[i],
         TasksAre(b, Has(body, tasks) \cup {at}, t, x),
         code[at].kind \in Jumps /\ b.ref[at] \in Addr =>
             \E i \in 1 .. Len(t) : t[i].at = b.ref[at] /\ t[i].ref = at,
         code[at].kind = "jif" /\ at # N => x = at + 1,
         NEW f, f = FinalizePath(b, at),
         NEW c \in Body, c.tree = f.tree, c.ops = f.ops, c.map = f.map, c.ref = f.ref, c.sin = f.sin,
         c.broken = f.broken,
         IF x = 0 THEN c.last = NoOp ELSE c.last = f.last,
         Has(c, t) = Has(body, tasks) \cup {at}
  PROVE  Grades(c, t, x)
  <1> SUFFICES ASSUME ~c.broken PROVE Grades(c, t, x)
    BY DEF Grades
  <1> DEFINE F == Has(body, tasks)
             G == F \cup {at}
  <1>1. at \notin F /\ F \subseteq Addr BY AtLeads
  <1>2. code \in Programs BY DEF Typed
  <1>3. Falls(at) /\ at + 1 \in Addr => x = at + 1 /\ x # 0 BY Bounds DEF Falls, Turns
  <1>4. Upon(tasks, at) = at BY AllRefer
  <1>5. f \in Body /\ f.last = b.last /\ f.sin = b.sin /\ f.ops = b.ops /\ ~f.broken
    BY FinalizeKeeps
  <1>6. WholeIn(b) = G
    <2>1. Contents(b) = Contents(c) BY <1>5 DEF Contents
    <2>2. Has(c, t) = {a \in Addr : Last(Parts(a)) \in Contents(c)} BY HasWhenNoRoll
    <2> QED BY <2>1, <2>2 DEF WholeIn
  <1> HIDE DEF F
  <1>7. Shaped(body, F, tasks, at) BY DEF F
  <1>8. \A y \in G : Falls(y) /\ y # at /\ y + 1 \in Addr => y + 1 \in G
    BY <1>4, <1>7 DEF Shaped, GoesOn
  <1>9. /\ Meanwhile(b, f, G) /\ MapGrows(b, f) /\ f.map[at + 1] # None /\ f.tree = b.tree
    <2>1. code[at].kind \in Jumps \/ (code[at].kind = "ret" /\ b.ref[at] = Exit)
      BY DEF Turns, Jumps
    <2> HIDE DEF G
    <2> QED BY <1>2, <1>5, <1>6, <1>8, <2>1, FinalizeMeets
  <1>10. \A o \in Op : o[1] # at => c.sin[o] = body.sin[o] BY <1>5 DEF Arrives
  <1>11. RefersOnly(b, G)
    <2>1. RefersOnly(body, F) BY <1>7 DEF Shaped
    <2> QED BY <2>1 DEF RefersOnly
  <1>12. Last(Parts(at)) \in Op /\ Last(Parts(at)) # NoOp BY PartsAreOps, NoOpIsNone
  <1>13. x # 0 => c.last = Last(Parts(at)) BY <1>5
  <1>14. ~Rolls(t) BY NoRollMore
  <1>15. Shaped(c, G, t, x)
    <2>1. MapGrows(body, c) BY <1>9 DEF MapGrows
    <2>2. RefersOnly(c, G) BY <1>9, <1>11 DEF Meanwhile, RefersOnly
    <2>3. code[at].kind # "call" BY DEF Turns
    <2>4. c.map[at + 1] # None BY <1>9
    <2>5. Paths(c) \subseteq Leading(G) BY <1>9 DEF Paths, F
    <2>6. x # 0 /\ c.last # NoOp => c.last = Last(Parts(at)) BY <1>13
    <2>7. TasksAre(c, G, t, x)
      <3>1. \A i \in 1 .. Len(t) :
               IF t[i].ref # 0
               THEN t[i].roll = 0 /\ t[i].ref \in G /\ code[t[i].ref].kind \in Jumps
               ELSE t[i].roll = 0 => Len(t) = 1 /\ x = 0 /\ b.last = NoOp
        BY DEF TasksAre, F
      <3> QED BY <1>12, <3>1 DEF TasksAre
    <2> QED BY <1>1, <1>3, <1>7, <1>10, <1>14, <2>1, <2>2, <2>3, <2>4, <2>5, <2>6, <2>7, ShapedMore
  <1>16. ASSUME Levelled(body, F, tasks, at),
                NEW v \in [Addr -> Int], Agrees(c, G, v), Brought(c, t, x, v)
         PROVE  JumpsMeet(c, G, v) /\ FallsMeet(c, G, v)
    <2>1. \A a : In(c, a) = In(b, a) /\ Past(c, a) = Past(b, a) BY <1>5 DEF In, Past, Level
    <2>2. Agrees(b, G, v) BY <1>16, <2>1 DEF Agrees
    <2>3. \A i \in 1 .. Len(tasks) : v[tasks[i].at] = In(body, tasks[i].ref)
      <3> SUFFICES ASSUME NEW i \in 1 .. Len(tasks)
                   PROVE  v[tasks[i].at] = In(body, tasks[i].ref)
        OBVIOUS
      <3>1. tasks[i].ref # 0 /\ tasks[i].ref \in F BY <1>7, AllRefer
      <3>2. PICK j \in 1 .. Len(t) : t[j] = tasks[i] OBVIOUS
      <3>3. v[tasks[i].at] = In(c, tasks[i].ref) BY <1>16, <3>1, <3>2 DEF Brought
      <3>4. \A a \in F : In(c, a) = In(body, a) BY <1>1, <1>10, LevelsStay
      <3> QED BY <3>1, <3>3, <3>4
    <2>4. ASSUME code[at].kind \in Jumps, b.ref[at] \in Addr PROVE v[b.ref[at]] = In(b, at)
      <3>1. PICK i \in 1 .. Len(t) : t[i].at = b.ref[at] /\ t[i].ref = at BY <2>4
      <3>2. at # 0 BY Bounds
      <3> QED BY <1>16, <2>1, <3>1, <3>2 DEF Brought
    <2>5. ASSUME Falls(at), at + 1 \in Addr PROVE v[at + 1] = Past(b, at)
      <3>1. x = at + 1 /\ x # 0 /\ Upon(t, x) = x BY <1>3, <2>5 DEF Upon
      <3>2. v[at + 1] = Level(c, Last(Parts(at))) BY <1>12, <1>13, <1>16, <3>1 DEF Brought
      <3> QED BY <2>1, <3>2 DEF Past
    <2>6. \A a \in F : b.ref[a] = body.ref[a] BY <1>1
    <2>7. JumpsMeet(b, G, v) /\ FallsMeet(b, G, v)
      BY <1>1, <1>7, <1>16, <2>2, <2>3, <2>4, <2>5, <2>6, MeetsMore
    <2>8. JumpsMeet(f, G, v) BY <1>9, <2>2, <2>7 DEF Meanwhile
    <2> QED BY <2>1, <2>7, <2>8 DEF JumpsMeet, FallsMeet, In
  <1>17. Levelled(body, F, tasks, at) => Levelled(c, G, t, x) BY <1>16 DEF Levelled
  <1> QED BY <1>15, <1>17 DEF Grades, F

OtherRefs(b, c, z) == \A a \in Addr : a # z => c.ref[a] = b.ref[a]

(* The body with the jump at hand, before its path is finished.            *)
WithJump ==
    IF code[at].to \in Addr
    THEN [AssurePathBeginsAt(Generate, code[at].to, at) EXCEPT !.ref[at] = code[at].to]
    ELSE Generate

LEMMA JumpBody ==
  ASSUME Typed, at \in Addr, Builds(body, tasks, at), Jump,
         Shaped(body, Has(body, tasks), tasks, at)
  PROVE  /\ WithJump \in Body /\ Tiled(WithJump) /\ Mapped(WithJump)
         /\ WithJump.broken = body.broken
         /\ WithJump.cur # None /\ WithJump.ops[WithJump.cur] # <<>>
         /\ EndOf(WithJump, WithJump.cur) = at + 1
         /\ Arrives(body, WithJump, at) /\ WithJump.last = Last(Parts(at))
         /\ MapGrows(body, WithJump)
         /\ Paths(WithJump) \subseteq Leading(Has(body, tasks) \cup {at})
         /\ OtherRefs(body, WithJump, at)
         /\ code[at].to \in Addr => WithJump.ref[at] = code[at].to
         /\ code[at].to \notin Addr => WithJump.ref[at] = None
         /\ body.ref[at] = None /\ WithJump.flip = body.flip
         /\ Contents(WithJump) = Contents(body) \cup Range(Parts(at))
  <1> DEFINE F == Has(body, tasks)
             G == F \cup {at}
             to == code[at].to
             b == WithJump
             g == Generate
             r == AssurePathBeginsAt(g, to, at)
             d == [r EXCEPT !.ref[at] = to]
  <1>1. /\ Takes(body, Entered, at) /\ body \in Body
        /\ Tiled(body) /\ ~IsProcessed /\ code[at].kind \in Jumps
    BY EnteredAt DEF Jump
  <1>2. /\ g \in Body /\ Tiled(g) /\ Mapped(g)
        /\ g.cur \in Addr /\ g.ops[g.cur] # <<>> /\ EndOf(g, g.cur) = at + 1
        /\ g.broken = body.broken /\ Contents(g) = Contents(body) \cup Range(Parts(at))
    BY <1>1, GenerateKeeps
  <1>3. /\ Arrives(body, g, at) /\ g.last = Last(Parts(at))
        /\ g.ref = body.ref /\ g.flip = body.flip
        /\ MapGrows(body, g) /\ Paths(g) \subseteq Paths(body) \cup {at}
    BY <1>1, GenerateArrives
  <1>4. at \notin F /\ F \subseteq Addr BY <1>1, AtLeads
  <1>5. Paths(body) \subseteq Leading(F) /\ RefersOnly(body, F) BY DEF Shaped
  <1>6. at \in Leading(F) /\ Leading(F) \subseteq Leading(G) BY <1>1, AtLeads DEF Leading
  <1>7. to \in Addr => to \in Leading(G) BY <1>1 DEF Leading, Succ, Jumps
  <1>8. body.ref[at] = None BY <1>4, <1>5 DEF RefersOnly
  <1>9. b = IF to \in Addr THEN d ELSE g BY DEF WithJump
  <1> DEFINE Good ==
                /\ b \in Body /\ Tiled(b) /\ Mapped(b) /\ b.broken = body.broken
                /\ b.cur # None /\ b.ops[b.cur] # <<>> /\ EndOf(b, b.cur) = at + 1
                /\ Arrives(body, b, at) /\ b.last = Last(Parts(at)) /\ MapGrows(body, b)
                /\ Paths(b) \subseteq Leading(G) /\ OtherRefs(body, b, at)
                /\ to \in Addr => b.ref[at] = to
                /\ to \notin Addr => b.ref[at] = None
                /\ body.ref[at] = None /\ b.flip = body.flip
                /\ Contents(b) = Contents(body) \cup Range(Parts(at))
  <1> HIDE DEF F, G, to, b, g
  <1>10. ASSUME to \in Addr PROVE Good
    <2>1. g.cur # None /\ CurEnds(g, at + 1) BY <1>2, Bounds DEF CurEnds
    <2>2. Registers(g, to, r) /\ Opens(g, r, to) BY <1>2, <1>10, <2>1, AssureKeeps, AssureOpens
    <2> HIDE DEF r
    <2>3. r \in Body /\ Tiled(r) /\ Mapped(r) /\ to \in Range(r.tree)
          /\ Contents(r) = Contents(g) /\ r.broken = g.broken /\ r.ref = g.ref /\ r.flip = g.flip /\ r.sin = g.sin /\ r.last = g.last
      BY <2>2 DEF Registers, SameRest
    <2>4. r.cur # None /\ r.ops[r.cur] # <<>> /\ EndOf(r, r.cur) = at + 1
      BY <1>2, <2>1, <2>2 DEF Registers, SameEnd
    <2>5. /\ d \in Body /\ Tiled(d) /\ Mapped(d) /\ d.broken = r.broken
          /\ d.ops = r.ops /\ d.cur = r.cur /\ d.sin = r.sin /\ d.last = r.last
          /\ Paths(d) = Paths(r)
      BY <2>3, ReferKeeps
    <2>6. r.ref \in [Addr -> Addr \cup {Exit, None}] BY <2>3, BodyFields
    <2>7. d.map = r.map /\ d.flip = r.flip /\ d.ref = [r.ref EXCEPT ![at] = to] BY <2>3 DEF Body
    <2> HIDE DEF d
    <2>8. d.ref[at] = to /\ OtherRefs(body, d, at)
      BY <1>3, <2>3, <2>6, <2>7 DEF OtherRefs
    <2>9. EndOf(d, d.cur) = at + 1 BY <2>4, <2>5 DEF EndOf
    <2>10. Arrives(body, d, at) BY <1>3, <2>3, <2>5 DEF Arrives, In
    <2>11. MapGrows(body, d) BY <1>3, <2>2, <2>7 DEF MapGrows, Opens
    <2>12. Paths(d) \subseteq Leading(G) BY <1>3, <1>5, <1>6, <1>7, <1>10, <2>2, <2>5 DEF Opens
    <2>13. Contents(d) = Contents(g) BY <2>3, <2>5 DEF Contents
    <2>14. b = d BY <1>9, <1>10
    <2>15. d.cur # None /\ d.ops[d.cur] # <<>> /\ d.broken = body.broken
      BY <1>2, <2>3, <2>4, <2>5
    <2>16. d.last = Last(Parts(at)) /\ d.flip = body.flip /\ d.ref[at] = to
      BY <1>3, <1>10, <2>3, <2>5, <2>7, <2>8
    <2>17. Contents(d) = Contents(body) \cup Range(Parts(at)) BY <1>2, <2>13
    <2> QED
      BY ONLY <1>8, <1>10, <2>5, <2>8, <2>9, <2>10, <2>11, <2>12, <2>14, <2>15, <2>16, <2>17
  <1>11. ASSUME to \notin Addr PROVE Good
    <2>1. b = g BY <1>9, <1>11
    <2>2. g.cur # None BY <1>2, Bounds
    <2>3. Paths(g) \subseteq Leading(G) BY <1>3, <1>5, <1>6
    <2>4. OtherRefs(body, g, at) BY <1>3 DEF OtherRefs
    <2>5. g.ref[at] = None BY <1>3, <1>8
    <2> QED BY ONLY <1>2, <1>3, <1>8, <1>11, <2>1, <2>2, <2>3, <2>4, <2>5
  <1> QED BY <1>10, <1>11 DEF F, G, to, b

LEMMA JumpGrades ==
  ASSUME JumpsAreLevel, Typed, at \in Addr, Builds(body, tasks, at),
         Shaped(body, Has(body, tasks), tasks, at), Jump
  PROVE  Grades(body', tasks', at')
  <1> SUFFICES ASSUME ~body'.broken PROVE Grades(body', tasks', at')
    BY DEF Grades
  <1> DEFINE F == Has(body, tasks)
             G == F \cup {at}
             g == Generate
             to == code[at].to
             k == [at |-> to, ref |-> at, roll |-> 0]
             r == AssurePathBeginsAt(g, to, at)
             d == [r EXCEPT !.ref[at] = to]
             b == IF to \in Addr THEN d ELSE g
             t == IF to \in Addr THEN Append(tasks, k) ELSE tasks
             f == FinalizePath(b, at)
             e == [f EXCEPT !.last = NoOp]
             x == IF code[at].kind = "jmp" \/ at = N THEN 0 ELSE at + 1
  <1>1. /\ Takes(body, Entered, at) /\ tasks \in Seq(Task) /\ NoRoll(tasks) /\ body \in Body
        /\ Tiled(body) /\ ~IsProcessed /\ code[at].kind \in Jumps
    BY EnteredAt DEF Jump
  <1>2. /\ g \in Body /\ Tiled(g) /\ Mapped(g)
        /\ g.cur \in Addr /\ g.ops[g.cur] # <<>> /\ EndOf(g, g.cur) = at + 1
        /\ g.broken = body.broken
    BY <1>1, GenerateKeeps
  <1>3. /\ Arrives(body, g, at) /\ g.last = Last(Parts(at))
        /\ g.ref = body.ref /\ MapGrows(body, g) /\ Paths(g) \subseteq Paths(body) \cup {at}
    BY <1>1, GenerateArrives
  <1>4. body' = (IF x = 0 THEN e ELSE f) /\ at' = x /\ tasks' = t /\ x \in Addr \cup {0}
    <2>1. at + 1 # 0 /\ (at # N => at + 1 \in Addr) BY Bounds
    <2> HIDE DEF e, f, t
    <2>2. \/ (code[at].kind = "jmp" \/ at = N) /\ body' = e /\ at' = 0 /\ tasks' = t
          \/ ~(code[at].kind = "jmp" \/ at = N) /\ body' = f /\ at' = at + 1 /\ tasks' = t
      BY DEF Jump, EndTask, e, f, t
    <2> QED BY <2>1, <2>2
  <1>5. ~body.broken BY DEF Jump, Generating
  <1>6. Has(body', tasks') = G BY JumpStep
  <1>7. at \notin F /\ F \subseteq Addr BY <1>1, AtLeads
  <1>8. Paths(body) \subseteq Leading(F) /\ RefersOnly(body, F) BY DEF Shaped
  <1>9. at \in Leading(F) /\ Leading(F) \subseteq Leading(G) BY <1>1, AtLeads DEF Leading
  <1>10. to \in Addr => to \in Leading(G) BY <1>1 DEF Leading, Succ, Jumps
  <1>11. body.ref[at] = None BY <1>7, <1>8 DEF RefersOnly
  <1> HIDE DEF F, G, g, to
  <1>12. /\ b \in Body /\ Tiled(b) /\ Mapped(b) /\ b.broken = body.broken
         /\ b.cur # None /\ b.ops[b.cur] # <<>> /\ EndOf(b, b.cur) = at + 1
         /\ Arrives(body, b, at) /\ b.last = Last(Parts(at)) /\ MapGrows(body, b)
         /\ Paths(b) \subseteq Leading(G)
         /\ \A a \in Addr : a # at => b.ref[a] = body.ref[a]
         /\ IF to \in Addr THEN b.ref[at] = to ELSE b.ref[at] = None
    <2>1. b = WithJump BY DEF WithJump, g, to
    <2>2. to = code[at].to /\ G = Has(body, tasks) \cup {at} BY DEF to, F, G
    <2> HIDE DEF b, r, d, f, e, t, x, k
    <2>3. /\ b \in Body /\ Tiled(b) /\ Mapped(b) /\ b.broken = body.broken
          /\ b.cur # None /\ b.ops[b.cur] # <<>> /\ EndOf(b, b.cur) = at + 1
          /\ Arrives(body, b, at) /\ b.last = Last(Parts(at)) /\ MapGrows(body, b)
      BY <2>1, <2>2, JumpBody
    <2>4. Paths(b) \subseteq Leading(G) /\ OtherRefs(body, b, at) BY <2>1, <2>2, JumpBody
    <2>5. to \in Addr => b.ref[at] = to BY <2>1, <2>2, JumpBody
    <2>6. to \notin Addr => b.ref[at] = None BY <2>1, <2>2, JumpBody
    <2> QED BY <2>3, <2>4, <2>5, <2>6 DEF OtherRefs
  <1> HIDE DEF r, d, b
  <1>13. /\ t \in Seq(Task) /\ NoRoll(t)
         /\ \A i \in 1 .. Len(tasks) : \E j \in 1 .. Len(t) : t[j] = tasks[i]
         /\ TasksAre(b, G, t, x)
         /\ to \in Addr => \E i \in 1 .. Len(t) : t[i].at = to /\ t[i].ref = at
    <2>1. \A i \in 1 .. Len(tasks) : /\ tasks[i].roll = 0 /\ tasks[i].ref # 0
                                     /\ tasks[i].ref \in G /\ code[tasks[i].ref].kind \in Jumps
      BY AllRefer DEF F, G
    <2>2. CASE to \in Addr
      <3>1. k \in Task /\ k.roll = 0 /\ k.at = to /\ k.ref = at BY <2>2 DEF Task
      <3>2. t = Append(tasks, k) BY <2>2
      <3>3. at # 0 /\ at \in G BY Bounds DEF G
      <3> HIDE DEF k, t
      <3>4. t \in Seq(Task) /\ NoRoll(t) BY <1>1, <3>1, <3>2, NoRollMore
      <3>5. /\ Len(t) = Len(tasks) + 1 /\ t[Len(t)] = k /\ Len(tasks) \in Nat
            /\ \A i \in 1 .. Len(tasks) : t[i] = tasks[i]
        BY <1>1, <3>1, <3>2
      <3>6. \A i \in 1 .. Len(t) : /\ t[i].roll = 0 /\ t[i].ref # 0
                                   /\ t[i].ref \in G /\ code[t[i].ref].kind \in Jumps
        <4> SUFFICES ASSUME NEW i \in 1 .. Len(t)
                     PROVE  /\ t[i].roll = 0 /\ t[i].ref # 0
                            /\ t[i].ref \in G /\ code[t[i].ref].kind \in Jumps
          OBVIOUS
        <4>1. i = Len(t) \/ i \in 1 .. Len(tasks) BY <3>5
        <4> QED BY <1>1, <2>1, <3>1, <3>3, <3>5, <4>1
      <3>7. TasksAre(b, G, t, x) BY <3>6, TasksRefer
      <3>8. Len(t) \in 1 .. Len(t) /\ t[Len(t)].at = to /\ t[Len(t)].ref = at BY <3>1, <3>5
      <3>9. \A i \in 1 .. Len(tasks) : i \in 1 .. Len(t) /\ t[i] = tasks[i] BY <3>5
      <3> QED BY <3>4, <3>7, <3>8, <3>9
    <2>3. CASE to \notin Addr
      <3>1. t = tasks BY <2>3
      <3> HIDE DEF t
      <3>2. TasksAre(b, G, tasks, x) BY <2>1, TasksRefer
      <3> QED BY <1>1, <2>3, <3>1, <3>2
    <2> QED BY <2>2, <2>3
  <1> HIDE DEF t, k
  <1>14. f \in Body BY <1>5, <1>12, FinalizeKeeps
  <1>15. /\ e \in Body /\ e.last = NoOp
         /\ e.tree = f.tree /\ e.ops = f.ops /\ e.map = f.map /\ e.ref = f.ref /\ e.sin = f.sin
         /\ e.broken = f.broken
    <2> HIDE DEF f
    <2> QED BY <1>14 DEF Body
  <1>16. f = FinalizePath(b, at) OBVIOUS
  <1>17. code[at].kind \in Turns /\ (code[at].kind = "jif" /\ at # N => x = at + 1)
    BY <1>1 DEF Jumps, Turns
  <1> DEFINE c == IF x = 0 THEN e ELSE f
  <1> HIDE DEF e, f, x
  <1>18. /\ c \in Body /\ c.tree = f.tree /\ c.ops = f.ops /\ c.map = f.map /\ c.ref = f.ref
         /\ c.sin = f.sin /\ c.broken = f.broken
         /\ IF x = 0 THEN c.last = NoOp ELSE c.last = f.last
    BY <1>14, <1>15
  <1>19. body' = c BY <1>4
  <1> HIDE DEF c
  <1>20. Has(c, t) = Has(body, tasks) \cup {at} BY <1>4, <1>6, <1>19 DEF F, G
  <1>21. TasksAre(b, Has(body, tasks) \cup {at}, t, x)
         /\ Paths(b) \subseteq Leading(Has(body, tasks) \cup {at})
    BY <1>12, <1>13 DEF F, G
  <1>22. b.ref[at] \in Addr => \E i \in 1 .. Len(t) : t[i].at = b.ref[at] /\ t[i].ref = at
    BY <1>12, <1>13, Bounds
  <1>23. Grades(c, t, x)
    BY <1>1, <1>4, <1>5, <1>12, <1>13, <1>16, <1>17, <1>18, <1>20, <1>21, <1>22, TurnGrades
  <1> QED BY <1>4, <1>19, <1>23

LEMMA ReturnBody ==
  ASSUME Typed, at \in Addr, Builds(body, tasks, at), Return,
         Shaped(body, Has(body, tasks), tasks, at),
         NEW G, G = Has(body, tasks) \cup {at},
         NEW b, b = [CreateTailPath(Generate) EXCEPT !.ref[at] = Exit]
  PROVE  /\ b \in Body /\ Tiled(b) /\ Mapped(b) /\ b.broken = body.broken
         /\ b.cur # None /\ b.ops[b.cur] # <<>> /\ EndOf(b, b.cur) = at + 1
         /\ Arrives(body, b, at) /\ b.last = Last(Parts(at)) /\ MapGrows(body, b)
         /\ Paths(b) \subseteq Leading(G) /\ OtherRefs(body, b, at)
         /\ b.ref[at] = Exit
         /\ body.ref[at] = None /\ b.flip = body.flip
         /\ Contents(b) = Contents(body) \cup Range(Parts(at))
  <1> DEFINE F == Has(body, tasks)
             g == Generate
             r == CreateTailPath(g)
             d == [r EXCEPT !.ref[at] = Exit]
  <1>1. /\ Takes(body, Entered, at) /\ body \in Body /\ ~IsProcessed
    BY EnteredAt DEF Return
  <1>2. /\ g \in Body /\ Tiled(g) /\ Mapped(g)
        /\ g.cur \in Addr /\ g.ops[g.cur] # <<>> /\ EndOf(g, g.cur) = at + 1
        /\ g.broken = body.broken /\ Contents(g) = Contents(body) \cup Range(Parts(at))
    BY <1>1, GenerateKeeps
  <1>3. /\ Arrives(body, g, at) /\ g.last = Last(Parts(at))
        /\ g.ref = body.ref /\ g.flip = body.flip
        /\ MapGrows(body, g) /\ Paths(g) \subseteq Paths(body) \cup {at}
    BY <1>1, GenerateArrives
  <1>4. at \in Leading(F) /\ Leading(F) \subseteq Leading(G) BY <1>1, AtLeads DEF Leading
  <1>5. Paths(body) \subseteq Leading(F) /\ RefersOnly(body, F) BY DEF Shaped
  <1>6. body.ref[at] = None
    <2>1. at \notin F /\ F \subseteq Addr BY <1>1, AtLeads
    <2> QED BY <1>5, <2>1 DEF RefersOnly
  <1>7. b = d OBVIOUS
  <1> HIDE DEF F, g
  <1>8. /\ r \in Body /\ Tiled(r) /\ Mapped(r) /\ Exit \in Range(r.tree)
        /\ SameRest(g, r) /\ r.ops = g.ops /\ r.cur = g.cur /\ Paths(r) = Paths(g)
    BY <1>2, TailPathKeeps
  <1>9. MapGrows(g, r) BY DEF CreateTailPath, MapGrows
  <1> HIDE DEF r
  <1>10. /\ b \in Body /\ Tiled(b) /\ Mapped(b) /\ b.broken = r.broken
         /\ b.ops = r.ops /\ b.cur = r.cur /\ b.sin = r.sin /\ b.last = r.last
         /\ Paths(b) = Paths(r)
    <2>1. /\ d \in Body /\ Tiled(d) /\ Mapped(d) /\ d.broken = r.broken
          /\ d.ops = r.ops /\ d.cur = r.cur /\ d.sin = r.sin /\ d.last = r.last
          /\ Paths(d) = Paths(r)
      BY <1>8, ReferKeeps
    <2> HIDE DEF d
    <2> QED BY <1>7, <2>1
  <1>11. r.ref \in [Addr -> Addr \cup {Exit, None}] BY <1>8, BodyFields
  <1>12. b.map = r.map /\ b.flip = r.flip /\ b.ref = [r.ref EXCEPT ![at] = Exit]
    BY <1>7, <1>8 DEF Body
  <1>13. b.ref[at] = Exit /\ OtherRefs(body, b, at)
    BY ONLY <1>3, <1>8, <1>11, <1>12, at \in Addr DEF SameRest, OtherRefs
  <1>14. b.cur # None /\ b.ops[b.cur] # <<>> /\ EndOf(b, b.cur) = at + 1 /\ b.broken = body.broken
    BY <1>2, <1>8, <1>10, Bounds DEF EndOf, SameRest
  <1>15. Arrives(body, b, at) /\ b.last = Last(Parts(at))
    BY <1>3, <1>8, <1>10 DEF Arrives, In, SameRest
  <1>16. MapGrows(body, b) BY <1>3, <1>9, <1>12 DEF MapGrows
  <1>17. Paths(b) \subseteq Leading(G) BY <1>3, <1>4, <1>5, <1>8, <1>10
  <1>18. Contents(b) = Contents(g) /\ b.flip = g.flip
    BY <1>8, <1>10, <1>12 DEF Contents, SameRest
  <1> QED BY <1>2, <1>3, <1>6, <1>10, <1>13, <1>14, <1>15, <1>16, <1>17, <1>18

LEMMA ReturnGrades ==
  ASSUME JumpsAreLevel, Typed, at \in Addr, Builds(body, tasks, at),
         Shaped(body, Has(body, tasks), tasks, at), Return
  PROVE  Grades(body', tasks', at')
  <1> SUFFICES ASSUME ~body'.broken PROVE Grades(body', tasks', at')
    BY DEF Grades
  <1> DEFINE F == Has(body, tasks)
             G == F \cup {at}
             g == Generate
             r == CreateTailPath(g)
             b == [r EXCEPT !.ref[at] = Exit]
             f == FinalizePath(b, at)
             c == [f EXCEPT !.last = NoOp]
  <1>1. /\ Takes(body, Entered, at) /\ tasks \in Seq(Task) /\ NoRoll(tasks) /\ body \in Body
        /\ ~IsProcessed /\ code[at].kind = "ret" /\ ~body.broken
    BY EnteredAt DEF Return, Generating
  <1>2. body' = c /\ at' = 0 /\ tasks' = tasks BY DEF Return, EndTask
  <1>3. Has(body', tasks') = G BY ReturnStep
  <1>4. TasksAre(b, G, tasks, 0)
    <2>1. \A i \in 1 .. Len(tasks) : /\ tasks[i].roll = 0 /\ tasks[i].ref # 0
                                     /\ tasks[i].ref \in G /\ code[tasks[i].ref].kind \in Jumps
      BY AllRefer
    <2> HIDE DEF G, b
    <2> QED BY <2>1, TasksRefer
  <1>5. /\ b \in Body /\ Tiled(b) /\ Mapped(b) /\ b.broken = body.broken
        /\ b.cur # None /\ b.ops[b.cur] # <<>> /\ EndOf(b, b.cur) = at + 1
        /\ Arrives(body, b, at) /\ b.last = Last(Parts(at)) /\ MapGrows(body, b)
        /\ Paths(b) \subseteq Leading(G) /\ OtherRefs(body, b, at)
        /\ b.ref[at] = Exit
    <2>1. b = [CreateTailPath(Generate) EXCEPT !.ref[at] = Exit] OBVIOUS
    <2>2. G = Has(body, tasks) \cup {at} OBVIOUS
    <2> HIDE DEF b, f, c, r, g, F, G
    <2>3. b \in Body /\ Tiled(b) /\ Mapped(b) /\ b.broken = body.broken
      BY <2>1, <2>2, ReturnBody
    <2>4. b.cur # None /\ b.ops[b.cur] # <<>> /\ EndOf(b, b.cur) = at + 1
      BY <2>1, <2>2, ReturnBody
    <2>5. Arrives(body, b, at) /\ b.last = Last(Parts(at)) /\ MapGrows(body, b)
      BY <2>1, <2>2, ReturnBody
    <2>6. Paths(b) \subseteq Leading(G) /\ OtherRefs(body, b, at) /\ b.ref[at] = Exit
      BY <2>1, <2>2, ReturnBody
    <2> QED BY <2>3, <2>4, <2>5, <2>6
  <1>6. \A a \in Addr : a # at => b.ref[a] = body.ref[a] BY <1>5 DEF OtherRefs
  <1> HIDE DEF F, G, g, r, b
  <1>7. f \in Body BY <1>1, <1>5, FinalizeKeeps
  <1>8. f = FinalizePath(b, at) OBVIOUS
  <1> HIDE DEF f
  <1>9. /\ c \in Body /\ c.last = NoOp
         /\ c.tree = f.tree /\ c.ops = f.ops /\ c.map = f.map /\ c.ref = f.ref /\ c.sin = f.sin
         /\ c.broken = f.broken
    BY <1>7 DEF Body
  <1> HIDE DEF c
  <1>10. Has(c, tasks) = Has(body, tasks) \cup {at} BY <1>2, <1>3 DEF F, G
  <1>11. code[at].kind \in Turns /\ code[at].kind \notin Jumps /\ code[at].kind # "jif"
    BY <1>1 DEF Turns, Jumps
  <1>12. TasksAre(b, Has(body, tasks) \cup {at}, tasks, 0)
         /\ Paths(b) \subseteq Leading(Has(body, tasks) \cup {at})
    BY <1>4, <1>5 DEF F, G
  <1>13. 0 \in Addr \cup {0} /\ \A i \in 1 .. Len(tasks) : \E j \in 1 .. Len(tasks) : tasks[j] = tasks[i]
    OBVIOUS
  <1>14. Grades(c, tasks, 0)
    <2> DEFINE z == 0
    <2>1. z = 0 /\ z \in Addr \cup {0} OBVIOUS
    <2>2. TasksAre(b, Has(body, tasks) \cup {at}, tasks, z) BY <1>12
    <2>3. (code[at].kind = "jif" /\ at # N => z = at + 1) /\ (IF z = 0 THEN c.last = NoOp ELSE c.last = f.last)
      BY <1>9, <1>11
    <2> HIDE DEF z
    <2>4. Grades(c, tasks, z)
      BY <1>1, <1>5, <1>6, <1>8, <1>9, <1>10, <1>11, <1>12, <1>13,
         <2>1, <2>2, <2>3, TurnGrades
    <2> QED BY <2>1, <2>4
  <1> QED BY <1>2, <1>14

(* A task is begun: with the level of the jump it comes from, with that    *)
(* the call found, or with none.                                           *)
LEMMA StartTaskGrades ==
  ASSUME JumpsAreLevel, Typed, Builds(body, tasks, at),
         Shaped(body, Has(body, tasks), tasks, at), StartTask
  PROVE  Grades(body', tasks', at')
  <1> DEFINE k == Head(tasks)
             u == Tail(tasks)
             os == SubSeq(body.ops[body.cur], 1, Len(body.ops[body.cur]) - k.roll)
             b == IF k.roll > 0
                  THEN [body EXCEPT !.ops = [body.ops EXCEPT ![body.cur] = os]]
                  ELSE [body EXCEPT !.cur = None]
             from == IF k.ref # 0 THEN GetRefOp(b, k.ref) ELSE b.last
             c == [b EXCEPT !.last = from]
             F == Has(body, tasks)
  <1>1. /\ body \in Body /\ tasks \in Seq(Task) /\ tasks # <<>> /\ at = 0
        /\ Tiled(body) /\ Mapped(body) /\ RollsOnce(tasks, 0) /\ Rests(body, tasks, 0)
    BY DEF Typed, StartTask, Builds
  <1>2. /\ u \in Seq(Task) /\ NoRoll(u) /\ k \in Task /\ k.at \in Addr
        /\ 1 \in 1 .. Len(tasks) /\ tasks[1] = k /\ k.roll \in {0, 2}
        /\ \A i \in 1 .. Len(tasks) : i = 1 \/ tasks[i].roll = 0
    BY <1>1, RestOfTasks
  <1>3. body' = c /\ tasks' = u /\ at' = k.at
    <2>1. k.roll > 0 => [body EXCEPT !.ops[body.cur] = SubSeq(@, 1, Len(@) - k.roll)]
                        = [body EXCEPT !.ops = [body.ops EXCEPT ![body.cur] = os]]
      BY <1>1 DEF Body
    <2> HIDE DEF k, os
    <2> QED BY <2>1 DEF StartTask, k
  <1>4. Has(body', tasks') = F BY StartTaskStep
  <1>5. Rolls(tasks) <=> k.roll > 0 BY <1>1 DEF Rolls
  <1>6. Upon(tasks, 0) = IF k.roll > 0 THEN k.at ELSE 0 BY <1>5 DEF Upon
  <1>7. k.at # 0 /\ Upon(u, k.at) = k.at BY <1>2, Bounds DEF Upon
  <1>8. Len(u) = Len(tasks) - 1 /\ \A i \in 1 .. Len(u) : u[i] = tasks[i + 1]
    BY <1>1
  <1> HIDE DEF k, u, os, F
  <1>9. /\ b.tree = body.tree /\ b.ref = body.ref /\ b.map = body.map
        /\ b.sin = body.sin /\ b.last = body.last
        /\ ~(k.roll > 0) => b = [body EXCEPT !.cur = None] /\ b.ops = body.ops /\ b.cur = None
    BY <1>1 DEF Body
  <1>10. /\ c.tree = body.tree /\ c.ref = body.ref /\ c.map = body.map
         /\ c.sin = body.sin /\ c.last = from
    BY <1>1 DEF Body
  <1> HIDE DEF c
  <1>11. Shaped(body, F, tasks, 0) BY <1>1 DEF F
  <1>12. F \subseteq Addr BY DEF F, Has
  <1>13. TasksAre(body, F, tasks, 0) BY <1>11 DEF Shaped
  <1>14. IF k.ref # 0 THEN k.roll = 0 /\ k.ref \in F /\ code[k.ref].kind \in Jumps
         ELSE k.roll = 0 => Len(tasks) = 1 /\ body.last = NoOp
    BY <1>2, <1>13 DEF TasksAre
  <1>15. \A i \in 1 .. Len(u) : /\ u[i].roll = 0 /\ u[i].ref # 0
                                /\ u[i].ref \in F /\ code[u[i].ref].kind \in Jumps
    <2> SUFFICES ASSUME NEW i \in 1 .. Len(u)
                 PROVE  /\ u[i].roll = 0 /\ u[i].ref # 0
                        /\ u[i].ref \in F /\ code[u[i].ref].kind \in Jumps
      OBVIOUS
    <2>1. i + 1 \in 1 .. Len(tasks) /\ i + 1 # 1 /\ Len(tasks) # 1 /\ u[i] = tasks[i + 1]
      BY <1>1, <1>8
    <2>2. u[i].roll = 0 BY <1>2, <2>1
    <2> QED BY <1>13, <2>1, <2>2 DEF TasksAre
  <1>16. ASSUME k.ref # 0
         PROVE  c.last = Last(Parts(k.ref)) /\ Level(c, c.last) = In(body, k.ref)
    <2>1. k.roll = 0 /\ k.ref \in F /\ code[k.ref].kind \in Jumps BY <1>14, <1>16
    <2>2. ~(k.roll > 0) BY <2>1
    <2>3. b \in Body /\ Tiled(b) /\ Mapped(b)
      <3>1. body.cur # None => Closed(body, body.cur) BY <1>1, <1>5, <2>2 DEF Rests
      <3>2. b \in Body BY <1>1, <1>9, <2>2 DEF Body
      <3>3. b.root = body.root /\ b.broken = body.broken BY <1>1, <1>9, <2>2 DEF Body
      <3> HIDE DEF b
      <3> QED BY <1>1, <1>9, <2>2, <3>1, <3>2, <3>3, TurnKeeps
    <2>4. Stops(b, F) BY <1>9, <1>11 DEF Shaped, Stops
    <2>5. F \subseteq WholeIn(b)
      <3>1. Contents(b) = Contents(body) BY <1>9, <2>2 DEF Contents
      <3> HIDE DEF b
      <3> QED BY <3>1 DEF WholeIn, F, Has
    <2>6. from = <<k.ref, 1>>
      <3> HIDE DEF b
      <3> QED BY <1>16, <2>1, <2>3, <2>4, <2>5, RefOpIsJump
    <2>7. Last(Parts(k.ref)) = <<k.ref, 1>> BY <1>12, <2>1, LastPart DEF Jumps
    <2>8. c.last = Last(Parts(k.ref)) BY <1>10, <2>6, <2>7
    <2>9. Level(c, c.last) = In(body, k.ref)
      <3> DEFINE o == <<k.ref, 1>>
      <3>1. k.ref \in Addr /\ code \in Programs BY <1>12, <2>1 DEF Typed
      <3>2. code[k.ref].by = 0 BY <2>1, <3>1 DEF JumpsAreLevel
      <3>3. o \in Op BY <3>1, PartsAreOps
      <3>4. body.sin[o] \in Int BY <1>1, <3>3 DEF Body
      <3>5. o[1] = k.ref /\ o[2] = 1 OBVIOUS
      <3>6. Level(c, c.last) = StackOut(o, body.sin[o]) BY <1>10, <2>6 DEF Level
      <3> HIDE DEF o
      <3>7. ~IsCall(o) BY <2>1, <3>5 DEF IsCall, Kind, Jumps
      <3>8. StackOut(o, body.sin[o]) = body.sin[o] + 0
        BY <2>1, <3>2, <3>5, <3>7 DEF StackOut, Kind, Jumps
      <3> QED BY <3>4, <3>6, <3>8 DEF o, In
    <2> QED BY <2>8, <2>9
  <1>17. k.ref = 0 => c.last = body.last BY <1>9, <1>10
  <1> HIDE DEF b, from
  <1>18. Shaped(c, F, u, k.at)
    <2>1. Stops(c, F) BY <1>10, <1>11 DEF Shaped, Stops
    <2>2. RefersOnly(c, F) BY <1>10, <1>11 DEF Shaped, RefersOnly
    <2>3. Paths(c) \subseteq Leading(F) BY <1>10, <1>11 DEF Shaped, Paths
    <2>4. GoesOn(F, Upon(u, k.at))
      <3>1. 0 \notin Addr BY Bounds
      <3> QED BY <1>6, <1>7, <1>11, <3>1 DEF Shaped, GoesOn
    <2>5. CallsKnown(c, F) BY <1>10, <1>11 DEF Shaped, CallsKnown, Level
    <2>6. Follows(c, F, Upon(u, k.at))
      <3>1. CASE k.ref # 0
        <4>1. k.ref \in F /\ c.last = Last(Parts(k.ref)) BY <1>14, <1>16, <3>1
        <4> QED BY <4>1 DEF Follows
      <3>2. CASE k.ref = 0 /\ k.roll = 0
        BY <1>14, <1>17, <3>2 DEF Follows
      <3>3. CASE k.ref = 0 /\ k.roll # 0
        <4>1. Upon(tasks, 0) = k.at BY <1>2, <1>6, <3>3
        <4> QED BY <1>7, <1>11, <1>17, <3>3, <4>1 DEF Shaped, Follows
      <3> QED BY <3>1, <3>2, <3>3
    <2>7. TasksAre(c, F, u, k.at) BY <1>15, TasksRefer
    <2> QED BY <2>1, <2>2, <2>3, <2>4, <2>5, <2>6, <2>7 DEF Shaped
  <1>19. ASSUME Levelled(body, F, tasks, 0),
                NEW v \in [Addr -> Int], Agrees(c, F, v), Brought(c, u, k.at, v)
         PROVE  JumpsMeet(c, F, v) /\ FallsMeet(c, F, v)
    <2>1. \A a : In(c, a) = In(body, a) /\ Past(c, a) = Past(body, a)
      BY <1>10 DEF In, Past, Level
    <2>2. Agrees(body, F, v) BY <1>19, <2>1 DEF Agrees
    <2>3. c.last # NoOp => v[k.at] = Level(c, c.last) BY <1>7, <1>19 DEF Brought
    <2>4. ASSUME NEW i \in 1 .. Len(tasks), tasks[i].ref # 0
          PROVE  v[tasks[i].at] = In(body, tasks[i].ref)
      <3>1. CASE i = 1
        <4>1. k.ref # 0 /\ tasks[i] = k BY <1>2, <2>4, <3>1
        <4>2. k.ref \in Addr BY <1>12, <1>14, <4>1
        <4>3. Last(Parts(k.ref)) # NoOp BY <4>2, PartsAreOps, NoOpIsNone
        <4> QED BY <1>16, <2>3, <4>1, <4>3
      <3>2. CASE i # 1
        <4>1. i - 1 \in 1 .. Len(u) /\ u[i - 1] = tasks[i] BY <1>1, <1>8, <3>2
        <4> QED BY <1>19, <2>1, <2>4, <4>1 DEF Brought
      <3> QED BY <3>1, <3>2
    <2>5. ASSUME Upon(tasks, 0) # 0, body.last # NoOp
          PROVE  v[Upon(tasks, 0)] = Level(body, body.last)
      <3>1. Upon(tasks, 0) = k.at /\ k.roll > 0 BY <1>6, <2>5
      <3>2. k.ref = 0 BY <1>14, <3>1
      <3>3. c.last = body.last BY <1>17, <3>2
      <3>4. Level(c, body.last) = Level(body, body.last) BY <1>10 DEF Level
      <3> QED BY <2>3, <2>5, <3>1, <3>3, <3>4
    <2>6. Brought(body, tasks, 0, v) BY <2>4, <2>5 DEF Brought
    <2>7. JumpsMeet(body, F, v) /\ FallsMeet(body, F, v) BY <1>19, <2>2, <2>6 DEF Levelled
    <2> QED BY <1>10, <2>1, <2>7 DEF JumpsMeet, FallsMeet
  <1>20. Levelled(body, F, tasks, 0) => Levelled(c, F, u, k.at) BY <1>19 DEF Levelled
  <1> QED BY <1>1, <1>3, <1>4, <1>18, <1>20 DEF Grades, F

-----------------------------------------------------------------------------
(* What the steps do is what holds after them: the code does not change,   *)
(* and the stub only while no call needs it.                               *)

SameCalls(F) == stub' = stub \/ \A a \in F : code[a].kind # "call"

LEMMA LevelNext ==
  ASSUME code' = code, NEW o, stub' = stub \/ ~IsCall(o)
  PROVE  Level(body, o)' = Level(body', o)
  <1>1. (Kind(o) = Kind(o)') /\ (IsCall(o) <=> IsCall(o)') BY DEF Kind, IsCall
  <1>2. CASE stub' = stub BY <1>2 DEF Level, StackOut, IsCall, Kind
  <1>3. CASE ~IsCall(o) BY <1>3 DEF Level, StackOut, IsCall, Kind
  <1> QED BY <1>2, <1>3

LEMMA PastNext ==
  ASSUME code' = code, NEW a \in Addr, stub' = stub \/ code[a].kind # "call"
  PROVE  In(body, a)' = In(body', a) /\ Past(body, a)' = Past(body', a)
  <1> DEFINE o == Last(Parts(a))
  <1>1. o' = o BY DEF Parts
  <1>2. o[1] = a BY LastPart
  <1>3. stub' = stub \/ ~IsCall(o) BY <1>2 DEF IsCall, Kind
  <1>4. \A w : (stub' = stub \/ ~IsCall(w)) => Level(body, w)' = Level(body', w)
    BY LevelNext
  <1> HIDE DEF o
  <1>5. Past(body, a)' = Past(body', a) BY <1>1, <1>3, <1>4 DEF Past, o, Level
  <1> QED BY <1>5 DEF In

LEMMA ShapedNext ==
  ASSUME code' = code, SameCalls(Has(body', tasks')), stub = None \/ stub' # None,
         Shaped(body', Has(body', tasks'), tasks', at')
  PROVE  Shaped(body, Has(body, tasks), tasks, at)'
  <1>1. Has(body, tasks)' = Has(body', tasks') BY HasNext
  <1>2. Has(body', tasks') \subseteq Addr BY DEF Has
  <1>3. Upon(tasks, at)' = Upon(tasks', at') BY DEF Upon, Rolls
  <1>4. Stops(body, Has(body, tasks))' BY <1>1 DEF Shaped, Stops
  <1>5. RefersOnly(body, Has(body, tasks))' BY <1>1 DEF Shaped, RefersOnly
  <1>6. (Paths(body) \subseteq Leading(Has(body, tasks)))'
    <2>1. Leading(Has(body, tasks))' = Leading(Has(body', tasks')) BY <1>1 DEF Leading, Succ
    <2> QED BY <2>1 DEF Shaped, Paths
  <1>7. GoesOn(Has(body, tasks), Upon(tasks, at))' BY <1>1, <1>3 DEF Shaped, GoesOn, Falls
  <1>8. CallsKnown(body, Has(body, tasks))'
    <2>1. ASSUME NEW a \in Has(body', tasks'), code[a].kind = "call"
          PROVE  stub' # None /\ body'.sin[<<a, 2>>] = Level(body, <<a, 1>>)'
      <3>1. stub # None /\ body'.sin[<<a, 2>>] = Level(body', <<a, 1>>)
        BY <2>1 DEF Shaped, CallsKnown
      <3>2. stub' # None /\ stub' = stub BY <2>1, <3>1 DEF SameCalls
      <3>3. Level(body, <<a, 1>>)' = Level(body', <<a, 1>>) BY <3>2, LevelNext
      <3> QED BY <3>1, <3>2, <3>3
    <2> QED BY <1>1, <2>1 DEF CallsKnown
  <1>9. Follows(body, Has(body, tasks), Upon(tasks, at))'
    <2>1. \A a : Parts(a)' = Parts(a) BY DEF Parts
    <2> QED BY <1>1, <1>3, <2>1 DEF Shaped, Follows
  <1>10. TasksAre(body, Has(body, tasks), tasks, at)' BY <1>1 DEF Shaped, TasksAre
  <1> QED BY <1>4, <1>5, <1>6, <1>7, <1>8, <1>9, <1>10 DEF Shaped

LEMMA LevelledNext ==
  ASSUME code' = code, SameCalls(Has(body', tasks')),
         Shaped(body', Has(body', tasks'), tasks', at'),
         Levelled(body', Has(body', tasks'), tasks', at')
  PROVE  Levelled(body, Has(body, tasks), tasks, at)'
  <1>1. Has(body, tasks)' = Has(body', tasks') BY HasNext
  <1>2. Upon(tasks, at)' = Upon(tasks', at') BY DEF Upon, Rolls
  <1>3. \A a \in Has(body', tasks') : a \in Addr /\ Past(body, a)' = Past(body', a)
    <2>1. ASSUME NEW a \in Has(body', tasks') PROVE a \in Addr /\ Past(body, a)' = Past(body', a)
      <3>1. a \in Addr BY DEF Has
      <3>2. stub' = stub \/ code[a].kind # "call" BY DEF SameCalls
      <3> QED BY <3>1, <3>2, PastNext
    <2> QED BY <2>1
  <1>4. \A a : In(body, a)' = In(body', a) BY DEF In
  <1>5. Upon(tasks', at') # 0 /\ body'.last # NoOp => Level(body, body.last)' = Level(body', body'.last)
    <2> SUFFICES ASSUME Upon(tasks', at') # 0, body'.last # NoOp
                 PROVE  Level(body, body.last)' = Level(body', body'.last)
      OBVIOUS
    <2>1. PICK c \in Has(body', tasks') : body'.last = Last(Parts(c)) BY DEF Shaped, Follows
    <2>2. Last(Parts(c))' = Last(Parts(c)) BY DEF Parts
    <2>3. Past(body, c)' = Past(body', c) BY <1>3
    <2> QED BY <2>1, <2>2, <2>3 DEF Past, Level
  <1>6. ASSUME NEW v \in [Addr -> Int],
               Agrees(body, Has(body, tasks), v)', Brought(body, tasks, at, v)'
        PROVE  JumpsMeet(body, Has(body, tasks), v)' /\ FallsMeet(body, Has(body, tasks), v)'
    <2>1. Agrees(body', Has(body', tasks'), v) BY <1>1, <1>4, <1>6 DEF Agrees
    <2>2. Brought(body', tasks', at', v) BY <1>2, <1>4, <1>5, <1>6 DEF Brought
    <2>3. JumpsMeet(body', Has(body', tasks'), v) /\ FallsMeet(body', Has(body', tasks'), v)
      BY <2>1, <2>2 DEF Levelled
    <2>4. JumpsMeet(body, Has(body, tasks), v)' BY <1>1, <1>4, <2>3 DEF JumpsMeet
    <2>5. FallsMeet(body, Has(body, tasks), v)' BY <1>1, <1>3, <2>3 DEF FallsMeet, Falls
    <2> QED BY <2>4, <2>5
  <1> QED BY <1>6 DEF Levelled

-----------------------------------------------------------------------------
(* The body that is handed on.                                             *)

(* Every path is generated, a jump ends it, and the levels agree.          *)
Settled(b) ==
    LET F == Has(b, <<>>)
        v == [a \in Addr |-> In(b, a)]
    IN  /\ Paths(b) \subseteq F
        /\ CallsKnown(b, F)
        /\ \A p \in Addr : \A o \in Range(b.ops[p]) : Kind(o) \in Turns => o = Last(b.ops[p])
        /\ JumpsMeet(b, F, v)
        /\ FallsMeet(b, F, v)

LEMMA SettledSame ==
  ASSUME NEW b, NEW c, Settled(b),
         c.tree = b.tree, c.ops = b.ops, c.ref = b.ref, c.sin = b.sin
  PROVE  Settled(c)
  <1> DEFINE F == Has(b, <<>>)
             v == [a \in Addr |-> In(b, a)]
             w == [a \in Addr |-> In(c, a)]
  <1>1. Has(c, <<>>) = F BY DEF Has, Contents
  <1>2. \A a : In(c, a) = In(b, a) /\ Past(c, a) = Past(b, a) BY DEF In, Past, Level
  <1>3. w = v BY <1>2
  <1>4. /\ Paths(b) \subseteq F /\ CallsKnown(b, F) /\ JumpsMeet(b, F, v) /\ FallsMeet(b, F, v)
        /\ \A p \in Addr : \A o \in Range(b.ops[p]) : Kind(o) \in Turns => o = Last(b.ops[p])
    BY DEF Settled
  <1> HIDE DEF F, v, w
  <1>5. Paths(c) \subseteq F BY <1>4 DEF Paths
  <1>6. CallsKnown(c, F) BY <1>4 DEF CallsKnown, Level
  <1>7. JumpsMeet(c, F, v) BY <1>2, <1>4 DEF JumpsMeet
  <1>8. FallsMeet(c, F, v) BY <1>2, <1>4 DEF FallsMeet
  <1>9. \A p \in Addr : \A o \in Range(c.ops[p]) : Kind(o) \in Turns => o = Last(c.ops[p])
    BY <1>4
  <1> QED BY <1>1, <1>3, <1>5, <1>6, <1>7, <1>8, <1>9 DEF Settled, F, w

(* The generation is done: nothing waits, so what follows holds.           *)
LEMMA DoneSettles ==
  ASSUME Typed, Tiled(body), Mapped(body), Complete(body),
         Shaped(body, Has(body, <<>>), <<>>, 0), Levelled(body, Has(body, <<>>), <<>>, 0)
  PROVE  Settled(body)
  <1> DEFINE F == Has(body, <<>>)
             v == [a \in Addr |-> In(body, a)]
  <1>1. body \in Body BY DEF Typed
  <1>2. Paths(body) \subseteq F BY DEF Shaped, Complete
  <1>3. CallsKnown(body, F) /\ Stops(body, F) BY DEF Shaped
  <1>4. v \in [Addr -> Int]
    <2>1. ASSUME NEW a \in Addr PROVE In(body, a) \in Int
      <3> DEFINE o == <<a, 1>>
      <3>1. o \in Op BY PartsAreOps
      <3> HIDE DEF o
      <3>2. body.sin[o] \in Int BY <1>1, <3>1 DEF Body
      <3> QED BY <3>2 DEF In, o
    <2> QED BY <2>1
  <1>5. F \subseteq Addr BY DEF Has
  <1>6. Agrees(body, F, v) BY <1>5 DEF Agrees
  <1>7. Brought(body, <<>>, 0, v) BY DEF Brought, Upon, Rolls
  <1>8. JumpsMeet(body, F, v) /\ FallsMeet(body, F, v)
    <2> HIDE DEF v
    <2> QED BY <1>4, <1>6, <1>7 DEF Levelled
  <1>9. ASSUME NEW p \in Addr, NEW o \in Range(body.ops[p]), Kind(o) \in Turns
        PROVE  o = Last(body.ops[p])
    <2>1. body.ops[p] \in Seq(Op) /\ body.ops[p] # <<>>
      <3>1. Range(<<>>) = {} BY DEF Range
      <3> QED BY <1>1, <3>1, BodyFields
    <2>2. p \in Paths(body) /\ IsRun(p, body.ops[p]) BY <2>1 DEF Tiled
    <2>3. PICK i \in 1 .. Len(body.ops[p]) : body.ops[p][i] = o
      <3>1. \A e \in Range(body.ops[p]) : \E i \in 1 .. Len(body.ops[p]) : body.ops[p][i] = e
        BY <2>1, RangeFacts
      <3> QED BY <3>1
    <2>4. IsPart(o) /\ o \in Op BY <2>1, <2>2, <2>3, RunAscends, RunSteps
    <2>5. o = <<o[1], 1>> /\ o[1] \in Addr BY <1>9, <2>4, OpPair DEF IsPart, Turns, Kind
    <2>6. o = Last(Parts(o[1])) BY <1>9, <2>5, LastPart DEF Turns, Kind
    <2>7. o[1] \in F
      <3>1. o \in Contents(body) BY DEF Contents
      <3> QED BY <2>5, <2>6, <3>1 DEF Has
    <2> HIDE DEF F
    <2> QED BY <1>1, <1>3, <1>9, <2>7, JumpEnds
  <1> QED BY <1>2, <1>3, <1>8, <1>9 DEF Settled

LEMMA SettledNext ==
  ASSUME code' = code, SameCalls(Has(body', <<>>)), stub = None \/ stub' # None, Settled(body')
  PROVE  Settled(body)'
  <1>1. Has(body, <<>>)' = Has(body', <<>>) BY DEF Has, Contents, Parts
  <1>2. Has(body', <<>>) \subseteq Addr BY DEF Has
  <1>3. [a \in Addr |-> In(body, a)]' = [a \in Addr |-> In(body', a)] BY DEF In
  <1>4. \A a \in Has(body', <<>>) : Past(body, a)' = Past(body', a)
    <2>1. ASSUME NEW a \in Has(body', <<>>) PROVE Past(body, a)' = Past(body', a)
      <3>1. stub' = stub \/ code[a].kind # "call" BY DEF SameCalls
      <3> QED BY <1>2, <3>1, PastNext
    <2> QED BY <2>1
  <1>5. (Paths(body) \subseteq Has(body, <<>>))' BY <1>1 DEF Settled, Paths
  <1>6. CallsKnown(body, Has(body, <<>>))'
    <2>1. ASSUME NEW a \in Has(body', <<>>), code[a].kind = "call"
          PROVE  stub' # None /\ body'.sin[<<a, 2>>] = Level(body, <<a, 1>>)'
      <3>1. stub # None /\ body'.sin[<<a, 2>>] = Level(body', <<a, 1>>)
        BY <2>1 DEF Settled, CallsKnown
      <3>2. stub' # None /\ stub' = stub BY <2>1, <3>1 DEF SameCalls
      <3>3. Level(body, <<a, 1>>)' = Level(body', <<a, 1>>) BY <3>2, LevelNext
      <3> QED BY <3>1, <3>2, <3>3
    <2> QED BY <1>1, <2>1 DEF CallsKnown
  <1>7. (\A p \in Addr : \A o \in Range(body.ops[p]) : Kind(o) \in Turns => o = Last(body.ops[p]))'
    BY DEF Settled, Kind
  <1>8. JumpsMeet(body, Has(body, <<>>), [a \in Addr |-> In(body, a)])'
    <2>1. JumpsMeet(body', Has(body', <<>>), [a \in Addr |-> In(body', a)]) BY DEF Settled
    <2> QED BY <1>1, <1>3, <2>1 DEF JumpsMeet, In
  <1>9. FallsMeet(body, Has(body, <<>>), [a \in Addr |-> In(body, a)])'
    <2>1. FallsMeet(body', Has(body', <<>>), [a \in Addr |-> In(body', a)]) BY DEF Settled
    <2> QED BY <1>1, <1>3, <1>4, <2>1 DEF FallsMeet, Falls
  <1> QED BY <1>5, <1>6, <1>7, <1>8, <1>9 DEF Settled

-----------------------------------------------------------------------------
(* The steps.                                                              *)

(* While the body is generated the levels follow; when it has been, they   *)
(* agree.                                                                  *)
Graded ==
    Gen /\ ~body.broken =>
        /\ Shaped(body, Has(body, tasks), tasks, at)
        /\ status # Error => Levelled(body, Has(body, tasks), tasks, at)

HandedOn == ~redo /\ ~Gen /\ body.root /\ ~cut /\ ~body.broken /\ status # Error

LevelInv == Graded /\ (HandedOn => Settled(body))

LEMMA BuildingGrades ==
  ASSUME JumpsAreLevel, IInv, Graded, Building
  PROVE  Graded'
  <1>1. /\ Gen /\ ~body.broken /\ Builds(body, tasks, at)
        /\ UNCHANGED <<code, stub, active, stage, redo, flow, resume, redone, cut>>
    BY BuildingIs
  <1>2. Typed /\ at \in Addr \cup {0} BY DEF IInv, Typed
  <1>3. /\ Shaped(body, Has(body, tasks), tasks, at)
        /\ status # Error => Levelled(body, Has(body, tasks), tasks, at)
    BY <1>1 DEF Graded
  <1>4. status' # Error => status # Error BY GenerationIsWithin DEF Building, Stays
  <1>5. Grades(body', tasks', at')
    <2>1. CASE StartTask BY <1>1, <1>2, <1>3, <2>1, StartTaskGrades
    <2>2. CASE RunInto
      <3>1. at \in Addr BY <1>2, <2>2 DEF RunInto
      <3> QED BY <1>1, <1>2, <1>3, <2>2, <3>1, RunIntoGrades
    <2>3. CASE CallUnknown
      <3>1. at \in Addr BY <1>2, <2>3 DEF CallUnknown
      <3> QED BY <1>1, <1>2, <1>3, <2>3, <3>1, CallUnknownGrades
    <2>4. CASE Straight
      <3>1. at \in Addr BY <1>2, <2>4 DEF Straight
      <3> QED BY <1>1, <1>2, <1>3, <2>4, <3>1, StraightGrades
    <2>5. CASE Jump
      <3>1. at \in Addr BY <1>2, <2>5 DEF Jump
      <3> QED BY <1>1, <1>2, <1>3, <2>5, <3>1, JumpGrades
    <2>6. CASE Return
      <3>1. at \in Addr BY <1>2, <2>6 DEF Return
      <3> QED BY <1>1, <1>2, <1>3, <2>6, <3>1, ReturnGrades
    <2> QED BY <2>1, <2>2, <2>3, <2>4, <2>5, <2>6 DEF Building
  <1>6. SameCalls(Has(body', tasks')) /\ (stub = None \/ stub' # None)
    BY <1>1 DEF SameCalls
  <1>7. ~body'.broken => Shaped(body, Has(body, tasks), tasks, at)'
    BY <1>1, <1>5, <1>6, ShapedNext DEF Grades
  <1>8. ~body'.broken /\ status' # Error => Levelled(body, Has(body, tasks), tasks, at)'
    BY <1>1, <1>3, <1>4, <1>5, <1>6, LevelledNext DEF Grades
  <1> QED BY <1>7, <1>8 DEF Graded

LEMMA GenerateDoneSettles ==
  ASSUME IInv, Graded, GenerateDone, status' # Error, ~body'.broken
  PROVE  Settled(body)'
  <1>1. /\ Gen /\ ~body.broken /\ at = 0 /\ tasks = <<>> /\ body' = Forget(body)
        /\ UNCHANGED <<code, stub>> /\ StageDone(status)
    BY DEF GenerateDone, Generating, Gen
  <1>2. status # Error BY <1>1 DEF StageDone
  <1>3. Typed /\ Builds(body, <<>>, 0) BY <1>1 DEF IInv, InOrder
  <1>4. /\ Shaped(body, Has(body, <<>>), <<>>, 0) /\ Levelled(body, Has(body, <<>>), <<>>, 0)
    BY <1>1, <1>2 DEF Graded
  <1>5. Complete(body)
    <2>1. Waits(<<>>, 0) = {} BY DEF Waits
    <2>2. Covers(body, <<>>, 0) BY <1>3 DEF Builds
    <2> QED BY <2>1, <2>2 DEF Covers, Complete
  <1>6. Settled(body) BY <1>3, <1>4, <1>5, DoneSettles DEF Builds
  <1>7. body'.tree = body.tree /\ body'.ops = body.ops /\ body'.ref = body.ref /\ body'.sin = body.sin
    BY <1>1, <1>3 DEF Forget, EmptyBody, Typed, Body
  <1>8. Settled(body') BY <1>6, <1>7, SettledSame
  <1> QED BY <1>1, <1>8, SettledNext DEF SameCalls

(* Steps after the generation, and of the user, that leave the body alone. *)
LEMMA LaterSettles ==
  ASSUME IInv, HandedOn => Settled(body), LaterStage \/ FinalStage \/ Finish \/ Stop, HandedOn'
  PROVE  Settled(body)'
  <1>1. UNCHANGED <<code, stub, redo>> /\ ~redo BY DEF LaterStage, FinalStage, Finish, Stop, Close, HandedOn
  <1>2. Typed /\ Life BY DEF IInv
  <1>3. /\ body'.tree = body.tree /\ body'.ops = body.ops /\ body'.ref = body.ref
        /\ body'.sin = body.sin /\ body'.root = body.root /\ body'.broken = body.broken
    <2>1. body' = body \/ body' = Forget(body) BY DEF LaterStage, FinalStage, Finish, Stop
    <2> QED BY <1>2, <2>1 DEF Forget, EmptyBody, Typed, Body
  <1>4. ~cut /\ ~Gen
    <2>1. CASE Stop BY <1>1, <2>1 DEF Stop, HandedOn, Gen
    <2>2. CASE LaterStage \/ FinalStage \/ Finish
      <3>1. stage # 1 BY <2>2, PipelineLength DEF LaterStage, FinalStage, Finish
      <3> QED BY <2>2, <3>1 DEF LaterStage, FinalStage, Finish, HandedOn, Gen
    <2> QED BY <2>1, <2>2
  <1>5. status # Error
    <2>1. CASE Finish \/ Stop BY <2>1 DEF Finish, Stop, Close, HandedOn, Finished, Error, Raised
    <2>2. CASE LaterStage \/ FinalStage
      <3>1. stage \in 2 .. Stages /\ stage # 1 /\ active
        BY <2>2, PipelineLength DEF LaterStage, FinalStage
      <3> QED BY <1>2, <3>1 DEF Life, StatusFits, Phase2, Error
    <2> QED BY <2>1, <2>2
  <1>6. HandedOn BY <1>1, <1>3, <1>4, <1>5 DEF HandedOn
  <1>7. Settled(body') BY <1>3, <1>6, SettledSame
  <1> QED BY <1>1, <1>7, SettledNext DEF SameCalls

(* The first task: nothing is there, and nothing comes from anywhere.      *)
LEMMA FirstGrades ==
  ASSUME IInv, Decompile, Gen'
  PROVE  Graded'
  <1> DEFINE b == [EmptyBody EXCEPT !.root = TRUE]
  <1>1. /\ ~body.root /\ UNCHANGED <<code, stub, at>> /\ ~active
        /\ body' = [body EXCEPT !.root = TRUE] /\ tasks' = First
    BY DEF Decompile, Gen, First
  <1>2. Placed BY DEF IInv
  <1>3. body' = b /\ at' = 0 BY <1>1, <1>2 DEF Placed, Gen
  <1>4. /\ b \in Body /\ Tiled(b) /\ Mapped(b) /\ b.cur = None /\ Contents(b) = {}
    BY EmptyBodyIs
  <1>5. b.tree = <<>> /\ b.ref = [a \in Addr |-> None] /\ b.last = NoOp
    BY <1>4 DEF EmptyBody, Body
  <1> HIDE DEF b
  <1>6. Has(b, First) = {} BY <1>4, BuildsFirst
  <1>7. /\ First[1].ref = 0 /\ Len(First) = 1 /\ First \in Seq(Task) /\ ~Rolls(First)
    <2>1. First[1].ref = 0 /\ First[1].roll = 0 /\ Len(First) = 1 BY DEF First
    <2>2. First \in Seq(Task) BY <1>4, BuildsFirst
    <2>3. NoRoll(First) BY <2>1 DEF NoRoll
    <2> QED BY <2>1, <2>2, <2>3, NoRollMore
  <1>8. Upon(First, 0) = 0 BY <1>7 DEF Upon
  <1>9. Paths(b) = {}
    <2>1. Range(<<>>) = {} BY DEF Range
    <2> QED BY <1>5, <2>1 DEF Paths
  <1>10. Shaped(b, {}, First, 0)
    <2>1. Stops(b, {}) /\ RefersOnly(b, {}) /\ GoesOn({}, 0) /\ CallsKnown(b, {})
      BY <1>5 DEF Stops, RefersOnly, GoesOn, CallsKnown
    <2>2. Follows(b, {}, 0) BY DEF Follows
    <2>3. TasksAre(b, {}, First, 0) BY <1>5, <1>7 DEF TasksAre
    <2> QED BY <1>8, <1>9, <2>1, <2>2, <2>3 DEF Shaped
  <1>11. Levelled(b, {}, First, 0) BY DEF Levelled, JumpsMeet, FallsMeet
  <1>12. SameCalls(Has(body', tasks')) /\ (stub = None \/ stub' # None)
    BY <1>1 DEF SameCalls
  <1>13. Shaped(body', Has(body', tasks'), tasks', at') BY <1>1, <1>3, <1>6, <1>10
  <1>14. Levelled(body', Has(body', tasks'), tasks', at') BY <1>1, <1>3, <1>6, <1>11
  <1>15. Shaped(body, Has(body, tasks), tasks, at)' BY <1>1, <1>12, <1>13, ShapedNext
  <1>16. Levelled(body, Has(body, tasks), tasks, at)' BY <1>1, <1>12, <1>13, <1>14, LevelledNext
  <1> QED BY <1>15, <1>16 DEF Graded

(* A stub is supplied when no call has been generated for want of it.      *)
LEMMA AsideLevels ==
  ASSUME LevelInv, SupplyStub \/ Resume \/ UNCHANGED vars
  PROVE  LevelInv'
  <1>1. /\ UNCHANGED <<code, body, status, active, stage, redo, at, tasks, cut>>
        /\ stub' = stub \/ stub = None
        /\ stub = None \/ stub' # None
    <2>1. CASE SupplyStub
      BY <2>1 DEF SupplyStub, funcVars, lifeVars, genVars
    <2>2. CASE Resume \/ UNCHANGED vars
      BY <2>2 DEF Resume, vars, funcVars, lifeVars, genVars
    <2> QED BY <2>1, <2>2
  <1>2. (Gen' <=> Gen) /\ (HandedOn' <=> HandedOn) BY <1>1 DEF Gen, HandedOn
  <1>3. Graded'
    <2> SUFFICES ASSUME Gen, ~body.broken
                 PROVE  /\ Shaped(body, Has(body, tasks), tasks, at)'
                        /\ status # Error => Levelled(body, Has(body, tasks), tasks, at)'
      BY <1>1, <1>2 DEF Graded
    <2>1. /\ Shaped(body, Has(body, tasks), tasks, at)
          /\ status # Error => Levelled(body, Has(body, tasks), tasks, at)
      BY DEF LevelInv, Graded
    <2>2. SameCalls(Has(body, tasks)) BY <1>1, <2>1 DEF SameCalls, Shaped, CallsKnown
    <2>3. Shaped(body, Has(body, tasks), tasks, at)' BY <1>1, <2>1, <2>2, ShapedNext
    <2>4. status # Error => Levelled(body, Has(body, tasks), tasks, at)'
      BY <1>1, <2>1, <2>2, LevelledNext
    <2> QED BY <2>3, <2>4
  <1>4. HandedOn => Settled(body)'
    <2> SUFFICES ASSUME HandedOn PROVE Settled(body)'
      OBVIOUS
    <2>1. Settled(body) BY DEF LevelInv
    <2>2. SameCalls(Has(body, <<>>)) BY <1>1, <2>1 DEF SameCalls, Settled, CallsKnown
    <2> QED BY <1>1, <2>1, <2>2, SettledNext
  <1> QED BY <1>2, <1>3, <1>4 DEF LevelInv

LEMMA InitLevels == Init => LevelInv
  BY DEF Init, LevelInv, Graded, HandedOn, Gen, EmptyBody

LEMMA NextLevels ==
  ASSUME JumpsAreLevel, IInv, LevelInv, [Next]_vars
  PROVE  LevelInv'
  <1>1. CASE Building
    <2>1. Graded' BY <1>1, BuildingGrades DEF LevelInv
    <2>2. Gen' BY <1>1, BuildingIs DEF Gen
    <2> QED BY <2>1, <2>2 DEF LevelInv, HandedOn
  <1>2. CASE GenerateDone
    <2>1. ~Gen'
      <3>1. Life /\ stage \in 1 .. Stages /\ StageDone(status)
        BY <1>2, PipelineLength DEF GenerateDone, Generating, IInv
      <3>2. stage' \in 2 .. Stages + 1 BY <3>1, StageDoneIs
      <3> QED BY <3>2, LaterIs
    <2>2. HandedOn' => Settled(body)' BY <1>2, GenerateDoneSettles DEF LevelInv, HandedOn
    <2> QED BY <2>1, <2>2 DEF LevelInv, Graded
  <1>3. CASE FlowDone \/ Drop \/ Analyze
    <2>1. redo /\ redo' = redo
      <3>1. CASE FlowDone BY <3>1 DEF FlowDone, Analyzing
      <3>2. CASE Drop BY <3>2 DEF Drop, Analyzing, lifeVars
      <3>3. CASE Analyze BY <3>3 DEF Analyze, Analyzing
      <3> QED BY <1>3, <3>1, <3>2, <3>3
    <2> QED BY <2>1 DEF LevelInv, Graded, HandedOn, Gen
  <1>4. CASE LaterStage \/ FinalStage \/ Finish \/ Stop
    <2>1. ~Gen'
      <3>1. CASE Finish \/ Stop BY <3>1 DEF Finish, Stop, Close, Gen
      <3>2. CASE LaterStage \/ FinalStage
        <4>1. Life /\ stage \in 1 .. Stages BY <3>2, PipelineLength DEF LaterStage, FinalStage, IInv
        <4>2. \/ StageDone(status) \/ StageDone(Error) \/ StageDone(Finished)
              \/ stage' = Stages + 1
          BY <3>2 DEF LaterStage, FinalStage
        <4>3. stage' \in 2 .. Stages + 1 BY <4>1, <4>2, StageDoneIs, PipelineLength
        <4> QED BY <4>3, LaterIs
      <3> QED BY <1>4, <3>1, <3>2
    <2>2. HandedOn' => Settled(body)' BY <1>4, LaterSettles DEF LevelInv
    <2> QED BY <2>1, <2>2 DEF LevelInv, Graded
  <1>5. CASE Decompile
    <2>1. active' /\ stage' = 1 BY <1>5 DEF Decompile
    <2>2. ~HandedOn' BY <2>1 DEF HandedOn, Gen
    <2>3. Gen' => Graded' BY <1>5, FirstGrades
    <2> QED BY <2>2, <2>3 DEF LevelInv, Graded
  <1>6. CASE Purge
    <2>1. ~active' /\ body' = EmptyBody BY <1>6 DEF Purge, lifeVars
    <2>2. ~body'.root BY <2>1, EmptyBodyIs
    <2> QED BY <2>1, <2>2 DEF LevelInv, Graded, HandedOn, Gen
  <1>7. CASE SupplyStub \/ Resume \/ UNCHANGED vars BY <1>7, AsideLevels
  <1> QED
    BY <1>1, <1>2, <1>3, <1>4, <1>5, <1>6, <1>7
    DEF Next, Core, User, Generation, Analysis, Building

(* Within a path.                                                          *)
LEMMA AlongAgrees ==
  ASSUME body \in Body, Tiled(body), Complete(body), Settled(body),
         NEW p \in Paths(body), NEW i \in 1 .. Len(body.ops[p]) - 1
  PROVE  body.sin[body.ops[p][i + 1]] = Level(body, body.ops[p][i])
  <1> DEFINE s == body.ops[p]
             o == s[i]
             r == s[i + 1]
             a == o[1]
             F == Has(body, <<>>)
             v == [x \in Addr |-> In(body, x)]
  <1>1. p \in Addr /\ s \in Seq(Op) /\ IsRun(p, s) BY BodyFields DEF Tiled
  <1>2. s # <<>> /\ Len(s) \in Nat BY <1>1
  <1>3. i \in 1 .. Len(s) /\ i + 1 \in 1 .. Len(s) BY <1>2
  <1>4. o \in Op /\ r \in Op /\ r = NextOp(o) /\ Last(s) = s[Len(s)] BY <1>1, <1>2, <1>3, RunSteps
  <1>5. IsPart(o) /\ Behind(o, s[Len(s)]) BY <1>1, <1>2, <1>3, RunAscends
  <1>6. o \in Range(s) /\ r \in Range(s) BY <1>1, <1>3, RangeFacts
  <1>7. /\ CallsKnown(body, F) /\ FallsMeet(body, F, v)
        /\ \A w \in Range(body.ops[p]) : Kind(w) \in Turns => w = Last(body.ops[p])
    BY <1>1 DEF Settled
  <1>8. a \in Addr /\ o = <<a, o[2]>> /\ o[2] \in {1, 2} BY <1>4, OpPair
  <1>9. Last(Parts(a)) = IF code[a].kind = "call" THEN <<a, 2>> ELSE <<a, 1>> BY LastPart
  <1>10. Last(Parts(a)) \in Range(s) => a \in F
    BY <1>1, <1>8 DEF Has, Contents
  <1>11. Kind(o) = code[a].kind BY DEF Kind
  <1> HIDE DEF F
  <1>12. CASE o # Last(Parts(a))
    <2>1. r = <<a, 2>> BY <1>4, <1>12, NextOpOf
    <2>2. code[a].kind = "call" /\ o = <<a, 1>>
      <3>1. code[a].kind = "call" \/ o = <<a, 1>> BY <1>5, <1>8 DEF IsPart, Kind
      <3> QED BY <1>8, <1>9, <1>12, <3>1
    <2>3. a \in F BY <1>6, <1>9, <1>10, <2>1, <2>2
    <2>4. body.sin[<<a, 2>>] = Level(body, <<a, 1>>) BY <1>7, <2>2, <2>3 DEF CallsKnown
    <2> QED BY <2>1, <2>2, <2>4
  <1>13. CASE o = Last(Parts(a))
    <2>1. r = <<a + 1, 1>> BY <1>4, <1>13, NextOpOf
    <2>2. a + 1 \in Addr
      <3>1. r[1] = a + 1 BY <2>1
      <3> QED BY <1>4, <3>1, OpPair
    <2>3. a \in F BY <1>6, <1>10, <1>13
    <2>4. Kind(o) \notin Turns
      <3> SUFFICES ASSUME Kind(o) \in Turns PROVE FALSE
        OBVIOUS
      <3>1. o = s[Len(s)] BY <1>4, <1>6, <1>7
      <3> HIDE DEF o
      <3>2. o \in Op BY <1>4
      <3>3. Behind(o, o) BY <1>5, <3>1
      <3> QED BY <3>2, <3>3, OpPair, Bounds DEF Behind
    <2>5. Falls(a) BY <1>11, <2>4 DEF Falls, Turns
    <2>6. v[a + 1] = Past(body, a) BY <1>7, <2>2, <2>3, <2>5 DEF FallsMeet
    <2>7. v[a + 1] = In(body, a + 1) BY <2>2
    <2>8. Past(body, a) = Level(body, o) BY <1>13 DEF Past
    <2> QED BY <2>1, <2>6, <2>7, <2>8 DEF In
  <1> QED BY <1>12, <1>13

(* From a path to the one after it in the code.                            *)
LEMMA NextFollowsOn ==
  ASSUME body \in Body, Tiled(body), Complete(body), Settled(body),
         NEW p \in Paths(body), NEW a \in Has(body, <<>>), EndOf(body, p) = a + 1, p <= a, Falls(a),
         NEW q \in Addr, q = NextPath(body, p), body.ops[q] # <<>>
  PROVE  q = a + 1
  <1> DEFINE F == Has(body, <<>>)
  <1>1. a \in Addr /\ p \in Addr BY BodyFields DEF Has
  <1>2. q \in Paths(body) /\ p < q /\ \A r \in Paths(body) : r <= p \/ q <= r
    <2>1. Ordered(body.tree) BY DEF Tiled
    <2>2. q \in Paths(body) BY EndsInWhole
    <2> QED BY <2>1, <2>2, NextIsNext
  <1>3. a + 1 <= q BY <1>2 DEF Tiled
  <1>4. a + 1 \in Addr BY <1>1, <1>3, Bounds
  <1>5. a + 1 \in Succ(a) BY DEF Falls, Succ
  <1>6. a + 1 \in F BY <1>4, <1>5 DEF Complete, Leading
  <1>7. a + 1 \in WholeIn(body) BY <1>6 DEF WholeIn, Has
  <1>8. PICK r \in Paths(body) : r <= a + 1 /\ a + 1 < EndOf(body, r) BY <1>7, InWhole
  <1>9. r \in Addr /\ EndOf(body, r) \in Int BY <1>8, EndOfBounds, Bounds
  <1>10. r # p BY <1>1, <1>8, Bounds
  <1>11. ~(r < p)
    <2> SUFFICES ASSUME r < p PROVE FALSE
      OBVIOUS
    <2>1. EndOf(body, r) <= p BY <1>8 DEF Tiled
    <2> QED BY <1>1, <1>8, <1>9, <2>1, Bounds
  <1>12. q <= r BY <1>1, <1>2, <1>8, <1>9, <1>10, <1>11, Bounds
  <1> QED BY <1>1, <1>3, <1>8, <1>9, <1>12, Bounds

(* From a path to where its way leads.                                     *)
LEMMA AcrossAgrees ==
  ASSUME JumpsAreLevel, code \in Programs,
         body \in Body, Tiled(body), Complete(body), Settled(body),
         NEW p \in Paths(body), Kind(TailOp(body, p)) # "ret",
         NEW q, HeadOp(body, q) # NoOp,
         \/ q = GotoPath(body, p) /\ BlockType(body, p) \in {"jmp", "jif"}
         \/ q = NextPath(body, p) /\ BlockType(body, p) \in {"null", "jif"}
  PROVE  body.sin[HeadOp(body, q)] = Level(body, TailOp(body, p))
  <1> DEFINE F == Has(body, <<>>)
             v == [x \in Addr |-> In(body, x)]
             o == TailOp(body, p)
             a == o[1]
  <1>1. p \in Addr /\ p \in F BY BodyFields DEF Settled
  <1>2. body.ops[p] # <<>>
    <2>1. p \in WholeIn(body) BY <1>1 DEF WholeIn, Has
    <2>2. PICK r \in Paths(body) : body.ops[r] # <<>> /\ r <= p /\ p < EndOf(body, r)
      BY <2>1, InWhole
    <2>3. r \in Addr BY <2>2, EndOfBounds
    <2>4. ~(r < p)
      <3> SUFFICES ASSUME r < p PROVE FALSE
        OBVIOUS
      <3>1. EndOf(body, r) <= p /\ EndOf(body, r) \in Int BY <2>2, EndOfBounds, Bounds DEF Tiled
      <3> QED BY <1>1, <2>2, <3>1, Bounds
    <2>5. r = p BY <1>1, <2>2, <2>3, <2>4, Bounds
    <2> QED BY <2>2, <2>5
  <1>3. /\ a \in WholeIn(body) /\ o = Last(Parts(a)) /\ o # NoOp /\ EndOf(body, p) = a + 1
    BY <1>1, <1>2, EndsInWhole
  <1>4. a \in F /\ a \in Addr BY <1>3 DEF WholeIn, Has
  <1>5. p <= a
    <2>1. p < EndOf(body, p) BY <1>2, EndOfBounds
    <2> QED BY <1>1, <1>3, <1>4, <2>1, Bounds
  <1>6. Kind(o) = code[a].kind /\ code[a].kind \in {"op", "set", "call", "jmp", "jif", "ret"}
    <2>1. code[a] \in Instr BY <1>4, CodeIs
    <2> QED BY <2>1 DEF Kind, Instr
  <1>7. p # Exit BY <1>1, Bounds
  <1>8. /\ BlockType(body, p) = "jmp" <=> code[a].kind \in {"jmp", "ret"}
        /\ BlockType(body, p) = "jif" <=> code[a].kind = "jif"
    BY <1>3, <1>6, <1>7 DEF BlockType
  <1>9. q \in Addr /\ body.ops[q] # <<>> /\ HeadOp(body, q) = <<q, 1>>
    BY HeadIs, EndsInWhole
  <1>10. JumpsMeet(body, F, v) /\ FallsMeet(body, F, v) BY DEF Settled
  <1>11. v[q] = body.sin[HeadOp(body, q)] BY <1>9 DEF In
  <1>12. CASE q = GotoPath(body, p) /\ BlockType(body, p) \in {"jmp", "jif"}
    <2>1. code[a].kind \in Jumps BY <1>6, <1>8, <1>12 DEF Jumps
    <2>2. body.ref[a] = q BY <1>12 DEF GotoPath
    <2>3. v[q] = In(body, a) BY <1>4, <1>9, <1>10, <2>1, <2>2 DEF JumpsMeet
    <2>4. o = <<a, 1>> BY <1>3, <2>1, LastPart DEF Jumps
    <2>5. code[a].by = 0 BY <1>4, <2>1 DEF JumpsAreLevel
    <2> HIDE DEF o
    <2>6. o \in Op /\ body.sin[o] \in Int
      <3>1. o \in Op BY <1>4, <2>4, PartsAreOps
      <3> QED BY <3>1 DEF Body
    <2>7. ~IsCall(o) BY <1>6, <2>1 DEF IsCall, Jumps
    <2>8. StackOut(o, body.sin[o]) = body.sin[o] + 0
      BY <1>6, <2>1, <2>5, <2>7 DEF StackOut, Jumps
    <2>9. Level(body, o) = body.sin[o] BY <2>6, <2>8 DEF Level
    <2> QED BY <1>11, <2>3, <2>4, <2>9 DEF In, o
  <1>13. CASE q = NextPath(body, p) /\ BlockType(body, p) \in {"null", "jif"}
    <2>1. Falls(a) BY <1>6, <1>8, <1>13 DEF Falls
    <2>2. q = a + 1 BY <1>3, <1>4, <1>5, <1>9, <1>13, <2>1, NextFollowsOn
    <2>3. v[q] = Past(body, a) BY <1>4, <1>9, <1>10, <2>1, <2>2 DEF FallsMeet
    <2> QED BY <1>3, <1>11, <2>3 DEF Past
  <1> QED BY <1>12, <1>13

LEMMA WaysAre ==
  ASSUME NEW p \in Paths(body), NEW w \in Range(Ways(p))
  PROVE  \/ w.path = GotoPath(body, p) /\ BlockType(body, p) \in {"jmp", "jif"}
         \/ w.path = NextPath(body, p) /\ BlockType(body, p) \in {"null", "jif"}
  <1> DEFINE g == GotoPath(body, p)
             n == NextPath(body, p)
             on(q) == IF q = None THEN <<>> ELSE <<[path |-> q, from |-> p]>>
  <1>1. BlockType(body, p) \in {"null", "jmp", "jif"}
    <2>1. p # Exit BY DEF Paths
    <2> QED BY <2>1 DEF BlockType
  <1>2. \A q : \A x \in Range(on(q)) : x.path = q
    <2>1. Range(<<>>) = {} BY DEF Range
    <2>2. \A e : Range(<<e>>) = {e} BY DEF Range
    <2> QED BY <2>1, <2>2
  <1>3. CASE BlockType(body, p) = "jmp"
    <2>1. Ways(p) = <<[path |-> g, from |-> p]>> BY <1>3 DEF Ways
    <2>2. Range(<<[path |-> g, from |-> p]>>) = {[path |-> g, from |-> p]} BY DEF Range
    <2> QED BY <1>3, <2>1, <2>2
  <1>4. CASE BlockType(body, p) = "null"
    <2>1. Ways(p) = <<[path |-> n, from |-> p]>> BY <1>4 DEF Ways
    <2>2. Range(<<[path |-> n, from |-> p]>>) = {[path |-> n, from |-> p]} BY DEF Range
    <2> QED BY <1>4, <2>1, <2>2
  <1>5. CASE BlockType(body, p) = "jif"
    <2>1. Ways(p) = on(n) \o on(g) BY <1>5 DEF Ways
    <2> DEFINE S == {[path |-> n, from |-> p], [path |-> g, from |-> p]}
    <2>2. on(n) \in Seq(S) /\ on(g) \in Seq(S)
      <3>1. \A q : [path |-> q, from |-> p] \in S => on(q) \in Seq(S)
        <4> SUFFICES ASSUME NEW q, [path |-> q, from |-> p] \in S PROVE on(q) \in Seq(S)
          OBVIOUS
        <4> HIDE DEF S
        <4>1. <<>> \in Seq(S) OBVIOUS
        <4>2. <<[path |-> q, from |-> p]>> \in Seq(S) OBVIOUS
        <4> QED BY <4>1, <4>2
      <3> HIDE DEF on
      <3> QED BY <3>1
    <2>3. \A x \in S : x.path = n \/ x.path = g OBVIOUS
    <2> HIDE DEF S, on
    <2>4. on(n) \o on(g) \in Seq(S) BY <2>2
    <2>5. Range(on(n) \o on(g)) \subseteq S BY <2>4, RangeFacts
    <2> QED BY <1>5, <2>1, <2>3, <2>5
  <1> QED BY <1>1, <1>3, <1>4, <1>5

LEMMA ConvergesFollows ==
  ASSUME JumpsAreLevel, IInv, LevelInv, ~redo
  PROVE  Converges
  <1> SUFFICES ASSUME ~active \/ stage > 1, body.root, ~cut, ~body.broken, status # Error,
                      NEW p \in Live
               PROVE  /\ \A i \in 1 .. Len(body.ops[p]) - 1 :
                            body.sin[body.ops[p][i + 1]] = Level(body, body.ops[p][i])
                      /\ \A w \in Range(Ways(p)) :
                            (HeadOp(body, w.path) # NoOp /\ w.path \notin redone
                                /\ Kind(TailOp(body, p)) # "ret") =>
                            body.sin[HeadOp(body, w.path)] = Level(body, TailOp(body, p))
    BY DEF Converges
  <1>1. ~Gen
    <2>1. stage > 1 => stage # 1 OBVIOUS
    <2> QED BY <2>1 DEF Gen
  <1>2. Settled(body) BY <1>1 DEF LevelInv, HandedOn
  <1>3. code \in Programs /\ body \in Body /\ Tiled(body) /\ Complete(body)
    BY <1>1 DEF IInv, Typed, InOrder
  <1>4. p \in Paths(body) BY DEF Live
  <1>5. \A i \in 1 .. Len(body.ops[p]) - 1 :
           body.sin[body.ops[p][i + 1]] = Level(body, body.ops[p][i])
    BY <1>2, <1>3, <1>4, AlongAgrees
  <1>6. ASSUME NEW w \in Range(Ways(p)), HeadOp(body, w.path) # NoOp, Kind(TailOp(body, p)) # "ret"
        PROVE  body.sin[HeadOp(body, w.path)] = Level(body, TailOp(body, p))
    BY <1>2, <1>3, <1>4, <1>6, WaysAre, AcrossAgrees
  <1> QED BY <1>5, <1>6

(* One level of the stack at every operation, whichever way it is reached  *)
(* (CheckAlreadyAnalized compares them where code runs into what is there, *)
(* TraceGoto and AdjustGoto2 where gotos are turned), in the body of every *)
(* function the decompiler has generated without an error and has not      *)
(* analysed again since, if jumps do not move the stack.                   *)
THEOREM LevelsAgree == JumpsAreLevel => (Spec => [](~redo => Converges))
  <1> SUFFICES ASSUME JumpsAreLevel PROVE Spec => [](~redo => Converges)
    OBVIOUS
  <1>1. IInv /\ LevelInv /\ [Next]_vars => LevelInv' BY NextLevels
  <1>2. IInv /\ LevelInv => (~redo => Converges) BY ConvergesFollows
  <1> QED BY <1>1, <1>2, InitLevels, AlwaysIInv, PTL DEF Spec

-----------------------------------------------------------------------------
(* Where control goes: no jump leads to a jump or a return that stands     *)
(* behind a conditional jump (that one may be exchanged with it), jumps do *)
(* not go in a circle, and lead to an instruction of the function or out   *)
(* of it: Out stands for every address that is not one of the function.    *)
JumpsArrive ==
    \A p \in Programs : \A a \in Addr : p[a].kind \in Jumps => p[a].to \in Addr \cup {Out}

NoneShared ==
    \A p \in Programs : \A a \in Addr : \A t \in Addr :
        p[a].kind \in Jumps /\ p[a].to = t /\ p[t].kind \in {"jmp", "ret"} =>
            t = 1 \/ p[t - 1].kind # "jif"

(* Numbers that fall with every jump.                                      *)
Descends(p, r) == \A a \in Addr : p[a].kind = "jmp" /\ p[a].to \in Addr => r[p[a].to] < r[a]

NoCircles == \A p \in Programs : \E r \in [Addr -> Addr] : Descends(p, r)

FlowAssumed == JumpsAreLevel /\ JumpsArrive /\ NoneShared /\ NoCircles

Numbers == CHOOSE r \in [Addr -> Addr] : Descends(code, r)
Number(r) == IF r \in Addr THEN Numbers[r] ELSE 0

(* One more jump from a, with d known.                                     *)
Onward(d, a) ==
    IF a = Out THEN Out
    ELSE CASE code[a].kind = "jmp" -> d[code[a].to]
           [] code[a].kind = "ret" -> Exit
           [] OTHER -> a

LEMMA NumbersFall ==
  ASSUME NoCircles, code \in Programs
  PROVE  Numbers \in [Addr -> Addr] /\ Descends(code, Numbers)
  BY DEF Numbers, NoCircles

(* Leads is defined: where no jump stands, nothing is followed, and a jump *)
(* leads to a smaller number.                                              *)
LEMMA LeadsIs ==
  ASSUME FlowAssumed, code \in Programs
  PROVE  \A a \in Addr \cup {Out} : Leads[a] = Onward(Leads, a)
  <1> DEFINE A == Addr \cup {Out}
             V == Addr \cup {Out, Exit}
             X == [A -> V]
             x == [a \in A |-> Out]
             On(d) == [a \in A |-> Onward(d, a)]
             G == [w \in Nat \X X |-> On(w[2])]
             m == N + 1
  <1>1. m \in Nat /\ N \in Nat /\ Addr = 1 .. N /\ Out = N + 1 BY Bounds
  <1>2. /\ Numbers \in [Addr -> Addr] /\ Descends(code, Numbers)
        /\ \A a \in Addr : code[a].kind = "jmp" => code[a].to \in A
    BY NumbersFall DEF FlowAssumed, JumpsArrive, Jumps
  <1>3. \A d \in X : On(d) \in X
    <2> SUFFICES ASSUME NEW d \in X, NEW a \in A PROVE Onward(d, a) \in V
      OBVIOUS
    <2>1. CASE a = Out BY <2>1 DEF Onward
    <2>2. CASE a # Out
      <3>1. a \in Addr BY <2>2
      <3>2. code[a].kind = "jmp" => d[code[a].to] \in V BY <1>2, <3>1
      <3> QED BY <2>2, <3>1, <3>2 DEF Onward
    <2> QED BY <2>1, <2>2
  <1>4. x \in X OBVIOUS
  <1> HIDE DEF On, X, x
  <1>5. \A i \in 1 .. m, d \in X : G[<<i, d>>] = On(d) /\ On(d) \in X BY <1>1, <1>3
  <1> HIDE DEF G
  <1>6. HasStepwise(m, X, x, G)
    <2> HIDE DEF m
    <2> QED BY <1>1, <1>4, <1>5, StepwiseFunction
  <1>7. PICK f \in [0 .. m -> X] : f[0] = x /\ \A i \in 1 .. m : f[i] = G[<<i, f[i - 1]>>]
    BY <1>6 DEF HasStepwise
  <1>8. \A i \in 0 .. N : f[i + 1] = On(f[i]) /\ f[i] \in X
    <2> TAKE i \in 0 .. N
    <2>1. i + 1 \in 1 .. m /\ i \in 0 .. m /\ (i + 1) - 1 = i BY <1>1
    <2> HIDE DEF m
    <2>2. f[i + 1] = G[<<i + 1, f[i]>>] /\ f[i] \in X BY <1>7, <2>1
    <2> QED BY <1>5, <2>1, <2>2
  <1> DEFINE S == {k \in 0 .. N : \A a \in A : Number(a) <= k => f[k + 1][a] = f[k][a]}
  <1>9. \A i \in 0 .. N, a \in A : f[i + 1][a] = Onward(f[i], a) BY <1>8 DEF On
  <1>10. \A a \in Addr : Number(a) \in 1 .. N BY <1>1, <1>2 DEF Number
  <1>11. 0 \in S
    <2>1. ASSUME NEW a \in A, Number(a) <= 0 PROVE f[0 + 1][a] = f[0][a]
      <3>1. a = Out BY <1>1, <1>10, <2>1
      <3>2. f[0 + 1][a] = Onward(f[0], a) BY <1>1, <1>9
      <3>3. f[0][a] = Out BY <1>7 DEF x
      <3> QED BY <3>1, <3>2, <3>3 DEF Onward
    <2> QED BY <1>1, <2>1
  <1>12. ASSUME NEW k \in 0 .. N - 1, k \in S PROVE k + 1 \in S
    <2>1. k + 1 \in 0 .. N /\ k \in 0 .. N BY <1>1
    <2>2. ASSUME NEW a \in A, Number(a) <= k + 1 PROVE f[(k + 1) + 1][a] = f[k + 1][a]
      <3>1. f[(k + 1) + 1][a] = Onward(f[k + 1], a) /\ f[k + 1][a] = Onward(f[k], a)
        BY <1>9, <2>1
      <3>2. CASE a = Out BY <3>1, <3>2 DEF Onward
      <3>3. CASE a \in Addr /\ a # Out /\ code[a].kind = "jmp"
        <4> DEFINE to == code[a].to
        <4>1. to \in A BY <1>2, <3>3
        <4>2. Number(to) <= k
          <5>1. CASE to \in Addr
            <6>1. Numbers[to] < Numbers[a] BY <1>2, <3>3, <5>1 DEF Descends
            <6>2. Numbers[to] \in Nat /\ Numbers[a] \in Nat BY <1>1, <1>2, <3>3, <5>1
            <6> HIDE DEF to
            <6> QED BY <2>1, <2>2, <3>3, <5>1, <6>1, <6>2 DEF Number
          <5>2. CASE to \notin Addr BY <2>1, <5>2 DEF Number
          <5> QED BY <5>1, <5>2
        <4>3. f[k + 1][to] = f[k][to] BY <1>12, <4>1, <4>2
        <4> QED BY <3>1, <3>3, <4>3 DEF Onward
      <3>4. CASE a \in Addr /\ a # Out /\ code[a].kind # "jmp" BY <3>1, <3>4 DEF Onward
      <3> QED BY <3>2, <3>3, <3>4
    <2> QED BY <2>1, <2>2
  <1>13. 0 .. N \subseteq S
    <2> HIDE DEF S
    <2> QED BY <1>1, <1>11, <1>12, UpToInduction
  <1> DEFINE W == f[N]
  <1>14. W \in X /\ \A a \in A : W[a] = Onward(W, a)
    <2>1. N \in 0 .. N /\ N \in S BY <1>1, <1>13
    <2>2. \A a \in A : Number(a) <= N BY <1>1, <1>10 DEF Number
    <2> QED BY <1>8, <1>9, <2>1, <2>2
  <1> HIDE DEF W
  <1>15. W = [a \in A |-> IF a = Out THEN Out
                          ELSE CASE code[a].kind = "jmp" -> W[code[a].to]
                                 [] code[a].kind = "ret" -> Exit
                                 [] OTHER -> a]
    BY <1>14 DEF X, Onward
  <1> DEFINE Row(d) == [a \in A |-> IF a = Out THEN Out
                                    ELSE CASE code[a].kind = "jmp" -> d[code[a].to]
                                           [] code[a].kind = "ret" -> Exit
                                           [] OTHER -> a]
             dest == CHOOSE d : d = Row(d)
  <1>16. W = Row(W) BY <1>15
  <1>17. dest = Row(dest)
    <2> HIDE DEF Row
    <2> QED BY <1>16
  <1>18. Leads = dest BY DEF Leads
  <1>19. ASSUME NEW d, d = Row(d) PROVE \A a \in A : d[a] = Onward(d, a) BY <1>19 DEF Onward
  <1> HIDE DEF Row, dest
  <1>20. \A a \in A : dest[a] = Onward(dest, a) BY <1>17, <1>19
  <1> QED BY <1>18, <1>20

(* Where control gets to from a path, or from where a jump of the code     *)
(* points; where the goto of an instruction ought to lead; and the         *)
(* instruction whose goto this is: the two of an exchanged pair have each  *)
(* the other's.                                                            *)
Dest(r) == IF r = Exit THEN Exit ELSE Leads[r]
Aim(a) == IF code[a].kind = "ret" THEN Exit ELSE code[a].to
Source(b, a) == IF a \in b.flip THEN a + 1 ELSE IF a - 1 \in b.flip THEN a - 1 ELSE a

(* The same place, no further up.                                          *)
Same(r, s) == Dest(r) = Dest(s) /\ Number(r) <= Number(s)

Targets == {t \in Addr : \E a \in Addr : code[a].kind \in Jumps /\ code[a].to = t}

Flips(b) ==
    \A a \in b.flip :
        /\ a \in Addr /\ code[a].kind = "jif" /\ b.ref[a] # None
        /\ a + 1 \in Addr /\ code[a + 1].kind \in {"jmp", "ret"} /\ b.ref[a + 1] # None
        /\ <<a + 1, 1>> \in Contents(b)

Routes(b) ==
    \A a \in Addr : b.ref[a] # None =>
        /\ code[a].kind \in Turns
        /\ b.ref[a] \in Targets \cup {Exit}
        /\ Same(b.ref[a], Aim(Source(b, a)))

(* What refers to nothing leads out of the function.                       *)
Answers(b) ==
    \A a \in Addr :
        <<a, 1>> \in Contents(b) /\ code[a].kind \in Turns /\ b.ref[a] = None => Aim(a) = Out

Routed(b) == Flips(b) /\ Routes(b) /\ Answers(b)

LEMMA NumberIs ==
  ASSUME FlowAssumed, code \in Programs
  PROVE  /\ \A r : Number(r) \in Nat
         /\ \A a \in Addr : code[a].kind = "jmp" => Number(code[a].to) <= Number(a)
  <1>1. Numbers \in [Addr -> Addr] /\ Descends(code, Numbers) BY NumbersFall DEF FlowAssumed
  <1>2. \A r : Number(r) \in Nat BY <1>1, Bounds DEF Number
  <1>3. ASSUME NEW a \in Addr, code[a].kind = "jmp" PROVE Number(code[a].to) <= Number(a)
    <2> DEFINE to == code[a].to
               t == Numbers[to]
               n == Numbers[a]
    <2>1. CASE to \in Addr
      <3>1. t < n BY <1>1, <1>3, <2>1 DEF Descends
      <3>2. t \in Int /\ n \in Int
        <4>1. t \in Addr /\ n \in Addr BY <1>1, <2>1
        <4> QED BY ONLY <4>1, Bounds
      <3>3. Number(to) = t /\ Number(a) = n BY <2>1 DEF Number
      <3> HIDE DEF to, t, n
      <3>4. t <= n BY ONLY <3>1, <3>2
      <3>5. Number(to) <= Number(a) BY ONLY <3>3, <3>4
      <3> QED BY <3>5 DEF to
    <2>2. CASE to \notin Addr
      <3>1. Number(to) = 0 /\ Number(a) \in Nat BY <1>2, <2>2 DEF Number
      <3> QED BY <3>1
    <2> QED BY <2>1, <2>2
  <1> QED BY <1>2, <1>3

LEMMA DestIs ==
  ASSUME FlowAssumed, code \in Programs, NEW a \in Addr
  PROVE  /\ Dest(a) = Leads[a]
         /\ code[a].kind \in {"jmp", "ret"} => Dest(a) = Dest(Aim(a))
         /\ code[a].kind \notin {"jmp", "ret"} => Dest(a) = a
         /\ code[a].kind \in Jumps => Aim(a) = code[a].to /\ Aim(a) \in Addr \cup {Out} /\ Aim(a) # Exit
         /\ code[a].kind = "ret" => Aim(a) = Exit
  <1>1. Leads[a] = Onward(Leads, a) BY LeadsIs
  <1>2. a # Exit /\ a # Out /\ Out # Exit /\ Exit \notin Addr BY Bounds DEF Exit
  <1>3. Dest(a) = Leads[a] BY <1>2 DEF Dest
  <1>4. ASSUME code[a].kind \in Jumps
        PROVE  Aim(a) = code[a].to /\ Aim(a) \in Addr \cup {Out} /\ Aim(a) # Exit
    BY <1>2, <1>4 DEF Aim, Jumps, FlowAssumed, JumpsArrive
  <1>5. ASSUME code[a].kind = "jmp" PROVE Dest(a) = Dest(Aim(a))
    <2>1. Aim(a) = code[a].to /\ Aim(a) # Exit BY <1>4, <1>5 DEF Jumps
    <2> QED BY <1>1, <1>2, <1>3, <1>5, <2>1 DEF Dest, Onward
  <1>6. ASSUME code[a].kind = "ret" PROVE Aim(a) = Exit /\ Dest(a) = Dest(Aim(a))
    BY <1>1, <1>2, <1>3, <1>6 DEF Dest, Onward, Aim
  <1>7. ASSUME code[a].kind \notin {"jmp", "ret"} PROVE Dest(a) = a
    BY <1>1, <1>2, <1>3, <1>7 DEF Onward
  <1> QED BY <1>3, <1>4, <1>5, <1>6, <1>7

(* A path that something refers to is not one of an exchanged pair.        *)
LEMMA TargetIsItself ==
  ASSUME FlowAssumed, code \in Programs, NEW b, Flips(b), NEW q \in Targets
  PROVE  q - 1 \notin b.flip /\ (code[q].kind # "jif" => Source(b, q) = q)
  <1>1. q - 1 \notin b.flip
    <2> SUFFICES ASSUME q - 1 \in b.flip PROVE FALSE
      OBVIOUS
    <2>1. q - 1 \in Addr /\ code[q - 1].kind = "jif" /\ code[(q - 1) + 1].kind \in {"jmp", "ret"}
      BY DEF Flips
    <2>2. q \in Addr /\ (q - 1) + 1 = q /\ q # 1 BY <2>1, Bounds DEF Targets
    <2>3. PICK a \in Addr : code[a].kind \in Jumps /\ code[a].to = q BY DEF Targets
    <2> QED BY <2>1, <2>2, <2>3 DEF FlowAssumed, NoneShared
  <1>2. q \in b.flip => code[q].kind = "jif" BY DEF Flips
  <1> QED BY <1>1, <1>2 DEF Source

LEMMA TraceRoutes ==
  ASSUME FlowAssumed, code \in Programs, NEW b \in Body, Tiled(b), Flips(b), Routes(b),
         NEW to \in Targets
  PROVE  /\ TraceGoto(b, to) \in Targets \cup {Exit}
         /\ Same(TraceGoto(b, to), to)
  <1> DEFINE X == {r \in Targets \cup {Exit} : Same(r, to)}
  <1>1. to \in X BY NumberIs DEF Same
  <1>2. ASSUME NEW q \in X, Forwards(b, q) PROVE b.ref[HeadOp(b, q)[1]] \in X
    <2>1. HeadOp(b, q) # NoOp /\ Kind(HeadOp(b, q)) = "jmp" /\ b.ref[HeadOp(b, q)[1]] # None
      BY <1>2 DEF Forwards
    <2>2. q \in Addr /\ b.ops[q] # <<>> BY <2>1, HeadIs
    <2>3. HeadOp(b, q) = <<q, 1>> BY <2>2, EndsInWhole
    <2>4. HeadOp(b, q)[1] = q /\ code[q].kind = "jmp" BY <2>1, <2>3 DEF Kind
    <2>5. q \in Targets /\ Same(q, to) BY <2>2, Bounds DEF Exit
    <2>6. Source(b, q) = q BY <2>4, <2>5, TargetIsItself
    <2>7. b.ref[q] \in Targets \cup {Exit} /\ Same(b.ref[q], Aim(q))
      BY <2>1, <2>2, <2>4, <2>6 DEF Routes
    <2>8. Dest(q) = Dest(Aim(q)) /\ Aim(q) = code[q].to BY <2>2, <2>4, DestIs DEF Jumps
    <2>9. Number(Aim(q)) <= Number(q) BY <2>2, <2>4, <2>8, NumberIs
    <2>10. \A r : Number(r) \in Nat BY NumberIs
    <2>11. Same(b.ref[q], to)
      <3>1. Dest(b.ref[q]) = Dest(to) BY <2>5, <2>7, <2>8 DEF Same
      <3>2. Number(b.ref[q]) <= Number(Aim(q)) /\ Number(q) <= Number(to) BY <2>5, <2>7 DEF Same
      <3>3. Number(b.ref[q]) <= Number(to)
        BY ONLY <2>9, <2>10, <3>2
      <3> QED BY <3>1, <3>3 DEF Same
    <2> QED BY <2>4, <2>7, <2>11
  <1> HIDE DEF X
  <1>3. TraceGoto(b, to) \in X BY <1>1, <1>2, TraceWithin
  <1> QED BY <1>3 DEF X

(* A goto is turned to the end of the trail of jumps, or left alone.       *)
LEMMA AdjustIs ==
  ASSUME NEW b \in Body, Tiled(b), NEW p \in Addr, b.ops[p] # <<>>,
         NEW c, c = AdjustGoto(b, p), ~c.broken
  PROVE  LET self == TailOp(b, p)[1]
             to == b.ref[self]
             dest == TraceGoto(b, to)
         IN  /\ c.ops = b.ops /\ c.flip = b.flip
             /\ c.ref = b.ref \/ (to \in Addr /\ c.ref = [b.ref EXCEPT ![self] = dest])
  <1> DEFINE o == TailOp(b, p)
             to == b.ref[o[1]]
             dest == TraceGoto(b, to)
             e == [b EXCEPT !.ref = [b.ref EXCEPT ![o[1]] = dest]]
  <1>1. o[1] \in Addr BY EndsInWhole DEF WholeIn
  <1>2. CASE IsRetOp(b, o) \/ to = None \/ OpsOf(b, to) = <<>>
    BY <1>2 DEF AdjustGoto
  <1>3. CASE ~(IsRetOp(b, o) \/ to = None \/ OpsOf(b, to) = <<>>)
    <2>1. to \in Addr BY <1>3 DEF OpsOf
    <2>2. CASE Forwards(b, dest)
      <3>1. c = [b EXCEPT !.broken = TRUE] BY <1>3, <2>2 DEF AdjustGoto
      <3>2. c.broken BY <3>1 DEF Body
      <3> QED BY <3>2
    <2>3. CASE ~Forwards(b, dest) /\ dest = to BY <1>3, <2>3 DEF AdjustGoto
    <2>4. CASE ~Forwards(b, dest) /\ dest # to
      <3>1. c = CheckDanglingPath(e, to) BY <1>3, <2>4 DEF AdjustGoto, Body
      <3>2. to \in Range(b.tree) BY <1>1, <2>1, Bounds DEF Tiled
      <3>3. dest \in Addr \cup {Exit}
        <4>1. \A a \in Addr : b.ref[a] \in Range(b.tree) \cup {None} BY DEF Tiled
        <4>2. dest \in Range(b.tree) BY <3>2, <4>1, TraceStays
        <4> QED BY <4>2, BodyFields
      <3>4. b.ref \in [Addr -> Addr \cup {Exit, None}] BY BodyFields
      <3> HIDE DEF o, dest, to
      <3>5. /\ e.ref = [b.ref EXCEPT ![o[1]] = dest] /\ e.ops = b.ops /\ e.flip = b.flip /\ e \in Body
        <4>1. [b.ref EXCEPT ![o[1]] = dest] \in [Addr -> Addr \cup {Exit, None}] BY <3>3, <3>4
        <4> QED BY <4>1 DEF Body
      <3> HIDE DEF e
      <3>6. c = e
        <4> SUFFICES ASSUME c # e PROVE c.broken
          OBVIOUS
        <4> DEFINE prev == PrevPath(e, to)
                   ops == [e.ops EXCEPT ![prev] = IF BlockType(e, prev) = "null" THEN @ \o e.ops[to] ELSE @,
                                        ![to] = <<>>]
        <4>1. c = [e EXCEPT !.tree = Kept(e.tree, Range(e.tree) \ {to}),
                            !.ops[prev] = IF BlockType(e, prev) = "null" THEN @ \o e.ops[to] ELSE @,
                            !.ops[to] = <<>>,
                            !.cur = IF @ = to THEN prev ELSE @,
                            !.broken = TRUE]
          BY <3>1 DEF CheckDanglingPath
        <4> QED BY <3>5, <4>1 DEF Body
      <3> QED BY <2>1, <3>5, <3>6 DEF o, to, dest
    <2> QED BY <2>2, <2>3, <2>4
  <1> QED BY <1>2, <1>3

LEMMA SameIsTransitive ==
  ASSUME FlowAssumed, code \in Programs, NEW r, NEW s, NEW t, Same(r, s), Same(s, t)
  PROVE  Same(r, t)
  <1>1. Number(r) \in Nat /\ Number(s) \in Nat /\ Number(t) \in Nat BY NumberIs
  <1>2. Number(r) <= Number(s) /\ Number(s) <= Number(t) BY DEF Same
  <1>3. Number(r) <= Number(t) BY ONLY <1>1, <1>2
  <1> QED BY <1>3 DEF Same

LEMMA AdjustRoutes ==
  ASSUME FlowAssumed, code \in Programs,
         NEW b \in Body, Tiled(b), Routed(b), NEW p \in Addr, b.ops[p] # <<>>,
         NEW c, c = AdjustGoto(b, p), ~c.broken
  PROVE  Routed(c)
  <1> DEFINE self == TailOp(b, p)[1]
             to == b.ref[self]
             dest == TraceGoto(b, to)
  <1>1. self \in Addr BY EndsInWhole DEF WholeIn
  <1>2. /\ c.ops = b.ops /\ c.flip = b.flip
        /\ c.ref = b.ref \/ (to \in Addr /\ c.ref = [b.ref EXCEPT ![self] = dest])
    BY AdjustIs
  <1>3. Contents(c) = Contents(b) BY <1>2 DEF Contents
  <1>4. \A a : Source(c, a) = Source(b, a) BY <1>2 DEF Source
  <1>5. CASE c.ref = b.ref
    BY <1>2, <1>3, <1>4, <1>5 DEF Routed, Flips, Routes, Answers
  <1>6. CASE to \in Addr /\ c.ref = [b.ref EXCEPT ![self] = dest]
    <2>1. code[self].kind \in Turns /\ to \in Targets /\ Same(to, Aim(Source(b, self)))
      <3>1. to # None /\ to # Exit BY <1>6, Bounds
      <3> QED BY <1>1, <3>1 DEF Routed, Routes
    <2>2. dest \in Targets \cup {Exit} /\ Same(dest, to) BY <2>1, TraceRoutes DEF Routed
    <2>3. Same(dest, Aim(Source(b, self))) BY <2>1, <2>2, SameIsTransitive
    <2>4. dest # None /\ to # None
      <3>1. Targets \subseteq Addr BY DEF Targets
      <3> QED BY <1>6, <2>2, <3>1, Bounds
    <2>5. b.ref \in [Addr -> Addr \cup {Exit, None}] BY BodyFields
    <2> HIDE DEF dest
    <2>6. /\ c.ref[self] = dest
          /\ \A a \in Addr : a # self => c.ref[a] = b.ref[a]
      BY <1>1, <1>6, <2>5
    <2>7. \A a \in Addr : c.ref[a] # None <=> b.ref[a] # None BY <2>4, <2>6
    <2> HIDE DEF self, to
    <2>8. Routes(c)
      <3> SUFFICES ASSUME NEW a \in Addr, c.ref[a] # None
                   PROVE  /\ code[a].kind \in Turns /\ c.ref[a] \in Targets \cup {Exit}
                          /\ Same(c.ref[a], Aim(Source(b, a)))
        BY <1>4 DEF Routes
      <3>1. CASE a = self BY <2>1, <2>2, <2>3, <2>6, <3>1
      <3>2. CASE a # self BY <2>6, <3>2 DEF Routed, Routes
      <3> QED BY <3>1, <3>2
    <2>9. Flips(c) BY <1>2, <1>3, <2>7 DEF Routed, Flips
    <2>10. Answers(c) BY <1>3, <2>7 DEF Routed, Answers
    <2> QED BY <2>8, <2>9, <2>10 DEF Routed
  <1> QED BY <1>2, <1>5, <1>6

(* if (A) goto L1; goto L2; L1: - the two jumps lie one behind the other.  *)
LEMMA Adjust2Is ==
  ASSUME NEW b \in Body, Tiled(b), ~b.broken, NEW F, F = WholeIn(b),
         NEW p \in Addr, b.ops[p] # <<>>,
         \A a \in F : Falls(a) /\ a # TailOp(b, p)[1] /\ a + 1 \in Addr => a + 1 \in F,
         NEW c, c = AdjustGoto2(b, p), ~c.broken
  PROVE  \/ c = b
         \/ \E jif \in F :
                /\ p = jif + 1 /\ p \in F /\ code[jif].kind = "jif" /\ code[p].kind \in {"jmp", "ret"}
                /\ b.ref[jif] # None /\ b.ref[p] # None
                /\ c.ref = [b.ref EXCEPT ![jif] = b.ref[p], ![p] = b.ref[jif]]
                /\ c.flip = (b.flip \ {jif}) \cup ({jif} \ b.flip)
                /\ c.ops = b.ops /\ c.sin = b.sin
  <1> DEFINE prev == PrevPath(b, p)
             self == TailOp(b, p)[1]
             jif == TailOp(b, prev)[1]
             swaps == /\ BlockType(b, p) = "jmp" /\ Len(b.ops[p]) = 1
                      /\ prev # None /\ BlockType(b, prev) = "jif"
                      /\ b.ref[jif] # None /\ b.ref[jif] = NextPath(b, p)
             d == [b EXCEPT !.ref = [b.ref EXCEPT ![jif] = b.ref[self], ![self] = b.ref[jif]],
                            !.flip = (b.flip \ {jif}) \cup ({jif} \ b.flip),
                            !.broken = b.broken \/ b.ref[self] = None]
  <1>1. CASE ~swaps BY <1>1 DEF AdjustGoto2
  <1>2. CASE swaps
    <2>1. p \in Paths(b) /\ Ordered(b.tree) BY EndsInWhole DEF Tiled
    <2>2. prev \in Paths(b) /\ prev < p /\ \A r \in Paths(b) : r <= prev \/ p <= r
      BY <1>2, <2>1, PrevIsPrev
    <2>3. prev \in Addr /\ b.ops[prev] # <<>> /\ Kind(TailOp(b, prev)) = "jif"
      <3>1. TailOp(b, prev) # NoOp BY <1>2, JumpHasTail
      <3>2. Kind(TailOp(b, prev)) = "jif" BY <1>2, <3>1 DEF BlockType
      <3> QED BY <3>1, <3>2, TailIs
    <2>4. /\ jif \in F /\ EndOf(b, prev) = jif + 1 /\ F \subseteq Addr
          /\ code[jif].kind = "jif"
      BY <2>3, EndsInWhole DEF Kind, WholeIn
    <2>5. self = p /\ p \in F
      <3>1. b.ops[p] \in Seq(Op) /\ Len(b.ops[p]) = 1 BY <1>2, BodyFields
      <3>2. Last(b.ops[p]) = b.ops[p][1] BY <3>1, LastOf
      <3>3. IsRun(p, b.ops[p]) BY <2>1 DEF Tiled
      <3>4. TailOp(b, p) = <<p, 1>> BY <3>1, <3>2, <3>3, EndsInWhole, RunSteps
      <3> QED BY <3>4, EndsInWhole
    <2>6. Kind(TailOp(b, p)) \in {"jmp", "ret"} BY <1>2, JumpHasTail DEF BlockType
    <2>7. jif # p /\ code[p].kind = Kind(TailOp(b, p)) BY <2>4, <2>5, <2>6 DEF Kind
    <2>8. b.ref \in [Addr -> Addr \cup {Exit, None}] BY BodyFields DEF Body
    <2>9. c = d BY <1>2 DEF AdjustGoto2, Body
    <2>10. /\ c.ref = [b.ref EXCEPT ![jif] = b.ref[p], ![p] = b.ref[jif]]
           /\ c.flip = (b.flip \ {jif}) \cup ({jif} \ b.flip)
           /\ c.ops = b.ops /\ c.sin = b.sin /\ b.ref[p] # None
      <3>1. /\ d.ref = [b.ref EXCEPT ![jif] = b.ref[self], ![self] = b.ref[jif]]
            /\ d.flip = (b.flip \ {jif}) \cup ({jif} \ b.flip)
            /\ d.ops = b.ops /\ d.sin = b.sin
            /\ d.broken = (b.broken \/ b.ref[self] = None)
        <4> HIDE DEF jif, self
        <4> QED BY DEF Body
      <3> HIDE DEF d, jif, self, prev
      <3>2. b.ref[self] # None BY <2>9, <3>1
      <3> QED BY <2>5, <2>9, <3>1, <3>2
    <2>11. p = jif + 1
      <3>1. jif \in Addr /\ jif + 1 <= p BY <2>1, <2>2, <2>4 DEF Tiled
      <3>2. jif + 1 \in Addr BY <3>1, Bounds
      <3>3. jif + 1 \in F BY <2>4, <2>5, <2>7, <3>2 DEF Falls
      <3>4. PICK r \in Paths(b) : r <= jif + 1 /\ jif + 1 < EndOf(b, r) BY <3>3, InWhole
      <3>5. r \in Addr BY <3>4, BodyFields
      <3>6. r # prev BY <2>4, <3>1, <3>4, Bounds
      <3>7. ~(r < prev)
        <4> SUFFICES ASSUME r < prev PROVE FALSE
          OBVIOUS
        <4>1. EndOf(b, r) <= prev BY <2>2, <3>4 DEF Tiled
        <4>2. prev < jif + 1 BY <2>2, <2>3, <2>4, EndOfBounds
        <4>3. EndOf(b, r) \in Int BY <3>4, EndOfBounds, Bounds
        <4> QED BY <2>3, <3>1, <3>4, <4>1, <4>2, <4>3, Bounds
      <3>8. p <= r BY <2>2, <2>3, <3>4, <3>5, <3>6, <3>7, Bounds
      <3> QED BY <3>1, <3>4, <3>5, <3>8, Bounds
    <2>12. b.ref[jif] # None BY <1>2
    <2> HIDE DEF jif, self, prev, swaps, d
    <2> QED BY <2>4, <2>5, <2>6, <2>7, <2>10, <2>11, <2>12
  <1> QED BY <1>1, <1>2

LEMMA Adjust2Routes ==
  ASSUME FlowAssumed, code \in Programs,
         NEW b \in Body, Tiled(b), Routed(b), ~b.broken, NEW F, F = WholeIn(b),
         NEW p \in Addr, b.ops[p] # <<>>,
         \A a \in F : Falls(a) /\ a # TailOp(b, p)[1] /\ a + 1 \in Addr => a + 1 \in F,
         NEW c, c = AdjustGoto2(b, p), ~c.broken
  PROVE  Routed(c)
  <1>1. CASE c = b BY <1>1
  <1>2. CASE c # b
    <2>1. PICK jif \in F :
                /\ p = jif + 1 /\ p \in F /\ code[jif].kind = "jif" /\ code[p].kind \in {"jmp", "ret"}
                /\ b.ref[jif] # None /\ b.ref[p] # None
                /\ c.ref = [b.ref EXCEPT ![jif] = b.ref[p], ![p] = b.ref[jif]]
                /\ c.flip = (b.flip \ {jif}) \cup ({jif} \ b.flip)
                /\ c.ops = b.ops /\ c.sin = b.sin
      BY <1>2, Adjust2Is
    <2>2. jif \in Addr /\ jif # p /\ p - 1 = jif /\ jif - 1 # jif BY <2>1, Bounds DEF WholeIn
    <2>3. b.ref \in [Addr -> Addr \cup {Exit, None}] BY BodyFields
    <2>4. /\ c.ref[jif] = b.ref[p] /\ c.ref[p] = b.ref[jif]
          /\ \A a \in Addr : a # jif /\ a # p => c.ref[a] = b.ref[a]
      BY <2>1, <2>2, <2>3
    <2>5. \A a \in Addr : c.ref[a] # None <=> b.ref[a] # None BY <2>1, <2>4
    <2>6. p \notin b.flip /\ jif - 1 \notin b.flip
      <3>1. jif - 1 \in b.flip => code[(jif - 1) + 1].kind \in {"jmp", "ret"}
        BY DEF Routed, Flips
      <3>2. (jif - 1) + 1 = jif BY <2>2, Bounds
      <3> QED BY <2>1, <3>1, <3>2 DEF Routed, Flips
    <2>7. /\ jif \notin b.flip => Source(b, jif) = jif /\ Source(b, p) = p
          /\ jif \in b.flip => Source(b, jif) = p /\ Source(b, p) = jif
      BY <2>1, <2>2, <2>6 DEF Source
    <2>8. /\ p \notin c.flip /\ jif - 1 \notin c.flip /\ (jif \in c.flip <=> jif \notin b.flip)
          /\ \A a : a # jif => (a \in c.flip <=> a \in b.flip)
      BY <2>1, <2>2, <2>6
    <2>9. /\ jif \notin c.flip => Source(c, jif) = jif /\ Source(c, p) = p
          /\ jif \in c.flip => Source(c, jif) = p /\ Source(c, p) = jif
      BY <2>1, <2>2, <2>8 DEF Source
    <2>10. Source(c, jif) = Source(b, p) /\ Source(c, p) = Source(b, jif)
      BY <2>7, <2>8, <2>9
    <2>11. \A a \in Addr : a # jif /\ a # p => Source(c, a) = Source(b, a)
      <3> SUFFICES ASSUME NEW a \in Addr, a # jif, a # p PROVE Source(c, a) = Source(b, a)
        OBVIOUS
      <3>1. a - 1 # jif BY <2>1, <2>2, Bounds
      <3> QED BY <2>8, <3>1 DEF Source
    <2>12. Contents(c) = Contents(b) BY <2>1 DEF Contents
    <2>13. <<p, 1>> \in Contents(b)
      <3>1. Last(Parts(p)) = <<p, 1>> BY <2>1, LastPart
      <3> QED BY <2>1, <3>1 DEF WholeIn
    <2>14. Flips(c)
      <3> SUFFICES ASSUME NEW a \in c.flip
                   PROVE  /\ a \in Addr /\ code[a].kind = "jif" /\ c.ref[a] # None
                          /\ a + 1 \in Addr /\ code[a + 1].kind \in {"jmp", "ret"} /\ c.ref[a + 1] # None
                          /\ <<a + 1, 1>> \in Contents(c)
        BY DEF Flips
      <3>1. CASE a = jif BY <2>1, <2>2, <2>4, <2>12, <2>13, <3>1
      <3>2. CASE a # jif
        <4>1. a \in b.flip BY <2>8, <3>2
        <4> QED BY <2>5, <2>12, <4>1 DEF Routed, Flips
      <3> QED BY <3>1, <3>2
    <2>15. Routes(c)
      <3> SUFFICES ASSUME NEW a \in Addr, c.ref[a] # None
                   PROVE  /\ code[a].kind \in Turns /\ c.ref[a] \in Targets \cup {Exit}
                          /\ Same(c.ref[a], Aim(Source(c, a)))
        BY DEF Routes
      <3>1. code[a].kind \in Turns BY <2>5 DEF Routed, Routes
      <3>2. CASE a = jif BY <2>1, <2>2, <2>4, <2>10, <3>1, <3>2 DEF Routed, Routes
      <3>3. CASE a = p BY <2>1, <2>2, <2>4, <2>10, <3>1, <3>3 DEF Routed, Routes
      <3>4. CASE a # jif /\ a # p BY <2>4, <2>11, <3>1, <3>4 DEF Routed, Routes
      <3> QED BY <3>2, <3>3, <3>4
    <2>16. Answers(c) BY <2>5, <2>12 DEF Routed, Answers
    <2> QED BY <2>14, <2>15, <2>16 DEF Routed
  <1> QED BY <1>1, <1>2

LEMMA FinalizeRoutes ==
  ASSUME FlowAssumed, code \in Programs,
         NEW b \in Body, Tiled(b), Mapped(b), Routed(b), ~b.broken, NEW a \in Addr,
         b.cur # None, b.ops[b.cur] # <<>>, EndOf(b, b.cur) = a + 1,
         NEW F, F = WholeIn(b),
         \A y \in F : Falls(y) /\ y # a /\ y + 1 \in Addr => y + 1 \in F,
         NEW c, c = FinalizePath(b, a), ~c.broken
  PROVE  Routed(c)
  <1> DEFINE p == b.cur
             e == AdjustGoto(b, p)
             d == AdjustGoto2(e, e.cur)
             m == [d.map EXCEPT ![a + 1] = IF d.map[a + 1] = None THEN Gap ELSE d.map[a + 1]]
  <1>1. p \in Addr BY BodyFields DEF Mapped
  <1>2. TailOp(b, p) # NoOp /\ TailOp(b, p)[1] = a
    <2> HIDE DEF p
    <2>1. TailOp(b, p) # NoOp /\ EndOf(b, p) = TailOp(b, p)[1] + 1
      BY <1>1, EndsInWhole DEF p
    <2>2. TailOp(b, p)[1] \in Addr BY <2>1, TailIs
    <2> QED BY <2>1, <2>2, Bounds DEF p
  <1>3. Redirects(b, e) BY <1>2, AdjustKeeps
  <1>4. e \in Body /\ (~e.broken => \A x \in Addr : e.ref[x] \in Range(e.tree) \cup {None})
    BY <1>3 DEF Redirects
  <1>5. Redirects(e, d)
    <2> HIDE DEF e
    <2> QED BY <1>4, Adjust2Keeps
  <1>6. d \in Body BY <1>5 DEF Redirects
  <1>7. c = [d EXCEPT !.map = m, !.cur = None]
    <2> HIDE DEF d
    <2>1. c = [d EXCEPT !.map[a + 1] = IF @ = None THEN Gap ELSE @, !.cur = None]
      BY DEF FinalizePath, d
    <2> QED BY <1>6, <2>1 DEF Body
  <1> HIDE DEF d
  <1>8. c.ref = d.ref /\ c.ops = d.ops /\ c.flip = d.flip /\ c.broken = d.broken
    BY <1>6, <1>7 DEF Body
  <1>9. /\ ~e.broken /\ e.tree = b.tree /\ e.ops = b.ops /\ e.map = b.map /\ e.cur = p
        /\ ~d.broken
        /\ \A x \in Addr : e.ref[x] \in Range(e.tree) \cup {None}
    BY <1>3, <1>5, <1>8 DEF Redirects
  <1>10. Routed(e) BY <1>1, <1>9, AdjustRoutes
  <1>11. /\ Tiled(e) /\ WholeIn(e) = F /\ TailOp(e, p) = TailOp(b, p)
    <2> HIDE DEF e
    <2>1. Paths(e) = Paths(b) /\ \A q : EndOf(e, q) = EndOf(b, q) BY <1>9 DEF Paths, EndOf
    <2>2. Tiled(e) BY <1>9, <2>1 DEF Tiled
    <2>3. Contents(e) = Contents(b) BY <1>9 DEF Contents
    <2> QED BY <1>9, <2>2, <2>3 DEF WholeIn, TailOp, OpsOf
  <1> HIDE DEF e, p
  <1>12. Routed(d)
    <2>1. p \in Addr /\ e.ops[p] # <<>> /\ d = AdjustGoto2(e, p) BY <1>1, <1>9 DEF d, p
    <2>2. \A y \in F : Falls(y) /\ y # TailOp(e, p)[1] /\ y + 1 \in Addr => y + 1 \in F
      BY <1>2, <1>11
    <2> QED BY <1>4, <1>9, <1>10, <1>11, <2>1, <2>2, Adjust2Routes
  <1> QED BY <1>8, <1>12 DEF Routed, Flips, Routes, Answers, Contents, Source

-----------------------------------------------------------------------------
(* The steps, and where control goes.                                      *)

LEMMA RoutedMore ==
  ASSUME NEW b, NEW c, Routed(b), c.ref = b.ref, c.flip = b.flip,
         \A a \in Addr : code[a].kind \in Turns =>
             (<<a, 1>> \in Contents(c) <=> <<a, 1>> \in Contents(b))
  PROVE  Routed(c)
  <1>1. \A a : Source(c, a) = Source(b, a) BY DEF Source
  <1>2. Routes(c) BY <1>1 DEF Routed, Routes
  <1>3. Answers(c) BY DEF Routed, Answers
  <1>4. Flips(c) BY DEF Routed, Flips, Turns
  <1> QED BY <1>2, <1>3, <1>4 DEF Routed

(* What is to be rolled back is a call.                                    *)
LEMMA TurnsHeld ==
  ASSUME NEW b, NEW t \in Seq(Task), NEW x, RollsOnce(t, x), Rests(b, t, x),
         NEW a \in Addr, code[a].kind \in Turns
  PROVE  a \in Has(b, t) <=> <<a, 1>> \in Contents(b)
  <1>1. Last(Parts(a)) = <<a, 1>> BY LastPart DEF Turns
  <1>2. ASSUME NEW i \in DOMAIN t, t[i].roll > 0 PROVE t[i].at # a
    <2>1. i \in 1 .. Len(t) /\ Len(t) \in Nat OBVIOUS
    <2>2. ~(i > 1) BY <1>2, <2>1 DEF RollsOnce
    <2>3. i = 1 /\ t # <<>> /\ Head(t) = t[1] BY <2>1, <2>2
    <2>4. Rolls(t) /\ Head(t) = t[i] BY <1>2, <2>3 DEF Rolls
    <2> QED BY <2>4 DEF Rests, Turns
  <1> QED BY <1>1, <1>2 DEF Has

(* A step that adds no jump and turns no goto.                             *)
LEMMA PlainRoutes ==
  ASSUME Typed, Builds(body, tasks, at), Step(body', tasks', at'), ~body'.broken,
         Routed(body), body'.ref = body.ref, body'.flip = body.flip,
         \A a \in Addr : code[a].kind \in Turns =>
             (a \in Has(body', tasks') <=> a \in Has(body, tasks))
  PROVE  Routed(body')
  <1>1. tasks \in Seq(Task) /\ RollsOnce(tasks, at) /\ Rests(body, tasks, at)
    BY DEF Typed, Builds
  <1>2. tasks' \in Seq(Task) /\ RollsOnce(tasks', at') /\ Rests(body', tasks', at')
    BY DEF Step, Builds
  <1>3. ASSUME NEW a \in Addr, code[a].kind \in Turns
        PROVE  <<a, 1>> \in Contents(body') <=> <<a, 1>> \in Contents(body)
    <2>1. a \in Has(body, tasks) <=> <<a, 1>> \in Contents(body) BY <1>1, <1>3, TurnsHeld
    <2>2. a \in Has(body', tasks') <=> <<a, 1>> \in Contents(body') BY <1>2, <1>3, TurnsHeld
    <2> QED BY <1>3, <2>1, <2>2
  <1> QED BY <1>3, RoutedMore

LEMMA StraightRoutes ==
  ASSUME Typed, at \in Addr, Builds(body, tasks, at), Straight, ~body'.broken, Routed(body)
  PROVE  Routed(body')
  <1> DEFINE g == Generate
  <1>1. Takes(body, Entered, at) BY EnteredAt DEF Straight
  <1>2. g \in Body BY <1>1, GenerateKeeps
  <1>3. g.ref = body.ref /\ g.flip = body.flip BY GenerateArrives DEF Straight
  <1>4. Step(body', tasks', at') /\ Has(body', tasks') = Has(body, tasks) \cup {at} BY StraightStep
  <1>5. body' = g \/ body' = [g EXCEPT !.cur = None, !.last = NoOp] BY DEF Straight
  <1> HIDE DEF g
  <1>6. body'.ref = body.ref /\ body'.flip = body.flip BY <1>2, <1>3, <1>5 DEF Body
  <1>7. code[at].kind \notin Turns BY DEF Straight, Turns
  <1> QED BY <1>4, <1>6, <1>7, PlainRoutes

LEMMA RunIntoRoutes ==
  ASSUME Typed, at \in Addr, Builds(body, tasks, at), RunInto, ~body'.broken, Routed(body)
  PROVE  Routed(body')
  <1>1. body \in Body /\ Tiled(body) /\ Mapped(body) BY EnteredAt
  <1>2. Opens(body, Registered, at) BY <1>1, RegisteredOpens
  <1>3. body' = Registered BY DEF RunInto
  <1>4. body'.ref = body.ref /\ body'.flip = body.flip BY <1>2, <1>3 DEF Opens, SameRest
  <1> QED BY <1>4, RunIntoStep, PlainRoutes

LEMMA CallUnknownRoutes ==
  ASSUME Typed, at \in Addr, Builds(body, tasks, at), CallUnknown, ~body'.broken, Routed(body)
  PROVE  Routed(body')
  <1> DEFINE e == Entered
             o == <<at, 1>>
             p == Put(e, o)
             s == Append(p.ops[e.cur], <<at, 2>>)
             c == [p EXCEPT !.ops = [p.ops EXCEPT ![e.cur] = s], !.last = body.last]
  <1>1. /\ body \in Body /\ Tiled(body) /\ Mapped(body) /\ CurEnds(body, at) /\ Takes(body, e, at)
    BY EnteredAt DEF CallUnknown
  <1>2. Opens(body, e, at) BY <1>1, EnteredOpens
  <1>3. e \in Body /\ e.cur \in Addr BY <1>1 DEF Takes
  <1>4. body' = [p EXCEPT !.ops[e.cur] = s, !.last = body.last] BY DEF CallUnknown
  <1>5. o \in Op /\ code \in Programs /\ stub \in Cleanups \cup {None} BY PartsAreOps DEF Typed
  <1> HIDE DEF e, o
  <1>6. p.ref = e.ref /\ p.flip = e.flip BY <1>3, PutSets
  <1>7. p \in Body BY <1>3, <1>5, PutIs
  <1> HIDE DEF p, s
  <1>8. body' = c BY <1>4, <1>7 DEF Body
  <1>9. c.ref = p.ref /\ c.flip = p.flip BY <1>7 DEF Body
  <1> HIDE DEF c
  <1>10. body'.ref = body.ref /\ body'.flip = body.flip
    BY <1>2, <1>6, <1>8, <1>9 DEF Opens, SameRest
  <1> QED BY <1>10, CallUnknownStep, PlainRoutes

LEMMA StartTaskRoutes ==
  ASSUME Typed, Builds(body, tasks, at), StartTask, ~body'.broken, Routed(body)
  PROVE  Routed(body')
  <1> DEFINE k == Head(tasks)
             os == SubSeq(body.ops[body.cur], 1, Len(body.ops[body.cur]) - k.roll)
             b == IF k.roll > 0
                  THEN [body EXCEPT !.ops = [body.ops EXCEPT ![body.cur] = os]]
                  ELSE [body EXCEPT !.cur = None]
             from == IF k.ref # 0 THEN GetRefOp(b, k.ref) ELSE b.last
             c == [b EXCEPT !.last = from]
  <1>1. body \in Body BY DEF Typed
  <1>2. body' = c
    <2>1. k.roll > 0 => [body EXCEPT !.ops[body.cur] = SubSeq(@, 1, Len(@) - k.roll)]
                        = [body EXCEPT !.ops = [body.ops EXCEPT ![body.cur] = os]]
      BY <1>1 DEF Body
    <2> HIDE DEF k, os
    <2> QED BY <2>1 DEF StartTask, k
  <1> HIDE DEF k, os
  <1>3. b.ref = body.ref /\ b.flip = body.flip BY <1>1 DEF Body
  <1>4. c.ref = body.ref /\ c.flip = body.flip BY <1>1 DEF Body
  <1> HIDE DEF c
  <1> QED BY <1>2, <1>4, StartTaskStep, PlainRoutes

(* A jump or a return refers to where it ought to lead.                    *)
LEMMA TurnRoutes ==
  ASSUME FlowAssumed, code \in Programs, at \in Addr, Routed(body),
         NEW b, code[at].kind \in Turns, body.ref[at] = None, b.flip = body.flip,
         OtherRefs(body, b, at),
         \/ b.ref[at] = None /\ Aim(at) = Out
         \/ b.ref[at] \in Targets \cup {Exit} /\ b.ref[at] = Aim(at),
         Contents(b) = Contents(body) \cup Range(Parts(at))
  PROVE  Routed(b)
  <1>1. \A a \in Addr : a # at => b.ref[a] = body.ref[a] BY DEF OtherRefs
  <1>2. at \notin body.flip /\ at - 1 \notin body.flip
    <2>1. at - 1 \in body.flip => body.ref[(at - 1) + 1] # None BY DEF Routed, Flips
    <2>2. (at - 1) + 1 = at BY Bounds
    <2> QED BY <2>1, <2>2 DEF Routed, Flips
  <1>3. \A a : Source(b, a) = Source(body, a) BY DEF Source
  <1>4. Source(b, at) = at BY <1>2 DEF Source
  <1>5. Routes(b)
    <2> SUFFICES ASSUME NEW a \in Addr, b.ref[a] # None
                 PROVE  /\ code[a].kind \in Turns /\ b.ref[a] \in Targets \cup {Exit}
                        /\ Same(b.ref[a], Aim(Source(b, a)))
      BY DEF Routes
    <2>1. CASE a = at
      <3>1. b.ref[at] \in Targets \cup {Exit} /\ b.ref[at] = Aim(at) BY <2>1
      <3>2. Same(Aim(at), Aim(at)) BY NumberIs DEF Same
      <3> QED BY <1>4, <2>1, <3>1, <3>2
    <2>2. CASE a # at BY <1>1, <1>3, <2>2 DEF Routed, Routes
    <2> QED BY <2>1, <2>2
  <1>6. Flips(b)
    <2> SUFFICES ASSUME NEW a \in b.flip
                 PROVE  /\ a \in Addr /\ code[a].kind = "jif" /\ b.ref[a] # None
                        /\ a + 1 \in Addr /\ code[a + 1].kind \in {"jmp", "ret"} /\ b.ref[a + 1] # None
                        /\ <<a + 1, 1>> \in Contents(b)
      BY DEF Flips
    <2>1. /\ a \in Addr /\ code[a].kind = "jif" /\ body.ref[a] # None
          /\ a + 1 \in Addr /\ code[a + 1].kind \in {"jmp", "ret"} /\ body.ref[a + 1] # None
          /\ <<a + 1, 1>> \in Contents(body)
      BY DEF Routed, Flips
    <2>2. b.ref[a] = body.ref[a] /\ b.ref[a + 1] = body.ref[a + 1] BY <1>1, <2>1
    <2> QED BY <2>1, <2>2
  <1>7. Answers(b)
    <2> SUFFICES ASSUME NEW a \in Addr, <<a, 1>> \in Contents(b), code[a].kind \in Turns,
                        b.ref[a] = None
                 PROVE  Aim(a) = Out
      BY DEF Answers
    <2>1. CASE a = at
      <3>1. None \notin Targets \cup {Exit} BY Bounds DEF Targets
      <3> QED BY <2>1, <3>1
    <2>2. CASE a # at
      <3>1. \A o \in Range(Parts(at)) : o[1] = at BY DEF Parts, Range
      <3>2. <<a, 1>>[1] = a OBVIOUS
      <3>3. <<a, 1>> \in Contents(body) BY <2>2, <3>1, <3>2
      <3> QED BY <1>1, <2>2, <3>3 DEF Routed, Answers
    <2> QED BY <2>1, <2>2
  <1> QED BY <1>5, <1>6, <1>7 DEF Routed

LEMMA FinishRoutes ==
  ASSUME FlowAssumed, Typed, at \in Addr, Builds(body, tasks, at), ~body.broken,
         Shaped(body, Has(body, tasks), tasks, at), Routed(body), code[at].kind \in Turns,
         NEW b \in Body, Tiled(b), Mapped(b), b.broken = body.broken,
         b.cur # None, b.ops[b.cur] # <<>>, EndOf(b, b.cur) = at + 1,
         body.ref[at] = None, b.flip = body.flip, OtherRefs(body, b, at),
         \/ b.ref[at] = None /\ Aim(at) = Out
         \/ b.ref[at] \in Targets \cup {Exit} /\ b.ref[at] = Aim(at),
         Contents(b) = Contents(body) \cup Range(Parts(at)),
         NEW f, f = FinalizePath(b, at), ~f.broken
  PROVE  Routed(f)
  <1> DEFINE F == Has(body, tasks)
             G == WholeIn(b)
  <1>1. code \in Programs /\ tasks \in Seq(Task) /\ NoRoll(tasks) BY EnteredAt DEF Typed
  <1>2. Routed(b) BY <1>1, TurnRoutes
  <1>3. G = F \cup {at}
    <2>1. Has(b, tasks) = F \cup {at} BY <1>1, HasMore
    <2>2. Has(b, tasks) = {a \in Addr : Last(Parts(a)) \in Contents(b)} BY <1>1, HasWhenNoRoll
    <2> QED BY <2>1, <2>2 DEF WholeIn
  <1>4. GoesOn(F, at) BY AllRefer DEF Shaped
  <1> HIDE DEF F, G
  <1>5. \A y \in G : Falls(y) /\ y # at /\ y + 1 \in Addr => y + 1 \in G
    BY <1>3, <1>4 DEF GoesOn
  <1>6. G = WholeIn(b) BY DEF G
  <1> QED BY <1>1, <1>2, <1>5, <1>6, FinalizeRoutes

LEMMA JumpRoutes ==
  ASSUME FlowAssumed, Typed, at \in Addr, Builds(body, tasks, at),
         Shaped(body, Has(body, tasks), tasks, at), Jump, ~body'.broken, Routed(body)
  PROVE  Routed(body')
  <1> DEFINE G == Has(body, tasks) \cup {at}
             to == code[at].to
             b == IF to \in Addr
                  THEN [AssurePathBeginsAt(Generate, to, at) EXCEPT !.ref[at] = to]
                  ELSE Generate
             f == FinalizePath(b, at)
             e == [f EXCEPT !.last = NoOp]
  <1>1. ~body.broken /\ code[at].kind \in Jumps BY DEF Jump, Generating
  <1>2. body' = e \/ body' = f
    <2> HIDE DEF e, f
    <2> QED BY DEF Jump, e, f
  <1>3. to = code[at].to /\ G = Has(body, tasks) \cup {at}
        /\ b = WithJump
    BY DEF WithJump
  <1>4. f = FinalizePath(b, at) OBVIOUS
  <1>5. code \in Programs BY DEF Typed
  <1>6. Aim(at) = to /\ to \in Addr \cup {Out} BY <1>1, <1>5, DestIs
  <1>7. to \in Addr => to \in Targets BY <1>1 DEF Targets
  <1> HIDE DEF G, to, b, f
  <1>8. b \in Body /\ Tiled(b) /\ Mapped(b) /\ b.broken = body.broken BY <1>3, JumpBody
  <1>9. b.cur # None /\ b.ops[b.cur] # <<>> /\ EndOf(b, b.cur) = at + 1
    BY <1>3, JumpBody
  <1>10. OtherRefs(body, b, at) /\ body.ref[at] = None /\ b.flip = body.flip
    BY <1>3, JumpBody
  <1>11. Contents(b) = Contents(body) \cup Range(Parts(at)) BY <1>3, JumpBody
  <1>12. /\ to \in Addr => b.ref[at] = to
         /\ to \notin Addr => b.ref[at] = None
    BY <1>3, JumpBody
  <1>13. \/ b.ref[at] = None /\ Aim(at) = Out
         \/ b.ref[at] \in Targets \cup {Exit} /\ b.ref[at] = Aim(at)
    BY <1>6, <1>7, <1>12
  <1>14. f \in Body BY <1>1, <1>4, <1>8, <1>9, FinalizeKeeps
  <1>15. e.broken = f.broken /\ e.ref = f.ref /\ e.ops = f.ops /\ e.flip = f.flip
    BY <1>14 DEF Body
  <1> HIDE DEF e
  <1>16. ~f.broken BY <1>2, <1>15
  <1>17. code[at].kind \in Turns BY <1>1 DEF Jumps, Turns
  <1>18. Routed(f)
    BY <1>1, <1>4, <1>8, <1>9, <1>10, <1>11, <1>13, <1>16, <1>17, FinishRoutes
  <1> QED BY <1>2, <1>15, <1>18 DEF Routed, Flips, Routes, Answers, Contents, Source

LEMMA ReturnRoutes ==
  ASSUME FlowAssumed, Typed, at \in Addr, Builds(body, tasks, at),
         Shaped(body, Has(body, tasks), tasks, at), Return, ~body'.broken, Routed(body)
  PROVE  Routed(body')
  <1> DEFINE G == Has(body, tasks) \cup {at}
             b == [CreateTailPath(Generate) EXCEPT !.ref[at] = Exit]
             f == FinalizePath(b, at)
             e == [f EXCEPT !.last = NoOp]
  <1>1. ~body.broken /\ code[at].kind = "ret" BY DEF Return, Generating
  <1>2. body' = e
    <2> HIDE DEF e, f
    <2> QED BY DEF Return, e, f
  <1>3. G = Has(body, tasks) \cup {at} /\ b = [CreateTailPath(Generate) EXCEPT !.ref[at] = Exit]
    OBVIOUS
  <1>4. f = FinalizePath(b, at) OBVIOUS
  <1>5. Aim(at) = Exit BY <1>1 DEF Aim
  <1> HIDE DEF G, b, f
  <1>6. b \in Body /\ Tiled(b) /\ Mapped(b) /\ b.broken = body.broken BY <1>3, ReturnBody
  <1>7. b.cur # None /\ b.ops[b.cur] # <<>> /\ EndOf(b, b.cur) = at + 1 BY <1>3, ReturnBody
  <1>8. OtherRefs(body, b, at) /\ body.ref[at] = None /\ b.flip = body.flip
    BY <1>3, ReturnBody
  <1>9. Contents(b) = Contents(body) \cup Range(Parts(at)) BY <1>3, ReturnBody
  <1>10. b.ref[at] = Exit BY <1>3, ReturnBody
  <1>11. f \in Body BY <1>1, <1>4, <1>6, <1>7, FinalizeKeeps
  <1>12. e.broken = f.broken /\ e.ref = f.ref /\ e.ops = f.ops /\ e.flip = f.flip
    BY <1>11 DEF Body
  <1> HIDE DEF e
  <1>13. ~f.broken BY <1>2, <1>12
  <1>14. code[at].kind \in Turns BY <1>1 DEF Turns
  <1>15. b.ref[at] \in Targets \cup {Exit} /\ b.ref[at] = Aim(at) BY <1>5, <1>10
  <1>16. Routed(f)
    BY <1>1, <1>4, <1>6, <1>7, <1>8, <1>9, <1>13, <1>14, <1>15, FinishRoutes
  <1> QED BY <1>2, <1>12, <1>16 DEF Routed, Flips, Routes, Answers, Contents, Source

-----------------------------------------------------------------------------
(* Where gotos lead stays so in every step.                                *)
FlowInv == ~body.broken => Routed(body)

LEMMA RoutedNext ==
  ASSUME code' = code, Routed(body')
  PROVE  Routed(body)'
  <1>1. Leads' = Leads BY DEF Leads
  <1>2. \A r : Dest(r)' = Dest(r) BY <1>1 DEF Dest
  <1>3. \A r : Number(r)' = Number(r)
    <2>1. Numbers' = Numbers BY DEF Numbers, Descends
    <2> QED BY <2>1 DEF Number
  <1>4. \A r : \A s : Same(r, s)' <=> Same(r, s) BY <1>2, <1>3 DEF Same
  <1>5. \A a : Aim(a)' = Aim(a) BY DEF Aim
  <1>6. \A a : Source(body, a)' = Source(body', a) BY DEF Source
  <1>7. Targets' = Targets BY DEF Targets
  <1>8. Flips(body)'
    <2>1. Flips(body') BY DEF Routed
    <2> QED BY <2>1 DEF Flips, Contents
  <1>9. Answers(body)'
    <2>1. Answers(body') BY DEF Routed
    <2> QED BY <1>5, <2>1 DEF Answers, Contents
  <1>10. Routes(body)'
    <2>1. Routes(body') BY DEF Routed
    <2>2. ASSUME NEW a \in Addr, body'.ref[a] # None
          PROVE  /\ code'[a].kind \in Turns
                 /\ body'.ref[a] \in Targets' \cup {Exit}
                 /\ Same(body.ref[a], Aim(Source(body, a)))'
      <3>1. /\ code[a].kind \in Turns
            /\ body'.ref[a] \in Targets \cup {Exit}
            /\ Same(body'.ref[a], Aim(Source(body', a)))
        BY <2>1, <2>2 DEF Routes
      <3>2. Dest(body.ref[a])' = Dest(body'.ref[a]) /\ Number(body.ref[a])' = Number(body'.ref[a])
        BY <1>1, <1>3 DEF Dest, Number
      <3>3. Aim(Source(body, a))' = Aim(Source(body', a)) BY <1>5, <1>6 DEF Aim
      <3>4. /\ Dest(Aim(Source(body, a)))' = Dest(Aim(Source(body', a)))
            /\ Number(Aim(Source(body, a)))' = Number(Aim(Source(body', a)))
        BY <1>1, <1>3, <3>3 DEF Dest, Number
      <3> QED BY <1>7, <3>1, <3>2, <3>4 DEF Same
    <2> QED BY <2>2 DEF Routes
  <1> QED BY <1>8, <1>9, <1>10 DEF Routed

LEMMA InitFlow == Init => FlowInv
  <1> SUFFICES ASSUME Init PROVE Routed(body)
    BY DEF FlowInv
  <1>1. body = EmptyBody /\ Contents(body) = {} BY EmptyBodyIs DEF Init
  <1>2. body.flip = {} /\ \A a \in Addr : body.ref[a] = None BY <1>1 DEF EmptyBody
  <1> QED BY <1>1, <1>2 DEF Routed, Flips, Routes, Answers

LEMMA BuildingRoutes ==
  ASSUME FlowAssumed, IInv, LevelInv, FlowInv, Building
  PROVE  FlowInv'
  <1> SUFFICES ASSUME ~body'.broken PROVE Routed(body)'
    BY DEF FlowInv
  <1>1. /\ Gen /\ ~body.broken /\ Builds(body, tasks, at) /\ code' = code
    BY BuildingIs
  <1>2. Typed /\ at \in Addr \cup {0} /\ Routed(body) BY <1>1 DEF IInv, Typed, FlowInv
  <1>3. Shaped(body, Has(body, tasks), tasks, at) BY <1>1 DEF LevelInv, Graded
  <1>4. Routed(body')
    <2>1. CASE StartTask BY <1>1, <1>2, <2>1, StartTaskRoutes
    <2>2. CASE RunInto
      <3>1. at \in Addr BY <1>2, <2>2 DEF RunInto
      <3> QED BY <1>1, <1>2, <2>2, <3>1, RunIntoRoutes
    <2>3. CASE CallUnknown
      <3>1. at \in Addr BY <1>2, <2>3 DEF CallUnknown
      <3> QED BY <1>1, <1>2, <2>3, <3>1, CallUnknownRoutes
    <2>4. CASE Straight
      <3>1. at \in Addr BY <1>2, <2>4 DEF Straight
      <3> QED BY <1>1, <1>2, <2>4, <3>1, StraightRoutes
    <2>5. CASE Jump
      <3>1. at \in Addr BY <1>2, <2>5 DEF Jump
      <3> QED BY <1>1, <1>2, <1>3, <2>5, <3>1, JumpRoutes
    <2>6. CASE Return
      <3>1. at \in Addr BY <1>2, <2>6 DEF Return
      <3> QED BY <1>1, <1>2, <1>3, <2>6, <3>1, ReturnRoutes
    <2> QED BY <2>1, <2>2, <2>3, <2>4, <2>5, <2>6 DEF Building
  <1> QED BY <1>1, <1>4, RoutedNext

(* The same operations, and the same gotos.                                *)
SameGotos(b, c) == c.ref = b.ref /\ c.flip = b.flip /\ Contents(c) = Contents(b)

LEMMA SameGotosNext ==
  ASSUME code' = code, FlowInv, SameGotos(body, body'), body.broken => body'.broken
  PROVE  FlowInv'
  <1> SUFFICES ASSUME ~body'.broken PROVE Routed(body)'
    BY DEF FlowInv
  <1>1. Routed(body) BY DEF FlowInv
  <1>2. Routed(body') BY <1>1, RoutedMore DEF SameGotos
  <1> QED BY <1>2, RoutedNext

LEMMA ForgetGotos ==
  ASSUME NEW b \in Body
  PROVE  SameGotos(b, Forget(b)) /\ Forget(b).broken = b.broken
  <1>1. SameShape(b, Forget(b)) /\ Forget(b).broken = b.broken BY ForgetIs
  <1> QED BY <1>1 DEF SameShape, SameGotos, Contents

LEMMA AnalysisGotos ==
  ASSUME IInv, Drop \/ Analyze
  PROVE  SameGotos(body, body') /\ code' = code /\ ~body.broken
  <1>1. Analyzing /\ SameShape(body, body') /\ code' = code BY AnalysisKeeps
  <1>2. Contents(body') = Contents(body) BY <1>1 DEF SameShape, Contents
  <1> QED BY <1>1, <1>2 DEF SameShape, SameGotos, Analyzing

LEMMA DecompileGotos ==
  ASSUME IInv, Decompile
  PROVE  SameGotos(body, body') /\ code' = code /\ ~body.broken
  <1>1. code' = code /\ ~body.broken /\ Contents(body') = Contents(body) BY DecompileIs
  <1>2. body \in Body BY DEF IInv, Typed
  <1>3. body' = Purged(body) \/ body' = [body EXCEPT !.root = TRUE] BY DEF Decompile
  <1>4. Purged(body).ref = body.ref /\ Purged(body).flip = body.flip
    BY <1>2 DEF Purged, Forget, Body
  <1>5. [body EXCEPT !.root = TRUE].ref = body.ref /\ [body EXCEPT !.root = TRUE].flip = body.flip
    BY <1>2 DEF Body
  <1> QED BY <1>1, <1>3, <1>4, <1>5 DEF SameGotos

LEMMA NextFlow ==
  ASSUME FlowAssumed, IInv, LevelInv, FlowInv, [Next]_vars
  PROVE  FlowInv'
  <1>1. CASE Building BY <1>1, BuildingRoutes
  <1>2. CASE GenerateDone \/ Stop
    <2>1. body' = Forget(body) /\ code' = code BY <1>2 DEF GenerateDone, Stop, Close
    <2>2. body \in Body BY DEF IInv, Typed
    <2> QED BY <2>1, <2>2, ForgetGotos, SameGotosNext
  <1>3. CASE Drop \/ Analyze BY <1>3, AnalysisGotos, SameGotosNext
  <1>4. CASE Decompile BY <1>4, DecompileGotos, SameGotosNext
  <1>5. CASE Purge
    <2>1. body' = EmptyBody /\ code' = code BY <1>5 DEF Purge
    <2>2. Contents(body') = {} BY <2>1, EmptyBodyIs
    <2>3. body'.flip = {} /\ \A a \in Addr : body'.ref[a] = None BY <2>1 DEF EmptyBody
    <2>4. Routed(body') BY <2>2, <2>3 DEF Routed, Flips, Routes, Answers
    <2> QED BY <2>1, <2>4, RoutedNext DEF FlowInv
  <1>6. CASE FlowDone \/ LaterStage \/ FinalStage \/ Finish \/ SupplyStub \/ Resume \/ UNCHANGED vars
    <2>1. UNCHANGED <<code, body>>
      BY <1>6 DEF FlowDone, LaterStage, FinalStage, Finish, Close, SupplyStub, Resume, vars
    <2> QED BY <2>1, SameGotosNext DEF SameGotos, Contents
  <1> QED
    BY <1>1, <1>2, <1>3, <1>4, <1>5, <1>6
    DEF Next, Core, User, Generation, Analysis, Building

-----------------------------------------------------------------------------
(* Where control gets to in the body.                                      *)

(* One more goto from p, with d known.                                     *)
OnwardInBody(b, d, p) ==
    IF p = Exit THEN Exit
    ELSE IF HeadOp(b, p) = NoOp THEN Leads[p]
    ELSE IF Kind(HeadOp(b, p)) \in {"jmp", "ret"}
    THEN IF b.ref[p] = None THEN Out ELSE d[b.ref[p]]
    ELSE p

(* From a path that is a jump, where its goto points, exchanged or not.    *)
Redirected(b, p) ==
    b.ops[p] # <<>> /\ code[p].kind \in {"jmp", "ret"} /\ b.ref[p] # None

Gets(b, p) == IF Redirected(b, p) THEN Dest(b.ref[p]) ELSE Dest(p)

LEMMA OnwardCases ==
  ASSUME FlowAssumed, code \in Programs, NEW b \in Body, Tiled(b), Routed(b),
         NEW d, NEW p \in Addr
  PROVE  /\ Redirected(b, p) => OnwardInBody(b, d, p) = d[b.ref[p]]
                                /\ b.ref[p] \in Targets \cup {Exit}
         /\ ~Redirected(b, p) => OnwardInBody(b, d, p) = Dest(p)
  <1>1. p # Exit /\ Exit \notin Addr /\ Out # Exit BY Bounds DEF Exit
  <1>2. CASE b.ops[p] = <<>>
    <2>1. HeadOp(b, p) = NoOp BY <1>2 DEF HeadOp, OpsOf
    <2> QED BY <1>1, <1>2, <2>1, DestIs DEF OnwardInBody, Redirected
  <1>3. CASE b.ops[p] # <<>>
    <2>1. HeadOp(b, p) = <<p, 1>> /\ HeadOp(b, p) # NoOp BY <1>3, EndsInWhole
    <2>2. Kind(HeadOp(b, p)) = code[p].kind BY <2>1 DEF Kind
    <2>3. <<p, 1>> \in Contents(b)
      <3>1. b.ops[p] \in Seq(Op) BY BodyFields
      <3>2. HeadOp(b, p) = b.ops[p][1] /\ 1 \in 1 .. Len(b.ops[p])
        BY <1>3, <2>1, <3>1, HeadIs, EmptySeq
      <3>3. b.ops[p][1] \in Range(b.ops[p]) BY <3>1, <3>2, RangeFacts
      <3> QED BY <2>1, <3>2, <3>3 DEF Contents
    <2>4. CASE code[p].kind \notin {"jmp", "ret"}
      BY <1>1, <2>1, <2>2, <2>4, DestIs DEF OnwardInBody, Redirected
    <2>5. CASE code[p].kind \in {"jmp", "ret"} /\ b.ref[p] = None
      <3>1. OnwardInBody(b, d, p) = Out BY <1>1, <2>1, <2>2, <2>5 DEF OnwardInBody
      <3>2. Aim(p) = Out BY <2>3, <2>5 DEF Routed, Answers, Turns
      <3>3. Dest(p) = Dest(Out) BY <2>5, <3>2, DestIs
      <3>4. Leads[Out] = Out BY LeadsIs DEF Onward
      <3> QED BY <1>1, <2>5, <3>1, <3>3, <3>4 DEF Dest, Redirected
    <2>6. CASE code[p].kind \in {"jmp", "ret"} /\ b.ref[p] # None
      BY <1>1, <1>3, <2>1, <2>2, <2>6 DEF OnwardInBody, Redirected, Routed, Routes
    <2> QED BY <2>4, <2>5, <2>6
  <1> QED BY <1>2, <1>3

(* A jump or return that something refers to leads where it does in the    *)
(* code, by a smaller number.                                              *)
LEMMA TargetGets ==
  ASSUME FlowAssumed, code \in Programs, NEW b \in Body, Routed(b),
         NEW q \in Targets, Redirected(b, q)
  PROVE  Dest(b.ref[q]) = Dest(q) /\ (b.ref[q] \in Targets => Number(b.ref[q]) < Number(q))
  <1>1. q \in Addr /\ Targets \subseteq Addr BY DEF Targets
  <1>2. code[q].kind \in {"jmp", "ret"} /\ b.ref[q] # None BY DEF Redirected
  <1>3. Source(b, q) = q BY <1>2, TargetIsItself DEF Routed
  <1>4. Dest(b.ref[q]) = Dest(Aim(q)) /\ Number(b.ref[q]) <= Number(Aim(q))
    BY <1>1, <1>2, <1>3 DEF Routed, Routes, Same
  <1>5. Dest(q) = Dest(Aim(q)) BY <1>1, <1>2, DestIs
  <1>6. /\ Numbers \in [Addr -> Addr] /\ Descends(code, Numbers)
        /\ \A r : Number(r) \in Nat
    BY NumbersFall, NumberIs DEF FlowAssumed
  <1>7. \A r \in Addr : Number(r) > 0 BY <1>6, Bounds DEF Number
  <1>8. ASSUME b.ref[q] \in Targets PROVE Number(b.ref[q]) < Number(q)
    <2>1. Number(b.ref[q]) > 0 BY <1>1, <1>7, <1>8
    <2>2. Aim(q) \in Addr
      <3> SUFFICES ASSUME Aim(q) \notin Addr PROVE FALSE
        OBVIOUS
      <3>1. Number(Aim(q)) = 0 BY DEF Number
      <3> QED BY <1>4, <1>6, <2>1, <3>1
    <2>3. code[q].kind = "jmp"
      <3>1. Exit \notin Addr BY Bounds DEF Exit
      <3> QED BY <1>1, <1>2, <2>2, <3>1, DestIs
    <2>4. Aim(q) = code[q].to BY <2>3 DEF Aim
    <2>5. Number(Aim(q)) < Number(q) BY <1>1, <1>6, <2>2, <2>3, <2>4 DEF Descends, Number
    <2> QED BY <1>4, <1>6, <2>5
  <1> QED BY <1>4, <1>5, <1>8

(* Whatever goes on goto by goto goes where the code does.                 *)
LEMMA GetsThere ==
  ASSUME FlowAssumed, code \in Programs, NEW b \in Body, Tiled(b), Routed(b), NEW d,
         \A p \in Addr \cup {Exit} : d[p] = OnwardInBody(b, d, p)
  PROVE  \A p \in Addr : d[p] = Gets(b, p)
  <1> DEFINE S == {k \in 0 .. N : \A q \in Targets : Number(q) <= k => d[q] = Dest(q)}
  <1>1. N \in Nat /\ Addr = 1 .. N /\ Targets \subseteq Addr BY Bounds DEF Targets
  <1>2. \A q \in Addr : Number(q) \in 1 .. N
    <2>1. Numbers \in [Addr -> Addr] BY NumbersFall DEF FlowAssumed
    <2> QED BY <1>1, <2>1 DEF Number
  <1>3. d[Exit] = Exit /\ Dest(Exit) = Exit BY DEF OnwardInBody, Dest
  <1>4. 0 \in S
    <2>1. \A q \in Targets : ~(Number(q) <= 0) BY <1>1, <1>2
    <2> QED BY <1>1, <2>1
  <1>5. ASSUME NEW k \in 0 .. N - 1, k \in S PROVE k + 1 \in S
    <2>1. ASSUME NEW q \in Targets, Number(q) <= k + 1 PROVE d[q] = Dest(q)
      <3>1. q \in Addr /\ d[q] = OnwardInBody(b, d, q) BY <1>1
      <3>2. CASE ~Redirected(b, q) BY <3>1, <3>2, OnwardCases
      <3>3. CASE Redirected(b, q)
        <4>1. d[q] = d[b.ref[q]] /\ b.ref[q] \in Targets \cup {Exit}
          BY <3>1, <3>3, OnwardCases
        <4>2. Dest(b.ref[q]) = Dest(q) BY <3>3, TargetGets
        <4>3. CASE b.ref[q] = Exit BY <1>3, <4>1, <4>2, <4>3
        <4>4. CASE b.ref[q] \in Targets
          <5>1. Number(b.ref[q]) < Number(q) BY <3>3, <4>4, TargetGets
          <5>2. Number(b.ref[q]) \in Nat /\ Number(q) \in Nat /\ k \in Nat
            BY <1>1, NumberIs
          <5>3. Number(q) <= k + 1 BY <2>1
          <5>4. Number(b.ref[q]) <= k BY ONLY <5>1, <5>2, <5>3
          <5>5. d[b.ref[q]] = Dest(b.ref[q]) BY <1>5, <4>4, <5>4
          <5> QED BY <4>1, <4>2, <5>5
        <4> QED BY <4>1, <4>3, <4>4
      <3> QED BY <3>2, <3>3
    <2>2. k + 1 \in 0 .. N BY <1>1
    <2> QED BY <2>1, <2>2
  <1>6. 0 .. N \subseteq S
    <2> HIDE DEF S
    <2> QED BY <1>1, <1>4, <1>5, UpToInduction
  <1>7. \A q \in Targets \cup {Exit} : d[q] = Dest(q)
    <2>1. N \in S BY <1>1, <1>6
    <2> QED BY <1>1, <1>2, <1>3, <2>1
  <1>8. ASSUME NEW p \in Addr PROVE d[p] = Gets(b, p)
    <2>1. CASE Redirected(b, p) BY <1>7, <2>1, OnwardCases DEF Gets
    <2>2. CASE ~Redirected(b, p) BY <2>2, OnwardCases DEF Gets
    <2> QED BY <2>1, <2>2
  <1> QED BY <1>8

LEMMA LeadsInBodyIs ==
  ASSUME FlowAssumed, code \in Programs, body \in Body, Tiled(body), Routed(body)
  PROVE  /\ \A p \in Addr : LeadsInBody[p] = Gets(body, p)
         /\ LeadsInBody[Exit] = Exit
  <1> DEFINE A == Addr \cup {Exit}
             W == [p \in A |-> IF p = Exit THEN Exit ELSE Gets(body, p)]
             Row(d) == [p \in A |-> IF p = Exit THEN Exit
                                    ELSE IF HeadOp(body, p) = NoOp THEN Leads[p]
                                    ELSE IF Kind(HeadOp(body, p)) \in {"jmp", "ret"}
                                    THEN IF body.ref[p] = None THEN Out ELSE d[body.ref[p]]
                                    ELSE p]
             dest == CHOOSE d : d = Row(d)
  <1>1. \A d : Row(d) = [p \in A |-> OnwardInBody(body, d, p)] BY DEF OnwardInBody
  <1>2. Exit \notin Addr /\ Targets \subseteq Addr BY Bounds DEF Exit, Targets
  <1>3. ASSUME NEW q \in Targets PROVE W[q] = Dest(q)
    <2>1. W[q] = Gets(body, q) BY <1>2
    <2>2. Redirected(body, q) => Dest(body.ref[q]) = Dest(q) BY TargetGets
    <2> QED BY <2>1, <2>2 DEF Gets
  <1>4. W[Exit] = Exit /\ Dest(Exit) = Exit BY DEF Dest
  <1>5. ASSUME NEW p \in A PROVE W[p] = OnwardInBody(body, W, p)
    <2>1. CASE p = Exit BY <2>1 DEF OnwardInBody
    <2>2. CASE p \in Addr
      <3>1. W[p] = Gets(body, p) BY <1>2, <2>2
      <3> HIDE DEF W
      <3>2. CASE Redirected(body, p)
        <4>1. OnwardInBody(body, W, p) = W[body.ref[p]] /\ body.ref[p] \in Targets \cup {Exit}
          BY <2>2, <3>2, OnwardCases
        <4>2. W[body.ref[p]] = Dest(body.ref[p]) BY <1>3, <1>4, <4>1
        <4> QED BY <3>1, <3>2, <4>1, <4>2 DEF Gets
      <3>3. CASE ~Redirected(body, p)
        <4>1. OnwardInBody(body, W, p) = Dest(p) BY <2>2, <3>3, OnwardCases
        <4> QED BY <3>1, <3>3, <4>1 DEF Gets
      <3> QED BY <3>2, <3>3
    <2> QED BY <2>1, <2>2
  <1>6. W = Row(W)
    <2>1. W = [p \in A |-> W[p]] OBVIOUS
    <2> HIDE DEF W
    <2>2. [p \in A |-> W[p]] = [p \in A |-> OnwardInBody(body, W, p)] BY <1>5
    <2> HIDE DEF Row
    <2> QED BY <1>1, <2>1, <2>2
  <1>7. dest = Row(dest)
    <2> HIDE DEF Row, W
    <2> QED BY <1>6
  <1>8. LeadsInBody = dest BY DEF LeadsInBody
  <1> HIDE DEF dest, W
  <1>9. \A p \in A : dest[p] = OnwardInBody(body, dest, p)
    <2>1. dest = [p \in A |-> OnwardInBody(body, dest, p)]
      <3> HIDE DEF Row
      <3> QED BY <1>1, <1>7
    <2> QED BY <2>1
  <1>10. \A p \in Addr : dest[p] = Gets(body, p) BY <1>9, GetsThere
  <1>11. dest[Exit] = Exit BY <1>9 DEF OnwardInBody
  <1> QED BY <1>8, <1>10, <1>11

(* Where a goto points, control gets to what it ought to lead to.          *)
LEMMA GotoGets ==
  ASSUME FlowAssumed, code \in Programs, body \in Body, Tiled(body), Routed(body),
         NEW a \in Addr, body.ref[a] # None
  PROVE  LeadsInBody[body.ref[a]] = Dest(Aim(Source(body, a)))
  <1>1. body.ref[a] \in Targets \cup {Exit}
        /\ Dest(body.ref[a]) = Dest(Aim(Source(body, a)))
    BY DEF Routed, Routes, Same
  <1>2. CASE body.ref[a] = Exit
    <2>1. Dest(Exit) = Exit BY DEF Dest
    <2> QED BY <1>1, <1>2, <2>1, LeadsInBodyIs
  <1>3. CASE body.ref[a] \in Targets
    <2> DEFINE q == body.ref[a]
    <2>1. q \in Addr BY <1>3 DEF Targets
    <2>2. LeadsInBody[q] = Gets(body, q) BY <2>1, LeadsInBodyIs
    <2>3. Redirected(body, q) => Dest(body.ref[q]) = Dest(q) BY <1>3, TargetGets
    <2>4. Gets(body, q) = Dest(q) BY <2>3 DEF Gets
    <2> QED BY <1>1, <2>2, <2>4
  <1> QED BY <1>1, <1>2, <1>3

LEMMA SameFlowFollows ==
  ASSUME FlowAssumed, IInv, FlowInv
  PROVE  SameFlow
  <1> SUFFICES ASSUME ~body.broken, NEW p \in Live
               PROVE  LET o == TailOp(body, p)
                          a == o[1]
                          yes == LeadsInBody[GotoPath(body, p)]
                          no == LeadsInBody[a + 1]
                      IN  /\ BlockType(body, p) = "jif" /\ body.ref[a] # None =>
                                /\ a \notin body.flip => yes = Leads[code[a].to]
                                /\ a + 1 \in Live =>
                                      IF a \in body.flip
                                      THEN yes = Leads[a + 1] /\ no = Leads[code[a].to]
                                      ELSE no = Leads[a + 1]
                          /\ BlockType(body, p) = "jmp" /\ Kind(o) = "jmp" /\ body.ref[a] # None
                                /\ a - 1 \notin body.flip =>
                                yes = Leads[code[a].to]
    BY DEF SameFlow
  <1> DEFINE o == TailOp(body, p)
             a == o[1]
             yes == LeadsInBody[GotoPath(body, p)]
             no == LeadsInBody[a + 1]
  <1>1. code \in Programs /\ body \in Body /\ Tiled(body) /\ Routed(body)
    BY DEF IInv, Typed, InOrder, Builds, FlowInv
  <1>2. p \in Addr /\ p # Exit BY <1>1, BodyFields DEF Live, Paths
  <1>3. yes = LeadsInBody[body.ref[a]] BY DEF GotoPath
  <1>4. ASSUME BlockType(body, p) \in {"jif", "jmp"} PROVE a \in Addr /\ o # NoOp
    <2>1. o # NoOp BY <1>2, <1>4 DEF BlockType
    <2> QED BY <1>1, <2>1, TailIs
  <1>5. ASSUME a \in Addr, code[a].kind \in Jumps, body.ref[a] # None, Source(body, a) = a
        PROVE  yes = Leads[code[a].to]
    <2>1. yes = Dest(Aim(a)) BY <1>1, <1>3, <1>5, GotoGets
    <2>2. Aim(a) = code[a].to /\ Aim(a) # Exit BY <1>1, <1>5, DestIs
    <2> QED BY <2>1, <2>2 DEF Dest
  <1>6. ASSUME BlockType(body, p) = "jif", body.ref[a] # None
        PROVE  /\ a \notin body.flip => yes = Leads[code[a].to]
               /\ a + 1 \in Live =>
                     IF a \in body.flip
                     THEN yes = Leads[a + 1] /\ no = Leads[code[a].to]
                     ELSE no = Leads[a + 1]
    <2>1. a \in Addr /\ code[a].kind = "jif"
      <3>1. Kind(o) = "jif" BY <1>2, <1>6 DEF BlockType
      <3> QED BY <1>4, <1>6, <3>1 DEF Kind
    <2>2. a - 1 \notin body.flip
      <3> SUFFICES ASSUME a - 1 \in body.flip PROVE FALSE
        OBVIOUS
      <3>1. code[(a - 1) + 1].kind \in {"jmp", "ret"} BY <1>1 DEF Routed, Flips
      <3>2. (a - 1) + 1 = a BY <2>1, Bounds
      <3> QED BY <2>1, <3>1, <3>2
    <2>3. ASSUME a \notin body.flip PROVE yes = Leads[code[a].to]
      <3>1. Source(body, a) = a BY <2>2, <2>3 DEF Source
      <3> QED BY <1>5, <1>6, <2>1, <3>1 DEF Jumps
    <2>4. ASSUME a + 1 \in Live PROVE a + 1 \in Addr /\ no = Gets(body, a + 1)
      <3>1. a + 1 \in Addr BY <1>1, <2>4, BodyFields DEF Live
      <3> QED BY <1>1, <3>1, LeadsInBodyIs
    <2>5. ASSUME a + 1 \in Live, a \in body.flip
          PROVE  yes = Leads[a + 1] /\ no = Leads[code[a].to]
      <3> DEFINE n == a + 1
      <3>1. /\ code[n].kind \in {"jmp", "ret"} /\ body.ref[n] # None
            /\ <<n, 1>> \in Contents(body) /\ n \in Addr
        BY <1>1, <2>5 DEF Routed, Flips
      <3>2. Source(body, a) = n BY <2>5 DEF Source
      <3>3. Source(body, n) = a
        <4>1. n \notin body.flip BY <1>1, <3>1 DEF Routed, Flips
        <4>2. n - 1 = a BY <2>1, Bounds
        <4> QED BY <2>5, <4>1, <4>2 DEF Source
      <3>4. yes = Leads[n]
        <4>1. yes = Dest(Aim(n)) BY <1>1, <1>3, <1>6, <2>1, <3>2, GotoGets
        <4> QED BY <1>1, <3>1, <4>1, DestIs
      <3>5. body.ops[n] # <<>>
        <4>1. n \in WholeIn(body)
          <5>1. Last(Parts(n)) = <<n, 1>> BY <3>1, LastPart
          <5> QED BY <3>1, <5>1 DEF WholeIn
        <4>2. PICK q \in Paths(body) : body.ops[q] # <<>> /\ q <= n /\ n < EndOf(body, q)
          BY <1>1, <4>1, InWhole
        <4>3. n \in Paths(body) /\ q \in Addr BY <1>1, <2>5, <4>2, BodyFields DEF Live
        <4>4. ~(q < n)
          <5> SUFFICES ASSUME q < n PROVE FALSE
            OBVIOUS
          <5>1. EndOf(body, q) <= n BY <1>1, <4>2, <4>3 DEF Tiled
          <5>2. EndOf(body, q) \in q .. Out BY <1>1, <4>2, EndOfBounds
          <5>3. EndOf(body, q) \in Int /\ n \in Int BY <3>1, <4>3, <5>2, Bounds
          <5> HIDE DEF n
          <5> QED BY <4>2, <5>1, <5>3
        <4>5. q = n
          <5>1. q \in Int /\ n \in Int BY <3>1, <4>3, Bounds
          <5> HIDE DEF n
          <5> QED BY <4>2, <4>4, <5>1
        <4> QED BY <4>2, <4>5
      <3>6. no = Dest(body.ref[n]) BY <2>4, <2>5, <3>1, <3>5 DEF Gets, Redirected
      <3>7. Dest(body.ref[n]) = Dest(Aim(a))
        BY <1>1, <3>1, <3>3 DEF Routed, Routes, Same
      <3>8. Dest(Aim(a)) = Leads[code[a].to]
        <4>1. Aim(a) = code[a].to /\ Aim(a) # Exit BY <1>1, <2>1, DestIs DEF Jumps
        <4> QED BY <4>1 DEF Dest
      <3> QED BY <3>4, <3>6, <3>7, <3>8
    <2>6. ASSUME a + 1 \in Live, a \notin body.flip PROVE no = Leads[a + 1]
      <3> DEFINE n == a + 1
      <3>1. n \in Addr /\ no = Gets(body, n) BY <2>4, <2>6
      <3>2. CASE ~Redirected(body, n) BY <1>1, <3>1, <3>2, DestIs DEF Gets
      <3>3. CASE Redirected(body, n)
        <4>1. code[n].kind \in {"jmp", "ret"} /\ body.ref[n] # None BY <3>3 DEF Redirected
        <4>2. Source(body, n) = n
          <5>1. n \notin body.flip BY <1>1, <4>1 DEF Routed, Flips
          <5>2. n - 1 = a BY <2>1, Bounds
          <5> QED BY <2>6, <5>1, <5>2 DEF Source
        <4>3. Dest(body.ref[n]) = Dest(Aim(n))
          BY <1>1, <3>1, <4>1, <4>2 DEF Routed, Routes, Same
        <4>4. Dest(Aim(n)) = Leads[n] BY <1>1, <3>1, <4>1, DestIs
        <4> QED BY <3>1, <3>3, <4>3, <4>4 DEF Gets
      <3> QED BY <3>2, <3>3
    <2> QED BY <2>3, <2>5, <2>6
  <1>7. ASSUME BlockType(body, p) = "jmp", Kind(o) = "jmp", body.ref[a] # None,
               a - 1 \notin body.flip
        PROVE  yes = Leads[code[a].to]
    <2>1. a \in Addr /\ code[a].kind = "jmp" BY <1>4, <1>7 DEF Kind
    <2>2. a \notin body.flip BY <1>1, <2>1 DEF Routed, Flips
    <2>3. Source(body, a) = a BY <1>7, <2>2 DEF Source
    <2> QED BY <1>5, <1>7, <2>1, <2>3 DEF Jumps
  <1> QED BY <1>6, <1>7

(* What is generated goes where the code goes (AdjustGoto and TraceGoto    *)
(* turn gotos past jumps, AdjustGoto2 inverts a conditional jump with the  *)
(* jump behind it): in the body of every function, whatever the user does, *)
(* a jump that is taken leads to where it leads in the code, and so does   *)
(* one that is not. Assumed of the code is that jumps do not move the      *)
(* stack, do not go in circles, lead to an instruction of the function or  *)
(* out of it, and none to a jump that stands behind a conditional one.     *)
THEOREM ControlGoesOn == FlowAssumed => (Spec => []SameFlow)
  <1> SUFFICES ASSUME FlowAssumed PROVE Spec => []SameFlow
    OBVIOUS
  <1>1. JumpsAreLevel BY DEF FlowAssumed
  <1>2. IInv /\ LevelInv /\ [Next]_vars => LevelInv' BY <1>1, NextLevels
  <1>3. IInv /\ LevelInv /\ FlowInv /\ [Next]_vars => FlowInv' BY NextFlow
  <1>4. IInv /\ FlowInv => SameFlow BY SameFlowFollows
  <1> QED BY <1>2, <1>3, <1>4, InitLevels, InitFlow, AlwaysIInv, PTL DEF Spec
=============================================================================
