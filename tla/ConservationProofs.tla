-------------------------- MODULE ConservationProofs --------------------------
(***************************************************************************)
(* The engine core keeps its books, for any users, markets, orders, prices *)
(* and parameters: every long contract has its short, and the deposits are *)
(* the cash and the equity of all positions, after every step.  Then come  *)
(* markets in reduce-only mode, whose open interest no command increases,  *)
(* and last what is reserved for orders.                                   *)
(*                                                                         *)
(* Neither is inductive alone.  A fill, seen at any one price, changes     *)
(* what a party's account is worth by its contracts times the distance to  *)
(* the price of the fill (Moves); the two parties cancel.  What the mark   *)
(* does to the worth of a market is its net position times the move, and   *)
(* that net position is zero.  So the two are proved together, on top of   *)
(* the invariant EInv of EngineProofs.                                     *)
(***************************************************************************)
EXTENDS EngineProofs

\* the net position of a market and its worth at price x; what the accounts w
\* of a market are worth altogether, but for the remainders of divisions
NetOf(ps) == SumFunction([a \in Accounts |-> Signed(ps[a])])
Worth(ps, x) == SumFunction([a \in Accounts |-> FineEquity(ps[a], x)])
Funds(w) == w.fees + SumFunction(w.free) + SumFunction(w.reserved)
Value(w, x) == Fine(Funds(w)) + Worth(w.pos, x) - w.dust

\* from w to v the market has gained n contracts bought at px, and c
Moves(v, w, n, c, px) ==
    /\ NetOf(v.pos) = NetOf(w.pos) + n
    /\ \A x \in Int : Value(v, x) = Value(w, x) + Fine(c) + n * (x - px)
-----------------------------------------------------------------------------
\* Sums over the accounts.

(* A sum over the accounts is an integer.                                   *)
LEMMA AccountSum ==
    ASSUME NEW f \in [Accounts -> Int]
    PROVE  SumFunction(f) \in Int /\ SumFunction(f) = SumFunctionOnSet(f, Accounts)
<1>1. SumFunction(f) = SumFunctionOnSet(f, Accounts)
  BY DEF SumFunction
<1>2. \A a \in Accounts : f[a] \in Int
  OBVIOUS
<1> QED BY <1>1, <1>2, AccountsFinite, SumInt

(* It moves with the entry of one account.                                  *)
LEMMA AccountMoves ==
    ASSUME NEW f \in [Accounts -> Int], NEW g \in [Accounts -> Int],
           NEW u \in Accounts, NEW d \in Int, g[u] = f[u] + d,
           \A a \in Accounts \ {u} : g[a] = f[a]
    PROVE  SumFunction(g) = SumFunction(f) + d
<1>1. SumFunctionOnSet(g, Accounts) = SumFunctionOnSet(f, Accounts) + d
  <2>1. \A a \in Accounts : f[a] \in Int
    OBVIOUS
  <2> QED BY <2>1, AccountsFinite, SumMoves
<1> QED BY <1>1, AccountSum

LEMMA FineZero == Fine(0) = 0
BY ScaleAssumption DEF Fine

(* The entries of a market's positions.                                     *)
LEMMA PositionSums ==
    ASSUME NEW ps \in [Accounts -> Position]
    PROVE  /\ [a \in Accounts |-> Signed(ps[a])] \in [Accounts -> Int]
           /\ NetOf(ps) \in Int
           /\ \A x \in Int :
                 /\ [a \in Accounts |-> FineEquity(ps[a], x)] \in [Accounts -> Int]
                 /\ Worth(ps, x) \in Int
<1>1. [a \in Accounts |-> Signed(ps[a])] \in [Accounts -> Int]
  BY SignedInt
<1>2. ASSUME NEW x \in Int
      PROVE  [a \in Accounts |-> FineEquity(ps[a], x)] \in [Accounts -> Int]
  BY EquityInt
<1> QED BY <1>1, <1>2, AccountSum DEF NetOf, Worth

(* What the accounts of a market are worth is an integer.                   *)
LEMMA ValueInt == ASSUME NEW w, IsWorld(w), NEW x \in Int
                  PROVE  Value(w, x) \in Int /\ NetOf(w.pos) \in Int
<1>1. /\ w.free \in [Accounts -> Int] /\ w.reserved \in [Accounts -> Int]
      /\ w.pos \in [Accounts -> Position] /\ w.fees \in Int /\ w.dust \in Int
  BY DEF IsWorld
<1>2. Funds(w) \in Int
  BY <1>1, AccountSum DEF Funds
<1>3. Worth(w.pos, x) \in Int /\ NetOf(w.pos) \in Int
  BY <1>1, PositionSums
<1>4. Fine(Funds(w)) \in Int
  BY <1>2, FineInt
<1> QED BY <1>1, <1>3, <1>4 DEF Value

(* The worth of a market moves with its net position.                       *)
LEMMA WorthFollowsNet ==
    ASSUME NEW ps \in [Accounts -> Position], NEW x \in Int, NEW y \in Int
    PROVE  Worth(ps, y) = Worth(ps, x) + (y - x) * NetOf(ps)
<1> DEFINE f == [a \in Accounts |-> FineEquity(ps[a], x)]
           s == [a \in Accounts |-> Signed(ps[a])]
           g == [a \in Accounts |-> (y - x) * Signed(ps[a])]
           h == [a \in Accounts |-> FineEquity(ps[a], y)]
<1>1. \A a \in Accounts : /\ f[a] \in Int /\ s[a] \in Int /\ g[a] \in Int
                          /\ h[a] \in Int
                          /\ g[a] = (y - x) * s[a]
                          /\ h[a] = f[a] + g[a]
  <2> SUFFICES ASSUME NEW p \in Position
               PROVE  /\ FineEquity(p, x) \in Int /\ Signed(p) \in Int
                      /\ (y - x) * Signed(p) \in Int
                      /\ FineEquity(p, y) \in Int
                      /\ FineEquity(p, y)
                            = FineEquity(p, x) + (y - x) * Signed(p)
    OBVIOUS
  <2>1. p.qty \in Int /\ p.entry \in Int /\ p.col \in Int
    BY DEF Position
  <2>2. FineEquity(p, y) = FineEquity(p, x) + (y - x) * Signed(p)
    <3> DEFINE d == dirOf(p.side)
               e == p.entry
               q == p.qty
               a == (x - e) * q * d
               b == (y - e) * q * d
               k == (y - x) * (d * q)
               c == Fine(p.col)
    <3>1. d \in {1, -1} /\ e \in Int /\ q \in Int /\ c \in Int
      BY <2>1, FineInt DEF dirOf
    <3>2. /\ FineEquity(p, x) = c + a /\ FineEquity(p, y) = c + b
          /\ (y - x) * Signed(p) = k
      BY DEF FineEquity, Signed
    <3> HIDE DEF d, e, q
    <3>3. b = a + k /\ a \in Int /\ b \in Int /\ k \in Int
      <4>1. CASE d = 1
        BY <3>1, <4>1
      <4>2. CASE d = -1
        BY <3>1, <4>2
      <4> QED BY <3>1, <4>1, <4>2
    <3> HIDE DEF a, b, k, c
    <3> QED BY <3>1, <3>2, <3>3
  <2>3. FineEquity(p, x) \in Int /\ FineEquity(p, y) \in Int /\ Signed(p) \in Int
    BY EquityInt, SignedInt
  <2>4. (y - x) * Signed(p) \in Int
    <3>1. \A k \in Int : (y - x) * k \in Int
      OBVIOUS
    <3> QED BY <2>3, <3>1
  <2> QED BY <2>2, <2>3, <2>4
<1>2. /\ f \in [Accounts -> Int] /\ s \in [Accounts -> Int] /\ g \in [Accounts -> Int]
      /\ h \in [Accounts -> Int]
  BY <1>1
<1>3. /\ Worth(ps, x) = SumFunction(f) /\ Worth(ps, y) = SumFunction(h)
      /\ NetOf(ps) = SumFunction(s)
  BY DEF Worth, NetOf
<1> HIDE DEF f, s, g, h
<1>4. SumFunctionOnSet(h, Accounts)
        = SumFunctionOnSet(f, Accounts) + SumFunctionOnSet(g, Accounts)
  BY <1>1, AccountsFinite, SumAdd
<1>5. SumFunctionOnSet(g, Accounts) = (y - x) * SumFunctionOnSet(s, Accounts)
  <2>1. y - x \in Int
    OBVIOUS
  <2> QED BY <1>1, <2>1, AccountsFinite, SumScale
<1> QED BY <1>2, <1>3, <1>4, <1>5, AccountSum
-----------------------------------------------------------------------------
\* What a fill moves.

(* A leg moves what it books.                                               *)
LEMMA BookedMoves ==
    ASSUME NEW w, IsWorld(w), NEW v, IsWorld(v), NEW u \in Accounts,
           NEW n \in Int, NEW c \in Int, NEW px \in Int, Booked(v, w, u, n, c, px),
           \A a \in Accounts \ {u} : v.pos[a] = w.pos[a]
    PROVE  Moves(v, w, n, c, px)
<1>1. PICK out, bad, put \in Int :
        /\ \A a \in Accounts :
              v.free[a] = w.free[a] - (IF a = Fund THEN bad ELSE 0)
                                    + (IF a = u THEN out ELSE 0)
        /\ \A a \in Accounts :
              v.reserved[a] = w.reserved[a] + (IF a = u THEN put ELSE 0)
        /\ \A x \in Int :
              FineEquity(v.pos[u], x) + Fine(out - bad + put + v.fees) - v.dust
                 = FineEquity(w.pos[u], x) + Fine(w.fees + c) - w.dust
                     + n * (x - px)
  BY DEF Booked
<1>2. /\ w.free \in [Accounts -> Int] /\ w.reserved \in [Accounts -> Int]
      /\ w.pos \in [Accounts -> Position] /\ w.fees \in Int /\ w.dust \in Int
      /\ v.free \in [Accounts -> Int] /\ v.reserved \in [Accounts -> Int]
      /\ v.pos \in [Accounts -> Position] /\ v.fees \in Int /\ v.dust \in Int
      /\ Fund \in Accounts
  BY FundIsNoUser DEF IsWorld
<1>3. SumFunction(v.free) = SumFunction(w.free) - bad + out
  <2> DEFINE mid == [a \in Accounts |-> w.free[a] - (IF a = Fund THEN bad ELSE 0)]
  <2>1. /\ mid \in [Accounts -> Int]
        /\ mid[Fund] = w.free[Fund] + (-bad)
        /\ \A a \in Accounts \ {Fund} : mid[a] = w.free[a]
    BY <1>2
  <2>2. /\ v.free[u] = mid[u] + out
        /\ \A a \in Accounts \ {u} : v.free[a] = mid[a]
    BY <1>1, <1>2
  <2> HIDE DEF mid
  <2>3. SumFunction(mid) = SumFunction(w.free) + (-bad)
    BY <1>2, <2>1, AccountMoves
  <2> DEFINE last == v.free
  <2>6. /\ last \in [Accounts -> Int] /\ last[u] = mid[u] + out
        /\ \A a \in Accounts \ {u} : last[a] = mid[a]
    BY <1>2, <2>2
  <2> HIDE DEF last
  <2>7. SumFunction(last) = SumFunction(mid) + out
    BY <2>1, <2>6, AccountMoves
  <2>4. SumFunction(v.free) = SumFunction(mid) + out
    BY <2>7 DEF last
  <2>5. SumFunction(w.free) \in Int
    BY <1>2, AccountSum
  <2> QED BY <2>3, <2>4, <2>5
<1>4. SumFunction(v.reserved) = SumFunction(w.reserved) + put
  <2>1. /\ v.reserved[u] = w.reserved[u] + put
        /\ \A a \in Accounts \ {u} : v.reserved[a] = w.reserved[a]
    BY <1>1, <1>2
  <2> DEFINE f == w.reserved
             g == v.reserved
  <2>2. /\ f \in [Accounts -> Int] /\ g \in [Accounts -> Int] /\ g[u] = f[u] + put
        /\ \A a \in Accounts \ {u} : g[a] = f[a]
    BY <1>2, <2>1
  <2> HIDE DEF f, g
  <2>3. SumFunction(g) = SumFunction(f) + put
    BY <2>2, AccountMoves
  <2> QED BY <2>3 DEF f, g
<1>5. NetOf(v.pos) = NetOf(w.pos) + n
  <2> DEFINE f == [a \in Accounts |-> Signed(w.pos[a])]
             g == [a \in Accounts |-> Signed(v.pos[a])]
  <2>1. f \in [Accounts -> Int] /\ g \in [Accounts -> Int]
    BY <1>2, PositionSums
  <2>2. g[u] = f[u] + n /\ \A a \in Accounts \ {u} : g[a] = f[a]
    BY DEF Booked
  <2>3. NetOf(v.pos) = SumFunction(g) /\ NetOf(w.pos) = SumFunction(f)
    BY DEF NetOf
  <2> HIDE DEF f, g
  <2> QED BY <2>1, <2>2, <2>3, AccountMoves
<1>6. ASSUME NEW x \in Int
      PROVE  Value(v, x) = Value(w, x) + Fine(c) + n * (x - px)
  <2> DEFINE ew == FineEquity(w.pos[u], x)
             ev == FineEquity(v.pos[u], x)
             f == [a \in Accounts |-> FineEquity(w.pos[a], x)]
             g == [a \in Accounts |-> FineEquity(v.pos[a], x)]
             gain == n * (x - px)
  <2>1. f \in [Accounts -> Int] /\ g \in [Accounts -> Int]
    BY <1>2, PositionSums
  <2>2. ew \in Int /\ ev \in Int /\ f[u] = ew /\ g[u] = ev /\ gain \in Int
    BY <1>2, EquityInt
  <2>3. \A a \in Accounts \ {u} : g[a] = f[a]
    OBVIOUS
  <2>4. Worth(v.pos, x) = SumFunction(g) /\ Worth(w.pos, x) = SumFunction(f)
    BY DEF Worth
  <2>5. ev + Fine(out - bad + put + v.fees) - v.dust
          = ew + Fine(w.fees + c) - w.dust + gain
    BY <1>1
  <2> HIDE DEF ew, ev, f, g, gain
  <2>6. g[u] = f[u] + (ev - ew) /\ ev - ew \in Int
    BY <2>2
  <2>7. Worth(v.pos, x) = Worth(w.pos, x) + (ev - ew)
    BY <2>1, <2>3, <2>4, <2>6, AccountMoves
  <2>8. PICK k \in Int : Funds(v) = k + (out - bad + put + v.fees)
                          /\ Funds(w) = k + w.fees
    <3> DEFINE F == SumFunction(w.free)
               R == SumFunction(w.reserved)
    <3>1. F \in Int /\ R \in Int
      BY <1>2, AccountSum
    <3>2. /\ Funds(v) = v.fees + (F - bad + out) + (R + put)
          /\ Funds(w) = w.fees + F + R
      BY <1>3, <1>4 DEF Funds
    <3> HIDE DEF F, R
    <3>3. F + R \in Int /\ Funds(v) = (F + R) + (out - bad + put + v.fees)
          /\ Funds(w) = (F + R) + w.fees
      BY <1>2, <3>1, <3>2
    <3> QED BY <3>3
  <2> DEFINE s == out - bad + put + v.fees
             i == Fine(k)
             j == Fine(s)
             l == Fine(w.fees)
             o == Fine(c)
  <2>9. /\ Fine(Funds(v)) = i + j /\ Fine(Funds(w)) = i + l
        /\ Fine(w.fees + c) = l + o
        /\ i \in Int /\ j \in Int /\ l \in Int /\ o \in Int
    <3>1. s \in Int /\ w.fees \in Int /\ Funds(v) = k + s /\ Funds(w) = k + w.fees
      BY <1>2, <2>8
    <3> HIDE DEF s
    <3>2. /\ Fine(k + s) = i + j /\ Fine(k + w.fees) = i + l
          /\ Fine(w.fees + c) = l + o
      BY <3>1, FineAdds
    <3> QED BY <3>1, <3>2, FineInt
  <2> DEFINE A == Worth(w.pos, x)
  <2>10. A \in Int /\ ev + j - v.dust = ew + (l + o) - w.dust + gain
    BY <1>2, <2>5, <2>9, PositionSums
  <2>11. /\ Value(v, x) = (i + j) + (A + (ev - ew)) - v.dust
         /\ Value(w, x) = (i + l) + A - w.dust
    BY <2>7, <2>9 DEF Value
  <2> HIDE DEF i, j, l, o, A, s
  <2>12. (i + j) + (A + (ev - ew)) - v.dust = ((i + l) + A - w.dust) + o + gain
    BY <1>2, <2>2, <2>9, <2>10
  <2> QED BY <2>11, <2>12 DEF o, gain
<1> QED BY <1>5, <1>6 DEF Moves

(* Moves add up.                                                            *)
LEMMA MovesTwice ==
    ASSUME NEW w, IsWorld(w), NEW v, IsWorld(v), NEW z, IsWorld(z),
           NEW n \in Int, NEW k \in Int, NEW c \in Int, NEW d \in Int, NEW px \in Int,
           Moves(v, w, n, c, px), Moves(z, v, k, d, px)
    PROVE  Moves(z, w, n + k, c + d, px)
<1>1. NetOf(z.pos) = NetOf(w.pos) + (n + k)
  <2>1. /\ NetOf(v.pos) = NetOf(w.pos) + n /\ NetOf(z.pos) = NetOf(v.pos) + k
    BY DEF Moves
  <2>2. NetOf(w.pos) \in Int
    BY ValueInt, 0 \in Int
  <2> QED BY <2>1, <2>2
<1>2. ASSUME NEW x \in Int
      PROVE  Value(z, x) = Value(w, x) + Fine(c + d) + (n + k) * (x - px)
  <2> DEFINE a == Value(w, x)
             b == Value(v, x)
             e == Value(z, x)
             g == n * (x - px)
             h == k * (x - px)
             i == Fine(c)
             j == Fine(d)
  <2>1. b = a + i + g /\ e = b + j + h
    BY DEF Moves
  <2>2. a \in Int /\ g \in Int /\ h \in Int /\ (n + k) * (x - px) = g + h
    BY ValueInt
  <2>4. Fine(c + d) = i + j /\ i \in Int /\ j \in Int
    BY FineAdds, FineInt
  <2> HIDE DEF a, b, e, g, h, i, j
  <2>3. e = a + (i + j) + (g + h)
    BY <2>1, <2>2, <2>4
  <2> QED BY <2>2, <2>3, <2>4 DEF a, e
<1> QED BY <1>1, <1>2 DEF Moves

(* One party's side of a fill, closing, opening or both, moves its contracts*)
(* and nothing else: the reservation it draws and the fee stay in the books.*)
LEMMA ApplyFillMoves ==
    ASSUME NEW w, IsWorld(w), NEW u \in Accounts, NEW side \in Sides,
           NEW px \in Nat, NEW q \in Nat \ {0}, NEW col \in Nat, NEW fee \in Nat
    PROVE  LET v == ApplyFill(w, u, side, px, q, col, fee)
           IN IsWorld(v) /\ Moves(v, w, dirOf(side) * q, 0, px)
<1> DEFINE p == w.pos[u]
           closeQty == IF p.side = side THEN 0 ELSE bigmin(q, p.qty)
           colForClose == (col * closeQty) \div q
           opened == q - closeQty
           backing == col - colForClose
           d == dirOf(side)
           res == [w.reserved EXCEPT ![u] = @ - (col + fee)]
           w1 == [w EXCEPT !.reserved[u] = @ - (col + fee), !.fees = @ + fee]
           w2 == IF closeQty = 0 THEN w1 ELSE CloseLeg(w1, u, px, closeQty, colForClose)
           v == ApplyFill(w, u, side, px, q, col, fee)
<1>1. p \in Position /\ p.side \in Sides /\ p.qty \in Nat /\ px \in Int
  BY DEF IsWorld, Position
<1>2. /\ closeQty \in Nat /\ closeQty <= q
      /\ closeQty > 0 => closeQty <= p.qty /\ p.side # side
      /\ closeQty = 0 => p.side = side \/ p.qty = 0
      /\ closeQty > 0 /\ closeQty < q => closeQty = p.qty
  BY <1>1 DEF bigmin
<1>3. /\ d \in {1, -1}
      /\ p.side # side => dirOf(p.side) = -d
  BY <1>1 DEF dirOf, Sides
<1>4. /\ colForClose \in Nat /\ backing \in Nat
      /\ closeQty = q => colForClose = col
      /\ closeQty = 0 => colForClose = 0
  <2> HIDE DEF closeQty
  <2>1. colForClose \in Nat /\ colForClose <= col
    BY <1>2, ShareBound
  <2>2. closeQty = q => colForClose = col
    BY MulDivExact
  <2>3. closeQty = 0 => colForClose = 0
    BY DivNat
  <2> HIDE DEF colForClose
  <2> QED BY <2>1, <2>2, <2>3
<1>5. w1 = [w EXCEPT !.reserved = res, !.fees = w.fees + fee]
  OBVIOUS
<1>6. v = IF q = closeQty THEN w2 ELSE OpenLeg(w2, u, side, px, opened, backing)
  BY DEF ApplyFill
<1>7. opened \in Nat /\ (closeQty # q => opened \in Nat \ {0}) /\ opened + closeQty = q
  <2> HIDE DEF closeQty
  <2> QED BY <1>2
<1> HIDE DEF w1, closeQty, colForClose, v, opened, backing
<1>8. IsWorld(w1) /\ w1.pos = w.pos /\ Moves(w1, w, 0, -col, px)
  <2>1. /\ w.reserved \in [Accounts -> Int]
        /\ res \in [Accounts -> Int] /\ w.fees + fee \in Nat
        /\ res[u] = w.reserved[u] + (-(col + fee)) /\ -(col + fee) \in Int
        /\ \A a \in Accounts \ {u} : res[a] = w.reserved[a]
    BY DEF IsWorld
  <2> HIDE DEF res
  <2>2. w1 = [free |-> w.free, reserved |-> res, fees |-> w.fees + fee,
              dust |-> w.dust, pos |-> w.pos]
    BY <1>5 DEF IsWorld
  <2>3. IsWorld(w1) /\ w1.pos = w.pos
    BY <2>1, <2>2 DEF IsWorld
  <2>4. SumFunction(res) = SumFunction(w.reserved) + (-(col + fee))
    <3> DEFINE f == w.reserved
               k == -(col + fee)
    <3>1. /\ f \in [Accounts -> Int] /\ res[u] = f[u] + k /\ k \in Int
          /\ \A a \in Accounts \ {u} : res[a] = f[a]
      BY <2>1
    <3> HIDE DEF f, k
    <3>2. SumFunction(res) = SumFunction(f) + k
      BY <2>1, <3>1, AccountMoves
    <3> QED BY <3>2 DEF f, k
  <2>5. ASSUME NEW x \in Int
        PROVE  Value(w1, x) = Value(w, x) + Fine(-col) + 0 * (x - px)
    <3> DEFINE F == SumFunction(w.free)
               R == SumFunction(w.reserved)
               A == Worth(w.pos, x)
               k == -col
    <3>1. F \in Int /\ R \in Int /\ A \in Int /\ w.fees \in Int /\ w.dust \in Int
      BY AccountSum, PositionSums DEF IsWorld
    <3>2. /\ w1.free = w.free /\ w1.fees = w.fees + fee /\ w1.dust = w.dust
          /\ w1.pos = w.pos
          /\ SumFunction(w1.reserved) = R + (-(col + fee))
      BY <2>2, <2>4
    <3>3. /\ Funds(w1) = (w.fees + fee) + F + (R + (-(col + fee)))
          /\ Funds(w) = w.fees + F + R
      BY <3>2 DEF Funds
    <3> HIDE DEF F, R
    <3>4. Funds(w1) = Funds(w) + k /\ Funds(w) \in Int /\ k \in Int
      BY <3>1, <3>3
    <3> HIDE DEF k
    <3>5. /\ Fine(Funds(w1)) = Fine(Funds(w)) + Fine(k)
          /\ Fine(Funds(w)) \in Int /\ Fine(k) \in Int
      BY <3>4, FineAdds, FineInt
    <3> DEFINE i == Fine(Funds(w))
               j == Fine(k)
    <3>6. /\ Value(w1, x) = (i + j) + A - w.dust /\ Value(w, x) = i + A - w.dust
          /\ i \in Int /\ j \in Int
      BY <3>2, <3>5 DEF Value
    <3>7. 0 * (x - px) = 0
      BY <1>1
    <3> HIDE DEF i, j, A
    <3>8. (i + j) + A - w.dust = (i + A - w.dust) + j + 0
      BY <3>1, <3>6
    <3> QED BY <3>6, <3>7, <3>8 DEF j, k
  <2>6. NetOf(w1.pos) = NetOf(w.pos) + 0
    BY <2>3, ValueInt, 0 \in Int
  <2> QED BY <2>3, <2>5, <2>6 DEF Moves
<1> HIDE DEF res
<1>9. /\ IsWorld(w2)
      /\ closeQty # 0 => w2.pos[u].qty = p.qty - closeQty
      /\ closeQty = 0 => w2.pos = w.pos
      /\ Moves(w2, w, d * closeQty, colForClose - col, px)
  <2>1. CASE closeQty = 0
    <3>1. w2 = w1
      BY <2>1
    <3>2. d * closeQty = 0 /\ colForClose - col = -col
      BY <1>3, <1>4, <2>1
    <3> HIDE DEF w2, d
    <3> QED BY <1>8, <2>1, <3>1, <3>2
  <2>2. CASE closeQty # 0
    <3> DEFINE n == -(dirOf(w1.pos[u].side) * closeQty)
    <3>1. /\ closeQty \in Nat \ {0} /\ closeQty <= w1.pos[u].qty
          /\ w1.pos[u].side = p.side
      BY <1>2, <1>8, <2>2
    <3>2. w2 = CloseLeg(w1, u, px, closeQty, colForClose)
      BY <2>2
    <3> HIDE DEF w2, p
    <3>3. /\ IsWorld(w2)
          /\ \A a \in Accounts \ {u} : w2.pos[a] = w1.pos[a]
          /\ w2.pos[u].qty = w1.pos[u].qty - closeQty
          /\ Booked(w2, w1, u, n, colForClose, px)
      BY <1>4, <1>8, <3>1, <3>2, CloseLegSettles, SMTT(30)
    <3>4. n = d * closeQty /\ n \in Int
      <4>1. dirOf(p.side) = -d
        BY <1>2, <2>2, <1>3 DEF p
      <4> HIDE DEF d
      <4> QED BY <1>2, <1>3, <3>1, <4>1
    <3> HIDE DEF n, d
    <3>5. Moves(w2, w1, n, colForClose, px)
      BY <1>1, <1>4, <1>8, <3>3, <3>4, BookedMoves
    <3>6. -col \in Int /\ colForClose \in Int /\ 0 \in Int
      BY <1>4
    <3>7. Moves(w2, w, 0 + n, (-col) + colForClose, px)
      BY <1>1, <1>8, <3>3, <3>4, <3>5, <3>6, MovesTwice
    <3>8. 0 + n = d * closeQty /\ (-col) + colForClose = colForClose - col
      BY <3>4, <3>6
    <3>9. w2.pos[u].qty = p.qty - closeQty
      BY <1>8, <3>3 DEF p
    <3> QED BY <2>2, <3>3, <3>7, <3>8, <3>9
  <2> QED BY <2>1, <2>2
<1> HIDE DEF w2
<1>10. CASE q = closeQty
  <2>1. v = w2 /\ colForClose - col = 0 /\ d * closeQty = d * q
    BY <1>4, <1>6, <1>10
  <2> QED BY <1>9, <2>1 DEF v
<1>11. CASE q # closeQty
  <2>1. opened \in Nat \ {0} /\ v = OpenLeg(w2, u, side, px, opened, backing)
    BY <1>6, <1>7, <1>11
  <2>2. w2.pos[u].qty = 0 \/ w2.pos[u].side = side
    <3>1. CASE closeQty = 0
      BY <1>2, <1>9, <3>1
    <3>2. CASE closeQty # 0
      BY <1>1, <1>2, <1>9, <1>11, <3>2
    <3> QED BY <3>1, <3>2
  <2> HIDE DEF p
  <2>3. /\ IsWorld(v)
        /\ \A a \in Accounts \ {u} : v.pos[a] = w2.pos[a]
        /\ Booked(v, w2, u, d * opened, backing, px)
    <3> DEFINE z == OpenLeg(w2, u, side, px, opened, backing)
    <3>1. /\ IsWorld(z)
          /\ \A a \in Accounts \ {u} : z.pos[a] = w2.pos[a]
          /\ w2.pos[u].qty = 0 \/ w2.pos[u].side = side =>
                Booked(z, w2, u, dirOf(side) * opened, backing, px)
      <4>1. IsWorld(w2) /\ opened \in Nat \ {0} /\ backing \in Nat
        BY <1>4, <1>9, <2>1
      <4> QED BY ONLY <4>1, OpenLegSettles, u \in Accounts, side \in Sides, px \in Nat
    <3> HIDE DEF z
    <3>2. v = z
      BY <2>1 DEF z
    <3> QED BY <2>2, <3>1, <3>2
  <2>4. d * opened \in Int /\ d * closeQty \in Int /\ colForClose - col \in Int
    BY <1>2, <1>3, <1>4, <1>7
  <2> DEFINE k == d * opened
             n == d * closeQty
  <2>5. Moves(v, w2, k, backing, px)
    <3>1. Booked(v, w2, u, k, backing, px) /\ k \in Int /\ backing \in Int
      BY <1>4, <2>3, <2>4
    <3> HIDE DEF k
    <3> QED BY <1>1, <1>9, <2>3, <3>1, BookedMoves
  <2>6. Moves(v, w, n + k, (colForClose - col) + backing, px)
    <3> DEFINE c == colForClose - col
    <3>1. n \in Int /\ k \in Int /\ c \in Int /\ backing \in Int /\ Moves(w2, w, n, c, px)
      BY <1>4, <1>9, <2>4
    <3> HIDE DEF n, k, c
    <3>2. Moves(v, w, n + k, c + backing, px)
      BY <1>1, <1>9, <2>3, <2>5, <3>1, MovesTwice
    <3> QED BY <3>2 DEF c
  <2>7. n + k = d * q /\ (colForClose - col) + backing = 0
    <3>1. (colForClose - col) + backing = 0
      BY <1>4 DEF backing
    <3>2. n + k = d * q
      <4>1. CASE d = 1
        BY <1>2, <1>7, <4>1
      <4>2. CASE d = -1
        BY <1>2, <1>7, <4>2
      <4> QED BY <1>3, <4>1, <4>2
    <3> QED BY <3>1, <3>2
  <2> HIDE DEF n, k
  <2> QED BY <2>3, <2>6, <2>7 DEF v
<1> QED BY <1>10, <1>11

(* Money that only changes hands between the accounts of a market.          *)
LEMMA TransferMoves ==
    ASSUME NEW w, IsWorld(w), NEW v, IsWorld(v), NEW px \in Int,
           v.pos = w.pos, v.fees = w.fees, v.dust = w.dust,
           SumFunction(v.free) + SumFunction(v.reserved)
              = SumFunction(w.free) + SumFunction(w.reserved)
    PROVE  Moves(v, w, 0, 0, px)
<1> DEFINE F == SumFunction(w.free)
           R == SumFunction(w.reserved)
           G == SumFunction(v.free)
           S == SumFunction(v.reserved)
<1>1. /\ F \in Int /\ R \in Int /\ G \in Int /\ S \in Int /\ G + S = F + R
      /\ w.fees \in Int /\ w.dust \in Int /\ w.pos \in [Accounts -> Position]
  BY AccountSum DEF IsWorld
<1> HIDE DEF F, R, G, S
<1>2. ASSUME NEW x \in Int
      PROVE  Value(v, x) = Value(w, x) + Fine(0) + 0 * (x - px)
  <2>4. Funds(v) = w.fees + G + S /\ Funds(w) = w.fees + F + R
    BY DEF Funds, F, R, G, S
  <2>1. Funds(v) = Funds(w)
    BY <1>1, <2>4
  <2>2. Value(v, x) = Value(w, x)
    BY <2>1 DEF Value
  <2>3. Value(w, x) \in Int
    BY ValueInt
  <2>5. Fine(0) = 0 /\ 0 * (x - px) = 0
    BY FineZero
  <2> QED BY <2>2, <2>3, <2>5
<1>3. NetOf(v.pos) = NetOf(w.pos) + 0
  BY <1>1, PositionSums
<1> QED BY <1>2, <1>3 DEF Moves

(* A move of no contracts is the same at every price.                       *)
LEMMA StillMoves ==
    ASSUME NEW w, IsWorld(w), NEW v, NEW px \in Int, NEW py \in Int,
           Moves(v, w, 0, 0, px)
    PROVE  Moves(v, w, 0, 0, py)
<1>1. \A x \in Int : 0 * (x - px) = 0 * (x - py)
  OBVIOUS
<1> QED BY <1>1 DEF Moves

(* Contracts sold and bought at one price cancel.                           *)
LEMMA OppositeMoves ==
    ASSUME NEW y, IsWorld(y), NEW w, IsWorld(w), NEW v, IsWorld(v),
           NEW a, NEW b, a \in {1, -1}, b = -a, NEW q \in Nat, NEW px \in Int,
           Moves(w, y, b * q, 0, px), Moves(v, w, a * q, 0, px)
    PROVE  Moves(v, y, 0, 0, 0)
<1>1. b * q \in Int /\ a * q \in Int /\ b * q + a * q = 0
  OBVIOUS
<1> DEFINE n == b * q
           k == a * q
<1>2. n \in Int /\ k \in Int /\ n + k = 0
  BY <1>1
<1> HIDE DEF n, k
<1>3. Moves(v, y, n + k, 0 + 0, px)
  BY <1>2, MovesTwice, 0 \in Int DEF n, k
<1> QED BY <1>2, <1>3, StillMoves, 0 \in Int

(* The two parties of a fill cancel: the market gains no contract, and at   *)
(* any price its accounts are worth what they were.                         *)
LEMMA FillMoves ==
    ASSUME EInv, NEW i \in DOMAIN book[job.m], MatchFill(i)
    PROVE  \E v : /\ IsWorld(v)
                  /\ Moves(v, World(job.m), 0, 0, 0)
                  /\ SetWorld(job.m, v)
<1> DEFINE o == book[job.m][i]
           side == Opposite(job.side)
           y == World(job.m)
<1>1. job # NoJob
  BY DEF MatchFill, Meets
<1>2. job.m \in Markets /\ job.owner \in Accounts /\ job.side \in Sides
  BY <1>1, JobIs
<1>3. o.owner \in Accounts /\ o.px \in Nat
  BY <1>2, BookShape, FundIsNoUser
<1>4. IsWorld(y)
  BY <1>2, WorldOK
<1>5. side \in Sides /\ dirOf(side) = -dirOf(job.side) /\ dirOf(job.side) \in {1, -1}
  BY <1>2 DEF Opposite, Sides, dirOf
<1> HIDE DEF o, side, y
<1>6. PICK q \in Nat \ {0}, c, f, d, g \in Nat : \E w, v :
        /\ w = ApplyFill(y, o.owner, side, o.px, q, c, f)
        /\ v = ApplyFill(w, job.owner, job.side, o.px, q, d, g)
        /\ SetWorld(job.m, v)
  BY FillIs DEF o, side, y
<1>7. PICK w, v :
        /\ w = ApplyFill(y, o.owner, side, o.px, q, c, f)
        /\ v = ApplyFill(w, job.owner, job.side, o.px, q, d, g)
        /\ SetWorld(job.m, v)
  BY <1>6
<1>8. IsWorld(w) /\ Moves(w, y, dirOf(side) * q, 0, o.px)
  BY <1>3, <1>4, <1>5, <1>7, ApplyFillMoves
<1>9. IsWorld(v) /\ Moves(v, w, dirOf(job.side) * q, 0, o.px)
  BY <1>2, <1>3, <1>7, <1>8, ApplyFillMoves
<1>10. Moves(v, y, 0, 0, 0)
  BY <1>3, <1>4, <1>5, <1>8, <1>9, OppositeMoves
<1> QED BY <1>7, <1>9, <1>10 DEF y

(* What the backstop takes over it takes from the liquidated position; the  *)
(* collateral it posts and the penalty only change hands.                   *)
LEMMA BackstopMoves ==
    ASSUME EInv, job # NoJob, job.liq
    PROVE  IsWorld(Backstop) /\ Moves(Backstop, World(job.m), 0, 0, 0)
<1> DEFINE col == collateralRequired(notionalUsd(rem, job.mark), Params,
                     [gap |-> gap[job.m], mult |-> CoeffScale, tier |-> "C"])
           y == World(job.m)
           w == [World(job.m) EXCEPT !.free[Fund] = @ - col, !.reserved[Fund] = @ + col]
           v == ApplyFill(w, job.owner, job.side, job.mark, rem, 0, 0)
           x == ApplyFill(v, Fund, Opposite(job.side), job.mark, rem, col, 0)
<1>1. /\ job.m \in Markets /\ job.owner \in Accounts
      /\ job.side \in Sides /\ job.mark \in Nat /\ rem \in Nat
      /\ Fund \in Accounts
  BY JobIs, FundIsNoUser
<1>2. IsWorld(y)
  BY <1>1, WorldOK
<1>3. /\ y = [free |-> free, reserved |-> reserved, fees |-> fees, dust |-> dust,
              pos |-> pos[job.m]]
      /\ free \in [Accounts -> Int] /\ reserved \in [Accounts -> Int]
  BY DEF World, EInv, TypeOK
<1>4. CASE rem = 0
  <2>1. Backstop = y
    BY <1>4 DEF Backstop
  <2>2. Moves(y, y, 0, 0, 0)
    <3> HIDE DEF y
    <3> QED BY <1>2, TransferMoves, 0 \in Int
  <2> QED BY <1>2, <2>1, <2>2
<1>5. CASE rem # 0
  <2>1. rem \in Nat \ {0}
    BY <1>1, <1>5
  <2>2. col \in Nat
    <3>1. notionalUsd(rem, job.mark) \in Nat
      BY <1>1, NotionalNat
    <3>2. [gap |-> gap[job.m], mult |-> CoeffScale, tier |-> "C"] \in RiskCoeffs
      BY <1>1, ScaleAssumption DEF RiskCoeffs, TierCodes, EInv, TypeOK
    <3> QED BY <3>1, <3>2, RequiredNat, EngineAssumption
  <2>3. Backstop = x
    BY <1>5 DEF Backstop
  <2> HIDE DEF col
  <2> DEFINE fr == [free EXCEPT ![Fund] = @ - col]
             rs == [reserved EXCEPT ![Fund] = @ + col]
  <2>4. w = [free |-> fr, reserved |-> rs, fees |-> fees, dust |-> dust,
             pos |-> pos[job.m]]
    <3>1. w = [y EXCEPT !.free = [y.free EXCEPT ![Fund] = @ - col],
                        !.reserved = [y.reserved EXCEPT ![Fund] = @ + col]]
      OBVIOUS
    <3> HIDE DEF w, y
    <3> QED BY <1>3, <3>1
  <2> HIDE DEF w
  <2>5. /\ fr \in [Accounts -> Int] /\ rs \in [Accounts -> Int]
        /\ fr[Fund] = free[Fund] + (-col) /\ rs[Fund] = reserved[Fund] + col
        /\ \A a \in Accounts \ {Fund} : fr[a] = free[a] /\ rs[a] = reserved[a]
        /\ -col \in Int /\ col \in Int
    BY <1>1, <1>3, <2>2
  <2> HIDE DEF fr, rs
  <2>6. SumFunction(fr) + SumFunction(rs) = SumFunction(free) + SumFunction(reserved)
    <3> DEFINE k == -col
    <3>4. k \in Int /\ fr[Fund] = free[Fund] + k
      BY <2>5
    <3> HIDE DEF k
    <3>5. SumFunction(fr) = SumFunction(free) + k
      BY <1>1, <1>3, <2>5, <3>4, AccountMoves
    <3>1. SumFunction(fr) = SumFunction(free) + (-col)
      BY <3>5 DEF k
    <3>2. SumFunction(rs) = SumFunction(reserved) + col
      BY <1>1, <1>3, <2>5, AccountMoves
    <3>3. SumFunction(free) \in Int /\ SumFunction(reserved) \in Int
      BY <1>3, AccountSum
    <3> QED BY <2>5, <3>1, <3>2, <3>3
  <2>7. IsWorld(w)
    <3>1. /\ fees \in Nat /\ dust \in Int /\ pos[job.m] \in [Accounts -> Position]
          /\ \A a \in Accounts : PosOK(pos[job.m][a])
      BY <1>1 DEF EInv, TypeOK, Gone
    <3> QED BY <2>4, <2>5, <3>1 DEF IsWorld
  <2>8. Moves(w, y, 0, 0, job.mark)
    <3>1. /\ w.pos = y.pos /\ w.fees = y.fees /\ w.dust = y.dust
          /\ SumFunction(w.free) + SumFunction(w.reserved)
                = SumFunction(y.free) + SumFunction(y.reserved)
      BY <1>3, <2>4, <2>6
    <3> HIDE DEF y
    <3> QED BY <1>1, <1>2, <2>7, <3>1, TransferMoves
  <2> DEFINE side == Opposite(job.side)
  <2>9. /\ side \in Sides /\ dirOf(side) \in {1, -1}
        /\ dirOf(job.side) = -dirOf(side)
    BY <1>1 DEF Opposite, Sides, dirOf
  <2> HIDE DEF side, y
  <2>10. IsWorld(v) /\ Moves(v, w, dirOf(job.side) * rem, 0, job.mark)
    BY <1>1, <2>1, <2>7, 0 \in Nat, ApplyFillMoves
  <2> HIDE DEF v
  <2>11. IsWorld(x) /\ Moves(x, v, dirOf(side) * rem, 0, job.mark)
    BY <1>1, <2>1, <2>2, <2>9, <2>10, 0 \in Nat, ApplyFillMoves DEF side
  <2> HIDE DEF x
  <2>12. Moves(x, w, 0, 0, 0)
    BY <1>1, <2>1, <2>7, <2>9, <2>10, <2>11, OppositeMoves
  <2>13. Moves(w, y, 0, 0, 0)
    BY <1>2, <2>7, <2>8, StillMoves, <1>1
  <2>14. Moves(x, y, 0 + 0, 0 + 0, 0)
    BY <1>2, <2>7, <2>11, <2>12, <2>13, MovesTwice, 0 \in Int
  <2> QED BY <2>3, <2>11, <2>14 DEF y
<1> QED BY <1>4, <1>5
-----------------------------------------------------------------------------
\* The two invariants.

Balanced == \A m \in Markets : NetOf(pos[m]) = 0

(* The inductive invariant. *)
CInv == EInv /\ Balanced /\ Conserved

(* The net position of a market is its long less its short contracts.       *)
LEMMA NetIsLongLessShort ==
    ASSUME NEW ps \in [Accounts -> Position]
    PROVE  SumFunction([a \in Accounts |-> IF ps[a].side = "buy" THEN ps[a].qty ELSE 0])
             = SumFunction([a \in Accounts |->
                               IF ps[a].side = "sell" THEN ps[a].qty ELSE 0])
               + NetOf(ps)
<1> DEFINE f == [a \in Accounts |-> IF ps[a].side = "sell" THEN ps[a].qty ELSE 0]
           g == [a \in Accounts |-> Signed(ps[a])]
           h == [a \in Accounts |-> IF ps[a].side = "buy" THEN ps[a].qty ELSE 0]
<1>1. \A a \in Accounts : f[a] \in Int /\ g[a] \in Int /\ h[a] = f[a] + g[a]
                          /\ h[a] \in Int
  <2> SUFFICES ASSUME NEW p \in Position
               PROVE  LET b == IF p.side = "buy" THEN p.qty ELSE 0
                          c == IF p.side = "sell" THEN p.qty ELSE 0
                      IN b \in Int /\ c \in Int /\ Signed(p) \in Int /\ b = c + Signed(p)
    OBVIOUS
  <2>1. p.qty \in Int /\ p.side \in {"buy", "sell"}
    BY DEF Position, Sides
  <2>2. CASE p.side = "buy"
    BY <2>1, <2>2 DEF Signed, dirOf
  <2>3. CASE p.side = "sell"
    BY <2>1, <2>3 DEF Signed, dirOf
  <2> QED BY <2>1, <2>2, <2>3
<1>2. /\ f \in [Accounts -> Int] /\ g \in [Accounts -> Int] /\ h \in [Accounts -> Int]
      /\ NetOf(ps) = SumFunction(g)
  BY <1>1 DEF NetOf
<1> HIDE DEF f, g, h
<1>3. SumFunctionOnSet(h, Accounts)
        = SumFunctionOnSet(f, Accounts) + SumFunctionOnSet(g, Accounts)
  BY <1>1, AccountsFinite, SumAdd
<1>4. SumFunction(h) = SumFunction(f) + SumFunction(g)
  BY <1>2, <1>3, AccountSum
<1> QED BY <1>2, <1>4 DEF f, h

(* So open interest is balanced when every net position is zero.            *)
LEMMA BalancedMeans == ASSUME TypeOK, Balanced PROVE OiBalanced
<1> SUFFICES ASSUME NEW m \in Markets
             PROVE  SideQty(m, "buy") = SideQty(m, "sell")
  BY DEF OiBalanced
<1>1. pos[m] \in [Accounts -> Position] /\ NetOf(pos[m]) = 0
  BY DEF TypeOK, Balanced
<1>2. SideQty(m, "sell") \in Int
  <2> DEFINE f == [a \in Accounts |-> IF pos[m][a].side = "sell" THEN pos[m][a].qty ELSE 0]
  <2>1. f \in [Accounts -> Int]
    BY <1>1 DEF Position
  <2> HIDE DEF f
  <2>2. SumFunction(f) \in Int
    BY <2>1, AccountSum
  <2> QED BY <2>2 DEF SideQty, f
<1>3. SideQty(m, "buy") = SideQty(m, "sell") + NetOf(pos[m])
  BY <1>1, NetIsLongLessShort DEF SideQty
<1> QED BY <1>1, <1>2, <1>3

(* The sums of the conservation law are integers.                           *)
LEMMA SumsInt ==
    ASSUME EInv
    PROVE  /\ SumFunction(Seeds) \in Int /\ deposited \in Int /\ withdrawn \in Int
           /\ dust \in Int /\ fees \in Int
           /\ SumFunction(free) \in Int /\ SumFunction(reserved) \in Int
           /\ Equity \in Int
           /\ [m \in Markets |-> MarketEquity(m)] \in [Markets -> Int]
<1>1. Seeds \in [Accounts -> Int]
  BY EngineAssumption
<1>2. /\ free \in [Accounts -> Int] /\ reserved \in [Accounts -> Int]
      /\ deposited \in Int /\ withdrawn \in Int /\ dust \in Int /\ fees \in Int
  BY DEF EInv, TypeOK
<1> DEFINE f == [m \in Markets |-> MarketEquity(m)]
<1>3. f \in [Markets -> Int]
  <2>1. ASSUME NEW m \in Markets PROVE MarketEquity(m) \in Int
    <3>1. pos[m] \in [Accounts -> Position] /\ mark[m] \in Int
      BY DEF EInv, TypeOK
    <3>2. Worth(pos[m], mark[m]) \in Int
      BY <3>1, PositionSums
    <3> QED BY <3>2 DEF Worth, MarketEquity
  <2> QED BY <2>1
<1>4. Equity = SumFunctionOnSet(f, Markets)
  BY DEF Equity, SumFunction
<1> HIDE DEF f
<1>5. SumFunctionOnSet(f, Markets) \in Int
  <2>1. \A m \in Markets : f[m] \in Int
    BY <1>3
  <2> QED BY <2>1, SumInt, EngineAssumption
<1> QED BY <1>1, <1>2, <1>3, <1>4, <1>5, AccountSum DEF f

(* So is each side of it.                                                   *)
LEMMA LawInt ==
    ASSUME EInv
    PROVE  /\ Fine(SumFunction(Seeds) + deposited - withdrawn) \in Int
           /\ Cash \in Int /\ Fine(Cash) \in Int
           /\ dust \in Int /\ Equity \in Int
<1>1. /\ SumFunction(Seeds) + deposited - withdrawn \in Int
      /\ Cash \in Int /\ dust \in Int /\ Equity \in Int
  BY SumsInt DEF Cash
<1> QED BY <1>1, FineInt

(* What all positions are worth moves with the one market a step touches.   *)
LEMMA EquityMoves ==
    ASSUME EInv, EInv', NEW m \in Markets, NEW d \in Int,
           Worth(pos'[m], mark'[m]) = Worth(pos[m], mark[m]) + d,
           \A n \in Markets \ {m} : pos'[n] = pos[n] /\ mark'[n] = mark[n]
    PROVE  Equity' = Equity + d
<1> DEFINE f == [n \in Markets |-> MarketEquity(n)]
           g == [n \in Markets |-> MarketEquity(n)']
<1>1. \A n \in Markets : f[n] \in Int
  BY SumsInt
<1>2. g[m] = f[m] + d
  BY DEF MarketEquity, Worth
<1>3. \A n \in Markets \ {m} : g[n] = f[n]
  BY DEF MarketEquity
<1>4. Equity = SumFunctionOnSet(f, Markets) /\ Equity' = SumFunctionOnSet(g, Markets)
  BY DEF Equity, SumFunction
<1> HIDE DEF f, g
<1>5. IsFiniteSet(Markets)
  BY EngineAssumption
<1>6. SumFunctionOnSet(g, Markets) = SumFunctionOnSet(f, Markets) + d
  BY ONLY <1>1, <1>2, <1>3, <1>5, SumMoves, m \in Markets, d \in Int
<1> QED BY <1>4, <1>6

(* Settled fills and liquidations, whatever mark they leave behind.         *)
LEMMA SettledBooks ==
    ASSUME CInv, EInv', NEW m \in Markets, NEW v, IsWorld(v), SetWorld(m, v),
           Moves(v, World(m), 0, 0, 0), UNCHANGED totals,
           \A n \in Markets \ {m} : mark'[n] = mark[n]
    PROVE  Balanced' /\ Conserved'
<1>a. /\ EInv /\ Balanced /\ Conserved
      /\ mark[m] \in Int /\ mark'[m] \in Int
      /\ pos \in [Markets -> [Accounts -> Position]]
      /\ v.pos \in [Accounts -> Position] /\ pos[m] \in [Accounts -> Position]
  <2>1. mark \in [Markets -> Nat] /\ pos \in [Markets -> [Accounts -> Position]]
    BY DEF CInv, EInv, TypeOK
  <2>2. mark' \in [Markets -> Nat]
    BY DEF EInv, TypeOK
  <2>3. v.pos \in [Accounts -> Position]
    BY DEF IsWorld
  <2> QED BY <2>1, <2>2, <2>3 DEF CInv
<1> DEFINE x == mark[m]
           y == mark'[m]
           w == World(m)
           W == Worth(pos[m], x)
           V == Worth(pos'[m], y)
<1>1. /\ EInv /\ Balanced /\ Conserved
      /\ x \in Int /\ y \in Int
      /\ pos \in [Markets -> [Accounts -> Position]]
      /\ v.pos \in [Accounts -> Position] /\ pos[m] \in [Accounts -> Position]
  BY <1>a
<1>2. /\ free' = v.free /\ reserved' = v.reserved /\ fees' = v.fees /\ dust' = v.dust
      /\ pos'[m] = v.pos
      /\ \A n \in Markets \ {m} : pos'[n] = pos[n]
  BY <1>1 DEF SetWorld
<1>3. /\ w.free = free /\ w.reserved = reserved /\ w.fees = fees /\ w.dust = dust
      /\ w.pos = pos[m]
  BY DEF World
<1>4. NetOf(v.pos) = 0
  <2>1. NetOf(pos[m]) = 0 /\ NetOf(v.pos) = NetOf(w.pos) + 0
    BY <1>1 DEF Moves, Balanced
  <2> QED BY <1>3, <2>1
<1>5. Balanced'
  BY <1>1, <1>2, <1>4 DEF Balanced
<1>6. V = Worth(v.pos, x)
  <2>1. V = Worth(v.pos, x) + (y - x) * 0
    BY <1>1, <1>2, <1>4, WorthFollowsNet
  <2>2. Worth(v.pos, x) \in Int /\ (y - x) * 0 = 0
    BY <1>1, PositionSums
  <2> QED BY <2>1, <2>2
<1>7. W \in Int /\ V \in Int
  BY <1>1, <1>6, PositionSums
<1>8. Value(v, x) = Value(w, x)
  <2>1. Value(v, x) = Value(w, x) + 0 + 0 * (x - 0)
    BY <1>1, FineZero DEF Moves
  <2>2. IsWorld(w)
    BY <1>1, WorldOK
  <2> HIDE DEF x, w
  <2>3. Value(w, x) \in Int
    BY <1>1, <2>2, ValueInt
  <2> QED BY <1>1, <2>1, <2>3
<1>9. Fine(Cash') + V - dust' = Fine(Cash) + W - dust
  <2>1. Funds(v) = Cash' /\ Funds(w) = Cash
    BY <1>2, <1>3 DEF Funds, Cash
  <2> QED BY <1>2, <1>3, <1>6, <1>8, <2>1 DEF Value
<1> HIDE DEF x, y, w, W, V
<1>10. Equity' = Equity + (V - W)
  <2> DEFINE d == V - W
  <2>1. d \in Int /\ V = W + d
    BY <1>7
  <2> HIDE DEF d
  <2>2. Worth(pos'[m], mark'[m]) = Worth(pos[m], mark[m]) + d
    BY <2>1 DEF V, W, x, y
  <2>3. Equity' = Equity + d
    BY <1>1, <1>2, <2>1, <2>2, EquityMoves
  <2> QED BY <2>3 DEF d
<1>11. Conserved'
  <2> DEFINE s == Fine(SumFunction(Seeds) + deposited - withdrawn)
             c == Fine(Cash)
             e == Fine(Cash')
  <2>1. /\ s \in Int /\ c \in Int /\ dust \in Int /\ Equity \in Int
    BY <1>1, LawInt
  <2>2. e \in Int /\ dust' \in Int
    <3>1. /\ dust' \in Int /\ fees' \in Int
          /\ free' \in [Accounts -> Int] /\ reserved' \in [Accounts -> Int]
      BY DEF EInv, TypeOK
    <3>2. Cash' \in Int
      BY <3>1, AccountSum DEF Cash
    <3> QED BY <3>1, <3>2, FineInt
  <2>3. s + dust = c + Equity /\ e + V - dust' = c + W - dust
    BY <1>1, <1>9 DEF Conserved
  <2>4. s' = s
    BY DEF totals
  <2> DEFINE q == Equity
             t == dust'
             u == dust
  <2> HIDE DEF s, c, e, q
  <2>7. /\ s \in Int /\ c \in Int /\ u \in Int /\ q \in Int /\ e \in Int /\ t \in Int
        /\ s + u = c + q /\ e + V - t = c + W - u
    BY <2>1, <2>2, <2>3 DEF q
  <2> HIDE DEF t, u
  <2>5. s + t = e + (q + (V - W))
    BY ONLY <1>7, <2>7
  <2>6. s' + dust' = e + Equity'
    BY <1>10, <2>4, <2>5 DEF q, t
  <2> QED BY <2>6 DEF Conserved, s, e
<1> QED BY <1>5, <1>11

(* Money that only changes hands while no position and no mark moves.       *)
LEMMA TransferBooks ==
    ASSUME CInv, UNCHANGED <<pos, mark>>, UNCHANGED <<fees, dust>>, UNCHANGED totals,
           SumFunction(free') + SumFunction(reserved')
              = SumFunction(free) + SumFunction(reserved),
           SumFunction(free') \in Int, SumFunction(reserved') \in Int
    PROVE  Balanced' /\ Conserved'
<1>1. Balanced'
  BY DEF CInv, Balanced
<1>2. Equity' = Equity
  BY DEF Equity, MarketEquity
<1>3. Cash' = Cash
  <2>1. fees \in Int /\ SumFunction(free) \in Int /\ SumFunction(reserved) \in Int
    BY SumsInt DEF CInv
  <2> QED BY <2>1 DEF Cash
<1>4. Conserved'
  BY <1>2, <1>3 DEF CInv, Conserved, totals
<1> QED BY <1>1, <1>4

(* One account's money moves between its free and its reserved balance.     *)
LEMMA EarmarkBooks ==
    ASSUME CInv, EInv', NEW u \in Accounts, NEW d \in Int,
           free' = [free EXCEPT ![u] = @ + d],
           reserved' = [reserved EXCEPT ![u] = @ - d],
           UNCHANGED <<pos, mark>>, UNCHANGED <<fees, dust>>, UNCHANGED totals
    PROVE  Balanced' /\ Conserved'
<1>1. /\ free \in [Accounts -> Int] /\ reserved \in [Accounts -> Int]
      /\ free' \in [Accounts -> Int] /\ reserved' \in [Accounts -> Int]
  BY DEF CInv, EInv, TypeOK
<1> DEFINE k == -d
<1>2. /\ free'[u] = free[u] + d /\ k \in Int /\ reserved'[u] = reserved[u] + k
      /\ \A a \in Accounts \ {u} : free'[a] = free[a] /\ reserved'[a] = reserved[a]
      /\ d + k = 0
  BY <1>1
<1> HIDE DEF k
<1>3. SumFunction(free') = SumFunction(free) + d
  BY ONLY <1>1, <1>2, AccountMoves, u \in Accounts, d \in Int
<1>4. SumFunction(reserved') = SumFunction(reserved) + k
  BY ONLY <1>1, <1>2, AccountMoves, u \in Accounts
<1>5. SumFunction(free) \in Int /\ SumFunction(reserved) \in Int
  BY <1>1, AccountSum
<1>6. SumFunction(free') \in Int /\ SumFunction(reserved') \in Int
  BY <1>1, AccountSum
<1>7. SumFunction(free') + SumFunction(reserved') = SumFunction(free) + SumFunction(reserved)
  BY <1>2, <1>3, <1>4, <1>5
<1> QED BY <1>6, <1>7, TransferBooks

(* Commands that touch neither money nor positions nor marks.               *)
LEMMA StillBooks ==
    ASSUME CInv, UNCHANGED <<money, pos, mark, totals>>
    PROVE  Balanced' /\ Conserved'
<1>1. UNCHANGED <<pos, mark>> /\ UNCHANGED <<fees, dust>> /\ UNCHANGED totals
      /\ free' = free /\ reserved' = reserved
  BY DEF money
<1>2. SumFunction(free) \in Int /\ SumFunction(reserved) \in Int
  BY SumsInt DEF CInv
<1> QED BY <1>1, <1>2, TransferBooks
-----------------------------------------------------------------------------
\* The steps of the engine.

(* What a released reservation held goes back to the balance it came from.  *)
LEMMA ReleaseBooks ==
    ASSUME CInv, EInv', NEW u \in Accounts, NEW id \in AllIds, Release(u, id),
           UNCHANGED <<pos, mark>>, UNCHANGED totals
    PROVE  Balanced' /\ Conserved'
<1> DEFINE r == ledger[id]
           d == r.col + r.fee
<1>1. r.col \in Nat /\ r.fee \in Nat /\ free \in [Accounts -> Int]
  BY DEF CInv, EInv, TypeOK, Reserve
<1>2. /\ free' = [free EXCEPT ![u] = @ + d]
      /\ reserved' = [reserved EXCEPT ![u] = @ - d]
      /\ UNCHANGED <<fees, dust>>
  BY DEF Release, SetHoldings, Returned, Holdings
<1> HIDE DEF r
<1>3. d \in Int
  BY <1>1
<1> HIDE DEF d
<1> QED BY <1>2, <1>3, EarmarkBooks

(* A deposit or a withdrawal is on both sides of the law.                   *)
LEMMA DepositBooks ==
    ASSUME CInv, EInv', NEW u \in Users, NEW amount \in Amounts,
           Deposit(u, amount) \/ Withdraw(u, amount)
    PROVE  Balanced' /\ Conserved'
<1>1. u \in Accounts /\ amount \in Nat
  BY FundIsNoUser, EngineAssumption
<1>2. /\ UNCHANGED <<pos, mark>> /\ reserved' = reserved /\ fees' = fees /\ dust' = dust
      /\ free \in [Accounts -> Int] /\ free' \in [Accounts -> Int]
  BY DEF Deposit, Withdraw, CInv, EInv, TypeOK
<1>3. PICK d \in Int : /\ free' = [free EXCEPT ![u] = @ + d]
                       /\ deposited' - withdrawn' = deposited - withdrawn + d
  <2>1. deposited \in Int /\ withdrawn \in Int /\ free[u] \in Int
    BY <1>1, <1>2, SumsInt DEF CInv
  <2>2. CASE Deposit(u, amount)
    <3>1. /\ free' = [free EXCEPT ![u] = @ + amount]
          /\ deposited' - withdrawn' = deposited - withdrawn + amount
      BY <1>1, <2>1, <2>2 DEF Deposit
    <3>2. amount \in Int
      BY <1>1
    <3> QED BY <3>1, <3>2
  <2>3. CASE Withdraw(u, amount)
    <3> DEFINE d == -amount
    <3>1. /\ free' = [free EXCEPT ![u] = @ - amount]
          /\ deposited' = deposited /\ withdrawn' = withdrawn + amount
      BY <2>3 DEF Withdraw
    <3>2. /\ d \in Int /\ free[u] - amount = free[u] + d
          /\ deposited' - withdrawn' = deposited - withdrawn + d
      BY <1>1, <2>1, <3>1
    <3>3. free' = [free EXCEPT ![u] = @ + d]
      BY <3>1, <3>2
    <3> HIDE DEF d
    <3> QED BY <3>2, <3>3
  <2> QED BY <2>2, <2>3
<1>4. free'[u] = free[u] + d /\ \A a \in Accounts \ {u} : free'[a] = free[a]
  BY <1>1, <1>2, <1>3
<1>5. SumFunction(free') = SumFunction(free) + d
  BY ONLY <1>1, <1>2, <1>4, d \in Int, AccountMoves
<1>6. Equity' = Equity
  BY <1>2 DEF Equity, MarketEquity
<1>7. Balanced'
  BY <1>2 DEF CInv, Balanced
<1>8. Conserved'
  <2> DEFINE s == SumFunction(Seeds)
             a == s + deposited - withdrawn
             b == s + deposited' - withdrawn'
             c == Cash
             e == Cash'
  <2>1. a \in Int /\ c \in Int /\ dust \in Int /\ Equity \in Int
    BY SumsInt DEF CInv, Cash
  <2>2. b = a + d /\ e = c + d
    <3>1. /\ s \in Int /\ deposited \in Int /\ withdrawn \in Int /\ fees \in Int
          /\ SumFunction(free) \in Int /\ SumFunction(reserved) \in Int
      BY SumsInt DEF CInv
    <3>2. deposited' \in Int /\ withdrawn' \in Int
      BY DEF EInv, TypeOK
    <3> DEFINE i == deposited - withdrawn
               j == deposited' - withdrawn'
    <3> HIDE DEF s
    <3>7. deposited \in Int /\ withdrawn \in Int
      BY <3>1
    <3>8. i \in Int /\ j \in Int
      BY <3>2, <3>7
    <3>9. j = i + d
      BY <1>3
    <3>6. i \in Int /\ j \in Int /\ j = i + d
      BY ONLY <3>8, <3>9
    <3>5. a = s + i /\ b = s + j
      BY ONLY <3>1, <3>2 DEF a, b, i, j
    <3> HIDE DEF i, j, a, b
    <3>3. b = a + d
      BY <3>1, <3>5, <3>6
    <3>4. e = c + d
      BY <1>2, <1>5, <3>1 DEF Cash
    <3> QED BY <3>3, <3>4
  <2>3. Fine(a) + dust = Fine(c) + Equity
    BY DEF CInv, Conserved
  <2> HIDE DEF a, b, c, e
  <2>4. /\ Fine(b) = Fine(a) + Fine(d) /\ Fine(e) = Fine(c) + Fine(d)
        /\ Fine(a) \in Int /\ Fine(c) \in Int /\ Fine(d) \in Int
    BY <2>1, <2>2, FineAdds, FineInt
  <2>5. Fine(b) + dust = Fine(e) + Equity
    BY <2>1, <2>3, <2>4
  <2>6. Fine(b) + dust' = Fine(e) + Equity'
    BY <1>2, <1>6, <2>5
  <2> QED BY <2>6 DEF Conserved, b, e
<1> QED BY <1>7, <1>8

(* An order that enters earmarks a part of its owner's balance.             *)
LEMMA EnterBooks ==
    ASSUME CInv, EInv', NEW o, Incoming(o), Acceptable(o), Enter(o),
           UNCHANGED <<pos, mark>>, UNCHANGED totals
    PROVE  Balanced' /\ Conserved'
<1> DEFINE r == Reservation(o)
           k == r.col + r.fee
           d == -k
<1>1. k \in Nat
  <2>1. r \in Reserve
    BY AcceptedOrder DEF CInv
  <2> HIDE DEF r
  <2> QED BY <2>1 DEF Reserve
<1>2. /\ o.owner \in Accounts /\ fees' = fees /\ dust' = dust
      /\ \/ free' = free /\ reserved' = reserved
         \/ /\ free' = [free EXCEPT ![o.owner] = @ - k]
            /\ reserved' = [reserved EXCEPT ![o.owner] = @ + k]
  BY FundIsNoUser DEF Enter, Incoming, SetHoldings, Reserving, Held, Holdings
<1>3. free[o.owner] \in Int /\ reserved[o.owner] \in Int
  BY <1>2 DEF CInv, EInv, TypeOK
<1> HIDE DEF k
<1>4. CASE free' = free /\ reserved' = reserved
  BY <1>2, <1>4, StillBooks DEF money
<1>5. CASE /\ free' = [free EXCEPT ![o.owner] = @ - k]
           /\ reserved' = [reserved EXCEPT ![o.owner] = @ + k]
  <2>1. /\ d \in Int /\ free[o.owner] - k = free[o.owner] + d
        /\ reserved[o.owner] + k = reserved[o.owner] - d
    BY <1>1, <1>3
  <2>2. /\ free' = [free EXCEPT ![o.owner] = @ + d]
        /\ reserved' = [reserved EXCEPT ![o.owner] = @ - d]
    BY <1>5, <2>1
  <2> HIDE DEF d
  <2> QED BY <1>2, <2>1, <2>2, EarmarkBooks
<1> QED BY <1>2, <1>4, <1>5

(* A fill moves the mark to its price; nobody gains by that move, because   *)
(* the market is balanced.                                                  *)
LEMMA MatchFillBooks ==
    ASSUME CInv, EInv', NEW i \in DOMAIN book[job.m], MatchFill(i)
    PROVE  Balanced' /\ Conserved'
<1>1. /\ job # NoJob /\ UNCHANGED totals
      /\ mark' = [mark EXCEPT ![job.m] = book[job.m][i].px]
  BY DEF MatchFill, Meets
<1>2. job.m \in Markets /\ mark \in [Markets -> Nat]
  BY <1>1, JobIs DEF CInv, EInv, TypeOK
<1>3. \A n \in Markets \ {job.m} : mark'[n] = mark[n]
  BY <1>1, <1>2
<1>4. PICK v : IsWorld(v) /\ Moves(v, World(job.m), 0, 0, 0) /\ SetWorld(job.m, v)
  BY FillMoves DEF CInv
<1> QED BY <1>1, <1>2, <1>3, <1>4, SettledBooks

(* The backstop closes at the mark of the liquidation; the penalty changes  *)
(* hands.                                                                   *)
LEMMA EndLiquidationBooks ==
    ASSUME CInv, EInv', EndLiquidation
    PROVE  Balanced' /\ Conserved'
<1> DEFINE w == Backstop
           u == job.owner
           paid == PenaltyPaid(w.free[u])
           fr == [w.free EXCEPT ![u] = @ - paid, ![Fund] = @ + paid]
           v == [w EXCEPT !.free = fr]
<1>1. /\ job # NoJob /\ job.liq /\ UNCHANGED totals
      /\ mark' = IF rem = 0 THEN mark ELSE [mark EXCEPT ![job.m] = job.mark]
      /\ SetWorld(job.m, v)
  BY DEF EndLiquidation
<1>2. /\ job.m \in Markets /\ mark \in [Markets -> Nat]
      /\ u \in Accounts /\ u # Fund /\ Fund \in Accounts
      /\ job.mark \in Nat /\ job.qty \in Nat
  BY <1>1, JobIs, FundIsNoUser DEF CInv, EInv, TypeOK
<1>3. \A n \in Markets \ {job.m} : mark'[n] = mark[n]
  BY <1>1, <1>2
<1>4. IsWorld(w) /\ Moves(w, World(job.m), 0, 0, 0)
  BY <1>1, BackstopMoves DEF CInv
<1> HIDE DEF w
<1>5. w.free \in [Accounts -> Int] /\ w.free[u] \in Int
  BY <1>2, <1>4 DEF IsWorld
<1>6. paid \in Int
  <2> DEFINE n == applyBps(notionalUsd(job.qty, job.mark), Params.liqPenaltyBps)
  <2>1. notionalUsd(job.qty, job.mark) \in Nat /\ Params.liqPenaltyBps \in Nat
    BY <1>2, NotionalNat, EngineAssumption DEF ParamsType
  <2>2. n \in Nat
    BY <2>1, ProductNat, DivNat DEF applyBps, BPS
  <2>3. paid = bigmin(n, bigmax(0, w.free[u]))
    BY DEF PenaltyPaid
  <2> HIDE DEF n, paid, u
  <2> QED BY <1>5, <2>2, <2>3 DEF bigmin, bigmax
<1> HIDE DEF paid, u
<1>7. SumFunction(fr) = SumFunction(w.free) /\ fr \in [Accounts -> Int]
  <2> DEFINE k == -paid
             g == [w.free EXCEPT ![u] = @ - paid]
  <2>1. /\ k \in Int /\ k + paid = 0
        /\ g \in [Accounts -> Int] /\ g[u] = w.free[u] + k
        /\ \A a \in Accounts \ {u} : g[a] = w.free[a]
    BY <1>2, <1>5, <1>6
  <2>2. /\ fr \in [Accounts -> Int] /\ fr[Fund] = g[Fund] + paid
        /\ \A a \in Accounts \ {Fund} : fr[a] = g[a]
    BY <1>2, <1>5, <1>6
  <2> HIDE DEF g, k, fr
  <2>3. SumFunction(g) = SumFunction(w.free) + k
    BY ONLY <1>2, <1>5, <2>1, AccountMoves
  <2>4. SumFunction(fr) = SumFunction(g) + paid
    BY ONLY <1>2, <1>6, <2>1, <2>2, AccountMoves
  <2>5. SumFunction(w.free) \in Int
    BY <1>5, AccountSum
  <2> QED BY <1>6, <2>1, <2>2, <2>3, <2>4, <2>5
<1> HIDE DEF fr
<1>8. v = [free |-> fr, reserved |-> w.reserved, fees |-> w.fees,
           dust |-> w.dust, pos |-> w.pos]
  BY <1>4 DEF IsWorld
<1> HIDE DEF v
<1>9. IsWorld(v)
  BY <1>4, <1>7, <1>8 DEF IsWorld
<1>10. /\ v.pos = w.pos /\ v.fees = w.fees /\ v.dust = w.dust
       /\ SumFunction(v.free) + SumFunction(v.reserved)
             = SumFunction(w.free) + SumFunction(w.reserved)
  BY <1>7, <1>8
<1>11. Moves(v, w, 0, 0, 0)
  BY <1>4, <1>9, <1>10, TransferMoves, 0 \in Int
<1>12. Moves(v, World(job.m), 0, 0, 0)
  <2> DEFINE y == World(job.m)
  <2>1. IsWorld(y)
    BY <1>2, WorldOK DEF CInv
  <2> HIDE DEF y
  <2>2. Moves(v, y, 0 + 0, 0 + 0, 0)
    BY <1>4, <1>9, <1>11, <2>1, MovesTwice, 0 \in Int DEF y
  <2> QED BY <2>2 DEF y
<1> QED BY <1>1, <1>2, <1>3, <1>9, <1>12, SettledBooks

(* A new mark is worth nothing to a balanced market.                        *)
LEMMA OracleBooks ==
    ASSUME CInv, EInv', NEW m \in Markets, NEW px \in IndexPrices, OracleTick(m, px)
    PROVE  Balanced' /\ Conserved'
<1>1. /\ UNCHANGED <<money, pos>> /\ UNCHANGED totals
      /\ mark' = [mark EXCEPT ![m] = SnappedMark(@, px)]
  BY DEF OracleTick
<1>2. mark \in [Markets -> Nat] /\ mark' \in [Markets -> Nat]
  BY DEF CInv, EInv, TypeOK
<1>3. \A n \in Markets \ {m} : mark'[n] = mark[n]
  BY <1>1, <1>2
<1>4. pos[m] \in [Accounts -> Position] /\ NetOf(pos[m]) = 0
  BY DEF CInv, EInv, TypeOK, Balanced
<1>5. Worth(pos'[m], mark'[m]) = Worth(pos[m], mark[m]) + 0
  <2> DEFINE x == mark[m]
             y == mark'[m]
  <2>1. x \in Int /\ y \in Int
    BY <1>2
  <2>2. Worth(pos[m], y) = Worth(pos[m], x) + (y - x) * 0
    BY <1>4, <2>1, WorthFollowsNet
  <2>3. Worth(pos[m], x) \in Int /\ (y - x) * 0 = 0
    BY <1>4, <2>1, PositionSums
  <2>4. pos'[m] = pos[m]
    BY <1>1
  <2> HIDE DEF x, y
  <2>5. Worth(pos'[m], y) = Worth(pos[m], x) + 0
    BY <2>2, <2>3, <2>4
  <2> QED BY <2>5 DEF x, y
<1>6. Equity' = Equity
  <2>1. \A n \in Markets \ {m} : pos'[n] = pos[n] /\ mark'[n] = mark[n]
    BY <1>1, <1>3
  <2>2. Equity' = Equity + 0
    BY <1>5, <2>1, EquityMoves, 0 \in Int DEF CInv
  <2> QED BY <2>2, SumsInt DEF CInv
<1>7. Cash' = Cash
  BY <1>1 DEF Cash, money
<1> QED BY <1>1, <1>6, <1>7 DEF CInv, Balanced, Conserved, money, totals

(* Funding moves collateral, and what it mints or burns by rounding is      *)
(* counted in dust.                                                         *)
LEMMA FundingBooks ==
    ASSUME CInv, EInv', NEW m \in Markets, FundingTick(m)
    PROVE  Balanced' /\ Conserved'
<1>1. UNCHANGED <<free, reserved, fees, mark>> /\ UNCHANGED totals /\ index[m] # 0
  BY DEF FundingTick
<1>2. CASE UNCHANGED <<pos, dust>>
  BY <1>1, <1>2, StillBooks DEF money
<1>3. CASE /\ pos' = [pos EXCEPT ![m] = [a \in Accounts |->
                         [pos[m][a] EXCEPT !.col = @ + FundingFlow(m, a)]]]
           /\ dust' = dust + UsdScale
                               * SumFunction([a \in Accounts |-> FundingFlow(m, a)])
  <2> DEFINE x == mark[m]
             f == [a \in Accounts |-> FineEquity(pos[m][a], x)]
             l == [a \in Accounts |-> FundingFlow(m, a)]
             g == [a \in Accounts |-> UsdScale * FundingFlow(m, a)]
             h == [a \in Accounts |-> FineEquity(pos'[m][a], x)]
             d == SumFunction(g)
  <2>1. /\ pos \in [Markets -> [Accounts -> Position]] /\ x \in Int
        /\ \A a \in Accounts : FundingFlow(m, a) \in Int
    <3>1. EInv
      BY DEF CInv
    <3>2. pos \in [Markets -> [Accounts -> Position]] /\ mark[m] \in Int
      BY <3>1 DEF EInv, TypeOK
    <3>3. ASSUME NEW a \in Accounts PROVE FundingFlow(m, a) \in Int
      BY <1>1, <3>1, FundingFlowIs
    <3> QED BY <3>2, <3>3
  <2>2. /\ \A a \in Accounts :
              pos'[m][a] = [pos[m][a] EXCEPT !.col = @ + FundingFlow(m, a)]
        /\ \A n \in Markets \ {m} : pos'[n] = pos[n]
    BY <1>3, <2>1
  <2>3. \A a \in Accounts :
           /\ pos'[m][a].side = pos[m][a].side /\ pos'[m][a].qty = pos[m][a].qty
           /\ pos'[m][a].entry = pos[m][a].entry
           /\ pos'[m][a].col = pos[m][a].col + FundingFlow(m, a)
    <3>1. ASSUME NEW p \in Position, NEW c, NEW r, r = [p EXCEPT !.col = @ + c]
          PROVE  /\ r.side = p.side /\ r.qty = p.qty /\ r.entry = p.entry
                 /\ r.col = p.col + c
      BY <3>1 DEF Position
    <3>2. \A a \in Accounts : pos[m][a] \in Position
      BY <2>1
    <3> SUFFICES ASSUME NEW a \in Accounts
                 PROVE  /\ pos'[m][a].side = pos[m][a].side
                        /\ pos'[m][a].qty = pos[m][a].qty
                        /\ pos'[m][a].entry = pos[m][a].entry
                        /\ pos'[m][a].col = pos[m][a].col + FundingFlow(m, a)
      OBVIOUS
    <3> DEFINE p == pos[m][a]
               r == pos'[m][a]
               c == FundingFlow(m, a)
    <3>3. p \in Position /\ r = [p EXCEPT !.col = @ + c]
      BY <2>2, <3>2
    <3> HIDE DEF p, r, c
    <3>4. /\ r.side = p.side /\ r.qty = p.qty /\ r.entry = p.entry
          /\ r.col = p.col + c
      BY ONLY <3>1, <3>3
    <3> QED BY <3>4 DEF p, r, c
  <2>4. \A a \in Accounts : /\ f[a] \in Int /\ g[a] \in Int /\ l[a] \in Int
                            /\ g[a] = UsdScale * l[a]
                            /\ h[a] = f[a] + g[a]
    <3> SUFFICES ASSUME NEW a \in Accounts
                 PROVE  /\ FineEquity(pos[m][a], x) \in Int
                        /\ UsdScale * FundingFlow(m, a) \in Int
                        /\ FundingFlow(m, a) \in Int
                        /\ FineEquity(pos'[m][a], x)
                             = FineEquity(pos[m][a], x) + UsdScale * FundingFlow(m, a)
      OBVIOUS
    <3> DEFINE p == pos[m][a]
               k == (x - p.entry) * p.qty * dirOf(p.side)
               b == FundingFlow(m, a)
               c == UsdScale * b
               e == Fine(p.col)
    <3>1. p \in Position
      BY <2>1
    <3>2. p.qty \in Int /\ p.entry \in Int /\ p.col \in Int /\ dirOf(p.side) \in {1, -1}
      BY <3>1 DEF Position, dirOf
    <3>3. k \in Int
      BY <2>1, <3>2, PnlInt
    <3>6. b \in Int
      BY <2>1
    <3>7. e \in Int /\ c \in Int /\ Fine(p.col + b) = e + c
      <4> HIDE DEF p, b
      <4>1. Fine(p.col + b) = Fine(p.col) + Fine(b)
        BY <3>2, <3>6, FineAdds
      <4>2. Fine(p.col) \in Int /\ Fine(b) \in Int
        BY <3>2, <3>6, FineInt
      <4> QED BY <4>1, <4>2 DEF Fine
    <3>4. /\ FineEquity(p, x) = e + k
          /\ FineEquity(pos'[m][a], x) = Fine(p.col + b) + k
      BY <2>3 DEF FineEquity
    <3> HIDE DEF p, k, c, e
    <3>5. e + k \in Int /\ (e + c) + k = (e + k) + c
      BY <3>3, <3>7
    <3> QED BY <3>4, <3>5, <3>6, <3>7 DEF p, c
  <2>5. /\ Worth(pos[m], x) = SumFunctionOnSet(f, Accounts)
        /\ Worth(pos'[m], x) = SumFunctionOnSet(h, Accounts)
        /\ SumFunction(g) = SumFunctionOnSet(g, Accounts)
        /\ SumFunction(l) = SumFunctionOnSet(l, Accounts)
    BY DEF Worth, SumFunction
  <2>6. NetOf(pos'[m]) = NetOf(pos[m])
    BY <2>3 DEF NetOf, Signed
  <2>9. dust' = dust + UsdScale * SumFunction(l)
    BY <1>3 DEF l
  <2> HIDE DEF f, g, h, l
  <2>14. SumFunctionOnSet(g, Accounts) = UsdScale * SumFunctionOnSet(l, Accounts)
    <3>1. UsdScale \in Int
      BY ScaleAssumption
    <3> QED BY ONLY <2>4, <3>1, AccountsFinite, SumScale
  <2>7. SumFunctionOnSet(h, Accounts)
          = SumFunctionOnSet(f, Accounts) + SumFunctionOnSet(g, Accounts)
    BY ONLY <2>4, AccountsFinite, SumAdd
  <2>8. d \in Int
    BY <2>4, <2>5, AccountsFinite, SumInt
  <2>15. dust' = dust + d
    BY <2>5, <2>9, <2>14
  <2>10. Worth(pos'[m], mark'[m]) = Worth(pos[m], mark[m]) + d
    BY <1>1, <2>5, <2>7
  <2> HIDE DEF d
  <2>11. Equity' = Equity + d
    <3>1. \A n \in Markets \ {m} : pos'[n] = pos[n] /\ mark'[n] = mark[n]
      BY <1>1, <2>2
    <3> QED BY <2>8, <2>10, <3>1, EquityMoves DEF CInv
  <2>12. Balanced'
    BY <2>2, <2>6 DEF CInv, Balanced
  <2>13. Conserved'
    <3> DEFINE s == Fine(SumFunction(Seeds) + deposited - withdrawn)
               c == Fine(Cash)
               e == Equity
    <3>1. s \in Int /\ c \in Int /\ e \in Int /\ dust \in Int
      BY LawInt DEF CInv
    <3>2. s + dust = c + e
      BY DEF CInv, Conserved
    <3>3. Fine(Cash') = c /\ UNCHANGED totals
      BY <1>1 DEF Cash
    <3> HIDE DEF c, e
    <3>4. s + (dust + d) = c + (e + d)
      <4> HIDE DEF s
      <4> QED BY ONLY <2>8, <3>1, <3>2
    <3>5. s + dust' = Fine(Cash') + Equity'
      BY <2>15, <2>11, <3>3, <3>4 DEF e
    <3> QED BY <3>3, <3>5 DEF Conserved, totals
  <2> QED BY <2>12, <2>13
<1> QED BY <1>2, <1>3 DEF FundingTick
-----------------------------------------------------------------------------
(* Before the first command nobody holds a position.                        *)
LEMMA InitBooks == ASSUME Init PROVE CInv
<1>1. EInv
  BY InitKeeps
<1>2. /\ free = Seeds /\ reserved = [a \in Accounts |-> 0] /\ fees = 0
      /\ deposited = 0 /\ withdrawn = 0 /\ dust = 0
      /\ pos = [m \in Markets |-> [a \in Accounts |-> Flat]]
  BY DEF Init
<1>3. Balanced
  <2> DEFINE g == [a \in Accounts |-> Signed(Flat)]
  <2>1. SumFunctionOnSet(g, Accounts) = 0
    <3>1. \A a \in Accounts : g[a] = 0
      BY DEF Signed, Flat, dirOf
    <3> HIDE DEF g
    <3> QED BY <3>1, AccountsFinite, SumZero
  <2>2. \A m \in Markets : NetOf(pos[m]) = SumFunctionOnSet(g, Accounts)
    BY <1>2 DEF NetOf, SumFunction
  <2> QED BY <2>1, <2>2 DEF Balanced
<1>4. Equity = 0
  <2> DEFINE f == [m \in Markets |-> MarketEquity(m)]
  <2>1. \A m \in Markets : f[m] = 0
    <3> SUFFICES ASSUME NEW m \in Markets PROVE MarketEquity(m) = 0
      OBVIOUS
    <3> DEFINE x == mark[m]
               g == [a \in Accounts |-> FineEquity(Flat, x)]
    <3>1. x \in Int
      BY <1>1 DEF EInv, TypeOK
    <3>2. MarketEquity(m) = SumFunctionOnSet(g, Accounts)
      BY <1>2 DEF MarketEquity, SumFunction
    <3>3. FineEquity(Flat, x) = 0
      <4> HIDE DEF x
      <4>1. (x - 0) * 0 * 1 = 0
        BY <3>1
      <4>2. FineEquity(Flat, x) = 0 + (x - 0) * 0 * 1
        BY FineZero DEF FineEquity, Flat, dirOf
      <4> QED BY <4>1, <4>2
    <3>4. \A a \in Accounts : g[a] = 0
      BY <3>3
    <3> HIDE DEF g
    <3> QED BY <3>2, <3>4, AccountsFinite, SumZero
  <2>2. Equity = SumFunctionOnSet(f, Markets)
    BY DEF Equity, SumFunction
  <2> HIDE DEF f
  <2> QED BY <2>1, <2>2, SumZero, EngineAssumption
<1>5. SumFunction(reserved) = 0
  <2>1. SumFunction(reserved) = SumFunctionOnSet(reserved, Accounts)
    BY <1>2 DEF SumFunction
  <2>2. \A a \in Accounts : reserved[a] = 0
    BY <1>2
  <2> QED BY <2>1, <2>2, AccountsFinite, SumZero
<1>6. Conserved
  <2>1. SumFunction(Seeds) \in Int
    BY <1>1, SumsInt
  <2>2. /\ SumFunction(Seeds) + deposited - withdrawn = SumFunction(Seeds)
        /\ Cash = SumFunction(Seeds) /\ dust = 0 /\ Equity = 0
    BY <1>2, <1>4, <1>5, <2>1 DEF Cash
  <2>3. Fine(SumFunction(Seeds)) \in Int
    BY <2>1, FineInt
  <2> QED BY <2>2, <2>3 DEF Conserved
<1> QED BY <1>1, <1>3, <1>6 DEF CInv

(* Every command accepted keeps the books.                                  *)
LEMMA AcceptBooks == ASSUME CInv, EInv', Accept PROVE Balanced' /\ Conserved'
<1>1. ASSUME NEW o \in Orders, NEW d \in NonceSteps,
             PlaceOrder(o, lastNonce[o.owner] + d)
      PROVE  Balanced' /\ Conserved'
  <2>1. /\ UNCHANGED <<pos, mark>> /\ UNCHANGED totals
        /\ Acceptable(o)
        /\ Enter(o) \/ (PostOnlyRejected(o) /\ BounceOff(o))
    BY <1>1 DEF PlaceOrder
  <2>2. Incoming(o)
    BY EngineAssumption DEF OrderType, Incoming, AllIds
  <2>3. CASE PostOnlyRejected(o) /\ BounceOff(o)
    <3>1. UNCHANGED <<free, reserved, fees, dust>>
      BY <2>1, <2>2, <2>3, BounceIs DEF CInv
    <3> QED BY <2>1, <3>1, StillBooks DEF money
  <2> QED BY <2>1, <2>2, <2>3, EnterBooks
<1>2. ASSUME NEW u \in Users, NEW m \in Markets, NEW id \in AllIds,
             CancelOrder(u, m, id)
      PROVE  Balanced' /\ Conserved'
  <2>1. Release(u, id) /\ UNCHANGED <<pos, mark>> /\ UNCHANGED totals
    BY <1>2 DEF CancelOrder
  <2> QED BY <2>1, ReleaseBooks, FundIsNoUser
<1>3. ASSUME NEW m \in Markets,
             \/ \E g \in GapCoeffs : GapReading(m, g)
             \/ \E on \in BOOLEAN : ConfidenceReading(m, on)
      PROVE  Balanced' /\ Conserved'
  BY <1>3, StillBooks DEF GapReading, ConfidenceReading
<1>4. ASSUME NEW u \in Users, NEW t \in TierReadings, TierUpdate(u, t)
      PROVE  Balanced' /\ Conserved'
  BY <1>4, StillBooks DEF TierUpdate
<1>5. ASSUME NEW t \in Triggers, PlaceTrigger(t) \/ CancelTrigger(t)
      PROVE  Balanced' /\ Conserved'
  BY <1>5, StillBooks DEF PlaceTrigger, CancelTrigger
<1> QED BY <1>1, <1>2, <1>3, <1>4, <1>5, DepositBooks, OracleBooks, FundingBooks
        DEF Accept

(* So does every step of the matching, trigger and liquidation loops.       *)
LEMMA StepBooks == ASSUME CInv, EInv', Step PROVE Balanced' /\ Conserved'
<1>1. EInv
  BY DEF CInv
<1>2. ASSUME NEW i \in DOMAIN book[job.m], MatchOwn(i) \/ PullOrder(i)
      PROVE  Balanced' /\ Conserved'
  <2>1. /\ Release(job.owner, book[job.m][i].id) /\ job # NoJob
        /\ UNCHANGED <<pos, mark>> /\ UNCHANGED totals
    BY <1>2 DEF MatchOwn, PullOrder, Meets
  <2>2. job.owner \in Accounts /\ book[job.m][i].id \in AllIds
    BY <1>1, <2>1, JobIs, BookShape
  <2> QED BY <2>1, <2>2, ReleaseBooks
<1>3. ASSUME EndOrder PROVE Balanced' /\ Conserved'
  <2>1. /\ job # NoJob /\ ~job.liq /\ UNCHANGED <<pos, mark>> /\ UNCHANGED totals
        /\ UNCHANGED money \/ Release(job.owner, job.id)
    BY <1>3 DEF EndOrder
  <2>2. job.owner \in Accounts /\ job.id \in AllIds
    BY <1>1, <2>1, JobIs DEF EInv, JobCloses
  <2>3. CASE UNCHANGED money
    BY <2>1, <2>3, StillBooks
  <2> QED BY <2>1, <2>2, <2>3, ReleaseBooks
<1>4. ASSUME NEW t \in Due, FireTrigger(t) PROVE Balanced' /\ Conserved'
  <2>1. UNCHANGED <<pos, mark>> /\ UNCHANGED totals
    BY <1>4 DEF FireTrigger
  <2>2. CASE UNCHANGED money
    BY <2>1, <2>2, StillBooks
  <2>3. CASE /\ ChildOrder(t).px > 0 /\ Acceptable(ChildOrder(t))
             /\ Enter(ChildOrder(t))
    BY <1>1, <1>4, <2>1, <2>3, ChildIncoming, EnterBooks
  <2> QED BY <1>4, <2>2, <2>3 DEF FireTrigger
<1>5. ASSUME EndFireRound \/ EndScanRound \/ \E u \in Users : Liquidate(u)
      PROVE  Balanced' /\ Conserved'
  BY <1>5, StillBooks DEF EndFireRound, EndScanRound, Liquidate
<1> QED BY <1>2, <1>3, <1>4, <1>5, MatchFillBooks, EndLiquidationBooks
        DEF Step, MatchStep, LoopStep

(* The invariant is inductive.                                              *)
LEMMA BooksInductive == ASSUME CInv, [Next]_vars PROVE CInv'
<1>1. EInv'
  BY NextKeeps, StutterKeeps DEF CInv
<1>2. Balanced' /\ Conserved'
  <2>1. CASE Accept
    BY <1>1, <2>1, AcceptBooks
  <2>2. CASE Step
    BY <1>1, <2>2, StepBooks
  <2>3. CASE \/ \E o \in Orders, d \in NonceSteps :
                    RefuseOrder(o, lastNonce[o.owner] + d)
             \/ Refuse
    BY <2>3, StillBooks DEF RefuseOrder, Refuse
  <2>4. CASE UNCHANGED vars
    BY <2>4, StillBooks DEF vars
  <2> QED BY <2>1, <2>2, <2>3, <2>4 DEF Next
<1> QED BY <1>1, <1>2 DEF CInv

(* The books balance and add up after every step.                           *)
THEOREM BooksHold == Spec => []CInv
<1>1. Init => CInv
  BY InitBooks
<1>2. CInv /\ [Next]_vars => CInv'
  BY BooksInductive
<1> QED BY <1>1, <1>2, PTL DEF Spec

(* Every long contract has its short, in every market, after every step.    *)
THEOREM LongsMeetShorts == Spec => []OiBalanced
<1>1. CInv => OiBalanced
  BY BalancedMeans DEF CInv, EInv
<1> QED BY <1>1, BooksHold, PTL

(* No command makes or loses money: whatever is traded, funded, liquidated  *)
(* or taken over by the fund, the deposits are the cash and the equity.     *)
THEOREM NothingIsLost == Spec => []Conserved
<1>1. CInv => Conserved
  BY DEF CInv
<1> QED BY <1>1, BooksHold, PTL
-----------------------------------------------------------------------------
\* Funding is a transfer.

(* A payment is one rate times the contracts held, but for the remainders   *)
(* of two divisions: the payment's, and the notional's taken at the rate.   *)
LEMMA FundingShare ==
    ASSUME EInv, NEW m \in Markets, index[m] # 0, NEW a \in Accounts,
           NEW k, k = mark[m] * bigabs(FundingRate(m)),
           NEW e, e = IF FundingRate(m) > 0 THEN -1 ELSE 1
    PROVE  LET p == pos[m][a]
               rest == (e * k) * Signed(p) - (UsdScale * BPS) * FundingFlow(m, a)
               c == UsdScale * (BPS + bigabs(FundingRate(m)))
           IN /\ FundingFlow(m, a) \in Int /\ Signed(p) \in Int
              /\ (e * k) * Signed(p) \in Int
              /\ (UsdScale * BPS) * FundingFlow(m, a) \in Int
              /\ k \in Nat /\ c \in Nat /\ rest \in Int
              /\ -c < rest /\ rest < c
              /\ p.qty = 0 => FundingFlow(m, a) = 0 /\ rest = 0
<1> DEFINE p == pos[m][a]
           r == bigabs(FundingRate(m))
           x == mark[m]
           q == p.qty
           d == dirOf(p.side)
           flow == FundingFlow(m, a)
           pay == applyBps(positionNotional(p, x), r)
<1>1. /\ flow \in Int /\ (q = 0 => flow = 0) /\ r \in Nat /\ pay \in Nat
      /\ RoundedShare(q * x, r, pay)
      /\ q = 0 => pay = 0
      /\ flow = IF (FundingRate(m) > 0) = (p.side = "buy") THEN -pay ELSE pay
  BY FundingFlowIs
<1>2. p \in Position /\ x \in Nat
  BY DEF EInv, TypeOK
<1>3. /\ q \in Nat /\ d \in {1, -1} /\ p.side \in {"buy", "sell"}
      /\ Signed(p) = d * q /\ Signed(p) \in Int
      /\ d = IF p.side = "buy" THEN 1 ELSE -1
  BY <1>2, SignedInt DEF Position, Sides, Signed, dirOf
<1>4. e \in {1, -1} /\ flow = (e * d) * pay
  <2>1. CASE FundingRate(m) > 0
    <3>1. e = -1
      BY <2>1
    <3>2. CASE p.side = "buy"
      BY <1>1, <1>3, <2>1, <3>1, <3>2
    <3>3. CASE p.side = "sell"
      BY <1>1, <1>3, <2>1, <3>1, <3>3
    <3> QED BY <1>3, <3>1, <3>2, <3>3
  <2>2. CASE ~(FundingRate(m) > 0)
    <3>1. e = 1
      BY <2>2
    <3>2. CASE p.side = "buy"
      BY <1>1, <1>3, <2>2, <3>1, <3>2
    <3>3. CASE p.side = "sell"
      BY <1>1, <1>3, <2>2, <3>1, <3>3
    <3> QED BY <1>3, <3>1, <3>2, <3>3
  <2> QED BY <2>1, <2>2
<1> DEFINE n == q * x * r
<1>5. k \in Nat /\ n \in Nat /\ n = q * k
  <2>1. k \in Nat /\ q * x \in Nat
    BY <1>1, <1>2, <1>3, ProductNat
  <2>2. \A i, j, l \in Nat : i * j * l = i * (j * l)
    OBVIOUS
  <2> HIDE DEF q, x, r
  <2> QED BY <1>1, <1>2, <1>3, <2>1, <2>2, ProductNat DEF x, r
<1> DEFINE D == UsdScale * BPS
           z == UsdScale * (BPS * pay)
           c == UsdScale * (BPS + r)
<1>10. D \in Nat /\ z \in Nat /\ c \in Nat \ {0} /\ z = D * pay
  <2>1. UsdScale \in Nat \ {0} /\ BPS \in Nat \ {0}
    BY ScaleAssumption DEF BPS
  <2>2. BPS * pay \in Nat /\ BPS + r \in Nat \ {0}
    BY <1>1, <2>1, ProductNat
  <2>3. c \in Nat /\ z \in Nat /\ D \in Nat
    BY <2>1, <2>2, ProductNat
  <2>4. c # 0
    BY <2>1, <2>2
  <2>5. z = D * pay
    <3> HIDE DEF pay
    <3> QED BY <1>1, <2>1
  <2> QED BY <2>3, <2>4, <2>5
<1>6. z <= n /\ n < z + c /\ (q = 0 => n = 0 /\ z = 0)
  <2>1. q = 0 => n = 0
    <3> HIDE DEF n
    <3> QED BY <1>5
  <2>2. q = 0 => z = 0
    <3> HIDE DEF z, D, pay
    <3> QED BY <1>1, <1>10
  <2> QED BY <1>1, <2>1, <2>2 DEF RoundedShare
<1> HIDE DEF p, r, x, q, d, flow, pay, n, D, z, c
<1>7. (e * k) * Signed(p) = (e * d) * n
  <2>1. CASE e = 1 /\ d = 1
    BY <1>3, <1>5, <2>1
  <2>2. CASE e = 1 /\ d = -1
    BY <1>3, <1>5, <2>2
  <2>3. CASE e = -1 /\ d = 1
    BY <1>3, <1>5, <2>3
  <2>4. CASE e = -1 /\ d = -1
    BY <1>3, <1>5, <2>4
  <2> QED BY <1>3, <1>4, <2>1, <2>2, <2>3, <2>4
<1> DEFINE s == e * d
           h == (e * k) * Signed(p)
           g == D * flow
<1>8. s \in {1, -1} /\ h = s * n /\ g = s * z
  <2>1. s \in {1, -1} /\ h = s * n /\ flow = s * pay
    BY <1>3, <1>4, <1>7
  <2> HIDE DEF s, h
  <2>2. D * (s * pay) = s * z
    <3>1. CASE s = 1
      BY <1>1, <1>10, <3>1
    <3>2. CASE s = -1
      BY <1>1, <1>10, <3>2
    <3> QED BY <2>1, <3>1, <3>2
  <2> QED BY <2>1, <2>2
<1> HIDE DEF s, h, g
<1>9. /\ h \in Int /\ g \in Int /\ h - g \in Int
      /\ -c < h - g /\ h - g < c
      /\ q = 0 => h - g = 0
  <2>1. CASE s = 1
    BY <1>5, <1>6, <1>8, <1>10, <2>1
  <2>2. CASE s = -1
    BY <1>5, <1>6, <1>8, <1>10, <2>2
  <2> QED BY <1>8, <2>1, <2>2
<1> QED BY <1>1, <1>3, <1>5, <1>9, <1>10 DEF p, q, flow, h, g, D, c, r

(* What the accounts of a market receive from a funding tick differs from   *)
(* what they pay by less than a unit and the rate per position.             *)
LEMMA FundingTransfers ==
    ASSUME CInv, NEW m \in Markets, FundingTick(m), pos'[m] # pos[m]
    PROVE  LET paid == SumFunction([a \in Accounts |-> pos'[m][a].col - pos[m][a].col])
               open == {a \in Accounts : pos[m][a].qty > 0}
               unit == BPS + bigabs(FundingRate(m))
           IN bigabs(paid) * BPS < Cardinality(open) * unit
<1> DEFINE open == {a \in Accounts : pos[m][a].qty > 0}
           k == mark[m] * bigabs(FundingRate(m))
           e == IF FundingRate(m) > 0 THEN -1 ELSE 1
           N == [a \in Accounts |-> Signed(pos[m][a])]
           F == [a \in Accounts |-> FundingFlow(m, a)]
           D == UsdScale * BPS
           unit == BPS + bigabs(FundingRate(m))
           c == UsdScale * unit
           G == [a \in Accounts |-> D * FundingFlow(m, a)]
           H == [a \in Accounts |-> (e * k) * Signed(pos[m][a])]
           R == [a \in Accounts |-> (e * k) * Signed(pos[m][a])
                                      - D * FundingFlow(m, a)]
<1>1. /\ EInv /\ index[m] # 0 /\ NetOf(pos[m]) = 0
      /\ pos \in [Markets -> [Accounts -> Position]]
  BY DEF CInv, Balanced, FundingTick, EInv, TypeOK
<1>2. pos'[m] = [a \in Accounts |-> [pos[m][a] EXCEPT !.col = @ + FundingFlow(m, a)]]
  BY <1>1 DEF FundingTick
<1>3. ASSUME NEW a \in Accounts
      PROVE  /\ N[a] \in Int /\ F[a] \in Int /\ G[a] \in Int /\ H[a] \in Int
             /\ R[a] \in Int /\ k \in Nat /\ c \in Nat
             /\ G[a] = D * F[a] /\ H[a] = (e * k) * N[a] /\ R[a] = H[a] - G[a]
             /\ -c < R[a] /\ R[a] < c
             /\ pos[m][a].qty = 0 => F[a] = 0 /\ R[a] = 0
             /\ pos[m][a] \in Position
  <2> DEFINE rest == (e * k) * Signed(pos[m][a]) - D * FundingFlow(m, a)
  <2> HIDE DEF k, e
  <2>1. /\ FundingFlow(m, a) \in Int /\ Signed(pos[m][a]) \in Int
        /\ (e * k) * Signed(pos[m][a]) \in Int /\ D * FundingFlow(m, a) \in Int
        /\ k \in Nat /\ c \in Nat /\ rest \in Int
        /\ -c < rest /\ rest < c
        /\ pos[m][a].qty = 0 => FundingFlow(m, a) = 0 /\ rest = 0
    BY <1>1, FundingShare DEF k, e
  <2> HIDE DEF c, D
  <2> QED BY <1>1, <2>1
<1>4. SumFunction([a \in Accounts |-> pos'[m][a].col - pos[m][a].col])
        = SumFunctionOnSet(F, Accounts)
  <2>1. ASSUME NEW a \in Accounts
        PROVE  pos'[m][a].col - pos[m][a].col = F[a]
    <3> DEFINE p == pos[m][a]
               r == pos'[m][a]
               flow == F[a]
    <3>1. p \in Position /\ r = [p EXCEPT !.col = @ + flow] /\ flow \in Int
      BY <1>2, <1>3
    <3> HIDE DEF p, r, flow
    <3>2. r.col - p.col = flow
      BY <3>1 DEF Position
    <3> QED BY <3>2 DEF p, r, flow
  <2>2. [a \in Accounts |-> pos'[m][a].col - pos[m][a].col] = F
    BY <2>1
  <2>3. SumFunction(F) = SumFunctionOnSet(F, Accounts)
    BY DEF SumFunction
  <2> QED BY <2>2, <2>3
<1>5. SumFunctionOnSet(N, Accounts) = 0
  BY <1>1 DEF NetOf, SumFunction
<1>6. \E a \in Accounts : F[a] # 0
  <2> SUFFICES ASSUME \A a \in Accounts : F[a] = 0 PROVE FALSE
    OBVIOUS
  <2>1. ASSUME NEW a \in Accounts PROVE pos'[m][a] = pos[m][a]
    <3> DEFINE p == pos[m][a]
    <3>1. p \in Position /\ pos'[m][a] = [p EXCEPT !.col = @ + 0]
      BY <1>2, <1>3
    <3> HIDE DEF p
    <3>2. [p EXCEPT !.col = @ + 0] = p
      BY <3>1 DEF Position
    <3> QED BY <3>1, <3>2 DEF p
  <2>2. pos'[m] = [a \in Accounts |-> pos'[m][a]]
    BY <1>2
  <2>3. pos[m] = [a \in Accounts |-> pos[m][a]]
    BY <1>1
  <2>4. [a \in Accounts |-> pos'[m][a]] = [a \in Accounts |-> pos[m][a]]
    BY <2>1
  <2> QED BY <2>2, <2>3, <2>4
<1>7. /\ Accounts \cap open = open /\ IsFiniteSet(open)
      /\ Cardinality(open) \in Nat \ {0}
  <2>1. open \subseteq Accounts
    OBVIOUS
  <2>2. IsFiniteSet(open)
    BY <2>1, AccountsFinite, FS_Subset
  <2>3. open # {}
    BY <1>3, <1>6 DEF Position
  <2> HIDE DEF open
  <2> QED BY <2>1, <2>2, <2>3, FS_CardinalityType, FS_EmptySet
<1>8. \A a \in Accounts : IF a \in open THEN -c < R[a] /\ R[a] < c ELSE R[a] = 0
  <2>1. ASSUME NEW a \in Accounts
        PROVE  IF a \in open THEN -c < R[a] /\ R[a] < c ELSE R[a] = 0
    <3>1. a \notin open => pos[m][a].qty = 0
      BY <1>3 DEF Position
    <3>2. -c < R[a] /\ R[a] < c /\ (pos[m][a].qty = 0 => R[a] = 0)
      BY <1>3
    <3> HIDE DEF open, R, c
    <3> QED BY <3>1, <3>2
  <2> QED BY <2>1
<1>9. /\ e \in Int /\ UsdScale \in Nat \ {0} /\ BPS \in Nat
      /\ D = UsdScale * BPS /\ c = UsdScale * unit /\ D \in Int
  BY ScaleAssumption DEF BPS
<1>18. unit \in Nat \ {0}
  <2> DEFINE r == FundingRate(m)
  <2>1. bigabs(r) \in Nat
    <3>1. PICK a \in Accounts : F[a] # 0
      BY <1>6
    <3> QED BY <1>1, FundingFlowIs
  <2> QED BY <2>1 DEF BPS
<1> HIDE DEF open, k, e, N, F, G, H, R, D, unit, c
<1> DEFINE paid == SumFunctionOnSet(F, Accounts)
           rest == SumFunctionOnSet(R, Accounts)
           C == Cardinality(open)
<1>10. SumFunctionOnSet(G, Accounts) = D * paid
  <2>1. \A a \in Accounts : F[a] \in Int /\ G[a] = D * F[a]
    BY <1>3
  <2> QED BY <1>9, <2>1, AccountsFinite, SumScale
<1>11. SumFunctionOnSet(H, Accounts) = 0
  <2> DEFINE f == e * k
  <2>1. k \in Nat
    BY <1>3, <1>6
  <2>2. f \in Int
    BY <1>9, <2>1
  <2>3. \A a \in Accounts : N[a] \in Int /\ H[a] = f * N[a]
    BY <1>3
  <2> HIDE DEF f
  <2>4. SumFunctionOnSet(H, Accounts) = f * SumFunctionOnSet(N, Accounts)
    BY <2>2, <2>3, AccountsFinite, SumScale
  <2> QED BY <1>5, <2>2, <2>4
<1>12. SumFunctionOnSet(H, Accounts) = SumFunctionOnSet(G, Accounts) + rest
  <2>1. \A a \in Accounts : G[a] \in Int /\ R[a] \in Int /\ H[a] = G[a] + R[a]
    BY <1>3
  <2> QED BY <2>1, AccountsFinite, SumAdd
<1>13. c \in Nat \ {0} /\ rest <= (c - 1) * C /\ -rest <= (c - 1) * C
  <2>1. c \in Nat \ {0}
    <3>1. \A i, j \in Nat \ {0} : i * j \in Nat \ {0}
      OBVIOUS
    <3> QED BY ONLY <1>9, <1>18, <3>1
  <2> DEFINE l == c - 1
  <2>2. l \in Nat
    BY ONLY <2>1
  <2>3. /\ \A a \in Accounts : R[a] \in Int
        /\ \A a \in Accounts : IF a \in open THEN -l <= R[a] /\ R[a] <= l ELSE R[a] = 0
    BY ONLY <1>3, <1>8, <2>1
  <2> HIDE DEF l, paid, rest, C
  <2>4. /\ SumFunctionOnSet(R, Accounts) <= l * Cardinality(Accounts \cap open)
        /\ -SumFunctionOnSet(R, Accounts) <= l * Cardinality(Accounts \cap open)
    BY ONLY <2>2, <2>3, AccountsFinite, SumWithin
  <2>5. rest <= l * C /\ -rest <= l * C
    BY <1>7, <2>4 DEF rest, C
  <2> QED BY <2>1, <2>5 DEF l
<1>14. paid \in Int /\ rest \in Int
  BY <1>3, AccountsFinite, SumInt
<1> HIDE DEF paid, rest, C
<1>15. D * paid + rest = 0 /\ C \in Nat \ {0}
  <2>1. D * paid \in Int
    BY ONLY <1>9, <1>14
  <2>2. C \in Nat \ {0}
    BY <1>7 DEF C
  <2> QED BY ONLY <1>10, <1>11, <1>12, <1>14, <2>1, <2>2
<1>16. bigabs(paid) * BPS < C * unit
  <2> DEFINE q == bigabs(paid)
             v == q * BPS
             w == C * unit
  <2>1. q \in Nat /\ (q = paid \/ q = -paid)
    BY <1>14 DEF bigabs
  <2> HIDE DEF q
  <2>2. D * q <= (c - 1) * C
    <3>1. CASE q = paid
      <4>1. D * q = -rest
        BY ONLY <1>14, <1>15, <1>9, <3>1
      <4> QED BY ONLY <1>13, <4>1
    <3>2. CASE q = -paid
      <4>1. D * q = -(D * paid)
        BY ONLY <1>9, <1>14, <3>2
      <4>2. D * paid \in Int
        BY ONLY <1>9, <1>14
      <4>3. D * q = rest
        BY ONLY <1>14, <1>15, <4>1, <4>2
      <4> QED BY ONLY <1>13, <4>3
    <3> QED BY ONLY <2>1, <3>1, <3>2
  <2>3. (c - 1) * C < c * C
    <3>1. (c - 1) * C = c * C - C /\ c * C \in Int
      BY ONLY <1>13, <1>15
    <3> QED BY ONLY <1>15, <3>1
  <2>4. v \in Nat /\ w \in Nat
    BY <1>9, <1>15, <1>18, <2>1, ProductNat
  <2>5. D * q = UsdScale * v /\ c * C = UsdScale * w
    <3>1. (UsdScale * BPS) * q = UsdScale * (q * BPS)
      BY ONLY <1>9, <2>1
    <3>2. (UsdScale * unit) * C = UsdScale * (C * unit)
      BY ONLY <1>9, <1>15, <1>18
    <3> QED BY ONLY <1>9, <3>1, <3>2 DEF v, w
  <2> HIDE DEF v, w
  <2>6. UsdScale * v < UsdScale * w
    <3>1. UsdScale * v \in Int /\ UsdScale * w \in Int /\ (c - 1) * C \in Int
      BY ONLY <1>9, <1>13, <1>15, <2>4
    <3> QED BY ONLY <2>2, <2>3, <2>5, <3>1
  <2>7. v < w
    <3>1. CASE v >= w
      <4>1. UsdScale * w <= UsdScale * v
        BY ONLY <1>9, <2>4, <3>1
      <4>2. UsdScale * v \in Int /\ UsdScale * w \in Int
        BY ONLY <1>9, <2>4
      <4> QED BY ONLY <2>6, <4>1, <4>2
    <3> QED BY ONLY <2>4, <3>1
  <2> QED BY <2>7 DEF v, w, q
<1> QED BY <1>4, <1>16 DEF paid, C, open, unit

(* Funding neither mints nor burns collateral, whatever the mark, the rate  *)
(* and the positions: what it moves within a market cancels but for less    *)
(* than a unit and the rate per position, the two roundings of a payment.   *)
THEOREM FundingIsATransfer == Spec => FundingNets
<1> DEFINE A == \A m \in Markets :
                  LET paid == SumFunction([a \in Accounts |->
                                              pos'[m][a].col - pos[m][a].col])
                      open == {a \in Accounts : pos[m][a].qty > 0}
                      unit == BPS + bigabs(FundingRate(m))
                  IN Idle /\ pos'[m] # pos[m] =>
                        bigabs(paid) * BPS < Cardinality(open) * unit
<1>1. CInv /\ [Next]_vars => [A]_vars
  <2> SUFFICES ASSUME CInv, Next, NEW m \in Markets, Idle, pos'[m] # pos[m]
               PROVE  LET paid == SumFunction([a \in Accounts |->
                                                  pos'[m][a].col - pos[m][a].col])
                          open == {a \in Accounts : pos[m][a].qty > 0}
                          unit == BPS + bigabs(FundingRate(m))
                      IN bigabs(paid) * BPS < Cardinality(open) * unit
    OBVIOUS
  <2>1. NoLoop.kind # "fire" /\ NoLoop.kind # "scan"
    BY DEF NoLoop
  <2>2. ~Step
    BY <2>1 DEF Step, MatchStep, LoopStep, Idle, EndOrder, EndLiquidation, Looping,
                EndFireRound, EndScanRound
  <2>3. \E n \in Markets : FundingTick(n)
    BY <2>2 DEF Next, Accept, PlaceOrder, Deposit, Withdraw, CancelOrder, OracleTick,
                GapReading, ConfidenceReading, TierUpdate, PlaceTrigger,
                CancelTrigger, RefuseOrder, Refuse
  <2>4. PICK n \in Markets : FundingTick(n)
    BY <2>3
  <2>5. pos' = pos \/ pos'[m] = pos[m] \/ n = m
    BY <2>4 DEF FundingTick, CInv, EInv, TypeOK
  <2> QED BY <2>4, <2>5, FundingTransfers
<1>2. [][A]_vars => FundingNets
  BY PTL DEF FundingNets
<1> HIDE DEF A
<1> QED BY <1>1, <1>2, BooksHold, PTL DEF Spec

-----------------------------------------------------------------------------
\* Reduce-only mode.

\* the long contracts of a position and of a market
Long(p) == IF p.side = "buy" THEN p.qty ELSE 0
LongOf(ps) == SumFunction([a \in Accounts |-> Long(ps[a])])

\* an order matched in a market in reduce-only mode closes a position that is
\* at least as large as what is left of it
Reducing ==
    job # NoJob /\ reduceOnly[job.m] /\ rem > 0 =>
        /\ pos[job.m][job.owner].side # job.side
        /\ rem <= pos[job.m][job.owner].qty

(* The inductive invariant. *)
RoInv == EInv /\ Reducing

(* Long contracts are counted with an integer, as SideQty counts them.      *)
LEMMA LongInt ==
    ASSUME NEW ps \in [Accounts -> Position]
    PROVE  /\ LongOf(ps) \in Int
           /\ [a \in Accounts |-> Long(ps[a])] \in [Accounts -> Int]
<1>1. [a \in Accounts |-> Long(ps[a])] \in [Accounts -> Int]
  BY DEF Long, Position
<1> QED BY <1>1, AccountSum DEF LongOf

(* A sale adds no long contract and a purchase no more than is bought; what *)
(* only closes a position takes its contracts away.                         *)
LEMMA SettledLong ==
    ASSUME NEW w, IsWorld(w), NEW v, IsWorld(v), NEW u \in Accounts,
           NEW side \in Sides, NEW q \in Nat \ {0}, Settled(v, w, u, side, q)
    PROVE  LET closes == w.pos[u].side # side /\ q <= w.pos[u].qty IN
           \E d \in Int :
              /\ LongOf(v.pos) = LongOf(w.pos) + d
              /\ side = "sell" => d <= 0 /\ (closes => d = -q)
              /\ side = "buy" => d <= q /\ (closes => d = 0)
<1> DEFINE p == w.pos[u]
           r == v.pos[u]
           d == Long(r) - Long(p)
           f == [a \in Accounts |-> Long(w.pos[a])]
           g == [a \in Accounts |-> Long(v.pos[a])]
<1>1. /\ p.side \in {"buy", "sell"} /\ p.qty \in Nat
      /\ r.side \in {"buy", "sell"} /\ r.qty \in Nat
      /\ side \in {"buy", "sell"}
  BY DEF IsWorld, Position, Sides
<1>2. IF p.side # side /\ p.qty > 0
      THEN IF q <= p.qty THEN r.qty = p.qty - q /\ (q < p.qty => r.side = p.side)
           ELSE r.qty = q - p.qty /\ r.side = side
      ELSE r.qty = p.qty + q /\ r.side = side
  BY DEF Settled
<1>3. f \in [Accounts -> Int] /\ g \in [Accounts -> Int]
  BY LongInt DEF IsWorld
<1>4. \A a \in Accounts \ {u} : g[a] = f[a]
  BY DEF Settled
<1>5. g[u] = Long(r) /\ f[u] = Long(p)
  OBVIOUS
<1> HIDE DEF p, r, f, g
<1>6. /\ d \in Int
      /\ side = "sell" => d <= 0 /\ (p.side # side /\ q <= p.qty => d = -q)
      /\ side = "buy" => d <= q /\ (p.side # side /\ q <= p.qty => d = 0)
  BY <1>1, <1>2 DEF Long
<1>7. Long(p) \in Int /\ Long(r) \in Int
  BY <1>1 DEF Long
<1>8. g[u] = f[u] + d
  BY <1>5, <1>7
<1> HIDE DEF d
<1>9. SumFunction(g) = SumFunction(f) + d
  BY ONLY <1>3, <1>4, <1>6, <1>8, AccountMoves, u \in Accounts
<1>10. LongOf(v.pos) = LongOf(w.pos) + d
  BY <1>9 DEF LongOf, f, g
<1> QED BY <1>6, <1>10 DEF p

(* One party closes, the other takes the other side: no contract is added.  *)
LEMMA ClosingAddsNone ==
    ASSUME NEW y, IsWorld(y), NEW w, IsWorld(w), NEW v, IsWorld(v),
           NEW a \in Accounts, NEW b \in Accounts, NEW side \in Sides,
           NEW q \in Nat \ {0},
           \/ /\ Settled(w, y, a, Opposite(side), q) /\ Settled(v, w, b, side, q)
              /\ w.pos[b].side # side /\ q <= w.pos[b].qty
           \/ /\ Settled(w, y, b, side, q) /\ Settled(v, w, a, Opposite(side), q)
              /\ y.pos[b].side # side /\ q <= y.pos[b].qty
    PROVE  LongOf(v.pos) <= LongOf(y.pos)
<1>1. /\ Opposite(side) \in Sides
      /\ \/ side = "sell" /\ Opposite(side) = "buy"
         \/ side = "buy" /\ Opposite(side) = "sell"
  BY DEF Sides, Opposite
<1>2. LongOf(y.pos) \in Int /\ LongOf(w.pos) \in Int /\ LongOf(v.pos) \in Int
  BY LongInt DEF IsWorld
<1> DEFINE across == Opposite(side)
<1> HIDE DEF across
<1>3. /\ across \in Sides
      /\ \/ side = "sell" /\ across = "buy"
         \/ side = "buy" /\ across = "sell"
  BY <1>1 DEF across
<1>4. CASE /\ Settled(w, y, a, across, q) /\ Settled(v, w, b, side, q)
           /\ w.pos[b].side # side /\ q <= w.pos[b].qty
  <2>1. PICK d \in Int : /\ LongOf(w.pos) = LongOf(y.pos) + d
                         /\ across = "sell" => d <= 0
                         /\ across = "buy" => d <= q
    BY ONLY <1>3, <1>4, SettledLong, IsWorld(y), IsWorld(w), a \in Accounts,
            q \in Nat \ {0}
  <2>2. PICK e \in Int : /\ LongOf(v.pos) = LongOf(w.pos) + e
                         /\ side = "sell" => e = -q
                         /\ side = "buy" => e = 0
    BY ONLY <1>4, SettledLong, IsWorld(w), IsWorld(v), b \in Accounts,
            side \in Sides, q \in Nat \ {0}
  <2> QED BY <1>2, <1>3, <2>1, <2>2
<1>5. CASE /\ Settled(w, y, b, side, q) /\ Settled(v, w, a, across, q)
           /\ y.pos[b].side # side /\ q <= y.pos[b].qty
  <2>1. PICK d \in Int : /\ LongOf(v.pos) = LongOf(w.pos) + d
                         /\ across = "sell" => d <= 0
                         /\ across = "buy" => d <= q
    BY ONLY <1>3, <1>5, SettledLong, IsWorld(v), IsWorld(w), a \in Accounts,
            q \in Nat \ {0}
  <2>2. PICK e \in Int : /\ LongOf(w.pos) = LongOf(y.pos) + e
                         /\ side = "sell" => e = -q
                         /\ side = "buy" => e = 0
    BY ONLY <1>5, SettledLong, IsWorld(w), IsWorld(y), b \in Accounts,
            side \in Sides, q \in Nat \ {0}
  <2> QED BY <1>2, <1>3, <2>1, <2>2
<1> QED BY <1>4, <1>5 DEF across

(* A fill of an order that closes: what is left of it still closes, and the *)
(* market has no more long contracts than before.                           *)
LEMMA FillReduces ==
    ASSUME RoInv, NEW i \in DOMAIN book[job.m], MatchFill(i)
    PROVE  /\ Reducing'
           /\ \A m \in Markets : reduceOnly[m] => LongOf(pos'[m]) <= LongOf(pos[m])
<1> DEFINE o == book[job.m][i]
           side == Opposite(job.side)
           y == World(job.m)
           p == pos[job.m][job.owner]
<1>1. /\ job # NoJob /\ rem > 0 /\ o.owner # job.owner
      /\ job' = job /\ reduceOnly' = reduceOnly
  BY DEF MatchFill, Meets, feeds
<1>2. /\ job.m \in Markets /\ job.owner \in Accounts /\ job.side \in Sides
      /\ rem \in Nat /\ pos \in [Markets -> [Accounts -> Position]]
  BY <1>1, JobIs DEF RoInv, EInv, TypeOK
<1>3. o.owner \in Accounts /\ o.px \in Nat
  BY <1>2, BookShape, FundIsNoUser DEF RoInv
<1>4. IsWorld(y) /\ y.pos = pos[job.m]
  BY <1>2, WorldOK DEF RoInv, World
<1>5. side \in Sides
  BY <1>2 DEF Opposite, Sides
<1> HIDE DEF o, side, y
<1>6. PICK q \in Nat \ {0}, c, f, d, g \in Nat : \E w, v :
        /\ q <= rem /\ rem' = rem - q
        /\ w = ApplyFill(y, o.owner, side, o.px, q, c, f)
        /\ v = ApplyFill(w, job.owner, job.side, o.px, q, d, g)
        /\ SetWorld(job.m, v)
  BY FillIs DEF o, side, y, RoInv
<1>7. PICK w, v :
        /\ q <= rem /\ rem' = rem - q
        /\ w = ApplyFill(y, o.owner, side, o.px, q, c, f)
        /\ v = ApplyFill(w, job.owner, job.side, o.px, q, d, g)
        /\ SetWorld(job.m, v)
  BY <1>6
<1>8. IsWorld(w) /\ Settled(w, y, o.owner, side, q)
  BY <1>3, <1>4, <1>5, <1>7, ApplyFillSettles
<1>9. IsWorld(v) /\ Settled(v, w, job.owner, job.side, q)
  BY <1>2, <1>3, <1>7, <1>8, ApplyFillSettles
<1>10. w.pos[job.owner] = p
  BY <1>1, <1>2, <1>4, <1>8 DEF Settled
<1>11. /\ pos'[job.m] = v.pos
       /\ \A n \in Markets \ {job.m} : pos'[n] = pos[n]
  BY <1>2, <1>7 DEF SetWorld
<1>12. p \in Position /\ p.qty \in Nat /\ v.pos[job.owner].qty \in Nat
  BY <1>2, <1>9 DEF Position, IsWorld
<1>13. reduceOnly[job.m] => p.side # job.side /\ rem <= p.qty
  BY <1>1 DEF RoInv, Reducing
<1>14. Reducing'
  <2> SUFFICES ASSUME reduceOnly[job.m], rem' > 0
               PROVE  /\ v.pos[job.owner].side # job.side
                      /\ rem' <= v.pos[job.owner].qty
    BY <1>1, <1>11 DEF Reducing
  <2>1. p.side # job.side /\ rem <= p.qty /\ q < p.qty /\ p.qty > 0 /\ q <= p.qty
    BY <1>2, <1>7, <1>12, <1>13
  <2>2. v.pos[job.owner].qty = p.qty - q /\ v.pos[job.owner].side = p.side
    BY <1>9, <1>10, <2>1 DEF Settled
  <2> HIDE DEF p
  <2> QED BY <1>2, <1>7, <1>12, <2>1, <2>2
<1>15. reduceOnly[job.m] => LongOf(pos'[job.m]) <= LongOf(pos[job.m])
  <2> SUFFICES ASSUME reduceOnly[job.m] PROVE LongOf(v.pos) <= LongOf(y.pos)
    BY <1>4, <1>11
  <2>1. w.pos[job.owner].side # job.side /\ q <= w.pos[job.owner].qty
    BY <1>2, <1>7, <1>10, <1>12, <1>13
  <2> QED BY <1>2, <1>3, <1>4, <1>8, <1>9, <2>1, ClosingAddsNone DEF side
<1>16. \A n \in Markets : LongOf(pos[n]) \in Int
  BY <1>2, LongInt
<1> QED BY <1>11, <1>14, <1>15, <1>16

(* A takeover by the fund closes what the owner holds.                      *)
LEMMA BackstopReduces ==
    ASSUME EInv, job # NoJob, job.liq
    PROVE  IsWorld(Backstop) /\ LongOf(Backstop.pos) <= LongOf(pos[job.m])
<1> DEFINE col == collateralRequired(notionalUsd(rem, job.mark), Params,
                     [gap |-> gap[job.m], mult |-> CoeffScale, tier |-> "C"])
           y == World(job.m)
           w == [World(job.m) EXCEPT !.free[Fund] = @ - col, !.reserved[Fund] = @ + col]
           v == ApplyFill(w, job.owner, job.side, job.mark, rem, 0, 0)
           x == ApplyFill(v, Fund, Opposite(job.side), job.mark, rem, col, 0)
<1>1. /\ job.m \in Markets /\ job.owner \in Accounts
      /\ job.side \in Sides /\ job.mark \in Nat /\ rem \in Nat
      /\ Fund \in Accounts
  BY JobIs, FundIsNoUser
<1>2. IsWorld(y)
  BY <1>1, WorldOK
<1>3. /\ y = [free |-> free, reserved |-> reserved, fees |-> fees, dust |-> dust,
              pos |-> pos[job.m]]
      /\ free \in [Accounts -> Int] /\ reserved \in [Accounts -> Int]
  BY DEF World, EInv, TypeOK
<1>4. LongOf(pos[job.m]) \in Int
  BY <1>1, LongInt DEF EInv, TypeOK
<1>5. CASE rem = 0
  <2>1. Backstop = y
    BY <1>5 DEF Backstop
  <2> HIDE DEF y
  <2> QED BY <1>2, <1>3, <1>4, <2>1
<1>6. CASE rem # 0
  <2>1. rem \in Nat \ {0} /\ Opposite(job.side) \in Sides
    BY <1>1, <1>6 DEF Opposite, Sides
  <2>2. col \in Nat
    <3>1. notionalUsd(rem, job.mark) \in Nat
      BY <1>1, NotionalNat
    <3>2. [gap |-> gap[job.m], mult |-> CoeffScale, tier |-> "C"] \in RiskCoeffs
      BY <1>1, ScaleAssumption DEF RiskCoeffs, TierCodes, EInv, TypeOK
    <3> QED BY <3>1, <3>2, RequiredNat, EngineAssumption
  <2>3. Backstop = x
    BY <1>6 DEF Backstop
  <2> HIDE DEF col
  <2> DEFINE fr == [free EXCEPT ![Fund] = @ - col]
             rs == [reserved EXCEPT ![Fund] = @ + col]
  <2>4. w = [free |-> fr, reserved |-> rs, fees |-> fees, dust |-> dust,
             pos |-> pos[job.m]]
    <3>1. w = [y EXCEPT !.free = [y.free EXCEPT ![Fund] = @ - col],
                        !.reserved = [y.reserved EXCEPT ![Fund] = @ + col]]
      OBVIOUS
    <3> HIDE DEF w, y
    <3> QED BY <1>3, <3>1
  <2> HIDE DEF w
  <2>5. fr \in [Accounts -> Int] /\ rs \in [Accounts -> Int]
    BY <1>1, <1>3, <2>2
  <2> HIDE DEF fr, rs
  <2>6. IsWorld(w) /\ w.pos = pos[job.m]
    <3>1. /\ fees \in Nat /\ dust \in Int /\ pos[job.m] \in [Accounts -> Position]
          /\ \A a \in Accounts : PosOK(pos[job.m][a])
      BY <1>1 DEF EInv, TypeOK, Gone
    <3> QED BY <2>4, <2>5, <3>1 DEF IsWorld
  <2>7. IsWorld(v) /\ Settled(v, w, job.owner, job.side, rem)
    BY <1>1, <2>1, <2>6, 0 \in Nat, ApplyFillSettles
  <2> HIDE DEF v
  <2>8. IsWorld(x) /\ Settled(x, v, Fund, Opposite(job.side), rem)
    BY <1>1, <2>1, <2>2, <2>7, 0 \in Nat, ApplyFillSettles
  <2> HIDE DEF x
  <2>9. w.pos[job.owner].side # job.side /\ rem <= w.pos[job.owner].qty
    BY <1>1, <2>1, <2>6 DEF EInv, JobCloses
  <2>10. LongOf(x.pos) <= LongOf(w.pos)
    BY <1>1, <2>1, <2>6, <2>7, <2>8, <2>9, ClosingAddsNone
  <2> QED BY <2>3, <2>6, <2>8, <2>10
<1> QED BY <1>5, <1>6

(* A liquidation adds no contract.                                          *)
LEMMA EndLiquidationReduces ==
    ASSUME EInv, EndLiquidation
    PROVE  \A m \in Markets : LongOf(pos'[m]) <= LongOf(pos[m])
<1> DEFINE w == Backstop
           u == job.owner
           paid == PenaltyPaid(w.free[u])
           fr == [w.free EXCEPT ![u] = @ - paid, ![Fund] = @ + paid]
           v == [w EXCEPT !.free = fr]
<1>1. job # NoJob /\ job.liq /\ SetWorld(job.m, v)
  BY DEF EndLiquidation
<1>2. job.m \in Markets /\ pos \in [Markets -> [Accounts -> Position]]
  BY <1>1, JobIs DEF EInv, TypeOK
<1>3. IsWorld(w) /\ LongOf(w.pos) <= LongOf(pos[job.m])
  BY <1>1, BackstopReduces
<1> HIDE DEF w, fr
<1>4. v.pos = w.pos
  BY <1>3 DEF IsWorld
<1> HIDE DEF v
<1>5. pos'[job.m] = w.pos /\ \A n \in Markets \ {job.m} : pos'[n] = pos[n]
  BY <1>1, <1>2, <1>4 DEF SetWorld
<1>6. \A n \in Markets : LongOf(pos[n]) \in Int
  BY <1>2, LongInt
<1> QED BY <1>3, <1>5, <1>6

(* Funding changes nobody's contracts.                                      *)
LEMMA FundingLong ==
    ASSUME EInv, NEW n \in Markets, FundingTick(n)
    PROVE  \A m \in Markets : LongOf(pos'[m]) = LongOf(pos[m])
<1>1. pos \in [Markets -> [Accounts -> Position]]
  BY DEF EInv, TypeOK
<1>2. CASE UNCHANGED pos
  BY <1>2
<1>3. CASE pos' = [pos EXCEPT ![n] = [a \in Accounts |->
                      [pos[n][a] EXCEPT !.col = @ + FundingFlow(n, a)]]]
  <2> DEFINE f == [a \in Accounts |-> [pos[n][a] EXCEPT !.col = @ + FundingFlow(n, a)]]
  <2>1. \A a \in Accounts : f[a].side = pos[n][a].side /\ f[a].qty = pos[n][a].qty
    BY <1>1 DEF Position
  <2>2. pos' = [pos EXCEPT ![n] = f]
    BY <1>3
  <2> HIDE DEF f
  <2>3. \A m \in Markets \ {n} : pos'[m] = pos[m]
    BY <1>1, <2>2
  <2>4. pos'[n] = f
    BY <1>1, <2>2
  <2>5. [a \in Accounts |-> Long(f[a])] = [a \in Accounts |-> Long(pos[n][a])]
    BY <2>1 DEF Long
  <2>6. LongOf(f) = LongOf(pos[n])
    BY <2>5 DEF LongOf
  <2> QED BY <2>3, <2>4, <2>6
<1> QED BY <1>2, <1>3 DEF FundingTick

(* In reduce-only mode an order that is accepted only closes.               *)
LEMMA EnterReduces ==
    ASSUME EInv, NEW o, Incoming(o), Acceptable(o), Enter(o),
           UNCHANGED <<pos, reduceOnly>>
    PROVE  Reducing'
<1>1. job' = [m |-> o.m, id |-> o.id, owner |-> o.owner, side |-> o.side,
              px |-> o.px, qty |-> QtyOf(o), tif |-> o.tif, liq |-> FALSE, mark |-> 0]
      /\ rem' = QtyOf(o)
  BY DEF Enter
<1>2. QtyOf(o) \in Nat \ {0}
  BY AcceptedOrder
<1>3. pos[o.m][o.owner].qty \in Nat
  <2>1. pos[o.m][o.owner] \in Position
    BY FundIsNoUser DEF EInv, TypeOK, Incoming
  <2> QED BY <2>1 DEF Position
<1>4. ASSUME reduceOnly[o.m]
      PROVE  pos[o.m][o.owner].side # o.side /\ QtyOf(o) <= pos[o.m][o.owner].qty
  <2>1. ExposureQty(o) = 0
    BY <1>4 DEF Acceptable, ModeAllows
  <2>2. OppositeQty(o) \in Nat
    BY <1>3 DEF OppositeQty
  <2>3. QtyOf(o) <= OppositeQty(o)
    <3> DEFINE n == QtyOf(o)
               k == OppositeQty(o)
    <3>1. o.tif = "IOC" /\ bigmax(0, n - k) = 0
      BY <1>2, <2>1 DEF ExposureQty
    <3> HIDE DEF n, k
    <3>2. n \in Nat /\ k \in Nat
      BY <1>2, <2>2 DEF n, k
    <3>3. n <= k
      BY <3>1, <3>2 DEF bigmax
    <3> QED BY <3>3 DEF n, k
  <2> QED BY <1>2, <1>3, <2>2, <2>3 DEF OppositeQty
<1> QED BY <1>1, <1>4 DEF Reducing

(* The invariant is inductive, and while the mode is on the market's long   *)
(* contracts do not grow.                                                   *)
LEMMA NextReduces ==
    ASSUME RoInv, EInv', Next
    PROVE  /\ Reducing'
           /\ \A m \in Markets : reduceOnly[m] => LongOf(pos'[m]) <= LongOf(pos[m])
<1> DEFINE Goal == /\ Reducing'
                   /\ \A m \in Markets : reduceOnly[m] =>
                         LongOf(pos'[m]) <= LongOf(pos[m])
<1>1. EInv /\ \A m \in Markets : LongOf(pos[m]) \in Int
  BY LongInt DEF RoInv, EInv, TypeOK
<1>2. ASSUME UNCHANGED pos, Reducing' PROVE Goal
  BY <1>1, <1>2
<1>3. ASSUME job' = NoJob PROVE Reducing'
  BY <1>3 DEF Reducing
<1>4. ASSUME NEW o \in Orders, NEW d \in NonceSteps,
             PlaceOrder(o, lastNonce[o.owner] + d)
      PROVE  Goal
  <2>1. UNCHANGED <<pos, reduceOnly>> /\ Acceptable(o) /\ job = NoJob
        /\ (Enter(o) \/ BounceOff(o))
    BY <1>4 DEF PlaceOrder, feeds, Command, Idle
  <2>2. Incoming(o)
    BY EngineAssumption DEF OrderType, Incoming, AllIds
  <2>3. CASE Enter(o)
    BY <1>1, <1>2, <2>1, <2>2, <2>3, EnterReduces
  <2>4. CASE BounceOff(o)
    BY <1>2, <1>3, <2>1, <2>4 DEF BounceOff
  <2> QED BY <2>1, <2>3, <2>4
<1>5. ASSUME NEW n \in Markets, FundingTick(n) PROVE Goal
  <2>1. job' = NoJob
    BY <1>5 DEF FundingTick, Command, Idle
  <2>2. \A m \in Markets : LongOf(pos'[m]) = LongOf(pos[m])
    BY <1>1, <1>5, FundingLong
  <2> QED BY <1>1, <1>3, <2>1, <2>2
<1>6. ASSUME NEW t \in Due, FireTrigger(t) PROVE Goal
  <2>1. UNCHANGED <<pos, reduceOnly>> /\ job = NoJob
    BY <1>6 DEF FireTrigger, feeds, Looping
  <2>2. CASE UNCHANGED <<money, ledger, job, rem>>
    BY <1>2, <1>3, <2>1, <2>2
  <2>3. CASE /\ ChildOrder(t).px > 0 /\ Acceptable(ChildOrder(t))
             /\ Enter(ChildOrder(t))
    <3>1. Incoming(ChildOrder(t))
      BY <1>1, <1>6, <2>3, ChildIncoming
    <3> QED BY <1>1, <1>2, <2>1, <2>3, <3>1, EnterReduces
  <2> QED BY <1>6, <2>2, <2>3 DEF FireTrigger
<1>7. ASSUME NEW u \in Users, Liquidate(u) PROVE Goal
  <2>1. UNCHANGED pos /\ job'.liq
    BY <1>7 DEF Liquidate
  <2>2. rem' \in Nat
    BY DEF EInv, TypeOK
  <2>3. Reducing'
    BY <2>1, <2>2 DEF Reducing, EInv, JobCloses
  <2> QED BY <1>2, <2>1, <2>3
<1>8. ASSUME NEW i \in DOMAIN book[job.m], MatchFill(i) PROVE Goal
  BY <1>8, FillReduces
<1>9. ASSUME NEW i \in DOMAIN book[job.m], MatchOwn(i) \/ PullOrder(i) PROVE Goal
  <2>1. UNCHANGED <<pos, reduceOnly, job, rem>>
    BY <1>9 DEF MatchOwn, PullOrder, feeds
  <2>2. Reducing'
    BY <2>1 DEF RoInv, Reducing
  <2> QED BY <1>2, <2>1, <2>2
<1>10. ASSUME EndLiquidation PROVE Goal
  <2>1. job' = NoJob
    BY <1>10 DEF EndLiquidation
  <2> QED BY <1>1, <1>3, <1>10, <2>1, EndLiquidationReduces
<1>11. ASSUME EndOrder \/ EndFireRound \/ EndScanRound PROVE Goal
  <2>1. UNCHANGED pos /\ job' = NoJob
    BY <1>11 DEF EndOrder, EndFireRound, EndScanRound, Looping
  <2> QED BY <1>2, <1>3, <2>1
<1>12. ASSUME \/ \E u \in Users, amount \in Amounts :
                    Deposit(u, amount) \/ Withdraw(u, amount)
              \/ \E u \in Users, m \in Markets, id \in AllIds : CancelOrder(u, m, id)
              \/ \E m \in Markets : \/ \E px \in IndexPrices : OracleTick(m, px)
                                    \/ \E g \in GapCoeffs : GapReading(m, g)
                                    \/ \E on \in BOOLEAN : ConfidenceReading(m, on)
              \/ \E u \in Users, t \in TierReadings : TierUpdate(u, t)
              \/ \E t \in Triggers : PlaceTrigger(t) \/ CancelTrigger(t)
              \/ \E o \in Orders, d \in NonceSteps :
                    RefuseOrder(o, lastNonce[o.owner] + d)
              \/ Refuse
       PROVE  Goal
  <2>1. UNCHANGED pos /\ job' = NoJob
    BY <1>12 DEF Deposit, Withdraw, CancelOrder, OracleTick, GapReading,
                 ConfidenceReading, TierUpdate, PlaceTrigger, CancelTrigger,
                 RefuseOrder, Refuse, Command, Idle
  <2> QED BY <1>2, <1>3, <2>1
<1> HIDE DEF Goal
<1>13. Goal
  BY <1>4, <1>5, <1>6, <1>7, <1>8, <1>9, <1>10, <1>11, <1>12
     DEF Next, Accept, Step, MatchStep, LoopStep
<1> QED BY <1>13 DEF Goal

(* In reduce-only mode the open interest of a market does not grow, however *)
(* many orders rested before the mode came on and whoever they meet.        *)
THEOREM ReduceOnlyReduces == Spec => ReduceOnlyShrinks
<1> DEFINE A == \A m \in Markets :
                   reduceOnly[m] => SideQty(m, "buy")' <= SideQty(m, "buy")
<1>1. Init => RoInv
  BY InitKeeps DEF RoInv, Reducing, Init
<1>2. RoInv /\ [Next]_vars => RoInv'
  <2> SUFFICES ASSUME RoInv, [Next]_vars PROVE RoInv'
    OBVIOUS
  <2>1. EInv'
    BY NextKeeps, StutterKeeps DEF RoInv
  <2>2. CASE Next
    BY <2>1, <2>2, NextReduces DEF RoInv
  <2>3. CASE UNCHANGED vars
    BY <2>1, <2>3 DEF RoInv, Reducing, vars, feeds
  <2> QED BY <2>2, <2>3
<1>3. RoInv /\ RoInv' /\ [Next]_vars => [A]_vars
  <2> SUFFICES ASSUME RoInv, EInv', Next, NEW m \in Markets, reduceOnly[m]
               PROVE  SideQty(m, "buy")' <= SideQty(m, "buy")
    BY DEF RoInv
  <2>1. LongOf(pos'[m]) <= LongOf(pos[m])
    BY NextReduces
  <2>2. SideQty(m, "buy") = LongOf(pos[m]) /\ SideQty(m, "buy")' = LongOf(pos'[m])
    BY DEF SideQty, LongOf, Long
  <2> QED BY <2>1, <2>2
<1>4. [][A]_vars => ReduceOnlyShrinks
  BY PTL DEF ReduceOnlyShrinks
<1> HIDE DEF A
<1> QED BY <1>1, <1>2, <1>3, <1>4, PTL DEF Spec

-----------------------------------------------------------------------------
(***************************************************************************)
(* What an account has reserved is what its live orders hold, for any      *)
(* users, markets, orders and prices, as long as no id is used in two      *)
(* markets: the engine keeps all reservations in one map keyed by the id   *)
(* of the order and looks for duplicates in one book only, so with an id   *)
(* in two markets the law fails.                                           *)
(***************************************************************************)

\* the ids clients choose name orders and triggers of one market each
OneMarketPerId == \A x, y \in Orders \cup Triggers : x.id = y.id => x.m = y.m

Home(id) == CHOOSE m \in Markets : \E x \in Orders \cup Triggers : x.id = id /\ x.m = m

(* An order is at home in its market.                                       *)
LEMMA HomeIs == ASSUME OneMarketPerId, NEW x \in Orders \cup Triggers
                PROVE  Home(x.id) = x.m
<1>1. x.m \in Markets
  BY EngineAssumption DEF OrderType, TriggerType
<1>2. \E m \in Markets : \E y \in Orders \cup Triggers : y.id = x.id /\ y.m = m
  BY <1>1
<1>3. PICK y \in Orders \cup Triggers : y.id = x.id /\ y.m = Home(x.id)
  BY <1>2 DEF Home
<1> QED BY <1>3 DEF OneMarketPerId

Pairs == Markets \X AllIds

(* There are finitely many orders to sum over.                              *)
LEMMA PairsFinite == IsFiniteSet(Pairs)
<1>1. IsFiniteSet(AllIds)
  BY EngineAssumption, FS_Union DEF AllIds
<1> QED BY <1>1, EngineAssumption, FS_Product DEF Pairs

\* what x adds to the backing of held
Part(l, held, x) == IF x \in held THEN l[x[2]].col + l[x[2]].fee ELSE 0

(* The sum that backs an account, in the terms of CommonLemmas.             *)
LEMMA BackingIs ==
    ASSUME NEW l \in [AllIds -> Reserve], NEW held
    PROVE  /\ \A x \in Pairs : Part(l, held, x) \in Int
           /\ Backing(l, held) = SumFunctionOnSet([x \in Pairs |-> Part(l, held, x)], Pairs)
           /\ Backing(l, held) \in Int
<1> DEFINE f == [x \in Pairs |-> Part(l, held, x)]
<1>1. \A x \in Pairs : Part(l, held, x) \in Int
  <2> SUFFICES ASSUME NEW x \in Pairs PROVE Part(l, held, x) \in Int
    OBVIOUS
  <2>1. l[x[2]] \in Reserve
    BY DEF Pairs
  <2>2. l[x[2]].col \in Nat /\ l[x[2]].fee \in Nat
    BY <2>1 DEF Reserve
  <2> QED BY <2>2 DEF Part
<1>2. Backing(l, held) = SumFunctionOnSet(f, Pairs)
  BY DEF Backing, SumFunction, Part, Pairs
<1>3. \A x \in Pairs : f[x] \in Int
  BY <1>1
<1> HIDE DEF f
<1>4. SumFunctionOnSet(f, Pairs) \in Int
  BY <1>3, PairsFinite, SumInt
<1> QED BY <1>1, <1>2, <1>4 DEF f

(* Orders that are neither added, nor removed, nor drawn from.              *)
LEMMA BackingSame ==
    ASSUME NEW l \in [AllIds -> Reserve], NEW k \in [AllIds -> Reserve],
           NEW h, NEW g,
           \A x \in Pairs : x \in g <=> x \in h,
           \A x \in Pairs : x \in h => k[x[2]] = l[x[2]]
    PROVE  Backing(k, g) = Backing(l, h)
<1>1. \A x \in Pairs : Part(k, g, x) = Part(l, h, x)
  BY DEF Part
<1>2. [x \in Pairs |-> Part(k, g, x)] = [x \in Pairs |-> Part(l, h, x)]
  BY <1>1
<1> QED BY <1>2, BackingIs

(* One order is added, removed or drawn from.                               *)
LEMMA BackingMoves ==
    ASSUME NEW l \in [AllIds -> Reserve], NEW k \in [AllIds -> Reserve],
           NEW h, NEW g, NEW x \in Pairs, NEW d \in Int,
           \A y \in Pairs \ {x} : y \in g <=> y \in h,
           \A y \in Pairs \ {x} : y \in h => k[y[2]] = l[y[2]],
           Part(k, g, x) = Part(l, h, x) + d
    PROVE  Backing(k, g) = Backing(l, h) + d
<1> DEFINE f == [y \in Pairs |-> Part(l, h, y)]
           e == [y \in Pairs |-> Part(k, g, y)]
<1>1. \A y \in Pairs : f[y] \in Int
  BY BackingIs
<1>2. e[x] = f[x] + d
  OBVIOUS
<1>3. \A y \in Pairs \ {x} : e[y] = f[y]
  BY DEF Part
<1>4. Backing(l, h) = SumFunctionOnSet(f, Pairs) /\ Backing(k, g) = SumFunctionOnSet(e, Pairs)
  BY BackingIs
<1> HIDE DEF e, f
<1>5. SumFunctionOnSet(e, Pairs) = SumFunctionOnSet(f, Pairs) + d
  BY ONLY <1>1, <1>2, <1>3, PairsFinite, SumMoves, x \in Pairs, d \in Int
<1> QED BY <1>4, <1>5
-----------------------------------------------------------------------------
\* The invariant.

Matching == job # NoJob /\ ~job.liq

\* what rests, waits and is matched in a market is at home there
AtHome ==
    /\ \A m \in Markets : \A i \in DOMAIN book[m] : Home(book[m][i].id) = m
    /\ \A m \in Markets : triggers[m] \subseteq Triggers
    /\ Matching => Home(job.id) = job.m

\* a reservation covers what is left of its order; only an order that does not
\* rest may hold none, and one drawn to the end holds nothing
Covered ==
    /\ \A m \in Markets : \A i \in DOMAIN book[m] :
          ledger[book[m][i].id].qty = book[m][i].rem
    /\ Matching => /\ ledger[job.id].qty \in {0, rem}
                   /\ job.tif # "IOC" => ledger[job.id].qty = rem
    /\ \A id \in AllIds : ledger[id].qty = 0 => ledger[id] = NoReserve

\* no reservation outlives its order
Spent ==
    \A id \in AllIds :
        (\A m \in Markets : id \notin RestingIds(book[m])) /\ ~(Matching /\ job.id = id)
        => ledger[id] = NoReserve

Reserved ==
    /\ \A u \in Users : reserved[u] = Backing(ledger, HeldOrders(u))
    /\ reserved[Fund] = 0

(* The inductive invariant. *)
RInv == EInv /\ AtHome /\ Covered /\ Spent /\ Reserved

Kept == AtHome /\ Covered /\ Spent /\ Reserved

(* An order is held where it rests or is matched.                           *)
LEMMA HeldIs ==
    ASSUME NEW u, NEW x \in Pairs
    PROVE  x \in HeldOrders(u) <=>
             \/ RestsFor(book[x[1]], u, x[2])
             \/ Matching /\ job.m = x[1] /\ job.id = x[2] /\ job.owner = u
BY DEF HeldOrders, HeldBy, RestsFor, Matching, Pairs

(* And so it is after a step.                                               *)
LEMMA HeldIsNext ==
    ASSUME NEW u, NEW x \in Pairs
    PROVE  x \in HeldOrders(u)' <=>
             \/ RestsFor(book'[x[1]], u, x[2])
             \/ Matching' /\ job'.m = x[1] /\ job'.id = x[2] /\ job'.owner = u
BY DEF HeldOrders, HeldBy, RestsFor, Matching, Pairs

(* A held order is held by one account, at home.                            *)
LEMMA HeldOnce ==
    ASSUME RInv, NEW u, NEW x \in Pairs, x \in HeldOrders(u)
    PROVE  /\ Home(x[2]) = x[1]
           /\ \A v : x \in HeldOrders(v) => v = u
           /\ \A v : \A y \in Pairs : y \in HeldOrders(v) /\ y[2] = x[2] => y = x
<1>1. ASSUME NEW y \in Pairs, NEW v, y \in HeldOrders(v)
      PROVE  Home(y[2]) = y[1]
  <2>1. y[1] \in Markets
    BY DEF Pairs
  <2>2. CASE RestsFor(book[y[1]], v, y[2])
    BY <2>1, <2>2 DEF RestsFor, RInv, AtHome
  <2>3. CASE Matching /\ job.m = y[1] /\ job.id = y[2]
    BY <2>3 DEF RInv, AtHome
  <2> QED BY <1>1, <2>2, <2>3, HeldIs
<1>2. ASSUME NEW v, x \in HeldOrders(v) PROVE v = u
  <2>1. x[1] \in Markets
    BY DEF Pairs
  <2>2. UniqueIds(book[x[1]])
    BY <2>1, BookShape DEF RInv
  <2>3. ASSUME Matching, job.m = x[1], job.id = x[2], NEW w
        PROVE  ~RestsFor(book[x[1]], w, x[2])
    BY <2>3 DEF RInv, EInv, JobCloses, Matching, RestsFor, RestingIds
  <2>4. CASE RestsFor(book[x[1]], u, x[2]) /\ RestsFor(book[x[1]], v, x[2])
    BY <2>2, <2>4 DEF RestsFor, UniqueIds
  <2> QED BY <1>2, <2>3, <2>4, HeldIs
<1>3. ASSUME NEW y \in Pairs, NEW v, y \in HeldOrders(v), y[2] = x[2]
      PROVE  y = x
  <2>1. y[1] = x[1]
    BY <1>1, <1>3
  <2> QED BY <1>3, <2>1 DEF Pairs
<1> QED BY <1>1, <1>2, <1>3
-----------------------------------------------------------------------------
\* What a step does to the reservations.

(* A step that adds, removes or draws from at most one of v's orders backs  *)
(* v if it moves what v has reserved by as much.                            *)
LEMMA UserMoves ==
    ASSUME RInv, ledger' \in [AllIds -> Reserve], NEW v \in Users,
           NEW x \in Pairs, NEW d \in Int,
           \A y \in Pairs \ {x} : y \in HeldOrders(v)' <=> y \in HeldOrders(v),
           \A y \in Pairs \ {x} : y \in HeldOrders(v) => ledger'[y[2]] = ledger[y[2]],
           Part(ledger', HeldOrders(v)', x) = Part(ledger, HeldOrders(v), x) + d,
           reserved'[v] = reserved[v] + d
    PROVE  reserved'[v] = Backing(ledger', HeldOrders(v)')
<1> DEFINE h == HeldOrders(v)
           g == HeldOrders(v)'
           l == ledger
           k == ledger'
<1>1. /\ l \in [AllIds -> Reserve] /\ k \in [AllIds -> Reserve]
      /\ \A y \in Pairs \ {x} : y \in g <=> y \in h
      /\ \A y \in Pairs \ {x} : y \in h => k[y[2]] = l[y[2]]
      /\ Part(k, g, x) = Part(l, h, x) + d
      /\ reserved[v] = Backing(l, h)
  BY DEF RInv, EInv, TypeOK, Reserved
<1> HIDE DEF h, g, l, k
<1>2. Backing(k, g) = Backing(l, h) + d
  BY ONLY <1>1, BackingMoves, x \in Pairs, d \in Int
<1> QED BY <1>1, <1>2 DEF h, g, k

(* A step that neither adds, removes nor draws from any of v's orders.      *)
LEMMA UserStays ==
    ASSUME RInv, ledger' \in [AllIds -> Reserve], NEW v \in Users,
           \A y \in Pairs : y \in HeldOrders(v)' <=> y \in HeldOrders(v),
           \A y \in Pairs : y \in HeldOrders(v) => ledger'[y[2]] = ledger[y[2]],
           reserved'[v] = reserved[v]
    PROVE  reserved'[v] = Backing(ledger', HeldOrders(v)')
<1> DEFINE h == HeldOrders(v)
           g == HeldOrders(v)'
           l == ledger
           k == ledger'
<1>1. /\ l \in [AllIds -> Reserve] /\ k \in [AllIds -> Reserve]
      /\ \A y \in Pairs : y \in g <=> y \in h
      /\ \A y \in Pairs : y \in h => k[y[2]] = l[y[2]]
      /\ reserved[v] = Backing(l, h)
  BY DEF RInv, EInv, TypeOK, Reserved
<1> HIDE DEF h, g, l, k
<1>2. Backing(k, g) = Backing(l, h)
  BY ONLY <1>1, BackingSame
<1> QED BY <1>1, <1>2 DEF h, g, k

(* Releasing the reservation of an order that goes away gives back all that *)
(* it still held, and nothing else.                                         *)
LEMMA ReleaseBacks ==
    ASSUME RInv, NEW u \in Users, NEW m \in Markets, NEW id \in AllIds,
           <<m, id>> \in HeldOrders(u), Release(u, id),
           \A v \in Users : \A y \in Pairs : y \in HeldOrders(v)'
                                 <=> y \in HeldOrders(v) /\ y # <<m, id>>
    PROVE  /\ Reserved'
           /\ ledger'[id] = NoReserve
           /\ \A j \in AllIds \ {id} : ledger'[j] = ledger[j]
<1> DEFINE r == ledger[id]
           d == r.col + r.fee
           x == <<m, id>>
<1>1. /\ ledger \in [AllIds -> Reserve] /\ reserved \in [Accounts -> Int]
      /\ u \in Accounts /\ u # Fund /\ Fund \in Accounts /\ Users \subseteq Accounts
  BY FundIsNoUser DEF RInv, EInv, TypeOK
<1>2. x \in Pairs /\ x[1] = m /\ x[2] = id
  BY DEF Pairs
<1>3. r \in Reserve /\ r.col \in Nat /\ r.fee \in Nat /\ d \in Int
  BY <1>1, <1>2 DEF Reserve
<1>4. /\ reserved' = [reserved EXCEPT ![u] = @ - d]
      /\ ledger' = [ledger EXCEPT ![id] = NoReserve]
  BY DEF Release, SetHoldings, Returned, Holdings
<1>5. x \in HeldOrders(u)
  OBVIOUS
<1>6. \A v \in Users : \A y \in Pairs : y \in HeldOrders(v)' <=> y \in HeldOrders(v) /\ y # x
  OBVIOUS
<1> HIDE DEF r, d, x
<1>7. /\ ledger' \in [AllIds -> Reserve] /\ ledger'[id] = NoReserve
      /\ \A j \in AllIds \ {id} : ledger'[j] = ledger[j]
      /\ reserved'[u] = reserved[u] - d
      /\ \A a \in Accounts : a # u => reserved'[a] = reserved[a]
  BY <1>1, <1>2, <1>4 DEF NoReserve, Reserve
<1>8. ASSUME NEW v \in Users PROVE reserved'[v] = Backing(ledger', HeldOrders(v)')
  <2>1. \A y \in Pairs : y \in HeldOrders(v) /\ y # x => y[2] # id
    BY <1>2, <1>5, HeldOnce
  <2>2. \A y \in Pairs \ {x} : y \in HeldOrders(v)' <=> y \in HeldOrders(v)
    BY <1>6
  <2>3. \A y \in Pairs \ {x} : y \in HeldOrders(v) => ledger'[y[2]] = ledger[y[2]]
    BY <1>7, <2>1 DEF Pairs
  <2>4. CASE v = u
    <3> DEFINE e == -d
    <3>1. /\ e \in Int /\ Part(ledger, HeldOrders(v), x) + e = 0
          /\ reserved'[v] = reserved[v] + e
      BY <1>1, <1>2, <1>3, <1>5, <1>7, <2>4 DEF Part, r, d
    <3>2. Part(ledger', HeldOrders(v)', x) = Part(ledger, HeldOrders(v), x) + e
      BY <1>2, <1>6, <3>1 DEF Part
    <3> HIDE DEF e
    <3> QED BY <1>2, <1>7, <2>2, <2>3, <3>1, <3>2, UserMoves
  <2>5. CASE v # u
    <3>1. x \notin HeldOrders(v)
      BY <1>2, <1>5, <2>5, HeldOnce
    <3>2. /\ \A y \in Pairs : y \in HeldOrders(v)' <=> y \in HeldOrders(v)
          /\ \A y \in Pairs : y \in HeldOrders(v) => ledger'[y[2]] = ledger[y[2]]
      BY <1>6, <2>3, <3>1
    <3>3. reserved'[v] = reserved[v]
      BY <1>1, <1>7, <2>5
    <3> QED BY <1>7, <3>2, <3>3, UserStays
  <2> QED BY <2>4, <2>5
<1>9. reserved'[Fund] = 0
  BY <1>1, <1>7 DEF RInv, Reserved
<1> QED BY <1>7, <1>8, <1>9 DEF Reserved

(* Steps that leave the books and the reservations as they are.             *)
LEMMA QuietKeeps ==
    ASSUME RInv, UNCHANGED <<book, ledger, reserved>>,
           (job' = job /\ rem' = rem) \/ (~Matching /\ ~Matching'),
           \A m \in Markets : triggers'[m] \subseteq Triggers
    PROVE  Kept'
<1>1. AtHome' /\ Covered' /\ Spent'
  <2>1. CASE job' = job /\ rem' = rem
    BY <2>1 DEF RInv, AtHome, Covered, Spent, Matching
  <2>2. CASE ~Matching /\ ~Matching'
    BY <2>2 DEF RInv, AtHome, Covered, Spent
  <2> QED BY <2>1, <2>2
<1>2. ASSUME NEW u PROVE HeldOrders(u)' = HeldOrders(u)
  <2>1. CASE job' = job
    BY <2>1 DEF HeldOrders, HeldBy
  <2>2. CASE ~Matching /\ ~Matching'
    BY <2>2 DEF HeldOrders, HeldBy, Matching
  <2> QED BY <2>1, <2>2
<1>3. Reserved'
  <2> SUFFICES ASSUME NEW u \in Users
               PROVE  reserved'[u] = Backing(ledger', HeldOrders(u)')
    BY DEF Reserved, RInv
  <2> QED BY <1>2 DEF RInv, Reserved
<1> QED BY <1>1, <1>3 DEF Kept
-----------------------------------------------------------------------------
\* The steps that move reservations.

(* A cancel, self-trade prevention and a pulled order give back all that an *)
(* order still held.                                                        *)
LEMMA RemovalReleases ==
    ASSUME RInv, NEW m \in Markets, NEW u \in Users, NEW i \in DOMAIN book[m],
           book[m][i].owner = u, Release(u, book[m][i].id),
           book' = [book EXCEPT ![m] = Without(@, i)],
           job' = job, rem' = rem, triggers' = triggers
    PROVE  Kept'
<1> DEFINE id == book[m][i].id
           x == <<m, id>>
           c == Without(book[m], i)
<1>1. /\ EInv /\ AtHome /\ Covered /\ Spent
      /\ book \in [Markets -> Seq(RestingOrder)]
  BY DEF RInv, EInv, TypeOK
<1>2. /\ book[m] \in Seq(RestingOrder) /\ id \in AllIds /\ UniqueIds(book[m])
      /\ x \in Pairs /\ x[1] = m /\ x[2] = id
  BY <1>1, BookShape DEF Pairs
<1>3. /\ Release(u, id) /\ book' = [book EXCEPT ![m] = c]
  OBVIOUS
<1>4. /\ \A v, j : RestsFor(c, v, j) <=> RestsFor(book[m], v, j) /\ j # id
      /\ \A k \in DOMAIN c : \E j \in DOMAIN book[m] \ {i} : c[k] = book[m][j]
  BY <1>2, WithoutRests
<1>5. Matching => job.id # id
  BY <1>1 DEF EInv, JobCloses, Matching, RestingIds, AtHome
<1>6. RestsFor(book[m], u, id)
  BY DEF RestsFor
<1> HIDE DEF id, c, x
<1>7. book'[m] = c /\ \A n \in Markets : n # m => book'[n] = book[n]
  BY <1>1, <1>3
<1>8. ASSUME NEW v, NEW y \in Pairs
      PROVE  y \in HeldOrders(v)' <=> y \in HeldOrders(v) /\ y # x
  <2>1. y[1] \in Markets /\ (y[1] = m /\ y[2] = id <=> y = x)
    BY <1>2 DEF Pairs
  <2>2. RestsFor(book'[y[1]], v, y[2]) <=> RestsFor(book[y[1]], v, y[2]) /\ y # x
    BY <1>4, <1>7, <2>1
  <2> QED BY <1>2, <1>5, <2>2, HeldIs, HeldIsNext DEF Matching
<1>9. x \in HeldOrders(u)
  BY <1>2, <1>6, HeldIs
<1>10. /\ Reserved' /\ ledger'[id] = NoReserve
       /\ \A j \in AllIds \ {id} : ledger'[j] = ledger[j]
  BY <1>2, <1>3, <1>8, <1>9, ReleaseBacks DEF x
<1>11. ASSUME NEW n \in Markets, NEW k \in DOMAIN book'[n]
       PROVE  \E j \in DOMAIN book[n] : book'[n][k] = book[n][j] /\ book[n][j].id # id
  <2>1. CASE n = m
    BY <1>2, <1>4, <1>7, <1>10, <2>1 DEF UniqueIds, id
  <2>2. CASE n # m
    <3>1. book[n][k].id # id
      BY <1>1, <1>7, <1>10, <1>11, <2>2 DEF AtHome, id
    <3> QED BY <1>7, <1>10, <2>2, <3>1
  <2> QED BY <2>1, <2>2
<1>12. AtHome'
  BY <1>1, <1>11 DEF AtHome, Matching
<1>13. Covered'
  <2>1. ASSUME NEW n \in Markets, NEW k \in DOMAIN book'[n]
        PROVE  ledger'[book'[n][k].id].qty = book'[n][k].rem
    <3>1. PICK j \in DOMAIN book[n] : book'[n][k] = book[n][j] /\ book[n][j].id # id
      BY <1>11
    <3>2. book[n][j].id \in AllIds
      BY <1>1, BookShape
    <3> QED BY <1>1, <1>7, <1>10, <3>1, <3>2 DEF Covered
  <2>2. Matching => job.id \in AllIds
    BY <1>1 DEF EInv, JobCloses, Matching
  <2> QED BY <1>1, <1>5, <1>7, <1>10, <2>1, <2>2, SMTT(30) DEF Covered, Matching
<1>14. Spent'
  <2> SUFFICES ASSUME NEW j \in AllIds, j # id,
                      \A n \in Markets : j \notin RestingIds(book'[n]),
                      ~(Matching /\ job.id = j)
               PROVE  ledger'[j] = NoReserve
    BY <1>7, <1>10 DEF Spent, Matching
  <2>1. ASSUME NEW n \in Markets, j \in RestingIds(book[n])
        PROVE  j \in RestingIds(book'[n])
    <3>1. PICK k \in DOMAIN book[n] : book[n][k].id = j
      BY <2>1 DEF RestingIds
    <3>2. RestsFor(book[n], book[n][k].owner, j)
      BY <3>1 DEF RestsFor
    <3>3. RestsFor(book'[n], book[n][k].owner, j)
      BY <1>4, <1>7, <1>10, <3>2
    <3> QED BY <3>3 DEF RestsFor, RestingIds
  <2> QED BY <1>1, <1>7, <1>10, <2>1 DEF Spent
<1> QED BY <1>10, <1>12, <1>13, <1>14 DEF Kept

(* An order that enters was unknown, so nothing was reserved in its name;   *)
(* what is taken from its owner backs it, and an order taken without        *)
(* collateral never rests.                                                  *)
LEMMA EnterReserves ==
    ASSUME RInv, NEW o, Incoming(o), Acceptable(o), Home(o.id) = o.m, Enter(o),
           job = NoJob, book' = book, ledger' \in [AllIds -> Reserve],
           \A m \in Markets : triggers'[m] \subseteq Triggers
    PROVE  Kept'
<1> DEFINE id == o.id
           m == o.m
           u == o.owner
           x == <<m, id>>
           r == Reservation(o)
<1>1. /\ EInv /\ AtHome /\ Covered /\ Spent
      /\ ledger \in [AllIds -> Reserve] /\ reserved \in [Accounts -> Int]
      /\ u \in Accounts /\ u # Fund /\ Fund \in Accounts /\ Users \subseteq Accounts
      /\ m \in Markets /\ id \in AllIds /\ u \in Users
  BY FundIsNoUser DEF RInv, EInv, TypeOK, Incoming
<1>2. /\ x \in Pairs /\ x[1] = m /\ x[2] = id
      /\ \A y \in Pairs : y[1] = m /\ y[2] = id <=> y = x
  BY <1>1 DEF Pairs
<1>3. QtyOf(o) \in Nat \ {0} /\ r \in Reserve
  BY <1>1, AcceptedOrder
<1>4. r.qty = QtyOf(o) /\ r.col \in Nat /\ r.fee \in Nat
  BY <1>3 DEF Reserve, Reservation
<1>5. /\ Matching' /\ job'.m = m /\ job'.id = id /\ job'.owner = u /\ job'.tif = o.tif
      /\ rem' = QtyOf(o)
      /\ ~Matching
  BY DEF Enter, Matching, NoJob
<1>6. \A n \in Markets : id \notin RestingIds(book[n])
  BY <1>1 DEF Acceptable, AtHome, RestingIds
<1>7. ledger[id] = NoReserve
  BY <1>1, <1>5, <1>6 DEF Spent
<1> DEFINE d == ledger'[id].col + ledger'[id].fee
<1>8. /\ d \in Int
      /\ reserved'[u] = reserved[u] + d
      /\ \A a \in Accounts : a # u => reserved'[a] = reserved[a]
      /\ \A j \in AllIds \ {id} : ledger'[j] = ledger[j]
      /\ ledger'[id] \in {NoReserve, r}
      /\ o.tif # "IOC" => ledger'[id] = r
  <2>1. CASE ExposureQty(o) > 0
    <3>1. /\ reserved' = [reserved EXCEPT ![u] = @ + (r.col + r.fee)]
          /\ ledger' = [ledger EXCEPT ![id] = r]
      BY <2>1 DEF Enter, SetHoldings, Reserving, Held, Holdings
    <3> HIDE DEF r, id, u
    <3>2. ledger'[id] = r /\ \A j \in AllIds \ {id} : ledger'[j] = ledger[j]
      BY <1>1, <3>1
    <3>3. d = r.col + r.fee
      BY <3>2
    <3> QED BY <1>1, <1>4, <3>1, <3>2, <3>3
  <2>2. CASE ~(ExposureQty(o) > 0)
    <3>1. UNCHANGED <<reserved, ledger>>
      <4>1. ExposureQty(o) = 0
        BY <1>1, <2>2, AcceptedOrder
      <4> QED BY <4>1 DEF Enter, SetHoldings, Reserving, Holdings
    <3>2. o.tif = "IOC"
      BY <1>3, <2>2 DEF ExposureQty
    <3>3. d = 0
      BY <1>7, <3>1 DEF NoReserve
    <3> HIDE DEF d, r, id, u
    <3> QED BY <1>1, <1>7, <3>1, <3>2, <3>3
  <2> QED BY <2>1, <2>2
<1> HIDE DEF id, m, u, x, r, d
<1>9. ASSUME NEW v, NEW y \in Pairs
      PROVE  y \in HeldOrders(v)' <=> y \in HeldOrders(v) \/ (y = x /\ v = u)
  <2>1. RestsFor(book'[y[1]], v, y[2]) <=> RestsFor(book[y[1]], v, y[2])
    OBVIOUS
  <2> QED BY <1>2, <1>5, <2>1, HeldIs, HeldIsNext
<1>10. ASSUME NEW v, NEW y \in Pairs, y \in HeldOrders(v) PROVE y[2] # id
  <2>1. RestsFor(book[y[1]], v, y[2]) /\ y[1] \in Markets
    BY <1>5, <1>10, HeldIs DEF Pairs
  <2> QED BY <1>6, <2>1 DEF RestsFor, RestingIds
<1>11. ASSUME NEW v \in Users PROVE reserved'[v] = Backing(ledger', HeldOrders(v)')
  <2>1. x \notin HeldOrders(v)
    BY <1>2, <1>10
  <2>2. \A y \in Pairs : y \in HeldOrders(v) => ledger'[y[2]] = ledger[y[2]]
    BY <1>8, <1>10 DEF Pairs
  <2>3. CASE v = u
    <3>1. \A y \in Pairs \ {x} : y \in HeldOrders(v)' <=> y \in HeldOrders(v)
      BY <1>9
    <3>2. Part(ledger', HeldOrders(v)', x) = d /\ Part(ledger, HeldOrders(v), x) = 0
      BY <1>2, <1>8, <1>9, <2>1, <2>3 DEF Part, d
    <3>3. reserved'[v] = reserved[v] + d
      BY <1>1, <1>8, <2>3
    <3>4. Part(ledger', HeldOrders(v)', x) = Part(ledger, HeldOrders(v), x) + d
      BY <1>8, <3>2
    <3> QED BY <1>2, <1>8, <2>2, <3>1, <3>3, <3>4, UserMoves
  <2>4. CASE v # u
    <3>1. \A y \in Pairs : y \in HeldOrders(v)' <=> y \in HeldOrders(v)
      BY <1>9, <2>4
    <3>2. reserved'[v] = reserved[v]
      BY <1>1, <1>8, <2>4
    <3> QED BY <2>2, <3>1, <3>2, UserStays
  <2> QED BY <2>3, <2>4
<1>12. Reserved'
  <2>1. reserved'[Fund] = 0
    BY <1>1, <1>8 DEF RInv, Reserved
  <2> QED BY <1>11, <2>1 DEF Reserved
<1>13. AtHome'
  BY <1>1, <1>5 DEF AtHome, id, m
<1>14. Covered'
  <2>1. ASSUME NEW n \in Markets, NEW k \in DOMAIN book[n]
        PROVE  ledger'[book[n][k].id].qty = book[n][k].rem
    <3>1. book[n][k].id # id /\ book[n][k].id \in AllIds
      BY <1>1, <1>6, BookShape DEF RestingIds
    <3> QED BY <1>1, <1>8, <3>1 DEF Covered
  <2>2. ledger'[id].qty \in {0, rem'} /\ (o.tif # "IOC" => ledger'[id].qty = rem')
    BY <1>4, <1>5, <1>8 DEF NoReserve
  <2>3. \A j \in AllIds : ledger'[j].qty = 0 => ledger'[j] = NoReserve
    BY <1>1, <1>3, <1>4, <1>8 DEF Covered
  <2> QED BY <1>5, <2>1, <2>2, <2>3 DEF Covered
<1>15. Spent'
  BY <1>1, <1>5, <1>8 DEF Spent
<1> QED BY <1>12, <1>13, <1>14, <1>15 DEF Kept

(* An order that rests takes its reservation to the book, one that does not *)
(* gives it back.                                                           *)
LEMMA EndOrderReleases == ASSUME RInv, EndOrder PROVE Kept'
<1> DEFINE id == job.id
           m == job.m
           u == job.owner
           x == <<m, id>>
<1>1. /\ job # NoJob /\ ~job.liq /\ job' = NoJob /\ rem' = 0
      /\ UNCHANGED triggers
  BY DEF EndOrder
<1>2. /\ EInv /\ AtHome /\ Covered /\ Spent /\ Reserved /\ Matching
      /\ m \in Markets /\ u \in Users /\ id \in AllIds
      /\ id \notin RestingIds(book[m]) /\ Home(id) = m
      /\ book \in [Markets -> Seq(RestingOrder)]
  BY <1>1, JobIs DEF RInv, EInv, TypeOK, JobCloses, Matching, AtHome
<1>3. /\ x \in Pairs /\ x[1] = m /\ x[2] = id
      /\ \A y \in Pairs : y[1] = m /\ y[2] = id <=> y = x
  BY <1>2 DEF Pairs
<1>4. ~Matching'
  BY <1>1 DEF Matching
<1>5. ASSUME NEW v, NEW y \in Pairs
      PROVE  /\ y \in HeldOrders(v)' <=> RestsFor(book'[y[1]], v, y[2])
             /\ y \in HeldOrders(v) <=> RestsFor(book[y[1]], v, y[2]) \/ (y = x /\ v = u)
  BY <1>2, <1>3, <1>4, HeldIs, HeldIsNext
<1>6. CASE rem > 0 /\ job.tif # "IOC"
  <2> DEFINE e == [id |-> job.id, owner |-> job.owner, side |-> job.side,
                   px |-> job.px, rem |-> rem, seq |-> seq]
             b == book[m]
  <2>1. /\ book' = [book EXCEPT ![m] = Append(b, e)]
        /\ UNCHANGED <<money, ledger>>
    BY <1>6 DEF EndOrder, RestOrder
  <2>2. b \in Seq(RestingOrder)
    BY <1>2
  <2>3. e.id = id /\ e.owner = u /\ e.rem = rem
    OBVIOUS
  <2> HIDE DEF e, b, id, m, u, x
  <2>4. /\ Len(b) \in Nat /\ DOMAIN b = 1..Len(b)
        /\ DOMAIN Append(b, e) = 1..(Len(b) + 1)
        /\ \A k \in 1..Len(b) : Append(b, e)[k] = b[k]
        /\ Append(b, e)[Len(b) + 1] = e
    BY <2>2
  <2>5. book'[m] = Append(b, e) /\ \A n \in Markets : n # m => book'[n] = book[n]
    BY <1>2, <2>1
  <2>6. ASSUME NEW v, NEW j
        PROVE  RestsFor(Append(b, e), v, j) <=> RestsFor(b, v, j) \/ (j = id /\ v = u)
    BY <2>3, <2>4 DEF RestsFor
  <2>7. ASSUME NEW v, NEW y \in Pairs
        PROVE  y \in HeldOrders(v)' <=> y \in HeldOrders(v)
    <3>1. y[1] \in Markets
      BY DEF Pairs
    <3> QED BY <1>3, <1>5, <2>5, <2>6, <3>1, ZenonT(30) DEF b
  <2>8. Reserved'
    <3>1. ledger' = ledger /\ reserved' = reserved /\ ledger' \in [AllIds -> Reserve]
      BY <1>2, <2>1 DEF money, EInv, TypeOK
    <3>2. \A v \in Users : reserved'[v] = Backing(ledger', HeldOrders(v)')
      BY <2>7, <3>1, UserStays
    <3> QED BY <1>2, <3>1, <3>2 DEF Reserved
  <2>9. ASSUME NEW n \in Markets, NEW k \in DOMAIN book'[n]
        PROVE  \/ k \in DOMAIN book[n] /\ book'[n][k] = book[n][k]
               \/ n = m /\ book'[n][k] = e
    BY <2>4, <2>5, <2>9 DEF b
  <2>10. AtHome'
    BY <1>1, <1>2, <1>4, <2>3, <2>9 DEF AtHome
  <2>11. Covered'
    <3>1. ledger[id].qty = rem
      BY <1>2, <1>6 DEF Covered, id
    <3>2. ASSUME NEW n \in Markets, NEW k \in DOMAIN book'[n]
          PROVE  ledger[book'[n][k].id].qty = book'[n][k].rem
      BY <1>2, <2>3, <2>9, <3>1, <3>2 DEF Covered
    <3> QED BY <1>2, <1>4, <2>1, <3>2 DEF Covered
  <2>12. Spent'
    <3> SUFFICES ASSUME NEW j \in AllIds, \A n \in Markets : j \notin RestingIds(book'[n])
                 PROVE  ledger[j] = NoReserve
      BY <2>1 DEF Spent
    <3>1. j # id /\ \A n \in Markets : j \notin RestingIds(book[n])
      <4>1. RestsFor(book'[m], u, id)
        BY <2>5, <2>6
      <4>2. \A n \in Markets : \A i \in DOMAIN book[n] :
               i \in DOMAIN book'[n] /\ book'[n][i] = book[n][i]
        BY <2>4, <2>5 DEF b
      <4> QED BY <1>2, <4>1, <4>2 DEF RestsFor, RestingIds
    <3> QED BY <1>2, <3>1 DEF Spent, id
  <2> QED BY <2>8, <2>10, <2>11, <2>12 DEF Kept
<1>7. CASE ~(rem > 0 /\ job.tif # "IOC")
  <2>1. Release(u, id) /\ UNCHANGED book
    BY <1>7 DEF EndOrder
  <2>2. ASSUME NEW v, NEW y \in Pairs
        PROVE  y \in HeldOrders(v)' <=> y \in HeldOrders(v) /\ y # x
    <3>1. RestsFor(book[m], v, id) => FALSE
      BY <1>2 DEF RestsFor, RestingIds
    <3> QED BY <1>3, <1>5, <2>1, <3>1
  <2>3. x \in HeldOrders(u)
    BY <1>3, <1>5
  <2> HIDE DEF id, m, u
  <2>4. /\ Reserved' /\ ledger'[id] = NoReserve
        /\ \A j \in AllIds \ {id} : ledger'[j] = ledger[j]
    BY <1>2, <2>1, <2>2, <2>3, ReleaseBacks
  <2>5. AtHome'
    BY <1>1, <1>2, <1>4, <2>1 DEF AtHome
  <2>6. ASSUME NEW n \in Markets, NEW k \in DOMAIN book[n]
        PROVE  book[n][k].id \in AllIds /\ book[n][k].id # id
    BY <1>2, BookShape DEF AtHome, RestingIds
  <2>7. Covered'
    <3>1. \A n \in Markets : \A k \in DOMAIN book[n] :
             ledger'[book[n][k].id].qty = book[n][k].rem
      BY <1>2, <2>4, <2>6 DEF Covered
    <3> QED BY <1>2, <1>4, <2>1, <2>4, <3>1 DEF Covered
  <2>8. Spent'
    BY <1>2, <1>4, <2>1, <2>4 DEF Spent, id
  <2> QED BY <2>4, <2>5, <2>7, <2>8 DEF Kept
<1> QED BY <1>6, <1>7
-----------------------------------------------------------------------------
\* Fills.

(* A fill of an order consumes the reservation it draws, of one account.    *)
LEMMA ApplyFillReserved ==
    ASSUME NEW w, IsWorld(w), NEW u \in Accounts, NEW side, NEW px, NEW q,
           NEW col \in Nat, NEW fee \in Nat
    PROVE  ApplyFill(w, u, side, px, q, col, fee).reserved
             = [w.reserved EXCEPT ![u] = @ - (col + fee)]
<1> DEFINE p == w.pos[u]
           closeQty == IF p.side = side THEN 0 ELSE bigmin(q, p.qty)
           colForClose == (col * closeQty) \div q
           res == [w.reserved EXCEPT ![u] = @ - (col + fee)]
           w1 == [w EXCEPT !.reserved[u] = @ - (col + fee), !.fees = @ + fee]
           w2 == IF closeQty = 0 THEN w1 ELSE CloseLeg(w1, u, px, closeQty, colForClose)
           v == ApplyFill(w, u, side, px, q, col, fee)
<1>v. v = IF q = closeQty THEN w2
          ELSE OpenLeg(w2, u, side, px, q - closeQty, col - colForClose)
  BY DEF ApplyFill
<1> HIDE DEF v, closeQty, colForClose, p
<1>1. DOMAIN w1 = {"free", "reserved", "fees", "dust", "pos"} /\ w1.reserved = res
  BY DEF IsWorld
<1> HIDE DEF res, w1
<1>2. ASSUME NEW k, DOMAIN k = {"free", "reserved", "fees", "dust", "pos"},
             NEW n, NEW c
      PROVE  /\ CloseLeg(k, u, px, n, c).reserved = k.reserved
             /\ DOMAIN CloseLeg(k, u, px, n, c) = DOMAIN k
             /\ OpenLeg(k, u, side, px, n, c).reserved = k.reserved
  BY <1>2 DEF CloseLeg, OpenLeg
<1>3. w2.reserved = res /\ DOMAIN w2 = {"free", "reserved", "fees", "dust", "pos"}
  BY <1>1, <1>2
<1> HIDE DEF w2
<1>4. v.reserved = res
  BY <1>v, <1>2, <1>3
<1> QED BY <1>4 DEF v, res

(* What a fill takes of a reservation that covers it, and what it leaves:   *)
(* nothing, once the whole quantity is drawn.                               *)
LEMMA DrawnCovers ==
    ASSUME NEW r \in Reserve, NEW q \in Nat \ {0}, r.qty = 0 => r = NoReserve,
           r.qty = 0 \/ q <= r.qty
    PROVE  LET d == Drawn(r, q)
               left == LeftOver(r, d)
           IN /\ d.col \in Nat /\ d.fee \in Nat
              /\ left \in Reserve
              /\ left.col + left.fee = (r.col + r.fee) - (d.col + d.fee)
              /\ left.qty = IF r.qty = 0 THEN 0 ELSE r.qty - q
              /\ left.qty = 0 => left = NoReserve
<1>1. /\ r.col \in Nat /\ r.fee \in Nat /\ r.qty \in Nat
      /\ Drawn(r, q) \in Reserve /\ LeftOver(r, Drawn(r, q)) \in Reserve
  BY DrawnBounds DEF Reserve
<1> DEFINE d == Drawn(r, q)
           left == LeftOver(r, d)
<1>2. d.col \in Nat /\ d.fee \in Nat /\ d.qty \in Nat
  BY <1>1 DEF Reserve
<1>3. left = [col |-> r.col - d.col, fee |-> r.fee - d.fee, qty |-> r.qty - d.qty]
  BY DEF LeftOver
<1>4. d.qty = (IF r.qty = 0 THEN 0 ELSE q)
  BY <1>1 DEF Drawn, bigmin, NoReserve
<1>5. left.qty = 0 => left = NoReserve
  <2>1. CASE r.qty = 0
    <3>1. d = NoReserve /\ r = NoReserve
      BY <2>1 DEF Drawn
    <3> QED BY <1>3, <3>1 DEF NoReserve
  <2>2. CASE r.qty # 0 /\ q = r.qty
    <3>1. d = r
      BY <2>2 DEF Drawn, bigmin
    <3> QED BY <1>1, <1>3, <3>1 DEF NoReserve
  <2>3. CASE r.qty # 0 /\ q # r.qty
    <3> HIDE DEF d, left
    <3> QED BY <1>1, <1>3, <1>4, <2>3
  <2> QED BY <2>1, <2>2, <2>3
<1> HIDE DEF d
<1> QED BY <1>1, <1>2, <1>3, <1>4, <1>5 DEF d

(* A fill draws on the reservations of the two orders it fills, each by     *)
(* what its owner's share of the fill consumes.                             *)
LEMMA FillDraws ==
    ASSUME RInv, NEW i \in DOMAIN book[job.m], MatchFill(i)
    PROVE  LET o == book[job.m][i]
               q == bigmin(rem, o.rem)
           IN \E c, e \in Int :
                /\ reserved' = [[reserved EXCEPT ![o.owner] = @ - c]
                                   EXCEPT ![job.owner] = @ - e]
                /\ ledger' \in [AllIds -> Reserve]
                /\ \A j \in AllIds : j # o.id /\ (job.liq \/ j # job.id)
                                       => ledger'[j] = ledger[j]
                /\ LET r == ledger[o.id]
                       left == ledger'[o.id]
                   IN /\ left.col + left.fee = (r.col + r.fee) - c
                      /\ left.qty = o.rem - q
                      /\ left.qty = 0 => left = NoReserve
                /\ job.liq => e = 0
                /\ ~job.liq =>
                     LET r == ledger[job.id]
                         left == ledger'[job.id]
                     IN /\ left.col + left.fee = (r.col + r.fee) - e
                        /\ left.qty = IF r.qty = 0 THEN 0 ELSE rem - q
                        /\ left.qty = 0 => left = NoReserve
<1> DEFINE o == book[job.m][i]
           q == bigmin(rem, o.rem)
           t == IF job.liq THEN NoReserve ELSE Drawn(ledger[job.id], q)
           l == IF job.liq THEN ledger ELSE Draw(ledger, job.id, q)
           d == Drawn(l[o.id], q)
           w == ApplyFill(World(job.m), o.owner, Opposite(job.side), o.px, q,
                          d.col, d.fee)
           v == ApplyFill(w, job.owner, job.side, o.px, q, t.col, t.fee)
<1>1. /\ EInv /\ AtHome /\ Covered /\ ledger \in [AllIds -> Reserve]
      /\ job # NoJob /\ rem > 0 /\ o.owner # job.owner
      /\ SetWorld(job.m, v)
      /\ ledger' = Draw(l, o.id, q)
  BY DEF MatchFill, Meets, RInv, EInv, TypeOK
<1>2. /\ job.m \in Markets /\ job.owner \in Accounts /\ job.side \in Sides
      /\ rem \in Nat \ {0}
      /\ o.id \in AllIds /\ o.rem \in Nat \ {0} /\ o.owner \in Accounts /\ o.px \in Nat
      /\ ~job.liq => Matching /\ job.id \in AllIds /\ job.id # o.id
      /\ ledger[o.id].qty = o.rem
  <2>1. job.m \in Markets /\ job.owner \in Accounts /\ job.side \in Sides
        /\ rem \in Nat \ {0}
    <3> HIDE DEF o, q, t, l, d, w, v
    <3>1. EInv /\ job # NoJob /\ rem > 0
      BY <1>1
    <3> QED BY ONLY <3>1, JobIs
  <2>2. o.id \in AllIds /\ o.rem \in Nat \ {0} /\ o.owner \in Accounts /\ o.px \in Nat
    BY <1>1, <2>1, BookShape, FundIsNoUser
  <2>3. ~job.liq => Matching /\ job.id \in AllIds /\ job.id # o.id
    BY <1>1 DEF EInv, JobCloses, Matching, RestingIds
  <2>4. ledger[o.id].qty = o.rem
    BY <1>1, <2>1 DEF Covered
  <2> QED BY <2>1, <2>2, <2>3, <2>4
<1>3. q \in Nat \ {0} /\ q <= rem /\ q <= o.rem
  <2> HIDE DEF o
  <2> QED BY <1>2 DEF bigmin
<1> HIDE DEF q, o
<1>4. /\ l \in [AllIds -> Reserve]
      /\ t.col \in Nat /\ t.fee \in Nat
      /\ \A j \in AllIds : job.liq \/ j # job.id => l[j] = ledger[j]
      /\ job.liq => t.col + t.fee = 0
      /\ ~job.liq =>
           LET r == ledger[job.id]
               left == l[job.id]
           IN /\ left.col + left.fee = (r.col + r.fee) - (t.col + t.fee)
              /\ left.qty = IF r.qty = 0 THEN 0 ELSE rem - q
              /\ left.qty = 0 => left = NoReserve
  <2>1. CASE job.liq
    <3>1. l = ledger /\ t = NoReserve
      BY <2>1
    <3> HIDE DEF l, t
    <3> QED BY <1>1, <2>1, <3>1 DEF NoReserve
  <2>2. CASE ~job.liq
    <3> DEFINE r == ledger[job.id]
    <3>1. /\ r \in Reserve /\ (r.qty = 0 => r = NoReserve)
          /\ r.qty \in {0, rem} /\ job.id \in AllIds
      BY <1>1, <1>2, <2>2 DEF Covered
    <3>2. /\ t = Drawn(r, q)
          /\ l = [ledger EXCEPT ![job.id] = LeftOver(r, Drawn(r, q))]
      BY <2>2 DEF Draw
    <3> HIDE DEF r, l, t
    <3>3. r.qty = 0 \/ q <= r.qty
      BY <1>3, <3>1
    <3>4. /\ t.col \in Nat /\ t.fee \in Nat
          /\ LeftOver(r, t) \in Reserve
          /\ LeftOver(r, t).col + LeftOver(r, t).fee = (r.col + r.fee) - (t.col + t.fee)
          /\ LeftOver(r, t).qty = IF r.qty = 0 THEN 0 ELSE r.qty - q
          /\ LeftOver(r, t).qty = 0 => LeftOver(r, t) = NoReserve
      BY <1>3, <3>1, <3>2, <3>3, DrawnCovers
    <3>5. /\ l \in [AllIds -> Reserve] /\ l[job.id] = LeftOver(r, t)
          /\ \A j \in AllIds : j # job.id => l[j] = ledger[j]
      BY <1>1, <3>1, <3>2, <3>4
    <3> QED BY <2>2, <3>1, <3>4, <3>5 DEF r
  <2> QED BY <2>1, <2>2
<1> HIDE DEF l, t
<1>5. l[o.id] = ledger[o.id]
  BY <1>2, <1>4
<1>6. /\ d.col \in Nat /\ d.fee \in Nat
      /\ ledger' \in [AllIds -> Reserve]
      /\ \A j \in AllIds : j # o.id => ledger'[j] = l[j]
      /\ LET r == ledger[o.id]
             left == ledger'[o.id]
         IN /\ left.col + left.fee = (r.col + r.fee) - (d.col + d.fee)
            /\ left.qty = o.rem - q
            /\ left.qty = 0 => left = NoReserve
  <2> DEFINE r == l[o.id]
             left == LeftOver(r, d)
  <2>1. /\ r \in Reserve /\ r.qty = o.rem /\ q <= r.qty /\ r.qty # 0
        /\ d = Drawn(r, q) /\ ledger' = [l EXCEPT ![o.id] = left]
    BY <1>1, <1>2, <1>3, <1>4, <1>5 DEF Draw
  <2> HIDE DEF r, d
  <2>2. /\ d.col \in Nat /\ d.fee \in Nat /\ left \in Reserve
        /\ left.col + left.fee = (r.col + r.fee) - (d.col + d.fee)
        /\ left.qty = r.qty - q
        /\ left.qty = 0 => left = NoReserve
    BY <1>3, <2>1, DrawnCovers
  <2> HIDE DEF left
  <2>3. ledger' \in [AllIds -> Reserve] /\ ledger'[o.id] = left
        /\ \A j \in AllIds : j # o.id => ledger'[j] = l[j]
    BY <1>2, <1>4, <2>1, <2>2
  <2> QED BY <1>5, <2>1, <2>2, <2>3 DEF r
<1> HIDE DEF d
<1>7. reserved' = [[reserved EXCEPT ![o.owner] = @ - (d.col + d.fee)]
                      EXCEPT ![job.owner] = @ - (t.col + t.fee)]
  <2>1. IsWorld(World(job.m)) /\ World(job.m).reserved = reserved
        /\ Opposite(job.side) \in Sides
    BY <1>1, <1>2, WorldOK DEF World, Opposite, Sides
  <2>2. IsWorld(w)
    BY <1>2, <1>3, <1>6, <2>1, ApplyFillSettles
  <2>3. w.reserved = [reserved EXCEPT ![o.owner] = @ - (d.col + d.fee)]
    BY <1>2, <1>6, <2>1, ApplyFillReserved
  <2> HIDE DEF w
  <2>4. v.reserved = [w.reserved EXCEPT ![job.owner] = @ - (t.col + t.fee)]
    BY <1>2, <1>4, <2>2, ApplyFillReserved
  <2> QED BY <1>1, <2>3, <2>4 DEF SetWorld
<1> DEFINE c == d.col + d.fee
           e == t.col + t.fee
<1>8. c \in Int /\ e \in Int
  BY <1>4, <1>6
<1>9. reserved' = [[reserved EXCEPT ![o.owner] = @ - c] EXCEPT ![job.owner] = @ - e]
  BY <1>7
<1>10. ~job.liq => ledger'[job.id] = l[job.id]
  BY <1>2, <1>6
<1>11. \A j \in AllIds : j # o.id /\ (job.liq \/ j # job.id) => ledger'[j] = ledger[j]
  BY <1>4, <1>6
<1>12. /\ job.liq => e = 0
       /\ ~job.liq =>
            LET r == ledger[job.id]
                left == ledger'[job.id]
            IN /\ left.col + left.fee = (r.col + r.fee) - e
               /\ left.qty = IF r.qty = 0 THEN 0 ELSE rem - q
               /\ left.qty = 0 => left = NoReserve
  BY <1>4, <1>10
<1>13. LET r == ledger[o.id]
           left == ledger'[o.id]
       IN /\ left.col + left.fee = (r.col + r.fee) - c
          /\ left.qty = o.rem - q
          /\ left.qty = 0 => left = NoReserve
  BY <1>6
<1> HIDE DEF c, e
<1> QED BY <1>6, <1>8, <1>9, <1>11, <1>12, <1>13 DEF o, q

(* After a fill each of the two reservations covers what is left of its     *)
(* order, and nothing is held for a resting order that is gone.             *)
LEMMA FillReserves ==
    ASSUME RInv, NEW i \in DOMAIN book[job.m], MatchFill(i)
    PROVE  Kept'
<1> DEFINE m == job.m
           o == book[m][i]
           q == bigmin(rem, o.rem)
           b == Consume(book[m], i, q)
           x == <<m, o.id>>
           z == <<m, job.id>>
<1>1. /\ EInv /\ AtHome /\ Covered /\ Spent /\ Reserved
      /\ job # NoJob /\ rem > 0 /\ o.owner # job.owner
      /\ job' = job /\ rem' = rem - q /\ triggers' = triggers
      /\ book' = [book EXCEPT ![m] = b]
      /\ ledger \in [AllIds -> Reserve] /\ reserved \in [Accounts -> Int]
      /\ book \in [Markets -> Seq(RestingOrder)]
  BY DEF MatchFill, Meets, RInv, EInv, TypeOK
<1>2. PICK c, e \in Int :
        /\ reserved' = [[reserved EXCEPT ![o.owner] = @ - c]
                           EXCEPT ![job.owner] = @ - e]
        /\ ledger' \in [AllIds -> Reserve]
        /\ \A j \in AllIds : j # o.id /\ (job.liq \/ j # job.id)
                               => ledger'[j] = ledger[j]
        /\ LET r == ledger[o.id]
               left == ledger'[o.id]
           IN /\ left.col + left.fee = (r.col + r.fee) - c
              /\ left.qty = o.rem - q
              /\ left.qty = 0 => left = NoReserve
        /\ job.liq => e = 0
        /\ ~job.liq =>
             LET r == ledger[job.id]
                 left == ledger'[job.id]
             IN /\ left.col + left.fee = (r.col + r.fee) - e
                /\ left.qty = IF r.qty = 0 THEN 0 ELSE rem - q
                /\ left.qty = 0 => left = NoReserve
  BY FillDraws
<1>3. /\ m \in Markets /\ job.owner \in Users /\ rem \in Nat \ {0}
      /\ o.id \in AllIds /\ o.rem \in Nat \ {0} /\ o.owner \in Users
      /\ Matching <=> ~job.liq
      /\ Matching => /\ job.id \in AllIds /\ job.id # o.id /\ Home(job.id) = m
                     /\ job.id \notin RestingIds(book[m])
      /\ book[m] \in Seq(RestingOf(AllIds, Users, Nat \ {0})) /\ UniqueIds(book[m])
  <2>1. m \in Markets /\ job.owner \in Users /\ rem \in Nat \ {0}
    <3> HIDE DEF o, q, b, x, z
    <3>1. EInv /\ job # NoJob /\ rem > 0
      BY <1>1
    <3> QED BY ONLY <3>1, JobIs DEF m
  <2>2. o.id \in AllIds /\ o.rem \in Nat \ {0} /\ o.owner \in Users
        /\ book[m] \in Seq(RestingOf(AllIds, Users, Nat \ {0})) /\ UniqueIds(book[m])
    BY <1>1, <2>1, BookShape
  <2>3. Matching <=> ~job.liq
    BY <1>1 DEF Matching
  <2>4. Matching => /\ job.id \in AllIds /\ job.id # o.id /\ Home(job.id) = m
                    /\ job.id \notin RestingIds(book[m])
    BY <1>1 DEF EInv, JobCloses, Matching, RestingIds, AtHome
  <2> QED BY <2>1, <2>2, <2>3, <2>4
<1>4. q \in Nat \ {0} /\ q <= rem /\ q <= o.rem
  <2> HIDE DEF o
  <2> QED BY <1>3 DEF bigmin
<1>5. /\ \A u, id : RestsFor(b, u, id)
                      <=> RestsFor(book[m], u, id) /\ (q = o.rem => id # o.id)
      /\ \A k \in DOMAIN b : \E j \in DOMAIN book[m] :
            /\ b[k].id = book[m][j].id
            /\ b[k].rem = IF j = i THEN book[m][j].rem - q ELSE book[m][j].rem
  <2> HIDE DEF q
  <2> QED BY <1>3, <1>4, ConsumeRests
<1>6. RestsFor(book[m], o.owner, o.id)
  BY DEF RestsFor
<1> HIDE DEF b, q
<1>7. book'[m] = b /\ \A n \in Markets : n # m => book'[n] = book[n]
  BY <1>1, <1>3
<1>8. /\ x \in Pairs /\ x[1] = m /\ x[2] = o.id
      /\ \A y \in Pairs : y[1] = m /\ y[2] = o.id <=> y = x
      /\ x \in HeldOrders(o.owner)
  <2>1. x \in Pairs /\ x[1] = m /\ x[2] = o.id
        /\ \A y \in Pairs : y[1] = m /\ y[2] = o.id <=> y = x
    BY <1>3 DEF Pairs
  <2> QED BY <1>6, <2>1, HeldIs
<1>9. Matching => /\ z \in Pairs /\ z[1] = m /\ z[2] = job.id
                  /\ z \in HeldOrders(job.owner) /\ z # x
  <2> SUFFICES ASSUME Matching PROVE /\ z \in Pairs /\ z[1] = m /\ z[2] = job.id
                                     /\ z \in HeldOrders(job.owner) /\ z # x
    OBVIOUS
  <2>1. z \in Pairs /\ z[1] = m /\ z[2] = job.id
    BY <1>3 DEF Pairs
  <2> QED BY <1>3, <1>8, <2>1, HeldIs
<1> HIDE DEF x, z, o, m
<1>10. ASSUME NEW v, NEW y \in Pairs
       PROVE  y \in HeldOrders(v)' <=> y \in HeldOrders(v) /\ (q = o.rem => y # x)
  <2>1. y[1] \in Markets
    BY DEF Pairs
  <2>2. RestsFor(book'[y[1]], v, y[2])
          <=> RestsFor(book[y[1]], v, y[2]) /\ (q = o.rem => y # x)
    BY <1>5, <1>7, <1>8, <2>1
  <2>3. Matching' <=> Matching
    BY <1>1 DEF Matching
  <2>4. Matching /\ job.m = y[1] /\ job.id = y[2] => y # x
    BY <1>3, <1>8
  <2> QED BY <1>1, <2>2, <2>3, <2>4, HeldIs, HeldIsNext
<1>11. ASSUME NEW v, NEW y \in Pairs, y \in HeldOrders(v), y # x, Matching => y # z
       PROVE  ledger'[y[2]] = ledger[y[2]]
  <2>1. y[2] # o.id
    BY <1>8, <1>11, HeldOnce
  <2>2. Matching => y[2] # job.id
    BY <1>9, <1>11, HeldOnce
  <2> QED BY <1>2, <1>3, <2>1, <2>2 DEF Pairs
<1>12. \A v : /\ x \in HeldOrders(v) => v = o.owner
              /\ Matching /\ z \in HeldOrders(v) => v = job.owner
  BY <1>8, <1>9, HeldOnce
<1>13. /\ o.owner \in Accounts /\ job.owner \in Accounts
       /\ reserved'[o.owner] = reserved[o.owner] - c
       /\ reserved'[job.owner] = reserved[job.owner] - e
       /\ \A a \in Accounts : a # o.owner /\ a # job.owner => reserved'[a] = reserved[a]
  BY <1>1, <1>2, <1>3, FundIsNoUser
<1>14. ASSUME NEW v \in Users PROVE reserved'[v] = Backing(ledger', HeldOrders(v)')
  <2>1. CASE v = o.owner
    <3> DEFINE d == -c
    <3>1. \A y \in Pairs \ {x} : y \in HeldOrders(v)' <=> y \in HeldOrders(v)
      BY <1>10
    <3>2. \A y \in Pairs \ {x} : y \in HeldOrders(v) => ledger'[y[2]] = ledger[y[2]]
      BY <1>1, <1>11, <1>12, <2>1
    <3>3. d \in Int /\ reserved'[v] = reserved[v] + d
      BY <1>1, <1>13, <2>1
    <3>4. Part(ledger', HeldOrders(v)', x) = Part(ledger, HeldOrders(v), x) + d
      <4> DEFINE r == ledger[o.id]
                 left == ledger'[o.id]
      <4>1. /\ left.col + left.fee = (r.col + r.fee) - c
            /\ left.qty = o.rem - q
            /\ left.qty = 0 => left = NoReserve
            /\ r \in Reserve
        BY <1>1, <1>2, <1>3
      <4>2. Part(ledger, HeldOrders(v), x) = r.col + r.fee
        BY <1>8, <2>1 DEF Part
      <4>3. Part(ledger', HeldOrders(v)', x) = left.col + left.fee
        <5>1. CASE q = o.rem
          <6>1. left = NoReserve
            BY <1>3, <4>1, <5>1
          <6>2. left.col + left.fee = 0
            BY <6>1 DEF NoReserve
          <6> QED BY <1>8, <1>10, <5>1, <6>2 DEF Part
        <5>2. CASE q # o.rem
          BY <1>8, <1>10, <2>1, <5>2 DEF Part
        <5> QED BY <5>1, <5>2
      <4>4. r.col \in Int /\ r.fee \in Int
        BY <4>1 DEF Reserve
      <4> HIDE DEF r, left
      <4> QED BY <4>1, <4>2, <4>3, <4>4
    <3> HIDE DEF d
    <3> QED BY <1>2, <1>8, <3>1, <3>2, <3>3, <3>4, UserMoves
  <2>2. CASE v = job.owner /\ Matching
    <3> DEFINE d == -e
    <3>1. x \notin HeldOrders(v)
      BY <1>1, <1>12, <2>2
    <3>2. \A y \in Pairs : y \in HeldOrders(v)' <=> y \in HeldOrders(v)
      BY <1>10, <3>1
    <3>3. \A y \in Pairs \ {z} : y \in HeldOrders(v) => ledger'[y[2]] = ledger[y[2]]
      BY <1>11, <3>1
    <3>4. d \in Int /\ reserved'[v] = reserved[v] + d
      BY <1>1, <1>13, <2>2
    <3>5. Part(ledger', HeldOrders(v)', z) = Part(ledger, HeldOrders(v), z) + d
      <4> DEFINE r == ledger[job.id]
                 left == ledger'[job.id]
      <4>1. left.col + left.fee = (r.col + r.fee) - e /\ r \in Reserve
        BY <1>1, <1>2, <1>3, <2>2
      <4>2. Part(ledger, HeldOrders(v), z) = r.col + r.fee
        BY <1>9, <2>2 DEF Part
      <4>3. Part(ledger', HeldOrders(v)', z) = left.col + left.fee
        BY <1>9, <2>2, <3>2 DEF Part
      <4>4. r.col \in Int /\ r.fee \in Int
        BY <4>1 DEF Reserve
      <4> HIDE DEF r, left
      <4> QED BY <4>1, <4>2, <4>3, <4>4
    <3> HIDE DEF d
    <3> QED BY <1>2, <1>9, <2>2, <3>2, <3>3, <3>4, <3>5, UserMoves, ZenonT(30)
  <2>3. CASE v # o.owner /\ (v = job.owner => ~Matching)
    <3>1. x \notin HeldOrders(v)
      BY <1>12, <2>3
    <3>2. \A y \in Pairs : y \in HeldOrders(v)' <=> y \in HeldOrders(v)
      BY <1>10, <3>1
    <3>3. \A y \in Pairs : y \in HeldOrders(v) => ledger'[y[2]] = ledger[y[2]]
      BY <1>11, <1>12, <2>3, <3>1
    <3>4. reserved'[v] = reserved[v]
      <4>1. v \in Accounts /\ reserved[v] \in Int
        BY <1>1, FundIsNoUser
      <4>2. v = job.owner => e = 0
        BY <1>2, <1>3, <2>3
      <4> QED BY <1>13, <2>3, <4>1, <4>2
    <3> QED BY <1>2, <3>2, <3>3, <3>4, UserStays
  <2> QED BY <2>1, <2>2, <2>3
<1>15. Reserved'
  <2>1. reserved'[Fund] = 0
    BY <1>1, <1>3, <1>13, FundIsNoUser DEF Reserved
  <2> QED BY <1>14, <2>1 DEF Reserved
<1>16. \A n \in Markets : \A k \in DOMAIN book'[n] : \E j \in DOMAIN book[n] :
          /\ book'[n][k].id = book[n][j].id
          /\ book'[n][k].rem = IF n = m /\ j = i THEN o.rem - q ELSE book[n][j].rem
  BY <1>5, <1>7 DEF o
<1>17. AtHome'
  BY <1>1, <1>16 DEF AtHome, Matching
<1>18. Covered'
  <2>1. ASSUME NEW n \in Markets, NEW k \in DOMAIN book'[n]
        PROVE  ledger'[book'[n][k].id].qty = book'[n][k].rem
    <3>1. PICK j \in DOMAIN book[n] :
            /\ book'[n][k].id = book[n][j].id
            /\ book'[n][k].rem = IF n = m /\ j = i THEN o.rem - q ELSE book[n][j].rem
      BY <1>16
    <3>2. CASE n = m /\ j = i
      BY <1>2, <3>1, <3>2 DEF o
    <3>3. CASE ~(n = m /\ j = i)
      <4>1. book[n][j].id \in AllIds /\ Home(book[n][j].id) = n
        BY <1>1, BookShape DEF AtHome
      <4>2. book[n][j].id # o.id
        <5>1. Home(o.id) = m /\ i \in DOMAIN book[m]
          BY <1>1, <1>3 DEF AtHome, o, m
        <5> QED BY <1>3, <3>3, <4>1, <5>1 DEF UniqueIds, o
      <4>3. Matching => book[n][j].id # job.id
        BY <1>3, <4>1 DEF RestingIds
      <4>4. ledger'[book[n][j].id] = ledger[book[n][j].id]
        BY <1>2, <1>3, <4>1, <4>2, <4>3
      <4> QED BY <1>1, <3>1, <3>3, <4>4 DEF Covered
    <3> QED BY <3>2, <3>3
  <2>2. ASSUME Matching
        PROVE  /\ ledger'[job.id].qty \in {0, rem'}
               /\ job.tif # "IOC" => ledger'[job.id].qty = rem'
    <3>1. /\ ledger[job.id].qty \in {0, rem}
          /\ job.tif # "IOC" => ledger[job.id].qty = rem
      BY <1>1, <2>2 DEF Covered
    <3>2. ledger'[job.id].qty = IF ledger[job.id].qty = 0 THEN 0 ELSE rem - q
      BY <1>2, <1>3, <2>2
    <3> QED BY <1>1, <1>3, <3>1, <3>2
  <2>3. ASSUME NEW j \in AllIds, ledger'[j].qty = 0 PROVE ledger'[j] = NoReserve
    <3>1. CASE j = o.id
      BY <1>2, <2>3, <3>1
    <3>2. CASE Matching /\ j = job.id
      BY <1>2, <1>3, <2>3, <3>2
    <3>3. CASE j # o.id /\ (Matching => j # job.id)
      BY <1>1, <1>2, <1>3, <2>3, <3>3 DEF Covered
    <3> QED BY <3>1, <3>2, <3>3
  <2> QED BY <1>1, <2>1, <2>2, <2>3 DEF Covered, Matching
<1>19. Spent'
  <2> SUFFICES ASSUME NEW j \in AllIds,
                      \A n \in Markets : j \notin RestingIds(book'[n]),
                      ~(Matching /\ job.id = j)
               PROVE  ledger'[j] = NoReserve
    BY <1>1 DEF Spent, Matching
  <2>1. CASE j = o.id
    <3>1. ~RestsFor(book'[m], o.owner, o.id)
      BY <1>3, <2>1 DEF RestsFor, RestingIds
    <3>2. q = o.rem
      BY <1>5, <1>6, <1>7, <3>1
    <3> QED BY <1>2, <1>3, <2>1, <3>2
  <2>2. CASE j # o.id
    <3>1. ASSUME NEW n \in Markets, j \in RestingIds(book[n])
          PROVE  j \in RestingIds(book'[n])
      <4>1. PICK k \in DOMAIN book[n] : book[n][k].id = j
        BY <3>1 DEF RestingIds
      <4>2. RestsFor(book[n], book[n][k].owner, j)
        BY <4>1 DEF RestsFor
      <4>3. RestsFor(book'[n], book[n][k].owner, j)
        BY <1>5, <1>7, <2>2, <4>2
      <4> QED BY <4>3 DEF RestsFor, RestingIds
    <3>2. ledger[j] = NoReserve
      BY <1>1, <3>1 DEF Spent
    <3> QED BY <1>2, <1>3, <2>2, <3>2
  <2> QED BY <2>1, <2>2
<1> QED BY <1>15, <1>17, <1>18, <1>19 DEF Kept

(* The fund's collateral passes through its reservation and is gone again.  *)
LEMMA BackstopReserved ==
    ASSUME EInv, job # NoJob, job.liq
    PROVE  Backstop.reserved = reserved
<1> DEFINE col == collateralRequired(notionalUsd(rem, job.mark), Params,
                     [gap |-> gap[job.m], mult |-> CoeffScale, tier |-> "C"])
           y == World(job.m)
           w == [y EXCEPT !.free[Fund] = @ - col, !.reserved[Fund] = @ + col]
           v == ApplyFill(w, job.owner, job.side, job.mark, rem, 0, 0)
           x == ApplyFill(v, Fund, Opposite(job.side), job.mark, rem, col, 0)
<1>1. /\ job.m \in Markets /\ job.owner \in Users /\ job.owner \in Accounts
      /\ job.side \in Sides /\ job.mark \in Nat /\ rem \in Nat
      /\ Fund \in Accounts /\ Fund # job.owner
      /\ reserved \in [Accounts -> Int] /\ free \in [Accounts -> Int]
  BY JobIs, FundIsNoUser DEF EInv, TypeOK
<1>2. IsWorld(y) /\ y.reserved = reserved
  BY <1>1, WorldOK DEF World
<1>3. CASE rem = 0
  BY <1>2, <1>3 DEF Backstop
<1>4. CASE rem # 0
  <2>1. rem \in Nat \ {0} /\ Opposite(job.side) \in Sides
    BY <1>1, <1>4 DEF Opposite, Sides
  <2>2. col \in Nat
    <3>1. notionalUsd(rem, job.mark) \in Nat
      BY <1>1, NotionalNat
    <3>2. [gap |-> gap[job.m], mult |-> CoeffScale, tier |-> "C"] \in RiskCoeffs
      BY <1>1, ScaleAssumption DEF RiskCoeffs, TierCodes, EInv, TypeOK
    <3> QED BY <3>1, <3>2, RequiredNat, EngineAssumption
  <2>3. Backstop = x
    BY <1>4 DEF Backstop
  <2> DEFINE fr == [y.free EXCEPT ![Fund] = @ - col]
             rs == [y.reserved EXCEPT ![Fund] = @ + col]
  <2> HIDE DEF col, y
  <2>4. w = [y EXCEPT !.free = fr, !.reserved = rs]
    OBVIOUS
  <2>5. fr \in [Accounts -> Int] /\ rs \in [Accounts -> Int]
    BY <1>1, <1>2, <2>2 DEF IsWorld
  <2> HIDE DEF w, fr, rs
  <2>6. w = [free |-> fr, reserved |-> rs, fees |-> y.fees, dust |-> y.dust,
             pos |-> y.pos]
    BY <1>2, <2>4 DEF IsWorld
  <2>7. IsWorld(w)
    BY <1>2, <2>5, <2>6 DEF IsWorld
  <2>8. 0 \in Nat
    OBVIOUS
  <2>9. IsWorld(v) /\ v.reserved = [rs EXCEPT ![job.owner] = @ - (0 + 0)]
    BY <1>1, <2>1, <2>6, <2>7, <2>8, ApplyFillSettles, ApplyFillReserved, SMTT(30)
  <2> HIDE DEF v
  <2>10. x.reserved = [v.reserved EXCEPT ![Fund] = @ - (col + 0)]
    <3>1. IsWorld(v) /\ Fund \in Accounts /\ col \in Nat /\ 0 \in Nat
      BY <1>1, <2>2, <2>8, <2>9
    <3> HIDE DEF x
    <3>2. x = ApplyFill(v, Fund, Opposite(job.side), job.mark, rem, col, 0)
      BY DEF x
    <3>3. ApplyFill(v, Fund, Opposite(job.side), job.mark, rem, col, 0).reserved
            = [v.reserved EXCEPT ![Fund] = @ - (col + 0)]
      BY ONLY <3>1, ApplyFillReserved
    <3> QED BY <3>2, <3>3
  <2> HIDE DEF x
  <2>11. v.reserved = rs
    BY <1>1, <2>5, <2>9
  <2>12. x.reserved \in [Accounts -> Int] /\ \A a \in Accounts : x.reserved[a] = reserved[a]
    BY <1>1, <1>2, <2>2, <2>5, <2>10, <2>11 DEF rs
  <2> QED BY <1>1, <2>3, <2>12
<1> QED BY <1>3, <1>4
-----------------------------------------------------------------------------
\* The theorem.

(* At the start nothing rests and nothing is reserved.                      *)
LEMMA InitReserves == ASSUME Init PROVE RInv
<1>1. EInv
  BY InitKeeps
<1>2. /\ ~Matching /\ reserved = [a \in Accounts |-> 0]
      /\ \A id \in AllIds : ledger[id] = NoReserve
      /\ \A m \in Markets : DOMAIN book[m] = {} /\ triggers[m] = {}
  BY DEF Init, Matching
<1>3. AtHome /\ Covered /\ Spent
  BY <1>2 DEF AtHome, Covered, Spent
<1>4. ASSUME NEW u \in Users PROVE reserved[u] = Backing(ledger, HeldOrders(u))
  <2> DEFINE h == HeldOrders(u)
             f == [x \in Pairs |-> Part(ledger, h, x)]
  <2>1. \A x \in Pairs : x \notin h
    <3> SUFFICES ASSUME NEW x \in Pairs PROVE x \notin h
      OBVIOUS
    <3>1. x[1] \in Markets
      BY DEF Pairs
    <3> QED BY <1>2, <3>1, HeldIs DEF RestsFor
  <2>2. \A x \in Pairs : f[x] = 0
    BY <2>1 DEF Part
  <2>3. Backing(ledger, h) = SumFunctionOnSet(f, Pairs)
    BY <1>1, BackingIs DEF EInv, TypeOK
  <2> HIDE DEF f
  <2>4. SumFunctionOnSet(f, Pairs) = 0
    BY ONLY <2>2, PairsFinite, SumZero
  <2> QED BY <1>2, <2>3, <2>4, FundIsNoUser
<1>5. Reserved
  BY <1>2, <1>4, FundIsNoUser DEF Reserved
<1> QED BY <1>1, <1>3, <1>5 DEF RInv

(* Commands keep it.                                                        *)
LEMMA AcceptReserves == ASSUME OneMarketPerId, RInv, EInv', Accept PROVE Kept'
<1>1. /\ EInv /\ AtHome /\ ledger' \in [AllIds -> Reserve]
      /\ \A m \in Markets : triggers[m] \subseteq Triggers
      /\ triggers \in [Markets -> SUBSET TriggerType]
  BY DEF RInv, AtHome, EInv, TypeOK
<1>2. ASSUME NEW o \in Orders, NEW d \in NonceSteps,
             PlaceOrder(o, lastNonce[o.owner] + d)
      PROVE  Kept'
  <2>1. /\ Acceptable(o) /\ job = NoJob /\ book' = book /\ triggers' = triggers
        /\ Enter(o) \/ (PostOnlyRejected(o) /\ BounceOff(o))
    BY <1>2 DEF PlaceOrder, Command, Idle
  <2>2. Incoming(o) /\ Home(o.id) = o.m
    BY HomeIs, EngineAssumption DEF OrderType, Incoming, AllIds
  <2>3. CASE Enter(o)
    BY <1>1, <2>1, <2>2, <2>3, EnterReserves
  <2>4. CASE PostOnlyRejected(o) /\ BounceOff(o)
    <3>1. /\ ledger' = [ledger EXCEPT ![o.id] = NoReserve]
          /\ job' = job /\ rem' = rem /\ reserved' = reserved
      BY <1>1, <2>1, <2>2, <2>4, BounceIs
    <3>2. \A n \in Markets : o.id \notin RestingIds(book[n])
      BY <1>1, <2>1, <2>2 DEF Acceptable, AtHome, RestingIds
    <3>3. ~Matching
      BY <2>1 DEF Matching
    <3>4. ledger[o.id] = NoReserve /\ o.id \in AllIds
      BY <2>2, <3>2, <3>3 DEF RInv, Spent, Incoming
    <3>5. ledger' = ledger
      BY <1>1, <3>1, <3>4 DEF EInv, TypeOK
    <3> QED BY <1>1, <2>1, <3>1, <3>5, QuietKeeps
  <2> QED BY <2>1, <2>3, <2>4
<1>3. ASSUME NEW u \in Users, NEW m \in Markets, NEW id \in AllIds,
             CancelOrder(u, m, id)
      PROVE  Kept'
  <2>1. PICK i \in DOMAIN book[m] :
          /\ book[m][i].id = id /\ book[m][i].owner = u
          /\ book' = [book EXCEPT ![m] = Without(@, i)]
    BY <1>3 DEF CancelOrder
  <2>2. Release(u, book[m][i].id) /\ job' = job /\ rem' = rem /\ triggers' = triggers
    BY <1>3, <2>1 DEF CancelOrder
  <2> QED BY <2>1, <2>2, RemovalReleases
<1>4. ASSUME NEW t \in Triggers, PlaceTrigger(t) \/ CancelTrigger(t) PROVE Kept'
  <2>1. UNCHANGED <<book, ledger, reserved, job, rem>>
    BY <1>4 DEF PlaceTrigger, CancelTrigger, money
  <2>2. \/ triggers' = [triggers EXCEPT ![t.m] = @ \cup {t}]
        \/ triggers' = [triggers EXCEPT ![t.m] = @ \ {t}]
    BY <1>4 DEF PlaceTrigger, CancelTrigger
  <2>3. \A m \in Markets : triggers'[m] \subseteq Triggers
    BY <1>1, <2>2
  <2> QED BY <2>1, <2>3, QuietKeeps
<1>5. ASSUME /\ UNCHANGED <<book, ledger, reserved, job, rem>>
             /\ UNCHANGED triggers
      PROVE  Kept'
  BY <1>1, <1>5, QuietKeeps
<1>6. ASSUME NEW u \in Users, NEW amount \in Amounts,
             Deposit(u, amount) \/ Withdraw(u, amount)
      PROVE  Kept'
  BY <1>5, <1>6 DEF Deposit, Withdraw
<1>7. ASSUME NEW m \in Markets, NEW px \in IndexPrices, OracleTick(m, px)
      PROVE  Kept'
  BY <1>5, <1>7 DEF OracleTick, money
<1>8. ASSUME NEW m \in Markets,
             \/ \E g \in GapCoeffs : GapReading(m, g)
             \/ \E on \in BOOLEAN : ConfidenceReading(m, on)
             \/ FundingTick(m)
      PROVE  Kept'
  BY <1>5, <1>8 DEF GapReading, ConfidenceReading, FundingTick, money
<1>9. ASSUME NEW u \in Users, NEW t \in TierReadings, TierUpdate(u, t)
      PROVE  Kept'
  BY <1>5, <1>9 DEF TierUpdate, money
<1> QED BY <1>2, <1>3, <1>4, <1>6, <1>7, <1>8, <1>9 DEF Accept

(* So does every step of the matching, trigger and liquidation loops.       *)
LEMMA StepReserves == ASSUME OneMarketPerId, RInv, EInv', Step PROVE Kept'
<1>1. /\ EInv /\ AtHome /\ ledger' \in [AllIds -> Reserve]
      /\ \A m \in Markets : triggers[m] \subseteq Triggers
      /\ triggers \in [Markets -> SUBSET TriggerType]
  BY DEF RInv, AtHome, EInv, TypeOK
<1>2. ASSUME NEW i \in DOMAIN book[job.m], MatchOwn(i) \/ PullOrder(i)
      PROVE  Kept'
  <2>1. /\ job # NoJob /\ book[job.m][i].owner = job.owner
        /\ Release(job.owner, book[job.m][i].id)
        /\ book' = [book EXCEPT ![job.m] = Without(@, i)]
        /\ job' = job /\ rem' = rem /\ triggers' = triggers
    BY <1>2 DEF MatchOwn, PullOrder, Meets
  <2>2. job.m \in Markets /\ job.owner \in Users
    BY <1>1, <2>1, JobIs
  <2> QED BY <2>1, <2>2, RemovalReleases
<1>3. ASSUME EndLiquidation PROVE Kept'
  <2>1. /\ job # NoJob /\ job.liq /\ job' = NoJob
        /\ UNCHANGED <<ledger, book, triggers>>
    BY <1>3 DEF EndLiquidation
  <2>2. reserved' = Backstop.reserved
    <3> DEFINE w == Backstop
               fr == [w.free EXCEPT ![job.owner] = @ - PenaltyPaid(w.free[job.owner]),
                                    ![Fund] = @ + PenaltyPaid(w.free[job.owner])]
    <3>1. SetWorld(job.m, [w EXCEPT !.free = fr])
      BY <1>3 DEF EndLiquidation
    <3>2. IsWorld(w)
      BY <1>1, <2>1, BackstopSettles
    <3> HIDE DEF w, fr
    <3>3. [w EXCEPT !.free = fr].reserved = w.reserved
      BY <3>2 DEF IsWorld
    <3> QED BY <3>1, <3>3 DEF SetWorld, w
  <2>3. reserved' = reserved
    BY <1>1, <2>1, <2>2, BackstopReserved
  <2>4. ~Matching /\ ~Matching'
    BY <2>1 DEF Matching
  <2> QED BY <1>1, <2>1, <2>3, <2>4, QuietKeeps
<1>4. ASSUME NEW t \in Due, FireTrigger(t) PROVE Kept'
  <2>1. /\ job = NoJob /\ t \in TriggerType /\ t.m \in Markets /\ loop \in Loop
        /\ ChildOrder(t).px > 0 => Incoming(ChildOrder(t))
    BY <1>1, <1>4, ChildIncoming DEF TriggerType
  <2>2. t \in Triggers
    <3>1. loop.m \in Markets
      BY <2>1 DEF Loop
    <3> QED BY <1>1, <3>1 DEF Due
  <2>3. Home(ChildOrder(t).id) = ChildOrder(t).m
    BY <2>2, HomeIs DEF ChildOrder
  <2>4. book' = book /\ triggers' = [triggers EXCEPT ![t.m] = @ \ {t}]
    BY <1>4 DEF FireTrigger
  <2>5. \A m \in Markets : triggers'[m] \subseteq Triggers
    BY <1>1, <2>4
  <2>6. CASE ChildOrder(t).px > 0 /\ Acceptable(ChildOrder(t)) /\ Enter(ChildOrder(t))
    BY <1>1, <2>1, <2>3, <2>4, <2>5, <2>6, EnterReserves
  <2>7. CASE UNCHANGED <<money, ledger, job, rem>>
    BY <2>4, <2>5, <2>7, QuietKeeps DEF money
  <2> QED BY <1>4, <2>6, <2>7 DEF FireTrigger
<1>5. ASSUME EndFireRound \/ EndScanRound PROVE Kept'
  <2>1. UNCHANGED <<book, ledger, reserved, job, rem, triggers>>
    BY <1>5 DEF EndFireRound, EndScanRound, money
  <2> QED BY <1>1, <2>1, QuietKeeps
<1>6. ASSUME NEW u \in Users, Liquidate(u) PROVE Kept'
  <2>1. /\ UNCHANGED <<book, ledger, reserved, triggers>>
        /\ job = NoJob /\ job'.liq
    BY <1>6 DEF Liquidate, Looping, money
  <2>2. ~Matching /\ ~Matching'
    BY <2>1 DEF Matching
  <2> QED BY <1>1, <2>1, <2>2, QuietKeeps
<1> QED BY <1>2, <1>3, <1>4, <1>5, <1>6, FillReserves, EndOrderReleases
        DEF Step, MatchStep, LoopStep

(* The invariant is inductive.                                              *)
LEMMA ReservesInductive ==
    ASSUME OneMarketPerId, RInv, [Next]_vars
    PROVE  RInv'
<1>1. EInv'
  BY NextKeeps, StutterKeeps DEF RInv
<1>2. \A m \in Markets : triggers[m] \subseteq Triggers
  BY DEF RInv, AtHome
<1>3. CASE Accept
  BY <1>1, <1>3, AcceptReserves DEF RInv, Kept
<1>4. CASE Step
  BY <1>1, <1>4, StepReserves DEF RInv, Kept
<1>5. CASE \/ \E o \in Orders, d \in NonceSteps :
                  RefuseOrder(o, lastNonce[o.owner] + d)
           \/ Refuse
           \/ UNCHANGED vars
  <2>1. UNCHANGED <<book, ledger, reserved, job, rem, triggers>>
    BY <1>5 DEF RefuseOrder, Refuse, vars, money
  <2> QED BY <1>1, <1>2, <2>1, QuietKeeps DEF RInv, Kept
<1> QED BY <1>3, <1>4, <1>5 DEF Next

(* As long as no id is used in two markets, what an account has reserved is *)
(* what its live orders still hold, and the reservation of a resting order  *)
(* covers what is left of it: fills, cancels, self-trade prevention and     *)
(* liquidations neither strand nor over-draw one (core.ts, releaseReserve). *)
THEOREM ReservesAreBacked ==
    ASSUME OneMarketPerId
    PROVE  Spec => []ReserveBacked
<1>1. Init => RInv
  BY InitReserves
<1>2. RInv /\ [Next]_vars => RInv'
  BY ReservesInductive
<1>3. RInv => ReserveBacked
  BY DEF RInv, Reserved, Covered, ReserveBacked
<1> QED BY <1>1, <1>2, <1>3, PTL DEF Spec
=============================================================================
