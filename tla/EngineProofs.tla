---------------------------- MODULE EngineProofs ----------------------------
(***************************************************************************)
(* The engine core, for any users, markets, orders, prices and parameters: *)
(* types, solvency of users, soundness of the books, and what an IOC and a *)
(* liquidation do to a position.                                           *)
(*                                                                         *)
(* Three groups of lemmas lead to EInv, the inductive invariant: what      *)
(* settling a fill does to the accounts of one market (IsWorld, Settled),  *)
(* what it draws from a reservation, and one lemma ...Keeps per action.    *)
(***************************************************************************)
EXTENDS EngineProps, CommonLemmas

(* What the fixed-point and margin operators return                         *)

(* Division toward zero yields an integer.                                  *)
LEMMA TruncDivInt == \A a \in Int, q \in Nat \ {0} : TruncDiv(a, q) \in Int
BY DEF TruncDiv

(* Division toward zero undoes a multiplication, losses included.          *)
LEMMA TruncDivExact ==
    ASSUME NEW a \in Int, NEW q \in Nat \ {0}
    PROVE  TruncDiv(a * q, q) = a
<1>1. CASE a >= 0
  <2>1. a \in Nat /\ a * q >= 0
    BY <1>1
  <2> QED BY <2>1, MulDivExact DEF TruncDiv
<1>2. CASE a < 0
  <2>1. -a \in Nat /\ -(a * q) = (-a) * q
    BY <1>2
  <2>2. ((-a) * q) \div q = -a
    BY <2>1, MulDivExact
  <2>3. ~(a * q >= 0)
    BY <1>2
  <2> QED BY <2>1, <2>2, <2>3 DEF TruncDiv
<1> QED BY <1>1, <1>2

(* A quotient and what it leaves over make up the dividend again.           *)
LEMMA DivMod == \A a \in Nat, k \in Nat \ {0} :
    a % k \in Nat /\ a % k < k /\ a = k * (a \div k) + (a % k)
OBVIOUS

(* So do the quotient toward zero and its remainder.                        *)
LEMMA TruncSplit ==
    ASSUME NEW a \in Int, NEW k \in Nat \ {0}
    PROVE  TruncMod(a, k) \in Int /\ a = k * TruncDiv(a, k) + TruncMod(a, k)
<1>1. CASE a >= 0
  BY <1>1, DivMod DEF TruncDiv, TruncMod
<1>2. CASE a < 0
  <2> DEFINE b == -a
             d == b \div k
             s == b % k
  <2>1. b \in Nat /\ ~(a >= 0)
    BY <1>2
  <2>2. TruncDiv(a, k) = -d /\ TruncMod(a, k) = -s
    BY <2>1 DEF TruncDiv, TruncMod
  <2>3. d \in Nat /\ s \in Nat /\ b = k * d + s
    BY <2>1, DivMod, DivNat
  <2> HIDE DEF d, s
  <2>4. k * (-d) = -(k * d)
    BY <2>3
  <2> QED BY <1>2, <2>2, <2>3, <2>4
<1> QED BY <1>1, <1>2

(* USD become price times quantity by a factor.                             *)
LEMMA FineInt == \A a \in Int : Fine(a) \in Int
BY ScaleAssumption DEF Fine

LEMMA FineAdds == \A a, b \in Int : Fine(a + b) = Fine(a) + Fine(b)
BY ScaleAssumption DEF Fine

LEMMA FineTakes == \A a, b \in Int : Fine(a - b) = Fine(a) - Fine(b)
BY ScaleAssumption DEF Fine

(* A notional is a natural.                                                 *)
LEMMA NotionalNat == \A q, px \in Nat : notionalUsd(q, px) \in Nat
BY ProductNat, DivNat, ScaleAssumption DEF notionalUsd

(* Margin, fee and penalty of a notional are naturals.                      *)
LEMMA RequiredNat ==
    ASSUME NEW n \in Nat, NEW p \in ParamsType, NEW c \in RiskCoeffs
    PROVE  /\ collateralRequired(n, p, c) \in Nat
           /\ applyBps(n, p.takerFeeBps) \in Nat
           /\ applyBps(n, p.liqPenaltyBps) \in Nat
<1>1. /\ p.baseImBps \in Nat /\ p.takerFeeBps \in Nat /\ p.liqPenaltyBps \in Nat
      /\ p.maxLeverage[c.tier] \in Nat \ {0}
      /\ c.gap \in Nat /\ c.mult \in Nat
  BY DEF ParamsType, RiskCoeffs
<1>2. \A v, k \in Nat : applyBps(v, k) \in Nat
  BY ProductNat, DivNat DEF applyBps, BPS
<1>3. \A v, k \in Nat : applyCoeff(v, k) \in Nat
  BY ProductNat, DivNat, ScaleAssumption DEF applyCoeff
<1>4. imRequired(n, p, c) \in Nat
  BY <1>1, <1>2, <1>3 DEF imRequired
<1>5. n \div p.maxLeverage[c.tier] \in Nat
  BY <1>1, DivNat
<1> QED BY <1>1, <1>2, <1>4, <1>5 DEF collateralRequired, bigmax

-----------------------------------------------------------------------------
(* Settling a fill                                                          *)

(* Closing q of Q at px realises exactly what those q stand at.             *)
LEMMA PnlSplit ==
    ASSUME NEW x \in Int, NEW e \in Int, NEW px \in Int, NEW Q \in Int,
           NEW q \in Int, NEW d \in {1, -1}
    PROVE  (x - e) * Q * d - d * q * (x - px)
             = (px - e) * q * d + (x - e) * (Q - q) * d
<1>1. CASE d = 1
  BY <1>1
<1>2. CASE d = -1
  BY <1>2
<1> QED BY <1>1, <1>2

(* The products in it are integers.                                         *)
LEMMA PnlInt ==
    ASSUME NEW a \in Int, NEW b \in Int, NEW c \in Int, NEW d \in {1, -1}
    PROVE  (a - b) * c * d \in Int /\ d * c * (a - b) \in Int
<1>1. CASE d = 1
  BY <1>1
<1>2. CASE d = -1
  BY <1>2
<1> QED BY <1>1, <1>2

(* The insurance fund is an account and no user.                            *)
LEMMA FundIsNoUser == Fund \in Accounts /\ Fund \notin Users /\ Users \subseteq Accounts
BY EngineAssumption DEF Fund, Accounts

(* There are finitely many accounts.                                        *)
LEMMA AccountsFinite == IsFiniteSet(Accounts)
BY EngineAssumption, FS_AddElement DEF Accounts
-----------------------------------------------------------------------------
\* a position that is closed is gone: nothing of it stays behind
PosOK(p) == p \in Position /\ (p.qty = 0 => p = Flat)

IsWorld(w) ==
    /\ w = [free |-> w.free, reserved |-> w.reserved, fees |-> w.fees,
            dust |-> w.dust, pos |-> w.pos]
    /\ w.free \in [Accounts -> Int]
    /\ w.reserved \in [Accounts -> Int]
    /\ w.fees \in Nat
    /\ w.dust \in Int
    /\ w.pos \in [Accounts -> Position]
    /\ \A a \in Accounts : PosOK(w.pos[a])

\* v comes from w by settling q on side for u: no user loses free balance, no
\* other position changes, and u's position moves by q
Settled(v, w, u, side, q) ==
    /\ \A a \in Users : v.free[a] >= w.free[a]
    /\ \A a \in Accounts \ {u} : v.pos[a] = w.pos[a]
    /\ LET p == w.pos[u]
           r == v.pos[u]
       IN IF p.side # side /\ p.qty > 0
          THEN IF q <= p.qty THEN r.qty = p.qty - q /\ (q < p.qty => r.side = p.side)
               ELSE r.qty = q - p.qty /\ r.side = side
          ELSE r.qty = p.qty + q /\ r.side = side

(* What a position is worth is an integer.                                  *)
LEMMA EquityInt == ASSUME NEW p \in Position, NEW x \in Int
                   PROVE  FineEquity(p, x) \in Int
<1>1. p.qty \in Int /\ p.entry \in Int /\ p.col \in Int /\ dirOf(p.side) \in {1, -1}
  BY DEF Position, dirOf
<1>2. (x - p.entry) * p.qty * dirOf(p.side) \in Int
  BY <1>1, PnlInt
<1>3. Fine(p.col) \in Int
  BY <1>1, FineInt
<1> DEFINE k == Fine(p.col)
           g == (x - p.entry) * p.qty * dirOf(p.side)
<1>4. FineEquity(p, x) = k + g
  BY DEF FineEquity
<1> HIDE DEF k, g
<1> QED BY <1>2, <1>3, <1>4 DEF k, g

(* Opening q at px adds exactly what those q stand at, but for what the     *)
(* rounding of the average entry price leaves over.                         *)
LEMMA PnlJoin ==
    ASSUME NEW x \in Int, NEW e \in Int, NEW Q \in Int, NEW px \in Int,
           NEW q \in Int, NEW n \in Int, NEW d \in {1, -1},
           NEW N \in Int, N = Q + q, NEW k \in Int, k = e * Q + px * q
    PROVE  (x - n) * N * d - d * (k - n * N) = (x - e) * Q * d + d * q * (x - px)
<1>1. CASE d = 1
  BY <1>1
<1>2. CASE d = -1
  BY <1>2
<1> QED BY <1>1, <1>2

\* contracts held: positive long, negative short
Signed(p) == dirOf(p.side) * p.qty

(* The contracts held are an integer number.                                *)
LEMMA SignedInt == ASSUME NEW p \in Position PROVE Signed(p) \in Int
<1>1. dirOf(p.side) \in {1, -1} /\ p.qty \in Int
  BY DEF Position, dirOf
<1> QED BY <1>1 DEF Signed

\* v comes from w by n contracts of u at px, with c to spare: u's free and
\* reserved balances move, the fund may pay, fees are taken; at any price x, what
\* u is worth has changed by c and by what n contracts gain from px to x
Booked(v, w, u, n, c, px) ==
    /\ Signed(v.pos[u]) = Signed(w.pos[u]) + n
    /\ \E out, bad, put \in Int :
          /\ \A a \in Accounts :
                v.free[a] = w.free[a] - (IF a = Fund THEN bad ELSE 0)
                                      + (IF a = u THEN out ELSE 0)
          /\ \A a \in Accounts :
                v.reserved[a] = w.reserved[a] + (IF a = u THEN put ELSE 0)
          /\ \A x \in Int :
                FineEquity(v.pos[u], x) + Fine(out - bad + put + v.fees) - v.dust
                   = FineEquity(w.pos[u], x) + Fine(w.fees + c) - w.dust
                        + n * (x - px)

(* The closing leg of a fill: nobody loses free balance but the fund.       *)
LEMMA CloseLegSettles ==
    ASSUME NEW w, IsWorld(w), NEW u \in Accounts, NEW px \in Nat,
           NEW q \in Nat \ {0}, q <= w.pos[u].qty, NEW col \in Nat
    PROVE  LET v == CloseLeg(w, u, px, q, col)
               p == w.pos[u]
           IN /\ IsWorld(v)
              /\ \A a \in Users : v.free[a] >= w.free[a]
              /\ \A a \in Accounts \ {u} : v.pos[a] = w.pos[a]
              /\ v.pos[u].qty = p.qty - q
              /\ q < p.qty => v.pos[u].side = p.side
              /\ Booked(v, w, u, -(dirOf(p.side) * q), col, px)
<1> DEFINE p == w.pos[u]
           share == TruncDiv(p.col * q, p.qty)
           gain == (px - p.entry) * q * dirOf(p.side)
           pnl == TruncDiv(gain, UsdScale)
           rest == TruncMod(gain, UsdScale)
           net == share + pnl
           fromIso == IF net < 0 THEN bigmin(-net, p.col - share) ELSE 0
           left == p.col - share - fromIso
           badDebt == IF net < 0 THEN -net - fromIso ELSE 0
           out == CloseOut(net, col, IF q = p.qty THEN left ELSE 0)
           paid == [w.free EXCEPT ![Fund] = @ - badDebt]
           free2 == [paid EXCEPT ![u] = @ + out]
           r == IF q = p.qty THEN Flat ELSE [p EXCEPT !.qty = @ - q, !.col = left]
           v == CloseLeg(w, u, px, q, col)
<1>1. /\ p \in Position /\ p.side \in Sides /\ p.qty \in Nat \ {0} /\ p.entry \in Nat
      /\ p.col \in Int
  BY DEF IsWorld, Position
<1>2. share \in Int /\ (q = p.qty => share = p.col)
  <2>1. p.col * q \in Int
    BY <1>1
  <2> QED BY <1>1, <2>1, TruncDivInt, TruncDivExact
<1>3. /\ gain \in Int /\ pnl \in Int /\ rest \in Int /\ net \in Int
      /\ gain = Fine(pnl) + rest
  <2>1. gain \in Int
    <3>1. dirOf(p.side) \in {1, -1} /\ px \in Int /\ q \in Int /\ p.entry \in Int
      BY <1>1 DEF dirOf
    <3> QED BY <3>1, PnlInt
  <2> HIDE DEF gain, share
  <2>2. pnl \in Int /\ rest \in Int /\ gain = UsdScale * pnl + rest
    BY <2>1, TruncDivInt, TruncSplit, ScaleAssumption
  <2> HIDE DEF pnl, rest
  <2> QED BY <1>2, <2>1, <2>2 DEF Fine
<1>14. \A x \in Int :
          (x - p.entry) * p.qty * dirOf(p.side) - dirOf(p.side) * q * (x - px)
             = gain + (x - p.entry) * (p.qty - q) * dirOf(p.side)
  <2> DEFINE d == dirOf(p.side)
             e == p.entry
             Q == p.qty
  <2>1. /\ d \in {1, -1} /\ px \in Int /\ q \in Int /\ e \in Int /\ Q \in Int
        /\ gain = (px - e) * q * d
    BY <1>1 DEF dirOf
  <2> HIDE DEF gain, d, e, Q
  <2>2. \A x \in Int : (x - e) * Q * d - d * q * (x - px)
                          = gain + (x - e) * (Q - q) * d
    <3> SUFFICES ASSUME NEW x \in Int
                 PROVE  (x - e) * Q * d - d * q * (x - px)
                          = gain + (x - e) * (Q - q) * d
      OBVIOUS
    <3>1. (x - e) * Q * d - d * q * (x - px)
            = (px - e) * q * d + (x - e) * (Q - q) * d
      BY <2>1, PnlSplit
    <3> QED BY <2>1, <3>1
  <2> QED BY <2>2 DEF d, e, Q
<1>23. net = share + pnl
  OBVIOUS
<1> HIDE DEF share, net, gain, pnl, rest
<1>4. fromIso \in Int /\ left \in Int /\ badDebt \in Int
  BY <1>1, <1>2, <1>3 DEF bigmin
<1>5. q = p.qty => left = 0
  BY <1>1, <1>2, <1>3 DEF bigmin
<1>15. /\ bigmax(net, 0) - badDebt = net + fromIso
       /\ left = p.col - share - fromIso
  BY <1>1, <1>2, <1>3 DEF bigmin, bigmax
<1> HIDE DEF fromIso, left, badDebt
<1>6. out \in Int /\ out >= 0
  BY <1>3, <1>4, <1>5 DEF CloseOut, bigmax
<1>16. out - badDebt = net + fromIso + col
  BY <1>3, <1>4, <1>5, <1>15 DEF CloseOut, bigmax
<1> HIDE DEF out
<1>7. /\ w.free \in [Accounts -> Int]
      /\ paid \in [Accounts -> Int]
      /\ \A a \in Users : paid[a] = w.free[a]
      /\ \A a \in Accounts : paid[a] = w.free[a] - (IF a = Fund THEN badDebt ELSE 0)
  BY <1>4, FundIsNoUser DEF IsWorld
<1> HIDE DEF paid
<1>8. /\ free2 \in [Accounts -> Int]
      /\ \A a \in Users : free2[a] >= w.free[a]
      /\ \A a \in Accounts : free2[a] = paid[a] + (IF a = u THEN out ELSE 0)
  BY <1>6, <1>7, FundIsNoUser
<1> HIDE DEF free2
<1>9. /\ r \in Position
      /\ r.qty = p.qty - q
      /\ q < p.qty => r.side = p.side
      /\ r.qty = 0 => r = Flat
  <2>1. Flat \in Position /\ Flat.qty = 0
    BY DEF Flat, Position, Sides
  <2>2. CASE q = p.qty
    BY <1>1, <2>1, <2>2
  <2>3. CASE q # p.qty
    <3>1. p.qty - q \in Nat \ {0}
      BY <1>1, <2>3
    <3> QED BY <1>1, <1>4, <2>3, <3>1 DEF Position
  <2> QED BY <2>2, <2>3
<1>17. ASSUME NEW x \in Int
       PROVE  FineEquity(r, x) + Fine(out - badDebt) + rest
                = FineEquity(p, x) + Fine(col) - dirOf(p.side) * q * (x - px)
  <2> DEFINE U == (x - p.entry) * p.qty * dirOf(p.side)
             V == (x - p.entry) * (p.qty - q) * dirOf(p.side)
             D == dirOf(p.side) * q * (x - px)
             c0 == p.col
  <2>0. /\ x \in Int /\ px \in Int /\ p.entry \in Int /\ q \in Int
        /\ p.qty \in Int /\ p.qty - q \in Int /\ dirOf(p.side) \in {1, -1}
    BY <1>1 DEF dirOf
  <2>1. U \in Int /\ V \in Int /\ D \in Int /\ c0 \in Int
    BY ONLY <1>1, <2>0, PnlInt
  <2>2. U - D = gain + V
    BY <1>14
  <2>3. FineEquity(p, x) = Fine(c0) + U
    BY DEF FineEquity
  <2>4. FineEquity(r, x) = Fine(left) + V
    <3>1. CASE q = p.qty
      <4>1. FineEquity(r, x) = Fine(0) + 0
        BY <3>1 DEF FineEquity, Flat, dirOf
      <4>2. V = 0
        BY <1>1, <3>1 DEF dirOf
      <4> QED BY <1>5, <3>1, <4>1, <4>2
    <3>2. CASE q # p.qty
      BY <1>1, <3>2 DEF FineEquity, Position
    <3> QED BY <3>1, <3>2
  <2>5. /\ Fine(left) + Fine(out - badDebt) = Fine(c0) + Fine(pnl) + Fine(col)
        /\ Fine(left) \in Int /\ Fine(out - badDebt) \in Int
        /\ Fine(c0) \in Int /\ Fine(pnl) \in Int /\ Fine(col) \in Int
    <3> DEFINE k == out - badDebt
    <3>1. left + k = (c0 + pnl) + col
      BY <1>2, <1>3, <1>4, <1>6, <1>15, <1>16, <1>23, <2>1
    <3>2. /\ left \in Int /\ k \in Int /\ c0 \in Int /\ pnl \in Int /\ col \in Int
          /\ c0 + pnl \in Int
      BY <1>3, <1>4, <1>6, <2>1
    <3> HIDE DEF k, c0
    <3>3. Fine(left + k) = Fine(left) + Fine(k)
      BY <3>2, FineAdds, FineInt
    <3>4. Fine((c0 + pnl) + col) = Fine(c0) + Fine(pnl) + Fine(col)
      BY <3>2, FineAdds, FineInt
    <3>5. /\ Fine(left) \in Int /\ Fine(k) \in Int
          /\ Fine(c0) \in Int /\ Fine(pnl) \in Int /\ Fine(col) \in Int
      BY <3>2, FineAdds, FineInt
    <3> QED BY <3>1, <3>3, <3>4, <3>5 DEF k
  <2> DEFINE i == Fine(left)
             j == Fine(out - badDebt)
             k == Fine(c0)
             l == Fine(pnl)
             o == Fine(col)
  <2>6. /\ i + j = k + l + o /\ gain = l + rest
        /\ i \in Int /\ j \in Int /\ k \in Int /\ l \in Int /\ o \in Int
        /\ gain \in Int /\ rest \in Int
        /\ FineEquity(p, x) = k + U /\ FineEquity(r, x) = i + V
    BY <1>3, <2>3, <2>4, <2>5
  <2> HIDE DEF U, V, D, i, j, k, l, o, r, p
  <2>7. (i + V) + j + rest = (k + U) + o - D
    BY ONLY <2>1, <2>2, <2>6
  <2> QED BY <2>6, <2>7 DEF D, j, o
<1>10. v = [w EXCEPT !.free = free2, !.dust = @ - rest,
                     !.pos = [@ EXCEPT ![u] = r]]
  BY DEF CloseLeg, free2, paid, out, badDebt, left, fromIso, net, share, pnl, gain,
         rest
<1> HIDE DEF r, v, p
<1>11. v = [free |-> free2, reserved |-> w.reserved, fees |-> w.fees,
            dust |-> w.dust - rest, pos |-> [w.pos EXCEPT ![u] = r]]
  BY <1>10 DEF IsWorld
<1>12. \A a \in Accounts : v.pos[a] = IF a = u THEN r ELSE w.pos[a]
  BY <1>11 DEF IsWorld
<1>13. IsWorld(v)
  <2>1. w.dust - rest \in Int
    BY <1>3 DEF IsWorld
  <2> QED BY <1>8, <1>9, <1>11, <1>12, <2>1 DEF IsWorld, PosOK
<1>18. /\ v.reserved = w.reserved /\ v.fees = w.fees /\ v.dust = w.dust - rest
       /\ v.pos[u] = r /\ w.dust \in Int /\ w.fees \in Int
       /\ \A a \in Accounts :
             v.free[a] = w.free[a] - (IF a = Fund THEN badDebt ELSE 0)
                                   + (IF a = u THEN out ELSE 0)
  BY <1>7, <1>8, <1>11, <1>12 DEF IsWorld
<1> DEFINE n == -(dirOf(p.side) * q)
<1>19. Signed(r) = Signed(p) + n /\ n \in Int
  <2>1. CASE q = p.qty
    BY <1>1, <1>9, <2>1 DEF Signed, Flat, dirOf
  <2>2. CASE q # p.qty
    <3>1. r.side = p.side /\ r.qty = p.qty - q
      BY <1>1, <1>9, <2>2 DEF p
    <3>2. dirOf(p.side) \in {1, -1}
      BY DEF dirOf
    <3> QED BY <1>1, <3>1, <3>2 DEF Signed
  <2> QED BY <2>1, <2>2
<1>20. ASSUME NEW x \in Int
       PROVE  FineEquity(r, x) + Fine(out - badDebt + 0 + w.fees) - (w.dust - rest)
                = FineEquity(p, x) + Fine(w.fees + col) - w.dust + n * (x - px)
  <2> DEFINE a == FineEquity(r, x)
             b == FineEquity(p, x)
             k == dirOf(p.side) * q * (x - px)
             i == Fine(out - badDebt)
             j == Fine(w.fees)
             o == Fine(col)
  <2>1. a + i + rest = b + o - k
    BY <1>17
  <2>2. n * (x - px) = -k
    BY <1>1 DEF dirOf
  <2>3. a \in Int /\ b \in Int /\ k \in Int
    BY <1>1, <1>9, EquityInt DEF dirOf
  <2>4. /\ Fine(out - badDebt + 0 + w.fees) = i + j
        /\ Fine(w.fees + col) = j + o
        /\ i \in Int /\ j \in Int /\ o \in Int
    <3>1. /\ out - badDebt \in Int /\ w.fees \in Int /\ col \in Int
          /\ out - badDebt + 0 = out - badDebt
      BY <1>4, <1>6, <1>18
    <3> QED BY <3>1, FineAdds, FineInt
  <2> HIDE DEF a, b, k, n, i, j, o
  <2>5. a + (i + j) - (w.dust - rest) = b + (j + o) - w.dust + n * (x - px)
    BY <1>3, <1>18, <2>1, <2>2, <2>3, <2>4
  <2> QED BY <2>4, <2>5 DEF a, b
<1> HIDE DEF n
<1>21. Booked(v, w, u, n, col, px)
  <2>1. \A x \in Int :
           FineEquity(v.pos[u], x) + Fine(out - badDebt + 0 + v.fees) - v.dust
             = FineEquity(w.pos[u], x) + Fine(w.fees + col) - w.dust + n * (x - px)
    BY <1>18, <1>20 DEF p
  <2>2. Signed(v.pos[u]) = Signed(w.pos[u]) + n
    BY <1>18, <1>19 DEF p
  <2>3. \A a \in Accounts : v.reserved[a] = w.reserved[a] + (IF a = u THEN 0 ELSE 0)
    BY <1>18 DEF IsWorld
  <2> QED BY <1>4, <1>6, <1>18, <2>1, <2>2, <2>3, 0 \in Int, ZenonT(30) DEF Booked
<1>22. \A a \in Accounts \ {u} : v.pos[a] = w.pos[a]
  BY <1>12
<1> QED BY <1>8, <1>9, <1>11, <1>13, <1>18, <1>21, <1>22 DEF v, p, n

(* The opening leg of a fill: it moves one position, and no free balance.   *)
LEMMA OpenLegSettles ==
    ASSUME NEW w, IsWorld(w), NEW u \in Accounts, NEW side \in Sides,
           NEW px \in Nat, NEW q \in Nat \ {0}, NEW col \in Nat
    PROVE  LET v == OpenLeg(w, u, side, px, q, col)
           IN /\ IsWorld(v)
              /\ v.free = w.free
              /\ \A a \in Accounts \ {u} : v.pos[a] = w.pos[a]
              /\ v.pos[u].qty = w.pos[u].qty + q
              /\ v.pos[u].side = side
              /\ w.pos[u].qty = 0 \/ w.pos[u].side = side =>
                    Booked(v, w, u, dirOf(side) * q, col, px)
<1> DEFINE p == w.pos[u]
           qty == p.qty + q
           cost == p.entry * p.qty + px * q
           entry == IF p.qty = 0 THEN px ELSE cost \div qty
           r == [side |-> side, qty |-> qty, entry |-> entry, col |-> p.col + col]
           gain == dirOf(side) * (cost - entry * qty)
           v == OpenLeg(w, u, side, px, q, col)
<1>1. /\ p.qty \in Nat /\ p.entry \in Nat /\ p.col \in Int
  BY DEF IsWorld, Position
<1>2. qty \in Nat \ {0} /\ cost \in Nat
  BY <1>1, ProductNat
<1>3. entry \in Nat
  <2> HIDE DEF cost, qty
  <2> QED BY <1>2, DivNat
<1>14. gain = dirOf(side) * (IF p.qty = 0 THEN 0 ELSE cost % qty)
  <2>1. CASE p.qty = 0
    <3>1. entry = px /\ qty = q /\ cost = px * q
      BY <1>1, <2>1
    <3>2. cost - entry * qty = 0
      BY <3>1
    <3> QED BY <2>1, <3>2
  <2>2. CASE p.qty # 0
    <3>1. entry = cost \div qty
      BY <2>2
    <3> HIDE DEF cost, qty, entry
    <3>2. cost = qty * (cost \div qty) + (cost % qty) /\ cost % qty \in Nat
      BY <1>2, DivMod
    <3>3. entry * qty = qty * (cost \div qty) /\ entry * qty \in Int
      BY <1>2, <1>3, <3>1
    <3>4. cost - entry * qty = cost % qty
      BY <1>2, <3>2, <3>3
    <3> QED BY <2>2, <3>4
  <2> QED BY <2>1, <2>2
<1> HIDE DEF entry, cost
<1>4. r \in Position /\ r.qty = qty /\ r.side = side
  BY <1>1, <1>2, <1>3 DEF Position
<1>5. v = [w EXCEPT !.pos = [@ EXCEPT ![u] = r], !.dust = @ + gain]
  BY <1>14 DEF OpenLeg, entry, cost
<1> HIDE DEF r, v
<1>9. gain \in Int
  <2>1. entry * qty \in Int /\ cost \in Int
    BY <1>2, <1>3 DEF cost
  <2> HIDE DEF cost, qty
  <2>2. cost - entry * qty \in Int
    BY <2>1
  <2> QED BY <2>2 DEF dirOf
<1>10. ASSUME NEW x \in Int, p.qty = 0 \/ p.side = side
       PROVE  FineEquity(r, x) - gain
                = FineEquity(p, x) + Fine(col) + dirOf(side) * q * (x - px)
  <2> DEFINE d == dirOf(side)
  <2>0. d \in {1, -1} /\ px \in Int /\ q \in Int
    BY DEF dirOf
  <2>1. (x - entry) * qty * d - gain
          = (x - p.entry) * p.qty * d + d * q * (x - px)
    <3> DEFINE e == p.entry
               Q == p.qty
    <3>1. e \in Int /\ Q \in Int /\ entry \in Int
      BY <1>1, <1>3
    <3>2. gain = d * (cost - entry * qty) /\ qty = Q + q
      OBVIOUS
    <3>3. cost = e * Q + px * q
      BY DEF cost
    <3> HIDE DEF e, Q, d, gain, qty
    <3>4. (x - entry) * qty * d - d * (cost - entry * qty)
            = (x - e) * Q * d + d * q * (x - px)
      BY <1>2, <2>0, <3>1, <3>2, <3>3, PnlJoin
    <3> QED BY <3>2, <3>4 DEF e, Q
  <2>2. FineEquity(r, x) = Fine(p.col) + Fine(col) + (x - entry) * qty * d
    <3>1. r.col = p.col + col /\ Fine(p.col + col) = Fine(p.col) + Fine(col)
      <4>1. r.col = p.col + col /\ p.col \in Int /\ col \in Int
        BY <1>1 DEF r
      <4> QED BY <4>1, FineAdds
    <3>2. r.entry = entry /\ r.qty = qty /\ r.side = side
      BY DEF r
    <3> HIDE DEF qty, p
    <3> QED BY <3>1, <3>2 DEF FineEquity
  <2>3. FineEquity(p, x) = Fine(p.col) + (x - p.entry) * p.qty * d
    <3>1. CASE p.side = side
      BY <3>1 DEF FineEquity
    <3>2. CASE p.qty = 0
      BY <1>1, <3>2 DEF FineEquity, dirOf
    <3> QED BY <1>10, <3>1, <3>2
  <2>4. /\ (x - entry) * qty * d \in Int /\ (x - p.entry) * p.qty * d \in Int
        /\ d * q * (x - px) \in Int
    <3> DEFINE e == p.entry
               Q == p.qty
    <3>1. /\ e \in Int /\ Q \in Int /\ entry \in Int /\ qty \in Int /\ px \in Int
          /\ q \in Int /\ d \in {1, -1} /\ x \in Int
      BY <1>1, <1>2, <1>3, <2>0
    <3> HIDE DEF e, Q, d, qty
    <3>2. /\ (x - entry) * qty * d \in Int /\ (x - e) * Q * d \in Int
          /\ d * q * (x - px) \in Int
      BY <3>1, PnlInt
    <3> QED BY <3>2 DEF e, Q
  <2> DEFINE A == (x - entry) * qty * d
             B == (x - p.entry) * p.qty * d
             C == d * q * (x - px)
  <2>5. A - gain = B + C /\ A \in Int /\ B \in Int /\ C \in Int
    BY <2>1, <2>4
  <2> DEFINE i == Fine(p.col)
             j == Fine(col)
  <2>6. /\ FineEquity(r, x) = i + j + A /\ FineEquity(p, x) = i + B
        /\ i \in Int /\ j \in Int
    <3>1. i \in Int /\ j \in Int
      BY <1>1, FineInt
    <3> HIDE DEF p, qty, d
    <3> QED BY <2>2, <2>3, <3>1
  <2> HIDE DEF r, gain, A, B, C, p, i, j
  <2> QED BY <1>9, <2>5, <2>6 DEF C, j
<1> HIDE DEF gain
<1>6. v = [free |-> w.free, reserved |-> w.reserved, fees |-> w.fees,
           dust |-> w.dust + gain, pos |-> [w.pos EXCEPT ![u] = r]]
  BY <1>5 DEF IsWorld
<1>7. \A a \in Accounts : v.pos[a] = IF a = u THEN r ELSE w.pos[a]
  BY <1>6 DEF IsWorld
<1>8. IsWorld(v)
  BY <1>2, <1>4, <1>6, <1>7, <1>9 DEF IsWorld, PosOK
<1>11. /\ v.reserved = w.reserved /\ v.fees = w.fees /\ v.dust = w.dust + gain
       /\ v.pos[u] = r
  BY <1>6, <1>7
<1>12. ASSUME NEW x \in Int, p.qty = 0 \/ p.side = side
       PROVE  FineEquity(r, x) - (w.dust + gain)
                = FineEquity(p, x) - w.dust + Fine(col) + dirOf(side) * q * (x - px)
  <2> DEFINE a == FineEquity(r, x)
             b == FineEquity(p, x)
             c == dirOf(side) * q * (x - px)
             o == Fine(col)
  <2>1. a - gain = b + o + c /\ o \in Int
    BY <1>10, <1>12, FineAdds, FineInt
  <2>2. a \in Int /\ b \in Int /\ c \in Int /\ w.dust \in Int
    <3>1. p \in Position /\ w.dust \in Int
      BY DEF IsWorld
    <3>2. dirOf(side) \in {1, -1} /\ q \in Int /\ px \in Int
      BY DEF dirOf
    <3> HIDE DEF p
    <3> QED BY <1>4, <3>1, <3>2, EquityInt, PnlInt
  <2> HIDE DEF a, b, c, o
  <2> QED BY <1>9, <2>1, <2>2 DEF a, b, c, o
<1> DEFINE n == dirOf(side) * q
<1>13. ASSUME p.qty = 0 \/ p.side = side
       PROVE  Booked(v, w, u, n, col, px)
  <2>1. Signed(r) = Signed(p) + n
    <3>1. dirOf(side) \in {1, -1}
      BY DEF dirOf
    <3>2. CASE p.side = side
      BY <1>1, <1>4, <3>1, <3>2 DEF Signed
    <3>3. CASE p.qty = 0
      <4>1. Signed(p) = 0
        BY <3>3 DEF Signed, dirOf
      <4> QED BY <1>4, <3>1, <3>3, <4>1 DEF Signed
    <3> QED BY <1>13, <3>2, <3>3
  <2>2. \A a \in Accounts : v.free[a] = w.free[a] - (IF a = Fund THEN 0 ELSE 0)
                                                  + (IF a = u THEN 0 ELSE 0)
    BY <1>6 DEF IsWorld
  <2>4. \A a \in Accounts : v.reserved[a] = w.reserved[a] + (IF a = u THEN 0 ELSE 0)
    BY <1>11 DEF IsWorld
  <2>3. \A x \in Int : FineEquity(r, x) + Fine(0 - 0 + 0 + v.fees) - v.dust
                         = FineEquity(p, x) + Fine(w.fees + col) - w.dust
                             + n * (x - px)
    <3> SUFFICES ASSUME NEW x \in Int
                 PROVE  FineEquity(r, x) + Fine(0 - 0 + 0 + v.fees) - v.dust
                          = FineEquity(p, x) + Fine(w.fees + col) - w.dust
                              + n * (x - px)
      OBVIOUS
    <3> DEFINE a == FineEquity(r, x)
               b == FineEquity(p, x)
               g == n * (x - px)
               j == Fine(w.fees)
               o == Fine(col)
    <3>2. a - (w.dust + gain) = b - w.dust + o + g
      BY <1>12, <1>13
    <3>3. /\ a \in Int /\ w.dust \in Int /\ w.fees \in Int
          /\ b \in Int /\ g \in Int
      <4>1. p \in Position /\ w.dust \in Int /\ w.fees \in Int /\ n \in Int
        BY DEF IsWorld, dirOf
      <4> HIDE DEF n, p
      <4> QED BY <1>4, <4>1, EquityInt
    <3>5. /\ Fine(0 - 0 + 0 + v.fees) = j /\ Fine(w.fees + col) = j + o
          /\ j \in Int /\ o \in Int
      <4>1. 0 - 0 + 0 + v.fees = w.fees
        BY <1>11, <3>3
      <4>2. Fine(0 - 0 + 0 + v.fees) = Fine(w.fees)
        BY <4>1
      <4>3. w.fees \in Int /\ col \in Int
        BY <3>3
      <4>4. Fine(w.fees + col) = Fine(w.fees) + Fine(col)
        BY <4>3, FineAdds
      <4>5. Fine(w.fees) \in Int /\ Fine(col) \in Int
        BY <4>3, FineInt
      <4> QED BY <4>2, <4>4, <4>5
    <3> HIDE DEF a, b, g, j, o
    <3>4. a + j - (w.dust + gain) = b + (j + o) - w.dust + g
      BY <1>9, <3>2, <3>3, <3>5
    <3> QED BY <1>11, <3>4, <3>5 DEF a, b, g
  <2> HIDE DEF n, p
  <2> QED BY <1>11, <2>1, <2>2, <2>3, <2>4, 0 \in Int DEF Booked, p
<1> QED BY <1>4, <1>6, <1>7, <1>8, <1>13 DEF v

(* A settled fill keeps the books of accounts well formed; it takes nothing *)
(* from any user's free balance, and moves the one position by q.           *)
LEMMA ApplyFillSettles ==
    ASSUME NEW w, IsWorld(w), NEW u \in Accounts, NEW side \in Sides,
           NEW px \in Nat, NEW q \in Nat \ {0}, NEW col \in Nat, NEW fee \in Nat
    PROVE  LET v == ApplyFill(w, u, side, px, q, col, fee)
           IN IsWorld(v) /\ Settled(v, w, u, side, q)
<1> DEFINE p == w.pos[u]
           closeQty == IF p.side = side THEN 0 ELSE bigmin(q, p.qty)
           colForClose == (col * closeQty) \div q
           res == [w.reserved EXCEPT ![u] = @ - (col + fee)]
           w1 == [w EXCEPT !.reserved[u] = @ - (col + fee), !.fees = @ + fee]
           w2 == IF closeQty = 0 THEN w1 ELSE CloseLeg(w1, u, px, closeQty, colForClose)
           v == ApplyFill(w, u, side, px, q, col, fee)
<1>1. p \in Position /\ p.side \in Sides /\ p.qty \in Nat
  BY DEF IsWorld, Position
<1>2. /\ closeQty \in Nat /\ closeQty <= q
      /\ closeQty > 0 => closeQty <= p.qty /\ p.side # side
      /\ closeQty = 0 => p.side = side \/ p.qty = 0
      /\ p.side # side => (closeQty < q => closeQty = p.qty)
  BY <1>1 DEF bigmin
<1>3. colForClose \in Nat /\ colForClose <= col /\ col - colForClose \in Nat
  <2> HIDE DEF closeQty
  <2>1. colForClose \in Nat /\ colForClose <= col
    BY <1>2, ShareBound
  <2> HIDE DEF colForClose
  <2> QED BY <2>1
<1>4. w1 = [w EXCEPT !.reserved = res, !.fees = w.fees + fee]
  OBVIOUS
<1>5. v = IF q = closeQty THEN w2
          ELSE OpenLeg(w2, u, side, px, q - closeQty, col - colForClose)
  BY DEF ApplyFill
<1> HIDE DEF w1, closeQty, colForClose, v
<1>6. IsWorld(w1) /\ w1.free = w.free /\ w1.pos = w.pos
  <2>1. res \in [Accounts -> Int] /\ w.fees + fee \in Nat
    BY DEF IsWorld
  <2> HIDE DEF res
  <2>2. w1 = [free |-> w.free, reserved |-> res, fees |-> w.fees + fee,
              dust |-> w.dust, pos |-> w.pos]
    BY <1>4 DEF IsWorld
  <2> QED BY <2>1, <2>2 DEF IsWorld
<1>7. /\ IsWorld(w2)
      /\ \A a \in Users : w2.free[a] >= w.free[a]
      /\ \A a \in Accounts \ {u} : w2.pos[a] = w.pos[a]
      /\ w2.pos[u].qty = p.qty - closeQty
      /\ closeQty < p.qty => w2.pos[u].side = p.side
  <2>1. CASE closeQty = 0
    BY <1>1, <1>6, <2>1, FundIsNoUser DEF IsWorld
  <2>2. CASE closeQty # 0
    <3>1. closeQty \in Nat \ {0} /\ closeQty <= w1.pos[u].qty
      BY <1>2, <1>6, <2>2
    <3>2. w2 = CloseLeg(w1, u, px, closeQty, colForClose)
      BY <2>2
    <3> HIDE DEF w2
    <3>3. /\ IsWorld(w2)
          /\ \A a \in Users : w2.free[a] >= w1.free[a]
          /\ \A a \in Accounts \ {u} : w2.pos[a] = w1.pos[a]
          /\ w2.pos[u].qty = w1.pos[u].qty - closeQty
          /\ closeQty < w1.pos[u].qty => w2.pos[u].side = w1.pos[u].side
      <4>1. IsWorld(w1) /\ colForClose \in Nat
        BY <1>3, <1>6
      <4> HIDE DEF p, res
      <4> QED BY ONLY <3>1, <3>2, <4>1, CloseLegSettles, u \in Accounts, px \in Nat
    <3> QED BY <1>6, <3>3
  <2> QED BY <2>1, <2>2
<1> HIDE DEF w2
<1>8. CASE q = closeQty
  <2>1. v = w2 /\ p.side # side /\ p.qty > 0 /\ q <= p.qty
    BY <1>1, <1>2, <1>5, <1>8
  <2> QED BY <1>7, <1>8, <2>1 DEF Settled, v
<1>9. CASE q # closeQty
  <2>1. q - closeQty \in Nat \ {0}
    BY <1>2, <1>9
  <2>2. /\ IsWorld(v)
        /\ v.free = w2.free
        /\ \A a \in Accounts \ {u} : v.pos[a] = w2.pos[a]
        /\ v.pos[u].qty = w2.pos[u].qty + (q - closeQty)
        /\ v.pos[u].side = side
    <3> DEFINE opened == q - closeQty
               backing == col - colForClose
    <3>1. v = OpenLeg(w2, u, side, px, opened, backing)
      BY <1>5, <1>9
    <3>2. IsWorld(w2) /\ opened \in Nat \ {0} /\ backing \in Nat
      BY <1>3, <1>7, <2>1
    <3> HIDE DEF opened, backing, p, res
    <3>3. /\ IsWorld(v)
          /\ v.free = w2.free
          /\ \A a \in Accounts \ {u} : v.pos[a] = w2.pos[a]
          /\ v.pos[u].qty = w2.pos[u].qty + opened
          /\ v.pos[u].side = side
      BY ONLY <3>1, <3>2, OpenLegSettles, u \in Accounts, side \in Sides, px \in Nat
    <3> QED BY <3>3 DEF opened
  <2>3. p.side # side => closeQty = p.qty /\ p.qty < q
    BY <1>1, <1>2, <1>9
  <2>4. p.side = side => closeQty = 0
    BY DEF closeQty
  <2>5. v.pos[u].qty = p.qty - closeQty + (q - closeQty)
    BY <1>7, <2>2
  <2>6. Settled(v, w, u, side, q)
    BY <1>1, <1>7, <2>2, <2>3, <2>4, <2>5 DEF Settled
  <2> QED BY <2>2, <2>6 DEF v
<1> QED BY <1>8, <1>9
-----------------------------------------------------------------------------
(* A fill never draws more than the reservation holds.                     *)
LEMMA DrawnBounds ==
    ASSUME NEW r \in Reserve, NEW q \in Nat
    PROVE  LET d == Drawn(r, q) IN
           /\ d \in Reserve
           /\ LeftOver(r, d) \in Reserve
<1>1. r.col \in Nat /\ r.fee \in Nat /\ r.qty \in Nat
  BY DEF Reserve
<1>2. NoReserve \in Reserve
  BY DEF NoReserve, Reserve
<1>3. CASE r.qty = 0
  BY <1>1, <1>2, <1>3 DEF Drawn, LeftOver, NoReserve, Reserve
<1>4. CASE r.qty # 0 /\ bigmin(q, r.qty) = r.qty
  <2>1. Drawn(r, q) = r
    BY <1>4 DEF Drawn
  <2> QED BY <1>1, <2>1 DEF LeftOver, Reserve
<1>5. CASE r.qty # 0 /\ bigmin(q, r.qty) # r.qty
  <2> DEFINE n == bigmin(q, r.qty)
             col == (r.col * n) \div r.qty
             fee == (r.fee * n) \div r.qty
  <2>1. n \in Nat /\ n <= r.qty /\ r.qty \in Nat \ {0}
    BY <1>1, <1>5 DEF bigmin
  <2>2. Drawn(r, q) = [col |-> col, fee |-> fee, qty |-> n]
    BY <1>5 DEF Drawn
  <2> HIDE DEF n
  <2>3. col \in Nat /\ col <= r.col /\ fee \in Nat /\ fee <= r.fee
    BY <1>1, <2>1, ShareBound
  <2> HIDE DEF col, fee
  <2> QED BY <1>1, <2>1, <2>2, <2>3 DEF LeftOver, Reserve
<1> QED BY <1>3, <1>4, <1>5
-----------------------------------------------------------------------------
Gone == \A m \in Markets : \A a \in Accounts : PosOK(pos[m][a])

\* the order in flight: its id is not resting; if it is an IOC it is no larger
\* than what it closes, and if it is a liquidation exactly that large
JobCloses ==
    job # NoJob =>
        LET p == pos[job.m][job.owner] IN
        /\ ~job.liq => job.id \in AllIds /\ job.id \notin RestingIds(book[job.m])
        /\ job.liq => job.tif = "IOC" /\ p.qty = rem /\ (rem > 0 => p.side # job.side)
        /\ job.tif = "IOC" /\ p.side # job.side /\ p.qty > 0 => rem <= p.qty

(* The inductive invariant. *)
EInv == TypeOK /\ UsersSolvent /\ BooksSound /\ Gone /\ JobCloses

(* What rests in a book of the engine, in the terms of CommonLemmas.        *)
LEMMA RestingOrderIs == RestingOrder = RestingOf(AllIds, Users, Nat \ {0})
BY DEF RestingOrder, RestingOf

(* What the invariant says of one book and of each order in it.             *)
LEMMA BookShape ==
    ASSUME EInv, NEW m \in Markets
    PROVE  /\ book[m] \in Seq(RestingOrder)
           /\ book[m] \in Seq(RestingOf(AllIds, Users, Nat \ {0}))
           /\ \A i \in DOMAIN book[m] :
                 /\ book[m][i].id \in AllIds
                 /\ book[m][i].owner \in Users
                 /\ book[m][i].side \in Sides
                 /\ book[m][i].px \in Nat \ {0}
                 /\ book[m][i].rem \in Nat \ {0}
           /\ Uncrossed(book[m]) /\ UniqueIds(book[m])
<1>1. book[m] \in Seq(RestingOrder)
  BY DEF EInv, TypeOK
<1>2. \A i \in DOMAIN book[m] : book[m][i] \in RestingOrder
  BY <1>1, LenProperties, ElementOfSeq
<1> QED BY <1>1, <1>2, RestingOrderIs DEF EInv, BooksSound, RestingOrder

(* Thinning one book keeps all books sound.                                *)
LEMMA ThinnedBooks ==
    ASSUME EInv, NEW m \in Markets, NEW c \in Seq(RestingOrder),
           \E h : Thinned(c, book[m], h), book' = [book EXCEPT ![m] = c]
    PROVE  /\ book' \in [Markets -> Seq(RestingOrder)]
           /\ BooksSound'
           /\ \A n \in Markets : RestingIds(book'[n]) \subseteq RestingIds(book[n])
<1>1. book \in [Markets -> Seq(RestingOrder)]
  BY DEF EInv, TypeOK
<1>2. PICK h : Thinned(c, book[m], h)
  OBVIOUS
<1>3. Uncrossed(c) /\ UniqueIds(c) /\ RestingIds(c) \subseteq RestingIds(book[m])
  BY <1>1, <1>2, BookShape, ThinnedSound
<1>4. \A n \in Markets : book'[n] = IF n = m THEN c ELSE book[n]
  BY <1>1
<1> QED BY <1>1, <1>3, <1>4 DEF EInv, BooksSound

(* A release only adds to the owner's balance.                             *)
LEMMA ReleaseKeeps ==
    ASSUME EInv, NEW u \in Users, NEW id \in AllIds, Release(u, id)
    PROVE  /\ free' \in [Accounts -> Int]
           /\ reserved' \in [Accounts -> Int]
           /\ ledger' \in [AllIds -> Reserve]
           /\ fees' = fees /\ dust' = dust
           /\ UsersSolvent'
<1> DEFINE r == ledger[id]
<1>1. /\ free \in [Accounts -> Int] /\ reserved \in [Accounts -> Int]
      /\ ledger \in [AllIds -> Reserve] /\ r \in Reserve
      /\ \A a \in Users : a \in Accounts /\ free[a] >= 0
  BY FundIsNoUser DEF EInv, TypeOK, UsersSolvent
<1>2. r.col \in Nat /\ r.fee \in Nat
  BY <1>1 DEF Reserve
<1>3. /\ free' = [free EXCEPT ![u] = @ + (r.col + r.fee)]
      /\ reserved' = [reserved EXCEPT ![u] = @ - (r.col + r.fee)]
      /\ ledger' = [ledger EXCEPT ![id] = NoReserve]
      /\ fees' = fees /\ dust' = dust
  BY DEF Release, SetHoldings, Returned, Holdings
<1>4. NoReserve \in Reserve
  BY DEF NoReserve, Reserve
<1> HIDE DEF r
<1>5. free' \in [Accounts -> Int] /\ reserved' \in [Accounts -> Int]
  BY <1>1, <1>2, <1>3
<1>6. UsersSolvent'
  BY <1>1, <1>2, <1>3 DEF UsersSolvent
<1> QED BY <1>1, <1>3, <1>4, <1>5, <1>6

(* Drawing from one reservation leaves every reservation non-negative.      *)
LEMMA DrawKeeps ==
    ASSUME NEW l \in [AllIds -> Reserve], NEW id \in AllIds, NEW q \in Nat
    PROVE  /\ Draw(l, id, q) \in [AllIds -> Reserve]
           /\ Drawn(l[id], q) \in Reserve
           /\ Drawn(l[id], q).col \in Nat
           /\ Drawn(l[id], q).fee \in Nat
<1>1. l[id] \in Reserve
  OBVIOUS
<1>2. Drawn(l[id], q) \in Reserve /\ LeftOver(l[id], Drawn(l[id], q)) \in Reserve
  BY <1>1, DrawnBounds
<1> QED BY <1>2 DEF Draw, Reserve

(* The accounts of a market are well formed between two fills.              *)
LEMMA WorldOK == ASSUME EInv, NEW m \in Markets PROVE IsWorld(World(m))
<1>1. /\ free \in [Accounts -> Int] /\ reserved \in [Accounts -> Int]
      /\ fees \in Nat /\ dust \in Int /\ pos[m] \in [Accounts -> Position]
      /\ \A a \in Accounts : PosOK(pos[m][a])
  BY DEF EInv, TypeOK, Gone
<1> QED BY <1>1 DEF IsWorld, World

(* Writing well-formed accounts back keeps the invariant about positions.   *)
LEMMA SetWorldKeeps ==
    ASSUME EInv, NEW m \in Markets, NEW w, IsWorld(w), SetWorld(m, w)
    PROVE  /\ free' \in [Accounts -> Int]
           /\ reserved' \in [Accounts -> Int]
           /\ fees' \in Nat
           /\ dust' \in Int
           /\ pos' \in [Markets -> [Accounts -> Position]]
           /\ pos'[m] = w.pos
           /\ Gone'
<1>1. pos \in [Markets -> [Accounts -> Position]] /\ w.pos \in [Accounts -> Position]
  BY DEF EInv, TypeOK, IsWorld
<1>2. /\ pos' \in [Markets -> [Accounts -> Position]]
      /\ pos'[m] = w.pos
      /\ \A n \in Markets \ {m} : pos'[n] = pos[n]
  BY <1>1 DEF SetWorld
<1> QED BY <1>2 DEF EInv, Gone, SetWorld, IsWorld
-----------------------------------------------------------------------------
\* Commands that are applied at once and touch no position and no book.

(* A withdrawal takes no more than the free balance.                        *)
LEMMA DepositKeeps ==
    ASSUME EInv, NEW u \in Users, NEW amount \in Amounts,
           Deposit(u, amount) \/ Withdraw(u, amount)
    PROVE  EInv'
<1>1. /\ amount \in Nat /\ u \in Accounts /\ free \in [Accounts -> Int]
      /\ free[u] \in Int /\ free[u] >= 0
      /\ deposited \in Nat /\ withdrawn \in Nat /\ seq \in Nat
      /\ \A a \in Users : a \in Accounts /\ free[a] >= 0
  BY EngineAssumption, FundIsNoUser DEF EInv, TypeOK, UsersSolvent
<1>2. /\ free' \in [Accounts -> Int]
      /\ \A a \in Users : free'[a] >= 0
      /\ deposited' \in Nat /\ withdrawn' \in Nat
  BY <1>1 DEF Deposit, Withdraw, MayWithdraw
<1>3. seq' \in Nat
  BY <1>1 DEF Deposit, Withdraw, Command
<1>4. /\ UNCHANGED <<reserved, fees, dust, lastNonce, pos, ledger, book, triggers,
                     feeds, mark, job, rem, loop>>
  BY DEF Deposit, Withdraw, Command
<1>5. TypeOK'
  BY <1>2, <1>3, <1>4 DEF EInv, TypeOK, feeds
<1> QED BY <1>2, <1>4, <1>5 DEF EInv, UsersSolvent, BooksSound, Gone, JobCloses

(* Risk readings change a coefficient or a mode.                            *)
LEMMA ReadingKeeps ==
    ASSUME EInv, NEW m \in Markets,
           \/ \E g \in GapCoeffs : GapReading(m, g)
           \/ \E on \in BOOLEAN : ConfidenceReading(m, on)
    PROVE  EInv'
<1>1. /\ UNCHANGED <<money, lastNonce, pos, ledger, book, triggers, index, mark,
                     tier, totals, job, rem, loop>>
      /\ seq' = seq + 1
  BY DEF GapReading, ConfidenceReading, Command
<1>2. gap' \in [Markets -> Nat] /\ reduceOnly' \in [Markets -> BOOLEAN]
  BY EngineAssumption DEF EInv, TypeOK, GapReading, ConfidenceReading
<1>3. TypeOK'
  BY <1>1, <1>2 DEF EInv, TypeOK, money, totals
<1> QED BY <1>1, <1>3 DEF EInv, UsersSolvent, BooksSound, Gone, JobCloses, money

(* Tier updates change one tier.                                            *)
LEMMA TierKeeps ==
    ASSUME EInv, NEW u \in Users, NEW t \in TierReadings, TierUpdate(u, t)
    PROVE  EInv'
<1>1. /\ UNCHANGED <<money, lastNonce, pos, ledger, book, triggers, index, mark,
                     gap, reduceOnly, totals, job, rem, loop>>
      /\ seq' = seq + 1
  BY DEF TierUpdate, Command
<1>2. tier' \in [Accounts -> TierType]
  BY EngineAssumption, FundIsNoUser DEF EInv, TypeOK, TierUpdate
<1>3. TypeOK'
  BY <1>1, <1>2 DEF EInv, TypeOK, money, totals
<1> QED BY <1>1, <1>3 DEF EInv, UsersSolvent, BooksSound, Gone, JobCloses, money

(* The loops the engine starts have the declared type.                      *)
LEMMA LoopsAre ==
    /\ NoLoop \in Loop \cup {NoLoop}
    /\ \A m \in Markets, n, px \in Nat, t \in BOOLEAN :
         FireLoop(m, n, px, t) \in Loop /\ ScanLoop(m, n, t) \in Loop
BY DEF Loop, FireLoop, ScanLoop

(* Arming and disarming a trigger.                                          *)
LEMMA TriggersKeep ==
    ASSUME EInv, NEW t \in Triggers, PlaceTrigger(t) \/ CancelTrigger(t)
    PROVE  EInv'
<1>1. /\ UNCHANGED <<money, lastNonce, pos, ledger, book, feeds, mark, totals, job,
                     rem>>
      /\ seq' = seq + 1
  BY DEF PlaceTrigger, CancelTrigger, Command
<1>2. t \in TriggerType /\ t.m \in Markets
  BY EngineAssumption DEF TriggerType
<1>3. /\ triggers \in [Markets -> SUBSET TriggerType] /\ triggers[t.m] \subseteq TriggerType
      /\ mark[t.m] \in Nat /\ loop \in Loop \cup {NoLoop}
  BY <1>2 DEF EInv, TypeOK
<1>4. /\ triggers' \in [Markets -> SUBSET TriggerType]
      /\ loop' \in Loop \cup {NoLoop}
  <2>1. CASE PlaceTrigger(t)
    <3>1. triggers' = [triggers EXCEPT ![t.m] = @ \cup {t}]
      BY <2>1 DEF PlaceTrigger
    <3>2. triggers[t.m] \cup {t} \subseteq TriggerType
      BY <1>2, <1>3
    <3>3. loop' = NoLoop \/ loop' = FireLoop(t.m, 1, mark[t.m], FALSE)
      BY <2>1 DEF PlaceTrigger
    <3>4. FireLoop(t.m, 1, mark[t.m], FALSE) \in Loop
      BY <1>2, <1>3, LoopsAre
    <3> QED BY <1>2, <1>3, <3>1, <3>2, <3>3, <3>4
  <2>2. CASE CancelTrigger(t)
    <3>1. triggers' = [triggers EXCEPT ![t.m] = @ \ {t}] /\ loop' = loop
      BY <2>2 DEF CancelTrigger
    <3>2. triggers[t.m] \ {t} \subseteq TriggerType
      BY <1>3
    <3> QED BY <1>2, <1>3, <3>1, <3>2
  <2> QED BY <2>1, <2>2
<1>5. TypeOK'
  BY <1>1, <1>4 DEF EInv, TypeOK, money, feeds, totals
<1> QED BY <1>1, <1>5 DEF EInv, UsersSolvent, BooksSound, Gone, JobCloses, money

(* An oracle tick starts the trigger rounds.                                *)
LEMMA OracleTickKeeps ==
    ASSUME EInv, NEW m \in Markets, NEW px \in IndexPrices, OracleTick(m, px)
    PROVE  EInv'
<1>1. /\ UNCHANGED <<money, lastNonce, pos, ledger, book, triggers, gap, reduceOnly,
                     tier, totals, job, rem>>
      /\ seq' = seq + 1
  BY DEF OracleTick, Command
<1>2. px \in Nat
  BY EngineAssumption
<1>3. SnappedMark(mark[m], px) \in Nat
  BY <1>2 DEF EInv, TypeOK, SnappedMark
<1>4. index' \in [Markets -> Nat] /\ mark' \in [Markets -> Nat]
  BY <1>2, <1>3 DEF EInv, TypeOK, OracleTick
<1>5. loop' \in Loop
  BY <1>3, LoopsAre DEF OracleTick
<1>6. TypeOK'
  BY <1>1, <1>4, <1>5 DEF EInv, TypeOK, money, totals
<1> QED BY <1>1, <1>6 DEF EInv, UsersSolvent, BooksSound, Gone, JobCloses, money

(* While a loop runs no order is in flight.                                 *)
LEMMA LoopingIs ==
    ASSUME EInv, Looping("fire") \/ Looping("scan")
    PROVE  loop \in Loop /\ job = NoJob
<1>1. loop \in Loop \cup {NoLoop}
  BY DEF EInv, TypeOK
<1>2. NoLoop.kind = "none"
  BY DEF NoLoop
<1>3. loop.kind = "fire" \/ loop.kind = "scan"
  BY DEF Looping
<1>4. loop # NoLoop
  BY <1>2, <1>3
<1> QED BY <1>1, <1>4 DEF Looping

(* The end of a trigger round or a scan round.                              *)
LEMMA RoundsKeep ==
    ASSUME EInv, EndFireRound \/ EndScanRound
    PROVE  EInv'
<1>1. UNCHANGED <<seq, money, lastNonce, pos, ledger, book, triggers, feeds, mark,
                  totals, job, rem>>
  BY DEF EndFireRound, EndScanRound
<1>2. loop \in Loop
  BY LoopingIs DEF EndFireRound, EndScanRound
<1>3. /\ loop.m \in Markets /\ loop.round + 1 \in Nat /\ loop.tick \in BOOLEAN
      /\ mark[loop.m] \in Nat
  BY <1>2 DEF EInv, TypeOK, Loop
<1>4. loop' \in Loop \cup {NoLoop}
  <2>1. CASE EndFireRound
    BY <1>3, <2>1, LoopsAre DEF EndFireRound
  <2>2. CASE EndScanRound
    BY <1>3, <2>2, LoopsAre DEF EndScanRound
  <2> QED BY <2>1, <2>2
<1>5. TypeOK'
  BY <1>1, <1>4 DEF EInv, TypeOK, money, feeds, totals
<1> QED BY <1>1, <1>5 DEF EInv, UsersSolvent, BooksSound, Gone, JobCloses, money

(* Refused commands are only counted.                                       *)
LEMMA RefusalKeeps ==
    ASSUME EInv,
           Refuse \/ \E o \in Orders, d \in NonceSteps : RefuseOrder(o, lastNonce[o.owner] + d)
    PROVE  EInv'
<1>1. /\ UNCHANGED <<money, lastNonce, pos, ledger, book, triggers, feeds, mark,
                     totals, job, rem, loop>>
      /\ seq' = seq + 1
  BY DEF Refuse, RefuseOrder, Command
<1>2. TypeOK'
  BY <1>1 DEF EInv, TypeOK, money, feeds, totals
<1> QED BY <1>1, <1>2 DEF EInv, UsersSolvent, BooksSound, Gone, JobCloses, money

\* pay is the share of r basis points in what v is worth in USD, both rounded
\* down: at most v * r, and by less than a unit and r basis points less
RoundedShare(v, r, pay) ==
    /\ UsdScale * (BPS * pay) <= v * r
    /\ v * r < UsdScale * (BPS * pay) + UsdScale * (BPS + r)

(* Rounding down twice loses less than the two steps together.              *)
LEMMA TwoRoundings ==
    ASSUME NEW v \in Nat, NEW r \in Nat, NEW k \in Nat \ {0}, NEW b \in Nat \ {0},
           NEW n \in Nat, NEW s \in Nat, v = k * n + s, s < k,
           NEW p \in Nat, NEW t \in Nat, n * r = b * p + t, t < b
    PROVE  k * (b * p) <= v * r /\ v * r < k * (b * p) + k * (b + r)
<1>1. v * r = k * (n * r) + s * r
  BY ProductNat
<1>2. k * (n * r) = k * (b * p) + k * t
  BY ProductNat
<1>3. k * t >= 0 /\ s * r >= 0 /\ s * r <= k * r
  BY ProductNat
<1>4. k * t < k * b
  <2>1. k * t <= k * (b - 1)
    BY ProductNat
  <2>2. k * (b - 1) = k * b - k
    OBVIOUS
  <2> QED BY <2>1, <2>2, ProductNat
<1>5. k * (b + r) = k * b + k * r
  OBVIOUS
<1> DEFINE x == k * (n * r)
           y == k * (b * p)
           z == k * t
           g == s * r
<1>6. /\ x \in Int /\ y \in Int /\ z \in Int /\ g \in Int
      /\ k * b \in Int /\ k * r \in Int
  BY ProductNat
<1> QED BY <1>1, <1>2, <1>3, <1>4, <1>5, <1>6

(* Each account's payment is a share of its notional, rounded down: what    *)
(* rounding leaves is less than one, and nothing where there is no position.*)
LEMMA FundingFlowIs ==
    ASSUME EInv, NEW m \in Markets, index[m] # 0, NEW a \in Accounts
    PROVE  LET p == pos[m][a]
               r == bigabs(FundingRate(m))
               pay == applyBps(positionNotional(p, mark[m]), r)
           IN /\ FundingFlow(m, a) \in Int
              /\ p.qty = 0 => FundingFlow(m, a) = 0
              /\ r \in Nat
              /\ pay \in Nat
              /\ RoundedShare(p.qty * mark[m], r, pay)
              /\ p.qty = 0 => pay = 0
              /\ FundingFlow(m, a) = IF (FundingRate(m) > 0) = (p.side = "buy")
                                     THEN -pay ELSE pay
<1> DEFINE p == pos[m][a]
           r == bigabs(FundingRate(m))
           v == p.qty * mark[m]
           n == notionalUsd(p.qty, mark[m])
           pay == applyBps(positionNotional(p, mark[m]), r)
<1>1. p \in Position /\ mark[m] \in Nat /\ index[m] \in Nat \ {0}
  BY DEF EInv, TypeOK
<1>2. FundingRate(m) \in Int
  <2>1. (mark[m] - index[m]) * BPS \in Int
    BY <1>1 DEF BPS
  <2>2. TruncDiv((mark[m] - index[m]) * BPS, index[m]) \in Int
    BY <1>1, <2>1, TruncDivInt
  <2>3. Params.fundingClampBps \in Nat
    BY EngineAssumption DEF ParamsType
  <2> QED BY <2>2, <2>3 DEF FundingRate, bigmax, bigmin
<1>3. r \in Nat /\ p.qty \in Nat
  BY <1>1, <1>2 DEF bigabs, Position
<1>4. /\ v \in Nat /\ n \in Nat /\ n * r \in Nat
      /\ n = v \div UsdScale /\ UsdScale \in Nat \ {0}
  BY <1>1, <1>3, ProductNat, NotionalNat, ScaleAssumption DEF notionalUsd
<1>5. p.qty = 0 => v = 0
  BY <1>1, <1>3
<1>6. pay = (n * r) \div BPS
  BY DEF applyBps, positionNotional
<1>7. FundingFlow(m, a) = IF (FundingRate(m) > 0) = (p.side = "buy")
                          THEN -pay ELSE pay
  BY DEF FundingFlow
<1> HIDE DEF n, pay, v, r
<1>8. /\ v % UsdScale \in Nat /\ v % UsdScale < UsdScale
      /\ v = UsdScale * n + (v % UsdScale)
  BY <1>4, DivMod
<1>10. /\ BPS \in Nat \ {0} /\ pay \in Nat
       /\ (n * r) % BPS \in Nat /\ (n * r) % BPS < BPS
       /\ n * r = BPS * pay + ((n * r) % BPS)
  BY <1>4, <1>6, DivMod, DivNat DEF BPS
<1>11. RoundedShare(v, r, pay)
  <2> DEFINE s == v % UsdScale
             t == (n * r) % BPS
  <2>1. s \in Nat /\ s < UsdScale /\ v = UsdScale * n + s
    BY <1>8
  <2>2. t \in Nat /\ t < BPS /\ n * r = BPS * pay + t
    BY <1>10
  <2> HIDE DEF s, t
  <2> QED BY <1>3, <1>4, <1>10, <2>1, <2>2, TwoRoundings DEF RoundedShare
<1>12. p.qty = 0 => pay = 0
  <2> SUFFICES ASSUME v = 0 PROVE pay = 0
    BY <1>5
  <2>1. n = 0
    BY <1>4
  <2>2. n * r = 0
    BY <1>3, <2>1
  <2> QED BY <1>6, <2>2 DEF BPS
<1>9. /\ FundingFlow(m, a) \in Int
      /\ p.qty = 0 => FundingFlow(m, a) = 0
  BY <1>7, <1>10, <1>12
<1> QED BY <1>3, <1>7, <1>9, <1>10, <1>11, <1>12 DEF pay, v, r

(* Funding moves collateral of open positions only.                        *)
LEMMA FundingKeeps ==
    ASSUME EInv, NEW m \in Markets, FundingTick(m)
    PROVE  EInv'
<1>1. /\ UNCHANGED <<free, reserved, fees, lastNonce, ledger, book, triggers, feeds,
                     mark, totals, job, rem>>
      /\ seq' = seq + 1 /\ job = NoJob
  BY DEF FundingTick, Command, Idle
<1>2. loop' \in Loop
  BY LoopsAre DEF FundingTick
<1>3. /\ pos \in [Markets -> [Accounts -> Position]]
      /\ mark[m] \in Nat /\ index[m] \in Nat
      /\ \A a \in Accounts : PosOK(pos[m][a]) /\ pos[m][a] \in Position
  BY DEF EInv, TypeOK, Gone
<1>5. \A a \in Accounts : /\ FundingFlow(m, a) \in Int
                          /\ pos[m][a].qty = 0 => FundingFlow(m, a) = 0
  BY FundingFlowIs DEF FundingTick
<1>6. /\ pos' \in [Markets -> [Accounts -> Position]]
      /\ \A n \in Markets : \A a \in Accounts : PosOK(pos'[n][a])
  <2>1. CASE UNCHANGED pos
    BY <1>3, <2>1 DEF EInv, Gone
  <2>2. CASE pos' = [pos EXCEPT ![m] = [a \in Accounts |->
                        [pos[m][a] EXCEPT !.col = @ + FundingFlow(m, a)]]]
    <3> DEFINE f == [a \in Accounts |->
                        [pos[m][a] EXCEPT !.col = @ + FundingFlow(m, a)]]
    <3>1. pos' = [pos EXCEPT ![m] = f]
      BY <2>2
    <3>2. \A a \in Accounts : /\ f[a] \in Position
                              /\ f[a].qty = pos[m][a].qty
                              /\ f[a].qty = 0 => f[a] = pos[m][a]
      BY <1>3, <1>5 DEF Position
    <3>3. f \in [Accounts -> Position]
      BY <3>2
    <3> HIDE DEF f
    <3>4. pos' \in [Markets -> [Accounts -> Position]]
      BY <1>3, <3>1, <3>3
    <3>5. \A a \in Accounts : PosOK(f[a])
      BY <1>3, <3>2 DEF PosOK
    <3>6. \A n \in Markets : pos'[n] = IF n = m THEN f ELSE pos[n]
      BY <1>3, <3>1
    <3> QED BY <3>4, <3>5, <3>6 DEF EInv, Gone
  <2> QED BY <2>1, <2>2 DEF FundingTick
<1>7. dust' \in Int
  <2> DEFINE f == [a \in Accounts |-> FundingFlow(m, a)]
  <2>1. SumFunctionOnSet(f, Accounts) \in Int
    <3>1. \A a \in Accounts : f[a] \in Int
      BY <1>5
    <3> HIDE DEF f
    <3> QED BY <3>1, AccountsFinite, SumInt
  <2>2. SumFunction(f) = SumFunctionOnSet(f, Accounts)
    BY DEF SumFunction
  <2> HIDE DEF f
  <2>3. dust' = dust \/ dust' = dust + UsdScale * SumFunction(f)
    BY DEF FundingTick, f
  <2> QED BY <2>1, <2>2, <2>3, ScaleAssumption DEF EInv, TypeOK
<1>8. TypeOK'
  BY <1>1, <1>2, <1>6, <1>7 DEF EInv, TypeOK, feeds, totals
<1> QED BY <1>1, <1>6, <1>8 DEF EInv, UsersSolvent, BooksSound, Gone, JobCloses
-----------------------------------------------------------------------------
\* Orders on their way to the book.

\* what placeOrder is given, by a client or by a trigger
Incoming(o) ==
    /\ o.m \in Markets /\ o.id \in AllIds /\ o.owner \in Users
    /\ o.side \in Sides /\ o.px \in Nat \ {0} /\ o.qty \in Nat \ {0}
    /\ o.tif \in Tifs /\ o.reduceOnly \in BOOLEAN

(* What an accepted order reserves is covered; its quantity is positive and *)
(* an IOC's no more than what it closes.                                    *)
LEMMA AcceptedOrder ==
    ASSUME EInv, NEW o, Incoming(o), Acceptable(o)
    PROVE  /\ QtyOf(o) \in Nat \ {0}
           /\ ExposureQty(o) \in Nat
           /\ Reservation(o) \in Reserve
           /\ ExposureQty(o) > 0 =>
                free[o.owner] >= Reservation(o).col + Reservation(o).fee
           /\ LET p == pos[o.m][o.owner] IN
                o.tif = "IOC" /\ p.side # o.side /\ p.qty > 0 => QtyOf(o) <= p.qty
<1> DEFINE p == pos[o.m][o.owner]
<1>1. p \in Position /\ p.qty \in Nat
  <2>1. pos \in [Markets -> [Accounts -> Position]]
    BY DEF EInv, TypeOK
  <2>2. o.m \in Markets /\ o.owner \in Accounts
    BY FundIsNoUser DEF Incoming
  <2> QED BY <2>1, <2>2 DEF Position
<1>2. OppositeQty(o) \in Nat /\ (p.side # o.side => OppositeQty(o) = p.qty)
  BY <1>1 DEF OppositeQty
<1>3. QtyOf(o) \in Nat \ {0} /\ (o.reduceOnly => QtyOf(o) <= OppositeQty(o))
      /\ (~o.reduceOnly => QtyOf(o) = o.qty)
  BY <1>2 DEF QtyOf, bigmin, Acceptable, Incoming
<1>4. o.tif = "IOC" /\ p.side # o.side /\ p.qty > 0 => QtyOf(o) <= p.qty
  <2>1. CASE o.reduceOnly
    BY <1>2, <1>3, <2>1
  <2>2. CASE ~o.reduceOnly
    <3>1. ~WouldFlip(o)
      BY DEF Acceptable
    <3> QED BY <1>1, <1>2, <1>3, <2>2, <3>1 DEF WouldFlip, Incoming
  <2> QED BY <2>1, <2>2
<1>5. ExposureQty(o) \in Nat
  BY <1>2, <1>3 DEF ExposureQty, bigmax
<1>6. coeffsFor(o.m, o.owner) \in RiskCoeffs
  <2>1. gap[o.m] \in Nat /\ tier[o.owner] \in TierType
    BY FundIsNoUser DEF EInv, TypeOK, Incoming
  <2> QED BY <2>1 DEF coeffsFor, RiskCoeffs, TierType
<1>7. notionalUsd(ExposureQty(o), o.px) \in Nat
  BY <1>5, NotionalNat DEF Incoming
<1>8. Reservation(o) \in Reserve
  <2> DEFINE n == notionalUsd(ExposureQty(o), o.px)
             c == coeffsFor(o.m, o.owner)
  <2>1. /\ collateralRequired(n, Params, c) \in Nat
        /\ applyBps(n, Params.takerFeeBps) \in Nat
    BY <1>6, <1>7, RequiredNat, EngineAssumption
  <2> QED BY <1>3, <2>1 DEF Reservation, Reserve
<1>9. ExposureQty(o) > 0 => free[o.owner] >= Reservation(o).col + Reservation(o).fee
  BY DEF Acceptable
<1> QED BY <1>3, <1>4, <1>5, <1>8, <1>9

(* An order the book rejects gets back what was set aside for it.           *)
LEMMA BounceIs ==
    ASSUME EInv, NEW o, Incoming(o), Acceptable(o), PostOnlyRejected(o),
           BounceOff(o)
    PROVE  /\ UNCHANGED <<free, reserved, fees, dust, job, rem>>
           /\ ledger' = [ledger EXCEPT ![o.id] = NoReserve]
<1> DEFINE r == Reservation(o)
           k == r.col + r.fee
<1>1. /\ free \in [Accounts -> Int] /\ reserved \in [Accounts -> Int]
      /\ ledger \in [AllIds -> Reserve] /\ o.owner \in Accounts /\ o.id \in AllIds
  BY FundIsNoUser DEF EInv, TypeOK, Incoming
<1>2. QtyOf(o) \in Nat \ {0} /\ r \in Reserve
  BY AcceptedOrder
<1>3. ExposureQty(o) # 0
  BY <1>2 DEF ExposureQty, PostOnlyRejected
<1>4. k \in Int
  BY <1>2 DEF Reserve
<1> HIDE DEF r
<1>5. Reserving(o) = [free |-> [free EXCEPT ![o.owner] = @ - k],
                      reserved |-> [reserved EXCEPT ![o.owner] = @ + k],
                      ledger |-> [ledger EXCEPT ![o.id] = r]]
  BY <1>3 DEF Reserving, Held, Holdings, r
<1>10. /\ Reserving(o).free = [free EXCEPT ![o.owner] = @ - k]
       /\ Reserving(o).reserved = [reserved EXCEPT ![o.owner] = @ + k]
       /\ Reserving(o).ledger = [ledger EXCEPT ![o.id] = r]
  BY <1>5
<1>6. Reserving(o).ledger[o.id] = r
  BY <1>1, <1>10
<1>7. /\ free' = [Reserving(o).free EXCEPT ![o.owner] = @ + k]
      /\ reserved' = [Reserving(o).reserved EXCEPT ![o.owner] = @ - k]
      /\ ledger' = [Reserving(o).ledger EXCEPT ![o.id] = NoReserve]
      /\ UNCHANGED <<fees, dust, job, rem>>
  BY <1>6 DEF BounceOff, SetHoldings, Returned
<1> HIDE DEF k
<1>8. free' = free /\ reserved' = reserved
  <2>1. free[o.owner] - k + k = free[o.owner] /\ reserved[o.owner] + k - k = reserved[o.owner]
    BY <1>1, <1>4
  <2>2. /\ free' = [[free EXCEPT ![o.owner] = @ - k] EXCEPT ![o.owner] = @ + k]
        /\ reserved' = [[reserved EXCEPT ![o.owner] = @ + k] EXCEPT ![o.owner] = @ - k]
    BY <1>7, <1>10
  <2>3. /\ free' \in [Accounts -> Int] /\ reserved' \in [Accounts -> Int]
        /\ \A a \in Accounts : free'[a] = free[a] /\ reserved'[a] = reserved[a]
    BY <1>1, <1>4, <2>1, <2>2
  <2> QED BY <1>1, <2>3
<1>9. ledger' = [ledger EXCEPT ![o.id] = NoReserve]
  <2>1. ledger' = [[ledger EXCEPT ![o.id] = r] EXCEPT ![o.id] = NoReserve]
    BY <1>7, <1>10
  <2> QED BY <1>1, <2>1
<1> QED BY <1>7, <1>8, <1>9

(* Entering an accepted order: its owner can pay for the reservation.       *)
LEMMA EnterKeeps ==
    ASSUME EInv, NEW o, Incoming(o), Acceptable(o), Enter(o), UNCHANGED <<book, pos>>
    PROVE  /\ job' \in Job
           /\ rem' \in Nat
           /\ free' \in [Accounts -> Int]
           /\ reserved' \in [Accounts -> Int]
           /\ ledger' \in [AllIds -> Reserve]
           /\ fees' = fees /\ dust' = dust
           /\ UsersSolvent'
           /\ JobCloses'
<1> DEFINE r == Reservation(o)
<1>1. /\ QtyOf(o) \in Nat \ {0}
      /\ r \in Reserve
      /\ ExposureQty(o) > 0 => free[o.owner] >= r.col + r.fee
      /\ o.tif = "IOC" /\ pos[o.m][o.owner].side # o.side /\ pos[o.m][o.owner].qty > 0
            => QtyOf(o) <= pos[o.m][o.owner].qty
  BY AcceptedOrder
<1>2. /\ job' = [m |-> o.m, id |-> o.id, owner |-> o.owner, side |-> o.side,
                 px |-> o.px, qty |-> QtyOf(o), tif |-> o.tif,
                 liq |-> FALSE, mark |-> 0]
      /\ rem' = QtyOf(o)
      /\ fees' = fees /\ dust' = dust
  BY DEF Enter, SetHoldings
<1>3. \/ /\ free' = [free EXCEPT ![o.owner] = @ - (r.col + r.fee)]
         /\ reserved' = [reserved EXCEPT ![o.owner] = @ + (r.col + r.fee)]
         /\ ledger' = [ledger EXCEPT ![o.id] = r]
         /\ free[o.owner] >= r.col + r.fee
      \/ UNCHANGED <<free, reserved, ledger>>
  <2>0. ExposureQty(o) \in Nat
    BY AcceptedOrder
  <2>1. CASE ExposureQty(o) = 0
    BY <2>1 DEF Enter, SetHoldings, Reserving, Holdings
  <2>2. CASE ExposureQty(o) # 0
    BY <1>1, <2>0, <2>2 DEF Enter, SetHoldings, Reserving, Held, Holdings
  <2> QED BY <2>1, <2>2
<1>4. /\ free \in [Accounts -> Int] /\ reserved \in [Accounts -> Int]
      /\ ledger \in [AllIds -> Reserve]
      /\ o.owner \in Users /\ o.owner \in Accounts
      /\ \A a \in Users : a \in Accounts /\ free[a] >= 0
  BY FundIsNoUser DEF EInv, TypeOK, UsersSolvent, Incoming
<1> HIDE DEF r
<1>5. r.col \in Nat /\ r.fee \in Nat
  BY <1>1 DEF Reserve
<1>6. /\ free' \in [Accounts -> Int]
      /\ reserved' \in [Accounts -> Int]
      /\ ledger' \in [AllIds -> Reserve]
  BY <1>1, <1>3, <1>4, <1>5
<1>7. UsersSolvent'
  BY <1>3, <1>4, <1>5 DEF UsersSolvent
<1>8. job' \in Job
  BY <1>1, <1>2 DEF Incoming, Job
<1>9. JobCloses'
  <2>1. o.id \in AllIds /\ o.id \notin RestingIds(book[o.m])
    BY DEF Acceptable, Incoming
  <2> QED BY <1>1, <1>2, <2>1 DEF JobCloses
<1> QED BY <1>1, <1>2, <1>6, <1>7, <1>8, <1>9

(* A client order, entered or bounced off as POST_ONLY.                     *)
LEMMA PlaceKeeps ==
    ASSUME EInv, NEW o \in Orders, NEW d \in NonceSteps,
           PlaceOrder(o, lastNonce[o.owner] + d)
    PROVE  EInv'
<1>1. /\ UNCHANGED <<pos, book, triggers, feeds, mark, totals, loop>>
      /\ seq' = seq + 1 /\ job = NoJob
      /\ lastNonce' = [lastNonce EXCEPT ![o.owner] = lastNonce[o.owner] + d]
      /\ Acceptable(o)
  BY DEF PlaceOrder, Command, Idle
<1>2. Incoming(o)
  BY EngineAssumption DEF OrderType, Incoming, AllIds
<1>3. lastNonce' \in [Accounts -> Int]
  <2>1. lastNonce \in [Accounts -> Int] /\ d \in Int /\ o.owner \in Accounts
    BY <1>2, EngineAssumption, FundIsNoUser DEF EInv, TypeOK, Incoming
  <2> QED BY <1>1, <2>1
<1>4. /\ job' \in Job \cup {NoJob}
      /\ rem' \in Nat
      /\ free' \in [Accounts -> Int]
      /\ reserved' \in [Accounts -> Int]
      /\ ledger' \in [AllIds -> Reserve]
      /\ fees' = fees /\ dust' = dust
      /\ UsersSolvent'
      /\ JobCloses'
  <2>1. CASE Enter(o)
    BY <1>1, <1>2, <2>1, EnterKeeps
  <2>2. CASE PostOnlyRejected(o) /\ BounceOff(o)
    <3>1. /\ UNCHANGED <<money, job, rem>>
          /\ ledger' = [ledger EXCEPT ![o.id] = NoReserve]
      BY <1>1, <1>2, <2>2, BounceIs DEF money
    <3>2. NoReserve \in Reserve
      BY DEF NoReserve, Reserve
    <3>3. ledger' \in [AllIds -> Reserve]
      BY <3>1, <3>2 DEF EInv, TypeOK
    <3>4. JobCloses'
      BY <1>1, <3>1 DEF JobCloses
    <3> QED BY <3>1, <3>3, <3>4 DEF EInv, TypeOK, UsersSolvent, money
  <2> QED BY <2>1, <2>2 DEF PlaceOrder
<1>5. TypeOK'
  BY <1>1, <1>3, <1>4 DEF EInv, TypeOK, feeds, totals
<1> QED BY <1>1, <1>4, <1>5 DEF EInv, BooksSound, Gone

(* A trigger due in the round in progress is one of its market's, and the   *)
(* child placed for it is an order like a client's.                         *)
LEMMA ChildIncoming ==
    ASSUME EInv, NEW t \in Due, FireTrigger(t)
    PROVE  /\ loop \in Loop /\ job = NoJob
           /\ t \in TriggerType
           /\ ChildOrder(t).px > 0 => Incoming(ChildOrder(t))
<1>1. loop \in Loop /\ job = NoJob /\ loop.kind = "fire"
  BY LoopingIs DEF FireTrigger, Looping
<1>2. loop.m \in Markets /\ loop.mark \in Nat
  BY <1>1 DEF Loop
<1>3. t \in TriggerType
  BY <1>2 DEF Due, EInv, TypeOK
<1>4. /\ t.m \in Markets /\ t.id \in TriggerIds /\ t.owner \in Users
      /\ t.side \in Sides /\ t.qty \in Nat \ {0} /\ t.limit \in Nat
      /\ t.reduceOnly \in BOOLEAN
  BY <1>3 DEF TriggerType
<1>5. ASSUME ChildOrder(t).px > 0
      PROVE  Incoming(ChildOrder(t))
  <2> DEFINE o == ChildOrder(t)
             idx == IF index[t.m] # 0 THEN index[t.m] ELSE loop.mark
  <2>1. idx \in Nat
    BY <1>2, <1>4 DEF EInv, TypeOK
  <2> HIDE DEF idx
  <2>2. (idx * 105) \div 100 \in Nat /\ (idx * 95) \div 100 \in Nat
    BY <2>1
  <2>3. /\ o.m = t.m /\ o.id = t.id /\ o.owner = t.owner /\ o.side = t.side
        /\ o.qty = t.qty /\ o.tif \in Tifs /\ o.reduceOnly = t.reduceOnly
        /\ o.px \in {t.limit, (idx * 105) \div 100, (idx * 95) \div 100}
    BY DEF ChildOrder, Tifs, idx
  <2>4. o.px \in Nat \ {0}
    BY <1>4, <1>5, <2>2, <2>3
  <2> QED BY <1>4, <2>3, <2>4 DEF Incoming, AllIds
<1> QED BY <1>1, <1>3, <1>5

(* A trigger fires; its child enters or is rejected.                        *)
LEMMA FireKeeps ==
    ASSUME EInv, NEW t \in Due, FireTrigger(t)
    PROVE  EInv'
<1>1. /\ UNCHANGED <<seq, lastNonce, pos, book, feeds, mark, totals>>
      /\ loop' = [loop EXCEPT !.last = t.id, !.hit = TRUE]
      /\ triggers' = [triggers EXCEPT ![t.m] = @ \ {t}]
  BY DEF FireTrigger
<1>2. loop \in Loop /\ job = NoJob /\ t \in TriggerType
  BY ChildIncoming
<1>5. t.m \in Markets /\ t.id \in Nat
  BY <1>2, EngineAssumption DEF TriggerType
<1>6. loop' \in Loop
  BY <1>1, <1>2, <1>5 DEF Loop
<1>7. triggers' \in [Markets -> SUBSET TriggerType]
  <2>1. triggers \in [Markets -> SUBSET TriggerType]
        /\ triggers[t.m] \ {t} \in SUBSET TriggerType
    BY <1>5 DEF EInv, TypeOK
  <2> QED BY <1>1, <2>1
<1>8. ASSUME ChildOrder(t).px > 0
      PROVE  Incoming(ChildOrder(t))
  BY <1>8, ChildIncoming
<1>9. /\ job' \in Job \cup {NoJob}
      /\ rem' \in Nat
      /\ free' \in [Accounts -> Int]
      /\ reserved' \in [Accounts -> Int]
      /\ ledger' \in [AllIds -> Reserve]
      /\ fees' = fees /\ dust' = dust
      /\ UsersSolvent'
      /\ JobCloses'
  <2>1. CASE ChildOrder(t).px > 0 /\ Acceptable(ChildOrder(t))
    <3>1. Enter(ChildOrder(t))
      BY <2>1 DEF FireTrigger
    <3> QED BY <1>1, <1>8, <2>1, <3>1, EnterKeeps
  <2>2. CASE UNCHANGED <<money, ledger, job, rem>>
    BY <1>1, <1>2, <2>2 DEF EInv, TypeOK, UsersSolvent, JobCloses, money
  <2> QED BY <2>1, <2>2 DEF FireTrigger
<1>10. TypeOK'
  BY <1>1, <1>6, <1>7, <1>9 DEF EInv, TypeOK, feeds, totals
<1> QED BY <1>1, <1>9, <1>10 DEF EInv, BooksSound, Gone

(* A liquidation starts with the whole position to close.                   *)
LEMMA LiquidateKeeps ==
    ASSUME EInv, NEW u \in Users, Liquidate(u)
    PROVE  EInv'
<1> DEFINE p == pos[loop.m][u]
<1>1. /\ UNCHANGED <<seq, money, lastNonce, pos, ledger, book, triggers, feeds, mark,
                     totals>>
      /\ rem' = p.qty
      /\ loop' = [loop EXCEPT !.last = u, !.hit = TRUE]
      /\ job' = [m |-> loop.m, id |-> NoId, owner |-> u, side |-> Opposite(p.side),
                 px |-> AnyPrice(Opposite(p.side)), qty |-> p.qty,
                 tif |-> "IOC", liq |-> TRUE, mark |-> mark[loop.m]]
  BY DEF Liquidate
<1>2. loop \in Loop /\ loop.m \in Markets
  BY LoopingIs DEF Liquidate, Loop
<1>3. p \in Position /\ mark[loop.m] \in Nat
  BY <1>2, FundIsNoUser DEF EInv, TypeOK
<1>4. p.side \in Sides /\ p.qty \in Nat /\ p.qty > 0
  BY <1>3 DEF Position, Liquidate, UnderMargin, Liquidatable, isLiquidatable
<1> HIDE DEF p
<1>5. loop' \in Loop
  <2>1. u \in Nat
    BY EngineAssumption
  <2> QED BY <1>1, <1>2, <2>1 DEF Loop
<1>6. job' \in Job
  <2>1. AnyPrice(Opposite(p.side)) \in Nat \ {0}
    BY SMT DEF AnyPrice
  <2>2. Opposite(p.side) \in Sides
    BY DEF Opposite, Sides
  <2> QED BY <1>1, <1>2, <1>3, <1>4, <2>1, <2>2 DEF Job, Tifs, NoId
<1>7. TypeOK'
  BY <1>1, <1>4, <1>5, <1>6 DEF EInv, TypeOK, money, feeds, totals
<1>8. JobCloses'
  BY <1>1, <1>4 DEF JobCloses, Opposite, Sides, p
<1> QED BY <1>1, <1>7, <1>8 DEF EInv, UsersSolvent, BooksSound, Gone, money
-----------------------------------------------------------------------------
\* Orders in the book.

(* What the invariant says of the order in flight.                          *)
LEMMA JobIs == ASSUME EInv, job # NoJob
               PROVE  /\ job \in Job
                      /\ job.m \in Markets /\ job.owner \in Users
                      /\ job.owner \in Accounts /\ job.side \in Sides
                      /\ job.px \in Nat \ {0} /\ job.qty \in Nat \ {0}
                      /\ job.mark \in Nat /\ rem \in Nat
                      /\ pos[job.m][job.owner] \in Position
                      /\ pos[job.m][job.owner].qty \in Nat
<1>1. job \in Job /\ rem \in Nat
  BY DEF EInv, TypeOK
<1> QED BY <1>1, FundIsNoUser DEF EInv, TypeOK, Job, Position

(* What self-trade prevention, a pulled order and a cancel have in common.  *)
LEMMA RemovalKeeps ==
    ASSUME EInv, NEW m \in Markets, NEW u \in Users, NEW i \in DOMAIN book[m],
           Release(u, book[m][i].id),
           book' = [book EXCEPT ![m] = Without(@, i)],
           UNCHANGED <<lastNonce, pos, triggers, feeds, mark, totals, job, rem, loop>>,
           seq' \in Nat
    PROVE  EInv'
<1>1. book[m] \in Seq(RestingOrder) /\ book[m][i].id \in AllIds
  BY BookShape
<1>2. /\ Without(book[m], i) \in Seq(RestingOrder)
      /\ \E h : Thinned(Without(book[m], i), book[m], h)
  BY <1>1, WithoutThins
<1>3. book' = [book EXCEPT ![m] = Without(book[m], i)]
  OBVIOUS
<1>4. /\ book' \in [Markets -> Seq(RestingOrder)]
      /\ BooksSound'
      /\ \A n \in Markets : RestingIds(book'[n]) \subseteq RestingIds(book[n])
  BY <1>2, <1>3, ThinnedBooks
<1>5. /\ free' \in [Accounts -> Int]
      /\ reserved' \in [Accounts -> Int]
      /\ ledger' \in [AllIds -> Reserve]
      /\ fees' = fees /\ dust' = dust
      /\ UsersSolvent'
  BY <1>1, ReleaseKeeps
<1>6. TypeOK'
  BY <1>4, <1>5 DEF EInv, TypeOK, feeds, totals
<1>7. Gone'
  BY DEF EInv, Gone
<1>8. JobCloses'
  <2>1. CASE job = NoJob
    BY <2>1 DEF JobCloses
  <2>2. CASE job # NoJob
    <3>1. RestingIds(book'[job.m]) \subseteq RestingIds(book[job.m])
      BY <1>4, <2>2, JobIs
    <3> QED BY <2>2, <3>1 DEF EInv, JobCloses
  <2> QED BY <2>1, <2>2
<1> QED BY <1>4, <1>5, <1>6, <1>7, <1>8 DEF EInv

(* Self-trade prevention, and the orders a liquidation pulls.               *)
LEMMA MatchOwnKeeps ==
    ASSUME EInv, NEW i \in DOMAIN book[job.m], MatchOwn(i) \/ PullOrder(i)
    PROVE  EInv'
<1>1. job # NoJob
  BY DEF MatchOwn, PullOrder, Meets
<1>2. /\ Release(job.owner, book[job.m][i].id)
      /\ book' = [book EXCEPT ![job.m] = Without(@, i)]
      /\ UNCHANGED <<lastNonce, pos, triggers, feeds, mark, totals, job, rem, loop>>
      /\ seq' = seq
  BY DEF MatchOwn, PullOrder
<1>3. seq' \in Nat
  BY <1>2 DEF EInv, TypeOK
<1> QED BY <1>1, <1>2, <1>3, JobIs, RemovalKeeps

(* A client's cancel.                                                       *)
LEMMA CancelKeeps ==
    ASSUME EInv, NEW u \in Users, NEW m \in Markets, NEW id \in AllIds,
           CancelOrder(u, m, id)
    PROVE  EInv'
<1>1. PICK i \in DOMAIN book[m] : /\ book[m][i].id = id
                                  /\ book' = [book EXCEPT ![m] = Without(@, i)]
  BY DEF CancelOrder
<1>2. /\ Release(u, id)
      /\ UNCHANGED <<lastNonce, pos, triggers, feeds, mark, totals, job, rem, loop>>
      /\ seq' = seq + 1
  BY DEF CancelOrder, Command
<1>3. seq' \in Nat
  BY <1>2 DEF EInv, TypeOK
<1> QED BY <1>1, <1>2, <1>3, RemovalKeeps

(* A fill settles the maker's side first, then the taker's, with what it     *)
(* draws from either reservation.                                           *)
LEMMA FillIs ==
    ASSUME EInv, NEW i \in DOMAIN book[job.m], MatchFill(i)
    PROVE  \E q \in Nat \ {0}, c, f, d, g \in Nat : \E w, v :
             /\ q <= rem /\ q <= book[job.m][i].rem
             /\ rem' = rem - q
             /\ book' = [book EXCEPT ![job.m] = Consume(book[job.m], i, q)]
             /\ ledger' \in [AllIds -> Reserve]
             /\ w = ApplyFill(World(job.m), book[job.m][i].owner,
                              Opposite(job.side), book[job.m][i].px, q, c, f)
             /\ v = ApplyFill(w, job.owner, job.side, book[job.m][i].px, q, d, g)
             /\ SetWorld(job.m, v)
<1> DEFINE o == book[job.m][i]
           q == bigmin(rem, o.rem)
           t == IF job.liq THEN NoReserve ELSE Drawn(ledger[job.id], q)
           l == IF job.liq THEN ledger ELSE Draw(ledger, job.id, q)
           d == Drawn(l[o.id], q)
           w == ApplyFill(World(job.m), o.owner, Opposite(job.side), o.px, q,
                          d.col, d.fee)
           v == ApplyFill(w, job.owner, job.side, o.px, q, t.col, t.fee)
<1>1. /\ job # NoJob /\ rem > 0
      /\ SetWorld(job.m, v)
      /\ ledger' = Draw(l, o.id, q)
      /\ book' = [book EXCEPT ![job.m] = Consume(@, i, q)]
      /\ rem' = rem - q
  BY DEF MatchFill, Meets
<1>2. job.m \in Markets /\ rem \in Nat /\ (~job.liq => job.id \in AllIds)
  BY <1>1, JobIs DEF EInv, JobCloses
<1>3. o.id \in AllIds /\ o.rem \in Nat \ {0}
  BY <1>2, BookShape
<1>4. q \in Nat \ {0} /\ q <= rem /\ q <= o.rem
  <2>1. \A x, y \in Nat \ {0} : /\ bigmin(x, y) \in Nat \ {0}
                                /\ bigmin(x, y) <= x /\ bigmin(x, y) <= y
    BY DEF bigmin
  <2> HIDE DEF o
  <2> QED BY <1>1, <1>2, <1>3, <2>1
<1> HIDE DEF q
<1>5. ledger \in [AllIds -> Reserve]
  BY DEF EInv, TypeOK
<1>6. l \in [AllIds -> Reserve] /\ t.col \in Nat /\ t.fee \in Nat
  <2>1. CASE job.liq
    BY <1>5, <2>1 DEF NoReserve
  <2>2. CASE ~job.liq
    BY <1>2, <1>4, <1>5, <2>2, DrawKeeps
  <2> QED BY <2>1, <2>2
<1> HIDE DEF l, t
<1>7. ledger' \in [AllIds -> Reserve] /\ d.col \in Nat /\ d.fee \in Nat
  BY <1>1, <1>3, <1>4, <1>6, DrawKeeps
<1> HIDE DEF d
<1>8. /\ w = ApplyFill(World(job.m), o.owner, Opposite(job.side), o.px, q,
                       d.col, d.fee)
      /\ v = ApplyFill(w, job.owner, job.side, o.px, q, t.col, t.fee)
  OBVIOUS
<1> HIDE DEF w, v
<1> QED BY <1>1, <1>4, <1>6, <1>7, <1>8

(* What a fill does to the positions: the maker's leaves the taker's alone. *)
LEMMA FillSettles ==
    ASSUME EInv, NEW i \in DOMAIN book[job.m], MatchFill(i)
    PROVE  \E q \in Nat \ {0} : \E w, v :
             /\ q <= rem /\ q <= book[job.m][i].rem
             /\ rem' = rem - q
             /\ book' = [book EXCEPT ![job.m] = Consume(book[job.m], i, q)]
             /\ ledger' \in [AllIds -> Reserve]
             /\ IsWorld(w) /\ w.pos[job.owner] = pos[job.m][job.owner]
             /\ IsWorld(v) /\ Settled(v, w, job.owner, job.side, q)
             /\ \A a \in Users : v.free[a] >= free[a]
             /\ SetWorld(job.m, v)
<1> DEFINE o == book[job.m][i]
<1>1. job # NoJob /\ o.owner # job.owner
  BY DEF MatchFill, Meets
<1>2. /\ job.m \in Markets /\ job.owner \in Users /\ job.owner \in Accounts
      /\ job.side \in Sides
  BY <1>1, JobIs
<1>3. o.owner \in Users /\ o.owner \in Accounts /\ o.px \in Nat
  BY <1>2, BookShape, FundIsNoUser
<1> HIDE DEF o
<1>4. PICK q \in Nat \ {0}, c, f, d, g \in Nat : \E w, v :
        /\ q <= rem /\ q <= o.rem
        /\ rem' = rem - q
        /\ book' = [book EXCEPT ![job.m] = Consume(book[job.m], i, q)]
        /\ ledger' \in [AllIds -> Reserve]
        /\ w = ApplyFill(World(job.m), o.owner, Opposite(job.side), o.px, q, c, f)
        /\ v = ApplyFill(w, job.owner, job.side, o.px, q, d, g)
        /\ SetWorld(job.m, v)
  BY FillIs DEF o
<1>5. PICK w, v :
        /\ q <= rem /\ q <= o.rem
        /\ rem' = rem - q
        /\ book' = [book EXCEPT ![job.m] = Consume(book[job.m], i, q)]
        /\ ledger' \in [AllIds -> Reserve]
        /\ w = ApplyFill(World(job.m), o.owner, Opposite(job.side), o.px, q, c, f)
        /\ v = ApplyFill(w, job.owner, job.side, o.px, q, d, g)
        /\ SetWorld(job.m, v)
  BY <1>4
<1>6. IsWorld(World(job.m))
  BY <1>2, WorldOK
<1>7. Opposite(job.side) \in Sides
  BY <1>2 DEF Opposite, Sides
<1>8. IsWorld(w) /\ Settled(w, World(job.m), o.owner, Opposite(job.side), q)
  BY <1>3, <1>5, <1>6, <1>7, ApplyFillSettles
<1>9. IsWorld(v) /\ Settled(v, w, job.owner, job.side, q)
  BY <1>2, <1>3, <1>5, <1>8, ApplyFillSettles
<1>10. /\ w.pos[job.owner] = pos[job.m][job.owner]
       /\ \A a \in Users : w.free[a] >= free[a]
  BY <1>1, <1>2, <1>8 DEF Settled, World
<1>11. \A a \in Users : v.free[a] >= free[a]
  <2>1. \A a \in Users : /\ v.free[a] >= w.free[a]
                         /\ v.free[a] \in Int /\ w.free[a] \in Int /\ free[a] \in Int
    BY <1>8, <1>9, FundIsNoUser DEF Settled, IsWorld, EInv, TypeOK
  <2> QED BY <1>10, <2>1
<1> QED BY <1>5, <1>8, <1>9, <1>10, <1>11 DEF o

(* A fill of q leaves an IOC no larger than what it closes, and a           *)
(* liquidation exactly as large; it flips neither.                          *)
LEMMA FillCloses ==
    ASSUME EInv, job # NoJob, NEW w, NEW v, IsWorld(w), IsWorld(v),
           w.pos[job.owner] = pos[job.m][job.owner],
           NEW q \in Nat \ {0}, q <= rem, Settled(v, w, job.owner, job.side, q)
    PROVE  LET p == pos[job.m][job.owner]
               r == v.pos[job.owner]
           IN /\ job.liq => r.qty = rem - q /\ (rem - q > 0 => r.side # job.side)
              /\ job.tif = "IOC" /\ r.side # job.side /\ r.qty > 0 => rem - q <= r.qty
              /\ job.tif = "IOC" /\ p.qty > 0 /\ r.qty > 0 => r.side = p.side
<1> DEFINE p == pos[job.m][job.owner]
           r == v.pos[job.owner]
<1>1. /\ p \in Position /\ p.qty \in Nat /\ p.side \in Sides
      /\ r \in Position /\ r.qty \in Nat /\ r.side \in Sides
      /\ rem \in Nat /\ job.side \in Sides
  BY JobIs DEF Position, IsWorld
<1>2. /\ job.liq => job.tif = "IOC" /\ p.qty = rem /\ (rem > 0 => p.side # job.side)
      /\ job.tif = "IOC" /\ p.side # job.side /\ p.qty > 0 => rem <= p.qty
  BY DEF EInv, JobCloses
<1>3. IF p.side # job.side /\ p.qty > 0
      THEN IF q <= p.qty THEN r.qty = p.qty - q /\ (q < p.qty => r.side = p.side)
           ELSE r.qty = q - p.qty /\ r.side = job.side
      ELSE r.qty = p.qty + q /\ r.side = job.side
  BY DEF Settled
<1> HIDE DEF p, r
<1>4. CASE p.side # job.side /\ p.qty > 0
  BY <1>1, <1>2, <1>3, <1>4 DEF p, r
<1>5. CASE ~(p.side # job.side /\ p.qty > 0)
  BY <1>1, <1>2, <1>3, <1>5 DEF p, r
<1> QED BY <1>4, <1>5

(* A fill keeps the invariant and does not flip the position an IOC meets.  *)
LEMMA MatchFillKeeps ==
    ASSUME EInv, NEW i \in DOMAIN book[job.m], MatchFill(i)
    PROVE  /\ EInv'
           /\ LET p == pos[job.m][job.owner]
                  r == pos'[job.m][job.owner]
              IN job.tif = "IOC" /\ p.qty > 0 /\ r.qty > 0 => r.side = p.side
<1>1. /\ UNCHANGED <<seq, lastNonce, triggers, feeds, totals, job, loop>>
      /\ mark' = [mark EXCEPT ![job.m] = book[job.m][i].px]
      /\ job # NoJob
  BY DEF MatchFill, Meets
<1>fill. PICK q \in Nat \ {0} :
        \E w, v :
          /\ q <= rem /\ q <= book[job.m][i].rem
          /\ rem' = rem - q
          /\ book' = [book EXCEPT ![job.m] = Consume(book[job.m], i, q)]
          /\ ledger' \in [AllIds -> Reserve]
          /\ IsWorld(w) /\ w.pos[job.owner] = pos[job.m][job.owner]
          /\ IsWorld(v) /\ Settled(v, w, job.owner, job.side, q)
          /\ \A a \in Users : v.free[a] >= free[a]
          /\ SetWorld(job.m, v)
  BY FillSettles
<1>2. PICK w, v :
        /\ q <= rem /\ q <= book[job.m][i].rem
        /\ rem' = rem - q
        /\ book' = [book EXCEPT ![job.m] = Consume(book[job.m], i, q)]
        /\ ledger' \in [AllIds -> Reserve]
        /\ IsWorld(w) /\ w.pos[job.owner] = pos[job.m][job.owner]
        /\ IsWorld(v) /\ Settled(v, w, job.owner, job.side, q)
        /\ \A a \in Users : v.free[a] >= free[a]
        /\ SetWorld(job.m, v)
  BY <1>fill
<1>3. job.m \in Markets /\ job.owner \in Accounts /\ rem \in Nat
  BY <1>1, JobIs
<1>4. /\ book[job.m] \in Seq(RestingOf(AllIds, Users, Nat \ {0}))
      /\ book[job.m][i].px \in Nat
  BY <1>3, BookShape
<1>5. /\ Consume(book[job.m], i, q) \in Seq(RestingOrder)
      /\ \E h : Thinned(Consume(book[job.m], i, q), book[job.m], h)
  BY <1>2, <1>4, ConsumeThins, RestingOrderIs
<1>6. /\ book' \in [Markets -> Seq(RestingOrder)]
      /\ BooksSound'
      /\ \A n \in Markets : RestingIds(book'[n]) \subseteq RestingIds(book[n])
  BY <1>2, <1>3, <1>5, ThinnedBooks
<1>7. /\ free' \in [Accounts -> Int]
      /\ reserved' \in [Accounts -> Int]
      /\ fees' \in Nat /\ dust' \in Int
      /\ pos' \in [Markets -> [Accounts -> Position]]
      /\ pos'[job.m] = v.pos
      /\ Gone'
  BY <1>2, <1>3, SetWorldKeeps
<1>8. mark' \in [Markets -> Nat] /\ rem' \in Nat
  BY <1>1, <1>2, <1>3, <1>4 DEF EInv, TypeOK
<1>9. TypeOK'
  BY <1>1, <1>2, <1>6, <1>7, <1>8 DEF EInv, TypeOK, feeds, totals
<1>10. UsersSolvent'
  <2>1. free' = v.free
    BY <1>2 DEF SetWorld
  <2>2. \A a \in Users : free[a] >= 0 /\ free[a] \in Int /\ free'[a] \in Int
    BY <1>7, FundIsNoUser DEF EInv, TypeOK, UsersSolvent
  <2> QED BY <1>2, <2>1, <2>2 DEF UsersSolvent
<1>11. LET p == pos[job.m][job.owner]
           r == v.pos[job.owner]
       IN /\ job.liq => r.qty = rem - q /\ (rem - q > 0 => r.side # job.side)
          /\ job.tif = "IOC" /\ r.side # job.side /\ r.qty > 0 => rem - q <= r.qty
          /\ job.tif = "IOC" /\ p.qty > 0 /\ r.qty > 0 => r.side = p.side
  BY <1>1, <1>2, FillCloses
<1>12. JobCloses'
  <2>1. /\ ~job.liq => job.id \in AllIds /\ job.id \notin RestingIds(book[job.m])
        /\ job.liq => job.tif = "IOC"
    BY <1>1 DEF EInv, JobCloses
  <2>2. RestingIds(book'[job.m]) \subseteq RestingIds(book[job.m])
    BY <1>3, <1>6
  <2> QED BY <1>1, <1>2, <1>7, <1>11, <2>1, <2>2 DEF JobCloses
<1> QED BY <1>6, <1>7, <1>9, <1>10, <1>11, <1>12 DEF EInv

(* The remainder comes to rest only where it crosses nothing.               *)
LEMMA EndOrderKeeps ==
    ASSUME EInv, EndOrder
    PROVE  EInv'
<1> DEFINE b == book[job.m]
           e == [id |-> job.id, owner |-> job.owner, side |-> job.side,
                 px |-> job.px, rem |-> rem, seq |-> seq]
<1>1. /\ UNCHANGED <<seq, lastNonce, pos, triggers, feeds, mark, totals, loop>>
      /\ job # NoJob /\ ~job.liq /\ job' = NoJob /\ rem' = 0
      /\ Matched
  BY DEF EndOrder
<1>2. /\ job.m \in Markets /\ job.owner \in Users /\ job.side \in Sides
      /\ job.px \in Nat \ {0} /\ rem \in Nat /\ seq \in Nat
      /\ job.id \in AllIds /\ job.id \notin RestingIds(b)
  BY <1>1, JobIs DEF EInv, JobCloses, TypeOK
<1>3. CASE rem > 0 /\ job.tif # "IOC"
  <2>1. /\ book' = [book EXCEPT ![job.m] = Append(b, e)]
        /\ UNCHANGED <<money, ledger>>
    BY <1>3 DEF EndOrder, RestOrder
  <2>2. ~CanMatch(b, job.side, job.px)
    BY <1>1, <1>2, <1>3 DEF Matched
  <2>3. e \in RestingOf(AllIds, Users, Nat \ {0})
    BY <1>2, <1>3 DEF RestingOf
  <2>4. /\ b \in Seq(RestingOf(AllIds, Users, Nat \ {0}))
        /\ Uncrossed(b) /\ UniqueIds(b)
    BY <1>2, BookShape
  <2>5. e.id = job.id /\ e.side = job.side /\ e.px = job.px
    OBVIOUS
  <2> HIDE DEF e, b
  <2>6. /\ Append(b, e) \in Seq(RestingOrder)
        /\ Uncrossed(Append(b, e)) /\ UniqueIds(Append(b, e))
    <3>1. Nat \ {0} \in SUBSET Int
      OBVIOUS
    <3> QED BY <1>2, <2>2, <2>3, <2>4, <2>5, <3>1, RestSound, RestingOrderIs
  <2>7. book \in [Markets -> Seq(RestingOrder)]
    BY DEF EInv, TypeOK
  <2>8. book' \in [Markets -> Seq(RestingOrder)] /\ BooksSound'
    BY <1>2, <2>1, <2>6, <2>7 DEF EInv, BooksSound
  <2>9. TypeOK'
    BY <1>1, <2>1, <2>8 DEF EInv, TypeOK, feeds, totals, money
  <2> QED BY <1>1, <2>1, <2>8, <2>9 DEF EInv, UsersSolvent, Gone, JobCloses, money
<1>4. CASE ~(rem > 0 /\ job.tif # "IOC")
  <2>1. Release(job.owner, job.id) /\ UNCHANGED book
    BY <1>4 DEF EndOrder
  <2>2. /\ free' \in [Accounts -> Int]
        /\ reserved' \in [Accounts -> Int]
        /\ ledger' \in [AllIds -> Reserve]
        /\ fees' = fees /\ dust' = dust
        /\ UsersSolvent'
    BY <1>2, <2>1, ReleaseKeeps
  <2>3. TypeOK'
    BY <1>1, <2>1, <2>2 DEF EInv, TypeOK, feeds, totals
  <2> QED BY <1>1, <2>1, <2>2, <2>3 DEF EInv, BooksSound, Gone, JobCloses
<1> QED BY <1>3, <1>4

(* After the backstop the owner of a liquidated position holds nothing, has *)
(* lost no free balance, and its position has not changed side on the way.  *)
LEMMA BackstopSettles ==
    ASSUME EInv, job # NoJob, job.liq
    PROVE  /\ IsWorld(Backstop)
           /\ Backstop.pos[job.owner] = Flat
           /\ \A a \in Users : Backstop.free[a] >= free[a]
<1> DEFINE col == collateralRequired(notionalUsd(rem, job.mark), Params,
                     [gap |-> gap[job.m], mult |-> CoeffScale, tier |-> "C"])
           w == [World(job.m) EXCEPT !.free[Fund] = @ - col, !.reserved[Fund] = @ + col]
           v == ApplyFill(w, job.owner, job.side, job.mark, rem, 0, 0)
           x == ApplyFill(v, Fund, Opposite(job.side), job.mark, rem, col, 0)
<1>1. /\ job.m \in Markets /\ job.owner \in Users /\ job.owner \in Accounts
      /\ job.side \in Sides /\ job.mark \in Nat /\ rem \in Nat
  BY JobIs
<1>2. /\ pos[job.m][job.owner].qty = rem
      /\ rem > 0 => pos[job.m][job.owner].side # job.side
  BY DEF EInv, JobCloses
<1>3. IsWorld(World(job.m))
  BY <1>1, WorldOK
<1>4. World(job.m).free = free /\ World(job.m).pos = pos[job.m]
  BY DEF World
<1>5. free \in [Accounts -> Int] /\ \A a \in Users : a \in Accounts /\ a # Fund
  BY FundIsNoUser DEF EInv, TypeOK
<1>6. CASE rem = 0
  <2>1. Backstop = World(job.m)
    BY <1>6 DEF Backstop
  <2>2. pos[job.m][job.owner] = Flat
    BY <1>1, <1>2, <1>6 DEF EInv, Gone, PosOK
  <2> QED BY <1>3, <1>4, <1>5, <2>1, <2>2
<1>7. CASE rem # 0
  <2>1. rem \in Nat \ {0} /\ Opposite(job.side) \in Sides
    BY <1>1, <1>7 DEF Opposite, Sides
  <2>2. col \in Nat
    <3>1. notionalUsd(rem, job.mark) \in Nat
      BY <1>1, NotionalNat
    <3>2. [gap |-> gap[job.m], mult |-> CoeffScale, tier |-> "C"] \in RiskCoeffs
      BY <1>1, ScaleAssumption DEF RiskCoeffs, TierCodes, EInv, TypeOK
    <3> QED BY <3>1, <3>2, RequiredNat, EngineAssumption
  <2>3. Backstop = x
    BY <1>7 DEF Backstop
  <2> DEFINE fr == [free EXCEPT ![Fund] = @ - col]
             rs == [reserved EXCEPT ![Fund] = @ + col]
  <2> HIDE DEF col
  <2>4. w = [free |-> fr, reserved |-> rs, fees |-> fees, dust |-> dust,
             pos |-> pos[job.m]]
    <3> DEFINE y == World(job.m)
    <3>1. y = [free |-> free, reserved |-> reserved, fees |-> fees, dust |-> dust,
               pos |-> pos[job.m]]
      BY DEF World
    <3>2. w = [y EXCEPT !.free = [y.free EXCEPT ![Fund] = @ - col],
                        !.reserved = [y.reserved EXCEPT ![Fund] = @ + col]]
      OBVIOUS
    <3> HIDE DEF w, y
    <3> QED BY <3>1, <3>2
  <2> HIDE DEF w
  <2>5. /\ fr \in [Accounts -> Int] /\ rs \in [Accounts -> Int]
        /\ \A a \in Users : fr[a] = free[a]
    BY <1>5, <2>2, FundIsNoUser DEF EInv, TypeOK
  <2> HIDE DEF fr, rs
  <2>6. /\ fees \in Nat /\ dust \in Int /\ pos[job.m] \in [Accounts -> Position]
        /\ \A a \in Accounts : PosOK(pos[job.m][a])
    BY <1>1 DEF EInv, TypeOK, Gone
  <2>7. IsWorld(w)
    BY <2>4, <2>5, <2>6 DEF IsWorld
  <2>8. IsWorld(v) /\ Settled(v, w, job.owner, job.side, rem)
    <3>1. 0 \in Nat
      OBVIOUS
    <3> QED BY <1>1, <2>1, <2>7, <3>1, ApplyFillSettles
  <2> HIDE DEF v
  <2>9. IsWorld(x) /\ Settled(x, v, Fund, Opposite(job.side), rem)
    <3>1. 0 \in Nat
      OBVIOUS
    <3> QED BY <1>1, <2>1, <2>2, <2>8, <3>1, FundIsNoUser, ApplyFillSettles
  <2> HIDE DEF x
  <2>10. x.pos[job.owner] = Flat
    <3>1. w.pos[job.owner] = pos[job.m][job.owner]
      BY <2>4
    <3>2. v.pos[job.owner].qty = 0
      BY <1>1, <1>2, <2>1, <2>8, <3>1 DEF Settled
    <3>3. v.pos[job.owner] = Flat
      BY <1>1, <2>8, <3>2 DEF IsWorld, PosOK
    <3> QED BY <1>1, <1>5, <2>9, <3>3 DEF Settled
  <2>11. \A a \in Users : x.free[a] >= free[a]
    <3>1. \A a \in Users : /\ x.free[a] >= v.free[a] /\ v.free[a] >= w.free[a]
                           /\ w.free[a] = free[a]
      BY <2>4, <2>5, <2>8, <2>9 DEF Settled
    <3>2. \A a \in Users : x.free[a] \in Int /\ v.free[a] \in Int /\ free[a] \in Int
      BY <1>5, <2>8, <2>9 DEF IsWorld
    <3> QED BY <3>1, <3>2
  <2> QED BY <2>3, <2>9, <2>10, <2>11
<1> QED BY <1>6, <1>7

(* The end of a liquidation: the owner is flat and keeps no order here.     *)
LEMMA EndLiquidationKeeps ==
    ASSUME EInv, EndLiquidation
    PROVE  /\ EInv'
           /\ pos'[job.m][job.owner] = Flat
           /\ \A i \in DOMAIN book'[job.m] : book'[job.m][i].owner # job.owner
<1> DEFINE w == Backstop
           paid == PenaltyPaid(w.free[job.owner])
           fr == [w.free EXCEPT ![job.owner] = @ - paid, ![Fund] = @ + paid]
           v == [w EXCEPT !.free = fr]
<1>1. /\ UNCHANGED <<seq, lastNonce, ledger, book, triggers, feeds, totals, loop>>
      /\ job # NoJob /\ job.liq /\ job' = NoJob /\ rem' = 0
      /\ mark' = IF rem = 0 THEN mark ELSE [mark EXCEPT ![job.m] = job.mark]
      /\ \A i \in DOMAIN book[job.m] : book[job.m][i].owner # job.owner
      /\ SetWorld(job.m, v)
  BY DEF EndLiquidation
<1>2. /\ job.m \in Markets /\ job.owner \in Users /\ job.owner \in Accounts
      /\ job.mark \in Nat /\ job.qty \in Nat
  BY <1>1, JobIs
<1>3. /\ IsWorld(w) /\ w.pos[job.owner] = Flat
      /\ \A a \in Users : w.free[a] >= free[a]
  BY <1>1, BackstopSettles
<1> HIDE DEF w
<1>4. /\ w.free \in [Accounts -> Int]
      /\ \A a \in Users : /\ a \in Accounts /\ a # Fund
                          /\ free[a] \in Int /\ free[a] >= 0 /\ w.free[a] >= 0
  <2>1. \A a \in Users : a \in Accounts /\ a # Fund /\ free[a] \in Int /\ free[a] >= 0
    BY FundIsNoUser DEF EInv, TypeOK, UsersSolvent
  <2>2. w.free \in [Accounts -> Int]
    BY <1>3 DEF IsWorld
  <2>3. \A a \in Users : w.free[a] \in Int /\ w.free[a] >= 0
    BY <1>3, <2>1, <2>2
  <2> QED BY <2>1, <2>2, <2>3
<1>5. paid \in Nat /\ paid <= w.free[job.owner]
  <2> DEFINE n == applyBps(notionalUsd(job.qty, job.mark), Params.liqPenaltyBps)
  <2>1. notionalUsd(job.qty, job.mark) \in Nat /\ Params.liqPenaltyBps \in Nat
    BY <1>2, NotionalNat, EngineAssumption DEF ParamsType
  <2>2. n \in Nat
    BY <2>1, ProductNat, DivNat DEF applyBps, BPS
  <2>3. paid = bigmin(n, bigmax(0, w.free[job.owner]))
    BY DEF PenaltyPaid
  <2> HIDE DEF n, paid
  <2> QED BY <1>2, <1>4, <2>2, <2>3 DEF bigmin, bigmax
<1> HIDE DEF paid
<1>6. /\ fr \in [Accounts -> Int]
      /\ \A a \in Users : fr[a] >= 0
  BY <1>2, <1>4, <1>5, FundIsNoUser
<1> HIDE DEF fr
<1>7. v = [free |-> fr, reserved |-> w.reserved, fees |-> w.fees,
           dust |-> w.dust, pos |-> w.pos]
  BY <1>3 DEF IsWorld
<1> HIDE DEF v
<1>8. IsWorld(v) /\ v.pos = w.pos /\ v.free = fr
  BY <1>3, <1>6, <1>7 DEF IsWorld
<1>9. /\ free' \in [Accounts -> Int]
      /\ reserved' \in [Accounts -> Int]
      /\ fees' \in Nat /\ dust' \in Int
      /\ pos' \in [Markets -> [Accounts -> Position]]
      /\ pos'[job.m] = v.pos
      /\ Gone'
  BY <1>1, <1>2, <1>8, SetWorldKeeps
<1>10. mark' \in [Markets -> Nat]
  BY <1>1, <1>2 DEF EInv, TypeOK
<1>11. TypeOK'
  BY <1>1, <1>9, <1>10 DEF EInv, TypeOK, feeds, totals
<1>12. UsersSolvent'
  BY <1>1, <1>6, <1>8 DEF UsersSolvent, SetWorld
<1> QED BY <1>1, <1>3, <1>8, <1>9, <1>11, <1>12 DEF EInv, BooksSound, JobCloses
-----------------------------------------------------------------------------
(* The invariant holds of the venue before the first command.               *)
LEMMA InitKeeps == ASSUME Init PROVE EInv
<1>1. /\ [mult |-> CoeffScale, tier |-> "C"] \in TierType
      /\ Flat \in Position /\ PosOK(Flat)
      /\ NoReserve \in Reserve
  BY ScaleAssumption
  DEF TierType, TierCodes, Flat, Position, PosOK, NoReserve, Reserve, Sides
<1>2. << >> \in Seq(RestingOrder)
  OBVIOUS
<1>3. /\ Seeds \in [Accounts -> Nat] /\ OpenPrice \in [Markets -> Nat]
      /\ CoeffScale \in Nat
  BY EngineAssumption, ScaleAssumption
<1>4. /\ free \in [Accounts -> Int] /\ reserved \in [Accounts -> Int]
      /\ lastNonce \in [Accounts -> Int] /\ tier \in [Accounts -> TierType]
      /\ pos \in [Markets -> [Accounts -> Position]]
      /\ ledger \in [AllIds -> Reserve]
  BY <1>1, <1>3 DEF Init
<1>5. /\ book \in [Markets -> Seq(RestingOrder)]
      /\ triggers \in [Markets -> SUBSET TriggerType]
      /\ index \in [Markets -> Nat] /\ mark \in [Markets -> Nat]
      /\ gap \in [Markets -> Nat] /\ reduceOnly \in [Markets -> BOOLEAN]
  BY <1>2, <1>3 DEF Init
<1>6. TypeOK
  BY <1>4, <1>5 DEF Init, TypeOK
<1>7. UsersSolvent
  BY <1>3, FundIsNoUser DEF Init, UsersSolvent
<1>8. BooksSound
  <2>1. \A m \in Markets : book[m] = << >> /\ DOMAIN book[m] = {}
    BY DEF Init
  <2> QED BY <2>1 DEF BooksSound, Uncrossed, UniqueIds
<1>9. Gone /\ JobCloses
  BY <1>1 DEF Init, Gone, JobCloses
<1> QED BY <1>6, <1>7, <1>8, <1>9 DEF EInv

(* While an order is in flight nothing but matching happens.                *)
LEMMA InFlight == ASSUME Next, job # NoJob PROVE MatchStep
BY DEF Next, Accept, Step, LoopStep, Refuse, RefuseOrder, PlaceOrder, Deposit,
       Withdraw, CancelOrder, OracleTick, GapReading, ConfidenceReading,
       FundingTick, TierUpdate, PlaceTrigger, CancelTrigger, Command, Idle,
       FireTrigger, EndFireRound, Liquidate, EndScanRound, Looping

(* Every step keeps the invariant.                                          *)
LEMMA NextKeeps == ASSUME EInv, Next PROVE EInv'
<1>1. ASSUME Accept PROVE EInv'
  BY <1>1, PlaceKeeps, DepositKeeps, CancelKeeps, OracleTickKeeps, ReadingKeeps,
     FundingKeeps, TierKeeps, TriggersKeep
  DEF Accept
<1>2. ASSUME MatchStep PROVE EInv'
  BY <1>2, MatchOwnKeeps, MatchFillKeeps, EndOrderKeeps, EndLiquidationKeeps
  DEF MatchStep
<1>3. ASSUME LoopStep PROVE EInv'
  BY <1>3, FireKeeps, RoundsKeep, LiquidateKeeps DEF LoopStep
<1> QED BY <1>1, <1>2, <1>3, RefusalKeeps DEF Next, Step

(* So does a step that changes nothing.                                     *)
LEMMA StutterKeeps == ASSUME EInv, UNCHANGED vars PROVE EInv'
BY DEF EInv, TypeOK, UsersSolvent, BooksSound, Gone, JobCloses, vars, money, feeds,
       totals

(* The strengthened invariant holds initially and is kept by every step.    *)
THEOREM Inductive == Spec => []EInv
<1>1. Init => EInv
  BY InitKeeps
<1>2. EInv /\ [Next]_vars => EInv'
  BY NextKeeps, StutterKeeps
<1> QED BY <1>1, <1>2, PTL DEF Spec

(* Every variable keeps its declared type, whatever the orders, prices,     *)
(* parameters and readings: no reservation goes below zero.                 *)
THEOREM TypeCorrect == Spec => []TypeOK
<1>1. EInv => TypeOK
  BY DEF EInv
<1> QED BY <1>1, Inductive, PTL

(* No user's free balance ever goes below zero.                             *)
THEOREM NoUserOwes == Spec => []UsersSolvent
<1>1. EInv => UsersSolvent
  BY DEF EInv
<1> QED BY <1>1, Inductive, PTL

(* No market's book is ever crossed or holds an order twice.                *)
THEOREM BooksAlwaysSound == Spec => []BooksSound
<1>1. EInv => BooksSound
  BY DEF EInv
<1> QED BY <1>1, Inductive, PTL

(* Whatever the book offers and the fund holds, a liquidation ends with its *)
(* owner flat and without orders in that market.                            *)
THEOREM LiquidationsClose == Spec => LiquidationCloses
<1> DEFINE A == job # NoJob /\ job.liq /\ job' = NoJob =>
                  /\ pos'[job.m][job.owner] = Flat
                  /\ \A i \in DOMAIN book'[job.m] : book'[job.m][i].owner # job.owner
<1>1. EInv /\ [Next]_vars => [A]_vars
  <2> SUFFICES ASSUME EInv, Next, job # NoJob, job.liq, job' = NoJob
               PROVE  /\ pos'[job.m][job.owner] = Flat
                      /\ \A i \in DOMAIN book'[job.m] :
                            book'[job.m][i].owner # job.owner
    OBVIOUS
  <2>1. MatchStep
    BY InFlight
  <2>2. EndLiquidation
    BY <2>1 DEF MatchStep, MatchOwn, MatchFill, PullOrder, EndOrder
  <2> QED BY <2>2, EndLiquidationKeeps
<1>2. [][A]_vars => LiquidationCloses
  BY PTL DEF LiquidationCloses
<1> HIDE DEF A
<1> QED BY <1>1, <1>2, Inductive, PTL DEF Spec

(* No order that must not rest, a close, a bracket or a liquidation, ever   *)
(* turns the position it meets around.                                      *)
THEOREM NoIocFlips == Spec => IocNeverFlips
<1> DEFINE A == job # NoJob /\ job.tif = "IOC" =>
                  LET p == pos[job.m][job.owner]
                      q == pos'[job.m][job.owner]
                  IN p.qty > 0 /\ q.qty > 0 => q.side = p.side
<1>1. EInv /\ [Next]_vars => [A]_vars
  <2> SUFFICES ASSUME EInv, Next, job # NoJob, job.tif = "IOC"
               PROVE  LET p == pos[job.m][job.owner]
                          q == pos'[job.m][job.owner]
                      IN p.qty > 0 /\ q.qty > 0 => q.side = p.side
    OBVIOUS
  <2>1. MatchStep
    BY InFlight
  <2>2. CASE \E i \in DOMAIN book[job.m] : MatchFill(i)
    BY <2>2, MatchFillKeeps
  <2>3. CASE EndLiquidation
    <3>1. pos'[job.m][job.owner].qty = 0
      BY <2>3, EndLiquidationKeeps DEF Flat
    <3> QED BY <3>1
  <2>4. CASE UNCHANGED pos
    BY <2>4
  <2> QED BY <2>1, <2>2, <2>3, <2>4 DEF MatchStep, MatchOwn, PullOrder, EndOrder
<1>2. [][A]_vars => IocNeverFlips
  BY PTL DEF IocNeverFlips
<1> HIDE DEF A
<1> QED BY <1>1, <1>2, Inductive, PTL DEF Spec
=============================================================================
