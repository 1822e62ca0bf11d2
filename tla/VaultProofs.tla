---------------------------- MODULE VaultProofs ----------------------------
(* What holds of the vault contract for any holders, deposits, redemptions, *)
(* results, gifts and number of calls.                                      *)
(*                                                                          *)
(* Three invariants build on each other: IInv is the types (no value or     *)
(* share count below zero), the cover, and that an insolvent vault is       *)
(* empty; SharesInv adds the sums of the holders' shares; PInv that the     *)
(* venue's own vault, given the same calls, is in the same state.           *)
EXTENDS VaultPair, CommonLemmas

IInv == TypeOK /\ Covered /\ InsolventIsEmpty

-----------------------------------------------------------------------------
(* Shares and values                                                        *)

(* The value of n of a tranche's shares is at most their part of it.        *)
LEMMA ValueBound ==
    ASSUME NEW n \in Nat \ {0}, NEW total \in Nat, NEW worth \in Nat, n <= total
    PROVE  /\ (n * worth) \div total \in 0 .. worth
           /\ ((n * worth) \div total) * total <= n * worth
<1>1. total \in Nat \ {0}
  OBVIOUS
<1>2. n * worth = worth * n /\ worth * n \in Nat
  OBVIOUS
<1>3. (worth * n) \div total \in Nat /\ (worth * n) \div total <= worth
  BY <1>1, ShareBound
<1>4. ((worth * n) \div total) * total <= worth * n
  BY <1>1, <1>2
<1> QED BY <1>2, <1>3, <1>4

(* Minting gives no share for less than those before it cost.               *)
LEMMA MintedBound ==
    ASSUME NEW amount \in Nat, NEW value \in Nat, NEW total \in Nat
    PROVE  /\ Minted(amount, value, total) \in Nat
           /\ total > 0 => Minted(amount, value, total) * value <= amount * total
<1>1. CASE total = 0 \/ value = 0
  <2>1. Minted(amount, value, total) = amount
    BY <1>1 DEF Minted
  <2>2. total > 0 => value = 0
    BY <1>1
  <2>3. amount * total \in Nat
    BY ProductNat
  <2> QED BY <2>1, <2>2, <2>3
<1>2. CASE total # 0 /\ value # 0
  <2>1. Minted(amount, value, total) = (amount * total) \div value
    BY <1>2 DEF Minted
  <2>2. value \in Nat \ {0} /\ amount * total \in Nat
    BY <1>2, ProductNat
  <2>3. (amount * total) \div value \in Nat
    BY <2>2, DivNat
  <2>4. ((amount * total) \div value) * value <= amount * total
    BY <2>2
  <2> QED BY <2>1, <2>3, <2>4
<1> QED BY <1>1, <1>2

(* A cut of fewer than all basis points is a part of the amount.            *)
LEMMA CutBound ==
    ASSUME NEW a \in Nat, NEW k \in Nat, k <= 10000
    PROVE  (a * k) \div 10000 \in 0 .. a
BY ShareBound

(* The exit fee is a part of the value.                                     *)
LEMMA FeeBound ==
    ASSUME NEW value \in Nat
    PROVE  ExitFee(value) \in 0 .. value
<1>1. (value * SeniorExitFeeBps) \div BPS \in 0 .. value
  BY CutBound DEF SeniorExitFeeBps, BPS
<1> QED BY <1>1 DEF ExitFee

-----------------------------------------------------------------------------
(* The waterfall                                                            *)

(* A profit is split without remainder.                                     *)
LEMMA ProfitSplits ==
    ASSUME NEW profit \in Nat, TypeOK
    PROVE  LET s == ProfitSplit(profit)
           IN  /\ s.senior \in Nat /\ s.reserve \in Nat /\ s.junior \in Nat
               /\ s.senior + s.reserve + s.junior = profit
<1>1. CASE juniorRatioBps(seniorNav, juniorNav) < JuniorMinRatioBps
  BY <1>1 DEF ProfitSplit
<1>2. CASE ~(juniorRatioBps(seniorNav, juniorNav) < JuniorMinRatioBps)
  <2> DEFINE target == ((seniorNav * SeniorTargetApyBps) \div BPS) \div 365
             accrual == Lesser(profit, target)
             rest == profit - accrual
             cut == (rest * ReserveCutBps) \div BPS
  <2>1. seniorNav * SeniorTargetApyBps \in Nat
    BY ProductNat DEF TypeOK, SeniorTargetApyBps
  <2>2. (seniorNav * SeniorTargetApyBps) \div BPS \in Nat
    BY <2>1, DivNat DEF BPS
  <2>3. target \in Nat
    BY <2>2, DivNat
  <2>4. accrual \in 0 .. profit
    BY <2>3 DEF Lesser
  <2>5. rest \in Nat
    BY <2>4
  <2>6. cut \in 0 .. rest
    BY <2>5, CutBound DEF ReserveCutBps, BPS
  <2>7. ProfitSplit(profit) = [senior |-> accrual, reserve |-> cut, junior |-> rest - cut]
    BY <1>2 DEF ProfitSplit
  <2> HIDE DEF accrual, rest, cut
  <2>8. rest = profit - accrual
    BY DEF rest
  <2> QED BY <2>4, <2>5, <2>6, <2>7, <2>8
<1> QED BY <1>1, <1>2

(* A loss is borne by each in turn, and what none can bear is uncovered.    *)
LEMMA LossSplits ==
    ASSUME NEW loss \in Nat, TypeOK
    PROVE  LET s == LossSplit(loss)
           IN  /\ s.junior \in 0 .. juniorNav
               /\ s.reserve \in 0 .. yieldReserve
               /\ s.senior \in 0 .. seniorNav
               /\ s.uncovered \in Nat
               /\ s.junior + s.reserve + s.senior + s.uncovered = loss
               /\ s.senior > 0 => s.junior = juniorNav /\ s.reserve = yieldReserve
               /\ s.uncovered > 0 => /\ s.junior = juniorNav
                                     /\ s.reserve = yieldReserve
                                     /\ s.senior = seniorNav
<1> DEFINE j == Lesser(loss, juniorNav)
           r == Lesser(loss - j, yieldReserve)
           s == Lesser(loss - j - r, seniorNav)
<1>1. juniorNav \in Nat /\ yieldReserve \in Nat /\ seniorNav \in Nat
  BY DEF TypeOK
<1>2. j \in 0 .. juniorNav /\ j <= loss /\ (j = juniorNav \/ j = loss)
  BY <1>1 DEF Lesser
<1>3. r \in 0 .. yieldReserve /\ r <= loss - j /\ (r = yieldReserve \/ r = loss - j)
  BY <1>1, <1>2 DEF Lesser
<1>4. s \in 0 .. seniorNav /\ s <= loss - j - r /\ (s = seniorNav \/ s = loss - j - r)
  BY <1>1, <1>2, <1>3 DEF Lesser
<1>5. LossSplit(loss) = [junior |-> j, reserve |-> r, senior |-> s,
                         uncovered |-> loss - j - r - s]
  BY DEF LossSplit
<1> HIDE DEF j, r, s
<1> QED BY <1>1, <1>2, <1>3, <1>4, <1>5

-----------------------------------------------------------------------------
(* Each call keeps the invariant                                            *)

(* The invariant holds of a vault just made.                                *)
LEMMA InitInv == Init => IInv
<1> SUFFICES ASSUME Init PROVE IInv
  OBVIOUS
<1>1. senior \in [Holders -> Nat]
  BY DEF Init
<1>2. NoPosition \in [shares : Nat, gen : Nat, unlockAt : Nat]
  BY DEF NoPosition
<1>3. junior = [h \in Holders |-> NoPosition]
  BY DEF Init
<1>4. junior \in [Holders -> [shares : Nat, gen : Nat, unlockAt : Nat]]
  BY <1>2, <1>3
<1>5. TypeOK
  BY <1>1, <1>4 DEF Init, TypeOK
<1>6. Covered /\ InsolventIsEmpty
  BY DEF Init, Covered, InsolventIsEmpty
<1> QED BY <1>5, <1>6 DEF IInv

(* A position brought up to date is one.                                    *)
LEMMA FreshType ==
    ASSUME TypeOK, NEW h \in Holders
    PROVE  /\ Fresh(junior[h]) \in [shares : Nat, gen : Nat, unlockAt : Nat]
BY DEF TypeOK, Fresh

(* A senior deposit keeps it.                                               *)
LEMMA DepositSeniorInv ==
    ASSUME IInv, NEW h \in Holders, NEW amount \in Deposits, DepositSenior(h, amount)
    PROVE  IInv'
<1> DEFINE minted == Minted(amount, seniorNav, totalSeniorShares)
<1>1. amount \in Nat
  BY VaultAssumption
<1>2. minted \in Nat
  BY <1>1, MintedBound DEF IInv, TypeOK
<1>3. /\ senior' = [senior EXCEPT ![h] = @ + minted]
      /\ totalSeniorShares' = totalSeniorShares + minted
      /\ seniorNav' = seniorNav + amount
      /\ pool' = pool + amount
      /\ ops' = ops + 1 /\ ~insolvent
      /\ UNCHANGED <<juniorNav, totalJuniorShares, juniorGen, junior, yieldReserve,
                     epochId, catastropheMode, insolvent, gifts, now>>
  BY DEF DepositSenior, Counted, mode, Open
<1> HIDE DEF minted
<1>4. senior' \in [Holders -> Nat]
  BY <1>2, <1>3 DEF IInv, TypeOK
<1>5. TypeOK'
  BY <1>1, <1>2, <1>3, <1>4 DEF IInv, TypeOK
<1>6. Covered'
  BY <1>1, <1>3 DEF IInv, TypeOK, Covered
<1> QED BY <1>3, <1>5, <1>6 DEF IInv, InsolventIsEmpty

(* A junior deposit keeps it, also the one that starts a generation.        *)
LEMMA DepositJuniorInv ==
    ASSUME IInv, NEW h \in Holders, NEW amount \in Deposits, DepositJunior(h, amount)
    PROVE  IInv'
<1> DEFINE minted == Minted(amount, juniorNav, totalJuniorShares)
           p == Fresh(junior[h])
           q == [p EXCEPT !.shares = @ + minted, !.unlockAt = now + JuniorLockup]
<1>1. amount \in Nat /\ JuniorLockup \in Nat
  BY VaultAssumption
<1>2. minted \in Nat
  BY <1>1, MintedBound DEF IInv, TypeOK
<1>3. /\ junior' = [junior EXCEPT ![h] = q]
      /\ totalJuniorShares' = totalJuniorShares + minted
      /\ juniorNav' = juniorNav + amount
      /\ pool' = pool + amount
      /\ ops' = ops + 1 /\ ~insolvent
      /\ UNCHANGED <<seniorNav, totalSeniorShares, senior, juniorGen, yieldReserve,
                     epochId, catastropheMode, insolvent, gifts, now>>
  BY DEF DepositJunior, Counted, mode, Open
<1>4. p \in [shares : Nat, gen : Nat, unlockAt : Nat]
  BY FreshType DEF IInv
<1> HIDE DEF minted, p
<1>5. q \in [shares : Nat, gen : Nat, unlockAt : Nat]
  <2>1. now + JuniorLockup \in Nat
    BY <1>1 DEF IInv, TypeOK
  <2>2. p.shares + minted \in Nat
    BY <1>2, <1>4
  <2>3. q = [p EXCEPT !.shares = p.shares + minted, !.unlockAt = now + JuniorLockup]
    BY <1>4
  <2> QED BY <1>4, <2>1, <2>2, <2>3
<1> HIDE DEF q
<1>6. junior' \in [Holders -> [shares : Nat, gen : Nat, unlockAt : Nat]]
  BY <1>3, <1>5 DEF IInv, TypeOK
<1>7. TypeOK'
  BY <1>1, <1>2, <1>3, <1>6 DEF IInv, TypeOK
<1>8. Covered'
  BY <1>1, <1>3 DEF IInv, TypeOK, Covered
<1> QED BY <1>3, <1>7, <1>8 DEF IInv, InsolventIsEmpty

(* What a redemption of senior shares pays is within what is there.         *)
LEMMA SeniorRedeemed ==
    ASSUME IInv, NEW h \in Holders, NEW n \in Withdrawals, WithdrawSenior(h, n)
    PROVE  \E value, fee \in Nat :
             /\ value <= seniorNav /\ fee <= value
             /\ value * totalSeniorShares <= n * seniorNav
             /\ seniorNav' = seniorNav - value
             /\ juniorNav' = juniorNav + fee
             /\ pool' = pool - (value - fee)
<1> DEFINE value == (n * seniorNav) \div totalSeniorShares
<1>1. n \in Nat \ {0} /\ n <= totalSeniorShares
  BY VaultAssumption DEF WithdrawSenior, MayWithdrawSenior
<1>2. value \in 0 .. seniorNav /\ value * totalSeniorShares <= n * seniorNav
  BY <1>1, ValueBound DEF IInv, TypeOK
<1>3. ExitFee(value) \in 0 .. value
  BY <1>2, FeeBound
<1>4. /\ seniorNav' = seniorNav - value
      /\ juniorNav' = juniorNav + ExitFee(value)
      /\ pool' = pool - (value - ExitFee(value))
  BY DEF WithdrawSenior
<1> HIDE DEF value
<1>5. value \in Nat /\ ExitFee(value) \in Nat /\ value <= seniorNav /\ ExitFee(value) <= value
  BY <1>2, <1>3
<1> QED BY <1>2, <1>4, <1>5

(* A senior withdrawal keeps it, with the exit fee or without.              *)
LEMMA WithdrawSeniorInv ==
    ASSUME IInv, NEW h \in Holders, NEW n \in Withdrawals, WithdrawSenior(h, n)
    PROVE  IInv'
<1>1. n \in Nat /\ n <= senior[h] /\ n <= totalSeniorShares /\ ~insolvent
  BY VaultAssumption DEF WithdrawSenior, MayWithdrawSenior, Open
<1>2. PICK value, fee \in Nat :
             /\ value <= seniorNav /\ fee <= value
             /\ seniorNav' = seniorNav - value
             /\ juniorNav' = juniorNav + fee
             /\ pool' = pool - (value - fee)
  BY SeniorRedeemed
<1>3. /\ senior' = [senior EXCEPT ![h] = @ - n]
      /\ totalSeniorShares' = totalSeniorShares - n
      /\ ops' = ops + 1
      /\ UNCHANGED <<totalJuniorShares, juniorGen, junior, yieldReserve,
                     epochId, catastropheMode, insolvent, gifts, now>>
  BY DEF WithdrawSenior, Counted, mode
<1>4. Covered'
  BY <1>2, <1>3 DEF IInv, TypeOK, Covered
<1>5. senior' \in [Holders -> Nat]
  BY <1>1, <1>3 DEF IInv, TypeOK
<1>6. seniorNav' \in Nat /\ juniorNav' \in Nat /\ totalSeniorShares' \in Nat
  BY <1>1, <1>2, <1>3 DEF IInv, TypeOK
<1>7. pool' \in Nat
  <2>1. pool' = seniorNav' + juniorNav' + yieldReserve' + gifts'
    BY <1>4 DEF Covered
  <2>2. yieldReserve' \in Nat /\ gifts' \in Nat
    BY <1>3 DEF IInv, TypeOK
  <2>3. \A a, b, c, d \in Nat : a + b + c + d \in Nat
    OBVIOUS
  <2>4. seniorNav' + juniorNav' + yieldReserve' + gifts' \in Nat
    BY <1>6, <2>2, <2>3, Zenon
  <2> QED BY <2>1, <2>4
<1>8. TypeOK'
  BY <1>3, <1>5, <1>6, <1>7 DEF IInv, TypeOK
<1> QED BY <1>1, <1>3, <1>4, <1>8 DEF IInv, InsolventIsEmpty

(* A junior withdrawal pays no more than the share of what is there.        *)
LEMMA JuniorRedeemed ==
    ASSUME IInv, NEW h \in Holders, NEW n \in Withdrawals, WithdrawJunior(h, n)
    PROVE  \E value \in Nat :
             /\ value <= juniorNav
             /\ value * totalJuniorShares <= n * juniorNav
             /\ juniorNav' = juniorNav - value
             /\ pool' = pool - value
<1> DEFINE value == (n * juniorNav) \div totalJuniorShares
<1>1. n \in Nat \ {0} /\ n <= totalJuniorShares
  BY VaultAssumption DEF WithdrawJunior, MayWithdrawJunior
<1>2. value \in 0 .. juniorNav /\ value * totalJuniorShares <= n * juniorNav
  BY <1>1, ValueBound DEF IInv, TypeOK
<1>3. juniorNav' = juniorNav - value /\ pool' = pool - value
  BY DEF WithdrawJunior
<1> HIDE DEF value
<1>4. value \in Nat
  BY <1>2
<1> QED BY <1>2, <1>3, <1>4

(* A junior withdrawal keeps the invariant.                                 *)
LEMMA WithdrawJuniorInv ==
    ASSUME IInv, NEW h \in Holders, NEW n \in Withdrawals, WithdrawJunior(h, n)
    PROVE  IInv'
<1>1. /\ n \in Nat \ {0} /\ n <= sharesOfJunior(h) /\ n <= totalJuniorShares
      /\ ~insolvent
  BY VaultAssumption DEF WithdrawJunior, MayWithdrawJunior, Open
<1>2. PICK value \in Nat :
             /\ value <= juniorNav
             /\ juniorNav' = juniorNav - value
             /\ pool' = pool - value
  BY JuniorRedeemed
<1>3. /\ junior' = [junior EXCEPT ![h].shares = @ - n]
      /\ totalJuniorShares' = totalJuniorShares - n
      /\ ops' = ops + 1
      /\ UNCHANGED <<seniorNav, totalSeniorShares, senior, juniorGen, yieldReserve,
                     epochId, catastropheMode, insolvent, gifts, now>>
  BY DEF WithdrawJunior, Counted, mode
<1>4. n <= junior[h].shares
  BY <1>1 DEF sharesOfJunior
<1>5. junior' \in [Holders -> [shares : Nat, gen : Nat, unlockAt : Nat]]
  BY <1>1, <1>3, <1>4 DEF IInv, TypeOK
<1>6. Covered'
  BY <1>2, <1>3 DEF IInv, TypeOK, Covered
<1>7. juniorNav' \in Nat /\ totalJuniorShares' \in Nat
  BY <1>1, <1>2, <1>3 DEF IInv, TypeOK
<1>8. pool' \in Nat
  BY <1>3, <1>6, <1>7 DEF IInv, TypeOK, Covered
<1>9. TypeOK'
  BY <1>3, <1>5, <1>7, <1>8 DEF IInv, TypeOK
<1> QED BY <1>1, <1>3, <1>6, <1>9 DEF IInv, InsolventIsEmpty

(* So does an epoch that ended with a profit.                               *)
LEMMA SettleProfitInv ==
    ASSUME IInv, NEW pnl \in Int, Open, SettleProfit(pnl),
           epochId' = epochId + 1, Counted, UNCHANGED gifts
    PROVE  IInv'
<1> DEFINE s == ProfitSplit(pnl)
<1>1. pnl \in Nat
  BY DEF SettleProfit
<1>2. /\ s.senior \in Nat /\ s.reserve \in Nat /\ s.junior \in Nat
      /\ s.senior + s.reserve + s.junior = pnl
  BY <1>1, ProfitSplits DEF IInv
<1>3. /\ seniorNav' = seniorNav + s.senior
      /\ yieldReserve' = yieldReserve + s.reserve
      /\ juniorNav' = juniorNav + s.junior
      /\ pool' = pool + pnl
      /\ ops' = ops + 1 /\ ~insolvent
      /\ UNCHANGED <<totalSeniorShares, senior, totalJuniorShares, juniorGen,
                     junior, insolvent, gifts, now>>
  BY DEF SettleProfit, Counted, shares, Open
<1>4. catastropheMode' \in BOOLEAN
  BY DEF SettleProfit
<1> HIDE DEF s
<1>5. TypeOK'
  BY <1>1, <1>2, <1>3, <1>4 DEF IInv, TypeOK
<1>6. Covered'
  BY <1>1, <1>2, <1>3 DEF IInv, TypeOK, Covered
<1> QED BY <1>3, <1>5, <1>6 DEF IInv, InsolventIsEmpty

(* So does one with a loss, also the loss that wipes the juniors out.       *)
LEMMA SettleLossInv ==
    ASSUME IInv, NEW pnl \in Int, SettleLoss(pnl),
           epochId' = epochId + 1, Counted, UNCHANGED gifts
    PROVE  IInv'
<1> DEFINE s == LossSplit(-pnl)
<1>1. -pnl \in Nat
  BY DEF SettleLoss
<1>2. /\ s.junior \in 0 .. juniorNav
      /\ s.reserve \in 0 .. yieldReserve
      /\ s.senior \in 0 .. seniorNav
      /\ s.uncovered \in Nat
      /\ s.junior + s.reserve + s.senior + s.uncovered = -pnl
      /\ s.uncovered > 0 => /\ s.junior = juniorNav
                            /\ s.reserve = yieldReserve
                            /\ s.senior = seniorNav
  BY <1>1, LossSplits DEF IInv
<1>3. /\ seniorNav' = seniorNav - s.senior
      /\ yieldReserve' = yieldReserve - s.reserve
      /\ juniorNav' = juniorNav - s.junior
      /\ pool' = pool - (-pnl - s.uncovered)
      /\ ops' = ops + 1
      /\ UNCHANGED <<totalSeniorShares, senior, junior, gifts, now>>
  BY DEF SettleLoss, Counted
<1>4. insolvent' = (s.uncovered > 0)
  BY DEF SettleLoss
<1>5. catastropheMode' \in BOOLEAN
  BY DEF SettleLoss
<1>6. juniorGen' \in Nat /\ totalJuniorShares' \in Nat
  BY DEF SettleLoss, IInv, TypeOK
<1> HIDE DEF s
<1>7. Covered'
  BY <1>1, <1>2, <1>3 DEF IInv, TypeOK, Covered
<1>8. seniorNav' \in Nat /\ juniorNav' \in Nat /\ yieldReserve' \in Nat
  BY <1>2, <1>3 DEF IInv, TypeOK
<1>9. pool' \in Nat
  BY <1>3, <1>7, <1>8 DEF IInv, TypeOK, Covered
<1>10. insolvent' \in BOOLEAN
  BY <1>4
<1>11. TypeOK'
  BY <1>3, <1>5, <1>6, <1>8, <1>9, <1>10 DEF IInv, TypeOK
<1>12. InsolventIsEmpty'
  <2>1. CASE s.uncovered > 0
    <3>1. seniorNav' = 0 /\ juniorNav' = 0 /\ yieldReserve' = 0
      BY <1>2, <1>3, <2>1 DEF IInv, TypeOK
    <3> QED BY <3>1 DEF InsolventIsEmpty
  <2>2. CASE ~(s.uncovered > 0)
    <3>1. ~insolvent'
      BY <1>4, <2>2
    <3> QED BY <3>1 DEF InsolventIsEmpty
  <2> QED BY <2>1, <2>2
<1> QED BY <1>7, <1>11, <1>12 DEF IInv

(* So does any epoch.                                                       *)
LEMMA SettleEpochInv ==
    ASSUME IInv, NEW pnl \in Int, SettleEpoch(pnl)
    PROVE  IInv'
<1>1. Open /\ epochId' = epochId + 1 /\ Counted /\ UNCHANGED gifts
  BY DEF SettleEpoch
<1>2. CASE SettleProfit(pnl)
  BY <1>1, <1>2, SettleProfitInv
<1>3. CASE SettleLoss(pnl)
  BY <1>1, <1>3, SettleLossInv
<1> QED BY <1>2, <1>3 DEF SettleEpoch

(* A token sent to the vault is no part of its NAV.                         *)
LEMMA GiftInv ==
    ASSUME IInv, NEW amount \in Gifts, Gift(amount)
    PROVE  IInv'
<1>1. amount \in Nat
  BY VaultAssumption
<1> QED BY <1>1 DEF IInv, TypeOK, Covered, InsolventIsEmpty, Gift, Counted,
                    nav, shares, mode

(* Time passes.                                                             *)
LEMMA WaitInv == ASSUME IInv, Wait PROVE IInv'
BY DEF IInv, TypeOK, Covered, InsolventIsEmpty, Wait, nav, shares, mode

(* Or nothing happens.                                                      *)
LEMMA StutterInv == ASSUME IInv, UNCHANGED vars PROVE IInv'
BY DEF IInv, TypeOK, Covered, InsolventIsEmpty, vars, nav, shares, mode

(* The invariant does not depend on which results the operator reports.     *)
AnyNext ==
    \/ \E h \in Holders, amount \in Deposits :
           DepositSenior(h, amount) \/ DepositJunior(h, amount)
    \/ \E h \in Holders, n \in Withdrawals :
           WithdrawSenior(h, n) \/ WithdrawJunior(h, n)
    \/ \E pnl \in Int : SettleEpoch(pnl)
    \/ \E amount \in Gifts : Gift(amount)
    \/ Wait

(* Every step reports some result, so it is one of those.                   *)
LEMMA NextIsAny == [Next]_vars => [AnyNext]_vars
BY VaultAssumption DEF Next, AnyNext

(* Every step keeps the invariant.                                          *)
LEMMA NextInv == ASSUME IInv, [AnyNext]_vars PROVE IInv'
BY DepositSeniorInv, DepositJuniorInv, WithdrawSeniorInv, WithdrawJuniorInv,
   SettleEpochInv, GiftInv, WaitInv, StutterInv DEF AnyNext

(* The invariant is one of the contract.                                    *)
THEOREM VaultInvariant == Spec => []IInv
<1>1. IInv /\ [Next]_vars => IInv'
  BY NextInv, NextIsAny
<1> QED BY <1>1, InitInv, PTL DEF Spec

-----------------------------------------------------------------------------
(* What it gives                                                            *)

(* Every value and every number of shares stays a natural number: no call   *)
(* underflows the contract's uint256 arithmetic.                            *)
THEOREM TypeCorrect == Spec => []TypeOK
<1>1. IInv => TypeOK
  BY DEF IInv
<1> QED BY <1>1, VaultInvariant, PTL

(* The contract always holds what it owes the two tranches and the reserve, *)
(* and what was sent to it (PVaultTranches.sol:23).                         *)
THEOREM PoolCovers == Spec => []Covered
<1>1. IInv => Covered
  BY DEF IInv
<1> QED BY <1>1, VaultInvariant, PTL

(* The vault is insolvent only with nothing left in any tranche             *)
(* (PVaultTranches.sol:201, _settleLoss).                                   *)
THEOREM InsolventHoldsNothing == Spec => []InsolventIsEmpty
<1>1. IInv => InsolventIsEmpty
  BY DEF IInv
<1> QED BY <1>1, VaultInvariant, PTL

(* A settlement that costs the senior tranche something found a loss, and   *)
(* leaves nothing before it.                                                *)
LEMMA SettleSenior ==
    ASSUME TypeOK, NEW pnl \in Int, SettleEpoch(pnl), seniorNav' < seniorNav
    PROVE  juniorNav' = 0 /\ yieldReserve' = 0
<1>1. CASE SettleProfit(pnl)
  <2> DEFINE s == ProfitSplit(pnl)
  <2>1. pnl \in Nat
    BY <1>1 DEF SettleProfit
  <2>2. s.senior \in Nat
    BY <2>1, ProfitSplits
  <2>3. seniorNav' = seniorNav + s.senior
    BY <1>1 DEF SettleProfit
  <2> HIDE DEF s
  <2> QED BY <2>2, <2>3 DEF TypeOK
<1>2. CASE SettleLoss(pnl)
  <2> DEFINE s == LossSplit(-pnl)
  <2>1. -pnl \in Nat
    BY <1>2 DEF SettleLoss
  <2>2. /\ s.senior \in 0 .. seniorNav
        /\ s.senior > 0 => s.junior = juniorNav /\ s.reserve = yieldReserve
    BY <2>1, LossSplits
  <2>3. /\ seniorNav' = seniorNav - s.senior
        /\ yieldReserve' = yieldReserve - s.reserve
        /\ juniorNav' = juniorNav - s.junior
    BY <1>2 DEF SettleLoss
  <2> HIDE DEF s
  <2> QED BY <2>2, <2>3 DEF TypeOK
<1> QED BY <1>1, <1>2 DEF SettleEpoch

(* Only a settlement ends an epoch.                                         *)
LEMMA EpochSettles ==
    ASSUME [Next]_vars, epochId' # epochId
    PROVE  \E pnl \in Int : SettleEpoch(pnl)
BY VaultAssumption DEF Next, DepositSenior, DepositJunior, WithdrawSenior, WithdrawJunior, Gift, Wait,
       vars, mode

(* No epoch costs the senior tranche anything before the junior tranche and *)
(* the reserve are gone: the waterfall of _settleLoss                       *)
(* (PVaultTranches.sol:201).                                                *)
THEOREM SeniorLast == Spec => SeniorIsLast
<1>1. IInv /\ [Next]_vars => [epochId' # epochId /\ seniorNav' < seniorNav
                                => juniorNav' = 0 /\ yieldReserve' = 0]_vars
  BY EpochSettles, SettleSenior DEF IInv
<1> QED BY <1>1, VaultInvariant, PTL DEF Spec, SeniorIsLast

-----------------------------------------------------------------------------
(* Nobody is diluted                                                        *)

(* The value of a share of each tranche, compared without dividing.         *)
SeniorWorthKept ==
    totalSeniorShares > 0 /\ totalSeniorShares' > 0
        => seniorNav' * totalSeniorShares >= seniorNav * totalSeniorShares'

JuniorWorthKept ==
    totalJuniorShares > 0 /\ totalJuniorShares' > 0
        => juniorNav' * totalJuniorShares >= juniorNav * totalJuniorShares'

(* A larger value of the same shares is worth no less.                      *)
LEMMA GrowthKeeps ==
    ASSUME NEW w \in Nat, NEW d \in Nat, NEW t \in Nat
    PROVE  (w + d) * t >= w * t
<1>1. (w + d) * t = w * t + d * t
  OBVIOUS
<1>2. w * t \in Nat /\ d * t \in Nat
  BY ProductNat
<1> QED BY <1>1, <1>2

(* Shares bought for no less than they cost keep the worth of the others.   *)
LEMMA MintKeeps ==
    ASSUME NEW w \in Nat, NEW t \in Nat, NEW a \in Nat, NEW m \in Nat, m * w <= a * t
    PROVE  (w + a) * t >= w * (t + m)
<1>1. (w + a) * t = w * t + a * t /\ w * (t + m) = w * t + m * w
  OBVIOUS
<1>2. w * t \in Nat /\ a * t \in Nat /\ m * w \in Nat
  BY ProductNat
<1> QED BY <1>1, <1>2

(* Shares redeemed for no more than their part keep it too.                 *)
LEMMA RedeemKeeps ==
    ASSUME NEW w \in Nat, NEW t \in Nat, NEW a \in Nat, NEW n \in Nat, a * t <= n * w
    PROVE  (w - a) * t >= w * (t - n)
<1>1. (w - a) * t = w * t - a * t /\ w * (t - n) = w * t - n * w
  OBVIOUS
<1>2. w * t \in Nat /\ a * t \in Nat /\ n * w \in Nat
  BY ProductNat
<1> QED BY <1>1, <1>2

(* Seniors who are left alone lose nothing.                                 *)
LEMMA SeniorSame ==
    ASSUME TypeOK, UNCHANGED <<seniorNav, totalSeniorShares>>
    PROVE  SeniorWorthKept
<1>1. seniorNav' * totalSeniorShares = seniorNav * totalSeniorShares'
  OBVIOUS
<1>2. seniorNav * totalSeniorShares' \in Nat
  BY ProductNat DEF TypeOK
<1> QED BY <1>1, <1>2 DEF SeniorWorthKept

(* Nor do juniors.                                                          *)
LEMMA JuniorSame ==
    ASSUME TypeOK, UNCHANGED <<juniorNav, totalJuniorShares>>
    PROVE  JuniorWorthKept
<1>1. juniorNav' * totalJuniorShares = juniorNav * totalJuniorShares'
  OBVIOUS
<1>2. juniorNav * totalJuniorShares' \in Nat
  BY ProductNat DEF TypeOK
<1> QED BY <1>1, <1>2 DEF JuniorWorthKept

(* A senior deposit dilutes no one.                                         *)
LEMMA DepositSeniorKeeps ==
    ASSUME TypeOK, NEW h \in Holders, NEW amount \in Deposits, DepositSenior(h, amount)
    PROVE  SeniorWorthKept /\ JuniorWorthKept
<1> DEFINE minted == Minted(amount, seniorNav, totalSeniorShares)
<1>1. amount \in Nat /\ seniorNav \in Nat /\ totalSeniorShares \in Nat
  BY VaultAssumption DEF TypeOK
<1>2. minted \in Nat /\ (totalSeniorShares > 0
                          => minted * seniorNav <= amount * totalSeniorShares)
  BY <1>1, MintedBound
<1>3. /\ totalSeniorShares' = totalSeniorShares + minted
      /\ seniorNav' = seniorNav + amount
      /\ UNCHANGED <<juniorNav, totalJuniorShares>>
  BY DEF DepositSenior
<1> HIDE DEF minted
<1>4. totalSeniorShares > 0
          => (seniorNav + amount) * totalSeniorShares >= seniorNav * (totalSeniorShares + minted)
  BY <1>1, <1>2, MintKeeps
<1>5. SeniorWorthKept
  BY <1>3, <1>4 DEF SeniorWorthKept
<1> QED BY <1>3, <1>5, JuniorSame

(* A junior deposit dilutes no one.                                         *)
LEMMA DepositJuniorKeeps ==
    ASSUME TypeOK, NEW h \in Holders, NEW amount \in Deposits, DepositJunior(h, amount)
    PROVE  SeniorWorthKept /\ JuniorWorthKept
<1> DEFINE minted == Minted(amount, juniorNav, totalJuniorShares)
<1>1. amount \in Nat /\ juniorNav \in Nat /\ totalJuniorShares \in Nat
  BY VaultAssumption DEF TypeOK
<1>2. minted \in Nat /\ (totalJuniorShares > 0
                          => minted * juniorNav <= amount * totalJuniorShares)
  BY <1>1, MintedBound
<1>3. /\ totalJuniorShares' = totalJuniorShares + minted
      /\ juniorNav' = juniorNav + amount
      /\ UNCHANGED <<seniorNav, totalSeniorShares>>
  BY DEF DepositJunior
<1> HIDE DEF minted
<1>4. totalJuniorShares > 0
          => (juniorNav + amount) * totalJuniorShares >= juniorNav * (totalJuniorShares + minted)
  BY <1>1, <1>2, MintKeeps
<1>5. JuniorWorthKept
  BY <1>3, <1>4 DEF JuniorWorthKept
<1> QED BY <1>3, <1>5, SeniorSame

(* Who stays loses nothing to a senior who leaves.                          *)
LEMMA WithdrawSeniorKeeps ==
    ASSUME IInv, NEW h \in Holders, NEW n \in Withdrawals, WithdrawSenior(h, n)
    PROVE  SeniorWorthKept /\ JuniorWorthKept
<1>1. PICK value, fee \in Nat :
          /\ value * totalSeniorShares <= n * seniorNav
          /\ seniorNav' = seniorNav - value
          /\ juniorNav' = juniorNav + fee
  BY SeniorRedeemed
<1>2. /\ totalSeniorShares' = totalSeniorShares - n
      /\ UNCHANGED totalJuniorShares
  BY DEF WithdrawSenior
<1>3. /\ n \in Nat /\ seniorNav \in Nat /\ totalSeniorShares \in Nat
      /\ juniorNav \in Nat /\ totalJuniorShares \in Nat
  BY VaultAssumption DEF IInv, TypeOK
<1>4. (seniorNav - value) * totalSeniorShares >= seniorNav * (totalSeniorShares - n)
  BY <1>1, <1>3, RedeemKeeps
<1>5. SeniorWorthKept
  BY <1>1, <1>2, <1>4 DEF SeniorWorthKept
<1>6. (juniorNav + fee) * totalJuniorShares >= juniorNav * totalJuniorShares
  BY <1>3, GrowthKeeps
<1>7. JuniorWorthKept
  BY <1>1, <1>2, <1>6 DEF JuniorWorthKept
<1> QED BY <1>5, <1>7

(* Who stays loses nothing to a junior who leaves.                          *)
LEMMA WithdrawJuniorKeeps ==
    ASSUME IInv, NEW h \in Holders, NEW n \in Withdrawals, WithdrawJunior(h, n)
    PROVE  SeniorWorthKept /\ JuniorWorthKept
<1>1. PICK value \in Nat :
          /\ value * totalJuniorShares <= n * juniorNav
          /\ juniorNav' = juniorNav - value
  BY JuniorRedeemed
<1>2. /\ totalJuniorShares' = totalJuniorShares - n
      /\ UNCHANGED <<seniorNav, totalSeniorShares>>
  BY DEF WithdrawJunior
<1>3. n \in Nat /\ juniorNav \in Nat /\ totalJuniorShares \in Nat
  BY VaultAssumption DEF IInv, TypeOK
<1>4. (juniorNav - value) * totalJuniorShares >= juniorNav * (totalJuniorShares - n)
  BY <1>1, <1>3, RedeemKeeps
<1>5. JuniorWorthKept
  BY <1>1, <1>2, <1>4 DEF JuniorWorthKept
<1> QED BY <1>2, <1>5, SeniorSame DEF IInv

(* A settlement ends the epoch, and nothing else touches a tranche.         *)
LEMMA OthersKeep ==
    ASSUME TypeOK, epochId' = epochId,
           \/ \E pnl \in Int : SettleEpoch(pnl)
           \/ \E amount \in Gifts : Gift(amount)
           \/ Wait
           \/ UNCHANGED vars
    PROVE  SeniorWorthKept /\ JuniorWorthKept
<1>1. ~\E pnl \in Int : SettleEpoch(pnl)
  BY DEF SettleEpoch, TypeOK
<1>2. UNCHANGED <<seniorNav, totalSeniorShares, juniorNav, totalJuniorShares>>
  BY <1>1 DEF Gift, Wait, vars, nav, shares
<1> QED BY <1>2, SeniorSame, JuniorSame

(* No deposit, redemption, gift or wait lowers the value of a share of      *)
(* either tranche, whatever the order of the calls: the rounding of         *)
(* _mintShares (PVaultTranches.sol:144) and of the withdrawals is for the   *)
(* tranche.                                                                 *)
THEOREM NobodyDiluted == Spec => NotDiluted
<1>1. ASSUME IInv, [Next]_vars, epochId' = epochId
      PROVE  SeniorWorthKept /\ JuniorWorthKept
  BY <1>1, VaultAssumption, DepositSeniorKeeps, DepositJuniorKeeps, WithdrawSeniorKeeps,
     WithdrawJuniorKeeps, OthersKeep DEF Next, IInv
<1>2. IInv /\ [Next]_vars =>
        [epochId' = epochId =>
          /\ totalSeniorShares > 0 /\ totalSeniorShares' > 0
                 => seniorNav' * totalSeniorShares >= seniorNav * totalSeniorShares'
          /\ totalJuniorShares > 0 /\ totalJuniorShares' > 0
                 => juniorNav' * totalJuniorShares >= juniorNav * totalJuniorShares']_vars
  BY <1>1 DEF SeniorWorthKept, JuniorWorthKept
<1> QED BY <1>2, VaultInvariant, PTL DEF Spec, NotDiluted

-----------------------------------------------------------------------------
(* The shares of a tranche are those of its holders                         *)

(* A void position never revives: no position is of a generation to come.   *)
GensPast == \A h \in Holders : junior[h].gen <= juniorGen

SharesInv == SharesAddUp /\ GensPast

Held == [h \in Holders |-> sharesOfJunior(h)]

(* There are finitely many holders.                                         *)
LEMMA HoldersFinite == IsFiniteSet(Holders)
BY VaultAssumption

(* The totals, for proofs.                                                  *)
LEMMA SharesAre ==
    ASSUME TypeOK
    PROVE  /\ SharesAddUp <=> /\ totalSeniorShares = SumFunctionOnSet(senior, Holders)
                              /\ totalJuniorShares = SumFunctionOnSet(Held, Holders)
           /\ \A h \in Holders : senior[h] \in Nat /\ Held[h] \in Nat
<1>1. DOMAIN senior = Holders /\ DOMAIN Held = Holders
  BY DEF TypeOK, Held
<1>2. /\ SumFunction(senior) = SumFunctionOnSet(senior, Holders)
      /\ SumFunction(Held) = SumFunctionOnSet(Held, Holders)
  BY <1>1 DEF SumFunction
<1>3. \A h \in Holders : senior[h] \in Nat /\ Held[h] \in Nat
  BY DEF TypeOK, Held, sharesOfJunior
<1>4. SharesAddUp <=> /\ totalSeniorShares = SumFunction(senior)
                     /\ totalJuniorShares = SumFunction(Held)
  BY DEF SharesAddUp, Held
<1> QED BY <1>2, <1>3, <1>4

(* The totals after a step, likewise.                                       *)
LEMMA SharesAreNext ==
    ASSUME TypeOK'
    PROVE  /\ SharesAddUp' <=> /\ totalSeniorShares' = SumFunctionOnSet(senior', Holders)
                               /\ totalJuniorShares' = SumFunctionOnSet(Held', Holders)
           /\ \A h \in Holders : senior'[h] \in Nat /\ Held'[h] \in Nat
<1>1. DOMAIN senior' = Holders /\ DOMAIN Held' = Holders
  BY DEF TypeOK, Held
<1>2. /\ SumFunction(senior') = SumFunctionOnSet(senior', Holders)
      /\ SumFunction(Held') = SumFunctionOnSet(Held', Holders)
  BY <1>1 DEF SumFunction
<1>3. \A h \in Holders : senior'[h] \in Nat /\ Held'[h] \in Nat
  BY DEF TypeOK, Held, sharesOfJunior
<1>4. SharesAddUp' <=> /\ totalSeniorShares' = SumFunction(senior')
                      /\ totalJuniorShares' = SumFunction(Held')
  BY DEF SharesAddUp, Held
<1> QED BY <1>2, <1>3, <1>4

(* Nobody holds anything at first.                                          *)
LEMMA InitShares == Init => SharesInv
<1> SUFFICES ASSUME Init PROVE SharesInv
  OBVIOUS
<1>1. TypeOK
  BY InitInv DEF IInv
<1>2. \A h \in Holders : senior[h] = 0 /\ Held[h] = 0
  BY DEF Init, Held, sharesOfJunior, NoPosition
<1>3. SumFunctionOnSet(senior, Holders) = 0 /\ SumFunctionOnSet(Held, Holders) = 0
  BY <1>2, HoldersFinite, SumZero
<1>4. SharesAddUp
  BY <1>1, <1>3, SharesAre DEF Init
<1>5. GensPast
  BY DEF Init, GensPast, NoPosition
<1> QED BY <1>4, <1>5 DEF SharesInv

(* A call that changes one holder's senior shares and the total alike.      *)
LEMMA SeniorMoves ==
    ASSUME TypeOK, TypeOK', SharesInv, NEW h \in Holders, NEW d \in Int,
           senior'[h] = senior[h] + d,
           \A i \in Holders \ {h} : senior'[i] = senior[i],
           totalSeniorShares' = totalSeniorShares + d,
           UNCHANGED <<junior, juniorGen, totalJuniorShares>>
    PROVE  SharesInv'
<1>1. \A i \in Holders : senior[i] \in Int
  BY SharesAre
<1>2. SumFunctionOnSet(senior', Holders) = SumFunctionOnSet(senior, Holders) + d
  BY <1>1, HoldersFinite, SumMoves
<1>3. totalSeniorShares' = SumFunctionOnSet(senior', Holders)
  BY <1>2, SharesAre DEF SharesInv
<1>4. Held' = Held
  BY DEF Held, sharesOfJunior
<1>5. totalJuniorShares' = SumFunctionOnSet(Held', Holders)
  BY <1>4, SharesAre DEF SharesInv
<1>6. SharesAddUp'
  BY <1>3, <1>5, SharesAreNext
<1>7. GensPast'
  BY DEF SharesInv, GensPast
<1> QED BY <1>6, <1>7 DEF SharesInv

(* The same for the junior shares of one holder.                            *)
LEMMA JuniorMoves ==
    ASSUME TypeOK, TypeOK', SharesInv, NEW h \in Holders, NEW d \in Int,
           Held'[h] = Held[h] + d,
           \A i \in Holders \ {h} : junior'[i] = junior[i],
           junior'[h].gen <= juniorGen,
           totalJuniorShares' = totalJuniorShares + d,
           UNCHANGED <<senior, juniorGen, totalSeniorShares>>
    PROVE  SharesInv'
<1>1. \A i \in Holders \ {h} : Held'[i] = Held[i]
  BY DEF Held, sharesOfJunior
<1>2. \A i \in Holders : Held[i] \in Int
  BY SharesAre
<1>3. SumFunctionOnSet(Held', Holders) = SumFunctionOnSet(Held, Holders) + d
  BY <1>1, <1>2, HoldersFinite, SumMoves
<1>5. totalJuniorShares' = SumFunctionOnSet(Held', Holders)
  BY <1>3, SharesAre DEF SharesInv
<1>6. totalSeniorShares' = SumFunctionOnSet(senior', Holders)
  BY SharesAre DEF SharesInv
<1>7. SharesAddUp'
  BY <1>5, <1>6, SharesAreNext
<1>8. GensPast'
  BY DEF SharesInv, GensPast
<1> QED BY <1>7, <1>8 DEF SharesInv

(* A wiped generation leaves nobody a share.                                *)
LEMMA WipeVoids ==
    ASSUME TypeOK, TypeOK', SharesInv,
           juniorGen' = juniorGen + 1, totalJuniorShares' = 0,
           UNCHANGED <<senior, totalSeniorShares, junior>>
    PROVE  SharesInv'
<1>1. \A h \in Holders : junior[h].gen \in Nat /\ junior[h].gen <= juniorGen
  BY DEF TypeOK, SharesInv, GensPast
<1>2. \A h \in Holders : Held'[h] = 0
  BY <1>1 DEF Held, sharesOfJunior, TypeOK
<1>3. SumFunctionOnSet(Held', Holders) = 0
  BY <1>2, HoldersFinite, SumZero
<1>4. SharesAddUp'
  BY <1>3, SharesAre, SharesAreNext DEF SharesInv
<1>5. GensPast'
  BY <1>1 DEF GensPast, TypeOK
<1> QED BY <1>4, <1>5 DEF SharesInv

(* Whoever leaves positions, totals and generation alone.                   *)
LEMMA SharesKept ==
    ASSUME SharesInv, UNCHANGED shares
    PROVE  SharesInv'
BY DEF SharesInv, SharesAddUp, GensPast, sharesOfJunior, shares

(* Every step moves a total as it moves the shares of one holder.           *)
LEMMA NextShares ==
    ASSUME IInv, IInv', SharesInv, [AnyNext]_vars
    PROVE  SharesInv'
<1> USE DEF IInv
<1>1. ASSUME NEW h \in Holders, NEW amount \in Deposits, DepositSenior(h, amount)
      PROVE  SharesInv'
  <2>1. amount \in Nat
    BY VaultAssumption
  <2>2. Minted(amount, seniorNav, totalSeniorShares) \in Int
    BY <2>1, MintedBound DEF TypeOK
  <2> DEFINE d == Minted(amount, seniorNav, totalSeniorShares)
  <2>3. /\ senior' = [senior EXCEPT ![h] = @ + d]
        /\ totalSeniorShares' = totalSeniorShares + d
        /\ UNCHANGED <<junior, juniorGen, totalJuniorShares>>
    BY <1>1 DEF DepositSenior
  <2> HIDE DEF d
  <2>4. /\ senior'[h] = senior[h] + d
        /\ \A i \in Holders \ {h} : senior'[i] = senior[i]
    BY <2>3 DEF TypeOK
  <2>5. d \in Int
    BY <2>2 DEF d
  <2> QED BY <2>3, <2>4, <2>5, SeniorMoves
<1>2. ASSUME NEW h \in Holders, NEW amount \in Deposits, DepositJunior(h, amount)
      PROVE  SharesInv'
  <2> DEFINE d == Minted(amount, juniorNav, totalJuniorShares)
             p == Fresh(junior[h])
  <2>1. amount \in Nat
    BY VaultAssumption
  <2>2. d \in Int
    BY <2>1, MintedBound DEF TypeOK
  <2>3. /\ junior' = [junior EXCEPT ![h] =
               [p EXCEPT !.shares = @ + d, !.unlockAt = now + JuniorLockup]]
        /\ totalJuniorShares' = totalJuniorShares + d
        /\ UNCHANGED <<senior, juniorGen, totalSeniorShares>>
    BY <1>2 DEF DepositJunior
  <2>4. /\ p \in [shares : Nat, gen : Nat, unlockAt : Nat]
        /\ p.gen = juniorGen /\ p.shares = Held[h]
    BY FreshType DEF Fresh, Held, sharesOfJunior, TypeOK
  <2> HIDE DEF d, p
  <2>5. junior'[h].shares = Held[h] + d /\ junior'[h].gen = juniorGen
    BY <2>3, <2>4 DEF TypeOK
  <2>6. Held'[h] = Held[h] + d
    BY <2>3, <2>5 DEF Held, sharesOfJunior
  <2>7. \A i \in Holders \ {h} : junior'[i] = junior[i]
    BY <2>3 DEF TypeOK
  <2>8. junior'[h].gen <= juniorGen
    BY <2>5 DEF TypeOK
  <2> QED BY <2>2, <2>3, <2>6, <2>7, <2>8, JuniorMoves
<1>3. ASSUME NEW h \in Holders, NEW n \in Withdrawals, WithdrawSenior(h, n)
      PROVE  SharesInv'
  <2>1. n \in Nat
    BY VaultAssumption
  <2>2. /\ senior' = [senior EXCEPT ![h] = @ - n]
        /\ totalSeniorShares' = totalSeniorShares - n
        /\ UNCHANGED <<junior, juniorGen, totalJuniorShares>>
    BY <1>3 DEF WithdrawSenior
  <2>3. -n \in Int /\ \A k \in Nat : k - n = k + -n
    BY <2>1
  <2>4. /\ senior'[h] = senior[h] + -n
        /\ \A i \in Holders \ {h} : senior'[i] = senior[i]
    BY <2>2, <2>3 DEF TypeOK
  <2>5. totalSeniorShares' = totalSeniorShares + -n
    BY <2>2, <2>3 DEF TypeOK
  <2> QED BY <2>2, <2>3, <2>4, <2>5, SeniorMoves
<1>4. ASSUME NEW h \in Holders, NEW n \in Withdrawals, WithdrawJunior(h, n)
      PROVE  SharesInv'
  <2>1. n \in Nat \ {0} /\ n <= sharesOfJunior(h)
    BY <1>4, VaultAssumption DEF WithdrawJunior, MayWithdrawJunior
  <2>2. /\ junior' = [junior EXCEPT ![h].shares = @ - n]
        /\ totalJuniorShares' = totalJuniorShares - n
        /\ UNCHANGED <<senior, juniorGen, totalSeniorShares>>
    BY <1>4 DEF WithdrawJunior
  <2>3. junior[h].gen = juniorGen /\ junior[h].shares = Held[h]
    BY <2>1 DEF Held, sharesOfJunior, TypeOK
  <2>4. junior'[h].gen = juniorGen /\ junior'[h].shares = Held[h] - n
    BY <2>2, <2>3 DEF TypeOK
  <2>5. Held'[h] = Held[h] + -n
    <3>1. Held[h] \in Nat
      BY SharesAre
    <3> QED BY <2>1, <2>2, <2>4, <3>1 DEF Held, sharesOfJunior
  <2>6. \A i \in Holders \ {h} : junior'[i] = junior[i]
    BY <2>2 DEF TypeOK
  <2>7. junior'[h].gen <= juniorGen /\ -n \in Int
        /\ totalJuniorShares' = totalJuniorShares + -n
    BY <2>1, <2>2, <2>4 DEF TypeOK
  <2> QED BY <2>2, <2>5, <2>6, <2>7, JuniorMoves
<1>5. ASSUME NEW pnl \in Int, SettleEpoch(pnl)
      PROVE  SharesInv'
  <2>1. CASE SettleProfit(pnl)
    BY <2>1, SharesKept DEF SettleProfit
  <2>2. CASE SettleLoss(pnl) /\ juniorGen' = juniorGen + 1 /\ totalJuniorShares' = 0
    BY <2>2, WipeVoids DEF SettleLoss
  <2>3. CASE SettleLoss(pnl) /\ UNCHANGED <<juniorGen, totalJuniorShares>>
    BY <2>3, SharesKept DEF SettleLoss, shares
  <2> QED BY <1>5, <2>1, <2>2, <2>3 DEF SettleEpoch, SettleLoss
<1>6. ASSUME \/ \E amount \in Gifts : Gift(amount)
             \/ Wait
             \/ UNCHANGED vars
      PROVE  SharesInv'
  BY <1>6, SharesKept DEF Gift, Wait, vars
<1> QED BY <1>1, <1>2, <1>3, <1>4, <1>5, <1>6 DEF AnyNext

(* The shares of each tranche are those of its holders: minting, redeeming  *)
(* and voiding a generation keep the totals and the positions together      *)
(* (PVaultTranches.sol:117, :158 and :218).                                 *)
THEOREM SharesOfHolders == Spec => []SharesAddUp
<1>1. IInv /\ IInv' /\ SharesInv /\ [Next]_vars => SharesInv'
  BY NextShares, NextIsAny
<1>2. SharesInv => SharesAddUp
  BY DEF SharesInv
<1> QED BY <1>1, <1>2, InitShares, VaultInvariant, PTL DEF Spec

-----------------------------------------------------------------------------
(* The port never differs from the contract                                 *)

(* The vault's state as tranches.ts keeps it.                               *)
Ported ==
    [seniorNav6 |-> seniorNav, totalSeniorShares |-> totalSeniorShares,
     juniorNav6 |-> juniorNav, totalJuniorShares |-> totalJuniorShares,
     juniorGen |-> juniorGen, yieldReserve6 |-> yieldReserve,
     epochId |-> epochId, catastropheMode |-> catastropheMode,
     insolvent |-> insolvent, pooled6 |-> pool - gifts,
     senior |-> senior, junior |-> junior]

PInv == IInv /\ SharesInv /\ v = Ported

(* Nobody holds more shares than there are.                                 *)
LEMMA HeldWithinTotal ==
    ASSUME IInv, SharesInv, NEW h \in Holders
    PROVE  senior[h] <= totalSeniorShares /\ sharesOfJunior(h) <= totalJuniorShares
<1>1. /\ totalSeniorShares = SumFunctionOnSet(senior, Holders)
      /\ totalJuniorShares = SumFunctionOnSet(Held, Holders)
      /\ \A i \in Holders : senior[i] \in Nat
      /\ \A i \in Holders : Held[i] \in Nat
  BY SharesAre DEF IInv, SharesInv
<1>2. senior[h] <= SumFunctionOnSet(senior, Holders)
  BY <1>1, HoldersFinite, SumNat
<1>3. Held[h] <= SumFunctionOnSet(Held, Holders)
  BY <1>1, HoldersFinite, SumNat
<1>4. Held[h] = sharesOfJunior(h)
  BY DEF Held
<1> QED BY <1>1, <1>2, <1>3, <1>4

(* The port throws exactly when the contract reverts: its missing bound by  *)
(* the total never matters.                                                 *)
LEMMA AnswersAgree ==
    ASSUME PInv, ops < MaxOps, NEW h \in Holders, NEW n \in Nat \ {0}
    PROVE  /\ T!MayDeposit(v, n) <=> Open
           /\ T!MaySellSenior(v, h, n) <=> MayWithdrawSenior(h, n)
           /\ T!MaySellJunior(v, h, n, now) <=> MayWithdrawJunior(h, n)
<1>1. /\ v.insolvent = insolvent /\ v.senior = senior /\ v.junior = junior
      /\ v.totalSeniorShares = totalSeniorShares /\ v.juniorGen = juniorGen
  BY DEF PInv, Ported
<1>2. /\ senior[h] <= totalSeniorShares /\ sharesOfJunior(h) <= totalJuniorShares
  BY HeldWithinTotal DEF PInv
<1>3. /\ senior[h] \in Nat /\ totalSeniorShares \in Nat /\ totalJuniorShares \in Nat
      /\ sharesOfJunior(h) \in Nat
  BY DEF PInv, IInv, TypeOK, sharesOfJunior
<1>4. T!MayDeposit(v, n) <=> Open
  BY <1>1 DEF T!MayDeposit, Open
<1>5. T!MaySellSenior(v, h, n) <=> MayWithdrawSenior(h, n)
  BY <1>1, <1>2, <1>3 DEF T!MaySellSenior, MayWithdrawSenior, Open, WithinCap,
     T!DefaultVaultParams, BPS, ConcentrationBps, T!P
<1>6. T!heldJunior(v, h) = sharesOfJunior(h)
  BY <1>1 DEF T!heldJunior, sharesOfJunior
<1>7. T!MaySellJunior(v, h, n, now) <=> MayWithdrawJunior(h, n)
  BY <1>1, <1>2, <1>3, <1>6 DEF T!MaySellJunior, MayWithdrawJunior, Open
<1> QED BY <1>4, <1>5, <1>7

(* Every operation of the port gives what the call gives.                   *)
LEMMA DepositSeniorPorts ==
    ASSUME PInv, NEW h \in Holders, NEW amount \in Deposits, DepositSenior(h, amount),
           v' = T!depositSenior(v, h, amount)
    PROVE  v' = Ported'
<1> DEFINE n == Minted(amount, seniorNav, totalSeniorShares)
<1>1. T!sharesFor(amount, seniorNav, totalSeniorShares) = n
  BY DEF T!sharesFor, Minted
<1>2. v' = [seniorNav6 |-> seniorNav + amount,
            totalSeniorShares |-> totalSeniorShares + n, juniorNav6 |-> juniorNav,
            totalJuniorShares |-> totalJuniorShares, juniorGen |-> juniorGen,
            yieldReserve6 |-> yieldReserve, epochId |-> epochId,
            catastropheMode |-> catastropheMode, insolvent |-> insolvent,
            pooled6 |-> pool - gifts + amount,
            senior |-> [senior EXCEPT ![h] = @ + n], junior |-> junior]
  BY <1>1 DEF T!depositSenior, PInv, Ported
<1>3. /\ senior' = [senior EXCEPT ![h] = @ + n]
      /\ totalSeniorShares' = totalSeniorShares + n
      /\ seniorNav' = seniorNav + amount
      /\ pool' = pool + amount
      /\ UNCHANGED <<juniorNav, totalJuniorShares, juniorGen, junior, yieldReserve,
                     epochId, catastropheMode, insolvent, gifts>>
  BY DEF DepositSenior, mode
<1> HIDE DEF n
<1>4. pool' - gifts' = pool - gifts + amount
  BY <1>3, VaultAssumption DEF PInv, IInv, TypeOK
<1> QED BY <1>2, <1>3, <1>4 DEF Ported

(* A position after a deposit, field by field.                              *)
LEMMA PositionSet ==
    ASSUME NEW a, NEW b, NEW c, NEW n, NEW d, NEW p,
           p = [shares |-> a, gen |-> b, unlockAt |-> c],
           NEW r, r = [p EXCEPT !.shares = @ + n, !.unlockAt = d]
    PROVE  r = [shares |-> a + n, gen |-> b, unlockAt |-> d]
OBVIOUS

(* A junior deposit does the same in both.                                  *)
LEMMA DepositJuniorPorts ==
    ASSUME PInv, NEW h \in Holders, NEW amount \in Deposits, DepositJunior(h, amount),
           v' = T!depositJunior(v, h, amount, now, JuniorLockup)
    PROVE  v' = Ported'
<1> DEFINE n == Minted(amount, juniorNav, totalJuniorShares)
           q == [shares |-> sharesOfJunior(h) + n, gen |-> juniorGen,
                 unlockAt |-> now + JuniorLockup]
           p == Fresh(junior[h])
<1>1. /\ T!sharesFor(amount, juniorNav, totalJuniorShares) = n
      /\ T!heldJunior(v, h) = sharesOfJunior(h)
  BY DEF T!sharesFor, Minted, T!heldJunior, sharesOfJunior, PInv, Ported
<1>2. v' = [seniorNav6 |-> seniorNav, totalSeniorShares |-> totalSeniorShares,
            juniorNav6 |-> juniorNav + amount,
            totalJuniorShares |-> totalJuniorShares + n, juniorGen |-> juniorGen,
            yieldReserve6 |-> yieldReserve, epochId |-> epochId,
            catastropheMode |-> catastropheMode, insolvent |-> insolvent,
            pooled6 |-> pool - gifts + amount, senior |-> senior,
            junior |-> [junior EXCEPT ![h] = q]]
  BY <1>1, ZenonT(30) DEF T!depositJunior, PInv, Ported
<1>3. /\ junior' = [junior EXCEPT ![h] =
               [p EXCEPT !.shares = @ + n, !.unlockAt = now + JuniorLockup]]
      /\ totalJuniorShares' = totalJuniorShares + n
      /\ juniorNav' = juniorNav + amount
      /\ pool' = pool + amount
      /\ UNCHANGED <<seniorNav, totalSeniorShares, senior, juniorGen, yieldReserve,
                     epochId, catastropheMode, insolvent, gifts>>
  BY DEF DepositJunior, mode
<1>4. /\ p \in [shares : Nat, gen : Nat, unlockAt : Nat]
      /\ p.gen = juniorGen /\ p.shares = sharesOfJunior(h)
  BY FreshType DEF Fresh, sharesOfJunior, PInv, IInv, TypeOK
<1> HIDE DEF n, p
<1>5. [p EXCEPT !.shares = @ + n, !.unlockAt = now + JuniorLockup] = q
  <2>1. PICK u \in Nat : p = [shares |-> sharesOfJunior(h), gen |-> juniorGen,
                             unlockAt |-> u]
    BY <1>4
  <2>2. ASSUME NEW r, r = [p EXCEPT !.shares = @ + n, !.unlockAt = now + JuniorLockup]
        PROVE  r = q
    BY <2>1, <2>2, PositionSet
  <2> QED BY <2>2
<1>6. pool' - gifts' = pool - gifts + amount
  BY <1>3, VaultAssumption DEF PInv, IInv, TypeOK
<1> HIDE DEF q
<1> QED BY <1>2, <1>3, <1>5, <1>6 DEF Ported

(* A senior withdrawal does the same in both.                               *)
LEMMA WithdrawSeniorPorts ==
    ASSUME PInv, NEW h \in Holders, NEW n \in Withdrawals, WithdrawSenior(h, n),
           v' = T!withdrawSenior(v, h, n)
    PROVE  v' = Ported'
<1> DEFINE value == (n * seniorNav) \div totalSeniorShares
           fee == ExitFee(value)
           charged == IF catastropheMode THEN (value * 100) \div 10000 ELSE 0
<1>0. charged = fee
  BY DEF ExitFee, SeniorExitFeeBps, BPS
<1> HIDE DEF fee
<1>1. v' = [seniorNav6 |-> seniorNav - value,
            totalSeniorShares |-> totalSeniorShares - n,
            juniorNav6 |-> juniorNav + charged, totalJuniorShares |-> totalJuniorShares,
            juniorGen |-> juniorGen, yieldReserve6 |-> yieldReserve,
            epochId |-> epochId, catastropheMode |-> catastropheMode,
            insolvent |-> insolvent, pooled6 |-> pool - gifts - (value - charged),
            senior |-> [senior EXCEPT ![h] = @ - n], junior |-> junior]
  <2>1. /\ v.seniorNav6 = seniorNav /\ v.totalSeniorShares = totalSeniorShares
        /\ v.catastropheMode = catastropheMode
    BY DEF PInv, Ported
  <2>2. v' = [v EXCEPT !.senior[h] = @ - n, !.totalSeniorShares = @ - n,
                       !.seniorNav6 = @ - value, !.juniorNav6 = @ + charged,
                       !.pooled6 = @ - (value - charged)]
    BY <2>1 DEF T!withdrawSenior, T!P, T!DefaultVaultParams
  <2> HIDE DEF value, charged
  <2> QED BY <2>2, ZenonT(30) DEF PInv, Ported
<1>2. /\ seniorNav' = seniorNav - value
      /\ juniorNav' = juniorNav + fee
      /\ pool' = pool - (value - fee)
      /\ senior' = [senior EXCEPT ![h] = @ - n]
      /\ totalSeniorShares' = totalSeniorShares - n
      /\ UNCHANGED <<totalJuniorShares, juniorGen, junior, yieldReserve,
                     epochId, catastropheMode, insolvent, gifts>>
  BY DEF WithdrawSenior, mode, fee
<1>3. value \in Nat /\ fee \in Nat
  <2>1. n \in Nat \ {0} /\ n <= totalSeniorShares
    BY VaultAssumption DEF WithdrawSenior, MayWithdrawSenior
  <2>2. value \in 0 .. seniorNav
    BY <2>1, ValueBound DEF PInv, IInv, TypeOK
  <2>3. fee \in 0 .. value
    BY <2>2, FeeBound DEF fee
  <2> QED BY <2>2, <2>3
<1> HIDE DEF value, charged
<1>4. pool' - gifts' = pool - gifts - (value - fee)
  BY <1>2, <1>3 DEF PInv, IInv, TypeOK
<1> QED BY <1>0, <1>1, <1>2, <1>4 DEF Ported

(* A junior withdrawal does the same in both.                               *)
LEMMA WithdrawJuniorPorts ==
    ASSUME PInv, NEW h \in Holders, NEW n \in Withdrawals, WithdrawJunior(h, n),
           v' = T!withdrawJunior(v, h, n)
    PROVE  v' = Ported'
<1> DEFINE value == (n * juniorNav) \div totalJuniorShares
<1>1. v' = [seniorNav6 |-> seniorNav, totalSeniorShares |-> totalSeniorShares,
            juniorNav6 |-> juniorNav - value,
            totalJuniorShares |-> totalJuniorShares - n, juniorGen |-> juniorGen,
            yieldReserve6 |-> yieldReserve, epochId |-> epochId,
            catastropheMode |-> catastropheMode, insolvent |-> insolvent,
            pooled6 |-> pool - gifts - value, senior |-> senior,
            junior |-> [junior EXCEPT ![h].shares = @ - n]]
  BY DEF T!withdrawJunior, PInv, Ported
<1>2. /\ juniorNav' = juniorNav - value
      /\ pool' = pool - value
      /\ junior' = [junior EXCEPT ![h].shares = @ - n]
      /\ totalJuniorShares' = totalJuniorShares - n
      /\ UNCHANGED <<seniorNav, totalSeniorShares, senior, juniorGen, yieldReserve,
                     epochId, catastropheMode, insolvent, gifts>>
  BY DEF WithdrawJunior, mode
<1>3. value \in Nat
  <2>1. n \in Nat \ {0} /\ n <= totalJuniorShares
    BY VaultAssumption DEF WithdrawJunior, MayWithdrawJunior
  <2> QED BY <2>1, ValueBound DEF PInv, IInv, TypeOK
<1> HIDE DEF value
<1>4. pool' - gifts' = pool - gifts - value
  BY <1>2, <1>3 DEF PInv, IInv, TypeOK
<1> QED BY <1>1, <1>2, <1>4 DEF Ported

(* The two waterfalls split a profit alike: their guards for a profit of    *)
(* nothing differ, and what they book does not.                             *)
LEMMA ProfitPorts ==
    ASSUME PInv, NEW pnl \in Int, SettleEpoch(pnl), SettleProfit(pnl),
           v' = T!settleEpoch(v, pnl)
    PROVE  v' = Ported'
<1> DEFINE s == ProfitSplit(pnl)
           o == [v EXCEPT !.epochId = @ + 1]
           thin == pnl = 0 \/ T!juniorRatio(o) < 1500
           target == ((seniorNav * 1200) \div 10000) \div 365
           accrual == IF thin THEN 0 ELSE T!bmin(pnl, target)
           reserve == IF thin THEN 0 ELSE ((pnl - accrual) * 1500) \div 10000
<1>1. pnl \in Nat
  BY DEF SettleProfit
<1>2. /\ s.senior \in Nat /\ s.reserve \in Nat /\ s.junior \in Nat
      /\ s.senior + s.reserve + s.junior = pnl
  BY <1>1, ProfitSplits DEF PInv, IInv
<1>3. T!juniorRatio(o) = juniorRatioBps(seniorNav, juniorNav)
  BY DEF T!juniorRatio, juniorRatioBps, BPS, PInv, Ported
<1>4. accrual = s.senior /\ reserve = s.reserve /\ pnl - accrual - reserve = s.junior
  <2> HIDE DEF o
  <2>1. CASE juniorRatioBps(seniorNav, juniorNav) < 1500
    <3>1. thin /\ s = [senior |-> 0, reserve |-> 0, junior |-> pnl]
      BY <1>3, <2>1 DEF ProfitSplit, JuniorMinRatioBps
    <3> QED BY <1>1, <3>1
  <2>2. CASE ~(juniorRatioBps(seniorNav, juniorNav) < 1500)
    <3> DEFINE a == Lesser(pnl, target)
               c == ((pnl - a) * 1500) \div 10000
    <3>1. s = [senior |-> a, reserve |-> c, junior |-> pnl - a - c]
      BY <2>2 DEF ProfitSplit, JuniorMinRatioBps, SeniorTargetApyBps, ReserveCutBps, BPS
    <3>2. a = T!bmin(pnl, target)
      BY DEF Lesser, T!bmin
    <3>3. CASE pnl = 0
      <4>1. s.senior = 0 /\ s.reserve = 0 /\ s.junior = 0
        BY <1>2, <3>3
      <4> QED BY <3>3, <4>1
    <3>4. CASE pnl # 0
      <4>1. ~thin
        BY <1>3, <2>2, <3>4
      <4>2. accrual = a
        BY <3>2, <4>1
      <4>3. reserve = c
        BY <4>1, <4>2
      <4> HIDE DEF a, c, thin, accrual, reserve, s
      <4> QED BY <3>1, <4>2, <4>3
    <3> QED BY <3>3, <3>4
  <2> QED BY <2>1, <2>2
<1> HIDE DEF thin, target
<1> DEFINE kept == catastropheMode /\ ~(/\ seniorNav + accrual > 0
                        /\ (juniorNav + (pnl - accrual - reserve)) * 10000
                              >= (seniorNav + accrual) * 1000)
<1>5. v' = [seniorNav6 |-> seniorNav + accrual,
            totalSeniorShares |-> totalSeniorShares,
            juniorNav6 |-> juniorNav + (pnl - accrual - reserve),
            totalJuniorShares |-> totalJuniorShares, juniorGen |-> juniorGen,
            yieldReserve6 |-> yieldReserve + reserve, epochId |-> epochId + 1,
            catastropheMode |-> kept, insolvent |-> insolvent,
            pooled6 |-> pool - gifts + pnl, senior |-> senior, junior |-> junior]
  <2> DEFINE booked == [o EXCEPT !.pooled6 = @ + pnl, !.seniorNav6 = @ + accrual,
                                 !.yieldReserve6 = @ + reserve,
                                 !.juniorNav6 = @ + (pnl - accrual - reserve)]
  <2>1. v' = [booked EXCEPT !.catastropheMode =
                @ /\ ~(/\ booked.seniorNav6 > 0
                       /\ booked.juniorNav6 * 10000 >= booked.seniorNav6 * 1000)]
    <3>1. o.seniorNav6 = seniorNav
      BY DEF PInv, Ported
    <3>2. v' = T!bookProfit(o, pnl)
      BY <1>1 DEF T!settleEpoch
    <3> HIDE DEF o
    <3> QED BY <3>1, <3>2 DEF T!bookProfit, T!P, T!DefaultVaultParams, thin, target
  <2> HIDE DEF accrual, reserve
  <2>2. booked = [seniorNav6 |-> seniorNav + accrual,
                 totalSeniorShares |-> totalSeniorShares,
                 juniorNav6 |-> juniorNav + (pnl - accrual - reserve),
                 totalJuniorShares |-> totalJuniorShares, juniorGen |-> juniorGen,
                 yieldReserve6 |-> yieldReserve + reserve, epochId |-> epochId + 1,
                 catastropheMode |-> catastropheMode, insolvent |-> insolvent,
                 pooled6 |-> pool - gifts + pnl, senior |-> senior, junior |-> junior]
    <3>1. o = [v EXCEPT !.epochId = epochId + 1]
      BY DEF PInv, Ported
    <3>2. ASSUME NEW r, r = o
          PROVE  r = [seniorNav6 |-> seniorNav, totalSeniorShares |-> totalSeniorShares,
                       juniorNav6 |-> juniorNav, totalJuniorShares |-> totalJuniorShares,
                       juniorGen |-> juniorGen, yieldReserve6 |-> yieldReserve,
                       epochId |-> epochId + 1, catastropheMode |-> catastropheMode,
                       insolvent |-> insolvent, pooled6 |-> pool - gifts,
                       senior |-> senior, junior |-> junior]
      BY <3>1, <3>2 DEF PInv, Ported
    <3>3. o = [seniorNav6 |-> seniorNav, totalSeniorShares |-> totalSeniorShares,
               juniorNav6 |-> juniorNav, totalJuniorShares |-> totalJuniorShares,
               juniorGen |-> juniorGen, yieldReserve6 |-> yieldReserve,
               epochId |-> epochId + 1, catastropheMode |-> catastropheMode,
               insolvent |-> insolvent, pooled6 |-> pool - gifts,
               senior |-> senior, junior |-> junior]
      BY <3>2
    <3> HIDE DEF o
    <3>4. ASSUME NEW r, r = booked
          PROVE  r = [seniorNav6 |-> seniorNav + accrual,
                 totalSeniorShares |-> totalSeniorShares,
                 juniorNav6 |-> juniorNav + (pnl - accrual - reserve),
                 totalJuniorShares |-> totalJuniorShares, juniorGen |-> juniorGen,
                 yieldReserve6 |-> yieldReserve + reserve, epochId |-> epochId + 1,
                 catastropheMode |-> catastropheMode, insolvent |-> insolvent,
                 pooled6 |-> pool - gifts + pnl, senior |-> senior, junior |-> junior]
      BY <3>3, <3>4
    <3> HIDE DEF booked
    <3> QED BY <3>4
  <2> HIDE DEF booked
  <2>3. booked.seniorNav6 = seniorNav + accrual
        /\ booked.juniorNav6 = juniorNav + (pnl - accrual - reserve)
        /\ booked.catastropheMode = catastropheMode
    BY <2>2
  <2>4. v' = [booked EXCEPT !.catastropheMode = kept]
    BY <2>1, <2>3
  <2> HIDE DEF kept
  <2> QED BY <2>2, <2>4
<1>6. /\ seniorNav' = seniorNav + s.senior
      /\ yieldReserve' = yieldReserve + s.reserve
      /\ juniorNav' = juniorNav + s.junior
      /\ pool' = pool + pnl
      /\ catastropheMode' = (catastropheMode /\ ~Recovered(seniorNav', juniorNav'))
      /\ epochId' = epochId + 1
      /\ UNCHANGED <<totalSeniorShares, senior, totalJuniorShares, juniorGen,
                     junior, insolvent, gifts>>
  BY DEF SettleEpoch, SettleProfit, shares
<1> HIDE DEF s, accrual, reserve
<1>7. catastropheMode' = kept
  BY <1>4, <1>6 DEF Recovered, BPS, RecoveryRatioBps
<1>8. pool' - gifts' = pool - gifts + pnl
  BY <1>1, <1>6 DEF PInv, IInv, TypeOK
<1> HIDE DEF kept
<1> QED BY <1>4, <1>5, <1>6, <1>7, <1>8 DEF Ported

(* The two waterfalls bear a loss alike.                                    *)
LEMMA LossPorts ==
    ASSUME PInv, NEW pnl \in Int, SettleEpoch(pnl), SettleLoss(pnl),
           v' = T!settleEpoch(v, pnl)
    PROVE  v' = Ported'
<1> DEFINE loss == -pnl
           s == LossSplit(loss)
           o == [v EXCEPT !.epochId = @ + 1]
           j == T!bmin(loss, juniorNav)
           beyond == loss - j
           r == T!bmin(beyond, yieldReserve)
           u == T!bmin(beyond - r, seniorNav)
           uncovered == beyond - r - u
           wiped == beyond > 0 /\ totalJuniorShares > 0
           gen == IF wiped THEN juniorGen + 1 ELSE juniorGen
           total == IF wiped THEN 0 ELSE totalJuniorShares
           lost == catastropheMode \/ beyond > 0
           gone == uncovered > 0
<1>1. loss \in Nat /\ ~(pnl >= 0)
  BY DEF SettleLoss
<1>2. /\ s.junior \in 0 .. juniorNav /\ s.reserve \in 0 .. yieldReserve
      /\ s.senior \in 0 .. seniorNav /\ s.uncovered \in Nat
      /\ s.junior + s.reserve + s.senior + s.uncovered = loss
  BY <1>1, LossSplits DEF PInv, IInv
<1>3. s = [junior |-> j, reserve |-> r, senior |-> u, uncovered |-> uncovered]
  BY DEF LossSplit, Lesser, T!bmin
<1>4. (beyond > 0) = Wiped(loss)
  BY <1>1 DEF Wiped, T!bmin, PInv, IInv, TypeOK
<1>5. o = [seniorNav6 |-> seniorNav, totalSeniorShares |-> totalSeniorShares,
           juniorNav6 |-> juniorNav, totalJuniorShares |-> totalJuniorShares,
           juniorGen |-> juniorGen, yieldReserve6 |-> yieldReserve,
           epochId |-> epochId + 1, catastropheMode |-> catastropheMode,
           insolvent |-> insolvent, pooled6 |-> pool - gifts,
           senior |-> senior, junior |-> junior]
  <2>1. o = [v EXCEPT !.epochId = epochId + 1]
    BY DEF PInv, Ported
  <2>2. ASSUME NEW q, q = o
        PROVE  q = [seniorNav6 |-> seniorNav, totalSeniorShares |-> totalSeniorShares,
                    juniorNav6 |-> juniorNav, totalJuniorShares |-> totalJuniorShares,
                    juniorGen |-> juniorGen, yieldReserve6 |-> yieldReserve,
                    epochId |-> epochId + 1, catastropheMode |-> catastropheMode,
                    insolvent |-> insolvent, pooled6 |-> pool - gifts,
                    senior |-> senior, junior |-> junior]
    BY <2>1, <2>2 DEF PInv, Ported
  <2> QED BY <2>2
<1>6. v' = [o EXCEPT !.juniorNav6 = @ - j, !.yieldReserve6 = @ - r,
                     !.seniorNav6 = @ - u, !.juniorGen = gen,
                     !.totalJuniorShares = total, !.catastropheMode = lost,
                     !.pooled6 = @ - (loss - uncovered), !.insolvent = gone]
  <2>1. v' = T!bookLoss(o, loss)
    BY <1>1 DEF T!settleEpoch
  <2>2. /\ o.juniorNav6 = juniorNav /\ o.yieldReserve6 = yieldReserve
        /\ o.seniorNav6 = seniorNav /\ o.totalJuniorShares = totalJuniorShares
        /\ o.juniorGen = juniorGen /\ o.catastropheMode = catastropheMode
    BY <1>5
  <2> HIDE DEF o
  <2> QED BY <2>1, <2>2 DEF T!bookLoss
<1> HIDE DEF j, beyond, r, u, uncovered, wiped, o, gen, total, lost, gone
<1>7. v' = [seniorNav6 |-> seniorNav - u, totalSeniorShares |-> totalSeniorShares,
           juniorNav6 |-> juniorNav - j, totalJuniorShares |-> total, juniorGen |-> gen,
           yieldReserve6 |-> yieldReserve - r, epochId |-> epochId + 1,
           catastropheMode |-> lost, insolvent |-> gone,
           pooled6 |-> pool - gifts - (loss - uncovered),
           senior |-> senior, junior |-> junior]
  BY <1>5, <1>6, ZenonT(30)
<1> HIDE DEF s
<1>8. /\ seniorNav' = seniorNav - s.senior
      /\ yieldReserve' = yieldReserve - s.reserve
      /\ juniorNav' = juniorNav - s.junior
      /\ pool' = pool - (loss - s.uncovered)
      /\ insolvent' = (s.uncovered > 0)
      /\ epochId' = epochId + 1
      /\ UNCHANGED <<totalSeniorShares, senior, junior, gifts>>
  BY DEF SettleEpoch, SettleLoss, s
<1>9. catastropheMode' = lost /\ insolvent' = gone
  BY <1>3, <1>4, <1>8 DEF SettleLoss, lost, gone
<1>10. juniorGen' = gen /\ totalJuniorShares' = total
  BY <1>4 DEF SettleLoss, wiped, gen, total
<1>11. pool' - gifts' = pool - gifts - (loss - uncovered)
  BY <1>1, <1>2, <1>3, <1>8 DEF PInv, IInv, TypeOK
<1> HIDE DEF loss
<1> QED BY <1>3, <1>7, <1>8, <1>9, <1>10, <1>11 DEF Ported

(* An epoch does the same in both.                                          *)
LEMMA SettlePorts ==
    ASSUME PInv, NEW pnl \in Int, SettleEpoch(pnl), v' = T!settleEpoch(v, pnl)
    PROVE  v' = Ported'
BY ProfitPorts, LossPorts DEF SettleEpoch

(* The port's fee is a profit, and it is booked when the contract is open.  *)
LEMMA AccruePorts ==
    ASSUME PInv, NEW a \in Activities, SettleEpoch(T!feeUsd(a)), v' = T!accrue(v, a)
    PROVE  T!feeUsd(a) \in Int /\ v' = Ported'
<1>1. a \in Nat
  BY ActivityAssumption
<1>2. T!feeUsd(a) \in Int
  BY <1>1, DivNat DEF T!feeUsd
<1>3. ~v.insolvent
  BY DEF SettleEpoch, Open, PInv, Ported
<1>4. v' = T!settleEpoch(v, T!feeUsd(a))
  BY <1>3 DEF T!accrue
<1> QED BY <1>2, <1>4, SettlePorts

(* The port starts as the image of the contract.                            *)
LEMMA PairInitInv == PairInit => PInv
<1> SUFFICES ASSUME PairInit PROVE PInv
  OBVIOUS
<1>1. v = Ported
  <2>1. pool - gifts = 0
    BY DEF PairInit, Init
  <2>2. junior = [o \in Holders |-> [shares |-> 0, gen |-> 0, unlockAt |-> 0]]
    BY DEF PairInit, Init, NoPosition
  <2>3. senior = [o \in Holders |-> 0]
    BY DEF PairInit, Init
  <2>4. v = [seniorNav6 |-> 0, totalSeniorShares |-> 0, juniorNav6 |-> 0,
             totalJuniorShares |-> 0, juniorGen |-> 0, yieldReserve6 |-> 0,
             epochId |-> 0, catastropheMode |-> FALSE, insolvent |-> FALSE, pooled6 |-> 0,
             senior |-> senior, junior |-> junior]
    BY <2>2, <2>3 DEF PairInit, T!createVault
  <2> QED BY <2>1, <2>4 DEF PairInit, Init, Ported
<1> QED BY <1>1, InitInv, InitShares DEF PairInit, PInv

(* Every step of the pair keeps it so.                                      *)
LEMMA PairNextInv == ASSUME PInv, [PairNext]_<<vars, v>> PROVE PInv'
<1>1. [AnyNext]_vars /\ v' = Ported'
  <2>1. CASE \E h \in Holders, amount \in Deposits :
              DepositSenior(h, amount) /\ v' = T!depositSenior(v, h, amount)
    BY <2>1, DepositSeniorPorts DEF AnyNext
  <2>2. CASE \E h \in Holders, amount \in Deposits :
              /\ DepositJunior(h, amount)
              /\ v' = T!depositJunior(v, h, amount, now, JuniorLockup)
    BY <2>2, DepositJuniorPorts DEF AnyNext
  <2>3. CASE \E h \in Holders, n \in Withdrawals :
              WithdrawSenior(h, n) /\ v' = T!withdrawSenior(v, h, n)
    BY <2>3, WithdrawSeniorPorts DEF AnyNext
  <2>4. CASE \E h \in Holders, n \in Withdrawals :
              WithdrawJunior(h, n) /\ v' = T!withdrawJunior(v, h, n)
    BY <2>4, WithdrawJuniorPorts DEF AnyNext
  <2>5. CASE \E pnl \in PnLs : SettleEpoch(pnl) /\ v' = T!settleEpoch(v, pnl)
    BY <2>5, SettlePorts, VaultAssumption DEF AnyNext
  <2>6. CASE \E a \in Activities : SettleEpoch(T!feeUsd(a)) /\ v' = T!accrue(v, a)
    BY <2>6, AccruePorts DEF AnyNext
  <2>7. CASE \E amount \in Gifts : Gift(amount) /\ UNCHANGED v
    <3>1. PICK amount \in Gifts : Gift(amount) /\ UNCHANGED v
      BY <2>7
    <3>2. pool' - gifts' = pool - gifts
      BY <3>1, VaultAssumption DEF Gift, PInv, IInv, TypeOK
    <3>3. Ported' = Ported
      BY <3>1, <3>2 DEF Gift, Ported, nav, shares, mode
    <3> QED BY <3>1, <3>3 DEF AnyNext, PInv
  <2>8. CASE Wait /\ UNCHANGED v
    BY <2>8 DEF AnyNext, Wait, PInv, Ported, nav, shares, mode
  <2>9. CASE UNCHANGED <<vars, v>>
    BY <2>9 DEF PInv, Ported, vars, nav, shares, mode
  <2> QED BY <2>1, <2>2, <2>3, <2>4, <2>5, <2>6, <2>7, <2>8, <2>9 DEF PairNext
<1>2. IInv'
  BY <1>1, NextInv DEF PInv
<1>3. SharesInv'
  BY <1>1, <1>2, NextShares DEF PInv
<1> QED BY <1>1, <1>2, <1>3 DEF PInv

(* Given the same calls, the venue's vault and the contract never differ,   *)
(* in state or in which calls they refuse, rounding and the two spellings   *)
(* of the waterfall included (tranches.ts:222, PVaultTranches.sol:201).     *)
THEOREM PortMirrors == PairSpec => []Mirrors
<1>1. PInv => Mirrors
  <2> SUFFICES ASSUME PInv PROVE Mirrors
    OBVIOUS
  <2>1. SameState
    BY DEF PInv, Ported, SameState
  <2>2. SameAnswers
    BY AnswersAgree, VaultAssumption DEF SameAnswers
  <2> QED BY <2>1, <2>2 DEF Mirrors
<1> QED BY <1>1, PairInitInv, PairNextInv, PTL DEF PairSpec
=============================================================================
