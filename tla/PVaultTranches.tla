--------------------------- MODULE PVaultTranches ---------------------------
(***************************************************************************)
(* The underwriting vault on chain, contracts/src/PVaultTranches.sol: two  *)
(* tranches of one pool, senior and junior, and the daily waterfall that   *)
(* routes the house's profit or loss through them.                         *)
(*                                                                         *)
(* A call that reverts changes nothing and is no step.  Each action is one *)
(* external call, the token transfer it makes included; pool is the        *)
(* contract's balance of USDC (MockUSDC.sol).  Depositors and the operator *)
(* are taken to hold and to have approved what they pay: a failing         *)
(* transferFrom reverts.                                                   *)
(*                                                                         *)
(* seniorGen is never assigned by the contract, so a senior position is    *)
(* always of the current generation and both are left out.  Time is in     *)
(* units of JuniorLockup.                                                  *)
(***************************************************************************)
EXTENDS Integers, FiniteSetsExt

CONSTANTS
    Holders,           \* addresses that may hold shares
    Deposits,          \* amounts deposited
    Withdrawals,       \* numbers of shares redeemed
    PnLs,              \* results the operator reports
    Gifts,             \* amounts anyone may send to the contract's address
    JuniorLockup,      \* JUNIOR_LOCKUP, in units of time
    MaxOps             \* bound: number of calls

BPS == 10000
SeniorTargetApyBps == 1200
ReserveCutBps == 1500
JuniorMinRatioBps == 1500
SeniorExitFeeBps == 100
RecoveryRatioBps == 1000
ConcentrationBps == 500

ASSUME VaultAssumption ==
    /\ IsFiniteSet(Holders)
    /\ Deposits \subseteq Nat \ {0}
    /\ Withdrawals \subseteq Nat \ {0}
    /\ PnLs \subseteq Int
    /\ Gifts \subseteq Nat
    /\ JuniorLockup \in Nat
    /\ MaxOps \in Nat

VARIABLES
    seniorNav, totalSeniorShares,
    senior,            \* shares of each holder
    juniorNav, totalJuniorShares, juniorGen,
    junior,            \* [shares, gen, unlockAt] of each holder
    yieldReserve, epochId, catastropheMode, insolvent,
    pool,              \* usdc.balanceOf(this)
    gifts,             \* history: what was sent without a deposit
    now, ops           \* block time; calls made (the bound)

nav == <<seniorNav, juniorNav, yieldReserve>>
shares == <<totalSeniorShares, senior, totalJuniorShares, juniorGen, junior>>
mode == <<epochId, catastropheMode, insolvent>>
vars == <<nav, shares, mode, pool, gifts, now, ops>>

NoPosition == [shares |-> 0, gen |-> 0, unlockAt |-> 0]

Init ==
    /\ seniorNav = 0 /\ juniorNav = 0 /\ yieldReserve = 0
    /\ totalSeniorShares = 0 /\ totalJuniorShares = 0
    /\ senior = [h \in Holders |-> 0]
    /\ junior = [h \in Holders |-> NoPosition]
    /\ juniorGen = 0
    /\ epochId = 0
    /\ catastropheMode = FALSE
    /\ insolvent = FALSE
    /\ pool = 0 /\ gifts = 0
    /\ now = 0 /\ ops = 0
-----------------------------------------------------------------------------
Lesser(a, b) == IF a < b THEN a ELSE b

juniorRatioBps(s, j) == IF s + j = 0 THEN 0 ELSE (j * BPS) \div (s + j)

\* MUTANT of Minted: the amount is not scaled by the value of a share
MintedAtPar(amount, value, total) == amount

\* shares minted for amount in a tranche of that value and number of shares
Minted(amount, value, total) ==
    IF total = 0 \/ value = 0 THEN amount ELSE (amount * total) \div value

\* MUTANT of Fresh: shares of a wiped generation come back to life
FreshKept(p) == [p EXCEPT !.gen = juniorGen]

\* a position of an older generation is void: it starts again from nothing
Fresh(p) == IF p.gen = juniorGen THEN p ELSE [p EXCEPT !.shares = 0, !.gen = juniorGen]

sharesOfJunior(h) == IF junior[h].gen = juniorGen THEN junior[h].shares ELSE 0

\* notInsolvent, and the bound
Open == ~insolvent /\ ops < MaxOps
Counted == ops' = ops + 1 /\ UNCHANGED now

DepositSenior(h, amount) ==
    /\ Open
    /\ LET minted == Minted(amount, seniorNav, totalSeniorShares)
       IN  /\ senior' = [senior EXCEPT ![h] = @ + minted]
           /\ totalSeniorShares' = totalSeniorShares + minted
    /\ seniorNav' = seniorNav + amount
    /\ pool' = pool + amount
    /\ Counted
    /\ UNCHANGED <<juniorNav, totalJuniorShares, juniorGen, junior, yieldReserve,
                   mode, gifts>>

DepositJunior(h, amount) ==
    /\ Open
    /\ LET minted == Minted(amount, juniorNav, totalJuniorShares)
           p == Fresh(junior[h])
       IN  /\ junior' = [junior EXCEPT ![h] =
                 [p EXCEPT !.shares = @ + minted, !.unlockAt = now + JuniorLockup]]
           /\ totalJuniorShares' = totalJuniorShares + minted
    /\ juniorNav' = juniorNav + amount
    /\ pool' = pool + amount
    /\ Counted
    /\ UNCHANGED <<seniorNav, totalSeniorShares, senior, juniorGen, yieldReserve,
                   mode, gifts>>

\* a holder of more than 5 % of the tranche takes at most a quarter per call
WithinCap(held, n) ==
    held * BPS > totalSeniorShares * ConcentrationBps => n * 4 <= held

ExitFee(value) ==
    IF catastropheMode THEN (value * SeniorExitFeeBps) \div BPS ELSE 0

\* checked arithmetic: a redemption of more shares than there are would revert
MayWithdrawSenior(h, n) ==
    Open /\ n <= senior[h] /\ WithinCap(senior[h], n) /\ n <= totalSeniorShares

WithdrawSenior(h, n) ==
    /\ MayWithdrawSenior(h, n)
    /\ LET value == (n * seniorNav) \div totalSeniorShares
           fee == ExitFee(value)
       IN  /\ seniorNav' = seniorNav - value
           /\ juniorNav' = juniorNav + fee
           /\ pool' = pool - (value - fee)
    /\ senior' = [senior EXCEPT ![h] = @ - n]
    /\ totalSeniorShares' = totalSeniorShares - n
    /\ Counted
    /\ UNCHANGED <<totalJuniorShares, juniorGen, junior, yieldReserve, mode, gifts>>

MayWithdrawJunior(h, n) ==
    /\ Open /\ n <= sharesOfJunior(h) /\ now >= junior[h].unlockAt
    /\ n <= totalJuniorShares

WithdrawJunior(h, n) ==
    /\ MayWithdrawJunior(h, n)
    /\ LET value == (n * juniorNav) \div totalJuniorShares
       IN  /\ juniorNav' = juniorNav - value
           /\ pool' = pool - value
    /\ junior' = [junior EXCEPT ![h].shares = @ - n]
    /\ totalJuniorShares' = totalJuniorShares - n
    /\ Counted
    /\ UNCHANGED <<seniorNav, totalSeniorShares, senior, juniorGen, yieldReserve,
                   mode, gifts>>
-----------------------------------------------------------------------------
\* The waterfall.

\* MUTANT of ProfitSplit: the cut is taken from the profit, not from the rest
CutOfAll(profit) ==
    IF juniorRatioBps(seniorNav, juniorNav) < JuniorMinRatioBps
    THEN [senior |-> 0, reserve |-> 0, junior |-> profit]
    ELSE LET target == ((seniorNav * SeniorTargetApyBps) \div BPS) \div 365
             accrual == Lesser(profit, target)
             cut == (profit * ReserveCutBps) \div BPS
         IN  [senior |-> accrual, reserve |-> cut, junior |-> profit - accrual]

\* where a profit goes: all to a thin junior tranche, else the senior target,
\* the cut of the reserve, and the rest to the junior tranche
ProfitSplit(profit) ==
    IF juniorRatioBps(seniorNav, juniorNav) < JuniorMinRatioBps
    THEN [senior |-> 0, reserve |-> 0, junior |-> profit]
    ELSE LET target == ((seniorNav * SeniorTargetApyBps) \div BPS) \div 365
             accrual == Lesser(profit, target)
             cut == ((profit - accrual) * ReserveCutBps) \div BPS
         IN  [senior |-> accrual, reserve |-> cut, junior |-> profit - accrual - cut]

\* MUTANT of LossSplit: the reserve covers the senior tranche last
LossSeniorFirst(loss) ==
    LET j == Lesser(loss, juniorNav)
        s == Lesser(loss - j, seniorNav)
        r == Lesser(loss - j - s, yieldReserve)
    IN  [junior |-> j, reserve |-> r, senior |-> s, uncovered |-> loss - j - r - s]

\* MUTANT of LossSplit: a loss the reserve could bear is left uncovered
LossSkipsReserve(loss) ==
    LET j == Lesser(loss, juniorNav)
        s == Lesser(loss - j, seniorNav)
    IN  [junior |-> j, reserve |-> 0, senior |-> s, uncovered |-> loss - j - s]

\* MUTANT of LossSplit: the junior tranche bears what it does not have
LossUncapped(loss) == [junior |-> loss, reserve |-> 0, senior |-> 0, uncovered |-> 0]

\* who bears a loss: junior, then the reserve, then senior
LossSplit(loss) ==
    LET j == Lesser(loss, juniorNav)
        r == Lesser(loss - j, yieldReserve)
        s == Lesser(loss - j - r, seniorNav)
    IN  [junior |-> j, reserve |-> r, senior |-> s, uncovered |-> loss - j - r - s]

Recovered(s, j) == s > 0 /\ j * BPS >= s * RecoveryRatioBps

SettleProfit(pnl) ==
    /\ pnl >= 0
    /\ LET split == ProfitSplit(pnl)
       IN  /\ seniorNav' = seniorNav + split.senior
           /\ yieldReserve' = yieldReserve + split.reserve
           /\ juniorNav' = juniorNav + split.junior
    /\ pool' = pool + pnl
    /\ catastropheMode' = (catastropheMode /\ ~Recovered(seniorNav', juniorNav'))
    /\ UNCHANGED <<shares, insolvent>>

Wiped(loss) == loss > juniorNav

SettleLoss(pnl) ==
    /\ pnl < 0
    /\ LET split == LossSplit(-pnl)
       IN  /\ seniorNav' = seniorNav - split.senior
           /\ yieldReserve' = yieldReserve - split.reserve
           /\ juniorNav' = juniorNav - split.junior
           /\ pool' = pool - (-pnl - split.uncovered)
           /\ insolvent' = (split.uncovered > 0)
    /\ catastropheMode' = (catastropheMode \/ Wiped(-pnl))
    /\ IF Wiped(-pnl) /\ totalJuniorShares > 0
       THEN juniorGen' = juniorGen + 1 /\ totalJuniorShares' = 0
       ELSE UNCHANGED <<juniorGen, totalJuniorShares>>
    /\ UNCHANGED <<totalSeniorShares, senior, junior>>

\* settleEpoch, called by the operator
SettleEpoch(pnl) ==
    /\ Open
    /\ epochId' = epochId + 1
    /\ SettleProfit(pnl) \/ SettleLoss(pnl)
    /\ Counted
    /\ UNCHANGED gifts

\* usdc.transfer to the contract's address: no call of the contract
Gift(amount) ==
    /\ ops < MaxOps
    /\ pool' = pool + amount
    /\ gifts' = gifts + amount
    /\ Counted
    /\ UNCHANGED <<nav, shares, mode>>

\* block time passes; only the lock-up reads it
Wait ==
    /\ \E h \in Holders : now < junior[h].unlockAt
    /\ now' = now + 1
    /\ UNCHANGED <<nav, shares, mode, pool, gifts, ops>>

Next ==
    \/ \E h \in Holders, amount \in Deposits :
           DepositSenior(h, amount) \/ DepositJunior(h, amount)
    \/ \E h \in Holders, n \in Withdrawals :
           WithdrawSenior(h, n) \/ WithdrawJunior(h, n)
    \/ \E pnl \in PnLs : SettleEpoch(pnl)
    \/ \E amount \in Gifts : Gift(amount)
    \/ Wait

Spec == Init /\ [][Next]_vars
-----------------------------------------------------------------------------
\* Properties.

TypeOK ==
    /\ seniorNav \in Nat /\ juniorNav \in Nat /\ yieldReserve \in Nat
    /\ totalSeniorShares \in Nat /\ totalJuniorShares \in Nat
    /\ senior \in [Holders -> Nat]
    /\ junior \in [Holders -> [shares : Nat, gen : Nat, unlockAt : Nat]]
    /\ juniorGen \in Nat /\ epochId \in Nat
    /\ catastropheMode \in BOOLEAN /\ insolvent \in BOOLEAN
    /\ pool \in Nat /\ gifts \in Nat /\ now \in Nat /\ ops \in Nat

\* the contract holds what it owes: its balance is the two tranches and the
\* reserve, whatever was settled, withdrawn or charged (the invariant of
\* PVaultTranches.sol:23), and what was sent to its address without a call
Covered == pool = seniorNav + juniorNav + yieldReserve + gifts

\* the shares of a tranche are those of its holders: minting, redeeming and
\* voiding a generation keep the total and the positions together
SharesAddUp ==
    /\ totalSeniorShares = SumFunction(senior)
    /\ totalJuniorShares = SumFunction([h \in Holders |-> sharesOfJunior(h)])

\* the vault gives up only when nothing is left to cover a loss
InsolventIsEmpty ==
    insolvent => seniorNav = 0 /\ juniorNav = 0 /\ yieldReserve = 0

\* an epoch costs the senior tranche nothing before the junior tranche and the
\* reserve are gone
SeniorIsLast ==
    [][epochId' # epochId /\ seniorNav' < seniorNav
           => juniorNav' = 0 /\ yieldReserve' = 0]_vars

\* nobody's deposit or withdrawal lowers the value of the shares of others:
\* between epochs value per share never falls, rounding included
NotDiluted ==
    [][epochId' = epochId =>
        /\ totalSeniorShares > 0 /\ totalSeniorShares' > 0
               => seniorNav' * totalSeniorShares >= seniorNav * totalSeniorShares'
        /\ totalJuniorShares > 0 /\ totalJuniorShares' > 0
               => juniorNav' * totalJuniorShares >= juniorNav * totalJuniorShares']_vars

\* who deposits into an empty junior tranche owns all of it: "a wiped tranche's
\* shares are void and recapitalization starts clean" (PVaultTranches.sol:12)
RecapStartsClean ==
    [][\A h \in Holders :
        juniorNav = 0 /\ junior'[h].shares > junior[h].shares
            => junior'[h].shares = totalJuniorShares']_vars
=============================================================================
