------------------------------ MODULE Tranches ------------------------------
(***************************************************************************)
(* The venue's own vault, engine/src/vault/tranches.ts: the functions that *)
(* take a vault state s, and VaultRuntime.accrue of runtime.ts.            *)
(*                                                                         *)
(* A function that throws has changed nothing by then: an operation is     *)
(* its condition (May...) and its result.  VaultParams are the defaults.   *)
(* As in the contract, seniorGen is never assigned and is left out.        *)
(***************************************************************************)
EXTENDS Integers

DefaultVaultParams ==
    [seniorTargetApyBps |-> 1200, reserveCutBps |-> 1500,
     juniorMinRatioBps |-> 1500, seniorExitFeeBps |-> 100,
     recoveryRatioBps |-> 1000, concentrationBps |-> 500]
P == DefaultVaultParams

bmin(a, b) == IF a < b THEN a ELSE b

createVault(owners) ==
    [seniorNav6 |-> 0, totalSeniorShares |-> 0, juniorNav6 |-> 0,
     totalJuniorShares |-> 0, juniorGen |-> 0, yieldReserve6 |-> 0,
     epochId |-> 0, catastropheMode |-> FALSE, insolvent |-> FALSE, pooled6 |-> 0,
     senior |-> [o \in owners |-> 0],
     junior |-> [o \in owners |-> [shares |-> 0, gen |-> 0, unlockAt |-> 0]]]

sharesFor(amount, nav, total) ==
    IF total = 0 \/ nav = 0 THEN amount ELSE (amount * total) \div nav

MayDeposit(s, amount) == ~s.insolvent /\ amount > 0

depositSenior(s, o, amount) ==
    LET n == sharesFor(amount, s.seniorNav6, s.totalSeniorShares)
    IN  [s EXCEPT !.senior[o] = @ + n, !.totalSeniorShares = @ + n,
                  !.seniorNav6 = @ + amount, !.pooled6 = @ + amount]

\* MUTANT of heldJunior: the shares of a wiped generation still count
heldAnyGen(s, o) == s.junior[o].shares

heldJunior(s, o) == IF s.junior[o].gen = s.juniorGen THEN s.junior[o].shares ELSE 0

depositJunior(s, o, amount, now, lockup) ==
    LET n == sharesFor(amount, s.juniorNav6, s.totalJuniorShares)
        p == [shares |-> heldJunior(s, o) + n, gen |-> s.juniorGen,
              unlockAt |-> now + lockup]
    IN  [s EXCEPT !.junior[o] = p, !.totalJuniorShares = @ + n,
                  !.juniorNav6 = @ + amount, !.pooled6 = @ + amount]

MaySellSenior(s, o, n) ==
    /\ ~s.insolvent
    /\ n > 0 /\ s.senior[o] >= n
    /\ s.senior[o] * 10000 > s.totalSeniorShares * P.concentrationBps
           => n * 4 <= s.senior[o]

withdrawSenior(s, o, n) ==
    LET gross == (n * s.seniorNav6) \div s.totalSeniorShares
        fee == IF s.catastropheMode THEN (gross * P.seniorExitFeeBps) \div 10000 ELSE 0
    IN  [s EXCEPT !.senior[o] = @ - n, !.totalSeniorShares = @ - n,
                  !.seniorNav6 = @ - gross, !.juniorNav6 = @ + fee,
                  !.pooled6 = @ - (gross - fee)]

MaySellJunior(s, o, n, now) ==
    /\ ~s.insolvent
    /\ n > 0 /\ heldJunior(s, o) >= n
    /\ now >= s.junior[o].unlockAt

withdrawJunior(s, o, n) ==
    LET value == (n * s.juniorNav6) \div s.totalJuniorShares
    IN  [s EXCEPT !.junior[o].shares = @ - n, !.totalJuniorShares = @ - n,
                  !.juniorNav6 = @ - value, !.pooled6 = @ - value]

juniorRatio(s) ==
    IF s.seniorNav6 + s.juniorNav6 = 0 THEN 0
    ELSE (s.juniorNav6 * 10000) \div (s.seniorNav6 + s.juniorNav6)

\* settleEpoch for pnl >= 0
bookProfit(s, profit) ==
    LET thin == profit = 0 \/ juniorRatio(s) < P.juniorMinRatioBps
        target == ((s.seniorNav6 * P.seniorTargetApyBps) \div 10000) \div 365
        accrual == IF thin THEN 0 ELSE bmin(profit, target)
        reserve == IF thin THEN 0 ELSE ((profit - accrual) * P.reserveCutBps) \div 10000
        booked == [s EXCEPT !.pooled6 = @ + profit, !.seniorNav6 = @ + accrual,
                            !.yieldReserve6 = @ + reserve,
                            !.juniorNav6 = @ + (profit - accrual - reserve)]
    IN  [booked EXCEPT !.catastropheMode =
            @ /\ ~(/\ booked.seniorNav6 > 0
                   /\ booked.juniorNav6 * 10000 >= booked.seniorNav6 * P.recoveryRatioBps)]

\* settleEpoch for pnl < 0
bookLoss(s, loss) ==
    LET fromJunior == bmin(loss, s.juniorNav6)
        beyond == loss - fromJunior
        fromReserve == bmin(beyond, s.yieldReserve6)
        fromSenior == bmin(beyond - fromReserve, s.seniorNav6)
        uncovered == beyond - fromReserve - fromSenior
        wiped == beyond > 0 /\ s.totalJuniorShares > 0
    IN  [s EXCEPT !.juniorNav6 = @ - fromJunior, !.yieldReserve6 = @ - fromReserve,
                  !.seniorNav6 = @ - fromSenior,
                  !.juniorGen = IF wiped THEN @ + 1 ELSE @,
                  !.totalJuniorShares = IF wiped THEN 0 ELSE @,
                  !.catastropheMode = @ \/ beyond > 0,
                  !.pooled6 = @ - (loss - uncovered),
                  !.insolvent = uncovered > 0]

settleEpoch(s, pnl) ==
    LET opened == [s EXCEPT !.epochId = @ + 1]
    IN  IF pnl >= 0 THEN bookProfit(opened, pnl) ELSE bookLoss(opened, -pnl)

\* the fee VaultRuntime books for activity new events
feeUsd(activity) == 400 + ((4 * activity + 5) \div 10)

\* accrue of the runtime; the event count it is given only grows
accrue(s, activity) ==
    IF s.insolvent THEN s ELSE settleEpoch(s, feeUsd(activity))
=============================================================================
