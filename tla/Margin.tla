------------------------------- MODULE Margin -------------------------------
(***************************************************************************)
(* Fixed-point helpers and isolated-margin mathematics:                    *)
(* engine/src/fixed.ts and engine/src/margin.ts.                           *)
(*                                                                         *)
(* Units.  The code keeps prices and quantities at 1e8 and USD at 1e6, so  *)
(* quantity times price is 1e10 times as fine as USD.  That ratio is the   *)
(* parameter UsdScale, and the 1e6 scale of the gap and tier coefficients  *)
(* the parameter CoeffScale: TLC's integers have 32 bits.  Basis points    *)
(* are the code's, and every division of the code is a division here.      *)
(***************************************************************************)
EXTENDS Integers

CONSTANTS CoeffScale, UsdScale

ASSUME ScaleAssumption == CoeffScale \in Nat \ {0} /\ UsdScale \in Nat \ {0}

BPS == 10000

TierCodes == {"A", "B", "C", "D", "E"}

\* EngineParams, the risk configuration of a market
ParamsType == [baseImBps : Nat, baseMmBps : Nat, mmFloorBps : Nat,
               takerFeeBps : Nat, liqPenaltyBps : Nat, fundingClampBps : Nat,
               maxLeverage : [TierCodes -> Nat \ {0}], oiCap : Nat]

bigmax(a, b) == IF a > b THEN a ELSE b
bigmin(a, b) == IF a < b THEN a ELSE b
bigabs(a) == IF a < 0 THEN -a ELSE a

\* BigInt division truncates toward zero; \div rounds down
TruncDiv(a, b) == IF a >= 0 THEN a \div b ELSE -((-a) \div b)

\* what that division leaves over, with the sign of a
TruncMod(a, b) == IF a >= 0 THEN a % b ELSE -((-a) % b)

notionalUsd(qty, px) == (qty * px) \div UsdScale
applyBps(v, bps) == (v * bps) \div BPS
applyCoeff(v, c) == (v * c) \div CoeffScale

\* RiskCoeffs: c.gap >= 1, c.mult by tier, c.tier; both scaled by CoeffScale
RiskCoeffs == [gap : Nat, mult : Nat, tier : TierCodes]

imRequired(notional, p, c) ==
    applyCoeff(applyCoeff(applyBps(notional, p.baseImBps), c.gap), c.mult)

mmRequired(notional, p, c) ==
    bigmax(applyCoeff(applyCoeff(applyBps(notional, p.baseMmBps), c.gap), c.mult),
           applyBps(notional, p.mmFloorBps))

\* collateral to reserve for exposure: max(IM, notional / maxLeverage)
collateralRequired(notional, p, c) ==
    bigmax(imRequired(notional, p, c), notional \div p.maxLeverage[c.tier])

dirOf(side) == IF side = "buy" THEN 1 ELSE -1

\* a position is [side, qty, entry, col]; qty = 0 when there is none
unrealizedPnl(pos, mark) ==
    TruncDiv((mark - pos.entry) * pos.qty, UsdScale) * dirOf(pos.side)
positionNotional(pos, mark) == notionalUsd(pos.qty, mark)
positionEquity(pos, mark) == pos.col + unrealizedPnl(pos, mark)

isLiquidatable(pos, mark, p, c) ==
    /\ pos.qty > 0
    /\ positionEquity(pos, mark) < mmRequired(positionNotional(pos, mark), p, c)
=============================================================================
