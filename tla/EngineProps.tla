---------------------------- MODULE EngineProps ----------------------------
(* What the engine core has to guarantee: the properties of Engine.         *)
EXTENDS Engine

Reserve == [col : Nat, fee : Nat, qty : Nat]
Position == [side : Sides, qty : Nat, entry : Nat, col : Int]
RestingOrder == [id : AllIds, owner : Users, side : Sides, px : Nat \ {0},
                 rem : Nat \ {0}, seq : Nat]
Job == [m : Markets, id : AllIds \cup {NoId}, owner : Users, side : Sides,
        px : Nat \ {0}, qty : Nat \ {0}, tif : Tifs, liq : BOOLEAN, mark : Nat]
Loop == [kind : {"fire"}, m : Markets, round : Nat, last : Nat, hit : BOOLEAN,
         tick : BOOLEAN, mark : Nat]
        \cup [kind : {"scan"}, m : Markets, round : Nat, last : Nat,
              hit : BOOLEAN, tick : BOOLEAN]

(* Every variable holds a value of the type state.ts and types.ts declare;  *)
(* only the fund's balance and a position's collateral may be negative.     *)
TypeOK ==
    /\ seq \in Nat
    /\ free \in [Accounts -> Int]
    /\ reserved \in [Accounts -> Int]
    /\ lastNonce \in [Accounts -> Int]
    /\ tier \in [Accounts -> TierType]
    /\ pos \in [Markets -> [Accounts -> Position]]
    /\ ledger \in [AllIds -> Reserve]
    /\ book \in [Markets -> Seq(RestingOrder)]
    /\ triggers \in [Markets -> SUBSET TriggerType]
    /\ index \in [Markets -> Nat]
    /\ mark \in [Markets -> Nat]
    /\ gap \in [Markets -> Nat]
    /\ reduceOnly \in [Markets -> BOOLEAN]
    /\ fees \in Nat
    /\ dust \in Int
    /\ deposited \in Nat
    /\ withdrawn \in Nat
    /\ job \in Job \cup {NoJob}
    /\ rem \in Nat
    /\ loop \in Loop \cup {NoLoop}
-----------------------------------------------------------------------------
\* USD in the units of price times quantity, in which nothing is rounded
Fine(usd) == UsdScale * usd

Cash == fees + SumFunction(free) + SumFunction(reserved)

FineEquity(p, x) == Fine(p.col) + (x - p.entry) * p.qty * dirOf(p.side)

MarketEquity(m) == SumFunction([a \in Accounts |-> FineEquity(pos[m][a], mark[m])])

Equity == SumFunction([m \in Markets |-> MarketEquity(m)])

(* The conservation law of state.ts (checkConservation) without its         *)
(* tolerance: deposits less withdrawals are the cash and the equity of      *)
(* every position at its market's mark, but for the remainders dust counts: *)
(* of the realized PnL of every close, of average entry prices, and of      *)
(* funding.  It holds after every step, also half way through a command.    *)
Conserved ==
    Fine(SumFunction(Seeds) + deposited - withdrawn) + dust = Fine(Cash) + Equity

SideQty(m, side) ==
    SumFunction([a \in Accounts |->
                    IF pos[m][a].side = side THEN pos[m][a].qty ELSE 0])

(* Open interest is balanced in every market: each long contract has its    *)
(* short, through flips, liquidations and backstop fills (core.ts header).  *)
OiBalanced == \A m \in Markets : SideQty(m, "buy") = SideQty(m, "sell")

(* No user's withdrawable balance goes below zero, whatever it loses:       *)
(* losses beyond a position's collateral fall on the fund.                  *)
UsersSolvent == \A u \in Users : free[u] >= 0

\* an order of u that holds or may hold a reservation: it rests in m, or it is
\* being matched there
HeldBy(u, m, id) ==
    \/ \E i \in DOMAIN book[m] : book[m][i].id = id /\ book[m][i].owner = u
    \/ job # NoJob /\ ~job.liq /\ job.m = m /\ job.id = id /\ job.owner = u

HeldOrders(u) == {x \in Markets \X AllIds : HeldBy(u, x[1], x[2])}

\* what the reservations l of the orders in held amount to
Backing(l, held) ==
    SumFunction([x \in Markets \X AllIds |->
                    IF x \in held THEN l[x[2]].col + l[x[2]].fee ELSE 0])

(* Account.reserved is exactly what the account's live orders still hold,   *)
(* and the reservation of a resting order covers what is left of it: fills, *)
(* cancels, self-trade prevention and liquidations neither strand nor       *)
(* over-draw a reservation (types.ts, Account.reserved).                    *)
ReserveBacked ==
    /\ \A u \in Users : reserved[u] = Backing(ledger, HeldOrders(u))
    /\ reserved[Fund] = 0
    /\ \A m \in Markets : \A i \in DOMAIN book[m] :
          ledger[book[m][i].id].qty = book[m][i].rem

(* Books are uncrossed after every step of every command, liquidations      *)
(* included, and no order rests twice (book.ts).                            *)
BooksSound == \A m \in Markets : Uncrossed(book[m]) /\ UniqueIds(book[m])
-----------------------------------------------------------------------------
(* When a command that scans is over, no user is under maintenance margin   *)
(* in its market, although each liquidation moves the mark the others are   *)
(* measured at (core.ts, liquidationScan).                                  *)
ScanLeavesNoneUnder ==
    [][\A m \in Markets : Looping("scan") /\ loop.m = m /\ Idle' =>
         \A u \in Users : ~Liquidatable(m, u)']_vars

(* A liquidation ends with the position flat, neither flipped nor partly    *)
(* open, and with none of the owner's orders left in that market.           *)
LiquidationCloses ==
    [][job # NoJob /\ job.liq /\ job' = NoJob =>
         /\ pos'[job.m][job.owner] = Flat
         /\ \A i \in DOMAIN book'[job.m] : book'[job.m][i].owner # job.owner]_vars

(* While a market is in reduce-only mode its open interest does not grow,   *)
(* whichever orders rested before the mode came on.                         *)
ReduceOnlyShrinks ==
    [][\A m \in Markets :
         reduceOnly[m] => SideQty(m, "buy")' <= SideQty(m, "buy")]_vars

(* An IOC order (a close, a fired bracket, a liquidation) never flips the   *)
(* position it meets: "would flip position: close first" (core.ts).         *)
IocNeverFlips ==
    [][job # NoJob /\ job.tif = "IOC" =>
         LET p == pos[job.m][job.owner]
             q == pos'[job.m][job.owner]
         IN p.qty > 0 /\ q.qty > 0 => q.side = p.side]_vars

(* Funding is a transfer between longs and shorts: what the accounts of a   *)
(* market receive and pay differs by less than a unit and the rate per      *)
(* position, the roundings of the payment and of the notional it is a part  *)
(* of, so a tick neither mints nor burns collateral (core.ts, FundingTick). *)
FundingNets ==
    [][\A m \in Markets :
         LET paid == SumFunction([a \in Accounts |-> pos'[m][a].col - pos[m][a].col])
             open == {a \in Accounts : pos[m][a].qty > 0}
             unit == BPS + bigabs(FundingRate(m))
         IN Idle /\ pos'[m] # pos[m] =>
               bigabs(paid) * BPS < Cardinality(open) * unit]_vars

(* Every command is applied to its end: the matching loop, the trigger      *)
(* rounds and the liquidation scan terminate, cascades included.            *)
CommandsComplete == (~Idle) ~> Idle
=============================================================================
