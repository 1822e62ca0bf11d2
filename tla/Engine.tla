------------------------------- MODULE Engine -------------------------------
(***************************************************************************)
(* The deterministic core of the venue: apply(state, command) of           *)
(* engine/src/core.ts over the state of engine/src/state.ts.               *)
(*                                                                         *)
(* apply is synchronous and the process single-threaded: commands are      *)
(* taken one at a time.  A command that loops (the matching loop of        *)
(* book.ts, the trigger rounds, the liquidation scan) is a run of steps    *)
(* here, and no other command can start before Idle holds again.  The code *)
(* matches an order completely before it settles the fills; matching reads *)
(* no account and settling reads no book, so one step here matches and     *)
(* settles one fill.                                                       *)
(*                                                                         *)
(* Left out: events and their hash chain, the behavioural counters of an   *)
(* account (nothing in the core reads them back), pendingPlan and epochId. *)
(***************************************************************************)
EXTENDS Margin, BookOps, FiniteSetsExt

CONSTANTS
    Users,         \* accounts other than the insurance fund, as numbers: the
                   \* code visits accounts in the order of their names
    Markets,
    OrderIds,      \* ids clients choose for their orders
    TriggerIds,    \* trigger ids; the id of a fired child is derived from it
    Params,        \* EngineParams
    Orders,        \* orders clients submit (without nonce)
    Triggers,      \* conditional orders clients submit
    Amounts,       \* amounts deposited or withdrawn
    IndexPrices,   \* oracle prices
    GapCoeffs,     \* gap coefficients of risk readings
    TierReadings,  \* [mult, tier] of tier updates
    NonceSteps,    \* nonce of an order minus the account's last one
    Seeds,         \* deposits applied before the first modelled command
    OpenPrice,     \* index before the first modelled command, 0 = no tick yet
    MaxSeq         \* bound: number of commands

Fund == 0                        \* INSURANCE_ACCOUNT
Accounts == Users \cup {Fund}
AllIds == OrderIds \cup TriggerIds
NoId == 0                        \* the id of a synthetic liquidation order

OrderType == [m : Markets, id : OrderIds, owner : Users, side : Sides,
              px : Nat \ {0}, qty : Nat \ {0}, tif : Tifs,
              reduceOnly : BOOLEAN, expiry : Nat]
TriggerType == [m : Markets, id : TriggerIds, owner : Users, side : Sides,
                px : Nat \ {0}, above : BOOLEAN, qty : Nat \ {0},
                limit : Nat, reduceOnly : BOOLEAN]
TierType == [mult : Nat, tier : TierCodes]

ASSUME EngineAssumption ==
    /\ Users \subseteq Nat \ {0} /\ IsFiniteSet(Users)
    /\ IsFiniteSet(Markets)
    /\ OrderIds \subseteq Nat \ {0} /\ IsFiniteSet(OrderIds)
    /\ TriggerIds \subseteq Nat \ {0} /\ IsFiniteSet(TriggerIds)
    /\ OrderIds \cap TriggerIds = {}
    /\ Params \in ParamsType
    /\ Orders \subseteq OrderType
    /\ Triggers \subseteq TriggerType
    /\ Amounts \subseteq Nat \ {0}
    /\ IndexPrices \subseteq Nat \ {0}
    /\ GapCoeffs \subseteq Nat
    /\ TierReadings \subseteq TierType
    /\ NonceSteps \subseteq Int
    /\ Seeds \in [Accounts -> Nat]
    /\ OpenPrice \in [Markets -> Nat]
    /\ MaxSeq \in Nat

VARIABLES
    seq,          \* commands applied
    free,         \* account.free
    reserved,     \* account.reserved
    lastNonce,    \* account.lastNonce
    tier,         \* account.tier
    pos,          \* account.positions, by market
    ledger,       \* the order reserves: ONE map keyed by order id
    book,         \* resting orders, by market
    triggers,     \* armed triggers, by market
    index, mark,  \* oracle and mark price, by market
    gap,          \* gap coefficient, by market
    reduceOnly,   \* reduce-only mode, by market
    fees,         \* feePool
    deposited,    \* totalDeposited, less the Seeds
    withdrawn,    \* totalWithdrawn
    dust,         \* history: what divisions added to the books, in the units
                  \* of price times quantity
    job,          \* the order being matched, NoJob if none
    rem,          \* its remaining quantity
    loop          \* the fireTriggers / liquidationScan in progress

money == <<free, reserved, fees, dust>>
feeds == <<index, gap, reduceOnly, tier>>
totals == <<deposited, withdrawn>>
vars == <<seq, money, lastNonce, pos, ledger, book, triggers, feeds, mark,
          totals, job, rem, loop>>

Flat == [side |-> "buy", qty |-> 0, entry |-> 0, col |-> 0]
NoReserve == [col |-> 0, fee |-> 0, qty |-> 0]
NoJob == [id |-> -1]
NoLoop == [kind |-> "none"]

Idle == job = NoJob /\ loop = NoLoop

Init ==
    /\ seq = 0
    /\ free = Seeds
    /\ reserved = [a \in Accounts |-> 0]
    /\ lastNonce = [a \in Accounts |-> -1]
    /\ tier = [a \in Accounts |-> [mult |-> CoeffScale, tier |-> "C"]]
    /\ pos = [m \in Markets |-> [a \in Accounts |-> Flat]]
    /\ ledger = [id \in AllIds |-> NoReserve]
    /\ book = [m \in Markets |-> <<>>]
    /\ triggers = [m \in Markets |-> {}]
    /\ index = OpenPrice
    /\ mark = OpenPrice
    /\ gap = [m \in Markets |-> CoeffScale]
    /\ reduceOnly = [m \in Markets |-> FALSE]
    /\ fees = 0
    /\ deposited = 0
    /\ withdrawn = 0
    /\ dust = 0
    /\ job = NoJob
    /\ rem = 0
    /\ loop = NoLoop
-----------------------------------------------------------------------------
\* Settlement of fills.  w is the part of the state a fill changes:
\* [free, reserved, fees, dust, pos], pos being that of the fill's market.

World(m) == [free |-> free, reserved |-> reserved, fees |-> fees,
             dust |-> dust, pos |-> pos[m]]

\* MUTANT of CloseOut: the reservation of the closed part is forgotten
CloseOutNet(net, col, left) == bigmax(net, 0) + left

\* what a close returns to its owner: the proceeds, the reservation the
\* closed part did not need, and the collateral left with a flat position
CloseOut(net, col, left) == bigmax(net, 0) + col + left

\* the leg of a fill that closes q of u's position at px; the reservation col
\* of that part is not needed, losses beyond the collateral fall on the fund.
\* The truncation of the PnL is a loss of the remainder, or a gain
CloseLeg(w, u, px, q, col) ==
    LET p == w.pos[u]
        share == TruncDiv(p.col * q, p.qty)
        gain == (px - p.entry) * q * dirOf(p.side)
        net == share + TruncDiv(gain, UsdScale)
        fromIso == IF net < 0 THEN bigmin(-net, p.col - share) ELSE 0
        left == p.col - share - fromIso
        badDebt == IF net < 0 THEN -net - fromIso ELSE 0
        out == CloseOut(net, col, IF q = p.qty THEN left ELSE 0)
        paid == [w.free EXCEPT ![Fund] = @ - badDebt]
    IN [w EXCEPT
          !.free = [paid EXCEPT ![u] = @ + out],
          !.dust = @ - TruncMod(gain, UsdScale),
          !.pos[u] = IF q = p.qty THEN Flat
                     ELSE [p EXCEPT !.qty = @ - q, !.col = left]]

\* the leg that opens a position or adds to one of the same side; the average
\* entry price is rounded down
OpenLeg(w, u, side, px, q, col) ==
    LET p == w.pos[u]
        qty == p.qty + q
        cost == p.entry * p.qty + px * q
        entry == IF p.qty = 0 THEN px ELSE cost \div qty
    IN [w EXCEPT
          !.pos[u] = [side |-> side, qty |-> qty, entry |-> entry,
                      col |-> p.col + col],
          !.dust = @ + dirOf(side) * (IF p.qty = 0 THEN 0 ELSE cost % qty)]

\* one party's side of a fill; col and fee are the parts of its order's
\* reservation that the fill consumes
ApplyFill(w, u, side, px, q, col, fee) ==
    LET p == w.pos[u]
        closeQty == IF p.side = side THEN 0 ELSE bigmin(q, p.qty)
        colForClose == (col * closeQty) \div q
        w1 == [w EXCEPT !.reserved[u] = @ - (col + fee), !.fees = @ + fee]
        w2 == IF closeQty = 0 THEN w1
              ELSE CloseLeg(w1, u, px, closeQty, colForClose)
    IN IF q = closeQty THEN w2
       ELSE OpenLeg(w2, u, side, px, q - closeQty, col - colForClose)

SetWorld(m, w) ==
    /\ free' = w.free
    /\ reserved' = w.reserved
    /\ fees' = w.fees
    /\ dust' = w.dust
    /\ pos' = [pos EXCEPT ![m] = w.pos]
-----------------------------------------------------------------------------
\* The order reserves.

\* what a fill of q draws from the reservation r of an order
Drawn(r, q) ==
    IF r.qty = 0 THEN NoReserve
    ELSE LET n == bigmin(q, r.qty)
         IN IF n = r.qty THEN r
            ELSE [col |-> (r.col * n) \div r.qty, fee |-> (r.fee * n) \div r.qty,
                  qty |-> n]

LeftOver(r, d) ==
    [col |-> r.col - d.col, fee |-> r.fee - d.fee, qty |-> r.qty - d.qty]

Draw(l, id, q) == [l EXCEPT ![id] = LeftOver(@, Drawn(@, q))]

\* balances and reserves; h is [free, reserved, ledger]
Holdings == [free |-> free, reserved |-> reserved, ledger |-> ledger]

\* r is set aside for the order id of u; what that id held is overwritten
Held(h, u, id, r) ==
    [free |-> [h.free EXCEPT ![u] = @ - (r.col + r.fee)],
     reserved |-> [h.reserved EXCEPT ![u] = @ + (r.col + r.fee)],
     ledger |-> [h.ledger EXCEPT ![id] = r]]

\* releaseReserve: what is left of the reservation goes back to u's balance
Returned(h, u, id) ==
    LET r == h.ledger[id]
    IN [free |-> [h.free EXCEPT ![u] = @ + (r.col + r.fee)],
        reserved |-> [h.reserved EXCEPT ![u] = @ - (r.col + r.fee)],
        ledger |-> [h.ledger EXCEPT ![id] = NoReserve]]

SetHoldings(h) ==
    /\ free' = h.free
    /\ reserved' = h.reserved
    /\ ledger' = h.ledger
    /\ UNCHANGED <<fees, dust>>

Release(u, id) == SetHoldings(Returned(Holdings, u, id))

coeffsFor(m, u) == [gap |-> gap[m], mult |-> tier[u].mult, tier |-> tier[u].tier]

currentOi(m) ==
    LET px == IF mark[m] # 0 THEN mark[m] ELSE index[m]
    IN MapThenSumSet(LAMBDA a : positionNotional(pos[m][a], px), Accounts) \div 2
-----------------------------------------------------------------------------
\* placeOrder

OppositeQty(o) ==
    IF pos[o.m][o.owner].side # o.side THEN pos[o.m][o.owner].qty ELSE 0

\* MUTANT of QtyOf: no clamp
QtyAsked(o) == o.qty

\* a reduce-only order is clamped to the position it reduces
QtyOf(o) == IF o.reduceOnly THEN bigmin(o.qty, OppositeQty(o)) ELSE o.qty

\* an order that can rest counts in full, an IOC beyond what it closes
ExposureQty(o) ==
    IF o.tif = "IOC" THEN bigmax(0, QtyOf(o) - OppositeQty(o)) ELSE QtyOf(o)

Reservation(o) ==
    LET notional == notionalUsd(ExposureQty(o), o.px)
    IN [col |-> collateralRequired(notional, Params, coeffsFor(o.m, o.owner)),
        fee |-> applyBps(notional, Params.takerFeeBps),
        qty |-> QtyOf(o)]

\* MUTANT of ModeAllows: whoever has something to reduce may trade
AllowsReducers(o) == reduceOnly[o.m] => OppositeQty(o) > 0

\* a market in reduce-only mode takes no order that adds exposure
ModeAllows(o) == reduceOnly[o.m] => ExposureQty(o) = 0

WouldFlip(o) ==
    /\ o.tif = "IOC"
    /\ ~o.reduceOnly
    /\ OppositeQty(o) > 0
    /\ o.qty > OppositeQty(o)

\* the pre-trade checks of placeOrder after those on nonce and expiry
Acceptable(o) ==
    /\ index[o.m] # 0
    /\ o.reduceOnly => o.tif = "IOC"
    /\ o.id \notin RestingIds(book[o.m])
    /\ o.reduceOnly => OppositeQty(o) > 0
    /\ ModeAllows(o)
    /\ ~WouldFlip(o)
    /\ ExposureQty(o) > 0 =>
          /\ currentOi(o.m) + notionalUsd(ExposureQty(o), o.px) <= Params.oiCap
          /\ free[o.owner] >= Reservation(o).col + Reservation(o).fee

PostOnlyRejected(o) ==
    o.tif = "POST_ONLY" /\ CanMatch(book[o.m], o.side, o.px)

\* the reservation of o, if it may add exposure
Reserving(o) ==
    IF ExposureQty(o) = 0 THEN Holdings
    ELSE Held(Holdings, o.owner, o.id, Reservation(o))

\* the reservation is taken and the order goes to the book
Enter(o) ==
    /\ job' = [m |-> o.m, id |-> o.id, owner |-> o.owner, side |-> o.side,
               px |-> o.px, qty |-> QtyOf(o), tif |-> o.tif,
               liq |-> FALSE, mark |-> 0]
    /\ rem' = QtyOf(o)
    /\ SetHoldings(Reserving(o))

\* MUTANT of BounceOff: the early return of the rejected order keeps its reservation
BounceKept(o) ==
    /\ SetHoldings(Reserving(o))
    /\ UNCHANGED <<job, rem>>

\* the reservation is taken, the book rejects the order, and what the ledger
\* then holds for its id is released
BounceOff(o) ==
    /\ SetHoldings(Returned(Reserving(o), o.owner, o.id))
    /\ UNCHANGED <<job, rem>>

Command == Idle /\ seq < MaxSeq /\ seq' = seq + 1

PlaceOrder(o, nonce) ==
    /\ Command
    /\ nonce > lastNonce[o.owner]
    /\ o.expiry = 0 \/ o.expiry >= seq'
    /\ Acceptable(o)
    /\ lastNonce' = [lastNonce EXCEPT ![o.owner] = nonce]
    /\ IF PostOnlyRejected(o) THEN BounceOff(o) ELSE Enter(o)
    /\ UNCHANGED <<pos, book, triggers, feeds, mark, totals, loop>>

\* every early return of placeOrder before the nonce is consumed
RefuseOrder(o, nonce) ==
    /\ Command
    /\ \/ nonce <= lastNonce[o.owner]
       \/ o.expiry # 0 /\ o.expiry < seq'
       \/ ~Acceptable(o)
    /\ UNCHANGED <<money, lastNonce, pos, ledger, book, triggers, feeds, mark,
                   totals, job, rem, loop>>

\* the matching loop meets the head of the best level
Meets(i) ==
    /\ job # NoJob
    /\ ~(job.liq /\ \E j \in DOMAIN book[job.m] : book[job.m][j].owner = job.owner)
    /\ rem > 0
    /\ IsBest(book[job.m], job.side, i)
    /\ Crosses(job.side, job.px, book[job.m][i].px)

\* self-trade prevention cancels the resting order
MatchOwn(i) ==
    /\ Meets(i)
    /\ book[job.m][i].owner = job.owner
    /\ Release(job.owner, book[job.m][i].id)
    /\ book' = [book EXCEPT ![job.m] = Without(@, i)]
    /\ UNCHANGED <<seq, lastNonce, pos, triggers, feeds, mark, totals, job, rem,
                   loop>>

\* a fill: the taker's draw, then the maker's; the maker settles first
MatchFill(i) ==
    LET o == book[job.m][i]
        q == bigmin(rem, o.rem)
        t == IF job.liq THEN NoReserve ELSE Drawn(ledger[job.id], q)
        l == IF job.liq THEN ledger ELSE Draw(ledger, job.id, q)
        d == Drawn(l[o.id], q)
        maker == ApplyFill(World(job.m), o.owner, Opposite(job.side), o.px, q,
                           d.col, d.fee)
    IN
    /\ Meets(i)
    /\ o.owner # job.owner
    /\ \E w \in {maker} :
         \E v \in {ApplyFill(w, job.owner, job.side, o.px, q, t.col, t.fee)} :
            SetWorld(job.m, v)
    /\ ledger' = Draw(l, o.id, q)
    /\ book' = [book EXCEPT ![job.m] = Consume(@, i, q)]
    /\ mark' = [mark EXCEPT ![job.m] = o.px]
    /\ rem' = rem - q
    /\ UNCHANGED <<seq, lastNonce, triggers, feeds, totals, job, loop>>

\* MUTANT of Matched: no break when the best level does not cross
MatchedInFull == rem = 0

Matched == rem = 0 \/ ~CanMatch(book[job.m], job.side, job.px)

\* the end of addOrder and of placeOrder: the remainder rests, or what is left
\* of the reservation is released
EndOrder ==
    /\ job # NoJob /\ ~job.liq
    /\ Matched
    /\ IF rem > 0 /\ job.tif # "IOC"
       THEN /\ book' = [book EXCEPT ![job.m] = RestOrder(@, job, rem, seq)]
            /\ UNCHANGED <<money, ledger>>
       ELSE /\ Release(job.owner, job.id)
            /\ UNCHANGED book
    /\ job' = NoJob
    /\ rem' = 0
    /\ UNCHANGED <<seq, lastNonce, pos, triggers, feeds, mark, totals, loop>>
-----------------------------------------------------------------------------
\* Balances, cancels and readings.

Deposit(u, amount) ==
    /\ Command
    /\ free' = [free EXCEPT ![u] = @ + amount]
    /\ deposited' = deposited + amount
    /\ UNCHANGED <<reserved, fees, dust, lastNonce, pos, ledger, book, triggers,
                   feeds, mark, withdrawn, job, rem, loop>>

MayWithdraw(u, amount) == amount <= free[u]

Withdraw(u, amount) ==
    /\ Command
    /\ MayWithdraw(u, amount)
    /\ free' = [free EXCEPT ![u] = @ - amount]
    /\ withdrawn' = withdrawn + amount
    /\ UNCHANGED <<reserved, fees, dust, lastNonce, pos, ledger, book, triggers,
                   feeds, mark, deposited, job, rem, loop>>

CancelOrder(u, m, id) ==
    /\ Command
    /\ \E i \in DOMAIN book[m] :
          /\ book[m][i].id = id
          /\ book[m][i].owner = u
          /\ book' = [book EXCEPT ![m] = Without(@, i)]
    /\ Release(u, id)
    /\ UNCHANGED <<lastNonce, pos, triggers, feeds, mark, totals, job, rem, loop>>

GapReading(m, g) ==
    /\ Command
    /\ gap' = [gap EXCEPT ![m] = g]
    /\ UNCHANGED <<money, lastNonce, pos, ledger, book, triggers, index,
                   reduceOnly, tier, mark, totals, job, rem, loop>>

ConfidenceReading(m, on) ==
    /\ Command
    /\ reduceOnly' = [reduceOnly EXCEPT ![m] = on]
    /\ UNCHANGED <<money, lastNonce, pos, ledger, book, triggers, index, gap,
                   tier, mark, totals, job, rem, loop>>

TierUpdate(u, t) ==
    /\ Command
    /\ tier' = [tier EXCEPT ![u] = t]
    /\ UNCHANGED <<money, lastNonce, pos, ledger, book, triggers, index, gap,
                   reduceOnly, mark, totals, job, rem, loop>>
-----------------------------------------------------------------------------
\* Triggers, liquidations and the commands that run them.  loop is
\*   [kind |-> "fire", m, round, last, hit, tick, mark]  or
\*   [kind |-> "scan", m, round, last, hit, tick]
\* last: id or account visited last in this round; hit: something fired or was
\* liquidated in it; tick: it serves an OracleTick, whose trigger rounds a
\* liquidation scan follows; mark: the mark at the start of the round.

FireRounds == 10
\* MUTANT of ScanRounds: one pass
OnePass == 1
ScanRounds == 25

FireLoop(m, round, px, tick) ==
    [kind |-> "fire", m |-> m, round |-> round, last |-> 0, hit |-> FALSE,
     mark |-> px, tick |-> tick]
ScanLoop(m, round, tick) ==
    [kind |-> "scan", m |-> m, round |-> round, last |-> 0, hit |-> FALSE,
     tick |-> tick]

PlaceTrigger(t) ==
    /\ Command
    /\ \A x \in triggers[t.m] : x.id # t.id
    /\ triggers' = [triggers EXCEPT ![t.m] = @ \cup {t}]
    /\ loop' = IF mark[t.m] = 0 THEN NoLoop
               ELSE FireLoop(t.m, 1, mark[t.m], FALSE)
    /\ UNCHANGED <<money, lastNonce, pos, ledger, book, feeds, mark, totals, job,
                   rem>>

CancelTrigger(t) ==
    /\ Command
    /\ t \in triggers[t.m]
    /\ triggers' = [triggers EXCEPT ![t.m] = @ \ {t}]
    /\ UNCHANGED <<money, lastNonce, pos, ledger, book, feeds, mark, totals, job,
                   rem, loop>>

\* the mark an oracle tick leaves before it fires triggers: the last trade
\* only while it stays within 0.5% of the index
SnappedMark(last, idx) ==
    IF last = 0 \/ bigabs(last - idx) * 200 > idx THEN idx ELSE last

OracleTick(m, px) ==
    /\ Command
    /\ index' = [index EXCEPT ![m] = px]
    /\ mark' = [mark EXCEPT ![m] = SnappedMark(@, px)]
    /\ loop' = FireLoop(m, 1, SnappedMark(mark[m], px), TRUE)
    /\ UNCHANGED <<money, lastNonce, pos, ledger, book, triggers, gap,
                   reduceOnly, tier, totals, job, rem>>

FundingRate(m) ==
    LET premium == TruncDiv((mark[m] - index[m]) * BPS, index[m])
        clamp == Params.fundingClampBps
    IN bigmax(-clamp, bigmin(clamp, premium))

\* MUTANT of FundingFlow: the sign of the rate is ignored
FundingUnsigned(m, a) ==
    LET p == pos[m][a]
    IN -applyBps(positionNotional(p, mark[m]), bigabs(FundingRate(m)))

\* what account a receives from a funding tick (negative: pays)
FundingFlow(m, a) ==
    LET p == pos[m][a]
        pay == applyBps(positionNotional(p, mark[m]), bigabs(FundingRate(m)))
    IN IF (FundingRate(m) > 0) = (p.side = "buy") THEN -pay ELSE pay

FundingTick(m) ==
    /\ Command
    /\ index[m] # 0
    /\ IF FundingRate(m) = 0 THEN UNCHANGED <<pos, dust>>
       ELSE /\ pos' = [pos EXCEPT ![m] = [a \in Accounts |->
                        [pos[m][a] EXCEPT !.col = @ + FundingFlow(m, a)]]]
            /\ dust' = dust + UsdScale
                               * SumFunction([a \in Accounts |-> FundingFlow(m, a)])
    /\ loop' = ScanLoop(m, 1, FALSE)
    /\ UNCHANGED <<free, reserved, fees, lastNonce, ledger, book, triggers, feeds,
                   mark, totals, job, rem>>

Looping(kind) == job = NoJob /\ loop.kind = kind

Crossed(t, px) == IF t.above THEN px >= t.px ELSE px <= t.px

\* the armed triggers this round has still to visit and will fire
Due == {t \in triggers[loop.m] : t.id > loop.last /\ Crossed(t, loop.mark)}

\* the child order: a marketable IOC around the index, or a GTC limit
ChildOrder(t) ==
    LET asMarket == t.limit = 0 \/ t.reduceOnly
        idx == IF index[t.m] # 0 THEN index[t.m] ELSE loop.mark
    IN [m |-> t.m, id |-> t.id, owner |-> t.owner, side |-> t.side,
        px |-> IF ~asMarket THEN t.limit
               ELSE IF t.side = "buy" THEN (idx * 105) \div 100
               ELSE (idx * 95) \div 100,
        qty |-> t.qty, tif |-> IF asMarket THEN "IOC" ELSE "GTC",
        reduceOnly |-> t.reduceOnly, expiry |-> 0]

\* disarm it and place its child, which may be rejected
FireTrigger(t) ==
    /\ Looping("fire")
    /\ t \in Due
    /\ \A x \in Due : t.id <= x.id
    /\ triggers' = [triggers EXCEPT ![t.m] = @ \ {t}]
    /\ loop' = [loop EXCEPT !.last = t.id, !.hit = TRUE]
    /\ IF ChildOrder(t).px > 0 /\ Acceptable(ChildOrder(t))
       THEN Enter(ChildOrder(t))
       ELSE UNCHANGED <<money, ledger, job, rem>>
    /\ UNCHANGED <<seq, lastNonce, pos, book, feeds, mark, totals>>

EndFireRound ==
    /\ Looping("fire")
    /\ Due = {}
    /\ loop' = CASE loop.hit /\ loop.round < FireRounds ->
                      FireLoop(loop.m, loop.round + 1, mark[loop.m], loop.tick)
                 [] ~(loop.hit /\ loop.round < FireRounds) /\ loop.tick ->
                      ScanLoop(loop.m, 1, TRUE)
                 [] OTHER -> NoLoop
    /\ UNCHANGED <<seq, money, lastNonce, pos, ledger, book, triggers, feeds, mark,
                   totals, job, rem>>

Liquidatable(m, u) == isLiquidatable(pos[m][u], mark[m], Params, coeffsFor(m, u))

\* the users this round has still to visit that are under margin now
UnderMargin == {u \in Users : u > loop.last /\ Liquidatable(loop.m, u)}

\* the limit at which an order on `side` takes whatever the book offers
AnyPrice(side) == IF side = "sell" THEN 1 ELSE 1000000000

\* a synthetic IOC reduce order for the whole position, at any price
Liquidate(u) ==
    LET p == pos[loop.m][u] IN
    /\ Looping("scan")
    /\ u \in UnderMargin
    /\ \A x \in UnderMargin : u <= x
    /\ job' = [m |-> loop.m, id |-> NoId, owner |-> u, side |-> Opposite(p.side),
               px |-> AnyPrice(Opposite(p.side)), qty |-> p.qty,
               tif |-> "IOC", liq |-> TRUE, mark |-> mark[loop.m]]
    /\ rem' = p.qty
    /\ loop' = [loop EXCEPT !.last = u, !.hit = TRUE]
    /\ UNCHANGED <<seq, money, lastNonce, pos, ledger, book, triggers, feeds, mark,
                   totals>>

\* first the owner's resting orders in this market are pulled, oldest first
PullOrder(i) ==
    /\ job # NoJob /\ job.liq
    /\ book[job.m][i].owner = job.owner
    /\ \A j \in 1..(i - 1) : book[job.m][j].owner # job.owner
    /\ Release(job.owner, book[job.m][i].id)
    /\ book' = [book EXCEPT ![job.m] = Without(@, i)]
    /\ UNCHANGED <<seq, lastNonce, pos, triggers, feeds, mark, totals, job, rem,
                   loop>>

\* MUTANT of Backstop: the fund stands in only while it can post collateral
BackstopIfFunded ==
    LET n == notionalUsd(rem, job.mark)
        col == collateralRequired(n, Params, [gap |-> gap[job.m],
                                              mult |-> CoeffScale, tier |-> "C"])
        w == [World(job.m) EXCEPT !.free[Fund] = @ - col, !.reserved[Fund] = @ + col]
        v == ApplyFill(w, job.owner, job.side, job.mark, rem, 0, 0)
    IN IF rem = 0 \/ free[Fund] < col THEN World(job.m)
       ELSE ApplyFill(v, Fund, Opposite(job.side), job.mark, rem, col, 0)

\* MUTANT of Backstop: the fund takes the whole position, filled or not
BackstopWhole ==
    LET n == notionalUsd(rem, job.mark)
        col == collateralRequired(n, Params, [gap |-> gap[job.m],
                                              mult |-> CoeffScale, tier |-> "C"])
        w == [World(job.m) EXCEPT !.free[Fund] = @ - col, !.reserved[Fund] = @ + col]
        v == ApplyFill(w, job.owner, job.side, job.mark, rem, 0, 0)
    IN IF rem = 0 THEN World(job.m)
       ELSE ApplyFill(v, Fund, Opposite(job.side), job.mark, job.qty, col, 0)

\* the fund takes over what the book did not, at the mark that triggered it,
\* staging the collateral of its new position through reserved
Backstop ==
    LET n == notionalUsd(rem, job.mark)
        col == collateralRequired(n, Params, [gap |-> gap[job.m],
                                              mult |-> CoeffScale, tier |-> "C"])
        w == [World(job.m) EXCEPT !.free[Fund] = @ - col, !.reserved[Fund] = @ + col]
        v == ApplyFill(w, job.owner, job.side, job.mark, rem, 0, 0)
    IN IF rem = 0 THEN World(job.m)
       ELSE ApplyFill(v, Fund, Opposite(job.side), job.mark, rem, col, 0)

\* MUTANT of PenaltyPaid: in full, whatever the owner has
PenaltyInFull(has) == applyBps(notionalUsd(job.qty, job.mark), Params.liqPenaltyBps)

\* the penalty, from what the owner has left
PenaltyPaid(has) ==
    bigmin(applyBps(notionalUsd(job.qty, job.mark), Params.liqPenaltyBps),
           bigmax(0, has))

\* the backstop, then the penalty to the fund
EndLiquidation ==
    LET w == Backstop
        paid == PenaltyPaid(w.free[job.owner])
        kept == [w.free EXCEPT ![job.owner] = @ - paid, ![Fund] = @ + paid]
    IN
    /\ job # NoJob /\ job.liq
    /\ \A i \in DOMAIN book[job.m] : book[job.m][i].owner # job.owner
    /\ Matched
    /\ SetWorld(job.m, [w EXCEPT !.free = kept])
    /\ mark' = IF rem = 0 THEN mark ELSE [mark EXCEPT ![job.m] = job.mark]
    /\ job' = NoJob
    /\ rem' = 0
    /\ UNCHANGED <<seq, lastNonce, ledger, book, triggers, feeds, totals, loop>>

EndScanRound ==
    /\ Looping("scan")
    /\ UnderMargin = {}
    /\ loop' = IF loop.hit /\ loop.round < ScanRounds
               THEN ScanLoop(loop.m, loop.round + 1, loop.tick) ELSE NoLoop
    /\ UNCHANGED <<seq, money, lastNonce, pos, ledger, book, triggers, feeds, mark,
                   totals, job, rem>>
-----------------------------------------------------------------------------
\* commands the engine counts and does not act on: a withdrawal beyond the free
\* balance, the cancel of a trigger that is not armed, funding before a price
Refuse ==
    /\ Command
    /\ \/ \E u \in Users, amount \in Amounts : ~MayWithdraw(u, amount)
       \/ \E t \in Triggers : t \notin triggers[t.m]
       \/ \E m \in Markets : index[m] = 0
    /\ UNCHANGED <<money, lastNonce, pos, ledger, book, triggers, feeds, mark,
                   totals, job, rem, loop>>

MatchStep == \/ job # NoJob /\ \E i \in DOMAIN book[job.m] :
                                  MatchOwn(i) \/ MatchFill(i) \/ PullOrder(i)
             \/ EndOrder
             \/ EndLiquidation

LoopStep == \/ Looping("fire") /\ \E t \in Due : FireTrigger(t)
            \/ EndFireRound
            \/ Looping("scan") /\ \E u \in Users : Liquidate(u)
            \/ EndScanRound

\* what is left of the command being applied
Step == MatchStep \/ LoopStep

Accept ==
    \/ \E o \in Orders, d \in NonceSteps : PlaceOrder(o, lastNonce[o.owner] + d)
    \/ \E u \in Users, amount \in Amounts : Deposit(u, amount) \/ Withdraw(u, amount)
    \/ \E u \in Users, m \in Markets, id \in AllIds : CancelOrder(u, m, id)
    \/ \E m \in Markets : \/ \E px \in IndexPrices : OracleTick(m, px)
                          \/ \E g \in GapCoeffs : GapReading(m, g)
                          \/ \E on \in BOOLEAN : ConfidenceReading(m, on)
                          \/ FundingTick(m)
    \/ \E u \in Users, t \in TierReadings : TierUpdate(u, t)
    \/ \E t \in Triggers : PlaceTrigger(t) \/ CancelTrigger(t)

Next == \/ Accept
        \/ \E o \in Orders, d \in NonceSteps : RefuseOrder(o, lastNonce[o.owner] + d)
        \/ Refuse
        \/ Step

Spec == Init /\ [][Next]_vars

\* a command is applied to its end: apply does not await
FairSpec == Spec /\ WF_vars(Step)
=============================================================================
