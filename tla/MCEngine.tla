------------------------------ MODULE MCEngine ------------------------------
(* Instances of Engine for TLC.                                             *)
EXTENDS EngineProps, TLC

\* DEFAULT_PARAMS of state.ts; the cap is out of reach of the small instances
DefaultParams ==
    [baseImBps |-> 3333, baseMmBps |-> 1667, mmFloorBps |-> 100,
     takerFeeBps |-> 5, liqPenaltyBps |-> 100, fundingClampBps |-> 75,
     maxLeverage |-> [A |-> 4, B |-> 3, C |-> 3, D |-> 2, E |-> 2],
     oiCap |-> 1000000]

Limit(m, id, u, side, px, qty, tif) ==
    [m |-> m, id |-> id, owner |-> u, side |-> side, px |-> px, qty |-> qty,
     tif |-> tif, reduceOnly |-> FALSE, expiry |-> 0]

Expiring(o, s) == [o EXCEPT !.expiry = s]
Reducing(o) == [o EXCEPT !.reduceOnly = TRUE]

\* the bracket or stop t with its child at limit (0: at market)
Stop(m, id, u, side, px, above, qty, limit, reduces) ==
    [m |-> m, id |-> id, owner |-> u, side |-> side, px |-> px,
     above |-> above, qty |-> qty, limit |-> limit, reduceOnly |-> reduces]

OneOpen == (1 :> 2000)
TwoOpen == (1 :> 2000) @@ (2 :> 2000)

\* liquidate: three users, quotes far from the mark for the engine to hit;
\* 3 sells far below the bid it meets, so its margin is thin; a taker that
\* flips and a post-only quote; a second market on the same balances
LiqOrders ==
    {Limit(1, 1, 1, "buy", 2000, 20, "GTC"),
     Limit(1, 2, 2, "sell", 2000, 9, "GTC"),
     Limit(1, 3, 3, "sell", 1503, 9, "GTC"),
     Limit(1, 4, 1, "sell", 2400, 11, "GTC"),
     Limit(1, 2, 2, "buy", 1301, 9, "GTC"),
     Limit(1, 4, 2, "sell", 1993, 20, "IOC"),
     Limit(1, 2, 1, "buy", 1503, 9, "POST_ONLY"),
     Limit(2, 5, 2, "buy", 2000, 9, "GTC"), Limit(2, 6, 3, "sell", 2000, 9, "GTC")}
LiqSeeds == (0 :> 300) @@ (1 :> 2140) @@ (2 :> 2000) @@ (3 :> 470)

\* modes: readings change margin and mode while quotes rest; funding is paid
ModeOrders ==
    {Limit(1, 1, 1, "buy", 2011, 19, "GTC"),
     Limit(1, 2, 2, "sell", 2011, 9, "GTC"),
     Limit(1, 2, 2, "buy", 1993, 29, "GTC"),
     Limit(1, 3, 1, "sell", 1993, 9, "IOC"),
     Expiring(Limit(1, 3, 2, "sell", 2011, 19, "IOC"), 3),
     Reducing(Limit(1, 4, 2, "buy", 2011, 19, "IOC")),
     Limit(1, 4, 1, "sell", 1993, 29, "GTC")}
ModeSeeds == (0 :> 100) @@ (1 :> 3500) @@ (2 :> 3000)
Tiers == {[mult |-> 130, tier |-> "E"]}

\* a close of user 1 for more than it may hold, and a stop entry that rests
Stops ==
    {Stop(1, 11, 1, "sell", 1950, FALSE, 29, 0, TRUE),
     Stop(1, 12, 2, "buy", 2040, TRUE, 9, 1993, FALSE)}

\* two markets that share each user's balance; the ids its owner picks for
\* them coincide
TwoSeeds == (0 :> 100) @@ (1 :> 1400) @@ (2 :> 3000)
SharedIdOrders ==
    {Limit(m, 1, 1, side, 2000, 9, "GTC") : m \in {1, 2}, side \in Sides}
    \cup {Limit(m, 2, 2, side, 2000, 9, "GTC") : m \in {1, 2}, side \in Sides}
=============================================================================
