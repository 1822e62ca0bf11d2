------------------------------ MODULE BookOps ------------------------------
(***************************************************************************)
(* Operators of the central limit order book of one market, translated     *)
(* from engine/src/book.ts.                                                *)
(*                                                                         *)
(* The code keeps two arrays of price levels (bids descending, asks        *)
(* ascending), each level a FIFO queue, and a map byId of what rests.      *)
(* Here a book is ONE sequence of resting orders in the order in which     *)
(* they came to rest: a level's queue is the subsequence with its side and *)
(* price, the head of the best level is the order no other is Ahead of,    *)
(* and byId is the set of ids in the sequence.  A resting order is         *)
(*   [id, owner, side, px, rem, seq],                                      *)
(* an incoming order [id, owner, side, px, qty, tif, ...].                 *)
(***************************************************************************)
EXTENDS Integers, Sequences

Sides == {"buy", "sell"}
Tifs == {"GTC", "IOC", "POST_ONLY"}

Opposite(side) == IF side = "buy" THEN "sell" ELSE "buy"

\* MUTANT of Crosses: equal prices do not trade
CrossesStrictly(side, px, opp) ==
    \/ side = "buy" /\ px > opp
    \/ side = "sell" /\ px < opp

\* an order on `side` limited at px is willing to trade at the price opp
Crosses(side, px, opp) ==
    \/ side = "buy" /\ px >= opp
    \/ side = "sell" /\ px <= opp

RestingIds(b) == {b[i].id : i \in DOMAIN b}

OppOrders(b, side) == {i \in DOMAIN b : b[i].side # side}

\* b[i] is at a better price for the taker than b[j] (same side of the book)
BetterPx(b, i, j) ==
    \/ b[i].side = "sell" /\ b[i].px < b[j].px
    \/ b[i].side = "buy" /\ b[i].px > b[j].px

\* price-time priority: a better level, or the same level and in it earlier
Ahead(b, i, j) == BetterPx(b, i, j) \/ (b[i].px = b[j].px /\ i < j)

\* MUTANT of Ahead's use in IsBest: the newest order of the best level first
NewestFirst(b, side, i) ==
    /\ i \in OppOrders(b, side)
    /\ \A j \in OppOrders(b, side) \ {i} :
          BetterPx(b, i, j) \/ (b[i].px = b[j].px /\ i > j)

\* the head of the best level opposite to an order on `side`
IsBest(b, side, i) ==
    /\ i \in OppOrders(b, side)
    /\ \A j \in OppOrders(b, side) \ {i} : Ahead(b, i, j)

\* the matching loop's condition: the other side is not empty and its best
\* level crosses, that is, some level crosses
CanMatch(b, side, px) ==
    \E i \in OppOrders(b, side) : Crosses(side, px, b[i].px)

\* queue.shift(), or a cancel's queue.splice(idx, 1), with byId.delete
Without(b, i) == SubSeq(b, 1, i - 1) \o SubSeq(b, i + 1, Len(b))

\* MUTANTS of Consume: a filled order stays; a part-filled one goes
ConsumeNoShift(b, i, q) == [b EXCEPT ![i].rem = @ - q]
ConsumeWhole(b, i, q) == Without(b, i)

\* makerOrder.remaining -= q, and out of the book when nothing remains
Consume(b, i, q) ==
    IF b[i].rem = q THEN Without(b, i) ELSE [b EXCEPT ![i].rem = @ - q]

\* MUTANT of RestOrder: to the front of the queue (unshift for push)
RestFirst(b, o, rem, seq) ==
    <<[id |-> o.id, owner |-> o.owner, side |-> o.side,
       px |-> o.px, rem |-> rem, seq |-> seq]>> \o b

RestOrder(b, o, rem, seq) ==
    Append(b, [id |-> o.id, owner |-> o.owner, side |-> o.side,
               px |-> o.px, rem |-> rem, seq |-> seq])

\* bestBid < bestAsk whenever both exist
Uncrossed(b) ==
    \A i, j \in DOMAIN b :
        b[i].side = "buy" /\ b[j].side = "sell" => b[i].px < b[j].px

UniqueIds(b) == \A i, j \in DOMAIN b : b[i].id = b[j].id => i = j
=============================================================================
