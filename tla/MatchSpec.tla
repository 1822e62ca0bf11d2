----------------------------- MODULE MatchSpec -----------------------------
(***************************************************************************)
(* What a price-time order book promises, with no loop: one step per       *)
(* command, and the outcome of an order stated order by order from the     *)
(* book it met.  OrderBook implements this module; the refinement mapping  *)
(* hides the book while an order is in flight.                             *)
(***************************************************************************)
EXTENDS BookOps, FiniteSets, Functions

CONSTANTS OrderIds, Owners, Prices, Qtys, MaxSeq

VARIABLES book, seq

vars == <<book, seq>>

Orders == [id : OrderIds, owner : Owners, side : Sides, px : Prices,
           qty : Qtys, tif : Tifs]

\* resting orders the incoming order o is willing to meet
Reachable(b, o) ==
    {i \in OppOrders(b, o.side) : Crosses(o.side, o.px, b[i].px)}

\* what is traded before the queue gets to b[i]: everything ahead of it that
\* is not the taker's own
DepthAhead(b, o, i) ==
    SumFunctionOnSet([j \in DOMAIN b |-> b[j].rem],
        {j \in Reachable(b, o) : Ahead(b, j, i) /\ b[j].owner # o.owner})

\* the order reaches b[i] while it still wants something
Reached(b, o, i) == i \in Reachable(b, o) /\ DepthAhead(b, o, i) < o.qty

Traded(b, o, i) ==
    IF ~Reached(b, o, i) \/ b[i].owner = o.owner THEN 0
    ELSE IF b[i].rem <= o.qty - DepthAhead(b, o, i) THEN b[i].rem
    ELSE o.qty - DepthAhead(b, o, i)

\* b[i] leaves the book: traded in full, or the taker's own and reached
Leaves(b, o, i) ==
    \/ Traded(b, o, i) = b[i].rem
    \/ Reached(b, o, i) /\ b[i].owner = o.owner

Left(b, o) == o.qty - SumFunction([i \in DOMAIN b |-> Traded(b, o, i)])

\* c is b without the orders that are not in S, the others in their order
Keeps(c, b, S) ==
    \E h \in [DOMAIN c -> S] :
        /\ \A k, m \in DOMAIN c : k < m => h[k] < h[m]
        /\ \A i \in S : \E k \in DOMAIN c : h[k] = i
        /\ \A k \in DOMAIN c : c[k] = b[h[k]]

\* c is what o leaves of b
Survive(c, b, o) ==
    Keeps(c, [i \in DOMAIN b |-> [b[i] EXCEPT !.rem = @ - Traded(b, o, i)]],
          {i \in DOMAIN b : ~Leaves(b, o, i)})

Refused(b, o) == o.tif = "POST_ONLY" /\ Reachable(b, o) # {}

\* what is left of o rests behind all others, unless o is IOC
Rests(b, o) == o.tif # "IOC" /\ Left(b, o) > 0

\* c is the book after o, which has seq s
AfterOrder(c, b, o, s) ==
    \/ Refused(b, o) /\ c = b
    \/ ~Refused(b, o) /\ ~Rests(b, o) /\ Survive(c, b, o)
    \/ /\ ~Refused(b, o) /\ Rests(b, o)
       /\ LET d == SubSeq(c, 1, Len(c) - 1)
          IN  Survive(d, b, o) /\ c = RestOrder(d, o, Left(b, o), s)

Submit(o) ==
    /\ seq < MaxSeq
    /\ o.id \notin RestingIds(book)
    /\ seq' = seq + 1
    /\ AfterOrder(book', book, o, seq')

Cancel(id) ==
    /\ id \in RestingIds(book)
    /\ Keeps(book', book, {i \in DOMAIN book : book[i].id # id})
    /\ seq' \in {seq, seq + 1}
    /\ seq' <= MaxSeq

Init == book = <<>> /\ seq = 0

Next == \/ \E o \in Orders : Submit(o)
        \/ \E id \in OrderIds : Cancel(id)

Spec == Init /\ [][Next]_vars
=============================================================================
