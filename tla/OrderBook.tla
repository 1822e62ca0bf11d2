----------------------------- MODULE OrderBook -----------------------------
(***************************************************************************)
(* The matching engine of one market: addOrder and cancelOrder of          *)
(* engine/src/book.ts under the discipline of their only caller            *)
(* (core.ts): one command at a time, an incoming id that does not rest,    *)
(* order.seq = the sequence number of the command.                         *)
(*                                                                         *)
(* addOrder is a loop, so it is a run of steps here: AddOrder starts it,   *)
(* MatchFill and MatchOwn are its two iterations, Finish its end.  Nothing *)
(* else happens while `taker` is in flight: the process is                 *)
(* single-threaded and addOrder does not await.                            *)
(***************************************************************************)
EXTENDS BookOps, FiniteSets, Functions

CONSTANTS OrderIds,   \* ids a client may choose
          Owners,     \* accounts
          Prices,     \* limit prices, positive
          Qtys,       \* order sizes, positive
          MaxSeq      \* bound: commands the engine applies

ASSUME BookAssumption ==
    /\ Prices \subseteq Nat \ {0}
    /\ Qtys \subseteq Nat \ {0}
    /\ MaxSeq \in Nat

Orders == [id : OrderIds, owner : Owners, side : Sides, px : Prices,
           qty : Qtys, tif : Tifs]

NoOrder == [tif |-> "none"]

VARIABLES
    book,       \* resting orders, in the order they came to rest
    taker,      \* the incoming order, NoOrder between commands
    remaining,  \* taker.remaining
    fills,      \* out.fills
    stp,        \* out.stpCanceled, as ids
    seq,        \* s.seq, bumped by every command
    before      \* history: the book the order in flight met

vars == <<book, taker, remaining, fills, stp, seq, before>>

Idle == taker = NoOrder

Init ==
    /\ book = <<>>
    /\ taker = NoOrder
    /\ remaining = 0
    /\ fills = <<>>
    /\ stp = {}
    /\ seq = 0
    /\ before = <<>>

\* addOrder up to its loop; a POST_ONLY order that would cross is rejected
AddOrder(o) ==
    /\ Idle
    /\ seq < MaxSeq
    /\ o.id \notin RestingIds(book)
    /\ seq' = seq + 1
    /\ \/ /\ o.tif = "POST_ONLY" /\ CanMatch(book, o.side, o.px)
          /\ UNCHANGED <<taker, remaining, before>>
       \/ /\ ~(o.tif = "POST_ONLY" /\ CanMatch(book, o.side, o.px))
          /\ taker' = o
          /\ remaining' = o.qty
          /\ before' = book
    /\ UNCHANGED <<book, fills, stp>>

\* the loop runs while something remains and the best level crosses
Matching(i) ==
    /\ ~Idle
    /\ remaining > 0
    /\ IsBest(book, taker.side, i)
    /\ Crosses(taker.side, taker.px, book[i].px)

\* MUTANT of OwnOrder: the order, not its owner, is compared
OwnId(i) == book[i].id = taker.id

OwnOrder(i) == book[i].owner = taker.owner

\* self-trade prevention: the taker's own resting order is cancelled
MatchOwn(i) ==
    /\ Matching(i)
    /\ OwnOrder(i)
    /\ book' = Without(book, i)
    /\ stp' = stp \cup {book[i].id}
    /\ UNCHANGED <<taker, remaining, fills, seq, before>>

FillQty(i) == IF remaining < book[i].rem THEN remaining ELSE book[i].rem

\* one trade, at the maker's price
MatchFill(i) ==
    /\ Matching(i)
    /\ ~OwnOrder(i)
    /\ remaining' = remaining - FillQty(i)
    /\ book' = Consume(book, i, FillQty(i))
    /\ fills' = Append(fills, [px |-> book[i].px, qty |-> FillQty(i),
                               maker |-> book[i].owner, makerId |-> book[i].id])
    /\ UNCHANGED <<taker, stp, seq, before>>

\* what is left rests, unless the order is IOC, whose remainder is dropped;
\* the outcome goes to the caller
Finish ==
    /\ ~Idle
    /\ remaining = 0 \/ ~CanMatch(book, taker.side, taker.px)
    /\ book' = IF remaining > 0 /\ taker.tif # "IOC"
               THEN RestOrder(book, taker, remaining, seq)
               ELSE book
    /\ taker' = NoOrder
    /\ remaining' = 0
    /\ fills' = <<>>
    /\ stp' = {}
    /\ before' = <<>>
    /\ UNCHANGED seq

\* cancelOrder: a user's cancel is a command, a liquidation pulls orders one
\* by one under the command it is part of
CancelOrder(i) ==
    /\ Idle
    /\ i \in DOMAIN book
    /\ book' = Without(book, i)
    /\ seq' \in {seq, seq + 1}
    /\ seq' <= MaxSeq
    /\ UNCHANGED <<taker, remaining, fills, stp, before>>

MatchStep == \/ \E i \in DOMAIN book : MatchOwn(i) \/ MatchFill(i)
             \/ Finish

Next ==
    \/ \E o \in Orders : AddOrder(o)
    \/ MatchStep
    \/ \E i \in DOMAIN book : CancelOrder(i)

Spec == Init /\ [][Next]_vars
-----------------------------------------------------------------------------
Resting == [id : OrderIds, owner : Owners, side : Sides, px : Prices,
            rem : Nat \ {0}, seq : Nat]
Fills == [px : Prices, qty : Nat \ {0}, maker : Owners, makerId : OrderIds]

(* Every variable holds a value of the type the code declares for it; a    *)
(* resting order always has something left (book.ts, checkBookInvariants). *)
TypeOK ==
    /\ book \in Seq(Resting)
    /\ taker \in Orders \cup {NoOrder}
    /\ remaining \in Nat
    /\ fills \in Seq(Fills)
    /\ stp \subseteq OrderIds
    /\ seq \in Nat
    /\ before \in Seq(Resting)

(* The book is never crossed, not even while an order is being matched,    *)
(* and byId holds one order per id (book.ts, header and                    *)
(* checkBookInvariants).                                                   *)
BookSound == Uncrossed(book) /\ UniqueIds(book)

(* Within a price level the queue is strictly ascending by seq: the FIFO   *)
(* assertion of checkBookInvariants.                                       *)
FifoBySeq ==
    \A i, j \in DOMAIN book :
        i < j /\ book[i].side = book[j].side /\ book[i].px = book[j].px
            => book[i].seq < book[j].seq

SumQty(S) == SumFunctionOnSet([k \in DOMAIN fills |-> fills[k].qty], S)

RemOf(b, id) ==
    LET at == {i \in DOMAIN b : b[i].id = id}
    IN IF at = {} THEN 0 ELSE b[CHOOSE i \in at : TRUE].rem

(* Matching creates and loses no quantity: what the taker has left and     *)
(* what it traded make its size, and every order that rested when the      *)
(* command began is accounted for by what rests now and its fills, unless  *)
(* self-trade prevention cancelled it.                                     *)
QtyConserved ==
    ~Idle =>
        /\ remaining + SumQty(DOMAIN fills) = taker.qty
        /\ \A i \in DOMAIN before :
             LET id == before[i].id
             IN id \notin stp =>
                  before[i].rem =
                    RemOf(book, id)
                    + SumQty({k \in DOMAIN fills : fills[k].makerId = id})

(* An incoming order never trades with its owner's resting orders, and     *)
(* what self-trade prevention cancels is the owner's and never also a fill *)
(* (book.ts, addOrder).                                                    *)
NoSelfTrade ==
    ~Idle =>
        /\ \A k \in DOMAIN fills : /\ fills[k].maker # taker.owner
                                   /\ fills[k].makerId \notin stp
        /\ \A i \in DOMAIN before :
              before[i].id \in stp => before[i].owner = taker.owner

(* OrderBook implements MatchSpec: price-time priority, self-trade          *)
(* prevention and the fate of the remainder come out of the matching loop   *)
(* exactly as the one-step declaration of MatchSpec has them.  While an     *)
(* order is in flight the abstract book is still the one the order met, and *)
(* its seq the one before the command.                                      *)
Promise == INSTANCE MatchSpec WITH
    book <- IF Idle THEN book ELSE before,
    seq <- IF Idle THEN seq ELSE seq - 1

PromiseKept == Promise!Spec
=============================================================================
