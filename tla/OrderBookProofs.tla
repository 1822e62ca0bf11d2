--------------------------- MODULE OrderBookProofs ---------------------------
(***************************************************************************)
(* Proofs about OrderBook, for any ids, owners, prices, sizes and number   *)
(* of commands.                                                            *)
(*                                                                         *)
(* BookSound is not inductive: a remainder may rest only because the loop  *)
(* ended without a crossing order (so the book was uncrossed all along)    *)
(* and because its id rests nowhere (Fresh).  FifoBySeq needs that the     *)
(* whole book, not only a level, ascends by seq and stays below the        *)
(* command in flight (SeqAscends).  NoSelfTrade needs to know where the    *)
(* ids in fills and stp come from (Origin).                                *)
(*                                                                         *)
(* That the loop implements MatchSpec needs to know how far it has got     *)
(* (Progress): the orders it has met are a prefix of the queue the taker   *)
(* can reach, what they sold it is what it no longer wants, and the rest   *)
(* of the book stands as it stood, but for at most one order in part.      *)
(***************************************************************************)
EXTENDS OrderBook, CommonLemmas

SeqAscends ==
    /\ \A i, j \in DOMAIN book : i < j => book[i].seq < book[j].seq
    /\ \A i \in DOMAIN book : book[i].seq <= seq /\ (~Idle => book[i].seq < seq)

Fresh == ~Idle => taker.id \notin RestingIds(book)

\* an order of the book the command met
Met(id, owner) == \E j \in DOMAIN before : before[j].id = id /\ before[j].owner = owner

Origin ==
    /\ Idle => fills = <<>> /\ stp = {}
    /\ ~Idle =>
         /\ UniqueIds(before)
         /\ \A i \in DOMAIN book : Met(book[i].id, book[i].owner)
         /\ \A id \in stp : Met(id, taker.owner)
         /\ \A k \in DOMAIN fills : /\ Met(fills[k].makerId, fills[k].maker)
                                    /\ fills[k].maker # taker.owner

(* The inductive invariant. *)
IInv == TypeOK /\ BookSound /\ SeqAscends /\ Fresh /\ Origin
-----------------------------------------------------------------------------
(* What rests in the book, in the terms of CommonLemmas.                    *)
LEMMA RestingIs == Resting = RestingOf(OrderIds, Owners, Prices)
BY DEF Resting, RestingOf

(* What the invariant says of each resting order.                           *)
LEMMA BookShape ==
    ASSUME TypeOK
    PROVE  /\ Len(book) \in Nat
           /\ DOMAIN book = 1..Len(book)
           /\ \A i \in DOMAIN book : book[i] \in Resting /\ book[i].seq \in Nat
           /\ seq \in Nat
<1>1. book \in Seq(Resting) /\ seq \in Nat
  BY DEF TypeOK
<1>2. Len(book) \in Nat /\ DOMAIN book = 1..Len(book)
      /\ \A i \in DOMAIN book : book[i] \in Resting
  BY <1>1, LenProperties, ElementOfSeq
<1> QED BY <1>1, <1>2 DEF Resting

(* What a thinned book keeps of the invariant, when seq does not go back.  *)
LEMMA ThinnedKeeps ==
    ASSUME IInv, NEW h, Thinned(book', book, h), book' \in Seq(Resting),
           seq' \in Nat, seq' >= seq, taker' = taker, ~Idle => seq' = seq
    PROVE  /\ BookSound'
           /\ SeqAscends'
           /\ Fresh'
           /\ \A k \in DOMAIN book' : \E i \in DOMAIN book :
                 book'[k].id = book[i].id /\ book'[k].owner = book[i].owner
<1>1. /\ book \in Seq(Resting)
      /\ \A i \in DOMAIN book : book[i].seq \in Nat
      /\ seq \in Nat
  BY BookShape DEF IInv, TypeOK
<1>2. \A k \in DOMAIN book' : h[k] \in DOMAIN book /\ Alike(book'[k], book[h[k]])
  BY DEF Thinned
<1>3. BookSound'
  BY <1>1, ThinnedSound DEF IInv, BookSound
<1>4. SeqAscends'
  <2>1. ASSUME NEW k \in DOMAIN book', NEW m \in DOMAIN book', k < m
        PROVE  book'[k].seq < book'[m].seq
    <3>1. h[k] < h[m]
      BY <2>1 DEF Thinned
    <3> QED BY <1>2, <3>1 DEF IInv, SeqAscends, Alike
  <2>2. ASSUME NEW k \in DOMAIN book'
        PROVE  book'[k].seq <= seq' /\ (~Idle' => book'[k].seq < seq')
    <3>1. book'[k].seq = book[h[k]].seq /\ book[h[k]].seq \in Nat
      BY <1>1, <1>2 DEF Alike
    <3>2. book[h[k]].seq <= seq /\ (~Idle => book[h[k]].seq < seq)
      BY <1>2 DEF IInv, SeqAscends
    <3>3. Idle' <=> Idle
      BY DEF Idle
    <3> QED BY <1>1, <3>1, <3>2, <3>3
  <2> QED BY <2>1, <2>2 DEF SeqAscends
<1>5. Fresh'
  BY <1>1, ThinnedSound DEF IInv, Fresh, Idle
<1> QED BY <1>2, <1>3, <1>4, <1>5 DEF Alike

(* The empty book satisfies the invariant.                                  *)
LEMMA InitKeeps == Init => IInv
<1> SUFFICES ASSUME Init PROVE IInv
  OBVIOUS
<1>1. book = <<>> /\ DOMAIN book = {}
  BY DEF Init
<1>2. TypeOK
  BY EmptySeq DEF Init, TypeOK
<1>3. BookSound /\ SeqAscends
  BY <1>1 DEF BookSound, Uncrossed, UniqueIds, SeqAscends
<1>4. Fresh /\ Origin
  BY DEF Init, Fresh, Origin, Idle
<1> QED BY <1>2, <1>3, <1>4 DEF IInv

(* Taking an order in changes no book.                                      *)
LEMMA AddOrderKeeps ==
    ASSUME IInv, NEW o \in Orders, AddOrder(o)
    PROVE  IInv'
<1>1. /\ TypeOK /\ BookSound /\ SeqAscends /\ Origin
      /\ Idle /\ fills = <<>> /\ stp = {}
      /\ book' = book /\ fills' = <<>> /\ stp' = {} /\ seq' = seq + 1
  BY DEF IInv, AddOrder, Origin
<1>2. o.qty \in Nat /\ o.tif \in Tifs /\ o.id \in OrderIds
  BY BookAssumption DEF Orders
<1>3. TypeOK'
  BY <1>1, <1>2 DEF AddOrder, TypeOK
<1>4. BookSound'
  BY <1>1 DEF BookSound
<1>5. SeqAscends'
  <2>1. \A i \in DOMAIN book : book[i].seq <= seq /\ book[i].seq \in Nat /\ seq \in Nat
    BY <1>1, BookShape DEF SeqAscends
  <2>2. \A i \in DOMAIN book : book[i].seq < seq' /\ book[i].seq <= seq'
    BY <1>1, <2>1
  <2> QED BY <1>1, <2>2 DEF SeqAscends
<1>6. Fresh'
  BY <1>1 DEF AddOrder, Fresh, Idle
<1>7. Origin'
  <2>1. CASE UNCHANGED <<taker, remaining, before>>
    BY <1>1, <2>1 DEF Origin, Idle
  <2>2. CASE taker' = o /\ before' = book
    BY <1>1, <2>2 DEF Origin, Idle, Met, BookSound
  <2> QED BY <2>1, <2>2 DEF AddOrder
<1> QED BY <1>3, <1>4, <1>5, <1>6, <1>7 DEF IInv

(* Self-trade prevention removes one of the taker's orders.                 *)
LEMMA MatchOwnKeeps ==
    ASSUME IInv, NEW i \in DOMAIN book, MatchOwn(i)
    PROVE  IInv'
<1>1. /\ TypeOK /\ Origin /\ ~Idle
      /\ book[i].owner = taker.owner
      /\ book' = Without(book, i)
      /\ stp' = stp \cup {book[i].id}
      /\ UNCHANGED <<taker, remaining, fills, seq, before>>
  BY DEF IInv, MatchOwn, Matching, OwnOrder
<1>2. book \in Seq(Resting) /\ seq \in Nat /\ book[i].id \in OrderIds
  BY <1>1, BookShape DEF TypeOK, Resting
<1>3. PICK h : Thinned(book', book, h)
  BY <1>1, <1>2, WithoutThins
<1>4. book' \in Seq(Resting)
  BY <1>1, <1>2, WithoutThins
<1>5. /\ BookSound' /\ SeqAscends' /\ Fresh'
      /\ \A k \in DOMAIN book' : \E j \in DOMAIN book :
            book'[k].id = book[j].id /\ book'[k].owner = book[j].owner
  BY <1>1, <1>2, <1>3, <1>4, ThinnedKeeps
<1>6. TypeOK'
  BY <1>1, <1>2, <1>4 DEF TypeOK
<1>7. Origin'
  BY <1>1, <1>5 DEF Origin, Met, Idle
<1> QED BY <1>5, <1>6, <1>7 DEF IInv

(* A fill takes from the head of the best level.                            *)
LEMMA MatchFillKeeps ==
    ASSUME IInv, NEW i \in DOMAIN book, MatchFill(i)
    PROVE  IInv'
<1> DEFINE q == FillQty(i)
           f == [px |-> book[i].px, qty |-> q, maker |-> book[i].owner,
                 makerId |-> book[i].id]
<1>1. /\ TypeOK /\ Origin /\ ~Idle /\ remaining > 0
      /\ book[i].owner # taker.owner
      /\ remaining' = remaining - q
      /\ book' = Consume(book, i, q)
      /\ fills' = Append(fills, f)
      /\ UNCHANGED <<taker, stp, seq, before>>
  BY DEF IInv, MatchFill, Matching, OwnOrder
<1>2. /\ book \in Seq(Resting) /\ seq \in Nat /\ fills \in Seq(Fills)
      /\ book[i].id \in OrderIds /\ book[i].owner \in Owners
      /\ book[i].px \in Prices /\ book[i].rem \in Nat \ {0}
  BY <1>1, BookShape DEF TypeOK, Resting
<1>3. q \in Nat \ {0} /\ q <= book[i].rem /\ q <= remaining /\ remaining \in Nat
  BY <1>1, <1>2 DEF FillQty, TypeOK
<1> HIDE DEF q
<1>4. f \in Fills /\ f.makerId = book[i].id /\ f.maker = book[i].owner
  BY <1>2, <1>3 DEF Fills
<1> HIDE DEF f
<1>5. book' \in Seq(Resting) /\ \E h : Thinned(book', book, h)
  BY <1>1, <1>2, <1>3, ConsumeThins, RestingIs
<1>6. PICK h : Thinned(book', book, h)
  BY <1>5
<1>7. /\ BookSound' /\ SeqAscends' /\ Fresh'
      /\ \A k \in DOMAIN book' : \E j \in DOMAIN book :
            book'[k].id = book[j].id /\ book'[k].owner = book[j].owner
  BY <1>1, <1>2, <1>5, <1>6, ThinnedKeeps
<1>8. /\ fills' \in Seq(Fills)
      /\ \A k \in DOMAIN fills' :
            (k \in DOMAIN fills /\ fills'[k] = fills[k]) \/ fills'[k] = f
  BY <1>1, <1>2, <1>4, AppendProperties, LenProperties
<1>9. TypeOK'
  BY <1>1, <1>2, <1>3, <1>5, <1>8 DEF TypeOK
<1>10. Origin'
  <2>1. \A id, owner : Met(id, owner)' <=> Met(id, owner)
    BY <1>1 DEF Met
  <2>2. \A k \in DOMAIN book' : Met(book'[k].id, book'[k].owner)
    BY <1>1, <1>7 DEF Origin
  <2>3. Met(f.makerId, f.maker) /\ f.maker # taker.owner
    BY <1>1, <1>4 DEF Origin
  <2>4. \A k \in DOMAIN fills' : /\ Met(fills'[k].makerId, fills'[k].maker)
                                 /\ fills'[k].maker # taker.owner
    BY <1>1, <1>8, <2>3 DEF Origin
  <2> QED BY <1>1, <2>1, <2>2, <2>4 DEF Origin, Idle
<1> QED BY <1>7, <1>9, <1>10 DEF IInv

(* The remainder comes to rest behind its level.                            *)
LEMMA FinishKeeps ==
    ASSUME IInv, Finish
    PROVE  IInv'
<1>1. /\ TypeOK /\ BookSound /\ SeqAscends /\ Fresh /\ ~Idle
      /\ taker' = NoOrder /\ remaining' = 0 /\ fills' = <<>> /\ stp' = {}
      /\ before' = <<>> /\ seq' = seq
  BY DEF IInv, Finish
<1>2. /\ taker \in Orders /\ book \in Seq(Resting) /\ seq \in Nat
      /\ remaining \in Nat
  BY <1>1 DEF TypeOK, Idle
<1>3. Idle' /\ Fresh' /\ Origin'
  BY <1>1 DEF Idle, Fresh, Origin
<1>4. CASE book' = book
  <2>1. TypeOK'
    BY <1>1, <1>2, <1>4, EmptySeq DEF TypeOK
  <2>2. BookSound' /\ SeqAscends'
    BY <1>1, <1>3, <1>4 DEF BookSound, SeqAscends
  <2> QED BY <1>3, <2>1, <2>2 DEF IInv
<1>5. CASE remaining > 0 /\ book' = RestOrder(book, taker, remaining, seq)
  <2>1. ~CanMatch(book, taker.side, taker.px)
    BY <1>2, <1>5 DEF Finish
  <2>2. /\ taker.id \in OrderIds /\ taker.owner \in Owners
        /\ taker.side \in Sides /\ taker.px \in Prices
    BY <1>2 DEF Orders
  <2>3. Prices \subseteq Int /\ remaining \in Nat \ {0}
    BY <1>2, <1>5, BookAssumption
  <2>4. /\ book' \in Seq(Resting)
        /\ Len(book') = Len(book) + 1
        /\ \A k \in 1..Len(book) : book'[k] = book[k]
        /\ book'[Len(book) + 1].seq = seq
        /\ Uncrossed(book) /\ ~CanMatch(book, taker.side, taker.px)
             => Uncrossed(book')
        /\ UniqueIds(book) /\ taker.id \notin RestingIds(book)
             => UniqueIds(book')
    <3> DEFINE e == [id |-> taker.id, owner |-> taker.owner, side |-> taker.side,
                     px |-> taker.px, rem |-> remaining, seq |-> seq]
    <3>1. book' = Append(book, e)
      BY <1>5 DEF RestOrder
    <3>2. e \in Resting /\ e.side = taker.side /\ e.px = taker.px
          /\ e.id = taker.id /\ e.seq = seq
      BY <1>2, <2>2, <2>3 DEF Resting
    <3> HIDE DEF e
    <3>3. book \in Seq(RestingOf(OrderIds, Owners, Prices))
          /\ e \in RestingOf(OrderIds, Owners, Prices)
      BY <1>2, <3>2, RestingIs
    <3> QED BY <2>3, <3>1, <3>2, <3>3, RestSound, RestingIs
  <2>5. TypeOK'
    BY <1>1, <1>2, <2>4, EmptySeq DEF TypeOK
  <2>6. BookSound'
    BY <1>1, <2>1, <2>4 DEF BookSound, Fresh
  <2>7. SeqAscends'
    <3>1. /\ Len(book) \in Nat
          /\ DOMAIN book = 1..Len(book)
          /\ DOMAIN book' = 1..(Len(book) + 1)
          /\ \A k \in 1..Len(book) : book[k].seq \in Nat
      BY <1>1, <2>4, BookShape, LenProperties
    <3>2. \A k \in 1..Len(book) : book'[k].seq < seq /\ book'[k].seq <= seq
      BY <1>1, <1>2, <2>4, <3>1 DEF SeqAscends
    <3>3. \A k, m \in DOMAIN book' : k < m => book'[k].seq < book'[m].seq
      <4> SUFFICES ASSUME NEW k \in DOMAIN book', NEW m \in DOMAIN book', k < m
                   PROVE  book'[k].seq < book'[m].seq
        OBVIOUS
      <4>1. k \in 1..Len(book)
        BY <3>1
      <4>2. CASE m \in 1..Len(book)
        BY <1>1, <2>4, <3>1, <4>1, <4>2 DEF SeqAscends
      <4>3. CASE m = Len(book) + 1
        BY <2>4, <3>2, <4>1, <4>3
      <4> QED BY <3>1, <4>2, <4>3
    <3>4. \A k \in DOMAIN book' : book'[k].seq <= seq'
      BY <1>1, <1>2, <2>4, <3>1, <3>2
    <3> QED BY <1>3, <3>3, <3>4 DEF SeqAscends
  <2> QED BY <1>3, <2>5, <2>6, <2>7 DEF IInv
<1> QED BY <1>4, <1>5 DEF Finish

(* A cancel removes one order.                                              *)
LEMMA CancelOrderKeeps ==
    ASSUME IInv, NEW i \in DOMAIN book, CancelOrder(i)
    PROVE  IInv'
<1>1. /\ TypeOK /\ Origin /\ Idle
      /\ book' = Without(book, i)
      /\ seq' \in {seq, seq + 1}
      /\ UNCHANGED <<taker, remaining, fills, stp, before>>
  BY DEF IInv, CancelOrder
<1>2. book \in Seq(Resting) /\ seq \in Nat
  BY <1>1 DEF TypeOK
<1>3. seq' \in Nat /\ seq' >= seq
  BY <1>1, <1>2
<1>4. book' \in Seq(Resting) /\ \E h : Thinned(book', book, h)
  BY <1>1, <1>2, WithoutThins
<1>5. PICK h : Thinned(book', book, h)
  BY <1>4
<1>6. BookSound' /\ SeqAscends' /\ Fresh'
  BY <1>1, <1>3, <1>4, <1>5, ThinnedKeeps
<1>7. TypeOK'
  BY <1>1, <1>3, <1>4 DEF TypeOK
<1>8. Origin'
  BY <1>1 DEF Origin, Idle
<1> QED BY <1>6, <1>7, <1>8 DEF IInv

(* Every step keeps the invariant.                                          *)
LEMMA NextKeeps == IInv /\ [Next]_vars => IInv'
<1> SUFFICES ASSUME IInv, [Next]_vars PROVE IInv'
  OBVIOUS
<1>1. CASE UNCHANGED vars
  BY <1>1 DEF vars, IInv, TypeOK, BookSound, SeqAscends, Fresh, Origin, Met, Idle
<1>2. ASSUME NEW o \in Orders, AddOrder(o) PROVE IInv'
  BY <1>2, AddOrderKeeps
<1>3. ASSUME NEW i \in DOMAIN book, MatchOwn(i) PROVE IInv'
  BY <1>3, MatchOwnKeeps
<1>4. ASSUME NEW i \in DOMAIN book, MatchFill(i) PROVE IInv'
  BY <1>4, MatchFillKeeps
<1>5. CASE Finish
  BY <1>5, FinishKeeps
<1>6. ASSUME NEW i \in DOMAIN book, CancelOrder(i) PROVE IInv'
  BY <1>6, CancelOrderKeeps
<1> QED BY <1>1, <1>2, <1>3, <1>4, <1>5, <1>6 DEF Next, MatchStep

(* The strengthened invariant holds in every behaviour.                     *)
LEMMA Inductive == Spec => []IInv
BY InitKeeps, NextKeeps, PTL DEF Spec
-----------------------------------------------------------------------------
(* Every variable of the matching engine always has its type.              *)
THEOREM TypeCorrect == Spec => []TypeOK
<1>1. IInv => TypeOK
  BY DEF IInv
<1> QED BY <1>1, Inductive, PTL

(* The book is never crossed and never holds an id twice, whatever is      *)
(* submitted and cancelled, and at every iteration of the matching loop.   *)
THEOREM BookAlwaysSound == Spec => []BookSound
<1>1. IInv => BookSound
  BY DEF IInv
<1> QED BY <1>1, Inductive, PTL

(* Every level ascends strictly by seq as long as a command adds at most   *)
(* one order.                                                              *)
THEOREM LevelsAreFifo == Spec => []FifoBySeq
<1>1. IInv => FifoBySeq
  BY DEF IInv, SeqAscends, FifoBySeq
<1> QED BY <1>1, Inductive, PTL

(* An order never trades with its owner's own orders, and an order that    *)
(* self-trade prevention cancels has not traded with the taker.            *)
THEOREM NeverSelfTrades == Spec => []NoSelfTrade
<1>1. IInv => NoSelfTrade
  <2> SUFFICES ASSUME IInv, ~Idle PROVE NoSelfTrade
    BY DEF NoSelfTrade
  <2>1. /\ UniqueIds(before)
        /\ \A id \in stp : Met(id, taker.owner)
        /\ \A k \in DOMAIN fills : /\ Met(fills[k].makerId, fills[k].maker)
                                   /\ fills[k].maker # taker.owner
    BY DEF IInv, Origin
  <2>2. \A id, a, b : Met(id, a) /\ Met(id, b) => a = b
    BY <2>1 DEF Met, UniqueIds
  <2>3. \A i \in DOMAIN before : before[i].id \in stp => before[i].owner = taker.owner
    BY <2>1 DEF Met, UniqueIds
  <2> QED BY <2>1, <2>2, <2>3 DEF NoSelfTrade
<1> QED BY <1>1, Inductive, PTL
-----------------------------------------------------------------------------
(* Quantity                                                                 *)

(* What an id has left in a book that holds no id twice.                    *)
LEMMA RemOfIs ==
    ASSUME NEW b, UniqueIds(b), NEW id
    PROVE  /\ \A i \in DOMAIN b : b[i].id = id => RemOf(b, id) = b[i].rem
           /\ id \notin RestingIds(b) => RemOf(b, id) = 0
<1> DEFINE at == {i \in DOMAIN b : b[i].id = id}
<1>1. ASSUME NEW i \in DOMAIN b, b[i].id = id PROVE RemOf(b, id) = b[i].rem
  <2>1. at = {i}
    BY <1>1 DEF UniqueIds
  <2>2. at # {} /\ (CHOOSE j \in at : TRUE) = i
    BY <2>1
  <2> QED BY <2>2 DEF RemOf
<1>2. ASSUME id \notin RestingIds(b) PROVE RemOf(b, id) = 0
  <2>1. at = {}
    BY <1>2 DEF RestingIds
  <2> QED BY <2>1 DEF RemOf
<1> QED BY <1>1, <1>2

(* An order that goes has nothing left, the others what they had.           *)
LEMMA WithoutRemOf ==
    ASSUME NEW S, NEW b \in Seq(S), NEW i \in DOMAIN b, UniqueIds(b),
           UniqueIds(Without(b, i)), NEW id
    PROVE  RemOf(Without(b, i), id) = IF id = b[i].id THEN 0 ELSE RemOf(b, id)
<1> DEFINE c == Without(b, i)
<1>1. /\ \A u : RestsFor(c, u, id) <=> RestsFor(b, u, id) /\ id # b[i].id
      /\ \A k \in DOMAIN c : \E j \in DOMAIN b \ {i} : c[k] = b[j]
  BY WithoutRests
<1>2. UniqueIds(c)
  OBVIOUS
<1> HIDE DEF c
<1>3. id \in RestingIds(c) <=> id \in RestingIds(b) /\ id # b[i].id
  <2>1. \A d : id \in RestingIds(d) <=> \E u : RestsFor(d, u, id)
    BY DEF RestsFor, RestingIds
  <2> QED BY <1>1, <2>1
<1>4. CASE id \in RestingIds(c)
  <2>1. PICK k \in DOMAIN c : c[k].id = id
    BY <1>4 DEF RestingIds
  <2>2. PICK j \in DOMAIN b : c[k] = b[j]
    BY <1>1, <2>1
  <2>3. RemOf(c, id) = c[k].rem /\ RemOf(b, id) = b[j].rem
    BY <1>2, <2>1, <2>2, RemOfIs
  <2> QED BY <1>3, <1>4, <2>2, <2>3 DEF c
<1>5. CASE id \notin RestingIds(c)
  <2>1. RemOf(c, id) = 0
    BY <1>2, <1>5, RemOfIs
  <2>2. id # b[i].id => RemOf(b, id) = 0
    BY <1>3, <1>5, RemOfIs
  <2> QED BY <2>1, <2>2 DEF c
<1> QED BY <1>4, <1>5

(* A fill takes from one order what it trades.                              *)
LEMMA ConsumeRemOf ==
    ASSUME NEW b \in Seq(Resting), NEW i \in DOMAIN b, NEW q \in Nat \ {0},
           q <= b[i].rem, UniqueIds(b), UniqueIds(Consume(b, i, q)), NEW id
    PROVE  RemOf(Consume(b, i, q), id) =
               IF id = b[i].id THEN b[i].rem - q ELSE RemOf(b, id)
<1>0. Len(b) \in Nat /\ DOMAIN b = 1..Len(b) /\ b[i] \in Resting
  BY LenProperties, ElementOfSeq
<1>1. Len(b) \in Nat /\ DOMAIN b = 1..Len(b) /\ b[i].rem \in Nat
  BY <1>0 DEF Resting
<1>2. CASE b[i].rem = q
  <2>1. Consume(b, i, q) = Without(b, i)
    BY <1>2 DEF Consume
  <2>2. UniqueIds(Without(b, i))
    BY <2>1
  <2>3. RemOf(Without(b, i), id) = IF id = b[i].id THEN 0 ELSE RemOf(b, id)
    BY <2>2, WithoutRemOf
  <2> QED BY <1>1, <1>2, <2>1, <2>3
<1>3. CASE b[i].rem # q
  <2> DEFINE c == Consume(b, i, q)
  <2>1. c = [b EXCEPT ![i].rem = @ - q]
    BY <1>3 DEF Consume
  <2>2. b[i] \in Resting
    BY ElementOfSeq, <1>1
  <2>3. /\ DOMAIN c = DOMAIN b
        /\ \A j \in DOMAIN b : /\ c[j].id = b[j].id
                               /\ c[j].rem = IF j = i THEN b[j].rem - q ELSE b[j].rem
    BY <2>1, <2>2 DEF Resting
  <2>4. UniqueIds(c)
    OBVIOUS
  <2> HIDE DEF c
  <2>5. CASE id \in RestingIds(b)
    <3>1. PICK j \in DOMAIN b : b[j].id = id
      BY <2>5 DEF RestingIds
    <3>2. RemOf(b, id) = b[j].rem
      BY <3>1, RemOfIs
    <3>3. RemOf(c, id) = c[j].rem
      BY <2>3, <2>4, <3>1, RemOfIs
    <3>4. id = b[i].id <=> j = i
      BY <3>1 DEF UniqueIds
    <3> QED BY <2>3, <3>1, <3>2, <3>3, <3>4 DEF c
  <2>6. CASE id \notin RestingIds(b)
    <3>1. id \notin RestingIds(c) /\ id # b[i].id
      BY <2>3, <2>6 DEF RestingIds
    <3>2. RemOf(b, id) = 0 /\ RemOf(c, id) = 0
      BY <2>4, <2>6, <3>1, RemOfIs
    <3> QED BY <3>1, <3>2 DEF c
  <2> QED BY <2>5, <2>6
<1> QED BY <1>2, <1>3

\* the fills of the order id
FillsOf(s, id) == {k \in DOMAIN s : s[k].makerId = id}

\* F holds their sizes
SizesOf(F, s) == \A k \in DOMAIN s : F[k] = s[k].qty

\* from sizes F of s to G of t, x is counted, and counted at its maker
CountedOnce(F, s, G, t, x) ==
    /\ SumFunctionOnSet(F, DOMAIN s) \in Int
    /\ SumFunctionOnSet(G, DOMAIN t) = SumFunctionOnSet(F, DOMAIN s) + x.qty
    /\ \A id :
          /\ SumFunctionOnSet(F, FillsOf(s, id)) \in Int
          /\ SumFunctionOnSet(G, FillsOf(t, id)) =
                SumFunctionOnSet(F, FillsOf(s, id))
                + (IF id = x.makerId THEN x.qty ELSE 0)

(* A fill is counted once, at its maker.                                    *)
LEMMA QtyAppended ==
    ASSUME NEW s \in Seq(Fills), NEW x \in Fills, NEW t, t = Append(s, x),
           NEW F, SizesOf(F, s), NEW G, SizesOf(G, t)
    PROVE  CountedOnce(F, s, G, t, x)
<1> DEFINE n == Len(s)
<1>1. /\ n \in Nat /\ DOMAIN s = 1..n /\ \A k \in 1..n : s[k] \in Fills
      /\ DOMAIN t = 1..(n + 1) /\ t[n + 1] = x /\ \A k \in 1..n : t[k] = s[k]
  BY AppendProperties, LenProperties, ElementOfSeq
<1>2. x.qty \in Int /\ \A k \in 1..n : s[k].qty \in Int
  BY <1>1 DEF Fills
<1>3. /\ \A k \in 1..n : F[k] \in Int /\ G[k] = F[k]
      /\ G[n + 1] = x.qty
  <2>1. n + 1 \in DOMAIN t /\ \A k \in 1..n : k \in DOMAIN s /\ k \in DOMAIN t
    BY <1>1
  <2> QED BY <1>1, <1>2, <2>1 DEF SizesOf
<1> HIDE DEF n
\* on any of the fills there were, with the new one or without it
<1>4. ASSUME NEW T \in SUBSET (1..n)
      PROVE  /\ SumFunctionOnSet(F, T) \in Int
             /\ SumFunctionOnSet(G, T) = SumFunctionOnSet(F, T)
             /\ SumFunctionOnSet(G, T \cup {n + 1}) = SumFunctionOnSet(F, T) + x.qty
  <2>1. IsFiniteSet(T)
    <3>1. IsFiniteSet(1..n)
      BY <1>1, FS_Interval
    <3> QED BY <3>1, FS_Subset
  <2>2. IsFiniteSet(T \cup {n + 1})
    BY <2>1, FS_AddElement
  <2>3. \A k \in T : F[k] \in Int /\ G[k] = F[k]
    BY <1>3
  <2>4. SumFunctionOnSet(F, T) \in Int
    BY <2>1, <2>3, SumInt
  <2>5. SumFunctionOnSet(G, T) = SumFunctionOnSet(F, T)
    <3>1. \A k \in T : G[k] = F[k]
      BY <2>3
    <3> QED BY ONLY <2>1, <3>1, SumSame
  <2>6. (T \cup {n + 1}) \ {n + 1} = T
    BY <1>1
  <2>7. \A k \in T \cup {n + 1} : G[k] \in Int
    BY <1>2, <1>3, <2>3
  <2>8. SumFunctionOnSet(G, T \cup {n + 1}) = G[n + 1] + SumFunctionOnSet(G, T)
    <3> DEFINE U == T \cup {n + 1}
               z == n + 1
    <3>1. IsFiniteSet(U) /\ z \in U /\ (\A k \in U : G[k] \in Int) /\ U \ {z} = T
      BY <2>2, <2>6, <2>7
    <3> HIDE DEF U, z
    <3>2. SumFunctionOnSet(G, U) = G[z] + SumFunctionOnSet(G, U \ {z})
      BY ONLY <3>1, SumRemove
    <3> QED BY <3>1, <3>2 DEF U, z
  <2>9. \A a, b \in Int : a + b = b + a
    OBVIOUS
  <2>10. SumFunctionOnSet(G, T \cup {n + 1}) = x.qty + SumFunctionOnSet(F, T)
    BY <1>3, <2>5, <2>8
  <2> QED BY <1>2, <2>4, <2>5, <2>9, <2>10
<1>5. 1..(n + 1) = (1..n) \cup {n + 1}
  BY <1>1
<1>6. ASSUME NEW id
      PROVE  /\ SumFunctionOnSet(F, FillsOf(s, id)) \in Int
             /\ SumFunctionOnSet(G, FillsOf(t, id)) =
                   SumFunctionOnSet(F, FillsOf(s, id))
                   + (IF id = x.makerId THEN x.qty ELSE 0)
  <2> DEFINE A == FillsOf(s, id)
             B == FillsOf(t, id)
  <2>1. A \in SUBSET (1..n)
    BY <1>1 DEF FillsOf
  <2>2. B = IF id = x.makerId THEN A \cup {n + 1} ELSE A
    BY <1>1, <1>5 DEF FillsOf
  <2> HIDE DEF A, B
  <2>3. /\ SumFunctionOnSet(F, A) \in Int
        /\ SumFunctionOnSet(G, A) = SumFunctionOnSet(F, A)
        /\ SumFunctionOnSet(G, A \cup {n + 1}) = SumFunctionOnSet(F, A) + x.qty
    BY <1>4, <2>1
  <2>4. SumFunctionOnSet(G, B) =
            SumFunctionOnSet(F, A) + (IF id = x.makerId THEN x.qty ELSE 0)
    <3>1. CASE id = x.makerId
      BY <2>2, <2>3, <3>1
    <3>2. CASE id # x.makerId
      <4>1. B = A /\ SumFunctionOnSet(G, B) = SumFunctionOnSet(F, A)
        BY <2>2, <2>3, <3>2
      <4> QED BY <2>3, <3>2, <4>1
    <3> QED BY <3>1, <3>2
  <2> QED BY ONLY <2>3, <2>4 DEF A, B
<1>7. /\ SumFunctionOnSet(F, 1..n) \in Int
      /\ SumFunctionOnSet(G, 1..(n + 1)) = SumFunctionOnSet(F, 1..n) + x.qty
  BY <1>4, <1>5
<1> QED BY <1>1, <1>6, <1>7 DEF CountedOnce

(* A fill moves quantity from its maker and from the taker into fills.      *)
LEMMA MatchFillConserves ==
    ASSUME IInv, QtyConserved, NEW i \in DOMAIN book, MatchFill(i)
    PROVE  QtyConserved'
<1> DEFINE q == FillQty(i)
           x == [px |-> book[i].px, qty |-> q, maker |-> book[i].owner,
                 makerId |-> book[i].id]
           F == [k \in DOMAIN fills |-> fills[k].qty]
           t == fills'
           G == [k \in DOMAIN t |-> t[k].qty]
           m == book[i].id
           c == book'
<1>1. /\ TypeOK /\ Origin /\ UniqueIds(book) /\ ~Idle /\ remaining > 0
      /\ remaining' = remaining - q
      /\ c = Consume(book, i, q) /\ t = Append(fills, x)
      /\ UNCHANGED <<taker, stp, seq, before>>
      /\ book[i].owner # taker.owner
  BY DEF IInv, BookSound, MatchFill, Matching, OwnOrder
<1>2. /\ book \in Seq(Resting) /\ fills \in Seq(Fills) /\ remaining \in Nat
      /\ book[i].id \in OrderIds /\ book[i].owner \in Owners
      /\ book[i].px \in Prices /\ book[i].rem \in Nat \ {0}
  BY <1>1, BookShape DEF TypeOK, Resting
<1>3. q \in Nat \ {0} /\ q <= book[i].rem /\ q <= remaining
  BY <1>1, <1>2 DEF FillQty
<1> HIDE DEF q
<1>4. x \in Fills /\ x.qty = q /\ x.makerId = m
  BY <1>2, <1>3 DEF Fills
<1>5. UniqueIds(c)
  BY MatchFillKeeps DEF IInv, BookSound
<1>6. /\ SumFunctionOnSet(F, DOMAIN fills) \in Int
      /\ SumFunctionOnSet(G, DOMAIN t) = SumFunctionOnSet(F, DOMAIN fills) + q
      /\ \A id :
            /\ SumFunctionOnSet(F, FillsOf(fills, id)) \in Int
            /\ SumFunctionOnSet(G, FillsOf(t, id)) =
                  SumFunctionOnSet(F, FillsOf(fills, id)) + (IF id = m THEN q ELSE 0)
  <2>1. /\ fills \in Seq(Fills) /\ x \in Fills /\ t = Append(fills, x)
        /\ SizesOf(F, fills) /\ SizesOf(G, t)
    BY <1>1, <1>2, <1>4 DEF SizesOf
  <2> HIDE DEF x, F, G, t, m
  <2>2. /\ SumFunctionOnSet(F, DOMAIN fills) \in Int
        /\ SumFunctionOnSet(G, DOMAIN t) = SumFunctionOnSet(F, DOMAIN fills) + x.qty
        /\ \A id :
              /\ SumFunctionOnSet(F, FillsOf(fills, id)) \in Int
              /\ SumFunctionOnSet(G, FillsOf(t, id)) =
                    SumFunctionOnSet(F, FillsOf(fills, id))
                    + (IF id = x.makerId THEN x.qty ELSE 0)
    <3>1. CountedOnce(F, fills, G, t, x)
      BY <2>1, QtyAppended
    <3> QED BY <3>1 DEF CountedOnce
  <2> QED BY <1>4, <2>2
<1>7. \A id : RemOf(c, id) = IF id = m THEN book[i].rem - q ELSE RemOf(book, id)
  BY <1>1, <1>2, <1>3, <1>5, ConsumeRemOf
<1>8. RemOf(book, m) = book[i].rem
  BY <1>1, RemOfIs
<1>9. /\ remaining + SumFunctionOnSet(F, DOMAIN fills) = taker.qty
      /\ \A j \in DOMAIN before : before[j].id \notin stp =>
            before[j].rem = RemOf(book, before[j].id)
                            + SumFunctionOnSet(F, FillsOf(fills, before[j].id))
  BY <1>1 DEF QtyConserved, SumQty, FillsOf
<1> HIDE DEF x, F, G, m, c, t
<1>10. remaining' + SumFunctionOnSet(G, DOMAIN t) = taker.qty
  BY <1>1, <1>2, <1>3, <1>6, <1>9
<1>11. ASSUME NEW j \in DOMAIN before, before[j].id \notin stp
       PROVE  before[j].rem = RemOf(c, before[j].id)
                              + SumFunctionOnSet(G, FillsOf(t, before[j].id))
  <2> DEFINE id == before[j].id
             s == SumFunctionOnSet(F, FillsOf(fills, id))
             r == SumFunctionOnSet(G, FillsOf(t, id))
  <2>1. before[j].rem = RemOf(book, id) + s
    BY <1>9, <1>11
  <2>2. s \in Int /\ r = s + (IF id = m THEN q ELSE 0)
    BY <1>6
  <2>3. RemOf(c, id) = IF id = m THEN book[i].rem - q ELSE RemOf(book, id)
    BY <1>7
  <2> HIDE DEF s, r, id
  <2>4. CASE id = m
    BY <1>2, <1>3, <1>8, <2>1, <2>2, <2>3, <2>4 DEF id, r
  <2>5. CASE id # m
    <3>1. r = s
      BY <2>2, <2>5
    <3> QED BY <2>1, <2>3, <2>5, <3>1 DEF id, r
  <2> QED BY <2>4, <2>5
<1> QED BY <1>1, <1>10, <1>11 DEF QtyConserved, SumQty, FillsOf, Idle, G, c, t

(* Self-trade prevention takes an order out of the account.                 *)
LEMMA MatchOwnConserves ==
    ASSUME IInv, QtyConserved, NEW i \in DOMAIN book, MatchOwn(i)
    PROVE  QtyConserved'
<1> DEFINE c == book'
<1>1. /\ TypeOK /\ UniqueIds(book) /\ ~Idle
      /\ c = Without(book, i) /\ stp' = stp \cup {book[i].id}
      /\ UNCHANGED <<taker, remaining, fills, before>>
  BY DEF IInv, BookSound, MatchOwn, Matching, OwnOrder
<1>2. book \in Seq(Resting)
  BY <1>1 DEF TypeOK
<1>3. UniqueIds(c)
  BY MatchOwnKeeps DEF IInv, BookSound
<1>4. \A id : id # book[i].id => RemOf(c, id) = RemOf(book, id)
  BY <1>1, <1>2, <1>3, WithoutRemOf
<1> HIDE DEF c
<1>5. ASSUME NEW j \in DOMAIN before, before[j].id \notin stp'
      PROVE  before[j].rem = RemOf(c, before[j].id)
               + SumQty({k \in DOMAIN fills : fills[k].makerId = before[j].id})
  <2>1. before[j].id \notin stp /\ before[j].id # book[i].id
    BY <1>1, <1>5
  <2> QED BY <1>1, <1>4, <2>1 DEF QtyConserved
<1> QED BY <1>1, <1>5 DEF QtyConserved, SumQty, Idle, c

(* A command that begins owes nothing yet.                                  *)
LEMMA AddOrderConserves ==
    ASSUME IInv, NEW o \in Orders, AddOrder(o)
    PROVE  QtyConserved'
<1>1. /\ TypeOK /\ UniqueIds(book) /\ Idle /\ fills = <<>> /\ fills' = <<>>
      /\ book' = book /\ stp' = stp
  BY DEF IInv, BookSound, Origin, AddOrder
<1>2. CASE UNCHANGED <<taker, remaining, before>>
  BY <1>1, <1>2 DEF QtyConserved, Idle
<1>3. CASE taker' = o /\ remaining' = o.qty /\ before' = book
  <2>1. \A S : S = {} => SumQty(S)' = 0
    BY <1>1, SumEmpty DEF SumQty
  <2>2. SumQty(DOMAIN fills)' = 0
        /\ \A id : SumQty({k \in DOMAIN fills : fills[k].makerId = id})' = 0
    BY <1>1, SumEmpty DEF SumQty
  <2>3. \A j \in DOMAIN book : book[j].rem \in Nat /\ RemOf(book, book[j].id) = book[j].rem
    BY <1>1, RemOfIs, BookShape DEF Resting
  <2>4. o.qty \in Nat
    BY BookAssumption DEF Orders
  <2> QED BY <1>1, <1>3, <2>2, <2>3, <2>4 DEF QtyConserved, SumQty
<1> QED BY <1>2, <1>3 DEF AddOrder

(* No quantity is made or lost while an order is matched.                   *)
THEOREM QtyIsConserved == Spec => []QtyConserved
<1>1. Init => QtyConserved
  BY DEF Init, QtyConserved, Idle
<1>2. IInv /\ QtyConserved /\ [Next]_vars => QtyConserved'
  <2> SUFFICES ASSUME IInv, QtyConserved, [Next]_vars PROVE QtyConserved'
    OBVIOUS
  <2>1. CASE UNCHANGED vars
    BY <2>1 DEF vars, QtyConserved, SumQty, Idle
  <2>2. CASE Finish
    BY <2>2 DEF Finish, QtyConserved, Idle
  <2>3. ASSUME NEW i \in DOMAIN book, CancelOrder(i) PROVE QtyConserved'
    BY <2>3 DEF CancelOrder, QtyConserved, Idle
  <2> QED BY <2>1, <2>2, <2>3, AddOrderConserves, MatchOwnConserves, MatchFillConserves
          DEF Next, MatchStep
<1> QED BY <1>1, <1>2, Inductive, PTL DEF Spec
-----------------------------------------------------------------------------
(* The promise of MatchSpec                                                 *)

\* b's orders that o can meet; what o would buy of the orders E; and what is
\* bought before b[i]
Reach(b, o) == {i \in DOMAIN b : b[i].side # o.side /\ Crosses(o.side, o.px, b[i].px)}
Rem(b) == [j \in DOMAIN b |-> b[j].rem]
Others(b, o, E) == {j \in E : b[j].owner # o.owner}
Bought(b, o, E) == SumFunctionOnSet(Rem(b), Others(b, o, E))
AheadOf(b, o, i) == {j \in Reach(b, o) : Ahead(b, j, i)}
Depth(b, o, i) == Bought(b, o, AheadOf(b, o, i))

(* The sums MatchSpec takes are these.                                      *)
LEMMA PromiseSums ==
    ASSUME NEW f, NEW S
    PROVE  Promise!SumFunctionOnSet(f, S) = SumFunctionOnSet(f, S)
BY DEF Promise!SumFunctionOnSet, Promise!FoldFunctionOnSet, Promise!MapThenFoldSet,
       SumFunctionOnSet, FoldFunctionOnSet, MapThenFoldSet

(* The terms of MatchSpec are these.                                        *)
LEMMA PromiseTerms ==
    ASSUME NEW b, NEW o
    PROVE  /\ Promise!Reachable(b, o) = Reach(b, o)
           /\ \A i : Promise!DepthAhead(b, o, i) = Depth(b, o, i)
           /\ \A i : Promise!Reached(b, o, i) <=> i \in Reach(b, o) /\ Depth(b, o, i) < o.qty
           /\ \A r, s : Promise!RestOrder(b, o, r, s) = RestOrder(b, o, r, s)
           /\ Promise!RestingIds(b) = RestingIds(b)
           /\ Promise!Orders = Orders
<1>1. Promise!Reachable(b, o) = Reach(b, o)
  BY DEF Promise!Reachable, Promise!OppOrders, Promise!Crosses, Reach, Crosses
<1>2. \A i : Promise!DepthAhead(b, o, i) = Depth(b, o, i)
  <2> SUFFICES ASSUME NEW i PROVE Promise!DepthAhead(b, o, i) = Depth(b, o, i)
    OBVIOUS
  <2>1. \A j : Promise!Ahead(b, j, i) <=> Ahead(b, j, i)
    BY DEF Promise!Ahead, Promise!BetterPx, Ahead, BetterPx
  <2>2. {j \in Promise!Reachable(b, o) : Promise!Ahead(b, j, i) /\ b[j].owner # o.owner}
           = Others(b, o, AheadOf(b, o, i))
    BY <1>1, <2>1 DEF Others, AheadOf
  <2>3. Promise!DepthAhead(b, o, i)
           = Promise!SumFunctionOnSet(Rem(b), Others(b, o, AheadOf(b, o, i)))
    BY <2>2 DEF Promise!DepthAhead, Rem
  <2> QED BY <2>3, PromiseSums DEF Depth, Bought
<1>3. \A i : Promise!Reached(b, o, i) <=> i \in Reach(b, o) /\ Depth(b, o, i) < o.qty
  BY <1>1, <1>2 DEF Promise!Reached
<1>4. /\ \A r, s : Promise!RestOrder(b, o, r, s) = RestOrder(b, o, r, s)
      /\ Promise!RestingIds(b) = RestingIds(b)
  BY DEF Promise!RestOrder, RestOrder, Promise!RestingIds, RestingIds
<1>5. Promise!Orders = Orders
  BY DEF Promise!Orders, Orders, Promise!Sides, Sides, Promise!Tifs, Tifs
<1> QED BY <1>1, <1>2, <1>3, <1>4, <1>5

\* b's orders and o are well formed
Book(b, o) == b \in Seq(Resting) /\ o \in Orders

(* What is reached is finite and has numbers.                               *)
LEMMA ReachIs ==
    ASSUME NEW b, NEW o, Book(b, o)
    PROVE  /\ Len(b) \in Nat /\ DOMAIN b = 1 .. Len(b) /\ IsFiniteSet(DOMAIN b)
           /\ Reach(b, o) \subseteq DOMAIN b
           /\ \A j \in DOMAIN b : /\ b[j] \in Resting /\ b[j].rem \in Nat \ {0}
                                  /\ b[j].px \in Nat /\ b[j].side \in Sides /\ j \in Nat
           /\ o.side \in Sides /\ o.px \in Nat /\ o.qty \in Nat \ {0}
<1>1. Len(b) \in Nat /\ DOMAIN b = 1 .. Len(b) /\ \A j \in DOMAIN b : b[j] \in Resting
  BY LenProperties, ElementOfSeq DEF Book
<1>2. IsFiniteSet(1 .. Len(b))
  BY <1>1, FS_Interval
<1>3. Prices \subseteq Nat /\ Qtys \subseteq Nat \ {0}
  BY BookAssumption
<1>4. \A j \in DOMAIN b : b[j].rem \in Nat \ {0} /\ b[j].px \in Nat /\ b[j].side \in Sides
  BY <1>1, <1>3 DEF Resting
<1>5. o.side \in Sides /\ o.px \in Nat /\ o.qty \in Nat \ {0}
  BY <1>3 DEF Book, Orders
<1> QED BY <1>1, <1>2, <1>4, <1>5 DEF Reach

(* One of two orders that o can meet is ahead of the other.                 *)
LEMMA AheadIsTotal ==
    ASSUME NEW b, NEW o, Book(b, o), NEW i \in Reach(b, o), NEW j \in Reach(b, o)
    PROVE  /\ i # j => Ahead(b, i, j) \/ Ahead(b, j, i)
           /\ ~(Ahead(b, i, j) /\ Ahead(b, j, i))
<1>1. /\ i \in Nat /\ j \in Nat /\ b[i].px \in Nat /\ b[j].px \in Nat
      /\ b[i].side \in Sides /\ b[j].side \in Sides /\ o.side \in Sides
      /\ b[i].side # o.side /\ b[j].side # o.side
  BY ReachIs DEF Reach
<1>2. b[i].side = b[j].side
  BY <1>1 DEF Sides
<1>3. CASE b[i].side = "sell"
  BY <1>1, <1>2, <1>3 DEF Ahead, BetterPx
<1>4. CASE b[i].side = "buy"
  BY <1>1, <1>2, <1>4 DEF Ahead, BetterPx
<1> QED BY <1>1, <1>3, <1>4 DEF Sides

(* What is bought of some orders: no less of more, and of one order more    *)
(* what remains of it, unless it is o's owner's.                            *)
LEMMA BoughtIs ==
    ASSUME NEW b, NEW o, Book(b, o), NEW E \in SUBSET DOMAIN b
    PROVE  /\ Bought(b, o, E) \in Nat
           /\ \A F \in SUBSET E : Bought(b, o, F) <= Bought(b, o, E)
           /\ \A x \in DOMAIN b \ E :
                 Bought(b, o, E \cup {x}) = Bought(b, o, E)
                     + (IF b[x].owner = o.owner THEN 0 ELSE b[x].rem)
<1>1. IsFiniteSet(DOMAIN b) /\ \A j \in DOMAIN b : Rem(b)[j] \in Nat /\ Rem(b)[j] = b[j].rem
  BY ReachIs DEF Rem
<1>2. \A F \in SUBSET DOMAIN b : /\ Others(b, o, F) \subseteq DOMAIN b
                                 /\ IsFiniteSet(Others(b, o, F))
                                 /\ Bought(b, o, F) \in Nat
  <2> SUFFICES ASSUME NEW F \in SUBSET DOMAIN b
               PROVE  /\ Others(b, o, F) \subseteq DOMAIN b
                      /\ IsFiniteSet(Others(b, o, F)) /\ Bought(b, o, F) \in Nat
    OBVIOUS
  <2>1. Others(b, o, F) \subseteq DOMAIN b
    BY DEF Others
  <2>2. IsFiniteSet(Others(b, o, F))
    BY <1>1, <2>1, FS_Subset
  <2> QED BY <1>1, <2>1, <2>2, SumNat DEF Bought
<1>3. ASSUME NEW F \in SUBSET E PROVE Bought(b, o, F) <= Bought(b, o, E)
  <2>1. Others(b, o, F) \in SUBSET Others(b, o, E)
    BY DEF Others
  <2>2. IsFiniteSet(Others(b, o, E)) /\ \A j \in Others(b, o, E) : Rem(b)[j] \in Nat
    BY <1>1, <1>2
  <2> QED BY <2>1, <2>2, SumPart DEF Bought
<1>4. ASSUME NEW x \in DOMAIN b \ E
      PROVE  Bought(b, o, E \cup {x}) = Bought(b, o, E)
                     + (IF b[x].owner = o.owner THEN 0 ELSE b[x].rem)
  <2> DEFINE S == Others(b, o, E)
             T == Others(b, o, E \cup {x})
             f == Rem(b)
  <2>1. CASE b[x].owner = o.owner
    <3>1. T = S
      BY <2>1 DEF Others
    <3>2. Bought(b, o, E \cup {x}) = Bought(b, o, E) /\ Bought(b, o, E) \in Nat
      BY <1>2, <3>1 DEF Bought
    <3> QED BY <2>1, <3>2
  <2>2. CASE b[x].owner # o.owner
    <3>1. T \ {x} = S /\ x \in T
      BY <2>2 DEF Others
    <3>2. IsFiniteSet(T) /\ \A j \in T : f[j] \in Int
      BY <1>1, <1>2
    <3>3. f[x] = b[x].rem /\ b[x].rem \in Nat
      BY <1>1
    <3>4. /\ Bought(b, o, E) = SumFunctionOnSet(f, S)
          /\ Bought(b, o, E \cup {x}) = SumFunctionOnSet(f, T)
          /\ Bought(b, o, E) \in Nat
      BY <1>2 DEF Bought
    <3> HIDE DEF S, T, f
    <3>5. SumFunctionOnSet(f, T) = f[x] + SumFunctionOnSet(f, T \ {x})
      BY <3>1, <3>2, SumRemove
    <3>6. Bought(b, o, E \cup {x}) = b[x].rem + Bought(b, o, E)
      BY <3>1, <3>3, <3>4, <3>5
    <3>7. Bought(b, o, E \cup {x}) = Bought(b, o, E) + b[x].rem
      BY ONLY <3>3, <3>4, <3>6
    <3> QED BY ONLY <2>2, <3>7
  <2> QED BY <2>1, <2>2
<1> QED BY <1>2, <1>3, <1>4

\* orders that o meets first: with each of them, all that is ahead of it
Upper(b, o, D) ==
    D \subseteq Reach(b, o) /\ \A j \in D : AheadOf(b, o, j) \subseteq D

\* x is the order o meets next, after D
NextAfter(b, o, D, x) ==
    x \in Reach(b, o) \ D /\ \A j \in Reach(b, o) \ D : j # x => Ahead(b, x, j)

(* Ahead of the next order are those o has met.                             *)
LEMMA AheadOfNext ==
    ASSUME NEW b, NEW o, Book(b, o), NEW D, Upper(b, o, D),
           NEW x, NextAfter(b, o, D, x)
    PROVE  /\ AheadOf(b, o, x) = D
           /\ Upper(b, o, D \cup {x})
<1>1. x \in Reach(b, o) \ D /\ D \subseteq Reach(b, o)
  BY DEF NextAfter, Upper
<1>2. ASSUME NEW j \in Reach(b, o), Ahead(b, j, x) PROVE j \in D
  <2>1. j # x /\ ~Ahead(b, x, j)
    BY <1>1, <1>2, AheadIsTotal
  <2> QED BY <2>1 DEF NextAfter
<1>3. ASSUME NEW j \in D PROVE Ahead(b, j, x)
  <2>1. ~Ahead(b, x, j)
    BY <1>1 DEF Upper, AheadOf
  <2>2. j \in Reach(b, o) /\ j # x
    BY <1>1
  <2> QED BY <1>1, <2>1, <2>2, AheadIsTotal
<1>4. AheadOf(b, o, x) = D
  BY <1>1, <1>2, <1>3 DEF AheadOf
<1> QED BY <1>1, <1>4 DEF Upper

(* What o buys before an order it has met, and of it, is within what it     *)
(* buys of those it has met.                                                *)
LEMMA DepthInside ==
    ASSUME NEW b, NEW o, Book(b, o), NEW D, Upper(b, o, D), NEW j \in D
    PROVE  /\ Depth(b, o, j) \in Nat
           /\ Depth(b, o, j) + (IF b[j].owner = o.owner THEN 0 ELSE b[j].rem)
                 <= Bought(b, o, D)
<1> DEFINE A == AheadOf(b, o, j)
           w == IF b[j].owner = o.owner THEN 0 ELSE b[j].rem
<1>1. /\ D \in SUBSET DOMAIN b /\ A \in SUBSET D /\ A \in SUBSET DOMAIN b
      /\ A \cup {j} \in SUBSET D /\ j \in Reach(b, o) /\ j \in DOMAIN b
  BY ReachIs DEF Upper
<1>2. j \notin A
  BY <1>1, AheadIsTotal DEF AheadOf
<1>3. Bought(b, o, A \cup {j}) = Bought(b, o, A) + w /\ Bought(b, o, A) \in Nat
  BY <1>1, <1>2, BoughtIs
<1>4. Bought(b, o, A \cup {j}) <= Bought(b, o, D)
  BY <1>1, BoughtIs
<1> QED BY <1>3, <1>4 DEF Depth

(* Before any other order it buys all that.                                 *)
LEMMA DepthOutside ==
    ASSUME NEW b, NEW o, Book(b, o), NEW D, Upper(b, o, D),
           NEW j \in Reach(b, o) \ D
    PROVE  /\ Depth(b, o, j) \in Nat /\ Bought(b, o, D) \in Nat
           /\ Bought(b, o, D) <= Depth(b, o, j)
<1>1. D \subseteq Reach(b, o) /\ AheadOf(b, o, j) \in SUBSET DOMAIN b /\ D \in SUBSET DOMAIN b
  BY ReachIs DEF Upper, AheadOf
<1>2. ASSUME NEW i \in D PROVE i \in AheadOf(b, o, j)
  <2>1. ~Ahead(b, j, i) /\ i # j /\ i \in Reach(b, o)
    BY <1>1 DEF Upper, AheadOf
  <2> QED BY <2>1, AheadIsTotal DEF AheadOf
<1>3. D \in SUBSET AheadOf(b, o, j)
  BY <1>2
<1> QED BY <1>1, <1>3, BoughtIs DEF Depth

\* h finds the places in K, in their order, of c's orders
Trace(h, c, K) ==
    /\ h \in [DOMAIN c -> K]
    /\ \A k, m \in DOMAIN c : k < m => h[k] < h[m]
    /\ \A i \in K : \E k \in DOMAIN c : h[k] = i

\* g finds the places of those that are left without c[i]
TraceAfter(g, h, c, i, K) ==
    /\ Trace(g, Without(c, i), K \ {h[i]})
    /\ \A k \in DOMAIN Without(c, i) : \E m \in DOMAIN c :
          g[k] = h[m] /\ Without(c, i)[k] = c[m]

(* Without one order, h without its place.                                  *)
LEMMA TraceWithout ==
    ASSUME NEW S, NEW c \in Seq(S), NEW i \in DOMAIN c,
           NEW K \in SUBSET Nat, NEW h, Trace(h, c, K)
    PROVE  \E g : TraceAfter(g, h, c, i, K)
<1> DEFINE d == Without(c, i)
           g == [k \in 1 .. Len(c) - 1 |-> IF k < i THEN h[k] ELSE h[k + 1]]
<1>1. Len(c) \in Nat /\ DOMAIN c = 1 .. Len(c) /\ i \in 1 .. Len(c)
  BY LenProperties
<1>2. /\ d \in Seq(S) /\ Len(d) = Len(c) - 1
      /\ \A k \in 1 .. Len(c) - 1 : d[k] = IF k < i THEN c[k] ELSE c[k + 1]
  BY WithoutIs
<1> HIDE DEF d
<1>3. DOMAIN d = 1 .. Len(c) - 1
  BY <1>2, LenProperties
<1>4. /\ \A k \in DOMAIN c : h[k] \in K /\ h[k] \in Nat
      /\ \A k, m \in DOMAIN c : k < m => h[k] < h[m]
      /\ \A j \in K : \E k \in DOMAIN c : h[k] = j
  BY DEF Trace
<1>5. ASSUME NEW k \in DOMAIN d
      PROVE  \E m \in DOMAIN c : m # i /\ g[k] = h[m] /\ d[k] = c[m]
  <2>1. CASE k < i
    <3>1. k \in DOMAIN c /\ k # i /\ g[k] = h[k] /\ d[k] = c[k]
      BY <1>1, <1>2, <1>3, <2>1
    <3> QED BY <3>1
  <2>2. CASE ~(k < i)
    <3>1. k + 1 \in DOMAIN c /\ k + 1 # i /\ g[k] = h[k + 1] /\ d[k] = c[k + 1]
      BY <1>1, <1>2, <1>3, <2>2
    <3> QED BY <3>1
  <2> QED BY <2>1, <2>2
<1>6. ASSUME NEW m \in DOMAIN c, m # i PROVE \E k \in DOMAIN d : g[k] = h[m]
  <2>1. CASE m < i
    <3>1. m \in DOMAIN d /\ g[m] = h[m]
      BY <1>1, <1>3, <2>1
    <3> QED BY <3>1
  <2>2. CASE ~(m < i)
    <3>1. m - 1 \in DOMAIN d /\ ~(m - 1 < i) /\ m - 1 + 1 = m
      BY <1>1, <1>3, <1>6, <2>2
    <3>2. g[m - 1] = h[m]
      BY <1>3, <3>1
    <3> QED BY <3>1, <3>2
  <2> QED BY <2>1, <2>2
<1>7. ASSUME NEW k \in DOMAIN d, NEW m \in DOMAIN d, k < m PROVE g[k] < g[m]
  <2>1. k \in 1 .. Len(c) - 1 /\ m \in 1 .. Len(c) - 1
    BY <1>3
  <2>2. CASE m < i
    <3>1. k \in DOMAIN c /\ m \in DOMAIN c /\ g[k] = h[k] /\ g[m] = h[m]
      BY <1>1, <1>7, <2>1, <2>2
    <3> QED BY <1>4, <1>7, <3>1
  <2>3. CASE k < i /\ ~(m < i)
    <3>1. k \in DOMAIN c /\ m + 1 \in DOMAIN c /\ g[k] = h[k] /\ g[m] = h[m + 1] /\ k < m + 1
      BY <1>1, <1>7, <2>1, <2>3
    <3> QED BY <1>4, <3>1
  <2>4. CASE ~(k < i) /\ ~(m < i)
    <3>1. /\ k + 1 \in DOMAIN c /\ m + 1 \in DOMAIN c /\ k + 1 < m + 1
          /\ g[k] = h[k + 1] /\ g[m] = h[m + 1]
      BY <1>1, <1>7, <2>1, <2>4
    <3> QED BY <1>4, <3>1
  <2> QED BY <1>1, <1>7, <2>1, <2>2, <2>3, <2>4
<1>8. ASSUME NEW m \in DOMAIN c, m # i PROVE h[m] # h[i]
  <2>1. m < i \/ i < m
    BY <1>1, <1>8
  <2>2. h[m] < h[i] \/ h[i] < h[m]
    BY <1>4, <2>1
  <2> QED BY <1>4, <2>2
<1>9. DOMAIN g = DOMAIN d /\ g = [k \in DOMAIN d |-> g[k]]
  BY <1>3
<1> HIDE DEF g
<1>10. g \in [DOMAIN d -> K \ {h[i]}]
  <2>1. \A k \in DOMAIN d : g[k] \in K \ {h[i]}
    BY <1>4, <1>5, <1>8
  <2> QED BY <1>9, <2>1
<1>11. \A j \in K \ {h[i]} : \E k \in DOMAIN d : g[k] = j
  BY <1>4, <1>6
<1>12. Trace(g, d, K \ {h[i]})
  BY <1>7, <1>10, <1>11 DEF Trace
<1> QED BY <1>5, <1>12 DEF TraceAfter, d

\* a resting order after q of it is traded
Less(e, q) == [e EXCEPT !.rem = @ - q]

\* c is what is left of b, and r of o, in the middle of matching: o has met
\* all of D and, when p # 0, bought p of x, which is more than it wanted
Progress(b, o, c, r, D, x, p, h) ==
    /\ Upper(b, o, D)
    /\ \A j \in D : Depth(b, o, j) < o.qty
    /\ Trace(h, c, DOMAIN b \ D)
    /\ \A k \in DOMAIN c : c[k] = Less(b[h[k]], IF h[k] = x THEN p ELSE 0)
    /\ r \in Nat /\ p \in Nat /\ o.qty = Bought(b, o, D) + p + r
    /\ p # 0 => /\ r = 0 /\ NextAfter(b, o, D, x)
                /\ b[x].owner # o.owner /\ p < b[x].rem

(* A trade of nothing leaves an order as it is.                             *)
LEMMA LessNone == \A e \in Resting : Less(e, 0) = e
BY DEF Less, Resting

(* As long as o wants something no order is bought in part.                 *)
LEMMA ProgressWhole ==
    ASSUME NEW b, NEW o, Book(b, o), NEW c, NEW r, NEW D, NEW x, NEW p, NEW h,
           Progress(b, o, c, r, D, x, p, h), r > 0 \/ p = 0
    PROVE  /\ p = 0 /\ r \in Nat /\ Bought(b, o, D) \in Nat
           /\ o.qty = Bought(b, o, D) + r
           /\ \A k \in DOMAIN c : /\ h[k] \in DOMAIN b \ D /\ c[k] = b[h[k]]
                                  /\ c[k] \in Resting
<1>1. p = 0 /\ r \in Nat /\ o.qty = Bought(b, o, D) + p + r
  BY DEF Progress
<1>2. D \in SUBSET DOMAIN b
  BY ReachIs DEF Progress, Upper
<1>3. Bought(b, o, D) \in Nat
  BY <1>2, BoughtIs
<1>4. ASSUME NEW k \in DOMAIN c
      PROVE  h[k] \in DOMAIN b \ D /\ c[k] = b[h[k]] /\ c[k] \in Resting
  <2>1. h[k] \in DOMAIN b \ D
    BY DEF Progress, Trace
  <2>2. c[k] = Less(b[h[k]], 0)
    BY <1>1 DEF Progress
  <2>3. b[h[k]] \in Resting
    BY <2>1, ReachIs
  <2> QED BY <2>1, <2>2, <2>3, LessNone
<1>5. o.qty = Bought(b, o, D) + r
  BY ONLY <1>1, <1>3
<1> QED BY <1>1, <1>3, <1>4, <1>5

(* The best order of what is left is the next one.                          *)
LEMMA BestIsNext ==
    ASSUME NEW b, NEW o, Book(b, o), NEW c, c \in Seq(Resting),
           NEW r, NEW D, NEW x, NEW p, NEW h,
           Progress(b, o, c, r, D, x, p, h), r > 0,
           NEW i \in DOMAIN c, IsBest(c, o.side, i), Crosses(o.side, o.px, c[i].px)
    PROVE  NextAfter(b, o, D, h[i])
<1>1. \A k \in DOMAIN c : h[k] \in DOMAIN b \ D /\ c[k] = b[h[k]]
  BY ProgressWhole
<1>2. /\ i \in OppOrders(c, o.side)
      /\ \A k \in OppOrders(c, o.side) \ {i} : Ahead(c, i, k)
  BY DEF IsBest
<1>3. h[i] \in Reach(b, o) \ D
  BY <1>1, <1>2 DEF Reach, OppOrders
<1>4. ASSUME NEW j \in Reach(b, o) \ D, j # h[i] PROVE Ahead(b, h[i], j)
  <2>1. PICK k \in DOMAIN c : h[k] = j
    BY ReachIs DEF Progress, Trace
  <2>2. k # i /\ c[k] = b[j] /\ c[i] = b[h[i]]
    BY <1>1, <1>4, <2>1
  <2>3. k \in OppOrders(c, o.side)
    BY <2>2 DEF OppOrders, Reach
  <2>4. Ahead(c, i, k)
    BY <1>2, <2>2, <2>3
  <2>5. i < k => h[i] < h[k]
    BY DEF Progress, Trace
  <2> QED BY <2>1, <2>2, <2>4, <2>5 DEF Ahead, BetterPx
<1> QED BY <1>3, <1>4 DEF NextAfter

(* o meets its next order and takes it whole, or cancels it, its own.       *)
LEMMA MetWhole ==
    ASSUME NEW b, NEW o, Book(b, o), NEW c, c \in Seq(Resting),
           NEW r, NEW D, NEW x, NEW p, NEW h,
           Progress(b, o, c, r, D, x, p, h), r > 0,
           NEW i \in DOMAIN c, NextAfter(b, o, D, h[i]),
           NEW w, w = (IF c[i].owner = o.owner THEN 0 ELSE c[i].rem), w <= r
    PROVE  \E g : Progress(b, o, Without(c, i), r - w, D \cup {h[i]}, 0, 0, g)
<1> DEFINE y == h[i]
           E == D \cup {y}
           d == Without(c, i)
<1>1. /\ p = 0 /\ r \in Nat /\ Bought(b, o, D) \in Nat
      /\ o.qty = Bought(b, o, D) + r
      /\ \A k \in DOMAIN c : h[k] \in DOMAIN b \ D /\ c[k] = b[h[k]] /\ c[k] \in Resting
  BY ProgressWhole
<1>2. Upper(b, o, D) /\ (\A j \in D : Depth(b, o, j) < o.qty) /\ Trace(h, c, DOMAIN b \ D)
  BY DEF Progress
<1>3. /\ DOMAIN b \ D \in SUBSET Nat /\ D \in SUBSET DOMAIN b /\ y \in DOMAIN b \ D
      /\ (DOMAIN b \ D) \ {y} = DOMAIN b \ E
  BY <1>1, <1>2, ReachIs DEF Upper
<1>4. AheadOf(b, o, y) = D /\ Upper(b, o, E)
  BY <1>2, AheadOfNext
<1>5. \A j \in E : Depth(b, o, j) < o.qty
  <2>1. Depth(b, o, y) < o.qty
    <3>1. Depth(b, o, y) = Bought(b, o, D)
      BY <1>4 DEF Depth
    <3> QED BY <1>1, <3>1
  <2> QED BY <1>2, <2>1
<1>6. w \in Nat /\ Bought(b, o, E) = Bought(b, o, D) + w
  <2>1. c[i] = b[y] /\ b[y].rem \in Nat
    BY <1>1, ReachIs
  <2>2. w = (IF b[y].owner = o.owner THEN 0 ELSE b[y].rem)
    BY <2>1
  <2>3. w \in Nat
    BY <2>1, <2>2
  <2> QED BY <1>3, <2>2, <2>3, BoughtIs
<1> HIDE DEF y, E
<1>7. PICK g : /\ Trace(g, d, DOMAIN b \ E)
               /\ \A k \in DOMAIN d : \E m \in DOMAIN c : g[k] = h[m] /\ d[k] = c[m]
  <2> DEFINE K == DOMAIN b \ D
  <2>1. K \in SUBSET Nat /\ Trace(h, c, K) /\ K \ {y} = DOMAIN b \ E
    BY <1>2, <1>3
  <2> HIDE DEF K, d
  <2>2. PICK g : TraceAfter(g, h, c, i, K)
    BY <2>1, TraceWithout
  <2> QED BY <2>1, <2>2 DEF TraceAfter, y, d
<1> HIDE DEF d
<1>8. \A k \in DOMAIN d : d[k] = Less(b[g[k]], IF g[k] = 0 THEN 0 ELSE 0)
  <2> SUFFICES ASSUME NEW k \in DOMAIN d PROVE d[k] = Less(b[g[k]], 0)
    OBVIOUS
  <2>1. PICK m \in DOMAIN c : g[k] = h[m] /\ d[k] = c[m]
    BY <1>7
  <2>2. d[k] = b[g[k]] /\ b[g[k]] \in Resting
    BY <1>1, <2>1
  <2> QED BY <2>2, LessNone
<1>9. r - w \in Nat /\ 0 \in Nat /\ o.qty = Bought(b, o, E) + 0 + (r - w)
  BY <1>1, <1>6
<1> QED BY <1>4, <1>5, <1>7, <1>8, <1>9 DEF Progress, y, E, d

(* o buys a part of its next order, and wants nothing more.                 *)
LEMMA MetInPart ==
    ASSUME NEW b, NEW o, Book(b, o), NEW c, c \in Seq(Resting),
           NEW r, NEW D, NEW x, NEW p, NEW h,
           Progress(b, o, c, r, D, x, p, h), r > 0,
           NEW i \in DOMAIN c, NextAfter(b, o, D, h[i]),
           c[i].owner # o.owner, r < c[i].rem
    PROVE  Progress(b, o, [c EXCEPT ![i].rem = @ - r], 0, D, h[i], r, h)
<1> DEFINE e == Less(c[i], r)
           d == [c EXCEPT ![i] = e]
<1>1. /\ p = 0 /\ r \in Nat /\ Bought(b, o, D) \in Nat
      /\ o.qty = Bought(b, o, D) + r
      /\ \A k \in DOMAIN c : h[k] \in DOMAIN b \ D /\ c[k] = b[h[k]] /\ c[k] \in Resting
  BY ProgressWhole
<1>2. /\ Upper(b, o, D) /\ (\A j \in D : Depth(b, o, j) < o.qty)
      /\ Trace(h, c, DOMAIN b \ D)
  BY DEF Progress
<1>3. [c EXCEPT ![i].rem = @ - r] = d
  BY DEF Less
<1> HIDE DEF e
<1>4. DOMAIN d = DOMAIN c /\ \A k \in DOMAIN c : d[k] = IF k = i THEN e ELSE c[k]
  OBVIOUS
<1> HIDE DEF d
<1>5. Trace(h, d, DOMAIN b \ D)
  BY <1>2, <1>4 DEF Trace
<1>6. \A k \in DOMAIN d : d[k] = Less(b[h[k]], IF h[k] = h[i] THEN r ELSE 0)
  <2> SUFFICES ASSUME NEW k \in DOMAIN d
               PROVE  d[k] = Less(b[h[k]], IF h[k] = h[i] THEN r ELSE 0)
    OBVIOUS
  <2>1. CASE k = i
    BY <1>1, <1>4, <2>1 DEF e
  <2>2. CASE k # i
    <3>1. h[k] # h[i]
      <4>1. k < i \/ i < k
        BY <1>4, <2>2, LenProperties
      <4>2. h[k] < h[i] \/ h[i] < h[k]
        BY <1>2, <1>4, <4>1 DEF Trace
      <4>3. h[k] \in Nat /\ h[i] \in Nat
        BY <1>1, <1>4, ReachIs
      <4> QED BY <4>2, <4>3
    <3>2. d[k] = b[h[k]] /\ b[h[k]] \in Resting
      BY <1>1, <1>4, <2>2
    <3> QED BY <3>1, <3>2, LessNone
  <2> QED BY <2>1, <2>2
<1>7. 0 \in Nat /\ o.qty = Bought(b, o, D) + r + 0
  BY <1>1
<1>8. b[h[i]].owner # o.owner /\ r < b[h[i]].rem
  BY <1>1
<1>9. Progress(b, o, d, 0, D, h[i], r, h)
  BY <1>1, <1>2, <1>5, <1>6, <1>7, <1>8 DEF Progress
<1> QED BY <1>3, <1>9

\* what o buys of b[i], having met D and bought p of x
Share(b, o, D, x, p, i) ==
    IF i \in D THEN IF b[i].owner = o.owner THEN 0 ELSE b[i].rem
    ELSE IF i = x THEN p ELSE 0

(* What these shares make together.                                         *)
LEMMA SharesAddUp ==
    ASSUME NEW b, NEW o, Book(b, o), NEW D \in SUBSET DOMAIN b, NEW x,
           NEW p \in Nat, p # 0 => x \in DOMAIN b \ D,
           NEW f, \A i \in DOMAIN b : f[i] = Share(b, o, D, x, p, i)
    PROVE  SumFunctionOnSet(f, DOMAIN b) = Bought(b, o, D) + p
<1> DEFINE S == DOMAIN b
           E == Others(b, o, D)
           g == [i \in S |-> IF i \in E THEN b[i].rem ELSE 0]
<1>1. /\ IsFiniteSet(S) /\ E \in SUBSET S /\ IsFiniteSet(E)
      /\ \A i \in S : b[i].rem \in Nat
  <2>1. IsFiniteSet(S) /\ E \in SUBSET S /\ \A i \in S : b[i].rem \in Nat
    BY ReachIs DEF Others
  <2>2. IsFiniteSet(E)
    BY <2>1, FS_Subset
  <2> QED BY <2>1, <2>2
<1>2. /\ \A i \in S : g[i] \in Nat /\ (i \notin E => g[i] = 0)
      /\ \A i \in E : g[i] = Rem(b)[i]
  BY <1>1 DEF Rem
<1>3. \A i \in S : f[i] = IF i \notin D /\ i = x THEN g[i] + p ELSE g[i]
  <2> SUFFICES ASSUME NEW i \in S
               PROVE  f[i] = IF i \notin D /\ i = x THEN g[i] + p ELSE g[i]
    OBVIOUS
  <2>1. f[i] = Share(b, o, D, x, p, i) /\ b[i].rem \in Nat
    BY <1>1
  <2>2. CASE i \in D
    BY <2>1, <2>2 DEF Share, Others
  <2>3. CASE i \notin D
    BY <2>1, <2>3 DEF Share, Others
  <2> QED BY <2>2, <2>3
<1> HIDE DEF g
<1>4. SumFunctionOnSet(g, S) = Bought(b, o, D) /\ Bought(b, o, D) \in Nat
  <2>1. SumFunctionOnSet(g, E) = SumFunctionOnSet(g, S)
    BY <1>1, <1>2, SumPart
  <2>2. SumFunctionOnSet(g, E) = SumFunctionOnSet(Rem(b), E)
    BY <1>1, <1>2, SumSame
  <2>3. Bought(b, o, D) \in Nat
    BY BoughtIs
  <2> QED BY <2>1, <2>2, <2>3 DEF Bought
<1>5. CASE p = 0
  <2>1. \A i \in S : f[i] = g[i]
    BY <1>2, <1>3, <1>5
  <2>2. SumFunctionOnSet(f, S) = SumFunctionOnSet(g, S)
    BY <1>1, <2>1, SumSame
  <2> QED BY <1>4, <1>5, <2>2
<1>6. CASE p # 0
  <2>1. x \in S /\ f[x] = g[x] + p /\ \A i \in S \ {x} : f[i] = g[i]
    BY <1>3, <1>6
  <2>2. p \in Int /\ \A i \in S : g[i] \in Int
    BY <1>2
  <2>3. SumFunctionOnSet(f, S) = SumFunctionOnSet(g, S) + p
    <3> HIDE DEF S, E
    <3>1. IsFiniteSet(S) /\ x \in S
      BY <1>1, <2>1
    <3> QED BY ONLY <2>1, <2>2, <3>1, SumMoves
  <2> QED BY <1>4, <2>3 DEF S
<1> QED BY <1>5, <1>6

(* Orders that o did not get to lie behind all it wants.                    *)
LEMMA NotReached ==
    ASSUME NEW b, NEW o, Book(b, o), NEW c, c \in Seq(Resting),
           NEW r, NEW D, NEW x, NEW p, NEW h,
           Progress(b, o, c, r, D, x, p, h),
           r = 0 \/ ~CanMatch(c, o.side, o.px),
           NEW j \in Reach(b, o) \ D, p # 0 => j # x
    PROVE  ~(Depth(b, o, j) < o.qty)
<1>1. /\ Upper(b, o, D) /\ r \in Nat /\ p \in Nat /\ o.qty = Bought(b, o, D) + p + r
      /\ p # 0 => r = 0 /\ NextAfter(b, o, D, x) /\ b[x].owner # o.owner /\ p < b[x].rem
  BY DEF Progress
<1>2. D \in SUBSET DOMAIN b /\ Bought(b, o, D) \in Nat
  <2>1. D \in SUBSET DOMAIN b
    BY <1>1, ReachIs DEF Upper
  <2> QED BY <2>1, BoughtIs
<1>3. CASE p # 0
  <2>1. Upper(b, o, D \cup {x}) /\ j \in Reach(b, o) \ (D \cup {x})
    BY <1>1, <1>3, AheadOfNext
  <2>2. Bought(b, o, D \cup {x}) <= Depth(b, o, j) /\ Depth(b, o, j) \in Nat
    BY <2>1, DepthOutside
  <2>3. x \in DOMAIN b \ D /\ b[x].rem \in Nat
    BY <1>1, <1>3, ReachIs DEF NextAfter
  <2>4. Bought(b, o, D \cup {x}) = Bought(b, o, D) + b[x].rem
    BY <1>1, <1>2, <1>3, <2>3, BoughtIs
  <2> QED BY <1>1, <1>2, <1>3, <2>2, <2>3, <2>4
<1>4. CASE p = 0
  <2>1. Bought(b, o, D) <= Depth(b, o, j) /\ Depth(b, o, j) \in Nat
    BY <1>1, DepthOutside
  <2>2. CASE r = 0
    BY <1>1, <1>2, <1>4, <2>1, <2>2
  <2>3. CASE ~CanMatch(c, o.side, o.px)
    <3>1. PICK k \in DOMAIN c : h[k] = j
      BY ReachIs DEF Progress, Trace
    <3>2. c[k] = b[j]
      BY <1>4, <3>1, ProgressWhole
    <3> QED BY <2>3, <3>1, <3>2 DEF CanMatch, OppOrders, Reach
  <2> QED BY <2>2, <2>3
<1> QED BY <1>3, <1>4

(* When the loop ends, MatchSpec's o buys the same of every order.          *)
LEMMA SharesAsPromised ==
    ASSUME NEW b, NEW o, Book(b, o), NEW c, c \in Seq(Resting),
           NEW r, NEW D, NEW x, NEW p, NEW h,
           Progress(b, o, c, r, D, x, p, h),
           r = 0 \/ ~CanMatch(c, o.side, o.px), NEW i \in DOMAIN b
    PROVE  /\ Promise!Traded(b, o, i) = Share(b, o, D, x, p, i)
           /\ Promise!Leaves(b, o, i) <=> i \in D
<1> DEFINE t == Promise!Traded(b, o, i)
<1>1. /\ Upper(b, o, D) /\ r \in Nat /\ p \in Nat /\ o.qty = Bought(b, o, D) + p + r
      /\ p # 0 => r = 0 /\ NextAfter(b, o, D, x) /\ b[x].owner # o.owner /\ p < b[x].rem
      /\ \A j \in D : Depth(b, o, j) < o.qty
  BY DEF Progress
<1>2. D \in SUBSET Reach(b, o) /\ Bought(b, o, D) \in Nat /\ b[i].rem \in Nat \ {0}
  <2>1. D \in SUBSET DOMAIN b /\ D \in SUBSET Reach(b, o) /\ b[i].rem \in Nat \ {0}
    BY <1>1, ReachIs DEF Upper
  <2> QED BY <2>1, BoughtIs
<1>3. /\ Promise!Reached(b, o, i) <=> i \in Reach(b, o) /\ Depth(b, o, i) < o.qty
      /\ Promise!DepthAhead(b, o, i) = Depth(b, o, i)
  BY PromiseTerms
<1>4. /\ ~Promise!Reached(b, o, i) \/ b[i].owner = o.owner => t = 0
      /\ Promise!Reached(b, o, i) /\ b[i].owner # o.owner
            => t = IF b[i].rem <= o.qty - Depth(b, o, i) THEN b[i].rem
                   ELSE o.qty - Depth(b, o, i)
  BY <1>3 DEF Promise!Traded
<1>5. Promise!Leaves(b, o, i)
         <=> t = b[i].rem \/ (Promise!Reached(b, o, i) /\ b[i].owner = o.owner)
  BY DEF Promise!Leaves
<1> HIDE DEF t
<1>6. CASE i \in D
  <2>1. Promise!Reached(b, o, i)
    BY <1>1, <1>2, <1>3, <1>6
  <2>2. CASE b[i].owner = o.owner
    BY <1>4, <1>5, <1>6, <2>1, <2>2 DEF Share, t
  <2>3. CASE b[i].owner # o.owner
    <3>1. Depth(b, o, i) \in Nat /\ Depth(b, o, i) + b[i].rem <= Bought(b, o, D)
      BY <1>1, <1>6, <2>3, DepthInside
    <3>2. b[i].rem <= o.qty - Depth(b, o, i)
      BY <1>1, <1>2, <3>1
    <3> QED BY <1>4, <1>5, <1>6, <2>1, <2>3, <3>2 DEF Share, t
  <2> QED BY <2>2, <2>3
<1>7. CASE p # 0 /\ i = x
  <2>1. i \in Reach(b, o) \ D /\ b[i].owner # o.owner /\ p < b[i].rem /\ r = 0
    BY <1>1, <1>7 DEF NextAfter
  <2>2. Depth(b, o, i) = Bought(b, o, D)
    <3>1. AheadOf(b, o, x) = D
      BY <1>1, <1>7, AheadOfNext
    <3> QED BY <1>7, <3>1 DEF Depth
  <2>3. o.qty - Depth(b, o, i) = p /\ Depth(b, o, i) < o.qty
    BY <1>1, <1>2, <1>7, <2>1, <2>2
  <2>4. Promise!Reached(b, o, i) /\ t = p /\ t # b[i].rem
    BY <1>1, <1>2, <1>3, <1>4, <2>1, <2>3
  <2> QED BY <1>5, <1>7, <2>1, <2>4 DEF Share, t
<1>8. CASE i \notin D /\ ~(p # 0 /\ i = x)
  <2>1. ~Promise!Reached(b, o, i)
    BY <1>3, <1>8, NotReached
  <2>2. t = 0 /\ t # b[i].rem
    BY <1>2, <1>4, <2>1
  <2> QED BY <1>5, <1>8, <2>1, <2>2 DEF Share, t
<1> QED BY <1>1, <1>6, <1>7, <1>8 DEF NextAfter

(* So the book is what MatchSpec's o leaves of it, and r what o has left.   *)
LEMMA Settled ==
    ASSUME NEW b, NEW o, Book(b, o), NEW c, c \in Seq(Resting),
           NEW r, NEW D, NEW x, NEW p, NEW h,
           Progress(b, o, c, r, D, x, p, h),
           r = 0 \/ ~CanMatch(c, o.side, o.px)
    PROVE  Promise!Survive(c, b, o) /\ Promise!Left(b, o) = r
<1> DEFINE f == [i \in DOMAIN b |-> Promise!Traded(b, o, i)]
           a == [i \in DOMAIN b |-> [b[i] EXCEPT !.rem = @ - Promise!Traded(b, o, i)]]
           K == {i \in DOMAIN b : ~Promise!Leaves(b, o, i)}
<1>1. \A i \in DOMAIN b : /\ Promise!Traded(b, o, i) = Share(b, o, D, x, p, i)
                          /\ Promise!Leaves(b, o, i) <=> i \in D
  BY SharesAsPromised
<1>2. /\ Upper(b, o, D) /\ r \in Nat /\ p \in Nat /\ o.qty = Bought(b, o, D) + p + r
      /\ p # 0 => NextAfter(b, o, D, x)
      /\ Trace(h, c, DOMAIN b \ D)
      /\ \A k \in DOMAIN c : c[k] = Less(b[h[k]], IF h[k] = x THEN p ELSE 0)
  BY DEF Progress
<1>3. D \in SUBSET DOMAIN b /\ (p # 0 => x \in DOMAIN b \ D)
  BY <1>2, ReachIs DEF Upper, NextAfter
<1>4. Promise!Left(b, o) = r
  <2>1. \A i \in DOMAIN b : f[i] = Share(b, o, D, x, p, i)
    BY <1>1
  <2>2. DOMAIN f = DOMAIN b
    OBVIOUS
  <2>3. Promise!Left(b, o) = o.qty - Promise!SumFunctionOnSet(f, DOMAIN b)
    BY DEF Promise!Left, Promise!SumFunction
  <2> HIDE DEF f
  <2>4. SumFunctionOnSet(f, DOMAIN b) = Bought(b, o, D) + p
    BY <1>2, <1>3, <2>1, SharesAddUp
  <2>5. Promise!SumFunctionOnSet(f, DOMAIN b) = Bought(b, o, D) + p
    BY <2>4, PromiseSums
  <2>6. Bought(b, o, D) \in Nat
    BY <1>3, BoughtIs
  <2> QED BY ONLY <1>2, <2>3, <2>5, <2>6
<1>5. K = DOMAIN b \ D
  BY <1>1
<1>6. \A k \in DOMAIN c : c[k] = a[h[k]]
  <2> SUFFICES ASSUME NEW k \in DOMAIN c PROVE c[k] = a[h[k]]
    OBVIOUS
  <2>1. h[k] \in DOMAIN b \ D
    BY <1>2 DEF Trace
  <2>2. Promise!Traded(b, o, h[k]) = IF h[k] = x THEN p ELSE 0
    BY <1>1, <2>1 DEF Share
  <2>3. a[h[k]] = Less(b[h[k]], Promise!Traded(b, o, h[k]))
    BY <2>1 DEF Less
  <2> QED BY <1>2, <2>2, <2>3
<1> HIDE DEF a, K
<1>7. Promise!Keeps(c, a, K)
  BY <1>2, <1>5, <1>6 DEF Promise!Keeps, Trace
<1> QED BY <1>4, <1>7 DEF Promise!Survive, a, K

\* what holds between the steps of a command beside IInv: the order in flight
\* could be submitted to the book it met, and has met some of it
Begun ==
    /\ seq <= MaxSeq
    /\ ~Idle => /\ seq - 1 \in Nat
                /\ taker.id \notin RestingIds(before)
                /\ ~(taker.tif = "POST_ONLY" /\ CanMatch(before, taker.side, taker.px))
                /\ \E D, x, p, h : Progress(before, taker, book, remaining, D, x, p, h)

(* An order is not NoOrder.                                                 *)
LEMMA OrdersAre == \A o \in Orders : o # NoOrder
<1> SUFFICES ASSUME NEW o \in Orders PROVE o # NoOrder
  OBVIOUS
<1>1. o.tif \in Tifs /\ NoOrder.tif = "none" /\ "none" \notin Tifs
  BY DEF Orders, NoOrder, Tifs
<1> QED BY <1>1

(* What the invariants say of the order in flight.                          *)
LEMMA InFlight ==
    ASSUME IInv, ~Idle
    PROVE  Book(before, taker) /\ taker \in Orders /\ book \in Seq(Resting)
           /\ remaining \in Nat /\ seq \in Nat
BY DEF IInv, TypeOK, Idle, Book

(* An order that is taken in has met nothing yet.                           *)
LEMMA NothingMet ==
    ASSUME NEW b, NEW o, Book(b, o)
    PROVE  \E D, x, p, h : Progress(b, o, b, o.qty, D, x, p, h)
<1> DEFINE h == [k \in DOMAIN b |-> k]
<1>1. /\ Len(b) \in Nat /\ DOMAIN b = 1 .. Len(b) /\ o.qty \in Nat
      /\ \A k \in DOMAIN b : b[k] \in Resting
  BY ReachIs
<1>2. Bought(b, o, {}) = 0
  <2>1. Others(b, o, {}) = {}
    BY DEF Others
  <2> QED BY <2>1, SumEmpty DEF Bought
<1>3. Upper(b, o, {})
  BY DEF Upper
<1>4. Trace(h, b, DOMAIN b \ {})
  BY DEF Trace
<1>5. \A k \in DOMAIN b : b[k] = Less(b[h[k]], IF h[k] = 0 THEN 0 ELSE 0)
  BY <1>1, LessNone
<1>6. o.qty = Bought(b, o, {}) + 0 + o.qty
  BY <1>1, <1>2
<1> HIDE DEF h
<1>7. Progress(b, o, b, o.qty, {}, 0, 0, h)
  BY <1>1, <1>3, <1>4, <1>5, <1>6 DEF Progress
<1> QED BY <1>7

(* Taking an order in is nothing yet, turning one down is its submission.   *)
LEMMA AddOrderImplements ==
    ASSUME IInv, Begun, NEW o \in Orders, AddOrder(o)
    PROVE  Begun' /\ [Promise!Next]_(Promise!vars)
<1>1. /\ Idle /\ seq < MaxSeq /\ o.id \notin RestingIds(book) /\ seq' = seq + 1
      /\ book' = book /\ seq \in Nat /\ MaxSeq \in Nat
  BY BookAssumption DEF AddOrder, IInv, TypeOK
<1>2. CASE /\ o.tif = "POST_ONLY" /\ CanMatch(book, o.side, o.px)
           /\ UNCHANGED <<taker, remaining, before>>
  <2>1. Idle' /\ seq' <= MaxSeq
    BY <1>1, <1>2 DEF Idle
  <2>2. Promise!Reachable(book, o) # {} /\ Promise!RestingIds(book) = RestingIds(book)
        /\ o \in Promise!Orders
    <3>1. Reach(book, o) # {}
      BY <1>2 DEF CanMatch, OppOrders, Reach
    <3> QED BY <3>1, PromiseTerms
  <2>3. Promise!AfterOrder(book, book, o, seq + 1)
    BY <1>2, <2>2 DEF Promise!AfterOrder, Promise!Refused
  <2>4. Promise!Submit(o)
    BY <1>1, <2>1, <2>2, <2>3 DEF Promise!Submit
  <2>5. Promise!Next
    BY <2>2, <2>4 DEF Promise!Next
  <2> QED BY <2>1, <2>5 DEF Begun
<1>3. CASE /\ ~(o.tif = "POST_ONLY" /\ CanMatch(book, o.side, o.px))
           /\ taker' = o /\ remaining' = o.qty /\ before' = book
  <2>1. ~Idle'
    BY <1>3, OrdersAre DEF Idle
  <2>2. Book(book, o)
    BY DEF IInv, TypeOK, Book
  <2>3. \E D, x, p, h : Progress(book, o, book, o.qty, D, x, p, h)
    BY <2>2, NothingMet
  <2>4. Begun'
    BY <1>1, <1>3, <2>3 DEF Begun
  <2>5. UNCHANGED Promise!vars
    BY <1>1, <1>3, <2>1 DEF Promise!vars
  <2> QED BY <2>4, <2>5
<1> QED BY <1>2, <1>3 DEF AddOrder

(* One iteration of the loop is none of MatchSpec.                          *)
LEMMA MatchImplements ==
    ASSUME IInv, Begun, NEW i \in DOMAIN book, MatchOwn(i) \/ MatchFill(i)
    PROVE  Begun' /\ [Promise!Next]_(Promise!vars)
<1>1. /\ ~Idle /\ remaining > 0 /\ IsBest(book, taker.side, i)
      /\ Crosses(taker.side, taker.px, book[i].px)
      /\ UNCHANGED <<taker, seq, before>>
  BY DEF MatchOwn, MatchFill, Matching
<1>2. Book(before, taker) /\ book \in Seq(Resting) /\ remaining \in Nat
      /\ book[i].rem \in Nat \ {0}
  BY <1>1, InFlight, BookShape DEF IInv, Resting
<1>3. PICK D, x, p, h : Progress(before, taker, book, remaining, D, x, p, h)
  BY <1>1 DEF Begun
<1>4. NextAfter(before, taker, D, h[i])
  BY <1>1, <1>2, <1>3, BestIsNext
<1>5. \E E, y, q, g : Progress(before, taker, book', remaining', E, y, q, g)
  <2>1. CASE MatchOwn(i)
    <3>1. /\ book[i].owner = taker.owner /\ book' = Without(book, i)
          /\ remaining' = remaining - 0 /\ 0 <= remaining
          /\ 0 = (IF book[i].owner = taker.owner THEN 0 ELSE book[i].rem)
      BY <1>2, <2>1 DEF MatchOwn, OwnOrder
    <3>2. \E g : Progress(before, taker, Without(book, i), remaining - 0,
                          D \cup {h[i]}, 0, 0, g)
      BY <1>1, <1>2, <1>3, <1>4, <3>1, MetWhole
    <3> QED BY <3>1, <3>2
  <2>2. CASE MatchFill(i) /\ book[i].rem <= remaining
    <3>1. /\ book[i].owner # taker.owner /\ book' = Without(book, i)
          /\ remaining' = remaining - book[i].rem
      BY <1>2, <2>2 DEF MatchFill, OwnOrder, FillQty, Consume
    <3>2. \E g : Progress(before, taker, Without(book, i), remaining - book[i].rem,
                          D \cup {h[i]}, 0, 0, g)
      BY <1>1, <1>2, <1>3, <1>4, <2>2, <3>1, MetWhole
    <3> QED BY <3>1, <3>2
  <2>3. CASE MatchFill(i) /\ remaining < book[i].rem
    <3>1. /\ book[i].owner # taker.owner /\ remaining' = 0
          /\ book' = [book EXCEPT ![i].rem = @ - remaining]
      BY <1>2, <2>3 DEF MatchFill, OwnOrder, FillQty, Consume
    <3>2. Progress(before, taker, [book EXCEPT ![i].rem = @ - remaining], 0,
                   D, h[i], remaining, h)
      BY <1>1, <1>2, <1>3, <1>4, <2>3, <3>1, MetInPart
    <3> QED BY <3>1, <3>2
  <2> QED BY <1>2, <2>1, <2>2, <2>3
<1>6. Begun'
  BY <1>1, <1>5 DEF Begun, Idle
<1>7. UNCHANGED Promise!vars
  BY <1>1 DEF Promise!vars, Idle
<1> QED BY <1>6, <1>7

(* The end of the loop is the submission.                                   *)
LEMMA FinishImplements ==
    ASSUME IInv, Begun, Finish
    PROVE  Begun' /\ [Promise!Next]_(Promise!vars)
<1>1. /\ ~Idle /\ Idle' /\ seq' = seq /\ MaxSeq \in Nat
      /\ remaining = 0 \/ ~CanMatch(book, taker.side, taker.px)
  BY BookAssumption DEF Finish, Idle
<1>2. /\ Book(before, taker) /\ taker \in Orders /\ book \in Seq(Resting)
      /\ remaining \in Nat /\ seq \in Nat
  BY <1>1, InFlight
<1>3. /\ seq - 1 \in Nat /\ seq <= MaxSeq
      /\ taker.id \notin RestingIds(before)
      /\ ~(taker.tif = "POST_ONLY" /\ CanMatch(before, taker.side, taker.px))
  BY <1>1 DEF Begun
<1>4. PICK D, x, p, h : Progress(before, taker, book, remaining, D, x, p, h)
  BY <1>1 DEF Begun
<1>5. Promise!Survive(book, before, taker) /\ Promise!Left(before, taker) = remaining
  BY <1>1, <1>2, <1>4, Settled
<1>6. ~Promise!Refused(before, taker) /\ taker \in Promise!Orders
      /\ Promise!RestingIds(before) = RestingIds(before)
  <2>1. Promise!Reachable(before, taker) = Reach(before, taker)
        /\ taker \in Promise!Orders
        /\ Promise!RestingIds(before) = RestingIds(before)
    BY <1>2, PromiseTerms
  <2> QED BY <1>3, <2>1 DEF Promise!Refused, CanMatch, OppOrders, Reach
<1>7. Promise!Rests(before, taker) <=> remaining > 0 /\ taker.tif # "IOC"
  BY <1>5 DEF Promise!Rests
<1>8. Promise!AfterOrder(book', before, taker, seq)
  <2>1. CASE remaining > 0 /\ taker.tif # "IOC"
    <3>1. book' = RestOrder(book, taker, remaining, seq)
      BY <2>1 DEF Finish
    <3>2. book' = Promise!RestOrder(book, taker, Promise!Left(before, taker), seq)
      BY <1>5, <3>1, PromiseTerms
    <3>3. SubSeq(book', 1, Len(book') - 1) = book
      BY <1>2, <3>1, AppendProperties DEF RestOrder
    <3> QED BY <1>5, <1>6, <1>7, <2>1, <3>2, <3>3 DEF Promise!AfterOrder
  <2>2. CASE ~(remaining > 0 /\ taker.tif # "IOC")
    <3>1. book' = book
      BY <2>2 DEF Finish
    <3> QED BY <1>5, <1>6, <1>7, <2>2, <3>1 DEF Promise!AfterOrder
  <2> QED BY <2>1, <2>2
<1>9. Promise!Submit(taker)
  BY <1>1, <1>2, <1>3, <1>6, <1>8 DEF Promise!Submit
<1>10. Promise!Next
  BY <1>6, <1>9 DEF Promise!Next
<1>11. Begun'
  BY <1>1, <1>3 DEF Begun
<1> QED BY <1>10, <1>11

(* A cancel is a cancel.                                                    *)
LEMMA CancelImplements ==
    ASSUME IInv, Begun, NEW i \in DOMAIN book, CancelOrder(i)
    PROVE  Begun' /\ [Promise!Next]_(Promise!vars)
<1> DEFINE h == [k \in DOMAIN book |-> k]
           d == Without(book, i)
           K == DOMAIN book \ {i}
<1>1. /\ Idle /\ Idle' /\ book' = d /\ seq' \in {seq, seq + 1} /\ seq' <= MaxSeq
  BY DEF CancelOrder, Idle
<1>2. /\ book \in Seq(Resting) /\ UniqueIds(book) /\ book[i].id \in OrderIds
      /\ DOMAIN book \in SUBSET Nat
  BY BookShape DEF IInv, TypeOK, BookSound, Resting
<1>3. Trace(h, book, DOMAIN book)
  BY DEF Trace
<1>4. h[i] = i
  OBVIOUS
<1>5. PICK g : TraceAfter(g, h, book, i, DOMAIN book)
  <2> HIDE DEF h
  <2> QED BY <1>2, <1>3, TraceWithout
<1>6. Trace(g, d, K) /\ \A k \in DOMAIN d : d[k] = book[g[k]]
  BY <1>5 DEF TraceAfter
<1>7. {j \in DOMAIN book : book[j].id # book[i].id} = K
  BY <1>2 DEF UniqueIds
<1> HIDE DEF h, d, K
<1>8. Promise!Keeps(d, book, K)
  BY <1>6 DEF Promise!Keeps, Trace
<1>9. Promise!RestingIds(book) = RestingIds(book)
  BY PromiseTerms
<1>10. Promise!Cancel(book[i].id)
  BY <1>1, <1>7, <1>8, <1>9 DEF Promise!Cancel, RestingIds
<1>11. Promise!Next
  BY <1>2, <1>10 DEF Promise!Next
<1>12. Begun'
  BY <1>1 DEF Begun
<1> QED BY <1>11, <1>12

(* The matching loop implements the one-step book of MatchSpec: every order *)
(* is matched by price, then time, in full or until it is filled, skips and *)
(* cancels its owner's orders, and rests, or is dropped, with what is left; *)
(* whatever the orders, prices and sizes.                                   *)
THEOREM KeepsPromise == Spec => PromiseKept
<1>1. Init => Promise!Init /\ Begun
  BY BookAssumption DEF Init, Promise!Init, Begun, Idle
<1>2. IInv /\ Begun /\ [Next]_vars => Begun' /\ [Promise!Next]_(Promise!vars)
  <2> SUFFICES ASSUME IInv, Begun, [Next]_vars
               PROVE  Begun' /\ [Promise!Next]_(Promise!vars)
    OBVIOUS
  <2>1. CASE UNCHANGED vars
    BY <2>1 DEF vars, Begun, Idle, Promise!vars
  <2> QED BY <2>1, AddOrderImplements, MatchImplements, FinishImplements,
             CancelImplements DEF Next, MatchStep
<1> QED BY <1>1, <1>2, Inductive, PTL DEF Spec, PromiseKept, Promise!Spec
=============================================================================
