------------------------------- MODULE Client -------------------------------
(***************************************************************************)
(* The trading page's side of the account stream: the websocket middleware *)
(* (DensityWebSocketMiddleware.js), the SideBar effect that connects and   *)
(* disconnects it (SideBar.tsx), the position table's reducer              *)
(* (CurrentPositions.r.js, PositionHelpers.js), and the engine's end of    *)
(* the stream (bus.ts, server.ts) as far as this trader sees it.           *)
(*                                                                         *)
(* One logged-in trader, one market.  An order is its number; its quantity *)
(* is fixed by Qty.  A row of the table is its posAmt, 0 when absent.  The *)
(* token "fetch" of a connect resolves in microtasks (GenerateToken.ac.js  *)
(* reads the wallet from memory), so no event comes between a CONNECT and  *)
(* its new WebSocket, and the two are one step here.                       *)
(***************************************************************************)
EXTENDS Integers, Sequences, FiniteSets, SequencesExt

CONSTANTS
  Sockets,      \* websockets that may be alive at once, 1..n
  Outbox,       \* bound of the outbox (25)
  Retries,      \* reconnect budget (12)
  Qty,          \* quantity of each order the trader places, signed
  Fills,        \* quantities by which resting orders may be filled
  MaxFills, MaxFaults, MaxTimers   \* bounds of the environment

ASSUME ClientAssumption ==
  /\ IsFiniteSet(Sockets) /\ Sockets = 1..Cardinality(Sockets) /\ Sockets # {}
  /\ {Outbox, Retries, MaxFills, MaxFaults, MaxTimers} \subseteq Nat
  /\ Qty \in Seq(Int) /\ Fills \subseteq Int

VARIABLES
  online,       \* the browser believes it is online
  c,            \* the page: middleware, effect and table
  up,           \* orders on their way to the engine, per socket
  down,         \* messages on their way to the page, per socket
  pos,          \* the engine's position of the trader
  placed, got,  \* orders placed, and orders the engine took, in order
  fills, faults \* used of MaxFills, MaxFaults

vars == <<online, c, up, down, pos, placed, got, fills, faults>>

Orders == 1..Len(Qty)
ReadyStates == {"none", "connecting", "open", "half", "closing"}

-----------------------------------------------------------------------------
(* The middleware, as functions of the page's record.                      *)

\* readyState 0 or 1: a half-open socket still says OPEN.
Alive(p) == p.socket # 0 /\ p.link[p.socket] \in {"connecting", "open", "half"}
Sendable(p) == p.socket # 0 /\ p.link[p.socket] \in {"open", "half"}

Unused(p) == {w \in Sockets : p.link[w] = "none"}

\* CONNECT: no-op while one is up or under way, else a fresh socket.
Connect(p) ==
  IF p.connecting \/ Alive(p) THEN p
  ELSE LET w == CHOOSE w \in Unused(p) : \A v \in Unused(p) : w <= v
       IN  [p EXCEPT !.connecting = TRUE, !.socket = w, !.link[w] = "connecting"]

\* ws.close(): messages that arrive later are not delivered.
Shut(p, w) ==
  IF w # 0 /\ p.link[w] \in {"connecting", "open", "half"}
  THEN [p EXCEPT !.link[w] = "closing"] ELSE p

\* Mutant: the socket is forgotten before its close is called on it.
DisconnectLeaves(p) ==
  [p EXCEPT !.connecting = FALSE, !.socket = 0, !.opened = FALSE,
            !.heart = FALSE, !.late = @ \/ p.heart]

\* DISCONNECT: forget the socket, then close it.
Disconnect(p) ==
  [Shut(p, p.socket) EXCEPT !.connecting = FALSE, !.socket = 0, !.opened = FALSE,
                            !.heart = FALSE, !.late = @ \/ p.heart]

\* Mutant: a close leaves the connect marked as under way.
OnCloseWedged(p, w) ==
  LET q == [p EXCEPT !.link[w] = "none"]
  IN  IF w # p.socket THEN q
      ELSE [q EXCEPT !.socket = 0, !.opened = FALSE, !.heart = FALSE,
                     !.late = @ \/ p.heart,
                     !.budget = IF @ < Retries THEN @ + 1 ELSE @,
                     !.timers = IF p.budget < Retries THEN @ + 1 ELSE @]

\* onClose: the single reconnect authority, for the current socket only.
OnClose(p, w) ==
  LET q == [p EXCEPT !.link[w] = "none"]
  IN  IF w # p.socket THEN q
      ELSE [q EXCEPT !.connecting = FALSE, !.socket = 0, !.opened = FALSE,
                     !.heart = FALSE, !.late = @ \/ p.heart,
                     !.budget = IF @ < Retries THEN @ + 1 ELSE @,
                     !.timers = IF p.budget < Retries THEN @ + 1 ELSE @]

\* Mutant: the outbox is flushed and kept.
OnOpenKeeps(p, w) ==
  LET q == [p EXCEPT !.link[w] = "open"]
  IN  IF w # p.socket THEN Shut(q, w)
      ELSE [q EXCEPT !.connecting = FALSE, !.budget = 0, !.heart = TRUE,
                     !.opened = TRUE]

\* onOpen: a replaced socket dies, the current one flushes the outbox.
OnOpen(p, w) ==
  LET q == [p EXCEPT !.link[w] = "open"]
  IN  IF w # p.socket THEN Shut(q, w)
      ELSE [q EXCEPT !.connecting = FALSE, !.budget = 0, !.heart = TRUE,
                     !.opened = TRUE, !.outbox = <<>>]

\* What a flush of the outbox, or a send, puts on the wire of the socket.
Wire(p, msgs) ==
  IF p.socket = 0 \/ p.link[p.socket] # "open" THEN up
  ELSE [up EXCEPT ![p.socket] = @ \o msgs]

-----------------------------------------------------------------------------
(* The position table.                                                     *)

\* positionsHandler: create the row, update it, or remove it at zero.
Filled(row, q) == row + q

\* Mutant: rows the snapshot no longer has are not removed.
AbsoluteKeeps(row, q) == IF row = 0 THEN q ELSE row

\* ACCOUNT_UPDATE: a position without a row gets one, a row without a
\* position goes; isDifferent compares the payload with the row it was
\* already merged into, so an existing row is left as it is.
Absolute(row, q) == IF q = 0 THEN 0 ELSE IF row = 0 THEN q ELSE row

Handled(row, m) == IF m.kind = "fill" THEN Filled(row, m.q) ELSE Absolute(row, m.q)

-----------------------------------------------------------------------------
(* The engine's end: what a fill sends, and what a connection is painted.  *)

Snapshot(p) == [kind |-> "account", q |-> p]
Fill(q) == [kind |-> "fill", q |-> q]

\* What is sent when q of an order is filled: the fill, unless the order is
\* one the bus has not seen accepted, then the account.
News(q) == {<<Fill(q), Snapshot(pos + q)>>, <<Snapshot(pos + q)>>}

\* Only a socket that is up on both sides receives.
Told(news) ==
  [w \in Sockets |-> IF c.link[w] = "open" THEN down[w] \o news ELSE down[w]]

-----------------------------------------------------------------------------
Init ==
  /\ online = TRUE
  /\ c = [socket |-> 0, connecting |-> FALSE, opened |-> FALSE, heart |-> FALSE,
          late |-> FALSE, budget |-> 0, timers |-> 0, outbox |-> <<>>, row |-> 0,
          link |-> [w \in Sockets |-> "none"], ran |-> <<>>, cleanup |-> FALSE]
  /\ up = [w \in Sockets |-> <<>>]
  /\ down = [w \in Sockets |-> <<>>]
  /\ pos = 0
  /\ placed = 0
  /\ got = <<>>
  /\ fills = 0
  /\ faults = 0

\* A new socket must have a name; sockets on their way out free theirs.
Room == Unused(c) # {}

\* The SideBar effect, run when isOnline or the stream's status changed: the
\* last run's cleanup first.
Effect ==
  LET deps == <<online, c.opened>>
      p == IF c.cleanup THEN Disconnect(c) ELSE c
      connects == online /\ ~c.opened
      q == CASE connects -> Connect(p)
             [] ~online -> Disconnect(p)
             [] OTHER -> p
  IN  /\ deps # c.ran
      /\ Room
      /\ c' = [q EXCEPT !.ran = deps, !.cleanup = online /\ ~connects]
      /\ UNCHANGED <<online, up, down, pos, placed, got, fills, faults>>

\* A scheduled reconnect comes due.
Timer ==
  /\ c.timers > 0
  /\ Room
  /\ c' = Connect([c EXCEPT !.timers = @ - 1])
  /\ UNCHANGED <<online, up, down, pos, placed, got, fills, faults>>

\* The handshake completes; the engine paints the account.
Opens(w) ==
  /\ c.link[w] = "connecting"
  /\ online
  /\ c' = OnOpen(c, w)
  /\ up' = Wire(c', IF w = c.socket THEN c.outbox ELSE <<>>)
  /\ down' = [down EXCEPT ![w] = IF w = c.socket THEN <<Snapshot(pos)>> ELSE <<>>]
  /\ UNCHANGED <<online, pos, placed, got, fills, faults>>

\* The close event of a socket that is closing.
Closes(w) ==
  /\ c.link[w] = "closing"
  /\ up[w] = <<>>
  /\ w = c.socket => c.timers < MaxTimers
  /\ c' = OnClose(c, w)
  /\ down' = [down EXCEPT ![w] = <<>>]
  /\ UNCHANGED <<online, up, pos, placed, got, fills, faults>>

\* The watchdog finds no pong on a half-open socket and closes it.
Watchdog ==
  /\ c.heart
  /\ Sendable(c) /\ c.link[c.socket] = "half"
  /\ c' = [Shut(c, c.socket) EXCEPT !.heart = FALSE]
  /\ UNCHANGED <<online, up, down, pos, placed, got, fills, faults>>

\* A slow pong, or the check left over from the ping of an earlier socket
\* (the heartbeat's interval is cleared, its pending check is not): the
\* watchdog closes whatever socket is current, healthy or still connecting.
LateCheck ==
  /\ c.heart \/ c.late
  /\ Alive(c)
  /\ faults < MaxFaults
  /\ faults' = faults + 1
  /\ c' = [Shut(c, c.socket) EXCEPT !.heart = FALSE, !.late = FALSE]
  /\ UNCHANGED <<online, up, down, pos, placed, got, fills>>

\* PLACE_ORDER, sendOrQueue: send when the socket says OPEN, else queue
\* unless the outbox is full, and see to it that a connect is under way.
Place ==
  /\ placed < Len(Qty)
  /\ Room
  /\ placed' = placed + 1
  /\ IF Sendable(c)
     THEN up' = Wire(c, <<placed'>>) /\ c' = c
     ELSE /\ c' = Connect(IF Len(c.outbox) < Outbox
                          THEN [c EXCEPT !.outbox = Append(@, placed')] ELSE c)
          /\ up' = up
  /\ UNCHANGED <<online, down, pos, got, fills, faults>>

\* onMessage: the next message of a socket that is open.
Message(w) ==
  /\ c.link[w] = "open"
  /\ down[w] # <<>>
  /\ c' = [c EXCEPT !.row = Handled(@, Head(down[w]))]
  /\ down' = [down EXCEPT ![w] = Tail(@)]
  /\ UNCHANGED <<online, up, pos, placed, got, fills, faults>>

\* What an order is filled by at once, in part or in full.
Part(o) == (IF Qty[o] < 0 THEN Qty[o]..0 ELSE 0..Qty[o]) \ {0}

\* The engine takes an order off the wire: it is filled, or it rests or is
\* rejected, which tells the table nothing.
Receive(w) ==
  /\ up[w] # <<>>
  /\ got' = Append(got, Head(up[w]))
  /\ up' = [up EXCEPT ![w] = Tail(@)]
  /\ \/ \E q \in Part(Head(up[w])) :
          pos' = pos + q /\ down' = Told(<<Fill(q), Snapshot(pos + q)>>)
     \/ UNCHANGED <<pos, down>>
  /\ UNCHANGED <<online, c, placed, fills, faults>>

\* A resting order of the trader is filled by someone else's command, or the
\* position is liquidated.
RestingFill(q) ==
  /\ fills < MaxFills
  /\ fills' = fills + 1
  /\ pos' = pos + q
  /\ \E news \in News(q) : down' = Told(news)
  /\ UNCHANGED <<online, c, up, placed, got, faults>>

\* The connection breaks, or its handshake fails: a close event follows.
\* Offline every socket breaks; online a break is a fault.
Break(w) ==
  /\ c.link[w] \in {"connecting", "open", "half"}
  /\ IF online THEN faults < MaxFaults /\ faults' = faults + 1 ELSE faults' = faults
  /\ c' = [c EXCEPT !.link[w] = "closing"]
  /\ up' = [up EXCEPT ![w] = <<>>]
  /\ UNCHANGED <<online, down, pos, placed, got, fills>>

\* The connection goes half-open: it says OPEN and carries nothing.
GoesHalf(w) ==
  /\ c.link[w] = "open"
  /\ faults < MaxFaults
  /\ faults' = faults + 1
  /\ c' = [c EXCEPT !.link[w] = "half"]
  /\ up' = [up EXCEPT ![w] = <<>>]
  /\ down' = [down EXCEPT ![w] = <<>>]
  /\ UNCHANGED <<online, pos, placed, got, fills>>

\* The browser's online and offline events.
GoOffline ==
  /\ online
  /\ faults < MaxFaults
  /\ faults' = faults + 1
  /\ online' = FALSE
  /\ UNCHANGED <<c, up, down, pos, placed, got, fills>>

GoOnline ==
  /\ ~online
  /\ online' = TRUE
  /\ UNCHANGED <<c, up, down, pos, placed, got, fills, faults>>

Next ==
  \/ Effect \/ Timer \/ Watchdog \/ LateCheck \/ Place \/ GoOffline \/ GoOnline
  \/ \E w \in Sockets :
       \/ Opens(w) \/ Closes(w) \/ Message(w) \/ Receive(w) \/ Break(w) \/ GoesHalf(w)
  \/ \E q \in Fills : RestingFill(q)

\* What the browser's event loop and an engine that is up will do: run the
\* effect and the timers, complete handshakes and closes, fail the
\* handshakes of an offline browser, beat the heart, carry messages.
Fairness ==
  /\ WF_vars(Effect) /\ WF_vars(Timer) /\ WF_vars(Watchdog) /\ WF_vars(GoOnline)
  /\ \A w \in Sockets :
       /\ WF_vars(Opens(w)) /\ WF_vars(Closes(w))
       /\ WF_vars(Message(w)) /\ WF_vars(Receive(w))

Spec == Init /\ [][Next]_vars /\ Fairness

-----------------------------------------------------------------------------
Page ==
  [socket : Sockets \cup {0}, connecting : BOOLEAN, opened : BOOLEAN,
   heart : BOOLEAN, late : BOOLEAN, budget : 0..Retries, timers : 0..MaxTimers,
   outbox : Seq(Orders), row : Int, link : [Sockets -> ReadyStates],
   ran : Seq(BOOLEAN), cleanup : BOOLEAN]

TypeOK ==
  /\ online \in BOOLEAN
  /\ c \in Page /\ Len(c.outbox) <= Outbox
  /\ up \in [Sockets -> Seq(Orders)]
  /\ down \in [Sockets -> Seq([kind : {"fill", "account"}, q : Int])]
  /\ pos \in Int /\ placed \in 0..Len(Qty) /\ got \in Seq(Orders)

\* "so a stale socket's late events can't clobber it"
\* (DensityWebSocketMiddleware.js:593): a socket that can still deliver is the
\* current one, so no fill reaches the table twice, through reconnects,
\* replaced sockets, the watchdog and the effect.
OneFeed == \A w \in Sockets : c.link[w] \in {"open", "half"} => w = c.socket

\* Where an order can be: the outbox (0), the engine's hands (-1), a wire.
Held == [p \in Sockets \cup {0, -1} |->
           IF p = 0 THEN c.outbox ELSE IF p = -1 THEN got ELSE up[p]]
Once(held) ==
  \A p, q \in DOMAIN held : \A i \in DOMAIN held[p], j \in DOMAIN held[q] :
    held[p][i] = held[q][j] => p = q /\ i = j

\* An order the trader placed once is in one place at most: the outbox, one
\* wire, or the engine's hands; a flush, a queue and a send never double it.
OnceEach == Once(Held)

\* Nothing is on its way and the stream is up.
Quiet ==
  /\ c.socket # 0 /\ c.link[c.socket] = "open"
  /\ down[c.socket] = <<>>

\* Once the stream has caught up, the table has a row exactly when the engine
\* holds a position, whatever was missed while the page was away.
RowWhenPosition == Quiet => (c.row # 0 <=> pos # 0)


\* As long as the browser stays online, the stream comes back, or its retry
\* budget is used up.
ComesBack == <>[]online => []<>(c.opened \/ c.budget = Retries)
=============================================================================
