---------------------------- MODULE ClientProofs ----------------------------
(***************************************************************************)
(* The trading page: through any number of breaks, reconnects, watchdog    *)
(* checks and effects one socket at most feeds the table, no order is in   *)
(* two places, and the table, once it has caught up, has a row exactly     *)
(* when the engine holds a position.                                       *)
(***************************************************************************)
EXTENDS Client, CommonLemmas

\* a socket that has not begun to close is the current one
Feeds(p) == \A w \in Sockets :
    p.link[w] \in {"connecting", "open", "half"} => w = p.socket

\* what the middleware's own moves leave alone: the table, and that no socket
\* is up that was not
Minds(q, p) ==
    /\ q \in Page /\ Feeds(q)
    /\ q.row = p.row
    /\ \A w \in Sockets : q.link[w] = "open" => p.link[w] = "open"

(* The sockets are numbered, from one up.                                   *)
LEMMA SocketsAre == Sockets \subseteq Nat \ {0} /\ Sockets # {} /\ IsFiniteSet(Sockets)
<1>1. Cardinality(Sockets) \in Nat
  BY ClientAssumption, FS_CardinalityType
<1> QED BY <1>1, ClientAssumption

(* There is a first among the free ones.                                    *)
LEMMA FreshSocket ==
    ASSUME NEW p, Unused(p) # {}
    PROVE  (CHOOSE w \in Unused(p) : \A v \in Unused(p) : w <= v) \in Unused(p)
<1>1. Unused(p) \subseteq Nat
  BY SocketsAre DEF Unused
<1>2. IsFiniteSet(Unused(p))
  BY SocketsAre, FS_Subset DEF Unused
<1> DEFINE U == Unused(p)
           Below(w) == {v \in U : v < w}
           Bad == {Below(w) : w \in U}
<1>3. PICK T \in Bad : \A V \in Bad : V \subseteq T => V = T
  <2>1. Bad \subseteq SUBSET U /\ Bad # {}
    OBVIOUS
  <2> HIDE DEF Bad, U
  <2> QED BY <1>2, <2>1, SmallestSubset DEF U
<1>4. PICK w \in U : T = Below(w)
  OBVIOUS
<1>5. \A v \in U : w <= v
  <2>1. ASSUME NEW v \in U, v < w PROVE FALSE
    <3>1. Below(v) \subseteq Below(w) /\ v \in Below(w) /\ v \notin Below(v)
      BY <1>1, <2>1
    <3> QED BY <1>3, <1>4, <3>1
  <2> QED BY <1>1, <2>1
<1> QED BY <1>5

-----------------------------------------------------------------------------
(* The middleware's moves                                                   *)

(* A connect makes one socket, and only when none is up or under way.       *)
LEMMA ConnectMinds ==
    ASSUME NEW p \in Page, Feeds(p), Unused(p) # {}
    PROVE  /\ Minds(Connect(p), p)
           /\ Connect(p).outbox = p.outbox /\ Connect(p).timers = p.timers
<1>1. CASE p.connecting \/ Alive(p)
  BY <1>1 DEF Connect, Minds
<1>2. CASE ~(p.connecting \/ Alive(p))
  <2> DEFINE w == CHOOSE w \in Unused(p) : \A v \in Unused(p) : w <= v
             q == [p EXCEPT !.connecting = TRUE, !.socket = w, !.link[w] = "connecting"]
  <2>1. w \in Sockets
    BY FreshSocket DEF Unused
  <2> HIDE DEF w
  <2>2. Connect(p) = q
    BY <1>2 DEF Connect, w
  <2>3. q \in Page
    BY <2>1 DEF Page, ReadyStates
  <2>4. q.socket = w /\ q.outbox = p.outbox /\ q.timers = p.timers /\ q.row = p.row
        /\ \A v \in Sockets : q.link[v] = IF v = w THEN "connecting" ELSE p.link[v]
    BY <2>1 DEF Page
  <2> HIDE DEF q
  <2>5. \A v \in Sockets : ~(p.link[v] \in {"connecting", "open", "half"})
    <3>1. \A v \in Sockets : v # 0
      BY SocketsAre
    <3> QED BY <1>2, <3>1 DEF Feeds, Alive
  <2>6. Feeds(q)
    BY <2>4, <2>5 DEF Feeds
  <2> QED BY <2>2, <2>3, <2>4, <2>6 DEF Minds
<1> QED BY <1>1, <1>2

(* Closing the current socket.                                              *)
LEMMA ShutMinds ==
    ASSUME NEW p \in Page, Feeds(p), NEW w \in Sockets \cup {0}
    PROVE  /\ Minds(Shut(p, w), p)
           /\ Shut(p, w).outbox = p.outbox /\ Shut(p, w).timers = p.timers
           /\ Shut(p, w).socket = p.socket
           /\ w = p.socket => \A v \in Sockets :
                 ~(Shut(p, w).link[v] \in {"connecting", "open", "half"})
<1>0. \A v \in Sockets : v # 0
  BY SocketsAre
<1>1. CASE w # 0 /\ p.link[w] \in {"connecting", "open", "half"}
  <2> DEFINE q == [p EXCEPT !.link[w] = "closing"]
  <2>1. w \in Sockets /\ Shut(p, w) = q
    BY <1>1 DEF Shut
  <2>2. q \in Page
    BY <2>1 DEF Page, ReadyStates
  <2>3. q.socket = p.socket /\ q.outbox = p.outbox /\ q.timers = p.timers
        /\ q.row = p.row
        /\ \A v \in Sockets : q.link[v] = IF v = w THEN "closing" ELSE p.link[v]
    BY <2>1 DEF Page
  <2> HIDE DEF q
  <2> QED BY <2>1, <2>2, <2>3 DEF Minds, Feeds
<1>2. CASE ~(w # 0 /\ p.link[w] \in {"connecting", "open", "half"})
  <2>1. Shut(p, w) = p
    BY <1>2 DEF Shut
  <2> QED BY <1>0, <1>2, <2>1 DEF Minds, Feeds
<1> QED BY <1>1, <1>2

(* A disconnect closes what was up, so nothing is.                          *)
LEMMA DisconnectMinds ==
    ASSUME NEW p \in Page, Feeds(p)
    PROVE  /\ Minds(Disconnect(p), p)
           /\ Disconnect(p).outbox = p.outbox /\ Disconnect(p).timers = p.timers
           /\ Unused(Disconnect(p)) = Unused(p)
<1> DEFINE r == Shut(p, p.socket)
           q == [r EXCEPT !.connecting = FALSE, !.socket = 0, !.opened = FALSE,
                          !.heart = FALSE, !.late = @ \/ p.heart]
<1>1. p.socket \in Sockets \cup {0} /\ p.heart \in BOOLEAN
  BY DEF Page
<1>2. /\ Minds(r, p) /\ r.outbox = p.outbox /\ r.timers = p.timers
      /\ \A v \in Sockets : ~(r.link[v] \in {"connecting", "open", "half"})
  BY <1>1, ShutMinds
<1>3. \A v \in Sockets : r.link[v] = "none" <=> p.link[v] = "none"
  <2>1. CASE p.socket # 0 /\ p.link[p.socket] \in {"connecting", "open", "half"}
    <3>1. p.socket \in Sockets /\ r = [p EXCEPT !.link[p.socket] = "closing"]
      BY <1>1, <2>1 DEF Shut
    <3>2. \A v \in Sockets : r.link[v] = IF v = p.socket THEN "closing" ELSE p.link[v]
      BY <3>1 DEF Page
    <3> QED BY <2>1, <3>2
  <2>2. CASE ~(p.socket # 0 /\ p.link[p.socket] \in {"connecting", "open", "half"})
    BY <2>2 DEF Shut
  <2> QED BY <2>1, <2>2
<1>4. Disconnect(p) = q
  BY DEF Disconnect
<1>5. r \in Page
  BY <1>2 DEF Minds
<1> HIDE DEF r
<1>6. q \in Page
  BY <1>1, <1>5 DEF Page
<1>7. /\ q.link = r.link /\ q.outbox = r.outbox /\ q.timers = r.timers
      /\ q.row = r.row
  BY <1>5 DEF Page
<1> HIDE DEF q
<1>8. Feeds(q)
  BY <1>2, <1>7 DEF Feeds
<1> QED BY <1>2, <1>3, <1>4, <1>6, <1>7, <1>8 DEF Minds, Unused

(* Moves in a row.                                                          *)
LEMMA MindsTwice ==
    ASSUME NEW p, NEW q, NEW r, Minds(q, p), Minds(r, q)
    PROVE  Minds(r, p)
BY DEF Minds

(* A close event: the current socket is gone, or an earlier one is.         *)
LEMMA OnCloseMinds ==
    ASSUME NEW p \in Page, Feeds(p), NEW w \in Sockets, p.link[w] = "closing",
           w = p.socket => p.timers < MaxTimers
    PROVE  Minds(OnClose(p, w), p) /\ OnClose(p, w).outbox = p.outbox
<1> DEFINE q == [p EXCEPT !.link[w] = "none"]
           r == [q EXCEPT !.connecting = FALSE, !.socket = 0, !.opened = FALSE,
                          !.heart = FALSE, !.late = @ \/ p.heart,
                          !.budget = IF @ < Retries THEN @ + 1 ELSE @,
                          !.timers = IF p.budget < Retries THEN @ + 1 ELSE @]
<1>0. Retries \in Nat /\ MaxTimers \in Nat /\ p.heart \in BOOLEAN
  BY ClientAssumption DEF Page
<1>1. q \in Page
  BY DEF Page, ReadyStates
<1>2. /\ q.socket = p.socket /\ q.outbox = p.outbox /\ q.row = p.row
      /\ q.timers = p.timers
      /\ \A v \in Sockets : q.link[v] = IF v = w THEN "none" ELSE p.link[v]
  BY DEF Page
<1>3. CASE w # p.socket
  <2>1. OnClose(p, w) = q
    BY <1>3 DEF OnClose
  <2> HIDE DEF q
  <2> QED BY <1>1, <1>2, <2>1 DEF Minds, Feeds
<1>4. CASE w = p.socket
  <2>1. OnClose(p, w) = r
    BY <1>4 DEF OnClose
  <2> HIDE DEF q
  <2>2. r \in Page
    <3> DEFINE l == q.late \/ p.heart
               b == IF q.budget < Retries THEN q.budget + 1 ELSE q.budget
               t == IF p.budget < Retries THEN q.timers + 1 ELSE q.timers
    <3>1. l \in BOOLEAN
      OBVIOUS
    <3>2. q.budget \in 0..Retries /\ q.timers \in 0..MaxTimers /\ q.timers < MaxTimers
      BY <1>1, <1>2, <1>4 DEF Page
    <3>3. b \in 0..Retries /\ t \in 0..MaxTimers
      BY <1>0, <3>2
    <3>4. r = [q EXCEPT !.connecting = FALSE, !.socket = 0, !.opened = FALSE,
                        !.heart = FALSE, !.late = l, !.budget = b, !.timers = t]
      OBVIOUS
    <3> HIDE DEF l, b, t, r
    <3> QED BY <1>1, <3>1, <3>3, <3>4 DEF Page
  <2>3. r.link = q.link /\ r.outbox = q.outbox /\ r.row = q.row
    BY <1>1 DEF Page
  <2> HIDE DEF r
  <2>4. \A v \in Sockets : ~(r.link[v] \in {"connecting", "open", "half"})
    BY <1>2, <1>4, <2>3 DEF Feeds
  <2> QED BY <1>2, <2>1, <2>2, <2>3, <2>4 DEF Minds, Feeds
<1> QED BY <1>3, <1>4

(* A handshake that completes is the current socket's.                      *)
LEMMA OnOpenIs ==
    ASSUME NEW p \in Page, Feeds(p), NEW w \in Sockets, p.link[w] = "connecting"
    PROVE  /\ w = p.socket
           /\ OnOpen(p, w) \in Page /\ Feeds(OnOpen(p, w))
           /\ OnOpen(p, w).row = p.row /\ OnOpen(p, w).outbox = <<>>
           /\ OnOpen(p, w).socket = w
           /\ \A v \in Sockets :
                 OnOpen(p, w).link[v] = IF v = w THEN "open" ELSE p.link[v]
<1> DEFINE q == [p EXCEPT !.link[w] = "open"]
           r == [q EXCEPT !.connecting = FALSE, !.budget = 0, !.heart = TRUE,
                          !.opened = TRUE, !.outbox = <<>>]
<1>1. w = p.socket
  BY DEF Feeds
<1>2. OnOpen(p, w) = r
  BY <1>1 DEF OnOpen
<1>3. q \in Page
  BY DEF Page, ReadyStates
<1>4. /\ q.socket = p.socket /\ q.row = p.row
      /\ \A v \in Sockets : q.link[v] = IF v = w THEN "open" ELSE p.link[v]
  BY DEF Page
<1> HIDE DEF q
<1>5. Retries \in Nat
  BY ClientAssumption
<1>6. r \in Page
  <2>1. 0 \in 0..Retries /\ <<>> \in Seq(Orders)
    BY <1>5
  <2> QED BY <1>3, <2>1 DEF Page
<1>7. r.link = q.link /\ r.outbox = <<>> /\ r.row = q.row /\ r.socket = q.socket
  BY <1>3 DEF Page
<1> HIDE DEF r
<1>8. Feeds(r)
  BY <1>1, <1>4, <1>7 DEF Feeds
<1> QED BY <1>1, <1>2, <1>4, <1>6, <1>7, <1>8

-----------------------------------------------------------------------------
(* One feed, and what it leaves the table with                              *)

Messages == [kind : {"fill", "account"}, q : Int]

(* On a socket that is up the engine's position comes last, or is known.    *)
Caught ==
  \A w \in Sockets : c.link[w] = "open" =>
    /\ down[w] = <<>> => (c.row # 0 <=> pos # 0)
    /\ down[w] # <<>> => Last(down[w]) = Snapshot(pos)

FInv == TypeOK /\ Feeds(c) /\ Caught

\* what travels to the engine, by type
Wires == /\ up' \in [Sockets -> Seq(Orders)] /\ got' \in Seq(Orders)
         /\ placed' \in 0..Len(Qty) /\ online' \in BOOLEAN

(* A move of the middleware keeps it.                                       *)
LEMMA MoveKeeps ==
    ASSUME FInv, Minds(c', c), Len(c'.outbox) <= Outbox, Wires, UNCHANGED <<down, pos>>
    PROVE  FInv'
<1>1. Caught'
  BY DEF FInv, Caught, Minds
<1> QED BY <1>1 DEF FInv, TypeOK, Minds, Wires, Feeds

(* What types say of the wires.                                             *)
LEMMA WiresStay == ASSUME TypeOK, UNCHANGED <<online, up, placed, got>> PROVE Wires
BY DEF TypeOK, Wires

(* What is put on a wire are orders.                                        *)
LEMMA SentIsTyped ==
    ASSUME TypeOK, NEW p \in Page, NEW msgs \in Seq(Orders)
    PROVE  Wire(p, msgs) \in [Sockets -> Seq(Orders)]
<1>1. CASE p.socket = 0 \/ p.link[p.socket] # "open"
  BY <1>1 DEF Wire, TypeOK
<1>2. CASE ~(p.socket = 0 \/ p.link[p.socket] # "open")
  <2>1. p.socket \in Sockets
    BY <1>2 DEF Page
  <2>2. up[p.socket] \o msgs \in Seq(Orders)
    BY <2>1, ConcatProperties DEF TypeOK
  <2> QED BY <1>2, <2>1, <2>2 DEF Wire, TypeOK
<1> QED BY <1>1, <1>2

(* Nothing changes.                                                         *)
LEMMA CSame == ASSUME FInv PROVE Minds(c, c) /\ Len(c.outbox) <= Outbox
BY DEF FInv, TypeOK, Minds

(* The effect, its cleanup first.                                           *)
LEMMA EffectFeeds == ASSUME FInv, Effect PROVE FInv' /\ c'.outbox = c.outbox
<1> DEFINE deps == <<online, c.opened>>
           p == IF c.cleanup THEN Disconnect(c) ELSE c
           connects == online /\ ~c.opened
           q == CASE connects -> Connect(p)
                  [] ~online -> Disconnect(p)
                  [] OTHER -> p
           r == [q EXCEPT !.ran = deps, !.cleanup = online /\ ~connects]
<1>1. /\ Room /\ c' = r
      /\ UNCHANGED <<online, up, down, pos, placed, got>>
  BY DEF Effect
<1>2. c \in Page /\ Feeds(c) /\ online \in BOOLEAN /\ c.opened \in BOOLEAN
  BY DEF FInv, TypeOK, Page
<1>3. Minds(p, c) /\ p.outbox = c.outbox /\ Unused(p) # {}
  BY <1>1, <1>2, CSame, DisconnectMinds DEF Room
<1> HIDE DEF p
<1>4. Minds(q, p) /\ q.outbox = p.outbox
  <2>1. p \in Page /\ Feeds(p) /\ Minds(p, p)
    BY <1>3 DEF Minds
  <2>2. CASE connects
    BY <1>3, <2>1, <2>2, ConnectMinds
  <2>3. CASE ~connects /\ ~online
    BY <2>1, <2>3, DisconnectMinds
  <2>4. CASE ~connects /\ online
    BY <2>1, <2>4
  <2> QED BY <2>2, <2>3, <2>4
<1>5. deps \in Seq(BOOLEAN) /\ (online /\ ~connects) \in BOOLEAN
  BY <1>2
<1> HIDE DEF q, deps, connects
<1>6. q \in Page
  BY <1>4 DEF Minds
<1>7. r \in Page
  BY <1>5, <1>6 DEF Page
<1>8. r.socket = q.socket /\ r.link = q.link /\ r.row = q.row /\ r.outbox = q.outbox
  BY <1>6 DEF Page
<1>9. Minds(r, c) /\ r.outbox = c.outbox
  <2> HIDE DEF r
  <2>1. Minds(r, q)
    BY <1>4, <1>7, <1>8 DEF Minds, Feeds
  <2> QED BY <1>3, <1>4, <1>8, <2>1, MindsTwice
<1> HIDE DEF r
<1>10. Wires
  BY <1>1, WiresStay DEF FInv
<1> QED BY <1>1, <1>9, <1>10, CSame, MoveKeeps

(* A reconnect that comes due.                                              *)
LEMMA TimerFeeds == ASSUME FInv, Timer PROVE FInv' /\ c'.outbox = c.outbox
<1> DEFINE p == [c EXCEPT !.timers = @ - 1]
<1>1. /\ c.timers > 0 /\ Room /\ c' = Connect(p)
      /\ UNCHANGED <<online, up, down, pos, placed, got>>
  BY DEF Timer
<1>2. c \in Page /\ Feeds(c) /\ MaxTimers \in Nat
  BY ClientAssumption DEF FInv, TypeOK
<1>3. c.timers - 1 \in 0..MaxTimers
  BY <1>1, <1>2 DEF Page
<1>4. p \in Page
  BY <1>2, <1>3 DEF Page
<1>5. p.socket = c.socket /\ p.link = c.link /\ p.row = c.row /\ p.outbox = c.outbox
  BY <1>2 DEF Page
<1> HIDE DEF p
<1>6. Minds(p, c) /\ Unused(p) # {}
  BY <1>1, <1>2, <1>4, <1>5 DEF Minds, Feeds, Room, Unused
<1>7. Minds(Connect(p), p) /\ Connect(p).outbox = p.outbox
  BY <1>4, <1>6, ConnectMinds DEF Minds
<1>8. Minds(c', c) /\ c'.outbox = c.outbox
  BY <1>1, <1>5, <1>6, <1>7, MindsTwice
<1>9. Wires
  BY <1>1, WiresStay DEF FInv
<1> QED BY <1>1, <1>8, <1>9, CSame, MoveKeeps

(* The heartbeat: a close of the current socket, healthy or not.            *)
LEMMA WatchdogFeeds == ASSUME FInv, Watchdog PROVE FInv' /\ c'.outbox = c.outbox
<1> DEFINE q == Shut(c, c.socket)
<1>1. c' = [q EXCEPT !.heart = FALSE] /\ UNCHANGED <<online, up, down, pos, placed, got>>
  BY DEF Watchdog
<1>2. c \in Page /\ Feeds(c) /\ c.socket \in Sockets \cup {0}
  BY DEF FInv, TypeOK, Page
<1>3. Minds(q, c) /\ q.outbox = c.outbox
  BY <1>2, ShutMinds
<1> HIDE DEF q
<1>4. c' \in Page /\ c'.socket = q.socket /\ c'.link = q.link /\ c'.row = q.row
      /\ c'.outbox = q.outbox
  BY <1>1, <1>3 DEF Minds, Page
<1>5. Minds(c', c)
  BY <1>3, <1>4 DEF Minds, Feeds
<1>6. Wires
  BY <1>1, WiresStay DEF FInv
<1> QED BY <1>1, <1>3, <1>4, <1>5, <1>6, CSame, MoveKeeps

(* Also a check left over from an earlier ping.                             *)
LEMMA LateCheckFeeds == ASSUME FInv, LateCheck PROVE FInv' /\ c'.outbox = c.outbox
<1> DEFINE q == Shut(c, c.socket)
<1>1. /\ c' = [q EXCEPT !.heart = FALSE, !.late = FALSE]
      /\ UNCHANGED <<online, up, down, pos, placed, got>>
  BY DEF LateCheck
<1>2. c \in Page /\ Feeds(c) /\ c.socket \in Sockets \cup {0}
  BY DEF FInv, TypeOK, Page
<1>3. Minds(q, c) /\ q.outbox = c.outbox
  BY <1>2, ShutMinds
<1> HIDE DEF q
<1>4. c' \in Page /\ c'.socket = q.socket /\ c'.link = q.link /\ c'.row = q.row
      /\ c'.outbox = q.outbox
  BY <1>1, <1>3 DEF Minds, Page
<1>5. Minds(c', c)
  BY <1>3, <1>4 DEF Minds, Feeds
<1>6. Wires
  BY <1>1, WiresStay DEF FInv
<1> QED BY <1>1, <1>3, <1>4, <1>5, <1>6, CSame, MoveKeeps

(* An order: sent, queued, or dropped by a full outbox.                     *)
LEMMA PlaceFeeds ==
    ASSUME FInv, Place
    PROVE  /\ FInv'
           /\ \/ up' = Wire(c, <<placed'>>) /\ c' = c
              \/ up' = up /\ c'.outbox \in {c.outbox, Append(c.outbox, placed')}
<1>1. /\ placed < Len(Qty) /\ Room /\ placed' = placed + 1
      /\ UNCHANGED <<online, down, pos, got>>
  BY DEF Place
<1>2. c \in Page /\ Feeds(c) /\ placed \in 0..Len(Qty) /\ Len(Qty) \in Nat
      /\ Outbox \in Nat /\ Len(c.outbox) <= Outbox
  BY ClientAssumption, LenProperties DEF FInv, TypeOK
<1>3. placed' \in 0..Len(Qty) /\ placed' \in Orders
  BY <1>1, <1>2 DEF Orders
<1>4. CASE Sendable(c)
  <2>1. up' = Wire(c, <<placed'>>) /\ c' = c
    BY <1>4 DEF Place
  <2>2. <<placed'>> \in Seq(Orders)
    BY <1>3
  <2>3. up' \in [Sockets -> Seq(Orders)]
    BY <1>2, <2>1, <2>2, SentIsTyped DEF FInv
  <2>4. Wires
    BY <1>1, <1>3, <2>3 DEF Wires, FInv, TypeOK
  <2> QED BY <1>1, <2>1, <2>4, CSame, MoveKeeps
<1>5. CASE ~Sendable(c)
  <2> DEFINE o == IF Len(c.outbox) < Outbox THEN Append(c.outbox, placed') ELSE c.outbox
             p == [c EXCEPT !.outbox = o]
  <2>1. up' = up
    BY <1>5 DEF Place
  <2>2. c' = Connect(p)
    <3>1. c = [c EXCEPT !.outbox = c.outbox]
      BY <1>2 DEF Page
    <3>2. CASE Len(c.outbox) < Outbox
      BY <1>5, <3>2 DEF Place
    <3>3. CASE ~(Len(c.outbox) < Outbox)
      BY <1>5, <3>1, <3>3 DEF Place
    <3> QED BY <3>2, <3>3
  <2>3. o \in Seq(Orders) /\ Len(o) <= Outbox
    <3>1. c.outbox \in Seq(Orders) /\ Len(c.outbox) \in Nat
      BY <1>2, LenProperties DEF Page
    <3>2. Append(c.outbox, placed') \in Seq(Orders)
          /\ Len(Append(c.outbox, placed')) = Len(c.outbox) + 1
      BY <1>3, <3>1, AppendProperties
    <3> QED BY <1>2, <3>1, <3>2
  <2> HIDE DEF o
  <2>4. p \in Page /\ p.outbox = o /\ p.socket = c.socket /\ p.link = c.link
        /\ p.row = c.row
    BY <1>2, <2>3 DEF Page
  <2> HIDE DEF p
  <2>5. Minds(p, c) /\ Unused(p) # {}
    BY <1>1, <1>2, <2>4 DEF Minds, Feeds, Room, Unused
  <2>6. Minds(Connect(p), p) /\ Connect(p).outbox = p.outbox
    BY <2>4, <2>5, ConnectMinds DEF Minds
  <2>7. Minds(c', c) /\ Len(c'.outbox) <= Outbox /\ c'.outbox = o
    BY <2>2, <2>3, <2>4, <2>5, <2>6, MindsTwice
  <2>8. Wires
    BY <1>1, <1>3, <2>1 DEF Wires, FInv, TypeOK
  <2>9. FInv'
    BY <1>1, <2>7, <2>8, MoveKeeps
  <2> QED BY <2>1, <2>7, <2>9 DEF o
<1> QED BY <1>4, <1>5

(* The browser goes off line or on.                                         *)
LEMMA OnlineFeeds == ASSUME FInv, GoOffline \/ GoOnline PROVE FInv'
<1>1. UNCHANGED <<c, up, down, pos, placed, got>> /\ online' \in BOOLEAN
  BY DEF GoOffline, GoOnline
<1>2. Wires
  BY <1>1 DEF Wires, FInv, TypeOK
<1> QED BY <1>1, <1>2, CSame, MoveKeeps

(* A handshake that completes is painted with the position there is.        *)
LEMMA OpensFeeds == ASSUME FInv, NEW w \in Sockets, Opens(w) PROVE FInv'
<1>1. /\ c.link[w] = "connecting" /\ c' = OnOpen(c, w)
      /\ up' = Wire(c', IF w = c.socket THEN c.outbox ELSE <<>>)
      /\ down' = [down EXCEPT ![w] = IF w = c.socket THEN <<Snapshot(pos)>> ELSE <<>>]
      /\ UNCHANGED <<online, pos, placed, got>>
  BY DEF Opens
<1>2. c \in Page /\ Feeds(c)
  BY DEF FInv, TypeOK
<1>3. /\ w = c.socket /\ c' \in Page /\ Feeds(c') /\ c'.row = c.row
      /\ c'.outbox = <<>> /\ c'.socket = w
      /\ \A v \in Sockets : c'.link[v] = IF v = w THEN "open" ELSE c.link[v]
  BY <1>1, <1>2, OnOpenIs
<1>4. up' \in [Sockets -> Seq(Orders)]
  <2>1. c.outbox \in Seq(Orders)
    BY <1>2 DEF Page
  <2> QED BY <1>1, <1>3, <2>1, SentIsTyped DEF FInv
<1>5. down' = [down EXCEPT ![w] = <<Snapshot(pos)>>]
  BY <1>1, <1>3
<1>6. Snapshot(pos) \in Messages
  BY DEF Snapshot, Messages, FInv, TypeOK
<1>7. down' \in [Sockets -> Seq(Messages)]
  BY <1>5, <1>6 DEF FInv, TypeOK, Messages
<1>8. Caught'
  <2>1. \A v \in Sockets : c'.link[v] = "open" => v = w
    BY <1>3 DEF Feeds
  <2>2. down'[w] = <<Snapshot(pos)>> /\ down'[w] # <<>> /\ Last(down'[w]) = Snapshot(pos)
    BY <1>5 DEF Last, FInv, TypeOK
  <2> QED BY <1>1, <2>1, <2>2 DEF Caught
<1>9. Len(c'.outbox) <= Outbox
  BY <1>3, ClientAssumption
<1> QED BY <1>1, <1>3, <1>4, <1>7, <1>8, <1>9 DEF FInv, TypeOK, Messages

(* A socket is gone.                                                        *)
LEMMA ClosesFeeds ==
    ASSUME FInv, NEW w \in Sockets, Closes(w) PROVE FInv' /\ c'.outbox = c.outbox
<1>1. /\ c.link[w] = "closing" /\ c' = OnClose(c, w)
      /\ w = c.socket => c.timers < MaxTimers
      /\ down' = [down EXCEPT ![w] = <<>>]
      /\ UNCHANGED <<online, up, pos, placed, got>>
  BY DEF Closes
<1>2. Minds(c', c) /\ c'.outbox = c.outbox
  BY <1>1, OnCloseMinds DEF FInv, TypeOK
<1>3. \A v \in Sockets : c.link[v] = "open" => down'[v] = down[v]
  BY <1>1 DEF FInv, TypeOK
<1>4. Caught'
  BY <1>1, <1>2, <1>3 DEF FInv, Caught, Minds
<1>5. down' \in [Sockets -> Seq(Messages)]
  BY <1>1 DEF FInv, TypeOK, Messages
<1>6. Wires
  BY <1>1, WiresStay DEF FInv
<1> QED BY <1>1, <1>2, <1>4, <1>5, <1>6 DEF FInv, TypeOK, Minds, Wires, Messages

(* The connection breaks, or goes half-open.                                *)
LEMMA BreakFeeds ==
    ASSUME FInv, NEW w \in Sockets, Break(w) PROVE FInv' /\ c'.outbox = c.outbox
<1>1. /\ c' = [c EXCEPT !.link[w] = "closing"] /\ up' = [up EXCEPT ![w] = <<>>]
      /\ UNCHANGED <<online, down, pos, placed, got>>
  BY DEF Break
<1>2. c \in Page
  BY DEF FInv, TypeOK
<1>3. /\ c' \in Page /\ c'.socket = c.socket /\ c'.row = c.row /\ c'.outbox = c.outbox
      /\ \A v \in Sockets : c'.link[v] = IF v = w THEN "closing" ELSE c.link[v]
  BY <1>1, <1>2 DEF Page, ReadyStates
<1>4. Minds(c', c)
  BY <1>3 DEF Minds, Feeds, FInv
<1>5. Wires
  BY <1>1 DEF Wires, FInv, TypeOK
<1> QED BY <1>1, <1>3, <1>4, <1>5, CSame, MoveKeeps

(* A half-open socket is current and carries nothing.                       *)
LEMMA GoesHalfFeeds ==
    ASSUME FInv, NEW w \in Sockets, GoesHalf(w) PROVE FInv' /\ c'.outbox = c.outbox
<1>1. /\ c' = [c EXCEPT !.link[w] = "half"] /\ up' = [up EXCEPT ![w] = <<>>]
      /\ down' = [down EXCEPT ![w] = <<>>] /\ c.link[w] = "open"
      /\ UNCHANGED <<online, pos, placed, got>>
  BY DEF GoesHalf
<1>2. c \in Page
  BY DEF FInv, TypeOK
<1>3. /\ c' \in Page /\ c'.socket = c.socket /\ c'.row = c.row /\ c'.outbox = c.outbox
      /\ \A v \in Sockets : c'.link[v] = IF v = w THEN "half" ELSE c.link[v]
  BY <1>1, <1>2 DEF Page, ReadyStates
<1>4. Feeds(c')
  BY <1>1, <1>3 DEF Feeds, FInv
<1>5. \A v \in Sockets : c'.link[v] = "open" => c.link[v] = "open" /\ down'[v] = down[v]
  BY <1>1, <1>3 DEF FInv, TypeOK
<1>6. Caught'
  BY <1>1, <1>3, <1>5 DEF FInv, Caught
<1>7. down' \in [Sockets -> Seq(Messages)]
  BY <1>1 DEF FInv, TypeOK, Messages
<1>8. Wires
  BY <1>1 DEF Wires, FInv, TypeOK
<1> QED BY <1>1, <1>3, <1>4, <1>6, <1>7, <1>8 DEF FInv, TypeOK, Wires, Messages

(* A message reaches the table: after the last one it agrees with the       *)
(* engine on whether there is a position.                                   *)
LEMMA MessageFeeds ==
    ASSUME FInv, NEW w \in Sockets, Message(w) PROVE FInv' /\ c'.outbox = c.outbox
<1> DEFINE s == down[w]
           m == Head(s)
           r == Handled(c.row, m)
<1>1. /\ c.link[w] = "open" /\ s # <<>>
      /\ c' = [c EXCEPT !.row = r] /\ down' = [down EXCEPT ![w] = Tail(s)]
      /\ UNCHANGED <<online, up, pos, placed, got>>
  BY DEF Message
<1>2. c \in Page /\ Feeds(c) /\ s \in Seq(Messages) /\ c.row \in Int /\ pos \in Int
  BY DEF FInv, TypeOK, Page, Messages
<1>3. m \in Messages /\ Tail(s) \in Seq(Messages) /\ Len(Tail(s)) = Len(s) - 1
      /\ m = s[1] /\ Len(s) \in Nat \ {0}
      /\ \A i \in 1..(Len(s) - 1) : Tail(s)[i] = s[i + 1]
  BY <1>1, <1>2, HeadTailProperties, EmptySeq, LenProperties
<1>4. r \in Int
  BY <1>2, <1>3 DEF Handled, Filled, Absolute, Messages
<1>5. /\ c' \in Page /\ c'.socket = c.socket /\ c'.link = c.link /\ c'.outbox = c.outbox
      /\ c'.row = r
  BY <1>1, <1>2, <1>4 DEF Page
<1>6. Feeds(c')
  BY <1>2, <1>5 DEF Feeds
<1>7. Last(s) = Snapshot(pos)
  BY <1>1 DEF FInv, Caught
<1>8. /\ Tail(s) = <<>> => (r # 0 <=> pos # 0)
      /\ Tail(s) # <<>> => Last(Tail(s)) = Snapshot(pos)
  <2> DEFINE t == Tail(s)
  <2>0. /\ t \in Seq(Messages) /\ Len(t) = Len(s) - 1 /\ Len(s) \in Nat \ {0}
        /\ \A i \in 1..(Len(s) - 1) : t[i] = s[i + 1]
        /\ m = s[1]
    BY <1>3
  <2> HIDE DEF s, t, m
  <2>1. CASE Len(s) = 1
    <3>1. t = <<>> /\ m = Snapshot(pos)
      BY <1>7, <2>0, <2>1, EmptySeq DEF Last
    <3>2. r = Absolute(c.row, pos)
      BY <3>1 DEF Handled, Snapshot
    <3> QED BY <1>2, <3>1, <3>2 DEF Absolute, t
  <2>2. CASE Len(s) # 1
    <3>1. Len(t) \in 1..(Len(s) - 1) /\ Len(t) + 1 = Len(s)
      BY <2>0, <2>2
    <3>2. t[Len(t)] = s[Len(s)]
      BY <2>0, <3>1
    <3>3. t # <<>>
      BY <3>1, EmptySeq
    <3> QED BY <1>7, <3>2, <3>3 DEF Last, t
  <2> QED BY <2>1, <2>2
<1>9. down' \in [Sockets -> Seq(Messages)] /\ down'[w] = Tail(s)
  BY <1>1, <1>3 DEF FInv, TypeOK, Messages
<1>10. Caught'
  <2>1. \A v \in Sockets : c'.link[v] = "open" => v = w
    BY <1>1, <1>2, <1>5 DEF Feeds
  <2> HIDE DEF r, s
  <2> QED BY <1>1, <1>5, <1>8, <1>9, <2>1 DEF Caught
<1>11. Wires
  BY <1>1, WiresStay DEF FInv
<1> QED BY <1>1, <1>5, <1>6, <1>9, <1>10, <1>11 DEF FInv, TypeOK, Wires, Messages

(* What is sent of a fill are messages, the account as it then is the last. *)
LEMMA NewsAre ==
    ASSUME FInv, NEW q \in Int, NEW news \in News(q)
    PROVE  news \in Seq(Messages) /\ Len(news) \in Nat \ {0}
           /\ news[Len(news)] = Snapshot(pos + q)
<1> DEFINE f == Fill(q)
           n == Snapshot(pos + q)
<1>1. pos \in Int
  BY DEF FInv, TypeOK
<1>2. f \in Messages /\ n \in Messages
  BY <1>1 DEF Fill, Snapshot, Messages
<1>3. news = <<f, n>> \/ news = <<n>>
  BY DEF News
<1> HIDE DEF f, n
<1>4. CASE news = <<f, n>>
  BY <1>2, <1>4 DEF n
<1>5. CASE news = <<n>>
  BY <1>2, <1>5 DEF n
<1> QED BY <1>3, <1>4, <1>5

(* A fill at the engine's end is told to whoever is up, its result last.    *)
LEMMA ToldFeeds ==
    ASSUME FInv, NEW q \in Int, NEW news \in News(q),
           c' = c, pos' = pos + q, down' = Told(news), Wires
    PROVE  FInv'
<1>1. pos \in Int /\ down \in [Sockets -> Seq(Messages)]
  BY DEF FInv, TypeOK, Messages
<1>2. /\ news \in Seq(Messages) /\ Len(news) \in Nat \ {0}
      /\ news[Len(news)] = Snapshot(pos + q)
  BY NewsAre
<1>3. \A w \in Sockets :
        down'[w] = IF c.link[w] = "open" THEN down[w] \o news ELSE down[w]
  BY DEF Told
<1> DEFINE n == Snapshot(pos + q)
<1>4. n = Snapshot(pos')
  OBVIOUS
<1> HIDE DEF n
<1>5. ASSUME NEW w \in Sockets
      PROVE  /\ down[w] \o news \in Seq(Messages)
             /\ down[w] \o news # <<>>
             /\ Last(down[w] \o news) = n
  <2> DEFINE d == down[w]
             e == d \o news
             m == Len(news)
  <2>1. d \in Seq(Messages) /\ m \in Nat \ {0} /\ news[m] = n
    BY <1>1, <1>2 DEF n
  <2>2. Len(d) \in Nat /\ e \in Seq(Messages) /\ Len(e) = Len(d) + m
        /\ e[Len(d) + m] = news[m]
    <3> HIDE DEF d
    <3>1. Len(d) \in Nat
      BY <2>1, LenProperties
    <3>2. /\ e \in Seq(Messages) /\ Len(e) = Len(d) + Len(news)
          /\ \A i \in 1..(Len(d) + Len(news)) :
               e[i] = IF i <= Len(d) THEN d[i] ELSE news[i - Len(d)]
      BY <1>2, <2>1, ConcatProperties
    <3> HIDE DEF e
    <3>3. e[Len(d) + m] = news[Len(d) + m - Len(d)]
      BY <2>1, <3>1, <3>2
    <3> HIDE DEF m
    <3>4. Len(d) + m - Len(d) = m
      BY <2>1, <3>1
    <3> QED BY <3>1, <3>2, <3>3, <3>4 DEF m
  <2> HIDE DEF d, e, m
  <2>3. e # <<>>
    BY <2>1, <2>2, EmptySeq
  <2> QED BY <2>1, <2>2, <2>3 DEF Last, d, e
<1>6. down' \in [Sockets -> Seq(Messages)]
  <2>1. DOMAIN down' = Sockets /\ down' = [w \in Sockets |-> down'[w]]
    BY DEF Told
  <2>2. \A w \in Sockets : down'[w] \in Seq(Messages)
    BY <1>1, <1>3, <1>5
  <2> QED BY <2>1, <2>2
<1>7. Caught'
  BY <1>3, <1>4, <1>5 DEF Caught
<1>8. pos' \in Int
  BY <1>1
<1> QED BY <1>6, <1>7, <1>8 DEF FInv, TypeOK, Wires, Messages, Feeds

(* An order the engine takes is a fill, or tells nothing.                   *)
LEMMA ReceiveFeeds == ASSUME FInv, NEW w \in Sockets, Receive(w) PROVE FInv'
<1> DEFINE o == Head(up[w])
<1>1. /\ up[w] # <<>> /\ got' = Append(got, o) /\ up' = [up EXCEPT ![w] = Tail(@)]
      /\ UNCHANGED <<online, c, placed>>
      /\ \/ \E q \in Part(o) : /\ pos' = pos + q
                               /\ down' = Told(<<Fill(q), Snapshot(pos + q)>>)
         \/ UNCHANGED <<pos, down>>
  BY DEF Receive
<1>2. up[w] \in Seq(Orders) /\ got \in Seq(Orders)
  BY DEF FInv, TypeOK
<1>3. o \in Orders /\ Tail(up[w]) \in Seq(Orders)
  BY <1>1, <1>2, HeadTailProperties
<1>4. Qty[o] \in Int
  BY <1>3, ClientAssumption, ElementOfSeq DEF Orders
<1> HIDE DEF o
<1>5. Wires
  <2>1. got' \in Seq(Orders)
    BY <1>1, <1>2, <1>3, AppendProperties
  <2> QED BY <1>1, <1>3, <2>1 DEF Wires, FInv, TypeOK
<1>6. ASSUME NEW q \in Part(o), pos' = pos + q, down' = Told(<<Fill(q), Snapshot(pos + q)>>)
      PROVE  FInv'
  <2>1. q \in Int
    BY <1>4 DEF Part
  <2>2. <<Fill(q), Snapshot(pos + q)>> \in News(q)
    BY DEF News
  <2> QED BY <1>1, <1>5, <1>6, <2>1, <2>2, ToldFeeds
<1>7. CASE UNCHANGED <<pos, down>>
  BY <1>1, <1>5, <1>7 DEF FInv, TypeOK, Wires, Feeds, Caught
<1> QED BY <1>1, <1>6, <1>7

(* So is someone else's command that meets a resting order.                 *)
LEMMA RestingFillFeeds == ASSUME FInv, NEW q \in Fills, RestingFill(q) PROVE FInv'
<1>1. pos' = pos + q /\ UNCHANGED <<online, c, up, placed, got>>
  BY DEF RestingFill
<1>2. PICK news \in News(q) : down' = Told(news)
  BY DEF RestingFill
<1>3. q \in Int
  BY ClientAssumption
<1>4. Wires
  BY <1>1, WiresStay DEF FInv
<1> QED BY <1>1, <1>2, <1>3, <1>4, ToldFeeds

(* Every step keeps one feed and what it leaves the table with.             *)
LEMMA NextFeeds == ASSUME FInv, [Next]_vars PROVE FInv'
<1>1. CASE UNCHANGED vars
  BY <1>1 DEF vars, FInv, TypeOK, Feeds, Caught
<1> QED BY <1>1, EffectFeeds, TimerFeeds, WatchdogFeeds, LateCheckFeeds, PlaceFeeds,
           OnlineFeeds, OpensFeeds, ClosesFeeds, MessageFeeds, ReceiveFeeds, BreakFeeds,
           GoesHalfFeeds, RestingFillFeeds DEF Next

(* No socket, no row, no position.                                          *)
LEMMA InitFeeds == Init => FInv
<1> SUFFICES ASSUME Init PROVE FInv
  OBVIOUS
<1>1. /\ online = TRUE /\ pos = 0 /\ placed = 0 /\ got = <<>>
      /\ up = [w \in Sockets |-> <<>>] /\ down = [w \in Sockets |-> <<>>]
      /\ c = [socket |-> 0, connecting |-> FALSE, opened |-> FALSE, heart |-> FALSE,
              late |-> FALSE, budget |-> 0, timers |-> 0, outbox |-> <<>>, row |-> 0,
              link |-> [w \in Sockets |-> "none"], ran |-> <<>>, cleanup |-> FALSE]
  BY DEF Init
<1>2. Retries \in Nat /\ MaxTimers \in Nat /\ Outbox \in Nat /\ Len(Qty) \in Nat
  BY ClientAssumption, LenProperties
<1>3. <<>> \in Seq(Orders) /\ <<>> \in Seq(BOOLEAN) /\ <<>> \in Seq(Messages)
      /\ Len(c.outbox) = 0
  BY <1>1
<1>4. c \in Page /\ \A w \in Sockets : c.link[w] = "none"
  BY <1>1, <1>2, <1>3 DEF Page, ReadyStates
<1> QED BY <1>1, <1>2, <1>3, <1>4 DEF FInv, TypeOK, Feeds, Caught, Messages

(* The page's state is of its type, one socket at most feeds it, and a row  *)
(* it then shows is that of a position.                                     *)
THEOREM FeedInvariant == Spec => []FInv
<1> QED BY InitFeeds, NextFeeds, PTL DEF Spec

(* However sockets come, break, hang and are replaced, one at most can      *)
(* still deliver.                                                           *)
THEOREM OneFeedAlways == Spec => []OneFeed
<1>1. FInv => OneFeed
  BY DEF FInv, Feeds, OneFeed
<1> QED BY <1>1, FeedInvariant, PTL

(* The table, once it has caught up, shows a row exactly when there is a    *)
(* position.                                                                *)
THEOREM RowsAreRight == Spec => []RowWhenPosition
<1>1. FInv => RowWhenPosition
  <2>1. FInv => c.socket \in Sockets \cup {0}
    BY DEF FInv, TypeOK, Page
  <2> QED BY <2>1 DEF FInv, Caught, RowWhenPosition, Quiet
<1> QED BY <1>1, FeedInvariant, PTL

-----------------------------------------------------------------------------
(* Orders in their places                                                   *)

\* no order in h has a number above n
Below(h, n) == \A p \in DOMAIN h : \A i \in DOMAIN h[p] : h[p][i] <= n

\* orders in the places P
Holds(h, P) == DOMAIN h = P /\ \A p \in P : h[p] \in Seq(Int)

\* from h to g: a new order at r; all orders of s, or its first, go to r
Added(g, h, P, r, n) ==
    /\ r \in P /\ DOMAIN g = P
    /\ g[r] = Append(h[r], n)
    /\ \A p \in P \ {r} : g[p] = h[p]
Moved(g, h, P, r, s) ==
    /\ r \in P /\ s \in P \ {r} /\ DOMAIN g = P
    /\ g[r] = h[r] \o h[s] /\ g[s] = <<>>
    /\ \A p \in P \ {r, s} : g[p] = h[p]
Taken(g, h, P, r, s) ==
    /\ r \in P /\ s \in P \ {r} /\ DOMAIN g = P /\ h[s] # <<>>
    /\ g[r] = Append(h[r], Head(h[s])) /\ g[s] = Tail(h[s])
    /\ \A p \in P \ {r, s} : g[p] = h[p]

(* Emptying places doubles nothing.                                         *)
LEMMA OnceLess ==
    ASSUME NEW h, NEW g, NEW n, Once(h), Below(h, n), DOMAIN g = DOMAIN h,
           \A p \in DOMAIN h : g[p] = h[p] \/ g[p] = <<>>
    PROVE  Once(g) /\ Below(g, n)
<1>1. \A p \in DOMAIN g : \A i \in DOMAIN g[p] : i \in DOMAIN h[p] /\ g[p][i] = h[p][i]
  OBVIOUS
<1> QED BY <1>1 DEF Once, Below

(* Two orders of the same number are the same order.                        *)
LEMMA OnceSame ==
    ASSUME NEW P, NEW h, DOMAIN h = P, Once(h)
    PROVE  \A p, q \in P : \A i, j :
               i \in DOMAIN h[p] /\ j \in DOMAIN h[q] /\ h[p][i] = h[q][j]
                   => p = q /\ i = j
BY DEF Once

(* Nor does an order nobody has yet.                                        *)
LEMMA OnceMore ==
    ASSUME NEW P, NEW h, Holds(h, P), NEW n \in Int, Once(h), Below(h, n), NEW m, m = n + 1,
           NEW r, NEW g, Added(g, h, P, r, m)
    PROVE  Once(g) /\ Below(g, m)
<1> USE DEF Holds, Added
<1>0. \A p, q \in P : \A i, j :
         i \in DOMAIN h[p] /\ j \in DOMAIN h[q] /\ h[p][i] = h[q][j]
             => p = q /\ i = j
  BY OnceSame
<1>1. \A p \in P : /\ h[p] \in Seq(Int) /\ Len(h[p]) \in Nat
                   /\ DOMAIN h[p] = 1..Len(h[p])
                   /\ \A i \in DOMAIN h[p] : h[p][i] \in Int /\ h[p][i] <= n
  BY LenProperties, ElementOfSeq DEF Below
<1>2. /\ DOMAIN g[r] = 1..(Len(h[r]) + 1)
      /\ g[r][Len(h[r]) + 1] = m
      /\ \A i \in 1..Len(h[r]) : g[r][i] = h[r][i]
  <2> DEFINE a == Append(h[r], m)
  <2>1. /\ a \in Seq(Int) /\ Len(a) = Len(h[r]) + 1 /\ a[Len(h[r]) + 1] = m
        /\ \A i \in 1..Len(h[r]) : a[i] = h[r][i]
    BY <1>1, AppendProperties
  <2>2. DOMAIN a = 1..(Len(h[r]) + 1)
    BY <2>1, LenProperties
  <2> QED BY <2>1, <2>2
<1>3. ASSUME NEW p \in P, NEW i \in DOMAIN g[p]
      PROVE  \/ i \in DOMAIN h[p] /\ g[p][i] = h[p][i]
             \/ p = r /\ i = Len(h[r]) + 1 /\ g[p][i] = m
  <2>1. CASE p # r
    BY <1>3, <2>1
  <2>2. CASE p = r /\ i = Len(h[r]) + 1
    BY <1>2, <2>2
  <2>3. CASE p = r /\ i # Len(h[r]) + 1
    <3>1. i \in 1..Len(h[r])
      BY <1>1, <1>2, <1>3, <2>3
    <3> QED BY <1>1, <1>2, <2>3, <3>1
  <2> QED BY <2>1, <2>2, <2>3
<1>4. Below(g, m)
  <2> SUFFICES ASSUME NEW p \in P, NEW i \in DOMAIN g[p] PROVE g[p][i] <= m
    BY DEF Below
  <2>1. CASE i \in DOMAIN h[p] /\ g[p][i] = h[p][i]
    <3>1. h[p][i] \in Int /\ h[p][i] <= n
      BY <1>1, <2>1
    <3> QED BY <2>1, <3>1
  <2>2. CASE g[p][i] = m
    BY <2>2
  <2> QED BY <1>3, <2>1, <2>2
<1>5. Once(g)
  <2> SUFFICES ASSUME NEW p \in P, NEW q \in P, NEW i \in DOMAIN g[p],
                      NEW j \in DOMAIN g[q], g[p][i] = g[q][j]
               PROVE  p = q /\ i = j
    BY DEF Once
  <2>1. CASE i \in DOMAIN h[p] /\ g[p][i] = h[p][i] /\ j \in DOMAIN h[q] /\ g[q][j] = h[q][j]
    <3>1. h[p][i] = h[q][j]
      BY <2>1
    <3> QED BY <1>0, <2>1, <3>1
  <2>2. CASE ~(i \in DOMAIN h[p] /\ g[p][i] = h[p][i])
    <3>1. p = r /\ i = Len(h[r]) + 1 /\ g[p][i] = m
      BY <1>3, <2>2
    <3>2. ~(j \in DOMAIN h[q] /\ g[q][j] = h[q][j])
      BY <1>1, <3>1
    <3> QED BY <1>3, <3>1, <3>2
  <2>3. CASE ~(j \in DOMAIN h[q] /\ g[q][j] = h[q][j])
    <3>1. q = r /\ j = Len(h[r]) + 1 /\ g[q][j] = m
      BY <1>3, <2>3
    <3>2. ~(i \in DOMAIN h[p] /\ g[p][i] = h[p][i])
      BY <1>1, <3>1
    <3> QED BY <1>3, <3>1, <3>2
  <2> QED BY <2>1, <2>2, <2>3
<1> QED BY <1>4, <1>5

(* Nor does moving all orders of one place to the end of another.           *)
LEMMA OnceMoved ==
    ASSUME NEW P, NEW h, Holds(h, P), NEW n, Once(h), Below(h, n),
           NEW r, NEW s, NEW g, Moved(g, h, P, r, s)
    PROVE  Once(g) /\ Below(g, n)
<1> USE DEF Holds, Moved
<1>0. \A p, q \in P : \A i, j :
         i \in DOMAIN h[p] /\ j \in DOMAIN h[q] /\ h[p][i] = h[q][j]
             => p = q /\ i = j
  BY OnceSame
<1>1. \A p \in P : h[p] \in Seq(Int) /\ Len(h[p]) \in Nat /\ DOMAIN h[p] = 1..Len(h[p])
  BY LenProperties
<1> DEFINE k == Len(h[r])
           m == Len(h[s])
<1>2. /\ k \in Nat /\ m \in Nat
      /\ DOMAIN g[r] = 1..(k + m)
      /\ \A i \in 1..(k + m) : g[r][i] = IF i <= k THEN h[r][i] ELSE h[s][i - k]
  <2> DEFINE a == h[r] \o h[s]
  <2>1. /\ a \in Seq(Int) /\ Len(a) = k + m
        /\ \A i \in 1..(k + m) : a[i] = IF i <= k THEN h[r][i] ELSE h[s][i - k]
    BY <1>1, ConcatProperties
  <2>2. DOMAIN a = 1..(k + m)
    BY <2>1, LenProperties
  <2> QED BY <1>1, <2>1, <2>2
<1> HIDE DEF k, m
<1>3. ASSUME NEW p \in P, NEW i \in DOMAIN g[p]
      PROVE  \/ i \in DOMAIN h[p] /\ g[p][i] = h[p][i] /\ p # s /\ (p = r => i <= k)
             \/ p = r /\ i > k /\ i - k \in DOMAIN h[s] /\ g[p][i] = h[s][i - k]
                /\ i \in Int
  <2>1. p # s
    BY <1>3
  <2>2. CASE p = r
    <3>1. CASE i <= k
      BY <1>1, <1>2, <1>3, <2>1, <2>2, <3>1 DEF k
    <3>2. CASE ~(i <= k)
      <4>1. i \in 1..(k + m)
        BY <1>2, <1>3, <2>2
      <4>2. i - k \in 1..m /\ i \in Int /\ i > k
        BY <1>2, <3>2, <4>1
      <4>3. g[r][i] = h[s][i - k]
        BY <1>2, <3>2, <4>1
      <4>4. DOMAIN h[s] = 1..m
        BY <1>1 DEF m
      <4> QED BY <2>2, <4>2, <4>3, <4>4
    <3> QED BY <3>1, <3>2
  <2>3. CASE p # r
    BY <2>1, <2>3
  <2> QED BY <2>2, <2>3
<1>4. Below(g, n)
  BY <1>3 DEF Below
<1>5. Once(g)
  <2> SUFFICES ASSUME NEW p \in P, NEW q \in P, NEW i \in DOMAIN g[p],
                      NEW j \in DOMAIN g[q], g[p][i] = g[q][j]
               PROVE  p = q /\ i = j
    BY DEF Once
  <2>1. CASE i \in DOMAIN h[p] /\ g[p][i] = h[p][i] /\ p # s /\ (p = r => i <= k)
    <3>1. CASE j \in DOMAIN h[q] /\ g[q][j] = h[q][j] /\ q # s /\ (q = r => j <= k)
      <4>1. i \in DOMAIN h[p] /\ j \in DOMAIN h[q] /\ h[p][i] = h[q][j]
        BY <2>1, <3>1
      <4>2. p = q /\ i = j
        BY <1>0, <4>1
      <4> QED BY <2>1, <3>1, <4>2
    <3>2. CASE q = r /\ j > k /\ j - k \in DOMAIN h[s] /\ g[q][j] = h[s][j - k]
      <4>1. i \in DOMAIN h[p] /\ j - k \in DOMAIN h[s] /\ h[p][i] = h[s][j - k]
        BY <2>1, <3>2
      <4>2. p = s /\ i = j - k
        BY <1>0, <4>1
      <4> QED BY <2>1, <3>2, <4>2
    <3> QED BY <1>3, <3>1, <3>2
  <2>2. CASE p = r /\ i > k /\ i - k \in DOMAIN h[s] /\ g[p][i] = h[s][i - k] /\ i \in Int
    <3>1. CASE j \in DOMAIN h[q] /\ g[q][j] = h[q][j] /\ q # s /\ (q = r => j <= k)
      <4>1. i - k \in DOMAIN h[s] /\ j \in DOMAIN h[q] /\ h[s][i - k] = h[q][j]
        BY <2>2, <3>1
      <4>2. s = q /\ i - k = j
        BY <1>0, <4>1
      <4> QED BY <2>2, <3>1, <4>2
    <3>2. CASE q = r /\ j > k /\ j - k \in DOMAIN h[s] /\ g[q][j] = h[s][j - k] /\ j \in Int
      <4>1. i - k = j - k
        <5>1. i - k \in DOMAIN h[s] /\ j - k \in DOMAIN h[s] /\ h[s][i - k] = h[s][j - k]
          BY <2>2, <3>2
        <5>2. s = s /\ i - k = j - k
          BY <1>0, <5>1
        <5> QED BY <2>2, <3>2, <5>2
      <4> QED BY <1>2, <2>2, <3>2, <4>1
    <3> QED BY <1>3, <3>1, <3>2
  <2> QED BY <1>3, <2>1, <2>2
<1> QED BY <1>4, <1>5

(* Nor does moving the first of one place to the end of another.            *)
LEMMA OnceTaken ==
    ASSUME NEW P, NEW h, Holds(h, P), NEW n, Once(h), Below(h, n),
           NEW r, NEW s, NEW g, Taken(g, h, P, r, s)
    PROVE  Once(g) /\ Below(g, n)
<1> USE DEF Holds, Taken
<1>0. \A p, q \in P : \A i, j :
         i \in DOMAIN h[p] /\ j \in DOMAIN h[q] /\ h[p][i] = h[q][j]
             => p = q /\ i = j
  BY OnceSame
<1>1. \A p \in P : h[p] \in Seq(Int) /\ Len(h[p]) \in Nat /\ DOMAIN h[p] = 1..Len(h[p])
  BY LenProperties
<1> DEFINE k == Len(h[r])
           m == Len(h[s])
           t == Tail(h[s])
           a == Append(h[r], Head(h[s]))
<1>2. /\ k \in Nat /\ m \in Nat /\ m # 0
      /\ DOMAIN h[s] = 1..m /\ DOMAIN h[r] = 1..k
      /\ DOMAIN t = 1..(m - 1) /\ \A i \in 1..(m - 1) : t[i] = h[s][i + 1]
      /\ Head(h[s]) = h[s][1] /\ h[s][1] \in Int
  <2>1. h[s] \in Seq(Int) /\ m \in Nat /\ m # 0 /\ k \in Nat
    BY <1>1, EmptySeq
  <2>2. /\ t \in Seq(Int) /\ Len(t) = m - 1 /\ \A i \in 1..(m - 1) : t[i] = h[s][i + 1]
        /\ Head(h[s]) = h[s][1] /\ Head(h[s]) \in Int
    BY <2>1, HeadTailProperties
  <2>3. DOMAIN t = 1..(m - 1)
    BY <2>2, LenProperties
  <2> QED BY <1>1, <2>1, <2>2, <2>3
<1>3. /\ DOMAIN a = 1..(k + 1) /\ a[k + 1] = h[s][1]
      /\ \A i \in 1..k : a[i] = h[r][i]
  <2>1. h[r] \in Seq(Int) /\ Head(h[s]) \in Int
    BY <1>1, <1>2
  <2>2. /\ a \in Seq(Int) /\ Len(a) = k + 1 /\ a[k + 1] = Head(h[s])
        /\ \A i \in 1..k : a[i] = h[r][i]
    BY <2>1, AppendProperties
  <2> QED BY <1>2, <2>2, LenProperties
<1> HIDE DEF k, m, t, a
<1>4. g[r] = a /\ g[s] = t
  BY DEF a, t
\* where each order of g was
<1>5. ASSUME NEW p \in P, NEW i \in DOMAIN g[p]
      PROVE  \/ p # s /\ i \in DOMAIN h[p] /\ g[p][i] = h[p][i] /\ (p = r => i <= k)
             \/ p = s /\ i \in Int /\ i >= 1 /\ i + 1 \in DOMAIN h[s]
                      /\ g[p][i] = h[s][i + 1]
             \/ p = r /\ i = k + 1 /\ 1 \in DOMAIN h[s] /\ g[p][i] = h[s][1]
  <2>1. CASE p = r
    <3>1. CASE i = k + 1
      BY <1>2, <1>3, <1>4, <2>1, <3>1
    <3>2. CASE i # k + 1
      BY <1>2, <1>3, <1>4, <1>5, <2>1, <3>2
    <3> QED BY <3>1, <3>2
  <2>2. CASE p = s
    BY <1>2, <1>4, <1>5, <2>2, SMTT(30)
  <2>3. CASE p \notin {r, s}
    BY <1>5, <2>3
  <2> QED BY <2>1, <2>2, <2>3
<1>6. Below(g, n)
  BY <1>5, ZenonT(30) DEF Below
<1>7. Once(g)
  <2> SUFFICES ASSUME NEW p \in P, NEW q \in P, NEW i \in DOMAIN g[p],
                      NEW j \in DOMAIN g[q], g[p][i] = g[q][j]
               PROVE  p = q /\ i = j
    BY DEF Once
  <2>1. CASE p # s /\ i \in DOMAIN h[p] /\ g[p][i] = h[p][i] /\ (p = r => i <= k)
    <3>1. CASE q # s /\ j \in DOMAIN h[q] /\ g[q][j] = h[q][j] /\ (q = r => j <= k)
      <4>1. i \in DOMAIN h[p] /\ j \in DOMAIN h[q] /\ h[p][i] = h[q][j]
        BY <2>1, <3>1
      <4>2. p = q /\ i = j
        BY <1>0, <4>1
      <4> QED BY <2>1, <3>1, <4>2
    <3>2. CASE q = s /\ j + 1 \in DOMAIN h[s] /\ g[q][j] = h[s][j + 1]
      <4>1. i \in DOMAIN h[p] /\ j + 1 \in DOMAIN h[s] /\ h[p][i] = h[s][j + 1]
        BY <2>1, <3>2
      <4>2. p = s /\ i = j + 1
        BY <1>0, <4>1
      <4> QED BY <2>1, <3>2, <4>2
    <3>3. CASE q = r /\ j = k + 1 /\ 1 \in DOMAIN h[s] /\ g[q][j] = h[s][1]
      <4>1. i \in DOMAIN h[p] /\ 1 \in DOMAIN h[s] /\ h[p][i] = h[s][1]
        BY <2>1, <3>3
      <4>2. p = s /\ i = 1
        BY <1>0, <4>1
      <4> QED BY <2>1, <3>3, <4>2
    <3> QED BY <1>5, <3>1, <3>2, <3>3
  <2>2. CASE p = s /\ i \in Int /\ i >= 1 /\ i + 1 \in DOMAIN h[s] /\ g[p][i] = h[s][i + 1]
    <3>1. CASE q # s /\ j \in DOMAIN h[q] /\ g[q][j] = h[q][j] /\ (q = r => j <= k)
      <4>1. i + 1 \in DOMAIN h[s] /\ j \in DOMAIN h[q] /\ h[s][i + 1] = h[q][j]
        BY <2>2, <3>1
      <4>2. s = q /\ i + 1 = j
        BY <1>0, <4>1
      <4> QED BY <2>2, <3>1, <4>2
    <3>2. CASE q = s /\ j \in Int /\ j + 1 \in DOMAIN h[s] /\ g[q][j] = h[s][j + 1]
      <4>1. i + 1 = j + 1
        <5>1. i + 1 \in DOMAIN h[s] /\ j + 1 \in DOMAIN h[s] /\ h[s][i + 1] = h[s][j + 1]
          BY <2>2, <3>2
        <5>2. s = s /\ i + 1 = j + 1
          BY <1>0, <5>1
        <5> QED BY <2>2, <3>2, <5>2
      <4> QED BY <2>2, <3>2, <4>1
    <3>3. CASE q = r /\ j = k + 1 /\ 1 \in DOMAIN h[s] /\ g[q][j] = h[s][1]
      <4>1. i + 1 = 1
        <5>1. i + 1 \in DOMAIN h[s] /\ 1 \in DOMAIN h[s] /\ h[s][i + 1] = h[s][1]
          BY <2>2, <3>3
        <5>2. s = s /\ i + 1 = 1
          BY <1>0, <5>1
        <5> QED BY <2>2, <3>3, <5>2
      <4> QED BY <2>2, <4>1
    <3> QED BY <1>5, <3>1, <3>2, <3>3
  <2>3. CASE p = r /\ i = k + 1 /\ 1 \in DOMAIN h[s] /\ g[p][i] = h[s][1]
    <3>1. CASE q # s /\ j \in DOMAIN h[q] /\ g[q][j] = h[q][j] /\ (q = r => j <= k)
      <4>1. 1 \in DOMAIN h[s] /\ j \in DOMAIN h[q] /\ h[s][1] = h[q][j]
        BY <2>3, <3>1
      <4>2. s = q /\ 1 = j
        BY <1>0, <4>1
      <4> QED BY <2>3, <3>1, <4>2
    <3>2. CASE q = s /\ j \in Int /\ j >= 1 /\ j + 1 \in DOMAIN h[s] /\ g[q][j] = h[s][j + 1]
      <4>1. 1 = j + 1
        <5>1. 1 \in DOMAIN h[s] /\ j + 1 \in DOMAIN h[s] /\ h[s][1] = h[s][j + 1]
          BY <2>3, <3>2
        <5>2. s = s /\ 1 = j + 1
          BY <1>0, <5>1
        <5> QED BY <2>3, <3>2, <5>2
      <4> QED BY <3>2, <4>1
    <3>3. CASE q = r /\ j = k + 1
      BY <2>3, <3>3
    <3> QED BY <1>5, <3>1, <3>2, <3>3
  <2> QED BY <1>5, <2>1, <2>2, <2>3
<1> QED BY <1>6, <1>7

\* at most once, and no order that has not been placed
OInv == FInv /\ Once(Held) /\ Below(Held, placed)

Places == Sockets \cup {0, -1}

(* What is where, without its definition.                                   *)
LEMMA HeldIs ==
    ASSUME TypeOK
    PROVE  /\ DOMAIN Held = Places
           /\ 0 \in Places /\ -1 \in Places /\ 0 # -1
           /\ \A w \in Sockets : w \in Places /\ w # 0 /\ w # -1
           /\ Held[0] = c.outbox /\ Held[-1] = got
           /\ \A w \in Sockets : Held[w] = up[w]
           /\ \A p \in Places : Held[p] \in Seq(Int)
<1>1. \A w \in Sockets : w \in Nat /\ w # 0
  BY SocketsAre
<1>2. c.outbox \in Seq(Int) /\ got \in Seq(Int) /\ \A w \in Sockets : up[w] \in Seq(Int)
  <2>1. ASSUME NEW s \in Seq(Orders) PROVE s \in Seq(Int)
    <3>1. Len(s) \in Nat /\ s \in [1..Len(s) -> Int]
      BY LenProperties DEF Orders
    <3> QED BY <3>1
  <2> QED BY <2>1 DEF TypeOK, Page
<1> QED BY <1>1, <1>2 DEF Held, Places

(* The same of the next state.                                              *)
LEMMA HeldNext ==
    ASSUME TypeOK'
    PROVE  /\ DOMAIN Held' = Places
           /\ Held'[0] = c'.outbox /\ Held'[-1] = got'
           /\ \A w \in Sockets : Held'[w] = up'[w]
<1>1. \A w \in Sockets : w \in Nat /\ w # 0
  BY SocketsAre
<1> QED BY <1>1 DEF Held, Places

(* A step that leaves the orders where they are.                            *)
LEMMA HeldStays ==
    ASSUME OInv, FInv', c'.outbox = c.outbox, up' = up, got' = got, placed' = placed
    PROVE  OInv'
<1>1. Held' = Held
  BY DEF Held
<1>2. Once(Held)' /\ Below(Held, placed)'
  BY <1>1 DEF OInv
<1> QED BY <1>2 DEF OInv

(* An order that is sent or queued is the newest there is.                  *)
LEMMA PlaceOnce == ASSUME OInv, Place PROVE OInv'
<1>1. /\ FInv'
      /\ \/ up' = Wire(c, <<placed'>>) /\ c' = c
         \/ up' = up /\ c'.outbox \in {c.outbox, Append(c.outbox, placed')}
  BY PlaceFeeds DEF OInv
<1>2. placed' = placed + 1 /\ got' = got /\ placed \in Nat /\ placed' \in Orders
      /\ c \in Page
  <2>1. placed < Len(Qty) /\ placed' = placed + 1 /\ got' = got
    BY DEF Place
  <2>2. c \in Page /\ placed \in 0..Len(Qty) /\ Len(Qty) \in Nat
    BY ClientAssumption, LenProperties DEF OInv, FInv, TypeOK
  <2> QED BY <2>1, <2>2 DEF Orders
<1>3. Once(Held) /\ Below(Held, placed)
  BY DEF OInv
<1> DEFINE h == Held
           g == Held'
<1>4. /\ DOMAIN h = Places /\ 0 \in Places /\ -1 \in Places /\ 0 # -1
      /\ \A w \in Sockets : w \in Places /\ w # 0 /\ w # -1
      /\ h[0] = c.outbox /\ h[-1] = got
      /\ \A w \in Sockets : h[w] = up[w]
      /\ \A p \in Places : h[p] \in Seq(Int)
  BY HeldIs DEF OInv, FInv
<1>5. /\ DOMAIN g = Places
      /\ g[0] = c'.outbox /\ g[-1] = got'
      /\ \A w \in Sockets : g[w] = up'[w]
  BY <1>1, HeldNext DEF FInv
<1>6. \A p \in Places : p = 0 \/ p = -1 \/ p \in Sockets
  BY DEF Places
<1>7. Once(h) /\ Below(h, placed) /\ placed \in Int /\ placed' = placed + 1
  BY <1>2, <1>3
<1> HIDE DEF h, g
<1>8. ASSUME \A p \in Places : g[p] = h[p]
      PROVE  Once(g) /\ Below(g, placed')
  <2>1. Once(g)
    BY <1>4, <1>5, <1>7, <1>8 DEF Once
  <2>2. ASSUME NEW p \in Places, NEW i \in DOMAIN g[p] PROVE g[p][i] <= placed'
    <3>1. h[p] \in Seq(Int) /\ i \in DOMAIN h[p] /\ g[p][i] = h[p][i]
      BY <1>4, <1>8
    <3>2. h[p][i] \in Int
      BY <3>1, LenProperties, ElementOfSeq
    <3>3. h[p][i] <= placed
      BY <1>4, <1>7, <3>1 DEF Below
    <3> QED BY <1>7, <3>1, <3>2, <3>3
  <2> QED BY <1>5, <2>1, <2>2 DEF Below
<1>9. ASSUME NEW r \in Places, g[r] = Append(h[r], placed'),
             \A p \in Places \ {r} : g[p] = h[p]
      PROVE  Once(g) /\ Below(g, placed')
  <2>1. Added(g, h, Places, r, placed') /\ Holds(h, Places)
    BY <1>4, <1>5, <1>9 DEF Added, Holds
  <2> QED BY <1>7, <2>1, OnceMore
<1>10. Once(g) /\ Below(g, placed')
  <2>1. CASE up' = Wire(c, <<placed'>>) /\ c' = c
    <3>1. CASE c.socket = 0 \/ c.link[c.socket] # "open"
      <4>1. up' = up
        BY <2>1, <3>1 DEF Wire
      <4> QED BY <1>2, <1>4, <1>5, <1>6, <1>8, <2>1, <4>1
    <3>2. CASE ~(c.socket = 0 \/ c.link[c.socket] # "open")
      <4>1. c.socket \in Sockets
        BY <1>2, <3>2 DEF Page
      <4>2. up' = [up EXCEPT ![c.socket] = @ \o <<placed'>>]
        BY <2>1, <3>2 DEF Wire
      <4>3. up[c.socket] \in Seq(Orders) /\ up \in [Sockets -> Seq(Orders)]
        BY <4>1 DEF OInv, FInv, TypeOK
      <4>4. up[c.socket] \o <<placed'>> = Append(up[c.socket], placed')
        BY <1>2, <4>3, AppendIsConcat
      <4>5. /\ up'[c.socket] = Append(up[c.socket], placed')
            /\ \A w \in Sockets : w # c.socket => up'[w] = up[w]
        BY <4>1, <4>2, <4>3, <4>4
      <4> DEFINE s == c.socket
      <4>6. s \in Places /\ g[s] = Append(h[s], placed')
        BY <1>4, <1>5, <4>1, <4>5
      <4>7. ASSUME NEW p \in Places \ {s} PROVE g[p] = h[p]
        <5>1. CASE p = 0 \/ p = -1
          BY <1>2, <1>4, <1>5, <2>1, <5>1
        <5>2. CASE p \in Sockets
          BY <1>4, <1>5, <4>5, <4>7, <5>2
        <5> QED BY <1>6, <5>1, <5>2
      <4> HIDE DEF s
      <4> QED BY <1>9, <4>6, <4>7
    <3> QED BY <3>1, <3>2
  <2>2. CASE up' = up /\ c'.outbox = c.outbox
    BY <1>2, <1>4, <1>5, <1>6, <1>8, <2>2
  <2>3. CASE up' = up /\ c'.outbox = Append(c.outbox, placed')
    BY <1>2, <1>4, <1>5, <1>6, <1>9, <2>3
  <2> QED BY <1>1, <2>1, <2>2, <2>3
<1> QED BY <1>1, <1>10 DEF OInv, g

(* A flush moves the whole outbox onto the new wire.                        *)
LEMMA OpensOnce == ASSUME OInv, NEW w \in Sockets, Opens(w) PROVE OInv'
<1>1. FInv'
  BY OpensFeeds DEF OInv
<1>2. /\ c.link[w] = "connecting" /\ c' = OnOpen(c, w)
      /\ up' = Wire(c', IF w = c.socket THEN c.outbox ELSE <<>>)
      /\ UNCHANGED <<placed, got>>
  BY DEF Opens
<1>3. c \in Page /\ Feeds(c)
  BY DEF OInv, FInv, TypeOK
<1>4. /\ w = c.socket /\ c'.outbox = <<>> /\ c'.socket = w /\ c'.link[w] = "open"
  BY <1>2, <1>3, OnOpenIs
<1>5. w # 0
  BY SocketsAre
<1>6. up' = [up EXCEPT ![w] = @ \o c.outbox]
  BY <1>2, <1>4, <1>5 DEF Wire
<1>7. /\ up'[w] = up[w] \o c.outbox
      /\ \A v \in Sockets : v # w => up'[v] = up[v]
  BY <1>6 DEF OInv, FInv, TypeOK
<1>8. Once(Held) /\ Below(Held, placed)
  BY DEF OInv
<1> DEFINE h == Held
           g == Held'
<1>9. /\ DOMAIN h = Places /\ 0 \in Places /\ -1 \in Places /\ 0 # -1
      /\ \A v \in Sockets : v \in Places /\ v # 0 /\ v # -1
      /\ h[0] = c.outbox /\ h[-1] = got
      /\ \A v \in Sockets : h[v] = up[v]
      /\ \A p \in Places : h[p] \in Seq(Int)
  BY HeldIs DEF OInv, FInv
<1>10. /\ DOMAIN g = Places
       /\ g[0] = c'.outbox /\ g[-1] = got'
       /\ \A v \in Sockets : g[v] = up'[v]
  BY <1>1, HeldNext DEF FInv
<1>11. \A p \in Places : p = 0 \/ p = -1 \/ p \in Sockets
  BY DEF Places
<1>12. Once(h) /\ Below(h, placed)
  BY <1>8
<1> HIDE DEF h, g
<1>13. g[w] = h[w] \o h[0] /\ g[0] = <<>> /\ \A p \in Places \ {w, 0} : g[p] = h[p]
  <2>1. g[w] = h[w] \o h[0] /\ g[0] = <<>>
    BY <1>4, <1>7, <1>9, <1>10
  <2>2. ASSUME NEW p \in Places \ {w, 0} PROVE g[p] = h[p]
    <3>1. CASE p = -1
      BY <1>2, <1>9, <1>10, <3>1
    <3>2. CASE p \in Sockets
      BY <1>7, <1>9, <1>10, <3>2
    <3> QED BY <1>11, <3>1, <3>2
  <2> QED BY <2>1, <2>2
<1>14. w \in Places /\ 0 \in Places \ {w}
  BY <1>9
<1>15. Once(g) /\ Below(g, placed)
  <2>1. Moved(g, h, Places, w, 0) /\ Holds(h, Places)
    BY <1>9, <1>10, <1>13, <1>14 DEF Moved, Holds
  <2> QED BY <1>12, <2>1, OnceMoved
<1> QED BY <1>1, <1>2, <1>15 DEF OInv, g

(* The engine takes the first of a wire.                                    *)
LEMMA ReceiveOnce == ASSUME OInv, NEW w \in Sockets, Receive(w) PROVE OInv'
<1>1. FInv'
  BY ReceiveFeeds DEF OInv
<1>2. /\ up[w] # <<>> /\ got' = Append(got, Head(up[w]))
      /\ up' = [up EXCEPT ![w] = Tail(@)]
      /\ UNCHANGED <<c, placed>>
  BY DEF Receive
<1>3. up'[w] = Tail(up[w]) /\ \A v \in Sockets : v # w => up'[v] = up[v]
  BY <1>2 DEF OInv, FInv, TypeOK
<1>4. Once(Held) /\ Below(Held, placed)
  BY DEF OInv
<1> DEFINE h == Held
           g == Held'
<1>5. /\ DOMAIN h = Places /\ 0 \in Places /\ -1 \in Places /\ 0 # -1
      /\ \A v \in Sockets : v \in Places /\ v # 0 /\ v # -1
      /\ h[0] = c.outbox /\ h[-1] = got
      /\ \A v \in Sockets : h[v] = up[v]
      /\ \A p \in Places : h[p] \in Seq(Int)
  BY HeldIs DEF OInv, FInv
<1>6. /\ DOMAIN g = Places
      /\ g[0] = c'.outbox /\ g[-1] = got'
      /\ \A v \in Sockets : g[v] = up'[v]
  BY <1>1, HeldNext DEF FInv
<1>7. \A p \in Places : p = 0 \/ p = -1 \/ p \in Sockets
  BY DEF Places
<1>8. Once(h) /\ Below(h, placed)
  BY <1>4
<1> HIDE DEF h, g
<1>9. /\ h[w] # <<>> /\ g[-1] = Append(h[-1], Head(h[w])) /\ g[w] = Tail(h[w])
      /\ \A p \in Places \ {-1, w} : g[p] = h[p]
  BY <1>2, <1>3, <1>5, <1>6, <1>7
<1>10. -1 \in Places /\ w \in Places \ {-1}
  BY <1>5
<1>11. Once(g) /\ Below(g, placed)
  <2>1. Taken(g, h, Places, -1, w) /\ Holds(h, Places)
    BY <1>5, <1>6, <1>9, <1>10 DEF Taken, Holds
  <2> QED BY <1>8, <2>1, OnceTaken
<1> QED BY <1>1, <1>2, <1>11 DEF OInv, g

(* A wire that is cut loses what was on it.                                 *)
LEMMA LostOnce ==
    ASSUME OInv, FInv', NEW w \in Sockets, c'.outbox = c.outbox,
           up' = [up EXCEPT ![w] = <<>>], got' = got, placed' = placed
    PROVE  OInv'
<1>1. up'[w] = <<>> /\ \A v \in Sockets : v # w => up'[v] = up[v]
  BY DEF OInv, FInv, TypeOK
<1>2. Once(Held) /\ Below(Held, placed)
  BY DEF OInv
<1> DEFINE h == Held
           g == Held'
<1>3. /\ DOMAIN h = Places /\ h[0] = c.outbox /\ h[-1] = got
      /\ \A v \in Sockets : h[v] = up[v]
  BY HeldIs DEF OInv, FInv
<1>4. /\ DOMAIN g = Places /\ g[0] = c'.outbox /\ g[-1] = got'
      /\ \A v \in Sockets : g[v] = up'[v]
  BY HeldNext DEF FInv
<1>5. \A p \in Places : p = 0 \/ p = -1 \/ p \in Sockets
  BY DEF Places
<1>6. Once(h) /\ Below(h, placed)
  BY <1>2
<1> HIDE DEF h, g
<1>7. DOMAIN g = DOMAIN h /\ \A p \in DOMAIN h : g[p] = h[p] \/ g[p] = <<>>
  BY <1>1, <1>3, <1>4, <1>5
<1>8. Once(g) /\ Below(g, placed)
  BY <1>6, <1>7, OnceLess
<1> QED BY <1>8 DEF OInv, g

(* Every step keeps the orders apart.                                       *)
LEMMA NextOnce == ASSUME OInv, [Next]_vars PROVE OInv'
<1>1. FInv
  BY DEF OInv
<1>2. CASE UNCHANGED vars
  <2>1. FInv'
    BY <1>1, <1>2, NextFeeds
  <2> QED BY <1>2, <2>1, HeldStays DEF vars
<1>3. CASE Effect \/ Timer \/ Watchdog \/ LateCheck \/ GoOffline \/ GoOnline
  <2>1. FInv' /\ c'.outbox = c.outbox
    BY <1>1, <1>3, EffectFeeds, TimerFeeds, WatchdogFeeds, LateCheckFeeds, OnlineFeeds
       DEF GoOffline, GoOnline
  <2>2. up' = up /\ got' = got /\ placed' = placed
    BY <1>3 DEF Effect, Timer, Watchdog, LateCheck, GoOffline, GoOnline
  <2> QED BY <2>1, <2>2, HeldStays
<1>4. ASSUME NEW w \in Sockets, Closes(w) \/ Message(w) PROVE OInv'
  <2>1. FInv' /\ c'.outbox = c.outbox
    BY <1>1, <1>4, ClosesFeeds, MessageFeeds
  <2>2. up' = up /\ got' = got /\ placed' = placed
    BY <1>4 DEF Closes, Message
  <2> QED BY <2>1, <2>2, HeldStays
<1>5. ASSUME NEW w \in Sockets, Break(w) \/ GoesHalf(w) PROVE OInv'
  <2>1. FInv' /\ c'.outbox = c.outbox
    BY <1>1, <1>5, BreakFeeds, GoesHalfFeeds
  <2>2. up' = [up EXCEPT ![w] = <<>>] /\ got' = got /\ placed' = placed
    BY <1>5 DEF Break, GoesHalf
  <2> QED BY <2>1, <2>2, LostOnce
<1>6. ASSUME NEW q \in Fills, RestingFill(q) PROVE OInv'
  <2>1. FInv' /\ UNCHANGED <<c, up, got, placed>>
    BY <1>1, <1>6, RestingFillFeeds DEF RestingFill
  <2> QED BY <2>1, HeldStays
<1> QED BY <1>2, <1>3, <1>4, <1>5, <1>6, PlaceOnce, OpensOnce, ReceiveOnce DEF Next

(* Whatever breaks, hangs or is replaced, an order is in one place at most: *)
(* the outbox, a wire or the engine, and there once.                        *)
THEOREM OrdersAreOnce == Spec => []OnceEach
<1>1. Init => OInv
  <2> SUFFICES ASSUME Init PROVE OInv
    OBVIOUS
  <2>1. FInv
    BY InitFeeds
  <2>2. \A p \in DOMAIN Held : Held[p] = <<>>
    BY DEF Init, Held
  <2> QED BY <2>1, <2>2 DEF OInv, Once, Below
<1>2. OInv => OnceEach
  BY DEF OInv, OnceEach
<1> QED BY <1>1, <1>2, NextOnce, PTL DEF Spec
=============================================================================
