-------------------------------- MODULE Venue --------------------------------
(***************************************************************************)
(* The venue process around the engine: engine/src/main.ts (the command    *)
(* log, the boot that replays it, the timers), engine/src/wire/server.ts   *)
(* (what a client's socket may do), the maker bot of engine/src/bots and   *)
(* the daily post of the state root on chain.                              *)
(*                                                                         *)
(* The process is single-threaded: a handler dispatches its commands one   *)
(* after the other and nothing else runs until it has finished.  todo is   *)
(* what it has yet to dispatch.  A dispatch is two steps, the append to    *)
(* the log and the apply, because the process may die in between.          *)
(*                                                                         *)
(* The engine (module Engine) is abstracted to what this layer looks at:   *)
(* who has an account, a balance, a position, the last nonce taken, what   *)
(* rests, how many commands were applied.  One market, one maker; prices   *)
(* decide who is liquidated, so an oracle tick names who it ruins: what a  *)
(* replay does after it has skipped or misread a line is told only of the  *)
(* part that no price decides.                                             *)
(*                                                                         *)
(* A line of the log stands for its text, and Read is what parsing makes   *)
(* of that text.  The log tags its integers as strings that begin with     *)
(* bi:, and the parser takes every string with the tag for one of them: a  *)
(* client's own id that begins so comes back as an integer, or the line    *)
(* does not parse.  Numbers are written and read back exactly.             *)
(* Left out: takers, triggers, risk readings other than the reduce-only    *)
(* mode, the tier scoring and the read-only streams.                       *)
(***************************************************************************)
EXTENDS Integers, FiniteSets, SequencesExt

CONSTANTS
    Wallets,        \* owners of client connections
    MM,             \* the maker bot
    Demo,           \* opts.demo: connecting wallets are funded
    Quotes,         \* quotes in the maker's ladder
    SignedNonces,   \* nonces wallets sign with: wall-clock milliseconds
    Given,          \* ids clients give their orders, the server's form too
    Revived,        \* for those with the tag: the integer that is read back,
                    \* or Corrupt where the text after it is not one
    MaxLog,         \* bound: lines of the log
    MaxBoots,       \* bound: times the process is started
    MaxMishaps,     \* bound: starts with --fresh and appends that fail
    MaxEpochs       \* bound: epochs settled on chain

Owners == Wallets \cup {MM}

\* what stands for a line that does not parse
Corrupt == [c |-> "corrupt"]

\* ids a start can find that no client can name: order ids are strings
Integral == {Revived[i] : i \in DOMAIN Revived} \ {Corrupt}

\* ids of orders; the server and the maker count theirs
OrderIds == (Owners \X Nat) \cup Given \cup Integral

ASSUME VenueAssumption ==
    /\ MM \notin Wallets
    /\ Demo \in BOOLEAN
    /\ Quotes \in Nat \ {0}
    /\ SignedNonces \subseteq Nat \ {0}
    /\ DOMAIN Revived \subseteq Given \ (Owners \X Nat)
    /\ Integral \cap ((Owners \X Nat) \cup Given) = {}
    /\ {MaxLog, MaxBoots, MaxMishaps, MaxEpochs} \subseteq Nat

VARIABLES
    up,        \* the process runs
    s,         \* bus.state; while the process is down, what it last was
    log,       \* the lines of the command log; Corrupt if a part of one
    torn,      \* the file of the log ends in a part of a line, without a newline
    todo,      \* commands the running handler has yet to dispatch
    written,   \* the first of them is in the log
    origin,    \* who the handler works for: "timer", "socket", "boot", "epoch"
    srv,       \* WireServer: nonces, clientOrderSeq, demoReduceOnlyMarkets
    mm,        \* MakerBot: nonce, seq, live
    epoch,     \* the epoch timer: "idle", "asking", "sending"
    pool,      \* settlements sent and not yet mined
    settled,   \* Settlement.epochs
    past       \* history the properties speak of

vars == <<up, s, log, torn, todo, written, origin, srv, mm, epoch, pool,
          settled, past>>
handler == <<todo, written, origin>>
disk == <<log, torn>>
chain == <<pool, settled>>

-----------------------------------------------------------------------------
(* The engine as this layer sees it *)

\* createEngine
Blank ==
    [seq |-> 0, open |-> FALSE, reduceOnly |-> FALSE, accounts |-> {},
     funded |-> {}, holds |-> {}, rest |-> {},
     last |-> [o \in Owners |-> -1]]

\* mutant: a nonce may be used again
TakesEqual(e, k) ==
    /\ k.nonce >= e.last[k.o]
    /\ e.open
    /\ \A r \in e.rest : r.id # k.id
    /\ k.closes => k.o \in e.holds
    /\ ~k.closes => ~e.reduceOnly /\ k.o \in e.funded

\* what placeOrder asks before it takes the nonce
Takes(e, k) ==
    /\ k.nonce > e.last[k.o]
    /\ e.open
    /\ \A r \in e.rest : r.id # k.id
    /\ k.closes => k.o \in e.holds
    /\ ~k.closes => ~e.reduceOnly /\ k.o \in e.funded

\* an IOC takes the oldest order of somebody else, if there is one
Counter(e, k) == {r \in e.rest : r.o # k.o}
Oldest(S) == CHOOSE r \in S : \A x \in S : r.at <= x.at

Placed(e, k) ==
    LET opened == [e EXCEPT !.accounts = @ \cup {k.o}]
        taken == [opened EXCEPT !.last[k.o] = k.nonce]
    IN  CASE ~Takes(e, k) -> opened
          [] Takes(e, k) /\ k.rests ->
               [taken EXCEPT
                  !.rest = @ \cup {[id |-> k.id, o |-> k.o, at |-> e.seq]}]
          [] Takes(e, k) /\ ~k.rests /\ Counter(e, k) = {} -> taken
          [] OTHER ->
               LET met == Oldest(Counter(e, k))
               IN  [taken EXCEPT
                      !.rest = @ \ {met},
                      !.holds = IF k.closes THEN @ \ {k.o}
                                ELSE @ \cup {k.o, met.o}]

\* apply: every command counts, the refused and the void ones too
Applied(e, k) ==
    LET n == [e EXCEPT !.seq = @ + 1]
    IN  CASE k.c = "deposit" -> [n EXCEPT !.accounts = @ \cup {k.o},
                                          !.funded = @ \cup {k.o}]
          [] k.c = "tier" -> [n EXCEPT !.accounts = @ \cup {k.o}]
          [] k.c = "mode" -> [n EXCEPT !.reduceOnly = k.on]
          [] k.c = "place" -> Placed(n, k)
          [] k.c = "cancel" ->
               [n EXCEPT !.rest = {r \in @ : r.id # k.id \/ r.o # k.o}]
          [] k.c = "tick" ->
               [n EXCEPT !.open = TRUE,
                         !.funded = @ \ k.ruins, !.holds = @ \ k.ruins,
                         !.rest = {r \in @ : r.o \notin k.ruins}]
          [] k.c = "epoch" -> n

\* bigintParse: what a line is read as
Read(k) ==
    CASE ~(k.c \in {"place", "cancel"} /\ k.id \in DOMAIN Revived) -> k
      [] OTHER -> IF Revived[k.id] = Corrupt THEN Corrupt
                  ELSE [k EXCEPT !.id = Revived[k.id]]

\* replayBootLog: a line that does not parse is skipped
Heard(e, k) == IF Read(k) = Corrupt THEN e ELSE Applied(e, Read(k))

\* mutant: the last line, which has no line after it, is not read
ReplayButLast(lines) == FoldLeft(Heard, Blank, Front(lines))
Replay(lines) == FoldLeft(Heard, Blank, lines)

\* stateRoot: of the resting orders only what they reserve, and no mode
Root(e) ==
    [e EXCEPT !.rest = [o \in Owners |-> Cardinality({r \in @ : r.o = o})],
              !.reduceOnly = FALSE]

-----------------------------------------------------------------------------
(* Dispatching *)

Idle == up /\ todo = <<>>

\* the handler of who starts and will dispatch ks
Dispatches(who, ks) ==
    /\ Len(log) + Len(ks) <= MaxLog
    /\ todo' = ks
    /\ origin' = who
    /\ UNCHANGED <<written, log>>
Handle(who, ks) == Dispatches(who, ks) /\ torn' = torn

\* requote counts a nonce and an id for a quote when it builds the command
Counted(k) ==
    IF k.c = "place" /\ k.o = MM
    THEN [mm EXCEPT !.nonce = @ + 1, !.seq = @ + 1] ELSE mm

\* persist: the line is appended; behind a torn line it becomes a part of it
Persist ==
    /\ up /\ todo # <<>> /\ ~written
    /\ log' = Append(log, IF torn THEN Corrupt ELSE Head(todo))
    /\ torn' = FALSE
    /\ written' = TRUE
    /\ mm' = Counted(Head(todo))
    /\ UNCHANGED <<up, s, todo, origin, srv, epoch, chain, past>>

\* the append fails, with or without a part of the line written: the process
\* dies in it, or it throws, which a timer's handler survives and no other
PersistFails ==
    /\ up /\ todo # <<>> /\ ~written
    /\ past.fresh + past.tears < MaxMishaps
    /\ torn' \in {torn, TRUE}
    /\ past' = [past EXCEPT !.tears = @ + 1]
    /\ mm' = Counted(Head(todo))
    /\ todo' = <<>>
    /\ up' \in {FALSE, origin = "timer"}
    /\ epoch' = IF up' THEN epoch ELSE "idle"
    /\ UNCHANGED <<s, log, written, origin, srv, chain>>

\* mutant: the list is emptied after the new quotes, not before them
LiveSwapped(k) ==
    CASE Len(todo) = 1 -> <<>>
      [] k.c = "place" /\ Takes(s, k) -> Append(mm.live, k.id)
      [] OTHER -> mm.live

\* what requote keeps of its quotes after the command k
LiveAfter(k) ==
    CASE k.c = "cancel" /\ (Len(todo) = 1 \/ todo[2].c # "cancel") -> <<>>
      [] k.c = "place" /\ Takes(s, k) -> Append(mm.live, k.id)
      [] OTHER -> mm.live

Stale(k) == k.c = "place" /\ k.nonce <= s.last[k.o]

\* a socket's unsigned orders that are refused for their nonce, and the nonces
\* of the signed orders that are taken
RefusedAfter(k) ==
    IF origin = "socket" /\ Stale(k) /\ ~k.signed
    THEN [past.refused EXCEPT ![k.o] = @ + 1] ELSE past.refused
SeenAfter(k) ==
    IF k.c = "place" /\ k.signed /\ Takes(s, k)
    THEN past.seen \cup {<<k.o, k.nonce>>} ELSE past.seen

\* bus.dispatch: the command is applied; the epoch timer goes on to send the
\* root it reads at once
Execute ==
    /\ up /\ todo # <<>> /\ written
    /\ LET k == Head(todo)
           fromMaker == origin = "timer" /\ k.c \in {"cancel", "place"}
       IN  /\ s' = Applied(s, k)
           /\ mm' = IF fromMaker THEN [mm EXCEPT !.live = LiveAfter(k)] ELSE mm
           /\ epoch' = IF k.c = "epoch" THEN "sending" ELSE epoch
           /\ pool' = IF k.c = "epoch"
                      THEN pool \cup {[id |-> k.id, root |-> Root(s'), seq |-> s'.seq]}
                      ELSE pool
           /\ past' = [past EXCEPT !.refused = RefusedAfter(k), !.seen = SeenAfter(k)]
    /\ todo' = Tail(todo)
    /\ written' = FALSE
    /\ UNCHANGED <<up, disk, origin, srv, settled>>

-----------------------------------------------------------------------------
(* Timers *)

\* the commands of the next ladder; POST_ONLY at prices that do not cross
Ladder == [i \in 1 .. Quotes |->
            [c |-> "place", o |-> MM, id |-> <<MM, mm.seq + i - 1>>,
             nonce |-> mm.nonce + i, rests |-> TRUE, closes |-> FALSE,
             signed |-> FALSE]]

Requote ==
    /\ Idle /\ s.open
    /\ Handle("timer", [i \in DOMAIN mm.live |->
                          [c |-> "cancel", o |-> MM, id |-> mm.live[i]]] \o Ladder)
    /\ UNCHANGED <<up, s, srv, mm, epoch, chain, past>>

\* a price arrives at which some of those who hold a position lose everything;
\* one that ruins nobody changes nothing here
OracleTick ==
    /\ Idle
    /\ \E ruins \in SUBSET s.holds \ {{}} :
         Handle("timer", <<[c |-> "tick", ruins |-> ruins]>>)
    /\ UNCHANGED <<up, s, srv, mm, epoch, chain, past>>

-----------------------------------------------------------------------------
(* What a client's socket asks for *)

\* mutants: no command at all; funds on every connection
WelcomeSilent(w) == <<>>
WelcomeAlways(w) == <<[c |-> "tier", o |-> w], [c |-> "deposit", o |-> w]>>

\* what route dispatches for a wallet that connects
Welcome(w) ==
    IF Demo /\ w \notin s.funded
    THEN <<[c |-> "tier", o |-> w], [c |-> "deposit", o |-> w]>> ELSE <<>>

\* route: the account is made outside the log
Connect(w) ==
    /\ Idle
    /\ s' = [s EXCEPT !.accounts = @ \cup {w}]
    /\ Handle("socket", Welcome(w))
    /\ UNCHANGED <<up, srv, mm, epoch, chain, past>>

\* the server's own id for an order of w, and clientOrderSeq after it
Numbered(w) == [id |-> <<w, srv.orders>>, orders |-> srv.orders + 1]

\* the client's id if it gives one, or else the server's
Naming(w) == {Numbered(w)} \cup [id : Given, orders : {srv.orders}]

\* the order the server makes for w under a name, with the server's nonce
Unsigned(w, name, rests, closes) ==
    [c |-> "place", o |-> w, id |-> name.id, nonce |-> srv.nonces[w] + 1,
     rests |-> rests, closes |-> closes, signed |-> FALSE]

\* mutant: the owner's nonce is read and not counted
DrawnNot(w, name) == [srv EXCEPT !.orders = name.orders]

\* nextNonce and clientOrderSeq after the order
Drawn(w, name) == [srv EXCEPT !.orders = name.orders, !.nonces[w] = @ + 1]

PlaceOrder(w) ==
    /\ Idle /\ w \in s.accounts
    /\ \E name \in Naming(w), rests \in BOOLEAN :
         /\ Handle("socket", <<Unsigned(w, name, rests, FALSE)>>)
         /\ srv' = Drawn(w, name)
    /\ UNCHANGED <<up, s, mm, epoch, chain, past>>

MarketClose(w) ==
    /\ Idle /\ w \in s.holds
    /\ Handle("socket", <<Unsigned(w, Numbered(w), FALSE, TRUE)>>)
    /\ srv' = Drawn(w, Numbered(w))
    /\ UNCHANGED <<up, s, mm, epoch, chain, past>>

\* place_order_signed: the nonce is the wallet's own and signed, the id is not;
\* what was signed once can arrive late, out of order, under another id and again
PlaceSigned(w) ==
    /\ Idle /\ w \in s.accounts
    /\ \E n \in SignedNonces, name \in Naming(w) :
         /\ Handle("socket", <<[c |-> "place", o |-> w, id |-> name.id,
                                nonce |-> n, rests |-> FALSE, closes |-> FALSE,
                                signed |-> TRUE]>>)
         /\ srv' = [srv EXCEPT !.orders = name.orders]
    /\ UNCHANGED <<up, s, mm, epoch, chain, past>>

\* cancel: the id is taken as a string, resting or not
Cancel(w) ==
    /\ Idle /\ w \in s.accounts
    /\ \E id \in ({r.id : r \in s.rest} \cup Given) \ Integral :
         Handle("socket", <<[c |-> "cancel", o |-> w, id |-> id]>>)
    /\ UNCHANGED <<up, s, srv, mm, epoch, chain, past>>

\* demo_reduce_only: the switch is thrown before the reading is dispatched
DemoReduceOnly ==
    /\ Idle
    /\ srv' = [srv EXCEPT !.forced = ~@]
    /\ Handle("socket", <<[c |-> "mode", on |-> srv'.forced]>>)
    /\ UNCHANGED <<up, s, mm, epoch, chain, past>>

-----------------------------------------------------------------------------
(* The epoch timer and the chain *)

AskEpoch ==
    /\ Idle /\ epoch = "idle"
    /\ epoch' = "asking"
    /\ UNCHANGED <<up, s, disk, handler, srv, mm, chain, past>>

\* lastEpochId answers; EpochClose is dispatched
EpochKnown ==
    /\ Idle /\ epoch = "asking"
    /\ Handle("epoch", <<[c |-> "epoch", id |-> Len(settled) + 1]>>)
    /\ UNCHANGED <<up, s, srv, mm, epoch, chain, past>>

\* Settlement.settleEpoch: mined in any order, also after the process died;
\* any id but the next reverts.  The awaiting timer hears of its own
Mine(tx) ==
    LET fits == tx.id = Len(settled) + 1
        awaited == up /\ epoch = "sending" /\ \A t \in pool : t.seq <= tx.seq
    IN  /\ todo = <<>>
        /\ pool' = pool \ {tx}
        /\ settled' = IF fits THEN Append(settled, [by |-> "venue", root |-> tx.root,
                                                    seq |-> tx.seq])
                      ELSE settled
        /\ epoch' = IF awaited THEN "idle" ELSE epoch
        /\ up' = (up /\ (awaited => fits))
        /\ UNCHANGED <<s, disk, handler, srv, mm, past>>

\* the call is refused or times out: the rejection is nobody's to handle and
\* ends the process; the transaction may be on its way
ChainFails ==
    /\ Idle /\ epoch # "idle"
    /\ up' = FALSE
    /\ epoch' = "idle"
    /\ UNCHANGED <<s, disk, handler, srv, mm, chain, past>>

\* run-epoch-cycle.ts settles an epoch of an engine of its own
CycleSettles ==
    /\ Len(settled) < MaxEpochs
    /\ settled' = Append(settled, [by |-> "cycle"])
    /\ UNCHANGED <<up, s, disk, handler, srv, mm, epoch, pool, past>>

-----------------------------------------------------------------------------
(* Crash and boot *)

Crash ==
    /\ up
    /\ up' = FALSE
    /\ todo' = <<>> /\ written' = FALSE /\ epoch' = "idle"
    /\ UNCHANGED <<s, disk, origin, srv, mm, chain, past>>

\* what main dispatches before a client is heard: a price if there is none, the
\* maker's funds if it has none, and the mode
BootCommands(from) ==
    (IF from.open THEN <<>> ELSE <<[c |-> "tick", ruins |-> {}]>>)
    \o (IF MM \in from.funded THEN <<>> ELSE <<[c |-> "deposit", o |-> MM]>>)
    \o <<[c |-> "mode", on |-> FALSE]>>

\* main: the log is replayed, or left alone with --fresh; on another day it
\* goes on in a new file; the server and the maker start from nothing
Boot(fresh) ==
    LET from == IF fresh THEN Blank ELSE Replay(log)
    IN  /\ ~up /\ past.boots < MaxBoots
        /\ fresh => past.fresh + past.tears < MaxMishaps
        /\ up' = TRUE
        /\ s' = from
        /\ Dispatches("boot", BootCommands(from))
        /\ torn' \in {torn, FALSE}
        /\ srv' = [orders |-> 0, nonces |-> [w \in Wallets |-> 0], forced |-> FALSE]
        /\ mm' = [nonce |-> 0, seq |-> 0, live |-> <<>>]
        /\ past' = [past EXCEPT
              !.boots = @ + 1, !.fresh = @ + (IF fresh THEN 1 ELSE 0),
              !.refused = [w \in Wallets |-> 0],
              !.start = [last |-> from.last,
                         rest |-> {r.id : r \in {q \in from.rest : q.o = MM}}]]
        /\ UNCHANGED <<epoch, chain>>

Init ==
    /\ up = FALSE /\ s = Blank
    /\ log = <<>> /\ torn = FALSE
    /\ todo = <<>> /\ written = FALSE /\ origin = "boot"
    /\ srv = [orders |-> 0, nonces |-> [w \in Wallets |-> 0], forced |-> FALSE]
    /\ mm = [nonce |-> 0, seq |-> 0, live |-> <<>>]
    /\ epoch = "idle" /\ pool = {} /\ settled = <<>>
    /\ past = [boots |-> 0, fresh |-> 0, tears |-> 0, seen |-> {},
               refused |-> [w \in Wallets |-> 0],
               start |-> [last |-> Blank.last, rest |-> {}]]

Next ==
    \/ Persist \/ PersistFails \/ Execute
    \/ Requote \/ OracleTick
    \/ \E w \in Wallets : \/ Connect(w) \/ PlaceOrder(w) \/ MarketClose(w)
                          \/ PlaceSigned(w) \/ Cancel(w)
    \/ DemoReduceOnly
    \/ AskEpoch \/ EpochKnown \/ ChainFails \/ CycleSettles
    \/ \E tx \in pool : Mine(tx)
    \/ Crash
    \/ \E fresh \in BOOLEAN : Boot(fresh)

Spec == Init /\ [][Next]_vars

-----------------------------------------------------------------------------
(* Properties *)

\* no line was appended to a part of a line, and no start left the log aside
Intact == past.fresh = 0 /\ \A i \in DOMAIN log : log[i] # Corrupt

\* every line is read as what was written
Legible == \A i \in DOMAIN log : Read(log[i]) = log[i]

Clean == Intact /\ Legible

CommandSet == [c : {"deposit", "tier"}, o : Owners] \cup [c : {"mode"}, on : BOOLEAN]
    \cup [c : {"tick"}, ruins : SUBSET Owners] \cup [c : {"epoch"}, id : Nat]
    \cup [c : {"cancel"}, o : Owners, id : OrderIds]
    \cup [c : {"place"}, o : Owners, id : OrderIds, nonce : Nat,
          rests : BOOLEAN, closes : BOOLEAN, signed : BOOLEAN]

\* Shapes of the state; and memory is never ahead of the disk: what is being
\* applied is the last line of the log, or was swallowed by a torn one.
TypeOK ==
    /\ up \in BOOLEAN /\ torn \in BOOLEAN /\ written \in BOOLEAN
    /\ \A i \in DOMAIN log : log[i] \in CommandSet \cup {Corrupt}
    /\ \A i \in DOMAIN todo : todo[i] \in CommandSet
    /\ written => todo # <<>> /\ log # <<>> /\ Last(log) \in {Head(todo), Corrupt}
    /\ s.accounts \cup s.funded \cup s.holds \subseteq Owners
    /\ s.rest \subseteq [id : OrderIds, o : Owners, at : Nat]
    /\ \A q, r \in s.rest : q.id = r.id => q = r
    /\ epoch \in {"idle", "asking", "sending"}

\* A start that replays the log finds the state the process died with, or that
\* state after the one command that was logged and not yet applied, also where
\* an append was cut short, provided every line reads back as it was written and
\* none was appended to a part of one; accounts without a command are forgotten.
Known(e) == [e EXCEPT !.accounts = {}]
Found ==
    \/ Known(s') = Known(s)
    \/ Last(log) # Corrupt /\ Known(s') = Known(Applied(s, Last(log)))
Resumes ==
    [][past'.boots > past.boots /\ Clean' /\ log # <<>> => Found]_vars

\* main.ts: "the venue can die and resume mid-day, replayable": so it is with
\* any log that is not left aside.
ResumesAlways ==
    [][past'.boots > past.boots /\ past'.fresh = 0 /\ log # <<>> => Found]_vars

\* "Anyone can later replay the engine's public command log and check the
\* posted roots" (Settlement.sol): the root of an epoch the venue settled is
\* the root after as many lines as it names, and the last is its EpochClose.
\* Without demo it fails: an account made by a connection is in no line; and
\* with it where a line does not read back as it was written.
RootReplayable ==
    Clean =>
        \A e \in DOMAIN settled :
            settled[e].by = "venue" =>
                LET n == settled[e].seq
                IN  /\ n <= Len(log)
                    /\ log[n] = [c |-> "epoch", id |-> e]
                    /\ settled[e].root = Root(Replay(SubSeq(log, 1, n)))

\* A signed order the engine took is never taken again, however often it is
\* sent, under whatever id, and however often the venue restarts in between, as
\* long as every line reads back as it was written and none was appended to a
\* part of one.
TakesSigned(k) == k.c = "place" /\ k.signed /\ Takes(s, k)
TakenBefore(k) == <<k.o, k.nonce>> \in past.seen
SignedOnce ==
    [][Execute /\ Clean /\ TakesSigned(Head(todo)) => ~TakenBefore(Head(todo))]_vars

\* Funds are handed out once, and again only to who lost them: a restart or a
\* crash between the lines of a connection funds nobody twice.
Lines(P(_)) == Cardinality({i \in DOMAIN log : P(log[i])})
FundedOnce ==
    Clean => \A o \in Owners :
        Lines(LAMBDA k : k.c = "deposit" /\ k.o = o)
            <= 1 + Lines(LAMBDA k : k.c = "tick" /\ o \in k.ruins)

\* requote cancels and replaces its whole ladder: between handlers every quote
\* that rests is one the maker knows of, or was in the book when the process
\* started; also when a requote is cut short by a failing append.
QuotesKnown ==
    Idle => \A r \in s.rest :
        r.o = MM => r.id \in ToSet(mm.live) \cup past.start.rest

\* The server's nonces start from nothing at a boot: a wallet that never
\* signed is refused for a stale nonce at most as often as it had been heard
\* before, and never in the first run.
Signers == {log[i].o : i \in {j \in DOMAIN log : log[j].c = "place" /\ log[j].signed}}
CatchesUp ==
    Clean => \A w \in Wallets \ Signers :
        past.refused[w] <= (IF past.start.last[w] > 0 THEN past.start.last[w] ELSE 0)

\* main.ts: "the venue can die and resume mid-day": a quote the maker sends
\* while it has funds and the market is open to it goes into the book, after a
\* restart too.
QuotesRest ==
    [][Execute /\ Head(todo).c = "place" /\ Head(todo).o = MM
         /\ MM \in s.funded /\ ~s.reduceOnly
       => \E r \in s'.rest : r.id = Head(todo).id]_vars
=============================================================================
