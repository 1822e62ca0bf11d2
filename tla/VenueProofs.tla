----------------------------- MODULE VenueProofs -----------------------------
(***************************************************************************)
(* The venue process, for any wallets, any number of quotes, log lines and *)
(* starts: what a replay of the log gives is the state of the process that *)
(* wrote it, and what follows from that.                                   *)
(***************************************************************************)
EXTENDS Venue, CommonLemmas

-----------------------------------------------------------------------------
(* The replay of one line more *)

\* the line that is replayed last
Latest(S) == CHOOSE x \in S : \A y \in S : x >= y

(* A nonempty finite set of integers has a largest one.                     *)
LEMMA LatestIn ==
    ASSUME NEW S, IsFiniteSet(S), S # {}, S \subseteq Int
    PROVE  Latest(S) \in S /\ \A y \in S : Latest(S) >= y
<1> DEFINE Above(x) == {y \in S : y > x}
           Bad == {Above(x) : x \in S}
<1>1. PICK T \in Bad : \A U \in Bad : U \subseteq T => U = T
  <2>1. Bad \subseteq SUBSET S /\ Bad # {}
    OBVIOUS
  <2> HIDE DEF Bad
  <2> QED BY ONLY <2>1, SmallestSubset, IsFiniteSet(S)
<1>2. PICK x \in S : T = Above(x)
  BY <1>1
<1>3. \A y \in S : x >= y
  <2> SUFFICES ASSUME NEW y \in S, y > x PROVE FALSE
    OBVIOUS
  <2>1. \A z \in S : z > y => z > x
    BY x \in Int, y \in Int
  <2>2. Above(y) \subseteq Above(x) /\ y \in Above(x)
    BY <2>1
  <2>3. y \notin Above(y)
    BY y \in Int
  <2>4. Above(y) \in Bad
    OBVIOUS
  <2> QED BY <1>1, <1>2, <2>2, <2>3, <2>4
<1> QED BY <1>3 DEF Latest

\* g is the recursive function of a replay of the lines l, over sets of lines
IsReplay(g, l, S) ==
    g = [q \in SUBSET S |->
            IF q = {} THEN Blank
            ELSE Heard(g[q \ {Latest(q)}], l[Latest(q)])]

\* the numbers of some lines
Numbers(S) == IsFiniteSet(S) /\ S \subseteq Int

(* What that function is at a set, the empty one and any other.             *)
LEMMA ReplayValues ==
    ASSUME NEW S, Numbers(S), NEW l, NEW g, IsReplay(g, l, S), NEW q \in SUBSET S
    PROVE  /\ q = {} => g[q] = Blank
           /\ q # {} => /\ Latest(q) \in q
                        /\ g[q] = Heard(g[q \ {Latest(q)}], l[Latest(q)])
<1>1. g[q] = IF q = {} THEN Blank ELSE Heard(g[q \ {Latest(q)}], l[Latest(q)])
  BY DEF IsReplay
<1>2. IsFiniteSet(q) /\ q \subseteq Int
  BY FS_Subset DEF Numbers
<1> QED BY <1>1, <1>2, LatestIn

(* It depends neither on the set it was made for nor on other lines.        *)
LEMMA ReplayUnique ==
    ASSUME NEW S, Numbers(S), NEW T \in SUBSET S, NEW l, NEW m,
           \A i \in T : l[i] = m[i],
           NEW g, IsReplay(g, l, S), NEW h, IsReplay(h, m, T)
    PROVE  \A q \in SUBSET T : g[q] = h[q]
<1> DEFINE Bad == {q \in SUBSET T : g[q] # h[q]}
<1> SUFFICES ASSUME Bad # {} PROVE FALSE
  OBVIOUS
<1>1. IsFiniteSet(T) /\ Numbers(T)
  BY FS_Subset DEF Numbers
<1>2. PICK q \in Bad : \A u \in Bad : u \subseteq q => u = q
  <2>1. Bad \subseteq SUBSET T
    OBVIOUS
  <2> HIDE DEF Bad
  <2> QED BY <1>1, <2>1, SmallestSubset
<1>3. q \in SUBSET T /\ q \in SUBSET S
  OBVIOUS
<1>4. q # {}
  BY <1>1, <1>3, ReplayValues
<1>5. /\ Latest(q) \in q
      /\ g[q] = Heard(g[q \ {Latest(q)}], l[Latest(q)])
      /\ h[q] = Heard(h[q \ {Latest(q)}], m[Latest(q)])
  <2>1. Latest(q) \in q /\ g[q] = Heard(g[q \ {Latest(q)}], l[Latest(q)])
    BY ONLY Numbers(S), IsReplay(g, l, S), <1>3, <1>4, ReplayValues
  <2>2. h[q] = Heard(h[q \ {Latest(q)}], m[Latest(q)])
    BY ONLY <1>1, IsReplay(h, m, T), <1>3, <1>4, ReplayValues
  <2> QED BY ONLY <2>1, <2>2
<1>6. q \ {Latest(q)} \notin Bad
  BY <1>2, <1>5
<1>7. g[q \ {Latest(q)}] = h[q \ {Latest(q)}]
  BY <1>3, <1>6
<1>8. l[Latest(q)] = m[Latest(q)] /\ g[q] # h[q]
  BY <1>3, <1>5
<1> QED BY ONLY <1>5, <1>7, <1>8

(* There is one.                                                            *)
LEMMA ReplayExists ==
    ASSUME NEW S, Numbers(S), NEW l
    PROVE  \E g : IsReplay(g, l, S)
<1> DEFINE Bad == {T \in SUBSET S : ~\E g : IsReplay(g, l, T)}
<1> SUFFICES ASSUME Bad # {} PROVE FALSE
  OBVIOUS
<1>1. PICK T \in Bad : \A U \in Bad : U \subseteq T => U = T
  <2>1. Bad \subseteq SUBSET S /\ IsFiniteSet(S)
    BY DEF Numbers
  <2> HIDE DEF Bad
  <2> QED BY <2>1, SmallestSubset
<1>2. T \in SUBSET S /\ Numbers(T)
  BY FS_Subset DEF Numbers
<1> DEFINE G(U) == CHOOSE g : IsReplay(g, l, U)
<1>3. ASSUME NEW U \in SUBSET T, U # T PROVE IsReplay(G(U), l, U) /\ Numbers(U)
  <2>1. \E g : IsReplay(g, l, U)
    BY <1>1, <1>3
  <2> QED BY <2>1, <1>2, FS_Subset DEF Numbers
<1> DEFINE val(q) == IF q = {} THEN Blank
                     ELSE Heard(G(q \ {Latest(q)})[q \ {Latest(q)}], l[Latest(q)])
           g == [q \in SUBSET T |-> val(q)]
<1> HIDE DEF G
<1>4. ASSUME NEW u \in SUBSET T, u # T PROVE g[u] = G(u)[u]
  <2>1. IsReplay(G(u), l, u) /\ Numbers(u) /\ u \in SUBSET u
    BY <1>3, <1>4
  <2>2. CASE u = {}
    <3>1. G(u)[u] = Blank
      BY <2>1, <2>2, ReplayValues
    <3>2. g[u] = Blank
      BY <2>2
    <3> QED BY <3>1, <3>2
  <2>3. CASE u # {}
    <3> DEFINE w == u \ {Latest(u)}
    <3>1. /\ Latest(u) \in u
          /\ G(u)[u] = Heard(G(u)[w], l[Latest(u)])
      BY <2>1, <2>3, ReplayValues
    <3>2. w \in SUBSET T /\ w # T /\ w \in SUBSET u
      BY <3>1
    <3>3. IsReplay(G(w), l, w)
      BY <3>2, <1>3
    <3>4. G(u)[w] = G(w)[w]
      BY <2>1, <3>2, <3>3, ReplayUnique
    <3>5. g[u] = Heard(G(w)[w], l[Latest(u)])
      BY <2>3
    <3> QED BY <3>1, <3>4, <3>5
  <2> QED BY <2>2, <2>3
<1>5. ASSUME NEW q \in SUBSET T
      PROVE  g[q] = IF q = {} THEN Blank
                    ELSE Heard(g[q \ {Latest(q)}], l[Latest(q)])
  <2>1. CASE q = {}
    BY <2>1
  <2>2. CASE q # {}
    <3>1. Latest(q) \in q
      BY <1>2, <2>2, FS_Subset, LatestIn DEF Numbers
    <3>2. q \ {Latest(q)} \in SUBSET T /\ q \ {Latest(q)} # T
      BY <3>1
    <3>3. g[q \ {Latest(q)}] = G(q \ {Latest(q)})[q \ {Latest(q)}]
      BY <3>2, <1>4
    <3>4. g[q] = Heard(G(q \ {Latest(q)})[q \ {Latest(q)}], l[Latest(q)])
      BY <2>2
    <3> QED BY <3>3, <3>4, <2>2
  <2> QED BY <2>1, <2>2
<1>6. g = [q \in SUBSET T |-> g[q]]
  OBVIOUS
<1>7. IsReplay(g, l, T)
  <2> HIDE DEF g
  <2> QED BY <1>5, <1>6 DEF IsReplay
<1> QED BY <1>7

(* The replay is its value at all lines.                                    *)
LEMMA ReplayDefined ==
    ASSUME NEW l, Numbers(DOMAIN l)
    PROVE  LET g == CHOOSE g : IsReplay(g, l, DOMAIN l)
           IN  IsReplay(g, l, DOMAIN l) /\ Replay(l) = g[DOMAIN l]
<1>1. IsReplay(CHOOSE g : IsReplay(g, l, DOMAIN l), l, DOMAIN l)
  BY ReplayExists
<1>2. Replay(l) = (CHOOSE g : IsReplay(g, l, DOMAIN l))[DOMAIN l]
  BY DEF Replay, FoldLeft, MapThenFoldSet, IsReplay, Latest, Max
<1> QED BY <1>1, <1>2

(* The replay of no line.                                                   *)
LEMMA ReplayNothing == Replay(<<>>) = Blank
<1> DEFINE l == <<>>
           g == CHOOSE g : IsReplay(g, l, DOMAIN l)
<1>1. DOMAIN l = {} /\ Numbers(DOMAIN l)
  BY FS_EmptySet DEF Numbers
<1>2. IsReplay(g, l, DOMAIN l) /\ Replay(l) = g[DOMAIN l]
  BY <1>1, ReplayDefined
<1> HIDE DEF g, l
<1>3. {} \in SUBSET DOMAIN l
  OBVIOUS
<1>4. g[{}] = Blank
  BY <1>1, <1>2, <1>3, ReplayValues
<1> QED BY <1>1, <1>2, <1>4 DEF l

(* The replay of a line more is what it was and that line.                  *)
LEMMA ReplayAppend ==
    ASSUME NEW X, NEW l \in Seq(X), NEW k
    PROVE  Replay(Append(l, k)) = Heard(Replay(l), k)
<1> DEFINE m == Append(l, k)
           n == Len(l)
           g == CHOOSE g : IsReplay(g, m, DOMAIN m)
           h == CHOOSE h : IsReplay(h, l, DOMAIN l)
<1>1. /\ n \in Nat /\ DOMAIN l = 1..n /\ DOMAIN m = 1..(n + 1)
      /\ m[n + 1] = k /\ \A i \in 1..n : l[i] = m[i]
  OBVIOUS
<1>2. Numbers(DOMAIN l) /\ Numbers(DOMAIN m)
  BY <1>1, FS_Interval DEF Numbers
<1>3. IsReplay(g, m, DOMAIN m) /\ Replay(m) = g[DOMAIN m]
  BY <1>2, ReplayDefined
<1>4. IsReplay(h, l, DOMAIN l) /\ Replay(l) = h[DOMAIN l]
  BY <1>2, ReplayDefined
<1> HIDE DEF g, h, m
<1>5. Latest(DOMAIN m) = n + 1 /\ DOMAIN m # {}
  <2>1. Latest(DOMAIN m) \in DOMAIN m /\ \A y \in DOMAIN m : Latest(DOMAIN m) >= y
    <3>1. n + 1 \in DOMAIN m
      BY <1>1
    <3> QED BY <1>2, <3>1, LatestIn DEF Numbers
  <2> QED BY <1>1, <2>1
<1>6. g[DOMAIN m] = Heard(g[DOMAIN m \ {n + 1}], m[n + 1])
  BY <1>2, <1>3, <1>5, ReplayValues
<1>7. DOMAIN m \ {n + 1} = DOMAIN l /\ DOMAIN l \in SUBSET DOMAIN m
  BY <1>1
<1>8. g[DOMAIN l] = h[DOMAIN l]
  BY <1>1, <1>2, <1>3, <1>4, <1>7, ReplayUnique
<1> QED BY <1>1, <1>3, <1>4, <1>6, <1>7, <1>8 DEF m
-----------------------------------------------------------------------------
(* What a command does to the state of the engine *)

\* the states of the engine as the venue sees it
Resting == [id : OrderIds, o : Owners, at : Nat]
Engines == [seq : Nat, open : BOOLEAN, reduceOnly : BOOLEAN,
            accounts : SUBSET Owners, funded : SUBSET Owners,
            holds : SUBSET Owners, rest : SUBSET Resting, last : [Owners -> Int]]
OneEach(S) == \A q, r : q \in S /\ r \in S /\ q.id = r.id => q = r
State(e) == e \in Engines /\ IsFiniteSet(e.rest) /\ OneEach(e.rest)

\* the maker's orders that rest
Quoting(e) == {r.id : r \in {q \in e.rest : q.o = MM}}

(* The ids that are counted, that clients give and that a start finds.      *)
LEMMA IdsAre ==
    /\ \A o \in Owners, n \in Nat : <<o, n>> \in OrderIds
    /\ Given \subseteq OrderIds /\ Integral \subseteq OrderIds
BY DEF OrderIds

(* Of finitely many resting orders one is the oldest.                       *)
LEMMA OldestIn ==
    ASSUME NEW S, IsFiniteSet(S), S # {}, S \subseteq Resting
    PROVE  Oldest(S) \in S
<1> DEFINE Below(x) == {y \in S : y.at < x.at}
           Bad == {Below(x) : x \in S}
<1>1. PICK T \in Bad : \A U \in Bad : U \subseteq T => U = T
  <2>1. Bad \subseteq SUBSET S /\ Bad # {}
    OBVIOUS
  <2> HIDE DEF Bad
  <2> QED BY ONLY <2>1, SmallestSubset, IsFiniteSet(S)
<1>2. PICK x \in S : T = Below(x)
  BY <1>1
<1>3. \A y \in S : y.at \in Int
  BY DEF Resting
<1>4. \A y \in S : x.at <= y.at
  <2> SUFFICES ASSUME NEW y \in S, y.at < x.at PROVE FALSE
    BY <1>3
  <2>1. \A z \in S : z.at < y.at => z.at < x.at
    BY <1>3
  <2>2. Below(y) \subseteq Below(x) /\ y \in Below(x)
    BY <2>1
  <2>3. y \notin Below(y)
    BY <1>3
  <2>4. Below(y) \in Bad
    OBVIOUS
  <2> QED BY <1>1, <1>2, <2>2, <2>3, <2>4
<1> QED BY <1>4 DEF Oldest

\* of an order that is taken: whether it meets one that rests, and which
Meets(e, k) == k.c = "place" /\ Takes(e, k) /\ ~k.rests /\ Counter(e, k) # {}
Met(e, k) == Oldest(Counter(e, k))

(* A resting order that is met is one of somebody else.                     *)
LEMMA MetIs ==
    ASSUME NEW e, State(e), NEW k, Meets(e, k)
    PROVE  Met(e, k) \in e.rest /\ Met(e, k).o # k.o /\ Met(e, k).o \in Owners
<1>1. Counter(e, k) \subseteq e.rest /\ e.rest \subseteq Resting /\ IsFiniteSet(e.rest)
  BY DEF Counter, State, Engines
<1>2. IsFiniteSet(Counter(e, k)) /\ Counter(e, k) # {} /\ Counter(e, k) \subseteq Resting
  BY <1>1, FS_Subset DEF Meets
<1>3. Met(e, k) \in Counter(e, k)
  BY <1>2, OldestIn DEF Met
<1> QED BY <1>1, <1>3 DEF Counter, Resting

\* the parts of the state after a command
RestAfter(e, k) ==
    CASE k.c = "place" /\ Takes(e, k) /\ k.rests
            -> e.rest \cup {[id |-> k.id, o |-> k.o, at |-> e.seq + 1]}
      [] Meets(e, k) -> e.rest \ {Met(e, k)}
      [] k.c = "cancel" -> {r \in e.rest : r.id # k.id \/ r.o # k.o}
      [] k.c = "tick" -> {r \in e.rest : r.o \notin k.ruins}
      [] OTHER -> e.rest
HoldsAfter(e, k) ==
    CASE Meets(e, k) -> IF k.closes THEN e.holds \ {k.o}
                        ELSE e.holds \cup {k.o, Met(e, k).o}
      [] k.c = "tick" -> e.holds \ k.ruins
      [] OTHER -> e.holds
FundedAfter(e, k) ==
    CASE k.c = "deposit" -> e.funded \cup {k.o}
      [] k.c = "tick" -> e.funded \ k.ruins
      [] OTHER -> e.funded
LastAfter(e, k) ==
    IF k.c = "place" /\ Takes(e, k) THEN [e.last EXCEPT ![k.o] = k.nonce] ELSE e.last
AccountsAfter(A, k) == IF k.c \in {"deposit", "tier", "place"} THEN A \cup {k.o} ELSE A

\* the kinds of commands and their fields
IsCommand(k) ==
    \/ k.c \in {"deposit", "tier"} /\ k.o \in Owners
    \/ k.c = "mode" /\ k.on \in BOOLEAN
    \/ k.c = "tick" /\ k.ruins \subseteq Owners
    \/ k.c = "epoch" /\ k.id \in Nat
    \/ k.c = "cancel" /\ k.o \in Owners /\ k.id \in OrderIds
    \/ /\ k.c = "place" /\ k.o \in Owners /\ k.id \in OrderIds /\ k.nonce \in Nat
       /\ k.rests \in BOOLEAN /\ k.closes \in BOOLEAN /\ k.signed \in BOOLEAN

(* Every command is of one of these kinds, and none is an unreadable line.  *)
LEMMA Kinds == ASSUME NEW k \in CommandSet PROVE IsCommand(k) /\ k # Corrupt
<1>1. IsCommand(k)
  BY DEF CommandSet, IsCommand
<1> QED BY <1>1 DEF IsCommand, Corrupt

(* What placing an order leaves.                                            *)
LEMMA PlacedIs ==
    ASSUME NEW e, State(e), NEW k, IsCommand(k), k.c = "place",
           NEW n, n = [e EXCEPT !.seq = @ + 1]
    PROVE  Placed(n, k) = [seq |-> e.seq + 1, open |-> e.open,
                           reduceOnly |-> e.reduceOnly,
                           accounts |-> e.accounts \cup {k.o}, funded |-> e.funded,
                           holds |-> HoldsAfter(e, k), rest |-> RestAfter(e, k),
                           last |-> LastAfter(e, k)]
<1> DEFINE opened == [n EXCEPT !.accounts = @ \cup {k.o}]
           taken == [opened EXCEPT !.last[k.o] = k.nonce]
<1>1. /\ n = [seq |-> e.seq + 1, open |-> e.open, reduceOnly |-> e.reduceOnly,
              accounts |-> e.accounts, funded |-> e.funded, holds |-> e.holds,
              rest |-> e.rest, last |-> e.last]
  BY DEF State, Engines
<1>2. opened = [seq |-> e.seq + 1, open |-> e.open, reduceOnly |-> e.reduceOnly,
                accounts |-> e.accounts \cup {k.o}, funded |-> e.funded,
                holds |-> e.holds, rest |-> e.rest, last |-> e.last]
  BY ONLY <1>1
<1>3. taken = [seq |-> e.seq + 1, open |-> e.open, reduceOnly |-> e.reduceOnly,
               accounts |-> e.accounts \cup {k.o}, funded |-> e.funded,
               holds |-> e.holds, rest |-> e.rest,
               last |-> [e.last EXCEPT ![k.o] = k.nonce]]
  <2>1. opened.last = e.last
    BY <1>2
  <2>2. taken = [opened EXCEPT !.last = [@ EXCEPT ![k.o] = k.nonce]]
    OBVIOUS
  <2> HIDE DEF opened, taken
  <2> QED BY ONLY <1>2, <2>1, <2>2
<1>4. (Takes(n, k) <=> Takes(e, k)) /\ Counter(n, k) = Counter(e, k) /\ n.seq = e.seq + 1
  BY <1>1 DEF Takes, Counter
<1> HIDE DEF opened, taken
<1>5. CASE ~Takes(e, k)
  <2>1. Placed(n, k) = opened
    BY ONLY <1>4, <1>5 DEF Placed, opened
  <2>2. RestAfter(e, k) = e.rest /\ HoldsAfter(e, k) = e.holds /\ LastAfter(e, k) = e.last
    BY <1>5 DEF RestAfter, HoldsAfter, LastAfter, Meets
  <2> QED BY <1>2, <2>1, <2>2
<1>6. CASE Takes(e, k) /\ k.rests
  <2>1. Placed(n, k) = [taken EXCEPT !.rest = @ \cup {[id |-> k.id, o |-> k.o, at |-> n.seq]}]
    BY <1>4, <1>6 DEF Placed, taken, opened
  <2>2. /\ RestAfter(e, k) = e.rest \cup {[id |-> k.id, o |-> k.o, at |-> e.seq + 1]}
        /\ HoldsAfter(e, k) = e.holds
        /\ LastAfter(e, k) = [e.last EXCEPT ![k.o] = k.nonce]
    BY <1>6 DEF RestAfter, HoldsAfter, LastAfter, Meets
  <2> QED BY <1>3, <1>4, <2>1, <2>2
<1>7. CASE Takes(e, k) /\ ~k.rests /\ Counter(e, k) = {}
  <2>1. Placed(n, k) = taken
    BY <1>4, <1>7 DEF Placed, taken, opened
  <2>2. /\ RestAfter(e, k) = e.rest /\ HoldsAfter(e, k) = e.holds
        /\ LastAfter(e, k) = [e.last EXCEPT ![k.o] = k.nonce]
    BY <1>7 DEF RestAfter, HoldsAfter, LastAfter, Meets
  <2> QED BY <1>3, <2>1, <2>2
<1>8. CASE Takes(e, k) /\ ~k.rests /\ Counter(e, k) # {}
  <2> DEFINE met == Met(e, k)
  <2>1. Placed(n, k) = [taken EXCEPT !.rest = @ \ {met},
                           !.holds = IF k.closes THEN @ \ {k.o}
                                     ELSE @ \cup {k.o, met.o}]
    BY <1>4, <1>8 DEF Placed, taken, opened, Met
  <2>2. /\ RestAfter(e, k) = e.rest \ {met}
        /\ HoldsAfter(e, k) = IF k.closes THEN e.holds \ {k.o}
                              ELSE e.holds \cup {k.o, met.o}
        /\ LastAfter(e, k) = [e.last EXCEPT ![k.o] = k.nonce]
    BY <1>8 DEF RestAfter, HoldsAfter, LastAfter, Meets
  <2> HIDE DEF met
  <2> QED BY <1>3, <2>1, <2>2
<1> QED BY <1>5, <1>6, <1>7, <1>8

(* What a command leaves.                                                   *)
LEMMA AppliedIs ==
    ASSUME NEW e, State(e), NEW k, IsCommand(k)
    PROVE  Applied(e, k) =
              [seq |-> e.seq + 1,
               open |-> e.open \/ k.c = "tick",
               reduceOnly |-> IF k.c = "mode" THEN k.on ELSE e.reduceOnly,
               accounts |-> AccountsAfter(e.accounts, k), funded |-> FundedAfter(e, k),
               holds |-> HoldsAfter(e, k), rest |-> RestAfter(e, k),
               last |-> LastAfter(e, k)]
<1> DEFINE n == [e EXCEPT !.seq = @ + 1]
<1>1. /\ n = [seq |-> e.seq + 1, open |-> e.open, reduceOnly |-> e.reduceOnly,
              accounts |-> e.accounts, funded |-> e.funded, holds |-> e.holds,
              rest |-> e.rest, last |-> e.last]
      /\ e.open \in BOOLEAN
  BY DEF State, Engines
<1>2. CASE k.c = "place"
  <2>1. Applied(e, k) = Placed(n, k)
    BY <1>2 DEF Applied
  <2>2. AccountsAfter(e.accounts, k) = e.accounts \cup {k.o} /\ FundedAfter(e, k) = e.funded
    BY <1>2 DEF AccountsAfter, FundedAfter
  <2> HIDE DEF n
  <2>3. Placed(n, k) = [seq |-> e.seq + 1, open |-> e.open, reduceOnly |-> e.reduceOnly,
                        accounts |-> e.accounts \cup {k.o}, funded |-> e.funded,
                        holds |-> HoldsAfter(e, k), rest |-> RestAfter(e, k),
                        last |-> LastAfter(e, k)]
    BY <1>2, PlacedIs DEF n
  <2>4. (e.open \/ k.c = "tick") = e.open
    BY <1>1, <1>2
  <2> QED BY <1>2, <2>1, <2>2, <2>3, <2>4
<1>3. CASE k.c # "place"
  <2>1. ~Meets(e, k) /\ LastAfter(e, k) = e.last
    BY <1>3 DEF Meets, LastAfter
  <2>2. CASE k.c \in {"deposit", "tier"}
    BY <1>1, <1>3, <2>1, <2>2
       DEF Applied, AccountsAfter, FundedAfter, HoldsAfter, RestAfter
  <2>3. CASE k.c = "mode"
    BY <1>1, <1>3, <2>1, <2>3
       DEF Applied, AccountsAfter, FundedAfter, HoldsAfter, RestAfter
  <2>4. CASE k.c = "tick"
    BY <1>1, <1>3, <2>1, <2>4
       DEF Applied, AccountsAfter, FundedAfter, HoldsAfter, RestAfter
  <2>5. CASE k.c = "epoch"
    BY <1>1, <1>3, <2>1, <2>5
       DEF Applied, AccountsAfter, FundedAfter, HoldsAfter, RestAfter
  <2>6. CASE k.c = "cancel"
    BY <1>1, <1>3, <2>1, <2>6
       DEF Applied, AccountsAfter, FundedAfter, HoldsAfter, RestAfter
  <2> QED BY <1>3, <2>2, <2>3, <2>4, <2>5, <2>6 DEF IsCommand
<1> QED BY <1>2, <1>3

(* It is a state of the engine.                                             *)
LEMMA AppliedState ==
    ASSUME NEW e, State(e), NEW k, IsCommand(k)
    PROVE  State(Applied(e, k))
<1>1. /\ e \in Engines /\ IsFiniteSet(e.rest) /\ OneEach(e.rest)
      /\ e.rest \subseteq Resting /\ e.seq \in Nat
  BY DEF State, Engines
<1>2. Meets(e, k) => Met(e, k) \in e.rest /\ Met(e, k).o \in Owners
  BY MetIs
<1>3. \/ RestAfter(e, k) \subseteq e.rest
      \/ /\ k.c = "place" /\ Takes(e, k)
         /\ RestAfter(e, k) = e.rest \cup {[id |-> k.id, o |-> k.o, at |-> e.seq + 1]}
  BY DEF RestAfter
<1>4. RestAfter(e, k) \in SUBSET Resting /\ IsFiniteSet(RestAfter(e, k))
  <2>1. CASE RestAfter(e, k) \subseteq e.rest
    BY <1>1, <2>1, FS_Subset
  <2>2. CASE /\ k.c = "place" /\ Takes(e, k)
             /\ RestAfter(e, k) = e.rest \cup {[id |-> k.id, o |-> k.o, at |-> e.seq + 1]}
    <3>1. [id |-> k.id, o |-> k.o, at |-> e.seq + 1] \in Resting
      BY <1>1, <2>2 DEF IsCommand, Resting
    <3>2. IsFiniteSet(e.rest \cup {[id |-> k.id, o |-> k.o, at |-> e.seq + 1]})
      BY <1>1, FS_AddElement
    <3> QED BY <1>1, <2>2, <3>1, <3>2
  <2> QED BY <1>3, <2>1, <2>2
<1>5. OneEach(RestAfter(e, k))
  <2>1. CASE RestAfter(e, k) \subseteq e.rest
    BY <1>1, <2>1 DEF OneEach
  <2>2. CASE /\ k.c = "place" /\ Takes(e, k)
             /\ RestAfter(e, k) = e.rest \cup {[id |-> k.id, o |-> k.o, at |-> e.seq + 1]}
    <3>1. \A r \in e.rest : r.id # k.id
      BY <2>2 DEF Takes
    <3> QED BY <1>1, <2>2, <3>1 DEF OneEach
  <2> QED BY <1>3, <2>1, <2>2
<1>6. AccountsAfter(e.accounts, k) \in SUBSET Owners /\ FundedAfter(e, k) \in SUBSET Owners
  BY <1>1 DEF AccountsAfter, FundedAfter, IsCommand, Engines
<1>7. HoldsAfter(e, k) \in SUBSET Owners
  <2>1. CASE Meets(e, k)
    <3>1. k.o \in Owners
      BY <2>1 DEF Meets, IsCommand
    <3>2. e.holds \in SUBSET Owners
      BY <1>1 DEF Engines
    <3>3. HoldsAfter(e, k) = IF k.closes THEN e.holds \ {k.o}
                             ELSE e.holds \cup {k.o, Met(e, k).o}
      BY <2>1 DEF HoldsAfter, Meets
    <3> QED BY <1>2, <2>1, <3>1, <3>2, <3>3
  <2>2. CASE ~Meets(e, k)
    BY <1>1, <2>2 DEF HoldsAfter, Engines
  <2> QED BY <2>1, <2>2
<1>8. LastAfter(e, k) \in [Owners -> Int]
  BY <1>1 DEF LastAfter, IsCommand, Engines
<1>9. /\ (e.open \/ k.c = "tick") \in BOOLEAN /\ e.seq + 1 \in Nat
      /\ (IF k.c = "mode" THEN k.on ELSE e.reduceOnly) \in BOOLEAN
  BY <1>1 DEF Engines, IsCommand
<1> DEFINE r == Applied(e, k)
<1>10. /\ r.rest = RestAfter(e, k)
       /\ r \in [seq : Nat, open : BOOLEAN, reduceOnly : BOOLEAN,
                 accounts : SUBSET Owners, funded : SUBSET Owners,
                 holds : SUBSET Owners, rest : SUBSET Resting, last : [Owners -> Int]]
  <2>1. r = [seq |-> e.seq + 1, open |-> e.open \/ k.c = "tick",
             reduceOnly |-> IF k.c = "mode" THEN k.on ELSE e.reduceOnly,
             accounts |-> AccountsAfter(e.accounts, k), funded |-> FundedAfter(e, k),
             holds |-> HoldsAfter(e, k), rest |-> RestAfter(e, k),
             last |-> LastAfter(e, k)]
    BY AppliedIs
  <2> HIDE DEF r
  <2> QED BY ONLY <2>1, <1>4, <1>6, <1>7, <1>8, <1>9
<1> QED BY <1>4, <1>5, <1>10 DEF State, Engines
-----------------------------------------------------------------------------
(* Types, and what a replay makes of them *)

\* the lines of the log, the roots and what is on chain
LogLines == CommandSet \cup {Corrupt}
Roots == {Root(e) : e \in Engines}
Sent == [id : Nat, root : Roots, seq : Nat]
Settlements == [by : {"venue"}, root : Roots, seq : Nat] \cup [by : {"cycle"}]

\* what the process and its bots keep, and what the properties speak of
Server == [orders : Nat, nonces : [Wallets -> Nat], forced : BOOLEAN]
Maker == [nonce : Nat, seq : Nat, live : Seq(OrderIds)]
Past == [boots : Nat, fresh : Nat, tears : Nat, seen : SUBSET (Owners \X Nat),
         refused : [Wallets -> Nat],
         start : [last : [Owners -> Int], rest : SUBSET OrderIds]]

\* the lines whose commands have been applied
Prior == IF written THEN Front(log) ELSE log

Disk == /\ log \in Seq(LogLines) /\ torn \in BOOLEAN /\ written \in BOOLEAN
        /\ State(Replay(log)) /\ State(Replay(Prior))
Process == /\ up \in BOOLEAN /\ State(s) /\ todo \in Seq(CommandSet)
           /\ srv \in Server /\ mm \in Maker /\ past \in Past
           /\ epoch \in {"idle", "asking", "sending"}
           /\ written => todo # <<>> /\ log # <<>> /\ Last(log) \in {Head(todo), Corrupt}
           /\ ~up => todo = <<>>
Chain == pool \in SUBSET Sent /\ settled \in Seq(Settlements)

(* The inductive invariant of the types. *)
TInv == Disk /\ Process /\ Chain

(* The engine a replay begins with.                                         *)
LEMMA BlankState == State(Blank)
<1>1. IsFiniteSet({}) /\ OneEach({})
  BY FS_EmptySet DEF OneEach
<1>2. Blank \in Engines
  BY DEF Blank, Engines
<1> QED BY <1>1, <1>2 DEF State, Blank

(* A sequence that is not empty is its front and its last element.          *)
LEMMA FrontLast ==
    ASSUME NEW X, NEW l \in Seq(X), l # <<>>
    PROVE  /\ Front(l) \in Seq(X) /\ Last(l) \in X /\ l = Append(Front(l), Last(l))
           /\ Len(Front(l)) = Len(l) - 1 /\ Len(l) \in Nat \ {0}
<1>1. Len(l) \in Nat \ {0} /\ l[Len(l)] \in X
  BY ElementOfSeq
<1>2. /\ Front(l) = SubSeq(l, 1, Len(l) - 1) /\ Last(l) = l[Len(l)]
  BY DEF Front, Last
<1>3. /\ SubSeq(l, 1, Len(l) - 1) \in Seq(X)
      /\ Len(SubSeq(l, 1, Len(l) - 1)) = Len(l) - 1
      /\ \A i \in 1 .. (Len(l) - 1) : SubSeq(l, 1, Len(l) - 1)[i] = l[i]
  <2> DEFINE n == Len(l) - 1
  <2>1. n \in Int /\ 1 \in Int /\ n >= 0 /\ \A i \in 1 .. n : l[i] \in X
    BY <1>1, ElementOfSeq
  <2> HIDE DEF n
  <2>2. /\ SubSeq(l, 1, n) \in Seq(X)
        /\ Len(SubSeq(l, 1, n)) = IF 1 <= n THEN n - 1 + 1 ELSE 0
        /\ \A i \in 1 .. (n - 1 + 1) : SubSeq(l, 1, n)[i] = l[1 + i - 1]
    BY ONLY <2>1, SubSeqProperties
  <2>3. /\ Len(SubSeq(l, 1, n)) = n
        /\ \A i \in 1 .. n : SubSeq(l, 1, n)[i] = l[i]
    BY <2>1, <2>2
  <2> QED BY <2>2, <2>3 DEF n
<1>4. l = Append(SubSeq(l, 1, Len(l) - 1), l[Len(l)])
  <2> DEFINE f == SubSeq(l, 1, Len(l) - 1)
             x == l[Len(l)]
  <2> HIDE DEF f, x
  <2>1. f \in Seq(X) /\ Len(f) = Len(l) - 1 /\ x \in X
        /\ \A i \in 1 .. (Len(l) - 1) : f[i] = l[i]
    BY <1>1, <1>3 DEF f, x
  <2>2. /\ Append(f, x) \in Seq(X) /\ Len(Append(f, x)) = Len(l)
        /\ Append(f, x)[Len(l)] = x
        /\ \A i \in 1 .. (Len(l) - 1) : Append(f, x)[i] = f[i]
    BY <1>1, <2>1
  <2>3. \A i \in 1 .. Len(l) : l[i] = Append(f, x)[i]
    BY <1>1, <2>1, <2>2 DEF x
  <2>4. l = Append(f, x)
    BY ONLY l \in Seq(X), <2>2, <2>3, SeqEqual
  <2> QED BY <2>4 DEF f, x
<1> QED BY <1>1, <1>2, <1>3, <1>4

(* What appending to a sequence does to its front and its last element.     *)
LEMMA FrontAppend ==
    ASSUME NEW X, NEW l \in Seq(X), NEW k \in X
    PROVE  /\ Front(Append(l, k)) = l /\ Last(Append(l, k)) = k
           /\ Append(l, k) \in Seq(X) /\ Append(l, k) # <<>>
<1> DEFINE m == Append(l, k)
<1>1. m \in Seq(X) /\ Len(m) = Len(l) + 1 /\ m[Len(l) + 1] = k /\ Len(l) \in Nat
  OBVIOUS
<1>2. SubSeq(m, 1, Len(l)) = l
  OBVIOUS
<1>3. m # <<>>
  BY ONLY <1>1, Len(<<>>) = 0
<1> HIDE DEF m
<1>4. Front(m) = l
  BY <1>1, <1>2 DEF Front
<1>5. Last(m) = k
  BY <1>1 DEF Last
<1> QED BY <1>1, <1>3, <1>4, <1>5 DEF m

(* What is read of a command is a command or is not read.                   *)
LEMMA ReadIs ==
    ASSUME NEW k \in CommandSet
    PROVE  Read(k) = Corrupt \/ Read(k) \in CommandSet
<1>1. CASE ~(k.c \in {"place", "cancel"} /\ k.id \in DOMAIN Revived)
  BY <1>1 DEF Read
<1>2. CASE /\ k.c \in {"place", "cancel"} /\ k.id \in DOMAIN Revived
           /\ Revived[k.id] # Corrupt
  <2> DEFINE i == Revived[k.id]
  <2>1. Read(k) = [k EXCEPT !.id = i]
    BY <1>2 DEF Read
  <2>2. i \in OrderIds
    BY <1>2, IdsAre DEF Integral
  <2> HIDE DEF i
  <2>3. CASE k.c = "cancel"
    <3>1. k \in [c : {"cancel"}, o : Owners, id : OrderIds]
      BY <2>3 DEF CommandSet
    <3>2. [k EXCEPT !.id = i] \in [c : {"cancel"}, o : Owners, id : OrderIds]
      BY ONLY <3>1, <2>2
    <3> QED BY <2>1, <3>2 DEF CommandSet
  <2>4. CASE k.c = "place"
    <3> DEFINE Places == [c : {"place"}, o : Owners, id : OrderIds, nonce : Nat,
                          rests : BOOLEAN, closes : BOOLEAN, signed : BOOLEAN]
    <3>1. k \in Places
      BY <2>4 DEF CommandSet
    <3>2. [k EXCEPT !.id = i] \in Places
      BY ONLY <3>1, <2>2
    <3> QED BY <2>1, <3>2 DEF CommandSet
  <2> QED BY <1>2, <2>3, <2>4
<1>3. CASE /\ k.c \in {"place", "cancel"} /\ k.id \in DOMAIN Revived
           /\ Revived[k.id] = Corrupt
  BY <1>3 DEF Read
<1> QED BY <1>1, <1>2, <1>3

(* A line that is torn, or does not parse, is not replayed.                 *)
LEMMA ReadCorrupt == Read(Corrupt) = Corrupt
BY DEF Read, Corrupt

(* Every line keeps the replay a state of the engine.                       *)
LEMMA HeardState ==
    ASSUME NEW e, State(e), NEW k \in LogLines
    PROVE  State(Heard(e, k))
<1>1. CASE Read(k) = Corrupt
  BY <1>1 DEF Heard
<1>2. CASE Read(k) # Corrupt
  <2>1. k \in CommandSet
    BY <1>2, ReadCorrupt DEF LogLines
  <2>2. IsCommand(Read(k))
    BY <1>2, <2>1, ReadIs, Kinds
  <2> QED BY <1>2, <2>2, AppliedState DEF Heard
<1> QED BY <1>1, <1>2

(* A command that is read as it was written is applied by a replay.         *)
LEMMA HeardApplies ==
    ASSUME NEW e, NEW k \in CommandSet, Read(k) = k
    PROVE  Heard(e, k) = Applied(e, k)
BY Kinds DEF Heard

(* The line that is being applied is the last one replayed.                 *)
LEMMA ReplayWritten ==
    ASSUME TInv, written
    PROVE  /\ Prior = Front(log) /\ Prior \in Seq(LogLines) /\ Last(log) \in LogLines
           /\ log = Append(Prior, Last(log))
           /\ Replay(log) = Heard(Replay(Prior), Last(log))
<1>1. log \in Seq(LogLines) /\ log # <<>> /\ Prior = Front(log)
  BY DEF TInv, Disk, Process, Prior
<1>2. /\ Front(log) \in Seq(LogLines) /\ Last(log) \in LogLines
      /\ log = Append(Front(log), Last(log))
  BY <1>1, FrontLast
<1>3. Replay(Append(Front(log), Last(log))) = Heard(Replay(Front(log)), Last(log))
  BY <1>2, ReplayAppend
<1> QED BY <1>1, <1>2, <1>3

\* a handler starts with a list of commands; a connection makes an account
Begins ==
    /\ Idle /\ ~written /\ todo' \in Seq(CommandSet)
    /\ UNCHANGED <<up, written, disk, chain, mm, past>>
    /\ srv' \in Server /\ epoch' = epoch
    /\ \/ s' = s
       \/ \E w \in Wallets : s' = [s EXCEPT !.accounts = @ \cup {w}]

\* nothing is begun, logged or applied; the process may end between handlers
Stays ==
    /\ UNCHANGED <<s, disk, handler, srv, mm, past>>
    /\ up' = up \/ (up' = FALSE /\ todo = <<>>)
    /\ epoch' \in {"idle", "asking", "sending"}

(* The commands of the handlers.                                            *)
LEMMA CommandsAre ==
    /\ \A o \in Owners : /\ [c |-> "tier", o |-> o] \in CommandSet
                         /\ [c |-> "deposit", o |-> o] \in CommandSet
    /\ \A on \in BOOLEAN : [c |-> "mode", on |-> on] \in CommandSet
    /\ \A R \in SUBSET Owners : [c |-> "tick", ruins |-> R] \in CommandSet
    /\ \A i \in Nat : [c |-> "epoch", id |-> i] \in CommandSet
    /\ \A o \in Owners, i \in OrderIds :
          [c |-> "cancel", o |-> o, id |-> i] \in CommandSet
    /\ \A o \in Owners, i \in OrderIds, n \in Nat, r, t, g \in BOOLEAN :
          [c |-> "place", o |-> o, id |-> i, nonce |-> n, rests |-> r, closes |-> t,
           signed |-> g] \in CommandSet
BY DEF CommandSet

(* Wallets and the maker own accounts.                                      *)
LEMMA OwnersAre == MM \in Owners /\ Wallets \subseteq Owners /\ MM \notin Wallets
BY VenueAssumption DEF Owners

(* A list of one command is a list of commands.                             *)
LEMMA OneLine == \A X : \A x \in X : <<x>> \in Seq(X)
OBVIOUS

\* the cancels of a requote
Cancels == [i \in DOMAIN mm.live |-> [c |-> "cancel", o |-> MM, id |-> mm.live[i]]]

(* A requote cancels what it knows of, then places a ladder.                *)
LEMMA LadderLists ==
    ASSUME TInv
    PROVE  Cancels \in Seq(CommandSet) /\ Ladder \in Seq(CommandSet)
<1>1. mm.live \in Seq(OrderIds) /\ mm.nonce \in Nat /\ mm.seq \in Nat
  BY DEF TInv, Process, Maker
<1>2. Cancels \in Seq(CommandSet)
  <2>1. /\ Len(mm.live) \in Nat /\ DOMAIN mm.live = 1 .. Len(mm.live)
        /\ \A i \in 1 .. Len(mm.live) : mm.live[i] \in OrderIds
    BY <1>1, LenProperties, ElementOfSeq
  <2>2. \A i \in 1 .. Len(mm.live) :
           [c |-> "cancel", o |-> MM, id |-> mm.live[i]] \in CommandSet
    BY <2>1, OwnersAre, CommandsAre
  <2> QED BY <2>1, <2>2 DEF Cancels
<1>3. Ladder \in Seq(CommandSet)
  <2>1. Quotes \in Nat
    BY VenueAssumption
  <2>2. \A i \in 1 .. Quotes :
           /\ <<MM, mm.seq + i - 1>> \in OrderIds /\ mm.nonce + i \in Nat
    <3>1. \A i \in 1 .. Quotes : mm.seq + i - 1 \in Nat /\ mm.nonce + i \in Nat
      BY <1>1, <2>1
    <3> QED BY <3>1, OwnersAre, IdsAre
  <2>3. \A i \in 1 .. Quotes :
           [c |-> "place", o |-> MM, id |-> <<MM, mm.seq + i - 1>>,
            nonce |-> mm.nonce + i, rests |-> TRUE, closes |-> FALSE,
            signed |-> FALSE] \in CommandSet
    BY <2>2, OwnersAre, CommandsAre
  <2> QED BY <2>1, <2>3 DEF Ladder
<1> QED BY <1>2, <1>3

(* Every handler that starts does so between handlers.                      *)
LEMMA RequoteBegins == ASSUME TInv, Requote PROVE Begins
<1>1. todo = <<>> /\ (written => todo # <<>>) /\ srv \in Server
  BY DEF TInv, Process, Requote, Idle
<1>2. Cancels \o Ladder \in Seq(CommandSet)
  BY LadderLists
<1>3. todo' = Cancels \o Ladder /\ UNCHANGED <<written, disk>>
  BY DEF Requote, Handle, Dispatches, Cancels, disk
<1> QED BY <1>1, <1>2, <1>3 DEF Begins, Requote

(* So do the price and the epoch timer.                                     *)
LEMMA TimerBegins == ASSUME TInv, OracleTick \/ EpochKnown PROVE Begins
<1>1. todo = <<>> /\ ~written /\ srv \in Server /\ s.holds \subseteq Owners
  BY DEF TInv, Process, OracleTick, EpochKnown, Idle, State, Engines
<1>2. CASE OracleTick
  <2>1. PICK ruins \in SUBSET s.holds :
           todo' = <<[c |-> "tick", ruins |-> ruins]>> /\ UNCHANGED <<written, disk>>
    BY <1>2 DEF OracleTick, Handle, Dispatches, disk
  <2>2. [c |-> "tick", ruins |-> ruins] \in CommandSet
    BY <1>1, CommandsAre
  <2> QED BY <1>1, <1>2, <2>1, <2>2 DEF Begins, OracleTick
<1>3. CASE EpochKnown
  <2>1. /\ todo' = <<[c |-> "epoch", id |-> Len(settled) + 1]>>
        /\ UNCHANGED <<written, disk>>
    BY <1>3 DEF EpochKnown, Handle, Dispatches, disk
  <2>2. Len(settled) + 1 \in Nat
    BY DEF TInv, Chain
  <2>3. [c |-> "epoch", id |-> Len(settled) + 1] \in CommandSet
    BY <2>2, CommandsAre
  <2> QED BY <1>1, <1>3, <2>1, <2>3 DEF Begins, EpochKnown
<1> QED BY <1>2, <1>3

(* So does a connection.                                                    *)
LEMMA ConnectBegins == ASSUME TInv, NEW w \in Wallets, Connect(w) PROVE Begins
<1>1. todo = <<>> /\ ~written /\ srv \in Server
  BY DEF TInv, Process, Connect, Idle
<1>2. todo' = Welcome(w) /\ UNCHANGED <<written, disk>>
  BY DEF Connect, Handle, Dispatches, disk
<1>3. Welcome(w) \in Seq(CommandSet)
  BY OwnersAre, CommandsAre DEF Welcome
<1> QED BY <1>1, <1>2, <1>3 DEF Begins, Connect

(* The names an order can be given.                                         *)
LEMMA NamesAre ==
    ASSUME srv \in Server, NEW w \in Wallets, NEW name \in Naming(w)
    PROVE  name.id \in OrderIds /\ name.orders \in Nat
<1>1. srv.orders \in Nat /\ srv.orders + 1 \in Nat /\ w \in Owners
  BY OwnersAre DEF Server
<1>2. CASE name = Numbered(w)
  BY <1>1, <1>2, IdsAre DEF Numbered
<1>3. CASE name \in [id : Given, orders : {srv.orders}]
  BY <1>1, <1>3, IdsAre
<1> QED BY <1>2, <1>3 DEF Naming

\* the list of a socket's message that has one command
AsksFor(k) == todo' = <<k>> /\ UNCHANGED <<written, disk, mm, past, chain>>

(* So does every message of a socket.                                       *)
LEMMA SocketBegins ==
    ASSUME TInv, NEW w \in Wallets,
           PlaceOrder(w) \/ MarketClose(w) \/ PlaceSigned(w) \/ Cancel(w)
    PROVE  Begins
<1>1. todo = <<>> /\ ~written /\ srv \in Server /\ s.rest \subseteq Resting
  BY DEF TInv, Process, PlaceOrder, MarketClose, PlaceSigned, Cancel, Idle, State, Engines
<1>2. srv.nonces[w] + 1 \in Nat /\ w \in Owners
  BY <1>1, OwnersAre DEF Server
<1>3. ASSUME NEW name \in Naming(w), NEW r \in BOOLEAN, NEW t \in BOOLEAN
      PROVE  /\ <<Unsigned(w, name, r, t)>> \in Seq(CommandSet)
             /\ Drawn(w, name) \in Server
  <2>1. name.id \in OrderIds /\ name.orders \in Nat
    BY <1>1, NamesAre
  <2>2. Unsigned(w, name, r, t) \in CommandSet
    BY <1>2, <2>1, CommandsAre DEF Unsigned
  <2>3. <<Unsigned(w, name, r, t)>> \in Seq(CommandSet)
    BY ONLY <2>2, OneLine
  <2>4. [srv.nonces EXCEPT ![w] = srv.nonces[w] + 1] \in [Wallets -> Nat]
    BY <1>1, <1>2 DEF Server
  <2>5. Drawn(w, name) = [srv EXCEPT !.orders = name.orders,
                                     !.nonces = [srv.nonces EXCEPT ![w] = srv.nonces[w] + 1]]
    BY DEF Drawn
  <2> QED BY <1>1, <2>1, <2>3, <2>4, <2>5 DEF Server
<1>4. Numbered(w) \in Naming(w)
  BY DEF Naming
<1>5. CASE PlaceOrder(w)
  <2>1. PICK name \in Naming(w), r \in BOOLEAN :
           AsksFor(Unsigned(w, name, r, FALSE)) /\ srv' = Drawn(w, name)
    BY <1>5 DEF PlaceOrder, Handle, Dispatches, disk, AsksFor
  <2>2. /\ <<Unsigned(w, name, r, FALSE)>> \in Seq(CommandSet)
        /\ Drawn(w, name) \in Server
    BY <1>3
  <2> QED BY <1>1, <1>5, <2>1, <2>2 DEF Begins, PlaceOrder, AsksFor
<1>6. CASE MarketClose(w)
  <2> DEFINE name == Numbered(w)
  <2>1. AsksFor(Unsigned(w, name, FALSE, TRUE)) /\ srv' = Drawn(w, name)
    BY <1>6 DEF MarketClose, Handle, Dispatches, disk, AsksFor
  <2>2. /\ <<Unsigned(w, name, FALSE, TRUE)>> \in Seq(CommandSet)
        /\ Drawn(w, name) \in Server
    BY <1>3, <1>4
  <2> HIDE DEF name
  <2> QED BY <1>1, <1>6, <2>1, <2>2 DEF Begins, MarketClose, AsksFor
<1>7. CASE PlaceSigned(w)
  <2> DEFINE k(n, i) == [c |-> "place", o |-> w, id |-> i, nonce |-> n,
                         rests |-> FALSE, closes |-> FALSE, signed |-> TRUE]
  <2>1. PICK n \in SignedNonces, name \in Naming(w) :
           AsksFor(k(n, name.id)) /\ srv' = [srv EXCEPT !.orders = name.orders]
    BY <1>7 DEF PlaceSigned, Handle, Dispatches, disk, AsksFor
  <2>2. n \in Nat /\ name.id \in OrderIds /\ name.orders \in Nat
    BY <1>1, NamesAre, VenueAssumption
  <2>3. k(n, name.id) \in CommandSet
    BY <1>2, <2>2, CommandsAre
  <2> HIDE DEF k
  <2>4. <<k(n, name.id)>> \in Seq(CommandSet)
    BY <2>3
  <2>5. srv' \in Server
    BY <1>1, <2>1, <2>2 DEF Server
  <2> QED BY <1>1, <1>7, <2>1, <2>4, <2>5 DEF Begins, PlaceSigned, AsksFor
<1>8. CASE Cancel(w)
  <2> DEFINE k(i) == [c |-> "cancel", o |-> w, id |-> i]
  <2>1. PICK i \in ({r.id : r \in s.rest} \cup Given) \ Integral : AsksFor(k(i))
    BY <1>8 DEF Cancel, Handle, Dispatches, disk, AsksFor
  <2>2. i \in OrderIds
    BY <1>1, IdsAre DEF Resting
  <2>3. k(i) \in CommandSet
    BY <1>2, <2>2, CommandsAre
  <2> HIDE DEF k
  <2>4. <<k(i)>> \in Seq(CommandSet)
    BY <2>3
  <2> QED BY <1>1, <1>8, <2>1, <2>4 DEF Begins, Cancel, AsksFor
<1> QED BY <1>5, <1>6, <1>7, <1>8

(* So does the reduce-only switch.                                          *)
LEMMA SwitchBegins == ASSUME TInv, DemoReduceOnly PROVE Begins
<1>1. todo = <<>> /\ ~written /\ srv \in Server
  BY DEF TInv, Process, DemoReduceOnly, Idle
<1>2. srv' \in Server /\ srv'.forced \in BOOLEAN
  BY <1>1 DEF DemoReduceOnly, Server
<1>3. /\ todo' = <<[c |-> "mode", on |-> srv'.forced]>>
      /\ UNCHANGED <<written, disk>>
  BY DEF DemoReduceOnly, Handle, Dispatches, disk
<1>4. [c |-> "mode", on |-> srv'.forced] \in CommandSet
  BY <1>2, CommandsAre
<1> QED BY <1>1, <1>2, <1>3, <1>4 DEF Begins, DemoReduceOnly

(* What the chain and its timer do is between handlers and changes none.    *)
LEMMA ChainStays ==
    ASSUME TInv, \/ AskEpoch \/ ChainFails \/ CycleSettles
                 \/ \E tx \in pool : Mine(tx)
    PROVE  Stays /\ Chain'
<1>1. /\ up \in BOOLEAN /\ epoch \in {"idle", "asking", "sending"}
      /\ pool \in SUBSET Sent /\ settled \in Seq(Settlements)
  BY DEF TInv, Process, Chain
<1>2. CASE AskEpoch
  BY <1>1, <1>2 DEF AskEpoch, Stays, Chain, chain
<1>3. CASE ChainFails
  BY <1>1, <1>3 DEF ChainFails, Stays, Chain, chain, Idle
<1>4. CASE CycleSettles
  <2>1. [by |-> "cycle"] \in Settlements
    BY DEF Settlements
  <2>2. Append(settled, [by |-> "cycle"]) \in Seq(Settlements)
    BY <1>1, <2>1
  <2> QED BY <1>1, <1>4, <2>2 DEF CycleSettles, Stays, Chain
<1>5. ASSUME NEW tx \in pool, Mine(tx) PROVE Stays /\ Chain'
  <2> DEFINE row == [by |-> "venue", root |-> tx.root, seq |-> tx.seq]
  <2>1. row \in Settlements
    BY <1>1 DEF Sent, Settlements
  <2>2. settled' \in {settled, Append(settled, row)}
    BY <1>5 DEF Mine
  <2> HIDE DEF row
  <2>3. settled' \in Seq(Settlements)
    BY <1>1, <2>1, <2>2
  <2>4. /\ todo = <<>> /\ pool' = pool \ {tx} /\ epoch' \in {"idle", epoch}
        /\ up' \in {up, FALSE}
        /\ UNCHANGED <<s, disk, handler, srv, mm, past>>
    BY <1>1, <1>5 DEF Mine
  <2> QED BY <1>1, <2>3, <2>4 DEF Stays, Chain
<1> QED BY <1>2, <1>3, <1>4, <1>5

\* the actions that start a handler
Starts ==
    \/ Requote \/ OracleTick \/ EpochKnown \/ DemoReduceOnly
    \/ \E w \in Wallets : \/ Connect(w) \/ PlaceOrder(w) \/ MarketClose(w)
                          \/ PlaceSigned(w) \/ Cancel(w)

(* Every step is of one of seven kinds.                                     *)
LEMMA StepKinds ==
    ASSUME TInv, Next
    PROVE  \/ Persist \/ PersistFails \/ Execute
           \/ Begins /\ Starts
           \/ Stays /\ Chain'
           \/ Crash \/ \E fresh \in BOOLEAN : Boot(fresh)
BY RequoteBegins, TimerBegins, ConnectBegins, SocketBegins, SwitchBegins, ChainStays
   DEF Next, Starts

(* The types hold at first.                                                 *)
LEMMA InitTypes == Init => TInv
<1> SUFFICES ASSUME Init PROVE TInv
  OBVIOUS
<1>1. /\ log = <<>> /\ todo = <<>> /\ s = Blank /\ epoch = "idle"
      /\ written = FALSE /\ up = FALSE /\ torn = FALSE
  BY DEF Init
<1>2. Replay(log) = Blank /\ Prior = log
  BY <1>1, ReplayNothing DEF Prior
<1>3. Disk
  <2>1. log \in Seq(LogLines)
    BY <1>1
  <2>2. State(Replay(log)) /\ State(Replay(Prior))
    BY <1>2, BlankState
  <2> QED BY <1>1, <2>1, <2>2 DEF Disk
<1>4. srv \in Server /\ mm \in Maker
  BY DEF Init, Server, Maker
<1>5. past \in Past
  <2>1. Blank.last \in [Owners -> Int]
    BY DEF Blank
  <2> QED BY <2>1 DEF Init, Past
<1>6. Process
  <2>1. todo \in Seq(CommandSet) /\ State(s)
    BY <1>1, BlankState
  <2> QED BY <1>1, <1>4, <1>5, <2>1 DEF Process
<1>7. Chain
  BY DEF Init, Chain
<1> QED BY <1>3, <1>6, <1>7 DEF TInv

\* the line an append leaves
NewLine == IF torn THEN Corrupt ELSE Head(todo)

(* What an append does to the log and to its replay.                        *)
LEMMA PersistIs ==
    ASSUME TInv, Persist
    PROVE  /\ Head(todo) \in CommandSet /\ NewLine \in LogLines
           /\ log' = Append(log, NewLine) /\ log' \in Seq(LogLines) /\ log' # <<>>
           /\ Last(log') = NewLine /\ Prior' = log
           /\ Replay(log)' = Heard(Replay(log), NewLine)
           /\ Replay(Prior)' = Replay(log)
<1>1. todo \in Seq(CommandSet) /\ todo # <<>> /\ log \in Seq(LogLines)
  BY DEF TInv, Process, Disk, Persist
<1>2. Head(todo) \in CommandSet
  BY <1>1
<1>3. NewLine \in LogLines
  BY <1>2 DEF NewLine, LogLines
<1>4. log' = Append(log, NewLine) /\ written'
  BY DEF Persist, NewLine
<1>5. /\ Front(Append(log, NewLine)) = log /\ Last(Append(log, NewLine)) = NewLine
      /\ Append(log, NewLine) \in Seq(LogLines) /\ Append(log, NewLine) # <<>>
  BY <1>1, <1>3, FrontAppend
<1>6. Replay(Append(log, NewLine)) = Heard(Replay(log), NewLine)
  BY <1>1, ReplayAppend
<1>7. Prior' = log
  BY <1>4, <1>5 DEF Prior
<1> QED BY <1>2, <1>3, <1>4, <1>5, <1>6, <1>7

(* An append keeps the types.                                               *)
LEMMA PersistTypes == ASSUME TInv, Persist PROVE TInv'
<1>1. Disk /\ Process /\ Chain
  BY DEF TInv
<1>2. Disk'
  <2>1. State(Replay(log)) /\ torn' \in BOOLEAN /\ written' \in BOOLEAN
    BY <1>1 DEF Disk, Persist
  <2>2. State(Heard(Replay(log), NewLine))
    BY <2>1, PersistIs, HeardState
  <2>3. State(Replay(log))' /\ State(Replay(Prior))'
    BY <2>1, <2>2, PersistIs
  <2> QED BY <2>1, <2>3, PersistIs DEF Disk
<1>3. mm' \in Maker
  <2>1. mm' \in {mm, [mm EXCEPT !.nonce = @ + 1, !.seq = @ + 1]}
    BY DEF Persist, Counted
  <2>2. mm \in Maker /\ mm.nonce + 1 \in Nat /\ mm.seq + 1 \in Nat
    BY <1>1 DEF Process, Maker
  <2> QED BY ONLY <2>1, <2>2 DEF Maker
<1>4. Process'
  <2>1. UNCHANGED <<up, s, todo, srv, epoch, past>> /\ todo # <<>> /\ up
    BY DEF Persist
  <2> QED BY <1>1, <1>3, <2>1, PersistIs DEF Process, NewLine
<1>5. Chain'
  BY <1>1 DEF Chain, Persist, chain
<1> QED BY <1>2, <1>4, <1>5 DEF TInv

(* So does one that fails.                                                  *)
LEMMA PersistFailsTypes == ASSUME TInv, PersistFails PROVE TInv'
<1>1. Disk /\ Process /\ Chain
  BY DEF TInv
<1>2. UNCHANGED <<s, log, written, srv, chain>> /\ todo' = <<>> /\ ~written
  BY DEF PersistFails
<1>3. Prior' = log /\ Prior = log
  BY <1>2 DEF Prior
<1>4. Disk'
  <2>1. torn' \in BOOLEAN
    BY <1>1 DEF PersistFails, Disk
  <2> QED BY <1>1, <1>2, <1>3, <2>1 DEF Disk
<1>5. mm' \in Maker
  <2>1. mm' \in {mm, [mm EXCEPT !.nonce = @ + 1, !.seq = @ + 1]}
    BY DEF PersistFails, Counted
  <2>2. mm \in Maker /\ mm.nonce + 1 \in Nat /\ mm.seq + 1 \in Nat
    BY <1>1 DEF Process, Maker
  <2> QED BY ONLY <2>1, <2>2 DEF Maker
<1>6. past' \in Past
  <2>1. past' = [past EXCEPT !.tears = @ + 1] /\ past \in Past
    BY <1>1 DEF PersistFails, Process
  <2> QED BY <2>1 DEF Past
<1>7. Process'
  <2>1. up' \in BOOLEAN /\ epoch' \in {epoch, "idle"}
    <3>1. up' \in {FALSE, origin = "timer"} /\ epoch' = IF up' THEN epoch ELSE "idle"
      BY DEF PersistFails
    <3> QED BY <3>1
  <2> QED BY <1>1, <1>2, <1>5, <1>6, <2>1 DEF Process
<1>8. Chain'
  BY <1>1, <1>2 DEF Chain, chain
<1> QED BY <1>4, <1>6, <1>7, <1>8 DEF TInv

(* What a handler's start does to the state of the engine.                  *)
LEMMA BeginsIs ==
    ASSUME TInv, Begins
    PROVE  /\ State(s') /\ Known(s') = Known(s) /\ s'.funded = s.funded
           /\ s'.rest = s.rest /\ s'.last = s.last
<1>1. State(s) /\ s \in Engines
  BY DEF TInv, Process, State
<1>2. CASE s' = s
  BY <1>1, <1>2
<1>3. ASSUME NEW w \in Wallets, s' = [s EXCEPT !.accounts = @ \cup {w}]
      PROVE  /\ State(s') /\ Known(s') = Known(s) /\ s'.funded = s.funded
             /\ s'.rest = s.rest /\ s'.last = s.last
  <2>1. w \in Owners
    BY OwnersAre
  <2>2. s' \in Engines /\ s'.rest = s.rest /\ s'.funded = s.funded /\ s'.last = s.last
    BY <1>1, <1>3, <2>1 DEF Engines
  <2>3. Known(s') = Known(s)
    BY <1>1, <1>3 DEF Known, Engines
  <2> QED BY <1>1, <2>2, <2>3 DEF State
<1> QED BY <1>2, <1>3 DEF Begins

(* It keeps the types.                                                      *)
LEMMA BeginsTypes == ASSUME TInv, Begins PROVE TInv'
<1>1. Disk /\ Process /\ Chain
  BY DEF TInv
<1>2. /\ UNCHANGED <<up, written, log, torn, pool, settled, mm, past, epoch>>
      /\ todo' \in Seq(CommandSet) /\ srv' \in Server /\ up /\ ~written
  BY DEF Begins, disk, chain, Idle
<1>3. Prior' = Prior
  BY <1>2 DEF Prior
<1>4. Disk'
  BY <1>1, <1>2, <1>3 DEF Disk
<1>5. Process'
  <2>1. up' \in BOOLEAN /\ (~up' => todo' = <<>>) /\ State(s')
    BY <1>1, <1>2, BeginsIs DEF Process
  <2> QED BY <1>1, <1>2, <2>1 DEF Process
<1> QED BY <1>1, <1>2, <1>4, <1>5 DEF TInv, Chain

(* So do the steps between handlers.                                        *)
LEMMA StaysTypes == ASSUME TInv, Stays, Chain' PROVE TInv'
<1>1. Disk /\ Process
  BY DEF TInv
<1>2. UNCHANGED <<s, log, torn, todo, written, origin, srv, mm, past>>
  BY DEF Stays, disk, handler
<1>3. Prior' = Prior
  BY <1>2 DEF Prior
<1>4. Disk'
  BY <1>1, <1>2, <1>3 DEF Disk
<1>5. Process'
  BY <1>1, <1>2 DEF Process, Stays
<1> QED BY <1>4, <1>5 DEF TInv

(* So does a crash.                                                         *)
LEMMA CrashTypes == ASSUME TInv, Crash PROVE TInv'
<1>1. Disk /\ Process /\ Chain
  BY DEF TInv
<1>2. /\ UNCHANGED <<s, log, torn, srv, mm, pool, settled, past>>
      /\ todo' = <<>> /\ written' = FALSE /\ up' = FALSE /\ epoch' = "idle"
  BY DEF Crash, disk, chain
<1>3. Prior' = log
  BY <1>2 DEF Prior
<1>4. Disk'
  BY <1>1, <1>2, <1>3 DEF Disk
<1>5. Process'
  <2>1. State(s)' /\ srv' \in Server /\ mm' \in Maker /\ past' \in Past
    BY <1>1, <1>2 DEF Process
  <2>2. todo' \in Seq(CommandSet)
    BY <1>2
  <2> QED BY <1>2, <2>1, <2>2 DEF Process
<1> QED BY <1>1, <1>2, <1>4, <1>5 DEF TInv, Chain

(* What applying a command does.                                            *)
LEMMA ExecuteIs ==
    ASSUME TInv, Execute
    PROVE  /\ Head(todo) \in CommandSet /\ IsCommand(Head(todo))
           /\ s' = Applied(s, Head(todo)) /\ State(s')
           /\ todo' = Tail(todo) /\ todo' \in Seq(CommandSet)
           /\ up /\ up' /\ written /\ ~written' /\ log' = log /\ Prior' = log
<1>1. todo \in Seq(CommandSet) /\ todo # <<>> /\ State(s)
  BY DEF TInv, Process, Execute
<1>2. Head(todo) \in CommandSet /\ IsCommand(Head(todo))
  BY <1>1, HeadTailProperties, Kinds
<1>3. s' = Applied(s, Head(todo)) /\ todo' = Tail(todo) /\ log' = log
  BY DEF Execute, disk
<1>4. State(s')
  BY <1>1, <1>2, <1>3, AppliedState
<1>5. todo' \in Seq(CommandSet)
  BY <1>1, <1>3, HeadTailProperties
<1>6. up /\ up' /\ written /\ ~written'
  BY DEF Execute
<1>7. Prior' = log
  BY <1>3, <1>6 DEF Prior
<1> QED BY <1>2, <1>3, <1>4, <1>5, <1>6, <1>7

(* It keeps the types.                                                      *)
LEMMA ExecuteTypes == ASSUME TInv, Execute PROVE TInv'
<1> DEFINE k == Head(todo)
<1>1. Disk /\ Process /\ Chain
  BY DEF TInv
<1>2. /\ k \in CommandSet /\ IsCommand(k) /\ State(s') /\ todo' \in Seq(CommandSet)
      /\ up' /\ ~written' /\ log' = log /\ Prior' = log
  BY ExecuteIs
<1>3. torn' = torn /\ srv' = srv /\ settled' = settled /\ up' = up /\ written' = FALSE
  BY DEF Execute, disk
<1>4. Disk'
  BY <1>1, <1>2, <1>3 DEF Disk
<1>5. mm' \in Maker
  <2>1. mm \in Maker /\ mm.live \in Seq(OrderIds)
    BY <1>1 DEF Process, Maker
  <2> DEFINE L == LiveAfter(k)
             id == k.id
  <2>2. L \in Seq(OrderIds)
    <3>1. /\ L \in {<<>>, mm.live, Append(mm.live, id)}
          /\ k.c # "place" => L \in {<<>>, mm.live}
      BY DEF LiveAfter
    <3>2. k.c = "place" => id \in OrderIds
      BY <1>2 DEF IsCommand
    <3> HIDE DEF L, id, k
    <3>3. <<>> \in Seq(OrderIds)
      OBVIOUS
    <3>4. id \in OrderIds => Append(mm.live, id) \in Seq(OrderIds)
      BY <2>1
    <3> QED BY ONLY <2>1, <3>1, <3>2, <3>3, <3>4
  <2>3. mm' \in {mm, [mm EXCEPT !.live = L]}
    BY DEF Execute
  <2> HIDE DEF L
  <2> QED BY ONLY <2>1, <2>2, <2>3 DEF Maker
<1>6. past' \in Past
  <2> DEFINE R == RefusedAfter(k)
             S == SeenAfter(k)
  <2>1. past \in Past
    BY <1>1 DEF Process
  <2>2. past' = [past EXCEPT !.refused = R, !.seen = S]
    BY DEF Execute
  <2>3. R \in [Wallets -> Nat]
    <3>1. past.refused \in [Wallets -> Nat]
      BY <2>1 DEF Past
    <3> DEFINE N(o) == [past.refused EXCEPT ![o] = past.refused[o] + 1]
    <3>2. ASSUME NEW o PROVE N(o) \in [Wallets -> Nat]
      <4>1. CASE o \in Wallets
        <5>1. past.refused[o] + 1 \in Nat
          BY <3>1, <4>1
        <5> QED BY ONLY <3>1, <5>1
      <4>2. CASE o \notin Wallets
        <5>1. N(o) = past.refused
          BY <3>1, <4>2
        <5> QED BY <3>1, <5>1
      <4> QED BY <4>1, <4>2
    <3>3. R \in {past.refused, N(k.o)}
      BY DEF RefusedAfter
    <3> HIDE DEF R, N, k
    <3> QED BY ONLY <3>1, <3>2, <3>3
  <2>4. S \in SUBSET (Owners \X Nat)
    <3>1. past.seen \in SUBSET (Owners \X Nat)
      BY <2>1 DEF Past
    <3>2. k.c = "place" => <<k.o, k.nonce>> \in Owners \X Nat
      BY <1>2 DEF IsCommand
    <3> QED BY <3>1, <3>2 DEF SeenAfter
  <2> HIDE DEF R, S
  <2> QED BY ONLY <2>1, <2>2, <2>3, <2>4 DEF Past
<1>7. epoch' \in {"idle", "asking", "sending"}
  BY <1>1 DEF Process, Execute
<1>8. Process'
  BY <1>1, <1>2, <1>3, <1>5, <1>6, <1>7 DEF Process
<1>9. pool' \in SUBSET Sent
  <2>1. pool \in SUBSET Sent
    BY <1>1 DEF Chain
  <2> DEFINE tx == [id |-> k.id, root |-> Root(s'), seq |-> s'.seq]
  <2>2. k.c = "epoch" => tx \in Sent
    <3>1. s' \in Engines /\ s'.seq \in Nat
      BY <1>2 DEF State, Engines
    <3>2. Root(s') \in Roots
      BY <3>1 DEF Roots
    <3>3. k.c = "epoch" => k.id \in Nat
      BY <1>2 DEF IsCommand
    <3> HIDE DEF k
    <3> QED BY <3>1, <3>2, <3>3 DEF Sent
  <2>3. pool' = IF k.c = "epoch" THEN pool \cup {tx} ELSE pool
    BY DEF Execute
  <2> HIDE DEF tx, k
  <2> QED BY <2>1, <2>2, <2>3
<1>10. Chain'
  BY <1>1, <1>3, <1>9 DEF Chain
<1> QED BY <1>4, <1>8, <1>10 DEF TInv

(* What a start does.                                                       *)
LEMMA BootIs ==
    ASSUME TInv, NEW fresh \in BOOLEAN, Boot(fresh)
    PROVE  /\ ~up /\ up' = TRUE /\ ~written /\ written' = FALSE /\ todo = <<>>
           /\ UNCHANGED <<log, pool, settled, epoch>> /\ torn' \in {torn, FALSE}
           /\ Prior' = log /\ Prior = log /\ State(s') /\ s' = (IF fresh THEN Blank ELSE Replay(log))
           /\ todo' = BootCommands(s') /\ todo' \in Seq(CommandSet) /\ origin' = "boot"
           /\ past' = [past EXCEPT
                 !.boots = @ + 1, !.fresh = @ + (IF fresh THEN 1 ELSE 0),
                 !.refused = [w \in Wallets |-> 0],
                 !.start = [last |-> s'.last, rest |-> Quoting(s')]]
<1>1. Disk /\ Process
  BY DEF TInv
<1>2. /\ ~up /\ up' = TRUE /\ written' = written /\ UNCHANGED <<log, pool, settled, epoch>>
      /\ torn' \in {torn, FALSE} /\ s' = (IF fresh THEN Blank ELSE Replay(log)) /\ todo' = BootCommands(s')
      /\ origin' = "boot"
  BY DEF Boot, Dispatches, chain
<1>3. written = FALSE /\ todo = <<>>
  BY <1>1, <1>2 DEF Process, Disk
<1>4. State(s')
  BY <1>1, <1>2, BlankState DEF Disk
<1>5. BootCommands(s') \in Seq(CommandSet)
  <2>1. /\ [c |-> "tick", ruins |-> {}] \in CommandSet
        /\ [c |-> "deposit", o |-> MM] \in CommandSet
        /\ [c |-> "mode", on |-> FALSE] \in CommandSet
    BY OwnersAre, CommandsAre
  <2>2. /\ <<[c |-> "tick", ruins |-> {}]>> \in Seq(CommandSet)
        /\ <<[c |-> "deposit", o |-> MM]>> \in Seq(CommandSet)
        /\ <<[c |-> "mode", on |-> FALSE]>> \in Seq(CommandSet)
        /\ <<>> \in Seq(CommandSet)
    BY <2>1, OneLine
  <2> QED BY <2>2 DEF BootCommands
<1>6. past' = [past EXCEPT
                 !.boots = @ + 1, !.fresh = @ + (IF fresh THEN 1 ELSE 0),
                 !.refused = [w \in Wallets |-> 0],
                 !.start = [last |-> s'.last, rest |-> Quoting(s')]]
  BY <1>2 DEF Boot, Quoting
<1>7. Prior' = log /\ Prior = log
  BY <1>2, <1>3 DEF Prior
<1> QED BY <1>2, <1>3, <1>4, <1>5, <1>6, <1>7

(* It keeps the types.                                                      *)
LEMMA BootTypes == ASSUME TInv, NEW fresh \in BOOLEAN, Boot(fresh) PROVE TInv'
<1>1. Disk /\ Process /\ Chain
  BY DEF TInv
<1>2. Disk'
  <2>1. written' \in BOOLEAN /\ log' = log /\ torn' \in {torn, FALSE} /\ Prior' = log
    BY BootIs
  <2> QED BY <1>1, <2>1 DEF Disk
<1>3. srv' \in Server /\ mm' \in Maker
  BY DEF Boot, Server, Maker
<1>4. past' \in Past
  <2>1. past \in Past /\ State(s')
    BY <1>1, BootIs DEF Process
  <2> DEFINE n == IF fresh THEN 1 ELSE 0
             Z == [w \in Wallets |-> 0]
             D == [last |-> s'.last, rest |-> Quoting(s')]
  <2>2. past' = [past EXCEPT !.boots = @ + 1, !.fresh = @ + n, !.refused = Z, !.start = D]
    BY BootIs
  <2>3. n \in Nat /\ Z \in [Wallets -> Nat]
    OBVIOUS
  <2>4. D \in [last : [Owners -> Int], rest : SUBSET OrderIds]
    <3>1. s'.last \in [Owners -> Int] /\ \A r \in s'.rest : r.id \in OrderIds
      BY <2>1 DEF State, Engines, Resting
    <3> QED BY <3>1 DEF Quoting
  <2> HIDE DEF n, Z, D
  <2>5. past.boots + 1 \in Nat /\ past.fresh + n \in Nat
    BY <2>1, <2>3 DEF Past
  <2> QED BY ONLY <2>1, <2>2, <2>3, <2>4, <2>5 DEF Past
<1>5. Process'
  BY <1>1, <1>3, <1>4, BootIs DEF Process
<1>6. Chain'
  BY <1>1, BootIs DEF Chain
<1> QED BY <1>2, <1>5, <1>6 DEF TInv

(* Every step keeps the types.                                              *)
LEMMA TypesKept == TInv /\ [Next]_vars => TInv'
<1> SUFFICES ASSUME TInv, [Next]_vars PROVE TInv'
  OBVIOUS
<1>1. CASE Next
  BY <1>1, StepKinds, PersistTypes, PersistFailsTypes, ExecuteTypes, BeginsTypes,
     StaysTypes, CrashTypes, BootTypes
<1>2. CASE UNCHANGED vars
  <2>1. UNCHANGED <<up, s, log, torn, todo, written, srv, mm, epoch, pool, settled, past>>
    BY <1>2 DEF vars
  <2>2. Prior' = Prior
    BY <2>1 DEF Prior
  <2> QED BY <2>1, <2>2 DEF TInv, Disk, Process, Chain
<1> QED BY <1>1, <1>2

(* Types, and memory is never ahead of the disk.                            *)
THEOREM TypeCorrect == Spec => []TypeOK
<1>1. TInv => TypeOK
  <2> SUFFICES ASSUME TInv PROVE TypeOK
    OBVIOUS
  <2>1. Disk /\ Process
    BY DEF TInv
  <2>2. /\ \A i \in DOMAIN log : log[i] \in CommandSet \cup {Corrupt}
        /\ \A i \in DOMAIN todo : todo[i] \in CommandSet
    BY <2>1, LenProperties, ElementOfSeq DEF Disk, Process, LogLines
  <2>3. /\ s.accounts \cup s.funded \cup s.holds \subseteq Owners
        /\ s.rest \subseteq [id : OrderIds, o : Owners, at : Nat]
        /\ \A q, r \in s.rest : q.id = r.id => q = r
    BY <2>1 DEF Process, State, Engines, OneEach, Resting
  <2> QED BY <2>1, <2>2, <2>3 DEF TypeOK, Disk, Process
<1>2. Spec => []TInv
  BY InitTypes, TypesKept, PTL DEF Spec
<1> QED BY <1>1, <1>2, PTL

-----------------------------------------------------------------------------
(* What a start finds *)

(* Two states that differ only in their accounts agree on the rest.         *)
LEMMA KnownParts ==
    ASSUME NEW e, State(e), NEW f, State(f)
    PROVE  Known(e) = Known(f) <=>
              /\ e.seq = f.seq /\ e.open = f.open /\ e.reduceOnly = f.reduceOnly
              /\ e.funded = f.funded /\ e.holds = f.holds /\ e.rest = f.rest
              /\ e.last = f.last
<1>1. /\ e = [seq |-> e.seq, open |-> e.open, reduceOnly |-> e.reduceOnly,
              accounts |-> e.accounts, funded |-> e.funded, holds |-> e.holds,
              rest |-> e.rest, last |-> e.last]
      /\ f = [seq |-> f.seq, open |-> f.open, reduceOnly |-> f.reduceOnly,
              accounts |-> f.accounts, funded |-> f.funded, holds |-> f.holds,
              rest |-> f.rest, last |-> f.last]
  BY DEF State, Engines
<1>2. /\ Known(e) = [seq |-> e.seq, open |-> e.open, reduceOnly |-> e.reduceOnly,
                     accounts |-> {}, funded |-> e.funded, holds |-> e.holds,
                     rest |-> e.rest, last |-> e.last]
      /\ Known(f) = [seq |-> f.seq, open |-> f.open, reduceOnly |-> f.reduceOnly,
                     accounts |-> {}, funded |-> f.funded, holds |-> f.holds,
                     rest |-> f.rest, last |-> f.last]
  BY <1>1 DEF Known
<1> QED BY ONLY <1>2

(* A command does the same to them.                                         *)
LEMMA AppliedKnown ==
    ASSUME NEW e, State(e), NEW f, State(f), Known(e) = Known(f),
           NEW k, IsCommand(k)
    PROVE  Known(Applied(e, k)) = Known(Applied(f, k))
<1>1. /\ e.seq = f.seq /\ e.open = f.open /\ e.reduceOnly = f.reduceOnly
      /\ e.funded = f.funded /\ e.holds = f.holds /\ e.rest = f.rest
      /\ e.last = f.last
  BY KnownParts
<1>2. (Takes(e, k) <=> Takes(f, k)) /\ Counter(e, k) = Counter(f, k)
  BY <1>1 DEF Takes, Counter
<1>3. (Meets(e, k) <=> Meets(f, k)) /\ Met(e, k) = Met(f, k)
  BY <1>2 DEF Meets, Met
<1>4. RestAfter(e, k) = RestAfter(f, k)
  BY <1>1, <1>2, <1>3 DEF RestAfter
<1>5. HoldsAfter(e, k) = HoldsAfter(f, k)
  BY <1>1, <1>3 DEF HoldsAfter
<1>6. FundedAfter(e, k) = FundedAfter(f, k) /\ LastAfter(e, k) = LastAfter(f, k)
  BY <1>1, <1>2 DEF FundedAfter, LastAfter
<1> DEFINE E == Applied(e, k)
           F == Applied(f, k)
<1>7. /\ E.seq = F.seq /\ E.open = F.open /\ E.reduceOnly = F.reduceOnly
      /\ E.funded = F.funded /\ E.holds = F.holds /\ E.rest = F.rest
      /\ E.last = F.last
  BY <1>1, <1>4, <1>5, <1>6, AppliedIs
<1>8. State(E) /\ State(F)
  BY AppliedState
<1> HIDE DEF E, F
<1>9. Known(E) = Known(F)
  BY <1>7, <1>8, KnownParts
<1> QED BY <1>9 DEF E, F

\* while no line was appended to a part of one, no start left the log aside and
\* every line reads back as it was written: the process holds what the applied
\* lines make, and while it is down the log is at most the one line ahead that
\* was logged and not applied
Readable == log \in Seq(CommandSet) /\ Legible
Follows == up => Known(s) = Known(Replay(Prior))
Trails == ~up => \/ Known(s) = Known(Replay(log))
                 \/ log # <<>> /\ Known(Applied(s, Last(log))) = Known(Replay(log))
Recovers == Clean => Readable /\ Follows /\ Trails

(* The log is left alone or gets a line more.                               *)
LEMMA LogGrows ==
    ASSUME TInv, [Next]_vars
    PROVE  log' = log \/ (Persist /\ log' = Append(log, NewLine))
<1>1. CASE Persist
  BY <1>1, PersistIs
<1>2. CASE PersistFails \/ Execute \/ Begins \/ Stays \/ Crash \/ UNCHANGED vars
  BY <1>2 DEF PersistFails, Execute, Begins, Stays, Crash, disk, vars
<1>3. ASSUME NEW fresh \in BOOLEAN, Boot(fresh) PROVE log' = log
  BY <1>3, BootIs
<1> QED BY <1>1, <1>2, <1>3, StepKinds

(* What reads back as it was written did so before a line was added to it,   *)
(* and so of lines none of which was appended to a part of one.             *)
LEMMA LegibleBefore ==
    ASSUME TInv, [Next]_vars
    PROVE  /\ Legible' => Legible
           /\ (\A i \in DOMAIN log' : log'[i] # Corrupt)
                 => (\A i \in DOMAIN log : log[i] # Corrupt)
<1>1. log \in Seq(LogLines)
  BY DEF TInv, Disk
<1>2. CASE log' = log
  BY <1>2 DEF Legible
<1>3. CASE Persist /\ log' = Append(log, NewLine)
  <2>1. \A i : i \in DOMAIN log => i \in DOMAIN log' /\ log'[i] = log[i]
    BY <1>1, <1>3
  <2> QED BY <2>1 DEF Legible
<1> QED BY <1>2, <1>3, LogGrows

(* A line that is added to such a log is a command and reads as such.       *)
LEMMA NewLineIs ==
    ASSUME TInv, Persist, Clean'
    PROVE  /\ NewLine = Head(todo) /\ Head(todo) \in CommandSet
           /\ Read(NewLine) = NewLine
<1>1. log \in Seq(LogLines) /\ log' = Append(log, NewLine) /\ Head(todo) \in CommandSet
  BY PersistIs DEF TInv, Disk
<1>2. Len(log) + 1 \in DOMAIN log' /\ log'[Len(log) + 1] = NewLine
  BY <1>1
<1>3. NewLine # Corrupt /\ Read(NewLine) = NewLine
  BY <1>2 DEF Clean, Intact, Legible
<1> QED BY <1>1, <1>3 DEF NewLine

(* The last line of one that can be read is a command and reads as such.    *)
LEMMA LastLegible ==
    ASSUME Readable, log # <<>>
    PROVE  Last(log) \in CommandSet /\ Read(Last(log)) = Last(log)
<1>1. log \in Seq(CommandSet) /\ Legible
  BY DEF Readable
<1>2. Last(log) \in CommandSet
  BY <1>1, FrontLast
<1>3. Len(log) \in DOMAIN log /\ Last(log) = log[Len(log)]
  BY <1>1 DEF Last
<1> QED BY <1>1, <1>2, <1>3 DEF Legible

(* What was clean before a step is clean no more only after it.             *)
LEMMA CleanBefore == ASSUME TInv, [Next]_vars, Clean' PROVE Clean
<1>1. past.fresh \in Nat /\ past \in Past
  BY DEF TInv, Process, Past
<1>2. past'.fresh = 0 /\ Legible' /\ \A i \in DOMAIN log' : log'[i] # Corrupt
  BY DEF Clean, Intact
<1> SUFFICES past.fresh = 0
  BY <1>2, LegibleBefore DEF Clean, Intact
<1>3. CASE PersistFails
  <2>1. past' = [past EXCEPT !.tears = @ + 1]
    BY <1>3 DEF PersistFails
  <2> QED BY <1>1, <1>2, <2>1 DEF Past
<1>4. CASE past' = past
  BY <1>2, <1>4
<1>5. CASE Execute
  <2>1. past' = [past EXCEPT !.refused = RefusedAfter(Head(todo)),
                             !.seen = SeenAfter(Head(todo))]
    BY <1>5 DEF Execute
  <2> QED BY <1>1, <1>2, <2>1 DEF Past
<1>6. ASSUME NEW fresh \in BOOLEAN, Boot(fresh) PROVE past.fresh = 0
  <2> DEFINE n == IF fresh THEN 1 ELSE 0
             Z == [w \in Wallets |-> 0]
             D == [last |-> s'.last, rest |-> Quoting(s')]
  <2>1. past' = [past EXCEPT !.boots = @ + 1, !.fresh = @ + n, !.refused = Z, !.start = D]
    BY <1>6, BootIs
  <2>2. n \in Nat
    OBVIOUS
  <2> HIDE DEF n, Z, D
  <2>3. past'.fresh = past.fresh + n
    BY ONLY <1>1, <2>1 DEF Past
  <2>4. \A i \in Nat : i + n = 0 => i = 0
    BY <2>2
  <2> QED BY <1>1, <1>2, <2>3, <2>4
<1>7. \/ past' = past \/ PersistFails \/ Execute \/ \E fresh \in BOOLEAN : Boot(fresh)
  BY StepKinds DEF Persist, Begins, Stays, Crash, vars
<1> QED BY <1>3, <1>4, <1>5, <1>6, <1>7

(* A start that leaves it clean has replayed the log.                       *)
LEMMA BootClean ==
    ASSUME TInv, NEW fresh \in BOOLEAN, Boot(fresh), Clean'
    PROVE  fresh = FALSE
<1>1. past.fresh \in Nat /\ past \in Past /\ past'.fresh = 0
  BY DEF TInv, Process, Past, Clean, Intact
<1> DEFINE n == IF fresh THEN 1 ELSE 0
           Z == [w \in Wallets |-> 0]
           D == [last |-> s'.last, rest |-> Quoting(s')]
<1>2. past' = [past EXCEPT !.boots = @ + 1, !.fresh = @ + n, !.refused = Z, !.start = D]
  BY BootIs
<1>3. n \in {0, 1} /\ (n = 0 => fresh = FALSE)
  OBVIOUS
<1> HIDE DEF n, Z, D
<1>4. past'.fresh = past.fresh + n
  BY ONLY <1>1, <1>2 DEF Past
<1> QED BY <1>1, <1>3, <1>4

(* A log that can be read is never longer by a line that cannot.            *)
LEMMA PersistRecovers ==
    ASSUME TInv, Readable, Follows, Persist, Clean'
    PROVE  Readable' /\ Follows' /\ Trails'
<1>1. NewLine = Head(todo) /\ Head(todo) \in CommandSet /\ Legible'
  BY NewLineIs DEF Clean
<1>2. log' \in Seq(CommandSet)
  BY <1>1, PersistIs, FrontAppend DEF Readable
<1>3. up' = up /\ up /\ ~written /\ s' = s
  BY DEF Persist
<1>4. Prior = log /\ Replay(Prior)' = Replay(log)
  BY <1>3, PersistIs DEF Prior
<1> QED BY <1>1, <1>2, <1>3, <1>4 DEF Readable, Follows, Trails, Known

(* The command that is applied is the last line.                            *)
LEMMA ExecuteRecovers ==
    ASSUME TInv, Readable, Follows, Execute
    PROVE  /\ Readable' /\ Follows' /\ Trails' /\ Last(log) = Head(todo)
           /\ Replay(log) = Applied(Replay(Prior), Head(todo))
<1>1. /\ Head(todo) \in CommandSet /\ IsCommand(Head(todo)) /\ Head(todo) # Corrupt
      /\ s' = Applied(s, Head(todo)) /\ up /\ up' /\ written /\ log' = log /\ Prior' = log
  BY ExecuteIs, Kinds
<1>2. log # <<>> /\ Last(log) \in {Head(todo), Corrupt} /\ State(s) /\ State(Replay(Prior))
  BY <1>1 DEF TInv, Process, Disk
<1>3. Last(log) \in CommandSet /\ Read(Last(log)) = Last(log)
  BY <1>2, LastLegible
<1>4. Last(log) # Corrupt
  BY <1>3, Kinds
<1>5. Replay(log) = Applied(Replay(Prior), Head(todo))
  BY <1>1, <1>2, <1>3, <1>4, ReplayWritten, HeardApplies
<1>6. Known(s) = Known(Replay(Prior))
  BY <1>1 DEF Follows
<1>7. Known(Applied(s, Head(todo))) = Known(Replay(log))
  BY <1>1, <1>2, <1>5, <1>6, AppliedKnown
<1>8. Follows'
  BY <1>1, <1>7 DEF Follows
<1> QED BY <1>1, <1>2, <1>4, <1>5, <1>8 DEF Readable, Legible, Trails

(* A process that ends has applied all of the log, or all but its last line.*)
LEMMA EndRecovers ==
    ASSUME TInv, Readable, Follows, up, UNCHANGED <<s, log>>
    PROVE  Readable' /\ Trails'
<1>1. Known(s) = Known(Replay(Prior)) /\ State(s) /\ State(Replay(Prior))
  BY DEF Follows, TInv, Process, Disk
<1>2. CASE ~written
  BY <1>1, <1>2 DEF Readable, Legible, Trails, Prior
<1>3. CASE written
  <2>1. log # <<>>
    BY <1>3 DEF TInv, Process
  <2>2. Last(log) \in CommandSet /\ Read(Last(log)) = Last(log)
    BY <2>1, LastLegible
  <2>3. IsCommand(Last(log))
    BY <2>2, Kinds
  <2>4. Replay(log) = Applied(Replay(Prior), Last(log))
    BY <1>3, <2>2, ReplayWritten, HeardApplies
  <2>5. Known(Applied(s, Last(log))) = Known(Replay(log))
    BY <1>1, <2>3, <2>4, AppliedKnown
  <2> QED BY <2>1, <2>5 DEF Readable, Legible, Trails
<1> QED BY <1>2, <1>3

(* Every step keeps it.                                                     *)
LEMMA RecoversKept == TInv /\ Recovers /\ [Next]_vars => Recovers'
<1> SUFFICES ASSUME TInv, Recovers, [Next]_vars, Clean'
             PROVE  Readable' /\ Follows' /\ Trails'
  BY DEF Recovers
<1>1. Clean /\ Legible'
  BY CleanBefore DEF Clean
<1>2. Readable /\ Follows /\ Trails /\ up \in BOOLEAN
  BY <1>1 DEF Recovers, TInv, Process
<1>3. CASE PersistFails
  <2>1. UNCHANGED <<s, log, written>> /\ up /\ ~written /\ up' \in {FALSE, origin = "timer"}
    BY <1>3 DEF PersistFails
  <2>2. Prior' = Prior
    BY <2>1 DEF Prior
  <2>3. CASE up' = TRUE
    BY <1>2, <2>1, <2>2, <2>3 DEF Readable, Legible, Follows, Trails
  <2>4. CASE up' = FALSE
    BY <1>2, <2>1, <2>4, EndRecovers DEF Follows
  <2> QED BY <2>1, <2>3, <2>4
<1>4. CASE Persist
  BY <1>2, <1>4, PersistRecovers
<1>5. CASE Execute
  BY <1>2, <1>5, ExecuteRecovers
<1>6. CASE Begins
  <2>1. UNCHANGED <<log, written, up>> /\ up
    BY <1>6 DEF Begins, disk, Idle
  <2>2. Prior' = Prior /\ Known(s') = Known(s)
    BY <1>6, <2>1, BeginsIs DEF Prior
  <2> QED BY <1>2, <2>1, <2>2 DEF Readable, Legible, Follows, Trails
<1>7. CASE Stays
  <2>1. UNCHANGED <<s, log, written>>
    BY <1>7 DEF Stays, disk, handler
  <2>2. Prior' = Prior
    BY <2>1 DEF Prior
  <2>3. CASE up' = up
    BY <1>2, <2>1, <2>2, <2>3 DEF Readable, Legible, Follows, Trails
  <2>4. CASE up /\ up' = FALSE
    BY <1>2, <2>1, <2>4, EndRecovers DEF Follows
  <2> QED BY <1>2, <1>7, <2>3, <2>4 DEF Stays
<1>8. CASE Crash
  <2>1. UNCHANGED <<s, log>> /\ up /\ up' = FALSE
    BY <1>8 DEF Crash, disk
  <2> QED BY <1>2, <2>1, EndRecovers DEF Follows
<1>9. ASSUME NEW fresh \in BOOLEAN, Boot(fresh)
      PROVE  Readable' /\ Follows' /\ Trails'
  <2>1. s' = Replay(log) /\ up' = TRUE /\ Prior' = log /\ log' = log
    BY <1>1, <1>9, BootClean, BootIs
  <2> QED BY <1>2, <2>1 DEF Readable, Legible, Follows, Trails
<1>10. CASE UNCHANGED vars
  <2>1. UNCHANGED <<up, s, log, written>>
    BY <1>10 DEF vars
  <2>2. Prior' = Prior
    BY <2>1 DEF Prior
  <2> QED BY <1>2, <2>1, <2>2 DEF Readable, Legible, Follows, Trails
<1> QED BY <1>3, <1>4, <1>5, <1>6, <1>7, <1>8, <1>9, <1>10, StepKinds

(* It holds at first.                                                       *)
LEMMA InitRecovers == Init => Recovers
<1> SUFFICES ASSUME Init PROVE Readable /\ Follows /\ Trails
  BY DEF Recovers
<1>1. log = <<>> /\ s = Blank /\ up = FALSE
  BY DEF Init
<1>2. Replay(log) = Blank /\ log \in Seq(CommandSet)
  BY <1>1, ReplayNothing
<1> QED BY <1>1, <1>2 DEF Readable, Legible, Follows, Trails

(* The types hold in every run.                                             *)
LEMMA TypesAlways == Spec => []TInv
BY InitTypes, TypesKept, PTL DEF Spec

(* What a start finds is what the process left, in every run.               *)
LEMMA RecoversAlways == Spec => []Recovers
BY TypesAlways, InitRecovers, RecoversKept, PTL DEF Spec

(* A start that replays the log finds the state the process died with, or   *)
(* that state after the one command that was logged and not yet applied,    *)
(* also where an append was cut short, provided every line reads back as it *)
(* was written and none was appended to a part of one (main.ts: persist     *)
(* before apply, replayBootLog).                                            *)
THEOREM ResumesWhereItDied == Spec => Resumes
<1> DEFINE Finds == past'.boots > past.boots /\ Clean' /\ log # <<>> => Found
<1>1. TInv /\ Recovers /\ [Next]_vars => [Finds]_vars
  <2> SUFFICES ASSUME TInv, Recovers, Next, past'.boots > past.boots, Clean'
               PROVE  Found
    OBVIOUS
  <2>1. Clean' /\ Clean
    BY CleanBefore
  <2>2. PICK fresh \in BOOLEAN : Boot(fresh)
    <3>1. past.boots \in Nat /\ past \in Past
      BY DEF TInv, Process, Past
    <3>2. ~(past'.boots = past.boots)
      BY <3>1
    <3>3. past' # past
      BY <3>2
    <3>4. ~Execute
      <4> SUFFICES ASSUME Execute PROVE FALSE
        OBVIOUS
      <4>1. past' = [past EXCEPT !.refused = RefusedAfter(Head(todo)),
                                 !.seen = SeenAfter(Head(todo))]
        BY DEF Execute
      <4>2. past'.boots = past.boots
        BY <3>1, <4>1 DEF Past
      <4> QED BY <3>2, <4>2
    <3>5. ~PersistFails
      <4> SUFFICES ASSUME PersistFails PROVE FALSE
        OBVIOUS
      <4>1. past' = [past EXCEPT !.tears = @ + 1]
        BY DEF PersistFails
      <4>2. past'.boots = past.boots
        BY <3>1, <4>1 DEF Past
      <4> QED BY <3>2, <4>2
    <3> QED BY <3>3, <3>4, <3>5, StepKinds DEF Persist, Begins, Stays, Crash
  <2>3. s' = Replay(log) /\ ~up
    BY <2>1, <2>2, BootClean, BootIs
  <2>4. Readable /\ Trails
    BY <2>1 DEF Recovers
  <2>5. CASE Known(s) = Known(Replay(log))
    BY <2>3, <2>5 DEF Found
  <2>6. CASE log # <<>> /\ Known(Applied(s, Last(log))) = Known(Replay(log))
    <3>1. Last(log) # Corrupt
      BY <2>4, <2>6, LastLegible, Kinds
    <3> QED BY <2>3, <2>6, <3>1 DEF Found
  <2> QED BY <2>3, <2>4, <2>5, <2>6 DEF Trails
<1>2. Spec => [][Finds]_vars
  BY <1>1, TypesAlways, RecoversAlways, PTL DEF Spec
<1> QED BY <1>2 DEF Resumes

-----------------------------------------------------------------------------
(* Signed orders *)

(* A command lowers nobody's last nonce; an order that is taken raises it.  *)
LEMMA LastGrows ==
    ASSUME NEW e, State(e), NEW k, IsCommand(k)
    PROVE  /\ \A o \in Owners : e.last[o] <= Applied(e, k).last[o]
           /\ k.c = "place" /\ Takes(e, k) =>
                 /\ e.last[k.o] < k.nonce /\ Applied(e, k).last[k.o] = k.nonce
                 /\ \A o \in Owners \ {k.o} : Applied(e, k).last[o] = e.last[o]
           /\ ~(k.c = "place" /\ Takes(e, k)) => Applied(e, k).last = e.last
<1>1. Applied(e, k).last = LastAfter(e, k)
  BY AppliedIs
<1>2. e.last \in [Owners -> Int]
  BY DEF State, Engines
<1>3. CASE k.c = "place" /\ Takes(e, k)
  <2>1. k.o \in Owners /\ k.nonce \in Nat
    BY <1>3 DEF IsCommand
  <2>2. k.nonce > e.last[k.o]
    BY <1>3 DEF Takes
  <2>3. Applied(e, k).last = [e.last EXCEPT ![k.o] = k.nonce]
    BY <1>1, <1>3 DEF LastAfter
  <2> DEFINE L == Applied(e, k).last
             M == e.last
             o == k.o
             n == k.nonce
  <2>4. L = [M EXCEPT ![o] = n] /\ M \in [Owners -> Int] /\ o \in Owners /\ n \in Nat
        /\ n > M[o]
    BY <1>2, <2>1, <2>2, <2>3
  <2> HIDE DEF L, M, o, n
  <2>5. /\ \A p \in Owners : M[p] <= L[p]
        /\ M[o] < n /\ L[o] = n /\ \A p \in Owners \ {o} : L[p] = M[p]
    BY ONLY <2>4
  <2> QED BY <1>3, <2>5 DEF L, M, o, n
<1>4. CASE ~(k.c = "place" /\ Takes(e, k))
  <2>1. Applied(e, k).last = e.last
    BY <1>1, <1>4 DEF LastAfter
  <2> QED BY <1>2, <1>4, <2>1
<1> QED BY <1>3, <1>4

\* no state the venue is in has forgotten a signed nonce it took
Remembers == Clean => \A x \in past.seen : x[2] <= s.last[x[1]]

(* What the properties speak of, a step at a time.                          *)
LEMMA PastIs ==
    ASSUME TInv, [Next]_vars, Clean'
    PROVE  \/ past'.seen = past.seen /\ s'.last = s.last
           \/ Execute /\ past'.seen = SeenAfter(Head(todo))
           \/ past'.seen = past.seen /\ ~up /\ s' = Replay(log)
<1>1. past \in Past
  BY DEF TInv, Process
<1>2. CASE Begins
  BY <1>2, BeginsIs DEF Begins
<1>3. CASE Execute
  <2>1. past' = [past EXCEPT !.refused = RefusedAfter(Head(todo)),
                             !.seen = SeenAfter(Head(todo))]
    BY <1>3 DEF Execute
  <2> QED BY <1>1, <1>3, <2>1 DEF Past
<1>4. ASSUME NEW fresh \in BOOLEAN, Boot(fresh)
      PROVE  past'.seen = past.seen /\ ~up /\ s' = Replay(log)
  <2> DEFINE n == IF fresh THEN 1 ELSE 0
             Z == [w \in Wallets |-> 0]
             D == [last |-> s'.last, rest |-> Quoting(s')]
  <2>1. past' = [past EXCEPT !.boots = @ + 1, !.fresh = @ + n, !.refused = Z, !.start = D]
    BY <1>4, BootIs
  <2> HIDE DEF n, Z, D
  <2>2. past'.seen = past.seen
    BY ONLY <1>1, <2>1 DEF Past
  <2> QED BY <1>4, <2>2, BootClean, BootIs
<1>5. CASE Persist \/ Stays \/ Crash \/ UNCHANGED vars
  BY <1>5 DEF Persist, Stays, Crash, vars
<1>6. CASE PersistFails
  <2>1. past' = [past EXCEPT !.tears = @ + 1] /\ s' = s
    BY <1>6 DEF PersistFails
  <2> QED BY <1>1, <2>1 DEF Past
<1> QED BY <1>2, <1>3, <1>4, <1>5, <1>6, StepKinds

(* Every step keeps it.                                                     *)
LEMMA RemembersKept == TInv /\ Recovers /\ Remembers /\ [Next]_vars => Remembers'
<1> SUFFICES ASSUME TInv, Recovers, Remembers, [Next]_vars, Clean',
                    NEW x \in past'.seen
             PROVE  x[2] <= s'.last[x[1]]
  BY DEF Remembers
<1>1. Clean
  BY CleanBefore
<1>2. State(s) /\ past.seen \in SUBSET (Owners \X Nat) /\ s.last \in [Owners -> Int]
  BY DEF TInv, Process, Past, State, Engines
<1>3. \A y \in past.seen : y[2] <= s.last[y[1]] /\ y[1] \in Owners /\ y[2] \in Nat
  BY <1>1, <1>2 DEF Remembers
<1>4. CASE past'.seen = past.seen /\ s'.last = s.last
  BY <1>3, <1>4
<1>5. CASE Execute /\ past'.seen = SeenAfter(Head(todo))
  <2> DEFINE k == Head(todo)
  <2>1. IsCommand(k) /\ s' = Applied(s, k) /\ State(s')
    BY <1>5, ExecuteIs
  <2>2. s'.last \in [Owners -> Int]
    BY <2>1 DEF State, Engines
  <2>3. CASE x \in past.seen
    <3>1. s.last[x[1]] <= s'.last[x[1]] /\ x[2] <= s.last[x[1]]
      BY <1>2, <1>3, <2>1, <2>3, LastGrows
    <3> QED BY <1>2, <1>3, <2>2, <2>3, <3>1
  <2>4. CASE x \notin past.seen
    <3>1. x = <<k.o, k.nonce>> /\ k.c = "place" /\ Takes(s, k)
      BY <1>5, <2>4 DEF SeenAfter
    <3>2. s'.last[k.o] = k.nonce /\ k.nonce \in Nat
      BY <1>2, <2>1, <3>1, LastGrows DEF IsCommand
    <3> QED BY <3>1, <3>2
  <2> QED BY <2>3, <2>4
<1>6. CASE past'.seen = past.seen /\ ~up /\ s' = Replay(log)
  <2>1. State(s') /\ Readable
    BY <1>1, <1>6 DEF TInv, Disk, Recovers
  <2>2. CASE Known(s) = Known(Replay(log))
    <3>1. s'.last = s.last
      BY <1>2, <1>6, <2>1, <2>2, KnownParts
    <3> QED BY <1>3, <1>6, <3>1
  <2>3. CASE log # <<>> /\ Known(Applied(s, Last(log))) = Known(Replay(log))
    <3>1. Last(log) \in CommandSet
      BY <2>1, <2>3, LastLegible
    <3>2. IsCommand(Last(log))
      BY <3>1, Kinds
    <3>3. State(Applied(s, Last(log)))
      BY <1>2, <3>2, AppliedState
    <3>4. s'.last = Applied(s, Last(log)).last
      BY <1>6, <2>1, <2>3, <3>3, KnownParts
    <3>5. s.last[x[1]] <= s'.last[x[1]] /\ x[2] <= s.last[x[1]] /\ x[1] \in Owners
      BY <1>2, <1>3, <1>6, <3>2, <3>4, LastGrows
    <3>6. s'.last[x[1]] \in Int /\ s.last[x[1]] \in Int /\ x[2] \in Nat
      BY <1>2, <1>3, <1>6, <2>1, <3>5 DEF State, Engines
    <3> QED BY <3>5, <3>6
  <2> QED BY <1>1, <1>6, <2>2, <2>3 DEF Recovers, Trails
<1> QED BY <1>4, <1>5, <1>6, PastIs

(* It holds in every run.                                                   *)
LEMMA RemembersAlways == Spec => []Remembers
<1>1. Init => Remembers
  BY DEF Init, Remembers
<1> QED BY <1>1, TypesAlways, RecoversAlways, RemembersKept, PTL DEF Spec

(* A signed order the engine took is never taken again, however often it is *)
(* sent, under whatever id, and however often the venue restarts in         *)
(* between, provided every line reads back as it was written and none was   *)
(* appended to a part of one (placeOrder's nonce check, over what           *)
(* replayBootLog restores).                                                 *)
THEOREM SignedOrdersTakenOnce == Spec => SignedOnce
<1> DEFINE Once == Execute /\ Clean /\ TakesSigned(Head(todo))
                     => ~TakenBefore(Head(todo))
<1>1. TInv /\ Remembers /\ [Next]_vars => [Once]_vars
  <2> DEFINE k == Head(todo)
  <2> SUFFICES ASSUME TInv, Remembers, Execute, Clean, TakesSigned(k),
                      TakenBefore(k)
               PROVE  FALSE
    OBVIOUS
  <2>1. IsCommand(k) /\ k.c = "place" /\ Takes(s, k)
    BY ExecuteIs DEF TakesSigned
  <2>2. k.o \in Owners /\ k.nonce \in Nat /\ s.last \in [Owners -> Int]
    BY <2>1 DEF IsCommand, TInv, Process, State, Engines
  <2>3. k.nonce > s.last[k.o]
    BY <2>1 DEF Takes
  <2>4. \A x \in past.seen : x[2] <= s.last[x[1]]
    BY DEF Remembers
  <2> HIDE DEF k
  <2>5. k.nonce <= s.last[k.o]
    BY <2>4, <2>2 DEF TakenBefore
  <2> QED BY <2>2, <2>3, <2>5
<1>2. Spec => [][Once]_vars
  BY <1>1, TypesAlways, RemembersAlways, PTL DEF Spec
<1> QED BY <1>2 DEF SignedOnce

-----------------------------------------------------------------------------
(* What the handlers dispatch *)

\* a list of one command, which is no part of a welcome
Asks(k) ==
    /\ todo' = <<k>> /\ s' = s /\ k.c \notin {"deposit", "tier"}
    /\ k.c = "cancel" => origin' = "socket"
    /\ k.c = "place" /\ ~k.signed =>
          /\ k.nonce = srv.nonces[k.o] + 1
          /\ srv'.nonces = [srv.nonces EXCEPT ![k.o] = srv.nonces[k.o] + 1]
    /\ ~(k.c = "place" /\ ~k.signed) => srv'.nonces = srv.nonces
    /\ k.c = "place" => origin' = "socket" /\ k.o \in Wallets

\* what a handler starts with
Begun ==
    \/ origin' = "timer" /\ s' = s /\ srv' = srv /\ todo' = Cancels \o Ladder
    \/ \E w \in Wallets : /\ origin' = "socket" /\ srv' = srv /\ todo' = Welcome(w)
                          /\ s' = [s EXCEPT !.accounts = @ \cup {w}]
    \/ \E k \in CommandSet : Asks(k)

(* Every handler starts with one of these.                                  *)
LEMMA StartsBegun == ASSUME TInv, Starts PROVE Begun
<1>1. srv \in Server /\ s.holds \subseteq Owners /\ s.rest \subseteq Resting
      /\ Len(settled) + 1 \in Nat
  BY DEF TInv, Process, Chain, State, Engines
<1>2. CASE Requote
  BY <1>2 DEF Requote, Handle, Dispatches, Begun, Cancels
<1>3. ASSUME NEW w \in Wallets, Connect(w) PROVE Begun
  BY <1>3 DEF Connect, Handle, Dispatches, Begun
<1>4. CASE OracleTick
  <2>1. PICK ruins \in SUBSET s.holds : /\ todo' = <<[c |-> "tick", ruins |-> ruins]>>
                                        /\ s' = s /\ srv' = srv
    BY <1>4 DEF OracleTick, Handle, Dispatches
  <2> DEFINE k == [c |-> "tick", ruins |-> ruins]
  <2>2. k \in CommandSet /\ k.c = "tick" /\ todo' = <<k>>
    BY <1>1, <2>1, CommandsAre
  <2> HIDE DEF k
  <2>3. Asks(k)
    BY <2>1, <2>2 DEF Asks
  <2> QED BY <2>2, <2>3 DEF Begun
<1>5. CASE EpochKnown
  <2> DEFINE k == [c |-> "epoch", id |-> Len(settled) + 1]
  <2>1. todo' = <<k>> /\ s' = s /\ srv' = srv
    BY <1>5 DEF EpochKnown, Handle, Dispatches
  <2>2. k \in CommandSet /\ k.c = "epoch"
    BY <1>1, CommandsAre
  <2> HIDE DEF k
  <2>3. Asks(k)
    BY <2>1, <2>2 DEF Asks
  <2> QED BY <2>2, <2>3 DEF Begun
<1>6. CASE DemoReduceOnly
  <2>1. srv' = [srv EXCEPT !.forced = ~@] /\ s' = s
        /\ todo' = <<[c |-> "mode", on |-> srv'.forced]>>
    BY <1>6 DEF DemoReduceOnly, Handle, Dispatches
  <2>2. srv'.forced \in BOOLEAN /\ srv'.nonces = srv.nonces
    BY <1>1, <2>1 DEF Server
  <2> DEFINE k == [c |-> "mode", on |-> srv'.forced]
  <2>3. k \in CommandSet /\ k.c = "mode" /\ todo' = <<k>>
    BY <2>1, <2>2, CommandsAre
  <2> HIDE DEF k
  <2>4. Asks(k)
    BY <2>1, <2>2, <2>3 DEF Asks
  <2> QED BY <2>3, <2>4 DEF Begun
<1>7. ASSUME NEW w \in Wallets, PlaceOrder(w) \/ MarketClose(w) PROVE Begun
  <2>1. PICK name \in Naming(w), r \in BOOLEAN, t \in BOOLEAN :
           /\ todo' = <<Unsigned(w, name, r, t)>> /\ origin' = "socket" /\ s' = s
           /\ srv' = Drawn(w, name)
    <3>1. Numbered(w) \in Naming(w)
      BY DEF Naming
    <3> QED BY <1>7, <3>1 DEF PlaceOrder, MarketClose, Handle, Dispatches
  <2> DEFINE k == Unsigned(w, name, r, t)
  <2>2. k.c = "place" /\ k.o = w /\ ~k.signed /\ k.nonce = srv.nonces[w] + 1
    BY DEF Unsigned
  <2>3. k \in CommandSet
    <3>1. w \in Owners /\ name.id \in OrderIds /\ srv.nonces[w] + 1 \in Nat
      BY <1>1, OwnersAre, NamesAre DEF Server
    <3> QED BY <3>1, CommandsAre DEF Unsigned
  <2>4. srv'.nonces = [srv.nonces EXCEPT ![w] = srv.nonces[w] + 1]
    <3> DEFINE N == [srv.nonces EXCEPT ![w] = srv.nonces[w] + 1]
               m == name.orders
    <3>1. Drawn(w, name) = [srv EXCEPT !.orders = m, !.nonces = N]
      BY DEF Drawn
    <3> HIDE DEF N, m
    <3> QED BY <1>1, <2>1, <3>1 DEF Server, N
  <2> HIDE DEF k
  <2>5. Asks(k)
    BY <2>1, <2>2, <2>4 DEF Asks, k
  <2> QED BY <2>3, <2>5 DEF Begun
<1>8. ASSUME NEW w \in Wallets, PlaceSigned(w) PROVE Begun
  <2>1. PICK n \in SignedNonces, name \in Naming(w) :
           /\ todo' = <<[c |-> "place", o |-> w, id |-> name.id, nonce |-> n,
                         rests |-> FALSE, closes |-> FALSE, signed |-> TRUE]>>
           /\ origin' = "socket" /\ s' = s /\ srv' = [srv EXCEPT !.orders = name.orders]
    BY <1>8 DEF PlaceSigned, Handle, Dispatches
  <2> DEFINE k == [c |-> "place", o |-> w, id |-> name.id, nonce |-> n,
                   rests |-> FALSE, closes |-> FALSE, signed |-> TRUE]
  <2>2. k.c = "place" /\ k.o = w /\ k.signed
    OBVIOUS
  <2>3. k \in CommandSet
    <3>1. w \in Owners /\ name.id \in OrderIds /\ n \in Nat
      BY <1>1, OwnersAre, NamesAre, VenueAssumption
    <3> QED BY <3>1, CommandsAre
  <2>4. srv'.nonces = srv.nonces
    BY <1>1, <2>1 DEF Server
  <2>5. todo' = <<k>>
    BY <2>1
  <2> HIDE DEF k
  <2>6. Asks(k)
    BY <2>1, <2>2, <2>4, <2>5 DEF Asks
  <2> QED BY <2>3, <2>6 DEF Begun
<1>9. ASSUME NEW w \in Wallets, Cancel(w) PROVE Begun
  <2>1. PICK i \in ({r.id : r \in s.rest} \cup Given) \ Integral :
           /\ todo' = <<[c |-> "cancel", o |-> w, id |-> i]>>
           /\ origin' = "socket" /\ s' = s /\ srv' = srv
    BY <1>9 DEF Cancel, Handle, Dispatches
  <2> DEFINE k == [c |-> "cancel", o |-> w, id |-> i]
  <2>2. k \in CommandSet /\ k.c = "cancel" /\ todo' = <<k>>
    <3>1. w \in Owners /\ i \in OrderIds
      BY <1>1, OwnersAre, IdsAre DEF Resting
    <3> QED BY <2>1, <3>1, CommandsAre
  <2> HIDE DEF k
  <2>3. Asks(k)
    BY <2>1, <2>2 DEF Asks
  <2> QED BY <2>2, <2>3 DEF Begun
<1> QED BY <1>2, <1>3, <1>4, <1>5, <1>6, <1>7, <1>8, <1>9 DEF Starts

(* The lists of a requote hold cancels, then orders.                        *)
LEMMA LadderIs ==
    ASSUME TInv
    PROVE  LET L == Cancels \o Ladder
               n == Len(mm.live)
           IN  /\ Len(L) = n + Quotes /\ n \in Nat
               /\ \A i : i \in 1 .. n =>
                     /\ L[i].c = "cancel" /\ L[i].o = MM /\ L[i].id = mm.live[i]
               /\ \A i : i \in (n + 1) .. (n + Quotes) =>
                     L[i].c = "place" /\ L[i].o = MM
<1>1. Quotes \in Nat /\ mm.live \in Seq(OrderIds) /\ Len(mm.live) \in Nat
  BY VenueAssumption DEF TInv, Process, Maker
<1> DEFINE n == Len(mm.live)
           C == Cancels
           D == Ladder
<1>2. /\ C \in Seq(CommandSet) /\ Len(C) = n
      /\ \A i : i \in 1 .. n => C[i].c = "cancel" /\ C[i].o = MM /\ C[i].id = mm.live[i]
  BY <1>1, LadderLists DEF Cancels
<1>3. /\ D \in Seq(CommandSet) /\ Len(D) = Quotes
      /\ \A i : i \in 1 .. Quotes => D[i].c = "place" /\ D[i].o = MM
  BY <1>1, LadderLists DEF Ladder
<1> HIDE DEF C, D
<1>4. /\ Len(C \o D) = n + Quotes
      /\ \A i : i \in 1 .. n => (C \o D)[i] = C[i]
      /\ \A i : i \in (n + 1) .. (n + Quotes) => (C \o D)[i] = D[i - n]
  <2>1. /\ Len(C \o D) = Len(C) + Len(D)
        /\ \A i \in 1 .. Len(C) + Len(D) :
              (C \o D)[i] = IF i <= Len(C) THEN C[i] ELSE D[i - Len(C)]
    <3>1. C \in Seq(CommandSet) /\ D \in Seq(CommandSet)
      BY <1>2, <1>3
    <3> QED BY ONLY <3>1, ConcatProperties
  <2> HIDE DEF n
  <2>2. n \in Nat /\ Len(C) = n /\ Len(D) = Quotes /\ Quotes \in Nat
    BY <1>1, <1>2, <1>3 DEF n
  <2> QED BY ONLY <2>1, <2>2
<1>5. \A i : i \in (n + 1) .. (n + Quotes) => i - n \in 1 .. Quotes
  BY <1>1
<1>6. /\ Len(C \o D) = n + Quotes /\ n \in Nat
      /\ \A i : i \in 1 .. n =>
            (C \o D)[i].c = "cancel" /\ (C \o D)[i].o = MM /\ (C \o D)[i].id = mm.live[i]
      /\ \A i : i \in (n + 1) .. (n + Quotes) =>
            (C \o D)[i].c = "place" /\ (C \o D)[i].o = MM
  BY <1>1, <1>2, <1>3, <1>4, <1>5
<1> QED BY <1>6 DEF C, D

-----------------------------------------------------------------------------
(* The roots on chain *)

\* a tier is the first command of a socket's list, and a list funds one owner
Ordered == /\ \A i : i \in DOMAIN todo /\ todo[i].c = "tier"
                       => i = 1 /\ origin = "socket"
           /\ \A i, j : i \in DOMAIN todo /\ todo[i].c = "deposit"
                         /\ j \in DOMAIN todo /\ todo[j].c = "deposit" => i = j

(* What is left of a list after its first command.                          *)
LEMMA TailIs ==
    ASSUME NEW X, NEW l \in Seq(X), l # <<>>
    PROVE  /\ Tail(l) \in Seq(X) /\ Len(Tail(l)) = Len(l) - 1 /\ Len(l) \in Nat \ {0}
           /\ \A i : i \in DOMAIN Tail(l) => i + 1 \in DOMAIN l /\ Tail(l)[i] = l[i + 1]
           /\ Head(l) = l[1] /\ 1 \in DOMAIN l /\ Head(l) \in X
           /\ Tail(l) # <<>> => Head(Tail(l)) = l[2] /\ 2 \in DOMAIN l
<1>1. Len(l) \in Nat \ {0} /\ DOMAIN l = 1 .. Len(l)
  OBVIOUS
<1> DEFINE T == Tail(l)
<1>2. /\ T \in Seq(X) /\ Len(T) = Len(l) - 1 /\ \A i \in 1 .. Len(T) : T[i] = l[i + 1]
      /\ Head(l) = l[1] /\ Head(l) \in X
  BY <1>1, HeadTailProperties
<1> HIDE DEF T
<1>3. DOMAIN T = 1 .. Len(T)
  BY <1>2
<1>4. T # <<>> => Len(T) \in Nat \ {0} /\ Head(T) = T[1]
  BY <1>2
<1>5. \A i : i \in DOMAIN T => i + 1 \in DOMAIN l /\ T[i] = l[i + 1]
  BY <1>1, <1>2, <1>3
<1>6. T # <<>> => Head(T) = l[2] /\ 2 \in DOMAIN l
  BY <1>1, <1>2, <1>4
<1> QED BY <1>1, <1>2, <1>5, <1>6 DEF T

(* The lists of the welcome and of the start.                               *)
LEMMA WelcomeIs ==
    ASSUME NEW w \in Wallets
    PROVE  \/ Welcome(w) = <<>> /\ ~(Demo /\ w \notin s.funded)
           \/ /\ Welcome(w) = <<[c |-> "tier", o |-> w], [c |-> "deposit", o |-> w]>>
              /\ w \notin s.funded
BY DEF Welcome

(* Short lists, put together.                                               *)
LEMMA Joined ==
    /\ \A x, y : <<x>> \o <<y>> = <<x, y>>
    /\ \A x, y, z : <<x, y>> \o <<z>> = <<x, y, z>>
<1>1. ASSUME NEW x, NEW y PROVE <<x>> \o <<y>> = <<x, y>>
  <2> DEFINE X == {x, y}
             a == <<x>>
             b == <<y>>
             c == <<x, y>>
  <2>1. a \in Seq(X) /\ b \in Seq(X) /\ c \in Seq(X)
    OBVIOUS
  <2>2. Len(a) = 1 /\ a[1] = x /\ Len(b) = 1 /\ b[1] = y /\ Len(c) = 2 /\ c[1] = x /\ c[2] = y
    OBVIOUS
  <2> HIDE DEF a, b, c, X
  <2>3. /\ a \o b \in Seq(X) /\ Len(a \o b) = 2
        /\ \A i \in 1 .. 2 : (a \o b)[i] = IF i <= 1 THEN a[i] ELSE b[i - 1]
    <3>1. /\ a \o b \in Seq(X) /\ Len(a \o b) = Len(a) + Len(b)
          /\ \A i \in 1 .. Len(a) + Len(b) :
                (a \o b)[i] = IF i <= Len(a) THEN a[i] ELSE b[i - Len(a)]
      BY ONLY <2>1, ConcatProperties
    <3> QED BY ONLY <2>2, <3>1
  <2>4. \A i \in 1 .. Len(c) : (a \o b)[i] = c[i]
    BY <2>2, <2>3
  <2>5. a \o b = c
    BY ONLY <2>1, <2>2, <2>3, <2>4, SeqEqual
  <2> QED BY <2>5 DEF a, b, c
<1>2. ASSUME NEW x, NEW y, NEW z PROVE <<x, y>> \o <<z>> = <<x, y, z>>
  <2> DEFINE X == {x, y, z}
             a == <<x, y>>
             b == <<z>>
             c == <<x, y, z>>
  <2>1. a \in Seq(X) /\ b \in Seq(X) /\ c \in Seq(X)
    OBVIOUS
  <2>2. /\ Len(a) = 2 /\ a[1] = x /\ a[2] = y /\ Len(b) = 1 /\ b[1] = z
        /\ Len(c) = 3 /\ c[1] = x /\ c[2] = y /\ c[3] = z
    OBVIOUS
  <2> HIDE DEF a, b, c, X
  <2>3. /\ a \o b \in Seq(X) /\ Len(a \o b) = 3
        /\ \A i \in 1 .. 3 : (a \o b)[i] = IF i <= 2 THEN a[i] ELSE b[i - 2]
    <3>1. /\ a \o b \in Seq(X) /\ Len(a \o b) = Len(a) + Len(b)
          /\ \A i \in 1 .. Len(a) + Len(b) :
                (a \o b)[i] = IF i <= Len(a) THEN a[i] ELSE b[i - Len(a)]
      BY ONLY <2>1, ConcatProperties
    <3> QED BY ONLY <2>2, <3>1
  <2>4. \A i \in 1 .. Len(c) : (a \o b)[i] = c[i]
    BY <2>2, <2>3
  <2>5. a \o b = c
    BY ONLY <2>1, <2>2, <2>3, <2>4, SeqEqual
  <2> QED BY <2>5 DEF a, b, c
<1> QED BY <1>1, <1>2

(* What a start dispatches, and that it funds the maker at most once.       *)
LEMMA BootListIs ==
    ASSUME NEW e
    PROVE  /\ \A i : i \in DOMAIN BootCommands(e) =>
                 /\ BootCommands(e)[i].c \in {"tick", "deposit", "mode"}
                 /\ BootCommands(e)[i].c = "deposit" =>
                       BootCommands(e)[i].o = MM /\ MM \notin e.funded
           /\ \A i, j : i \in DOMAIN BootCommands(e) /\ BootCommands(e)[i].c = "deposit"
                         /\ j \in DOMAIN BootCommands(e) /\ BootCommands(e)[j].c = "deposit"
                         => i = j
<1> DEFINE t == [c |-> "tick", ruins |-> {}]
           d == [c |-> "deposit", o |-> MM]
           m == [c |-> "mode", on |-> FALSE]
           L == BootCommands(e)
<1>1. t.c = "tick" /\ d.c = "deposit" /\ d.o = MM /\ m.c = "mode"
  OBVIOUS
<1>2. L \in {<<m>>, <<t, m>>, <<t, d, m>>, <<d, m>>}
      /\ (L \in {<<t, d, m>>, <<d, m>>} => MM \notin e.funded)
  <2> HIDE DEF t, d, m
  <2>1. <<>> \o <<>> \o <<m>> = <<m>> /\ <<t>> \o <<>> \o <<m>> = <<t, m>>
        /\ <<t>> \o <<d>> \o <<m>> = <<t, d, m>> /\ <<>> \o <<d>> \o <<m>> = <<d, m>>
    <3>1. \A x : <<>> \o <<x>> = <<x>> /\ <<x>> \o <<>> = <<x>> /\ <<>> \o <<>> = <<>>
      OBVIOUS
    <3>3. <<t>> \o <<m>> = <<t, m>> /\ <<t>> \o <<d>> = <<t, d>> /\ <<d>> \o <<m>> = <<d, m>>
      BY ONLY Joined
    <3>4. <<t, d>> \o <<m>> = <<t, d, m>>
      BY ONLY Joined
    <3> QED BY ONLY <3>1, <3>3, <3>4
  <2>2. CASE e.open /\ MM \in e.funded
    <3>1. L = <<>> \o <<>> \o <<m>>
      BY <2>2 DEF BootCommands, t, d, m
    <3>2. <<m>> # <<t, d, m>> /\ (<<m>> = <<d, m>> => FALSE)
      OBVIOUS
    <3> HIDE DEF L
    <3> QED BY <2>1, <3>1, <3>2
  <2>3. CASE ~e.open /\ MM \in e.funded
    <3>1. L = <<t>> \o <<>> \o <<m>>
      BY <2>3 DEF BootCommands, t, d, m
    <3>2. <<t, m>> # <<t, d, m>> /\ <<t, m>> # <<d, m>>
      BY <1>1 DEF t, d
    <3> HIDE DEF L
    <3> QED BY <2>1, <3>1, <3>2
  <2>4. CASE e.open /\ MM \notin e.funded
    <3>1. L = <<>> \o <<d>> \o <<m>>
      BY <2>4 DEF BootCommands, t, d, m
    <3> HIDE DEF L
    <3> QED BY <2>1, <2>4, <3>1
  <2>5. CASE ~e.open /\ MM \notin e.funded
    <3>1. L = <<t>> \o <<d>> \o <<m>>
      BY <2>5 DEF BootCommands, t, d, m
    <3> HIDE DEF L
    <3> QED BY <2>1, <2>5, <3>1
  <2> QED BY <2>2, <2>3, <2>4, <2>5
<1> HIDE DEF t, d, m, L
<1>3. CASE L = <<m>>
  BY <1>1, <1>3 DEF L
<1>4. CASE L = <<t, m>>
  BY <1>1, <1>4 DEF L
<1>5. CASE L = <<t, d, m>>
  BY <1>1, <1>2, <1>5 DEF L
<1>6. CASE L = <<d, m>>
  BY <1>1, <1>2, <1>6 DEF L
<1> QED BY <1>2, <1>3, <1>4, <1>5, <1>6

(* Every step keeps the lists in order.                                     *)
LEMMA OrderedKept == TInv /\ Ordered /\ [Next]_vars => Ordered'
<1> SUFFICES ASSUME TInv, Ordered, [Next]_vars PROVE Ordered'
  OBVIOUS
<1>1. CASE todo' = todo /\ origin' = origin
  BY <1>1 DEF Ordered
<1>2. CASE todo' = <<>>
  BY <1>2 DEF Ordered
<1>3. CASE Execute
  <2>1. todo \in Seq(CommandSet) /\ todo # <<>> /\ todo' = Tail(todo)
    BY <1>3 DEF TInv, Process, Execute
  <2>2. /\ Len(todo) \in Nat
        /\ \A i : i \in DOMAIN todo' => /\ i + 1 \in DOMAIN todo /\ todo'[i] = todo[i + 1]
                                        /\ i \in Nat \ {0}
    <3>1. \A i : i \in DOMAIN todo' => i + 1 \in DOMAIN todo /\ todo'[i] = todo[i + 1]
      BY <2>1, TailIs
    <3>2. todo' \in Seq(CommandSet) /\ Len(todo) \in Nat
      BY <2>1, TailIs
    <3>3. \A i : i \in DOMAIN todo' => i \in Nat \ {0}
      BY <3>2
    <3> QED BY <3>1, <3>2, <3>3
  <2>3. \A i : i \in Nat \ {0} => i + 1 # 1
    OBVIOUS
  <2>4. \A i, j : i \in Nat /\ j \in Nat /\ i + 1 = j + 1 => i = j
    OBVIOUS
  <2>5. \A i : i \in DOMAIN todo' => todo'[i].c # "tier"
    BY <2>2, <2>3 DEF Ordered
  <2>6. \A i, j : i \in DOMAIN todo' /\ todo'[i].c = "deposit"
                   /\ j \in DOMAIN todo' /\ todo'[j].c = "deposit" => i = j
    <3> SUFFICES ASSUME NEW i, NEW j,
                        i \in DOMAIN todo', todo'[i].c = "deposit",
                        j \in DOMAIN todo', todo'[j].c = "deposit"
                 PROVE  i = j
      OBVIOUS
    <3>1. /\ i + 1 \in DOMAIN todo /\ todo[i + 1].c = "deposit"
          /\ j + 1 \in DOMAIN todo /\ todo[j + 1].c = "deposit"
      BY <2>2
    <3>2. i + 1 = j + 1
      BY <3>1 DEF Ordered
    <3> QED BY <2>2, <2>4, <3>2
  <2> QED BY <2>5, <2>6 DEF Ordered
<1>4. CASE Starts
  <2>1. ASSUME NEW w \in Wallets, todo' = Welcome(w), origin' = "socket" PROVE Ordered'
    <3>1. CASE todo' = <<>>
      BY <3>1 DEF Ordered
    <3>2. CASE todo' = <<[c |-> "tier", o |-> w], [c |-> "deposit", o |-> w]>>
      <4> DEFINE t == [c |-> "tier", o |-> w]
                 d == [c |-> "deposit", o |-> w]
      <4>1. t.c = "tier" /\ d.c = "deposit" /\ todo' = <<t, d>>
        BY <3>2
      <4> HIDE DEF t, d
      <4>2. DOMAIN todo' = {1, 2} /\ todo'[1] = t /\ todo'[2] = d
        BY <4>1
      <4> QED BY <2>1, <4>1, <4>2 DEF Ordered
    <3> QED BY <2>1, <3>1, <3>2, WelcomeIs
  <2>2. CASE todo' = Cancels \o Ladder
    <3> DEFINE L == Cancels \o Ladder
               n == Len(mm.live)
    <3>1. /\ Len(L) = n + Quotes /\ n \in Nat /\ Quotes \in Nat
          /\ \A i : i \in 1 .. n => L[i].c = "cancel"
          /\ \A i : i \in (n + 1) .. (n + Quotes) => L[i].c = "place"
      BY LadderIs, VenueAssumption
    <3>2. L \in Seq(CommandSet)
      BY LadderLists
    <3> HIDE DEF L, n
    <3>3. \A i : i \in DOMAIN L => i \in 1 .. n \/ i \in (n + 1) .. (n + Quotes)
      BY <3>1, <3>2
    <3>4. \A i : i \in DOMAIN L => L[i].c \in {"cancel", "place"}
      BY <3>1, <3>3
    <3> QED BY <2>2, <3>4 DEF Ordered, L
  <2>3. ASSUME NEW k \in CommandSet, Asks(k) PROVE Ordered'
    <3>1. todo' = <<k>> /\ k.c \notin {"deposit", "tier"}
      BY <2>3 DEF Asks
    <3>2. DOMAIN todo' = {1} /\ todo'[1] = k
      BY <3>1
    <3> QED BY <3>1, <3>2 DEF Ordered
  <2> QED BY <1>4, <2>1, <2>2, <2>3, StartsBegun DEF Begun
<1>5. ASSUME NEW fresh \in BOOLEAN, Boot(fresh) PROVE Ordered'
  <2>1. todo' = BootCommands(s')
    BY <1>5, BootIs
  <2> DEFINE L == BootCommands(s')
  <2>2. /\ \A i : i \in DOMAIN L => L[i].c \in {"tick", "deposit", "mode"}
        /\ \A i, j : i \in DOMAIN L /\ L[i].c = "deposit"
                      /\ j \in DOMAIN L /\ L[j].c = "deposit" => i = j
    BY BootListIs
  <2> HIDE DEF L
  <2> QED BY <2>1, <2>2 DEF Ordered, L
<1> QED BY <1>1, <1>2, <1>3, <1>4, <1>5, StepKinds
        DEF Persist, PersistFails, Stays, Crash, vars, handler

(* It holds in every run.                                                   *)
LEMMA OrderedAlways == Spec => []Ordered
<1>1. Init => Ordered
  BY DEF Init, Ordered
<1> QED BY <1>1, TypesAlways, OrderedKept, PTL DEF Spec

\* while the log is clean: the replay has
\* counted every line, and who is funded has an account
Sane(e) == e.funded \subseteq e.accounts
Accounted == Clean => /\ Replay(log).seq = Len(log)
                      /\ Sane(Replay(log)) /\ Sane(Replay(Prior))

(* What a step that leaves it clean does to the log and its replay.         *)
LEMMA LogIs ==
    ASSUME TInv, Recovers, [Next]_vars, Clean'
    PROVE  /\ Clean /\ Readable /\ log \in Seq(CommandSet)
           /\ \/ /\ Persist /\ log' = Append(log, Head(todo)) /\ Prior' = log
                 /\ Head(todo) \in CommandSet /\ Prior = log
                 /\ Replay(log)' = Applied(Replay(log), Head(todo))
              \/ ~Persist /\ log' = log /\ Prior' \in {Prior, log}
<1>1. Clean /\ Readable /\ log \in Seq(CommandSet)
  BY CleanBefore DEF Recovers, Readable
<1>2. CASE Persist
  <2>1. NewLine = Head(todo) /\ Head(todo) \in CommandSet /\ Read(NewLine) = NewLine
    BY <1>2, NewLineIs
  <2>2. /\ log' = Append(log, Head(todo)) /\ Prior' = log
        /\ Replay(log)' = Applied(Replay(log), Head(todo))
    <3>1. Read(Head(todo)) = Head(todo)
      BY <2>1
    <3> QED BY <1>2, <2>1, <3>1, PersistIs, HeardApplies
  <2>3. Prior = log
    BY <1>2 DEF Persist, Prior
  <2> QED BY <1>1, <1>2, <2>1, <2>2, <2>3
<1>3. CASE ~Persist
  <2>1. ASSUME PersistFails PROVE log' = log /\ Prior' \in {Prior, log}
    <3>1. log' = log /\ written' = written
      BY <2>1 DEF PersistFails
    <3> QED BY <3>1 DEF Prior
  <2>2. ASSUME Begins PROVE log' = log /\ Prior' \in {Prior, log}
    <3>1. log' = log /\ written' = written
      BY <2>2 DEF Begins, disk
    <3> QED BY <3>1 DEF Prior
  <2>3. ASSUME Stays PROVE log' = log /\ Prior' \in {Prior, log}
    <3>1. log' = log /\ written' = written
      BY <2>3 DEF Stays, disk, handler
    <3> QED BY <3>1 DEF Prior
  <2>4. ASSUME Crash PROVE log' = log /\ Prior' \in {Prior, log}
    <3>1. log' = log /\ written' = FALSE
      BY <2>4 DEF Crash, disk
    <3> QED BY <3>1 DEF Prior
  <2>5. ASSUME Execute PROVE log' = log /\ Prior' \in {Prior, log}
    BY <2>5, ExecuteIs
  <2>6. ASSUME NEW fresh \in BOOLEAN, Boot(fresh) PROVE log' = log /\ Prior' = log
    BY <2>6, BootIs
  <2>7. ASSUME UNCHANGED vars PROVE log' = log /\ Prior' \in {Prior, log}
    <3>1. log' = log /\ written' = written
      BY <2>7 DEF vars
    <3> QED BY <3>1 DEF Prior
  <2> QED BY <1>1, <1>3, <2>1, <2>2, <2>3, <2>4, <2>5, <2>6, <2>7, StepKinds
<1> QED BY <1>2, <1>3

(* Every step keeps it.                                                     *)
LEMMA AccountedKept == TInv /\ Recovers /\ Accounted /\ [Next]_vars => Accounted'
<1> SUFFICES ASSUME TInv, Recovers, Accounted, [Next]_vars, Clean'
             PROVE  /\ Replay(log)'.seq = Len(log')
                    /\ Sane(Replay(log)') /\ Sane(Replay(Prior)')
  BY DEF Accounted
<1>1. /\ Clean /\ State(Replay(log)) /\ Replay(log).seq = Len(log)
      /\ Sane(Replay(log)) /\ Sane(Replay(Prior))
  BY LogIs DEF TInv, Disk, Accounted
<1>2. CASE Persist
  <2> DEFINE k == Head(todo)
             e == Replay(log)
  <2>1. /\ log' = Append(log, k) /\ log \in Seq(CommandSet) /\ k \in CommandSet
        /\ Prior' = log /\ Replay(log)' = Applied(e, k)
    BY <1>2, LogIs
  <2>2. IsCommand(k)
    BY <2>1, Kinds
  <2> HIDE DEF k, e
  <2>3. /\ Applied(e, k).seq = e.seq + 1 /\ Applied(e, k).funded = FundedAfter(e, k)
        /\ Applied(e, k).accounts = AccountsAfter(e.accounts, k)
    BY <1>1, <2>2, AppliedIs DEF e
  <2>4. Len(Append(log, k)) = Len(log) + 1
    BY <2>1
  <2>5. Sane(Applied(e, k))
    BY <1>1, <2>3 DEF Sane, FundedAfter, AccountsAfter, e
  <2>6. Replay(Prior)' = Replay(log)
    BY <2>1
  <2> QED BY <1>1, <2>1, <2>3, <2>4, <2>5, <2>6 DEF e
<1>3. CASE ~Persist
  <2>1. log' = log /\ Prior' \in {Prior, log}
    BY <1>3, LogIs
  <2> QED BY <1>1, <2>1
<1> QED BY <1>2, <1>3

(* It holds in every run.                                                   *)
LEMMA AccountedAlways == Spec => []Accounted
<1>1. Init => Accounted
  <2> SUFFICES ASSUME Init PROVE Replay(log).seq = Len(log) /\ Sane(Replay(log))
                                 /\ Prior = log
    BY DEF Accounted
  <2>1. log = <<>> /\ ~written
    BY DEF Init
  <2>2. Blank.seq = 0 /\ Sane(Blank)
    BY DEF Blank, Sane
  <2> QED BY <2>1, <2>2, ReplayNothing DEF Prior
<1> QED BY <1>1, TypesAlways, RecoversAlways, AccountedKept, PTL DEF Spec

\* the account a connection made whose tier is not applied yet; with demo there
\* is no other account that no line has made
NewAccount == IF todo # <<>> /\ todo[1].c = "tier" THEN {todo[1].o} ELSE {}
OnlyNew == Clean /\ up => s.accounts = Replay(Prior).accounts \cup NewAccount

(* With demo every step keeps it.                                           *)
LEMMA OnlyNewKept ==
    ASSUME Demo
    PROVE  TInv /\ Recovers /\ Ordered /\ Accounted /\ OnlyNew /\ [Next]_vars => OnlyNew'
<1> SUFFICES ASSUME TInv, Recovers, Ordered, Accounted, OnlyNew, [Next]_vars, Clean', up'
             PROVE  s'.accounts = Replay(Prior)'.accounts \cup NewAccount'
  BY DEF OnlyNew
<1>1. /\ Clean /\ Readable /\ Follows /\ State(s)
      /\ State(Replay(Prior)) /\ Sane(Replay(Prior))
      /\ up => s.accounts = Replay(Prior).accounts \cup NewAccount
  BY LogIs DEF TInv, Process, Disk, Recovers, Accounted, OnlyNew
<1>2. CASE Persist
  <2>1. Prior' = log /\ Prior = log
    BY <1>2, LogIs
  <2>2. UNCHANGED <<s, todo, up>> /\ up
    BY <1>2 DEF Persist
  <2> QED BY <1>1, <2>1, <2>2 DEF NewAccount
<1>3. CASE Execute
  <2> DEFINE k == Head(todo)
             e == Replay(Prior)
  <2>1. /\ IsCommand(k) /\ s' = Applied(s, k) /\ Prior' = log /\ up
        /\ todo' = Tail(todo) /\ todo \in Seq(CommandSet) /\ todo # <<>>
    BY <1>3, ExecuteIs DEF TInv, Process, Execute
  <2>2. Replay(log) = Applied(e, k)
    BY <1>1, <1>3, ExecuteRecovers
  <2>3. k = todo[1] /\ (todo' # <<>> => todo'[1] = todo[2] /\ 2 \in DOMAIN todo)
    <3>1. Tail(todo) # <<>> => Head(Tail(todo)) = todo[2] /\ 2 \in DOMAIN todo
      BY <2>1, TailIs
    <3>2. Tail(todo) \in Seq(CommandSet)
      BY <2>1, TailIs
    <3>3. Tail(todo) # <<>> => Head(Tail(todo)) = Tail(todo)[1]
      BY <3>2, TailIs
    <3> QED BY <2>1, <3>1, <3>3, TailIs
  <2>4. NewAccount' = {}
    <3>1. 2 \in DOMAIN todo => todo[2].c # "tier"
      BY DEF Ordered
    <3> QED BY <2>3, <3>1 DEF NewAccount
  <2> HIDE DEF k, e
  <2>5. /\ Applied(s, k).accounts = AccountsAfter(s.accounts, k)
        /\ Applied(e, k).accounts = AccountsAfter(e.accounts, k)
    BY <1>1, <2>1, AppliedIs DEF e
  <2>6. s.accounts = e.accounts \cup (IF k.c = "tier" THEN {k.o} ELSE {})
    BY <1>1, <2>1, <2>3 DEF NewAccount, e
  <2>7. AccountsAfter(s.accounts, k) = AccountsAfter(e.accounts, k)
    BY <2>6 DEF AccountsAfter
  <2>8. Replay(Prior)' = Applied(e, k)
    BY <2>1, <2>2
  <2> QED BY <2>1, <2>4, <2>5, <2>7, <2>8
<1>4. CASE Begins /\ Starts
  <2>1. UNCHANGED <<log, written, up>> /\ up /\ todo = <<>>
    BY <1>4 DEF Begins, disk, Idle
  <2>2. Prior' = Prior /\ s.accounts = Replay(Prior).accounts
    BY <1>1, <2>1 DEF Prior, NewAccount
  <2>3. ASSUME NEW w \in Wallets, todo' = Welcome(w), s' = [s EXCEPT !.accounts = @ \cup {w}]
        PROVE  s'.accounts = Replay(Prior)'.accounts \cup NewAccount'
    <3>1. s'.accounts = s.accounts \cup {w}
      BY <1>1, <2>3 DEF State, Engines
    <3>2. CASE todo' = <<>> /\ w \in s.funded
      <4>1. s.funded = Replay(Prior).funded
        BY <1>1, <2>1, KnownParts DEF Follows
      <4>2. w \in Replay(Prior).accounts /\ NewAccount' = {}
        BY <1>1, <3>2, <4>1 DEF Sane, NewAccount
      <4> QED BY <2>2, <3>1, <4>2
    <3>3. CASE todo' = <<[c |-> "tier", o |-> w], [c |-> "deposit", o |-> w]>>
      <4> DEFINE t == [c |-> "tier", o |-> w]
                 d == [c |-> "deposit", o |-> w]
      <4>1. t.c = "tier" /\ t.o = w /\ todo' = <<t, d>>
        BY <3>3
      <4> HIDE DEF t, d
      <4>2. todo' # <<>> /\ todo'[1] = t
        BY <4>1
      <4>3. NewAccount' = {w}
        BY <4>1, <4>2 DEF NewAccount
      <4> QED BY <2>2, <3>1, <4>3
    <3> QED BY <2>3, <3>2, <3>3, WelcomeIs
  <2>4. CASE todo' = Cancels \o Ladder /\ s' = s
    <3> DEFINE L == Cancels \o Ladder
               n == Len(mm.live)
    <3>1. /\ Len(L) = n + Quotes /\ n \in Nat /\ Quotes \in Nat
          /\ \A i : i \in 1 .. n => L[i].c = "cancel"
          /\ \A i : i \in (n + 1) .. (n + Quotes) => L[i].c = "place"
      BY LadderIs, VenueAssumption
    <3>2. L \in Seq(CommandSet)
      BY LadderLists
    <3> HIDE DEF L, n
    <3>3. L # <<>> => 1 \in 1 .. n \/ 1 \in (n + 1) .. (n + Quotes)
      BY <3>1, <3>2
    <3>4. NewAccount' = {}
      BY <2>4, <3>1, <3>3 DEF NewAccount, L
    <3> QED BY <2>2, <2>4, <3>4
  <2>5. ASSUME NEW k \in CommandSet, Asks(k)
        PROVE  s'.accounts = Replay(Prior)'.accounts \cup NewAccount'
    <3>1. todo' = <<k>> /\ k.c \notin {"deposit", "tier"} /\ s' = s
      BY <2>5 DEF Asks
    <3>2. todo'[1] = k
      BY <3>1
    <3>3. NewAccount' = {}
      BY <3>1, <3>2 DEF NewAccount
    <3> QED BY <2>2, <3>1, <3>3
  <2> QED BY <1>4, <2>3, <2>4, <2>5, StartsBegun DEF Begun
<1>5. CASE Stays
  <2>1. UNCHANGED <<s, log, todo, written>> /\ up
    BY <1>5 DEF Stays, disk, handler
  <2>2. Prior' = Prior
    BY <2>1 DEF Prior
  <2> QED BY <1>1, <2>1, <2>2 DEF NewAccount
<1>6. ASSUME NEW fresh \in BOOLEAN, Boot(fresh)
      PROVE  s'.accounts = Replay(Prior)'.accounts \cup NewAccount'
  <2>1. /\ s' = Replay(log) /\ Prior' = log /\ log' = log
        /\ todo' = BootCommands(s') /\ todo' \in Seq(CommandSet)
    BY <1>6, BootClean, BootIs
  <2> DEFINE L == BootCommands(s')
  <2>2. \A i : i \in DOMAIN L => L[i].c \in {"tick", "deposit", "mode"}
    BY BootListIs
  <2> HIDE DEF L
  <2>3. L # <<>> => 1 \in DOMAIN L
    BY <2>1 DEF L
  <2>4. NewAccount' = {}
    BY <2>1, <2>2, <2>3 DEF NewAccount, L
  <2> QED BY <2>1, <2>4
<1>7. CASE UNCHANGED vars
  <2>1. UNCHANGED <<up, s, log, todo, written>>
    BY <1>7 DEF vars
  <2>2. Prior' = Prior
    BY <2>1 DEF Prior
  <2> QED BY <1>1, <2>1, <2>2 DEF NewAccount
<1>8. CASE PersistFails
  <2>1. UNCHANGED <<s, log, written>> /\ up /\ todo # <<>> /\ todo' = <<>> /\ origin = "timer"
    BY <1>8 DEF PersistFails
  <2>2. todo \in Seq(CommandSet)
    BY DEF TInv, Process
  <2>3. 1 \in DOMAIN todo
    BY <2>1, <2>2, TailIs
  <2>4. NewAccount = {} /\ NewAccount' = {}
    BY <2>1, <2>3 DEF NewAccount, Ordered
  <2>5. Prior' = Prior
    BY <2>1 DEF Prior
  <2> QED BY <1>1, <2>1, <2>4, <2>5
<1>9. ~Crash
  BY DEF Crash
<1> QED BY <1>2, <1>3, <1>4, <1>5, <1>6, <1>7, <1>8, <1>9, StepKinds

(* It holds in every run.                                                   *)
LEMMA OnlyNewAlways == ASSUME Demo PROVE Spec => []OnlyNew
<1>1. Init => OnlyNew
  BY DEF Init, OnlyNew
<1>2. TInv /\ Recovers /\ Ordered /\ Accounted /\ OnlyNew /\ [Next]_vars => OnlyNew'
  BY OnlyNewKept
<1> QED BY <1>1, <1>2, TypesAlways, RecoversAlways, OrderedAlways, AccountedAlways, PTL
        DEF Spec

\* t names the line of l that closed epoch e and has the root after that line
Rooted(l, t, e) ==
    /\ t.seq \in 1 .. Len(l)
    /\ l[t.seq] = [c |-> "epoch", id |-> e]
    /\ t.root = Root(Replay(SubSeq(l, 1, t.seq)))

\* so does every settlement that was sent, and every one that was mined
Posted == Clean =>
    /\ \A tx : tx \in pool => Rooted(log, tx, tx.id)
    /\ \A e : e \in DOMAIN settled /\ settled[e].by = "venue" => Rooted(log, settled[e], e)

(* A line more changes nothing of what a settlement names.                  *)
LEMMA RootedStays ==
    ASSUME TInv, Recovers, [Next]_vars, Clean', NEW t, NEW e, Rooted(log, t, e)
    PROVE  Rooted(log', t, e)
<1>1. log' = log \/ \E k \in CommandSet : log' = Append(log, k)
  BY LogIs
<1>2. /\ log \in Seq(CommandSet) /\ t.seq \in 1 .. Len(log)
      /\ log[t.seq] = [c |-> "epoch", id |-> e]
      /\ t.root = Root(Replay(SubSeq(log, 1, t.seq)))
  BY LogIs DEF Rooted
<1>3. ASSUME NEW k \in CommandSet, log' = Append(log, k)
      PROVE  Rooted(log', t, e)
  <2> DEFINE n == t.seq
             m == Append(log, k)
  <2>1. Len(m) = Len(log) + 1 /\ m[n] = log[n] /\ n \in 1 .. Len(log) /\ Len(log) \in Nat
    BY <1>2
  <2>2. SubSeq(m, 1, n) = SubSeq(log, 1, n)
    BY <1>2
  <2> HIDE DEF n, m
  <2>3. n \in 1 .. Len(m)
    BY <2>1
  <2> QED BY <1>2, <1>3, <2>1, <2>2, <2>3 DEF n, m, Rooted
<1> QED BY <1>1, <1>2, <1>3 DEF Rooted

(* The root that is sent is the root after the line that asked for it.      *)
LEMMA SentRooted ==
    ASSUME Demo, TInv, Recovers, Accounted, OnlyNew, Execute, Clean, Head(todo).c = "epoch",
           NEW tx, tx = [id |-> Head(todo).id, root |-> Root(s'), seq |-> s'.seq]
    PROVE  Rooted(log, tx, tx.id)
<1> DEFINE k == Head(todo)
           e == Replay(Prior)
<1>1. /\ Readable /\ Follows /\ State(s) /\ State(e) /\ up /\ s' = Applied(s, k)
      /\ k \in CommandSet /\ IsCommand(k) /\ todo \in Seq(CommandSet) /\ todo # <<>>
      /\ log # <<>> /\ Replay(log).seq = Len(log) /\ k.c = "epoch"
  BY ExecuteIs DEF TInv, Process, Disk, Recovers, Accounted, Execute
<1>2. Last(log) = k /\ Replay(log) = Applied(e, k)
  BY <1>1, ExecuteRecovers
<1>3. s.accounts = e.accounts
  <2>1. todo[1] = k
    BY <1>1, TailIs
  <2>2. NewAccount = {}
    BY <1>1, <2>1 DEF NewAccount
  <2> QED BY <1>1, <2>2 DEF OnlyNew
<1>4. s = e
  <2>1. /\ s.seq = e.seq /\ s.open = e.open /\ s.reduceOnly = e.reduceOnly
        /\ s.funded = e.funded /\ s.holds = e.holds /\ s.rest = e.rest
        /\ s.last = e.last
    <3>1. Known(s) = Known(e)
      BY <1>1 DEF Follows
    <3> HIDE DEF e
    <3> QED BY <1>1, <3>1, KnownParts
  <2>2. s \in Engines /\ e \in Engines
    BY <1>1 DEF State
  <2> HIDE DEF e
  <2> QED BY <1>3, <2>1, <2>2 DEF Engines
<1>5. s' = Replay(log)
  BY <1>1, <1>2, <1>4
<1>6. Len(log) \in Nat \ {0} /\ log[Len(log)] = k /\ SubSeq(log, 1, Len(log)) = log
  <2>1. log \in Seq(CommandSet) /\ log # <<>>
    BY <1>1 DEF Readable
  <2>2. Len(log) \in Nat \ {0} /\ SubSeq(log, 1, Len(log)) = log
    BY <2>1
  <2> QED BY <1>2, <2>2 DEF Last
<1>7. k = [c |-> "epoch", id |-> k.id]
  BY <1>1 DEF CommandSet
<1> HIDE DEF k, e
<1>8. tx.id = k.id /\ tx.root = Root(Replay(log)) /\ tx.seq = Len(log)
  BY <1>1, <1>5 DEF k
<1>9. tx.seq \in 1 .. Len(log)
  BY <1>6, <1>8
<1> QED BY <1>6, <1>7, <1>8, <1>9 DEF Rooted

(* With demo every step keeps it.                                           *)
LEMMA PostedKept ==
    ASSUME Demo
    PROVE  TInv /\ Recovers /\ Accounted /\ OnlyNew /\ Posted /\ [Next]_vars => Posted'
<1> SUFFICES ASSUME TInv, Recovers, Accounted, OnlyNew, Posted, [Next]_vars, Clean'
             PROVE  /\ \A tx : tx \in pool' => Rooted(log', tx, tx.id)
                    /\ \A e : e \in DOMAIN settled' /\ settled'[e].by = "venue"
                              => Rooted(log', settled'[e], e)
  BY DEF Posted
<1>1. /\ Clean /\ settled \in Seq(Settlements)
      /\ \A tx : tx \in pool => Rooted(log, tx, tx.id)
      /\ \A e : e \in DOMAIN settled /\ settled[e].by = "venue" => Rooted(log, settled[e], e)
  BY LogIs DEF Posted, TInv, Chain
<1>2. \A t, e : Rooted(log, t, e) => Rooted(log', t, e)
  BY RootedStays
<1>3. ASSUME NEW tx \in pool' PROVE Rooted(log', tx, tx.id)
  <2>1. CASE tx \in pool
    BY <1>1, <1>2, <2>1
  <2>2. CASE tx \notin pool
    <3>1. /\ Execute /\ Head(todo).c = "epoch"
          /\ tx = [id |-> Head(todo).id, root |-> Root(s'), seq |-> s'.seq]
      BY <1>3, <2>2 DEF Next, vars, chain, Persist, PersistFails, Execute, Requote,
         OracleTick, Connect, PlaceOrder, MarketClose, PlaceSigned, Cancel, DemoReduceOnly,
         AskEpoch, EpochKnown, ChainFails, CycleSettles, Mine, Crash, Boot
    <3>2. Rooted(log, tx, tx.id)
      BY <1>1, <3>1, SentRooted
    <3> QED BY <1>2, <3>2
  <2> QED BY <2>1, <2>2
<1>4. ASSUME NEW e, e \in DOMAIN settled', settled'[e].by = "venue"
      PROVE  Rooted(log', settled'[e], e)
  <2>1. CASE settled' = settled
    <3>1. Rooted(log, settled[e], e)
      BY <1>1, <1>4, <2>1
    <3>2. settled'[e] = settled[e]
      BY <2>1
    <3> QED BY <1>2, <3>1, <3>2
  <2>2. ASSUME NEW row, settled' = Append(settled, row),
               \/ row = [by |-> "cycle"]
               \/ \E tx \in pool : /\ tx.id = Len(settled) + 1
                                   /\ row = [by |-> "venue", root |-> tx.root, seq |-> tx.seq]
        PROVE  Rooted(log', settled'[e], e)
    <3>1. /\ DOMAIN settled = 1 .. Len(settled) /\ Len(settled) \in Nat
          /\ DOMAIN settled' = 1 .. (Len(settled) + 1)
          /\ \A i : i \in 1 .. Len(settled) => settled'[i] = settled[i]
          /\ settled'[Len(settled) + 1] = row
      BY <1>1, <2>2
    <3>2. CASE e \in DOMAIN settled
      <4>1. settled'[e] = settled[e] /\ Rooted(log, settled[e], e)
        BY <1>1, <1>4, <3>1, <3>2
      <4> QED BY <1>2, <4>1
    <3>3. CASE e \notin DOMAIN settled
      <4>1. e = Len(settled) + 1 /\ settled'[e] = row
        BY <1>4, <3>1, <3>3
      <4>2. PICK tx \in pool : tx.id = e /\ row = [by |-> "venue", root |-> tx.root, seq |-> tx.seq]
        BY <1>4, <2>2, <4>1
      <4>3. Rooted(log, tx, e)
        BY <1>1, <4>2
      <4>4. Rooted(log, row, e)
        BY <4>2, <4>3 DEF Rooted
      <4> QED BY <1>2, <4>1, <4>4
    <3> QED BY <3>2, <3>3
  <2>3. CASE CycleSettles
    BY <2>2, <2>3 DEF CycleSettles
  <2>4. ASSUME NEW tx \in pool, Mine(tx) PROVE Rooted(log', settled'[e], e)
    BY <2>1, <2>2, <2>4 DEF Mine
  <2>5. settled' = settled \/ CycleSettles \/ \E tx \in pool : Mine(tx)
    BY DEF Next, vars, chain, Persist, PersistFails, Execute, Requote,
       OracleTick, Connect, PlaceOrder, MarketClose, PlaceSigned, Cancel, DemoReduceOnly,
       AskEpoch, EpochKnown, ChainFails, Crash, Boot
  <2> QED BY <2>1, <2>3, <2>4, <2>5
<1> QED BY <1>3, <1>4

(* With demo, and provided every line reads back as it was written and none *)
(* was appended to a part of one, the root of an epoch the venue settled is *)
(* the root after as many lines of the log as it names, and the last of     *)
(* them is its EpochClose (server.ts route: an account is followed by its   *)
(* commands).                                                               *)
THEOREM DemoRootsReplayable == ASSUME Demo PROVE Spec => []RootReplayable
<1>1. Init => Posted
  BY DEF Init, Posted
<1>2. Spec => []Posted
  <2>1. TInv /\ Recovers /\ Accounted /\ OnlyNew /\ Posted /\ [Next]_vars => Posted'
    BY PostedKept
  <2>2. Spec => []OnlyNew
    BY OnlyNewAlways
  <2> QED BY <1>1, <2>1, <2>2, TypesAlways, RecoversAlways, AccountedAlways, PTL DEF Spec
<1>3. TInv /\ Posted => RootReplayable
  <2> SUFFICES ASSUME TInv, Posted, Clean, NEW e \in DOMAIN settled, settled[e].by = "venue"
               PROVE  /\ settled[e].seq <= Len(log)
                      /\ log[settled[e].seq] = [c |-> "epoch", id |-> e]
                      /\ settled[e].root = Root(Replay(SubSeq(log, 1, settled[e].seq)))
    BY DEF RootReplayable
  <2>1. Rooted(log, settled[e], e) /\ Len(log) \in Nat
    BY DEF Posted, TInv, Disk
  <2> QED BY <2>1 DEF Rooted
<1> QED BY <1>2, <1>3, TypesAlways, PTL

-----------------------------------------------------------------------------
(* Deposits *)

\* the lines that fund o, and those at which o loses everything
Funds(l, o) == {i \in DOMAIN l : l[i].c = "deposit" /\ l[i].o = o}
Losses(l, o) == {i \in DOMAIN l : l[i].c = "tick" /\ o \in l[i].ruins}

\* no list funds who has funds; and a deposit more than the losses is held
Needed == \A i : i \in DOMAIN todo /\ todo[i].c = "deposit" => todo[i].o \notin s.funded
Held(e, o) == IF o \in e.funded THEN 1 ELSE 0
Gifts == Clean => \A o \in Owners :
                     Cardinality(Funds(log, o))
                        <= Cardinality(Losses(log, o)) + Held(Replay(log), o)

(* Every step keeps the lists of deposits to those who have no funds.       *)
LEMMA NeededKept == TInv /\ Ordered /\ Needed /\ [Next]_vars => Needed'
<1> SUFFICES ASSUME TInv, Ordered, Needed, [Next]_vars PROVE Needed'
  OBVIOUS
<1>1. CASE todo' = todo /\ s' = s
  BY <1>1 DEF Needed
<1>2. CASE todo' = <<>>
  BY <1>2 DEF Needed
<1>3. CASE Execute
  <2> DEFINE k == Head(todo)
  <2>1. /\ todo \in Seq(CommandSet) /\ todo # <<>> /\ todo' = Tail(todo) /\ IsCommand(k)
        /\ s' = Applied(s, k) /\ State(s)
    BY <1>3, ExecuteIs DEF TInv, Process, Execute
  <2>2. s'.funded = FundedAfter(s, k)
    BY <2>1, AppliedIs
  <2>3. /\ \A i : i \in DOMAIN todo' => i + 1 \in DOMAIN todo /\ todo'[i] = todo[i + 1]
        /\ k = todo[1] /\ 1 \in DOMAIN todo
    BY <2>1, TailIs
  <2>4. \A i : i \in DOMAIN todo' => i + 1 # 1
    <3>1. todo' \in Seq(CommandSet)
      BY <2>1, TailIs
    <3>2. \A i : i \in DOMAIN todo' => i \in Nat \ {0}
      BY <3>1
    <3> QED BY <3>2
  <2>5. ASSUME NEW i, i \in DOMAIN todo', todo'[i].c = "deposit"
        PROVE  todo'[i].o \notin s'.funded
    <3>1. i + 1 \in DOMAIN todo /\ todo[i + 1].c = "deposit" /\ todo'[i] = todo[i + 1]
      BY <2>3, <2>5
    <3>2. k.c # "deposit"
      BY <2>3, <2>4, <2>5, <3>1 DEF Ordered
    <3>3. s'.funded \subseteq s.funded
      BY <2>2, <3>2 DEF FundedAfter
    <3>4. todo[i + 1].o \notin s.funded
      BY <3>1 DEF Needed
    <3> QED BY <3>1, <3>3, <3>4
  <2> QED BY <2>5 DEF Needed
<1>4. CASE Begins /\ Starts
  <2>1. s'.funded = s.funded
    BY <1>4, BeginsIs
  <2>2. ASSUME NEW w \in Wallets, todo' = Welcome(w) PROVE Needed'
    <3>1. CASE todo' = <<>>
      BY <3>1 DEF Needed
    <3>2. CASE /\ todo' = <<[c |-> "tier", o |-> w], [c |-> "deposit", o |-> w]>>
               /\ w \notin s.funded
      <4> DEFINE t == [c |-> "tier", o |-> w]
                 d == [c |-> "deposit", o |-> w]
      <4>1. t.o = w /\ d.o = w /\ todo' = <<t, d>>
        BY <3>2
      <4> HIDE DEF t, d
      <4>2. DOMAIN todo' = {1, 2} /\ todo'[1] = t /\ todo'[2] = d
        BY <4>1
      <4> QED BY <2>1, <3>2, <4>1, <4>2 DEF Needed
    <3> QED BY <2>2, <3>1, <3>2, WelcomeIs
  <2>3. CASE todo' = Cancels \o Ladder
    <3> DEFINE L == Cancels \o Ladder
               n == Len(mm.live)
    <3>1. /\ Len(L) = n + Quotes /\ n \in Nat /\ Quotes \in Nat
          /\ \A i : i \in 1 .. n => L[i].c = "cancel"
          /\ \A i : i \in (n + 1) .. (n + Quotes) => L[i].c = "place"
      BY LadderIs, VenueAssumption
    <3>2. L \in Seq(CommandSet)
      BY LadderLists
    <3> HIDE DEF L, n
    <3>3. \A i : i \in DOMAIN L => i \in 1 .. n \/ i \in (n + 1) .. (n + Quotes)
      BY <3>1, <3>2
    <3>4. \A i : i \in DOMAIN L => L[i].c \in {"cancel", "place"}
      BY <3>1, <3>3
    <3> QED BY <2>3, <3>4 DEF Needed, L
  <2>4. ASSUME NEW k \in CommandSet, Asks(k) PROVE Needed'
    <3>1. todo' = <<k>> /\ k.c \notin {"deposit", "tier"}
      BY <2>4 DEF Asks
    <3>2. DOMAIN todo' = {1} /\ todo'[1] = k
      BY <3>1
    <3> QED BY <3>1, <3>2 DEF Needed
  <2> QED BY <1>4, <2>2, <2>3, <2>4, StartsBegun DEF Begun
<1>5. ASSUME NEW fresh \in BOOLEAN, Boot(fresh) PROVE Needed'
  <2>1. todo' = BootCommands(s')
    BY <1>5, BootIs
  <2> DEFINE L == BootCommands(s')
  <2>2. \A i : i \in DOMAIN L /\ L[i].c = "deposit" => L[i].o = MM /\ MM \notin s'.funded
    BY BootListIs
  <2> HIDE DEF L
  <2> QED BY <2>1, <2>2 DEF Needed, L
<1> QED BY <1>1, <1>2, <1>3, <1>4, <1>5, StepKinds
        DEF Persist, PersistFails, Stays, Crash, vars, handler

(* It holds in every run.                                                   *)
LEMMA NeededAlways == Spec => []Needed
<1>1. Init => Needed
  BY DEF Init, Needed
<1> QED BY <1>1, TypesAlways, OrderedAlways, NeededKept, PTL DEF Spec

\* m has the deposits to o and the losses of o that l has, and those of k
Adds(l, k, m, o) ==
    /\ Cardinality(Funds(l, o)) \in Nat /\ Cardinality(Losses(l, o)) \in Nat
    /\ Cardinality(Funds(m, o)) = Cardinality(Funds(l, o))
          + (IF k.c = "deposit" /\ k.o = o THEN 1 ELSE 0)
    /\ Cardinality(Losses(m, o)) = Cardinality(Losses(l, o))
          + (IF k.c = "tick" /\ o \in k.ruins THEN 1 ELSE 0)

(* A line more is in the sets of lines it belongs to.                       *)
LEMMA LineMore ==
    ASSUME NEW l \in Seq(CommandSet), NEW k \in CommandSet, NEW o,
           NEW m, m = Append(l, k)
    PROVE  Adds(l, k, m, o)
<1> DEFINE n == Len(l)
<1>1. /\ n \in Nat /\ DOMAIN l = 1 .. n /\ DOMAIN m = (1 .. n) \cup {n + 1}
      /\ m[n + 1] = k /\ n + 1 \notin 1 .. n
      /\ \A i : i \in 1 .. n => m[i] = l[i]
  BY AppendProperties
<1> HIDE DEF n
<1>2. IsFiniteSet(1 .. n)
  BY <1>1, FS_Interval
<1> DEFINE F == Funds(l, o)
           L == Losses(l, o)
<1>3. F \subseteq 1 .. n /\ L \subseteq 1 .. n
  BY <1>1 DEF Funds, Losses
<1>4. IsFiniteSet(F) /\ IsFiniteSet(L)
  BY <1>2, <1>3, FS_Subset
<1>5. /\ Funds(m, o) = F \cup (IF k.c = "deposit" /\ k.o = o THEN {n + 1} ELSE {})
      /\ Losses(m, o) = L \cup (IF k.c = "tick" /\ o \in k.ruins THEN {n + 1} ELSE {})
  BY <1>1 DEF Funds, Losses
<1>6. n + 1 \notin F /\ n + 1 \notin L
  BY <1>1, <1>3
<1> HIDE DEF F, L
<1>7. /\ Cardinality(F) \in Nat /\ Cardinality(L) \in Nat
      /\ Cardinality(F \cup {n + 1}) = Cardinality(F) + 1
      /\ Cardinality(L \cup {n + 1}) = Cardinality(L) + 1
  BY <1>4, <1>6, FS_CardinalityType, FS_AddElement
<1>8. /\ Cardinality(Funds(m, o)) = Cardinality(F)
            + (IF k.c = "deposit" /\ k.o = o THEN 1 ELSE 0)
      /\ Cardinality(Losses(m, o)) = Cardinality(L)
            + (IF k.c = "tick" /\ o \in k.ruins THEN 1 ELSE 0)
  <2> DEFINE G == Funds(m, o)
             M == Losses(m, o)
             a == k.c = "deposit" /\ k.o = o
             b == k.c = "tick" /\ o \in k.ruins
  <2>1. /\ G = IF a THEN F \cup {n + 1} ELSE F
        /\ M = IF b THEN L \cup {n + 1} ELSE L
    BY <1>5
  <2> HIDE DEF G, M, a, b
  <2>2. Cardinality(G) = Cardinality(F) + (IF a THEN 1 ELSE 0)
    <3>1. CASE a
      BY <1>7, <2>1, <3>1
    <3>2. CASE ~a
      BY <1>7, <2>1, <3>2
    <3> QED BY <3>1, <3>2
  <2>3. Cardinality(M) = Cardinality(L) + (IF b THEN 1 ELSE 0)
    <3>1. CASE b
      BY <1>7, <2>1, <3>1
    <3>2. CASE ~b
      BY <1>7, <2>1, <3>2
    <3> QED BY <3>1, <3>2
  <2> QED BY <2>2, <2>3 DEF G, M, a, b
<1> QED BY <1>7, <1>8 DEF F, L, Adds

(* Every step keeps it.                                                     *)
LEMMA GiftsKept == TInv /\ Recovers /\ Needed /\ Gifts /\ [Next]_vars => Gifts'
<1> SUFFICES ASSUME TInv, Recovers, Needed, Gifts, [Next]_vars, Clean',
                    NEW o \in Owners
             PROVE  Cardinality(Funds(log', o))
                      <= Cardinality(Losses(log', o)) + Held(Replay(log'), o)
  BY DEF Gifts
<1>1. /\ Clean /\ State(Replay(log)) /\ log \in Seq(CommandSet)
      /\ Cardinality(Funds(log, o)) <= Cardinality(Losses(log, o)) + Held(Replay(log), o)
  BY LogIs DEF TInv, Disk, Gifts
<1>2. CASE log' = log
  BY <1>1, <1>2
<1>3. CASE Persist
  <2> DEFINE k == Head(todo)
             e == Replay(log)
             f == Replay(log')
  <2>1. /\ log' = Append(log, k) /\ k \in CommandSet /\ Prior = log /\ f = Applied(e, k)
    BY <1>3, LogIs
  <2>2. /\ IsCommand(k) /\ s.funded = e.funded
    <3>1. Known(s) = Known(e) /\ State(s) /\ State(e)
      BY <1>1, <1>3, <2>1 DEF Recovers, Follows, Persist, TInv, Process
    <3>2. s.funded = e.funded
      BY <3>1, KnownParts
    <3> QED BY <2>1, <3>2, Kinds
  <2>3. k.c = "deposit" => k.o \notin e.funded
    <3>1. todo \in Seq(CommandSet) /\ todo # <<>>
      BY <1>3 DEF TInv, Process, Persist
    <3>2. k = todo[1] /\ 1 \in DOMAIN todo
      BY <3>1, TailIs
    <3> QED BY <2>2, <3>2 DEF Needed
  <2>4. f.funded = FundedAfter(e, k)
    BY <1>1, <2>1, <2>2, AppliedIs
  <2> HIDE DEF k, e, f
  <2> DEFINE F == Cardinality(Funds(log, o))
             L == Cardinality(Losses(log, o))
             G == Cardinality(Funds(log', o))
             M == Cardinality(Losses(log', o))
  <2>5. /\ F \in Nat /\ L \in Nat
        /\ G = F + (IF k.c = "deposit" /\ k.o = o THEN 1 ELSE 0)
        /\ M = L + (IF k.c = "tick" /\ o \in k.ruins THEN 1 ELSE 0)
    <3>1. log \in Seq(CommandSet) /\ k \in CommandSet /\ log' = Append(log, k)
      BY <1>1, <2>1
    <3>2. Adds(log, k, log', o)
      BY ONLY <3>1, LineMore
    <3> QED BY ONLY <3>2 DEF Adds
  <2>6. F <= L + Held(e, o)
    BY <1>1 DEF e
  <2> HIDE DEF F, L, G, M
  <2>7. CASE k.c = "deposit" /\ k.o = o
    <3>1. Held(e, o) = 0 /\ Held(f, o) = 1
      BY <2>3, <2>4, <2>7 DEF Held, FundedAfter
    <3>2. G = F + 1 /\ M = L
      BY <2>5, <2>7
    <3>3. G <= M + Held(f, o)
      BY <2>5, <2>6, <3>1, <3>2
    <3> QED BY <3>3 DEF G, M, f
  <2>8. CASE k.c = "tick" /\ o \in k.ruins
    <3>1. Held(e, o) \in {0, 1} /\ Held(f, o) = 0
      BY <2>4, <2>8 DEF Held, FundedAfter
    <3>2. G = F /\ M = L + 1
      BY <2>5, <2>8
    <3>3. G <= M + Held(f, o)
      BY <2>5, <2>6, <3>1, <3>2
    <3> QED BY <3>3 DEF G, M, f
  <2>9. CASE ~(k.c = "deposit" /\ k.o = o) /\ ~(k.c = "tick" /\ o \in k.ruins)
    <3>1. Held(e, o) = Held(f, o)
      BY <2>4, <2>9 DEF Held, FundedAfter
    <3>2. G = F /\ M = L
      BY <2>5, <2>9
    <3>3. G <= M + Held(f, o)
      BY <2>6, <3>1, <3>2
    <3> QED BY <3>3 DEF G, M, f
  <2> QED BY <2>7, <2>8, <2>9
<1> QED BY <1>2, <1>3, LogIs

(* Funds are handed out once, and again only to who lost them (server.ts    *)
(* route and main.ts: a deposit is asked for when the balance is missing).  *)
THEOREM FundsOnce == Spec => []FundedOnce
<1>1. Init => Gifts
  <2> SUFFICES ASSUME Init, NEW o \in Owners
               PROVE  Cardinality(Funds(log, o))
                        <= Cardinality(Losses(log, o)) + Held(Replay(log), o)
    BY DEF Gifts
  <2>1. log = <<>>
    BY DEF Init
  <2>2. Funds(log, o) = {} /\ Losses(log, o) = {}
    BY <2>1 DEF Funds, Losses
  <2>3. Held(Replay(log), o) \in {0, 1}
    BY DEF Held
  <2> QED BY <2>2, <2>3, FS_EmptySet
<1>2. Spec => []Gifts
  BY <1>1, TypesAlways, RecoversAlways, NeededAlways, GiftsKept, PTL DEF Spec
<1>3. TInv /\ Recovers /\ Gifts => FundedOnce
  <2> SUFFICES ASSUME TInv, Recovers, Gifts, Clean, NEW o \in Owners
               PROVE  Cardinality({i \in DOMAIN log : log[i].c = "deposit" /\ log[i].o = o})
                        <= 1 + Cardinality({i \in DOMAIN log :
                                              log[i].c = "tick" /\ o \in log[i].ruins})
    BY DEF FundedOnce, Lines
  <2>1. Cardinality(Funds(log, o)) <= Cardinality(Losses(log, o)) + Held(Replay(log), o)
    BY DEF Gifts
  <2>2. Held(Replay(log), o) \in {0, 1}
    BY DEF Held
  <2>3. Cardinality(Funds(log, o)) \in Nat /\ Cardinality(Losses(log, o)) \in Nat
    <3> DEFINE k == [c |-> "mode", on |-> FALSE]
    <3>1. log \in Seq(CommandSet) /\ k \in CommandSet
      BY CommandsAre DEF Recovers, Readable
    <3> HIDE DEF k
    <3>2. Adds(log, k, Append(log, k), o)
      BY ONLY <3>1, LineMore
    <3> QED BY ONLY <3>2 DEF Adds
  <2>4. Cardinality(Funds(log, o)) <= 1 + Cardinality(Losses(log, o))
    BY <2>1, <2>2, <2>3
  <2> QED BY <2>4 DEF Funds, Losses
<1> QED BY <1>2, <1>3, TypesAlways, RecoversAlways, PTL

-----------------------------------------------------------------------------
(* The maker's quotes *)

\* the maker's orders are its timer's; a timer's list begins with its cancels,
\* all the maker's
Lists ==
    /\ \A i : i \in DOMAIN todo /\ todo[i].c = "place" /\ todo[i].o = MM =>
          origin = "timer"
    /\ origin = "timer" =>
          /\ \A i : i \in DOMAIN todo /\ todo[i].c = "cancel" => todo[i].o = MM
          /\ \A i, j : j \in DOMAIN todo /\ todo[j].c = "cancel" /\ i \in DOMAIN todo
                          /\ i < j => todo[i].c = "cancel"

\* the ids of the cancels that are left, and the quotes that may rest
ToCancel == {todo[i].id : i \in {j \in DOMAIN todo : todo[j].c = "cancel"}}
Within(S) == \A r : r \in s.rest /\ r.o = MM => r.id \in past.start.rest \cup S

\* while the process runs the maker knows its quotes; while it cancels them,
\* those that rest are the ones it has yet to cancel
Tracks == up => /\ Within(ToSet(mm.live))
                /\ origin = "timer" /\ todo # <<>> /\ todo[1].c = "cancel"
                      => Within(ToCancel)

(* Every step keeps the lists.                                              *)
LEMMA ListsKept == TInv /\ Lists /\ [Next]_vars => Lists'
<1> SUFFICES ASSUME TInv, Lists, [Next]_vars PROVE Lists'
  OBVIOUS
<1>1. CASE todo' = todo /\ origin' = origin
  BY <1>1 DEF Lists
<1>2. CASE todo' = <<>>
  BY <1>2 DEF Lists
<1>3. CASE Execute
  <2>1. todo \in Seq(CommandSet) /\ todo # <<>> /\ todo' = Tail(todo) /\ origin' = origin
    BY <1>3 DEF TInv, Process, Execute
  <2>2. \A i : i \in DOMAIN todo' => /\ i + 1 \in DOMAIN todo /\ todo'[i] = todo[i + 1]
                                     /\ i \in Nat
    <3>1. \A i : i \in DOMAIN todo' => i + 1 \in DOMAIN todo /\ todo'[i] = todo[i + 1]
      BY <2>1, TailIs
    <3>2. todo' \in Seq(CommandSet)
      BY <2>1, TailIs
    <3>3. \A i : i \in DOMAIN todo' => i \in Nat
      BY <3>2
    <3> QED BY <3>1, <3>3
  <2>3. \A i : i \in DOMAIN todo' /\ todo'[i].c = "place" /\ todo'[i].o = MM =>
           origin = "timer"
    BY <2>2 DEF Lists
  <2>4. ASSUME origin = "timer"
        PROVE  /\ \A i : i \in DOMAIN todo' /\ todo'[i].c = "cancel" => todo'[i].o = MM
               /\ \A i, j : j \in DOMAIN todo' /\ todo'[j].c = "cancel"
                            /\ i \in DOMAIN todo' /\ i < j => todo'[i].c = "cancel"
    <3>1. \A i : i \in DOMAIN todo' /\ todo'[i].c = "cancel" => todo'[i].o = MM
      BY <2>2, <2>4 DEF Lists
    <3>2. ASSUME NEW i, NEW j, j \in DOMAIN todo', todo'[j].c = "cancel",
                 i \in DOMAIN todo', i < j
          PROVE  todo'[i].c = "cancel"
      <4>1. /\ i + 1 \in DOMAIN todo /\ todo'[i] = todo[i + 1] /\ i \in Nat
            /\ j + 1 \in DOMAIN todo /\ todo'[j] = todo[j + 1] /\ j \in Nat
        BY <2>2, <3>2
      <4>2. i + 1 < j + 1
        BY <3>2, <4>1
      <4>3. todo[i + 1].c = "cancel"
        BY <2>4, <3>2, <4>1, <4>2 DEF Lists
      <4> QED BY <4>1, <4>3
    <3> QED BY <3>1, <3>2
  <2> QED BY <2>1, <2>3, <2>4 DEF Lists
<1>4. CASE Begins /\ Starts
  <2>1. ASSUME NEW w \in Wallets, todo' = Welcome(w), origin' = "socket" PROVE Lists'
    <3>1. CASE todo' = <<>>
      BY <3>1 DEF Lists
    <3>2. CASE todo' = <<[c |-> "tier", o |-> w], [c |-> "deposit", o |-> w]>>
      <4> DEFINE t == [c |-> "tier", o |-> w]
                 d == [c |-> "deposit", o |-> w]
      <4>1. t.c = "tier" /\ d.c = "deposit" /\ todo' = <<t, d>>
        BY <3>2
      <4> HIDE DEF t, d
      <4>2. DOMAIN todo' = {1, 2} /\ todo'[1] = t /\ todo'[2] = d
        BY <4>1
      <4> QED BY <2>1, <4>1, <4>2 DEF Lists
    <3> QED BY <2>1, <3>1, <3>2, WelcomeIs
  <2>2. CASE todo' = Cancels \o Ladder /\ origin' = "timer"
    <3> DEFINE L == Cancels \o Ladder
               n == Len(mm.live)
    <3>1. /\ Len(L) = n + Quotes /\ n \in Nat /\ Quotes \in Nat
          /\ \A i : i \in 1 .. n => L[i].c = "cancel" /\ L[i].o = MM
          /\ \A i : i \in (n + 1) .. (n + Quotes) => L[i].c = "place" /\ L[i].o = MM
      BY LadderIs, VenueAssumption
    <3>2. L \in Seq(CommandSet)
      BY LadderLists
    <3> HIDE DEF L, n
    <3>3. \A i : i \in DOMAIN L => i \in Nat \ {0}
                                   /\ (i \in 1 .. n \/ i \in (n + 1) .. (n + Quotes))
      BY <3>1, <3>2
    <3>4. \A i : i \in DOMAIN L /\ L[i].c = "cancel" => i \in 1 .. n /\ L[i].o = MM
      BY <3>1, <3>3
    <3>5. \A i, j : j \in DOMAIN L /\ L[j].c = "cancel" /\ i \in DOMAIN L /\ i < j
                       => L[i].c = "cancel"
      <4> SUFFICES ASSUME NEW i, NEW j, j \in DOMAIN L, L[j].c = "cancel",
                          i \in DOMAIN L, i < j
                   PROVE  L[i].c = "cancel"
        OBVIOUS
      <4>1. j \in 1 .. n /\ i \in Nat \ {0}
        BY <3>3, <3>4
      <4>2. i \in 1 .. n
        BY <3>1, <4>1
      <4> QED BY <3>1, <4>2
    <3> QED BY <2>2, <3>4, <3>5 DEF Lists, L
  <2>3. ASSUME NEW k \in CommandSet, Asks(k) PROVE Lists'
    <3>1. /\ todo' = <<k>> /\ (k.c = "cancel" => origin' = "socket")
          /\ k.c = "place" => origin' = "socket" /\ k.o \in Wallets
      BY <2>3 DEF Asks
    <3>2. DOMAIN todo' = {1} /\ todo'[1] = k
      BY <3>1
    <3>3. k.c = "place" => k.o # MM
      BY <3>1, OwnersAre
    <3>4. \A i : i \in DOMAIN todo' /\ todo'[i].c = "place" /\ todo'[i].o = MM =>
             origin' = "timer"
      BY <3>1, <3>2, <3>3
    <3>5. origin' = "timer" => \A i : i \in DOMAIN todo' => todo'[i].c # "cancel"
      BY <3>1, <3>2
    <3> QED BY <3>4, <3>5 DEF Lists
  <2> QED BY <1>4, <2>1, <2>2, <2>3, StartsBegun DEF Begun
<1>5. ASSUME NEW fresh \in BOOLEAN, Boot(fresh) PROVE Lists'
  <2>1. todo' = BootCommands(s')
    BY <1>5, BootIs
  <2> DEFINE L == BootCommands(s')
  <2>2. \A i : i \in DOMAIN L => L[i].c \in {"tick", "deposit", "mode"}
    BY BootListIs
  <2> HIDE DEF L
  <2> QED BY <2>1, <2>2 DEF Lists, L
<1> QED BY <1>1, <1>2, <1>3, <1>4, <1>5, StepKinds
        DEF Persist, PersistFails, Stays, Crash, vars, handler

(* It holds in every run.                                                   *)
LEMMA ListsAlways == Spec => []Lists
<1>1. Init => Lists
  BY DEF Init, Lists
<1> QED BY <1>1, TypesAlways, ListsKept, PTL DEF Spec

(* What a command adds to the orders that rest.                             *)
LEMMA RestIs ==
    ASSUME NEW e, State(e), NEW k, IsCommand(k)
    PROVE  /\ \A r : r \in Applied(e, k).rest =>
                 r \in e.rest \/ (k.c = "place" /\ Takes(e, k) /\ r.id = k.id /\ r.o = k.o)
           /\ k.c = "cancel" => \A r : r \in Applied(e, k).rest =>
                                          r \in e.rest /\ (r.id # k.id \/ r.o # k.o)
<1>1. Applied(e, k).rest = RestAfter(e, k)
  BY AppliedIs
<1>2. \A r : r \in RestAfter(e, k) =>
         r \in e.rest \/ (k.c = "place" /\ Takes(e, k) /\ r.id = k.id /\ r.o = k.o)
  BY DEF RestAfter
<1>3. k.c = "cancel" => RestAfter(e, k) = {r \in e.rest : r.id # k.id \/ r.o # k.o}
  BY DEF RestAfter, Meets
<1> QED BY <1>1, <1>2, <1>3

(* Applying a command keeps it.                                             *)
LEMMA ExecuteQuotes == ASSUME TInv, Lists, Tracks, Execute PROVE Tracks'
<1> DEFINE k == Head(todo)
           P == past.start.rest
<1>1. /\ IsCommand(k) /\ s' = Applied(s, k) /\ State(s) /\ up
      /\ todo \in Seq(CommandSet) /\ todo # <<>> /\ todo' = Tail(todo)
      /\ mm.live \in Seq(OrderIds)
  BY ExecuteIs DEF TInv, Process, Maker, Execute
<1>2. /\ k = todo[1] /\ 1 \in DOMAIN todo /\ Len(todo) \in Nat \ {0}
      /\ DOMAIN todo = 1 .. Len(todo)
      /\ \A i : i \in DOMAIN todo' => i + 1 \in DOMAIN todo /\ todo'[i] = todo[i + 1]
      /\ todo' # <<>> => todo'[1] = todo[2] /\ 2 \in DOMAIN todo
      /\ Len(todo') = Len(todo) - 1 /\ todo' \in Seq(CommandSet)
  <2>1. /\ todo' \in Seq(CommandSet) /\ Len(todo') = Len(todo) - 1 /\ Len(todo) \in Nat \ {0}
        /\ \A i : i \in DOMAIN todo' => i + 1 \in DOMAIN todo /\ todo'[i] = todo[i + 1]
        /\ k = todo[1] /\ 1 \in DOMAIN todo
        /\ todo' # <<>> => Head(todo') = todo[2] /\ 2 \in DOMAIN todo
    BY <1>1, TailIs
  <2>2. todo' # <<>> => Head(todo') = todo'[1]
    BY <2>1, TailIs
  <2>3. DOMAIN todo = 1 .. Len(todo)
    BY <1>1
  <2> QED BY <2>1, <2>2, <2>3
<1>3. /\ origin' = origin /\ past'.start = past.start
      /\ mm' = IF origin = "timer" /\ k.c \in {"cancel", "place"}
               THEN [mm EXCEPT !.live = LiveAfter(k)] ELSE mm
  <2>1. past \in Past
    BY DEF TInv, Process
  <2>2. past' = [past EXCEPT !.refused = RefusedAfter(k), !.seen = SeenAfter(k)]
    BY DEF Execute
  <2>3. past'.start = past.start
    BY <2>1, <2>2 DEF Past
  <2> QED BY <2>3 DEF Execute
<1>4. /\ \A r : r \in s.rest /\ r.o = MM => r.id \in P \cup ToSet(mm.live)
      /\ origin = "timer" /\ k.c = "cancel" =>
            \A r : r \in s.rest /\ r.o = MM => r.id \in P \cup ToCancel
  BY <1>1, <1>2 DEF Tracks, Within
<1>5. \A r : r \in s'.rest => r \in s.rest \/ (k.c = "place" /\ Takes(s, k) /\ r.id = k.id /\ r.o = k.o)
  BY <1>1, RestIs
<1>6. k.c = "place" /\ k.o = MM => origin = "timer"
  BY <1>2 DEF Lists
<1>7. CASE origin = "timer" /\ k.c = "cancel"
  <2>1. k.o = MM
    BY <1>2, <1>7 DEF Lists
  <2>2. \A r : r \in s'.rest /\ r.o = MM => r \in s.rest /\ r.id # k.id
    BY <1>1, <1>7, <2>1, RestIs
  <2>3. \A r : r \in s'.rest /\ r.o = MM =>
           \/ r.id \in P
           \/ \E i : i \in DOMAIN todo /\ i # 1 /\ todo[i].c = "cancel" /\ r.id = todo[i].id
    <3> SUFFICES ASSUME NEW r, r \in s'.rest, r.o = MM, r.id \notin P
                 PROVE  \E i : i \in DOMAIN todo /\ i # 1 /\ todo[i].c = "cancel"
                               /\ r.id = todo[i].id
      OBVIOUS
    <3>1. r.id \in ToCancel /\ r.id # k.id
      BY <1>4, <1>7, <2>2
    <3>2. PICK i \in DOMAIN todo : todo[i].c = "cancel" /\ r.id = todo[i].id
      BY <3>1 DEF ToCancel
    <3>3. i # 1
      BY <1>2, <3>1, <3>2
    <3> QED BY <3>2, <3>3
  <2>4. CASE Len(todo) = 1 \/ todo[2].c # "cancel"
    <3>1. \A i : i \in DOMAIN todo /\ i # 1 => todo[i].c # "cancel"
      <4> SUFFICES ASSUME NEW i, i \in DOMAIN todo, i # 1, todo[i].c = "cancel" PROVE FALSE
        OBVIOUS
      <4>1. i \in Nat /\ i >= 2 /\ Len(todo) # 1 /\ 2 \in DOMAIN todo
        BY <1>2
      <4>2. todo[2].c # "cancel"
        BY <2>4, <4>1
      <4>3. 2 < i
        <5>1. i # 2
          BY <4>2
        <5> QED BY <4>1, <5>1
      <4> QED BY <1>7, <4>1, <4>2, <4>3 DEF Lists
    <3>2. \A r : r \in s'.rest /\ r.o = MM => r.id \in P
      BY <2>3, <3>1
    <3> QED BY <1>3, <3>2 DEF Tracks, Within
  <2>5. CASE ~(Len(todo) = 1 \/ todo[2].c # "cancel")
    <3>1. LiveAfter(k) = mm.live
      BY <1>7, <2>5 DEF LiveAfter
    <3>2. mm'.live = mm.live
      <4>1. mm \in Maker
        BY DEF TInv, Process
      <4> QED BY <1>3, <1>7, <3>1, <4>1 DEF Maker
    <3>3. \A i : i \in DOMAIN todo /\ i # 1 => i - 1 \in DOMAIN todo' /\ todo'[i - 1] = todo[i]
      <4>1. DOMAIN todo' = 1 .. (Len(todo) - 1)
        BY <1>2
      <4>2. \A i : i \in DOMAIN todo /\ i # 1 => i - 1 \in DOMAIN todo' /\ (i - 1) + 1 = i
        BY <1>2, <4>1
      <4> QED BY <1>2, <4>2
    <3>4. \A r : r \in s'.rest /\ r.o = MM => r.id \in P \cup ToCancel'
      <4> SUFFICES ASSUME NEW r, r \in s'.rest, r.o = MM, r.id \notin P
                   PROVE  r.id \in ToCancel'
        OBVIOUS
      <4>1. PICK i : i \in DOMAIN todo /\ i # 1 /\ todo[i].c = "cancel" /\ r.id = todo[i].id
        BY <2>3
      <4>2. i - 1 \in DOMAIN todo' /\ todo'[i - 1] = todo[i]
        BY <3>3, <4>1
      <4> QED BY <4>1, <4>2 DEF ToCancel
    <3>5. \A r : r \in s'.rest /\ r.o = MM => r.id \in P \cup ToSet(mm'.live)
      BY <1>4, <2>2, <3>2
    <3> QED BY <1>3, <3>4, <3>5 DEF Tracks, Within
  <2> QED BY <2>4, <2>5
<1>8. CASE ~(origin = "timer" /\ k.c = "cancel")
  <2>1. ~(origin' = "timer" /\ todo' # <<>> /\ todo'[1].c = "cancel")
    <3> SUFFICES ASSUME origin = "timer", todo' # <<>>, todo'[1].c = "cancel" PROVE FALSE
      BY <1>3
    <3>1. 2 \in DOMAIN todo /\ todo[2].c = "cancel" /\ 1 \in DOMAIN todo /\ 1 < 2
      BY <1>2
    <3>2. todo[1].c = "cancel"
      BY <3>1 DEF Lists
    <3> QED BY <1>2, <1>8, <3>2
  <2>2. \A r : r \in s'.rest /\ r.o = MM => r.id \in P \cup ToSet(mm'.live)
    <3>1. CASE origin = "timer" /\ k.c = "place"
      <4>1. mm'.live = LiveAfter(k)
        <5>1. mm \in Maker
          BY DEF TInv, Process
        <5> QED BY <1>3, <3>1, <5>1 DEF Maker
      <4>2. /\ ToSet(mm.live) \subseteq ToSet(LiveAfter(k))
            /\ Takes(s, k) => k.id \in ToSet(LiveAfter(k))
        <5>1. LiveAfter(k) = IF Takes(s, k) THEN Append(mm.live, k.id) ELSE mm.live
          BY <3>1 DEF LiveAfter
        <5> DEFINE id == k.id
                   l == mm.live
                   m == Append(l, id)
        <5>2. ToSet(l) \subseteq ToSet(m) /\ id \in ToSet(m)
          <6>1. l \in Seq(OrderIds) /\ id \in OrderIds
            BY <1>1, <3>1 DEF IsCommand
          <6> HIDE DEF id, l
          <6>2. /\ DOMAIN l = 1 .. Len(l) /\ Len(l) \in Nat /\ DOMAIN m = 1 .. (Len(l) + 1)
                /\ \A i \in 1 .. Len(l) : m[i] = l[i]
                /\ m[Len(l) + 1] = id
            BY <6>1
          <6> HIDE DEF m
          <6>3. Len(l) + 1 \in DOMAIN m /\ \A i \in DOMAIN l : i \in DOMAIN m /\ m[i] = l[i]
            BY <6>2
          <6> QED BY <6>2, <6>3 DEF ToSet
        <5> QED BY <5>1, <5>2
      <4> QED BY <1>4, <1>5, <4>1, <4>2
    <3>2. CASE ~(origin = "timer" /\ k.c = "place")
      <4>1. mm' = mm
        BY <1>3, <1>8, <3>2
      <4>2. k.c = "place" => k.o # MM
        BY <1>6, <3>2
      <4> QED BY <1>4, <1>5, <4>1, <4>2
    <3> QED BY <3>1, <3>2
  <2> QED BY <1>3, <2>1, <2>2 DEF Tracks, Within
<1> QED BY <1>7, <1>8

(* Every step keeps it.                                                     *)
LEMMA TracksKept == TInv /\ Lists /\ Tracks /\ [Next]_vars => Tracks'
<1> SUFFICES ASSUME TInv, Lists, Tracks, [Next]_vars, up' PROVE Tracks'
  BY DEF Tracks
<1>1. /\ mm \in Maker /\ past \in Past /\ State(s)
  BY DEF TInv, Process
<1>2. CASE Persist \/ PersistFails
  <2>1. mm' \in {mm, [mm EXCEPT !.nonce = @ + 1, !.seq = @ + 1]}
    BY <1>2 DEF Persist, PersistFails, Counted
  <2>2. mm'.live = mm.live
    BY <1>1, <2>1 DEF Maker
  <2>3. past'.start = past.start
    <3>1. past' \in {past, [past EXCEPT !.tears = @ + 1]}
      BY <1>2 DEF Persist, PersistFails
    <3> QED BY <1>1, <3>1 DEF Past
  <2>4. s' = s /\ origin' = origin /\ up /\ todo' \in {todo, <<>>}
    BY <1>2 DEF Persist, PersistFails
  <2>5. todo' = todo => ToCancel' = ToCancel
    BY DEF ToCancel
  <2> QED BY <2>2, <2>3, <2>4, <2>5 DEF Tracks, Within
<1>3. CASE Execute
  BY <1>3, ExecuteQuotes
<1>4. CASE Begins /\ Starts
  <2>1. s'.rest = s.rest /\ mm' = mm /\ past' = past /\ up /\ todo = <<>>
    BY <1>4, BeginsIs DEF Begins, Idle
  <2>2. \A r : r \in s'.rest /\ r.o = MM => r.id \in past'.start.rest \cup ToSet(mm'.live)
    BY <2>1 DEF Tracks, Within
  <2>3. ASSUME origin' = "timer", todo' # <<>>, todo'[1].c = "cancel"
        PROVE  ToSet(mm.live) \subseteq ToCancel'
    <3>1. todo' = Cancels \o Ladder
      <4>1. ASSUME NEW k \in CommandSet, Asks(k) PROVE FALSE
        <5>1. todo' = <<k>> /\ k.c # "cancel"
          BY <2>3, <4>1 DEF Asks
        <5>2. todo'[1] = k
          BY <5>1
        <5> QED BY <2>3, <5>1, <5>2
      <4> QED BY <1>4, <2>3, <4>1, StartsBegun DEF Begun
    <3> DEFINE L == Cancels \o Ladder
               n == Len(mm.live)
    <3>2. /\ Len(L) = n + Quotes /\ n \in Nat /\ Quotes \in Nat
          /\ \A i : i \in 1 .. n => L[i].c = "cancel" /\ L[i].id = mm.live[i]
      BY LadderIs, VenueAssumption
    <3>3. L \in Seq(CommandSet) /\ mm.live \in Seq(OrderIds)
      BY <1>1, LadderLists DEF Maker
    <3>4. DOMAIN mm.live = 1 .. n
      BY <3>3
    <3> HIDE DEF L, n
    <3>5. \A i : i \in 1 .. n => i \in DOMAIN L
      BY <3>2, <3>3
    <3>6. \A i : i \in DOMAIN mm.live => /\ i \in DOMAIN L /\ L[i].c = "cancel"
                                         /\ mm.live[i] = L[i].id
      BY <3>2, <3>4, <3>5
    <3> QED BY <3>1, <3>6 DEF ToCancel, ToSet, L
  <2> QED BY <2>1, <2>2, <2>3 DEF Tracks, Within
<1>5. CASE Stays \/ UNCHANGED vars
  <2>1. UNCHANGED <<s, todo, origin, mm, past>> /\ up
    BY <1>5 DEF Stays, handler, vars
  <2>2. ToCancel' = ToCancel
    BY <2>1 DEF ToCancel
  <2> QED BY <2>1, <2>2 DEF Tracks, Within
<1>6. ASSUME NEW fresh \in BOOLEAN, Boot(fresh) PROVE Tracks'
  <2> DEFINE n == IF fresh THEN 1 ELSE 0
             Z == [w \in Wallets |-> 0]
             D == [last |-> s'.last, rest |-> Quoting(s')]
  <2>1. /\ past' = [past EXCEPT !.boots = @ + 1, !.fresh = @ + n, !.refused = Z, !.start = D]
        /\ origin' = "boot"
    BY <1>6, BootIs
  <2>2. D.rest = Quoting(s')
    OBVIOUS
  <2> HIDE DEF n, Z, D
  <2>3. past'.start = D
    BY ONLY <1>1, <2>1 DEF Past
  <2> QED BY <2>1, <2>2, <2>3 DEF Tracks, Within, Quoting
<1>7. ~Crash
  BY DEF Crash
<1> QED BY <1>2, <1>3, <1>4, <1>5, <1>6, <1>7, StepKinds

(* Between handlers every quote of the maker that rests is one it knows of, *)
(* or was in the book when the process started (marketMaker.ts requote).    *)
THEOREM QuotesAreKnown == Spec => []QuotesKnown
<1>1. Init => Tracks
  BY DEF Init, Tracks
<1>2. Spec => []Tracks
  BY <1>1, TypesAlways, ListsAlways, TracksKept, PTL DEF Spec
<1>3. Tracks => QuotesKnown
  BY DEF Tracks, Within, QuotesKnown, Idle
<1> QED BY <1>2, <1>3, PTL

-----------------------------------------------------------------------------
(* The nonces of the server *)

\* a wallet's order is the only command of its socket's message; one the server
\* made has the nonce the server drew last for the wallet
Alone == \A i : i \in DOMAIN todo /\ todo[i].c = "place" /\ todo[i].o \in Wallets =>
            /\ i = 1 /\ Len(todo) = 1 /\ origin = "socket"
            /\ todo[i].signed = FALSE => todo[i].nonce = srv.nonces[todo[i].o]

\* the orders of w that the server made and that are applied
Making(w) == todo # <<>> /\ todo[1].c = "place" /\ todo[1].signed = FALSE /\ todo[1].o = w
Made(w) == srv.nonces[w] - (IF Making(w) THEN 1 ELSE 0)

\* of a wallet that never signed: its last nonce is that of the start or one of
\* these orders', and what was refused for a stale nonce are orders, as many as
\* the nonce at the start at most
Fits(w) == /\ s.last[w] <= past.start.last[w] \/ s.last[w] <= Made(w)
           /\ past.refused[w] <= Made(w)
Few(w) == past.refused[w] <= (IF past.start.last[w] > 0 THEN past.start.last[w] ELSE 0)
Behind == Clean => \A w \in Wallets \ Signers : Few(w) /\ (up => Fits(w))

(* Every step keeps orders alone.                                           *)
LEMMA AloneKept == TInv /\ Alone /\ [Next]_vars => Alone'
<1> SUFFICES ASSUME TInv, Alone, [Next]_vars PROVE Alone'
  OBVIOUS
<1>1. CASE todo' = todo /\ origin' = origin /\ srv' = srv
  BY <1>1 DEF Alone
<1>2. CASE todo' = <<>>
  BY <1>2 DEF Alone
<1>3. CASE Execute
  <2>1. todo \in Seq(CommandSet) /\ todo # <<>> /\ todo' = Tail(todo)
    BY <1>3 DEF TInv, Process, Execute
  <2>2. \A i : i \in DOMAIN todo' => /\ i + 1 \in DOMAIN todo /\ todo'[i] = todo[i + 1]
                                     /\ i + 1 # 1
    <3>1. \A i : i \in DOMAIN todo' => i + 1 \in DOMAIN todo /\ todo'[i] = todo[i + 1]
      BY <2>1, TailIs
    <3>2. todo' \in Seq(CommandSet)
      BY <2>1, TailIs
    <3>3. \A i : i \in DOMAIN todo' => i \in Nat \ {0}
      BY <3>2
    <3>4. \A i : i \in Nat \ {0} => i + 1 # 1
      OBVIOUS
    <3> QED BY <3>1, <3>3, <3>4
  <2>3. \A i : i \in DOMAIN todo' => ~(todo'[i].c = "place" /\ todo'[i].o \in Wallets)
    BY <2>2 DEF Alone
  <2> QED BY <2>3 DEF Alone
<1>4. CASE Starts
  <2>1. ASSUME NEW w \in Wallets, todo' = Welcome(w) PROVE Alone'
    <3>1. CASE todo' = <<>>
      BY <3>1 DEF Alone
    <3>2. CASE todo' = <<[c |-> "tier", o |-> w], [c |-> "deposit", o |-> w]>>
      <4> DEFINE t == [c |-> "tier", o |-> w]
                 d == [c |-> "deposit", o |-> w]
      <4>1. t.c = "tier" /\ d.c = "deposit" /\ todo' = <<t, d>>
        BY <3>2
      <4> HIDE DEF t, d
      <4>2. DOMAIN todo' = {1, 2} /\ todo'[1] = t /\ todo'[2] = d
        BY <4>1
      <4> QED BY <4>1, <4>2 DEF Alone
    <3> QED BY <2>1, <3>1, <3>2, WelcomeIs
  <2>2. CASE todo' = Cancels \o Ladder
    <3> DEFINE L == Cancels \o Ladder
               n == Len(mm.live)
    <3>1. /\ Len(L) = n + Quotes /\ n \in Nat /\ Quotes \in Nat
          /\ \A i : i \in 1 .. n => L[i].o = MM
          /\ \A i : i \in (n + 1) .. (n + Quotes) => L[i].o = MM
      BY LadderIs, VenueAssumption
    <3>2. L \in Seq(CommandSet)
      BY LadderLists
    <3> HIDE DEF L, n
    <3>3. \A i : i \in DOMAIN L => i \in 1 .. n \/ i \in (n + 1) .. (n + Quotes)
      BY <3>1, <3>2
    <3>4. \A i : i \in DOMAIN L => L[i].o \notin Wallets
      BY <3>1, <3>3, OwnersAre
    <3> QED BY <2>2, <3>4 DEF Alone, L
  <2>3. ASSUME NEW k \in CommandSet, Asks(k) PROVE Alone'
    <3>1. todo' = <<k>> /\ (k.c = "place" => origin' = "socket" /\ k.o \in Wallets)
      BY <2>3 DEF Asks
    <3>2. DOMAIN todo' = {1} /\ todo'[1] = k /\ Len(todo') = 1
      BY <3>1
    <3>3. k.c = "place" /\ k.signed = FALSE => k.nonce = srv'.nonces[k.o]
      <4> SUFFICES ASSUME k.c = "place", k.signed = FALSE PROVE k.nonce = srv'.nonces[k.o]
        OBVIOUS
      <4>1. /\ k.nonce = srv.nonces[k.o] + 1
            /\ srv'.nonces = [srv.nonces EXCEPT ![k.o] = srv.nonces[k.o] + 1]
        BY <2>3 DEF Asks
      <4>2. srv.nonces \in [Wallets -> Nat] /\ k.o \in Wallets
        BY <3>1 DEF TInv, Process, Server
      <4> QED BY <4>1, <4>2
    <3> QED BY <3>1, <3>2, <3>3 DEF Alone
  <2> QED BY <1>4, <2>1, <2>2, <2>3, StartsBegun DEF Begun
<1>5. ASSUME NEW fresh \in BOOLEAN, Boot(fresh) PROVE Alone'
  <2>1. todo' = BootCommands(s')
    BY <1>5, BootIs
  <2> DEFINE L == BootCommands(s')
  <2>2. \A i : i \in DOMAIN L => L[i].c \in {"tick", "deposit", "mode"}
    BY BootListIs
  <2> HIDE DEF L
  <2> QED BY <2>1, <2>2 DEF Alone, L
<1> QED BY <1>1, <1>2, <1>3, <1>4, <1>5, StepKinds
        DEF Persist, PersistFails, Stays, Crash, vars, handler

(* It holds in every run.                                                   *)
LEMMA AloneAlways == Spec => []Alone
<1>1. Init => Alone
  BY DEF Init, Alone
<1> QED BY <1>1, TypesAlways, AloneKept, PTL DEF Spec

(* The numbers a wallet's nonces are.                                       *)
LEMMA NoncesAre ==
    ASSUME TInv, NEW w \in Wallets
    PROVE  /\ s.last[w] \in Int /\ past.start.last[w] \in Int /\ past.refused[w] \in Nat
           /\ srv.nonces[w] \in Nat
<1>1. w \in Owners
  BY OwnersAre
<1> QED BY <1>1 DEF TInv, Process, State, Engines, Server, Past

(* Who has signed stays one who has.                                        *)
LEMMA SignersStay ==
    ASSUME TInv, Recovers, [Next]_vars, Clean'
    PROVE  Signers \subseteq Signers'
<1>1. log \in Seq(CommandSet) /\ (log' = log \/ \E k \in CommandSet : log' = Append(log, k))
  BY LogIs
<1>2. \A i : i \in DOMAIN log => i \in DOMAIN log' /\ log'[i] = log[i]
  <2>1. ASSUME NEW k \in CommandSet, log' = Append(log, k)
        PROVE  \A i : i \in DOMAIN log => i \in DOMAIN log' /\ log'[i] = log[i]
    <3>1. /\ DOMAIN log = 1 .. Len(log) /\ Len(log) \in Nat
          /\ DOMAIN log' = 1 .. (Len(log) + 1)
          /\ \A i : i \in 1 .. Len(log) => log'[i] = log[i]
      BY <1>1, <2>1
    <3> QED BY <3>1
  <2> QED BY <1>1, <2>1
<1> QED BY <1>2 DEF Signers

(* What applying a command does to the nonces and refusals of a wallet that *)
(* never signed.                                                            *)
LEMMA ExecuteFits ==
    ASSUME TInv, Recovers, Alone, Clean, Execute, NEW w \in Wallets \ Signers,
           Few(w), Fits(w)
    PROVE  Few(w)' /\ Fits(w)'
<1> DEFINE k == Head(todo)
<1>1. /\ IsCommand(k) /\ s' = Applied(s, k) /\ State(s) /\ up
      /\ todo \in Seq(CommandSet) /\ todo # <<>> /\ todo' = Tail(todo)
      /\ past \in Past /\ Readable /\ Follows
  BY ExecuteIs DEF TInv, Process, Recovers, Execute
<1>2. /\ k = todo[1] /\ 1 \in DOMAIN todo /\ DOMAIN todo = 1 .. Len(todo)
      /\ Len(todo) \in Nat \ {0} /\ Len(todo') = Len(todo) - 1 /\ todo' \in Seq(CommandSet)
      /\ todo' # <<>> => todo'[1] = todo[2] /\ 2 \in DOMAIN todo
  <2>1. /\ todo' \in Seq(CommandSet) /\ Len(todo') = Len(todo) - 1 /\ Len(todo) \in Nat \ {0}
        /\ k = todo[1] /\ 1 \in DOMAIN todo
        /\ todo' # <<>> => Head(todo') = todo[2] /\ 2 \in DOMAIN todo
    BY <1>1, TailIs
  <2>2. todo' # <<>> => Head(todo') = todo'[1]
    BY <2>1, TailIs
  <2>3. DOMAIN todo = 1 .. Len(todo)
    BY <1>1
  <2> QED BY <2>1, <2>2, <2>3
<1>3. /\ past'.start = past.start /\ srv' = srv
      /\ past'.refused = RefusedAfter(k)
  <2>1. past' = [past EXCEPT !.refused = RefusedAfter(k), !.seen = SeenAfter(k)]
        /\ srv' = srv
    BY DEF Execute
  <2> QED BY <1>1, <2>1 DEF Past
<1>4. ~Making(w)'
  <2>1. 2 \in DOMAIN todo => ~(todo[2].c = "place" /\ todo[2].o \in Wallets)
    BY DEF Alone
  <2> QED BY <1>2, <2>1 DEF Making
<1>5. ~(k.c = "place" /\ k.signed /\ k.o = w)
  <2> SUFFICES ASSUME k.c = "place", k.signed, k.o = w PROVE FALSE
    OBVIOUS
  <2>1. Last(log) = k
    BY <1>1, ExecuteRecovers
  <2>2. log # <<>> /\ log \in Seq(CommandSet)
    BY DEF Execute, TInv, Process, Recovers, Readable
  <2>3. Len(log) \in DOMAIN log /\ log[Len(log)] = k
    BY <2>1, <2>2 DEF Last
  <2> HIDE DEF k
  <2> QED BY <2>3 DEF Signers
<1> DEFINE x == srv.nonces[w]
           l == s.last[w]
           a == past.start.last[w]
           r == past.refused[w]
<1>6. /\ l \in Int /\ a \in Int /\ r \in Nat /\ x \in Nat
  BY NoncesAre
<1>7. w \in Owners /\ past.refused \in [Wallets -> Nat]
  BY <1>1, OwnersAre DEF Past
<1>8. Made(w)' = x
  BY <1>3, <1>4, <1>6 DEF Made
<1>9. CASE k.c = "place" /\ k.o = w
  <2>1. k.signed = FALSE
    BY <1>1, <1>5, <1>9 DEF IsCommand
  <2>2. k.nonce = x /\ origin = "socket"
    BY <1>2, <1>9, <2>1 DEF Alone
  <2>3. Making(w)
    BY <1>1, <1>2, <1>9, <2>1 DEF Making
  <2>4. /\ l <= a \/ l <= x - 1
        /\ r <= x - 1
        /\ r <= (IF a > 0 THEN a ELSE 0)
    BY <2>3 DEF Fits, Few, Made
  <2>5. CASE x <= l
    <3>1. past'.refused[w] = r + 1
      <4>1. Stale(k)
        BY <1>9, <2>2, <2>5 DEF Stale
      <4>2. past'.refused = [past.refused EXCEPT ![k.o] = past.refused[k.o] + 1]
        BY <1>3, <2>1, <2>2, <4>1 DEF RefusedAfter
      <4> QED BY <1>7, <1>9, <4>2
    <3>2. s'.last[w] = l
      <4>1. ~(k.nonce > s.last[k.o])
        BY <1>6, <1>9, <2>2, <2>5
      <4>2. ~Takes(s, k)
        BY <4>1 DEF Takes
      <4>3. s'.last = s.last
        BY <1>1, <4>2, LastGrows
      <4> QED BY <4>3
    <3>3. past'.start.last[w] = a
      BY <1>3
    <3> HIDE DEF x, l, a, r
    <3>4. l <= a /\ r + 1 <= x /\ a > 0 /\ r + 1 <= a
      BY <1>6, <2>4, <2>5
    <3> QED BY <1>8, <3>1, <3>2, <3>3, <3>4 DEF Few, Fits
  <2>6. CASE ~(x <= l)
    <3>1. past'.refused[w] = r
      <4>1. ~Stale(k)
        BY <1>9, <2>2, <2>6 DEF Stale
      <4> QED BY <1>3, <4>1 DEF RefusedAfter
    <3>2. s'.last[w] \in {l, x}
      <4>1. CASE Takes(s, k)
        <5>1. s'.last[k.o] = k.nonce
          BY <1>1, <1>9, <4>1, LastGrows
        <5> QED BY <1>9, <2>2, <5>1
      <4>2. CASE ~Takes(s, k)
        <5>1. s'.last = s.last
          BY <1>1, <4>2, LastGrows
        <5> QED BY <5>1
      <4> QED BY <4>1, <4>2
    <3>3. past'.start.last[w] = a
      BY <1>3
    <3> HIDE DEF x, l, a, r
    <3>4. s'.last[w] <= a \/ s'.last[w] <= x
      BY <1>6, <2>4, <3>2
    <3>5. r <= x
      BY <1>6, <2>4
    <3> QED BY <1>8, <2>4, <3>1, <3>3, <3>4, <3>5 DEF Few, Fits
  <2> QED BY <2>5, <2>6
<1>10. CASE ~(k.c = "place" /\ k.o = w)
  <2>1. ~Making(w)
    BY <1>2, <1>10 DEF Making
  <2>2. /\ l <= a \/ l <= x
        /\ r <= x
        /\ r <= (IF a > 0 THEN a ELSE 0)
    BY <1>6, <2>1 DEF Fits, Few, Made
  <2>3. s'.last[w] = l
    <3>1. CASE k.c = "place" /\ Takes(s, k)
      <4>1. w \in Owners \ {k.o}
        BY <1>7, <1>10, <3>1
      <4>2. \A o \in Owners \ {k.o} : Applied(s, k).last[o] = s.last[o]
        BY <1>1, <3>1, LastGrows
      <4> QED BY <1>1, <4>1, <4>2
    <3>2. CASE ~(k.c = "place" /\ Takes(s, k))
      <4>1. s'.last = s.last
        BY <1>1, <3>2, LastGrows
      <4> QED BY <4>1
    <3> QED BY <3>1, <3>2
  <2>4. past'.refused[w] = r
    <3>1. CASE Stale(k)
      <4>1. k.o # w
        BY <1>10, <3>1 DEF Stale
      <4>2. past'.refused \in {past.refused,
                               [past.refused EXCEPT ![k.o] = past.refused[k.o] + 1]}
        BY <1>3 DEF RefusedAfter
      <4> QED BY <1>7, <4>1, <4>2
    <3>2. CASE ~Stale(k)
      BY <1>3, <3>2 DEF RefusedAfter
    <3> QED BY <3>1, <3>2
  <2>5. past'.start.last[w] = a
    BY <1>3
  <2> HIDE DEF x, l, a, r
  <2> QED BY <1>8, <2>2, <2>3, <2>4, <2>5 DEF Few, Fits
<1> QED BY <1>9, <1>10

(* What a handler's start does to them.                                     *)
LEMMA StartsFits ==
    ASSUME TInv, Begins, Starts, NEW w \in Wallets, Few(w), Fits(w)
    PROVE  Few(w)' /\ Fits(w)'
<1>1. /\ s'.last = s.last /\ past' = past /\ todo = <<>> /\ srv.nonces \in [Wallets -> Nat]
  BY BeginsIs DEF Begins, Idle, TInv, Process, Server
<1>2. srv.nonces[w] \in Nat /\ Made(w) = srv.nonces[w]
  BY <1>1 DEF Made, Making
<1>3. Made(w)' = srv.nonces[w]
  <2>1. CASE srv'.nonces = srv.nonces /\ ~Making(w)'
    BY <1>2, <2>1 DEF Made
  <2>2. ASSUME NEW v \in Wallets, todo' = Welcome(v) PROVE ~Making(w)'
    <3>1. CASE todo' = <<[c |-> "tier", o |-> v], [c |-> "deposit", o |-> v]>>
      <4> DEFINE t == [c |-> "tier", o |-> v]
                 d == [c |-> "deposit", o |-> v]
      <4>1. t.c = "tier" /\ todo' = <<t, d>>
        BY <3>1
      <4> HIDE DEF t, d
      <4>2. todo'[1] = t
        BY <4>1
      <4> QED BY <4>1, <4>2 DEF Making
    <3>2. CASE todo' = <<>>
      BY <3>2 DEF Making
    <3> QED BY <2>2, <3>1, <3>2, WelcomeIs
  <2>3. CASE todo' = Cancels \o Ladder /\ srv' = srv
    <3> DEFINE L == Cancels \o Ladder
               n == Len(mm.live)
    <3>1. /\ Len(L) = n + Quotes /\ n \in Nat /\ Quotes \in Nat
          /\ \A i : i \in 1 .. n => L[i].o = MM
          /\ \A i : i \in (n + 1) .. (n + Quotes) => L[i].o = MM
      BY LadderIs, VenueAssumption
    <3>2. L \in Seq(CommandSet)
      BY LadderLists
    <3> HIDE DEF L, n
    <3>3. L # <<>> => 1 \in 1 .. n \/ 1 \in (n + 1) .. (n + Quotes)
      BY <3>1, <3>2
    <3>4. ~Making(w)'
      BY <2>3, <3>1, <3>3, OwnersAre DEF Making, L
    <3> QED BY <2>1, <2>3, <3>4
  <2>4. ASSUME NEW k \in CommandSet, Asks(k) PROVE Made(w)' = srv.nonces[w]
    <3>1. todo' = <<k>> /\ todo'[1] = k /\ todo' # <<>>
      BY <2>4 DEF Asks
    <3>2. CASE k.c = "place" /\ k.signed = FALSE
      <4>1. srv'.nonces = [srv.nonces EXCEPT ![k.o] = srv.nonces[k.o] + 1] /\ k.o \in Wallets
        BY <2>4, <3>2 DEF Asks
      <4>2. Making(w)' <=> k.o = w
        BY <3>1, <3>2 DEF Making
      <4>3. CASE k.o = w
        BY <1>1, <1>2, <4>1, <4>2, <4>3 DEF Made
      <4>4. CASE k.o # w
        BY <1>1, <1>2, <4>1, <4>2, <4>4 DEF Made
      <4> QED BY <4>3, <4>4
    <3>3. CASE ~(k.c = "place" /\ k.signed = FALSE)
      <4>1. srv'.nonces = srv.nonces
        <5>1. k.c = "place" => k.signed \in BOOLEAN
          BY Kinds DEF IsCommand
        <5> QED BY <2>4, <3>3, <5>1 DEF Asks
      <4>2. ~Making(w)'
        BY <3>1, <3>3 DEF Making
      <4> QED BY <2>1, <4>1, <4>2
    <3> QED BY <3>2, <3>3
  <2> QED BY <2>1, <2>2, <2>3, <2>4, StartsBegun DEF Begun
<1> QED BY <1>1, <1>2, <1>3 DEF Few, Fits

(* Every step keeps it.                                                     *)
LEMMA BehindKept == TInv /\ Recovers /\ Alone /\ Behind /\ [Next]_vars => Behind'
<1> SUFFICES ASSUME TInv, Recovers, Alone, Behind, [Next]_vars, Clean',
                    NEW w \in Wallets \ Signers'
             PROVE  Few(w)' /\ (up' => Fits(w)')
  BY DEF Behind
<1>1. Clean /\ w \in Wallets \ Signers
  BY LogIs, SignersStay
<1>2. Few(w) /\ (up => Fits(w))
  BY <1>1 DEF Behind
<1>3. CASE UNCHANGED <<s, todo, srv, past>> /\ (up' => up)
  <2>1. Made(w)' = Made(w)
    BY <1>3 DEF Made, Making
  <2> QED BY <1>2, <1>3, <2>1 DEF Few, Fits
<1>4. CASE Execute
  BY <1>1, <1>2, <1>4, ExecuteFits DEF Execute
<1>5. CASE Begins /\ Starts
  BY <1>1, <1>2, <1>5, StartsFits DEF Begins, Idle
<1>6. ASSUME NEW fresh \in BOOLEAN, Boot(fresh) PROVE Few(w)' /\ Fits(w)'
  <2> DEFINE n == IF fresh THEN 1 ELSE 0
             Z == [v \in Wallets |-> 0]
             D == [last |-> s'.last, rest |-> Quoting(s')]
  <2>1. /\ past' = [past EXCEPT !.boots = @ + 1, !.fresh = @ + n, !.refused = Z, !.start = D]
        /\ todo' = BootCommands(s') /\ todo' \in Seq(CommandSet) /\ State(s')
    BY <1>6, BootIs
  <2>2. D.last = s'.last /\ Z[w] = 0
    BY <1>1
  <2> HIDE DEF n, Z, D
  <2>3. past \in Past
    BY DEF TInv, Process
  <2>4. past'.start = D /\ past'.refused = Z
    BY ONLY <2>1, <2>3 DEF Past
  <2>5. srv'.nonces[w] = 0
    <3>1. srv' = [orders |-> 0, nonces |-> [v \in Wallets |-> 0], forced |-> FALSE]
      BY <1>6 DEF Boot
    <3> QED BY <1>1, <3>1
  <2>6. ~Making(w)'
    <3> DEFINE L == BootCommands(s')
    <3>1. \A i : i \in DOMAIN L => L[i].c \in {"tick", "deposit", "mode"}
      BY BootListIs
    <3> HIDE DEF L
    <3>2. L # <<>> => 1 \in DOMAIN L
      BY <2>1 DEF L
    <3> QED BY <2>1, <3>1, <3>2 DEF Making, L
  <2>7. Made(w)' = 0
    <3>1. Made(w)' = srv'.nonces[w] - 0
      BY <2>6 DEF Made
    <3> QED BY <2>5, <3>1
  <2>8. s'.last[w] \in Int
    <3>1. w \in Owners
      BY <1>1, OwnersAre
    <3> QED BY <2>1, <3>1 DEF State, Engines
  <2>9. past'.refused[w] = 0 /\ past'.start.last[w] = s'.last[w]
    BY <2>2, <2>4
  <2> QED BY <2>7, <2>8, <2>9 DEF Few, Fits
<1>7. ASSUME Crash PROVE Few(w)' /\ ~up'
  BY <1>2, <1>7 DEF Crash, Few
<1>8. ASSUME Stays PROVE UNCHANGED <<s, todo, srv, past>> /\ (up' => up)
  BY <1>8 DEF Stays, handler
<1>9. ASSUME PersistFails PROVE Few(w)' /\ (up' => Fits(w)')
  <2>1. /\ UNCHANGED <<s, srv>> /\ up /\ todo # <<>> /\ todo' = <<>>
        /\ past' = [past EXCEPT !.tears = @ + 1] /\ up' \in {FALSE, origin = "timer"}
    BY <1>9 DEF PersistFails
  <2>2. past'.refused = past.refused /\ past'.start = past.start
    <3>1. past \in Past
      BY DEF TInv, Process
    <3> QED BY <2>1, <3>1 DEF Past
  <2>3. Few(w)'
    BY <1>2, <2>2 DEF Few
  <2>4. ASSUME up' PROVE Made(w)' = Made(w)
    <3>1. 1 \in DOMAIN todo
      <4>1. todo \in Seq(CommandSet)
        BY DEF TInv, Process
      <4> QED BY <2>1, <4>1, TailIs
    <3>2. origin = "timer"
      BY <2>1, <2>4
    <3>3. ~Making(w) /\ ~Making(w)'
      BY <1>1, <2>1, <3>1, <3>2 DEF Making, Alone
    <3> QED BY <2>1, <3>3 DEF Made
  <2>5. up' => Fits(w)'
    BY <1>2, <2>1, <2>2, <2>4 DEF Fits
  <2> QED BY <2>3, <2>5
<1>10. ASSUME Persist PROVE UNCHANGED <<s, todo, srv, past>> /\ up' = up
  BY <1>10 DEF Persist
<1>11. ASSUME UNCHANGED vars PROVE UNCHANGED <<s, todo, srv, past>> /\ up' = up
  BY <1>11 DEF vars
<1> QED BY <1>3, <1>4, <1>5, <1>6, <1>7, <1>8, <1>9, <1>10, <1>11, StepKinds

(* A wallet that never signed is refused for a stale nonce at most as often *)
(* as it had been heard before the start (server.ts nextNonce, which starts *)
(* from nothing, over the nonces replayBootLog restores).                   *)
THEOREM NoncesCatchUp == Spec => []CatchesUp
<1>1. Init => Behind
  <2> SUFFICES ASSUME Init, NEW w \in Wallets PROVE Few(w) /\ ~up
    BY DEF Behind
  <2>1. past.refused[w] = 0 /\ past.start.last = Blank.last /\ ~up
    BY DEF Init
  <2>2. Blank.last[w] = -1
    BY OwnersAre DEF Blank
  <2> QED BY <2>1, <2>2 DEF Few
<1>2. Spec => []Behind
  BY <1>1, TypesAlways, RecoversAlways, AloneAlways, BehindKept, PTL DEF Spec
<1>3. Behind => CatchesUp
  BY DEF Behind, CatchesUp, Few
<1> QED BY <1>2, <1>3, PTL
=============================================================================
