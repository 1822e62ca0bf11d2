------------------------------- MODULE Custody -------------------------------
(***************************************************************************)
(* The venue's money on chain and who settles on it: the token             *)
(* (MockUSDC.sol), the custody vault (PerpVault.sol), the epoch anchor     *)
(* (Settlement.sol), the price (OracleAdapter.sol), and the service that   *)
(* makes one round trip from chain to engine and back                      *)
(* (engine/src/run-epoch-cycle.ts over chain.ts), of which several copies  *)
(* may run.                                                                *)
(*                                                                         *)
(* An external call is one step, all of it or nothing: a call that reverts *)
(* is no step of the chain, and a service whose call reverts or whose      *)
(* endpoint fails ends.  Between two calls of a service anybody else may   *)
(* act.  The engine of a service is made anew in each run, so the root it  *)
(* posts is taken to be what it was computed from.  The allowance a user   *)
(* gives is that for the vault.                                            *)
(***************************************************************************)
EXTENDS Integers, FiniteSetsExt, SequencesExt

CONSTANTS
    Users,          \* traders
    Operator,       \* the operator's key, which every service uses
    Services,       \* copies of the epoch-cycle service
    Amounts,        \* amounts transferred, approved, deposited and paid
    Drip,           \* FAUCET_AMOUNT
    DemoAmount,     \* what ensureDemoDeposit deposits
    Prices,         \* prices posted
    Seed,           \* what each account holds at first
    MaxEpochs,      \* bound: epochs
    MaxDeposits,    \* bound: deposits
    MaxDays,        \* bound: days
    MaxSupply,      \* bound: tokens
    MaxCalls        \* bound: calls by users and the operator's own

Vault == "vault"
Payers == Users \cup {Operator}
Holders == Payers \cup {Vault}

ASSUME CustodyAssumption ==
    /\ Operator \notin Users \cup Services
    /\ Vault \notin Payers
    /\ IsFiniteSet(Users)
    /\ Amounts \subseteq Nat \ {0}
    /\ Prices \subseteq Nat \ {0}
    /\ {Drip, DemoAmount} \subseteq Nat \ {0}
    /\ {Seed, MaxEpochs, MaxDeposits, MaxDays, MaxSupply, MaxCalls} \subseteq Nat

VARIABLES
    balance,       \* MockUSDC.balanceOf
    allowance,     \* MockUSDC.allowance for the vault
    supply,        \* MockUSDC.totalSupply
    dripped,       \* MockUSDC.lastFaucetAt
    deposits,      \* the Deposited events of PerpVault
    paidOut,       \* PerpVault.totalPaidOut
    authorized,    \* PerpVault.authorized[Settlement]
    epochs,        \* Settlement.epochs; lastEpochId is its length
    price,         \* OracleAdapter.latest
    service,       \* where each service is, and what it has read
    day,           \* block.timestamp, in faucet cooldowns
    direct,        \* history: what was paid out past Settlement, or given to the vault
    calls          \* calls by users and the operator's own

token == <<balance, allowance, supply, dripped>>
vault == <<deposits, paidOut, authorized>>
vars == <<token, vault, epochs, price, service, day, direct, calls>>

\* what a sequence of deposits or payouts comes to, and what a gets of it
AmountsOf(ps) == SumFunction([i \in DOMAIN ps |-> ps[i].amount])
Received(ps, a) ==
    SumFunction([i \in DOMAIN ps |-> IF ps[i].user = a THEN ps[i].amount ELSE 0])
totalDeposited == AmountsOf(deposits)

-----------------------------------------------------------------------------
(* The token *)

\* _transfer: also to oneself
Moved(from, to, n) ==
    [a \in Holders |-> balance[a] - (IF a = from THEN n ELSE 0)
                                  + (IF a = to THEN n ELSE 0)]

MayDrip(a) == day >= dripped[a] + 1

\* faucet; mintTo is the same without the cooldown
Faucet(a) ==
    /\ MayDrip(a)
    /\ supply + Drip <= MaxSupply
    /\ dripped' = [dripped EXCEPT ![a] = day]
    /\ balance' = [balance EXCEPT ![a] = @ + Drip]
    /\ supply' = supply + Drip
    /\ UNCHANGED allowance

\* transfer: the vault does not hear of what is sent to it this way
Transfer(from, to, n) ==
    /\ balance[from] >= n
    /\ balance' = Moved(from, to, n)
    /\ direct' = IF to = Vault THEN [direct EXCEPT !.given = @ + n] ELSE direct
    /\ UNCHANGED <<allowance, supply, dripped, vault, epochs, price, service, day>>

Approve(a, n) ==
    /\ allowance' = [allowance EXCEPT ![a] = n]
    /\ UNCHANGED <<balance, supply, dripped>>

-----------------------------------------------------------------------------
(* The vault and the epochs *)

\* mutant: what arrives is not what is booked
DepositedTwice(a, n) ==
    /\ Len(deposits) < MaxDeposits
    /\ allowance[a] >= n /\ balance[a] >= n
    /\ allowance' = [allowance EXCEPT ![a] = @ - n]
    /\ balance' = Moved(a, Vault, n)
    /\ deposits' = deposits \o <<[user |-> a, amount |-> n], [user |-> a, amount |-> n]>>
    /\ UNCHANGED <<supply, dripped, paidOut, authorized>>

\* deposit: transferFrom and the event
Deposited(a, n) ==
    /\ Len(deposits) < MaxDeposits
    /\ allowance[a] >= n /\ balance[a] >= n
    /\ allowance' = [allowance EXCEPT ![a] = @ - n]
    /\ balance' = Moved(a, Vault, n)
    /\ deposits' = Append(deposits, [user |-> a, amount |-> n])
    /\ UNCHANGED <<supply, dripped, paidOut, authorized>>

\* payOut by the operator itself
PayOut(u, n) ==
    /\ balance[Vault] >= n
    /\ balance' = Moved(Vault, u, n)
    /\ paidOut' = paidOut + n
    /\ direct' = [direct EXCEPT !.paid = @ + n]
    /\ UNCHANGED <<allowance, supply, dripped, deposits, authorized, epochs,
                   price, service, day>>

SetAuthorized(allowed) ==
    /\ authorized' = allowed
    /\ UNCHANGED <<token, deposits, paidOut, epochs, price, service, day, direct>>

\* the balances once the vault has paid ps, to traders only
PaidTo(ps) ==
    [a \in Holders |-> IF a = Vault THEN balance[a] - AmountsOf(ps)
                       ELSE balance[a] + Received(ps, a)]

\* mutant: a payout the vault cannot cover is left out, the epoch stands
PaidInPart(ps) ==
    LET Covered(n) == AmountsOf(SubSeq(ps, 1, n)) <= balance[Vault]
        paid == SubSeq(ps, 1, Max({n \in 0 .. Len(ps) : Covered(n)}))
    IN  /\ authorized \/ ps = <<>>
        /\ balance' = PaidTo(paid)
        /\ paidOut' = paidOut + AmountsOf(paid)

\* the loop over payouts: the first that fails takes the whole call with it
Paid(ps) ==
    /\ authorized \/ ps = <<>>
    /\ AmountsOf(ps) <= balance[Vault]
    /\ balance' = PaidTo(ps)
    /\ paidOut' = paidOut + AmountsOf(ps)

\* mutant: an epoch may be settled again
NextOrAgain(id) == id \in 1 .. Len(epochs) + 1

\* epochId != lastEpochId + 1 reverts
NextEpoch(id) == id = Len(epochs) + 1

\* settleEpoch
Settled(id, e) ==
    /\ NextEpoch(id)
    /\ Paid(e.payouts)
    /\ epochs' = IF id <= Len(epochs) THEN [epochs EXCEPT ![id] = e]
                 ELSE Append(epochs, e)
    /\ UNCHANGED <<allowance, supply, dripped, deposits, authorized>>

\* the operator settles the venue's epoch with the batch of withdrawals it approved
SettleBatch ==
    /\ Len(epochs) < MaxEpochs
    /\ \E n \in 0 .. 2 : \E us \in [1 .. n -> Users], ns \in [1 .. n -> Amounts] :
         Settled(Len(epochs) + 1,
                 [by |-> Operator, root |-> "venue",
                  payouts |-> [i \in 1 .. n |-> [user |-> us[i], amount |-> ns[i]]]])
    /\ UNCHANGED <<price, service, day, direct>>

\* postPrice, by the venue's hourly timer
PostPrice(p) ==
    /\ price' = p
    /\ UNCHANGED <<token, vault, epochs, service, day, direct>>

-----------------------------------------------------------------------------
(* run-epoch-cycle.ts, call by call *)

Off == [at |-> "off"]
Goes(c, to) == service' = [service EXCEPT ![c] = to]
outside == <<epochs, day, direct, calls>>

\* 1) a fresh price is posted
Start(c) ==
    /\ service[c].at \in {"off", "done"}
    /\ \E p \in Prices : price' = p
    /\ Goes(c, [at |-> "scan"])
    /\ UNCHANGED <<token, vault, outside>>

\* mutant: the scan stops where its window ends, and does not say so
FetchedLast == IF deposits = <<>> THEN <<>> ELSE <<Last(deposits)>>

\* 2) fetchDeposits reads every Deposited event up to the block it began at; a
\* scan that is cut short throws (Fail)
Fetched == deposits

\* ensureDemoDeposit: with no deposit at all the service makes one
Scan(c) ==
    /\ service[c].at = "scan"
    /\ Goes(c, IF Fetched # <<>> THEN [at |-> "price", credited |-> Fetched]
               ELSE [at |-> IF balance[Operator] < DemoAmount THEN "drip" ELSE "approve"])
    /\ UNCHANGED <<token, vault, price, outside>>

DripForDemo(c) ==
    /\ service[c].at = "drip"
    /\ IF MayDrip(Operator)
       THEN Faucet(Operator) /\ Goes(c, [at |-> "approve"])
       ELSE UNCHANGED token /\ Goes(c, Off)
    /\ UNCHANGED <<vault, price, outside>>

ApproveDemo(c) ==
    /\ service[c].at = "approve"
    /\ Approve(Operator, DemoAmount)
    /\ Goes(c, [at |-> "deposit"])
    /\ UNCHANGED <<vault, price, outside>>

DepositDemo(c) ==
    /\ service[c].at = "deposit"
    /\ IF allowance[Operator] >= DemoAmount /\ balance[Operator] >= DemoAmount
       THEN Deposited(Operator, DemoAmount) /\ Goes(c, [at |-> "scan"])
       ELSE UNCHANGED <<token, vault>> /\ Goes(c, Off)
    /\ UNCHANGED <<price, outside>>

\* 4) the price is read back raw, whoever posted it last
ReadPrice(c) ==
    /\ service[c].at = "price"
    /\ Goes(c, [at |-> "epoch", credited |-> service[c].credited, price |-> price])
    /\ UNCHANGED <<token, vault, price, outside>>

\* lastEpochId; the commands are applied and the root computed
ReadEpochId(c) ==
    /\ service[c].at = "epoch"
    /\ Goes(c, [at |-> "settle", id |-> Len(epochs) + 1,
                root |-> [credited |-> service[c].credited, price |-> service[c].price,
                          id |-> Len(epochs) + 1]])
    /\ UNCHANGED <<token, vault, price, outside>>

\* 5) settleEpoch, with no payouts
Settle(c) ==
    /\ service[c].at = "settle"
    /\ Len(epochs) < MaxEpochs
    /\ \/ /\ Settled(service[c].id, [by |-> c, root |-> service[c].root, payouts |-> <<>>])
          /\ Goes(c, [service[c] EXCEPT !.at = "verify"])
       \/ /\ ~NextEpoch(service[c].id)
          /\ Goes(c, Off)
          /\ UNCHANGED <<token, vault, epochs>>
    /\ UNCHANGED <<price, day, direct, calls>>

\* 6) the epoch is read back
Verify(c) ==
    /\ service[c].at = "verify"
    /\ Goes(c, IF epochs[service[c].id].root = service[c].root
               THEN [service[c] EXCEPT !.at = "done"] ELSE Off)
    /\ UNCHANGED <<token, vault, price, outside>>

\* a call throws, or the service is stopped
Fail(c) ==
    /\ service[c].at \notin {"off", "done"}
    /\ Goes(c, Off)
    /\ UNCHANGED <<token, vault, price, outside>>

-----------------------------------------------------------------------------
Init ==
    /\ balance = [a \in Holders |-> IF a = Vault THEN 0 ELSE Seed]
    /\ allowance = [a \in Payers |-> 0]
    /\ supply = Seed * Cardinality(Payers)
    /\ dripped = [a \in Payers |-> -1]
    /\ deposits = <<>> /\ paidOut = 0 /\ authorized = FALSE
    /\ epochs = <<>>
    /\ price \in Prices
    /\ service = [c \in Services |-> Off]
    /\ day = 0
    /\ direct = [given |-> 0, paid |-> 0] /\ calls = 0

Called == calls < MaxCalls /\ calls' = calls + 1

UserCalls(u) ==
    \/ Faucet(u) /\ UNCHANGED <<vault, epochs, price, service, day, direct>>
    \/ \E n \in Amounts :
         \/ Approve(u, n) /\ UNCHANGED <<vault, epochs, price, service, day, direct>>
         \/ Deposited(u, n) /\ UNCHANGED <<epochs, price, service, day, direct>>
         \/ \E to \in Holders : Transfer(u, to, n)

OperatorCalls ==
    \/ \E u \in Users, n \in Amounts : PayOut(u, n)
    \/ \E allowed \in BOOLEAN : SetAuthorized(allowed)
    \/ \E p \in Prices : PostPrice(p)
    \/ SettleBatch

ServiceSteps(c) ==
    \/ Start(c) \/ Scan(c) \/ DripForDemo(c) \/ ApproveDemo(c) \/ DepositDemo(c)
    \/ ReadPrice(c) \/ ReadEpochId(c) \/ Settle(c) \/ Verify(c) \/ Fail(c)

NextDay ==
    /\ day < MaxDays
    /\ day' = day + 1
    /\ UNCHANGED <<token, vault, epochs, price, service, direct, calls>>

Next ==
    \/ Called /\ \E u \in Users : UserCalls(u)
    \/ Called /\ OperatorCalls
    \/ \E c \in Services : ServiceSteps(c)
    \/ NextDay

Spec == Init /\ [][Next]_vars

-----------------------------------------------------------------------------
(* Properties *)

TypeOK ==
    /\ balance \in [Holders -> Nat] /\ allowance \in [Payers -> Nat]
    /\ supply = SumFunction(balance)
    /\ paidOut \in Nat
    /\ authorized \in BOOLEAN

\* The vault holds exactly what came in less what went out, so what the events
\* credit to traders is backed as long as payouts are.
VaultBacked ==
    balance[Vault] = totalDeposited + direct.given - paidOut

\* Every unit the vault paid out is a payout of a settled epoch, or one the
\* operator made itself: a batch is paid in full or its epoch does not exist.
PayoutsAddUp ==
    paidOut = direct.paid
                + SumFunction([i \in DOMAIN epochs |-> AmountsOf(epochs[i].payouts)])

\* An epoch, once settled, keeps its root, and the next one gets the next id.
EpochsFinal == [][IsPrefix(epochs, epochs') /\ Len(epochs') <= Len(epochs) + 1]_vars

\* "Exits non-zero if ... the posted root doesn't read back identically": a
\* service that ended well has its own root on chain, for good.
DoneIsOnChain ==
    \A c \in Services : service[c].at = "done" =>
        epochs[service[c].id] = [by |-> c, root |-> service[c].root, payouts |-> <<>>]

\* Two epochs of one service: the later credits every deposit of the earlier.
CreditsGrow ==
    \A i, j \in DOMAIN epochs :
        i < j /\ epochs[i].by = epochs[j].by /\ epochs[i].by \in Services
        => IsPrefix(epochs[i].root.credited, epochs[j].root.credited)
=============================================================================
