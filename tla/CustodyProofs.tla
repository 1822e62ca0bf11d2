---------------------------- MODULE CustodyProofs ----------------------------
(***************************************************************************)
(* Custody: what the vault holds is what its events and epochs say, for    *)
(* every set of traders and services, every amount and every bound; an     *)
(* epoch is settled once and for all; and what the copies of the service   *)
(* settle and read back agrees with the chain however their calls mix.     *)
(***************************************************************************)
EXTENDS Custody, CommonLemmas

Payment == [user : Payers, amount : Nat]
Payout == [user : Users, amount : Nat]
Root == [credited : Seq(Payment), price : Prices, id : Nat]
Epoch == [by : Services \cup {Operator}, root : Root \cup {"venue"},
          payouts : Seq(Payout)]

(* What the chain keeps, by type.                                           *)
ChainOK ==
    /\ deposits \in Seq(Payment)
    /\ epochs \in Seq(Epoch)
    /\ direct \in [given : Nat, paid : Nat]
    /\ price \in Prices

MoneyInv == TypeOK /\ ChainOK /\ VaultBacked /\ PayoutsAddUp

-----------------------------------------------------------------------------
(* Sums of deposits and payouts                                             *)

(* The accounts are finitely many, and the vault is none of a trader's.     *)
LEMMA Accounts ==
    /\ IsFiniteSet(Payers) /\ IsFiniteSet(Holders)
    /\ Users \subseteq Payers /\ Payers \subseteq Holders
    /\ Vault \in Holders /\ Vault \notin Payers /\ Operator \in Payers
    /\ Holders \ {Vault} = Payers
<1>1. IsFiniteSet(Payers)
  BY CustodyAssumption, FS_AddElement DEF Payers
<1>2. IsFiniteSet(Holders)
  BY <1>1, FS_AddElement DEF Holders
<1> QED BY <1>1, <1>2, CustodyAssumption DEF Payers, Holders

(* A payment is to someone, and of an amount.                               *)
LEMMA PaymentsAre ==
    ASSUME NEW U, NEW ps \in Seq([user : U, amount : Nat])
    PROVE  /\ Len(ps) \in Nat /\ DOMAIN ps = 1..Len(ps) /\ IsFiniteSet(1..Len(ps))
           /\ \A i \in 1..Len(ps) : ps[i].user \in U /\ ps[i].amount \in Nat
<1>1. Len(ps) \in Nat /\ DOMAIN ps = 1..Len(ps)
  BY LenProperties
<1>2. \A i \in 1..Len(ps) : ps[i] \in [user : U, amount : Nat]
  BY <1>1, ElementOfSeq
<1>3. \A p \in [user : U, amount : Nat] : p.user \in U /\ p.amount \in Nat
  OBVIOUS
<1> QED BY <1>1, <1>2, <1>3, FS_Interval

(* What payments come to is a natural number.                               *)
LEMMA AmountsNat ==
    ASSUME NEW U, NEW ps \in Seq([user : U, amount : Nat])
    PROVE  /\ AmountsOf(ps) \in Nat
           /\ AmountsOf(ps) = SumFunctionOnSet([i \in 1..Len(ps) |-> ps[i].amount],
                                               1..Len(ps))
<1>1. Len(ps) \in Nat /\ DOMAIN ps = 1..Len(ps)
  BY LenProperties
<1> DEFINE f == [i \in 1..Len(ps) |-> ps[i].amount]
<1>2. AmountsOf(ps) = SumFunctionOnSet(f, 1..Len(ps))
  BY <1>1 DEF AmountsOf, SumFunction
<1>3. \A i \in 1..Len(ps) : f[i] \in Nat
  BY PaymentsAre
<1>4. IsFiniteSet(1..Len(ps))
  BY PaymentsAre
<1> HIDE DEF f
<1>5. SumFunctionOnSet(f, 1..Len(ps)) \in Nat
  BY <1>3, <1>4, SumNat
<1> QED BY <1>2, <1>5 DEF f

(* No payments come to nothing.                                             *)
LEMMA AmountsEmpty == AmountsOf(<<>>) = 0
<1> DEFINE f == [i \in DOMAIN <<>> |-> <<>>[i].amount]
<1>1. DOMAIN f = {}
  OBVIOUS
<1>2. AmountsOf(<<>>) = SumFunctionOnSet(f, DOMAIN f)
  BY DEF AmountsOf, SumFunction
<1> HIDE DEF f
<1> QED BY <1>1, <1>2, SumEmpty

(* One more payment adds its amount.                                        *)
LEMMA AmountsAppend ==
    ASSUME NEW U, NEW ps \in Seq([user : U, amount : Nat]),
           NEW p \in [user : U, amount : Nat]
    PROVE  AmountsOf(Append(ps, p)) = AmountsOf(ps) + p.amount
<1> DEFINE n == Len(ps)
           qs == Append(ps, p)
           f == [i \in 1..n |-> ps[i].amount]
           g == [i \in 1..(n + 1) |-> qs[i].amount]
<1>1. /\ n \in Nat /\ DOMAIN ps = 1..n /\ \A i \in 1..n : ps[i].amount \in Nat
      /\ p.amount \in Nat
  BY PaymentsAre
<1>2. /\ qs \in Seq([user : U, amount : Nat]) /\ Len(qs) = n + 1
      /\ \A i \in 1..n : qs[i] = ps[i]
      /\ qs[n + 1] = p
  BY AppendProperties
<1>3. /\ AmountsOf(ps) = SumFunctionOnSet(f, 1..n)
      /\ AmountsOf(qs) = SumFunctionOnSet(g, 1..(n + 1))
  BY <1>2, AmountsNat
<1> HIDE DEF qs
<1>4. \A i \in 1..n : f[i] \in Int /\ g[i] = f[i]
  BY <1>1, <1>2
<1>5. g[n + 1] = p.amount
  BY <1>1, <1>2, n + 1 \in 1..(n + 1)
<1> HIDE DEF f, g, n
<1>6. SumFunctionOnSet(g, 1..(n + 1)) = SumFunctionOnSet(f, 1..n) + g[n + 1]
  <2>1. n \in Nat /\ g[n + 1] \in Int
    BY <1>1, <1>5
  <2> QED BY ONLY <1>4, <2>1, SumAppended
<1> QED BY <1>3, <1>5, <1>6 DEF qs

(* Every payout reaches one trader: what they receive is what is paid.      *)
LEMMA ReceivedAddsUp ==
    ASSUME NEW ps \in Seq(Payout)
    PROVE  /\ \A a \in Holders : Received(ps, a) \in Nat
           /\ Received(ps, Vault) = 0
           /\ SumFunctionOnSet([a \in Holders |-> Received(ps, a)], Holders)
                = AmountsOf(ps)
<1> DEFINE S == 1..Len(ps)
           f == [i \in S |-> ps[i].amount]
           key == [i \in S |-> ps[i].user]
           Part(a) == [i \in S |-> IF key[i] = a THEN f[i] ELSE 0]
           g == [a \in Holders |-> Received(ps, a)]
<1>1. Len(ps) \in Nat /\ DOMAIN ps = S /\ IsFiniteSet(S)
  BY LenProperties, FS_Interval
<1>2. \A i \in S : f[i] \in Nat /\ key[i] \in Users
  BY PaymentsAre DEF Payout
<1>3. \A a \in Holders : g[a] = SumFunctionOnSet(Part(a), S)
  <2> SUFFICES ASSUME NEW a \in Holders PROVE g[a] = SumFunctionOnSet(Part(a), S)
    OBVIOUS
  <2>1. [i \in DOMAIN ps |-> IF ps[i].user = a THEN ps[i].amount ELSE 0] = Part(a)
    BY <1>1
  <2>2. DOMAIN Part(a) = S
    OBVIOUS
  <2> QED BY <2>1, <2>2 DEF Received, SumFunction
<1>4. \A a : \A i \in S : Part(a)[i] = IF key[i] = a THEN f[i] ELSE 0
  OBVIOUS
<1>5. AmountsOf(ps) = SumFunctionOnSet(f, S)
  BY AmountsNat DEF Payout
<1>6. SumFunctionOnSet(g, Holders) = SumFunctionOnSet(f, S)
  <2>1. (\A i \in S : f[i] \in Int) /\ \A i \in S : key[i] \in Holders
    BY <1>2, Accounts
  <2> DEFINE part == [a \in Holders |-> Part(a)]
  <2>2. /\ \A a \in Holders : \A i \in S :
              part[a][i] = IF key[i] = a THEN f[i] ELSE 0
        /\ \A a \in Holders : g[a] = SumFunctionOnSet(part[a], S)
    BY <1>3
  <2>3. IsFiniteSet(S) /\ IsFiniteSet(Holders)
    BY <1>1, Accounts
  <2> HIDE DEF g, f, key, S, part
  <2> QED BY ONLY <2>1, <2>2, <2>3, SumByKey
<1>7. \A a \in Holders : g[a] \in Nat
  <2> SUFFICES ASSUME NEW a \in Holders PROVE g[a] \in Nat
    OBVIOUS
  <2>1. \A i \in S : Part(a)[i] \in Nat
    BY <1>2, <1>4
  <2> HIDE DEF Part, g, S
  <2> QED BY <1>1, <1>3, <2>1, SumNat
<1>8. g[Vault] = 0
  <2>1. \A i \in S : Part(Vault)[i] = 0
    BY <1>2, <1>4, Accounts
  <2> HIDE DEF Part, g, S
  <2> QED BY <1>1, <1>3, <2>1, Accounts, SumZero
<1> QED BY <1>5, <1>6, <1>7, <1>8, Accounts

\* what the payouts of epochs come to
PaidBy(es) == SumFunction([i \in DOMAIN es |-> AmountsOf(es[i].payouts)])

(* One more epoch adds what it pays.                                        *)
LEMMA EpochsPaid ==
    ASSUME NEW es \in Seq(Epoch)
    PROVE  /\ PaidBy(es) \in Int
           /\ \A e \in Epoch : PaidBy(Append(es, e)) = PaidBy(es) + AmountsOf(e.payouts)
<1> DEFINE n == Len(es)
           f == [i \in 1..n |-> AmountsOf(es[i].payouts)]
<1>1. n \in Nat /\ DOMAIN es = 1..n /\ IsFiniteSet(1..n)
      /\ \A i \in 1..n : es[i] \in Epoch
  BY LenProperties, ElementOfSeq, FS_Interval
<1>2. \A e \in Epoch : AmountsOf(e.payouts) \in Int
  <2> SUFFICES ASSUME NEW e \in Epoch PROVE AmountsOf(e.payouts) \in Int
    OBVIOUS
  <2>1. e.payouts \in Seq([user : Users, amount : Nat])
    BY DEF Epoch, Payout
  <2>2. AmountsOf(e.payouts) \in Nat
    BY <2>1, AmountsNat
  <2> QED BY <2>2
<1>3. PaidBy(es) = SumFunctionOnSet(f, 1..n)
  <2>1. DOMAIN f = 1..n /\ [i \in DOMAIN es |-> AmountsOf(es[i].payouts)] = f
    BY <1>1
  <2> QED BY <2>1 DEF PaidBy, SumFunction
<1>4. \A i \in 1..n : f[i] \in Int
  BY <1>1, <1>2
<1>5. ASSUME NEW e \in Epoch
      PROVE  PaidBy(Append(es, e)) = PaidBy(es) + AmountsOf(e.payouts)
  <2> DEFINE ds == Append(es, e)
             g == [i \in 1..(n + 1) |-> AmountsOf(ds[i].payouts)]
  <2>1. /\ ds \in Seq(Epoch) /\ Len(ds) = n + 1 /\ DOMAIN ds = 1..(n + 1)
        /\ \A i \in 1..n : ds[i] = es[i]
        /\ ds[n + 1] = e
    BY AppendProperties, LenProperties
  <2> HIDE DEF ds
  <2>2. PaidBy(ds) = SumFunctionOnSet(g, 1..(n + 1))
    <3>1. DOMAIN g = 1..(n + 1) /\ [i \in DOMAIN ds |-> AmountsOf(ds[i].payouts)] = g
      BY <2>1
    <3> QED BY <3>1 DEF PaidBy, SumFunction
  <2>3. \A i \in 1..n : f[i] \in Int /\ g[i] = f[i]
    BY <1>1, <1>4, <2>1
  <2>4. g[n + 1] = AmountsOf(e.payouts) /\ g[n + 1] \in Int
    BY <1>1, <1>2, <2>1, n + 1 \in 1..(n + 1)
  <2> HIDE DEF f, g, n
  <2>5. SumFunctionOnSet(g, 1..(n + 1)) = SumFunctionOnSet(f, 1..n) + g[n + 1]
    <3>1. n \in Nat /\ g[n + 1] \in Int
      BY <1>1, <2>4
    <3> QED BY ONLY <2>3, <3>1, SumAppended
  <2> QED BY <1>3, <2>2, <2>4, <2>5 DEF ds
<1> HIDE DEF f, n
<1> QED BY <1>1, <1>3, <1>4, <1>5, SumInt

-----------------------------------------------------------------------------
(* Moving tokens                                                            *)

(* A transfer makes no token and loses none.                                *)
LEMMA MovedKeeps ==
    ASSUME balance \in [Holders -> Nat], NEW from \in Holders, NEW to \in Holders,
           NEW n \in Nat, n <= balance[from]
    PROVE  /\ Moved(from, to, n) \in [Holders -> Nat]
           /\ SumFunction(Moved(from, to, n)) = SumFunction(balance)
           /\ \A a \in Holders : Moved(from, to, n)[a] =
                 balance[a] - (IF a = from THEN n ELSE 0) + (IF a = to THEN n ELSE 0)
<1> DEFINE m == Moved(from, to, n)
           taken == [a \in Holders |-> balance[a] - (IF a = from THEN n ELSE 0)]
           sum(f) == SumFunctionOnSet(f, Holders)
<1>1. \A a \in Holders :
        m[a] = balance[a] - (IF a = from THEN n ELSE 0) + (IF a = to THEN n ELSE 0)
  BY DEF Moved
<1>2. DOMAIN m = Holders /\ DOMAIN balance = Holders /\ m = [a \in Holders |-> m[a]]
  BY DEF Moved
<1>3. \A a \in Holders : balance[a] \in Int /\ taken[a] \in Int
  OBVIOUS
<1>4. taken[from] = balance[from] + (-n) /\ \A a \in Holders \ {from} : taken[a] = balance[a]
  OBVIOUS
<1>5. m[to] = taken[to] + n /\ \A a \in Holders \ {to} : m[a] = taken[a]
  BY <1>1
<1>6. \A a \in Holders : m[a] \in Nat
  BY <1>1
<1> DEFINE neg == -n
<1>7. neg \in Int /\ taken[from] = balance[from] + neg
  BY <1>4
<1> HIDE DEF m, taken, neg
<1>8. sum(taken) = sum(balance) + neg
  <2>1. IsFiniteSet(Holders) /\ from \in Holders /\ neg \in Int
        /\ \A a \in Holders : balance[a] \in Int
    BY <1>3, <1>7, Accounts
  <2>2. \A a \in Holders \ {from} : taken[a] = balance[a]
    BY <1>4
  <2> QED BY ONLY <1>7, <2>1, <2>2, SumMoves
<1>9. sum(m) = sum(taken) + n
  <2>1. IsFiniteSet(Holders) /\ to \in Holders /\ n \in Int
        /\ \A a \in Holders : taken[a] \in Int
    BY <1>3, Accounts
  <2> QED BY ONLY <1>5, <2>1, SumMoves
<1>10. sum(balance) \in Int
  BY <1>3, Accounts, SumInt
<1>11. sum(m) = sum(balance)
  BY <1>8, <1>9, <1>10 DEF neg
<1>12. SumFunction(m) = sum(m) /\ SumFunction(balance) = sum(balance)
  BY <1>2 DEF SumFunction
<1>13. m \in [Holders -> Nat]
  BY <1>2, <1>6
<1> QED BY <1>1, <1>11, <1>12, <1>13 DEF m

(* Nor does a batch of payouts.                                             *)
LEMMA PaidToKeeps ==
    ASSUME balance \in [Holders -> Nat], NEW ps \in Seq(Payout),
           AmountsOf(ps) <= balance[Vault]
    PROVE  /\ PaidTo(ps) \in [Holders -> Nat]
           /\ SumFunction(PaidTo(ps)) = SumFunction(balance)
           /\ PaidTo(ps)[Vault] = balance[Vault] - AmountsOf(ps)
<1> DEFINE p == PaidTo(ps)
           n == AmountsOf(ps)
           got == [a \in Holders |-> Received(ps, a)]
           more == [a \in Holders |-> balance[a] + got[a]]
           sum(f) == SumFunctionOnSet(f, Holders)
           neg == -n
<1>1. n \in Nat /\ neg \in Int
  <2>1. n \in Nat
    BY AmountsNat DEF Payout
  <2> HIDE DEF n
  <2> QED BY <2>1
<1>2. (\A a \in Holders : got[a] \in Nat) /\ got[Vault] = 0 /\ sum(got) = n
  BY ReceivedAddsUp, Accounts
<1>3. /\ p[Vault] = balance[Vault] - n
      /\ \A a \in Holders \ {Vault} : p[a] = balance[a] + got[a]
  BY Accounts DEF PaidTo
<1>4. DOMAIN p = Holders /\ DOMAIN balance = Holders /\ p = [a \in Holders |-> p[a]]
  BY DEF PaidTo
<1>5. \A a \in Holders : /\ balance[a] \in Int
                         /\ got[a] \in Int
                         /\ more[a] = balance[a] + got[a]
                         /\ more[a] \in Int
  BY <1>2
<1> HIDE DEF p, n, got
<1>6. more[Vault] = balance[Vault]
  BY <1>2, Accounts
<1> HIDE DEF more
<1>7. p[Vault] = more[Vault] + neg /\ \A a \in Holders \ {Vault} : p[a] = more[a]
  BY <1>1, <1>3, <1>5, <1>6, Accounts
<1> HIDE DEF neg
<1>8. sum(more) = sum(balance) + sum(got)
  BY <1>5, Accounts, SumAdd
<1>9. sum(p) = sum(more) + neg
  <2>1. IsFiniteSet(Holders) /\ Vault \in Holders /\ neg \in Int
        /\ \A a \in Holders : more[a] \in Int
    BY <1>1, <1>5, Accounts
  <2> QED BY ONLY <1>7, <2>1, SumMoves
<1>10. sum(balance) \in Int
  BY <1>5, Accounts, SumInt
<1>11. sum(p) = sum(balance)
  BY <1>1, <1>2, <1>8, <1>9, <1>10 DEF neg
<1>12. SumFunction(p) = sum(p) /\ SumFunction(balance) = sum(balance)
  BY <1>4 DEF SumFunction
<1>13. \A a \in Holders : p[a] \in Nat
  BY <1>1, <1>2, <1>3, Accounts DEF n
<1>14. p \in [Holders -> Nat]
  BY <1>4, <1>13
<1> QED BY <1>3, <1>11, <1>12, <1>14 DEF p, n

(* A faucet's tokens are new ones.                                          *)
LEMMA DripAdds ==
    ASSUME balance \in [Holders -> Nat], NEW a \in Payers, NEW b,
           b = [balance EXCEPT ![a] = @ + Drip]
    PROVE  /\ b \in [Holders -> Nat]
           /\ SumFunction(b) = SumFunction(balance) + Drip
           /\ b[Vault] = balance[Vault]
<1> DEFINE sum(f) == SumFunctionOnSet(f, Holders)
<1>1. Drip \in Nat /\ a \in Holders /\ a # Vault
  BY CustodyAssumption, Accounts
<1>2. b \in [Holders -> Nat] /\ b[a] = balance[a] + Drip
      /\ (\A o \in Holders \ {a} : b[o] = balance[o]) /\ b[Vault] = balance[Vault]
  BY <1>1, Accounts
<1>3. DOMAIN b = Holders /\ DOMAIN balance = Holders
      /\ \A o \in Holders : balance[o] \in Int
  BY <1>2
<1>4. sum(b) = sum(balance) + Drip
  <2>1. IsFiniteSet(Holders) /\ a \in Holders /\ Drip \in Int
        /\ \A o \in Holders : balance[o] \in Int
    BY <1>1, <1>3, Accounts
  <2>2. b[a] = balance[a] + Drip /\ \A o \in Holders \ {a} : b[o] = balance[o]
    BY <1>2
  <2> QED BY ONLY <2>1, <2>2, SumMoves
<1>5. SumFunction(b) = sum(b) /\ SumFunction(balance) = sum(balance)
  BY <1>3 DEF SumFunction
<1> QED BY <1>2, <1>4, <1>5

-----------------------------------------------------------------------------
(* Each call keeps the money right                                          *)

(* A call that moves nothing.                                               *)
LEMMA NoneMoved ==
    ASSUME MoneyInv, UNCHANGED <<balance, supply, deposits, paidOut, epochs, direct>>,
           allowance' \in [Payers -> Nat], authorized' \in BOOLEAN, price' \in Prices
    PROVE  MoneyInv'
BY DEF MoneyInv, TypeOK, ChainOK, VaultBacked, PayoutsAddUp, totalDeposited

(* The faucet.                                                              *)
LEMMA FaucetMoney ==
    ASSUME MoneyInv, NEW a \in Payers, Faucet(a),
           UNCHANGED <<vault, epochs, direct>>, price' \in Prices
    PROVE  MoneyInv'
<1>1. balance \in [Holders -> Nat] /\ supply = SumFunction(balance)
  BY DEF MoneyInv, TypeOK
<1>2. /\ balance' = [balance EXCEPT ![a] = @ + Drip]
      /\ supply' = supply + Drip
      /\ UNCHANGED <<allowance, deposits, paidOut, authorized, epochs, direct>>
  BY DEF Faucet, vault
<1>3. /\ balance' \in [Holders -> Nat]
      /\ supply' = SumFunction(balance')
      /\ balance'[Vault] = balance[Vault]
  BY <1>1, <1>2, DripAdds
<1> QED BY <1>2, <1>3 DEF MoneyInv, TypeOK, ChainOK, VaultBacked, PayoutsAddUp,
                          totalDeposited

(* A transfer, also one to the vault.                                       *)
LEMMA TransferMoney ==
    ASSUME MoneyInv, NEW from \in Payers, NEW to \in Holders, NEW n \in Nat,
           Transfer(from, to, n)
    PROVE  MoneyInv'
<1>1. balance \in [Holders -> Nat] /\ from \in Holders /\ from # Vault
      /\ n <= balance[from] /\ balance' = Moved(from, to, n)
  BY Accounts DEF MoneyInv, TypeOK, Transfer
<1>2. /\ balance' \in [Holders -> Nat]
      /\ SumFunction(balance') = SumFunction(balance)
      /\ balance'[Vault] = balance[Vault] + (IF Vault = to THEN n ELSE 0)
  BY <1>1, MovedKeeps, Accounts
<1>3. UNCHANGED <<allowance, supply, deposits, paidOut, authorized, epochs, price>>
  BY DEF Transfer, vault
<1>4. /\ direct.given \in Nat /\ direct.paid \in Nat
      /\ direct' \in [given : Nat, paid : Nat]
      /\ direct'.paid = direct.paid
      /\ direct'.given = direct.given + (IF Vault = to THEN n ELSE 0)
  BY DEF Transfer, MoneyInv, ChainOK
<1>5. AmountsOf(deposits) \in Nat /\ paidOut \in Nat
  BY AmountsNat DEF MoneyInv, ChainOK, TypeOK, Payment
<1>6. VaultBacked'
  <2>1. balance[Vault] = AmountsOf(deposits) + direct.given - paidOut
    BY DEF MoneyInv, VaultBacked, totalDeposited
  <2>2. AmountsOf(deposits') = AmountsOf(deposits) /\ paidOut' = paidOut
    BY <1>3
  <2>3. balance'[Vault] = AmountsOf(deposits') + direct'.given - paidOut'
    BY <1>2, <1>4, <1>5, <2>1, <2>2
  <2> QED BY <2>3 DEF VaultBacked, totalDeposited
<1> QED BY <1>2, <1>3, <1>4, <1>6 DEF MoneyInv, TypeOK, ChainOK, PayoutsAddUp

(* A deposit: the event books what the vault received.                      *)
LEMMA DepositMoney ==
    ASSUME MoneyInv, NEW a \in Payers, NEW n \in Nat, Deposited(a, n),
           UNCHANGED <<epochs, direct>>, price' \in Prices
    PROVE  MoneyInv'
<1> DEFINE p == [user |-> a, amount |-> n]
<1>1. balance \in [Holders -> Nat] /\ a \in Holders /\ a # Vault
      /\ n <= balance[a] /\ balance' = Moved(a, Vault, n)
  BY Accounts DEF MoneyInv, TypeOK, Deposited
<1>2. /\ balance' \in [Holders -> Nat]
      /\ SumFunction(balance') = SumFunction(balance)
      /\ balance'[Vault] = balance[Vault] + n
  BY <1>1, MovedKeeps, Accounts
<1>3. deposits \in Seq(Payment) /\ p \in Payment /\ deposits' = Append(deposits, p)
  BY DEF MoneyInv, ChainOK, Payment, Deposited
<1>4. deposits' \in Seq(Payment) /\ AmountsOf(deposits') = AmountsOf(deposits) + n
  BY <1>3, AppendProperties, AmountsAppend DEF Payment
<1>5. allowance' \in [Payers -> Nat]
  BY DEF Deposited, MoneyInv, TypeOK
<1>6. UNCHANGED <<supply, paidOut, authorized, epochs, direct>>
  BY DEF Deposited
<1>7. AmountsOf(deposits) \in Nat /\ paidOut \in Nat /\ direct.given \in Nat
  BY <1>3, AmountsNat DEF MoneyInv, ChainOK, TypeOK, Payment
<1>8. VaultBacked'
  <2>1. balance[Vault] = AmountsOf(deposits) + direct.given - paidOut
    BY DEF MoneyInv, VaultBacked, totalDeposited
  <2>2. balance'[Vault] = AmountsOf(deposits') + direct'.given - paidOut'
    BY <1>2, <1>4, <1>6, <1>7, <2>1
  <2> QED BY <2>2 DEF VaultBacked, totalDeposited
<1> QED BY <1>2, <1>4, <1>5, <1>6, <1>8 DEF MoneyInv, TypeOK, ChainOK, PayoutsAddUp

(* A payout by the operator itself.                                         *)
LEMMA PayOutMoney ==
    ASSUME MoneyInv, NEW u \in Users, NEW n \in Nat, PayOut(u, n)
    PROVE  MoneyInv'
<1>1. balance \in [Holders -> Nat] /\ u \in Holders /\ u # Vault
      /\ n <= balance[Vault] /\ balance' = Moved(Vault, u, n)
  BY Accounts DEF MoneyInv, TypeOK, PayOut
<1>2. /\ balance' \in [Holders -> Nat]
      /\ SumFunction(balance') = SumFunction(balance)
      /\ balance'[Vault] = balance[Vault] - n
  BY <1>1, MovedKeeps, Accounts
<1>3. UNCHANGED <<allowance, supply, deposits, authorized, epochs, price>>
      /\ paidOut' = paidOut + n
  BY DEF PayOut
<1>4. /\ direct.given \in Nat /\ direct.paid \in Nat
      /\ direct' \in [given : Nat, paid : Nat]
      /\ direct'.paid = direct.paid + n
      /\ direct'.given = direct.given
  BY DEF PayOut, MoneyInv, ChainOK
<1>5. AmountsOf(deposits) \in Nat /\ paidOut \in Nat
  BY AmountsNat DEF MoneyInv, ChainOK, TypeOK, Payment
<1>6. VaultBacked'
  <2>1. balance[Vault] = AmountsOf(deposits) + direct.given - paidOut
    BY DEF MoneyInv, VaultBacked, totalDeposited
  <2>2. AmountsOf(deposits') = AmountsOf(deposits)
    BY <1>3
  <2>3. balance'[Vault] = AmountsOf(deposits') + direct'.given - paidOut'
    BY <1>1, <1>2, <1>3, <1>4, <1>5, <2>1, <2>2
  <2> QED BY <2>3 DEF VaultBacked, totalDeposited
<1>7. PayoutsAddUp'
  <2>1. paidOut = direct.paid + PaidBy(epochs) /\ PaidBy(epochs) \in Int
    BY EpochsPaid DEF MoneyInv, ChainOK, PayoutsAddUp, PaidBy
  <2>2. PaidBy(epochs') = PaidBy(epochs)
    BY <1>3
  <2>3. paidOut' = direct'.paid + PaidBy(epochs')
    BY <1>3, <1>4, <2>1, <2>2
  <2> QED BY <2>3 DEF PayoutsAddUp, PaidBy
<1> QED BY <1>2, <1>3, <1>4, <1>5, <1>6, <1>7 DEF MoneyInv, TypeOK, ChainOK

(* A settled epoch: its payouts leave the vault, all of them or none.       *)
LEMMA SettledMoney ==
    ASSUME MoneyInv, NEW id, NEW e \in Epoch, Settled(id, e),
           UNCHANGED <<price, direct>>
    PROVE  MoneyInv' /\ epochs' = Append(epochs, e)
<1> DEFINE n == AmountsOf(e.payouts)
<1>1. /\ balance \in [Holders -> Nat] /\ e.payouts \in Seq(Payout)
      /\ n <= balance[Vault] /\ balance' = PaidTo(e.payouts)
      /\ paidOut' = paidOut + n
  BY DEF MoneyInv, TypeOK, Settled, Paid, Epoch
<1>2. /\ balance' \in [Holders -> Nat]
      /\ SumFunction(balance') = SumFunction(balance)
      /\ balance'[Vault] = balance[Vault] - n
  BY <1>1, PaidToKeeps
<1>3. epochs \in Seq(Epoch) /\ Len(epochs) \in Nat
  BY LenProperties DEF MoneyInv, ChainOK
<1>4. epochs' = Append(epochs, e)
  BY <1>3 DEF Settled, NextEpoch
<1>5. epochs' \in Seq(Epoch)
  BY <1>3, <1>4, AppendProperties
<1>6. UNCHANGED <<allowance, supply, deposits, authorized, price, direct>>
  BY DEF Settled
<1>7. /\ AmountsOf(deposits) \in Nat /\ paidOut \in Nat /\ n \in Nat
      /\ direct.given \in Nat /\ direct.paid \in Nat
  BY <1>1, AmountsNat DEF MoneyInv, ChainOK, TypeOK, Payment, Payout
<1>8. VaultBacked'
  <2>1. balance[Vault] = AmountsOf(deposits) + direct.given - paidOut
    BY DEF MoneyInv, VaultBacked, totalDeposited
  <2>2. AmountsOf(deposits') = AmountsOf(deposits)
    BY <1>6
  <2>3. balance'[Vault] = AmountsOf(deposits') + direct'.given - paidOut'
    <3> HIDE DEF n
    <3> QED BY <1>1, <1>2, <1>6, <1>7, <2>1, <2>2
  <2> QED BY <2>3 DEF VaultBacked, totalDeposited
<1>9. PayoutsAddUp'
  <2>1. paidOut = direct.paid + PaidBy(epochs) /\ PaidBy(epochs) \in Int
    BY EpochsPaid DEF MoneyInv, ChainOK, PayoutsAddUp, PaidBy
  <2>2. PaidBy(epochs') = PaidBy(epochs) + n
    BY <1>3, <1>4, EpochsPaid
  <2>3. paidOut' = direct'.paid + PaidBy(epochs')
    <3> HIDE DEF n
    <3> QED BY <1>1, <1>6, <1>7, <2>1, <2>2
  <2> QED BY <2>3 DEF PayoutsAddUp, PaidBy
<1> QED BY <1>1, <1>2, <1>4, <1>5, <1>6, <1>7, <1>8, <1>9 DEF MoneyInv, TypeOK, ChainOK

-----------------------------------------------------------------------------
(* The services and the chain                                               *)

\* the epochs a service settled before credit no deposit that is not in s
Follows(c, s) ==
    \A i \in DOMAIN epochs :
        epochs[i].by = c => IsPrefix(epochs[i].root.credited, s)

\* deposits of the chain a service is about to settle
Creditable(c, s) == s \in Seq(Payment) /\ IsPrefix(s, deposits) /\ Follows(c, s)

(* What a service knows, by the call it is at.                              *)
ServiceOK(c) ==
    /\ service[c].at \in {"price", "epoch"} => Creditable(c, service[c].credited)
    /\ service[c].at = "epoch" => service[c].price \in Prices
    /\ service[c].at \in {"settle", "verify", "done"} =>
          /\ service[c].root \in Root
          /\ service[c] = [at |-> service[c].at, id |-> service[c].id,
                           root |-> service[c].root]
    /\ service[c].at = "settle" => Creditable(c, service[c].root.credited)
    /\ service[c].at \in {"verify", "done"} =>
          /\ service[c].id \in DOMAIN epochs
          /\ epochs[service[c].id] = [by |-> c, root |-> service[c].root, payouts |-> <<>>]

(* An epoch of a service credits deposits there are.                        *)
EpochsCredit ==
    \A i \in DOMAIN epochs : epochs[i].by \in Services =>
        /\ epochs[i].root \in Root
        /\ IsPrefix(epochs[i].root.credited, deposits)

RecordInv ==
    /\ DOMAIN service = Services
    /\ \A c \in Services : ServiceOK(c)
    /\ EpochsCredit
    /\ CreditsGrow

CInv == MoneyInv /\ RecordInv

(* A prefix agrees wherever it has something.                               *)
LEMMA PrefixIs ==
    ASSUME NEW S, NEW s \in Seq(S), NEW t \in Seq(S)
    PROVE  IsPrefix(s, t) <=> Len(s) <= Len(t) /\ \A i \in 1..Len(s) : s[i] = t[i]
<1>1. Len(s) \in Nat /\ Len(t) \in Nat
      /\ (\A i \in 1..Len(s) : s[i] \in S) /\ \A i \in 1..Len(t) : t[i] \in S
  BY LenProperties, ElementOfSeq
<1>2. CASE ~(Len(s) <= Len(t))
  BY <1>2 DEF IsPrefix
<1>3. CASE Len(s) <= Len(t)
  <2> DEFINE a == SubSeq(s, 1, Len(s))
             b == SubSeq(t, 1, Len(s))
  <2>1. /\ a \in Seq(S) /\ Len(a) = Len(s)
        /\ \A i \in 1..Len(s) : a[i] = s[i]
    <3>1. 1 \in Int /\ Len(s) \in Int /\ \A k \in 1..Len(s) : s[k] \in S
      BY <1>1
    <3> QED BY <1>1, <3>1, SubSeqProperties
  <2>2. /\ b \in Seq(S) /\ Len(b) = Len(s)
        /\ \A i \in 1..Len(s) : b[i] = t[i]
    <3>1. 1 \in Int /\ Len(s) \in Int /\ \A k \in 1..Len(s) : t[k] \in S
      BY <1>1, <1>3
    <3> QED BY <1>1, <3>1, SubSeqProperties
  <2> HIDE DEF a, b
  <2>3. a = b <=> \A i \in 1..Len(s) : a[i] = b[i]
    <3>1. (\A i \in 1..Len(a) : a[i] = b[i]) => a = b
      BY <2>1, <2>2, SeqEqual
    <3> QED BY <2>1, <3>1
  <2>4. IsPrefix(s, t) <=> a = b
    BY <1>3 DEF IsPrefix, a, b
  <2> QED BY <1>3, <2>1, <2>2, <2>3, <2>4
<1> QED BY <1>2, <1>3

(* A prefix stays one as the sequence grows, and a sequence is its own.     *)
LEMMA PrefixGrows ==
    ASSUME NEW S, NEW s \in Seq(S), NEW t \in Seq(S), NEW e \in S
    PROVE  /\ IsPrefix(s, t) => IsPrefix(s, Append(t, e))
           /\ IsPrefix(t, t)
<1> DEFINE u == Append(t, e)
<1>1. u \in Seq(S) /\ Len(u) = Len(t) + 1 /\ \A i \in 1..Len(t) : u[i] = t[i]
  BY AppendProperties
<1>2. Len(s) \in Nat /\ Len(t) \in Nat
  BY LenProperties
<1> HIDE DEF u
<1>3. IsPrefix(s, t) => IsPrefix(s, u)
  BY <1>1, <1>2, PrefixIs
<1>4. IsPrefix(t, t)
  BY <1>2, PrefixIs
<1> QED BY <1>3, <1>4 DEF u

\* no deposit is lost, and no epoch
DepositsKept ==
    \A s \in Seq(Payment) : IsPrefix(s, deposits) => IsPrefix(s, deposits')
EpochsKept == \A i \in DOMAIN epochs : i \in DOMAIN epochs' /\ epochs'[i] = epochs[i]

(* A service the step is not of, when no epoch of its own is added.         *)
LEMMA OtherService ==
    ASSUME NEW c \in Services, ServiceOK(c), service'[c] = service[c],
           DepositsKept, EpochsKept,
           \A i \in DOMAIN epochs' \ DOMAIN epochs : epochs'[i].by # c
    PROVE  ServiceOK(c)'
<1>1. \A s : Follows(c, s) => Follows(c, s)'
  BY DEF Follows, EpochsKept
<1>2. \A s : Creditable(c, s) => Creditable(c, s)'
  BY <1>1 DEF Creditable, DepositsKept
<1>3. service[c].at \in {"price", "epoch"} => Creditable(c, service[c].credited)'
  BY <1>2 DEF ServiceOK
<1>4. service[c].at = "settle" => Creditable(c, service[c].root.credited)'
  BY <1>2 DEF ServiceOK
<1>5. service[c].at \in {"verify", "done"} =>
          /\ service[c].id \in DOMAIN epochs'
          /\ epochs'[service[c].id] = [by |-> c, root |-> service[c].root, payouts |-> <<>>]
  BY DEF ServiceOK, EpochsKept
<1> QED BY <1>3, <1>4, <1>5 DEF ServiceOK

(* A step that settles nothing, of a service or of none.                    *)
LEMMA QuietRecord ==
    ASSUME CInv, MoneyInv', DepositsKept, epochs' = epochs,
           DOMAIN service' = Services,
           \A c \in Services : service'[c] = service[c] \/ ServiceOK(c)'
    PROVE  CInv'
<1>1. EpochsKept /\ DOMAIN epochs' \ DOMAIN epochs = {}
  BY DEF EpochsKept
<1>2. \A c \in Services : ServiceOK(c)'
  BY <1>1, OtherService DEF CInv, RecordInv
<1>3. EpochsCredit'
  <2>1. \A i \in DOMAIN epochs : epochs[i].by \in Services =>
            /\ epochs[i].root \in Root
            /\ IsPrefix(epochs[i].root.credited, deposits)
    BY DEF CInv, RecordInv, EpochsCredit
  <2>2. \A r \in Root : r.credited \in Seq(Payment)
    BY DEF Root
  <2> QED BY <2>1, <2>2 DEF EpochsCredit, DepositsKept
<1>4. CreditsGrow'
  BY DEF CInv, RecordInv, CreditsGrow
<1> QED BY <1>2, <1>3, <1>4 DEF CInv, RecordInv

(* A step that settles an epoch, which credits all its service did before.  *)
LEMMA SettledRecord ==
    ASSUME CInv, MoneyInv', UNCHANGED deposits, NEW e \in Epoch,
           epochs' = Append(epochs, e),
           e.by \in Services => e.root \in Root /\ Creditable(e.by, e.root.credited),
           DOMAIN service' = Services,
           \A c \in Services : \/ service'[c] = service[c] /\ c # e.by
                               \/ ServiceOK(c)'
    PROVE  CInv'
<1> DEFINE n == Len(epochs)
<1>1. /\ n \in Nat /\ DOMAIN epochs = 1..n /\ DOMAIN epochs' = 1..(n + 1)
      /\ \A i \in 1..n : epochs'[i] = epochs[i]
      /\ epochs'[n + 1] = e
  <2>1. epochs \in Seq(Epoch)
    BY DEF CInv, MoneyInv, ChainOK
  <2> QED BY <2>1, AppendProperties, LenProperties
<1>2. EpochsKept
  BY <1>1 DEF EpochsKept
<1>3. DepositsKept
  BY DEF DepositsKept
<1>4. \A i \in DOMAIN epochs' \ DOMAIN epochs : epochs'[i] = e
  BY <1>1
<1>5. \A c \in Services : ServiceOK(c)'
  <2> SUFFICES ASSUME NEW c \in Services PROVE ServiceOK(c)'
    OBVIOUS
  <2>1. ServiceOK(c)
    BY DEF CInv, RecordInv
  <2>2. ASSUME service'[c] = service[c], c # e.by PROVE ServiceOK(c)'
    BY <1>2, <1>3, <1>4, <2>1, <2>2, OtherService
  <2> QED BY <2>2
<1>6. EpochsCredit'
  <2>1. ASSUME NEW i \in DOMAIN epochs', epochs'[i].by \in Services
        PROVE  epochs'[i].root \in Root /\ IsPrefix(epochs'[i].root.credited, deposits')
    <3>1. CASE i \in DOMAIN epochs
      BY <1>1, <2>1, <3>1 DEF CInv, RecordInv, EpochsCredit
    <3>2. CASE i \notin DOMAIN epochs
      BY <1>4, <2>1, <3>2 DEF Creditable
    <3> QED BY <3>1, <3>2
  <2> QED BY <2>1 DEF EpochsCredit
<1>7. CreditsGrow'
  <2>1. ASSUME NEW i \in 1..(n + 1), NEW j \in 1..(n + 1), i < j,
               epochs'[i].by = epochs'[j].by, epochs'[i].by \in Services
        PROVE  IsPrefix(epochs'[i].root.credited, epochs'[j].root.credited)
    <3>1. i \in 1..n /\ epochs'[i] = epochs[i]
      BY <1>1, <2>1
    <3>2. CASE j \in 1..n
      BY <1>1, <2>1, <3>1, <3>2 DEF CInv, RecordInv, CreditsGrow
    <3>3. CASE j \notin 1..n
      <4>1. epochs'[j] = e /\ Follows(e.by, e.root.credited)
        BY <1>1, <1>4, <2>1, <3>3 DEF Creditable
      <4> QED BY <1>1, <2>1, <3>1, <4>1 DEF Follows
    <3> QED BY <3>2, <3>3
  <2> QED BY <1>1, <2>1 DEF CreditsGrow
<1> QED BY <1>5, <1>6, <1>7 DEF CInv, RecordInv

(* Deposits are only ever appended.                                         *)
LEMMA DepositKeeps ==
    ASSUME MoneyInv, NEW a \in Payers, NEW n \in Nat, Deposited(a, n)
    PROVE  DepositsKept
<1>1. [user |-> a, amount |-> n] \in Payment /\ deposits \in Seq(Payment)
  BY DEF MoneyInv, ChainOK, Payment
<1>2. deposits' = Append(deposits, [user |-> a, amount |-> n])
  BY DEF Deposited
<1> QED BY <1>1, <1>2, PrefixGrows DEF DepositsKept

(* A call by a trader or by the operator.                                   *)
LEMMA UserCallInv ==
    ASSUME CInv, NEW u \in Users, UserCalls(u)
    PROVE  CInv'
<1>1. MoneyInv /\ u \in Payers /\ price \in Prices /\ Amounts \subseteq Nat
  BY Accounts, CustodyAssumption DEF CInv, MoneyInv, ChainOK
<1>2. ASSUME Faucet(u), UNCHANGED <<vault, epochs, price, service, day, direct>>
      PROVE  CInv'
  <2>1. MoneyInv'
    BY <1>1, <1>2, FaucetMoney
  <2>2. DepositsKept /\ DOMAIN service' = Services
    BY <1>2 DEF DepositsKept, vault, CInv, RecordInv
  <2> QED BY <1>2, <2>1, <2>2, QuietRecord
<1>3. ASSUME NEW n \in Amounts, Approve(u, n),
             UNCHANGED <<vault, epochs, price, service, day, direct>>
      PROVE  CInv'
  <2>1. MoneyInv'
    <3>1. allowance' \in [Payers -> Nat] /\ authorized' \in BOOLEAN
      BY <1>1, <1>3 DEF Approve, MoneyInv, TypeOK, vault
    <3> QED BY <1>1, <1>3, <3>1, NoneMoved DEF Approve, vault
  <2>2. DepositsKept /\ DOMAIN service' = Services
    BY <1>3 DEF DepositsKept, vault, CInv, RecordInv
  <2> QED BY <1>3, <2>1, <2>2, QuietRecord
<1>4. ASSUME NEW n \in Amounts, Deposited(u, n),
             UNCHANGED <<epochs, price, service, day, direct>>
      PROVE  CInv'
  <2>1. MoneyInv'
    BY <1>1, <1>4, DepositMoney
  <2>2. DepositsKept /\ DOMAIN service' = Services
    BY <1>1, <1>4, DepositKeeps DEF CInv, RecordInv
  <2> QED BY <1>4, <2>1, <2>2, QuietRecord
<1>5. ASSUME NEW n \in Amounts, NEW to \in Holders, Transfer(u, to, n)
      PROVE  CInv'
  <2>1. MoneyInv'
    BY <1>1, <1>5, TransferMoney
  <2>2. DepositsKept /\ DOMAIN service' = Services /\ UNCHANGED <<epochs, service>>
    BY <1>5 DEF Transfer, DepositsKept, vault, CInv, RecordInv
  <2> QED BY <2>1, <2>2, QuietRecord
<1> QED BY <1>2, <1>3, <1>4, <1>5 DEF UserCalls

(* The operator's batch.                                                    *)
LEMMA SettleBatchInv == ASSUME CInv, SettleBatch PROVE CInv'
<1>0. PICK n \in 0 .. 2 : \E us \in [1 .. n -> Users], ns \in [1 .. n -> Amounts] :
         Settled(Len(epochs) + 1,
                 [by |-> Operator, root |-> "venue",
                  payouts |-> [i \in 1 .. n |-> [user |-> us[i], amount |-> ns[i]]]])
  BY DEF SettleBatch
<1>1. PICK us \in [1 .. n -> Users], ns \in [1 .. n -> Amounts] :
         Settled(Len(epochs) + 1,
                 [by |-> Operator, root |-> "venue",
                  payouts |-> [i \in 1 .. n |-> [user |-> us[i], amount |-> ns[i]]]])
  BY <1>0
<1> DEFINE ps == [i \in 1 .. n |-> [user |-> us[i], amount |-> ns[i]]]
           e == [by |-> Operator, root |-> "venue", payouts |-> ps]
<1>2. ps \in Seq(Payout)
  <2>1. \A i \in 1 .. n : [user |-> us[i], amount |-> ns[i]] \in Payout
    BY CustodyAssumption DEF Payout
  <2> QED BY <2>1
<1> HIDE DEF ps
<1>3. e \in Epoch /\ e.by = Operator /\ Operator \notin Services
  BY <1>2, CustodyAssumption DEF Epoch
<1>4. Settled(Len(epochs) + 1, e) /\ UNCHANGED <<price, service, direct>>
  BY <1>1 DEF SettleBatch, ps
<1> HIDE DEF e
<1>5. MoneyInv' /\ epochs' = Append(epochs, e)
  BY <1>3, <1>4, SettledMoney DEF CInv
<1>6. UNCHANGED deposits /\ DOMAIN service' = Services
  BY <1>4 DEF Settled, CInv, RecordInv
<1>7. \A c \in Services : service'[c] = service[c] /\ c # e.by
  BY <1>3, <1>4
<1> QED BY <1>3, <1>5, <1>6, <1>7, SettledRecord

(* Any call of the operator's.                                              *)
LEMMA OperatorCallInv == ASSUME CInv, OperatorCalls PROVE CInv'
<1>1. MoneyInv /\ price \in Prices /\ Amounts \subseteq Nat
  BY CustodyAssumption DEF CInv, MoneyInv, ChainOK
<1>2. ASSUME NEW u \in Users, NEW n \in Amounts, PayOut(u, n) PROVE CInv'
  <2>1. MoneyInv'
    BY <1>1, <1>2, PayOutMoney
  <2>2. DepositsKept /\ DOMAIN service' = Services /\ UNCHANGED <<epochs, service>>
    BY <1>2 DEF PayOut, DepositsKept, CInv, RecordInv
  <2> QED BY <2>1, <2>2, QuietRecord
<1>3. ASSUME NEW allowed \in BOOLEAN, SetAuthorized(allowed) PROVE CInv'
  <2>1. MoneyInv'
    <3>1. /\ UNCHANGED <<balance, allowance, supply, deposits, paidOut, epochs,
                         direct, price>>
          /\ authorized' \in BOOLEAN
      BY <1>3 DEF SetAuthorized, token
    <3>2. allowance' \in [Payers -> Nat]
      BY <1>1, <3>1 DEF MoneyInv, TypeOK
    <3> QED BY <1>1, <3>1, <3>2, NoneMoved
  <2>2. DepositsKept /\ DOMAIN service' = Services /\ UNCHANGED <<epochs, service>>
    BY <1>3 DEF SetAuthorized, DepositsKept, CInv, RecordInv
  <2> QED BY <2>1, <2>2, QuietRecord
<1>4. ASSUME NEW p \in Prices, PostPrice(p) PROVE CInv'
  <2>1. MoneyInv'
    <3>1. /\ UNCHANGED <<balance, allowance, supply, deposits, paidOut, authorized,
                         epochs, direct>>
          /\ price' \in Prices
      BY <1>4 DEF PostPrice, token, vault
    <3>2. allowance' \in [Payers -> Nat] /\ authorized' \in BOOLEAN
      BY <1>1, <3>1 DEF MoneyInv, TypeOK
    <3> QED BY <1>1, <3>1, <3>2, NoneMoved
  <2>2. DepositsKept /\ DOMAIN service' = Services /\ UNCHANGED <<epochs, service>>
    BY <1>4 DEF PostPrice, vault, DepositsKept, CInv, RecordInv
  <2> QED BY <2>1, <2>2, QuietRecord
<1> QED BY <1>2, <1>3, <1>4, SettleBatchInv DEF OperatorCalls

-----------------------------------------------------------------------------
(* The service's own steps                                                  *)

\* a step of service c that touches neither the money nor the chain's record
Reads(c) ==
    /\ UNCHANGED <<balance, supply, deposits, paidOut, authorized, epochs, direct>>
    /\ allowance' \in [Payers -> Nat] /\ price' \in Prices
    /\ DOMAIN service' = Services
    /\ \A d \in Services \ {c} : service'[d] = service[d]

(* Such a step is right when what c learns is.                              *)
LEMMA ReadsInv ==
    ASSUME CInv, NEW c \in Services, Reads(c), ServiceOK(c)'
    PROVE  CInv'
<1>1. MoneyInv'
  BY NoneMoved DEF Reads, CInv, MoneyInv, TypeOK
<1>2. DepositsKept
  BY DEF Reads, DepositsKept
<1> QED BY <1>1, <1>2, QuietRecord DEF Reads

(* A service that goes on to a call it need know nothing for.               *)
LEMMA PlainOK ==
    ASSUME NEW c \in Services,
           service'[c].at \in {"off", "scan", "drip", "approve", "deposit"}
    PROVE  ServiceOK(c)'
BY DEF ServiceOK

(* Where a service goes.                                                    *)
LEMMA GoesTo ==
    ASSUME CInv, NEW c \in Services, NEW to, Goes(c, to)
    PROVE  /\ DOMAIN service' = Services
           /\ service'[c] = to
           /\ \A d \in Services \ {c} : service'[d] = service[d]
BY DEF CInv, RecordInv, Goes

(* A step that leaves the token, the vault and what is outside alone.       *)
LEMMA OnlyReads ==
    ASSUME CInv, NEW c \in Services, NEW to, Goes(c, to), price' \in Prices,
           UNCHANGED <<token, vault, outside>>
    PROVE  Reads(c)
BY GoesTo DEF Reads, token, vault, outside, CInv, MoneyInv, TypeOK

(* Beginning a run, and giving one up.                                      *)
LEMMA StartInv == ASSUME CInv, NEW c \in Services, Start(c) PROVE CInv'
<1>1. Goes(c, [at |-> "scan"]) /\ price' \in Prices /\ UNCHANGED <<token, vault, outside>>
  BY DEF Start
<1>2. Reads(c) /\ service'[c].at = "scan"
  BY <1>1, OnlyReads, GoesTo
<1> QED BY <1>2, PlainOK, ReadsInv

(* A failed call changes only the service it ends.                          *)
LEMMA FailInv == ASSUME CInv, NEW c \in Services, Fail(c) PROVE CInv'
<1>1. Goes(c, Off) /\ price' \in Prices /\ UNCHANGED <<token, vault, outside>>
  BY DEF Fail, CInv, MoneyInv, ChainOK
<1>2. Reads(c) /\ service'[c].at = "off"
  BY <1>1, OnlyReads, GoesTo DEF Off
<1> QED BY <1>2, PlainOK, ReadsInv

(* The scan reads every deposit there is, so all those of earlier epochs.   *)
LEMMA ScanInv == ASSUME CInv, NEW c \in Services, Scan(c) PROVE CInv'
<1> DEFINE to == IF Fetched # <<>> THEN [at |-> "price", credited |-> Fetched]
                 ELSE [at |-> IF balance[Operator] < DemoAmount THEN "drip" ELSE "approve"]
<1>1. Goes(c, to) /\ price' \in Prices /\ UNCHANGED <<token, vault, outside>>
  BY DEF Scan, CInv, MoneyInv, ChainOK
<1>2. Reads(c) /\ service'[c] = to
  <2> HIDE DEF to
  <2> QED BY <1>1, OnlyReads, GoesTo
<1>3. CASE Fetched = <<>>
  <2>1. service'[c].at \in {"drip", "approve"}
    BY <1>2, <1>3
  <2> QED BY <1>2, <2>1, PlainOK, ReadsInv
<1>4. CASE Fetched # <<>>
  <2>1. service'[c].at = "price" /\ service'[c].credited = deposits
    BY <1>2, <1>4 DEF Fetched
  <2>2. deposits \in Seq(Payment) /\ UNCHANGED <<deposits, epochs>>
    BY <1>2 DEF CInv, MoneyInv, ChainOK, Reads
  <2>3. IsPrefix(deposits, deposits)
    <3>1. Len(deposits) \in Nat /\ \A k \in 1..Len(deposits) : deposits[k] = deposits[k]
      BY <2>2, LenProperties
    <3> QED BY <2>2, <3>1, PrefixIs
  <2>4. Follows(c, deposits)
    BY DEF Follows, CInv, RecordInv, EpochsCredit
  <2>5. Creditable(c, deposits)'
    BY <2>2, <2>3, <2>4 DEF Creditable, Follows
  <2>6. ServiceOK(c)'
    BY <2>1, <2>2, <2>5 DEF ServiceOK
  <2> QED BY <1>2, <2>6, ReadsInv
<1> QED BY <1>3, <1>4

(* The demo deposit: a drip if need be, an approval, a deposit.             *)
LEMMA DripForDemoInv == ASSUME CInv, NEW c \in Services, DripForDemo(c) PROVE CInv'
<1>1. MoneyInv /\ price' \in Prices /\ UNCHANGED <<vault, price, outside>>
  BY DEF DripForDemo, CInv, MoneyInv, ChainOK
<1>2. ASSUME Faucet(Operator), Goes(c, [at |-> "approve"]) PROVE CInv'
  <2>1. MoneyInv'
    BY <1>1, <1>2, FaucetMoney, Accounts DEF outside
  <2>2. DepositsKept /\ epochs' = epochs
    BY <1>1 DEF DepositsKept, vault, outside
  <2>3. /\ DOMAIN service' = Services
        /\ service'[c].at = "approve"
        /\ \A d \in Services \ {c} : service'[d] = service[d]
    BY <1>2, GoesTo
  <2>4. ServiceOK(c)'
    BY <2>3, PlainOK
  <2> QED BY <2>1, <2>2, <2>3, <2>4, QuietRecord
<1>3. ASSUME UNCHANGED token, Goes(c, Off) PROVE CInv'
  <2>1. Reads(c) /\ service'[c].at = "off"
    BY <1>1, <1>3, OnlyReads, GoesTo DEF Off
  <2> QED BY <2>1, PlainOK, ReadsInv
<1> QED BY <1>2, <1>3 DEF DripForDemo

(* An approval moves no token.                                              *)
LEMMA ApproveDemoInv == ASSUME CInv, NEW c \in Services, ApproveDemo(c) PROVE CInv'
<1>1. /\ UNCHANGED <<balance, supply, deposits, paidOut, authorized, epochs, direct>>
      /\ allowance' \in [Payers -> Nat] /\ price' \in Prices
  BY CustodyAssumption DEF ApproveDemo, Approve, vault, outside, CInv, MoneyInv,
                           TypeOK, ChainOK
<1>2. Reads(c) /\ service'[c].at = "deposit"
  BY <1>1, GoesTo DEF Reads, ApproveDemo
<1> QED BY <1>2, PlainOK, ReadsInv

(* The service's own deposit is like a user's.                              *)
LEMMA DepositDemoInv == ASSUME CInv, NEW c \in Services, DepositDemo(c) PROVE CInv'
<1>1. MoneyInv /\ price' \in Prices /\ UNCHANGED <<price, outside>>
  BY DEF DepositDemo, CInv, MoneyInv, ChainOK
<1>2. ASSUME Deposited(Operator, DemoAmount), Goes(c, [at |-> "scan"]) PROVE CInv'
  <2>0. Operator \in Payers /\ DemoAmount \in Nat
    BY Accounts, CustodyAssumption
  <2>1. MoneyInv'
    BY <1>1, <1>2, <2>0, DepositMoney DEF outside
  <2>2. DepositsKept /\ epochs' = epochs
    BY <1>1, <1>2, <2>0, DepositKeeps DEF outside
  <2>3. /\ DOMAIN service' = Services
        /\ service'[c].at = "scan"
        /\ \A d \in Services \ {c} : service'[d] = service[d]
    BY <1>2, GoesTo
  <2>4. ServiceOK(c)'
    BY <2>3, PlainOK
  <2> QED BY <2>1, <2>2, <2>3, <2>4, QuietRecord
<1>3. ASSUME UNCHANGED <<token, vault>>, Goes(c, Off) PROVE CInv'
  <2>1. Reads(c) /\ service'[c].at = "off"
    BY <1>1, <1>3, OnlyReads, GoesTo DEF Off
  <2> QED BY <2>1, PlainOK, ReadsInv
<1> QED BY <1>2, <1>3 DEF DepositDemo

(* Reading the price and the epoch id: nothing of it can have gone stale    *)
(* but the id.                                                              *)
LEMMA ReadPriceInv == ASSUME CInv, NEW c \in Services, ReadPrice(c) PROVE CInv'
<1> DEFINE to == [at |-> "epoch", credited |-> service[c].credited, price |-> price]
<1>1. Goes(c, to) /\ price' \in Prices /\ price \in Prices
      /\ UNCHANGED <<token, vault, outside>> /\ service[c].at = "price"
  BY DEF ReadPrice, CInv, MoneyInv, ChainOK
<1>2. Reads(c) /\ service'[c] = to
  <2> HIDE DEF to
  <2> QED BY <1>1, OnlyReads, GoesTo
<1>3. Creditable(c, service[c].credited)
  BY <1>1 DEF CInv, RecordInv, ServiceOK
<1>4. Creditable(c, service[c].credited)'
  <2>1. \A s : Creditable(c, s) => Creditable(c, s)'
    BY <1>2 DEF Creditable, Follows, Reads
  <2>2. service'[c].credited = service[c].credited
    BY <1>2
  <2> QED BY <1>3, <2>1, <2>2
<1>5. service'[c].at = "epoch" /\ service'[c].price \in Prices
  BY <1>1, <1>2
<1>6. ServiceOK(c)'
  BY <1>4, <1>5 DEF ServiceOK
<1> QED BY <1>2, <1>6, ReadsInv

(* The id it reads is the next one, for now.                                *)
LEMMA ReadEpochIdInv == ASSUME CInv, NEW c \in Services, ReadEpochId(c) PROVE CInv'
<1> DEFINE root == [credited |-> service[c].credited, price |-> service[c].price,
                    id |-> Len(epochs) + 1]
           to == [at |-> "settle", id |-> Len(epochs) + 1, root |-> root]
<1>1. Goes(c, to) /\ price' \in Prices
      /\ UNCHANGED <<token, vault, outside>> /\ service[c].at = "epoch"
  BY DEF ReadEpochId, CInv, MoneyInv, ChainOK
<1>2. Reads(c) /\ service'[c] = to
  <2> HIDE DEF to
  <2> QED BY <1>1, OnlyReads, GoesTo
<1>3. Creditable(c, service[c].credited) /\ service[c].price \in Prices
  BY <1>1 DEF CInv, RecordInv, ServiceOK
<1>4. Len(epochs) \in Nat
  BY LenProperties DEF CInv, MoneyInv, ChainOK
<1>5. root \in Root
  BY <1>3, <1>4 DEF Root, Creditable
<1>6. service'[c].at = "settle" /\ service'[c].root \in Root
      /\ service'[c] = [at |-> service'[c].at, id |-> service'[c].id,
                        root |-> service'[c].root]
  BY <1>2, <1>5
<1>7. Creditable(c, service[c].root.credited)'
  <2>1. \A s : Creditable(c, s) => Creditable(c, s)'
    BY <1>2 DEF Creditable, Follows, Reads
  <2>2. service'[c].root.credited = service[c].credited
    BY <1>2
  <2> QED BY <1>3, <2>1, <2>2
<1>8. ServiceOK(c)'
  BY <1>6, <1>7 DEF ServiceOK
<1> QED BY <1>2, <1>8, ReadsInv

(* Settling: the epoch that is made is the one read back, by whichever      *)
(* service was first with its id.                                           *)
LEMMA SettleInv == ASSUME CInv, NEW c \in Services, Settle(c) PROVE CInv'
<1> DEFINE s == service[c]
           e == [by |-> c, root |-> s.root, payouts |-> <<>>]
<1>1. /\ s.at = "settle" /\ s.root \in Root
      /\ s = [at |-> s.at, id |-> s.id, root |-> s.root]
      /\ Creditable(c, s.root.credited)
  BY DEF Settle, CInv, RecordInv, ServiceOK
<1>2. price' = price /\ price \in Prices /\ UNCHANGED <<price, day, direct, calls>>
  BY DEF Settle, CInv, MoneyInv, ChainOK
<1>3. ASSUME Settled(s.id, e), Goes(c, [s EXCEPT !.at = "verify"]) PROVE CInv'
  <2>1. e \in Epoch /\ e.by = c /\ e.root = s.root
    BY <1>1 DEF Epoch
  <2>2. [s EXCEPT !.at = "verify"] = [at |-> "verify", id |-> s.id, root |-> s.root]
    BY <1>1
  <2>3. /\ DOMAIN service' = Services
        /\ service'[c] = [at |-> "verify", id |-> s.id, root |-> s.root]
        /\ \A d \in Services \ {c} : service'[d] = service[d]
    BY <1>3, <2>2, GoesTo
  <2>4. Settled(s.id, e)
    BY <1>3
  <2> HIDE DEF e
  <2>5. MoneyInv' /\ epochs' = Append(epochs, e)
    BY <1>2, <2>1, <2>4, SettledMoney DEF CInv
  <2>6. s.id \in DOMAIN epochs' /\ epochs'[s.id] = e
    <3>1. epochs \in Seq(Epoch) /\ s.id = Len(epochs) + 1 /\ Len(epochs) \in Nat
      BY <2>4, LenProperties DEF CInv, MoneyInv, ChainOK, Settled, NextEpoch
    <3>2. DOMAIN epochs' = 1..(Len(epochs) + 1) /\ epochs'[Len(epochs) + 1] = e
      BY <2>1, <2>5, <3>1, AppendProperties, LenProperties
    <3> QED BY <3>1, <3>2
  <2>7. ServiceOK(c)'
    <3>1. service'[c].at = "verify" /\ service'[c].id = s.id /\ service'[c].root = s.root
          /\ service'[c] = [at |-> service'[c].at, id |-> service'[c].id,
                            root |-> service'[c].root]
      BY <2>3
    <3> QED BY <1>1, <2>6, <3>1 DEF ServiceOK, e
  <2>8. UNCHANGED deposits
    BY <2>4 DEF Settled
  <2>9. e.by \in Services => e.root \in Root /\ Creditable(e.by, e.root.credited)
    BY <1>1, <2>1
  <2>10. \A d \in Services : \/ service'[d] = service[d] /\ d # e.by
                             \/ ServiceOK(d)'
    BY <2>1, <2>3, <2>7
  <2> HIDE DEF s
  <2> QED BY <2>1, <2>3, <2>5, <2>8, <2>9, <2>10, SettledRecord
<1>4. ASSUME Goes(c, Off), UNCHANGED <<token, vault, epochs>> PROVE CInv'
  <2>1. Reads(c) /\ service'[c].at = "off"
    BY <1>2, <1>4, OnlyReads, GoesTo DEF Off, outside
  <2> QED BY <2>1, PlainOK, ReadsInv
<1> QED BY <1>3, <1>4 DEF Settle

(* Reading back.                                                            *)
LEMMA VerifyInv == ASSUME CInv, NEW c \in Services, Verify(c) PROVE CInv'
<1> DEFINE s == service[c]
           to == IF epochs[s.id].root = s.root THEN [s EXCEPT !.at = "done"] ELSE Off
<1>1. /\ s.at = "verify" /\ s.root \in Root
      /\ s = [at |-> s.at, id |-> s.id, root |-> s.root]
      /\ s.id \in DOMAIN epochs
      /\ epochs[s.id] = [by |-> c, root |-> s.root, payouts |-> <<>>]
  BY DEF Verify, CInv, RecordInv, ServiceOK
<1>2. Goes(c, to) /\ price' \in Prices /\ UNCHANGED <<token, vault, outside>>
  BY DEF Verify, CInv, MoneyInv, ChainOK
<1>3. to = [at |-> "done", id |-> s.id, root |-> s.root]
  BY <1>1
<1> HIDE DEF to
<1>4. Reads(c) /\ service'[c] = to
  BY <1>2, OnlyReads, GoesTo
<1>5. service'[c].at = "done" /\ service'[c].id = s.id /\ service'[c].root = s.root
      /\ service'[c] = [at |-> service'[c].at, id |-> service'[c].id,
                        root |-> service'[c].root]
  BY <1>3, <1>4
<1>6. epochs' = epochs
  BY <1>4 DEF Reads
<1>7. ServiceOK(c)'
  BY <1>1, <1>5, <1>6 DEF ServiceOK
<1> QED BY <1>4, <1>7, ReadsInv

-----------------------------------------------------------------------------
(* The contracts at first                                                   *)

(* Before any call all tokens are seeds.                                    *)
LEMMA InitMoney == Init => MoneyInv
<1> SUFFICES ASSUME Init PROVE MoneyInv
  OBVIOUS
<1> DEFINE one == [a \in Holders |-> IF a = Vault THEN 0 ELSE 1]
<1>1. Seed \in Nat /\ IsFiniteSet(Holders)
  BY CustodyAssumption, Accounts
<1>2. balance \in [Holders -> Nat] /\ balance[Vault] = 0
      /\ \A a \in Holders : one[a] \in Int /\ balance[a] = Seed * one[a]
  BY <1>1, Accounts DEF Init
<1>3. SumFunctionOnSet(one, Holders) = Cardinality(Payers)
  <2> DEFINE all == [a \in Payers |-> 1]
  <2>1. SumFunctionOnSet(one, Holders) = SumFunctionOnSet(one, Payers)
    <3>1. SumFunctionOnSet(one, Holders)
            = one[Vault] + SumFunctionOnSet(one, Holders \ {Vault})
      BY <1>1, <1>2, Accounts, SumRemove
    <3>2. one[Vault] = 0 /\ \A a \in Payers : one[a] \in Int
      BY Accounts
    <3> HIDE DEF one
    <3>3. SumFunctionOnSet(one, Payers) \in Int
      BY <3>2, Accounts, SumInt
    <3> QED BY <3>1, <3>2, <3>3, Accounts
  <2>2. \A a \in Payers : one[a] = 1
    BY Accounts
  <2> HIDE DEF one
  <2> QED BY <2>1, <2>2, Accounts, SumOnes
<1>4. SumFunction(balance) = Seed * Cardinality(Payers)
  <2>1. SumFunction(balance) = SumFunctionOnSet(balance, Holders)
    BY <1>2 DEF SumFunction
  <2>2. Seed \in Int
    BY <1>1
  <2> HIDE DEF one
  <2> QED BY <1>1, <1>2, <1>3, <2>1, <2>2, SumScale
<1>5. TypeOK
  BY <1>2, <1>4 DEF Init, TypeOK
<1>6. ChainOK
  BY DEF Init, ChainOK
<1>7. VaultBacked
  BY <1>2, AmountsEmpty DEF Init, VaultBacked, totalDeposited
<1>8. PayoutsAddUp
  <2> DEFINE f == [i \in DOMAIN <<>> |-> AmountsOf(<<>>[i].payouts)]
  <2>1. DOMAIN f = {} /\ PaidBy(<<>>) = SumFunctionOnSet(f, DOMAIN f)
    BY DEF PaidBy, SumFunction
  <2> HIDE DEF f
  <2>2. PaidBy(<<>>) = 0
    BY <2>1, SumEmpty
  <2> QED BY <2>2 DEF Init, PayoutsAddUp, PaidBy
<1> QED BY <1>5, <1>6, <1>7, <1>8 DEF MoneyInv

(* Nor is there an epoch, or a service that has ended.                      *)
LEMMA InitRecord == Init => CInv
<1> SUFFICES ASSUME Init PROVE CInv
  OBVIOUS
<1>1. epochs = <<>> /\ DOMAIN epochs = {} /\ service = [c \in Services |-> Off]
  BY DEF Init
<1>2. \A c \in Services : service[c].at = "off"
  BY <1>1 DEF Off
<1>3. RecordInv
  BY <1>1, <1>2 DEF RecordInv, ServiceOK, EpochsCredit, CreditsGrow
<1> QED BY <1>3, InitMoney DEF CInv

(* Every step keeps the invariant.                                          *)
LEMMA NextCInv == ASSUME CInv, [Next]_vars PROVE CInv'
<1>1. ASSUME UNCHANGED <<token, vault, epochs, price, service, direct>> PROVE CInv'
  <2>1. UNCHANGED <<balance, allowance, supply, deposits, paidOut, authorized,
                    epochs, price, direct>>
    BY <1>1 DEF token, vault
  <2>2. MoneyInv'
    BY <2>1, NoneMoved DEF CInv, MoneyInv, TypeOK, ChainOK
  <2>3. DepositsKept /\ DOMAIN service' = Services
    BY <1>1, <2>1 DEF DepositsKept, CInv, RecordInv
  <2> QED BY <1>1, <2>2, <2>3, QuietRecord
<1>2. ASSUME NEW c \in Services, ServiceSteps(c) PROVE CInv'
  BY <1>2, StartInv, ScanInv, DripForDemoInv, ApproveDemoInv, DepositDemoInv,
     ReadPriceInv, ReadEpochIdInv, SettleInv, VerifyInv, FailInv DEF ServiceSteps
<1>3. CASE NextDay
  BY <1>1, <1>3 DEF NextDay
<1>4. CASE UNCHANGED vars
  BY <1>1, <1>4 DEF vars
<1> QED BY <1>2, <1>3, <1>4, UserCallInv, OperatorCallInv DEF Next

(* The invariant holds throughout.                                          *)
THEOREM CustodyInvariant == Spec => []CInv
<1>1. Init => CInv
  BY InitRecord
<1>2. CInv /\ [Next]_vars => CInv'
  BY NextCInv
<1> QED BY <1>1, <1>2, PTL DEF Spec

(* The vault's balance is what the events say.                              *)
THEOREM VaultIsBacked == Spec => [](TypeOK /\ VaultBacked)
<1>1. CInv => TypeOK /\ VaultBacked
  BY DEF CInv, MoneyInv
<1> QED BY <1>1, CustodyInvariant, PTL

(* What was paid out is what the epochs and the operator paid.              *)
THEOREM PayoutsAreEpochs == Spec => []PayoutsAddUp
<1>1. CInv => PayoutsAddUp
  BY DEF CInv, MoneyInv
<1> QED BY <1>1, CustodyInvariant, PTL

(* However the calls of the services mix, one that ended well posted the    *)
(* epoch it read.                                                           *)
THEOREM DonePosted == Spec => []DoneIsOnChain
<1>1. CInv => DoneIsOnChain
  BY DEF CInv, RecordInv, ServiceOK, DoneIsOnChain
<1> QED BY <1>1, CustodyInvariant, PTL

(* However they mix, no service forgets a deposit it once credited.         *)
THEOREM CreditsOnlyGrow == Spec => []CreditsGrow
<1>1. CInv => CreditsGrow
  BY DEF CInv, RecordInv
<1> QED BY <1>1, CustodyInvariant, PTL

(* A step settles one epoch or none.                                        *)
LEMMA EpochsStep ==
    ASSUME CInv, [Next]_vars
    PROVE  epochs' = epochs \/ \E e : epochs' = Append(epochs, e)
<1>1. ASSUME NEW id, NEW e, Settled(id, e) PROVE epochs' = Append(epochs, e)
  <2>1. Len(epochs) \in Nat
    BY LenProperties DEF CInv, MoneyInv, ChainOK
  <2> QED BY <1>1, <2>1 DEF Settled, NextEpoch
<1>2. ASSUME NEW u \in Users, UserCalls(u) PROVE epochs' = epochs
  BY <1>2 DEF UserCalls, Transfer
<1>3. ASSUME OperatorCalls PROVE epochs' = epochs \/ \E e : epochs' = Append(epochs, e)
  <2>1. CASE SettleBatch
    BY <1>1, <2>1 DEF SettleBatch
  <2>2. CASE ~SettleBatch
    BY <1>3, <2>2 DEF OperatorCalls, PayOut, SetAuthorized, PostPrice
  <2> QED BY <2>1, <2>2
<1>4. ASSUME NEW c \in Services, ServiceSteps(c)
      PROVE  epochs' = epochs \/ \E e : epochs' = Append(epochs, e)
  <2>1. CASE Settle(c)
    BY <1>1, <2>1 DEF Settle
  <2>2. CASE ~Settle(c)
    BY <1>4, <2>2 DEF ServiceSteps, Start, Scan, DripForDemo, ApproveDemo, DepositDemo,
                      ReadPrice, ReadEpochId, Verify, Fail, outside
  <2> QED BY <2>1, <2>2
<1> QED BY <1>2, <1>3, <1>4 DEF Next, NextDay, vars

(* An epoch is settled once and for all, and the ids have no gap.           *)
THEOREM EpochsStand == Spec => EpochsFinal
<1>1. ASSUME CInv, [Next]_vars
      PROVE  IsPrefix(epochs, epochs') /\ Len(epochs') <= Len(epochs) + 1
  <2>1. epochs \in Seq(Epoch) /\ Len(epochs) \in Nat
    BY <1>1, LenProperties DEF CInv, MoneyInv, ChainOK
  <2>2. CASE epochs' = epochs
    <3>1. IsPrefix(epochs, epochs)
      BY <2>1, PrefixIs
    <3> QED BY <2>1, <2>2, <3>1
  <2>3. CASE epochs' # epochs
    <3>1. PICK e : epochs' = Append(epochs, e)
      BY <1>1, <2>3, EpochsStep
    <3> DEFINE S == Epoch \cup {e}
    <3>2. epochs \in Seq(S) /\ e \in S
      <4>1. \A i \in 1..Len(epochs) : epochs[i] \in S
        BY <2>1, ElementOfSeq
      <4> QED BY <2>1, <4>1
    <3> HIDE DEF S
    <3>3. IsPrefix(epochs, epochs) /\ (IsPrefix(epochs, epochs) => IsPrefix(epochs, epochs'))
      BY <3>1, <3>2, PrefixGrows
    <3>4. Len(epochs') = Len(epochs) + 1
      BY <3>1, <3>2, AppendProperties
    <3> QED BY <2>1, <3>3, <3>4
  <2> QED BY <2>2, <2>3
<1>2. CInv /\ [Next]_vars =>
        [IsPrefix(epochs, epochs') /\ Len(epochs') <= Len(epochs) + 1]_vars
  BY <1>1
<1> QED BY <1>2, CustodyInvariant, PTL DEF Spec, EpochsFinal
=============================================================================
