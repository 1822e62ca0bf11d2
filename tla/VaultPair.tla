----------------------------- MODULE VaultPair -----------------------------
(* The contract and the venue's vault given the same calls.                 *)
EXTENDS PVaultTranches

CONSTANT Activities     \* numbers of new events between two accruals

ASSUME ActivityAssumption == Activities \subseteq Nat

VARIABLE v              \* the VaultState of tranches.ts

T == INSTANCE Tranches

PairInit == Init /\ v = T!createVault(Holders)

\* one call to both; a refusal of the port where the contract accepts, or the
\* other way round, shows in SameAnswers
PairNext ==
    \/ \E h \in Holders, amount \in Deposits :
           \/ DepositSenior(h, amount) /\ v' = T!depositSenior(v, h, amount)
           \/ /\ DepositJunior(h, amount)
              /\ v' = T!depositJunior(v, h, amount, now, JuniorLockup)
    \/ \E h \in Holders, n \in Withdrawals :
           \/ WithdrawSenior(h, n) /\ v' = T!withdrawSenior(v, h, n)
           \/ WithdrawJunior(h, n) /\ v' = T!withdrawJunior(v, h, n)
    \/ \E pnl \in PnLs : SettleEpoch(pnl) /\ v' = T!settleEpoch(v, pnl)
    \/ \E a \in Activities : SettleEpoch(T!feeUsd(a)) /\ v' = T!accrue(v, a)
    \/ \E amount \in Gifts : Gift(amount) /\ UNCHANGED v
    \/ Wait /\ UNCHANGED v

PairSpec == PairInit /\ [][PairNext]_<<vars, v>>

\* the port's state is the contract's: every operation of tranches.ts gives
\* what the call of PVaultTranches.sol gives ("Mirrors
\* PVaultTranches.settleEpoch exactly", tranches.ts:220)
SameState ==
    v = [seniorNav6 |-> seniorNav, totalSeniorShares |-> totalSeniorShares,
         juniorNav6 |-> juniorNav, totalJuniorShares |-> totalJuniorShares,
         juniorGen |-> juniorGen, yieldReserve6 |-> yieldReserve,
         epochId |-> epochId, catastropheMode |-> catastropheMode,
         insolvent |-> insolvent, pooled6 |-> pool - gifts,
         senior |-> senior, junior |-> junior]

\* the port throws exactly when the contract reverts
SameAnswers ==
    ops < MaxOps =>
    \A h \in Holders, n \in Withdrawals \cup Deposits :
        /\ T!MayDeposit(v, n) <=> Open
        /\ T!MaySellSenior(v, h, n) <=> MayWithdrawSenior(h, n)
        /\ T!MaySellJunior(v, h, n, now) <=> MayWithdrawJunior(h, n)

\* the port and the contract never differ, in state or in answer
Mirrors == SameState /\ SameAnswers
=============================================================================
