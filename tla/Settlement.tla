------------------------------ MODULE Settlement ------------------------------
(***************************************************************************)
(* EconomicModule.sponsor beside the rest of the suite.  A sponsorship is  *)
(* paid out payee by payee, and every payee is called: before it returns,  *)
(* contracts it reaches may call any function of the suite, sponsor        *)
(* excepted, so the splits that the loop reads and the owner may change    *)
(* under it.  A payout that cannot be made reverts the transaction, which  *)
(* then never took place: such a state has no successor here.              *)
(***************************************************************************)
EXTENDS Suite, FiniteSetsExt

CONSTANTS
  Values,        \* amounts sent with sponsor
  Treasuries,    \* accounts offered to setFeeConfig
  Fees,          \* platform fees offered to setFeeConfig, in units of FullShare
  MaxFee,        \* MAX_PLATFORM_FEE_BPS
  FirstTreasury, \* the treasury the module is deployed with
  MaxSponsored   \* bound on the amounts sponsored together

ASSUME SettlementAssumption ==
  /\ Values \subseteq Nat /\ Fees \subseteq Nat
  /\ Treasuries \subseteq Accounts \cup {NoAccount}
  /\ MaxFee \in Nat /\ MaxFee <= FullShare
  /\ FirstTreasury \in Accounts /\ MaxSponsored \in Nat
  /\ IsFiniteSet(Accounts) /\ IsFiniteSet(Names)  \* addresses, and names of bounded length

VARIABLES
  totals,         \* _totals, of the one denomination that sponsor receives
  treasury, platformFeeBps,
  balance,        \* of the contract
  received,       \* what each account has been paid
  settlement      \* the running call of sponsor, _settlementLock included

settlementVars == <<totals, treasury, platformFeeBps, balance, received, settlement>>
paymentVars == <<vars, settlementVars>>

NoSettlement == [repo |-> NoRepo]

SettlementInit ==
  /\ Init
  /\ totals = [r \in RepoIds |-> 0]
  /\ treasury = FirstTreasury /\ platformFeeBps = MaxFee  \* the constructor's arguments
  /\ balance = 0 /\ received = [a \in Accounts |-> 0]
  /\ settlement = NoSettlement

Settling == settlement # NoSettlement

Sum(f) == MapThenSumSet(LAMBDA x : f[x], DOMAIN f)

SetFeeConfig(caller, a, fee) ==
  /\ stage = ActiveStage /\ caller = Admin
  /\ a # NoAccount /\ fee <= MaxFee
  /\ treasury' = a /\ platformFeeBps' = fee
  /\ UNCHANGED <<vars, totals, balance, received, settlement>>

\* The checks, the total and the fee; the owner is the one read here.
Sponsor(r, value) ==
  LET fee == (value * platformFeeBps) \div FullShare
  IN  /\ stage = ActiveStage /\ ~Settling
      /\ value # 0 /\ Sum(totals) + value <= MaxSponsored
      /\ Exists(r) /\ NotFrozen(r)
      /\ totals' = [totals EXCEPT ![r] = @ + value]
      /\ balance' = balance + value - fee
      /\ received' = [received EXCEPT ![treasury] = @ + fee]
      /\ settlement' = [repo |-> r, owner |-> owner[r], distributable |-> value - fee,
                        distributed |-> 0, next |-> 1, called |-> fee # 0, last |-> FALSE]
      /\ UNCHANGED <<vars, treasury, platformFeeBps>>

Pay(a, amount) ==
  /\ amount \in 0..balance
  /\ balance' = balance - amount
  /\ received' = [received EXCEPT ![a] = @ + amount]

\* One round of the loop, over the splits as they are stored now.
PayShare ==
  /\ Settling /\ ~settlement.last
  /\ settlement.next <= Len(splits[settlement.repo])
  /\ LET split == splits[settlement.repo][settlement.next]
         amount == (settlement.distributable * split.bps) \div FullShare
     IN  /\ Pay(split.recipient, amount)
         /\ settlement' = [settlement EXCEPT !.distributed = @ + amount, !.next = @ + 1,
                                             !.called = amount # 0]
  /\ UNCHANGED <<vars, totals, treasury, platformFeeBps>>

\* Mutant: the owner is paid the share the splits leave.
PayOwner_Share ==
  /\ Settling /\ ~settlement.last
  /\ settlement.next > Len(splits[settlement.repo])
  /\ Pay(settlement.owner, (settlement.distributable
                              * (FullShare - ShareSum(splits[settlement.repo]))) \div FullShare)
  /\ settlement' = [settlement EXCEPT !.called = TRUE, !.last = TRUE]
  /\ UNCHANGED <<vars, totals, treasury, platformFeeBps>>

\* What is left, which must not be negative.
PayOwner ==
  /\ Settling /\ ~settlement.last
  /\ settlement.next > Len(splits[settlement.repo])
  /\ Pay(settlement.owner, settlement.distributable - settlement.distributed)
  /\ settlement' = [settlement EXCEPT !.called = TRUE, !.last = TRUE]
  /\ UNCHANGED <<vars, totals, treasury, platformFeeBps>>

\* The lock is released.
Settle ==
  /\ Settling /\ settlement.last
  /\ settlement' = NoSettlement
  /\ UNCHANGED <<vars, totals, treasury, platformFeeBps, balance, received>>

\* A payee that has been called calls the suite.
CalledBack ==
  /\ Settling /\ settlement.called
  /\ \/ ActiveCall /\ UNCHANGED settlementVars
     \/ \E caller \in Accounts, a \in Treasuries, fee \in Fees :
          SetFeeConfig(caller, a, fee)

\* Transactions of others, and time, between two sponsorships.
Between ==
  /\ ~Settling
  /\ \/ Next /\ UNCHANGED settlementVars
     \/ \E caller \in Accounts, a \in Treasuries, fee \in Fees :
          SetFeeConfig(caller, a, fee)

SettlementNext ==
  \/ Between \/ CalledBack \/ PayShare \/ PayOwner \/ Settle
  \/ \E r \in RepoIds, value \in Values : Sponsor(r, value)

SettlementSpec == SettlementInit /\ [][SettlementNext]_paymentVars

-----------------------------------------------------------------------------
(* Properties                                                              *)

\* Outside a running call the contract holds nothing: what was sponsored has been
\* paid to the treasury, the recipients and the owner to the last unit, however
\* the shares were rounded and whatever the payees changed while they were paid
\* (EconomicModule.sponsor).
SponsorshipsPaidOut == ~Settling => balance = 0 /\ Sum(received) = Sum(totals)
=============================================================================
