------------------------- MODULE FundingPayoutProofs -------------------------
(***************************************************************************)
(* What the owners of projects receive when a round ends.  end_round skips *)
(* a payment that fails without a word, so that a round whose money is     *)
(* there is not yet a round that is paid out: the proofs follow the        *)
(* payments one after the other, and each one must leave the fund account  *)
(* alive and reach an owner who can exist afterwards.                      *)
(***************************************************************************)
EXTENDS QuadraticFundingProofs

-----------------------------------------------------------------------------
(* The total of the balances.                                              *)

AccountsTotal == SumFunction(balances)

IssuanceKept == AccountsTotal <= SumFunction(Endowment)

LEMMA AccountsFinite == IsFiniteSet(AccountIds)
BY FundAssumption, FS_AddElement DEF AccountIds

\* A transfer moves money and may burn dust, and makes none.
LEMMA TransferConserves ==
  ASSUME NEW b \in [AccountIds -> Nat], NEW from \in AccountIds,
         NEW to \in AccountIds, NEW value \in Nat, NEW requirement
  PROVE  SumFunction(Transfer(b, from, to, value, requirement))
           <= SumFunction(b)
<1> DEFINE t == Transfer(b, from, to, value, requirement)
           m == [b EXCEPT ![from] = Remainder(b[from], value)]
<1>1. /\ DOMAIN b = AccountIds /\ IsFiniteSet(DOMAIN b)
      /\ \A a \in DOMAIN b : b[a] \in Nat
  BY AccountsFinite
<1>2. SumFunction(b) \in Nat
  BY <1>1, SumType
<1>3. CASE /\ value > 0 /\ from # to
           /\ CanTransfer(b, from, to, value, requirement)
  <2>1. b[from] \in Nat /\ b[to] \in Nat /\ b[from] >= value
    BY <1>3 DEF CanTransfer
  <2>2. /\ Remainder(b[from], value) \in Nat
        /\ Remainder(b[from], value) <= b[from] - value
    BY <2>1, ExistentialDepositAssumption DEF Remainder
  <2>3. /\ DOMAIN m = AccountIds /\ m[from] = Remainder(b[from], value)
        /\ m[to] = b[to]
        /\ \A a \in AccountIds \ {from} : m[a] = b[a]
    BY <1>3
  <2>4. /\ DOMAIN t = AccountIds /\ t[to] = b[to] + value
        /\ t[from] = Remainder(b[from], value)
        /\ \A a \in AccountIds \ {from, to} : t[a] = b[a]
    BY <1>3 DEF Transfer
  <2> HIDE DEF t, m
  <2>5. /\ from \in DOMAIN m /\ m[from] \in Nat
        /\ DOMAIN m \ {from} = DOMAIN b \ {from}
        /\ \A a \in DOMAIN b \ {from} : b[a] = m[a]
    BY <1>1, <2>2, <2>3
  <2>6. SumFunction(m) = SumFunction(b) + m[from]
                           - (IF from \in DOMAIN b THEN b[from] ELSE 0)
    BY <1>1, <2>5, SumChange
  <2>7. /\ IsFiniteSet(DOMAIN m) /\ \A a \in DOMAIN m : m[a] \in Nat
        /\ to \in DOMAIN t /\ t[to] \in Nat
        /\ DOMAIN t \ {to} = DOMAIN m \ {to}
        /\ \A a \in DOMAIN m \ {to} : m[a] = t[a]
    BY <1>1, <2>1, <2>2, <2>3, <2>4
  <2>8. SumFunction(t) = SumFunction(m) + t[to]
                           - (IF to \in DOMAIN m THEN m[to] ELSE 0)
    BY <2>7, SumChange
  <2>9. SumFunction(m) \in Nat
    BY <2>7, SumType
  <2>10. SumFunction(m) = SumFunction(b) + m[from] - b[from]
    BY <1>1, <2>6
  <2>11. SumFunction(t) = SumFunction(m) + t[to] - m[to]
    BY <2>3, <2>8
  <2>12. SumFunction(t) <= SumFunction(b)
    BY <1>2, <2>1, <2>2, <2>3, <2>4, <2>9, <2>10, <2>11
  <2> QED
    BY <2>12 DEF t
<1>4. CASE ~(/\ value > 0 /\ from # to
             /\ CanTransfer(b, from, to, value, requirement))
  <2>1. t = b
    BY <1>4 DEF Transfer
  <2> QED
    BY <1>2, <2>1
<1> QED
  BY <1>3, <1>4

\* The payments of end_round make no money either.
LEMMA EndConserves ==
  ASSUME TypeOK, NEW r, PayoutsDefined(r)
  PROVE  SumFunction(BalancesAfterEnd(r)) <= AccountsTotal
<1>1. PICK paid \in [0 .. LastHash -> [AccountIds -> Nat]] :
        /\ paid[0] = balances
        /\ \A h \in Hashes : paid[h] = Paid(r, paid[h - 1], h)
        /\ BalancesAfterEnd(r) = paid[LastHash]
  BY EndBalances
<1>2. LastHash \in Nat /\ LastHash \in 0 .. LastHash /\ 0 \in 0 .. LastHash
  BY RequestAssumption
<1>3. \A n \in 0 .. LastHash : SumFunction(paid[n]) \in Nat
  <2>1. ASSUME NEW b \in [AccountIds -> Nat] PROVE SumFunction(b) \in Nat
    <3>1. IsFiniteSet(DOMAIN b) /\ \A a \in DOMAIN b : b[a] \in Nat
      BY AccountsFinite
    <3> QED
      BY <3>1, SumType
  <2> QED
    BY <1>1, <2>1
<1> DEFINE S == {n \in 0 .. LastHash : SumFunction(paid[n]) <= AccountsTotal}
<1>4. 0 \in S
  BY <1>1, <1>2, <1>3 DEF AccountsTotal
<1>5. ASSUME NEW n \in 1 .. LastHash, n - 1 \in S PROVE n \in S
  <2> DEFINE b == paid[n - 1]
  <2>1. /\ n \in Hashes /\ n \in 0 .. LastHash /\ n - 1 \in 0 .. LastHash
        /\ SumFunction(b) <= AccountsTotal
    BY <1>2, <1>5 DEF Hashes
  <2>2. b \in [AccountIds -> Nat] /\ paid[n] = Paid(r, b, n)
    BY <1>1, <2>1
  <2>3. SumFunction(b) \in Nat /\ SumFunction(paid[n]) \in Nat
        /\ AccountsTotal \in Nat
    BY <1>1, <1>2, <1>3, <2>1 DEF AccountsTotal
  <2> HIDE DEF b
  <2>4. SumFunction(paid[n]) <= SumFunction(b)
    <3>1. CASE n \notin ProjectsOf(r)
      BY <2>2, <2>3, <3>1 DEF Paid
    <3>2. CASE n \in ProjectsOf(r)
      <4> DEFINE owner == Project(r, n).owner
                 value == Payout(Rounds[r], Project(r, n))
      <4>1. /\ owner \in AccountIds /\ FundAccount \in AccountIds
            /\ value \in Nat
        BY <3>2, NumberIsNat
           DEF TypeOK, ProjectsOf, Project, ProjectType, AccountIds, PayoutsDefined
      <4>2. paid[n] = Transfer(b, FundAccount, owner, value, KeepAlive)
        BY <2>2, <3>2 DEF Paid
      <4> HIDE DEF owner, value
      <4> QED
        BY <2>2, <4>1, <4>2, TransferConserves
    <3> QED
      BY <3>1, <3>2
  <2>5. SumFunction(paid[n]) <= AccountsTotal
    BY <2>1, <2>3, <2>4
  <2> QED
    BY <2>1, <2>5
<1> HIDE DEF S
<1>6. LastHash \in S
  BY <1>2, <1>4, <1>5, NumberInduction
<1> QED
  BY <1>1, <1>6 DEF S

LEMMA AccountsTotalType == TypeOK => AccountsTotal \in Nat
<1> SUFFICES ASSUME TypeOK PROVE AccountsTotal \in Nat
  OBVIOUS
<1>1. /\ IsFiniteSet(DOMAIN balances)
      /\ \A a \in DOMAIN balances : balances[a] \in Nat
  BY AccountsFinite DEF TypeOK
<1> QED
  BY <1>1, SumType DEF AccountsTotal

LEMMA AccountsTotalTypeNext == TypeOK' => (AccountsTotal \in Nat)'
BY AccountsTotalType, PTL

LEMMA EndowmentType == SumFunction(Endowment) \in Nat
<1>1. DOMAIN Endowment = Users /\ \A u \in Users : Endowment[u] \in Nat
  BY FundAssumption
<1> QED
  BY <1>1, FundAssumption, SumType

LEMMA IssuanceInit == Init => IssuanceKept
<1> SUFFICES ASSUME Init PROVE IssuanceKept
  OBVIOUS
<1>1. /\ DOMAIN Endowment = Users /\ DOMAIN balances = AccountIds
      /\ IsFiniteSet(AccountIds) /\ Users \subseteq AccountIds
      /\ \A a \in AccountIds :
           /\ balances[a] \in Nat
           /\ balances[a] = IF a \in DOMAIN Endowment THEN Endowment[a] ELSE 0
  BY FundAssumption, AccountsFinite DEF Init, AccountIds
<1>2. AccountsTotal = SumFunction(Endowment)
  BY <1>1, SumExtended DEF AccountsTotal
<1> QED
  BY <1>2, EndowmentType DEF IssuanceKept

LEMMA IssuanceStep ==
  ASSUME TypeOK, TypeOK', VotesAddUp, [Next]_vars
  PROVE  AccountsTotal' <= AccountsTotal
<1>1. balances \in [AccountIds -> Nat] /\ AccountsTotal \in Nat
  BY AccountsTotalType DEF TypeOK
<1>2. CASE balances' = balances
  BY <1>1, <1>2 DEF AccountsTotal
<1>3. ASSUME NEW r \in RoundIds, StartRound(r) PROVE balances' = balances
  BY <1>3 DEF StartRound
<1>4. ASSUME NEW r \in RoundIds, EndRound(r)
      PROVE  AccountsTotal' <= AccountsTotal
  <2>1. PayoutsDefined(r) /\ balances' = BalancesAfterEnd(r)
    BY <1>4 DEF EndRound, PayoutsDefined
  <2> QED
    BY <2>1, EndConserves DEF AccountsTotal
<1>5. ASSUME NEW who \in Users, NEW r \in RoundIds, NEW h \in Hashes,
             RegisterProject(who, r, h)
      PROVE  balances' = balances
  BY <1>5 DEF RegisterProject
<1>6. ASSUME NEW who \in Users, NEW r \in RoundIds, NEW n \in Donations,
             Donate(who, r, n)
      PROVE  AccountsTotal' <= AccountsTotal
  <2>1. /\ balances' = Transfer(balances, who, FundAccount, n, KeepAlive)
        /\ n \in Nat /\ who \in AccountIds /\ FundAccount \in AccountIds
    BY <1>6, RequestAssumption, NumberIsNat DEF Donate, AccountIds
  <2> QED
    BY <1>1, <2>1, TransferConserves DEF AccountsTotal
<1>7. ASSUME NEW who \in Users, NEW r \in RoundIds, NEW h \in Hashes,
             NEW n \in Ballots, Vote(who, r, h, n)
      PROVE  AccountsTotal' <= AccountsTotal
  <2> DEFINE amount == cal_amount(CostOfVote(who, r, h, n), FALSE)
  <2>1. /\ balances' = Transfer(balances, who, FundAccount, amount, KeepAlive)
        /\ amount \in Nat /\ who \in AccountIds /\ FundAccount \in AccountIds
    BY <1>7, VotePaid, VoteArguments, NetPrice DEF AccountIds
  <2> HIDE DEF amount
  <2> QED
    BY <1>1, <2>1, TransferConserves DEF AccountsTotal
<1> QED
  BY <1>2, <1>3, <1>4, <1>5, <1>6, <1>7 DEF Next, vars

\* The pallet makes no money: whatever is voted, donated and paid out, the
\* accounts together have no more than the users had at genesis
\* (lib.rs:183, 234-239, 285).
THEOREM IssuanceNeverGrows == Spec => []IssuanceKept
<1>1. IssuanceKept /\ TypeOK /\ TypeOK' /\ ProjectsInv /\ [Next]_vars
        => IssuanceKept'
  <2> SUFFICES ASSUME IssuanceKept, TypeOK, TypeOK', ProjectsInv, [Next]_vars
               PROVE  IssuanceKept'
    OBVIOUS
  <2>1. AccountsTotal' <= AccountsTotal
    BY IssuanceStep DEF ProjectsInv
  <2>2. AccountsTotal \in Nat /\ AccountsTotal' \in Nat
    BY AccountsTotalType, AccountsTotalTypeNext
  <2>3. AccountsTotal' <= SumFunction(Endowment)
    BY <2>1, <2>2, EndowmentType DEF IssuanceKept
  <2> QED
    BY <2>3 DEF IssuanceKept
<1> QED
  BY <1>1, IssuanceInit, ProjectsAlways, PTL DEF Spec

-----------------------------------------------------------------------------
(* What the prices have to be.                                             *)

\* The money there is can be counted: the total issuance is a u128.
IssuanceFits == SumFunction(Endowment) < U128

\* The net price of a single vote and the fee in it keep an account alive,
\* as they do in the runtime, where the existential deposit is 500 and a
\* vote costs 60 * 10^9 of fee and 940 * 10^9 besides
\* (runtime/src/lib.rs:232, 265-271).
PricesKeepAlive ==
  /\ ExistentialDeposit
       <= UnitOfVote * (NumberOfUnitPerVote - FeeRatioPerVote)
  /\ ExistentialDeposit <= UnitOfVote * FeeRatioPerVote

\* The step of a vote, or a donation, that is counted only if it was paid.
VotePaidFor ==
  ProjectVotes' # ProjectVotes => balances'[FundAccount] > balances[FundAccount]

DonationPaidFor ==
  \A r \in DOMAIN Rounds :
    Rounds'[r].pre_tax_support_pool > Rounds[r].pre_tax_support_pool =>
      balances'[FundAccount] > balances[FundAccount]

-----------------------------------------------------------------------------
(* The grants when votes are paid for.                                     *)

NetUnits == UnitOfVote * (NumberOfUnitPerVote - FeeRatioPerVote)

\* The grants without the modulo of GrantsAreCost.
GrantsExact ==
  \A r \in RoundIds : \A h \in ProjectsOf(r) :
    Project(r, h).grants = NetUnits * VoterPoints(r, h)

\* The fund account has no more than all accounts together.
LEMMA FundWithinTotal == TypeOK => balances[FundAccount] <= AccountsTotal
<1> SUFFICES ASSUME TypeOK PROVE balances[FundAccount] <= AccountsTotal
  OBVIOUS
<1>1. /\ IsFiniteSet(DOMAIN balances) /\ FundAccount \in DOMAIN balances
      /\ \A a \in DOMAIN balances : balances[a] \in Nat
  BY AccountsFinite DEF TypeOK, AccountIds
<1> QED
  BY <1>1, SumType DEF AccountsTotal

LEMMA FundWithinTotalNext ==
  TypeOK' => (balances[FundAccount] <= AccountsTotal)'
BY FundWithinTotal, PTL

\* The grants of a project of an ongoing round are part of what is owed.
LEMMA GrantsAreOwed ==
  ASSUME TypeOK, FiniteRounds, NEW r \in DOMAIN Rounds, Rounds[r].ongoing,
         NEW h \in ProjectsOf(r)
  PROVE  /\ Owed(r) <= OwedTotal /\ OwedTotal \in Nat
         /\ Project(r, h).grants <= GrantsSum(r)
         /\ Owed(r) = Rounds[r].total_tax + (Rounds[r].support_pool + GrantsSum(r))
<1> DEFINE f == [s \in DOMAIN Rounds |-> Owed(s)]
           g == [k \in ProjectsOf(r) |-> Project(r, k).grants]
<1>1. /\ DOMAIN f = DOMAIN Rounds /\ IsFiniteSet(DOMAIN f)
      /\ \A s \in DOMAIN f : f[s] \in Nat /\ f[s] = Owed(s)
  BY OwedNumbers DEF FiniteRounds
<1>2. /\ DOMAIN g = ProjectsOf(r) /\ IsFiniteSet(DOMAIN g)
      /\ \A k \in DOMAIN g : g[k] \in Nat /\ g[k] = Project(r, k).grants
  BY ProjectsFinite, ProjectNumbers
<1>3. OwedTotal = SumFunction(f) /\ GrantsSum(r) = SumFunction(g)
  BY DEF OwedTotal, GrantsSum
<1> HIDE DEF f, g
<1>4. /\ SumFunction(f) \in Nat /\ f[r] <= SumFunction(f)
      /\ g[h] <= SumFunction(g)
  BY <1>1, <1>2, SumType
<1> QED
  BY <1>1, <1>2, <1>3, <1>4, OwedIs

\* The plain addition of vote does not wrap around when what it adds to is
\* owed and what it adds was paid into the fund account.
LEMMA PaidVoteFits ==
  ASSUME TypeOK, TypeOK', VotesAddUp, FiniteRounds, Solvent,
         IssuanceKept', IssuanceFits, VotePaidFor,
         NEW who \in Users, NEW r \in RoundIds, NEW h \in Hashes,
         NEW n \in Ballots, Vote(who, r, h, n)
  PROVE  Project(r, h)'.grants
           = Project(r, h).grants + NetUnits * CostOfVote(who, r, h, n)
<1> DEFINE points == CostOfVote(who, r, h, n)
           amount == cal_amount(points, FALSE)
           fee == cal_amount(points, TRUE)
           net == NetOfVote(who, r, h, n)
           grants == Project(r, h).grants
<1>1. /\ r \in DOMAIN Rounds /\ Rounds[r].ongoing /\ h \in ProjectsOf(r)
  BY VoteArguments DEF Ongoing
<1>2. /\ amount \in Nat /\ fee \in Nat /\ net \in Nat
      /\ amount - fee = net /\ net = NetUnits * points
  BY VoteArguments, VoteNumbers, NetPrice, NumberIsNat DEF NetOfVote, NetUnits
<1>3. balances'[FundAccount] = balances[FundAccount] + amount
  BY VoteBrings DEF VotePaidFor
<1>4. Project(r, h)'.grants = Add(grants, net)
  BY ProjectAfterItsVote
<1>5. /\ Owed(r) <= OwedTotal /\ OwedTotal \in Nat
      /\ grants <= GrantsSum(r)
      /\ Owed(r) = Rounds[r].total_tax + (Rounds[r].support_pool + GrantsSum(r))
  BY <1>1, GrantsAreOwed
<1>6. /\ Rounds[r].total_tax \in Nat /\ Rounds[r].support_pool \in Nat
      /\ GrantsSum(r) \in Nat /\ grants \in Nat
  BY <1>1, RoundNumbers, OwedNumbers, ProjectNumbers
<1>7. balances[FundAccount] >= OwedTotal /\ balances[FundAccount] \in Nat
  BY DEF Solvent, OwedTotal, TypeOK, AccountIds
<1>8. balances'[FundAccount] < U128
  <2>1. /\ balances'[FundAccount] <= AccountsTotal'
        /\ AccountsTotal' <= SumFunction(Endowment)
        /\ SumFunction(Endowment) < U128
    BY FundWithinTotalNext DEF IssuanceKept, IssuanceFits
  <2>2. /\ balances'[FundAccount] \in Nat /\ AccountsTotal' \in Nat
        /\ SumFunction(Endowment) \in Nat /\ U128 \in Nat
    BY AccountsTotalTypeNext, EndowmentType, WordAssumption DEF TypeOK, AccountIds
  <2> QED
    BY <2>1, <2>2
<1> HIDE DEF points, amount, fee, net, grants
<1>9. grants + net < U128
  BY <1>2, <1>3, <1>5, <1>6, <1>7, <1>8, WordAssumption
<1>10. Add(grants, net) = grants + net
  BY <1>9 DEF Add
<1> QED
  BY <1>2, <1>4, <1>10 DEF points, grants

LEMMA GrantsExactStep ==
  ASSUME TypeOK, TypeOK', ProjectsInv, FiniteRounds, Solvent, IssuanceKept',
         IssuanceFits, GrantsExact, [Next]_vars, VotePaidFor
  PROVE  GrantsExact'
<1> SUFFICES ASSUME NEW r \in RoundIds, NEW h \in ProjectsOf(r)'
             PROVE  Project(r, h)'.grants = NetUnits * VoterPoints(r, h)'
  BY DEF GrantsExact, NetUnits
<1>1. NetUnits \in Nat
  BY PricesAreNat DEF NetUnits
<1>2. VotesAddUp /\ VotesOfProjects /\ h \in Hashes
  BY DEF ProjectsInv, ProjectsOf
<1>3. CASE h \in ProjectsOf(r) /\ ProjectKept(r, h)
  <2>1. Project(r, h).grants = NetUnits * VoterPoints(r, h)
    BY <1>3 DEF GrantsExact
  <2> QED
    BY <1>3, <2>1 DEF ProjectKept, VoterSumsKept
<1>4. CASE Fresh(r, h)'
  <2>1. NetUnits * 0 = 0
    BY <1>1
  <2> QED
    BY <1>4, <2>1 DEF Fresh
<1>5. ASSUME NEW who \in Users, NEW n \in Ballots, Vote(who, r, h, n)
      PROVE  Project(r, h)'.grants = NetUnits * VoterPoints(r, h)'
  <2> DEFINE points == VoterPoints(r, h)
             cost == CostOfVote(who, r, h, n)
  <2>1. Project(r, h)'.grants = Project(r, h).grants + NetUnits * cost
    BY <1>2, <1>5, PaidVoteFits
  <2>2. Project(r, h).grants = NetUnits * points
    BY <1>2, <1>5, ProjectAfterItsVote DEF GrantsExact
  <2>3. points \in Nat /\ cost \in Nat /\ VoterPoints(r, h)' = points + cost
    BY <1>2, <1>5, VoterSums, VoteArguments, SumsAfterVote
  <2> HIDE DEF points, cost
  <2>4. NetUnits * (points + cost) = NetUnits * points + NetUnits * cost
    BY <1>1, <2>3
  <2> QED
    BY <2>1, <2>2, <2>3, <2>4
<1> QED
  BY <1>2, <1>3, <1>4, <1>5, ProjectCases DEF ProjectKept

\* A donation is divided into tax and pool: the pool has no more than was
\* donated.
PoolTaxed ==
  \A r \in DOMAIN Rounds : Rounds[r].support_pool <= Rounds[r].pre_tax_support_pool

LEMMA PoolTaxedStep ==
  TypeOK /\ TypeOK' /\ ProjectsInv /\ PoolTaxed /\ [Next]_vars => PoolTaxed'
<1> SUFFICES ASSUME TypeOK, TypeOK', ProjectsInv, PoolTaxed, [Next]_vars,
                    NEW r \in DOMAIN Rounds'
             PROVE  Rounds'[r].support_pool <= Rounds'[r].pre_tax_support_pool
  BY DEF PoolTaxed
<1>1. CASE RoundStarted(r)
  BY <1>1 DEF RoundStarted, NewRound
<1>2. CASE RoundKept(r)
  BY <1>2 DEF RoundKept, PoolTaxed
<1>3. CASE RoundVoted(r)
  BY <1>3 DEF RoundVoted, PoolTaxed
<1>4. CASE RoundGiven(r)
  <2>1. PICK amount \in Donations :
          /\ r \in DOMAIN Rounds
          /\ Rounds'[r] = RoundAfterDonation(Rounds[r], amount)
    BY <1>4 DEF RoundGiven
  <2> DEFINE fee == DonationFee(amount)
  <2>2. amount \in Nat /\ fee \in Nat
    BY RequestAssumption, NumberIsNat, DonationFeeType
  <2> HIDE DEF fee
  <2>3. /\ Rounds'[r].support_pool = Rounds[r].support_pool + (amount - fee)
        /\ Rounds'[r].pre_tax_support_pool
             = Rounds[r].pre_tax_support_pool + amount
    BY <2>1 DEF RoundAfterDonation, RoundType, TypeOK, fee
  <2>4. /\ Rounds[r].support_pool <= Rounds[r].pre_tax_support_pool
        /\ Rounds[r].support_pool \in Nat
        /\ Rounds[r].pre_tax_support_pool \in Nat
    BY <2>1, RoundNumbers DEF PoolTaxed
  <2> QED
    BY <2>2, <2>3, <2>4
<1> QED
  BY <1>1, <1>2, <1>3, <1>4, RoundCases

-----------------------------------------------------------------------------
(* One payment.                                                            *)

\* Everything that is known of a state when votes and donations are paid.
PaidInv ==
  /\ TypeOK /\ ProjectsInv /\ RoundAreaIsSum /\ TaxAccounted
  /\ FiniteRounds /\ Solvent /\ IssuanceKept /\ GrantsExact /\ PoolTaxed

\* A project that is due something has votes: whoever bought none for it
\* left it neither grants nor a support area.
LEMMA NothingForNoVotes ==
  ASSUME PaidInv, NEW r \in DOMAIN Rounds, NEW h \in ProjectsOf(r),
         VoterPoints(r, h) = 0
  PROVE  Payout(Rounds[r], Project(r, h)) = 0
<1> DEFINE f == [who \in Users |-> Points(Votes(who, r, h))]
           v == [who \in Users |-> Votes(who, r, h)]
           q == [who \in Users |-> Votes(who, r, h) * Votes(who, r, h)]
<1>1. r \in RoundIds /\ TypeOK
  BY DEF PaidInv, TypeOK
<1>2. \A who \in Users :
        /\ Votes(who, r, h) \in Nat
        /\ Points(Votes(who, r, h)) \in Nat
        /\ 2 * Points(Votes(who, r, h))
             = Votes(who, r, h) * (Votes(who, r, h) + 1)
  BY <1>1, VotesType, PointsTwice
<1>3. \A who \in Users : Points(Votes(who, r, h)) = 0
  <2>1. DOMAIN f = Users /\ \A who \in Users : f[who] = Points(Votes(who, r, h))
    OBVIOUS
  <2>2. VoterPoints(r, h) = SumFunction(f)
    BY DEF VoterPoints
  <2> HIDE DEF f
  <2>3. \A who \in DOMAIN f : f[who] \in Nat /\ f[who] <= 0
    BY <1>2, <2>1, <2>2, FundAssumption, SumType
  <2> QED
    BY <2>1, <2>3
<1>4. \A who \in Users : Votes(who, r, h) = 0
  <2>1. \A n \in Nat : n * (n + 1) = 0 => n = 0
    <3> SUFFICES ASSUME NEW n \in Nat, n # 0 PROVE n * (n + 1) # 0
      OBVIOUS
    <3>1. n * n \in Nat /\ n * (n + 1) = n * n + n
      OBVIOUS
    <3> QED
      BY <3>1
  <2> QED
    BY <1>2, <1>3, <2>1
<1>5. SumOfVotes(r, h) = 0 /\ SumOfSquares(r, h) = 0
  <2>1. /\ DOMAIN v = Users /\ DOMAIN q = Users
        /\ \A who \in Users : v[who] = 0 /\ q[who] = 0
    BY <1>4
  <2>2. SumOfVotes(r, h) = SumFunction(v) /\ SumOfSquares(r, h) = SumFunction(q)
    BY DEF SumOfVotes, SumOfSquares
  <2> HIDE DEF v, q
  <2> QED
    BY <2>1, <2>2, FundAssumption, SumOfZeros
<1>6. Project(r, h).support_area \in Nat
      /\ 2 * Project(r, h).support_area = 0 * 0 - 0
  BY <1>1, <1>5, ProjectNumbers DEF PaidInv, ProjectsInv, AreaIsPairs
<1>7. Project(r, h).support_area = 0
  BY <1>6
<1>8. Project(r, h).grants = 0
  <2>1. NetUnits \in Nat /\ NetUnits * 0 = 0
    BY PricesAreNat DEF NetUnits
  <2> QED
    BY <1>1, <2>1 DEF PaidInv, GrantsExact
<1>9. Match(Rounds[r], Project(r, h)) = 0
  <2> DEFINE total == Rounds[r].total_support_area
             rate == Rounds[r].support_pool \div total
  <2>1. Match(Rounds[r], Project(r, h))
          = IF total = 0 THEN 0 ELSE Project(r, h).support_area * rate
    BY DEF Match
  <2>2. total # 0 => rate \in Nat
    BY <1>1, RoundNumbers, DivType
  <2> HIDE DEF total, rate
  <2> QED
    BY <1>7, <2>1, <2>2
<1> QED
  BY <1>8, <1>9 DEF Payout

\* A payment is large enough for the account of its owner to exist, and the
\* tax of the round, which nobody is paid, for the fund account.
LEMMA PaymentKeepsAlive ==
  ASSUME PricesKeepAlive, PaidInv, NEW r \in DOMAIN Rounds,
         NEW h \in ProjectsOf(r), Payout(Rounds[r], Project(r, h)) > 0
  PROVE  /\ Payout(Rounds[r], Project(r, h)) >= ExistentialDeposit
         /\ Rounds[r].total_tax >= ExistentialDeposit
<1> DEFINE points == VoterPoints(r, h)
           g == [k \in ProjectsOf(r) |-> VoterPoints(r, k)]
           all == PointsSum(r)
           price == UnitOfVote * FeeRatioPerVote
<1>1. r \in RoundIds /\ TypeOK
  BY DEF PaidInv, TypeOK
<1>2. points \in Nat /\ points > 0
  BY <1>1, ProjectNumbers, NothingForNoVotes
<1>3. all \in Nat /\ points <= all
  <2>1. /\ DOMAIN g = ProjectsOf(r) /\ IsFiniteSet(DOMAIN g) /\ g[h] = points
        /\ \A k \in DOMAIN g : g[k] \in Nat
    BY <1>1, ProjectsFinite, ProjectNumbers
  <2>2. all = SumFunction(g)
    BY DEF PointsSum
  <2> HIDE DEF g, all, points
  <2> QED
    BY <2>1, <2>2, SumType
<1>4. /\ NetUnits \in Nat /\ price \in Nat
      /\ ExistentialDeposit <= NetUnits /\ ExistentialDeposit <= price
      /\ ExistentialDeposit \in Nat
  BY PricesAreNat, ExistentialDepositAssumption DEF NetUnits, PricesKeepAlive
<1>5. /\ Project(r, h).grants = NetUnits * points
      /\ Project(r, h).grants \in Nat
      /\ Match(Rounds[r], Project(r, h)) \in Nat
  BY <1>1, PayoutNumbers DEF PaidInv, GrantsExact
<1>6. Rounds[r].total_tax
        = Rounds[r].pre_tax_support_pool - Rounds[r].support_pool + price * all
  BY DEF PaidInv, TaxAccounted, PointsSum
<1>7. /\ Rounds[r].support_pool <= Rounds[r].pre_tax_support_pool
      /\ Rounds[r].support_pool \in Nat
      /\ Rounds[r].pre_tax_support_pool \in Nat
  BY <1>1, RoundNumbers DEF PaidInv, PoolTaxed
<1> HIDE DEF points, all, price
<1>8. \A c \in Nat, n \in Nat : n > 0 => c * n \in Nat /\ c * n >= c
  <2> SUFFICES ASSUME NEW c \in Nat, NEW n \in Nat, n > 0
               PROVE  c * n \in Nat /\ c * n >= c
    OBVIOUS
  <2>1. n - 1 \in Nat /\ c * n = c * (n - 1) + c /\ c * (n - 1) \in Nat
    OBVIOUS
  <2> QED
    BY <2>1
<1>9. NetUnits * points >= ExistentialDeposit
  <2>1. NetUnits * points \in Nat /\ NetUnits * points >= NetUnits
    BY <1>2, <1>4, <1>8
  <2> QED
    BY <1>4, <2>1
<1>10. price * all >= ExistentialDeposit /\ price * all \in Nat
  <2>1. price * all \in Nat /\ price * all >= price
    BY <1>2, <1>3, <1>4, <1>8
  <2> QED
    BY <1>4, <2>1
<1>11. Payout(Rounds[r], Project(r, h)) >= ExistentialDeposit
  <2>1. Payout(Rounds[r], Project(r, h))
          = Project(r, h).grants + Match(Rounds[r], Project(r, h))
    BY DEF Payout
  <2> QED
    BY <1>4, <1>5, <1>9, <2>1
<1>12. Rounds[r].total_tax >= ExistentialDeposit
  BY <1>4, <1>6, <1>7, <1>10
<1> QED
  BY <1>11, <1>12

-----------------------------------------------------------------------------
(* All payments.                                                           *)

\* A payment that the fund account can make besides the tax of the round is
\* made in full.
LEMMA PaymentMade ==
  ASSUME PricesKeepAlive, PaidInv, NEW r \in DOMAIN Rounds,
         NEW h \in ProjectsOf(r), NEW b \in [AccountIds -> Nat],
         b[FundAccount]
           >= Payout(Rounds[r], Project(r, h)) + Rounds[r].total_tax
  PROVE  /\ Project(r, h).owner \in Users
         /\ Paid(r, b, h)[FundAccount]
              = b[FundAccount] - Payout(Rounds[r], Project(r, h))
         /\ Paid(r, b, h)[Project(r, h).owner]
              = b[Project(r, h).owner] + Payout(Rounds[r], Project(r, h))
         /\ \A who \in Users \ {Project(r, h).owner} :
              Paid(r, b, h)[who] = b[who]
<1> DEFINE value == Payout(Rounds[r], Project(r, h))
           owner == Project(r, h).owner
           tax == Rounds[r].total_tax
           to == Transfer(b, FundAccount, owner, value, KeepAlive)
<1>1. TypeOK /\ Paid(r, b, h) = to
  BY DEF PaidInv, Paid
<1>2. owner \in Users
  BY <1>1 DEF TypeOK, Project, ProjectsOf, ProjectType
<1>3. /\ owner \in AccountIds /\ FundAccount \in AccountIds
      /\ owner # FundAccount
      /\ b[owner] \in Nat /\ b[FundAccount] \in Nat
      /\ \A who \in Users : who \in AccountIds /\ who # FundAccount
  BY <1>2, FundAssumption DEF AccountIds
<1>4. value \in Nat /\ tax \in Nat /\ b[FundAccount] >= value + tax
  BY <1>1, PayoutNumbers, RoundNumbers DEF Payout
<1>5. value > 0 => value >= ExistentialDeposit /\ tax >= ExistentialDeposit
  BY PaymentKeepsAlive
<1> HIDE DEF value, owner, tax
<1>6. CASE value = 0
  <2>1. to = b
    BY <1>6 DEF Transfer
  <2> HIDE DEF to
  <2>2. b[owner] = b[owner] + value /\ b[FundAccount] = b[FundAccount] - value
    BY <1>3, <1>6
  <2> QED
    BY <1>1, <1>2, <2>1, <2>2 DEF value, owner
<1>7. CASE value > 0
  <2>1. /\ b[FundAccount] >= value
        /\ b[owner] + value >= ExistentialDeposit
        /\ b[FundAccount] - value >= ExistentialDeposit
    BY <1>3, <1>4, <1>5, <1>7, ExistentialDepositAssumption
  <2>2. Remainder(b[FundAccount], value) = b[FundAccount] - value
    BY <1>3, <1>4, <2>1, ExistentialDepositAssumption DEF Remainder
  <2>3. to = [b EXCEPT ![FundAccount] = b[FundAccount] - value,
                       ![owner] = b[owner] + value]
    BY <1>3, <1>7, <2>1, <2>2 DEF Transfer, CanTransfer
  <2>4. /\ to[FundAccount] = b[FundAccount] - value
        /\ to[owner] = b[owner] + value
        /\ \A who \in Users \ {owner} : to[who] = b[who]
    BY <1>3, <2>3
  <2> HIDE DEF to
  <2> QED
    BY <1>1, <1>2, <2>4 DEF value, owner
<1> QED
  BY <1>4, <1>6, <1>7

\* The fund account has the payouts of a round and its tax.
LEMMA FundCovers ==
  ASSUME PaidInv, NEW r \in DOMAIN Rounds, Rounds[r].ongoing,
         NEW h \in ProjectsOf(r)
  PROVE  balances[FundAccount] >= Due(r, ProjectsOf(r)) + Rounds[r].total_tax
<1>1. TypeOK /\ FiniteRounds /\ RoundAreaIsSum
  BY DEF PaidInv
<1>2. /\ Owed(r) <= OwedTotal /\ OwedTotal \in Nat
      /\ Owed(r) = Rounds[r].total_tax + (Rounds[r].support_pool + GrantsSum(r))
  BY <1>1, GrantsAreOwed
<1>3. balances[FundAccount] >= OwedTotal /\ balances[FundAccount] \in Nat
  BY <1>1 DEF PaidInv, Solvent, OwedTotal, TypeOK, AccountIds
<1>4. MatchOf(r) <= Rounds[r].support_pool
  BY <1>1, MatchStaysWithin DEF MatchWithinPool
<1>5. Due(r, ProjectsOf(r)) = GrantsSum(r) + MatchOf(r)
      /\ Due(r, ProjectsOf(r)) \in Nat
  BY <1>1, DueAll, DueNumbers
<1>6. /\ Rounds[r].total_tax \in Nat /\ Rounds[r].support_pool \in Nat
      /\ GrantsSum(r) \in Nat
  BY <1>1, RoundNumbers, OwedNumbers
<1>7. MatchOf(r) \in Int
  <2> DEFINE f == [k \in ProjectsOf(r) |-> Match(Rounds[r], Project(r, k))]
  <2>1. DOMAIN f = ProjectsOf(r) /\ \A k \in ProjectsOf(r) : f[k] \in Nat
    BY <1>1, PayoutNumbers
  <2> HIDE DEF f
  <2>2. SumFunction(f) \in Nat
    BY <2>1, ProjectsFinite, SumType
  <2> QED
    BY <2>2 DEF MatchOf, f
<1> QED
  BY <1>2, <1>3, <1>4, <1>5, <1>6, <1>7

\* No payout of an ongoing round overflows.
PayoutsFit == \A r \in DOMAIN Rounds : Rounds[r].ongoing => PayoutsDefined(r)

LEMMA CoveredPayoutsFit ==
  ASSUME IssuanceFits, PaidInv
  PROVE  PayoutsFit
<1> SUFFICES ASSUME NEW r \in DOMAIN Rounds, Rounds[r].ongoing,
                    NEW h \in ProjectsOf(r)
             PROVE  Payout(Rounds[r], Project(r, h)) \in Number
  BY DEF PayoutsFit, PayoutsDefined
<1> DEFINE pay == Payout(Rounds[r], Project(r, h))
<1>1. TypeOK
  BY DEF PaidInv
<1>2. /\ pay \in Nat /\ Due(r, ProjectsOf(r)) \in Nat
      /\ Due(r, {}) = 0 /\ Due(r, {h}) \in Nat
  BY <1>1, DueNumbers
<1>3. Due(r, {} \cup {h}) = Due(r, {}) + pay
  BY <1>1, DueOneMore
<1>4. Due(r, {h}) <= Due(r, ProjectsOf(r))
  BY <1>1, DuePart
<1>5. /\ balances[FundAccount] >= Due(r, ProjectsOf(r)) + Rounds[r].total_tax
      /\ Rounds[r].total_tax \in Nat
  BY <1>1, FundCovers, RoundNumbers
<1>6. balances[FundAccount] <= AccountsTotal /\ balances[FundAccount] \in Nat
  BY <1>1, FundWithinTotal DEF TypeOK, AccountIds
<1>7. /\ AccountsTotal \in Nat /\ SumFunction(Endowment) \in Nat
      /\ AccountsTotal <= SumFunction(Endowment)
  BY <1>1, AccountsTotalType, EndowmentType DEF PaidInv, IssuanceKept
<1>8. {} \cup {h} = {h}
  OBVIOUS
<1> HIDE DEF pay
<1>9. pay < U128
  BY <1>2, <1>3, <1>4, <1>5, <1>6, <1>7, <1>8, WordAssumption
  DEF IssuanceFits
<1>10. pay \in Number
  BY <1>2, <1>9, WordAssumption DEF Number
<1> QED
  BY <1>10 DEF pay

Owned(r, who) == {h \in ProjectsOf(r) : Project(r, h).owner = who}

\* A user is paid what is due to the user's projects, all of it.
LEMMA EveryOwnerPaid ==
  ASSUME PricesKeepAlive, PaidInv, NEW r \in DOMAIN Rounds, Rounds[r].ongoing,
         PayoutsDefined(r), NEW who \in Users
  PROVE  BalancesAfterEnd(r)[who] = balances[who] + Due(r, Owned(r, who))
<1>1. TypeOK /\ LastHash \in Nat /\ Owned(r, who) \subseteq ProjectsOf(r)
  BY RequestAssumption DEF PaidInv, Owned
<1>2. PICK paid \in [0 .. LastHash -> [AccountIds -> Nat]] :
        /\ paid[0] = balances
        /\ \A h \in Hashes : paid[h] = Paid(r, paid[h - 1], h)
        /\ BalancesAfterEnd(r) = paid[LastHash]
  BY <1>1, EndBalances
<1>3. /\ FundAccount \in AccountIds /\ who \in AccountIds
      /\ balances[FundAccount] \in Nat /\ balances[who] \in Nat
  BY <1>1 DEF AccountIds, TypeOK
<1> DEFINE Mine(n) == Owned(r, who) \cap First(r, n)
           Upto(n) ==
             /\ paid[n][FundAccount] + Due(r, First(r, n)) = balances[FundAccount]
             /\ paid[n][who] = balances[who] + Due(r, Mine(n))
           S == {n \in 0 .. LastHash : Upto(n)}
<1>4. 0 \in S
  <2>1. First(r, 0) = {} /\ Mine(0) = {}
    BY RequestAssumption DEF First, ProjectsOf, Hashes
  <2>2. Due(r, First(r, 0)) = 0 /\ Due(r, Mine(0)) = 0
    <3>1. {} \subseteq ProjectsOf(r)
      OBVIOUS
    <3>2. Due(r, {}) = 0
      BY <1>1, <3>1, DueNumbers
    <3> QED
      BY <2>1, <3>2
  <2>3. paid[0] = balances /\ 0 \in 0 .. LastHash
    BY <1>1, <1>2
  <2> HIDE DEF Mine
  <2>4. Upto(0)
    BY <1>3, <2>2, <2>3
  <2> HIDE DEF Upto
  <2> QED
    BY <2>3, <2>4
<1>5. ASSUME NEW n \in 1 .. LastHash, n - 1 \in S PROVE n \in S
  <2> DEFINE b == paid[n - 1]
             pay == Payout(Rounds[r], Project(r, n))
  <2>1. n \in Hashes /\ n \in 0 .. LastHash /\ n - 1 \in 0 .. LastHash
    BY <1>1, <1>5 DEF Hashes
  <2>2. /\ b[FundAccount] + Due(r, First(r, n - 1)) = balances[FundAccount]
        /\ b[who] = balances[who] + Due(r, Mine(n - 1))
    BY <1>5
  <2>3. /\ b \in [AccountIds -> Nat] /\ paid[n] = Paid(r, b, n)
        /\ b[FundAccount] \in Nat /\ b[who] \in Nat
    BY <1>2, <1>3, <2>1
  <2>4. /\ First(r, n - 1) \subseteq ProjectsOf(r) /\ n \notin First(r, n - 1)
        /\ First(r, n) = First(r, n - 1)
                           \cup (IF n \in ProjectsOf(r) THEN {n} ELSE {})
    BY <2>1, FirstProjects
  <2>5. CASE n \notin ProjectsOf(r)
    <3>1. First(r, n) = First(r, n - 1) /\ Mine(n) = Mine(n - 1)
          /\ paid[n] = b
      BY <2>3, <2>4, <2>5 DEF Paid
    <3> HIDE DEF b, Mine
    <3>2. Upto(n)
      BY <2>2, <3>1
    <3> HIDE DEF Upto
    <3> QED
      BY <2>1, <3>2
  <2>6. CASE n \in ProjectsOf(r)
    <3>1. /\ pay \in Nat
          /\ Due(r, First(r, n)) = Due(r, First(r, n - 1)) + pay
      <4>1. n \in ProjectsOf(r) \ First(r, n - 1)
        BY <2>4, <2>6
      <4>2. Due(r, First(r, n - 1) \cup {n}) = Due(r, First(r, n - 1)) + pay
        BY <1>1, <2>4, <4>1, DueOneMore
      <4>3. \A h \in ProjectsOf(r) : Payout(Rounds[r], Project(r, h)) \in Nat
        BY <1>1, DueNumbers
      <4> QED
        BY <2>4, <2>6, <4>2, <4>3
    <3>2. /\ Due(r, First(r, n - 1)) \in Nat
          /\ Due(r, ProjectsOf(r)) \in Nat
          /\ Due(r, First(r, n)) <= Due(r, ProjectsOf(r))
      <4>1. First(r, n) \subseteq ProjectsOf(r)
        BY <2>4, <2>6
      <4> QED
        BY <1>1, <2>4, <4>1, DueNumbers, DuePart
    <3>3. /\ balances[FundAccount]
               >= Due(r, ProjectsOf(r)) + Rounds[r].total_tax
          /\ Rounds[r].total_tax \in Nat
      BY <1>1, <2>6, FundCovers, RoundNumbers
    <3>4. b[FundAccount] >= pay + Rounds[r].total_tax
      <4> HIDE DEF b, pay
      <4> QED
        BY <1>3, <2>2, <2>3, <3>1, <3>2, <3>3
    <3>5. /\ Project(r, n).owner \in Users
          /\ paid[n][FundAccount] = b[FundAccount] - pay
          /\ paid[n][Project(r, n).owner] = b[Project(r, n).owner] + pay
          /\ \A other \in Users \ {Project(r, n).owner} :
               paid[n][other] = b[other]
      BY <2>3, <2>6, <3>4, PaymentMade
    <3>6. /\ Mine(n - 1) \subseteq ProjectsOf(r)
          /\ n \notin Mine(n - 1)
          /\ Due(r, Mine(n - 1)) \in Nat
      BY <1>1, <2>4, DueNumbers
    <3>7. paid[n][who] = balances[who] + Due(r, Mine(n))
      <4>1. CASE Project(r, n).owner = who
        <5>1. Mine(n) = Mine(n - 1) \cup {n}
          BY <2>4, <2>6, <4>1 DEF Owned
        <5>2. n \in ProjectsOf(r) \ Mine(n - 1)
          BY <2>6, <3>6
        <5> HIDE DEF Mine
        <5>3. Due(r, Mine(n - 1) \cup {n}) = Due(r, Mine(n - 1)) + pay
          BY <1>1, <3>6, <5>2, DueOneMore
        <5>4. paid[n][who] = b[who] + pay
          BY <3>5, <4>1
        <5> HIDE DEF b, pay
        <5> QED
          BY <1>3, <2>2, <3>1, <3>6, <5>1, <5>3, <5>4
      <4>2. CASE Project(r, n).owner # who
        <5>1. Mine(n) = Mine(n - 1)
          BY <2>4, <2>6, <4>2 DEF Owned
        <5>2. paid[n][who] = b[who]
          BY <3>5, <4>2
        <5> QED
          BY <2>2, <5>1, <5>2
      <4> QED
        BY <4>1, <4>2
    <3> HIDE DEF b, pay, Mine
    <3>8. paid[n][FundAccount] + Due(r, First(r, n)) = balances[FundAccount]
      BY <1>3, <2>2, <2>3, <3>1, <3>2, <3>5
    <3>9. Upto(n)
      BY <3>7, <3>8
    <3> HIDE DEF Upto
    <3> QED
      BY <2>1, <3>9
  <2> QED
    BY <2>5, <2>6
<1> HIDE DEF S
<1>6. LastHash \in S
  <2>1. 0 .. LastHash \subseteq S
    BY <1>1, <1>4, <1>5, NumberInduction
  <2> QED
    BY <1>1, <2>1
<1>7. Mine(LastHash) = Owned(r, who)
  BY <1>1 DEF First, ProjectsOf, Hashes, Owned
<1> QED
  BY <1>2, <1>6, <1>7 DEF S

-----------------------------------------------------------------------------
(* The step that ends a round.                                             *)

LEMMA EndedByEndRound ==
  ASSUME TypeOK, [Next]_vars, NEW r \in DOMAIN Rounds,
         Rounds[r].ongoing, ~Rounds'[r].ongoing
  PROVE  EndRound(r) /\ PayoutsDefined(r) /\ balances' = BalancesAfterEnd(r)
<1>1. \A s \in DOMAIN Rounds : Rounds[s] \in RoundType
  BY DEF TypeOK
<1>2. ~UNCHANGED vars
  BY DEF vars
<1>3. ASSUME NEW s \in RoundIds, StartRound(s) PROVE FALSE
  BY <1>3 DEF StartRound, UnusedRound, Put
<1>4. ASSUME NEW s \in RoundIds, EndRound(s) PROVE s = r
  BY <1>4 DEF EndRound
<1>5. ASSUME NEW who \in Users, NEW s \in RoundIds, NEW h \in Hashes,
             RegisterProject(who, s, h)
      PROVE  FALSE
  BY <1>5 DEF RegisterProject
<1>6. ASSUME NEW who \in Users, NEW s \in RoundIds, NEW n \in Donations,
             Donate(who, s, n)
      PROVE  FALSE
  BY <1>1, <1>6 DEF Donate, RoundAfterDonation, RoundType
<1>7. ASSUME NEW who \in Users, NEW s \in RoundIds, NEW h \in Hashes,
             NEW n \in Ballots, Vote(who, s, h, n)
      PROVE  FALSE
  <2>1. PICK area, fee :
          Rounds' = [Rounds EXCEPT ![s] = RoundAfterVote(Rounds[s], area, fee)]
    BY <1>7 DEF Vote
  <2> QED
    BY <1>1, <2>1 DEF RoundAfterVote, RoundType
<1>8. EndRound(r)
  BY <1>2, <1>3, <1>4, <1>5, <1>6, <1>7 DEF Next
<1> QED
  BY <1>8 DEF EndRound, PayoutsDefined

\* What the payout of a project is by the formula of OwnersPaid, which asks
\* whether the project has a support area and not whether the round has.
LEMMA PayoutFormula ==
  ASSUME TypeOK, RoundAreaIsSum, NEW r \in DOMAIN Rounds,
         NEW h \in ProjectsOf(r)
  PROVE  Payout(Rounds[r], Project(r, h))
           = Project(r, h).grants
               + IF Project(r, h).support_area = 0 THEN 0
                 ELSE Project(r, h).support_area
                        * (Rounds[r].support_pool
                             \div Rounds[r].total_support_area)
<1> DEFINE area == Project(r, h).support_area
           total == Rounds[r].total_support_area
           rate == Rounds[r].support_pool \div total
           f == [k \in ProjectsOf(r) |-> Project(r, k).support_area]
<1>1. area \in Nat /\ total \in Nat /\ Rounds[r].support_pool \in Nat
  BY ProjectNumbers, RoundNumbers
<1>2. area <= total
  <2>1. /\ DOMAIN f = ProjectsOf(r) /\ f[h] = area
        /\ \A k \in DOMAIN f : f[k] \in Nat
    BY ProjectNumbers
  <2>2. total = SumFunction(f)
    BY DEF RoundAreaIsSum
  <2> HIDE DEF f, area, total
  <2> QED
    BY <2>1, <2>2, ProjectsFinite, SumType
<1>3. Match(Rounds[r], Project(r, h)) = IF total = 0 THEN 0 ELSE area * rate
  BY DEF Match
<1>4. total # 0 => rate \in Nat
  BY <1>1, DivType
<1> HIDE DEF area, total, rate
<1>5. Match(Rounds[r], Project(r, h)) = IF area = 0 THEN 0 ELSE area * rate
  BY <1>1, <1>2, <1>3, <1>4
<1> QED
  BY <1>5 DEF Payout, area, total, rate

\* OwnersPaid for one step.
EndPaysOwners ==
  \A r \in DOMAIN Rounds :
    Rounds[r].ongoing /\ ~Rounds'[r].ongoing =>
      \A who \in Users :
        balances'[who] = balances[who]
          + SumFunction(
              [h \in {k \in ProjectsOf(r) : Project(r, k).owner = who} |->
                 Project(r, h).grants
                   + IF Project(r, h).support_area = 0 THEN 0
                     ELSE Project(r, h).support_area
                            * (Rounds[r].support_pool
                                 \div Rounds[r].total_support_area)])

LEMMA OwnersPaidStep ==
  PricesKeepAlive /\ PaidInv /\ [Next]_vars => EndPaysOwners
<1> SUFFICES ASSUME PricesKeepAlive, PaidInv, [Next]_vars,
                    NEW r \in DOMAIN Rounds, NEW who \in Users,
                    Rounds[r].ongoing, ~Rounds'[r].ongoing
             PROVE  balances'[who] = balances[who]
          + SumFunction(
              [h \in {k \in ProjectsOf(r) : Project(r, k).owner = who} |->
                 Project(r, h).grants
                   + IF Project(r, h).support_area = 0 THEN 0
                     ELSE Project(r, h).support_area
                            * (Rounds[r].support_pool
                                 \div Rounds[r].total_support_area)])
  BY DEF EndPaysOwners
<1>1. TypeOK /\ RoundAreaIsSum
  BY DEF PaidInv
<1>2. balances'[who] = balances[who] + Due(r, Owned(r, who))
  BY <1>1, EndedByEndRound, EveryOwnerPaid
<1>3. \A h \in Owned(r, who) :
        Payout(Rounds[r], Project(r, h))
          = Project(r, h).grants
              + IF Project(r, h).support_area = 0 THEN 0
                ELSE Project(r, h).support_area
                       * (Rounds[r].support_pool
                            \div Rounds[r].total_support_area)
  BY <1>1, PayoutFormula DEF Owned
<1>4. [h \in Owned(r, who) |-> Payout(Rounds[r], Project(r, h))]
        = [h \in Owned(r, who) |->
             Project(r, h).grants
               + IF Project(r, h).support_area = 0 THEN 0
                 ELSE Project(r, h).support_area
                        * (Rounds[r].support_pool
                             \div Rounds[r].total_support_area)]
  BY <1>3
<1> QED
  BY <1>2, <1>4 DEF Due, Owned

-----------------------------------------------------------------------------
(* The ranks the client was shown.                                         *)

\* Division with remainder, for grants that are whole units and a match
\* that need not be.
LEMMA WholeUnits ==
  ASSUME NEW c \in Nat, NEW m \in Nat
  PROVE  /\ (UnitOfVote * c) \div UnitOfVote = c
         /\ m \div UnitOfVote \in Nat
         /\ m - UnitOfVote * (m \div UnitOfVote) \in 0 .. UnitOfVote - 1
<1> DEFINE unit == UnitOfVote
<1>1. unit \in Nat /\ unit > 0
  BY PricesAreNat
<1> HIDE DEF unit
<1>2. (unit * c) \div unit = c
  <2> DEFINE n == unit * c
             q == n \div unit
  <2>1. n \in Nat
    BY <1>1
  <2>2. q \in Nat /\ unit * q <= n /\ n < unit * q + unit
    BY <1>1, <2>1
  <2>3. unit * (c - q) \in Int /\ unit * (c - q) = unit * c - unit * q
    BY <1>1, <2>2
  <2>4. 0 <= unit * (c - q) /\ unit * (c - q) < unit
    <3>1. unit * q \in Nat /\ unit * c \in Nat
      BY <1>1, <2>2
    <3> HIDE DEF q
    <3> QED
      BY <1>1, <2>2, <2>3, <3>1
  <2>5. c - q = 0
    <3> DEFINE d == c - q
    <3>1. d \in Int
      BY <2>2
    <3> HIDE DEF d, q
    <3>2. \A i \in Int : i >= 1 => unit * i >= unit
      <4> SUFFICES ASSUME NEW i \in Int, i >= 1 PROVE unit * i >= unit
        OBVIOUS
      <4>1. unit * i = unit * (i - 1) + unit /\ i - 1 \in Nat
        BY <1>1
      <4>2. unit * (i - 1) \in Nat
        BY <1>1, <4>1
      <4> QED
        BY <1>1, <4>1, <4>2
    <3>3. \A i \in Int : i <= -1 => unit * i < 0
      <4> SUFFICES ASSUME NEW i \in Int, i <= -1 PROVE unit * i < 0
        OBVIOUS
      <4>1. unit * i = -(unit * (-i)) /\ -i \in Int /\ -i >= 1
        BY <1>1
      <4>2. unit * (-i) >= unit /\ unit * (-i) \in Int
        BY <1>1, <3>2, <4>1
      <4> QED
        BY <1>1, <4>1, <4>2
    <3>4. 0 <= unit * d /\ unit * d < unit /\ unit * d \in Int
      BY <1>1, <2>4, <3>1 DEF d
    <3>5. d = 0
      BY <1>1, <3>1, <3>2, <3>3, <3>4
    <3> QED
      BY <3>5 DEF d
  <2> HIDE DEF q
  <2>6. q = c
    BY <2>2, <2>5
  <2> QED
    BY <2>6 DEF q
<1>3. /\ m \div unit \in Nat
      /\ unit * (m \div unit) <= m /\ m < unit * (m \div unit) + unit
      /\ unit * (m \div unit) \in Nat
  BY <1>1
<1>4. m - unit * (m \div unit) \in 0 .. unit - 1
  <2> DEFINE p == unit * (m \div unit)
  <2>1. p \in Nat /\ p <= m /\ m < p + unit
    BY <1>3
  <2> HIDE DEF p
  <2>2. m - p \in 0 .. unit - 1
    BY <1>1, <2>1
  <2> QED
    BY <2>2 DEF p
<1> QED
  BY <1>2, <1>3, <1>4 DEF unit

\* A row shows the payout less a fraction of a unit.
LEMMA RowShowsPayout ==
  ASSUME PaidInv, NEW r \in DOMAIN Rounds, NEW h \in ProjectsOf(r)
  PROVE  LET row == projects_per_round(r)[h]
         IN  /\ row.grants + row.support_grants \in Nat
             /\ Payout(Rounds[r], Project(r, h))
                  - (row.grants + row.support_grants) * UnitOfVote
                  \in 0 .. UnitOfVote - 1
<1> DEFINE row == projects_per_round(r)[h]
           match == Match(Rounds[r], Project(r, h))
           whole == (NumberOfUnitPerVote - FeeRatioPerVote) * VoterPoints(r, h)
           part == match \div UnitOfVote
<1>1. TypeOK /\ r \in RoundIds
  BY DEF PaidInv, TypeOK
<1>2. match \in Nat /\ VoterPoints(r, h) \in Nat
  BY <1>1, PayoutNumbers, ProjectNumbers
<1>3. NumberOfUnitPerVote - FeeRatioPerVote \in Nat /\ UnitOfVote \in Nat
      /\ UnitOfVote > 0
  BY PricesAreNat
<1>4. whole \in Nat /\ Project(r, h).grants = UnitOfVote * whole
  <2>1. Project(r, h).grants = NetUnits * VoterPoints(r, h)
    BY <1>1 DEF PaidInv, GrantsExact
  <2> QED
    BY <1>2, <1>3, <2>1 DEF NetUnits
<1>5. row.grants = Project(r, h).grants \div UnitOfVote
      /\ row.support_grants = part
  BY DEF projects_per_round, Row, RoundOrDefault, Get
<1> HIDE DEF row, match, whole, part
<1>6. /\ (UnitOfVote * whole) \div UnitOfVote = whole
      /\ part \in Nat
      /\ match - UnitOfVote * part \in 0 .. UnitOfVote - 1
  BY <1>2, <1>4, WholeUnits DEF part
<1>7. row.grants = whole /\ row.support_grants = part
  BY <1>4, <1>5, <1>6
<1>8. Payout(Rounds[r], Project(r, h)) = UnitOfVote * whole + match
  BY <1>4 DEF Payout, match
<1>9. (UnitOfVote * whole + match) - (whole + part) * UnitOfVote
        = match - UnitOfVote * part
  <2>1. (whole + part) * UnitOfVote = UnitOfVote * whole + UnitOfVote * part
    BY <1>3, <1>4, <1>6
  <2>2. UnitOfVote * whole \in Nat /\ UnitOfVote * part \in Nat
    BY <1>3, <1>4, <1>6
  <2> QED
    BY <1>2, <2>1, <2>2
<1>10. /\ row.grants + row.support_grants \in Nat
       /\ Payout(Rounds[r], Project(r, h))
            - (row.grants + row.support_grants) * UnitOfVote
            \in 0 .. UnitOfVote - 1
  BY <1>4, <1>6, <1>7, <1>8, <1>9
<1> QED
  BY <1>10 DEF row

\* RanksArePaid for one step.
EndPaysRanks ==
  \A r \in DOMAIN Rounds :
    Rounds[r].ongoing /\ ~Rounds'[r].ongoing /\ RanksAnswered(r) =>
      \A who \in Users :
        LET owned  == {h \in ProjectsOf(r) : Project(r, h).owner = who}
            ranks  == projects_per_round(r)
            shown  == UnitOfVote
                        * SumFunction([h \in owned |->
                            ranks[h].grants + ranks[h].support_grants])
            gained == balances'[who] - balances[who]
        IN  gained \in shown .. shown + (UnitOfVote - 1) * Cardinality(owned)

LEMMA RanksPaidStep ==
  PricesKeepAlive /\ PaidInv /\ [Next]_vars => EndPaysRanks
<1> SUFFICES ASSUME PricesKeepAlive, PaidInv, [Next]_vars,
                    NEW r \in DOMAIN Rounds, NEW who \in Users,
                    Rounds[r].ongoing, ~Rounds'[r].ongoing
             PROVE  LET owned  == {h \in ProjectsOf(r) :
                                     Project(r, h).owner = who}
                        ranks  == projects_per_round(r)
                        shown  == UnitOfVote
                                    * SumFunction([h \in owned |->
                                        ranks[h].grants
                                          + ranks[h].support_grants])
                        gained == balances'[who] - balances[who]
                    IN  gained \in shown .. shown
                                     + (UnitOfVote - 1) * Cardinality(owned)
  BY DEF EndPaysRanks
<1> DEFINE owned == {h \in ProjectsOf(r) : Project(r, h).owner = who}
           ranks == projects_per_round(r)
           a == [h \in owned |-> ranks[h].grants + ranks[h].support_grants]
           e == [h \in owned |-> a[h] * UnitOfVote]
           f == [h \in owned |-> Payout(Rounds[r], Project(r, h)) - e[h]]
           g == [h \in owned |-> Payout(Rounds[r], Project(r, h))]
           dust == UnitOfVote - 1
<1>1. TypeOK /\ owned \subseteq ProjectsOf(r) /\ owned = Owned(r, who)
  BY DEF PaidInv, Owned
<1>2. balances'[who] = balances[who] + Due(r, Owned(r, who))
  BY <1>1, EndedByEndRound, EveryOwnerPaid
<1>3. balances[who] \in Nat
  BY <1>1 DEF TypeOK, AccountIds
<1>4. Due(r, Owned(r, who)) = SumFunction(g)
  BY DEF Due, Owned
<1>5. IsFiniteSet(owned) /\ dust \in Nat /\ UnitOfVote \in Nat
  BY <1>1, ProjectsFinite, FS_Subset, PricesAreNat
<1>6. \A h \in owned :
        /\ a[h] \in Nat
        /\ f[h] \in 0 .. dust
  BY <1>1, RowShowsPayout
<1>7. \A h \in owned : g[h] \in Nat
  BY <1>1, DueNumbers
<1>8. /\ DOMAIN a = owned /\ DOMAIN e = owned /\ DOMAIN f = owned
      /\ DOMAIN g = owned
      /\ \A h \in owned : e[h] = a[h] * UnitOfVote /\ f[h] = g[h] - e[h]
  OBVIOUS
<1>9. SumFunction([h \in owned |-> ranks[h].grants + ranks[h].support_grants])
        = SumFunction(a)
  OBVIOUS
<1> HIDE DEF owned, ranks, a, e, f, g, dust
<1>10. \A h \in owned :
         /\ e[h] \in Nat /\ f[h] \in Nat /\ g[h] = e[h] + f[h]
  BY <1>5, <1>6, <1>7, <1>8
<1>11. SumFunction(e) = SumFunction(a) * UnitOfVote
  BY <1>5, <1>6, <1>8, SumScale
<1>12. SumFunction(g) = SumFunction(e) + SumFunction(f)
  BY <1>5, <1>8, <1>10, SumAdd
<1>13. SumFunction(f) <= dust * Cardinality(owned)
  BY <1>5, <1>6, <1>8, SumBounded
<1>14. /\ SumFunction(a) \in Nat /\ SumFunction(e) \in Nat
       /\ SumFunction(f) \in Nat /\ Cardinality(owned) \in Nat
  BY <1>5, <1>6, <1>8, <1>10, SumType, FS_CardinalityType
<1> DEFINE shown == UnitOfVote * SumFunction(a)
           most == dust * Cardinality(owned)
           gained == balances'[who] - balances[who]
<1>15. shown = SumFunction(e) /\ most \in Nat
  BY <1>5, <1>11, <1>14
<1>16. gained = SumFunction(e) + SumFunction(f)
  BY <1>2, <1>3, <1>4, <1>12, <1>14
<1>17. gained \in shown .. shown + most
  <2> HIDE DEF shown, most, gained
  <2> QED
    BY <1>13, <1>14, <1>15, <1>16 DEF most
<1> QED
  BY <1>9, <1>17 DEF owned, ranks, dust

-----------------------------------------------------------------------------
(* The theorems.                                                           *)

LEMMA PaidInvAlways ==
  ASSUME IssuanceFits
  PROVE  Spec /\ VotesPaid /\ DonationsPaid => []PaidInv
<1> DEFINE Inv == /\ TypeOK /\ ProjectsInv /\ RoundAreaIsSum /\ TaxAccounted
                  /\ IssuanceKept
<1>1. Init => FiniteRounds /\ GrantsExact /\ PoolTaxed
  BY SolventInit DEF Init, NoRounds, EmptyMap, ProjectsOf, GrantsExact, PoolTaxed
<1>2. Inv /\ Inv' /\ FiniteRounds /\ Solvent /\ GrantsExact /\ [Next]_vars
        /\ [VotePaidFor]_vars => GrantsExact'
  <2> SUFFICES ASSUME Inv, Inv', FiniteRounds, Solvent, GrantsExact,
                      [Next]_vars, [VotePaidFor]_vars
               PROVE  GrantsExact'
    OBVIOUS
  <2>1. VotePaidFor
    BY DEF VotePaidFor, vars
  <2> QED
    BY <2>1, GrantsExactStep
<1>3. Inv /\ Inv' /\ PoolTaxed /\ [Next]_vars => PoolTaxed'
  BY PoolTaxedStep
<1>4. Spec => []Inv
  BY RoundsAlways, IssuanceNeverGrows, PTL
<1>5. Inv /\ FiniteRounds /\ Solvent /\ GrantsExact /\ PoolTaxed => PaidInv
  BY DEF PaidInv
<1> HIDE DEF Inv
<1>6. VotesPaid => [][VotePaidFor]_vars
  BY PTL DEF VotesPaid, VotePaidFor
<1> QED
  BY <1>1, <1>2, <1>3, <1>4, <1>5, <1>6, FiniteRoundsStep, SolventWhenPaid, PTL
  DEF Spec

\* When votes and donations were paid for, a round can be ended: none of the
\* numbers that end_round unwraps overflows, and a panic would come back
\* each time the root tries again.  What a project is due is part of what
\* the fund account has, which is part of an issuance that is a u128
\* (lib.rs:225-230).
THEOREM RoundsCanEnd ==
  ASSUME IssuanceFits
  PROVE  Spec /\ VotesPaid /\ DonationsPaid => []PayoutsFit
<1>1. PaidInv => PayoutsFit
  BY CoveredPayoutsFit
<1> QED
  BY <1>1, PaidInvAlways, PTL

\* When votes and donations were paid for, ending a round pays the owner of
\* every project its grants and its share of the pool: no payment fails,
\* although one that does is skipped without an error.  The prices that
\* PricesKeepAlive asks for are needed: a payment below the existential
\* deposit would not reach an owner without an account, and without the tax
\* the last payment would have to kill the fund account (lib.rs:225-240).
THEOREM OwnersPaidInFull ==
  ASSUME PricesKeepAlive, IssuanceFits
  PROVE  Spec /\ VotesPaid /\ DonationsPaid => OwnersPaid
<1>1. PaidInv /\ [Next]_vars => [EndPaysOwners]_vars
  BY OwnersPaidStep
<1>2. [][EndPaysOwners]_vars => OwnersPaid
  BY PTL DEF EndPaysOwners, OwnersPaid
<1> QED
  BY <1>1, <1>2, PaidInvAlways, PTL DEF Spec

\* Under the same conditions the ranks the client was shown last are what
\* the owners are paid when the round ends, up to the fraction of a unit
\* that the division drops from the match of each project: the two pieces
\* of code that compute the shares agree (lib.rs:223-229, 356-369).
THEOREM RanksPaidInFull ==
  ASSUME PricesKeepAlive, IssuanceFits
  PROVE  Spec /\ VotesPaid /\ DonationsPaid => RanksArePaid
<1>1. PaidInv /\ [Next]_vars => [EndPaysRanks]_vars
  BY RanksPaidStep
<1>2. [][EndPaysRanks]_vars => RanksArePaid
  BY PTL DEF EndPaysRanks, RanksArePaid
<1> QED
  BY <1>1, <1>2, PaidInvAlways, PTL DEF Spec

=============================================================================
