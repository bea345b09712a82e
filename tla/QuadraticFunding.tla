-------------------------- MODULE QuadraticFunding --------------------------
(***************************************************************************)
(* The funding pallet, pallets/quadratic-funding/src/lib.rs.  The root     *)
(* starts and ends rounds; anybody registers projects, buys votes for them *)
(* at a price that grows with the square of the votes, and donates to the  *)
(* pool of a round.  When a round ends each project's owner is paid the    *)
(* net price of its votes and a share of the pool that is proportional to  *)
(* its support area.                                                       *)
(*                                                                         *)
(* As in MolochV1, every call is one action, guarded by its ensure!        *)
(* conditions and by the arithmetic that would panic, and an operator with *)
(* a name in _M is a faulty variant of the one below it, used by no        *)
(* action.  The name of a project, whose length register_project checks,   *)
(* is left out; so is the field withdrew, which nothing writes.            *)
(***************************************************************************)
EXTENDS Integers, FiniteSets, Balances, Storage, Unsigned

CONSTANTS
  Users,                  \* the accounts that sign calls
  FundAccount,            \* account_id() of the pallet
  Endowment,              \* the users' balances at genesis
  UnitOfVote,             \* the constants of trait Config
  NumberOfUnitPerVote,
  FeeRatioPerVote,
  RoundIds,               \* the round_id arguments
  LastHash,               \* the project hashes are numbered from 1 to this,
                          \* in the order in which iter_prefix visits them
  Ballots,                \* the ballot arguments of vote
  Donations,              \* the amount arguments of donate
  MaxVotes,               \* bound on the votes of a project
  MaxDonated              \* bound on the donations to a round

Hashes == 1 .. LastHash

AccountIds == Users \cup {FundAccount}

ASSUME FundAssumption ==
  /\ IsFiniteSet(Users)
  /\ FundAccount \notin Users
  /\ Endowment \in [Users -> Nat]

ASSUME PriceAssumption ==
  /\ {UnitOfVote, NumberOfUnitPerVote, FeeRatioPerVote} \subseteq Nat \ {0}
  /\ FeeRatioPerVote < NumberOfUnitPerVote
  /\ UnitOfVote * NumberOfUnitPerVote < U128

ASSUME RequestAssumption ==
  /\ LastHash \in Nat
  /\ Ballots \subseteq Number
  /\ Donations \subseteq Number
  /\ MaxVotes \in Number
  /\ MaxDonated \in Nat

VARIABLES
  Rounds,                 \* round_id |-> Round
  Projects,               \* <<round_id, hash>> |-> Project
  ProjectVotes,           \* <<vote hash, account>> |-> votes bought
  balances                \* free balance of every account

vars == <<Rounds, Projects, ProjectVotes, balances>>

-----------------------------------------------------------------------------
(* Prices.                                                                 *)

cal_cost_M(voted, ballot) == (ballot * (ballot + 1)) \div 2

\* The points that ballot more votes cost an account that has voted before.
cal_cost(voted, ballot) == (ballot * (ballot + 1)) \div 2 + ballot * voted

\* What that many points cost, or the fee included in the price.
cal_amount(points, is_fee) ==
  UnitOfVote * (IF is_fee THEN FeeRatioPerVote ELSE NumberOfUnitPerVote)
    * points

DonationFee(amount) == FeeRatioPerVote * (amount \div NumberOfUnitPerVote)

-----------------------------------------------------------------------------
(* Rounds and projects.                                                    *)

NoRounds ==
  /\ Rounds = EmptyMap
  /\ Projects = EmptyMap
  /\ ProjectVotes = EmptyMap

Init ==
  /\ NoRounds
  /\ balances = [a \in AccountIds |-> IF a \in Users THEN Endowment[a] ELSE 0]

Ongoing_M(r) == r \in DOMAIN Rounds

Ongoing(r) == r \in DOMAIN Rounds /\ Rounds[r].ongoing

\* The hash of round and project that the votes are stored under, so that
\* the same project has votes of its own in every round.
VoteHash_M(r, h) == <<0, h>>

VoteHash(r, h) == <<r, h>>

Voted(who, r, h) == Get(ProjectVotes, <<VoteHash(r, h), who>>, 0)

Project(r, h) == Projects[<<r, h>>]

ProjectsOf(r) == {h \in Hashes : <<r, h>> \in DOMAIN Projects}

NewRound == [ongoing |-> TRUE, support_pool |-> 0, pre_tax_support_pool |-> 0,
             total_support_area |-> 0, total_tax |-> 0]

NewProject(owner) ==
  [total_votes |-> 0, grants |-> 0, support_area |-> 0, owner |-> owner]

-----------------------------------------------------------------------------
(* start_round: the root only.                                             *)

UnusedRound(r) == r \notin DOMAIN Rounds

StartRound(r) ==
  /\ UnusedRound(r)
  /\ Rounds' = Put(Rounds, r, NewRound)
  /\ UNCHANGED <<Projects, ProjectVotes, balances>>

-----------------------------------------------------------------------------
(* register_project: no look at the round.                                 *)

UnusedProject(r, h) == <<r, h>> \notin DOMAIN Projects

RegisterProject(who, r, h) ==
  /\ UnusedProject(r, h)
  /\ Projects' = Put(Projects, <<r, h>>, NewProject(who))
  /\ UNCHANGED <<Rounds, ProjectVotes, balances>>

-----------------------------------------------------------------------------
(* donate: the pool grows whether or not the transfer succeeded.           *)

RoundAfterDonation_M(round, amount) ==
  [round EXCEPT !.pre_tax_support_pool = @ + amount,
                !.support_pool = @ + amount,
                !.total_tax = @ + DonationFee(amount)]

RoundAfterDonation(round, amount) ==
  [round EXCEPT !.pre_tax_support_pool = @ + amount,
                !.support_pool = @ + (amount - DonationFee(amount)),
                !.total_tax = @ + DonationFee(amount)]

Donate(who, r, amount) ==
  /\ Ongoing(r)
  /\ Rounds[r].pre_tax_support_pool + amount <= MaxDonated
  /\ DonationFee(amount) \in Number
  /\ amount > cal_amount(1, FALSE)
  /\ LET round == RoundAfterDonation(Rounds[r], amount)
     IN  /\ {round.pre_tax_support_pool, round.support_pool, round.total_tax}
              \subseteq Number
         /\ Rounds' = [Rounds EXCEPT ![r] = round]
  /\ balances' = Transfer(balances, who, FundAccount, amount, KeepAlive)
  /\ UNCHANGED <<Projects, ProjectVotes>>

-----------------------------------------------------------------------------
(* vote: the votes count whether or not the transfer succeeded.            *)

NewArea_M(ballot, total_votes, voted) == ballot * total_votes

\* The new votes are paired with those of everybody else.
NewArea(ballot, total_votes, voted) == ballot * Sub(total_votes, voted)

\* No operation of vote panics.
VoteDefined(project, voted, ballot) ==
  LET cost   == cal_cost(voted, ballot)
      amount == cal_amount(cost, FALSE)
      fee    == cal_amount(cost, TRUE)
      area   == NewArea(ballot, project.total_votes, voted)
  IN  /\ {ballot * (ballot + 1), cost, amount, fee} \subseteq Number
      /\ AddDefined(ballot, voted)
      /\ SubDefined(project.total_votes, voted)
      /\ project.support_area + area \in Number
      /\ AddDefined(project.total_votes, ballot)
      /\ AddDefined(project.grants, amount - fee)

ProjectAfterVote(project, ballot, area, net) ==
  [project EXCEPT !.support_area = @ + area,
                  !.total_votes = Add(@, ballot),
                  !.grants = Add(@, net)]

RoundAfterVote_M(round, area, fee) ==
  [round EXCEPT !.total_support_area = area, !.total_tax = @ + fee]

RoundAfterVote_M2(round, area, fee) ==
  [round EXCEPT !.total_support_area = @ + area]

RoundAfterVote(round, area, fee) ==
  [round EXCEPT !.total_support_area = @ + area, !.total_tax = @ + fee]

Vote(who, r, h, ballot) ==
  /\ <<r, h>> \in DOMAIN Projects
  /\ ballot > 0
  /\ Ongoing(r)
  /\ Project(r, h).total_votes + ballot <= MaxVotes
  /\ VoteDefined(Project(r, h), Voted(who, r, h), ballot)
  /\ LET voted  == Voted(who, r, h)
         cost   == cal_cost(voted, ballot)
         amount == cal_amount(cost, FALSE)
         fee    == cal_amount(cost, TRUE)
         area   == NewArea(ballot, Project(r, h).total_votes, voted)
         round  == RoundAfterVote(Rounds[r], area, fee)
     IN  /\ {round.total_support_area, round.total_tax} \subseteq Number
         /\ Rounds' = [Rounds EXCEPT ![r] = round]
         /\ Projects' = [Projects EXCEPT
              ![<<r, h>>] = ProjectAfterVote(@, ballot, area, amount - fee)]
         /\ ProjectVotes' = Put(ProjectVotes, <<VoteHash(r, h), who>>,
                                Add(ballot, voted))
         /\ balances' = Transfer(balances, who, FundAccount, amount, KeepAlive)

-----------------------------------------------------------------------------
(* end_round: the root only.  The payments are made one after the other    *)
(* and one that fails is skipped.  The match is added to a copy of the     *)
(* project that is not written back.                                       *)

Match_M(round, project) ==
  IF round.total_support_area = 0 THEN 0
  ELSE project.support_area
         * (round.pre_tax_support_pool \div round.total_support_area)

\* The share of the pool for the support area of the project.
Match(round, project) ==
  IF round.total_support_area = 0 THEN 0
  ELSE project.support_area
         * (round.support_pool \div round.total_support_area)

Payout_M(round, project) == project.grants

Payout(round, project) == project.grants + Match(round, project)

BalancesAfterEnd(r) ==
  LET paid[h \in 0 .. LastHash] ==
        IF h = 0 THEN balances
        ELSE IF h \notin ProjectsOf(r) THEN paid[h - 1]
        ELSE Transfer(paid[h - 1], FundAccount, Project(r, h).owner,
                      Payout(Rounds[r], Project(r, h)), KeepAlive)
  IN  paid[LastHash]

EndRound(r) ==
  /\ Ongoing(r)
  /\ \A h \in ProjectsOf(r) : Payout(Rounds[r], Project(r, h)) \in Number
  /\ balances' = BalancesAfterEnd(r)
  /\ Rounds' = [Rounds EXCEPT ![r].ongoing = FALSE]
  /\ UNCHANGED <<Projects, ProjectVotes>>

-----------------------------------------------------------------------------

Next ==
  \/ \E r \in RoundIds : StartRound(r) \/ EndRound(r)
  \/ \E who \in Users, r \in RoundIds, h \in Hashes :
       RegisterProject(who, r, h)
  \/ \E who \in Users, r \in RoundIds, n \in Donations : Donate(who, r, n)
  \/ \E who \in Users, r \in RoundIds, h \in Hashes, n \in Ballots :
       Vote(who, r, h, n)

Spec == Init /\ [][Next]_vars

=============================================================================
