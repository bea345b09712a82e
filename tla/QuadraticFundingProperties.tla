--------------------- MODULE QuadraticFundingProperties ---------------------
(***************************************************************************)
(* What makes the funding pallet correct: the numbers it keeps up to date  *)
(* vote by vote are the ones the formula of quadratic funding gives for    *)
(* the votes as a whole, and the fund account can pay them.                *)
(***************************************************************************)
EXTENDS FundingQueries, Functions

ProjectType == [total_votes : Number, grants : Number, support_area : Number,
                owner : Users]

RoundType == [ongoing : BOOLEAN, support_pool : Number,
              pre_tax_support_pool : Number, total_support_area : Number,
              total_tax : Number]

\* Every storage item keeps the type it is declared with: no number leaves
\* its range, in particular not by the plain additions of vote, and no
\* account is overdrawn (lib.rs:23-40, 93-104, 288-293).
TypeOK ==
  /\ DOMAIN Rounds \subseteq RoundIds
  /\ Rounds \in [DOMAIN Rounds -> RoundType]
  /\ DOMAIN Projects \subseteq RoundIds \X Hashes
  /\ Projects \in [DOMAIN Projects -> ProjectType]
  /\ DOMAIN ProjectVotes \subseteq (RoundIds \X Hashes) \X Users
  /\ ProjectVotes \in [DOMAIN ProjectVotes -> Number]
  /\ balances \in [AccountIds -> Nat]

-----------------------------------------------------------------------------
(* The votes.                                                              *)

Votes(who, r, h) == Get(ProjectVotes, <<<<r, h>>, who>>, 0)

SumOfVotes(r, h) == SumFunction([who \in Users |-> Votes(who, r, h)])

\* The votes of a project are those its voters bought, in this round only:
\* the vote hash keeps the rounds apart and vote updates the two maps alike
\* (lib.rs:279, 288, 292).
VotesAddUp ==
  \A r \in RoundIds : \A h \in ProjectsOf(r) :
    Project(r, h).total_votes = SumOfVotes(r, h)

SumOfSquares(r, h) ==
  SumFunction([who \in Users |-> Votes(who, r, h) * Votes(who, r, h)])

\* The support area of a project is the sum, over the pairs of different
\* voters, of their votes multiplied: the square of the sum of the votes
\* less the sum of their squares counts each pair twice.  It depends on how
\* many votes each voter bought and not on the order, or in how many calls,
\* they were bought (lib.rs:290-291).
AreaIsPairs ==
  \A r \in RoundIds : \A h \in ProjectsOf(r) :
    2 * Project(r, h).support_area
      = SumOfVotes(r, h) * SumOfVotes(r, h) - SumOfSquares(r, h)

\* The support area of a round is the sum over its projects, so that the
\* shares of the pool are parts of a whole (lib.rs:297-299).
RoundAreaIsSum ==
  \A r \in DOMAIN Rounds :
    Rounds[r].total_support_area
      = SumFunction([h \in ProjectsOf(r) |-> Project(r, h).support_area])

-----------------------------------------------------------------------------
(* The accounts.                                                           *)

\* v votes cost 1 + 2 + ... + v points, bought in one call or in many.
Points(v) == (v * (v + 1)) \div 2

VoterPoints(r, h) ==
  SumFunction([who \in Users |-> Points(Votes(who, r, h))])

\* The grants of a project are the net price of its votes, which depends on
\* the votes of each voter and not on the calls they were bought with;
\* modulo 2^128, because the sum is a plain addition that wraps around in a
\* release build when votes are counted that nobody could pay for
\* (lib.rs:293, 320-335).
GrantsAreCost ==
  \A r \in RoundIds : \A h \in ProjectsOf(r) :
    Project(r, h).grants
      = (UnitOfVote * (NumberOfUnitPerVote - FeeRatioPerVote)
           * VoterPoints(r, h)) % U128

\* The tax of a round is what was kept from its donations and from the
\* price of the votes for its projects (lib.rs:189-191, 300).
TaxAccounted ==
  \A r \in DOMAIN Rounds :
    Rounds[r].total_tax
      = Rounds[r].pre_tax_support_pool - Rounds[r].support_pool
        + UnitOfVote * FeeRatioPerVote
            * SumFunction([h \in ProjectsOf(r) |-> VoterPoints(r, h)])

MatchOf(r) ==
  SumFunction([h \in ProjectsOf(r) |-> Match(Rounds[r], Project(r, h))])

\* The projects of a round share no more than its pool, and when there is a
\* support area at all they leave less of it than the size of that area
\* (lib.rs:223-229).
MatchWithinPool ==
  \A r \in DOMAIN Rounds :
    /\ MatchOf(r) <= Rounds[r].support_pool
    /\ Rounds[r].total_support_area > 0 =>
         Rounds[r].support_pool - MatchOf(r) < Rounds[r].total_support_area

\* Once a round has ended neither it nor its projects change, it is not
\* started again, and the votes for its projects stay: what was paid out
\* remains what the storage shows (lib.rs:177, 202, 222, 276).
EndedRoundFrozen ==
  [][\A r \in DOMAIN Rounds :
       ~Rounds[r].ongoing =>
         /\ Rounds'[r] = Rounds[r]
         /\ \A h \in ProjectsOf(r) : Projects'[<<r, h>>] = Project(r, h)
         /\ \A who \in Users, h \in Hashes :
              Votes(who, r, h)' = Votes(who, r, h)]_vars

-----------------------------------------------------------------------------
(* The money.  These hold when the accounts can pay what they vote and     *)
(* donate; vote and donate do not see to it.                               *)

\* What the ongoing rounds still owe to projects and what all rounds keep.
Owed(r) ==
  Rounds[r].total_tax
    + IF Rounds[r].ongoing
      THEN Rounds[r].support_pool
             + SumFunction([h \in ProjectsOf(r) |-> Project(r, h).grants])
      ELSE 0

\* The fund account covers the tax of all rounds and the pools and grants
\* of the ongoing ones, although all rounds are paid out of one account.  As
\* long as it does, no payout exceeds the money there is, so none overflows
\* and makes end_round panic (lib.rs:183, 226-239, 285).
Solvent ==
  balances[FundAccount] >= SumFunction([r \in DOMAIN Rounds |-> Owed(r)])

\* Ending a round pays the owner of every project its grants and its share
\* of the pool: no payment fails, also the last one that KeepAlive guards,
\* and the loop does not stop half way (lib.rs:225-240).
OwnersPaid ==
  [][\A r \in DOMAIN Rounds :
       Rounds[r].ongoing /\ ~Rounds'[r].ongoing =>
         \A who \in Users :
           balances'[who] = balances[who]
             + SumFunction(
                 [h \in {k \in ProjectsOf(r) : Project(r, k).owner = who} |->
                    Project(r, h).grants
                      + IF Project(r, h).support_area = 0 THEN 0
                        ELSE Project(r, h).support_area
                               * (Rounds[r].support_pool
                                    \div Rounds[r].total_support_area)])]_vars

\* The ranks the client was shown last are what the owners are paid when the
\* round ends, up to the fraction of a unit that the division drops from the
\* match of each project (grants are whole units): projects_per_round and
\* end_round are two pieces of code that compute the same shares
\* (lib.rs:223-229, 356-369).
RanksArePaid ==
  [][\A r \in DOMAIN Rounds :
       Rounds[r].ongoing /\ ~Rounds'[r].ongoing /\ RanksAnswered(r) =>
         \A who \in Users :
           LET owned  == {h \in ProjectsOf(r) : Project(r, h).owner = who}
               ranks  == projects_per_round(r)
               shown  == UnitOfVote
                           * SumFunction([h \in owned |->
                               ranks[h].grants + ranks[h].support_grants])
               gained == balances'[who] - balances[who]
           IN  gained \in shown .. shown + (UnitOfVote - 1)
                                            * Cardinality(owned)]_vars

-----------------------------------------------------------------------------
(* What a comment says and the code does not do.                           *)

\* "transfer first, update last, as transfer will ensure the free balance
\* is enough" (lib.rs:284): votes are counted only if they are paid for.
VotesPaid ==
  [][ProjectVotes' # ProjectVotes =>
       balances'[FundAccount] > balances[FundAccount]]_vars

\* The same of donate, which has no such comment: a pool grows only with the
\* fund account (lib.rs:183-192).
DonationsPaid ==
  [][\A r \in DOMAIN Rounds :
       Rounds'[r].pre_tax_support_pool > Rounds[r].pre_tax_support_pool =>
         balances'[FundAccount] > balances[FundAccount]]_vars

=============================================================================
