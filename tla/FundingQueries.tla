---------------------------- MODULE FundingQueries ----------------------------
(***************************************************************************)
(* The two questions a client can ask the funding pallet: the price of a   *)
(* vote and the ranks of a round.  A query goes from the RPC of the node   *)
(* (rpc/src/lib.rs) through the runtime API to two functions of the pallet *)
(* and is answered from the storage at the best block.  The answers are    *)
(* narrowed to u32; a panic in the runtime, a conversion that fails among  *)
(* others, reaches the client as an error: the query is not answered.      *)
(***************************************************************************)
EXTENDS QuadraticFunding

CONSTANT U32              \* 2^32 in the code

ASSUME QueryAssumption == U32 \in Nat \ {0}

FitsU32(n) == n < U32

-----------------------------------------------------------------------------
(* The price of ballot more votes of who, in points.                       *)

vote_cost_M(who, r, h, ballot) ==
  cal_cost(Get(ProjectVotes, <<VoteHash_M(r, h), who>>, 0), ballot)

vote_cost(who, r, h, ballot) == cal_cost(Voted(who, r, h), ballot)

VoteCostAnswered(who, r, h, ballot) ==
  LET cost == vote_cost(who, r, h, ballot)
  IN  {ballot * (ballot + 1), cost} \subseteq Number /\ FitsU32(cost)

-----------------------------------------------------------------------------
(* The ranks of a round: a row for each project, in units of a vote.  The  *)
(* round need not exist; one bad row fails the whole answer.               *)

RoundOrDefault(r) == Get(Rounds, r, [NewRound EXCEPT !.ongoing = FALSE])

Row_M(round, project) ==
  [total_votes |-> project.total_votes,
   grants |-> project.grants \div UnitOfVote,
   support_grants |-> Match_M(round, project) \div UnitOfVote]

Row(round, project) ==
  [total_votes |-> project.total_votes,
   grants |-> project.grants \div UnitOfVote,
   support_grants |-> Match(round, project) \div UnitOfVote]

projects_per_round(r) ==
  [h \in ProjectsOf(r) |-> Row(RoundOrDefault(r), Project(r, h))]

RowDefined(round, project) ==
  LET row == Row(round, project)
  IN  /\ Match(round, project) \in Number
      /\ \A field \in DOMAIN row : FitsU32(row[field])

RanksAnswered(r) ==
  \A h \in ProjectsOf(r) : RowDefined(RoundOrDefault(r), Project(r, h))

=============================================================================
