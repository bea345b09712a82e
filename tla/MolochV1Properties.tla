------------------------- MODULE MolochV1Properties -------------------------
(***************************************************************************)
(* What makes the DAO pallet correct.  Sums of shares are written as the   *)
(* number of elements of a set that holds one element for each share.      *)
(***************************************************************************)
EXTENDS MolochV1

MemberType == [shares : Number, highest_index_yes_vote : Nat,
               exists : BOOLEAN, delegate_key : AccountIds]

ProposalType ==
  [proposer : AccountIds, applicant : AccountIds, shares_requested : Number,
   starting_period : Number, yes_votes : Number, no_votes : Number,
   processed : BOOLEAN, did_pass : BOOLEAN, aborted : BOOLEAN,
   token_tribute : Number, max_total_shares_at_yes : Number]

\* Every storage item keeps the type it is declared with: no unsigned number
\* leaves its range, neither the requested shares nor a custody record
\* becomes negative, and no account is overdrawn (lib.rs:112-134).
TypeOK ==
  /\ now \in Nat
  /\ SummonTime \in 0 .. now
  /\ settings \in SettingsType
  /\ TotalShares \in Number
  /\ TotalSharesRequested \in Number
  /\ DOMAIN Members \subseteq AccountIds
  /\ Members \in [DOMAIN Members -> MemberType]
  /\ DOMAIN AddressOfDelegates \subseteq AccountIds
  /\ AddressOfDelegates \in [DOMAIN AddressOfDelegates -> AccountIds]
  /\ ProposalQueue \in Seq(ProposalType)
  /\ DOMAIN ProposalVotes \subseteq Nat \X AccountIds
  /\ ProposalVotes \in [DOMAIN ProposalVotes -> {1, 2}]
  /\ DOMAIN ApplicantCustody \subseteq AccountIds
  /\ ApplicantCustody \in [DOMAIN ApplicantCustody -> Number]
  /\ balances \in [AccountIds -> Nat]

-----------------------------------------------------------------------------
(* The queue.                                                              *)

\* The proposals that have been processed are a prefix of the queue: the
\* check of the single predecessor in process_proposal is enough, whatever
\* the settings are changed to (lib.rs:385).
ProcessedInOrder ==
  \A i, j \in Indices : i <= j /\ Proposal(j).processed => Proposal(i).processed

\* Proposals start in different periods, later proposals later, also when
\* another summon has set the period count back to 0 (lib.rs:297-301).
StartingPeriodsIncrease ==
  \A i, j \in Indices :
    i < j => Proposal(i).starting_period < Proposal(j).starting_period

RequestedTokens ==
  UNION {{i} \X (1 .. Proposal(i).shares_requested) :
            i \in {j \in Indices : ~Proposal(j).processed}}

\* TotalSharesRequested is the sum of the requests that are not processed,
\* aborted ones included, so process_proposal's checked_sub of a request
\* never panics and the queue is not stuck there (lib.rs:388).
RequestedSharesAccounted == TotalSharesRequested = Cardinality(RequestedTokens)

\* A processed proposal never changes again: voting, abort and a second
\* processing are over, although submit_vote and abort do not look at the
\* processed flag (lib.rs:325-370, 505-532).
ProcessedIsFinal ==
  [][\A i \in Indices :
       Proposal(i).processed => ProposalQueue'[i + 1] = ProposalQueue[i + 1]]_vars

\* No proposal is both passed and aborted: the applicant does not get the
\* tribute back for shares that were minted (lib.rs:407, 505-532).
NotAbortedAndPassed ==
  \A i \in Indices : ~(Proposal(i).aborted /\ Proposal(i).did_pass)

\* Every submitted proposal is processed in the end: none of the checked
\* operations in process_proposal panics for good on the head of the queue,
\* which would block all the proposals behind it (lib.rs:374-471).
QueueDrains ==
  \A k \in 1 .. MaxProposals :
    Len(ProposalQueue) >= k
      ~> Len(ProposalQueue) >= k /\ ProposalQueue[k].processed

-----------------------------------------------------------------------------
(* Members, shares and votes.                                              *)

\* The address of a member acts for no other member: update_delegate and
\* the key reset of process_proposal never let a delegate key shadow a
\* member's own address (lib.rs:415-433, 539-543).
OwnKey ==
  \A m \in DOMAIN Members \cap DOMAIN AddressOfDelegates :
    AddressOfDelegates[m] = m

HeldShares(S) == UNION {{m} \X (1 .. Members[m].shares) : m \in S}

\* TotalShares is the sum of the members' shares, so that the parts of the
\* guild bank ragequit pays out add up to the bank (lib.rs:256, 437, 492).
SharesConserved == TotalShares = Cardinality(HeldShares(DOMAIN Members))

\* The shares issued and requested never exceed MaxShares, over any sequence
\* of submissions, processings and ragequits (lib.rs:282).
SharesWithinMax == TotalShares + TotalSharesRequested <= MaxShares

VotedYes(m, i) ==
  <<i, m>> \in DOMAIN ProposalVotes /\ ProposalVotes[<<i, m>>] = 1

\* highest_index_yes_vote is never below a proposal the member voted yes
\* on, in whatever order it voted on several (lib.rs:353-357).
YesVotersLocked ==
  \A m \in DOMAIN Members, i \in Indices :
    VotedYes(m, i) => i <= Members[m].highest_index_yes_vote

\* Shares are burned only after every proposal their owner voted yes on has
\* been processed, although ragequit looks at one proposal only
\* (lib.rs:480-484).
RagequitAfterProcessing ==
  [][\A m \in DOMAIN Members :
       Members'[m].shares < Members[m].shares =>
         \A i \in Indices : VotedYes(m, i) => Proposal(i).processed]_vars

YesVoters(i) == {m \in DOMAIN Members : VotedYes(m, i)}

\* Until a proposal is processed its yes votes are backed by shares that its
\* yes voters still hold: no share is counted twice and none is burned in
\* between (lib.rs:342, 352, 480-484).
YesVotesBacked ==
  \A i \in Indices :
    ~Proposal(i).processed =>
      Proposal(i).yes_votes <= Cardinality(HeldShares(YesVoters(i)))

\* Until a proposal is processed its yes votes are at most the total shares
\* recorded for the dilution check, so the check is made against at least
\* the shares that voted for the proposal (lib.rs:358-360, 394).
YesVotesWithinTotal ==
  \A i \in Indices :
    ~Proposal(i).processed =>
      Proposal(i).yes_votes <= Proposal(i).max_total_shares_at_yes

-----------------------------------------------------------------------------
(* Money.                                                                  *)

\* Rewards, deposits and ragequits never reap the guild bank: once it holds
\* the existential deposit it keeps it (lib.rs:457-460, 497).
GuildKeptAlive ==
  [][balances[GuildAccount] >= ExistentialDeposit =>
       balances'[GuildAccount] >= ExistentialDeposit]_vars

-----------------------------------------------------------------------------
(* The queue implements the life cycle of share requests.                  *)

Status(p) ==
  IF p.aborted THEN IF p.processed THEN "withdrawn" ELSE "aborted"
  ELSE IF p.did_pass THEN "passed"
  ELSE IF p.processed THEN "failed"
  ELSE "pending"

Lifecycle ==
  INSTANCE ProposalLifecycle WITH
    Cap      <- MaxShares,
    supply   <- TotalShares,
    requests <- [k \in 1 .. Len(ProposalQueue) |->
                   [status |-> Status(ProposalQueue[k]),
                    shares |-> ProposalQueue[k].shares_requested]]

\* In a founded DAO and a build with overflow checks, submit_proposal,
\* abort, process_proposal and ragequit are the steps of the abstract
\* specification: requests settle once and in order, and shares are issued
\* only by a request that passes.
ImplementsLifecycle == Lifecycle!Spec

-----------------------------------------------------------------------------
(* What a document or a comment says and the code does not do.             *)

\* "anyone can process a proposal, after passing grace period"
\* (doc/test-guide.md:43): a proposal is processed only when the periods for
\* voting and grace since its start have passed.
ProcessedAfterGrace ==
  [][\A i \in Indices :
       ~Proposal(i).processed /\ ProposalQueue'[i + 1].processed =>
         get_current_period >= Proposal(i).starting_period
           + settings.voting_period_length + settings.grace_period_length]_vars

\* "the key responsible for submitting proposals and voting - defaults to
\* member address unless updated" (lib.rs:40): the delegate_key stored for a
\* member is the key that acts for it.
DelegateKeyResponsible ==
  \A m \in DOMAIN Members :
    Get(AddressOfDelegates, Members[m].delegate_key, DefaultAccount) = m

\* "check custody record and balance" (lib.rs:283) and "the tokens in
\* custody account will be transfered to GuildBank if passed, otherwise it
\* will be returned to the applicant" (README.md:13): the custody account
\* covers the tributes of all the proposals that are not processed.
PendingTributes ==
  UNION {{i} \X (1 .. Proposal(i).token_tribute) :
            i \in {j \in Indices : ~Proposal(j).processed}}

CustodyCoversPending ==
  balances[CustodyAccount] >= Cardinality(PendingTributes)

=============================================================================
