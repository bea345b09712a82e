------------------------------ MODULE MolochV1 ------------------------------
(***************************************************************************)
(* The DAO pallet, pallets/moloch-v1/src/lib.rs: members hold shares, vote *)
(* on a queue of proposals that mint shares for an applicant's tribute,    *)
(* and may burn their shares for a part of the guild bank.                 *)
(*                                                                         *)
(* The runtime executes one extrinsic at a time and every call is one      *)
(* action: its ensure! conditions and the arithmetic that would panic are  *)
(* its guard, because a refused or panicking call leaves no state behind,  *)
(* and all ensure! precede the first write.  The operators before an       *)
(* action are the decisions and updates the action is made of.             *)
(*                                                                         *)
(* An operator whose name ends in _M and the line above which it stands    *)
(* belong together: it is a faulty variant of the operator below it, used  *)
(* to confirm that the checked properties notice the fault.  No action     *)
(* uses it.                                                                *)
(***************************************************************************)
EXTENDS Integers, Sequences, FiniteSets, Balances, Storage, Unsigned

CONSTANTS
  Users,                  \* the accounts that sign calls
  GuildAccount,           \* account_id(): the guild bank
  CustodyAccount,         \* custody_account(): tributes of applicants
  DefaultAccount,         \* AccountId::default()
  Endowment,              \* the users' balances at genesis
  MaxVotingPeriodLength,  \* the limits of trait Config
  MaxGracePeriodLength,
  MaxDilutionBound,
  MaxShares,
  BlockTime,              \* milliseconds between two blocks
  SummonSettings,         \* the arguments summon is called with
  Tributes,               \* the token_tribute arguments
  ShareRequests,          \* the shares_requested arguments
  DelegateKeys,           \* the delegate_key arguments
  MaxTime,                \* bound on the clock
  MaxSummonTime,          \* bound on the time of a summon
  MaxProposals,           \* bound on the length of the queue
  MaxStartingPeriod       \* bound on the period a new proposal starts in

AccountIds == Users \cup {GuildAccount, CustodyAccount, DefaultAccount}

SettingsType ==
  [period_duration : Number, voting_period_length : Number,
   grace_period_length : Number, abort_window : Number,
   dilution_bound : Number, proposal_deposit : Number,
   processing_reward : Number]

ASSUME AccountAssumption ==
  /\ GuildAccount # CustodyAccount
  /\ DefaultAccount \notin {GuildAccount, CustodyAccount}
  /\ Users \cap {GuildAccount, CustodyAccount} = {}
  /\ Endowment \in [Users -> Nat]

ASSUME NumberAssumption ==
  /\ {MaxVotingPeriodLength, MaxGracePeriodLength,
      MaxDilutionBound, MaxShares} \subseteq Number
  /\ MaxShares > 0
  /\ BlockTime \in Nat \ {0}

ASSUME InputAssumption ==
  /\ SummonSettings \subseteq SettingsType
  /\ Tributes \subseteq Number
  /\ ShareRequests \subseteq Number
  /\ DelegateKeys \subseteq AccountIds
  /\ MaxTime \in Nat
  /\ MaxSummonTime \in Nat
  /\ MaxProposals \in Nat
  /\ MaxStartingPeriod \in Number

VARIABLES
  now,                  \* pallet_timestamp, in milliseconds
  SummonTime,
  settings,             \* the seven items summon stores its arguments in
  TotalShares,
  TotalSharesRequested,
  Members,
  AddressOfDelegates,   \* key |-> the member it acts for
  ProposalQueue,        \* the proposal with index i is ProposalQueue[i + 1]
  ProposalVotes,        \* <<proposal index, member>> |-> 1 (yes) or 2 (no)
  ApplicantCustody,     \* applicant |-> the tribute on record
  balances              \* free balance of every account

clock == <<now, SummonTime, settings>>
shares == <<TotalShares, TotalSharesRequested>>
membership == <<Members, AddressOfDelegates>>
queue == <<ProposalQueue, ProposalVotes>>
vars == <<clock, shares, membership, queue, ApplicantCustody, balances>>

-----------------------------------------------------------------------------
(* Members, proposals and the clock.                                       *)

NoMember == [shares |-> 0, highest_index_yes_vote |-> 0, exists |-> FALSE,
             delegate_key |-> DefaultAccount]

NewMember(who, n) == [shares |-> n, highest_index_yes_vote |-> 0,
                      exists |-> TRUE, delegate_key |-> who]

MemberAt(who) == Get(Members, who, NoMember)

Indices == 0 .. Len(ProposalQueue) - 1

Proposal(i) == ProposalQueue[i + 1]

\* summon with a period_duration of 0 leaves get_current_period dividing by it.
PeriodDefined == settings.period_duration > 0

get_current_period ==
  ((now - SummonTime) \div 1000) \div settings.period_duration

\* The storage before the first summon.
Unsummoned ==
  /\ now = 0
  /\ SummonTime = 0
  /\ settings = [period_duration |-> 0, voting_period_length |-> 0,
                 grace_period_length |-> 0, abort_window |-> 0,
                 dilution_bound |-> 0, proposal_deposit |-> 0,
                 processing_reward |-> 0]
  /\ TotalShares = 0
  /\ TotalSharesRequested = 0
  /\ Members = EmptyMap
  /\ AddressOfDelegates = EmptyMap
  /\ ProposalQueue = << >>
  /\ ProposalVotes = EmptyMap
  /\ ApplicantCustody = EmptyMap

Init ==
  /\ Unsummoned
  /\ balances = [a \in AccountIds |-> IF a \in Users THEN Endowment[a] ELSE 0]

-----------------------------------------------------------------------------
(* summon: open to every account, any number of times.                     *)

ValidSettings(s) ==
  /\ s.voting_period_length <= MaxVotingPeriodLength
  /\ s.grace_period_length <= MaxGracePeriodLength
  /\ s.dilution_bound <= MaxDilutionBound
  /\ s.abort_window <= s.voting_period_length
  /\ s.proposal_deposit >= s.processing_reward

Summon(who, s) ==
  /\ now <= MaxSummonTime
  /\ ValidSettings(s)
  /\ SummonTime' = now
  /\ settings' = s
  /\ Members' = Put(Members, who, NewMember(who, 1))
  /\ AddressOfDelegates' = Put(AddressOfDelegates, who, who)
  /\ TotalShares' = 1
  /\ UNCHANGED <<now, TotalSharesRequested, queue, ApplicantCustody, balances>>

-----------------------------------------------------------------------------
(* custody: the record is written whether or not the transfer succeeded,   *)
(* and replaces an earlier one.                                            *)

Custody(who, tribute) ==
  /\ balances' = Transfer(balances, who, CustodyAccount, tribute, KeepAlive)
  /\ ApplicantCustody' = Put(ApplicantCustody, who, tribute)
  /\ UNCHANGED <<clock, shares, membership, queue>>

-----------------------------------------------------------------------------
(* submit_proposal.                                                        *)

\* who is a key of a member that still holds shares.
ActsForMember(who) ==
  /\ who \in DOMAIN AddressOfDelegates
  /\ MemberAt(AddressOfDelegates[who]).shares > 0

FitsMaxShares_M(n) == TotalShares + n <= MaxShares

\* The n new shares fit beside those issued and those already requested.
FitsMaxShares(n) == TotalShares + TotalSharesRequested + n <= MaxShares

TributeInCustody(applicant, tribute) ==
  /\ applicant \in DOMAIN ApplicantCustody
  /\ balances[CustodyAccount] >= tribute

StartingPeriod_M == get_current_period + 1

\* One period after the later of now and the start of the last proposal.
StartingPeriod ==
  LET n    == Len(ProposalQueue)
      last == IF n = 0 THEN 0 ELSE ProposalQueue[n].starting_period
  IN  (IF last > get_current_period THEN last ELSE get_current_period) + 1

NewProposal(proposer, applicant, tribute, n) ==
  [proposer |-> proposer, applicant |-> applicant, shares_requested |-> n,
   starting_period |-> StartingPeriod, yes_votes |-> 0, no_votes |-> 0,
   processed |-> FALSE, did_pass |-> FALSE, aborted |-> FALSE,
   token_tribute |-> tribute, max_total_shares_at_yes |-> 0]

\* The caller pays, also when it acts for another member.
DepositPaid(who) == Transfer(balances, who, GuildAccount,
                             settings.proposal_deposit, KeepAlive)

SubmitProposal(who, applicant, tribute, n) ==
  /\ Len(ProposalQueue) < MaxProposals
  /\ ActsForMember(who)
  /\ FitsMaxShares(n)
  /\ TributeInCustody(applicant, tribute)
  /\ PeriodDefined
  /\ StartingPeriod <= MaxStartingPeriod
  /\ TotalSharesRequested' = TotalSharesRequested + n
  /\ balances' = DepositPaid(who)
  /\ ProposalQueue' =
       Append(ProposalQueue,
              NewProposal(AddressOfDelegates[who], applicant, tribute, n))
  /\ UNCHANGED <<clock, TotalShares, membership, ProposalVotes, ApplicantCustody>>

-----------------------------------------------------------------------------
(* submit_vote.  An already processed proposal is not refused.             *)

VotingOpen_M(p) == get_current_period >= p.starting_period

VotingOpen(p) ==
  /\ get_current_period >= p.starting_period
  /\ get_current_period < settings.voting_period_length + p.starting_period

HasVoted_M(member, i) == FALSE

HasVoted(member, i) == <<i, member>> \in DOMAIN ProposalVotes

RaiseHighest_M(m, i) == [m EXCEPT !.highest_index_yes_vote = i]

RaiseHighest(m, i) ==
  IF i > m.highest_index_yes_vote
  THEN [m EXCEPT !.highest_index_yes_vote = i] ELSE m

RaiseMaxTotal_M(max) == IF max = 0 THEN TotalShares ELSE max

RaiseMaxTotal(max) == IF TotalShares > max THEN TotalShares ELSE max

VoteYes(member, i) ==
  LET m == Members[member] IN
  /\ Proposal(i).yes_votes + m.shares \in Number
  /\ ProposalQueue' = [ProposalQueue EXCEPT
       ![i + 1].yes_votes = @ + m.shares,
       ![i + 1].max_total_shares_at_yes = RaiseMaxTotal(@)]
  /\ Members' = [Members EXCEPT ![member] = RaiseHighest(m, i)]
  /\ ProposalVotes' = Put(ProposalVotes, <<i, member>>, 1)

VoteNo(member, i) ==
  LET m == Members[member] IN
  /\ Proposal(i).no_votes + m.shares \in Number
  /\ ProposalQueue' = [ProposalQueue EXCEPT ![i + 1].no_votes = @ + m.shares]
  /\ ProposalVotes' = Put(ProposalVotes, <<i, member>>, 2)
  /\ UNCHANGED Members

SubmitVote(who, i) ==
  /\ ActsForMember(who)
  /\ PeriodDefined
  /\ VotingOpen(Proposal(i))
  /\ ~HasVoted(AddressOfDelegates[who], i)
  /\ ~Proposal(i).aborted
  /\ \/ VoteYes(AddressOfDelegates[who], i)
     \/ VoteNo(AddressOfDelegates[who], i)
  /\ UNCHANGED <<clock, shares, AddressOfDelegates, ApplicantCustody, balances>>

-----------------------------------------------------------------------------
(* process_proposal: open to every account, which is paid for it.          *)

\* now - voting - grace >= start, in two plain subtractions.
Ready(p) ==
  LET c == get_current_period
      v == settings.voting_period_length
      g == settings.grace_period_length
  IN  /\ SubDefined(c, v)
      /\ SubDefined(Sub(c, v), g)
      /\ Sub(Sub(c, v), g) >= p.starting_period

PreviousProcessed_M(i) == TRUE

PreviousProcessed(i) == i > 0 => Proposal(i - 1).processed

NotProcessed_M(p) == TRUE

NotProcessed_M2(p) == ~p.processed /\ ~p.aborted

NotProcessed(p) == ~p.processed

RequestedWithout_M(p) ==
  IF p.aborted THEN TotalSharesRequested
  ELSE TotalSharesRequested - p.shares_requested

\* TotalSharesRequested after the proposal, aborted or not, is processed.
RequestedWithout(p) == TotalSharesRequested - p.shares_requested

Diluted(p) ==
  TotalShares * settings.dilution_bound < p.max_total_shares_at_yes

\* The proposal passes: more yes than no votes, no dilution beyond the
\* bound, a record of the applicant and enough money in the custody account
\* (whoever it belongs to), and no abort.
Passes(p) ==
  /\ p.yes_votes > p.no_votes
  /\ ~Diluted(p)
  /\ TributeInCustody(p.applicant, p.token_tribute)
  /\ ~p.aborted

\* The applicant's address is the delegate key of somebody: the member it
\* acts for is reset to its own key.  Members::mutate creates that member
\* when it does not exist.
WithKeyReset(applicant) ==
  IF applicant \in DOMAIN AddressOfDelegates
  THEN LET d == AddressOfDelegates[applicant]
       IN  Put(Members, d, [MemberAt(d) EXCEPT !.delegate_key = d])
  ELSE Members

MembersAfterPass_M(a, n) == Put(WithKeyReset(a), a, NewMember(a, n))

MembersAfterPass(a, n) ==
  IF a \in DOMAIN Members
  THEN [Members EXCEPT ![a].shares = @ + n]
  ELSE Put(WithKeyReset(a), a, NewMember(a, n))

DelegatesAfterPass(a) ==
  IF a \in DOMAIN Members
  THEN AddressOfDelegates
  ELSE Put(IF a \in DOMAIN AddressOfDelegates
           THEN Put(AddressOfDelegates, AddressOfDelegates[a],
                    AddressOfDelegates[a])
           ELSE AddressOfDelegates,
           a, a)

GuildPays_M(b, to, value) == Transfer(b, GuildAccount, to, value, AllowDeath)

GuildPays(b, to, value) == Transfer(b, GuildAccount, to, value, KeepAlive)

BalancesAfterProcess_M(who, p, beneficiary) ==
  LET tributed == Transfer(balances, CustodyAccount, beneficiary,
                           p.token_tribute, AllowDeath)
      rewarded == GuildPays(tributed, who, settings.processing_reward)
  IN  Transfer(rewarded, p.proposer, GuildAccount,
               Sub(settings.proposal_deposit, settings.processing_reward),
               KeepAlive)

\* The custody account pays the tribute out, then the guild bank pays the
\* reward to the caller and the rest of the deposit to the proposer.
BalancesAfterProcess(who, p, beneficiary) ==
  LET tributed == Transfer(balances, CustodyAccount, beneficiary,
                           p.token_tribute, AllowDeath)
      rewarded == GuildPays(tributed, who, settings.processing_reward)
  IN  GuildPays(rewarded, p.proposer,
                Sub(settings.proposal_deposit, settings.processing_reward))

\* The tribute leaves the applicant's record, which is 0 when abort removed
\* it, by a plain subtraction.
RecordAfterProcess(p) ==
  Put(ApplicantCustody, p.applicant,
      Sub(Get(ApplicantCustody, p.applicant, 0), p.token_tribute))

Pass(who, i) ==
  LET p == Proposal(i) IN
  /\ Passes(p)
  /\ {MemberAt(p.applicant).shares + p.shares_requested,
      TotalShares + p.shares_requested} \subseteq Number
  /\ Members' = MembersAfterPass(p.applicant, p.shares_requested)
  /\ AddressOfDelegates' = DelegatesAfterPass(p.applicant)
  /\ TotalShares' = TotalShares + p.shares_requested
  /\ ProposalQueue' = [ProposalQueue EXCEPT ![i + 1].processed = TRUE,
                                            ![i + 1].did_pass = TRUE]
  /\ balances' = BalancesAfterProcess(who, p, GuildAccount)

Fail(who, i) ==
  LET p == Proposal(i) IN
  /\ ~Passes(p)
  /\ ProposalQueue' = [ProposalQueue EXCEPT ![i + 1].processed = TRUE]
  /\ balances' = BalancesAfterProcess(who, p, p.applicant)
  /\ UNCHANGED <<TotalShares, membership>>

ProcessProposal(who, i) ==
  LET p == Proposal(i) IN
  /\ PeriodDefined
  /\ Ready(p)
  /\ NotProcessed(p)
  /\ PreviousProcessed(i)
  /\ RequestedWithout(p) >= 0
  /\ TotalShares * settings.dilution_bound \in Number
  /\ SubDefined(Get(ApplicantCustody, p.applicant, 0), p.token_tribute)
  /\ SubDefined(settings.proposal_deposit, settings.processing_reward)
  /\ TotalSharesRequested' = RequestedWithout(p)
  /\ ApplicantCustody' = RecordAfterProcess(p)
  /\ Pass(who, i) \/ Fail(who, i)
  /\ UNCHANGED <<clock, ProposalVotes>>

-----------------------------------------------------------------------------
(* ragequit.                                                               *)

MayQuit_M(m) == m.highest_index_yes_vote < Len(ProposalQueue)

\* Every member, also one that never voted, waits for the proposal it
\* voted yes on last, which is the first proposal if it voted on none.
MayQuit(m) ==
  /\ m.highest_index_yes_vote < Len(ProposalQueue)
  /\ Proposal(m.highest_index_yes_vote).processed

Ragequit(who, n) ==
  /\ who \in DOMAIN Members
  /\ n <= Members[who].shares
  /\ MayQuit(Members[who])
  /\ TotalShares >= n
  /\ TotalShares > 0
  /\ balances[GuildAccount] * n \in Number
  /\ Members' = [Members EXCEPT ![who].shares = @ - n]
  /\ TotalShares' = TotalShares - n
  /\ balances' = GuildPays(balances, who,
                           (balances[GuildAccount] * n) \div TotalShares)
  /\ UNCHANGED <<clock, TotalSharesRequested, AddressOfDelegates, queue,
                 ApplicantCustody>>

-----------------------------------------------------------------------------
(* abort: the applicant takes the tribute back.                            *)

InAbortWindow_M(p) == TRUE

InAbortWindow(p) ==
  /\ p.starting_period + settings.abort_window \in Number
  /\ get_current_period < p.starting_period + settings.abort_window

Abort(who, i) ==
  LET p == Proposal(i) IN
  /\ who = p.applicant
  /\ PeriodDefined
  /\ InAbortWindow(p)
  /\ ~p.aborted
  /\ ProposalQueue' = [ProposalQueue EXCEPT ![i + 1].token_tribute = 0,
                                            ![i + 1].aborted = TRUE]
  /\ balances' = Transfer(balances, CustodyAccount, who, p.token_tribute,
                          AllowDeath)
  /\ ApplicantCustody' = Remove(ApplicantCustody, who)
  /\ UNCHANGED <<clock, shares, membership, ProposalVotes>>

-----------------------------------------------------------------------------
(* update_delegate: open to every account.  The new key is assigned to a   *)
(* copy of the member that is not written back, so the key removed is      *)
(* always the one the member was created with.                             *)

KeyIsFree_M(who, key) == TRUE

KeyIsFree(who, key) ==
  \/ key = who
  \/ /\ key \notin DOMAIN Members
     /\ Get(AddressOfDelegates, key, DefaultAccount) \notin DOMAIN Members

UpdateDelegate(who, key) ==
  /\ KeyIsFree(who, key)
  /\ AddressOfDelegates' =
       Put(Remove(AddressOfDelegates, MemberAt(who).delegate_key), key, who)
  /\ UNCHANGED <<clock, shares, Members, queue, ApplicantCustody, balances>>

-----------------------------------------------------------------------------
(* A new block: Aura and pallet_timestamp, external, move the time on.     *)

Tick ==
  /\ now + BlockTime <= MaxTime
  /\ now' = now + BlockTime
  /\ UNCHANGED <<SummonTime, settings, shares, membership, queue,
                 ApplicantCustody, balances>>

-----------------------------------------------------------------------------
(* The specifications.                                                     *)

\* Every call but summon, and the clock.
CallOrTick ==
  \/ \E who \in Users, t \in Tributes : Custody(who, t)
  \/ \E who, applicant \in Users, t \in Tributes, n \in ShareRequests :
       SubmitProposal(who, applicant, t, n)
  \/ \E who \in Users, i \in Indices : SubmitVote(who, i)
  \/ \E who \in Users, i \in Indices : ProcessProposal(who, i)
  \/ \E who \in Users, n \in 0 .. MaxShares : Ragequit(who, n)
  \/ \E who \in Users, i \in Indices : Abort(who, i)
  \/ \E who \in Users, key \in DelegateKeys : UpdateDelegate(who, key)
  \/ Tick

\* What the code permits: anybody may summon again.
Next == (\E who \in Users, s \in SummonSettings : Summon(who, s)) \/ CallOrTick

Spec == Init /\ [][Next]_vars

\* What the test guide describes: summon sets the DAO up, once.
Found ==
  /\ DOMAIN Members = {}
  /\ \E who \in Users, s \in SummonSettings : Summon(who, s)

NextFounded == Found \/ CallOrTick

SpecFounded == Init /\ [][NextFounded]_vars

\* Blocks keep coming, and somebody collects the reward for processing.
FairSpec ==
  /\ SpecFounded
  /\ WF_vars(Tick)
  /\ WF_vars(\E who \in Users, i \in Indices : ProcessProposal(who, i))

=============================================================================
