------------------------- MODULE MolochV1QueueProofs -------------------------
(***************************************************************************)
(* The proposals of the DAO pallet: what each call does to the queue, why  *)
(* a processed proposal stays what it is, and why the sums the pallet      *)
(* keeps by hand beside the queue - the requested shares, the issued       *)
(* shares, the yes votes - are what they claim to be.                      *)
(***************************************************************************)
EXTENDS MolochV1Proofs

-----------------------------------------------------------------------------
(* What a call does to the queue.                                          *)

\* The proposal with index i is replaced by q.
Replaces(i, q) == ProposalQueue' = [ProposalQueue EXCEPT ![i + 1] = q]

\* The others stay.
LEMMA ReplaceKeeps ==
  ASSUME TypeOK, NEW i \in Indices, NEW q \in ProposalType, Replaces(i, q)
  PROVE  /\ Len(ProposalQueue') = Len(ProposalQueue)
         /\ Indices' = Indices
         /\ \A j \in Indices : Proposal(j)' = IF j = i THEN q ELSE Proposal(j)
<1>1. Len(ProposalQueue') = Len(ProposalQueue)
  BY QueueTypes DEF Replaces
<1>2. \A j \in Indices : Proposal(j)' = IF j = i THEN q ELSE Proposal(j)
  BY DEF Proposal, Indices, TypeOK, Replaces
<1> QED
  BY <1>1, <1>2 DEF Indices

\* Everything of a proposal but its votes.
SameRequest(q, p) ==
  /\ q.proposer = p.proposer
  /\ q.applicant = p.applicant
  /\ q.shares_requested = p.shares_requested
  /\ q.starting_period = p.starting_period
  /\ q.processed = p.processed
  /\ q.did_pass = p.did_pass
  /\ q.aborted = p.aborted
  /\ q.token_tribute = p.token_tribute

\* submit_proposal appends a new proposal (lib.rs:303-317).
LEMMA SubmitEffect ==
  ASSUME TypeOK, NEW who \in Users, NEW a \in Users, NEW t \in Tributes,
         NEW n \in ShareRequests, SubmitProposal(who, a, t, n)
  PROVE  /\ Appends(NewProposal(AddressOfDelegates[who], a, t, n))
         /\ NewProposal(AddressOfDelegates[who], a, t, n) \in ProposalType
<1> DEFINE p == NewProposal(AddressOfDelegates[who], a, t, n)
<1>1. ProposalQueue' = Append(ProposalQueue, p) /\ PeriodDefined
  BY DEF SubmitProposal
<1>2. ~p.processed /\ p.starting_period = StartingPeriod
  BY DEF NewProposal
<1>3. p \in ProposalType
  <2> HIDE DEF p
  <2>1. ProposalQueue \in Seq(ProposalType) /\ Len(ProposalQueue) \in Nat
    BY DEF TypeOK
  <2>2. ProposalQueue' \in Seq(ProposalType)
    BY TypeSubmitProposal DEF TypeOK
  <2>3. Len(ProposalQueue) + 1 \in 1 .. Len(ProposalQueue')
    BY <1>1, <2>1, <2>2
  <2>4. ProposalQueue'[Len(ProposalQueue) + 1] = p
    BY <1>1, <2>1
  <2> QED
    BY <2>2, <2>3, <2>4
<1> QED
  BY <1>1, <1>2, <1>3 DEF Appends

\* submit_vote adds the member's shares to one of the two counts; a yes vote
\* keeps the larger of the total shares (lib.rs:349-366).
LEMMA VoteYesEffect ==
  ASSUME TypeOK, NEW i \in Indices, NEW m \in DOMAIN Members, VoteYes(m, i)
  PROVE  \E q \in ProposalType :
           /\ Replaces(i, q)
           /\ SameRequest(q, Proposal(i))
           /\ q.yes_votes = Proposal(i).yes_votes + Members[m].shares
           /\ q.max_total_shares_at_yes
                = RaiseMaxTotal(Proposal(i).max_total_shares_at_yes)
<1> DEFINE n == Members[m].shares
           y == [Proposal(i) EXCEPT !.yes_votes = @ + n,
                   !.max_total_shares_at_yes = RaiseMaxTotal(@)]
<1>1. i + 1 \in 1 .. Len(ProposalQueue) /\ Proposal(i) \in ProposalType
  BY QueueTypes
<1>2. Replaces(i, y)
  BY <1>1 DEF VoteYes, Proposal, TypeOK, Replaces
<1>3. y \in ProposalType
  BY <1>1 DEF VoteYes, RaiseMaxTotal, ProposalType, TypeOK
<1>4. /\ SameRequest(y, Proposal(i))
      /\ y.yes_votes = Proposal(i).yes_votes + n
      /\ y.max_total_shares_at_yes
           = RaiseMaxTotal(Proposal(i).max_total_shares_at_yes)
  BY <1>1 DEF ProposalType, SameRequest
<1> HIDE DEF y
<1> QED
  BY <1>2, <1>3, <1>4

LEMMA VoteNoEffect ==
  ASSUME TypeOK, NEW i \in Indices, NEW m \in DOMAIN Members, VoteNo(m, i)
  PROVE  \E q \in ProposalType :
           /\ Replaces(i, q)
           /\ SameRequest(q, Proposal(i))
           /\ q.yes_votes = Proposal(i).yes_votes
           /\ q.max_total_shares_at_yes = Proposal(i).max_total_shares_at_yes
<1> DEFINE n == Members[m].shares
           z == [Proposal(i) EXCEPT !.no_votes = @ + n]
<1>1. i + 1 \in 1 .. Len(ProposalQueue) /\ Proposal(i) \in ProposalType
  BY QueueTypes
<1>2. Replaces(i, z)
  BY <1>1 DEF VoteNo, Proposal, TypeOK, Replaces
<1>3. z \in ProposalType
  BY <1>1 DEF VoteNo, ProposalType
<1>4. /\ SameRequest(z, Proposal(i))
      /\ z.yes_votes = Proposal(i).yes_votes
      /\ z.max_total_shares_at_yes = Proposal(i).max_total_shares_at_yes
  BY <1>1 DEF ProposalType, SameRequest
<1> HIDE DEF z
<1> QED
  BY <1>2, <1>3, <1>4

LEMMA VoteEffect ==
  ASSUME TypeOK, NEW who \in Users, NEW i \in Indices, SubmitVote(who, i)
  PROVE  \E q \in ProposalType : Replaces(i, q) /\ SameRequest(q, Proposal(i))
BY ActingType, VoteYesEffect, VoteNoEffect DEF SubmitVote

\* process_proposal marks the proposal, and touches nothing else of it
\* (lib.rs:438, 466-467).
LEMMA ProcessEffect ==
  ASSUME TypeOK, NEW who \in Users, NEW i \in Indices, ProcessProposal(who, i)
  PROVE  \E q \in ProposalType :
           /\ Replaces(i, q)
           /\ q = [Proposal(i) EXCEPT !.processed = TRUE, !.did_pass = q.did_pass]
           /\ \/ Pass(who, i) /\ q.did_pass
              \/ Fail(who, i) /\ q.did_pass = Proposal(i).did_pass
<1> DEFINE y == [Proposal(i) EXCEPT !.processed = TRUE, !.did_pass = TRUE]
           z == [Proposal(i) EXCEPT !.processed = TRUE]
<1>1. i + 1 \in 1 .. Len(ProposalQueue) /\ Proposal(i) \in ProposalType
  BY QueueTypes
<1>2. /\ y \in ProposalType /\ y.did_pass
      /\ z \in ProposalType /\ z.did_pass = Proposal(i).did_pass
  BY <1>1 DEF ProposalType
<1>3. y = [Proposal(i) EXCEPT !.processed = TRUE, !.did_pass = y.did_pass]
  BY <1>1 DEF ProposalType
<1>4. z = [Proposal(i) EXCEPT !.processed = TRUE, !.did_pass = z.did_pass]
  BY <1>1 DEF ProposalType
<1>5. CASE Pass(who, i)
  <2>1. Replaces(i, y)
    BY <1>1, <1>5 DEF Pass, Proposal, TypeOK, Replaces
  <2> HIDE DEF y
  <2> QED
    BY <1>2, <1>3, <1>5, <2>1
<1>6. CASE Fail(who, i)
  <2>1. Replaces(i, z)
    BY <1>1, <1>6 DEF Fail, Proposal, TypeOK, Replaces
  <2> HIDE DEF z
  <2> QED
    BY <1>2, <1>4, <1>6, <2>1
<1> QED
  BY <1>5, <1>6 DEF ProcessProposal

\* abort takes the tribute off the proposal and marks it (lib.rs:519-526).
LEMMA AbortEffect ==
  ASSUME TypeOK, NEW who \in Users, NEW i \in Indices, Abort(who, i)
  PROVE  LET q == [Proposal(i) EXCEPT !.token_tribute = 0, !.aborted = TRUE]
         IN  q \in ProposalType /\ Replaces(i, q)
<1>1. i + 1 \in 1 .. Len(ProposalQueue) /\ Proposal(i) \in ProposalType
  BY QueueTypes
<1>2. 0 \in Number
  BY NumberAssumption, WordAssumption DEF Number
<1> QED
  BY <1>1, <1>2 DEF Abort, Proposal, TypeOK, ProposalType, Replaces

\* All other steps leave the queue and the number of requested shares alone.
LEMMA QueueCalls ==
  ASSUME [Next]_vars
  PROVE  \/ UNCHANGED <<ProposalQueue, TotalSharesRequested>>
         \/ \E who, a \in Users, t \in Tributes, n \in ShareRequests :
              SubmitProposal(who, a, t, n)
         \/ \E who \in Users, i \in Indices :
              SubmitVote(who, i) \/ ProcessProposal(who, i) \/ Abort(who, i)
<1>1. CASE UNCHANGED vars
  BY <1>1 DEF vars, queue, shares
<1>2. CASE \E who \in Users, s \in SummonSettings : Summon(who, s)
  BY <1>2 DEF Summon, queue
<1>3. CASE \E who \in Users, t \in Tributes : Custody(who, t)
  BY <1>3 DEF Custody, queue, shares
<1>4. CASE \E who \in Users, n \in 0 .. MaxShares : Ragequit(who, n)
  BY <1>4 DEF Ragequit, queue
<1>5. CASE \E who \in Users, key \in DelegateKeys : UpdateDelegate(who, key)
  BY <1>5 DEF UpdateDelegate, queue, shares
<1>6. CASE Tick
  BY <1>6 DEF Tick, queue, shares
<1> QED
  BY <1>1, <1>2, <1>3, <1>4, <1>5, <1>6 DEF Next, CallOrTick

-----------------------------------------------------------------------------
(* The clock of the founded DAO.                                           *)

\* Division by a positive number is monotone.
LEMMA DivMonotone ==
  ASSUME NEW a \in Nat, NEW b \in Nat, a <= b, NEW d \in Nat, d > 0
  PROVE  a \div d <= b \div d
<1> DEFINE p == a \div d
           q == b \div d
<1>1. p \in Nat /\ q \in Nat
  BY DivType
<1>2. d * p <= a
  OBVIOUS
<1>3. b < d * (q + 1)
  OBVIOUS
<1> HIDE DEF p, q
<1>4. d * p < d * (q + 1)
  <2>1. d * p \in Nat /\ d * (q + 1) \in Nat
    BY <1>1
  <2> QED
    BY <1>2, <1>3, <2>1
<1>5. p < q + 1
  <2>1. SUFFICES ASSUME p >= q + 1 PROVE FALSE
    BY <1>1
  <2>2. PICK x \in Nat : p = q + 1 + x
    <3>1. p - (q + 1) \in Nat /\ p = q + 1 + (p - (q + 1))
      BY <1>1, <2>1
    <3> QED
      BY <3>1
  <2>3. d * p = d * (q + 1) + d * x
    BY <1>1, <2>2
  <2>4. d * (q + 1) \in Nat /\ d * x \in Nat
    BY <1>1
  <2> QED
    BY <1>4, <2>3, <2>4
<1>6. p <= q
  BY <1>1, <1>5
<1> QED
  BY <1>6 DEF p, q

\* Once there are members the settings stay and the period never falls.
LEMMA PeriodGrows ==
  ASSUME TypeOK, [NextFounded]_vars, DOMAIN Members # {}, PeriodDefined
  PROVE  /\ settings' = settings
         /\ PeriodDefined'
         /\ get_current_period \in Nat
         /\ get_current_period' \in Nat
         /\ get_current_period <= get_current_period'
<1>1. UNCHANGED <<SummonTime, settings>> /\ now' \in Nat /\ now <= now'
  <2>1. CASE UNCHANGED clock
    BY <2>1 DEF clock, TypeOK
  <2>2. CASE Tick
    BY <2>2, NumberAssumption DEF Tick, TypeOK
  <2>3. CASE UNCHANGED vars
    BY <2>1, <2>3 DEF vars
  <2>4. ASSUME NEW who \in Users, NEW i \in Indices,
               SubmitVote(who, i) \/ ProcessProposal(who, i) \/ Abort(who, i)
        PROVE  UNCHANGED clock
    BY <2>4 DEF SubmitVote, ProcessProposal, Abort
  <2>5. CASE CallOrTick
    BY <2>1, <2>2, <2>4, <2>5
    DEF CallOrTick, Custody, SubmitProposal, Ragequit, UpdateDelegate
  <2> QED
    BY <2>3, <2>5 DEF NextFounded, Found
<1>2. settings.period_duration \in Nat /\ settings.period_duration > 0
  BY NumberAssumption, WordAssumption
  DEF TypeOK, SettingsType, Number, PeriodDefined
<1>3. /\ now - SummonTime \in Nat
      /\ now' - SummonTime \in Nat
      /\ now - SummonTime <= now' - SummonTime
  BY <1>1 DEF TypeOK
<1>4. /\ (now - SummonTime) \div 1000 \in Nat
      /\ (now' - SummonTime) \div 1000 \in Nat
      /\ (now - SummonTime) \div 1000 <= (now' - SummonTime) \div 1000
  BY <1>3, DivType, DivMonotone
<1>5. get_current_period' =
        ((now' - SummonTime) \div 1000) \div settings.period_duration
  BY <1>1 DEF get_current_period
<1> DEFINE a == (now - SummonTime) \div 1000
           b == (now' - SummonTime) \div 1000
           d == settings.period_duration
<1>6. a \div d \in Nat /\ b \div d \in Nat /\ a \div d <= b \div d
  <2> HIDE DEF a, b, d
  <2> QED
    BY <1>2, <1>4, DivType, DivMonotone DEF a, b, d
<1> QED
  BY <1>1, <1>5, <1>6 DEF get_current_period, PeriodDefined

-----------------------------------------------------------------------------
(* A processed proposal of a founded DAO, in a build with overflow checks. *)

\* summon demands it (lib.rs:238), and it is kept with the settings.
WindowWithinVoting == settings.abort_window <= settings.voting_period_length

\* Its periods for voting and grace have passed.
Over(p) ==
  /\ PeriodDefined
  /\ get_current_period >= p.starting_period + settings.voting_period_length
                             + settings.grace_period_length

ProcessedAreOver ==
  \A i \in Indices : Proposal(i).processed => Over(Proposal(i))

\* Only processing lets a proposal pass.
PassedAreProcessed ==
  \A i \in Indices : Proposal(i).did_pass => Proposal(i).processed

FinalInv ==
  /\ TypeOK
  /\ NoDaoYet
  /\ WindowWithinVoting
  /\ ProcessedAreOver
  /\ PassedAreProcessed
  /\ NotAbortedAndPassed

\* The settings and the numbers of a proposal are natural numbers.
LEMMA PeriodsAreNat ==
  ASSUME TypeOK
  PROVE  /\ settings.voting_period_length \in Nat
         /\ settings.grace_period_length \in Nat
         /\ settings.abort_window \in Nat
         /\ \A p \in ProposalType : p.starting_period \in Nat
BY NumberAssumption, WordAssumption DEF TypeOK, SettingsType, ProposalType, Number

\* A proposal that is over takes neither votes nor an abort.
LEMMA OverIsClosed ==
  ASSUME TypeOK, WindowWithinVoting, NEW p \in ProposalType, Over(p)
  PROVE  ~VotingOpen(p) /\ ~InAbortWindow(p)
<1> DEFINE v == settings.voting_period_length
           g == settings.grace_period_length
           w == settings.abort_window
           s == p.starting_period
           c == get_current_period
<1>1. {v, g, w, s, c} \subseteq Nat /\ w <= v /\ c >= s + v + g
  BY PeriodsAreNat, PeriodType DEF Over, WindowWithinVoting
<1>2. ~(c < v + s) /\ ~(c < s + w)
  <2> HIDE DEF v, g, w, s, c
  <2> QED
    BY <1>1
<1> QED
  BY <1>2 DEF VotingOpen, InAbortWindow

\* With overflow checks process_proposal waits until a proposal is over
\* (lib.rs:381).
LEMMA ReadyIsOver ==
  ASSUME TypeOK, OverflowChecks, PeriodDefined, NEW p \in ProposalType, Ready(p)
  PROVE  Over(p)
<1> DEFINE v == settings.voting_period_length
           g == settings.grace_period_length
           s == p.starting_period
           c == get_current_period
<1>1. {v, g, s, c} \subseteq Nat
  BY PeriodsAreNat, PeriodType
<1>2. /\ SubDefined(c, v)
      /\ SubDefined(Sub(c, v), g)
      /\ Sub(Sub(c, v), g) >= s
  BY DEF Ready
<1>3. c >= s + v + g
  <2> HIDE DEF v, g, s, c
  <2>1. c >= v
    BY <1>2 DEF SubDefined
  <2>2. Sub(c, v) = c - v
    BY <2>1 DEF Sub
  <2>3. c - v >= g
    BY <1>2, <2>2 DEF SubDefined
  <2>4. Sub(Sub(c, v), g) = c - v - g
    BY <2>2, <2>3 DEF Sub
  <2> QED
    BY <1>1, <1>2, <2>4
<1> QED
  BY <1>3 DEF Over

\* What is over remains so.
LEMMA OverStays ==
  ASSUME TypeOK, [NextFounded]_vars, DOMAIN Members # {},
         NEW p \in ProposalType, Over(p)
  PROVE  Over(p)'
<1>1. /\ settings' = settings /\ PeriodDefined'
      /\ get_current_period \in Nat /\ get_current_period' \in Nat
      /\ get_current_period <= get_current_period'
  BY PeriodGrows DEF Over
<1> DEFINE n == p.starting_period + settings.voting_period_length
                  + settings.grace_period_length
<1>2. n \in Nat /\ get_current_period >= n
  BY PeriodsAreNat DEF Over
<1>3. get_current_period' >= n
  <2> HIDE DEF n
  <2> QED
    BY <1>1, <1>2
<1> QED
  BY <1>1, <1>3 DEF Over

LEMMA FinalInit == Init => FinalInv
<1> SUFFICES ASSUME Init PROVE FinalInv
  OBVIOUS
<1>1. TypeOK /\ NoDaoYet
  BY TypeInit, FoundedInit
<1>2. Indices = {} /\ WindowWithinVoting
  BY DEF Init, Unsummoned, Indices, WindowWithinVoting
<1> QED
  BY <1>1, <1>2 DEF FinalInv, ProcessedAreOver, PassedAreProcessed,
                    NotAbortedAndPassed

\* The calls reach no processed proposal whose periods are over.
LEMMA ProcessedStays ==
  ASSUME FinalInv, [NextFounded]_vars,
         NEW i \in Indices, Proposal(i).processed
  PROVE  Proposal(i)' = Proposal(i)
<1>1. TypeOK /\ [Next]_vars /\ ~VotingOpen(Proposal(i)) /\ ~InAbortWindow(Proposal(i))
  BY FoundedIsNext, OverIsClosed, QueueTypes DEF FinalInv, ProcessedAreOver
<1>2. CASE ProposalQueue' = ProposalQueue
  BY <1>2 DEF Proposal
<1>3. ASSUME NEW who \in Users, NEW a \in Users, NEW t \in Tributes,
             NEW n \in ShareRequests, SubmitProposal(who, a, t, n)
      PROVE  Proposal(i)' = Proposal(i)
  <2>1. i \in Indices'
    BY <1>1, IndicesGrow
  <2> QED
    BY <1>1, <1>3, <2>1, SubmitEffect, AppendKeeps
<1>4. ASSUME NEW who \in Users, NEW j \in Indices, SubmitVote(who, j)
      PROVE  Proposal(i)' = Proposal(i)
  <2>1. j # i
    BY <1>1, <1>4 DEF SubmitVote
  <2> QED
    BY <1>1, <1>4, <2>1, VoteEffect, ReplaceKeeps
<1>5. ASSUME NEW who \in Users, NEW j \in Indices, ProcessProposal(who, j)
      PROVE  Proposal(i)' = Proposal(i)
  <2>1. j # i
    BY <1>5 DEF ProcessProposal, NotProcessed
  <2> QED
    BY <1>1, <1>5, <2>1, ProcessEffect, ReplaceKeeps
<1>6. ASSUME NEW who \in Users, NEW j \in Indices, Abort(who, j)
      PROVE  Proposal(i)' = Proposal(i)
  <2>1. j # i
    BY <1>1, <1>6 DEF Abort
  <2> QED
    BY <1>1, <1>6, <2>1, AbortEffect, ReplaceKeeps
<1> QED
  BY <1>1, <1>2, <1>3, <1>4, <1>5, <1>6, QueueCalls

\* In a queue there are proposals only if there are members.
LEMMA QueueHasMembers ==
  ASSUME TypeOK, NoDaoYet, Indices # {}
  PROVE  DOMAIN Members # {}
BY DEF NoDaoYet, Indices

\* What a step makes of a proposal that is not processed.
LEMMA PendingStep ==
  ASSUME FinalInv, OverflowChecks, [NextFounded]_vars,
         NEW i \in Indices, ~Proposal(i).processed
  PROVE  /\ Proposal(i)' \in ProposalType
         /\ Proposal(i)'.starting_period = Proposal(i).starting_period
         /\ Proposal(i)'.processed => Over(Proposal(i))
         /\ Proposal(i)'.did_pass =>
              Proposal(i)'.processed /\ ~Proposal(i)'.aborted
<1> DEFINE p == Proposal(i)
           q == Proposal(i)'
           Good(r) == /\ r \in ProposalType
                      /\ r.starting_period = p.starting_period
                      /\ r.processed => Over(p)
                      /\ r.did_pass => r.processed /\ ~r.aborted
<1> SUFFICES Good(q)
  OBVIOUS
<1>1. TypeOK /\ [Next]_vars /\ p \in ProposalType /\ ~p.did_pass
  BY FoundedIsNext, QueueTypes DEF FinalInv, PassedAreProcessed
<1>2. Good(p)
  BY <1>1
<1>3. CASE ProposalQueue' = ProposalQueue
  BY <1>2, <1>3 DEF Proposal
<1>4. ASSUME NEW who \in Users, NEW a \in Users, NEW t \in Tributes,
             NEW n \in ShareRequests, SubmitProposal(who, a, t, n)
      PROVE  Good(q)
  <2>1. i \in Indices'
    BY <1>1, IndicesGrow
  <2>2. q = p
    BY <1>1, <1>4, <2>1, SubmitEffect, AppendKeeps
  <2> QED
    BY <1>2, <2>2
<1>5. ASSUME NEW who \in Users, NEW j \in Indices, SubmitVote(who, j)
      PROVE  Good(q)
  <2>1. PICK r \in ProposalType : Replaces(j, r) /\ SameRequest(r, Proposal(j))
    BY <1>1, <1>5, VoteEffect
  <2>2. q = IF i = j THEN r ELSE p
    BY <1>1, <2>1, ReplaceKeeps
  <2>3. i = j => Good(r)
    BY <1>1, <2>1 DEF SameRequest
  <2> QED
    BY <1>2, <2>2, <2>3
<1>6. ASSUME NEW who \in Users, NEW j \in Indices, ProcessProposal(who, j)
      PROVE  Good(q)
  <2>1. PICK r \in ProposalType :
          /\ Replaces(j, r)
          /\ r = [Proposal(j) EXCEPT !.processed = TRUE, !.did_pass = r.did_pass]
          /\ \/ Pass(who, j) /\ r.did_pass
             \/ Fail(who, j) /\ r.did_pass = Proposal(j).did_pass
    BY <1>1, <1>6, ProcessEffect
  <2>2. q = IF i = j THEN r ELSE p
    BY <1>1, <2>1, ReplaceKeeps
  <2>3. Proposal(j) \in ProposalType /\ Over(Proposal(j))
    BY <1>1, <1>6, QueueTypes, ReadyIsOver DEF ProcessProposal
  <2>4. /\ r.starting_period = Proposal(j).starting_period
        /\ r.processed
        /\ r.aborted = Proposal(j).aborted
    BY <2>1, <2>3 DEF ProposalType
  <2>5. i = j => Good(r)
    BY <1>1, <2>1, <2>3, <2>4 DEF Pass, Passes
  <2> QED
    BY <1>2, <2>2, <2>5
<1>7. ASSUME NEW who \in Users, NEW j \in Indices, Abort(who, j)
      PROVE  Good(q)
  <2> DEFINE r == [Proposal(j) EXCEPT !.token_tribute = 0, !.aborted = TRUE]
  <2>1. r \in ProposalType /\ Replaces(j, r)
    BY <1>1, <1>7, AbortEffect
  <2>2. /\ r.starting_period = Proposal(j).starting_period
        /\ r.processed = Proposal(j).processed
        /\ r.did_pass = Proposal(j).did_pass
    BY <1>1, QueueTypes DEF ProposalType
  <2> HIDE DEF r
  <2>3. q = IF i = j THEN r ELSE p
    BY <1>1, <2>1, ReplaceKeeps
  <2>4. i = j => Good(r)
    BY <1>1, <2>1, <2>2
  <2> QED
    BY <1>2, <2>3, <2>4
<1> HIDE DEF Good, p, q
<1> QED
  BY <1>1, <1>3, <1>4, <1>5, <1>6, <1>7, QueueCalls

\* A proposal that a step adds is neither processed nor passed and has no votes.
LEMMA AddedStep ==
  ASSUME TypeOK, [NextFounded]_vars, NEW i \in Indices', i \notin Indices
  PROVE  /\ ~Proposal(i)'.processed /\ ~Proposal(i)'.did_pass
         /\ Proposal(i)'.yes_votes = 0
         /\ DOMAIN Members # {}
<1>1. [Next]_vars
  BY FoundedIsNext
<1>2. PICK who \in Users, a \in Users, t \in Tributes, n \in ShareRequests :
        SubmitProposal(who, a, t, n)
  <2>1. ProposalQueue' # ProposalQueue
    BY DEF Indices
  <2>2. ASSUME NEW who \in Users, NEW j \in Indices,
               SubmitVote(who, j) \/ ProcessProposal(who, j) \/ Abort(who, j)
        PROVE  Indices' = Indices
    BY <2>2, VoteEffect, ProcessEffect, AbortEffect, ReplaceKeeps
  <2> QED
    BY <1>1, <2>1, <2>2, QueueCalls
<1> DEFINE p == NewProposal(AddressOfDelegates[who], a, t, n)
<1>3. Appends(p) /\ p \in ProposalType
  BY <1>2, SubmitEffect
<1>4. ~p.processed /\ ~p.did_pass /\ p.yes_votes = 0
  BY DEF NewProposal
<1>5. Proposal(i)' = p
  <2> HIDE DEF p
  <2> QED
    BY <1>3, AppendKeeps
<1>6. DOMAIN Members # {}
  BY <1>2, ActingType DEF SubmitProposal
<1> QED
  BY <1>4, <1>5, <1>6

LEMMA WindowStep ==
  ASSUME TypeOK, NoDaoYet, WindowWithinVoting, [NextFounded]_vars
  PROVE  WindowWithinVoting'
<1>1. CASE UNCHANGED settings
  BY <1>1 DEF WindowWithinVoting
<1>2. CASE Found
  BY <1>2 DEF Found, Summon, ValidSettings, WindowWithinVoting
<1>3. ASSUME NEW who \in Users, NEW i \in Indices,
             SubmitVote(who, i) \/ ProcessProposal(who, i) \/ Abort(who, i)
      PROVE  UNCHANGED settings
  BY <1>3 DEF SubmitVote, ProcessProposal, Abort, clock
<1>4. CASE CallOrTick
  BY <1>1, <1>3, <1>4
  DEF CallOrTick, Custody, SubmitProposal, Ragequit, UpdateDelegate, Tick, clock
<1>5. CASE UNCHANGED vars
  BY <1>1, <1>5 DEF vars, clock
<1> QED
  BY <1>2, <1>4, <1>5 DEF NextFounded

LEMMA FinalStep ==
  ASSUME FinalInv, OverflowChecks, [NextFounded]_vars
  PROVE  FinalInv'
<1>1. TypeOK /\ NoDaoYet
  BY DEF FinalInv
<1>2. TypeOK' /\ NoDaoYet' /\ WindowWithinVoting'
  BY TypeNext, FoundedIsNext, NoDaoYetStep, WindowStep DEF FinalInv
<1>3. ASSUME NEW i \in Indices'
      PROVE  /\ Proposal(i)'.processed => Over(Proposal(i))'
             /\ Proposal(i)'.did_pass => Proposal(i)'.processed
             /\ ~(Proposal(i)'.aborted /\ Proposal(i)'.did_pass)
  <2>1. CASE i \notin Indices
    BY <1>1, <2>1, AddedStep
  <2>2. CASE i \in Indices /\ Proposal(i).processed
    <3>1. Proposal(i)' = Proposal(i)
      BY <2>2, ProcessedStays
    <3>2. Over(Proposal(i)) /\ ~(Proposal(i).aborted /\ Proposal(i).did_pass)
      BY <2>2 DEF FinalInv, ProcessedAreOver, NotAbortedAndPassed
    <3>3. ASSUME NEW p \in ProposalType, p = Proposal(i), p = Proposal(i)'
          PROVE  Over(Proposal(i))'
      BY <1>1, <2>2, <3>2, <3>3, OverStays, QueueHasMembers DEF Over
    <3> QED
      BY <1>1, <2>2, <3>1, <3>2, <3>3, QueueTypes
  <2>3. CASE i \in Indices /\ ~Proposal(i).processed
    <3>1. /\ Proposal(i)' \in ProposalType
          /\ Proposal(i)'.starting_period = Proposal(i).starting_period
          /\ Proposal(i)'.processed => Over(Proposal(i))
          /\ Proposal(i)'.did_pass =>
               Proposal(i)'.processed /\ ~Proposal(i)'.aborted
      BY <2>3, PendingStep
    <3>2. Proposal(i)'.processed => Over(Proposal(i))'
      <4> SUFFICES ASSUME Over(Proposal(i)) PROVE Over(Proposal(i))'
        BY <3>1
      <4>1. /\ settings' = settings /\ PeriodDefined'
            /\ get_current_period \in Nat /\ get_current_period' \in Nat
            /\ get_current_period <= get_current_period'
        BY <1>1, <2>3, PeriodGrows, QueueHasMembers DEF Over
      <4> DEFINE n == Proposal(i).starting_period
                        + settings.voting_period_length
                        + settings.grace_period_length
      <4>2. n \in Nat /\ get_current_period >= n
        BY <1>1, <2>3, QueueTypes, PeriodsAreNat DEF Over
      <4>3. n' = n
        BY <3>1, <4>1
      <4>4. get_current_period' >= n
        <5> HIDE DEF n
        <5> QED
          BY <4>1, <4>2
      <4> QED
        BY <4>1, <4>3, <4>4 DEF Over
    <3> QED
      BY <3>1, <3>2
  <2> QED
    BY <2>1, <2>2, <2>3
<1> QED
  BY <1>2, <1>3 DEF FinalInv, ProcessedAreOver, PassedAreProcessed,
                    NotAbortedAndPassed

\* In a founded DAO and a build with overflow checks, all that the theorems
\* below need holds in every state.
LEMMA FinalAlways ==
  ASSUME OverflowChecks PROVE SpecFounded => []FinalInv
<1>1. Init => FinalInv
  BY FinalInit
<1>2. FinalInv /\ [NextFounded]_vars => FinalInv'
  BY FinalStep
<1> QED
  BY <1>1, <1>2, PTL DEF SpecFounded

\* In a build with overflow checks, a processed proposal of a founded DAO
\* takes no vote, no abort and no second processing: submit_vote and abort
\* do not look at the processed flag (lib.rs:325-370, 505-532), but
\* process_proposal waits until the periods they look at have passed.
THEOREM ProcessedStayFinal ==
  ASSUME OverflowChecks PROVE SpecFounded => ProcessedIsFinal
<1>1. FinalInv /\ [NextFounded]_vars
        => [\A i \in Indices :
              Proposal(i).processed =>
                ProposalQueue'[i + 1] = ProposalQueue[i + 1]]_vars
  BY ProcessedStays DEF Proposal
<1> QED
  BY <1>1, FinalAlways, PTL DEF SpecFounded, ProcessedIsFinal

\* In a build with overflow checks, the applicant of a proposal that passed
\* did not take the tribute back and cannot do so any more (lib.rs:407,
\* 512-518).
THEOREM PassedNotAborted ==
  ASSUME OverflowChecks PROVE SpecFounded => []NotAbortedAndPassed
<1>1. FinalInv => NotAbortedAndPassed
  BY DEF FinalInv
<1> QED
  BY <1>1, FinalAlways, PTL

-----------------------------------------------------------------------------
(* The requested shares.                                                   *)

Pending == {j \in Indices : ~Proposal(j).processed}

Requests == [i \in Indices |-> Proposal(i).shares_requested]

LEMMA RequestedAsTokens ==
  /\ RequestedTokens = Tokens(Pending, Requests)
  /\ RequestedTokens' = Tokens(Pending', Requests')
BY DEF RequestedTokens, Tokens, Pending, Requests

RequestedInv == IsFiniteSet(RequestedTokens) /\ RequestedSharesAccounted

\* A proposal that keeps its request and its flag leaves the sum alone.
LEMMA RequestedSame ==
  ASSUME Indices' = Indices,
         \A j \in Indices : /\ Proposal(j)'.processed = Proposal(j).processed
                            /\ Proposal(j)'.shares_requested
                                 = Proposal(j).shares_requested
  PROVE  RequestedTokens' = RequestedTokens
BY DEF RequestedTokens

\* submit_proposal adds the request to the sum, process_proposal takes it
\* out, whether the proposal passed, failed or was aborted, and nothing else
\* touches it (lib.rs:280-292, 388-389).
LEMMA RequestedStep ==
  ASSUME TypeOK, RequestedInv, [Next]_vars
  PROVE  RequestedInv'
<1> DEFINE S == Pending
           f == Requests
<1>1. /\ RequestedTokens = Tokens(S, f)
      /\ RequestedTokens' = Tokens(S', f')
      /\ IsFiniteSet(Tokens(S, f))
      /\ TotalSharesRequested = Cardinality(Tokens(S, f))
  BY RequestedAsTokens DEF RequestedInv, RequestedSharesAccounted
<1>2. \A j \in Indices : Proposal(j) \in ProposalType /\ f[j] \in Nat
  BY QueueTypes, NumberAssumption, WordAssumption
  DEF ProposalType, Number, Requests
<1>3. ASSUME RequestedTokens' = RequestedTokens,
             TotalSharesRequested' = TotalSharesRequested
      PROVE  RequestedInv'
  BY <1>3 DEF RequestedInv, RequestedSharesAccounted
<1>4. ASSUME UNCHANGED <<ProposalQueue, TotalSharesRequested>>
      PROVE  RequestedInv'
  BY <1>3, <1>4 DEF RequestedTokens, Indices, Proposal
<1>5. ASSUME NEW who \in Users, NEW a \in Users, NEW t \in Tributes,
             NEW n \in ShareRequests, SubmitProposal(who, a, t, n)
      PROVE  RequestedInv'
  <2> DEFINE p == NewProposal(AddressOfDelegates[who], a, t, n)
  <2> PICK k \in Nat : k = Len(ProposalQueue)
    BY DEF TypeOK
  <2>1. /\ Appends(p) /\ p \in ProposalType
        /\ TotalSharesRequested' = TotalSharesRequested + n
    BY <1>5, SubmitEffect DEF SubmitProposal
  <2>2. ~p.processed /\ p.shares_requested = n /\ n \in Nat
    BY InputAssumption, NumberAssumption, WordAssumption
    DEF NewProposal, Number
  <2>3. /\ k \in Nat /\ k \in Indices' /\ k \notin Indices
        /\ Indices' = Indices \cup {k}
        /\ \A i \in Indices : Proposal(i)' = Proposal(i)
        /\ Proposal(k)' = p
    <3> HIDE DEF p
    <3>1. /\ k \in Nat
          /\ Indices' = 0 .. k
          /\ \A i \in Indices' :
               Proposal(i)' = IF i \in Indices THEN Proposal(i) ELSE p
      BY <2>1, AppendKeeps
    <3>2. k \notin Indices /\ 0 .. k = Indices \cup {k}
      BY <3>1 DEF Indices
    <3> QED
      BY <3>1, <3>2
  <2> HIDE DEF p
  <2>4. S' = S \cup {k} /\ k \notin S
    BY <2>2, <2>3 DEF Pending
  <2>5. f'[k] = n /\ \A j \in S : f[j] = f'[j]
    BY <2>2, <2>3 DEF Requests, Pending
  <2>6. /\ IsFiniteSet(Tokens(S', f'))
        /\ Cardinality(Tokens(S', f')) = Cardinality(Tokens(S, f)) + n
    <3> DEFINE T == S'
               g == f'
    <3>1. k \in T /\ T \ {k} = S \ {k} /\ (\A j \in S \ {k} : f[j] = g[j])
      BY <2>4, <2>5
    <3>2. k \notin S /\ g[k] = n
      BY <2>4, <2>5
    <3> HIDE DEF T, g, S, f
    <3>3. /\ IsFiniteSet(Tokens(T, g))
          /\ Cardinality(Tokens(S, f)) \in Nat
          /\ Cardinality(Tokens(T, g)) = Cardinality(Tokens(S, f)) + g[k]
               - (IF k \in S THEN f[k] ELSE 0)
      BY <1>1, <2>2, <3>1, <3>2, TokensChange
    <3>4. Cardinality(Tokens(T, g)) = Cardinality(Tokens(S, f)) + n
      BY <2>2, <3>2, <3>3
    <3> QED
      BY <3>3, <3>4 DEF T, g
  <2> QED
    BY <1>1, <2>1, <2>6 DEF RequestedInv, RequestedSharesAccounted
<1>6. ASSUME NEW who \in Users, NEW i \in Indices, SubmitVote(who, i)
      PROVE  RequestedInv'
  <2>1. PICK q \in ProposalType : Replaces(i, q) /\ SameRequest(q, Proposal(i))
    BY <1>6, VoteEffect
  <2>2. RequestedTokens' = RequestedTokens
    BY <2>1, ReplaceKeeps, RequestedSame DEF SameRequest
  <2> QED
    BY <1>3, <1>6, <2>2 DEF SubmitVote, shares
<1>7. ASSUME NEW who \in Users, NEW i \in Indices, ProcessProposal(who, i)
      PROVE  RequestedInv'
  <2>1. PICK q \in ProposalType :
          /\ Replaces(i, q)
          /\ q = [Proposal(i) EXCEPT !.processed = TRUE, !.did_pass = q.did_pass]
    BY <1>7, ProcessEffect
  <2>2. q.processed /\ q.shares_requested = Proposal(i).shares_requested
    BY <1>2, <2>1 DEF ProposalType
  <2>3. /\ Indices' = Indices
        /\ \A j \in Indices : Proposal(j)' = IF j = i THEN q ELSE Proposal(j)
    BY <2>1, ReplaceKeeps
  <2>4. i \in S /\ S' = S \ {i} /\ f' = f
    BY <1>7, <2>2, <2>3 DEF ProcessProposal, NotProcessed, Pending, Requests
  <2>5. TotalSharesRequested' = TotalSharesRequested - f[i]
    BY <1>7 DEF ProcessProposal, RequestedWithout, Requests
  <2>6. /\ IsFiniteSet(Tokens(S \ {i}, f))
        /\ Cardinality(Tokens(S \ {i}, f)) \in Nat
        /\ Cardinality(Tokens(S, f)) = Cardinality(Tokens(S \ {i}, f)) + f[i]
    <3>1. f[i] \in Nat
      BY <1>2
    <3> HIDE DEF S, f
    <3> QED
      BY <1>1, <2>4, <3>1, TokensRemove
  <2>7. TotalSharesRequested' = Cardinality(Tokens(S \ {i}, f))
    <3>1. f[i] \in Nat
      BY <1>2
    <3> HIDE DEF S, f
    <3> QED
      BY <1>1, <2>5, <2>6, <3>1
  <2> QED
    BY <1>1, <2>4, <2>6, <2>7 DEF RequestedInv, RequestedSharesAccounted
<1>8. ASSUME NEW who \in Users, NEW i \in Indices, Abort(who, i)
      PROVE  RequestedInv'
  <2> DEFINE q == [Proposal(i) EXCEPT !.token_tribute = 0, !.aborted = TRUE]
  <2>1. q \in ProposalType /\ Replaces(i, q)
    BY <1>8, AbortEffect
  <2>2. /\ q.processed = Proposal(i).processed
        /\ q.shares_requested = Proposal(i).shares_requested
    BY <1>2 DEF ProposalType
  <2> HIDE DEF q
  <2>3. RequestedTokens' = RequestedTokens
    BY <2>1, <2>2, ReplaceKeeps, RequestedSame
  <2> QED
    BY <1>3, <1>8, <2>3 DEF Abort, shares
<1> QED
  BY <1>4, <1>5, <1>6, <1>7, <1>8, QueueCalls

LEMMA RequestedInit == Init => RequestedInv
<1> SUFFICES ASSUME Init PROVE RequestedInv
  OBVIOUS
<1>1. RequestedTokens = {} /\ TotalSharesRequested = 0
  BY DEF Init, Unsummoned, RequestedTokens, Indices
<1> QED
  BY <1>1, FS_EmptySet DEF RequestedInv, RequestedSharesAccounted

\* TotalSharesRequested is the sum of the requests that wait to be
\* processed, whoever summons, votes or aborts in between: process_proposal's
\* checked_sub finds at least the request it takes out (lib.rs:388).
THEOREM RequestsAccounted == Spec => []RequestedSharesAccounted
<1>1. Init => TypeOK /\ RequestedInv
  BY TypeInit, RequestedInit
<1>2. TypeOK /\ RequestedInv /\ [Next]_vars => TypeOK' /\ RequestedInv'
  BY TypeNext, RequestedStep
<1>3. RequestedInv => RequestedSharesAccounted
  BY DEF RequestedInv
<1> QED
  BY <1>1, <1>2, <1>3, PTL DEF Spec

-----------------------------------------------------------------------------
(* The issued shares.                                                      *)

\* The shares of a map of members.
HoldingsOf(M) == [m \in DOMAIN M |-> M[m].shares]

Issued(M) == Tokens(DOMAIN M, HoldingsOf(M))

HeldBy(M, S) == Tokens(S, HoldingsOf(M))

LEMMA HeldAsTokens ==
  /\ \A S \in SUBSET DOMAIN Members : HeldShares(S) = HeldBy(Members, S)
  /\ \A S \in SUBSET DOMAIN Members' : HeldShares(S)' = HeldBy(Members', S)
  /\ HeldShares(DOMAIN Members) = Issued(Members)
  /\ HeldShares(DOMAIN Members)' = Issued(Members')
BY DEF HeldShares, HeldBy, Tokens, HoldingsOf, Issued

\* Writing one entry of the map changes the sum by the difference between
\* the new and the old shares, which are 0 for somebody who was no member.
LEMMA IssuedAfterPut ==
  ASSUME NEW M, NEW k, NEW value, value.shares \in Nat,
         \A m \in DOMAIN M : M[m].shares \in Nat,
         IsFiniteSet(Issued(M))
  PROVE  /\ IsFiniteSet(Issued(Put(M, k, value)))
         /\ Cardinality(Issued(M)) \in Nat
         /\ Cardinality(Issued(Put(M, k, value)))
              = Cardinality(Issued(M)) + value.shares
                  - Get(M, k, NoMember).shares
<1> DEFINE S == DOMAIN M
           T == DOMAIN Put(M, k, value)
           f == HoldingsOf(M)
           g == HoldingsOf(Put(M, k, value))
<1>1. /\ k \in T /\ T \ {k} = S \ {k}
      /\ \A j \in S \ {k} : f[j] = g[j]
      /\ k \in S => f[k] \in Nat /\ f[k] = M[k].shares
      /\ g[k] = value.shares
  BY DEF Put, HoldingsOf
<1>2. Issued(M) = Tokens(S, f) /\ Issued(Put(M, k, value)) = Tokens(T, g)
  BY DEF Issued
<1>3. Get(M, k, NoMember).shares = IF k \in S THEN f[k] ELSE 0
  BY <1>1 DEF Get, NoMember
<1> HIDE DEF S, T, f, g
<1>4. /\ IsFiniteSet(Tokens(T, g))
      /\ Cardinality(Tokens(S, f)) \in Nat
      /\ Cardinality(Tokens(T, g))
           = Cardinality(Tokens(S, f)) + g[k] - (IF k \in S THEN f[k] ELSE 0)
  BY <1>1, <1>2, TokensChange
<1> QED
  BY <1>1, <1>2, <1>3, <1>4

SharesInv == IsFiniteSet(Issued(Members)) /\ TotalShares = Cardinality(Issued(Members))

\* Where no shares change hands the sum stays.
LEMMA IssuedSame ==
  ASSUME NEW M, NEW N, DOMAIN M = DOMAIN N,
         \A m \in DOMAIN M : M[m].shares = N[m].shares
  PROVE  HoldingsOf(M) = HoldingsOf(N) /\ Issued(M) = Issued(N)
BY DEF Issued, HoldingsOf

LEMMA MemberShares ==
  ASSUME TypeOK
  PROVE  /\ \A m \in DOMAIN Members :
              Members[m] \in MemberType /\ Members[m].shares \in Nat
         /\ \A p \in ProposalType : p.shares_requested \in Nat
BY NumberAssumption, WordAssumption DEF TypeOK, MemberType, ProposalType, Number

\* Admitting an applicant adds the requested shares, for a member, a stranger
\* and an address that is somebody's delegate key (lib.rs:410-433).
LEMMA IssuedAfterPass ==
  ASSUME TypeOK, NEW a, NEW n \in Nat, IsFiniteSet(Issued(Members))
  PROVE  /\ IsFiniteSet(Issued(MembersAfterPass(a, n)))
         /\ Cardinality(Issued(MembersAfterPass(a, n)))
              = Cardinality(Issued(Members)) + n
<1>1. \A m \in DOMAIN Members :
        Members[m] \in MemberType /\ Members[m].shares \in Nat
  BY MemberShares
<1>2. Cardinality(Issued(Members)) \in Nat
  BY FS_CardinalityType
<1>3. CASE a \in DOMAIN Members
  <2> DEFINE v == [Members[a] EXCEPT !.shares = @ + n]
  <2>1. v.shares = Members[a].shares + n
    BY <1>1, <1>3 DEF MemberType
  <2>2. MembersAfterPass(a, n) = Put(Members, a, v)
    BY <1>3 DEF MembersAfterPass, Put, TypeOK
  <2>3. Get(Members, a, NoMember) = Members[a]
    BY <1>3 DEF Get
  <2> HIDE DEF v
  <2>4. v.shares \in Nat /\ Members[a].shares \in Nat
    BY <1>1, <1>3, <2>1
  <2>5. /\ IsFiniteSet(Issued(Put(Members, a, v)))
        /\ Cardinality(Issued(Put(Members, a, v)))
             = Cardinality(Issued(Members)) + v.shares - Members[a].shares
    BY <1>1, <2>3, <2>4, IssuedAfterPut
  <2> QED
    BY <1>2, <2>1, <2>2, <2>4, <2>5
<1>4. CASE a \notin DOMAIN Members
  <2> DEFINE M == WithKeyReset(a)
  <2>1. /\ IsFiniteSet(Issued(M))
        /\ Cardinality(Issued(M)) = Cardinality(Issued(Members))
        /\ \A m \in DOMAIN M : M[m].shares \in Nat
        /\ Get(M, a, NoMember).shares = 0
    <3>1. CASE a \notin DOMAIN AddressOfDelegates
      BY <1>1, <1>4, <3>1 DEF WithKeyReset, Get, NoMember
    <3>2. CASE a \in DOMAIN AddressOfDelegates
      <4> DEFINE d == AddressOfDelegates[a]
                 v == [MemberAt(d) EXCEPT !.delegate_key = d]
      <4>1. M = Put(Members, d, v)
        BY <3>2 DEF WithKeyReset
      <4>2. /\ v.shares = Get(Members, d, NoMember).shares
            /\ v.shares \in Nat
            /\ d \notin DOMAIN Members => v.shares = 0
        BY <1>1 DEF MemberAt, Get, NoMember, MemberType
      <4> HIDE DEF d, v, M
      <4>3. /\ IsFiniteSet(Issued(M))
            /\ Cardinality(Issued(M)) = Cardinality(Issued(Members))
                 + v.shares - Get(Members, d, NoMember).shares
        BY <1>1, <4>1, <4>2, IssuedAfterPut
      <4>4. \A m \in DOMAIN M : M[m].shares \in Nat
        BY <1>1, <4>1, <4>2 DEF Put
      <4>5. Get(M, a, NoMember).shares = 0
        BY <1>4, <4>1, <4>2 DEF Get, Put, NoMember
      <4> QED
        BY <1>2, <4>2, <4>3, <4>4, <4>5
    <3> QED
      BY <3>1, <3>2
  <2>2. MembersAfterPass(a, n) = Put(M, a, NewMember(a, n))
    BY <1>4 DEF MembersAfterPass
  <2>3. NewMember(a, n).shares = n
    BY DEF NewMember
  <2> HIDE DEF M
  <2>4. /\ IsFiniteSet(Issued(Put(M, a, NewMember(a, n))))
        /\ Cardinality(Issued(Put(M, a, NewMember(a, n))))
             = Cardinality(Issued(M)) + n - 0
    BY <2>1, <2>3, IssuedAfterPut
  <2> QED
    BY <1>2, <2>1, <2>2, <2>4
<1> QED
  BY <1>3, <1>4

\* A step that issues or burns shares adds them to, or takes them from, a
\* member and TotalShares alike (lib.rs:244-256, 410-437, 487-492).
LEMMA SharesStep ==
  ASSUME TypeOK, NoDaoYet, SharesInv, [NextFounded]_vars
  PROVE  SharesInv'
<1>1. \A m \in DOMAIN Members :
        Members[m] \in MemberType /\ Members[m].shares \in Nat
  BY MemberShares
<1>2. /\ IsFiniteSet(Issued(Members))
      /\ TotalShares = Cardinality(Issued(Members))
      /\ Cardinality(Issued(Members)) \in Nat
  BY FS_CardinalityType DEF SharesInv
<1>3. ASSUME UNCHANGED <<Members, TotalShares>> PROVE SharesInv'
  BY <1>2, <1>3 DEF SharesInv
<1>4. CASE Found
  <2>1. PICK who \in Users :
          Members' = Put(Members, who, NewMember(who, 1)) /\ TotalShares' = 1
    BY <1>4 DEF Found, Summon
  <2>2. DOMAIN Members = {} /\ TotalShares = 0
    BY <1>4 DEF Found, NoDaoYet
  <2>3. /\ NewMember(who, 1).shares = 1
        /\ Get(Members, who, NoMember).shares = 0
    BY <2>2 DEF NewMember, NoMember, Get
  <2>4. /\ IsFiniteSet(Issued(Members'))
        /\ Cardinality(Issued(Members')) = Cardinality(Issued(Members)) + 1 - 0
    BY <1>1, <1>2, <2>1, <2>3, IssuedAfterPut
  <2> QED
    BY <1>2, <2>1, <2>2, <2>4 DEF SharesInv
<1>5. ASSUME NEW who \in Users, NEW i \in Indices, SubmitVote(who, i)
      PROVE  SharesInv'
  <2> DEFINE m == AddressOfDelegates[who]
  <2>1. m \in DOMAIN Members
    BY <1>5, ActingType DEF SubmitVote
  <2>2. /\ DOMAIN Members' = DOMAIN Members
        /\ \A k \in DOMAIN Members : Members'[k].shares = Members[k].shares
    <3>1. CASE VoteNo(m, i)
      BY <3>1 DEF VoteNo
    <3>2. CASE VoteYes(m, i)
      <4>1. Members' = [Members EXCEPT ![m] = RaiseHighest(Members[m], i)]
        BY <3>2 DEF VoteYes
      <4>2. RaiseHighest(Members[m], i).shares = Members[m].shares
        BY <1>1, <2>1 DEF RaiseHighest, MemberType
      <4> HIDE DEF m
      <4> QED
        BY <4>1, <4>2 DEF TypeOK
    <3> QED
      BY <1>5, <3>1, <3>2 DEF SubmitVote
  <2>3. Issued(Members') = Issued(Members)
    BY <2>2, IssuedSame
  <2> QED
    BY <1>2, <1>5, <2>3 DEF SharesInv, SubmitVote, shares
<1>6. ASSUME NEW who \in Users, NEW i \in Indices, ProcessProposal(who, i)
      PROVE  SharesInv'
  <2> DEFINE p == Proposal(i)
  <2>1. p \in ProposalType /\ p.shares_requested \in Nat
    BY QueueTypes, MemberShares
  <2>2. CASE Fail(who, i)
    BY <1>3, <2>2 DEF Fail, membership
  <2>3. CASE Pass(who, i)
    <3>1. /\ Members' = MembersAfterPass(p.applicant, p.shares_requested)
          /\ TotalShares' = TotalShares + p.shares_requested
      BY <2>3 DEF Pass
    <3> HIDE DEF p
    <3>2. /\ IsFiniteSet(Issued(Members'))
          /\ Cardinality(Issued(Members'))
               = Cardinality(Issued(Members)) + p.shares_requested
      BY <1>2, <2>1, <3>1, IssuedAfterPass
    <3> QED
      BY <1>2, <3>1, <3>2 DEF SharesInv
  <2> QED
    BY <1>6, <2>2, <2>3 DEF ProcessProposal
<1>7. ASSUME NEW who \in Users, NEW n \in 0 .. MaxShares, Ragequit(who, n)
      PROVE  SharesInv'
  <2> DEFINE v == [Members[who] EXCEPT !.shares = @ - n]
  <2>1. /\ who \in DOMAIN Members /\ n <= Members[who].shares /\ n \in Nat
        /\ TotalShares' = TotalShares - n
    BY <1>7, NumberAssumption, WordAssumption DEF Ragequit, Number
  <2>2. v.shares = Members[who].shares - n
    BY <1>1, <2>1 DEF MemberType
  <2>3. Members' = Put(Members, who, v)
    BY <1>7, <2>1 DEF Ragequit, Put, TypeOK
  <2>4. Get(Members, who, NoMember) = Members[who]
    BY <2>1 DEF Get
  <2> HIDE DEF v
  <2>5. v.shares \in Nat /\ Members[who].shares \in Nat
    BY <1>1, <2>1, <2>2
  <2>6. /\ IsFiniteSet(Issued(Members'))
        /\ Cardinality(Issued(Members'))
             = Cardinality(Issued(Members)) + v.shares - Members[who].shares
    BY <1>1, <1>2, <2>3, <2>4, <2>5, IssuedAfterPut
  <2> QED
    BY <1>2, <2>1, <2>2, <2>5, <2>6 DEF SharesInv
<1>8. ASSUME NEW who \in Users, NEW i \in Indices, Abort(who, i)
      PROVE  SharesInv'
  BY <1>3, <1>8 DEF Abort, shares, membership
<1>9. CASE CallOrTick
  <2>1. CASE Tick \/ \E who \in Users, t \in Tributes : Custody(who, t)
    BY <1>3, <2>1 DEF Tick, Custody, shares, membership
  <2>2. CASE \E who, a \in Users, t \in Tributes, n \in ShareRequests :
               SubmitProposal(who, a, t, n)
    BY <1>3, <2>2 DEF SubmitProposal, membership
  <2>3. CASE \E who \in Users, key \in DelegateKeys : UpdateDelegate(who, key)
    BY <1>3, <2>3 DEF UpdateDelegate, shares
  <2> QED
    BY <1>5, <1>6, <1>7, <1>8, <1>9, <2>1, <2>2, <2>3 DEF CallOrTick
<1>10. CASE UNCHANGED vars
  BY <1>3, <1>10 DEF vars, shares, membership
<1> QED
  BY <1>4, <1>9, <1>10 DEF NextFounded

LEMMA SharesInit == Init => SharesInv
<1> SUFFICES ASSUME Init PROVE SharesInv
  OBVIOUS
<1>1. DOMAIN Members = {} /\ TotalShares = 0
  BY DEF Init, Unsummoned, EmptyMap
<1> QED
  BY <1>1, TokensEmpty DEF SharesInv, Issued

LEMMA SharesInvAlways == SpecFounded => [](TypeOK /\ NoDaoYet /\ SharesInv)
<1> DEFINE Inv == TypeOK /\ NoDaoYet /\ SharesInv
<1>1. Init => Inv
  BY TypeInit, FoundedInit, SharesInit
<1>2. Inv /\ [NextFounded]_vars => Inv'
  BY TypeNext, FoundedIsNext, NoDaoYetStep, SharesStep
<1> QED
  BY <1>1, <1>2, PTL DEF SpecFounded

\* TotalShares is the sum of the shares of the members of a founded DAO,
\* through admissions, admissions under somebody's delegate key, additions
\* to members and ragequits: the parts of the guild bank add up to the bank.
THEOREM SharesAddUp == SpecFounded => []SharesConserved
<1>1. SharesInv => SharesConserved
  BY HeldAsTokens DEF SharesInv, SharesConserved
<1> QED
  BY <1>1, SharesInvAlways, PTL

-----------------------------------------------------------------------------
(* The yes votes.                                                          *)

\* Only submit_vote casts a vote.
LEMMA VoteCalls ==
  ASSUME [NextFounded]_vars
  PROVE  \/ UNCHANGED ProposalVotes
         \/ \E who \in Users, i \in Indices : SubmitVote(who, i)
<1>1. CASE UNCHANGED vars
  BY <1>1 DEF vars, queue
<1>2. CASE Found
  BY <1>2 DEF Found, Summon, queue
<1>3. CASE \E who \in Users, i \in Indices :
             ProcessProposal(who, i) \/ Abort(who, i)
  BY <1>3 DEF ProcessProposal, Abort
<1>4. CASE \E who, a \in Users, t \in Tributes, n \in ShareRequests :
             SubmitProposal(who, a, t, n)
  BY <1>4 DEF SubmitProposal
<1>5. CASE \E who \in Users, t \in Tributes : Custody(who, t)
  BY <1>5 DEF Custody, queue
<1>6. CASE \E who \in Users, n \in 0 .. MaxShares : Ragequit(who, n)
  BY <1>6 DEF Ragequit, queue
<1>7. CASE \E who \in Users, key \in DelegateKeys : UpdateDelegate(who, key)
  BY <1>7 DEF UpdateDelegate, queue
<1>8. CASE Tick
  BY <1>8 DEF Tick, queue
<1> QED
  BY <1>1, <1>2, <1>3, <1>4, <1>5, <1>6, <1>7, <1>8 DEF NextFounded, CallOrTick

\* The vote of submit_vote is a new one; a member has one vote on a proposal.
LEMMA VotesKept ==
  ASSUME [NextFounded]_vars
  PROVE  \A key \in DOMAIN ProposalVotes :
           /\ key \in DOMAIN ProposalVotes'
           /\ ProposalVotes'[key] = ProposalVotes[key]
<1>1. ASSUME NEW who \in Users, NEW i \in Indices, SubmitVote(who, i),
             NEW key \in DOMAIN ProposalVotes
      PROVE  /\ key \in DOMAIN ProposalVotes'
             /\ ProposalVotes'[key] = ProposalVotes[key]
  <2> DEFINE k == <<i, AddressOfDelegates[who]>>
  <2>1. k \notin DOMAIN ProposalVotes
    BY <1>1 DEF SubmitVote, HasVoted
  <2>2. \E v \in {1, 2} : ProposalVotes' = Put(ProposalVotes, k, v)
    BY <1>1 DEF SubmitVote, VoteYes, VoteNo
  <2> HIDE DEF k
  <2> QED
    BY <2>1, <2>2 DEF Put
<1> QED
  BY <1>1, VoteCalls

\* What the invariant on the yes votes needs of the state before a step.
VoteInv ==
  /\ TypeOK
  /\ NoDaoYet
  /\ SharesInv
  /\ VotesOfMembers
  /\ ProcessedInOrder
  /\ YesVotersLocked

\* The yes voters of a proposal that is not processed stay its yes voters,
\* and none of them loses shares: ragequit is closed to them.
LEMMA YesVotersStay ==
  ASSUME VoteInv, [NextFounded]_vars, NEW i \in Indices, ~Proposal(i).processed
  PROVE  /\ YesVoters(i) \subseteq YesVoters(i)'
         /\ \A m \in YesVoters(i) : Members'[m].shares >= Members[m].shares
<1>1. TypeOK /\ DOMAIN Members \subseteq DOMAIN Members'
  BY MembersGrow DEF VoteInv
<1>2. YesVoters(i) \subseteq YesVoters(i)'
  BY <1>1, VotesKept DEF YesVoters, VotedYes
<1>3. ASSUME NEW m \in YesVoters(i)
      PROVE  Members'[m].shares >= Members[m].shares
  <2> DEFINE h == Members[m].highest_index_yes_vote
  <2>1. m \in DOMAIN Members /\ i <= h /\ h \in Nat
    BY <1>1 DEF YesVoters, VoteInv, YesVotersLocked, TypeOK, MemberType
  <2>2. ~MayQuit(Members[m])
    <3> SUFFICES ASSUME h < Len(ProposalQueue), Proposal(h).processed
                 PROVE  FALSE
      BY DEF MayQuit
    <3>1. h \in Indices
      BY <1>1, <2>1 DEF Indices, TypeOK
    <3> QED
      BY <2>1, <3>1 DEF VoteInv, ProcessedInOrder
  <2> QED
    BY <1>1, <2>1, <2>2, MembersGrow
<1> QED
  BY <1>2, <1>3

\* The shares of some of the members are finitely many.
LEMMA HeldFinite ==
  ASSUME IsFiniteSet(Issued(Members)), NEW S \in SUBSET DOMAIN Members
  PROVE  /\ IsFiniteSet(HeldBy(Members, S))
         /\ Cardinality(HeldBy(Members, S)) \in Nat
         /\ Cardinality(HeldBy(Members, S)) <= Cardinality(Issued(Members))
<1>1. HeldBy(Members, S) \subseteq Issued(Members)
  BY DEF HeldBy, Issued, Tokens
<1> QED
  BY <1>1, FS_Subset, FS_CardinalityType

\* So the shares that back the proposal do not become fewer.
LEMMA BackingGrows ==
  ASSUME VoteInv, VoteInv', [NextFounded]_vars,
         NEW i \in Indices, ~Proposal(i).processed
  PROVE  /\ Cardinality(HeldShares(YesVoters(i))) \in Nat
         /\ Cardinality(HeldShares(YesVoters(i))') \in Nat
         /\ Cardinality(HeldShares(YesVoters(i)))
              <= Cardinality(HeldShares(YesVoters(i))')
<1> DEFINE S == YesVoters(i)
           T == YesVoters(i)'
           f == HoldingsOf(Members)
           g == HoldingsOf(Members')
<1>1. /\ S \subseteq T /\ S \subseteq DOMAIN Members /\ T \subseteq DOMAIN Members'
      /\ \A m \in S : Members'[m].shares >= Members[m].shares
  BY YesVotersStay DEF YesVoters
<1>2. /\ HeldShares(YesVoters(i)) = Tokens(S, f)
      /\ HeldShares(YesVoters(i))' = Tokens(T, g)
  BY <1>1, HeldAsTokens DEF HeldBy
<1>3. \A m \in S : f[m] \in Nat /\ g[m] \in Nat /\ f[m] <= g[m]
  <2>1. TypeOK /\ TypeOK'
    BY DEF VoteInv
  <2>2. ASSUME NEW m \in S
        PROVE  Members[m].shares \in Nat /\ Members'[m].shares \in Nat
    <3>1. m \in DOMAIN Members /\ m \in DOMAIN Members'
      BY <1>1
    <3>2. Members[m] \in MemberType /\ Members'[m] \in MemberType
      BY <2>1, <3>1 DEF TypeOK
    <3> QED
      BY <3>2, NumberAssumption, WordAssumption DEF MemberType, Number
  <2>3. \A m \in S : f[m] = Members[m].shares /\ g[m] = Members'[m].shares
    BY <1>1 DEF HoldingsOf
  <2> QED
    BY <1>1, <2>2, <2>3
<1>4. IsFiniteSet(Tokens(T, g))
  <2>1. Tokens(T, g) \subseteq Issued(Members')
    BY <1>1 DEF Tokens, Issued
  <2>2. IsFiniteSet(Issued(Members'))
    BY DEF VoteInv, SharesInv
  <2> QED
    BY <2>1, <2>2, FS_Subset
<1> HIDE DEF S, T, f, g
<1>5. /\ IsFiniteSet(Tokens(S, f))
      /\ Cardinality(Tokens(S, f)) <= Cardinality(Tokens(T, g))
  BY <1>1, <1>3, <1>4, TokensMonotone
<1> QED
  BY <1>2, <1>4, <1>5, FS_CardinalityType

\* A yes vote adds the shares of a new yes voter to both sides.
LEMMA YesVoteBacked ==
  ASSUME VoteInv, VoteInv', [NextFounded]_vars,
         NEW i \in Indices, ~Proposal(i).processed, NEW who \in Users,
         SubmitVote(who, i), VoteYes(AddressOfDelegates[who], i)
  PROVE  Cardinality(HeldShares(YesVoters(i))')
           = Cardinality(HeldShares(YesVoters(i)))
               + Members[AddressOfDelegates[who]].shares
<1> TypeOK /\ TypeOK'
  BY DEF VoteInv
<1> PICK m \in DOMAIN Members : m = AddressOfDelegates[who]
  BY ActingType DEF SubmitVote
<1> DEFINE S == YesVoters(i)
           T == YesVoters(i)'
           f == HoldingsOf(Members)
           g == HoldingsOf(Members')
<1>1. /\ Members' = [Members EXCEPT ![m] = RaiseHighest(Members[m], i)]
      /\ ProposalVotes' = Put(ProposalVotes, <<i, m>>, 1)
      /\ <<i, m>> \notin DOMAIN ProposalVotes
  BY DEF VoteYes, SubmitVote, HasVoted
<1>2. RaiseHighest(Members[m], i).shares = Members[m].shares
  BY MemberShares DEF RaiseHighest, MemberType
<1>3. DOMAIN Members' = DOMAIN Members
  BY <1>1
<1>4. f = g
  <2>1. \A k \in DOMAIN Members : Members'[k].shares = Members[k].shares
    BY <1>1, <1>2 DEF TypeOK
  <2> QED
    BY <1>3, <2>1, IssuedSame
<1>5. S \subseteq DOMAIN Members /\ m \notin S /\ T = S \cup {m}
  <2>1. \A k \in DOMAIN Members : VotedYes(k, i)' <=> (k = m \/ VotedYes(k, i))
    BY <1>1 DEF VotedYes, Put
  <2>2. ~VotedYes(m, i)
    BY <1>1 DEF VotedYes
  <2> QED
    BY <1>3, <2>1, <2>2 DEF YesVoters
<1>6. /\ HeldShares(YesVoters(i)) = Tokens(S, f)
      /\ HeldShares(YesVoters(i))' = Tokens(T, g)
  BY <1>3, <1>5, HeldAsTokens DEF HeldBy
<1>7. IsFiniteSet(Tokens(S, f))
  BY <1>5, HeldFinite DEF HeldBy, VoteInv, SharesInv
<1>8. g[m] = Members[m].shares /\ Members[m].shares \in Nat
  BY <1>4, MemberShares DEF HoldingsOf
<1> HIDE DEF S, T, f, g
<1>9. /\ Cardinality(Tokens(S, f)) \in Nat
      /\ Cardinality(Tokens(T, g)) = Cardinality(Tokens(S, f)) + g[m]
           - (IF m \in S THEN f[m] ELSE 0)
  <2>1. m \in T /\ T \ {m} = S \ {m} /\ (\A k \in S \ {m} : f[k] = g[k])
    BY <1>4, <1>5
  <2> QED
    BY <1>5, <1>7, <1>8, <2>1, TokensChange
<1> QED
  BY <1>5, <1>6, <1>8, <1>9

\* How a step changes the yes votes of a proposal.
LEMMA YesVotesStep ==
  ASSUME TypeOK, [NextFounded]_vars, NEW i \in Indices
  PROVE  \/ /\ Proposal(i)'.yes_votes = Proposal(i).yes_votes
            /\ Proposal(i)'.max_total_shares_at_yes
                 = Proposal(i).max_total_shares_at_yes
         \/ \E who \in Users :
              /\ SubmitVote(who, i)
              /\ VoteYes(AddressOfDelegates[who], i)
              /\ AddressOfDelegates[who] \in DOMAIN Members
              /\ Proposal(i)'.yes_votes
                   = Proposal(i).yes_votes
                       + Members[AddressOfDelegates[who]].shares
              /\ Proposal(i)'.max_total_shares_at_yes
                   = RaiseMaxTotal(Proposal(i).max_total_shares_at_yes)
<1> DEFINE Same == /\ Proposal(i)'.yes_votes = Proposal(i).yes_votes
                   /\ Proposal(i)'.max_total_shares_at_yes
                        = Proposal(i).max_total_shares_at_yes
           Voted(who) ==
              /\ SubmitVote(who, i)
              /\ VoteYes(AddressOfDelegates[who], i)
              /\ AddressOfDelegates[who] \in DOMAIN Members
              /\ Proposal(i)'.yes_votes
                   = Proposal(i).yes_votes
                       + Members[AddressOfDelegates[who]].shares
              /\ Proposal(i)'.max_total_shares_at_yes
                   = RaiseMaxTotal(Proposal(i).max_total_shares_at_yes)
<1> SUFFICES Same \/ \E who \in Users : Voted(who)
  OBVIOUS
<1>1. [Next]_vars /\ \A j \in Indices : Proposal(j) \in ProposalType
  BY FoundedIsNext, QueueTypes
<1>2. CASE UNCHANGED ProposalQueue
  BY <1>2 DEF Proposal
<1>3. ASSUME NEW who \in Users, NEW a \in Users, NEW t \in Tributes,
             NEW n \in ShareRequests, SubmitProposal(who, a, t, n)
      PROVE  Same
  <2>1. Proposal(i)' = Proposal(i)
    BY <1>1, <1>3, SubmitEffect, AppendKeeps, IndicesGrow
  <2> QED
    BY <2>1
<1>4. ASSUME NEW who \in Users, NEW j \in Indices, SubmitVote(who, j)
      PROVE  Same \/ Voted(who)
  <2>1. AddressOfDelegates[who] \in DOMAIN Members
    BY <1>4, ActingType DEF SubmitVote
  <2>2. CASE VoteNo(AddressOfDelegates[who], j)
    <3>1. PICK q \in ProposalType :
            /\ Replaces(j, q)
            /\ q.yes_votes = Proposal(j).yes_votes
            /\ q.max_total_shares_at_yes = Proposal(j).max_total_shares_at_yes
      BY <2>1, <2>2, VoteNoEffect
    <3> QED
      BY <3>1, ReplaceKeeps
  <2>3. CASE VoteYes(AddressOfDelegates[who], j)
    <3>1. PICK q \in ProposalType :
            /\ Replaces(j, q)
            /\ q.yes_votes = Proposal(j).yes_votes
                               + Members[AddressOfDelegates[who]].shares
            /\ q.max_total_shares_at_yes
                 = RaiseMaxTotal(Proposal(j).max_total_shares_at_yes)
      BY <2>1, <2>3, VoteYesEffect
    <3>2. Proposal(i)' = IF i = j THEN q ELSE Proposal(i)
      BY <3>1, ReplaceKeeps
    <3> QED
      BY <1>4, <2>1, <2>3, <3>1, <3>2
  <2> QED
    BY <1>4, <2>2, <2>3 DEF SubmitVote
<1>5. ASSUME NEW who \in Users, NEW j \in Indices, ProcessProposal(who, j)
      PROVE  Same
  <2>1. PICK q \in ProposalType :
          /\ Replaces(j, q)
          /\ q = [Proposal(j) EXCEPT !.processed = TRUE, !.did_pass = q.did_pass]
    BY <1>5, ProcessEffect
  <2>2. /\ q.yes_votes = Proposal(j).yes_votes
        /\ q.max_total_shares_at_yes = Proposal(j).max_total_shares_at_yes
    BY <1>1, <2>1 DEF ProposalType
  <2> QED
    BY <2>1, <2>2, ReplaceKeeps
<1>6. ASSUME NEW who \in Users, NEW j \in Indices, Abort(who, j)
      PROVE  Same
  <2> DEFINE q == [Proposal(j) EXCEPT !.token_tribute = 0, !.aborted = TRUE]
  <2>1. q \in ProposalType /\ Replaces(j, q)
    BY <1>6, AbortEffect
  <2>2. /\ q.yes_votes = Proposal(j).yes_votes
        /\ q.max_total_shares_at_yes = Proposal(j).max_total_shares_at_yes
    BY <1>1 DEF ProposalType
  <2> HIDE DEF q
  <2> QED
    BY <2>1, <2>2, ReplaceKeeps
<1> HIDE DEF Same, Voted
<1> QED
  BY <1>1, <1>2, <1>3, <1>4, <1>5, <1>6, QueueCalls

LEMMA VoteInvAlways == SpecFounded => []VoteInv
<1>1. Init => TypeOK /\ VotesOfMembers
  BY TypeInit, FoundedInit
<1>2. TypeOK /\ VotesOfMembers /\ [NextFounded]_vars
        => TypeOK' /\ VotesOfMembers'
  BY TypeNext, FoundedIsNext, VotesOfMembersStep
<1>3. (TypeOK /\ NoDaoYet /\ SharesInv) /\ VotesOfMembers /\ ProcessedInOrder
        /\ YesVotersLocked => VoteInv
  BY DEF VoteInv
<1> QED
  BY <1>1, <1>2, <1>3, SharesInvAlways, QueueInOrderFounded, VotersStayLocked,
     PTL DEF SpecFounded

LEMMA YesVotesBackedStep ==
  ASSUME VoteInv, VoteInv', YesVotesBacked, [NextFounded]_vars
  PROVE  YesVotesBacked'
<1> SUFFICES ASSUME NEW i \in Indices', ~Proposal(i)'.processed
             PROVE  Proposal(i)'.yes_votes
                      <= Cardinality(HeldShares(YesVoters(i))')
  BY DEF YesVotesBacked
<1>1. TypeOK /\ TypeOK' /\ [Next]_vars
  BY FoundedIsNext DEF VoteInv
<1>2. CASE i \notin Indices
  <2>1. Proposal(i)'.yes_votes = 0
    BY <1>1, <1>2, AddedStep
  <2>2. /\ YesVoters(i)' \subseteq DOMAIN Members'
        /\ IsFiniteSet(Issued(Members'))
    BY DEF YesVoters, VoteInv, SharesInv
  <2>3. HeldShares(YesVoters(i))' \subseteq Issued(Members')
    BY <2>2 DEF HeldShares, Issued, Tokens, HoldingsOf
  <2>4. Cardinality(HeldShares(YesVoters(i))') \in Nat
    BY <2>2, <2>3, FS_Subset, FS_CardinalityType
  <2> QED
    BY <2>1, <2>4
<1>3. CASE i \in Indices
  <2> DEFINE b == Cardinality(HeldShares(YesVoters(i)))
             c == Cardinality(HeldShares(YesVoters(i))')
  <2>1. ~Proposal(i).processed
    <3>1. CASE Keeps
      BY <1>3, <3>1 DEF Keeps
    <3>2. ASSUME NEW p \in ProposalType, Appends(p)
          PROVE  ~Proposal(i).processed
      BY <1>1, <1>3, <3>2, AppendKeeps, IndicesGrow
    <3> QED
      BY <1>1, <3>1, <3>2, QueueStep
  <2>2. b \in Nat /\ c \in Nat /\ b <= c
    BY <1>3, <2>1, BackingGrows
  <2>3. Proposal(i).yes_votes \in Nat /\ Proposal(i).yes_votes <= b
    BY <1>1, <1>3, <2>1, QueueTypes, NumberAssumption, WordAssumption
    DEF YesVotesBacked, ProposalType, Number
  <2>4. CASE Proposal(i)'.yes_votes = Proposal(i).yes_votes
    <3> HIDE DEF b, c
    <3>1. Proposal(i)'.yes_votes <= c
      BY <2>2, <2>3, <2>4
    <3> QED
      BY <3>1 DEF c
  <2>5. ASSUME NEW who \in Users, SubmitVote(who, i),
               VoteYes(AddressOfDelegates[who], i),
               Proposal(i)'.yes_votes = Proposal(i).yes_votes
                 + Members[AddressOfDelegates[who]].shares
        PROVE  Proposal(i)'.yes_votes <= c
    <3>1. c = b + Members[AddressOfDelegates[who]].shares
      BY <1>3, <2>1, <2>5, YesVoteBacked
    <3>2. Members[AddressOfDelegates[who]].shares \in Nat
      BY <1>1, <2>5, ActingType, MemberShares DEF SubmitVote
    <3> HIDE DEF b, c
    <3> QED
      BY <2>2, <2>3, <2>5, <3>1, <3>2
  <2> QED
    BY <1>1, <1>3, <2>4, <2>5, YesVotesStep
<1> QED
  BY <1>2, <1>3

LEMMA NoVotesInit == Init => YesVotesBacked /\ YesVotesWithinTotal
BY DEF Init, Unsummoned, YesVotesBacked, YesVotesWithinTotal, Indices

\* The yes votes of a proposal that is not processed are backed by shares its
\* yes voters hold: a member votes once under whatever keys (lib.rs:342),
\* voters' shares may grow by other proposals, but none is burned before the
\* proposal is processed (lib.rs:480-484).
THEOREM YesVotesStayBacked == SpecFounded => []YesVotesBacked
<1>1. Init => YesVotesBacked
  BY NoVotesInit
<1>2. VoteInv /\ VoteInv' /\ YesVotesBacked /\ [NextFounded]_vars
        => YesVotesBacked'
  BY YesVotesBackedStep
<1> QED
  BY <1>1, <1>2, VoteInvAlways, PTL DEF SpecFounded

LEMMA YesVotesWithinTotalStep ==
  ASSUME VoteInv, VoteInv', YesVotesBacked', YesVotesWithinTotal,
         [NextFounded]_vars
  PROVE  YesVotesWithinTotal'
<1> SUFFICES ASSUME NEW i \in Indices', ~Proposal(i)'.processed
             PROVE  Proposal(i)'.yes_votes <= Proposal(i)'.max_total_shares_at_yes
  BY DEF YesVotesWithinTotal
<1>1. TypeOK /\ TypeOK' /\ [Next]_vars
  BY FoundedIsNext DEF VoteInv
<1>2. Proposal(i)'.max_total_shares_at_yes \in Nat
  <2>1. i + 1 \in 1 .. Len(ProposalQueue')
    BY <1>1 DEF Indices, TypeOK
  <2>2. Proposal(i)' \in ProposalType
    BY <1>1, <2>1 DEF TypeOK, Proposal
  <2> QED
    BY <2>2, NumberAssumption, WordAssumption DEF ProposalType, Number
<1>3. CASE i \notin Indices
  BY <1>1, <1>2, <1>3, AddedStep
<1>4. CASE i \in Indices
  <2>1. ~Proposal(i).processed
    <3>1. CASE Keeps
      BY <1>4, <3>1 DEF Keeps
    <3>2. ASSUME NEW p \in ProposalType, Appends(p)
          PROVE  ~Proposal(i).processed
      BY <1>1, <1>4, <3>2, AppendKeeps, IndicesGrow
    <3> QED
      BY <1>1, <3>1, <3>2, QueueStep
  <2>2. Proposal(i).yes_votes <= Proposal(i).max_total_shares_at_yes
    BY <1>4, <2>1 DEF YesVotesWithinTotal
  <2>3. ASSUME NEW who \in Users, SubmitVote(who, i),
               VoteYes(AddressOfDelegates[who], i),
               Proposal(i)'.max_total_shares_at_yes
                 = RaiseMaxTotal(Proposal(i).max_total_shares_at_yes)
        PROVE  Proposal(i)'.yes_votes <= Proposal(i)'.max_total_shares_at_yes
    <3>1. Proposal(i)'.yes_votes <= Cardinality(HeldShares(YesVoters(i))')
      BY DEF YesVotesBacked
    <3>2. /\ HeldShares(YesVoters(i))' \subseteq Issued(Members')
          /\ IsFiniteSet(Issued(Members'))
          /\ TotalShares' = Cardinality(Issued(Members'))
      BY DEF HeldShares, Issued, Tokens, HoldingsOf, YesVoters, VoteInv, SharesInv
    <3>3. /\ Cardinality(HeldShares(YesVoters(i))') \in Nat
          /\ Cardinality(HeldShares(YesVoters(i))') <= TotalShares'
      BY <3>2, FS_Subset, FS_CardinalityType
    <3>4. TotalShares' = TotalShares /\ TotalShares \in Nat
      BY <1>1, <2>3, NumberAssumption, WordAssumption
      DEF SubmitVote, shares, TypeOK, Number
    <3>5. TotalShares <= Proposal(i)'.max_total_shares_at_yes
      <4> DEFINE x == Proposal(i).max_total_shares_at_yes
      <4>1. x \in Nat
        BY <1>1, <1>4, QueueTypes, NumberAssumption, WordAssumption
        DEF ProposalType, Number
      <4> HIDE DEF x
      <4>2. TotalShares <= RaiseMaxTotal(x)
        BY <3>4, <4>1 DEF RaiseMaxTotal
      <4> QED
        BY <2>3, <4>2 DEF x
    <3>6. Proposal(i)'.yes_votes \in Nat
      <4>1. i + 1 \in 1 .. Len(ProposalQueue')
        BY <1>1 DEF Indices, TypeOK
      <4>2. Proposal(i)' \in ProposalType
        BY <1>1, <4>1 DEF TypeOK, Proposal
      <4> QED
        BY <4>2, NumberAssumption, WordAssumption DEF ProposalType, Number
    <3> QED
      BY <1>2, <3>1, <3>3, <3>4, <3>5, <3>6
  <2> QED
    BY <1>1, <1>4, <2>2, <2>3, YesVotesStep
<1> QED
  BY <1>3, <1>4

\* The dilution check of process_proposal divides by no fewer shares than
\* voted yes: at the last yes vote TotalShares was at least the shares of all
\* the yes voters, and submit_vote keeps the maximum (lib.rs:358-360, 394).
THEOREM DilutionCountsVoters == SpecFounded => []YesVotesWithinTotal
<1>1. Init => YesVotesWithinTotal
  BY NoVotesInit
<1>2. VoteInv /\ VoteInv' /\ YesVotesBacked' /\ YesVotesWithinTotal
        /\ [NextFounded]_vars => YesVotesWithinTotal'
  BY YesVotesWithinTotalStep
<1> QED
  BY <1>1, <1>2, VoteInvAlways, YesVotesStayBacked, PTL DEF SpecFounded

=============================================================================
