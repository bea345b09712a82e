----------------------- MODULE MolochV1LifecycleProofs -----------------------
(***************************************************************************)
(* The queue of the DAO pallet implements the abstract life cycle of       *)
(* requests for shares: every call of a founded DAO in a build with        *)
(* overflow checks is a step of ProposalLifecycle or changes nothing of    *)
(* it.                                                                     *)
(***************************************************************************)
EXTENDS MolochV1QueueProofs, SequenceTheorems

-----------------------------------------------------------------------------
(* The requests the queue stands for.                                      *)

RequestOf(p) == [status |-> Status(p), shares |-> p.shares_requested]

QueueRequests == [k \in 1 .. Len(ProposalQueue) |-> RequestOf(ProposalQueue[k])]

\* What is not processed is pending, or aborted.
LEMMA StatusOfPending ==
  ASSUME FinalInv, NEW i \in Indices
  PROVE  /\ Status(Proposal(i)) \in {"pending", "aborted"}
              <=> ~Proposal(i).processed
         /\ ~Proposal(i).processed =>
              Status(Proposal(i)) = IF Proposal(i).aborted THEN "aborted"
                                                           ELSE "pending"
<1>1. /\ Proposal(i) \in ProposalType
      /\ Proposal(i).did_pass => Proposal(i).processed
  BY QueueTypes DEF FinalInv, PassedAreProcessed
<1>2. /\ Proposal(i).processed \in BOOLEAN
      /\ Proposal(i).did_pass \in BOOLEAN
      /\ Proposal(i).aborted \in BOOLEAN
  BY <1>1 DEF ProposalType
<1> QED
  BY <1>1, <1>2 DEF Status

\* The requests that are not settled are the proposals not processed.
LEMMA UnsettledIsPending ==
  ASSUME FinalInv
  PROVE  Lifecycle!Unsettled = {i + 1 : i \in Pending}
<1>1. ProposalQueue \in Seq(ProposalType) /\ Len(ProposalQueue) \in Nat
  BY DEF FinalInv, TypeOK
<1>2. ASSUME NEW k \in 1 .. Len(ProposalQueue)
      PROVE  Status(ProposalQueue[k]) \in {"pending", "aborted"}
               <=> ~ProposalQueue[k].processed
  <2>1. k - 1 \in Indices /\ (k - 1) + 1 = k
    BY <1>1 DEF Indices
  <2> QED
    BY <2>1, StatusOfPending DEF Proposal
<1>3. \A k \in 1 .. Len(ProposalQueue) : k - 1 \in Indices /\ (k - 1) + 1 = k
  BY <1>1 DEF Indices
<1>4. \A i \in Indices : i + 1 \in 1 .. Len(ProposalQueue)
  BY <1>1 DEF Indices
<1>5. Lifecycle!Unsettled =
        {k \in 1 .. Len(ProposalQueue) : ~ProposalQueue[k].processed}
  BY <1>1, <1>2 DEF Lifecycle!Unsettled, Lifecycle!Pending, Lifecycle!Aborted
<1> QED
  BY <1>3, <1>4, <1>5 DEF Pending, Proposal

\* So the shares they reserve are as many as the queue has requested.
LEMMA ReservedAccounted ==
  ASSUME FinalInv, RequestedInv
  PROVE  Cardinality(Lifecycle!Reserved) = TotalSharesRequested
<1> DEFINE S == RequestedTokens
           T == Lifecycle!Reserved
           f == [t \in S |-> <<t[1] + 1, t[2]>>]
<1>1. Pending \subseteq Nat /\ \A i \in Pending : i + 1 \in 1 .. Len(ProposalQueue)
  BY QueueTypes DEF FinalInv, Pending
<1>2. \A t : t \in S <=> \E i \in Pending :
               \E j \in 1 .. Proposal(i).shares_requested : t = <<i, j>>
  BY DEF RequestedTokens, Pending
<1>3. \A t : t \in T <=> \E i \in Pending :
               \E j \in 1 .. Proposal(i).shares_requested : t = <<i + 1, j>>
  <2> DEFINE U == {i + 1 : i \in Pending}
             g == [k \in U |-> ProposalQueue[k].shares_requested]
  <2>1. \A k \in U : k \in 1 .. Len(ProposalQueue)
    BY <1>1
  <2>2. T = Tokens(U, g)
    BY <2>1, UnsettledIsPending DEF Lifecycle!Reserved, Tokens
  <2>3. \A t : t \in T <=> \E k \in U : \E j \in 1 .. g[k] : t = <<k, j>>
    <3> HIDE DEF T, U, g
    <3> QED
      BY <2>2, TokensElements
  <2>4. \A i \in Pending : g[i + 1] = Proposal(i).shares_requested
    BY DEF Proposal
  <2>5. /\ \A i \in Pending : i + 1 \in U
        /\ \A k \in U : \E i \in Pending : k = i + 1
    OBVIOUS
  <2> HIDE DEF T, U, g
  <2>6. ASSUME NEW t, t \in T
        PROVE  \E i \in Pending :
                 \E j \in 1 .. Proposal(i).shares_requested : t = <<i + 1, j>>
    BY <2>3, <2>4, <2>5, <2>6
  <2>7. ASSUME NEW i \in Pending, NEW j \in 1 .. Proposal(i).shares_requested
        PROVE  <<i + 1, j>> \in T
    BY <2>3, <2>4, <2>5
  <2> QED
    BY <2>6, <2>7
<1> HIDE DEF S, T
<1>4. f \in [S -> T]
  BY <1>2, <1>3
<1>5. ASSUME NEW s \in S, NEW t \in S, f[s] = f[t] PROVE s = t
  BY <1>1, <1>2, <1>5
<1>6. ASSUME NEW t \in T PROVE \E s \in S : f[s] = t
  <2>1. PICK i \in Pending :
          \E j \in 1 .. Proposal(i).shares_requested : t = <<i + 1, j>>
    BY <1>3
  <2>2. PICK j \in 1 .. Proposal(i).shares_requested : t = <<i + 1, j>>
    BY <2>1
  <2>3. <<i, j>> \in S
    BY <1>2
  <2> QED
    BY <2>2, <2>3
<1> HIDE DEF f
<1>7. f \in Bijection(S, T)
  BY <1>4, <1>5, <1>6 DEF Bijection, Injection, Surjection, IsInjective
<1>8. IsFiniteSet(S) /\ TotalSharesRequested = Cardinality(S)
  BY DEF RequestedInv, RequestedSharesAccounted, S
<1>9. Cardinality(T) = Cardinality(S)
  BY <1>7, <1>8, FS_Bijection DEF ExistsBijection
<1> QED
  BY <1>8, <1>9 DEF T

-----------------------------------------------------------------------------
(* What a call does to the requests.                                       *)

LEMMA RequestsTyped ==
  ASSUME TypeOK
  PROVE  /\ Len(ProposalQueue) \in Nat
         /\ DOMAIN QueueRequests = 1 .. Len(ProposalQueue)
         /\ \A i \in Indices : /\ i + 1 \in DOMAIN QueueRequests
                               /\ QueueRequests[i + 1] = RequestOf(Proposal(i))
BY QueueTypes DEF TypeOK, QueueRequests, Proposal

\* Replacing a proposal replaces its request.
LEMMA RequestReplaced ==
  ASSUME TypeOK, NEW i \in Indices, NEW q \in ProposalType, Replaces(i, q)
  PROVE  QueueRequests' = [QueueRequests EXCEPT ![i + 1] = RequestOf(q)]
<1>1. /\ Len(ProposalQueue') = Len(ProposalQueue)
      /\ \A j \in Indices : Proposal(j)' = IF j = i THEN q ELSE Proposal(j)
  BY ReplaceKeeps
<1>2. \A k \in 1 .. Len(ProposalQueue) : k - 1 \in Indices /\ (k - 1) + 1 = k
  BY RequestsTyped DEF Indices
<1>3. ASSUME NEW k \in 1 .. Len(ProposalQueue)
      PROVE  ProposalQueue'[k] = IF k = i + 1 THEN q ELSE ProposalQueue[k]
  <2>1. /\ k - 1 \in Indices /\ (k - 1) + 1 = k
        /\ k - 1 = i <=> k = i + 1
    BY <1>2, QueueTypes
  <2> QED
    BY <1>1, <2>1 DEF Proposal
<1>4. QueueRequests' =
        [k \in 1 .. Len(ProposalQueue') |-> RequestOf(ProposalQueue'[k])]
  BY DEF QueueRequests, RequestOf, Status
<1> QED
  BY <1>1, <1>3, <1>4 DEF QueueRequests

\* A request with another status is the request EXCEPT its status.
LEMMA StatusReplaced ==
  ASSUME NEW r, NEW s, NEW n, NEW t, r = [status |-> s, shares |-> n]
  PROVE  [r EXCEPT !.status = t] = [status |-> t, shares |-> n]
OBVIOUS

\* Replacing a proposal by one that requests as much replaces the status of
\* its request.
LEMMA RequestMarked ==
  ASSUME TypeOK, NEW i \in Indices, NEW q \in ProposalType, Replaces(i, q),
         q.shares_requested = Proposal(i).shares_requested
  PROVE  QueueRequests' = [QueueRequests EXCEPT ![i + 1].status = Status(q)]
<1> DEFINE r == QueueRequests[i + 1]
           n == Proposal(i).shares_requested
<1>1. r = [status |-> Status(Proposal(i)), shares |-> n]
  BY RequestsTyped DEF RequestOf
<1>2. RequestOf(q) = [status |-> Status(q), shares |-> n]
  BY DEF RequestOf
<1>3. [r EXCEPT !.status = Status(q)] = RequestOf(q)
  <2> HIDE DEF r, n
  <2> QED
    BY <1>1, <1>2, StatusReplaced
<1>4. QueueRequests' = [QueueRequests EXCEPT ![i + 1] = RequestOf(q)]
  BY RequestReplaced
<1> QED
  BY <1>3, <1>4, Zenon

\* A vote changes no request.
LEMMA RequestsAfterVote ==
  ASSUME TypeOK, NEW who \in Users, NEW i \in Indices, SubmitVote(who, i)
  PROVE  QueueRequests' = QueueRequests
<1>1. PICK q \in ProposalType : Replaces(i, q) /\ SameRequest(q, Proposal(i))
  BY VoteEffect
<1>2. RequestOf(q) = RequestOf(Proposal(i))
  BY <1>1 DEF SameRequest, RequestOf, Status
<1>3. QueueRequests' = [QueueRequests EXCEPT ![i + 1] = RequestOf(q)]
  BY <1>1, RequestReplaced
<1> QED
  BY <1>2, <1>3, RequestsTyped DEF QueueRequests

\* A submission appends a pending request.
LEMMA RequestsAfterSubmit ==
  ASSUME TypeOK, NEW who \in Users, NEW a \in Users, NEW t \in Tributes,
         NEW n \in ShareRequests, SubmitProposal(who, a, t, n)
  PROVE  QueueRequests' =
           Append(QueueRequests, [status |-> "pending", shares |-> n])
<1> DEFINE p == NewProposal(AddressOfDelegates[who], a, t, n)
           r == [status |-> "pending", shares |-> n]
<1>1. Appends(p) /\ p \in ProposalType
  BY SubmitEffect
<1>2. RequestOf(p) = r
  BY DEF RequestOf, Status, NewProposal
<1> HIDE DEF p, r
<1> PICK k \in Nat : k = Len(ProposalQueue)
  BY DEF TypeOK
<1>3. /\ Len(ProposalQueue') = k + 1
      /\ \A j \in 1 .. k : ProposalQueue'[j] = ProposalQueue[j]
      /\ ProposalQueue'[k + 1] = p
  BY <1>1 DEF Appends, TypeOK
<1>4. QueueRequests' =
        [j \in 1 .. Len(ProposalQueue') |-> RequestOf(ProposalQueue'[j])]
  BY DEF QueueRequests, RequestOf, Status
<1> DEFINE S == {RequestOf(q) : q \in ProposalType} \cup {r}
           Q == [j \in 1 .. k |-> RequestOf(ProposalQueue[j])]
<1>5. QueueRequests = Q /\ Q \in Seq(S) /\ Len(Q) = k
  BY DEF QueueRequests, TypeOK
<1>6. QueueRequests' = [j \in 1 .. k + 1 |-> IF j = k + 1 THEN r ELSE Q[j]]
  BY <1>2, <1>3, <1>4
<1>7. r \in S
  OBVIOUS
<1> HIDE DEF S, Q
<1>8. Append(Q, r) = [j \in 1 .. k + 1 |-> IF j = k + 1 THEN r ELSE Q[j]]
  <2>1. Append(Q, r) \in Seq(S) /\ Len(Append(Q, r)) = k + 1
    BY <1>5, <1>7
  <2>2. Append(Q, r) \in [1 .. k + 1 -> S]
    BY <2>1, LenProperties
  <2>3. \A j \in 1 .. k + 1 : Append(Q, r)[j] = IF j = k + 1 THEN r ELSE Q[j]
    BY <1>5, <1>7
  <2> QED
    BY <2>2, <2>3
<1> QED
  BY <1>5, <1>6, <1>8 DEF r

-----------------------------------------------------------------------------
(* The calls as steps of the abstract specification.                       *)

LEMMA AbstractCardinality == \A S : Lifecycle!Cardinality(S) = Cardinality(S)
BY DEF Lifecycle!Cardinality, Cardinality

\* The abstract actions, written with the requests of the queue.
LEMMA AbstractInit ==
  Lifecycle!Init <=> QueueRequests = << >> /\ TotalShares = 0
BY DEF Lifecycle!Init, QueueRequests, RequestOf

LEMMA AbstractFound ==
  Lifecycle!Found <=> /\ TotalShares = 0
                      /\ QueueRequests = << >>
                      /\ TotalShares' = 1
                      /\ QueueRequests' = QueueRequests
BY DEF Lifecycle!Found, QueueRequests, RequestOf

LEMMA AbstractRequest ==
  \A n : Lifecycle!Request(n) <=>
    /\ TotalShares + Cardinality(Lifecycle!Reserved) + n <= MaxShares
    /\ QueueRequests' =
         Append(QueueRequests, [status |-> "pending", shares |-> n])
    /\ TotalShares' = TotalShares
BY AbstractCardinality
DEF Lifecycle!Request, Lifecycle!Pending, QueueRequests, RequestOf

LEMMA AbstractAbort ==
  \A k : Lifecycle!AbortRequest(k) <=>
    /\ QueueRequests[k].status = "pending"
    /\ QueueRequests' = [QueueRequests EXCEPT ![k].status = "aborted"]
    /\ TotalShares' = TotalShares
BY DEF Lifecycle!AbortRequest, Lifecycle!Pending, Lifecycle!Aborted,
       QueueRequests, RequestOf

LEMMA AbstractPass ==
  \A k : Lifecycle!SettlePassed(k) <=>
    /\ QueueRequests[k].status = "pending"
    /\ \A j \in Lifecycle!Unsettled : k <= j
    /\ QueueRequests' = [QueueRequests EXCEPT ![k].status = "passed"]
    /\ TotalShares' = TotalShares + QueueRequests[k].shares
BY DEF Lifecycle!SettlePassed, Lifecycle!IsFirst, Lifecycle!Pending,
       Lifecycle!Passed, QueueRequests, RequestOf

LEMMA AbstractFail ==
  \A k : Lifecycle!SettleFailed(k) <=>
    /\ \A j \in Lifecycle!Unsettled : k <= j
    /\ QueueRequests' = [QueueRequests EXCEPT
         ![k].status = IF @ = "aborted" THEN "withdrawn" ELSE "failed"]
    /\ TotalShares' = TotalShares
BY DEF Lifecycle!SettleFailed, Lifecycle!IsFirst, Lifecycle!Aborted,
       Lifecycle!Withdrawn, Lifecycle!Failed, QueueRequests, RequestOf

LEMMA AbstractBurn ==
  \A n : Lifecycle!Burn(n) <=>
    /\ n <= TotalShares
    /\ TotalShares' = TotalShares - n
    /\ QueueRequests' = QueueRequests
BY DEF Lifecycle!Burn, QueueRequests, RequestOf

LEMMA AbstractStutter ==
  /\ QueueRequests' = QueueRequests /\ TotalShares' = TotalShares
       => UNCHANGED Lifecycle!vars
BY DEF Lifecycle!vars, QueueRequests, RequestOf

LifecycleInv ==
  /\ FinalInv
  /\ RequestedInv
  /\ ProcessedInOrder

\* The first proposal that is not processed is the request settled next:
\* one processed predecessor is enough (lib.rs:385).
LEMMA HeadIsFirst ==
  ASSUME LifecycleInv, NEW i \in Indices, PreviousProcessed(i)
  PROVE  \A j \in Lifecycle!Unsettled : i + 1 <= j
<1>1. /\ FinalInv /\ TypeOK /\ ProcessedInOrder
      /\ i \in Nat /\ i + 1 \in 1 .. Len(ProposalQueue)
      /\ Len(ProposalQueue) \in Nat
  BY QueueTypes, RequestsTyped DEF LifecycleInv, FinalInv
<1>2. ASSUME NEW h \in Pending, h < i PROVE FALSE
  <2>1. i - 1 \in Indices /\ h \in Indices /\ h <= i - 1 /\ i > 0
    BY <1>1, <1>2 DEF Indices, Pending
  <2>2. Proposal(i - 1).processed
    BY <2>1 DEF PreviousProcessed
  <2>3. Proposal(h).processed
    BY <1>1, <2>1, <2>2 DEF ProcessedInOrder
  <2> QED
    BY <2>3 DEF Pending
<1>3. \A h \in Pending : h \in Nat
  BY <1>1 DEF Pending, Indices
<1> QED
  BY <1>1, <1>2, <1>3, UnsettledIsPending

LEMMA FoundStep ==
  ASSUME LifecycleInv, Found
  PROVE  Lifecycle!Found
<1>1. /\ NoDaoYet /\ DOMAIN Members = {}
      /\ TotalShares' = 1 /\ ProposalQueue' = ProposalQueue
  BY DEF LifecycleInv, FinalInv, Found, Summon, queue
<1>2. QueueRequests = << >>
  BY <1>1 DEF NoDaoYet, QueueRequests
<1>3. QueueRequests' = QueueRequests
  BY <1>1 DEF QueueRequests, RequestOf, Status
<1> QED
  BY <1>1, <1>2, <1>3, AbstractFound DEF NoDaoYet

LEMMA SubmitStep ==
  ASSUME LifecycleInv, NEW who \in Users, NEW a \in Users, NEW t \in Tributes,
         NEW n \in ShareRequests, SubmitProposal(who, a, t, n)
  PROVE  \E m \in 0 .. MaxShares : Lifecycle!Request(m)
<1>1. TypeOK /\ FinalInv /\ RequestedInv
  BY DEF LifecycleInv, FinalInv
<1>2. /\ {TotalShares, TotalSharesRequested, n, MaxShares} \subseteq Nat
      /\ TotalShares + TotalSharesRequested + n <= MaxShares
      /\ TotalShares' = TotalShares
  BY <1>1, InputAssumption, NumberAssumption, WordAssumption
  DEF TypeOK, Number, SubmitProposal, FitsMaxShares
<1>3. n \in 0 .. MaxShares
  BY <1>2
<1>4. Cardinality(Lifecycle!Reserved) = TotalSharesRequested
  BY <1>1, ReservedAccounted
<1>5. QueueRequests' =
        Append(QueueRequests, [status |-> "pending", shares |-> n])
  BY <1>1, RequestsAfterSubmit
<1>6. Lifecycle!Request(n)
  BY <1>2, <1>4, <1>5, AbstractRequest
<1> QED
  BY <1>3, <1>6

LEMMA ProcessStep ==
  ASSUME LifecycleInv, NEW who \in Users, NEW i \in Indices,
         ProcessProposal(who, i)
  PROVE  /\ i + 1 \in Lifecycle!Unsettled
         /\ Lifecycle!SettlePassed(i + 1) \/ Lifecycle!SettleFailed(i + 1)
<1> DEFINE p == Proposal(i)
           k == i + 1
<1>1. TypeOK /\ FinalInv /\ p \in ProposalType /\ ~p.processed
  BY QueueTypes DEF LifecycleInv, FinalInv, ProcessProposal, NotProcessed
<1>2. k \in Lifecycle!Unsettled
  BY <1>1, UnsettledIsPending DEF Pending
<1>3. \A j \in Lifecycle!Unsettled : k <= j
  BY HeadIsFirst DEF ProcessProposal
<1>4. /\ k \in DOMAIN QueueRequests
      /\ QueueRequests[k] = [status |-> Status(p), shares |-> p.shares_requested]
      /\ Status(p) = IF p.aborted THEN "aborted" ELSE "pending"
  BY <1>1, RequestsTyped, StatusOfPending DEF RequestOf
<1>5. PICK q \in ProposalType :
        /\ Replaces(i, q)
        /\ q = [p EXCEPT !.processed = TRUE, !.did_pass = q.did_pass]
        /\ \/ Pass(who, i) /\ q.did_pass
           \/ Fail(who, i) /\ q.did_pass = p.did_pass
  BY <1>1, ProcessEffect
<1>6. /\ q.processed /\ q.aborted = p.aborted
      /\ q.shares_requested = p.shares_requested
  BY <1>1, <1>5 DEF ProposalType
<1>7. QueueRequests' = [QueueRequests EXCEPT ![k].status = Status(q)]
  BY <1>1, <1>5, <1>6, RequestMarked
<1>8. CASE Pass(who, i) /\ q.did_pass
  <2>1. ~p.aborted /\ TotalShares' = TotalShares + p.shares_requested
    BY <1>8 DEF Pass, Passes
  <2>2. Status(q) = "passed"
    BY <1>6, <1>8, <2>1 DEF Status
  <2>3. QueueRequests' = [QueueRequests EXCEPT ![k].status = "passed"]
    BY <1>7, <2>2
  <2>4. /\ QueueRequests[k].status = "pending"
        /\ QueueRequests[k].shares = p.shares_requested
    BY <1>4, <2>1
  <2> QED
    BY <1>2, <1>3, <2>1, <2>3, <2>4, AbstractPass
<1>9. CASE Fail(who, i) /\ q.did_pass = p.did_pass
  <2>1. TotalShares' = TotalShares /\ ~q.did_pass
    BY <1>1, <1>9 DEF Fail, FinalInv, PassedAreProcessed
  <2>2. QueueRequests[k].status = IF p.aborted THEN "aborted" ELSE "pending"
    BY <1>4
  <2>3. Status(q) = IF QueueRequests[k].status = "aborted" THEN "withdrawn"
                                                           ELSE "failed"
    BY <1>6, <2>1, <2>2 DEF Status
  <2> QED
    BY <1>2, <1>3, <1>7, <2>1, <2>3, AbstractFail
<1> QED
  BY <1>5, <1>8, <1>9

LEMMA AbortStep ==
  ASSUME LifecycleInv, NEW who \in Users, NEW i \in Indices, Abort(who, i)
  PROVE  /\ i + 1 \in Lifecycle!Unsettled
         /\ Lifecycle!AbortRequest(i + 1)
<1> DEFINE p == Proposal(i)
           q == [p EXCEPT !.token_tribute = 0, !.aborted = TRUE]
           k == i + 1
<1>1. TypeOK /\ FinalInv /\ p \in ProposalType /\ WindowWithinVoting
  BY QueueTypes DEF LifecycleInv, FinalInv
<1>2. ~p.processed /\ ~p.aborted
  <2>1. InAbortWindow(p) /\ ~p.aborted
    BY DEF Abort
  <2>2. p.processed => ~InAbortWindow(p)
    BY <1>1, OverIsClosed DEF FinalInv, ProcessedAreOver
  <2> QED
    BY <2>1, <2>2
<1>3. k \in Lifecycle!Unsettled
  BY <1>1, <1>2, UnsettledIsPending DEF Pending
<1>4. /\ k \in DOMAIN QueueRequests
      /\ QueueRequests[k] = [status |-> "pending", shares |-> p.shares_requested]
  BY <1>1, <1>2, RequestsTyped, StatusOfPending DEF RequestOf
<1>5. q \in ProposalType /\ Replaces(i, q)
  BY <1>1, AbortEffect
<1>6. /\ q.aborted /\ q.processed = p.processed
      /\ q.shares_requested = p.shares_requested
  BY <1>1 DEF ProposalType
<1> HIDE DEF q
<1>7. Status(q) = "aborted"
  BY <1>2, <1>5, <1>6 DEF Status
<1>8. QueueRequests' = [QueueRequests EXCEPT ![k].status = "aborted"]
  BY <1>1, <1>5, <1>6, <1>7, RequestMarked
<1>9. QueueRequests[k].status = "pending" /\ TotalShares' = TotalShares
  BY <1>4 DEF Abort, shares
<1> QED
  BY <1>3, <1>8, <1>9, AbstractAbort

LEMMA QuitStep ==
  ASSUME LifecycleInv, NEW who \in Users, NEW n \in 0 .. MaxShares,
         Ragequit(who, n)
  PROVE  \/ \E m \in 1 .. MaxShares : Lifecycle!Burn(m)
         \/ UNCHANGED Lifecycle!vars
<1>1. /\ TotalShares \in Nat /\ MaxShares \in Nat
      /\ n <= TotalShares /\ TotalShares' = TotalShares - n
  BY NumberAssumption, WordAssumption
  DEF LifecycleInv, FinalInv, TypeOK, Number, Ragequit
<1>2. QueueRequests' = QueueRequests
  BY DEF Ragequit, queue, QueueRequests, RequestOf, Status
<1>3. CASE n = 0
  BY <1>1, <1>2, <1>3, AbstractStutter
<1>4. CASE n # 0
  <2>1. Lifecycle!Burn(n) /\ n \in 1 .. MaxShares
    BY <1>1, <1>2, <1>4, AbstractBurn
  <2> QED
    BY <2>1
<1> QED
  BY <1>3, <1>4

\* Every step of the pallet is an abstract step or a stutter.
LEMMA LifecycleStep ==
  ASSUME LifecycleInv, [NextFounded]_vars
  PROVE  [Lifecycle!Next]_(Lifecycle!vars)
<1>1. ASSUME UNCHANGED <<ProposalQueue, TotalShares>>
      PROVE  UNCHANGED Lifecycle!vars
  BY <1>1, AbstractStutter DEF QueueRequests, RequestOf, Status
<1>2. CASE UNCHANGED vars
  BY <1>1, <1>2 DEF vars, queue, shares
<1>3. CASE Found
  BY <1>3, FoundStep DEF Lifecycle!Next
<1>4. ASSUME NEW who \in Users, NEW a \in Users, NEW t \in Tributes,
             NEW n \in ShareRequests, SubmitProposal(who, a, t, n)
      PROVE  Lifecycle!Next
  BY <1>4, SubmitStep DEF Lifecycle!Next
<1>5. ASSUME NEW who \in Users, NEW i \in Indices, SubmitVote(who, i)
      PROVE  UNCHANGED Lifecycle!vars
  BY <1>5, RequestsAfterVote, AbstractStutter
  DEF LifecycleInv, FinalInv, SubmitVote, shares
<1>6. ASSUME NEW who \in Users, NEW i \in Indices, ProcessProposal(who, i)
      PROVE  Lifecycle!Next
  BY <1>6, ProcessStep DEF Lifecycle!Next
<1>7. ASSUME NEW who \in Users, NEW n \in 0 .. MaxShares, Ragequit(who, n)
      PROVE  [Lifecycle!Next]_(Lifecycle!vars)
  BY <1>7, QuitStep DEF Lifecycle!Next
<1>8. ASSUME NEW who \in Users, NEW i \in Indices, Abort(who, i)
      PROVE  Lifecycle!Next
  BY <1>8, AbortStep DEF Lifecycle!Next
<1>9. CASE \E who \in Users, t \in Tributes : Custody(who, t)
  BY <1>1, <1>9 DEF Custody, queue, shares
<1>10. CASE \E who \in Users, key \in DelegateKeys : UpdateDelegate(who, key)
  BY <1>1, <1>10 DEF UpdateDelegate, queue, shares
<1>11. CASE Tick
  BY <1>1, <1>11 DEF Tick, queue, shares
<1> QED
  BY <1>2, <1>3, <1>4, <1>5, <1>6, <1>7, <1>8, <1>9, <1>10, <1>11
  DEF NextFounded, CallOrTick

\* In a build with overflow checks a founded DAO issues shares for passed
\* requests only, settles requests once and in order, and never has more
\* shares issued and requested than MaxShares, whatever members vote, burn,
\* abort and delegate (lib.rs:274-321, 374-471, 475-532).
THEOREM QueueImplementsLifecycle ==
  ASSUME OverflowChecks PROVE SpecFounded => ImplementsLifecycle
<1>1. Init => RequestedInv /\ Lifecycle!Init
  <2>1. Init => QueueRequests = << >> /\ TotalShares = 0
    BY DEF Init, Unsummoned, QueueRequests
  <2> QED
    BY <2>1, RequestedInit, AbstractInit
<1>2. TypeOK /\ RequestedInv /\ [NextFounded]_vars => RequestedInv'
  BY RequestedStep, FoundedIsNext
<1>3. FinalInv => TypeOK
  BY DEF FinalInv
<1>4. FinalInv /\ RequestedInv /\ ProcessedInOrder => LifecycleInv
  BY DEF LifecycleInv
<1>5. LifecycleInv /\ [NextFounded]_vars => [Lifecycle!Next]_(Lifecycle!vars)
  BY LifecycleStep
<1> QED
  BY <1>1, <1>2, <1>3, <1>4, <1>5, FinalAlways, QueueInOrderFounded, PTL
  DEF SpecFounded, ImplementsLifecycle, Lifecycle!Spec

=============================================================================
