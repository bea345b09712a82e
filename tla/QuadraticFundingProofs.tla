------------------------ MODULE QuadraticFundingProofs ------------------------
(***************************************************************************)
(* Properties of the funding pallet for every set of users, rounds and     *)
(* projects, every price, both build profiles and all arguments of the     *)
(* calls: the numbers the pallet keeps vote by vote are the sums they      *)
(* stand for.                                                              *)
(***************************************************************************)
EXTENDS QuadraticFundingProperties, DataProofs

-----------------------------------------------------------------------------
(* Arithmetic.                                                             *)

\* The prices are positive.
LEMMA PricesAreNat ==
  /\ UnitOfVote \in Nat /\ UnitOfVote > 0
  /\ NumberOfUnitPerVote \in Nat /\ NumberOfUnitPerVote > 0
  /\ FeeRatioPerVote \in Nat /\ FeeRatioPerVote > 0
  /\ NumberOfUnitPerVote - FeeRatioPerVote \in Nat
BY PriceAssumption

\* The product of two consecutive numbers is even.
LEMMA PointsTwice ==
  ASSUME NEW n \in Nat
  PROVE  Points(n) \in Nat /\ 2 * Points(n) = n * (n + 1)
<1>1. PICK k \in Nat : n = 2 * k \/ n = 2 * k + 1
  <2>1. n \div 2 \in Nat /\ (n = 2 * (n \div 2) \/ n = 2 * (n \div 2) + 1)
    OBVIOUS
  <2> QED
    BY <2>1
<1>2. PICK x \in Nat : n * (n + 1) = 2 * x
  <2>1. CASE n = 2 * k
    <3>1. n * (n + 1) = 2 * (k * (2 * k + 1)) /\ k * (2 * k + 1) \in Nat
      BY <2>1
    <3> QED
      BY <3>1
  <2>2. CASE n = 2 * k + 1
    <3>1. n * (n + 1) = 2 * ((2 * k + 1) * (k + 1)) /\ (2 * k + 1) * (k + 1) \in Nat
      BY <2>2
    <3> QED
      BY <3>1
  <2> QED
    BY <1>1, <2>1, <2>2
<1>3. (2 * x) \div 2 = x
  OBVIOUS
<1> QED
  BY <1>2, <1>3 DEF Points

\* Votes bought in two calls cost what they cost in one.
LEMMA CostIsPoints ==
  ASSUME NEW voted \in Nat, NEW ballot \in Nat
  PROVE  /\ cal_cost(voted, ballot) \in Nat
         /\ Points(ballot + voted) = Points(voted) + cal_cost(voted, ballot)
<1> DEFINE a == Points(voted)
           b == Points(ballot)
           c == Points(ballot + voted)
<1>1. /\ a \in Nat /\ 2 * a = voted * (voted + 1)
      /\ b \in Nat /\ 2 * b = ballot * (ballot + 1)
      /\ c \in Nat /\ 2 * c = (ballot + voted) * (ballot + voted + 1)
  BY PointsTwice
<1>2. cal_cost(voted, ballot) = b + ballot * voted
  BY DEF cal_cost, Points
<1>3. ballot * voted \in Nat
  OBVIOUS
<1>4. (ballot + voted) * (ballot + voted + 1)
        = voted * (voted + 1) + ballot * (ballot + 1) + 2 * (ballot * voted)
  OBVIOUS
<1> HIDE DEF a, b, c
<1>5. c = a + (b + ballot * voted)
  <2> DEFINE p == ballot * voted
             u == voted * (voted + 1)
             w == ballot * (ballot + 1)
             z == (ballot + voted) * (ballot + voted + 1)
  <2>1. 2 * a = u /\ 2 * b = w /\ 2 * c = z /\ z = u + w + 2 * p /\ p \in Nat
    BY <1>1, <1>3, <1>4
  <2> HIDE DEF p, u, w, z
  <2>2. 2 * c = 2 * a + 2 * b + 2 * p
    BY <2>1
  <2>3. c = a + (b + p)
    BY <1>1, <2>1, <2>2
  <2> QED
    BY <2>3 DEF p
<1> QED
  BY <1>1, <1>2, <1>3, <1>5 DEF a, c, b

\* The price less the fee is the net price of the points.
LEMMA NetPrice ==
  ASSUME NEW points \in Nat
  PROVE  /\ cal_amount(points, FALSE) \in Nat
         /\ cal_amount(points, TRUE) \in Nat
         /\ cal_amount(points, TRUE) = UnitOfVote * FeeRatioPerVote * points
         /\ cal_amount(points, FALSE) - cal_amount(points, TRUE)
              = UnitOfVote * (NumberOfUnitPerVote - FeeRatioPerVote) * points
         /\ cal_amount(points, FALSE) - cal_amount(points, TRUE) \in Nat
<1> DEFINE u == UnitOfVote
           n == NumberOfUnitPerVote
           f == FeeRatioPerVote
<1>1. u \in Nat /\ n \in Nat /\ f \in Nat /\ n - f \in Nat
  BY PricesAreNat
<1>2. /\ cal_amount(points, FALSE) = u * n * points
      /\ cal_amount(points, TRUE) = u * f * points
  BY DEF cal_amount
<1> HIDE DEF u, n, f
<1>3. u * n * points \in Nat /\ u * f * points \in Nat
  BY <1>1
<1>4. u * n * points - u * f * points = u * (n - f) * points
  BY <1>1
<1>5. u * (n - f) * points \in Nat
  BY <1>1
<1> QED
  BY <1>2, <1>3, <1>4, <1>5 DEF u, n, f

\* The plain plus is the sum modulo 2^128.
LEMMA AddIsModulo ==
  ASSUME NEW a \in Nat, NEW b \in Number
  PROVE  Add(a % U128, b) = (a + b) % U128
<1>1. U128 \in Nat /\ U128 > 0
  BY WordAssumption
<1> DEFINE q == a \div U128
           r == a % U128
<1>2. q \in Nat /\ r \in 0 .. U128 - 1 /\ a = U128 * q + r
  BY <1>1
<1>3. b \in 0 .. U128 - 1
  BY DEF Number
<1> HIDE DEF q, r
<1>4. ASSUME NEW m \in Nat, m > 0, NEW k \in Nat, NEW s \in 0 .. m - 1
      PROVE  (m * k + s) % m = s
  BY <1>4
<1>5. CASE r + b < U128
  <2>1. a + b = U128 * q + (r + b) /\ r + b \in 0 .. U128 - 1
    BY <1>1, <1>2, <1>3, <1>5
  <2> QED
    BY <1>1, <1>2, <1>4, <1>5, <2>1 DEF Add, r
<1>6. CASE ~(r + b < U128)
  <2>1. /\ a + b = U128 * (q + 1) + (r + b - U128)
        /\ r + b - U128 \in 0 .. U128 - 1
    BY <1>1, <1>2, <1>3, <1>6
  <2> QED
    BY <1>1, <1>2, <1>4, <1>6, <2>1 DEF Add, r
<1> QED
  BY <1>5, <1>6

-----------------------------------------------------------------------------
(* The payments of end_round.                                              *)

\* The balances after the payment for the project h, when b are those
\* before it.
Paid(r, b, h) ==
  IF h \notin ProjectsOf(r) THEN b
  ELSE Transfer(b, FundAccount, Project(r, h).owner,
                Payout(Rounds[r], Project(r, h)), KeepAlive)

PayoutsDefined(r) ==
  \A h \in ProjectsOf(r) : Payout(Rounds[r], Project(r, h)) \in Number

\* A payment overdraws no account.
LEMMA PaidType ==
  ASSUME TypeOK, NEW r, PayoutsDefined(r), NEW h \in Hashes,
         NEW b \in [AccountIds -> Nat]
  PROVE  Paid(r, b, h) \in [AccountIds -> Nat]
<1>1. CASE h \in ProjectsOf(r)
  <2>1. Payout(Rounds[r], Project(r, h)) \in Nat
    BY <1>1, NumberIsNat DEF PayoutsDefined
  <2>2. Project(r, h).owner \in AccountIds /\ FundAccount \in AccountIds
    BY <1>1 DEF TypeOK, ProjectsOf, Project, ProjectType, AccountIds
  <2>3. Transfer(b, FundAccount, Project(r, h).owner,
                 Payout(Rounds[r], Project(r, h)), KeepAlive)
          \in [AccountIds -> Nat]
    BY <2>1, <2>2, TransferType
  <2> QED
    BY <1>1, <2>3 DEF Paid
<1>2. CASE h \notin ProjectsOf(r)
  BY <1>2 DEF Paid
<1> QED
  BY <1>1, <1>2

\* The recursive function of BalancesAfterEnd exists: it is the list of the
\* balances after each payment, built and read by induction over the projects.
LEMMA EndBalances ==
  ASSUME TypeOK, NEW r, PayoutsDefined(r)
  PROVE  \E paid \in [0 .. LastHash -> [AccountIds -> Nat]] :
           /\ paid[0] = balances
           /\ \A h \in Hashes : paid[h] = Paid(r, paid[h - 1], h)
           /\ BalancesAfterEnd(r) = paid[LastHash]
<1> DEFINE B == [AccountIds -> Nat]
           Step(f, h) == IF h = 0 THEN balances ELSE Paid(r, f[h - 1], h)
           Lists(n, f) == /\ f \in [0 .. n -> B]
                          /\ \A h \in 0 .. n : f[h] = Step(f, h)
           Solves(f) == f = [h \in 0 .. LastHash |-> Step(f, h)]
           paid == CHOOSE f : Solves(f)
           S == {n \in 0 .. LastHash : \E f : Lists(n, f)}
           T == {n \in 0 .. LastHash : paid[n] \in B}
<1>1. LastHash \in Nat /\ balances \in B
  BY RequestAssumption DEF TypeOK
<1>2. ASSUME NEW h \in Hashes, NEW b \in B PROVE Paid(r, b, h) \in B
  BY <1>2, PaidType
<1> HIDE DEF B
<1>3. 0 .. LastHash \subseteq S
  <2>1. 0 \in S
    <3> DEFINE f == [h \in 0 .. 0 |-> balances]
    <3>1. Lists(0, f)
      BY <1>1
    <3>2. 0 \in 0 .. LastHash
      BY <1>1
    <3> HIDE DEF f
    <3> QED
      BY <3>1, <3>2
  <2>2. ASSUME NEW n \in 1 .. LastHash, n - 1 \in S PROVE n \in S
    <3>1. PICK f : Lists(n - 1, f)
      BY <2>2
    <3> DEFINE g == [h \in 0 .. n |-> IF h = n THEN Paid(r, f[n - 1], n)
                                     ELSE f[h]]
    <3>2. /\ n - 1 \in 0 .. n - 1 /\ f[n - 1] \in B
          /\ n \in Hashes /\ n \in 0 .. LastHash
      BY <1>1, <3>1 DEF Hashes
    <3>3. g \in [0 .. n -> B]
      BY <1>1, <1>2, <3>1, <3>2
    <3>4. ASSUME NEW h \in 0 .. n PROVE g[h] = Step(g, h)
      <4>1. CASE h = n
        BY <1>1, <4>1
      <4>2. CASE h = 0
        BY <1>1, <3>1, <4>2
      <4>3. CASE h # n /\ h # 0
        <5>1. h \in 0 .. n - 1 /\ h - 1 \in 0 .. n /\ h - 1 # n
          BY <1>1, <4>3
        <5>2. f[h] = Paid(r, f[h - 1], h)
          BY <3>1, <4>3, <5>1
        <5>3. g[h] = f[h] /\ g[h - 1] = f[h - 1]
          BY <4>3, <5>1
        <5> QED
          BY <4>3, <5>2, <5>3
      <4> QED
        BY <4>1, <4>2, <4>3
    <3>5. Lists(n, g)
      BY <3>3, <3>4
    <3> QED
      BY <3>2, <3>5
  <2> HIDE DEF S
  <2> QED
    BY <1>1, <2>1, <2>2, NumberInduction
<1>4. \E f : Solves(f)
  <2>1. PICK f : Lists(LastHash, f)
    BY <1>1, <1>3
  <2>2. Solves(f)
    BY <2>1
  <2> QED
    BY <2>2
<1>5. Solves(paid)
  BY <1>4
<1>6. \A h \in 0 .. LastHash : paid[h] = Step(paid, h)
  <2> HIDE DEF paid
  <2> QED
    BY <1>5
<1>7. BalancesAfterEnd(r) = paid[LastHash]
  BY DEF BalancesAfterEnd, Paid
<1> HIDE DEF paid
<1>8. 0 .. LastHash \subseteq T
  <2>1. 0 \in T
    BY <1>1, <1>6
  <2>2. ASSUME NEW n \in 1 .. LastHash, n - 1 \in T PROVE n \in T
    <3>1. n \in 0 .. LastHash /\ n # 0 /\ n \in Hashes
      BY <1>1 DEF Hashes
    <3>2. paid[n] = Paid(r, paid[n - 1], n)
      BY <1>6, <3>1
    <3> QED
      BY <1>2, <2>2, <3>1, <3>2
  <2> HIDE DEF T
  <2> QED
    BY <1>1, <2>1, <2>2, NumberInduction
<1>9. paid \in [0 .. LastHash -> B]
  BY <1>5, <1>8
<1>10. paid[0] = balances /\ \A h \in Hashes : paid[h] = Paid(r, paid[h - 1], h)
  BY <1>1, <1>6 DEF Hashes
<1> QED
  BY <1>7, <1>9, <1>10 DEF B

-----------------------------------------------------------------------------
(* Types.                                                                  *)

LEMMA TypeInit == Init => TypeOK
BY FundAssumption DEF Init, NoRounds, EmptyMap, TypeOK, AccountIds

LEMMA TypeStartRound ==
  ASSUME TypeOK, NEW r \in RoundIds, StartRound(r)
  PROVE  TypeOK'
<1>1. NewRound \in RoundType
  BY NumberIsNat DEF NewRound, RoundType
<1>2. /\ DOMAIN Rounds' \subseteq RoundIds
      /\ Rounds' \in [DOMAIN Rounds' -> RoundType]
  <2> HIDE DEF RoundType
  <2> QED
    BY <1>1, PutType DEF StartRound, TypeOK
<1> QED
  BY <1>2 DEF StartRound, TypeOK

LEMMA TypeRegisterProject ==
  ASSUME TypeOK, NEW who \in Users, NEW r \in RoundIds, NEW h \in Hashes,
         RegisterProject(who, r, h)
  PROVE  TypeOK'
<1>1. NewProject(who) \in ProjectType
  BY NumberIsNat DEF NewProject, ProjectType
<1>2. /\ DOMAIN Projects' \subseteq RoundIds \X Hashes
      /\ Projects' \in [DOMAIN Projects' -> ProjectType]
  <2>1. <<r, h>> \in RoundIds \X Hashes
    OBVIOUS
  <2> HIDE DEF ProjectType
  <2> QED
    BY <1>1, <2>1, PutType DEF RegisterProject, TypeOK
<1> QED
  BY <1>2 DEF RegisterProject, TypeOK

LEMMA TypeDonate ==
  ASSUME TypeOK, NEW who \in Users, NEW r \in RoundIds, NEW amount \in Donations,
         Donate(who, r, amount)
  PROVE  TypeOK'
<1>1. RoundAfterDonation(Rounds[r], amount) \in RoundType
  <2>1. r \in DOMAIN Rounds /\ Rounds[r] \in RoundType
    BY DEF Donate, Ongoing, TypeOK
  <2> QED
    BY <2>1 DEF Donate, RoundAfterDonation, RoundType
<1>2. /\ DOMAIN Rounds' = DOMAIN Rounds
      /\ Rounds' \in [DOMAIN Rounds' -> RoundType]
  BY <1>1 DEF Donate, TypeOK
<1>3. balances' \in [AccountIds -> Nat]
  <2>1. amount \in Nat
    BY RequestAssumption, NumberIsNat
  <2> QED
    BY <2>1, TransferType DEF Donate, TypeOK, AccountIds
<1> QED
  BY <1>2, <1>3 DEF Donate, TypeOK

LEMMA TypeVote ==
  ASSUME TypeOK, NEW who \in Users, NEW r \in RoundIds, NEW h \in Hashes,
         NEW ballot \in Ballots, Vote(who, r, h, ballot)
  PROVE  TypeOK'
<1> DEFINE project == Project(r, h)
           voted == Voted(who, r, h)
           cost == cal_cost(voted, ballot)
           amount == cal_amount(cost, FALSE)
           fee == cal_amount(cost, TRUE)
           area == NewArea(ballot, project.total_votes, voted)
<1>1. /\ r \in DOMAIN Rounds /\ Rounds[r] \in RoundType
      /\ <<r, h>> \in DOMAIN Projects /\ project \in ProjectType
  BY DEF Vote, Ongoing, TypeOK, Project
<1>2. ballot \in Number /\ voted \in Number
  BY RequestAssumption, NumberIsNat, GetType DEF TypeOK, Voted
<1>3. cost \in Nat /\ amount \in Number /\ fee \in Number /\ amount - fee \in Number
  <2>1. cost \in Number /\ amount \in Number /\ fee \in Number
    BY DEF Vote, VoteDefined
  <2>2. cost \in Nat /\ amount - fee \in Nat
    BY <2>1, NumberIsNat, NetPrice
  <2> HIDE DEF cost, amount, fee
  <2> QED
    BY <2>1, <2>2, WordAssumption DEF Number
<1>4. project.support_area + area \in Number
  BY DEF Vote, VoteDefined
<1> HIDE DEF cost, amount, fee, area, voted
<1>5. ProjectAfterVote(project, ballot, area, amount - fee) \in ProjectType
  <2>1. /\ Add(project.total_votes, ballot) \in Number
        /\ Add(project.grants, amount - fee) \in Number
    BY <1>1, <1>2, <1>3, AddType DEF ProjectType
  <2> QED
    BY <1>1, <1>4, <2>1 DEF ProjectAfterVote, ProjectType
<1>6. RoundAfterVote(Rounds[r], area, fee) \in RoundType
  <2>1. {RoundAfterVote(Rounds[r], area, fee).total_support_area,
         RoundAfterVote(Rounds[r], area, fee).total_tax} \subseteq Number
    BY DEF Vote, cost, amount, fee, area, voted
  <2> QED
    BY <1>1, <2>1 DEF RoundAfterVote, RoundType
<1>7. /\ Rounds' = [Rounds EXCEPT ![r] = RoundAfterVote(Rounds[r], area, fee)]
      /\ Projects' = [Projects EXCEPT
           ![<<r, h>>] = ProjectAfterVote(@, ballot, area, amount - fee)]
      /\ ProjectVotes' = Put(ProjectVotes, <<<<r, h>>, who>>, Add(ballot, voted))
      /\ balances' = Transfer(balances, who, FundAccount, amount, KeepAlive)
  BY DEF Vote, VoteHash, cost, amount, fee, area, voted
<1> HIDE DEF project
<1>8. /\ DOMAIN Rounds' = DOMAIN Rounds
      /\ Rounds' \in [DOMAIN Rounds -> RoundType]
  BY <1>1, <1>6, <1>7 DEF TypeOK
<1>9. /\ DOMAIN Projects' = DOMAIN Projects
      /\ Projects' \in [DOMAIN Projects -> ProjectType]
  BY <1>1, <1>5, <1>7 DEF TypeOK, project, Project
<1>10. /\ DOMAIN ProjectVotes' \subseteq (RoundIds \X Hashes) \X Users
       /\ ProjectVotes' \in [DOMAIN ProjectVotes' -> Number]
  <2>1. Add(ballot, voted) \in Number
    BY <1>2, AddType
  <2>2. <<<<r, h>>, who>> \in (RoundIds \X Hashes) \X Users
    OBVIOUS
  <2> QED
    BY <1>7, <2>1, <2>2, PutType DEF TypeOK
<1>11. balances' \in [AccountIds -> Nat]
  <2>1. amount \in Nat
    BY <1>3, NumberIsNat
  <2> QED
    BY <1>7, <2>1, TransferType DEF TypeOK, AccountIds
<1> QED
  BY <1>8, <1>9, <1>10, <1>11 DEF TypeOK

LEMMA TypeEndRound ==
  ASSUME TypeOK, NEW r \in RoundIds, EndRound(r)
  PROVE  TypeOK'
<1>1. /\ DOMAIN Rounds' = DOMAIN Rounds
      /\ Rounds' \in [DOMAIN Rounds -> RoundType]
  BY DEF EndRound, Ongoing, TypeOK, RoundType
<1>2. balances' \in [AccountIds -> Nat]
  <2>1. PICK paid \in [0 .. LastHash -> [AccountIds -> Nat]] :
          BalancesAfterEnd(r) = paid[LastHash]
    BY EndBalances DEF EndRound, PayoutsDefined
  <2> QED
    BY <2>1, RequestAssumption DEF EndRound
<1> QED
  BY <1>1, <1>2 DEF EndRound, TypeOK

LEMMA TypeStep == TypeOK /\ [Next]_vars => TypeOK'
<1> SUFFICES ASSUME TypeOK, [Next]_vars PROVE TypeOK'
  OBVIOUS
<1>1. CASE UNCHANGED vars
  BY <1>1 DEF vars, TypeOK
<1>2. CASE Next
  BY <1>2, TypeStartRound, TypeRegisterProject, TypeDonate, TypeVote,
     TypeEndRound DEF Next
<1> QED
  BY <1>1, <1>2

\* Every storage item of the pallet keeps the type it is declared with, and
\* no account is overdrawn: not by the plain additions of vote, which may
\* wrap around, and not by the payments of end_round (lib.rs:23-40, 93-104,
\* 226-239, 288-293).
THEOREM StorageTyped == Spec => []TypeOK
BY TypeInit, TypeStep, PTL DEF Spec

-----------------------------------------------------------------------------
(* Votes and the sums over the voters of a project.                        *)

\* Votes are stored only for a registered project of a round that has been
\* started: a new project, and a project registered before its round is
\* started, has none.
VotesOfProjects ==
  \A k \in DOMAIN ProjectVotes :
    k[1] \in DOMAIN Projects /\ k[1][1] \in DOMAIN Rounds

\* The points, their net price and the support area that a vote adds.
CostOfVote(who, r, h, ballot) == cal_cost(Votes(who, r, h), ballot)

NetOfVote(who, r, h, ballot) ==
  UnitOfVote * (NumberOfUnitPerVote - FeeRatioPerVote)
    * CostOfVote(who, r, h, ballot)

AreaOfVote(who, r, h, ballot) ==
  ballot * (Project(r, h).total_votes - Votes(who, r, h))

LEMMA VotesType ==
  ASSUME TypeOK
  PROVE  \A who, r, h : Votes(who, r, h) \in Number /\ Votes(who, r, h) \in Nat
BY NumberIsNat, GetType DEF TypeOK, Votes

\* The sums over the voters are natural numbers, and no voter has more votes
\* than all together.
LEMMA VoterSums ==
  ASSUME TypeOK, NEW r, NEW h
  PROVE  /\ SumOfVotes(r, h) \in Nat
         /\ SumOfSquares(r, h) \in Nat
         /\ VoterPoints(r, h) \in Nat
         /\ \A who \in Users : Votes(who, r, h) <= SumOfVotes(r, h)
<1> DEFINE f == [who \in Users |-> Votes(who, r, h)]
           g == [who \in Users |-> Votes(who, r, h) * Votes(who, r, h)]
           e == [who \in Users |-> Points(Votes(who, r, h))]
<1>1. IsFiniteSet(Users)
  BY FundAssumption
<1>2. ASSUME NEW who \in Users
      PROVE  f[who] \in Nat /\ g[who] \in Nat /\ e[who] \in Nat
  <2>1. Votes(who, r, h) \in Nat
    BY VotesType
  <2>2. Votes(who, r, h) * Votes(who, r, h) \in Nat
    BY <2>1
  <2>3. Points(Votes(who, r, h)) \in Nat
    BY <2>1, PointsTwice
  <2> QED
    BY <2>1, <2>2, <2>3
<1>3. DOMAIN f = Users /\ DOMAIN g = Users /\ DOMAIN e = Users
  OBVIOUS
<1>4. \A who \in Users : f[who] = Votes(who, r, h)
  OBVIOUS
<1> HIDE DEF f, g, e
<1>5. SumFunction(f) \in Nat /\ \A who \in Users : f[who] <= SumFunction(f)
  BY <1>1, <1>2, <1>3, SumType
<1>6. SumFunction(g) \in Nat /\ SumFunction(e) \in Nat
  BY <1>1, <1>2, <1>3, SumType
<1> QED
  BY <1>4, <1>5, <1>6 DEF SumOfVotes, SumOfSquares, VoterPoints, f, g, e

\* The sums of a project nobody has voted for.
LEMMA NoVoterSums ==
  ASSUME NEW r, NEW h, \A who \in Users : Votes(who, r, h) = 0
  PROVE  /\ SumOfVotes(r, h) = 0
         /\ SumOfSquares(r, h) = 0
         /\ VoterPoints(r, h) = 0
<1>1. IsFiniteSet(Users)
  BY FundAssumption
<1>2. 0 * 0 = 0 /\ Points(0) = 0
  BY PointsTwice
<1>3. /\ SumFunction([who \in Users |-> Votes(who, r, h)]) = 0
      /\ SumFunction([who \in Users |-> Votes(who, r, h) * Votes(who, r, h)]) = 0
      /\ SumFunction([who \in Users |-> Points(Votes(who, r, h))]) = 0
  BY <1>1, <1>2, SumOfZeros
<1> QED
  BY <1>3 DEF SumOfVotes, SumOfSquares, VoterPoints

\* A step leaves the sums of a project alone when it leaves its votes alone.
VoterSumsKept(r, h) ==
  /\ SumOfVotes(r, h)' = SumOfVotes(r, h)
  /\ SumOfSquares(r, h)' = SumOfSquares(r, h)
  /\ VoterPoints(r, h)' = VoterPoints(r, h)

LEMMA SameVoterSums ==
  ASSUME NEW r, NEW h, \A who \in Users : Votes(who, r, h)' = Votes(who, r, h)
  PROVE  VoterSumsKept(r, h)
<1>1. /\ [who \in Users |-> Votes(who, r, h)']
           = [who \in Users |-> Votes(who, r, h)]
      /\ [who \in Users |-> Votes(who, r, h)' * Votes(who, r, h)']
           = [who \in Users |-> Votes(who, r, h) * Votes(who, r, h)]
      /\ [who \in Users |-> Points(Votes(who, r, h)')]
           = [who \in Users |-> Points(Votes(who, r, h))]
  OBVIOUS
<1>2. /\ SumOfVotes(r, h)'
           = SumFunction([who \in Users |-> Votes(who, r, h)'])
      /\ SumOfSquares(r, h)'
           = SumFunction([who \in Users |->
                            Votes(who, r, h)' * Votes(who, r, h)'])
      /\ VoterPoints(r, h)'
           = SumFunction([who \in Users |-> Points(Votes(who, r, h)')])
  BY DEF SumOfVotes, SumOfSquares, VoterPoints, Points
<1> QED
  BY <1>1, <1>2 DEF VoterSumsKept, SumOfVotes, SumOfSquares, VoterPoints

\* The sums of a project after one of its voters bought more votes.
LEMMA MoreVoterSums ==
  ASSUME TypeOK, TypeOK', NEW r, NEW h, NEW who \in Users, NEW n \in Nat,
         Votes(who, r, h)' = Votes(who, r, h) + n,
         \A other \in Users \ {who} : Votes(other, r, h)' = Votes(other, r, h)
  PROVE  /\ SumOfVotes(r, h)' = SumOfVotes(r, h) + n
         /\ SumOfSquares(r, h)'
              = SumOfSquares(r, h) + 2 * (n * Votes(who, r, h)) + n * n
         /\ VoterPoints(r, h)' = VoterPoints(r, h) + CostOfVote(who, r, h, n)
<1> DEFINE v == Votes(who, r, h)
           f == [x \in Users |-> Votes(x, r, h)]
           F == [x \in Users |-> Votes(x, r, h)']
           g == [x \in Users |-> Votes(x, r, h) * Votes(x, r, h)]
           G == [x \in Users |-> Votes(x, r, h)' * Votes(x, r, h)']
           e == [x \in Users |-> Points(Votes(x, r, h))]
           E == [x \in Users |-> Points(Votes(x, r, h)')]
<1>1. IsFiniteSet(Users)
  BY FundAssumption
<1>2. \A x : Votes(x, r, h) \in Nat /\ Votes(x, r, h)' \in Nat
  <2>1. \A x : Votes(x, r, h)' \in Nat
    BY NumberIsNat DEF Votes, Get, TypeOK
  <2> QED
    BY <2>1, VotesType
<1>3. /\ f \in [Users -> Nat] /\ F \in [Users -> Nat]
      /\ g \in [Users -> Nat] /\ G \in [Users -> Nat]
      /\ e \in [Users -> Nat] /\ E \in [Users -> Nat]
  <2>1. \A m \in Nat : m * m \in Nat /\ Points(m) \in Nat
    BY PointsTwice
  <2> QED
    BY <1>2, <2>1
<1>4. /\ f[who] = v /\ F[who] = v + n
      /\ g[who] = v * v /\ G[who] = (v + n) * (v + n)
      /\ e[who] = Points(v) /\ E[who] = Points(v + n)
  OBVIOUS
<1>5. \A x \in Users \ {who} : f[x] = F[x] /\ g[x] = G[x] /\ e[x] = E[x]
  OBVIOUS
<1>6. /\ SumOfVotes(r, h) = SumFunction(f)
      /\ SumOfSquares(r, h) = SumFunction(g)
      /\ VoterPoints(r, h) = SumFunction(e)
      /\ SumOfVotes(r, h)' = SumFunction(F)
      /\ SumOfSquares(r, h)' = SumFunction(G)
      /\ VoterPoints(r, h)' = SumFunction(E)
  BY DEF SumOfVotes, SumOfSquares, VoterPoints, Points
<1>7. v \in Nat /\ CostOfVote(who, r, h, n) = cal_cost(v, n)
  BY <1>2 DEF CostOfVote
<1> HIDE DEF v, f, F, g, G, e, E
<1>8. ASSUME NEW a \in [Users -> Nat], NEW b \in [Users -> Nat],
             \A x \in Users \ {who} : a[x] = b[x]
      PROVE  /\ SumFunction(a) \in Nat
             /\ SumFunction(b) = SumFunction(a) + b[who] - a[who]
  <2>1. DOMAIN a = Users /\ DOMAIN b = Users
    OBVIOUS
  <2>2. SumFunction(a) \in Nat
    BY <1>1, <2>1, SumType
  <2>3. /\ who \in DOMAIN b /\ IsFiniteSet(DOMAIN a)
        /\ \A j \in DOMAIN a : a[j] \in Nat
        /\ DOMAIN b \ {who} = DOMAIN a \ {who}
        /\ \A j \in DOMAIN a \ {who} : a[j] = b[j]
        /\ b[who] \in Nat
    BY <1>1, <1>8, <2>1
  <2>4. SumFunction(b) = SumFunction(a) + b[who]
                           - (IF who \in DOMAIN a THEN a[who] ELSE 0)
    BY <2>3, SumChange
  <2> QED
    BY <2>1, <2>2, <2>4
<1>9. /\ SumFunction(f) \in Nat
      /\ SumFunction(F) = SumFunction(f) + (v + n) - v
  BY <1>3, <1>4, <1>5, <1>8
<1>10. /\ SumFunction(g) \in Nat
       /\ SumFunction(G) = SumFunction(g) + (v + n) * (v + n) - v * v
  BY <1>3, <1>4, <1>5, <1>8
<1>11. /\ SumFunction(e) \in Nat
       /\ SumFunction(E) = SumFunction(e) + Points(v + n) - Points(v)
  BY <1>3, <1>4, <1>5, <1>8
<1>12. /\ cal_cost(v, n) \in Nat
       /\ Points(v) \in Nat
       /\ Points(v + n) = Points(v) + cal_cost(v, n)
  <2>1. n + v = v + n
    BY <1>7
  <2> QED
    BY <1>7, <2>1, CostIsPoints, PointsTwice
<1>13. SumFunction(F) = SumFunction(f) + n
  BY <1>7, <1>9
<1>14. SumFunction(G) = SumFunction(g) + 2 * (n * v) + n * n
  BY <1>7, <1>10
<1>15. SumFunction(E) = SumFunction(e) + cal_cost(v, n)
  BY <1>11, <1>12
<1> QED
  BY <1>6, <1>7, <1>13, <1>14, <1>15 DEF v

-----------------------------------------------------------------------------
(* What a vote does.                                                       *)

\* A voter of a project has no more votes than the project, so neither the
\* subtraction nor the additions of votes wrap around (lib.rs:288-292).
LEMMA VoteArguments ==
  ASSUME TypeOK, VotesAddUp, NEW who \in Users, NEW r \in RoundIds,
         NEW h \in Hashes, NEW n \in Ballots, Vote(who, r, h, n)
  PROVE  /\ h \in ProjectsOf(r) /\ Ongoing(r)
         /\ n \in Nat /\ n > 0
         /\ Votes(who, r, h) \in Nat
         /\ Project(r, h).total_votes \in Nat
         /\ Votes(who, r, h) <= Project(r, h).total_votes
         /\ Project(r, h).total_votes + n < U128
         /\ CostOfVote(who, r, h, n) \in Nat
         /\ AreaOfVote(who, r, h, n) \in Nat
<1>1. h \in ProjectsOf(r) /\ Ongoing(r) /\ n > 0
  BY DEF Vote, ProjectsOf
<1>2. n \in Nat
  BY RequestAssumption, NumberIsNat
<1> DEFINE t == Project(r, h).total_votes
           v == Votes(who, r, h)
<1>3. v \in Nat /\ t \in Nat
  BY <1>1, NumberIsNat, VotesType DEF TypeOK, Project, ProjectsOf, ProjectType
<1>4. v <= t
  BY <1>1, VoterSums DEF VotesAddUp
<1>5. t + n <= MaxVotes
  BY DEF Vote
<1>6. CostOfVote(who, r, h, n) \in Nat
  BY <1>2, <1>3, CostIsPoints DEF CostOfVote
<1> HIDE DEF t, v
<1>7. t + n < U128
  BY <1>2, <1>3, <1>5, RequestAssumption, WordAssumption DEF Number
<1>8. n * (t - v) \in Nat
  BY <1>2, <1>3, <1>4
<1> QED
  BY <1>1, <1>2, <1>3, <1>4, <1>6, <1>7, <1>8 DEF AreaOfVote, t, v

\* So the numbers that vote computes are the exact ones.
LEMMA VoteNumbers ==
  ASSUME TypeOK, VotesAddUp, NEW who \in Users, NEW r \in RoundIds,
         NEW h \in Hashes, NEW n \in Ballots, Vote(who, r, h, n)
  PROVE  /\ Voted(who, r, h) = Votes(who, r, h)
         /\ cal_cost(Voted(who, r, h), n) = CostOfVote(who, r, h, n)
         /\ NewArea(n, Project(r, h).total_votes, Voted(who, r, h))
              = AreaOfVote(who, r, h, n)
         /\ Add(Project(r, h).total_votes, n) = Project(r, h).total_votes + n
         /\ Add(n, Voted(who, r, h)) = Votes(who, r, h) + n
         /\ NetOfVote(who, r, h, n) \in Number
         /\ cal_amount(CostOfVote(who, r, h, n), FALSE)
               - cal_amount(CostOfVote(who, r, h, n), TRUE)
              = NetOfVote(who, r, h, n)
<1> DEFINE points == CostOfVote(who, r, h, n)
           amount == cal_amount(points, FALSE)
           fee == cal_amount(points, TRUE)
           t == Project(r, h).total_votes
           v == Votes(who, r, h)
<1>1. /\ n \in Nat /\ v \in Nat /\ t \in Nat /\ v <= t /\ t + n < U128
      /\ points \in Nat
  BY VoteArguments
<1>2. Voted(who, r, h) = v /\ cal_cost(v, n) = points
  BY DEF Voted, VoteHash, Votes, CostOfVote
<1>3. NewArea(n, t, v) = AreaOfVote(who, r, h, n)
  <2>1. Sub(t, v) = t - v
    BY <1>1 DEF Sub
  <2> QED
    BY <2>1 DEF NewArea, AreaOfVote
<1>4. Add(t, n) = t + n /\ Add(n, v) = v + n
  <2> HIDE DEF t, v
  <2> QED
    BY <1>1, WordAssumption DEF Add
<1>5. amount - fee = NetOfVote(who, r, h, n) /\ amount - fee \in Number
  <2>1. amount \in Number /\ fee \in Number
    BY <1>2 DEF Vote, VoteDefined
  <2>2. amount - fee = NetOfVote(who, r, h, n) /\ amount - fee \in Nat
    BY <1>1, NetPrice DEF NetOfVote
  <2> HIDE DEF points, amount, fee
  <2> QED
    BY <2>1, <2>2, WordAssumption DEF Number
<1> QED
  BY <1>2, <1>3, <1>4, <1>5

\* The votes and the balances after a vote.
LEMMA VoteStored ==
  ASSUME TypeOK, VotesAddUp, NEW who \in Users, NEW r \in RoundIds,
         NEW h \in Hashes, NEW n \in Ballots, Vote(who, r, h, n)
  PROVE  ProjectVotes' = Put(ProjectVotes, <<<<r, h>>, who>>,
                             Votes(who, r, h) + n)
BY VoteNumbers DEF Vote, VoteHash

LEMMA VotePaid ==
  ASSUME TypeOK, VotesAddUp, NEW who \in Users, NEW r \in RoundIds,
         NEW h \in Hashes, NEW n \in Ballots, Vote(who, r, h, n)
  PROVE  balances' =
           Transfer(balances, who, FundAccount,
                    cal_amount(CostOfVote(who, r, h, n), FALSE), KeepAlive)
BY VoteNumbers DEF Vote

\* Only the votes of the voter for the project change.
LEMMA VotesAfterVote ==
  ASSUME TypeOK, VotesAddUp, NEW who \in Users, NEW r \in RoundIds,
         NEW h \in Hashes, NEW n \in Ballots, Vote(who, r, h, n)
  PROVE  /\ DOMAIN ProjectVotes' = DOMAIN ProjectVotes \cup {<<<<r, h>>, who>>}
         /\ Votes(who, r, h)' = Votes(who, r, h) + n
         /\ \A x, s, k : x # who \/ s # r \/ k # h =>
              Votes(x, s, k)' = Votes(x, s, k)
<1>1. ProjectVotes' = Put(ProjectVotes, <<<<r, h>>, who>>,
                          Votes(who, r, h) + n)
  BY VoteStored
<1>2. DOMAIN ProjectVotes' = DOMAIN ProjectVotes \cup {<<<<r, h>>, who>>}
  BY <1>1 DEF Put
<1>3. ProjectVotes'[<<<<r, h>>, who>>] = Votes(who, r, h) + n
  BY <1>1 DEF Put
<1>4. Votes(who, r, h)' = Votes(who, r, h) + n
  BY <1>2, <1>3 DEF Votes, Get
<1>5. ASSUME NEW x, NEW s, NEW k, x # who \/ s # r \/ k # h
      PROVE  Votes(x, s, k)' = Votes(x, s, k)
  <2>1. <<<<s, k>>, x>> # <<<<r, h>>, who>>
    BY <1>5
  <2> QED
    BY <1>1, <2>1 DEF Votes, Get, Put
<1> QED
  BY <1>2, <1>4, <1>5

\* A vote changes the sums of its project alone.
LEMMA SumsAfterVote ==
  ASSUME TypeOK, TypeOK', VotesAddUp, NEW who \in Users, NEW r \in RoundIds,
         NEW h \in Hashes, NEW n \in Ballots, Vote(who, r, h, n)
  PROVE  /\ SumOfVotes(r, h)' = SumOfVotes(r, h) + n
         /\ SumOfSquares(r, h)'
              = SumOfSquares(r, h) + 2 * (n * Votes(who, r, h)) + n * n
         /\ VoterPoints(r, h)' = VoterPoints(r, h) + CostOfVote(who, r, h, n)
         /\ \A s, k : s # r \/ k # h => VoterSumsKept(s, k)
<1>1. /\ Votes(who, r, h)' = Votes(who, r, h) + n
      /\ \A x, s, k : x # who \/ s # r \/ k # h =>
           Votes(x, s, k)' = Votes(x, s, k)
  BY VotesAfterVote
<1>2. n \in Nat
  BY VoteArguments
<1>3. /\ Votes(who, r, h)' = Votes(who, r, h) + n
      /\ \A x \in Users \ {who} : Votes(x, r, h)' = Votes(x, r, h)
  BY <1>1
<1>4. ASSUME NEW s, NEW k, s # r \/ k # h PROVE VoterSumsKept(s, k)
  <2>1. \A x \in Users : Votes(x, s, k)' = Votes(x, s, k)
    BY <1>1, <1>4
  <2> QED
    BY <2>1, SameVoterSums
<1> QED
  BY <1>2, <1>3, <1>4, MoreVoterSums

-----------------------------------------------------------------------------
(* The votes, the area and the grants of every project.                    *)

ProjectsInv == VotesOfProjects /\ VotesAddUp /\ AreaIsPairs /\ GrantsAreCost

\* A project without votes.
Fresh(r, h) ==
  /\ Project(r, h).total_votes = 0
  /\ Project(r, h).support_area = 0
  /\ Project(r, h).grants = 0
  /\ SumOfVotes(r, h) = 0
  /\ SumOfSquares(r, h) = 0
  /\ VoterPoints(r, h) = 0

\* A step that does not vote for a project leaves it and the sums over its
\* voters alone, or registers it.
ProjectKept(r, h) ==
  \/ /\ h \in ProjectsOf(r)
     /\ Project(r, h)' = Project(r, h)
     /\ VoterSumsKept(r, h)
  \/ h \notin ProjectsOf(r) /\ Fresh(r, h)'

LEMMA KeptWhenUnchanged ==
  ASSUME UNCHANGED <<Projects, ProjectVotes>>, NEW r, NEW h \in ProjectsOf(r)'
  PROVE  ProjectKept(r, h)
<1>1. \A who \in Users : Votes(who, r, h)' = Votes(who, r, h)
  BY DEF Votes, Get
<1> QED
  BY <1>1, SameVoterSums DEF ProjectKept, ProjectsOf, Project

LEMMA KeptByRegister ==
  ASSUME VotesOfProjects, NEW who, NEW s, NEW k, RegisterProject(who, s, k),
         NEW r, NEW h \in ProjectsOf(r)'
  PROVE  ProjectKept(r, h)
<1>1. \A x : Votes(x, r, h)' = Votes(x, r, h)
  BY DEF RegisterProject, Votes, Get
<1>2. VoterSumsKept(r, h)
  BY <1>1, SameVoterSums
<1>3. CASE <<r, h>> = <<s, k>>
  <2>1. h \notin ProjectsOf(r) /\ Project(r, h)' = NewProject(who)
    BY <1>3 DEF RegisterProject, UnusedProject, ProjectsOf, Project, Put
  <2>2. \A x \in Users : Votes(x, r, h) = 0
    <3>1. \A x : <<<<r, h>>, x>> \notin DOMAIN ProjectVotes
      BY <1>3 DEF RegisterProject, UnusedProject, VotesOfProjects
    <3> QED
      BY <3>1 DEF Votes, Get
  <2>3. SumOfVotes(r, h) = 0 /\ SumOfSquares(r, h) = 0 /\ VoterPoints(r, h) = 0
    BY <2>2, NoVoterSums
  <2> QED
    BY <1>2, <2>1, <2>3 DEF ProjectKept, VoterSumsKept, Fresh, NewProject
<1>4. CASE <<r, h>> # <<s, k>>
  <2>1. h \in ProjectsOf(r) /\ Project(r, h)' = Project(r, h)
    BY <1>4 DEF RegisterProject, ProjectsOf, Project, Put
  <2> QED
    BY <1>2, <2>1 DEF ProjectKept
<1> QED
  BY <1>3, <1>4

LEMMA KeptByVote ==
  ASSUME TypeOK, TypeOK', VotesAddUp, NEW who \in Users, NEW s \in RoundIds,
         NEW k \in Hashes, NEW n \in Ballots, Vote(who, s, k, n),
         NEW r, NEW h \in ProjectsOf(r)', <<r, h>> # <<s, k>>
  PROVE  ProjectKept(r, h)
<1>1. /\ DOMAIN Projects' = DOMAIN Projects
      /\ Projects'[<<r, h>>] = Projects[<<r, h>>]
  BY DEF Vote, ProjectsOf, TypeOK
<1>2. VoterSumsKept(r, h)
  BY SumsAfterVote
<1> QED
  BY <1>1, <1>2 DEF ProjectKept, ProjectsOf, Project

\* So a project after a step is a kept one or the one that was voted for.
LEMMA ProjectCases ==
  ASSUME TypeOK, TypeOK', VotesOfProjects, VotesAddUp, [Next]_vars,
         NEW r \in RoundIds, NEW h \in ProjectsOf(r)'
  PROVE  \/ ProjectKept(r, h)
         \/ \E who \in Users, n \in Ballots : Vote(who, r, h, n)
<1>1. CASE UNCHANGED vars
  BY <1>1, KeptWhenUnchanged DEF vars
<1>2. CASE Next
  <2>1. ASSUME NEW s \in RoundIds, StartRound(s) \/ EndRound(s)
        PROVE  ProjectKept(r, h)
    BY <2>1, KeptWhenUnchanged DEF StartRound, EndRound
  <2>2. ASSUME NEW who \in Users, NEW s \in RoundIds, NEW n \in Donations,
               Donate(who, s, n)
        PROVE  ProjectKept(r, h)
    BY <2>2, KeptWhenUnchanged DEF Donate
  <2> QED
    BY <1>2, <2>1, <2>2, KeptByRegister, KeptByVote DEF Next
<1> QED
  BY <1>1, <1>2

\* The project after a vote for it.
LEMMA ProjectAfterItsVote ==
  ASSUME TypeOK, VotesAddUp, NEW who \in Users, NEW r \in RoundIds,
         NEW h \in Hashes, NEW n \in Ballots, Vote(who, r, h, n)
  PROVE  /\ h \in ProjectsOf(r)
         /\ \A s : ProjectsOf(s)' = ProjectsOf(s)
         /\ Project(r, h)'.total_votes = Project(r, h).total_votes + n
         /\ Project(r, h)'.support_area
              = Project(r, h).support_area + AreaOfVote(who, r, h, n)
         /\ Project(r, h)'.grants
              = Add(Project(r, h).grants, NetOfVote(who, r, h, n))
         /\ NetOfVote(who, r, h, n) \in Number
         /\ Project(r, h)'.owner = Project(r, h).owner
         /\ \A s, k : s # r \/ k # h =>
              (k \in ProjectsOf(s) => Project(s, k)' = Project(s, k))
<1> DEFINE area == AreaOfVote(who, r, h, n)
           net == NetOfVote(who, r, h, n)
<1>1. Projects' = [Projects EXCEPT ![<<r, h>>] =
        [Project(r, h) EXCEPT
           !.support_area = Project(r, h).support_area + area,
           !.total_votes = Project(r, h).total_votes + n,
           !.grants = Add(Project(r, h).grants, net)]]
  BY VoteNumbers DEF Vote, ProjectAfterVote, Project
<1>2. net \in Number
  BY VoteNumbers
<1> HIDE DEF area, net
<1>3. h \in ProjectsOf(r) /\ Project(r, h) \in ProjectType
  BY VoteArguments DEF TypeOK, Project, ProjectsOf
<1>4. DOMAIN Projects' = DOMAIN Projects /\ <<r, h>> \in DOMAIN Projects
  BY <1>1, <1>3 DEF ProjectsOf
<1>5. Project(r, h)' = [Project(r, h) EXCEPT
        !.support_area = Project(r, h).support_area + area,
        !.total_votes = Project(r, h).total_votes + n,
        !.grants = Add(Project(r, h).grants, net)]
  BY <1>1, <1>4 DEF Project
<1>6. /\ Project(r, h)'.total_votes = Project(r, h).total_votes + n
      /\ Project(r, h)'.support_area = Project(r, h).support_area + area
      /\ Project(r, h)'.grants = Add(Project(r, h).grants, net)
      /\ Project(r, h)'.owner = Project(r, h).owner
  BY <1>3, <1>5 DEF ProjectType
<1>7. \A s : ProjectsOf(s)' = ProjectsOf(s)
  BY <1>4 DEF ProjectsOf
<1>8. \A s, k : s # r \/ k # h =>
        (k \in ProjectsOf(s) => Project(s, k)' = Project(s, k))
  BY <1>1 DEF ProjectsOf, Project
<1> QED
  BY <1>2, <1>3, <1>6, <1>7, <1>8 DEF net, area

\* No call removes a round or a project.
LEMMA NothingRemoved ==
  ASSUME [Next]_vars
  PROVE  /\ DOMAIN Rounds \subseteq DOMAIN Rounds'
         /\ DOMAIN Projects \subseteq DOMAIN Projects'
<1>1. CASE UNCHANGED vars
  BY <1>1 DEF vars
<1>2. ASSUME NEW r \in RoundIds, StartRound(r) \/ EndRound(r)
      PROVE  /\ DOMAIN Rounds \subseteq DOMAIN Rounds'
             /\ DOMAIN Projects \subseteq DOMAIN Projects'
  BY <1>2 DEF StartRound, EndRound, Put
<1>3. ASSUME NEW who \in Users, NEW r \in RoundIds, NEW h \in Hashes,
             RegisterProject(who, r, h)
      PROVE  /\ DOMAIN Rounds \subseteq DOMAIN Rounds'
             /\ DOMAIN Projects \subseteq DOMAIN Projects'
  BY <1>3 DEF RegisterProject, Put
<1>4. ASSUME NEW who \in Users, NEW r \in RoundIds, NEW n \in Donations,
             Donate(who, r, n)
      PROVE  /\ DOMAIN Rounds \subseteq DOMAIN Rounds'
             /\ DOMAIN Projects \subseteq DOMAIN Projects'
  BY <1>4 DEF Donate
<1>5. ASSUME NEW who \in Users, NEW r \in RoundIds, NEW h \in Hashes,
             NEW n \in Ballots, Vote(who, r, h, n)
      PROVE  /\ DOMAIN Rounds \subseteq DOMAIN Rounds'
             /\ DOMAIN Projects \subseteq DOMAIN Projects'
  BY <1>5 DEF Vote
<1> QED
  BY <1>1, <1>2, <1>3, <1>4, <1>5 DEF Next

\* Votes are stored for registered projects of started rounds only, because
\* vote looks both up, and no project or round is ever removed.
LEMMA VotesOfProjectsStep ==
  ASSUME TypeOK, VotesOfProjects, VotesAddUp, [Next]_vars
  PROVE  VotesOfProjects'
<1>1. /\ DOMAIN Rounds \subseteq DOMAIN Rounds'
      /\ DOMAIN Projects \subseteq DOMAIN Projects'
  BY NothingRemoved
<1>2. ASSUME NEW key \in DOMAIN ProjectVotes'
      PROVE  key[1] \in DOMAIN Projects /\ key[1][1] \in DOMAIN Rounds
  <2>1. CASE key \in DOMAIN ProjectVotes
    BY <2>1 DEF VotesOfProjects
  <2>2. CASE key \notin DOMAIN ProjectVotes
    <3>1. PICK who \in Users, r \in RoundIds, h \in Hashes, n \in Ballots :
            Vote(who, r, h, n)
      BY <1>2, <2>2
      DEF Next, vars, StartRound, EndRound, RegisterProject, Donate
    <3>2. ProjectVotes' = Put(ProjectVotes, <<<<r, h>>, who>>,
                              Votes(who, r, h) + n)
      BY <3>1, VoteStored
    <3>3. key = <<<<r, h>>, who>>
      BY <1>2, <2>2, <3>2 DEF Put
    <3> QED
      BY <3>1, <3>3 DEF Vote, Ongoing
  <2> QED
    BY <2>1, <2>2
<1> QED
  BY <1>1, <1>2 DEF VotesOfProjects

LEMMA VotesAddUpStep ==
  ASSUME TypeOK, TypeOK', VotesOfProjects, VotesAddUp, [Next]_vars
  PROVE  VotesAddUp'
<1> SUFFICES ASSUME NEW r \in RoundIds, NEW h \in ProjectsOf(r)'
             PROVE  Project(r, h)'.total_votes = SumOfVotes(r, h)'
  BY DEF VotesAddUp
<1>1. CASE h \in ProjectsOf(r) /\ ProjectKept(r, h)
  BY <1>1 DEF ProjectKept, VotesAddUp, VoterSumsKept
<1>2. CASE Fresh(r, h)'
  BY <1>2 DEF Fresh
<1>3. ASSUME NEW who \in Users, NEW n \in Ballots, Vote(who, r, h, n)
      PROVE  Project(r, h)'.total_votes = SumOfVotes(r, h)'
  <2>1. h \in Hashes
    BY DEF ProjectsOf
  <2>2. /\ h \in ProjectsOf(r)
        /\ Project(r, h)'.total_votes = Project(r, h).total_votes + n
    BY <1>3, <2>1, ProjectAfterItsVote
  <2>3. SumOfVotes(r, h)' = SumOfVotes(r, h) + n
    BY <1>3, <2>1, SumsAfterVote
  <2> QED
    BY <2>2, <2>3 DEF VotesAddUp
<1> QED
  BY <1>1, <1>2, <1>3, ProjectCases DEF ProjectKept

\* A vote adds its area to the sum over the pairs of voters, because
\* (t + n)^2 - (q + 2nv + n^2) = t^2 - q + 2n(t - v).
LEMMA AreaIsPairsStep ==
  ASSUME TypeOK, TypeOK', VotesOfProjects, VotesAddUp, AreaIsPairs, [Next]_vars
  PROVE  AreaIsPairs'
<1> SUFFICES ASSUME NEW r \in RoundIds, NEW h \in ProjectsOf(r)'
             PROVE  2 * Project(r, h)'.support_area
                      = SumOfVotes(r, h)' * SumOfVotes(r, h)'
                          - SumOfSquares(r, h)'
  BY DEF AreaIsPairs
<1>1. CASE h \in ProjectsOf(r) /\ ProjectKept(r, h)
  BY <1>1 DEF ProjectKept, AreaIsPairs, VoterSumsKept
<1>2. CASE Fresh(r, h)'
  <2>1. 2 * 0 = 0 * 0 - 0
    OBVIOUS
  <2> QED
    BY <1>2, <2>1 DEF Fresh
<1>3. ASSUME NEW who \in Users, NEW n \in Ballots, Vote(who, r, h, n)
      PROVE  2 * Project(r, h)'.support_area
               = SumOfVotes(r, h)' * SumOfVotes(r, h)' - SumOfSquares(r, h)'
  <2>1. h \in Hashes
    BY DEF ProjectsOf
  <2> DEFINE a == Project(r, h).support_area
             t == SumOfVotes(r, h)
             q == SumOfSquares(r, h)
             v == Votes(who, r, h)
  <2>2. /\ h \in ProjectsOf(r)
        /\ Project(r, h)'.support_area = a + AreaOfVote(who, r, h, n)
    BY <1>3, <2>1, ProjectAfterItsVote
  <2>3. /\ n \in Nat /\ v \in Nat
        /\ AreaOfVote(who, r, h, n) = n * (t - v)
    BY <1>3, <2>1, <2>2, VoteArguments DEF AreaOfVote, VotesAddUp
  <2>4. a \in Nat
    BY <2>2, NumberIsNat DEF TypeOK, Project, ProjectsOf, ProjectType
  <2>5. t \in Nat /\ q \in Nat
    BY VoterSums
  <2>6. SumOfVotes(r, h)' = t + n /\ SumOfSquares(r, h)' = q + 2 * (n * v) + n * n
    BY <1>3, <2>1, SumsAfterVote
  <2>7. 2 * a = t * t - q
    BY <2>2 DEF AreaIsPairs
  <2> HIDE DEF a, t, q, v
  <2>8. 2 * (a + n * (t - v)) = (t + n) * (t + n) - (q + 2 * (n * v) + n * n)
    <3> DEFINE tt == t * t
               nt == n * t
               nv == n * v
               nn == n * n
               both == (t + n) * (t + n)
               part == n * (t - v)
    <3>1. part = nt - nv
      BY <2>3, <2>5
    <3>2. both = tt + 2 * nt + nn
      BY <2>3, <2>5
    <3>3. nt \in Nat /\ nv \in Nat /\ nn \in Nat /\ tt \in Nat
      BY <2>3, <2>5
    <3>4. 2 * a = tt - q
      BY <2>7
    <3> HIDE DEF tt, nt, nv, nn, both, part
    <3>5. 2 * (a + part) = both - (q + 2 * nv + nn)
      BY <2>4, <2>5, <3>1, <3>2, <3>3, <3>4
    <3> QED
      BY <3>5 DEF nv, nn, both, part
  <2> QED
    BY <2>2, <2>3, <2>6, <2>8
<1> QED
  BY <1>1, <1>2, <1>3, ProjectCases DEF ProjectKept

\* A vote adds its net price to the grants, modulo 2^128.
LEMMA GrantsAreCostStep ==
  ASSUME TypeOK, TypeOK', VotesOfProjects, VotesAddUp, GrantsAreCost, [Next]_vars
  PROVE  GrantsAreCost'
<1> DEFINE price == UnitOfVote * (NumberOfUnitPerVote - FeeRatioPerVote)
<1> SUFFICES ASSUME NEW r \in RoundIds, NEW h \in ProjectsOf(r)'
             PROVE  Project(r, h)'.grants = (price * VoterPoints(r, h)') % U128
  BY DEF GrantsAreCost
<1>1. price \in Nat
  BY PricesAreNat
<1>2. ASSUME NEW p, p \in ProjectsOf(r)
      PROVE  Project(r, p).grants = (price * VoterPoints(r, p)) % U128
  BY <1>2 DEF GrantsAreCost
<1> HIDE DEF price
<1>3. CASE h \in ProjectsOf(r) /\ ProjectKept(r, h)
  BY <1>2, <1>3 DEF ProjectKept, VoterSumsKept
<1>4. CASE Fresh(r, h)'
  <2>1. price * 0 = 0 /\ 0 % U128 = 0
    BY <1>1, WordAssumption
  <2> QED
    BY <1>4, <2>1 DEF Fresh
<1>5. ASSUME NEW who \in Users, NEW n \in Ballots, Vote(who, r, h, n)
      PROVE  Project(r, h)'.grants = (price * VoterPoints(r, h)') % U128
  <2>1. h \in Hashes
    BY DEF ProjectsOf
  <2> DEFINE points == VoterPoints(r, h)
             cost == CostOfVote(who, r, h, n)
             net == NetOfVote(who, r, h, n)
  <2>2. /\ net = price * cost /\ net \in Number
        /\ Project(r, h)'.grants = Add(Project(r, h).grants, net)
    BY <1>5, <2>1, ProjectAfterItsVote DEF price, NetOfVote
  <2>3. Project(r, h).grants = (price * points) % U128
    BY <1>2, <1>5, <2>1, ProjectAfterItsVote
  <2>4. points \in Nat /\ cost \in Nat
    BY <1>5, <2>1, VoterSums, VoteArguments
  <2>5. VoterPoints(r, h)' = points + cost
    BY <1>5, <2>1, SumsAfterVote
  <2> HIDE DEF points, cost, net
  <2>6. /\ price * points \in Nat
        /\ price * points + net = price * (points + cost)
    BY <1>1, <2>2, <2>4
  <2>7. Add((price * points) % U128, net) = (price * points + net) % U128
    <3> DEFINE x == price * points
    <3>1. x \in Nat /\ net \in Number
      BY <2>2, <2>6
    <3> HIDE DEF x
    <3>2. Add(x % U128, net) = (x + net) % U128
      BY <3>1, AddIsModulo
    <3> QED
      BY <3>2 DEF x
  <2> QED
    BY <2>2, <2>3, <2>5, <2>6, <2>7
<1> QED
  BY <1>3, <1>4, <1>5, ProjectCases DEF ProjectKept

LEMMA FundInvInit == Init => ProjectsInv /\ RoundAreaIsSum /\ TaxAccounted
BY DEF Init, NoRounds, EmptyMap, ProjectsOf, ProjectsInv, VotesOfProjects,
       VotesAddUp, AreaIsPairs, GrantsAreCost, RoundAreaIsSum, TaxAccounted

LEMMA ProjectsStep == TypeOK /\ TypeOK' /\ ProjectsInv /\ [Next]_vars => ProjectsInv'
BY VotesOfProjectsStep, VotesAddUpStep, AreaIsPairsStep, GrantsAreCostStep
DEF ProjectsInv

LEMMA ProjectsAlways == Spec => [](TypeOK /\ ProjectsInv)
<1>1. Init => ProjectsInv
  BY FundInvInit
<1> QED
  BY <1>1, StorageTyped, ProjectsStep, PTL DEF Spec

\* The votes of a project are those its voters bought in this round, over
\* all calls and users: the two maps that vote writes never come apart, and
\* the votes of one round are never counted in another
\* (lib.rs:279, 288, 292).
THEOREM VotesAlwaysAddUp == Spec => []VotesAddUp
BY ProjectsAlways, PTL DEF ProjectsInv

\* The support area that vote keeps up to date is the sum over the pairs of
\* different voters, whatever the order and the sizes of their calls
\* (lib.rs:290-291).
THEOREM AreaAlwaysPairs == Spec => []AreaIsPairs
BY ProjectsAlways, PTL DEF ProjectsInv

\* The grants of a project are the net price of its votes modulo 2^128,
\* however they were split into calls (lib.rs:293, 320-335).
THEOREM GrantsAlwaysCost == Spec => []GrantsAreCost
BY ProjectsAlways, PTL DEF ProjectsInv

-----------------------------------------------------------------------------
(* The area, the tax and the pool of every round.                          *)

GrantsSum(r) == SumFunction([h \in ProjectsOf(r) |-> Project(r, h).grants])

AreaSum(r) == SumFunction([h \in ProjectsOf(r) |-> Project(r, h).support_area])

PointsSum(r) == SumFunction([h \in ProjectsOf(r) |-> VoterPoints(r, h)])

LEMMA ProjectsFinite ==
  \A r : IsFiniteSet(ProjectsOf(r)) /\ IsFiniteSet(ProjectsOf(r)')
<1>1. IsFiniteSet(Hashes)
  BY RequestAssumption, FS_Interval DEF Hashes
<1>2. ASSUME NEW r PROVE ProjectsOf(r) \subseteq Hashes /\ ProjectsOf(r)' \subseteq Hashes
  BY DEF ProjectsOf
<1> QED
  BY <1>1, <1>2, FS_Subset

\* The terms of the sums are natural numbers, before and after a step.
LEMMA ProjectNumbers ==
  TypeOK => \A r : \A h \in ProjectsOf(r) :
              /\ Project(r, h).support_area \in Nat
              /\ Project(r, h).grants \in Nat
              /\ VoterPoints(r, h) \in Nat
BY NumberIsNat, VoterSums DEF TypeOK, ProjectsOf, Project, ProjectType

LEMMA ProjectNumbersNext ==
  TypeOK' => (\A r : \A h \in ProjectsOf(r) :
               /\ Project(r, h).support_area \in Nat
               /\ Project(r, h).grants \in Nat
               /\ VoterPoints(r, h) \in Nat)'
BY ProjectNumbers, PTL

\* The sums over the projects of a round before it is started.
LEMMA NoProjectSums ==
  ASSUME TypeOK, ProjectsInv, NEW r \in RoundIds, r \notin DOMAIN Rounds
  PROVE  AreaSum(r) = 0 /\ GrantsSum(r) = 0 /\ PointsSum(r) = 0
<1>1. ASSUME NEW h \in ProjectsOf(r)
      PROVE  /\ Project(r, h).support_area = 0
             /\ Project(r, h).grants = 0
             /\ VoterPoints(r, h) = 0
  <2>1. \A who \in Users : Votes(who, r, h) = 0
    <3>1. \A who : <<<<r, h>>, who>> \notin DOMAIN ProjectVotes
      BY DEF ProjectsInv, VotesOfProjects
    <3> QED
      BY <3>1 DEF Votes, Get
  <2>2. SumOfVotes(r, h) = 0 /\ SumOfSquares(r, h) = 0 /\ VoterPoints(r, h) = 0
    BY <2>1, NoVoterSums
  <2>3. 2 * Project(r, h).support_area
          = SumOfVotes(r, h) * SumOfVotes(r, h) - SumOfSquares(r, h)
    BY DEF ProjectsInv, AreaIsPairs
  <2>4. Project(r, h).support_area \in Nat
    BY ProjectNumbers
  <2>5. Project(r, h).support_area = 0
    BY <2>2, <2>3, <2>4
  <2> DEFINE price == UnitOfVote * (NumberOfUnitPerVote - FeeRatioPerVote)
  <2>6. Project(r, h).grants = (price * VoterPoints(r, h)) % U128
    BY DEF ProjectsInv, GrantsAreCost
  <2>7. price \in Nat
    BY PricesAreNat
  <2> HIDE DEF price
  <2>8. price * 0 = 0 /\ 0 % U128 = 0
    BY <2>7, WordAssumption
  <2> QED
    BY <2>2, <2>5, <2>6, <2>8
<1> DEFINE e == [h \in ProjectsOf(r) |-> Project(r, h).grants]
           f == [h \in ProjectsOf(r) |-> Project(r, h).support_area]
           g == [h \in ProjectsOf(r) |-> VoterPoints(r, h)]
<1>2. /\ DOMAIN e = ProjectsOf(r) /\ \A h \in ProjectsOf(r) : e[h] = 0
      /\ DOMAIN f = ProjectsOf(r) /\ \A h \in ProjectsOf(r) : f[h] = 0
      /\ DOMAIN g = ProjectsOf(r) /\ \A h \in ProjectsOf(r) : g[h] = 0
  BY <1>1
<1> HIDE DEF e, f, g
<1>3. SumFunction(e) = 0 /\ SumFunction(f) = 0 /\ SumFunction(g) = 0
  BY <1>2, ProjectsFinite, SumOfZeros
<1> QED
  BY <1>3 DEF AreaSum, GrantsSum, PointsSum, e, f, g

\* A step that votes for no project of the round keeps the sums.
LEMMA KeptProjectSums ==
  ASSUME TypeOK, TypeOK', NEW r, ProjectsOf(r) \subseteq ProjectsOf(r)',
         \A h \in ProjectsOf(r)' : ProjectKept(r, h)
  PROVE  /\ AreaSum(r)' = AreaSum(r)
         /\ GrantsSum(r)' = GrantsSum(r)
         /\ PointsSum(r)' = PointsSum(r)
<1> DEFINE e == [h \in ProjectsOf(r) |-> Project(r, h).grants]
           E == [h \in ProjectsOf(r)' |-> Project(r, h)'.grants]
           f == [h \in ProjectsOf(r) |-> Project(r, h).support_area]
           F == [h \in ProjectsOf(r)' |-> Project(r, h)'.support_area]
           g == [h \in ProjectsOf(r) |-> VoterPoints(r, h)]
           G == [h \in ProjectsOf(r)' |-> VoterPoints(r, h)']
<1>1. /\ DOMAIN e \subseteq DOMAIN E /\ IsFiniteSet(DOMAIN E)
      /\ DOMAIN f \subseteq DOMAIN F /\ IsFiniteSet(DOMAIN F)
      /\ DOMAIN g \subseteq DOMAIN G /\ IsFiniteSet(DOMAIN G)
  BY ProjectsFinite
<1>2. ASSUME NEW h \in ProjectsOf(r)'
      PROVE  /\ E[h] \in Nat /\ E[h] = IF h \in DOMAIN e THEN e[h] ELSE 0
             /\ F[h] \in Nat /\ F[h] = IF h \in DOMAIN f THEN f[h] ELSE 0
             /\ G[h] \in Nat /\ G[h] = IF h \in DOMAIN g THEN g[h] ELSE 0
  <2>1. /\ Project(r, h)'.grants \in Nat
        /\ Project(r, h)'.support_area \in Nat
        /\ VoterPoints(r, h)' \in Nat
    BY ProjectNumbersNext
  <2> QED
    BY <2>1 DEF ProjectKept, VoterSumsKept, Fresh
<1>3. /\ DOMAIN E = ProjectsOf(r)'
      /\ DOMAIN F = ProjectsOf(r)'
      /\ DOMAIN G = ProjectsOf(r)'
  OBVIOUS
<1>4. /\ GrantsSum(r) = SumFunction(e) /\ GrantsSum(r)' = SumFunction(E)
      /\ AreaSum(r) = SumFunction(f) /\ AreaSum(r)' = SumFunction(F)
      /\ PointsSum(r) = SumFunction(g) /\ PointsSum(r)' = SumFunction(G)
  BY DEF AreaSum, GrantsSum, PointsSum
<1> HIDE DEF e, E, f, F, g, G
<1>5. SumFunction(E) = SumFunction(e)
  BY <1>1, <1>2, <1>3, SumExtended
<1>6. SumFunction(F) = SumFunction(f)
  BY <1>1, <1>2, <1>3, SumExtended
<1>7. SumFunction(G) = SumFunction(g)
  BY <1>1, <1>2, <1>3, SumExtended
<1> QED
  BY <1>4, <1>5, <1>6, <1>7

\* A vote adds its area and its points to the sums of its round, and no more
\* than its net price to the grants, which may wrap around.
LEMMA VotedProjectSums ==
  ASSUME TypeOK, TypeOK', VotesAddUp, NEW who \in Users, NEW r \in RoundIds,
         NEW h \in Hashes, NEW n \in Ballots, Vote(who, r, h, n)
  PROVE  /\ AreaSum(r)' = AreaSum(r) + AreaOfVote(who, r, h, n)
         /\ GrantsSum(r)' <= GrantsSum(r) + NetOfVote(who, r, h, n)
         /\ PointsSum(r)' = PointsSum(r) + CostOfVote(who, r, h, n)
<1> DEFINE e == [k \in ProjectsOf(r) |-> Project(r, k).grants]
           E == [k \in ProjectsOf(r) |-> Project(r, k)'.grants]
           f == [k \in ProjectsOf(r) |-> Project(r, k).support_area]
           F == [k \in ProjectsOf(r) |-> Project(r, k)'.support_area]
           g == [k \in ProjectsOf(r) |-> VoterPoints(r, k)]
           G == [k \in ProjectsOf(r) |-> VoterPoints(r, k)']
           area == AreaOfVote(who, r, h, n)
           cost == CostOfVote(who, r, h, n)
           net == NetOfVote(who, r, h, n)
<1>1. /\ h \in ProjectsOf(r)
      /\ \A s : ProjectsOf(s)' = ProjectsOf(s)
      /\ Project(r, h)'.support_area = Project(r, h).support_area + area
      /\ Project(r, h)'.grants = Add(Project(r, h).grants, net)
      /\ \A s, k : s # r \/ k # h =>
           (k \in ProjectsOf(s) => Project(s, k)' = Project(s, k))
  BY ProjectAfterItsVote
<1>2. /\ VoterPoints(r, h)' = VoterPoints(r, h) + cost
      /\ \A s, k : s # r \/ k # h => VoterSumsKept(s, k)
  BY SumsAfterVote
<1>3. area \in Nat /\ cost \in Nat /\ net \in Nat
  BY VoteArguments, VoteNumbers, NumberIsNat
<1>4. ASSUME NEW k \in ProjectsOf(r)
      PROVE  /\ e[k] \in Nat /\ f[k] \in Nat /\ g[k] \in Nat
             /\ E[k] \in Nat /\ F[k] \in Nat /\ G[k] \in Nat
  <2>1. k \in ProjectsOf(r)'
    BY <1>1
  <2> QED
    BY <2>1, ProjectNumbers, ProjectNumbersNext
<1>5. /\ GrantsSum(r) = SumFunction(e) /\ GrantsSum(r)' = SumFunction(E)
      /\ AreaSum(r) = SumFunction(f) /\ AreaSum(r)' = SumFunction(F)
      /\ PointsSum(r) = SumFunction(g) /\ PointsSum(r)' = SumFunction(G)
  BY <1>1 DEF AreaSum, GrantsSum, PointsSum
<1>6. /\ F[h] = f[h] + area /\ G[h] = g[h] + cost
      /\ E[h] = Add(e[h], net)
      /\ \A k \in ProjectsOf(r) \ {h} :
           e[k] = E[k] /\ f[k] = F[k] /\ g[k] = G[k]
  BY <1>1, <1>2 DEF VoterSumsKept
<1>7. /\ DOMAIN e = ProjectsOf(r) /\ DOMAIN E = ProjectsOf(r)
      /\ DOMAIN f = ProjectsOf(r) /\ DOMAIN F = ProjectsOf(r)
      /\ DOMAIN g = ProjectsOf(r) /\ DOMAIN G = ProjectsOf(r)
      /\ IsFiniteSet(ProjectsOf(r))
  BY ProjectsFinite
<1> HIDE DEF e, E, f, F, g, G, area, cost, net
<1>8. SumFunction(F) = SumFunction(f) + area
  <2>1. SumFunction(f) \in Nat
    BY <1>4, <1>7, SumType
  <2>2. SumFunction(F) = SumFunction(f) + F[h]
                           - (IF h \in DOMAIN f THEN f[h] ELSE 0)
    BY <1>1, <1>4, <1>6, <1>7, SumChange
  <2> QED
    BY <1>1, <1>3, <1>4, <1>6, <1>7, <2>1, <2>2
<1>9. SumFunction(G) = SumFunction(g) + cost
  <2>1. SumFunction(g) \in Nat
    BY <1>4, <1>7, SumType
  <2>2. SumFunction(G) = SumFunction(g) + G[h]
                           - (IF h \in DOMAIN g THEN g[h] ELSE 0)
    BY <1>1, <1>4, <1>6, <1>7, SumChange
  <2> QED
    BY <1>1, <1>3, <1>4, <1>6, <1>7, <2>1, <2>2
<1>10. SumFunction(E) <= SumFunction(e) + net
  <2>1. SumFunction(e) \in Nat
    BY <1>4, <1>7, SumType
  <2>2. SumFunction(E) = SumFunction(e) + E[h]
                           - (IF h \in DOMAIN e THEN e[h] ELSE 0)
    BY <1>1, <1>4, <1>6, <1>7, SumChange
  <2>3. E[h] <= e[h] + net
    BY <1>1, <1>3, <1>4, <1>6, WordAssumption DEF Add
  <2> QED
    BY <1>1, <1>3, <1>4, <1>7, <2>1, <2>2, <2>3
<1> QED
  BY <1>5, <1>8, <1>9, <1>10 DEF area, cost, net

\* The areas, the tax and the pools of a round.
LEMMA RoundNumbers ==
  TypeOK => \A r \in DOMAIN Rounds :
              /\ Rounds[r].total_support_area \in Nat /\ Rounds[r].total_tax \in Nat
              /\ Rounds[r].support_pool \in Nat
              /\ Rounds[r].pre_tax_support_pool \in Nat
BY NumberIsNat DEF TypeOK, RoundType

\* The fee of a donation is no more than the donation.
LEMMA DonationFeeType ==
  ASSUME NEW amount \in Nat
  PROVE  DonationFee(amount) \in Nat /\ DonationFee(amount) <= amount
<1> DEFINE n == NumberOfUnitPerVote
           f == FeeRatioPerVote
           q == amount \div n
<1>1. n \in Nat /\ n > 0 /\ f \in Nat /\ f < n
  BY PriceAssumption
<1>2. q \in Nat /\ n * q <= amount
  BY <1>1
<1> HIDE DEF n, f, q
<1>3. f * q \in Nat /\ f * q <= n * q /\ n * q \in Nat
  <2>1. n * q = f * q + (n - f) * q /\ (n - f) * q \in Nat /\ f * q \in Nat
    BY <1>1, <1>2
  <2> QED
    BY <2>1
<1>4. f * q <= amount
  BY <1>2, <1>3
<1> QED
  BY <1>3, <1>4 DEF DonationFee, f, q, n

\* What a step does to a round that it neither starts, donates to nor votes
\* in: the round may end, its numbers stay.
RoundKept(r) ==
  /\ r \in DOMAIN Rounds
  /\ Rounds'[r].total_support_area = Rounds[r].total_support_area
  /\ Rounds'[r].total_tax = Rounds[r].total_tax
  /\ Rounds'[r].support_pool = Rounds[r].support_pool
  /\ Rounds'[r].pre_tax_support_pool = Rounds[r].pre_tax_support_pool
  /\ AreaSum(r)' = AreaSum(r)
  /\ PointsSum(r)' = PointsSum(r)

RoundStarted(r) ==
  /\ r \notin DOMAIN Rounds
  /\ Rounds'[r] = NewRound
  /\ AreaSum(r)' = 0
  /\ PointsSum(r)' = 0

\* A donation adds its amount to the pool before taxes and divides it into
\* tax and pool.
RoundGiven(r) ==
  \E amount \in Donations :
    /\ r \in DOMAIN Rounds
    /\ Rounds'[r] = RoundAfterDonation(Rounds[r], amount)
    /\ AreaSum(r)' = AreaSum(r)
    /\ PointsSum(r)' = PointsSum(r)

RoundVoted(r) ==
  \E area, points \in Nat :
    /\ r \in DOMAIN Rounds
    /\ Rounds'[r].total_support_area = Rounds[r].total_support_area + area
    /\ Rounds'[r].total_tax
         = Rounds[r].total_tax + UnitOfVote * FeeRatioPerVote * points
    /\ Rounds'[r].support_pool = Rounds[r].support_pool
    /\ Rounds'[r].pre_tax_support_pool = Rounds[r].pre_tax_support_pool
    /\ AreaSum(r)' = AreaSum(r) + area
    /\ PointsSum(r)' = PointsSum(r) + points

LEMMA SumsWhenUnchanged ==
  ASSUME TypeOK, TypeOK', UNCHANGED <<Projects, ProjectVotes>>, NEW r
  PROVE  /\ AreaSum(r)' = AreaSum(r)
         /\ GrantsSum(r)' = GrantsSum(r)
         /\ PointsSum(r)' = PointsSum(r)
<1>1. ProjectsOf(r)' = ProjectsOf(r)
  BY DEF ProjectsOf
<1> QED
  BY <1>1, KeptWhenUnchanged, KeptProjectSums

\* A vote in another round.
LEMMA SumsWhenVotedElsewhere ==
  ASSUME TypeOK, TypeOK', VotesAddUp, NEW who \in Users, NEW s \in RoundIds,
         NEW h \in Hashes, NEW n \in Ballots, Vote(who, s, h, n), NEW r, r # s
  PROVE  /\ AreaSum(r)' = AreaSum(r)
         /\ GrantsSum(r)' = GrantsSum(r)
         /\ PointsSum(r)' = PointsSum(r)
<1>1. ProjectsOf(r)' = ProjectsOf(r)
  BY ProjectAfterItsVote
<1>2. \A k \in ProjectsOf(r)' : ProjectKept(r, k)
  BY KeptByVote
<1> QED
  BY <1>1, <1>2, KeptProjectSums

LEMMA RoundAfterItsVote ==
  ASSUME TypeOK, TypeOK', VotesAddUp, NEW who \in Users, NEW r \in RoundIds,
         NEW h \in Hashes, NEW n \in Ballots, Vote(who, r, h, n)
  PROVE  RoundVoted(r)
<1> DEFINE area == AreaOfVote(who, r, h, n)
           points == CostOfVote(who, r, h, n)
<1>1. Rounds' = [Rounds EXCEPT ![r] =
        RoundAfterVote(Rounds[r], area, cal_amount(points, TRUE))]
  BY VoteNumbers DEF Vote
<1>2. /\ area \in Nat /\ points \in Nat
      /\ cal_amount(points, TRUE) = UnitOfVote * FeeRatioPerVote * points
  BY VoteArguments, NetPrice
<1>3. r \in DOMAIN Rounds /\ Rounds[r] \in RoundType
  BY DEF Vote, Ongoing, TypeOK
<1>4. AreaSum(r)' = AreaSum(r) + area /\ PointsSum(r)' = PointsSum(r) + points
  BY VotedProjectSums
<1> HIDE DEF area, points
<1> QED
  BY <1>1, <1>2, <1>3, <1>4 DEF RoundVoted, RoundAfterVote, RoundType

\* A round after a step was started, kept, given to or voted in.
LEMMA RoundCases ==
  ASSUME TypeOK, TypeOK', ProjectsInv, [Next]_vars, NEW r \in DOMAIN Rounds'
  PROVE  RoundStarted(r) \/ RoundKept(r) \/ RoundGiven(r) \/ RoundVoted(r)
<1>1. r \in RoundIds
  BY DEF TypeOK
<1>2. CASE UNCHANGED vars
  BY <1>2, SumsWhenUnchanged DEF vars, RoundKept
<1>3. ASSUME NEW s \in RoundIds, StartRound(s)
      PROVE  RoundStarted(r) \/ RoundKept(r)
  <2>1. AreaSum(r)' = AreaSum(r) /\ PointsSum(r)' = PointsSum(r)
    BY <1>3, SumsWhenUnchanged DEF StartRound
  <2>2. CASE r = s
    <3>1. r \notin DOMAIN Rounds /\ Rounds'[r] = NewRound
      BY <1>3, <2>2 DEF StartRound, UnusedRound, Put
    <3> QED
      BY <1>1, <2>1, <3>1, NoProjectSums DEF RoundStarted
  <2>3. CASE r # s
    BY <1>3, <2>1, <2>3 DEF StartRound, Put, RoundKept
  <2> QED
    BY <2>2, <2>3
<1>4. ASSUME NEW s \in RoundIds, EndRound(s)
      PROVE  RoundKept(r)
  <2>1. AreaSum(r)' = AreaSum(r) /\ PointsSum(r)' = PointsSum(r)
    BY <1>4, SumsWhenUnchanged DEF EndRound
  <2>2. s \in DOMAIN Rounds /\ Rounds[s] \in RoundType
    BY <1>4 DEF EndRound, Ongoing, TypeOK
  <2> QED
    BY <1>4, <2>1, <2>2 DEF EndRound, RoundKept, RoundType
<1>5. ASSUME NEW who \in Users, NEW s \in RoundIds, NEW h \in Hashes,
             RegisterProject(who, s, h)
      PROVE  RoundKept(r)
  <2>1. ProjectsOf(r) \subseteq ProjectsOf(r)'
    BY <1>5 DEF RegisterProject, ProjectsOf, Put
  <2>2. \A k \in ProjectsOf(r)' : ProjectKept(r, k)
    BY <1>5, KeptByRegister DEF ProjectsInv
  <2>3. AreaSum(r)' = AreaSum(r) /\ PointsSum(r)' = PointsSum(r)
    BY <2>1, <2>2, KeptProjectSums
  <2> QED
    BY <1>5, <2>3 DEF RegisterProject, RoundKept
<1>6. ASSUME NEW who \in Users, NEW s \in RoundIds, NEW amount \in Donations,
             Donate(who, s, amount)
      PROVE  RoundKept(r) \/ RoundGiven(r)
  <2>1. AreaSum(r)' = AreaSum(r) /\ PointsSum(r)' = PointsSum(r)
    BY <1>6, SumsWhenUnchanged DEF Donate
  <2>2. Rounds' = [Rounds EXCEPT ![s] = RoundAfterDonation(Rounds[s], amount)]
    BY <1>6 DEF Donate
  <2> QED
    BY <2>1, <2>2 DEF RoundKept, RoundGiven
<1>7. ASSUME NEW who \in Users, NEW s \in RoundIds, NEW h \in Hashes,
             NEW n \in Ballots, Vote(who, s, h, n)
      PROVE  RoundKept(r) \/ RoundVoted(r)
  <2>1. CASE r = s
    BY <1>7, <2>1, RoundAfterItsVote DEF ProjectsInv
  <2>2. CASE r # s
    <3>1. AreaSum(r)' = AreaSum(r) /\ PointsSum(r)' = PointsSum(r)
      BY <1>7, <2>2, SumsWhenVotedElsewhere DEF ProjectsInv
    <3>2. DOMAIN Rounds' = DOMAIN Rounds /\ Rounds'[r] = Rounds[r]
      BY <1>7, <2>2 DEF Vote
    <3> QED
      BY <3>1, <3>2 DEF RoundKept
  <2> QED
    BY <2>1, <2>2
<1> QED
  BY <1>2, <1>3, <1>4, <1>5, <1>6, <1>7 DEF Next

LEMMA RoundAreaStep ==
  TypeOK /\ TypeOK' /\ ProjectsInv /\ RoundAreaIsSum /\ [Next]_vars
    => RoundAreaIsSum'
<1> SUFFICES ASSUME TypeOK, TypeOK', ProjectsInv, RoundAreaIsSum, [Next]_vars,
                    NEW r \in DOMAIN Rounds'
             PROVE  Rounds'[r].total_support_area = AreaSum(r)'
  BY DEF RoundAreaIsSum, AreaSum
<1>1. r \in DOMAIN Rounds => Rounds[r].total_support_area = AreaSum(r)
  BY DEF RoundAreaIsSum, AreaSum
<1>2. CASE RoundStarted(r)
  BY <1>2 DEF RoundStarted, NewRound
<1>3. CASE RoundKept(r)
  BY <1>1, <1>3 DEF RoundKept
<1>4. CASE RoundGiven(r)
  BY <1>1, <1>4 DEF RoundGiven, RoundAfterDonation, TypeOK, RoundType
<1>5. CASE RoundVoted(r)
  BY <1>1, <1>5 DEF RoundVoted
<1> QED
  BY <1>2, <1>3, <1>4, <1>5, RoundCases

\* What a round keeps is the fees of its donations and of its votes.
LEMMA TaxStep ==
  TypeOK /\ TypeOK' /\ ProjectsInv /\ TaxAccounted /\ [Next]_vars
    => TaxAccounted'
<1> DEFINE price == UnitOfVote * FeeRatioPerVote
<1> SUFFICES ASSUME TypeOK, TypeOK', ProjectsInv, TaxAccounted, [Next]_vars,
                    NEW r \in DOMAIN Rounds'
             PROVE  Rounds'[r].total_tax
                      = Rounds'[r].pre_tax_support_pool
                          - Rounds'[r].support_pool + price * PointsSum(r)'
  BY DEF TaxAccounted, PointsSum
<1>1. price \in Nat
  BY PricesAreNat
<1>2. ASSUME r \in DOMAIN Rounds
      PROVE  /\ Rounds[r].total_tax
                  = Rounds[r].pre_tax_support_pool - Rounds[r].support_pool
                      + price * PointsSum(r)
             /\ Rounds[r].total_tax \in Nat
             /\ Rounds[r].support_pool \in Nat
             /\ Rounds[r].pre_tax_support_pool \in Nat
             /\ PointsSum(r) \in Nat
             /\ Rounds[r] \in RoundType
  <2>1. PointsSum(r) \in Nat
    <3> DEFINE g == [h \in ProjectsOf(r) |-> VoterPoints(r, h)]
    <3>1. DOMAIN g = ProjectsOf(r) /\ \A h \in ProjectsOf(r) : g[h] \in Nat
      BY ProjectNumbers
    <3> HIDE DEF g
    <3>2. SumFunction(g) \in Nat
      BY <3>1, ProjectsFinite, SumType
    <3> QED
      BY <3>2 DEF PointsSum, g
  <2> QED
    BY <1>2, <2>1, RoundNumbers DEF TaxAccounted, PointsSum, TypeOK
<1> HIDE DEF price
<1>3. CASE RoundStarted(r)
  <2>1. price * 0 = 0
    BY <1>1
  <2> QED
    BY <1>3, <2>1 DEF RoundStarted, NewRound
<1>4. CASE RoundKept(r)
  BY <1>2, <1>4 DEF RoundKept
<1>5. CASE RoundGiven(r)
  <2>1. PICK amount \in Donations :
          /\ r \in DOMAIN Rounds
          /\ Rounds'[r] = RoundAfterDonation(Rounds[r], amount)
          /\ PointsSum(r)' = PointsSum(r)
    BY <1>5 DEF RoundGiven
  <2> DEFINE fee == DonationFee(amount)
             both == price * PointsSum(r)
  <2>2. amount \in Nat /\ fee \in Nat
    BY RequestAssumption, NumberIsNat, DonationFeeType
  <2>3. both \in Nat
    BY <1>1, <1>2, <2>1
  <2> HIDE DEF fee, both
  <2>4. /\ Rounds'[r].total_tax = Rounds[r].total_tax + fee
        /\ Rounds'[r].support_pool = Rounds[r].support_pool + (amount - fee)
        /\ Rounds'[r].pre_tax_support_pool
             = Rounds[r].pre_tax_support_pool + amount
    BY <1>2, <2>1 DEF RoundAfterDonation, RoundType, fee
  <2>5. Rounds[r].total_tax
          = Rounds[r].pre_tax_support_pool - Rounds[r].support_pool + both
    BY <1>2, <2>1 DEF both
  <2>6. Rounds'[r].total_tax
          = Rounds'[r].pre_tax_support_pool - Rounds'[r].support_pool + both
    BY <1>2, <2>1, <2>2, <2>3, <2>4, <2>5
  <2> QED
    BY <2>1, <2>6 DEF both
<1>6. CASE RoundVoted(r)
  <2>1. PICK area \in Nat, points \in Nat :
          /\ r \in DOMAIN Rounds
          /\ Rounds'[r].total_tax = Rounds[r].total_tax + price * points
          /\ Rounds'[r].support_pool = Rounds[r].support_pool
          /\ Rounds'[r].pre_tax_support_pool = Rounds[r].pre_tax_support_pool
          /\ PointsSum(r)' = PointsSum(r) + points
    BY <1>6 DEF RoundVoted, price
  <2>2. price * (PointsSum(r) + points) = price * PointsSum(r) + price * points
    BY <1>1, <1>2, <2>1
  <2>3. price * PointsSum(r) \in Nat /\ price * points \in Nat
    BY <1>1, <1>2, <2>1
  <2> DEFINE both == price * PointsSum(r)
             more == price * points
  <2> HIDE DEF both, more
  <2>4. Rounds[r].total_tax + more
          = Rounds[r].pre_tax_support_pool - Rounds[r].support_pool
              + (both + more)
    BY <1>2, <2>1, <2>3 DEF both, more
  <2> QED
    BY <2>1, <2>2, <2>4 DEF both, more
<1> QED
  BY <1>3, <1>4, <1>5, <1>6, RoundCases

LEMMA RoundsAlways ==
  Spec => [](TypeOK /\ ProjectsInv /\ RoundAreaIsSum /\ TaxAccounted)
<1>1. Init => RoundAreaIsSum /\ TaxAccounted
  BY FundInvInit
<1> QED
  BY <1>1, ProjectsAlways, RoundAreaStep, TaxStep, PTL DEF Spec

\* The support area of a round is the sum over its projects, also those
\* registered before it was started: the shares of the pool are parts of a
\* whole (lib.rs:297-299).
THEOREM RoundAreaAlwaysSum == Spec => []RoundAreaIsSum
BY RoundsAlways, PTL

\* The tax of a round is what was kept from its donations and from the price
\* of the votes for its projects, in a round of any number of calls
\* (lib.rs:189-191, 300).
THEOREM TaxAlwaysAccounted == Spec => []TaxAccounted
BY RoundsAlways, PTL

\* With the rate of the division, the matches of the projects are the rate
\* times the area of the round.
LEMMA MatchOfRound ==
  ASSUME TypeOK, RoundAreaIsSum, NEW r \in DOMAIN Rounds
  PROVE  MatchOf(r) = IF Rounds[r].total_support_area = 0 THEN 0
                      ELSE Rounds[r].total_support_area
                             * (Rounds[r].support_pool
                                  \div Rounds[r].total_support_area)
<1> DEFINE total == Rounds[r].total_support_area
           rate == Rounds[r].support_pool \div total
           f == [h \in ProjectsOf(r) |-> Project(r, h).support_area]
           g == [h \in ProjectsOf(r) |-> Match(Rounds[r], Project(r, h))]
<1>1. /\ DOMAIN f = ProjectsOf(r) /\ DOMAIN g = ProjectsOf(r)
      /\ IsFiniteSet(ProjectsOf(r))
      /\ \A h \in ProjectsOf(r) : f[h] \in Nat
  BY ProjectsFinite, ProjectNumbers
<1>2. total \in Nat /\ Rounds[r].support_pool \in Nat
  BY RoundNumbers
<1>3. MatchOf(r) = SumFunction(g) /\ total = SumFunction(f)
  BY DEF MatchOf, RoundAreaIsSum
<1>4. CASE total = 0
  <2>1. \A h \in ProjectsOf(r) : g[h] = 0
    BY <1>4 DEF Match
  <2> HIDE DEF g
  <2>2. SumFunction(g) = 0
    BY <1>1, <2>1, SumOfZeros
  <2> QED
    BY <1>3, <1>4, <2>2
<1>5. CASE total # 0
  <2>1. \A h \in ProjectsOf(r) : g[h] = f[h] * rate
    BY <1>5 DEF Match
  <2>2. rate \in Nat
    BY <1>2, <1>5, DivType
  <2> HIDE DEF f, g, rate
  <2>3. SumFunction(g) = SumFunction(f) * rate
    BY <1>1, <2>1, <2>2, SumScale
  <2> QED
    BY <1>3, <1>5, <2>3 DEF rate
<1> QED
  BY <1>4, <1>5

LEMMA MatchStaysWithin ==
  TypeOK /\ RoundAreaIsSum => MatchWithinPool
<1> SUFFICES ASSUME TypeOK, RoundAreaIsSum, NEW r \in DOMAIN Rounds
             PROVE  /\ MatchOf(r) <= Rounds[r].support_pool
                    /\ Rounds[r].total_support_area > 0 =>
                         Rounds[r].support_pool - MatchOf(r)
                           < Rounds[r].total_support_area
  BY DEF MatchWithinPool
<1> DEFINE total == Rounds[r].total_support_area
           pool == Rounds[r].support_pool
<1>1. total \in Nat /\ pool \in Nat
  BY RoundNumbers
<1>2. MatchOf(r) = IF total = 0 THEN 0 ELSE total * (pool \div total)
  BY MatchOfRound
<1> HIDE DEF total, pool
<1>3. total # 0 => /\ total * (pool \div total) <= pool
                   /\ pool - total * (pool \div total) < total
  BY <1>1
<1>4. /\ MatchOf(r) <= pool
      /\ total > 0 => pool - MatchOf(r) < total
  BY <1>1, <1>2, <1>3
<1> QED
  BY <1>4 DEF total, pool

\* The projects of a round share no more than its pool, and leave less of it
\* than the size of the support area: the division by the sum of the areas
\* never hands out more than was donated (lib.rs:223-229).
THEOREM MatchAlwaysWithin == Spec => []MatchWithinPool
BY RoundsAlways, MatchStaysWithin, PTL

-----------------------------------------------------------------------------
(* Ended rounds.                                                           *)

\* A round that has ended, the projects in it and the votes for them.
Frozen(r) ==
  /\ Rounds'[r] = Rounds[r]
  /\ \A h \in ProjectsOf(r) : Projects'[<<r, h>>] = Project(r, h)
  /\ \A who \in Users, h \in Hashes : Votes(who, r, h)' = Votes(who, r, h)

LEMMA FrozenStep ==
  ASSUME TypeOK, VotesAddUp, Next, NEW r \in DOMAIN Rounds, ~Rounds[r].ongoing
  PROVE  Frozen(r)
<1>1. ASSUME NEW s \in RoundIds, StartRound(s) PROVE Frozen(r)
  BY <1>1 DEF StartRound, UnusedRound, Put, Frozen, Project, Votes
<1>2. ASSUME NEW s \in RoundIds, EndRound(s) PROVE Frozen(r)
  BY <1>2 DEF EndRound, Ongoing, Frozen, Project, Votes
<1>3. ASSUME NEW who \in Users, NEW s \in RoundIds, NEW h \in Hashes,
             RegisterProject(who, s, h)
      PROVE  Frozen(r)
  BY <1>3 DEF RegisterProject, UnusedProject, Put, ProjectsOf, Frozen,
              Project, Votes
<1>4. ASSUME NEW who \in Users, NEW s \in RoundIds, NEW n \in Donations,
             Donate(who, s, n)
      PROVE  Frozen(r)
  <2>1. s # r
    BY <1>4 DEF Donate, Ongoing
  <2>2. Rounds'[r] = Rounds[r]
    BY <1>4, <2>1 DEF Donate
  <2> QED
    BY <1>4, <2>2 DEF Donate, Frozen, Project, Votes
<1>5. ASSUME NEW who \in Users, NEW s \in RoundIds, NEW h \in Hashes,
             NEW n \in Ballots, Vote(who, s, h, n)
      PROVE  Frozen(r)
  <2>1. s # r
    BY <1>5 DEF Vote, Ongoing
  <2>2. Rounds'[r] = Rounds[r]
    BY <1>5, <2>1 DEF Vote
  <2>3. \A k \in ProjectsOf(r) : Projects'[<<r, k>>] = Project(r, k)
    BY <1>5, <2>1 DEF Vote, ProjectsOf, Project
  <2>4. \A x, t, k : x # who \/ t # s \/ k # h => Votes(x, t, k)' = Votes(x, t, k)
    <3>1. /\ DOMAIN ProjectVotes'
               = DOMAIN ProjectVotes \cup {<<<<s, h>>, who>>}
          /\ Votes(who, s, h)' = Votes(who, s, h) + n
          /\ \A x, t, k : x # who \/ t # s \/ k # h =>
               Votes(x, t, k)' = Votes(x, t, k)
      BY <1>5, VotesAfterVote
    <3> QED
      BY <3>1
  <2>5. \A x \in Users, k \in Hashes : Votes(x, r, k)' = Votes(x, r, k)
    BY <2>1, <2>4
  <2> QED
    BY <2>2, <2>3, <2>5 DEF Frozen
<1> QED
  BY <1>1, <1>2, <1>3, <1>4, <1>5 DEF Next

\* Once a round has ended neither it nor its projects nor the votes for them
\* change: no vote or donation comes late, it is not ended or started again,
\* and no project is registered over an old one (lib.rs:177, 202, 222, 276).
THEOREM EndedRoundsFrozen == Spec => EndedRoundFrozen
<1>1. TypeOK /\ VotesAddUp /\ [Next]_vars =>
        [\A r \in DOMAIN Rounds : ~Rounds[r].ongoing => Frozen(r)]_vars
  BY FrozenStep
<1>2. TypeOK /\ VotesAddUp /\ [Next]_vars =>
        [\A r \in DOMAIN Rounds :
           ~Rounds[r].ongoing =>
             /\ Rounds'[r] = Rounds[r]
             /\ \A h \in ProjectsOf(r) : Projects'[<<r, h>>] = Project(r, h)
             /\ \A who \in Users, h \in Hashes :
                  Votes(who, r, h)' = Votes(who, r, h)]_vars
  BY <1>1 DEF Frozen
<1> QED
  BY <1>2, StorageTyped, VotesAlwaysAddUp, PTL DEF Spec, EndedRoundFrozen

-----------------------------------------------------------------------------
(* What end_round pays.                                                    *)

\* A payment takes no more than the payout from the fund account: KeepAlive
\* lets a payment succeed only if no dust is burned with it.
LEMMA PaidFromFund ==
  ASSUME TypeOK, NEW r, PayoutsDefined(r), NEW h \in ProjectsOf(r),
         NEW b \in [AccountIds -> Nat]
  PROVE  /\ Payout(Rounds[r], Project(r, h)) \in Nat
         /\ Paid(r, b, h)[FundAccount] + Payout(Rounds[r], Project(r, h))
              >= b[FundAccount]
<1> DEFINE value == Payout(Rounds[r], Project(r, h))
           owner == Project(r, h).owner
           to == Transfer(b, FundAccount, owner, value, KeepAlive)
<1>1. value \in Nat
  BY NumberIsNat DEF PayoutsDefined
<1>2. Paid(r, b, h) = to
  BY DEF Paid
<1>3. FundAccount \in AccountIds /\ b[FundAccount] \in Nat
  BY DEF AccountIds
<1> HIDE DEF value, owner
<1>4. CASE /\ value > 0 /\ FundAccount # owner
           /\ CanTransfer(b, FundAccount, owner, value, KeepAlive)
  <2>1. b[FundAccount] - value >= ExistentialDeposit
    BY <1>4 DEF CanTransfer
  <2>2. Remainder(b[FundAccount], value) = b[FundAccount] - value
    BY <1>1, <1>3, <2>1, ExistentialDepositAssumption DEF Remainder
  <2>3. to[FundAccount] = b[FundAccount] - value
    BY <1>3, <1>4, <2>2 DEF Transfer
  <2> HIDE DEF to
  <2> QED
    BY <1>1, <1>2, <1>3, <2>3 DEF value
<1>5. CASE ~(/\ value > 0 /\ FundAccount # owner
             /\ CanTransfer(b, FundAccount, owner, value, KeepAlive))
  <2>1. to = b
    BY <1>5 DEF Transfer
  <2> HIDE DEF to
  <2> QED
    BY <1>1, <1>2, <1>3, <2>1 DEF value
<1> QED
  BY <1>4, <1>5

\* The grants and the matches of a round are natural numbers.
LEMMA PayoutNumbers ==
  ASSUME TypeOK, NEW r \in DOMAIN Rounds
  PROVE  \A h \in ProjectsOf(r) :
           /\ Project(r, h).grants \in Nat
           /\ Match(Rounds[r], Project(r, h)) \in Nat
<1> SUFFICES ASSUME NEW h \in ProjectsOf(r)
             PROVE  /\ Project(r, h).grants \in Nat
                    /\ Match(Rounds[r], Project(r, h)) \in Nat
  OBVIOUS
<1> DEFINE area == Project(r, h).support_area
           total == Rounds[r].total_support_area
           pool == Rounds[r].support_pool
<1>1. Project(r, h).grants \in Nat /\ area \in Nat
  BY NumberIsNat DEF TypeOK, Project, ProjectsOf, ProjectType
<1>2. total \in Nat /\ pool \in Nat
  BY RoundNumbers
<1>3. Match(Rounds[r], Project(r, h))
        = IF total = 0 THEN 0 ELSE area * (pool \div total)
  BY DEF Match
<1> HIDE DEF area, total, pool
<1>4. total # 0 => pool \div total \in Nat
  BY <1>2, DivType
<1> QED
  BY <1>1, <1>3, <1>4

\* What is due to the projects of a set, and the first n projects, which are
\* those that are paid before the project n + 1.
Due(r, S) == SumFunction([h \in S |-> Payout(Rounds[r], Project(r, h))])

First(r, n) == {h \in ProjectsOf(r) : h <= n}

LEMMA DueNumbers ==
  ASSUME TypeOK, NEW r \in DOMAIN Rounds, NEW S \in SUBSET ProjectsOf(r)
  PROVE  /\ IsFiniteSet(S)
         /\ \A h \in S : Payout(Rounds[r], Project(r, h)) \in Nat
         /\ Due(r, S) \in Nat
         /\ S = {} => Due(r, S) = 0
<1> DEFINE f == [h \in S |-> Payout(Rounds[r], Project(r, h))]
<1>1. IsFiniteSet(S)
  BY ProjectsFinite, FS_Subset
<1>2. \A h \in S : Payout(Rounds[r], Project(r, h)) \in Nat
  BY PayoutNumbers DEF Payout
<1>3. DOMAIN f = S /\ \A h \in S : f[h] \in Nat
  BY <1>2
<1> HIDE DEF f
<1>4. SumFunction(f) \in Nat /\ (S = {} => SumFunction(f) = 0)
  BY <1>1, <1>3, SumType, SumOfZeros
<1> QED
  BY <1>1, <1>2, <1>4 DEF Due, f

LEMMA DueOneMore ==
  ASSUME TypeOK, NEW r \in DOMAIN Rounds, NEW S \in SUBSET ProjectsOf(r),
         NEW h \in ProjectsOf(r) \ S
  PROVE  Due(r, S \cup {h}) = Due(r, S) + Payout(Rounds[r], Project(r, h))
<1> DEFINE T == S \cup {h}
           f == [k \in S |-> Payout(Rounds[r], Project(r, k))]
           g == [k \in T |-> Payout(Rounds[r], Project(r, k))]
<1>1. /\ IsFiniteSet(S)
      /\ \A k \in T : Payout(Rounds[r], Project(r, k)) \in Nat
      /\ Due(r, S) \in Nat
  BY DueNumbers
<1>2. /\ DOMAIN f = S /\ DOMAIN g = T
      /\ \A k \in S : f[k] \in Nat /\ f[k] = g[k]
      /\ g[h] = Payout(Rounds[r], Project(r, h)) /\ g[h] \in Nat
      /\ h \in T /\ h \notin S /\ T \ {h} = S \ {h}
  BY <1>1
<1>3. Due(r, S) = SumFunction(f) /\ Due(r, T) = SumFunction(g)
  BY DEF Due
<1> HIDE DEF T, f, g
<1>4. SumFunction(g) = SumFunction(f) + g[h]
                         - (IF h \in DOMAIN f THEN f[h] ELSE 0)
  BY <1>1, <1>2, SumChange
<1>5. SumFunction(g) = SumFunction(f) + g[h]
  BY <1>1, <1>2, <1>3, <1>4
<1> QED
  BY <1>2, <1>3, <1>5 DEF T

LEMMA DuePart ==
  ASSUME TypeOK, NEW r \in DOMAIN Rounds, NEW T \in SUBSET ProjectsOf(r),
         NEW S \in SUBSET T
  PROVE  Due(r, S) <= Due(r, T)
<1> DEFINE f == [k \in S |-> Payout(Rounds[r], Project(r, k))]
           g == [k \in T |-> Payout(Rounds[r], Project(r, k))]
<1>1. /\ IsFiniteSet(T)
      /\ \A k \in T : Payout(Rounds[r], Project(r, k)) \in Nat
  BY DueNumbers
<1>2. /\ DOMAIN f = S /\ DOMAIN g = T
      /\ \A k \in S : f[k] = g[k]
      /\ \A k \in T : g[k] \in Nat
  BY <1>1
<1> HIDE DEF f, g
<1>3. SumFunction(f) <= SumFunction(g)
  BY <1>1, <1>2, SumPart
<1> QED
  BY <1>3 DEF Due, f, g

\* All projects together are due the grants and the matches.
LEMMA DueAll ==
  ASSUME TypeOK, NEW r \in DOMAIN Rounds
  PROVE  Due(r, ProjectsOf(r)) = GrantsSum(r) + MatchOf(r)
<1> DEFINE e == [h \in ProjectsOf(r) |-> Project(r, h).grants]
           f == [h \in ProjectsOf(r) |-> Match(Rounds[r], Project(r, h))]
           g == [h \in ProjectsOf(r) |-> Payout(Rounds[r], Project(r, h))]
<1>1. /\ DOMAIN e = ProjectsOf(r) /\ DOMAIN f = ProjectsOf(r)
      /\ DOMAIN g = ProjectsOf(r) /\ IsFiniteSet(ProjectsOf(r))
      /\ \A h \in ProjectsOf(r) :
           e[h] \in Nat /\ f[h] \in Nat /\ g[h] = e[h] + f[h]
  BY ProjectsFinite, PayoutNumbers DEF Payout
<1>2. /\ GrantsSum(r) = SumFunction(e) /\ MatchOf(r) = SumFunction(f)
      /\ Due(r, ProjectsOf(r)) = SumFunction(g)
  BY DEF GrantsSum, MatchOf, Due
<1> HIDE DEF e, f, g
<1>3. SumFunction(g) = SumFunction(e) + SumFunction(f)
  BY <1>1, SumAdd
<1> QED
  BY <1>2, <1>3

\* The n-th project is the last of the first n, if there is one.
LEMMA FirstProjects ==
  ASSUME NEW r, NEW n \in Hashes
  PROVE  /\ First(r, 0) = {}
         /\ First(r, LastHash) = ProjectsOf(r)
         /\ First(r, n - 1) \subseteq ProjectsOf(r)
         /\ n \notin First(r, n - 1)
         /\ First(r, n) = First(r, n - 1)
                            \cup (IF n \in ProjectsOf(r) THEN {n} ELSE {})
<1>1. LastHash \in Nat /\ ProjectsOf(r) \subseteq 1 .. LastHash
      /\ n \in 1 .. LastHash
  BY RequestAssumption DEF ProjectsOf, Hashes
<1> HIDE DEF ProjectsOf
<1> QED
  BY <1>1 DEF First

\* The fund account pays no more than the grants and the matches.
LEMMA FundAfterEnd ==
  ASSUME TypeOK, NEW r \in DOMAIN Rounds, PayoutsDefined(r)
  PROVE  BalancesAfterEnd(r)[FundAccount] + (GrantsSum(r) + MatchOf(r))
           >= balances[FundAccount]
<1>1. PICK paid \in [0 .. LastHash -> [AccountIds -> Nat]] :
        /\ paid[0] = balances
        /\ \A h \in Hashes : paid[h] = Paid(r, paid[h - 1], h)
        /\ BalancesAfterEnd(r) = paid[LastHash]
  BY EndBalances
<1>2. /\ LastHash \in Nat
      /\ FundAccount \in AccountIds /\ balances[FundAccount] \in Nat
  BY RequestAssumption DEF AccountIds, TypeOK
<1> DEFINE S == {n \in 0 .. LastHash :
                   paid[n][FundAccount] + Due(r, First(r, n))
                     >= balances[FundAccount]}
<1>3. 0 .. LastHash \subseteq S
  <2>1. 0 \in S
    <3>1. First(r, 0) = {}
      BY RequestAssumption DEF First, ProjectsOf, Hashes
    <3>2. Due(r, First(r, 0)) = 0
      BY <3>1, DueNumbers
    <3>3. paid[0][FundAccount] = balances[FundAccount] /\ 0 \in 0 .. LastHash
      BY <1>1, <1>2
    <3>4. paid[0][FundAccount] + Due(r, First(r, 0)) >= balances[FundAccount]
      BY <1>2, <3>2, <3>3
    <3> QED
      BY <3>3, <3>4
  <2>2. ASSUME NEW n \in 1 .. LastHash, n - 1 \in S PROVE n \in S
    <3> DEFINE before == paid[n - 1][FundAccount]
               after  == paid[n][FundAccount]
               due    == Due(r, First(r, n - 1))
               pay    == Payout(Rounds[r], Project(r, n))
    <3>1. /\ n \in Hashes /\ n \in 0 .. LastHash /\ n - 1 \in 0 .. LastHash
          /\ before + due >= balances[FundAccount]
      BY <1>2, <2>2 DEF Hashes
    <3>2. /\ paid[n - 1] \in [AccountIds -> Nat]
          /\ before \in Nat /\ after \in Nat
          /\ paid[n] = Paid(r, paid[n - 1], n)
      BY <1>1, <1>2, <3>1
    <3>3. /\ First(r, n - 1) \subseteq ProjectsOf(r) /\ n \notin First(r, n - 1)
          /\ First(r, n) = First(r, n - 1)
                             \cup (IF n \in ProjectsOf(r) THEN {n} ELSE {})
      BY <3>1, FirstProjects
    <3>4. due \in Nat
      BY <3>3, DueNumbers
    <3>5. CASE n \in ProjectsOf(r)
      <4>1. pay \in Nat /\ after + pay >= before
        BY <3>2, <3>5, PaidFromFund
      <4>2. Due(r, First(r, n)) = due + pay
        BY <3>3, <3>5, DueOneMore
      <4> HIDE DEF before, after, due, pay
      <4>3. after + (due + pay) >= balances[FundAccount]
        BY <1>2, <3>1, <3>2, <3>4, <4>1
      <4> QED
        BY <3>1, <4>2, <4>3 DEF after
    <3>6. CASE n \notin ProjectsOf(r)
      <4>1. First(r, n) = First(r, n - 1) /\ after = before
        BY <3>2, <3>3, <3>6 DEF Paid
      <4> QED
        BY <3>1, <4>1
    <3> QED
      BY <3>5, <3>6
  <2> HIDE DEF S
  <2> QED
    BY <1>2, <2>1, <2>2, NumberInduction
<1>4. LastHash \in S /\ First(r, LastHash) = ProjectsOf(r)
  BY <1>2, <1>3 DEF First, ProjectsOf, Hashes
<1> QED
  BY <1>1, <1>4, DueAll

-----------------------------------------------------------------------------
(* Solvency.                                                               *)

\* No step starts more than one round.
FiniteRounds == IsFiniteSet(DOMAIN Rounds)

OwedTotal == SumFunction([r \in DOMAIN Rounds |-> Owed(r)])

LEMMA OwedNumbers ==
  TypeOK => \A r \in DOMAIN Rounds : Owed(r) \in Nat /\ GrantsSum(r) \in Nat
<1> SUFFICES ASSUME TypeOK, NEW r \in DOMAIN Rounds
             PROVE  Owed(r) \in Nat /\ GrantsSum(r) \in Nat
  OBVIOUS
<1> DEFINE e == [h \in ProjectsOf(r) |-> Project(r, h).grants]
<1>1. DOMAIN e = ProjectsOf(r) /\ \A h \in ProjectsOf(r) : e[h] \in Nat
  BY ProjectNumbers
<1> HIDE DEF e
<1>2. SumFunction(e) \in Nat
  BY <1>1, ProjectsFinite, SumType
<1>3. Rounds[r].total_tax \in Nat /\ Rounds[r].support_pool \in Nat
  BY RoundNumbers
<1> QED
  BY <1>2, <1>3 DEF Owed, GrantsSum, e

LEMMA OwedNumbersNext ==
  TypeOK' => (\A r \in DOMAIN Rounds : Owed(r) \in Nat /\ GrantsSum(r) \in Nat)'
BY OwedNumbers, PTL

LEMMA OwedIs ==
  \A r : Owed(r) = Rounds[r].total_tax
                     + IF Rounds[r].ongoing
                       THEN Rounds[r].support_pool + GrantsSum(r) ELSE 0
BY DEF Owed, GrantsSum

\* What is owed when a step changes one round or starts it.
LEMMA OwedChange ==
  ASSUME TypeOK, TypeOK', FiniteRounds, NEW s \in DOMAIN Rounds',
         DOMAIN Rounds' = DOMAIN Rounds \cup {s},
         \A r \in DOMAIN Rounds \ {s} : Owed(r)' = Owed(r)
  PROVE  /\ OwedTotal \in Nat
         /\ OwedTotal' = OwedTotal + Owed(s)'
                           - (IF s \in DOMAIN Rounds THEN Owed(s) ELSE 0)
<1> DEFINE f == [r \in DOMAIN Rounds |-> Owed(r)]
           g == [r \in DOMAIN Rounds' |-> Owed(r)']
<1>1. OwedTotal = SumFunction(f) /\ OwedTotal' = SumFunction(g)
  BY DEF OwedTotal
<1>2. /\ s \in DOMAIN g /\ g[s] \in Nat /\ g[s] = Owed(s)'
      /\ DOMAIN f = DOMAIN Rounds
      /\ IsFiniteSet(DOMAIN f) /\ \A j \in DOMAIN f : f[j] \in Nat
      /\ DOMAIN g \ {s} = DOMAIN f \ {s}
      /\ \A j \in DOMAIN f \ {s} : f[j] = g[j]
      /\ s \in DOMAIN Rounds => f[s] = Owed(s)
  BY OwedNumbers, OwedNumbersNext DEF FiniteRounds
<1> HIDE DEF f, g
<1>3. SumFunction(f) \in Nat
  BY <1>2, SumType
<1>4. SumFunction(g) = SumFunction(f) + g[s]
                         - (IF s \in DOMAIN f THEN f[s] ELSE 0)
  BY <1>2, SumChange
<1> QED
  BY <1>1, <1>2, <1>3, <1>4

LEMMA OwedSame ==
  ASSUME DOMAIN Rounds' = DOMAIN Rounds,
         \A r \in DOMAIN Rounds : Owed(r)' = Owed(r)
  PROVE  OwedTotal' = OwedTotal
<1>1. [r \in DOMAIN Rounds' |-> Owed(r)'] = [r \in DOMAIN Rounds |-> Owed(r)]
  OBVIOUS
<1>2. OwedTotal' = SumFunction([r \in DOMAIN Rounds' |-> Owed(r)'])
  BY DEF OwedTotal
<1> QED
  BY <1>1, <1>2 DEF OwedTotal

LEMMA OwedKept ==
  ASSUME NEW r \in DOMAIN Rounds, Rounds'[r] = Rounds[r],
         GrantsSum(r)' = GrantsSum(r)
  PROVE  Owed(r)' = Owed(r)
<1>1. Owed(r)' = Rounds'[r].total_tax
                   + IF Rounds'[r].ongoing
                     THEN Rounds'[r].support_pool + GrantsSum(r)' ELSE 0
  BY DEF Owed, GrantsSum
<1> QED
  BY <1>1, OwedIs

\* A transfer that the fund account gains by brings it the whole value.
LEMMA TransferBrings ==
  ASSUME NEW b \in [AccountIds -> Nat], NEW who \in Users, NEW value \in Nat,
         Transfer(b, who, FundAccount, value, KeepAlive)[FundAccount]
           > b[FundAccount]
  PROVE  Transfer(b, who, FundAccount, value, KeepAlive)[FundAccount]
           = b[FundAccount] + value
BY FundAssumption DEF Transfer, AccountIds

LEMMA SolventAfterStart ==
  ASSUME TypeOK, TypeOK', ProjectsInv, FiniteRounds, Solvent,
         NEW s \in RoundIds, StartRound(s)
  PROVE  Solvent'
<1>1. /\ s \notin DOMAIN Rounds /\ s \in DOMAIN Rounds'
      /\ DOMAIN Rounds' = DOMAIN Rounds \cup {s}
      /\ Rounds'[s] = NewRound
      /\ \A r \in DOMAIN Rounds : Rounds'[r] = Rounds[r]
  BY DEF StartRound, UnusedRound, Put
<1>2. \A r : GrantsSum(r)' = GrantsSum(r)
  BY SumsWhenUnchanged DEF StartRound
<1>3. \A r \in DOMAIN Rounds \ {s} : Owed(r)' = Owed(r)
  BY <1>1, <1>2, OwedKept
<1>4. Owed(s)' = 0
  <2>1. GrantsSum(s)' = 0
    BY <1>1, <1>2, NoProjectSums
  <2>2. Owed(s)' = Rounds'[s].total_tax
                     + IF Rounds'[s].ongoing
                       THEN Rounds'[s].support_pool + GrantsSum(s)' ELSE 0
    BY DEF Owed, GrantsSum
  <2> QED
    BY <1>1, <2>1, <2>2 DEF NewRound
<1>5. OwedTotal \in Nat /\ OwedTotal' = OwedTotal
  <2>1. /\ OwedTotal \in Nat
        /\ OwedTotal' = OwedTotal + Owed(s)'
                          - (IF s \in DOMAIN Rounds THEN Owed(s) ELSE 0)
    BY <1>1, <1>3, OwedChange
  <2> QED
    BY <1>1, <1>4, <2>1
<1>6. balances' = balances
  BY DEF StartRound
<1> QED
  BY <1>5, <1>6 DEF Solvent, OwedTotal

LEMMA SolventAfterRegister ==
  ASSUME TypeOK, TypeOK', ProjectsInv, Solvent,
         NEW who \in Users, NEW s \in RoundIds, NEW h \in Hashes,
         RegisterProject(who, s, h)
  PROVE  Solvent'
<1>1. Rounds' = Rounds /\ balances' = balances
  BY DEF RegisterProject
<1>2. ASSUME NEW r PROVE GrantsSum(r)' = GrantsSum(r)
  <2>1. ProjectsOf(r) \subseteq ProjectsOf(r)'
    BY DEF RegisterProject, ProjectsOf, Put
  <2>2. \A k \in ProjectsOf(r)' : ProjectKept(r, k)
    BY KeptByRegister DEF ProjectsInv
  <2> QED
    BY <2>1, <2>2, KeptProjectSums
<1>3. OwedTotal' = OwedTotal
  BY <1>1, <1>2, OwedKept, OwedSame
<1> QED
  BY <1>1, <1>3 DEF Solvent, OwedTotal

\* A donation that is paid for.
LEMMA SolventAfterDonate ==
  ASSUME TypeOK, TypeOK', FiniteRounds, Solvent,
         NEW who \in Users, NEW s \in RoundIds, NEW amount \in Donations,
         Donate(who, s, amount),
         \A r \in DOMAIN Rounds :
           Rounds'[r].pre_tax_support_pool > Rounds[r].pre_tax_support_pool =>
             balances'[FundAccount] > balances[FundAccount]
  PROVE  Solvent'
<1>1. /\ s \in DOMAIN Rounds /\ Rounds[s].ongoing /\ Rounds[s] \in RoundType
      /\ Rounds' = [Rounds EXCEPT ![s] = RoundAfterDonation(Rounds[s], amount)]
      /\ balances' = Transfer(balances, who, FundAccount, amount, KeepAlive)
  BY DEF Donate, Ongoing, TypeOK
<1>2. amount \in Nat /\ amount > 0 /\ DonationFee(amount) \in Nat
  <2>1. amount \in Nat
    BY RequestAssumption, NumberIsNat
  <2> DEFINE least == cal_amount(1, FALSE)
  <2>2. least \in Nat /\ amount > least
    BY NetPrice DEF Donate
  <2> HIDE DEF least
  <2>3. amount > 0
    BY <2>1, <2>2
  <2> QED
    BY <2>1, <2>3, DonationFeeType
<1>3. /\ Rounds'[s].ongoing
      /\ Rounds'[s].total_tax = Rounds[s].total_tax + DonationFee(amount)
      /\ Rounds'[s].support_pool
           = Rounds[s].support_pool + (amount - DonationFee(amount))
      /\ Rounds'[s].pre_tax_support_pool
           = Rounds[s].pre_tax_support_pool + amount
      /\ DOMAIN Rounds' = DOMAIN Rounds
      /\ \A r \in DOMAIN Rounds \ {s} : Rounds'[r] = Rounds[r]
  BY <1>1 DEF RoundAfterDonation, RoundType
<1>4. /\ Rounds[s].total_tax \in Nat /\ Rounds[s].support_pool \in Nat
      /\ Rounds[s].pre_tax_support_pool \in Nat /\ GrantsSum(s) \in Nat
      /\ Owed(s) \in Nat
  BY <1>1, RoundNumbers, OwedNumbers
<1>5. \A r : GrantsSum(r)' = GrantsSum(r)
  BY SumsWhenUnchanged DEF Donate
<1>6. \A r \in DOMAIN Rounds \ {s} : Owed(r)' = Owed(r)
  BY <1>3, <1>5, OwedKept
<1>7. Owed(s)' = Owed(s) + amount
  <2>1. Owed(s)' = Rounds'[s].total_tax
                     + IF Rounds'[s].ongoing
                       THEN Rounds'[s].support_pool + GrantsSum(s)' ELSE 0
    BY DEF Owed, GrantsSum
  <2>2. Owed(s) = Rounds[s].total_tax + (Rounds[s].support_pool + GrantsSum(s))
    BY <1>1, OwedIs
  <2>3. Owed(s)' = (Rounds[s].total_tax + DonationFee(amount))
                     + ((Rounds[s].support_pool
                           + (amount - DonationFee(amount))) + GrantsSum(s))
    BY <1>3, <1>5, <2>1
  <2> QED
    BY <1>2, <1>4, <2>2, <2>3
<1>8. OwedTotal \in Nat /\ OwedTotal' = OwedTotal + amount
  <2>1. /\ OwedTotal \in Nat
        /\ OwedTotal' = OwedTotal + Owed(s)'
                          - (IF s \in DOMAIN Rounds THEN Owed(s) ELSE 0)
    BY <1>1, <1>3, <1>6, OwedChange
  <2> QED
    BY <1>1, <1>2, <1>4, <1>7, <2>1
<1>9. balances'[FundAccount] = balances[FundAccount] + amount
  <2>1. balances'[FundAccount] > balances[FundAccount]
    BY <1>1, <1>2, <1>3, <1>4
  <2> QED
    BY <1>1, <1>2, <2>1, TransferBrings DEF TypeOK
<1>10. balances[FundAccount] \in Nat
  BY DEF TypeOK, AccountIds
<1> QED
  BY <1>2, <1>8, <1>9, <1>10 DEF Solvent, OwedTotal

\* A vote that is paid for brings the fund account its price.
LEMMA VoteBrings ==
  ASSUME TypeOK, VotesAddUp, NEW who \in Users, NEW r \in RoundIds,
         NEW h \in Hashes, NEW n \in Ballots, Vote(who, r, h, n),
         ProjectVotes' # ProjectVotes =>
           balances'[FundAccount] > balances[FundAccount]
  PROVE  balances'[FundAccount]
           = balances[FundAccount] + cal_amount(CostOfVote(who, r, h, n), FALSE)
<1> DEFINE amount == cal_amount(CostOfVote(who, r, h, n), FALSE)
<1>1. /\ amount \in Nat
      /\ balances' = Transfer(balances, who, FundAccount, amount, KeepAlive)
  BY VotePaid, VoteArguments, NetPrice
<1> HIDE DEF amount
<1>2. ProjectVotes' # ProjectVotes
  <2>1. /\ Votes(who, r, h)' = Votes(who, r, h) + n
        /\ n \in Nat /\ n > 0 /\ Votes(who, r, h) \in Nat
    BY VoteArguments, VotesAfterVote
  <2>2. Votes(who, r, h)' # Votes(who, r, h)
    BY <2>1
  <2> QED
    BY <2>2 DEF Votes
<1> QED
  BY <1>1, <1>2, TransferBrings DEF TypeOK, amount

\* A vote that is paid for.
LEMMA SolventAfterVote ==
  ASSUME TypeOK, TypeOK', VotesAddUp, FiniteRounds, Solvent,
         NEW who \in Users, NEW s \in RoundIds, NEW h \in Hashes,
         NEW n \in Ballots, Vote(who, s, h, n),
         ProjectVotes' # ProjectVotes =>
           balances'[FundAccount] > balances[FundAccount]
  PROVE  Solvent'
<1> DEFINE points == CostOfVote(who, s, h, n)
           amount == cal_amount(points, FALSE)
           fee == cal_amount(points, TRUE)
           net == NetOfVote(who, s, h, n)
           area == AreaOfVote(who, s, h, n)
<1>1. /\ s \in DOMAIN Rounds /\ Rounds[s].ongoing /\ Rounds[s] \in RoundType
      /\ Rounds' = [Rounds EXCEPT ![s] = RoundAfterVote(Rounds[s], area, fee)]
  BY VoteNumbers DEF Vote, Ongoing, TypeOK
<1>2. /\ amount \in Nat /\ fee \in Nat /\ net \in Nat /\ amount - fee = net
  BY VoteArguments, VoteNumbers, NetPrice, NumberIsNat
<1>3. balances'[FundAccount] = balances[FundAccount] + amount
  BY VoteBrings
<1>4. GrantsSum(s)' <= GrantsSum(s) + net
  BY VotedProjectSums
<1> HIDE DEF points, amount, fee, net, area
<1>5. /\ Rounds'[s].ongoing
      /\ Rounds'[s].total_tax = Rounds[s].total_tax + fee
      /\ Rounds'[s].support_pool = Rounds[s].support_pool
      /\ DOMAIN Rounds' = DOMAIN Rounds
      /\ \A r \in DOMAIN Rounds \ {s} : Rounds'[r] = Rounds[r]
  BY <1>1 DEF RoundAfterVote, RoundType
<1>6. /\ Rounds[s].total_tax \in Nat /\ Rounds[s].support_pool \in Nat
      /\ GrantsSum(s) \in Nat /\ GrantsSum(s)' \in Nat
      /\ Owed(s) \in Nat /\ Owed(s)' \in Nat
  BY <1>1, <1>5, RoundNumbers, OwedNumbers, OwedNumbersNext
<1>7. \A r \in DOMAIN Rounds \ {s} : Owed(r)' = Owed(r)
  BY <1>5, SumsWhenVotedElsewhere, OwedKept
<1>8. Owed(s)' <= Owed(s) + amount
  <2>1. Owed(s)' = Rounds'[s].total_tax
                     + IF Rounds'[s].ongoing
                       THEN Rounds'[s].support_pool + GrantsSum(s)' ELSE 0
    BY DEF Owed, GrantsSum
  <2>2. Owed(s) = Rounds[s].total_tax + (Rounds[s].support_pool + GrantsSum(s))
    BY <1>1, OwedIs
  <2>3. Owed(s)' = (Rounds[s].total_tax + fee)
                     + (Rounds[s].support_pool + GrantsSum(s)')
    BY <1>5, <2>1
  <2> QED
    BY <1>2, <1>4, <1>6, <2>2, <2>3
<1>9. OwedTotal \in Nat /\ OwedTotal' \in Int /\ OwedTotal' <= OwedTotal + amount
  <2>1. /\ OwedTotal \in Nat
        /\ OwedTotal' = OwedTotal + Owed(s)'
                          - (IF s \in DOMAIN Rounds THEN Owed(s) ELSE 0)
    BY <1>1, <1>5, <1>7, OwedChange
  <2> QED
    BY <1>1, <1>2, <1>6, <1>8, <2>1
<1>10. balances[FundAccount] \in Nat
  BY DEF TypeOK, AccountIds
<1> QED
  BY <1>2, <1>3, <1>9, <1>10 DEF Solvent, OwedTotal

\* The payments of end_round take no more than the grants and the pool that
\* the round ceases to owe.
LEMMA SolventAfterEnd ==
  ASSUME TypeOK, TypeOK', RoundAreaIsSum, FiniteRounds, Solvent,
         NEW s \in RoundIds, EndRound(s)
  PROVE  Solvent'
<1>1. /\ s \in DOMAIN Rounds /\ Rounds[s].ongoing /\ Rounds[s] \in RoundType
      /\ PayoutsDefined(s)
      /\ balances' = BalancesAfterEnd(s)
      /\ Rounds' = [Rounds EXCEPT ![s].ongoing = FALSE]
  BY DEF EndRound, Ongoing, TypeOK, PayoutsDefined
<1>2. /\ ~Rounds'[s].ongoing
      /\ Rounds'[s].total_tax = Rounds[s].total_tax
      /\ DOMAIN Rounds' = DOMAIN Rounds
      /\ \A r \in DOMAIN Rounds \ {s} : Rounds'[r] = Rounds[r]
  BY <1>1 DEF RoundType
<1>3. /\ Rounds[s].total_tax \in Nat /\ Rounds[s].support_pool \in Nat
      /\ GrantsSum(s) \in Nat /\ Owed(s) \in Nat
  BY <1>1, RoundNumbers, OwedNumbers
<1>4. \A r : GrantsSum(r)' = GrantsSum(r)
  BY SumsWhenUnchanged DEF EndRound
<1>5. \A r \in DOMAIN Rounds \ {s} : Owed(r)' = Owed(r)
  BY <1>2, <1>4, OwedKept
<1>6. /\ Owed(s)' = Rounds[s].total_tax
      /\ Owed(s) = Rounds[s].total_tax + (Rounds[s].support_pool + GrantsSum(s))
  <2>1. Owed(s)' = Rounds'[s].total_tax
                     + IF Rounds'[s].ongoing
                       THEN Rounds'[s].support_pool + GrantsSum(s)' ELSE 0
    BY DEF Owed, GrantsSum
  <2> QED
    BY <1>1, <1>2, <1>3, <2>1, OwedIs
<1>7. /\ OwedTotal \in Nat
      /\ OwedTotal' = OwedTotal - (Rounds[s].support_pool + GrantsSum(s))
  <2>1. /\ OwedTotal \in Nat
        /\ OwedTotal' = OwedTotal + Owed(s)'
                          - (IF s \in DOMAIN Rounds THEN Owed(s) ELSE 0)
    BY <1>1, <1>2, <1>5, OwedChange
  <2> QED
    BY <1>1, <1>3, <1>6, <2>1
<1>8. /\ balances'[FundAccount] + (GrantsSum(s) + MatchOf(s))
           >= balances[FundAccount]
      /\ MatchOf(s) <= Rounds[s].support_pool
  BY <1>1, FundAfterEnd, MatchStaysWithin DEF MatchWithinPool
<1>9. MatchOf(s) \in Nat
  <2> DEFINE f == [h \in ProjectsOf(s) |-> Match(Rounds[s], Project(s, h))]
  <2>1. DOMAIN f = ProjectsOf(s) /\ \A h \in ProjectsOf(s) : f[h] \in Nat
    BY <1>1, PayoutNumbers
  <2> HIDE DEF f
  <2>2. SumFunction(f) \in Nat
    BY <2>1, ProjectsFinite, SumType
  <2> QED
    BY <2>2 DEF MatchOf, f
<1>10. balances[FundAccount] \in Nat /\ balances'[FundAccount] \in Nat
  BY DEF TypeOK, AccountIds
<1>11. balances[FundAccount] >= OwedTotal
  BY DEF Solvent, OwedTotal
<1>12. balances'[FundAccount] >= OwedTotal'
  BY <1>3, <1>7, <1>8, <1>9, <1>10, <1>11
<1> QED
  BY <1>12 DEF Solvent, OwedTotal

LEMMA SolventInit == Init => FiniteRounds /\ Solvent
<1> SUFFICES ASSUME Init PROVE FiniteRounds /\ Solvent
  OBVIOUS
<1> DEFINE f == [r \in DOMAIN Rounds |-> Owed(r)]
<1>1. DOMAIN Rounds = {} /\ balances[FundAccount] = 0
  BY FundAssumption DEF Init, NoRounds, EmptyMap, AccountIds
<1>2. DOMAIN f = {} /\ IsFiniteSet({})
  BY <1>1, FS_EmptySet
<1> HIDE DEF f
<1>3. SumFunction(f) = 0
  BY <1>2, SumOfZeros
<1> QED
  BY <1>1, <1>2, <1>3 DEF FiniteRounds, Solvent, f

LEMMA FiniteRoundsStep == FiniteRounds /\ [Next]_vars => FiniteRounds'
<1> SUFFICES ASSUME FiniteRounds, [Next]_vars
             PROVE  \E r : DOMAIN Rounds' \subseteq DOMAIN Rounds \cup {r}
  BY FS_AddElement, FS_Subset DEF FiniteRounds
<1>1. ASSUME NEW r \in RoundIds, StartRound(r) \/ EndRound(r)
      PROVE  DOMAIN Rounds' \subseteq DOMAIN Rounds \cup {r}
  BY <1>1 DEF StartRound, EndRound, Put
<1>2. ASSUME NEW who \in Users, NEW r \in RoundIds, NEW h \in Hashes,
             RegisterProject(who, r, h)
      PROVE  DOMAIN Rounds' = DOMAIN Rounds
  BY <1>2 DEF RegisterProject
<1>3. ASSUME NEW who \in Users, NEW r \in RoundIds, NEW n \in Donations,
             Donate(who, r, n)
      PROVE  DOMAIN Rounds' = DOMAIN Rounds
  BY <1>3 DEF Donate
<1>4. ASSUME NEW who \in Users, NEW r \in RoundIds, NEW h \in Hashes,
             NEW n \in Ballots, Vote(who, r, h, n)
      PROVE  DOMAIN Rounds' = DOMAIN Rounds
  BY <1>4 DEF Vote
<1> QED
  BY <1>1, <1>2, <1>3, <1>4 DEF Next, vars

\* The assumption of the comment in vote (lib.rs:284), and the same of
\* donate, is what the fund account needs: if every vote that is counted and
\* every donation that is noted was paid for, the fund account covers the
\* tax of all rounds and the pools and grants of the ongoing ones, although
\* end_round skips payments that fail and all rounds share one account
\* (lib.rs:183, 226-239, 285).  The code does not see to the assumption.
THEOREM SolventWhenPaid == Spec /\ VotesPaid /\ DonationsPaid => []Solvent
<1> DEFINE Inv == /\ TypeOK /\ ProjectsInv /\ RoundAreaIsSum
                  /\ FiniteRounds
           Votings == ProjectVotes' # ProjectVotes =>
                        balances'[FundAccount] > balances[FundAccount]
           Donatings == \A r \in DOMAIN Rounds :
                          Rounds'[r].pre_tax_support_pool
                              > Rounds[r].pre_tax_support_pool =>
                            balances'[FundAccount] > balances[FundAccount]
<1>1. Init => FiniteRounds /\ Solvent
  BY SolventInit
<1>2. ASSUME Inv, Inv', Solvent, Next, Votings, Donatings
      PROVE  Solvent'
  <2>1. TypeOK /\ TypeOK' /\ ProjectsInv /\ VotesAddUp /\ RoundAreaIsSum /\ FiniteRounds
    BY <1>2 DEF ProjectsInv
  <2> QED
    BY <1>2, <2>1, SolventAfterStart, SolventAfterRegister, SolventAfterDonate,
       SolventAfterVote, SolventAfterEnd DEF Next
<1>3. ASSUME Solvent, UNCHANGED vars PROVE Solvent'
  BY <1>3 DEF vars, Solvent, Owed, ProjectsOf, Project
<1>4. Inv /\ Inv' /\ Solvent /\ [Next]_vars /\ [Votings]_vars
        /\ [Donatings]_vars => Solvent'
  BY <1>2, <1>3
<1>5. FiniteRounds /\ [Next]_vars => FiniteRounds'
  BY FiniteRoundsStep
<1>6. Spec => []Inv
  BY <1>1, <1>5, RoundsAlways, PTL DEF Spec
<1> HIDE DEF Inv, Votings, Donatings
<1>7. VotesPaid => [][Votings]_vars
  BY PTL DEF VotesPaid, Votings
<1>8. DonationsPaid => [][Donatings]_vars
  BY PTL DEF DonationsPaid, Donatings
<1> QED
  BY <1>1, <1>4, <1>6, <1>7, <1>8, PTL DEF Spec

=============================================================================
