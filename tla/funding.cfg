SPECIFICATION Spec
CONSTANTS
  Alice = Alice
  Bob = Bob
  Carol = Carol
  Fund = Fund
  Users <- ThreeUsers
  FundAccount <- Fund
  Endowment <- Poor
  ExistentialDeposit = 1
  U128 = 16
  OverflowChecks = FALSE
  U32 = 1000
  UnitOfVote = 1
  NumberOfUnitPerVote = 3
  FeeRatioPerVote = 1
  RoundIds = {1}
  LastHash = 2
  Ballots = {0, 1, 2}
  Donations = {4, 5}
  MaxVotes = 4
  MaxDonated = 5
SYMMETRY UsersAlike
INVARIANTS
  TypeOK
  AreaIsPairs
  RoundAreaIsSum
  GrantsAreCost
  TaxAccounted
  MatchWithinPool
CHECK_DEADLOCK FALSE
