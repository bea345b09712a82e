SPECIFICATION Spec
CONSTANTS
  Alice = Alice
  Bob = Bob
  Carol = Carol
  Fund = Fund
  Users <- TwoUsers
  FundAccount <- Fund
  Endowment <- Poor
  ExistentialDeposit = 1
  U128 = 32
  OverflowChecks = FALSE
  U32 = 1000
  UnitOfVote = 1
  NumberOfUnitPerVote = 3
  FeeRatioPerVote = 1
  RoundIds = {1}
  LastHash = 1
  Ballots = {1, 2}
  Donations = {4}
  MaxVotes = 3
  MaxDonated = 8
SYMMETRY UsersAlike
PROPERTIES
  VotesPaid
CHECK_DEADLOCK FALSE
