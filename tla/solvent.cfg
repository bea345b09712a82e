SPECIFICATION Spec
CONSTANTS
  Alice = Alice
  Bob = Bob
  Carol = Carol
  Fund = Fund
  Users <- TwoUsers
  FundAccount <- Fund
  Endowment <- Rich
  ExistentialDeposit = 1
  U128 = 1000
  OverflowChecks = FALSE
  U32 = 1000
  UnitOfVote = 2
  NumberOfUnitPerVote = 3
  FeeRatioPerVote = 1
  RoundIds = {1, 2}
  LastHash = 2
  Ballots = {1, 2}
  Donations = {7}
  MaxVotes = 2
  MaxDonated = 7
SYMMETRY UsersAlike
INVARIANTS
  VotesAddUp
  Solvent
PROPERTIES
  EndedRoundFrozen
  OwnersPaid
  RanksArePaid
CHECK_DEADLOCK FALSE
