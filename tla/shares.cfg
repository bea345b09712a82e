SPECIFICATION SpecFounded
CONSTANTS
  Alice = Alice
  Bob = Bob
  Carol = Carol
  NoKey = NoKey
  Guild = Guild
  Custodian = Custodian
  Users <- ThreeUsers
  GuildAccount <- Guild
  CustodyAccount <- Custodian
  DefaultAccount <- NoKey
  Endowment <- Modest
  ExistentialDeposit = 1
  U128 = 1000
  OverflowChecks = FALSE
  MaxVotingPeriodLength = 2
  MaxGracePeriodLength = 2
  MaxDilutionBound = 2
  MaxShares = 4
  BlockTime = 6000
  SummonSettings <- OnlyOverlapping
  Tributes = {0}
  ShareRequests = {1, 2}
  DelegateKeys <- NoKeys
  MaxTime = 24000
  MaxSummonTime = 6000
  MaxProposals = 2
  MaxStartingPeriod = 2
SYMMETRY UsersAlike
INVARIANTS
  SharesConserved
  SharesWithinMax
  YesVotersLocked
  YesVotesBacked
  YesVotesWithinTotal
PROPERTIES
  RagequitAfterProcessing
