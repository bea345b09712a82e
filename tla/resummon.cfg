SPECIFICATION Spec
CONSTANTS
  Alice = Alice
  Bob = Bob
  Carol = Carol
  NoKey = NoKey
  Guild = Guild
  Custodian = Custodian
  Users <- TwoUsers
  GuildAccount <- Guild
  CustodyAccount <- Custodian
  DefaultAccount <- NoKey
  Endowment <- Meagre
  ExistentialDeposit = 1
  U128 = 1000
  OverflowChecks = FALSE
  MaxVotingPeriodLength = 2
  MaxGracePeriodLength = 2
  MaxDilutionBound = 2
  MaxShares = 3
  BlockTime = 6000
  SummonSettings <- AnySettings
  Tributes = {1}
  ShareRequests = {1}
  DelegateKeys <- BobAsKey
  MaxTime = 12000
  MaxSummonTime = 6000
  MaxProposals = 2
  MaxStartingPeriod = 2
INVARIANTS
  TypeOK
  ProcessedInOrder
  StartingPeriodsIncrease
  RequestedSharesAccounted
  OwnKey
