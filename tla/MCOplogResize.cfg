\* Two data-bearing members and an arbiter; the configuration changes between
\* two sizes and none.
CONSTANTS
  h1 = h1  h2 = h2  h3 = h3
  MemberList <- MCMemberList
  Arbiters <- MCArbiters
  Sizes <- MCSizes
  Configs <- MCConfigs
  MaxFaults = 2
SPECIFICATION HelpfulSpec
INVARIANTS TypeOK StateIsConfirmed
PROPERTIES FanOutIsOrderly Converges UnmanagedUntouched
