\* The provider connects to the first of two nodes; the first member block
\* names either of them.
CONSTANTS
  h1 = h1  h2 = h2  router = router
  Hosts <- MCHosts
  FirstHosts <- MCHosts
  ProviderHost = h1
  Mongos = FALSE
  NoHost = NoHost
  MaxFaults = 2
SPECIFICATION HelpfulSpec
INVARIANTS TypeOK InitiatesInOrder
PROPERTIES CreateEnds CreateSucceeds
