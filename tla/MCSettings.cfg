SPECIFICATION LiveSpec
CONSTANTS
  Values = {"p", "q"}
  Usual = "p"
  Padded = "0p"
  Width = 2
  MaxFaults = 3
INVARIANT TypeOK
PROPERTIES EmptyPlanMeansDone PreviewShowsCommands DestroyRestores Converges
