CONSTANTS
  Letters = {"a", "A", "b"}
  Lower <- LowerCase
  Star = "*"
  Nul = "nul"
  MaxText = 4
  MaxFilter = 3
  Half = 8
  IntMB = 4
  MaxMB = 12
SPECIFICATION FairSpec
INVARIANTS AlgorithmsInv MatchIsGlob ThresholdExact ArraySizeExact
PROPERTIES Terminates
