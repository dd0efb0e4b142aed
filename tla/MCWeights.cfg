SPECIFICATION WeightsSpec
CONSTANTS
  Players <- P3
  EnumOrder <- Order
  Evidence <- Mixed
INVARIANTS SharesAreFair WeightsFollowEvidence DecisionMatchesRanking CastsAreMajorities WinIsExact
