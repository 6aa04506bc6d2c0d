SPECIFICATION RSpec
CONSTANT Combos <- TwoCombos
CONSTANT LegCount = 2
CONSTANT Quantity <- OneOfTwo
CONSTANT Gateways <- TwoGateways
CONSTANT Owner <- OneEach
CONSTANT DayCombos <- OneDay
CONSTANT MaxRuns = 2
INVARIANT RTypeOK
INVARIANT EndedComboLeavesNothing
INVARIANT MatchedMeansAllTraded
INVARIANT LiveComboHasNoLostLeg
INVARIANT FilledLegIsGone
