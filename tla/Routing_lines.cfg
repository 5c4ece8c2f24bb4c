SPECIFICATION Spec
CONSTANTS
  l1 = l1
  l2 = l2
  Lines <- TwoLines
INVARIANT OneEffectPerLine
INVARIANT EveryPromptHasAnOwner
SYMMETRY LineSymmetry
CHECK_DEADLOCK FALSE
