\* What the comment at the unreachable branch of BEGIN_NUMBER says.
CONSTANTS
  Sets <- SmallSets
  Texts <- ShortTexts
SPECIFICATION Spec
INVARIANTS
  EndOfInputAccepted
