CONSTANTS
  Sets <- SmallSets
  Texts <- ShortTexts
SPECIFICATION Spec
INVARIANTS
  TypeOK
  ListRead
  RefusedAtFault
  NumbersRead
