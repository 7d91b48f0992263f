SPECIFICATION Spec
CONSTANTS
  Data <- MCData
  Attributes <- MCAttributes
  Hints <- MCHints
  None = None
CHECK_DEADLOCK FALSE
INVARIANTS ValueIsASnapshot LongOnlyIfHintedOrShrunk TwoCallsSuffice
