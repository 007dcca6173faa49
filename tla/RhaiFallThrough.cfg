\* Does Rhai fall through in declaration order?
CONSTANTS
  Half = 4
  Nanos = 2
  Chars = {"a"}
  Enums <- MCEnums
  Calls <- MCCalls
  NoCall = NoCall
  Candidates <- MCCandidates
  Params <- MCParams
  Lifted <- MCLifted
  Unliftable <- MCUnliftable
  Fit <- MCFit
  Accepts <- MCAccepts
SPECIFICATION Spec
INVARIANT FallThroughOrder
