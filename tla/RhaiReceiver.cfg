\* Does a script keep its receiver when a Rhai method fails?
CONSTANTS
  Half = 4
  Nanos = 2
  Chars = {"a"}
  Enums <- MCEnums
  Calls <- MCCalls
  NoCall = NoCall
  Candidates <- MCCandidates
  Params <- MCParams
  Lifted <- MCLifted
  Unliftable <- MCUnliftable
  Fit <- MCFit
  Accepts <- MCAccepts
SPECIFICATION Spec
INVARIANT ReceiverKept
