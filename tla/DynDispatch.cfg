\* Every call of Functions from the three runtimes, in any sequence.
CONSTANTS
  Half = 4
  Nanos = 2
  Chars = {"a"}
  Enums <- MCEnums
  Calls <- MCCalls
  NoCall = NoCall
  Candidates <- MCCandidates
  Params <- MCParams
  Lifted <- MCLifted
  Unliftable <- MCUnliftable
  Fit <- MCFit
  Accepts <- MCAccepts
SPECIFICATION Spec
INVARIANTS
  TypeOK
  OneBodyRuns
  BestFitRuns
  DeclarationOrder
  RoundTrip
  ExactFitsConvert
PROPERTY ReceiverComesBack
