CONSTANTS
  Given <- MCGiven
  Palette <- MCPalette
  MaxDeclarations = 4
  Spelling <- MCSpelling
  Camel <- MCCamel
  Keywords = {"list", "option", "record", "result", "string"}
  DefaultInterface = "types"
  Getters = TRUE
SPECIFICATION HostSpec
INVARIANTS TypeOK WorldIsServed CallersFindExports PlanIsTotal ScriptsSeeDeclared
CHECK_DEADLOCK FALSE
