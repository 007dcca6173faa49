CONSTANTS
  Given <- MCGiven
  Palette <- MCPalette
  MaxDeclarations = 1
  Spelling <- MCSpelling
  Camel <- MCCamel
  Keywords = {"list", "option", "record", "result", "string"}
  DefaultInterface = "types"
  Getters = TRUE
SPECIFICATION HostSpec
INVARIANT LinkerNamesMatch
CHECK_DEADLOCK FALSE
