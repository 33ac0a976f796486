SPECIFICATION Spec
CONSTANTS
  Letters = {"a"}
  Specials = {"+"}
  Others = {":"}
  NonAscii = {"nonascii"}
  Inputs <- MCInputs
  Short = 5
  MaxAddress = 6
  MaxLocal = 3
  MaxLabel = 2
  MaxDomain = 3
INVARIANTS
  
  
  
  ReadersAgree
CHECK_DEADLOCK FALSE
