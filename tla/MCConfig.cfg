CONSTANTS
  Alphabet <- MCAlphabet
  Wishes <- MCWishes
  Pads <- MCPads
  Files <- MCFiles
  Forms <- MCForms
  MaxArgs = 3
SPECIFICATION Spec
INVARIANTS OptionsAsWritten StartsAsTold RunsOnlyValid
CHECK_DEADLOCK FALSE
