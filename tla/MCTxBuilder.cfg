SPECIFICATION Spec
CONSTANTS
  Inputs <- TwoInputs
  Tails <- TwoTails
  Keys <- OneKey
  MaxCommands = 2
  MaxItems = 3
INVARIANTS
  TypeOK
  NeverVerifies
PROPERTIES
  UndoStackSpec
  MissesElsewhere
