SPECIFICATION Spec
CONSTANTS
  Unit = {u1, u2}
  Key <- MCKey
  Groupable <- MCGroupable
  Threshold = 5
  MaxCommands = 3
  MaxStep = 2
INVARIANTS NoEmptyCall
