CONSTANTS
  Scancodes = {{2, 3, 4}}
  KEYS = 1
  MOVES = 2
SPECIFICATION Ps2Spec
PROPERTY MouseMoves
CHECK_DEADLOCK FALSE
