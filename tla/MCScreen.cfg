CONSTANTS
  Cols = 2
  Lines = 2
  Writers = {w1}
  Glyphs = {"A"}
  Colours = {0}
  MaxOps = 6
SPECIFICATION SSpec
CHECK_DEADLOCK FALSE
INVARIANTS
  WindowIsText
