SPECIFICATION Spec
CONSTANTS
  VGA_WIDTH = 4
  VGA_HEIGHT = 3
  Glyphs <- MCGlyphs
  Keys <- MCKeys
  BufSize = 6
  Outputs <- MCOutputs
  MaxText = 15
INVARIANTS ScreenShowsPaper LineIsShown
