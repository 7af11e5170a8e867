\* Print Screen pressed in the middle of a sequence.
SPECIFICATION Spec
CONSTANTS
  Width = 2
  FullHeight = 12
  Fonts <- OneFont
  FONT_HEIGHT = 4
  MinLines = 2
  MaxHeight = 3
  TabStop = 2
  MaxColour = 1
  Word = 1024
  Glyphs = {"a"}
  Blank = " "
  Marks = {}
  DEFAULT_FG = 1
  DEFAULT_BG = 0
  HostBytes <- TypingBytes
  ShapeOf <- LetterShapes
  MaxParams = 1
  Values <- EditingValues
  Keys = {"print_screen"}
  Lax = {"key_in_sequence"}
PROPERTIES PrintScreenClears
