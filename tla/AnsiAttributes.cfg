\* One or two lines of one column, attributes and private sequences, F10 and F12.
SPECIFICATION Spec
CONSTANTS
  Width = 1
  FullHeight = 8
  Fonts <- OneFont
  FONT_HEIGHT = 4
  MinLines = 1
  MaxHeight = 2
  TabStop = 2
  MaxColour = 1
  Word = 1024
  Glyphs = {"a"}
  Blank = " "
  Marks = {}
  DEFAULT_FG = 1
  DEFAULT_BG = 0
  HostBytes <- AttributeBytes
  ShapeOf <- LetterShapes
  MaxParams = 3
  Values <- AttributeValues
  Keys = {"F10", "F12"}
  Lax = {}
INVARIANTS TypeOK
PROPERTIES BytesImplementScreen
