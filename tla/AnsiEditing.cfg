\* Two lines of two columns, every editing sequence byte by byte, Print Screen.
SPECIFICATION Spec
CONSTANTS
  Width = 2
  FullHeight = 12
  Fonts <- OneFont
  FONT_HEIGHT = 4
  MinLines = 2
  MaxHeight = 3
  TabStop = 2
  MaxColour = 1
  Word = 1024
  Glyphs = {"a"}
  Blank = " "
  Marks = {}
  DEFAULT_FG = 1
  DEFAULT_BG = 0
  HostBytes <- EditingBytes
  ShapeOf <- LetterShapes
  MaxParams = 2
  Values <- EditingValues
  Keys = {"print_screen"}
  Lax = {}
INVARIANTS ParamsOpen
PROPERTIES BytesImplementScreen PrintScreenClears ReportReturns
