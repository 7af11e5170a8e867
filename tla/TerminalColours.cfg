\* Two lines of two columns, blank text, every attribute change.
SPECIFICATION Spec
CONSTANTS
  Width = 2
  FullHeight = 12
  Fonts <- OneFont
  FONT_HEIGHT = 4
  MinLines = 2
  MaxHeight = 3
  TabStop = 2
  MaxColour = 3
  Word = 1024
  Glyphs = {}
  Blank = blank
  DEFAULT_FG = 1
  DEFAULT_BG = 0
  Lax = {}
  SgrFg <- Lamp
  SgrBg <- Plain
  Inverses <- AllInverses
  Counts = {1}
  Features = {}
  BannerLen = 1
  Marks <- NoMarks
INVARIANTS ShownDistinct HiddenClean
PROPERTIES ImplementsScreen
