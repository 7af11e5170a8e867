\* The text screen with a host that commits show_shown.
SPECIFICATION Spec
CONSTANTS
  Width = 2
  FullHeight = 16
  Fonts <- OneFont
  FONT_HEIGHT = 4
  MinLines = 2
  MaxHeight = 4
  TabStop = 2
  MaxColour = 1
  Word = 1024
  Glyphs = {a}
  Blank = blank
  DEFAULT_FG = 1
  DEFAULT_BG = 0
  Lax = {"show_shown"}
  SgrFg <- NoColours
  SgrBg <- NoColours
  Inverses <- NoColours
  Counts = {1, 3}
  Features = {}
  BannerLen = 1
  Marks <- NoMarks
PROPERTIES ImplementsScreen
