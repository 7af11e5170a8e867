\* Two fonts and every line limit: one, two or three lines of two columns.
SPECIFICATION WorkstationSpec
CONSTANTS
  Width = 2
  FullHeight = 6
  Fonts <- TwoFonts
  FONT_HEIGHT = 2
  MinLines = 2
  MaxHeight = 3
  TabStop = 2
  MaxColour = 1
  Word = 1024
  Glyphs = {a}
  Blank = blank
  DEFAULT_FG = 1
  DEFAULT_BG = 0
  Lax = {}
  SgrFg <- NoColours
  SgrBg <- NoColours
  Inverses <- NoColours
  Counts = {0, 2}
  Features = {"save", "resize"}
  BannerLen = 1
  Marks <- Inked
INVARIANTS TypeOK CursorOnScreen MotionsAgree
PROPERTIES ImplementsScreen BorderKept
