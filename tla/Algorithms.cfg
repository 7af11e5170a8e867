\* A heap of thirteen headers and one byte, blocks of two and of three
\* headers; a screen of seven by seven pixels; a clock of 16 ticks.
SPECIFICATION AlgorithmsSpec
CONSTANTS
  BLOCK_HEADER_SIZE = 3
  WORD = 1
  Base = 1
  HeapSize = 40
  Sizes = {1, 6}
  NULL = 0
  Divisors <- StartingDivisors
  W = 7
  H = 7
  FONT_WIDTH = 2
  Glyph <- Bracket
  Halftone <- Thirds
  Angle <- ArcTangents
  GSX_GC_ARMLNG = 2
  Period = 16
  Slack = 3
CHECK_DEADLOCK FALSE
INVARIANTS Tiling TypeOK ListSound PolygonsSound FiguresSound TimersInTime
PROPERTIES ImplementsAllocator RatesRotate
