\* Heap
CONSTANTS
  SBRK_BEGIN = 0
  SBRK_END = 9
  META_SIZE = 1
  Sizes = {1, 2, 3}
  Values = {0, 1}
  HEADER = 7
\* Train
  CommandTiles = {0, 1}
  PauseTiles = {3}
  ZAMBONI_LOOP = 15
\* Console
  SCREEN_WIDTH = 4
  SCREEN_HEIGHT = 4
  Wnd <- MCWnd
  Glyphs = {"a", "b"}
  Blank = " "
\* WmScreen
  ScreenWidth = 4
  ScreenHeight = 4
  NewWindows <- MCNewWindows
  Terminals = {1}
  Strings <- MCStrings
  Empty = " "
  Reach = 1
\* KeyDecoder
  MaxDown = 2
\* KeyRing
  RingKeys = {"a", "b"}
  MAX_KEYB_BUFFER = 4
  NoKeyYet = "none"
\* Shell
  MaxLine = 4
  Letters = {"a", "b"}
  CommandNames <- MCCommandNames
\* Pong
  PONG_WINDOW_WIDTH = 30
  PONG_WINDOW_HEIGHT = 10
  PONG_RACKET_HEIGHT = 3
\* Formats
  INT_WIDTH = 8
  Arguments <- MCArguments
  Widths = {0, 1, 2, 3, 9}
  StarWidths <- MCStarWidths
  Precisions <- MCPrecisions
  Texts <- MCTexts
  Parameters <- MCParameters
SPECIFICATION PartsSpec
INVARIANTS
  HeapIsConsistent
  ConfigurationIsRight
  TrainGoesAndStops
  ScreenIsCurrent
  KeysAreTyped
  LineIsShown
  CommandIsTheFirstWord
  PongDrawsInItsWindow
  TextsAreRight
  ConvertedAlike
PROPERTIES
  SimulatorNeverAborts
  ZamboniStaysOnTheLoop
  ImplementsAllocator
  ConsoleIsATerminal
  WindowIsATerminal
  ImplementsKeyQueue
