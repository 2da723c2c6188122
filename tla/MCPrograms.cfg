\* The small programs, one at a time.
SPECIFICATION Spec
CHECK_DEADLOCK FALSE  \* each of the programs ends
SYMMETRY ListSymmetry

CONSTANTS
  h1 = h1
  h2 = h2
  e1 = e1
  e2 = e2
  e3 = e3
  e4 = e4
  Anchor <- TwoLists
  Entry <- FourEntries
  Nowhere = Nowhere
  Texts <- SomeTexts
  BufferSize = 12
  Numbers <- SomeNumbers
  Faces <- SomeFaces
  ShortClick = 2
  LongClick = 3
  LongPress = 3
  MaxPolls = 7
  MaxCounter = 10
  Cells = 3
  DataSize = 2
  Width = 7
  Height = 5
  FontWidth = 2
  FontHeight = 2
  Glyph <- TwoGlyphs
  Strings <- SomeStrings

INVARIANTS
  RoundTrip
  GameIsFair
  EventsMatchHistory
  DisplayShowsCounter
  DrawnAsAsked
  RingsAreLists
