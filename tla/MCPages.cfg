SPECIFICATION MCSpec
CONSTANTS
  Word <- MCWord
  Entry <- MCEntry
  Links <- MCLinks
  Daily <- MCDaily
  Choice <- MCChoice
  Typed = {"Dog"}
  Count = 1
  BotClicks = 0
  HistoryCap = 1
  MaxClicks = 2
  MaxLoads = 2
  Title <- MCTitle
  Spelling <- MCSpelling
  Ordinary = {"ant", "Ant", "bee", "gone"}
  Existing = {"ant", "Ant", "bee", "Talk"}
  English = {"ant", "bee", "gone"}
  MaxTries = 2
  MaxAttempts = 2
  Length = 2
  TextWidth = 3
  Delay = 2
  Hold = 3
  PageWidth = 4
  Full = 3
  Speed = 1
  Frames = 3
  FrameTime = 2
  Step = {1, 2}
  Type <- MCType
  Order <- MCOrder
  MaxScale = 2
  Fits = {1, 2}
  MaxBuilds = 1
  Hosts <- MCHosts
  Areas = {"", "wiki", "other"}
  Titles = {"cat"}
  Chars = {"a", "i", " ", "-", "NL"}
  MaxChars = 5
  Marks = {"/", "n", "t", "a"}
  MaxMarks = 5
  Places <- MCPlaces
CHECK_DEADLOCK FALSE
INVARIANTS
  RecordsTrue
  PathIsRoute
  EachOnce
  ChoicesKept
  
PROPERTIES
  OverlayLifts
  HuntSettles
  AnimationsTurn
