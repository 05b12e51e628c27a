CONSTANTS
  MAX_VFS_NODES = 3
  Paths <- const_Paths
  Defaults <- const_Defaults
  Sizes = {1, 2}
  MAX_PROCESSES = 3
  PIDS = 5
  FOUND = 3
  UNKNOWN = 0
  Audio = {a}
  Hid = {h}
  Others = {o}
  MAX_PAIRED = 2
  MAX_ACTIVE = 2
  Programs = {"notepad", "calc"}
  Letters = {"C", "E"}
  WINE_MAX_APPS = 3
  MAX_DRIVES = 4
  MAX_OVERRIDES = 1
  INTS = 64
  Base = 10
  Base16 = 16
  Sources <- const_Sources
  TERMINAL_WIDTH = 4
  TERMINAL_HEIGHT = 4
  TAB = 2
  INPUT_BUFFER_SIZE = 4
  HISTORY_SIZE = 2
  MAX_ARGS = 2
  HELP = 2
  PROMPT <- const_PROMPT
  KEYS = 4
  VGA_WIDTH = 4
  VGA_HEIGHT = 2
  TABSTOP = 2
  Colours = {"grey"}
  Spots <- const_Spots
  CHARS = 4
  MAX_STORE_APPS = 26
  MAX_INSTALLED_APPS = 3
  MAX_DEVELOPERS = 2
  MAX_REVIEWS = 1
  Emails = {"e1"}
  Touched = {4, 18, 25}
  Ratings = {0, 5}
  RESTARTS = 1
  Blocks = {b1, b2, b3}
  Coordinates = {0, 1}
  FB_WIDTH = 3
  FB_HEIGHT = 2
  UNSIGNED = 16
  LEVELS = 3
  RADIUS = 1
  GLASS = 2
  BORDER = 1
  BORDER_ALPHA = 1
  Levels = {0, 2}
  Lefts <- const_Lefts
  Tops <- const_Tops
  Extents = {0, 3}
  Radii = {1}
  MAX_TABS = 3
  MAX_NOTES = 3
  TabPaths = {"p1", "p2"}
  Looks = {"l1", "l2"}
  NOTES = 4
SPECIFICATION AppsSpec
INVARIANTS AppTypes FoundWhileAlive OneNetwork ListedWhileConnected WineSound
           StringsSound ScreenSound ShowsTheFoot BooksBalance ScreenshotsFreed
           StaysInside AppletsAgree
PROPERTIES OpenIsStable RefStaysUntilOlderExits
\* Several parts stop at a bound.
CHECK_DEADLOCK FALSE
