SPECIFICATION Spec
CONSTANTS
  Numerals <- MCNumerals
  Huge <- MCHuge
  Scientific <- MCScientific
  Words <- MCWords
  Foreign = {"eacute"}
  Roots <- MCRoots
  Links <- MCLinks
  Layouts <- MCLayouts
  MaxLinks = 4
CHECK_DEADLOCK FALSE
INVARIANTS LayoutIsNoIdentity PlainRenderingReparses AltersSuitSqlite
