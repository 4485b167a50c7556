SPECIFICATION KeySpec
CONSTANTS
  Names = {"KEY", "SIZE"}
  Secrets = {"KEY"}
  Typed <- MCTyped
  ShortValues = {"pin #2", "'open"}
  Dotenv <- MCDotenv
  Procs = {p1, p2}
  p1 = p1
  p2 = p2
  Files <- MCFiles
  HandLines <- MCHandLines
  MaxChanges = 3
  Key = "KEY"
  Shells <- MCShells
  Headers <- MCHeaders
  NonAscii = {"schluessel"}
SYMMETRY Alike
CHECK_DEADLOCK FALSE
INVARIANTS
  TypeOK
  MaskTellsTheKey
  MetadataTellsHistory
  NoStrayCopies
PROPERTIES
  OnlyItsOwnLines
  CommandsTakeEffect
  RestartCompletesRotation
