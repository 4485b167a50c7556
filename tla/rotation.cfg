SPECIFICATION KeySpec
CONSTANTS
  Names = {"KEY", "SIZE"}
  Secrets = {"KEY"}
  Typed <- UsableTyped
  ShortValues = {"pin #2"}
  Dotenv <- MCDotenv
  Procs = {p1, p2}
  p1 = p1
  p2 = p2
  Files <- MCFiles
  HandLines = {}
  MaxChanges = 3
  Key = "KEY"
  Shells <- OnlyDotenv
  Headers = {"pin", "secret"}
  NonAscii = {}
SYMMETRY Alike
CHECK_DEADLOCK FALSE
INVARIANT
  RotatesWithoutRestart
