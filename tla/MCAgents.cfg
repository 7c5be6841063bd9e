SPECIFICATION Spec
CONSTANTS
  a = a
  b = b
  c = c
  d = d
  Pid = {a, b, c, d}
  Repl = Repl
  NoPid = NoPid
  Path <- Places
  Canonical <- MCCanonical
  Folders <- MCFolders
  Existing <- Places
  System = {"/dev"}
  Kernel = "Seatbelt"
  Proc = "/proc"
  ConfigFile = "$HOME/.config"
  Sessions = "$HOME/.local/share/unixagent"
  Config <- MCConfig
  Default <- MCConfig
  MaxPolls = 2
SYMMETRY PidSymmetry
CHECK_DEADLOCK FALSE
INVARIANTS
  DepthBounded
  OfferHonoured
  ReportedOnce
