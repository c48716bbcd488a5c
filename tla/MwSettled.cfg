SPECIFICATION Spec
CONSTANTS
  W = 16
  Bars <- MCBars
  BarAddr <- MCAddr
  Aperture = 3
  Requests <- Remaps
  OwnWrites <- OneLimit
  Touches <- EdgesOfTwo
  Restartable <- Both
INVARIANTS WindowInv SettledAccess
