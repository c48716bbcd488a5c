SPECIFICATION Spec
CONSTANTS
  W = 16
  Bars <- MCBars
  BarAddr <- MCAddr
  Aperture = 3
  Requests <- OpenOnce
  OwnWrites <- Nothing
  Touches <- Edges
  Restartable <- Nobody
INVARIANTS BaseOffered
