SPECIFICATION PanelSpec
CONSTANTS
  Clips = {c1, c2}
  Syncs = {s1}
  Options <- MCOptions
  AutoOption = "auto"
  Gateways <- MCGateways
  Hasty = FALSE
  Styled <- MCStyled
  MaxWords = 4
  DiffLimit = 3
  Nobody = Nobody
INVARIANTS
  OneRecorder
  PanelHonest
  ComparisonsHonest
PROPERTIES
  StartsReconciled
  RecordingEnds
CHECK_DEADLOCK FALSE
