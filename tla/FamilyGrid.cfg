SPECIFICATION GridSpec
CONSTANTS
  Families = 4
  Widths = {"narrow", "wide"}
  Columns <- MCColumns
  Groups = {"language"}
INVARIANTS
  GridTypeOK
  RowsIntact
  
PROPERTIES
  PanelsFollowTiles
CHECK_DEADLOCK FALSE
