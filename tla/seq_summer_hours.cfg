SPECIFICATION Spec
CONSTANTS
  Configs <- Hours
  Refs <- InSummer
  Offset <- Berlin
  Summers <- Summer16
INVARIANTS RefIsNewest
