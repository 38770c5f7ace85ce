SPECIFICATION FairSpec
CONSTANTS
  Clients = {c1, c2}
  Kinds = {"UTF8", "STRING", "IMAGE", "BROKEN"}
  MaxCopies = 2
  MaxPastes = 2
  MaxFocus = 1
  MaxToggles = 1
  MaxDrops = 1
INVARIANTS
  TypeOK
  CacheFresh
  CacheCurrent
  OwnerShown
PROPERTIES
  PasteAnswered
CHECK_DEADLOCK FALSE
