SPECIFICATION Spec
CONSTANTS
  MAX_VMS = 2
  vm_priv_page <- PrivPages
  PAGES <- Pages
INVARIANTS
  TypeOK
  AccessFollowsLayout
  GicIsEmulated
  PrivateIsPrivate
