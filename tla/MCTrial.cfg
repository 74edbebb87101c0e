\* Two trials over one slot, every kind of row, one change of a row or a switch.
SPECIFICATION FairSpec
CONSTANTS
  u1 = u1
  u2 = u2
  Users = {u1, u2}
  Bucket <- MCBucket
  DiscountCrowd <- MCDiscountCrowd
  ActivityCrowd <- MCActivityCrowd
  Procs = {p1, p2}
  Catalogs <- MCCatalogs
  Cuts <- MCCuts
  Nil = Nil
  Bad = Bad
  IntBits = 16
  Slots = 1
  MaxEdits = 1
INVARIANTS
  TypeOK
  LoadersBounded
  QuietTrialIsExact
  PriceBounded
PROPERTY
  SlotsComeBack
