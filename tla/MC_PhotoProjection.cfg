\* Two overlapping deliveries over two photos, a new measurement between.
SPECIFICATION FairSpec
CONSTANTS
  p1 = p1
  p2 = p2
  Deliveries = {p1, p2}
  NumPhotos = 2
  SanePhotos = {1, 2}
  Rmses = {250, 251}
  Narrowed <- NarrowedValues
  Absent = Absent
  MaxAttempts = 2
  MaxFaults = 1
INVARIANTS
  TypeOK
  FlagMatchesComposite
  EveryPhotoAccounted
PROPERTIES
  RetryKeepsPictures
  EveryDeliveryEnds
CHECK_DEADLOCK FALSE
