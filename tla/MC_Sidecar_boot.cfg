\* A process that started, with a part missing that no check demands or a misspelt backend.
SPECIFICATION Spec
CONSTANTS
  r1 = r1
  r2 = r2
  a1 = a1
  a2 = a2
  p1 = p1
  p2 = p2
  p3 = p3
  t1 = t1
  t2 = t2
  b1 = b1
  b2 = b2
  u1 = u1
  u2 = u2
  x1 = x1
  x2 = x2
  x3 = x3
  NoValue = NoValue
  Requests = {r1, r2}
  Addresses = {a1, a2}
  AddressesOf <- TheAddresses
  Locations = {p1, p2, p3}
  Geocodes <- TheGeocodes
  Tiles = {t1, t2}
  TileOf <- TheTiles
  PublishedTiles = {t1}
  Buildings = {b1, b2}
  TileHolds <- TheBuildings
  InParcel <- TheParcels
  NearBy <- TheNeighbours
  ParcelKnown = {p1}
  HasRegridKey = TRUE
  MaxEdition = 1
  Units = {u1, u2}
  Covering <- TheUnits
  Resources = {x1, x2, x3}
  Resolved <- TheResources
  NameGuess <- TheGuesses
  Published = {x2, x3}
  Mistakable = {x2}
  Cloud <- TheClouds
  ReadAttempts = 2
  Clouds <- TheScans
  Outlines <- TheOutlines
  Pixels <- ThePixels
  Priors <- ThePriors
  Codes <- TheCodes
  NorthUtm = {32616, 32617}
  GpsCodes = {32616, 32661}
  NoCode = NoCode
  Shapes <- TheShapes
  Environments <- TheEnvironments
INVARIANT
  StartedIsReal
\* callers and stages may all be done
CHECK_DEADLOCK FALSE
