CONSTANTS
  PayloadLens <- Payloads
  HeaderLens = {20, 24}
  Mtus = {33, 36}
  Transports <- Carriers
  Snaps <- Lengths
  MaxCaptures = 4
SPECIFICATION WireSpec
INVARIANTS Tiles PayloadFaithful DamageShows WholeIsClean DeliveredWhole
PROPERTIES Returns
CHECK_DEADLOCK FALSE
