SPECIFICATION Spec
CONSTANTS
  Ports <- McPorts
  Payloads <- McPayloads
  MaxDeliveries = 4
INVARIANTS
  TypeOK
  CachesAgree
  SignatureBacked
  WeakConfirmedByTwo
