SPECIFICATION Spec
CONSTANTS
  Ports <- McPorts
  Payloads <- McPayloads
  MaxDeliveries = 2
INVARIANTS
  ConfirmedBySeveral
