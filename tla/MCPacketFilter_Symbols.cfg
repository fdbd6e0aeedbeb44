CONSTANTS
  NoRules = NoRules
  Contexts <- Packets
  Networks <- Nets
  Ports = {80}
  Times = {64}
  Ids = {64}
  Hosts = {"a"}
  Macs = {"a"}
  Types = {2048}
  Flags = {"syn", "ack", "fin", "rst", "psh", "urg"}
  Beginnings <- Transports
  Extensions <- Transports
  Operators <- AsSymbols
  MaxLexemes = 3
  MaxInUse = 2
SPECIFICATION Spec
INVARIANTS DocumentedMeaning
