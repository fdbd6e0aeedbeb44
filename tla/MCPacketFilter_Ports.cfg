CONSTANTS
  NoRules = NoRules
  Contexts <- Packets
  Networks <- Nets
  Ports = {1000}
  Times = {64}
  Ids = {64}
  Hosts = {"a"}
  Macs = {"a"}
  Types = {2048}
  Flags = {"syn", "ack", "fin", "rst", "psh", "urg"}
  Beginnings <- OrderedPortRules
  Extensions <- Transports
  Operators <- AsWords
  MaxLexemes = 4
  MaxInUse = 2
SPECIFICATION Spec
INVARIANTS DocumentedMeaning
