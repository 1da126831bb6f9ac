SPECIFICATION Spec
CONSTANTS
  lo = lo
  lan = lan
  zero = zero
  Places = {lo, lan, zero}
  Loopback = lo
  Synthetic = zero
  Own = {}
  Vpn = {lan}
  Scanned = {lan}
  Agents = {a}
  Hosts = {h}
  ClawIds = {a}
  Aliases = {x}
  Objects = {o1, o2, o3}
  MaxSuffix = 2
  NoObject = NoObject
  NoAlias = NoAlias
  NoName = NoName
  NoHost = NoHost
SYMMETRY Symmetric
INVARIANTS KeyedByAddress
PROPERTIES NamesStay AliasesSurvive NamesStayUnique
