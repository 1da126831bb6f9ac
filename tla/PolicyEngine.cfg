SPECIFICATION Spec
CONSTANTS
  p1 = p1
  p2 = p2
  Peers = {p1, p2}
  Global = Global
  Proposals <- Sent
  Replacements <- Bodies
  Patches <- PartialBodies
  DEFAULT_POLICY <- Shipped
  Window = 2
  Requests = {1, 2}
  MaxChanges = 2
CHECK_DEADLOCK FALSE
INVARIANTS RateBound CrashKeepsPolicy AnsweredPolicyKept
