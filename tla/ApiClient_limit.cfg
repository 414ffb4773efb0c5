\* One session with the default rate, MCP_MAX_RPS = 8, whose tool calls follow each other.
SPECIFICATION Spec
CONSTANTS
  s1 = s1
  c1 = c1
  c2 = c2
  Sess = {s1}
  Call = {c1}
  SessOf <- McSessOf
  Once = {}
  Burst = 8
  Window = 8
  Limit = 10
  Retries = 1
  Half = 1
  Cap = 1
  Hints = {0}
INVARIANT WithinLimit
