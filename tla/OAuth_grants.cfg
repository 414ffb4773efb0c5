\* Two codes, two exchanges at a time, two requests with tokens, two restarts.
SPECIFICATION Spec
CONSTANTS
  c1 = c1
  c2 = c2
  u1 = u1
  u2 = u2
  v1 = v1
  v2 = v2
  p1 = p1
  p2 = p2
  Client = {c1, c2}
  Uri = {u1, u2}
  Verifier = {v1, v2}
  Cred = {p1, p2}
  Deal <- McDeals
  Ask <- McAsks
  UriSets <- McUris
  Code = {k1, k2}
  Token = {t1, t2}
  Login = {l1}
  Exchange = {e1, e2}
  Request = {q1, q2}
  None = None
  CodeLife = 1
  PurgeAge = 2
  TokenLife = 1
  ReadFaults = FALSE
  MaxTime = 2
  MaxStarts = 3
  MaxSess = 3
SYMMETRY Symmetry
CHECK_DEADLOCK FALSE
PROPERTY ImplementsGrants
INVARIANTS TypeOK OneSession TokensSurvive
