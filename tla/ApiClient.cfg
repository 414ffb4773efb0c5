\* Two calls of one session, one of them a change that is made once.
SPECIFICATION FairSpec
CONSTANTS
  s1 = s1
  c1 = c1
  c2 = c2
  Sess = {s1}
  Call = {c1, c2}
  SessOf <- McSessOf
  Once = {c2}
  Burst = 1
  Window = 2
  Limit = 10
  Retries = 3
  Half = 1
  Cap = 2
  Hints = {0, 3}
INVARIANTS Paced Reliable TypeOK
PROPERTIES QuietAfterCancel CallsEnd
