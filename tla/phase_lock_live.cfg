SPECIFICATION LiveSpec
CONSTANTS
  p1 = p1
  p2 = p2
  p3 = p3
  h1 = h1
  h2 = h2
  t1 = t1
  t2 = t2
  t3 = t3
  s1 = s1
  s2 = s2
  b1 = b1
  b2 = b2
  Proc = {p1, p3}
  Host = {h1, h2}
  HostOf <- TwoHosts
  Token = {t1, t2}
  Stamp = {s1, s2}
  BootId = {b1}
  NoStart = NoStart
  NoBootId = NoBootId
  None = None
PROPERTIES AcquireReturnsUnlessChurn
