\* The publisher's own subscription and a peer that may be able to import; two devices
\* and users, one change of device; discovery and publication at once.
CONSTANTS
  Proc = {pub, near}
  Pub = pub
  Remote = {}
  Device = {d1, d2}
  User = {u1, u2}
  Thread = {t1, t2}
  PubDevice = d1
  PubUser = u1
  MaxSwitch = 1
  None = None
SPECIFICATION FairSpec
INVARIANTS
  TypeOK
  DecisionIsRight
  AdmittedIsImported
PROPERTY RegisteredIsServed
CHECK_DEADLOCK FALSE
