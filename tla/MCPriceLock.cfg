\* Three sessions of two members that contend for one lock: whole units, half units,
\* a request for nothing and one for too much.
CONSTANTS
  User = {u1, u2}
  LockId = {l1}
  Session = {s1, s2, s3}
  Volume = {0, 1, 2, 3, 5}
  MaxVolume = 4
  Scale = 2
  MaxRedemptions = 4
SPECIFICATION FairSpec
INVARIANTS NoStaleRead RedemptionsAddUp
PROPERTIES LocksOnlyShrink CallsAnswered
CHECK_DEADLOCK FALSE
