\* Two firmware requests handled one after the other by the firmware child,
\* with files appearing or not while /dev/.booting exists.
CONSTANTS
  r1 = r1
  r2 = r2
  fwA = fwA
  fwB = fwB
  Request = {r1, r2}
  FwName <- MCFwName
  InitiallyAvailable = {fwA}
SPECIFICATION Spec
INVARIANTS
  TypeOK
  LoadingWellFormed
PROPERTY
  EveryRequestFinished
\* Once every request is finished and boot is over the child waits in poll().
CHECK_DEADLOCK FALSE
