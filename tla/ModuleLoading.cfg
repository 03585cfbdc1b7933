\* Blacklist and deferral across coldboot, mounting and one restart.
CONSTANTS
  ma1 = ma1
  ma2 = ma2
  mDeferred = mDeferred
  mNormal = mNormal
  mBlack = mBlack
  Modalias = {ma1, ma2}
  Module = {mDeferred, mNormal, mBlack}
  NoModalias = NoModalias
  AliasLines <- MCAliasLines
  BlacklistLines <- MCBlacklistLines
  MaxEvents = 3
  MaxRestarts = 1
SPECIFICATION Spec
INVARIANTS
  TypeOK
  BlacklistedNeverInsmodded
  DeferredWaitsForColdboot
\* ueventd blocks in poll() when the kernel sends no more uevents: a state
\* with no enabled action is the daemon idling, not a deadlock.
CHECK_DEADLOCK FALSE
