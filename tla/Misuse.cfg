SPECIFICATION Spec
CONSTANTS
  Workers = {w1, w2}
  Timer = timer
  Free = Free
  NoReq = NoReq
  Requests = {r1, r2, r3}
  Contents = {m1, m2}
  m1 = m1
  m2 = m2
  r1 = r1
  r2 = r2
  r3 = r3
  r4 = r4
  NoMessage = NoMessage
  Destroyed = Destroyed
  CHAN = 2
  ChannelTimeout = 2
  SubscriberTimeout = 1
  WrapShort = 2
  WrapLong = 3
  Scripts <- MisuseScripts
  Faults = {"alloc", "crash", "disconnect"}
SYMMETRY Symmetry
INVARIANT MutualExclusion
INVARIANT ListedAreWaiting
INVARIANT AckedIsStored
INVARIANT StrayFromGone
PROPERTY AnsweredBeforeRemoved
PROPERTY TimeoutWithMessages
