CONSTANTS
  w1 = w1
  w2 = w2
  t1 = t1
  t2 = t2
  Worker = {w1, w2}
  QueueSize = 2
  MaxConns = 5
  OtherThread = {t1, t2}
  Mixes <- ManyConnsOrSignals
SPECIFICATION FairSpec
INVARIANTS
  LifecycleTypeOK
  NoConnectionForgotten
  UsersOutlived
  HangupReexecs
  NoOtherDeadlock
PROPERTIES
  ServedInOrder
  SignalsEnd
