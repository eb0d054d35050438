SPECIFICATION FairSpec
CONSTANTS
  Messages = {m1, m2, m3}
  NoMsg = NoMsg
CHECK_DEADLOCK FALSE
INVARIANTS DelegateOutlivesUsers RefCountExact DelegateFreed NoLostWakeup
PROPERTIES FifoSpec DestroyCompletes MessageLeaves
