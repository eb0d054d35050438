SPECIFICATION Spec
CONSTANTS
  Messages = {m1}
  NoMsg = NoMsg
CHECK_DEADLOCK FALSE
INVARIANT TaskOutlivesDestroy
