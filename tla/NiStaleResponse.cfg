SPECIFICATION NiSpec
CONSTANTS
  MaxNi = 2
  NoNi = NoNi
INVARIANT NiAnswerIsTheUsers
CHECK_DEADLOCK FALSE
