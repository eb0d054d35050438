------------------------------ MODULE FifoTask ------------------------------
(***************************************************************************)
(* What a MsgTask promises the code that sends it messages: a message it   *)
(* accepted is handled at most once and in the order of acceptance.  Once  *)
(* the task is closed it accepts nothing more, and it may drop what it has *)
(* not handled.                                                            *)
(***************************************************************************)
EXTENDS Sequences

CONSTANT Messages

VARIABLES
  pending,  \* accepted, not handled yet, oldest first
  handled,  \* handled, oldest first
  open      \* are messages still accepted

absvars == <<pending, handled, open>>

Init ==
  /\ pending = <<>>
  /\ handled = <<>>
  /\ open = TRUE

Accept ==
  /\ open
  /\ \E m \in Messages : pending' = Append(pending, m)
  /\ UNCHANGED <<handled, open>>

Handle ==
  /\ pending # <<>>
  /\ handled' = Append(handled, Head(pending))
  /\ pending' = Tail(pending)
  /\ UNCHANGED open

Close ==
  /\ open' = FALSE
  /\ UNCHANGED <<pending, handled>>

Drop ==
  /\ ~open
  /\ pending' = <<>>
  /\ UNCHANGED <<handled, open>>

Next == Accept \/ Handle \/ Close \/ Drop

Spec == Init /\ [][Next]_absvars
=============================================================================
