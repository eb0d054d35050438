----------------------------- MODULE AtlService -----------------------------
(***************************************************************************)
(* What the AGPS manager promises the modem: data connections that handles *)
(* share.  A handle that asks is served or refused, and asks again only    *)
(* once it was told the end of its last use.  A handle that is served uses *)
(* one link until it closes or the link is lost, whatever the others do;   *)
(* the loss of a link ends the use of all of them in one step.             *)
(***************************************************************************)


CONSTANTS Handles, Links

VARIABLES
  atl,      \* what each handle was told last, or has asked since
  users     \* handles that each link serves

atlVars == <<atl, users>>

In(stage) == {h \in Handles : atl[h] = stage}
Moved(H, stage) == atl' = [h \in Handles |-> IF h \in H THEN stage ELSE atl[h]]

Init ==
  /\ atl = [h \in Handles |-> "idle"]
  /\ users = [l \in Links |-> {}]

Open(h) ==
  /\ h \in In("idle")
  /\ Moved({h}, "opening")
  /\ UNCHANGED users

Close(h) ==
  /\ h \in In("opening") \cup In("open")
  /\ Moved({h}, "closing")
  /\ users' = [l \in Links |-> users[l] \ {h}]

(* The handles that waited for a link are told together.                   *)
Serve(l, H) ==
  /\ H \subseteq In("opening")
  /\ Moved(H, "open")
  /\ users' = [users EXCEPT ![l] = @ \cup H]

Refuse(H) ==
  /\ H \subseteq In("opening")
  /\ Moved(H, "idle")
  /\ UNCHANGED users

Closed(H) ==
  /\ H \subseteq In("closing")
  /\ Moved(H, "idle")
  /\ UNCHANGED users

(* Those that were about to leave are told as well.                        *)
Lose(l, leaving) ==
  /\ leaving \subseteq In("closing")
  /\ Moved(users[l] \cup leaving, "idle")
  /\ users' = [users EXCEPT ![l] = {}]

Next ==
  \/ \E h \in Handles : Open(h) \/ Close(h)
  \/ \E H \in SUBSET Handles : Refuse(H) \/ Closed(H)
  \/ \E l \in Links, H \in SUBSET Handles : Serve(l, H) \/ Lose(l, H)

Spec == Init /\ [][Next]_atlVars
=============================================================================
