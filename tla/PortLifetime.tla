---------------------------- MODULE PortLifetime -----------------------------
(***************************************************************************)
(* What the reflock and the handle tree promise about the memory of each   *)
(* port_state: calls may use a port while it is open, no call enters it    *)
(* once it is closing, and it is destroyed when the last one has left.     *)
(***************************************************************************)
CONSTANTS Ports, Threads

VARIABLES status, users

vars == <<status, users>>

Init ==
  /\ status \in [Ports -> {"absent", "open"}]
  /\ users = [p \in Ports |-> {}]

Create(p) ==
  /\ status[p] = "absent"
  /\ status' = [status EXCEPT ![p] = "open"]
  /\ UNCHANGED users

Enter(p, t) ==
  /\ status[p] = "open"
  /\ users' = [users EXCEPT ![p] = @ \cup {t}]
  /\ UNCHANGED status

Leave(p, t) ==
  /\ users' = [users EXCEPT ![p] = @ \ {t}]
  /\ UNCHANGED status

Close(p) ==
  /\ status[p] = "open"
  /\ status' = [status EXCEPT ![p] = "closing"]
  /\ UNCHANGED users

Destroy(p) ==
  /\ status[p] = "closing"
  /\ users[p] = {}
  /\ status' = [status EXCEPT ![p] = "absent"]
  /\ UNCHANGED users

Next ==
  \E p \in Ports :
    \/ Create(p) \/ Close(p) \/ Destroy(p)
    \/ \E t \in Threads : Enter(p, t) \/ Leave(p, t)

Spec == Init /\ [][Next]_vars
=============================================================================
