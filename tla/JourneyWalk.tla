---------------------------- MODULE JourneyWalk -----------------------------
(***************************************************************************)
(* What a journey promises a participant, with the queue, the leases, the  *)
(* workers and the projectors left out: a run enters at the entry node,    *)
(* moves along one edge of the graph at a time, may pause at a wait node,  *)
(* ends where the graph ends or when it is canceled, and then stays put.   *)
(* A run that pauses may also go astray, never to be promised anything     *)
(* again, but only in a graph with another wait node to be sent from.      *)
(***************************************************************************)
CONSTANTS Run, Node, EntryNode, Successor, WaitNode

VARIABLE place      \* place[r] = [status, node]

Status == {"none", "active", "waiting", "completed", "canceled",
           "astray"}

TypeOK == place \in [Run -> [status : Status, node : Node]]

Init == place = [r \in Run |-> [status |-> "none", node |-> EntryNode]]

Becomes(r, st, n) == place'[r] = [status |-> st, node |-> n]

Inside(r) == place[r].status \in {"active", "waiting"}

Enter(r) == place[r].status = "none" /\ Becomes(r, "active", EntryNode)

Move(r) == /\ Inside(r)
           /\ \E n \in Node : /\ <<place[r].node, n>> \in Successor
                              /\ Becomes(r, "active", n)

Wait(r) == /\ place[r].status = "active"
           /\ place[r].node \in WaitNode
           /\ Becomes(r, "waiting", place[r].node)

Finish(r) == /\ Inside(r)
             /\ \A n \in Node : <<place[r].node, n>> \notin Successor
             /\ Becomes(r, "completed", place[r].node)

Cancel(r) == Inside(r) /\ Becomes(r, "canceled", place[r].node)

GoAstray(r) == /\ place[r].status = "waiting"
               /\ WaitNode \ {place[r].node} # {}
               /\ Becomes(r, "astray", EntryNode)

\* One projection transaction may move several runs.
Next == /\ place' = [r \in Run |-> place'[r]]
        /\ \A r \in Run : \/ place'[r] = place[r]
                          \/ Enter(r)
                          \/ Move(r)
                          \/ Wait(r)
                          \/ Finish(r)
                          \/ Cancel(r)
                          \/ GoAstray(r)

Spec == Init /\ [][Next]_place
=============================================================================
