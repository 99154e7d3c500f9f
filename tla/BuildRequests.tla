--------------------------- MODULE BuildRequests ---------------------------
(***************************************************************************)
(* What the building tasks promise to those who only count them (the       *)
(* supply, gas, expansion and production managers, through                 *)
(* UnitInfoManager::getBuildingCount): a request is first ordered, then    *)
(* under construction, then over, and never counts again; while it is      *)
(* ordered it has a builder of its own.                                    *)
(***************************************************************************)
CONSTANTS Id, Worker, None

VARIABLES stage, builder

vars == <<stage, builder>>

Init ==
  /\ stage = [i \in Id |-> "none"]
  /\ builder = [i \in Id |-> None]

(* A new request takes a worker that no other ordered request has. *)
Request(i, w) ==
  /\ stage[i] = "none"
  /\ \A j \in Id : builder[j] # w
  /\ stage' = [stage EXCEPT ![i] = "ordered"]
  /\ builder' = [builder EXCEPT ![i] = w]

(* The requests in S leave the stage from together, and their workers go free. *)
Move(S, from, to) ==
  /\ S # {} /\ \A i \in S : stage[i] = from
  /\ stage' = [i \in Id |-> IF i \in S THEN to ELSE stage[i]]
  /\ builder' = [i \in Id |-> IF i \in S THEN None ELSE builder[i]]

Place(S)   == Move(S, "ordered", "constructing")
Abandon(S) == Move(S, "ordered", "over")
Close(S)   == Move(S, "constructing", "over")

Next ==
  \/ \E i \in Id, w \in Worker : Request(i, w)
  \/ \E S \in SUBSET Id : Place(S) \/ Abandon(S) \/ Close(S)

Spec == Init /\ [][Next]_vars
=============================================================================
