----------------------- MODULE MaintenanceLifecycle ------------------------
(***************************************************************************)
(* What the operator promises a requestor about the course of a            *)
(* maintenance: the state diagram of NodeMaintenance, one object per node  *)
(* in maintenance at a time, and no skipped or repeated step.  Beyond the  *)
(* diagram of the README, the code lets RequestorFailed return to Ready,   *)
(* and the scheduler take up a maintenance before it is Pending.           *)
(***************************************************************************)
CONSTANTS NM, NodeName

VARIABLE phase   \* phase[x]: the state of x in the diagram, "none" or "gone"

Waiting == {"Uninitialized", "Pending"}

Preparation == {<<"Scheduled", "Cordon">>, <<"Cordon", "WaitForPodCompletion">>,
                <<"WaitForPodCompletion", "Draining">>, <<"Draining", "Ready">>}

Outcome == {<<"Ready", "RequestorFailed">>, <<"RequestorFailed", "Ready">>}

InMaintenance(x) == phase[x] \notin Waiting \cup {"none", "gone"}

Become(x, p) == phase' = [phase EXCEPT ![x] = p]

Register(x) == phase[x] = "none" /\ Become(x, "Uninitialized")

Admit(x) == phase[x] = "Uninitialized" /\ Become(x, "Pending")

Select(x) ==
  /\ phase[x] \in Waiting
  /\ \A y \in NM : NodeName[y] = NodeName[x] => ~InMaintenance(y)
  /\ Become(x, "Scheduled")

Advance(x) == \E step \in Preparation \cup Outcome : phase[x] = step[1] /\ Become(x, step[2])

Remove(x) == phase[x] \notin {"none", "gone"} /\ Become(x, "gone")

LInit == phase = [x \in NM |-> "none"]

LNext == \E x \in NM : Register(x) \/ Admit(x) \/ Select(x) \/ Advance(x) \/ Remove(x)

LSpec == LInit /\ [][LNext]_phase

=============================================================================
