----------------------------- MODULE Scheduling -----------------------------
(***************************************************************************)
(* The scheduling algorithm: what preSchedule of the scheduler controller  *)
(* and Schedule of the default scheduler compute from one listing of the   *)
(* cluster.  A listing is                                                  *)
(*   nodes   the nodes listed,                                             *)
(*   down    those of them that are cordoned or not ready,                 *)
(*   reason  a function from the maintenances listed to the reason of      *)
(*           their Ready condition.                                        *)
(* Node names, requestor IDs, creation times and object names are numbers: *)
(* only their order and their equality matter.                             *)
(***************************************************************************)
EXTENDS Integers, FiniteSets, SequencesExt

CONSTANTS NM,         \* NodeMaintenance objects, by name
          Node,       \* nodes, by name
          NodeName,   \* NodeName[x]: spec.nodeName
          Requestor,  \* Requestor[x]: spec.requestorID
          Created     \* Created[x]: creation time

ASSUME NamesAssumption ==
  /\ NM \subseteq Nat /\ Node \subseteq Nat /\ IsFiniteSet(NM) /\ IsFiniteSet(Node)
  /\ NodeName \in [NM -> Node] /\ Requestor \in [NM -> Nat] /\ Created \in [NM -> Nat]

-----------------------------------------------------------------------------
(* Limits.  A limit is unset, a number, a percentage, or does not parse. *)

Limit == [kind : {"unset", "int", "percent", "invalid"}, val : Int]

Options == [maxUnavailable : Limit, maxParallel : Limit]

Unset == [kind |-> "unset", val |-> 0]
Number(n) == [kind |-> "int", val |-> n]
Percent(n) == [kind |-> "percent", val |-> n]
Invalid == [kind |-> "invalid", val |-> 0]

\* intstr.GetScaledValueFromIntOrPercent
Scaled(limit, total, roundUp) ==
  CASE limit.kind = "percent" /\ roundUp -> -((-limit.val * total) \div 100)
    [] limit.kind = "percent" /\ ~roundUp -> (limit.val * total) \div 100
    [] OTHER -> limit.val

\* -1: no limit.
GetMaxUnavailableNodes(limit, total) ==
  IF limit.kind = "unset" THEN -1 ELSE Scaled(limit, total, FALSE)

GetMaxOperations(limit, total) ==
  IF limit.kind = "unset" THEN 1 ELSE Scaled(limit, total, TRUE)

\* preSchedule fails when a limit does not parse.
Parses(opts) == opts.maxUnavailable.kind # "invalid" /\ opts.maxParallel.kind # "invalid"

-----------------------------------------------------------------------------
(* NewClusterState and preSchedule. *)

MaintenanceInProgress(reason) ==
  {x \in DOMAIN reason : reason[x] \notin {"Uninitialized", "Pending"}}

MaintenancePending(reason) == {x \in DOMAIN reason : reason[x] = "Pending"}

NodesOf(S) == {NodeName[x] : x \in S}

NodesUnderMaintenance(nodes, reason) == NodesOf(MaintenanceInProgress(reason)) \cap nodes

\* Mutant: one slot is kept back.
AvailableSlotsReserved(nodes, reason, opts) ==
  LET maxOperations == GetMaxOperations(opts.maxParallel, Cardinality(nodes))
      under == Cardinality(NodesUnderMaintenance(nodes, reason))
  IN Min({Max({0, maxOperations - under - 1}), Cardinality(nodes)})

AvailableSlots(nodes, reason, opts) ==
  LET maxOperations == GetMaxOperations(opts.maxParallel, Cardinality(nodes))
      under == Cardinality(NodesUnderMaintenance(nodes, reason))
  IN Min({Max({0, maxOperations - under}), Cardinality(nodes)})

\* Mutant: only nodes that are down already count as unavailable.
CanBecomeUnavailableNow(nodes, down, reason, opts) ==
  LET maxUnavailable == GetMaxUnavailableNodes(opts.maxUnavailable, Cardinality(nodes))
  IN IF maxUnavailable >= 0
       THEN Max({0, maxUnavailable - Cardinality(down)})
       ELSE AvailableSlots(nodes, reason, opts)

\* A node under maintenance is unavailable or will be.  A negative limit is none.
CanBecomeUnavailable(nodes, down, reason, opts) ==
  LET maxUnavailable == GetMaxUnavailableNodes(opts.maxUnavailable, Cardinality(nodes))
      total == Cardinality(down \cup NodesUnderMaintenance(nodes, reason))
  IN IF maxUnavailable >= 0
       THEN Max({0, maxUnavailable - total})
       ELSE AvailableSlots(nodes, reason, opts)

CandidateNodes(nodes, reason) ==
  (NodesOf(MaintenancePending(reason)) \cap nodes) \ NodesUnderMaintenance(nodes, reason)

\* Every maintenance of a candidate node is a candidate, whatever its reason.
CandidateMaintenance(nodes, reason) ==
  {x \in DOMAIN reason : NodeName[x] \in CandidateNodes(nodes, reason)}

-----------------------------------------------------------------------------
(* Ranking. *)

InProgressRankerWeight == 1000
LeastPendingRankerMaxWeight == 100

Rank(x, reason) ==
  LET sameRequestor == {y \in NM : Requestor[y] = Requestor[x]}
      inProgress == sameRequestor \cap MaintenanceInProgress(reason)
      totalPending == Cardinality(sameRequestor \cap MaintenancePending(reason))
  IN (IF inProgress # {} THEN InProgressRankerWeight ELSE 0)
       + LeastPendingRankerMaxWeight - Min({totalPending, LeastPendingRankerMaxWeight})

\* CompareRanked: the first of the keys in which x and y differ decides.
CompareRanked(x, y, reason) ==
  LET keys(z) == <<-Rank(z, reason), Created[z], NodeName[z], Requestor[z], z>>
      decides(i) == /\ keys(x)[i] < keys(y)[i]
                    /\ \A j \in 1..(i - 1) : keys(x)[j] = keys(y)[j]
  IN \E i \in 1..5 : decides(i)

Ranked(S, reason) ==
  CHOOSE s \in SetToSeqs(S) :
    \A i, j \in DOMAIN s : i < j => CompareRanked(s[i], s[j], reason)

-----------------------------------------------------------------------------
(* Schedule. *)

\* Mutant: entries of the same node are kept.
CompactNothing(ranked) == ranked

\* The first entry of each node.
CompactIdenticalNodes(ranked) ==
  LET keep(kept, x) ==
        IF \E i \in DOMAIN kept : NodeName[kept[i]] = NodeName[x] THEN kept ELSE Append(kept, x)
  IN FoldLeft(keep, <<>>, ranked)

\* Mutant: the loop ends at the first node that may not become unavailable.
ScheduleStopping(nodes, down, reason, opts) ==
  LET compacted == CompactIdenticalNodes(Ranked(CandidateMaintenance(nodes, reason), reason))
      window == SubSeq(compacted, 1, Min({AvailableSlots(nodes, reason, opts), Len(compacted)}))
      consider(acc, x) ==
        CASE acc.budget < 0 -> acc
          [] acc.budget >= 0 /\ NodeName[x] \in down -> [acc EXCEPT !.recommended = @ \cup {x}]
          [] acc.budget = 0 /\ NodeName[x] \notin down -> [acc EXCEPT !.budget = -1]
          [] OTHER -> [recommended |-> acc.recommended \cup {x}, budget |-> acc.budget - 1]
      start == [recommended |-> {}, budget |-> CanBecomeUnavailable(nodes, down, reason, opts)]
  IN FoldLeft(consider, start, window).recommended

\* The loop over the first AvailableSlots entries: a node that is available
\* uses up one of those that can become unavailable.
Schedule(nodes, down, reason, opts) ==
  LET compacted == CompactIdenticalNodes(Ranked(CandidateMaintenance(nodes, reason), reason))
      window == SubSeq(compacted, 1, Min({AvailableSlots(nodes, reason, opts), Len(compacted)}))
      consider(acc, x) ==
        CASE NodeName[x] \in down -> [acc EXCEPT !.recommended = @ \cup {x}]
          [] NodeName[x] \notin down /\ acc.budget = 0 -> acc
          [] OTHER -> [recommended |-> acc.recommended \cup {x}, budget |-> acc.budget - 1]
      start == [recommended |-> {}, budget |-> CanBecomeUnavailable(nodes, down, reason, opts)]
  IN FoldLeft(consider, start, window).recommended

-----------------------------------------------------------------------------
\* The selection in closed form, as a reference for Schedule: the first
\* maintenance of each node, as far as there are slots for it and for those
\* ahead of it, and, when its node is available, the nodes of those ahead leave
\* it one of those that can become unavailable.
Selection(nodes, down, reason, opts) ==
  LET C == CandidateMaintenance(nodes, reason)
      first == {x \in C : \A y \in C \ {x} :
                  NodeName[y] = NodeName[x] => CompareRanked(x, y, reason)}
      ahead(x) == {y \in first : CompareRanked(y, x, reason)}
      availableAhead(x) == {y \in ahead(x) : NodeName[y] \notin down}
  IN {x \in first :
        /\ Cardinality(ahead(x)) < AvailableSlots(nodes, reason, opts)
        /\ \/ NodeName[x] \in down
           \/ Cardinality(availableAhead(x)) < CanBecomeUnavailable(nodes, down, reason, opts)}

=============================================================================
