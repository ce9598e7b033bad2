---------------------------- MODULE DrainService ----------------------------
(***************************************************************************)
(* What the drain manager promises to the reconciler, one maintenance at a *)
(* time: at most one drain per maintenance, evictions only while it runs,  *)
(* success only when every pod it set out to evict is gone, and a request  *)
(* that is removed only after its drain has ended.  NodeMaintenance takes  *)
(* the manager to behave like this.                                        *)
(***************************************************************************)
CONSTANTS UID,  \* maintenances, as DrainRequestUIDFromNodeMaintenance names them
          Pod   \* pods

VARIABLES verdict,  \* verdict[u]: state of the drain of u
          pods      \* pods[u]: the pods on the node of u

Verdict == {"none", "running", "success", "failed"}

SInit == verdict = [u \in UID |-> "none"] /\ pods = [u \in UID |-> {}]

Start(u) ==
  /\ verdict[u] = "none"
  /\ verdict' = [verdict EXCEPT ![u] = "running"]
  /\ UNCHANGED pods

\* Pods come to the node and complete whatever the drain does; the drain evicts
\* some while it runs.
Arrive(u, p) == pods' = [pods EXCEPT ![u] = @ \cup {p}] /\ UNCHANGED verdict

Evict(u, p) ==
  /\ verdict[u] = "running"
  /\ pods' = [pods EXCEPT ![u] = @ \ {p}]
  /\ UNCHANGED verdict

End(u) ==
  /\ verdict[u] = "running"
  /\ \E v \in {"success", "failed"} : verdict' = [verdict EXCEPT ![u] = v]
  /\ UNCHANGED pods

Remove(u) ==
  /\ verdict[u] \in {"success", "failed"}
  /\ verdict' = [verdict EXCEPT ![u] = "none"]
  /\ UNCHANGED pods

SNext == \E u \in UID : \/ Start(u) \/ End(u) \/ Remove(u)
                        \/ \E p \in Pod : Arrive(u, p) \/ Evict(u, p)

SSpec == SInit /\ [][SNext]_<<verdict, pods>>
=============================================================================
