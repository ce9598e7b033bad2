---------------------- MODULE NodeMaintenanceScheduler ----------------------
(***************************************************************************)
(* The scheduler controller: a loop that lists nodes and maintenances from *)
(* the informer caches, selects maintenances with the algorithm of module  *)
(* Scheduling, sets them to Scheduled from one goroutine each, and waits   *)
(* until the cache shows the updates.  Around it: the configuration        *)
(* controller that stores the limits, the maintenances and nodes that      *)
(* change meanwhile, lagging caches, failing updates and restarts.         *)
(*                                                                         *)
(* A maintenance under way is in one state here, "Scheduled": module       *)
(* NodeMaintenance has its course.  Only equality of resource versions     *)
(* matters: nmFresh[x] tells whether the cached copy of x has the version  *)
(* of the API server, current whether a copy that the loop holds has.      *)
(***************************************************************************)
EXTENDS Scheduling

CONSTANTS Configs,    \* the limits that administrators configure
          Absent,     \* no configuration object
          Unready,    \* the sets of nodes that may be broken at first
          MaxChanges  \* bound on failed updates and restarts, and on changes of
                      \* nodes, waiting objects and configuration

ASSUME ConfigsAssumption == Configs \subseteq Options /\ Absent \notin Configs

ASSUME UnreadyAssumption == Unready \subseteq SUBSET Node

ASSUME BoundsAssumption == MaxChanges \in Nat

VARIABLES
  nm,         \* nm[x]: the Ready reason of x in the API server, "none" or "gone"
  nmCache,    \* the same in the informer cache
  nmFresh,    \* nmFresh[x]: the cached x has the version of the API server
  nodes,      \* the nodes
  broken,     \* nodes that are not ready, or cordoned by an administrator
  cordoned,   \* nodes that a maintenance has cordoned
  nodeCache,  \* the nodes in the informer cache
  config,     \* the configuration object
  pending,    \* limits stored by the configuration controller
  options,    \* limits loaded by the loop
  pc,         \* "idle", "listed" (nodes are listed) or "updating"
  seen,       \* the nodes the loop has listed
  todo,       \* maintenances still to set to Scheduled
  current,    \* those of them whose copy has the version of the API server
  waiting,    \* maintenances whose update the cache is to show
  late,       \* maintenances updated but not, or not long enough, waited for
  changes     \* changes and faults so far

objVars  == <<nm, nmCache, nmFresh>>
nodeVars == <<nodes, broken, cordoned, nodeCache>>
optVars  == <<config, pending, options>>
loopVars == <<pc, seen, todo, current, waiting, late>>
vars == <<nm, nmCache, nmFresh, nodes, broken, cordoned, nodeCache, config, pending, options,
          pc, seen, todo, current, waiting, late, changes>>

Reason == {"none", "Uninitialized", "Pending", "Scheduled", "gone"}

Live(r) == r \notin {"none", "gone"}

\* What a List of maintenances, and one of nodes, returns.
Listed(f) == [x \in {y \in NM : Live(f[y])} |-> f[x]]

Cluster == [nodes |-> nodes, down |-> (broken \cup cordoned) \cap nodes]

NoNodes == [nodes |-> {}, down |-> {}]

\* NewNodeMaintenanceSchedulerReconcilerOptions
DefaultOptions == [maxUnavailable |-> Unset, maxParallel |-> Number(1)]

Change == changes < MaxChanges /\ changes' = changes + 1

-----------------------------------------------------------------------------
(* The loop. *)

\* Reconcile loads the options and lists the nodes ...
ListNodes ==
  /\ pc = "idle"
  /\ options' = pending
  /\ seen' = nodeCache /\ pc' = "listed"
  /\ UNCHANGED <<objVars, nodeVars, config, pending, todo, current, waiting, late, changes>>

\* What the code relies on when an update failed, or when it stops waiting for
\* the cache: by the next loop the cache shows the update.
CacheCaughtUp == \A x \in late : nm[x] = "Scheduled" => nmCache[x] = "Scheduled"

\* ... then the maintenances, and selects.  Without a selection, or with limits
\* that do not parse, the loop is over.
ListMaintenances ==
  /\ pc = "listed" /\ CacheCaughtUp
  /\ \E chosen \in {Schedule(seen.nodes, seen.down, Listed(nmCache), options)} :
       IF Parses(options) /\ chosen # {}
         THEN /\ pc' = "updating" /\ todo' = chosen /\ UNCHANGED seen
              /\ current' = {x \in chosen : nmFresh[x]}
         ELSE /\ pc' = "idle" /\ seen' = NoNodes /\ UNCHANGED <<todo, current>>
  /\ UNCHANGED <<objVars, nodeVars, optVars, waiting, late, changes>>

\* The update of x takes effect: the copy has the version of the API server.
Store(x) ==
  /\ x \in current
  /\ nm' = [nm EXCEPT ![x] = "Scheduled"] /\ nmFresh' = [nmFresh EXCEPT ![x] = FALSE]

SetScheduled(x) ==
  /\ pc = "updating" /\ x \in todo /\ Store(x)
  /\ todo' = todo \ {x} /\ current' = current \ {x}
  /\ waiting' = waiting \cup {x}
  /\ UNCHANGED <<nmCache, nodeVars, optVars, pc, seen, late, changes>>

\* The update fails, which is only logged: a conflict, an error, or an update
\* whose reply is lost.
SetScheduledFails(x) ==
  /\ pc = "updating" /\ x \in todo
  /\ todo' = todo \ {x} /\ current' = current \ {x}
  /\ \/ x \notin current /\ UNCHANGED <<nm, nmFresh, late, changes>>
     \/ Change /\ UNCHANGED <<nm, nmFresh, late>>
     \/ Change /\ Store(x) /\ late' = late \cup {x}
  /\ UNCHANGED <<nmCache, nodeVars, optVars, pc, seen, waiting>>

\* Mutant: the wait is over as soon as the object can be read.
WaitedForRead(x) ==
  /\ x \in waiting
  /\ waiting' = waiting \ {x}
  /\ UNCHANGED <<objVars, nodeVars, optVars, pc, seen, todo, current, late, changes>>

\* The cache shows that x is under maintenance, or gone; or the wait times out.
Waited(x) ==
  /\ x \in waiting
  /\ \/ nmCache[x] \in {"Scheduled", "gone"} /\ UNCHANGED late
     \/ nmCache[x] \notin {"Scheduled", "gone"} /\ late' = late \cup {x}
  /\ waiting' = waiting \ {x}
  /\ UNCHANGED <<objVars, nodeVars, optVars, pc, seen, todo, current, changes>>

\* Mutant: the goroutines are not waited for.
EndLoopEarly ==
  /\ pc = "updating"
  /\ pc' = "idle" /\ seen' = NoNodes
  /\ UNCHANGED <<objVars, nodeVars, optVars, todo, current, waiting, late, changes>>

\* All goroutines are done; the loop runs again after schedulerSyncTime.
EndLoop ==
  /\ pc = "updating" /\ todo = {} /\ waiting = {}
  /\ pc' = "idle" /\ seen' = NoNodes
  /\ UNCHANGED <<objVars, nodeVars, optVars, todo, current, waiting, late, changes>>

Loop ==
  \/ ListNodes \/ ListMaintenances \/ EndLoop
  \/ \E x \in NM : SetScheduled(x) \/ SetScheduledFails(x) \/ Waited(x)

-----------------------------------------------------------------------------
(* The configuration controller. *)

\* Reconcile of the default object stores both limits together; a deleted
\* object changes nothing.
StoreOptions ==
  /\ config # Absent /\ pending # config
  /\ pending' = config
  /\ UNCHANGED <<objVars, nodeVars, config, options, loopVars, changes>>

EditConfig ==
  /\ Change /\ config' \in (Configs \cup {Absent}) \ {config}
  /\ UNCHANGED <<objVars, nodeVars, pending, options, loopVars>>

-----------------------------------------------------------------------------
(* Maintenances and nodes. *)

\* Someone other than the scheduler writes x.
OtherWrite(x, r) ==
  /\ nm' = [nm EXCEPT ![x] = r] /\ nmFresh' = [nmFresh EXCEPT ![x] = FALSE]
  /\ current' = current \ {x}
  /\ UNCHANGED <<nmCache, optVars, pc, seen, todo, waiting, late>>

Create(x) ==
  /\ nm[x] = "none" /\ NodeName[x] \in nodeCache.nodes
  /\ OtherWrite(x, "Uninitialized") /\ UNCHANGED <<nodeVars, changes>>

\* The NodeMaintenance reconciler registers x.
Register(x) ==
  /\ nm[x] = "Uninitialized" /\ OtherWrite(x, "Pending") /\ UNCHANGED <<nodeVars, changes>>

\* A waiting maintenance is deleted, or edited.
Withdraw(x) ==
  /\ nm[x] \in {"Uninitialized", "Pending"} /\ Change
  /\ OtherWrite(x, "gone") \/ OtherWrite(x, nm[x])
  /\ UNCHANGED nodeVars

\* A maintenance under way cordons its node; in the end it is deleted, by its
\* requestor or by garbage collection, and uncordons the node.
Cordon(x) ==
  /\ nm[x] = "Scheduled" /\ NodeName[x] \in nodes \ (cordoned \cup broken)
  /\ cordoned' = cordoned \cup {NodeName[x]}
  /\ UNCHANGED <<objVars, nodes, broken, nodeCache, optVars, loopVars, changes>>

Finish(x) ==
  /\ nm[x] = "Scheduled" /\ OtherWrite(x, "gone")
  /\ cordoned' = cordoned \ {NodeName[x]}
  /\ UNCHANGED <<nodes, broken, nodeCache, changes>>

\* Nodes fail, recover and are removed.
ChangeNode(n) ==
  /\ Change /\ n \in nodes
  /\ \/ broken' = broken \cup {n} /\ n \notin broken /\ UNCHANGED <<nodes, cordoned>>
     \/ broken' = broken \ {n} /\ n \in broken /\ UNCHANGED <<nodes, cordoned>>
     \/ nodes' = nodes \ {n} /\ broken' = broken \ {n} /\ cordoned' = cordoned \ {n}
  /\ UNCHANGED <<objVars, nodeCache, optVars, loopVars>>

SyncMaintenances ==
  /\ \E x \in NM : ~nmFresh[x]
  /\ nmCache' = nm /\ nmFresh' = [x \in NM |-> TRUE]
  /\ UNCHANGED <<nm, nodeVars, optVars, loopVars, changes>>

SyncNodes ==
  /\ nodeCache # Cluster
  /\ nodeCache' = Cluster
  /\ UNCHANGED <<objVars, nodes, broken, cordoned, optVars, loopVars, changes>>

\* The operator starts again, with the default options.
Restart ==
  /\ Change
  /\ pending' = DefaultOptions /\ options' = DefaultOptions
  /\ pc' = "idle" /\ seen' = NoNodes /\ todo' = {} /\ current' = {} /\ waiting' = {} /\ late' = {}
  /\ nmCache' = nm /\ nmFresh' = [x \in NM |-> TRUE] /\ nodeCache' = Cluster
  /\ UNCHANGED <<nm, nodes, broken, cordoned, config>>

-----------------------------------------------------------------------------
Init ==
  /\ nm = [x \in NM |-> "none"] /\ nmCache = nm /\ nmFresh = [x \in NM |-> TRUE]
  /\ nodes = Node /\ broken \in Unready /\ cordoned = {} /\ nodeCache = Cluster
  /\ config \in Configs /\ pending = DefaultOptions /\ options = DefaultOptions
  /\ pc = "idle" /\ seen = NoNodes /\ todo = {} /\ current = {} /\ waiting = {} /\ late = {}
  /\ changes = 0

Next ==
  \/ Loop \/ StoreOptions \/ EditConfig
  \/ \E x \in NM : Create(x) \/ Register(x) \/ Withdraw(x) \/ Cordon(x) \/ Finish(x)
  \/ \E n \in Node : ChangeNode(n)
  \/ SyncMaintenances \/ SyncNodes \/ Restart

Spec == Init /\ [][Next]_vars

\* The loop and its goroutines run, the informers and the configuration
\* controller catch up, and maintenances finish: their requestors delete them,
\* or garbage collection does.
Fairness ==
  /\ WF_vars(Loop) /\ WF_vars(StoreOptions)
  /\ WF_vars(SyncMaintenances) /\ WF_vars(SyncNodes)
  /\ \A x \in NM : WF_vars(Finish(x))

FairSpec == Spec /\ Fairness

-----------------------------------------------------------------------------
(* Properties. *)

\* Type invariant; updates are under way only while the loop waits for them.
TypeOK ==
  /\ nm \in [NM -> Reason] /\ nmCache \in [NM -> Reason] /\ nmFresh \in [NM -> BOOLEAN]
  /\ nodes \subseteq Node /\ broken \subseteq nodes /\ cordoned \subseteq nodes
  /\ config \in Configs \cup {Absent}
  /\ pending \in Configs \cup {DefaultOptions} /\ options \in Configs \cup {DefaultOptions}
  /\ pc \in {"idle", "listed", "updating"}
  /\ todo \subseteq NM /\ waiting \subseteq NM /\ late \subseteq NM /\ current \subseteq todo
  /\ \A v \in {nodeCache, seen} : v.down \subseteq v.nodes /\ v.nodes \subseteq Node
  /\ pc # "updating" => todo = {} /\ waiting = {}
  /\ changes \in 0..MaxChanges

\* No two maintenances of a node are under way (candidateNodes excludes nodes
\* under maintenance, Schedule compacts, Reconcile waits for the cache).
OnePerNode ==
  \A x, y \in NM :
    nm[x] = "Scheduled" /\ nm[y] = "Scheduled" /\ NodeName[x] = NodeName[y] => x = y

Under(f) == NodesOf({x \in NM : f[x] = "Scheduled"})

Scheduled(x) == nm[x] # "Scheduled" /\ nm'[x] = "Scheduled"

\* A maintenance is scheduled only while the nodes under maintenance stay
\* within the limit on parallel operations that the loop has loaded.
ParallelLimit ==
  [][\A x \in NM : Scheduled(x) =>
       Cardinality(Under(nm') \cap nodes)
         <= GetMaxOperations(options.maxParallel, Cardinality(seen.nodes))]_vars

\* A maintenance of an available node is scheduled only while the nodes that
\* are or become unavailable stay within the limit that the loop has loaded,
\* if no node has failed since the loop listed them.
UnavailableLimit ==
  [][\A x \in NM :
       LET limit == GetMaxUnavailableNodes(options.maxUnavailable, Cardinality(seen.nodes))
       IN Scheduled(x) /\ NodeName[x] \notin seen.down /\ limit >= 0 /\ broken \subseteq seen.down
            => Cardinality((broken \cup cordoned \cup Under(nm')) \cap nodes) <= limit]_vars

\* A pending maintenance of an existing node is scheduled, or withdrawn, in the
\* end: higher ranks and conflicting updates delay it, but not forever.
PendingServed ==
  \A x \in NM : nm[x] = "Pending" ~> nm[x] # "Pending" \/ NodeName[x] \notin nodes

-----------------------------------------------------------------------------
(* A statement of the documentation that does not hold of the code. *)

\* README, troubleshooting: maxUnavailable zero "allows maintenance to continue
\* on nodes that are already unavailable".
UnavailableServed ==
  \A x \in NM : nm[x] = "Pending" /\ NodeName[x] \in broken ~> nm[x] # "Pending"

=============================================================================
