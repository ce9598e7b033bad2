------------------------- MODULE MachineConfigPool -------------------------
(***************************************************************************)
(* The MachineConfigPool manager of the maintenance operator on OpenShift, *)
(* with the handlers of the NodeMaintenance reconciler that call it.       *)
(*                                                                         *)
(* A pool is paused, and marked with an annotation, before the first of    *)
(* its nodes is maintained, and released when the last maintenance that    *)
(* paused it is deleted.  Each maintenance shows its interest in the pool  *)
(* by a label of its own.  Both decisions are made on informer caches.     *)
(*                                                                         *)
(* The one reconcile goroutine makes its API calls one at a time (pc names *)
(* the pending one).  What PauseMCP and UnpauseMCP do not touch is left    *)
(* out: a maintenance past Scheduled has the one reason Cordon, and its    *)
(* other clean-up is done when UnpauseMCP is called (see NodeMaintenance). *)
(*                                                                         *)
(* Which assumptions on its surroundings the manager needs differs from    *)
(* property to property: env is the set of things that may happen, chosen  *)
(* initially, and each property says which of them it excludes.            *)
(***************************************************************************)
EXTENDS Naturals

CONSTANTS NM,            \* NodeMaintenance objects
          Node,          \* nodes
          Pool,          \* machine config pools
          NodeName,      \* NodeName[x]: spec.nodeName of x
          PoolOf,        \* PoolOf[n]: the pool that owns the configuration of n
          Nil,           \* no object
          Environments,  \* the environments to consider
          MaxFaults,     \* bound on failed calls, timeouts and restarts
          MaxChanges     \* bound on new configurations, pauses and lost nodes

\* nmLag: a reconcile may start before the informer has seen all writes of
\* objects; poolLag: or of pools, and administrators may pause a pool during a
\* reconcile; faults: calls fail, waits time out, the operator restarts; admin:
\* administrators pause pools; nodeGone: nodes are removed.
Hazards == {"nmLag", "poolLag", "faults", "admin", "nodeGone"}

ASSUME NodeNameAssumption == NodeName \in [NM -> Node]
ASSUME PoolOfAssumption == PoolOf \in [Node -> Pool]
ASSUME NilAssumption == Nil \notin NM
ASSUME EnvironmentsAssumption == Environments \subseteq SUBSET Hazards
ASSUME BoundsAssumption == MaxFaults \in Nat /\ MaxChanges \in Nat

VARIABLES
  env,        \* what may happen
  nm,         \* nm[x]: the object x in the API server
  nmCache,    \* nmCache[x]: x in the informer cache
  nmFresh,    \* nmFresh[x]: the cached x has the version of the API server
  mcp,        \* mcp[p]: the pool p in the API server
  mcpCache,   \* mcpCache[p]: p in the informer cache
  rolling,    \* the pools whose nodes are being reconfigured
  admin,      \* history: the pools an administrator wants paused
  nodes,      \* the nodes that exist
  queue,      \* the work queue of the reconciler
  pc,         \* the call the reconcile in progress makes next, or "idle"
  cur,        \* the object being reconciled, or Nil
  obj,        \* the reconcile's copy of that object ...
  objFresh,   \* ... and whether it has the version of the API server
  faults,     \* faults so far
  changes     \* changes so far

objVars  == <<nm, nmCache, nmFresh>>
poolVars == <<mcp, mcpCache, rolling, admin, nodes>>
procVars == <<pc, cur, obj, objFresh>>
vars == <<env, nm, nmCache, nmFresh, mcp, mcpCache, rolling, admin, nodes, queue, pc, cur, obj,
          objFresh, faults, changes>>

-----------------------------------------------------------------------------
(* Objects and pools. *)

\* label: the paused-mcp-name label names the pool of the node.
Object == [life : {"unborn", "live", "gone"}, reason : {"Scheduled", "Cordon"},
           deleting : BOOLEAN, finalizer : BOOLEAN, label : BOOLEAN]

Unborn == [life |-> "unborn", reason |-> "Scheduled", deleting |-> FALSE,
           finalizer |-> FALSE, label |-> FALSE]

Gone == [Unborn EXCEPT !.life = "gone"]

Live(o) == o.life = "live"

\* annotated: paused by the operator; changing: spec.configuration.name differs
\* from status.configuration.name.
PoolObject == [paused : BOOLEAN, annotated : BOOLEAN, changing : BOOLEAN]

NewPool == [paused |-> FALSE, annotated |-> FALSE, changing |-> FALSE]

\* getMCPName: the owner of the machine config that the node asks for.
MCPName(x) == PoolOf[NodeName[x]]

\* x is maintained, and not yet on its way out.
Maintained(x) == Live(nm[x]) /\ nm[x].reason = "Cordon" /\ ~nm[x].deleting

Steps == {"idle", "addFinalizer", "setLabel", "waitLabel", "getPool", "pause", "waitPaused",
          "undo", "waitUndone", "setReason", "getPausedPool", "listUsers", "unpause",
          "waitUnpaused", "removeFinalizer"}

-----------------------------------------------------------------------------
(* How a reconcile proceeds and ends. *)

Idle == pc' = "idle" /\ cur' = Nil /\ obj' = Unborn /\ objFresh' = FALSE

Done == Idle /\ UNCHANGED queue

\* Mutants: the object is not put back; what is put back has lost its name.
RequeueDropped == Done
RequeueNameless == Idle /\ queue' = queue \cup {cur'}

\* An error, or a pool that is busy (RequeueAfter).
Requeue == Idle /\ queue' = queue \cup {cur}

Proceed(k) ==
  CASE k = "idle" -> Done
    [] k = "requeue" -> Requeue
    [] OTHER -> pc' = k /\ UNCHANGED <<cur, obj, objFresh, queue>>

Fault == "faults" \in env /\ faults < MaxFaults /\ faults' = faults + 1

\* A failed call before a write: nothing happens and the request is retried.
CallFails == Fault /\ Requeue /\ UNCHANGED <<env, objVars, poolVars, changes>>

Stored(new) ==
  /\ objFresh
  /\ nm' = [nm EXCEPT ![cur] = new] /\ nmFresh' = [nmFresh EXCEPT ![cur] = FALSE]

\* An update: its reply overwrites the copy.  It conflicts unless the copy has
\* the version of the API server; it may fail, before or after it took effect.
Write(new, k) ==
  /\ \/ /\ Stored(new) /\ UNCHANGED faults
        /\ IF k = "idle" THEN Done
                         ELSE pc' = k /\ obj' = new /\ UNCHANGED <<cur, objFresh, queue>>
     \/ ~objFresh /\ Requeue /\ UNCHANGED <<nm, nmFresh, faults>>
     \/ Fault /\ Requeue /\ (Stored(new) \/ UNCHANGED <<nm, nmFresh>>)
  /\ UNCHANGED <<env, nmCache, poolVars, changes>>

\* client.Update leaves the status alone, client.Status().Update the rest.
Update(new, k) == Write([new EXCEPT !.reason = nm[cur].reason], k)

StatusUpdate(reason, k) == Write([nm[cur] EXCEPT !.reason = reason], k)

\* changeMachineConfigPoolPause: a merge patch, without a version, of the pause
\* and of the annotation.
ChangeMachineConfigPoolPause(pause, k) ==
  LET patched == [mcp EXCEPT ![MCPName(cur)].paused = pause, ![MCPName(cur)].annotated = pause]
  IN /\ \/ mcp' = patched /\ Proceed(k) /\ UNCHANGED faults
        \/ Fault /\ Requeue /\ mcp' \in {mcp, patched}
     /\ UNCHANGED <<env, objVars, mcpCache, rolling, admin, nodes, changes>>

\* A step that only reads.
Read(k) == Proceed(k) /\ UNCHANGED <<env, objVars, poolVars, faults, changes>>

-----------------------------------------------------------------------------
(* PauseMCP. *)

\* The first call for an object in Scheduled state.
StartPause(o) ==
  CASE ~o.finalizer -> "addFinalizer"
    [] o.finalizer /\ ~o.label -> "setLabel"
    [] OTHER -> "getPool"

AddFinalizer ==
  /\ pc = "addFinalizer"
  /\ LET new == [obj EXCEPT !.finalizer = TRUE]
     IN Update(new, StartPause(new))

SetLabel == pc = "setLabel" /\ Update([obj EXCEPT !.label = TRUE], "waitLabel")

\* Mutant: the label is not awaited.
WaitForLabelSkipped == pc = "waitLabel" /\ Read("getPool")

\* waitForObjectUpdate: until the cached object has the label, which becomes the
\* reconcile's copy; after ten seconds it ends with an error.
WaitForLabel ==
  /\ pc = "waitLabel"
  /\ \/ /\ nmCache[cur].label
        /\ pc' = "getPool" /\ obj' = nmCache[cur] /\ objFresh' = nmFresh[cur]
        /\ UNCHANGED <<cur, queue, env, objVars, poolVars, faults, changes>>
     \/ ~nmCache[cur].label /\ CallFails

\* Mutant: a pool paused by someone else is taken over.
AfterGetTakingOver(m) ==
  CASE m.annotated -> "setReason"
    [] ~m.annotated /\ m.changing -> "requeue"
    [] OTHER -> "pause"

\* What is next for a pool: it is paused by the operator; it is busy, paused by
\* another entity or being reconfigured; or it is to be paused.
AfterGet(m) ==
  CASE m.annotated -> "setReason"
    [] ~m.annotated /\ (m.paused \/ m.changing) -> "requeue"
    [] OTHER -> "pause"

GetPool == pc = "getPool" /\ (Read(AfterGet(mcpCache[MCPName(cur)])) \/ CallFails)

Pause == pc = "pause" /\ ChangeMachineConfigPoolPause(TRUE, "waitPaused")

\* Mutant: a change that has begun meanwhile goes unnoticed.
AfterPausedUnchecked(m) == "setReason"

\* A change of the configuration has begun meanwhile: undo the pause.
AfterPaused(m) == IF m.changing THEN "undo" ELSE "setReason"

WaitForPaused ==
  /\ pc = "waitPaused"
  /\ LET m == mcpCache[MCPName(cur)]
     IN (m.annotated /\ Read(AfterPaused(m))) \/ (~m.annotated /\ CallFails)

Undo == pc = "undo" /\ ChangeMachineConfigPoolPause(FALSE, "waitUndone")

\* The annotation is gone from the cache, or the wait times out.
WaitForRelease(k) ==
  LET m == mcpCache[MCPName(cur)]
  IN (~m.annotated /\ Read(k)) \/ (m.annotated /\ CallFails)

WaitForUndone == pc = "waitUndone" /\ WaitForRelease("requeue")

SetReason == pc = "setReason" /\ StatusUpdate("Cordon", "idle")

-----------------------------------------------------------------------------
(* UnpauseMCP and the end of the clean-up. *)

HandleFinalizerRemoval(o) == IF o.finalizer THEN "removeFinalizer" ELSE "idle"

GetPausedPool ==
  /\ pc = "getPausedPool"
  /\ \/ Read(IF mcpCache[MCPName(cur)].annotated THEN "listUsers"
                                                 ELSE HandleFinalizerRemoval(obj))
     \/ CallFails

\* Mutant: every other maintenance counts.
UsedByAnyOther(x) == \E y \in NM \ {x} : Live(nmCache[y])

\* mcpUsedByOtherNodeMaintenance: another cached object on a node of the pool
\* has the label.
MCPUsedByOtherNodeMaintenance(x) ==
  \E y \in NM \ {x} : /\ Live(nmCache[y]) /\ nmCache[y].label
                      /\ NodeName[y] \in nodes /\ MCPName(y) = MCPName(x)

ListUsers ==
  /\ pc = "listUsers"
  /\ \/ Read(IF MCPUsedByOtherNodeMaintenance(cur) THEN HandleFinalizerRemoval(obj)
                                                   ELSE "unpause")
     \/ CallFails

Unpause == pc = "unpause" /\ ChangeMachineConfigPoolPause(FALSE, "waitUnpaused")

WaitForUnpaused == pc = "waitUnpaused" /\ WaitForRelease(HandleFinalizerRemoval(obj))

\* Without its last finalizer an object that is being deleted is gone.
RemoveFinalizer ==
  /\ pc = "removeFinalizer"
  /\ Write(IF nm[cur].deleting THEN Gone
             ELSE [obj EXCEPT !.finalizer = FALSE, !.reason = nm[cur].reason], "idle")

Call ==
  \/ AddFinalizer \/ SetLabel \/ WaitForLabel \/ GetPool \/ Pause \/ WaitForPaused
  \/ Undo \/ WaitForUndone \/ SetReason
  \/ GetPausedPool \/ ListUsers \/ Unpause \/ WaitForUnpaused \/ RemoveFinalizer

-----------------------------------------------------------------------------
(* The reconciler and its informers. *)

InformersCaughtUp ==
  /\ "nmLag" \in env \/ \A x \in NM : nmFresh[x]
  /\ "poolLag" \in env \/ mcpCache = mcp

\* Reconcile reads the object and its node.  Without the node the finalizer is
\* removed and the pool is left alone.  The handlers of the later states have
\* nothing to do with the pool until the object is deleted.
Reconcile(x) ==
  LET o == nmCache[x]
      k == CASE ~Live(o) -> "idle"
             [] Live(o) /\ NodeName[x] \notin nodes -> HandleFinalizerRemoval(o)
             [] Live(o) /\ NodeName[x] \in nodes /\ o.deleting -> "getPausedPool"
             [] Live(o) /\ NodeName[x] \in nodes /\ ~o.deleting /\ o.reason = "Scheduled" -> StartPause(o)
             [] OTHER -> "idle"
  IN /\ pc = "idle" /\ x \in queue
     /\ InformersCaughtUp
     /\ queue' = queue \ {x}
     /\ IF k = "idle" THEN UNCHANGED procVars
                      ELSE pc' = k /\ cur' = x /\ obj' = o /\ objFresh' = nmFresh[x]
     /\ UNCHANGED <<env, objVars, poolVars, faults, changes>>

\* ConditionChangedPredicate, as in NodeMaintenance.
Enqueues(x) ==
  \/ Live(nmCache[x]) # Live(nm[x])
  \/ Live(nm[x]) /\ (nmCache[x].reason # nm[x].reason \/ nm[x].deleting)

SyncNodeMaintenances ==
  /\ \E x \in NM : ~nmFresh[x]
  /\ nmCache' = nm /\ nmFresh' = [x \in NM |-> TRUE]
  /\ queue' = queue \cup {x \in NM : ~nmFresh[x] /\ Enqueues(x)}
  /\ UNCHANGED <<env, nm, poolVars, procVars, faults, changes>>

SyncPools ==
  /\ mcpCache # mcp /\ mcpCache' = mcp
  /\ UNCHANGED <<env, objVars, mcp, rolling, admin, nodes, queue, procVars, faults, changes>>

\* The operator stops and starts again with fresh caches.
Restart ==
  /\ Fault /\ Idle
  /\ nmCache' = nm /\ nmFresh' = [x \in NM |-> TRUE] /\ mcpCache' = mcp
  /\ queue' = {x \in NM : Live(nm[x])}
  /\ UNCHANGED <<env, nm, mcp, rolling, admin, nodes, changes>>

-----------------------------------------------------------------------------
(* The scheduler, users, the machine config operator and administrators. *)

\* Someone other than the reconciler writes x.
OtherWrite(x, new) ==
  /\ nm' = [nm EXCEPT ![x] = new] /\ nmFresh' = [nmFresh EXCEPT ![x] = FALSE]
  /\ objFresh' = (objFresh /\ cur # x)
  /\ UNCHANGED <<env, nmCache, poolVars, queue, pc, cur, obj, faults, changes>>

\* An object appears in this model when the scheduler sets it to Scheduled.
Schedule(x) ==
  /\ nm[x].life = "unborn" /\ NodeName[x] \in nodes
  /\ OtherWrite(x, [Unborn EXCEPT !.life = "live"])

Delete(x) ==
  /\ Live(nm[x]) /\ ~nm[x].deleting
  /\ OtherWrite(x, IF nm[x].finalizer THEN [nm[x] EXCEPT !.deleting = TRUE] ELSE Gone)

Change == changes < MaxChanges /\ changes' = changes + 1

\* A new configuration for the pool, which may be paused ...
Render(p) ==
  /\ Change /\ ~mcp[p].changing
  /\ mcp' = [mcp EXCEPT ![p].changing = TRUE]
  /\ UNCHANGED <<env, objVars, mcpCache, rolling, admin, nodes, queue, procVars, faults>>

\* ... is rolled out to the nodes when it is not.
StartRollout(p) ==
  /\ mcp[p].changing /\ ~mcp[p].paused /\ p \notin rolling
  /\ rolling' = rolling \cup {p}
  /\ UNCHANGED <<env, objVars, mcp, mcpCache, admin, nodes, queue, procVars, faults, changes>>

FinishRollout(p) ==
  /\ p \in rolling /\ ~mcp[p].paused
  /\ rolling' = rolling \ {p}
  /\ mcp' = [mcp EXCEPT ![p].changing = FALSE]
  /\ UNCHANGED <<env, objVars, mcpCache, admin, nodes, queue, procVars, faults, changes>>

\* An administrator pauses a pool that is not paused, and later ends that pause.
AdminPause(p) ==
  /\ "admin" \in env /\ (pc = "idle" \/ "poolLag" \in env)
  /\ Change /\ ~mcp[p].paused
  /\ mcp' = [mcp EXCEPT ![p].paused = TRUE] /\ admin' = admin \cup {p}
  /\ UNCHANGED <<env, objVars, mcpCache, rolling, nodes, queue, procVars, faults>>

AdminUnpause(p) ==
  /\ p \in admin
  /\ mcp' = [mcp EXCEPT ![p].paused = FALSE] /\ admin' = admin \ {p}
  /\ UNCHANGED <<env, objVars, mcpCache, rolling, nodes, queue, procVars, faults, changes>>

RemoveNode(n) ==
  /\ "nodeGone" \in env /\ Change /\ n \in nodes
  /\ nodes' = nodes \ {n}
  /\ UNCHANGED <<env, objVars, mcp, mcpCache, rolling, admin, queue, procVars, faults>>

-----------------------------------------------------------------------------
Init ==
  /\ env \in Environments
  /\ nm = [x \in NM |-> Unborn] /\ nmCache = nm /\ nmFresh = [x \in NM |-> TRUE]
  /\ mcp = [p \in Pool |-> NewPool] /\ mcpCache = mcp /\ rolling = {} /\ admin = {}
  /\ nodes = Node /\ queue = {}
  /\ pc = "idle" /\ cur = Nil /\ obj = Unborn /\ objFresh = FALSE
  /\ faults = 0 /\ changes = 0

Next ==
  \/ \E x \in NM : Reconcile(x) \/ Schedule(x) \/ Delete(x)
  \/ Call
  \/ SyncNodeMaintenances \/ SyncPools \/ Restart
  \/ \E p \in Pool : \/ Render(p) \/ StartRollout(p) \/ FinishRollout(p)
                     \/ AdminPause(p) \/ AdminUnpause(p)
  \/ \E n \in Node : RemoveNode(n)

Spec == Init /\ [][Next]_vars

\* The reconciler runs and serves its queue in order, informers catch up,
\* rollouts finish and administrators end their pauses.
Fairness ==
  /\ WF_vars(Call) /\ WF_vars(SyncNodeMaintenances) /\ WF_vars(SyncPools)
  /\ \A x \in NM : SF_vars(Reconcile(x))
  /\ \A p \in Pool : WF_vars(StartRollout(p)) /\ WF_vars(FinishRollout(p)) /\ WF_vars(AdminUnpause(p))

FairSpec == Spec /\ Fairness

-----------------------------------------------------------------------------
(* Properties. *)

\* The pool cache may lag only when no other than the operator pauses pools and
\* none of its calls is cut short: then the waits for the cache are enough.
PoolCacheTrusted == "poolLag" \in env => env \cap {"faults", "admin"} = {}

\* Type invariant.
TypeOK ==
  /\ env \in Environments
  /\ nm \in [NM -> Object] /\ nmCache \in [NM -> Object] /\ nmFresh \in [NM -> BOOLEAN]
  /\ mcp \in [Pool -> PoolObject] /\ mcpCache \in [Pool -> PoolObject]
  /\ rolling \subseteq Pool /\ admin \subseteq Pool /\ nodes \subseteq Node /\ queue \subseteq NM
  /\ pc \in Steps /\ cur \in NM \cup {Nil} /\ obj \in Object /\ objFresh \in BOOLEAN
  /\ faults \in 0..MaxFaults /\ changes \in 0..MaxChanges

\* While a node is maintained its pool is paused and marked, however the
\* maintenances of the pool come and go (PauseMCP, UnpauseMCP).
PausedDuringMaintenance ==
  PoolCacheTrusted =>
    \A x \in NM : Maintained(x) /\ NodeName[x] \in nodes
                    => mcp[MCPName(x)].paused /\ mcp[MCPName(x)].annotated

\* No configuration is being rolled out to the pool of a maintained node: the
\* second look of PauseMCP at the pool catches a change that the first missed,
\* unless PauseMCP is cut short between the patch and that second look.
NoRolloutDuringMaintenance ==
  PoolCacheTrusted /\ "faults" \notin env =>
    \A x \in NM : Maintained(x) /\ NodeName[x] \in nodes => MCPName(x) \notin rolling

\* The operator never leaves a pool paused behind: whoever is the last to use
\* the pool unpauses it (mcpUsedByOtherNodeMaintenance), when the list it decides
\* on was current and no node vanishes from under its maintenance.
PoolReleased ==
  PoolCacheTrusted /\ env \cap {"nmLag", "nodeGone"} = {} =>
    \A p \in Pool : mcp[p].annotated =>
      \E x \in NM : Live(nm[x]) /\ nm[x].label /\ nm[x].finalizer /\ MCPName(x) = p

\* A pool that an administrator has paused stays so until the administrator ends
\* that: PauseMCP does not adopt it (ErrMachineConfigBusy), and UnpauseMCP leaves
\* a pool without annotation alone.
AdminPauseRespected ==
  PoolCacheTrusted => \A p \in admin : mcp[p].paused /\ ~mcp[p].annotated

\* The same as PoolReleased, for any informer.
NeverLeftPaused ==
  \A p \in Pool : mcp[p].annotated => \E x \in NM : Live(nm[x]) /\ MCPName(x) = p

\* A scheduled maintenance waits for a busy pool and then goes on, also when
\* PauseMCP has failed or has undone its pause.
PauseProgresses ==
  \A x \in NM : (Live(nm[x]) /\ nm[x].reason = "Scheduled")
                  ~> (nm[x].reason = "Cordon" \/ nm[x].deleting \/ nm[x].life = "gone"
                      \/ NodeName[x] \notin nodes)

\* A deleted maintenance releases its pool and goes away.
UnpauseCompletes == \A x \in NM : nm[x].deleting ~> nm[x].life = "gone"
=============================================================================
