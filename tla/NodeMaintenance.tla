-------------------------- MODULE NodeMaintenance --------------------------
(***************************************************************************)
(* The NodeMaintenance reconciler of the maintenance operator, with what   *)
(* it works against: the API server, the informer caches it reads, the     *)
(* drain manager with one goroutine per drain request, the users and       *)
(* administrators who write the same objects, and restarts.                *)
(*                                                                         *)
(* The reconciler is one goroutine.  A reconcile copies a NodeMaintenance  *)
(* and its node out of the informer caches and then makes its API calls    *)
(* one at a time; every call is a step of its own (variable pc names the   *)
(* pending one), so that everything else may happen between two calls.     *)
(*                                                                         *)
(* Resource versions.  An update of a NodeMaintenance fails with a         *)
(* conflict unless it carries the version the API server holds.  Only the  *)
(* equality of versions matters, so each copy carries one Boolean:         *)
(* nmFresh[x] for the cached copy of x, objFresh for the copy that the     *)
(* reconcile in progress holds.  Patches of a node carry no version.       *)
(*                                                                         *)
(* The deployment modelled is the one without a MachineConfigPool manager  *)
(* (MCPManager is nil outside OpenShift).  Durations are abstracted: a     *)
(* request that is requeued after some seconds is back in the queue.       *)
(***************************************************************************)
EXTENDS Naturals

CONSTANTS NM,         \* NodeMaintenance objects (a name together with a UID)
          Node,       \* cluster nodes
          Pod,        \* pods that the drain filters select
          NodeName,   \* NodeName[x]: spec.nodeName of x, immutable
          DrainSpec,  \* the drain specifications users write
          Nil,        \* an absent object, or an absent spec.drainSpec
          Specs,      \* the specs with which objects are created
          Edits,      \* what users and administrators change later
          MaxEdits,   \* bound on the number of such changes
          MaxFaults,  \* bound on API errors, failed drains and restarts
          Lagging     \* which informers may lag: a subset of {"nm", "node"}

EditKinds == {"cordon", "drain", "requestors", "failed", "waitStart", "admin", "node"}

MaintenanceSpec == [cordon : BOOLEAN, wait : BOOLEAN, drain : DrainSpec \cup {Nil}]

ASSUME NodeNameAssumption == NodeName \in [NM -> Node]
ASSUME NilAssumption == Nil \notin NM \cup DrainSpec
ASSUME SpecsAssumption == Specs \subseteq MaintenanceSpec
ASSUME EditsAssumption == Edits \subseteq EditKinds
ASSUME BoundsAssumption == MaxEdits \in Nat /\ MaxFaults \in Nat
ASSUME LaggingAssumption == Lagging \subseteq {"nm", "node"}

VARIABLES
  nm,         \* nm[x]: the object x in the API server
  nmCache,    \* nmCache[x]: x in the informer cache
  nmFresh,    \* nmFresh[x]: the cached x has the version of the API server
  node,       \* node[n]: the node in the API server
  nodeCache,  \* node[n] in the informer cache
  pods,       \* pods[n]: the selected pods that run on n
  unbound,    \* pods not yet bound to a node
  events,     \* objects with watch events not yet handed to the work queue
  queue,      \* the reconciler's work queue
  pc,         \* the call the reconcile in progress makes next, or "idle"
  cur,        \* the object being reconciled, or Nil
  obj,        \* the reconcile's copy of that object ...
  objFresh,   \* ... and whether it has the version of the API server
  view,       \* the reconcile's copy of the node
  reqs,       \* reqs[x]: the drain request of x in the drain manager
  admin,      \* history: unschedulable as an administrator last left it
  edits,      \* changes made so far
  faults      \* faults so far

apiVars   == <<nm, node>>
cacheVars == <<nmCache, nmFresh, nodeCache, events>>
podVars   == <<pods, unbound>>
procVars  == <<pc, cur, obj, objFresh, view>>
vars == <<nm, nmCache, nmFresh, node, nodeCache, pods, unbound, events, queue, pc,
          cur, obj, objFresh, view, reqs, admin, edits, faults>>

-----------------------------------------------------------------------------
(* Objects. *)

\* The reasons of the Ready condition; an object without one is Uninitialized.
Reason == {"Uninitialized", "Pending", "Scheduled", "Cordon", "WaitForPodCompletion",
           "Draining", "Ready", "RequestorFailed"}

\* life: an object is created once and is gone for good once removed.
\* initial: the node-initial-state annotation; waitStart: the annotation that
\* holds the start of the wait for pods; readyTime: the ready-time annotation;
\* failed: the RequestorFailed condition; requestors: there are additional
\* requestors; drainStatus: status.drain is set.
Object == [life : {"unborn", "live", "gone"}, reason : Reason, deleting : BOOLEAN,
           finalizer : BOOLEAN, owner : BOOLEAN, initial : {"none", "true", "false"},
           waitStart : {"none", "set", "invalid"}, readyTime : BOOLEAN, failed : BOOLEAN,
           requestors : BOOLEAN, cordon : BOOLEAN, wait : BOOLEAN,
           drain : DrainSpec \cup {Nil}, drainStatus : BOOLEAN]

Unborn == [life |-> "unborn", reason |-> "Uninitialized", deleting |-> FALSE,
           finalizer |-> FALSE, owner |-> FALSE, initial |-> "none",
           waitStart |-> "none", readyTime |-> FALSE, failed |-> FALSE,
           requestors |-> FALSE, cordon |-> FALSE, wait |-> FALSE,
           drain |-> Nil, drainStatus |-> FALSE]

Gone == [Unborn EXCEPT !.life = "gone"]

NodeObject == [exists : BOOLEAN, unsched : BOOLEAN]

NoView == [exists |-> FALSE, unsched |-> FALSE]

\* A drain request: "started" until its goroutine has listed the pods to evict,
\* then "evicting" (both are DrainStateInProgress), then finished.
Request == [state : {"none", "started", "evicting", "success", "error"},
            spec : DrainSpec \cup {Nil}, targets : SUBSET Pod]

NoRequest == [state |-> "none", spec |-> Nil, targets |-> {}]

Live(o) == o.life = "live"

\* k8sutils.IsUnderMaintenance
IsUnderMaintenance(o) == o.reason \notin {"Uninitialized", "Pending"}

Maintained(o) == Live(o) /\ IsUnderMaintenance(o)

\* The reason that each handler sets once its work is done.
NextReason(o) ==
  CASE o.reason = "Uninitialized" -> "Pending"
    [] o.reason = "Scheduled" -> "Cordon"
    [] o.reason = "Cordon" -> "WaitForPodCompletion"
    [] o.reason = "WaitForPodCompletion" -> "Draining"
    [] o.reason = "Draining" -> "Ready"
    [] o.reason = "Ready" -> "RequestorFailed"
    [] o.reason = "RequestorFailed" -> "Ready"
    [] OTHER -> o.reason

Steps == {"idle", "setOwner", "handle", "addFinalizer", "setReason", "recordInitial",
          "cordon", "markWaitStart", "resetWaitStart", "listPods", "startDrain",
          "reportDrain", "reportDrained", "clearDrainStatus", "markReady", "uncordon",
          "clearInitial", "removeFinalizer"}

-----------------------------------------------------------------------------
(* How a reconcile proceeds and ends. *)

\* Reconcile returns an empty result.
Done ==
  /\ pc' = "idle" /\ cur' = Nil /\ obj' = Unborn /\ objFresh' = FALSE /\ view' = NoView
  /\ UNCHANGED queue

\* Mutant: the object is put back after the worker has forgotten which it was.
RequeueForgotten ==
  /\ pc' = "idle" /\ cur' = Nil /\ obj' = Unborn /\ objFresh' = FALSE /\ view' = NoView
  /\ queue' = queue \cup {cur'}

\* Mutant: errors are swallowed.
RequeueDropped == Done

\* Reconcile returns an error, or a result with RequeueAfter.
Requeue ==
  /\ pc' = "idle" /\ cur' = Nil /\ obj' = Unborn /\ objFresh' = FALSE /\ view' = NoView
  /\ queue' = queue \cup {cur}

\* The reconcile goes on with call k and holds o as its copy of the object.
Proceed(k, o) ==
  CASE k = "idle" -> Done
    [] k = "requeue" -> Requeue
    [] OTHER -> pc' = k /\ obj' = o /\ UNCHANGED <<cur, objFresh, view, queue>>

\* Mutant: writes carry no resource version.
StoreUnchecked(new) ==
  /\ nm' = [nm EXCEPT ![cur] = new]
  /\ nmFresh' = [nmFresh EXCEPT ![cur] = FALSE]

\* An accepted write: the API server holds new.  A write that changes nothing
\* keeps the version (a status report about pods, whose text is not modelled,
\* may or may not change).
Store(new) ==
  /\ objFresh
  /\ nm' = [nm EXCEPT ![cur] = new]
  /\ \/ nmFresh' = [nmFresh EXCEPT ![cur] = FALSE]
     \/ new = nm[cur] /\ UNCHANGED nmFresh

\* A write that returns an error: the copy is stale (a conflict, or the object
\* is gone), the call fails, or the call succeeds and its reply is lost.
Fails(new) ==
  \/ ~objFresh /\ UNCHANGED <<nm, nmFresh, faults>>
  \/ /\ faults < MaxFaults /\ faults' = faults + 1
     /\ Store(new) \/ UNCHANGED <<nm, nmFresh>>

\* The write succeeds: its reply overwrites the reconcile's copy, and the
\* reconcile goes on with k.
Accepted(new, k) ==
  /\ Store(new) /\ Proceed(k, new)
  /\ UNCHANGED <<nmCache, node, nodeCache, events, podVars, admin, edits, faults>>

\* The write fails and the reconcile returns the error.
Refused(new) ==
  /\ Fails(new) /\ Requeue
  /\ UNCHANGED <<nmCache, node, nodeCache, events, podVars, reqs, admin, edits>>

Write(new, k) ==
  \/ Accepted(new, k) /\ UNCHANGED reqs
  \/ Refused(new)

\* client.Update ignores the status of the object it is given, and
\* client.Status().Update everything but the status.
WithStatus(o, s) ==
  [o EXCEPT !.reason = s.reason, !.failed = s.failed, !.drainStatus = s.drainStatus]

Update(new, k) == Write(WithStatus(new, nm[cur]), k)

StatusUpdate(new, k) == Write(WithStatus(nm[cur], new), k)

-----------------------------------------------------------------------------
(* The clean-up of a deleted object: uncordon the node, drop the annotation,  *)
(* remove the finalizer.  Each operator names the first call still to make.   *)

HandleFinalizerRemoval(o) == IF o.finalizer THEN "removeFinalizer" ELSE "idle"

AfterUncordon(o) ==
  IF o.initial # "none" THEN "clearInitial" ELSE HandleFinalizerRemoval(o)

\* Mutant: deletion only drops the annotation and the finalizer.
CleanupKeepingCordon(o, v) == AfterUncordon(o)

Cleanup(o, v) ==
  CASE ~o.cordon -> HandleFinalizerRemoval(o)
    [] o.cordon /\ o.initial = "false" /\ v.unsched -> "uncordon"
    [] OTHER -> AfterUncordon(o)

\* Mutant: the node is cordoned when it was found cordoned.
AfterRecordInitialInverted(o, v) ==
  IF o.initial = "true" /\ ~v.unsched THEN "cordon" ELSE "setReason"

\* HandleCordon cordons a node that was schedulable and, in the copy, still is.
AfterRecordInitial(o, v) ==
  IF o.initial = "false" /\ ~v.unsched THEN "cordon" ELSE "setReason"

-----------------------------------------------------------------------------
(* The reconciler. *)

InformersCaughtUp ==
  /\ "nm" \in Lagging \/ \A x \in NM : nmFresh[x]
  /\ "node" \in Lagging \/ nodeCache = node

\* Reconcile reads the object and its node from the informer caches.  Without
\* the node only the finalizer is removed; an object that does not have the
\* node as owner is given it first.
Reconcile(x) ==
  LET o == nmCache[x]
      v == nodeCache[NodeName[x]]
  IN /\ pc = "idle" /\ x \in queue
     /\ InformersCaughtUp
     /\ queue' = queue \ {x}
     /\ IF ~Live(o) \/ (~v.exists /\ ~o.finalizer)
          THEN UNCHANGED procVars
          ELSE /\ cur' = x /\ obj' = o /\ objFresh' = nmFresh[x] /\ view' = v
               /\ pc' = CASE ~v.exists -> "removeFinalizer"
                          [] v.exists /\ ~o.owner -> "setOwner"
                          [] OTHER -> "handle"
     /\ UNCHANGED <<apiVars, cacheVars, podVars, reqs, admin, edits, faults>>

\* SetOwnerRef: an error is only logged, and the reconcile goes on with the
\* copy it has changed.
SetOwnerRef ==
  /\ pc = "setOwner"
  /\ LET new == [obj EXCEPT !.owner = TRUE]
         stored == WithStatus(new, nm[cur])
     IN \/ Accepted(stored, "handle")
        \/ /\ Fails(stored)
           /\ pc' = "handle" /\ obj' = new /\ objFresh' = (objFresh /\ nm' = nm)
           /\ UNCHANGED <<cur, view, queue>>
           /\ UNCHANGED <<nmCache, node, nodeCache, events, podVars, admin, edits>>
  /\ UNCHANGED reqs

Handle(r) ==
  /\ pc = "handle" /\ obj.reason = r
  /\ UNCHANGED <<apiVars, cacheVars, podVars, admin, edits, faults>>

HandleUninitializedState ==
  Handle("Uninitialized") /\ Proceed("setReason", obj) /\ UNCHANGED reqs

\* The switch in Reconcile has no case for Pending.
HandlePending == Handle("Pending") /\ Done /\ UNCHANGED reqs

\* Mutant: the finalizer is not added.
HandleScheduledStateBare ==
  /\ Handle("Scheduled") /\ UNCHANGED reqs
  /\ Proceed(IF obj.deleting THEN HandleFinalizerRemoval(obj) ELSE "setReason", obj)

HandleScheduledState ==
  /\ Handle("Scheduled") /\ UNCHANGED reqs
  /\ \/ ~obj.deleting /\ Proceed(IF obj.finalizer THEN "setReason" ELSE "addFinalizer", obj)
     \/ obj.deleting /\ Proceed(HandleFinalizerRemoval(obj), obj)

HandleCordonState ==
  /\ Handle("Cordon") /\ UNCHANGED reqs
  /\ \/ obj.deleting /\ Proceed(Cleanup(obj, view), obj)
     \/ /\ ~obj.deleting
        /\ Proceed(CASE ~obj.cordon -> "setReason"
                     [] obj.cordon /\ obj.initial = "none" -> "recordInitial"
                     [] OTHER -> AfterRecordInitial(obj, view), obj)

\* HandlePodCompletion first makes sure that the start of the wait is recorded.
HandleWaitPodCompletionState ==
  /\ Handle("WaitForPodCompletion") /\ UNCHANGED reqs
  /\ \/ obj.deleting /\ Proceed(Cleanup(obj, view), obj)
     \/ /\ ~obj.deleting
        /\ Proceed(CASE ~obj.wait -> "setReason"
                     [] obj.wait /\ obj.waitStart = "none" -> "markWaitStart"
                     [] obj.wait /\ obj.waitStart = "invalid" -> "resetWaitStart"
                     [] OTHER -> "listPods", obj)

\* Mutant: the request is left running.
RemoveRequestLeft(x) == UNCHANGED reqs

\* RemoveRequest cancels the request and waits for its goroutine to end.
RemoveRequest(x) == reqs' = [reqs EXCEPT ![x] = NoRequest]

\* Mutant: a drain that has listed its pods counts as completed.
InProgressUntilListed(req) == req.state = "started"

\* DrainRequest.State for a request in the manager: it has been started.
InProgress(req) == req.state \in {"started", "evicting"}

HandleDrainState ==
  /\ Handle("Draining")
  /\ \/ obj.deleting /\ RemoveRequest(cur) /\ Proceed(Cleanup(obj, view), obj)
     \/ /\ ~obj.deleting /\ obj.drain # Nil
        /\ LET req == reqs[cur]
               present == req.state # "none"
               obsolete == req.spec # obj.drain \/ req.state = "error"
           IN \/ ~present /\ Proceed("startDrain", obj) /\ UNCHANGED reqs
              \/ present /\ obsolete /\ RemoveRequest(cur) /\ Requeue
              \/ /\ present /\ ~obsolete
                 /\ Proceed(IF InProgress(req) THEN "reportDrain" ELSE "reportDrained", obj)
                 /\ UNCHANGED reqs
     \/ /\ ~obj.deleting /\ obj.drain = Nil
        /\ RemoveRequest(cur)
        /\ Proceed(IF obj.drainStatus THEN "clearDrainStatus" ELSE "setReason", obj)

\* Ready and RequestorFailed follow the RequestorFailed condition.
AfterMarkReady(o) ==
  IF o.failed = (o.reason = "RequestorFailed") THEN "idle" ELSE "setReason"

HandleTerminalState ==
  /\ Handle("Ready") \/ Handle("RequestorFailed")
  /\ UNCHANGED reqs
  /\ \/ obj.deleting /\ obj.requestors /\ Requeue
     \/ obj.deleting /\ ~obj.requestors /\ Proceed(Cleanup(obj, view), obj)
     \/ ~obj.deleting /\ Proceed(IF obj.readyTime THEN AfterMarkReady(obj) ELSE "markReady", obj)

AddFinalizer ==
  pc = "addFinalizer" /\ Update([obj EXCEPT !.finalizer = TRUE], "setReason")

SetReadyConditionReason ==
  pc = "setReason" /\ StatusUpdate([obj EXCEPT !.reason = NextReason(obj)], "idle")

\* HandleCordon, first call: remember whether the node was schedulable.
RecordInitialState ==
  /\ pc = "recordInitial"
  /\ LET new == [obj EXCEPT !.initial = IF view.unsched THEN "true" ELSE "false"]
     IN Update(new, AfterRecordInitial(new, view))

\* A patch of spec.unschedulable: no version is compared.  The reconcile goes
\* on with k; the patch may fail, before or after it took effect.
PatchNode(unsched, k) ==
  /\ LET n == NodeName[cur]
         patched == [node EXCEPT ![n].unsched = unsched]
     IN \/ node[n].exists /\ node' = patched /\ Proceed(k, obj) /\ UNCHANGED faults
        \/ ~node[n].exists /\ Requeue /\ UNCHANGED <<node, faults>>
        \/ /\ faults < MaxFaults /\ faults' = faults + 1 /\ Requeue
           /\ (node[n].exists /\ node' = patched) \/ UNCHANGED node
  /\ UNCHANGED <<nm, cacheVars, podVars, reqs, admin, edits>>

CordonNode == pc = "cordon" /\ PatchNode(TRUE, "setReason")

UncordonNode == pc = "uncordon" /\ PatchNode(FALSE, AfterUncordon(obj))

ClearInitialState ==
  /\ pc = "clearInitial"
  /\ LET new == [obj EXCEPT !.initial = "none"]
     IN Update(new, HandleFinalizerRemoval(new))

\* Without its last finalizer an object that is being deleted is gone.
RemoveFinalizer ==
  /\ pc = "removeFinalizer"
  /\ Write(IF nm[cur].deleting THEN Gone
                               ELSE WithStatus([obj EXCEPT !.finalizer = FALSE], nm[cur]), "idle")

\* HandlePodCompletion: record the start of the wait, or drop an annotation
\* that does not parse (and return the error).
MarkWaitStart ==
  pc = "markWaitStart" /\ Update([obj EXCEPT !.waitStart = "set"], "listPods")

ResetWaitStart ==
  pc = "resetWaitStart" /\ Update([obj EXCEPT !.waitStart = "none"], "requeue")

\* HandlePodCompletion, last part: pods remain and are reported; or none does;
\* or the time allowed has passed, which is not reported.  Which pods there are
\* and how much time has passed is left open.
WaitForPods == pc = "listPods" /\ StatusUpdate(obj, "requeue")

PodsCompleted == pc = "listPods" /\ StatusUpdate(obj, "setReason")

PodCompletionTimeout ==
  /\ pc = "listPods" /\ Proceed("setReason", obj)
  /\ UNCHANGED <<apiVars, cacheVars, podVars, reqs, admin, edits, faults>>

\* Mutant: the request is added before the status is stored.
StartDrainFirst ==
  /\ pc = "startDrain"
  /\ LET stored == WithStatus(nm[cur], [obj EXCEPT !.drainStatus = TRUE])
     IN /\ Accepted(stored, "requeue") \/ (Fails(stored) /\ Requeue)
        /\ reqs' = [reqs EXCEPT ![cur] = [state |-> "started", spec |-> obj.drain,
                                          targets |-> {}]]
  /\ UNCHANGED <<nmCache, node, nodeCache, events, podVars, admin, edits>>

\* The first drain status is stored before the request is added and started.
StartDrain ==
  /\ pc = "startDrain"
  /\ LET stored == WithStatus(nm[cur], [obj EXCEPT !.drainStatus = TRUE])
     IN \/ /\ Accepted(stored, "requeue")
           /\ reqs' = [reqs EXCEPT ![cur] = [state |-> "started", spec |-> obj.drain,
                                             targets |-> {}]]
        \/ Refused(stored)

ReportDrain ==
  pc = "reportDrain" /\ StatusUpdate([obj EXCEPT !.drainStatus = TRUE], "requeue")

ReportDrained ==
  /\ pc = "reportDrained"
  /\ LET stored == WithStatus(nm[cur], [obj EXCEPT !.drainStatus = TRUE])
     IN \/ Accepted(stored, "setReason") /\ RemoveRequest(cur)
        \/ Refused(stored)

ClearDrainStatus ==
  pc = "clearDrainStatus" /\ StatusUpdate([obj EXCEPT !.drainStatus = FALSE], "setReason")

MarkReady ==
  /\ pc = "markReady"
  /\ LET new == [obj EXCEPT !.readyTime = TRUE]
     IN Update(new, AfterMarkReady(new))

Call ==
  \/ SetOwnerRef \/ AddFinalizer \/ SetReadyConditionReason \/ RecordInitialState
  \/ CordonNode \/ UncordonNode \/ ClearInitialState \/ RemoveFinalizer
  \/ MarkWaitStart \/ ResetWaitStart \/ WaitForPods \/ PodsCompleted
  \/ PodCompletionTimeout \/ StartDrain \/ ReportDrain \/ ReportDrained
  \/ ClearDrainStatus \/ MarkReady

Handler ==
  \/ HandleUninitializedState \/ HandlePending \/ HandleScheduledState
  \/ HandleCordonState \/ HandleWaitPodCompletionState \/ HandleDrainState
  \/ HandleTerminalState

-----------------------------------------------------------------------------
(* Informers.  One watch per kind keeps each cache; a cache that lags catches  *)
(* up in one step.                                                             *)

\* Mutants: updates of an object that is being deleted, of its Ready condition
\* or of its RequestorFailed condition are not enqueued.
EnqueuesUnlessDeleting(x) ==
  \/ Live(nmCache[x]) # Live(nm[x])
  \/ /\ Live(nmCache[x]) /\ Live(nm[x])
     /\ nmCache[x].reason # nm[x].reason \/ nmCache[x].failed # nm[x].failed
EnqueuesUnlessReady(x) ==
  \/ Live(nmCache[x]) # Live(nm[x])
  \/ /\ Live(nmCache[x]) /\ Live(nm[x])
     /\ nmCache[x].failed # nm[x].failed \/ nm[x].deleting
EnqueuesUnlessFailed(x) ==
  \/ Live(nmCache[x]) # Live(nm[x])
  \/ /\ Live(nmCache[x]) /\ Live(nm[x])
     /\ nmCache[x].reason # nm[x].reason \/ nm[x].deleting

\* ConditionChangedPredicate: creations and deletions are always enqueued, an
\* update when the conditions changed or the object is being deleted.
Enqueues(x) ==
  LET old == nmCache[x]
      new == nm[x]
  IN \/ Live(old) # Live(new)
     \/ /\ Live(old) /\ Live(new)
        /\ old.reason # new.reason \/ old.failed # new.failed \/ new.deleting

SyncNodeMaintenances ==
  /\ \E x \in NM : ~nmFresh[x]
  /\ nmCache' = nm
  /\ nmFresh' = [x \in NM |-> TRUE]
  /\ events' = events \cup {x \in NM : ~nmFresh[x] /\ Enqueues(x)}
  /\ UNCHANGED <<apiVars, nodeCache, podVars, procVars, queue, reqs, admin, edits, faults>>

\* The cache is updated before the event handlers run.
HandleEvent(x) ==
  /\ x \in events
  /\ events' = events \ {x}
  /\ queue' = queue \cup {x}
  /\ UNCHANGED <<apiVars, nmCache, nmFresh, nodeCache, podVars, procVars, reqs, admin, edits,
                 faults>>

SyncNodes ==
  /\ nodeCache # node
  /\ nodeCache' = node
  /\ UNCHANGED <<apiVars, nmCache, nmFresh, events, podVars, procVars, queue, reqs, admin,
                 edits, faults>>

-----------------------------------------------------------------------------
(* Drain goroutines and pods. *)

SetState(x, state) == reqs' = [reqs EXCEPT ![x].state = state]

\* RunNodeDrain lists the selected pods on the node ...
DrainList(x) ==
  /\ reqs[x].state = "started"
  /\ reqs' = [reqs EXCEPT ![x].state = "evicting", ![x].targets = pods[NodeName[x]]]
  /\ UNCHANGED <<apiVars, cacheVars, podVars, queue, procVars, admin, edits, faults>>

\* ... evicts them ...
DrainEvict(x, p) ==
  LET n == NodeName[x]
  IN /\ reqs[x].state = "evicting" /\ p \in reqs[x].targets \cap pods[n]
     /\ pods' = [pods EXCEPT ![n] = @ \ {p}]
     /\ UNCHANGED <<apiVars, cacheVars, unbound, queue, procVars, reqs, admin, edits, faults>>

\* ... and returns when they are gone, or with an error (a timeout, or a pod
\* that cannot be evicted).
DrainSuccess(x) ==
  /\ reqs[x].state = "evicting" /\ reqs[x].targets \cap pods[NodeName[x]] = {}
  /\ SetState(x, "success")
  /\ UNCHANGED <<apiVars, cacheVars, podVars, queue, procVars, admin, edits, faults>>

DrainError(x) ==
  /\ reqs[x].state \in {"started", "evicting"}
  /\ faults < MaxFaults /\ faults' = faults + 1
  /\ SetState(x, "error")
  /\ UNCHANGED <<apiVars, cacheVars, podVars, queue, procVars, admin, edits>>

DoDrain(x) == DrainList(x) \/ DrainSuccess(x) \/ \E p \in Pod : DrainEvict(x, p)

\* The cluster binds pods to schedulable nodes only.
BindPod(p, n) ==
  /\ p \in unbound /\ node[n].exists /\ ~node[n].unsched
  /\ unbound' = unbound \ {p}
  /\ pods' = [pods EXCEPT ![n] = @ \cup {p}]
  /\ UNCHANGED <<apiVars, cacheVars, queue, procVars, reqs, admin, edits, faults>>

-----------------------------------------------------------------------------
(* Users, the scheduler controller, administrators and restarts. *)

\* Someone other than the reconciler writes x.
OtherWrite(x, new) ==
  /\ nm' = [nm EXCEPT ![x] = new]
  /\ nmFresh' = [nmFresh EXCEPT ![x] = FALSE]
  /\ objFresh' = (objFresh /\ cur # x)
  /\ UNCHANGED <<nmCache, node, nodeCache, events, podVars, queue, pc, cur, obj, view, reqs, admin,
                 faults>>

\* The webhook admits x when the cached node exists.
Create(x) ==
  \E s \in Specs :
    /\ nm[x].life = "unborn" /\ nodeCache[NodeName[x]].exists
    /\ OtherWrite(x, [Unborn EXCEPT !.life = "live", !.cordon = s.cordon,
                                    !.wait = s.wait, !.drain = s.drain])
    /\ UNCHANGED edits

\* A requestor, the garbage collector or the cluster deletes x.
Delete(x) ==
  /\ Live(nm[x]) /\ ~nm[x].deleting
  /\ OtherWrite(x, IF nm[x].finalizer THEN [nm[x] EXCEPT !.deleting = TRUE] ELSE Gone)
  /\ UNCHANGED edits

\* The scheduler controller (module NodeMaintenanceScheduler) sets x to
\* Scheduled from the version it has listed, when none of the node is under
\* maintenance and x, or another maintenance of the node, was Pending.
Schedule(x) ==
  LET onNode == {y \in NM : NodeName[y] = NodeName[x]}
  IN /\ Live(nm[x]) /\ ~IsUnderMaintenance(nm[x]) /\ nmFresh[x]
     /\ nm[x].reason = "Pending" \/ \E y \in onNode \ {x} : nm[y] # Unborn
     /\ \A y \in onNode : ~Maintained(nm[y]) /\ ~Maintained(nmCache[y])
     /\ OtherWrite(x, [nm[x] EXCEPT !.reason = "Scheduled"])
     /\ UNCHANGED edits

Edit(kind) == kind \in Edits /\ edits < MaxEdits /\ edits' = edits + 1

EditObject(x) ==
  /\ Live(nm[x])
  /\ \/ Edit("cordon") /\ OtherWrite(x, [nm[x] EXCEPT !.cordon = ~@])
     \/ /\ Edit("drain")
        /\ \E d \in (DrainSpec \cup {Nil}) \ {nm[x].drain} :
             OtherWrite(x, [nm[x] EXCEPT !.drain = d])
     \/ Edit("requestors") /\ OtherWrite(x, [nm[x] EXCEPT !.requestors = ~@])
     \/ Edit("failed") /\ OtherWrite(x, [nm[x] EXCEPT !.failed = ~@])
     \/ /\ Edit("waitStart") /\ nm[x].waitStart = "set"
        /\ OtherWrite(x, [nm[x] EXCEPT !.waitStart = "invalid"])

\* An administrator cordons or uncordons a node that is not maintained, once
\* the operator has seen that.  (A reconcile on a cached copy of a maintenance
\* that is gone would uncordon the node again.)
AdminCordon(n) ==
  /\ Edit("admin") /\ node[n].exists
  /\ \A x \in NM : NodeName[x] = n => ~Maintained(nm[x]) /\ ~Maintained(nmCache[x])
  /\ node' = [node EXCEPT ![n].unsched = ~@]
  /\ admin' = [admin EXCEPT ![n] = ~node[n].unsched]
  /\ UNCHANGED <<nm, cacheVars, podVars, queue, procVars, reqs, faults>>

\* A node is deleted, and its pods with it.
RemoveNode(n) ==
  /\ Edit("node") /\ node[n].exists
  /\ node' = [node EXCEPT ![n] = NoView]
  /\ admin' = [admin EXCEPT ![n] = FALSE]
  /\ pods' = [pods EXCEPT ![n] = {}]
  /\ UNCHANGED <<nm, cacheVars, unbound, queue, procVars, reqs, faults>>

\* The operator stops and starts again: drain requests and the reconcile in
\* progress are lost, the informers list anew and every object is enqueued.
Restart ==
  /\ faults < MaxFaults /\ faults' = faults + 1
  /\ pc' = "idle" /\ cur' = Nil /\ obj' = Unborn /\ objFresh' = FALSE /\ view' = NoView
  /\ reqs' = [x \in NM |-> NoRequest]
  /\ nmCache' = nm /\ nmFresh' = [x \in NM |-> TRUE] /\ nodeCache' = node
  /\ events' = {x \in NM : Live(nm[x])} /\ queue' = {}
  /\ UNCHANGED <<apiVars, podVars, admin, edits>>

-----------------------------------------------------------------------------
Init ==
  /\ nm = [x \in NM |-> Unborn] /\ nmCache = nm /\ nmFresh = [x \in NM |-> TRUE]
  /\ admin \in [Node -> BOOLEAN]
  /\ node = [n \in Node |-> [exists |-> TRUE, unsched |-> admin[n]]] /\ nodeCache = node
  /\ pods = [n \in Node |-> {}] /\ unbound = Pod
  /\ events = {} /\ queue = {} /\ pc = "idle" /\ cur = Nil /\ obj = Unborn /\ objFresh = FALSE
  /\ view = NoView
  /\ reqs = [x \in NM |-> NoRequest]
  /\ edits = 0 /\ faults = 0

Reconciler == Handler \/ Call

Environment ==
  \/ \E x \in NM : Create(x) \/ Delete(x) \/ Schedule(x) \/ EditObject(x)
  \/ \E n \in Node : AdminCordon(n) \/ RemoveNode(n)
  \/ \E p \in Pod, n \in Node : BindPod(p, n)
  \/ Restart

Next ==
  \/ \E x \in NM : Reconcile(x) \/ HandleEvent(x)
  \/ Reconciler
  \/ SyncNodeMaintenances
  \/ SyncNodes
  \/ \E x \in NM : DoDrain(x) \/ DrainError(x)
  \/ Environment

Spec == Init /\ [][Next]_vars

\* The goroutines run, the informers catch up, the work queue is served in
\* order, and pods that are waited for complete.
Fairness ==
  /\ WF_vars(Reconciler) /\ SF_vars(PodsCompleted /\ pc' = "setReason")
  /\ WF_vars(SyncNodeMaintenances) /\ WF_vars(SyncNodes)
  /\ \A x \in NM : SF_vars(Reconcile(x)) /\ WF_vars(HandleEvent(x)) /\ WF_vars(DoDrain(x))

FairSpec == Spec /\ Fairness

-----------------------------------------------------------------------------
(* Properties. *)

\* Type invariant.
TypeOK ==
  /\ nm \in [NM -> Object] /\ nmCache \in [NM -> Object] /\ nmFresh \in [NM -> BOOLEAN]
  /\ node \in [Node -> NodeObject] /\ nodeCache \in [Node -> NodeObject]
  /\ pods \in [Node -> SUBSET Pod] /\ unbound \subseteq Pod
  /\ events \subseteq NM /\ queue \subseteq NM /\ pc \in Steps /\ cur \in NM \cup {Nil}
  /\ obj \in Object /\ objFresh \in BOOLEAN /\ view \in NodeObject
  /\ reqs \in [NM -> Request]
  /\ admin \in [Node -> BOOLEAN] /\ edits \in 0..MaxEdits /\ faults \in 0..MaxFaults

\* Past the Scheduled state an object carries the finalizer, so that no deletion
\* escapes the clean-up (handleScheduledState adds it before it sets the reason,
\* handleFinalizerRemoval comes last).
FinalizerHeld ==
  \A x \in NM :
    Live(nm[x]) /\ nm[x].reason \notin {"Uninitialized", "Pending", "Scheduled"}
      => nm[x].finalizer

\* The drain manager holds a request, running or finished, only for an object
\* that exists and is Draining (AddRequest in handleDrainState, RemoveRequest
\* before each way out of that state).
NoStrayDrain ==
  \A x \in NM : reqs[x].state # "none" => Live(nm[x]) /\ nm[x].reason = "Draining"

\* A drain evicts pods only while its node, when the maintenance is to cordon
\* it, is cordoned (handleDrainStateDelete stops the drain before it uncordons).
DrainOnCordonedNode ==
  \A x \in NM : reqs[x].state \in {"started", "evicting"} /\ nm[x].cordon
                  => node[NodeName[x]].unsched

\* Once cordoned, a node under maintenance stays unschedulable until the
\* maintenance is deleted (HandleCordon).
CordonedWhileMaintained ==
  \A x \in NM :
    /\ Live(nm[x]) /\ ~nm[x].deleting /\ nm[x].cordon
    /\ nm[x].reason \notin {"Uninitialized", "Pending", "Scheduled", "Cordon"}
    => node[NodeName[x]].unsched

\* The reconciler has nothing left to do for an object in this state: a Pending
\* one waits for the scheduler, and a terminal one whose ready time is recorded
\* follows the RequestorFailed condition already.
Settled(o) ==
  \/ o.reason = "Pending"
  \/ /\ o.reason \in {"Ready", "RequestorFailed"} /\ o.readyTime
     /\ o.failed = (o.reason = "RequestorFailed")

\* Object x is queued, or the informer is about to have it queued.
Noticed(x) == x \in queue \cup events \/ (~nmFresh[x] /\ Enqueues(x))

\* Work is never forgotten: an object that is being deleted, or that is not
\* settled and whose node exists, is being reconciled or on its way to be.  The
\* predicate drops most updates and a reconcile often returns an empty result,
\* so what ends a reconcile must be an update that is enqueued, or nothing may be
\* left to do (Reconcile, ConditionChangedPredicate).
NoLostWork ==
  \A x \in NM :
    /\ Live(nm[x])
    /\ nm[x].deleting \/ (node[NodeName[x]].exists /\ ~Settled(nm[x]))
    => cur = x \/ Noticed(x)

\* A node without maintenance is as schedulable as its administrator last left
\* it: the clean-up has undone the cordon and nothing else (HandleUnCordon).
NodeRestored ==
  \A n \in Node :
    (\A x \in NM : NodeName[x] = n => ~Maintained(nm[x]))
      => node[n].unsched = admin[n]

\* A maintenance that cordons and drains becomes Ready only when no selected
\* pod runs on the node (handleDrainState after drain success).
DrainedWhenReady ==
  [][\A x \in NM :
       /\ nm[x].reason = "Draining" /\ nm'[x].reason = "Ready"
       /\ nm[x].cordon /\ nm[x].drain # Nil
       => pods[NodeName[x]] = {}]_vars

\* The state of the documented diagram that an object is in.
PhaseOf(o) == CASE o.life = "unborn" -> "none"
                [] o.life = "gone" -> "gone"
                [] OTHER -> o.reason

Phase == [x \in NM |-> PhaseOf(nm[x])]

Lifecycle == INSTANCE MaintenanceLifecycle WITH phase <- Phase

\* Every step of the reconciler, on whatever stale copy, is a step of the
\* documented state diagram, or none (SetReadyConditionReason).
ImplementsLifecycle == Lifecycle!LSpec

\* A deleted object is cleaned up and goes away unless additional requestors
\* hold it.
DeletionCompletes ==
  \A x \in NM : nm[x].deleting ~> (nm[x].life = "gone" \/ nm[x].requestors)

\* The node of x has disappeared, or x is on its way out: nothing more happens
\* to x but its clean-up.
Leaving(x) == nm[x].deleting \/ nm[x].life = "gone" \/ ~node[NodeName[x]].exists

\* A scheduled maintenance becomes ready unless it is deleted: every write that
\* the predicate does not enqueue is followed by a requeue.
MaintenanceProgresses ==
  \A x \in NM : nm[x].reason = "Scheduled" ~> (nm[x].reason = "Ready" \/ Leaving(x))

\* A ready maintenance gets its ready time, on which garbage collection depends.
ReadyTimeRecorded ==
  \A x \in NM : nm[x].reason = "Ready" ~> (nm[x].readyTime \/ Leaving(x))

\* A failure that the requestor reports on a ready maintenance shows as its
\* reason, whatever the reconciler was doing when it was reported.
FailureShown ==
  \A x \in NM : (nm[x].reason = "Ready" /\ nm[x].failed) ~>
                  (nm[x].reason # "Ready" \/ ~nm[x].failed \/ Leaving(x))

=============================================================================
