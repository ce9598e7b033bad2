----------------------------- MODULE WorkProofs -----------------------------
(***************************************************************************)
(* No work is lost, for every set of objects, nodes and pods, every bound  *)
(* and every lag of the informers, node removals included.                 *)
(*                                                                         *)
(* NoLostWork is about an object that no one is at work on, and a          *)
(* reconcile decides on a copy whether to leave it so.  What it decides is *)
(* right because the copy is what the cache holds, or the object is queued *)
(* again (CurrentWork); and what the cache holds of an object at rest is   *)
(* as settled as the predicate can tell, so that an update that makes it   *)
(* less so is one that the predicate lets through (StoredWork).            *)
(***************************************************************************)
EXTENDS NodeMaintenanceProofs

\* Zenon is enough for most steps; the others say what they need.
USE Zenon

\* Only an object that holds the finalizer waits for its deletion, and only one
\* that is under maintenance holds it.
DeletionOK(o) ==
  Live(o) => (o.deleting => o.finalizer) /\ (o.finalizer => IsUnderMaintenance(o))

\* A copy c of object o is of an earlier version: o was born, and it has the
\* deletion and the ready time that the copy has.
Behind(c, o) ==
  Live(c) => /\ o.life # "unborn"
             /\ Live(o) => (c.deleting => o.deleting) /\ (c.readyTime => o.readyTime)

\* A copy c with ready time t is settled.
Rests(c, t) ==
  \/ c.reason = "Pending"
  \/ /\ c.reason \in {"Ready", "RequestorFailed"} /\ t
     /\ c.failed = (c.reason = "RequestorFailed")

\* What the cached copy c says of object o when no one is at work on it, where
\* e tells whether the node exists.
QuietOK(o, c, e) ==
  /\ Live(o) /\ Live(c) => ~c.deleting
  /\ Live(o) /\ ~o.deleting /\ e /\ Live(c) /\ c.reason = o.reason => Rests(c, o.readyTime)

Waiting(x) == x \in queue \cup events

StoredWork(x) ==
  /\ DeletionOK(nm[x]) /\ DeletionOK(nmCache[x]) /\ Behind(nmCache[x], nm[x])
  /\ cur = x \/ Waiting(x) \/ QuietOK(nm[x], nmCache[x], node[NodeName[x]].exists)

\* The reconcile in progress has seen what the cache says, or will be repeated.
Same(c, o) == Live(c) /\ c.reason = o.reason /\ c.failed = o.failed /\ c.deleting = o.deleting

DeletionSteps == {"setOwner", "handle", "uncordon", "clearInitial", "removeFinalizer"}

CurrentWork ==
  /\ DeletionOK(obj) /\ Behind(obj, nm[cur])
  /\ ~view.exists => ~node[NodeName[cur]].exists
  /\ pc = "removeFinalizer" => obj.deleting \/ ~view.exists
  /\ pc \notin DeletionSteps => ~obj.deleting
  /\ Waiting(cur) \/ Same(nmCache[cur], obj)
  /\ objFresh => obj.readyTime = nm[cur].readyTime /\ obj.failed = nm[cur].failed

WorkOK ==
  /\ \A x \in NM : StoredWork(x)
  /\ \A n \in Node : node[n].exists => nodeCache[n].exists
  /\ pc # "idle" => CurrentWork
  /\ pc = "idle" => cur = Nil

\* The invariant says that no work is lost.
LEMMA WorkKept ==
  ASSUME IInv, WorkOK
  PROVE  NoLostWork
<1> SUFFICES ASSUME NEW x \in NM, Live(nm[x]),
                    nm[x].deleting \/ (node[NodeName[x]].exists /\ ~Settled(nm[x])),
                    cur # x, ~Waiting(x)
             PROVE  ~nmFresh[x] /\ Enqueues(x)
  BY DEF NoLostWork, Noticed, Waiting
<1>1. /\ nm[x] \in Object /\ nmCache[x] \in Object
      /\ nmFresh[x] => nmCache[x] = nm[x]
      /\ QuietOK(nm[x], nmCache[x], node[NodeName[x]].exists)
  BY DEF IInv, TypeOK, CacheOK, WorkOK, StoredWork
<1>2. Enqueues(x)
  <2> SUFFICES ASSUME ~Enqueues(x) PROVE FALSE
    OBVIOUS
  <2>1. /\ Live(nmCache[x]) /\ nmCache[x].reason = nm[x].reason
        /\ nmCache[x].failed = nm[x].failed /\ ~nm[x].deleting
    BY DEF Enqueues
  <2> QED
    BY <1>1, <2>1 DEF QuietOK, Rests, Settled
<1>3. ~nmFresh[x]
  BY <1>1, <1>2 DEF Enqueues, QuietOK
<1> QED
  BY <1>2, <1>3

\* A step that leaves an object and its copy alone, and the work on it going.
LEMMA StoredStays ==
  ASSUME NEW x \in NM, StoredWork(x), nm'[x] = nm[x], nmCache'[x] = nmCache[x],
         node'[NodeName[x]].exists => node[NodeName[x]].exists,
         cur = x \/ Waiting(x) => cur' = x \/ Waiting(x)'
  PROVE  StoredWork(x)'
<1>1. QuietOK(nm[x], nmCache[x], node[NodeName[x]].exists)
        => QuietOK(nm'[x], nmCache'[x], node'[NodeName[x]].exists)
  BY DEF QuietOK
<1> QED
  BY <1>1 DEF StoredWork

\* What the invariant asks of the copy o with which a reconcile goes on to call k,
\* where s is the stored object.
CopyFits(k, o, s) ==
  /\ DeletionOK(o) /\ Behind(o, s)
  /\ k = "removeFinalizer" => o.deleting \/ ~view.exists
  /\ k \notin DeletionSteps => ~o.deleting
  /\ Waiting(cur) \/ Same(nmCache[cur], o)
  /\ objFresh => o.readyTime = s.readyTime /\ o.failed = s.failed

\* A step of the reconcile, which ends only with a repetition, with an update that
\* is enqueued, or with nothing left to do.
LEMMA WorkStep ==
  ASSUME IInv, WorkOK, pc # "idle",
         NEW k \in Steps \cup {"requeue"}, NEW o \in Object, Proceed(k, o),
         UNCHANGED <<nmCache, nodeCache, events>>,
         \A y \in NM \ {cur} : nm'[y] = nm[y],
         \A n \in Node : node'[n].exists = node[n].exists,
         DeletionOK(nm'[cur]), Behind(nmCache[cur], nm'[cur]),
         k = "idle" =>
           Waiting(cur) \/ QuietOK(nm'[cur], nmCache[cur], node[NodeName[cur]].exists),
         k \notin {"idle", "requeue"} => CopyFits(k, o, nm'[cur])
  PROVE  WorkOK'
<1>1. cur \in NM /\ cur # Nil /\ NodeName[cur] \in Node /\ CurrentWork /\ StoredWork(cur)
  BY NodeNameAssumption, NilAssumption DEF IInv, CopyOK, WorkOK
<1>2. queue \subseteq queue' /\ (cur' = cur \/ cur' = Nil)
      /\ (k \notin {"idle", "requeue"} => pc' = k /\ cur' = cur /\ obj' = o /\ objFresh' = objFresh
                                          /\ view' = view /\ queue' = queue)
      /\ (k \in {"idle", "requeue"} => pc' = "idle" /\ cur' = Nil)
      /\ (k = "requeue" => cur \in queue')
  BY DEF Proceed, Done, Requeue
<1>3. \A y \in NM : Waiting(y) => Waiting(y)'
  BY <1>2 DEF Waiting
<1>4. ASSUME NEW y \in NM \ {cur} PROVE StoredWork(y)'
  <2>1. StoredWork(y) /\ NodeName[y] \in Node /\ cur # y
    BY <1>4, NodeNameAssumption DEF WorkOK
  <2> QED
    BY <1>3, <1>4, <2>1, StoredStays
<1>5. ASSUME NEW z \in NM, z = cur PROVE StoredWork(z)'
  <2>1. DeletionOK(nm'[z]) /\ DeletionOK(nmCache'[z]) /\ Behind(nmCache'[z], nm'[z])
    BY <1>1, <1>5 DEF StoredWork
  <2>2. cur' = z \/ Waiting(z)' \/ QuietOK(nm'[z], nmCache'[z], node'[NodeName[z]].exists)
    BY <1>1, <1>2, <1>3, <1>5 DEF Waiting
  <2> QED
    BY <2>1, <2>2 DEF StoredWork
<1>6. \A n \in Node : node'[n].exists => nodeCache'[n].exists
  BY DEF WorkOK
<1>7. pc' # "idle" => CurrentWork'
  BY <1>1, <1>2 DEF CurrentWork, CopyFits, Waiting
<1> QED
  BY <1>1, <1>2, <1>4, <1>5, <1>6, <1>7 DEF WorkOK

\* What may be stored: the cache stays behind it.
Storable(new) == DeletionOK(new) /\ Behind(nmCache[cur], new)

\* The facts about the reconcile in progress.
LEMMA CurrentFacts ==
  ASSUME IInv, WorkOK, pc # "idle"
  PROVE  /\ cur \in NM /\ NodeName[cur] \in Node /\ obj \in Object /\ nm[cur] \in Object
         /\ nmCache[cur] \in Object /\ view \in NodeObject
         /\ Live(obj) /\ StepOK(pc, obj, reqs[cur]) /\ CurrentWork /\ Storable(nm[cur])
         /\ objFresh => /\ Agree(obj, nm[cur]) /\ obj.readyTime = nm[cur].readyTime
                        /\ obj.failed = nm[cur].failed
BY NodeNameAssumption DEF IInv, TypeOK, CopyOK, WorkOK, CurrentWork, StoredWork, Storable

\* A step of the reconcile that writes no NodeMaintenance.
LEMMA KeepWork ==
  ASSUME IInv, WorkOK, pc # "idle", NEW k \in Steps \cup {"requeue"}, Proceed(k, obj),
         UNCHANGED <<nm, nmCache, nodeCache, events>>,
         \A n \in Node : node'[n].exists = node[n].exists,
         k = "idle" =>
           Waiting(cur) \/ QuietOK(nm[cur], nmCache[cur], node[NodeName[cur]].exists),
         k = "removeFinalizer" => obj.deleting,
         k \notin DeletionSteps \cup {"idle", "requeue"} => ~obj.deleting
  PROVE  WorkOK'
<1>1. CopyFits(k, obj, nm[cur]) \/ k \in {"idle", "requeue"}
  BY CurrentFacts DEF CurrentWork, CopyFits
<1>2. PICK o \in Object : o = obj
  BY CurrentFacts
<1>3. nm'[cur] = nm[cur] /\ Storable(nm[cur])
  BY CurrentFacts
<1> QED
  BY <1>1, <1>2, <1>3, WorkStep DEF Storable

\* An accepted write.
LEMMA AcceptedWork ==
  ASSUME IInv, WorkOK, pc # "idle", NEW new \in Object, NEW k \in Steps \cup {"requeue"},
         Accepted(new, k), Storable(new),
         k = "idle" => Waiting(cur) \/ QuietOK(new, nmCache[cur], node[NodeName[cur]].exists),
         k \notin {"idle", "requeue"} => CopyFits(k, new, new)
  PROVE  WorkOK'
<1>1. cur \in NM
  BY CurrentFacts
<1>2. /\ Proceed(k, new) /\ UNCHANGED <<nmCache, node, nodeCache, events>>
      /\ nm' = [nm EXCEPT ![cur] = new]
  BY DEF Accepted, Store
<1>3. nm'[cur] = new /\ \A y \in NM \ {cur} : nm'[y] = nm[y]
  BY <1>1, <1>2 DEF IInv, TypeOK
<1> QED
  BY <1>2, <1>3, WorkStep DEF Storable

\* A refused write, stored or not, is repeated.
LEMMA RefusedWork ==
  ASSUME IInv, WorkOK, pc # "idle", NEW new \in Object, Refused(new),
         objFresh => Storable(new)
  PROVE  WorkOK'
<1>1. cur \in NM /\ obj \in Object /\ Storable(nm[cur])
  BY CurrentFacts
<1>2. Proceed("requeue", obj) /\ UNCHANGED <<nmCache, node, nodeCache, events>>
  BY DEF Refused, Proceed
<1>3. Storable(nm'[cur]) /\ \A y \in NM \ {cur} : nm'[y] = nm[y]
  BY <1>1 DEF Refused, Fails, Store, IInv, TypeOK
<1> QED
  BY <1>1, <1>2, <1>3, WorkStep DEF Storable

\* Either.
LEMMA WriteWork ==
  ASSUME IInv, WorkOK, pc # "idle", NEW new \in Object, NEW k \in Steps \cup {"requeue"},
         Write(new, k),
         objFresh =>
           /\ Storable(new)
           /\ k = "idle" =>
                Waiting(cur) \/ QuietOK(new, nmCache[cur], node[NodeName[cur]].exists)
           /\ k \notin {"idle", "requeue"} => CopyFits(k, new, new)
  PROVE  WorkOK'
<1>1. CASE Accepted(new, k)
  BY <1>1, AcceptedWork DEF Accepted, Store
<1>2. CASE Refused(new)
  BY <1>2, RefusedWork
<1> QED
  BY <1>1, <1>2 DEF Write

\* An object with what the handlers saw in the copy.
LikeCopy(new) ==
  /\ new.life = obj.life /\ new.reason = obj.reason /\ new.failed = obj.failed
  /\ new.deleting = obj.deleting /\ (obj.finalizer => new.finalizer)
  /\ (new.finalizer => obj.finalizer \/ IsUnderMaintenance(obj))
  /\ (obj.readyTime => new.readyTime)

\* Such an object may be stored, and the reconcile may go on with it.
LEMMA LikeCopyFits ==
  ASSUME IInv, WorkOK, pc # "idle", objFresh, NEW new \in Object, LikeCopy(new), NEW k,
         k = "removeFinalizer" => obj.deleting,
         k \notin DeletionSteps => ~obj.deleting
  PROVE  Storable(new) /\ CopyFits(k, new, new)
<1>1. DeletionOK(new)
  BY CurrentFacts DEF CurrentWork, DeletionOK, LikeCopy, Live, IsUnderMaintenance
<1>2. Behind(nmCache[cur], new)
  BY CurrentFacts DEF Storable, Behind, LikeCopy, Live, Agree
<1>3. Behind(new, new)
  BY DEF Behind, Live
<1>4. Waiting(cur) \/ Same(nmCache[cur], new)
  BY CurrentFacts DEF CurrentWork, Same, LikeCopy
<1> QED
  BY <1>1, <1>2, <1>3, <1>4 DEF Storable, CopyFits, LikeCopy

\* What an update and a status update store, field by field.
LEMMA WithStatusRest ==
  ASSUME NEW o \in Object, NEW s \in Object
  PROVE  WithStatus(o, s).failed = s.failed /\ WithStatus(o, s).readyTime = o.readyTime
BY DEF WithStatus, Object

\* The clean-up of an object that holds its finalizer does not end before it is removed.
LEMMA CleanupGoesOn ==
  ASSUME NEW o \in Object, NEW v \in NodeObject, o.finalizer
  PROVE  /\ HandleFinalizerRemoval(o) = "removeFinalizer"
         /\ AfterUncordon(o) \in {"clearInitial", "removeFinalizer"}
         /\ Cleanup(o, v) \in {"uncordon", "clearInitial", "removeFinalizer"}
BY DEF HandleFinalizerRemoval, AfterUncordon, Cleanup

\* The handlers.
LEMMA HandlerWork ==
  ASSUME IInv, WorkOK, Handler
  PROVE  WorkOK'
<1>0. pc = "handle" /\ UNCHANGED <<nm, node, nmCache, nodeCache, events>>
  BY DEF Handler, HandleUninitializedState, HandlePending, HandleScheduledState,
         HandleCordonState, HandleWaitPodCompletionState, HandleDrainState,
         HandleTerminalState, Handle, apiVars, cacheVars
<1>1. /\ cur \in NM /\ obj \in Object /\ view \in NodeObject /\ nm[cur] \in Object
      /\ Live(obj) /\ CurrentWork
  BY <1>0, CurrentFacts
<1>2. obj.deleting => obj.finalizer /\ IsUnderMaintenance(obj)
  BY <1>1 DEF CurrentWork, DeletionOK
<1>3. obj.deleting => /\ HandleFinalizerRemoval(obj) \in DeletionSteps
                      /\ Cleanup(obj, view) \in DeletionSteps
  BY <1>1, <1>2, CleanupGoesOn DEF DeletionSteps
<1>4. ASSUME NEW k \in DeletionSteps, Proceed(k, obj), obj.deleting
      PROVE  WorkOK'
  BY <1>0, <1>4, KeepWork DEF DeletionSteps, Steps
<1>5. ASSUME NEW k \in Steps \ {"idle"}, Proceed(k, obj), ~obj.deleting, k # "removeFinalizer"
      PROVE  WorkOK'
  BY <1>0, <1>5, KeepWork
<1>6. CASE Requeue
  <2>1. Proceed("requeue", obj)
    BY <1>6 DEF Proceed
  <2> QED
    BY <1>0, <2>1, KeepWork
<1>7. ASSUME Proceed("idle", obj), ~obj.deleting, Rests(obj, obj.readyTime)
      PROVE  WorkOK'
  <2>1. Waiting(cur) \/ Same(nmCache[cur], obj)
    BY <1>1 DEF CurrentWork
  <2>2. Live(nm[cur]) /\ obj.readyTime => nm[cur].readyTime
    BY <1>1 DEF CurrentWork, Behind
  <2>3. Waiting(cur) \/ QuietOK(nm[cur], nmCache[cur], node[NodeName[cur]].exists)
    BY <1>7, <2>1, <2>2 DEF Same, QuietOK, Rests
  <2> QED
    BY <1>0, <1>7, <2>3, KeepWork DEF Steps
<1>8. CASE HandleUninitializedState
  <2>1. obj.reason = "Uninitialized" /\ Proceed("setReason", obj)
    BY <1>8 DEF HandleUninitializedState, Handle
  <2> QED
    BY <1>2, <1>5, <2>1 DEF Steps, IsUnderMaintenance
<1>9. CASE HandlePending
  <2>1. obj.reason = "Pending" /\ Proceed("idle", obj)
    BY <1>9 DEF HandlePending, Handle, Proceed
  <2> QED
    BY <1>2, <1>7, <2>1 DEF Rests, IsUnderMaintenance
<1>10. CASE HandleScheduledState
  BY <1>3, <1>4, <1>5, <1>10 DEF HandleScheduledState, Steps
<1>11. CASE HandleCordonState
  BY <1>3, <1>4, <1>5, <1>11 DEF HandleCordonState, AfterRecordInitial, Steps
<1>12. CASE HandleWaitPodCompletionState
  BY <1>3, <1>4, <1>5, <1>12 DEF HandleWaitPodCompletionState, Steps
<1>13. CASE HandleDrainState
  BY <1>3, <1>4, <1>5, <1>6, <1>13 DEF HandleDrainState, Steps
<1>14. CASE HandleTerminalState
  <2>1. obj.reason \in {"Ready", "RequestorFailed"}
    BY <1>14 DEF HandleTerminalState, Handle
  <2>2. CASE ~obj.deleting /\ obj.readyTime /\ Proceed(AfterMarkReady(obj), obj)
    BY <1>5, <1>7, <2>1, <2>2 DEF AfterMarkReady, Rests, Steps
  <2>3. CASE ~obj.deleting /\ Proceed("markReady", obj)
    BY <1>5, <2>3 DEF Steps
  <2> QED
    BY <1>3, <1>4, <1>6, <1>14, <2>2, <2>3 DEF HandleTerminalState
<1> QED
  BY <1>8, <1>9, <1>10, <1>11, <1>12, <1>13, <1>14 DEF Handler

\* An update or a status update that keeps what the handlers saw.
LEMMA PlainWork ==
  ASSUME IInv, WorkOK, pc # "idle", NEW o \in Object, LikeCopy(o),
         NEW k \in Steps \cup {"requeue"}, Update(o, k) \/ StatusUpdate(o, k), k # "idle",
         k = "removeFinalizer" => obj.deleting,
         k \notin DeletionSteps => k = "requeue" \/ ~obj.deleting
  PROVE  WorkOK'
<1>1. nm[cur] \in Object
  BY CurrentFacts
<1>2. PICK new \in Object : /\ Write(new, k)
                            /\ new = WithStatus(o, nm[cur]) \/ new = WithStatus(nm[cur], o)
  BY <1>1, WithStatusType DEF Update, StatusUpdate
<1>3. objFresh => LikeCopy(new)
  <2>1. objFresh => /\ Agree(obj, nm[cur]) /\ obj.readyTime = nm[cur].readyTime
                    /\ obj.failed = nm[cur].failed
    BY CurrentFacts
  <2>2. CASE new = WithStatus(o, nm[cur])
    <3>1. /\ new.life = o.life /\ new.reason = nm[cur].reason /\ new.deleting = o.deleting
          /\ new.finalizer = o.finalizer /\ new.failed = nm[cur].failed
          /\ new.readyTime = o.readyTime
      BY <1>1, <2>2, WithStatusType, WithStatusRest, ZenonT(30)
    <3> QED
      BY <2>1, <3>1 DEF LikeCopy, Agree
  <2>3. CASE new = WithStatus(nm[cur], o)
    <3>1. /\ new.life = nm[cur].life /\ new.reason = o.reason /\ new.deleting = nm[cur].deleting
          /\ new.finalizer = nm[cur].finalizer /\ new.failed = o.failed
          /\ new.readyTime = nm[cur].readyTime
      BY <1>1, <2>3, WithStatusType, WithStatusRest
    <3> QED
      BY <2>1, <3>1 DEF LikeCopy, Agree
  <2> QED
    BY <1>2, <2>2, <2>3
<1>4. objFresh => Storable(new) /\ (k # "requeue" => CopyFits(k, new, new))
  <2> SUFFICES ASSUME objFresh PROVE Storable(new) /\ (k # "requeue" => CopyFits(k, new, new))
    OBVIOUS
  <2>1. Storable(new)
    BY <1>3, LikeCopyFits DEF DeletionSteps
  <2>2. k # "requeue" => CopyFits(k, new, new)
    BY <1>3, LikeCopyFits
  <2> QED
    BY <2>1, <2>2
<1> QED
  BY <1>2, <1>4, WriteWork

\* A change of one field of the copy that the handlers do not decide on.
LEMMA CopyChange ==
  ASSUME obj \in Object, NEW o,
         \/ o = obj
         \/ o = [obj EXCEPT !.owner = TRUE]
         \/ o = [obj EXCEPT !.finalizer = TRUE] /\ IsUnderMaintenance(obj)
         \/ o = [obj EXCEPT !.readyTime = TRUE]
         \/ o = [obj EXCEPT !.drainStatus = TRUE] \/ o = [obj EXCEPT !.drainStatus = FALSE]
         \/ \E i \in {"none", "true", "false"} : o = [obj EXCEPT !.initial = i]
         \/ \E w \in {"none", "set"} : o = [obj EXCEPT !.waitStart = w]
  PROVE  o \in Object /\ LikeCopy(o)
<1>1. CASE o = obj
  BY <1>1 DEF LikeCopy
<1>2. CASE o = [obj EXCEPT !.owner = TRUE]
  BY <1>2 DEF LikeCopy, Object
<1>3. CASE o = [obj EXCEPT !.finalizer = TRUE] /\ IsUnderMaintenance(obj)
  <2>1. o \in Object
    BY <1>3 DEF Object
  <2> QED
    BY <1>3, <2>1 DEF LikeCopy, Object
<1>4. CASE o = [obj EXCEPT !.readyTime = TRUE]
  BY <1>4 DEF LikeCopy, Object
<1>5. CASE o = [obj EXCEPT !.drainStatus = TRUE] \/ o = [obj EXCEPT !.drainStatus = FALSE]
  BY <1>5, ZenonT(30) DEF LikeCopy, Object
<1>6. ASSUME NEW i \in {"none", "true", "false"}, o = [obj EXCEPT !.initial = i]
      PROVE  o \in Object /\ LikeCopy(o)
  BY <1>6 DEF LikeCopy, Object
<1>7. ASSUME NEW w \in {"none", "set"}, o = [obj EXCEPT !.waitStart = w]
      PROVE  o \in Object /\ LikeCopy(o)
  BY <1>7 DEF LikeCopy, Object
<1> QED
  BY <1>1, <1>2, <1>3, <1>4, <1>5, <1>6, <1>7

\* The owner reference.
LEMMA SetOwnerRefWork ==
  ASSUME IInv, WorkOK, SetOwnerRef
  PROVE  WorkOK'
<1>1. PICK o, new : o = [obj EXCEPT !.owner = TRUE] /\ new = WithStatus(o, nm[cur])
  OBVIOUS
<1>2. /\ pc = "setOwner" /\ cur \in NM /\ obj \in Object /\ nm[cur] \in Object /\ CurrentWork
      /\ NodeName[cur] \in Node /\ Storable(nm[cur])
      /\ (objFresh => /\ Agree(obj, nm[cur]) /\ obj.readyTime = nm[cur].readyTime
                      /\ obj.failed = nm[cur].failed)
  BY CurrentFacts DEF SetOwnerRef
<1>3. o \in Object /\ LikeCopy(o) /\ o.readyTime = obj.readyTime
      /\ o.finalizer = obj.finalizer
  BY <1>1, <1>2, CopyChange DEF Object
<1>4. new \in Object /\ (objFresh => LikeCopy(new))
  <2>1. /\ new.life = o.life /\ new.reason = nm[cur].reason /\ new.deleting = o.deleting
        /\ new.finalizer = o.finalizer /\ new.failed = nm[cur].failed
        /\ new.readyTime = o.readyTime /\ new \in Object
    BY <1>1, <1>2, <1>3, WithStatusType, WithStatusRest, ZenonT(30)
  <2> QED
    BY <1>2, <1>3, <2>1 DEF LikeCopy, Agree
<1>5. objFresh => Storable(new) /\ CopyFits("handle", new, new)
  BY <1>2, <1>4, LikeCopyFits DEF DeletionSteps
<1>6. CASE Accepted(new, "handle")
  <2>1. objFresh
    BY <1>6 DEF Accepted, Store
  <2> QED
    BY <1>2, <1>4, <1>5, <1>6, <2>1, AcceptedWork DEF Steps
<1>7. CASE /\ Fails(new)
           /\ pc' = "handle" /\ obj' = o /\ objFresh' = (objFresh /\ nm' = nm)
           /\ UNCHANGED <<cur, view, queue>>
           /\ UNCHANGED <<nmCache, node, nodeCache, events, podVars, admin, edits>>
  <2>1. nm' = nm \/ (objFresh /\ nm' = [nm EXCEPT ![cur] = new])
    BY <1>7 DEF Fails, Store
  <2>2. /\ Storable(nm'[cur]) /\ \A y \in NM \ {cur} : nm'[y] = nm[y]
        /\ nm'[cur] = nm[cur] \/ (objFresh /\ nm'[cur] = new)
    BY <1>2, <1>5, <2>1 DEF IInv, TypeOK
  <2>3. \A y \in NM : Waiting(y)' = Waiting(y)
    BY <1>7 DEF Waiting
  <2>4. ASSUME NEW y \in NM PROVE StoredWork(y)'
    <3>1. CASE y # cur
      BY <1>7, <2>2, <2>3, <2>4, <3>1, StoredStays DEF WorkOK
    <3>2. CASE y = cur
      <4>1. DeletionOK(nmCache[y])
        BY DEF WorkOK, StoredWork
      <4> QED
        BY <1>7, <2>2, <3>2, <4>1 DEF StoredWork, Storable
    <3> QED
      BY <3>1, <3>2
  <2>5. CurrentWork'
    <3>1. DeletionOK(o) /\ (Waiting(cur) \/ Same(nmCache[cur], o))
      BY <1>2, <1>3 DEF CurrentWork, DeletionOK, LikeCopy, Live, IsUnderMaintenance, Same
    <3>2. Behind(o, nm[cur])
      BY <1>2, <1>3 DEF CurrentWork, Behind, LikeCopy, Live
    <3>3. objFresh => Behind(o, new)
      BY <1>2, <1>3, <1>4 DEF CurrentWork, Behind, LikeCopy, Live
    <3>4. objFresh' => o.readyTime = nm'[cur].readyTime /\ o.failed = nm'[cur].failed
      BY <1>2, <1>3, <1>7 DEF LikeCopy
    <3> QED
      BY <1>2, <1>7, <2>2, <2>3, <3>1, <3>2, <3>3, <3>4 DEF CurrentWork, DeletionSteps
  <2> QED
    BY <1>2, <1>7, <2>4, <2>5 DEF WorkOK
<1> QED
  BY <1>1, <1>6, <1>7 DEF SetOwnerRef

\* The calls that end a reconcile, or may.
LEMMA LastCallWork ==
  ASSUME IInv, WorkOK, SetReadyConditionReason \/ RemoveFinalizer \/ MarkReady
  PROVE  WorkOK'
<1>0. pc \in {"setReason", "removeFinalizer", "markReady"} /\ pc # "idle"
  BY DEF SetReadyConditionReason, RemoveFinalizer, MarkReady
<1>1. /\ cur \in NM /\ obj \in Object /\ nm[cur] \in Object /\ nmCache[cur] \in Object
      /\ Live(obj) /\ StepOK(pc, obj, reqs[cur]) /\ CurrentWork /\ Storable(nm[cur])
      /\ (objFresh => /\ Agree(obj, nm[cur]) /\ obj.readyTime = nm[cur].readyTime
                      /\ obj.failed = nm[cur].failed)
      /\ Waiting(cur) \/ Same(nmCache[cur], obj)
  BY <1>0, CurrentFacts DEF CurrentWork
<1>2. CASE SetReadyConditionReason
  <2>1. PICK o, new : /\ o = [obj EXCEPT !.reason = NextReason(obj)]
                      /\ new = WithStatus(nm[cur], o)
    OBVIOUS
  <2>2. o \in Object /\ o.reason = NextReason(obj)
    BY <1>1, <2>1, NextReasonType DEF Object
  <2>3. /\ new \in Object /\ new.life = nm[cur].life /\ new.reason = NextReason(obj)
        /\ new.deleting = nm[cur].deleting /\ new.finalizer = nm[cur].finalizer
        /\ new.readyTime = nm[cur].readyTime
    BY <1>1, <2>1, <2>2, WithStatusType, WithStatusRest, ZenonT(30)
  <2>4. pc = "setReason" /\ Write(new, "idle")
    BY <1>2, <2>1 DEF SetReadyConditionReason, StatusUpdate
  <2>5. ~obj.deleting /\ obj.reason # "Pending" /\ obj.reason \in Reason
    BY <1>1, <2>4 DEF CurrentWork, DeletionSteps, StepOK, Object
  <2>6. NextReason(obj) # obj.reason
    BY <2>5 DEF NextReason, Reason
  <2>7. objFresh => Storable(new)
    <3>1. obj.finalizer => IsUnderMaintenance(obj)
      BY <1>1 DEF CurrentWork, DeletionOK
    <3>2. IsUnderMaintenance(obj) => IsUnderMaintenance(new)
      BY <2>3, <2>5 DEF NextReason, Reason, IsUnderMaintenance
    <3> QED
      BY <1>1, <2>3, <2>5, <3>1, <3>2 DEF Storable, DeletionOK, Behind, Agree, Live
  <2>8. Waiting(cur) \/ QuietOK(new, nmCache[cur], node[NodeName[cur]].exists)
    BY <1>1, <2>3, <2>5, <2>6 DEF Same, QuietOK
  <2> QED
    BY <1>0, <2>3, <2>4, <2>7, <2>8, WriteWork DEF Steps
<1>3. CASE RemoveFinalizer
  <2>1. PICK o, new : /\ o = [obj EXCEPT !.finalizer = FALSE]
                      /\ new = IF nm[cur].deleting THEN Gone ELSE WithStatus(o, nm[cur])
    OBVIOUS
  <2>2. /\ o \in Object /\ o.life = obj.life /\ o.deleting = obj.deleting
        /\ o.readyTime = obj.readyTime /\ ~o.finalizer
    BY <1>1, <2>1, ZenonT(30) DEF Object
  <2>3. pc = "removeFinalizer" /\ Write(new, "idle")
    BY <1>3, <2>1 DEF RemoveFinalizer
  <2>4. new \in Object
    BY <1>1, <2>1, <2>2, WithStatusType, ConstantTypes
  <2>5. CASE nm[cur].deleting
    <3>1. new = Gone /\ ~Live(new) /\ new.life = "gone"
      BY <2>1, <2>5, ConstantTypes DEF Gone, Unborn
    <3>2. Storable(new) /\ QuietOK(new, nmCache[cur], node[NodeName[cur]].exists)
      BY <3>1 DEF Storable, DeletionOK, Behind, QuietOK
    <3> QED
      BY <1>0, <2>3, <2>4, <3>2, WriteWork DEF Steps
  <2>6. CASE ~nm[cur].deleting
    <3>1. /\ new.life = o.life /\ new.deleting = o.deleting /\ new.readyTime = o.readyTime
          /\ new.finalizer = o.finalizer
      BY <1>1, <2>1, <2>2, <2>6, WithStatusType, WithStatusRest, ZenonT(30)
    <3>2. objFresh => ~obj.deleting /\ ~new.deleting
      BY <1>1, <2>2, <2>6, <3>1 DEF Agree
    <3>3. objFresh => Storable(new)
      BY <1>1, <2>2, <2>6, <3>1, <3>2 DEF Storable, DeletionOK, Behind, Agree, Live
    <3>4. objFresh => ~node[NodeName[cur]].exists
      BY <1>1, <2>3, <3>2 DEF CurrentWork
    <3>5. objFresh =>
            Waiting(cur) \/ QuietOK(new, nmCache[cur], node[NodeName[cur]].exists)
      BY <1>1, <3>2, <3>4 DEF Same, QuietOK
    <3> QED
      BY <1>0, <2>3, <2>4, <3>3, <3>5, WriteWork DEF Steps
  <2> QED
    BY <2>5, <2>6
<1>4. CASE MarkReady
  <2>1. PICK o, new : o = [obj EXCEPT !.readyTime = TRUE] /\ new = WithStatus(o, nm[cur])
    OBVIOUS
  <2>2. o \in Object /\ LikeCopy(o) /\ o.readyTime = TRUE
    BY <1>1, <2>1, CopyChange DEF Object
  <2>3. pc = "markReady" /\ Update(o, AfterMarkReady(o)) /\ Write(new, AfterMarkReady(o))
    BY <1>4, <2>1 DEF MarkReady, Update
  <2>4. ~obj.deleting /\ obj.reason \in {"Ready", "RequestorFailed"}
    BY <1>1, <2>3 DEF CurrentWork, DeletionSteps, StepOK
  <2>5. CASE AfterMarkReady(o) = "setReason"
    BY <1>0, <2>2, <2>3, <2>4, <2>5, PlainWork DEF Steps
  <2>6. CASE o.failed = (o.reason = "RequestorFailed") /\ AfterMarkReady(o) = "idle"
    <3>1. /\ new \in Object /\ new.life = o.life /\ new.reason = nm[cur].reason
          /\ new.deleting = o.deleting /\ new.finalizer = o.finalizer
          /\ new.failed = nm[cur].failed /\ new.readyTime = o.readyTime
      <4>1. o \in Object /\ nm[cur] \in Object /\ new = WithStatus(o, nm[cur])
        BY <1>1, <2>1, <2>2
      <4> QED
        BY <4>1, WithStatusType, WithStatusRest
    <3>2. objFresh => LikeCopy(new)
      <4>1. objFresh => obj.reason = nm[cur].reason /\ obj.failed = nm[cur].failed
        BY <1>1 DEF Agree, CurrentWork
      <4> QED
        BY <2>2, <3>1, <4>1 DEF LikeCopy
    <3>3. objFresh => Storable(new)
      BY <1>0, <2>4, <3>1, <3>2, LikeCopyFits
    <3>4. Rests(obj, TRUE)
      BY <2>2, <2>4, <2>6 DEF Rests, LikeCopy
    <3>5. Waiting(cur) \/ QuietOK(new, nmCache[cur], node[NodeName[cur]].exists)
      BY <1>1, <2>2, <2>4, <3>1, <3>4 DEF Same, QuietOK, Rests
    <3> QED
      BY <1>0, <2>3, <2>6, <3>1, <3>3, <3>5, WriteWork DEF Steps
  <2> QED
    BY <2>5, <2>6 DEF AfterMarkReady
<1> QED
  BY <1>2, <1>3, <1>4

\* The calls of a reconcile.
LEMMA CallWork ==
  ASSUME IInv, WorkOK, Call
  PROVE  WorkOK'
<1>0. pc # "idle"
  BY
     DEF Call, SetOwnerRef, AddFinalizer, SetReadyConditionReason, RecordInitialState, CordonNode,
         UncordonNode, ClearInitialState, RemoveFinalizer, MarkWaitStart, ResetWaitStart,
         WaitForPods, PodsCompleted, PodCompletionTimeout, StartDrain, ReportDrain, ReportDrained,
         ClearDrainStatus, MarkReady
<1>1. /\ cur \in NM /\ NodeName[cur] \in Node /\ obj \in Object /\ view \in NodeObject
      /\ nm[cur] \in Object /\ Live(obj) /\ StepOK(pc, obj, reqs[cur]) /\ CurrentWork
  BY <1>0, CurrentFacts
<1>2. (obj.deleting => obj.finalizer) /\ (pc \notin DeletionSteps => ~obj.deleting)
  BY <1>1 DEF CurrentWork, DeletionOK
<1>3. CASE \/ AddFinalizer \/ RecordInitialState \/ MarkWaitStart \/ ResetWaitStart
           \/ WaitForPods \/ PodsCompleted \/ ReportDrain \/ ClearDrainStatus
  <2>1. PICK o, k : /\ \/ o = obj
                       \/ o = [obj EXCEPT !.finalizer = TRUE] /\ IsUnderMaintenance(obj)
                       \/ o = [obj EXCEPT !.drainStatus = TRUE]
                       \/ o = [obj EXCEPT !.drainStatus = FALSE]
                       \/ \E i \in {"none", "true", "false"} : o = [obj EXCEPT !.initial = i]
                       \/ \E w \in {"none", "set"} : o = [obj EXCEPT !.waitStart = w]
                    /\ k \in {"setReason", "cordon", "listPods", "requeue"}
                    /\ Update(o, k) \/ StatusUpdate(o, k)
                    /\ pc \notin DeletionSteps
    <3>1. pc = "addFinalizer" => IsUnderMaintenance(obj)
      BY <1>1 DEF StepOK, IsUnderMaintenance
    <3> QED
      BY <1>3, <3>1 DEF AddFinalizer, RecordInitialState, AfterRecordInitial, MarkWaitStart,
                        ResetWaitStart, WaitForPods, PodsCompleted, ReportDrain,
                        ClearDrainStatus, DeletionSteps
  <2>2. o \in Object /\ LikeCopy(o)
    BY <1>1, <2>1, CopyChange
  <2> QED
    BY <1>0, <1>2, <2>1, <2>2, PlainWork DEF Steps
<1>4. CASE ClearInitialState
  <2>1. PICK o : o = [obj EXCEPT !.initial = "none"]
    OBVIOUS
  <2>2. o \in Object /\ LikeCopy(o)
    BY <1>1, <2>1, CopyChange
  <2>3. pc = "clearInitial" /\ Update(o, HandleFinalizerRemoval(o)) /\ obj.deleting
    BY <1>1, <1>4, <2>1 DEF ClearInitialState, StepOK
  <2>4. HandleFinalizerRemoval(o) = "removeFinalizer"
    BY <1>2, <2>2, <2>3 DEF HandleFinalizerRemoval, LikeCopy
  <2> QED
    BY <1>0, <2>2, <2>3, <2>4, PlainWork DEF Steps, DeletionSteps
<1>5. ASSUME NEW u \in BOOLEAN, NEW k \in Steps \ {"idle"}, PatchNode(u, k),
             k = "removeFinalizer" => obj.deleting, k \notin DeletionSteps => ~obj.deleting
      PROVE  WorkOK'
  <2>1. UNCHANGED <<nm, nmCache, nodeCache, events>>
    BY <1>5 DEF PatchNode, cacheVars
  <2>2. PICK j \in {k, "requeue"} : Proceed(j, obj)
    BY <1>5 DEF PatchNode, Proceed
  <2>3. \A n \in Node : node'[n].exists = node[n].exists
    <3>1. node' = node \/ node' = [node EXCEPT ![NodeName[cur]].unsched = u]
      BY <1>5 DEF PatchNode
    <3>2. \A n \in Node : [node EXCEPT ![NodeName[cur]].unsched = u][n].exists = node[n].exists
      BY <1>1 DEF IInv, TypeOK, NodeObject
    <3> QED
      BY <3>1, <3>2
  <2> QED
    BY <1>0, <1>5, <2>1, <2>2, <2>3, KeepWork
<1>6. CASE CordonNode
  <2>1. PatchNode(TRUE, "setReason") /\ ~obj.deleting
    BY <1>2, <1>6 DEF CordonNode, DeletionSteps
  <2> QED
    BY <1>5, <2>1 DEF Steps
<1>7. CASE UncordonNode
  <2>1. PatchNode(FALSE, AfterUncordon(obj)) /\ obj.deleting
    BY <1>1, <1>7 DEF UncordonNode, StepOK
  <2>2. AfterUncordon(obj) \in {"clearInitial", "removeFinalizer"}
    BY <1>1, <1>2, <2>1, CleanupGoesOn
  <2> QED
    BY <1>5, <2>1, <2>2 DEF Steps, DeletionSteps
<1>8. CASE PodCompletionTimeout
  <2>1. /\ Proceed("setReason", obj) /\ ~obj.deleting
        /\ UNCHANGED <<nm, node, nmCache, nodeCache, events>>
    BY <1>2, <1>8 DEF PodCompletionTimeout, DeletionSteps, apiVars, cacheVars
  <2> QED
    BY <1>0, <2>1, KeepWork DEF Steps
<1>9. CASE StartDrain \/ ReportDrained
  <2>1. PICK o, new : o = [obj EXCEPT !.drainStatus = TRUE] /\ new = WithStatus(nm[cur], o)
    OBVIOUS
  <2>2. o \in Object /\ LikeCopy(o)
    BY <1>1, <2>1, CopyChange
  <2>3. new \in Object /\ (objFresh => LikeCopy(new))
    <3>1. /\ new.life = nm[cur].life /\ new.reason = o.reason /\ new.deleting = nm[cur].deleting
          /\ new.finalizer = nm[cur].finalizer /\ new.failed = o.failed
          /\ new.readyTime = nm[cur].readyTime /\ new \in Object
      BY <1>1, <2>1, <2>2, WithStatusType, WithStatusRest, ZenonT(30)
    <3>2. objFresh => /\ Agree(obj, nm[cur]) /\ obj.readyTime = nm[cur].readyTime
                      /\ obj.failed = nm[cur].failed
      BY <1>0, CurrentFacts
    <3> QED
      BY <2>2, <3>1, <3>2 DEF LikeCopy, Agree
  <2>4. PICK k \in {"requeue", "setReason"} : Accepted(new, k) \/ Refused(new)
    BY <1>9, <2>1 DEF StartDrain, ReportDrained
  <2>5. ~obj.deleting
    BY <1>2, <1>9 DEF StartDrain, ReportDrained, DeletionSteps
  <2>6. objFresh => Storable(new) /\ CopyFits(k, new, new)
    BY <1>0, <2>3, <2>4, <2>5, LikeCopyFits
  <2>7. CASE Accepted(new, k)
    <3>1. objFresh
      BY <2>7 DEF Accepted, Store
    <3> QED
      BY <1>0, <2>3, <2>4, <2>6, <2>7, <3>1, AcceptedWork DEF Steps
  <2> QED
    BY <1>0, <2>3, <2>4, <2>6, <2>7, RefusedWork
<1> QED
  BY <1>3, <1>4, <1>6, <1>7, <1>8, <1>9, SetOwnerRefWork, LastCallWork DEF Call

\* The dispatch of a reconcile: what it drops has nothing left to do.
LEMMA ReconcileWork ==
  ASSUME IInv, WorkOK, NEW x \in NM, Reconcile(x)
  PROVE  WorkOK'
<1> DEFINE o == nmCache[x]
           v == nodeCache[NodeName[x]]
<1>1. /\ pc = "idle" /\ cur = Nil /\ x # Nil /\ x \in queue /\ queue' = queue \ {x}
      /\ UNCHANGED <<nm, node, nmCache, nmFresh, nodeCache, events>>
  BY NilAssumption DEF Reconcile, apiVars, cacheVars, WorkOK
<1>2. /\ NodeName[x] \in Node /\ StoredWork(x) /\ (node[NodeName[x]].exists => v.exists)
      /\ (nmFresh[x] => o = nm[x])
  BY NodeNameAssumption DEF WorkOK, IInv, CacheOK
<1>3. cur' = Nil \/ cur' = x
  BY <1>1 DEF Reconcile, procVars
<1>4. ASSUME NEW y \in NM, y # x PROVE StoredWork(y)'
  <2>1. cur = y \/ Waiting(y) => cur' = y \/ Waiting(y)'
    BY <1>1, <1>4, NilAssumption DEF Waiting
  <2>2. StoredWork(y)
    BY DEF WorkOK
  <2> QED
    BY <1>1, <2>1, <2>2, StoredStays
<1>5. \A n \in Node : node'[n].exists => nodeCache'[n].exists
  BY <1>1 DEF WorkOK
<1>6. CASE (~Live(o) \/ (~v.exists /\ ~o.finalizer)) /\ UNCHANGED procVars
  <2>1. QuietOK(nm[x], o, node[NodeName[x]].exists)
    BY <1>2, <1>6 DEF StoredWork, DeletionOK, QuietOK
  <2>2. StoredWork(x)'
    BY <1>1, <1>2, <2>1 DEF StoredWork
  <2> QED
    BY <1>1, <1>4, <1>5, <1>6, <2>2 DEF WorkOK, procVars
<1>7. CASE /\ Live(o) /\ cur' = x /\ obj' = o /\ objFresh' = nmFresh[x] /\ view' = v
           /\ pc' \in {"setOwner", "handle", "removeFinalizer"}
           /\ pc' = "removeFinalizer" => ~v.exists
  <2>1. StoredWork(x)'
    BY <1>1, <1>2, <1>7 DEF StoredWork
  <2>2. CurrentWork'
    <3>1. DeletionOK(o) /\ Behind(o, nm[x]) /\ Same(o, o)
      BY <1>2, <1>7 DEF StoredWork, Same
    <3> QED
      BY <1>1, <1>2, <1>7, <3>1 DEF CurrentWork, DeletionSteps
  <2> QED
    BY <1>4, <1>5, <1>7, <2>1, <2>2 DEF WorkOK
<1> QED
  BY <1>6, <1>7 DEF Reconcile

\* An informer that catches up hands on every update that leaves work to do.
LEMMA SyncWork ==
  ASSUME IInv, WorkOK, SyncNodeMaintenances
  PROVE  WorkOK'
<1>1. /\ nmCache' = nm
      /\ events' = events \cup {x \in NM : ~nmFresh[x] /\ Enqueues(x)}
      /\ UNCHANGED <<nm, node, nodeCache, queue, pc, cur, obj, objFresh, view>>
  BY DEF SyncNodeMaintenances, apiVars, procVars
<1>2. ASSUME NEW x \in NM
      PROVE  /\ nm[x] \in Object /\ nmCache[x] \in Object /\ StoredWork(x)
             /\ Waiting(x) => Waiting(x)'
             /\ \/ Waiting(x)'
                \/ nmCache[x] = nm[x]
                \/ /\ Live(nmCache[x]) <=> Live(nm[x])
                   /\ Live(nm[x]) => /\ nmCache[x].reason = nm[x].reason
                                     /\ nmCache[x].failed = nm[x].failed /\ ~nm[x].deleting
  <2>1. nm[x] \in Object /\ nmCache[x] \in Object /\ StoredWork(x)
        /\ (nmFresh[x] => nmCache[x] = nm[x])
    BY DEF IInv, TypeOK, CacheOK, WorkOK
  <2>2. (Waiting(x) => Waiting(x)') /\ (~nmFresh[x] /\ Enqueues(x) => Waiting(x)')
    BY <1>1 DEF Waiting
  <2>3. \/ Enqueues(x)
        \/ /\ Live(nmCache[x]) <=> Live(nm[x])
           /\ Live(nm[x]) => /\ nmCache[x].reason = nm[x].reason
                             /\ nmCache[x].failed = nm[x].failed /\ ~nm[x].deleting
    BY DEF Enqueues, Live
  <2> QED
    BY <2>1, <2>2, <2>3
<1>3. ASSUME NEW x \in NM PROVE StoredWork(x)'
  <2>1. DeletionOK(nm[x]) /\ Behind(nm[x], nm[x])
    BY <1>2 DEF StoredWork, Behind, Live
  <2>2. cur = x \/ Waiting(x)' \/ QuietOK(nm[x], nm[x], node[NodeName[x]].exists)
    <3> SUFFICES ASSUME cur # x, ~Waiting(x)'
                 PROVE  QuietOK(nm[x], nm[x], node[NodeName[x]].exists)
      OBVIOUS
    <3>1. QuietOK(nm[x], nmCache[x], node[NodeName[x]].exists)
      BY <1>2 DEF StoredWork
    <3> QED
      BY <1>2, <3>1 DEF QuietOK, Rests
  <2> QED
    BY <1>1, <2>1, <2>2 DEF StoredWork
<1>4. pc # "idle" => CurrentWork'
  <2> SUFFICES ASSUME pc # "idle" PROVE CurrentWork'
    OBVIOUS
  <2>1. cur \in NM /\ CurrentWork
    BY CurrentFacts
  <2>2. Waiting(cur)' \/ Same(nm[cur], obj)
    <3> SUFFICES ASSUME ~Waiting(cur)' PROVE Same(nm[cur], obj)
      OBVIOUS
    <3>1. PICK z \in NM : z = cur
      BY <2>1
    <3>2. ~Waiting(z)' /\ Same(nmCache[z], obj)
      BY <1>1, <1>2, <2>1, <3>1 DEF CurrentWork, Waiting
    <3>3. Behind(nmCache[z], nm[z])
      BY <1>2 DEF StoredWork
    <3>4. /\ nm[z].deleting \in BOOLEAN /\ nmCache[z].deleting \in BOOLEAN
          /\ \/ nmCache[z] = nm[z]
             \/ /\ Live(nmCache[z]) <=> Live(nm[z])
                /\ Live(nm[z]) => /\ nmCache[z].reason = nm[z].reason
                                  /\ nmCache[z].failed = nm[z].failed /\ ~nm[z].deleting
      BY <1>2, <3>2 DEF Object
    <3>5. Same(nm[z], obj)
      BY <3>2, <3>3, <3>4 DEF Same, Behind
    <3> QED
      BY <3>1, <3>5
  <2> QED
    BY <1>1, <2>1, <2>2 DEF CurrentWork, Waiting
<1> QED
  BY <1>1, <1>3, <1>4 DEF WorkOK

\* A step that leaves the objects, their cache and the reconcile alone.
LEMMA BackgroundWork ==
  ASSUME IInv, WorkOK, UNCHANGED <<nm, nmCache, procVars>>,
         queue \cup events \subseteq queue' \cup events',
         \A n \in Node : node'[n].exists => node[n].exists /\ nodeCache'[n].exists
  PROVE  WorkOK'
<1>1. UNCHANGED <<nm, nmCache, pc, cur, obj, objFresh, view>>
  BY DEF procVars
<1>2. \A x \in NM : NodeName[x] \in Node /\ (Waiting(x) => Waiting(x)')
  BY NodeNameAssumption DEF Waiting
<1>3. ASSUME NEW x \in NM PROVE StoredWork(x)'
  BY <1>1, <1>2, StoredStays DEF WorkOK
<1>4. pc # "idle" => CurrentWork'
  <2> SUFFICES ASSUME pc # "idle" PROVE CurrentWork'
    OBVIOUS
  <2>1. cur \in NM /\ CurrentWork
    BY CurrentFacts
  <2>2. Waiting(cur) => Waiting(cur)'
    BY <1>1 DEF Waiting
  <2> QED
    BY <1>1, <1>2, <2>1, <2>2 DEF CurrentWork
<1> QED
  BY <1>1, <1>3, <1>4 DEF WorkOK

\* A write by someone else, of an object of which every copy stays behind.
LEMMA OtherWriteWork ==
  ASSUME IInv, WorkOK, NEW x \in NM, NEW new \in Object, OtherWrite(x, new), DeletionOK(new),
         \A c \in Object : Behind(c, nm[x]) => Behind(c, new),
         QuietOK(nm[x], nmCache[x], node[NodeName[x]].exists)
           => QuietOK(new, nmCache[x], node[NodeName[x]].exists)
  PROVE  WorkOK'
<1>1. /\ nm' = [nm EXCEPT ![x] = new] /\ objFresh' = (objFresh /\ cur # x)
      /\ UNCHANGED <<nmCache, node, nodeCache, events, queue, pc, cur, obj, view>>
  BY DEF OtherWrite
<1>2. nm'[x] = new /\ \A y \in NM \ {x} : nm'[y] = nm[y]
  BY <1>1 DEF IInv, TypeOK
<1>3. \A y \in NM : Waiting(y)' = Waiting(y)
  BY <1>1 DEF Waiting
<1>4. ASSUME NEW y \in NM PROVE StoredWork(y)'
  <2>1. StoredWork(y) /\ nmCache[y] \in Object
    BY DEF WorkOK, IInv, TypeOK
  <2>2. CASE y # x
    BY <1>1, <1>2, <1>3, <2>1, <2>2, StoredStays
  <2>3. CASE y = x
    BY <1>1, <1>2, <1>3, <2>1, <2>3 DEF StoredWork
  <2> QED
    BY <2>2, <2>3
<1>5. pc # "idle" => CurrentWork'
  <2> SUFFICES ASSUME pc # "idle" PROVE CurrentWork'
    OBVIOUS
  <2>1. cur \in NM /\ CurrentWork /\ obj \in Object
    BY CurrentFacts
  <2>2. Behind(obj, nm'[cur]) /\ (objFresh' => objFresh /\ nm'[cur] = nm[cur])
    BY <1>1, <1>2, <2>1 DEF CurrentWork
  <2>3. Waiting(cur)' = Waiting(cur)
    BY <1>1 DEF Waiting
  <2> QED
    BY <1>1, <2>1, <2>2, <2>3 DEF CurrentWork
<1> QED
  BY <1>1, <1>4, <1>5 DEF WorkOK

\* Users, the scheduler controller, administrators and restarts.
LEMMA EnvironmentWork ==
  ASSUME IInv, WorkOK, Environment
  PROVE  WorkOK'
<1>0. /\ \A x \in NM : nm[x] \in Object /\ nmCache[x] \in Object /\ StoredWork(x)
      /\ node \in [Node -> NodeObject]
  BY DEF IInv, TypeOK, WorkOK
<1>1. ASSUME NEW x \in NM, Create(x) PROVE WorkOK'
  <2>1. PICK s \in Specs : /\ nm[x].life = "unborn"
                           /\ OtherWrite(x, [Unborn EXCEPT !.life = "live", !.cordon = s.cordon,
                                                           !.wait = s.wait, !.drain = s.drain])
    BY <1>1 DEF Create
  <2>2. PICK new : new = [Unborn EXCEPT !.life = "live", !.cordon = s.cordon,
                                        !.wait = s.wait, !.drain = s.drain]
    OBVIOUS
  <2>3. new \in Object /\ ~new.deleting /\ ~new.finalizer
    <3>1. s.cordon \in BOOLEAN /\ s.wait \in BOOLEAN /\ s.drain \in DrainSpec \cup {Nil}
      BY SpecsAssumption DEF MaintenanceSpec
    <3>2. Unborn \in Object /\ ~Unborn.deleting /\ ~Unborn.finalizer
      BY ConstantTypes DEF Unborn
    <3> QED
      BY <2>2, <3>1, <3>2 DEF Object
  <2>4. ~Live(nmCache[x]) /\ \A c \in Object : Behind(c, nm[x]) => Behind(c, new)
    BY <1>0, <2>1 DEF StoredWork, Behind
  <2>5. DeletionOK(new) /\ QuietOK(new, nmCache[x], node[NodeName[x]].exists)
    BY <2>3, <2>4 DEF DeletionOK, QuietOK
  <2> QED
    BY <2>1, <2>2, <2>3, <2>4, <2>5, OtherWriteWork
<1>2. ASSUME NEW x \in NM, Delete(x) PROVE WorkOK'
  <2>1. PICK new : /\ new = IF nm[x].finalizer THEN [nm[x] EXCEPT !.deleting = TRUE] ELSE Gone
                   /\ OtherWrite(x, new) /\ Live(nm[x]) /\ ~nm[x].deleting
    BY <1>2 DEF Delete
  <2>2. CASE nm[x].finalizer
    <3>1. /\ new \in Object /\ new.life = nm[x].life /\ new.reason = nm[x].reason
          /\ new.finalizer = nm[x].finalizer /\ new.deleting
          /\ new.readyTime = nm[x].readyTime
      <4>1. nm[x] \in Object /\ new = [nm[x] EXCEPT !.deleting = TRUE]
        BY <1>0, <2>1, <2>2
      <4> QED
        BY <4>1 DEF Object
    <3>2. DeletionOK(nm[x])
      BY <1>0 DEF StoredWork
    <3>3. DeletionOK(new)
      BY <2>2, <3>1, <3>2 DEF DeletionOK, IsUnderMaintenance, Live
    <3>4. \A c \in Object : Behind(c, nm[x]) => Behind(c, new)
      BY <3>1 DEF Behind, Live
    <3>5. QuietOK(nm[x], nmCache[x], node[NodeName[x]].exists)
            => QuietOK(new, nmCache[x], node[NodeName[x]].exists)
      BY <3>1 DEF QuietOK, Live
    <3> QED
      BY <2>1, <3>1, <3>3, <3>4, <3>5, OtherWriteWork
  <2>3. CASE ~nm[x].finalizer
    <3>1. new \in Object /\ ~Live(new) /\ new.life = "gone"
      BY <2>1, <2>3, ConstantTypes DEF Gone, Unborn
    <3>2. /\ DeletionOK(new) /\ QuietOK(new, nmCache[x], node[NodeName[x]].exists)
          /\ \A c \in Object : Behind(c, new)
      BY <3>1 DEF DeletionOK, QuietOK, Behind
    <3> QED
      BY <2>1, <3>1, <3>2, OtherWriteWork
  <2> QED
    BY <2>2, <2>3
<1>3. ASSUME NEW x \in NM, Schedule(x) PROVE WorkOK'
  <2>1. PICK new : /\ new = [nm[x] EXCEPT !.reason = "Scheduled"] /\ OtherWrite(x, new)
                   /\ nm[x].reason \in {"Uninitialized", "Pending"} /\ nmFresh[x]
    BY <1>3 DEF Schedule, IsUnderMaintenance
  <2>2. /\ new \in Object /\ new.reason = "Scheduled" /\ new.life = nm[x].life
        /\ new.deleting = nm[x].deleting /\ new.finalizer = nm[x].finalizer
        /\ new.readyTime = nm[x].readyTime
    BY <1>0, <2>1, SMTT(30) DEF Object, Reason
  <2>3. DeletionOK(new) /\ \A c \in Object : Behind(c, nm[x]) => Behind(c, new)
    BY <1>0, <2>2 DEF StoredWork, DeletionOK, IsUnderMaintenance, Behind, Live
  <2>4. nmCache[x].reason # new.reason
    BY <2>1, <2>2 DEF IInv, CacheOK
  <2>5. QuietOK(nm[x], nmCache[x], node[NodeName[x]].exists)
          => QuietOK(new, nmCache[x], node[NodeName[x]].exists)
    BY <2>2, <2>4 DEF QuietOK, Live
  <2> QED
    BY <2>1, <2>2, <2>3, <2>5, OtherWriteWork
<1>4. ASSUME NEW x \in NM, EditObject(x) PROVE WorkOK'
  <2>1. PICK new : /\ \/ new = [nm[x] EXCEPT !.cordon = ~@]
                      \/ \E d \in DrainSpec \cup {Nil} : new = [nm[x] EXCEPT !.drain = d]
                      \/ new = [nm[x] EXCEPT !.requestors = ~@]
                      \/ new = [nm[x] EXCEPT !.failed = ~@]
                      \/ new = [nm[x] EXCEPT !.waitStart = "invalid"]
                   /\ OtherWrite(x, new)
    BY <1>4 DEF EditObject, Edit
  <2>2. /\ new \in Object /\ new.life = nm[x].life /\ new.reason = nm[x].reason
        /\ new.finalizer = nm[x].finalizer /\ new.deleting = nm[x].deleting
        /\ new.readyTime = nm[x].readyTime
    <3>0. nm[x] \in Object
      BY <1>0
    <3>1. CASE new = [nm[x] EXCEPT !.cordon = ~@]
      BY <3>0, <3>1 DEF Object
    <3>2. CASE \E d \in DrainSpec \cup {Nil} : new = [nm[x] EXCEPT !.drain = d]
      BY <3>0, <3>2 DEF Object
    <3>3. CASE new = [nm[x] EXCEPT !.requestors = ~@]
      BY <3>0, <3>3 DEF Object
    <3>4. CASE new = [nm[x] EXCEPT !.failed = ~@]
      BY <3>0, <3>4 DEF Object
    <3>5. CASE new = [nm[x] EXCEPT !.waitStart = "invalid"]
      BY <3>0, <3>5 DEF Object
    <3> QED
      BY <2>1, <3>1, <3>2, <3>3, <3>4, <3>5
  <2>3. DeletionOK(new) /\ \A c \in Object : Behind(c, nm[x]) => Behind(c, new)
    BY <1>0, <2>2 DEF StoredWork, DeletionOK, IsUnderMaintenance, Behind, Live
  <2>4. QuietOK(nm[x], nmCache[x], node[NodeName[x]].exists)
          => QuietOK(new, nmCache[x], node[NodeName[x]].exists)
    BY <2>2 DEF QuietOK, Live
  <2> QED
    BY <2>1, <2>2, <2>3, <2>4, OtherWriteWork
<1>5. CASE \/ \E n \in Node : AdminCordon(n) \/ RemoveNode(n)
           \/ \E p \in Pod, n \in Node : BindPod(p, n)
  <2>1. UNCHANGED <<nm, nmCache, nodeCache, events, queue, procVars>>
    BY <1>5 DEF AdminCordon, RemoveNode, BindPod, apiVars, cacheVars
  <2>2. \A n \in Node : node'[n].exists => node[n].exists
    <3>1. CASE UNCHANGED node
      BY <3>1
    <3>2. ASSUME NEW m \in Node, node' = [node EXCEPT ![m].unsched = ~@]
          PROVE  \A n \in Node : node'[n].exists => node[n].exists
      BY <1>0, <3>2 DEF NodeObject
    <3>3. ASSUME NEW m \in Node, node' = [node EXCEPT ![m] = NoView]
          PROVE  \A n \in Node : node'[n].exists => node[n].exists
      BY <1>0, <3>3 DEF NoView
    <3> QED
      BY <1>5, <3>1, <3>2, <3>3 DEF AdminCordon, RemoveNode, BindPod, apiVars
  <2>3. \A n \in Node : node[n].exists => nodeCache[n].exists
    BY DEF WorkOK
  <2> QED
    BY <2>1, <2>2, <2>3, BackgroundWork
<1>6. CASE Restart
  <2>1. /\ pc' = "idle" /\ cur' = Nil /\ nmCache' = nm /\ nodeCache' = node
        /\ events' = {x \in NM : Live(nm[x])} /\ UNCHANGED <<nm, node>>
    BY <1>6 DEF Restart, apiVars
  <2>2. ASSUME NEW x \in NM PROVE StoredWork(x)'
    <3>1. DeletionOK(nm[x]) /\ Behind(nm[x], nm[x])
      BY <1>0 DEF StoredWork, Behind, Live
    <3>2. Waiting(x)' \/ QuietOK(nm[x], nm[x], node[NodeName[x]].exists)
      BY <2>1 DEF Waiting, QuietOK
    <3> QED
      BY <2>1, <3>1, <3>2 DEF StoredWork
  <2> QED
    BY <2>1, <2>2 DEF WorkOK
<1> QED
  BY <1>1, <1>2, <1>3, <1>4, <1>5, <1>6 DEF Environment

\* The invariant holds initially.
LEMMA InitWork == Init => WorkOK
<1> SUFFICES ASSUME Init PROVE WorkOK
  OBVIOUS
<1>1. /\ nm = [x \in NM |-> Unborn] /\ nmCache = nm /\ pc = "idle" /\ cur = Nil
      /\ nodeCache = node
  BY DEF Init
<1>2. \A x \in NM : ~Live(nm[x]) /\ ~Live(nmCache[x])
  BY <1>1, ConstantTypes
<1>3. \A x \in NM : StoredWork(x)
  BY <1>2 DEF StoredWork, DeletionOK, Behind, QuietOK
<1> QED
  BY <1>1, <1>3 DEF WorkOK

\* Every step preserves it.
LEMMA NextWork == IInv /\ WorkOK /\ [Next]_vars => WorkOK'
<1> SUFFICES ASSUME IInv, WorkOK, [Next]_vars PROVE WorkOK'
  OBVIOUS
<1>0. \A n \in Node : node[n].exists => nodeCache[n].exists
  BY DEF WorkOK
<1>1. CASE \/ UNCHANGED vars
           \/ \E x \in NM : DoDrain(x) \/ DrainError(x) \/ HandleEvent(x)
  <2>1. /\ UNCHANGED <<nm, nmCache, node, nodeCache, procVars>>
        /\ queue \cup events \subseteq queue' \cup events'
    BY <1>1 DEF vars, HandleEvent, DoDrain, DrainError, DrainList, DrainEvict, DrainSuccess,
                apiVars, cacheVars, procVars
  <2> QED
    BY <1>0, <2>1, BackgroundWork
<1>2. CASE SyncNodes
  <2>1. UNCHANGED <<nm, nmCache, node, events, queue, procVars>> /\ nodeCache' = node
    BY <1>2 DEF SyncNodes, apiVars
  <2> QED
    BY <2>1, BackgroundWork
<1> QED
  BY <1>1, <1>2, ReconcileWork, HandlerWork, CallWork, SyncWork, EnvironmentWork
     DEF Next, Reconciler

\* No work is lost, for every instance, node removals, restarts and lost replies
\* included: whatever a reconcile that returns an empty result leaves to do, an
\* update that ConditionChangedPredicate lets through is on its way.
THEOREM NeverLosesWork == Spec => []NoLostWork
<1>1. Init => IInv /\ WorkOK
  BY InitIInv, InitWork
<1>2. (IInv /\ WorkOK) /\ [Next]_vars => (IInv /\ WorkOK)'
  BY NextIInv, NextWork
<1>3. IInv /\ WorkOK => NoLostWork
  BY WorkKept
<1> QED
  BY <1>1, <1>2, <1>3, PTL DEF Spec

=============================================================================
