----------------------- MODULE NodeMaintenanceProofs -----------------------
(***************************************************************************)
(* Proofs about NodeMaintenance, for every set of objects, nodes and pods, *)
(* every bound and every lag of the informers: type correctness, the       *)
(* finalizer that guards the clean-up, the absence of stray drains, and    *)
(* that the abstract life cycle of an object is implemented.               *)
(*                                                                         *)
(* FinalizerHeld and NoStrayDrain are not inductive.  A reconcile acts on  *)
(* a copy that may be stale, so the inductive invariant says what the copy *)
(* is worth: a copy with the version of the API server agrees with it      *)
(* (CopyOK), and the pending call tells how far the handler has come on    *)
(* the copy (StepOK).  NoStrayDrain also needs FinalizerHeld: an object    *)
(* that is Draining cannot vanish while its drain runs.                    *)
(***************************************************************************)
EXTENDS NodeMaintenance, TLAPS

\* Zenon is enough for most steps; the others say what they need.
USE Zenon

-----------------------------------------------------------------------------
(* The inductive invariant. *)

\* Nodes are not removed.
NodesStay == "node" \notin Edits

NodesExist == \A n \in Node : node[n].exists /\ nodeCache[n].exists

CacheOK == \A x \in NM : nmFresh[x] => nmCache[x] = nm[x]

\* The two copies agree on what the handlers branch on.
Agree(o, stored) ==
  /\ o.life = stored.life /\ o.reason = stored.reason
  /\ o.deleting = stored.deleting /\ o.finalizer = stored.finalizer

\* What the pending call k says about the copy o and its drain request r.
StepOK(k, o, r) ==
  /\ k = "addFinalizer" => o.reason = "Scheduled"
  /\ k \in {"recordInitial", "cordon"} => o.reason = "Cordon"
  /\ k \in {"markWaitStart", "resetWaitStart", "listPods"} => o.reason = "WaitForPodCompletion"
  /\ k \in {"startDrain", "reportDrain", "reportDrained", "clearDrainStatus"}
       => o.reason = "Draining"
  /\ k = "markReady" => o.reason \in {"Ready", "RequestorFailed"}
  /\ k = "setReason" /\ o.reason = "Scheduled" => o.finalizer
  /\ k = "setReason" => o.reason # "Pending"
  /\ k \in {"uncordon", "clearInitial"} => o.deleting
  /\ NodesStay =>
       /\ k = "removeFinalizer" => o.deleting
       /\ k = "clearDrainStatus" => r.state = "none"
       /\ k \in {"setReason", "uncordon", "clearInitial", "removeFinalizer"}
            /\ o.reason = "Draining" => r.state = "none"

CopyOK ==
  /\ pc = "idle" => ~objFresh
  /\ pc # "idle" => cur \in NM /\ Live(obj) /\ StepOK(pc, obj, reqs[cur])
  /\ objFresh => Agree(obj, nm[cur])

FinalizerOK(o) ==
  Live(o) /\ o.reason \notin {"Uninitialized", "Pending", "Scheduled"} => o.finalizer

RequestOK(o, r) == r.state # "none" => Live(o) /\ o.reason = "Draining"

Guarded == \A x \in NM : FinalizerOK(nm[x]) /\ RequestOK(nm[x], reqs[x])

IInv ==
  /\ TypeOK
  /\ CacheOK
  /\ CopyOK
  /\ NodesStay => NodesExist /\ Guarded
-----------------------------------------------------------------------------
(* Lemmas on the objects. *)

\* The constants of the model have their types.
LEMMA ConstantTypes ==
  /\ Unborn \in Object /\ Gone \in Object /\ NoView \in NodeObject /\ NoRequest \in Request
  /\ ~Live(Unborn) /\ ~Live(Gone) /\ Nil \notin NM
BY NilAssumption
   DEF Unborn, Gone, Object, Reason, NoView, NodeObject, NoRequest, Request, Live

\* An update or a status update of a copy yields an object: the metadata of one
\* and the status of the other.
LEMMA WithStatusType ==
  ASSUME NEW o \in Object, NEW s \in Object
  PROVE  /\ WithStatus(o, s) \in Object
         /\ WithStatus(o, s).life = o.life /\ WithStatus(o, s).reason = s.reason
         /\ WithStatus(o, s).deleting = o.deleting /\ WithStatus(o, s).finalizer = o.finalizer
BY DEF WithStatus, Object

\* Every handler sets a reason of the state diagram.
LEMMA NextReasonType ==
  ASSUME NEW o \in Object
  PROVE  NextReason(o) \in Reason
BY DEF NextReason, Object, Reason

\* The clean-up consists of its three calls.
LEMMA CleanupSteps ==
  ASSUME NEW o \in Object, NEW v \in NodeObject
  PROVE  /\ HandleFinalizerRemoval(o) \in {"removeFinalizer", "idle"}
         /\ AfterUncordon(o) \in {"clearInitial", "removeFinalizer", "idle"}
         /\ Cleanup(o, v) \in {"uncordon", "clearInitial", "removeFinalizer", "idle"}
BY DEF HandleFinalizerRemoval, AfterUncordon, Cleanup

-----------------------------------------------------------------------------
(* How the steps of a reconcile preserve the invariant. *)

\* A reconcile that ends preserves what the invariant says of its copy.
LEMMA EndStep ==
  ASSUME TypeOK, CopyOK, pc # "idle", Done \/ Requeue
  PROVE  /\ queue' \subseteq NM /\ pc' \in Steps /\ cur' \in NM \cup {Nil}
         /\ obj' \in Object /\ objFresh' \in BOOLEAN /\ view' \in NodeObject
         /\ CopyOK'
<1>1. cur \in NM
  BY DEF CopyOK
<1>2. /\ pc' = "idle" /\ cur' = Nil /\ obj' = Unborn /\ objFresh' = FALSE /\ view' = NoView
      /\ queue' \subseteq NM
  BY <1>1 DEF Done, Requeue, TypeOK
<1>3. CopyOK'
  BY <1>2 DEF CopyOK
<1> QED
  BY <1>2, <1>3, ConstantTypes DEF Steps

\* So does one that goes on with a call that fits its copy.
LEMMA ProceedStep ==
  ASSUME TypeOK, CopyOK, pc # "idle",
         NEW o \in Object, NEW k \in Steps \cup {"requeue"}, Proceed(k, o),
         k \notin {"idle", "requeue"} =>
           /\ Live(o) /\ StepOK(k, o, reqs'[cur])
           /\ objFresh => Agree(o, nm'[cur])
  PROVE  /\ queue' \subseteq NM /\ pc' \in Steps /\ cur' \in NM \cup {Nil}
         /\ obj' \in Object /\ objFresh' \in BOOLEAN /\ view' \in NodeObject
         /\ CopyOK'
<1>1. CASE k \in {"idle", "requeue"}
  <2>1. Done \/ Requeue
    BY <1>1 DEF Proceed
  <2> QED
    BY <2>1, EndStep
<1>2. CASE k \notin {"idle", "requeue"}
  <2>1. pc' = k /\ obj' = o /\ UNCHANGED <<cur, objFresh, view, queue>>
    BY <1>2 DEF Proceed
  <2>2. cur \in NM
    BY DEF CopyOK
  <2>3. CopyOK'
    BY <1>2, <2>1, <2>2 DEF CopyOK
  <2> QED
    BY <1>2, <2>1, <2>3 DEF TypeOK
<1> QED
  BY <1>1, <1>2

\* The store half of a write: what it may put into the API server.
LEMMA StoreStep ==
  ASSUME TypeOK, CacheOK, cur \in NM, NEW new \in Object, Store(new), UNCHANGED nmCache
  PROVE  /\ nm' \in [NM -> Object] /\ nmFresh' \in [NM -> BOOLEAN] /\ nm'[cur] = new
         /\ \A y \in NM \ {cur} : nm'[y] = nm[y]
         /\ CacheOK'
<1>1. nm' \in [NM -> Object] /\ nm'[cur] = new /\ \A y \in NM \ {cur} : nm'[y] = nm[y]
  BY DEF TypeOK, Store
<1>2. nmFresh' \in [NM -> BOOLEAN]
  BY DEF TypeOK, Store
<1>3. CacheOK'
  BY <1>1 DEF CacheOK, TypeOK, Store
<1> QED
  BY <1>1, <1>2, <1>3

\* The part of the invariant that is about the stored objects.
LEMMA GuardedStep ==
  ASSUME Guarded, cur \in NM,
         \A y \in NM \ {cur} : nm'[y] = nm[y] /\ reqs'[y] = reqs[y],
         FinalizerOK(nm'[cur]), RequestOK(nm'[cur], reqs'[cur])
  PROVE  Guarded'
BY DEF Guarded, FinalizerOK, RequestOK, Live

\* An accepted write of an object that keeps its finalizer and its request.
LEMMA AcceptedStep ==
  ASSUME IInv, pc # "idle",
         NEW new \in Object, NEW k \in Steps \cup {"requeue"}, Accepted(new, k),
         reqs' \in [NM -> Request], \A y \in NM \ {cur} : reqs'[y] = reqs[y],
         k \notin {"idle", "requeue"} => Live(new) /\ StepOK(k, new, reqs'[cur]),
         NodesStay => FinalizerOK(new) /\ RequestOK(new, reqs'[cur])
  PROVE  IInv'
<1>1. cur \in NM
  BY DEF IInv, CopyOK
<1>2. Store(new) /\ Proceed(k, new)
      /\ UNCHANGED <<nmCache, node, nodeCache, events, podVars, admin, edits, faults>>
  BY DEF Accepted
<1>3. /\ nm' \in [NM -> Object] /\ nmFresh' \in [NM -> BOOLEAN] /\ nm'[cur] = new
      /\ \A y \in NM \ {cur} : nm'[y] = nm[y]
      /\ CacheOK'
  BY <1>1, <1>2, StoreStep DEF IInv
<1>4. Agree(new, nm'[cur])
  BY <1>3 DEF Agree
<1>5. /\ queue' \subseteq NM /\ pc' \in Steps /\ cur' \in NM \cup {Nil}
      /\ obj' \in Object /\ objFresh' \in BOOLEAN /\ view' \in NodeObject
      /\ CopyOK'
  BY <1>2, <1>4, ProceedStep DEF IInv
<1>6. TypeOK'
  BY <1>2, <1>3, <1>5 DEF IInv, TypeOK, podVars
<1>7. NodesStay => NodesExist' /\ Guarded'
  BY <1>1, <1>2, <1>3, GuardedStep DEF IInv, NodesExist
<1> QED
  BY <1>3, <1>5, <1>6, <1>7 DEF IInv

\* A refused write may have been stored all the same.
LEMMA RefusedStep ==
  ASSUME IInv, pc # "idle", NEW new \in Object, Refused(new),
         objFresh /\ NodesStay => FinalizerOK(new) /\ RequestOK(new, reqs[cur])
  PROVE  IInv'
<1>1. cur \in NM
  BY DEF IInv, CopyOK
<1>2. /\ Fails(new) /\ Requeue
      /\ UNCHANGED <<nmCache, node, nodeCache, events, podVars, reqs, admin, edits>>
  BY DEF Refused
<1>3. /\ queue' \subseteq NM /\ pc' \in Steps /\ cur' \in NM \cup {Nil}
      /\ obj' \in Object /\ objFresh' \in BOOLEAN /\ view' \in NodeObject
      /\ CopyOK'
  BY <1>2, EndStep DEF IInv
<1>4. faults' \in 0..MaxFaults
  BY <1>2, BoundsAssumption, SMT DEF IInv, TypeOK, Fails
<1>5. CASE Store(new)
  <2>1. /\ nm' \in [NM -> Object] /\ nmFresh' \in [NM -> BOOLEAN] /\ nm'[cur] = new
        /\ \A y \in NM \ {cur} : nm'[y] = nm[y]
        /\ CacheOK'
    BY <1>1, <1>2, <1>5, StoreStep DEF IInv
  <2>2. TypeOK'
    BY <1>2, <1>3, <1>4, <2>1 DEF IInv, TypeOK, podVars
  <2>3. NodesStay => NodesExist' /\ Guarded'
    BY <1>1, <1>2, <1>5, <2>1, GuardedStep DEF IInv, NodesExist, Store
  <2> QED
    BY <1>3, <2>1, <2>2, <2>3 DEF IInv
<1>6. CASE UNCHANGED <<nm, nmFresh>>
  <2>1. TypeOK'
    BY <1>2, <1>3, <1>4, <1>6 DEF IInv, TypeOK, podVars
  <2>2. CacheOK' /\ (NodesStay => NodesExist' /\ Guarded')
    BY <1>2, <1>6 DEF IInv, CacheOK, NodesExist, Guarded
  <2> QED
    BY <1>3, <2>1, <2>2 DEF IInv
<1> QED
  BY <1>2, <1>5, <1>6 DEF Fails

\* A write of an object that keeps its finalizer and its request.
LEMMA WriteStep ==
  ASSUME IInv, pc # "idle",
         NEW new \in Object, NEW k \in Steps \cup {"requeue"}, Write(new, k),
         objFresh =>
           /\ k \notin {"idle", "requeue"} => Live(new) /\ StepOK(k, new, reqs[cur])
           /\ NodesStay => FinalizerOK(new) /\ RequestOK(new, reqs[cur])
  PROVE  IInv'
<1>1. CASE Accepted(new, k) /\ UNCHANGED reqs
  <2>1. objFresh
    BY <1>1 DEF Accepted, Store
  <2>2. reqs' \in [NM -> Request] /\ \A y \in NM \ {cur} : reqs'[y] = reqs[y]
    BY <1>1 DEF IInv, TypeOK
  <2> QED
    BY <1>1, <2>1, <2>2, AcceptedStep
<1>2. CASE Refused(new)
  BY <1>2, RefusedStep
<1> QED
  BY <1>1, <1>2 DEF Write

\* A step of the reconcile that writes no NodeMaintenance.
LEMMA KeepStep ==
  ASSUME IInv, pc # "idle", NEW k \in Steps \cup {"requeue"}, Proceed(k, obj),
         UNCHANGED <<nm, cacheVars, podVars, admin, edits>>,
         node' \in [Node -> NodeObject], \A n \in Node : node'[n].exists = node[n].exists,
         faults' \in 0..MaxFaults,
         reqs' \in [NM -> Request], \A y \in NM \ {cur} : reqs'[y] = reqs[y],
         reqs'[cur] = reqs[cur] \/ reqs'[cur] = NoRequest,
         k \notin {"idle", "requeue"} => StepOK(k, obj, reqs'[cur])
  PROVE  IInv'
<1>1. cur \in NM /\ Live(obj) /\ (objFresh => Agree(obj, nm[cur]))
  BY DEF IInv, CopyOK
<1>2. PICK o : o = obj
  OBVIOUS
<1>3. o \in Object /\ Live(o) /\ Proceed(k, o)
      /\ (k \notin {"idle", "requeue"} => StepOK(k, o, reqs'[cur]))
      /\ (objFresh => Agree(o, nm'[cur]))
  BY <1>1, <1>2 DEF IInv, TypeOK
<1>4. /\ queue' \subseteq NM /\ pc' \in Steps /\ cur' \in NM \cup {Nil}
      /\ obj' \in Object /\ objFresh' \in BOOLEAN /\ view' \in NodeObject
      /\ CopyOK'
  BY <1>3, ProceedStep DEF IInv
<1>5. TypeOK'
  BY <1>4 DEF IInv, TypeOK, cacheVars, podVars
<1>6. CacheOK'
  BY DEF IInv, CacheOK, cacheVars
<1>7. NodesStay => NodesExist' /\ Guarded'
  <2> SUFFICES ASSUME NodesStay PROVE NodesExist' /\ Guarded'
    OBVIOUS
  <2>1. NodesExist'
    BY DEF IInv, NodesExist, cacheVars
  <2>2. FinalizerOK(nm[cur]) /\ RequestOK(nm[cur], reqs[cur])
    BY <1>1 DEF IInv, Guarded
  <2>3. RequestOK(nm[cur], reqs'[cur])
    BY <2>2, SMT DEF RequestOK, NoRequest
  <2> QED
    BY <1>1, <2>1, <2>2, <2>3, GuardedStep DEF IInv
<1> QED
  BY <1>4, <1>5, <1>6, <1>7 DEF IInv

\* A write by someone else.
LEMMA OtherWriteStep ==
  ASSUME IInv, NEW x \in NM, NEW new \in Object, OtherWrite(x, new),
         edits' \in 0..MaxEdits,
         NodesStay => FinalizerOK(new) /\ RequestOK(new, reqs[x])
  PROVE  IInv'
<1>1. /\ nm' = [nm EXCEPT ![x] = new] /\ nmFresh' = [nmFresh EXCEPT ![x] = FALSE]
      /\ objFresh' = (objFresh /\ cur # x)
      /\ UNCHANGED <<nmCache, node, nodeCache, events, pods, unbound, queue, pc, cur, obj, view,
                     reqs, admin, faults>>
  BY DEF OtherWrite, podVars
<1>2. nm' \in [NM -> Object] /\ nm'[x] = new /\ \A y \in NM \ {x} : nm'[y] = nm[y]
  BY <1>1 DEF IInv, TypeOK
<1>3. TypeOK'
  BY <1>1, <1>2 DEF IInv, TypeOK
<1>4. CacheOK'
  BY <1>1, <1>2 DEF IInv, CacheOK, TypeOK
<1>5. CopyOK'
  <2>1. objFresh' => objFresh /\ cur # x
    BY <1>1
  <2>2. objFresh' => Agree(obj', nm'[cur'])
    <3> SUFFICES ASSUME objFresh' PROVE Agree(obj', nm'[cur'])
      OBVIOUS
    <3>1. cur \in NM \ {x} /\ Agree(obj, nm[cur])
      BY <2>1 DEF IInv, CopyOK
    <3> QED
      BY <1>1, <1>2, <3>1
  <2> QED
    BY <1>1, <2>1, <2>2 DEF IInv, CopyOK
<1>6. NodesStay => NodesExist' /\ Guarded'
  BY <1>1, <1>2 DEF IInv, NodesExist, Guarded
<1> QED
  BY <1>3, <1>4, <1>5, <1>6 DEF IInv

-----------------------------------------------------------------------------
(* The actions, by group. *)

\* The dispatch of a reconcile preserves the invariant: a copy taken from a
\* cache entry of the current version agrees with the API server.
LEMMA ReconcilePreserves ==
  ASSUME IInv, NEW x \in NM, Reconcile(x)
  PROVE  IInv'
<1> DEFINE o == nmCache[x]
           v == nodeCache[NodeName[x]]
<1>1. /\ pc = "idle" /\ queue' = queue \ {x}
      /\ UNCHANGED <<nm, node, nmCache, nmFresh, nodeCache, events, pods, unbound, reqs, admin,
                     edits, faults>>
  BY DEF Reconcile, apiVars, cacheVars, podVars
<1>2. NodeName[x] \in Node /\ v \in NodeObject /\ o \in Object
  BY NodeNameAssumption DEF IInv, TypeOK
<1>3. CacheOK' /\ (NodesStay => NodesExist' /\ Guarded')
  BY <1>1 DEF IInv, CacheOK, NodesExist, Guarded
<1>4. CASE UNCHANGED procVars
  <2>1. TypeOK' /\ CopyOK'
    BY <1>1, <1>4 DEF IInv, TypeOK, CopyOK, procVars
  <2> QED
    BY <1>3, <2>1 DEF IInv
<1>5. CASE /\ Live(o) /\ cur' = x /\ obj' = o /\ objFresh' = nmFresh[x] /\ view' = v
           /\ pc' \in {"setOwner", "handle", "removeFinalizer"}
           /\ pc' = "removeFinalizer" => ~v.exists
  <2>1. TypeOK'
    BY <1>1, <1>2, <1>5 DEF IInv, TypeOK, Steps
  <2>2. objFresh' => Agree(obj', nm'[cur'])
    BY <1>1, <1>5 DEF IInv, CacheOK, Agree
  <2>3. NodesStay => pc' # "removeFinalizer"
    BY <1>2, <1>5 DEF IInv, NodesExist
  <2>4. StepOK(pc', obj', reqs'[cur'])
    BY <1>5, <2>3 DEF StepOK
  <2>5. CopyOK'
    BY <1>5, <2>2, <2>4 DEF CopyOK, Live
  <2> QED
    BY <1>3, <2>1, <2>5 DEF IInv
<1> QED
  BY <1>4, <1>5 DEF Reconcile

\* The handlers choose a call that fits the copy, or end the reconcile.
LEMMA HandlerPreserves ==
  ASSUME IInv, Handler
  PROVE  IInv'
<1>0. /\ pc = "handle"
      /\ UNCHANGED <<nm, node, cacheVars, podVars, admin, edits, faults>>
  BY DEF Handler, HandleUninitializedState, HandlePending, HandleScheduledState,
         HandleCordonState, HandleWaitPodCompletionState, HandleDrainState,
         HandleTerminalState, Handle, apiVars
<1>1. /\ cur \in NM /\ obj \in Object /\ view \in NodeObject /\ reqs \in [NM -> Request]
      /\ node' \in [Node -> NodeObject] /\ \A n \in Node : node'[n].exists = node[n].exists
      /\ faults' \in 0..MaxFaults
  BY <1>0 DEF IInv, TypeOK, CopyOK
<1>2. PICK c : c = Cleanup(obj, view)
  OBVIOUS
<1>3. c \in {"uncordon", "clearInitial", "removeFinalizer", "idle"}
  BY <1>1, <1>2, CleanupSteps
<1>4. ASSUME NEW k \in Steps \cup {"requeue"}, Proceed(k, obj),
             \/ UNCHANGED reqs
             \/ RemoveRequest(cur),
             k \notin {"idle", "requeue"} => StepOK(k, obj, reqs'[cur])
      PROVE  IInv'
  <2>1. /\ reqs' \in [NM -> Request] /\ \A y \in NM \ {cur} : reqs'[y] = reqs[y]
        /\ reqs'[cur] = reqs[cur] \/ reqs'[cur] = NoRequest
    BY <1>1, <1>4, ConstantTypes DEF RemoveRequest
  <2>2. UNCHANGED <<nm, cacheVars, podVars, admin, edits>>
    BY <1>0
  <2> QED
    BY <1>0, <1>1, <1>4, <2>1, <2>2, KeepStep
<1>5. ASSUME obj.reason # "Draining", obj.deleting, UNCHANGED reqs, Proceed(c, obj)
      PROVE  IInv'
  <2>1. c \notin {"idle", "requeue"} => StepOK(c, obj, reqs'[cur])
    BY <1>3, <1>5 DEF StepOK
  <2> QED
    BY <1>3, <1>4, <1>5, <2>1 DEF Steps
<1>6. CASE HandleUninitializedState
  <2>1. Proceed("setReason", obj) /\ UNCHANGED reqs /\ StepOK("setReason", obj, reqs'[cur])
    BY <1>6 DEF HandleUninitializedState, Handle, StepOK
  <2> QED
    BY <1>4, <2>1 DEF Steps
<1>7. CASE HandlePending
  <2>1. Proceed("idle", obj) /\ UNCHANGED reqs
    BY <1>7 DEF HandlePending, Proceed
  <2> QED
    BY <1>4, <2>1 DEF Steps
<1>8. CASE HandleScheduledState
  <2>1. obj.reason = "Scheduled" /\ UNCHANGED reqs
    BY <1>8 DEF HandleScheduledState, Handle
  <2>2. PICK k : /\ Proceed(k, obj)
                 /\ \/ ~obj.deleting /\ k = IF obj.finalizer THEN "setReason" ELSE "addFinalizer"
                    \/ obj.deleting /\ k = HandleFinalizerRemoval(obj)
    BY <1>8 DEF HandleScheduledState
  <2>3. k \in Steps /\ (k \notin {"idle", "requeue"} => StepOK(k, obj, reqs'[cur]))
    BY <2>1, <2>2 DEF HandleFinalizerRemoval, StepOK, Steps
  <2> QED
    BY <1>4, <2>1, <2>2, <2>3
<1>9. CASE HandleCordonState
  <2>1. obj.reason = "Cordon" /\ UNCHANGED reqs
    BY <1>9 DEF HandleCordonState, Handle
  <2>2. CASE obj.deleting /\ Proceed(c, obj)
    BY <1>5, <2>1, <2>2
  <2>3. ASSUME NEW k \in {"setReason", "recordInitial", "cordon"}, Proceed(k, obj)
        PROVE  IInv'
    <3>1. StepOK(k, obj, reqs'[cur])
      BY <2>1 DEF StepOK
    <3> QED
      BY <1>4, <2>1, <2>3, <3>1 DEF Steps
  <2> QED
    BY <1>2, <1>9, <2>2, <2>3 DEF HandleCordonState, AfterRecordInitial
<1>10. CASE HandleWaitPodCompletionState
  <2>1. obj.reason = "WaitForPodCompletion" /\ UNCHANGED reqs
    BY <1>10 DEF HandleWaitPodCompletionState, Handle
  <2>2. CASE obj.deleting /\ Proceed(c, obj)
    BY <1>5, <2>1, <2>2
  <2>3. ASSUME NEW k \in {"setReason", "markWaitStart", "resetWaitStart", "listPods"},
               Proceed(k, obj)
        PROVE  IInv'
    <3>1. StepOK(k, obj, reqs'[cur])
      BY <2>1 DEF StepOK
    <3> QED
      BY <1>4, <2>1, <2>3, <3>1 DEF Steps
  <2> QED
    BY <1>2, <1>10, <2>2, <2>3 DEF HandleWaitPodCompletionState
<1>11. CASE HandleDrainState
  <2>1. obj.reason = "Draining"
    BY <1>11 DEF HandleDrainState, Handle
  <2>2. ASSUME RemoveRequest(cur) PROVE reqs'[cur].state = "none"
    BY <1>1, <2>2 DEF RemoveRequest, NoRequest
  <2>3. CASE obj.deleting /\ RemoveRequest(cur) /\ Proceed(c, obj)
    <3>1. c \notin {"idle", "requeue"} => StepOK(c, obj, reqs'[cur])
      BY <1>3, <2>1, <2>2, <2>3 DEF StepOK
    <3> QED
      BY <1>3, <1>4, <2>3, <3>1 DEF Steps
  <2>4. ASSUME NEW k \in {"startDrain", "reportDrain", "reportDrained"}, Proceed(k, obj),
               UNCHANGED reqs
        PROVE  IInv'
    <3>1. StepOK(k, obj, reqs'[cur])
      BY <2>1 DEF StepOK
    <3> QED
      BY <1>4, <2>4, <3>1 DEF Steps
  <2>5. CASE RemoveRequest(cur) /\ Requeue
    <3>1. Proceed("requeue", obj)
      BY <2>5 DEF Proceed
    <3> QED
      BY <1>4, <2>5, <3>1
  <2>6. ASSUME NEW k \in {"clearDrainStatus", "setReason"}, Proceed(k, obj), RemoveRequest(cur)
        PROVE  IInv'
    <3>1. StepOK(k, obj, reqs'[cur])
      BY <2>1, <2>2, <2>6 DEF StepOK
    <3> QED
      BY <1>4, <2>6, <3>1 DEF Steps
  <2> QED
    BY <1>2, <1>11, <2>3, <2>4, <2>5, <2>6 DEF HandleDrainState
<1>12. CASE HandleTerminalState
  <2>1. obj.reason \in {"Ready", "RequestorFailed"} /\ UNCHANGED reqs
    BY <1>12 DEF HandleTerminalState, Handle
  <2>2. CASE Requeue
    <3>1. Proceed("requeue", obj)
      BY <2>2 DEF Proceed
    <3> QED
      BY <1>4, <2>1, <3>1
  <2>3. CASE obj.deleting /\ Proceed(c, obj)
    BY <1>5, <2>1, <2>3
  <2>4. ASSUME NEW k \in {"idle", "setReason", "markReady"}, Proceed(k, obj)
        PROVE  IInv'
    <3>1. StepOK(k, obj, reqs'[cur])
      BY <2>1 DEF StepOK
    <3> QED
      BY <1>4, <2>1, <2>4, <3>1 DEF Steps
  <2> QED
    BY <1>2, <1>12, <2>2, <2>3, <2>4 DEF HandleTerminalState, AfterMarkReady
<1> QED
  BY <1>6, <1>7, <1>8, <1>9, <1>10, <1>11, <1>12 DEF Handler

\* An update from a copy that keeps what the handlers branch on, but for a
\* finalizer that it may add.
LEMMA UpdateStep ==
  ASSUME IInv, pc # "idle",
         NEW o \in Object, NEW k \in Steps \cup {"requeue"}, Update(o, k),
         o.life = obj.life, o.reason = obj.reason, o.deleting = obj.deleting,
         o.finalizer = TRUE \/ o.finalizer = obj.finalizer,
         k \notin {"idle", "requeue"} => StepOK(k, o, reqs[cur])
  PROVE  IInv'
<1>1. cur \in NM /\ Live(obj) /\ (objFresh => Agree(obj, nm[cur])) /\ nm[cur] \in Object
  BY DEF IInv, CopyOK, TypeOK
<1>2. PICK new : new = WithStatus(o, nm[cur])
  OBVIOUS
<1>3. /\ new \in Object /\ new.life = o.life /\ new.reason = nm[cur].reason
      /\ new.deleting = o.deleting /\ new.finalizer = o.finalizer
  BY <1>1, <1>2, WithStatusType
<1>4. Write(new, k)
  BY <1>2 DEF Update
<1>5. ASSUME objFresh
      PROVE  /\ k \notin {"idle", "requeue"} => Live(new) /\ StepOK(k, new, reqs[cur])
             /\ NodesStay => FinalizerOK(new) /\ RequestOK(new, reqs[cur])
  <2>1. new.reason = o.reason /\ Live(new)
    BY <1>1, <1>3, <1>5 DEF Agree, Live
  <2>2. k \notin {"idle", "requeue"} => StepOK(k, new, reqs[cur])
    BY <1>3, <2>1 DEF StepOK
  <2>3. NodesStay => FinalizerOK(nm[cur]) /\ RequestOK(nm[cur], reqs[cur])
    BY <1>1 DEF IInv, Guarded
  <2>4. NodesStay => FinalizerOK(new) /\ RequestOK(new, reqs[cur])
    BY <1>1, <1>3, <1>5, <2>1, <2>3 DEF FinalizerOK, RequestOK, Agree, Live
  <2> QED
    BY <2>1, <2>2, <2>4
<1> QED
  BY <1>3, <1>4, <1>5, WriteStep

\* The object that a status update with the reason of the copy stores.
LEMMA StatusKept ==
  ASSUME IInv, pc # "idle", objFresh, NEW o \in Object, o.reason = obj.reason
  PROVE  LET new == WithStatus(nm[cur], o)
         IN /\ Live(new) /\ new.reason = obj.reason /\ new.deleting = obj.deleting
            /\ new.finalizer = obj.finalizer
            /\ NodesStay => FinalizerOK(new) /\ RequestOK(new, reqs[cur])
<1>1. cur \in NM /\ Live(obj) /\ Agree(obj, nm[cur]) /\ nm[cur] \in Object
  BY DEF IInv, CopyOK, TypeOK
<1>2. PICK new : new = WithStatus(nm[cur], o)
  OBVIOUS
<1>3. /\ new.life = nm[cur].life /\ new.reason = o.reason
      /\ new.deleting = nm[cur].deleting /\ new.finalizer = nm[cur].finalizer
  BY <1>1, <1>2, WithStatusType
<1>4. /\ Live(new) /\ new.reason = obj.reason /\ new.deleting = obj.deleting
      /\ new.finalizer = obj.finalizer
  BY <1>1, <1>3 DEF Agree, Live
<1>5. NodesStay => FinalizerOK(nm[cur]) /\ RequestOK(nm[cur], reqs[cur])
  BY <1>1 DEF IInv, Guarded
<1>6. NodesStay => FinalizerOK(new) /\ RequestOK(new, reqs[cur])
  BY <1>1, <1>3, <1>4, <1>5 DEF FinalizerOK, RequestOK, Agree, Live
<1> QED
  BY <1>2, <1>4, <1>6

\* A status update that keeps the reason.
LEMMA StatusUpdateStep ==
  ASSUME IInv, pc # "idle",
         NEW o \in Object, NEW k \in Steps \cup {"requeue"}, StatusUpdate(o, k),
         o.reason = obj.reason,
         k \notin {"idle", "requeue"} => StepOK(k, obj, reqs[cur])
  PROVE  IInv'
<1>1. PICK new : new = WithStatus(nm[cur], o)
  OBVIOUS
<1>2. new \in Object
  BY <1>1, WithStatusType DEF IInv, CopyOK, TypeOK
<1>3. Write(new, k)
  BY <1>1 DEF StatusUpdate
<1>4. ASSUME objFresh
      PROVE  /\ k \notin {"idle", "requeue"} => Live(new) /\ StepOK(k, new, reqs[cur])
             /\ NodesStay => FinalizerOK(new) /\ RequestOK(new, reqs[cur])
  <2>1. /\ Live(new) /\ new.reason = obj.reason /\ new.deleting = obj.deleting
        /\ new.finalizer = obj.finalizer
        /\ NodesStay => FinalizerOK(new) /\ RequestOK(new, reqs[cur])
    BY <1>1, <1>4, StatusKept
  <2>2. k \notin {"idle", "requeue"} => StepOK(k, new, reqs[cur])
    BY <2>1 DEF StepOK
  <2> QED
    BY <2>1, <2>2
<1> QED
  BY <1>2, <1>3, <1>4, WriteStep

\* The owner reference: a failed call leaves the reconcile with a copy that
\* differs from the stored object in the reference only.
LEMMA SetOwnerRefPreserves ==
  ASSUME IInv, SetOwnerRef
  PROVE  IInv'
<1>1. PICK new, stored : new = [obj EXCEPT !.owner = TRUE] /\ stored = WithStatus(new, nm[cur])
  OBVIOUS
<1>2. /\ pc = "setOwner" /\ cur \in NM /\ Live(obj) /\ (objFresh => Agree(obj, nm[cur]))
      /\ nm[cur] \in Object /\ obj \in Object /\ UNCHANGED reqs
  BY DEF SetOwnerRef, IInv, CopyOK, TypeOK
<1>3. /\ new \in Object /\ new.life = obj.life /\ new.reason = obj.reason
      /\ new.deleting = obj.deleting /\ new.finalizer = obj.finalizer
  BY <1>1, <1>2 DEF Object
<1>4. /\ stored \in Object /\ stored.life = new.life /\ stored.reason = nm[cur].reason
      /\ stored.deleting = new.deleting /\ stored.finalizer = new.finalizer
  BY <1>1, <1>2, <1>3, WithStatusType
<1>5. NodesStay => FinalizerOK(nm[cur]) /\ RequestOK(nm[cur], reqs[cur])
  BY <1>2 DEF IInv, Guarded
<1>6. objFresh => /\ Live(stored)
                  /\ NodesStay => FinalizerOK(stored) /\ RequestOK(stored, reqs[cur])
  BY <1>2, <1>3, <1>4, <1>5 DEF FinalizerOK, RequestOK, Agree, Live
<1>7. reqs' \in [NM -> Request] /\ \A y \in NM \ {cur} : reqs'[y] = reqs[y]
  BY <1>2 DEF IInv, TypeOK
<1>8. CASE Accepted(stored, "handle")
  <2>1. objFresh
    BY <1>8 DEF Accepted, Store
  <2>2. StepOK("handle", stored, reqs'[cur])
    BY DEF StepOK
  <2> QED
    BY <1>2, <1>4, <1>6, <1>7, <1>8, <2>1, <2>2, AcceptedStep DEF Steps
<1>9. CASE /\ Fails(stored)
           /\ pc' = "handle" /\ obj' = new /\ objFresh' = (objFresh /\ nm' = nm)
           /\ UNCHANGED <<cur, view, queue>>
           /\ UNCHANGED <<nmCache, node, nodeCache, events, podVars, admin, edits>>
  <2>1. CopyOK'
    <3>1. StepOK("handle", new, reqs'[cur])
      BY DEF StepOK
    <3>2. objFresh' => Agree(obj', nm'[cur'])
      BY <1>2, <1>3, <1>9 DEF Agree
    <3> QED
      BY <1>2, <1>3, <1>9, <3>1, <3>2 DEF CopyOK, Live
  <2>2. faults' \in 0..MaxFaults
    BY <1>9, BoundsAssumption, SMT DEF IInv, TypeOK, Fails
  <2>3. CASE Store(stored)
    <3>1. /\ nm' \in [NM -> Object] /\ nmFresh' \in [NM -> BOOLEAN] /\ nm'[cur] = stored
          /\ \A y \in NM \ {cur} : nm'[y] = nm[y]
          /\ CacheOK'
      BY <1>2, <1>4, <1>9, <2>3, StoreStep DEF IInv
    <3>2. TypeOK'
      BY <1>2, <1>3, <1>9, <2>2, <3>1 DEF IInv, TypeOK, podVars, Steps
    <3>3. NodesStay => NodesExist' /\ Guarded'
      BY <1>2, <1>6, <1>9, <2>3, <3>1, GuardedStep DEF IInv, NodesExist, Store
    <3> QED
      BY <2>1, <3>1, <3>2, <3>3 DEF IInv
  <2>4. CASE UNCHANGED <<nm, nmFresh>>
    <3>1. TypeOK'
      BY <1>2, <1>3, <1>9, <2>2, <2>4 DEF IInv, TypeOK, podVars, Steps
    <3>2. CacheOK' /\ (NodesStay => NodesExist' /\ Guarded')
      BY <1>2, <1>9, <2>4 DEF IInv, CacheOK, NodesExist, Guarded
    <3> QED
      BY <2>1, <3>1, <3>2 DEF IInv
  <2> QED
    BY <1>9, <2>3, <2>4 DEF Fails
<1> QED
  BY <1>1, <1>8, <1>9 DEF SetOwnerRef

\* A patch of the node that the clean-up or the cordon makes.
LEMMA PatchNodeStep ==
  ASSUME IInv, pc # "idle", NEW u \in BOOLEAN, NEW k \in Steps, PatchNode(u, k),
         k # "idle" => StepOK(k, obj, reqs[cur])
  PROVE  IInv'
<1>1. cur \in NM /\ NodeName[cur] \in Node
  BY NodeNameAssumption DEF IInv, CopyOK
<1>2. UNCHANGED <<nm, cacheVars, podVars, reqs, admin, edits>>
  BY DEF PatchNode
<1>3. /\ node' \in [Node -> NodeObject]
      /\ \A n \in Node : node'[n].exists = node[n].exists
  <2>1. node' = node \/ node' = [node EXCEPT ![NodeName[cur]].unsched = u]
    BY DEF PatchNode
  <2>2. [node EXCEPT ![NodeName[cur]].unsched = u] \in [Node -> NodeObject]
    BY <1>1 DEF IInv, TypeOK, NodeObject
  <2>3. \A n \in Node : [node EXCEPT ![NodeName[cur]].unsched = u][n].exists = node[n].exists
    BY <1>1 DEF IInv, TypeOK, NodeObject
  <2> QED
    BY <2>1, <2>2, <2>3 DEF IInv, TypeOK
<1>4. faults' \in 0..MaxFaults
  BY BoundsAssumption, SMT DEF PatchNode, IInv, TypeOK
<1>5. /\ reqs' \in [NM -> Request] /\ \A y \in NM \ {cur} : reqs'[y] = reqs[y]
      /\ reqs'[cur] = reqs[cur]
  BY <1>2 DEF IInv, TypeOK
<1>6. PICK j \in {k, "requeue"} : Proceed(j, obj)
  BY DEF PatchNode, Proceed
<1> QED
  BY <1>2, <1>3, <1>4, <1>5, <1>6, KeepStep

\* The calls of a reconcile.
LEMMA CallPreserves ==
  ASSUME IInv, Call
  PROVE  IInv'
<1>0. pc # "idle"
  BY
     DEF Call, SetOwnerRef, AddFinalizer, SetReadyConditionReason, RecordInitialState, CordonNode,
         UncordonNode, ClearInitialState, RemoveFinalizer, MarkWaitStart, ResetWaitStart,
         WaitForPods, PodsCompleted, PodCompletionTimeout, StartDrain, ReportDrain, ReportDrained,
         ClearDrainStatus, MarkReady
<1>1. /\ cur \in NM /\ obj \in Object /\ view \in NodeObject /\ nm[cur] \in Object
      /\ reqs \in [NM -> Request] /\ Live(obj) /\ StepOK(pc, obj, reqs[cur])
      /\ (objFresh => Agree(obj, nm[cur]))
  BY <1>0 DEF IInv, TypeOK, CopyOK
<1>2. CASE AddFinalizer
  <2>1. PICK o : o = [obj EXCEPT !.finalizer = TRUE]
    OBVIOUS
  <2>2. /\ o \in Object /\ o.life = obj.life /\ o.reason = obj.reason
        /\ o.deleting = obj.deleting /\ o.finalizer = TRUE
    BY <1>1, <2>1 DEF Object
  <2>3. pc = "addFinalizer" /\ Update(o, "setReason")
    BY <1>2, <2>1 DEF AddFinalizer
  <2>4. StepOK("setReason", o, reqs[cur])
    BY <1>1, <2>2, <2>3 DEF StepOK
  <2> QED
    BY <1>0, <2>2, <2>3, <2>4, UpdateStep DEF Steps
<1>3. CASE SetReadyConditionReason
  <2>1. PICK o, new : /\ o = [obj EXCEPT !.reason = NextReason(obj)]
                      /\ new = WithStatus(nm[cur], o)
    OBVIOUS
  <2>2. o \in Object /\ o.reason = NextReason(obj)
    BY <1>1, <2>1, NextReasonType DEF Object
  <2>3. /\ new \in Object /\ new.life = nm[cur].life /\ new.reason = o.reason
        /\ new.finalizer = nm[cur].finalizer
    BY <1>1, <2>1, <2>2, WithStatusType
  <2>4. pc = "setReason" /\ Write(new, "idle")
    BY <1>3, <2>1 DEF SetReadyConditionReason, StatusUpdate
  <2>5. ASSUME objFresh, NodesStay
        PROVE  FinalizerOK(new) /\ RequestOK(new, reqs[cur])
    <3>1. FinalizerOK(nm[cur]) /\ RequestOK(nm[cur], reqs[cur])
      BY <1>1, <2>5 DEF IInv, Guarded
    <3>2. new.finalizer = obj.finalizer /\ nm[cur].reason = obj.reason /\ nm[cur].life = obj.life
      BY <1>1, <2>3, <2>5 DEF Agree
    <3>3. obj.reason \in Reason
      BY <1>1 DEF Object
    <3>4. FinalizerOK(new)
      <4>1. CASE obj.reason \in {"Uninitialized", "Pending"}
        BY <1>1, <2>2, <2>3, <2>4, <4>1 DEF NextReason, StepOK, FinalizerOK
      <4>2. CASE obj.reason = "Scheduled"
        BY <1>1, <2>4, <3>2, <4>2 DEF StepOK, FinalizerOK
      <4>3. CASE obj.reason \notin {"Uninitialized", "Pending", "Scheduled"}
        BY <1>1, <2>3, <3>1, <3>2, <4>3 DEF FinalizerOK, Live
      <4> QED
        BY <4>1, <4>2, <4>3
    <3>5. reqs[cur].state = "none"
      BY <1>1, <2>4, <2>5, <3>1, <3>2 DEF StepOK, RequestOK
    <3> QED
      BY <3>4, <3>5 DEF RequestOK
  <2> QED
    BY <1>0, <2>3, <2>4, <2>5, WriteStep DEF Steps
<1>4. CASE RecordInitialState
  <2>1. PICK o : o = [obj EXCEPT !.initial = IF view.unsched THEN "true" ELSE "false"]
    OBVIOUS
  <2>2. /\ o \in Object /\ o.life = obj.life /\ o.reason = obj.reason
        /\ o.deleting = obj.deleting /\ o.finalizer = obj.finalizer
    BY <1>1, <2>1 DEF Object
  <2>3. PICK k \in {"cordon", "setReason"} : pc = "recordInitial" /\ Update(o, k)
    BY <1>4, <2>1 DEF RecordInitialState, AfterRecordInitial
  <2>4. StepOK(k, o, reqs[cur])
    BY <1>1, <2>2, <2>3 DEF StepOK
  <2> QED
    BY <1>0, <2>2, <2>3, <2>4, UpdateStep DEF Steps
<1>5. CASE CordonNode
  <2>1. pc = "cordon" /\ PatchNode(TRUE, "setReason")
    BY <1>5 DEF CordonNode
  <2>2. StepOK("setReason", obj, reqs[cur])
    BY <1>1, <2>1 DEF StepOK
  <2> QED
    BY <1>0, <2>1, <2>2, PatchNodeStep DEF Steps
<1>6. CASE UncordonNode
  <2>1. PICK k : k = AfterUncordon(obj)
    OBVIOUS
  <2>2. pc = "uncordon" /\ PatchNode(FALSE, k)
    BY <1>6, <2>1 DEF UncordonNode
  <2>3. k \in {"clearInitial", "removeFinalizer", "idle"}
    BY <1>1, <2>1, CleanupSteps
  <2>4. k # "idle" => StepOK(k, obj, reqs[cur])
    BY <1>1, <2>2, <2>3 DEF StepOK
  <2> QED
    BY <1>0, <2>2, <2>3, <2>4, PatchNodeStep DEF Steps
<1>7. CASE ClearInitialState
  <2>1. PICK o : o = [obj EXCEPT !.initial = "none"]
    OBVIOUS
  <2>2. /\ o \in Object /\ o.life = obj.life /\ o.reason = obj.reason
        /\ o.deleting = obj.deleting /\ o.finalizer = obj.finalizer
    BY <1>1, <2>1 DEF Object
  <2>3. PICK k \in {"removeFinalizer", "idle"} : pc = "clearInitial" /\ Update(o, k)
    BY <1>7, <2>1 DEF ClearInitialState, HandleFinalizerRemoval
  <2>4. k # "idle" => StepOK(k, o, reqs[cur])
    BY <1>1, <2>2, <2>3 DEF StepOK
  <2> QED
    BY <1>0, <2>2, <2>3, <2>4, UpdateStep DEF Steps
<1>8. CASE RemoveFinalizer
  <2>1. PICK o, new : /\ o = [obj EXCEPT !.finalizer = FALSE]
                      /\ new = IF nm[cur].deleting THEN Gone ELSE WithStatus(o, nm[cur])
    OBVIOUS
  <2>2. o \in Object
    BY <1>1, <2>1 DEF Object
  <2>3. new \in Object
    BY <1>1, <2>1, <2>2, WithStatusType, ConstantTypes
  <2>4. pc = "removeFinalizer" /\ Write(new, "idle")
    BY <1>8, <2>1 DEF RemoveFinalizer
  <2>5. ASSUME objFresh, NodesStay
        PROVE  FinalizerOK(new) /\ RequestOK(new, reqs[cur])
    <3>1. new = Gone /\ obj.reason = nm[cur].reason
      BY <1>1, <2>1, <2>4, <2>5 DEF StepOK, Agree
    <3>2. RequestOK(nm[cur], reqs[cur])
      BY <1>1, <2>5 DEF IInv, Guarded
    <3>3. reqs[cur].state = "none"
      BY <1>1, <2>4, <2>5, <3>1, <3>2 DEF StepOK, RequestOK
    <3> QED
      BY <3>1, <3>3, ConstantTypes DEF FinalizerOK, RequestOK
  <2> QED
    BY <1>0, <2>3, <2>4, <2>5, WriteStep DEF Steps
<1>9. CASE MarkWaitStart \/ ResetWaitStart
  <2>1. PICK o, k : /\ o \in {[obj EXCEPT !.waitStart = "set"], [obj EXCEPT !.waitStart = "none"]}
                    /\ k \in {"listPods", "requeue"} /\ Update(o, k)
                    /\ pc \in {"markWaitStart", "resetWaitStart"}
    BY <1>9, SMT DEF MarkWaitStart, ResetWaitStart
  <2>2. /\ o \in Object /\ o.life = obj.life /\ o.reason = obj.reason
        /\ o.deleting = obj.deleting /\ o.finalizer = obj.finalizer
    BY <1>1, <2>1, SMT DEF Object
  <2>3. k # "requeue" => StepOK(k, o, reqs[cur])
    BY <1>1, <2>1, <2>2 DEF StepOK
  <2> QED
    BY <1>0, <2>1, <2>2, <2>3, UpdateStep DEF Steps
<1>10. CASE WaitForPods \/ PodsCompleted
  <2>1. PICK o, k : /\ o = obj /\ k \in {"setReason", "requeue"} /\ StatusUpdate(o, k)
                    /\ pc = "listPods"
    BY <1>10 DEF WaitForPods, PodsCompleted
  <2>2. k # "requeue" => StepOK(k, obj, reqs[cur])
    BY <1>1, <2>1 DEF StepOK
  <2> QED
    BY <1>0, <1>1, <2>1, <2>2, StatusUpdateStep DEF Steps
<1>11. CASE PodCompletionTimeout
  <2>1. /\ pc = "listPods" /\ Proceed("setReason", obj)
        /\ UNCHANGED <<nm, cacheVars, podVars, admin, edits>>
        /\ UNCHANGED <<node, reqs, faults>>
    BY <1>11 DEF PodCompletionTimeout, apiVars
  <2>2. StepOK("setReason", obj, reqs'[cur])
    BY <1>1, <2>1 DEF StepOK
  <2>3. /\ node' \in [Node -> NodeObject] /\ \A n \in Node : node'[n].exists = node[n].exists
        /\ faults' \in 0..MaxFaults /\ reqs' \in [NM -> Request]
        /\ \A y \in NM \ {cur} : reqs'[y] = reqs[y]
        /\ reqs'[cur] = reqs[cur]
    BY <2>1 DEF IInv, TypeOK
  <2> QED
    BY <1>0, <2>1, <2>2, <2>3, KeepStep DEF Steps
<1>12. CASE StartDrain \/ ReportDrained
  <2>1. PICK o, new : o = [obj EXCEPT !.drainStatus = TRUE] /\ new = WithStatus(nm[cur], o)
    OBVIOUS
  <2>2. o \in Object /\ o.reason = obj.reason
    BY <1>1, <2>1 DEF Object
  <2>3. new \in Object
    BY <1>1, <2>1, <2>2, WithStatusType
  <2>4. pc \in {"startDrain", "reportDrained"} /\ obj.reason = "Draining"
    BY <1>1, <1>12 DEF StepOK, StartDrain, ReportDrained
  <2>5. objFresh => /\ Live(new) /\ new.reason = "Draining" /\ new.deleting = obj.deleting
                    /\ new.finalizer = obj.finalizer
                    /\ NodesStay => FinalizerOK(new) /\ RequestOK(new, reqs[cur])
    BY <1>0, <2>1, <2>2, <2>4, StatusKept
  <2>6. CASE Refused(new)
    BY <1>0, <2>3, <2>5, <2>6, RefusedStep
  <2>7. CASE /\ Accepted(new, "requeue")
             /\ reqs' = [reqs EXCEPT ![cur] = [state |-> "started", spec |-> obj.drain,
                                               targets |-> {}]]
    <3>1. objFresh
      BY <2>7 DEF Accepted, Store
    <3>2. reqs' \in [NM -> Request] /\ \A y \in NM \ {cur} : reqs'[y] = reqs[y]
      BY <1>1, <2>7 DEF Object, Request
    <3>3. RequestOK(new, reqs'[cur])
      BY <2>5, <3>1 DEF RequestOK
    <3> QED
      BY <1>0, <2>3, <2>5, <2>7, <3>1, <3>2, <3>3, AcceptedStep
  <2>8. CASE Accepted(new, "setReason") /\ RemoveRequest(cur)
    <3>1. objFresh
      BY <2>8 DEF Accepted, Store
    <3>2. /\ reqs' \in [NM -> Request] /\ \A y \in NM \ {cur} : reqs'[y] = reqs[y]
          /\ reqs'[cur].state = "none"
      BY <1>1, <2>8, ConstantTypes DEF RemoveRequest, NoRequest
    <3>3. RequestOK(new, reqs'[cur]) /\ StepOK("setReason", new, reqs'[cur])
      BY <2>5, <3>1, <3>2 DEF RequestOK, StepOK
    <3> QED
      BY <1>0, <2>3, <2>5, <2>8, <3>1, <3>2, <3>3, AcceptedStep DEF Steps
  <2> QED
    BY <1>12, <2>1, <2>6, <2>7, <2>8 DEF StartDrain, ReportDrained
<1>13. CASE ReportDrain \/ ClearDrainStatus
  <2>1. PICK o, k : /\ o \in {[obj EXCEPT !.drainStatus = TRUE], [obj EXCEPT !.drainStatus = FALSE]}
                    /\ k \in {"setReason", "requeue"} /\ StatusUpdate(o, k)
                    /\ k = "setReason" => pc = "clearDrainStatus"
    BY <1>13, SMT DEF ReportDrain, ClearDrainStatus
  <2>2. o \in Object /\ o.reason = obj.reason
    <3>1. obj \in Object
      BY <1>1
    <3>2. CASE o = [obj EXCEPT !.drainStatus = TRUE]
      BY <3>1, <3>2 DEF Object
    <3>3. CASE o = [obj EXCEPT !.drainStatus = FALSE]
      BY <3>1, <3>3 DEF Object
    <3> QED
      BY <2>1, <3>2, <3>3
  <2>3. k # "requeue" => StepOK(k, obj, reqs[cur])
    BY <1>1, <2>1 DEF StepOK
  <2> QED
    BY <1>0, <2>1, <2>2, <2>3, StatusUpdateStep DEF Steps
<1>14. CASE MarkReady
  <2>1. PICK o : o = [obj EXCEPT !.readyTime = TRUE]
    OBVIOUS
  <2>2. /\ o \in Object /\ o.life = obj.life /\ o.reason = obj.reason
        /\ o.deleting = obj.deleting /\ o.finalizer = obj.finalizer
    BY <1>1, <2>1 DEF Object
  <2>3. PICK k \in {"idle", "setReason"} : pc = "markReady" /\ Update(o, k)
    BY <1>14, <2>1 DEF MarkReady, AfterMarkReady
  <2>4. k # "idle" => StepOK(k, o, reqs[cur])
    BY <1>1, <2>2, <2>3 DEF StepOK
  <2> QED
    BY <1>0, <2>2, <2>3, <2>4, UpdateStep DEF Steps
<1> QED
  BY <1>2, <1>3, <1>4, <1>5, <1>6, <1>7, <1>8, <1>9, <1>10, <1>11, <1>12, <1>13, <1>14,
     SetOwnerRefPreserves DEF Call

\* A step that leaves the objects, the reconcile and the presence of every
\* request alone: drain goroutines, pods, the node cache, administrators.
LEMMA BackgroundStep ==
  ASSUME IInv, UNCHANGED <<nm, nmCache, nmFresh, procVars>>,
         node' \in [Node -> NodeObject], nodeCache' \in [Node -> NodeObject],
         NodesStay => NodesExist',
         pods' \in [Node -> SUBSET Pod], unbound' \subseteq Pod,
         events' \subseteq NM, queue' \subseteq NM,
         reqs' \in [NM -> Request],
         \A y \in NM : reqs'[y].state = "none" <=> reqs[y].state = "none",
         admin' \in [Node -> BOOLEAN], edits' \in 0..MaxEdits, faults' \in 0..MaxFaults
  PROVE  IInv'
<1>1. TypeOK'
  BY DEF IInv, TypeOK, procVars
<1>2. CacheOK'
  BY DEF IInv, CacheOK
<1>3. CopyOK'
  BY DEF IInv, CopyOK, StepOK, procVars
<1>4. NodesStay => Guarded'
  BY DEF IInv, Guarded, FinalizerOK, RequestOK
<1> QED
  BY <1>1, <1>2, <1>3, <1>4 DEF IInv

\* The informers.
LEMMA InformerPreserves ==
  ASSUME IInv, SyncNodeMaintenances \/ SyncNodes \/ \E x \in NM : HandleEvent(x)
  PROVE  IInv'
<1>1. CASE SyncNodeMaintenances
  <2>1. /\ nmCache' = nm /\ nmFresh' = [x \in NM |-> TRUE] /\ events' \subseteq NM
        /\ UNCHANGED <<nm, node, nodeCache, pods, unbound, pc, cur, obj, objFresh, view, queue, reqs,
                       admin, edits, faults>>
    BY <1>1 DEF SyncNodeMaintenances, IInv, TypeOK, apiVars, podVars, procVars
  <2>2. TypeOK'
    BY <2>1 DEF IInv, TypeOK
  <2>3. CacheOK' /\ CopyOK' /\ (NodesStay => NodesExist' /\ Guarded')
    BY <2>1 DEF IInv, CacheOK, CopyOK, NodesExist, Guarded
  <2> QED
    BY <2>2, <2>3 DEF IInv
<1>2. CASE SyncNodes
  <2>1. /\ nodeCache' = node /\ UNCHANGED <<nm, nmCache, nmFresh, procVars>>
        /\ UNCHANGED <<node, pods, unbound, events, queue, reqs, admin, edits, faults>>
    BY <1>2 DEF SyncNodes, apiVars, podVars
  <2>2. NodesStay => NodesExist'
    BY <2>1 DEF IInv, NodesExist
  <2> QED
    BY <2>1, <2>2, BackgroundStep DEF IInv, TypeOK
<1>3. CASE \E x \in NM : HandleEvent(x)
  <2>1. /\ events' \subseteq NM /\ queue' \subseteq NM
        /\ UNCHANGED <<nm, nmCache, nmFresh, procVars>>
        /\ UNCHANGED <<node, nodeCache, pods, unbound, reqs, admin, edits, faults>>
    BY <1>3 DEF HandleEvent, IInv, TypeOK, apiVars, podVars
  <2>2. NodesStay => NodesExist'
    BY <2>1 DEF IInv, NodesExist
  <2> QED
    BY <2>1, <2>2, BackgroundStep DEF IInv, TypeOK
<1> QED
  BY <1>1, <1>2, <1>3

\* The drain goroutines: a request neither appears nor disappears by itself.
LEMMA DrainPreserves ==
  ASSUME IInv, NEW x \in NM, DoDrain(x) \/ DrainError(x)
  PROVE  IInv'
<1>0. /\ NodeName[x] \in Node /\ reqs \in [NM -> Request] /\ pods \in [Node -> SUBSET Pod]
      /\ faults \in 0..MaxFaults
  BY NodeNameAssumption DEF IInv, TypeOK
<1>1. /\ UNCHANGED <<nm, nmCache, nmFresh, procVars>>
      /\ UNCHANGED <<node, nodeCache, unbound, events, queue, admin, edits>>
  BY DEF DoDrain, DrainError, DrainList, DrainEvict, DrainSuccess, apiVars, cacheVars, podVars
<1>2. pods' \in [Node -> SUBSET Pod] /\ faults' \in 0..MaxFaults
  BY <1>0, BoundsAssumption, SMT
     DEF DoDrain, DrainError, DrainList, DrainEvict, DrainSuccess, podVars
<1>3. reqs' \in [NM -> Request] /\ \A y \in NM : reqs'[y].state = "none" <=> reqs[y].state = "none"
  <2>1. CASE DrainList(x)
    BY <1>0, <2>1, ZenonT(30) DEF DrainList, Request
  <2>2. CASE DrainSuccess(x)
    BY <1>0, <2>2 DEF DrainSuccess, SetState, Request
  <2>3. CASE DrainError(x)
    BY <1>0, <2>3 DEF DrainError, SetState, Request
  <2>4. CASE \E p \in Pod : DrainEvict(x, p)
    <3>1. reqs' = reqs
      BY <2>4 DEF DrainEvict
    <3> QED
      BY <1>0, <3>1
  <2> QED
    BY <2>1, <2>2, <2>3, <2>4 DEF DoDrain
<1>4. NodesStay => NodesExist'
  <2>1. NodesStay => NodesExist
    BY DEF IInv
  <2> QED
    BY <1>1, <2>1 DEF NodesExist
<1> QED
  BY <1>1, <1>2, <1>3, <1>4, BackgroundStep DEF IInv, TypeOK

\* Users, the scheduler controller, administrators and restarts.
LEMMA EnvironmentPreserves ==
  ASSUME IInv, Environment
  PROVE  IInv'
<1>0. /\ edits \in 0..MaxEdits /\ faults \in 0..MaxFaults
      /\ nm \in [NM -> Object] /\ node \in [Node -> NodeObject]
      /\ NodesStay => \A x \in NM : FinalizerOK(nm[x]) /\ RequestOK(nm[x], reqs[x])
  BY DEF IInv, TypeOK, Guarded
<1>1. ASSUME NEW x \in NM, Create(x) PROVE IInv'
  <2>1. PICK s \in Specs : /\ nm[x].life = "unborn"
                           /\ OtherWrite(x, [Unborn EXCEPT !.life = "live", !.cordon = s.cordon,
                                                           !.wait = s.wait, !.drain = s.drain])
                           /\ UNCHANGED edits
    BY <1>1 DEF Create
  <2>2. PICK new : new = [Unborn EXCEPT !.life = "live", !.cordon = s.cordon,
                                        !.wait = s.wait, !.drain = s.drain]
    OBVIOUS
  <2>3. new \in Object /\ new.reason = "Uninitialized"
    <3>1. s.cordon \in BOOLEAN /\ s.wait \in BOOLEAN /\ s.drain \in DrainSpec \cup {Nil}
      BY SpecsAssumption DEF MaintenanceSpec
    <3>2. Unborn \in Object /\ Unborn.reason = "Uninitialized"
      BY ConstantTypes DEF Unborn
    <3> QED
      BY <2>2, <3>1, <3>2 DEF Object
  <2>4. NodesStay => FinalizerOK(new) /\ RequestOK(new, reqs[x])
    BY <1>0, <2>1, <2>3 DEF FinalizerOK, RequestOK, Live
  <2> QED
    BY <1>0, <2>1, <2>2, <2>3, <2>4, OtherWriteStep
<1>2. ASSUME NEW x \in NM, Delete(x) PROVE IInv'
  <2>1. PICK new : /\ new = IF nm[x].finalizer THEN [nm[x] EXCEPT !.deleting = TRUE] ELSE Gone
                   /\ OtherWrite(x, new) /\ Live(nm[x]) /\ UNCHANGED edits
    BY <1>2 DEF Delete
  <2>2. CASE nm[x].finalizer
    <3>1. /\ new \in Object /\ new.life = nm[x].life /\ new.reason = nm[x].reason
          /\ new.finalizer = nm[x].finalizer
      BY <1>0, <2>1, <2>2, ZenonT(30) DEF Object
    <3>2. NodesStay => FinalizerOK(new) /\ RequestOK(new, reqs[x])
      BY <1>0, <3>1 DEF FinalizerOK, RequestOK, Live
    <3> QED
      BY <1>0, <2>1, <3>1, <3>2, OtherWriteStep
  <2>3. CASE ~nm[x].finalizer
    <3>1. new = Gone /\ new \in Object
      BY <2>1, <2>3, ConstantTypes
    <3>2. NodesStay => nm[x].reason \in {"Uninitialized", "Pending", "Scheduled"}
      BY <1>0, <2>1, <2>3 DEF FinalizerOK
    <3>3. NodesStay => FinalizerOK(new) /\ RequestOK(new, reqs[x])
      BY <1>0, <3>1, <3>2, ConstantTypes DEF FinalizerOK, RequestOK
    <3> QED
      BY <1>0, <2>1, <3>1, <3>3, OtherWriteStep
  <2> QED
    BY <2>2, <2>3
<1>3. ASSUME NEW x \in NM, Schedule(x) PROVE IInv'
  <2>1. PICK new : /\ new = [nm[x] EXCEPT !.reason = "Scheduled"] /\ OtherWrite(x, new)
                   /\ nm[x].reason \in {"Uninitialized", "Pending"} /\ UNCHANGED edits
    BY <1>3 DEF Schedule, IsUnderMaintenance
  <2>2. new \in Object /\ new.reason = "Scheduled"
    BY <1>0, <2>1, SMT DEF Object, Reason
  <2>3. NodesStay => FinalizerOK(new) /\ RequestOK(new, reqs[x])
    BY <1>0, <2>1, <2>2 DEF FinalizerOK, RequestOK
  <2> QED
    BY <1>0, <2>1, <2>2, <2>3, OtherWriteStep
<1>4. ASSUME NEW x \in NM, EditObject(x) PROVE IInv'
  <2>1. PICK new : /\ \/ new = [nm[x] EXCEPT !.cordon = ~@]
                      \/ \E d \in DrainSpec \cup {Nil} : new = [nm[x] EXCEPT !.drain = d]
                      \/ new = [nm[x] EXCEPT !.requestors = ~@]
                      \/ new = [nm[x] EXCEPT !.failed = ~@]
                      \/ new = [nm[x] EXCEPT !.waitStart = "invalid"]
                   /\ OtherWrite(x, new) /\ edits < MaxEdits /\ edits' = edits + 1
    BY <1>4 DEF EditObject, Edit
  <2>2. /\ new \in Object /\ new.life = nm[x].life /\ new.reason = nm[x].reason
        /\ new.finalizer = nm[x].finalizer
    <3>0. nm[x] \in Object
      BY <1>0
    <3>1. CASE new = [nm[x] EXCEPT !.cordon = ~@]
      BY <3>0, <3>1 DEF Object
    <3>2. CASE \E d \in DrainSpec \cup {Nil} : new = [nm[x] EXCEPT !.drain = d]
      BY <3>0, <3>2 DEF Object
    <3>3. CASE new = [nm[x] EXCEPT !.requestors = ~@]
      BY <3>0, <3>3 DEF Object
    <3>4. CASE new = [nm[x] EXCEPT !.failed = ~@]
      BY <3>0, <3>4 DEF Object
    <3>5. CASE new = [nm[x] EXCEPT !.waitStart = "invalid"]
      BY <3>0, <3>5 DEF Object
    <3> QED
      BY <2>1, <3>1, <3>2, <3>3, <3>4, <3>5
  <2>3. NodesStay => FinalizerOK(new) /\ RequestOK(new, reqs[x])
    BY <1>0, <2>2 DEF FinalizerOK, RequestOK, Live
  <2>4. edits' \in 0..MaxEdits
    BY <1>0, <2>1, BoundsAssumption, SMT
  <2> QED
    BY <2>1, <2>2, <2>3, <2>4, OtherWriteStep
<1>5. ASSUME NEW n \in Node, AdminCordon(n) PROVE IInv'
  <2>1. /\ node' = [node EXCEPT ![n].unsched = ~@]
        /\ UNCHANGED <<nm, nmCache, nmFresh, procVars>>
        /\ UNCHANGED <<nodeCache, events, pods, unbound, queue, reqs, faults>>
        /\ edits < MaxEdits /\ edits' = edits + 1
        /\ admin' = [admin EXCEPT ![n] = ~node[n].unsched]
    BY <1>5 DEF AdminCordon, Edit, cacheVars, podVars
  <2>2. node' \in [Node -> NodeObject] /\ \A m \in Node : node'[m].exists = node[m].exists
    BY <1>0, <2>1 DEF NodeObject
  <2>3. NodesStay => NodesExist'
    BY <2>1, <2>2 DEF IInv, NodesExist
  <2>4. edits' \in 0..MaxEdits
    BY <1>0, <2>1, BoundsAssumption, SMT
  <2>5. admin' \in [Node -> BOOLEAN]
    BY <2>1 DEF IInv, TypeOK
  <2> QED
    BY <2>1, <2>2, <2>3, <2>4, <2>5, BackgroundStep DEF IInv, TypeOK
<1>6. ASSUME NEW n \in Node, RemoveNode(n) PROVE IInv'
  <2>1. /\ node' = [node EXCEPT ![n] = NoView] /\ pods' = [pods EXCEPT ![n] = {}]
        /\ UNCHANGED <<nm, nmCache, nmFresh, procVars>>
        /\ UNCHANGED <<nodeCache, events, unbound, queue, reqs, faults>>
        /\ edits < MaxEdits /\ edits' = edits + 1 /\ ~NodesStay
        /\ admin' = [admin EXCEPT ![n] = FALSE]
    BY <1>6 DEF RemoveNode, Edit, NodesStay, cacheVars, podVars
  <2>2. node' \in [Node -> NodeObject] /\ pods' \in [Node -> SUBSET Pod]
    BY <2>1, ConstantTypes DEF IInv, TypeOK
  <2>3. edits' \in 0..MaxEdits
    BY <1>0, <2>1, BoundsAssumption, SMT
  <2>4. admin' \in [Node -> BOOLEAN]
    BY <2>1 DEF IInv, TypeOK
  <2> QED
    BY <2>1, <2>2, <2>3, <2>4, BackgroundStep DEF IInv, TypeOK
<1>7. ASSUME NEW p \in Pod, NEW n \in Node, BindPod(p, n) PROVE IInv'
  <2>1. /\ pods' = [pods EXCEPT ![n] = @ \cup {p}] /\ unbound' = unbound \ {p}
        /\ UNCHANGED <<nm, nmCache, nmFresh, procVars>>
        /\ UNCHANGED <<node, nodeCache, events, queue, reqs, admin, edits, faults>>
    BY <1>7 DEF BindPod, apiVars, cacheVars
  <2>2. pods' \in [Node -> SUBSET Pod] /\ unbound' \subseteq Pod
    BY <2>1 DEF IInv, TypeOK
  <2>3. NodesStay => NodesExist'
    BY <2>1 DEF IInv, NodesExist
  <2> QED
    BY <2>1, <2>2, <2>3, BackgroundStep DEF IInv, TypeOK
<1>8. CASE Restart
  <2>1. /\ pc' = "idle" /\ cur' = Nil /\ obj' = Unborn /\ objFresh' = FALSE /\ view' = NoView
        /\ reqs' = [x \in NM |-> NoRequest]
        /\ nmCache' = nm /\ nmFresh' = [x \in NM |-> TRUE] /\ nodeCache' = node
        /\ events' \subseteq NM /\ queue' = {}
        /\ UNCHANGED <<nm, node, pods, unbound, admin, edits>>
        /\ faults < MaxFaults /\ faults' = faults + 1
    BY <1>8 DEF Restart, apiVars, podVars
  <2>2. faults' \in 0..MaxFaults
    BY <1>0, <2>1, BoundsAssumption, SMTT(30)
  <2>3. TypeOK'
    BY <2>1, <2>2, ConstantTypes DEF IInv, TypeOK, Steps
  <2>4. CacheOK' /\ CopyOK'
    BY <2>1 DEF CacheOK, CopyOK
  <2>5. NodesStay => NodesExist' /\ Guarded'
    BY <1>0, <2>1 DEF IInv, NodesExist, Guarded, RequestOK, NoRequest
  <2> QED
    BY <2>3, <2>4, <2>5 DEF IInv
<1> QED
  BY <1>1, <1>2, <1>3, <1>4, <1>5, <1>6, <1>7, <1>8 DEF Environment

-----------------------------------------------------------------------------
(* Theorems. *)

\* The invariant holds in the initial states.
LEMMA InitIInv == Init => IInv
<1> SUFFICES ASSUME Init PROVE IInv
  OBVIOUS
<1>1. \A n \in Node : node[n].exists = TRUE /\ nodeCache[n].exists = TRUE
  BY DEF Init
<1>2. node \in [Node -> NodeObject] /\ nodeCache \in [Node -> NodeObject]
  BY DEF Init, NodeObject
<1>3. /\ nm = [x \in NM |-> Unborn] /\ nmCache = nm /\ nmFresh = [x \in NM |-> TRUE]
      /\ reqs = [x \in NM |-> NoRequest] /\ pc = "idle" /\ objFresh = FALSE
  BY DEF Init
<1>4. TypeOK
  <2>1. /\ nm \in [NM -> Object] /\ nmCache \in [NM -> Object] /\ nmFresh \in [NM -> BOOLEAN]
        /\ reqs \in [NM -> Request]
    BY <1>3, ConstantTypes
  <2>2. /\ pods \in [Node -> SUBSET Pod] /\ unbound \subseteq Pod /\ admin \in [Node -> BOOLEAN]
        /\ events \subseteq NM /\ queue \subseteq NM
    BY DEF Init
  <2>3. /\ pc \in Steps /\ cur \in NM \cup {Nil} /\ obj \in Object /\ objFresh \in BOOLEAN
        /\ view \in NodeObject
    BY ConstantTypes DEF Init, Steps
  <2>4. edits \in 0..MaxEdits /\ faults \in 0..MaxFaults
    BY BoundsAssumption, SMT DEF Init
  <2> QED
    BY <1>2, <2>1, <2>2, <2>3, <2>4 DEF TypeOK
<1>5. CacheOK /\ CopyOK
  BY <1>3 DEF CacheOK, CopyOK
<1>6. NodesExist /\ Guarded
  BY <1>1, <1>3, ConstantTypes DEF NodesExist, Guarded, FinalizerOK, RequestOK, NoRequest
<1> QED
  BY <1>4, <1>5, <1>6 DEF IInv

\* Every step preserves the invariant.
LEMMA NextIInv == IInv /\ [Next]_vars => IInv'
<1> SUFFICES ASSUME IInv, [Next]_vars PROVE IInv'
  OBVIOUS
<1>1. CASE UNCHANGED vars
  BY <1>1 DEF vars, IInv, TypeOK, CacheOK, CopyOK, NodesExist, Guarded
<1>2. CASE Next
  BY <1>2, ReconcilePreserves, HandlerPreserves, CallPreserves, InformerPreserves,
     DrainPreserves, EnvironmentPreserves DEF Next, Reconciler
<1> QED
  BY <1>1, <1>2

\* Type correctness, for every instance: whatever conflicts, faults, restarts
\* and stale copies the reconciler meets, its state stays well-formed.
THEOREM TypeCorrect == Spec => []TypeOK
<1>1. IInv => TypeOK
  BY DEF IInv
<1> QED
  BY <1>1, InitIInv, NextIInv, PTL DEF Spec

\* As long as nodes are not removed, an object past the Scheduled state holds
\* its finalizer: a write from a stale copy is refused, and a copy of the
\* current version carries the finalizer that handleScheduledState added.
THEOREM FinalizerAlwaysHeld == NodesStay => (Spec => []FinalizerHeld)
<1> SUFFICES ASSUME NodesStay PROVE Spec => []FinalizerHeld
  OBVIOUS
<1>1. IInv => FinalizerHeld
  BY DEF IInv, Guarded, FinalizerOK, FinalizerHeld
<1> QED
  BY <1>1, InitIInv, NextIInv, PTL DEF Spec

\* As long as nodes are not removed, the drain manager holds a request only for
\* an object that exists and is Draining: every way out of handleDrainState
\* removes the request before the write that makes the object leave the state.
THEOREM NeverStrayDrain == NodesStay => (Spec => []NoStrayDrain)
<1> SUFFICES ASSUME NodesStay PROVE Spec => []NoStrayDrain
  OBVIOUS
<1>1. IInv => NoStrayDrain
  BY DEF IInv, Guarded, RequestOK, NoStrayDrain
<1> QED
  BY <1>1, InitIInv, NextIInv, PTL DEF Spec

-----------------------------------------------------------------------------
(* NodeMaintenance implements MaintenanceLifecycle, node removals included. *)
(* A write that the API server accepts was made from a copy of the current  *)
(* version, so that the reason it advances is the stored one (CopyOK of the *)
(* inductive invariant); everything else keeps the phase, or is one of the  *)
(* four steps of other actors.                                              *)

\* A write of object x changes the phase of x only.
LEMMA PhaseOfWrite ==
  ASSUME TypeOK, NEW x \in NM, NEW new \in Object, nm' = [nm EXCEPT ![x] = new]
  PROVE  /\ Phase' = [Phase EXCEPT ![x] = PhaseOf(new)]
         /\ PhaseOf(new) = PhaseOf(nm[x]) => Phase' = Phase
<1>1. nm \in [NM -> Object] /\ nm' \in [NM -> Object]
  BY DEF TypeOK
<1>2. \A y \in NM : nm'[y] = IF y = x THEN new ELSE nm[y]
  BY <1>1
<1>3. Phase' = [y \in NM |-> PhaseOf(nm'[y])]
  BY DEF Phase
<1>4. Phase = [y \in NM |-> PhaseOf(nm[y])]
  BY DEF Phase
<1> QED
  BY <1>2, <1>3, <1>4, SMT

\* A change of one flag of an object leaves an object in the same phase.
LEMMA FlagChange ==
  ASSUME NEW o \in Object, NEW b \in BOOLEAN, NEW new,
         \/ new = [o EXCEPT !.deleting = b]
         \/ new = [o EXCEPT !.finalizer = b]
         \/ new = [o EXCEPT !.owner = b]
         \/ new = [o EXCEPT !.readyTime = b]
         \/ new = [o EXCEPT !.drainStatus = b]
  PROVE  new \in Object /\ new.life = o.life /\ new.reason = o.reason
<1>1. CASE new = [o EXCEPT !.deleting = b]
  BY <1>1 DEF Object
<1>2. CASE new = [o EXCEPT !.finalizer = b]
  BY <1>2 DEF Object
<1>3. CASE new = [o EXCEPT !.owner = b]
  BY <1>3 DEF Object
<1>4. CASE new = [o EXCEPT !.readyTime = b]
  BY <1>4 DEF Object
<1>5. CASE new = [o EXCEPT !.drainStatus = b]
  BY <1>5 DEF Object
<1> QED
  BY <1>1, <1>2, <1>3, <1>4, <1>5

\* So does a change of an annotation.
LEMMA AnnotationChange ==
  ASSUME NEW o \in Object, NEW new,
         \/ \E i \in {"none", "true", "false"} : new = [o EXCEPT !.initial = i]
         \/ \E w \in {"none", "set", "invalid"} : new = [o EXCEPT !.waitStart = w]
  PROVE  new \in Object /\ new.life = o.life /\ new.reason = o.reason
<1>1. ASSUME NEW i \in {"none", "true", "false"}, new = [o EXCEPT !.initial = i]
      PROVE  new \in Object /\ new.life = o.life /\ new.reason = o.reason
  BY <1>1 DEF Object
<1>2. ASSUME NEW w \in {"none", "set", "invalid"}, new = [o EXCEPT !.waitStart = w]
      PROVE  new \in Object /\ new.life = o.life /\ new.reason = o.reason
  BY <1>2 DEF Object
<1> QED
  BY <1>1, <1>2

\* The phase of a live object is its reason.
LEMMA PhaseOfLive ==
  ASSUME NEW o \in Object, Live(o)
  PROVE  PhaseOf(o) = o.reason
BY DEF PhaseOf, Live, Object

\* A removed object is in phase gone.
LEMMA PhaseOfGone == PhaseOf(Gone) = "gone"
BY DEF PhaseOf, Gone, Unborn

\* A write of the reconciler that keeps the phase of the stored object.
LEMMA WriteKeepsPhase ==
  ASSUME TypeOK, cur \in NM, NEW new \in Object, UNCHANGED nm \/ Store(new),
         objFresh => PhaseOf(new) = PhaseOf(nm[cur])
  PROVE  Phase' = Phase
<1>1. CASE UNCHANGED nm
  BY <1>1 DEF Phase
<1>2. CASE Store(new)
  BY <1>2, PhaseOfWrite DEF Store
<1> QED
  BY <1>1, <1>2

\* What a write does to the stored objects.
LEMMA WriteStores ==
  ASSUME NEW new, NEW k, Write(new, k) \/ Accepted(new, k) \/ Refused(new) \/ Fails(new)
  PROVE  UNCHANGED nm \/ Store(new)
BY DEF Write, Accepted, Refused, Fails

\* The calls of a reconcile: setReason takes a step of the diagram,
\* removeFinalizer may remove the object, every other call keeps the phase.
LEMMA CallSteps ==
  ASSUME IInv, Call
  PROVE  [Lifecycle!LNext]_Phase
<1>0. pc # "idle"
  BY
     DEF Call, SetOwnerRef, AddFinalizer, SetReadyConditionReason, RecordInitialState, CordonNode,
         UncordonNode, ClearInitialState, RemoveFinalizer, MarkWaitStart, ResetWaitStart,
         WaitForPods, PodsCompleted, PodCompletionTimeout, StartDrain, ReportDrain, ReportDrained,
         ClearDrainStatus, MarkReady
<1>1. /\ TypeOK /\ cur \in NM /\ obj \in Object /\ nm[cur] \in Object /\ Live(obj)
      /\ (objFresh => Live(nm[cur]) /\ nm[cur].reason = obj.reason /\ nm[cur].deleting = obj.deleting)
  BY <1>0 DEF IInv, TypeOK, CopyOK, Agree, Live
<1>2. ASSUME NEW o \in Object, o.life = obj.life,
             UNCHANGED nm \/ Store(WithStatus(o, nm[cur]))
      PROVE  Phase' = Phase
  <2>1. PICK new : new = WithStatus(o, nm[cur])
    OBVIOUS
  <2>2. new \in Object /\ new.life = o.life /\ new.reason = nm[cur].reason
    BY <1>1, <1>2, <2>1, WithStatusType
  <2>3. objFresh => PhaseOf(new) = PhaseOf(nm[cur])
    BY <1>1, <1>2, <2>2, PhaseOfLive DEF Live
  <2> QED
    BY <1>1, <1>2, <2>1, <2>2, <2>3, WriteKeepsPhase
<1>3. ASSUME NEW o \in Object, o.reason = obj.reason,
             UNCHANGED nm \/ Store(WithStatus(nm[cur], o))
      PROVE  Phase' = Phase
  <2>1. PICK new : new = WithStatus(nm[cur], o)
    OBVIOUS
  <2>2. new \in Object /\ new.life = nm[cur].life /\ new.reason = o.reason
    BY <1>1, <1>3, <2>1, WithStatusType
  <2>3. objFresh => PhaseOf(new) = PhaseOf(nm[cur])
    BY <1>1, <1>3, <2>2, PhaseOfLive DEF Live
  <2> QED
    BY <1>1, <1>3, <2>1, <2>2, <2>3, WriteKeepsPhase
<1>4. CASE \/ SetOwnerRef \/ AddFinalizer \/ RecordInitialState \/ ClearInitialState
           \/ MarkWaitStart \/ ResetWaitStart \/ MarkReady
  <2>1. PICK o : /\ \/ o = [obj EXCEPT !.owner = TRUE] \/ o = [obj EXCEPT !.finalizer = TRUE]
                    \/ o = [obj EXCEPT !.initial = IF view.unsched THEN "true" ELSE "false"]
                    \/ o = [obj EXCEPT !.initial = "none"]
                    \/ o = [obj EXCEPT !.waitStart = "set"]
                    \/ o = [obj EXCEPT !.waitStart = "none"]
                    \/ o = [obj EXCEPT !.readyTime = TRUE]
                 /\ UNCHANGED nm \/ Store(WithStatus(o, nm[cur]))
    BY <1>4, WriteStores DEF SetOwnerRef, AddFinalizer, RecordInitialState, ClearInitialState,
                             MarkWaitStart, ResetWaitStart, MarkReady, Update
  <2>2. o \in Object /\ o.life = obj.life
    <3>1. obj \in Object
      BY <1>1
    <3>2. CASE o = [obj EXCEPT !.owner = TRUE] \/ o = [obj EXCEPT !.finalizer = TRUE]
               \/ o = [obj EXCEPT !.readyTime = TRUE]
      BY <3>1, <3>2, FlagChange
    <3>3. CASE \E i \in {"none", "true", "false"} : o = [obj EXCEPT !.initial = i]
      BY <3>1, <3>3, AnnotationChange
    <3>4. CASE \E w \in {"none", "set", "invalid"} : o = [obj EXCEPT !.waitStart = w]
      BY <3>1, <3>4, AnnotationChange
    <3> QED
      BY <2>1, <3>2, <3>3, <3>4
  <2> QED
    BY <1>2, <2>1, <2>2
<1>5. CASE WaitForPods \/ PodsCompleted \/ StartDrain \/ ReportDrain \/ ReportDrained
           \/ ClearDrainStatus
  <2>1. PICK o : /\ \/ o = obj \/ o = [obj EXCEPT !.drainStatus = TRUE]
                    \/ o = [obj EXCEPT !.drainStatus = FALSE]
                 /\ UNCHANGED nm \/ Store(WithStatus(nm[cur], o))
    BY <1>5, WriteStores DEF WaitForPods, PodsCompleted, StartDrain, ReportDrain, ReportDrained,
                             ClearDrainStatus, StatusUpdate
  <2>2. o \in Object /\ o.reason = obj.reason
    <3>1. obj \in Object
      BY <1>1
    <3>2. CASE o = [obj EXCEPT !.drainStatus = TRUE] \/ o = [obj EXCEPT !.drainStatus = FALSE]
      BY <3>1, <3>2, FlagChange
    <3> QED
      BY <2>1, <3>1, <3>2
  <2> QED
    BY <1>3, <2>1, <2>2
<1>6. CASE CordonNode \/ UncordonNode \/ PodCompletionTimeout
  <2>1. UNCHANGED nm
    BY <1>6 DEF CordonNode, UncordonNode, PatchNode, PodCompletionTimeout, apiVars
  <2> QED
    BY <2>1 DEF Phase
<1>7. CASE SetReadyConditionReason
  <2>1. PICK o, new : /\ o = [obj EXCEPT !.reason = NextReason(obj)]
                      /\ new = WithStatus(nm[cur], o)
    OBVIOUS
  <2>2. o \in Object /\ o.reason = NextReason(obj)
    BY <1>1, <2>1, NextReasonType DEF Object
  <2>3. new \in Object /\ new.life = nm[cur].life /\ new.reason = NextReason(obj)
    BY <1>1, <2>1, <2>2, WithStatusType
  <2>4. UNCHANGED nm \/ Store(new)
    BY <1>7, <2>1, WriteStores DEF SetReadyConditionReason, StatusUpdate
  <2>5. CASE UNCHANGED nm
    BY <2>5 DEF Phase
  <2>6. CASE Store(new)
    <3>1. Live(nm[cur]) /\ Live(new) /\ nm[cur].reason = obj.reason
      BY <1>1, <2>3, <2>6 DEF Store, Live
    <3>2. Phase' = [Phase EXCEPT ![cur] = NextReason(obj)] /\ Phase[cur] = obj.reason
      <4>1. nm' = [nm EXCEPT ![cur] = new]
        BY <2>6 DEF Store
      <4>2. PhaseOf(new) = NextReason(obj) /\ PhaseOf(nm[cur]) = obj.reason
        BY <1>1, <2>3, <3>1, PhaseOfLive
      <4>3. Phase' = [Phase EXCEPT ![cur] = NextReason(obj)]
        BY <1>1, <2>3, <4>1, <4>2, PhaseOfWrite
      <4>4. Phase[cur] = obj.reason
        BY <1>1, <4>2 DEF Phase
      <4> QED
        BY <4>3, <4>4
    <3>3. \/ obj.reason = "Uninitialized" /\ NextReason(obj) = "Pending"
          \/ <<obj.reason, NextReason(obj)>> \in Lifecycle!Preparation \cup Lifecycle!Outcome
          \/ NextReason(obj) = obj.reason
      BY DEF NextReason, Lifecycle!Preparation, Lifecycle!Outcome
    <3>4. CASE obj.reason = "Uninitialized" /\ NextReason(obj) = "Pending"
      BY <1>1, <3>2, <3>4 DEF Lifecycle!LNext, Lifecycle!Admit, Lifecycle!Become
    <3>5. CASE <<obj.reason, NextReason(obj)>> \in Lifecycle!Preparation \cup Lifecycle!Outcome
      <4>1. Lifecycle!Advance(cur)
        BY <3>2, <3>5 DEF Lifecycle!Advance, Lifecycle!Become
      <4> QED
        BY <1>1, <4>1 DEF Lifecycle!LNext
    <3>6. CASE NextReason(obj) = obj.reason
      BY <3>2, <3>6 DEF Phase
    <3> QED
      BY <3>3, <3>4, <3>5, <3>6
  <2> QED
    BY <2>4, <2>5, <2>6
<1>8. CASE RemoveFinalizer
  <2>1. PICK o : o = [obj EXCEPT !.finalizer = FALSE]
    OBVIOUS
  <2>2. o \in Object /\ o.life = obj.life
    BY <1>1, <2>1, FlagChange
  <2>3. \/ UNCHANGED nm \/ Store(WithStatus(o, nm[cur]))
        \/ Store(Gone)
    BY <1>8, <2>1, WriteStores DEF RemoveFinalizer
  <2>4. CASE UNCHANGED nm \/ Store(WithStatus(o, nm[cur]))
    BY <1>2, <2>2, <2>4
  <2>5. CASE Store(Gone)
    <3>1. Live(nm[cur]) /\ nm' = [nm EXCEPT ![cur] = Gone]
      BY <1>1, <2>5 DEF Store
    <3>2. Phase' = [Phase EXCEPT ![cur] = "gone"]
      BY <1>1, <3>1, PhaseOfWrite, PhaseOfGone, ConstantTypes
    <3>3. Phase[cur] = nm[cur].reason /\ nm[cur].reason \in Reason
      BY <1>1, <3>1, PhaseOfLive DEF Phase, Object
    <3>4. Lifecycle!Remove(cur)
      BY <3>2, <3>3 DEF Lifecycle!Remove, Lifecycle!Become, Reason
    <3> QED
      BY <1>1, <3>4 DEF Lifecycle!LNext
  <2> QED
    BY <2>3, <2>4, <2>5
<1> QED
  BY <1>4, <1>5, <1>6, <1>7, <1>8 DEF Call

\* The steps of users and of the scheduler controller.
LEMMA EnvironmentSteps ==
  ASSUME IInv, Environment
  PROVE  [Lifecycle!LNext]_Phase
<1>0. TypeOK /\ nm \in [NM -> Object]
  BY DEF IInv, TypeOK
<1>1. ASSUME NEW x \in NM, Create(x) PROVE Lifecycle!LNext
  <2>1. PICK s \in Specs : /\ nm[x].life = "unborn"
                           /\ OtherWrite(x, [Unborn EXCEPT !.life = "live", !.cordon = s.cordon,
                                                           !.wait = s.wait, !.drain = s.drain])
    BY <1>1 DEF Create
  <2>2. PICK new : new = [Unborn EXCEPT !.life = "live", !.cordon = s.cordon,
                                        !.wait = s.wait, !.drain = s.drain]
    OBVIOUS
  <2>3. new \in Object /\ new.reason = "Uninitialized" /\ Live(new)
    <3>1. s.cordon \in BOOLEAN /\ s.wait \in BOOLEAN /\ s.drain \in DrainSpec \cup {Nil}
      BY SpecsAssumption DEF MaintenanceSpec
    <3>2. Unborn \in Object /\ Unborn.reason = "Uninitialized"
      BY ConstantTypes DEF Unborn
    <3> QED
      BY <2>2, <3>1, <3>2 DEF Object, Live
  <2>4. Phase' = [Phase EXCEPT ![x] = "Uninitialized"]
    <3>1. nm' = [nm EXCEPT ![x] = new]
      BY <2>1, <2>2 DEF OtherWrite
    <3>2. PhaseOf(new) = "Uninitialized"
      BY <2>3, PhaseOfLive
    <3> QED
      BY <1>0, <2>3, <3>1, <3>2, PhaseOfWrite
  <2>5. Phase[x] = "none"
    BY <2>1 DEF Phase, PhaseOf
  <2> QED
    BY <2>4, <2>5 DEF Lifecycle!LNext, Lifecycle!Register, Lifecycle!Become
<1>2. ASSUME NEW x \in NM, Delete(x) PROVE [Lifecycle!LNext]_Phase
  <2>1. PICK new : /\ new = IF nm[x].finalizer THEN [nm[x] EXCEPT !.deleting = TRUE] ELSE Gone
                   /\ nm' = [nm EXCEPT ![x] = new] /\ Live(nm[x])
    BY <1>2 DEF Delete, OtherWrite
  <2>2. CASE nm[x].finalizer
    <3>1. new \in Object /\ new.life = nm[x].life /\ new.reason = nm[x].reason
      <4>1. nm[x] \in Object /\ new = [nm[x] EXCEPT !.deleting = TRUE]
        BY <1>0, <2>1, <2>2
      <4> QED
        BY <4>1, FlagChange
    <3>2. PhaseOf(new) = PhaseOf(nm[x])
      BY <3>1 DEF PhaseOf
    <3> QED
      BY <1>0, <2>1, <3>1, <3>2, PhaseOfWrite
  <2>3. CASE ~nm[x].finalizer
    <3>1. Phase' = [Phase EXCEPT ![x] = "gone"]
      BY <1>0, <2>1, <2>3, PhaseOfWrite, PhaseOfGone, ConstantTypes
    <3>2. Phase[x] = nm[x].reason /\ nm[x].reason \in Reason
      BY <1>0, <2>1, PhaseOfLive DEF Phase, Object
    <3>3. Lifecycle!Remove(x)
      BY <3>1, <3>2 DEF Lifecycle!Remove, Lifecycle!Become, Reason
    <3> QED
      BY <3>3 DEF Lifecycle!LNext
  <2> QED
    BY <2>2, <2>3
<1>3. ASSUME NEW x \in NM, Schedule(x) PROVE Lifecycle!LNext
  <2>1. PICK new : /\ new = [nm[x] EXCEPT !.reason = "Scheduled"]
                   /\ nm' = [nm EXCEPT ![x] = new] /\ Live(nm[x])
                   /\ nm[x].reason \in {"Uninitialized", "Pending"}
                   /\ \A y \in NM : NodeName[y] = NodeName[x] => ~Maintained(nm[y])
    BY <1>3 DEF Schedule, OtherWrite, IsUnderMaintenance
  <2>2. new \in Object /\ new.reason = "Scheduled" /\ Live(new)
    BY <1>0, <2>1, SMT DEF Object, Reason, Live
  <2>3. Phase' = [Phase EXCEPT ![x] = "Scheduled"] /\ Phase[x] \in Lifecycle!Waiting
    BY <1>0, <2>1, <2>2, PhaseOfWrite, PhaseOfLive DEF Phase, Lifecycle!Waiting
  <2>4. \A y \in NM : NodeName[y] = NodeName[x] => ~Lifecycle!InMaintenance(y)
    <3> SUFFICES ASSUME NEW y \in NM, ~Maintained(nm[y])
                 PROVE  ~Lifecycle!InMaintenance(y)
      BY <2>1
    <3>1. nm[y] \in Object /\ Phase[y] = PhaseOf(nm[y])
      BY <1>0 DEF Phase
    <3> QED
      BY <3>1 DEF Maintained, IsUnderMaintenance, Live, PhaseOf, Object,
                  Lifecycle!InMaintenance, Lifecycle!Waiting
  <2>5. Lifecycle!Select(x)
    BY <2>3, <2>4 DEF Lifecycle!Select, Lifecycle!Become
  <2> QED
    BY <2>5 DEF Lifecycle!LNext
<1>4. ASSUME NEW x \in NM, EditObject(x) PROVE Phase' = Phase
  <2>1. PICK new : /\ \/ new = [nm[x] EXCEPT !.cordon = ~@]
                      \/ \E d \in DrainSpec \cup {Nil} : new = [nm[x] EXCEPT !.drain = d]
                      \/ new = [nm[x] EXCEPT !.requestors = ~@]
                      \/ new = [nm[x] EXCEPT !.failed = ~@]
                      \/ new = [nm[x] EXCEPT !.waitStart = "invalid"]
                   /\ nm' = [nm EXCEPT ![x] = new]
    BY <1>4 DEF EditObject, OtherWrite
  <2>2. new.life = nm[x].life /\ new.reason = nm[x].reason
    BY <1>0, <2>1 DEF Object
  <2>3. \A y \in NM : nm'[y] = IF y = x THEN new ELSE nm[y]
    BY <1>0, <2>1
  <2>4. \A y \in NM : PhaseOf(nm'[y]) = PhaseOf(nm[y])
    BY <2>2, <2>3 DEF PhaseOf
  <2> QED
    BY <2>4 DEF Phase
<1>5. CASE \/ \E n \in Node : AdminCordon(n) \/ RemoveNode(n)
           \/ \E p \in Pod, n \in Node : BindPod(p, n)
           \/ Restart
  <2>1. UNCHANGED nm
    BY <1>5 DEF AdminCordon, RemoveNode, BindPod, Restart, apiVars
  <2> QED
    BY <2>1 DEF Phase
<1> QED
  BY <1>1, <1>2, <1>3, <1>4, <1>5 DEF Environment

\* NodeMaintenance implements the documented state diagram, for every instance:
\* whatever stale copies the reconciler works from, and whatever is lost in
\* between, no object skips, repeats or reverses a state, and no second object
\* of a node is scheduled while one is under maintenance.
THEOREM RefinesLifecycle == Spec => ImplementsLifecycle
<1>1. Init => Lifecycle!LInit
  BY SMT DEF Init, Lifecycle!LInit, Phase, PhaseOf, Unborn
<1>2. IInv /\ [Next]_vars => [Lifecycle!LNext]_Phase
  <2> SUFFICES ASSUME IInv, [Next]_vars PROVE [Lifecycle!LNext]_Phase
    OBVIOUS
  <2>1. CASE UNCHANGED nm
    BY <2>1 DEF Phase
  <2>2. CASE Call
    BY <2>2, CallSteps
  <2>3. CASE Environment
    BY <2>3, EnvironmentSteps
  <2>4. CASE Handler
    <3>1. UNCHANGED nm
      BY <2>4 DEF Handler, HandleUninitializedState, HandlePending, HandleScheduledState,
                  HandleCordonState, HandleWaitPodCompletionState, HandleDrainState,
                  HandleTerminalState, Handle, apiVars
    <3> QED
      BY <2>1, <3>1
  <2>5. ASSUME NEW x \in NM,
               Reconcile(x) \/ HandleEvent(x) \/ DoDrain(x) \/ DrainError(x)
        PROVE  UNCHANGED nm
    BY <2>5 DEF Reconcile, HandleEvent, DoDrain, DrainList, DrainEvict, DrainSuccess, DrainError,
                apiVars
  <2>6. CASE SyncNodeMaintenances \/ SyncNodes
    BY <2>1, <2>6 DEF SyncNodeMaintenances, SyncNodes, apiVars
  <2> QED
    BY <2>1, <2>2, <2>3, <2>4, <2>5, <2>6 DEF Next, Reconciler, vars
<1> QED
  BY <1>1, <1>2, InitIInv, NextIInv, PTL DEF Spec, ImplementsLifecycle, Lifecycle!LSpec

=============================================================================
