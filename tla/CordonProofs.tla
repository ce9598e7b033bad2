---------------------------- MODULE CordonProofs ----------------------------
(***************************************************************************)
(* Proofs about the cordon of a node and the drain that relies on it, for  *)
(* every set of objects, nodes and pods and every lag of the               *)
(* NodeMaintenance informer.                                               *)
(*                                                                         *)
(* None of the properties is inductive.  Patches of a node carry no        *)
(* version, so a reconcile on a stale copy may cordon or uncordon a node:  *)
(* the invariant says what a stale copy still tells of the stored object   *)
(* (BehindOK for the cache, StaleOK for the reconcile), what a current one *)
(* tells of the node (CurrentOK), and that at most one object holds a node *)
(* (OneClaim), so that nobody else is affected.                            *)
(***************************************************************************)
EXTENDS NodeMaintenanceProofs

\* Zenon is enough for most steps; the others say what they need.
USE Zenon

-----------------------------------------------------------------------------
(* The inductive invariant. *)

\* What the properties of the cordon need: nodes are not removed, spec.cordon is
\* not edited, and a reconcile reads its node from a current cache.
CordonStable == NodesStay /\ "cordon" \notin Edits /\ "node" \notin Lagging

Early == {"Uninitialized", "Pending", "Scheduled"}

\* Every copy of an object: the annotation is there only from the Cordon state
\* on, the finalizer only under maintenance.
SelfOK(o) ==
  /\ o.initial # "none" => Live(o) /\ o.cordon /\ o.reason \notin Early
  /\ o.deleting \/ o.finalizer => IsUnderMaintenance(o)

\* The stored object s of a node that is unschedulable (u), as left by an
\* administrator (a).
NodeOK(s, u, a) ==
  Maintained(s) =>
    /\ ~s.cordon \/ s.initial = "none" => u = a
    /\ s.initial = "true" => u /\ a
    /\ s.initial = "false" => ~a
    /\ s.cordon /\ ~s.deleting /\ s.reason \notin Early \cup {"Cordon"}
         => u /\ s.initial # "none"

\* The cached copy c may be behind the stored object s: what may have happened
\* since.
BehindOK(c, s, u, a) ==
  Live(c) =>
    /\ s.life # "unborn"
    /\ c.initial # "none" /\ ~c.deleting => Live(s) /\ s.initial = c.initial
    /\ c.initial = "false" => ~a /\ (u => Live(s) /\ s.initial = "false")
    /\ c.deleting /\ Live(s) => s.deleting /\ s.reason = c.reason

\* A drain r of an object that cordons has a cordoned node, and the pods on it,
\* P, are those it has listed.
DrainOK(s, r, u, P) ==
  r.state # "none" /\ s.cordon =>
    /\ u
    /\ r.state = "evicting" => P \subseteq r.targets
    /\ r.state = "success" => P = {}

Unsched(x) == node[NodeName[x]].unsched
Admin(x) == admin[NodeName[x]]
PodsOf(x) == pods[NodeName[x]]

StoredOK ==
  \A x \in NM :
    /\ SelfOK(nm[x]) /\ SelfOK(nmCache[x])
    /\ NodeOK(nm[x], Unsched(x), Admin(x))
    /\ BehindOK(nmCache[x], nm[x], Unsched(x), Admin(x))
    /\ DrainOK(nm[x], reqs[x], Unsched(x), PodsOf(x))

\* x holds its node as far as the scheduler knows.
Claims(x) == Maintained(nm[x]) \/ Maintained(nmCache[x])

OneClaim ==
  \A x, y \in NM : Claims(x) /\ Claims(y) /\ NodeName[x] = NodeName[y] => x = y

\* What the pending call k says about the copy o and the view v of its node.
CallOK(k, o, v) ==
  /\ k \notin {"idle", "setOwner", "handle", "uncordon", "clearInitial", "removeFinalizer"}
       => ~o.deleting
  /\ k = "recordInitial" => o.initial = "none" /\ o.cordon
  /\ k = "cordon" => o.initial = "false"
  /\ k = "uncordon" => o.initial = "false" /\ v.unsched
  /\ k = "removeFinalizer" => ~o.cordon \/ o.initial = "none"
  /\ k = "clearDrainStatus" => o.drain = Nil

\* A reconcile's copy o, current or not, the cached copy c and the stored
\* object s.
StaleOK(k, o, v, c, s) ==
  /\ s.life # "unborn"
  /\ o.initial # "none" /\ ~o.deleting => Live(s) /\ s.initial = o.initial
  /\ o.deleting => /\ ~Live(c) \/ c.deleting
                   /\ Live(s) => s.deleting /\ s.reason = o.reason
  /\ k \in {"setOwner", "handle", "uncordon"} /\ o.deleting /\ o.initial = "false" /\ v.unsched
       => Live(s) /\ s.initial = "false"

\* A copy with the version of the API server.
CurrentOK(k, o, v, s, u, a, P) ==
  /\ o.initial = s.initial /\ o.cordon = s.cordon /\ o.drain = s.drain
  /\ k \in {"setOwner", "handle", "recordInitial"} /\ Maintained(o) => v.unsched = u
  /\ k = "clearInitial" => u = a
  /\ k = "setReason" /\ o.reason = "Cordon" /\ o.cordon => u /\ o.initial # "none"
  /\ k = "setReason" /\ o.reason = "Draining" /\ o.cordon /\ o.drain # Nil => P = {}

ReconcileOK ==
  pc # "idle" =>
    /\ SelfOK(obj) /\ CallOK(pc, obj, view)
    /\ StaleOK(pc, obj, view, nmCache[cur], nm[cur])
    /\ pc = "reportDrained" => reqs[cur].state = "success"
    /\ objFresh => CurrentOK(pc, obj, view, nm[cur], Unsched(cur), Admin(cur), PodsOf(cur))

CordonOK == StoredOK /\ OneClaim /\ NodeRestored /\ ReconcileOK

CInv == IInv /\ CordonOK

-----------------------------------------------------------------------------
(* Writes of an object. *)

\* The object new, with drain request r, may take the place of the stored x.
Fits(x, new, r) ==
  /\ SelfOK(new) /\ NodeOK(new, Unsched(x), Admin(x))
  /\ BehindOK(nmCache[x], new, Unsched(x), Admin(x))
  /\ DrainOK(new, r, Unsched(x), PodsOf(x))
  /\ Maintained(new) => \/ Maintained(nm[x])
                        \/ \A y \in NM : NodeName[y] = NodeName[x] => ~Claims(y)
  /\ Maintained(nm[x]) /\ ~Maintained(new) => Unsched(x) = Admin(x)

\* The reconcile may go on with call k after it has stored new.
GoesOn(k, new) ==
  /\ k # "reportDrained" /\ CallOK(k, new, view)
  /\ StaleOK(k, new, view, nmCache[cur], new)
  /\ CurrentOK(k, new, view, new, Unsched(cur), Admin(cur), PodsOf(cur))

\* new and s differ in nothing that the cordon depends on.
Alike(new, s) ==
  /\ new.life = s.life /\ new.reason = s.reason /\ new.deleting = s.deleting
  /\ new.initial = s.initial /\ new.cordon = s.cordon
  /\ new.finalizer = s.finalizer \/ IsUnderMaintenance(new)

\* An object that is like the stored one may take its place.
LEMMA AlikeFits ==
  ASSUME StoredOK, NEW x \in NM, NEW new, Alike(new, nm[x])
  PROVE  Fits(x, new, reqs[x])
<1>1. /\ SelfOK(nm[x]) /\ NodeOK(nm[x], Unsched(x), Admin(x))
      /\ BehindOK(nmCache[x], nm[x], Unsched(x), Admin(x))
      /\ DrainOK(nm[x], reqs[x], Unsched(x), PodsOf(x))
  BY DEF StoredOK
<1>2. SelfOK(new)
  BY <1>1 DEF Alike, SelfOK, Live, IsUnderMaintenance
<1>3. NodeOK(new, Unsched(x), Admin(x))
  BY <1>1 DEF Alike, NodeOK, Maintained, Live, IsUnderMaintenance
<1>4. BehindOK(nmCache[x], new, Unsched(x), Admin(x))
  BY <1>1 DEF Alike, BehindOK, Live
<1>5. DrainOK(new, reqs[x], Unsched(x), PodsOf(x))
  BY <1>1 DEF Alike, DrainOK
<1>6. Maintained(new) <=> Maintained(nm[x])
  BY DEF Alike, Maintained, Live, IsUnderMaintenance
<1> QED
  BY <1>2, <1>3, <1>4, <1>5, <1>6 DEF Fits

\* What the invariant says of the stored objects when x becomes new.
LEMMA StoreFits ==
  ASSUME TypeOK, StoredOK, OneClaim, NodeRestored, NEW x \in NM, NEW new \in Object,
         nm' = [nm EXCEPT ![x] = new], UNCHANGED <<nmCache, node, admin, pods>>,
         \A y \in NM \ {x} : reqs'[y] = reqs[y], Fits(x, new, reqs'[x])
  PROVE  StoredOK' /\ OneClaim' /\ NodeRestored'
<1>1. nm'[x] = new /\ \A y \in NM \ {x} : nm'[y] = nm[y]
  BY DEF TypeOK
<1>2. ASSUME NEW y \in NM
      PROVE  /\ SelfOK(nm'[y]) /\ SelfOK(nmCache'[y])
             /\ NodeOK(nm'[y], Unsched(y)', Admin(y)')
             /\ BehindOK(nmCache'[y], nm'[y], Unsched(y)', Admin(y)')
             /\ DrainOK(nm'[y], reqs'[y], Unsched(y)', PodsOf(y)')
  <2>1. /\ Unsched(y)' = Unsched(y) /\ Admin(y)' = Admin(y) /\ PodsOf(y)' = PodsOf(y)
        /\ nmCache'[y] = nmCache[y] /\ SelfOK(nmCache[y])
    BY DEF Unsched, Admin, PodsOf, StoredOK
  <2>2. CASE y = x
    BY <1>1, <2>1, <2>2 DEF Fits
  <2>3. CASE y # x
    <3>1. nm'[y] = nm[y] /\ reqs'[y] = reqs[y]
      BY <1>1, <2>3
    <3> QED
      BY <2>1, <3>1 DEF StoredOK
  <2> QED
    BY <2>2, <2>3
<1>3. StoredOK'
  BY <1>2 DEF StoredOK
<1>4. OneClaim'
  <2>1. \A y \in NM \ {x} : Claims(y)' = Claims(y)
    BY <1>1 DEF Claims
  <2>2. Claims(x)' => Claims(x) \/ \A y \in NM : NodeName[y] = NodeName[x] => ~Claims(y)
    BY <1>1 DEF Claims, Fits
  <2> QED
    BY <2>1, <2>2 DEF OneClaim
<1>5. NodeRestored'
  <2> SUFFICES ASSUME NEW n \in Node, \A y \in NM : NodeName[y] = n => ~Maintained(nm'[y])
               PROVE  node[n].unsched = admin[n]
    BY DEF NodeRestored
  <2>1. CASE \A y \in NM : NodeName[y] = n => ~Maintained(nm[y])
    BY <2>1 DEF NodeRestored
  <2>2. CASE \E y \in NM : NodeName[y] = n /\ Maintained(nm[y])
    <3>1. NodeName[x] = n /\ Maintained(nm[x]) /\ ~Maintained(new)
      BY <1>1, <2>2
    <3> QED
      BY <3>1 DEF Fits, Unsched, Admin
  <2> QED
    BY <2>1, <2>2
<1> QED
  BY <1>3, <1>4, <1>5

\* An accepted write of a reconcile.
LEMMA AcceptedCordonOK ==
  ASSUME CInv, pc # "idle", NEW new \in Object, NEW k, Accepted(new, k),
         \A y \in NM \ {cur} : reqs'[y] = reqs[y], Fits(cur, new, reqs'[cur]),
         k \notin {"idle", "requeue"} => GoesOn(k, new)
  PROVE  CordonOK'
<1>1. /\ cur \in NM /\ UNCHANGED <<nmCache, node, admin, pods>>
      /\ objFresh /\ nm' = [nm EXCEPT ![cur] = new]
  BY DEF CInv, IInv, CopyOK, Accepted, Store, podVars
<1>2. StoredOK' /\ OneClaim' /\ NodeRestored'
  BY <1>1, StoreFits DEF CInv, CordonOK, IInv
<1>3. ReconcileOK'
  <2>1. CASE pc' = "idle"
    BY <2>1 DEF ReconcileOK
  <2>2. CASE pc' # "idle"
    <3>1. k \notin {"idle", "requeue"} /\ Proceed(k, new)
      BY <2>2 DEF Accepted, Requeue, Proceed, Done
    <3>2. /\ pc' = k /\ obj' = new /\ UNCHANGED <<cur, objFresh, view>>
      BY <3>1 DEF Proceed
    <3>3. nm'[cur] = new /\ nmCache'[cur] = nmCache[cur]
      BY <1>1 DEF CInv, IInv, TypeOK
    <3>4. Unsched(cur)' = Unsched(cur) /\ Admin(cur)' = Admin(cur) /\ PodsOf(cur)' = PodsOf(cur)
      BY <1>1, <3>2 DEF Unsched, Admin, PodsOf
    <3>5. SelfOK(new) /\ GoesOn(k, new)
      BY <3>1 DEF Fits
    <3> QED
      BY <3>2, <3>3, <3>4, <3>5 DEF ReconcileOK, GoesOn
  <2> QED
    BY <2>1, <2>2
<1> QED
  BY <1>2, <1>3 DEF CordonOK

\* A refused write may have been stored all the same.
LEMMA RefusedCordonOK ==
  ASSUME CInv, pc # "idle", NEW new \in Object, Refused(new),
         objFresh => Fits(cur, new, reqs[cur])
  PROVE  CordonOK'
<1>1. cur \in NM /\ UNCHANGED <<nmCache, node, admin, pods, reqs>> /\ pc' = "idle"
  BY DEF CInv, IInv, CopyOK, Refused, Requeue, podVars
<1>2. CASE UNCHANGED nm
  BY <1>1, <1>2 DEF CInv, CordonOK, StoredOK, OneClaim, NodeRestored, ReconcileOK, Claims,
                    Unsched, Admin, PodsOf
<1>3. CASE objFresh /\ nm' = [nm EXCEPT ![cur] = new]
  <2>1. reqs'[cur] = reqs[cur] /\ \A y \in NM \ {cur} : reqs'[y] = reqs[y]
    BY <1>1
  <2>2. StoredOK' /\ OneClaim' /\ NodeRestored'
    BY <1>1, <1>3, <2>1, StoreFits DEF CInv, CordonOK, IInv
  <2> QED
    BY <1>1, <2>2 DEF CordonOK, ReconcileOK
<1> QED
  BY <1>2, <1>3 DEF Refused, Fails, Store

\* A write of a reconcile, accepted or refused, preserves the invariant when the
\* object fits and the reconcile may go on with it.
LEMMA WriteCordonOK ==
  ASSUME CInv, pc # "idle", NEW new \in Object, NEW k, Write(new, k),
         objFresh => Fits(cur, new, reqs[cur]),
         objFresh /\ k \notin {"idle", "requeue"} => GoesOn(k, new)
  PROVE  CordonOK'
<1>1. CASE Accepted(new, k) /\ UNCHANGED reqs
  <2>1. objFresh
    BY <1>1 DEF Accepted, Store
  <2>2. \A y \in NM \ {cur} : reqs'[y] = reqs[y]
    BY <1>1
  <2> QED
    BY <1>1, <2>1, <2>2, AcceptedCordonOK
<1>2. CASE Refused(new)
  BY <1>2, RefusedCordonOK
<1> QED
  BY <1>1, <1>2 DEF Write

\* What the invariant says of the stored objects when none of them changes and
\* requests are at most removed.
LEMMA StoredKept ==
  ASSUME StoredOK, OneClaim, NodeRestored, UNCHANGED <<nm, nmCache, node, admin, pods>>,
         \A y \in NM : reqs'[y] = reqs[y] \/ reqs'[y] = NoRequest
  PROVE  StoredOK' /\ OneClaim' /\ NodeRestored'
<1>1. \A y \in NM : /\ Unsched(y)' = Unsched(y) /\ Admin(y)' = Admin(y) /\ PodsOf(y)' = PodsOf(y)
                    /\ Claims(y)' = Claims(y)
  BY DEF Unsched, Admin, PodsOf, Claims
<1>2. \A y \in NM : DrainOK(nm[y], reqs'[y], Unsched(y), PodsOf(y))
  BY SMT DEF StoredOK, DrainOK, NoRequest
<1>3. StoredOK'
  BY <1>1, <1>2 DEF StoredOK
<1>4. OneClaim' /\ NodeRestored'
  BY <1>1 DEF OneClaim, NodeRestored
<1> QED
  BY <1>3, <1>4

\* A step of the reconcile that writes nothing and goes on with call k.
LEMMA KeepCordonOK ==
  ASSUME CInv, pc # "idle", NEW k, Proceed(k, obj),
         UNCHANGED <<nm, nmCache, node, admin, pods>>,
         UNCHANGED reqs \/ RemoveRequest(cur),
         k \notin {"idle", "requeue"} =>
           /\ CallOK(k, obj, view) /\ StaleOK(k, obj, view, nmCache[cur], nm[cur])
           /\ k = "reportDrained" => reqs'[cur].state = "success"
           /\ objFresh => CurrentOK(k, obj, view, nm[cur], Unsched(cur), Admin(cur), PodsOf(cur))
  PROVE  CordonOK'
<1>1. \A y \in NM : reqs'[y] = reqs[y] \/ reqs'[y] = NoRequest
  BY DEF RemoveRequest, CInv, IInv, TypeOK, CopyOK
<1>2. StoredOK' /\ OneClaim' /\ NodeRestored'
  BY <1>1, StoredKept DEF CInv, CordonOK
<1>3. ReconcileOK'
  <2>1. CASE pc' = "idle"
    BY <2>1 DEF ReconcileOK
  <2>2. CASE pc' # "idle"
    <3>1. k \notin {"idle", "requeue"}
      BY <2>2 DEF Proceed, Done, Requeue
    <3>2. pc' = k /\ obj' = obj /\ UNCHANGED <<cur, objFresh, view>>
      BY <3>1 DEF Proceed
    <3>3. Unsched(cur)' = Unsched(cur) /\ Admin(cur)' = Admin(cur) /\ PodsOf(cur)' = PodsOf(cur)
      BY <3>2 DEF Unsched, Admin, PodsOf
    <3>4. SelfOK(obj)
      BY DEF CInv, CordonOK, ReconcileOK
    <3> QED
      BY <3>1, <3>2, <3>3, <3>4 DEF ReconcileOK
  <2> QED
    BY <2>1, <2>2
<1> QED
  BY <1>2, <1>3 DEF CordonOK

-----------------------------------------------------------------------------
(* The actions, by group. *)

\* What a reconcile knows of its copy.
LEMMA CopyFacts ==
  ASSUME CordonStable, CInv, pc # "idle"
  PROVE  /\ cur \in NM /\ obj \in Object /\ nm[cur] \in Object /\ nmCache[cur] \in Object
         /\ view \in NodeObject /\ NodeName[cur] \in Node
         /\ Unsched(cur) \in BOOLEAN /\ Admin(cur) \in BOOLEAN
         /\ Live(obj) /\ StepOK(pc, obj, reqs[cur]) /\ RequestOK(nm[cur], reqs[cur])
         /\ FinalizerOK(nm[cur]) /\ (objFresh => Agree(obj, nm[cur]))
         /\ SelfOK(obj) /\ CallOK(pc, obj, view)
         /\ StaleOK(pc, obj, view, nmCache[cur], nm[cur])
         /\ objFresh => CurrentOK(pc, obj, view, nm[cur], Unsched(cur), Admin(cur), PodsOf(cur))
         /\ SelfOK(nm[cur]) /\ SelfOK(nmCache[cur])
         /\ NodeOK(nm[cur], Unsched(cur), Admin(cur))
         /\ BehindOK(nmCache[cur], nm[cur], Unsched(cur), Admin(cur))
         /\ DrainOK(nm[cur], reqs[cur], Unsched(cur), PodsOf(cur))
<1>1. /\ cur \in NM /\ Live(obj) /\ StepOK(pc, obj, reqs[cur])
      /\ (objFresh => Agree(obj, nm[cur]))
  BY DEF CInv, IInv, CopyOK
<1>2. NodeName[cur] \in Node
  BY <1>1, NodeNameAssumption
<1>3. /\ obj \in Object /\ nm[cur] \in Object /\ nmCache[cur] \in Object /\ view \in NodeObject
      /\ Unsched(cur) \in BOOLEAN /\ Admin(cur) \in BOOLEAN
  BY <1>1, <1>2 DEF CInv, IInv, TypeOK, Unsched, Admin, NodeObject
<1>4. FinalizerOK(nm[cur]) /\ RequestOK(nm[cur], reqs[cur])
  BY <1>1 DEF CInv, IInv, CordonStable, Guarded
<1>5. /\ SelfOK(obj) /\ CallOK(pc, obj, view)
      /\ StaleOK(pc, obj, view, nmCache[cur], nm[cur])
      /\ objFresh => CurrentOK(pc, obj, view, nm[cur], Unsched(cur), Admin(cur), PodsOf(cur))
  BY DEF CInv, CordonOK, ReconcileOK
<1>6. /\ SelfOK(nm[cur]) /\ SelfOK(nmCache[cur])
      /\ NodeOK(nm[cur], Unsched(cur), Admin(cur))
      /\ BehindOK(nmCache[cur], nm[cur], Unsched(cur), Admin(cur))
      /\ DrainOK(nm[cur], reqs[cur], Unsched(cur), PodsOf(cur))
  BY <1>1 DEF CInv, CordonOK, StoredOK
<1> QED
  BY <1>1, <1>2, <1>3, <1>4, <1>5, <1>6

\* The clean-up calls that a handler chooses for a deleted object.
LEMMA CleanupCordonOK ==
  ASSUME CordonStable, CInv, pc = "handle", obj.deleting,
         NEW k, k = Cleanup(obj, view) \/ (obj.reason = "Scheduled" /\ k = HandleFinalizerRemoval(obj)),
         k # "idle"
  PROVE  /\ k # "reportDrained" /\ CallOK(k, obj, view)
         /\ StaleOK(k, obj, view, nmCache[cur], nm[cur])
         /\ objFresh => CurrentOK(k, obj, view, nm[cur], Unsched(cur), Admin(cur), PodsOf(cur))
<1>1. PICK o, s, c, v, u, a, P : /\ o = obj /\ s = nm[cur] /\ c = nmCache[cur] /\ v = view
                                 /\ u = Unsched(cur) /\ a = Admin(cur) /\ P = PodsOf(cur)
  OBVIOUS
<1>2. /\ o \in Object /\ s \in Object /\ v \in NodeObject /\ u \in BOOLEAN /\ a \in BOOLEAN
      /\ Live(o) /\ SelfOK(o) /\ StaleOK("handle", o, v, c, s) /\ NodeOK(s, u, a) /\ o.deleting
      /\ objFresh => Agree(o, s) /\ CurrentOK("handle", o, v, s, u, a, P)
      /\ k = Cleanup(o, v) \/ (o.reason = "Scheduled" /\ k = HandleFinalizerRemoval(o))
  BY <1>1, CopyFacts
<1>3. k \in {"uncordon", "clearInitial", "removeFinalizer"}
  BY <1>2 DEF Cleanup, AfterUncordon, HandleFinalizerRemoval
<1>4. CallOK(k, o, v)
  <2>1. o.initial \in {"none", "true", "false"} /\ o.cordon \in BOOLEAN
    BY <1>2 DEF Object
  <2>2. k = "uncordon" => o.initial = "false" /\ v.unsched
    BY <1>2 DEF Cleanup, AfterUncordon, HandleFinalizerRemoval
  <2>3. k = "removeFinalizer" => ~o.cordon \/ o.initial = "none"
    BY <1>2, <2>1 DEF Cleanup, AfterUncordon, HandleFinalizerRemoval, SelfOK, Early
  <2> QED
    BY <1>3, <2>2, <2>3 DEF CallOK
<1>5. StaleOK(k, o, v, c, s)
  BY <1>2, <1>3 DEF StaleOK
<1>6. objFresh => CurrentOK(k, o, v, s, u, a, P)
  <2> SUFFICES ASSUME objFresh PROVE CurrentOK(k, o, v, s, u, a, P)
    OBVIOUS
  <2>1. Maintained(o) /\ v.unsched = u /\ o.initial = s.initial /\ o.cordon = s.cordon
    BY <1>2 DEF SelfOK, Maintained, CurrentOK
  <2>2. Maintained(s)
    BY <1>2, <2>1 DEF Maintained, Live, IsUnderMaintenance, Agree
  <2>3. k = "clearInitial" => o.cordon /\ o.initial # "none" /\ ~(o.initial = "false" /\ v.unsched)
    BY <1>2 DEF Cleanup, AfterUncordon, HandleFinalizerRemoval
  <2>4. s.initial \in {"none", "true", "false"}
    BY <1>2 DEF Object
  <2>5. k = "clearInitial" => u = a
    BY <1>2, <2>1, <2>2, <2>3, <2>4 DEF NodeOK
  <2> QED
    BY <1>2, <1>3, <2>5 DEF CurrentOK
<1> QED
  BY <1>1, <1>3, <1>4, <1>5, <1>6

\* The calls that a handler chooses for an object that is not being deleted.
LEMMA WorkCordonOK ==
  ASSUME CordonStable, CInv, pc = "handle", ~obj.deleting,
         NEW k \in Steps \ {"idle", "setOwner", "handle", "uncordon", "clearInitial", "removeFinalizer"},
         k \in {"recordInitial", "cordon"} => obj.cordon,
         k = "recordInitial" => obj.initial = "none",
         k = "cordon" => obj.initial = "false",
         k = "clearDrainStatus" => obj.drain = Nil,
         k = "setReason" /\ obj.reason = "Cordon" /\ obj.cordon =>
           obj.initial # "none" /\ ~(obj.initial = "false" /\ ~view.unsched),
         k = "setReason" /\ obj.reason = "Draining" => obj.drain = Nil
  PROVE  /\ CallOK(k, obj, view)
         /\ StaleOK(k, obj, view, nmCache[cur], nm[cur])
         /\ objFresh => CurrentOK(k, obj, view, nm[cur], Unsched(cur), Admin(cur), PodsOf(cur))
<1>1. PICK o, s, c, v, u, a, P : /\ o = obj /\ s = nm[cur] /\ c = nmCache[cur] /\ v = view
                                 /\ u = Unsched(cur) /\ a = Admin(cur) /\ P = PodsOf(cur)
  OBVIOUS
<1>2. /\ o \in Object /\ s \in Object /\ v \in NodeObject /\ u \in BOOLEAN /\ a \in BOOLEAN
      /\ Live(o) /\ SelfOK(o) /\ StaleOK("handle", o, v, c, s) /\ NodeOK(s, u, a)
      /\ objFresh => Agree(o, s) /\ CurrentOK("handle", o, v, s, u, a, P)
  BY <1>1, CopyFacts
<1>3. CallOK(k, o, v)
  BY <1>1 DEF CallOK
<1>4. StaleOK(k, o, v, c, s)
  BY <1>1, <1>2 DEF StaleOK
<1>5. objFresh => CurrentOK(k, o, v, s, u, a, P)
  <2> SUFFICES ASSUME objFresh PROVE CurrentOK(k, o, v, s, u, a, P)
    OBVIOUS
  <2>1. /\ o.initial = s.initial /\ o.cordon = s.cordon /\ o.drain = s.drain
        /\ Maintained(o) => v.unsched = u
    BY <1>2 DEF CurrentOK
  <2>2. Maintained(o) => Maintained(s)
    BY <1>2 DEF Maintained, Live, IsUnderMaintenance, Agree
  <2>3. ASSUME k = "setReason", o.reason = "Cordon", o.cordon PROVE u /\ o.initial # "none"
    <3>1. Maintained(o)
      BY <1>2, <2>3 DEF Maintained, IsUnderMaintenance
    <3>2. o.initial \in {"none", "true", "false"}
      BY <1>2 DEF Object
    <3> QED
      BY <1>1, <1>2, <2>1, <2>2, <2>3, <3>1, <3>2 DEF NodeOK
  <2>4. k = "setReason" /\ o.reason = "Draining" => o.drain = Nil
    BY <1>1
  <2> QED
    BY <2>1, <2>3, <2>4 DEF CurrentOK
<1> QED
  BY <1>1, <1>3, <1>4, <1>5

\* The handlers.
LEMMA HandlerCordonOK ==
  ASSUME CordonStable, CInv, Handler
  PROVE  CordonOK'
<1>0. /\ pc = "handle"
      /\ UNCHANGED <<nm, nmCache, node, admin, pods>>
  BY DEF Handler, HandleUninitializedState, HandlePending, HandleScheduledState,
         HandleCordonState, HandleWaitPodCompletionState, HandleDrainState,
         HandleTerminalState, Handle, apiVars, cacheVars, podVars
<1>1. cur \in NM /\ obj \in Object /\ view \in NodeObject /\ reqs \in [NM -> Request]
  BY <1>0, CopyFacts DEF CInv, IInv, TypeOK
<1>2. PICK c : c = Cleanup(obj, view)
  OBVIOUS
<1>3. ASSUME obj.deleting, UNCHANGED reqs \/ RemoveRequest(cur),
             NEW k, Proceed(k, obj),
             k = Cleanup(obj, view) \/ (obj.reason = "Scheduled" /\ k = HandleFinalizerRemoval(obj))
      PROVE  CordonOK'
  <2>1. k # "idle" =>
          /\ k # "reportDrained" /\ CallOK(k, obj, view)
          /\ StaleOK(k, obj, view, nmCache[cur], nm[cur])
          /\ objFresh => CurrentOK(k, obj, view, nm[cur], Unsched(cur), Admin(cur), PodsOf(cur))
    BY <1>0, <1>3, CleanupCordonOK
  <2> QED
    BY <1>0, <1>3, <2>1, KeepCordonOK
<1>4. ASSUME ~obj.deleting, UNCHANGED reqs \/ RemoveRequest(cur),
             NEW k \in Steps \ {"idle", "setOwner", "handle", "uncordon", "clearInitial", "removeFinalizer"},
             Proceed(k, obj),
             k \in {"recordInitial", "cordon"} => obj.cordon,
             k = "recordInitial" => obj.initial = "none",
             k = "cordon" => obj.initial = "false",
             k = "clearDrainStatus" => obj.drain = Nil,
             k = "setReason" /\ obj.reason = "Cordon" /\ obj.cordon =>
               obj.initial # "none" /\ ~(obj.initial = "false" /\ ~view.unsched),
             k = "setReason" /\ obj.reason = "Draining" => obj.drain = Nil,
             k = "reportDrained" => reqs'[cur].state = "success"
      PROVE  CordonOK'
  <2>1. /\ CallOK(k, obj, view) /\ StaleOK(k, obj, view, nmCache[cur], nm[cur])
        /\ objFresh => CurrentOK(k, obj, view, nm[cur], Unsched(cur), Admin(cur), PodsOf(cur))
    BY <1>0, <1>4, WorkCordonOK
  <2> QED
    BY <1>0, <1>4, <2>1, KeepCordonOK
<1>5. ASSUME UNCHANGED reqs \/ RemoveRequest(cur), NEW k \in {"idle", "requeue"}, Proceed(k, obj)
      PROVE  CordonOK'
  BY <1>0, <1>5, KeepCordonOK
<1>6. CASE HandleUninitializedState
  <2>1. Proceed("setReason", obj) /\ UNCHANGED reqs /\ obj.reason = "Uninitialized"
    BY <1>6 DEF HandleUninitializedState, Handle
  <2>2. ~obj.deleting
    BY <1>0, <2>1, CopyFacts DEF SelfOK, IsUnderMaintenance
  <2> QED
    BY <1>4, <2>1, <2>2 DEF Steps
<1>7. CASE HandlePending
  <2>1. Proceed("idle", obj) /\ UNCHANGED reqs
    BY <1>7 DEF HandlePending, Proceed
  <2> QED
    BY <1>5, <2>1
<1>8. CASE HandleScheduledState
  <2>1. obj.reason = "Scheduled" /\ UNCHANGED reqs
    BY <1>8 DEF HandleScheduledState, Handle
  <2>2. PICK k : /\ Proceed(k, obj)
                 /\ \/ ~obj.deleting /\ k \in {"setReason", "addFinalizer"}
                    \/ obj.deleting /\ k = HandleFinalizerRemoval(obj)
    BY <1>8 DEF HandleScheduledState
  <2> QED
    BY <1>3, <1>4, <2>1, <2>2 DEF Steps
<1>9. CASE HandleCordonState
  <2>1. obj.reason = "Cordon" /\ UNCHANGED reqs
    BY <1>9 DEF HandleCordonState, Handle
  <2>2. PICK k : /\ Proceed(k, obj)
                 /\ \/ obj.deleting /\ k = Cleanup(obj, view)
                    \/ /\ ~obj.deleting /\ k \in {"setReason", "recordInitial", "cordon"}
                       /\ k \in {"recordInitial", "cordon"} => obj.cordon
                       /\ k = "recordInitial" => obj.initial = "none"
                       /\ k = "cordon" => obj.initial = "false"
                       /\ k = "setReason" /\ obj.cordon =>
                            obj.initial # "none" /\ ~(obj.initial = "false" /\ ~view.unsched)
    <3>1. PICK k : /\ Proceed(k, obj)
                   /\ \/ obj.deleting /\ k = Cleanup(obj, view)
                      \/ /\ ~obj.deleting
                         /\ k = CASE ~obj.cordon -> "setReason"
                                  [] obj.cordon /\ obj.initial = "none" -> "recordInitial"
                                  [] OTHER -> AfterRecordInitial(obj, view)
      BY <1>9 DEF HandleCordonState
    <3>2. PICK o, v : o = obj /\ v = view
      OBVIOUS
    <3>3. o.cordon \in BOOLEAN /\ o.initial \in {"none", "true", "false"} /\ v.unsched \in BOOLEAN
      BY <1>1, <3>2 DEF Object, NodeObject
    <3>4. ~o.deleting =>
            /\ k \in {"setReason", "recordInitial", "cordon"}
            /\ k \in {"recordInitial", "cordon"} => o.cordon
            /\ k = "recordInitial" => o.initial = "none"
            /\ k = "cordon" => o.initial = "false"
            /\ k = "setReason" /\ o.cordon =>
                 o.initial # "none" /\ ~(o.initial = "false" /\ ~v.unsched)
      BY <3>1, <3>2, <3>3 DEF AfterRecordInitial
    <3> QED
      BY <3>1, <3>2, <3>4
  <2>3. CASE obj.deleting
    BY <1>3, <2>1, <2>2, <2>3
  <2>4. CASE ~obj.deleting
    BY <1>4, <2>1, <2>2, <2>4 DEF Steps
  <2> QED
    BY <2>3, <2>4
<1>10. CASE HandleWaitPodCompletionState
  <2>1. obj.reason = "WaitForPodCompletion" /\ UNCHANGED reqs
    BY <1>10 DEF HandleWaitPodCompletionState, Handle
  <2>2. PICK k : /\ Proceed(k, obj)
                 /\ \/ obj.deleting /\ k = Cleanup(obj, view)
                    \/ /\ ~obj.deleting
                       /\ k \in {"setReason", "markWaitStart", "resetWaitStart", "listPods"}
    BY <1>10 DEF HandleWaitPodCompletionState
  <2>3. CASE obj.deleting
    BY <1>3, <2>1, <2>2, <2>3
  <2>4. CASE ~obj.deleting
    BY <1>4, <2>1, <2>2, <2>4 DEF Steps
  <2> QED
    BY <2>3, <2>4
<1>11. CASE HandleDrainState
  <2>1. obj.reason = "Draining"
    BY <1>11 DEF HandleDrainState, Handle
  <2>2. CASE obj.deleting /\ RemoveRequest(cur) /\ Proceed(c, obj)
    BY <1>2, <1>3, <2>2
  <2>3. ASSUME ~obj.deleting, NEW k \in {"startDrain", "reportDrain", "reportDrained"},
               Proceed(k, obj), UNCHANGED reqs, k = "reportDrained" => reqs[cur].state = "success"
        PROVE  CordonOK'
    BY <1>4, <2>3 DEF Steps
  <2>4. CASE RemoveRequest(cur) /\ Requeue
    <3>1. Proceed("requeue", obj)
      BY <2>4 DEF Proceed
    <3> QED
      BY <1>5, <2>4, <3>1
  <2>5. ASSUME ~obj.deleting, obj.drain = Nil, NEW k \in {"clearDrainStatus", "setReason"},
               Proceed(k, obj), RemoveRequest(cur)
        PROVE  CordonOK'
    BY <1>4, <2>1, <2>5 DEF Steps
  <2>6. reqs[cur].state \in {"none", "started", "evicting", "success", "error"}
    BY <1>1 DEF Request
  <2> QED
    BY <1>2, <1>11, <2>2, <2>3, <2>4, <2>5, <2>6 DEF HandleDrainState, InProgress
<1>12. CASE HandleTerminalState
  <2>1. obj.reason \in {"Ready", "RequestorFailed"} /\ UNCHANGED reqs
    BY <1>12 DEF HandleTerminalState, Handle
  <2>2. CASE Requeue
    <3>1. Proceed("requeue", obj)
      BY <2>2 DEF Proceed
    <3> QED
      BY <1>5, <2>1, <3>1
  <2>3. CASE obj.deleting /\ Proceed(c, obj)
    BY <1>2, <1>3, <2>1, <2>3
  <2>4. ASSUME ~obj.deleting, NEW k \in {"setReason", "markReady"}, Proceed(k, obj)
        PROVE  CordonOK'
    BY <1>4, <2>1, <2>4 DEF Steps
  <2>5. CASE Proceed("idle", obj)
    BY <1>5, <2>1, <2>5
  <2> QED
    BY <1>2, <1>12, <2>2, <2>3, <2>4, <2>5 DEF HandleTerminalState, AfterMarkReady
<1> QED
  BY <1>6, <1>7, <1>8, <1>9, <1>10, <1>11, <1>12 DEF Handler

\* The objects that updates and status updates store.
LEMMA WithStatusFields ==
  ASSUME NEW o \in Object, NEW s \in Object
  PROVE  /\ WithStatus(o, s) \in Object
         /\ WithStatus(o, s).life = o.life /\ WithStatus(o, s).reason = s.reason
         /\ WithStatus(o, s).deleting = o.deleting /\ WithStatus(o, s).finalizer = o.finalizer
         /\ WithStatus(o, s).initial = o.initial /\ WithStatus(o, s).cordon = o.cordon
         /\ WithStatus(o, s).drain = o.drain
BY DEF WithStatus, Object

\* The copy and new differ in nothing that the cordon depends on.
SameAs(new, o) ==
  /\ new.life = o.life /\ new.reason = o.reason /\ new.deleting = o.deleting
  /\ new.initial = o.initial /\ new.cordon = o.cordon /\ new.drain = o.drain
  /\ new.finalizer = o.finalizer \/ IsUnderMaintenance(new)

\* A current copy is like the stored object.
LEMMA CurrentAlike ==
  ASSUME CordonStable, CInv, pc # "idle", objFresh, NEW new, SameAs(new, obj)
  PROVE  Alike(new, nm[cur]) /\ Fits(cur, new, reqs[cur])
<1>1. Alike(new, nm[cur])
  BY CopyFacts DEF SameAs, Alike, Agree, CurrentOK
<1> QED
  BY <1>1, CopyFacts, AlikeFits DEF CInv, CordonOK

\* A write that changes nothing the cordon depends on, after which the reconcile
\* ends, waits for pods or sets the reason.
LEMMA PlainWrite ==
  ASSUME CordonStable, CInv, pc # "idle", NEW new \in Object, NEW k, Write(new, k),
         objFresh => SameAs(new, obj),
         k \notin {"idle", "requeue"} =>
           /\ k \in {"setReason", "listPods"} /\ ~obj.deleting /\ obj.reason # "Cordon"
           /\ obj.reason = "Draining" => obj.drain = Nil
  PROVE  CordonOK'
<1>1. ASSUME objFresh, k \notin {"idle", "requeue"} PROVE GoesOn(k, new)
  <2>1. SameAs(new, obj) /\ Alike(new, nm[cur]) /\ ~obj.deleting /\ ~new.deleting
    BY <1>1, CurrentAlike DEF SameAs
  <2>2. CallOK(k, new, view)
    BY <1>1, <2>1 DEF CallOK
  <2>3. StaleOK(pc, obj, view, nmCache[cur], nm[cur]) /\ Live(obj)
    BY CopyFacts
  <2>4. StaleOK(k, new, view, nmCache[cur], new)
    BY <1>1, <2>1, <2>3 DEF StaleOK, SameAs, Live
  <2>5. CurrentOK(k, new, view, new, Unsched(cur), Admin(cur), PodsOf(cur))
    BY <1>1, <2>1 DEF CurrentOK, SameAs
  <2> QED
    BY <1>1, <2>2, <2>4, <2>5 DEF GoesOn
<1> QED
  BY <1>1, CurrentAlike, WriteCordonOK

\* A status update that keeps the reason stores an object like the copy.
LEMMA StatusSameAs ==
  ASSUME CordonStable, CInv, pc # "idle", objFresh, NEW o \in Object, o.reason = obj.reason
  PROVE  SameAs(WithStatus(nm[cur], o), obj)
<1>1. PICK new : new = WithStatus(nm[cur], o)
  OBVIOUS
<1>2. /\ new.life = nm[cur].life /\ new.reason = o.reason /\ new.deleting = nm[cur].deleting
      /\ new.finalizer = nm[cur].finalizer /\ new.initial = nm[cur].initial
      /\ new.cordon = nm[cur].cordon /\ new.drain = nm[cur].drain
  BY <1>1, CopyFacts, WithStatusFields
<1>3. SameAs(new, obj)
  BY <1>2, CopyFacts DEF SameAs, Agree, CurrentOK
<1> QED
  BY <1>1, <1>3

\* The owner reference.
LEMMA SetOwnerRefCordonOK ==
  ASSUME CordonStable, CInv, SetOwnerRef
  PROVE  CordonOK'
<1>1. PICK new, stored : new = [obj EXCEPT !.owner = TRUE] /\ stored = WithStatus(new, nm[cur])
  OBVIOUS
<1>2. /\ pc = "setOwner" /\ cur \in NM /\ nm[cur] \in Object /\ obj \in Object /\ UNCHANGED reqs
      /\ Live(obj) /\ SelfOK(obj) /\ StaleOK("setOwner", obj, view, nmCache[cur], nm[cur])
      /\ objFresh => /\ Agree(obj, nm[cur])
                     /\ CurrentOK("setOwner", obj, view, nm[cur], Unsched(cur), Admin(cur), PodsOf(cur))
  BY CopyFacts DEF SetOwnerRef
<1>3. /\ new \in Object /\ new.life = obj.life /\ new.reason = obj.reason
      /\ new.deleting = obj.deleting /\ new.finalizer = obj.finalizer
      /\ new.initial = obj.initial /\ new.cordon = obj.cordon /\ new.drain = obj.drain
  BY <1>1, <1>2 DEF Object
<1>4. stored \in Object /\ (objFresh => SameAs(stored, obj))
  BY <1>1, <1>2, <1>3, WithStatusFields DEF SameAs, Agree
<1>5. objFresh => Alike(stored, nm[cur]) /\ Fits(cur, stored, reqs[cur])
  BY <1>2, <1>4, CurrentAlike
<1>6. CASE Accepted(stored, "handle")
  <2>1. objFresh /\ \A y \in NM \ {cur} : reqs'[y] = reqs[y]
    BY <1>2, <1>6 DEF Accepted, Store
  <2>2. CallOK("handle", stored, view)
    BY DEF CallOK
  <2>3. StaleOK("handle", stored, view, nmCache[cur], stored)
    BY <1>2, <1>4, <2>1 DEF StaleOK, SameAs, Agree, Live
  <2>4. CurrentOK("handle", stored, view, stored, Unsched(cur), Admin(cur), PodsOf(cur))
    BY <1>2, <1>4, <2>1 DEF CurrentOK, SameAs, Maintained, Live, IsUnderMaintenance
  <2>5. GoesOn("handle", stored)
    BY <2>2, <2>3, <2>4 DEF GoesOn
  <2> QED
    BY <1>2, <1>4, <1>5, <1>6, <2>1, <2>5, AcceptedCordonOK
<1>7. CASE /\ Fails(stored)
           /\ pc' = "handle" /\ obj' = new /\ objFresh' = (objFresh /\ nm' = nm)
           /\ UNCHANGED <<cur, view, queue>>
           /\ UNCHANGED <<nmCache, node, nodeCache, events, podVars, admin, edits>>
  <2>1. UNCHANGED <<nmCache, node, admin, pods, cur, view>>
    BY <1>7 DEF podVars
  <2>2. Unsched(cur)' = Unsched(cur) /\ Admin(cur)' = Admin(cur) /\ PodsOf(cur)' = PodsOf(cur)
    BY <2>1 DEF Unsched, Admin, PodsOf
  <2>3. \/ UNCHANGED nm
        \/ objFresh /\ nm' = [nm EXCEPT ![cur] = stored]
    BY <1>7 DEF Fails, Store
  <2>4. StoredOK' /\ OneClaim' /\ NodeRestored'
    <3>1. CASE UNCHANGED nm
      BY <1>2, <2>1, <3>1, StoredKept DEF CInv, CordonOK
    <3>2. CASE objFresh /\ nm' = [nm EXCEPT ![cur] = stored]
      <4>1. reqs'[cur] = reqs[cur] /\ \A y \in NM \ {cur} : reqs'[y] = reqs[y]
        BY <1>2
      <4> QED
        BY <1>2, <1>4, <1>5, <2>1, <3>2, <4>1, StoreFits DEF CInv, CordonOK, IInv
    <3> QED
      BY <2>3, <3>1, <3>2
  <2>5. nm'[cur] = nm[cur] \/ Alike(nm'[cur], nm[cur])
    <3>1. CASE UNCHANGED nm
      BY <3>1
    <3>2. CASE objFresh /\ nm' = [nm EXCEPT ![cur] = stored]
      <4>1. nm'[cur] = stored
        BY <1>2, <3>2 DEF CInv, IInv, TypeOK
      <4> QED
        BY <1>5, <3>2, <4>1
    <3> QED
      BY <2>3, <3>1, <3>2
  <2>6. StaleOK("handle", new, view, nmCache[cur], nm'[cur])
    <3>1. PICK s, t, c : s = nm'[cur] /\ t = nm[cur] /\ c = nmCache[cur]
      OBVIOUS
    <3>2. StaleOK("setOwner", obj, view, c, t) /\ (s = t \/ Alike(s, t))
      BY <1>2, <2>5, <3>1
    <3>3. /\ s.life = t.life /\ s.initial = t.initial /\ s.deleting = t.deleting
          /\ s.reason = t.reason
      BY <3>2 DEF Alike
    <3>4. StaleOK("handle", new, view, c, s)
      BY <1>3, <3>2, <3>3 DEF StaleOK, Live
    <3> QED
      BY <3>1, <3>4
  <2>7. SelfOK(new) /\ CallOK("handle", new, view)
    BY <1>2, <1>3 DEF SelfOK, CallOK, Live, IsUnderMaintenance
  <2>8. objFresh' => CurrentOK("handle", new, view, nm'[cur], Unsched(cur), Admin(cur), PodsOf(cur))
    BY <1>2, <1>3, <1>7 DEF CurrentOK, Maintained, Live, IsUnderMaintenance
  <2>9. ReconcileOK'
    BY <1>7, <2>1, <2>2, <2>6, <2>7, <2>8 DEF ReconcileOK
  <2> QED
    BY <2>4, <2>9 DEF CordonOK
<1> QED
  BY <1>1, <1>6, <1>7 DEF SetOwnerRef

\* The calls that leave alone what the cordon depends on.
LEMMA PlainCallCordonOK ==
  ASSUME CordonStable, CInv,
         \/ AddFinalizer \/ MarkWaitStart \/ ResetWaitStart \/ WaitForPods \/ PodsCompleted
         \/ PodCompletionTimeout \/ ReportDrain \/ ClearDrainStatus \/ MarkReady
  PROVE  CordonOK'
<1>0. pc # "idle"
  BY DEF AddFinalizer, MarkWaitStart, ResetWaitStart, WaitForPods, PodsCompleted,
         PodCompletionTimeout, ReportDrain, ClearDrainStatus, MarkReady
<1>1. /\ cur \in NM /\ obj \in Object /\ nm[cur] \in Object /\ Live(obj)
      /\ StepOK(pc, obj, reqs[cur]) /\ CallOK(pc, obj, view) /\ (objFresh => Agree(obj, nm[cur]))
      /\ StaleOK(pc, obj, view, nmCache[cur], nm[cur])
      /\ objFresh => CurrentOK(pc, obj, view, nm[cur], Unsched(cur), Admin(cur), PodsOf(cur))
  BY <1>0, CopyFacts
<1>2. ASSUME NEW o \in Object, NEW k, Update(o, k), SameAs(o, obj), ~obj.deleting,
             k \in {"idle", "requeue", "setReason", "listPods"},
             obj.reason \notin {"Cordon", "Draining"}
      PROVE  CordonOK'
  <2>1. PICK new : new = WithStatus(o, nm[cur]) /\ Write(new, k)
    BY <1>2 DEF Update
  <2>2. new \in Object /\ (objFresh => SameAs(new, obj))
    BY <1>1, <1>2, <2>1, WithStatusFields DEF SameAs, Agree, IsUnderMaintenance
  <2> QED
    BY <1>0, <1>2, <2>1, <2>2, PlainWrite
<1>3. ASSUME NEW o \in Object, NEW k, StatusUpdate(o, k), o.reason = obj.reason, ~obj.deleting,
             k \in {"idle", "requeue", "setReason"},
             k = "setReason" => obj.reason # "Cordon" /\ (obj.reason = "Draining" => obj.drain = Nil)
      PROVE  CordonOK'
  <2>1. PICK new : new = WithStatus(nm[cur], o) /\ Write(new, k)
    BY <1>3 DEF StatusUpdate
  <2>2. new \in Object /\ (objFresh => SameAs(new, obj))
    BY <1>0, <1>1, <1>3, <2>1, WithStatusFields, StatusSameAs
  <2> QED
    BY <1>0, <1>3, <2>1, <2>2, PlainWrite
<1>4. CASE AddFinalizer
  <2>1. PICK o : o = [obj EXCEPT !.finalizer = TRUE]
    OBVIOUS
  <2>2. pc = "addFinalizer" /\ Update(o, "setReason") /\ obj.reason = "Scheduled" /\ ~obj.deleting
    BY <1>1, <1>4, <2>1 DEF AddFinalizer, StepOK, CallOK
  <2>3. o \in Object /\ SameAs(o, obj)
    BY <1>1, <2>1, <2>2 DEF Object, SameAs, IsUnderMaintenance
  <2> QED
    BY <1>2, <2>2, <2>3
<1>5. CASE MarkWaitStart \/ ResetWaitStart
  <2>1. PICK o, k : /\ o \in {[obj EXCEPT !.waitStart = "set"], [obj EXCEPT !.waitStart = "none"]}
                    /\ k \in {"listPods", "requeue"} /\ Update(o, k)
                    /\ pc \in {"markWaitStart", "resetWaitStart"}
    BY <1>5, SMT DEF MarkWaitStart, ResetWaitStart
  <2>2. obj.reason = "WaitForPodCompletion" /\ ~obj.deleting
    BY <1>1, <2>1 DEF StepOK, CallOK
  <2>3. o \in Object /\ SameAs(o, obj)
    BY <1>1, <2>1, SMT DEF Object, SameAs
  <2> QED
    BY <1>2, <2>1, <2>2, <2>3
<1>6. CASE WaitForPods \/ PodsCompleted
  <2>1. PICK o, k : /\ o = obj /\ k \in {"setReason", "requeue"} /\ StatusUpdate(o, k)
                    /\ pc = "listPods"
    BY <1>6 DEF WaitForPods, PodsCompleted
  <2>2. obj.reason = "WaitForPodCompletion" /\ ~obj.deleting
    BY <1>1, <2>1 DEF StepOK, CallOK
  <2> QED
    BY <1>1, <1>3, <2>1, <2>2
<1>7. CASE PodCompletionTimeout
  <2>1. /\ pc = "listPods" /\ Proceed("setReason", obj)
        /\ UNCHANGED <<nm, nmCache, node, admin, pods>> /\ UNCHANGED reqs
    BY <1>7 DEF PodCompletionTimeout, apiVars, cacheVars, podVars
  <2>2. obj.reason = "WaitForPodCompletion" /\ ~obj.deleting
    BY <1>1, <2>1 DEF StepOK, CallOK
  <2>3. /\ CallOK("setReason", obj, view)
        /\ StaleOK("setReason", obj, view, nmCache[cur], nm[cur])
        /\ objFresh => CurrentOK("setReason", obj, view, nm[cur], Unsched(cur), Admin(cur), PodsOf(cur))
    BY <1>1, <2>1, <2>2 DEF CallOK, StaleOK, CurrentOK
  <2> QED
    BY <1>0, <2>1, <2>3, KeepCordonOK
<1>8. CASE ReportDrain \/ ClearDrainStatus
  <2>1. PICK o, k : /\ o \in {[obj EXCEPT !.drainStatus = TRUE], [obj EXCEPT !.drainStatus = FALSE]}
                    /\ k \in {"setReason", "requeue"} /\ StatusUpdate(o, k)
                    /\ pc \in {"reportDrain", "clearDrainStatus"}
                    /\ k = "setReason" => pc = "clearDrainStatus"
    BY <1>8, SMT DEF ReportDrain, ClearDrainStatus
  <2>2. o \in Object /\ o.reason = obj.reason
    BY <1>1, <2>1, ZenonT(30) DEF Object
  <2>3. ~obj.deleting /\ obj.reason = "Draining" /\ (k = "setReason" => obj.drain = Nil)
    BY <1>1, <2>1 DEF StepOK, CallOK
  <2> QED
    BY <1>3, <2>1, <2>2, <2>3
<1>9. CASE MarkReady
  <2>1. PICK o : o = [obj EXCEPT !.readyTime = TRUE]
    OBVIOUS
  <2>2. PICK k \in {"idle", "setReason"} : pc = "markReady" /\ Update(o, k)
    BY <1>9, <2>1 DEF MarkReady, AfterMarkReady
  <2>3. obj.reason \in {"Ready", "RequestorFailed"} /\ ~obj.deleting
    BY <1>1, <2>2 DEF StepOK, CallOK
  <2>4. o \in Object /\ SameAs(o, obj)
    BY <1>1, <2>1 DEF Object, SameAs
  <2> QED
    BY <1>2, <2>2, <2>3, <2>4
<1> QED
  BY <1>4, <1>5, <1>6, <1>7, <1>8, <1>9

\* The reason: only a node that is cordoned, when it is to be, lets an object
\* leave the Cordon state.
LEMMA SetReasonCordonOK ==
  ASSUME CordonStable, CInv, SetReadyConditionReason
  PROVE  CordonOK'
<1>1. PICK o, new, s : /\ o = [obj EXCEPT !.reason = NextReason(obj)] /\ s = nm[cur]
                       /\ new = WithStatus(s, o)
  OBVIOUS
<1>2. pc = "setReason" /\ Write(new, "idle")
  BY <1>1 DEF SetReadyConditionReason, StatusUpdate
<1>3. /\ obj \in Object /\ s \in Object /\ Live(obj) /\ StepOK("setReason", obj, reqs[cur])
      /\ CallOK("setReason", obj, view) /\ SelfOK(obj) /\ SelfOK(s) /\ RequestOK(s, reqs[cur])
      /\ NodeOK(s, Unsched(cur), Admin(cur))
      /\ BehindOK(nmCache[cur], s, Unsched(cur), Admin(cur))
      /\ objFresh => /\ Agree(obj, s)
                     /\ CurrentOK("setReason", obj, view, s, Unsched(cur), Admin(cur), PodsOf(cur))
  BY <1>1, <1>2, CopyFacts
<1>4. o \in Object /\ o.reason = NextReason(obj)
  BY <1>1, <1>3, NextReasonType DEF Object
<1>5. /\ new \in Object /\ new.life = s.life /\ new.reason = NextReason(obj)
      /\ new.deleting = s.deleting /\ new.finalizer = s.finalizer
      /\ new.initial = s.initial /\ new.cordon = s.cordon
  BY <1>1, <1>3, <1>4, WithStatusFields, ZenonT(30)
<1>6. ASSUME objFresh PROVE Fits(cur, new, reqs[cur])
  <2>1. /\ s.reason = obj.reason /\ Live(s) /\ s.deleting = FALSE
        /\ obj.initial = s.initial /\ obj.cordon = s.cordon
    BY <1>3, <1>6 DEF Agree, Live, CallOK, CurrentOK, Object
  <2>2. obj.reason \in Reason \ {"Pending"}
    BY <1>3 DEF StepOK, Object
  <2>3. /\ obj.reason = "Uninitialized" => NextReason(obj) = "Pending"
        /\ obj.reason = "Scheduled" => NextReason(obj) = "Cordon"
        /\ obj.reason \notin {"Uninitialized", "Scheduled"}
             => NextReason(obj) \in {"WaitForPodCompletion", "Draining", "Ready", "RequestorFailed"}
    BY <2>2 DEF NextReason, Reason
  <2>4. Maintained(new) <=> Maintained(s)
    BY <1>5, <2>1, <2>2, <2>3 DEF Maintained, IsUnderMaintenance, Live
  <2>5. SelfOK(new)
    BY <1>3, <1>5, <2>1, <2>2, <2>3 DEF SelfOK, Live, IsUnderMaintenance, Early
  <2>6. s.initial = "none" \/ obj.reason \notin Early
    BY <1>3, <2>1 DEF SelfOK
  <2>7. NodeOK(new, Unsched(cur), Admin(cur))
    <3>1. CASE obj.reason \in {"Uninitialized", "Scheduled"}
      BY <1>3, <1>5, <2>1, <2>3, <2>4, <3>1 DEF NodeOK, Early
    <3>2. CASE obj.reason = "Cordon"
      BY <1>3, <1>5, <1>6, <2>1, <2>4, <3>2 DEF NodeOK, Early, CurrentOK
    <3>3. CASE obj.reason \notin {"Uninitialized", "Scheduled", "Cordon"}
      BY <1>3, <1>5, <2>1, <2>2, <2>4, <3>3 DEF NodeOK, Early
    <3> QED
      BY <3>1, <3>2, <3>3
  <2>8. BehindOK(nmCache[cur], new, Unsched(cur), Admin(cur))
    BY <1>3, <1>5, <2>1 DEF BehindOK, Live
  <2>9. reqs[cur].state = "none"
    BY <1>3, <2>1 DEF StepOK, RequestOK, CordonStable
  <2>10. DrainOK(new, reqs[cur], Unsched(cur), PodsOf(cur))
    BY <2>9 DEF DrainOK
  <2> QED
    BY <1>1, <2>4, <2>5, <2>7, <2>8, <2>10 DEF Fits
<1> QED
  BY <1>2, <1>5, <1>6, WriteCordonOK

\* The annotation is recorded from a view of the node that is current, before
\* the node is cordoned.
LEMMA RecordInitialCordonOK ==
  ASSUME CordonStable, CInv, RecordInitialState
  PROVE  CordonOK'
<1>1. PICK o, s, new, u, a, c :
        /\ o = [obj EXCEPT !.initial = IF view.unsched THEN "true" ELSE "false"] /\ s = nm[cur]
        /\ new = WithStatus(o, s) /\ u = Unsched(cur) /\ a = Admin(cur) /\ c = nmCache[cur]
  OBVIOUS
<1>2. PICK k \in {"cordon", "setReason"} :
        pc = "recordInitial" /\ Write(new, k) /\ k = AfterRecordInitial(o, view)
  BY <1>1 DEF RecordInitialState, AfterRecordInitial, Update
<1>3. /\ obj \in Object /\ s \in Object /\ u \in BOOLEAN /\ a \in BOOLEAN /\ Live(obj)
      /\ view \in NodeObject /\ StepOK("recordInitial", obj, reqs[cur])
      /\ CallOK("recordInitial", obj, view) /\ SelfOK(obj) /\ SelfOK(s) /\ RequestOK(s, reqs[cur])
      /\ NodeOK(s, u, a) /\ BehindOK(c, s, u, a)
      /\ StaleOK("recordInitial", obj, view, c, s)
      /\ DrainOK(s, reqs[cur], u, PodsOf(cur))
      /\ objFresh => Agree(obj, s) /\ CurrentOK("recordInitial", obj, view, s, u, a, PodsOf(cur))
  BY <1>1, <1>2, CopyFacts
<1>4. /\ o \in Object /\ o.life = obj.life /\ o.reason = obj.reason /\ o.deleting = obj.deleting
      /\ o.finalizer = obj.finalizer /\ o.cordon = obj.cordon /\ o.drain = obj.drain
      /\ o.initial = IF view.unsched THEN "true" ELSE "false"
  BY <1>1, <1>3, SMT DEF Object
<1>5. /\ new \in Object /\ new.life = obj.life /\ new.reason = s.reason
      /\ new.deleting = obj.deleting /\ new.finalizer = obj.finalizer
      /\ new.cordon = obj.cordon /\ new.drain = obj.drain
      /\ new.initial = IF view.unsched THEN "true" ELSE "false"
  <2>1. /\ new \in Object /\ new.life = o.life /\ new.reason = s.reason
        /\ new.deleting = o.deleting /\ new.finalizer = o.finalizer
        /\ new.cordon = o.cordon /\ new.drain = o.drain /\ new.initial = o.initial
    <3>1. new = WithStatus(o, s) /\ o \in Object /\ s \in Object
      BY <1>1, <1>3, <1>4
    <3> QED
      BY <3>1, WithStatusFields
  <2> QED
    BY <1>4, <2>1
<1>6. /\ obj.reason = "Cordon" /\ obj.cordon /\ obj.initial = "none" /\ ~obj.deleting
      /\ Maintained(obj)
  BY <1>3 DEF StepOK, CallOK, Maintained, IsUnderMaintenance
<1>7. ASSUME objFresh PROVE Fits(cur, new, reqs[cur]) /\ GoesOn(k, new)
  <2>1. /\ s.reason = "Cordon" /\ s.cordon /\ s.initial = "none" /\ ~s.deleting /\ Live(s)
        /\ s.finalizer = obj.finalizer /\ view.unsched = u /\ u = a /\ Maintained(s) /\ Maintained(new)
        /\ new.reason = "Cordon"
    <3>1. /\ s.reason = "Cordon" /\ s.cordon /\ s.initial = "none" /\ ~s.deleting /\ Live(s)
          /\ s.finalizer = obj.finalizer /\ view.unsched = u
      BY <1>3, <1>6, <1>7 DEF Agree, CurrentOK, Live
    <3>2. Maintained(s) /\ Maintained(new) /\ new.reason = "Cordon"
      BY <1>3, <1>5, <3>1 DEF Maintained, IsUnderMaintenance, Live
    <3> QED
      BY <1>3, <3>1, <3>2 DEF NodeOK
  <2>2. /\ new.cordon /\ ~new.deleting /\ Live(new)
        /\ new.initial = IF u THEN "true" ELSE "false"
    BY <1>3, <1>5, <1>6, <2>1 DEF Live
  <2>3. SelfOK(new)
    BY <1>5, <2>1, <2>2 DEF SelfOK, Early, Maintained
  <2>4. NodeOK(new, u, a)
    BY <1>3, <2>1, <2>2, SMT DEF NodeOK, Early
  <2>5. BehindOK(c, new, u, a)
    <3>1. Live(c) => c.initial = "none" \/ (c.deleting /\ c.initial # "false")
      BY <1>3, <2>1 DEF BehindOK
    <3>2. Live(c) => ~c.deleting
      BY <1>3, <2>1 DEF BehindOK
    <3> QED
      BY <2>2, <3>1, <3>2 DEF BehindOK, Live
  <2>6. DrainOK(new, reqs[cur], u, PodsOf(cur))
    BY <1>3, <2>1 DEF DrainOK, RequestOK
  <2>7. Fits(cur, new, reqs[cur])
    BY <1>1, <2>1, <2>3, <2>4, <2>5, <2>6 DEF Fits
  <2>8. CallOK(k, new, view)
    BY <1>2, <1>4, <2>1, <2>2 DEF CallOK, AfterRecordInitial
  <2>9. StaleOK(k, new, view, c, new)
    BY <2>2 DEF StaleOK, Live
  <2>10. k = "setReason" => u
    BY <1>2, <1>3, <1>4, <2>1 DEF AfterRecordInitial
  <2>11. CurrentOK(k, new, view, new, u, a, PodsOf(cur))
    BY <1>2, <2>1, <2>2, <2>10 DEF CurrentOK
  <2> QED
    BY <1>1, <1>2, <2>7, <2>8, <2>9, <2>11 DEF GoesOn
<1> QED
  BY <1>2, <1>5, <1>7, WriteCordonOK

\* The annotation is dropped once the node is as it was found.
LEMMA ClearInitialCordonOK ==
  ASSUME CordonStable, CInv, ClearInitialState
  PROVE  CordonOK'
<1>1. PICK o, s, new, u, a, c :
        /\ o = [obj EXCEPT !.initial = "none"] /\ s = nm[cur]
        /\ new = WithStatus(o, s) /\ u = Unsched(cur) /\ a = Admin(cur) /\ c = nmCache[cur]
  OBVIOUS
<1>2. PICK k \in {"removeFinalizer", "idle"} : pc = "clearInitial" /\ Write(new, k)
  BY <1>1 DEF ClearInitialState, HandleFinalizerRemoval, Update
<1>3. /\ obj \in Object /\ s \in Object /\ u \in BOOLEAN /\ a \in BOOLEAN /\ Live(obj)
      /\ StepOK("clearInitial", obj, reqs[cur]) /\ SelfOK(obj) /\ SelfOK(s)
      /\ NodeOK(s, u, a) /\ BehindOK(c, s, u, a) /\ SelfOK(c)
      /\ StaleOK("clearInitial", obj, view, c, s) /\ RequestOK(s, reqs[cur])
      /\ objFresh => Agree(obj, s) /\ CurrentOK("clearInitial", obj, view, s, u, a, PodsOf(cur))
  BY <1>1, <1>2, CopyFacts
<1>4. /\ o \in Object /\ o.life = obj.life /\ o.reason = obj.reason /\ o.deleting = obj.deleting
      /\ o.finalizer = obj.finalizer /\ o.cordon = obj.cordon /\ o.drain = obj.drain
      /\ o.initial = "none"
  BY <1>1, <1>3 DEF Object
<1>5. /\ new \in Object /\ new.life = o.life /\ new.reason = s.reason
      /\ new.deleting = o.deleting /\ new.finalizer = o.finalizer
      /\ new.cordon = o.cordon /\ new.drain = o.drain /\ new.initial = o.initial
  <2>1. new = WithStatus(o, s) /\ o \in Object /\ s \in Object
    BY <1>1, <1>3, <1>4
  <2> QED
    BY <2>1, WithStatusFields
<1>6. ASSUME objFresh PROVE Fits(cur, new, reqs[cur]) /\ (k # "idle" => GoesOn(k, new))
  <2>1. /\ s.reason = obj.reason /\ obj.deleting /\ s.deleting /\ Live(s) /\ s.cordon = obj.cordon
        /\ s.finalizer = obj.finalizer /\ u = a
    BY <1>3, <1>6 DEF Agree, CurrentOK, Live, StepOK
  <2>2. /\ new.reason = s.reason /\ new.deleting /\ Live(new) /\ new.cordon = s.cordon
        /\ new.finalizer = s.finalizer /\ new.initial = "none"
    BY <1>3, <1>4, <1>5, <2>1 DEF Live
  <2>3. SelfOK(new)
    BY <1>3, <2>1, <2>2 DEF SelfOK, IsUnderMaintenance
  <2>4. NodeOK(new, u, a)
    BY <2>1, <2>2 DEF NodeOK
  <2>5. BehindOK(c, new, u, a)
    <3>1. ~Live(c) \/ c.deleting
      BY <1>3, <2>1 DEF StaleOK
    <3>2. Live(c) /\ c.initial = "false" => ~a /\ ~u
      BY <1>3, <2>1 DEF BehindOK
    <3> QED
      BY <1>3, <2>1, <2>2, <3>1, <3>2 DEF BehindOK, Live
  <2>6. reqs[cur].state = "none"
    BY <1>3, <2>1 DEF StepOK, RequestOK, CordonStable
  <2>7. DrainOK(new, reqs[cur], u, PodsOf(cur))
    BY <2>6 DEF DrainOK
  <2>8. Maintained(new) <=> Maintained(s)
    BY <2>1, <2>2 DEF Maintained, IsUnderMaintenance
  <2>9. Fits(cur, new, reqs[cur])
    BY <1>1, <2>3, <2>4, <2>5, <2>7, <2>8 DEF Fits
  <2>10. ASSUME k = "removeFinalizer" PROVE GoesOn(k, new)
    <3>1. CallOK(k, new, view)
      BY <2>2, <2>10 DEF CallOK
    <3>2. StaleOK(k, new, view, c, new)
      BY <1>3, <2>1, <2>2, <2>10 DEF StaleOK, Live
    <3>3. CurrentOK(k, new, view, new, u, a, PodsOf(cur))
      BY <2>10 DEF CurrentOK
    <3> QED
      BY <1>1, <2>10, <3>1, <3>2, <3>3 DEF GoesOn
  <2> QED
    BY <1>2, <2>9, <2>10
<1> QED
  BY <1>2, <1>5, <1>6, WriteCordonOK

\* The finalizer goes last: the node is as its administrator left it.
LEMMA RemoveFinalizerCordonOK ==
  ASSUME CordonStable, CInv, RemoveFinalizer
  PROVE  CordonOK'
<1>1. PICK o, s, new, u, a, c :
        /\ o = [obj EXCEPT !.finalizer = FALSE] /\ s = nm[cur]
        /\ new = IF s.deleting THEN Gone ELSE WithStatus(o, s)
        /\ u = Unsched(cur) /\ a = Admin(cur) /\ c = nmCache[cur]
  OBVIOUS
<1>2. pc = "removeFinalizer" /\ Write(new, "idle")
  BY <1>1 DEF RemoveFinalizer
<1>3. /\ obj \in Object /\ s \in Object /\ u \in BOOLEAN /\ a \in BOOLEAN /\ Live(obj)
      /\ StepOK("removeFinalizer", obj, reqs[cur]) /\ CallOK("removeFinalizer", obj, view)
      /\ SelfOK(s) /\ RequestOK(s, reqs[cur]) /\ StaleOK("removeFinalizer", obj, view, c, s)
      /\ NodeOK(s, u, a) /\ BehindOK(c, s, u, a) /\ c \in Object
      /\ objFresh => Agree(obj, s) /\ CurrentOK("removeFinalizer", obj, view, s, u, a, PodsOf(cur))
  BY <1>1, <1>2, CopyFacts
<1>4. o \in Object
  <2>1. obj \in Object /\ o = [obj EXCEPT !.finalizer = FALSE]
    BY <1>1, <1>3
  <2> QED
    BY <2>1 DEF Object
<1>5. new \in Object
  BY <1>1, <1>3, <1>4, WithStatusFields, ConstantTypes
<1>6. ASSUME objFresh PROVE Fits(cur, new, reqs[cur])
  <2>1. /\ s.reason = obj.reason /\ obj.deleting /\ s.deleting /\ Live(s) /\ s.cordon = obj.cordon
        /\ obj.initial = s.initial
    BY <1>3, <1>6 DEF Agree, CurrentOK, Live, StepOK, CordonStable
  <2>2. new = Gone
    BY <1>1, <2>1
  <2>3. /\ ~Live(new) /\ new.initial = "none" /\ ~new.deleting /\ ~new.finalizer
        /\ new.life # "unborn" /\ ~Maintained(new)
    BY <2>2 DEF Gone, Unborn, Live, Maintained
  <2>4. SelfOK(new) /\ NodeOK(new, u, a)
    BY <2>3 DEF SelfOK, NodeOK
  <2>5. Maintained(s) /\ u = a
    BY <1>3, <2>1 DEF SelfOK, Maintained, NodeOK, CallOK
  <2>6. BehindOK(c, new, u, a)
    <3>1. Live(c) => c.deleting
      BY <1>3, <2>1 DEF StaleOK
    <3>2. Live(c) /\ c.initial = "false" => ~a /\ ~u
      BY <1>3, <2>5 DEF BehindOK
    <3> QED
      BY <2>3, <3>1, <3>2 DEF BehindOK
  <2>7. reqs[cur].state = "none"
    BY <1>3, <2>1 DEF StepOK, RequestOK, CordonStable
  <2>8. DrainOK(new, reqs[cur], u, PodsOf(cur))
    BY <2>7 DEF DrainOK
  <2> QED
    BY <1>1, <2>3, <2>4, <2>5, <2>6, <2>8 DEF Fits
<1> QED
  BY <1>2, <1>5, <1>6, WriteCordonOK

\* A drain is started on a cordoned node, and its success is reported when the
\* node has no selected pod.
LEMMA DrainCallCordonOK ==
  ASSUME CordonStable, CInv, StartDrain \/ ReportDrained
  PROVE  CordonOK'
<1>1. PICK o, new, s : /\ o = [obj EXCEPT !.drainStatus = TRUE] /\ s = nm[cur]
                       /\ new = WithStatus(s, o)
  OBVIOUS
<1>2. pc \in {"startDrain", "reportDrained"} /\ pc # "idle"
  BY DEF StartDrain, ReportDrained
<1>3. /\ cur \in NM /\ obj \in Object /\ s \in Object /\ Live(obj) /\ ~obj.deleting
      /\ obj.reason = "Draining" /\ NodeOK(s, Unsched(cur), Admin(cur))
      /\ DrainOK(s, reqs[cur], Unsched(cur), PodsOf(cur))
      /\ StaleOK(pc, obj, view, nmCache[cur], s)
      /\ objFresh => /\ Agree(obj, s)
                     /\ CurrentOK(pc, obj, view, s, Unsched(cur), Admin(cur), PodsOf(cur))
  BY <1>1, <1>2, CopyFacts DEF StepOK, CallOK
<1>4. o \in Object /\ o.reason = obj.reason
  BY <1>1, <1>3 DEF Object
<1>5. new \in Object
  BY <1>1, <1>3, <1>4, WithStatusFields
<1>6. objFresh => SameAs(new, obj) /\ Fits(cur, new, reqs[cur])
  BY <1>1, <1>2, <1>4, StatusSameAs, CurrentAlike
<1>7. CASE Refused(new)
  BY <1>2, <1>5, <1>6, <1>7, RefusedCordonOK
<1>8. ASSUME Accepted(new, "requeue"),
             reqs' = [reqs EXCEPT ![cur] = [state |-> "started", spec |-> obj.drain, targets |-> {}]]
      PROVE  CordonOK'
  <2>1. objFresh
    BY <1>8 DEF Accepted, Store
  <2>2. reqs'[cur].state = "started" /\ \A y \in NM \ {cur} : reqs'[y] = reqs[y]
    BY <1>3, <1>8 DEF CInv, IInv, TypeOK
  <2>3. new.cordon => Unsched(cur)
    <3>1. s.cordon = new.cordon /\ Maintained(s) /\ ~s.deleting /\ s.reason = "Draining"
      BY <1>3, <1>6, <2>1 DEF SameAs, Agree, CurrentOK, Maintained, Live, IsUnderMaintenance
    <3> QED
      BY <1>3, <3>1 DEF NodeOK, Early
  <2>4. DrainOK(new, reqs'[cur], Unsched(cur), PodsOf(cur))
    BY <2>2, <2>3 DEF DrainOK
  <2>5. Fits(cur, new, reqs'[cur])
    BY <1>6, <2>1, <2>4 DEF Fits
  <2> QED
    BY <1>2, <1>5, <1>8, <2>2, <2>5, AcceptedCordonOK
<1>9. ASSUME pc = "reportDrained", Accepted(new, "setReason"), RemoveRequest(cur)
      PROVE  CordonOK'
  <2>1. objFresh
    BY <1>9 DEF Accepted, Store
  <2>2. reqs'[cur].state = "none" /\ \A y \in NM \ {cur} : reqs'[y] = reqs[y]
    BY <1>3, <1>9 DEF CInv, IInv, TypeOK, RemoveRequest, NoRequest
  <2>3. DrainOK(new, reqs'[cur], Unsched(cur), PodsOf(cur))
    BY <2>2 DEF DrainOK
  <2>4. Fits(cur, new, reqs'[cur])
    BY <1>6, <2>1, <2>3 DEF Fits
  <2>5. reqs[cur].state = "success"
    BY <1>9 DEF CInv, CordonOK, ReconcileOK
  <2>6. s.cordon = new.cordon /\ (s.cordon => PodsOf(cur) = {})
    BY <1>3, <1>6, <2>1, <2>5 DEF SameAs, CurrentOK, DrainOK
  <2>7. SameAs(new, obj) /\ ~new.deleting
    BY <1>3, <1>6, <2>1 DEF SameAs
  <2>8. CallOK("setReason", new, view)
    BY <2>7 DEF CallOK
  <2>9. StaleOK("setReason", new, view, nmCache[cur], new)
    BY <1>3, <2>7 DEF StaleOK, SameAs, Live
  <2>10. CurrentOK("setReason", new, view, new, Unsched(cur), Admin(cur), PodsOf(cur))
    BY <1>3, <2>6, <2>7 DEF CurrentOK, SameAs
  <2>11. GoesOn("setReason", new)
    BY <2>8, <2>9, <2>10 DEF GoesOn
  <2> QED
    BY <1>2, <1>5, <1>9, <2>2, <2>4, <2>11, AcceptedCordonOK
<1> QED
  BY <1>1, <1>7, <1>8, <1>9 DEF StartDrain, ReportDrained

\* Only one object touches the cordon of a node: the one that carries the
\* annotation.
LEMMA PatchedNode ==
  ASSUME CordonStable, CInv, pc # "idle", NEW b \in BOOLEAN,
         Live(nm[cur]), nm[cur].initial = "false",
         node' = [node EXCEPT ![NodeName[cur]].unsched = b],
         UNCHANGED <<nm, nmCache, admin, pods, reqs>>,
         NodeOK(nm[cur], b, Admin(cur)), DrainOK(nm[cur], reqs[cur], b, PodsOf(cur))
  PROVE  StoredOK' /\ OneClaim' /\ NodeRestored'
<1>1. /\ cur \in NM /\ NodeName[cur] \in Node /\ NodeName \in [NM -> Node] /\ SelfOK(nm[cur])
      /\ BehindOK(nmCache[cur], nm[cur], Unsched(cur), Admin(cur))
      /\ StoredOK /\ OneClaim /\ NodeRestored
  BY CopyFacts, NodeNameAssumption DEF CInv, CordonOK
<1>2. Maintained(nm[cur]) /\ Claims(cur)
  BY <1>1 DEF SelfOK, Maintained, IsUnderMaintenance, Early, Claims
<1>3. /\ \A n \in Node : node'[n].unsched = IF n = NodeName[cur] THEN b ELSE node[n].unsched
  BY <1>1 DEF CInv, IInv, TypeOK, NodeObject
<1>4. ASSUME NEW y \in NM
      PROVE  /\ SelfOK(nm'[y]) /\ SelfOK(nmCache'[y])
             /\ NodeOK(nm'[y], Unsched(y)', Admin(y)')
             /\ BehindOK(nmCache'[y], nm'[y], Unsched(y)', Admin(y)')
             /\ DrainOK(nm'[y], reqs'[y], Unsched(y)', PodsOf(y)')
  <2>1. /\ nm'[y] = nm[y] /\ nmCache'[y] = nmCache[y] /\ reqs'[y] = reqs[y]
        /\ Admin(y)' = Admin(y) /\ PodsOf(y)' = PodsOf(y) /\ NodeName[y] \in Node
        /\ Unsched(y)' = IF NodeName[y] = NodeName[cur] THEN b ELSE Unsched(y)
    BY <1>1, <1>3 DEF Admin, PodsOf, Unsched
  <2>2. /\ SelfOK(nm[y]) /\ SelfOK(nmCache[y]) /\ NodeOK(nm[y], Unsched(y), Admin(y))
        /\ BehindOK(nmCache[y], nm[y], Unsched(y), Admin(y))
        /\ DrainOK(nm[y], reqs[y], Unsched(y), PodsOf(y))
        /\ RequestOK(nm[y], reqs[y])
    BY <1>1 DEF StoredOK, CInv, IInv, Guarded, CordonStable
  <2>3. CASE NodeName[y] # NodeName[cur]
    BY <2>1, <2>2, <2>3
  <2>4. CASE y = cur
    <3>1. BehindOK(nmCache[cur], nm[cur], b, Admin(cur))
      BY <1>1 DEF BehindOK
    <3> QED
      BY <2>1, <2>2, <2>4, <3>1
  <2>5. CASE y # cur /\ NodeName[y] = NodeName[cur]
    <3>1. ~Maintained(nm[y]) /\ ~Maintained(nmCache[y])
      BY <1>1, <1>2, <2>5 DEF OneClaim, Claims
    <3>2. NodeOK(nm[y], b, Admin(y))
      BY <3>1 DEF NodeOK
    <3>3. BehindOK(nmCache[y], nm[y], b, Admin(y))
      BY <2>2, <3>1 DEF BehindOK, SelfOK, Maintained, IsUnderMaintenance, Early
    <3>4. DrainOK(nm[y], reqs[y], b, PodsOf(y))
      BY <2>2, <3>1 DEF DrainOK, RequestOK, Maintained, IsUnderMaintenance
    <3> QED
      BY <2>1, <2>2, <2>5, <3>2, <3>3, <3>4
  <2> QED
    BY <2>3, <2>4, <2>5
<1>5. StoredOK'
  BY <1>4 DEF StoredOK
<1>6. OneClaim'
  BY <1>1 DEF OneClaim, Claims
<1>7. NodeRestored'
  <2> SUFFICES ASSUME NEW n \in Node, \A y \in NM : NodeName[y] = n => ~Maintained(nm[y])
               PROVE  node'[n].unsched = admin[n]
    BY DEF NodeRestored
  <2>1. n # NodeName[cur]
    BY <1>1, <1>2
  <2> QED
    BY <1>1, <1>3, <2>1 DEF NodeRestored
<1> QED
  BY <1>5, <1>6, <1>7

\* The patches of the node.
LEMMA PatchCordonOK ==
  ASSUME CordonStable, CInv, CordonNode \/ UncordonNode
  PROVE  CordonOK'
<1>1. PICK b, k : /\ b \in BOOLEAN /\ PatchNode(b, k)
                  /\ \/ pc = "cordon" /\ b = TRUE /\ k = "setReason"
                     \/ pc = "uncordon" /\ b = FALSE /\ k = AfterUncordon(obj)
  BY DEF CordonNode, UncordonNode
<1>2. PICK o, s, v, c, u, a, P : /\ o = obj /\ s = nm[cur] /\ v = view /\ c = nmCache[cur]
                                 /\ u = Unsched(cur) /\ a = Admin(cur) /\ P = PodsOf(cur)
  OBVIOUS
<1>3. /\ cur \in NM /\ o \in Object /\ s \in Object /\ Live(o) /\ a \in BOOLEAN
      /\ NodeName[cur] \in Node /\ StepOK(pc, o, reqs[cur]) /\ CallOK(pc, o, v) /\ SelfOK(s)
      /\ StaleOK(pc, o, v, c, s) /\ NodeOK(s, u, a) /\ RequestOK(s, reqs[cur]) /\ pc # "idle"
      /\ SelfOK(o)
      /\ objFresh => CurrentOK(pc, o, v, s, u, a, P)
  BY <1>1, <1>2, CopyFacts
<1>4. /\ o.initial = "false" /\ Live(s) /\ s.initial = "false"
      /\ (pc = "cordon" => ~o.deleting /\ o.reason = "Cordon")
      /\ (pc = "uncordon" => o.deleting /\ s.deleting /\ s.reason = o.reason)
  BY <1>1, <1>3 DEF CallOK, StaleOK, StepOK
<1>5. Maintained(s) /\ s.cordon /\ ~a
  BY <1>3, <1>4 DEF SelfOK, Maintained, IsUnderMaintenance, Early, NodeOK
<1>6. NodeOK(s, b, a)
  BY <1>1, <1>4, <1>5 DEF NodeOK
<1>7. DrainOK(s, reqs[cur], b, P)
  <2>1. CASE pc = "cordon"
    BY <1>1, <1>2, <1>3, <2>1, CopyFacts DEF DrainOK
  <2>2. CASE pc = "uncordon"
    <3>1. reqs[cur].state = "none"
      BY <1>3, <1>4, <2>2 DEF StepOK, RequestOK, CordonStable
    <3> QED
      BY <3>1 DEF DrainOK
  <2> QED
    BY <1>1, <2>1, <2>2
<1>8. UNCHANGED <<nm, nmCache, admin, pods, reqs>>
  BY <1>1 DEF PatchNode, cacheVars, podVars
<1>9. node' = node \/ node' = [node EXCEPT ![NodeName[cur]].unsched = b]
  BY <1>1 DEF PatchNode
<1>10. StoredOK' /\ OneClaim' /\ NodeRestored'
  <2>1. CASE node' = node
    BY <1>8, <2>1, StoredKept DEF CInv, CordonOK
  <2>2. CASE node' = [node EXCEPT ![NodeName[cur]].unsched = b]
    BY <1>1, <1>2, <1>3, <1>4, <1>6, <1>7, <1>8, <2>2, PatchedNode
  <2> QED
    BY <1>9, <2>1, <2>2
<1>11. ReconcileOK'
  <2>1. CASE pc' = "idle"
    BY <2>1 DEF ReconcileOK
  <2>2. CASE pc' # "idle"
    <3>1. node' = [node EXCEPT ![NodeName[cur]].unsched = b] /\ Proceed(k, obj)
      BY <1>1, <2>2 DEF PatchNode, Requeue
    <3>2. k \in {"setReason", "clearInitial"} /\ (k = "setReason" <=> pc = "cordon")
      BY <1>1, <1>2, <1>4 DEF AfterUncordon
    <3>3. pc' = k /\ obj' = o /\ UNCHANGED <<cur, objFresh, view>>
      BY <1>2, <3>1, <3>2 DEF Proceed
    <3>4. Unsched(cur)' = b /\ Admin(cur)' = a /\ PodsOf(cur)' = P
      BY <1>2, <1>3, <1>8, <3>1, <3>3 DEF Unsched, Admin, PodsOf, CInv, IInv, TypeOK, NodeObject
    <3>5. CallOK(k, o, v)
      BY <1>1, <1>4, <3>2 DEF CallOK
    <3>6. StaleOK(k, o, v, c, s)
      BY <1>3, <3>2 DEF StaleOK
    <3>7. objFresh => CurrentOK(k, o, v, s, b, a, P)
      BY <1>1, <1>3, <1>4, <1>5, <3>2 DEF CurrentOK
    <3> QED
      BY <1>2, <1>3, <1>8, <3>2, <3>3, <3>4, <3>5, <3>6, <3>7 DEF ReconcileOK
  <2> QED
    BY <2>1, <2>2
<1> QED
  BY <1>10, <1>11 DEF CordonOK

\* Every call of a reconcile preserves the invariant.
LEMMA CallCordonOK ==
  ASSUME CordonStable, CInv, Call
  PROVE  CordonOK'
BY SetOwnerRefCordonOK, PlainCallCordonOK, SetReasonCordonOK, RecordInitialCordonOK,
   ClearInitialCordonOK, RemoveFinalizerCordonOK, DrainCallCordonOK, PatchCordonOK DEF Call

\* A reconcile starts from a cached copy, and from a current view of the node.
LEMMA ReconcileCordonOK ==
  ASSUME CordonStable, CInv, NEW x \in NM, Reconcile(x)
  PROVE  CordonOK'
<1>1. PICK c, s, v, u, a : /\ c = nmCache[x] /\ s = nm[x] /\ v = nodeCache[NodeName[x]]
                           /\ u = Unsched(x) /\ a = Admin(x)
  OBVIOUS
<1>2. pc = "idle" /\ UNCHANGED <<nm, nmCache, node, admin, pods, reqs>> /\ nodeCache = node
  BY DEF Reconcile, apiVars, cacheVars, podVars, InformersCaughtUp, CordonStable
<1>3. StoredOK' /\ OneClaim' /\ NodeRestored'
  BY <1>2, StoredKept DEF CInv, CordonOK
<1>4. /\ v.exists /\ v.unsched = u /\ SelfOK(c) /\ BehindOK(c, s, u, a) /\ (nmFresh[x] => c = s)
      /\ NodeOK(s, u, a)
  <2>1. NodeName[x] \in Node
    BY NodeNameAssumption
  <2> QED
    BY <1>1, <1>2, <2>1
       DEF CInv, IInv, CordonStable, NodesExist, CordonOK, StoredOK, Unsched, CacheOK
<1>5. ReconcileOK'
  <2>1. CASE pc' = "idle"
    BY <2>1 DEF ReconcileOK
  <2>2. CASE pc' # "idle"
    <3>1. /\ Live(c) /\ cur' = x /\ obj' = c /\ objFresh' = nmFresh[x] /\ view' = v
          /\ pc' \in {"setOwner", "handle"}
      BY <1>1, <1>2, <1>4, <2>2 DEF Reconcile, procVars
    <3>2. CallOK(pc', c, v)
      BY <3>1 DEF CallOK
    <3>3. StaleOK(pc', c, v, c, s)
      BY <1>4, <3>1 DEF StaleOK, BehindOK
    <3>4. nmFresh[x] => CurrentOK(pc', c, v, s, u, a, PodsOf(x))
      BY <1>4, <3>1 DEF CurrentOK
    <3>5. Unsched(x)' = u /\ Admin(x)' = a /\ PodsOf(x)' = PodsOf(x)
      BY <1>1, <1>2 DEF Unsched, Admin, PodsOf
    <3>6. Unsched(cur)' = u /\ Admin(cur)' = a /\ PodsOf(cur)' = PodsOf(x)
      BY <3>1, <3>5 DEF Unsched, Admin, PodsOf
    <3> QED
      BY <1>1, <1>2, <1>4, <3>1, <3>2, <3>3, <3>4, <3>6 DEF ReconcileOK
  <2> QED
    BY <2>1, <2>2
<1> QED
  BY <1>3, <1>5 DEF CordonOK

\* The informer of the objects catches up.
LEMMA CachedNow ==
  ASSUME CordonStable, CInv, NEW x \in NM
  PROVE  BehindOK(nm[x], nm[x], Unsched(x), Admin(x))
<1>1. SelfOK(nm[x]) /\ NodeOK(nm[x], Unsched(x), Admin(x))
  BY DEF CInv, CordonOK, StoredOK
<1>2. nm[x].initial # "none" => Maintained(nm[x])
  BY <1>1 DEF SelfOK, Maintained, IsUnderMaintenance, Early
<1> QED
  BY <1>1, <1>2 DEF NodeOK, BehindOK, Live

\* So it does when the operator restarts and lists the objects anew.
LEMMA RelistCordonOK ==
  ASSUME CordonStable, CInv, SyncNodeMaintenances \/ Restart
  PROVE  CordonOK'
<1>1. /\ nmCache' = nm /\ UNCHANGED <<nm, node, admin, pods>>
      /\ \/ UNCHANGED <<reqs, procVars>>
         \/ pc' = "idle" /\ reqs' = [x \in NM |-> NoRequest]
  BY DEF SyncNodeMaintenances, Restart, apiVars, podVars
<1>2. ASSUME NEW y \in NM
      PROVE  /\ SelfOK(nm'[y]) /\ SelfOK(nmCache'[y])
             /\ NodeOK(nm'[y], Unsched(y)', Admin(y)')
             /\ BehindOK(nmCache'[y], nm'[y], Unsched(y)', Admin(y)')
             /\ DrainOK(nm'[y], reqs'[y], Unsched(y)', PodsOf(y)')
  <2>1. /\ Unsched(y)' = Unsched(y) /\ Admin(y)' = Admin(y) /\ PodsOf(y)' = PodsOf(y)
        /\ nmCache'[y] = nm[y] /\ nm'[y] = nm[y] /\ SelfOK(nm[y])
        /\ NodeOK(nm[y], Unsched(y), Admin(y))
        /\ DrainOK(nm[y], reqs[y], Unsched(y), PodsOf(y))
        /\ reqs'[y] = reqs[y] \/ reqs'[y] = NoRequest
    BY <1>1 DEF Unsched, Admin, PodsOf, CInv, CordonOK, StoredOK
  <2>2. DrainOK(nm[y], reqs'[y], Unsched(y), PodsOf(y))
    <3>1. CASE reqs'[y] = reqs[y]
      BY <2>1, <3>1
    <3>2. CASE reqs'[y] = NoRequest
      <4>1. reqs'[y].state = "none"
        BY <3>2, SMT DEF NoRequest
      <4> QED
        BY <4>1 DEF DrainOK
    <3> QED
      BY <2>1, <3>1, <3>2
  <2> QED
    BY <2>1, <2>2, CachedNow
<1>3. StoredOK'
  BY <1>2 DEF StoredOK
<1>4. OneClaim' /\ NodeRestored'
  BY <1>1 DEF OneClaim, NodeRestored, Claims, CInv, CordonOK
<1>5. ReconcileOK'
  <2>1. CASE pc' = "idle"
    BY <2>1 DEF ReconcileOK
  <2>2. CASE pc # "idle" /\ UNCHANGED <<reqs, procVars>>
    <3>1. UNCHANGED <<pc, cur, obj, objFresh, view>>
      BY <2>2 DEF procVars
    <3>2. Unsched(cur)' = Unsched(cur) /\ Admin(cur)' = Admin(cur) /\ PodsOf(cur)' = PodsOf(cur)
      BY <1>1, <3>1 DEF Unsched, Admin, PodsOf
    <3>3. StaleOK(pc, obj, view, nm[cur], nm[cur])
      BY <2>2, CopyFacts DEF StaleOK
    <3> QED
      BY <1>1, <2>2, <3>1, <3>2, <3>3 DEF ReconcileOK, CInv, CordonOK
  <2> QED
    BY <1>1, <2>1, <2>2 DEF procVars
<1> QED
  BY <1>3, <1>4, <1>5 DEF CordonOK

\* What a write by someone else leaves to a reconcile that holds an older copy.
Keeps(s, new) ==
  s.life # "unborn" =>
    /\ new.life # "unborn" /\ (Live(new) => Live(s))
    /\ Live(s) /\ s.initial # "none" => Live(new) /\ new.initial = s.initial
    /\ Live(new) /\ s.deleting => new.deleting /\ new.reason = s.reason

\* A write by someone else preserves the invariant.
LEMMA OtherWriteCordonOK ==
  ASSUME CordonStable, CInv, NEW x \in NM, NEW new \in Object, OtherWrite(x, new),
         Fits(x, new, reqs[x]), Keeps(nm[x], new)
  PROVE  CordonOK'
<1>1. /\ nm' = [nm EXCEPT ![x] = new] /\ objFresh' = (objFresh /\ cur # x)
      /\ UNCHANGED <<nmCache, node, admin, pods, reqs, pc, cur, obj, view>>
  BY DEF OtherWrite, podVars
<1>2. nm'[x] = new /\ \A y \in NM \ {x} : nm'[y] = nm[y]
  BY <1>1 DEF CInv, IInv, TypeOK
<1>3. StoredOK' /\ OneClaim' /\ NodeRestored'
  <2>1. reqs'[x] = reqs[x] /\ \A y \in NM \ {x} : reqs'[y] = reqs[y]
    BY <1>1
  <2> QED
    BY <1>1, <2>1, StoreFits DEF CInv, CordonOK, IInv
<1>4. ReconcileOK'
  <2> SUFFICES ASSUME pc # "idle" PROVE ReconcileOK'
    BY <1>1 DEF ReconcileOK
  <2>1. Unsched(cur)' = Unsched(cur) /\ Admin(cur)' = Admin(cur) /\ PodsOf(cur)' = PodsOf(cur)
    BY <1>1 DEF Unsched, Admin, PodsOf
  <2>2. CASE cur = x
    <3>1. StaleOK(pc, obj, view, nmCache[x], nm[x]) /\ SelfOK(obj) /\ CallOK(pc, obj, view)
      BY <2>2, CopyFacts
    <3>2. StaleOK(pc, obj, view, nmCache[x], new)
      BY <3>1 DEF StaleOK, Keeps
    <3> QED
      BY <1>1, <1>2, <2>2, <3>1, <3>2 DEF ReconcileOK, CInv, CordonOK
  <2>3. CASE cur # x
    <3>1. nm'[cur] = nm[cur] /\ objFresh' = objFresh
      BY <1>1, <1>2, <2>3, CopyFacts DEF CInv, IInv, TypeOK
    <3> QED
      BY <1>1, <2>1, <3>1 DEF ReconcileOK, CInv, CordonOK
  <2> QED
    BY <2>2, <2>3
<1> QED
  BY <1>3, <1>4 DEF CordonOK

\* The stored objects, with what IInv says of them.
LEMMA StoredFacts ==
  ASSUME CordonStable, CInv, NEW x \in NM
  PROVE  /\ nm[x] \in Object /\ SelfOK(nm[x]) /\ SelfOK(nmCache[x])
         /\ NodeOK(nm[x], Unsched(x), Admin(x))
         /\ BehindOK(nmCache[x], nm[x], Unsched(x), Admin(x))
         /\ DrainOK(nm[x], reqs[x], Unsched(x), PodsOf(x))
         /\ FinalizerOK(nm[x]) /\ RequestOK(nm[x], reqs[x]) /\ NodeName[x] \in Node
         /\ Unsched(x) \in BOOLEAN /\ Admin(x) \in BOOLEAN
<1>1. NodeName[x] \in Node
  BY NodeNameAssumption
<1>2. nm[x] \in Object /\ Unsched(x) \in BOOLEAN /\ Admin(x) \in BOOLEAN
  BY <1>1 DEF CInv, IInv, TypeOK, Unsched, Admin, NodeObject
<1> QED
  BY <1>1, <1>2 DEF CInv, CordonOK, StoredOK, IInv, Guarded, CordonStable

\* A new object is not under maintenance, and nothing holds a copy of it.
LEMMA CreateCordonOK ==
  ASSUME CordonStable, CInv, NEW x \in NM, Create(x)
  PROVE  CordonOK'
<1>1. PICK s \in Specs : /\ nm[x].life = "unborn"
                         /\ OtherWrite(x, [Unborn EXCEPT !.life = "live", !.cordon = s.cordon,
                                                         !.wait = s.wait, !.drain = s.drain])
  BY DEF Create
<1>2. PICK new : new = [Unborn EXCEPT !.life = "live", !.cordon = s.cordon,
                                      !.wait = s.wait, !.drain = s.drain]
  OBVIOUS
<1>3. /\ new \in Object /\ new.reason = "Uninitialized" /\ new.initial = "none"
      /\ new.deleting = FALSE /\ new.finalizer = FALSE
  <2>1. s.cordon \in BOOLEAN /\ s.wait \in BOOLEAN /\ s.drain \in DrainSpec \cup {Nil}
    BY SpecsAssumption DEF MaintenanceSpec
  <2>2. /\ Unborn \in Object /\ Unborn.reason = "Uninitialized" /\ Unborn.initial = "none"
        /\ Unborn.deleting = FALSE /\ Unborn.finalizer = FALSE
    BY ConstantTypes DEF Unborn
  <2> QED
    BY <1>2, <2>1, <2>2 DEF Object
<1>4. ~Maintained(new) /\ SelfOK(new) /\ NodeOK(new, Unsched(x), Admin(x))
  BY <1>3 DEF Maintained, IsUnderMaintenance, SelfOK, NodeOK
<1>5. BehindOK(nmCache[x], new, Unsched(x), Admin(x))
  BY <1>1, StoredFacts DEF BehindOK
<1>6. DrainOK(new, reqs[x], Unsched(x), PodsOf(x))
  BY <1>1, StoredFacts DEF DrainOK, RequestOK, Live
<1>7. ~Maintained(nm[x]) /\ Keeps(nm[x], new)
  BY <1>1 DEF Maintained, Live, Keeps
<1>8. Fits(x, new, reqs[x])
  BY <1>4, <1>5, <1>6, <1>7 DEF Fits
<1> QED
  BY <1>1, <1>2, <1>3, <1>7, <1>8, OtherWriteCordonOK

\* A deletion that takes effect at once is that of an object without a finalizer,
\* which has not touched the node.
LEMMA DeleteCordonOK ==
  ASSUME CordonStable, CInv, NEW x \in NM, Delete(x)
  PROVE  CordonOK'
<1>1. PICK s, new, c, u, a :
        /\ s = nm[x] /\ c = nmCache[x] /\ u = Unsched(x) /\ a = Admin(x)
        /\ new = IF s.finalizer THEN [s EXCEPT !.deleting = TRUE] ELSE Gone
  OBVIOUS
<1>2. OtherWrite(x, new) /\ Live(s) /\ ~s.deleting
  BY <1>1 DEF Delete
<1>3. /\ s \in Object /\ SelfOK(s) /\ NodeOK(s, u, a) /\ BehindOK(c, s, u, a)
      /\ DrainOK(s, reqs[x], u, PodsOf(x)) /\ FinalizerOK(s) /\ RequestOK(s, reqs[x])
      /\ u \in BOOLEAN /\ a \in BOOLEAN
  BY <1>1, StoredFacts
<1>4. CASE s.finalizer
  <2>1. /\ new \in Object /\ new.life = s.life /\ new.reason = s.reason /\ new.deleting = TRUE
        /\ new.finalizer = s.finalizer /\ new.initial = s.initial /\ new.cordon = s.cordon
    BY <1>1, <1>3, <1>4 DEF Object
  <2>2. Maintained(new) <=> Maintained(s)
    BY <2>1 DEF Maintained, Live, IsUnderMaintenance
  <2>3. SelfOK(new)
    BY <1>3, <1>4, <2>1 DEF SelfOK, Live, IsUnderMaintenance
  <2>4. NodeOK(new, u, a)
    BY <1>3, <2>1, <2>2 DEF NodeOK
  <2>5. BehindOK(c, new, u, a)
    BY <1>2, <1>3, <2>1 DEF BehindOK, Live
  <2>6. DrainOK(new, reqs[x], u, PodsOf(x))
    BY <1>3, <2>1 DEF DrainOK
  <2>7. Fits(x, new, reqs[x])
    BY <1>1, <2>2, <2>3, <2>4, <2>5, <2>6 DEF Fits
  <2>8. Keeps(s, new)
    BY <1>2, <2>1 DEF Keeps, Live
  <2> QED
    BY <1>1, <1>2, <2>1, <2>7, <2>8, OtherWriteCordonOK
<1>5. CASE ~s.finalizer
  <2>1. new = Gone /\ new \in Object /\ s.reason \in Early /\ s.initial = "none"
    BY <1>1, <1>2, <1>3, <1>5, ConstantTypes DEF FinalizerOK, Early, SelfOK
  <2>2. /\ ~Live(new) /\ new.initial = "none" /\ ~new.deleting /\ ~new.finalizer
        /\ new.life = "gone" /\ ~Maintained(new)
    BY <2>1 DEF Gone, Unborn, Live, Maintained
  <2>3. SelfOK(new) /\ NodeOK(new, u, a)
    BY <2>2 DEF SelfOK, NodeOK
  <2>4. BehindOK(c, new, u, a)
    BY <1>2, <1>3, <2>1, <2>2 DEF BehindOK
  <2>5. DrainOK(new, reqs[x], u, PodsOf(x))
    BY <1>3, <2>1 DEF DrainOK, RequestOK, Early
  <2>6. Maintained(s) => u = a
    BY <1>3, <2>1 DEF NodeOK
  <2>7. Fits(x, new, reqs[x])
    BY <1>1, <2>2, <2>3, <2>4, <2>5, <2>6 DEF Fits
  <2>8. Keeps(s, new)
    BY <2>1, <2>2 DEF Keeps
  <2> QED
    BY <1>1, <1>2, <2>1, <2>7, <2>8, OtherWriteCordonOK
<1> QED
  BY <1>4, <1>5

\* The scheduler takes a node that no object holds, and that is therefore as its
\* administrator left it.
LEMMA ScheduleCordonOK ==
  ASSUME CordonStable, CInv, NEW x \in NM, Schedule(x)
  PROVE  CordonOK'
<1>1. PICK s, new, c, u, a :
        /\ s = nm[x] /\ c = nmCache[x] /\ u = Unsched(x) /\ a = Admin(x)
        /\ new = [s EXCEPT !.reason = "Scheduled"]
  OBVIOUS
<1>2. /\ OtherWrite(x, new) /\ Live(s) /\ ~IsUnderMaintenance(s)
      /\ \A y \in NM : NodeName[y] = NodeName[x] => ~Maintained(nm[y]) /\ ~Maintained(nmCache[y])
  BY <1>1 DEF Schedule
<1>3. /\ s \in Object /\ SelfOK(s) /\ BehindOK(c, s, u, a) /\ RequestOK(s, reqs[x])
      /\ NodeName[x] \in Node
  BY <1>1, StoredFacts
<1>4. u = a
  BY <1>1, <1>2, <1>3 DEF CInv, CordonOK, NodeRestored, Unsched, Admin
<1>5. ~s.deleting /\ ~s.finalizer /\ s.initial = "none" /\ reqs[x].state = "none"
  BY <1>2, <1>3 DEF SelfOK, IsUnderMaintenance, Early, RequestOK
<1>6. /\ new \in Object /\ new.life = s.life /\ new.reason = "Scheduled"
      /\ new.deleting = s.deleting /\ new.finalizer = s.finalizer
      /\ new.initial = s.initial /\ new.cordon = s.cordon
  BY <1>1, <1>3, SMT DEF Object, Reason
<1>7. SelfOK(new)
  BY <1>5, <1>6 DEF SelfOK
<1>8. NodeOK(new, u, a)
  BY <1>4, <1>5, <1>6 DEF NodeOK, Early
<1>9. BehindOK(c, new, u, a)
  BY <1>2, <1>3, <1>5, <1>6 DEF BehindOK, Live
<1>10. DrainOK(new, reqs[x], u, PodsOf(x))
  BY <1>5 DEF DrainOK
<1>11. ~Maintained(nm[x]) /\ \A y \in NM : NodeName[y] = NodeName[x] => ~Claims(y)
  BY <1>2 DEF Claims
<1>12. Fits(x, new, reqs[x])
  BY <1>1, <1>7, <1>8, <1>9, <1>10, <1>11 DEF Fits
<1>13. Keeps(s, new)
  BY <1>2, <1>5, <1>6 DEF Keeps, Live
<1> QED
  BY <1>1, <1>2, <1>6, <1>12, <1>13, OtherWriteCordonOK

\* The other edits of an object leave the cordon alone.
LEMMA EditCordonOK ==
  ASSUME CordonStable, CInv, NEW x \in NM, EditObject(x)
  PROVE  CordonOK'
<1>1. PICK s, new : /\ s = nm[x] /\ OtherWrite(x, new)
                    /\ \/ \E d \in DrainSpec \cup {Nil} : new = [s EXCEPT !.drain = d]
                       \/ new = [s EXCEPT !.requestors = ~@]
                       \/ new = [s EXCEPT !.failed = ~@]
                       \/ new = [s EXCEPT !.waitStart = "invalid"]
  BY DEF EditObject, Edit, CordonStable
<1>2. s \in Object
  BY <1>1, StoredFacts
<1>3. new \in Object /\ Alike(new, s)
  <2>1. CASE \E d \in DrainSpec \cup {Nil} : new = [s EXCEPT !.drain = d]
    BY <1>2, <2>1 DEF Object, Alike
  <2>2. CASE new = [s EXCEPT !.requestors = ~@]
    BY <1>2, <2>2 DEF Object, Alike
  <2>3. CASE new = [s EXCEPT !.failed = ~@]
    BY <1>2, <2>3 DEF Object, Alike
  <2>4. CASE new = [s EXCEPT !.waitStart = "invalid"]
    BY <1>2, <2>4 DEF Object, Alike
  <2> QED
    BY <1>1, <2>1, <2>2, <2>3, <2>4
<1>4. Fits(x, new, reqs[x])
  BY <1>1, <1>3, AlikeFits DEF CInv, CordonOK
<1>5. Keeps(s, new)
  BY <1>3 DEF Keeps, Alike, Live
<1> QED
  BY <1>1, <1>3, <1>4, <1>5, OtherWriteCordonOK

\* A step that leaves the objects and the reconcile alone.
LEMMA BackgroundCordonOK ==
  ASSUME CordonStable, CInv, UNCHANGED <<nm, nmCache, procVars>>,
         \A y \in NM : /\ NodeOK(nm[y], Unsched(y)', Admin(y)')
                       /\ BehindOK(nmCache[y], nm[y], Unsched(y)', Admin(y)')
                       /\ DrainOK(nm[y], reqs'[y], Unsched(y)', PodsOf(y)'),
         NodeRestored',
         pc = "reportDrained" => reqs'[cur].state = "success",
         pc # "idle" /\ objFresh =>
           CurrentOK(pc, obj, view, nm[cur], Unsched(cur)', Admin(cur)', PodsOf(cur)')
  PROVE  CordonOK'
<1>1. StoredOK'
  BY DEF CInv, CordonOK, StoredOK
<1>2. OneClaim'
  BY DEF CInv, CordonOK, OneClaim, Claims
<1>3. ReconcileOK'
  BY DEF CInv, CordonOK, ReconcileOK, procVars
<1> QED
  BY <1>1, <1>2, <1>3 DEF CordonOK

\* The drain goroutines.
LEMMA DrainCordonOK ==
  ASSUME CordonStable, CInv, NEW x \in NM, DoDrain(x) \/ DrainError(x)
  PROVE  CordonOK'
<1>1. /\ UNCHANGED <<nm, nmCache, procVars>> /\ UNCHANGED <<node, admin>>
  BY DEF DoDrain, DrainError, DrainList, DrainEvict, DrainSuccess, apiVars, cacheVars
<1>2. /\ NodeName \in [NM -> Node] /\ reqs \in [NM -> Request] /\ pods \in [Node -> SUBSET Pod]
  BY NodeNameAssumption DEF CInv, IInv, TypeOK
<1>3. \A y \in NM : PodsOf(y)' \subseteq PodsOf(y)
  <2>1. \A n \in Node : pods'[n] \subseteq pods[n]
    <3>1. CASE UNCHANGED pods
      BY <3>1
    <3>2. CASE \E p \in Pod : DrainEvict(x, p)
      <4>1. PICK p \in Pod : pods' = [pods EXCEPT ![NodeName[x]] = @ \ {p}]
        BY <3>2 DEF DrainEvict
      <4>2. \A n \in Node : pods'[n] = IF n = NodeName[x] THEN pods[n] \ {p} ELSE pods[n]
        BY <1>2, <4>1
      <4> QED
        BY <4>2
    <3>3. UNCHANGED pods \/ \E p \in Pod : DrainEvict(x, p)
      <4>1. CASE DrainList(x) \/ DrainSuccess(x) \/ DrainError(x)
        BY <4>1 DEF DrainList, DrainSuccess, DrainError, podVars
      <4> QED
        BY <4>1 DEF DoDrain
    <3> QED
      BY <3>1, <3>2, <3>3
  <2> QED
    BY <1>2, <2>1 DEF PodsOf
<1>4. \A y \in NM : /\ Unsched(y)' = Unsched(y) /\ Admin(y)' = Admin(y)
                    /\ NodeOK(nm[y], Unsched(y), Admin(y))
                    /\ BehindOK(nmCache[y], nm[y], Unsched(y), Admin(y))
                    /\ DrainOK(nm[y], reqs[y], Unsched(y), PodsOf(y))
  BY <1>1 DEF Unsched, Admin, CInv, CordonOK, StoredOK
<1>5. \A y \in NM \ {x} : reqs'[y] = reqs[y]
  BY <1>2 DEF DoDrain, DrainError, DrainList, DrainEvict, DrainSuccess, SetState
<1>6. /\ DrainOK(nm[x], reqs'[x], Unsched(x), PodsOf(x)')
      /\ reqs[x].state = "success" => reqs'[x].state = "success"
  <2>1. CASE DrainList(x)
    <3>1. reqs'[x].state = "evicting" /\ reqs'[x].targets = PodsOf(x) /\ reqs[x].state = "started"
      BY <1>2, <2>1 DEF DrainList, Request, PodsOf
    <3> QED
      BY <1>3, <1>4, <3>1 DEF DrainOK
  <2>2. CASE DrainSuccess(x)
    <3>1. /\ reqs'[x].state = "success" /\ reqs[x].state = "evicting"
          /\ reqs[x].targets \cap PodsOf(x) = {}
      BY <1>2, <2>2 DEF DrainSuccess, SetState, Request, PodsOf
    <3> QED
      BY <1>3, <1>4, <3>1 DEF DrainOK
  <2>3. CASE DrainError(x)
    <3>1. reqs'[x].state = "error" /\ reqs[x].state \in {"started", "evicting"}
      BY <1>2, <2>3 DEF DrainError, SetState, Request
    <3> QED
      BY <1>4, <3>1 DEF DrainOK
  <2>4. CASE \E p \in Pod : DrainEvict(x, p)
    <3>1. reqs'[x] = reqs[x]
      BY <2>4 DEF DrainEvict
    <3> QED
      BY <1>3, <1>4, <3>1 DEF DrainOK
  <2> QED
    BY <2>1, <2>2, <2>3, <2>4 DEF DoDrain
<1>7. \A y \in NM : /\ NodeOK(nm[y], Unsched(y)', Admin(y)')
                    /\ BehindOK(nmCache[y], nm[y], Unsched(y)', Admin(y)')
                    /\ DrainOK(nm[y], reqs'[y], Unsched(y)', PodsOf(y)')
  <2> SUFFICES ASSUME NEW y \in NM PROVE DrainOK(nm[y], reqs'[y], Unsched(y)', PodsOf(y)')
    BY <1>4
  <2>1. CASE y = x
    BY <1>4, <1>6, <2>1
  <2>2. CASE y # x
    BY <1>3, <1>4, <1>5, <2>2 DEF DrainOK
  <2> QED
    BY <2>1, <2>2
<1>8. NodeRestored'
  BY <1>1 DEF NodeRestored, CInv, CordonOK
<1>9. ASSUME pc = "reportDrained" PROVE reqs'[cur].state = "success"
  <2>1. cur \in NM /\ reqs[cur].state = "success"
    BY <1>9 DEF CInv, CordonOK, ReconcileOK, IInv, CopyOK
  <2> QED
    BY <1>5, <1>6, <2>1
<1>10. ASSUME pc # "idle", objFresh
       PROVE  CurrentOK(pc, obj, view, nm[cur], Unsched(cur)', Admin(cur)', PodsOf(cur)')
  <2>1. /\ cur \in NM /\ cur' = cur
        /\ CurrentOK(pc, obj, view, nm[cur], Unsched(cur), Admin(cur), PodsOf(cur))
    BY <1>1, <1>10, CopyFacts DEF procVars
  <2>2. Unsched(cur)' = Unsched(cur) /\ Admin(cur)' = Admin(cur) /\ PodsOf(cur)' \subseteq PodsOf(cur)
    BY <1>3, <1>4, <2>1 DEF Unsched, Admin, PodsOf
  <2> QED
    BY <2>1, <2>2 DEF CurrentOK
<1> QED
  BY <1>1, <1>7, <1>8, <1>9, <1>10, BackgroundCordonOK

\* Pods are bound to schedulable nodes only, and such a node is not drained.
LEMMA BindPodCordonOK ==
  ASSUME CordonStable, CInv, NEW p \in Pod, NEW n \in Node, BindPod(p, n)
  PROVE  CordonOK'
<1>1. /\ UNCHANGED <<nm, nmCache, procVars>> /\ UNCHANGED <<node, admin, reqs>>
      /\ ~node[n].unsched /\ pods' = [pods EXCEPT ![n] = @ \cup {p}]
  BY DEF BindPod, apiVars, cacheVars
<1>2. \A y \in NM : /\ Unsched(y)' = Unsched(y) /\ Admin(y)' = Admin(y)
                    /\ PodsOf(y)' = PodsOf(y) \/ ~Unsched(y)
  <2>1. NodeName \in [NM -> Node] /\ pods \in [Node -> SUBSET Pod]
    BY NodeNameAssumption DEF CInv, IInv, TypeOK
  <2> QED
    BY <1>1, <2>1 DEF Unsched, Admin, PodsOf
<1>3. \A y \in NM : /\ NodeOK(nm[y], Unsched(y)', Admin(y)')
                    /\ BehindOK(nmCache[y], nm[y], Unsched(y)', Admin(y)')
                    /\ DrainOK(nm[y], reqs'[y], Unsched(y)', PodsOf(y)')
  <2> SUFFICES ASSUME NEW y \in NM
               PROVE  /\ NodeOK(nm[y], Unsched(y)', Admin(y)')
                      /\ BehindOK(nmCache[y], nm[y], Unsched(y)', Admin(y)')
                      /\ DrainOK(nm[y], reqs'[y], Unsched(y)', PodsOf(y)')
    OBVIOUS
  <2>1. DrainOK(nm[y], reqs[y], Unsched(y), PodsOf(y)')
    BY <1>2, StoredFacts DEF DrainOK
  <2> QED
    BY <1>1, <1>2, <2>1, StoredFacts
<1>4. NodeRestored'
  BY <1>1 DEF NodeRestored, CInv, CordonOK
<1>5. pc = "reportDrained" => reqs'[cur].state = "success"
  BY <1>1 DEF CInv, CordonOK, ReconcileOK
<1>6. ASSUME pc # "idle", objFresh
      PROVE  CurrentOK(pc, obj, view, nm[cur], Unsched(cur)', Admin(cur)', PodsOf(cur)')
  <2>1. /\ cur \in NM /\ cur' = cur /\ Live(obj) /\ Agree(obj, nm[cur]) /\ CallOK(pc, obj, view)
        /\ NodeOK(nm[cur], Unsched(cur), Admin(cur))
        /\ CurrentOK(pc, obj, view, nm[cur], Unsched(cur), Admin(cur), PodsOf(cur))
    BY <1>1, <1>6, CopyFacts DEF procVars
  <2>2. /\ Unsched(cur)' = Unsched(cur) /\ Admin(cur)' = Admin(cur)
        /\ PodsOf(cur)' = PodsOf(cur) \/ ~Unsched(cur)
    BY <1>2, <2>1 DEF Unsched, Admin, PodsOf
  <2>3. pc = "setReason" /\ obj.reason = "Draining" /\ obj.cordon => Unsched(cur)
    BY <2>1 DEF NodeOK, Early, CallOK, CurrentOK, Agree, Maintained, Live, IsUnderMaintenance
  <2> QED
    BY <2>1, <2>2, <2>3 DEF CurrentOK
<1> QED
  BY <1>1, <1>3, <1>4, <1>5, <1>6, BackgroundCordonOK

\* Administrators touch only nodes that no object holds.
LEMMA AdminCordonOK ==
  ASSUME CordonStable, CInv, NEW n \in Node, AdminCordon(n)
  PROVE  CordonOK'
<1>1. /\ UNCHANGED <<nm, nmCache, procVars>> /\ UNCHANGED <<pods, reqs>>
      /\ node' = [node EXCEPT ![n].unsched = ~@]
      /\ admin' = [admin EXCEPT ![n] = ~node[n].unsched]
      /\ \A x \in NM : NodeName[x] = n => ~Maintained(nm[x]) /\ ~Maintained(nmCache[x])
  BY DEF AdminCordon, cacheVars, podVars
<1>2. NodeName \in [NM -> Node] /\ node \in [Node -> NodeObject] /\ admin \in [Node -> BOOLEAN]
  BY NodeNameAssumption DEF CInv, IInv, TypeOK
<1>3. /\ node'[n].unsched = admin'[n]
      /\ \A m \in Node \ {n} : node'[m] = node[m] /\ admin'[m] = admin[m]
  BY <1>1, <1>2 DEF NodeObject
<1>4. \A y \in NM : /\ PodsOf(y)' = PodsOf(y)
                    /\ NodeName[y] # n => Unsched(y)' = Unsched(y) /\ Admin(y)' = Admin(y)
  BY <1>1, <1>2, <1>3 DEF PodsOf, Unsched, Admin
<1>5. ASSUME NEW y \in NM
      PROVE  /\ NodeOK(nm[y], Unsched(y)', Admin(y)')
             /\ BehindOK(nmCache[y], nm[y], Unsched(y)', Admin(y)')
             /\ DrainOK(nm[y], reqs'[y], Unsched(y)', PodsOf(y)')
  <2>1. CASE NodeName[y] # n
    BY <1>1, <1>4, <2>1, StoredFacts
  <2>2. CASE NodeName[y] = n
    <3>1. ~Maintained(nm[y]) /\ ~Maintained(nmCache[y])
      BY <1>1, <2>2
    <3>2. NodeOK(nm[y], Unsched(y)', Admin(y)')
      BY <3>1 DEF NodeOK
    <3>3. BehindOK(nmCache[y], nm[y], Unsched(y)', Admin(y)')
      BY <3>1, StoredFacts DEF BehindOK, SelfOK, Maintained, IsUnderMaintenance, Early
    <3>4. DrainOK(nm[y], reqs'[y], Unsched(y)', PodsOf(y)')
      BY <1>1, <3>1, StoredFacts DEF DrainOK, RequestOK, Maintained, IsUnderMaintenance
    <3> QED
      BY <3>2, <3>3, <3>4
  <2> QED
    BY <2>1, <2>2
<1>6. NodeRestored'
  BY <1>1, <1>3 DEF NodeRestored, CInv, CordonOK
<1>7. pc = "reportDrained" => reqs'[cur].state = "success"
  BY <1>1 DEF CInv, CordonOK, ReconcileOK
<1>8. ASSUME pc # "idle", objFresh
      PROVE  CurrentOK(pc, obj, view, nm[cur], Unsched(cur)', Admin(cur)', PodsOf(cur)')
  <2>1. /\ cur \in NM /\ cur' = cur /\ Live(obj) /\ SelfOK(obj) /\ Agree(obj, nm[cur])
        /\ StepOK(pc, obj, reqs[cur])
        /\ CurrentOK(pc, obj, view, nm[cur], Unsched(cur), Admin(cur), PodsOf(cur))
    BY <1>1, <1>8, CopyFacts DEF procVars
  <2>2. CASE NodeName[cur] # n
    <3>1. Unsched(cur)' = Unsched(cur) /\ Admin(cur)' = Admin(cur) /\ PodsOf(cur)' = PodsOf(cur)
      BY <1>4, <2>1, <2>2 DEF Unsched, Admin, PodsOf
    <3> QED
      BY <2>1, <3>1
  <2>3. CASE NodeName[cur] = n
    <3>1. ~Maintained(obj)
      BY <1>1, <2>1, <2>3 DEF Maintained, Live, IsUnderMaintenance, Agree
    <3>2. /\ ~obj.deleting /\ obj.reason \notin {"Cordon", "Draining"}
      BY <2>1, <3>1 DEF Maintained, SelfOK, IsUnderMaintenance
    <3>3. pc # "clearInitial"
      BY <2>1, <3>2 DEF StepOK
    <3> QED
      BY <2>1, <3>1, <3>2, <3>3 DEF CurrentOK
  <2> QED
    BY <2>2, <2>3
<1> QED
  BY <1>1, <1>5, <1>6, <1>7, <1>8, BackgroundCordonOK

-----------------------------------------------------------------------------
(* Theorems. *)

\* The invariant holds in the initial states.
LEMMA InitCInv == Init => CInv
<1> SUFFICES ASSUME Init PROVE CInv
  OBVIOUS
<1>1. /\ nm = [x \in NM |-> Unborn] /\ nmCache = nm /\ reqs = [x \in NM |-> NoRequest]
      /\ pc = "idle" /\ \A n \in Node : node[n].unsched = admin[n]
  BY DEF Init
<1>2. /\ ~Live(Unborn) /\ ~Maintained(Unborn) /\ Unborn.initial = "none" /\ ~Unborn.deleting
      /\ ~Unborn.finalizer /\ NoRequest.state = "none"
  BY DEF Unborn, Live, Maintained, NoRequest
<1>3. StoredOK
  BY <1>1, <1>2 DEF StoredOK, SelfOK, NodeOK, BehindOK, DrainOK
<1>4. OneClaim /\ NodeRestored /\ ReconcileOK
  BY <1>1, <1>2 DEF OneClaim, Claims, NodeRestored, ReconcileOK
<1> QED
  BY <1>3, <1>4, InitIInv DEF CInv, CordonOK

\* Every step preserves the invariant.
LEMMA NextCInv == CordonStable => (CInv /\ [Next]_vars => CInv')
<1> SUFFICES ASSUME CordonStable, CInv, [Next]_vars PROVE CInv'
  OBVIOUS
<1>1. IInv'
  BY NextIInv DEF CInv
<1>2. CASE UNCHANGED <<nm, nmCache, node, admin, pods, reqs, procVars>>
  <2>1. UNCHANGED <<pc, cur, obj, objFresh, view>>
    BY <1>2 DEF procVars
  <2>2. StoredOK' /\ OneClaim' /\ NodeRestored'
    BY <1>2, StoredKept DEF CInv, CordonOK
  <2>3. ReconcileOK'
    BY <1>2, <2>1 DEF CInv, CordonOK, ReconcileOK, Unsched, Admin, PodsOf
  <2> QED
    BY <1>1, <2>2, <2>3 DEF CInv, CordonOK
<1>3. CASE UNCHANGED vars \/ SyncNodes \/ \E x \in NM : HandleEvent(x)
  <2>1. UNCHANGED <<nm, nmCache, node, admin, pods, reqs, procVars>>
    BY <1>3 DEF vars, SyncNodes, HandleEvent, apiVars, podVars, procVars
  <2> QED
    BY <1>1, <1>2, <2>1
<1>4. CASE Environment
  <2>1. ASSUME NEW n \in Node PROVE ~RemoveNode(n)
    BY DEF RemoveNode, Edit, CordonStable, NodesStay
  <2> QED
    BY <1>1, <1>4, <2>1, CreateCordonOK, DeleteCordonOK, ScheduleCordonOK, EditCordonOK,
       AdminCordonOK, BindPodCordonOK, RelistCordonOK DEF Environment, CInv
<1>5. CASE Reconciler
  BY <1>1, <1>5, HandlerCordonOK, CallCordonOK DEF Reconciler, CInv
<1> QED
  BY <1>1, <1>3, <1>4, <1>5, ReconcileCordonOK, RelistCordonOK, DrainCordonOK DEF Next, CInv

\* When nodes are not removed, spec.cordon is not edited and the reconciler sees
\* its nodes as they are: once cordoned, a node under maintenance stays
\* unschedulable until the maintenance is deleted, whatever conflicts, faults,
\* restarts, stale copies and other maintenances of the node the reconciler
\* meets.  An object leaves the Cordon state from a current copy only, on which
\* HandleCordon has found or made the node unschedulable.
THEOREM AlwaysCordonedWhileMaintained == CordonStable => (Spec => []CordonedWhileMaintained)
<1> SUFFICES ASSUME CordonStable PROVE Spec => []CordonedWhileMaintained
  OBVIOUS
<1>1. CInv => CordonedWhileMaintained
  <2> SUFFICES ASSUME CInv, NEW x \in NM, Live(nm[x]), ~nm[x].deleting, nm[x].cordon,
                      nm[x].reason \notin {"Uninitialized", "Pending", "Scheduled", "Cordon"}
               PROVE  node[NodeName[x]].unsched
    BY DEF CordonedWhileMaintained
  <2> QED
    BY StoredFacts DEF NodeOK, Maintained, IsUnderMaintenance, Early, Unsched
<1> QED
  BY <1>1, InitCInv, NextCInv, PTL DEF Spec

\* Under the same conditions a node without maintenance is as schedulable as
\* its administrator last left it: the annotation is written before the node is
\* cordoned and dropped after it is uncordoned, and the finalizer goes last.
THEOREM AlwaysNodeRestored == CordonStable => (Spec => []NodeRestored)
<1> SUFFICES ASSUME CordonStable PROVE Spec => []NodeRestored
  OBVIOUS
<1>1. CInv => NodeRestored
  BY DEF CInv, CordonOK
<1> QED
  BY <1>1, InitCInv, NextCInv, PTL DEF Spec

\* Under the same conditions a drain that runs has a cordoned node, when its
\* maintenance is to cordon it: StartDrain needs a current copy in the Draining
\* state, and the clean-up stops the drain before it uncordons the node.
THEOREM AlwaysDrainOnCordonedNode == CordonStable => (Spec => []DrainOnCordonedNode)
<1> SUFFICES ASSUME CordonStable PROVE Spec => []DrainOnCordonedNode
  OBVIOUS
<1>1. CInv => DrainOnCordonedNode
  BY StoredFacts DEF DrainOnCordonedNode, DrainOK, Unsched
<1> QED
  BY <1>1, InitCInv, NextCInv, PTL DEF Spec

\* The stored reasons change by one call and by the scheduler only.
LEMMA ReasonWriters ==
  ASSUME CordonStable, CInv, Next, NEW x \in NM,
         nm[x].reason = "Draining", nm'[x].reason = "Ready"
  PROVE  pc = "setReason" /\ cur = x /\ objFresh /\ obj.reason = "Draining"
<1>1. nm \in [NM -> Object] /\ nm[x] \in Object
  BY DEF CInv, IInv, TypeOK
<1>2. nm' # nm
  OBVIOUS
<1>3. ASSUME NEW y \in NM, NEW new, nm' = [nm EXCEPT ![y] = new],
             new.reason \in {nm[y].reason, "Uninitialized", "Scheduled"}
      PROVE  FALSE
  BY <1>1, <1>3
<1>4. ~Environment
  <2>1. ASSUME NEW y \in NM, Create(y) PROVE FALSE
    <3>1. PICK s \in Specs : nm' = [nm EXCEPT ![y] = [Unborn EXCEPT !.life = "live",
                                      !.cordon = s.cordon, !.wait = s.wait, !.drain = s.drain]]
      BY <2>1 DEF Create, OtherWrite
    <3>2. [Unborn EXCEPT !.life = "live", !.cordon = s.cordon, !.wait = s.wait,
                         !.drain = s.drain].reason = "Uninitialized"
      BY DEF Unborn
    <3> QED
      BY <1>3, <3>1, <3>2
  <2>2. ASSUME NEW y \in NM, Delete(y) PROVE FALSE
    <3>1. PICK new : /\ nm' = [nm EXCEPT ![y] = new]
                     /\ new = Gone \/ new = [nm[y] EXCEPT !.deleting = TRUE]
      BY <2>2 DEF Delete, OtherWrite
    <3>2. nm[y] \in Object
      BY <1>1
    <3>3. new.reason \in {nm[y].reason, "Uninitialized"}
      BY <3>1, <3>2 DEF Gone, Unborn, Object
    <3> QED
      BY <1>3, <3>1, <3>3
  <2>3. ASSUME NEW y \in NM, Schedule(y) PROVE FALSE
    <3>1. nm' = [nm EXCEPT ![y] = [nm[y] EXCEPT !.reason = "Scheduled"]] /\ nm[y] \in Object
      BY <1>1, <2>3 DEF Schedule, OtherWrite
    <3>2. [nm[y] EXCEPT !.reason = "Scheduled"].reason = "Scheduled"
      BY <3>1 DEF Object
    <3> QED
      BY <1>3, <3>1, <3>2
  <2>4. ASSUME NEW y \in NM, EditObject(y) PROVE FALSE
    <3>1. PICK s, new : /\ s = nm[y] /\ nm' = [nm EXCEPT ![y] = new]
                        /\ \/ \E d \in DrainSpec \cup {Nil} : new = [s EXCEPT !.drain = d]
                           \/ new = [s EXCEPT !.requestors = ~@]
                           \/ new = [s EXCEPT !.failed = ~@]
                           \/ new = [s EXCEPT !.waitStart = "invalid"]
      <4>1. PICK s, new : /\ s = nm[y] /\ OtherWrite(y, new)
                          /\ \/ \E d \in DrainSpec \cup {Nil} : new = [s EXCEPT !.drain = d]
                             \/ new = [s EXCEPT !.requestors = ~@]
                             \/ new = [s EXCEPT !.failed = ~@]
                             \/ new = [s EXCEPT !.waitStart = "invalid"]
        BY <2>4 DEF EditObject, Edit, CordonStable
      <4> QED
        BY <4>1 DEF OtherWrite
    <3>2. s \in Object
      BY <1>1, <3>1
    <3>3. new.reason = s.reason
      BY <3>1, <3>2 DEF Object
    <3> QED
      BY <1>3, <3>1, <3>3
  <2> QED
    BY <1>2, <2>1, <2>2, <2>3, <2>4
       DEF Environment, AdminCordon, RemoveNode, BindPod, Restart, apiVars
<1>5. Call
  BY <1>2, <1>4
     DEF Next, Reconciler, Reconcile, HandleEvent, SyncNodeMaintenances, SyncNodes,
       DoDrain, DrainList, DrainSuccess, DrainEvict, DrainError, Handler, HandleUninitializedState,
       HandlePending, HandleScheduledState, HandleCordonState, HandleWaitPodCompletionState,
       HandleDrainState, HandleTerminalState, Handle, apiVars
<1>6. pc # "idle"
  BY <1>5 DEF Call, SetOwnerRef, AddFinalizer, SetReadyConditionReason, RecordInitialState,
         CordonNode, UncordonNode, ClearInitialState, RemoveFinalizer, MarkWaitStart,
         ResetWaitStart, WaitForPods, PodsCompleted, PodCompletionTimeout, StartDrain, ReportDrain,
         ReportDrained, ClearDrainStatus, MarkReady
<1>7. /\ cur \in NM /\ obj \in Object /\ nm[cur] \in Object
      /\ objFresh => Agree(obj, nm[cur])
  BY <1>6, CopyFacts
<1>8. ASSUME NEW new, objFresh => new.reason \in {nm[cur].reason, "Uninitialized"}
      PROVE  ~(objFresh /\ nm' = [nm EXCEPT ![cur] = new])
  BY <1>3, <1>7, <1>8
<1>9. ASSUME NEW new, NEW k, Write(new, k)
      PROVE  objFresh /\ nm' = [nm EXCEPT ![cur] = new]
  <2>1. UNCHANGED nm \/ (objFresh /\ nm' = [nm EXCEPT ![cur] = new])
    BY <1>9 DEF Write, Accepted, Refused, Fails, Store
  <2> QED
    BY <1>2, <2>1
<1>10. ASSUME NEW o \in Object, NEW k, Update(o, k) PROVE FALSE
  <2>1. PICK new : new = WithStatus(o, nm[cur]) /\ Write(new, k)
    BY <1>10 DEF Update
  <2>2. new.reason = nm[cur].reason
    BY <1>7, <2>1, WithStatusFields
  <2> QED
    BY <1>8, <1>9, <2>1, <2>2
<1>11. ASSUME NEW o \in Object, NEW k, StatusUpdate(o, k), o.reason = obj.reason PROVE FALSE
  <2>1. PICK new : new = WithStatus(nm[cur], o) /\ Write(new, k)
    BY <1>11 DEF StatusUpdate
  <2>2. objFresh => new.reason = nm[cur].reason
    BY <1>7, <1>11, <2>1, WithStatusFields DEF Agree
  <2> QED
    BY <1>8, <1>9, <2>1, <2>2
<1>12. SetReadyConditionReason
  <2>1. ~SetOwnerRef
    <3>1. [obj EXCEPT !.owner = TRUE] \in Object
      BY <1>7 DEF Object
    <3>2. PICK new : new = WithStatus([obj EXCEPT !.owner = TRUE], nm[cur])
      OBVIOUS
    <3>3. SetOwnerRef => UNCHANGED nm \/ (objFresh /\ nm' = [nm EXCEPT ![cur] = new])
      BY <3>2 DEF SetOwnerRef, Accepted, Fails, Store
    <3>4. new.reason = nm[cur].reason
      BY <1>7, <3>1, <3>2, WithStatusFields
    <3> QED
      BY <1>2, <1>8, <3>3, <3>4
  <2>2. ~AddFinalizer /\ ~RecordInitialState /\ ~ClearInitialState
    <3>1. /\ [obj EXCEPT !.finalizer = TRUE] \in Object /\ [obj EXCEPT !.initial = "none"] \in Object
          /\ [obj EXCEPT !.initial = IF view.unsched THEN "true" ELSE "false"] \in Object
      BY <1>7, ZenonT(30) DEF Object
    <3> QED
      BY <1>10, <3>1 DEF AddFinalizer, RecordInitialState, ClearInitialState
  <2>3. ~MarkWaitStart /\ ~ResetWaitStart /\ ~MarkReady
    <3>1. /\ [obj EXCEPT !.waitStart = "set"] \in Object /\ [obj EXCEPT !.waitStart = "none"] \in Object
          /\ [obj EXCEPT !.readyTime = TRUE] \in Object
      BY <1>7 DEF Object
    <3> QED
      BY <1>10, <3>1 DEF MarkWaitStart, ResetWaitStart, MarkReady
  <2>4. ~CordonNode /\ ~UncordonNode /\ ~PodCompletionTimeout
    BY <1>2 DEF CordonNode, UncordonNode, PatchNode, PodCompletionTimeout, apiVars
  <2>5. ~RemoveFinalizer
    <3>1. [obj EXCEPT !.finalizer = FALSE] \in Object
      BY <1>7 DEF Object
    <3>2. PICK new : new = IF nm[cur].deleting THEN Gone
                           ELSE WithStatus([obj EXCEPT !.finalizer = FALSE], nm[cur])
      OBVIOUS
    <3>3. RemoveFinalizer => Write(new, "idle")
      BY <3>2 DEF RemoveFinalizer
    <3>4. new.reason \in {nm[cur].reason, "Uninitialized"}
      BY <1>7, <3>1, <3>2, WithStatusFields DEF Gone, Unborn
    <3> QED
      BY <1>8, <1>9, <3>3, <3>4
  <2>6. ~WaitForPods /\ ~PodsCompleted
    BY <1>7, <1>11 DEF WaitForPods, PodsCompleted
  <2>7. /\ [obj EXCEPT !.drainStatus = TRUE] \in Object
        /\ [obj EXCEPT !.drainStatus = TRUE].reason = obj.reason
        /\ [obj EXCEPT !.drainStatus = FALSE] \in Object
        /\ [obj EXCEPT !.drainStatus = FALSE].reason = obj.reason
    BY <1>7 DEF Object
  <2>8. ~ReportDrain /\ ~ClearDrainStatus
    BY <1>11, <2>7 DEF ReportDrain, ClearDrainStatus
  <2>9. ~StartDrain /\ ~ReportDrained
    <3>1. PICK new : new = WithStatus(nm[cur], [obj EXCEPT !.drainStatus = TRUE])
      OBVIOUS
    <3>2. StartDrain \/ ReportDrained => objFresh /\ nm' = [nm EXCEPT ![cur] = new]
      BY <1>2, <3>1 DEF StartDrain, ReportDrained, Accepted, Refused, Fails, Store
    <3> QED
      <4>1. objFresh => new.reason = nm[cur].reason
        BY <1>7, <2>7, <3>1, WithStatusFields DEF Agree
      <4> QED
        BY <1>8, <3>2, <4>1
  <2> QED
    BY <1>5, <2>1, <2>2, <2>3, <2>4, <2>5, <2>6, <2>8, <2>9 DEF Call
<1>13. pc = "setReason" /\ objFresh /\ cur = x
  <2>1. PICK new : objFresh /\ nm' = [nm EXCEPT ![cur] = new] /\ pc = "setReason"
    BY <1>9, <1>12 DEF SetReadyConditionReason, StatusUpdate
  <2> QED
    BY <1>1, <1>7, <2>1
<1> QED
  BY <1>7, <1>13 DEF Agree

\* Under the same conditions a maintenance that cordons and drains becomes Ready
\* only when no selected pod runs on its node: handleDrainState sets the reason
\* after a drain that listed the pods of a cordoned node has evicted them all.
THEOREM ReadyWhenDrained == CordonStable => (Spec => DrainedWhenReady)
<1> SUFFICES ASSUME CordonStable PROVE Spec => DrainedWhenReady
  OBVIOUS
<1>1. ASSUME CInv, [Next]_vars
      PROVE  [\A x \in NM : /\ nm[x].reason = "Draining" /\ nm'[x].reason = "Ready"
                            /\ nm[x].cordon /\ nm[x].drain # Nil
                            => pods[NodeName[x]] = {}]_vars
  <2>1. CASE UNCHANGED vars
    BY <2>1
  <2>2. CASE Next
    <3> SUFFICES ASSUME NEW x \in NM, nm[x].reason = "Draining", nm'[x].reason = "Ready",
                        nm[x].cordon, nm[x].drain # Nil
                 PROVE  pods[NodeName[x]] = {}
      OBVIOUS
    <3>1. pc = "setReason" /\ cur = x /\ objFresh /\ obj.reason = "Draining"
      BY <1>1, <2>2, ReasonWriters
    <3>2. CurrentOK("setReason", obj, view, nm[cur], Unsched(cur), Admin(cur), PodsOf(cur))
      BY <1>1, <3>1, CopyFacts
    <3> QED
      BY <3>1, <3>2 DEF CurrentOK, PodsOf
  <2> QED
    BY <1>1, <2>1, <2>2
<1> QED
  BY <1>1, InitCInv, NextCInv, PTL DEF Spec, DrainedWhenReady

=============================================================================
