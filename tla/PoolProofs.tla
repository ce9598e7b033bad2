----------------------------- MODULE PoolProofs -----------------------------
(***************************************************************************)
(* The safety of PauseMCP and UnpauseMCP, for any number of maintenances,  *)
(* nodes and pools.                                                        *)
(*                                                                         *)
(* The argument has three layers.  ObjectInv: what a cached or copied      *)
(* object still says of the real one; a maintenance that has passed        *)
(* PauseMCP shows its label in the cache.  PoolInv: because every patch is *)
(* awaited, the cached annotation is that of the pool wherever a decision  *)
(* is made on it, and so a pool is unpaused only when nobody maintains a   *)
(* node of it.  The last two are about rollouts (RolloutInv) and about the *)
(* last user of a pool (ReleaseInv).                                       *)
(***************************************************************************)
EXTENDS MachineConfigPool, TLAPS

\* Zenon is enough for most steps; the others say what they need.
USE Zenon

\* The steps of PauseMCP after the wait for the label, and of UnpauseMCP.
Pausing == {"getPool", "pause", "waitPaused", "undo", "waitUndone", "setReason"}
Unpausing == {"getPausedPool", "listUsers", "unpause", "waitUnpaused"}

ShapeOK(o) == (o.label \/ o.deleting \/ o.finalizer) => o.life = "live"

\* What the cache tells of x.
CacheOK(x) ==
  /\ ShapeOK(nm[x]) /\ ShapeOK(nmCache[x])
  /\ nmFresh[x] => nmCache[x] = nm[x]
  /\ nmCache[x].label => nm[x].label \/ nm[x].life = "gone"
  /\ nmCache[x].deleting => nm[x].deleting \/ nm[x].life = "gone"
  /\ Live(nm[x]) /\ nm[x].reason = "Cordon" => nmCache[x].label

\* What the reconcile in progress knows of its object.
CopyOK ==
  pc # "idle" =>
    /\ cur \in NM /\ Live(obj) /\ (objFresh => obj = nm[cur])
    /\ pc \in Pausing \/ (obj.label /\ pc = "addFinalizer")
         => nmCache[cur].label \/ nm[cur].life = "gone"
    /\ pc \in Unpausing => nm[cur].deleting \/ nm[cur].life = "gone"

ObjectInv == (\A x \in NM : CacheOK(x)) /\ CopyOK

Waits == {"waitPaused", "waitUndone", "waitUnpaused"}

\* The annotation of the pool of cur at each step.
Annotated == {"waitPaused", "undo", "setReason", "listUsers", "unpause"}
NotAnnotated == {"pause", "waitUndone", "waitUnpaused"}

\* Whoever is maintained on a node of pool p.
Users(p) == {x \in NM : Maintained(x) /\ NodeName[x] \in nodes /\ MCPName(x) = p}

PoolOK(p) ==
  /\ mcp[p].annotated => mcp[p].paused
  /\ p \in admin => mcp[p].paused /\ ~mcp[p].annotated
  /\ Users(p) # {} => mcp[p].annotated
  /\ (pc # "idle" \/ "poolLag" \in env) /\ (pc \in Waits => p # MCPName(cur))
       => mcpCache[p].annotated = mcp[p].annotated
  /\ pc \in {"addFinalizer", "setLabel", "waitLabel", "getPool"} /\ p \in admin => mcpCache[p].paused

StepOK ==
  pc # "idle" =>
    /\ pc \in Annotated => mcp[MCPName(cur)].annotated
    /\ pc \in NotAnnotated => ~mcp[MCPName(cur)].annotated
    /\ pc = "pause" => MCPName(cur) \notin admin
    /\ pc \in {"waitPaused", "undo", "unpause"} => Users(MCPName(cur)) = {}

PoolInv == ("admin" \notin env => admin = {}) /\ (\A p \in Pool : PoolOK(p)) /\ StepOK

IInv == TypeOK /\ ObjectInv /\ (PoolCacheTrusted => PoolInv)

\* Rollouts, when no call fails.
RolloutOK(p) ==
  /\ p \in rolling => mcp[p].changing
  /\ mcp[p].annotated /\ p \in rolling
       => pc \in {"waitPaused", "undo"} /\ MCPName(cur) = p
  /\ pc = "waitPaused" /\ MCPName(cur) = p /\ p \in rolling /\ mcpCache[p].annotated
       => mcpCache[p].changing
RolloutInv == PoolCacheTrusted /\ "faults" \notin env => \A p \in Pool : RolloutOK(p)

\* The users of a pool, when no informer of objects lags and no node is removed.
Shown(x) == Live(nm[x]) /\ nm[x].label /\ nm[x].finalizer

\* What the reconcile in progress knows of the users.
StepRel ==
  pc # "idle" =>
    /\ \A x \in NM : nmCache[x].label => nm[x].label
    /\ pc = "setLabel" => nm[cur].finalizer \/ ~objFresh
    /\ pc \in Pausing \cup {"waitLabel"} => nm[cur].label
    /\ pc = "addFinalizer" /\ objFresh => ~obj.label
    /\ pc \in Unpausing \cup {"removeFinalizer"} => nm[cur].deleting
    /\ pc = "removeFinalizer" /\ mcp[MCPName(cur)].annotated
         => \E x \in NM \ {cur} : Shown(x) /\ MCPName(x) = MCPName(cur)

LabelRel == \A x \in NM : nm[x].label => nm[x].finalizer

PoolRel == \A p \in Pool : mcp[p].annotated => \E x \in NM : Shown(x) /\ MCPName(x) = p

ReleaseOK == nodes = Node /\ LabelRel /\ StepRel /\ PoolRel
ReleaseInv == PoolCacheTrusted /\ env \cap {"nmLag", "nodeGone"} = {} => ReleaseOK

-----------------------------------------------------------------------------
(* Types, by the variables a step writes. *)

ObjType == nm \in [NM -> Object] /\ nmCache \in [NM -> Object] /\ nmFresh \in [NM -> BOOLEAN]

ProcType == /\ pc \in Steps /\ cur \in NM \cup {Nil} /\ obj \in Object /\ objFresh \in BOOLEAN
            /\ queue \subseteq NM

PoolType == /\ mcp \in [Pool -> PoolObject] /\ mcpCache \in [Pool -> PoolObject]
            /\ rolling \subseteq Pool /\ admin \subseteq Pool /\ nodes \subseteq Node

CountType == env \in Environments /\ faults \in 0..MaxFaults /\ changes \in 0..MaxChanges

LEMMA Types == TypeOK <=> ObjType /\ ProcType /\ PoolType /\ CountType
BY DEF TypeOK, ObjType, ProcType, PoolType, CountType

LEMMA TypesNext == ObjType' /\ ProcType' /\ PoolType' /\ CountType' => TypeOK'
BY DEF TypeOK, ObjType, ProcType, PoolType, CountType

LEMMA FaultType ==
  ASSUME CountType, Fault \/ UNCHANGED faults, UNCHANGED <<env, changes>>
  PROVE  CountType'
BY BoundsAssumption, SMT DEF CountType, Fault

LEMMA ChangeType ==
  ASSUME CountType, Change \/ UNCHANGED changes, UNCHANGED <<env, faults>>
  PROVE  CountType'
BY BoundsAssumption, SMT DEF CountType, Change

LEMMA Names == \A x \in NM : NodeName[x] \in Node /\ MCPName(x) \in Pool
BY NodeNameAssumption, PoolOfAssumption DEF MCPName

LEMMA Constants ==
  /\ Unborn \in Object /\ Gone \in Object /\ NewPool \in PoolObject
  /\ ShapeOK(Unborn) /\ ShapeOK(Gone) /\ Gone.life = "gone" /\ Unborn.life = "unborn"
  /\ ~Gone.label /\ ~Gone.finalizer /\ ~Gone.deleting
<1>1. Unborn \in Object /\ NewPool \in PoolObject
  BY DEF Unborn, Object, NewPool, PoolObject
<1>2. Gone \in Object
  BY <1>1 DEF Gone, Object
<1>3. Gone.life = "gone" /\ ~Gone.label /\ ~Gone.finalizer /\ ~Gone.deleting
  BY DEF Gone, Unborn
<1> QED
  BY <1>1, <1>2, <1>3 DEF ShapeOK, Unborn

-----------------------------------------------------------------------------
(* Objects. *)

LEMMA IdleOK ==
  ASSUME TypeOK, ObjectInv, Idle, queue' \subseteq NM, UNCHANGED objVars
  PROVE  ObjectInv' /\ ProcType' /\ ObjType'
<1>1. ProcType' /\ CopyOK'
  BY Constants DEF Idle, ProcType, CopyOK, Steps
<1>2. \A x \in NM : CacheOK(x)'
  BY DEF ObjectInv, CacheOK, objVars, ShapeOK, Live
<1> QED
  BY <1>1, <1>2, Types DEF ObjectInv, ObjType, objVars

LEMMA RequeueOK ==
  ASSUME TypeOK, ObjectInv, pc # "idle", Requeue, UNCHANGED objVars
  PROVE  ObjectInv' /\ ProcType' /\ ObjType'
<1>1. queue' \subseteq NM /\ Idle
  BY Types DEF Requeue, ProcType, ObjectInv, CopyOK
<1> QED
  BY <1>1, IdleOK

\* A step that leaves the objects alone and goes on to k.
Follows(k) ==
  /\ k \in Steps \cup {"requeue"} /\ k # "addFinalizer"
  /\ k \in Pausing => pc \in Pausing
  /\ k \in Unpausing => pc \in Unpausing

LEMMA ProceedOK ==
  ASSUME TypeOK, ObjectInv, pc # "idle", NEW k, Follows(k), Proceed(k), UNCHANGED objVars
  PROVE  ObjectInv' /\ ProcType' /\ ObjType'
<1>1. CASE k \in {"idle", "requeue"}
  <2>1. Idle /\ queue' \subseteq NM
    BY <1>1, Types DEF Proceed, Done, Requeue, ProcType, ObjectInv, CopyOK
  <2> QED
    BY <2>1, IdleOK
<1>2. CASE k \notin {"idle", "requeue"}
  <2>1. pc' = k /\ UNCHANGED <<cur, obj, objFresh, queue>>
    BY <1>2 DEF Proceed
  <2>2. \A x \in NM : CacheOK(x)'
    BY DEF ObjectInv, CacheOK, objVars, ShapeOK, Live
  <2>3. CopyOK'
    BY <2>1 DEF ObjectInv, CopyOK, objVars, Live, Follows
  <2>4. ProcType' /\ ObjType'
    BY <1>2, <2>1, Types DEF ProcType, ObjType, objVars, Follows
  <2> QED
    BY <2>2, <2>3, <2>4 DEF ObjectInv
<1> QED
  BY <1>1, <1>2

\* What a write of x must respect.
Allowed(x, new) ==
  /\ new \in Object /\ ShapeOK(new)
  /\ nmCache[x].label => new.label \/ new.life = "gone"
  /\ nmCache[x].deleting => new.deleting \/ new.life = "gone"
  /\ Live(new) /\ new.reason = "Cordon" => nmCache[x].label

LEMMA StoredOK ==
  ASSUME TypeOK, ObjectInv, NEW x \in NM, NEW new, Allowed(x, new),
         nm' = [nm EXCEPT ![x] = new], nmFresh' = [nmFresh EXCEPT ![x] = FALSE], UNCHANGED nmCache
  PROVE  (\A y \in NM : CacheOK(y)') /\ ObjType' /\ nm'[x] = new /\ \A y \in NM \ {x} : nm'[y] = nm[y]
<1>1. ObjType
  BY Types
<1>2. nm'[x] = new /\ ~nmFresh'[x] /\ \A y \in NM \ {x} : nm'[y] = nm[y] /\ nmFresh'[y] = nmFresh[y]
  BY <1>1 DEF ObjType
<1>3. ObjType'
  BY <1>1 DEF ObjType, Allowed
<1>4. CacheOK(x)'
  BY <1>2 DEF CacheOK, Allowed, ObjectInv, ShapeOK, Live
<1>5. ASSUME NEW y \in NM \ {x} PROVE CacheOK(y)'
  BY <1>2 DEF CacheOK, ObjectInv, ShapeOK, Live
<1> QED
  BY <1>2, <1>3, <1>4, <1>5

\* A write of the reconcile in progress, that goes on to k.
LEMMA WriteOK ==
  ASSUME TypeOK, ObjectInv, pc # "idle", NEW new, NEW k \in Steps, Write(new, k),
         objFresh => Allowed(cur, new),
         k # "idle" => Live(new) /\ k \notin Unpausing /\ k # "addFinalizer",
         k \in Pausing => nmCache[cur].label \/ nm[cur].life = "gone",
         objFresh /\ Live(new) => Live(nm[cur])
  PROVE  ObjectInv' /\ TypeOK'
<1>0. cur \in NM
  BY DEF ObjectInv, CopyOK
<1>1. PoolType' /\ CountType'
  BY Types, FaultType DEF Write, PoolType, poolVars
<1>2. CASE Stored(new) /\ UNCHANGED faults /\ k # "idle"
           /\ pc' = k /\ obj' = new /\ UNCHANGED <<cur, objFresh, queue>>
  <2>1. (\A y \in NM : CacheOK(y)') /\ ObjType' /\ nm'[cur] = new /\ nmCache' = nmCache
    BY <1>0, <1>2, StoredOK DEF Stored, Write
  <2>2. Allowed(cur, new) /\ Live(new) /\ Live(nm[cur])
    BY <1>2 DEF Stored
  <2>3. CopyOK'
    BY <1>0, <1>2, <2>1, <2>2 DEF CopyOK, Live
  <2>4. ProcType'
    BY <1>2, <2>2, Types DEF ProcType, Allowed
  <2> QED
    BY <1>1, <2>1, <2>3, <2>4, TypesNext DEF ObjectInv
<1>3. CASE Stored(new) /\ Idle /\ queue' \subseteq NM
  <2>1. (\A y \in NM : CacheOK(y)') /\ ObjType'
    BY <1>0, <1>3, StoredOK DEF Stored, Write
  <2>2. CopyOK' /\ ProcType'
    BY <1>3, Constants DEF CopyOK, ProcType, Idle, Steps
  <2> QED
    BY <1>1, <2>1, <2>2, TypesNext DEF ObjectInv
<1>4. CASE UNCHANGED <<nm, nmFresh>> /\ Requeue
  <2>1. ObjectInv' /\ ProcType' /\ ObjType'
    BY <1>4, RequeueOK DEF Write, objVars
  <2> QED
    BY <1>1, <2>1, TypesNext
<1>5. Requeue \/ Done => Idle /\ queue' \subseteq NM
  BY <1>0, Types DEF Requeue, Done, ProcType
<1> QED
  BY <1>2, <1>3, <1>4, <1>5 DEF Write

\* A write of someone else.
LEMMA OtherWriteOK ==
  ASSUME TypeOK, ObjectInv, NEW x \in NM, NEW new, Allowed(x, new), OtherWrite(x, new),
         nm[x].life = "gone" => new.life = "gone", nm[x].deleting => new.deleting \/ new.life = "gone"
  PROVE  ObjectInv' /\ TypeOK'
<1>1. /\ \A y \in NM : CacheOK(y)'
      /\ ObjType' /\ nm'[x] = new /\ \A y \in NM \ {x} : nm'[y] = nm[y]
  BY StoredOK DEF OtherWrite
<1>2. UNCHANGED <<env, nmCache, poolVars, queue, pc, cur, obj, faults, changes>>
      /\ objFresh' = (objFresh /\ cur # x)
  BY DEF OtherWrite
<1>3. CopyOK'
  BY <1>1, <1>2 DEF CopyOK, ObjectInv, Live
<1>4. ProcType' /\ PoolType' /\ CountType'
  BY <1>2, Types DEF ProcType, PoolType, CountType, poolVars
<1> QED
  BY <1>1, <1>3, <1>4, TypesNext DEF ObjectInv

\* A call that leaves the objects alone.
LEMMA QuietCallOK ==
  ASSUME TypeOK, ObjectInv, pc # "idle", NEW k, Follows(k), Proceed(k) \/ Requeue,
         UNCHANGED objVars, PoolType', CountType'
  PROVE  TypeOK' /\ ObjectInv'
BY ProceedOK, RequeueOK, TypesNext

LEMMA ReadOK ==
  ASSUME TypeOK, ObjectInv, pc # "idle", NEW k, Follows(k), Read(k) \/ CallFails
  PROVE  TypeOK' /\ ObjectInv'
<1>1. CountType'
  BY Types, FaultType DEF Read, CallFails
<1>2. PoolType' /\ UNCHANGED objVars /\ (Proceed(k) \/ Requeue)
  BY Types DEF Read, CallFails, PoolType, poolVars
<1> QED
  BY <1>1, <1>2, QuietCallOK

LEMMA PatchOK ==
  ASSUME TypeOK, ObjectInv, pc # "idle", NEW k, Follows(k), NEW pause \in BOOLEAN,
         ChangeMachineConfigPoolPause(pause, k)
  PROVE  TypeOK' /\ ObjectInv'
<1>1. CountType'
  BY Types, FaultType DEF ChangeMachineConfigPoolPause
<1>2. PoolType'
  BY Types, SMT DEF ChangeMachineConfigPoolPause, PoolType, PoolObject
<1> QED
  BY <1>1, <1>2, QuietCallOK DEF ChangeMachineConfigPoolPause

LEMMA CallObject ==
  ASSUME TypeOK, ObjectInv, Call
  PROVE  TypeOK' /\ ObjectInv'
<1> USE DEF Steps, Pausing, Unpausing
<1>0. pc # "idle"
  BY DEF Call, AddFinalizer, SetLabel, WaitForLabel, GetPool, Pause, WaitForPaused, Undo, WaitForUndone,
         SetReason, GetPausedPool, ListUsers, Unpause, WaitForUnpaused, RemoveFinalizer
<1>00. /\ cur \in NM /\ CacheOK(cur) /\ Live(obj) /\ (objFresh => obj = nm[cur])
       /\ nm[cur] \in Object /\ nmCache[cur] \in Object /\ obj \in Object
       /\ nm[cur].reason \in {"Scheduled", "Cordon"}
  BY <1>0, Types DEF ObjectInv, CopyOK, ObjType, ProcType, Object
<1>1. CASE AddFinalizer
  <2> DEFINE new == [obj EXCEPT !.finalizer = TRUE]
             upd == [new EXCEPT !.reason = nm[cur].reason]
  <2>1. /\ new \in Object /\ upd \in Object /\ Live(upd) /\ upd.label = obj.label /\ new.finalizer
        /\ upd.deleting = obj.deleting /\ upd.reason = nm[cur].reason /\ new.label = obj.label
    BY <1>00 DEF Object, Live
  <2>2. Write(upd, StartPause(new)) /\ pc = "addFinalizer"
    BY <1>1 DEF AddFinalizer, Update
  <2>3. StartPause(new) \in {"setLabel", "getPool"} /\ (StartPause(new) = "getPool" => obj.label)
    BY <2>1 DEF StartPause
  <2>4. obj.label => nmCache[cur].label \/ nm[cur].life = "gone"
    BY <2>2, <1>0 DEF ObjectInv, CopyOK
  <2> HIDE DEF new, upd
  <2>5. objFresh => Allowed(cur, upd)
    BY <1>00, <2>1 DEF Allowed, CacheOK, ShapeOK, Live
  <2> QED
    BY <1>0, <1>00, <2>1, <2>2, <2>3, <2>4, <2>5, WriteOK
<1>2. CASE SetLabel
  <2> DEFINE new == [[obj EXCEPT !.label = TRUE] EXCEPT !.reason = nm[cur].reason]
  <2>1. /\ new \in Object /\ Live(new) /\ new.label /\ new.deleting = obj.deleting
        /\ new.reason = nm[cur].reason
    BY <1>00 DEF Object, Live
  <2>2. Write(new, "waitLabel")
    BY <1>2 DEF SetLabel, Update
  <2> HIDE DEF new
  <2>3. objFresh => Allowed(cur, new)
    BY <1>00, <2>1 DEF Allowed, CacheOK, ShapeOK, Live
  <2> QED
    BY <1>0, <1>00, <2>1, <2>2, <2>3, WriteOK
<1>3. CASE WaitForLabel
  <2>1. CASE CallFails
    <3>1. Follows("idle")
      BY DEF Follows
    <3> QED
      BY <1>0, <2>1, <3>1, ReadOK
  <2>2. CASE ~CallFails
    <3>1. /\ nmCache[cur].label /\ pc' = "getPool" /\ obj' = nmCache[cur] /\ objFresh' = nmFresh[cur]
          /\ UNCHANGED <<cur, queue, env, objVars, poolVars, faults, changes>>
      BY <1>3, <2>2 DEF WaitForLabel
    <3>2. \A x \in NM : CacheOK(x)'
      BY <3>1 DEF ObjectInv, CacheOK, objVars, ShapeOK, Live
    <3>3. CopyOK'
      BY <1>00, <3>1 DEF CopyOK, CacheOK, ShapeOK, Live, objVars
    <3>4. ProcType' /\ ObjType' /\ PoolType' /\ CountType'
      BY <1>00, <3>1, Types DEF ProcType, ObjType, PoolType, CountType, objVars, poolVars
    <3> QED
      BY <3>2, <3>3, <3>4, TypesNext DEF ObjectInv
  <2> QED
    BY <2>1, <2>2
<1>4. CASE GetPool
  <2>1. Follows(AfterGet(mcpCache[MCPName(cur)]))
    BY <1>4 DEF GetPool, AfterGet, Follows
  <2> QED
    BY <1>0, <1>4, <2>1, ReadOK DEF GetPool
<1>5. CASE Pause
  <2>1. Follows("waitPaused")
    BY <1>5 DEF Pause, Follows
  <2> QED
    BY <1>0, <1>5, <2>1, PatchOK DEF Pause
<1>6. CASE WaitForPaused
  <2>1. Follows(AfterPaused(mcpCache[MCPName(cur)]))
    BY <1>6 DEF WaitForPaused, AfterPaused, Follows
  <2> QED
    BY <1>0, <1>6, <2>1, ReadOK DEF WaitForPaused
<1>7. CASE Undo
  <2>1. Follows("waitUndone")
    BY <1>7 DEF Undo, Follows
  <2> QED
    BY <1>0, <1>7, <2>1, PatchOK DEF Undo
<1>8. CASE WaitForUndone
  <2>1. Follows("requeue")
    BY DEF Follows
  <2> QED
    BY <1>0, <1>8, <2>1, ReadOK DEF WaitForUndone, WaitForRelease
<1>9. CASE SetReason
  <2> DEFINE new == [nm[cur] EXCEPT !.reason = "Cordon"]
  <2>1. /\ new \in Object /\ new.life = nm[cur].life /\ new.label = nm[cur].label
        /\ new.deleting = nm[cur].deleting /\ new.finalizer = nm[cur].finalizer
    BY <1>00 DEF Object
  <2>2. Write(new, "idle") /\ pc = "setReason"
    BY <1>9 DEF SetReason, StatusUpdate
  <2>3. nmCache[cur].label \/ nm[cur].life = "gone"
    BY <2>2 DEF ObjectInv, CopyOK
  <2> HIDE DEF new
  <2>4. objFresh => Allowed(cur, new)
    BY <1>00, <2>1, <2>3 DEF Allowed, CacheOK, ShapeOK, Live
  <2> QED
    BY <1>0, <1>00, <2>1, <2>2, <2>4, WriteOK DEF Live
<1>10. ASSUME NEW k, k = HandleFinalizerRemoval(obj)
       PROVE  Follows(k)
  BY <1>10 DEF Follows, HandleFinalizerRemoval
<1>11. CASE GetPausedPool
  <2> DEFINE k == IF mcpCache[MCPName(cur)].annotated THEN "listUsers" ELSE HandleFinalizerRemoval(obj)
  <2>1. Follows(k)
    BY <1>10, <1>11 DEF GetPausedPool, Follows
  <2>2. Read(k) \/ CallFails
    BY <1>11 DEF GetPausedPool
  <2> HIDE DEF k
  <2> QED
    BY <1>0, <2>1, <2>2, ReadOK
<1>12. CASE ListUsers
  <2> DEFINE k == IF MCPUsedByOtherNodeMaintenance(cur) THEN HandleFinalizerRemoval(obj) ELSE "unpause"
  <2>1. Follows(k)
    BY <1>10, <1>12 DEF ListUsers, Follows
  <2>2. Read(k) \/ CallFails
    BY <1>12 DEF ListUsers
  <2> HIDE DEF k
  <2> QED
    BY <1>0, <2>1, <2>2, ReadOK
<1>13. CASE Unpause
  <2>1. Follows("waitUnpaused")
    BY <1>13 DEF Unpause, Follows
  <2> QED
    BY <1>0, <1>13, <2>1, PatchOK DEF Unpause
<1>14. CASE WaitForUnpaused
  <2>1. Read(HandleFinalizerRemoval(obj)) \/ CallFails
    BY <1>14 DEF WaitForUnpaused, WaitForRelease
  <2> QED
    BY <1>0, <1>10, <2>1, ReadOK
<1>15. CASE RemoveFinalizer
  <2> DEFINE new == IF nm[cur].deleting THEN Gone
                      ELSE [obj EXCEPT !.finalizer = FALSE, !.reason = nm[cur].reason]
  <2>1. Write(new, "idle")
    BY <1>15 DEF RemoveFinalizer
  <2>2. CASE nm[cur].deleting
    <3>1. new = Gone
      BY <2>2
    <3>2. Allowed(cur, Gone)
      BY Constants DEF Allowed, Live
    <3> QED
      BY <1>0, <2>1, <3>1, <3>2, Constants, WriteOK DEF Live
  <2>3. CASE ~nm[cur].deleting
    <3>1. /\ new \in Object /\ new.life = obj.life /\ new.label = obj.label /\ ~new.finalizer
          /\ new.deleting = obj.deleting /\ new.reason = nm[cur].reason
      BY <1>00, <2>3 DEF Object
    <3> HIDE DEF new
    <3>2. objFresh => Allowed(cur, new)
      BY <1>00, <3>1 DEF Allowed, CacheOK, ShapeOK, Live
    <3> QED
      BY <1>0, <1>00, <2>1, <3>1, <3>2, WriteOK DEF Live
  <2> QED
    BY <2>2, <2>3
<1> QED
  BY <1>1, <1>2, <1>3, <1>4, <1>5, <1>6, <1>7, <1>8, <1>9, <1>11, <1>12, <1>13, <1>14, <1>15 DEF Call

\* A step of the surroundings, of pools and nodes only.
LEMMA SurroundingsOK ==
  ASSUME TypeOK, ObjectInv, UNCHANGED <<objVars, procVars, queue>>, PoolType', CountType'
  PROVE  TypeOK' /\ ObjectInv'
<1>1. \A x \in NM : CacheOK(x)'
  BY DEF ObjectInv, CacheOK, objVars, ShapeOK, Live
<1>2. CopyOK'
  BY DEF ObjectInv, CopyOK, objVars, procVars, Live
<1>3. ProcType' /\ ObjType'
  BY Types DEF ProcType, ObjType, procVars, objVars
<1> QED
  BY <1>1, <1>2, <1>3, TypesNext DEF ObjectInv

LEMMA ObjectNext == TypeOK /\ ObjectInv /\ [Next]_vars => TypeOK' /\ ObjectInv'
<1> SUFFICES ASSUME TypeOK, ObjectInv, [Next]_vars
             PROVE  TypeOK' /\ ObjectInv'
  OBVIOUS
<1>1. CASE Call
  BY <1>1, CallObject
<1>2. ASSUME NEW x \in NM, Reconcile(x)
      PROVE  TypeOK' /\ ObjectInv'
  <2>1. UNCHANGED <<env, objVars, poolVars, faults, changes>> /\ queue' \subseteq queue /\ pc = "idle"
    BY <1>2 DEF Reconcile
  <2>2. ObjType' /\ PoolType' /\ CountType' /\ \A y \in NM : CacheOK(y)'
    BY <2>1, Types DEF ObjType, PoolType, CountType, objVars, poolVars, ObjectInv, CacheOK, ShapeOK, Live
  <2>3. CASE UNCHANGED procVars
    BY <2>1, <2>2, <2>3, Types, TypesNext DEF ProcType, procVars, ObjectInv, CopyOK
  <2>4. CASE ~UNCHANGED procVars
    <3>1. /\ cur' = x /\ obj' = nmCache[x] /\ objFresh' = nmFresh[x] /\ Live(nmCache[x])
          /\ \/ pc' = HandleFinalizerRemoval(nmCache[x])
             \/ pc' = "getPausedPool" /\ nmCache[x].deleting
             \/ pc' = StartPause(nmCache[x])
      BY <1>2, <2>4 DEF Reconcile
    <3>2. /\ pc' \in Steps /\ (pc' \in Unpausing => nmCache[x].deleting)
          /\ pc' \in Pausing => nmCache[x].label
      BY <3>1 DEF HandleFinalizerRemoval, StartPause, Steps, Pausing, Unpausing
    <3>3. CacheOK(x) /\ nmCache[x] \in Object /\ nmFresh[x] \in BOOLEAN
      BY Types DEF ObjectInv, ObjType
    <3>4. CopyOK'
      BY <2>1, <3>1, <3>2, <3>3 DEF CopyOK, CacheOK, objVars, Live
    <3>5. ProcType'
      BY <2>1, <3>1, <3>2, <3>3, Types DEF ProcType
    <3> QED
      BY <2>2, <3>4, <3>5, TypesNext DEF ObjectInv
  <2> QED
    BY <2>3, <2>4
<1>3. ASSUME NEW x \in NM, Schedule(x)
      PROVE  TypeOK' /\ ObjectInv'
  <2> DEFINE new == [Unborn EXCEPT !.life = "live"]
  <2>1. new \in Object /\ new.life = "live" /\ new.reason = "Scheduled"
    BY DEF Unborn, Object
  <2>2. nm[x].life = "unborn" /\ OtherWrite(x, new) /\ CacheOK(x)
    BY <1>3 DEF Schedule, ObjectInv
  <2>3. ~nmCache[x].label /\ ~nmCache[x].deleting /\ ~nm[x].deleting
    BY <2>2 DEF CacheOK, ShapeOK
  <2> HIDE DEF new
  <2>4. Allowed(x, new)
    BY <2>1, <2>3 DEF Allowed, ShapeOK
  <2> QED
    BY <2>2, <2>3, <2>4, OtherWriteOK
<1>4. ASSUME NEW x \in NM, Delete(x)
      PROVE  TypeOK' /\ ObjectInv'
  <2>1. nm[x] \in Object /\ CacheOK(x) /\ Live(nm[x]) /\ ~nm[x].deleting
    BY <1>4, Types DEF ObjType, ObjectInv, Delete
  <2>2. CASE nm[x].finalizer
    <3> DEFINE new == [nm[x] EXCEPT !.deleting = TRUE]
    <3>1. /\ new \in Object /\ new.life = "live" /\ new.deleting /\ new.label = nm[x].label
          /\ new.reason = nm[x].reason /\ OtherWrite(x, new)
      BY <1>4, <2>1, <2>2 DEF Delete, Object, Live
    <3> HIDE DEF new
    <3>2. Allowed(x, new)
      BY <2>1, <3>1 DEF Allowed, CacheOK, ShapeOK, Live
    <3> QED
      BY <2>1, <3>1, <3>2, OtherWriteOK DEF Live
  <2>3. CASE ~nm[x].finalizer
    <3>1. OtherWrite(x, Gone)
      BY <1>4, <2>3 DEF Delete
    <3>2. Allowed(x, Gone)
      BY Constants DEF Allowed, Live
    <3> QED
      BY <2>1, <3>1, <3>2, Constants, OtherWriteOK
  <2> QED
    BY <2>2, <2>3
<1>5. CASE SyncNodeMaintenances
  <2>1. /\ nmCache' = nm /\ nmFresh' = [x \in NM |-> TRUE] /\ nm' = nm
        /\ UNCHANGED <<env, poolVars, procVars, faults, changes>> /\ queue' \subseteq queue \cup NM
    BY <1>5 DEF SyncNodeMaintenances
  <2>2. \A x \in NM : CacheOK(x)'
    BY <2>1 DEF ObjectInv, CacheOK, ShapeOK, Live
  <2>3. CopyOK'
    BY <2>1 DEF ObjectInv, CopyOK, CacheOK, procVars, Live
  <2>4. ObjType' /\ ProcType' /\ PoolType' /\ CountType'
    BY <2>1, Types DEF ObjType, ProcType, PoolType, CountType, procVars, poolVars
  <2> QED
    BY <2>2, <2>3, <2>4, TypesNext DEF ObjectInv
<1>6. CASE Restart
  <2>1. /\ nmCache' = nm /\ nmFresh' = [x \in NM |-> TRUE] /\ nm' = nm /\ mcpCache' = mcp
        /\ UNCHANGED <<env, mcp, rolling, admin, nodes, changes>> /\ queue' \subseteq NM /\ Idle /\ Fault
    BY <1>6 DEF Restart
  <2>2. \A x \in NM : CacheOK(x)'
    BY <2>1 DEF ObjectInv, CacheOK, ShapeOK, Live
  <2>3. CopyOK' /\ ProcType'
    BY <2>1, Constants DEF CopyOK, Idle, ProcType, Steps
  <2>4. CountType'
    BY <2>1, Types, FaultType
  <2>5. ObjType' /\ PoolType'
    BY <2>1, Types DEF ObjType, PoolType
  <2> QED
    BY <2>2, <2>3, <2>4, <2>5, TypesNext DEF ObjectInv
<1>7. CASE SyncPools
  <2>1. PoolType' /\ CountType' /\ UNCHANGED <<objVars, procVars, queue>>
    BY <1>7, Types DEF SyncPools, PoolType, CountType
  <2> QED
    BY <2>1, SurroundingsOK
<1>8. ASSUME NEW p \in Pool,
             Render(p) \/ StartRollout(p) \/ FinishRollout(p) \/ AdminPause(p) \/ AdminUnpause(p)
      PROVE  TypeOK' /\ ObjectInv'
  <2>1. CountType'
    BY <1>8, Types, ChangeType DEF Render, StartRollout, FinishRollout, AdminPause, AdminUnpause
  <2>2. PoolType'
    <3>1. CASE Render(p)
      BY <3>1, Types DEF Render, PoolType, PoolObject
    <3>2. CASE StartRollout(p)
      BY <3>2, Types DEF StartRollout, PoolType
    <3>3. CASE FinishRollout(p)
      BY <3>3, Types DEF FinishRollout, PoolType, PoolObject
    <3>4. CASE AdminPause(p)
      BY <3>4, Types DEF AdminPause, PoolType, PoolObject
    <3>5. CASE AdminUnpause(p)
      BY <3>5, Types DEF AdminUnpause, PoolType, PoolObject
    <3> QED
      BY <1>8, <3>1, <3>2, <3>3, <3>4, <3>5
  <2>3. UNCHANGED <<objVars, procVars, queue>>
    BY <1>8 DEF Render, StartRollout, FinishRollout, AdminPause, AdminUnpause
  <2> QED
    BY <2>1, <2>2, <2>3, SurroundingsOK
<1>9. ASSUME NEW n \in Node, RemoveNode(n)
      PROVE  TypeOK' /\ ObjectInv'
  <2>1. CountType'
    BY <1>9, Types, ChangeType DEF RemoveNode
  <2>2. PoolType'
    BY <1>9, Types DEF RemoveNode, PoolType
  <2> QED
    BY <1>9, <2>1, <2>2, SurroundingsOK DEF RemoveNode
<1>10. CASE UNCHANGED vars
  <2>1. PoolType' /\ CountType' /\ UNCHANGED <<objVars, procVars, queue>>
    BY <1>10, Types DEF vars, PoolType, CountType, objVars, procVars
  <2> QED
    BY <2>1, SurroundingsOK
<1> QED
  BY <1>1, <1>2, <1>3, <1>4, <1>5, <1>6, <1>7, <1>8, <1>9, <1>10 DEF Next

-----------------------------------------------------------------------------
(* Pools. *)

\* Only SetReason makes an object maintained.
LEMMA UsersNext ==
  ASSUME TypeOK, ObjectInv, [Next]_vars, NEW p \in Pool
  PROVE  Users(p)' \subseteq Users(p) \/ (SetReason /\ p = MCPName(cur))
<1> SUFFICES ASSUME NEW x \in NM, Maintained(x)', NodeName[x] \in nodes', MCPName(x) = p,
                    ~(SetReason /\ x = cur)
             PROVE  Maintained(x) /\ NodeName[x] \in nodes
  BY DEF Users, MCPName
<1>1. nodes' \subseteq nodes
  BY DEF Next, vars, Reconcile, Schedule, Delete, OtherWrite, Call, AddFinalizer, SetLabel, Update, Write,
         WaitForLabel, CallFails, GetPool, Read, Pause, ChangeMachineConfigPoolPause, WaitForPaused, Undo,
         WaitForUndone, WaitForRelease, SetReason, StatusUpdate, GetPausedPool, ListUsers, Unpause,
         WaitForUnpaused, RemoveFinalizer, SyncNodeMaintenances, SyncPools, Restart, Render, StartRollout,
         FinishRollout, AdminPause, AdminUnpause, RemoveNode, poolVars
<1>2. nm \in [NM -> Object] /\ obj \in Object
  BY DEF TypeOK
<1>5. ASSUME NEW y \in NM, Schedule(y) PROVE Maintained(x)
  <2> DEFINE new == [Unborn EXCEPT !.life = "live"]
  <2>1. new.reason = "Scheduled"
    BY DEF Unborn
  <2>2. nm' = [nm EXCEPT ![y] = new]
    BY <1>5 DEF Schedule, OtherWrite
  <2> HIDE DEF new
  <2> QED
    BY <1>2, <2>1, <2>2 DEF Maintained, Live
<1>6. ASSUME NEW y \in NM, Delete(y) PROVE Maintained(x)
  <2> DEFINE new == IF nm[y].finalizer THEN [nm[y] EXCEPT !.deleting = TRUE] ELSE Gone
  <2>1. new.deleting \/ ~Live(new)
    BY <1>2, Constants DEF Object, Live
  <2>2. nm' = [nm EXCEPT ![y] = new]
    BY <1>6 DEF Delete, OtherWrite
  <2> HIDE DEF new
  <2> QED
    BY <1>2, <2>1, <2>2 DEF Maintained, Live
<1>7. ASSUME NEW new, NEW k, Write(new, k), pc # "idle",
             objFresh /\ Live(new) => new.life = nm[cur].life /\ new.reason = nm[cur].reason
                                     /\ new.deleting = nm[cur].deleting
      PROVE  Maintained(x)
  <2>1. cur \in NM
    BY <1>7 DEF ObjectInv, CopyOK
  <2>2. nm' = nm \/ (objFresh /\ nm' = [nm EXCEPT ![cur] = new])
    BY <1>7 DEF Write, Stored
  <2> QED
    BY <1>2, <1>7, <2>1, <2>2 DEF Maintained, Live
<1>8. ASSUME pc # "idle" PROVE objFresh => obj = nm[cur]
  BY <1>8 DEF ObjectInv, CopyOK
<1>9. CASE AddFinalizer
  <2> DEFINE new == [[obj EXCEPT !.finalizer = TRUE] EXCEPT !.reason = nm[cur].reason]
  <2>1. new.life = obj.life /\ new.reason = nm[cur].reason /\ new.deleting = obj.deleting
    BY <1>2 DEF Object
  <2>2. PICK k : Write(new, k) /\ pc # "idle"
    BY <1>9 DEF AddFinalizer, Update
  <2> HIDE DEF new
  <2> QED
    BY <1>1, <1>7, <1>8, <2>1, <2>2
<1>10. CASE SetLabel
  <2> DEFINE new == [[obj EXCEPT !.label = TRUE] EXCEPT !.reason = nm[cur].reason]
  <2>1. new.life = obj.life /\ new.reason = nm[cur].reason /\ new.deleting = obj.deleting
    BY <1>2 DEF Object
  <2>2. Write(new, "waitLabel") /\ pc # "idle"
    BY <1>10 DEF SetLabel, Update
  <2> HIDE DEF new
  <2> QED
    BY <1>1, <1>7, <1>8, <2>1, <2>2
<1>11. CASE RemoveFinalizer
  <2> DEFINE new == IF nm[cur].deleting THEN Gone
                      ELSE [obj EXCEPT !.finalizer = FALSE, !.reason = nm[cur].reason]
  <2>1. Live(new) => new.life = obj.life /\ new.reason = nm[cur].reason /\ new.deleting = obj.deleting
    BY <1>2, Constants DEF Object, Live
  <2>2. Write(new, "idle") /\ pc # "idle"
    BY <1>11 DEF RemoveFinalizer
  <2> HIDE DEF new
  <2> QED
    BY <1>1, <1>7, <1>8, <2>1, <2>2
<1>12. CASE SetReason
  <2>1. Write([nm[cur] EXCEPT !.reason = "Cordon"], "idle") /\ x # cur
    BY <1>12 DEF SetReason, StatusUpdate
  <2>2. nm'[x] = nm[x]
    BY <1>2, <2>1 DEF Write, Stored
  <2> QED
    BY <1>1, <2>2 DEF Maintained
<1>13. CASE UNCHANGED nm
  BY <1>1, <1>13 DEF Maintained
<1>14. \/ AddFinalizer \/ SetLabel \/ RemoveFinalizer \/ SetReason \/ UNCHANGED nm
       \/ \E y \in NM : Schedule(y) \/ Delete(y)
  BY DEF Next, vars, Reconcile, Call, WaitForLabel, CallFails, GetPool, Read, Pause,
         ChangeMachineConfigPoolPause, WaitForPaused, Undo, WaitForUndone, WaitForRelease, GetPausedPool,
         ListUsers, Unpause, WaitForUnpaused, SyncNodeMaintenances, SyncPools, Restart, Render,
         StartRollout, FinishRollout, AdminPause, AdminUnpause, RemoveNode, objVars
<1> QED
  BY <1>1, <1>5, <1>6, <1>9, <1>10, <1>11, <1>12, <1>13, <1>14

\* Nothing that the decisions on pools look at changes.
Same == /\ UNCHANGED <<env, admin>>
        /\ \A p \in Pool : /\ mcp'[p].annotated = mcp[p].annotated /\ mcp'[p].paused = mcp[p].paused
                           /\ mcpCache'[p].annotated = mcpCache[p].annotated
                           /\ mcpCache'[p].paused = mcpCache[p].paused

LEMMA PoolQuiet ==
  ASSUME ObjectInv, PoolInv, Same, UNCHANGED <<pc, cur>>, \A p \in Pool : Users(p)' \subseteq Users(p)
  PROVE  PoolInv'
<1>1. ASSUME NEW p \in Pool PROVE PoolOK(p)'
  BY Names DEF PoolInv, PoolOK, Same, MCPName
<1>2. StepOK'
  BY Names DEF PoolInv, StepOK, Same, MCPName, ObjectInv, CopyOK
<1> QED
  BY <1>1, <1>2 DEF PoolInv, Same

\* A reconcile ends; if the pool cache lags, not while it waits for the cache.
LEMMA PoolEnd ==
  ASSUME ObjectInv, PoolInv, Same, pc # "idle", pc' = "idle",
         \A p \in Pool : Users(p)' # {} => mcp[p].annotated,
         "poolLag" \in env /\ pc \in Waits
           => mcpCache[MCPName(cur)].annotated = mcp[MCPName(cur)].annotated
  PROVE  PoolInv'
<1>1. ASSUME NEW p \in Pool PROVE PoolOK(p)'
  <2>1. "poolLag" \in env => mcpCache[p].annotated = mcp[p].annotated
    BY DEF PoolInv, PoolOK
  <2> QED
    BY <2>1 DEF PoolInv, PoolOK, Same
<1>2. StepOK'
  BY DEF StepOK
<1> QED
  BY <1>1, <1>2 DEF PoolInv, Same

\* A reconcile goes on to k, which is not a wait.
Early == {"addFinalizer", "setLabel", "waitLabel", "getPool"}

LEMMA PoolGoes ==
  ASSUME ObjectInv, PoolInv, Same, pc # "idle", NEW k \in Steps \ Waits, pc' = k, UNCHANGED cur,
         \A p \in Pool : Users(p)' \subseteq Users(p),
         pc \in Waits => mcpCache[MCPName(cur)].annotated = mcp[MCPName(cur)].annotated,
         k \in Early => pc \in Early,
         k \in Annotated => mcp[MCPName(cur)].annotated,
         k \in NotAnnotated => ~mcp[MCPName(cur)].annotated,
         k = "pause" => MCPName(cur) \notin admin,
         k \in {"undo", "unpause"} => Users(MCPName(cur)) = {}
  PROVE  PoolInv'
<1>0. MCPName(cur) \in Pool
  BY Names DEF ObjectInv, CopyOK
<1>1. ASSUME NEW p \in Pool PROVE PoolOK(p)'
  <2>1. mcpCache[p].annotated = mcp[p].annotated
    BY DEF PoolInv, PoolOK
  <2>2. pc' \in Early /\ p \in admin => mcpCache[p].paused
    BY DEF PoolInv, PoolOK, Early
  <2> QED
    BY <2>1, <2>2 DEF PoolInv, PoolOK, Same, Early
<1>2. StepOK'
  BY <1>0 DEF StepOK, Same, MCPName, Waits
<1> QED
  BY <1>1, <1>2 DEF PoolInv, Same

\* What justifies going on to k.
Justified(k) ==
  /\ k \in (Steps \ Waits) \cup {"requeue"}
  /\ pc \in Waits => mcpCache[MCPName(cur)].annotated = mcp[MCPName(cur)].annotated
  /\ k \in Early => pc \in Early
  /\ k \in Annotated => mcp[MCPName(cur)].annotated
  /\ k \in NotAnnotated => ~mcp[MCPName(cur)].annotated
  /\ k = "pause" => MCPName(cur) \notin admin
  /\ k \in {"undo", "unpause"} => Users(MCPName(cur)) = {}

\* The requests that are retried after an error.
LEMMA PoolFails ==
  ASSUME TypeOK, ObjectInv, PoolCacheTrusted, PoolInv, pc # "idle", Fault, Idle,
         UNCHANGED <<env, poolVars>>, \A p \in Pool : Users(p)' \subseteq Users(p)
  PROVE  PoolInv'
<1>1. Same /\ pc' = "idle" /\ "poolLag" \notin env
  BY DEF Same, poolVars, Idle, Fault, PoolCacheTrusted
<1>2. \A p \in Pool : Users(p)' # {} => mcp[p].annotated
  BY DEF PoolInv, PoolOK
<1> QED
  BY <1>1, <1>2, PoolEnd

LEMMA PoolRead ==
  ASSUME TypeOK, ObjectInv, PoolCacheTrusted, PoolInv, pc # "idle", NEW k,
         (Read(k) /\ Justified(k)) \/ CallFails, \A p \in Pool : Users(p)' \subseteq Users(p)
  PROVE  PoolInv'
<1>1. CASE CallFails
  BY <1>1, PoolFails DEF CallFails, Requeue
<1>2. CASE Read(k) /\ Justified(k)
  <2>1. Same
    BY <1>2 DEF Same, Read, poolVars
  <2>2. CASE k \in {"idle", "requeue"}
    <3>1. pc' = "idle"
      BY <1>2, <2>2 DEF Read, Proceed, Done, Requeue, Idle
    <3>2. \A p \in Pool : Users(p)' # {} => mcp[p].annotated
      BY DEF PoolInv, PoolOK
    <3> QED
      BY <1>2, <2>1, <3>1, <3>2, PoolEnd DEF Justified
  <2>3. CASE k \notin {"idle", "requeue"}
    <3>1. pc' = k /\ UNCHANGED cur
      BY <1>2, <2>3 DEF Read, Proceed
    <3> QED
      BY <1>2, <2>1, <2>3, <3>1, PoolGoes DEF Justified
  <2> QED
    BY <2>2, <2>3
<1> QED
  BY <1>1, <1>2

LEMMA PoolPatch ==
  ASSUME TypeOK, ObjectInv, PoolCacheTrusted, PoolInv, pc \notin Waits \cup {"idle"},
         NEW pause \in BOOLEAN, NEW k \in Waits, (k = "waitPaused") = pause,
         ChangeMachineConfigPoolPause(pause, k), MCPName(cur) \notin admin, Users(MCPName(cur)) = {},
         \A p \in Pool : Users(p)' \subseteq Users(p)
  PROVE  PoolInv'
<1> DEFINE q == MCPName(cur)
           patched == [mcp EXCEPT ![q].paused = pause, ![q].annotated = pause]
<1>0. q \in Pool /\ mcp \in [Pool -> PoolObject]
  BY Names DEF ObjectInv, CopyOK, TypeOK
<1>1. /\ \A p \in Pool \ {q} : patched[p] = mcp[p]
      /\ patched[q].paused = pause /\ patched[q].annotated = pause
  BY <1>0 DEF PoolObject
<1>2. UNCHANGED <<env, objVars, mcpCache, rolling, admin, nodes, changes>>
  BY DEF ChangeMachineConfigPoolPause
<1>3. \A p \in Pool : mcpCache[p].annotated = mcp[p].annotated
  BY DEF PoolInv, PoolOK
<1>4. CASE mcp' = patched /\ Proceed(k)
  <2>1. pc' = k /\ cur' = cur
    BY <1>4 DEF Proceed, Waits
  <2> HIDE DEF patched
  <2>2. ASSUME NEW p \in Pool PROVE PoolOK(p)'
    <3>1. CASE p = q
      BY <1>1, <1>2, <1>4, <2>1, <3>1 DEF PoolInv, PoolOK, Waits, MCPName
    <3>2. CASE p # q
      <4>1. mcp'[p] = mcp[p] /\ mcpCache'[p] = mcpCache[p] /\ mcpCache[p].annotated = mcp[p].annotated
        BY <1>1, <1>2, <1>3, <1>4, <3>2
      <4> QED
        BY <1>2, <2>1, <4>1 DEF PoolInv, PoolOK, Waits
    <3> QED
      BY <3>1, <3>2
  <2>3. StepOK'
    BY <1>0, <1>1, <1>4, <2>1 DEF StepOK, Waits, Annotated, NotAnnotated, MCPName
  <2> QED
    BY <1>2, <2>2, <2>3 DEF PoolInv
<1>5. CASE mcp' \in {mcp, patched} /\ Fault /\ Requeue
  <2>1. pc' = "idle" /\ "poolLag" \notin env
    BY <1>5 DEF Requeue, Idle, Fault, PoolCacheTrusted
  <2> HIDE DEF patched
  <2>2. ASSUME NEW p \in Pool PROVE PoolOK(p)'
    <3>1. mcp'[p] = mcp[p] \/ (p = q /\ mcp'[p].paused = pause /\ mcp'[p].annotated = pause)
      BY <1>1, <1>5
    <3> QED
      BY <1>2, <2>1, <3>1 DEF PoolInv, PoolOK
  <2>3. StepOK'
    BY <2>1 DEF StepOK
  <2> QED
    BY <1>2, <2>2, <2>3 DEF PoolInv
<1> QED
  BY <1>4, <1>5 DEF ChangeMachineConfigPoolPause

LEMMA PoolWrite ==
  ASSUME TypeOK, ObjectInv, PoolInv, pc \notin Waits \cup {"idle"},
         NEW new, NEW k, Write(new, k), k = "idle" \/ (k \in Early /\ pc \in Early),
         \A p \in Pool : Users(p)' \subseteq Users(p) \/ (k = "idle" /\ mcp[p].annotated)
  PROVE  PoolInv'
<1>1. Same
  BY DEF Same, Write, poolVars
<1>2. CASE pc' = "idle"
  <2>1. \A p \in Pool : Users(p)' # {} => mcp[p].annotated
    BY DEF PoolInv, PoolOK
  <2> QED
    BY <1>1, <1>2, <2>1, PoolEnd
<1>3. CASE pc' # "idle"
  <2>1. pc' = k /\ UNCHANGED cur /\ k # "idle"
    BY <1>3 DEF Write, Done, Requeue, Idle
  <2>2. /\ k \in Steps \ Waits /\ k \notin Annotated /\ k \notin NotAnnotated
        /\ k \notin {"pause", "undo", "unpause"}
    BY <2>1 DEF Early, Steps, Waits, Annotated, NotAnnotated
  <2> QED
    BY <1>1, <2>1, <2>2, PoolGoes
<1> QED
  BY <1>2, <1>3

LEMMA CallPool ==
  ASSUME TypeOK, ObjectInv, PoolCacheTrusted, PoolInv, Call
  PROVE  PoolInv'
<1> DEFINE q == MCPName(cur)
<1>0. pc # "idle"
  BY DEF Call, AddFinalizer, SetLabel, WaitForLabel, GetPool, Pause, WaitForPaused, Undo, WaitForUndone,
         SetReason, GetPausedPool, ListUsers, Unpause, WaitForUnpaused, RemoveFinalizer
<1>00. cur \in NM /\ q \in Pool /\ PoolOK(q) /\ StepOK
  BY <1>0, Names DEF ObjectInv, CopyOK, PoolInv
<1>000. \A p \in Pool : Users(p)' \subseteq Users(p) \/ (pc = "setReason" /\ p = q)
  BY UsersNext DEF Next, SetReason
<1>1. CASE AddFinalizer
  <2>1. PICK new : Write(new, StartPause([obj EXCEPT !.finalizer = TRUE])) /\ pc = "addFinalizer"
    BY <1>1 DEF AddFinalizer, Update
  <2>2. StartPause([obj EXCEPT !.finalizer = TRUE]) \in Early
    BY DEF StartPause, Early
  <2> QED
    BY <1>000, <2>1, <2>2, PoolWrite DEF Early, Waits
<1>2. CASE SetLabel
  <2>1. PICK new : Write(new, "waitLabel") /\ pc = "setLabel"
    BY <1>2 DEF SetLabel, Update
  <2> QED
    BY <1>000, <2>1, PoolWrite DEF Early, Waits
<1>3. CASE WaitForLabel
  <2>1. CASE CallFails
    BY <1>0, <1>3, <1>000, <2>1, PoolRead DEF WaitForLabel
  <2>2. CASE ~CallFails
    <3>1. pc' = "getPool" /\ Same /\ UNCHANGED cur /\ pc = "waitLabel"
      BY <1>3, <2>2 DEF WaitForLabel, Same, poolVars
    <3>2. "getPool" \in Steps \ Waits /\ "getPool" \notin Annotated \cup NotAnnotated
      BY DEF Steps, Waits, Annotated, NotAnnotated
    <3> QED
      BY <1>0, <1>000, <3>1, <3>2, PoolGoes DEF Waits, Early
  <2> QED
    BY <2>1, <2>2
<1>4. CASE GetPool
  <2> DEFINE m == mcpCache[q]
  <2>1. pc = "getPool" /\ m.annotated = mcp[q].annotated /\ (q \in admin => m.paused)
    BY <1>4, <1>00 DEF GetPool, PoolOK, Waits
  <2>2. Justified(AfterGet(m))
    BY <2>1 DEF Justified, AfterGet, Steps, Waits, Early, Annotated, NotAnnotated
  <2>3. Read(AfterGet(m)) \/ CallFails
    BY <1>4 DEF GetPool
  <2> HIDE DEF m
  <2> QED
    BY <1>0, <1>000, <2>1, <2>2, <2>3, PoolRead
<1>5. CASE Pause
  <2>1. q \notin admin /\ Users(q) = {} /\ pc = "pause"
    BY <1>5, <1>00 DEF Pause, StepOK, NotAnnotated, PoolOK
  <2> QED
    BY <1>5, <1>000, <2>1, PoolPatch DEF Pause, Waits
<1>6. CASE WaitForPaused
  <2> DEFINE m == mcpCache[q]
  <2>1. pc = "waitPaused" /\ mcp[q].annotated /\ Users(q) = {} /\ ((m.annotated /\ Read(AfterPaused(m))) \/ CallFails)
    BY <1>6, <1>00 DEF WaitForPaused, StepOK, Annotated
  <2>2. mcpCache[q] \in PoolObject /\ mcp[q] \in PoolObject
    BY <1>00 DEF TypeOK
  <2>3. m.annotated => Justified(AfterPaused(m))
    BY <2>1, <2>2 DEF Justified, AfterPaused, Steps, Waits, Early, Annotated, NotAnnotated, PoolObject
  <2> HIDE DEF m
  <2> QED
    BY <1>0, <1>000, <2>1, <2>3, PoolRead
<1>7. CASE Undo
  <2>1. q \notin admin /\ Users(q) = {} /\ pc = "undo"
    BY <1>7, <1>00 DEF Undo, StepOK, Annotated, PoolOK
  <2> QED
    BY <1>7, <1>000, <2>1, PoolPatch DEF Undo, Waits
<1>8. ASSUME pc \in {"waitUndone", "waitUnpaused"}, NEW k, k \in {"requeue", "idle", "removeFinalizer"},
             WaitForRelease(k)
      PROVE  PoolInv'
  <2>1. ~mcp[q].annotated /\ mcpCache[q] \in PoolObject /\ mcp[q] \in PoolObject
    BY <1>8, <1>00 DEF StepOK, NotAnnotated, TypeOK
  <2>2. ~mcpCache[q].annotated => Justified(k)
    BY <1>8, <2>1 DEF Justified, Steps, Waits, Early, Annotated, NotAnnotated, PoolObject
  <2> QED
    BY <1>0, <1>000, <1>8, <2>2, PoolRead DEF WaitForRelease
<1>9. CASE WaitForUndone
  BY <1>8, <1>9 DEF WaitForUndone
<1>10. CASE SetReason
  <2>1. pc = "setReason" /\ mcp[q].annotated
    BY <1>10, <1>00 DEF SetReason, StepOK, Annotated
  <2>2. PICK new : Write(new, "idle")
    BY <1>10 DEF SetReason, StatusUpdate
  <2> QED
    BY <1>000, <2>1, <2>2, PoolWrite DEF Waits
<1>11. HandleFinalizerRemoval(obj) \in {"idle", "removeFinalizer"}
  BY DEF HandleFinalizerRemoval
<1>12. CASE GetPausedPool
  <2> DEFINE k == IF mcpCache[q].annotated THEN "listUsers" ELSE HandleFinalizerRemoval(obj)
  <2>1. pc = "getPausedPool" /\ mcpCache[q].annotated = mcp[q].annotated
    BY <1>12, <1>00 DEF GetPausedPool, PoolOK, Waits
  <2>2. Justified(k)
    BY <1>11, <2>1 DEF Justified, Steps, Waits, Early, Annotated, NotAnnotated
  <2>3. Read(k) \/ CallFails
    BY <1>12 DEF GetPausedPool
  <2> HIDE DEF k
  <2> QED
    BY <1>0, <1>000, <2>1, <2>2, <2>3, PoolRead
<1>13. CASE ListUsers
  <2> DEFINE k == IF MCPUsedByOtherNodeMaintenance(cur) THEN HandleFinalizerRemoval(obj) ELSE "unpause"
  <2>1. pc = "listUsers" /\ mcp[q].annotated
    BY <1>13, <1>00 DEF ListUsers, StepOK, Annotated
  <2>2. ASSUME ~MCPUsedByOtherNodeMaintenance(cur), NEW x \in Users(q)
        PROVE  FALSE
    <3>1. x \in NM /\ CacheOK(x) /\ Maintained(x) /\ NodeName[x] \in nodes /\ MCPName(x) = q
      BY <2>2 DEF Users, ObjectInv
    <3>2. x = cur
      BY <2>2, <3>1 DEF MCPUsedByOtherNodeMaintenance, CacheOK, Maintained, ShapeOK, Live
    <3>3. nm[cur].deleting \/ nm[cur].life = "gone"
      BY <2>1 DEF ObjectInv, CopyOK, Unpausing
    <3> QED
      BY <3>1, <3>2, <3>3 DEF Maintained, Live
  <2>3. Justified(k)
    BY <1>11, <2>1, <2>2 DEF Justified, Steps, Waits, Early, Annotated, NotAnnotated
  <2>4. Read(k) \/ CallFails
    BY <1>13 DEF ListUsers
  <2> HIDE DEF k
  <2> QED
    BY <1>0, <1>000, <2>1, <2>3, <2>4, PoolRead
<1>14. CASE Unpause
  <2>1. q \notin admin /\ Users(q) = {} /\ pc = "unpause"
    BY <1>14, <1>00 DEF Unpause, StepOK, Annotated, PoolOK
  <2> QED
    BY <1>14, <1>000, <2>1, PoolPatch DEF Unpause, Waits
<1>15. CASE WaitForUnpaused
  BY <1>8, <1>11, <1>15 DEF WaitForUnpaused
<1>16. CASE RemoveFinalizer
  <2>1. PICK new : Write(new, "idle") /\ pc = "removeFinalizer"
    BY <1>16 DEF RemoveFinalizer
  <2> QED
    BY <1>000, <2>1, PoolWrite DEF Waits
<1> QED
  BY <1>1, <1>2, <1>3, <1>4, <1>5, <1>6, <1>7, <1>9, <1>10, <1>12, <1>13, <1>14, <1>15, <1>16 DEF Call

LEMMA PoolNext ==
  ASSUME TypeOK, ObjectInv, PoolCacheTrusted, PoolInv, [Next]_vars
  PROVE  PoolInv'
<1>0. PoolType
  BY Types
<1>1. CASE Call
  BY <1>1, CallPool
<1>2. ASSUME ~Call
      PROVE  \A p \in Pool : Users(p)' \subseteq Users(p)
  BY <1>2, UsersNext DEF Call
<1>3. ASSUME ~Call, NEW x \in NM, Reconcile(x)
      PROVE  PoolInv'
  <2>1. Same /\ pc = "idle" /\ InformersCaughtUp
    BY <1>3 DEF Reconcile, Same, poolVars
  <2>2. CASE UNCHANGED procVars
    BY <1>2, <1>3, <2>1, <2>2, PoolQuiet DEF procVars
  <2>3. CASE ~UNCHANGED procVars
    <3>1. pc' \in Early \cup {"getPausedPool", "removeFinalizer", "idle"} /\ cur' = x
      BY <1>3, <2>3 DEF Reconcile, HandleFinalizerRemoval, StartPause, Early
    <3>2. ASSUME NEW p \in Pool
          PROVE  mcpCache[p].annotated = mcp[p].annotated /\ (p \in admin => mcpCache[p].paused)
      BY <2>1 DEF InformersCaughtUp, PoolInv, PoolOK, PoolCacheTrusted, Waits
    <3>3. ASSUME NEW p \in Pool PROVE PoolOK(p)'
      BY <1>2, <1>3, <2>1, <3>1, <3>2 DEF PoolInv, PoolOK, Same, Waits
    <3>4. StepOK'
      BY <3>1 DEF StepOK, Early, Annotated, NotAnnotated
    <3> QED
      BY <2>1, <3>3, <3>4 DEF PoolInv, Same
  <2> QED
    BY <2>2, <2>3
<1>4. ASSUME ~Call, NEW x \in NM, Schedule(x) \/ Delete(x)
      PROVE  PoolInv'
  <2>1. Same /\ UNCHANGED <<pc, cur>>
    BY <1>4 DEF Schedule, Delete, OtherWrite, Same, poolVars
  <2> QED
    BY <1>2, <1>4, <2>1, PoolQuiet
<1>5. ASSUME ~Call, SyncNodeMaintenances \/ UNCHANGED vars
      PROVE  PoolInv'
  <2>1. Same /\ UNCHANGED <<pc, cur>>
    BY <1>5 DEF SyncNodeMaintenances, vars, procVars, Same, poolVars
  <2> QED
    BY <1>2, <1>5, <2>1, PoolQuiet
<1>6. ASSUME ~Call, SyncPools
      PROVE  PoolInv'
  <2>1. mcpCache' = mcp /\ UNCHANGED <<env, mcp, admin, pc, cur>>
    BY <1>6 DEF SyncPools, procVars
  <2>2. ASSUME NEW p \in Pool PROVE PoolOK(p)'
    BY <1>2, <1>6, <2>1 DEF PoolInv, PoolOK
  <2>3. StepOK'
    <3> SUFFICES ASSUME pc # "idle"
                 PROVE  StepOK'
      BY <2>1 DEF StepOK
    <3>1. MCPName(cur) \in Pool /\ MCPName(cur)' = MCPName(cur)
      BY <2>1, Names DEF ObjectInv, CopyOK, MCPName
    <3>2. Users(MCPName(cur))' \subseteq Users(MCPName(cur))
      BY <1>2, <1>6, <3>1 DEF Users
    <3> QED
      BY <2>1, <3>1, <3>2 DEF PoolInv, StepOK
  <2> QED
    BY <2>1, <2>2, <2>3 DEF PoolInv
<1>7. ASSUME ~Call, Restart
      PROVE  PoolInv'
  <2>1. /\ mcpCache' = mcp /\ UNCHANGED <<env, mcp, admin>> /\ pc' = "idle" /\ "poolLag" \notin env
    BY <1>7 DEF Restart, Idle, Fault, PoolCacheTrusted
  <2>2. ASSUME NEW p \in Pool PROVE PoolOK(p)'
    BY <1>2, <1>7, <2>1 DEF PoolInv, PoolOK
  <2>3. StepOK'
    BY <2>1 DEF StepOK
  <2> QED
    BY <2>1, <2>2, <2>3 DEF PoolInv
<1>8. ASSUME ~Call, NEW p \in Pool, Render(p) \/ StartRollout(p) \/ FinishRollout(p)
      PROVE  PoolInv'
  <2>1. UNCHANGED <<env, admin, mcpCache, pc, cur>>
    BY <1>8 DEF Render, StartRollout, FinishRollout, procVars
  <2>2. \A r \in Pool : mcp'[r].annotated = mcp[r].annotated /\ mcp'[r].paused = mcp[r].paused
    BY <1>0, <1>8, SMT DEF Render, StartRollout, FinishRollout, PoolType, PoolObject
  <2> QED
    BY <1>2, <1>8, <2>1, <2>2, PoolQuiet DEF Same
<1>9. ASSUME ~Call, NEW p \in Pool, AdminPause(p)
      PROVE  PoolInv'
  <2>1. /\ "admin" \in env /\ pc = "idle" /\ "poolLag" \notin env /\ ~mcp[p].paused
        /\ admin' = admin \cup {p} /\ UNCHANGED <<env, mcpCache, pc, cur>>
    BY <1>9 DEF AdminPause, procVars, PoolCacheTrusted
  <2>2. ~mcp[p].annotated
    BY <2>1 DEF PoolInv, PoolOK
  <2>3. /\ \A r \in Pool : mcp'[r].annotated = mcp[r].annotated
        /\ mcp'[p].paused /\ \A r \in Pool \ {p} : mcp'[r].paused = mcp[r].paused
    BY <1>0, <1>9 DEF AdminPause, PoolType, PoolObject
  <2>4. ASSUME NEW r \in Pool PROVE PoolOK(r)'
    BY <1>2, <1>9, <2>1, <2>2, <2>3 DEF PoolInv, PoolOK
  <2>5. StepOK'
    BY <2>1 DEF StepOK
  <2> QED
    BY <2>1, <2>4, <2>5 DEF PoolInv
<1>10. ASSUME ~Call, NEW p \in Pool, AdminUnpause(p)
       PROVE  PoolInv'
  <2>1. p \in admin /\ admin' = admin \ {p} /\ UNCHANGED <<env, mcpCache, pc, cur>>
    BY <1>10 DEF AdminUnpause, procVars
  <2>2. ~mcp[p].annotated
    BY <2>1 DEF PoolInv, PoolOK
  <2>3. /\ \A r \in Pool : mcp'[r].annotated = mcp[r].annotated
        /\ \A r \in Pool \ {p} : mcp'[r].paused = mcp[r].paused
    BY <1>0, <1>10 DEF AdminUnpause, PoolType, PoolObject
  <2>4. ASSUME NEW r \in Pool PROVE PoolOK(r)'
    BY <1>2, <1>10, <2>1, <2>2, <2>3 DEF PoolInv, PoolOK
  <2>5. StepOK'
    <3> SUFFICES ASSUME pc # "idle"
                 PROVE  StepOK'
      BY <2>1 DEF StepOK
    <3>1. MCPName(cur) \in Pool /\ MCPName(cur)' = MCPName(cur)
      BY <2>1, Names DEF ObjectInv, CopyOK, MCPName
    <3>2. Users(MCPName(cur))' \subseteq Users(MCPName(cur))
      BY <1>2, <1>10, <3>1 DEF Users
    <3> QED
      BY <2>1, <2>3, <3>1, <3>2 DEF PoolInv, StepOK
  <2> QED
    BY <2>1, <2>4, <2>5 DEF PoolInv
<1>11. ASSUME ~Call, NEW n \in Node, RemoveNode(n)
       PROVE  PoolInv'
  <2>1. Same /\ UNCHANGED <<pc, cur>>
    BY <1>11 DEF RemoveNode, Same, procVars
  <2> QED
    BY <1>2, <1>11, <2>1, PoolQuiet
<1> QED
  BY <1>1, <1>3, <1>4, <1>5, <1>6, <1>7, <1>8, <1>9, <1>10, <1>11 DEF Next

LEMMA EnvFixed == [Next]_vars => UNCHANGED env
BY DEF Next, vars, Reconcile, Schedule, Delete, OtherWrite, Call, AddFinalizer, SetLabel, Update, Write,
       WaitForLabel, CallFails, GetPool, Read, Pause, ChangeMachineConfigPoolPause, WaitForPaused, Undo,
       WaitForUndone, WaitForRelease, SetReason, StatusUpdate, GetPausedPool, ListUsers, Unpause,
       WaitForUnpaused, RemoveFinalizer, SyncNodeMaintenances, SyncPools, Restart, Render, StartRollout,
       FinishRollout, AdminPause, AdminUnpause, RemoveNode

LEMMA InitIInv == Init => IInv
<1> SUFFICES ASSUME Init
             PROVE  IInv
  OBVIOUS
<1>1. TypeOK
  <2>1. ObjType /\ PoolType
    BY Constants DEF Init, ObjType, PoolType
  <2>2. ProcType
    BY Constants DEF Init, ProcType, Steps
  <2>3. CountType
    BY BoundsAssumption, SMT DEF Init, CountType
  <2> QED
    BY <2>1, <2>2, <2>3, Types
<1>2. ObjectInv
  BY Constants DEF Init, ObjectInv, CacheOK, CopyOK, Live, Unborn
<1>3. PoolInv
  BY Constants DEF Init, PoolInv, PoolOK, StepOK, NewPool, Users, Maintained, Live, Waits
<1> QED
  BY <1>1, <1>2, <1>3 DEF IInv

LEMMA Invariance == Spec => []IInv
<1>1. IInv /\ [Next]_vars => IInv'
  <2> SUFFICES ASSUME IInv, [Next]_vars
               PROVE  IInv'
    OBVIOUS
  <2>1. TypeOK' /\ ObjectInv'
    BY ObjectNext DEF IInv
  <2>2. PoolCacheTrusted' => PoolCacheTrusted
    BY EnvFixed DEF PoolCacheTrusted
  <2> QED
    BY <2>1, <2>2, PoolNext DEF IInv
<1> QED
  BY <1>1, InitIInv, PTL DEF Spec

\* Every reachable state of the pool manager is well typed, in every environment.
THEOREM TypeCorrect == Spec => []TypeOK
<1>1. IInv => TypeOK
  BY DEF IInv
<1> QED
  BY <1>1, Invariance, PTL

\* PauseMCP and UnpauseMCP keep the pool of every maintained node paused and
\* marked, for any number of maintenances, nodes and pools, although both decide
\* on caches: the waits for the cache are enough.
THEOREM PausedWhileMaintained == Spec => []PausedDuringMaintenance
<1>1. IInv => PausedDuringMaintenance
  BY Names DEF IInv, PausedDuringMaintenance, PoolInv, PoolOK, Users
<1> QED
  BY <1>1, Invariance, PTL

\* PauseMCP does not take over a pool that an administrator has paused, and
\* UnpauseMCP does not unpause it.
THEOREM AdminPauseKept == Spec => []AdminPauseRespected
<1>1. IInv => AdminPauseRespected
  BY DEF IInv, TypeOK, AdminPauseRespected, PoolInv, PoolOK
<1> QED
  BY <1>1, Invariance, PTL

-----------------------------------------------------------------------------
(* Rollouts. *)

\* A step that pauses no pool.
LEMMA RolloutPlain ==
  ASSUME \A p \in Pool : RolloutOK(p), UNCHANGED rolling, pc \notin {"waitPaused", "undo"},
         pc' # "waitPaused",
         \A p \in Pool : mcp'[p].changing = mcp[p].changing /\ (mcp'[p].annotated => mcp[p].annotated)
  PROVE  \A p \in Pool : RolloutOK(p)'
BY DEF RolloutOK

\* A step of others than the reconciler.
LEMMA RolloutQuiet ==
  ASSUME \A p \in Pool : RolloutOK(p), UNCHANGED <<pc, cur, mcpCache>>, rolling' \subseteq rolling,
         \A p \in Pool : /\ p \in rolling' /\ mcp[p].changing => mcp'[p].changing
                        /\ mcp'[p].annotated = mcp[p].annotated
  PROVE  \A p \in Pool : RolloutOK(p)'
BY DEF RolloutOK, MCPName

LEMMA CallRollout ==
  ASSUME IInv, PoolCacheTrusted, "faults" \notin env, \A p \in Pool : RolloutOK(p), Call
  PROVE  \A p \in Pool : RolloutOK(p)'
<1> DEFINE q == MCPName(cur)
<1>0. /\ ~Fault /\ ~CallFails /\ mcp \in [Pool -> PoolObject] /\ PoolInv
  BY DEF Fault, CallFails, IInv, TypeOK
<1>1. CASE Pause
  <2> DEFINE patched == [mcp EXCEPT ![q].paused = TRUE, ![q].annotated = TRUE]
  <2>1. /\ mcp' = patched /\ pc' = "waitPaused" /\ UNCHANGED <<cur, rolling, mcpCache>> /\ pc = "pause"
    BY <1>0, <1>1 DEF Pause, ChangeMachineConfigPoolPause, Proceed
  <2>2. q \in Pool
    BY <2>1, Names DEF IInv, ObjectInv, CopyOK
  <2>3. ~mcpCache[q].annotated
    BY <1>0, <2>1, <2>2 DEF PoolInv, PoolOK, StepOK, NotAnnotated, Waits
  <2>4. \A p \in Pool : patched[p].changing = mcp[p].changing /\ (p # q => patched[p] = mcp[p])
    BY <1>0 DEF PoolObject
  <2> HIDE DEF patched
  <2> QED
    BY <2>1, <2>2, <2>3, <2>4 DEF RolloutOK, MCPName
<1>2. CASE WaitForPaused
  <2>1. /\ pc = "waitPaused" /\ mcpCache[q].annotated
        /\ pc' = (IF mcpCache[q].changing THEN "undo" ELSE "setReason")
        /\ UNCHANGED <<mcp, mcpCache, rolling, cur>>
    BY <1>0, <1>2 DEF WaitForPaused, Read, AfterPaused, Proceed, poolVars
  <2> QED
    BY <2>1 DEF RolloutOK, MCPName
<1>3. CASE Undo
  <2> DEFINE patched == [mcp EXCEPT ![q].paused = FALSE, ![q].annotated = FALSE]
  <2>1. /\ mcp' = patched /\ pc' = "waitUndone" /\ UNCHANGED <<cur, rolling, mcpCache>> /\ pc = "undo"
    BY <1>0, <1>3 DEF Undo, ChangeMachineConfigPoolPause, Proceed
  <2>2. \A p \in Pool : /\ patched[p].changing = mcp[p].changing /\ (p # q => patched[p] = mcp[p])
                        /\ p = q => ~patched[p].annotated
    BY <1>0 DEF PoolObject
  <2> HIDE DEF patched
  <2>3. ASSUME NEW p \in Pool PROVE RolloutOK(p)'
    <3>1. mcp'[p].changing = mcp[p].changing /\ ~(mcp'[p].annotated /\ p \in rolling)
      <4>1. CASE p = q
        BY <2>1, <2>2, <4>1
      <4>2. CASE p # q
        BY <2>1, <2>2, <4>2 DEF RolloutOK
      <4> QED
        BY <4>1, <4>2
    <3> QED
      BY <2>1, <3>1 DEF RolloutOK
  <2> QED
    BY <2>3
<1>4. CASE Unpause
  <2> DEFINE patched == [mcp EXCEPT ![q].paused = FALSE, ![q].annotated = FALSE]
  <2>1. /\ mcp' = patched /\ pc' = "waitUnpaused" /\ UNCHANGED rolling /\ pc = "unpause"
    BY <1>0, <1>4 DEF Unpause, ChangeMachineConfigPoolPause, Proceed
  <2>2. \A p \in Pool : patched[p].changing = mcp[p].changing /\ (patched[p].annotated => mcp[p].annotated)
    BY <1>0 DEF PoolObject
  <2> HIDE DEF patched
  <2> QED
    BY <2>1, <2>2, RolloutPlain
<1>5. CASE AddFinalizer \/ SetLabel \/ SetReason \/ RemoveFinalizer
  <2>1. PICK new, k : Write(new, k) /\ k # "waitPaused" /\ pc \notin {"waitPaused", "undo"}
    BY <1>5 DEF AddFinalizer, SetLabel, SetReason, RemoveFinalizer, Update, StatusUpdate, StartPause
  <2>2. UNCHANGED <<mcp, rolling>> /\ pc' # "waitPaused"
    BY <2>1 DEF Write, Done, Requeue, Idle, poolVars
  <2> QED
    BY <2>1, <2>2, RolloutPlain
<1>6. CASE WaitForLabel
  BY <1>0, <1>6, RolloutPlain DEF WaitForLabel, poolVars
<1>7. CASE GetPool \/ WaitForUndone \/ GetPausedPool \/ ListUsers \/ WaitForUnpaused
  <2>1. PICK k : Read(k) /\ k # "waitPaused" /\ pc \notin {"waitPaused", "undo"}
    BY <1>0, <1>7 DEF GetPool, WaitForUndone, GetPausedPool, ListUsers, WaitForUnpaused, WaitForRelease,
                      AfterGet, HandleFinalizerRemoval
  <2>2. UNCHANGED <<mcp, rolling>> /\ pc' # "waitPaused"
    BY <2>1 DEF Read, Proceed, Done, Requeue, Idle, poolVars
  <2> QED
    BY <2>1, <2>2, RolloutPlain
<1> QED
  BY <1>1, <1>2, <1>3, <1>4, <1>5, <1>6, <1>7 DEF Call

LEMMA RolloutNext ==
  ASSUME IInv, PoolCacheTrusted, "faults" \notin env, \A p \in Pool : RolloutOK(p), [Next]_vars
  PROVE  \A p \in Pool : RolloutOK(p)'
<1>0. mcp \in [Pool -> PoolObject] /\ PoolInv /\ ~Fault
  BY DEF IInv, TypeOK, Fault
<1>1. CASE Call
  BY <1>1, CallRollout
<1>2. ASSUME NEW x \in NM, Reconcile(x)
      PROVE  \A p \in Pool : RolloutOK(p)'
  <2>1. UNCHANGED <<mcp, rolling>> /\ pc = "idle" /\ pc' # "waitPaused"
    BY <1>2 DEF Reconcile, poolVars, procVars, HandleFinalizerRemoval, StartPause
  <2> QED
    BY <2>1, RolloutPlain
<1>3. CASE UNCHANGED <<mcp, mcpCache, rolling, pc, cur>>
  BY <1>3, RolloutQuiet
<1>4. CASE SyncPools
  BY <1>4 DEF SyncPools, procVars, RolloutOK, MCPName
<1>5. ASSUME NEW r \in Pool, Render(r)
      PROVE  \A p \in Pool : RolloutOK(p)'
  <2>1. UNCHANGED <<pc, cur, mcpCache, rolling>>
    BY <1>5 DEF Render, procVars
  <2>2. \A p \in Pool : (mcp[p].changing => mcp'[p].changing) /\ mcp'[p].annotated = mcp[p].annotated
    BY <1>0, <1>5 DEF Render, PoolObject
  <2> QED
    BY <2>1, <2>2, RolloutQuiet
<1>6. ASSUME NEW r \in Pool, StartRollout(r)
      PROVE  \A p \in Pool : RolloutOK(p)'
  <2>1. /\ UNCHANGED <<pc, cur, mcp, mcpCache>> /\ rolling' = rolling \cup {r}
        /\ mcp[r].changing /\ ~mcp[r].paused
    BY <1>6 DEF StartRollout, procVars
  <2>2. ~mcp[r].annotated /\ ~(pc = "waitPaused" /\ MCPName(cur) = r)
    BY <1>0, <2>1 DEF PoolInv, PoolOK, StepOK, Annotated
  <2> QED
    BY <2>1, <2>2 DEF RolloutOK, MCPName
<1>7. ASSUME NEW r \in Pool, FinishRollout(r)
      PROVE  \A p \in Pool : RolloutOK(p)'
  <2>1. UNCHANGED <<pc, cur, mcpCache>> /\ rolling' = rolling \ {r}
    BY <1>7 DEF FinishRollout, procVars
  <2>2. \A p \in Pool : /\ p # r => mcp'[p].changing = mcp[p].changing
                        /\ mcp'[p].annotated = mcp[p].annotated
    BY <1>0, <1>7 DEF FinishRollout, PoolObject
  <2> QED
    BY <2>1, <2>2, RolloutQuiet
<1>8. ASSUME NEW r \in Pool, AdminPause(r) \/ AdminUnpause(r)
      PROVE  \A p \in Pool : RolloutOK(p)'
  <2>1. UNCHANGED <<pc, cur, mcpCache, rolling>>
    BY <1>8 DEF AdminPause, AdminUnpause, procVars
  <2>2. \A p \in Pool : mcp'[p].changing = mcp[p].changing /\ mcp'[p].annotated = mcp[p].annotated
    BY <1>0, <1>8, SMT DEF AdminPause, AdminUnpause, PoolObject
  <2> QED
    BY <2>1, <2>2, RolloutQuiet
<1>9. ASSUME NEW x \in NM, Schedule(x) \/ Delete(x)
      PROVE  UNCHANGED <<mcp, mcpCache, rolling, pc, cur>>
  BY <1>9 DEF Schedule, Delete, OtherWrite, poolVars
<1>10. CASE SyncNodeMaintenances \/ UNCHANGED vars \/ \E n \in Node : RemoveNode(n)
  BY <1>3, <1>10 DEF SyncNodeMaintenances, vars, RemoveNode, poolVars, procVars
<1>11. ~Restart
  BY <1>0 DEF Restart
<1> QED
  BY <1>1, <1>2, <1>3, <1>4, <1>5, <1>6, <1>7, <1>8, <1>9, <1>10, <1>11 DEF Next

\* No rollout reaches a maintained node: the second look of PauseMCP at the pool
\* sees every rollout that began before the pause.
THEOREM NoRolloutWhileMaintained == Spec => []NoRolloutDuringMaintenance
<1>1. Init => RolloutInv
  BY DEF Init, RolloutInv, RolloutOK
<1>2. IInv /\ RolloutInv /\ [Next]_vars => RolloutInv'
  <2> SUFFICES ASSUME IInv, RolloutInv, [Next]_vars, PoolCacheTrusted, "faults" \notin env
               PROVE  \A p \in Pool : RolloutOK(p)'
    BY EnvFixed DEF RolloutInv, PoolCacheTrusted
  <2> QED
    BY RolloutNext DEF RolloutInv
<1>3. IInv /\ RolloutInv => NoRolloutDuringMaintenance
  BY Names DEF IInv, RolloutInv, RolloutOK, NoRolloutDuringMaintenance, PoolInv, PoolOK, StepOK, Users
<1> QED
  BY <1>1, <1>2, <1>3, Invariance, PTL DEF Spec

-----------------------------------------------------------------------------
(* The last user of a pool. *)

\* Users of pools stay, and no pool is marked.
LEMMA KeepShown ==
  ASSUME PoolRel, \A x \in NM : Shown(x) => Shown(x)',
         \A p \in Pool : mcp'[p].annotated => mcp[p].annotated
  PROVE  PoolRel'
BY DEF PoolRel, MCPName

\* A step that leaves the objects alone and marks no pool.
LEMMA ReleaseQuiet ==
  ASSUME ReleaseOK, UNCHANGED <<nm, nmCache, nodes>>, StepRel',
         \A p \in Pool : mcp'[p].annotated => mcp[p].annotated
  PROVE  ReleaseOK'
<1>1. LabelRel' /\ PoolRel' /\ nodes' = Node
  BY KeepShown DEF ReleaseOK, LabelRel, Shown, Live
<1> QED
  BY <1>1 DEF ReleaseOK

LEMMA ReleaseRead ==
  ASSUME ReleaseOK, pc # "idle", NEW k, Read(k) \/ CallFails,
         k \notin {"addFinalizer", "setLabel", "waitLabel"}, k \in Pausing => pc \in Pausing,
         k \in Unpausing \cup {"removeFinalizer"} => pc \in Unpausing,
         k = "removeFinalizer" /\ mcp[MCPName(cur)].annotated
           => \E x \in NM \ {cur} : Shown(x) /\ MCPName(x) = MCPName(cur)
  PROVE  ReleaseOK'
<1>1. UNCHANGED <<nm, nmCache, mcp, nodes>> /\ (pc' = "idle" \/ (pc' = k /\ UNCHANGED cur))
  BY DEF Read, CallFails, Proceed, Done, Requeue, Idle, objVars, poolVars
<1>2. CASE pc' = "idle"
  BY <1>1, <1>2, ReleaseQuiet DEF StepRel
<1>3. CASE pc' # "idle"
  <2>1. \A x \in NM : Shown(x)' = Shown(x)
    BY <1>1 DEF Shown, Live
  <2>2. StepRel'
    BY <1>1, <1>3, <2>1 DEF ReleaseOK, StepRel, MCPName
  <2> QED
    BY <1>1, <2>2, ReleaseQuiet
<1> QED
  BY <1>2, <1>3

LEMMA ReleasePatch ==
  ASSUME TypeOK, ObjectInv, ReleaseOK, pc # "idle", NEW k \in Waits, NEW pause \in BOOLEAN,
         ChangeMachineConfigPoolPause(pause, k),
         k \in Pausing => pc \in Pausing, k \in Unpausing => pc \in Unpausing,
         pause => pc \in Pausing
  PROVE  ReleaseOK'
<1> DEFINE q == MCPName(cur)
           patched == [mcp EXCEPT ![q].paused = pause, ![q].annotated = pause]
<1>0. cur \in NM /\ mcp \in [Pool -> PoolObject] /\ CacheOK(cur)
  BY DEF ObjectInv, CopyOK, TypeOK
<1>1. mcp' \in {mcp, patched} /\ UNCHANGED <<nm, nmCache, nodes>>
  BY DEF ChangeMachineConfigPoolPause, objVars
<1>2. pc' = "idle" \/ (pc' = k /\ UNCHANGED cur)
  BY DEF ChangeMachineConfigPoolPause, Proceed, Done, Requeue, Idle, Waits
<1>3. StepRel'
  BY <1>1, <1>2 DEF ReleaseOK, StepRel, Waits
<1>4. \A p \in Pool : mcp'[p].annotated => mcp[p].annotated \/ (pause /\ p = q)
  BY <1>0, <1>1 DEF PoolObject
<1>5. pause => Shown(cur)
  BY <1>0 DEF ReleaseOK, StepRel, LabelRel, Shown, CacheOK, ShapeOK, Live
<1>6. \A x \in NM : Shown(x)' = Shown(x)
  BY <1>1 DEF Shown, Live
<1> HIDE DEF patched
<1>7. PoolRel'
  BY <1>0, <1>4, <1>5, <1>6 DEF ReleaseOK, PoolRel, MCPName
<1>8. LabelRel' /\ nodes' = Node
  BY <1>1 DEF ReleaseOK, LabelRel
<1> QED
  BY <1>3, <1>7, <1>8 DEF ReleaseOK

\* An update of cur that takes nothing away from it.
LEMMA ReleaseWrite ==
  ASSUME TypeOK, ObjectInv, ReleaseOK, pc # "idle", NEW new, NEW k, Write(new, k),
         k \in {"idle", "setLabel", "waitLabel"},
         objFresh => /\ nm[cur].label => new.label
                     /\ nm[cur].finalizer => new.finalizer
                     /\ new.label => new.finalizer
                     /\ new.life = nm[cur].life
                     /\ k = "setLabel" => new.finalizer
                     /\ k = "waitLabel" => new.label
  PROVE  ReleaseOK'
<1>0. cur \in NM /\ nm \in [NM -> Object]
  BY DEF ObjectInv, CopyOK, TypeOK
<1>1. /\ UNCHANGED <<nmCache, mcp, nodes>>
      /\ nm' = nm \/ (objFresh /\ nm' = [nm EXCEPT ![cur] = new])
      /\ pc' = "idle" \/ (pc' = k /\ UNCHANGED cur /\ objFresh /\ nm' = [nm EXCEPT ![cur] = new])
  BY DEF Write, Stored, Done, Requeue, Idle, poolVars
<1>2. /\ \A x \in NM : nm'[x] = nm[x] \/ (x = cur /\ objFresh /\ nm'[x] = new)
      /\ pc' # "idle" => nm'[cur] = new
  BY <1>0, <1>1
<1>3. LabelRel' /\ \A x \in NM : (Shown(x) => Shown(x)') /\ (nm[x].label => nm'[x].label)
  BY <1>2 DEF ReleaseOK, LabelRel, Shown, Live
<1>4. StepRel'
  BY <1>1, <1>2, <1>3 DEF ReleaseOK, StepRel, Pausing, Unpausing
<1>5. PoolRel'
  BY <1>1, <1>3, KeepShown DEF ReleaseOK
<1> QED
  BY <1>1, <1>3, <1>4, <1>5 DEF ReleaseOK

LEMMA CallRelease ==
  ASSUME IInv, PoolCacheTrusted, ReleaseOK, Call
  PROVE  ReleaseOK'
<1> USE DEF Pausing, Unpausing
<1> DEFINE q == MCPName(cur)
<1>0. pc # "idle"
  BY DEF Call, AddFinalizer, SetLabel, WaitForLabel, GetPool, Pause, WaitForPaused, Undo, WaitForUndone,
         SetReason, GetPausedPool, ListUsers, Unpause, WaitForUnpaused, RemoveFinalizer
<1>00. /\ TypeOK /\ ObjectInv /\ cur \in NM /\ nm \in [NM -> Object] /\ obj \in Object /\ nm[cur] \in Object
       /\ CacheOK(cur) /\ (objFresh => obj = nm[cur]) /\ q \in Pool /\ PoolOK(q) /\ StepOK
  BY <1>0, Names DEF IInv, TypeOK, ObjectInv, CopyOK, PoolInv
<1>1. CASE AddFinalizer
  <2> DEFINE f == [obj EXCEPT !.finalizer = TRUE]
             new == [f EXCEPT !.reason = nm[cur].reason]
  <2>1. Write(new, StartPause(f)) /\ pc = "addFinalizer"
    BY <1>1 DEF AddFinalizer, Update
  <2>2. /\ new.label = obj.label /\ new.finalizer /\ new.life = obj.life /\ f.finalizer /\ f.label = obj.label
    BY <1>00 DEF Object
  <2>3. CASE objFresh
    <3>1. StartPause(f) = "setLabel"
      BY <2>1, <2>2, <2>3 DEF StartPause, ReleaseOK, StepRel
    <3> HIDE DEF new, f
    <3> QED
      BY <1>0, <1>00, <2>1, <2>2, <3>1, ReleaseWrite
  <2>4. CASE ~objFresh
    <3>1. UNCHANGED <<nm, nmCache, mcp, nodes>> /\ pc' = "idle"
      BY <2>1, <2>4 DEF Write, Stored, Requeue, Idle, poolVars
    <3> QED
      BY <3>1, ReleaseQuiet DEF StepRel
  <2> QED
    BY <2>3, <2>4
<1>2. CASE SetLabel
  <2> DEFINE new == [[obj EXCEPT !.label = TRUE] EXCEPT !.reason = nm[cur].reason]
  <2>1. Write(new, "waitLabel") /\ pc = "setLabel"
    BY <1>2 DEF SetLabel, Update
  <2>2. new.label /\ new.finalizer = obj.finalizer /\ new.life = obj.life
    BY <1>00 DEF Object
  <2>3. objFresh => nm[cur].finalizer
    BY <1>0, <2>1 DEF ReleaseOK, StepRel
  <2> HIDE DEF new
  <2> QED
    BY <1>0, <1>00, <2>1, <2>2, <2>3, ReleaseWrite
<1>3. CASE WaitForLabel
  <2>1. CASE CallFails
    <3>1. UNCHANGED <<nm, nmCache, mcp, nodes>> /\ pc' = "idle"
      BY <2>1 DEF CallFails, Requeue, Idle, objVars, poolVars
    <3> QED
      BY <3>1, ReleaseQuiet DEF StepRel
  <2>2. CASE ~CallFails
    <3>1. UNCHANGED <<nm, nmCache, mcp, nodes, cur>> /\ pc' = "getPool" /\ pc = "waitLabel"
      BY <1>3, <2>2 DEF WaitForLabel, objVars, poolVars
    <3>2. StepRel'
      BY <3>1 DEF ReleaseOK, StepRel
    <3> QED
      BY <3>1, <3>2, ReleaseQuiet
  <2> QED
    BY <2>1, <2>2
<1>4. CASE GetPool
  <2>1. AfterGet(mcpCache[q]) \in {"setReason", "requeue", "pause"} /\ pc = "getPool"
    BY <1>4 DEF AfterGet, GetPool
  <2> QED
    BY <1>0, <1>4, <2>1, ReleaseRead DEF GetPool
<1>5. CASE Pause
  BY <1>0, <1>00, <1>5, ReleasePatch DEF Pause, Waits
<1>6. CASE WaitForPaused
  <2>1. AfterPaused(mcpCache[q]) \in {"undo", "setReason"} /\ pc = "waitPaused"
    BY <1>6 DEF AfterPaused, WaitForPaused
  <2> QED
    BY <1>0, <1>6, <2>1, ReleaseRead DEF WaitForPaused
<1>7. CASE Undo
  BY <1>0, <1>00, <1>7, ReleasePatch DEF Undo, Waits
<1>8. CASE WaitForUndone
  BY <1>0, <1>8, ReleaseRead DEF WaitForUndone, WaitForRelease
<1>9. CASE SetReason
  <2> DEFINE new == [nm[cur] EXCEPT !.reason = "Cordon"]
  <2>1. Write(new, "idle")
    BY <1>9 DEF SetReason, StatusUpdate
  <2>2. new.label = nm[cur].label /\ new.finalizer = nm[cur].finalizer /\ new.life = nm[cur].life
    BY <1>00 DEF Object
  <2>3. nm[cur].label => nm[cur].finalizer
    BY <1>00 DEF ReleaseOK, LabelRel
  <2> HIDE DEF new
  <2> QED
    BY <1>0, <1>00, <2>1, <2>2, <2>3, ReleaseWrite
<1>10. HandleFinalizerRemoval(obj) \in {"idle", "removeFinalizer"}
  BY DEF HandleFinalizerRemoval
<1>11. CASE GetPausedPool
  <2> DEFINE k == IF mcpCache[q].annotated THEN "listUsers" ELSE HandleFinalizerRemoval(obj)
  <2>1. pc = "getPausedPool" /\ mcpCache[q].annotated = mcp[q].annotated /\ (Read(k) \/ CallFails)
    BY <1>00, <1>11 DEF GetPausedPool, PoolOK, Waits
  <2>2. k \in {"listUsers", "idle", "removeFinalizer"} /\ (k = "removeFinalizer" => ~mcp[q].annotated)
    BY <1>10, <2>1
  <2> HIDE DEF k
  <2> QED
    BY <2>1, <2>2, ReleaseRead
<1>12. CASE ListUsers
  <2> DEFINE k == IF MCPUsedByOtherNodeMaintenance(cur) THEN HandleFinalizerRemoval(obj) ELSE "unpause"
  <2>1. pc = "listUsers" /\ (Read(k) \/ CallFails)
    BY <1>12 DEF ListUsers
  <2>2. ASSUME MCPUsedByOtherNodeMaintenance(cur)
        PROVE  \E x \in NM \ {cur} : Shown(x) /\ MCPName(x) = q
    <3>1. PICK x \in NM \ {cur} : nmCache[x].label /\ MCPName(x) = q
      BY <2>2 DEF MCPUsedByOtherNodeMaintenance
    <3>2. nm[x].label /\ nm[x].finalizer /\ CacheOK(x)
      BY <1>0, <1>00, <3>1 DEF ReleaseOK, StepRel, LabelRel, ObjectInv
    <3>3. Shown(x)
      BY <3>2 DEF Shown, CacheOK, ShapeOK, Live
    <3> QED
      BY <3>1, <3>3
  <2>3. k \in {"unpause", "idle", "removeFinalizer"}
        /\ (k = "removeFinalizer" => MCPUsedByOtherNodeMaintenance(cur))
    BY <1>10
  <2> HIDE DEF k
  <2> QED
    BY <2>1, <2>2, <2>3, ReleaseRead
<1>13. CASE Unpause
  BY <1>0, <1>00, <1>13, ReleasePatch DEF Unpause, Waits
<1>14. CASE WaitForUnpaused
  <2>1. pc = "waitUnpaused" /\ ~mcp[q].annotated /\ (Read(HandleFinalizerRemoval(obj)) \/ CallFails)
    BY <1>00, <1>14 DEF WaitForUnpaused, WaitForRelease, StepOK, NotAnnotated
  <2> QED
    BY <1>10, <2>1, ReleaseRead
<1>15. CASE RemoveFinalizer
  <2>1. /\ nm[cur].deleting /\ pc = "removeFinalizer" /\ Write(Gone, "idle")
    BY <1>15 DEF RemoveFinalizer, ReleaseOK, StepRel
  <2>2. UNCHANGED <<nmCache, mcp, nodes>> /\ pc' = "idle" /\ nm' \in {nm, [nm EXCEPT ![cur] = Gone]}
    BY <2>1 DEF Write, Stored, Done, Requeue, Idle, poolVars
  <2>3. \A x \in NM : nm'[x] = nm[x] \/ (x = cur /\ nm'[x] = Gone)
    BY <1>00, <2>2
  <2>4. LabelRel'
    BY <2>3, Constants DEF ReleaseOK, LabelRel
  <2>5. \A x \in NM \ {cur} : Shown(x) => Shown(x)'
    BY <2>3 DEF Shown, Live
  <2>6. ASSUME NEW p \in Pool, mcp[p].annotated
        PROVE  \E x \in NM \ {cur} : Shown(x) /\ MCPName(x) = p
    BY <2>1, <2>6 DEF ReleaseOK, PoolRel, StepRel
  <2>7. PoolRel'
    BY <2>2, <2>5, <2>6 DEF PoolRel, MCPName
  <2> QED
    BY <2>2, <2>4, <2>7 DEF ReleaseOK, StepRel
<1> QED
  BY <1>1, <1>2, <1>3, <1>4, <1>5, <1>6, <1>7, <1>8, <1>9, <1>11, <1>12, <1>13, <1>14, <1>15 DEF Call

\* A write of someone else: a user of a pool stays one.
LEMMA ReleaseOther ==
  ASSUME TypeOK, ObjectInv, ReleaseOK, NEW x \in NM, NEW new, OtherWrite(x, new),
         nm[x].label = new.label, nm[x].finalizer = new.finalizer,
         nm[x].label => new.life = nm[x].life, nm[x].deleting => new.deleting
  PROVE  ReleaseOK'
<1>1. /\ UNCHANGED <<nmCache, mcp, nodes, pc, cur, obj>> /\ objFresh' = (objFresh /\ cur # x)
      /\ \A y \in NM : nm'[y] = nm[y] \/ (y = x /\ nm'[y] = new)
  BY DEF OtherWrite, poolVars, TypeOK
<1>2. /\ \A y \in NM : /\ nm'[y].label = nm[y].label /\ nm'[y].finalizer = nm[y].finalizer
                       /\ (nm[y].deleting => nm'[y].deleting) /\ (Shown(y) => Shown(y)')
  BY <1>1 DEF Shown, Live
<1>3. LabelRel'
  BY <1>2 DEF ReleaseOK, LabelRel
<1>4. StepRel'
  BY <1>1, <1>2 DEF ReleaseOK, StepRel, ObjectInv, CopyOK, MCPName
<1>5. PoolRel'
  BY <1>1, <1>2, KeepShown DEF ReleaseOK
<1> QED
  BY <1>1, <1>3, <1>4, <1>5 DEF ReleaseOK

LEMMA ReleaseNext ==
  ASSUME IInv, PoolCacheTrusted, env \cap {"nmLag", "nodeGone"} = {}, ReleaseOK, [Next]_vars
  PROVE  ReleaseOK'
<1>0. TypeOK /\ ObjectInv /\ ObjType /\ PoolType
  BY Types DEF IInv
<1>1. CASE Call
  BY <1>1, CallRelease
<1>2. ASSUME NEW x \in NM, Reconcile(x)
      PROVE  ReleaseOK'
  <2>1. UNCHANGED <<nm, nmCache, mcp, nodes>>
    BY <1>2 DEF Reconcile, objVars, poolVars
  <2>2. /\ \A y \in NM : nmFresh[y] /\ nmCache[y] = nm[y] /\ (nm[y].label => nm[y].finalizer)
        /\ NodeName[x] \in nodes
    BY <1>0, <1>2, Names DEF Reconcile, InformersCaughtUp, ObjectInv, CacheOK, ReleaseOK, LabelRel
  <2>3. CASE pc' = "idle"
    BY <2>1, <2>3, ReleaseQuiet DEF StepRel
  <2>4. CASE pc' # "idle"
    <3>1. /\ cur' = x /\ obj' = nmCache[x]
          /\ \/ pc' = "getPausedPool" /\ nmCache[x].deleting
             \/ pc' = StartPause(nmCache[x])
      BY <1>2, <2>2, <2>4 DEF Reconcile, procVars
    <3>2. \/ pc' = "getPausedPool" /\ nm[x].deleting
          \/ pc' = "addFinalizer" /\ ~nmCache[x].label
          \/ pc' = "setLabel" /\ nm[x].finalizer
          \/ pc' = "getPool" /\ nm[x].label
      BY <2>2, <3>1 DEF StartPause
    <3>3. StepRel'
      BY <2>1, <2>2, <3>1, <3>2 DEF StepRel, Pausing, Unpausing
    <3> QED
      BY <2>1, <3>3, ReleaseQuiet
  <2> QED
    BY <2>3, <2>4
<1>3. ASSUME NEW x \in NM, Schedule(x)
      PROVE  ReleaseOK'
  <2> DEFINE new == [Unborn EXCEPT !.life = "live"]
  <2>1. ~new.label /\ ~new.finalizer /\ OtherWrite(x, new) /\ nm[x].life = "unborn" /\ new \in Object
    BY <1>3 DEF Schedule, Unborn, Object
  <2>2. CacheOK(x) /\ nm[x] \in Object
    BY <1>0 DEF ObjectInv, ObjType
  <2>3. ~nm[x].label /\ ~nm[x].finalizer /\ ~nm[x].deleting
    BY <2>1, <2>2 DEF CacheOK, ShapeOK
  <2>4. nm[x].label = new.label /\ nm[x].finalizer = new.finalizer
    BY <2>1, <2>2, <2>3 DEF Object
  <2> HIDE DEF new
  <2> QED
    BY <1>0, <2>1, <2>3, <2>4, ReleaseOther
<1>4. ASSUME NEW x \in NM, Delete(x)
      PROVE  ReleaseOK'
  <2>1. nm[x] \in Object /\ ~nm[x].deleting
    BY <1>0, <1>4 DEF ObjType, Delete
  <2>2. CASE nm[x].finalizer
    <3> DEFINE new == [nm[x] EXCEPT !.deleting = TRUE]
    <3>1. /\ new.label = nm[x].label /\ new.finalizer = nm[x].finalizer /\ new.life = nm[x].life
          /\ OtherWrite(x, new)
      BY <1>4, <2>1, <2>2 DEF Delete, Object
    <3> HIDE DEF new
    <3> QED
      BY <1>0, <2>1, <3>1, ReleaseOther
  <2>3. CASE ~nm[x].finalizer
    <3>1. OtherWrite(x, Gone) /\ ~nm[x].label
      BY <1>4, <2>3 DEF Delete, ReleaseOK, LabelRel
    <3>2. Gone.label = nm[x].label /\ Gone.finalizer = nm[x].finalizer
      BY <2>1, <2>3, <3>1, Constants DEF Object
    <3> QED
      BY <1>0, <2>1, <3>1, <3>2, ReleaseOther
  <2> QED
    BY <2>2, <2>3
<1>5. CASE SyncNodeMaintenances
  <2>1. nmCache' = nm /\ UNCHANGED <<nm, mcp, nodes, pc, cur, obj, objFresh>>
    BY <1>5 DEF SyncNodeMaintenances, poolVars, procVars
  <2>2. \A x \in NM : Shown(x)' = Shown(x)
    BY <2>1 DEF Shown, Live
  <2>3. StepRel'
    BY <2>1, <2>2 DEF ReleaseOK, StepRel, MCPName
  <2>4. LabelRel' /\ PoolRel'
    BY <2>1, <2>2, KeepShown DEF ReleaseOK, LabelRel
  <2> QED
    BY <2>1, <2>3, <2>4 DEF ReleaseOK
<1>6. CASE Restart
  <2>1. UNCHANGED <<nm, mcp, nodes>> /\ pc' = "idle"
    BY <1>6 DEF Restart, Idle
  <2>2. \A x \in NM : Shown(x)' = Shown(x)
    BY <2>1 DEF Shown, Live
  <2>3. LabelRel' /\ PoolRel' /\ StepRel'
    BY <2>1, <2>2, KeepShown DEF ReleaseOK, LabelRel, StepRel
  <2> QED
    BY <2>1, <2>3 DEF ReleaseOK
<1>7. ASSUME UNCHANGED <<nm, nmCache, nodes, pc, cur, obj, objFresh>>,
             \A p \in Pool : mcp'[p].annotated = mcp[p].annotated
      PROVE  ReleaseOK'
  <2>1. \A x \in NM : Shown(x)' = Shown(x)
    BY <1>7 DEF Shown, Live
  <2>2. StepRel'
    BY <1>0, <1>7, <2>1, Names DEF ReleaseOK, StepRel, MCPName, ObjectInv, CopyOK
  <2> QED
    BY <1>7, <2>2, ReleaseQuiet
<1>8. ASSUME NEW r \in Pool,
             Render(r) \/ StartRollout(r) \/ FinishRollout(r) \/ AdminPause(r) \/ AdminUnpause(r)
      PROVE  ReleaseOK'
  <2>1. UNCHANGED <<nm, nmCache, nodes, pc, cur, obj, objFresh>>
    BY <1>8 DEF Render, StartRollout, FinishRollout, AdminPause, AdminUnpause, objVars, procVars
  <2>2. mcp' \in {mcp, [mcp EXCEPT ![r].changing = TRUE], [mcp EXCEPT ![r].changing = FALSE],
                  [mcp EXCEPT ![r].paused = TRUE], [mcp EXCEPT ![r].paused = FALSE]}
    BY <1>8 DEF Render, StartRollout, FinishRollout, AdminPause, AdminUnpause
  <2>3. \A p \in Pool : mcp'[p].annotated = mcp[p].annotated
    BY <1>0, <2>2, SMT DEF PoolType, PoolObject
  <2> QED
    BY <1>7, <2>1, <2>3
<1>9. CASE SyncPools \/ UNCHANGED vars
  BY <1>7, <1>9 DEF SyncPools, vars, objVars, procVars
<1>10. \A n \in Node : ~RemoveNode(n)
  BY DEF RemoveNode
<1> QED
  BY <1>1, <1>2, <1>3, <1>4, <1>5, <1>6, <1>8, <1>9, <1>10 DEF Next

\* The last user of a pool releases it: as long as a pool is marked as paused by
\* the operator there is a labelled maintenance whose clean-up will look at it,
\* when mcpUsedByOtherNodeMaintenance reads a list that was current at the start of
\* the reconcile and no node is removed.
THEOREM LastUserReleases == Spec => []PoolReleased
<1>1. Init => ReleaseInv
  <2> SUFFICES ASSUME Init
               PROVE  nodes = Node /\ LabelRel /\ StepRel /\ PoolRel
    BY DEF ReleaseInv, ReleaseOK
  <2>1. \A x \in NM : ~nm[x].label
    BY DEF Init, Unborn
  <2>2. \A p \in Pool : ~mcp[p].annotated
    BY DEF Init, NewPool
  <2> QED
    BY <2>1, <2>2 DEF Init, LabelRel, StepRel, PoolRel
<1>2. IInv /\ ReleaseInv /\ [Next]_vars => ReleaseInv'
  <2> SUFFICES ASSUME IInv, ReleaseInv, [Next]_vars, PoolCacheTrusted,
                      env \cap {"nmLag", "nodeGone"} = {}
               PROVE  ReleaseOK'
    BY EnvFixed DEF ReleaseInv, PoolCacheTrusted
  <2> QED
    BY ReleaseNext DEF ReleaseInv
<1>3. ReleaseInv => PoolReleased
  BY DEF ReleaseInv, ReleaseOK, PoolRel, Shown, PoolReleased
<1> QED
  BY <1>1, <1>2, <1>3, Invariance, PTL DEF Spec
=============================================================================
