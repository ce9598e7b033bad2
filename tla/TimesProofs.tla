---------------------------- MODULE TimesProofs ----------------------------
(***************************************************************************)
(* No deadline is cut short by more than the fraction of a second that an  *)
(* RFC 3339 time drops, for every length of a second, every time-out and   *)
(* limit, and any number of maintenances.                                  *)
(*                                                                         *)
(* The annotation is never a second or more before the time at which it    *)
(* was set (StampOK); a reconcile whose copy is still current knows that   *)
(* start (CopyOK), and the collector a ready-time of each object it has    *)
(* listed (ListOK).                                                        *)
(***************************************************************************)
EXTENDS MaintenanceTimes, TLAPS

StampOK(o) ==
  /\ o.reason = "Wait" /\ o.waitStart \in Nat => o.waitStart + Second > o.since
  /\ o.readyTime \in Nat => o.reason = "Ready" /\ o.readyTime + Second > o.since

CopyOK ==
  /\ pc # "idle" => cur \in NM
  /\ pc # "idle" /\ fresh => nm[cur].reason = "Wait" /\ start + Second > nm[cur].since

ListOK(x) ==
  x \in todo =>
    /\ list[x].readyTime # Absent
    /\ list[x].readyTime \in Nat =>
         /\ list[x].readyTime + Second > list[x].since
         /\ nm[x].life # "unborn" /\ (Live(x) => nm[x].reason = "Ready")

IInv ==
  /\ TypeOK /\ CopyOK
  /\ \A x \in NM : StampOK(nm[x]) /\ ListOK(x)
  /\ gc = "loop" => time <= now

\* RFC 3339 drops less than a second.
LEMMA Truncation ==
  ASSUME NEW t \in Nat
  PROVE  RFC3339(t) \in Nat /\ RFC3339(t) <= t /\ RFC3339(t) + Second > t
<1>1. t % Second \in 0..(Second - 1)
  BY SecondAssumption
<1>2. t % Second <= t
  BY SecondAssumption
<1> QED
  BY <1>1, <1>2, SecondAssumption DEF RFC3339

LEMMA UnbornOK == Unborn \in Object /\ Gone \in Object /\ StampOK(Unborn) /\ StampOK(Gone)
<1>1. Absent \in Stamp /\ Absent \notin Nat /\ Invalid \notin Nat /\ Invalid \in Stamp
  BY DEF Absent, Invalid, Stamp
<1>2. Unborn \in Object
  BY <1>1 DEF Unborn, Object
<1>3. Gone \in Object
  BY <1>2 DEF Gone, Object
<1>4. /\ Unborn.readyTime = Absent /\ Unborn.waitStart = Absent
      /\ Gone.readyTime = Absent /\ Gone.waitStart = Absent
  BY DEF Unborn, Gone
<1> QED
  BY <1>1, <1>2, <1>3, <1>4 DEF StampOK

LEMMA ItemType ==
  ASSUME NEW o \in Object
  PROVE  /\ ItemOf(o) \in Item /\ ItemOf(o).readyTime = o.readyTime
         /\ ItemOf(o).since = o.since
BY DEF ItemOf, Item, Object

LEMMA InitIInv == Init => IInv
<1> SUFFICES ASSUME Init
             PROVE  IInv
  OBVIOUS
<1>1. TypeOK
  <2>1. NoList \in [NM -> Item] /\ nm \in [NM -> Object]
    BY UnbornOK, ItemType DEF NoList, Init
  <2>2. NewGarbageCollectorOptions \in [pending : Limits, max : Limits]
    BY LimitsAssumption DEF NewGarbageCollectorOptions
  <2>3. 0 \in 0..MaxClock /\ 0 \in 0..MaxEdits /\ 0 \in 0..MaxFaults
    BY BoundsAssumption
  <2> QED
    BY <2>1, <2>2, <2>3, Zenon DEF Init, TypeOK
<1> QED
  BY <1>1, UnbornOK DEF Init, IInv, CopyOK, ListOK

-----------------------------------------------------------------------------
\* A write of an object, by anyone.
Allowed(x, new) ==
  /\ new \in Object /\ StampOK(new)
  /\ new.life = "unborn" => nm[x].life = "unborn"
  /\ new.life = "live" => \/ nm[x].life = "unborn"
                          \/ Live(x) /\ (nm[x].reason = "Ready" => new.reason = "Ready")

LEMMA ObjectsOK ==
  ASSUME IInv, NEW x \in NM, NEW new, Allowed(x, new), nm' \in {nm, [nm EXCEPT ![x] = new]},
         todo' \subseteq todo, todo' = {} \/ list' = list
  PROVE  nm' \in [NM -> Object] /\ \A y \in NM : StampOK(nm[y])' /\ ListOK(y)'
<1>1. nm \in [NM -> Object] /\ \A y \in NM : StampOK(nm[y]) /\ ListOK(y)
  BY DEF IInv, TypeOK
<1>2. \A y \in NM : nm'[y] = nm[y] \/ (y = x /\ nm'[y] = new)
  BY <1>1
<1>3. nm' \in [NM -> Object] /\ \A y \in NM : StampOK(nm'[y])
  BY <1>1, <1>2 DEF Allowed
<1>4. ASSUME NEW y \in NM
      PROVE  ListOK(y)'
  BY <1>1, <1>2 DEF ListOK, Allowed, Live
<1> QED
  BY <1>3, <1>4 DEF StampOK

\* The reconciler's writes: set the start of a wait or the ready-time, reset an
\* annotation, move on.
LEMMA StampAllowed ==
  ASSUME IInv, NEW x \in NM, Live(x)
  PROVE  /\ nm[x].reason = "Wait"
              => Allowed(x, [nm[x] EXCEPT !.waitStart = RFC3339(now), !.since = now])
         /\ nm[x].reason = "Ready"
              => Allowed(x, [nm[x] EXCEPT !.readyTime = RFC3339(now), !.since = now])
         /\ nm[x].reason = "Wait" => Allowed(x, [nm[x] EXCEPT !.reason = "Draining"])
         /\ nm[x].reason = "Draining" => Allowed(x, [nm[x] EXCEPT !.reason = "Ready"])
         /\ \A s \in {Absent, Invalid} : /\ Allowed(x, [nm[x] EXCEPT !.waitStart = s])
                                         /\ Allowed(x, [nm[x] EXCEPT !.readyTime = s])
         /\ \A b \in BOOLEAN : /\ Allowed(x, [nm[x] EXCEPT !.ignore = b])
                               /\ Allowed(x, [nm[x] EXCEPT !.deleting = b])
<1>1. nm[x] \in Object /\ StampOK(nm[x]) /\ nm[x].life = "live" /\ now \in Nat
  BY BoundsAssumption DEF IInv, TypeOK, Live
<1>2. /\ RFC3339(now) \in Nat /\ RFC3339(now) + Second > now /\ RFC3339(now) \in Stamp
  BY <1>1, Truncation DEF Stamp
<1>3. \A s \in {Absent, Invalid} : s \in Stamp /\ s \notin Nat
  BY DEF Absent, Invalid, Stamp
<1>4. nm[x].reason # "Ready" => nm[x].readyTime \notin Nat
  BY <1>1 DEF StampOK
<1>5. nm[x].reason = "Wait"
        => Allowed(x, [nm[x] EXCEPT !.waitStart = RFC3339(now), !.since = now])
  BY <1>1, <1>2, <1>4, Zenon DEF Allowed, Object, StampOK, Live
<1>6. nm[x].reason = "Ready"
        => Allowed(x, [nm[x] EXCEPT !.readyTime = RFC3339(now), !.since = now])
  BY <1>1, <1>2, Zenon DEF Allowed, Object, StampOK, Live
<1>7. nm[x].reason = "Wait" => Allowed(x, [nm[x] EXCEPT !.reason = "Draining"])
  BY <1>1, <1>4 DEF Allowed, Object, StampOK, Live
<1>8. nm[x].reason = "Draining" => Allowed(x, [nm[x] EXCEPT !.reason = "Ready"])
  BY <1>1, <1>4 DEF Allowed, Object, StampOK, Live
<1>9. ASSUME NEW s \in {Absent, Invalid}
      PROVE  /\ Allowed(x, [nm[x] EXCEPT !.waitStart = s])
             /\ Allowed(x, [nm[x] EXCEPT !.readyTime = s])
  BY <1>1, <1>3 DEF Allowed, Object, StampOK, Live
<1>10. ASSUME NEW b \in BOOLEAN
       PROVE  /\ Allowed(x, [nm[x] EXCEPT !.ignore = b])
              /\ Allowed(x, [nm[x] EXCEPT !.deleting = b])
  BY <1>1 DEF Allowed, Object, StampOK, Live
<1> QED
  BY <1>5, <1>6, <1>7, <1>8, <1>9, <1>10

\* The reconcile in progress keeps what it knows when someone else writes.
LEMMA OtherWriteOK ==
  ASSUME IInv, NEW x \in NM, NEW new, Allowed(x, new), OtherWrite(x, new), todo' \subseteq todo,
         list' = list
  PROVE  /\ nm' \in [NM -> Object] /\ \A y \in NM : StampOK(nm[y])' /\ ListOK(y)'
         /\ CopyOK' /\ fresh' \in BOOLEAN /\ UNCHANGED <<pc, cur, start>>
<1>1. nm' \in [NM -> Object] /\ \A y \in NM : StampOK(nm[y])' /\ ListOK(y)'
  BY ObjectsOK, Zenon DEF OtherWrite
<1>2. CopyOK'
  BY Zenon DEF CopyOK, OtherWrite, IInv, TypeOK
<1> QED
  BY <1>1, <1>2 DEF OtherWrite

\* What a step leaves alone of the types, by the group of variables it writes.
Rest == /\ now \in 0..MaxClock /\ config \in Limits /\ opts \in [pending : Limits, max : Limits]
        /\ edits \in 0..MaxEdits
GcOK == /\ gc \in {"idle", "listed", "loop"} /\ list \in [NM -> Item] /\ time \in Nat
        /\ todo \subseteq NM /\ (gc = "loop" => time <= now)
ProcOK == /\ pc \in {"idle", "expire", "list"} /\ cur \in NM \cup {Nil} /\ start \in Nat
          /\ fresh \in BOOLEAN /\ CopyOK
ObjOK == nm \in [NM -> Object] /\ \A y \in NM : StampOK(nm[y]) /\ ListOK(y)

LEMMA Parts == IInv <=> /\ Rest /\ GcOK /\ ProcOK /\ ObjOK
                        /\ pods \subseteq NM /\ faults \in 0..MaxFaults
BY DEF IInv, TypeOK, Rest, GcOK, ProcOK, ObjOK

LEMMA FaultType == ASSUME faults \in 0..MaxFaults, Fault PROVE faults' \in 0..MaxFaults
BY BoundsAssumption DEF Fault

LEMMA EditType == ASSUME edits \in 0..MaxEdits, Edit PROVE edits' \in 0..MaxEdits
BY BoundsAssumption DEF Edit

LEMMA IdleOK == ASSUME Idle PROVE ProcOK'
BY Zenon DEF Idle, ProcOK, CopyOK

LEMMA PartsNext == (Rest /\ GcOK /\ ProcOK /\ ObjOK)' /\ (pods \subseteq NM)'
                     /\ (faults \in 0..MaxFaults)' => IInv'
BY DEF IInv, TypeOK, Rest, GcOK, ProcOK, ObjOK

\* A write of the reconciler, whether or not it fails.
LEMMA UpdateOK ==
  ASSUME IInv, NEW x \in NM, NEW new, Allowed(x, new), nm' \in {nm, [nm EXCEPT ![x] = new]},
         ProcOK', Fault \/ UNCHANGED faults, pods' \subseteq pods,
         UNCHANGED <<now, config, gcVars, edits>>
  PROVE  IInv'
<1>1. UNCHANGED <<todo, list>>
  BY DEF gcVars
<1>2. ObjOK'
  BY <1>1, ObjectsOK DEF ObjOK
<1>4. (faults \in 0..MaxFaults)'
  BY Parts, FaultType
<1>5. Rest' /\ GcOK' /\ (pods \subseteq NM)'
  BY Parts DEF Rest, GcOK, gcVars
<1> QED
  BY <1>2, <1>4, <1>5, PartsNext

\* A write of someone else.
LEMMA OthersOK ==
  ASSUME IInv, NEW x \in NM, NEW new, Allowed(x, new), OtherWrite(x, new),
         UNCHANGED <<now, pods, config, opts, gc, list, time>>, todo' \subseteq todo,
         Fault \/ UNCHANGED faults, Edit \/ UNCHANGED edits
  PROVE  IInv'
<1>1. ObjOK' /\ CopyOK' /\ (fresh \in BOOLEAN)' /\ UNCHANGED <<pc, cur, start>>
  BY OtherWriteOK DEF ObjOK
<1>2. ProcOK'
  BY <1>1, Parts DEF ProcOK
<1>3. (faults \in 0..MaxFaults)'
  BY Parts, FaultType
<1>4. Rest'
  BY Parts, EditType DEF Rest
<1>5. GcOK' /\ (pods \subseteq NM)'
  BY Parts DEF GcOK
<1> QED
  BY <1>1, <1>2, <1>3, <1>4, <1>5, PartsNext

\* A step that leaves the objects and the reconcile in progress alone.
LEMMA QuietOK ==
  ASSUME IInv, UNCHANGED <<nm, procVars>>, Rest', GcOK', pods' \subseteq pods,
         todo' = {} \/ UNCHANGED <<todo, list>> \/ \A y \in NM : ListOK(y)',
         Fault \/ UNCHANGED faults
  PROVE  IInv'
<1>1. ProcOK'
  BY Parts DEF ProcOK, CopyOK, procVars
<1>2. ASSUME NEW y \in NM PROVE ListOK(y)'
  BY DEF ListOK, Live, IInv
<1>3. \A y \in NM : StampOK(nm[y])'
  BY DEF StampOK, IInv
<1>4. ObjOK'
  BY <1>2, <1>3, Parts DEF ObjOK
<1>5. (faults \in 0..MaxFaults)' /\ (pods \subseteq NM)'
  BY Parts, FaultType
<1> QED
  BY <1>1, <1>4, <1>5, PartsNext

-----------------------------------------------------------------------------
LEMMA MoveOnOK ==
  ASSUME IInv, pc # "idle", MoveOn, UNCHANGED <<now, pods, config, gcVars, edits>>
  PROVE  IInv'
<1>1. cur \in NM /\ ProcOK'
  BY IdleOK DEF MoveOn, Update, IInv, CopyOK
<1>2. CASE ~fresh
  <2>1. UNCHANGED nm /\ UNCHANGED faults
    BY <1>2 DEF MoveOn
  <2>2. ObjOK'
    BY <2>1, Parts DEF ObjOK, StampOK, ListOK, Live, gcVars
  <2>3. Rest' /\ GcOK' /\ (pods \subseteq NM)' /\ (faults \in 0..MaxFaults)'
    BY <2>1, Parts DEF Rest, GcOK, gcVars
  <2> QED
    BY <1>1, <2>2, <2>3, PartsNext
<1>3. CASE fresh
  <2>1. nm[cur].reason = "Wait"
    BY <1>3 DEF IInv, CopyOK
  <2>2. nm' \in {nm, [nm EXCEPT ![cur] = [nm[cur] EXCEPT !.reason = "Draining"]]}
        /\ (Fault \/ UNCHANGED faults)
    BY <1>3 DEF MoveOn, Update
  <2>3. CASE Live(cur)
    <3>1. Allowed(cur, [nm[cur] EXCEPT !.reason = "Draining"])
      BY <1>1, <2>1, <2>3, StampAllowed, Zenon
    <3> QED
      BY <1>1, <2>2, <3>1, UpdateOK
  <2>4. CASE ~Live(cur)
    <3>1. nm[cur] \in Object /\ StampOK(nm[cur])
      BY <1>1 DEF IInv, TypeOK
    <3>2. Allowed(cur, [nm[cur] EXCEPT !.reason = "Draining"])
      BY <2>1, <2>4, <3>1 DEF Allowed, Object, StampOK, Live
    <3> QED
      BY <1>1, <2>2, <3>2, UpdateOK
  <2> QED
    BY <2>3, <2>4
<1> QED
  BY <1>2, <1>3, Parts DEF ProcOK

LEMMA HandleOK ==
  ASSUME IInv, NEW x \in NM, Handle(x)
  PROVE  IInv'
<1>1. CASE MarkWaitStart(x)
  <2> DEFINE new == [nm[x] EXCEPT !.waitStart = RFC3339(now), !.since = now]
  <2>1. Live(x) /\ nm[x].reason = "Wait" /\ nm[x] \in Object /\ now \in Nat
    BY <1>1, BoundsAssumption DEF MarkWaitStart, Waiting, IInv, TypeOK
  <2>2. Allowed(x, new)
    BY <2>1, StampAllowed, Zenon
  <2>3. nm' \in {nm, [nm EXCEPT ![x] = new]} /\ (Fault \/ UNCHANGED faults)
    BY <1>1 DEF MarkWaitStart, Update
  <2>4. ASSUME nm' = [nm EXCEPT ![x] = new], Begin(x, "expire", now)
        PROVE  ProcOK'
    <3>1. nm'[x] = new
      BY <2>4 DEF IInv, TypeOK
    <3>2. new.reason = "Wait" /\ new.since = now
      BY <2>1 DEF Object
    <3>3. now + Second > now
      BY <2>1, SecondAssumption
    <3> HIDE DEF new
    <3> QED
      BY <2>1, <2>4, <3>1, <3>2, <3>3 DEF ProcOK, CopyOK, Begin
  <2>5. ProcOK'
    BY <1>1, <2>4, IdleOK DEF MarkWaitStart, Update
  <2> HIDE DEF new
  <2> QED
    BY <1>1, <2>2, <2>3, <2>5, UpdateOK DEF MarkWaitStart
<1>2. CASE ReadWaitStart(x)
  <2>1. Live(x) /\ nm[x].reason = "Wait" /\ nm[x] \in Object /\ StampOK(nm[x])
    BY <1>2 DEF ReadWaitStart, Waiting, IInv, TypeOK
  <2>2. CASE nm[x].waitStart = Invalid
    <3>1. Allowed(x, [nm[x] EXCEPT !.waitStart = Absent])
      BY <2>1, StampAllowed, Zenon
    <3>2. /\ nm' \in {nm, [nm EXCEPT ![x] = [nm[x] EXCEPT !.waitStart = Absent]]}
          /\ Fault \/ UNCHANGED faults
          /\ Idle
      BY <1>2, <2>2 DEF ReadWaitStart, Update
    <3> QED
      BY <1>2, <3>1, <3>2, IdleOK, UpdateOK DEF ReadWaitStart
  <2>3. CASE nm[x].waitStart # Invalid
    <3>1. /\ nm[x].waitStart \notin {Absent, Invalid} /\ Begin(x, "expire", nm[x].waitStart)
          /\ UNCHANGED <<now, nm, faults, pods, config, gcVars, edits>>
      BY <1>2, <2>3 DEF ReadWaitStart
    <3>2. nm[x].waitStart \in Nat
      BY <2>1, <3>1 DEF Object, Stamp
    <3>3. ProcOK'
      BY <2>1, <3>1, <3>2 DEF ProcOK, CopyOK, Begin, StampOK
    <3>4. ObjOK'
      BY <3>1, Parts DEF ObjOK, StampOK, ListOK, Live, gcVars
    <3>5. Rest' /\ GcOK' /\ (pods \subseteq NM)' /\ (faults \in 0..MaxFaults)'
      BY <3>1, Parts DEF Rest, GcOK, gcVars
    <3> QED
      BY <3>3, <3>4, <3>5, PartsNext
  <2> QED
    BY <2>2, <2>3
<1>3. CASE Drained(x)
  <2>1. Live(x) /\ nm[x].reason = "Draining" /\ nm[x] \in Object /\ pc = "idle"
    BY <1>3 DEF Drained, IInv, TypeOK
  <2>2. nm' = [nm EXCEPT ![x] = [nm[x] EXCEPT !.reason = "Ready"]]
    BY <1>3 DEF Drained, IInv, TypeOK
  <2>3. Allowed(x, [nm[x] EXCEPT !.reason = "Ready"])
    BY <2>1, StampAllowed, Zenon
  <2>4. ProcOK'
    BY <1>3, <2>1, Parts DEF Drained, ProcOK, CopyOK, procVars
  <2> QED
    BY <1>3, <2>2, <2>3, <2>4, UpdateOK, Zenon DEF Drained
<1>4. CASE MarkReady(x)
  <2> DEFINE new == [nm[x] EXCEPT !.readyTime = RFC3339(now), !.since = now]
  <2>1. Allowed(x, new)
    BY <1>4, StampAllowed, Zenon DEF MarkReady
  <2>2. nm' \in {nm, [nm EXCEPT ![x] = new]} /\ (Fault \/ UNCHANGED faults) /\ Idle
    BY <1>4 DEF MarkReady, Update
  <2> HIDE DEF new
  <2> QED
    BY <1>4, <2>1, <2>2, IdleOK, UpdateOK DEF MarkReady
<1>5. CASE Remove(x)
  <2>1. Gone \in Object /\ StampOK(Gone) /\ Gone.life = "gone"
    BY UnbornOK DEF Gone, Object, StampOK
  <2>2. Allowed(x, Gone)
    BY <2>1 DEF Allowed
  <2>3. ProcOK'
    BY <1>5, Parts DEF Remove, ProcOK, CopyOK, procVars
  <2> QED
    BY <1>5, <2>2, <2>3, UpdateOK, Zenon DEF Remove
<1> QED
  BY <1>1, <1>2, <1>3, <1>4, <1>5 DEF Handle

LEMMA CollectorOK ==
  ASSUME IInv, Collector
  PROVE  IInv'
<1>1. CASE Reconcile
  <2> DEFINE Dated == {x \in NM : Live(x) /\ nm[x].readyTime # Absent}
  <2>1. /\ todo' = Dated /\ UNCHANGED <<nm, procVars, pods, faults>>
        /\ list' = [x \in NM |-> IF x \in Dated THEN ItemOf(nm[x]) ELSE ItemOf(Unborn)]
    BY <1>1 DEF Reconcile, objVars
  <2>2. \A x \in NM : nm[x] \in Object /\ StampOK(nm[x])
    BY Zenon DEF IInv, TypeOK
  <2>3. \A x \in NM : ItemOf(nm[x]) \in Item /\ ItemOf(Unborn) \in Item
    BY <2>2, UnbornOK, ItemType, Zenon
  <2>4. GcOK'
    BY <1>1, <2>1, <2>3, Parts DEF Reconcile, GcOK
  <2>5. Rest'
    BY <1>1, Parts DEF Reconcile, Rest
  <2>6. ASSUME NEW y \in NM PROVE ListOK(y)'
    <3>1. SUFFICES ASSUME y \in Dated PROVE ListOK(y)'
      BY <2>1 DEF ListOK
    <3>2. list'[y] = ItemOf(nm[y]) /\ Live(y) /\ nm[y].readyTime # Absent
      BY <2>1, <3>1
    <3>3. list'[y].readyTime = nm[y].readyTime /\ list'[y].since = nm[y].since
      BY <2>2, <3>2, ItemType
    <3> HIDE DEF Dated
    <3> QED
      BY <2>1, <2>2, <3>2, <3>3 DEF ListOK, StampOK, Live
  <2> HIDE DEF Dated
  <2> QED
    BY <2>1, <2>4, <2>5, <2>6, QuietOK
<1>2. CASE ReadTime
  <2>1. Rest' /\ GcOK'
    BY <1>2, Parts, BoundsAssumption DEF ReadTime, Rest, GcOK
  <2> QED
    BY <1>2, <2>1, QuietOK DEF ReadTime, objVars
<1>3. CASE EndRound
  <2>1. NoList \in [NM -> Item]
    BY UnbornOK, ItemType DEF NoList
  <2>2. Rest' /\ GcOK'
    BY <1>3, <2>1, Parts DEF EndRound, Rest, GcOK
  <2> QED
    BY <1>3, <2>2, QuietOK DEF EndRound, objVars
<1>4. ASSUME NEW x \in NM, Collect(x)
      PROVE  IInv'
  <2>1. UNCHANGED <<now, pods, config, opts, gc, list, time, edits>> /\ todo' \subseteq todo
    BY <1>4 DEF Collect
  <2>2. CASE UNCHANGED <<nm, procVars>> /\ (Fault \/ UNCHANGED faults)
    <3>1. Rest' /\ GcOK'
      BY <2>1, Parts DEF Rest, GcOK
    <3>2. \A y \in NM : ListOK(y)'
      BY <2>1, <2>2 DEF IInv, ListOK, Live
    <3> QED
      BY <2>1, <2>2, <3>1, <3>2, QuietOK
  <2>3. CASE OtherWrite(x, [nm[x] EXCEPT !.deleting = Live(x)]) /\ UNCHANGED faults
    <3>1. nm[x] \in Object /\ StampOK(nm[x]) /\ Live(x) \in BOOLEAN
      BY DEF IInv, TypeOK, Live
    <3>2. Allowed(x, [nm[x] EXCEPT !.deleting = Live(x)])
      BY <3>1, Zenon DEF Allowed, Object, StampOK, Live
    <3> QED
      BY <2>1, <2>3, <3>2, OthersOK
  <2> QED
    BY <1>4, <2>2, <2>3 DEF Collect
<1> QED
  BY <1>1, <1>2, <1>3, <1>4 DEF Collector

LEMMA NextIInv == IInv /\ [Next]_vars => IInv'
<1> SUFFICES ASSUME IInv, [Next]_vars
             PROVE  IInv'
  OBVIOUS
<1>1. CASE Tick
  <2>1. Rest' /\ GcOK'
    BY <1>1, Parts, BoundsAssumption DEF Tick, Rest, GcOK, gcVars
  <2> QED
    BY <1>1, <2>1, QuietOK DEF Tick, objVars, gcVars
<1>2. CASE Expire
  <2>1. CASE MoveOn
    BY <1>2, <2>1, MoveOnOK DEF Expire
  <2>2. CASE pc' = "list" /\ UNCHANGED <<nm, cur, start, fresh, faults>>
    <3>1. ProcOK'
      BY <1>2, <2>2, Parts DEF Expire, ProcOK, CopyOK
    <3>2. ObjOK'
      BY <1>2, <2>2, Parts DEF Expire, ObjOK, StampOK, ListOK, Live, gcVars
    <3>3. Rest' /\ GcOK' /\ (pods \subseteq NM)' /\ (faults \in 0..MaxFaults)'
      BY <1>2, <2>2, Parts DEF Expire, Rest, GcOK, gcVars
    <3> QED
      BY <3>1, <3>2, <3>3, PartsNext
  <2> QED
    BY <1>2, <2>1, <2>2 DEF Expire
<1>3. CASE ListPods
  <2>1. CASE MoveOn
    BY <1>3, <2>1, MoveOnOK DEF ListPods
  <2>2. CASE Idle /\ UNCHANGED <<nm, faults>>
    <3>1. ObjOK'
      BY <1>3, <2>2, Parts DEF ListPods, ObjOK, StampOK, ListOK, Live, gcVars
    <3>2. Rest' /\ GcOK' /\ (pods \subseteq NM)' /\ (faults \in 0..MaxFaults)'
      BY <1>3, <2>2, Parts DEF ListPods, Rest, GcOK, gcVars
    <3> QED
      BY <2>2, <3>1, <3>2, IdleOK, PartsNext
  <2> QED
    BY <1>3, <2>1, <2>2 DEF ListPods
<1>4. CASE StoreOptions
  <2>1. Rest' /\ GcOK'
    BY <1>4, Parts DEF StoreOptions, Rest, GcOK
  <2> QED
    BY <1>4, <2>1, QuietOK DEF StoreOptions, objVars
<1>5. CASE Collector
  BY <1>5, CollectorOK
<1>6. ASSUME NEW x \in NM, Handle(x)
      PROVE  IInv'
  BY <1>6, HandleOK
<1>7. ASSUME NEW x \in NM, PodsComplete(x)
      PROVE  IInv'
  <2>1. Rest' /\ GcOK'
    BY <1>7, Parts DEF PodsComplete, Rest, GcOK, gcVars
  <2> QED
    BY <1>7, <2>1, QuietOK DEF PodsComplete, gcVars
<1>8. ASSUME NEW x \in NM, Create(x)
      PROVE  IInv'
  <2>1. PICK t \in Timeouts : nm' = [nm EXCEPT ![x] = [Unborn EXCEPT !.life = "live", !.timeout = t]]
    BY <1>8, Zenon DEF Create
  <2> DEFINE new == [Unborn EXCEPT !.life = "live", !.timeout = t]
  <2>2. /\ new \in Object /\ new.life = "live" /\ new.reason = "Wait" /\ new.since = 0
        /\ new.waitStart = Absent /\ new.readyTime = Absent
    BY UnbornOK, Zenon DEF Object, Unborn
  <2>3. Absent \notin Nat
    BY DEF Absent
  <2> HIDE DEF new
  <2>4. Allowed(x, new)
    BY <1>8, <2>2, <2>3 DEF Allowed, StampOK, Create
  <2>5. ObjOK'
    BY <1>8, <2>1, <2>4, ObjectsOK, Zenon DEF ObjOK, Create, gcVars, new
  <2>6. \A y \in NM : nm'[y] = nm[y] \/ nm'[y] = new
    BY <2>1 DEF IInv, TypeOK, new
  <2>7. start \in Nat /\ start + Second > 0
    BY Parts, SecondAssumption DEF ProcOK
  <2>8. CopyOK'
    BY <1>8, <2>2, <2>6, <2>7, Parts, Zenon DEF ProcOK, CopyOK, Create, procVars
  <2>9. ProcOK'
    BY <1>8, <2>8, Parts DEF ProcOK, Create, procVars
  <2>10. Rest' /\ GcOK' /\ (pods \subseteq NM)' /\ (faults \in 0..MaxFaults)'
    BY <1>8, Parts DEF Create, Rest, GcOK, gcVars
  <2> QED
    BY <2>5, <2>9, <2>10, PartsNext
<1>9. ASSUME NEW x \in NM, Delete(x)
      PROVE  IInv'
  <2>1. Allowed(x, [nm[x] EXCEPT !.deleting = TRUE])
    BY <1>9, StampAllowed, Zenon DEF Delete
  <2> QED
    BY <1>9, <2>1, OthersOK DEF Delete, gcVars
<1>10. ASSUME NEW x \in NM, EditObject(x)
       PROVE  IInv'
  <2>1. PICK new \in {[nm[x] EXCEPT !.ignore = ~@], [nm[x] EXCEPT !.waitStart = Invalid],
                      [nm[x] EXCEPT !.readyTime = Invalid], [nm[x] EXCEPT !.readyTime = Absent]} :
          OtherWrite(x, new)
    BY <1>10 DEF EditObject
  <2>2. (~nm[x].ignore) \in BOOLEAN
    OBVIOUS
  <2>3. Allowed(x, new)
    BY <1>10, <2>1, <2>2, StampAllowed, Zenon DEF EditObject
  <2> QED
    BY <1>10, <2>1, <2>3, OthersOK DEF EditObject, gcVars
<1>11. CASE EditConfig
  <2>1. Rest'
    BY <1>11, Parts, EditType DEF EditConfig, Rest, gcVars
  <2>2. GcOK'
    BY <1>11, Parts DEF EditConfig, GcOK, gcVars
  <2> QED
    BY <1>11, <2>1, <2>2, QuietOK DEF EditConfig, objVars, gcVars
<1>12. CASE Restart
  <2>1. NoList \in [NM -> Item] /\ NewGarbageCollectorOptions \in [pending : Limits, max : Limits]
    BY UnbornOK, ItemType, LimitsAssumption DEF NoList, NewGarbageCollectorOptions
  <2>2. Rest' /\ GcOK'
    BY <1>12, <2>1, Parts DEF Restart, Rest, GcOK
  <2>3. ObjOK'
    BY <1>12, Parts DEF Restart, objVars, ObjOK, StampOK, ListOK
  <2>4. (pods \subseteq NM)' /\ (faults \in 0..MaxFaults)'
    BY <1>12, Parts, FaultType DEF Restart, objVars
  <2> QED
    BY <1>12, <2>2, <2>3, <2>4, IdleOK, PartsNext DEF Restart
<1>13. CASE UNCHANGED vars
  <2>1. Rest' /\ GcOK'
    BY <1>13, Parts DEF vars, Rest, GcOK
  <2> QED
    BY <1>13, <2>1, QuietOK DEF vars, procVars
<1> QED
  BY <1>1, <1>2, <1>3, <1>4, <1>5, <1>6, <1>7, <1>8, <1>9, <1>10, <1>11, <1>12, <1>13 DEF Next

LEMMA Invariance == Spec => []IInv
BY InitIInv, NextIInv, PTL DEF Spec

\* Every reachable state of the time-keeping code is well typed, with every
\* annotation a user or the operator can write.
THEOREM TypeCorrect == Spec => []TypeOK
<1>1. IInv => TypeOK
  BY DEF IInv
<1> QED
  BY <1>1, Invariance, PTL

-----------------------------------------------------------------------------
\* Who moves a waiting object on: the reconcile that has it in hand.
LEMMA OnlyMoveOn ==
  ASSUME IInv, Next, NEW x \in NM, nm[x].reason = "Wait", nm'[x].reason = "Draining"
  PROVE  x = cur /\ fresh /\ pc # "idle" /\ ((Expire /\ Expired(cur)) \/ (ListPods /\ cur \notin pods))
<1>0. nm \in [NM -> Object] /\ nm[x] \in Object
  BY DEF IInv, TypeOK
<1>1. ~UNCHANGED nm
  BY <1>0
<1>2. ASSUME NEW y \in NM, NEW new, new.reason \in {"Wait", "Ready", nm[y].reason},
             nm' \in {nm, [nm EXCEPT ![y] = new]}
      PROVE  FALSE
  BY <1>0, <1>2
<1>3. ASSUME NEW y \in NM, Handle(y)
      PROVE  FALSE
  <2>0. nm[y] \in Object
    BY <1>0
  <2>1. CASE MarkWaitStart(y)
    <3>1. nm' \in {nm, [nm EXCEPT ![y] = [nm[y] EXCEPT !.waitStart = RFC3339(now), !.since = now]]}
      BY <2>1 DEF MarkWaitStart, Update
    <3>2. [nm[y] EXCEPT !.waitStart = RFC3339(now), !.since = now].reason = nm[y].reason
      BY <2>0 DEF Object
    <3> QED
      BY <1>0, <3>1, <3>2, Zenon
  <2>2. CASE ReadWaitStart(y)
    <3>1. nm' \in {nm, [nm EXCEPT ![y] = [nm[y] EXCEPT !.waitStart = Absent]]}
      BY <2>2 DEF ReadWaitStart, Update
    <3>2. [nm[y] EXCEPT !.waitStart = Absent].reason = nm[y].reason
      BY <2>0 DEF Object
    <3> QED
      BY <1>0, <3>1, <3>2, Zenon
  <2>3. CASE Drained(y)
    BY <1>0, <2>0, <2>3 DEF Drained, Object
  <2>4. CASE MarkReady(y)
    <3>1. nm' \in {nm, [nm EXCEPT ![y] = [nm[y] EXCEPT !.readyTime = RFC3339(now), !.since = now]]}
      BY <2>4 DEF MarkReady, Update
    <3>2. [nm[y] EXCEPT !.readyTime = RFC3339(now), !.since = now].reason = nm[y].reason
      BY <2>0 DEF Object
    <3> QED
      BY <1>0, <3>1, <3>2, Zenon
  <2>5. CASE Remove(y)
    BY <1>2, <2>5 DEF Remove, Gone, Unborn
  <2> QED
    BY <1>3, <2>1, <2>2, <2>3, <2>4, <2>5 DEF Handle
<1>4. ASSUME NEW y \in NM, Create(y)
      PROVE  FALSE
  BY <1>2, <1>4 DEF Create, Unborn
<1>5. ASSUME NEW y \in NM, NEW b \in BOOLEAN,
             nm' = [nm EXCEPT ![y] = [nm[y] EXCEPT !.deleting = b]]
      PROVE  FALSE
  BY <1>0, <1>5 DEF Object
<1>6. ASSUME NEW y \in NM, EditObject(y)
      PROVE  FALSE
  BY <1>0, <1>6 DEF EditObject, OtherWrite, Object
<1>7. ASSUME NEW y \in NM, Delete(y)
      PROVE  FALSE
  BY <1>5, <1>7 DEF Delete, OtherWrite
<1>8. ASSUME NEW y \in NM, Collect(y)
      PROVE  FALSE
  <2>1. Live(y) \in BOOLEAN
    BY DEF Live
  <2> QED
    BY <1>1, <1>5, <1>8, <2>1 DEF Collect, OtherWrite
<1>9. Expire \/ ListPods
  BY <1>1, <1>3, <1>4, <1>6, <1>7, <1>8
     DEF Next, Tick, StoreOptions, Collector, Reconcile, ReadTime, EndRound, PodsComplete, EditConfig,
         Restart, objVars
<1>10. MoveOn /\ pc # "idle" /\ ((Expire /\ Expired(cur)) \/ (ListPods /\ cur \notin pods))
  BY <1>1, <1>9 DEF Expire, ListPods
<1>11. fresh /\ nm' \in {nm, [nm EXCEPT ![cur] = [nm[cur] EXCEPT !.reason = "Draining"]]}
  BY <1>1, <1>10 DEF MoveOn, Update
<1>12. x = cur
  BY <1>0, <1>11
<1> QED
  BY <1>10, <1>11, <1>12

\* HandlePodCompletion gives up the wait for an object's pods only after its
\* time-out, less the fraction of a second that the annotation drops, for every
\* time-out, whatever restarts, conflicts, failed updates and resets of the
\* annotation happen.
THEOREM WaitNeverCutShort == Spec => WaitNotCutShort
<1> DEFINE A == \A x \in NM :
       nm[x].reason = "Wait" /\ nm'[x].reason = "Draining" /\ x \in pods
       => nm[x].timeout > 0 /\ now + Second > nm[x].since + nm[x].timeout * Second
<1>1. ASSUME IInv, Next PROVE A
  <2> SUFFICES ASSUME NEW x \in NM, nm[x].reason = "Wait", nm'[x].reason = "Draining", x \in pods
               PROVE  nm[x].timeout > 0 /\ now + Second > nm[x].since + nm[x].timeout * Second
    OBVIOUS
  <2>1. x = cur /\ fresh /\ pc # "idle" /\ Expired(x)
    BY <1>1, OnlyMoveOn
  <2>2. nm[x].timeout > 0 /\ now > start + nm[x].timeout * Second
    BY <2>1 DEF Expired
  <2>3. start + Second > nm[x].since
    BY <1>1, <2>1 DEF IInv, CopyOK
  <2>4. nm[x] \in Object /\ start \in Nat /\ now \in Nat
    BY <1>1, BoundsAssumption DEF IInv, TypeOK
  <2>5. nm[x].timeout \in Nat /\ nm[x].since \in Nat
    <3>1. nm[x].timeout \in Timeouts \cup {0} /\ nm[x].since \in Nat
      BY <2>4 DEF Object
    <3>2. Timeouts \cup {0} \subseteq Nat
      BY TimeoutsAssumption
    <3> QED
      BY <3>1, <3>2
  <2>6. PICK d \in Nat : d = nm[x].timeout * Second
    BY <2>5, SecondAssumption
  <2>7. now + Second > nm[x].since + d
    BY <2>2, <2>3, <2>4, <2>5, <2>6, SecondAssumption
  <2> QED
    BY <2>2, <2>6, <2>7
<1>2. IInv /\ [Next]_vars => [A]_vars
  BY <1>1
<1> QED
  BY <1>2, Invariance, PTL DEF Spec, WaitNotCutShort

\* Reconcile of the garbage collector deletes an object of its list only if it is
\* ready, not protected, and was for longer than the limit loaded, less that
\* fraction of a second, whatever happens between its calls.
THEOREM CollectsOnlyStale == Spec => CollectedOnlyWhenStale
<1> DEFINE A == \A x \in todo \ todo' :
       ~nm[x].deleting /\ nm'[x].deleting
       => /\ nm[x].reason = "Ready" /\ ~list[x].ignore
          /\ now + Second > list[x].since + opts.max * Second
<1>1. ASSUME IInv, Next PROVE A
  <2> SUFFICES ASSUME NEW x \in todo, x \notin todo', ~nm[x].deleting, nm'[x].deleting
               PROVE  /\ nm[x].reason = "Ready" /\ ~list[x].ignore
                      /\ now + Second > list[x].since + opts.max * Second
    OBVIOUS
  <2>0. x \in NM /\ nm \in [NM -> Object] /\ list[x] \in Item /\ opts.max \in Limits /\ now \in Nat
    BY <1>1, BoundsAssumption DEF IInv, TypeOK
  <2>1. ~UNCHANGED nm /\ ~UNCHANGED todo
    OBVIOUS
  <2>2. PICK y \in NM : Collect(y)
    BY <1>1, <2>1, Zenon
       DEF Next, Tick, Expire, ListPods, StoreOptions, Collector, Reconcile, ReadTime, EndRound, Handle,
           MarkWaitStart, ReadWaitStart, Drained, MarkReady, Remove, PodsComplete, Create, Delete,
           EditObject, EditConfig, Restart, objVars, gcVars
  <2>3. y = x /\ Due(list[x]) /\ OtherWrite(x, [nm[x] EXCEPT !.deleting = Live(x)]) /\ gc = "loop"
    BY <2>1, <2>2 DEF Collect
  <2>4. Live(x)
    BY <2>0, <2>3 DEF OtherWrite, Object
  <2>5. /\ ~list[x].ignore /\ list[x].readyTime # Invalid
        /\ time > list[x].readyTime + opts.max * Second /\ time <= now /\ time \in Nat
    BY <1>1, <2>3 DEF Due, IInv, TypeOK
  <2>6. list[x].readyTime # Absent
    BY <1>1, <2>0 DEF IInv, ListOK
  <2>7. list[x].readyTime \in Nat /\ list[x].since \in Nat
    BY <2>0, <2>5, <2>6 DEF Item, Stamp
  <2>8. list[x].readyTime + Second > list[x].since /\ nm[x].reason = "Ready"
    BY <1>1, <2>0, <2>4, <2>7 DEF IInv, ListOK
  <2>9. PICK d \in Nat : d = opts.max * Second
    <3>1. opts.max \in Nat /\ Second \in Nat
      BY <2>0, SecondAssumption, LimitsAssumption, Zenon
    <3> QED
      BY <3>1
  <2>10. now + Second > list[x].since + d
    BY <2>0, <2>5, <2>7, <2>8, <2>9, SecondAssumption
  <2> QED
    BY <2>5, <2>8, <2>9, <2>10
<1>2. IInv /\ [Next]_vars => [A]_vars
  BY <1>1
<1> QED
  BY <1>2, Invariance, PTL DEF Spec, CollectedOnlyWhenStale
=============================================================================
