-------------------------- MODULE MaintenanceTimes --------------------------
(***************************************************************************)
(* The two deadlines of a maintenance, by the clock: the time-out of its   *)
(* wait for pods (HandlePodCompletion), and the age at which the garbage   *)
(* collector deletes it once it is ready.                                  *)
(*                                                                         *)
(* Both start times are annotations of the object, written by one          *)
(* reconcile and read by later ones, by the collector, and after a restart *)
(* of the operator.  An annotation is an RFC 3339 text, which drops the    *)
(* fraction of a second; users may edit it.  Time passes between any two   *)
(* calls.  The other conditions of a maintenance are in NodeMaintenance.   *)
(***************************************************************************)
EXTENDS Integers

CONSTANTS NM,         \* names of NodeMaintenance objects
          Second,     \* clock ticks in a second
          Timeouts,   \* values of waitForPodCompletion.timeoutSeconds
          Limits,     \* values of maxNodeMaintenanceTimeSeconds
          Default,    \* defaultMaxNodeMaintenanceTime, in seconds
          Nil,        \* no object
          MaxClock,   \* the clock stops here
          MaxEdits,   \* bound on edits by users
          MaxFaults   \* bound on failed calls and restarts

ASSUME SecondAssumption == Second \in Nat \ {0}
ASSUME TimeoutsAssumption == Timeouts \subseteq Nat
ASSUME LimitsAssumption == Limits \subseteq Nat /\ Default \in Limits
ASSUME NilAssumption == Nil \notin NM
ASSUME BoundsAssumption == {MaxClock, MaxEdits, MaxFaults} \subseteq Nat

VARIABLES
  now,     \* the clock, in ticks
  nm,      \* nm[x]: the object named x
  pods,    \* the objects whose awaited pods are not yet completed
  pc,      \* where the reconcile in progress is
  cur,     \* the object it is about, or Nil
  start,   \* its local startTime
  fresh,   \* whether its copy has the version of the API server
  config,  \* spec.maxNodeMaintenanceTimeSeconds of the configuration
  opts,    \* GarbageCollectorOptions
  gc,      \* where the garbage collector is: "idle", "listed", "loop"
  list,    \* its list of objects
  time,    \* its local timeNow
  todo,    \* the items of its loop still to come
  edits, faults

objVars  == <<nm, pods>>
procVars == <<pc, cur, start, fresh>>
gcVars   == <<opts, gc, list, time, todo>>
vars == <<now, nm, pods, pc, cur, start, fresh, config, opts, gc, list, time, todo, edits, faults>>

-----------------------------------------------------------------------------
(* Objects and their annotations. *)

Absent  == -1  \* an annotation that is not set
Invalid == -2  \* an annotation that does not parse

Stamp == Nat \cup {Absent, Invalid}

\* time.Format and time.Parse with RFC3339: whole seconds.
RFC3339(t) == t - (t % Second)

\* waitStart, readyTime, ignore: the annotations of the object; since: history, when
\* the latest of the two times was set.
Object == [life : {"unborn", "live", "gone"}, deleting : BOOLEAN, reason : {"Wait", "Draining", "Ready"},
           timeout : Timeouts \cup {0}, waitStart : Stamp, readyTime : Stamp, ignore : BOOLEAN,
           since : Nat]

Unborn == [life |-> "unborn", deleting |-> FALSE, reason |-> "Wait", timeout |-> 0,
           waitStart |-> Absent, readyTime |-> Absent, ignore |-> FALSE, since |-> 0]

Gone == [Unborn EXCEPT !.life = "gone"]

Live(x) == nm[x].life = "live"

\* What the collector looks at in an object.
Item == [deleting : BOOLEAN, readyTime : Stamp, ignore : BOOLEAN, since : Nat]

ItemOf(o) == [deleting |-> o.deleting, readyTime |-> o.readyTime, ignore |-> o.ignore,
              since |-> o.since]

NoList == [x \in NM |-> ItemOf(Unborn)]

Tick == now < MaxClock /\ now' = now + 1
        /\ UNCHANGED <<objVars, procVars, config, gcVars, edits, faults>>

Edit == edits < MaxEdits /\ edits' = edits + 1

Fault == faults < MaxFaults /\ faults' = faults + 1

\* A reconcile begins with a copy of x.
Begin(x, k, t) == pc' = k /\ cur' = x /\ start' = t /\ fresh' = TRUE

Idle == pc' = "idle" /\ cur' = Nil /\ start' = 0 /\ fresh' = FALSE

\* An update of the reconciler.  It may fail, before or after it took effect.
Update(x, new, ok) ==
  \/ nm' = [nm EXCEPT ![x] = new] /\ ok /\ UNCHANGED faults
  \/ Fault /\ Idle /\ nm' \in {nm, [nm EXCEPT ![x] = new]}

\* Someone else writes x: the update of a reconcile that has an older copy then
\* conflicts.
OtherWrite(x, new) ==
  /\ nm' = [nm EXCEPT ![x] = new] /\ fresh' = (fresh /\ (cur # x \/ new = nm[x]))
  /\ UNCHANGED <<pc, cur, start>>

-----------------------------------------------------------------------------
(* HandlePodCompletion and handleWaitPodCompletionState. *)

\* x is in WaitForPodCompletion state and not being deleted.
Waiting(x) == pc = "idle" /\ Live(x) /\ ~nm[x].deleting /\ nm[x].reason = "Wait"

\* Mutant: the annotation is written again by every reconcile.
MarkWaitStartAlways(x) ==
  /\ Waiting(x)
  /\ Update(x, [nm[x] EXCEPT !.waitStart = RFC3339(now), !.since = now], Begin(x, "expire", now))
  /\ UNCHANGED <<now, pods, config, gcVars, edits>>

\* The wait begins: its start is recorded, and used with the fraction of a
\* second by this reconcile.
MarkWaitStart(x) ==
  /\ Waiting(x)
  /\ nm[x].waitStart = Absent
  /\ Update(x, [nm[x] EXCEPT !.waitStart = RFC3339(now), !.since = now], Begin(x, "expire", now))
  /\ UNCHANGED <<now, pods, config, gcVars, edits>>

\* Mutant: an annotation that does not parse stands for the zero time.
ReadWaitStartAsZero(x) ==
  /\ Waiting(x)
  /\ nm[x].waitStart # Absent
  /\ Begin(x, "expire", IF nm[x].waitStart = Invalid THEN -(Second * MaxClock) ELSE nm[x].waitStart)
  /\ UNCHANGED <<now, objVars, config, gcVars, edits, faults>>

\* The wait goes on: its start is parsed from the annotation, or the annotation
\* is reset when that fails (the error returned retries).
ReadWaitStart(x) ==
  /\ Waiting(x)
  /\ \/ /\ nm[x].waitStart \notin {Absent, Invalid}
        /\ Begin(x, "expire", nm[x].waitStart)
        /\ UNCHANGED <<nm, faults>>
     \/ /\ nm[x].waitStart = Invalid
        /\ Update(x, [nm[x] EXCEPT !.waitStart = Absent], Idle)
  /\ UNCHANGED <<now, pods, config, gcVars, edits>>

\* The time-out, if there is one, against a second reading of the clock.
Expired(x) == nm[x].timeout > 0 /\ now > start + nm[x].timeout * Second

\* On to Draining, unless the update conflicts.
MoveOn ==
  \/ fresh /\ Update(cur, [nm[cur] EXCEPT !.reason = "Draining"], Idle)
  \/ ~fresh /\ Idle /\ UNCHANGED <<nm, faults>>

\* The handler moves the object on to Draining when its wait has expired ...
Expire ==
  /\ pc = "expire"
  /\ IF Expired(cur)
       THEN MoveOn
       ELSE pc' = "list" /\ UNCHANGED <<nm, cur, start, fresh, faults>>
  /\ UNCHANGED <<now, pods, config, gcVars, edits>>

\* ... or when no awaited pod is left; a failed list or update retries.
ListPods ==
  /\ pc = "list"
  /\ IF cur \in pods
       THEN Idle /\ UNCHANGED <<nm, faults>>
       ELSE MoveOn
  /\ UNCHANGED <<now, pods, config, gcVars, edits>>

PodsComplete(x) ==
  /\ x \in pods /\ pods' = pods \ {x}
  /\ UNCHANGED <<now, nm, procVars, config, gcVars, edits, faults>>

-----------------------------------------------------------------------------
(* Ready, and gone. *)

\* handleDrainState, at its end.
Drained(x) ==
  /\ pc = "idle" /\ Live(x) /\ ~nm[x].deleting /\ nm[x].reason = "Draining"
  /\ nm' = [nm EXCEPT ![x].reason = "Ready"]
  /\ UNCHANGED <<now, pods, procVars, config, gcVars, edits, faults>>

\* handleTerminalState: the ready-time, unless it is set.
MarkReady(x) ==
  /\ pc = "idle" /\ Live(x) /\ ~nm[x].deleting /\ nm[x].reason = "Ready"
  /\ nm[x].readyTime = Absent
  /\ Update(x, [nm[x] EXCEPT !.readyTime = RFC3339(now), !.since = now], Idle)
  /\ UNCHANGED <<now, pods, config, gcVars, edits>>

\* The clean-up of an object that is being deleted.
Remove(x) ==
  /\ pc = "idle" /\ nm[x].deleting
  /\ nm' = [nm EXCEPT ![x] = Gone]
  /\ pods' = pods \ {x}
  /\ UNCHANGED <<now, procVars, config, gcVars, edits, faults>>

-----------------------------------------------------------------------------
(* The garbage collector. *)

NewGarbageCollectorOptions == [pending |-> Default, max |-> Default]

\* The configuration controller stores the limit ...
StoreOptions ==
  /\ opts.pending # config
  /\ opts' = [opts EXCEPT !.pending = config]
  /\ UNCHANGED <<now, objVars, procVars, config, gc, list, time, todo, edits, faults>>

\* ... which a round of the collector, at any tick of its timer, loads before it
\* lists the objects.  (A list from a cache that lags is one made earlier.)  It
\* passes over those without a ready-time.
Reconcile ==
  LET Dated == {x \in NM : Live(x) /\ nm[x].readyTime # Absent}
  IN /\ gc = "idle"
     /\ opts' = [opts EXCEPT !.max = opts.pending]
     /\ todo' = Dated /\ list' = [x \in NM |-> IF x \in Dated THEN ItemOf(nm[x]) ELSE ItemOf(Unborn)]
     /\ gc' = IF Dated = {} THEN "idle" ELSE "listed"
     /\ UNCHANGED <<now, objVars, procVars, config, time, edits, faults>>

ReadTime ==
  /\ gc = "listed" /\ gc' = "loop"
  /\ time' = now
  /\ UNCHANGED <<now, objVars, procVars, config, opts, list, todo, edits, faults>>

\* Mutants: the limit is taken in ticks; the comparison is the wrong way round.
DueInTicks(o) ==
  ~o.ignore /\ o.readyTime # Invalid /\ time > o.readyTime + opts.max
DueBefore(o) ==
  ~o.ignore /\ o.readyTime # Invalid /\ time < o.readyTime + opts.max * Second

\* The item of the list is due: not to be ignored, with a ready-time that parses
\* and is longer ago than the limit.
Due(o) ==
  /\ ~o.ignore /\ o.readyTime # Invalid
  /\ time > o.readyTime + opts.max * Second

\* An item of the loop: an object that is due, and was not being deleted, is
\* deleted by name.  An error is logged, and the next round tries again.
Collect(x) ==
  /\ gc = "loop" /\ x \in todo /\ todo' = todo \ {x}
  /\ IF Due(list[x]) /\ ~list[x].deleting
       THEN \/ OtherWrite(x, [nm[x] EXCEPT !.deleting = Live(x)]) /\ UNCHANGED faults
            \/ Fault /\ UNCHANGED <<nm, procVars>>
       ELSE UNCHANGED <<nm, faults, procVars>>
  /\ UNCHANGED <<now, pods, config, opts, gc, list, time, edits>>

EndRound ==
  /\ gc = "loop" /\ todo = {}
  /\ gc' = "idle" /\ time' = 0 /\ list' = NoList
  /\ UNCHANGED <<now, objVars, procVars, config, opts, todo, edits, faults>>

-----------------------------------------------------------------------------
(* Users, administrators and restarts. *)

\* A requestor creates an object; it is here when its wait begins.
Create(x) ==
  /\ nm[x].life = "unborn"
  /\ \E t \in Timeouts : nm' = [nm EXCEPT ![x] = [Unborn EXCEPT !.life = "live", !.timeout = t]]
  /\ pods' = pods \cup {x}
  /\ UNCHANGED <<now, procVars, config, gcVars, edits, faults>>

Delete(x) ==
  /\ Live(x) /\ ~nm[x].deleting
  /\ OtherWrite(x, [nm[x] EXCEPT !.deleting = TRUE])
  /\ UNCHANGED <<now, pods, config, gcVars, edits, faults>>

\* A user spoils or removes an annotation, or protects the object.
EditObject(x) ==
  /\ Edit /\ Live(x) /\ ~nm[x].deleting
  /\ \E new \in {[nm[x] EXCEPT !.ignore = ~@], [nm[x] EXCEPT !.waitStart = Invalid],
                 [nm[x] EXCEPT !.readyTime = Invalid], [nm[x] EXCEPT !.readyTime = Absent]} :
       OtherWrite(x, new)
  /\ UNCHANGED <<now, pods, config, gcVars, faults>>

EditConfig ==
  /\ Edit /\ config' \in Limits
  /\ UNCHANGED <<now, objVars, procVars, gcVars, faults>>

\* The operator stops and starts again, with the default limit.
Restart ==
  /\ Fault /\ Idle
  /\ opts' = NewGarbageCollectorOptions /\ gc' = "idle" /\ time' = 0 /\ todo' = {}
  /\ list' = NoList
  /\ UNCHANGED <<now, objVars, config, edits>>

-----------------------------------------------------------------------------
Init ==
  /\ now = 0 /\ nm = [x \in NM |-> Unborn] /\ pods = {}
  /\ pc = "idle" /\ cur = Nil /\ start = 0 /\ fresh = FALSE
  /\ config \in Limits /\ opts = NewGarbageCollectorOptions
  /\ gc = "idle" /\ list = NoList /\ time = 0 /\ todo = {}
  /\ edits = 0 /\ faults = 0

Handle(x) == MarkWaitStart(x) \/ ReadWaitStart(x) \/ Drained(x) \/ MarkReady(x) \/ Remove(x)

Collector == Reconcile \/ ReadTime \/ EndRound \/ \E x \in NM : Collect(x)

Next ==
  \/ Tick \/ Expire \/ ListPods \/ StoreOptions \/ Collector
  \/ \E x \in NM : Handle(x) \/ PodsComplete(x) \/ Create(x) \/ Delete(x) \/ EditObject(x)
  \/ EditConfig \/ Restart

Spec == Init /\ [][Next]_vars

\* The clock, the reconciler, the configuration controller and the collector go
\* on; an object that is waiting is reconciled every ten seconds.
Fairness ==
  /\ WF_vars(Tick) /\ WF_vars(Expire \/ ListPods) /\ WF_vars(StoreOptions) /\ WF_vars(Collector)
  /\ \A x \in NM : SF_vars(Handle(x))

FairSpec == Spec /\ Fairness

-----------------------------------------------------------------------------
(* Properties. *)

\* Type invariant.
TypeOK ==
  /\ now \in 0..MaxClock /\ nm \in [NM -> Object] /\ pods \subseteq NM
  /\ pc \in {"idle", "expire", "list"} /\ cur \in NM \cup {Nil} /\ start \in Nat /\ fresh \in BOOLEAN
  /\ config \in Limits /\ opts \in [pending : Limits, max : Limits]
  /\ gc \in {"idle", "listed", "loop"} /\ list \in [NM -> Item] /\ time \in Nat
  /\ todo \subseteq NM /\ edits \in 0..MaxEdits /\ faults \in 0..MaxFaults

\* A wait is given up, pods or not, only after its time-out, less the fraction
\* of a second that the annotation drops; also across reconciles, restarts and
\* resets of the annotation (HandlePodCompletion).
WaitNotCutShort ==
  [][\A x \in NM :
       nm[x].reason = "Wait" /\ nm'[x].reason = "Draining" /\ x \in pods
       => nm[x].timeout > 0 /\ now + Second > nm[x].since + nm[x].timeout * Second]_vars

\* The collector deletes an object that it has listed only if that was ready for
\* longer than the limit loaded, less the fraction of a second that the annotation
\* drops, whatever happens between its calls (Reconcile).
CollectedOnlyWhenStale ==
  [][\A x \in todo \ todo' :
       ~nm[x].deleting /\ nm'[x].deleting
       => /\ nm[x].reason = "Ready" /\ ~list[x].ignore
          /\ now + Second > list[x].since + opts.max * Second]_vars

\* A wait with a time-out ends, although its pods never complete.
WaitEnds ==
  \A x \in NM :
    (Live(x) /\ nm[x].reason = "Wait" /\ nm[x].timeout > 0
       /\ nm[x].waitStart \in Nat /\ nm[x].waitStart + nm[x].timeout * Second < MaxClock)
      ~> (nm[x].reason # "Wait" \/ nm[x].deleting \/ ~Live(x) \/ nm[x].waitStart \notin Nat)

\* An object that is ready for longer than the limit is deleted, if no user
\* protects it or removes its ready-time.
StaleCollected ==
  \A x \in NM :
    (Live(x) /\ nm[x].readyTime \in Nat /\ nm[x].readyTime + config * Second < MaxClock)
      ~> (nm[x].deleting \/ ~Live(x) \/ nm[x].ignore \/ nm[x].readyTime \notin Nat
          \/ nm[x].readyTime + config * Second >= MaxClock)
=============================================================================
