-------------------------- MODULE SchedulerProofs --------------------------
(***************************************************************************)
(* A node has at most one maintenance under way, the scheduler keeps both  *)
(* limits, and it schedules only what module NodeMaintenance lets it, for  *)
(* any cluster; and a call of Schedule computes its closed form.           *)
(*                                                                         *)
(* What Schedule computes is proved in SchedulingProofs. The listed        *)
(* reasons may be stale, but a maintenance set to Scheduled that the cache *)
(* does not show is one that the loop waits for. While the loop updates,   *)
(* the nodes under maintenance and those of maintenances still to be       *)
(* updated together are within the limits: others may only leave.          *)
(***************************************************************************)
EXTENDS NodeMaintenanceScheduler, DefaultScheduler, SchedulingProofs

\* Zenon is enough for most steps; the others say what they need.
USE Zenon

\* A maintenance that is not under way.
Waiting == {"Uninitialized", "Pending"}

\* The limits that the loop loads.
LEMMA OptionsType == TypeOK => options \in Options
<1>1. DefaultOptions \in Options
  BY SMT DEF DefaultOptions, Options, Limit, Unset, Number
<1> QED
  BY <1>1, ConfigsAssumption DEF TypeOK

\* What is selected is listed, of different nodes, and none of a node that the
\* listing shows under maintenance.
LEMMA Selected ==
  ASSUME NEW ns \in SUBSET Node, NEW dn \in SUBSET ns, NEW o \in Options,
         NEW f, DOMAIN f \subseteq NM
  PROVE  LET chosen == Schedule(ns, dn, f, o)
         IN /\ chosen \subseteq DOMAIN f /\ chosen \subseteq NM
            /\ \A x \in chosen, z \in DOMAIN f : NodeName[z] = NodeName[x] => f[z] \in Waiting
            /\ \A x, z \in chosen : NodeName[z] = NodeName[x] => z = x
<1> DEFINE chosen == Schedule(ns, dn, f, o)
<1>1. /\ chosen \subseteq NM /\ chosen \subseteq CandidateMaintenance(ns, f)
      /\ \A x, y \in chosen : NodeName[x] = NodeName[y] => x = y
      /\ NodesOf(chosen) \subseteq ns \ NodesUnderMaintenance(ns, f)
  BY SelectedOK
<1> HIDE DEF chosen
<1>2. chosen \subseteq DOMAIN f
  BY <1>1 DEF CandidateMaintenance
<1>3. ASSUME NEW x \in chosen, NEW z \in DOMAIN f, NodeName[z] = NodeName[x]
      PROVE  f[z] \in Waiting
  BY <1>1, <1>3 DEF NodesUnderMaintenance, NodesOf, MaintenanceInProgress, Waiting
<1> QED
  BY <1>1, <1>2, <1>3 DEF chosen

-----------------------------------------------------------------------------
(* The inductive invariant. *)

\* What the cache shows of x; an update that it does not show is waited for.
ShownOK(x) ==
  /\ nmFresh[x] => nmCache[x] = nm[x]
  /\ nmCache[x] = "gone" => nm[x] = "gone"
  /\ nm[x] = "Scheduled" => nmCache[x] = "Scheduled" \/ x \in waiting \cup late

\* The nodes of those still to be scheduled are free, and they are of different
\* nodes.
TodoOK(x) ==
  /\ x \in current => nm[x] \in Waiting
  /\ x \in todo => \A z \in NM : NodeName[z] = NodeName[x]
                                 => nm[z] # "Scheduled" /\ (z \in todo => z = x)

\* The inductive invariant of TypeOK and OnePerNode.
IInv == TypeOK /\ OnePerNode /\ (\A x \in NM : ShownOK(x) /\ TodoOK(x))

LEMMA InitIInv == Init => IInv
<1> SUFFICES ASSUME Init
             PROVE  IInv
  OBVIOUS
<1>1. TypeOK
  BY UnreadyAssumption, BoundsAssumption, SMT
     DEF Init, TypeOK, Reason, NoNodes, Cluster
<1>2. OnePerNode
  BY DEF Init, OnePerNode
<1>3. \A x \in NM : ShownOK(x) /\ TodoOK(x)
  BY DEF Init, ShownOK, TodoOK
<1> QED
  BY <1>1, <1>2, <1>3 DEF IInv

\* The loop selects: whatever is Scheduled is shown by the cache by now.
LEMMA ListMaintenancesOK ==
  ASSUME IInv, ListMaintenances
  PROVE  IInv'
<1> DEFINE f == Listed(nmCache)
           chosen == Schedule(seen.nodes, seen.down, f, options)
<1>1. /\ seen.nodes \in SUBSET Node /\ seen.down \in SUBSET seen.nodes
      /\ options \in Options /\ DOMAIN f \subseteq NM
  BY OptionsType DEF IInv, TypeOK, Listed
<1>2. /\ chosen \subseteq DOMAIN f /\ chosen \subseteq NM
      /\ \A x \in chosen, z \in DOMAIN f : NodeName[z] = NodeName[x] => f[z] \in Waiting
      /\ \A x, z \in chosen : NodeName[z] = NodeName[x] => z = x
  BY <1>1, Selected
<1>3. pc = "listed" /\ CacheCaughtUp /\ todo = {} /\ waiting = {} /\ current = {}
  BY DEF ListMaintenances, IInv, TypeOK
<1>4. UNCHANGED <<nm, nmCache, nmFresh, nodeVars, optVars, waiting, late, changes>>
  BY DEF ListMaintenances, objVars
<1>5. \/ /\ pc' = "updating" /\ todo' = chosen /\ seen' = seen
         /\ current' = {x \in chosen : nmFresh[x]}
      \/ pc' = "idle" /\ seen' = NoNodes /\ todo' = {} /\ current' = {}
  BY <1>3 DEF ListMaintenances
<1>6. \A z \in NM : nm[z] = "Scheduled" => z \in DOMAIN f /\ f[z] = "Scheduled"
  BY <1>3 DEF IInv, ShownOK, CacheCaughtUp, Listed, Live
<1>7. \A x \in chosen : nmFresh[x] => nm[x] \in Waiting
  BY <1>2 DEF IInv, ShownOK, Listed
<1> HIDE DEF f, chosen
<1>8. TypeOK'
  <2>1. /\ UNCHANGED <<nm, nmCache, nmFresh, nodes, broken, cordoned, nodeCache,
                        config, pending, options, waiting, late, changes>>
        /\ waiting = {} /\ TypeOK
    BY <1>3, <1>4 DEF nodeVars, optVars, IInv
  <2>2. seen'.down \subseteq seen'.nodes /\ seen'.nodes \subseteq Node
    BY <1>5, <2>1, SMT DEF TypeOK, NoNodes
  <2>3. /\ pc' \in {"idle", "listed", "updating"} /\ todo' \subseteq NM /\ current' \subseteq todo'
        /\ pc' # "updating" => todo' = {} /\ waiting' = {}
    BY <1>2, <1>5, <2>1
  <2> QED
    BY <2>1, <2>2, <2>3 DEF TypeOK
<1>9. OnePerNode'
  BY <1>4 DEF IInv, OnePerNode
<1>10. ASSUME NEW x \in NM
       PROVE  ShownOK(x)' /\ TodoOK(x)'
  <2>1. ShownOK(x)'
    BY <1>4 DEF IInv, ShownOK
  <2>2. TodoOK(x)'
    BY <1>2, <1>4, <1>5, <1>6, <1>7 DEF TodoOK, Waiting
  <2> QED
    BY <2>1, <2>2
<1> QED
  BY <1>4, <1>8, <1>9, <1>10 DEF IInv

\* The update of a selected maintenance takes effect.
LEMMA StoreOK ==
  ASSUME IInv, NEW x \in NM, pc = "updating", x \in todo, Store(x),
         todo' = todo \ {x}, current' = current \ {x},
         \/ waiting' = waiting \cup {x} /\ late' = late /\ changes' = changes
         \/ waiting' = waiting /\ late' = late \cup {x} /\ Change,
         UNCHANGED <<nmCache, nodeVars, optVars, pc, seen>>
  PROVE  IInv'
<1>1. /\ x \in current /\ nm' = [nm EXCEPT ![x] = "Scheduled"]
      /\ nmFresh' = [nmFresh EXCEPT ![x] = FALSE] /\ nm[x] \in Waiting
  BY DEF Store, IInv, TodoOK
<1>2. TypeOK'
  BY <1>1, BoundsAssumption, SMT DEF IInv, TypeOK, Reason, nodeVars, optVars, Change
<1>3. \A z \in NM : /\ nm'[z] = IF z = x THEN "Scheduled" ELSE nm[z]
                    /\ nmFresh'[z] = IF z = x THEN FALSE ELSE nmFresh[z]
  BY <1>1 DEF IInv, TypeOK
<1>4. \A z \in NM : NodeName[z] = NodeName[x] => nm[z] # "Scheduled" /\ (z \in todo => z = x)
  BY DEF IInv, TodoOK
<1>5. OnePerNode'
  BY <1>3, <1>4 DEF IInv, OnePerNode
<1>6. ASSUME NEW z \in NM
      PROVE  ShownOK(z)' /\ TodoOK(z)'
  <2>1. ShownOK(z)'
    BY <1>1, <1>3 DEF IInv, ShownOK, Waiting
  <2>2. TodoOK(z)'
    BY <1>3, <1>4 DEF IInv, TodoOK
  <2> QED
    BY <2>1, <2>2
<1> QED
  BY <1>1, <1>2, <1>5, <1>6 DEF IInv

\* Someone else writes x: it is not Scheduled by that.
LEMMA OtherWriteOK ==
  ASSUME IInv, NEW x \in NM, NEW r \in Waiting \cup {"gone"}, nm[x] # "gone", OtherWrite(x, r),
         UNCHANGED <<nodes, broken, nodeCache>>, cordoned' \subseteq cordoned,
         Change \/ UNCHANGED changes
  PROVE  IInv'
<1>1. /\ nm' = [nm EXCEPT ![x] = r] /\ nmFresh' = [nmFresh EXCEPT ![x] = FALSE]
      /\ current' = current \ {x}
      /\ UNCHANGED <<nmCache, config, pending, options, pc, seen, todo, waiting, late>>
  BY DEF OtherWrite, optVars
<1>2. TypeOK'
  BY <1>1, BoundsAssumption, SMT DEF IInv, TypeOK, Reason, Change, Waiting
<1>3. \A z \in NM : /\ nm'[z] = IF z = x THEN r ELSE nm[z]
                    /\ nmFresh'[z] = IF z = x THEN FALSE ELSE nmFresh[z]
  BY <1>1 DEF IInv, TypeOK
<1>4. r # "Scheduled"
  BY DEF Waiting
<1>5. OnePerNode'
  BY <1>3, <1>4 DEF IInv, OnePerNode
<1>6. ASSUME NEW z \in NM
      PROVE  ShownOK(z)' /\ TodoOK(z)'
  <2>1. ShownOK(z)'
    BY <1>1, <1>3, <1>4 DEF IInv, ShownOK
  <2>2. TodoOK(z)'
    BY <1>1, <1>3, <1>4 DEF IInv, TodoOK
  <2> QED
    BY <2>1, <2>2
<1> QED
  BY <1>1, <1>2, <1>5, <1>6 DEF IInv

\* A step that leaves the maintenances alone.
LEMMA QuietOK ==
  ASSUME IInv, TypeOK', UNCHANGED objVars, todo' \subseteq todo, current' \subseteq current,
         waiting \cup late \subseteq waiting' \cup late'
  PROVE  IInv'
BY DEF IInv, objVars, OnePerNode, ShownOK, TodoOK

-----------------------------------------------------------------------------
(* Every step. *)

\* The steps of the loop.
LEMMA LoopOK ==
  ASSUME IInv, Loop
  PROVE  IInv'
<1>1. CASE ListNodes
  <2>1. TypeOK'
    BY <1>1 DEF IInv, TypeOK, ListNodes, objVars, nodeVars
  <2> QED
    BY <1>1, <2>1, QuietOK DEF ListNodes
<1>2. CASE ListMaintenances
  BY <1>2, ListMaintenancesOK
<1>3. CASE EndLoop
  <2>1. TypeOK'
    BY <1>3, SMT DEF IInv, TypeOK, EndLoop, objVars, nodeVars, optVars, NoNodes
  <2> QED
    BY <1>3, <2>1, QuietOK DEF EndLoop
<1>4. ASSUME NEW x \in NM, SetScheduled(x)
      PROVE  IInv'
  BY <1>4, StoreOK DEF SetScheduled
<1>5. ASSUME NEW x \in NM, SetScheduledFails(x)
      PROVE  IInv'
  <2>1. /\ pc = "updating" /\ x \in todo /\ todo' = todo \ {x} /\ current' = current \ {x}
        /\ UNCHANGED <<nmCache, nodeVars, optVars, pc, seen, waiting>>
    BY <1>5 DEF SetScheduledFails
  <2>2. CASE Change /\ Store(x) /\ late' = late \cup {x}
    BY <2>1, <2>2, StoreOK
  <2>3. CASE (Change \/ UNCHANGED changes) /\ UNCHANGED <<nm, nmFresh, late>>
    <3>1. TypeOK'
      BY <2>1, <2>3, BoundsAssumption, SMT DEF IInv, TypeOK, nodeVars, optVars, Change
    <3> QED
      BY <2>1, <2>3, <3>1, QuietOK DEF objVars
  <2> QED
    BY <1>5, <2>2, <2>3 DEF SetScheduledFails
<1>6. ASSUME NEW x \in NM, Waited(x)
      PROVE  IInv'
  <2>1. /\ waiting' = waiting \ {x}
        /\ UNCHANGED <<nm, nmCache, nmFresh, nodeVars, optVars, pc, seen, todo, current, changes>>
    BY <1>6 DEF Waited, objVars
  <2>2. \/ nmCache[x] \in {"Scheduled", "gone"} /\ late' = late
        \/ late' = late \cup {x}
    BY <1>6 DEF Waited
  <2>3. TypeOK'
    BY <2>1, <2>2 DEF IInv, TypeOK, nodeVars, optVars
  <2>4. OnePerNode'
    BY <2>1 DEF IInv, OnePerNode
  <2>5. \A z \in NM : ShownOK(z)' /\ TodoOK(z)'
    BY <2>1, <2>2 DEF IInv, ShownOK, TodoOK
  <2> QED
    BY <2>1, <2>3, <2>4, <2>5 DEF IInv
<1> QED
  BY <1>1, <1>2, <1>3, <1>4, <1>5, <1>6 DEF Loop

\* The steps of the configuration controller.
LEMMA ConfigurationOK ==
  ASSUME IInv, StoreOptions \/ EditConfig
  PROVE  IInv'
<1>1. TypeOK'
  <2>1. CASE StoreOptions
    BY <2>1 DEF IInv, TypeOK, StoreOptions, objVars, nodeVars, loopVars
  <2>2. CASE EditConfig
    BY <2>2, BoundsAssumption, SMT DEF IInv, TypeOK, EditConfig, Change, objVars, nodeVars, loopVars
  <2> QED
    BY <2>1, <2>2
<1> QED
  BY <1>1, QuietOK DEF StoreOptions, EditConfig, loopVars

\* Others write maintenances.
LEMMA MaintenancesOK ==
  ASSUME IInv, NEW x \in NM,
         Create(x) \/ Register(x) \/ Withdraw(x) \/ Cordon(x) \/ Finish(x)
  PROVE  IInv'
<1>1. CASE Create(x)
  BY <1>1, OtherWriteOK DEF Create, Waiting, nodeVars
<1>2. CASE Register(x)
  BY <1>2, OtherWriteOK DEF Register, Waiting, nodeVars
<1>3. CASE Withdraw(x)
  <2>1. PICK r \in Waiting \cup {"gone"} : OtherWrite(x, r)
    BY <1>3 DEF Withdraw, Waiting
  <2> QED
    BY <1>3, <2>1, OtherWriteOK DEF Withdraw, nodeVars
<1>4. CASE Cordon(x)
  <2>1. TypeOK'
    BY <1>4 DEF IInv, TypeOK, Cordon, objVars, optVars, loopVars
  <2> QED
    BY <1>4, <2>1, QuietOK DEF Cordon, loopVars
<1>5. CASE Finish(x)
  BY <1>5, OtherWriteOK DEF Finish
<1> QED
  BY <1>1, <1>2, <1>3, <1>4, <1>5

\* Nodes change.
LEMMA NodesOK ==
  ASSUME IInv, SyncNodes \/ \E n \in Node : ChangeNode(n)
  PROVE  IInv'
<1>1. TypeOK'
  <2>1. CASE SyncNodes
    BY <2>1, SMT DEF IInv, TypeOK, SyncNodes, Cluster, objVars, optVars, loopVars
  <2>2. ASSUME NEW n \in Node, ChangeNode(n)
        PROVE  TypeOK'
    BY <2>2, BoundsAssumption, SMT DEF IInv, TypeOK, ChangeNode, Change, objVars, optVars, loopVars
  <2> QED
    BY <2>1, <2>2
<1> QED
  BY <1>1, QuietOK DEF SyncNodes, ChangeNode, loopVars

\* The cache shows the API server; after a restart nothing is under way.
LEMMA CacheOK ==
  ASSUME IInv, SyncMaintenances \/ Restart
  PROVE  IInv'
<1>1. nm' = nm /\ nmCache' = nm /\ nmFresh' = [x \in NM |-> TRUE]
  BY DEF SyncMaintenances, Restart
<1>2. /\ todo' \subseteq todo /\ current' \subseteq current
  BY DEF SyncMaintenances, Restart, loopVars
<1>3. TypeOK'
  <2>1. CASE SyncMaintenances
    BY <2>1 DEF IInv, TypeOK, SyncMaintenances, nodeVars, optVars, loopVars
  <2>2. CASE Restart
    BY <2>2, BoundsAssumption, SMT DEF IInv, TypeOK, Restart, Change, Cluster, NoNodes
  <2> QED
    BY <2>1, <2>2
<1>4. OnePerNode'
  BY <1>1 DEF IInv, TypeOK, OnePerNode
<1>5. \A x \in NM : ShownOK(x)' /\ TodoOK(x)'
  BY <1>1, <1>2 DEF IInv, ShownOK, TodoOK
<1> QED
  BY <1>3, <1>4, <1>5 DEF IInv

LEMMA NextIInv == IInv /\ [Next]_vars => IInv'
<1> SUFFICES ASSUME IInv, [Next]_vars
             PROVE  IInv'
  OBVIOUS
<1>1. CASE Next
  BY <1>1, LoopOK, ConfigurationOK, MaintenancesOK, NodesOK, CacheOK DEF Next
<1>2. CASE UNCHANGED vars
  <2>1. TypeOK'
    BY <1>2 DEF IInv, TypeOK, vars
  <2> QED
    BY <1>2, <2>1, QuietOK DEF vars, objVars
<1> QED
  BY <1>1, <1>2

-----------------------------------------------------------------------------
(* The limits. *)

\* The nodes under maintenance and those of maintenances still to be updated.
Claimed == (Under(nm) \cup NodesOf(todo)) \cap nodes

\* Nodes only leave: the cache, and the loop, have all there are.
SeenOK == nodes \subseteq nodeCache.nodes /\ (pc # "idle" => nodes \subseteq seen.nodes)

\* A node that a maintenance has cordoned is under maintenance.
CordonedOK == cordoned \subseteq Under(nm)

\* As long as there are maintenances to update, what is claimed is within the
\* limit on parallel operations and, as long as there are such of available
\* nodes, also within the limit on unavailable nodes.
RoomOK ==
  LET total == Cardinality(seen.nodes)
      limit == GetMaxUnavailableNodes(options.maxUnavailable, total)
  IN /\ todo # {} => Cardinality(Claimed) <= GetMaxOperations(options.maxParallel, total)
     /\ limit >= 0 /\ ~(NodesOf(todo) \subseteq seen.down)
          => Cardinality(seen.down \cup Claimed) <= limit

\* The inductive invariant of the limits.
LInv == IInv /\ SeenOK /\ CordonedOK /\ RoomOK

\* A part of a set of nodes keeps the limits that the set keeps.
LEMMA FewerNodes ==
  ASSUME NEW S \in SUBSET Node, NEW T \in SUBSET S, NEW m \in Int, Cardinality(S) <= m
  PROVE  Cardinality(T) <= m
<1>1. IsFiniteSet(S) /\ Cardinality(S) \in Nat /\ Cardinality(T) \in Nat
  BY NodeCount
<1>2. Cardinality(T) <= Cardinality(S)
  BY <1>1, FS_Subset
<1> QED
  BY <1>1, <1>2, SMT

\* The limits of the loop are numbers.
LEMMA LimitsType ==
  ASSUME TypeOK
  PROVE  /\ GetMaxOperations(options.maxParallel, Cardinality(seen.nodes)) \in Int
         /\ GetMaxUnavailableNodes(options.maxUnavailable, Cardinality(seen.nodes)) \in Int
<1>1. options.maxParallel \in Limit /\ options.maxUnavailable \in Limit
  BY OptionsType DEF Options
<1>2. Cardinality(seen.nodes) \in Nat
  BY NodeCount DEF TypeOK
<1> QED
  BY <1>1, <1>2, MaximumType

\* Claims that only leave stay within the limits.
LEMMA FewerClaims ==
  ASSUME TypeOK, RoomOK, UNCHANGED <<options, seen>>, todo' \subseteq todo,
         Claimed' \subseteq Claimed
  PROVE  RoomOK'
<1> DEFINE total == Cardinality(seen.nodes)
           operations == GetMaxOperations(options.maxParallel, total)
           limit == GetMaxUnavailableNodes(options.maxUnavailable, total)
<1>1. operations \in Int /\ limit \in Int
  BY LimitsType
<1>2. seen' = seen /\ options' = options
  OBVIOUS
<1>3. Claimed \subseteq Node /\ seen.down \subseteq Node
  BY DEF Claimed, TypeOK
<1> HIDE DEF operations, limit
<1>4. ASSUME todo' # {}
      PROVE  Cardinality(Claimed') <= operations
  <2>1. Cardinality(Claimed) <= operations
    BY <1>4 DEF RoomOK, operations
  <2> QED
    BY <1>1, <1>3, <2>1, FewerNodes
<1>5. ASSUME limit >= 0, ~(NodesOf(todo') \subseteq seen.down)
      PROVE  Cardinality(seen.down \cup Claimed') <= limit
  <2>1. ~(NodesOf(todo) \subseteq seen.down)
    BY <1>5 DEF NodesOf
  <2>2. Cardinality(seen.down \cup Claimed) <= limit
    BY <1>5, <2>1 DEF RoomOK, limit
  <2>3. seen.down \cup Claimed \in SUBSET Node
    BY <1>3
  <2>4. seen.down \cup Claimed' \in SUBSET (seen.down \cup Claimed)
    OBVIOUS
  <2> QED
    BY <1>1, <2>2, <2>3, <2>4, FewerNodes
<1> QED
  BY <1>2, <1>4, <1>5 DEF RoomOK, operations, limit

\* The loop selects: what is under maintenance the listing shows, and the
\* selection keeps the limits.
LEMMA SelectionHasRoom ==
  ASSUME LInv, ListMaintenances
  PROVE  RoomOK'
<1> DEFINE f == Listed(nmCache)
           chosen == Schedule(seen.nodes, seen.down, f, options)
           und == NodesUnderMaintenance(seen.nodes, f)
           total == Cardinality(seen.nodes)
           operations == GetMaxOperations(options.maxParallel, total)
           limit == GetMaxUnavailableNodes(options.maxUnavailable, total)
<1>1. /\ seen.nodes \in SUBSET Node /\ seen.down \in SUBSET seen.nodes
      /\ options \in Options /\ DOMAIN f \subseteq NM
  BY OptionsType DEF LInv, IInv, TypeOK, Listed
<1>2. pc = "listed" /\ CacheCaughtUp /\ todo = {} /\ waiting = {} /\ nodes \subseteq seen.nodes
  BY DEF ListMaintenances, LInv, IInv, TypeOK, SeenOK
<1>3. UNCHANGED <<nm, nodes, options>>
  BY DEF ListMaintenances, objVars, nodeVars, optVars
<1>4. \/ todo' = chosen /\ chosen # {} /\ seen' = seen
      \/ todo' = {}
  BY <1>2 DEF ListMaintenances
<1>5. CASE todo' = {}
  BY <1>5 DEF RoomOK, NodesOf
<1>6. CASE todo' = chosen /\ chosen # {} /\ seen' = seen
  <2>1. LimitsKept(seen.nodes, seen.down, f, options, chosen)
    BY <1>1, <1>6, WithinLimits
  <2>2. /\ Cardinality(und \cup NodesOf(chosen)) <= operations
        /\ limit >= 0 /\ ~(NodesOf(chosen) \subseteq seen.down)
             => Cardinality(seen.down \cup und \cup NodesOf(chosen)) <= limit
    BY <2>1 DEF LimitsKept
  <2>3. \A z \in NM : nm[z] = "Scheduled" => z \in MaintenanceInProgress(f)
    BY <1>2 DEF LInv, IInv, ShownOK, CacheCaughtUp, Listed, Live, MaintenanceInProgress
  <2>4. Under(nm) \cap nodes \subseteq und
    BY <1>2, <2>3 DEF Under, NodesOf, NodesUnderMaintenance
  <2>5. Claimed' \subseteq und \cup NodesOf(chosen)
    BY <1>3, <1>6, <2>4 DEF Claimed
  <2>6. chosen \subseteq NM
    BY <1>1, Selected
  <2>7. NodesOf(chosen) \subseteq Node
    BY <2>6, NamesAssumption DEF NodesOf
  <2>8. und \subseteq Node
    BY <1>1 DEF NodesUnderMaintenance
  <2>9. operations \in Int /\ limit \in Int
    BY LimitsType DEF LInv, IInv
  <2> HIDE DEF f, chosen, und, operations, limit
  <2>10. Cardinality(Claimed') <= operations
    <3>1. und \cup NodesOf(chosen) \in SUBSET Node
      BY <2>7, <2>8
    <3> QED
      BY <2>2, <2>5, <2>9, <3>1, FewerNodes
  <2>11. ASSUME limit >= 0, ~(NodesOf(chosen) \subseteq seen.down)
         PROVE  Cardinality(seen.down \cup Claimed') <= limit
    <3>1. seen.down \cup und \cup NodesOf(chosen) \in SUBSET Node
      BY <1>1, <2>7, <2>8
    <3>2. seen.down \cup Claimed' \in SUBSET (seen.down \cup und \cup NodesOf(chosen))
      BY <2>5
    <3> QED
      BY <2>2, <2>9, <2>11, <3>1, <3>2, FewerNodes
  <2> QED
    BY <1>3, <1>6, <2>10, <2>11 DEF RoomOK, operations, limit
<1> QED
  BY <1>4, <1>5, <1>6

\* Nobody but the loop puts a node under maintenance, and the loop only one of
\* those it has still to update.
LEMMA ClaimedShrinks ==
  ASSUME LInv, Next, ~ListMaintenances
  PROVE  /\ todo' \subseteq todo /\ Claimed' \subseteq Claimed /\ nodes' \subseteq nodes
         /\ \A z \in NM : nm'[z] = "Scheduled" => nm[z] = "Scheduled" \/ z \in todo
<1> DEFINE Shrinks ==
             /\ todo' \subseteq todo /\ nodes' \subseteq nodes
             /\ \A z \in NM : nm'[z] = "Scheduled" => nm[z] = "Scheduled" \/ z \in todo
<1>1. TypeOK
  BY DEF LInv, IInv
<1>2. Shrinks
  <2>1. CASE Loop
    <3>1. CASE ListNodes \/ EndLoop
      BY <3>1 DEF ListNodes, EndLoop, objVars, nodeVars
    <3>2. ASSUME NEW x \in NM, SetScheduled(x) \/ SetScheduledFails(x) \/ Waited(x)
          PROVE  Shrinks
      BY <1>1, <3>2 DEF SetScheduled, SetScheduledFails, Waited, Store, TypeOK, objVars, nodeVars
    <3> QED
      BY <2>1, <3>1, <3>2 DEF Loop
  <2>2. CASE StoreOptions \/ EditConfig \/ SyncMaintenances \/ SyncNodes \/ Restart
    BY <2>2 DEF StoreOptions, EditConfig, SyncMaintenances, SyncNodes, Restart, objVars,
                nodeVars, loopVars
  <2>3. ASSUME NEW x \in NM,
               Create(x) \/ Register(x) \/ Withdraw(x) \/ Cordon(x) \/ Finish(x)
        PROVE  Shrinks
    BY <1>1, <2>3
       DEF Create, Register, Withdraw, Cordon, Finish, OtherWrite, TypeOK, objVars, nodeVars,
           loopVars
  <2>4. ASSUME NEW n \in Node, ChangeNode(n)
        PROVE  Shrinks
    BY <2>4 DEF ChangeNode, objVars, loopVars
  <2> QED
    BY <2>1, <2>2, <2>3, <2>4 DEF Next
<1>3. Claimed' \subseteq Claimed
  BY <1>2 DEF Claimed, Under, NodesOf
<1> QED
  BY <1>2, <1>3

\* Every step keeps the room for what is still to be updated ...
LEMMA NextRoomOK ==
  ASSUME LInv, Next
  PROVE  RoomOK'
<1>1. TypeOK /\ RoomOK
  BY DEF LInv, IInv
<1>2. CASE ListMaintenances
  BY <1>2, SelectionHasRoom
<1>3. CASE todo' = {}
  BY <1>3 DEF RoomOK, NodesOf
<1>4. CASE ~ListMaintenances /\ UNCHANGED <<options, seen>>
  BY <1>1, <1>4, ClaimedShrinks, FewerClaims
<1>5. \/ todo' = {} \/ ListMaintenances \/ UNCHANGED <<options, seen>>
  <2>1. CASE Loop
    BY <1>1, <2>1
       DEF Loop, ListNodes, EndLoop, SetScheduled, SetScheduledFails, Waited, optVars, TypeOK
  <2>2. CASE StoreOptions \/ EditConfig \/ SyncMaintenances \/ SyncNodes \/ Restart
    BY <2>2 DEF StoreOptions, EditConfig, SyncMaintenances, SyncNodes, Restart, optVars, loopVars
  <2>3. CASE \E x \in NM : Create(x) \/ Register(x) \/ Withdraw(x) \/ Cordon(x) \/ Finish(x)
    BY <2>3
       DEF Create, Register, Withdraw, Cordon, Finish, OtherWrite, optVars, loopVars
  <2>4. CASE \E n \in Node : ChangeNode(n)
    BY <2>4 DEF ChangeNode, optVars, loopVars
  <2> QED
    BY <2>1, <2>2, <2>3, <2>4 DEF Next
<1> QED
  BY <1>2, <1>3, <1>4, <1>5

\* ... what the loop and the cache know of the nodes ...
LEMMA NextSeenOK ==
  ASSUME LInv, Next
  PROVE  SeenOK'
<1> USE DEF SeenOK
<1>1. TypeOK /\ SeenOK
  BY DEF LInv, IInv
<1>2. CASE Loop
  <2>1. CASE ListNodes \/ EndLoop \/ ListMaintenances
    BY <1>1, <2>1 DEF ListNodes, EndLoop, ListMaintenances, nodeVars
  <2>2. ASSUME NEW x \in NM, SetScheduled(x) \/ SetScheduledFails(x) \/ Waited(x)
        PROVE  SeenOK'
    BY <1>1, <2>2 DEF SetScheduled, SetScheduledFails, Waited, nodeVars
  <2> QED
    BY <1>2, <2>1, <2>2 DEF Loop
<1>3. CASE StoreOptions \/ EditConfig \/ SyncMaintenances
  BY <1>1, <1>3 DEF StoreOptions, EditConfig, SyncMaintenances, nodeVars, loopVars
<1>4. CASE SyncNodes \/ Restart
  BY <1>1, <1>4, SMT DEF SyncNodes, Restart, Cluster, loopVars
<1>5. ASSUME NEW x \in NM,
             Create(x) \/ Register(x) \/ Withdraw(x) \/ Cordon(x) \/ Finish(x)
      PROVE  SeenOK'
  BY <1>1, <1>5 DEF Create, Register, Withdraw, Cordon, Finish, OtherWrite, nodeVars, loopVars
<1>6. ASSUME NEW n \in Node, ChangeNode(n)
      PROVE  SeenOK'
  BY <1>1, <1>6 DEF ChangeNode, loopVars
<1> QED
  BY <1>2, <1>3, <1>4, <1>5, <1>6 DEF Next

\* ... and that cordoned nodes are under maintenance.
LEMMA NextCordonedOK ==
  ASSUME LInv, Next
  PROVE  CordonedOK'
<1>1. TypeOK /\ OnePerNode /\ cordoned \subseteq Under(nm)
  BY DEF LInv, IInv, CordonedOK
<1>2. ASSUME cordoned' \subseteq cordoned, \A z \in NM : nm[z] = "Scheduled" => nm'[z] = "Scheduled"
      PROVE  CordonedOK'
  BY <1>1, <1>2 DEF CordonedOK, Under, NodesOf
<1>3. CASE Loop
  <2>1. CASE ListNodes \/ EndLoop \/ ListMaintenances
    BY <1>2, <2>1 DEF ListNodes, EndLoop, ListMaintenances, objVars, nodeVars
  <2>2. ASSUME NEW x \in NM, SetScheduled(x) \/ SetScheduledFails(x) \/ Waited(x)
        PROVE  CordonedOK'
    BY <1>1, <1>2, <2>2
       DEF SetScheduled, SetScheduledFails, Waited, Store, TypeOK, objVars, nodeVars
  <2> QED
    BY <1>3, <2>1, <2>2 DEF Loop
<1>4. CASE StoreOptions \/ EditConfig \/ SyncMaintenances \/ SyncNodes \/ Restart
  BY <1>2, <1>4
     DEF StoreOptions, EditConfig, SyncMaintenances, SyncNodes, Restart, objVars, nodeVars
<1>5. ASSUME NEW x \in NM, Create(x) \/ Register(x) \/ Withdraw(x)
      PROVE  CordonedOK'
  <2>1. cordoned' = cordoned /\ nm[x] # "Scheduled" /\ \E r : nm' = [nm EXCEPT ![x] = r]
    BY <1>5 DEF Create, Register, Withdraw, OtherWrite, nodeVars
  <2> QED
    BY <1>1, <1>2, <2>1 DEF TypeOK
<1>6. ASSUME NEW x \in NM, Cordon(x)
      PROVE  CordonedOK'
  BY <1>1, <1>6 DEF Cordon, CordonedOK, Under, NodesOf, objVars
\* x is the only one of its node that is under way
<1>7. ASSUME NEW x \in NM, Finish(x)
      PROVE  CordonedOK'
  <2>1. /\ nm[x] = "Scheduled" /\ cordoned' = cordoned \ {NodeName[x]}
        /\ \A z \in NM \ {x} : nm'[z] = nm[z]
    BY <1>1, <1>7 DEF Finish, OtherWrite, TypeOK
  <2> QED
    BY <1>1, <2>1 DEF CordonedOK, Under, NodesOf
<1>8. ASSUME NEW n \in Node, ChangeNode(n)
      PROVE  CordonedOK'
  BY <1>2, <1>8 DEF ChangeNode, objVars
<1> QED
  BY <1>3, <1>4, <1>5, <1>6, <1>7, <1>8 DEF Next

LEMMA InitLInv == Init => LInv
<1> SUFFICES ASSUME Init
             PROVE  LInv
  OBVIOUS
<1>1. SeenOK /\ CordonedOK
  BY DEF Init, SeenOK, CordonedOK, Cluster
<1>2. todo = {}
  BY DEF Init
<1>3. RoomOK
  BY <1>2 DEF RoomOK, NodesOf
<1> QED
  BY <1>1, <1>3, InitIInv DEF LInv

LEMMA NextLInv == LInv /\ [Next]_vars => LInv'
<1> SUFFICES ASSUME LInv, [Next]_vars
             PROVE  LInv'
  OBVIOUS
<1>1. IInv'
  BY NextIInv DEF LInv
<1>2. CASE Next
  BY <1>1, <1>2, NextSeenOK, NextCordonedOK, NextRoomOK DEF LInv
<1>3. CASE UNCHANGED vars
  <2>1. SeenOK' /\ CordonedOK'
    BY <1>3 DEF vars, LInv, SeenOK, CordonedOK, Under
  <2>2. todo' \subseteq todo /\ Claimed' \subseteq Claimed /\ UNCHANGED <<options, seen>>
    BY <1>3 DEF vars, Claimed, Under
  <2>3. RoomOK'
    BY <2>2, FewerClaims DEF LInv, IInv
  <2> QED
    BY <1>1, <2>1, <2>3 DEF LInv
<1> QED
  BY <1>2, <1>3

\* A maintenance that is scheduled is one the loop had still to update.
LEMMA ScheduledStep ==
  ASSUME LInv, Next, NEW x \in NM, Scheduled(x)
  PROVE  x \in todo /\ Under(nm') \cap nodes \subseteq Claimed
<1>1. ~ListMaintenances
  BY DEF ListMaintenances, Scheduled, objVars
<1>2. \A z \in NM : nm'[z] = "Scheduled" => nm[z] = "Scheduled" \/ z \in todo
  BY <1>1, ClaimedShrinks
<1>3. x \in todo
  BY <1>2 DEF Scheduled
<1> QED
  BY <1>2, <1>3 DEF Claimed, Under, NodesOf

-----------------------------------------------------------------------------
(* The theorems. *)

\* Every variable of the scheduler keeps its type, and updates are under way
\* only while the loop waits for them, whatever the objects, limits and faults.
THEOREM TypeCorrect == Spec => []TypeOK
<1>1. IInv => TypeOK
  BY DEF IInv
<1> QED
  BY <1>1, InitIInv, NextIInv, PTL DEF Spec

\* No two maintenances of a node are ever under way together, for any number of
\* maintenances and nodes, any limits, lagging caches, lost replies, failed
\* updates and restarts.
THEOREM OneMaintenancePerNode == Spec => []OnePerNode
<1>1. IInv => OnePerNode
  BY DEF IInv
<1> QED
  BY <1>1, InitIInv, NextIInv, PTL DEF Spec

\* A maintenance is never scheduled beyond the limit on parallel operations,
\* although the listing it was selected from may be stale, others are scheduled
\* from goroutines of their own, and maintenances end and nodes go meanwhile.
THEOREM KeepsParallelLimit == Spec => ParallelLimit
<1> DEFINE operations == GetMaxOperations(options.maxParallel, Cardinality(seen.nodes))
           A == \A x \in NM : Scheduled(x) => Cardinality(Under(nm') \cap nodes) <= operations
<1>1. LInv /\ [Next]_vars => [A]_vars
  <2> SUFFICES ASSUME LInv, Next, NEW x \in NM, Scheduled(x)
               PROVE  Cardinality(Under(nm') \cap nodes) <= operations
    OBVIOUS
  <2>1. x \in todo /\ Under(nm') \cap nodes \subseteq Claimed
    BY ScheduledStep
  <2>2. Cardinality(Claimed) <= operations
    BY <2>1 DEF LInv, RoomOK
  <2>3. operations \in Int
    BY LimitsType DEF LInv, IInv
  <2>4. Claimed \in SUBSET Node
    BY DEF LInv, IInv, TypeOK, Claimed
  <2> HIDE DEF operations
  <2> QED
    BY <2>1, <2>2, <2>3, <2>4, FewerNodes
<1>2. ParallelLimit <=> [][A]_vars
  BY DEF ParallelLimit
<1> HIDE DEF A
<1> QED
  BY <1>1, <1>2, InitLInv, NextLInv, PTL DEF Spec

\* A maintenance of an available node is never scheduled beyond the limit on
\* unavailable nodes: of these, those cordoned are under maintenance, and the
\* broken ones the loop has listed, unless they failed since.
THEOREM KeepsUnavailableLimit == Spec => UnavailableLimit
<1> DEFINE limit == GetMaxUnavailableNodes(options.maxUnavailable, Cardinality(seen.nodes))
           A == \A x \in NM :
                  Scheduled(x) /\ NodeName[x] \notin seen.down /\ limit >= 0
                    /\ broken \subseteq seen.down
                  => Cardinality((broken \cup cordoned \cup Under(nm')) \cap nodes) <= limit
<1>1. LInv /\ [Next]_vars => [A]_vars
  <2> SUFFICES ASSUME LInv, Next, NEW x \in NM, Scheduled(x), NodeName[x] \notin seen.down,
                      limit >= 0, broken \subseteq seen.down
               PROVE  Cardinality((broken \cup cordoned \cup Under(nm')) \cap nodes) <= limit
    OBVIOUS
  <2>1. x \in todo /\ Under(nm') \cap nodes \subseteq Claimed
    BY ScheduledStep
  <2>2. ~(NodesOf(todo) \subseteq seen.down)
    BY <2>1 DEF NodesOf
  <2>3. Cardinality(seen.down \cup Claimed) <= limit
    BY <2>2 DEF LInv, RoomOK
  <2>4. limit \in Int
    BY LimitsType DEF LInv, IInv
  <2>5. seen.down \cup Claimed \in SUBSET Node
    BY DEF LInv, IInv, TypeOK, Claimed
  <2>6. cordoned \cap nodes \subseteq Claimed
    BY DEF LInv, CordonedOK, Claimed
  <2>7. (broken \cup cordoned \cup Under(nm')) \cap nodes \in SUBSET (seen.down \cup Claimed)
    BY <2>1, <2>6
  <2> HIDE DEF limit
  <2> QED
    BY <2>3, <2>4, <2>5, <2>7, FewerNodes
<1>2. UnavailableLimit <=> [][A]_vars
  BY DEF UnavailableLimit
<1> HIDE DEF A
<1> QED
  BY <1>1, <1>2, InitLInv, NextLInv, PTL DEF Spec

-----------------------------------------------------------------------------
(* What module NodeMaintenance relies on. *)

\* The guard of NodeMaintenance!Schedule: x exists, is not under way, and its
\* cached copy has the version of the API server; it is Pending, or another
\* maintenance of its node has been created; and neither the API server nor the
\* cache has one of the node under way.
Schedulable(x) ==
  LET onNode == {y \in NM : NodeName[y] = NodeName[x]}
  IN /\ nm[x] \in Waiting /\ nmFresh[x]
     /\ nm[x] = "Pending" \/ \E y \in onNode \ {x} : nm[y] # "none"
     /\ \A y \in onNode : nm[y] # "Scheduled" /\ nmCache[y] # "Scheduled"

\* A maintenance is scheduled only when NodeMaintenance!Schedule allows it.
ScheduledWhenAllowed == [][\A x \in NM : Scheduled(x) => Schedulable(x)]_vars

\* What the cache shows was created; a selected maintenance whose copy is current
\* was Pending or shared its node with one that was; and the cache shows nothing
\* under way on its node.
SelectedFor(x) ==
  /\ nmCache[x] # "none" => nm[x] # "none"
  /\ x \in current =>
       /\ nmFresh[x]
       /\ nm[x] = "Pending" \/ \E y \in NM \ {x} : NodeName[y] = NodeName[x] /\ nm[y] # "none"
  /\ x \in todo => \A z \in NM : NodeName[z] = NodeName[x] => nmCache[z] # "Scheduled"

\* The inductive invariant of ScheduledWhenAllowed.
SInv == LInv /\ \A x \in NM : SelectedFor(x)

\* The loop selects only for nodes with a Pending maintenance.
LEMMA SelectedForListing ==
  ASSUME SInv, ListMaintenances, NEW x \in NM
  PROVE  SelectedFor(x)'
<1> DEFINE f == Listed(nmCache)
           chosen == Schedule(seen.nodes, seen.down, f, options)
<1>1. /\ seen.nodes \in SUBSET Node /\ seen.down \in SUBSET seen.nodes
      /\ options \in Options /\ DOMAIN f \subseteq NM
  BY OptionsType DEF SInv, LInv, IInv, TypeOK, Listed
<1>2. /\ chosen \subseteq CandidateMaintenance(seen.nodes, f)
      /\ \A y \in chosen, z \in DOMAIN f : NodeName[z] = NodeName[y] => f[z] \in Waiting
  BY <1>1, SelectedOK, Selected
<1>3. UNCHANGED <<nm, nmCache, nmFresh>>
  BY DEF ListMaintenances, objVars
<1>4. \/ todo' = chosen /\ current' = {y \in chosen : nmFresh[y]}
      \/ todo' = {} /\ current' = {}
  BY DEF ListMaintenances, SInv, LInv, IInv, TypeOK
<1>5. /\ DOMAIN f = {z \in NM : Live(nmCache[z])}
      /\ \A z \in DOMAIN f : f[z] = nmCache[z]
  BY DEF Listed
<1>6. ASSUME x \in chosen
      PROVE  \E y \in NM : NodeName[y] = NodeName[x] /\ nmCache[y] = "Pending"
  BY <1>2, <1>5, <1>6 DEF CandidateMaintenance, CandidateNodes, NodesOf, MaintenancePending
<1>7. ASSUME x \in chosen, NEW z \in NM, NodeName[z] = NodeName[x]
      PROVE  nmCache[z] # "Scheduled"
  BY <1>2, <1>5, <1>7 DEF Live, Waiting
<1> HIDE DEF f, chosen
<1>8. \A y \in NM : /\ nmCache[y] # "none" => nm[y] # "none"
                    /\ nmFresh[y] => nmCache[y] = nm[y]
  BY DEF SInv, SelectedFor, LInv, IInv, ShownOK
<1>9. ASSUME x \in chosen, nmFresh[x]
      PROVE  nm[x] = "Pending" \/ \E y \in NM \ {x} : NodeName[y] = NodeName[x] /\ nm[y] # "none"
  <2>1. PICK y \in NM : NodeName[y] = NodeName[x] /\ nmCache[y] = "Pending"
    BY <1>6, <1>9
  <2> QED
    BY <1>8, <1>9, <2>1
<1> QED
  BY <1>3, <1>4, <1>7, <1>8, <1>9 DEF SelectedFor

\* One maintenance is written, from a copy or by someone else.
LEMMA SelectedForWrite ==
  ASSUME SInv, NEW x \in NM, NEW r \in Reason \ {"none"}, nm' = [nm EXCEPT ![x] = r],
         nmFresh' = [nmFresh EXCEPT ![x] = FALSE], nmCache' = nmCache,
         todo' \subseteq todo, current' = current \ {x}
  PROVE  \A z \in NM : SelectedFor(z)'
<1>1. \A z \in NM : /\ nm'[z] = IF z = x THEN r ELSE nm[z]
                    /\ nmFresh'[z] = IF z = x THEN FALSE ELSE nmFresh[z]
  BY DEF SInv, LInv, IInv, TypeOK
<1> QED
  BY <1>1, SMT DEF SInv, SelectedFor

\* A step that writes no maintenance; the cache may catch up.
LEMMA SelectedForQuiet ==
  ASSUME SInv, nm' = nm, todo' \subseteq todo, current' \subseteq current,
         \/ UNCHANGED <<nmCache, nmFresh>>
         \/ nmCache' = nm /\ nmFresh' = [x \in NM |-> TRUE]
  PROVE  \A z \in NM : SelectedFor(z)'
BY SMT DEF SInv, LInv, IInv, TodoOK, SelectedFor

LEMMA NextSelectedFor ==
  ASSUME SInv, Next
  PROVE  \A z \in NM : SelectedFor(z)'
<1>1. TypeOK
  BY DEF SInv, LInv, IInv
<1>2. "Scheduled" \in Reason \ {"none"}
  BY DEF Reason
<1>3. CASE ListMaintenances
  BY <1>3, SelectedForListing
<1>4. CASE ListNodes \/ EndLoop \/ StoreOptions \/ EditConfig \/ SyncNodes
  BY <1>4, SelectedForQuiet
     DEF ListNodes, EndLoop, StoreOptions, EditConfig, SyncNodes, objVars, loopVars
<1>5. CASE SyncMaintenances \/ Restart
  BY <1>5, SelectedForQuiet DEF SyncMaintenances, Restart, loopVars
<1>6. ASSUME NEW n \in Node, ChangeNode(n)
      PROVE  \A z \in NM : SelectedFor(z)'
  BY <1>6, SelectedForQuiet DEF ChangeNode, objVars, loopVars
<1>7. ASSUME NEW x \in NM, SetScheduled(x)
      PROVE  \A z \in NM : SelectedFor(z)'
  <2>1. /\ nm' = [nm EXCEPT ![x] = "Scheduled"] /\ nmFresh' = [nmFresh EXCEPT ![x] = FALSE]
        /\ nmCache' = nmCache /\ todo' \subseteq todo /\ current' = current \ {x}
    BY <1>7 DEF SetScheduled, Store
  <2> QED
    BY <1>2, <2>1, SelectedForWrite
<1>8. ASSUME NEW x \in NM, SetScheduledFails(x)
      PROVE  \A z \in NM : SelectedFor(z)'
  <2>1. todo' = todo \ {x} /\ current' = current \ {x} /\ nmCache' = nmCache
    BY <1>8 DEF SetScheduledFails
  <2>2. CASE Store(x)
    <3>1. todo' \subseteq todo
      BY <2>1
    <3> QED
      BY <1>2, <2>1, <2>2, <3>1, SelectedForWrite DEF Store
  <2>3. CASE UNCHANGED <<nm, nmFresh>>
    BY <2>1, <2>3, SelectedForQuiet
  <2> QED
    BY <1>8, <2>2, <2>3 DEF SetScheduledFails
<1>9. ASSUME NEW x \in NM, Waited(x) \/ Cordon(x)
      PROVE  \A z \in NM : SelectedFor(z)'
  BY <1>9, SelectedForQuiet DEF Waited, Cordon, objVars, loopVars
<1>10. ASSUME NEW x \in NM, Create(x) \/ Register(x) \/ Withdraw(x) \/ Finish(x)
      PROVE  \A z \in NM : SelectedFor(z)'
  <2>1. PICK r \in Reason \ {"none"} : OtherWrite(x, r)
    BY <1>1, <1>10 DEF Create, Register, Withdraw, Finish, Reason
  <2>2. /\ nm' = [nm EXCEPT ![x] = r] /\ nmFresh' = [nmFresh EXCEPT ![x] = FALSE]
        /\ nmCache' = nmCache /\ todo' \subseteq todo /\ current' = current \ {x}
    BY <2>1 DEF OtherWrite
  <2> QED
    BY <2>2, SelectedForWrite
<1> QED
  BY <1>3, <1>4, <1>5, <1>6, <1>7, <1>8, <1>9, <1>10 DEF Next, Loop

\* Only Store sets a maintenance to Scheduled: the loop's copy was current.
LEMMA ScheduledFrom ==
  ASSUME LInv, Next, NEW x \in NM, Scheduled(x)
  PROVE  x \in current
<1>1. TypeOK /\ nm # nm' /\ nm'[x] = "Scheduled" /\ nm[x] # "Scheduled"
  BY DEF LInv, IInv, Scheduled
<1>2. CASE Loop
  <2>1. ~(ListNodes \/ ListMaintenances \/ EndLoop \/ \E y \in NM : Waited(y))
    BY <1>1 DEF ListNodes, ListMaintenances, EndLoop, Waited, objVars
  <2>2. PICK y \in NM : SetScheduled(y) \/ SetScheduledFails(y)
    BY <1>2, <2>1 DEF Loop
  <2>3. Store(y)
    BY <1>1, <2>2 DEF SetScheduled, SetScheduledFails
  <2> QED
    BY <1>1, <2>3 DEF Store, TypeOK
<1>3. CASE StoreOptions \/ EditConfig \/ SyncMaintenances \/ SyncNodes \/ Restart
  BY <1>1, <1>3
     DEF StoreOptions, EditConfig, SyncMaintenances, SyncNodes, Restart, objVars
<1>4. ASSUME NEW y \in NM,
             Create(y) \/ Register(y) \/ Withdraw(y) \/ Cordon(y) \/ Finish(y)
      PROVE  FALSE
  BY <1>1, <1>4
     DEF Create, Register, Withdraw, Cordon, Finish, OtherWrite, TypeOK, objVars
<1>5. ASSUME NEW n \in Node, ChangeNode(n)
      PROVE  FALSE
  BY <1>1, <1>5 DEF ChangeNode, objVars
<1> QED
  BY <1>2, <1>3, <1>4, <1>5 DEF Next

\* The scheduler keeps the guard of Schedule, which module NodeMaintenance has in
\* its place: whatever is selected from stale listings, delayed, lost or
\* overtaken by others, a maintenance set to Scheduled is one that Schedule
\* allows, for any cluster and limits.
THEOREM SchedulesAsModelled == Spec => ScheduledWhenAllowed
<1> DEFINE A == \A x \in NM : Scheduled(x) => Schedulable(x)
<1>1. Init => SInv
  BY InitLInv DEF Init, SInv, SelectedFor
<1>2. SInv /\ [Next]_vars => SInv'
  <2> SUFFICES ASSUME SInv, [Next]_vars
               PROVE  SInv'
    OBVIOUS
  <2>1. LInv'
    BY NextLInv DEF SInv
  <2>2. \A x \in NM : SelectedFor(x)'
    <3>1. CASE Next
      BY <3>1, NextSelectedFor
    <3>2. CASE UNCHANGED vars
      BY <3>2, SelectedForQuiet DEF vars
    <3> QED
      BY <3>1, <3>2
  <2> QED
    BY <2>1, <2>2 DEF SInv
<1>3. SInv /\ [Next]_vars => [A]_vars
  <2> SUFFICES ASSUME SInv, Next, NEW x \in NM, Scheduled(x)
               PROVE  Schedulable(x)
    OBVIOUS
  <2>1. x \in todo
    BY ScheduledStep DEF SInv
  <2>2. x \in current
    BY <2>1, ScheduledFrom DEF SInv
  <2>3. SelectedFor(x) /\ TodoOK(x)
    BY DEF SInv, LInv, IInv
  <2> QED
    BY <2>1, <2>2, <2>3 DEF SelectedFor, TodoOK, Schedulable
<1>4. ScheduledWhenAllowed <=> [][A]_vars
  BY DEF ScheduledWhenAllowed
<1> HIDE DEF A
<1> QED
  BY <1>1, <1>2, <1>3, <1>4, PTL DEF Spec

-----------------------------------------------------------------------------
(* One call of the default scheduler (module DefaultScheduler). *)

\* What is selected is what Schedule returns for the listing.
Called ==
  /\ listing \in Listings
  /\ selected # None
       => selected = Schedule(listing.nodes, listing.down, listing.reason, listing.opts)

LEMMA AlwaysCalled == CallSpec => []Called
<1>1. CallInit => Called
  BY DEF CallInit, Called
<1>2. Called /\ [Call]_callVars => Called'
  BY DEF Called, Call, callVars
<1> QED
  BY <1>1, <1>2, PTL DEF CallSpec

\* Whatever is listed and configured, the loop of Schedule over the sorted and
\* compacted candidates selects what the closed form says.
THEOREM AlwaysSelects == CallSpec => []ScheduleSelects
<1>1. Called => ScheduleSelects
  <2> SUFFICES ASSUME Called, selected # None
               PROVE  selected = Selection(listing.nodes, listing.down, listing.reason,
                                           listing.opts)
    BY DEF ScheduleSelects
  <2>1. /\ listing.nodes \in SUBSET Node /\ listing.down \in SUBSET listing.nodes
        /\ DOMAIN listing.reason \subseteq NM /\ listing.opts \in Options
    BY ListingsAssumption DEF Called
  <2> QED
    BY <2>1, ScheduleIsSelection DEF Called
<1> QED
  BY <1>1, AlwaysCalled, PTL

\* Whatever is listed, also with more nodes under maintenance or down than the
\* limits allow, what Schedule selects keeps both limits.
THEOREM AlwaysWithinLimits == CallSpec => []SelectionWithinLimits
<1>1. Called => SelectionWithinLimits
  <2> SUFFICES ASSUME Called, selected \notin {None, {}}
               PROVE  SelectionWithinLimits
    BY DEF SelectionWithinLimits
  <2>1. /\ listing.nodes \in SUBSET Node /\ listing.down \in SUBSET listing.nodes
        /\ DOMAIN listing.reason \subseteq NM /\ listing.opts \in Options
        /\ selected = Schedule(listing.nodes, listing.down, listing.reason, listing.opts)
        /\ selected # {}
    BY ListingsAssumption DEF Called
  <2>2. LimitsKept(listing.nodes, listing.down, listing.reason, listing.opts, selected)
    BY <2>1, WithinLimits
  <2> QED
    BY <2>2 DEF SelectionWithinLimits, LimitsKept
<1> QED
  BY <1>1, AlwaysCalled, PTL

=============================================================================
