---------------------------- MODULE MCScheduling ----------------------------
(***************************************************************************)
(* Every listing of a small cluster, with limits of every kind.            *)
(***************************************************************************)
EXTENDS DefaultScheduler

MCNodeName == [x \in NM |-> IF x <= 2 THEN 1 ELSE x - 1]
MCRequestor == [x \in NM |-> x % 2]
MCCreated == [x \in NM |-> 5 - x]

\* Each node is under maintenance at most once (OnePerNode of
\* NodeMaintenanceScheduler).
MCReasons ==
  {f \in UNION {[S -> {"Uninitialized", "Pending", "Scheduled"}] : S \in SUBSET NM} :
     \A x, y \in DOMAIN f :
       f[x] = "Scheduled" /\ f[y] = "Scheduled" /\ NodeName[x] = NodeName[y] => x = y}

MCOptions ==
  [maxUnavailable : {Unset, Number(0), Number(2), Percent(50)},
   maxParallel : {Unset, Number(2), Percent(70)}]

MCListings ==
  UNION {[nodes : {ns}, down : SUBSET ns, reason : MCReasons, opts : MCOptions] :
           ns \in SUBSET Node}

=============================================================================
