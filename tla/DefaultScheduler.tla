-------------------------- MODULE DefaultScheduler --------------------------
(***************************************************************************)
(* One call of the default scheduler, on any of a set of listings: the     *)
(* only step computes the selection.                                       *)
(***************************************************************************)
EXTENDS Scheduling

CONSTANT Listings  \* listings of a cluster, with the limits

ASSUME ListingsAssumption ==
  \A l \in Listings :
    /\ l.nodes \subseteq Node /\ l.down \subseteq l.nodes /\ DOMAIN l.reason \subseteq NM
    /\ l.opts \in Options

VARIABLES listing, selected

callVars == <<listing, selected>>

\* Nothing is selected yet; no maintenance has this name.
None == {-1}

CallInit == listing \in Listings /\ selected = None

Call ==
  /\ selected = None
  /\ selected' = Schedule(listing.nodes, listing.down, listing.reason, listing.opts)
  /\ UNCHANGED listing

CallSpec == CallInit /\ [][Call]_callVars

-----------------------------------------------------------------------------
(* Properties. *)

\* The loop of the default scheduler over the sorted and compacted candidates
\* computes the selection in closed form.
ScheduleSelects ==
  selected # None =>
    selected = Selection(listing.nodes, listing.down, listing.reason, listing.opts)

\* What is selected keeps both limits, however the listing came about: more
\* nodes may be under maintenance, or down, than the limits allow now.
SelectionWithinLimits ==
  LET under == NodesUnderMaintenance(listing.nodes, listing.reason)
      chosen == NodesOf(selected)
      total == Cardinality(listing.nodes)
      unavailable == listing.down \cup under
      maxUnavailable == GetMaxUnavailableNodes(listing.opts.maxUnavailable, total)
  IN selected \notin {None, {}} =>
       /\ Cardinality(under \cup chosen) <= GetMaxOperations(listing.opts.maxParallel, total)
       /\ chosen \cap under = {} /\ Cardinality(chosen) = Cardinality(selected)
       /\ maxUnavailable >= 0 /\ ~(chosen \subseteq listing.down)
            => Cardinality(unavailable \cup chosen) <= maxUnavailable

=============================================================================
