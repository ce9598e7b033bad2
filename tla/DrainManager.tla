---------------------------- MODULE DrainManager ----------------------------
(***************************************************************************)
(* The drain manager and its requests: the locks, flags, context and wait  *)
(* group of internal/drain, used by workers that follow handleDrainState.  *)
(*                                                                         *)
(* A critical section of a request's lock contains no call that blocks and *)
(* is one step.  So are GetRequest and AddRequest, which find the lock of  *)
(* the manager free: a request being added is not yet known to anyone      *)
(* else.  RemoveRequest keeps the lock of the manager while it cancels the *)
(* drain and waits for its goroutine; its steps are separate.              *)
(*                                                                         *)
(* Request objects are taken from a finite set and used again once nobody  *)
(* refers to them, as a garbage-collected heap does.                       *)
(***************************************************************************)
CONSTANTS UID,     \* maintenances that are drained
          Pod,     \* pods
          Worker,  \* reconcile workers (the manager is safe for several)
          Req,     \* request objects
          Nil      \* nothing

ASSUME NilAssumption == Nil \notin UID \cup Worker \cup Req

VARIABLES
  requests,  \* requests[u]: managerImpl.drainRequests, or Nil
  lock,      \* the worker that holds managerImpl.mu, or Nil
  req,       \* req[r]: the fields of the request r
  done,      \* the requests whose context is cancelled
  stopped,   \* the context of the manager is cancelled: shutdown
  pods,      \* pods[u]: pods on the node of u
  unbound,   \* pods not yet bound to a node
  pc,        \* pc[w]: where worker w is
  uid,       \* uid[w]: the maintenance it reconciles, or Nil
  ref        \* ref[w]: the request it holds, or Nil

vars == <<requests, lock, req, done, stopped, pods, unbound, pc, uid, ref>>
workerVars == <<pc, uid, ref>>
nodeVars == <<pods, unbound>>

\* run: where the goroutine of the request is: not started, listing the pods,
\* evicting them, RunNodeDrain has returned, result recorded, wg.Done called.
Request == [uid : UID \cup {Nil}, started : BOOLEAN, finished : BOOLEAN, canceled : BOOLEAN,
            err : BOOLEAN, lastErr : BOOLEAN, targets : SUBSET Pod,
            run : {"none", "list", "evict", "returned", "recorded", "ended"}]

NewRequest(u) == [uid |-> u, started |-> FALSE, finished |-> FALSE, canceled |-> FALSE,
                  err |-> FALSE, lastErr |-> FALSE, targets |-> {}, run |-> "none"]

\* The wait group of r is not zero.
Active(r) == req[r].run \in {"list", "evict", "returned", "recorded"}

\* The context of r is cancelled, by its own cancel function or its parent's.
CtxDone(r) == r \in done \/ stopped

\* Nobody refers to r.
Unused(r) ==
  /\ \A u \in UID : requests[u] # r
  /\ \A w \in Worker : ref[w] # r
  /\ ~Active(r)

\* Mutants: a finished drain counts as a success; a cancelled request counts as
\* cancelled although its drain has succeeded.
StateIgnoringError(r) ==
  CASE req[r].finished -> "Success"
    [] ~req[r].finished /\ req[r].canceled -> "Canceled"
    [] ~req[r].finished /\ ~req[r].canceled /\ req[r].started -> "InProgress"
    [] OTHER -> "NotStarted"
StateCanceledFirst(r) ==
  CASE req[r].canceled -> "Canceled"
    [] ~req[r].canceled /\ req[r].finished -> IF req[r].lastErr THEN "Error" ELSE "Success"
    [] ~req[r].canceled /\ ~req[r].finished /\ req[r].started -> "InProgress"
    [] OTHER -> "NotStarted"

\* DrainRequest.State
State(r) ==
  CASE req[r].finished /\ ~req[r].lastErr -> "Success"
    [] req[r].finished /\ req[r].lastErr -> IF CtxDone(r) THEN "Canceled" ELSE "Error"
    [] ~req[r].finished /\ req[r].canceled -> "Canceled"
    [] ~req[r].finished /\ ~req[r].canceled /\ req[r].started -> "InProgress"
    [] OTHER -> "NotStarted"

-----------------------------------------------------------------------------
(* The workers. *)

At(w, k) == pc[w] = k /\ UNCHANGED <<stopped, nodeVars>>

Go(w, k) == pc' = [pc EXCEPT ![w] = k] /\ UNCHANGED <<uid, ref>>

Return(w) ==
  /\ pc' = [pc EXCEPT ![w] = "idle"]
  /\ uid' = [uid EXCEPT ![w] = Nil] /\ ref' = [ref EXCEPT ![w] = Nil]

\* A reconcile of u, which the work queue hands to one worker at a time.  It
\* counts the requests first, for a log line (ListRequests).  Then it needs the
\* drain, or the drain is no longer wanted (the maintenance is deleted, or has no
\* drain specification any more).
Begin(w, u) ==
  /\ At(w, "idle") /\ \A v \in Worker : uid[v] # u
  /\ lock = Nil
  /\ \E k \in {"get", "remove"} : pc' = [pc EXCEPT ![w] = k]
  /\ uid' = [uid EXCEPT ![w] = u] /\ UNCHANGED ref
  /\ UNCHANGED <<requests, lock, req, done>>

\* A request with another drain specification than the maintenance has now is
\* removed.
GetRequest(w) ==
  /\ At(w, "get") /\ lock = Nil
  /\ ref' = [ref EXCEPT ![w] = requests[uid[w]]]
  /\ \E k \in IF requests[uid[w]] = Nil THEN {"new"} ELSE {"remove", "inProgress"} :
       pc' = [pc EXCEPT ![w] = k]
  /\ UNCHANGED <<uid, requests, lock, req, done>>

\* NewDrainRequest, and the first report of the status, which may fail.
NewDrainRequest(w) ==
  /\ At(w, "new")
  /\ \/ Return(w) /\ UNCHANGED <<req, done>>
     \/ \E r \in Req :
          /\ Unused(r)
          /\ req' = [req EXCEPT ![r] = NewRequest(uid[w])] /\ done' = done \ {r}
          /\ ref' = [ref EXCEPT ![w] = r] /\ pc' = [pc EXCEPT ![w] = "add"]
          /\ UNCHANGED uid
  /\ UNCHANGED <<requests, lock>>

\* AddRequest and StartDrain; ErrDrainRequestExists is ignored by the caller.
AddRequest(w) ==
  LET u == uid[w]
      r == ref[w]
  IN /\ At(w, "add") /\ lock = Nil
     /\ IF requests[u] = Nil
          THEN /\ requests' = [requests EXCEPT ![u] = r]
               /\ req' = [req EXCEPT ![r].started = TRUE, ![r].run = "list"]
          ELSE UNCHANGED <<requests, req>>
     /\ Return(w) /\ UNCHANGED <<lock, done>>

\* handleDrainState looks at the state of the request three times.
CheckInProgress(w) ==
  /\ At(w, "inProgress")
  /\ IF State(ref[w]) = "InProgress" THEN Return(w) ELSE Go(w, "isError")
  /\ UNCHANGED <<requests, lock, req, done>>

CheckError(w) ==
  /\ At(w, "isError")
  /\ Go(w, IF State(ref[w]) = "Error" THEN "remove" ELSE "isCanceled")
  /\ UNCHANGED <<requests, lock, req, done>>

CheckCanceled(w) ==
  /\ At(w, "isCanceled")
  /\ Go(w, IF State(ref[w]) = "Canceled" THEN "remove" ELSE "completed")
  /\ UNCHANGED <<requests, lock, req, done>>

\* The drain is completed: its status is reported, and the request is removed
\* unless that fails.
Completed(w) ==
  /\ At(w, "completed") /\ (Go(w, "remove") \/ Return(w))
  /\ UNCHANGED <<requests, lock, req, done>>

-----------------------------------------------------------------------------
(* RemoveRequest and CancelDrain. *)

RemoveRequest(w) ==
  /\ At(w, "remove") /\ lock = Nil
  /\ IF requests[uid[w]] = Nil
       THEN Return(w) /\ UNCHANGED lock
       ELSE /\ lock' = w
            /\ ref' = [ref EXCEPT ![w] = requests[uid[w]]]
            /\ pc' = [pc EXCEPT ![w] = "cancel"] /\ UNCHANGED uid
  /\ UNCHANGED <<requests, req, done>>

CancelDrain(w) ==
  /\ At(w, "cancel")
  /\ req' = [req EXCEPT ![ref[w]].canceled = TRUE]
  /\ Go(w, "cfunc") /\ UNCHANGED <<requests, lock, done>>

\* Mutants: the context is not cancelled; it is looked up by the maintenance.
CancelContextSkipped(w) ==
  At(w, "cfunc") /\ Go(w, "wait") /\ UNCHANGED <<requests, lock, req, done>>
CancelContextOfUID(w) ==
  /\ At(w, "cfunc")
  /\ done' = done \cup {uid[w]}
  /\ Go(w, "wait") /\ UNCHANGED <<requests, lock, req>>

CancelContext(w) ==
  /\ At(w, "cfunc")
  /\ done' = done \cup {ref[w]}
  /\ Go(w, "wait") /\ UNCHANGED <<requests, lock, req>>

\* Mutant: the request is deleted while its goroutine is still at work.
DeleteRequestEarly(w) ==
  /\ At(w, "wait")
  /\ requests' = [requests EXCEPT ![uid[w]] = Nil]
  /\ lock' = Nil /\ Return(w) /\ UNCHANGED <<req, done>>

\* wg.Wait returns; the request is deleted, becomes garbage, and the lock is
\* released.
DeleteRequest(w) ==
  /\ At(w, "wait") /\ ~Active(ref[w])
  /\ requests' = [requests EXCEPT ![uid[w]] = Nil]
  /\ req' = [req EXCEPT ![ref[w]] = NewRequest(Nil)] /\ done' = done \ {ref[w]}
  /\ lock' = Nil /\ Return(w)

-----------------------------------------------------------------------------
(* The goroutine of a request: doDrain.  RunNodeDrain is kubectl's: it lists  *)
(* the pods, evicts them, and returns when they are gone, on an error, or     *)
(* once its context is cancelled.                                             *)

Run(r, k) == req[r].run = k /\ UNCHANGED <<requests, lock, done, stopped, workerVars>>

ListPods(r) ==
  /\ Run(r, "list")
  /\ req' = [req EXCEPT ![r].run = "evict", ![r].targets = pods[req[r].uid]]
  /\ UNCHANGED nodeVars

EvictPod(r, p) ==
  LET u == req[r].uid
  IN /\ Run(r, "evict") /\ p \in req[r].targets \cap pods[u]
     /\ pods' = [pods EXCEPT ![u] = @ \ {p}]
     /\ UNCHANGED <<req, unbound>>

DrainSucceeds(r) ==
  /\ Run(r, "evict") /\ req[r].targets \cap pods[req[r].uid] = {}
  /\ req' = [req EXCEPT ![r].run = "returned"]
  /\ UNCHANGED nodeVars

DrainFails(r) ==
  /\ Run(r, "list") \/ Run(r, "evict")
  /\ req' = [req EXCEPT ![r].run = "returned", ![r].err = TRUE]
  /\ UNCHANGED nodeVars

Record(r) ==
  /\ Run(r, "returned")
  /\ req' = [req EXCEPT ![r].run = "recorded", ![r].lastErr = req[r].err, ![r].finished = TRUE]
  /\ UNCHANGED nodeVars

WgDone(r) ==
  /\ Run(r, "recorded")
  /\ req' = [req EXCEPT ![r].run = "ended"]
  /\ UNCHANGED nodeVars

-----------------------------------------------------------------------------
(* The cluster and the operator's end. *)

BindPod(u, p) ==
  /\ p \in unbound /\ unbound' = unbound \ {p}
  /\ pods' = [pods EXCEPT ![u] = @ \cup {p}]
  /\ UNCHANGED <<requests, lock, req, done, stopped, workerVars>>

Shutdown ==
  /\ ~stopped /\ stopped' = TRUE
  /\ UNCHANGED <<requests, lock, req, done, nodeVars, workerVars>>

Init ==
  /\ requests = [u \in UID |-> Nil] /\ lock = Nil
  /\ req = [r \in Req |-> NewRequest(Nil)] /\ done = {} /\ stopped = FALSE
  /\ pods = [u \in UID |-> {}] /\ unbound = Pod
  /\ pc = [w \in Worker |-> "idle"] /\ uid = [w \in Worker |-> Nil]
  /\ ref = [w \in Worker |-> Nil]

Step(w) ==
  \/ GetRequest(w) \/ NewDrainRequest(w) \/ AddRequest(w)
  \/ CheckInProgress(w) \/ CheckError(w) \/ CheckCanceled(w) \/ Completed(w)
  \/ RemoveRequest(w) \/ CancelDrain(w) \/ CancelContext(w) \/ DeleteRequest(w)

DoDrain(r) ==
  \/ ListPods(r) \/ DrainSucceeds(r) \/ DrainFails(r) \/ Record(r) \/ WgDone(r)
  \/ \E p \in Pod : EvictPod(r, p)

Next ==
  \/ \E w \in Worker : Step(w) \/ \E u \in UID : Begin(w, u)
  \/ \E r \in Req : DoDrain(r)
  \/ \E u \in UID, p \in Pod : BindPod(u, p)
  \/ Shutdown

Spec == Init /\ [][Next]_vars

\* Workers and goroutines run, the lock is granted in turn, and RunNodeDrain
\* returns once its context is cancelled; otherwise a drain may take forever.
Fairness ==
  /\ \A w \in Worker : SF_vars(Step(w))
  /\ \A r \in Req : WF_vars(Record(r) \/ WgDone(r)) /\ WF_vars(CtxDone(r) /\ DrainFails(r))

FairSpec == Spec /\ Fairness

-----------------------------------------------------------------------------
(* Properties. *)

\* Type invariant.
TypeOK ==
  /\ requests \in [UID -> Req \cup {Nil}] /\ lock \in Worker \cup {Nil}
  /\ req \in [Req -> Request] /\ done \subseteq Req /\ stopped \in BOOLEAN
  /\ pods \in [UID -> SUBSET Pod] /\ unbound \subseteq Pod
  /\ pc \in [Worker -> {"idle", "get", "new", "add", "inProgress", "isError",
                        "isCanceled", "completed", "remove", "cancel", "cfunc", "wait"}]
  /\ uid \in [Worker -> UID \cup {Nil}] /\ ref \in [Worker -> Req \cup {Nil}]

\* A goroutine at work belongs to the request that the manager holds for its
\* maintenance: two drains of one node never run side by side, and none is at
\* work after RemoveRequest has returned (CancelDrain waits before the delete).
OneDrainAtWork == \A r \in Req : Active(r) => requests[req[r].uid] = r

\* A worker that takes a drain for completed, after its three looks at the state,
\* holds a request whose pods are all gone (handleDrainState).
CompletedIsReal ==
  \A w \in Worker : pc[w] = "completed" =>
    /\ req[ref[w]].finished
    /\ req[ref[w]].targets \cap pods[req[ref[w]].uid] = {}

\* The state of a request never goes back: what is over is not in progress again,
\* and a success stays one, whichever of cancellation and completion comes first
\* (State, doDrain, CancelDrain).
StateNeverRegresses ==
  [][\A r \in Req :
       State(r) \in {"Success", "Error", "Canceled"} /\ ~Unused(r)'
       => /\ State(r)' \in {"Success", "Error", "Canceled"}
          /\ State(r) = "Success" => State(r)' = "Success"]_vars

\* The state of the drain of u, as the abstract service has it.
VerdictOf(u) ==
  LET r == requests[u]
  IN CASE r = Nil -> "none"
       [] r # Nil /\ ~req[r].finished -> "running"
       [] r # Nil /\ req[r].finished /\ req[r].lastErr -> "failed"
       [] OTHER -> "success"

Service == INSTANCE DrainService WITH verdict <- [u \in UID |-> VerdictOf(u)]

\* The manager with its locks, cancellations and goroutines behaves like the
\* abstract drain service.
ImplementsService == Service!SSpec

\* Every reconcile gets through: no lock is held for good, and RemoveRequest
\* returns although it waits for the goroutine with the lock held.
WorkersReturn == \A w \in Worker : pc[w] # "idle" ~> pc[w] = "idle"
=============================================================================
