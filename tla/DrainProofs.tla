----------------------------- MODULE DrainProofs -----------------------------
(***************************************************************************)
(* The drain manager, for any number of maintenances, workers and pods: at *)
(* most one goroutine works for a maintenance, a drain that is taken for   *)
(* completed has evicted what it set out to, the lock is kept only for a   *)
(* goroutine that was told to end, and the manager implements              *)
(* DrainService.                                                           *)
(*                                                                         *)
(* The argument rests on the work queue, which gives a maintenance to one  *)
(* worker at a time: whatever a worker knows of the request of its         *)
(* maintenance stays true until it acts on it itself (WorkerOK), and a     *)
(* request is cancelled only by the worker that holds the lock             *)
(* (RequestOK).                                                            *)
(***************************************************************************)
EXTENDS DrainManager, TLAPS

\* Zenon is enough for most steps; the others say what they need.
USE Zenon

Holding == {"cancel", "cfunc", "wait"}

\* A request that was started is the one of its maintenance; its flags follow its
\* goroutine; and only the holder of the lock cancels it.
RequestOK(r) ==
  /\ req[r].finished <=> req[r].run \in {"recorded", "ended"}
  /\ req[r].finished => req[r].lastErr = req[r].err
  /\ req[r].started <=> req[r].run # "none"
  /\ req[r].run # "none" => req[r].uid \in UID /\ requests[req[r].uid] = r
  /\ req[r].canceled => lock # Nil /\ ref[lock] = r /\ pc[lock] \in {"cfunc", "wait"}
  /\ r \in done => req[r].canceled
  /\ req[r].targets \cap unbound = {}
  /\ req[r].run \in {"returned", "recorded", "ended"} /\ ~req[r].err
       => req[r].targets \cap pods[req[r].uid] = {}

\* What a worker knows of its maintenance and of the request it holds.
WorkerOK(w) ==
  /\ uid[w] = Nil <=> pc[w] = "idle"
  /\ lock = w <=> pc[w] \in Holding
  /\ pc[w] \in {"idle", "get", "new"} => ref[w] = Nil
  /\ pc[w] \in {"new", "add"} => requests[uid[w]] = Nil
  /\ pc[w] = "add" => /\ ref[w] \in Req /\ req[ref[w]] = NewRequest(uid[w])
                      /\ \A v \in Worker : ref[v] = ref[w] => v = w
  /\ pc[w] # "add" /\ ref[w] # Nil => requests[uid[w]] = ref[w]
  /\ pc[w] \in Holding \cup {"inProgress", "isError", "isCanceled", "completed"} => ref[w] # Nil
  /\ pc[w] \in {"isError", "isCanceled", "completed"} => req[ref[w]].finished
  /\ pc[w] \in {"cfunc", "wait"} => req[ref[w]].canceled
  /\ pc[w] = "isCanceled" => ~req[ref[w]].lastErr \/ stopped
  /\ pc[w] = "completed" => ~req[ref[w]].lastErr

\* A worker has its maintenance to itself, and a maintenance its request.
Exclusive ==
  /\ \A v, w \in Worker : uid[v] = uid[w] /\ uid[v] # Nil => v = w
  /\ \A u \in UID : requests[u] # Nil => req[requests[u]].uid = u /\ req[requests[u]].run # "none"
  /\ \A u \in UID : pods[u] \cap unbound = {}

IInv ==
  /\ TypeOK /\ Exclusive
  /\ \A r \in Req : RequestOK(r)
  /\ \A w \in Worker : WorkerOK(w)

-----------------------------------------------------------------------------
LEMMA InitIInv == Init => IInv
<1> SUFFICES ASSUME Init
             PROVE  IInv
  OBVIOUS
<1>1. TypeOK
  BY DEF Init, TypeOK, NewRequest, Request
<1>2. Exclusive
  BY DEF Init, Exclusive
<1>3. \A r \in Req : RequestOK(r)
  BY DEF Init, RequestOK, NewRequest
<1>4. \A w \in Worker : WorkerOK(w)
  BY NilAssumption DEF Init, WorkerOK, Holding
<1> QED
  BY <1>1, <1>2, <1>3, <1>4 DEF IInv

\* A worker that has not begun to cancel holds a request nobody has cancelled.
LEMMA HeldNotCanceled ==
  ASSUME IInv, NEW w \in Worker, pc[w] \notin Holding \cup {"add"}, ref[w] # Nil
  PROVE  /\ ref[w] \in Req /\ uid[w] \in UID /\ requests[uid[w]] = ref[w]
         /\ ~req[ref[w]].canceled /\ ref[w] \notin done
<1>1. ref[w] \in Req /\ uid[w] \in UID /\ requests[uid[w]] = ref[w] /\ lock # w
  BY DEF IInv, TypeOK, WorkerOK, Holding
<1>2. ASSUME req[ref[w]].canceled
      PROVE  FALSE
  <2>1. lock \in Worker /\ ref[lock] = ref[w] /\ pc[lock] \in {"cfunc", "wait"}
    BY <1>1, <1>2 DEF IInv, TypeOK, RequestOK
  <2>2. uid[lock] \in UID /\ requests[uid[lock]] = ref[lock]
    BY <1>1, <2>1, NilAssumption DEF IInv, TypeOK, WorkerOK
  <2> QED
    BY <1>1, <2>1, <2>2, NilAssumption, SMT DEF IInv, Exclusive
<1> QED
  BY <1>1, <1>2 DEF IInv, RequestOK

\* A request to be added is not yet one of a maintenance.
LEMMA AddedIsNew ==
  ASSUME IInv, NEW w \in Worker, pc[w] = "add"
  PROVE  /\ ref[w] \in Req /\ uid[w] \in UID /\ requests[uid[w]] = Nil
         /\ req[ref[w]] = NewRequest(uid[w]) /\ req[ref[w]].run = "none"
         /\ \A u \in UID : requests[u] # ref[w]
<1>1. WorkerOK(w) /\ uid[w] \in UID \cup {Nil}
  BY DEF IInv, TypeOK
<1>2. /\ ref[w] \in Req /\ uid[w] \in UID /\ requests[uid[w]] = Nil
      /\ req[ref[w]] = NewRequest(uid[w])
  BY <1>1 DEF WorkerOK
<1>3. req[ref[w]].run = "none"
  BY <1>2, SMT DEF NewRequest
<1> QED
  BY <1>2, <1>3, NilAssumption DEF IInv, Exclusive

\* What a worker may rely on in a request while others are at work.
Kept(q) ==
  \/ req'[q] = req[q]
  \/ /\ req[q].run # "none" /\ (req[q].canceled => req'[q].canceled)
     /\ req[q].finished => req'[q].finished /\ req'[q].lastErr = req[q].lastErr

\* A worker that is not the one to move.
LEMMA OtherWorker ==
  ASSUME IInv, NEW v \in Worker,
         pc'[v] = pc[v], uid'[v] = uid[v], ref'[v] = ref[v], lock' = v <=> lock = v,
         stopped => stopped', uid[v] \in UID => requests'[uid[v]] = requests[uid[v]],
         ref[v] \in Req => Kept(ref[v]),
         pc[v] = "add" => \A x \in Worker : ref'[x] = ref[v] => x = v
  PROVE  WorkerOK(v)'
<1>1. /\ WorkerOK(v) /\ uid[v] \in UID \cup {Nil} /\ ref[v] \in Req \cup {Nil}
      /\ pc[v] # "idle" => uid[v] \in UID
  BY DEF IInv, TypeOK, WorkerOK
<1>2. CASE pc[v] = "add"
  <2>1. ref[v] \in Req /\ req'[ref[v]] = req[ref[v]]
    BY <1>2, AddedIsNew DEF Kept
  <2> QED
    BY <1>1, <1>2, <2>1 DEF WorkerOK, Holding
<1>3. CASE pc[v] # "add"
  <2>1. CASE ref[v] = Nil
    BY <1>1, <1>3, <2>1 DEF WorkerOK, Holding
  <2>2. CASE ref[v] \in Req
    BY <1>1, <1>3, <2>2 DEF WorkerOK, Holding, Kept
  <2> QED
    BY <1>1, <2>1, <2>2
<1> QED
  BY <1>2, <1>3

\* NewDrainRequest when the report of the status fails.
GiveUp(w) == At(w, "new") /\ Return(w) /\ UNCHANGED <<requests, lock, req, done>>

\* Steps of a worker that leave the requests alone.
LEMMA LookPreserves ==
  ASSUME IInv, NEW w \in Worker, NEW u \in UID,
         \/ Begin(w, u) \/ GetRequest(w) \/ CheckInProgress(w) \/ CheckError(w)
         \/ CheckCanceled(w) \/ Completed(w) \/ GiveUp(w)
  PROVE  IInv'
<1>1. /\ UNCHANGED <<requests, lock, req, done, stopped, pods, unbound>>
      /\ pc[w] \notin Holding /\ pc'[w] \notin Holding
      /\ \A v \in Worker \ {w} : pc'[v] = pc[v] /\ uid'[v] = uid[v] /\ ref'[v] = ref[v]
  BY SMT DEF IInv, TypeOK, Begin, GetRequest, CheckInProgress, CheckError, CheckCanceled, Completed,
         GiveUp, At, Go, Return, Holding, nodeVars
<1>2. TypeOK'
  <2>1. uid[w] = Nil \/ requests[uid[w]] \in Req \cup {Nil}
    BY DEF IInv, TypeOK
  <2>2. pc[w] # "idle" => uid[w] # Nil
    BY DEF IInv, WorkerOK
  <2> QED
    BY <1>1, <2>1, <2>2, SMT DEF IInv, TypeOK, Begin, GetRequest, CheckInProgress, CheckError,
       CheckCanceled, Completed, GiveUp, At, Go, Return
<1>3. Exclusive'
  BY <1>1, SMT DEF IInv, TypeOK, Exclusive, Begin, GetRequest, CheckInProgress, CheckError, CheckCanceled, Completed,
         GiveUp, At, Go, Return
<1>4. \A r \in Req : RequestOK(r)'
  BY <1>1, SMT DEF IInv, TypeOK, RequestOK, WorkerOK
<1>5. ASSUME NEW v \in Worker \ {w}
      PROVE  WorkerOK(v)'
  <2>1. pc[v] = "add" => ref'[w] # ref[v]
    <3>1. CASE GetRequest(w)
      <4>1. ref'[w] = requests[uid[w]] /\ uid[w] \in UID
        BY <3>1, SMT DEF IInv, TypeOK, WorkerOK, GetRequest, At
      <4> QED
        BY <4>1, AddedIsNew
    <3>2. CASE ~GetRequest(w)
      BY <3>2, NilAssumption, SMT DEF IInv, TypeOK, WorkerOK, Begin, CheckInProgress, CheckError,
         CheckCanceled, Completed, GiveUp, At, Go, Return
    <3> QED
      BY <3>1, <3>2
  <2>2. pc[v] = "add" => \A x \in Worker : ref'[x] = ref[v] => x = v
    BY <1>1, <1>5, <2>1, SMT DEF IInv, WorkerOK
  <2> QED
    BY <1>1, <1>5, <2>2, OtherWorker DEF Kept
<1>6. WorkerOK(w)'
  <2>1. CASE Begin(w, u)
    BY <1>1, <2>1, NilAssumption, SMT DEF IInv, TypeOK, WorkerOK, Begin, At, Holding
  <2>2. CASE GetRequest(w)
    BY <1>1, <2>2, NilAssumption, SMT DEF IInv, TypeOK, WorkerOK, GetRequest, At, Holding
  <2>3. CASE CheckInProgress(w)
    <3>1. /\ uid[w] \in UID /\ requests[uid[w]] = ref[w] /\ ref[w] \in Req
          /\ ~req[ref[w]].canceled
      BY <1>1, <2>3, HeldNotCanceled DEF IInv, WorkerOK, CheckInProgress, At
    <3>2. req[ref[w]].started
      BY <3>1, NilAssumption, SMT DEF IInv, RequestOK, Exclusive
    <3>3. State(ref[w]) # "InProgress" => req[ref[w]].finished
      BY <3>1, <3>2 DEF State, IInv, TypeOK, Request
    <3> QED
      BY <1>1, <2>3, <3>1, <3>3, NilAssumption, SMT DEF IInv, TypeOK, WorkerOK, CheckInProgress, At, Go, Return, Holding
  <2>4. CASE CheckError(w)
    <3>1. req[ref[w]].finished /\ ref[w] # Nil
      BY <2>4 DEF IInv, WorkerOK, CheckError, At
    <3>2. ref[w] \in Req /\ requests[uid[w]] = ref[w] /\ ref[w] \notin done
      BY <1>1, <2>4, <3>1, HeldNotCanceled DEF CheckError, At
    <3>3. State(ref[w]) # "Error" => ~req[ref[w]].lastErr \/ stopped
      BY <3>1, <3>2 DEF State, CtxDone
    <3> QED
      BY <1>1, <2>4, <3>1, <3>2, <3>3, NilAssumption, SMT DEF IInv, TypeOK, WorkerOK, CheckError, At, Go, Holding
  <2>5. CASE CheckCanceled(w)
    BY <1>1, <2>5, NilAssumption, SMT DEF IInv, TypeOK, WorkerOK, CheckCanceled, At, Go, Holding, State, CtxDone
  <2>6. CASE Completed(w)
    BY <1>1, <2>6, NilAssumption, SMT DEF IInv, TypeOK, WorkerOK, Completed, At, Go, Return, Holding
  <2>7. CASE GiveUp(w)
    BY <1>1, <2>7, NilAssumption, SMT DEF IInv, TypeOK, WorkerOK, GiveUp, At, Return, Holding
  <2> QED
    BY <2>1, <2>2, <2>3, <2>4, <2>5, <2>6, <2>7
<1> QED
  BY <1>2, <1>3, <1>4, <1>5, <1>6 DEF IInv

\* A new request is one that nobody refers to.
LEMMA NewPreserves ==
  ASSUME IInv, NEW w \in Worker, NewDrainRequest(w)
  PROVE  IInv'
<1>1. CASE GiveUp(w)
  <2>1. uid[w] \in UID
    BY <1>1, SMT DEF IInv, TypeOK, WorkerOK, GiveUp, At
  <2> QED
    BY <1>1, <2>1, LookPreserves
<1>2. ASSUME NEW r \in Req, At(w, "new"), Unused(r),
             req' = [req EXCEPT ![r] = NewRequest(uid[w])], done' = done \ {r},
             ref' = [ref EXCEPT ![w] = r], pc' = [pc EXCEPT ![w] = "add"], UNCHANGED uid,
             UNCHANGED <<requests, lock>>
      PROVE  IInv'
  <2>1. /\ uid[w] \in UID /\ ref[w] = Nil /\ requests[uid[w]] = Nil /\ lock # w
        /\ UNCHANGED <<stopped, pods, unbound>>
    BY <1>2 DEF IInv, TypeOK, WorkerOK, At, Holding, nodeVars
  <2>2. /\ \A u \in UID : requests[u] # r
        /\ \A v \in Worker : ref[v] # r
    BY <1>2 DEF Unused
  <2>3. NewRequest(uid[w]) \in Request
    BY <2>1 DEF NewRequest, Request
  <2>4. TypeOK'
    BY <1>2, <2>1, <2>3 DEF IInv, TypeOK
  <2>5. Exclusive'
    BY <1>2, <2>1, <2>2, NilAssumption, SMT DEF IInv, TypeOK, Exclusive
  <2>6. ASSUME NEW q \in Req
        PROVE  RequestOK(q)'
    <3>1. CASE q = r
      BY <1>2, <2>1, <3>1, SMT DEF IInv, TypeOK, RequestOK, NewRequest
    <3>2. CASE q # r
      BY <1>2, <2>1, <3>2, SMT DEF IInv, TypeOK, RequestOK, WorkerOK
    <3> QED
      BY <3>1, <3>2
  <2>7. ASSUME NEW v \in Worker \ {w}
        PROVE  WorkerOK(v)'
    <3>1. /\ pc'[v] = pc[v] /\ uid'[v] = uid[v] /\ ref'[v] = ref[v]
          /\ \A x \in Worker \ {w} : ref'[x] = ref[x]
          /\ ref'[w] = r
      BY <1>2, <2>7 DEF IInv, TypeOK
    <3>2. ref[v] \in Req => Kept(ref[v])
      BY <1>2, <2>2, <2>7 DEF IInv, TypeOK, Kept
    <3>3. pc[v] = "add" => \A x \in Worker : ref'[x] = ref[v] => x = v
      BY <2>2, <2>7, <3>1, SMT DEF IInv, WorkerOK
    <3> QED
      BY <1>2, <2>1, <2>7, <3>1, <3>2, <3>3, OtherWorker
  <2>8. WorkerOK(w)'
    BY <1>2, <2>1, <2>2, NilAssumption, SMT DEF IInv, TypeOK, WorkerOK, Holding
  <2> QED
    BY <2>4, <2>5, <2>6, <2>7, <2>8 DEF IInv
<1> QED
  BY <1>1, <1>2 DEF NewDrainRequest, GiveUp

LEMMA AddPreserves ==
  ASSUME IInv, NEW w \in Worker, AddRequest(w)
  PROVE  IInv'
<1> DEFINE u == uid[w]
           r == ref[w]
<1>1. /\ r \in Req /\ u \in UID /\ requests[u] = Nil
      /\ req[r] = NewRequest(u) /\ \A t \in UID : requests[t] # r
  BY AddedIsNew DEF AddRequest, At
<1>2. /\ requests' = [requests EXCEPT ![u] = r]
      /\ req' = [req EXCEPT ![r].started = TRUE, ![r].run = "list"]
      /\ pc' = [pc EXCEPT ![w] = "idle"] /\ uid' = [uid EXCEPT ![w] = Nil]
      /\ ref' = [ref EXCEPT ![w] = Nil]
      /\ pc[w] = "add" /\ lock = Nil /\ UNCHANGED <<lock, done, stopped, pods, unbound>>
  BY <1>1 DEF AddRequest, At, Return, nodeVars
<1>3. req'[r] = [NewRequest(u) EXCEPT !.started = TRUE, !.run = "list"]
  BY <1>1, <1>2 DEF IInv, TypeOK
<1>4. \A v \in Worker \ {w} : ref[v] # r
  BY <1>2, SMT DEF IInv, WorkerOK
<1>5. \A q \in Req \ {r} : req'[q] = req[q]
  BY <1>2 DEF IInv, TypeOK
<1>6. TypeOK'
  <2>1. req' \in [Req -> Request]
    BY <1>1, <1>2 DEF IInv, TypeOK, NewRequest, Request
  <2> QED
    BY <1>1, <1>2, <2>1 DEF IInv, TypeOK
<1>7. Exclusive'
  <2>1. req'[r].uid = u /\ req'[r].run = "list"
    BY <1>3 DEF NewRequest
  <2> QED
    BY <1>1, <1>2, <1>5, <2>1, NilAssumption, SMT DEF IInv, TypeOK, Exclusive
<1>8. ASSUME NEW q \in Req
      PROVE  RequestOK(q)'
  <2>1. CASE q = r
    <3>1. requests'[u] = r
      BY <1>1, <1>2 DEF IInv, TypeOK
    <3>2. r \notin done
      BY <1>1, SMT DEF IInv, RequestOK, NewRequest
    <3>3. /\ req'[r].uid = u /\ req'[r].started /\ ~req'[r].finished /\ ~req'[r].canceled
          /\ req'[r].targets = {} /\ req'[r].run = "list"
      BY <1>3 DEF NewRequest
    <3> QED
      BY <1>1, <1>2, <2>1, <3>1, <3>2, <3>3 DEF RequestOK
  <2>2. CASE q # r
    <3>1. req[q].run # "none" => req[q].uid # u
      BY <1>1, <2>2, NilAssumption, SMT DEF IInv, RequestOK
    <3> QED
      BY <1>1, <1>2, <1>5, <2>2, <3>1, SMT DEF IInv, TypeOK, RequestOK
  <2> QED
    BY <2>1, <2>2
<1>9. ASSUME NEW v \in Worker \ {w}
      PROVE  WorkerOK(v)'
  <2>1. uid[v] # u
    BY <1>1, <1>9, NilAssumption DEF IInv, Exclusive
  <2>2. /\ pc'[v] = pc[v] /\ uid'[v] = uid[v] /\ ref'[v] = ref[v]
        /\ uid[v] \in UID => requests'[uid[v]] = requests[uid[v]]
    BY <1>1, <1>2, <1>9, <2>1 DEF IInv, TypeOK
  <2>3. ref[v] \in Req => Kept(ref[v])
    BY <1>4, <1>5, <1>9 DEF Kept
  <2>4. pc[v] = "add" => \A x \in Worker : ref'[x] = ref[v] => x = v
    <3>1. pc[v] = "add" => ref[v] # Nil
      BY <1>9, AddedIsNew, NilAssumption
    <3> QED
      BY <1>2, <1>9, <3>1, SMT DEF IInv, TypeOK, WorkerOK
  <2> QED
    BY <1>2, <1>9, <2>2, <2>3, <2>4, OtherWorker
<1>10. WorkerOK(w)'
  BY <1>2, NilAssumption, SMT DEF IInv, TypeOK, WorkerOK, Holding
<1> QED
  BY <1>6, <1>7, <1>8, <1>9, <1>10 DEF IInv

\* RemoveRequest and CancelDrain, up to the wait.
LEMMA CancelPreserves ==
  ASSUME IInv, NEW w \in Worker, RemoveRequest(w) \/ CancelDrain(w) \/ CancelContext(w)
  PROVE  IInv'
<1>1. CASE RemoveRequest(w)
  <2>1. /\ pc[w] = "remove" /\ lock = Nil /\ uid[w] \in UID
        /\ UNCHANGED <<requests, req, done, stopped, pods, unbound>>
    BY <1>1 DEF IInv, TypeOK, WorkerOK, RemoveRequest, At, nodeVars
  <2>2. \A q \in Req : ~req[q].canceled
    BY <2>1 DEF IInv, RequestOK
  <2>3. \A v \in Worker \ {w} : pc'[v] = pc[v] /\ uid'[v] = uid[v] /\ ref'[v] = ref[v]
    BY <1>1 DEF IInv, TypeOK, RemoveRequest, Return
  <2>4. TypeOK'
    BY <1>1, <2>1 DEF IInv, TypeOK, RemoveRequest, Return
  <2>5. Exclusive'
    BY <1>1, <2>1, SMT DEF IInv, TypeOK, Exclusive, RemoveRequest, Return
  <2>6. \A q \in Req : RequestOK(q)'
    BY <2>1, <2>2 DEF IInv, RequestOK
  <2>7. ASSUME NEW v \in Worker \ {w}
        PROVE  WorkerOK(v)'
    <3>1. pc[v] \notin Holding /\ lock' # v
      BY <1>1, <2>1, <2>7, NilAssumption, SMT DEF IInv, WorkerOK, RemoveRequest
    <3>2. pc[v] = "add" => ref'[w] # ref[v]
      BY <1>1, <2>1, <2>7, AddedIsNew, NilAssumption, SMT DEF IInv, TypeOK, RemoveRequest, Return
    <3>3. pc[v] = "add" => \A x \in Worker : ref'[x] = ref[v] => x = v
      BY <2>3, <2>7, <3>2, SMT DEF IInv, WorkerOK
    <3> QED
      BY <2>1, <2>3, <2>7, <3>1, <3>3, OtherWorker, NilAssumption DEF Kept
  <2>8. WorkerOK(w)'
    BY <1>1, <2>1, NilAssumption, SMT DEF IInv, TypeOK, WorkerOK, RemoveRequest, Return, Holding
  <2> QED
    BY <2>4, <2>5, <2>6, <2>7, <2>8 DEF IInv
<1>2. ASSUME CancelDrain(w) \/ CancelContext(w)
      PROVE  IInv'
  <2> DEFINE r == ref[w]
  <2>1. /\ lock = w /\ r \in Req /\ uid[w] \in UID /\ requests[uid[w]] = r
        /\ UNCHANGED <<requests, lock, uid, ref, stopped, pods, unbound>>
    BY <1>2 DEF IInv, TypeOK, WorkerOK, CancelDrain, CancelContext, At, Go, Holding, nodeVars
  <2>2. /\ pc' = [pc EXCEPT ![w] = pc'[w]] /\ pc[w] \in {"cancel", "cfunc"}
        /\ pc'[w] \in {"cfunc", "wait"}
    BY <1>2 DEF IInv, TypeOK, CancelDrain, CancelContext, At, Go
  <2>3. /\ req' \in [Req -> Request]
        /\ \A q \in Req : /\ req'[q].uid = req[q].uid /\ req'[q].started = req[q].started
                           /\ req'[q].finished = req[q].finished /\ req'[q].err = req[q].err
                           /\ req'[q].lastErr = req[q].lastErr /\ req'[q].targets = req[q].targets
                           /\ req'[q].run = req[q].run
        /\ \A q \in Req \ {r} : req'[q] = req[q] /\ (q \in done' => q \in done)
    <3>1. CASE CancelDrain(w)
      <4>1. req[r] \in Request /\ req' = [req EXCEPT ![r].canceled = TRUE] /\ done' = done
        BY <2>1, <3>1 DEF IInv, TypeOK, CancelDrain
      <4>2. [req[r] EXCEPT !.canceled = TRUE] \in Request
        BY <4>1 DEF Request
      <4>3. \A q \in Req : req'[q] = IF q = r THEN [req[r] EXCEPT !.canceled = TRUE] ELSE req[q]
        BY <4>1 DEF IInv, TypeOK
      <4>4. req' \in [Req -> Request]
        BY <4>1, <4>2, <4>3 DEF IInv, TypeOK
      <4> QED
        BY <4>1, <4>3, <4>4 DEF IInv, TypeOK, Request
    <3>2. CASE CancelContext(w)
      BY <2>1, <3>2 DEF IInv, TypeOK, CancelContext
    <3> QED
      BY <1>2, <3>1, <3>2
  <2>4. req'[r].canceled
    <3>1. CASE CancelDrain(w)
      BY <2>1, <3>1, SMT DEF IInv, TypeOK, CancelDrain
    <3>2. CASE CancelContext(w)
      BY <2>1, <3>2 DEF IInv, WorkerOK, CancelContext, At
    <3> QED
      BY <1>2, <3>1, <3>2
  <2>5. TypeOK'
    BY <1>2, <2>1, <2>2, <2>3, SMT DEF IInv, TypeOK, CancelDrain, CancelContext
  <2>6. Exclusive'
    BY <2>1, <2>3, SMT DEF IInv, TypeOK, Exclusive
  <2>7. ASSUME NEW q \in Req
        PROVE  RequestOK(q)'
    <3>1. CASE q = r
      BY <2>1, <2>2, <2>3, <2>4, <3>1, NilAssumption, SMT DEF IInv, TypeOK, RequestOK
    <3>2. CASE q # r
      BY <2>1, <2>2, <2>3, <3>2, SMTT(30) DEF IInv, TypeOK, RequestOK
    <3> QED
      BY <3>1, <3>2
  <2>8. ASSUME NEW v \in Worker \ {w}
        PROVE  WorkerOK(v)'
    <3>1. pc'[v] = pc[v]
      BY <2>2, <2>8 DEF IInv, TypeOK
    <3>2. ref[v] \in Req => Kept(ref[v])
      <4>1. req[r].run # "none"
        BY <2>1, NilAssumption DEF IInv, Exclusive
      <4> QED
        BY <2>3, <2>4, <4>1 DEF Kept
    <3>3. pc[v] = "add" => \A x \in Worker : ref'[x] = ref[v] => x = v
      BY <2>1, <2>8 DEF IInv, WorkerOK
    <3> QED
      BY <2>1, <2>8, <3>1, <3>2, <3>3, OtherWorker
  <2>9. WorkerOK(w)'
    BY <2>1, <2>2, <2>4, NilAssumption DEF IInv, TypeOK, WorkerOK, Holding
  <2> QED
    BY <2>5, <2>6, <2>7, <2>8, <2>9 DEF IInv
<1> QED
  BY <1>1, <1>2

\* Nobody else refers to the request that is being removed.
LEMMA HeldAlone ==
  ASSUME IInv, NEW w \in Worker, pc[w] = "wait"
  PROVE  /\ \A t \in UID : requests[t] = ref[w] => t = uid[w]
         /\ \A v \in Worker \ {w} : ref[v] # ref[w]
<1>1. uid[w] \in UID /\ requests[uid[w]] = ref[w] /\ ref[w] \in Req
  BY DEF IInv, TypeOK, WorkerOK, Holding
<1>2. \A t \in UID : requests[t] = ref[w] => t = uid[w]
  BY <1>1, NilAssumption, SMT DEF IInv, Exclusive
<1>3. ASSUME NEW v \in Worker \ {w}, ref[v] = ref[w]
      PROVE  FALSE
  <2>1. CASE pc[v] = "add"
    BY <1>1, <1>3, <2>1, AddedIsNew
  <2>2. CASE pc[v] # "add"
    <3>1. requests[uid[v]] = ref[w] /\ uid[v] \in UID
      BY <1>1, <1>3, <2>2, NilAssumption, SMT DEF IInv, TypeOK, WorkerOK
    <3> QED
      BY <1>1, <1>2, <1>3, <3>1, NilAssumption DEF IInv, Exclusive
  <2> QED
    BY <2>1, <2>2
<1> QED
  BY <1>2, <1>3

\* RemoveRequest once the goroutine has ended.
LEMMA DeletePreserves ==
  ASSUME IInv, NEW w \in Worker, DeleteRequest(w)
  PROVE  IInv'
<1> DEFINE u == uid[w]
           r == ref[w]
<1>1. /\ pc[w] = "wait" /\ lock = w /\ r \in Req /\ u \in UID /\ requests[u] = r
      /\ ~Active(r)
  BY DEF IInv, TypeOK, WorkerOK, DeleteRequest, At, Holding
<1>2. /\ requests' = [requests EXCEPT ![u] = Nil]
      /\ req' = [req EXCEPT ![r] = NewRequest(Nil)] /\ done' = done \ {r}
      /\ pc' = [pc EXCEPT ![w] = "idle"] /\ uid' = [uid EXCEPT ![w] = Nil]
      /\ ref' = [ref EXCEPT ![w] = Nil]
      /\ lock' = Nil /\ UNCHANGED <<stopped, pods, unbound>>
  BY DEF DeleteRequest, At, Return, nodeVars
<1>3. NewRequest(Nil) \in Request
  BY DEF NewRequest, Request
<1>4. /\ \A t \in UID : requests[t] = r => t = u
      /\ \A v \in Worker \ {w} : ref[v] # r
  BY <1>1, HeldAlone
<1>5. TypeOK'
  BY <1>1, <1>2, <1>3 DEF IInv, TypeOK
<1>6. Exclusive'
  BY <1>1, <1>2, <1>4, NilAssumption, SMT DEF IInv, TypeOK, Exclusive
<1>7. ASSUME NEW q \in Req
      PROVE  RequestOK(q)'
  <2>1. CASE q = r
    <3>1. /\ ~req'[r].started /\ ~req'[r].finished /\ ~req'[r].canceled
          /\ req'[r].targets = {} /\ req'[r].run = "none"
      BY <1>1, <1>2 DEF IInv, TypeOK, NewRequest
    <3> QED
      BY <1>2, <2>1, <3>1 DEF RequestOK
  <2>2. CASE q # r
    <3>1. req'[q] = req[q]
      BY <1>2, <2>2 DEF IInv, TypeOK
    <3>2. req[q].run # "none" => req[q].uid # u
      BY <1>1, <2>2, SMT DEF IInv, RequestOK
    <3>3. ~req[q].canceled
      BY <1>1, <2>2, SMT DEF IInv, RequestOK
    <3> QED
      BY <1>1, <1>2, <2>2, <3>1, <3>2, <3>3, SMT DEF IInv, TypeOK, RequestOK
  <2> QED
    BY <2>1, <2>2
<1>8. ASSUME NEW v \in Worker \ {w}
      PROVE  WorkerOK(v)'
  <2>1. uid[v] # u
    BY <1>1, <1>8, NilAssumption DEF IInv, Exclusive
  <2>2. /\ pc'[v] = pc[v] /\ uid'[v] = uid[v] /\ ref'[v] = ref[v]
        /\ uid[v] \in UID => requests'[uid[v]] = requests[uid[v]]
    BY <1>1, <1>2, <1>8, <2>1 DEF IInv, TypeOK
  <2>3. ref[v] \in Req => Kept(ref[v])
    BY <1>2, <1>4, <1>8 DEF IInv, TypeOK, Kept
  <2>4. pc[v] = "add" => \A x \in Worker : ref'[x] = ref[v] => x = v
    <3>1. pc[v] = "add" => ref[v] # Nil
      BY <1>8, AddedIsNew, NilAssumption
    <3> QED
      BY <1>2, <1>8, <3>1, SMT DEF IInv, TypeOK, WorkerOK
  <2> QED
    BY <1>1, <1>2, <1>8, <2>2, <2>3, <2>4, OtherWorker, NilAssumption
<1>9. WorkerOK(w)'
  BY <1>2, NilAssumption, SMTT(30) DEF IInv, TypeOK, WorkerOK, Holding
<1> QED
  BY <1>5, <1>6, <1>7, <1>8, <1>9 DEF IInv

\* What a step of the goroutine of r does to its request.
LEMMA DrainStep ==
  ASSUME IInv, NEW r \in Req, DoDrain(r)
  PROVE  /\ UNCHANGED <<requests, lock, done, stopped, pc, uid, ref, unbound>>
         /\ req[r].run # "none" /\ req[r].uid \in UID /\ requests[req[r].uid] = r
         /\ req' \in [Req -> Request] /\ pods' \in [UID -> SUBSET Pod]
         /\ \A q \in Req \ {r} : req'[q] = req[q]
         /\ \A u \in UID : pods'[u] \subseteq pods[u]
         /\ req'[r].uid = req[r].uid /\ req'[r].canceled = req[r].canceled
         /\ req'[r].started = req[r].started /\ req'[r].run # "none"
         /\ req[r].finished => req'[r].finished /\ req'[r].lastErr = req[r].lastErr
<1>1. req[r].run # "none" /\ req[r] \in Request /\ pods \in [UID -> SUBSET Pod]
  BY DEF IInv, TypeOK, DoDrain, ListPods, EvictPod, DrainSucceeds, DrainFails, Record, WgDone, Run
<1>2. /\ req[r].uid \in UID /\ requests[req[r].uid] = r
      /\ req[r].finished <=> req[r].run \in {"recorded", "ended"}
  BY <1>1 DEF IInv, RequestOK
<1>3. /\ UNCHANGED <<requests, lock, done, stopped, pc, uid, ref, unbound>>
      /\ pods' \in [UID -> SUBSET Pod] /\ \A u \in UID : pods'[u] \subseteq pods[u]
  BY <1>1, <1>2, SMT DEF DoDrain, ListPods, EvictPod, DrainSucceeds, DrainFails, Record, WgDone, Run,
     workerVars, nodeVars
<1>4. ASSUME NEW new \in Request, req' = [req EXCEPT ![r] = new], new.uid = req[r].uid,
             new.canceled = req[r].canceled, new.started = req[r].started, new.run # "none",
             req[r].finished => new.finished /\ new.lastErr = req[r].lastErr
      PROVE  /\ req' \in [Req -> Request] /\ \A q \in Req \ {r} : req'[q] = req[q]
             /\ req'[r].uid = req[r].uid /\ req'[r].canceled = req[r].canceled
             /\ req'[r].started = req[r].started /\ req'[r].run # "none"
             /\ req[r].finished => req'[r].finished /\ req'[r].lastErr = req[r].lastErr
  BY <1>4 DEF IInv, TypeOK
<1>5. CASE ListPods(r)
  <2> DEFINE new == [req[r] EXCEPT !.run = "evict", !.targets = pods[req[r].uid]]
  <2>1. new \in Request /\ req' = [req EXCEPT ![r] = new] /\ ~req[r].finished
    BY <1>1, <1>2, <1>5 DEF ListPods, Run, IInv, TypeOK, Request
  <2> QED
    BY <1>1, <1>2, <1>3, <1>4, <2>1 DEF Request
<1>6. CASE \E p \in Pod : EvictPod(r, p)
  BY <1>1, <1>2, <1>3, <1>6, SMT DEF EvictPod, IInv, TypeOK
<1>7. CASE DrainSucceeds(r)
  <2> DEFINE new == [req[r] EXCEPT !.run = "returned"]
  <2>1. new \in Request /\ req' = [req EXCEPT ![r] = new]
    BY <1>1, <1>7 DEF DrainSucceeds, IInv, TypeOK, Request
  <2> QED
    BY <1>1, <1>2, <1>3, <1>4, <2>1, ZenonT(30) DEF Request
<1>8. CASE DrainFails(r)
  <2> DEFINE new == [req[r] EXCEPT !.run = "returned", !.err = TRUE]
  <2>1. new \in Request /\ req' = [req EXCEPT ![r] = new]
    BY <1>1, <1>8 DEF DrainFails, IInv, TypeOK, Request
  <2>2. /\ new.uid = req[r].uid /\ new.canceled = req[r].canceled /\ new.run = "returned"
        /\ new.started = req[r].started /\ new.finished = req[r].finished
        /\ new.lastErr = req[r].lastErr
    BY <1>1 DEF Request
  <2> HIDE DEF new
  <2> QED
    BY <1>1, <1>2, <1>3, <1>4, <2>1, <2>2
<1>9. CASE Record(r)
  <2> DEFINE new == [req[r] EXCEPT !.run = "recorded", !.lastErr = req[r].err, !.finished = TRUE]
  <2>1. new \in Request /\ req' = [req EXCEPT ![r] = new] /\ ~req[r].finished
    BY <1>1, <1>2, <1>9 DEF Record, Run, IInv, TypeOK, Request
  <2> QED
    BY <1>1, <1>2, <1>3, <1>4, <2>1, ZenonT(30) DEF Request
<1>10. CASE WgDone(r)
  <2> DEFINE new == [req[r] EXCEPT !.run = "ended"]
  <2>1. new \in Request /\ req' = [req EXCEPT ![r] = new]
    BY <1>1, <1>10 DEF WgDone, IInv, TypeOK, Request
  <2> QED
    BY <1>1, <1>2, <1>3, <1>4, <2>1 DEF Request
<1> QED
  BY <1>5, <1>6, <1>7, <1>8, <1>9, <1>10 DEF DoDrain

LEMMA DrainPreserves ==
  ASSUME IInv, NEW r \in Req, DoDrain(r)
  PROVE  IInv'
<1>1. /\ UNCHANGED <<requests, lock, done, stopped, pc, uid, ref, unbound>>
      /\ req[r].run # "none" /\ req[r].uid \in UID /\ requests[req[r].uid] = r
      /\ req' \in [Req -> Request] /\ pods' \in [UID -> SUBSET Pod]
      /\ \A q \in Req \ {r} : req'[q] = req[q]
      /\ \A u \in UID : pods'[u] \subseteq pods[u]
      /\ req'[r].uid = req[r].uid /\ req'[r].canceled = req[r].canceled
      /\ req'[r].started = req[r].started /\ req'[r].run # "none"
      /\ req[r].finished => req'[r].finished /\ req'[r].lastErr = req[r].lastErr
  BY DrainStep
<1>2. TypeOK'
  BY <1>1 DEF IInv, TypeOK
<1>3. Exclusive'
  BY <1>1, SMT DEF IInv, TypeOK, Exclusive
<1>4. ASSUME NEW q \in Req \ {r}
      PROVE  RequestOK(q)'
  <2>1. RequestOK(q) /\ req'[q] = req[q]
    BY <1>1, <1>4 DEF IInv
  <2>2. req[q].run # "none" => pods'[req[q].uid] \subseteq pods[req[q].uid]
    BY <1>1, <2>1 DEF RequestOK
  <2> QED
    BY <1>1, <2>1, <2>2 DEF RequestOK
<1>5. RequestOK(r)'
  <2>1. /\ req[r] \in Request /\ req'[r] \in Request /\ RequestOK(r)
        /\ pods[req[r].uid] \cap unbound = {}
    BY <1>1 DEF IInv, TypeOK, Exclusive
  <2>2. ASSUME req'[r].finished <=> req'[r].run \in {"recorded", "ended"},
               req'[r].finished => req'[r].lastErr = req'[r].err,
               req'[r].targets \cap unbound = {},
               req'[r].run \in {"returned", "recorded", "ended"} /\ ~req'[r].err
                 => req'[r].targets \cap pods'[req[r].uid] = {}
        PROVE  RequestOK(r)'
    BY <1>1, <2>1, <2>2 DEF RequestOK
  <2>3. CASE ListPods(r)
    <3>1. /\ req'[r].run = "evict" /\ req'[r].targets = pods[req[r].uid] /\ ~req'[r].finished
      BY <2>1, <2>3, SMTT(30) DEF ListPods, Run, RequestOK, IInv, TypeOK, Request
    <3> QED
      BY <2>1, <2>2, <3>1
  <2>4. CASE \E p \in Pod : EvictPod(r, p)
    <3>1. req' = req
      BY <2>4 DEF EvictPod
    <3> QED
      BY <1>1, <2>1, <2>2, <3>1 DEF RequestOK
  <2>5. CASE DrainSucceeds(r)
    <3>1. /\ req'[r].run = "returned" /\ req'[r].targets = req[r].targets /\ ~req'[r].finished
          /\ req[r].targets \cap pods'[req[r].uid] = {}
      BY <2>1, <2>5, SMT DEF DrainSucceeds, Run, RequestOK, IInv, TypeOK, Request, nodeVars
    <3> QED
      BY <2>1, <2>2, <3>1 DEF RequestOK
  <2>6. CASE DrainFails(r)
    <3>1. /\ req'[r].run = "returned" /\ req'[r].targets = req[r].targets /\ ~req'[r].finished
          /\ req'[r].err
      BY <2>1, <2>6, SMT DEF DrainFails, Run, RequestOK, IInv, TypeOK, Request
    <3> QED
      BY <2>1, <2>2, <3>1 DEF RequestOK
  <2>7. CASE Record(r)
    <3>1. /\ req'[r].run = "recorded" /\ req'[r].targets = req[r].targets /\ req'[r].finished
          /\ req'[r].err = req[r].err /\ req'[r].lastErr = req[r].err /\ req[r].run = "returned"
          /\ pods' = pods
      BY <2>1, <2>7 DEF Record, Run, IInv, TypeOK, Request, nodeVars
    <3> QED
      BY <2>1, <2>2, <3>1 DEF RequestOK
  <2>8. CASE WgDone(r)
    <3>1. /\ req'[r].run = "ended" /\ req'[r].targets = req[r].targets /\ req'[r].finished
          /\ req'[r].err = req[r].err /\ req'[r].lastErr = req[r].lastErr
          /\ req[r].run = "recorded" /\ pods' = pods
      BY <2>1, <2>8, SMT DEF WgDone, Run, RequestOK, IInv, TypeOK, Request, nodeVars
    <3> QED
      BY <2>1, <2>2, <3>1 DEF RequestOK
  <2> QED
    BY <2>3, <2>4, <2>5, <2>6, <2>7, <2>8 DEF DoDrain
<1>6. ASSUME NEW v \in Worker
      PROVE  WorkerOK(v)'
  <2>1. ref[v] \in Req => Kept(ref[v])
    BY <1>1 DEF Kept
  <2>2. pc[v] = "add" => \A x \in Worker : ref'[x] = ref[v] => x = v
    BY <1>1, SMT DEF IInv, WorkerOK
  <2> QED
    BY <1>1, <2>1, <2>2, OtherWorker
<1> QED
  BY <1>2, <1>3, <1>4, <1>5, <1>6 DEF IInv

\* A new pod is none that a drain is to evict.
LEMMA ClusterPreserves ==
  ASSUME IInv, Shutdown \/ \E u \in UID, p \in Pod : BindPod(u, p)
  PROVE  IInv'
<1>1. /\ UNCHANGED <<requests, lock, req, done, pc, uid, ref>>
      /\ stopped => stopped' /\ stopped' \in BOOLEAN
      /\ pods' \in [UID -> SUBSET Pod] /\ unbound' \subseteq unbound
      /\ \A u \in UID : pods'[u] \subseteq pods[u] \cup (unbound \ unbound')
  BY SMT DEF IInv, TypeOK, Shutdown, BindPod, workerVars, nodeVars
<1>2. TypeOK'
  <2>1. CASE Shutdown
    BY <2>1 DEF IInv, TypeOK, Shutdown, workerVars, nodeVars
  <2>2. CASE \E u \in UID, p \in Pod : BindPod(u, p)
    BY <2>2, SMT DEF IInv, TypeOK, BindPod, workerVars
  <2> QED
    BY <2>1, <2>2
<1>3. Exclusive'
  BY <1>1 DEF IInv, Exclusive
<1>4. ASSUME NEW q \in Req
      PROVE  RequestOK(q)'
  BY <1>1, <1>4 DEF IInv, RequestOK
<1>5. ASSUME NEW v \in Worker
      PROVE  WorkerOK(v)'
  BY <1>1, OtherWorker, SMT DEF IInv, WorkerOK, Kept
<1> QED
  BY <1>2, <1>3, <1>4, <1>5 DEF IInv

LEMMA NextIInv == IInv /\ [Next]_vars => IInv'
<1> SUFFICES ASSUME IInv, [Next]_vars
             PROVE  IInv'
  OBVIOUS
<1>1. CASE UNCHANGED vars
  <2>1. TypeOK' /\ Exclusive'
    BY <1>1 DEF vars, IInv, TypeOK, Exclusive
  <2>2. \A r \in Req : RequestOK(r)'
    BY <1>1 DEF vars, IInv, RequestOK
  <2>3. \A w \in Worker : WorkerOK(w)'
    BY <1>1 DEF vars, IInv, WorkerOK
  <2> QED
    BY <2>1, <2>2, <2>3 DEF IInv
<1>2. ASSUME NEW w \in Worker, Step(w)
      PROVE  IInv'
  <2>1. uid[w] \in UID
    BY <1>2 DEF IInv, TypeOK, WorkerOK, Step, GetRequest, NewDrainRequest, AddRequest,
       CheckInProgress, CheckError, CheckCanceled, Completed, RemoveRequest, CancelDrain,
       CancelContext, DeleteRequest, At
  <2> QED
    BY <1>2, <2>1, LookPreserves, NewPreserves, AddPreserves, CancelPreserves, DeletePreserves
       DEF Step
<1>3. ASSUME NEW w \in Worker, NEW u \in UID, Begin(w, u)
      PROVE  IInv'
  BY <1>3, LookPreserves
<1> QED
  BY <1>1, <1>2, <1>3, DrainPreserves, ClusterPreserves DEF Next

-----------------------------------------------------------------------------
\* The fields of the manager, its requests and its workers keep their types.
THEOREM TypeCorrect == Spec => []TypeOK
<1>1. IInv => TypeOK
  BY DEF IInv
<1> QED
  BY <1>1, InitIInv, NextIInv, PTL DEF Spec

\* However many workers there are, a goroutine that is at work belongs to the
\* request that the manager holds: RemoveRequest waits for it.
THEOREM OneDrainPerMaintenance == Spec => []OneDrainAtWork
<1>1. IInv => OneDrainAtWork
  BY DEF IInv, RequestOK, OneDrainAtWork, Active
<1> QED
  BY <1>1, InitIInv, NextIInv, PTL DEF Spec

\* A drain that handleDrainState takes for completed has evicted all its pods.
THEOREM CompletedDrainIsReal == Spec => []CompletedIsReal
<1>1. ASSUME IInv, NEW w \in Worker, pc[w] = "completed"
      PROVE  /\ req[ref[w]].finished
             /\ req[ref[w]].targets \cap pods[req[ref[w]].uid] = {}
  <2>1. ref[w] \in Req /\ req[ref[w]].finished /\ ~req[ref[w]].lastErr
    BY <1>1 DEF IInv, TypeOK, WorkerOK
  <2> QED
    BY <1>1, <2>1 DEF IInv, RequestOK
<1>2. IInv => CompletedIsReal
  BY <1>1 DEF CompletedIsReal
<1> QED
  BY <1>2, InitIInv, NextIInv, PTL DEF Spec

\* The state of a request that is over changes only with what is recorded.
LEMMA OverStaysOver ==
  ASSUME NEW r \in Req, State(r) \in {"Success", "Error", "Canceled"},
         req[r].canceled => req'[r].canceled,
         req[r].finished => req'[r].finished /\ req'[r].lastErr = req[r].lastErr
  PROVE  /\ State(r)' \in {"Success", "Error", "Canceled"}
         /\ State(r) = "Success" => State(r)' = "Success"
<1>1. req[r].finished \/ req[r].canceled
  BY DEF State
<1>2. CASE req[r].finished
  BY <1>2 DEF State
<1>3. CASE ~req[r].finished
  BY <1>1, <1>3 DEF State
<1> QED
  BY <1>2, <1>3

\* Neither cancellation nor completion, in any order, takes back what State has
\* said of a request.
THEOREM StateIsFinal == Spec => StateNeverRegresses
<1>1. ASSUME IInv, [Next]_vars, NEW r \in Req,
             State(r) \in {"Success", "Error", "Canceled"}, ~Unused(r)'
      PROVE  /\ State(r)' \in {"Success", "Error", "Canceled"}
             /\ State(r) = "Success" => State(r)' = "Success"
  <2>1. (req[r].finished \/ req[r].canceled) /\ req \in [Req -> Request]
    BY <1>1 DEF State, IInv, TypeOK
  <2>2. ASSUME req'[r] = req[r]
        PROVE  /\ State(r)' \in {"Success", "Error", "Canceled"}
               /\ State(r) = "Success" => State(r)' = "Success"
    BY <1>1, <2>2, OverStaysOver
  <2>3. ASSUME NEW w \in Worker, NewDrainRequest(w)
        PROVE  req'[r] = req[r]
    <3>1. ~Unused(r)
      BY <1>1, <2>1 DEF IInv, TypeOK, RequestOK, Unused
    <3> QED
      BY <2>1, <2>3, <3>1 DEF NewDrainRequest
  <2>4. ASSUME NEW w \in Worker, AddRequest(w)
        PROVE  req'[r] = req[r]
    <3>1. ref[w] # r
      <4>1. req[ref[w]] = NewRequest(uid[w])
        BY <1>1, <2>4, AddedIsNew DEF AddRequest, At
      <4>2. ~req[ref[w]].finished /\ ~req[ref[w]].canceled
        BY <4>1, SMT DEF NewRequest
      <4> QED
        BY <2>1, <4>2
    <3> QED
      BY <1>1, <2>1, <2>4, <3>1, AddedIsNew DEF AddRequest, At
  <2>5. ASSUME NEW w \in Worker, CancelDrain(w)
        PROVE  /\ State(r)' \in {"Success", "Error", "Canceled"}
               /\ State(r) = "Success" => State(r)' = "Success"
    <3>1. /\ req[r].canceled => req'[r].canceled
          /\ req[r].finished => req'[r].finished /\ req'[r].lastErr = req[r].lastErr
      BY <2>1, <2>5 DEF CancelDrain, Request
    <3> QED
      BY <1>1, <3>1, OverStaysOver
  <2>6. ASSUME NEW w \in Worker, DeleteRequest(w)
        PROVE  req'[r] = req[r]
    <3>1. CASE ref[w] = r
      <4>1. pc[w] = "wait" /\ ~Active(r)
        BY <2>6, <3>1 DEF DeleteRequest, At
      <4>2. /\ requests' = [requests EXCEPT ![uid[w]] = Nil] /\ ref' = [ref EXCEPT ![w] = Nil]
            /\ req' = [req EXCEPT ![r] = NewRequest(Nil)]
        BY <2>6, <3>1 DEF DeleteRequest, Return
      <4>3. uid[w] \in UID
        BY <1>1, <4>1 DEF IInv, TypeOK, WorkerOK
      <4>4. /\ \A t \in UID : requests[t] = r => t = uid[w]
            /\ \A v \in Worker \ {w} : ref[v] # r
        BY <1>1, <3>1, <4>1, HeldAlone
      <4>5. req'[r].run = "none"
        BY <2>1, <4>2 DEF NewRequest
      <4>6. Unused(r)'
        BY <1>1, <4>2, <4>3, <4>4, <4>5, NilAssumption DEF Unused, Active, IInv, TypeOK
      <4> QED
        BY <1>1, <4>6
    <3>2. CASE ref[w] # r
      BY <2>1, <2>6, <3>2 DEF DeleteRequest
    <3> QED
      BY <3>1, <3>2
  <2>7. ASSUME NEW q \in Req, DoDrain(q)
        PROVE  /\ State(r)' \in {"Success", "Error", "Canceled"}
               /\ State(r) = "Success" => State(r)' = "Success"
    <3>1. /\ req[r].canceled => req'[r].canceled
          /\ req[r].finished => req'[r].finished /\ req'[r].lastErr = req[r].lastErr
      BY <1>1, <2>7, DrainStep
    <3> QED
      BY <1>1, <3>1, OverStaysOver
  <2>8. CASE \/ UNCHANGED vars \/ Shutdown \/ \E u \in UID, p \in Pod : BindPod(u, p)
             \/ \E w \in Worker : \/ GetRequest(w) \/ CheckInProgress(w) \/ CheckError(w)
                                   \/ CheckCanceled(w) \/ Completed(w) \/ RemoveRequest(w)
                                   \/ CancelContext(w) \/ \E u \in UID : Begin(w, u)
    <3>1. req' = req
      BY <2>8 DEF vars, Shutdown, BindPod, GetRequest, CheckInProgress, CheckError, CheckCanceled,
         Completed, RemoveRequest, CancelContext, Begin
    <3> QED
      BY <2>2, <3>1
  <2> QED
    BY <1>1, <2>2, <2>3, <2>4, <2>5, <2>6, <2>7, <2>8 DEF Next, Step
<1>2. IInv /\ [Next]_vars
        => [\A r \in Req :
              State(r) \in {"Success", "Error", "Canceled"} /\ ~Unused(r)'
              => /\ State(r)' \in {"Success", "Error", "Canceled"}
                 /\ State(r) = "Success" => State(r)' = "Success"]_vars
  BY <1>1
<1> QED
  BY <1>2, InitIInv, NextIInv, PTL DEF Spec, StateNeverRegresses

-----------------------------------------------------------------------------
(* The lock. *)

\* The lock is held by at most one worker, inside RemoveRequest, for the request
\* that the manager has for its maintenance; and it is held during a wait for a
\* goroutine only when the context of that goroutine is cancelled.
LockReturnable ==
  \A w \in Worker :
    /\ pc[w] \in Holding <=> lock = w
    /\ lock = w => ref[w] \in Req /\ requests[uid[w]] = ref[w]
    /\ pc[w] = "wait" => ref[w] \in done

\* A wait goes on with the context cancelled.
WaitOK(w) == pc[w] = "wait" => ref[w] \in done

LEMMA NextWaitOK ==
  ASSUME IInv, \A w \in Worker : WaitOK(w), [Next]_vars, NEW w \in Worker
  PROVE  WaitOK(w)'
<1> USE DEF WaitOK
<1>1. TypeOK /\ WorkerOK(w) /\ WaitOK(w)
  BY DEF IInv
<1>2. CASE UNCHANGED <<pc, ref, done>>
  BY <1>1, <1>2
<1>3. ASSUME NEW v \in Worker, Step(v) \/ \E u \in UID : Begin(v, u)
      PROVE  WaitOK(w)'
  <2>1. CASE v = w
    BY <1>1, <1>3, <2>1
       DEF Step, Begin, GetRequest, NewDrainRequest, AddRequest, CheckInProgress, CheckError,
           CheckCanceled, Completed, RemoveRequest, CancelDrain, CancelContext, DeleteRequest,
           At, Go, Return, TypeOK
  <2>2. CASE v # w
    <3>1. pc'[w] = pc[w] /\ ref'[w] = ref[w]
      BY <1>1, <1>3, <2>2
         DEF Step, Begin, GetRequest, NewDrainRequest, AddRequest, CheckInProgress, CheckError,
             CheckCanceled, Completed, RemoveRequest, CancelDrain, CancelContext, DeleteRequest,
             At, Go, Return, TypeOK
    \* a new request is one that w does not hold
    <3>2. CASE NewDrainRequest(v)
      BY <1>1, <3>1, <3>2 DEF NewDrainRequest, Unused
    \* w would hold the lock
    <3>3. CASE DeleteRequest(v)
      <4>1. lock = v
        BY <3>3 DEF IInv, WorkerOK, DeleteRequest, At, Holding
      <4> QED
        BY <1>1, <2>2, <3>1, <4>1 DEF WorkerOK, Holding
    <3>4. CASE done \subseteq done'
      BY <1>1, <3>1, <3>4
    <3> QED
      BY <1>3, <3>2, <3>3, <3>4
         DEF Step, Begin, GetRequest, AddRequest, CheckInProgress, CheckError, CheckCanceled,
             Completed, RemoveRequest, CancelDrain, CancelContext
  <2> QED
    BY <2>1, <2>2
<1>4. CASE (\E r \in Req : DoDrain(r)) \/ (\E u \in UID, p \in Pod : BindPod(u, p)) \/ Shutdown
  <2>1. UNCHANGED <<pc, ref, done>>
    BY <1>4
       DEF DoDrain, ListPods, EvictPod, DrainSucceeds, DrainFails, Record, WgDone, Run, BindPod,
           Shutdown, workerVars
  <2> QED
    BY <1>2, <2>1
<1> QED
  BY <1>2, <1>3, <1>4 DEF Next, vars

\* Nobody waits for nothing: a worker that holds the lock is in RemoveRequest and
\* waits, if at all, for a goroutine whose context is cancelled, so that it cannot
\* keep the other reconciles waiting for a drain that takes its time.  This is
\* the safety half of WorkersReturn.
THEOREM LockAlwaysReturnable == Spec => []LockReturnable
<1> DEFINE WInv == IInv /\ \A w \in Worker : WaitOK(w)
<1>1. Init => WInv
  BY InitIInv DEF Init, WaitOK
<1>2. WInv /\ [Next]_vars => WInv'
  BY NextIInv, NextWaitOK
<1>3. WInv => LockReturnable
  <2> SUFFICES ASSUME WInv, NEW w \in Worker
               PROVE  /\ pc[w] \in Holding <=> lock = w
                      /\ lock = w => ref[w] \in Req /\ requests[uid[w]] = ref[w]
                      /\ pc[w] = "wait" => ref[w] \in done
    BY DEF LockReturnable
  <2>1. WorkerOK(w) /\ WaitOK(w) /\ ref[w] \in Req \cup {Nil}
    BY DEF IInv, TypeOK
  <2> QED
    BY <2>1 DEF WorkerOK, WaitOK, Holding
<1> HIDE DEF WInv
<1> QED
  BY <1>1, <1>2, <1>3, PTL DEF Spec

-----------------------------------------------------------------------------
(* The refinement. *)

Verdicts == [u \in UID |-> VerdictOf(u)]

\* A step that leaves the requests held by the manager as they are, but for
\* flags that the service does not know, leaves the verdicts.
LEMMA SameVerdicts ==
  ASSUME IInv, UNCHANGED requests,
         \A u \in UID : requests[u] # Nil =>
           /\ req'[requests[u]].finished = req[requests[u]].finished
           /\ req'[requests[u]].lastErr = req[requests[u]].lastErr
  PROVE  UNCHANGED Verdicts
<1>1. \A u \in UID : VerdictOf(u)' = VerdictOf(u)
  BY DEF VerdictOf
<1> QED
  BY <1>1 DEF Verdicts

\* A step that changes the verdict of u only.
LEMMA OneVerdict ==
  ASSUME IInv, NEW u \in UID, NEW v, VerdictOf(u)' = v,
         \A t \in UID \ {u} : /\ requests'[t] = requests[t]
                              /\ requests[t] # Nil => req'[requests[t]] = req[requests[t]]
  PROVE  Verdicts' = [Verdicts EXCEPT ![u] = v]
<1>1. \A t \in UID \ {u} : VerdictOf(t)' = VerdictOf(t)
  BY DEF VerdictOf
<1> QED
  BY <1>1 DEF Verdicts

LEMMA StepRefines ==
  ASSUME IInv, [Next]_vars
  PROVE  [Service!SNext]_<<Verdicts, pods>>
<1> USE DEF Verdicts
<1>1. CASE UNCHANGED vars
  BY <1>1, SameVerdicts DEF vars
<1>2. ASSUME NEW w \in Worker, NEW u \in UID,
             \/ Begin(w, u) \/ GetRequest(w) \/ CheckInProgress(w) \/ CheckError(w)
             \/ CheckCanceled(w) \/ Completed(w) \/ RemoveRequest(w) \/ CancelContext(w)
      PROVE  UNCHANGED <<Verdicts, pods>>
  <2>1. UNCHANGED <<requests, req, pods>>
    BY <1>2 DEF Begin, GetRequest, CheckInProgress, CheckError, CheckCanceled, Completed,
       RemoveRequest, CancelContext, At, nodeVars
  <2> QED
    BY <2>1, SameVerdicts
<1>3. ASSUME NEW w \in Worker, NewDrainRequest(w)
      PROVE  UNCHANGED <<Verdicts, pods>>
  <2>1. UNCHANGED <<requests, pods>>
    BY <1>3 DEF NewDrainRequest, At, nodeVars
  <2>2. \A u \in UID : requests[u] # Nil => req'[requests[u]] = req[requests[u]]
    BY <1>3 DEF NewDrainRequest, Unused, IInv, TypeOK
  <2> QED
    BY <2>1, <2>2, SameVerdicts
<1>4. ASSUME NEW w \in Worker, CancelDrain(w)
      PROVE  UNCHANGED <<Verdicts, pods>>
  <2>1. UNCHANGED <<requests, pods>> /\ req' = [req EXCEPT ![ref[w]].canceled = TRUE]
    BY <1>4 DEF CancelDrain, At, nodeVars
  <2>2. \A q \in Req : req'[q].finished = req[q].finished /\ req'[q].lastErr = req[q].lastErr
    BY <2>1 DEF IInv, TypeOK, Request
  <2>3. \A u \in UID : requests[u] # Nil => requests[u] \in Req
    BY DEF IInv, TypeOK
  <2> QED
    BY <2>1, <2>2, <2>3, SameVerdicts
<1>5. ASSUME NEW w \in Worker, NEW u \in UID, uid[w] = u, AddRequest(w)
      PROVE  Service!Start(u)
  <2> DEFINE r == ref[w]
  <2>1. /\ r \in Req /\ u \in UID /\ requests[u] = Nil
        /\ req[r] = NewRequest(u) /\ \A t \in UID : requests[t] # r
    BY <1>5, AddedIsNew DEF AddRequest, At
  <2>2. /\ requests' = [requests EXCEPT ![u] = r] /\ pods' = pods
        /\ req' = [req EXCEPT ![r].started = TRUE, ![r].run = "list"]
    BY <1>5, <2>1 DEF AddRequest, At, nodeVars
  <2>3. requests'[u] = r /\ r # Nil /\ ~req'[r].finished
    BY <2>1, <2>2, NilAssumption, SMT DEF IInv, TypeOK, NewRequest
  <2>4. VerdictOf(u)' = "running" /\ VerdictOf(u) = "none"
    BY <2>1, <2>3 DEF VerdictOf
  <2>5. Verdicts' = [Verdicts EXCEPT ![u] = "running"]
    BY <2>1, <2>2, <2>4, OneVerdict DEF IInv, TypeOK
  <2> QED
    BY <2>1, <2>2, <2>4, <2>5 DEF Service!Start
<1>6. ASSUME NEW w \in Worker, NEW u \in UID, uid[w] = u, DeleteRequest(w)
      PROVE  Service!Remove(u)
  <2> DEFINE r == ref[w]
  <2>1. /\ r \in Req /\ u \in UID /\ requests[u] = r /\ ~Active(r)
    BY <1>6 DEF IInv, TypeOK, WorkerOK, DeleteRequest, At, Holding
  <2>2. /\ requests' = [requests EXCEPT ![u] = Nil] /\ pods' = pods
        /\ req' = [req EXCEPT ![r] = NewRequest(Nil)]
    BY <1>6 DEF DeleteRequest, At, nodeVars
  <2>3. req[r].finished
    BY <2>1, NilAssumption, SMT DEF IInv, TypeOK, Request, Exclusive, RequestOK, Active
  <2>4. VerdictOf(u)' = "none" /\ VerdictOf(u) \in {"success", "failed"}
    BY <2>1, <2>2, <2>3, NilAssumption DEF VerdictOf, IInv, TypeOK
  <2>5. \A t \in UID \ {u} : requests[t] # r
    BY <2>1, NilAssumption, SMT DEF IInv, Exclusive
  <2>6. Verdicts' = [Verdicts EXCEPT ![u] = "none"]
    BY <2>1, <2>2, <2>4, <2>5, OneVerdict DEF IInv, TypeOK
  <2> QED
    BY <2>1, <2>2, <2>4, <2>6 DEF Service!Remove
<1>7. ASSUME NEW r \in Req, DoDrain(r)
      PROVE  [Service!SNext]_<<Verdicts, pods>>
  <2>1. PICK u \in UID : /\ req[r].uid = u /\ requests[u] = r /\ UNCHANGED requests
                         /\ \A q \in Req \ {r} : req'[q] = req[q]
    BY <1>7, DrainStep
  <2>2. /\ req[r] \in Request /\ r # Nil /\ \A t \in UID \ {u} : requests[t] # r
        /\ req[r].finished <=> req[r].run \in {"recorded", "ended"}
        /\ \A t \in UID : requests[t] # Nil => requests[t] \in Req
    BY <2>1, NilAssumption, SMT DEF IInv, TypeOK, Exclusive, RequestOK
  <2>3. CASE \E p \in Pod : EvictPod(r, p)
    <3>1. PICK p \in Pod : EvictPod(r, p)
      BY <2>3
    <3>2. /\ pods' = [pods EXCEPT ![u] = @ \ {p}] /\ req' = req
          /\ ~req[r].finished
      BY <2>1, <2>2, <3>1 DEF EvictPod, Run
    <3>3. VerdictOf(u) = "running"
      BY <2>1, <2>2, <3>2 DEF VerdictOf
    <3>4. UNCHANGED Verdicts
      BY <2>1, <3>2, SameVerdicts
    <3>5. Service!Evict(u, p)
      BY <2>1, <3>2, <3>3, <3>4 DEF Service!Evict
    <3> QED
      BY <2>1, <3>5 DEF Service!SNext
  <2>4. CASE Record(r)
    <3>1. /\ req[r].run = "returned" /\ pods' = pods /\ req'[r].finished
      BY <2>2, <2>4 DEF Record, Run, IInv, TypeOK, Request, nodeVars
    <3>2. VerdictOf(u) = "running" /\ VerdictOf(u)' \in {"success", "failed"}
      BY <2>1, <2>2, <3>1 DEF VerdictOf
    <3>3. Verdicts' = [Verdicts EXCEPT ![u] = VerdictOf(u)']
      BY <2>1, <2>2, OneVerdict, SMT
    <3>4. Service!End(u)
      BY <2>1, <3>1, <3>2, <3>3 DEF Service!End
    <3> QED
      BY <2>1, <3>4 DEF Service!SNext
  <2>5. CASE ListPods(r) \/ DrainSucceeds(r) \/ DrainFails(r) \/ WgDone(r)
    <3>1. /\ pods' = pods
          /\ req'[r].finished = req[r].finished /\ req'[r].lastErr = req[r].lastErr
      BY <2>2, <2>5, SMT DEF ListPods, DrainSucceeds, DrainFails, WgDone, IInv, TypeOK, Request, nodeVars
    <3> QED
      BY <2>1, <2>2, <3>1, SameVerdicts
  <2> QED
    BY <1>7, <2>3, <2>4, <2>5 DEF DoDrain
<1>8. ASSUME NEW u \in UID, NEW p \in Pod, BindPod(u, p)
      PROVE  Service!SNext
  <2>1. /\ UNCHANGED <<requests, req>> /\ pods' = [pods EXCEPT ![u] = @ \cup {p}]
    BY <1>8 DEF BindPod
  <2>2. UNCHANGED Verdicts
    BY <2>1, SameVerdicts
  <2> QED
    BY <2>1, <2>2 DEF Service!SNext, Service!Arrive
<1>9. CASE Shutdown
  BY <1>9, SameVerdicts DEF Shutdown, nodeVars
<1>10. ASSUME NEW w \in Worker, Step(w)
       PROVE  [Service!SNext]_<<Verdicts, pods>>
  <2>1. uid[w] \in UID
    BY <1>10 DEF IInv, TypeOK, WorkerOK, Step, GetRequest, NewDrainRequest, AddRequest,
       CheckInProgress, CheckError, CheckCanceled, Completed, RemoveRequest, CancelDrain,
       CancelContext, DeleteRequest, At
  <2> QED
    BY <1>2, <1>3, <1>4, <1>5, <1>6, <1>10, <2>1 DEF Step, Service!SNext
<1> QED
  BY <1>1, <1>2, <1>7, <1>8, <1>9, <1>10 DEF Next

\* The drain manager, with its locks, cancellations and goroutines, implements
\* the service that NodeMaintenance takes it for.
THEOREM ManagerImplementsService == Spec => ImplementsService
<1>1. Init => Service!SInit
  BY DEF Init, Service!SInit, VerdictOf
<1>2. IInv /\ [Next]_vars => [Service!SNext]_<<[u \in UID |-> VerdictOf(u)], pods>>
  BY StepRefines DEF Verdicts
<1> QED
  BY <1>1, <1>2, InitIInv, NextIInv, PTL DEF Spec, ImplementsService, Service!SSpec
=============================================================================
