------------------------- MODULE ProvisioningQueue -------------------------
(***************************************************************************)
(* internal/coordination: a bounded queue of provisioning requests with    *)
(* worker goroutines, and permits for callers that talk to a BMC           *)
(* themselves.  One mutex guards queue, processing and lastBMCOperation,   *)
(* so every critical section is one step.  Time is left out: an address    *)
(* is in cooldown or not, and a request's context is done or not.          *)
(***************************************************************************)
EXTENDS Naturals, FiniteSets, Sequences, SequencesExt

CONSTANTS Hosts, Addresses, Address,     \* Address[h]: h's BMC
          Requests, Workers, Callers,
          Waiters,                       \* requests that WaitForResult is called for
          maxConcurrentOps, maxQueueSize,
          Permit,                        \* the request that a permit stands for
          None

ASSUME QueueAssumption ==
  /\ Address \in [Hosts -> Addresses]
  /\ maxConcurrentOps \in Nat /\ maxQueueSize \in Nat
  /\ Permit \notin Requests /\ None \notin Requests /\ None # Permit
  /\ None \notin Hosts /\ Waiters \subseteq Requests

VARIABLES queue,        \* requests, oldest first
          processing,   \* the request or permit that each host is marked with
          cooldown,     \* BMC addresses in their cooldown period
          requests,     \* what has become of each request
          workers,      \* what each worker goroutine is doing
          permits,      \* the host that each caller has a permit for
          phase         \* of the queue: running, stopping or stopped

vars == <<queue, processing, cooldown, requests, workers, permits, phase>>

(* done is what first ended the request's context, and waiter what         *)
(* WaitForResult has returned to the one who submitted it.                 *)
Request == [host   : Hosts \cup {None},
            done   : {"no", "cancelled", "expired", "finished"},
            result : {"none", "sent", "received"},
            waiter : {"none", "waiting", "result", "error"}]

NoRequest == [host |-> None, done |-> "no", result |-> "none", waiter |-> "none"]

Worker == [step : {"idle", "operate", "send", "exited"},
           request : Requests \cup {None}]

IdleWorker == [step |-> "idle", request |-> None]

Marked == {h \in Hosts : processing[h] # None}

(* Mutant: one too many.                                                   *)
HasCapacityInclusive == Cardinality(Marked) <= maxConcurrentOps

HasCapacity == Cardinality(Marked) < maxConcurrentOps

End(request, cause) ==
  IF request.done = "no" THEN [request EXCEPT !.done = cause] ELSE request

-----------------------------------------------------------------------------
(* Requests.                                                               *)

(* A submission that finds the queue full or the host marked is refused    *)
(* and leaves no trace.                                                    *)
SubmitRequest(r, h) ==
  /\ requests[r].host = None
  /\ Len(queue) < maxQueueSize
  /\ processing[h] = None
  /\ queue' = Append(queue, r)
  /\ requests' = [requests EXCEPT ![r] =
       [NoRequest EXCEPT !.host = h,
                         !.waiter = IF r \in Waiters THEN "waiting" ELSE "none"]]
  /\ UNCHANGED <<processing, cooldown, workers, permits, phase>>

(* Mutant: the request is left in the queue.                               *)
CancelRequestInPlace(r) ==
  /\ r \in ToSet(queue) \/ \E h \in Hosts : processing[h] = r
  /\ requests' = [requests EXCEPT ![r] = End(@, "cancelled")]
  /\ UNCHANGED <<queue, processing, cooldown, workers, permits, phase>>

(* CancelRequest finds a request in the queue or in processing.  One that  *)
(* another request for the same host has displaced there is not found.     *)
CancelRequest(r) ==
  /\ \/ \E i \in DOMAIN queue : queue[i] = r /\ queue' = RemoveAt(queue, i)
     \/ /\ \A i \in DOMAIN queue : queue[i] # r
        /\ \E h \in Hosts : processing[h] = r
        /\ UNCHANGED queue
  /\ requests' = [requests EXCEPT ![r] = End(@, "cancelled")]
  /\ UNCHANGED <<processing, cooldown, workers, permits, phase>>

(* The operation timeout of the request's context runs out.                *)
Expire(r) ==
  /\ requests[r].host # None /\ requests[r].done = "no"
  /\ requests' = [requests EXCEPT ![r].done = "expired"]
  /\ UNCHANGED <<queue, processing, cooldown, workers, permits, phase>>

(* WaitForResult takes the result, or returns an error because the context *)
(* is done or the caller's timeout has run out, and may do so even if the  *)
(* result is there.                                                        *)
WaitForResult(r) ==
  /\ requests[r].waiter = "waiting"
  /\ \/ /\ requests[r].result = "sent"
        /\ requests' = [requests EXCEPT ![r].waiter = "result",
                                        ![r].result = "received"]
     \/ requests' = [requests EXCEPT ![r].waiter = "error"]
  /\ UNCHANGED <<queue, processing, cooldown, workers, permits, phase>>

-----------------------------------------------------------------------------
(* Worker goroutines.                                                      *)

Eligible(r) == Address[requests[r].host] \notin cooldown

(* Mutant: the request is not taken out of the queue.                      *)
getNextRequestKeeps(w) ==
  /\ workers[w].step = "idle"
  /\ HasCapacity
  /\ \E i \in DOMAIN queue :
       /\ Eligible(queue[i])
       /\ \A j \in 1..(i - 1) : ~Eligible(queue[j])
       /\ processing' = [processing EXCEPT ![requests[queue[i]].host] = queue[i]]
       /\ workers' = [workers EXCEPT ![w] = [step |-> "operate", request |-> queue[i]]]
  /\ UNCHANGED <<queue, cooldown, requests, permits, phase>>

(* getNextRequest: the first request whose BMC is not in cooldown.         *)
getNextRequest(w) ==
  /\ workers[w].step = "idle"
  /\ HasCapacity
  /\ \E i \in DOMAIN queue :
       /\ Eligible(queue[i])
       /\ \A j \in 1..(i - 1) : ~Eligible(queue[j])
       /\ queue' = RemoveAt(queue, i)
       /\ processing' = [processing EXCEPT ![requests[queue[i]].host] = queue[i]]
       /\ workers' = [workers EXCEPT ![w] = [step |-> "operate", request |-> queue[i]]]
  /\ UNCHANGED <<cooldown, requests, permits, phase>>

(* Mutant: the cooldown is kept by the host's name.                        *)
UnmarkByName(h) ==
  /\ processing' = [processing EXCEPT ![h] = None]
  /\ cooldown' = cooldown \cup {h}

(* Both processRequest and ReleaseBMCPermit take the host's mark away,     *)
(* whoever set it, and start the cooldown of its BMC.                      *)
Unmark(h) ==
  /\ processing' = [processing EXCEPT ![h] = None]
  /\ cooldown' = cooldown \cup {Address[h]}

(* Mutant: the mark is left behind.                                        *)
CompleteOperationMarked(w) ==
  /\ workers[w].step = "operate"
  /\ cooldown' = cooldown \cup {Address[requests[workers[w].request].host]}
  /\ workers' = [workers EXCEPT ![w].step = "send"]
  /\ UNCHANGED <<queue, processing, requests, permits, phase>>

(* processRequest: the operation is over.                                  *)
CompleteOperation(w) ==
  /\ workers[w].step = "operate"
  /\ Unmark(requests[workers[w].request].host)
  /\ workers' = [workers EXCEPT ![w].step = "send"]
  /\ UNCHANGED <<queue, requests, permits, phase>>

(* Mutant: the context is ended before the result is sent.                 *)
SendResultLate(w) ==
  LET r == workers[w].request IN
  /\ workers[w].step = "send"
  /\ \E result \in {"sent", "none"} :
       requests' = [requests EXCEPT ![r] =
                      [End(@, "finished") EXCEPT !.result = result]]
  /\ workers' = [workers EXCEPT ![w] = IdleWorker]
  /\ UNCHANGED <<queue, processing, cooldown, permits, phase>>

(* processRequest: the channel has room for the one result that is sent on *)
(* it, but a context that is done may be chosen instead.  CancelFunc then  *)
(* ends the context.                                                       *)
SendResult(w) ==
  LET r == workers[w].request
      Finish(result) ==
        requests' = [requests EXCEPT ![r] =
                       [End(@, "finished") EXCEPT !.result = result]] IN
  /\ workers[w].step = "send"
  /\ \/ Finish("sent")
     \/ requests[r].done # "no" /\ Finish("none")
  /\ workers' = [workers EXCEPT ![w] = IdleWorker]
  /\ UNCHANGED <<queue, processing, cooldown, permits, phase>>

(* Stop closes the channel and waits.  A worker sees it between requests.  *)
(* It is called once: a second call closes a closed channel and panics.    *)
Stop ==
  /\ phase = "running"
  /\ phase' = "stopping"
  /\ UNCHANGED <<queue, processing, cooldown, requests, workers, permits>>

Exit(w) ==
  /\ workers[w].step = "idle" /\ phase # "running"
  /\ workers' = [workers EXCEPT ![w].step = "exited"]
  /\ UNCHANGED <<queue, processing, cooldown, requests, permits, phase>>

(* Mutant: Stop also waits for the queue to be empty.                      *)
StopReturnsDrained ==
  /\ phase = "stopping" /\ queue = <<>>
  /\ \A w \in Workers : workers[w].step = "exited"
  /\ phase' = "stopped"
  /\ UNCHANGED <<queue, processing, cooldown, requests, workers, permits>>

StopReturns ==
  /\ phase = "stopping"
  /\ \A w \in Workers : workers[w].step = "exited"
  /\ phase' = "stopped"
  /\ UNCHANGED <<queue, processing, cooldown, requests, workers, permits>>

-----------------------------------------------------------------------------
(* Permits.                                                                *)

(* AcquireBMCPermit returns from its loop.  A host that is marked is taken *)
(* for one that this caller has marked.  A caller that waits, or whose     *)
(* context is done first, has changed nothing.                             *)
AcquireBMCPermit(c, h) ==
  /\ permits[c] = None
  /\ \/ /\ processing[h] # None
        /\ UNCHANGED processing
     \/ /\ processing[h] = None
        /\ HasCapacity /\ Address[h] \notin cooldown
        /\ processing' = [processing EXCEPT ![h] = Permit]
  /\ permits' = [permits EXCEPT ![c] = h]
  /\ UNCHANGED <<queue, cooldown, requests, workers, phase>>

ReleaseBMCPermit(c) ==
  /\ permits[c] # None
  /\ Unmark(permits[c])
  /\ permits' = [permits EXCEPT ![c] = None]
  /\ UNCHANGED <<queue, requests, workers, phase>>

CoolDown(a) ==
  /\ a \in cooldown
  /\ cooldown' = cooldown \ {a}
  /\ UNCHANGED <<queue, processing, requests, workers, permits, phase>>

-----------------------------------------------------------------------------
Init ==
  /\ queue = <<>>
  /\ processing = [h \in Hosts |-> None]
  /\ cooldown = {}
  /\ requests = [r \in Requests |-> NoRequest]
  /\ workers = [w \in Workers |-> IdleWorker]
  /\ permits = [c \in Callers |-> None]
  /\ phase = "running"

Submitter(r) ==
  \/ \E h \in Hosts : SubmitRequest(r, h)
  \/ CancelRequest(r)
  \/ Expire(r)
  \/ WaitForResult(r)

WorkerStep(w) ==
  getNextRequest(w) \/ CompleteOperation(w) \/ SendResult(w) \/ Exit(w)

CallerStep(c) ==
  (\E h \in Hosts : AcquireBMCPermit(c, h)) \/ ReleaseBMCPermit(c)

Next ==
  \/ \E r \in Requests : Submitter(r)
  \/ \E w \in Workers : WorkerStep(w)
  \/ \E c \in Callers : CallerStep(c)
  \/ \E a \in Addresses : CoolDown(a)
  \/ Stop
  \/ StopReturns

Spec == Init /\ [][Next]_vars

(* Each worker's ticker fires again and again, operations end, and         *)
(* cooldown periods pass.  Nobody has to submit or cancel anything, or to  *)
(* give a permit back.                                                     *)
Fairness ==
  /\ \A w \in Workers : WF_vars(WorkerStep(w)) /\ WF_vars(Exit(w))
  /\ \A a \in Addresses : WF_vars(CoolDown(a))
  /\ WF_vars(StopReturns)

FairSpec == Spec /\ Fairness

-----------------------------------------------------------------------------
(* The state is of its type.                                               *)
TypeOK ==
  /\ queue \in Seq(Requests)
  /\ processing \in [Hosts -> Requests \cup {Permit, None}]
  /\ cooldown \subseteq Addresses
  /\ requests \in [Requests -> Request]
  /\ workers \in [Workers -> Worker]
  /\ permits \in [Callers -> Hosts \cup {None}]
  /\ phase \in {"running", "stopping", "stopped"}

(* The bookkeeping keeps to its limit: getNextRequest of several workers   *)
(* and AcquireBMCPermit together never mark more than maxConcurrentOps     *)
(* hosts.  More operations may be under way: a request displaced in        *)
(* processing, or whose mark a permit took away, is not counted.           *)
WithinLimits == Cardinality(Marked) <= maxConcurrentOps

(* A request is in one place: at most once in the queue, or with at most   *)
(* one worker, never both, and a worker's host is its request's host.      *)
RequestsAreInOnePlace ==
  /\ \A i, j \in DOMAIN queue : queue[i] = queue[j] => i = j
  /\ \A w \in Workers :
       workers[w].request # None =>
         /\ requests[workers[w].request].host # None
         /\ \A i \in DOMAIN queue : queue[i] # workers[w].request
         /\ \A v \in Workers : workers[v].request = workers[w].request => v = w

(* A request that CancelRequest took out of the queue is never worked on.  *)
CancelledStaysOut ==
  [][\A r \in Requests :
       /\ requests[r].done = "cancelled"
       /\ \A w \in Workers : workers[w].request # r
       => \A w \in Workers : workers'[w].request # r]_vars

(* The result of a request that was neither cancelled nor out of time is   *)
(* never dropped: it is in the channel when the worker lets go of it.      *)
ResultIsDelivered ==
  \A r \in Requests : requests[r].done = "finished" => requests[r].result # "none"

(* Every request in the queue is worked on in the end, unless it is        *)
(* cancelled or the queue is stopped, however many others there are, for   *)
(* the same host or not.  (Workers only poll for capacity: callers that    *)
(* take permits forever may keep them from ever finding any.)              *)
QueueIsServed ==
  <>[](\A c \in Callers : permits[c] = None)
    => \A r \in Requests :
         r \in ToSet(queue) ~> r \notin ToSet(queue) \/ phase # "running"

(* Stop returns, whatever the workers are at.                              *)
StopCompletes == phase = "stopping" ~> phase = "stopped"

-----------------------------------------------------------------------------
(* The comment on AcquireBMCPermit: it "marks the host as processing so    *)
(* other acquires will wait".                                              *)
PermitsAreExclusive ==
  \A c, d \in Callers : permits[c] # None /\ permits[c] = permits[d] => c = d
=============================================================================
