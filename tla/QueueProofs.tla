---------------------------- MODULE QueueProofs ----------------------------
(***************************************************************************)
(* Proofs about ProvisioningQueue, for any number of hosts, requests,      *)
(* workers and callers and for every pair of limits.                       *)
(***************************************************************************)
EXTENDS ProvisioningQueue, FiniteSetTheorems, SequenceTheorems, TLAPS

-----------------------------------------------------------------------------
(* Sequences.                                                              *)

(* getNextRequest and CancelRequest cut one element out of the queue.      *)
LEMMA RemoveAtProperties ==
  ASSUME NEW S, NEW s \in Seq(S), NEW i \in DOMAIN s
  PROVE  /\ RemoveAt(s, i) \in Seq(S)
         /\ Len(RemoveAt(s, i)) = Len(s) - 1
         /\ \A j \in 1..(Len(s) - 1) :
              RemoveAt(s, i)[j] = IF j < i THEN s[j] ELSE s[j + 1]
<1>1. i \in 1..Len(s)
  OBVIOUS
<1> DEFINE a == SubSeq(s, 1, i - 1)
           b == SubSeq(s, i + 1, Len(s))
<1>2. a \in Seq(S) /\ Len(a) = i - 1 /\ \A j \in 1..(i - 1) : a[j] = s[j]
  BY <1>1
<1>3. b \in Seq(S) /\ Len(b) = Len(s) - i /\ \A j \in 1..(Len(s) - i) : b[j] = s[j + i]
  BY <1>1
<1> HIDE DEF a, b
<1>4. /\ a \o b \in Seq(S)
      /\ Len(a \o b) = Len(a) + Len(b)
      /\ \A j \in 1..(Len(a) + Len(b)) :
           (a \o b)[j] = IF j <= Len(a) THEN a[j] ELSE b[j - Len(a)]
  BY <1>2, <1>3, ConcatProperties, Zenon
<1>5. Len(s) \in Nat /\ Len(a) + Len(b) = Len(s) - 1
  BY <1>1, <1>2, <1>3
<1>6. ASSUME NEW j \in 1..(Len(s) - 1)
      PROVE  (a \o b)[j] = IF j < i THEN s[j] ELSE s[j + 1]
  <2>1. CASE j < i
    BY <1>1, <1>2, <1>4, <1>5, <2>1
  <2>2. CASE j >= i
    <3>1. (a \o b)[j] = b[j - (i - 1)]
      <4>1. j \in 1..(Len(a) + Len(b)) /\ ~(j <= Len(a))
        BY <1>1, <1>2, <1>5, <2>2
      <4>2. (a \o b)[j] = b[j - Len(a)]
        BY <1>4, <4>1, Zenon
      <4> QED
        BY <1>2, <4>2, Zenon
    <3>2. b[j - (i - 1)] = s[(j - (i - 1)) + i]
      <4>1. j - (i - 1) \in 1..(Len(s) - i)
        BY <1>1, <1>5, <2>2
      <4> QED
        BY <1>3, <4>1, Zenon
    <3> QED
      BY <1>1, <2>2, <3>1, <3>2
  <2> QED
    BY <1>1, <1>5, <2>1, <2>2
<1> QED
  BY <1>4, <1>5, <1>6 DEF RemoveAt, a, b

(* The sequence has no element twice.                                      *)
Distinct(s) == \A i, j \in DOMAIN s : s[i] = s[j] => i = j

(* What is left after the cut was there before, and the one that was cut   *)
(* out of a queue of distinct requests is gone.                            *)
LEMMA CutOut ==
  ASSUME NEW S, NEW s \in Seq(S), NEW i \in DOMAIN s, Distinct(s)
  PROVE  /\ RemoveAt(s, i) \in Seq(S)
         /\ Distinct(RemoveAt(s, i))
         /\ \A j \in DOMAIN RemoveAt(s, i) :
              /\ RemoveAt(s, i)[j] # s[i]
              /\ \E k \in DOMAIN s : RemoveAt(s, i)[j] = s[k]
<1> DEFINE t == RemoveAt(s, i)
<1>1. /\ t \in Seq(S) /\ Len(t) = Len(s) - 1
      /\ \A j \in 1..(Len(s) - 1) : t[j] = IF j < i THEN s[j] ELSE s[j + 1]
  BY RemoveAtProperties, Zenon
<1> HIDE DEF t
<1>2. DOMAIN t = 1..(Len(s) - 1) /\ DOMAIN s = 1..Len(s) /\ Len(s) \in Nat
  BY <1>1
<1>3. ASSUME NEW j \in DOMAIN t
      PROVE  \E k \in DOMAIN s : t[j] = s[k] /\ k # i /\ k = IF j < i THEN j ELSE j + 1
  BY <1>1, <1>2
<1>4. \A j \in DOMAIN t : t[j] # s[i]
  BY <1>2, <1>3 DEF Distinct
<1>5. ASSUME NEW j \in DOMAIN t, NEW l \in DOMAIN t, t[j] = t[l]
      PROVE  j = l
  <2>1. PICK k \in DOMAIN s : t[j] = s[k] /\ k = IF j < i THEN j ELSE j + 1
    BY <1>3
  <2>2. PICK m \in DOMAIN s : t[l] = s[m] /\ m = IF l < i THEN l ELSE l + 1
    BY <1>3
  <2>3. k = m
    BY <1>5, <2>1, <2>2 DEF Distinct
  <2> QED
    BY <1>2, <2>1, <2>2, <2>3
<1> QED
  BY <1>1, <1>3, <1>4, <1>5 DEF t, Distinct

-----------------------------------------------------------------------------
(* The invariant.                                                          *)

(* What RequestsAreInOnePlace and ResultIsDelivered need of the past: a    *)
(* queued request has been submitted and not been cancelled or finished, a *)
(* worker has a request while it works, and its request is not finished.   *)
Bookkeeping ==
  /\ \A i \in DOMAIN queue : /\ requests[queue[i]].host # None
                             /\ requests[queue[i]].done \in {"no", "expired"}
  /\ \A w \in Workers :
       /\ workers[w].step \in {"operate", "send"} <=> workers[w].request # None
       /\ workers[w].request # None => requests[workers[w].request].done # "finished"

Limits == IsFiniteSet(Marked) /\ WithinLimits

QueueInv ==
  TypeOK /\ Limits /\ RequestsAreInOnePlace /\ ResultIsDelivered /\ Bookkeeping

(* The empty queue of NewProvisioningQueue satisfies it.                   *)
LEMMA QueueInit == Init => QueueInv
<1> SUFFICES ASSUME Init PROVE QueueInv
  OBVIOUS
<1> USE QueueAssumption
<1>1. TypeOK
  BY DEF Init, TypeOK, NoRequest, Request, IdleWorker, Worker
<1>2. Limits
  <2>1. Marked = {}
    BY DEF Init, Marked
  <2> QED
    BY <2>1, FS_EmptySet DEF Limits, WithinLimits
<1>3. RequestsAreInOnePlace /\ ResultIsDelivered /\ Bookkeeping
  BY DEF Init, RequestsAreInOnePlace, ResultIsDelivered, Bookkeeping, NoRequest, IdleWorker
<1> QED
  BY <1>1, <1>2, <1>3 DEF QueueInv

-----------------------------------------------------------------------------
(* The limit.                                                              *)

(* An unmarked host leaves fewer marked ones (Unmark).                     *)
LEMMA FewerMarked ==
  ASSUME Limits, Marked' \subseteq Marked
  PROVE  Limits'
<1>1. IsFiniteSet(Marked') /\ Cardinality(Marked') <= Cardinality(Marked)
  BY FS_Subset DEF Limits
<1>2. Cardinality(Marked') \in Nat /\ Cardinality(Marked) \in Nat
  BY <1>1, FS_CardinalityType DEF Limits
<1> QED
  BY <1>1, <1>2, QueueAssumption DEF Limits, WithinLimits

(* getNextRequest and AcquireBMCPermit mark a host only below the limit.   *)
LEMMA OneMoreMarked ==
  ASSUME Limits, HasCapacity, NEW h, Marked' \subseteq Marked \cup {h}
  PROVE  Limits'
<1>1. /\ IsFiniteSet(Marked \cup {h})
      /\ Cardinality(Marked \cup {h}) <= Cardinality(Marked) + 1
      /\ Cardinality(Marked) \in Nat
  BY FS_AddElement, FS_CardinalityType DEF Limits
<1>2. /\ IsFiniteSet(Marked')
      /\ Cardinality(Marked') <= Cardinality(Marked \cup {h})
  BY <1>1, FS_Subset
<1>3. Cardinality(Marked') \in Nat /\ Cardinality(Marked \cup {h}) \in Nat
  BY <1>1, <1>2, FS_CardinalityType
<1> QED
  BY <1>1, <1>2, <1>3, QueueAssumption DEF Limits, WithinLimits, HasCapacity

-----------------------------------------------------------------------------
(* One lemma per action.                                                   *)

(* SubmitRequest appends a request that is nowhere yet.                    *)
LEMMA SubmitStep ==
  ASSUME QueueInv, NEW r \in Requests, NEW h \in Hosts, SubmitRequest(r, h)
  PROVE  QueueInv'
<1> USE QueueAssumption DEF QueueInv
<1> DEFINE new == [NoRequest EXCEPT !.host = h,
                     !.waiter = IF r \in Waiters THEN "waiting" ELSE "none"]
<1>1. new \in Request /\ new.host = h /\ new.done = "no" /\ h # None
  BY DEF NoRequest, Request
<1> HIDE DEF new
<1>2. /\ queue' = Append(queue, r) /\ requests[r].host = None
      /\ requests' = [requests EXCEPT ![r] = new]
      /\ UNCHANGED <<processing, cooldown, workers, permits, phase>>
  BY DEF SubmitRequest, new
<1>3. /\ queue' \in Seq(Requests) /\ DOMAIN queue' = 1..(Len(queue) + 1)
      /\ DOMAIN queue = 1..Len(queue) /\ Len(queue) \in Nat
      /\ \A i \in DOMAIN queue : queue'[i] = queue[i] /\ queue[i] \in Requests
      /\ queue'[Len(queue) + 1] = r
  BY <1>2 DEF TypeOK
<1>4. TypeOK'
  BY <1>1, <1>2, <1>3 DEF TypeOK
<1>5. Limits'
  BY <1>2, FewerMarked DEF Marked
<1>6. /\ \A i \in DOMAIN queue : queue[i] # r
      /\ \A w \in Workers : workers[w].request # r
  BY <1>2 DEF Bookkeeping, RequestsAreInOnePlace, TypeOK
<1>7. \A q \in Requests : requests'[q] = IF q = r THEN new ELSE requests[q]
  BY <1>2 DEF TypeOK
<1>8. ResultIsDelivered'
  BY <1>1, <1>7 DEF ResultIsDelivered
<1>9. RequestsAreInOnePlace'
  <2>1. ASSUME NEW i \in DOMAIN queue', NEW j \in DOMAIN queue', queue'[i] = queue'[j]
        PROVE  i = j
    BY <1>3, <1>6, <2>1 DEF RequestsAreInOnePlace
  <2>2. ASSUME NEW w \in Workers, workers'[w].request # None
        PROVE  /\ requests'[workers'[w].request].host # None
               /\ \A i \in DOMAIN queue' : queue'[i] # workers'[w].request
               /\ \A v \in Workers : workers'[v].request = workers'[w].request => v = w
    BY <1>2, <1>3, <1>6, <1>7, <2>2 DEF RequestsAreInOnePlace, TypeOK, Worker
  <2> QED
    BY <2>1, <2>2 DEF RequestsAreInOnePlace
<1>10. Bookkeeping'
  BY <1>1, <1>2, <1>3, <1>6, <1>7 DEF Bookkeeping, TypeOK, Worker
<1> QED
  BY <1>4, <1>5, <1>8, <1>9, <1>10

(* An edit of one submitted request that takes at most that request out of *)
(* the queue.                                                              *)
LEMMA RequestEdit ==
  ASSUME QueueInv, NEW r \in Requests, NEW new \in Request,
         requests' = [requests EXCEPT ![r] = new],
         new.host = requests[r].host,
         new.done = "finished" => new.result # "none",
         queue' \in Seq(Requests), Distinct(queue'),
         \A i \in DOMAIN queue' : \E j \in DOMAIN queue : queue'[i] = queue[j],
         new.done \in {"no", "expired"} \/ \A i \in DOMAIN queue' : queue'[i] # r,
         new.done = "finished" => \A w \in Workers : workers[w].request # r,
         UNCHANGED <<processing, cooldown, workers, permits, phase>>
  PROVE  QueueInv'
<1> USE DEF QueueInv
<1>1. \A q \in Requests : requests'[q] = IF q = r THEN new ELSE requests[q]
  BY DEF TypeOK
<1>2. TypeOK'
  BY DEF TypeOK
<1>3. Limits'
  BY FewerMarked DEF Marked
<1>4. ResultIsDelivered'
  BY <1>1 DEF ResultIsDelivered
<1>5. RequestsAreInOnePlace'
  BY <1>1 DEF RequestsAreInOnePlace, Distinct, TypeOK, Worker
<1>6. Bookkeeping'
  <2>1. \A i \in DOMAIN queue' : /\ requests'[queue'[i]].host # None
                                /\ requests'[queue'[i]].done \in {"no", "expired"}
    BY <1>1 DEF Bookkeeping, TypeOK
  <2>2. \A w \in Workers :
          /\ workers'[w].step \in {"operate", "send"} <=> workers'[w].request # None
          /\ workers'[w].request # None => requests'[workers'[w].request].done # "finished"
    BY <1>1 DEF Bookkeeping, TypeOK, Worker
  <2> QED
    BY <2>1, <2>2 DEF Bookkeeping
<1> QED
  BY <1>2, <1>3, <1>4, <1>5, <1>6

(* Ending a context that has ended changes nothing.                        *)
LEMMA EndType ==
  ASSUME NEW q \in Request, NEW cause \in {"cancelled", "finished"}
  PROVE  /\ End(q, cause) \in Request
         /\ End(q, cause).host = q.host /\ End(q, cause).result = q.result
         /\ End(q, cause).done = IF q.done = "no" THEN cause ELSE q.done
BY DEF End, Request

(* CancelRequest leaves the request in no queue.                           *)
LEMMA CancelStep ==
  ASSUME QueueInv, NEW r \in Requests, CancelRequest(r)
  PROVE  QueueInv' /\ \A i \in DOMAIN queue' : queue'[i] # r
<1> DEFINE new == End(requests[r], "cancelled")
<1>1. requests[r] \in Request
  BY DEF QueueInv, TypeOK
<1>2. /\ new \in Request /\ new.host = requests[r].host
      /\ new.result = requests[r].result
      /\ new.done = IF requests[r].done = "no" THEN "cancelled" ELSE requests[r].done
  BY <1>1, EndType
<1>3. requests' = [requests EXCEPT ![r] = new]
  BY DEF CancelRequest, QueueInv, TypeOK
<1> HIDE DEF new
<1>4. Distinct(queue) /\ queue \in Seq(Requests)
  BY DEF QueueInv, TypeOK, RequestsAreInOnePlace, Distinct
<1>5. /\ queue' \in Seq(Requests) /\ Distinct(queue')
      /\ \A i \in DOMAIN queue' : /\ queue'[i] # r
                                  /\ \E j \in DOMAIN queue : queue'[i] = queue[j]
  <2>1. CASE \E i \in DOMAIN queue : queue[i] = r /\ queue' = RemoveAt(queue, i)
    <3>1. PICK i \in DOMAIN queue : queue[i] = r /\ queue' = RemoveAt(queue, i)
      BY <2>1
    <3>2. /\ RemoveAt(queue, i) \in Seq(Requests) /\ Distinct(RemoveAt(queue, i))
          /\ \A j \in DOMAIN RemoveAt(queue, i) :
               /\ RemoveAt(queue, i)[j] # queue[i]
               /\ \E k \in DOMAIN queue : RemoveAt(queue, i)[j] = queue[k]
      BY <1>4, CutOut
    <3> QED
      BY <3>1, <3>2
  <2>2. CASE (\A i \in DOMAIN queue : queue[i] # r) /\ UNCHANGED queue
    BY <1>4, <2>2
  <2> QED
    BY <2>1, <2>2 DEF CancelRequest
<1>6. new.done = "finished" => \A w \in Workers : workers[w].request # r
  BY <1>2, QueueAssumption DEF QueueInv, Bookkeeping
<1>7. new.done = "finished" => new.result # "none"
  BY <1>2 DEF QueueInv, ResultIsDelivered
<1>8. UNCHANGED <<processing, cooldown, workers, permits, phase>>
  BY DEF CancelRequest
<1> QED
  BY <1>2, <1>3, <1>5, <1>6, <1>7, <1>8, RequestEdit

(* Expire and WaitForResult leave the queue alone.                         *)
LEMMA WaitingStep ==
  ASSUME QueueInv, NEW r \in Requests, Expire(r) \/ WaitForResult(r)
  PROVE  QueueInv'
<1>1. requests[r] \in Request /\ requests \in [Requests -> Request]
  BY DEF QueueInv, TypeOK
<1>2. /\ UNCHANGED <<queue, processing, cooldown, workers, permits, phase>>
      /\ queue' \in Seq(Requests) /\ Distinct(queue')
      /\ \A i \in DOMAIN queue' : \E j \in DOMAIN queue : queue'[i] = queue[j]
  BY DEF Expire, WaitForResult, QueueInv, TypeOK, RequestsAreInOnePlace, Distinct
<1>3. CASE Expire(r)
  <2> DEFINE new == [requests[r] EXCEPT !.done = "expired"]
  <2>1. requests' = [requests EXCEPT ![r] = new]
    BY <1>1, <1>3 DEF Expire
  <2>2. new \in Request /\ new.host = requests[r].host /\ new.done = "expired"
    BY <1>1 DEF Request
  <2> HIDE DEF new
  <2> QED
    BY <1>2, <2>1, <2>2, RequestEdit
<1>4. CASE WaitForResult(r)
  <2>1. PICK new \in Request :
          /\ requests' = [requests EXCEPT ![r] = new]
          /\ new.host = requests[r].host /\ new.done = requests[r].done
          /\ requests[r].result # "none" => new.result # "none"
    <3>1. CASE /\ requests[r].result = "sent"
               /\ requests' = [requests EXCEPT ![r].waiter = "result",
                                               ![r].result = "received"]
      <4> DEFINE new == [requests[r] EXCEPT !.waiter = "result", !.result = "received"]
      <4>1. requests' = [requests EXCEPT ![r] = new]
        BY <1>1, <3>1
      <4>2. /\ new \in Request /\ new.host = requests[r].host
            /\ new.done = requests[r].done /\ new.result = "received"
        BY <1>1 DEF Request
      <4> HIDE DEF new
      <4> QED
        BY <4>1, <4>2
    <3>2. CASE requests' = [requests EXCEPT ![r].waiter = "error"]
      <4> DEFINE new == [requests[r] EXCEPT !.waiter = "error"]
      <4>1. requests' = [requests EXCEPT ![r] = new]
        BY <1>1, <3>2
      <4>2. /\ new \in Request /\ new.host = requests[r].host
            /\ new.done = requests[r].done /\ new.result = requests[r].result
        BY <1>1 DEF Request
      <4> HIDE DEF new
      <4> QED
        BY <4>1, <4>2
    <3> QED
      BY <1>4, <3>1, <3>2 DEF WaitForResult
  <2>2. new.done = "finished" =>
          new.result # "none" /\ \A w \in Workers : workers[w].request # r
    BY <2>1, QueueAssumption DEF QueueInv, ResultIsDelivered, Bookkeeping
  <2>3. new.done \in {"no", "expired"} \/ \A i \in DOMAIN queue' : queue'[i] # r
    BY <1>2, <2>1 DEF QueueInv, Bookkeeping
  <2> QED
    BY <1>2, <2>1, <2>2, <2>3, RequestEdit
<1> QED
  BY <1>3, <1>4

(* getNextRequest moves a request from the queue to an idle worker.        *)
LEMMA NextRequestStep ==
  ASSUME QueueInv, NEW w \in Workers, getNextRequest(w)
  PROVE  QueueInv'
<1> USE QueueAssumption
<1>1. PICK i \in DOMAIN queue :
        /\ queue' = RemoveAt(queue, i)
        /\ processing' = [processing EXCEPT ![requests[queue[i]].host] = queue[i]]
        /\ workers' = [workers EXCEPT ![w] = [step |-> "operate", request |-> queue[i]]]
  BY DEF getNextRequest
<1> DEFINE r == queue[i]
           h == requests[r].host
           cut == RemoveAt(queue, i)
<1>2. /\ Distinct(queue) /\ queue \in Seq(Requests) /\ r \in Requests
      /\ h \in Hosts /\ requests[r].done \in {"no", "expired"}
  BY DEF QueueInv, TypeOK, RequestsAreInOnePlace, Distinct, Bookkeeping, Request
<1>3. /\ cut \in Seq(Requests) /\ Distinct(cut)
      /\ \A j \in DOMAIN cut : cut[j] # r /\ \E k \in DOMAIN queue : cut[j] = queue[k]
  BY <1>2, CutOut
<1>4. /\ workers[w].step = "idle" /\ HasCapacity
      /\ UNCHANGED <<cooldown, requests, permits, phase>>
  BY DEF getNextRequest
<1>5. /\ queue' = cut /\ processing' = [processing EXCEPT ![h] = r]
      /\ workers' = [workers EXCEPT ![w] = [step |-> "operate", request |-> r]]
  BY <1>1
<1>6. \A v \in Workers : workers[v].request # r
  BY <1>2 DEF QueueInv, RequestsAreInOnePlace
<1>7. r # None /\ h # None
  BY <1>2
<1> HIDE DEF r, h, cut
<1>8. TypeOK'
  BY <1>2, <1>3, <1>4, <1>5 DEF QueueInv, TypeOK, Worker
<1>9. Limits'
  <2>1. Marked' \subseteq Marked \cup {h}
    BY <1>2, <1>5 DEF Marked, QueueInv, TypeOK
  <2> QED
    BY <1>4, <2>1, OneMoreMarked DEF QueueInv
<1>10. \A v \in Workers :
         workers'[v] = IF v = w THEN [step |-> "operate", request |-> r] ELSE workers[v]
  BY <1>5 DEF QueueInv, TypeOK
<1>11. ResultIsDelivered'
  BY <1>4 DEF QueueInv, ResultIsDelivered
<1>12. RequestsAreInOnePlace'
  BY <1>3, <1>4, <1>5, <1>6, <1>7, <1>10 DEF QueueInv, RequestsAreInOnePlace, Distinct, h
<1>13. Bookkeeping'
  BY <1>2, <1>3, <1>4, <1>5, <1>7, <1>10 DEF QueueInv, Bookkeeping
<1> QED
  BY <1>8, <1>9, <1>11, <1>12, <1>13 DEF QueueInv

(* processRequest takes the mark of its host away.                         *)
LEMMA CompleteStep ==
  ASSUME QueueInv, NEW w \in Workers, CompleteOperation(w)
  PROVE  QueueInv'
<1> USE QueueAssumption
<1> DEFINE h == requests[workers[w].request].host
<1>1. h \in Hosts /\ workers[w].request \in Requests
  BY DEF CompleteOperation, QueueInv, TypeOK, Worker, Bookkeeping, RequestsAreInOnePlace, Request
<1>2. /\ processing' = [processing EXCEPT ![h] = None]
      /\ cooldown' = cooldown \cup {Address[h]}
      /\ workers' = [workers EXCEPT ![w].step = "send"]
      /\ workers[w].step = "operate"
      /\ UNCHANGED <<queue, requests, permits, phase>>
  BY DEF CompleteOperation, Unmark
<1> HIDE DEF h
<1>3. \A v \in Workers :
        /\ workers'[v].request = workers[v].request
        /\ workers'[v].step = IF v = w THEN "send" ELSE workers[v].step
  BY <1>2 DEF QueueInv, TypeOK, Worker
<1>4. workers' \in [Workers -> Worker]
  BY <1>2 DEF QueueInv, TypeOK, Worker
<1>5. TypeOK'
  BY <1>1, <1>2, <1>4 DEF QueueInv, TypeOK
<1>6. Limits'
  BY <1>1, <1>2, FewerMarked DEF Marked, QueueInv, TypeOK
<1>7. RequestsAreInOnePlace' /\ ResultIsDelivered'
  BY <1>2, <1>3 DEF QueueInv, RequestsAreInOnePlace, ResultIsDelivered
<1>8. Bookkeeping'
  BY <1>2, <1>3 DEF QueueInv, Bookkeeping
<1> QED
  BY <1>5, <1>6, <1>7, <1>8 DEF QueueInv

(* processRequest sends a result unless the request's context has ended,   *)
(* and lets go of the request.                                             *)
LEMMA SendStep ==
  ASSUME QueueInv, NEW w \in Workers, SendResult(w)
  PROVE  QueueInv'
<1> USE QueueAssumption
<1> DEFINE r == workers[w].request
           ended == End(requests[r], "finished")
<1>1. r \in Requests /\ requests[r] \in Request /\ r # None
      /\ requests[r].done # "finished"
  BY DEF SendResult, QueueInv, TypeOK, Worker, Bookkeeping
<1>2. /\ ended \in Request /\ ended.host = requests[r].host
      /\ ended.done = IF requests[r].done = "no" THEN "finished" ELSE requests[r].done
  BY <1>1, EndType
<1>3. PICK new \in Request :
        /\ requests' = [requests EXCEPT ![r] = new]
        /\ new.host = requests[r].host
        /\ new.done = "finished" => new.result # "none"
  <2>1. PICK result \in {"sent", "none"} :
          /\ requests' = [requests EXCEPT ![r] = [ended EXCEPT !.result = result]]
          /\ result = "none" => requests[r].done # "no"
    BY DEF SendResult, QueueInv, TypeOK
  <2> HIDE DEF ended
  <2> DEFINE new == [ended EXCEPT !.result = result]
  <2>2. /\ new \in Request /\ new.host = ended.host
        /\ new.done = ended.done /\ new.result = result
    BY <1>2 DEF Request
  <2>3. new.done = "finished" => new.result # "none"
    BY <1>1, <1>2, <2>1, <2>2
  <2> HIDE DEF new
  <2> QED
    BY <1>2, <2>1, <2>2, <2>3 DEF new
<1>4. /\ workers' = [workers EXCEPT ![w] = IdleWorker]
      /\ UNCHANGED <<queue, processing, cooldown, permits, phase>>
  BY DEF SendResult
<1>5. /\ \A v \in Workers : v # w => workers[v].request # r
      /\ \A i \in DOMAIN queue : queue[i] # r
  BY <1>1 DEF QueueInv, RequestsAreInOnePlace
<1> HIDE DEF r, ended
<1>6. \A v \in Workers : workers'[v] = IF v = w THEN IdleWorker ELSE workers[v]
  BY <1>4 DEF QueueInv, TypeOK
<1>7. \A q \in Requests : requests'[q] = IF q = r THEN new ELSE requests[q]
  BY <1>3 DEF QueueInv, TypeOK
<1>8. TypeOK'
  BY <1>1, <1>3, <1>4 DEF QueueInv, TypeOK, IdleWorker, Worker
<1>9. Limits'
  BY <1>4, FewerMarked DEF Marked, QueueInv
<1>10. ResultIsDelivered'
  BY <1>3, <1>7 DEF QueueInv, ResultIsDelivered
<1>11. RequestsAreInOnePlace'
  BY <1>3, <1>4, <1>6, <1>7 DEF QueueInv, RequestsAreInOnePlace, IdleWorker, TypeOK, Worker
<1>12. Bookkeeping'
  <2>1. \A i \in DOMAIN queue : queue[i] \in Requests
    BY DEF QueueInv, TypeOK
  <2>2. \A v \in Workers : workers[v].request \in Requests \cup {None}
    BY DEF QueueInv, TypeOK, Worker
  <2> QED
    BY <1>4, <1>5, <1>6, <1>7, <2>1, <2>2 DEF QueueInv, Bookkeeping, IdleWorker
<1> QED
  BY <1>8, <1>9, <1>10, <1>11, <1>12 DEF QueueInv

(* AcquireBMCPermit marks a host below the limit or finds it marked;       *)
(* ReleaseBMCPermit takes a mark away, whosever it is.                     *)
LEMMA PermitStep ==
  ASSUME QueueInv, NEW c \in Callers,
         (\E h \in Hosts : AcquireBMCPermit(c, h)) \/ ReleaseBMCPermit(c)
  PROVE  QueueInv'
<1> USE QueueAssumption
<1>1. UNCHANGED <<queue, requests, workers, phase>>
  BY DEF AcquireBMCPermit, ReleaseBMCPermit
<1>2. RequestsAreInOnePlace' /\ ResultIsDelivered' /\ Bookkeeping'
  BY <1>1 DEF QueueInv, RequestsAreInOnePlace, ResultIsDelivered, Bookkeeping
<1>3. CASE \E h \in Hosts : AcquireBMCPermit(c, h)
  <2>1. PICK h \in Hosts : AcquireBMCPermit(c, h)
    BY <1>3
  <2>2. TypeOK'
    BY <2>1 DEF AcquireBMCPermit, QueueInv, TypeOK
  <2>3. CASE UNCHANGED processing
    BY <1>2, <2>2, <2>3, FewerMarked DEF Marked, QueueInv
  <2>4. CASE HasCapacity /\ processing' = [processing EXCEPT ![h] = Permit]
    <3>1. Marked' \subseteq Marked \cup {h}
      BY <2>4 DEF Marked, QueueInv, TypeOK
    <3> QED
      BY <1>2, <2>2, <2>4, <3>1, OneMoreMarked DEF QueueInv
  <2> QED
    BY <2>1, <2>3, <2>4 DEF AcquireBMCPermit
<1>4. CASE ReleaseBMCPermit(c)
  <2>1. permits[c] \in Hosts
    BY <1>4 DEF ReleaseBMCPermit, QueueInv, TypeOK
  <2>2. TypeOK'
    BY <1>4, <2>1 DEF ReleaseBMCPermit, Unmark, QueueInv, TypeOK
  <2>3. Marked' \subseteq Marked
    BY <1>4, <2>1 DEF ReleaseBMCPermit, Unmark, Marked, QueueInv, TypeOK
  <2> QED
    BY <1>2, <2>2, <2>3, FewerMarked DEF QueueInv
<1> QED
  BY <1>3, <1>4

(* CoolDown, Exit and the two halves of Stop leave marks, requests and     *)
(* queue alone.                                                            *)
LEMMA QuietStep ==
  ASSUME QueueInv,
         \/ \E a \in Addresses : CoolDown(a)
         \/ \E w \in Workers : Exit(w)
         \/ Stop \/ StopReturns
         \/ UNCHANGED vars
  PROVE  QueueInv'
<1> USE QueueAssumption
<1>1. UNCHANGED <<queue, requests, processing, permits>>
  BY DEF CoolDown, Exit, Stop, StopReturns, vars
<1>2. Limits'
  BY <1>1, FewerMarked DEF Marked, QueueInv
<1>3. CASE \E w \in Workers : Exit(w)
  <2>1. PICK w \in Workers : Exit(w)
    BY <1>3
  <2>2. workers' = [workers EXCEPT ![w].step = "exited"] /\ workers[w].step = "idle"
        /\ UNCHANGED <<cooldown, phase>>
    BY <2>1 DEF Exit
  <2>3. \A v \in Workers :
          /\ workers'[v].request = workers[v].request
          /\ workers'[v].step = IF v = w THEN "exited" ELSE workers[v].step
    BY <2>2 DEF QueueInv, TypeOK, Worker
  <2>4. workers' \in [Workers -> Worker]
    BY <2>2 DEF QueueInv, TypeOK, Worker
  <2>5. TypeOK'
    BY <1>1, <2>2, <2>4 DEF QueueInv, TypeOK
  <2>6. RequestsAreInOnePlace' /\ ResultIsDelivered'
    BY <1>1, <2>3 DEF QueueInv, RequestsAreInOnePlace, ResultIsDelivered
  <2>7. Bookkeeping'
    BY <1>1, <2>2, <2>3 DEF QueueInv, Bookkeeping
  <2> QED
    BY <1>2, <2>5, <2>6, <2>7 DEF QueueInv
<1>4. CASE UNCHANGED workers
  <2>1. cooldown' \subseteq Addresses /\ phase' \in {"running", "stopping", "stopped"}
    BY <1>4 DEF CoolDown, Exit, Stop, StopReturns, vars, QueueInv, TypeOK
  <2>2. TypeOK'
    BY <1>1, <1>4, <2>1 DEF QueueInv, TypeOK
  <2>3. RequestsAreInOnePlace' /\ ResultIsDelivered' /\ Bookkeeping'
    BY <1>1, <1>4 DEF QueueInv, RequestsAreInOnePlace, ResultIsDelivered, Bookkeeping
  <2> QED
    BY <1>2, <2>2, <2>3 DEF QueueInv
<1> QED
  BY <1>3, <1>4 DEF CoolDown, Exit, Stop, StopReturns, vars

-----------------------------------------------------------------------------
(* The theorems.                                                           *)

(* Every step of the queue keeps the invariant.                            *)
LEMMA QueueStep == QueueInv /\ [Next]_vars => QueueInv'
<1> SUFFICES ASSUME QueueInv, [Next]_vars PROVE QueueInv'
  OBVIOUS
<1>1. CASE \E r \in Requests : Submitter(r)
  BY <1>1, SubmitStep, CancelStep, WaitingStep DEF Submitter
<1>2. CASE \E w \in Workers : WorkerStep(w)
  BY <1>2, NextRequestStep, CompleteStep, SendStep, QuietStep DEF WorkerStep
<1>3. CASE \E c \in Callers : CallerStep(c)
  BY <1>3, PermitStep DEF CallerStep
<1>4. CASE (\E a \in Addresses : CoolDown(a)) \/ Stop \/ StopReturns \/ UNCHANGED vars
  BY <1>4, QuietStep
<1> QED
  BY <1>1, <1>2, <1>3, <1>4 DEF Next

(* The invariant holds throughout.                                         *)
THEOREM QueueInvariant == Spec => []QueueInv
BY QueueInit, QueueStep, PTL DEF Spec

(* Every step of the provisioning queue keeps its state in its types.      *)
THEOREM QueueTypeCorrect == Spec => []TypeOK
<1>1. QueueInv => TypeOK
  BY DEF QueueInv
<1> QED
  BY <1>1, QueueInvariant, PTL

(* However many workers and permit callers there are, getNextRequest and   *)
(* AcquireBMCPermit together keep within maxConcurrentOps marked hosts.    *)
THEOREM LimitIsKept == Spec => []WithinLimits
<1>1. QueueInv => WithinLimits
  BY DEF QueueInv, Limits
<1> QED
  BY <1>1, QueueInvariant, PTL

(* A request is in the queue once or with one worker, never both, so       *)
(* processRequest runs once for it.                                        *)
THEOREM RequestsStayInOnePlace == Spec => []RequestsAreInOnePlace
<1>1. QueueInv => RequestsAreInOnePlace
  BY DEF QueueInv
<1> QED
  BY <1>1, QueueInvariant, PTL

(* processRequest drops no result of a request that was neither cancelled  *)
(* nor out of time.                                                        *)
THEOREM ResultsAreDelivered == Spec => []ResultIsDelivered
<1>1. QueueInv => ResultIsDelivered
  BY DEF QueueInv
<1> QED
  BY <1>1, QueueInvariant, PTL

(* A worker takes requests from the queue only.                            *)
LEMMA WorkersTakeFromQueue ==
  ASSUME QueueInv, [Next]_vars, NEW w \in Workers,
         workers'[w].request \notin {workers[w].request, None}
  PROVE  \E i \in DOMAIN queue : workers'[w].request = queue[i]
<1>1. ASSUME NEW v \in Workers, getNextRequest(v)
      PROVE  \E i \in DOMAIN queue : workers'[w].request = queue[i]
  <2>1. PICK i \in DOMAIN queue :
          workers' = [workers EXCEPT ![v] = [step |-> "operate", request |-> queue[i]]]
    BY <1>1 DEF getNextRequest
  <2>2. w = v
    BY <2>1 DEF QueueInv, TypeOK
  <2>3. workers'[w].request = queue[i]
    BY <2>1, <2>2 DEF QueueInv, TypeOK
  <2> QED
    BY <2>3
<1>2. ASSUME NEW v \in Workers, CompleteOperation(v) \/ Exit(v) \/ SendResult(v)
      PROVE  FALSE
  <2>1. \/ workers' = [workers EXCEPT ![v].step = "send"]
        \/ workers' = [workers EXCEPT ![v].step = "exited"]
        \/ workers' = [workers EXCEPT ![v] = IdleWorker]
    BY <1>2 DEF CompleteOperation, Exit, SendResult
  <2> QED
    BY <2>1 DEF QueueInv, TypeOK, Worker, IdleWorker
<1>3. UNCHANGED workers => FALSE
  OBVIOUS
<1>4. ASSUME NEW r \in Requests, Submitter(r) PROVE UNCHANGED workers
  BY <1>4 DEF Submitter, SubmitRequest, CancelRequest, Expire, WaitForResult
<1>5. ASSUME NEW c \in Callers, CallerStep(c) PROVE UNCHANGED workers
  BY <1>5 DEF CallerStep, AcquireBMCPermit, ReleaseBMCPermit
<1>6. ASSUME (\E a \in Addresses : CoolDown(a)) \/ Stop \/ StopReturns \/ UNCHANGED vars
      PROVE UNCHANGED workers
  BY <1>6 DEF CoolDown, Stop, StopReturns, vars
<1> QED
  BY <1>1, <1>2, <1>3, <1>4, <1>5, <1>6 DEF Next, WorkerStep

(* No worker ever takes up a request that CancelRequest took out of the    *)
(* queue: a cancelled request is in no queue.                              *)
THEOREM CancelledRequestsStayOut == Spec => CancelledStaysOut
<1> DEFINE Out == \A r \in Requests :
                    /\ requests[r].done = "cancelled"
                    /\ \A w \in Workers : workers[w].request # r
                    => \A w \in Workers : workers'[w].request # r
<1>1. QueueInv /\ [Next]_vars => Out
  <2> SUFFICES ASSUME QueueInv, [Next]_vars, NEW r \in Requests,
                      requests[r].done = "cancelled",
                      \A w \in Workers : workers[w].request # r,
                      NEW w \in Workers, workers'[w].request = r
               PROVE  FALSE
    OBVIOUS
  <2>1. r # None
    BY QueueAssumption
  <2>2. PICK i \in DOMAIN queue : r = queue[i]
    BY <2>1, WorkersTakeFromQueue
  <2> QED
    BY <2>2 DEF QueueInv, Bookkeeping
<1> QED
  BY <1>1, QueueInvariant, PTL DEF Spec, CancelledStaysOut
=============================================================================
