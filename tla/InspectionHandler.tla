------------------------- MODULE InspectionHandler -------------------------
(***************************************************************************)
(* The HTTP server that takes inspection reports.  It runs in every        *)
(* manager, whether or not that manager is the leader, with one goroutine  *)
(* for each request.  Only requests that pass ServeHTTP's checks (POST,    *)
(* well-formed, with a namespace and a host name) reach the resources; the *)
(* others change nothing.                                                  *)
(***************************************************************************)
EXTENDS BareMetal

VARIABLE requests    \* the request that each slot is handling

NoRequest == [host |-> None, report |-> None, manager |-> None]

Request == [host : Hosts, report : Reports, manager : Managers] \cup {NoRequest}

Handling(r) == requests[r].host # None

(* The inspection image posts its report.  It may also repeat it (a fault). *)
PostReport(r, h, report, g) ==
  /\ servers[h].image = "inspector"
  /\ ~Handling(r)
  /\ requests' = [requests EXCEPT ![r] =
                    [host |-> h, report |-> report, manager |-> g]]
  /\ \/ /\ Succeeds
        /\ servers' = [servers EXCEPT ![h].image = "posting"]
     \/ /\ Fails
        /\ UNCHANGED servers
  /\ UNCHANGED <<hosts, machineVars, cache, view>>

(* The answer to a request: the image goes on to the operating system when *)
(* the report was taken, and posts again when it was not.                  *)
Answer(r, next) ==
  LET h == requests[r].host IN
  /\ requests' = [requests EXCEPT ![r] = NoRequest]
  /\ servers' = [servers EXCEPT ![h].image = IF @ = "posting" THEN next ELSE @]

AnswerOK(r) == Answer(r, "os")

AnswerError(r) == Answer(r, "inspector")

(* updatePhysicalHost: Get; an unknown host is answered with an error.     *)
GetReportedHost(r) ==
  /\ Handling(r) /\ view[Handler(r)].host = None
  /\ LET h == requests[r].host
         g == requests[r].manager IN
     \/ /\ cache[g][h].object.exists
        /\ GetHost(Handler(r), g, h)
        /\ UNCHANGED <<requests, servers>>
     \/ /\ ~cache[g][h].object.exists
        /\ AnswerError(r)
        /\ UNCHANGED view
  /\ UNCHANGED <<hosts, machineVars, cache, faults>>

(* Mutant: a phase that no reconciler knows.                               *)
WithReportCompleted(object, report) ==
  [object EXCEPT !.report = report, !.phase = "Completed"]

(* updatePhysicalHost: store the report, whatever state the host is in.    *)
WithReport(object, report) ==
  [object EXCEPT !.report = report, !.phase = "Complete"]

(* The report carries the time at which it was received: it always changes *)
(* the object.                                                             *)
StoreReport(r) ==
  LET t == Handler(r) IN
  /\ Handling(r) /\ view[t].host # None
  /\ UpdateHost(t, WithReport(view[t].object, requests[r].report), TRUE)
  /\ \/ Conflict(t) /\ AnswerError(r)
     \/ ~Conflict(t) /\ AnswerOK(r)
  /\ UNCHANGED <<machineVars, faults>>

InspectionHandlerInit == requests = [r \in Requests |-> NoRequest]

InspectionHandlerTypeOK == requests \in [Requests -> Request]
=============================================================================
