----------------------------- MODULE HttpServer -----------------------------
(***************************************************************************)
(* The HTTP server: Server, Accepted and IncomingBody of                   *)
(* winasio-util/src/server, and the concurrent driver of winasio-axum      *)
(* (serve.rs, executor.rs).  The request queue is used as Delivery         *)
(* describes it, and responses are sent by Responder.                      *)
(*                                                                         *)
(* Four drivers:                                                           *)
(*   "serve"    Server::serve, one request after the other                 *)
(*   "current"  winasio_axum::serve with CurrentThread, whose tasks run    *)
(*              only while the loop polls them                             *)
(*   "thread"   winasio_axum::serve with ThreadPerRequest                  *)
(*   "spawn"    a caller's own loop over accept and Accepted::serve        *)
(*                                                                         *)
(* The service has a number of reservations: poll_ready takes one, and it  *)
(* is given back when the clone that holds it is dropped.                  *)
(***************************************************************************)
EXTENDS Responder, FiniteSets

CONSTANTS
    Drivers,        \* pairs of a driver and whether it uses send_streaming
    Reservations,   \* how many calls the service takes at a time
    Unready,        \* poll_ready may fail
    Panics,         \* the handler may panic
    WithBody,       \* requests that have a body
    BodyChunks,     \* the pieces in which such a body arrives
    Heads,          \* the heads each request may come with
    None            \* no request

ASSUME ServerAssumption ==
    /\ Drivers \subseteq {"serve", "current", "thread", "spawn"} \X BOOLEAN
    /\ Reservations \in Nat \ {0}
    /\ Unready \in BOOLEAN /\ Panics \in BOOLEAN
    /\ WithBody \subseteq Requests
    /\ BodyChunks \in Nat
    /\ Heads \in [Requests -> SUBSET [{"method", "target", "name", "value"} -> BOOLEAN]]
    /\ {None, "loop"} \cap Requests = {}

VARIABLES
    driver,     \* which of the four
    place,      \* Delivery
    loop,       \* where the accept loop is
    current,    \* the request whose 400 the loop awaits
    held,       \* who holds a reservation: tasks, and "loop"
    observed,   \* requests whose error was reported to on_error, or returned
    arrives,    \* pieces of a request body the peer has yet to send
    kernel,     \* pieces of it HTTP.sys holds
    read,       \* IncomingBody::state, and what its read has
    delivered   \* pieces the handler has got

incoming == <<arrives, kernel, read, delivered>>
loopVars == <<driver, place, loop, current, held, observed>>
vars == <<respVars, queueVars, loopVars, incoming>>

Queue == INSTANCE Delivery WITH Callers <- {"loop"}

\* State of IncomingBody: Idle, Busy with an unresolved read, Busy with one
\* that has a piece, the end or an error, and Finished.
ReadState == {"Idle", "Busy", "Piece", "End", "Error", "Finished"}

ServerTypeOK ==
    /\ ResponderTypeOK
    /\ driver \in {"serve", "current", "thread", "spawn"}
    /\ \A r \in Requests : place[r] \subseteq
            {"unseen", "queued", "loop", "handed", "lost", "discarded"}
    /\ loop \in {"building", "unbuilt", "gate", "accept", "badrequest", "serving", "stopped", "failed"}
    /\ current \in Requests \cup {None}
    /\ held \subseteq Requests \cup {"loop"}
    /\ observed \in SUBSET Requests
    /\ \A f \in {arrives, kernel, delivered} : f \in [Requests -> 0..BodyChunks]
    /\ read \in [Requests -> ReadState]

ServerInit ==
    /\ ResponderInit
    /\ \E d \in Drivers : driver = d[1] /\ streaming = d[2]
    /\ Queue!Init
    /\ loop = "building"
    /\ current = None
    /\ held = {}
    /\ observed = {}
    /\ arrives = [r \in Requests |-> IF r \in WithBody THEN BodyChunks ELSE 0]
    /\ kernel = [r \in Requests |-> 0]
    /\ read = [r \in Requests |-> "Finished"]
    /\ delivered = [r \in Requests |-> 0]

\* The loop has ended.
Ended == loop \in {"stopped", "failed", "unbuilt"}

\* There is a server.
Built == loop \notin {"building", "unbuilt"}

\* A task that has been dispatched and has not returned to the driver.
InFlight(r) == pc[r] \notin {"none", "settled", "dropped"}

\* Mutant of Driven: the executor is not polled while the loop waits for
\* readiness.
DrivenInAccept(r) ==
    CASE driver \in {"thread", "spawn"} -> TRUE
      [] driver = "current" -> loop \in {"accept", "badrequest"}
      [] driver = "serve" -> loop \in {"serving", "badrequest"}

\* A task of r can run: on its own thread, inside the loop's own await, or
\* whenever the loop polls its executor, which it does in both its awaits.
Driven(r) ==
    CASE driver \in {"thread", "spawn"} -> TRUE
      [] driver = "current" -> ~Ended
      [] driver = "serve" -> loop \in {"serving", "badrequest"}

Free == Cardinality(held) < Reservations

----------------------------------------------------------------------------
(* The peers, and whoever holds the ShutdownHandle.                        *)

\* HTTP.sys routes to the queue once the URL group is bound to it.
Arrive(r) ==
    /\ ~closed
    /\ Built
    /\ Queue!Arrive(r)
    /\ UNCHANGED <<respVars, queueVars, driver, loop, current, held, observed, incoming>>

BodyArrives(r) ==
    /\ place[r] # {"unseen"}
    /\ arrives[r] > 0
    /\ arrives' = [arrives EXCEPT ![r] = @ - 1]
    /\ kernel' = [kernel EXCEPT ![r] = @ + 1]
    /\ UNCHANGED <<respVars, queueVars, loopVars, read, delivered>>

\* Server::shutdown or ShutdownHandle::shutdown.
Shutdown ==
    /\ ~closed
    /\ Built
    /\ closed' = TRUE
    /\ UNCHANGED <<respVars, streaming, loopVars, incoming>>

----------------------------------------------------------------------------
(* The loop: Server::serve and serve_one, and run of serve.rs.             *)

\* The loop ends.  A current-thread executor is dropped with the tasks in it.
LoopEnds(how) ==
    LET gone == {r \in Requests : driver = "current" /\ InFlight(r)}
    IN /\ loop' = how
       /\ current' = None
       /\ held' = held \ ({"loop"} \cup gone)
       /\ pc' = [r \in Requests |-> IF r \in gone THEN "dropped" ELSE pc[r]]

\* The next iteration; the caller's own loop has no gate.
Again == loop' = IF driver = "spawn" THEN "accept" ELSE "gate"

\* ServerBuilder::build: the URL group, its URLs, the queue and the binding of
\* the two; when one of them fails, there is no server.
Build ==
    /\ loop = "building"
    /\ Again \/ loop' = "unbuilt"
    /\ UNCHANGED <<respVars, queueVars, driver, place, current, held, observed, incoming>>

\* Mutant of Ready: the service is awaited after the request was accepted.
ReadyLater ==
    /\ loop = "gate"
    /\ loop' = "accept"
    /\ held' = IF Free THEN held \cup {"loop"} ELSE held
    /\ UNCHANGED <<respVars, queueVars, driver, place, current, observed, incoming>>

\* poll_ready of the clone that will serve the next request.
Ready ==
    /\ loop = "gate"
    /\ Free
    /\ held' = held \cup {"loop"}
    /\ loop' = "accept"
    /\ UNCHANGED <<respVars, queueVars, driver, place, current, observed, incoming>>

ReadyFails ==
    /\ Unready
    /\ loop = "gate"
    /\ LoopEnds("failed")
    /\ UNCHANGED <<reply, bodyVars, sendVars, result, wire, queueVars, driver, place,
                   observed, incoming>>

\* The receive inside accept completes with r.
Receives(r) ==
    /\ loop = "accept"
    /\ ~closed
    /\ \A s \in Requests : place[s] # {"loop"}
    /\ Queue!Hold(r, "loop")
    /\ UNCHANGED <<respVars, queueVars, driver, loop, current, held, observed, incoming>>

\* method_of, uri_of, header_value: a head h is a record of which of its parts
\* the types of the http crate can hold.
MethodOf(h) == h.method
UriOf(h) == h.target
HeaderValue(h) == h.value

\* to_http.
ToHttp(h) == MethodOf(h) /\ UriOf(h) /\ h.name /\ HeaderValue(h)

\* body_for: a request with nothing to come gets a body that is over.
BodyFor(r) == IF arrives[r] + kernel[r] = 0 THEN "Finished" ELSE "Idle"

\* Accepted::from_platform.
FromPlatform(r, h) ==
    /\ ToHttp(h)
    /\ read' = [read EXCEPT ![r] = BodyFor(r)]
    /\ UNCHANGED <<arrives, kernel, delivered>>

\* accept returns it, and the driver serves it with the clone that is ready:
\* at once, or in a task that awaits readiness once more.
AcceptOk(r) ==
    /\ loop = "accept"
    /\ \E h \in Heads[r] : FromPlatform(r, h)
    /\ Queue!Hand(r, "loop")
    /\ held' = IF "loop" \in held THEN (held \ {"loop"}) \cup {r} ELSE held
    /\ pc' = [pc EXCEPT ![r] = IF driver = "serve" THEN "calling" ELSE "ready"]
    /\ IF driver = "serve" THEN loop' = "serving" ELSE Again
    /\ UNCHANGED <<reply, bodyVars, sendVars, result, wire, queueVars, driver, current,
                   observed>>

\* The head cannot be converted: accept sends a 400 before it returns.
AcceptMalformed(r) ==
    /\ loop = "accept"
    /\ \E h \in Heads[r] : ~ToHttp(h)
    /\ Queue!Hand(r, "loop")
    /\ pc' = [pc EXCEPT ![r] = "finish"]
    /\ result' = [result EXCEPT ![r] = "malformed"]
    /\ loop' = "badrequest"
    /\ current' = r
    /\ UNCHANGED <<reply, bodyVars, sendVars, wire, queueVars, driver, held, observed, incoming>>

\* The loop goes on after an error of accept that concerns one request, which
\* it reports; Server::serve returns it.  The clone, and its reservation, goes.
Continues(r) ==
    /\ observed' = observed \cup {r}
    /\ held' = held \ {"loop"}
    /\ current' = None
    /\ IF driver = "serve" THEN loop' = "failed" ELSE Again

BadRequestSent(r) ==
    /\ loop = "badrequest"
    /\ current = r
    /\ pc[r] = "done"
    /\ pc' = [pc EXCEPT ![r] = "settled"]
    /\ Continues(r)
    /\ UNCHANGED <<reply, bodyVars, sendVars, result, wire, queueVars, driver, place, incoming>>

\* receive gave up on it, and has discarded it.
AcceptTooLarge(r) ==
    /\ loop = "accept"
    /\ ~closed
    /\ \A s \in Requests : place[s] # {"loop"}
    /\ Queue!Discard(r)
    /\ Continues(r)
    /\ UNCHANGED <<respVars, queueVars, driver, incoming>>

\* Mutant of AcceptFails: a closed queue is one more error to report.
AcceptFailsReported ==
    /\ loop = "accept"
    /\ \A r \in Requests : place[r] # {"loop"}
    /\ closed
    /\ Again
    /\ held' = held \ {"loop"}
    /\ UNCHANGED <<respVars, queueVars, driver, place, current, observed, incoming>>

\* The receive fails: with the queue closed a clean stop, else a fault
\* (is_queue_closed and classify).
AcceptFails ==
    /\ loop = "accept"
    /\ \A r \in Requests : place[r] # {"loop"}
    /\ \/ closed /\ LoopEnds("stopped")
       \/ Faults # {} /\ ~closed /\ LoopEnds("failed")
    /\ UNCHANGED <<reply, bodyVars, sendVars, result, wire, queueVars, driver, place, observed,
                   incoming>>

----------------------------------------------------------------------------
(* Serving a request: Accepted::serve and the task around it.              *)

\* Accepted::serve awaits the readiness of the service it was given.
TaskReady(r) ==
    /\ pc[r] = "ready"
    /\ Driven(r)
    /\ r \in held \/ Free
    /\ held' = held \cup {r}
    /\ Goes(r, "calling")
    /\ UNCHANGED <<reply, bodyVars, sendVars, result, wire, queueVars, driver, place, loop,
                   current, observed, incoming>>

\* It fails, and with it serve: `?` drops the responder.
TaskUnready(r) ==
    /\ Unready
    /\ pc[r] = "ready"
    /\ Driven(r)
    /\ Returns(r, "service")
    /\ UNCHANGED <<reply, bodyVars, sendVars, wire, queueVars, loopVars, incoming>>

\* A caller that has taken the request apart rejects it.
Rejects(r) ==
    /\ driver = "spawn"
    /\ pc[r] = "ready"
    /\ \/ ~closed /\ Returns(r, "rejected")
       \/ \E e \in SendErrors(r) : Returns(r, e)
    /\ UNCHANGED <<reply, bodyVars, sendVars, wire, queueVars, loopVars, incoming>>

\* The handler, or the body it returned, panics.  catch_unwind turns that into
\* a report; out of Server::serve it unwinds.
Panic(r) ==
    /\ Panics
    /\ driver # "spawn"
    /\ pc[r] = "calling" \/ Polls(r)
    /\ Driven(r)
    /\ Returns(r, "panic")
    /\ UNCHANGED <<reply, bodyVars, sendVars, wire, queueVars, loopVars, incoming>>

Handler(r) ==
    /\ Driven(r)
    /\ (\E y \in Replies[r] : Begin(r, y)) \/ ServiceFails(r)
    /\ UNCHANGED <<loopVars, incoming>>

Answer(r) ==
    /\ Driven(r)
    /\ Answers(r)
    /\ UNCHANGED <<loopVars, incoming>>

\* The task is over: its clone is dropped, and what went wrong is reported, or
\* returned by Server::serve, for which a closed queue is no error.
Settle(r) ==
    /\ pc[r] = "done"
    /\ current # r
    /\ Driven(r)
    /\ LET fine == result[r] \in {"ok", "rejected"}
           stops == driver = "serve" /\ result[r] = "invalid"
       IN /\ observed' = IF fine \/ stops THEN observed ELSE observed \cup {r}
          /\ IF driver # "serve" THEN UNCHANGED loop
             ELSE loop' = IF fine THEN "gate" ELSE IF stops THEN "stopped" ELSE "failed"
    /\ held' = held \ {r}
    /\ pc' = [pc EXCEPT ![r] = "settled"]
    /\ Forgets(r)
    /\ UNCHANGED <<result, wire, queueVars, driver, place, current, incoming>>

----------------------------------------------------------------------------
(* Reading the request body: IncomingBody.  The handler reads, or the body *)
(* it returned does when it passes the request's on.                       *)

\* HttpReceiveRequestEntityBody completes: with a piece, with the end, or with
\* an error when the queue is closed or the peer has gone.
ReadCompletes(r) ==
    /\ read[r] = "Busy"
    /\ \/ kernel[r] > 0 /\ read' = [read EXCEPT ![r] = "Piece"]
                        /\ kernel' = [kernel EXCEPT ![r] = @ - 1]
       \/ kernel[r] = 0 /\ arrives[r] = 0 /\ read' = [read EXCEPT ![r] = "End"]
                        /\ UNCHANGED kernel
       \/ (closed \/ r \in Faults) /\ read' = [read EXCEPT ![r] = "Error"] /\ UNCHANGED kernel
    /\ UNCHANGED <<respVars, queueVars, loopVars, arrives, delivered>>

\* Mutant of PollFrame: a read that is pending is made anew at the next poll,
\* and the piece that has come meanwhile goes with the old one.
PollFrameAnew(r) ==
    /\ pc[r] = "calling" \/ Polls(r)
    /\ Driven(r)
    /\ read[r] \notin {"Busy", "Finished"}
    /\ read' = [read EXCEPT ![r] = IF @ \in {"Idle", "Piece"} THEN "Busy" ELSE "Finished"]
    /\ UNCHANGED <<respVars, queueVars, loopVars, arrives, kernel, delivered>>

\* poll_frame: starts a read, or takes the outcome of the one it has kept.
PollFrame(r) ==
    /\ pc[r] = "calling" \/ Polls(r)
    /\ Driven(r)
    /\ read[r] \notin {"Busy", "Finished"}
    /\ read' = [read EXCEPT ![r] = CASE @ = "Idle" -> "Busy" [] @ = "Piece" -> "Idle"
                                     [] @ \in {"End", "Error"} -> "Finished"]
    /\ delivered' = [delivered EXCEPT ![r] = IF read[r] = "Piece" THEN @ + 1 ELSE @]
    /\ UNCHANGED <<respVars, queueVars, loopVars, arrives, kernel>>

----------------------------------------------------------------------------

LoopStep ==
    \/ Build \/ Ready \/ AcceptFails
    \/ \E r \in Requests : Receives(r) \/ AcceptOk(r) \/ AcceptMalformed(r)
                           \/ BadRequestSent(r) \/ AcceptTooLarge(r)

TaskStep(r) == TaskReady(r) \/ Handler(r) \/ Answer(r) \/ Settle(r)

\* What may go wrong in the service, and a caller that does not want to serve.
Upsets == ReadyFails \/ \E r \in Requests : TaskUnready(r) \/ Rejects(r) \/ Panic(r)

Peer == Shutdown \/ \E r \in Requests : Arrive(r) \/ BodyArrives(r)

Body(r) == ReadCompletes(r) \/ PollFrame(r)

\* All requests were made, the loop has ended and every task is over.
Over ==
    /\ Ended
    /\ \A r \in Requests : ~InFlight(r)
    /\ UNCHANGED vars

ServerNext ==
    LoopStep \/ Upsets \/ Peer \/ Over \/ \E r \in Requests : TaskStep(r) \/ Body(r)

ServerSpec == ServerInit /\ [][ServerNext]_vars

\* The loop and the tasks are polled when their wakers are called, so each
\* takes its steps; a handler returns, and a body ends.  Nothing makes a peer
\* send, or anyone shut the server down.
ServerFairness ==
    /\ WF_vars(LoopStep)
    /\ \A r \in Requests : WF_vars(TaskStep(r))

ServerFairSpec == ServerSpec /\ ServerFairness

----------------------------------------------------------------------------
(* Properties.                                                             *)

\* Backpressure: the drivers of this repository take a request out of the
\* kernel's queue only with a service that is ready to serve it, so what they
\* cannot serve stays with HTTP.sys.
Backpressure ==
    [][\A r \in Requests :
        place[r] = {"queued"} /\ place'[r] # {"queued"} =>
            driver = "spawn" \/ "loop" \in held]_vars

\* No byte of a request body is lost between the peer and the handler, however
\* often a read is polled, and the end is reported only when all was delivered.
BodyWhole ==
    \A r \in WithBody :
        LET inRead == IF read[r] = "Piece" THEN 1 ELSE 0
        IN /\ delivered[r] + inRead + kernel[r] + arrives[r] = BodyChunks
           /\ read[r] = "End" => delivered[r] = BodyChunks

\* Every request a driver was handed is dealt with: answered, or its error
\* reported, or dropped with the loop.  This needs the loop to drive its tasks
\* while it waits for one of them to give its reservation back.
Settled == \A r \in Requests : place[r] = {"handed"} ~> pc[r] \in {"settled", "dropped"}

\* Closing the queue ends the loop, whichever await it is in.
Stops == closed ~> Ended
=============================================================================
