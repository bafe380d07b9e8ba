-------------------------- MODULE HttpServerProofs --------------------------
(***************************************************************************)
(* Safety of HttpServer and Responder, for any number of requests,         *)
(* reservations and pieces of a body, any drivers and any service: no byte *)
(* of a request body is lost, no request is taken before the service is    *)
(* ready for it, what the peer parses is one sound response, and what a    *)
(* task returns is the truth about it.                                     *)
(***************************************************************************)
EXTENDS HttpServer, SequenceTheorems, TLAPS

----------------------------------------------------------------------------
(* Request bodies.                                                         *)

IncomingTypes ==
    /\ \A f \in {arrives, kernel, delivered} : f \in [Requests -> Nat]
    /\ read \in [Requests -> ReadState]
    /\ place \in [Requests -> SUBSET {"unseen", "queued", "loop", "handed", "lost", "discarded"}]

\* A request that was not handed over has a body nobody reads.
Unread == \A r \in Requests : place[r] # {"handed"} => read[r] = "Finished"

BodyInv == IncomingTypes /\ Unread /\ BodyWhole

LEMMA BodyInvInit == ServerInit => BodyInv
<1> SUFFICES ASSUME ServerInit PROVE BodyInv
  OBVIOUS
<1>1. /\ arrives = [r \in Requests |-> IF r \in WithBody THEN BodyChunks ELSE 0]
      /\ kernel = [r \in Requests |-> 0]
      /\ read = [r \in Requests |-> "Finished"]
      /\ delivered = [r \in Requests |-> 0]
      /\ place = [r \in Requests |-> {"unseen"}]
      /\ BodyChunks \in Nat /\ WithBody \subseteq Requests
  BY ServerAssumption DEF ServerInit, Queue!Init
<1>2. IncomingTypes /\ Unread
  BY <1>1 DEF IncomingTypes, Unread, ReadState
<1>3. BodyWhole
  <2> SUFFICES ASSUME NEW s \in WithBody
               PROVE  LET inRead == IF read[s] = "Piece" THEN 1 ELSE 0
                      IN /\ delivered[s] + inRead + kernel[s] + arrives[s] = BodyChunks
                         /\ read[s] = "End" => delivered[s] = BodyChunks
    BY DEF BodyWhole
  <2>1. /\ arrives[s] = BodyChunks /\ kernel[s] = 0 /\ delivered[s] = 0
        /\ read[s] = "Finished"
    BY <1>1
  <2> QED
    BY <1>1, <2>1
<1> QED
  BY <1>2, <1>3 DEF BodyInv

\* Steps that concern neither bodies nor where requests are.
LEMMA BodyInvKept ==
    ASSUME BodyInv, UNCHANGED <<arrives, kernel, read, delivered, place>>
    PROVE  BodyInv'
BY DEF BodyInv, IncomingTypes, Unread, BodyWhole

\* A request moves from one place to another that is not the handler.
LEMMA BodyInvMoved ==
    ASSUME BodyInv, NEW r \in Requests, UNCHANGED incoming,
           NEW from \in {"unseen", "queued"}, NEW to \in {"queued", "loop", "discarded"},
           Queue!Moves(r, from, to)
    PROVE  BodyInv'
<1>1. place[r] # {"handed"}
  BY DEF Queue!Moves
<1>2. IncomingTypes' /\ Unread'
  BY <1>1 DEF BodyInv, IncomingTypes, Unread, Queue!Moves, incoming
<1>3. BodyWhole'
  BY DEF BodyInv, BodyWhole, incoming
<1> QED
  BY <1>2, <1>3 DEF BodyInv

LEMMA BodyArrivesKeeps ==
    ASSUME BodyInv, NEW r \in Requests, BodyArrives(r)
    PROVE  BodyInv'
<1>1. IncomingTypes' /\ Unread'
  BY DEF BodyInv, IncomingTypes, Unread, BodyArrives, loopVars
<1>2. BodyWhole'
  <2> SUFFICES ASSUME NEW s \in WithBody
               PROVE  LET inRead == IF read[s] = "Piece" THEN 1 ELSE 0
                      IN (/\ delivered[s] + inRead + kernel[s] + arrives[s] = BodyChunks
                          /\ read[s] = "End" => delivered[s] = BodyChunks)'
    BY DEF BodyWhole
  <2>1. s \in Requests
    BY ServerAssumption
  <2> QED
    BY <2>1, ServerAssumption DEF BodyInv, IncomingTypes, BodyWhole, BodyArrives
<1> QED
  BY <1>1, <1>2 DEF BodyInv

LEMMA ReadCompletesKeeps ==
    ASSUME BodyInv, NEW r \in Requests, ReadCompletes(r)
    PROVE  BodyInv'
<1>1. IncomingTypes'
  BY DEF BodyInv, IncomingTypes, ReadState, ReadCompletes, loopVars
<1>2. Unread'
  BY DEF BodyInv, IncomingTypes, Unread, ReadCompletes, loopVars
<1>3. BodyWhole'
  <2> SUFFICES ASSUME NEW s \in WithBody
               PROVE  LET inRead == IF read[s] = "Piece" THEN 1 ELSE 0
                      IN (/\ delivered[s] + inRead + kernel[s] + arrives[s] = BodyChunks
                          /\ read[s] = "End" => delivered[s] = BodyChunks)'
    BY DEF BodyWhole
  <2>1. s \in Requests
    BY ServerAssumption
  <2> QED
    BY <2>1, ServerAssumption DEF BodyInv, IncomingTypes, BodyWhole, ReadCompletes
<1> QED
  BY <1>1, <1>2, <1>3 DEF BodyInv

LEMMA PollFrameKeeps ==
    ASSUME BodyInv, NEW r \in Requests, PollFrame(r)
    PROVE  BodyInv'
<1>1. IncomingTypes'
  BY DEF BodyInv, IncomingTypes, ReadState, PollFrame, loopVars
<1>2. Unread'
  BY DEF BodyInv, IncomingTypes, Unread, PollFrame, loopVars
<1>3. BodyWhole'
  <2> SUFFICES ASSUME NEW s \in WithBody
               PROVE  LET inRead == IF read[s] = "Piece" THEN 1 ELSE 0
                      IN (/\ delivered[s] + inRead + kernel[s] + arrives[s] = BodyChunks
                          /\ read[s] = "End" => delivered[s] = BodyChunks)'
    BY DEF BodyWhole
  <2>1. s \in Requests
    BY ServerAssumption
  <2> QED
    BY <2>1, ServerAssumption DEF BodyInv, IncomingTypes, BodyWhole, PollFrame, ReadState
<1> QED
  BY <1>1, <1>2, <1>3 DEF BodyInv

\* Only here a body that nobody read becomes one that somebody may read.
LEMMA AcceptOkKeeps ==
    ASSUME BodyInv, NEW r \in Requests, AcceptOk(r)
    PROVE  BodyInv'
<1>1. /\ read' = [read EXCEPT ![r] = BodyFor(r)]
      /\ UNCHANGED <<arrives, kernel, delivered>>
      /\ place[r] = {"loop"}
      /\ place' = [place EXCEPT ![r] = {"handed"}]
  BY DEF AcceptOk, FromPlatform, Queue!Hand, Queue!Moves
<1>2. BodyFor(r) \in {"Finished", "Idle"}
  BY DEF BodyFor
<1>3. read[r] = "Finished"
  BY <1>1 DEF BodyInv, Unread
<1>4. IncomingTypes' /\ Unread'
  BY <1>1, <1>2 DEF BodyInv, IncomingTypes, Unread, ReadState
<1>5. BodyWhole'
  BY <1>1, <1>2, <1>3, ServerAssumption DEF BodyInv, IncomingTypes, BodyWhole
<1> QED
  BY <1>4, <1>5 DEF BodyInv

LEMMA AcceptMalformedKeeps ==
    ASSUME BodyInv, NEW r \in Requests, AcceptMalformed(r)
    PROVE  BodyInv'
<1>1. UNCHANGED incoming /\ place' = [place EXCEPT ![r] = {"handed"}]
  BY DEF AcceptMalformed, Queue!Hand, Queue!Moves
<1>2. IncomingTypes' /\ Unread' /\ BodyWhole'
  BY <1>1 DEF BodyInv, IncomingTypes, Unread, BodyWhole, incoming
<1> QED
  BY <1>2 DEF BodyInv

LEMMA BodyInvStep ==
    ASSUME BodyInv, [ServerNext]_vars
    PROVE  BodyInv'
<1> USE DEF incoming, loopVars
<1>1. CASE UNCHANGED vars
  BY <1>1, BodyInvKept DEF vars
<1>2. CASE LoopStep
  <2>1. CASE Build \/ Ready \/ AcceptFails
    BY <2>1, BodyInvKept DEF Build, Ready, AcceptFails
  <2>2. ASSUME NEW r \in Requests, Receives(r) PROVE BodyInv'
    BY <2>2, BodyInvMoved DEF Receives, Queue!Hold
  <2>3. ASSUME NEW r \in Requests, BadRequestSent(r) PROVE BodyInv'
    BY <2>3, BodyInvKept DEF BadRequestSent
  <2>4. ASSUME NEW r \in Requests, AcceptTooLarge(r) PROVE BodyInv'
    BY <2>4, BodyInvMoved DEF AcceptTooLarge, Queue!Discard
  <2> QED
    BY <1>2, <2>1, <2>2, <2>3, <2>4, AcceptOkKeeps, AcceptMalformedKeeps DEF LoopStep
<1>3. CASE Upsets
  BY <1>3, BodyInvKept DEF Upsets, ReadyFails, TaskUnready, Rejects, Panic
<1>4. CASE Peer
  <2>1. CASE Shutdown
    BY <2>1, BodyInvKept DEF Shutdown
  <2>2. ASSUME NEW r \in Requests, Arrive(r) PROVE BodyInv'
    BY <2>2, BodyInvMoved DEF Arrive, Queue!Arrive
  <2> QED
    BY <1>4, <2>1, <2>2, BodyArrivesKeeps DEF Peer
<1>5. CASE Over
  BY <1>5, BodyInvKept DEF Over, vars
<1>6. ASSUME NEW r \in Requests, TaskStep(r) PROVE BodyInv'
  BY <1>6, BodyInvKept DEF TaskStep, TaskReady, Handler, Answer, Settle
<1>7. ASSUME NEW r \in Requests, Body(r) PROVE BodyInv'
  BY <1>7, ReadCompletesKeeps, PollFrameKeeps DEF Body
<1> QED
  BY <1>1, <1>2, <1>3, <1>4, <1>5, <1>6, <1>7 DEF ServerNext

\* No byte of a request body is lost between HTTP.sys and the handler, and the
\* end is reported only when all was delivered (incoming.rs).
THEOREM BodiesWhole == ServerSpec => []BodyWhole
<1>1. BodyInv => BodyWhole
  BY DEF BodyInv
<1> QED
  BY BodyInvInit, BodyInvStep, <1>1, PTL DEF ServerSpec

----------------------------------------------------------------------------
(* Readiness.                                                              *)

\* The loop that waits in accept holds the reservation of its next request.
Gated == loop = "accept" => driver = "spawn" \/ "loop" \in held

LEMMA GatedStep ==
    ASSUME Gated, [ServerNext]_vars
    PROVE  Gated'
<1> USE DEF Gated
<1>1. CASE UNCHANGED <<loop, driver, held>>
  BY <1>1
<1>2. CASE LoopStep
  <2>1. CASE Build
    BY <2>1 DEF Build, Again
  <2>2. CASE Ready
    BY <2>2 DEF Ready
  <2>3. CASE AcceptFails
    BY <2>3 DEF AcceptFails, LoopEnds
  <2>4. ASSUME NEW r \in Requests, Receives(r) PROVE Gated'
    BY <2>4 DEF Receives
  <2>5. ASSUME NEW r \in Requests, AcceptOk(r) PROVE Gated'
    BY <2>5 DEF AcceptOk, Again
  <2>6. ASSUME NEW r \in Requests, AcceptMalformed(r) PROVE Gated'
    BY <2>6 DEF AcceptMalformed
  <2>7. ASSUME NEW r \in Requests, BadRequestSent(r) PROVE Gated'
    BY <2>7 DEF BadRequestSent, Continues, Again
  <2>8. ASSUME NEW r \in Requests, AcceptTooLarge(r) PROVE Gated'
    BY <2>8 DEF AcceptTooLarge, Continues, Again
  <2> QED
    BY <1>2, <2>1, <2>2, <2>3, <2>4, <2>5, <2>6, <2>7, <2>8 DEF LoopStep
<1>3. CASE Upsets
  <2>1. CASE ReadyFails
    BY <2>1 DEF ReadyFails, LoopEnds
  <2>2. ASSUME NEW r \in Requests, TaskUnready(r) \/ Rejects(r) \/ Panic(r)
        PROVE  UNCHANGED <<loop, driver, held>>
    BY <2>2 DEF TaskUnready, Rejects, Panic, loopVars
  <2> QED
    BY <1>1, <1>3, <2>1, <2>2 DEF Upsets
<1>4. CASE Peer
  <2>1. UNCHANGED <<loop, driver, held>>
    BY <1>4 DEF Peer, Shutdown, Arrive, BodyArrives, loopVars
  <2> QED
    BY <1>1, <2>1
<1>5. ASSUME NEW r \in Requests, TaskStep(r) PROVE Gated'
  <2>1. CASE TaskReady(r)
    BY <2>1 DEF TaskReady
  <2>2. CASE Handler(r) \/ Answer(r)
    BY <2>2 DEF Handler, Answer, loopVars
  <2>3. CASE Settle(r)
    <3>1. r # "loop"
      BY ServerAssumption
    <3>2. driver' = driver /\ held' = held \ {r} /\ loop' \in {loop, "gate", "stopped", "failed"}
      BY <2>3 DEF Settle
    <3> QED
      BY <3>1, <3>2
  <2> QED
    BY <1>5, <2>1, <2>2, <2>3 DEF TaskStep
<1>6. ASSUME NEW r \in Requests, Body(r) PROVE Gated'
  BY <1>6 DEF Body, ReadCompletes, PollFrame, loopVars
<1>7. CASE Over \/ UNCHANGED vars
  BY <1>7 DEF Over, vars, loopVars
<1> QED
  BY <1>2, <1>3, <1>4, <1>5, <1>6, <1>7 DEF ServerNext

\* A request leaves the kernel's queue in a step of accept.
LEMMA TakenInAccept ==
    ASSUME IncomingTypes, [ServerNext]_vars, NEW r \in Requests,
           place[r] = {"queued"}, place'[r] # {"queued"}
    PROVE  loop = "accept"
<1>1. ~UNCHANGED place
  OBVIOUS
<1>2. \A s \in Requests : ~Arrive(s)
  BY DEF IncomingTypes, Arrive, Queue!Arrive, Queue!Moves
<1>3. CASE LoopStep
  BY <1>1, <1>3 DEF LoopStep, Build, Ready, AcceptFails, Receives, AcceptOk, AcceptMalformed,
                    BadRequestSent, AcceptTooLarge
<1>4. CASE Upsets
  BY <1>1, <1>4 DEF Upsets, ReadyFails, TaskUnready, Rejects, Panic, loopVars
<1>5. CASE Peer
  BY <1>1, <1>2, <1>5 DEF Peer, Shutdown, BodyArrives, loopVars
<1>6. ASSUME NEW s \in Requests, TaskStep(s) PROVE FALSE
  BY <1>1, <1>6 DEF TaskStep, TaskReady, Handler, Answer, Settle, loopVars
<1>7. ASSUME NEW s \in Requests, Body(s) PROVE FALSE
  BY <1>1, <1>7 DEF Body, ReadCompletes, PollFrame, loopVars
<1>8. CASE Over \/ UNCHANGED vars
  BY <1>1, <1>8 DEF Over, vars, loopVars
<1> QED
  BY <1>3, <1>4, <1>5, <1>6, <1>7, <1>8 DEF ServerNext

\* The drivers take a request out of the kernel's queue only when they hold a
\* service that is ready for it (serve of serve.rs, serve_one of server/mod.rs).
THEOREM TakenWhenReady == ServerSpec => Backpressure
<1>1. ServerInit => Gated
  BY DEF ServerInit, Gated
<1>2. ASSUME BodyInv, Gated, [ServerNext]_vars
      PROVE  [\A r \in Requests :
                place[r] = {"queued"} /\ place'[r] # {"queued"} =>
                    driver = "spawn" \/ "loop" \in held]_vars
  BY <1>2, TakenInAccept DEF BodyInv, Gated
<1> QED
  BY BodyInvInit, BodyInvStep, <1>1, GatedStep, <1>2, PTL DEF ServerSpec, Backpressure

----------------------------------------------------------------------------
(* Responses.  What is true of a request at each place its task can be.    *)

RespTypes ==
    /\ closed \in BOOLEAN /\ streaming \in BOOLEAN
    /\ pc \in [Requests -> {"none", "ready", "calling", "first", "second", "decide", "finish",
                            "head", "piece", "writing", "next", "ending", "closing", "done",
                            "settled", "dropped"}]
    /\ reply \in [Requests -> Reply]
    /\ pieces \in [Requests -> Seq(Sizes)]
    /\ trailers \in [Requests -> BOOLEAN]
    /\ over \in [Requests -> BOOLEAN]
    /\ produced \in [Requests -> Nat]
    /\ written \in [Requests -> Nat]
    /\ left \in [Requests -> Nat]
    /\ framing \in [Requests -> {"none", "exact", "chunked", "raw"}]
    /\ result \in [Requests -> {"none", "ok", "service", "malformed", "panic", "body",
                                "aborted", "invalid", "rejected"}]
    /\ wire \in [Requests -> [heads : Nat, length : Length, body : Nat, ends : Nat,
                              trailers : BOOLEAN]]
    /\ place \in [Requests -> SUBSET {"unseen", "queued", "loop", "handed", "lost", "discarded"}]

\* A request has a task only once accept has handed it over.
Waiting(r) == place[r] # {"handed"} => pc[r] = "none"

\* Before the service has answered.
Fresh(r) ==
    pc[r] \in {"none", "ready", "calling"} =>
        /\ reply[r] = StatusReply
        /\ pieces[r] = <<>>
        /\ produced[r] = 0 /\ written[r] = 0
        /\ ~over[r]
        /\ result[r] = "none"
        /\ wire[r] = Silence

\* While up to two frames are read, nothing was sent.
Probing(r) ==
    pc[r] \in {"first", "second", "decide"} =>
        /\ ~streaming /\ MaySendBody(r, reply[r]) /\ reply[r].declared # BadLen
        /\ result[r] = "none"
        /\ wire[r] = Silence
        /\ written[r] = 0 /\ produced[r] = Produced(pieces[r])
        /\ Len(pieces[r]) <= 2
        /\ pc[r] = "first" => Len(pieces[r]) = 0 /\ ~over[r]
        /\ pc[r] = "second" => Len(pieces[r]) = 1 /\ ~over[r]
        /\ pc[r] = "decide" => over[r] \/ Len(pieces[r]) = 2

\* What goes out in one call: a status, a response without a body, or a body
\* that is over.
Finishing(r) ==
    pc[r] = "finish" =>
        /\ wire[r] = Silence
        /\ reply[r].declared # BadLen
        /\ \/ result[r] \in {"service", "malformed"} /\ reply[r] = StatusReply /\ pieces[r] = <<>>
           \/ /\ result[r] = "none" /\ ~streaming
              /\ MaySendBody(r, reply[r]) => /\ over[r] /\ Len(pieces[r]) <= 1
                                             /\ produced[r] = Produced(pieces[r])

\* What follows the head is delimited, and there is only one way for each response.
Delimited(r) ==
    /\ framing[r] # "none"
    /\ streaming <=> framing[r] = "raw"
    /\ ~streaming => MaySendBody(r, reply[r])
    /\ framing[r] = "exact" => BodyLength(reply[r]) \in Nat

Heading(r) ==
    pc[r] = "head" =>
        /\ Delimited(r)
        /\ result[r] = "none"
        /\ wire[r] = Silence
        /\ written[r] = 0 /\ produced[r] = Produced(pieces[r])
        /\ Len(pieces[r]) <= 2
        /\ streaming => pieces[r] = <<>>
        /\ ~streaming /\ pieces[r] = <<>> => over[r]

\* The body: what was produced is what was sent, what is in the buffer and
\* the pieces that wait.
Sending(r) ==
    pc[r] \in {"piece", "writing", "next", "ending"} =>
        /\ Delimited(r)
        /\ result[r] = "none"
        /\ wire[r].heads = 1 /\ wire[r].ends = 0
        /\ wire[r].length = IF framing[r] = "exact" THEN BodyLength(reply[r]) ELSE NoLen
        /\ framing[r] = "exact" => written[r] <= BodyLength(reply[r])
        /\ Len(pieces[r]) <= 2
        /\ pc[r] = "piece" => /\ pieces[r] # <<>>
                              /\ wire[r].body = written[r]
                              /\ produced[r] = written[r] + Produced(pieces[r])
        /\ pc[r] = "writing" =>
              /\ pieces[r] # <<>>
              /\ produced[r] = written[r] + Produced(Tail(pieces[r]))
              /\ written[r] = wire[r].body + IF framing[r] = "chunked" THEN Head(pieces[r])
                                              ELSE left[r]
        /\ pc[r] \in {"next", "ending"} => /\ pieces[r] = <<>>
                                           /\ wire[r].body = written[r]
                                           /\ produced[r] = written[r]
        /\ pc[r] = "ending" => over[r]

\* A broken stream has a head and no end.
Closing(r) ==
    pc[r] = "closing" =>
        /\ streaming
        /\ result[r] \notin {"none", "ok"}
        /\ wire[r].heads = 1 /\ wire[r].ends = 0 /\ wire[r].length = NoLen

\* A task that has returned has a result.
HasResult(r) == pc[r] = "done" => result[r] # "none"

\* WireSound and ResultTrue for one request.
WireOf(r) ==
    LET w == wire[r]
        bodyless == ~streaming /\ ~MaySendBody(r, reply[r])
    IN pc[r] \notin {"settled", "dropped"} =>
       /\ w.heads <= 1 /\ w.ends <= w.heads
       /\ w.body > 0 => w.heads = 1
       /\ bodyless => w.body = 0
       /\ ~bodyless /\ w.length # NoLen => w.body <= w.length
       /\ ~bodyless /\ w.length # NoLen /\ w.ends = 1 => w.body = w.length
       /\ result[r] = "ok" /\ ~bodyless => w.body = produced[r] /\ over[r]

ResultOf(r) ==
    /\ result[r] = "ok" => wire[r].ends = 1
    /\ result[r] = "body" /\ ~streaming => wire[r].ends = 0
    /\ /\ streaming /\ result[r] = "body" /\ pc[r] \in {"done", "settled"}
       /\ r \notin Faults /\ ~closed
       => wire[r].ends = wire[r].heads

Phases(r) ==
    /\ Waiting(r) /\ Fresh(r) /\ Probing(r) /\ Finishing(r) /\ Heading(r) /\ Sending(r)
    /\ Closing(r) /\ HasResult(r)

Answered(r) == Phases(r) /\ WireOf(r) /\ ResultOf(r)

RespInv == RespTypes /\ \A r \in Requests : Answered(r)

----------------------------------------------------------------------------
(* Pieces: at most two frames wait.                                        *)

LEMMA UpToTwo == \A n \in Nat : (n <= 2 => n \in {0, 1, 2}) /\ (n <= 1 => n \in {0, 1})
OBVIOUS

LEMMA UpToOne == \A n \in Nat : (n \in {0, 1} => n <= 1) /\ (n < 2 => n <= 1 /\ n # 2)
OBVIOUS

LEMMA Frames ==
    ASSUME NEW p \in Seq(Sizes)
    PROVE  /\ Len(p) \in Nat
           /\ p = <<>> <=> Len(p) = 0
           /\ p # <<>> => /\ Head(p) = p[1] /\ Head(p) \in Nat \ {0}
                         /\ Tail(p) \in Seq(Sizes) /\ Len(Tail(p)) = Len(p) - 1
           /\ Len(p) = 2 => Tail(p)[1] = p[2] /\ p[2] \in Nat \ {0}
<1>1. Len(p) \in Nat /\ (p = <<>> <=> Len(p) = 0)
  BY EmptySeq, LenProperties
<1>2. ASSUME p # <<>>
      PROVE  /\ Head(p) = p[1] /\ Head(p) \in Nat \ {0}
             /\ Tail(p) \in Seq(Sizes) /\ Len(Tail(p)) = Len(p) - 1
  <2>1. Head(p) = p[1]
    BY <1>2
  <2>2. Head(p) \in Sizes /\ Tail(p) \in Seq(Sizes) /\ Len(Tail(p)) = Len(p) - 1
    BY <1>2, HeadTailProperties
  <2>3. Head(p) \in Nat \ {0}
    BY <2>2, ResponderAssumption
  <2> QED
    BY <2>1, <2>2, <2>3
<1>3. ASSUME Len(p) = 2 PROVE Tail(p)[1] = p[2] /\ p[2] \in Nat \ {0}
  <2>1. p # <<>> /\ Len(Tail(p)) = 1
    BY <1>1, <1>2, <1>3
  <2>2. \A i \in 1 .. Len(Tail(p)) : Tail(p)[i] = p[i + 1]
    BY <2>1, HeadTailProperties
  <2>3. p[2] \in Sizes
    BY <1>3, ElementOfSeq
  <2>4. p[2] \in Nat \ {0}
    BY <2>3, ResponderAssumption
  <2> QED
    BY <2>1, <2>2, <2>4
<1> QED
  BY <1>1, <1>2, <1>3

LEMMA ProducedNat ==
    ASSUME NEW p \in Seq(Sizes), Len(p) <= 2
    PROVE  /\ Produced(p) \in Nat
           /\ Produced(p) = 0 <=> p = <<>>
<1>1. CASE Len(p) = 0
  BY <1>1, Frames DEF Produced
<1>2. CASE Len(p) = 1
  BY <1>2, Frames DEF Produced
<1>3. CASE Len(p) = 2
  BY <1>3, Frames DEF Produced
<1> QED
  BY <1>1, <1>2, <1>3, Frames, UpToTwo

LEMMA ProducedAppend ==
    ASSUME NEW p \in Seq(Sizes), NEW n \in Sizes, Len(p) <= 1
    PROVE  /\ Append(p, n) \in Seq(Sizes)
           /\ Append(p, n) # <<>>
           /\ Len(Append(p, n)) = Len(p) + 1
           /\ Produced(Append(p, n)) = Produced(p) + n
<1>1. n \in Nat
  BY ResponderAssumption
<1>2. /\ Append(p, n) \in Seq(Sizes) /\ Append(p, n) # <<>>
      /\ Len(Append(p, n)) = Len(p) + 1
      /\ \A i \in 1 .. Len(p) : Append(p, n)[i] = p[i]
      /\ Append(p, n)[Len(p) + 1] = n
  BY AppendProperties
<1>3. CASE p = <<>>
  BY <1>1, <1>2, <1>3 DEF Produced
<1>4. CASE p # <<>>
  <2>1. Len(p) = 1
    BY <1>4, Frames, UpToTwo
  <2>2. p[1] \in Nat
    BY <1>4, Frames
  <2> QED
    BY <1>1, <1>2, <1>4, <2>1, <2>2 DEF Produced
<1> QED
  BY <1>2, <1>3, <1>4

LEMMA ProducedTail ==
    ASSUME NEW p \in Seq(Sizes), Len(p) <= 2, p # <<>>
    PROVE  /\ Produced(Tail(p)) \in Nat
           /\ Produced(p) = Head(p) + Produced(Tail(p))
           /\ Len(p) > 1 <=> Tail(p) # <<>>
<1>1. Tail(p) \in Seq(Sizes) /\ Len(Tail(p)) = Len(p) - 1 /\ Len(p) \in {1, 2}
  BY Frames, UpToTwo
<1>2. Tail(p) = <<>> <=> Len(Tail(p)) = 0
  BY <1>1, Frames
<1>3. Head(p) = p[1] /\ Head(p) \in Nat
  BY Frames
<1>4. CASE Len(p) = 1
  BY <1>1, <1>2, <1>3, <1>4 DEF Produced
<1>5. CASE Len(p) = 2
  <2>1. Tail(p)[1] = p[2] /\ p[2] \in Nat
    BY <1>5, Frames
  <2>2. Len(Tail(p)) = 1 /\ Tail(p) # <<>>
    BY <1>1, <1>2, <1>5
  <2>3. Produced(Tail(p)) = p[2]
    BY <2>1, <2>2 DEF Produced
  <2>4. Produced(p) = p[1] + p[2]
    BY <1>5 DEF Produced
  <2> QED
    BY <1>3, <1>5, <2>1, <2>2, <2>3, <2>4
<1> QED
  BY <1>1, <1>4, <1>5

----------------------------------------------------------------------------
(* What a step leaves alone.                                               *)

Same(s) ==
    /\ pc'[s] = pc[s] /\ reply'[s] = reply[s] /\ pieces'[s] = pieces[s]
    /\ produced'[s] = produced[s] /\ over'[s] = over[s] /\ written'[s] = written[s]
    /\ left'[s] = left[s] /\ framing'[s] = framing[s] /\ result'[s] = result[s]
    /\ wire'[s] = wire[s] /\ place'[s] = place[s]
    /\ streaming' = streaming /\ (closed => closed')

LEMMA AnsweredKept ==
    ASSUME NEW s \in Requests, Answered(s), Same(s)
    PROVE  Answered(s)'
<1> USE DEF Same
<1>1. Delimited(s)' <=> Delimited(s)
  BY DEF Delimited
<1>2. Waiting(s)' /\ Fresh(s)' /\ HasResult(s)' /\ Closing(s)'
  BY DEF Answered, Phases, Waiting, Fresh, HasResult, Closing
<1>3. Probing(s)'
  BY DEF Answered, Phases, Probing
<1>4. Finishing(s)'
  BY DEF Answered, Phases, Finishing
<1>5. Heading(s)'
  BY <1>1 DEF Answered, Phases, Heading
<1>6. Sending(s)'
  BY <1>1 DEF Answered, Phases, Sending
<1>7. WireOf(s)'
  BY DEF Answered, WireOf
<1>8. ResultOf(s)'
  BY DEF Answered, ResultOf
<1> QED
  BY <1>2, <1>3, <1>4, <1>5, <1>6, <1>7, <1>8 DEF Answered, Phases

\* A step concerns one request.
LEMMA OneRequest ==
    ASSUME RespInv, RespTypes', NEW r \in Requests, Answered(r)',
           \A s \in Requests \ {r} : Same(s)
    PROVE  RespInv'
BY AnsweredKept DEF RespInv

LEMMA RespInvInit == ServerInit => RespInv
<1> SUFFICES ASSUME ServerInit PROVE RespInv
  OBVIOUS
<1>1. StatusReply \in Reply
  BY DEF StatusReply, Reply, Length
<1>2. streaming \in BOOLEAN
  BY ServerAssumption DEF ServerInit
<1>3. place = [r \in Requests |-> {"unseen"}]
  BY DEF ServerInit, Queue!Init
<1>4. Silence \in [heads : Nat, length : Length, body : Nat, ends : Nat, trailers : BOOLEAN]
  BY DEF Silence, Length
<1>5. RespTypes
  <2>1. <<>> \in Seq(Sizes)
    BY EmptySeq
  <2> QED
    BY <1>1, <1>2, <1>3, <1>4, <2>1 DEF ServerInit, ResponderInit, RespTypes
<1>6. ASSUME NEW r \in Requests PROVE Answered(r)
  <2>1. /\ pc[r] = "none" /\ reply[r] = StatusReply /\ pieces[r] = <<>> /\ produced[r] = 0
        /\ over[r] = FALSE /\ written[r] = 0 /\ result[r] = "none" /\ wire[r] = Silence
    BY DEF ServerInit, ResponderInit
  <2>2. Phases(r)
    BY <2>1 DEF Phases, Waiting, Fresh, HasResult, Closing, Probing, Finishing, Heading, Sending
  <2>3. WireOf(r) /\ ResultOf(r)
    BY <2>1 DEF WireOf, ResultOf, Silence
  <2> QED
    BY <2>2, <2>3 DEF Answered
<1> QED
  BY <1>5, <1>6 DEF RespInv

----------------------------------------------------------------------------
(* The steps of a task.                                                    *)

LEMMA BodyLengthType ==
    ASSUME NEW y \in Reply, y.declared # BadLen
    PROVE  BodyLength(y) \in Length /\ BodylessLength(y) \in Length
BY ResponderAssumption DEF BodyLength, BodylessLength, Reply, Length

\* A task that returns without a further call.
LEMMA DoneAnswered ==
    ASSUME RespInv, NEW r \in Requests, pc[r] # "none", pc'[r] = "done", place' = place,
           result'[r] # "none", WireOf(r)', ResultOf(r)'
    PROVE  Answered(r)'
<1>1. Waiting(r)'
  BY DEF RespInv, Answered, Phases, Waiting
<1>2. Phases(r)'
  BY <1>1 DEF Phases, Fresh, Probing, Finishing, Heading, Sending, Closing, HasResult
<1> QED
  BY <1>2 DEF Answered

\* It returns an error with nothing sent since, or with what was sent not ended.
LEMMA ErrorAnswered ==
    ASSUME RespInv, NEW r \in Requests, pc[r] \notin {"none", "settled", "dropped"},
           pc'[r] = "done", place' = place,
           UNCHANGED <<streaming, closed>>, reply'[r] = reply[r], wire'[r] = wire[r],
           result'[r] \notin {"none", "ok"},
           result'[r] = "body" => wire[r].ends = 0 /\ (streaming => wire[r].heads = 0)
    PROVE  Answered(r)'
<1>1. Answered(r)
  BY DEF RespInv
<1>2. WireOf(r)'
  BY <1>1 DEF Answered, WireOf
<1>3. ResultOf(r)'
  BY DEF ResultOf
<1> QED
  BY <1>2, <1>3, DoneAnswered

LEMMA BeginKeeps ==
    ASSUME RespInv, NEW r \in Requests, NEW y \in Replies[r], Begin(r, y), UNCHANGED place
    PROVE  RespInv'
<1>1. y \in Reply /\ RespTypes /\ Answered(r) /\ pc[r] = "calling"
  BY ResponderAssumption DEF RespInv, Begin
<1>2. /\ reply[r] = StatusReply /\ pieces[r] = <<>> /\ produced[r] = 0 /\ written[r] = 0
      /\ ~over[r] /\ result[r] = "none" /\ wire[r] = Silence
  BY <1>1 DEF Answered, Phases, Fresh
<1>3. /\ reply' = [reply EXCEPT ![r] = IF streaming THEN @ ELSE y]
      /\ framing' = [framing EXCEPT ![r] = IF streaming THEN "raw" ELSE "none"]
      /\ UNCHANGED <<pieces, trailers, produced, over, written, left, wire, closed, streaming>>
  BY DEF Begin, bodyVars, queueVars
<1>4. \/ pc' = [pc EXCEPT ![r] = "done"] /\ result' = [result EXCEPT ![r] = "body"]
      \/ /\ streaming /\ pc' = [pc EXCEPT ![r] = "head"] /\ result' = result
      \/ /\ ~streaming /\ y.declared # BadLen /\ ~MaySendBody(r, y)
         /\ pc' = [pc EXCEPT ![r] = "finish"] /\ result' = result
      \/ /\ ~streaming /\ y.declared # BadLen /\ MaySendBody(r, y)
         /\ pc' = [pc EXCEPT ![r] = "first"] /\ result' = result
  <2>1. y.te \in BOOLEAN /\ streaming \in BOOLEAN
    BY <1>1 DEF Reply, RespTypes
  <2> QED
    BY <1>1, <1>2, <2>1 DEF Begin, Returns, Goes, RespTypes
<1>5. RespTypes'
  BY <1>1, <1>3, <1>4 DEF RespTypes
<1>6. \A s \in Requests \ {r} : Same(s)
  BY <1>1, <1>3, <1>4 DEF RespTypes, Same
<1>7. Answered(r)'
  <2>1. /\ reply'[r] = IF streaming THEN StatusReply ELSE y
        /\ framing'[r] = IF streaming THEN "raw" ELSE "none"
        /\ pieces'[r] = <<>> /\ produced'[r] = 0 /\ written'[r] = 0 /\ ~over'[r]
        /\ wire'[r] = Silence
    BY <1>1, <1>2, <1>3 DEF RespTypes
  <2>2. \/ pc'[r] = "done" /\ result'[r] = "body"
        \/ streaming /\ pc'[r] = "head" /\ result'[r] = "none"
        \/ ~streaming /\ y.declared # BadLen /\ ~MaySendBody(r, y)
           /\ pc'[r] = "finish" /\ result'[r] = "none"
        \/ ~streaming /\ y.declared # BadLen /\ MaySendBody(r, y)
           /\ pc'[r] = "first" /\ result'[r] = "none"
    BY <1>1, <1>2, <1>4 DEF RespTypes
  <2>3. Len(<<>>) = 0 /\ Produced(<<>>) = 0
    BY DEF Produced
  <2>4. Waiting(r)' /\ Fresh(r)' /\ Sending(r)' /\ Closing(r)' /\ HasResult(r)'
    BY <1>1, <2>2 DEF Waiting, Fresh, Sending, Closing, HasResult, Answered, Phases
  <2>5. Probing(r)'
    BY <1>3, <2>1, <2>2, <2>3 DEF Probing
  <2>6. Finishing(r)'
    BY <1>3, <2>1, <2>2 DEF Finishing
  <2>7. Heading(r)'
    BY <1>3, <2>1, <2>2, <2>3 DEF Heading, Delimited
  <2>8. WireOf(r)' /\ ResultOf(r)'
    BY <1>3, <2>1, <2>2 DEF WireOf, ResultOf, Silence
  <2> QED
    BY <2>4, <2>5, <2>6, <2>7, <2>8 DEF Answered, Phases
<1> QED
  BY <1>5, <1>6, <1>7, OneRequest

LEMMA ServiceFailsKeeps ==
    ASSUME RespInv, NEW r \in Requests, ServiceFails(r), UNCHANGED place
    PROVE  RespInv'
<1>1. RespTypes /\ Answered(r) /\ pc[r] = "calling" /\ StatusReply \in Reply
  BY DEF RespInv, ServiceFails, StatusReply, Reply, Length
<1>2. /\ pieces[r] = <<>> /\ wire[r] = Silence
  BY <1>1 DEF Answered, Phases, Fresh
<1>3. /\ reply' = [reply EXCEPT ![r] = StatusReply]
      /\ result' = [result EXCEPT ![r] = "service"]
      /\ pc' = [pc EXCEPT ![r] = "finish"]
      /\ UNCHANGED <<pieces, trailers, produced, over, written, left, framing, wire, closed, streaming>>
  BY DEF ServiceFails, Goes, bodyVars, sendVars, queueVars
<1>4. RespTypes'
  BY <1>1, <1>3 DEF RespTypes
<1>5. \A s \in Requests \ {r} : Same(s)
  BY <1>1, <1>3 DEF RespTypes, Same
<1>6. Answered(r)'
  <2>1. reply'[r] = StatusReply /\ pc'[r] = "finish" /\ result'[r] = "service" /\ pieces'[r] = <<>>
        /\ wire'[r] = Silence
    BY <1>1, <1>2, <1>3 DEF RespTypes
  <2>2. Phases(r)'
    <3>1. StatusReply.declared # BadLen
      BY ResponderAssumption DEF StatusReply, Length
    <3> QED
      BY <1>1, <2>1, <3>1 DEF Waiting, Fresh, Probing, Finishing, Heading, Sending, Closing,
                              HasResult, Answered, Phases
  <2>3. WireOf(r)' /\ ResultOf(r)'
    BY <2>1 DEF WireOf, ResultOf, Silence
  <2> QED
    BY <2>2, <2>3 DEF Answered
<1> QED
  BY <1>4, <1>5, <1>6, OneRequest

LEMMA ChunkKeeps ==
    ASSUME RespInv, NEW r \in Requests, NEW n \in Sizes, Chunk(r, n), UNCHANGED place
    PROVE  RespInv'
<1>1. RespTypes /\ Answered(r) /\ pc[r] \in {"first", "second", "next"} /\ ~over[r] /\ n \in Nat
  BY ResponderAssumption DEF RespInv, Chunk, Polls
<1>2. pieces[r] \in Seq(Sizes) /\ Len(pieces[r]) \in Nat /\ Len(pieces[r]) <= 1
  <2>1. pieces[r] \in Seq(Sizes)
    BY <1>1 DEF RespTypes
  <2>2. pieces[r] = <<>> => Len(pieces[r]) = 0
    BY <2>1, Frames
  <2>3. pc[r] = "next" => pieces[r] = <<>>
    BY <1>1 DEF Answered, Phases, Sending
  <2>4. pc[r] \in {"first", "second"} => Len(pieces[r]) \in {0, 1}
    BY <1>1 DEF Answered, Phases, Probing
  <2>5. Len(pieces[r]) \in {0, 1}
    BY <1>1, <2>2, <2>3, <2>4
  <2> QED
    BY <2>1, <2>5, Frames, UpToOne
<1>3. PICK p \in Seq(Sizes) :
        /\ p = Append(pieces[r], n) /\ p # <<>> /\ Len(p) = Len(pieces[r]) + 1
        /\ Produced(p) = Produced(pieces[r]) + n
  BY <1>2, ProducedAppend
<1>4. PICK to \in {"second", "decide", "piece"} :
        /\ pc' = [pc EXCEPT ![r] = to]
        /\ pc[r] = "first" => to = "second"
        /\ pc[r] = "second" => to = "decide"
        /\ pc[r] = "next" => to = "piece"
  BY <1>1 DEF Chunk, Goes
<1>5. /\ produced' = [produced EXCEPT ![r] = @ + n]
      /\ pieces' = [pieces EXCEPT ![r] = p]
      /\ UNCHANGED <<reply, trailers, over, written, left, framing, result, wire, closed, streaming>>
  BY <1>3 DEF Chunk, sendVars, queueVars
<1>6. RespTypes'
  <2>1. pieces' \in [Requests -> Seq(Sizes)]
    BY <1>1, <1>3, <1>5 DEF RespTypes
  <2>2. produced' \in [Requests -> Nat]
    BY <1>1, <1>5 DEF RespTypes
  <2>3. pc' \in [Requests -> {"none", "ready", "calling", "first", "second", "decide", "finish",
                             "head", "piece", "writing", "next", "ending", "closing", "done",
                             "settled", "dropped"}]
    BY <1>1, <1>4 DEF RespTypes
  <2> QED
    BY <1>1, <1>5, <2>1, <2>2, <2>3 DEF RespTypes
<1>7. \A s \in Requests \ {r} : Same(s)
  BY <1>1, <1>4, <1>5 DEF RespTypes, Same
<1>8. /\ pc'[r] = to /\ pieces'[r] = p /\ produced'[r] = produced[r] + n
      /\ reply'[r] = reply[r] /\ over'[r] = over[r] /\ written'[r] = written[r]
      /\ framing'[r] = framing[r] /\ result'[r] = result[r] /\ wire'[r] = wire[r]
  BY <1>1, <1>4, <1>5 DEF RespTypes
<1>9. Answered(r)'
  <2>1. produced[r] \in Nat /\ written[r] \in Nat /\ Len(p) <= 2 /\ result[r] = "none"
    BY <1>1, <1>2, <1>3 DEF RespTypes, Answered, Phases, Probing, Sending
  <2>2. WireOf(r)' /\ ResultOf(r)'
    BY <1>1, <1>5, <1>8, <2>1 DEF Answered, WireOf, ResultOf
  <2>3. /\ Waiting(r)' /\ Fresh(r)' /\ Finishing(r)' /\ Heading(r)' /\ Closing(r)'
        /\ HasResult(r)'
    BY <1>1, <1>8 DEF Waiting, Fresh, Finishing, Heading, Closing, HasResult, Answered, Phases
  <2>4. CASE pc[r] \in {"first", "second"}
    <3>1. Probing(r) /\ to \in {"second", "decide"}
      BY <1>1, <1>4, <2>4 DEF Answered, Phases
    <3>2. pc[r] = "first" => Len(p) = 1
      BY <1>3, <3>1 DEF Probing
    <3>3. pc[r] = "second" => Len(p) = 2
      BY <1>3, <3>1 DEF Probing
    <3>4. Probing(r)'
      BY <1>1, <1>3, <1>4, <1>5, <1>8, <2>1, <2>4, <3>1, <3>2, <3>3 DEF Probing
    <3>5. Sending(r)'
      BY <1>8, <3>1 DEF Sending
    <3> QED
      BY <2>2, <2>3, <3>4, <3>5 DEF Answered, Phases
  <2>5. CASE pc[r] = "next"
    <3>1. Sending(r) /\ to = "piece"
      BY <1>1, <1>4, <2>5 DEF Answered, Phases
    <3>2. Produced(p) = n
      <4>1. pieces[r] = <<>> /\ Produced(<<>>) = 0
        BY <2>5, <3>1 DEF Sending, Produced
      <4> QED
        BY <1>1, <1>3, <4>1
    <3>3. Delimited(r)'
      BY <1>5, <1>8, <2>5, <3>1 DEF Sending, Delimited
    <3>4. Sending(r)'
      BY <1>3, <1>8, <2>1, <2>5, <3>1, <3>2, <3>3 DEF Sending
    <3>5. Probing(r)'
      BY <1>8, <3>1 DEF Probing
    <3> QED
      BY <2>2, <2>3, <3>4, <3>5 DEF Answered, Phases
  <2> QED
    BY <1>1, <2>4, <2>5
<1> QED
  BY <1>6, <1>7, <1>9, OneRequest

LEMMA TrailersKeeps ==
    ASSUME RespInv, NEW r \in Requests, Trailers(r), UNCHANGED place
    PROVE  RespInv'
<1>1. RespTypes'
  BY DEF RespInv, RespTypes, Trailers, sendVars, queueVars
<1>2. \A s \in Requests : Same(s)
  BY DEF Trailers, Same, sendVars, queueVars
<1> QED
  BY <1>1, <1>2, AnsweredKept DEF RespInv

LEMMA BodyEndsKeeps ==
    ASSUME RespInv, NEW r \in Requests, BodyEnds(r), UNCHANGED place
    PROVE  RespInv'
<1>1. RespTypes /\ Answered(r) /\ pc[r] \in {"first", "second", "next"}
  BY DEF RespInv, BodyEnds, Polls
<1>2. PICK to \in {"decide", "ending"} :
        /\ pc' = [pc EXCEPT ![r] = to]
        /\ to = IF pc[r] = "next" THEN "ending" ELSE "decide"
  BY DEF BodyEnds, Goes
<1>3. /\ over' = [over EXCEPT ![r] = TRUE]
      /\ UNCHANGED <<reply, pieces, trailers, produced, written, left, framing, result, wire,
                     closed, streaming>>
  BY DEF BodyEnds, sendVars, queueVars
<1>4. RespTypes'
  BY <1>1, <1>2, <1>3 DEF RespTypes
<1>5. \A s \in Requests \ {r} : Same(s)
  BY <1>1, <1>2, <1>3 DEF RespTypes, Same
<1>6. pc'[r] = to /\ over'[r] = TRUE /\ result[r] = "none"
  BY <1>1, <1>2, <1>3 DEF RespTypes, Answered, Phases, Probing, Sending
<1>7. WireOf(r)' /\ ResultOf(r)'
  BY <1>1, <1>3, <1>6 DEF Answered, WireOf, ResultOf
<1>8. /\ Waiting(r)' /\ Fresh(r)' /\ Finishing(r)' /\ Heading(r)' /\ Closing(r)' /\ HasResult(r)'
  BY <1>1, <1>6 DEF Waiting, Fresh, Finishing, Heading, Closing, HasResult, Answered, Phases
<1>9. Probing(r)'
  BY <1>1, <1>2, <1>3, <1>6 DEF Answered, Phases, Probing
<1>10. Sending(r)'
  <2>1. Delimited(r)' <=> Delimited(r)
    BY <1>3 DEF Delimited
  <2> QED
    BY <1>1, <1>2, <1>3, <1>6, <2>1 DEF Answered, Phases, Sending
<1> QED
  BY <1>4, <1>5, <1>7, <1>8, <1>9, <1>10, OneRequest DEF Answered, Phases

LEMMA BodyFailsKeeps ==
    ASSUME RespInv, NEW r \in Requests, BodyFails(r), UNCHANGED place
    PROVE  RespInv'
<1>1. RespTypes /\ Answered(r) /\ pc[r] \in {"first", "second", "next"}
  BY DEF RespInv, BodyFails, Polls
<1>2. /\ over' = [over EXCEPT ![r] = TRUE]
      /\ result' = [result EXCEPT ![r] = "body"]
      /\ pc' = [pc EXCEPT ![r] = IF streaming THEN "closing" ELSE "done"]
      /\ UNCHANGED <<reply, pieces, trailers, produced, written, left, framing, wire, closed, streaming>>
  BY DEF BodyFails, Goes, sendVars, queueVars
<1>3. RespTypes'
  BY <1>1, <1>2 DEF RespTypes
<1>4. \A s \in Requests \ {r} : Same(s)
  BY <1>1, <1>2 DEF RespTypes, Same
<1>5. pc'[r] = (IF streaming THEN "closing" ELSE "done") /\ result'[r] = "body"
  BY <1>1, <1>2 DEF RespTypes
<1>6. wire[r].ends = 0 /\ (streaming => pc[r] = "next" /\ framing[r] = "raw")
  BY <1>1 DEF Answered, Phases, Probing, Sending, Delimited, Silence
<1>7. CASE streaming
  <2>1. WireOf(r)' /\ ResultOf(r)'
    BY <1>1, <1>2, <1>5, <1>6, <1>7 DEF Answered, WireOf, ResultOf
  <2>2. /\ Waiting(r)' /\ Fresh(r)' /\ Probing(r)' /\ Finishing(r)' /\ Heading(r)' /\ Sending(r)'
        /\ HasResult(r)'
    BY <1>1, <1>5, <1>7 DEF Waiting, Fresh, Probing, Finishing, Heading, Sending, HasResult,
                            Answered, Phases
  <2>3. Closing(r)'
    BY <1>1, <1>2, <1>5, <1>6, <1>7 DEF Closing, Answered, Phases, Sending
  <2> QED
    BY <1>3, <1>4, <2>1, <2>2, <2>3, OneRequest DEF Answered, Phases
<1>8. CASE ~streaming
  BY <1>1, <1>2, <1>3, <1>4, <1>5, <1>6, <1>8, ErrorAnswered, OneRequest
<1> QED
  BY <1>7, <1>8

LEMMA DecideKeeps ==
    ASSUME RespInv, NEW r \in Requests, Decide(r), UNCHANGED place
    PROVE  RespInv'
<1>1. RespTypes /\ Answered(r) /\ pc[r] = "decide" /\ Probing(r) /\ reply[r] \in Reply
  BY DEF RespInv, RespTypes, Decide, Answered, Phases
<1>2. /\ ~streaming /\ MaySendBody(r, reply[r]) /\ reply[r].declared # BadLen /\ result[r] = "none"
      /\ wire[r] = Silence /\ written[r] = 0 /\ produced[r] = Produced(pieces[r])
      /\ Len(pieces[r]) <= 2 /\ (over[r] \/ Len(pieces[r]) = 2)
  BY <1>1 DEF Probing
<1>3. pieces[r] \in Seq(Sizes) /\ Len(pieces[r]) \in {0, 1, 2}
  <2>1. pieces[r] \in Seq(Sizes)
    BY <1>1 DEF RespTypes
  <2> QED
    BY <1>2, <2>1, Frames, UpToTwo
<1>4. PICK length \in Length, sum \in Nat :
        /\ length = BodyLength(reply[r]) /\ sum = Produced(pieces[r])
        /\ sum = 0 => Len(pieces[r]) = 0
        /\ pieces[r] = <<>> <=> Len(pieces[r]) = 0
  BY <1>1, <1>2, <1>3, BodyLengthType, ProducedNat, Frames
<1>5. \/ Returns(r, "body") /\ UNCHANGED framing
      \/ Goes(r, "finish") /\ UNCHANGED <<framing, result>> /\ Len(pieces[r]) < 2
      \/ /\ Goes(r, "head") /\ UNCHANGED result /\ length \in Nat
         /\ framing' = [framing EXCEPT ![r] = "exact"]
      \/ /\ Goes(r, "head") /\ UNCHANGED result
         /\ framing' = [framing EXCEPT ![r] = "chunked"]
  <2>1. length = 0 \/ length = NoLen \/ length \notin {NoLen, 0}
    OBVIOUS
  <2>2. length # NoLen => length \in Nat
    BY DEF Length
  <2>3. length = 0 => length # NoLen
    BY ResponderAssumption
  <2>4. CASE length = 0 /\ sum # 0
    BY <1>4, <2>3, <2>4 DEF Decide
  <2>5. CASE length # NoLen /\ sum = length /\ Len(pieces[r]) < 2
    BY <1>4, <2>3, <2>5 DEF Decide
  <2>6. CASE length \notin {NoLen, 0} /\ ~(sum = length /\ Len(pieces[r]) < 2)
    BY <1>4, <2>2, <2>6 DEF Decide
  <2>7. CASE length = NoLen
    BY <1>4, <2>3, <2>7 DEF Decide
  <2>8. length = 0 /\ sum = 0 => Len(pieces[r]) < 2
    BY <1>4
  <2> QED
    BY <2>3, <2>4, <2>5, <2>6, <2>7, <2>8
<1>6. UNCHANGED <<reply, pieces, trailers, produced, over, written, left, wire, closed, streaming>>
  BY DEF Decide, bodyVars, queueVars
<1>7. RespTypes'
  BY <1>1, <1>5, <1>6 DEF RespTypes, Returns, Goes
<1>8. \A s \in Requests \ {r} : Same(s)
  BY <1>1, <1>5, <1>6 DEF RespTypes, Same, Returns, Goes
<1>9. \/ pc'[r] = "done" /\ result'[r] = "body"
      \/ pc'[r] = "finish" /\ result'[r] = "none" /\ Len(pieces[r]) < 2
      \/ pc'[r] = "head" /\ result'[r] = "none" /\ framing'[r] = "exact" /\ length \in Nat
      \/ pc'[r] = "head" /\ result'[r] = "none" /\ framing'[r] = "chunked"
  BY <1>1, <1>2, <1>5 DEF RespTypes, Returns, Goes
<1>10. Answered(r)'
  <2>1. WireOf(r)' /\ ResultOf(r)'
    BY <1>2, <1>6, <1>9 DEF WireOf, ResultOf, Silence
  <2>2. /\ Waiting(r)' /\ Fresh(r)' /\ Probing(r)' /\ Sending(r)' /\ HasResult(r)' /\ Closing(r)'
    BY <1>1, <1>9 DEF Waiting, Fresh, Probing, Sending, HasResult, Closing, Answered, Phases
  <2>3. Finishing(r)'
    <3>1. Len(pieces[r]) < 2 => Len(pieces[r]) <= 1 /\ over[r]
      BY <1>2, <1>3, Frames, UpToOne
    <3> QED
      BY <1>2, <1>6, <1>9, <3>1 DEF Finishing
  <2>4. Heading(r)'
    <3>1. pieces[r] = <<>> => over[r]
      BY <1>2, <1>4
    <3> QED
      BY <1>2, <1>4, <1>6, <1>9, <3>1 DEF Heading, Delimited
  <2> QED
    BY <2>1, <2>2, <2>3, <2>4 DEF Answered, Phases
<1> QED
  BY <1>7, <1>8, <1>10, OneRequest

LEMMA SendFailsKeeps ==
    ASSUME RespInv, NEW r \in Requests, SendFails(r), UNCHANGED place
    PROVE  RespInv'
<1>1. RespTypes /\ Answered(r) /\ pc[r] \in {"finish", "head", "writing", "ending"}
  BY DEF RespInv, SendFails
<1>2. PICK e \in {"invalid", "aborted"} :
        /\ result' = [result EXCEPT ![r] = IF @ = "none" THEN e ELSE @]
        /\ pc' = [pc EXCEPT ![r] = IF streaming /\ pc[r] = "writing" THEN "closing" ELSE "done"]
  BY DEF SendFails, SendErrors, Goes
<1>3. UNCHANGED <<reply, pieces, trailers, produced, over, written, left, framing, wire, closed,
                  streaming>>
  BY DEF SendFails, bodyVars, sendVars, queueVars
<1>4. RespTypes'
  BY <1>1, <1>2, <1>3 DEF RespTypes
<1>5. \A s \in Requests \ {r} : Same(s)
  BY <1>1, <1>2, <1>3 DEF RespTypes, Same
<1>6. /\ result'[r] \in {e, "service", "malformed"}
      /\ pc'[r] = IF streaming /\ pc[r] = "writing" THEN "closing" ELSE "done"
  <2>1. result[r] \in {"none", "service", "malformed"}
    BY <1>1 DEF Answered, Phases, Finishing, Heading, Sending
  <2> QED
    BY <1>1, <1>2, <2>1 DEF RespTypes
<1>7. CASE streaming /\ pc[r] = "writing"
  <2>1. Sending(r)
    BY <1>1 DEF Answered, Phases
  <2>2. wire[r].heads = 1 /\ wire[r].ends = 0 /\ wire[r].length = NoLen
    BY <1>7, <2>1 DEF Sending, Delimited
  <2>3. WireOf(r)' /\ ResultOf(r)'
    BY <1>1, <1>3, <1>6, <1>7 DEF Answered, WireOf, ResultOf
  <2>4. Phases(r)'
    BY <1>1, <1>3, <1>6, <1>7, <2>2 DEF Waiting, Fresh, Probing, Finishing, Heading, Sending,
                                        HasResult, Closing, Answered, Phases
  <2> QED
    BY <1>4, <1>5, <2>3, <2>4, OneRequest DEF Answered
<1>8. CASE ~(streaming /\ pc[r] = "writing")
  BY <1>1, <1>3, <1>4, <1>5, <1>6, <1>8, ErrorAnswered, OneRequest
<1> QED
  BY <1>7, <1>8

LEMMA FinishKeeps ==
    ASSUME RespInv, NEW r \in Requests, Finish(r), UNCHANGED place
    PROVE  RespInv'
<1>1. RespTypes /\ Answered(r) /\ pc[r] = "finish" /\ Finishing(r) /\ reply[r] \in Reply
  BY DEF RespInv, RespTypes, Finish, Answered, Phases
<1>2. wire[r] = Silence /\ reply[r].declared # BadLen
  BY <1>1 DEF Finishing
<1>3. PICK sum \in Nat, length \in Length :
        /\ ~MaySendBody(r, reply[r]) => sum = 0 /\ length = BodylessLength(reply[r])
        /\ MaySendBody(r, reply[r]) => sum = Produced(pieces[r]) /\ length = sum
        /\ wire' = [wire EXCEPT ![r].heads = @ + 1, ![r].ends = @ + 1, ![r].body = @ + sum,
                                ![r].length = length]
  <2>1. pieces[r] \in Seq(Sizes)
    BY <1>1 DEF RespTypes
  <2>2. Produced(<<>>) = 0
    BY DEF Produced
  <2>3. MaySendBody(r, reply[r]) => Produced(pieces[r]) \in Nat
    <3>1. CASE pieces[r] = <<>>
      BY <2>2, <3>1
    <3>2. CASE pieces[r] # <<>>
      <4>1. MaySendBody(r, reply[r]) => Len(pieces[r]) <= 1
        BY <1>1, <3>2 DEF Finishing
      <4>2. Len(pieces[r]) <= 1 => Len(pieces[r]) <= 2
        BY <2>1, Frames
      <4> QED
        BY <2>1, <4>1, <4>2, ProducedNat
    <3> QED
      BY <3>1, <3>2
  <2>4. BodylessLength(reply[r]) \in Length
    BY <1>1, <1>2, BodyLengthType
  <2>5. CASE MaySendBody(r, reply[r])
    <3>1. PICK sum \in Nat : sum = Produced(pieces[r])
      BY <2>3, <2>5
    <3>2. sum \in Length
      BY DEF Length
    <3>3. wire' = [wire EXCEPT ![r].heads = @ + 1, ![r].ends = @ + 1, ![r].body = @ + sum,
                               ![r].length = sum]
      BY <2>5, <3>1 DEF Finish
    <3> QED
      BY <2>5, <3>1, <3>2, <3>3
  <2>6. CASE ~MaySendBody(r, reply[r])
    <3>1. wire' = [wire EXCEPT ![r].heads = @ + 1, ![r].ends = @ + 1, ![r].body = @ + 0,
                               ![r].length = BodylessLength(reply[r])]
      BY <2>6 DEF Finish
    <3> QED
      BY <2>4, <2>6, <3>1
  <2> QED
    BY <2>5, <2>6
<1>4. /\ pc' = [pc EXCEPT ![r] = "done"]
      /\ result' = [result EXCEPT ![r] = IF @ = "none" THEN "ok" ELSE @]
      /\ UNCHANGED <<reply, pieces, trailers, produced, over, written, left, framing, closed,
                     streaming>>
  BY DEF Finish, Returns, Goes, bodyVars, sendVars, queueVars
<1>5. /\ wire'[r].heads = 1 /\ wire'[r].ends = 1 /\ wire'[r].body = sum /\ wire'[r].length = length
      /\ wire' \in [Requests -> [heads : Nat, length : Length, body : Nat, ends : Nat,
                                 trailers : BOOLEAN]]
  <2>1. wire \in [Requests -> [heads : Nat, length : Length, body : Nat, ends : Nat,
                                 trailers : BOOLEAN]]
    BY <1>1 DEF RespTypes
  <2>2. wire[r].heads = 0 /\ wire[r].ends = 0 /\ wire[r].body = 0
    BY <1>2 DEF Silence
  <2>3. /\ wire'[r].heads = 0 + 1 /\ wire'[r].ends = 0 + 1 /\ wire'[r].body = 0 + sum
        /\ wire'[r].length = length
    BY <1>3, <2>1, <2>2
  <2>4. wire' \in [Requests -> [heads : Nat, length : Length, body : Nat, ends : Nat,
                                 trailers : BOOLEAN]]
    BY <1>3, <2>1
  <2> QED
    BY <2>3, <2>4
<1>6. /\ pc'[r] = "done"
      /\ result'[r] = IF result[r] = "none" THEN "ok" ELSE result[r]
  BY <1>1, <1>4 DEF RespTypes
<1>7. RespTypes'
  BY <1>1, <1>4, <1>5 DEF RespTypes
<1>8. \A s \in Requests \ {r} : Same(s)
  BY <1>1, <1>3, <1>4 DEF RespTypes, Same
<1>9. result[r] \in {"none", "service", "malformed"}
  BY <1>1 DEF Finishing
<1>10. ResultOf(r)'
  BY <1>5, <1>6, <1>9 DEF ResultOf
<1>11. WireOf(r)'
  <2>1. result[r] = "none" /\ MaySendBody(r, reply[r]) => over[r] /\ produced[r] = sum
    BY <1>1, <1>3 DEF Finishing
  <2>2. streaming => result[r] # "none" /\ reply[r] = StatusReply
    BY <1>1 DEF Finishing
  <2>3. BodylessLength(StatusReply) = 0
    BY ResponderAssumption DEF BodylessLength, StatusReply, MayDeclareLength
  <2>4. ~MaySendBody(r, reply[r]) /\ streaming => length = sum
    BY <1>3, <2>2, <2>3
  <2>5. CASE ~MaySendBody(r, reply[r]) /\ ~streaming
    BY <1>3, <1>4, <1>5, <2>5 DEF WireOf
  <2>6. CASE MaySendBody(r, reply[r]) \/ streaming
    <3>1. length = sum /\ sum <= sum
      BY <1>3, <2>4, <2>6
    <3>2. result'[r] = "ok" => MaySendBody(r, reply[r]) /\ result[r] = "none"
      BY <1>6, <1>9, <2>2, <2>6
    <3>3. result'[r] = "ok" => over'[r] /\ produced'[r] = sum
      BY <1>4, <2>1, <3>2
    <3> QED
      BY <1>4, <1>5, <3>1, <3>3, <2>6 DEF WireOf
  <2> QED
    BY <2>5, <2>6
<1> QED
  BY <1>1, <1>6, <1>7, <1>8, <1>9, <1>10, <1>11, DoneAnswered, OneRequest

LEMMA SendHeadKeeps ==
    ASSUME RespInv, NEW r \in Requests, SendHead(r), UNCHANGED place
    PROVE  RespInv'
<1>1. RespTypes /\ Answered(r) /\ pc[r] = "head" /\ Heading(r) /\ Delimited(r)
  BY DEF RespInv, SendHead, Answered, Phases, Heading
<1>2. /\ result[r] = "none" /\ wire[r] = Silence /\ written[r] = 0 /\ Len(pieces[r]) <= 2
      /\ produced[r] = Produced(pieces[r]) /\ (streaming => pieces[r] = <<>>)
      /\ (~streaming /\ pieces[r] = <<>> => over[r])
  BY <1>1 DEF Heading
<1>3. PICK length \in Length, to \in {"next", "ending", "piece"} :
        /\ length = IF framing[r] = "exact" THEN BodyLength(reply[r]) ELSE NoLen
        /\ to = IF framing[r] = "raw" THEN "next" ELSE IF pieces[r] = <<>> THEN "ending" ELSE "piece"
        /\ pc' = [pc EXCEPT ![r] = to]
        /\ wire' = [wire EXCEPT ![r].heads = @ + 1, ![r].length = length]
  BY <1>1 DEF SendHead, Goes, Delimited, Length
<1>4. UNCHANGED <<reply, pieces, trailers, produced, over, written, left, framing, result, closed,
                  streaming>>
  BY DEF SendHead, bodyVars, sendVars, queueVars
<1>5. /\ wire'[r].heads = 1 /\ wire'[r].ends = 0 /\ wire'[r].body = 0 /\ wire'[r].length = length
      /\ wire' \in [Requests -> [heads : Nat, length : Length, body : Nat, ends : Nat,
                                 trailers : BOOLEAN]]
      /\ pc'[r] = to
  <2>1. /\ wire \in [Requests -> [heads : Nat, length : Length, body : Nat, ends : Nat,
                                  trailers : BOOLEAN]]
        /\ pc'[r] = to
    BY <1>1, <1>3 DEF RespTypes
  <2>2. wire[r].heads = 0 /\ wire[r].ends = 0 /\ wire[r].body = 0
    BY <1>2 DEF Silence
  <2>3. /\ wire'[r].heads = 0 + 1 /\ wire'[r].ends = 0 /\ wire'[r].body = 0
        /\ wire'[r].length = length
    BY <1>3, <2>1, <2>2
  <2>4. wire' \in [Requests -> [heads : Nat, length : Length, body : Nat, ends : Nat,
                                trailers : BOOLEAN]]
    <3>1. wire[r].heads + 1 \in Nat
      BY <2>2
    <3> QED
      BY <1>3, <2>1, <3>1
  <2> QED
    BY <2>1, <2>3, <2>4
<1>6. RespTypes'
  BY <1>1, <1>3, <1>4, <1>5 DEF RespTypes
<1>7. \A s \in Requests \ {r} : Same(s)
  BY <1>1, <1>3, <1>4 DEF RespTypes, Same
<1>8. ResultOf(r)'
  BY <1>2, <1>4 DEF ResultOf
<1>9. /\ Waiting(r)' /\ Fresh(r)' /\ Probing(r)' /\ Finishing(r)' /\ Heading(r)' /\ HasResult(r)'
      /\ Closing(r)'
  BY <1>1, <1>5 DEF Waiting, Fresh, Probing, Finishing, Heading, HasResult, Closing, Answered, Phases
<1>10. framing[r] = "exact" => length \in Nat
  BY <1>1, <1>3 DEF Delimited
<1>11. WireOf(r)'
  <2>1. length # NoLen => length \in Nat
    BY DEF Length
  <2> QED
    BY <1>1, <1>2, <1>4, <1>5, <2>1 DEF WireOf, Delimited
<1>12. Sending(r)'
  <2>1. Delimited(r)'
    BY <1>1, <1>4 DEF Delimited
  <2>2. Produced(<<>>) = 0
    BY DEF Produced
  <2>3. to = "piece" <=> pieces[r] # <<>>
    BY <1>1, <1>2, <1>3 DEF Delimited
  <2>4. to = "ending" => over[r]
    BY <1>1, <1>2, <1>3 DEF Delimited
  <2>5. produced[r] \in Nat /\ (pieces[r] = <<>> => produced[r] = 0)
    BY <1>1, <1>2, <2>2 DEF RespTypes
  <2> QED
    BY <1>2, <1>3, <1>4, <1>5, <1>10, <2>1, <2>3, <2>4, <2>5 DEF Sending
<1> QED
  BY <1>6, <1>7, <1>8, <1>9, <1>11, <1>12, OneRequest DEF Answered, Phases

LEMMA PieceKeeps ==
    ASSUME RespInv, NEW r \in Requests, Piece(r), UNCHANGED place
    PROVE  RespInv'
<1>1. RespTypes /\ Answered(r) /\ pc[r] = "piece" /\ Sending(r) /\ Delimited(r)
  BY DEF RespInv, Piece, Answered, Phases, Sending
<1>2. /\ result[r] = "none" /\ wire[r].heads = 1 /\ wire[r].ends = 0
      /\ wire[r].length = (IF framing[r] = "exact" THEN BodyLength(reply[r]) ELSE NoLen)
      /\ Len(pieces[r]) <= 2 /\ pieces[r] # <<>> /\ wire[r].body = written[r]
      /\ produced[r] = written[r] + Produced(pieces[r])
      /\ pieces[r] \in Seq(Sizes) /\ written[r] \in Nat /\ wire[r].body \in Nat
  BY <1>1 DEF Sending, RespTypes
<1>3. PICK n \in Nat : n = Head(pieces[r])
  BY <1>2, Frames
<1>4. UNCHANGED <<reply, pieces, trailers, produced, over, framing, wire, closed, streaming>>
  BY DEF Piece, bodyVars, queueVars
<1>5. CASE framing[r] = "exact" /\ written[r] + n > BodyLength(reply[r])
  <2>1. /\ pc' = [pc EXCEPT ![r] = "done"] /\ result' = [result EXCEPT ![r] = "body"]
        /\ UNCHANGED <<written, left>>
    BY <1>1, <1>2, <1>3, <1>5 DEF Piece, Returns, Goes, RespTypes
  <2>2. RespTypes' /\ pc'[r] = "done" /\ result'[r] = "body"
    BY <1>1, <1>4, <2>1 DEF RespTypes
  <2>3. \A s \in Requests \ {r} : Same(s)
    BY <1>1, <1>4, <2>1 DEF RespTypes, Same
  <2>4. ~streaming
    BY <1>1, <1>5 DEF Delimited
  <2> QED
    BY <1>1, <1>2, <1>4, <2>2, <2>3, <2>4, ErrorAnswered, OneRequest
<1>6. CASE ~(framing[r] = "exact" /\ written[r] + n > BodyLength(reply[r]))
  <2>1. PICK m \in Nat :
          /\ m = n + IF framing[r] = "chunked" THEN Framed ELSE 0
          /\ written' = [written EXCEPT ![r] = @ + n]
          /\ left' = [left EXCEPT ![r] = m]
          /\ pc' = [pc EXCEPT ![r] = "writing"]
          /\ result' = result
    <3>1. n + (IF framing[r] = "chunked" THEN Framed ELSE 0) \in Nat
      BY ResponderAssumption
    <3> QED
      BY <1>3, <1>6, <3>1 DEF Piece, Goes
  <2>2. RespTypes'
    <3>1. written' \in [Requests -> Nat]
      BY <1>1, <2>1 DEF RespTypes
    <3>2. left' \in [Requests -> Nat]
      BY <1>1, <2>1 DEF RespTypes
    <3>3. pc' \in [Requests -> {"none", "ready", "calling", "first", "second", "decide", "finish",
                               "head", "piece", "writing", "next", "ending", "closing", "done",
                               "settled", "dropped"}]
      BY <1>1, <2>1 DEF RespTypes
    <3> QED
      BY <1>1, <1>4, <2>1, <3>1, <3>2, <3>3 DEF RespTypes
  <2>3. \A s \in Requests \ {r} : Same(s)
    BY <1>1, <1>4, <2>1 DEF RespTypes, Same
  <2>4. pc'[r] = "writing" /\ left'[r] = m /\ written'[r] = written[r] + n /\ result'[r] = "none"
    BY <1>1, <1>2, <2>1 DEF RespTypes
  <2>5. WireOf(r)' /\ ResultOf(r)'
    BY <1>1, <1>2, <1>4, <2>4 DEF Answered, WireOf, ResultOf
  <2>6. /\ Waiting(r)' /\ Fresh(r)' /\ Probing(r)' /\ Finishing(r)' /\ Heading(r)' /\ HasResult(r)'
        /\ Closing(r)'
    BY <1>1, <2>4 DEF Waiting, Fresh, Probing, Finishing, Heading, HasResult, Closing, Answered,
                      Phases
  <2>7. Sending(r)'
    <3>1. Delimited(r)'
      BY <1>1, <1>4 DEF Delimited
    <3>2. PICK k \in Nat : k = Produced(Tail(pieces[r])) /\ Produced(pieces[r]) = n + k
      BY <1>2, <1>3, ProducedTail
    <3>3. produced[r] = (written[r] + n) + k
      BY <1>2, <3>2
    <3>4. framing[r] = "exact" => written[r] + n <= BodyLength(reply[r])
      BY <1>1, <1>2, <1>6 DEF Delimited
    <3>5. framing[r] # "chunked" => m = n
      BY <2>1
    <3> QED
      BY <1>2, <1>3, <1>4, <2>4, <3>1, <3>2, <3>3, <3>4, <3>5 DEF Sending
  <2> QED
    BY <2>2, <2>3, <2>5, <2>6, <2>7, OneRequest DEF Answered, Phases
<1> QED
  BY <1>5, <1>6

LEMMA WriteKeeps ==
    ASSUME RespInv, NEW r \in Requests, Write(r), UNCHANGED place
    PROVE  RespInv'
<1>1. RespTypes /\ Answered(r) /\ pc[r] = "writing" /\ Sending(r) /\ Delimited(r)
  BY DEF RespInv, Write, Answered, Phases, Sending
<1>2. /\ result[r] = "none" /\ wire[r].heads = 1 /\ wire[r].ends = 0
      /\ wire[r].length = (IF framing[r] = "exact" THEN BodyLength(reply[r]) ELSE NoLen)
      /\ framing[r] = "exact" => written[r] <= BodyLength(reply[r])
      /\ Len(pieces[r]) <= 2 /\ pieces[r] # <<>>
      /\ produced[r] = written[r] + Produced(Tail(pieces[r]))
      /\ pieces[r] \in Seq(Sizes) /\ written[r] \in Nat /\ wire[r].body \in Nat /\ left[r] \in Nat
  BY <1>1 DEF Sending, RespTypes
<1>3. /\ framing[r] = "chunked" => written[r] = wire[r].body + Head(pieces[r])
      /\ framing[r] # "chunked" => written[r] = wire[r].body + left[r]
  BY <1>1 DEF Sending
<1>4. PICK h \in Nat, k \in Nat, m \in Nat :
        /\ h = Head(pieces[r]) /\ k = Produced(Tail(pieces[r])) /\ m = Smaller(left[r], MAX_SEND)
        /\ m <= left[r] /\ left[r] - m \in Nat
  <2>1. Smaller(left[r], MAX_SEND) \in Nat /\ Smaller(left[r], MAX_SEND) <= left[r]
    BY <1>2, ResponderAssumption DEF Smaller
  <2>2. Head(pieces[r]) \in Nat
    BY <1>2, Frames
  <2>3. Produced(Tail(pieces[r])) \in Nat
    BY <1>2, ProducedTail
  <2>4. left[r] - Smaller(left[r], MAX_SEND) \in Nat
    BY <1>2, <2>1
  <2> QED
    BY <2>1, <2>2, <2>3, <2>4
<1>5. UNCHANGED <<reply, trailers, produced, over, written, framing, result, closed, streaming>>
  BY DEF Write, queueVars
<1>6. PICK b \in Nat :
        /\ framing[r] # "chunked" => b = m
        /\ framing[r] = "chunked" => b = IF m = left[r] THEN h ELSE 0
        /\ wire' = [wire EXCEPT ![r].body = @ + b]
        /\ left' = [left EXCEPT ![r] = @ - m]
  <2>1. CASE framing[r] # "chunked"
    BY <1>4, <2>1 DEF Write
  <2>2. CASE framing[r] = "chunked"
    <3>1. (IF m = left[r] THEN h ELSE 0) \in Nat
      OBVIOUS
    <3> QED
      BY <1>4, <2>2, <3>1 DEF Write
  <2> QED
    BY <2>1, <2>2
<1>7. PICK to \in {"writing", "piece", "next"} :
        /\ pc' = [pc EXCEPT ![r] = to]
        /\ m # left[r] => to = "writing" /\ pieces' = pieces
        /\ m = left[r] => /\ pieces' = [pieces EXCEPT ![r] = Tail(@)]
                          /\ to = IF Len(pieces[r]) > 1 THEN "piece" ELSE "next"
  BY <1>4 DEF Write, Goes
<1>8. Tail(pieces[r]) \in Seq(Sizes) /\ Len(Tail(pieces[r])) = Len(pieces[r]) - 1
  BY <1>2, Frames
<1>9. RespTypes'
  <2>1. pieces' \in [Requests -> Seq(Sizes)]
    BY <1>1, <1>7, <1>8 DEF RespTypes
  <2>2. wire' \in [Requests -> [heads : Nat, length : Length, body : Nat, ends : Nat,
                                trailers : BOOLEAN]]
    <3>1. /\ wire \in [Requests -> [heads : Nat, length : Length, body : Nat, ends : Nat,
                                    trailers : BOOLEAN]]
          /\ wire[r].body + b \in Nat
      BY <1>1, <1>2 DEF RespTypes
    <3> QED
      BY <1>6, <3>1
  <2> QED
    BY <1>1, <1>4, <1>5, <1>6, <1>7, <2>1, <2>2 DEF RespTypes
<1>10. \A s \in Requests \ {r} : Same(s)
  BY <1>1, <1>5, <1>6, <1>7 DEF RespTypes, Same
<1>11. /\ pc'[r] = to /\ left'[r] = left[r] - m
       /\ m = left[r] => pieces'[r] = Tail(pieces[r])
  BY <1>1, <1>6, <1>7 DEF RespTypes
<1>12. /\ wire'[r].body = wire[r].body + b /\ wire'[r].heads = 1 /\ wire'[r].ends = 0
       /\ wire'[r].length = wire[r].length
  BY <1>1, <1>2, <1>6 DEF RespTypes
<1>13. wire[r].body + b <= written[r]
  <2>1. PICK x \in Nat, l \in Nat : x = wire[r].body /\ l = left[r]
    BY <1>2
  <2>2. m <= l
    BY <1>4, <2>1
  <2>3. CASE framing[r] # "chunked"
    <3>1. written[r] = x + l /\ b = m
      BY <1>3, <1>6, <2>1, <2>3
    <3>2. x + m <= x + l
      BY <2>2
    <3> QED
      BY <2>1, <3>1, <3>2
  <2>4. CASE framing[r] = "chunked"
    <3>1. written[r] = x + h /\ b \in {h, 0}
      BY <1>3, <1>4, <1>6, <2>1, <2>4
    <3>2. x + h <= x + h /\ x + 0 <= x + h
      OBVIOUS
    <3> QED
      BY <2>1, <3>1, <3>2
  <2> QED
    BY <2>3, <2>4
<1>14. ResultOf(r)'
  BY <1>2, <1>5 DEF ResultOf
<1>15. WireOf(r)'
  <2>1. streaming \/ MaySendBody(r, reply[r])
    BY <1>1 DEF Delimited
  <2>2. wire[r].length # NoLen => written[r] <= wire[r].length /\ wire[r].length \in Nat
    BY <1>1, <1>2 DEF Delimited
  <2>3. wire[r].length # NoLen => wire[r].body + b <= wire[r].length
    BY <1>2, <1>13, <2>2
  <2> QED
    BY <1>2, <1>5, <1>12, <2>1, <2>3 DEF WireOf
<1>16. /\ Waiting(r)' /\ Fresh(r)' /\ Probing(r)' /\ Finishing(r)' /\ Heading(r)' /\ HasResult(r)'
       /\ Closing(r)'
  BY <1>1, <1>11 DEF Waiting, Fresh, Probing, Finishing, Heading, HasResult, Closing, Answered,
                     Phases
<1>17. Delimited(r)'
  BY <1>1, <1>5 DEF Delimited
<1>18. Sending(r)'
  <2>1. CASE m # left[r]
    <3>1. pieces'[r] = pieces[r] /\ to = "writing"
      BY <1>7, <2>1
    <3>2. framing[r] = "chunked" => written[r] = (wire[r].body + b) + h
      BY <1>2, <1>3, <1>4, <1>6, <2>1
    <3>3. framing[r] # "chunked" => written[r] = (wire[r].body + b) + (left[r] - m)
      <4>1. wire[r].body + left[r] = (wire[r].body + m) + (left[r] - m)
        BY <1>2, <1>4
      <4> QED
        BY <1>3, <1>6, <4>1
    <3> QED
      BY <1>2, <1>4, <1>5, <1>11, <1>12, <1>17, <3>1, <3>2, <3>3 DEF Sending
  <2>2. CASE m = left[r]
    <3>1. wire[r].body + b = written[r]
      BY <1>2, <1>3, <1>4, <1>6, <2>2
    <3>2. pieces'[r] = Tail(pieces[r]) /\ Len(pieces'[r]) <= 2
      <4>1. Len(pieces[r]) - 1 <= 2
        BY <1>2, Frames
      <4> QED
        BY <1>8, <1>11, <2>2, <4>1
    <3>3. Len(pieces[r]) > 1 <=> Tail(pieces[r]) # <<>>
      BY <1>2, ProducedTail
    <3>4. to = "piece" => pieces'[r] # <<>>
      BY <1>7, <2>2, <3>2, <3>3
    <3>5. to # "piece" => to = "next" /\ pieces'[r] = <<>>
      BY <1>7, <2>2, <3>2, <3>3
    <3>6. Produced(<<>>) = 0
      BY DEF Produced
    <3>7. produced[r] = written[r] + Produced(pieces'[r])
      BY <1>2, <3>2
    <3>8. to = "next" => produced[r] = written[r]
      <4>1. to = "next" => Produced(pieces'[r]) = 0
        BY <3>5, <3>6
      <4> QED
        BY <1>2, <3>7, <4>1
    <3> QED
      BY <1>2, <1>5, <1>11, <1>12, <1>17, <3>1, <3>2, <3>4, <3>5, <3>7, <3>8 DEF Sending
  <2> QED
    BY <2>1, <2>2
<1> QED
  BY <1>9, <1>10, <1>14, <1>15, <1>16, <1>18, OneRequest DEF Answered, Phases

LEMMA EndKeeps ==
    ASSUME RespInv, NEW r \in Requests, End(r), UNCHANGED place
    PROVE  RespInv'
<1>1. RespTypes /\ Answered(r) /\ pc[r] = "ending" /\ Sending(r) /\ Delimited(r)
  BY DEF RespInv, End, Answered, Phases, Sending
<1>2. /\ result[r] = "none" /\ wire[r].heads = 1 /\ wire[r].ends = 0
      /\ wire[r].length = (IF framing[r] = "exact" THEN BodyLength(reply[r]) ELSE NoLen)
      /\ wire[r].body = written[r] /\ produced[r] = written[r] /\ over[r]
      /\ wire[r].body \in Nat
  BY <1>1 DEF Sending, RespTypes
<1>3. UNCHANGED <<reply, pieces, trailers, produced, over, written, left, framing, closed, streaming>>
  BY DEF End, bodyVars, sendVars, queueVars
<1>4. CASE Short(r)
  <2>1. /\ pc' = [pc EXCEPT ![r] = "done"] /\ result' = [result EXCEPT ![r] = "body"]
        /\ UNCHANGED wire
    BY <1>1, <1>2, <1>4 DEF End, Returns, Goes, RespTypes
  <2>2. RespTypes' /\ pc'[r] = "done" /\ result'[r] = "body"
    BY <1>1, <1>3, <2>1 DEF RespTypes
  <2>3. \A s \in Requests \ {r} : Same(s)
    BY <1>1, <1>3, <2>1 DEF RespTypes, Same
  <2>4. ~streaming
    BY <1>1, <1>4 DEF Delimited, Short
  <2> QED
    BY <1>1, <1>2, <1>3, <2>1, <2>2, <2>3, <2>4, ErrorAnswered, OneRequest
<1>5. CASE ~Short(r)
  <2>1. /\ wire' = [wire EXCEPT ![r].ends = @ + 1,
                                ![r].trailers = trailers[r] /\ TrailersSupported]
        /\ pc' = [pc EXCEPT ![r] = "done"] /\ result' = [result EXCEPT ![r] = "ok"]
    BY <1>1, <1>2, <1>5 DEF End, Returns, Goes, RespTypes
  <2>2. PICK t \in BOOLEAN : wire' = [wire EXCEPT ![r].ends = @ + 1, ![r].trailers = t]
    BY <2>1
  <2>3. wire \in [Requests -> [heads : Nat, length : Length, body : Nat, ends : Nat,
                               trailers : BOOLEAN]]
    BY <1>1 DEF RespTypes
  <2>4. wire' \in [Requests -> [heads : Nat, length : Length, body : Nat, ends : Nat,
                                trailers : BOOLEAN]]
    <3>1. wire[r].ends + 1 \in Nat
      BY <1>2
    <3> QED
      BY <2>2, <2>3, <3>1
  <2>5. /\ wire'[r].ends = 1 /\ wire'[r].heads = 1 /\ wire'[r].body = wire[r].body
        /\ wire'[r].length = wire[r].length
    BY <1>2, <2>2, <2>3
  <2>6. RespTypes' /\ pc'[r] = "done" /\ result'[r] = "ok"
    BY <1>1, <1>3, <2>1, <2>4 DEF RespTypes
  <2>7. \A s \in Requests \ {r} : Same(s)
    BY <1>1, <1>3, <2>1 DEF RespTypes, Same
  <2>8. wire[r].length # NoLen => wire[r].body = wire[r].length
    BY <1>2, <1>5 DEF Short
  <2>9. streaming \/ MaySendBody(r, reply[r])
    BY <1>1 DEF Delimited
  <2>10. WireOf(r)'
    BY <1>2, <1>3, <2>5, <2>6, <2>8, <2>9 DEF WireOf
  <2>11. ResultOf(r)'
    BY <2>5, <2>6 DEF ResultOf
  <2> QED
    BY <1>1, <2>6, <2>7, <2>10, <2>11, DoneAnswered, OneRequest
<1> QED
  BY <1>4, <1>5

LEMMA CloseKeeps ==
    ASSUME RespInv, NEW r \in Requests, Close(r), UNCHANGED place
    PROVE  RespInv'
<1>1. RespTypes /\ Answered(r) /\ pc[r] = "closing" /\ Closing(r) /\ WireOf(r)
  BY DEF RespInv, Close, Answered, Phases
<1>2. /\ streaming /\ result[r] \notin {"none", "ok"}
      /\ wire[r].heads = 1 /\ wire[r].ends = 0 /\ wire[r].length = NoLen
  BY <1>1 DEF Closing
<1>3. /\ pc' = [pc EXCEPT ![r] = "done"]
      /\ UNCHANGED <<reply, pieces, trailers, produced, over, written, left, framing, result, closed,
                     streaming>>
  BY DEF Close, Goes, bodyVars, sendVars, queueVars
<1>4. \/ wire' = [wire EXCEPT ![r].ends = @ + 1]
      \/ (closed \/ r \in Faults) /\ wire' = wire
  BY DEF Close, SendErrors
<1>5. RespTypes' /\ pc'[r] = "done"
  <2>1. wire \in [Requests -> [heads : Nat, length : Length, body : Nat, ends : Nat,
                               trailers : BOOLEAN]]
    BY <1>1 DEF RespTypes
  <2>2. wire' \in [Requests -> [heads : Nat, length : Length, body : Nat, ends : Nat,
                                trailers : BOOLEAN]]
    <3>1. wire[r].ends + 1 \in Nat
      BY <1>2
    <3> QED
      BY <1>4, <2>1, <3>1
  <2> QED
    BY <1>1, <1>3, <2>2 DEF RespTypes
<1>6. \A s \in Requests \ {r} : Same(s)
  BY <1>1, <1>3, <1>4 DEF RespTypes, Same
<1>7. /\ wire'[r].heads = 1 /\ wire'[r].length = NoLen /\ wire'[r].body = wire[r].body
      /\ wire'[r].ends = 1 \/ (wire'[r].ends = 0 /\ (closed \/ r \in Faults))
  <2>1. wire \in [Requests -> [heads : Nat, length : Length, body : Nat, ends : Nat,
                               trailers : BOOLEAN]]
    BY <1>1 DEF RespTypes
  <2> QED
    BY <1>2, <1>4, <2>1
<1>8. WireOf(r)'
  BY <1>1, <1>2, <1>3, <1>7 DEF WireOf
<1>9. ResultOf(r)'
  BY <1>2, <1>3, <1>7 DEF ResultOf
<1> QED
  BY <1>1, <1>2, <1>3, <1>5, <1>6, <1>8, <1>9, DoneAnswered, OneRequest

----------------------------------------------------------------------------
(* The steps of the server around them.                                    *)

\* Steps that leave the responses and the places alone; the queue may close.
LEMMA RespInvKept ==
    ASSUME RespInv, UNCHANGED <<respVars, streaming, place>>, closed' \in BOOLEAN, closed => closed'
    PROVE  RespInv'
<1>1. RespTypes'
  BY DEF RespInv, RespTypes, respVars, bodyVars, sendVars
<1>2. \A s \in Requests : Same(s)
  BY DEF Same, respVars, bodyVars, sendVars
<1> QED
  BY <1>1, <1>2, AnsweredKept DEF RespInv

\* A request moves to a place where it still has no task.
LEMMA RespInvMoved ==
    ASSUME RespInv, NEW r \in Requests, UNCHANGED <<respVars, queueVars>>,
           NEW from \in {"unseen", "queued"}, NEW to \in {"queued", "loop", "discarded"},
           Queue!Moves(r, from, to)
    PROVE  RespInv'
<1>1. place[r] = {from} /\ place' = [place EXCEPT ![r] = {to}]
  BY DEF Queue!Moves
<1>2. pc[r] = "none"
  BY <1>1 DEF RespInv, Answered, Phases, Waiting
<1>3. RespTypes'
  BY <1>1 DEF RespInv, RespTypes, respVars, bodyVars, sendVars, queueVars
<1>4. \A s \in Requests \ {r} : Same(s)
  BY <1>1 DEF RespInv, RespTypes, Same, respVars, bodyVars, sendVars, queueVars
<1>5. Answered(r)'
  <2>1. UNCHANGED <<pc, reply, pieces, produced, over, written, left, framing, result, wire,
                    streaming, closed>>
    BY DEF respVars, bodyVars, sendVars, queueVars
  <2>2. Answered(r)
    BY DEF RespInv
  <2>3. Waiting(r)'
    BY <1>2, <2>1 DEF Waiting
  <2>4. /\ Fresh(r)' /\ Probing(r)' /\ Finishing(r)' /\ Heading(r)' /\ Sending(r)' /\ Closing(r)'
        /\ HasResult(r)'
    BY <1>2, <2>1, <2>2 DEF Answered, Phases, Fresh, Probing, Finishing, Heading, Sending, Closing,
                            HasResult
  <2>5. WireOf(r)' /\ ResultOf(r)'
    BY <2>1, <2>2 DEF Answered, WireOf, ResultOf
  <2> QED
    BY <2>3, <2>4, <2>5 DEF Answered, Phases
<1> QED
  BY <1>3, <1>4, <1>5, OneRequest

\* A task that has not begun to answer goes to another place before that.
LEMMA FreshAnswered ==
    ASSUME RespInv, NEW r \in Requests, pc[r] \in {"none", "ready"}, pc'[r] \in {"ready", "calling"},
           place'[r] = {"handed"},
           UNCHANGED <<reply, pieces, produced, over, written, left, framing, result, wire,
                       streaming, closed>>
    PROVE  Answered(r)'
<1>1. Answered(r)
  BY DEF RespInv
<1>2. Phases(r)'
  BY <1>1 DEF Answered, Phases, Waiting, Fresh, Probing, Finishing, Heading, Sending, Closing,
              HasResult
<1>3. WireOf(r)' /\ ResultOf(r)'
  BY <1>1 DEF Answered, WireOf, ResultOf
<1> QED
  BY <1>2, <1>3 DEF Answered

LEMMA AcceptOkAnswers ==
    ASSUME RespInv, NEW r \in Requests, AcceptOk(r)
    PROVE  RespInv'
<1>1. /\ place[r] = {"loop"} /\ place' = [place EXCEPT ![r] = {"handed"}]
      /\ pc' = [pc EXCEPT ![r] = IF driver = "serve" THEN "calling" ELSE "ready"]
      /\ UNCHANGED <<reply, pieces, trailers, produced, over, written, left, framing, result, wire,
                     streaming, closed>>
  BY DEF AcceptOk, Queue!Hand, Queue!Moves, bodyVars, sendVars, queueVars
<1>2. pc[r] = "none"
  BY <1>1 DEF RespInv, Answered, Phases, Waiting
<1>3. RespTypes' /\ pc'[r] \in {"ready", "calling"} /\ place'[r] = {"handed"}
  BY <1>1 DEF RespInv, RespTypes
<1>4. \A s \in Requests \ {r} : Same(s)
  BY <1>1 DEF RespInv, RespTypes, Same
<1> QED
  BY <1>1, <1>2, <1>3, <1>4, FreshAnswered, OneRequest

LEMMA AcceptMalformedAnswers ==
    ASSUME RespInv, NEW r \in Requests, AcceptMalformed(r)
    PROVE  RespInv'
<1>1. /\ place[r] = {"loop"} /\ place' = [place EXCEPT ![r] = {"handed"}]
      /\ pc' = [pc EXCEPT ![r] = "finish"] /\ result' = [result EXCEPT ![r] = "malformed"]
      /\ UNCHANGED <<reply, pieces, trailers, produced, over, written, left, framing, wire,
                     streaming, closed>>
  BY DEF AcceptMalformed, Queue!Hand, Queue!Moves, bodyVars, sendVars, queueVars
<1>2. pc[r] = "none" /\ Answered(r)
  BY <1>1 DEF RespInv, Answered, Phases, Waiting
<1>3. /\ RespTypes' /\ pc'[r] = "finish" /\ result'[r] = "malformed" /\ place'[r] = {"handed"}
  BY <1>1 DEF RespInv, RespTypes
<1>4. \A s \in Requests \ {r} : Same(s)
  BY <1>1 DEF RespInv, RespTypes, Same
<1>5. reply[r] = StatusReply /\ pieces[r] = <<>> /\ wire[r] = Silence /\ StatusReply.declared # BadLen
  BY <1>2, ResponderAssumption DEF Answered, Phases, Fresh, StatusReply, Length
<1>6. Phases(r)'
  BY <1>1, <1>3, <1>5 DEF Phases, Waiting, Fresh, Probing, Finishing, Heading, Sending, Closing,
                          HasResult
<1>7. WireOf(r)' /\ ResultOf(r)'
  BY <1>1, <1>3, <1>5 DEF WireOf, ResultOf, Silence
<1> QED
  BY <1>3, <1>4, <1>6, <1>7, OneRequest DEF Answered

\* A task is over or dropped: only what was sent remains to be spoken of.
LEMMA GoneAnswered ==
    ASSUME RespInv, NEW r \in Requests, pc[r] # "none",
           pc'[r] = "dropped" \/ (pc[r] = "done" /\ pc'[r] = "settled"),
           place' = place, result'[r] = result[r], wire'[r] = wire[r], streaming' = streaming,
           closed' = closed
    PROVE  Answered(r)'
<1>1. Answered(r)
  BY DEF RespInv
<1>2. Phases(r)'
  BY <1>1 DEF Answered, Phases, Waiting, Fresh, Probing, Finishing, Heading, Sending, Closing,
              HasResult
<1>3. WireOf(r)'
  BY DEF WireOf
<1>4. ResultOf(r)'
  BY <1>1 DEF Answered, ResultOf
<1> QED
  BY <1>2, <1>3, <1>4 DEF Answered

LEMMA LoopEndsAnswers ==
    ASSUME RespInv, NEW how, LoopEnds(how),
           UNCHANGED <<reply, bodyVars, sendVars, result, wire, queueVars, place>>
    PROVE  RespInv'
<1>1. PICK gone \in SUBSET Requests :
        /\ gone = {r \in Requests : driver = "current" /\ InFlight(r)}
        /\ pc' = [r \in Requests |-> IF r \in gone THEN "dropped" ELSE pc[r]]
  BY DEF LoopEnds
<1>2. UNCHANGED <<reply, pieces, trailers, produced, over, written, left, framing, result, wire,
                  closed, streaming>>
  BY DEF bodyVars, sendVars, queueVars
<1>3. RespTypes'
  BY <1>1, <1>2 DEF RespInv, RespTypes
<1>4. ASSUME NEW s \in Requests PROVE Answered(s)'
  <2>1. CASE s \in gone
    <3>1. pc[s] # "none" /\ pc'[s] = "dropped"
      BY <1>1, <2>1 DEF InFlight
    <3> QED
      BY <1>2, <3>1, GoneAnswered
  <2>2. CASE s \notin gone
    <3>1. Same(s)
      BY <1>1, <1>2, <2>2 DEF Same
    <3> QED
      BY <3>1, AnsweredKept DEF RespInv
  <2> QED
    BY <2>1, <2>2
<1> QED
  BY <1>3, <1>4 DEF RespInv

LEMMA BadRequestSentAnswers ==
    ASSUME RespInv, NEW r \in Requests, BadRequestSent(r)
    PROVE  RespInv'
<1>1. /\ pc[r] = "done" /\ pc' = [pc EXCEPT ![r] = "settled"]
      /\ UNCHANGED <<reply, pieces, trailers, produced, over, written, left, framing, result, wire,
                     closed, streaming, place>>
  BY DEF BadRequestSent, bodyVars, sendVars, queueVars
<1>2. RespTypes' /\ pc'[r] = "settled"
  BY <1>1 DEF RespInv, RespTypes
<1>3. \A s \in Requests \ {r} : Same(s)
  BY <1>1 DEF RespInv, RespTypes, Same
<1> QED
  BY <1>1, <1>2, <1>3, GoneAnswered, OneRequest

LEMMA SettleAnswers ==
    ASSUME RespInv, NEW r \in Requests, Settle(r)
    PROVE  RespInv'
<1>1. /\ pc[r] = "done" /\ pc' = [pc EXCEPT ![r] = "settled"] /\ Forgets(r)
      /\ UNCHANGED <<result, wire, closed, streaming, place>>
  BY DEF Settle, queueVars
<1>2. StatusReply \in Reply /\ <<>> \in Seq(Sizes)
  BY EmptySeq DEF StatusReply, Reply, Length
<1>3. RespTypes' /\ pc'[r] = "settled"
  BY <1>1, <1>2 DEF RespInv, RespTypes, Forgets
<1>4. \A s \in Requests \ {r} : Same(s)
  BY <1>1 DEF RespInv, RespTypes, Same, Forgets
<1> QED
  BY <1>1, <1>3, <1>4, GoneAnswered, OneRequest

\* A task returns an error before anything was sent, or where its body panics.
LEMMA ReturnsError ==
    ASSUME RespInv, NEW r \in Requests, pc[r] \in {"ready", "calling", "first", "second", "next"},
           NEW e \in {"service", "rejected", "invalid", "aborted", "panic"}, Returns(r, e),
           UNCHANGED <<reply, bodyVars, sendVars, wire, queueVars, place>>
    PROVE  RespInv'
<1>1. RespTypes /\ Answered(r) /\ result[r] = "none"
  BY DEF RespInv, Answered, Phases, Fresh, Probing, Sending
<1>2. /\ pc' = [pc EXCEPT ![r] = "done"]
      /\ result' = [result EXCEPT ![r] = IF @ = "none" THEN e ELSE @]
      /\ UNCHANGED <<reply, pieces, trailers, produced, over, written, left, framing, wire, closed,
                     streaming, place>>
  BY DEF Returns, Goes, bodyVars, sendVars, queueVars
<1>3. RespTypes' /\ pc'[r] = "done" /\ result'[r] = e
  BY <1>1, <1>2 DEF RespTypes
<1>4. \A s \in Requests \ {r} : Same(s)
  BY <1>1, <1>2 DEF RespTypes, Same
<1> QED
  BY <1>1, <1>2, <1>3, <1>4, ErrorAnswered, OneRequest

LEMMA RespInvStep ==
    ASSUME RespInv, [ServerNext]_vars
    PROVE  RespInv'
<1> USE DEF loopVars
<1>0. closed \in BOOLEAN
  BY DEF RespInv, RespTypes
<1>1. CASE UNCHANGED vars
  BY <1>0, <1>1, RespInvKept DEF vars, queueVars
<1>2. CASE LoopStep
  <2>1. CASE Build \/ Ready
    BY <1>0, <2>1, RespInvKept DEF Build, Ready, queueVars
  <2>2. CASE AcceptFails
    BY <2>2, LoopEndsAnswers DEF AcceptFails
  <2>3. ASSUME NEW r \in Requests, Receives(r) PROVE RespInv'
    BY <2>3, RespInvMoved DEF Receives, Queue!Hold
  <2>4. ASSUME NEW r \in Requests, AcceptTooLarge(r) PROVE RespInv'
    BY <2>4, RespInvMoved DEF AcceptTooLarge, Queue!Discard
  <2> QED
    BY <1>2, <2>1, <2>2, <2>3, <2>4, AcceptOkAnswers, AcceptMalformedAnswers, BadRequestSentAnswers
       DEF LoopStep
<1>3. CASE Upsets
  <2>1. CASE ReadyFails
    BY <2>1, LoopEndsAnswers DEF ReadyFails
  <2>2. ASSUME NEW r \in Requests, TaskUnready(r) PROVE RespInv'
    BY <2>2, ReturnsError DEF TaskUnready
  <2>3. ASSUME NEW r \in Requests, Rejects(r) PROVE RespInv'
    BY <2>3, ReturnsError DEF Rejects, SendErrors
  <2>4. ASSUME NEW r \in Requests, Panic(r) PROVE RespInv'
    BY <2>4, ReturnsError DEF Panic, Polls
  <2> QED
    BY <1>3, <2>1, <2>2, <2>3, <2>4 DEF Upsets
<1>4. CASE Peer
  <2>1. CASE Shutdown
    BY <2>1, RespInvKept DEF Shutdown
  <2>2. ASSUME NEW r \in Requests, Arrive(r) PROVE RespInv'
    BY <2>2, RespInvMoved DEF Arrive, Queue!Arrive
  <2>3. ASSUME NEW r \in Requests, BodyArrives(r) PROVE RespInv'
    BY <1>0, <2>3, RespInvKept DEF BodyArrives, queueVars
  <2> QED
    BY <1>4, <2>1, <2>2, <2>3 DEF Peer
<1>5. CASE Over
  BY <1>0, <1>5, RespInvKept DEF Over, vars, queueVars
<1>6. ASSUME NEW r \in Requests, TaskStep(r) PROVE RespInv'
  <2>1. CASE TaskReady(r)
    <3>1. /\ pc[r] = "ready" /\ pc' = [pc EXCEPT ![r] = "calling"]
          /\ UNCHANGED <<reply, pieces, trailers, produced, over, written, left, framing, result,
                         wire, closed, streaming, place>>
      BY <2>1 DEF TaskReady, Goes, bodyVars, sendVars, queueVars
    <3>2. RespTypes' /\ pc'[r] = "calling"
      BY <3>1 DEF RespInv, RespTypes
    <3>3. \A s \in Requests \ {r} : Same(s)
      BY <3>1 DEF RespInv, RespTypes, Same
    <3>4. place'[r] = {"handed"}
      BY <3>1 DEF RespInv, Answered, Phases, Waiting
    <3> QED
      BY <3>1, <3>2, <3>3, <3>4, FreshAnswered, OneRequest
  <2>2. CASE Handler(r)
    BY <2>2, BeginKeeps, ServiceFailsKeeps DEF Handler
  <2>3. CASE Answer(r)
    <3>1. UNCHANGED place /\ Answers(r)
      BY <2>3 DEF Answer
    <3>2. CASE Reads(r)
      BY <3>1, <3>2, ChunkKeeps, TrailersKeeps, BodyEndsKeeps, BodyFailsKeeps DEF Reads
    <3>3. CASE Sends(r)
      BY <3>1, <3>3, FinishKeeps, SendHeadKeeps, PieceKeeps, WriteKeeps, EndKeeps, CloseKeeps
         DEF Sends
    <3> QED
      BY <3>1, <3>2, <3>3, DecideKeeps, SendFailsKeeps DEF Answers
  <2> QED
    BY <1>6, <2>1, <2>2, <2>3, SettleAnswers DEF TaskStep
<1>7. ASSUME NEW r \in Requests, Body(r) PROVE RespInv'
  BY <1>0, <1>7, RespInvKept DEF Body, ReadCompletes, PollFrame, queueVars
<1> QED
  BY <1>1, <1>2, <1>3, <1>4, <1>5, <1>6, <1>7 DEF ServerNext

\* What the peer parses is one response: one head, one end at most, no byte
\* beyond the declared length, and an ended response is as long as declared and
\* holds all that its body produced; send, unlike send_streaming, writes no byte
\* of a body that must not be there (Responder of server/mod.rs).
THEOREM ResponsesSound == ServerSpec => []WireSound
<1>1. RespInv => WireSound
  BY DEF RespInv, Answered, WireOf, WireSound
<1> QED
  BY RespInvInit, RespInvStep, <1>1, PTL DEF ServerSpec

\* Ok means that the whole response was sent and ended, and a body that failed
\* or did not match is an error that was not ended as if it were complete.
THEOREM ResultsTrue == ServerSpec => []ResultTrue
<1>1. RespInv => ResultTrue
  BY DEF RespInv, Answered, ResultOf, ResultTrue
<1> QED
  BY RespInvInit, RespInvStep, <1>1, PTL DEF ServerSpec
=============================================================================
