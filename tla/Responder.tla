----------------------------- MODULE Responder -----------------------------
(***************************************************************************)
(* Answering a request: Responder of winasio-util/src/server/mod.rs with   *)
(* the framing rules of server/head.rs.  A response whose length is known  *)
(* goes out in one call or with a Content-Length, any other one in chunks  *)
(* framed here; send_streaming (gRPC) writes the body raw and ends it with *)
(* trailers.  Every call of the queue may fail: the peer is gone, or the   *)
(* queue was closed.                                                       *)
(*                                                                         *)
(* A body is the sequence of frames its source produces when polled, data  *)
(* of some length, trailers, an error or the end, chosen as the response   *)
(* proceeds.  Bytes are counted, not represented.                          *)
(***************************************************************************)
EXTENDS Integers, Sequences

CONSTANTS
    Requests,
    HeadRequests,   \* those whose method is HEAD
    Replies,        \* responses the service may return to each request
    Sizes,          \* lengths of the data frames of a body
    MaxBody,        \* bound: bytes a body produces
    MAX_SEND,       \* the largest piece written in one call
    Framed,         \* bytes of framing around one chunk
    NoLen,          \* no length declared, or no exact size hint
    BadLen,         \* a Content-Length that is no number, or two that differ
    TrailersSupported,  \* HTTP.sys can send trailers
    Faults          \* requests whose peer may go away, so that calls fail

Length == Nat \cup {NoLen}

\* status: "plain", or "empty" for 1xx, 204 and 304; te: the service set a
\* Transfer-Encoding; declared: its Content-Length; exact: the size hint.
Reply == [status : {"plain", "empty"}, te : BOOLEAN,
          declared : Length \cup {BadLen}, exact : Length]

\* What send_status sends.
StatusReply == [status |-> "plain", te |-> FALSE, declared |-> 0, exact |-> 0]

ASSUME ResponderAssumption ==
    /\ HeadRequests \subseteq Requests
    /\ Replies \in [Requests -> SUBSET Reply]
    /\ Sizes \subseteq Nat \ {0}
    /\ MaxBody \in Nat /\ MAX_SEND \in Nat \ {0} /\ Framed \in Nat
    /\ NoLen \notin Nat /\ BadLen \notin Length
    /\ Faults \subseteq Requests /\ TrailersSupported \in BOOLEAN

VARIABLES
    closed,     \* the queue was closed
    streaming,  \* responses go through send_streaming
    pc,         \* where the task of a request is
    reply,      \* the response it sends
    pieces,     \* data frames read and not yet written
    trailers,   \* the body had trailers
    produced,   \* bytes the body has produced
    over,       \* its source has ended
    written,    \* stream: bytes handed to write
    left,       \* write: bytes of the buffer not yet sent
    framing,    \* how the body is delimited
    result,     \* what the task returns
    wire        \* what the peer has been sent

bodyVars == <<pieces, trailers, produced, over>>
sendVars == <<written, left, framing>>
respVars == <<pc, reply, bodyVars, sendVars, result, wire>>
queueVars == <<closed, streaming>>

\* The peer's view: heads, the declared length, payload bytes, and whether the
\* response was ended, with trailers or without.
Silence == [heads |-> 0, length |-> NoLen, body |-> 0, ends |-> 0, trailers |-> FALSE]

ResponderTypeOK ==
    /\ closed \in BOOLEAN /\ streaming \in BOOLEAN
    /\ pc \in [Requests -> {"none", "ready", "calling", "first", "second", "decide", "finish",
                            "head", "piece", "writing", "next", "ending", "closing", "done",
                            "settled", "dropped"}]
    /\ \A r \in Requests : reply[r] \in Replies[r] \cup {StatusReply}
    /\ pieces \in [Requests -> Seq(Sizes)]
    /\ \A f \in {trailers, over} : f \in [Requests -> BOOLEAN]
    /\ \A f \in {produced, written, left} : f \in [Requests -> Nat]
    /\ framing \in [Requests -> {"none", "exact", "chunked", "raw"}]
    /\ result \in [Requests -> {"none", "ok", "service", "malformed", "panic", "body",
                                "aborted", "invalid", "rejected"}]
    /\ wire \in [Requests -> [heads : Nat, length : Length, body : Nat, ends : Nat,
                              trailers : BOOLEAN]]

ResponderInit ==
    /\ closed = FALSE
    /\ pc = [r \in Requests |-> "none"]
    /\ reply = [r \in Requests |-> StatusReply]
    /\ pieces = [r \in Requests |-> <<>>]
    /\ trailers = [r \in Requests |-> FALSE]
    /\ produced = [r \in Requests |-> 0]
    /\ over = [r \in Requests |-> FALSE]
    /\ written = [r \in Requests |-> 0]
    /\ left = [r \in Requests |-> 0]
    /\ framing = [r \in Requests |-> "none"]
    /\ result = [r \in Requests |-> "none"]
    /\ wire = [r \in Requests |-> Silence]

----------------------------------------------------------------------------
(* Helpers.                                                                *)

Goes(r, to) == pc' = [pc EXCEPT ![r] = to]

\* The task returns res, unless it has an earlier error to return.
Returns(r, res) ==
    /\ Goes(r, "done")
    /\ result' = [result EXCEPT ![r] = IF @ = "none" THEN res ELSE @]

\* The future of r is gone, and its locals with it.
Forgets(r) ==
    /\ reply' = [reply EXCEPT ![r] = StatusReply]
    /\ pieces' = [pieces EXCEPT ![r] = <<>>]
    /\ trailers' = [trailers EXCEPT ![r] = FALSE]
    /\ produced' = [produced EXCEPT ![r] = 0]
    /\ over' = [over EXCEPT ![r] = FALSE]
    /\ written' = [written EXCEPT ![r] = 0]
    /\ left' = [left EXCEPT ![r] = 0]
    /\ framing' = [framing EXCEPT ![r] = "none"]

Smaller(m, n) == IF m < n THEN m ELSE n

\* head::may_declare_length and head::may_send_body.
MayDeclareLength(y) == y.status # "empty"
MaySendBody(r, y) == r \notin HeadRequests /\ y.status # "empty"

\* The length a body-less reply declares: the caller's wins over the hint.
BodylessLength(y) ==
    IF ~MayDeclareLength(y) THEN NoLen ELSE IF y.declared # NoLen THEN y.declared ELSE y.exact

\* The length of a response with a body.
BodyLength(y) == IF y.exact # NoLen THEN y.exact ELSE y.declared

Produced(s) == IF s = <<>> THEN 0 ELSE IF Len(s) = 1 THEN s[1] ELSE s[1] + s[2]

\* How a call of the queue fails.  A call started after close fails with
\* ERROR_INVALID_HANDLE, one that close finds in flight is aborted.
SendErrors(r) == (IF closed THEN {"invalid", "aborted"} ELSE {})
                 \cup (IF r \in Faults THEN {"aborted"} ELSE {})

----------------------------------------------------------------------------
(* Choosing the framing: dispatch, send, send_parts and send_streaming up  *)
(* to the first write.                                                     *)

\* The service returned y.  A Transfer-Encoding or an unusable length is
\* refused; a response that may have no body drops it unpolled.  send_streaming
\* asks neither what was declared nor whether there may be a body.
Begin(r, y) ==
    /\ pc[r] = "calling"
    /\ reply' = [reply EXCEPT ![r] = IF streaming THEN @ ELSE y]
    /\ CASE y.te -> Returns(r, "body")
         [] ~y.te /\ streaming -> Goes(r, "head") /\ UNCHANGED result
         [] ~y.te /\ ~streaming /\ y.declared = BadLen -> Returns(r, "body")
         [] ~y.te /\ ~streaming /\ y.declared # BadLen ->
              IF ~MaySendBody(r, y) THEN Goes(r, "finish") /\ UNCHANGED result
              ELSE IF NoLen \notin {y.declared, y.exact} /\ y.declared # y.exact
                   THEN Returns(r, "body")
                   ELSE Goes(r, "first") /\ UNCHANGED result
    /\ framing' = [framing EXCEPT ![r] = IF streaming THEN "raw" ELSE "none"]
    /\ UNCHANGED <<bodyVars, written, left, wire, queueVars>>

\* The service failed: a bodiless 500, and the error is still returned.
ServiceFails(r) ==
    /\ pc[r] = "calling"
    /\ reply' = [reply EXCEPT ![r] = StatusReply]
    /\ result' = [result EXCEPT ![r] = "service"]
    /\ Goes(r, "finish")
    /\ UNCHANGED <<bodyVars, sendVars, wire, queueVars>>

\* next_chunk and next_frame: a non-empty data frame.
Polls(r) == pc[r] \in {"first", "second", "next"}

Chunk(r, n) ==
    /\ Polls(r)
    /\ ~over[r]
    /\ produced[r] + n <= MaxBody
    /\ produced' = [produced EXCEPT ![r] = @ + n]
    /\ pieces' = [pieces EXCEPT ![r] = Append(@, n)]
    /\ Goes(r, CASE pc[r] = "first" -> "second" [] pc[r] = "second" -> "decide"
                 [] pc[r] = "next" -> "piece")
    /\ UNCHANGED <<reply, trailers, over, sendVars, result, wire, queueVars>>

\* A trailers frame: kept by next_frame, skipped by next_chunk.
Trailers(r) ==
    /\ Polls(r)
    /\ streaming
    /\ ~over[r]
    /\ ~trailers[r]
    /\ trailers' = [trailers EXCEPT ![r] = TRUE]
    /\ UNCHANGED <<pc, reply, pieces, produced, over, sendVars, result, wire, queueVars>>

\* The end of the body.  A source that has ended is polled again, and is
\* assumed to say so again.
BodyEnds(r) ==
    /\ Polls(r)
    /\ over' = [over EXCEPT ![r] = TRUE]
    /\ Goes(r, IF pc[r] = "next" THEN "ending" ELSE "decide")
    /\ UNCHANGED <<reply, pieces, trailers, produced, sendVars, result, wire, queueVars>>

\* The source fails.  Only send_streaming still tries to end the response.
BodyFails(r) ==
    /\ Polls(r)
    /\ ~over[r]
    /\ over' = [over EXCEPT ![r] = TRUE]
    /\ result' = [result EXCEPT ![r] = "body"]
    /\ Goes(r, IF streaming THEN "closing" ELSE "done")
    /\ UNCHANGED <<reply, pieces, trailers, produced, sendVars, wire, queueVars>>

\* With up to two frames read: everything in one call, if the body is known to
\* be over and as long as declared; else streamed.
Decide(r) ==
    /\ pc[r] = "decide"
    /\ LET length == BodyLength(reply[r])
           sum == Produced(pieces[r])
       IN CASE length = 0 /\ sum # 0 -> Returns(r, "body") /\ UNCHANGED framing
            [] length # NoLen /\ sum = length /\ Len(pieces[r]) < 2 ->
                 Goes(r, "finish") /\ UNCHANGED <<framing, result>>
            [] length \notin {NoLen, 0} /\ ~(sum = length /\ Len(pieces[r]) < 2) ->
                 /\ Goes(r, "head") /\ UNCHANGED result
                 /\ framing' = [framing EXCEPT ![r] = "exact"]
            [] length = NoLen ->
                 /\ Goes(r, "head") /\ UNCHANGED result
                 /\ framing' = [framing EXCEPT ![r] = "chunked"]
    /\ UNCHANGED <<reply, bodyVars, written, left, wire, queueVars>>

----------------------------------------------------------------------------
(* Calls of the queue.                                                     *)

\* The response declared more than the body has produced.
Short(r) == framing[r] = "exact" /\ written[r] # BodyLength(reply[r])

\* Mutant of SendFails: the error of a call is dropped.
SendFailsDropped(r) ==
    /\ pc[r] \in {"finish", "head", "writing", "ending"}
    /\ pc[r] = "ending" => ~Short(r)
    /\ SendErrors(r) # {}
    /\ Returns(r, "ok")
    /\ UNCHANGED <<reply, bodyVars, sendVars, wire, queueVars>>

\* One call fails, and the task returns the error.
SendFails(r) ==
    /\ pc[r] \in {"finish", "head", "writing", "ending"}
    /\ pc[r] = "ending" => ~Short(r)
    /\ \E e \in SendErrors(r) :
        /\ result' = [result EXCEPT ![r] = IF @ = "none" THEN e ELSE @]
        /\ Goes(r, IF streaming /\ pc[r] = "writing" THEN "closing" ELSE "done")
    /\ UNCHANGED <<reply, bodyVars, sendVars, wire, queueVars>>

\* finish: head and body in one call, which ends the response.  HTTP.sys
\* computes the length of a body given to it.
Finish(r) ==
    /\ pc[r] = "finish"
    /\ ~closed
    /\ LET bodyless == ~MaySendBody(r, reply[r])
           sum == IF bodyless THEN 0 ELSE Produced(pieces[r])
       IN wire' = [wire EXCEPT ![r].heads = @ + 1, ![r].ends = @ + 1, ![r].body = @ + sum,
                               ![r].length = IF bodyless THEN BodylessLength(reply[r]) ELSE sum]
    /\ Returns(r, "ok")
    /\ UNCHANGED <<reply, bodyVars, sendVars, queueVars>>

\* send_partial: the head, with more data to follow.
SendHead(r) ==
    /\ pc[r] = "head"
    /\ ~closed
    /\ wire' = [wire EXCEPT ![r].heads = @ + 1,
                            ![r].length = IF framing[r] = "exact" THEN BodyLength(reply[r])
                                          ELSE NoLen]
    /\ Goes(r, IF framing[r] = "raw" THEN "next"
               ELSE IF pieces[r] = <<>> THEN "ending" ELSE "piece")
    /\ UNCHANGED <<reply, bodyVars, sendVars, result, queueVars>>

\* Mutant of Piece: the surplus is noticed at the end, when it has been sent.
PieceUnchecked(r) ==
    /\ pc[r] = "piece"
    /\ written' = [written EXCEPT ![r] = @ + Head(pieces[r])]
    /\ left' = [left EXCEPT ![r] = Head(pieces[r])]
    /\ Goes(r, "writing")
    /\ UNCHANGED <<reply, bodyVars, framing, result, wire, queueVars>>

\* The next piece: refused before it is written if it would exceed what was
\* declared, else put in a buffer, with its framing.
Piece(r) ==
    /\ pc[r] = "piece"
    /\ LET n == Head(pieces[r])
       IN IF framing[r] = "exact" /\ written[r] + n > BodyLength(reply[r])
          THEN Returns(r, "body") /\ UNCHANGED <<written, left>>
          ELSE /\ written' = [written EXCEPT ![r] = @ + n]
               /\ left' = [left EXCEPT ![r] = n + IF framing[r] = "chunked" THEN Framed ELSE 0]
               /\ Goes(r, "writing")
               /\ UNCHANGED result
    /\ UNCHANGED <<reply, bodyVars, framing, wire, queueVars>>

\* write: at most MAX_SEND bytes of the buffer.  The payload of a chunk counts
\* when the whole of it was sent.
Write(r) ==
    /\ pc[r] = "writing"
    /\ ~closed
    /\ LET n == Smaller(left[r], MAX_SEND)
           whole == n = left[r]
       IN /\ left' = [left EXCEPT ![r] = @ - n]
          /\ wire' = [wire EXCEPT ![r].body =
                        @ + IF framing[r] # "chunked" THEN n
                            ELSE IF whole THEN Head(pieces[r]) ELSE 0]
          /\ pieces' = IF whole THEN [pieces EXCEPT ![r] = Tail(@)] ELSE pieces
          /\ Goes(r, IF ~whole THEN "writing"
                     ELSE IF Len(pieces[r]) > 1 THEN "piece" ELSE "next")
    /\ UNCHANGED <<reply, trailers, produced, over, written, framing, result, queueVars>>

\* The body is over: a response shorter than declared is an error and is left
\* as it is; any other is ended by an empty write, the last chunk or the
\* trailers.
End(r) ==
    /\ pc[r] = "ending"
    /\ IF Short(r) THEN Returns(r, "body") /\ UNCHANGED wire
       ELSE /\ ~closed
            /\ wire' = [wire EXCEPT ![r].ends = @ + 1, ![r].trailers = trailers[r] /\ TrailersSupported]
            /\ Returns(r, "ok")
    /\ UNCHANGED <<reply, bodyVars, sendVars, queueVars>>

\* send_streaming failed in the middle: a best-effort end, then the error.
Close(r) ==
    /\ pc[r] = "closing"
    /\ \/ ~closed /\ wire' = [wire EXCEPT ![r].ends = @ + 1]
       \/ SendErrors(r) # {} /\ UNCHANGED wire
    /\ Goes(r, "done")
    /\ UNCHANGED <<reply, bodyVars, sendVars, result, queueVars>>

\* A step of the task that answers r, up to its return.
Sends(r) == Finish(r) \/ SendHead(r) \/ Piece(r) \/ Write(r) \/ End(r) \/ Close(r)

Reads(r) == (\E n \in Sizes : Chunk(r, n)) \/ Trailers(r) \/ BodyEnds(r) \/ BodyFails(r)

Answers(r) == Reads(r) \/ Decide(r) \/ Sends(r) \/ SendFails(r)

----------------------------------------------------------------------------
(* Properties.                                                             *)

\* What the peer parses is never two messages run together: one head, at most
\* one end and only after it, never a byte beyond the declared length, and an
\* ended response is exactly as long as declared (a HEAD declares the length of
\* its GET) and holds all its body produced.  Where there may be no body (HEAD,
\* 1xx, 204, 304), send writes none.  send_streaming is exempt from this last
\* rule: it does not ask may_send_body and writes every frame it is given, which
\* is not what server/mod.rs:143-145 says of the crate.
WireSound ==
    \A r \in Requests :
        LET w == wire[r]
            bodyless == ~streaming /\ ~MaySendBody(r, reply[r])
        IN pc[r] \notin {"settled", "dropped"} =>
           /\ w.heads <= 1 /\ w.ends <= w.heads
           /\ w.body > 0 => w.heads = 1
           /\ bodyless => w.body = 0
           /\ ~bodyless /\ w.length # NoLen => w.body <= w.length
           /\ ~bodyless /\ w.length # NoLen /\ w.ends = 1 => w.body = w.length
           /\ result[r] = "ok" /\ ~bodyless => w.body = produced[r] /\ over[r]

\* The result is the truth: Ok means that the whole response was sent and
\* ended; a body that did not match is an error and was not ended as if it
\* were complete, except by the best-effort end of a broken stream.
ResultTrue ==
    \A r \in Requests :
        /\ result[r] = "ok" => wire[r].ends = 1
        /\ result[r] = "body" /\ ~streaming => wire[r].ends = 0
        /\ /\ streaming /\ result[r] = "body" /\ pc[r] \in {"done", "settled"}
           /\ r \notin Faults /\ ~closed
           => wire[r].ends = wire[r].heads
=============================================================================
