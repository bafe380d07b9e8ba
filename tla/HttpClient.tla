----------------------------- MODULE HttpClient -----------------------------
(***************************************************************************)
(* One request of winasio-util's Client, from Client::request to the end   *)
(* of the response body.  Over HTTP/1.1 (client.rs, body.rs) the head, the *)
(* whole request body and the response follow each other.  Over HTTP/2     *)
(* (h2.rs) the receive is polled alongside the body, request returns as    *)
(* soon as the response head is there, and the body of the response goes   *)
(* on sending what is left of the request's.                               *)
(*                                                                         *)
(* The bytes of the request body are numbered from 1 in the order the      *)
(* caller's body yields them; END is what closes it.  WinHTTP below        *)
(* (WinHttpContext) is external: a call completes, in full or in part, or  *)
(* fails, and after a failed write every later one fails too.              *)
(***************************************************************************)
EXTENDS Integers, Sequences, FiniteSets

CONSTANTS
    MAX_WRITE, MAX_READ,    \* the largest single write and read
    U32MAX,                 \* the largest length WinHttpSendRequest takes
    MaxBody, MaxResponse,   \* bytes of the bodies, at most
    Unparsable,             \* a Content-Length that is no number
    Calls,                  \* the requests the caller may make
    Responses               \* the heads the server may answer with

\* The parts of a request that can make Client::request refuse it, and whether
\* its method is HEAD.
Call == [uri : {"good", "scheme", "nohost", "userinfo"},
         header : {"good", "framing", "notascii"}, head : BOOLEAN]

\* A response head: its status ("bodiless" for 1xx, 204 and 304), whether its
\* fields parse, and the Content-Length values among them.
Response == [status : {"plain", "bodiless", "unknown"}, fields : {"good", "malformed"},
             lengths : {s \in SUBSET (Nat \cup {Unparsable}) : IsFiniteSet(s)}]

ASSUME ClientAssumption ==
    /\ {MAX_WRITE, MAX_READ} \subseteq Nat \ {0}
    /\ {U32MAX, MaxBody, MaxResponse} \subseteq Nat
    /\ Unparsable \notin Nat
    /\ Calls \subseteq Call
    /\ Responses \subseteq Response

VARIABLES
    http2,          \* ClientBuilder::http2
    call,           \* the caller's request, without its body
    hint,           \* size_hint().exact() of the request body
    framing,        \* Framing, H2Framing
    declares,       \* what the request head says of the length of its body
    chunking,       \* the client's cache of the platform's answer
    pc,             \* where the caller's task is
    offer,          \* the frame the request body has ready
    pulled,         \* bytes it has yielded
    ended,          \* it has yielded its end
    data, chunk,    \* what is left of its frame, and of the buffer being written
    wr, wrote,      \* the write in flight and its count
    broken,         \* a write has failed
    wire,           \* what the server got
    recv, head,     \* WinHttpReceiveResponse, and drive_head's copy of its result
    writeDone,      \* write_done
    sent, closed, trailers,     \* what the server has sent, and how it ended
    response,       \* the head it answers with
    want,           \* the size of the read in flight
    got, outcome    \* what the caller got of the response body

callVars == <<http2, call, hint, framing, declares, chunking>>
bodyVars == <<offer, pulled, ended>>
writeVars == <<data, chunk, wr, wrote, broken, wire>>
headVars == <<recv, head, writeDone>>
serverVars == <<sent, closed, trailers, response>>
readVars == <<want, got, outcome>>
vars == <<callVars, pc, bodyVars, writeVars, headVars, serverVars, readVars>>

None == -1
Chunked == -2       \* in declares: Transfer-Encoding: chunked
Callers == -3       \* in declares: a framing header of the caller's
END == 0
NoFrame == [t |-> "none", n |-> 0]
NoResponse == [status |-> "unknown", fields |-> "malformed", lengths |-> {}]

\* headers::may_have_body.
MayHaveBody == ~call.head /\ response.status # "bodiless"

\* headers::content_length: a value that is no number, or two that differ, are
\* as good as none.
ContentLength ==
    IF Cardinality(response.lengths) = 1 /\ response.lengths \subseteq Nat
    THEN CHOOSE n \in response.lengths : TRUE ELSE None

\* The length the response body is held to; over HTTP/2 there is none.
Promised == IF http2 THEN None ELSE ContentLength

\* An earlier request may have filled the cache, which only a body of no known
\* length asks.
Init ==
    /\ http2 \in BOOLEAN
    /\ call \in Calls
    /\ hint \in {None} \cup 0..MaxBody
    /\ framing = "none" /\ declares = {}
    /\ chunking \in IF http2 /\ hint = None THEN {"unknown", "yes", "no"} ELSE {"unknown"}
    /\ pc = "start"
    /\ offer = NoFrame /\ pulled = 0 /\ ended = FALSE
    /\ data = <<>> /\ chunk = <<>> /\ wr = "none" /\ wrote = 0 /\ broken = FALSE /\ wire = <<>>
    /\ recv = "none" /\ head = "none" /\ writeDone = FALSE
    /\ sent = 0 /\ closed = "no" /\ trailers = "none"
    /\ response = NoResponse
    /\ want = 0 /\ got = 0 /\ outcome = "none"

----------------------------------------------------------------------------
(* The caller's body, and the server.                                      *)

\* The body has a frame ready: data, trailers, an error or its end.  A body
\* that gave its length may still not keep to it.
Produce ==
    /\ offer = NoFrame /\ ~ended
    /\ offer' \in [t : {"data"}, n : 1..MaxBody - pulled]
                  \cup {[t |-> "trailers", n |-> 0], [t |-> "error", n |-> 0], [t |-> "end", n |-> 0]}
    /\ UNCHANGED <<callVars, pc, pulled, ended, writeVars, headVars, serverVars, readVars>>

\* poll_frame takes it.
Polled ==
    /\ pulled' = pulled + offer.n
    /\ ended' = (ended \/ offer.t \in {"end", "error"})
    /\ offer' = NoFrame

FrameBytes == [i \in 1..offer.n |-> pulled + i]

\* The response head arrives, or the receive fails.
ReceiveCompletes ==
    /\ recv = "waiting"
    /\ \/ recv' = "ok" /\ response' \in Responses
       \/ recv' = "failed" /\ UNCHANGED response
    /\ UNCHANGED <<callVars, pc, bodyVars, writeVars, head, writeDone, sent, closed, trailers,
                   readVars>>

ServerSends ==
    /\ recv = "ok" /\ closed = "no" /\ MayHaveBody
    /\ sent < (IF ContentLength = None THEN MaxResponse ELSE ContentLength)
    /\ sent' = sent + 1
    /\ UNCHANGED <<callVars, pc, bodyVars, writeVars, headVars, closed, trailers, response,
                   readVars>>

\* It ends, with a graceful close short of the length it gave, perhaps; or it
\* resets.
ServerEnds ==
    /\ recv = "ok" /\ closed = "no"
    /\ closed' \in {"end", "reset"}
    /\ trailers' \in IF http2 /\ closed' = "end" THEN {"none", "good", "malformed"} ELSE {"none"}
    /\ UNCHANGED <<callVars, pc, bodyVars, writeVars, headVars, sent, response, readVars>>

\* WinHttpWriteData completes.  The empty write that ends an HTTP/2 stream has
\* no count.
WriteCompletes ==
    /\ wr = "busy"
    /\ \/ /\ ~broken
          /\ wr' = "done"
          /\ wrote' \in IF framing = "Automatic" /\ chunk = <<END>> THEN {1} ELSE 0..Len(chunk)
          /\ wire' = wire \o SubSeq(chunk, 1, wrote')
          /\ UNCHANGED broken
       \/ /\ wr' = "failed"
          /\ broken' = TRUE
          /\ UNCHANGED <<wrote, wire>>
    /\ UNCHANGED <<callVars, pc, bodyVars, data, chunk, headVars, serverVars, readVars>>

----------------------------------------------------------------------------
(* Client::request, up to the body.                                        *)

Fails == pc' = "failed"

\* uri::decompose wants http or https, a host and no userinfo.
Decompose(uri) == uri \notin {"scheme", "nohost", "userinfo"}

\* headers::encode refuses a framing header of the caller's, and a value that
\* is not visible ASCII.
Encode(header) == header \notin {"framing", "notascii"}

\* The order of the two stages: HTTP/1.1 chooses the framing before it
\* connects, HTTP/2 after, as it may have to ask the platform.
AfterStart == IF http2 THEN "connect" ELSE "frame"
AfterConnect == IF http2 THEN "frame" ELSE "open"
AfterFrame == IF http2 THEN "open" ELSE "connect"

Start ==
    /\ pc = "start"
    /\ pc' = IF Decompose(call.uri) /\ Encode(call.header) THEN AfterStart ELSE "failed"
    /\ declares' = IF call.header = "framing" THEN {Callers} ELSE {}
    /\ UNCHANGED <<http2, call, hint, framing, chunking, bodyVars, writeVars, headVars,
                   serverVars, readVars>>

\* Session::connect.
Connect ==
    /\ pc = "connect"
    /\ pc' \in {AfterConnect, "failed"}
    /\ UNCHANGED <<callVars, bodyVars, writeVars, headVars, serverVars, readVars>>

\* supports_automatic_chunking opens a request to find out: with the flag
\* refused the answer is no, and any other failure is no answer.
SupportsAutomaticChunking == {"yes", "no", "error"}

\* probe_chunking: the answer of the platform, asked once and kept.
ProbeChunking == IF chunking = "unknown" THEN SupportsAutomaticChunking ELSE {chunking}

\* Framing::total_length and H2Framing::total_length, with the header that the
\* chunks framed here need (headers::append).
TotalLength(f) == CASE f = "Exact" -> {hint} [] f = "ManualChunked" -> {Chunked} [] OTHER -> {}

\* The framing is chosen, and what the head says follows it.
Frames(f) ==
    /\ framing' = f
    /\ declares' = declares \cup TotalLength(f)
    /\ pc' = AfterFrame

ChooseFraming ==
    /\ pc = "frame"
    /\ CASE hint > U32MAX -> Fails /\ UNCHANGED <<framing, declares, chunking>>
         [] hint \in 0..U32MAX -> Frames("Exact") /\ UNCHANGED chunking
         [] hint = None /\ ~http2 -> Frames("ManualChunked") /\ UNCHANGED chunking
         [] hint = None /\ http2 ->
              \E answer \in ProbeChunking :
                IF answer = "error" THEN Fails /\ UNCHANGED <<framing, declares, chunking>>
                ELSE /\ chunking' = answer
                     /\ Frames(IF answer = "yes" THEN "Automatic" ELSE "ManualChunked")
    /\ UNCHANGED <<http2, call, hint, bodyVars, writeVars, headVars, serverVars, readVars>>

\* Connection::open_request_with, then the options of the request: the
\* certificate checks that are waived, and HTTP/2.
OpenRequest ==
    /\ pc = "open"
    /\ pc' \in {"configure", "failed"}
    /\ UNCHANGED <<callVars, bodyVars, writeVars, headVars, serverVars, readVars>>

Configure ==
    /\ pc = "configure"
    /\ pc' \in {"sending", "failed"}
    /\ UNCHANGED <<callVars, bodyVars, writeVars, headVars, serverVars, readVars>>

\* WinHttpSendRequest of the head; over HTTP/2 the receive is started with the
\* first poll after it.
SendCompletes ==
    /\ pc = "sending"
    /\ \/ Fails /\ UNCHANGED recv
       \/ /\ pc' = IF http2 THEN "headpull" ELSE "pull"
          /\ recv' = IF http2 THEN "waiting" ELSE recv
    /\ UNCHANGED <<callVars, bodyVars, writeVars, head, writeDone, serverVars, readVars>>

----------------------------------------------------------------------------
(* Writing.                                                                *)

\* A frame, or what is left of it, is written in pieces of at most MAX_WRITE.
StartsWrite(d) ==
    LET n == IF Len(d) < MAX_WRITE THEN Len(d) ELSE MAX_WRITE
    IN /\ chunk' = SubSeq(d, 1, n)
       /\ data' = SubSeq(d, n + 1, Len(d))
       /\ wr' = "busy"
       /\ UNCHANGED <<wrote, broken, wire>>

StartsEnd ==
    /\ chunk' = <<END>> /\ data' = <<>> /\ wr' = "busy"
    /\ UNCHANGED <<wrote, broken, wire>>

\* Nothing is being written; what was left of the frame is gone.
StopsWriting ==
    /\ chunk' = <<>> /\ data' = <<>> /\ wr' = "none"
    /\ UNCHANGED <<wrote, broken, wire>>

WroteAll == wr = "done" /\ wrote = Len(chunk)
Stalled == wr = "done" /\ wrote = 0 /\ chunk # <<>>

\* The rest of a short write is written.
WritesRest ==
    /\ wr = "done" /\ wrote \in 1..Len(chunk) - 1
    /\ chunk' = SubSeq(chunk, wrote + 1, Len(chunk))
    /\ wr' = "busy"
    /\ UNCHANGED <<data, wrote, broken, wire>>

NeedsEnd == framing # "Exact"

----------------------------------------------------------------------------
(* HTTP/1.1: write_body, then receive_response.                            *)

\* Mutant of Receives: a body is not held to its length.
ReceivesAnyway == pc' = "receive" /\ recv' = "waiting"

\* The whole body is written: it must have been as long as it said.
Receives ==
    IF framing = "Exact" /\ hint # pulled' THEN Fails /\ UNCHANGED recv
    ELSE pc' = "receive" /\ recv' = "waiting"

Pull ==
    /\ pc = "pull" /\ offer # NoFrame
    /\ Polled
    /\ CASE offer.t = "data" -> StartsWrite(FrameBytes) /\ pc' = "write" /\ UNCHANGED recv
         [] offer.t = "trailers" -> UNCHANGED <<writeVars, pc, recv>>
         [] offer.t = "error" -> Fails /\ UNCHANGED <<writeVars, recv>>
         [] OTHER -> IF NeedsEnd THEN StartsEnd /\ pc' = "write" /\ UNCHANGED recv
                     ELSE Receives /\ UNCHANGED writeVars
    /\ UNCHANGED <<callVars, head, writeDone, serverVars, readVars>>

Wrote ==
    /\ pc = "write" /\ wr \in {"done", "failed"}
    /\ UNCHANGED bodyVars
    /\ \/ (wr = "failed" \/ Stalled) /\ Fails /\ UNCHANGED <<writeVars, recv>>
       \/ WritesRest /\ UNCHANGED <<pc, recv>>
       \/ /\ WroteAll
          /\ IF data # <<>> THEN StartsWrite(data) /\ UNCHANGED <<pc, recv>>
             ELSE /\ StopsWriting
                  /\ IF chunk = <<END>> THEN Receives ELSE pc' = "pull" /\ UNCHANGED recv
    /\ UNCHANGED <<callVars, head, writeDone, serverVars, readVars>>

\* WinHttpQueryHeaders answers on the spot: Request::query_string and status_code.
QueryString == {"answer", "error"}
StatusCode == QueryString

\* The status is known and headers::parse likes the fields.
Parse == response.status # "unknown" /\ response.fields = "good"

\* The head is read, which may fail, and parsed; a response that can have no
\* body is over.  HTTP/2 does not look.
Responds ==
    \E status \in StatusCode, raw \in QueryString :
        IF "error" \in {status, raw} \/ ~Parse THEN Fails /\ UNCHANGED outcome
        ELSE IF ~http2 /\ ~MayHaveBody THEN pc' = "done" /\ outcome' = "end"
        ELSE pc' = "active" /\ UNCHANGED outcome

Received ==
    /\ pc = "receive" /\ recv \in {"ok", "failed"}
    /\ IF recv = "ok" THEN Responds ELSE Fails /\ UNCHANGED outcome
    /\ UNCHANGED <<callVars, bodyVars, writeVars, headVars, serverVars, want, got>>

----------------------------------------------------------------------------
(* HTTP/2: drive_head.                                                     *)

\* Every poll of the loop polls the receive first.
HeadPolled == IF head = "none" /\ recv \in {"ok", "failed"} THEN recv ELSE head

\* A frame was pulled: when the head has come by then, it is not written.
HeadFrame ==
    CASE offer.t = "data" ->
            /\ IF head' = "none" THEN StartsWrite(FrameBytes) /\ pc' = "headwrite"
               ELSE StopsWriting /\ pc' = "headdone"
            /\ UNCHANGED writeDone
      [] offer.t = "trailers" ->
            /\ pc' = IF head' = "none" THEN "headpull" ELSE "headdone"
            /\ UNCHANGED <<writeVars, writeDone>>
      [] offer.t = "error" -> Fails /\ UNCHANGED <<writeVars, writeDone>>
      [] OTHER ->
            IF NeedsEnd THEN StartsEnd /\ pc' = "headwrite" /\ UNCHANGED writeDone
            ELSE pc' = "headdone" /\ writeDone' = TRUE /\ UNCHANGED writeVars

\* Mutant of HeadPull: with_recv, which waits for the frame.
HeadPullWaits ==
    /\ pc = "headpull" /\ offer # NoFrame
    /\ head' = HeadPolled
    /\ Polled /\ HeadFrame
    /\ UNCHANGED <<callVars, recv, serverVars, readVars>>

\* with_recv_until_head: the pull is given up when the head is there first.
HeadPull ==
    /\ pc = "headpull"
    /\ head' = HeadPolled
    /\ \/ offer # NoFrame /\ Polled /\ HeadFrame
       \/ /\ offer = NoFrame /\ head' # "none"
          /\ pc' = "headdone"
          /\ UNCHANGED <<bodyVars, writeVars, writeDone>>
    /\ UNCHANGED <<callVars, recv, serverVars, readVars>>

\* with_recv: a write runs to its end, and after the head its failure is that
\* of the body only.
HeadWrote ==
    /\ pc = "headwrite"
    /\ wr \in {"done", "failed"} \/ HeadPolled # head
    /\ head' = HeadPolled
    /\ \/ wr = "busy" /\ UNCHANGED <<writeVars, pc, writeDone>>
       \/ WritesRest /\ UNCHANGED <<pc, writeDone>>
       \/ /\ Stalled \/ (wr = "failed" /\ head' = "none")
          /\ Fails /\ UNCHANGED <<writeVars, writeDone>>
       \/ /\ WroteAll \/ (wr = "failed" /\ head' # "none")
          /\ IF data # <<>> /\ head' = "none"
             THEN StartsWrite(data) /\ UNCHANGED <<pc, writeDone>>
             ELSE /\ StopsWriting
                  /\ writeDone' = (chunk = <<END>>)
                  /\ pc' = IF chunk = <<END>> \/ head' # "none" THEN "headdone" ELSE "headpull"
    /\ UNCHANGED <<callVars, bodyVars, recv, serverVars, readVars>>

HeadDone ==
    /\ pc = "headdone" /\ HeadPolled # "none"
    /\ head' = HeadPolled
    /\ IF head' = "ok" THEN Responds ELSE Fails /\ UNCHANGED outcome
    /\ UNCHANGED <<callVars, bodyVars, writeVars, recv, writeDone, serverVars, want, got>>

----------------------------------------------------------------------------
(* The body of the response.                                               *)

Remaining == Promised - got

\* poll_frame: a body of HTTP/1.1 that has all it was promised is over; that
\* of HTTP/2 goes on with the request body first.
Poll ==
    /\ pc = "active"
    /\ IF Promised # None /\ Remaining = 0 THEN pc' = "done" /\ outcome' = "end"
       ELSE /\ pc' = IF http2 /\ ~writeDone THEN "step" ELSE "query"
            /\ UNCHANGED outcome
    /\ UNCHANGED <<callVars, bodyVars, writeVars, headVars, serverVars, want, got>>

\* duplex_step polls the request body without waiting for it.
Step ==
    /\ pc = "step"
    /\ \/ /\ offer = NoFrame
          /\ pc' = "query"
          /\ UNCHANGED <<bodyVars, writeVars, writeDone, outcome>>
       \/ /\ offer # NoFrame
          /\ Polled
          /\ CASE offer.t = "data" ->
                    /\ StartsWrite(FrameBytes) /\ pc' = "stepwrite"
                    /\ UNCHANGED <<writeDone, outcome>>
               [] offer.t = "trailers" -> UNCHANGED <<writeVars, pc, writeDone, outcome>>
               [] offer.t = "error" ->
                    pc' = "done" /\ outcome' = "error" /\ UNCHANGED <<writeVars, writeDone>>
               [] OTHER ->
                    /\ IF NeedsEnd THEN StartsEnd /\ pc' = "stepwrite" /\ UNCHANGED writeDone
                       ELSE pc' = "query" /\ writeDone' = TRUE /\ UNCHANGED writeVars
                    /\ UNCHANGED outcome
    /\ UNCHANGED <<callVars, recv, head, serverVars, want, got>>

\* write_all_half: a failure ends the request body, not the response.
StepWrote ==
    /\ pc = "stepwrite" /\ wr \in {"done", "failed"}
    /\ \/ WritesRest /\ UNCHANGED <<pc, writeDone>>
       \/ WroteAll /\ data # <<>> /\ StartsWrite(data) /\ UNCHANGED <<pc, writeDone>>
       \/ /\ WroteAll /\ data = <<>> /\ chunk # <<END>>
          /\ StopsWriting /\ pc' = "step" /\ UNCHANGED writeDone
       \/ /\ wr = "failed" \/ Stalled \/ (WroteAll /\ chunk = <<END>>)
          /\ StopsWriting /\ pc' = "query" /\ writeDone' = TRUE
    /\ UNCHANGED <<callVars, bodyVars, recv, head, serverVars, readVars>>

\* Mutant of Shortfall: what is missing is not missed.
NoShortfall == FALSE

\* Native::shortfall.
Shortfall == Promised # None /\ Remaining > 0

\* headers::parse_trailers.
ParseTrailers == trailers # "malformed"

\* Request::raw_trailers: what there is of them, or an error.
RawTrailers == {IF q = "error" THEN q ELSE trailers : q \in QueryString}

\* The platform says the body is over; over HTTP/2 its trailers are next.
\* Those that do not parse are taken for none.
EndOfBody ==
    /\ pc' = "done"
    /\ IF ~http2 THEN outcome' = IF Shortfall THEN "truncated" ELSE "end"
       ELSE \E t \in RawTrailers :
              outcome' = CASE t = "error" -> "error"
                           [] t = "good" /\ ParseTrailers -> "trailers"
                           [] OTHER -> "end"

ReadFails == pc' = "done" /\ outcome' = "error" /\ UNCHANGED want

\* query_data_available: nothing yet, what there is, or the end.
Query ==
    /\ pc = "query"
    /\ \/ closed = "reset" /\ ReadFails
       \/ closed = "end" /\ got = sent /\ EndOfBody /\ UNCHANGED want
       \/ /\ closed # "reset"
          /\ \E available \in 1..sent - got :
                LET n == IF available < MAX_READ THEN available ELSE MAX_READ
                IN want' = IF Promised # None /\ Remaining < n THEN Remaining ELSE n
          /\ pc' = "read" /\ UNCHANGED outcome
    /\ UNCHANGED <<callVars, bodyVars, writeVars, headVars, serverVars, got>>

\* read_data: a byte at least, since some were announced.  (Both bodies take an
\* empty read for the end; WinHTTP gives none after it announced data.)
Read ==
    /\ pc = "read"
    /\ \/ closed = "reset" /\ ReadFails /\ UNCHANGED got
       \/ /\ closed # "reset"
          /\ got' \in got + 1..got + want /\ want' = 0
          /\ pc' = "active" /\ UNCHANGED outcome
    /\ UNCHANGED <<callVars, bodyVars, writeVars, headVars, serverVars>>

\* The caller drops the request's future or the response.
Drop ==
    /\ pc \notin {"start", "done", "failed", "dropped"}
    /\ pc' = "dropped"
    /\ UNCHANGED <<callVars, bodyVars, writeVars, headVars, serverVars, readVars>>

----------------------------------------------------------------------------

Over == pc \in {"done", "failed", "dropped"}

ClientCode ==
    \/ Start \/ ChooseFraming \/ Pull \/ Wrote \/ Received
    \/ HeadPull \/ HeadWrote \/ HeadDone \/ Step \/ StepWrote

Environment ==
    ~Over /\ (Produce \/ ReceiveCompletes \/ ServerSends \/ ServerEnds \/ WriteCompletes)

Next ==
    \/ ClientCode \/ Connect \/ OpenRequest \/ Configure \/ SendCompletes
    \/ Poll \/ Query \/ Read \/ Drop \/ Environment

\* The task runs when it is woken and WinHTTP completes its writes; the caller's
\* body and the server may be silent for ever.
Fairness == WF_vars(ClientCode) /\ WF_vars(~Over /\ WriteCompletes)

Spec == Init /\ [][Next]_vars /\ Fairness

----------------------------------------------------------------------------
(* Properties.                                                             *)

\* The bytes of the request body the server got, and that none is missing
\* between them.
Delivered == {wire[i] : i \in DOMAIN wire} \ {END}
NoGap == \A i \in DOMAIN wire : wire[i] \in {i, END}

\* What the server gets is a request: its head declares the framing its body
\* has and no other, its end is marked at most once, after everything else and
\* only when the caller's body is over; over HTTP/1.1 the body is complete and
\* in order, and as long as was declared, before the response is waited for.
RequestFramed ==
    /\ wire # <<>> => declares \in {{hint}, {Chunked}, {}}
    /\ \A i \in DOMAIN wire :
        wire[i] = END => i = Len(wire) /\ ended /\ declares \cap Nat = {}
    /\ ~http2 =>
        /\ NoGap
        /\ recv # "none" => Delivered = 1..pulled /\ declares \in {{pulled}, {Chunked}}

\* What the caller is told of the response is true: a clean end is reported
\* only when all the server promised, or all it sent, was delivered, and no
\* trailers that could be read were left out; an end before the promised
\* length is reported as such.
ResponseTrue ==
    /\ got <= sent
    /\ outcome = "end" /\ MayHaveBody =>
        IF ~http2 /\ Cardinality(response.lengths) = 1 /\ response.lengths # {Unparsable}
        THEN response.lengths = {got}
        ELSE closed = "end" /\ got = sent /\ trailers # "good"
    /\ outcome = "trailers" => got = sent /\ trailers = "good"
    /\ outcome = "truncated" => closed = "end" /\ got \notin response.lengths

\* request returns once the head is there, whether the caller's body has more
\* to say or waits for the response itself.
HeadReturns == recv \in {"ok", "failed"} ~> (Over \/ pc \in {"active", "step", "stepwrite", "query", "read"})

\* "any request body not yet sent is carried into the body": while writes
\* succeed, the server gets the bytes of the request body without a gap.
CarriedOver == NoGap
=============================================================================
