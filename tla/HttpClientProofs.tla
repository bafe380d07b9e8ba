-------------------------- MODULE HttpClientProofs --------------------------
(***************************************************************************)
(* What the server gets of a request of the client is framed as its head   *)
(* says, and what the caller is told of the response is true: for any      *)
(* bodies, any sizes of the reads and writes, and any order in which the   *)
(* body, the writes, the receive and the server go on.                     *)
(***************************************************************************)
EXTENDS HttpClient, FiniteSetTheorems, SequenceTheorems, TLAPS

----------------------------------------------------------------------------
(* The invariant of the request.                                           *)

\* Where the task is before the head is sent, while it waits for a write, while
\* it reads the response, over HTTP/2 only, and after all.
Before == {"start", "connect", "frame", "open", "configure", "sending"}
Writing == {"write", "headwrite", "stepwrite"}
Reading == {"active", "step", "stepwrite", "query", "read"}
Http2Only == {"headpull", "headwrite", "headdone", "step", "stepwrite"}
Ends == {"done", "failed", "dropped"}

Types ==
    /\ http2 \in BOOLEAN
    /\ hint \in Nat \cup {None}
    /\ framing \in {"none", "Exact", "ManualChunked", "Automatic"}
    /\ pc \in Before \cup Writing \cup Reading \cup Http2Only \cup Ends \cup {"pull", "receive"}
    /\ offer \in [t : {"none", "data", "trailers", "error", "end"}, n : Nat]
    /\ pulled \in Nat
    /\ ended \in BOOLEAN
    /\ data \in Seq(Nat)
    /\ chunk \in Seq(Nat)
    /\ wire \in Seq(Nat)
    /\ wr \in {"none", "busy", "done", "failed"}
    /\ wrote \in Nat
    /\ recv \in {"none", "waiting", "ok", "failed"}
    /\ head \in {"none", "ok", "failed"}

\* The framing is chosen once, before anything is sent, and what the head
\* declares is what it says.
Unframed == pc \in {"start", "frame"} \/ (pc = "connect" /\ http2)

Declared ==
    /\ framing # "none" => declares = TotalLength(framing)
    /\ framing = "Exact" => hint \in Nat
    /\ framing = "Automatic" => http2
    /\ Unframed => framing = "none" /\ declares = {}
    /\ ~Unframed /\ pc \notin Ends => framing # "none"
    /\ wire # <<>> => framing # "none"

\* Nothing is written before the head is sent, there is a write only where the
\* task waits for it, and only HTTP/2 writes while it receives.
Stages ==
    /\ pc \in Before => wire = <<>> /\ pulled = 0 /\ ~ended /\ recv = "none" /\ head = "none"
    /\ pc \in Writing => wr # "none"
    /\ pc \notin Writing \cup Ends => wr = "none"
    /\ pc \in Http2Only => http2
    /\ pc \in {"pull", "write"} => ~http2 /\ recv = "none"
    /\ pc = "receive" => ~http2

\* The frame that is ready, and what is being written: bytes of the body, or
\* the mark of its end, behind which there is nothing.
Buffers ==
    /\ ended => offer = NoFrame
    /\ offer.t # "data" => offer.n = 0
    /\ offer.t = "data" => offer.n > 0
    /\ \A i \in DOMAIN data : data[i] # END
    /\ chunk # <<END>> => \A i \in DOMAIN chunk : chunk[i] # END
    /\ chunk = <<END>> => ended /\ data = <<>> /\ framing # "Exact"
    /\ wr = "none" => chunk = <<>> /\ data = <<>>
    /\ wr # "none" => chunk # <<>>
    /\ wr = "done" => wrote <= Len(chunk)

\* The mark that has been written is the last thing on the wire, and nothing
\* is being written behind it.
MarkWritten == wr = "done" /\ wrote = 1 /\ chunk = <<END>>

Marked ==
    /\ \A i \in DOMAIN wire :
        wire[i] = END => i = Len(wire) /\ ended /\ framing # "Exact" /\ (wr = "none" \/ MarkWritten)
    /\ MarkWritten => Len(wire) > 0 /\ wire[Len(wire)] = END

\* What was on the wire before the write that is in flight, or has just ended.
Base == Len(wire) - (IF wr = "done" THEN wrote ELSE 0)

\* HTTP/1.1: what is written, being written and left of the frame follow each
\* other and are all of the body so far; the response is waited for when all
\* of it is written.
Follows ==
    /\ Base \in Nat
    /\ chunk = <<END>> => Base = pulled
    /\ chunk # <<END>> =>
        /\ ~ended
        /\ pulled = Base + Len(chunk) + Len(data)
        /\ \A i \in DOMAIN chunk : chunk[i] = Base + i
        /\ \A i \in DOMAIN data : data[i] = Base + Len(chunk) + i

Complete == Delivered = 1..pulled /\ declares \in {{pulled}, {Chunked}}

InOrder ==
    /\ NoGap
    /\ pc = "pull" => Len(wire) = pulled /\ ~ended
    /\ pc = "write" => Follows
    /\ recv # "none" => wr = "none" /\ Complete

FrameInv == Types /\ Declared /\ Stages /\ Buffers /\ Marked /\ (~http2 => InOrder)

----------------------------------------------------------------------------
(* Parts of sequences.                                                     *)

LEMMA FirstPart ==
    ASSUME NEW d \in Seq(Nat), NEW m \in 0..Len(d)
    PROVE  /\ SubSeq(d, 1, m) \in Seq(Nat)
           /\ Len(SubSeq(d, 1, m)) = m
           /\ \A i \in 1..m : SubSeq(d, 1, m)[i] = d[i]
<1>1. \A i \in 1..m : d[i] \in Nat
  BY ElementOfSeq
<1> QED
  BY <1>1, SubSeqProperties

LEMMA LastPart ==
    ASSUME NEW d \in Seq(Nat), NEW m \in 0..Len(d)
    PROVE  /\ SubSeq(d, m + 1, Len(d)) \in Seq(Nat)
           /\ Len(SubSeq(d, m + 1, Len(d))) = Len(d) - m
           /\ \A i \in 1..Len(d) - m : SubSeq(d, m + 1, Len(d))[i] = d[m + i]
<1>1. \A i \in m + 1..Len(d) : d[i] \in Nat
  BY ElementOfSeq
<1>2. PICK l \in Nat : l = Len(d)
  BY LenProperties
<1>3. PICK r : r = SubSeq(d, m + 1, Len(d))
  OBVIOUS
<1>4. m + 1 \in Int
  OBVIOUS
<1>5. /\ r \in Seq(Nat)
      /\ Len(r) = IF m + 1 <= l THEN l - (m + 1) + 1 ELSE 0
      /\ \A i \in 1..l - (m + 1) + 1 : r[i] = d[(m + 1) + i - 1]
  BY <1>1, <1>2, <1>3, <1>4, SubSeqProperties
<1>6. Len(r) = l - m
  BY <1>2, <1>5
<1>7. \A i \in 1..l - m : r[i] = d[m + i]
  <2> SUFFICES ASSUME NEW i \in 1..l - m PROVE r[i] = d[m + i]
    OBVIOUS
  <2>1. i \in 1..l - (m + 1) + 1 /\ (m + 1) + i - 1 = m + i
    BY <1>2
  <2> QED
    BY <1>5, <2>1
<1> QED
  BY <1>2, <1>3, <1>5, <1>6, <1>7

LEMMA Joined ==
    ASSUME NEW s \in Seq(Nat), NEW d \in Seq(Nat)
    PROVE  /\ s \o d \in Seq(Nat)
           /\ Len(s \o d) = Len(s) + Len(d)
           /\ \A i \in 1..Len(s) : (s \o d)[i] = s[i]
           /\ \A i \in 1..Len(d) : (s \o d)[Len(s) + i] = d[i]
<1>1. Len(s) \in Nat /\ Len(d) \in Nat
  BY LenProperties
<1>2. /\ s \o d \in Seq(Nat)
      /\ Len(s \o d) = Len(s) + Len(d)
      /\ \A i \in 1..Len(s) + Len(d) : (s \o d)[i] = IF i <= Len(s) THEN s[i] ELSE d[i - Len(s)]
  BY ConcatProperties
<1>3. ASSUME NEW i \in 1..Len(d) PROVE (s \o d)[Len(s) + i] = d[i]
  <2>1. Len(s) + i \in 1..Len(s) + Len(d) /\ ~(Len(s) + i <= Len(s)) /\ Len(s) + i - Len(s) = i
    BY <1>1
  <2> QED
    BY <1>2, <2>1
<1> QED
  BY <1>1, <1>2, <1>3

\* The frame that was pulled: the next bytes, each with its number.
LEMMA FramePulled ==
    ASSUME Types
    PROVE  /\ FrameBytes \in Seq(Nat)
           /\ Len(FrameBytes) = offer.n
           /\ \A i \in 1..offer.n : FrameBytes[i] = pulled + i /\ FrameBytes[i] # END
<1>1. offer.n \in Nat /\ pulled \in Nat
  BY DEF Types
<1>2. PICK n \in Nat : n = offer.n
  BY <1>1
<1>3. PICK p \in Nat : p = pulled
  BY <1>1
<1>4. FrameBytes = [i \in 1..n |-> p + i]
  BY <1>2, <1>3 DEF FrameBytes
<1>5. [i \in 1..n |-> p + i] \in Seq(Nat) /\ Len([i \in 1..n |-> p + i]) = n
  BY SMT
<1> QED
  BY <1>2, <1>3, <1>4, <1>5 DEF END

\* A write takes the first part of what is left.
LEMMA WriteStarts ==
    ASSUME NEW d \in Seq(Nat), d # <<>>, StartsWrite(d)
    PROVE  /\ chunk' \in Seq(Nat) /\ data' \in Seq(Nat)
           /\ chunk' # <<>> /\ Len(chunk') + Len(data') = Len(d)
           /\ \A i \in 1..Len(chunk') : i \in 1..Len(d) /\ chunk'[i] = d[i]
           /\ \A i \in 1..Len(data') : Len(chunk') + i \in 1..Len(d) /\ data'[i] = d[Len(chunk') + i]
           /\ wr' = "busy" /\ UNCHANGED <<wrote, broken, wire>>
<1>1. Len(d) \in Nat \ {0}
  BY EmptySeq
<1>2. PICK m : m = IF Len(d) < MAX_WRITE THEN Len(d) ELSE MAX_WRITE
  OBVIOUS
<1>9. m \in 1..Len(d) /\ MAX_WRITE \in Nat \ {0}
  BY <1>1, <1>2, ClientAssumption
<1>10. chunk' = SubSeq(d, 1, m) /\ data' = SubSeq(d, m + 1, Len(d))
  BY <1>2 DEF StartsWrite
<1>3. chunk' \in Seq(Nat) /\ Len(chunk') = m /\ \A i \in 1..m : chunk'[i] = d[i]
  BY <1>1, <1>9, <1>10, FirstPart
<1>4. data' \in Seq(Nat) /\ Len(data') = Len(d) - m /\ \A i \in 1..Len(d) - m : data'[i] = d[m + i]
  BY <1>1, <1>9, <1>10, LastPart
<1>5. chunk' # <<>>
  BY <1>3, <1>9, EmptySeq
<1>6. \A i \in 1..m : i \in 1..Len(d)
  BY <1>1, <1>9
<1>7. \A i \in 1..Len(d) - m : m + i \in 1..Len(d)
  BY <1>1, <1>9
<1>8. m + (Len(d) - m) = Len(d)
  BY <1>1, <1>9
<1> QED
  BY <1>3, <1>4, <1>5, <1>6, <1>7, <1>8 DEF StartsWrite

----------------------------------------------------------------------------
(* What a step leaves alone.                                               *)

LEMMA FrameInvInit == Init => FrameInv
<1> SUFFICES ASSUME Init PROVE FrameInv
  OBVIOUS
<1> USE DEF Init, NoFrame
<1>0. hint \in Nat \cup {None}
  <2>1. MaxBody \in Nat
    BY ClientAssumption
  <2> QED
    BY <2>1 DEF None
<1>1. Types
  BY <1>0, EmptySeq DEF Types, Before
<1>2. Declared
  BY DEF Declared, Unframed, Ends
<1>3. Stages
  BY DEF Stages, Before, Writing, Ends, Http2Only
<1>4. DOMAIN wire = {} /\ DOMAIN data = {} /\ DOMAIN chunk = {} /\ chunk # <<END>>
  BY SMT
<1>5. Buffers /\ Marked
  BY <1>4 DEF Buffers, Marked, MarkWritten
<1>6. InOrder
  BY <1>4 DEF InOrder, NoGap
<1> QED
  BY <1>1, <1>2, <1>3, <1>5, <1>6 DEF FrameInv

LEMMA KeepsMarked ==
    ASSUME Marked, UNCHANGED <<wire, chunk, wr, wrote, framing>>, ended => ended'
    PROVE  Marked'
BY DEF Marked, MarkWritten

LEMMA KeepsBuffers ==
    ASSUME Buffers, UNCHANGED <<offer, ended, data, chunk, wr, wrote, framing>>
    PROVE  Buffers'
BY DEF Buffers, NoFrame

LEMMA KeepsOrder ==
    ASSUME InOrder, UNCHANGED <<wire, data, chunk, wr, wrote, pulled, ended, declares>>,
           recv' # "none" => recv # "none",
           pc' = "pull" => pc = "pull", pc' = "write" => pc = "write"
    PROVE  InOrder'
<1>1. NoGap' /\ (Follows => Follows') /\ (Complete => Complete')
  BY DEF InOrder, NoGap, Follows, Base, Complete, Delivered
<1> QED
  BY <1>1 DEF InOrder

\* Steps that touch neither the body nor the wire.
LEMMA Aside ==
    ASSUME FrameInv,
           UNCHANGED <<http2, hint, framing, declares, bodyVars, writeVars>>,
           Types', Stages', Declared',
           recv' # "none" => recv # "none" \/ http2,
           pc' = "pull" => pc = "pull", pc' = "write" => pc = "write"
    PROVE  FrameInv'
<1>1. Marked' /\ Buffers'
  BY KeepsMarked, KeepsBuffers DEF FrameInv, bodyVars, writeVars
<1>2. ~http2 => InOrder'
  BY KeepsOrder DEF FrameInv, bodyVars, writeVars
<1> QED
  BY <1>1, <1>2 DEF FrameInv

\* Before the body is over, no end is marked.
LEMMA Unmarked ==
    ASSUME Marked, ~ended
    PROVE  \A i \in DOMAIN wire : wire[i] # END
BY DEF Marked

----------------------------------------------------------------------------
(* The steps before the body, and those of the response.                   *)

\* A step that moves the task and leaves the rest of the request alone.
LEMMA Moves ==
    ASSUME FrameInv,
           UNCHANGED <<http2, hint, framing, declares, bodyVars, writeVars, recv>>,
           head' = head \/ (pc \notin Before /\ pc' \notin Before /\ head' \in {"ok", "failed"}),
           \/ pc' \in Ends
           \/ pc \in {"connect", "open", "configure"} /\ pc' \in {"frame", "open", "configure", "sending"}
              /\ (pc' = "frame" <=> pc = "connect" /\ http2)
           \/ pc \notin Before \cup Writing \cup Ends /\ pc' \in {"active", "query", "read"}
           \/ pc \notin Before \cup Writing \cup Ends /\ pc' = "step" /\ http2
    PROVE  FrameInv'
<1> USE DEF bodyVars, writeVars
<1>1. Types'
  BY DEF FrameInv, Types, Before, Writing, Reading, Http2Only, Ends
<1>2. Stages'
  BY DEF FrameInv, Types, Stages, Before, Writing, Reading, Http2Only, Ends
<1>3. Declared'
  BY DEF FrameInv, Types, Declared, Unframed, TotalLength, Before, Writing, Reading, Http2Only, Ends
<1> QED
  BY <1>1, <1>2, <1>3, Aside DEF Ends

LEMMA MovesOn ==
    ASSUME FrameInv,
           Connect \/ OpenRequest \/ Configure \/ Received \/ HeadDone \/ Poll \/ Query \/ Read \/ Drop
    PROVE  FrameInv'
<1>1. CASE Connect
  BY <1>1, Moves DEF Connect, AfterConnect, callVars, headVars, Ends, FrameInv, Types
<1>2. CASE OpenRequest \/ Configure
  BY <1>2, Moves DEF OpenRequest, Configure, callVars, headVars, Ends
<1>3. CASE Received
  BY <1>3, Moves DEF Received, Responds, Fails, callVars, headVars, Ends, Before, Writing
<1>4. CASE HeadDone
  BY <1>4, Moves DEF HeadDone, HeadPolled, Responds, Fails, callVars, Ends, Before, Writing, FrameInv, Types
<1>5. CASE Poll
  BY <1>5, Moves DEF Poll, callVars, headVars, Ends, Before, Writing
<1>6. CASE Query
  BY <1>6, Moves DEF Query, ReadFails, EndOfBody, callVars, headVars, Ends, Before, Writing
<1>7. CASE Read
  BY <1>7, Moves DEF Read, ReadFails, callVars, headVars, Ends, Before, Writing
<1>8. CASE Drop
  BY <1>8, Moves DEF Drop, callVars, headVars, Ends
<1> QED
  BY <1>1, <1>2, <1>3, <1>4, <1>5, <1>6, <1>7, <1>8

LEMMA StartFrames ==
    ASSUME FrameInv, Start
    PROVE  FrameInv'
<1> USE DEF FrameInv, Start, bodyVars, writeVars, headVars
<1>1. Types'
  BY DEF Types, AfterStart, Before, Ends
<1>2. Stages'
  BY DEF Types, Stages, AfterStart, Before, Writing, Http2Only, Ends
<1>3. Declared'
  BY DEF Types, Declared, Unframed, AfterStart, Encode, Stages, Before, Ends
<1>4. Marked' /\ Buffers'
  BY KeepsMarked, KeepsBuffers
<1>5. ~http2 => InOrder'
  <2>1. recv' = "none" /\ pc' \notin {"pull", "write"}
    BY DEF Stages, Before, AfterStart
  <2> QED
    BY <2>1 DEF InOrder, NoGap
<1> QED
  BY <1>1, <1>2, <1>3, <1>4, <1>5

LEMMA FrameChosen ==
    ASSUME FrameInv, ChooseFraming
    PROVE  \/ pc' = "failed" /\ UNCHANGED <<framing, declares>>
           \/ hint \in Nat /\ Frames("Exact")
           \/ Frames("ManualChunked")
           \/ http2 /\ Frames("Automatic")
<1> USE DEF FrameInv
<1>1. U32MAX \in Nat
  BY ClientAssumption
<1>2. hint > U32MAX \/ hint \in 0..U32MAX \/ hint = None
  BY <1>1 DEF Types, None
<1>3. hint = None => ~(hint > U32MAX) /\ hint \notin 0..U32MAX
  BY <1>1 DEF None
<1>4. CASE hint > U32MAX
  <2>1. hint \notin 0..U32MAX /\ hint # None
    BY <1>1, <1>3, <1>4 DEF Types
  <2> QED
    BY <1>4, <2>1 DEF ChooseFraming, Fails
<1>5. CASE hint \in 0..U32MAX
  <2>1. ~(hint > U32MAX) /\ hint # None /\ hint \in Nat
    BY <1>1, <1>3, <1>5
  <2> QED
    BY <1>5, <2>1 DEF ChooseFraming
<1>6. CASE hint = None
  BY <1>3, <1>6 DEF ChooseFraming, Fails, Types
<1> QED
  BY <1>2, <1>4, <1>5, <1>6

LEMMA ChooseFrames ==
    ASSUME FrameInv, ChooseFraming
    PROVE  FrameInv'
<1> USE DEF FrameInv, bodyVars, writeVars, headVars
<1>1. /\ pc = "frame" /\ UNCHANGED <<http2, hint, bodyVars, writeVars, headVars>>
      /\ framing = "none" /\ declares = {}
  BY DEF ChooseFraming, Declared, Unframed
<1>2. \/ pc' = "failed" /\ UNCHANGED <<framing, declares>>
      \/ hint \in Nat /\ Frames("Exact")
      \/ Frames("ManualChunked")
      \/ http2 /\ Frames("Automatic")
  BY FrameChosen
<1>3. Types'
  BY <1>1, <1>2 DEF Types, Frames, AfterFrame, Before, Ends
<1>4. Stages'
  BY <1>1, <1>2 DEF Types, Stages, Frames, AfterFrame, Before, Writing, Http2Only, Ends
<1>5. wire = <<>> /\ chunk = <<>> /\ wr = "none" /\ data = <<>>
  BY <1>1 DEF Stages, Buffers, Before, Writing, Ends
<1>6. Declared'
  BY <1>1, <1>2, <1>5 DEF Types, Declared, Unframed, Frames, AfterFrame, TotalLength, Ends
<1>7. DOMAIN wire' = {} /\ DOMAIN data' = {} /\ DOMAIN chunk' = {} /\ chunk' # <<END>>
  BY <1>1, <1>5, SMT
<1>8. Marked' /\ Buffers'
  BY <1>1, <1>5, <1>7 DEF Marked, MarkWritten, Buffers
<1>9. InOrder'
  <2>1. recv' = "none" /\ pc' \notin {"pull", "write"}
    BY <1>1, <1>2 DEF Stages, Before, Frames, AfterFrame
  <2> QED
    BY <1>7, <2>1 DEF InOrder, NoGap
<1> QED
  BY <1>3, <1>4, <1>6, <1>8, <1>9

LEMMA SendFrames ==
    ASSUME FrameInv, SendCompletes
    PROVE  FrameInv'
<1> USE DEF FrameInv, SendCompletes, Fails, callVars, bodyVars, writeVars
<1>1. Types'
  BY DEF Types, Writing, Before, Http2Only, Ends
<1>2. Stages'
  BY DEF Types, Stages, Before, Writing, Http2Only, Ends
<1>3. Declared'
  BY DEF Types, Declared, Unframed, TotalLength, Ends
<1>4. Marked' /\ Buffers'
  BY KeepsMarked, KeepsBuffers
<1>5. ~http2 => InOrder'
  <2> SUFFICES ASSUME ~http2 PROVE InOrder'
    OBVIOUS
  <2>1. wire = <<>> /\ pulled = 0 /\ ~ended /\ recv' = "none" /\ pc' # "write"
    BY DEF Stages, Before
  <2>2. Len(wire') = 0 /\ DOMAIN wire' = {}
    BY <2>1, SMT
  <2> QED
    BY <2>1, <2>2 DEF InOrder, NoGap
<1> QED
  BY <1>1, <1>2, <1>3, <1>4, <1>5

\* The receive and the server.
LEMMA ReceiveFrames ==
    ASSUME FrameInv, ReceiveCompletes \/ ServerSends \/ ServerEnds
    PROVE  FrameInv'
<1>1. /\ UNCHANGED <<http2, hint, framing, declares, pc, bodyVars, writeVars, head>>
      /\ recv' = recv \/ (recv = "waiting" /\ recv' \in {"ok", "failed"})
  BY DEF ReceiveCompletes, ServerSends, ServerEnds, callVars, headVars
<1>2. Types'
  BY <1>1 DEF FrameInv, Types, bodyVars, writeVars
<1>3. Stages'
  BY <1>1 DEF FrameInv, Stages, bodyVars, writeVars
<1>4. Declared'
  BY <1>1 DEF FrameInv, Declared, Unframed, TotalLength, bodyVars, writeVars
<1> QED
  BY <1>1, <1>2, <1>3, <1>4, Aside

LEMMA ProduceFrames ==
    ASSUME FrameInv, Produce
    PROVE  FrameInv'
<1> USE DEF FrameInv, Produce, callVars, writeVars, headVars
<1>1. offer' \in [t : {"none", "data", "trailers", "error", "end"}, n : Nat]
      /\ (offer'.t # "data" => offer'.n = 0) /\ (offer'.t = "data" => offer'.n > 0) /\ ~ended
  BY ClientAssumption DEF Types
<1>2. Types'
  BY <1>1 DEF Types
<1>3. Stages' /\ Declared'
  BY DEF Stages, Declared, Unframed, TotalLength
<1>4. Buffers'
  BY <1>1 DEF Buffers, NoFrame
<1>5. Marked' /\ (~http2 => InOrder')
  BY KeepsMarked, KeepsOrder
<1> QED
  BY <1>2, <1>3, <1>4, <1>5

----------------------------------------------------------------------------
(* A write ends.                                                           *)

LEMMA WriteFrames ==
    ASSUME FrameInv, ~Over, WriteCompletes
    PROVE  FrameInv'
<1> USE DEF FrameInv
<1>1. /\ wr = "busy" /\ pc \in Writing /\ chunk # <<>>
      /\ UNCHANGED <<http2, hint, framing, declares, pc, bodyVars, data, chunk, recv, head>>
  BY DEF WriteCompletes, Over, Stages, Buffers, Ends, callVars, headVars
<1>2. /\ chunk \in Seq(Nat) /\ wire \in Seq(Nat) /\ data \in Seq(Nat)
      /\ Len(chunk) \in Nat /\ Len(wire) \in Nat
      /\ DOMAIN wire = 1..Len(wire) /\ DOMAIN chunk = 1..Len(chunk)
  BY LenProperties DEF Types
<1>3. \A i \in DOMAIN wire : wire[i] # END
  BY <1>1 DEF Marked, MarkWritten
<1>4. ~http2 => pc = "write" /\ recv = "none" /\ Follows /\ NoGap /\ Base = Len(wire)
  BY <1>1, <1>2 DEF Stages, Writing, Http2Only, InOrder, Base
<1>5. framing # "none"
  BY <1>1 DEF Declared, Unframed, Ends, Writing
<1>6. CASE wr' = "failed" /\ UNCHANGED <<wrote, wire>>
  <2>1. Types'
    BY <1>1, <1>2, <1>6 DEF Types, bodyVars
  <2>2. Stages' /\ Declared'
    BY <1>1, <1>6 DEF Stages, Declared, Unframed, TotalLength, bodyVars, Writing, Ends
  <2>3. Buffers'
    BY <1>1, <1>6 DEF Buffers, NoFrame, bodyVars
  <2>4. Marked'
    BY <1>3, <1>6 DEF Marked, MarkWritten
  <2>5. ASSUME ~http2 PROVE InOrder'
    <3>1. Base' = Base
      BY <1>1, <1>6 DEF Base
    <3>2. Follows'
      BY <1>1, <1>4, <2>5, <3>1 DEF Follows, bodyVars
    <3> QED
      BY <1>1, <1>4, <1>6, <2>5, <3>2 DEF InOrder, NoGap
  <2> QED
    BY <1>1, <2>1, <2>2, <2>3, <2>4, <2>5
<1>7. CASE wr' = "done" /\ wrote' \in 0..Len(chunk) /\ wire' = wire \o SubSeq(chunk, 1, wrote')
  <2>1. PICK n \in 0..Len(chunk) : n = wrote'
    BY <1>7
  <2>2. PICK c : c = SubSeq(chunk, 1, n)
    OBVIOUS
  <2>3. c \in Seq(Nat) /\ Len(c) = n /\ \A i \in 1..n : c[i] = chunk[i]
    BY <1>2, <2>2, FirstPart
  <2>4. PICK w \in Seq(Nat) : w = wire
    BY <1>2
  <2>5. PICK l \in Nat : l = Len(wire)
    BY <1>2
  <2>6. wire' = w \o c
    BY <1>7, <2>1, <2>2, <2>4
  <2>7. /\ wire' \in Seq(Nat) /\ Len(wire') = l + n
        /\ \A i \in 1..l : wire'[i] = wire[i]
        /\ \A i \in 1..n : wire'[l + i] = chunk[i]
    <3>1. /\ w \o c \in Seq(Nat) /\ Len(w \o c) = Len(w) + Len(c)
          /\ \A i \in 1..Len(w) : (w \o c)[i] = w[i]
          /\ \A i \in 1..Len(c) : (w \o c)[Len(w) + i] = c[i]
      BY <2>3, Joined
    <3>2. Len(w) = l /\ Len(c) = n
      BY <2>3, <2>4, <2>5
    <3>3. PICK v : v = w \o c
      OBVIOUS
    <3>4. /\ v \in Seq(Nat) /\ Len(v) = l + n
          /\ \A i \in 1..l : v[i] = w[i]
          /\ \A i \in 1..n : v[l + i] = c[i]
      BY ONLY <3>1, <3>2, <3>3
    <3>5. wire' = v
      BY <2>6, <3>3
    <3> QED
      BY ONLY <2>3, <2>4, <3>4, <3>5
  <2>8. DOMAIN wire' = 1..l + n
    BY <2>7, LenProperties
  <2>9. \A i \in DOMAIN wire' : i \in 1..l \/ \E j \in 1..n : i = l + j
    <3> SUFFICES ASSUME NEW i \in 1..l + n, ~(i \in 1..l) PROVE \E j \in 1..n : i = l + j
      BY <2>8
    <3>0. n \in Nat
      BY <1>2, <2>1
    <3>1. i - l \in 1..n /\ i = l + (i - l)
      BY <3>0
    <3> QED
      BY <3>1
  <2>10. Types'
    BY <1>1, <1>2, <1>7, <2>1, <2>7 DEF Types, bodyVars
  <2>11. Stages' /\ Declared'
    BY <1>1, <1>5, <1>7 DEF Stages, Declared, Unframed, TotalLength, bodyVars, Writing, Ends, Before
  <2>12. Buffers'
    BY <1>1, <1>7, <2>1 DEF Buffers, NoFrame, bodyVars
  <2>13. Marked'
    <3>1. \A i \in 1..l : wire'[i] # END
      BY <1>2, <1>3, <2>5, <2>7
    <3>2. chunk = <<END>> => Len(chunk) = 1 /\ chunk[1] = END
      BY SMT
    <3>3. ASSUME NEW j \in 1..n, wire'[l + j] = END
          PROVE  chunk = <<END>> /\ j = 1 /\ n = 1 /\ ended /\ framing # "Exact"
      <4>0. j \in DOMAIN chunk
        <5>1. Len(chunk) \in Nat /\ DOMAIN chunk = 1..Len(chunk)
          BY <1>2
        <5> QED
          BY <5>1
      <4>1. j \in DOMAIN chunk /\ chunk[j] = END
        BY <2>7, <3>3, <4>0
      <4>2. chunk = <<END>> /\ ended /\ framing # "Exact"
        BY <4>1 DEF Buffers
      <4>3. n \in 0..1
        BY <3>2, <4>2
      <4>4. j = 1 /\ n = 1
        BY <4>3
      <4> QED
        BY <4>2, <4>4
    <3>4. ASSUME NEW i \in DOMAIN wire', wire'[i] = END
          PROVE  i = Len(wire') /\ ended' /\ framing' # "Exact" /\ MarkWritten'
      BY <1>1, <1>7, <2>1, <2>7, <2>9, <3>1, <3>3, <3>4 DEF MarkWritten, bodyVars
    <3>5. MarkWritten' => Len(wire') > 0 /\ wire'[Len(wire')] = END
      BY <1>1, <2>1, <2>7, <3>2 DEF MarkWritten
    <3> QED
      BY <3>4, <3>5 DEF Marked
  <2>14. ASSUME ~http2 PROVE InOrder'
    <3>1. Base' = Base /\ Base = l
      BY <1>4, <1>7, <2>1, <2>5, <2>7, <2>14 DEF Base
    <3>2. Follows'
      BY <1>1, <1>4, <2>14, <3>1 DEF Follows, bodyVars
    <3>3. NoGap'
      <4>1. \A i \in 1..l : wire'[i] \in {i, END}
        BY <1>2, <1>4, <2>5, <2>7, <2>14 DEF NoGap
      <4>2. ASSUME NEW j \in 1..n PROVE wire'[l + j] \in {l + j, END}
        <5>1. chunk = <<END>> => j = 1 /\ chunk[j] = END
          <6>1. chunk = <<END>> => Len(chunk) = 1 /\ chunk[1] = END
            BY SMT
          <6> QED
            BY <2>1, <6>1
        <5>2. j \in DOMAIN chunk
          BY <1>2, <2>1
        <5>3. chunk # <<END>> => chunk[j] = l + j
          BY <1>4, <2>14, <3>1, <5>2 DEF Follows
        <5> QED
          BY <2>7, <5>1, <5>3
      <4> QED
        BY <2>9, <4>1, <4>2 DEF NoGap
    <3> QED
      BY <1>1, <1>4, <2>14, <3>2, <3>3 DEF InOrder
  <2> QED
    BY <1>1, <2>10, <2>11, <2>12, <2>13, <2>14
<1>8. chunk = <<END>> => 1 \in 0..Len(chunk)
  BY SMT
<1> QED
  BY <1>6, <1>7, <1>8 DEF WriteCompletes

----------------------------------------------------------------------------
(* What the loops do with a frame and with a write that has ended, whoever *)
(* runs them.                                                              *)

SeqTypes == data \in Seq(Nat) /\ chunk \in Seq(Nat) /\ wire \in Seq(Nat)

LEMMA FrameReady ==
    ASSUME FrameInv, offer # NoFrame, Polled
    PROVE  /\ offer.t \in {"data", "trailers", "error", "end"} /\ ~ended
           /\ \A i \in DOMAIN wire : wire[i] # END
           /\ pulled' = pulled + offer.n /\ pulled' \in Nat
           /\ offer' = NoFrame /\ ended' \in BOOLEAN
           /\ ended' => offer.t \in {"end", "error"}
           /\ offer.t = "end" => ended'
           /\ offer.t # "data" => pulled' = pulled
<1>1. ~ended
  BY DEF FrameInv, Buffers
<1>2. \A i \in DOMAIN wire : wire[i] # END
  BY <1>1, Unmarked DEF FrameInv
<1>3. offer.t # "none"
  BY DEF FrameInv, Types, Buffers, NoFrame
<1>4. offer.n \in Nat /\ pulled \in Nat /\ (offer.t # "data" => offer.n = 0)
  BY DEF FrameInv, Types, Buffers
<1>5. offer.t \in {"data", "trailers", "error", "end"}
  BY <1>3 DEF FrameInv, Types
<1>6. pulled' = pulled + offer.n /\ pulled' \in Nat /\ (offer.t # "data" => pulled' = pulled)
  BY <1>4 DEF Polled
<1>7. /\ offer' = NoFrame /\ ended' \in BOOLEAN
      /\ ended' => offer.t \in {"end", "error"}
      /\ offer.t = "end" => ended'
  BY <1>1 DEF Polled
<1> QED
  BY <1>1, <1>2, <1>5, <1>6, <1>7

\* Nothing but bytes of the body is put into the buffer when a frame is.
LEMMA BytesBuffered ==
    ASSUME NEW d \in Seq(Nat), d # <<>>, \A i \in DOMAIN d : d[i] # END, StartsWrite(d),
           wire \in Seq(Nat)
    PROVE  /\ SeqTypes'
           /\ chunk' # <<END>> /\ \A i \in DOMAIN chunk' : chunk'[i] # END
           /\ \A i \in DOMAIN data' : data'[i] # END
           /\ chunk' # <<>> /\ wr' = "busy" /\ UNCHANGED <<wire, wrote>>
<1>1. /\ chunk' \in Seq(Nat) /\ data' \in Seq(Nat)
      /\ chunk' # <<>> /\ wr' = "busy" /\ UNCHANGED <<wire, wrote>>
      /\ \A i \in 1..Len(chunk') : i \in 1..Len(d) /\ chunk'[i] = d[i]
      /\ \A i \in 1..Len(data') : Len(chunk') + i \in 1..Len(d) /\ data'[i] = d[Len(chunk') + i]
  BY WriteStarts
<1>2. DOMAIN chunk' = 1..Len(chunk') /\ DOMAIN data' = 1..Len(data') /\ DOMAIN d = 1..Len(d)
  BY <1>1, LenProperties
<1>3. \A i \in DOMAIN chunk' : chunk'[i] # END
  BY <1>1, <1>2
<1>4. \A i \in DOMAIN data' : data'[i] # END
  BY <1>1, <1>2
<1>5. chunk' # <<END>>
  <2>1. 1 \in DOMAIN <<END>> /\ <<END>>[1] = END
    BY SMT
  <2> QED
    BY <1>3, <2>1
<1> QED
  BY <1>1, <1>3, <1>4, <1>5 DEF SeqTypes

LEMMA PullsData ==
    ASSUME FrameInv, offer # NoFrame, offer.t = "data", Polled, StartsWrite(FrameBytes),
           UNCHANGED framing
    PROVE  /\ SeqTypes' /\ Buffers' /\ Marked' /\ ~ended'
           /\ wr' = "busy" /\ UNCHANGED <<wire, wrote>> /\ chunk' # <<END>>
           /\ Len(chunk') \in Nat /\ Len(data') \in Nat
           /\ pulled' = pulled + Len(chunk') + Len(data')
           /\ \A i \in DOMAIN chunk' : chunk'[i] = pulled + i
           /\ \A i \in DOMAIN data' : data'[i] = pulled + Len(chunk') + i
<1>1. /\ ~ended /\ ~ended' /\ offer' = NoFrame /\ \A i \in DOMAIN wire : wire[i] # END
      /\ pulled' = pulled + offer.n
  BY FrameReady
<1>2. PICK d : d = FrameBytes
  OBVIOUS
<1>3. d \in Seq(Nat) /\ Len(d) = offer.n /\ \A i \in 1..offer.n : d[i] = pulled + i /\ d[i] # END
  BY <1>2, FramePulled DEF FrameInv
<1>4. offer.n \in Nat /\ offer.n > 0 /\ pulled \in Nat /\ wire \in Seq(Nat)
  BY DEF FrameInv, Types, Buffers
<1>5. d # <<>> /\ DOMAIN d = 1..offer.n
  BY <1>3, <1>4, EmptySeq, LenProperties
<1>6. /\ SeqTypes' /\ chunk' # <<END>> /\ chunk' # <<>> /\ wr' = "busy" /\ UNCHANGED <<wire, wrote>>
      /\ \A i \in DOMAIN chunk' : chunk'[i] # END
      /\ \A i \in DOMAIN data' : data'[i] # END
  BY <1>2, <1>3, <1>4, <1>5, BytesBuffered
<1>7. /\ Len(chunk') + Len(data') = offer.n
      /\ \A i \in 1..Len(chunk') : i \in 1..offer.n /\ chunk'[i] = d[i]
      /\ \A i \in 1..Len(data') : Len(chunk') + i \in 1..offer.n /\ data'[i] = d[Len(chunk') + i]
  BY <1>2, <1>3, <1>5, WriteStarts
<1>8. /\ DOMAIN chunk' = 1..Len(chunk') /\ DOMAIN data' = 1..Len(data')
      /\ Len(chunk') \in Nat /\ Len(data') \in Nat
  BY <1>6, LenProperties DEF SeqTypes
<1>9. Buffers'
  BY <1>1, <1>6 DEF Buffers, NoFrame
<1>10. Marked'
  BY <1>1, <1>6 DEF Marked, MarkWritten
<1>11. pulled' = pulled + Len(chunk') + Len(data')
  BY <1>1, <1>4, <1>7, <1>8
<1>12. \A i \in DOMAIN chunk' : chunk'[i] = pulled + i
  BY <1>3, <1>7, <1>8
<1>13. ASSUME NEW i \in DOMAIN data' PROVE data'[i] = pulled + Len(chunk') + i
  <2>0. i \in 1..Len(data') /\ i \in Nat
    BY <1>8
  <2>2. Len(chunk') + i \in 1..offer.n /\ data'[i] = d[Len(chunk') + i]
    BY <1>7, <2>0
  <2>1. data'[i] = pulled + (Len(chunk') + i) /\ i \in Nat
    BY <1>3, <2>0, <2>2
  <2> QED
    BY <1>4, <1>8, <2>1
<1> QED
  BY <1>1, <1>6, <1>8, <1>9, <1>10, <1>11, <1>12, <1>13

LEMMA PullsEnd ==
    ASSUME FrameInv, offer # NoFrame, offer.t = "end", Polled, NeedsEnd, StartsEnd,
           UNCHANGED framing
    PROVE  /\ SeqTypes' /\ Buffers' /\ Marked' /\ ended' /\ pulled' = pulled
           /\ wr' = "busy" /\ UNCHANGED <<wire, wrote>> /\ chunk' = <<END>>
<1>1. /\ offer' = NoFrame /\ ended' /\ pulled' = pulled
      /\ \A i \in DOMAIN wire : wire[i] # END
  BY FrameReady
<1>2. chunk' = <<END>> /\ data' = <<>> /\ wr' = "busy" /\ UNCHANGED <<wrote, wire>>
  BY DEF StartsEnd
<1>3. SeqTypes'
  <2>1. <<END>> \in Seq(Nat) /\ <<>> \in Seq(Nat)
    BY SMT DEF END
  <2> QED
    BY <1>2, <2>1 DEF FrameInv, Types, SeqTypes
<1>4. Buffers'
  <2>1. DOMAIN data' = {} /\ chunk' # <<>>
    BY <1>2, SMT
  <2> QED
    BY <1>1, <1>2, <2>1 DEF Buffers, NoFrame, NeedsEnd
<1>5. Marked'
  BY <1>1, <1>2 DEF Marked, MarkWritten
<1> QED
  BY <1>1, <1>2, <1>3, <1>4, <1>5

\* A frame that is not written.
LEMMA PullsNothing ==
    ASSUME FrameInv, offer # NoFrame, Polled, UNCHANGED <<writeVars, framing>>
    PROVE  SeqTypes' /\ Buffers' /\ Marked'
<1> USE DEF writeVars
<1>1. offer' = NoFrame /\ ~ended
  BY FrameReady
<1>2. Buffers'
  BY <1>1 DEF FrameInv, Buffers, NoFrame
<1>3. Marked'
  BY <1>1, KeepsMarked DEF FrameInv
<1> QED
  BY <1>2, <1>3 DEF FrameInv, Types, SeqTypes

\* Nothing more is written of the frame.
LEMMA Stopped ==
    ASSUME FrameInv, StopsWriting, UNCHANGED framing,
           UNCHANGED <<offer, ended>> \/ (offer # NoFrame /\ Polled)
    PROVE  /\ SeqTypes' /\ Buffers' /\ Marked'
           /\ wr' = "none" /\ UNCHANGED <<wire, wrote>>
<1>1. chunk' = <<>> /\ data' = <<>> /\ wr' = "none" /\ UNCHANGED <<wrote, wire>>
  BY DEF StopsWriting
<1>2. SeqTypes'
  BY <1>1, EmptySeq DEF FrameInv, Types, SeqTypes
<1>3. DOMAIN data' = {} /\ DOMAIN chunk' = {} /\ chunk' # <<END>>
  BY <1>1, SMT
<1>4. (ended => ended') /\ (ended' => offer' = NoFrame)
      /\ (offer'.t # "data" => offer'.n = 0) /\ (offer'.t = "data" => offer'.n > 0)
  BY FrameReady DEF FrameInv, Buffers, NoFrame
<1>5. Buffers'
  BY <1>1, <1>3, <1>4 DEF Buffers
<1>6. Marked'
  BY <1>1, <1>4 DEF FrameInv, Marked, MarkWritten
<1> QED
  BY <1>1, <1>2, <1>5, <1>6

\* The rest of a short write: never of the mark.
LEMMA RestWritten ==
    ASSUME FrameInv, WritesRest, UNCHANGED <<offer, ended, framing>>
    PROVE  /\ SeqTypes' /\ Buffers' /\ Marked'
           /\ wr' = "busy" /\ UNCHANGED <<wire, data, wrote>>
           /\ chunk # <<END>> /\ chunk' # <<END>>
           /\ Len(chunk') \in Nat /\ Len(chunk') = Len(chunk) - wrote
           /\ \A i \in DOMAIN chunk' : wrote + i \in DOMAIN chunk /\ chunk'[i] = chunk[wrote + i]
<1>1. /\ chunk \in Seq(Nat) /\ Len(chunk) \in Nat /\ DOMAIN chunk = 1..Len(chunk)
      /\ wrote \in Nat
  BY LenProperties DEF FrameInv, Types
<1>2. /\ wr = "done" /\ wr' = "busy" /\ UNCHANGED <<wire, data, wrote>>
      /\ wrote \in 1..Len(chunk) - 1
      /\ chunk' = SubSeq(chunk, wrote + 1, Len(chunk))
  BY DEF WritesRest
<1>3. Len(<<END>>) = 1
  BY SMT
<1>4. chunk # <<END>>
  BY <1>1, <1>2, <1>3
<1>5. PICK n \in 0..Len(chunk) : n = wrote
  BY <1>1, <1>2
<1>6. PICK c \in Seq(Nat) : c = chunk
  BY <1>1
<1>7. /\ chunk' \in Seq(Nat) /\ Len(chunk') = Len(chunk) - n
      /\ \A i \in 1..Len(chunk) - n : chunk'[i] = chunk[n + i]
  BY <1>2, <1>5, <1>6, LastPart
<1>8. DOMAIN chunk' = 1..Len(chunk) - n /\ Len(chunk') \in Nat
  BY <1>7, LenProperties
<1>9. \A i \in 1..Len(chunk) - n : n + i \in 1..Len(chunk)
  BY <1>1
<1>10. \A i \in DOMAIN chunk' : n + i \in DOMAIN chunk /\ chunk'[i] = chunk[n + i]
  BY <1>1, <1>7, <1>8, <1>9
<1>11. \A i \in DOMAIN chunk' : chunk'[i] # END
  BY <1>4, <1>10 DEF FrameInv, Buffers
<1>12. chunk' # <<END>>
  <2>1. 1 \in DOMAIN <<END>> /\ <<END>>[1] = END
    BY SMT
  <2> QED
    BY <1>11, <2>1
<1>13. chunk' # <<>>
  <2>1. Len(chunk') > 0
    BY <1>1, <1>2, <1>5, <1>7
  <2> QED
    BY <2>1, EmptySeq
<1>14. SeqTypes'
  BY <1>2, <1>7 DEF FrameInv, Types, SeqTypes
<1>15. Buffers'
  BY <1>2, <1>11, <1>12, <1>13 DEF FrameInv, Buffers, NoFrame
<1>16. Marked'
  BY <1>2, <1>4 DEF FrameInv, Marked, MarkWritten
<1> QED
  BY <1>2, <1>4, <1>5, <1>7, <1>8, <1>10, <1>12, <1>14, <1>15, <1>16

\* The next piece of a frame.
LEMMA MoreWritten ==
    ASSUME FrameInv, data # <<>>, wr # "none", StartsWrite(data), UNCHANGED <<offer, ended, framing>>
    PROVE  /\ SeqTypes' /\ Buffers' /\ Marked'
           /\ wr' = "busy" /\ UNCHANGED <<wire, wrote>>
           /\ chunk # <<END>> /\ chunk' # <<END>>
           /\ Len(chunk') \in Nat /\ Len(data') \in Nat /\ Len(chunk') + Len(data') = Len(data)
           /\ \A i \in DOMAIN chunk' : i \in DOMAIN data /\ chunk'[i] = data[i]
           /\ \A i \in DOMAIN data' : Len(chunk') + i \in DOMAIN data /\ data'[i] = data[Len(chunk') + i]
<1>1. PICK d \in Seq(Nat) : d = data
  BY DEF FrameInv, Types
<1>2. d # <<>> /\ (\A i \in DOMAIN d : d[i] # END) /\ chunk # <<END>> /\ wire \in Seq(Nat)
  BY <1>1 DEF FrameInv, Types, Buffers
<1>3. /\ SeqTypes' /\ chunk' # <<END>> /\ chunk' # <<>> /\ wr' = "busy" /\ UNCHANGED <<wire, wrote>>
      /\ \A i \in DOMAIN chunk' : chunk'[i] # END
      /\ \A i \in DOMAIN data' : data'[i] # END
  BY <1>1, <1>2, BytesBuffered
<1>4. /\ Len(chunk') + Len(data') = Len(d)
      /\ \A i \in 1..Len(chunk') : i \in 1..Len(d) /\ chunk'[i] = d[i]
      /\ \A i \in 1..Len(data') : Len(chunk') + i \in 1..Len(d) /\ data'[i] = d[Len(chunk') + i]
  BY <1>1, <1>2, WriteStarts
<1>5. /\ DOMAIN chunk' = 1..Len(chunk') /\ DOMAIN data' = 1..Len(data') /\ DOMAIN d = 1..Len(d)
      /\ Len(chunk') \in Nat /\ Len(data') \in Nat
  BY <1>3, LenProperties DEF SeqTypes
<1>6. Buffers'
  BY <1>3 DEF FrameInv, Buffers, NoFrame
<1>7. Marked'
  BY <1>2, <1>3 DEF FrameInv, Marked, MarkWritten
<1> QED
  BY <1>1, <1>2, <1>3, <1>4, <1>5, <1>6, <1>7

LEMMA AllDelivered ==
    ASSUME NEW p \in Nat,
           \A i \in 1..p : i \in DOMAIN wire /\ wire[i] = i,
           \A i \in DOMAIN wire : i \in 1..p \/ wire[i] = END
    PROVE  Delivered = 1..p
BY DEF Delivered, END

----------------------------------------------------------------------------
(* HTTP/1.1: write_body.                                                   *)

\* What the loops leave alone of the request.
Framed == UNCHANGED <<http2, hint, framing, declares, head>>

LEMMA ReceiveStarts ==
    ASSUME FrameInv, Framed, pc \in {"pull", "write"}, Receives, SeqTypes', Buffers', Marked',
           pulled' \in Nat, pulled' = pulled, offer' \in [t : {"none", "data", "trailers", "error", "end"}, n : Nat],
           ended' \in BOOLEAN, wr' = "none", wrote' \in Nat, wire' = wire, NoGap,
           \A i \in 1..pulled : i \in DOMAIN wire /\ wire[i] = i,
           \A i \in DOMAIN wire : i \in 1..pulled \/ wire[i] = END
    PROVE  FrameInv'
<1> USE DEF FrameInv, Framed
<1>1. \/ pc' = "failed" /\ recv' = recv
      \/ pc' = "receive" /\ recv' = "waiting" /\ (framing = "Exact" => hint = pulled)
  BY DEF Receives, Fails
<1>2. ~http2 /\ recv = "none" /\ framing # "none" /\ pulled \in Nat
  BY DEF Stages, Declared, Unframed, Ends, Types
<1>3. Types'
  BY <1>1 DEF Types, SeqTypes, Ends
<1>4. Stages'
  BY <1>1, <1>2 DEF Stages, Before, Writing, Http2Only, Ends
<1>5. Declared'
  BY <1>1, <1>2 DEF Declared, Unframed, TotalLength, Ends
<1>6. framing \in {"Exact", "ManualChunked"} /\ declares = TotalLength(framing)
  BY <1>2 DEF Declared, Types
<1>7. Delivered' = Delivered /\ Delivered = 1..pulled
  BY <1>2, AllDelivered DEF Delivered
<1>8. InOrder'
  <2>1. NoGap'
    BY DEF NoGap
  <2>2. pc' = "receive" => Complete'
    BY <1>1, <1>6, <1>7 DEF Complete, TotalLength
  <2> QED
    BY <1>1, <1>2, <2>1, <2>2 DEF InOrder
<1> QED
  BY <1>3, <1>4, <1>5, <1>8

LEMMA PullFrames ==
    ASSUME FrameInv, Pull
    PROVE  FrameInv'
<1> USE DEF FrameInv
<1>1. /\ pc = "pull" /\ offer # NoFrame /\ Polled
      /\ UNCHANGED <<http2, hint, framing, declares, head>>
  BY DEF Pull, callVars
<1>2. /\ ~http2 /\ recv = "none" /\ framing # "none" /\ wr = "none"
      /\ NoGap /\ Len(wire) = pulled /\ pulled \in Nat /\ wire \in Seq(Nat)
  BY <1>1 DEF Stages, Declared, Unframed, Ends, Types, InOrder, Writing
<1>3. DOMAIN wire = 1..pulled
  BY <1>2, LenProperties
<1>4. /\ offer.t \in {"data", "trailers", "error", "end"} /\ ~ended
      /\ \A i \in DOMAIN wire : wire[i] # END
      /\ pulled' \in Nat /\ offer' = NoFrame /\ ended' \in BOOLEAN
      /\ ended' => offer.t \in {"end", "error"}
      /\ offer.t # "data" => pulled' = pulled
  BY <1>1, FrameReady
<1>5. NoFrame \in [t : {"none", "data", "trailers", "error", "end"}, n : Nat]
  BY DEF NoFrame
<1>6. ASSUME SeqTypes', Buffers', Marked', wire' = wire, UNCHANGED wrote, UNCHANGED recv,
             \/ pc' = "write" /\ wr' = "busy" /\ Follows'
             \/ pc' = "pull" /\ wr' = "none" /\ Len(wire) = pulled' /\ ~ended'
             \/ pc' = "failed" /\ wr' = "none"
      PROVE  FrameInv'
  <2>1. Types'
    BY <1>1, <1>4, <1>5, <1>6 DEF Types, SeqTypes, Writing, Ends
  <2>2. Stages'
    BY <1>1, <1>2, <1>6 DEF Stages, Before, Writing, Http2Only, Ends
  <2>3. Declared'
    BY <1>1, <1>2, <1>6 DEF Declared, Unframed, TotalLength, Ends
  <2>4. InOrder'
    BY <1>2, <1>6 DEF InOrder, NoGap
  <2> QED
    BY <1>6, <2>1, <2>2, <2>3, <2>4
<1>7. CASE offer.t = "data"
  <2>1. StartsWrite(FrameBytes) /\ pc' = "write" /\ UNCHANGED recv
    BY <1>7 DEF Pull
  <2>2. /\ SeqTypes' /\ Buffers' /\ Marked' /\ ~ended'
        /\ wr' = "busy" /\ UNCHANGED <<wire, wrote>> /\ chunk' # <<END>>
    BY <1>1, <1>7, <2>1, PullsData
  <2>3. /\ pulled' = pulled + Len(chunk') + Len(data')
        /\ \A i \in DOMAIN chunk' : chunk'[i] = pulled + i
        /\ \A i \in DOMAIN data' : data'[i] = pulled + Len(chunk') + i
    BY <1>1, <1>7, <2>1, PullsData
  <2>4. Base' = pulled
    BY <1>2, <2>2 DEF Base
  <2>5. Follows'
    BY <1>2, <2>2, <2>3, <2>4 DEF Follows
  <2> QED
    BY <1>6, <2>1, <2>2, <2>5
<1>8. CASE offer.t = "trailers" \/ offer.t = "error"
  <2>1. UNCHANGED <<writeVars, recv>> /\ (pc' = "failed" \/ (pc' = pc /\ ~ended'))
    BY <1>4, <1>8 DEF Pull, Fails
  <2>2. SeqTypes' /\ Buffers' /\ Marked'
    BY <1>1, <2>1, PullsNothing
  <2> QED
    BY <1>1, <1>2, <1>4, <1>6, <1>8, <2>1, <2>2 DEF writeVars
<1>9. CASE offer.t = "end" /\ NeedsEnd
  <2>1. StartsEnd /\ pc' = "write" /\ UNCHANGED recv
    BY <1>9 DEF Pull
  <2>2. /\ SeqTypes' /\ Buffers' /\ Marked' /\ ended' /\ pulled' = pulled
        /\ wr' = "busy" /\ UNCHANGED <<wire, wrote>> /\ chunk' = <<END>>
    BY <1>1, <1>9, <2>1, PullsEnd
  <2>3. Base' = pulled
    BY <1>2, <2>2 DEF Base
  <2>4. Follows'
    BY <1>2, <2>2, <2>3 DEF Follows
  <2> QED
    BY <1>6, <2>1, <2>2, <2>4
<1>10. CASE offer.t = "end" /\ ~NeedsEnd
  <2>1. Receives /\ UNCHANGED writeVars
    BY <1>10 DEF Pull
  <2>2. SeqTypes' /\ Buffers' /\ Marked'
    BY <1>1, <2>1, PullsNothing
  <2>3. \A i \in 1..pulled : i \in DOMAIN wire /\ wire[i] = i
    BY <1>2, <1>3, <1>4 DEF NoGap
  <2>4. wrote' \in Nat
    BY <2>1 DEF Types, writeVars
  <2> QED
    BY <1>1, <1>2, <1>3, <1>4, <1>5, <1>10, <2>1, <2>2, <2>3, <2>4, ReceiveStarts DEF writeVars, Framed
<1> QED
  BY <1>4, <1>7, <1>8, <1>9, <1>10

LEMMA Regroup ==
    ASSUME NEW a \in Nat, NEW b \in Nat, NEW c \in Nat, NEW i \in Nat
    PROVE  a + b + (c + i) = (a + b) + c + i
OBVIOUS

LEMMA WroteFrames ==
    ASSUME FrameInv, Wrote
    PROVE  FrameInv'
<1> USE DEF FrameInv
<1>1. /\ pc = "write" /\ wr \in {"done", "failed"} /\ UNCHANGED bodyVars
      /\ UNCHANGED <<http2, hint, framing, declares, head>>
  BY DEF Wrote, callVars
<1>2. /\ ~http2 /\ recv = "none" /\ framing # "none" /\ NoGap /\ Follows
      /\ pulled \in Nat /\ wire \in Seq(Nat) /\ Len(wire) \in Nat /\ wrote \in Nat
      /\ Len(chunk) \in Nat /\ Len(data) \in Nat
  BY <1>1, LenProperties DEF Stages, Declared, Unframed, Ends, Types, InOrder
<1>3. DOMAIN wire = 1..Len(wire)
  BY <1>2, LenProperties
<1>4. UNCHANGED <<offer, pulled, ended>>
  BY <1>1 DEF bodyVars
<1>5. ASSUME SeqTypes', Buffers', Marked', wire' = wire, UNCHANGED wrote, UNCHANGED recv,
             wr' \in {"none", "busy", "done", "failed"},
             \/ pc' = "write" /\ wr' = "busy" /\ Follows'
             \/ pc' = "pull" /\ wr' = "none" /\ Len(wire) = pulled /\ ~ended
             \/ pc' = "failed"
      PROVE  FrameInv'
  <2>1. Types'
    BY <1>1, <1>4, <1>5 DEF Types, SeqTypes, Writing, Ends
  <2>2. Stages'
    BY <1>1, <1>2, <1>5 DEF Stages, Before, Writing, Http2Only, Ends
  <2>3. Declared'
    BY <1>1, <1>2, <1>5 DEF Declared, Unframed, TotalLength, Ends
  <2>4. InOrder'
    BY <1>2, <1>4, <1>5 DEF InOrder, NoGap
  <2> QED
    BY <1>5, <2>1, <2>2, <2>3, <2>4
<1>6. CASE Fails /\ UNCHANGED <<writeVars, recv>>
  <2>1. SeqTypes'
    BY <1>6 DEF Types, SeqTypes, writeVars
  <2>2. Buffers' /\ Marked'
    BY <1>1, <1>4, <1>6, KeepsBuffers, KeepsMarked DEF writeVars
  <2> QED
    BY <1>5, <1>6, <2>1, <2>2 DEF Fails, writeVars, Types
<1>7. CASE WritesRest /\ UNCHANGED <<pc, recv>>
  <2>1. /\ SeqTypes' /\ Buffers' /\ Marked'
        /\ wr' = "busy" /\ UNCHANGED <<wire, data, wrote>>
        /\ chunk # <<END>> /\ chunk' # <<END>>
        /\ Len(chunk') \in Nat /\ Len(chunk') = Len(chunk) - wrote
        /\ \A i \in DOMAIN chunk' : wrote + i \in DOMAIN chunk /\ chunk'[i] = chunk[wrote + i]
    BY <1>1, <1>4, <1>7, RestWritten
  <2>2. Base \in Nat /\ wr = "done" /\ Base = Len(wire) - wrote /\ Base' = Len(wire)
    BY <1>2, <1>7, <2>1 DEF Follows, Base, WritesRest
  <2>3. Base' = Base + wrote /\ Base' \in Nat
    BY <1>2, <2>2
  <2>4. pulled = Base' + Len(chunk') + Len(data')
    BY <1>2, <2>1, <2>2, <2>3 DEF Follows
  <2>5. ASSUME NEW i \in DOMAIN chunk' PROVE chunk'[i] = Base' + i
    <3>1. chunk'[i] = Base + (wrote + i)
      BY <1>2, <2>1 DEF Follows
    <3>2. i \in Nat
      BY <2>1, LenProperties DEF SeqTypes
    <3> QED
      BY <1>2, <2>2, <2>3, <3>1, <3>2
  <2>6. ASSUME NEW i \in DOMAIN data' PROVE data'[i] = Base' + Len(chunk') + i
    <3>1. data'[i] = Base + Len(chunk) + i
      BY <1>2, <2>1 DEF Follows
    <3>2. i \in Nat
      BY <2>1, LenProperties DEF SeqTypes
    <3> QED
      BY <1>2, <2>1, <2>2, <2>3, <3>1, <3>2
  <2>7. Follows'
    BY <1>2, <1>4, <2>1, <2>3, <2>4, <2>5, <2>6 DEF Follows
  <2> QED
    BY <1>1, <1>5, <1>7, <2>1, <2>7
<1>8. CASE WroteAll /\ data # <<>> /\ StartsWrite(data) /\ UNCHANGED <<pc, recv>>
  <2>1. /\ SeqTypes' /\ Buffers' /\ Marked'
        /\ wr' = "busy" /\ UNCHANGED <<wire, wrote>>
        /\ chunk # <<END>> /\ chunk' # <<END>>
        /\ Len(chunk') \in Nat /\ Len(data') \in Nat /\ Len(chunk') + Len(data') = Len(data)
    BY <1>1, <1>4, <1>8, MoreWritten
  <2>2. /\ \A i \in DOMAIN chunk' : i \in DOMAIN data /\ chunk'[i] = data[i]
        /\ \A i \in DOMAIN data' : Len(chunk') + i \in DOMAIN data /\ data'[i] = data[Len(chunk') + i]
    BY <1>1, <1>4, <1>8, MoreWritten
  <2>3. Base \in Nat /\ Base = Len(wire) - Len(chunk) /\ Base' = Len(wire)
    BY <1>2, <1>8, <2>1 DEF Follows, Base, WroteAll
  <2>4. Base' = Base + Len(chunk) /\ Base' \in Nat
    BY <1>2, <2>3
  <2>5. pulled = Base' + Len(chunk') + Len(data')
    BY <1>2, <2>1, <2>3, <2>4 DEF Follows
  <2>6. \A i \in DOMAIN chunk' : chunk'[i] = Base' + i
    BY <1>2, <2>1, <2>2, <2>4 DEF Follows
  <2>7. ASSUME NEW i \in DOMAIN data' PROVE data'[i] = Base' + Len(chunk') + i
    <3>1. data'[i] = Base + Len(chunk) + (Len(chunk') + i)
      BY <1>2, <2>1, <2>2 DEF Follows
    <3>2. i \in Nat
      BY <2>1, LenProperties DEF SeqTypes
    <3>4. Base \in Nat /\ Len(chunk) \in Nat /\ Len(chunk') \in Nat /\ i \in Nat
      BY <1>2, <2>1, <2>3, <3>2
    <3>3. Base + Len(chunk) + (Len(chunk') + i) = (Base + Len(chunk)) + Len(chunk') + i
      BY <3>4, Regroup
    <3> QED
      BY <2>4, <3>1, <3>3
  <2>8. Follows'
    BY <1>2, <1>4, <2>1, <2>4, <2>5, <2>6, <2>7 DEF Follows
  <2> QED
    BY <1>1, <1>5, <1>8, <2>1, <2>8
<1>9. CASE /\ WroteAll /\ data = <<>> /\ StopsWriting
           /\ IF chunk = <<END>> THEN Receives ELSE pc' = "pull" /\ UNCHANGED recv
  <2>1. SeqTypes' /\ Buffers' /\ Marked' /\ wr' = "none" /\ UNCHANGED <<wire, wrote>>
    BY <1>1, <1>4, <1>9, Stopped
  <2>2. CASE chunk # <<END>>
    <3>1. pc' = "pull" /\ UNCHANGED recv
      BY <1>9, <2>2
    <3>2. Len(data) = 0
      BY <1>9, EmptySeq
    <3>3. ~ended /\ Len(wire) = pulled
      BY <1>2, <1>9, <2>2, <3>2 DEF Follows, Base, WroteAll
    <3> QED
      BY <1>5, <2>1, <3>1, <3>3
  <2>3. CASE chunk = <<END>>
    <3>1. Len(chunk) = 1
      BY <2>3, SMT
    <3>2. MarkWritten
      BY <1>9, <2>3, <3>1 DEF WroteAll, MarkWritten
    <3>3. Len(wire) = pulled + 1 /\ wire[Len(wire)] = END
      BY <1>2, <2>3, <3>2 DEF Follows, Base, Marked, MarkWritten
    <3>4. \A i \in 1..pulled : i \in DOMAIN wire /\ i # Len(wire)
      BY <1>2, <1>3, <3>3
    <3>5. \A i \in 1..pulled : wire[i] = i
      BY <1>2, <3>4 DEF NoGap, Marked
    <3>6. \A i \in DOMAIN wire : i \in 1..pulled \/ i = pulled + 1
      BY <1>2, <1>3, <3>3
    <3>7. Receives
      BY <1>9, <2>3
    <3> QED
      BY <1>1, <1>2, <1>4, <2>1, <3>3, <3>4, <3>5, <3>6, <3>7, ReceiveStarts DEF Framed, Types
  <2> QED
    BY <2>2, <2>3
<1> QED
  BY <1>6, <1>7, <1>8, <1>9 DEF Wrote

----------------------------------------------------------------------------
(* HTTP/2: drive_head and duplex_step.                                     *)

Frame == [t : {"none", "data", "trailers", "error", "end"}, n : Nat]

LEMMA Http2Frames ==
    ASSUME FrameInv, http2, pc \in Http2Only, UNCHANGED <<http2, hint, framing, declares, recv>>,
           head' \in {"none", "ok", "failed"},
           SeqTypes', Buffers', Marked', UNCHANGED wire, wrote' \in Nat,
           pulled' \in Nat, offer' \in Frame, ended' \in BOOLEAN,
           \/ pc' \in {"headpull", "headdone", "step", "query"} /\ wr' = "none"
           \/ pc' \in {"headwrite", "stepwrite"} /\ wr' \in {"busy", "done", "failed"}
           \/ pc' \in Ends /\ wr' \in {"none", "busy", "done", "failed"}
    PROVE  FrameInv'
<1> USE DEF FrameInv
<1>1. Types'
  BY DEF Types, SeqTypes, Frame, Writing, Reading, Http2Only, Ends
<1>2. Stages'
  BY DEF Stages, Before, Writing, Http2Only, Ends
<1>3. framing # "none"
  BY DEF Declared, Unframed, Http2Only, Ends
<1>4. Declared'
  BY <1>3 DEF Declared, Unframed, TotalLength, Http2Only, Ends
<1> QED
  BY <1>1, <1>2, <1>4

\* A frame is pulled by drive_head or by duplex_step.
LEMMA Http2Pulls ==
    ASSUME FrameInv, pc \in {"headpull", "step"}, offer # NoFrame, Polled,
           UNCHANGED <<http2, hint, framing, declares, recv>>,
           head' \in {"none", "ok", "failed"},
           \/ /\ offer.t = "data" /\ StartsWrite(FrameBytes)
              /\ pc' \in {"headwrite", "stepwrite"}
           \/ offer.t = "end" /\ NeedsEnd /\ StartsEnd /\ pc' \in {"headwrite", "stepwrite"}
           \/ StopsWriting /\ pc' = "headdone"
           \/ UNCHANGED writeVars /\ pc' \in {"headpull", "headdone", "step", "query"} \cup Ends
    PROVE  FrameInv'
<1>1. /\ http2 /\ pc \in Http2Only /\ wr = "none" /\ wrote \in Nat
  BY DEF FrameInv, Stages, Types, Http2Only, Writing, Ends
<1>2. pulled' \in Nat /\ offer' \in Frame /\ ended' \in BOOLEAN
  BY FrameReady DEF Frame, NoFrame
<1>3. CASE offer.t = "data" /\ StartsWrite(FrameBytes) /\ pc' \in {"headwrite", "stepwrite"}
  <2>1. SeqTypes' /\ Buffers' /\ Marked' /\ wr' = "busy" /\ UNCHANGED <<wire, wrote>>
    BY <1>3, PullsData
  <2> QED
    BY <1>1, <1>2, <1>3, <2>1, Http2Frames
<1>4. CASE offer.t = "end" /\ NeedsEnd /\ StartsEnd /\ pc' \in {"headwrite", "stepwrite"}
  <2>1. SeqTypes' /\ Buffers' /\ Marked' /\ wr' = "busy" /\ UNCHANGED <<wire, wrote>>
    BY <1>4, PullsEnd
  <2> QED
    BY <1>1, <1>2, <1>4, <2>1, Http2Frames
<1>5. CASE StopsWriting /\ pc' = "headdone"
  <2>1. SeqTypes' /\ Buffers' /\ Marked' /\ wr' = "none" /\ UNCHANGED <<wire, wrote>>
    BY <1>5, Stopped
  <2> QED
    BY <1>1, <1>2, <1>5, <2>1, Http2Frames
<1>6. CASE UNCHANGED writeVars /\ pc' \in {"headpull", "headdone", "step", "query"} \cup Ends
  <2>1. SeqTypes' /\ Buffers' /\ Marked' /\ UNCHANGED <<wr, wire, wrote>>
    BY <1>6, PullsNothing DEF writeVars
  <2> QED
    BY <1>1, <1>2, <1>6, <2>1, Http2Frames
<1> QED
  BY <1>3, <1>4, <1>5, <1>6

\* A write of drive_head or of duplex_step has ended, or has not yet.
LEMMA Http2Writes ==
    ASSUME FrameInv, pc \in {"headwrite", "stepwrite"}, UNCHANGED bodyVars,
           UNCHANGED <<http2, hint, framing, declares, recv>>,
           head' \in {"none", "ok", "failed"},
           \/ WritesRest /\ pc' = pc
           \/ data # <<>> /\ StartsWrite(data) /\ pc' = pc
           \/ StopsWriting /\ pc' \in {"headpull", "headdone", "step", "query"}
           \/ UNCHANGED writeVars /\ pc' \in {pc} \cup Ends
    PROVE  FrameInv'
<1>1. /\ http2 /\ pc \in Http2Only /\ wr \in {"busy", "done", "failed"} /\ wrote \in Nat
      /\ UNCHANGED <<offer, pulled, ended>>
  BY DEF FrameInv, Stages, Types, Http2Only, Writing, Ends, bodyVars
<1>2. pulled' \in Nat /\ offer' \in Frame /\ ended' \in BOOLEAN
  BY <1>1 DEF FrameInv, Types, Frame
<1>3. CASE WritesRest /\ pc' = pc
  <2>1. SeqTypes' /\ Buffers' /\ Marked' /\ wr' = "busy" /\ UNCHANGED <<wire, wrote>>
    BY <1>1, <1>3, RestWritten
  <2> QED
    BY <1>1, <1>2, <1>3, <2>1, Http2Frames
<1>4. CASE data # <<>> /\ StartsWrite(data) /\ pc' = pc
  <2>1. SeqTypes' /\ Buffers' /\ Marked' /\ wr' = "busy" /\ UNCHANGED <<wire, wrote>>
    BY <1>1, <1>4, MoreWritten
  <2> QED
    BY <1>1, <1>2, <1>4, <2>1, Http2Frames
<1>5. CASE StopsWriting /\ pc' \in {"headpull", "headdone", "step", "query"}
  <2>1. SeqTypes' /\ Buffers' /\ Marked' /\ wr' = "none" /\ UNCHANGED <<wire, wrote>>
    BY <1>1, <1>5, Stopped
  <2> QED
    BY <1>1, <1>2, <1>5, <2>1, Http2Frames
<1>6. CASE UNCHANGED writeVars /\ pc' \in {pc} \cup Ends
  <2>1. Buffers' /\ Marked' /\ UNCHANGED <<wr, wire, wrote>>
    BY <1>1, <1>6, KeepsBuffers, KeepsMarked DEF FrameInv, writeVars
  <2>2. SeqTypes'
    BY <1>6 DEF FrameInv, Types, SeqTypes, writeVars
  <2> QED
    BY <1>1, <1>2, <1>6, <2>1, <2>2, Http2Frames
<1> QED
  BY <1>3, <1>4, <1>5, <1>6

LEMMA HeadFrames ==
    ASSUME FrameInv, HeadPull \/ HeadWrote
    PROVE  FrameInv'
<1>1. HeadPolled \in {"none", "ok", "failed"} /\ head' = HeadPolled
  BY DEF FrameInv, Types, HeadPolled, HeadPull, HeadWrote
<1>2. UNCHANGED <<http2, hint, framing, declares, recv>>
  BY DEF HeadPull, HeadWrote, callVars
<1>3. CASE pc = "headpull" /\ offer # NoFrame /\ Polled /\ HeadFrame
  <2>1. offer.t \in {"data", "trailers", "error", "end"}
    BY <1>3, FrameReady
  <2>2. CASE offer.t = "data"
    BY <1>1, <1>2, <1>3, <2>2, Http2Pulls DEF HeadFrame
  <2>3. CASE offer.t = "trailers" \/ offer.t = "error"
    BY <1>1, <1>2, <1>3, <2>3, Http2Pulls DEF HeadFrame, Fails, Ends
  <2>4. CASE offer.t = "end"
    BY <1>1, <1>2, <1>3, <2>4, Http2Pulls DEF HeadFrame
  <2> QED
    BY <2>1, <2>2, <2>3, <2>4
<1>4. CASE pc = "headpull" /\ pc' = "headdone" /\ UNCHANGED <<bodyVars, writeVars>>
  <2>1. Buffers' /\ Marked'
    BY <1>2, <1>4, KeepsBuffers, KeepsMarked DEF FrameInv, bodyVars, writeVars
  <2>2. /\ http2 /\ pc \in Http2Only /\ wr = "none" /\ SeqTypes' /\ wrote' \in Nat
        /\ pulled' \in Nat /\ offer' \in Frame /\ ended' \in BOOLEAN /\ wr' = "none"
    BY <1>4 DEF FrameInv, Stages, Types, SeqTypes, Http2Only, Writing, Ends, bodyVars, writeVars, Frame
  <2> QED
    BY <1>1, <1>2, <1>4, <2>1, <2>2, Http2Frames DEF writeVars
<1>5. CASE HeadWrote
  <2>1. pc = "headwrite" /\ UNCHANGED bodyVars
    BY <1>5 DEF HeadWrote
  <2>2. \/ WritesRest /\ pc' = pc
        \/ data # <<>> /\ StartsWrite(data) /\ pc' = pc
        \/ StopsWriting /\ pc' \in {"headpull", "headdone", "step", "query"}
        \/ UNCHANGED writeVars /\ pc' \in {pc} \cup Ends
    BY <1>5 DEF HeadWrote, Fails, Ends
  <2> QED
    BY <1>1, <1>2, <2>1, <2>2, Http2Writes
<1> QED
  BY <1>3, <1>4, <1>5 DEF HeadPull

LEMMA StepFrames ==
    ASSUME FrameInv, Step \/ StepWrote
    PROVE  FrameInv'
<1>1. /\ UNCHANGED <<http2, hint, framing, declares, recv, head>>
      /\ head' \in {"none", "ok", "failed"}
  BY DEF Step, StepWrote, callVars, FrameInv, Types
<1>2. CASE /\ Step /\ offer # NoFrame /\ Polled
  <2>1. offer.t \in {"data", "trailers", "error", "end"}
    BY <1>2, FrameReady
  <2>2. CASE offer.t = "data"
    BY <1>1, <1>2, <2>2, Http2Pulls DEF Step
  <2>3. CASE offer.t = "trailers" \/ offer.t = "error"
    BY <1>1, <1>2, <2>3, Http2Pulls DEF Step, Ends
  <2>4. CASE offer.t = "end"
    BY <1>1, <1>2, <2>4, Http2Pulls DEF Step
  <2> QED
    BY <2>1, <2>2, <2>3, <2>4
<1>3. CASE pc = "step" /\ pc' = "query" /\ UNCHANGED <<bodyVars, writeVars>>
  <2>1. Buffers' /\ Marked'
    BY <1>1, <1>3, KeepsBuffers, KeepsMarked DEF FrameInv, bodyVars, writeVars
  <2>2. /\ http2 /\ pc \in Http2Only /\ wr = "none" /\ SeqTypes' /\ wrote' \in Nat
        /\ pulled' \in Nat /\ offer' \in Frame /\ ended' \in BOOLEAN /\ wr' = "none"
    BY <1>3 DEF FrameInv, Stages, Types, SeqTypes, Http2Only, Writing, Ends, bodyVars, writeVars, Frame
  <2> QED
    BY <1>1, <1>3, <2>1, <2>2, Http2Frames DEF writeVars
<1>4. CASE StepWrote
  <2>1. pc = "stepwrite" /\ UNCHANGED bodyVars
    BY <1>4 DEF StepWrote
  <2>2. \/ WritesRest /\ pc' = pc
        \/ data # <<>> /\ StartsWrite(data) /\ pc' = pc
        \/ StopsWriting /\ pc' \in {"headpull", "headdone", "step", "query"}
        \/ UNCHANGED writeVars /\ pc' \in {pc} \cup Ends
    BY <1>4 DEF StepWrote
  <2> QED
    BY <1>1, <2>1, <2>2, Http2Writes
<1> QED
  BY <1>2, <1>3, <1>4 DEF Step

----------------------------------------------------------------------------

LEMMA FrameInvNext == FrameInv /\ [Next]_vars => FrameInv'
<1> SUFFICES ASSUME FrameInv, [Next]_vars PROVE FrameInv'
  OBVIOUS
<1>1. CASE ClientCode
  BY <1>1, StartFrames, ChooseFrames, PullFrames, WroteFrames, MovesOn, HeadFrames, StepFrames
     DEF ClientCode
<1>2. CASE Environment
  BY <1>2, ProduceFrames, ReceiveFrames, WriteFrames DEF Environment
<1>3. CASE Connect \/ OpenRequest \/ Configure \/ SendCompletes \/ Poll \/ Query \/ Read \/ Drop
  BY <1>3, MovesOn, SendFrames
<1>4. CASE UNCHANGED vars
  <2>1. UNCHANGED <<http2, hint, framing, declares, pc, bodyVars, writeVars, recv, head>>
    BY <1>4 DEF vars, callVars, headVars
  <2>2. Types'
    BY <2>1 DEF FrameInv, Types, bodyVars, writeVars
  <2>3. Stages' /\ Declared'
    BY <2>1 DEF FrameInv, Stages, Declared, Unframed, TotalLength, bodyVars, writeVars
  <2> QED
    BY <2>1, <2>2, <2>3, Aside
<1> QED
  BY <1>1, <1>2, <1>3, <1>4 DEF Next

LEMMA FrameInvariant == Spec => []FrameInv
BY FrameInvInit, FrameInvNext, PTL DEF Spec

\* What the server gets is framed as the head declares, its end is marked once
\* and last, and over HTTP/1.1 the response is waited for with the whole body
\* on the wire in order, for any frames, pieces and short writes (client.rs,
\* write_body and write_all; h2.rs, drive_head and duplex_step).
THEOREM RequestsFramed == Spec => []RequestFramed
<1>1. FrameInv => RequestFramed
  <2> SUFFICES ASSUME FrameInv PROVE RequestFramed
    OBVIOUS
  <2>1. framing # "none" => declares \in {{hint}, {Chunked}, {}}
    BY DEF FrameInv, Declared, Types, TotalLength
  <2>2. framing \in {"ManualChunked", "Automatic"} => declares \cap Nat = {}
    BY DEF FrameInv, Declared, TotalLength, Chunked
  <2>3. ASSUME NEW i \in DOMAIN wire, wire[i] = END
        PROVE  i = Len(wire) /\ ended /\ declares \cap Nat = {}
    <3>1. i = Len(wire) /\ ended /\ framing # "Exact"
      BY <2>3 DEF FrameInv, Marked
    <3>2. wire # <<>>
      BY <2>3, SMT
    <3>3. framing \in {"ManualChunked", "Automatic"}
      BY <3>1, <3>2 DEF FrameInv, Declared, Types
    <3> QED
      BY <2>2, <3>1, <3>3
  <2>4. wire # <<>> => framing # "none"
    BY DEF FrameInv, Declared
  <2>5. ~http2 => NoGap /\ (recv # "none" => Complete)
    BY DEF FrameInv, InOrder
  <2> QED
    BY <2>1, <2>3, <2>4, <2>5 DEF RequestFramed, Complete
<1> QED
  BY <1>1, FrameInvariant, PTL

----------------------------------------------------------------------------
(* The invariant of the response.                                          *)

ReadTypes == sent \in Nat /\ got \in Nat /\ want \in Nat /\ response \in Response

\* Nothing is read, and the server sends nothing, before the head of the
\* response is there; and nothing happens after the outcome.
Answered ==
    /\ head # "none" => recv = head
    /\ pc \in Reading => recv = "ok"
    /\ recv # "ok" => got = 0 /\ sent = 0
    /\ ~http2 => trailers = "none"
    /\ outcome # "none" => pc = "done"

\* No more is read than was sent and than was promised, the read in flight
\* included.
Within ==
    /\ got <= sent
    /\ Promised # None => got <= Promised
    /\ pc = "read" => got + want <= sent /\ (Promised # None => got + want <= Promised)

ReadInv == ReadTypes /\ Answered /\ Within /\ ResponseTrue

\* A length is known exactly when one number was given.
LEMMA LengthKnown ==
    response \in Response =>
        /\ ContentLength # None => ContentLength \in Nat /\ response.lengths = {ContentLength}
        /\ Cardinality(response.lengths) = 1 /\ response.lengths # {Unparsable} => ContentLength # None
<1> SUFFICES ASSUME response \in Response
             PROVE  /\ ContentLength # None => ContentLength \in Nat /\ response.lengths = {ContentLength}
                    /\ Cardinality(response.lengths) = 1 /\ response.lengths # {Unparsable}
                         => ContentLength # None
  OBVIOUS
<1>1. IsFiniteSet(response.lengths) /\ response.lengths \subseteq Nat \cup {Unparsable}
  BY DEF Response
<1>2. Cardinality(response.lengths) = 1 => \E x : response.lengths = {x}
  BY <1>1, FS_Singleton
<1>3. CASE Cardinality(response.lengths) = 1
  <2>1. PICK x : response.lengths = {x}
    BY <1>2, <1>3
  <2>2. CASE x \in Nat
    <3>1. ContentLength = x
      BY <1>3, <2>1, <2>2 DEF ContentLength
    <3> QED
      BY <2>1, <2>2, <3>1 DEF None
  <2>3. CASE x \notin Nat
    <3>1. x = Unparsable /\ ContentLength = None
      BY <1>1, <2>1, <2>3 DEF ContentLength
    <3> QED
      BY <2>1, <3>1
  <2> QED
    BY <2>2, <2>3
<1>4. CASE Cardinality(response.lengths) # 1
  BY <1>4 DEF ContentLength
<1> QED
  BY <1>3, <1>4

LEMMA PromiseKnown ==
    ASSUME ReadInv
    PROVE  Promised # None => /\ ~http2 /\ Promised \in Nat /\ response.lengths = {Promised}
                              /\ Remaining \in Nat /\ got <= Promised
                              /\ Remaining = 0 => got = Promised
<1> SUFFICES ASSUME Promised # None
             PROVE  /\ ~http2 /\ Promised \in Nat /\ response.lengths = {Promised}
                    /\ Remaining \in Nat /\ got <= Promised
                    /\ Remaining = 0 => got = Promised
  OBVIOUS
<1>1. ~http2 /\ Promised = ContentLength
  BY DEF Promised
<1>2. Promised \in Nat /\ response.lengths = {Promised}
  BY <1>1, LengthKnown DEF ReadInv, ReadTypes
<1>3. got \in Nat /\ got <= Promised
  BY DEF ReadInv, ReadTypes, Within
<1> QED
  BY <1>1, <1>2, <1>3 DEF Remaining

LEMMA ReadInvInit == Init => ReadInv
<1> SUFFICES ASSUME Init PROVE ReadInv
  OBVIOUS
<1> USE DEF Init
<1>1. response.lengths = {} /\ IsFiniteSet({}) /\ Cardinality({}) = 0
  BY FS_EmptySet DEF NoResponse
<1>2. ReadTypes
  BY <1>1 DEF ReadTypes, Response, NoResponse
<1>3. Promised = None
  BY <1>1 DEF Promised, ContentLength
<1>4. Answered /\ Within /\ ResponseTrue
  BY <1>3 DEF Answered, Within, ResponseTrue, Reading
<1> QED
  BY <1>2, <1>4 DEF ReadInv

\* Steps that leave the response alone.
LEMMA ReadsOn ==
    ASSUME ReadInv,
           UNCHANGED <<http2, call, response, sent, got, want, closed, trailers, outcome>>,
           head' # "none" => recv' = head', pc' \in Reading => recv' = "ok",
           recv' # "ok" => recv # "ok",
           outcome # "none" => pc' = "done", pc' = "read" => pc = "read"
    PROVE  ReadInv'
<1>1. ReadTypes'
  BY DEF ReadInv, ReadTypes, Response
<1>2. Answered'
  BY DEF ReadInv, Answered
<1>3. Promised' = Promised
  BY DEF Promised, ContentLength
<1>4. Within'
  BY <1>3 DEF ReadInv, Within
<1>5. ResponseTrue'
  BY DEF ReadInv, ResponseTrue, MayHaveBody
<1> QED
  BY <1>1, <1>2, <1>4, <1>5 DEF ReadInv

\* The request goes on.
LEMMA RequestReads ==
    ASSUME FrameInv, ReadInv,
           \/ Start \/ Connect \/ ChooseFraming \/ OpenRequest \/ Configure \/ SendCompletes
           \/ Pull \/ Wrote \/ HeadPull \/ HeadWrote \/ StepWrote \/ Drop
           \/ ~Over /\ (Produce \/ WriteCompletes)
    PROVE  ReadInv'
<1> USE DEF callVars, bodyVars, writeVars, headVars, serverVars, readVars
<1>1. UNCHANGED <<http2, call, response, sent, got, want, closed, trailers, outcome>>
  BY DEF Start, Connect, ChooseFraming, OpenRequest, Configure, SendCompletes, Pull, Wrote, HeadPull,
         HeadWrote, StepWrote, Drop, Produce, WriteCompletes
<1>2. outcome = "none"
  BY DEF ReadInv, Answered, Start, Connect, ChooseFraming, OpenRequest, Configure, SendCompletes, Pull,
         Wrote, HeadPull, HeadWrote, StepWrote, Drop, Over
<1>3. /\ head # "none" => recv = head
      /\ pc \in Reading => recv = "ok"
      /\ pc \in {"sending", "pull", "write"} => recv = "none"
  BY DEF FrameInv, ReadInv, Answered, Stages, Before
<1>4. CASE Start \/ Connect \/ ChooseFraming \/ OpenRequest \/ Configure
  <2>1. UNCHANGED <<recv, head>>
    BY <1>4 DEF Start, Connect, ChooseFraming, OpenRequest, Configure
  <2>2. pc' \notin Reading
    <3>1. CASE Start \/ Connect \/ OpenRequest \/ Configure
      BY <3>1 DEF Start, Connect, OpenRequest, Configure, AfterStart, AfterConnect, Reading
    <3>2. CASE ChooseFraming
      <4>1. FrameInv' /\ pc = "frame"
        BY <3>2, ChooseFrames DEF ChooseFraming
      <4>2. recv = "none" /\ recv' = "none"
        BY <2>1, <4>1 DEF FrameInv, Stages, Before
      <4>3. \/ pc' = "failed" \/ \E f \in {"Exact", "ManualChunked", "Automatic"} : Frames(f)
        BY <3>2, FrameChosen
      <4> QED
        BY <4>3 DEF Frames, AfterFrame, Reading
    <3> QED
      BY <1>4, <3>1, <3>2
  <2> QED
    BY <1>1, <1>2, <1>3, <2>1, <2>2, ReadsOn DEF Reading
<1>5. CASE SendCompletes
  <2>1. pc' \in {"failed", "headpull", "pull"} /\ recv = "none" /\ head = "none" /\ UNCHANGED head
        /\ recv' \in {"none", "waiting"}
    BY <1>3, <1>5 DEF SendCompletes, Fails
  <2> QED
    BY <1>1, <1>2, <2>1, ReadsOn DEF Reading
<1>6. CASE Pull \/ Wrote
  <2>1. recv = "none" /\ head = "none" /\ UNCHANGED head
    BY <1>3, <1>6 DEF Pull, Wrote
  <2>2. pc' \in {"failed", "pull", "write", "receive"} /\ recv' \in {"none", "waiting"}
    <3>1. CASE Pull
      <4>1. offer.t \in {"data", "trailers", "error", "end"}
        BY <3>1, FrameReady DEF Pull
      <4> QED
        BY <2>1, <3>1, <4>1 DEF Pull, Receives, Fails
    <3>2. CASE Wrote
      BY <2>1, <3>2 DEF Wrote, Receives, Fails
    <3> QED
      BY <1>6, <3>1, <3>2
  <2> QED
    BY <1>1, <1>2, <2>1, <2>2, ReadsOn DEF Reading
<1>7. CASE HeadPull \/ HeadWrote
  <2>1. UNCHANGED recv /\ head' = HeadPolled /\ (HeadPolled # "none" => recv = HeadPolled)
    BY <1>3, <1>7 DEF HeadPull, HeadWrote, HeadPolled
  <2>2. pc' \in {"failed", "headpull", "headwrite", "headdone"}
    <3>1. CASE HeadPull /\ offer # NoFrame /\ Polled /\ HeadFrame
      <4>1. offer.t \in {"data", "trailers", "error", "end"}
        BY <3>1, FrameReady
      <4> QED
        BY <3>1, <4>1 DEF HeadFrame, Fails
    <3>2. CASE HeadPull /\ pc' = "headdone"
      BY <3>2
    <3>3. CASE HeadWrote
      BY <3>3 DEF HeadWrote, Fails
    <3> QED
      BY <1>7, <3>1, <3>2, <3>3 DEF HeadPull
  <2> QED
    BY <1>1, <1>2, <2>1, <2>2, ReadsOn DEF Reading
<1>8. CASE StepWrote
  <2>1. /\ UNCHANGED <<recv, head>> /\ pc = "stepwrite"
        /\ pc' \in {"stepwrite", "step", "query"}
    BY <1>8 DEF StepWrote
  <2> QED
    BY <1>1, <1>2, <1>3, <2>1, ReadsOn DEF Reading
<1>9. CASE Drop \/ (~Over /\ (Produce \/ WriteCompletes))
  <2>1. UNCHANGED <<recv, head>> /\ pc' \in {pc, "dropped"}
    BY <1>9 DEF Drop, Produce, WriteCompletes
  <2> QED
    BY <1>1, <1>2, <1>3, <2>1, ReadsOn DEF Reading
<1> QED
  BY <1>4, <1>5, <1>6, <1>7, <1>8, <1>9

\* The server.
LEMMA ServerReads ==
    ASSUME FrameInv, ReadInv, ~Over, ReceiveCompletes \/ ServerSends \/ ServerEnds
    PROVE  ReadInv'
<1> USE DEF callVars, headVars, readVars
<1>1. outcome = "none" /\ outcome' = "none" /\ UNCHANGED <<http2, call, pc, got, want, head>>
  BY DEF ReadInv, Answered, Over, ReceiveCompletes, ServerSends, ServerEnds
<1>2. CASE ReceiveCompletes
  <2>1. /\ recv = "waiting" /\ head = "none" /\ pc \notin Reading /\ got = 0 /\ sent = 0
        /\ UNCHANGED <<sent, trailers>> /\ recv' \in {"ok", "failed"}
    BY <1>2 DEF ReceiveCompletes, ReadInv, Answered, FrameInv, Types
  <2>2. response' \in Response
    BY <1>2, ClientAssumption DEF ReceiveCompletes, ReadInv, ReadTypes
  <2>3. ReadTypes'
    BY <1>1, <2>1, <2>2 DEF ReadTypes, ReadInv
  <2>4. Answered'
    BY <1>1, <2>1 DEF Answered, ReadInv
  <2>5. (ContentLength # None => ContentLength \in Nat)'
    <3>1. (response \in Response => (ContentLength # None => ContentLength \in Nat))'
      BY LengthKnown, PTL
    <3> QED
      BY <2>2, <3>1
  <2>6. Within'
    BY <1>1, <2>1, <2>5 DEF Within, Promised, Reading
  <2> QED
    BY <1>1, <2>3, <2>4, <2>6 DEF ReadInv, ResponseTrue, Within
<1>3. CASE ServerSends \/ ServerEnds
  <2>1. recv = "ok" /\ UNCHANGED <<recv, response>> /\ sent' \in {sent, sent + 1}
        /\ (~http2 => trailers' \in {"none", trailers})
    BY <1>3 DEF ServerSends, ServerEnds
  <2>2. Promised' = Promised
    BY <1>1, <2>1 DEF Promised, ContentLength
  <2>3. ReadTypes'
    BY <1>1, <2>1 DEF ReadTypes, ReadInv, Response
  <2>4. Answered'
    BY <1>1, <2>1 DEF Answered, ReadInv
  <2>5. Within'
    BY <1>1, <2>1, <2>2 DEF Within, ReadInv, ReadTypes
  <2> QED
    BY <1>1, <2>3, <2>4, <2>5 DEF ReadInv, ResponseTrue, Within
<1> QED
  BY <1>2, <1>3

----------------------------------------------------------------------------
(* The outcome.                                                            *)

\* The head is there, and the body may be read.
LEMMA BodyStarts ==
    ASSUME FrameInv, ReadInv, Received \/ HeadDone
    PROVE  ReadInv'
<1> USE DEF callVars, headVars, serverVars
<1>1. /\ UNCHANGED <<http2, call, response, sent, got, want, closed, trailers, recv>>
      /\ outcome = "none"
      /\ head' # "none" => recv = head'
  BY DEF Received, HeadDone, HeadPolled, ReadInv, Answered
<1>2. \/ pc' = "failed" /\ UNCHANGED outcome
      \/ recv = "ok" /\ pc' = "active" /\ UNCHANGED outcome
      \/ recv = "ok" /\ ~MayHaveBody /\ pc' = "done" /\ outcome' = "end"
  BY <1>1 DEF Received, HeadDone, Responds, Fails
<1>3. CASE UNCHANGED outcome
  BY <1>1, <1>2, <1>3, ReadsOn DEF Reading
<1>4. CASE recv = "ok" /\ ~MayHaveBody /\ pc' = "done" /\ outcome' = "end"
  <2>1. Promised' = Promised /\ ~MayHaveBody'
    BY <1>1, <1>4 DEF Promised, ContentLength, MayHaveBody
  <2>2. ReadTypes'
    BY <1>1 DEF ReadInv, ReadTypes, Response
  <2>3. Answered' /\ Within' /\ ResponseTrue'
    BY <1>1, <1>4, <2>1 DEF ReadInv, Answered, Within, ResponseTrue, Reading
  <2> QED
    BY <2>2, <2>3 DEF ReadInv
<1> QED
  BY <1>2, <1>3, <1>4

\* The body is over, for one reason or another.
LEMMA Finishes ==
    ASSUME ReadInv, recv = "ok", pc' = "done", want' \in Nat,
           UNCHANGED <<http2, call, response, sent, got, closed, trailers, recv, head>>,
           ResponseTrue'
    PROVE  ReadInv'
<1>1. Promised' = Promised
  BY DEF Promised, ContentLength
<1>2. ReadTypes'
  BY DEF ReadInv, ReadTypes, Response
<1>3. Answered' /\ Within'
  BY <1>1 DEF ReadInv, Answered, Within, Reading
<1> QED
  BY <1>2, <1>3 DEF ReadInv

LEMMA StepReads ==
    ASSUME FrameInv, ReadInv, Step
    PROVE  ReadInv'
<1> USE DEF callVars, serverVars
<1>1. /\ UNCHANGED <<http2, call, response, sent, got, want, closed, trailers, recv, head>>
      /\ recv = "ok" /\ outcome = "none" /\ pc = "step" /\ got <= sent /\ want \in Nat
      /\ head # "none" => recv = head
  BY DEF Step, ReadInv, ReadTypes, Answered, Within, Reading
<1>2. CASE outcome' = "error" /\ pc' = "done"
  <2>1. ResponseTrue'
    BY <1>1, <1>2 DEF ResponseTrue
  <2> QED
    BY <1>1, <1>2, <2>1, Finishes
<1>3. CASE UNCHANGED outcome /\ pc' \in {"step", "stepwrite", "query"}
  BY <1>1, <1>3, ReadsOn DEF Reading
<1>4. offer # NoFrame /\ Polled => offer.t \in {"data", "trailers", "error", "end"}
  BY FrameReady
<1> QED
  BY <1>1, <1>2, <1>3, <1>4 DEF Step

LEMMA PollReads ==
    ASSUME ReadInv, Poll
    PROVE  ReadInv'
<1> USE DEF callVars, serverVars, headVars
<1>1. /\ UNCHANGED <<http2, call, response, sent, got, want, closed, trailers, recv, head>>
      /\ recv = "ok" /\ outcome = "none" /\ got <= sent /\ want \in Nat
      /\ head # "none" => recv = head
  BY DEF Poll, ReadInv, ReadTypes, Answered, Within, Reading
<1>2. CASE Promised # None /\ Remaining = 0 /\ pc' = "done" /\ outcome' = "end"
  <2>1. ~http2 /\ response.lengths = {got} /\ got \in Nat
    BY <1>2, PromiseKnown DEF ReadInv, ReadTypes
  <2>2. Cardinality(response.lengths) = 1
    BY <2>1, FS_Singleton
  <2>3. response.lengths # {Unparsable}
    BY <2>1, ClientAssumption
  <2>4. ResponseTrue'
    BY <1>1, <1>2, <2>1, <2>2, <2>3 DEF ResponseTrue
  <2> QED
    BY <1>1, <1>2, <2>4, Finishes
<1>3. CASE UNCHANGED outcome /\ pc' \in {"step", "query"}
  BY <1>1, <1>3, ReadsOn DEF Reading
<1> QED
  BY <1>2, <1>3 DEF Poll

\* The end the platform reports is one the server made, or short of its promise.
LEMMA EndReported ==
    ASSUME ReadInv, closed = "end", got = sent, EndOfBody,
           UNCHANGED <<http2, call, response, sent, got, closed, trailers>>
    PROVE  ResponseTrue'
<1>1. got <= sent
  BY DEF ReadInv, Within
<1>2. CASE http2
  <2>1. PICK t \in RawTrailers : outcome' = CASE t = "error" -> "error"
                                             [] t = "good" /\ ParseTrailers -> "trailers"
                                             [] OTHER -> "end"
    BY <1>2 DEF EndOfBody
  <2>2. t \in {"error", trailers}
    BY DEF RawTrailers, QueryString
  <2>3. \/ outcome' = "error"
        \/ outcome' = "trailers" /\ trailers = "good"
        \/ outcome' = "end" /\ trailers # "good"
    BY <2>1, <2>2 DEF ParseTrailers
  <2> QED
    BY <1>1, <1>2, <2>3 DEF ResponseTrue
<1>3. CASE ~http2 /\ Shortfall
  <2>1. outcome' = "truncated"
    BY <1>3 DEF EndOfBody
  <2>2. response.lengths = {Promised} /\ got # Promised
    BY <1>3, PromiseKnown DEF Shortfall, Remaining, ReadInv, ReadTypes
  <2> QED
    BY <1>1, <2>1, <2>2 DEF ResponseTrue
<1>4. CASE ~http2 /\ ~Shortfall
  <2>1. outcome' = "end" /\ trailers = "none"
    BY <1>4 DEF EndOfBody, ReadInv, Answered
  <2>2. CASE Promised # None
    <3>1. Remaining = 0
      BY <1>4, <2>2, PromiseKnown DEF Shortfall
    <3>2. response.lengths = {got}
      BY <2>2, <3>1, PromiseKnown
    <3> QED
      BY <1>1, <2>1, <3>2 DEF ResponseTrue
  <2>3. CASE Promised = None
    <3>1. ~(Cardinality(response.lengths) = 1 /\ response.lengths # {Unparsable})
      BY <1>4, <2>3, LengthKnown DEF Promised, ReadInv, ReadTypes
    <3> QED
      BY <1>1, <2>1, <3>1 DEF ResponseTrue
  <2> QED
    BY <2>2, <2>3
<1> QED
  BY <1>2, <1>3, <1>4

LEMMA QueryReads ==
    ASSUME ReadInv, Query
    PROVE  ReadInv'
<1> USE DEF callVars, serverVars, headVars
<1>1. /\ UNCHANGED <<http2, call, response, sent, got, closed, trailers, recv, head>>
      /\ recv = "ok" /\ outcome = "none" /\ got <= sent
      /\ sent \in Nat /\ got \in Nat /\ want \in Nat
      /\ head # "none" => recv = head
  BY DEF Query, ReadInv, ReadTypes, Answered, Within, Reading
<1>2. CASE ReadFails
  <2>1. ResponseTrue'
    BY <1>1, <1>2 DEF ResponseTrue, ReadFails
  <2> QED
    BY <1>1, <1>2, <2>1, Finishes DEF ReadFails
<1>3. CASE closed = "end" /\ got = sent /\ EndOfBody /\ UNCHANGED want
  BY <1>1, <1>3, EndReported, Finishes DEF EndOfBody
<1>4. CASE /\ \E available \in 1..sent - got :
                LET n == IF available < MAX_READ THEN available ELSE MAX_READ
                IN want' = IF Promised # None /\ Remaining < n THEN Remaining ELSE n
           /\ pc' = "read" /\ UNCHANGED outcome
  <2>1. PICK n \in 1..sent - got : want' = IF Promised # None /\ Remaining < n THEN Remaining ELSE n
    <3>1. MAX_READ \in Nat \ {0}
      BY ClientAssumption
    <3>2. PICK a \in 1..sent - got :
            want' = IF Promised # None /\ Remaining < (IF a < MAX_READ THEN a ELSE MAX_READ)
                    THEN Remaining ELSE (IF a < MAX_READ THEN a ELSE MAX_READ)
      BY <1>4
    <3>3. PICK n : n = IF a < MAX_READ THEN a ELSE MAX_READ
      OBVIOUS
    <3>4. n \in 1..sent - got
      BY <1>1, <3>1, <3>3
    <3> QED
      BY <3>2, <3>3, <3>4
  <2>2. Promised # None => Promised \in Nat /\ got <= Promised /\ Remaining \in Nat /\ Remaining = Promised - got
    BY PromiseKnown DEF Remaining
  <2>3. /\ want' \in Nat /\ got + want' <= sent
        /\ Promised # None => got + want' <= Promised
    BY <1>1, <2>1, <2>2
  <2>4. Promised' = Promised
    BY <1>1 DEF Promised, ContentLength
  <2>5. ReadTypes'
    BY <1>1, <2>3 DEF ReadInv, ReadTypes, Response
  <2>6. Answered' /\ Within' /\ ResponseTrue'
    BY <1>1, <1>4, <2>3, <2>4 DEF ReadInv, Answered, Within, ResponseTrue, Reading
  <2> QED
    BY <2>5, <2>6 DEF ReadInv
<1> QED
  BY <1>2, <1>3, <1>4 DEF Query

LEMMA ReadReads ==
    ASSUME ReadInv, Read
    PROVE  ReadInv'
<1> USE DEF callVars, serverVars, headVars
<1>1. /\ UNCHANGED <<http2, call, response, sent, closed, trailers, recv, head>>
      /\ recv = "ok" /\ outcome = "none" /\ got <= sent /\ pc = "read"
      /\ sent \in Nat /\ got \in Nat /\ want \in Nat
      /\ head # "none" => recv = head
  BY DEF Read, ReadInv, ReadTypes, Answered, Within, Reading
<1>2. CASE ReadFails /\ UNCHANGED got
  <2>1. ResponseTrue'
    BY <1>1, <1>2 DEF ResponseTrue, ReadFails
  <2> QED
    BY <1>1, <1>2, <2>1, Finishes DEF ReadFails
<1>3. CASE got' \in got + 1..got + want /\ want' = 0 /\ pc' = "active" /\ UNCHANGED outcome
  <2>1. got + want <= sent /\ (Promised # None => got + want <= Promised /\ Promised \in Nat)
    BY <1>1, PromiseKnown DEF ReadInv, Within
  <2>2. got' \in Nat /\ got' <= sent /\ (Promised # None => got' <= Promised)
    BY <1>1, <1>3, <2>1
  <2>3. Promised' = Promised
    BY <1>1 DEF Promised, ContentLength
  <2>4. ReadTypes'
    BY <1>1, <1>3, <2>2 DEF ReadInv, ReadTypes, Response
  <2>5. Answered' /\ Within' /\ ResponseTrue'
    BY <1>1, <1>3, <2>2, <2>3 DEF ReadInv, Answered, Within, ResponseTrue, Reading
  <2> QED
    BY <2>4, <2>5 DEF ReadInv
<1> QED
  BY <1>2, <1>3 DEF Read

LEMMA ReadInvNext == FrameInv /\ ReadInv /\ [Next]_vars => ReadInv'
<1> SUFFICES ASSUME FrameInv, ReadInv, [Next]_vars PROVE ReadInv'
  OBVIOUS
<1>1. CASE ClientCode
  BY <1>1, RequestReads, BodyStarts, StepReads DEF ClientCode
<1>2. CASE Environment
  BY <1>2, RequestReads, ServerReads DEF Environment
<1>3. CASE Connect \/ OpenRequest \/ Configure \/ SendCompletes \/ Poll \/ Query \/ Read \/ Drop
  BY <1>3, RequestReads, PollReads, QueryReads, ReadReads
<1>4. CASE UNCHANGED vars
  BY <1>4, ReadsOn DEF vars, callVars, headVars, serverVars, readVars, ReadInv, Answered
<1> QED
  BY <1>1, <1>2, <1>3, <1>4 DEF Next

\* What the caller is told of the response is true: a clean end only when all
\* that was promised or sent was delivered and no readable trailers were left
\* out, and an end short of the promise as such (body.rs, poll_frame and
\* shortfall; h2.rs, the same of HTTP/2), however the server's bytes, its end
\* and the reads interleave.
THEOREM ResponsesTrue == Spec => []ResponseTrue
<1>1. ReadInv => ResponseTrue
  BY DEF ReadInv
<1> QED
  BY <1>1, FrameInvariant, ReadInvInit, ReadInvNext, PTL DEF Spec
=============================================================================
