------------------------------ MODULE Transfer ------------------------------
(***************************************************************************)
(* The whole-payload helpers of winasio (io.rs): write_all, read_exact and *)
(* read_to_end over a File, a NamedPipe or a socket, with the outcomes     *)
(* their single operations classify (fs/outcome.rs, net/outcome.rs) and    *)
(* the window each operation is given of the caller's buffer (TailBuf).    *)
(*                                                                         *)
(* The object is Stream's.  Either raw operations run on it (call is       *)
(* "none") or one helper does.  Bytes are numbered from 1 in the order the *)
(* source has them; a cell of the buffer holds such a number, Uninit, or   *)
(* Old for a byte the caller's Vec had before.                             *)
(***************************************************************************)
EXTENDS Stream, Sequences, SequencesExt

CONSTANTS
    Helper,         \* the operation a helper has in flight
    HELPER_CHUNK,   \* the largest window
    MaxBytes,       \* bytes a source offers, at most
    MaxMessages,    \* writes of a peer, at most
    Target,         \* bytes write_all and read_exact are asked for
    Offset          \* where in a file a helper starts

ASSUME TransferAssumption ==
    /\ Helper \in Ops
    /\ {HELPER_CHUNK, Target} \subseteq Nat \ {0}
    /\ {MaxBytes, MaxMessages, Offset} \subseteq Nat

Uninit == 0
Old == MaxBytes + 1

VARIABLES
    call,           \* the helper
    mode,           \* a pipe's read mode
    src,            \* bytes the source has offered
    pending,        \* those in the pipe or the socket: the lengths of its messages
    writes,         \* writes of the peer so far
    ended,          \* how the peer ended
    taken,          \* bytes the kernel has put into the buffer
    cells, len,     \* the buffer and its initialised length
    start,          \* where in the buffer the helper's bytes begin
    transferred, position,
    io,             \* what the kernel made of the operation
    out,            \* bytes the peer or the file has got
    verdict         \* what the helper returned

sourceVars == <<src, pending, writes, ended>>
bufferVars == <<cells, len, start>>
helperVars == <<call, mode, taken, transferred, position, io, out, verdict>>
transferVars == <<sourceVars, bufferVars, helperVars>>
allVars == <<streamVars, transferVars>>

NoIo == [code |-> "none", n |-> 0]

\* A Vec of `total` bytes of which l are initialised.  (A boxed slice always is
\* as a whole: its set_init does nothing.)
Buffer(l, total) ==
    /\ len = l
    /\ cells = [i \in 1..total |-> IF i <= l THEN Old ELSE Uninit]

TransferInit ==
    /\ StreamInit
    /\ call \in {"none", "write_all", "read_exact", "read_to_end"}
    /\ mode \in {"byte", "message"}
    /\ call \in {"none", "write_all"} => mode = "byte"
    /\ src = 0
    /\ pending = <<>>
    /\ writes = 0
    /\ ended = "no"
    /\ taken = 0
    /\ \/ /\ call = "none"
          /\ cells = <<>> /\ len = 0 /\ start = 0
       \/ /\ call = "write_all"
          /\ cells = [i \in 1..Target |-> i] /\ len = Target /\ start = 0
       \/ /\ call = "read_exact"
          /\ Buffer(0, Target) \/ Buffer(Target, Target)
          /\ start = 0
       \/ /\ call = "read_to_end"
          /\ Buffer(0, 1) \/ Buffer(1, 2)
          /\ start = len
    /\ transferred = 0
    /\ position = 0
    /\ io = NoIo
    /\ out = <<>>
    /\ verdict = "idle"

----------------------------------------------------------------------------
(* The peer.                                                               *)

Whence == IF kind = "file" THEN position - Offset ELSE taken
Reads == call \in {"read_exact", "read_to_end"}

\* A message more, or more bytes of a byte stream.
PeerWrites(n) ==
    /\ stage = "open" /\ Reads /\ kind # "file" /\ ended = "no"
    /\ src + n <= MaxBytes /\ writes < MaxMessages
    /\ n = 0 => Pipe /\ mode = "message"
    /\ src' = src + n
    /\ writes' = writes + 1
    /\ pending' = IF (Pipe /\ mode = "message") \/ pending = <<>> THEN Append(pending, n)
                  ELSE <<Head(pending) + n>>
    /\ UNCHANGED <<streamVars, ended, bufferVars, helperVars>>

\* It closes; it resets a connection, or disconnects a pipe, and what was not
\* read is discarded.
PeerEnds(how) ==
    /\ stage = "open" /\ call # "none" /\ kind # "file" /\ ended = "no"
    /\ ended' = how
    /\ pending' = IF how = "closed" THEN pending ELSE <<>>
    /\ src' = IF how = "cut" /\ Pipe THEN taken ELSE src
    /\ UNCHANGED <<streamVars, writes, bufferVars, helperVars>>

----------------------------------------------------------------------------
(* One operation.                                                          *)

\* TailBuf: the window starts at Begins and has WindowLen cells.
Begins == IF call = "read_to_end" THEN len ELSE transferred
WindowLen ==
    LET whole == IF call = "write_all" THEN len ELSE Len(cells)
    IN Min({HELPER_CHUNK, whole - Begins})

\* s with the bytes b from place `at` on.
PutAt(s, at, b) ==
    [i \in 1..Max({Len(s), at + Len(b)}) |->
        IF i \in at + 1..at + Len(b) THEN b[i - at] ELSE IF i <= Len(s) THEN s[i] ELSE Uninit]

Code(code) == {[code |-> code, n |-> 0]}
Bytes(code, ns) == {[code |-> code, n |-> n] : n \in ns}

\* What ends every kind of call: cancellation, and a failure of the device.
Failures ==
    (IF Helper \in cancelled THEN Code("ERROR_OPERATION_ABORTED") ELSE {})
        \cup Code("ERROR_IO_DEVICE")

\* ReadFile of a local file.
FileReads ==
    IF src = Whence THEN Code("ERROR_HANDLE_EOF")
    ELSE Bytes("ok", 1..Min({WindowLen, src - Whence}))

\* ReadFile of a pipe and WSARecv: nothing, while there is nothing to read.
PeerReads ==
    IF pending # <<>> THEN
        LET m == Head(pending)
        IN IF Pipe /\ mode = "message"
           THEN IF m > WindowLen THEN Bytes("ERROR_MORE_DATA", {WindowLen}) ELSE Bytes("ok", {m})
           ELSE Bytes("ok", 1..Min({WindowLen, m}))
    ELSE CASE ended = "no" -> {}
           [] ended = "closed" -> IF Pipe THEN Code("ERROR_BROKEN_PIPE") ELSE Bytes("ok", {0})
           [] ended = "cut" -> IF Pipe THEN Code("ERROR_PIPE_NOT_CONNECTED")
                               ELSE Code("WSAECONNRESET") \cup Code("ERROR_NETNAME_DELETED")

\* WriteFile and WSASend may take part of the window.
Writes ==
    IF ended = "no" THEN Bytes("ok", 0..WindowLen)
    ELSE IF Pipe THEN Code("ERROR_NO_DATA") \cup Code("ERROR_BROKEN_PIPE")
    ELSE Code("WSAECONNRESET") \cup Code("ERROR_NETNAME_DELETED")

\* The kernel completes the read of a helper and fills its window.
KernelReads ==
    /\ verdict = "running" /\ Reads
    /\ \E r \in Failures \cup (IF kind = "file" THEN FileReads ELSE PeerReads) :
        /\ Completes(Helper, IF r.code = "ok" THEN "ok" ELSE "failed")
        /\ io' = r
        /\ cells' = PutAt(cells, Begins, [i \in 1..r.n |-> Whence + i])
        /\ taken' = taken + r.n
        /\ pending' = IF kind = "file" \/ pending = <<>> \/ r.code \notin {"ok", "ERROR_MORE_DATA"}
                      THEN pending
                      ELSE IF Head(pending) = r.n THEN Tail(pending)
                      ELSE <<Head(pending) - r.n>> \o Tail(pending)
    /\ UNCHANGED <<call, mode, src, writes, ended, len, start, transferred, position, out, verdict>>

\* It completes the write of a helper: into the file at its position, or after
\* what the peer has.
KernelWrites ==
    /\ verdict = "running" /\ call = "write_all"
    /\ \E r \in Failures \cup Writes :
        /\ Completes(Helper, IF r.code = "ok" THEN "ok" ELSE "failed")
        /\ io' = r
        /\ out' = PutAt(out, IF kind = "file" THEN position - Offset ELSE Len(out),
                        SubSeq(cells, Begins + 1, Begins + r.n))
        /\ taken' = taken + r.n
    /\ UNCHANGED <<sourceVars, bufferVars, call, mode, transferred, position, verdict>>

\* TailBuf::set_init.
Published == Begins + Min({io.n, WindowLen})

\* Mutant of Filled: a message that was cut short is not published.
FilledOkOnly == IF Reads /\ io.code = "ok" THEN Published ELSE len

\* record_completion: set_init after a success, or a message too long.
Filled ==
    IF Reads /\ (io.code = "ok" \/ (io.code = "ERROR_MORE_DATA" /\ kind # "socket"))
    THEN Published ELSE len

HelperDispatch ==
    /\ verdict = "running"
    /\ Dispatch(Helper)
    /\ len' = Filled
    /\ UNCHANGED <<sourceVars, cells, start, helperVars>>

----------------------------------------------------------------------------
(* Outcomes.                                                               *)

\* classify_read; "Err" stands for the error itself.
ClassifyRead(r) ==
    CASE r.code = "ok" -> "Bytes"
      [] r.code = "ERROR_HANDLE_EOF" -> "Eof"
      [] r.code \in {"ERROR_BROKEN_PIPE", "ERROR_PIPE_NOT_CONNECTED", "ERROR_NETNAME_DELETED"}
            -> "ClosedPeer"
      [] r.code = "ERROR_MORE_DATA" -> "MoreData"
      [] OTHER -> "Err"

\* Mutants of ClassifySocketRead: the end of the stream is zero bytes; a reset
\* is the end.
ClassifySocketZero(r) == IF r.code = "ok" THEN "Bytes" ELSE "Err"
ClassifySocketReset(r) == IF r.code = "ok" /\ r.n > 0 THEN "Bytes" ELSE "ClosedPeer"

\* classify_socket_read: a window is never empty, so zero bytes are the end.
ClassifySocketRead(r) ==
    CASE r.code = "ok" /\ r.n = 0 -> "ClosedPeer" [] r.code = "ok" -> "Bytes" [] OTHER -> "Err"

ReadOutcome(r) == IF kind = "socket" THEN ClassifySocketRead(r) ELSE ClassifyRead(r)

\* classify_platform_error.
PlatformError(r) ==
    IF r.code \in {"ERROR_BROKEN_PIPE", "ERROR_NO_DATA", "ERROR_PIPE_NOT_CONNECTED",
                   "ERROR_NETNAME_DELETED", "WSAECONNRESET"}
    THEN "ClosedPeer" ELSE "Win32"

----------------------------------------------------------------------------
(* The helpers.                                                            *)

\* The future is polled first: a file's source is what it holds.
Begin ==
    /\ stage = "open" /\ kind # "listener"
    /\ call # "none" /\ verdict = "idle"
    /\ verdict' = "running"
    /\ position' = Offset
    /\ IF kind = "file" /\ Reads THEN src' \in 0..MaxBytes ELSE UNCHANGED src
    /\ UNCHANGED <<streamVars, pending, writes, ended, bufferVars, call, mode, taken, transferred,
                   io, out>>

\* The loop submits its next operation; read_to_end makes room first.
Loop ==
    /\ verdict = "running"
    /\ call = "read_to_end" \/ transferred < Target
    /\ IF Reads THEN ReadOnce(Helper) ELSE WriteOnce(Helper)
    /\ cells' = IF call = "read_to_end" /\ len = Len(cells)
                THEN cells \o [i \in 1..HELPER_CHUNK |-> Uninit] ELSE cells
    /\ UNCHANGED <<sourceVars, len, start, helperVars>>

\* It is through.
LoopEnds ==
    /\ verdict = "running" /\ ops[Helper] = NoOp
    /\ call # "read_to_end" /\ transferred = Target
    /\ verdict' = "ok"
    /\ UNCHANGED <<streamVars, sourceVars, bufferVars, call, mode, taken, transferred, position,
                   io, out>>

\* advance_position, of a file only.
AdvancePosition(n) == IF kind = "file" THEN position + n ELSE position

\* What the helper does with the result: go on with n bytes more, or return.
GoesOn(n) ==
    /\ transferred' = transferred + n
    /\ position' = AdvancePosition(n)
    /\ UNCHANGED verdict
Gives(v) == verdict' = v /\ UNCHANGED <<transferred, position>>

WriteAwaited ==
    IF io.code # "ok" THEN Gives(PlatformError(io))
    ELSE IF io.n = 0 THEN Gives("ClosedPeer")
    ELSE GoesOn(io.n)

ReadExactAwaited ==
    CASE ReadOutcome(io) = "Eof" -> Gives("UnexpectedEof")
      [] ReadOutcome(io) = "ClosedPeer" -> Gives("ClosedPeer")
      [] ReadOutcome(io) = "Err" -> Gives(PlatformError(io))
      [] OTHER -> GoesOn(Min({io.n, Target - transferred}))

ReadToEndAwaited ==
    CASE ReadOutcome(io) \in {"Eof", "ClosedPeer"} -> Gives("ok")
      [] ReadOutcome(io) = "Err" -> Gives(PlatformError(io))
      [] OTHER -> GoesOn(io.n)

Awaited ==
    /\ verdict = "running"
    /\ Resolve(Helper)
    /\ CASE call = "write_all" -> WriteAwaited
         [] call = "read_exact" -> ReadExactAwaited
         [] OTHER -> ReadToEndAwaited
    /\ io' = NoIo
    /\ UNCHANGED <<sourceVars, bufferVars, call, mode, taken, out>>

\* The helper's future is dropped, and its operation's with it.
DropHelper ==
    /\ verdict = "running"
    /\ DropFuture(Helper)
    /\ verdict' = "dropped"
    /\ UNCHANGED <<sourceVars, bufferVars, call, mode, taken, transferred, position, io, out>>

----------------------------------------------------------------------------

\* A helper borrows the object; without one, raw operations run, and connects.
\* An object a helper is meant for is not dropped before it.
RawStep ==
    /\ verdict # "running"
    /\ \/ Makes
       \/ (call = "none" \/ verdict # "idle") /\ Ends
       \/ \E p \in Ops :
            \/ call = "none" /\ (Accept(p) \/ ReadOnce(p) \/ WriteOnce(p))
            \/ Connect(p)
            \/ \E res \in {"ok", "failed", "aborted"} : Completes(p, res)
            \/ Dispatch(p) \/ Resolve(p) \/ DropFuture(p)
    /\ UNCHANGED transferVars

Teardown == TearsDown /\ UNCHANGED transferVars

HelperCode == Begin \/ Loop \/ LoopEnds \/ HelperDispatch \/ Awaited

TransferNext ==
    \/ RawStep \/ Teardown
    \/ \E n \in 0..MaxBytes : PeerWrites(n)
    \/ \E how \in {"closed", "cut"} : PeerEnds(how)
    \/ KernelReads \/ KernelWrites
    \/ HelperCode \/ DropHelper

\* Drops run to their end; packets are dispatched; the kernel ends a call that
\* was cancelled, and a read of a helper whose source has ended; a task that
\* was woken is polled.
TransferFairness ==
    /\ WF_allVars(Teardown)
    /\ \A p \in Ops :
        /\ WF_allVars(Dispatch(p) /\ RawStep)
        /\ WF_allVars(p \in cancelled /\ Completes(p, "aborted") /\ RawStep)
    /\ WF_allVars(HelperCode)
    /\ WF_allVars((ended # "no" \/ kind = "file") /\ KernelReads)

TransferSpec == TransferInit /\ [][TransferNext]_allVars /\ TransferFairness

----------------------------------------------------------------------------
(* Properties.                                                             *)

Cp == INSTANCE Copy WITH
    ToTheEnd <- -1,
    source <- IF call = "write_all" THEN Target ELSE src,
    over <- \/ call = "write_all" \/ ended = "closed" \/ (ended = "cut" /\ Pipe)
            \/ kind = "file" /\ verdict # "idle",
    goal <- IF call = "read_to_end" THEN -1 ELSE Target,
    sink <- IF call = "write_all" THEN out ELSE SubSeq(cells, start + 1, start + transferred),
    verdict <- CASE verdict \in {"idle", "running"} -> "none" [] verdict = "ok" -> "ok"
                 [] OTHER -> "failed"

\* A helper implements Copy: over short reads and writes, messages cut to the
\* window, empty messages, a position of its own and an end of the source at
\* any moment, the bytes arrive in order, none twice and none left out, and
\* the helper says Ok only when it has moved all it was asked for.  A reset
\* connection is not the end of a stream.
Copies == Cp!Spec

\* What the caller gets back is true: a helper that returned, with whatever
\* verdict, counted every byte the kernel moved, so that the caller can go on
\* from there; and the buffer is initialised as far as its length says.
Returned ==
    /\ verdict \in {"ok", "UnexpectedEof", "ClosedPeer", "Win32"} =>
        /\ transferred = taken
        /\ call = "read_to_end" => len = start + transferred
    /\ \A i \in 1..len : cells[i] # Uninit

\* A read helper returns once its source has ended, if it is not dropped.
HelperEnds == (verdict = "running" /\ Reads /\ (ended # "no" \/ kind = "file")) ~> verdict # "running"
=============================================================================
