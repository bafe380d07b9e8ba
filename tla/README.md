# A verification project for winasio

winasio makes Windows overlapped I/O awaitable from Rust. Its hard part is not
arithmetic but *ownership under concurrency*: a future, the kernel and one or more
dispatching threads share an allocation that Windows writes into, futures may be
dropped at any moment, backends are torn down while operations are in flight, and
higher layers (HTTP.sys, WinHTTP) add their own handles, slots and notifications on
top. Almost none of that can be provoked reliably by a test. The modules here model
that part of the code step by step, TLC explores every interleaving on small
instances, and TLAPS proves the central safety properties for any number of
operations, threads and tasks.

Paths below are relative to `crates/` of the repository.

## 1. Inventory

### 1.1 Components

| Component | Source | State | Operations | Status |
|---|---|---|---|---|
| Operation core | `winasio/src/iocp/raw.rs`, `future.rs`, `op.rs` | the `Arc<RawOp>` (count, `OpState`, result slot, waker, operation), the set `live`, the `Submit` future | new, leak, operate, unleak, poll, drop, complete, erased cancel | `RawOp` |
| Thread-pool backend | `winasio/src/iocp/threadpool.rs` | `PTP_IO`, its start count, `Registration` | submit, `io_callback`, teardown | `ThreadPoolIo` |
| Proactor | `winasio/src/iocp/proactor.rs`, `port.rs` | completion port, pending table, batch | submit, poll, shutdown | `Proactor` |
| Waiting on a handle | `winasio/src/iocp/ops/event.rs` | `WaitContext`, `posted`, the registered wait | operate, callback, cancel, on_complete | `WaitForHandle` |
| WinHTTP request | `winasio/src/winhttp/context.rs`, `ops.rs`, part of `mod.rs`, `handle.rs` | two slots, retained buffers, context count | arm, the five operations, status callback, close | `WinHttpContext` |
| HTTP.sys queue | `winasio/src/httpsys/queue.rs`, `ops/*.rs` | `Open` under a lock, counted `QueueHandle`, the retry loop | receive, send, cancel, close | `RequestQueue` |
| Handles, backends | `winasio/src/iocp/handle.rs`, `backend.rs` | counted handle, registration | register, release, close | `Stream` |
| Buffers, helpers | `winasio/src/iocp/buf.rs`, `winasio/src/io.rs` | capacity and initialised length; progress of a whole-payload transfer | `set_init`, `write_all`, `read_exact`, `read_to_end` | `Transfer`, against `Copy` |
| File and stream operations | `winasio/src/iocp/ops/{file,stream,sys}.rs` | the buffer and the outcome | operate, record_completion, into_result | `Stream`, `Transfer` (partly) |
| Files | `winasio/src/fs/*` | handle, registration, position of a helper | open, adopt, positional transfers, drop | `Stream`, `Transfer` (partly) |
| Pipes | `winasio/src/pipe/*` | server instance: idle, connecting, connected | create, connect, disconnect, client connect, transfers, drop | `Stream`, `Transfer` (partly) |
| Sockets | `winasio/src/net/*` | listener, the socket of an accept, stream | bind, accept, connect, transfers, drop | `Stream`, `Transfer` (partly) |
| Socket addresses | `winasio/src/net/{addr,unix_addr,ext}.rs` | none | encodings | not modelled |
| HTTP.sys session | `winasio/src/httpsys/{init,session}.rs` | session and URL group ids | new, add URL, bind | only `Build` of `HttpServer` |
| HTTP.sys request/response | `winasio/src/httpsys/{request,response,header,ssl}.rs` | parsed views of a kernel buffer | accessors, builders | not modelled |
| HTTP server | `winasio-util/src/server/*` | accept loop, responders, request bodies, shutdown handle | build, accept, serve, send, send_streaming, reject, shut down | `HttpServer`, `Responder` |
| HTTP client | `winasio-util/src/{client,h2,body}.rs` | upload half, download half, response body | request, poll_frame, drop | `HttpClient` |
| Headers, URIs of the client | `winasio-util/src/{headers,uri}.rs` | none | decompose, encode, parse, content_length | `HttpClient` (partly) |
| Errors | `winasio-util/src/error.rs`, `*/error.rs` | none | types, texts, conversions | not modelled |
| axum integration | `winasio-axum/src/*` | gate, accept future, executor with its tasks | serve, dispatch, stop | `HttpServer` |
| tonic integration | `winasio-tonic/src/*` | none of its own | channel and server adapters | not modelled |
| Tests, benches, examples | `winasio-tests/*` | - | - | not modelled |

### 1.2 How they interact

* A backend's `submit` allocates the operation, leaks a reference to the kernel (and
  records the address in `live`), and starts the call. The completion is delivered
  by the pool's callback or by `Proactor::poll`; both end in
  `dispatch_completion_with`, which claims the address from `live` before it touches
  it. So two components share one allocation, and a reference count is the only thing
  that says when it dies.
* The proactor keeps, besides, an erased reference per pending operation so that
  `shutdown` can cancel it. A wait on a handle is an operation whose packet is posted
  by user-mode code: the wait callback, or `cancel`.
* `RequestQueue` runs operations of either backend over one counted handle; `close`
  takes the handle away while others are between checking that it is open and starting
  a call.
* WinHTTP does not use completion ports: it calls a status callback with a pointer to
  a reference-counted context. The futures of a request meet those callbacks in two
  slots under a mutex.
* Files, pipes and sockets own a counted handle and a registration. Every operation has a
  clone of the handle, so that whoever goes last closes it. The helpers of `io.rs` run one
  operation after another on such an object and put the pieces together.
* The HTTP server receives from a `RequestQueue` and answers through it, one task per
  request; `winasio-axum` drives it with a tower service, whose readiness gates the next
  accept. The HTTP client drives the futures of a WinHTTP request, over HTTP/2 several at
  a time. `winasio-tonic` is a client of both.

### 1.3 What is hard here

Concurrency: poll, drop and completion of one operation race with each other, and a
completion can be delivered before the call that started it has returned. Memory:
Windows writes into a buffer whose future is gone. Address reuse: a packet of a freed
operation, or of somebody else's overlapped call, must not be taken for ours.
Teardown: every backend must wait for exactly the completions it is owed. Failure:
user code (`operate`, `on_complete`, a waker) may panic at several points, and a wait
on the port may fail. Stale notifications: WinHTTP notifications do not say which
operation they are for. Termination: shutdown, close and the retry loop must end.
Framing: the bodies of requests and responses come in frames of any size, may break their
promised length, fail or stop, while each write may be short or fail; what is on the wire
must still be one well-formed message, and what the caller is told must be true.
Cyclic waits: a server loop that waits for a reservation only its own tasks give back, a
client that waits for a frame of a caller who waits for the response.
`PROJECT.json` lists each of these hazards at the line where it bites, with the
properties that would catch it going wrong.

### 1.4 What makes each component correct

* Operation core: exact reference counts; Windows writes to live memory only; the
  `MaybeUninit` result is read once and only after it was written; one completion per
  operation; no lost wake-up; an abandoned operation is freed.
* Thread pool: starts and callbacks balance; a closed registration has nothing running;
  teardown ends.
* Proactor: the pending table is exact; shutdown drains exactly what it cancelled;
  it ends.
* Wait: exactly one packet; the callback's reference is dropped exactly once.
* WinHTTP: buffers outlive WinHTTP's use of them; a completion reaches its own
  operation; the context is freed exactly once and at last.
* Queue: the handle is closed once, after its last use; nobody is stranded by `close`;
  no request is forgotten or handed out twice; a request is called too large only if
  it is.
* Objects: the handle is open while anything uses it, and a drop ends.
* Helpers: the bytes arrive in order, none twice and none left out; `Ok` means all of them;
  the count is right after a failure too.
* Server: a request that was taken is answered, reported or dropped with the loop; none is
  taken that cannot be served; a closed queue stops the loop; no response on the wire is
  malformed.
* Client: the request is framed as declared; a response is reported complete only if it is;
  `request` returns when the head is there; no byte of the request body is skipped (it can
  be: section 3.3).

## 2. Modules

`RawOp` is the abstract specification of the I/O layer: what may happen to an
operation, whoever drives it. `ThreadPoolIo` and `Proactor` extend it (its state is
part of theirs), restrict its steps to the ones the backend takes, add the backend's
own state, and are shown to implement it. The other modules take from the layer below
only what it establishes:

    HttpServer ---> Responder                   HttpClient
        |  uses                                     .  futures and slots below it
    Delivery <=== RequestQueue                  WinHttpContext
                     .
    Copy <=== Transfer ---> Stream
                     .  an operation completes at most once, and lives until then
    RawOp <=== ThreadPoolIo, Proactor           WaitForHandle

(`<===` is implemented by, `--->` extends, dots are assumptions taken over.) The theorems about
a module `M` are in `MProofs` (those about `Stream` and `Transfer` in `StreamProofs`, about `ThreadPoolIo`
and `Proactor` in `BackendProofs`, about `Responder` in `HttpServerProofs`), its instances
for TLC in `MCM` (`MCStreams` for `Transfer`).

### 2.1 `RawOp`

One step is one access to shared state: a compare-exchange, a critical section, a
write of the result slot, a change of the reference count.

| State | Code |
|---|---|
| `strong[a]` | strong count of the `Arc<RawOp>` at address `a`; 0 is free memory, which `New` may use again |
| `state`, `result`, `waker`, `op`, `oplock` | the fields of `RawOp`; `oplock` is the mutex of `op`, with its poisoning |
| `live` | `mod live`, the addresses whose reference the kernel owns |
| `tracked` | addresses with an `ErasedCancel` in the pending table |
| `io`, `cancelled` | external: the overlapped call, none, in flight, or its packet queued |
| `fut` | where the owner of the future is: inside `submit`, `poll` or `drop`, or between them |
| `awaiting`, `notified` | ghost: the task of the latest poll, and the tasks woken since |
| `wpc`, `waddr`, `wwaker` | the threads inside `dispatch_completion_with` and `complete_erased` |

`New`..`Unleak` are the parts of `submit`; `SetWaker`, `TakeCompletion`, `Resolve`,
`PollReady` are `poll`; `Abandon`, `Cancel`, `Release` are `drop`; `Claim`..`Wake` are the
dispatch. `HookPanics`, `OperatePanics` and `HookInlinePanics` are the panics of user code,
with what unwinding drops. Foreign addresses are overlapped calls that are not this
library's; only their packets matter. The payload of a result is left out: what counts
is whether the slot is uninitialised, initialised or moved out of.

Memory ordering is not modelled: steps are sequentially consistent. The code uses
acquire/release compare-exchanges and mutexes on everything that is shared, and the
result slot is published by the exchange that follows its write.

### 2.2 `ThreadPoolIo`

Adds `starts`, the pool's count of I/O announced with `StartThreadpoolIo`, and `reg`, the
phases of `Drop for Registration`. `PoolStart` raises the count before `operate`;
`PoolStarted` lowers it for the two inline outcomes; `StartGuard` lowers it when
`operate` panics; the pool (external) lowers it when a callback returns. `WaitAndClose`
is `WaitForThreadpoolIoCallbacks(io, false)` followed by `CloseThreadpoolIo`.

### 2.3 `Proactor`

Adds the pending table, the batch (`driver`, `count`, `slot`) and the phases of `shutdown`.
A worker of `RawOp` is a slot of the batch. A panic in a completion hook unwinds out
of `poll` and loses the packets behind it (`DispatchPanics`, `Unwind`). Two ghosts remember
what a panic or a failing port took away: `lost`, the addresses whose packet was dropped,
and `cut`, that shutdown ended before it had drained. Submissions are
made by the driving thread between polls or from a waker that `poll` runs.

### 2.4 `WaitForHandle`

The race of event.rs: the wait callback and up to two cancellations (of the dropped
future and of shutdown) contend for `posted` and for the callback's reference to the
`WaitContext`. `reg` is the registered wait as Windows sees it.

### 2.5 `WinHttpContext`

One request. `slot` has the write and the read slot; `retired` and `send_retention` hold
the generations of the buffers kept for WinHTTP. The field `src` of a slot is ghost: the
generation of the operation whose notification completed it. WinHTTP is external
(`plat`, `bodies`, `phase`, `notes`): it may run a callback inside the submitting call, so
the notification may come before that call has returned; it serialises the callbacks of
one handle; an error ends all its operations; `HANDLE_CLOSING` comes last.

### 2.6 `RequestQueue`

Callers go through `with_open` (clone of the handle under the read lock), `submit` (the
lock again) and the await; `receive` retries with larger capacities and finally rejects.
`close` takes the `Open`, cancels, drops the backend, releases the handle. HTTP.sys is
external: it delivers a queued request that fits, reports `ERROR_MORE_DATA` with the
request's id for one that does not, and fails a call that was cancelled. The queue
implements `Delivery`, which says where a request can be and how it moves; the mapping reads
the place of a request off the queue, the calls and what became of it (`Places`).

### 2.7 `Stream`, `Transfer`, `Copy`

`Stream` follows one `File`, `NamedPipeServer`/`NamedPipe`, `TcpListener`, `TcpStream` or Unix
counterpart. `refs` is the strong count of its handle, `reg` its registration; `stage` is the
typestate, with the phases of the drop (`ReleaseSubmitter`, `DropSubmitter`, `DropHandle`). An
operation is seen from outside: in flight, its packet queued, or dispatched. `Makes` has the
constructors and what each can fail with after the handle exists; `Connect` moves the object
into a future, as `NamedPipeServer::connect` does, and `DropConnect` is its `InnerGuard`.

`Transfer` adds the helpers of `io.rs` on such an object. A byte is its number in the source,
so that a copy can be checked for order, gaps and repetitions; a cell of the buffer may
also be `Uninit`, or `Old` for what the caller's `Vec` had before. `KernelReads` and
`KernelWrites` are external and give the codes Windows gives for files, pipes in byte and
message mode, and sockets; `ClassifyRead` and `ClassifySocketRead` are the code's reading of
them; `Filled` is `record_completion`. `Copy` is the promise: numbered bytes are moved in order
and the verdict is "ok" only when the goal is reached.

### 2.8 `Responder` and `HttpServer`

`Responder` has, per request, the task that answers it: `Begin` chooses between refusal, a
bodiless reply and a body (`from_http`, `send_parts`), `Decide` the framing after up to two
frames, `Piece` and `Write` are the streaming loop with its bounded writes, `End` and `Close` the
two ways to finish. `wire` is what the peer has been sent. `HttpServer` adds the accept loop
and the drivers: `Server::serve`, `winasio_axum::serve` with each of its executors, and a
caller's own loop. `Driven` says when a task can run, which is the difference between the
executors; `held` are the reservations of the service. `IncomingBody` is `read`. The queue
below is `Delivery`, used through an instance.

### 2.9 `HttpClient`

One request from `Client::request` to the end of the response body, in both protocols.
`Start`, `ChooseFraming`, `Connect`, `OpenRequest` and `Configure` are what precedes the head,
each with its failures; `Pull` and `Wrote` are `write_body`; `HeadPull`, `HeadWrote` and `HeadDone`
are `drive_head`, where every poll also polls the receive (`HeadPolled`); `Step` and `StepWrote`
are the upload half of `duplex_step`, `Query` and `Read` the download. Bytes of the request body
are numbered as in `Transfer`. WinHTTP is external: its calls complete in full, in part, or
fail, as the tables of `winhttp/mod.rs` allow; that a future gets its own completion is what
`WinHttpContext` is about.

## 3. Runs

| Run | Shows |
|---|---|
| `rawop` | the operation core with panics, a foreign packet, reuse of an address, two dispatchers and two tasks: its safety properties (`RefCount`, `KernelMemory`, `ResultSlot`, `NoLostWakeup`), a completed future resolves (`CompletionResolves`), an abandoned operation is freed (`AbandonedFreed`) |
| `threadpool` | two operations, with panics: a closed registration has nothing outstanding (`PoolClosed`), refinement of `RawOp` (`PoolImplementsRawOp`), teardown ends (`TeardownEnds`) |
| `proactor` | two operations, with panics and a failing port: the pending table and the drain count (`OwedExact`), the closed port (`ClosedDrained`) and refinement of `RawOp` (`ImplementsRawOp`) |
| `proactor_live` | one operation and a foreign packet: shutdown ends, and with somebody polling completed futures resolve (`DriverProgress`) |
| `wait` | one packet and an exact context count (`OncePerWait`), a signalled or cancelled wait completes and a dropped one is freed (`WaitEnds`) |
| `winhttp` | buffers and send bodies outlive WinHTTP's use (`BufferAlive`), completions reach their own operation (`RightCompletion`), no lost wake-up (`NoLostWakeup`), the context count (`ContextCount`) |
| `winhttp_live` | pending futures resolve, parked slots recover and the context is freed (`NothingStuck`) |
| `queue` | the handle (`HandleSafe`), the close race (`NoneStranded`), the retry loop (`TooLargeJustified`, `Cleared`), refinement of `Delivery` (`DeliversOnce`), close ends (`CloseEnds`) |
| `streams` | the handle outlives every use (`HandleAlive`) and is closed at last (`Closes`); the helpers implement `Copy` (`Copies`), return a true count and an initialised buffer (`Returned`) and end with their source (`HelperEnds`) |
| `server` | no malformed response, and no body from `send` where there may be none (`WireSound`), truthful results (`ResultTrue`), whole request bodies (`BodyWhole`), no accept before readiness (`Backpressure`), every request is dealt with (`Settled`), a closed queue stops the loop (`Stops`) |
| `client` | requests are framed as declared (`RequestFramed`), what is said of the response is true (`ResponseTrue`), `request` returns once the head is there (`HeadReturns`) |
| `client_gap` | *violation*: over HTTP/2 part of a request body can be skipped (`CarriedOver`) |

The modules state their type invariants (`TypeOK`, `PoolTypeOK`, `ProcTypeOK`, `StreamTypeOK`,
`ServerTypeOK`, ...) as the description of their state; that of `RawOp` is proved (section 4).
No run lists them.

Deadlock is checked in `server`: a state where the loop has not ended or a task is in
flight, and nothing can happen, would be one (`Over` stutters when all is done). In the other
runs nobody has to submit anything, so the systems may stop.

### 3.1 Bounds, and why they are enough

* `rawop`: one address. Addresses interact only through reuse of the same one (covered,
  since `New` takes it again), the worker that handles them and the notified set; two
  addresses occur in `threadpool` and `proactor`, and the proofs hold for any number. Two
  workers and two tasks are needed for two dispatchers to meet and for a future to move
  between tasks.
* `threadpool`: two operations, so that teardown has one to wait for while the other
  completes. One pool thread: two of them dispatching at once is what `rawop` covers.
* `proactor`: two operations and a batch of 2, so that a panic has a packet of ours behind
  it and shutdown a completion left to drain. `proactor_live` has one operation and one
  foreign packet, in either order.
* `wait`: two waits on one target. The two cancellers and the callback of one wait are
  what races.
* `winhttp`: four operations (`MaxGeneration`) are enough for a slot to be abandoned,
  recovered and used again while the other side is busy. Two tasks make a future move.
  `winhttp_live` has three operations and one task.
* `queue`: two callers that may drop what they wait for, two requests: one that fits only at
  the last retry, and one that never fits. `MAX_CAPACITY` is not a multiple of the growth, so
  the last attempt is clamped. The backend is the thread pool (`Pool`), whose drop waits for
  the callbacks.
* `streams`: two operations, so that one may be in flight when the other returns or the
  object is dropped; both backends; every kind of object. Windows of 2 cells against 3
  bytes make a last window that is not full, a message that is cut and a buffer that
  grows; two writes of the peer leave one message behind another.
* `server`: two requests against one reservation, so that the second waits for the first.
  One is a HEAD with a request body, the other may get every kind of reply (known,
  unknown, contradicting, unparsable and forbidden lengths), up to two frames long, and its
  peer may go away. The four drivers, one of them with `send_streaming`.
* `client`: up to 3 bytes of request body in frames of any size against writes of at most 2,
  so a frame takes one or two writes and each may be short; `U32MAX` is 2, so that a hint of 3
  exceeds it. Up to 2 bytes of response with every promised length, reads of at most 1.

Symmetry is used in `proactor` and `winhttp` only, which check no liveness: over addresses
and tasks, which the specifications do not order. Batch slots are
ordered, and not symmetric.

### 3.2 Fairness

* Code inside `submit`, `poll`, `drop`, a callback or `close` runs on: weak fairness. The
  operating system schedules threads.
* A woken task polls: weak fairness. It is the contract of `Waker`.
* A packet in the queue is picked up: strong fairness, because pool threads alternate
  between idle and busy. A port delivers its packets in order.
* `PollBegins` (strong): the owner of the proactor keeps polling, as its documentation
  demands. `DriverStep` is strong because the driving thread may submit from a waker in
  the middle of it; the waker returns.
* The kernel completes a call that was *cancelled*. It need not complete any other: a read
  on a silent handle waits for ever. WinHTTP is assumed to complete or to fail what it
  accepted, since it has timeouts.
* `streams`: the steps of a drop, and of a helper that was woken, are taken; a read of a helper
  completes when its source has ended or is a file. A peer need not write or end.
* `server`: the loop and each task take their steps, since their wakers are called; a service
  that has a free reservation becomes ready, handlers return and bodies end, which is the
  service's part of the contract. A task of the current-thread executor runs only when the
  loop polls it: fairness does not help a task that is not `Driven`.
* `client`: the task is polled when woken and WinHTTP completes its writes. The caller's body
  and the server may stay silent for ever.
* Nobody has to submit, to poll without being woken, to drop, to close, to signal, to send a
  request or to shut a server down.

### 3.3 What the violation shows

`drive_head` promises that "any request body not yet sent is carried into the body"
(h2.rs:41-42). `with_recv_until_head` polls the receive, then the request body, and returns the
frame even when the head has just arrived; the write loop at h2.rs:370 then runs zero times,
and the frame is dropped. The same happens to the rest of a frame when the head arrives
between two of its writes. A comment there says that the rest is dropped because the
response "has already ended as far as the request stream is concerned"; but
`DuplexResponseBody` goes on pulling and writing the frames that follow, so the server sees
a body with a hole in it and nobody sees an error. In a bidirectional gRPC stream, where
the head comes early, that is a lost message or a corrupted one.

### 3.4 Divergences that are not runs

* server/mod.rs:143-145 promises: "A body that may not exist is not sent. Measured, HTTP.sys sends
  the body of a `HEAD` reply and of a `204` that was given one. This crate suppresses both, and
  never polls a body it will not send" (lib.rs:122-124 says the same, and head.rs:342 that "the
  suppression has to happen in this crate"). `send_parts` asks `may_send_body` (mod.rs:924);
  `send_streaming` (mod.rs:772-848) does not: whatever the method and the status, it writes every
  data frame of the body. `Begin` models it as it is, and `WireSound` holds `send` alone to this
  rule; the rest of `WireSound` holds of both. gRPC, for which `send_streaming` was written,
  uses neither HEAD nor 204, but nothing keeps another service from it.
* `ThreadPoolIo::submit` says that "the returned future resolves when the thread pool delivers
  the completion" (threadpool.rs:152-153). A panicking `on_complete` is caught in `io_callback`, but
  `complete_erased` has unwound before it published `Completed`, so the future stays pending.
* Dropping the proactor cancels every pending operation. For a wait the cancellation posts
  an ordinary successful packet, so a future that outlives the proactor resolves `Ok`
  although the handle was never signalled; op.rs:67-68 says that the completion after a
  cancel "normally" carries `ERROR_OPERATION_ABORTED`.
* `ServeError::Service` says that "a bodiless `500` is put on the wire" (error.rs:988) also for a
  service that "was never ready"; `Accepted::serve` drops the responder then
  (server/mod.rs:649, `TaskUnready`).
* `Server::serve` "returns `Ok(())` when shutdown has been called" (server/mod.rs:471); a response
  that the shutdown aborts makes it return that error (`Settle`).

## 4. Proofs

`RawOpProofs` proves, for any sets of addresses, foreign addresses, workers and tasks, and
with or without panics (the only assumptions are those of `ConstantsAssumption`: addresses
are not foreign and `None` is no address or task):

* `Invariant`: `Spec => []IInv`;
* `TypeCorrect`: the type invariant, in no run since the proof covers it; `ExactCount`,
  `MemorySafe`, `ResultSafe`, `WakeupNotLost`: the four invariants that `rawop` checks;
* `Pinned`, `CompletedOnce`, `NeverMissing`: an operation the kernel knows keeps its
  reference, it completes at most once, and its `OpCode` is there whenever the code
  unwraps it (`KernelPins`, `CompletesOnce`, `OpPresent`, in no run of their own since the
  proof covers them);
* `LifecycleFollowed`: the action property `Lifecycle`, the state machine of `OpState`,
  likewise.

The argument. `RefCount` alone is not inductive: a step that claims or drops a reference
keeps the sum right only if nobody else holds the same one. `IInv` therefore says who may
hold the kernel's reference when:

* `Addresses`: a thread that dereferences an address got it from `live`;
* `PacketOnce`: a call has one packet, queued or in the hands of one thread;
* `LiveOwned`: an address in `live` is not being dispatched, has not completed and has its
  operation;
* `Phase`: what the owner of the future may rely on at each point of `submit`, `poll` and
  `drop`, for instance that before `unleak` there is no packet, and that a resolved
  address is not in `live`;
* `Dispatching`: what a dispatching thread may rely on, above all that it finds the state
  `Submitted` or `Abandoned` until it publishes;
* `ResultOwned`: an initialised result has somebody who will read or drop it.

There is one lemma per action (`NewPreserves`, ..., `WakePreserves`), with one step per
conjunct that the action can disturb; `Owners` and `Holder` are the two consequences of the
count that most of them use. For wake-ups `WakeInv` adds `WakerInstalled`: until the operation
has completed, the waker in its mutex is the one of the latest poll.

`BackendProofs` proves that both backends implement `RawOp`
(`PoolImplements`, `ProcImplements`), so that all of the above holds of them (`PoolSafe`,
`ProcSafe`). For the proactor this needs `Position`: the slot the driver works on lies in
its batch, also while a panic unwinds. It also proves what each backend adds:

* `OwnerInv` (in `RawOpProofs`) says who finishes an operation: a leaked reference has a packet
  on its way or a submit that takes it back (`Reclaimed`), and a pending future has a packet or
  a dispatcher (`Finishes`), unless user code panicked or the packet was dropped. It rests on
  `operate` holding the mutex (`OperateLocks`), which a packet that is early waits for.
* `PoolDrained` (`PoolClosed`): `StartsBalanced` is kept by every step, with
  one lemma for the steps of an operation and one for those of a pool thread; `Teardown` says
  that no submit is running once the registration is being dropped. So a count of zero means
  that nothing is out, and `OwnerInv` gives the rest.
* `ProcOwed` (`OwedExact`) and `ProcDrained` (`ClosedDrained`): `Table` says when an
  entry leaves the table, `Batch` which slots are occupied, `Submitting` when a submit can run,
  and `Drain` that what a shutdown waits for is owed by Windows or in the hands of the driver.

The proofs assume of the constants that the batch size is positive, that workers are its slots
and, to count, that the sets of addresses and of pool threads are finite.

The other proof modules have one component each. All of them hold for any value of the
constants that the named assumption of the component's module allows.

`WaitForHandleProofs`: `PostsOnce` (`OncePerWait`). That the packet is posted once does not follow
from the flag `posted` alone, since the callback and a cancellation both set it; `WaitInv` says
for each wait who has won (`Winner`), that a cancellation past `unregister` is alone and the
callback will not run (`Cancelling`), how long the packet is in the port (`Packet`) and who has
a reference of the context (`Context`).

`StreamProofs`: `HandleOutlives` (`HandleAlive`), for the specification of `Transfer`, which has every
step of `Stream` and the helpers over it. `StreamInv` has `Counted` (the references are those of the
owner and of the operations that exist), `Registered` and `Drained` (a handle that left the thread
pool has no call outstanding), and `Futures`. `TransferSteps` shows that every step of `Transfer` is
a step of `Stream` or leaves its state alone, so the argument is about `Stream` only. `Ops` must be
finite, for the cardinality.

It also has what the helpers promise: `ReturnsTrue` (`Returned`) and `HelpersCopy` (`Copies`, the
refinement of `Copy`), from one invariant, `HelperInv`. A helper counts what an operation reports, the
kernel what it moved; between the two lies a completion that is queued, delivered and then recorded, so
`Counts` says at each of these points how they differ. `Buffered` and `Sunk` say which byte is in which
place of the buffer or of the peer, `Offered` that the bytes taken and the messages that wait are all of
the source (without a sum, which would need induction: by the places where the messages end), and
`Truthful` what an error code of a read says of the source. `Truthful` is what makes `Ok` of
`read_to_end` mean the end of the source; `Quiet` and `Connecting` are needed because the
operation of the helper may first have been the connect of the object.

`RequestQueueProofs`: `QueueHandleSafe` (`HandleSafe`), `CloseStrandsNone` (`NoneStranded`) and
`QueueDelivers` (`DeliversOnce`, the refinement of `Delivery`). `QueueInv` counts the references of
the queue, the calls, the cancellations and the orphaned operations exactly (`Count`), and says what
a caller may rely on while its call is out (`Own`) and while it or `close` has the lock
(`Locked`). `LocalCount` reduces the count in a step of one caller to that caller. For the
refinement `OnePlace` adds that a request is in one place at a time. `Callers` must be finite and
not be named like a place. `TooLargeTrue` (`TooLargeJustified`) is about the retry loop: `Tried` says that
the capacity of a receive is what its number of attempts leads to, so that a request which did not
fit when the retries ran out does not fit in the largest buffer they allow, and carries that over the
rejection that follows; `Gone` says that a discarded request does not come back. The attempts are a
function constrained point by point (`Attempts`), which the proof extends by one at each retry; a
recursive function would have needed induction.

`WinHttpContextProofs`: `BuffersAlive`, `OwnCompletion`, `TaskWoken`, `ContextCounted`: the four
invariants that `winhttp` checks, for any number of generations and tasks. Notifications carry no
generation in the code, so `CInv` has to say why one cannot reach a later operation: each
notification on its way finds the slot of its own operation (`Owed`), two of them on the way are of
different slots (`Ordered`), an operation WinHTTP works on has its slot (`PlatInv`), and a pending
slot has a future whose task its waker wakes (`SlotInv`). The wake-up and the count are proved on
top of `CInv`.

`HttpServerProofs`: `BodiesWhole` (`BodyWhole`) and `TakenWhenReady` (`Backpressure`). `BodyInv` adds that
nobody reads the body of a request that was not handed over; `Gated` says that the loop awaits a
request only with a reservation. `None` and the place `"loop"` must not be requests.

`ResponsesSound` (`WireSound`) and `ResultsTrue` (`ResultTrue`) rest on `RespInv`, which says for each
request what holds where its task is: before the answer nothing was sent (`Fresh`); while up to two
frames are read ahead all that was produced is in them (`Probing`); a response in one call is
silent until then and its body over (`Finishing`); once the framing is chosen there is one way to end
it (`Delimited`, `Heading`); and while the body goes out, what was produced is what is on the wire, what
is left of the piece and the pieces behind it (`Sending`). `Sending` is the heart of it: the check against
the declared length is made on `written`, before the bytes are on the wire, and in chunked framing the
bytes count only when the whole chunk is out. `OneRequest` reduces a step to the request it is about.

`HttpClientProofs`: `RequestsFramed` (`RequestFramed`) and `ResponsesTrue` (`ResponseTrue`), for any
calls and responses of the types of `HttpClient`. `FrameInv` says that what the head declares is the
framing that was chosen (`Declared`), when a write can be in flight (`Stages`), that the mark of the end is
written alone and last (`Buffers`, `Marked`), and for HTTP/1.1 that the bytes written, being written and
left of the frame follow each other and are all that was pulled (`InOrder`). That part fails for
HTTP/2, which is what `client_gap` shows. `ReadInv` says that nothing is read before the head of the
response (`Answered`) and that a read in flight stays within what was sent and promised (`Within`):
without it a completed read could overrun the promised length, and the end would be
reported for the wrong reason.

Every invariant, action property and refinement that a passing run checks is a theorem.
Model-checked and not proved are the liveness properties (`CompletionResolves`, `AbandonedFreed`,
`TeardownEnds`, `DriverProgress`, `WaitEnds`, `NothingStuck`, `Cleared`, `CloseEnds`, `Closes`,
`HelperEnds`, `Settled`, `Stops`, `HeadReturns`): they need fairness, hence `ENABLED`, which TLAPS cannot
reason about.

## 5. What is not modelled

* The components marked so above: parsing and building of HTTP.sys structures, address
  encoding, error types and their texts, the adapters to tonic. They are conversions
  without state, and take no part in the races; where a conversion steers control (a head
  that does not parse, a length that is no number), the models have its outcomes.
* Options that are one call of Windows and nothing else: flags of `OpenOptions` and
  `ServerOptions`, metadata of files, socket options, shutdown of one direction, `ClientBuilder`.
* The lifetime of HTTP.sys sessions, URL groups, WinHTTP sessions and connections: nested by
  ownership, without interleavings.
* The content of HTTP/2 trailers and header values, the bytes of a chunk's framing.
* Weak memory (see 2.1), allocation failure and failures of locks other than poisoning.
* Several registrations or several proactors: they share only `live`, which is keyed by
  address.
* A waker that drops the last clone of a `ThreadPoolIo` on a pool thread: `Drop for
  Registration` would wait for the callback it runs in. It is listed as a hazard.
* `cancel` implementations that do nothing (the default of `OpCode::cancel`): `RawOp` models
  `CancelIoEx`. With a no-op, `shutdown` waits until the call completes by itself.
* Failures of `PostQueuedCompletionStatus` after `posted` was set (event.rs:70): resource
  exhaustion.
* An `initial_capacity` of a queue above 4 GiB, which `receive` truncates to `u32`.
* Reads of files on a network share: `ERROR_NETNAME_DELETED` would make `read_to_end` return what
  it has as the whole file (fs/outcome.rs:39). The files of `Transfer` are local.
* What WinHTTP does with an HTTP/2 body that does not keep to its declared length: h2.rs does
  not check it, unlike client.rs.
* A read of a response body that gives nothing after WinHTTP announced data: body.rs:342-348 and
  h2.rs:678-681 take it for the end of the body, and say that it was never observed. `Read`
  assumes that WinHTTP keeps its word; over HTTP/1.1 without a `Content-Length`, and over HTTP/2,
  a truncated body would otherwise be reported as complete.
* Response bodies that are not fused: `send_parts` polls again after the end (server/mod.rs:1136).
* Bytes that are lost by design: those a dropped helper has read, those a disconnected pipe
  had not delivered, malformed trailers.
* A foreign `OVERLAPPED` at an address that this library reuses while its packet is still
  queued: foreign addresses are disjoint from ours.

## 6. Plan

Done: the I/O layer with both backends; waits; WinHTTP; the HTTP.sys queue and its
abstraction; files, pipes, sockets and the helpers with theirs; the HTTP server with the
axum drivers; the HTTP client. Left, in this order:

1. A composition of `HttpClient` with `WinHttpContext`: the slots under the duplex path, with both
   halves dropped at any point.
2. Session and URL groups; socket shutdown of one direction.
3. Theorems for HTTP/2 beyond the framing: that what follows a gap is still in order.

## 7. Running

    tlc -workers 2 -config MCRawOp.cfg MCRawOp
    tlapm RawOpProofs.tla

Each run is a pair of a configuration and the MC module whose name it begins with;
`PROJECT.json` lists them with their properties.
