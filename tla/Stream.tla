------------------------------ MODULE Stream ------------------------------
(***************************************************************************)
(* The objects of winasio that own an operating-system handle: File (fs),  *)
(* NamedPipeServer and NamedPipe (pipe), TcpListener, TcpStream and their  *)
(* Unix counterparts (net).  One object is followed from the calls that    *)
(* make it, any of which may fail, over the operations on it and the       *)
(* typestate futures that own it while a connection is made, to the three  *)
(* steps of its drop: cancel, release the registration, release the        *)
(* handle.                                                                 *)
(*                                                                         *)
(* The handle is an Arc (iocp/handle.rs, net/socket.rs) of which every     *)
(* operation has a clone; an operation is RawOp's, seen from outside: it   *)
(* is in flight, its packet is queued, or its completion was dispatched.   *)
(***************************************************************************)
EXTENDS Integers, FiniteSets

CONSTANTS
    Ops,        \* operations that may be outstanding together
    Backends    \* a subset of {"pool", "proactor"}

ASSUME StreamAssumption ==
    /\ IsFiniteSet(Ops)
    /\ Backends \subseteq {"pool", "proactor"} /\ Backends # {}

VARIABLES
    backend,    \* what the handle is registered with
    kind,       \* which object
    stage,      \* where it is in its life
    handle,     \* the operating system's handle
    refs,       \* references to it
    reg,        \* the registration
    ops,        \* the operations
    cancelled   \* operations CancelIoEx was called for

objVars == <<backend, kind, stage, handle, refs, reg>>
streamVars == <<objVars, ops, cancelled>>

\* held: the caller has the future; rec: what record_completion has recorded;
\* child: the socket an accept carries.
NoOp == [what |-> "none", st |-> "none", res |-> "none", held |-> FALSE, rec |-> FALSE,
         child |-> "none"]

Op == [what : {"none", "read", "write", "connect", "accept"},
       st : {"none", "inflight", "queued", "done"},
       res : {"none", "ok", "failed", "aborted"},
       held : BOOLEAN, rec : BOOLEAN, child : {"none", "open"}]

StreamTypeOK ==
    /\ backend \in Backends
    /\ kind \in {"none", "file", "server", "client", "listener", "socket"}
    /\ stage \in {"none", "created", "registered", "idle", "connecting", "open", "dropping",
                  "draining", "unregistered", "gone"}
    /\ handle \in {"none", "open", "closed"}
    /\ refs \in Nat
    /\ reg \in {"none", "on", "off"}
    /\ ops \in [Ops -> Op]
    /\ cancelled \subseteq Ops

StreamInit ==
    /\ backend \in Backends
    /\ kind = "none"
    /\ stage = "none"
    /\ handle = "none"
    /\ refs = 0
    /\ reg = "none"
    /\ ops = [p \in Ops |-> NoOp]
    /\ cancelled = {}

----------------------------------------------------------------------------
(* The handle, and operations on it.                                       *)

\* Drop for Owned: the last reference closes it.
DropRefs(n) ==
    /\ refs' = refs - n
    /\ handle' = IF refs = n THEN "closed" ELSE handle

InFlight == {p \in Ops : ops[p].st = "inflight"}
Outstanding(p) == ops[p].st \in {"inflight", "queued"}

\* Mutant of Submit: the operation has the raw handle and no clone.
SubmitRaw(p, what, child) ==
    /\ ops[p] = NoOp
    /\ ops' = [ops EXCEPT ![p] = [NoOp EXCEPT !.what = what, !.st = "inflight", !.held = TRUE,
                                              !.child = child]]
    /\ UNCHANGED <<refs, handle>>

\* submit of an operation that holds a clone of the handle.
Submit(p, what, child) ==
    /\ ops[p] = NoOp
    /\ refs' = refs + 1
    /\ ops' = [ops EXCEPT ![p] = [NoOp EXCEPT !.what = what, !.st = "inflight", !.held = TRUE,
                                              !.child = child]]
    /\ UNCHANGED handle

\* The operations of iocp/ops/stream.rs and net/ops.
ReadHandleAt(p) == Submit(p, "read", "none")
WriteHandleAt(p) == Submit(p, "write", "none")
ReadHandle(p) == Submit(p, "read", "none")
WriteHandle(p) == Submit(p, "write", "none")
RecvSocket(p) == Submit(p, "read", "none")
SendSocket(p) == Submit(p, "write", "none")
ConnectPipe(p) == Submit(p, "connect", "none")
ConnectSocket(p) == Submit(p, "connect", "none")
AcceptSocket(p) == Submit(p, "accept", "open")

\* The kernel ends the call: it was cancelled, it worked or it failed.
Completes(p, res) ==
    /\ ops[p].st = "inflight"
    /\ res = "aborted" => p \in cancelled
    /\ ops' = [ops EXCEPT ![p].st = "queued", ![p].res = res]
    /\ cancelled' = cancelled \ {p}
    /\ UNCHANGED objVars

\* record_completion of an accept or a connect: a success is recorded when the
\* context of the new socket could be updated.  A pipe has none.
Recorded(p, updated) ==
    ops[p].res = "ok" /\ ops[p].what \in {"accept", "connect"} /\ (updated \/ kind = "server")

\* The packet is dispatched, and on_complete runs.  Without its future the
\* operation goes, with its clone and the socket it carries.
Dispatch(p) ==
    /\ ops[p].st = "queued"
    /\ \E updated \in BOOLEAN :
        LET done == [ops[p] EXCEPT !.st = "done", !.rec = Recorded(p, updated)]
        IN ops' = [ops EXCEPT ![p] = IF @.held THEN done ELSE NoOp]
    /\ DropRefs(IF ops[p].held THEN 0 ELSE 1)
    /\ UNCHANGED <<backend, kind, stage, reg, cancelled>>

\* Mutant of CancelAll: nothing is cancelled.
CancelNone == UNCHANGED cancelled

\* CancelIoEx(handle, None).
CancelAll == cancelled' = cancelled \cup InFlight

----------------------------------------------------------------------------
(* Making an object.                                                       *)

\* Handle::from_raw and Socket::new_overlapped_with: the first owner.
Acquires(k) ==
    /\ stage = "none"
    /\ kind' = k
    /\ stage' = "created"
    /\ handle' = "open"
    /\ refs' = 1
    /\ UNCHANGED <<backend, reg, ops, cancelled>>

NewSocket(k) == Acquires(k)

\* The first call of each that can leave something behind.
OpenFile == Acquires("file")                \* OpenOptions::open
AdoptFile == Acquires("file")               \* File::from_handle
CreatePipe == Acquires("server")            \* ServerOptions::create
OpenPipe == Acquires("client")              \* ClientOptions::connect
BindTcp == NewSocket("listener")            \* TcpListener::bind_with
BindUnix == NewSocket("listener")           \* UnixListener::bind_with
NewTcp == NewSocket("socket")               \* TcpStream::connect
NewUnix == NewSocket("socket")              \* UnixStream::connect

\* A call that follows fails, and the handle is dropped.
Abandons(kinds) ==
    /\ stage = "created" /\ kind \in kinds
    /\ stage' = "gone"
    /\ DropRefs(1)
    /\ UNCHANGED <<backend, kind, reg, ops, cancelled>>

ReadModeFails == Abandons({"client"})       \* apply_read_mode
UnlinkFails == Abandons({"listener"})       \* unlink_stale_path
BindFails == Abandons({"listener", "socket"})   \* only_v6, bind, listen, the address
RegisterFails == Abandons({"file", "server", "client", "listener", "socket"})

Register ==
    /\ stage = "created"
    /\ reg' = "on"
    /\ stage' = CASE kind = "server" -> "idle" [] kind = "socket" -> "registered"
                  [] OTHER -> "open"
    /\ UNCHANGED <<backend, kind, handle, refs, ops, cancelled>>

\* NamedPipeServer::connect, which moves the pipe into its future, and the
\* second half of TcpStream::connect and UnixStream::connect.
Connect(p) ==
    /\ \/ stage = "idle" /\ ConnectPipe(p)
       \/ stage = "registered" /\ ConnectSocket(p)
    /\ stage' = "connecting"
    /\ UNCHANGED <<backend, kind, reg, cancelled>>

\* NamedPipe::disconnect: the pipe can be connected again, or is dropped.
Disconnect ==
    /\ stage = "open" /\ kind = "server"
    /\ \/ stage' = "idle" /\ UNCHANGED cancelled
       \/ stage' = "dropping" /\ CancelAll
    /\ UNCHANGED <<backend, kind, handle, refs, reg, ops>>

----------------------------------------------------------------------------
(* Using it.                                                               *)

InUse == stage = "open" /\ UNCHANGED <<backend, kind, stage, reg, cancelled>>
Pipe == kind \in {"server", "client"}

FileReadAt(p) == InUse /\ kind = "file" /\ ReadHandleAt(p)
FileWriteAt(p) == InUse /\ kind = "file" /\ WriteHandleAt(p)
PipeRead(p) == InUse /\ Pipe /\ ReadHandle(p)
PipeWrite(p) == InUse /\ Pipe /\ WriteHandle(p)
SocketRead(p) == InUse /\ kind = "socket" /\ RecvSocket(p)
SocketWrite(p) == InUse /\ kind = "socket" /\ SendSocket(p)

\* accept: the socket for the connection is made first.
Accept(p) == InUse /\ kind = "listener" /\ AcceptSocket(p)

ReadOnce(p) == FileReadAt(p) \/ PipeRead(p) \/ SocketRead(p)
WriteOnce(p) == FileWriteAt(p) \/ PipeWrite(p) \/ SocketWrite(p)

\* Its future returns: a transfer gives the buffer back; an accept hands its
\* socket over, or closes it when finish or the registration of it fails.
Returns(p) ==
    /\ ops[p].what # "connect"
    /\ UNCHANGED <<stage, cancelled>>

\* A connect gives the object back, or drops it.
ConnectReturns(p) ==
    /\ ops[p].what = "connect"
    /\ \/ ops[p].rec /\ stage' = "open" /\ UNCHANGED cancelled
       \/ ~ops[p].rec /\ stage' = "dropping" /\ CancelAll

Resolve(p) ==
    /\ ops[p].held /\ ops[p].st = "done"
    /\ Returns(p) \/ ConnectReturns(p)
    /\ ops' = [ops EXCEPT ![p] = NoOp]
    /\ DropRefs(1)
    /\ UNCHANGED <<backend, kind, reg>>

\* Its future is dropped: an operation in flight is cancelled and stays, one
\* that is done goes.
FutureGoes(p) ==
    /\ ops[p].held
    /\ IF ops[p].st = "done" THEN ops' = [ops EXCEPT ![p] = NoOp] /\ DropRefs(1)
       ELSE ops' = [ops EXCEPT ![p].held = FALSE] /\ UNCHANGED <<refs, handle>>
    /\ UNCHANGED <<backend, kind, reg>>

\* With the future of a connect goes the object: InnerGuard.
DropConnect(p) ==
    /\ ops[p].what = "connect"
    /\ FutureGoes(p)
    /\ stage' = "dropping"
    /\ CancelAll

DropFuture(p) ==
    \/ DropConnect(p)
    \/ /\ ops[p].what # "connect"
       /\ FutureGoes(p)
       /\ cancelled' = cancelled \cup (InFlight \cap {p})
       /\ UNCHANGED stage

----------------------------------------------------------------------------
(* Dropping it.                                                            *)

\* The first step: what is in flight is cancelled.
Drops(kinds) ==
    /\ stage \in {"idle", "open"} /\ kind \in kinds
    /\ stage' = "dropping"
    /\ CancelAll
    /\ UNCHANGED <<backend, kind, handle, refs, reg, ops>>

DropFile == Drops({"file"})
DropPipe == Drops({"server", "client"})
DropSocket == Drops({"socket"})

\* The futures of an accept borrow the listener; those of reads and writes do
\* not borrow the stream.
DropListener == (\A p \in Ops : ~ops[p].held) /\ Drops({"listener"})

\* The submitter goes.  The thread pool's registration cancels once more, and
\* waits for the callbacks; a proactor goes on serving what is outstanding.
ReleaseSubmitter ==
    /\ stage = "dropping"
    /\ stage' = "draining"
    /\ IF backend = "pool" THEN cancelled' = cancelled \cup InFlight ELSE UNCHANGED cancelled
    /\ UNCHANGED <<backend, kind, handle, refs, reg, ops>>

DropSubmitter ==
    /\ stage = "draining"
    /\ backend = "pool" => \A p \in Ops : ~Outstanding(p)
    /\ reg' = "off"
    /\ stage' = "unregistered"
    /\ UNCHANGED <<backend, kind, handle, refs, ops, cancelled>>

DropHandle ==
    /\ stage = "unregistered"
    /\ stage' = "gone"
    /\ DropRefs(1)
    /\ UNCHANGED <<backend, kind, reg, ops, cancelled>>

----------------------------------------------------------------------------

Makes ==
    \/ OpenFile \/ AdoptFile \/ CreatePipe \/ OpenPipe \/ BindTcp \/ BindUnix \/ NewTcp \/ NewUnix
    \/ ReadModeFails \/ UnlinkFails \/ BindFails \/ RegisterFails \/ Register

Ends == DropFile \/ DropPipe \/ DropSocket \/ DropListener \/ Disconnect

\* Code that runs to its end once it has begun.
TearsDown == ReleaseSubmitter \/ DropSubmitter \/ DropHandle

\* What may happen to the operation p.
OnOp(p) ==
    \/ Accept(p) \/ ReadOnce(p) \/ WriteOnce(p) \/ Connect(p)
    \/ \E res \in {"ok", "failed", "aborted"} : Completes(p, res)
    \/ Dispatch(p) \/ Resolve(p) \/ DropFuture(p)

StreamNext == Makes \/ Ends \/ TearsDown \/ \E p \in Ops : OnOp(p)

----------------------------------------------------------------------------
(* Properties.                                                             *)

\* The handle outlives every use: while the kernel works on an operation, or
\* its packet is undispatched, the handle is open, also when the object and
\* the future are gone; it is closed only after the registration was released,
\* and the thread pool's registration only when nothing is outstanding on it.
HandleAlive ==
    /\ \A p \in Ops : Outstanding(p) => handle = "open"
    /\ handle = "closed" => reg # "on"
    /\ reg = "off" /\ backend = "pool" => \A p \in Ops : ~Outstanding(p)

\* A drop ends, although a read on the object may never complete by itself and
\* its future is still held: then nothing is outstanding, and the handle is
\* closed as soon as no future is left.
Closes ==
    stage = "dropping" ~>
        /\ stage = "gone"
        /\ \A p \in Ops : ~Outstanding(p)
        /\ handle = "closed" \/ \E p \in Ops : ops[p].held
=============================================================================
