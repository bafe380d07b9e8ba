---------------------------- MODULE StreamProofs ----------------------------
(***************************************************************************)
(* For any number of operations, any object, both backends, and helpers    *)
(* over windows, sources and buffers of any size:                          *)
(*   - the handle of a file, a pipe or a socket outlives every use of it;  *)
(*   - a helper that returns has counted what was moved;                   *)
(*   - the helpers implement Copy.                                         *)
(***************************************************************************)
EXTENDS Transfer, FiniteSetTheorems, SequenceTheorems, TLAPS

----------------------------------------------------------------------------
(* The invariant.                                                          *)

\* The operations that exist, each with its clone of the handle.
Users == {p \in Ops : ops[p] # NoOp}

\* The object, or the future that owns it, has one more.
Owned == stage \notin {"none", "gone"}
Owner == IF Owned THEN 1 ELSE 0

Types ==
    /\ stage \in {"none", "created", "registered", "idle", "connecting", "open", "dropping",
                  "draining", "unregistered", "gone"}
    /\ refs \in Nat
    /\ ops \in [Ops -> Op]

\* The handle is closed by whoever drops the last reference.
Counted ==
    /\ refs = Owner + Cardinality(Users)
    /\ stage # "none" => handle = IF refs = 0 THEN "closed" ELSE "open"
    /\ stage = "none" => handle = "none"
    /\ stage \in {"none", "created"} => Users = {}

Registered ==
    /\ reg = "on" <=> stage \in {"registered", "idle", "connecting", "open", "dropping", "draining"}
    /\ reg = "off" => stage \in {"unregistered", "gone"}

\* The pool's registration is released when nothing is outstanding on it.
Drained == reg = "off" /\ backend = "pool" => \A p \in Ops : ~Outstanding(p)

\* An operation without a state is none; the future of a connect owns the
\* object, and is the only one that does.
Futures ==
    /\ \A p \in Ops : ops[p].st = "none" => ops[p] = NoOp
    /\ \A p \in Ops : ops[p].held /\ ops[p].what = "connect" =>
        /\ stage = "connecting"
        /\ \A q \in Ops : ops[q].held /\ ops[q].what = "connect" => q = p

StreamInv == Types /\ Counted /\ Registered /\ Drained /\ Futures

----------------------------------------------------------------------------
(* Counting.                                                               *)

LEMMA UsersFinite == IsFiniteSet(Users) /\ Cardinality(Users) \in Nat
<1>1. Users \subseteq Ops
  BY DEF Users
<1>2. IsFiniteSet(Users)
  BY <1>1, StreamAssumption, FS_Subset
<1> QED
  BY <1>2, FS_CardinalityType

LEMMA UserCounts ==
    ASSUME NEW p \in Users
    PROVE  Cardinality(Users) >= 1
<1>1. Users # {}
  OBVIOUS
<1> QED
  BY <1>1, UsersFinite, FS_EmptySet

LEMMA UserAdded ==
    ASSUME NEW p \in Ops, p \notin Users, Users' = Users \cup {p}
    PROVE  Cardinality(Users') = Cardinality(Users) + 1
BY UsersFinite, FS_AddElement

LEMMA UserRemoved ==
    ASSUME NEW p \in Users, Users' = Users \ {p}
    PROVE  Cardinality(Users') = Cardinality(Users) - 1
BY UsersFinite, FS_RemoveElement

LEMMA AliveInside == StreamInv => HandleAlive
<1> SUFFICES ASSUME StreamInv PROVE HandleAlive
  OBVIOUS
<1>1. ASSUME NEW p \in Ops, Outstanding(p) PROVE handle = "open"
  <2>1. p \in Users
    BY <1>1 DEF Outstanding, Users, NoOp
  <2>2. refs >= 1 /\ stage # "none"
    BY <2>1, UserCounts, UsersFinite DEF StreamInv, Counted, Owner
  <2> QED
    BY <2>2 DEF StreamInv, Counted
<1>2. handle = "closed" => reg # "on"
  <2>1. handle = "closed" => stage = "gone"
    BY UsersFinite DEF StreamInv, Counted, Owner, Owned, Types
  <2> QED
    BY <2>1 DEF StreamInv, Registered
<1>3. reg = "off" /\ backend = "pool" => \A p \in Ops : ~Outstanding(p)
  BY DEF StreamInv, Drained
<1> QED
  BY <1>1, <1>2, <1>3 DEF HandleAlive

LEMMA StreamInvInit == StreamInit => StreamInv
<1> SUFFICES ASSUME StreamInit PROVE StreamInv
  OBVIOUS
<1>1. Users = {}
  BY DEF StreamInit, Users
<1>2. Cardinality(Users) = 0
  BY <1>1, FS_EmptySet
<1>3. Types
  BY DEF StreamInit, Types, Op, NoOp
<1>4. Counted
  BY <1>1, <1>2 DEF StreamInit, Counted, Owner, Owned
<1>5. Registered /\ Drained /\ Futures
  BY DEF StreamInit, Registered, Drained, Futures, NoOp, Outstanding
<1> QED
  BY <1>3, <1>4, <1>5 DEF StreamInv

----------------------------------------------------------------------------
(* Steps that leave the operations alone.                                  *)

\* The object moves on and keeps its reference.
LEMMA StageMoves ==
    ASSUME StreamInv, UNCHANGED <<backend, ops, handle, refs>>,
           Owned, Owned', stage' \in {"registered", "idle", "open", "dropping", "draining",
                                      "unregistered"},
           stage # "connecting",
           Registered', Drained'
    PROVE  StreamInv'
<1>1. Users' = Users
  BY DEF Users
<1>2. Types'
  BY DEF StreamInv, Types
<1>3. Counted'
  BY <1>1 DEF StreamInv, Counted, Owner, Owned
<1>4. Futures'
  BY DEF StreamInv, Futures
<1> QED
  BY <1>2, <1>3, <1>4 DEF StreamInv

LEMMA MakesKeeps ==
    ASSUME StreamInv, Makes
    PROVE  StreamInv'
<1>1. ASSUME NEW k, Acquires(k) PROVE StreamInv'
  <2>1. Users' = Users /\ Users = {} /\ Cardinality(Users) = 0
    BY <1>1, FS_EmptySet DEF Acquires, StreamInv, Counted, Users
  <2>2. Types' /\ Counted'
    BY <1>1, <2>1 DEF Acquires, StreamInv, Types, Counted, Owner, Owned
  <2>3. Registered' /\ Drained' /\ Futures'
    BY <1>1 DEF Acquires, StreamInv, Registered, Drained, Futures, Outstanding
  <2> QED
    BY <2>2, <2>3 DEF StreamInv
<1>2. ASSUME NEW ks, Abandons(ks) PROVE StreamInv'
  <2>1. Users' = Users /\ Users = {} /\ Cardinality(Users) = 0
    BY <1>2, FS_EmptySet DEF Abandons, StreamInv, Counted, Users
  <2>2. Types' /\ Counted'
    BY <1>2, <2>1 DEF Abandons, DropRefs, StreamInv, Types, Counted, Owner, Owned
  <2>3. Registered' /\ Drained' /\ Futures'
    BY <1>2 DEF Abandons, StreamInv, Registered, Drained, Futures, Outstanding
  <2> QED
    BY <2>2, <2>3 DEF StreamInv
<1>3. CASE Register
  <2>1. stage' \in {"idle", "registered", "open"} /\ stage = "created" /\ reg' = "on"
    BY <1>3 DEF Register
  <2>2. Registered' /\ Drained'
    BY <2>1 DEF Registered, Drained
  <2> QED
    BY <1>3, <2>1, <2>2, StageMoves DEF Register, Owned
<1> QED
  BY <1>1, <1>2, <1>3 DEF Makes, OpenFile, AdoptFile, CreatePipe, OpenPipe, BindTcp, BindUnix,
      NewTcp, NewUnix, NewSocket, ReadModeFails, UnlinkFails, BindFails, RegisterFails

LEMMA EndsKeeps ==
    ASSUME StreamInv, Ends
    PROVE  StreamInv'
<1>1. /\ stage \in {"idle", "open"}
      /\ stage' \in {"idle", "dropping"}
      /\ UNCHANGED <<backend, kind, handle, refs, reg, ops>>
  BY DEF Ends, DropFile, DropPipe, DropSocket, DropListener, Drops, Disconnect
<1>2. Registered' /\ Drained'
  BY <1>1 DEF StreamInv, Registered, Drained, Outstanding
<1> QED
  BY <1>1, <1>2, StageMoves DEF Owned

LEMMA TearsDownKeeps ==
    ASSUME StreamInv, TearsDown
    PROVE  StreamInv'
<1>1. CASE ReleaseSubmitter
  <2>1. Registered' /\ Drained'
    BY <1>1 DEF ReleaseSubmitter, StreamInv, Registered, Drained, Outstanding
  <2> QED
    BY <1>1, <2>1, StageMoves DEF ReleaseSubmitter, Owned
<1>2. CASE DropSubmitter
  <2>1. Registered' /\ Drained'
    BY <1>2 DEF DropSubmitter, StreamInv, Registered, Drained, Outstanding
  <2> QED
    BY <1>2, <2>1, StageMoves DEF DropSubmitter, Owned
<1>3. CASE DropHandle
  <2>1. Users' = Users
    BY <1>3 DEF DropHandle, Users
  <2>2. Types' /\ Counted'
    BY <1>3, <2>1, UsersFinite DEF DropHandle, DropRefs, StreamInv, Types, Counted, Owner, Owned
  <2>3. Registered' /\ Drained' /\ Futures'
    BY <1>3 DEF DropHandle, StreamInv, Registered, Drained, Futures, Outstanding
  <2> QED
    BY <2>2, <2>3 DEF StreamInv
<1> QED
  BY <1>1, <1>2, <1>3 DEF TearsDown

----------------------------------------------------------------------------
(* Steps of an operation.                                                  *)

\* Submission: one reference more.
LEMMA SubmitKeeps ==
    ASSUME StreamInv, NEW p \in Ops,
           NEW what \in {"read", "write", "connect", "accept"}, NEW child \in {"none", "open"},
           Submit(p, what, child),
           stage \in {"registered", "idle", "open"},
           stage' = IF what = "connect" THEN "connecting" ELSE stage,
           UNCHANGED <<backend, reg>>
    PROVE  StreamInv'
<1> DEFINE o == [NoOp EXCEPT !.what = what, !.st = "inflight", !.held = TRUE, !.child = child]
<1>1. /\ o \in Op /\ o # NoOp
      /\ o.st = "inflight" /\ o.held /\ o.what = what
  BY DEF NoOp, Op
<1>2. /\ ops[p] = NoOp /\ ops' = [ops EXCEPT ![p] = o]
      /\ refs' = refs + 1 /\ handle' = handle
  BY DEF Submit
<1> HIDE DEF o
<1>3. Types'
  BY <1>1, <1>2 DEF StreamInv, Types
<1>4. Counted'
  <2>1. p \notin Users /\ Users' = Users \cup {p}
    BY <1>1, <1>2 DEF Users, StreamInv, Types
  <2>2. Cardinality(Users') = Cardinality(Users) + 1
    BY <2>1, UserAdded
  <2> QED
    BY <1>2, <2>2, UsersFinite DEF StreamInv, Counted, Owner, Owned, Types
<1>5. Registered' /\ Drained'
  BY DEF StreamInv, Registered, Drained
<1>6. Futures'
  <2>1. \A q \in Ops : ~(ops[q].held /\ ops[q].what = "connect")
    BY DEF StreamInv, Futures
  <2>2. \A q \in Ops : q # p => ops'[q] = ops[q]
    BY <1>2 DEF StreamInv, Types
  <2>3. ops'[p] = o
    BY <1>2 DEF StreamInv, Types
  <2> QED
    BY <1>1, <2>1, <2>2, <2>3 DEF StreamInv, Futures
<1> QED
  BY <1>3, <1>4, <1>5, <1>6 DEF StreamInv

LEMMA StartKeeps ==
    ASSUME StreamInv, NEW p \in Ops, Accept(p) \/ ReadOnce(p) \/ WriteOnce(p) \/ Connect(p)
    PROVE  StreamInv'
<1>1. CASE Accept(p)
  BY <1>1, SubmitKeeps DEF Accept, AcceptSocket, InUse
<1>2. CASE ReadOnce(p)
  BY <1>2, SubmitKeeps DEF ReadOnce, FileReadAt, PipeRead, SocketRead, ReadHandleAt, ReadHandle,
                          RecvSocket, InUse
<1>3. CASE WriteOnce(p)
  BY <1>3, SubmitKeeps DEF WriteOnce, FileWriteAt, PipeWrite, SocketWrite, WriteHandleAt,
                          WriteHandle, SendSocket, InUse
<1>4. CASE Connect(p)
  BY <1>4, SubmitKeeps DEF Connect, ConnectPipe, ConnectSocket
<1> QED
  BY <1>1, <1>2, <1>3, <1>4

\* An operation that stays one, with its reference; if it was not outstanding
\* it does not become so, and its future is not another one.
LEMMA ChangeKeeps ==
    ASSUME StreamInv, NEW p \in Users, NEW o \in Op, ops' = [ops EXCEPT ![p] = o],
           o.st # "none", o.what = ops[p].what, o.held => ops[p].held,
           o.st \in {"inflight", "queued"} => Outstanding(p),
           UNCHANGED <<backend, reg, refs, handle>>,
           \/ UNCHANGED stage
           \/ stage = "connecting" /\ stage' = "dropping" /\ ~o.held /\ ops[p].what = "connect"
              /\ ops[p].held
    PROVE  StreamInv'
<1>1. p \in Ops /\ ops'[p] = o /\ \A q \in Ops : q # p => ops'[q] = ops[q]
  BY DEF Users, StreamInv, Types
<1>2. Types'
  BY DEF StreamInv, Types, Users
<1>3. Counted'
  <2>1. o # NoOp
    BY DEF NoOp
  <2>2. Users' = Users
    BY <1>1, <2>1 DEF Users
  <2> QED
    BY <2>2 DEF StreamInv, Counted, Owner, Owned
<1>4. Registered'
  BY DEF StreamInv, Registered
<1>5. Drained'
  BY <1>1 DEF StreamInv, Drained, Outstanding
<1>6. Futures'
  BY <1>1 DEF StreamInv, Futures
<1> QED
  BY <1>2, <1>3, <1>4, <1>5, <1>6 DEF StreamInv

\* An operation that goes, with its reference.
LEMMA GoneKeeps ==
    ASSUME StreamInv, NEW p \in Users, ops' = [ops EXCEPT ![p] = NoOp], DropRefs(1),
           UNCHANGED <<backend, reg>>,
           \/ UNCHANGED stage
           \/ stage = "connecting" /\ stage' \in {"open", "dropping"}
              /\ ops[p].what = "connect" /\ ops[p].held
    PROVE  StreamInv'
<1>1. p \in Ops /\ ops'[p] = NoOp /\ \A q \in Ops : q # p => ops'[q] = ops[q]
  BY DEF Users, StreamInv, Types
<1>2. Users' = Users \ {p}
  BY <1>1 DEF Users
<1>3. Cardinality(Users') = Cardinality(Users) - 1 /\ Cardinality(Users) >= 1
  BY <1>2, UserRemoved, UserCounts
<1>4. refs >= 1 /\ refs' = refs - 1 /\ handle' = IF refs = 1 THEN "closed" ELSE handle
  BY <1>3, UsersFinite DEF DropRefs, StreamInv, Counted, Owner
<1>5. Types'
  <2>1. NoOp \in Op
    BY DEF NoOp, Op
  <2>2. ops' \in [Ops -> Op]
    BY <2>1 DEF StreamInv, Types
  <2>3. refs' \in Nat
    BY <1>4 DEF StreamInv, Types
  <2> QED
    BY <2>2, <2>3 DEF StreamInv, Types
<1>6. Counted'
  <2>1. Owner' = Owner /\ stage # "none" /\ stage' # "none"
    BY DEF Owner, Owned, StreamInv, Counted
  <2>2. stage \notin {"none", "created"} /\ stage' \notin {"none", "created"}
    BY DEF StreamInv, Counted
  <2> QED
    BY <1>3, <1>4, <2>1, <2>2, UsersFinite DEF StreamInv, Counted, Types, Owner
<1>7. Registered'
  BY DEF StreamInv, Registered
<1>8. Drained'
  BY <1>1 DEF StreamInv, Drained, Outstanding, NoOp
<1>9. Futures'
  BY <1>1 DEF StreamInv, Futures, NoOp
<1> QED
  BY <1>5, <1>6, <1>7, <1>8, <1>9 DEF StreamInv

LEMMA CompletesKeeps ==
    ASSUME StreamInv, NEW p \in Ops, NEW res \in {"ok", "failed", "aborted"}, Completes(p, res)
    PROVE  StreamInv'
<1> DEFINE o == [ops[p] EXCEPT !.st = "queued", !.res = res]
<1>1. p \in Users /\ Outstanding(p)
  BY DEF Completes, Users, Outstanding, NoOp
<1>2. o \in Op /\ o.st = "queued" /\ o.what = ops[p].what /\ (o.held => ops[p].held)
  BY DEF StreamInv, Types, Op
<1>3. ops' = [ops EXCEPT ![p] = o] /\ UNCHANGED objVars
  BY DEF Completes, StreamInv, Types
<1> HIDE DEF o
<1> QED
  BY <1>1, <1>2, <1>3, ChangeKeeps DEF objVars

LEMMA DispatchKeeps ==
    ASSUME StreamInv, NEW p \in Ops, Dispatch(p)
    PROVE  StreamInv'
<1>1. p \in Users /\ ops[p] \in Op
  BY DEF Dispatch, Users, NoOp, StreamInv, Types
<1>2. CASE ops[p].held
  <2>1. PICK updated \in BOOLEAN :
          ops' = [ops EXCEPT ![p] = [ops[p] EXCEPT !.st = "done", !.rec = Recorded(p, updated)]]
    BY <1>2 DEF Dispatch, StreamInv, Types
  <2> DEFINE o == [ops[p] EXCEPT !.st = "done", !.rec = Recorded(p, updated)]
  <2>2. Recorded(p, updated) \in BOOLEAN
    BY DEF Recorded
  <2>3. o \in Op /\ o.st = "done" /\ o.what = ops[p].what /\ (o.held => ops[p].held)
    BY <1>1, <2>2 DEF Op
  <2>4. UNCHANGED <<backend, reg, refs, handle, stage>>
    <3>1. refs >= 1 /\ refs \in Nat
      BY <1>1, UserCounts, UsersFinite DEF StreamInv, Counted, Owner, Types
    <3> QED
      BY <1>2, <3>1 DEF Dispatch, DropRefs
  <2> HIDE DEF o
  <2> QED
    BY <1>1, <2>1, <2>3, <2>4, ChangeKeeps DEF o
<1>3. CASE ~ops[p].held
  BY <1>1, <1>3, GoneKeeps DEF Dispatch
<1> QED
  BY <1>2, <1>3

LEMMA ResolveKeeps ==
    ASSUME StreamInv, NEW p \in Ops, Resolve(p)
    PROVE  StreamInv'
<1>1. p \in Users
  BY DEF Resolve, Users, NoOp
<1>2. \/ UNCHANGED stage
      \/ /\ stage = "connecting" /\ stage' \in {"open", "dropping"}
         /\ ops[p].what = "connect" /\ ops[p].held
  BY DEF Resolve, Returns, ConnectReturns, StreamInv, Futures
<1> QED
  BY <1>1, <1>2, GoneKeeps DEF Resolve

LEMMA DropFutureKeeps ==
    ASSUME StreamInv, NEW p \in Ops, DropFuture(p)
    PROVE  StreamInv'
<1>1. /\ FutureGoes(p) /\ ops[p].held
      /\ p \in Users
      /\ ops[p].st # "none"
  BY DEF DropFuture, DropConnect, FutureGoes, Users, NoOp, StreamInv, Futures
<1>2. \/ UNCHANGED stage
      \/ /\ stage = "connecting" /\ stage' = "dropping"
         /\ ops[p].what = "connect" /\ ops[p].held
  BY DEF DropFuture, DropConnect, FutureGoes, StreamInv, Futures
<1>3. CASE ops[p].st = "done"
  BY <1>1, <1>2, <1>3, GoneKeeps DEF FutureGoes
<1>4. CASE ops[p].st # "done"
  <2> DEFINE o == [ops[p] EXCEPT !.held = FALSE]
  <2>1. o \in Op /\ o.st = ops[p].st /\ o.what = ops[p].what /\ ~o.held
    BY DEF StreamInv, Types, Op
  <2>2. ops' = [ops EXCEPT ![p] = o] /\ UNCHANGED <<backend, reg, refs, handle>>
    BY <1>1, <1>4 DEF FutureGoes, StreamInv, Types
  <2>3. Outstanding(p)
    BY <1>1, <1>4 DEF Outstanding, StreamInv, Types, Op
  <2> HIDE DEF o
  <2> QED
    BY <1>1, <1>2, <2>1, <2>2, <2>3, ChangeKeeps
<1> QED
  BY <1>3, <1>4

LEMMA StreamInvStep ==
    ASSUME StreamInv, [StreamNext]_streamVars
    PROVE  StreamInv'
<1>1. CASE UNCHANGED streamVars
  <2>1. Users' = Users
    BY <1>1 DEF Users, streamVars
  <2> QED
    BY <1>1, <2>1 DEF streamVars, objVars, StreamInv, Types, Counted, Owner, Owned, Registered,
                      Drained, Futures, Outstanding
<1>2. ASSUME NEW p \in Ops, OnOp(p) PROVE StreamInv'
  BY <1>2, StartKeeps, CompletesKeeps, DispatchKeeps, ResolveKeeps, DropFutureKeeps DEF OnOp
<1> QED
  BY <1>1, <1>2, MakesKeeps, EndsKeeps, TearsDownKeeps DEF StreamNext

----------------------------------------------------------------------------
(* Helpers.                                                                *)

\* Whatever a helper, its peer or the kernel does is, for the object, one of
\* its own steps or none.
LEMMA TransferSteps == [TransferNext]_allVars => [StreamNext]_streamVars
<1> SUFFICES ASSUME [TransferNext]_allVars PROVE [StreamNext]_streamVars
  OBVIOUS
<1> USE TransferAssumption
<1>1. CASE RawStep
  BY <1>1 DEF RawStep, StreamNext, OnOp
<1>2. CASE Teardown
  BY <1>2 DEF Teardown, StreamNext
<1>3. ASSUME NEW n, PeerWrites(n) PROVE UNCHANGED streamVars
  BY <1>3 DEF PeerWrites
<1>4. ASSUME NEW how, PeerEnds(how) PROVE UNCHANGED streamVars
  BY <1>4 DEF PeerEnds
<1>5. CASE KernelReads \/ KernelWrites
  <2>1. \E res \in {"ok", "failed", "aborted"} : Completes(Helper, res)
    BY <1>5 DEF KernelReads, KernelWrites
  <2> QED
    BY <2>1 DEF StreamNext, OnOp
<1>6. CASE Begin \/ LoopEnds
  BY <1>6 DEF Begin, LoopEnds
<1>7. CASE Loop
  BY <1>7 DEF Loop, StreamNext, OnOp
<1>8. CASE HelperDispatch \/ Awaited \/ DropHelper
  BY <1>8 DEF HelperDispatch, Awaited, DropHelper, StreamNext, OnOp
<1>9. CASE UNCHANGED allVars
  BY <1>9 DEF allVars
<1> QED
  BY <1>1, <1>2, <1>3, <1>4, <1>5, <1>6, <1>7, <1>8, <1>9 DEF TransferNext, HelperCode

\* The handle of an object outlives every use of it, whatever is dropped first:
\* the object, a future or the helper (handle.rs, and the drops of fs, pipe and
\* net).
THEOREM HandleOutlives == TransferSpec => []HandleAlive
<1>1. TransferInit => StreamInv
  BY StreamInvInit DEF TransferInit
<1>2. StreamInv /\ [TransferNext]_allVars => StreamInv'
  BY TransferSteps, StreamInvStep
<1> QED
  BY <1>1, <1>2, AliveInside, PTL DEF TransferSpec
----------------------------------------------------------------------------
(* What the helpers keep.                                                  *)

Codes == {"none", "ok", "ERROR_OPERATION_ABORTED", "ERROR_IO_DEVICE", "ERROR_HANDLE_EOF",
          "ERROR_MORE_DATA", "ERROR_BROKEN_PIPE", "ERROR_PIPE_NOT_CONNECTED", "ERROR_NO_DATA",
          "WSAECONNRESET", "ERROR_NETNAME_DELETED"}

HelperTypes ==
    /\ call \in {"none", "write_all", "read_exact", "read_to_end"}
    /\ verdict \in {"idle", "running", "ok", "UnexpectedEof", "ClosedPeer", "Win32", "dropped"}
    /\ ended \in {"no", "closed", "cut"}
    /\ src \in Nat /\ taken \in Nat /\ len \in Nat /\ start \in Nat
    /\ transferred \in Nat /\ position \in Nat
    /\ cells \in Seq(Nat) /\ out \in Seq(Nat) /\ pending \in Seq(Nat)
    /\ io \in [code : Codes, n : Nat]

\* Nothing happens to an object that is not there, and a file has no peer.
Quiet ==
    /\ stage = "none" => verdict = "idle" /\ src = 0
    /\ verdict = "idle" /\ (stage = "none" \/ kind = "file") => src = 0
    /\ stage = "none" \/ kind = "file" => ended = "no" /\ pending = <<>>
    /\ verdict = "idle" => transferred = 0 /\ taken = 0 /\ io = NoIo
    /\ call = "none" => verdict = "idle" /\ ended = "no"
    /\ Len(pending) <= 1 \/ (Pipe /\ mode = "message")

\* Before a helper begins, its operation is at most the connect of the object.
Connecting ==
    verdict = "idle" /\ call # "none" /\ ops[Helper] # NoOp =>
        /\ ops[Helper].what = "connect"
        /\ ops[Helper].held \/ stage \in {"dropping", "draining", "unregistered", "gone"}

\* The buffer: its first bytes are the caller's, then come those of the source.
Buffered ==
    /\ len <= Len(cells)
    /\ \A i \in 1..len : cells[i] # Uninit
    /\ call = "none" => start = 0 /\ cells = <<>>
    /\ call = "write_all" => start = 0 /\ len = Target /\ Len(cells) = Target
                             /\ \A i \in 1..Target : cells[i] = i
    /\ call = "read_exact" => start = 0 /\ Len(cells) = Target
    /\ call = "read_to_end" /\ verdict = "idle" => len = start
    /\ Reads => /\ start + taken <= Len(cells)
                /\ \A i \in 1..start : cells[i] # Uninit
                /\ \A i \in 1..taken : cells[start + i] = i

\* What write_all has written.
Sunk ==
    /\ call # "write_all" => out = <<>>
    /\ call = "write_all" => Len(out) = taken /\ \A i \in 1..taken : out[i] = i
    /\ call \in {"write_all", "read_exact"} => taken <= Target

\* The bytes of the source: those taken, and then, message after message, those
\* that wait.  Without a sum: the places where the messages end.
Cuts(f) ==
    /\ f[0] = taken
    /\ \A i \in 1..Len(pending) : f[i] = f[i - 1] + pending[i]
    /\ \A i \in 0..Len(pending) : f[i] <= src
    /\ ended # "cut" \/ Pipe => f[Len(pending)] = src

Offered ==
    Reads => /\ kind = "file" /\ verdict # "idle" => taken <= src
             /\ kind # "file" => \E f \in [0..Len(pending) -> Nat] : Cuts(f)

\* What a completion says of the source.
Truthful ==
    /\ io.code \notin {"ok", "ERROR_MORE_DATA"} => io.n = 0
    /\ io.code = "ERROR_MORE_DATA" => Pipe /\ Reads
    /\ Reads =>
        /\ io.code = "ERROR_HANDLE_EOF" => kind = "file" /\ src = taken
        /\ io.code = "ERROR_BROKEN_PIPE" => Pipe /\ ended = "closed" /\ pending = <<>>
        /\ io.code = "ERROR_PIPE_NOT_CONNECTED" => Pipe /\ ended = "cut" /\ pending = <<>>
        /\ io.code = "ERROR_NETNAME_DELETED" => kind = "socket"
        /\ kind = "socket" /\ io.code = "ok" /\ io.n = 0 => ended = "closed" /\ pending = <<>>

\* The helper and its operation agree on what was moved.
Counts ==
    /\ transferred <= taken
    /\ verdict = "running" =>
        /\ stage = "open" /\ call # "none"
        /\ kind = "file" => position = Offset + transferred
        /\ ops[Helper] # NoOp =>
            /\ ops[Helper].held /\ ops[Helper].what \in {"read", "write"}
            /\ kind \in {"file", "server", "client", "socket"}
        /\ taken = transferred + io.n
        /\ ops[Helper].st \in {"none", "inflight"} => io = NoIo
        /\ ops[Helper].st \in {"queued", "done"} => io.code # "none"
        /\ call = "read_to_end" => len = start + IF ops[Helper].st = "done" THEN taken ELSE transferred
        /\ ops[Helper].st = "queued" => io.n <= WindowLen
    /\ verdict \in {"ok", "UnexpectedEof", "ClosedPeer", "Win32"} =>
        transferred = taken /\ (call = "read_to_end" => len = start + transferred)

HelperInv ==
    /\ HelperTypes /\ Quiet /\ Connecting /\ Buffered /\ Sunk /\ Offered /\ Truthful /\ Counts


----------------------------------------------------------------------------
(* The operators of the helpers.                                           *)

LEMMA MinOfTwo ==
    ASSUME NEW a \in Nat, NEW b \in Nat
    PROVE  Min({a, b}) = IF a <= b THEN a ELSE b
<1>1. \E x \in {a, b} : \A y \in {a, b} : x <= y
  OBVIOUS
<1> QED
  BY <1>1 DEF Min

LEMMA MaxOfTwo ==
    ASSUME NEW a \in Nat, NEW b \in Nat
    PROVE  Max({a, b}) = IF a <= b THEN b ELSE a
<1>1. \E x \in {a, b} : \A y \in {a, b} : x >= y
  OBVIOUS
<1> QED
  BY <1>1 DEF Max

\* Bytes that are put into a sequence, or at its end, and what stays of it.
LEMMA PutFacts ==
    ASSUME NEW s \in Seq(Nat), NEW at \in Nat, NEW n \in Nat, NEW b \in Seq(Nat),
           Len(b) = n, at <= Len(s)
    PROVE  /\ PutAt(s, at, b) \in Seq(Nat)
           /\ Len(PutAt(s, at, b)) = IF Len(s) <= at + n THEN at + n ELSE Len(s)
           /\ \A i \in 1..n : PutAt(s, at, b)[at + i] = b[i]
           /\ \A i \in 1..Len(s) : i \notin at + 1..at + n => PutAt(s, at, b)[i] = s[i]
<1>1. Len(s) \in Nat /\ at + n \in Nat
  BY LenProperties
<1> DEFINE m == IF Len(s) <= at + n THEN at + n ELSE Len(s)
<1>2. m \in Nat /\ m >= at + n /\ m >= Len(s) /\ Max({Len(s), at + Len(b)}) = m
  BY <1>1, MaxOfTwo
<1> HIDE DEF m
<1> DEFINE e(i) == IF i \in at + 1..at + n THEN b[i - at] ELSE IF i <= Len(s) THEN s[i] ELSE Uninit
<1>3. PutAt(s, at, b) = [i \in 1..m |-> e(i)]
  BY <1>2 DEF PutAt
<1>4. \A i \in 1..m : e(i) \in Nat
  <2> TAKE i \in 1..m
  <2>1. CASE i \in at + 1..at + n
    <3>1. i - at \in 1..Len(b)
      BY <2>1, <1>1
    <3> QED
      BY <2>1, <3>1, ElementOfSeq
  <2>2. CASE i \notin at + 1..at + n /\ i <= Len(s)
    <3>1. i \in 1..Len(s)
      BY <2>2, <1>1, <1>2
    <3> QED
      BY <2>2, <3>1, ElementOfSeq
  <2>3. CASE i \notin at + 1..at + n /\ ~(i <= Len(s))
    BY <2>3 DEF Uninit
  <2> QED
    BY <2>1, <2>2, <2>3
<1>5. \A i \in 1..n : at + i \in 1..m /\ e(at + i) = b[i]
  <2> TAKE i \in 1..n
  <2>1. at + i \in at + 1..at + n /\ at + i - at = i /\ at + i \in 1..m
    BY <1>2
  <2> QED
    BY <2>1
<1>6. \A i \in 1..Len(s) : i \in 1..m /\ (i \notin at + 1..at + n => e(i) = s[i])
  BY <1>1, <1>2
<1> HIDE DEF e
<1>7. [i \in 1..m |-> e(i)] \in Seq(Nat)
  BY <1>2, <1>4
<1>8. Len([i \in 1..m |-> e(i)]) = m
  BY <1>2
<1>9. \A i \in 1..m : [j \in 1..m |-> e(j)][i] = e(i)
  OBVIOUS
<1> QED
  BY <1>3, <1>5, <1>6, <1>7, <1>8, <1>9 DEF m

\* The numbers the kernel puts into a window.
LEMMA Numbered ==
    ASSUME NEW m \in Nat, NEW n \in Nat
    PROVE  /\ [i \in 1..n |-> m + i] \in Seq(Nat)
           /\ Len([i \in 1..n |-> m + i]) = n
           /\ \A i \in 1..n : [j \in 1..n |-> m + j][i] = m + i
<1>1. \A i \in 1..n : m + i \in Nat
  OBVIOUS
<1> QED
  BY <1>1

LEMMA OneLess == \A l \in Nat : l >= 1 => l - 1 \in Nat /\ l = (l - 1) + 1
OBVIOUS

\* A sequence with a new head.
LEMMA NewHead ==
    ASSUME NEW t \in Seq(Nat), NEW h \in Nat, NEW k \in Nat, Len(t) = k
    PROVE  /\ <<h>> \o t \in Seq(Nat) /\ Len(<<h>> \o t) = k + 1
           /\ (<<h>> \o t)[1] = h
           /\ \A i \in 1..k : (<<h>> \o t)[i + 1] = t[i]
<1>1. PICK u : u = <<h>>
  OBVIOUS
<1>2. u \in Seq(Nat) /\ u[1] = h
  BY <1>1
<1>3. PICK l \in Nat : l = Len(u) /\ l = 1
  BY <1>1
<1>4. u \o t \in Seq(Nat) /\ Len(u \o t) = Len(u) + Len(t)
  BY <1>2, ConcatProperties
<1>5. \A i \in 1..Len(u) + Len(t) : (u \o t)[i] = IF i <= Len(u) THEN u[i] ELSE t[i - Len(u)]
  BY <1>2, ConcatProperties
<1>6. Len(u \o t) = k + 1
  BY <1>3, <1>4
<1>7. \A i \in 1..1 + k : (u \o t)[i] = IF i <= 1 THEN u[i] ELSE t[i - 1]
  BY <1>3, <1>5
<1>8. (u \o t)[1] = h
  <2>1. 1 \in 1..1 + k /\ 1 <= 1
    OBVIOUS
  <2> QED
    BY <1>2, <1>7, <2>1
<1>9. \A i \in 1..k : (u \o t)[i + 1] = t[i]
  <2> TAKE i \in 1..k
  <2>1. i + 1 \in 1..1 + k /\ ~(i + 1 <= 1) /\ (i + 1) - 1 = i
    OBVIOUS
  <2> QED
    BY <1>7, <2>1
<1> QED
  BY <1>1, <1>4, <1>6, <1>8, <1>9

\* An object is made once.
LEMMA ObjectStays ==
    ASSUME [StreamNext]_streamVars, stage # "none"
    PROVE  stage' # "none" /\ kind' = kind
<1>1. CASE UNCHANGED streamVars
  BY <1>1 DEF streamVars, objVars
<1>2. CASE Makes
  BY <1>2 DEF Makes, OpenFile, AdoptFile, CreatePipe, OpenPipe, BindTcp, BindUnix,
      NewTcp, NewUnix, NewSocket, ReadModeFails, UnlinkFails, BindFails, RegisterFails, Acquires,
      Abandons, Register
<1>3. CASE Ends
  BY <1>3 DEF Ends, DropFile, DropPipe, DropSocket, DropListener, Drops, Disconnect
<1>4. CASE TearsDown
  BY <1>4 DEF TearsDown, ReleaseSubmitter, DropSubmitter, DropHandle
<1>5. ASSUME NEW p \in Ops, OnOp(p) PROVE stage' # "none" /\ kind' = kind
  <2>1. CASE Accept(p) \/ ReadOnce(p) \/ WriteOnce(p)
    BY <2>1 DEF Accept, ReadOnce, WriteOnce, FileReadAt, FileWriteAt, PipeRead, PipeWrite,
                SocketRead, SocketWrite, InUse
  <2>2. CASE Connect(p)
    BY <2>2 DEF Connect
  <2>3. ASSUME NEW res, Completes(p, res) PROVE stage' # "none" /\ kind' = kind
    BY <2>3 DEF Completes, objVars
  <2>4. CASE Dispatch(p)
    BY <2>4 DEF Dispatch
  <2>5. CASE Resolve(p)
    BY <2>5 DEF Resolve, Returns, ConnectReturns
  <2>6. CASE DropFuture(p)
    BY <2>6 DEF DropFuture, DropConnect, FutureGoes
  <2> QED
    BY <1>5, <2>1, <2>2, <2>3, <2>4, <2>5, <2>6 DEF OnOp
<1> QED
  BY <1>1, <1>2, <1>3, <1>4, <1>5 DEF StreamNext

----------------------------------------------------------------------------
(* What raw operations and the peer do.                                    *)

LEMMA HelperInvInit == TransferInit => HelperInv
<1> SUFFICES ASSUME TransferInit PROVE HelperInv
  OBVIOUS
<1> USE TransferAssumption
<1>1. /\ ops[Helper] = NoOp /\ kind = "none" /\ stage = "none"
      /\ call \in {"none", "write_all", "read_exact", "read_to_end"}
      /\ src = 0 /\ pending = <<>> /\ ended = "no" /\ taken = 0 /\ transferred = 0 /\ position = 0
      /\ io = NoIo /\ out = <<>> /\ verdict = "idle"
  BY DEF TransferInit, StreamInit
<1>2. /\ cells \in Seq(Nat) /\ len \in Nat /\ start \in Nat /\ len <= Len(cells) /\ start <= len
      /\ \A i \in 1..len : cells[i] # Uninit
      /\ call = "none" => start = 0 /\ cells = <<>>
      /\ call = "write_all" => start = 0 /\ len = Target /\ Len(cells) = Target
                               /\ \A i \in 1..Target : cells[i] = i
      /\ call = "read_exact" => start = 0 /\ Len(cells) = Target
      /\ call = "read_to_end" => start = len
  <2>1. ASSUME NEW l \in Nat, NEW total \in Nat, l <= total, Buffer(l, total)
        PROVE  /\ cells \in Seq(Nat) /\ len = l /\ Len(cells) = total
               /\ \A i \in 1..len : cells[i] # Uninit
    <3>1. \A i \in 1..total : (IF i <= l THEN Old ELSE Uninit) \in Nat
      BY DEF Old, Uninit
    <3>2. cells = [i \in 1..total |-> IF i <= l THEN Old ELSE Uninit] /\ len = l
      BY <2>1 DEF Buffer
    <3>3. cells \in Seq(Nat) /\ Len(cells) = total
      BY <3>1, <3>2
    <3>4. \A i \in 1..len : cells[i] = Old
      BY <3>2, <2>1
    <3> QED
      BY <3>2, <3>3, <3>4 DEF Old, Uninit
  <2>2. CASE call = "none"
    BY <2>2 DEF TransferInit
  <2>3. CASE call = "write_all"
    <3>1. cells = [i \in 1..Target |-> i] /\ len = Target /\ start = 0
      BY <2>3 DEF TransferInit
    <3> QED
      BY <2>3, <3>1 DEF Uninit
  <2>4. CASE call = "read_exact"
    <3>1. (Buffer(0, Target) \/ Buffer(Target, Target)) /\ start = 0
      BY <2>4 DEF TransferInit
    <3> QED
      BY <2>1, <2>4, <3>1
  <2>5. CASE call = "read_to_end"
    <3>1. (Buffer(0, 1) \/ Buffer(1, 2)) /\ start = len
      BY <2>5 DEF TransferInit
    <3> QED
      BY <2>1, <2>5, <3>1
  <2> QED
    BY <1>1, <2>2, <2>3, <2>4, <2>5
<1>3. HelperTypes
  BY <1>1, <1>2 DEF HelperTypes, NoIo, Codes
<1>4. Quiet /\ Connecting
  BY <1>1 DEF Quiet, Connecting
<1>5. Buffered /\ Sunk
  BY <1>1, <1>2 DEF Buffered, Sunk, Reads
<1>6. Offered
  <2> DEFINE f == [i \in 0..0 |-> 0]
  <2>1. f \in [0..Len(pending) -> Nat] /\ Cuts(f)
    BY <1>1 DEF Cuts
  <2> QED
    BY <1>1, <2>1 DEF Offered
<1>7. Truthful /\ Counts
  BY <1>1 DEF Truthful, Counts, NoIo
<1> QED
  BY <1>3, <1>4, <1>5, <1>6, <1>7 DEF HelperInv

\* Steps of the object alone, while no helper runs.
LEMMA ObjectKeeps ==
    ASSUME StreamInv, HelperInv, [StreamNext]_streamVars, UNCHANGED transferVars,
           verdict # "running", Connecting'
    PROVE  HelperInv'
<1>1. stage # "none" => stage' # "none" /\ kind' = kind
  BY ObjectStays
<1>2. UNCHANGED <<src, pending, writes, ended, cells, len, start, call, mode, taken, transferred,
                  position, io, out, verdict>>
  BY DEF transferVars, sourceVars, bufferVars, helperVars
<1>3. stage = "none" => /\ verdict = "idle" /\ src = 0 /\ ended = "no" /\ pending = <<>>
                        /\ taken = 0 /\ io = NoIo
  BY DEF HelperInv, Quiet
<1>4. HelperTypes'
  BY <1>2 DEF HelperInv, HelperTypes
<1>5. Quiet'
  BY <1>1, <1>2, <1>3 DEF HelperInv, Quiet, Pipe
<1>6. Buffered' /\ Sunk'
  BY <1>2 DEF HelperInv, Buffered, Sunk, Reads
<1>7. Offered'
  <2>1. CASE stage = "none"
    <3> DEFINE f == [i \in 0..0 |-> 0]
    <3>1. f \in [0..Len(pending') -> Nat] /\ Cuts(f)'
      BY <1>2, <1>3, <2>1 DEF Cuts
    <3> QED
      BY <1>2, <1>3, <2>1, <3>1 DEF Offered
  <2>2. CASE stage # "none"
    BY <1>1, <1>2, <2>2 DEF HelperInv, Offered, Cuts, Reads, Pipe
  <2> QED
    BY <2>1, <2>2
<1>8. Truthful'
  <2>1. CASE stage = "none"
    BY <1>2, <1>3, <2>1 DEF Truthful, NoIo
  <2>2. CASE stage # "none"
    BY <1>1, <1>2, <2>2 DEF HelperInv, Truthful, Reads, Pipe
  <2> QED
    BY <2>1, <2>2
<1>9. Counts'
  BY <1>2 DEF HelperInv, Counts
<1> QED
  BY <1>4, <1>5, <1>6, <1>7, <1>8, <1>9 DEF HelperInv

\* The future of a connect that does not hold its object is in a drop of it.
LEMMA ConnectingKeeps ==
    ASSUME StreamInv, HelperInv, RawStep \/ Teardown, verdict # "running"
    PROVE  Connecting'
<1> USE TransferAssumption
<1> DEFINE Down == {"dropping", "draining", "unregistered", "gone"}
<1> DEFINE Frees ==
        ops[Helper] # NoOp =>
            /\ ops[Helper].what = "connect"
            /\ ~ops[Helper].held => stage \in Down
<1> SUFFICES ASSUME verdict = "idle", call # "none"
             PROVE  Frees'
  BY DEF Connecting, RawStep, Teardown, transferVars, helperVars
<1>1. /\ ops \in [Ops -> Op]
      /\ \A p \in Ops : ops[p].held /\ ops[p].what = "connect" => stage = "connecting"
  BY DEF StreamInv, Types, Futures
<1>2. Frees
  BY DEF HelperInv, Connecting
<1>3. ASSUME ops' = ops, stage \in Down => stage' \in Down
      PROVE  Frees'
  BY <1>2, <1>3
<1>4. CASE TearsDown
  BY <1>3, <1>4 DEF TearsDown, ReleaseSubmitter, DropSubmitter, DropHandle
<1>5. CASE Makes
  BY <1>3, <1>5 DEF Makes, OpenFile, AdoptFile, CreatePipe, OpenPipe, BindTcp, BindUnix,
      NewTcp, NewUnix, NewSocket, ReadModeFails, UnlinkFails, BindFails, RegisterFails, Acquires,
      Abandons, Register
<1>6. ASSUME NEW p \in Ops, Connect(p)
      PROVE  Frees'
  <2>1. stage \in {"idle", "registered"} /\ Submit(p, "connect", "none")
    BY <1>6 DEF Connect, ConnectPipe, ConnectSocket
  <2>2. p # Helper => ops'[Helper] = ops[Helper]
    BY <1>1, <2>1 DEF Submit
  <2>3. p = Helper => ops'[Helper].what = "connect" /\ ops'[Helper].held
    BY <1>1, <2>1 DEF Submit, NoOp
  <2> QED
    BY <1>2, <2>1, <2>2, <2>3
<1>7. ASSUME NEW p \in Ops, NEW res, Completes(p, res)
      PROVE  Frees'
  <2>1. ops[p] # NoOp /\ stage' = stage
    BY <1>7 DEF Completes, NoOp, objVars
  <2>2. ops[Helper] # NoOp =>
          ops'[Helper].what = ops[Helper].what /\ ops'[Helper].held = ops[Helper].held
    BY <1>1, <1>7 DEF Completes, Op
  <2>3. ops[Helper] = NoOp => ops'[Helper] = ops[Helper]
    BY <1>1, <1>7, <2>1 DEF Completes
  <2> QED
    BY <1>2, <2>1, <2>2, <2>3
<1>8. ASSUME NEW p \in Ops, Dispatch(p)
      PROVE  Frees'
  <2>1. ops[p] # NoOp /\ stage' = stage
    BY <1>8 DEF Dispatch, NoOp
  <2>2. p # Helper => ops'[Helper] = ops[Helper]
    BY <1>1, <1>8 DEF Dispatch
  <2>3. p = Helper /\ ~ops[p].held => ops'[Helper] = NoOp
    BY <1>1, <1>8 DEF Dispatch
  <2>4. p = Helper /\ ops[p].held => ops'[Helper].what = ops[Helper].what /\ ops'[Helper].held
    <3> SUFFICES ASSUME p = Helper, ops[p].held PROVE ops'[p].what = ops[p].what /\ ops'[p].held
      OBVIOUS
    <3>1. PICK updated \in BOOLEAN :
            ops' = [ops EXCEPT ![p] = [ops[p] EXCEPT !.st = "done", !.rec = Recorded(p, updated)]]
      BY <1>1, <1>8 DEF Dispatch
    <3> QED
      BY <1>1, <3>1 DEF Op
  <2> QED
    BY <1>2, <2>1, <2>2, <2>3, <2>4
<1>9. ASSUME NEW p \in Ops, Resolve(p)
      PROVE  Frees'
  <2>1. ops' = [ops EXCEPT ![p] = NoOp]
    BY <1>9 DEF Resolve
  <2>2. stage \in Down => stage' = stage
    BY <1>1, <1>9 DEF Resolve, Returns, ConnectReturns
  <2> QED
    BY <1>1, <1>2, <2>1, <2>2
<1>10. ASSUME NEW p \in Ops, DropFuture(p)
       PROVE  Frees'
  <2>1. FutureGoes(p) /\ ops[p] # NoOp
    BY <1>10 DEF DropFuture, DropConnect, FutureGoes, NoOp
  <2>2. stage \in Down => stage' \in Down
    BY <1>10 DEF DropFuture, DropConnect
  <2>3. p = Helper => ops[p].what = "connect" /\ stage' \in Down
    BY <1>2, <1>10, <2>1 DEF DropFuture, DropConnect
  <2>4. p # Helper => ops'[Helper] = ops[Helper]
    BY <1>1, <2>1 DEF FutureGoes
  <2>5. p = Helper => ops'[Helper] = NoOp \/ ops'[Helper].what = ops[Helper].what
    BY <1>1, <2>1 DEF FutureGoes, Op
  <2> QED
    BY <1>2, <2>2, <2>3, <2>4, <2>5
<1> HIDE DEF Frees
<1> QED
  BY <1>4, <1>5, <1>6, <1>7, <1>8, <1>9, <1>10 DEF RawStep, Teardown

LEMMA RawKeeps ==
    ASSUME StreamInv, HelperInv, RawStep \/ Teardown
    PROVE  HelperInv'
<1>1. verdict # "running"
  <2>1. Teardown => stage # "open"
    BY DEF Teardown, TearsDown, ReleaseSubmitter, DropSubmitter, DropHandle
  <2> QED
    BY <2>1 DEF RawStep, HelperInv, Counts
<1>2. Connecting'
  BY <1>1, ConnectingKeeps
<1>3. UNCHANGED transferVars
  BY DEF RawStep, Teardown
<1>4. [StreamNext]_streamVars
  BY TransferSteps DEF TransferNext
<1> QED
  BY <1>1, <1>2, <1>3, <1>4, ObjectKeeps

\* What the source and the peer do leaves the helper as it is.
LEMMA SourceKeeps ==
    ASSUME HelperInv, UNCHANGED <<streamVars, bufferVars, helperVars>>,
           HelperTypes', Quiet', Offered', Truthful'
    PROVE  HelperInv'
<1>1. /\ UNCHANGED <<stage, kind, ops, cells, len, start>>
      /\ UNCHANGED <<call, mode, taken, transferred, position, io, out, verdict>>
  BY DEF streamVars, objVars, bufferVars, helperVars
<1>2. Connecting' /\ Buffered' /\ Sunk'
  BY <1>1 DEF HelperInv, Connecting, Buffered, Sunk, Reads
<1>3. WindowLen' = WindowLen
  BY <1>1 DEF WindowLen, Begins
<1>4. Counts'
  BY <1>1, <1>3 DEF HelperInv, Counts
<1> QED
  BY <1>2, <1>4 DEF HelperInv

LEMMA PeerWritesKeeps ==
    ASSUME HelperInv, NEW n \in Nat, PeerWrites(n)
    PROVE  HelperInv'
<1>1. /\ UNCHANGED <<streamVars, bufferVars, helperVars>>
      /\ UNCHANGED <<stage, kind, ended, call, mode, taken, io, verdict>>
      /\ stage = "open" /\ Reads /\ kind # "file" /\ ended = "no" /\ src' = src + n
  BY DEF PeerWrites, streamVars, objVars, helperVars
<1>2. pending \in Seq(Nat) /\ src \in Nat /\ taken \in Nat /\ Len(pending) \in Nat
  BY LenProperties DEF HelperInv, HelperTypes
<1>3. PICK f \in [0..Len(pending) -> Nat] : Cuts(f)
  BY <1>1 DEF HelperInv, Offered
<1>4. f[Len(pending)] = src /\ f[0] = taken /\ taken <= src
  BY <1>1, <1>2, <1>3 DEF Cuts
<1>5. /\ pending' \in Seq(Nat)
      /\ Len(pending') <= 1 \/ (Pipe /\ mode = "message")
      /\ \E g \in [0..Len(pending') -> Nat] : Cuts(g)'
  <2>1. CASE (Pipe /\ mode = "message") \/ pending = <<>>
    <3>1. pending' = Append(pending, n)
      BY <2>1 DEF PeerWrites
    <3>2. /\ pending' \in Seq(Nat) /\ Len(pending') = Len(pending) + 1
          /\ pending'[Len(pending) + 1] = n
          /\ \A i \in 1..Len(pending) : pending'[i] = pending[i]
      BY <1>2, <3>1, AppendProperties
    <3>0. PICK g : g = [i \in 0..Len(pending) + 1 |-> IF i = Len(pending) + 1 THEN src + n ELSE f[i]]
      OBVIOUS
    <3>3. g \in [0..Len(pending) + 1 -> Nat]
      BY <1>2, <3>0
    <3>4. g[0] = taken /\ g[Len(pending) + 1] = src + n
      <4>1. 0 \in 0..Len(pending) + 1 /\ Len(pending) + 1 \in 0..Len(pending) + 1 /\ 0 # Len(pending) + 1
        BY <1>2
      <4> QED
        BY <1>4, <3>0, <4>1
    <3>5. \A i \in 0..Len(pending) : g[i] = f[i] /\ g[i] <= src + n
      <4> TAKE i \in 0..Len(pending)
      <4>1. g[i] = f[i]
        BY <1>2, <3>0
      <4>2. f[i] \in Nat /\ f[i] <= src
        BY <1>2, <1>3 DEF Cuts
      <4> QED
        BY <1>2, <4>1, <4>2
    <3>6. ASSUME NEW i \in 1..Len(pending) + 1 PROVE g[i] = g[i - 1] + pending'[i]
      <4>1. CASE i = Len(pending) + 1
        <5>1. i - 1 = Len(pending) /\ i - 1 \in 0..Len(pending)
          BY <1>2, <4>1
        <5> QED
          BY <1>4, <3>2, <3>4, <3>5, <4>1, <5>1
      <4>2. CASE i # Len(pending) + 1
        <5>1. i \in 1..Len(pending) /\ i \in 0..Len(pending) /\ i - 1 \in 0..Len(pending)
          BY <1>2, <4>2
        <5>2. f[i] = f[i - 1] + pending[i]
          BY <1>3, <5>1 DEF Cuts
        <5> QED
          BY <3>2, <3>5, <5>1, <5>2
      <4> QED
        BY <4>1, <4>2
    <3>7. \A i \in 0..Len(pending) + 1 : g[i] <= src + n
      BY <1>2, <3>4, <3>5
    <3>8. Cuts(g)'
      BY <1>1, <3>2, <3>4, <3>6, <3>7 DEF Cuts
    <3>9. Len(pending') <= 1 \/ (Pipe /\ mode = "message")
      BY <2>1, <3>2
    <3> QED
      BY <3>2, <3>3, <3>8, <3>9
  <2>2. CASE ~((Pipe /\ mode = "message") \/ pending = <<>>)
    <3>1. pending' = <<Head(pending) + n>>
      BY <2>2 DEF PeerWrites
    <3>2. Len(pending) = 1
      <4>1. Len(pending) # 0
        BY <1>2, <2>2, EmptySeq
      <4>2. Len(pending) <= 1
        BY <2>2 DEF HelperInv, Quiet
      <4> QED
        BY <1>2, <4>1, <4>2
    <3>3. Head(pending) = pending[1] /\ pending[1] \in Nat
      BY <1>2, <2>2, <3>2, HeadTailProperties, ElementOfSeq
    <3>4. f[1] = f[0] + pending[1] /\ f[1] = src
      BY <1>3, <1>4, <3>2 DEF Cuts
    <3>5. pending' \in Seq(Nat) /\ Len(pending') = 1 /\ pending'[1] = pending[1] + n
      BY <3>1, <3>3
    <3>0. PICK g : g = [i \in 0..1 |-> IF i = 0 THEN taken ELSE src + n]
      OBVIOUS
    <3>6. g \in [0..Len(pending') -> Nat] /\ g[0] = taken /\ g[1] = src + n
      BY <1>2, <3>0, <3>5
    <3>7. Cuts(g)'
      <4>1. \A i \in 1..1 : i = 1 /\ i - 1 = 0
        OBVIOUS
      <4>2. g[1] = g[0] + pending'[1]
        <5>1. PICK m \in Nat : m = pending[1]
          BY <3>3
        <5>2. src = taken + m
          BY <1>4, <3>4, <5>1
        <5>3. pending'[1] = m + n
          BY <3>5, <5>1
        <5> QED
          BY <1>2, <3>6, <5>2, <5>3
      <4>3. \A i \in 0..1 : g[i] <= src + n
        BY <1>2, <1>4, <3>6
      <4> QED
        BY <1>1, <3>5, <3>6, <4>1, <4>2, <4>3 DEF Cuts
    <3> QED
      BY <3>5, <3>6, <3>7
  <2> QED
    BY <2>1, <2>2
<1>6. HelperTypes'
  BY <1>1, <1>2, <1>5 DEF HelperInv, HelperTypes, bufferVars, helperVars
<1>7. Quiet'
  BY <1>1, <1>5 DEF HelperInv, Quiet, Pipe, helperVars
<1>8. Offered'
  BY <1>1, <1>5 DEF Offered
<1>9. Truthful'
  BY <1>1 DEF HelperInv, Truthful, Reads, Pipe
<1> QED
  BY <1>1, <1>6, <1>7, <1>8, <1>9, SourceKeeps

LEMMA PeerEndsKeeps ==
    ASSUME HelperInv, NEW how \in {"closed", "cut"}, PeerEnds(how)
    PROVE  HelperInv'
<1>1. /\ UNCHANGED <<streamVars, bufferVars, helperVars>>
      /\ UNCHANGED <<stage, kind, call, mode, taken, io, verdict>>
      /\ stage = "open" /\ call # "none" /\ kind # "file" /\ ended = "no" /\ ended' = how
      /\ pending' = IF how = "closed" THEN pending ELSE <<>>
      /\ src' = IF how = "cut" /\ Pipe THEN taken ELSE src
  BY DEF PeerEnds, streamVars, objVars, helperVars
<1>2. pending \in Seq(Nat) /\ src \in Nat /\ taken \in Nat /\ Len(pending) \in Nat
  BY LenProperties DEF HelperInv, HelperTypes
<1>3. HelperTypes'
  BY <1>1, <1>2 DEF HelperInv, HelperTypes, bufferVars, helperVars
<1>4. Quiet'
  BY <1>1 DEF HelperInv, Quiet, Pipe, helperVars
<1>5. Offered'
  <2> SUFFICES ASSUME Reads PROVE \E g \in [0..Len(pending') -> Nat] : Cuts(g)'
    BY <1>1 DEF Offered, Reads
  <2>1. PICK f \in [0..Len(pending) -> Nat] : Cuts(f)
    BY <1>1 DEF HelperInv, Offered
  <2>2. f[Len(pending)] = src /\ f[0] = taken /\ taken <= src
    BY <1>1, <1>2, <2>1 DEF Cuts
  <2>3. CASE how = "closed"
    <3>1. Cuts(f)'
      BY <1>1, <2>1, <2>2, <2>3 DEF Cuts
    <3> QED
      BY <1>1, <2>3, <3>1
  <2>4. CASE how = "cut"
    <3>0. PICK g : g = [i \in 0..0 |-> taken]
      OBVIOUS
    <3>1. g \in [0..Len(pending') -> Nat] /\ g[0] = taken /\ Len(pending') = 0
      BY <1>1, <1>2, <2>4, <3>0
    <3>2. Cuts(g)'
      BY <1>1, <1>2, <2>2, <2>4, <3>1 DEF Cuts, Pipe
    <3> QED
      BY <3>1, <3>2
  <2> QED
    BY <2>3, <2>4
<1>6. Truthful'
  BY <1>1 DEF HelperInv, Truthful, Reads, Pipe
<1> QED
  BY <1>1, <1>3, <1>4, <1>5, <1>6, SourceKeeps

----------------------------------------------------------------------------
(* What the helper does around its operations.                             *)

\* The window lies inside the buffer.
LEMMA WindowFacts ==
    ASSUME HelperInv, call # "none"
    PROVE  /\ Begins \in Nat /\ WindowLen \in Nat
           /\ Begins + WindowLen <= IF call = "write_all" THEN len ELSE Len(cells)
<1>1. /\ len \in Nat /\ transferred \in Nat /\ taken \in Nat /\ start \in Nat /\ Len(cells) \in Nat
      /\ transferred <= taken /\ len <= Len(cells)
      /\ call = "write_all" => taken <= Target /\ len = Target
      /\ call \in {"read_exact", "read_to_end"} => start + taken <= Len(cells)
      /\ call = "read_exact" => start = 0
  BY LenProperties DEF HelperInv, HelperTypes, Counts, Buffered, Sunk, Reads
<1>2. Target \in Nat /\ HELPER_CHUNK \in Nat
  BY TransferAssumption
<1> DEFINE whole == IF call = "write_all" THEN len ELSE Len(cells)
<1>3. Begins \in Nat /\ whole \in Nat /\ Begins <= whole
  BY <1>1, <1>2 DEF Begins, HelperInv, HelperTypes
<1>4. WindowLen = Min({HELPER_CHUNK, whole - Begins})
  BY DEF WindowLen
<1> HIDE DEF whole
<1>5. whole - Begins \in Nat
  BY <1>3
<1>6. WindowLen = IF HELPER_CHUNK <= whole - Begins THEN HELPER_CHUNK ELSE whole - Begins
  BY <1>2, <1>4, <1>5, MinOfTwo
<1>7. WindowLen \in Nat /\ Begins + WindowLen <= whole
  BY <1>2, <1>3, <1>5, <1>6
<1> QED
  BY <1>3, <1>7 DEF whole

\* What the steps of its operation do to a running helper.
LEMMA SubmitFacts ==
    ASSUME StreamInv, IF Reads THEN ReadOnce(Helper) ELSE WriteOnce(Helper)
    PROVE  /\ ops[Helper] = NoOp /\ UNCHANGED <<stage, kind>>
           /\ ops'[Helper].st = "inflight" /\ ops'[Helper].held
           /\ ops'[Helper].what \in {"read", "write"}
           /\ kind \in {"file", "server", "client", "socket"}
<1>1. /\ \E what \in {"read", "write"} : Submit(Helper, what, "none") /\ UNCHANGED <<stage, kind>>
      /\ kind \in {"file", "server", "client", "socket"}
  BY DEF ReadOnce, WriteOnce, FileReadAt, FileWriteAt, PipeRead, PipeWrite, SocketRead,
         SocketWrite, InUse, ReadHandleAt, WriteHandleAt, ReadHandle, WriteHandle, RecvSocket,
         SendSocket, Pipe
<1> QED
  BY <1>1, TransferAssumption DEF Submit, NoOp, StreamInv, Types

LEMMA CompletesFacts ==
    ASSUME StreamInv, NEW res, Completes(Helper, res)
    PROVE  /\ ops[Helper].st = "inflight" /\ ops'[Helper].st = "queued"
           /\ ops'[Helper].what = ops[Helper].what /\ (ops[Helper].held => ops'[Helper].held)
           /\ UNCHANGED <<stage, kind>>
BY TransferAssumption DEF Completes, objVars, StreamInv, Types, Op

LEMMA DispatchFacts ==
    ASSUME StreamInv, Dispatch(Helper), ops[Helper].held
    PROVE  /\ ops[Helper].st = "queued" /\ ops'[Helper].st = "done"
           /\ ops'[Helper].what = ops[Helper].what /\ ops'[Helper].held
           /\ UNCHANGED <<stage, kind>>
<1>1. PICK updated \in BOOLEAN :
        ops' = [ops EXCEPT ![Helper] =
                    [ops[Helper] EXCEPT !.st = "done", !.rec = Recorded(Helper, updated)]]
  BY TransferAssumption DEF Dispatch, StreamInv, Types
<1>2. ops[Helper].st = "queued" /\ UNCHANGED <<stage, kind>>
  BY DEF Dispatch
<1> QED
  BY <1>1, <1>2, TransferAssumption DEF StreamInv, Types, Op

LEMMA ResolveFacts ==
    ASSUME StreamInv, Resolve(Helper), ops[Helper].what \in {"read", "write"}
    PROVE  ops[Helper].st = "done" /\ ops'[Helper] = NoOp /\ UNCHANGED <<stage, kind>>
BY TransferAssumption DEF Resolve, Returns, ConnectReturns, StreamInv, Types

LEMMA BeginKeeps ==
    ASSUME StreamInv, HelperInv, Begin
    PROVE  HelperInv'
<1> USE TransferAssumption
<1>1. /\ stage = "open" /\ call # "none" /\ verdict = "idle" /\ verdict' = "running"
      /\ position' = Offset
      /\ UNCHANGED <<stage, kind, ops, pending, writes, ended, cells, len, start, call, mode,
                     taken, transferred, io, out>>
      /\ src' \in Nat /\ (~(kind = "file" /\ Reads) => src' = src)
  BY DEF Begin, streamVars, objVars, bufferVars, HelperInv, HelperTypes
<1>2. ops[Helper] = NoOp
  BY <1>1 DEF HelperInv, Connecting, StreamInv, Futures
<1>3. transferred = 0 /\ taken = 0 /\ io = NoIo
  BY <1>1 DEF HelperInv, Quiet
<1>4. HelperTypes'
  BY <1>1 DEF HelperInv, HelperTypes
<1>5. Quiet'
  BY <1>1 DEF HelperInv, Quiet, Pipe
<1>6. Connecting' /\ Buffered' /\ Sunk'
  BY <1>1 DEF HelperInv, Connecting, Buffered, Sunk, Reads
<1>7. Offered'
  BY <1>1, <1>3 DEF HelperInv, Offered, Cuts, Reads, Pipe
<1>8. Truthful'
  BY <1>1, <1>3 DEF Truthful, NoIo
<1>9. Counts'
  <2>1. call = "read_to_end" => len = start
    BY <1>1 DEF HelperInv, Buffered
  <2> QED
    BY <1>1, <1>2, <1>3, <2>1 DEF Counts, NoOp, NoIo, HelperInv, HelperTypes
<1> QED
  BY <1>4, <1>5, <1>6, <1>7, <1>8, <1>9 DEF HelperInv

LEMMA LoopKeeps ==
    ASSUME StreamInv, HelperInv, Loop
    PROVE  HelperInv'
<1> USE TransferAssumption
<1>1. /\ verdict = "running"
      /\ IF Reads THEN ReadOnce(Helper) ELSE WriteOnce(Helper)
      /\ UNCHANGED <<src, pending, writes, ended, len, start, call, mode, taken, transferred,
                     position, io, out, verdict>>
      /\ \/ UNCHANGED cells
         \/ call = "read_to_end" /\ cells' = cells \o [i \in 1..HELPER_CHUNK |-> Uninit]
  BY DEF Loop, sourceVars, helperVars
<1>2. /\ ops[Helper] = NoOp /\ UNCHANGED <<stage, kind>>
      /\ ops'[Helper].st = "inflight" /\ ops'[Helper].held
      /\ ops'[Helper].what \in {"read", "write"}
      /\ kind \in {"file", "server", "client", "socket"}
  BY <1>1, SubmitFacts
<1>3. /\ cells \in Seq(Nat) /\ cells' \in Seq(Nat) /\ Len(cells) \in Nat /\ Len(cells') \in Nat
      /\ Len(cells) <= Len(cells')
      /\ \A i \in 1..Len(cells) : cells'[i] = cells[i]
      /\ call # "read_to_end" => cells' = cells
  <2>1. cells \in Seq(Nat) /\ Len(cells) \in Nat
    BY LenProperties DEF HelperInv, HelperTypes
  <2>2. CASE UNCHANGED cells
    BY <2>1, <2>2
  <2>3. CASE call = "read_to_end" /\ cells' = cells \o [i \in 1..HELPER_CHUNK |-> Uninit]
    <3> DEFINE room == [i \in 1..HELPER_CHUNK |-> Uninit]
    <3>1. room \in Seq(Nat) /\ Len(room) = HELPER_CHUNK /\ HELPER_CHUNK \in Nat
      BY DEF Uninit
    <3> HIDE DEF room
    <3>2. /\ cells \o room \in Seq(Nat) /\ Len(cells \o room) = Len(cells) + HELPER_CHUNK
          /\ \A i \in 1..Len(cells) : (cells \o room)[i] = cells[i]
      <4>1. cells \o room \in Seq(Nat) /\ Len(cells \o room) = Len(cells) + Len(room)
        BY <2>1, <3>1, ConcatProperties
      <4>2. ASSUME NEW i \in 1..Len(cells) PROVE (cells \o room)[i] = cells[i]
        <5>1. i \in 1..Len(cells) + Len(room) /\ i <= Len(cells)
          BY <2>1, <3>1
        <5> QED
          BY <2>1, <3>1, <5>1, ConcatProperties
      <4> QED
        BY <3>1, <4>1, <4>2
    <3> QED
      BY <2>1, <2>3, <3>1, <3>2 DEF room
  <2> QED
    BY <1>1, <2>2, <2>3
<1>4. HelperTypes'
  BY <1>1, <1>3 DEF HelperInv, HelperTypes
<1>5. Quiet' /\ Connecting' /\ Sunk'
  BY <1>1, <1>2 DEF HelperInv, Quiet, Connecting, Sunk, Pipe
<1>6. Buffered'
  <2>1. len \in Nat /\ start \in Nat /\ taken \in Nat /\ len <= Len(cells)
    BY DEF HelperInv, HelperTypes, Buffered
  <2>2. len' <= Len(cells') /\ \A i \in 1..len : cells'[i] # Uninit
    <3>1. \A i \in 1..len : i \in 1..Len(cells) /\ cells[i] # Uninit
      BY <1>3, <2>1 DEF HelperInv, Buffered
    <3>2. \A i \in 1..len : cells'[i] # Uninit
      BY <1>3, <3>1
    <3>3. len' <= Len(cells')
      BY <1>1, <1>3, <2>1
    <3> QED
      BY <3>2, <3>3
  <2>3. Reads => /\ start + taken <= Len(cells')
                 /\ \A i \in 1..start : cells'[i] # Uninit
                 /\ \A i \in 1..taken : cells'[start + i] = i
    <3> SUFFICES ASSUME Reads
                 PROVE  /\ start + taken <= Len(cells')
                        /\ \A i \in 1..start : cells'[i] # Uninit
                        /\ \A i \in 1..taken : cells'[start + i] = i
      OBVIOUS
    <3>1. start + taken <= Len(cells)
      BY DEF HelperInv, Buffered
    <3>2. \A i \in 1..start : i \in 1..Len(cells)
      BY <1>3, <2>1, <3>1
    <3>3. \A i \in 1..taken : start + i \in 1..Len(cells)
      BY <1>3, <2>1, <3>1
    <3>4. \A i \in 1..start : cells[i] # Uninit
      BY DEF HelperInv, Buffered
    <3>5. \A i \in 1..taken : cells[start + i] = i
      BY DEF HelperInv, Buffered
    <3>6. start + taken <= Len(cells')
      BY <1>3, <2>1, <3>1
    <3> QED
      BY <1>3, <3>2, <3>3, <3>4, <3>5, <3>6
  <2>4. call # "none" /\ call # "read_to_end" => cells' = cells
    BY <1>3
  <2> QED
    BY <1>1, <1>3, <2>2, <2>3, <2>4 DEF HelperInv, Buffered, Reads, Counts
<1>7. Offered' /\ Truthful'
  BY <1>1, <1>2 DEF HelperInv, Offered, Cuts, Truthful, Reads, Pipe
<1>8. Counts'
  BY <1>1, <1>2 DEF HelperInv, Counts, NoOp
<1> QED
  BY <1>4, <1>5, <1>6, <1>7, <1>8 DEF HelperInv

\* The helper ends between two operations, or is dropped.
LEMMA EndKeeps ==
    ASSUME StreamInv, HelperInv, LoopEnds \/ DropHelper
    PROVE  HelperInv'
<1>1. /\ verdict = "running" /\ stage = "open"
      /\ UNCHANGED <<src, pending, writes, ended, cells, len, start, call, mode, taken,
                     transferred, position, io, out>>
      /\ verdict' \in {"ok", "dropped"}
  BY DEF LoopEnds, DropHelper, sourceVars, bufferVars, HelperInv, Counts
<1>2. UNCHANGED <<stage, kind>>
  <2>1. CASE LoopEnds
    BY <2>1 DEF LoopEnds, streamVars, objVars
  <2>2. CASE DropHelper
    <3>1. ops[Helper].held => ops[Helper].what # "connect"
      BY <1>1, TransferAssumption DEF StreamInv, Futures
    <3> QED
      BY <2>2, <3>1 DEF DropHelper, DropFuture, DropConnect, FutureGoes
  <2> QED
    BY <2>1, <2>2
<1>3. verdict' = "ok" => transferred = taken /\ call # "read_to_end"
  <2> SUFFICES ASSUME verdict' = "ok" PROVE transferred = taken /\ call # "read_to_end"
    OBVIOUS
  <2>1. LoopEnds
    BY DEF DropHelper
  <2>2. io = NoIo
    BY <1>1, <2>1 DEF LoopEnds, NoOp, HelperInv, Counts
  <2> QED
    BY <1>1, <2>1, <2>2 DEF LoopEnds, HelperInv, HelperTypes, Counts, NoIo
<1>4. HelperTypes' /\ Quiet' /\ Connecting' /\ Sunk'
  BY <1>1, <1>2 DEF HelperInv, HelperTypes, Quiet, Connecting, Sunk, Pipe
<1>5. Buffered' /\ Offered' /\ Truthful'
  BY <1>1, <1>2 DEF HelperInv, Buffered, Offered, Cuts, Truthful, Reads, Pipe
<1>6. Counts'
  BY <1>1, <1>3 DEF HelperInv, Counts
<1> QED
  BY <1>4, <1>5, <1>6 DEF HelperInv

----------------------------------------------------------------------------
(* What the kernel does.                                                   *)

\* Where a running helper is when its operation is in flight.
LEMMA InFlightFacts ==
    ASSUME HelperInv, verdict = "running", ops[Helper].st = "inflight"
    PROVE  /\ io = NoIo /\ transferred = taken /\ stage = "open" /\ call # "none"
           /\ kind \in {"file", "server", "client", "socket"}
           /\ kind = "file" => position - Offset = taken
           /\ Begins = start + taken
           /\ taken \in Nat /\ start \in Nat /\ src \in Nat
<1>1. /\ io = NoIo /\ taken = transferred + io.n /\ stage = "open" /\ call # "none"
      /\ kind = "file" => position = Offset + transferred
      /\ call = "read_to_end" => len = start + transferred
      /\ taken \in Nat /\ start \in Nat /\ src \in Nat /\ transferred \in Nat
      /\ call \in {"write_all", "read_exact", "read_to_end"}
      /\ kind \in {"file", "server", "client", "socket"}
  BY DEF HelperInv, Counts, HelperTypes, NoOp
<1>2. call # "read_to_end" => start = 0
  BY <1>1 DEF HelperInv, Buffered
<1>3. transferred = taken
  BY <1>1 DEF NoIo
<1>4. kind = "file" => position - Offset = taken
  BY <1>1, <1>3, TransferAssumption
<1>5. Begins = start + taken
  BY <1>1, <1>2, <1>3 DEF Begins
<1> QED
  BY <1>1, <1>3, <1>4, <1>5

LEMMA FailureFacts ==
    ASSUME NEW r \in Failures
    PROVE  r.code \in {"ERROR_OPERATION_ABORTED", "ERROR_IO_DEVICE"} /\ r.n = 0
           /\ r \in [code : Codes, n : Nat]
BY DEF Failures, Code, Codes

\* What a read may end with.
LEMMA ReadResults ==
    ASSUME HelperInv, verdict = "running", ops[Helper].st = "inflight", Reads,
           NEW r \in Failures \cup (IF kind = "file" THEN FileReads ELSE PeerReads)
    PROVE  /\ r \in [code : Codes, n : Nat] /\ r.code # "none"
           /\ r.n <= WindowLen
           /\ r.code \notin {"ok", "ERROR_MORE_DATA"} => r.n = 0
           /\ r.code = "ERROR_MORE_DATA" => Pipe
           /\ r.code = "ERROR_HANDLE_EOF" => kind = "file" /\ src = taken
           /\ r.code = "ERROR_BROKEN_PIPE" => Pipe /\ ended = "closed" /\ pending = <<>>
           /\ r.code = "ERROR_PIPE_NOT_CONNECTED" => Pipe /\ ended = "cut" /\ pending = <<>>
           /\ r.code = "ERROR_NETNAME_DELETED" => kind = "socket"
           /\ kind = "socket" /\ r.code = "ok" /\ r.n = 0 =>
                ended = "closed" /\ pending = <<>>
           /\ kind = "file" => taken + r.n <= src
           /\ kind # "file" /\ pending # <<>> => r.n <= Head(pending) /\ Head(pending) \in Nat
           /\ kind # "file" /\ pending = <<>> => r.n = 0
<1>1. WindowLen \in Nat
  BY InFlightFacts, WindowFacts
<1>2. taken \in Nat /\ src \in Nat /\ Whence = taken
  BY InFlightFacts DEF Whence
<1>3. ended \in {"no", "closed", "cut"} /\ pending \in Seq(Nat)
  BY DEF HelperInv, HelperTypes
<1>4. kind # "file" /\ pending # <<>> => Head(pending) \in Nat
  BY <1>3, HeadTailProperties
<1>5. kind = "file" => taken <= src
  BY DEF HelperInv, Offered
<1>6. CASE r \in Failures
  BY <1>1, <1>2, <1>4, <1>5, <1>6, FailureFacts
<1>7. CASE kind = "file" /\ r \in FileReads
  <2>1. ~Pipe
    BY <1>7 DEF Pipe
  <2>2. CASE src = Whence
    <3>1. r.code = "ERROR_HANDLE_EOF" /\ r.n = 0 /\ r \in [code : Codes, n : Nat]
      BY <1>7, <2>2 DEF FileReads, Code, Codes
    <3> QED
      BY <1>1, <1>2, <1>7, <2>1, <2>2, <3>1
  <2>3. CASE src # Whence
    <3>1. PICK n \in 1..Min({WindowLen, src - Whence}) : r = [code |-> "ok", n |-> n]
      BY <1>7, <2>3 DEF FileReads, Bytes
    <3>2. src - Whence \in Nat
      BY <1>2, <1>5, <1>7
    <3>3. n \in Nat /\ n >= 1 /\ n <= WindowLen /\ n <= src - taken
      BY <1>1, <1>2, <3>2, MinOfTwo
    <3>4. r.code = "ok" /\ r.n = n /\ r \in [code : Codes, n : Nat]
      BY <3>1, <3>3 DEF Codes
    <3> QED
      BY <1>2, <1>7, <3>3, <3>4
  <2> QED
    BY <2>2, <2>3
<1>8. CASE kind # "file" /\ r \in PeerReads
  <2>1. CASE pending = <<>>
    <3>1. ended # "no"
      BY <1>8, <2>1 DEF PeerReads
    <3>2. CASE ended = "closed"
      <4>1. r \in (IF Pipe THEN Code("ERROR_BROKEN_PIPE") ELSE Bytes("ok", {0}))
        BY <1>8, <2>1, <3>2 DEF PeerReads
      <4>2. /\ r.n = 0 /\ r \in [code : Codes, n : Nat]
            /\ r.code = IF Pipe THEN "ERROR_BROKEN_PIPE" ELSE "ok"
        BY <4>1 DEF Code, Bytes, Codes
      <4> QED
        BY <1>1, <1>8, <2>1, <3>2, <4>2, InFlightFacts DEF Pipe
    <3>3. CASE ended = "cut"
      <4>1. r \in (IF Pipe THEN Code("ERROR_PIPE_NOT_CONNECTED")
                   ELSE Code("WSAECONNRESET") \cup Code("ERROR_NETNAME_DELETED"))
        BY <1>8, <2>1, <3>3 DEF PeerReads
      <4>2. /\ r.n = 0 /\ r \in [code : Codes, n : Nat]
            /\ IF Pipe THEN r.code = "ERROR_PIPE_NOT_CONNECTED"
               ELSE r.code \in {"WSAECONNRESET", "ERROR_NETNAME_DELETED"}
        BY <4>1 DEF Code, Codes
      <4> QED
        BY <1>1, <1>8, <2>1, <3>3, <4>2, InFlightFacts DEF Pipe
    <3> QED
      BY <1>3, <3>1, <3>2, <3>3
  <2>2. CASE pending # <<>>
    <3>1. PICK m \in Nat : m = Head(pending)
      BY <1>4, <1>8, <2>2
    <3>2. CASE Pipe /\ mode = "message"
      <4>1. r \in (IF m > WindowLen THEN Bytes("ERROR_MORE_DATA", {WindowLen}) ELSE Bytes("ok", {m}))
        BY <1>8, <2>2, <3>1, <3>2 DEF PeerReads
      <4>2. r = IF m > WindowLen THEN [code |-> "ERROR_MORE_DATA", n |-> WindowLen]
                ELSE [code |-> "ok", n |-> m]
        BY <4>1 DEF Bytes
      <4>3. /\ r.code \in {"ok", "ERROR_MORE_DATA"} /\ r.n \in Nat /\ r.n <= m /\ r.n <= WindowLen
            /\ r \in [code : Codes, n : Nat]
        BY <1>1, <4>2 DEF Codes
      <4> QED
        BY <1>8, <2>2, <3>1, <3>2, <4>3 DEF Pipe
    <3>3. CASE ~(Pipe /\ mode = "message")
      <4>1. PICK n \in 1..Min({WindowLen, m}) : r = [code |-> "ok", n |-> n]
        BY <1>8, <2>2, <3>1, <3>3 DEF PeerReads, Bytes
      <4>2. n \in Nat /\ n >= 1 /\ n <= WindowLen /\ n <= m
        BY <1>1, MinOfTwo
      <4>3. r.code = "ok" /\ r.n = n /\ r \in [code : Codes, n : Nat]
        BY <4>1, <4>2 DEF Codes
      <4> QED
        BY <1>8, <2>2, <3>1, <4>2, <4>3
    <3> QED
      BY <3>2, <3>3
  <2> QED
    BY <2>1, <2>2
<1> QED
  BY <1>6, <1>7, <1>8

\* What a write may end with.
LEMMA WriteResults ==
    ASSUME HelperInv, verdict = "running", ops[Helper].st = "inflight", call = "write_all",
           NEW r \in Failures \cup Writes
    PROVE  /\ r \in [code : Codes, n : Nat] /\ r.code # "none"
           /\ r.n <= WindowLen
           /\ r.code # "ok" => r.n = 0
           /\ r.code # "ERROR_MORE_DATA"
<1>1. WindowLen \in Nat
  BY InFlightFacts, WindowFacts
<1>2. CASE r \in Failures
  BY <1>1, <1>2, FailureFacts
<1>3. CASE r \in Writes /\ ended = "no"
  <2>1. PICK n \in 0..WindowLen : r = [code |-> "ok", n |-> n]
    BY <1>3 DEF Writes, Bytes
  <2> QED
    BY <1>1, <2>1 DEF Codes
<1>4. CASE r \in Writes /\ ended # "no"
  <2>1. /\ r.n = 0 /\ r \in [code : Codes, n : Nat]
        /\ r.code \in {"ERROR_NO_DATA", "ERROR_BROKEN_PIPE", "WSAECONNRESET", "ERROR_NETNAME_DELETED"}
    BY <1>4 DEF Writes, Code, Codes
  <2> QED
    BY <1>1, <2>1
<1> QED
  BY <1>2, <1>3, <1>4

\* A read takes n bytes of what is offered first.
Consumes(n) ==
    pending' = IF Head(pending) = n THEN Tail(pending)
               ELSE <<Head(pending) - n>> \o Tail(pending)

\* The bytes a read takes are those the source offers next.
LEMMA ReadTakes ==
    ASSUME HelperInv, Reads, kind # "file", NEW n \in Nat,
           pending # <<>>, n <= Head(pending), Head(pending) \in Nat,
           taken' = taken + n, UNCHANGED <<src, ended, kind>>, Consumes(n)
    PROVE  /\ pending' \in Seq(Nat) /\ Len(pending') \in Nat /\ Len(pending') <= Len(pending)
           /\ \E g \in [0..Len(pending') -> Nat] : Cuts(g)'
<1>1. pending \in Seq(Nat) /\ Len(pending) \in Nat /\ src \in Nat /\ taken \in Nat
  BY LenProperties DEF HelperInv, HelperTypes
<1>2. /\ Tail(pending) \in Seq(Nat) /\ Len(Tail(pending)) = Len(pending) - 1
      /\ \A i \in 1..Len(Tail(pending)) : Tail(pending)[i] = pending[i + 1]
      /\ Head(pending) = pending[1] /\ Len(pending) >= 1
  <2>1. Len(pending) # 0
    BY <1>1, EmptySeq
  <2>2. Len(pending) >= 1
    BY <1>1, <2>1
  <2>3. Tail(pending) \in Seq(Nat) /\ Len(Tail(pending)) = Len(pending) - 1
    BY <1>1, HeadTailProperties
  <2>4. \A i \in 1..Len(Tail(pending)) : Tail(pending)[i] = pending[i + 1]
    BY <1>1, HeadTailProperties
  <2> QED
    BY <1>1, <2>2, <2>3, <2>4, HeadTailProperties
<1>3. PICK f \in [0..Len(pending) -> Nat] : Cuts(f)
  BY DEF HelperInv, Offered
<1>4. /\ f[0] = taken /\ f[1] = taken + Head(pending) /\ f[1] <= src
      /\ \A i \in 1..Len(pending) : f[i] = f[i - 1] + pending[i]
      /\ \A i \in 0..Len(pending) : f[i] <= src
      /\ ended # "cut" \/ Pipe => f[Len(pending)] = src
  <2>1. 1 \in 1..Len(pending) /\ 1 \in 0..Len(pending) /\ 1 - 1 = 0
    BY <1>1, <1>2
  <2>2. f[1] = f[1 - 1] + pending[1] /\ f[1] <= src
    BY <1>3, <2>1 DEF Cuts
  <2> QED
    BY <1>2, <1>3, <2>1, <2>2 DEF Cuts
<1>5. CASE Head(pending) = n
  <2>1. PICK m \in Nat : m = Len(pending) - 1 /\ Len(pending) = m + 1
    BY <1>1, <1>2, OneLess, Zenon
  <2>2. pending' = Tail(pending) /\ Len(pending') = m
    BY <1>2, <1>5, <2>1 DEF Consumes
  <2>3. PICK g : g = [i \in 0..m |-> f[i + 1]]
    OBVIOUS
  <2>4. \A i \in 0..m : i + 1 \in 0..Len(pending) /\ i + 1 \in 1..Len(pending) /\ g[i] = f[i + 1]
    BY <1>1, <2>2, <2>3
  <2>5. g \in [0..m -> Nat]
    BY <1>3, <2>3, <2>4
  <2>6. g[0] = taken'
    BY <1>4, <1>5, <2>4
  <2>7. ASSUME NEW i \in 1..m PROVE g[i] = g[i - 1] + pending'[i]
    <3>1. i \in 0..m /\ i - 1 \in 0..m /\ (i - 1) + 1 = i /\ (i + 1) - 1 = i
      BY <2>1
    <3>2. g[i] = f[i + 1] /\ g[i - 1] = f[i]
      BY <2>4, <3>1
    <3>3. f[i + 1] = f[i] + pending[i + 1]
      BY <1>4, <2>4, <3>1
    <3>4. pending'[i] = pending[i + 1]
      BY <1>2, <2>2
    <3> QED
      BY <3>2, <3>3, <3>4
  <2>8. \A i \in 0..m : g[i] <= src
    BY <1>4, <2>4
  <2>9. g[m] = f[Len(pending)]
    BY <2>1, <2>2, <2>4
  <2>10. Cuts(g)'
    BY <1>4, <2>2, <2>6, <2>7, <2>8, <2>9 DEF Cuts, Pipe
  <2> QED
    <3>1. Len(pending') \in Nat /\ Len(pending') <= Len(pending)
      <4>1. m \in Nat /\ m <= m + 1
        OBVIOUS
      <4> QED
        BY <2>1, <2>2, <4>1, Zenon
    <3>2. g \in [0..Len(pending') -> Nat]
      BY <2>2, <2>5, Zenon
    <3> QED
      BY <1>2, <2>2, <2>10, <3>1, <3>2
<1>6. CASE Head(pending) # n
  <2>1. PICK h \in Nat : h = Head(pending) - n
    BY <1>6
  <2>2. /\ pending' \in Seq(Nat) /\ Len(pending') = Len(pending)
        /\ pending'[1] = h
        /\ \A i \in 2..Len(pending) : pending'[i] = pending[i]
    <3>1. PICK k \in Nat : k = Len(pending) - 1 /\ Len(pending) = k + 1
      BY <1>1, <1>2, OneLess, Zenon
    <3>2. /\ pending' = <<h>> \o Tail(pending)
          /\ Tail(pending) \in Seq(Nat) /\ Len(Tail(pending)) = k
      BY <1>2, <1>6, <2>1, <3>1 DEF Consumes
    <3>3. /\ pending' \in Seq(Nat) /\ Len(pending') = k + 1 /\ pending'[1] = h
          /\ \A i \in 1..k : pending'[i + 1] = Tail(pending)[i]
      <4>1. PICK t : t = Tail(pending)
        OBVIOUS
      <4>2. t \in Seq(Nat) /\ Len(t) = k
        BY <3>2, <4>1
      <4>3. /\ <<h>> \o t \in Seq(Nat) /\ Len(<<h>> \o t) = k + 1
            /\ (<<h>> \o t)[1] = h
            /\ \A i \in 1..k : (<<h>> \o t)[i + 1] = t[i]
        BY <4>2, NewHead
      <4>4. pending' = <<h>> \o t
        BY <3>2, <4>1
      <4> HIDE <3>2
      <4> QED
        BY <4>1, <4>3, <4>4
    <3>4. ASSUME NEW i \in 2..Len(pending) PROVE pending'[i] = pending[i]
      <4>1. i - 1 \in 1..k /\ (i - 1) + 1 = i
        BY <3>1
      <4>2. pending'[(i - 1) + 1] = Tail(pending)[i - 1]
        BY <3>3, <4>1
      <4>3. Tail(pending)[i - 1] = pending[(i - 1) + 1]
        <5>1. i - 1 \in 1..Len(Tail(pending))
          BY <3>2, <4>1, Zenon
        <5> QED
          BY <1>2, <5>1, Zenon
      <4> QED
        BY <4>1, <4>2, <4>3
    <3> QED
      BY <3>1, <3>3, <3>4, Zenon
  <2>3. PICK g : g = [f EXCEPT ![0] = taken + n]
    OBVIOUS
  <2>4. /\ 0 \in 0..Len(pending)
        /\ g \in [0..Len(pending) -> Nat] /\ g[0] = taken + n
        /\ \A i \in 1..Len(pending) : g[i] = f[i]
    BY <1>1, <2>3
  <2>5. ASSUME NEW i \in 1..Len(pending) PROVE g[i] = g[i - 1] + pending'[i]
    <3>1. CASE i = 1
      <4>1. PICK k \in Nat : k = Head(pending)
        OBVIOUS
      <4>2. g[i] = taken + k /\ g[i - 1] = taken + n /\ pending'[i] = k - n
        BY <1>4, <2>1, <2>2, <2>4, <3>1, <4>1
      <4>3. taken + k = (taken + n) + (k - n)
        BY <1>1, <4>1
      <4> QED
        BY <4>2, <4>3
    <3>2. CASE i # 1
      <4>1. i \in 2..Len(pending) /\ i - 1 \in 1..Len(pending)
        BY <1>1, <3>2
      <4> QED
        BY <1>4, <2>2, <2>4, <4>1
    <3> QED
      BY <3>1, <3>2
  <2>6. taken + n <= src
    <3>1. PICK k \in Nat : k = Head(pending)
      OBVIOUS
    <3>2. taken + k <= src /\ n <= k
      BY <1>4, <3>1
    <3> QED
      BY <1>1, <3>1, <3>2
  <2>7. \A i \in 0..Len(pending) : g[i] <= src
    <3> TAKE i \in 0..Len(pending)
    <3>1. i = 0 \/ i \in 1..Len(pending)
      BY <1>1
    <3> QED
      BY <1>4, <2>4, <2>6, <3>1
  <2>8. g[Len(pending)] = f[Len(pending)]
    BY <1>1, <1>2, <2>4
  <2>9. Cuts(g)'
    BY <1>4, <2>2, <2>4, <2>5, <2>7, <2>8 DEF Cuts, Pipe
  <2> QED
    BY <1>1, <2>2, <2>4, <2>9
<1> QED
  BY <1>5, <1>6

LEMMA KernelReadsKeeps ==
    ASSUME StreamInv, HelperInv, KernelReads
    PROVE  HelperInv'
<1>1. /\ verdict = "running" /\ Reads
      /\ UNCHANGED <<call, mode, src, writes, ended, len, start, transferred, position, out, verdict>>
  BY DEF KernelReads
<1>2. PICK r \in Failures \cup (IF kind = "file" THEN FileReads ELSE PeerReads) :
        /\ Completes(Helper, IF r.code = "ok" THEN "ok" ELSE "failed")
        /\ io' = r
        /\ cells' = PutAt(cells, Begins, [i \in 1..r.n |-> Whence + i])
        /\ taken' = taken + r.n
        /\ pending' = IF kind = "file" \/ pending = <<>> \/ r.code \notin {"ok", "ERROR_MORE_DATA"}
                      THEN pending
                      ELSE IF Head(pending) = r.n THEN Tail(pending)
                      ELSE <<Head(pending) - r.n>> \o Tail(pending)
  BY DEF KernelReads
<1>3. /\ ops[Helper].st = "inflight" /\ ops'[Helper].st = "queued"
      /\ ops'[Helper].what = ops[Helper].what /\ (ops[Helper].held => ops'[Helper].held)
      /\ UNCHANGED <<stage, kind>>
  BY <1>2, CompletesFacts
<1>4. /\ transferred = taken /\ stage = "open" /\ call # "none"
      /\ Begins = start + taken /\ taken \in Nat /\ start \in Nat /\ src \in Nat
      /\ Whence = taken /\ kind \in {"file", "server", "client", "socket"}
  BY <1>1, <1>3, InFlightFacts DEF Whence
<1>5. /\ r \in [code : Codes, n : Nat] /\ r.code # "none"
      /\ r.n <= WindowLen
      /\ r.code \notin {"ok", "ERROR_MORE_DATA"} => r.n = 0
      /\ kind = "file" => taken + r.n <= src
      /\ kind # "file" /\ pending # <<>> => r.n <= Head(pending) /\ Head(pending) \in Nat
      /\ kind # "file" /\ pending = <<>> => r.n = 0
  BY <1>1, <1>3, ReadResults
<1>6. PICK n \in Nat : n = r.n
  BY <1>5
<1>7. /\ cells \in Seq(Nat) /\ Len(cells) \in Nat /\ len \in Nat /\ len <= Len(cells)
      /\ start + taken + n <= Len(cells)
  <2>1. start + taken + WindowLen <= Len(cells) /\ WindowLen \in Nat
    BY <1>1, <1>4, WindowFacts DEF Reads
  <2>2. cells \in Seq(Nat) /\ Len(cells) \in Nat /\ len \in Nat /\ len <= Len(cells)
    BY LenProperties DEF HelperInv, HelperTypes, Buffered
  <2> QED
    BY <1>4, <1>5, <1>6, <2>1, <2>2
<1>8. /\ cells' \in Seq(Nat) /\ Len(cells') = Len(cells)
      /\ \A i \in 1..n : cells'[start + taken + i] = taken + i
      /\ \A i \in 1..Len(cells) : i \notin start + taken + 1..start + taken + n => cells'[i] = cells[i]
  <2> DEFINE b == [i \in 1..n |-> taken + i]
  <2>1. b \in Seq(Nat) /\ Len(b) = n /\ \A i \in 1..n : b[i] = taken + i
    BY <1>4, Numbered
  <2>2. cells' = PutAt(cells, start + taken, b)
    BY <1>2, <1>4, <1>6
  <2> HIDE DEF b
  <2>3. PICK at \in Nat : at = start + taken
    BY <1>4
  <2>0. at <= Len(cells) /\ at + n <= Len(cells)
    BY <1>4, <1>7, <2>3
  <2>4. /\ PutAt(cells, at, b) \in Seq(Nat)
        /\ Len(PutAt(cells, at, b)) = IF Len(cells) <= at + n THEN at + n ELSE Len(cells)
        /\ \A i \in 1..n : PutAt(cells, at, b)[at + i] = b[i]
        /\ \A i \in 1..Len(cells) : i \notin at + 1..at + n => PutAt(cells, at, b)[i] = cells[i]
    <3>1. PICK c \in Seq(Nat) : c = b
      BY <2>1
    <3>2. Len(c) = n
      BY <2>1, <3>1
    <3>3. PICK d \in Seq(Nat) : d = cells
      BY <1>7
    <3>4. at <= Len(d)
      BY <2>0, <3>3
    <3>5. PutAt(d, at, c) \in Seq(Nat)
      BY <3>2, <3>4, PutFacts
    <3>6. Len(PutAt(d, at, c)) = IF Len(d) <= at + n THEN at + n ELSE Len(d)
      BY <3>2, <3>4, PutFacts
    <3>7. \A i \in 1..n : PutAt(d, at, c)[at + i] = c[i]
      BY <3>2, <3>4, PutFacts
    <3>8. \A i \in 1..Len(d) : i \notin at + 1..at + n => PutAt(d, at, c)[i] = d[i]
      BY <3>2, <3>4, PutFacts
    <3> QED
      BY <3>1, <3>3, <3>5, <3>6, <3>7, <3>8
  <2>5. Len(PutAt(cells, at, b)) = Len(cells)
    BY <1>7, <2>0, <2>4
  <2>6. /\ PutAt(cells, at, b) \in Seq(Nat) /\ Len(PutAt(cells, at, b)) = Len(cells)
        /\ \A i \in 1..n : PutAt(cells, at, b)[at + i] = taken + i
        /\ \A i \in 1..Len(cells) : i \notin at + 1..at + n => PutAt(cells, at, b)[i] = cells[i]
    BY <2>1, <2>4, <2>5
  <2> QED
    BY <2>2, <2>3, <2>6
<1>9. Buffered'
  <2>1. \A i \in 1..Len(cells) : cells[i] # Uninit => cells'[i] # Uninit
    <3> TAKE i \in 1..Len(cells)
    <3>1. CASE i \in start + taken + 1..start + taken + n
      <4>1. PICK j \in 1..n : i = start + taken + j
        <5>1. i - (start + taken) \in 1..n /\ i = start + taken + (i - (start + taken))
          BY <1>4, <1>7, <3>1
        <5> QED
          BY <5>1
      <4>2. cells'[i] = taken + j
        BY <1>8, <4>1
      <4>3. taken + j # 0
        BY <1>4, <4>1
      <4> QED
        BY <4>2, <4>3 DEF Uninit
    <3>2. CASE i \notin start + taken + 1..start + taken + n
      BY <1>8, <3>2
    <3> QED
      BY <3>1, <3>2
  <2>2. \A i \in 1..len : cells'[i] # Uninit
    <3>1. \A i \in 1..len : i \in 1..Len(cells) /\ cells[i] # Uninit
      BY <1>7 DEF HelperInv, Buffered
    <3> QED
      BY <2>1, <3>1
  <2>3. \A i \in 1..start : cells'[i] # Uninit
    <3>1. \A i \in 1..start : i \in 1..Len(cells) /\ cells[i] # Uninit
      BY <1>1, <1>4, <1>7 DEF HelperInv, Buffered
    <3> QED
      BY <2>1, <3>1
  <2>4. ASSUME NEW i \in 1..taken + n PROVE cells'[start + i] = i
    <3>1. CASE i \in 1..taken
      <4>1. start + i \in 1..Len(cells) /\ start + i \notin start + taken + 1..start + taken + n
        BY <1>4, <1>7, <3>1
      <4>2. cells[start + i] = i
        BY <1>1, <3>1 DEF HelperInv, Buffered
      <4> QED
        BY <1>8, <4>1, <4>2
    <3>2. CASE i \notin 1..taken
      <4>1. i - taken \in 1..n /\ start + taken + (i - taken) = start + i /\ taken + (i - taken) = i
        BY <1>4, <3>2
      <4>2. cells'[start + taken + (i - taken)] = taken + (i - taken)
        BY <1>8, <4>1
      <4> QED
        BY <4>1, <4>2
    <3> QED
      BY <3>1, <3>2
  <2>5. taken' = taken + n /\ start' + taken' <= Len(cells') /\ len' <= Len(cells')
    BY <1>1, <1>2, <1>4, <1>6, <1>7, <1>8
  <2>6. call = "read_exact" => start = 0 /\ Len(cells') = Target
    BY <1>8 DEF HelperInv, Buffered
  <2> QED
    BY <1>1, <2>2, <2>3, <2>4, <2>5, <2>6 DEF Buffered, Reads
<1>10. pending \in Seq(Nat) /\ Len(pending) \in Nat
  BY LenProperties DEF HelperInv, HelperTypes
<1>11. /\ pending' \in Seq(Nat) /\ Len(pending') \in Nat /\ Len(pending') <= Len(pending)
       /\ kind # "file" => \E g \in [0..Len(pending') -> Nat] : Cuts(g)'
  <2>1. CASE kind = "file" \/ pending = <<>> \/ r.code \notin {"ok", "ERROR_MORE_DATA"}
    <3>1. pending' = pending
      BY <1>2, <2>1
    <3>2. kind # "file" => taken' = taken
      BY <1>2, <1>4, <1>5, <2>1
    <3>3. kind # "file" => \E g \in [0..Len(pending) -> Nat] : Cuts(g)
      BY <1>1 DEF HelperInv, Offered
    <3> QED
      BY <1>1, <1>3, <1>10, <3>1, <3>2, <3>3 DEF Cuts, Pipe
  <2>2. CASE ~(kind = "file" \/ pending = <<>> \/ r.code \notin {"ok", "ERROR_MORE_DATA"})
    <3>1. Consumes(n)
      BY <1>2, <1>6, <2>2 DEF Consumes
    <3> QED
      BY <1>1, <1>2, <1>3, <1>5, <1>6, <2>2, <3>1, ReadTakes
  <2> QED
    BY <2>1, <2>2
<1>12. HelperTypes'
  <2>1. taken' \in Nat /\ io' \in [code : Codes, n : Nat]
    BY <1>2, <1>4, <1>5
  <2> QED
    BY <1>1, <1>8, <1>11, <2>1 DEF HelperInv, HelperTypes
<1>13. Quiet' /\ Connecting'
  <2>1. kind = "file" => pending' = <<>>
    BY <1>2 DEF HelperInv, Quiet
  <2>2. Len(pending') <= 1 \/ (Pipe /\ mode = "message")
    BY <1>10, <1>11 DEF HelperInv, Quiet
  <2> QED
    BY <1>1, <1>3, <1>4, <2>1, <2>2 DEF HelperInv, Quiet, Connecting, Pipe
<1>14. Sunk'
  <2>1. call = "read_exact" => taken' <= Target
    BY <1>2, <1>4, <1>6, <1>7 DEF HelperInv, Buffered
  <2> QED
    BY <1>1, <2>1 DEF HelperInv, Sunk, Reads
<1>15. Offered'
  BY <1>1, <1>2, <1>3, <1>5, <1>11 DEF Offered, Reads
<1>16. Truthful'
  <2>1. /\ r.code \notin {"ok", "ERROR_MORE_DATA"} => r.n = 0
        /\ r.code = "ERROR_MORE_DATA" => Pipe
        /\ r.code = "ERROR_HANDLE_EOF" => kind = "file" /\ src = taken
        /\ r.code = "ERROR_BROKEN_PIPE" => Pipe /\ ended = "closed" /\ pending = <<>>
        /\ r.code = "ERROR_PIPE_NOT_CONNECTED" => Pipe /\ ended = "cut" /\ pending = <<>>
        /\ r.code = "ERROR_NETNAME_DELETED" => kind = "socket"
        /\ kind = "socket" /\ r.code = "ok" /\ r.n = 0 => ended = "closed" /\ pending = <<>>
    BY <1>1, <1>3, ReadResults
  <2>2. r.code = "ERROR_HANDLE_EOF" => taken' = taken
    BY <1>2, <1>4, <2>1
  <2>3. pending = <<>> => pending' = <<>>
    BY <1>2
  <2> QED
    BY <1>1, <1>2, <1>3, <2>1, <2>2, <2>3 DEF Truthful, Reads, Pipe
<1>17. Counts'
  <2>1. WindowLen' = WindowLen
    BY <1>1, <1>8 DEF WindowLen, Begins
  <2>2. /\ transferred' <= taken' /\ taken' = transferred' + io'.n
        /\ io'.n <= WindowLen' /\ io'.code # "none"
    BY <1>1, <1>2, <1>4, <1>5, <1>6, <2>1
  <2>3. /\ kind = "file" => position = Offset + transferred
        /\ ops[Helper].held /\ ops[Helper].what \in {"read", "write"}
        /\ call = "read_to_end" => len = start + transferred
    BY <1>1, <1>3 DEF HelperInv, Counts, NoOp
  <2> QED
    BY <1>1, <1>3, <1>4, <2>2, <2>3 DEF Counts
<1> QED
  BY <1>9, <1>12, <1>13, <1>14, <1>15, <1>16, <1>17 DEF HelperInv

LEMMA KernelWritesKeeps ==
    ASSUME StreamInv, HelperInv, KernelWrites
    PROVE  HelperInv' /\ taken' \in Nat /\ taken <= taken' /\ taken' <= Target
<1>1. /\ verdict = "running" /\ call = "write_all"
      /\ UNCHANGED <<src, pending, writes, ended, cells, len, start, call, mode, transferred,
                     position, verdict>>
  BY DEF KernelWrites, sourceVars, bufferVars
<1>2. PICK r \in Failures \cup Writes :
        /\ Completes(Helper, IF r.code = "ok" THEN "ok" ELSE "failed")
        /\ io' = r
        /\ out' = PutAt(out, IF kind = "file" THEN position - Offset ELSE Len(out),
                        SubSeq(cells, Begins + 1, Begins + r.n))
        /\ taken' = taken + r.n
  BY DEF KernelWrites
<1>3. /\ ops[Helper].st = "inflight" /\ ops'[Helper].st = "queued"
      /\ ops'[Helper].what = ops[Helper].what /\ (ops[Helper].held => ops'[Helper].held)
      /\ UNCHANGED <<stage, kind>>
  BY <1>2, CompletesFacts
<1>4. /\ transferred = taken /\ stage = "open" /\ Begins = taken /\ taken \in Nat
      /\ kind = "file" => position - Offset = taken
      /\ kind \in {"file", "server", "client", "socket"}
  <2>1. start = 0
    BY <1>1 DEF HelperInv, Buffered
  <2> QED
    BY <1>1, <1>3, <2>1, InFlightFacts
<1>5. r \in [code : Codes, n : Nat] /\ r.code # "none" /\ r.n <= WindowLen
      /\ (r.code # "ok" => r.n = 0) /\ r.code # "ERROR_MORE_DATA"
  BY <1>1, <1>3, WriteResults
<1>6. PICK n \in Nat : n = r.n
  BY <1>5
<1>7. /\ cells \in Seq(Nat) /\ Len(cells) = Target /\ Target \in Nat /\ len = Target
      /\ \A i \in 1..Target : cells[i] = i
      /\ out \in Seq(Nat) /\ Len(out) = taken /\ \A i \in 1..taken : out[i] = i
  BY <1>1, TransferAssumption DEF HelperInv, HelperTypes, Buffered, Sunk
<1>8. taken + n <= Target
  <2>1. WindowLen \in Nat /\ Begins + WindowLen <= len
    BY <1>1, WindowFacts
  <2> QED
    BY <1>4, <1>5, <1>6, <1>7, <2>1
<1>9. /\ out' \in Seq(Nat) /\ Len(out') = taken + n
      /\ \A i \in 1..taken + n : out'[i] = i
  <2>1. PICK c : c = SubSeq(cells, taken + 1, taken + n)
    OBVIOUS
  <2>2. out' = PutAt(out, taken, c)
    BY <1>2, <1>4, <1>6, <1>7, <2>1
  <2>3. c \in Seq(Nat) /\ Len(c) = n /\ \A i \in 1..n : c[i] = taken + i
    <3>1. PICK d \in Seq(Nat) : d = cells
      BY <1>7
    <3>2. PICK m \in Nat : m = Target /\ Len(d) = m /\ taken + n <= m
      BY <1>7, <1>8, <3>1
    <3>3. /\ \A i \in taken + 1..taken + n : i \in 1..m /\ d[i] \in Nat
          /\ (IF taken + 1 <= taken + n THEN taken + n - (taken + 1) + 1 ELSE 0) = n
      <4>1. \A i \in taken + 1..taken + n : i \in 1..m
        BY <1>4, <3>2
      <4> QED
        BY <1>4, <3>2, <4>1, ElementOfSeq
    <3>4. c = [i \in 1..n |-> d[taken + i]]
      BY <1>4, <2>1, <3>1, <3>3
    <3>5. \A i \in 1..n : taken + i \in 1..m /\ d[taken + i] = taken + i
      BY <1>4, <1>7, <3>1, <3>2
    <3>6. c = [i \in 1..n |-> taken + i]
      BY <3>4, <3>5
    <3> QED
      BY <1>4, <3>6, Numbered
  <2>4. PICK d \in Seq(Nat) : d = out
    BY <1>7
  <2>5. PICK t \in Nat : t = taken /\ Len(d) = t
    BY <1>4, <1>7, <2>4
  <2>6. t <= Len(d)
    BY <2>5
  <2>7. PutAt(d, t, c) \in Seq(Nat)
    BY <2>3, <2>6, PutFacts
  <2>8. Len(PutAt(d, t, c)) = IF Len(d) <= t + n THEN t + n ELSE Len(d)
    BY <2>3, <2>6, PutFacts
  <2>9. \A i \in 1..n : PutAt(d, t, c)[t + i] = c[i]
    BY <2>3, <2>6, PutFacts
  <2>10. \A i \in 1..Len(d) : i \notin t + 1..t + n => PutAt(d, t, c)[i] = d[i]
    BY <2>3, <2>6, PutFacts
  <2>11. Len(PutAt(d, t, c)) = t + n
    BY <2>5, <2>8
  <2>12. ASSUME NEW i \in 1..t + n PROVE PutAt(d, t, c)[i] = i
    <3>1. CASE i \in 1..t
      <4>1. i \in 1..Len(d) /\ i \notin t + 1..t + n
        BY <2>5, <3>1
      <4>2. d[i] = i
        BY <1>7, <2>4, <2>5, <3>1
      <4> QED
        BY <2>10, <4>1, <4>2
    <3>2. CASE i \notin 1..t
      <4>1. i - t \in 1..n /\ t + (i - t) = i
        BY <2>5, <3>2
      <4>2. PutAt(d, t, c)[t + (i - t)] = c[i - t] /\ c[i - t] = t + (i - t)
        BY <2>3, <2>5, <2>9, <4>1
      <4> QED
        BY <4>1, <4>2
    <3> QED
      BY <3>1, <3>2
  <2> QED
    BY <2>2, <2>4, <2>5, <2>7, <2>11, <2>12
<1>10. taken' = taken + n /\ taken' \in Nat /\ taken <= taken' /\ taken' <= Target
  BY <1>2, <1>4, <1>6, <1>8
<1>11. HelperTypes'
  BY <1>1, <1>2, <1>5, <1>9, <1>10 DEF HelperInv, HelperTypes
<1>12. Quiet' /\ Connecting'
  BY <1>1, <1>3, <1>4 DEF HelperInv, Quiet, Connecting, Pipe
<1>13. Buffered'
  BY <1>1 DEF HelperInv, Buffered, Reads
<1>14. Sunk'
  BY <1>1, <1>9, <1>10 DEF Sunk
<1>15. Offered' /\ Truthful'
  BY <1>1, <1>2, <1>5 DEF Offered, Truthful, Reads
<1>16. Counts'
  <2>1. WindowLen' = WindowLen
    BY <1>1 DEF WindowLen, Begins
  <2>2. /\ transferred' <= taken' /\ taken' = transferred' + io'.n
        /\ io'.n <= WindowLen' /\ io'.code # "none"
    BY <1>1, <1>2, <1>4, <1>5, <1>6, <1>10, <2>1
  <2>3. /\ kind = "file" => position = Offset + transferred
        /\ ops[Helper].held /\ ops[Helper].what \in {"read", "write"}
    BY <1>1, <1>3 DEF HelperInv, Counts, NoOp
  <2> QED
    BY <1>1, <1>3, <1>4, <2>2, <2>3 DEF Counts
<1> QED
  BY <1>10, <1>11, <1>12, <1>13, <1>14, <1>15, <1>16 DEF HelperInv

----------------------------------------------------------------------------
(* What the helper makes of a completion.                                  *)

\* record_completion publishes what the kernel has filled, no more and no less.
LEMMA HelperDispatchKeeps ==
    ASSUME StreamInv, HelperInv, HelperDispatch
    PROVE  HelperInv'
<1>1. /\ verdict = "running" /\ Dispatch(Helper) /\ len' = Filled
      /\ UNCHANGED <<src, pending, writes, ended, cells, start, call, mode, taken, transferred,
                     position, io, out, verdict>>
  BY DEF HelperDispatch, sourceVars, helperVars
<1>2. /\ ops[Helper].st = "queued" /\ ops[Helper].held
      /\ kind \in {"file", "server", "client", "socket"}
      /\ ops[Helper].what \in {"read", "write"}
  BY <1>1 DEF Dispatch, HelperInv, Counts, NoOp
<1>3. /\ ops'[Helper].st = "done"
      /\ ops'[Helper].what = ops[Helper].what /\ ops'[Helper].held
      /\ UNCHANGED <<stage, kind>>
  BY <1>1, <1>2, DispatchFacts
<1>4. /\ stage = "open" /\ call \in {"write_all", "read_exact", "read_to_end"}
      /\ taken = transferred + io.n /\ io.n <= WindowLen /\ io.code # "none"
      /\ kind = "file" => position = Offset + transferred
      /\ call = "read_to_end" => len = start + transferred
      /\ call # "read_to_end" => start = 0
      /\ io.n \in Nat /\ transferred \in Nat /\ taken \in Nat /\ start \in Nat /\ len \in Nat
      /\ transferred <= taken
  BY <1>1, <1>2 DEF HelperInv, Counts, HelperTypes, Buffered
<1>5. \/ len' = len
      \/ Reads /\ len' = start + taken
  <2>1. CASE Reads /\ (io.code = "ok" \/ (io.code = "ERROR_MORE_DATA" /\ kind # "socket"))
    <3>1. Begins \in Nat /\ WindowLen \in Nat /\ Begins = start + transferred
      BY <1>4, WindowFacts DEF Begins
    <3>2. Min({io.n, WindowLen}) = io.n
      BY <1>4, <3>1, MinOfTwo
    <3> QED
      BY <1>1, <1>4, <2>1, <3>1, <3>2 DEF Filled, Published
  <2>2. CASE ~(Reads /\ (io.code = "ok" \/ (io.code = "ERROR_MORE_DATA" /\ kind # "socket")))
    BY <1>1, <2>2 DEF Filled
  <2> QED
    BY <2>1, <2>2
<1>6. call = "read_to_end" => len' = start + taken
  <2> SUFFICES ASSUME call = "read_to_end" PROVE len' = start + taken
    OBVIOUS
  <2>1. Reads
    BY DEF Reads
  <2>2. CASE io.code = "ok" \/ (io.code = "ERROR_MORE_DATA" /\ kind # "socket")
    <3>1. Begins \in Nat /\ WindowLen \in Nat /\ Begins = start + transferred
      BY <1>4, WindowFacts DEF Begins
    <3>2. Min({io.n, WindowLen}) = io.n
      BY <1>4, <3>1, MinOfTwo
    <3> QED
      BY <1>1, <1>4, <2>1, <2>2, <3>1, <3>2 DEF Filled, Published
  <2>3. CASE ~(io.code = "ok" \/ (io.code = "ERROR_MORE_DATA" /\ kind # "socket"))
    <3>1. io.n = 0
      BY <2>3 DEF HelperInv, Truthful, Pipe
    <3> QED
      BY <1>1, <1>4, <2>3, <3>1 DEF Filled
  <2> QED
    BY <2>2, <2>3
<1>7. call = "write_all" => len' = len
  BY <1>5 DEF Reads
<1>8. Buffered'
  <2>1. len' \in Nat /\ len' <= Len(cells) /\ \A i \in 1..len' : cells[i] # Uninit
    <3>1. CASE len' = len
      BY <1>4, <3>1 DEF HelperInv, Buffered
    <3>2. CASE Reads /\ len' = start + taken
      <4>1. start + taken <= Len(cells) /\ start + taken \in Nat
        BY <1>4, <3>2 DEF HelperInv, Buffered
      <4>2. ASSUME NEW i \in 1..start + taken PROVE cells[i] # Uninit
        <5>1. CASE i \in 1..start
          BY <3>2, <5>1 DEF HelperInv, Buffered
        <5>2. CASE i \notin 1..start
          <6>1. i - start \in 1..taken /\ start + (i - start) = i
            BY <1>4, <5>2
          <6>2. cells[start + (i - start)] = i - start
            BY <3>2, <6>1 DEF HelperInv, Buffered
          <6>3. i - start # 0
            BY <1>4, <6>1
          <6> QED
            BY <6>1, <6>2, <6>3 DEF Uninit
        <5> QED
          BY <5>1, <5>2
      <4> QED
        BY <3>2, <4>1, <4>2
    <3> QED
      BY <1>5, <3>1, <3>2
  <2> QED
    BY <1>1, <1>4, <1>7, <2>1 DEF HelperInv, Buffered, Reads
<1>9. HelperTypes'
  <2>1. len' \in Nat
    BY <1>4, <1>5
  <2> QED
    BY <1>1, <2>1 DEF HelperInv, HelperTypes
<1>10. Quiet' /\ Connecting' /\ Sunk'
  BY <1>1, <1>3, <1>4 DEF HelperInv, Quiet, Connecting, Sunk, Pipe
<1>11. Offered' /\ Truthful'
  BY <1>1, <1>3 DEF HelperInv, Offered, Cuts, Truthful, Reads, Pipe
<1>12. Counts'
  BY <1>1, <1>2, <1>3, <1>4, <1>6 DEF Counts
<1> QED
  BY <1>8, <1>9, <1>10, <1>11, <1>12 DEF HelperInv

Verdicts == {"ok", "UnexpectedEof", "ClosedPeer", "Win32"}

\* The helper counts all its operation moved, and returns only when that was
\* nothing.
LEMMA AwaitedFacts ==
    ASSUME StreamInv, HelperInv, Awaited
    PROVE  /\ verdict = "running" /\ stage = "open" /\ call # "none"
           /\ UNCHANGED <<src, pending, writes, ended, cells, len, start, call, mode, taken, out>>
           /\ UNCHANGED <<stage, kind>>
           /\ ops'[Helper] = NoOp /\ io' = NoIo
           /\ transferred' = taken /\ taken \in Nat
           /\ call = "read_to_end" => len = start + taken
           /\ \/ verdict' = "running" /\ position' = AdvancePosition(io.n)
              \/ verdict' \in Verdicts /\ io.n = 0 /\ position' = position
           /\ verdict' = "ok" => /\ call = "read_to_end"
                                 /\ ReadOutcome(io) \in {"Eof", "ClosedPeer"}
<1>1. /\ verdict = "running" /\ Resolve(Helper) /\ io' = NoIo
      /\ UNCHANGED <<src, pending, writes, ended, cells, len, start, call, mode, taken, out>>
  BY DEF Awaited, sourceVars, bufferVars
<1>2. ops[Helper].st = "done" /\ ops[Helper].what \in {"read", "write"}
  BY <1>1 DEF Resolve, HelperInv, Counts, NoOp
<1>3. ops'[Helper] = NoOp /\ UNCHANGED <<stage, kind>>
  BY <1>1, <1>2, ResolveFacts
<1>4. /\ stage = "open" /\ call \in {"write_all", "read_exact", "read_to_end"}
      /\ taken = transferred + io.n
      /\ call = "read_to_end" => len = start + taken
      /\ io.n \in Nat /\ transferred \in Nat /\ taken \in Nat
      /\ call \in {"write_all", "read_exact"} => taken <= Target
      /\ io.code \notin {"ok", "ERROR_MORE_DATA"} => io.n = 0
      /\ io.code = "ERROR_MORE_DATA" => Pipe /\ Reads
  BY <1>1, <1>2 DEF HelperInv, Counts, HelperTypes, Sunk, Truthful
<1>5. /\ \/ transferred' = transferred + io.n /\ verdict' = "running" /\ position' = AdvancePosition(io.n)
         \/ transferred' = transferred /\ verdict' \in Verdicts /\ io.n = 0 /\ position' = position
      /\ verdict' = "ok" => /\ call = "read_to_end"
                            /\ ReadOutcome(io) \in {"Eof", "ClosedPeer"}
  <2>1. CASE call = "write_all"
    <3>1. WriteAwaited /\ io.code # "ERROR_MORE_DATA"
      BY <1>4, <2>1 DEF Awaited, Reads
    <3>2. PlatformError(io) \in {"ClosedPeer", "Win32"}
      BY DEF PlatformError
    <3>3. CASE io.code # "ok"
      BY <1>4, <3>1, <3>2, <3>3 DEF WriteAwaited, Gives, Verdicts
    <3>4. CASE io.code = "ok" /\ io.n = 0
      BY <3>1, <3>4 DEF WriteAwaited, Gives, Verdicts
    <3>5. CASE io.code = "ok" /\ io.n # 0
      BY <1>1, <3>1, <3>5 DEF WriteAwaited, GoesOn
    <3> QED
      BY <3>3, <3>4, <3>5
  <2>2. CASE call \in {"read_exact", "read_to_end"}
    <3>1. PlatformError(io) \in {"ClosedPeer", "Win32"}
      BY DEF PlatformError
    <3>2. /\ ReadOutcome(io) \in {"Bytes", "Eof", "ClosedPeer", "MoreData", "Err"}
          /\ ReadOutcome(io) \in {"Eof", "ClosedPeer", "Err"} => io.n = 0
      BY <1>4 DEF ReadOutcome, ClassifyRead, ClassifySocketRead, Pipe
    <3>3. CASE call = "read_exact"
      <4>1. ReadExactAwaited
        BY <3>3 DEF Awaited
      <4>2. Min({io.n, Target - transferred}) = io.n
        <5>1. Target - transferred \in Nat /\ io.n <= Target - transferred
          BY <1>4, <3>3, TransferAssumption
        <5> QED
          BY <1>4, <5>1, MinOfTwo
      <4>3. CASE ReadOutcome(io) \in {"Eof", "ClosedPeer", "Err"}
        BY <3>1, <3>2, <4>1, <4>3 DEF ReadExactAwaited, Gives, Verdicts
      <4>4. CASE ReadOutcome(io) \in {"Bytes", "MoreData"}
        BY <1>1, <4>1, <4>2, <4>4 DEF ReadExactAwaited, GoesOn
      <4> QED
        BY <3>2, <4>3, <4>4
    <3>4. CASE call = "read_to_end"
      <4>1. ReadToEndAwaited
        BY <3>4 DEF Awaited
      <4>2. CASE ReadOutcome(io) \in {"Eof", "ClosedPeer", "Err"}
        BY <3>1, <3>2, <3>4, <4>1, <4>2 DEF ReadToEndAwaited, Gives, Verdicts
      <4>3. CASE ReadOutcome(io) \in {"Bytes", "MoreData"}
        BY <1>1, <4>1, <4>3 DEF ReadToEndAwaited, GoesOn
      <4> QED
        BY <3>2, <4>2, <4>3
    <3> QED
      BY <2>2, <3>3, <3>4
  <2> QED
    BY <1>4, <2>1, <2>2
<1>6. transferred' = taken
  BY <1>4, <1>5
<1> QED
  BY <1>1, <1>3, <1>4, <1>5, <1>6

LEMMA AwaitedKeeps ==
    ASSUME StreamInv, HelperInv, Awaited
    PROVE  HelperInv'
<1>1. /\ verdict = "running" /\ stage = "open" /\ call # "none"
      /\ UNCHANGED <<src, pending, writes, ended, cells, len, start, call, mode, taken, out>>
      /\ UNCHANGED <<stage, kind>>
      /\ ops'[Helper] = NoOp /\ io' = NoIo
      /\ transferred' = taken /\ taken \in Nat
      /\ call = "read_to_end" => len = start + taken
      /\ \/ verdict' = "running" /\ position' = AdvancePosition(io.n)
         \/ verdict' \in Verdicts /\ io.n = 0 /\ position' = position
  BY AwaitedFacts
<1>2. /\ io.n \in Nat /\ transferred \in Nat /\ position \in Nat
      /\ taken = transferred + io.n
      /\ kind = "file" => position = Offset + transferred
  BY <1>1 DEF HelperInv, HelperTypes, Counts
<1>3. position' \in Nat /\ (verdict' = "running" /\ kind = "file" => position' = Offset + taken)
  BY <1>1, <1>2, TransferAssumption DEF AdvancePosition, Verdicts
<1>4. HelperTypes'
  BY <1>1, <1>3 DEF HelperInv, HelperTypes, NoIo, Codes, Verdicts
<1>5. Quiet' /\ Connecting' /\ Sunk'
  BY <1>1 DEF HelperInv, Quiet, Connecting, Sunk, Pipe, Verdicts
<1>6. Buffered'
  BY <1>1 DEF HelperInv, Buffered, Reads, Verdicts
<1>7. Offered'
  BY <1>1 DEF HelperInv, Offered, Cuts, Reads, Pipe, Verdicts
<1>8. Truthful'
  BY <1>1 DEF Truthful, NoIo
<1>9. Counts'
  BY <1>1, <1>3 DEF Counts, NoOp, NoIo, Verdicts
<1> QED
  BY <1>4, <1>5, <1>6, <1>7, <1>8, <1>9 DEF HelperInv

----------------------------------------------------------------------------
(* The helpers' invariant.                                                 *)

LEMMA HelperInvStep ==
    ASSUME StreamInv, HelperInv, [TransferNext]_allVars
    PROVE  HelperInv'
<1>1. CASE UNCHANGED allVars
  <2>1. /\ UNCHANGED <<stage, kind, ops>> /\ UNCHANGED <<streamVars, bufferVars, helperVars>>
        /\ UNCHANGED <<src, pending, writes, ended, cells, len, start, call, mode, taken,
                       transferred, position, io, out, verdict>>
    BY <1>1 DEF allVars, streamVars, objVars, transferVars, sourceVars, bufferVars, helperVars
  <2>2. HelperTypes' /\ Quiet'
    BY <2>1 DEF HelperInv, HelperTypes, Quiet, Pipe
  <2>3. Offered' /\ Truthful'
    BY <2>1 DEF HelperInv, Offered, Cuts, Truthful, Reads, Pipe
  <2> QED
    BY <2>1, <2>2, <2>3, SourceKeeps
<1>2. ASSUME NEW n \in 0..MaxBytes, PeerWrites(n) PROVE HelperInv'
  <2>1. n \in Nat
    BY TransferAssumption
  <2> QED
    BY <1>2, <2>1, PeerWritesKeeps
<1> QED
  BY <1>1, <1>2, RawKeeps, PeerEndsKeeps, KernelReadsKeeps, KernelWritesKeeps, BeginKeeps, LoopKeeps,
     EndKeeps, HelperDispatchKeeps, AwaitedKeeps DEF TransferNext, HelperCode

LEMMA Helped == TransferSpec => [](StreamInv /\ HelperInv)
<1>1. TransferInit => StreamInv /\ HelperInv
  BY StreamInvInit, HelperInvInit DEF TransferInit
<1>2. StreamInv /\ HelperInv /\ [TransferNext]_allVars => StreamInv' /\ HelperInv'
  BY TransferSteps, StreamInvStep, HelperInvStep
<1> QED
  BY <1>1, <1>2, PTL DEF TransferSpec

\* A helper that returns has counted every byte the kernel moved, whatever it
\* returns, and the buffer it gives back is initialised as far as its length
\* says (io.rs), for windows, sources and buffers of any size.
THEOREM ReturnsTrue == TransferSpec => []Returned
<1>1. HelperInv => Returned
  BY DEF HelperInv, Buffered, Counts, Returned
<1> QED
  BY <1>1, Helped, PTL

----------------------------------------------------------------------------
(* The helpers implement Copy.                                             *)

\* Copy's variables, as the helpers have them.
Source == IF call = "write_all" THEN Target ELSE src
Over == \/ call = "write_all" \/ ended = "closed" \/ (ended = "cut" /\ Pipe)
        \/ kind = "file" /\ verdict # "idle"
Goal == IF call = "read_to_end" THEN -1 ELSE Target
Sink == IF call = "write_all" THEN out ELSE SubSeq(cells, start + 1, start + transferred)
Said == CASE verdict \in {"idle", "running"} -> "none" [] verdict = "ok" -> "ok" [] OTHER -> "failed"

\* How many bytes have been copied.
Moved == IF call = "write_all" THEN taken ELSE transferred

LEMMA SinkFacts ==
    ASSUME HelperInv
    PROVE  Moved \in Nat /\ Sink = [i \in 1..Moved |-> i] /\ Len(Sink) = Moved
<1>1. taken \in Nat /\ transferred \in Nat /\ start \in Nat /\ out \in Seq(Nat)
  BY DEF HelperInv, HelperTypes
<1>2. \A n \in Nat : Len([i \in 1..n |-> i]) = n
  OBVIOUS
<1>3. CASE call = "write_all"
  <2>1. Len(out) = taken /\ \A i \in 1..taken : out[i] = i
    BY <1>3 DEF HelperInv, Sunk
  <2>2. out = [i \in 1..taken |-> i]
    <3>1. out = [i \in 1..Len(out) |-> out[i]]
      BY <1>1
    <3> QED
      BY <2>1, <3>1
  <2> QED
    BY <1>1, <1>2, <1>3, <2>2 DEF Moved, Sink
<1>4. CASE call # "write_all"
  <2>1. \A i \in 1..transferred : cells[start + i] = i
    <3>1. CASE Reads
      <4>1. transferred <= taken
        BY DEF HelperInv, Counts
      <4>2. \A i \in 1..taken : cells[start + i] = i
        BY <3>1 DEF HelperInv, Buffered
      <4> QED
        BY <1>1, <4>1, <4>2
    <3>2. CASE ~Reads
      <4>1. call = "none"
        BY <1>4, <3>2 DEF Reads, HelperInv, HelperTypes
      <4>2. transferred = 0
        BY <4>1 DEF HelperInv, Quiet
      <4> QED
        BY <4>2
    <3> QED
      BY <3>1, <3>2
  <2>2. \A i \in start + 1..start + transferred : cells[i] \in Nat
    <3> TAKE i \in start + 1..start + transferred
    <3>1. i - start \in 1..transferred /\ start + (i - start) = i
      BY <1>1
    <3>2. cells[start + (i - start)] = i - start
      BY <2>1, <3>1
    <3> QED
      BY <3>1, <3>2
  <2>3. PICK c : c = SubSeq(cells, start + 1, start + transferred)
    OBVIOUS
  <2>4. (IF start + 1 <= start + transferred THEN start + transferred - (start + 1) + 1 ELSE 0)
            = transferred
    BY <1>1
  <2>5. c = [i \in 1..transferred |-> cells[start + i]]
    BY <1>1, <2>2, <2>3, <2>4
  <2>6. c = [i \in 1..transferred |-> i]
    BY <2>1, <2>5
  <2> QED
    BY <1>1, <1>2, <1>4, <2>3, <2>6 DEF Moved, Sink
<1> QED
  BY <1>3, <1>4

\* No more is taken than the source has offered.
LEMMA TakenOffered ==
    ASSUME HelperInv, Reads, kind = "file" => verdict # "idle"
    PROVE  taken \in Nat /\ src \in Nat /\ taken <= src
<1>1. taken \in Nat /\ src \in Nat /\ Len(pending) \in Nat
  BY LenProperties DEF HelperInv, HelperTypes
<1>2. CASE kind = "file"
  BY <1>1, <1>2 DEF HelperInv, Offered
<1>3. CASE kind # "file"
  <2>1. PICK f \in [0..Len(pending) -> Nat] : Cuts(f)
    BY <1>3 DEF HelperInv, Offered
  <2>2. f[0] = taken /\ 0 \in 0..Len(pending)
    BY <1>1, <2>1 DEF Cuts
  <2> QED
    BY <1>1, <2>1, <2>2 DEF Cuts
<1> QED
  BY <1>2, <1>3

\* The same of the next state.
LEMMA SinkNext ==
    ASSUME HelperInv'
    PROVE  Moved' \in Nat /\ Sink' = [i \in 1..Moved' |-> i]
<1>1. (HelperInv => Moved \in Nat /\ Sink = [i \in 1..Moved |-> i])'
  BY SinkFacts, PTL
<1> QED
  BY <1>1

LEMMA Counting ==
    ASSUME NEW m \in Nat, NEW n \in Nat
    PROVE  [i \in 1..m + n |-> i] = [i \in 1..m |-> i] \o [i \in 1..n |-> m + i]
<1>1. PICK s : s = [i \in 1..m |-> i]
  OBVIOUS
<1>2. PICK t : t = [i \in 1..n |-> m + i]
  OBVIOUS
<1>3. s \in Seq(Nat) /\ Len(s) = m /\ \A i \in 1..m : s[i] = i
  BY <1>1
<1>4. t \in Seq(Nat) /\ Len(t) = n /\ \A i \in 1..n : t[i] = m + i
  BY <1>2, Numbered
<1>5. s \o t \in Seq(Nat) /\ Len(s \o t) = m + n
  BY <1>3, <1>4, ConcatProperties
<1>6. \A i \in 1..m + n : (s \o t)[i] = IF i <= m THEN s[i] ELSE t[i - m]
  BY <1>3, <1>4, ConcatProperties
<1>7. ASSUME NEW i \in 1..m + n PROVE (s \o t)[i] = i
  <2>1. CASE i <= m
    <3>1. i \in 1..m
      BY <2>1
    <3> QED
      BY <1>3, <1>6, <2>1, <3>1
  <2>2. CASE ~(i <= m)
    <3>1. i - m \in 1..n /\ m + (i - m) = i
      BY <2>2
    <3> QED
      BY <1>4, <1>6, <2>2, <3>1
  <2> QED
    BY <2>1, <2>2
<1>8. s \o t = [i \in 1..m + n |-> (s \o t)[i]]
  <2>1. PICK u \in Seq(Nat) : u = s \o t /\ Len(u) = m + n
    BY <1>5
  <2>2. u = [i \in 1..Len(u) |-> u[i]]
    OBVIOUS
  <2>3. u = [i \in 1..m + n |-> u[i]]
    BY <2>1, <2>2
  <2> QED
    BY <2>1, <2>3
<1> QED
  BY <1>1, <1>2, <1>7, <1>8

\* The kinds of steps.
LEMMA Stutters ==
    ASSUME HelperInv, HelperInv', UNCHANGED <<Source, Over, call, Moved, Said>>
    PROVE  UNCHANGED Cp!vars
<1>1. UNCHANGED <<Source, Over, Goal, Sink, Said>>
  BY SinkFacts, SinkNext DEF Goal
<1> QED
  BY <1>1 DEF Cp!vars, Source, Over, Goal, Sink, Said

LEMMA Advances ==
    ASSUME HelperInv, HelperInv', NEW n \in Nat, n >= 1, Moved' = Moved + n, Moved' <= Source,
           Source \in Nat, UNCHANGED <<Source, Over, call, Said>>, Said = "none"
    PROVE  Cp!Next
<1>1. Moved \in Nat /\ Sink = [i \in 1..Moved |-> i] /\ Len(Sink) = Moved
  BY SinkFacts
<1>2. Sink' = Sink \o [i \in 1..n |-> Len(Sink) + i]
  BY <1>1, SinkNext, Counting
<1>3. n \in 1..Source /\ Len(Sink) + n <= Source
  BY <1>1
<1>4. UNCHANGED Goal
  BY DEF Goal
<1>5. Cp!Move(n)
  BY <1>2, <1>3, <1>4 DEF Cp!Move, Source, Over, Goal, Sink, Said
<1>6. \E k \in 1..Source : Cp!Move(k)
  BY <1>3, <1>5
<1> QED
  BY <1>6 DEF Cp!Next, Source

LEMMA Says ==
    ASSUME HelperInv, HelperInv', UNCHANGED <<Source, Over, call, Moved>>,
           Said = "none", Said' \in {"ok", "failed"},
           Said' = "ok" => IF call = "read_to_end" THEN Over /\ Moved = Source ELSE Moved = Target
    PROVE  Cp!Next
<1>1. UNCHANGED <<Source, Over, Goal, Sink>> /\ Len(Sink) = Moved
  BY SinkFacts, SinkNext DEF Goal
<1>2. Goal = -1 <=> call = "read_to_end"
  BY TransferAssumption DEF Goal
<1>3. Said' = "ok" => IF Goal = -1 THEN Over /\ Len(Sink) = Source ELSE Len(Sink) = Goal
  BY <1>1, <1>2 DEF Goal
<1>4. Cp!Verdict(Said')
  BY <1>1, <1>3 DEF Cp!Verdict, Cp!Whole, Source, Over, Goal, Sink, Said
<1> QED
  BY <1>4 DEF Cp!Next

LEMMA Offers ==
    ASSUME HelperInv, HelperInv', ~Over, Source \in Nat, Source' \in Nat, Source' >= Source,
           UNCHANGED <<call, Moved, Said>>
    PROVE  Cp!Next
<1>1. UNCHANGED <<Goal, Sink, Said>>
  BY SinkFacts, SinkNext DEF Goal
<1>2. Over' \in BOOLEAN
  BY DEF Over
<1>3. Cp!Offer
  BY <1>1, <1>2 DEF Cp!Offer, Source, Over, Goal, Sink, Said
<1> QED
  BY <1>3 DEF Cp!Next

LEMMA Withdraws ==
    ASSUME HelperInv, HelperInv', ~Over, Over', Source' \in Moved..Source,
           UNCHANGED <<call, Moved, Said>>
    PROVE  Cp!Next
<1>1. UNCHANGED <<Goal, Sink, Said>> /\ Len(Sink) = Moved
  BY SinkFacts, SinkNext DEF Goal
<1>2. Over' = TRUE
  BY DEF Over
<1>3. Cp!Withdraw
  BY <1>1, <1>2 DEF Cp!Withdraw, Source, Over, Goal, Sink, Said
<1> QED
  BY <1>3 DEF Cp!Next

LEMMA CopyInit == TransferInit => Cp!Init
<1> SUFFICES ASSUME TransferInit PROVE Cp!Init
  OBVIOUS
<1>1. HelperInv
  BY HelperInvInit
<1>2. /\ src = 0 /\ taken = 0 /\ transferred = 0 /\ verdict = "idle"
      /\ Target \in Nat
  BY TransferAssumption DEF TransferInit
<1>3. Sink = <<>>
  <2>1. Moved = 0
    BY <1>2 DEF Moved
  <2>2. Sink = [i \in 1..0 |-> i]
    BY <1>1, <2>1, SinkFacts
  <2> QED
    BY <2>2
<1>4. Source \in Nat /\ Over \in BOOLEAN /\ Goal \in Nat \cup {-1} /\ Said = "none"
  BY <1>2 DEF Source, Over, Goal, Said
<1> QED
  BY <1>3, <1>4 DEF Cp!Init, Source, Over, Goal, Sink, Said

\* The steps of the object, of its source and of its peer.
LEMMA OutsideCopies ==
    ASSUME StreamInv, HelperInv, HelperInv',
           \/ RawStep \/ Teardown
           \/ \E n \in Nat : PeerWrites(n)
           \/ \E how \in {"closed", "cut"} : PeerEnds(how)
    PROVE  Cp!Next \/ UNCHANGED Cp!vars
<1>1. CASE RawStep \/ Teardown
  <2>1. UNCHANGED <<src, ended, call, taken, transferred, verdict>>
    BY <1>1 DEF RawStep, Teardown, transferVars, sourceVars, helperVars
  <2>2. [StreamNext]_streamVars
    BY <1>1, TransferSteps DEF TransferNext
  <2>3. UNCHANGED Over
    <3>1. CASE stage = "none"
      <4>1. verdict = "idle" /\ ended = "no"
        BY <3>1 DEF HelperInv, Quiet
      <4> QED
        BY <2>1, <4>1 DEF Over
    <3>2. CASE stage # "none"
      <4>1. kind' = kind
        BY <2>2, <3>2, ObjectStays
      <4> QED
        BY <2>1, <4>1 DEF Over, Pipe
    <3> QED
      BY <3>1, <3>2
  <2> QED
    BY <2>1, <2>3, Stutters DEF Source, Moved, Said
<1>2. ASSUME NEW n \in Nat, PeerWrites(n) PROVE Cp!Next
  <2>1. /\ UNCHANGED <<kind, ended, call, taken, transferred, verdict>>
        /\ Reads /\ kind # "file" /\ ended = "no" /\ src' = src + n
    BY <1>2 DEF PeerWrites, helperVars, streamVars, objVars
  <2>2. src \in Nat /\ src' \in Nat /\ src' >= src
    BY <2>1 DEF HelperInv, HelperTypes
  <2>3. ~Over /\ call # "write_all"
    BY <2>1 DEF Over, Reads
  <2> QED
    BY <2>1, <2>2, <2>3, Offers DEF Source, Moved, Said
<1>3. ASSUME NEW how \in {"closed", "cut"}, PeerEnds(how) PROVE Cp!Next \/ UNCHANGED Cp!vars
  <2>1. /\ UNCHANGED <<kind, call, taken, transferred, verdict>>
        /\ call # "none" /\ kind # "file" /\ ended = "no" /\ ended' = how
        /\ src' = IF how = "cut" /\ Pipe THEN taken ELSE src
    BY <1>3 DEF PeerEnds, helperVars, streamVars, objVars
  <2>2. src \in Nat /\ transferred \in Nat /\ taken \in Nat /\ transferred <= taken
    BY DEF HelperInv, HelperTypes, Counts
  <2>3. CASE call = "write_all"
    <3>1. UNCHANGED <<Source, Over, Moved, Said>>
      BY <2>1, <2>3 DEF Source, Over, Moved, Said
    <3> QED
      BY <2>1, <3>1, Stutters
  <2>4. CASE call # "write_all" /\ how = "cut" /\ Pipe
    <3>1. taken <= src
      BY <2>1, <2>4, TakenOffered DEF Reads, HelperInv, HelperTypes
    <3>2. ~Over /\ Over'
      BY <2>1, <2>4 DEF Over, Pipe
    <3>3. Source' \in Moved..Source
      BY <2>1, <2>2, <2>4, <3>1 DEF Source, Moved
    <3> QED
      BY <2>1, <3>2, <3>3, Withdraws DEF Moved, Said
  <2>5. CASE call # "write_all" /\ how = "cut" /\ ~Pipe
    <3>1. UNCHANGED <<Source, Over, Moved, Said>>
      BY <2>1, <2>5 DEF Source, Over, Moved, Said, Pipe
    <3> QED
      BY <2>1, <3>1, Stutters
  <2>6. CASE call # "write_all" /\ how = "closed"
    <3>1. ~Over
      BY <2>1, <2>6 DEF Over
    <3>2. Source \in Nat /\ Source' = Source
      BY <2>1, <2>2, <2>6 DEF Source
    <3>3. Source' >= Source
      BY <3>2
    <3> QED
      BY <2>1, <3>1, <3>2, <3>3, Offers DEF Moved, Said
  <2> QED
    BY <2>3, <2>4, <2>5, <2>6
<1> QED
  BY <1>1, <1>2, <1>3

LEMMA Above == \A a \in Nat, b \in Nat :
    a <= b /\ a # b => b - a \in Nat /\ b - a >= 1 /\ b = a + (b - a)
OBVIOUS

\* Those of the kernel: a write arrives when it is done.
LEMMA KernelCopies ==
    ASSUME StreamInv, HelperInv, HelperInv', KernelReads \/ KernelWrites
    PROVE  Cp!Next \/ UNCHANGED Cp!vars
<1>1. /\ UNCHANGED <<src, ended, call, transferred, verdict>> /\ verdict = "running"
      /\ UNCHANGED kind
  BY DEF KernelReads, KernelWrites, Completes, objVars, sourceVars
<1>2. UNCHANGED <<Source, Over, Said>> /\ Said = "none"
  BY <1>1 DEF Source, Over, Said, Pipe
<1>3. CASE KernelReads
  <2>1. UNCHANGED Moved
    BY <1>1, <1>3 DEF KernelReads, Reads, Moved
  <2> QED
    BY <1>1, <1>2, <2>1, Stutters
<1>4. CASE KernelWrites
  <2>1. call = "write_all" /\ taken' \in Nat /\ taken <= taken' /\ taken' <= Target
    BY <1>4, KernelWritesKeeps DEF KernelWrites
  <2>2. taken \in Nat /\ Target \in Nat
    BY TransferAssumption DEF HelperInv, HelperTypes
  <2>3. Moved = taken /\ Moved' = taken' /\ Source = Target
    BY <1>1, <2>1 DEF Moved, Source
  <2>4. CASE taken' = taken
    BY <1>1, <1>2, <2>3, <2>4, Stutters
  <2>5. CASE taken' # taken
    <3>1. PICK n \in Nat : n = taken' - taken /\ n >= 1 /\ taken' = taken + n
      <4>1. PICK b \in Nat : b = taken' /\ taken <= b /\ taken # b
        BY <2>1, <2>5
      <4>2. b - taken \in Nat /\ b - taken >= 1 /\ b = taken + (b - taken)
        BY <2>2, <4>1, Above
      <4> QED
        BY <4>1, <4>2
    <3> QED
      BY <1>1, <1>2, <2>1, <2>2, <2>3, <3>1, Advances
  <2> QED
    BY <2>4, <2>5
<1> QED
  BY <1>3, <1>4

\* The end of a source, as read_to_end learns of it, is the end.
LEMMA EndIsTrue ==
    ASSUME HelperInv, verdict = "running", call = "read_to_end",
           ReadOutcome(io) \in {"Eof", "ClosedPeer"}
    PROVE  Over /\ src = taken
<1>1. Reads
  BY DEF Reads
<1>2. CASE kind = "file" /\ src = taken
  BY <1>2 DEF Over
<1>3. ASSUME kind # "file", pending = <<>>, ended = "closed" \/ (ended = "cut" /\ Pipe)
      PROVE  Over /\ src = taken
  <2>1. PICK f \in [0..Len(pending) -> Nat] : Cuts(f)
    BY <1>1, <1>3 DEF HelperInv, Offered
  <2>2. f[0] = taken /\ f[0] = src
    BY <1>3, <2>1 DEF Cuts
  <2> QED
    BY <1>3, <2>2 DEF Over
<1>4. CASE kind = "socket"
  <2>1. io.code = "ok" /\ io.n = 0
    BY <1>4 DEF ReadOutcome, ClassifySocketRead
  <2> QED
    BY <1>1, <1>3, <1>4, <2>1 DEF HelperInv, Truthful
<1>5. CASE kind # "socket"
  <2>1. io.code \in {"ERROR_HANDLE_EOF", "ERROR_BROKEN_PIPE", "ERROR_PIPE_NOT_CONNECTED",
                     "ERROR_NETNAME_DELETED"}
    BY <1>5 DEF ReadOutcome, ClassifyRead
  <2> QED
    BY <1>1, <1>2, <1>3, <1>5, <2>1 DEF HelperInv, Truthful, Pipe
<1> QED
  BY <1>4, <1>5

\* Those of the helper.
LEMMA HelperCopies ==
    ASSUME StreamInv, HelperInv, HelperInv', HelperCode \/ DropHelper
    PROVE  Cp!Next \/ UNCHANGED Cp!vars
<1>1. CASE Begin
  <2>1. /\ UNCHANGED <<kind, ended, call, taken, transferred>>
        /\ verdict = "idle" /\ verdict' = "running" /\ call # "none" /\ stage = "open"
        /\ ~(kind = "file" /\ Reads) => src' = src
    BY <1>1 DEF Begin, streamVars, objVars
  <2>2. UNCHANGED <<Moved, Said>>
    BY <2>1 DEF Moved, Said
  <2>3. CASE kind = "file" /\ Reads
    <3>1. src = 0 /\ ended = "no" /\ src' \in Nat
      BY <2>1, <2>3 DEF HelperInv, HelperTypes, Quiet
    <3>2. ~Over /\ Source = 0 /\ Source' = src'
      BY <2>1, <2>3, <3>1 DEF Over, Source, Reads
    <3> QED
      BY <2>1, <2>2, <3>1, <3>2, Offers
  <2>4. CASE ~(kind = "file" /\ Reads)
    <3>1. UNCHANGED <<Source, Over>>
      BY <2>1, <2>4 DEF Source, Over, Reads, Pipe, HelperInv, HelperTypes
    <3> QED
      BY <2>1, <2>2, <3>1, Stutters
  <2> QED
    BY <2>3, <2>4
<1>2. CASE Loop \/ HelperDispatch
  <2>1. UNCHANGED <<src, ended, call, taken, transferred, verdict>>
    BY <1>2 DEF Loop, HelperDispatch, sourceVars, helperVars
  <2>2. UNCHANGED kind
    BY <1>2, SubmitFacts DEF Loop, HelperDispatch, Dispatch
  <2> QED
    BY <2>1, <2>2, Stutters DEF Source, Over, Moved, Said, Pipe
<1>3. CASE LoopEnds \/ DropHelper
  <2>1. UNCHANGED <<src, ended, call, taken, transferred>> /\ verdict = "running"
    BY <1>3 DEF LoopEnds, DropHelper, sourceVars
  <2>2. UNCHANGED kind
    BY <1>3 DEF LoopEnds, DropHelper, DropFuture, DropConnect, FutureGoes, streamVars, objVars
  <2>3. verdict' = "ok" \/ verdict' = "dropped"
    BY <1>3 DEF LoopEnds, DropHelper
  <2>4. Said = "none" /\ Said' \in {"ok", "failed"}
    BY <2>1, <2>3 DEF Said
  <2>5. Said' = "ok" => call # "read_to_end" /\ Moved = Target
    <3> SUFFICES ASSUME Said' = "ok" PROVE call # "read_to_end" /\ Moved = Target
      OBVIOUS
    <3>1. LoopEnds
      BY <1>3, <2>3 DEF Said, DropHelper
    <3>2. call # "read_to_end" /\ transferred = Target /\ ops[Helper] = NoOp
      BY <3>1 DEF LoopEnds
    <3>3. io = NoIo /\ taken = transferred + io.n /\ transferred \in Nat
      BY <2>1, <3>2 DEF HelperInv, HelperTypes, Counts, NoOp
    <3> QED
      BY <3>2, <3>3 DEF Moved, NoIo
  <2> QED
    <3>1. UNCHANGED <<Source, Moved>>
      BY <2>1 DEF Source, Moved
    <3>2. UNCHANGED Over
      BY <2>1, <2>2, <2>3 DEF Over, Pipe
    <3> QED
      BY <2>1, <2>4, <2>5, <3>1, <3>2, Says
<1>4. CASE Awaited
  <2>1. /\ verdict = "running" /\ call # "none"
        /\ UNCHANGED <<src, ended, call, taken, kind>>
        /\ transferred' = taken /\ taken \in Nat
        /\ \/ verdict' = "running"
           \/ verdict' \in Verdicts /\ io.n = 0
        /\ verdict' = "ok" => /\ call = "read_to_end"
                              /\ ReadOutcome(io) \in {"Eof", "ClosedPeer"}
    BY <1>4, AwaitedFacts
  <2>2. io.n \in Nat /\ transferred \in Nat /\ taken = transferred + io.n /\ src \in Nat
    BY <2>1 DEF HelperInv, HelperTypes, Counts
  <2>3. UNCHANGED <<Source, Over>> /\ Said = "none"
    BY <2>1 DEF Source, Over, Said, Pipe, Verdicts
  <2>4. CASE verdict' = "running"
    <3>1. UNCHANGED Said
      BY <2>1, <2>4 DEF Said
    <3>2. CASE call = "write_all" \/ io.n = 0
      <4>1. UNCHANGED Moved
        BY <2>1, <2>2, <3>2 DEF Moved
      <4> QED
        BY <2>1, <2>3, <3>1, <4>1, Stutters
    <3>3. CASE call # "write_all" /\ io.n # 0
      <4>1. Reads
        BY <2>1, <3>3 DEF Reads, HelperInv, HelperTypes
      <4>2. taken <= src
        BY <2>1, <4>1, TakenOffered
      <4>3. PICK n \in Nat : n = io.n /\ n >= 1
        BY <2>2, <3>3
      <4>4. Moved' = Moved + n /\ Moved' <= Source /\ Source \in Nat
        BY <2>1, <2>2, <3>3, <4>2, <4>3 DEF Moved, Source
      <4> QED
        BY <2>1, <2>3, <3>1, <4>3, <4>4, Advances
    <3> QED
      BY <3>2, <3>3
  <2>5. CASE verdict' # "running"
    <3>1. verdict' \in Verdicts /\ io.n = 0
      BY <2>1, <2>5
    <3>2. Said' \in {"ok", "failed"} /\ (Said' = "ok" => verdict' = "ok")
      BY <3>1 DEF Said, Verdicts
    <3>3. UNCHANGED Moved
      BY <2>1, <2>2, <3>1 DEF Moved
    <3>4. Said' = "ok" => call = "read_to_end" /\ Over /\ Moved = Source
      <4> SUFFICES ASSUME Said' = "ok" PROVE call = "read_to_end" /\ Over /\ Moved = Source
        OBVIOUS
      <4>1. call = "read_to_end" /\ ReadOutcome(io) \in {"Eof", "ClosedPeer"}
        BY <2>1, <3>2
      <4>2. Over /\ src = taken
        BY <2>1, <4>1, EndIsTrue
      <4> QED
        BY <2>2, <3>1, <4>1, <4>2 DEF Moved, Source
    <3> QED
      BY <2>1, <2>3, <3>2, <3>3, <3>4, Says
  <2> QED
    BY <2>4, <2>5
<1> QED
  BY <1>1, <1>2, <1>3, <1>4 DEF HelperCode

\* write_all, read_exact and read_to_end (io.rs) implement Copy: whatever short
\* reads and writes, messages, closes and cuts there are, the bytes arrive in
\* order, none twice and none left out, and Ok means that all of them did.
THEOREM HelpersCopy == TransferSpec => Copies
<1>1. StreamInv /\ HelperInv /\ HelperInv' /\ [TransferNext]_allVars => [Cp!Next]_(Cp!vars)
  <2> SUFFICES ASSUME StreamInv, HelperInv, HelperInv', [TransferNext]_allVars
               PROVE  Cp!Next \/ UNCHANGED Cp!vars
    OBVIOUS
  <2>1. CASE UNCHANGED allVars
    BY <2>1, Stutters DEF allVars, streamVars, objVars, transferVars, sourceVars, helperVars,
                          Source, Over, Moved, Said, Pipe
  <2>2. \A n \in 0..MaxBytes : n \in Nat
    BY TransferAssumption
  <2> QED
    BY <2>1, <2>2, OutsideCopies, KernelCopies, HelperCopies DEF TransferNext
<1> QED
  BY <1>1, CopyInit, Helped, PTL DEF TransferSpec, Copies, Cp!Spec
=============================================================================
