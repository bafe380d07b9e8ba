------------------------- MODULE RequestQueueProofs -------------------------
(***************************************************************************)
(* The HTTP.sys queue for any number of callers and requests, any          *)
(* capacities and retries and both backends: its handle is counted exactly *)
(* and outlives every use, close strands no call, what receive calls too   *)
(* large is, and what happens to the requests is what Delivery promises.   *)
(***************************************************************************)
EXTENDS RequestQueue, FiniteSetTheorems, TLAPS

----------------------------------------------------------------------------
(* The invariant.                                                          *)

InCall == {c \in Callers : pc[c] \in {"cloned", "submitting", "awaiting"}}
GaveUp == {c \in Callers : /\ kind[c] = "cancel"
                           /\ pc[c] \in {"cloned", "submitting", "awaiting"} \cup {"open"}}

\* The references that the queue and its close have, and those of a caller.
Queue == One(open \/ closer \in {"taken", "cancelled", "dropped"})
Held(c) == One(c \in InCall) + One(c \in GaveUp) + One(c \in orphan)
Count == Queue + Cardinality(InCall) + Cardinality(GaveUp) + Cardinality(orphan)

\* What a caller may rely on: its call is out from Operate until it returns, or
\* until HTTP.sys ends it when the future is gone; only a receive is told that
\* its request did not fit.
Own(c) ==
    /\ io[c].st = "none" => io[c] = Idle
    /\ io[c].st = "inflight" => io[c] = InFlight
    /\ pc[c] = "awaiting" => io[c].st # "none"
    /\ c \in orphan => pc[c] = "idle" /\ io[c] = InFlight
    /\ io[c] # Idle => pc[c] = "awaiting" \/ c \in orphan
    /\ io[c].st = "more_data" => kind[c] = "receive"
    /\ io[c].st \in {"ok", "more_data"} /\ kind[c] = "receive" => io[c].req \in Requests

\* The read lock keeps the queue open while a call is started, so that close
\* cancels every call or prevents it.
Locked(c) ==
    /\ c \in readers <=> pc[c] = "submitting"
    /\ pc[c] = "submitting" => open
    /\ closer \in {"cancelled", "dropped", "done"} /\ io[c] = InFlight => c \in cancelled

QueueInv ==
    /\ TypeOK
    /\ open <=> closer = "none"
    /\ \A c \in Callers : Own(c) /\ Locked(c)
    /\ strong = Count
    /\ closes = One(strong = 0)

----------------------------------------------------------------------------
(* Counting.                                                               *)

\* Two sets of callers that differ at most in c.
LEMMA Differ ==
    ASSUME NEW S \in SUBSET Callers, NEW T \in SUBSET Callers, NEW c \in Callers,
           \A d \in Callers \ {c} : d \in S <=> d \in T
    PROVE  /\ Cardinality(S) \in Nat /\ Cardinality(T) \in Nat
           /\ Cardinality(T) = Cardinality(S) + One(c \in T) - One(c \in S)
           /\ Cardinality(S) >= One(c \in S)
<1>1. IsFiniteSet(S) /\ IsFiniteSet(T)
  BY QueueAssumption, FS_Subset
<1>2. Cardinality(S) \in Nat /\ Cardinality(T) \in Nat
  BY <1>1, FS_CardinalityType
<1>3. CASE c \in S <=> c \in T
  <2>1. S = T
    BY <1>3
  <2>2. c \in S => Cardinality(S) # 0
    BY <1>1, FS_EmptySet
  <2> QED
    BY <2>1, <2>2, <1>2 DEF One
<1>4. CASE c \in T /\ c \notin S
  <2>1. T = S \cup {c}
    BY <1>4
  <2>2. Cardinality(T) = Cardinality(S) + 1
    BY <2>1, <1>4, <1>1, FS_AddElement
  <2> QED
    BY <2>2, <1>2, <1>4 DEF One
<1>5. CASE c \in S /\ c \notin T
  <2>1. T = S \ {c}
    BY <1>5
  <2>2. Cardinality(T) = Cardinality(S) - 1
    BY <2>1, <1>5, <1>1, FS_RemoveElement
  <2>3. Cardinality(S) # 0
    BY <1>5, <1>1, FS_EmptySet
  <2> QED
    BY <2>2, <2>3, <1>2, <1>5 DEF One
<1> QED
  BY <1>3, <1>4, <1>5

\* A step of caller c leaves what the others have alone.
Local(c) ==
    /\ UNCHANGED <<open, closer>>
    /\ \A d \in Callers \ {c} :
        /\ pc'[d] = pc[d] /\ kind'[d] = kind[d] /\ io'[d] = io[d]
        /\ d \in orphan' <=> d \in orphan
        /\ d \in cancelled' <=> d \in cancelled
        /\ d \in readers' <=> d \in readers

LEMMA LocalCount ==
    ASSUME TypeOK, TypeOK', NEW c \in Callers, Local(c)
    PROVE  /\ Count \in Nat /\ Held(c) \in Nat /\ Held(c)' \in Nat /\ Queue \in {0, 1}
           /\ Count' = Count + Held(c)' - Held(c)
           /\ Count >= Held(c) + Queue
<1>1. /\ InCall \in SUBSET Callers /\ InCall' \in SUBSET Callers
      /\ GaveUp \in SUBSET Callers /\ GaveUp' \in SUBSET Callers
      /\ orphan \in SUBSET Callers /\ orphan' \in SUBSET Callers
  BY DEF TypeOK, InCall, GaveUp
<1>2. \A d \in Callers \ {c} : /\ d \in InCall <=> d \in InCall'
                               /\ d \in GaveUp <=> d \in GaveUp'
                               /\ d \in orphan <=> d \in orphan'
  BY DEF Local, InCall, GaveUp
<1>3. /\ Cardinality(InCall) \in Nat /\ Cardinality(InCall') \in Nat
      /\ Cardinality(InCall') = Cardinality(InCall) + One(c \in InCall') - One(c \in InCall)
      /\ Cardinality(InCall) >= One(c \in InCall)
  BY <1>1, <1>2, Differ
<1>4. /\ Cardinality(GaveUp) \in Nat /\ Cardinality(GaveUp') \in Nat
      /\ Cardinality(GaveUp') = Cardinality(GaveUp) + One(c \in GaveUp') - One(c \in GaveUp)
      /\ Cardinality(GaveUp) >= One(c \in GaveUp)
  BY <1>1, <1>2, Differ
<1>5. /\ Cardinality(orphan) \in Nat /\ Cardinality(orphan') \in Nat
      /\ Cardinality(orphan') = Cardinality(orphan) + One(c \in orphan') - One(c \in orphan)
      /\ Cardinality(orphan) >= One(c \in orphan)
  BY <1>1, <1>2, Differ
<1>6. Queue' = Queue /\ Queue \in {0, 1}
  BY DEF Local, Queue, One
<1>7. /\ One(c \in InCall) \in {0, 1} /\ One(c \in InCall') \in {0, 1}
      /\ One(c \in GaveUp) \in {0, 1} /\ One(c \in GaveUp') \in {0, 1}
      /\ One(c \in orphan) \in {0, 1} /\ One(c \in orphan') \in {0, 1}
  BY DEF One
<1>8. Held(c)' = One(c \in InCall') + One(c \in GaveUp') + One(c \in orphan')
  BY DEF Held, One
<1>9. Count' = Queue' + Cardinality(InCall') + Cardinality(GaveUp') + Cardinality(orphan')
  BY DEF Count
<1>10. /\ Count \in Nat /\ Held(c) \in Nat /\ Count >= Held(c) + Queue
  BY <1>3, <1>4, <1>5, <1>6, <1>7 DEF Count, Held
<1>11. Held(c)' \in Nat
  BY <1>7, <1>8
<1>12. Count' = Count + Held(c)' - Held(c)
  BY <1>3, <1>4, <1>5, <1>6, <1>7, <1>8, <1>9 DEF Count, Held
<1> QED
  BY <1>6, <1>10, <1>11, <1>12

----------------------------------------------------------------------------
(* One step of a caller.                                                   *)

\* It gives back the references it no longer holds.
LEMMA CallerDrops ==
    ASSUME QueueInv, TypeOK', NEW c \in Callers, Local(c), Own(c)', Locked(c)',
           NEW n \in Nat, Held(c) = Held(c)' + n, DropClones(n)
    PROVE  QueueInv'
<1>1. Count' = Count - n /\ Count >= n /\ Count \in Nat
  BY LocalCount DEF QueueInv
<1>2. strong' = Count' /\ closes' = One(strong' = 0)
  BY <1>1 DEF QueueInv, DropClones, One
<1>3. \A d \in Callers : Own(d)' /\ Locked(d)'
  BY DEF QueueInv, Local, Own, Locked
<1>4. open' <=> closer' = "none"
  BY DEF QueueInv, Local
<1> QED
  BY <1>2, <1>3, <1>4 DEF QueueInv

\* It keeps what it holds.
LEMMA CallerKeeps ==
    ASSUME QueueInv, TypeOK', NEW c \in Callers, Local(c), Own(c)', Locked(c)',
           Held(c)' = Held(c), UNCHANGED handleVars
    PROVE  QueueInv'
<1>1. DropClones(0)
  BY DEF handleVars, DropClones, QueueInv, TypeOK
<1>2. Held(c) = Held(c)' + 0
  BY LocalCount DEF QueueInv
<1> QED
  BY <1>1, <1>2, CallerDrops

\* It clones the handle of an open queue.
LEMMA CallerClones ==
    ASSUME QueueInv, TypeOK', NEW c \in Callers, Local(c), Own(c)', Locked(c)',
           open, Held(c)' = Held(c) + 1, strong' = strong + 1, closes' = closes
    PROVE  QueueInv'
<1>1. Count' = Count + 1 /\ Count >= 1 /\ Count \in Nat
  BY LocalCount DEF QueueInv, Queue, One
<1>2. strong' = Count' /\ closes' = One(strong' = 0)
  BY <1>1 DEF QueueInv, One
<1>3. \A d \in Callers : Own(d)' /\ Locked(d)'
  BY DEF QueueInv, Local, Own, Locked
<1>4. open' <=> closer' = "none"
  BY DEF QueueInv, Local
<1> QED
  BY <1>2, <1>3, <1>4 DEF QueueInv

----------------------------------------------------------------------------
(* Types.                                                                  *)

LEMMA GrowType ==
    ASSUME NEW m \in Nat, NEW n \in Nat
    PROVE  /\ Larger(m, n) \in Nat /\ Smaller(m, n) \in Nat
           /\ GROWTH_FACTOR * m \in Nat /\ m * GROWTH_FACTOR \in Nat
BY QueueAssumption DEF Larger, Smaller

LEMMA ResultType ==
    /\ Idle \in Result /\ InFlight \in Result
    /\ \A st \in {"ok", "more_data", "failed"}, r \in Requests \cup {Next_} :
        [st |-> st, req |-> r] \in Result
BY DEF Idle, InFlight, Result

LEMMA OutcomeType ==
    /\ NoOutcome \in Outcome
    /\ [NoOutcome EXCEPT !.tag = "failed"] \in Outcome
    /\ \A r \in Requests \cup {Next_} :
        /\ [NoOutcome EXCEPT !.tag = "ok", !.req = r] \in Outcome
        /\ \A b \in BOOLEAN : [tag |-> "too_large", req |-> r, discarded |-> b] \in Outcome
BY DEF NoOutcome, Outcome

\* The references dropped are held.
LEMMA DropType ==
    ASSUME QueueInv, NEW n \in Nat, strong >= n, DropClones(n)
    PROVE  strong' \in Nat /\ closes' \in Nat
BY DEF QueueInv, TypeOK, DropClones

LEMMA HeldCounts ==
    ASSUME QueueInv, NEW c \in Callers
    PROVE  /\ strong >= Held(c) + Queue /\ Held(c) \in Nat /\ Queue \in {0, 1}
<1>1. /\ InCall \in SUBSET Callers /\ GaveUp \in SUBSET Callers /\ orphan \in SUBSET Callers
  BY DEF QueueInv, TypeOK, InCall, GaveUp
<1>2. /\ Cardinality(InCall) \in Nat /\ Cardinality(InCall) >= One(c \in InCall)
      /\ Cardinality(GaveUp) \in Nat /\ Cardinality(GaveUp) >= One(c \in GaveUp)
      /\ Cardinality(orphan) \in Nat /\ Cardinality(orphan) >= One(c \in orphan)
  BY <1>1, Differ
<1>3. /\ Queue \in {0, 1}
      /\ One(c \in InCall) \in {0, 1} /\ One(c \in GaveUp) \in {0, 1}
      /\ One(c \in orphan) \in {0, 1}
  BY DEF Queue, One
<1> QED
  BY <1>2, <1>3 DEF QueueInv, Count, Held

----------------------------------------------------------------------------
(* The actions.                                                            *)

LEMMA ReceiveKeeps ==
    ASSUME QueueInv, NEW c \in Callers, Receive(c)
    PROVE  QueueInv'
<1> DEFINE first == Larger(initial_capacity, MIN_CAPACITY)
<1>0. first \in Nat /\ 0 \in 0..max_retries
  BY QueueAssumption DEF Larger
<1>1. TypeOK'
  <2> HIDE DEF first
  <2>1. capacity' = [capacity EXCEPT ![c] = first]
    BY DEF Receive, first
  <2>2. retries' \in [Callers -> 0..max_retries] /\ capacity' \in [Callers -> Nat]
    BY <1>0, <2>1 DEF Receive, QueueInv, TypeOK
  <2> QED
    BY <2>2, OutcomeType
       DEF QueueInv, TypeOK, Receive, lockVars, handleVars, ioVars, httpVars
<1>2. Local(c)
  BY DEF QueueInv, TypeOK, Receive, Local, lockVars, ioVars
<1>3. Own(c)' /\ Locked(c)'
  BY DEF QueueInv, TypeOK, Receive, Own, Locked, lockVars, ioVars, Idle, InFlight
<1>4. Held(c)' = Held(c)
  BY DEF QueueInv, TypeOK, Own, Receive, Held, InCall, GaveUp, One, ioVars, Idle, InFlight
<1> QED
  BY <1>1, <1>2, <1>3, <1>4, CallerKeeps DEF Receive

LEMMA SendKeeps ==
    ASSUME QueueInv, NEW c \in Callers, Send(c)
    PROVE  QueueInv'
<1>1. TypeOK'
  BY DEF QueueInv, TypeOK, Outcome, Send, lockVars, handleVars, ioVars, httpVars
<1>2. Local(c)
  BY DEF QueueInv, TypeOK, Send, Local, lockVars, ioVars
<1>3. Own(c)' /\ Locked(c)'
  BY DEF QueueInv, TypeOK, Send, Own, Locked, lockVars, ioVars, Idle, InFlight
<1>4. Held(c)' = Held(c)
  BY DEF QueueInv, TypeOK, Own, Send, Held, InCall, GaveUp, One, ioVars, Idle, InFlight
<1> QED
  BY <1>1, <1>2, <1>3, <1>4, CallerKeeps DEF Send

\* What Fails leaves behind.
LEMMA FailsType ==
    ASSUME QueueInv, NEW c \in Callers, Fails(c)
    PROVE  /\ pc' \in [Callers -> {"idle", "open", "cloned", "submitting", "awaiting", "got"}]
           /\ outcome' \in [Callers -> Outcome]
<1>1. pc' \in [Callers -> {"idle", "open", "cloned", "submitting", "awaiting", "got"}]
  BY DEF QueueInv, TypeOK, Fails
<1>2. CASE kind[c] = "receive"
  BY <1>2, OutcomeType DEF QueueInv, TypeOK, Fails
<1>3. CASE kind[c] = "cancel"
  BY <1>3, OutcomeType DEF QueueInv, TypeOK, Fails
<1>4. CASE kind[c] = "send"
  BY <1>4 DEF QueueInv, TypeOK, Fails
<1>5. kind[c] \in {"receive", "cancel", "send"}
  BY DEF QueueInv, TypeOK
<1> QED
  BY <1>1, <1>2, <1>3, <1>4, <1>5

LEMMA WithOpenKeeps ==
    ASSUME QueueInv, NEW c \in Callers, WithOpen(c)
    PROVE  QueueInv'
<1>1. CASE open
  <2>1. TypeOK'
    BY <1>1 DEF QueueInv, TypeOK, WithOpen, lockVars, ioVars, httpVars
  <2>2. Local(c)
    BY <1>1 DEF QueueInv, TypeOK, WithOpen, Local, lockVars, ioVars
  <2>3. Own(c)' /\ Locked(c)'
    BY <1>1 DEF QueueInv, TypeOK, WithOpen, Own, Locked, lockVars, ioVars, Idle, InFlight
  <2>4. Held(c)' = Held(c) + 1
    BY <1>1 DEF QueueInv, TypeOK, Own, WithOpen, Held, InCall, GaveUp, One, ioVars, Idle,
       InFlight
  <2> QED
    BY <1>1, <2>1, <2>2, <2>3, <2>4, CallerClones DEF WithOpen
<1>2. CASE ~open
  <2>1. /\ pc[c] = "open" /\ Fails(c) /\ DropClones(Clones(c) - 1)
        /\ UNCHANGED <<lockVars, closer, ioVars, httpVars>>
    BY <1>2 DEF WithOpen
  <2>2. Clones(c) - 1 \in Nat
    BY DEF Clones
  <2>3. Held(c) = Held(c)' + (Clones(c) - 1) /\ Held(c)' = 0
    BY <2>1 DEF QueueInv, TypeOK, Own, Fails, Held, Clones, InCall, GaveUp, One, ioVars, Idle,
       InFlight
  <2>4. strong' \in Nat /\ closes' \in Nat
    BY <2>1, <2>2, <2>3, HeldCounts, DropType DEF QueueInv, TypeOK
  <2>5. TypeOK'
    BY <2>1, <2>4, FailsType DEF QueueInv, TypeOK, Fails, lockVars, ioVars, httpVars
  <2>6. Local(c)
    BY <2>1 DEF QueueInv, TypeOK, Fails, Local, lockVars, ioVars
  <2>7. Own(c)' /\ Locked(c)'
    BY <2>1 DEF QueueInv, TypeOK, Fails, Own, Locked, lockVars, ioVars, Idle, InFlight
  <2> QED
    BY <2>1, <2>2, <2>3, <2>5, <2>6, <2>7, CallerDrops
<1> QED
  BY <1>1, <1>2

LEMMA SubmitKeeps ==
    ASSUME QueueInv, NEW c \in Callers, Submit(c)
    PROVE  QueueInv'
<1>1. CASE open
  <2>1. TypeOK'
    BY <1>1 DEF QueueInv, TypeOK, Submit, handleVars, ioVars, httpVars
  <2>2. Local(c)
    BY <1>1 DEF QueueInv, TypeOK, Submit, Local, ioVars
  <2>3. Own(c)' /\ Locked(c)'
    BY <1>1 DEF QueueInv, TypeOK, Submit, Own, Locked, ioVars, Idle, InFlight
  <2>4. Held(c)' = Held(c)
    BY <1>1 DEF QueueInv, TypeOK, Own, Submit, Held, InCall, GaveUp, One, ioVars, Idle, InFlight
  <2> QED
    BY <1>1, <2>1, <2>2, <2>3, <2>4, CallerKeeps DEF Submit
<1>2. CASE ~open
  <2>1. /\ pc[c] = "cloned" /\ Fails(c) /\ DropClones(Clones(c))
        /\ UNCHANGED <<lockVars, closer, ioVars, httpVars>>
    BY <1>2 DEF Submit, lockVars
  <2>2. Clones(c) \in Nat
    BY DEF Clones
  <2>3. Held(c) = Held(c)' + Clones(c) /\ Held(c)' = 0
    BY <2>1 DEF QueueInv, TypeOK, Own, Fails, Held, Clones, InCall, GaveUp, One, ioVars, Idle,
       InFlight
  <2>4. strong' \in Nat /\ closes' \in Nat
    BY <2>1, <2>2, <2>3, HeldCounts, DropType DEF QueueInv, TypeOK
  <2>5. TypeOK'
    BY <2>1, <2>4, FailsType DEF QueueInv, TypeOK, Fails, lockVars, ioVars, httpVars
  <2>6. Local(c)
    BY <2>1 DEF QueueInv, TypeOK, Fails, Local, lockVars, ioVars
  <2>7. Own(c)' /\ Locked(c)'
    BY <2>1 DEF QueueInv, TypeOK, Fails, Own, Locked, lockVars, ioVars, Idle, InFlight
  <2> QED
    BY <2>1, <2>2, <2>3, <2>5, <2>6, <2>7, CallerDrops
<1> QED
  BY <1>1, <1>2

LEMMA OperateKeeps ==
    ASSUME QueueInv, NEW c \in Callers, Operate(c)
    PROVE  QueueInv'
<1>1. TypeOK'
  BY ResultType DEF QueueInv, TypeOK, Operate, handleVars, httpVars
<1>2. Local(c)
  BY DEF QueueInv, TypeOK, Operate, Local
<1>3. Own(c)' /\ Locked(c)'
  BY DEF QueueInv, TypeOK, Operate, Own, Locked, Idle, InFlight
<1>4. Held(c)' = Held(c)
  BY DEF QueueInv, TypeOK, Own, Operate, Held, InCall, GaveUp, One, Idle, InFlight
<1> QED
  BY <1>1, <1>2, <1>3, <1>4, CallerKeeps DEF Operate

----------------------------------------------------------------------------
(* A future resolves.                                                      *)

LEMMA ReceiveOkKeeps ==
    ASSUME QueueInv, NEW c \in Callers, ReceiveOk(c)
    PROVE  QueueInv'
<1>1. /\ pc[c] = "awaiting" /\ DropClones(1) /\ 1 \in Nat
      /\ UNCHANGED <<lockVars, closer>>
  BY DEF ReceiveOk, Resolved, Returns
<1>2. Held(c) = Held(c)' + 1
  BY DEF QueueInv, TypeOK, Own, ReceiveOk, Resolved, Returns, Held, InCall, GaveUp, One, Idle,
         InFlight
<1>3. Held(c)' \in Nat
  BY DEF Held, One
<1>4. strong' \in Nat /\ closes' \in Nat
  BY <1>1, <1>2, <1>3, HeldCounts, DropType DEF QueueInv, TypeOK
<1>5. TypeOK'
  <2>1. io[c].req \in Requests
    BY DEF QueueInv, Own, ReceiveOk
  <2>2. outcome' \in [Callers -> Outcome]
    BY <2>1, OutcomeType DEF QueueInv, TypeOK, ReceiveOk
  <2> QED
    BY <1>4, <2>1, <2>2, ResultType DEF QueueInv, TypeOK, ReceiveOk, Returns, lockVars
<1>6. Local(c)
  BY DEF QueueInv, TypeOK, ReceiveOk, Returns, Local, lockVars
<1>7. Own(c)' /\ Locked(c)'
  BY DEF QueueInv, TypeOK, ReceiveOk, Resolved, Returns, Own, Locked, lockVars, Idle, InFlight
<1> QED
  BY <1>1, <1>2, <1>5, <1>6, <1>7, CallerDrops

LEMMA RetryKeeps ==
    ASSUME QueueInv, NEW c \in Callers, Retry(c)
    PROVE  QueueInv'
<1>1. /\ pc[c] = "awaiting" /\ DropClones(1) /\ 1 \in Nat
      /\ UNCHANGED <<lockVars, closer>>
  BY DEF Retry, Resolved, Returns
<1>2. Held(c) = Held(c)' + 1
  BY DEF QueueInv, TypeOK, Own, Retry, Resolved, Returns, Held, InCall, GaveUp, One, Idle,
         InFlight
<1>3. Held(c)' \in Nat
  BY DEF Held, One
<1>4. strong' \in Nat /\ closes' \in Nat
  BY <1>1, <1>2, <1>3, HeldCounts, DropType DEF QueueInv, TypeOK
<1>5. TypeOK'
  <2> DEFINE larger == Smaller(capacity[c] * GROWTH_FACTOR, MAX_CAPACITY)
  <2>1. larger \in Nat
    BY GrowType, QueueAssumption DEF QueueInv, TypeOK
  <2>2. capacity' = [capacity EXCEPT ![c] = larger]
    BY DEF QueueInv, TypeOK, Retry
  <2> HIDE DEF larger
  <2>3. capacity' \in [Callers -> Nat]
    BY <2>1, <2>2 DEF QueueInv, TypeOK
  <2>4. retries' \in [Callers -> 0..max_retries]
    BY QueueAssumption DEF QueueInv, TypeOK, Retry
  <2>5. target' \in [Callers -> Requests \cup {Next_}]
    BY DEF QueueInv, TypeOK, Retry, Result
  <2> QED
    BY <1>4, <2>3, <2>4, <2>5, ResultType DEF QueueInv, TypeOK, Retry, Returns, lockVars
<1>6. Local(c)
  BY DEF QueueInv, TypeOK, Retry, Returns, Local, lockVars
<1>7. Own(c)' /\ Locked(c)'
  BY DEF QueueInv, TypeOK, Retry, Resolved, Returns, Own, Locked, lockVars, Idle, InFlight
<1> QED
  BY <1>1, <1>2, <1>5, <1>6, <1>7, CallerDrops

LEMMA RejectKeeps ==
    ASSUME QueueInv, NEW c \in Callers, Reject(c)
    PROVE  QueueInv'
<1>1. /\ pc[c] = "awaiting" /\ DropClones(0) /\ 0 \in Nat
      /\ UNCHANGED <<lockVars, closer>>
  BY DEF Reject, Resolved, Returns
<1>2. Held(c) = Held(c)' + 0
  BY DEF QueueInv, TypeOK, Own, Reject, Resolved, Returns, Held, InCall, GaveUp, One, Idle,
         InFlight
<1>3. Held(c)' \in Nat
  BY DEF Held, One
<1>4. strong' \in Nat /\ closes' \in Nat
  BY <1>1, <1>2, <1>3, HeldCounts, DropType DEF QueueInv, TypeOK
<1>5. TypeOK'
  <2>1. target' \in [Callers -> Requests \cup {Next_}]
    BY DEF QueueInv, TypeOK, Reject, Result
  <2> QED
    BY <1>4, <2>1, ResultType DEF QueueInv, TypeOK, Reject, Returns, lockVars
<1>6. Local(c)
  BY DEF QueueInv, TypeOK, Reject, Returns, Local, lockVars
<1>7. Own(c)' /\ Locked(c)'
  BY DEF QueueInv, TypeOK, Reject, Resolved, Returns, Own, Locked, lockVars, Idle, InFlight
<1> QED
  BY <1>1, <1>2, <1>5, <1>6, <1>7, CallerDrops

LEMMA RejectedKeeps ==
    ASSUME QueueInv, NEW c \in Callers, Rejected(c)
    PROVE  QueueInv'
<1>1. /\ pc[c] = "awaiting" /\ DropClones(2) /\ 2 \in Nat
      /\ UNCHANGED <<lockVars, closer>>
  BY DEF Rejected, Resolved, Returns
<1>2. Held(c) = Held(c)' + 2
  BY DEF QueueInv, TypeOK, Own, Rejected, Resolved, Returns, Held, InCall, GaveUp, One, Idle,
         InFlight
<1>3. Held(c)' \in Nat
  BY DEF Held, One
<1>4. strong' \in Nat /\ closes' \in Nat
  BY <1>1, <1>2, <1>3, HeldCounts, DropType DEF QueueInv, TypeOK
<1>5. TypeOK'
  <2>1. outcome' \in [Callers -> Outcome]
    BY OutcomeType DEF QueueInv, TypeOK, Rejected
  <2> QED
    BY <1>4, <2>1, ResultType DEF QueueInv, TypeOK, Rejected, Returns, lockVars
<1>6. Local(c)
  BY DEF QueueInv, TypeOK, Rejected, Returns, Local, lockVars
<1>7. Own(c)' /\ Locked(c)'
  BY DEF QueueInv, TypeOK, Rejected, Resolved, Returns, Own, Locked, lockVars, Idle, InFlight
<1> QED
  BY <1>1, <1>2, <1>5, <1>6, <1>7, CallerDrops

LEMMA SendOkKeeps ==
    ASSUME QueueInv, NEW c \in Callers, SendOk(c)
    PROVE  QueueInv'
<1>1. /\ pc[c] = "awaiting" /\ DropClones(1) /\ 1 \in Nat
      /\ UNCHANGED <<lockVars, closer>>
  BY DEF SendOk, Resolved, Returns
<1>2. Held(c) = Held(c)' + 1
  BY DEF QueueInv, TypeOK, Own, SendOk, Resolved, Returns, Held, InCall, GaveUp, One, Idle,
         InFlight
<1>3. Held(c)' \in Nat
  BY DEF Held, One
<1>4. strong' \in Nat /\ closes' \in Nat
  BY <1>1, <1>2, <1>3, HeldCounts, DropType DEF QueueInv, TypeOK
<1>5. TypeOK'
  BY <1>4, ResultType DEF QueueInv, TypeOK, SendOk, Returns, Resolved, lockVars
<1>6. Local(c)
  BY DEF QueueInv, TypeOK, SendOk, Returns, Local, lockVars
<1>7. Own(c)' /\ Locked(c)'
  BY DEF QueueInv, TypeOK, SendOk, Resolved, Returns, Own, Locked, lockVars, Idle, InFlight
<1> QED
  BY <1>1, <1>2, <1>5, <1>6, <1>7, CallerDrops

LEMMA FailedKeeps ==
    ASSUME QueueInv, NEW c \in Callers, Failed(c)
    PROVE  QueueInv'
<1>1. /\ pc[c] = "awaiting" /\ DropClones(Clones(c)) /\ Clones(c) \in Nat
      /\ UNCHANGED <<lockVars, closer>>
  BY DEF Failed, Resolved, Returns, Clones
<1>2. Held(c) = Held(c)' + Clones(c)
  BY DEF QueueInv, TypeOK, Own, Failed, Resolved, Returns, Held, InCall, GaveUp, One, Idle,
         InFlight, Fails, Clones
<1>3. Held(c)' \in Nat
  BY DEF Held, One
<1>4. strong' \in Nat /\ closes' \in Nat
  BY <1>1, <1>2, <1>3, HeldCounts, DropType DEF QueueInv, TypeOK
<1>5. TypeOK'
  BY <1>4, ResultType, FailsType DEF QueueInv, TypeOK, Failed, Returns, Resolved, lockVars,
     Fails
<1>6. Local(c)
  BY DEF QueueInv, TypeOK, Failed, Returns, Local, lockVars, Fails
<1>7. Own(c)' /\ Locked(c)'
  BY DEF QueueInv, TypeOK, Failed, Resolved, Returns, Own, Locked, lockVars, Idle, InFlight,
     Fails
<1> QED
  BY <1>1, <1>2, <1>5, <1>6, <1>7, CallerDrops

\* The future is dropped: the operation keeps its clone until its call ends.
LEMMA DropKeeps ==
    ASSUME QueueInv, NEW c \in Callers, Drop(c)
    PROVE  QueueInv'
<1>1. c \notin orphan /\ pc[c] = "awaiting"
  BY DEF QueueInv, Own, Drop
<1>2. CASE io[c] = InFlight
  <2>1. /\ DropClones(Clones(c) - 1) /\ Clones(c) - 1 \in Nat
        /\ UNCHANGED <<lockVars, closer, io, lost>>
    BY <1>2 DEF Drop, Clones
  <2>2. Held(c) = Held(c)' + (Clones(c) - 1) /\ Held(c)' \in Nat
    BY <1>1, <1>2 DEF QueueInv, TypeOK, Drop, Held, Clones, InCall, GaveUp, One
  <2>3. strong' \in Nat /\ closes' \in Nat
    BY <2>1, <2>2, HeldCounts, DropType DEF QueueInv, TypeOK
  <2>4. TypeOK'
    BY <1>2, <2>1, <2>3 DEF QueueInv, TypeOK, Drop, lockVars
  <2>5. Local(c)
    BY <1>2 DEF QueueInv, TypeOK, Drop, Local, lockVars
  <2>6. Own(c)' /\ Locked(c)'
    BY <1>2 DEF QueueInv, TypeOK, Drop, Own, Locked, lockVars, Idle, InFlight
  <2> QED
    BY <2>1, <2>2, <2>4, <2>5, <2>6, CallerDrops
<1>3. CASE io[c] # InFlight
  <2>1. /\ DropClones(Clones(c)) /\ Clones(c) \in Nat
        /\ io' = [io EXCEPT ![c] = Idle]
        /\ UNCHANGED <<lockVars, closer, orphan, cancelled>>
    BY <1>3 DEF Drop, Clones
  <2>2. Held(c) = Held(c)' + Clones(c) /\ Held(c)' \in Nat
    BY <1>1, <2>1 DEF QueueInv, TypeOK, Drop, Held, Clones, InCall, GaveUp, One
  <2>3. strong' \in Nat /\ closes' \in Nat
    BY <2>1, <2>2, HeldCounts, DropType DEF QueueInv, TypeOK
  <2>4. lost' \in SUBSET Requests
    BY <1>3 DEF QueueInv, TypeOK, Own, Drop
  <2>5. TypeOK'
    BY <2>1, <2>3, <2>4, ResultType DEF QueueInv, TypeOK, Drop, lockVars
  <2>6. Local(c)
    BY <2>1 DEF QueueInv, TypeOK, Drop, Local, lockVars
  <2>7. Own(c)' /\ Locked(c)'
    BY <1>1, <2>1 DEF QueueInv, TypeOK, Drop, Own, Locked, lockVars, Idle, InFlight
  <2> QED
    BY <2>1, <2>2, <2>5, <2>6, <2>7, CallerDrops
<1> QED
  BY <1>2, <1>3

----------------------------------------------------------------------------
(* HTTP.sys and close.                                                     *)

LEMMA EndsKeeps ==
    ASSUME QueueInv, NEW c \in Callers, io[c] = InFlight,
           NEW st \in {"ok", "more_data", "failed"}, NEW r \in Requests \cup {Next_},
           Ends(c, st, r),
           st = "more_data" => kind[c] = "receive",
           st \in {"ok", "more_data"} /\ kind[c] = "receive" => r \in Requests,
           UNCHANGED <<lockVars, closer, callVars, cancelled, arrived, handed>>,
           queued' \in SUBSET Requests, rejected' \in SUBSET Requests
    PROVE  QueueInv'
<1>1. CASE c \in orphan
  <2>1. /\ DropClones(1) /\ io' = [io EXCEPT ![c] = Idle] /\ orphan' = orphan \ {c}
        /\ lost' \in SUBSET Requests
    BY <1>1 DEF Ends, QueueInv, TypeOK
  <2>2. Held(c) = Held(c)' + 1 /\ Held(c)' \in Nat
    BY <1>1, <2>1 DEF QueueInv, TypeOK, Held, InCall, GaveUp, One, callVars
  <2>3. strong' \in Nat /\ closes' \in Nat
    BY <2>1, <2>2, HeldCounts, DropType DEF QueueInv, TypeOK
  <2>4. TypeOK'
    BY <2>1, <2>3, ResultType DEF QueueInv, TypeOK, lockVars, callVars
  <2>5. Local(c)
    BY <2>1 DEF QueueInv, TypeOK, Local, lockVars, callVars
  <2>6. Own(c)' /\ Locked(c)'
    BY <1>1, <2>1 DEF QueueInv, TypeOK, Own, Locked, lockVars, callVars, Idle, InFlight
  <2> QED
    BY <2>1, <2>2, <2>4, <2>5, <2>6, CallerDrops
<1>2. CASE c \notin orphan
  <2>1. /\ io' = [io EXCEPT ![c] = [st |-> st, req |-> r]]
        /\ UNCHANGED <<orphan, handleVars, lost>>
    BY <1>2 DEF Ends
  <2>2. TypeOK'
    BY <2>1, ResultType DEF QueueInv, TypeOK, lockVars, callVars, handleVars
  <2>3. Local(c)
    BY <2>1 DEF QueueInv, TypeOK, Local, lockVars, callVars
  <2>4. Own(c)' /\ Locked(c)'
    BY <1>2, <2>1 DEF QueueInv, TypeOK, Own, Locked, lockVars, callVars, Idle, InFlight
  <2>5. Held(c)' = Held(c)
    BY <2>1 DEF Held, InCall, GaveUp, callVars
  <2> QED
    BY <2>1, <2>2, <2>3, <2>4, <2>5, CallerKeeps
<1> QED
  BY <1>1, <1>2

LEMMA HttpSysKeeps ==
    ASSUME QueueInv, NEW c \in Callers, HttpSys(c)
    PROVE  QueueInv'
<1>1. ASSUME NEW r \in Requests, Delivers(c, r) PROVE QueueInv'
  <2>1. \/ Ends(c, "ok", r) /\ queued' = queued \ {r}
        \/ Ends(c, "more_data", r) /\ UNCHANGED queued
    BY <1>1 DEF Delivers
  <2>2. queued' \in SUBSET Requests /\ rejected' \in SUBSET Requests
    BY <1>1, <2>1 DEF QueueInv, TypeOK, Delivers
  <2> QED
    BY <1>1, <2>1, <2>2, EndsKeeps DEF Delivers
<1>2. CASE Discards(c)
  <2>1. queued' \in SUBSET Requests /\ rejected' \in SUBSET Requests /\ target[c] \in Requests
    BY <1>2 DEF QueueInv, TypeOK, Discards
  <2> QED
    BY <1>2, <2>1, EndsKeeps DEF Discards
<1>3. CASE Sends(c)
  <2>1. queued' \in SUBSET Requests /\ rejected' \in SUBSET Requests
        /\ target[c] \in Requests \cup {Next_}
    BY <1>3 DEF QueueInv, TypeOK, Sends
  <2> QED
    BY <1>3, <2>1, EndsKeeps DEF Sends
<1>4. CASE CallFails(c)
  <2>1. queued' \in SUBSET Requests /\ rejected' \in SUBSET Requests
    BY <1>4 DEF QueueInv, TypeOK, CallFails
  <2> QED
    BY <1>4, <2>1, EndsKeeps DEF CallFails
<1> QED
  BY <1>1, <1>2, <1>3, <1>4 DEF HttpSys

\* The references of all callers.
Calls == Cardinality(InCall) + Cardinality(GaveUp) + Cardinality(orphan)

LEMMA CallsType ==
    ASSUME QueueInv
    PROVE  Calls \in Nat /\ Queue \in {0, 1} /\ Count = Queue + Calls
<1>1. InCall \subseteq Callers /\ GaveUp \subseteq Callers /\ orphan \subseteq Callers
  BY DEF InCall, GaveUp, QueueInv, TypeOK
<1>2. IsFiniteSet(InCall) /\ IsFiniteSet(GaveUp) /\ IsFiniteSet(orphan)
  BY <1>1, QueueAssumption, FS_Subset
<1>3. /\ Cardinality(InCall) \in Nat /\ Cardinality(GaveUp) \in Nat
      /\ Cardinality(orphan) \in Nat
  BY <1>2, FS_CardinalityType
<1>4. Queue \in {0, 1}
  BY DEF Queue, One
<1> QED
  BY <1>3, <1>4 DEF Count, Calls

\* They stay when the callers do not move.
LEMMA CountStays ==
    ASSUME QueueInv, UNCHANGED <<pc, kind, orphan>>
    PROVE  Queue' \in {0, 1} /\ Count' = Queue' + Calls
<1>1. Cardinality(InCall') = Cardinality(InCall) /\ Cardinality(GaveUp') = Cardinality(GaveUp)
  BY DEF InCall, GaveUp
<1>2. Queue' \in {0, 1}
  BY DEF Queue, One
<1>3. Count' = Queue' + Cardinality(InCall') + Cardinality(GaveUp') + Cardinality(orphan')
  BY DEF Count
<1>4. Count' = Queue' + Cardinality(InCall) + Cardinality(GaveUp) + Cardinality(orphan)
  BY <1>1, <1>3
<1>5. /\ Cardinality(InCall) \in Nat /\ Cardinality(GaveUp) \in Nat
      /\ Cardinality(orphan) \in Nat
  <2>1. InCall \subseteq Callers /\ GaveUp \subseteq Callers /\ orphan \subseteq Callers
    BY DEF InCall, GaveUp, QueueInv, TypeOK
  <2>2. IsFiniteSet(InCall) /\ IsFiniteSet(GaveUp) /\ IsFiniteSet(orphan)
    BY <2>1, QueueAssumption, FS_Subset
  <2> QED
    BY <2>2, FS_CardinalityType
<1> QED
  BY <1>2, <1>4, <1>5 DEF Calls

LEMMA ArriveKeeps ==
    ASSUME QueueInv, NEW r \in Requests, Arrive(r)
    PROVE  QueueInv'
<1>1. UNCHANGED <<lockVars, handleVars, closer, callVars, ioVars, handed, rejected, lost>>
  BY DEF Arrive
<1>2. TypeOK'
  BY DEF Arrive, QueueInv, TypeOK, lockVars, handleVars, callVars, ioVars
<1>3. Count' = Count
  BY <1>1 DEF Count, Queue, InCall, GaveUp, lockVars, callVars, ioVars
<1>4. \A c \in Callers : Own(c)' /\ Locked(c)'
  BY <1>1 DEF QueueInv, Own, Locked, lockVars, callVars, ioVars
<1> QED
  BY <1>1, <1>2, <1>3, <1>4 DEF QueueInv, lockVars, handleVars

LEMMA CloseKeeps ==
    ASSUME QueueInv, CloseTakes \/ CloseRuns
    PROVE  QueueInv'
<1>1. UNCHANGED <<readers, callVars, io, orphan, httpVars>>
  BY DEF CloseTakes, CloseRuns, CloseCancels, CloseDropsIo, CloseReleases, lockVars, ioVars
<1>2. Queue' \in {0, 1} /\ Count' = Queue' + Calls
  BY <1>1, CountStays DEF callVars
<1>3. Calls \in Nat /\ Queue \in {0, 1} /\ Count = Queue + Calls
  BY CallsType
<1>4. CASE CloseTakes
  <2>1. Queue' = Queue
    BY <1>4 DEF CloseTakes, Queue, One
  <2>2. TypeOK' /\ (open' <=> closer' = "none")
    BY <1>1, <1>4 DEF CloseTakes, QueueInv, TypeOK, handleVars, callVars, ioVars, httpVars
  <2>3. \A c \in Callers : Own(c)' /\ Locked(c)'
    BY <1>1, <1>4 DEF CloseTakes, QueueInv, Own, Locked, callVars, ioVars
  <2>4. strong' = Count' /\ closes' = One(strong' = 0)
    BY <1>2, <1>3, <1>4, <2>1 DEF CloseTakes, QueueInv, handleVars
  <2> QED
    BY <2>2, <2>3, <2>4 DEF QueueInv
<1>5. CASE CloseCancels
  <2>1. Queue' = Queue
    BY <1>5 DEF CloseCancels, Queue, One, lockVars
  <2>2. TypeOK' /\ (open' <=> closer' = "none")
    BY <1>1, <1>5 DEF CloseCancels, QueueInv, TypeOK, lockVars, handleVars, callVars, httpVars
  <2>3. \A c \in Callers : Own(c)' /\ Locked(c)'
    BY <1>1, <1>5 DEF CloseCancels, QueueInv, Own, Locked, lockVars, callVars
  <2>4. strong' = Count' /\ closes' = One(strong' = 0)
    BY <1>2, <1>3, <1>5, <2>1 DEF CloseCancels, QueueInv, handleVars
  <2> QED
    BY <2>2, <2>3, <2>4 DEF QueueInv
<1>6. CASE CloseDropsIo
  <2>1. Queue' = Queue
    BY <1>6 DEF CloseDropsIo, Queue, One, lockVars
  <2>2. TypeOK' /\ (open' <=> closer' = "none")
    BY <1>1, <1>6 DEF CloseDropsIo, QueueInv, TypeOK, lockVars, handleVars, callVars, ioVars,
       httpVars
  <2>3. \A c \in Callers : Own(c)' /\ Locked(c)'
    BY <1>1, <1>6 DEF CloseDropsIo, QueueInv, Own, Locked, lockVars, callVars, ioVars
  <2>4. strong' = Count' /\ closes' = One(strong' = 0)
    BY <1>2, <1>3, <1>6, <2>1 DEF CloseDropsIo, QueueInv, handleVars
  <2> QED
    BY <2>2, <2>3, <2>4 DEF QueueInv
<1>7. CASE CloseReleases
  <2>1. Queue' = 0 /\ Queue = 1
    BY <1>7 DEF CloseReleases, QueueInv, Queue, One, lockVars
  <2>2. strong' = Count' /\ closes' = One(strong' = 0) /\ closes' \in Nat
    BY <1>2, <1>3, <1>7, <2>1 DEF CloseReleases, DropClones, QueueInv, One
  <2> strong' \in Nat
    BY <1>2, <1>3, <2>1, <2>2
  <2>3. TypeOK' /\ (open' <=> closer' = "none")
    BY <1>1, <1>3, <1>7, <2>2
       DEF CloseReleases, QueueInv, TypeOK, lockVars, callVars, ioVars, httpVars
  <2>4. \A c \in Callers : Own(c)' /\ Locked(c)'
    BY <1>1, <1>7 DEF CloseReleases, QueueInv, Own, Locked, lockVars, callVars, ioVars
  <2> QED
    BY <2>2, <2>3, <2>4 DEF QueueInv
<1> QED
  BY <1>4, <1>5, <1>6, <1>7 DEF CloseRuns

----------------------------------------------------------------------------
(* The handle.                                                             *)

LEMMA QueueInvInit == Init => QueueInv
<1> SUFFICES ASSUME Init PROVE QueueInv
  OBVIOUS
<1>1. InCall = {} /\ GaveUp = {} /\ orphan = {}
  BY DEF Init, InCall, GaveUp
<1>2. Cardinality(InCall) = 0 /\ Cardinality(GaveUp) = 0 /\ Cardinality(orphan) = 0
  BY <1>1, FS_EmptySet
<1>3. strong = Count /\ closes = One(strong = 0)
  BY <1>2 DEF Init, Count, Queue, One
<1>4. TypeOK
  <2>1. 0 \in 0..max_retries
    BY QueueAssumption
  <2> QED
    BY <2>1, ResultType, OutcomeType DEF Init, TypeOK
<1>5. \A c \in Callers : Own(c) /\ Locked(c)
  BY DEF Init, Own, Locked, Idle, InFlight
<1> QED
  BY <1>3, <1>4, <1>5 DEF QueueInv, Init

LEMMA QueueInvNext == QueueInv /\ [Next]_vars => QueueInv'
<1> SUFFICES ASSUME QueueInv, [Next]_vars PROVE QueueInv'
  OBVIOUS
<1>1. ASSUME NEW c \in Callers, Receive(c) \/ Send(c) \/ CallerRuns(c) \/ Drop(c) \/ HttpSys(c)
      PROVE  QueueInv'
  BY <1>1, ReceiveKeeps, SendKeeps, WithOpenKeeps, SubmitKeeps, OperateKeeps, ReceiveOkKeeps,
     RetryKeeps, RejectKeeps, RejectedKeeps, SendOkKeeps, FailedKeeps, DropKeeps, HttpSysKeeps
     DEF CallerRuns
<1>2. ASSUME NEW r \in Requests, Arrive(r) PROVE QueueInv'
  BY <1>2, ArriveKeeps
<1>3. CASE UNCHANGED vars
  <2>1. Count' = Count /\ \A c \in Callers : Own(c)' /\ Locked(c)'
    BY <1>3 DEF QueueInv, vars, lockVars, callVars, ioVars, Count, Queue, InCall, GaveUp, Own,
       Locked
  <2>2. TypeOK'
    BY <1>3 DEF QueueInv, TypeOK, vars, lockVars, handleVars, callVars, ioVars, httpVars
  <2> QED
    BY <1>3, <2>1, <2>2 DEF QueueInv, vars, lockVars, handleVars
<1> QED
  BY <1>1, <1>2, <1>3, CloseKeeps DEF Next

LEMMA Kept == Spec => []QueueInv
BY QueueInvInit, QueueInvNext, PTL DEF Spec

LEMMA SafeInside == QueueInv => HandleSafe /\ NoneStranded
<1> SUFFICES ASSUME QueueInv PROVE HandleSafe /\ NoneStranded
  OBVIOUS
<1>1. ClosedOnce
  BY DEF QueueInv, ClosedOnce, Count, Queue, InCall, GaveUp
<1>2. ASSUME closes > 0
      PROVE  /\ closer = "done"
             /\ \A c \in Callers : io[c] = Idle /\ pc[c] \notin {"cloned", "submitting"}
  <2>1. strong = 0
    BY <1>2 DEF QueueInv, One
  <2>2. \A c \in Callers : Held(c) = 0
    BY <2>1, HeldCounts
  <2>3. \A c \in Callers : c \notin InCall /\ c \notin orphan
    BY <2>2 DEF Held, One
  <2>4. Queue = 0
    BY <2>1, CallsType DEF QueueInv
  <2>5. closer = "done"
    BY <2>4 DEF QueueInv, TypeOK, Queue, One
  <2> QED
    BY <2>3, <2>5 DEF QueueInv, Own, InCall
<1>3. NoneStranded
  BY DEF QueueInv, Locked, NoneStranded
<1> QED
  BY <1>1, <1>2, <1>3 DEF HandleSafe, HandleAlive

\* The count of the queue handle is exact and HttpCloseRequestQueue is called
\* once, when no call, no submission and not close itself uses the handle any
\* more (QueueHandle of httpsys/ops/mod.rs).
THEOREM QueueHandleSafe == Spec => []HandleSafe
BY Kept, SafeInside, PTL

\* A receive that races close is cancelled by it or never starts: the read lock
\* is held across the submission (with_open and close of queue.rs).
THEOREM CloseStrandsNone == Spec => []NoneStranded
BY Kept, SafeInside, PTL

----------------------------------------------------------------------------
(* The retry loop: what is called too large is.                            *)

Loops(c) == pc[c] \in {"open", "cloned", "submitting", "awaiting"}

\* A receive in its loop has made as many attempts as it counted, each with the
\* capacity the one before it leads to; reject runs for a request that did not
\* fit in the last of them, and what it discarded is gone.
Tried(c) ==
    /\ kind[c] = "receive" /\ Loops(c) =>
        \E f \in Attempts(retries[c]) : f[retries[c]] = capacity[c]
    /\ io[c].st = "more_data" => Need[io[c].req] > capacity[c]
    /\ kind[c] = "cancel" /\ Loops(c) =>
        /\ Oversized(target[c])
        /\ pc[c] = "awaiting" /\ io[c].st = "ok" => target[c] \in rejected
    /\ outcome[c].tag = "too_large" =>
        /\ Oversized(outcome[c].req)
        /\ outcome[c].discarded => outcome[c].req \in rejected

\* A request that was discarded does not come back.
Gone == queued \cup rejected \subseteq arrived /\ queued \cap rejected = {}

TriedInv == Gone /\ \A c \in Callers : Tried(c)

LEMMA TriedInvInit == Init => TriedInv
BY DEF Init, TriedInv, Tried, Gone, Loops, NoOutcome, Idle

\* The first attempt, and one more.
LEMMA FirstAttempt ==
    \E f \in Attempts(0) : f[0] = Larger(initial_capacity, MIN_CAPACITY)
<1> DEFINE first == Larger(initial_capacity, MIN_CAPACITY)
<1>1. first \in Nat /\ Larger(first, MAX_CAPACITY) \in Nat /\ first <= Larger(first, MAX_CAPACITY)
  BY QueueAssumption DEF Larger
<1>2. PICK f : f = [i \in 0..0 |-> first]
  OBVIOUS
<1>3. f \in [0..0 -> 0..Larger(first, MAX_CAPACITY)] /\ f[0] = first
  BY <1>1, <1>2
<1>4. f \in Attempts(0)
  BY <1>3 DEF Attempts
<1> QED
  BY <1>3, <1>4

LEMMA NextAttempt ==
    ASSUME NEW n \in Nat, NEW f \in Attempts(n)
    PROVE  \E g \in Attempts(n + 1) : g[n + 1] = Smaller(f[n] * GROWTH_FACTOR, MAX_CAPACITY)
<1> DEFINE first == Larger(initial_capacity, MIN_CAPACITY)
<1> DEFINE top == Larger(first, MAX_CAPACITY)
<1> DEFINE more == Smaller(f[n] * GROWTH_FACTOR, MAX_CAPACITY)
<1>1. top \in Nat /\ MAX_CAPACITY <= top /\ first \in Nat /\ MAX_CAPACITY \in Nat
  BY QueueAssumption DEF Larger
<1>2. /\ f \in [0..n -> 0..top] /\ f[0] = first
      /\ \A i \in 1..n : f[i] = Smaller(f[i - 1] * GROWTH_FACTOR, MAX_CAPACITY)
  BY DEF Attempts
<1> HIDE DEF top, first
<1>3. f[n] \in Nat
  BY <1>1, <1>2
<1>4. more \in 0..top
  <2>1. f[n] * GROWTH_FACTOR \in Nat
    BY <1>3, QueueAssumption, GrowType
  <2> QED
    BY <1>1, <2>1 DEF Smaller
<1>5. PICK g : g = [i \in 0..n + 1 |-> IF i = n + 1 THEN more ELSE f[i]]
  OBVIOUS
<1> HIDE DEF more
<1>6. /\ g[n + 1] = more
      /\ \A i \in 0..n : g[i] = f[i]
  BY <1>5
<1>7. g \in [0..n + 1 -> 0..top]
  BY <1>2, <1>4, <1>5
<1>8. g[0] = first
  BY <1>2, <1>6
<1>9. ASSUME NEW i \in 1..n + 1 PROVE g[i] = Smaller(g[i - 1] * GROWTH_FACTOR, MAX_CAPACITY)
  <2>1. CASE i = n + 1
    <3>1. i - 1 = n /\ i - 1 \in 0..n
      BY <2>1
    <3> QED
      BY <1>6, <2>1, <3>1 DEF more
  <2>2. CASE i # n + 1
    <3>1. i \in 1..n /\ i \in 0..n /\ i - 1 \in 0..n
      BY <2>2
    <3> QED
      BY <1>2, <1>6, <3>1
  <2> QED
    BY <2>1, <2>2
<1>10. g \in Attempts(n + 1)
  BY <1>7, <1>8, <1>9 DEF Attempts, top, first
<1> QED
  BY <1>6, <1>10 DEF more

\* Nothing changes for a caller whose calls stay as they are.
LEMMA TriedStays ==
    ASSUME NEW d, Tried(d), rejected \subseteq rejected',
           pc'[d] = pc[d], kind'[d] = kind[d], target'[d] = target[d], capacity'[d] = capacity[d],
           retries'[d] = retries[d], outcome'[d] = outcome[d], io'[d] = io[d]
    PROVE  Tried(d)'
BY DEF Tried, Loops

\* A step of caller c that leaves the requests with HTTP.sys alone.
LEMMA TriedCaller ==
    ASSUME TriedInv, NEW c \in Callers, UNCHANGED <<queued, arrived, rejected>>, Tried(c)',
           \A d \in Callers \ {c} :
               /\ pc'[d] = pc[d] /\ kind'[d] = kind[d] /\ target'[d] = target[d]
               /\ capacity'[d] = capacity[d] /\ retries'[d] = retries[d]
               /\ outcome'[d] = outcome[d] /\ io'[d] = io[d]
    PROVE  TriedInv'
<1>1. Gone'
  BY DEF TriedInv, Gone
<1>2. ASSUME NEW d \in Callers PROVE Tried(d)'
  BY <1>2, TriedStays DEF TriedInv
<1> QED
  BY <1>1, <1>2 DEF TriedInv

\* The call that was to be made could not be, or failed.
LEMMA FailsTried ==
    ASSUME QueueInv, TriedInv, NEW c \in Callers, Fails(c), Loops(c), UNCHANGED rejected,
           io'[c].st # "more_data"
    PROVE  Tried(c)'
<1>1. /\ pc'[c] = "idle" /\ UNCHANGED <<kind, target, capacity, retries>>
      /\ kind[c] \in {"receive", "cancel", "send"}
  BY DEF Fails, QueueInv, TypeOK
<1>2. ~Loops(c)'
  BY <1>1 DEF Loops
<1>3. CASE kind[c] = "receive"
  <2>1. outcome'[c].tag = "failed"
    BY <1>3 DEF Fails, QueueInv, TypeOK, NoOutcome
  <2> QED
    BY <1>1, <1>2, <2>1 DEF Tried
<1>4. CASE kind[c] = "cancel"
  <2>1. outcome'[c].req = target[c] /\ ~outcome'[c].discarded
    BY <1>4 DEF Fails, QueueInv, TypeOK
  <2>2. Oversized(target[c])
    BY <1>4 DEF TriedInv, Tried
  <2> QED
    BY <1>1, <1>2, <2>1, <2>2 DEF Tried
<1>5. CASE kind[c] = "send"
  <2>1. outcome' = outcome
    BY <1>5 DEF Fails
  <2> QED
    BY <1>1, <1>2, <2>1 DEF TriedInv, Tried
<1> QED
  BY <1>1, <1>3, <1>4, <1>5

LEMMA StartsTried ==
    ASSUME QueueInv, TriedInv, NEW c \in Callers,
           Receive(c) \/ Send(c) \/ WithOpen(c) \/ Submit(c) \/ Operate(c)
    PROVE  TriedInv'
<1> USE DEF QueueInv, TypeOK
<1>1. CASE Receive(c)
  <2>1. /\ pc'[c] = "open" /\ kind'[c] = "receive" /\ retries'[c] = 0
        /\ capacity'[c] = Larger(initial_capacity, MIN_CAPACITY)
        /\ outcome'[c].tag = "none" /\ io'[c].st = "none"
        /\ UNCHANGED <<queued, arrived, rejected>>
    BY <1>1 DEF Receive, NoOutcome, Idle, ioVars, httpVars
  <2>2. Tried(c)'
    BY <2>1, FirstAttempt DEF Tried
  <2> QED
    BY <1>1, <2>1, <2>2, TriedCaller DEF Receive, ioVars
<1>2. CASE Send(c)
  <2>1. /\ kind'[c] = "send" /\ UNCHANGED <<queued, arrived, rejected, io, outcome, capacity>>
        /\ pc[c] = "got"
    BY <1>2 DEF Send, ioVars, httpVars
  <2>2. Tried(c)'
    BY <2>1 DEF TriedInv, Tried
  <2> QED
    BY <1>2, <2>1, <2>2, TriedCaller DEF Send
<1>3. CASE WithOpen(c) \/ Submit(c)
  <2>1. /\ UNCHANGED <<queued, arrived, rejected, io>> /\ pc[c] \in {"open", "cloned"}
        /\ UNCHANGED <<kind, target, capacity, retries>>
    BY <1>3 DEF WithOpen, Submit, ioVars, httpVars, Fails
  <2>2. io[c].st # "more_data"
    BY <2>1 DEF Own, Idle
  <2>3. CASE open
    <3>1. pc' \in {[pc EXCEPT ![c] = "cloned"], [pc EXCEPT ![c] = "submitting"]} /\ UNCHANGED outcome
      BY <1>3, <2>3 DEF WithOpen, Submit
    <3>2. Tried(c)'
      BY <2>1, <3>1 DEF TriedInv, Tried, Loops
    <3> QED
      BY <2>1, <3>1, <3>2, TriedCaller
  <2>4. CASE ~open
    <3>1. Fails(c)
      BY <1>3, <2>4 DEF WithOpen, Submit
    <3>2. Tried(c)'
      BY <2>1, <2>2, <3>1, FailsTried DEF Loops
    <3> QED
      BY <2>1, <3>1, <3>2, TriedCaller DEF Fails
  <2> QED
    BY <2>3, <2>4
<1>4. CASE Operate(c)
  <2>1. /\ UNCHANGED <<queued, arrived, rejected, kind, target, capacity, retries, outcome>>
        /\ pc[c] = "submitting" /\ io'[c].st = "inflight"
    BY <1>4 DEF Operate, InFlight, httpVars
  <2>2. Tried(c)'
    BY <1>4, <2>1 DEF Operate, TriedInv, Tried, Loops
  <2> QED
    BY <1>4, <2>1, <2>2, TriedCaller DEF Operate
<1> QED
  BY <1>1, <1>2, <1>3, <1>4

LEMMA ResolvesTried ==
    ASSUME QueueInv, TriedInv, NEW c \in Callers,
           \/ ReceiveOk(c) \/ Retry(c) \/ Reject(c) \/ Rejected(c) \/ SendOk(c) \/ Failed(c)
    PROVE  TriedInv'
<1> USE DEF QueueInv, TypeOK
<1>1. /\ Resolved(c) /\ pc[c] = "awaiting"
      /\ io' = [io EXCEPT ![c] = Idle] /\ UNCHANGED <<queued, arrived, rejected>>
  BY DEF ReceiveOk, Retry, Reject, Rejected, SendOk, Failed, Returns, Resolved
<1>2. io'[c].st = "none"
  BY <1>1 DEF Idle
<1>3. CASE ReceiveOk(c)
  <2>1. pc'[c] = "got" /\ outcome'[c].tag = "ok"
    BY <1>3 DEF ReceiveOk, NoOutcome
  <2>2. Tried(c)'
    BY <1>2, <2>1 DEF Tried, Loops
  <2> QED
    BY <1>1, <1>3, <2>2, TriedCaller DEF ReceiveOk
<1>4. CASE Retry(c)
  <2>1. /\ io[c].st = "more_data" /\ kind[c] = "receive"
        /\ retries[c] \in Nat /\ retries'[c] = retries[c] + 1
        /\ capacity'[c] = Smaller(capacity[c] * GROWTH_FACTOR, MAX_CAPACITY)
        /\ UNCHANGED <<kind, outcome>>
    BY <1>4, QueueAssumption DEF Retry, Own
  <2>2. PICK f \in Attempts(retries[c]) : f[retries[c]] = capacity[c]
    BY <1>1, <2>1 DEF TriedInv, Tried, Loops
  <2>3. \E g \in Attempts(retries[c] + 1) : g[retries[c] + 1] = capacity'[c]
    BY <2>1, <2>2, NextAttempt
  <2>4. Tried(c)'
    BY <1>1, <1>2, <2>1, <2>3 DEF TriedInv, Tried
  <2> QED
    BY <1>1, <1>4, <2>4, TriedCaller DEF Retry
<1>5. CASE Reject(c)
  <2>1. /\ io[c].st = "more_data" /\ kind[c] = "receive" /\ retries[c] = max_retries
        /\ kind'[c] = "cancel" /\ pc'[c] = "open" /\ target'[c] = io[c].req
        /\ UNCHANGED <<outcome, capacity, retries>>
    BY <1>5, QueueAssumption DEF Reject, Own
  <2>2. PICK f \in Attempts(max_retries) : f[max_retries] = capacity[c]
    BY <1>1, <2>1 DEF TriedInv, Tried, Loops
  <2>3. Need[io[c].req] > capacity[c]
    BY <2>1 DEF TriedInv, Tried
  <2>4. Oversized(io[c].req)
    BY <2>2, <2>3 DEF Oversized
  <2>5. Tried(c)'
    BY <1>1, <1>2, <2>1, <2>4 DEF TriedInv, Tried
  <2> QED
    BY <1>1, <1>5, <2>5, TriedCaller DEF Reject
<1>6. CASE Rejected(c)
  <2>1. /\ kind[c] = "cancel" /\ io[c].st = "ok" /\ pc'[c] = "idle"
        /\ outcome'[c].req = target[c]
    BY <1>6 DEF Rejected
  <2>2. Oversized(target[c]) /\ target[c] \in rejected
    BY <1>1, <2>1 DEF TriedInv, Tried, Loops
  <2>3. Tried(c)'
    BY <1>1, <1>2, <2>1, <2>2 DEF Tried, Loops
  <2> QED
    BY <1>1, <1>6, <2>3, TriedCaller DEF Rejected
<1>7. CASE SendOk(c)
  <2>1. pc'[c] = "idle" /\ UNCHANGED outcome
    BY <1>7 DEF SendOk
  <2>2. Tried(c)'
    BY <1>1, <1>2, <2>1 DEF TriedInv, Tried, Loops
  <2> QED
    BY <1>1, <1>7, <2>2, TriedCaller DEF SendOk
<1>8. CASE Failed(c)
  <2>1. Fails(c)
    BY <1>8 DEF Failed
  <2>2. Tried(c)'
    BY <1>1, <1>2, <2>1, FailsTried DEF Loops
  <2> QED
    BY <1>1, <2>1, <2>2, TriedCaller DEF Fails
<1> QED
  BY <1>3, <1>4, <1>5, <1>6, <1>7, <1>8

LEMMA DropTried ==
    ASSUME QueueInv, TriedInv, NEW c \in Callers, Drop(c)
    PROVE  TriedInv'
<1> USE DEF QueueInv, TypeOK
<1>1. /\ UNCHANGED <<kind, target, capacity, retries, outcome, queued, arrived, rejected>>
      /\ pc'[c] = "idle"
      /\ io' = io \/ io' = [io EXCEPT ![c] = Idle]
      /\ io'[c].st \in {"none", "inflight"}
  BY DEF Drop, Idle, InFlight
<1>2. Tried(c)'
  BY <1>1 DEF TriedInv, Tried, Loops
<1> QED
  BY <1>1, <1>2, TriedCaller DEF Drop

\* HTTP.sys: a request that does not fit is said to need more; one that was
\* discarded has left the queue.
LEMMA HttpSysTried ==
    ASSUME QueueInv, TriedInv, NEW c \in Callers, HttpSys(c)
    PROVE  TriedInv'
<1> USE DEF QueueInv, TypeOK
<1>1. UNCHANGED <<callVars, arrived>> /\ io[c] = InFlight
  BY DEF HttpSys, Delivers, Discards, Sends, CallFails
<1>2. UNCHANGED <<pc, kind, target, capacity, retries, outcome>>
  BY <1>1 DEF callVars
<1>3. \A d \in Callers \ {c} : io'[d] = io[d]
  BY DEF HttpSys, Delivers, Discards, Sends, CallFails, Ends
<1>4. ASSUME NEW st, NEW r, Ends(c, st, r)
      PROVE  io'[c] = Idle \/ (io'[c] = [st |-> st, req |-> r])
  BY <1>4 DEF Ends
<1>5. rejected \subseteq rejected' /\ Gone'
  <2>1. CASE \E r \in Requests : Delivers(c, r)
    BY <2>1 DEF Delivers, TriedInv, Gone
  <2>2. CASE Discards(c)
    BY <2>2 DEF Discards, TriedInv, Gone
  <2>3. CASE Sends(c) \/ CallFails(c)
    BY <2>3 DEF Sends, CallFails, TriedInv, Gone
  <2> QED
    BY <2>1, <2>2, <2>3 DEF HttpSys
<1>6. Tried(c)'
  <2>1. ASSUME io'[c].st # "more_data", kind[c] = "cancel" /\ io'[c].st = "ok" => target[c] \in rejected'
        PROVE  Tried(c)'
    BY <1>2, <1>5, <2>1 DEF TriedInv, Tried, Loops
  <2>2. io'[c] = Idle => Tried(c)'
    BY <2>1 DEF Idle
  <2>3. ASSUME NEW r \in Requests, Delivers(c, r) PROVE Tried(c)'
    <3>1. CASE Need[r] <= capacity[c]
      <4>0. Ends(c, "ok", r)
        BY <2>3, <3>1 DEF Delivers
      <4>1. io'[c] = Idle \/ io'[c] = [st |-> "ok", req |-> r]
        BY <1>4, <4>0
      <4> QED
        BY <2>1, <2>2, <2>3, <4>1 DEF Delivers
    <3>2. CASE ~(Need[r] <= capacity[c])
      <4>0. Ends(c, "more_data", r)
        BY <2>3, <3>2 DEF Delivers
      <4>1. io'[c] = Idle \/ io'[c] = [st |-> "more_data", req |-> r]
        BY <1>4, <4>0
      <4>2. Need[r] > capacity[c]
        BY <3>2, QueueAssumption
      <4> QED
        BY <1>2, <1>5, <2>2, <4>1, <4>2 DEF TriedInv, Tried, Loops
    <3> QED
      BY <3>1, <3>2
  <2>4. CASE Discards(c)
    <3>1. Ends(c, "ok", target[c]) /\ target[c] \in rejected'
      BY <2>4 DEF Discards
    <3>2. io'[c] = Idle \/ io'[c] = [st |-> "ok", req |-> target[c]]
      BY <1>4, <3>1
    <3> QED
      BY <2>1, <2>2, <3>1, <3>2
  <2>5. CASE Sends(c) \/ CallFails(c)
    <3>1. (kind[c] = "send" /\ Ends(c, "ok", target[c])) \/ Ends(c, "failed", Next_)
      BY <2>5 DEF Sends, CallFails
    <3>2. CASE kind[c] = "send" /\ Ends(c, "ok", target[c])
      <4>1. io'[c] = Idle \/ io'[c] = [st |-> "ok", req |-> target[c]]
        BY <1>4, <3>2
      <4> QED
        BY <2>1, <2>2, <3>2, <4>1
    <3>3. CASE Ends(c, "failed", Next_)
      <4>1. io'[c] = Idle \/ io'[c] = [st |-> "failed", req |-> Next_]
        BY <1>4, <3>3
      <4> QED
        BY <2>1, <2>2, <4>1
    <3> QED
      BY <3>1, <3>2, <3>3
  <2> QED
    BY <2>3, <2>4, <2>5 DEF HttpSys
<1>7. ASSUME NEW d \in Callers PROVE Tried(d)'
  BY <1>2, <1>3, <1>5, <1>6, TriedStays DEF TriedInv
<1> QED
  BY <1>5, <1>7 DEF TriedInv

LEMMA TriedInvNext == QueueInv /\ TriedInv /\ [Next]_vars => TriedInv'
<1> SUFFICES ASSUME QueueInv, TriedInv, [Next]_vars PROVE TriedInv'
  OBVIOUS
<1>1. ASSUME UNCHANGED callVars, UNCHANGED io, UNCHANGED rejected, Gone' PROVE TriedInv'
  BY <1>1, TriedStays DEF TriedInv, callVars
<1>2. ASSUME NEW c \in Callers, Receive(c) \/ Send(c) \/ CallerRuns(c) \/ Drop(c) \/ HttpSys(c)
      PROVE  TriedInv'
  BY <1>2, StartsTried, ResolvesTried, DropTried, HttpSysTried DEF CallerRuns
<1>3. ASSUME NEW r \in Requests, Arrive(r) PROVE TriedInv'
  BY <1>1, <1>3 DEF Arrive, ioVars, TriedInv, Gone
<1>4. CASE CloseTakes \/ CloseRuns
  BY <1>1, <1>4 DEF CloseTakes, CloseRuns, CloseCancels, CloseDropsIo, CloseReleases, ioVars,
                   httpVars, TriedInv, Gone
<1>5. CASE UNCHANGED vars
  BY <1>1, <1>5 DEF vars, ioVars, httpVars, TriedInv, Gone
<1> QED
  BY <1>2, <1>3, <1>4, <1>5 DEF Next

\* receive says TooLarge only of a request that does not fit in the largest
\* buffer its retries allow, whatever the sizes are, and one it says to have
\* discarded is gone for good (receive_id and reject of queue.rs).
THEOREM TooLargeTrue == Spec => []TooLargeJustified
<1>1. Init => QueueInv /\ TriedInv
  BY QueueInvInit, TriedInvInit
<1>2. QueueInv /\ TriedInv /\ [Next]_vars => QueueInv' /\ TriedInv'
  BY QueueInvNext, TriedInvNext
<1>3. TriedInv => TooLargeJustified
  BY DEF TriedInv, Tried, Gone, TooLargeJustified
<1> QED
  BY <1>1, <1>2, <1>3, PTL DEF Spec

----------------------------------------------------------------------------
(* The requests: RequestQueue implements Delivery.                         *)

Holds(c, r) == c \in Callers /\ kind[c] = "receive" /\ io[c].st = "ok" /\ io[c].req = r

place == [r \in Requests |-> Places(r)]

\* A request is in one place at most.
OnePlace == \A r \in Requests : \A x, y \in Places(r) : x = y

\* What it means to be in a place.
LEMMA InPlaces ==
    ASSUME NEW r, NEW x
    PROVE  /\ x \in Places(r) <=>
                \/ Holds(x, r)
                \/ x = "unseen" /\ r \notin arrived
                \/ x = "queued" /\ r \in queued
                \/ x = "handed" /\ r \in handed
                \/ x = "discarded" /\ r \in rejected
                \/ x = "lost" /\ r \in lost
           /\ x \in Places(r)' <=>
                \/ Holds(x, r)'
                \/ x = "unseen" /\ r \notin arrived'
                \/ x = "queued" /\ r \in queued'
                \/ x = "handed" /\ r \in handed'
                \/ x = "discarded" /\ r \in rejected'
                \/ x = "lost" /\ r \in lost'
BY DEF Places, Holds

\* A step that moves request r and no other.
LEMMA Moved ==
    ASSUME OnePlace, NEW r \in Requests, NEW from, NEW to,
           from \in Places(r), from \notin Places(r)', to \in Places(r)',
           \A x \in Places(r)' : x = to \/ x \in Places(r),
           \A q \in Requests \ {r} : Places(q)' = Places(q)
    PROVE  OnePlace' /\ Del!Moves(r, from, to) /\ place'[r] # place[r]
<1>1. Places(r) = {from} /\ Places(r)' = {to}
  BY DEF OnePlace
<1>2. OnePlace'
  BY <1>1 DEF OnePlace
<1>3. place' = [q \in Requests |-> Places(q)']
  BY DEF place
<1>4. place[r] = {from} /\ place'[r] = {to}
  BY <1>1, <1>3 DEF place
<1>5. place' = [place EXCEPT ![r] = {to}]
  BY <1>1, <1>3 DEF place
<1> QED
  BY <1>2, <1>4, <1>5 DEF Del!Moves, place

\* A step that moves none.
LEMMA Still ==
    ASSUME OnePlace, \A q \in Requests : Places(q)' = Places(q)
    PROVE  OnePlace' /\ UNCHANGED place
BY DEF OnePlace, place

LEMMA StillCalls ==
    ASSUME OnePlace, UNCHANGED httpVars, \A c \in Callers, r \in Requests : Holds(c,
    r)' <=> Holds(c, r)
    PROVE  OnePlace' /\ UNCHANGED place
<1>1. ASSUME NEW q \in Requests PROVE Places(q)' = Places(q)
  <2>1. \A x : Holds(x, q)' <=> Holds(x, q)
    BY DEF Holds
  <2>2. \A x : x \in Places(q)' <=> x \in Places(q)
    BY <2>1, InPlaces DEF httpVars
  <2> QED
    BY <2>2
<1> QED
  BY <1>1, Still

\* Starting a call and giving one up moves no request.
LEMMA CallerStill ==
    ASSUME QueueInv, OnePlace, NEW c \in Callers,
           \/ Receive(c) \/ Send(c) \/ WithOpen(c) \/ Submit(c) \/ Operate(c)
           \/ Retry(c) \/ Reject(c) \/ Rejected(c) \/ SendOk(c) \/ Failed(c)
    PROVE  OnePlace' /\ UNCHANGED place
<1>1. CASE Receive(c) \/ Send(c)
  <2>1. UNCHANGED <<io, httpVars>> /\ io[c] = Idle
    BY <1>1 DEF Receive, Send, ioVars, QueueInv, Own
  <2>2. \A d \in Callers, r \in Requests : Holds(d, r)' <=> Holds(d, r)
    BY <1>1, <2>1 DEF Receive, Send, Holds, Idle, QueueInv, TypeOK
  <2> QED
    BY <2>1, <2>2, StillCalls
<1>2. CASE WithOpen(c) \/ Submit(c)
  <2>1. UNCHANGED <<io, kind, httpVars>>
    BY <1>2 DEF WithOpen, Submit, Fails, ioVars
  <2>2. \A d \in Callers, r \in Requests : Holds(d, r)' <=> Holds(d, r)
    BY <2>1 DEF Holds
  <2> QED
    BY <2>1, <2>2, StillCalls
<1>3. CASE Operate(c)
  <2>1. UNCHANGED <<kind, httpVars>> /\ io[c] = Idle /\ io' = [io EXCEPT ![c] = InFlight]
    BY <1>3 DEF Operate, QueueInv, Own
  <2>2. \A d \in Callers, r \in Requests : Holds(d, r)' <=> Holds(d, r)
    BY <2>1 DEF Holds, Idle, InFlight, QueueInv, TypeOK
  <2> QED
    BY <2>1, <2>2, StillCalls
<1>4. CASE Retry(c) \/ Reject(c) \/ Rejected(c) \/ SendOk(c) \/ Failed(c)
  <2>1. /\ UNCHANGED httpVars /\ io' = [io EXCEPT ![c] = Idle]
        /\ io[c].st # "ok" \/ kind[c] # "receive"
        /\ \A d \in Callers \ {c} : kind'[d] = kind[d]
    BY <1>4 DEF Retry, Reject, Rejected, SendOk, Failed, Fails, Returns, httpVars, QueueInv,
       TypeOK
  <2>2. \A d \in Callers, r \in Requests : Holds(d, r)' <=> Holds(d, r)
    BY <2>1 DEF Holds, Idle, QueueInv, TypeOK
  <2> QED
    BY <2>1, <2>2, StillCalls
<1> QED
  BY <1>1, <1>2, <1>3, <1>4

\* receive returns a request.
LEMMA ReceiveOkMoves ==
    ASSUME QueueInv, OnePlace, NEW c \in Callers, ReceiveOk(c)
    PROVE  OnePlace' /\ Del!Next
<1>0. PICK r : r = io[c].req
  OBVIOUS
<1>1. r \in Requests /\ Holds(c, r)
  BY <1>0 DEF ReceiveOk, QueueInv, Own, Holds
<1>2. /\ UNCHANGED <<kind, queued, arrived, rejected, lost>>
      /\ handed' = handed \cup {r} /\ io' = [io EXCEPT ![c] = Idle]
  BY <1>0 DEF ReceiveOk, Returns
<1>3. \A d, q : Holds(d, q)' <=> Holds(d, q) /\ d # c
  BY <1>2 DEF Holds, Idle, QueueInv, TypeOK
<1>4. \A q : Holds(c, q) => q = r
  BY <1>0 DEF Holds
<1>5. c \in Places(r) /\ c \notin Places(r)' /\ "handed" \in Places(r)'
  BY <1>1, <1>2, <1>3, InPlaces, QueueAssumption
<1>6. \A x \in Places(r)' : x = "handed" \/ x \in Places(r)
  BY <1>2, <1>3, InPlaces
<1>7. \A q \in Requests \ {r} : Places(q)' = Places(q)
  <2> TAKE q \in Requests \ {r}
  <2>1. \A x : x \in Places(q)' <=> x \in Places(q)
    BY <1>2, <1>3, <1>4, InPlaces
  <2> QED
    BY <2>1
<1>8. OnePlace' /\ Del!Moves(r, c, "handed") /\ place'[r] # place[r]
  BY <1>1, <1>5, <1>6, <1>7, Moved
<1> QED
  BY <1>1, <1>8 DEF Del!Next, Del!Hand, place

\* A future is dropped, with the request that is in its buffer.
LEMMA DropMoves ==
    ASSUME QueueInv, OnePlace, NEW c \in Callers, Drop(c)
    PROVE  OnePlace' /\ [Del!Next]_place
<1>1. CASE kind[c] = "receive" /\ io[c].st = "ok"
  <2>0. PICK r : r = io[c].req
    OBVIOUS
  <2>1. r \in Requests /\ Holds(c, r) /\ io[c] # InFlight
    BY <1>1, <2>0 DEF QueueInv, Own, Holds, InFlight
  <2>2. /\ UNCHANGED <<kind, queued, arrived, rejected, handed>>
        /\ lost' = lost \cup {r} /\ io' = [io EXCEPT ![c] = Idle]
    BY <1>1, <2>0, <2>1 DEF Drop
  <2>3. \A d, q : Holds(d, q)' <=> Holds(d, q) /\ d # c
    BY <2>2 DEF Holds, Idle, QueueInv, TypeOK
  <2>4. \A q : Holds(c, q) => q = r
    BY <2>0 DEF Holds
  <2>5. c \in Places(r) /\ c \notin Places(r)' /\ "lost" \in Places(r)'
    BY <2>1, <2>2, <2>3, InPlaces, QueueAssumption
  <2>6. \A x \in Places(r)' : x = "lost" \/ x \in Places(r)
    BY <2>2, <2>3, InPlaces
  <2>7. \A q \in Requests \ {r} : Places(q)' = Places(q)
    <3> TAKE q \in Requests \ {r}
    <3>1. \A x : x \in Places(q)' <=> x \in Places(q)
      BY <2>2, <2>3, <2>4, InPlaces
    <3> QED
      BY <3>1
  <2>8. OnePlace' /\ Del!Moves(r, c, "lost") /\ place'[r] # place[r]
    BY <2>1, <2>5, <2>6, <2>7, Moved
  <2> QED
    BY <2>1, <2>8 DEF Del!Next, Del!Lose, place
<1>2. CASE ~(kind[c] = "receive" /\ io[c].st = "ok")
  <2>1. UNCHANGED <<kind, httpVars>> /\ (io' = io \/ io' = [io EXCEPT ![c] = Idle])
    BY <1>2 DEF Drop, httpVars
  <2>2. \A d \in Callers, r \in Requests : Holds(d, r)' <=> Holds(d, r)
    BY <1>2, <2>1 DEF Holds, Idle, QueueInv, TypeOK
  <2> QED
    BY <2>1, <2>2, StillCalls
<1> QED
  BY <1>1, <1>2

LEMMA ArriveMoves ==
    ASSUME QueueInv, OnePlace, NEW r \in Requests, Arrive(r)
    PROVE  OnePlace' /\ Del!Next
<1>1. /\ UNCHANGED <<kind, io, handed, rejected, lost>>
      /\ r \notin arrived /\ arrived' = arrived \cup {r} /\ queued' = queued \cup {r}
  BY DEF Arrive, callVars, ioVars
<1>2. \A d, q : Holds(d, q)' <=> Holds(d, q)
  BY <1>1 DEF Holds
<1>3. "unseen" \in Places(r) /\ "queued" \in Places(r)'
  BY <1>1, InPlaces
<1>4. "unseen" \notin Places(r)'
  BY <1>1, InPlaces, QueueAssumption DEF Holds
<1>5. \A x \in Places(r)' : x = "queued" \/ x \in Places(r)
  BY <1>1, <1>2, InPlaces
<1>6. \A q \in Requests \ {r} : Places(q)' = Places(q)
  <2> TAKE q \in Requests \ {r}
  <2>1. \A x : x \in Places(q)' <=> x \in Places(q)
    BY <1>1, <1>2, InPlaces
  <2> QED
    BY <2>1
<1>7. OnePlace' /\ Del!Moves(r, "unseen", "queued") /\ place'[r] # place[r]
  BY <1>3, <1>4, <1>5, <1>6, Moved
<1> QED
  BY <1>7 DEF Del!Next, Del!Arrive, place

\* HttpReceiveHttpRequest gives a request that fits to the call of c, or to the
\* buffer of an operation whose future is gone.
LEMMA DeliversMoves ==
    ASSUME QueueInv, OnePlace, NEW c \in Callers, NEW r \in Requests, Delivers(c, r)
    PROVE  OnePlace' /\ [Del!Next]_place
<1>1. /\ UNCHANGED <<kind, arrived, handed, rejected>> /\ kind[c] = "receive"
      /\ io[c] = InFlight /\ r \in queued
  BY DEF Delivers, callVars
<1>2. ASSUME NEW q PROVE ~Holds(c, q)
  BY <1>1 DEF Holds, InFlight
<1>3. "queued" \in Places(r)
  BY <1>1, InPlaces
<1>4. CASE Need[r] <= capacity[c]
  <2>1. Ends(c, "ok", r) /\ queued' = queued \ {r}
    BY <1>4 DEF Delivers
  <2>2. "queued" \notin Places(r)'
    BY <2>1, InPlaces, QueueAssumption DEF Holds
  <2>3. CASE c \in orphan
    <3>1. io' = [io EXCEPT ![c] = Idle] /\ lost' = lost \cup {r}
      BY <1>1, <2>1, <2>3 DEF Ends
    <3>2. \A d, q : Holds(d, q)' <=> Holds(d, q)
      BY <1>1, <1>2, <3>1 DEF Holds, Idle, QueueInv, TypeOK
    <3>3. "lost" \in Places(r)'
      BY <3>1, InPlaces
    <3>4. \A x \in Places(r)' : x = "lost" \/ x \in Places(r)
      BY <1>1, <2>1, <3>1, <3>2, InPlaces
    <3>5. \A q \in Requests \ {r} : Places(q)' = Places(q)
      <4> TAKE q \in Requests \ {r}
      <4>1. \A x : x \in Places(q)' <=> x \in Places(q)
        BY <1>1, <2>1, <3>1, <3>2, InPlaces
      <4> QED
        BY <4>1
    <3>6. OnePlace' /\ Del!Moves(r, "queued", "lost") /\ place'[r] # place[r]
      BY <1>3, <2>2, <3>3, <3>4, <3>5, Moved
    <3> QED
      BY <3>6 DEF Del!Next, Del!Lose, place
  <2>4. CASE c \notin orphan
    <3>1. io' = [io EXCEPT ![c] = [st |-> "ok", req |-> r]] /\ lost' = lost
      BY <2>1, <2>4 DEF Ends
    <3>2. \A d, q : Holds(d, q)' <=> Holds(d, q) \/ (d = c /\ q = r)
      BY <1>1, <1>2, <3>1 DEF Holds, QueueInv, TypeOK
    <3>3. c \in Places(r)'
      BY <3>2, InPlaces
    <3>4. \A x \in Places(r)' : x = c \/ x \in Places(r)
      BY <1>1, <2>1, <3>1, <3>2, InPlaces
    <3>5. \A q \in Requests \ {r} : Places(q)' = Places(q)
      <4> TAKE q \in Requests \ {r}
      <4>1. \A x : x \in Places(q)' <=> x \in Places(q)
        BY <1>1, <2>1, <3>1, <3>2, InPlaces
      <4> QED
        BY <4>1
    <3>6. OnePlace' /\ Del!Moves(r, "queued", c) /\ place'[r] # place[r]
      BY <1>3, <2>2, <3>3, <3>4, <3>5, Moved
    <3> QED
      BY <3>6 DEF Del!Next, Del!Hold, place
  <2> QED
    BY <2>3, <2>4
<1>5. CASE ~(Need[r] <= capacity[c])
  <2>1. Ends(c, "more_data", r) /\ UNCHANGED queued
    BY <1>5 DEF Delivers
  <2>2. \/ io' = [io EXCEPT ![c] = Idle]
        \/ io' = [io EXCEPT ![c] = [st |-> "more_data", req |-> r]]
    BY <2>1 DEF Ends
  <2>3. UNCHANGED httpVars
    BY <1>1, <2>1 DEF Ends, httpVars
  <2>4. \A d \in Callers, q \in Requests : Holds(d, q)' <=> Holds(d, q)
    BY <1>1, <1>2, <2>2 DEF Holds, Idle, QueueInv, TypeOK
  <2> QED
    BY <2>3, <2>4, StillCalls
<1> QED
  BY <1>4, <1>5

\* HttpCancelHttpRequest discards one.
LEMMA DiscardsMoves ==
    ASSUME QueueInv, OnePlace, NEW c \in Callers, Discards(c)
    PROVE  OnePlace' /\ Del!Next
<1>0. PICK r : r = target[c]
  OBVIOUS
<1>1. /\ UNCHANGED <<kind, arrived, handed, lost>> /\ kind[c] = "cancel"
      /\ io[c] = InFlight /\ r \in queued /\ r \in Requests
      /\ queued' = queued \ {r} /\ rejected' = rejected \cup {r}
  BY <1>0 DEF Discards, Ends, callVars, QueueInv, TypeOK
<1>2. \/ io' = [io EXCEPT ![c] = Idle]
      \/ io' = [io EXCEPT ![c] = [st |-> "ok", req |-> r]]
  BY <1>0 DEF Discards, Ends
<1>3. \A d, q : Holds(d, q)' <=> Holds(d, q)
  BY <1>1, <1>2 DEF Holds, QueueInv, TypeOK
<1>4. "queued" \in Places(r) /\ "discarded" \in Places(r)'
  BY <1>1, InPlaces
<1>5. "queued" \notin Places(r)'
  BY <1>1, InPlaces, QueueAssumption DEF Holds
<1>6. \A x \in Places(r)' : x = "discarded" \/ x \in Places(r)
  BY <1>1, <1>3, InPlaces
<1>7. \A q \in Requests \ {r} : Places(q)' = Places(q)
  <2> TAKE q \in Requests \ {r}
  <2>1. \A x : x \in Places(q)' <=> x \in Places(q)
    BY <1>1, <1>3, InPlaces
  <2> QED
    BY <2>1
<1>8. OnePlace' /\ Del!Moves(r, "queued", "discarded") /\ place'[r] # place[r]
  BY <1>1, <1>4, <1>5, <1>6, <1>7, Moved
<1> QED
  BY <1>1, <1>8 DEF Del!Next, Del!Discard, place

LEMMA EndsStill ==
    ASSUME QueueInv, OnePlace, NEW c \in Callers, Sends(c) \/ CallFails(c)
    PROVE  OnePlace' /\ UNCHANGED place
<1>1. /\ UNCHANGED <<kind, httpVars>>
      /\ io[c] = InFlight /\ \A d \in Callers \ {c} : io'[d] = io[d]
      /\ io'[c].st # "ok" \/ kind[c] # "receive"
  BY DEF Sends, CallFails, Ends, callVars, httpVars, Idle, QueueInv, TypeOK
<1>2. \A d \in Callers, q \in Requests : Holds(d, q)' <=> Holds(d, q)
  BY <1>1 DEF Holds, InFlight, QueueInv, TypeOK
<1> QED
  BY <1>1, <1>2, StillCalls

LEMMA CloseStill ==
    ASSUME OnePlace, CloseTakes \/ CloseRuns
    PROVE  OnePlace' /\ UNCHANGED place
<1>1. UNCHANGED <<kind, io, httpVars>>
  BY DEF CloseTakes, CloseRuns, CloseCancels, CloseDropsIo, CloseReleases, callVars, ioVars
<1>2. \A d \in Callers, q \in Requests : Holds(d, q)' <=> Holds(d, q)
  BY <1>1 DEF Holds
<1> QED
  BY <1>1, <1>2, StillCalls

LEMMA DeliveryInit == Init => OnePlace /\ Del!Init
<1> SUFFICES ASSUME Init PROVE OnePlace /\ Del!Init
  OBVIOUS
<1>1. ASSUME NEW r \in Requests PROVE Places(r) = {"unseen"}
  <2>1. \A x : x \in Places(r) <=> x = "unseen"
    BY InPlaces DEF Init, Holds, Idle
  <2> QED
    BY <2>1
<1> QED
  BY <1>1 DEF OnePlace, Del!Init

LEMMA DeliveryNext == QueueInv /\ OnePlace /\ [Next]_vars => OnePlace' /\ [Del!Next]_place
<1> SUFFICES ASSUME QueueInv, OnePlace, [Next]_vars PROVE OnePlace' /\ [Del!Next]_place
  OBVIOUS
<1>1. ASSUME NEW c \in Callers, Receive(c) \/ Send(c) \/ CallerRuns(c)
      PROVE  OnePlace' /\ [Del!Next]_place
  BY <1>1, CallerStill, ReceiveOkMoves DEF CallerRuns
<1>2. ASSUME NEW c \in Callers, HttpSys(c)
      PROVE  OnePlace' /\ [Del!Next]_place
  BY <1>2, DeliversMoves, DiscardsMoves, EndsStill DEF HttpSys
<1>3. CASE UNCHANGED vars
  <2>1. \A d \in Callers, q \in Requests : Holds(d, q)' <=> Holds(d, q)
    BY <1>3 DEF Holds, vars, callVars, ioVars
  <2> QED
    BY <1>3, <2>1, StillCalls DEF vars
<1> QED
  BY <1>1, <1>2, <1>3, DropMoves, ArriveMoves, CloseStill DEF Next

\* "Each resolves to a distinct request": whatever the retries, rejections,
\* dropped futures and close do, a request goes from the kernel to one receive
\* or is discarded, and is never in two places (receive_id and reject of
\* queue.rs).
THEOREM QueueDelivers == Spec => DeliversOnce
<1>1. QueueInv /\ OnePlace /\ [Next]_vars =>
        /\ OnePlace'
        /\ [Del!Next]_[r \in Requests |-> Places(r)]
  BY DeliveryNext DEF place
<1> QED
  BY <1>1, Kept, DeliveryInit, PTL DEF Spec, DeliversOnce, Del!Spec
=============================================================================
