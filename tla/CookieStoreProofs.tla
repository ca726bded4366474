-------------------------- MODULE CookieStoreProofs --------------------------
(***************************************************************************)
(* Theorems about CookieStore for every set of calls, writers, bags, keys  *)
(* and values: it implements the atomic accumulator, and while goroutines  *)
(* call it on one response no update is lost, no flash of the request's    *)
(* cookie disappears, and no flash is taken twice.                         *)
(***************************************************************************)
EXTENDS CookieStore, TLAPS

-----------------------------------------------------------------------------
(* The operations on payloads.                                             *)

(* A Store call's critical section maps payloads to payloads.              *)
LEMMA AfterType ==
  ASSUME NEW p \in Payload, NEW q \in Requests
  PROVE  After(p, q) \in Payload
<1>1. CASE q \in FlashErrorsReq
  BY <1>1 DEF After, Payload, Errors, Messages, FlashErrorsReq
<1>2. CASE q \in TakeErrorsReq
  BY <1>2 DEF After, Payload, Errors, Messages, TakeErrorsReq
<1>3. CASE q \in FlashMessageReq
  BY <1>3 DEF After, Payload, Errors, Messages, FlashMessageReq
<1>4. CASE q \in TakeMessagesReq
  BY <1>4 DEF After, Payload, Errors, Messages, TakeMessagesReq, NoMessages
<1> QED
  BY <1>1, <1>2, <1>3, <1>4 DEF Requests

(* What a Store call returns is a result.                                  *)
LEMMA ResultType ==
  ASSUME NEW p \in Payload, NEW q \in Requests
  PROVE  Result(p, q) \in Results
<1>1. CASE q \in FlashErrorsReq
  BY <1>1 DEF Result, Results, FlashErrorsReq
<1>2. CASE q \in TakeErrorsReq
  BY <1>2 DEF Result, Results, Payload, Errors, TakeErrorsReq
<1>3. CASE q \in FlashMessageReq
  BY <1>3 DEF Result, Results, FlashMessageReq
<1>4. CASE q \in TakeMessagesReq
  BY <1>4 DEF Result, Results, Payload, TakeMessagesReq
<1> QED
  BY <1>1, <1>2, <1>3, <1>4 DEF Requests

LEMMA EmptyType == EmptyPayload \in Payload
BY DEF EmptyPayload, NoErrors, NoMessages, Payload, Errors, Messages

-----------------------------------------------------------------------------
(* The inductive invariant.  A published object belongs to its writer and  *)
(* its allocating call is past LoadOrStore, so no call ever builds a seed  *)
(* in an object that is in use.                                            *)

Published(w, r) ==
  r # NoRef => WriterOf[r] = w /\ stage[r] \in {"Lock", "returned"}

ObjectsInv ==
  /\ \A w \in Writers : Published(w, pending[w]) /\ Published(w, flushRef[w])
  /\ \A c \in Calls : Published(WriterOf[c], ref[c])

StagesInv ==
  /\ \A w \in Writers :
       /\ flush[w] = "open" => flushRef[w] = NoRef
       /\ flush[w] = "draining" => flushRef[w] # NoRef
  /\ \A c \in Calls :
       /\ stage[c] \in {"idle", "Load", "LoadOrStore"} => ref[c] = NoRef
       /\ stage[c] = "Lock" => ref[c] # NoRef
       /\ stage[c] = "idle" <=> call[c] = NoCall
       /\ stage[c] = "returned" <=> ret[c] # NoResult

SeedsInv ==
  \A c \in Calls : stage[c] = "LoadOrStore" =>
    heap[c] = [payload |-> cookie[WriterOf[c]], dirty |-> FALSE]

JoinsInv ==
  \A w \in Writers : joins[w] /\ flush[w] # "open" =>
    Settled(w) /\ pending[w] = NoRef

IInv ==
  TypeOK /\ ObjectsInv /\ StagesInv /\ SeedsInv /\ JoinsInv /\ OnePayload

Assumptions ==
  /\ WriterOf \in [Calls -> Writers]
  /\ Seeds \subseteq Payload
  /\ NoRef \notin Calls
  /\ NoCall \notin Requests
  /\ NoResult \notin Results

LEMMA AssumptionsHold == Assumptions
BY WriterOfAssumption, SeedsAssumption, SentinelAssumption DEF Assumptions

LEMMA InitIInv == Init => IInv
<1> SUFFICES ASSUME Init PROVE IInv
  OBVIOUS
<1> USE AssumptionsHold DEF Assumptions, Init
<1>1. TypeOK
  BY EmptyType DEF TypeOK, Objects
<1>2. ObjectsInv /\ StagesInv /\ SeedsInv /\ JoinsInv /\ OnePayload
  BY DEF ObjectsInv, Published, StagesInv, SeedsInv, JoinsInv, OnePayload
<1> QED
  BY <1>1, <1>2 DEF IInv

(* Invoke: the call has no object yet, so only its own stage changes.      *)
LEMMA InvokeStep ==
  ASSUME IInv, NEW c \in Calls, NEW q \in Requests, Invoke(c, q)
  PROVE  IInv'
<1> USE AssumptionsHold DEF Assumptions, IInv, TypeOK, request, flushVars, Invoke
<1>1. TypeOK'
  <2>1. [ok |-> TRUE] \in Results
    BY DEF Results
  <2> QED
    BY <2>1
<1>2. ObjectsInv'
  BY DEF ObjectsInv, Published, StagesInv
<1>3. StagesInv'
  <2>1. [ok |-> TRUE] \in Results
    BY DEF Results
  <2>2. [ok |-> TRUE] # NoResult
    BY <2>1
  <2> QED
    BY <2>2 DEF StagesInv
<1>4. SeedsInv' /\ OnePayload'
  BY DEF SeedsInv, OnePayload
<1>5. JoinsInv'
  BY DEF JoinsInv, Settled, CallsOf
<1> QED
  BY <1>1, <1>2, <1>3, <1>4, <1>5

LEMMA LoadHitStep ==
  ASSUME IInv, NEW c \in Calls, LoadHit(c)
  PROVE  IInv'
<1> USE AssumptionsHold DEF Assumptions, IInv, TypeOK, request, flushVars, LoadHit
<1>1. TypeOK'
  OBVIOUS
<1>2. ObjectsInv'
  <2>1. \A w \in Writers, r \in Calls : Published(w, r) => Published(w, r)'
    BY DEF Published
  <2>2. Published(WriterOf[c], pending[WriterOf[c]])
    BY DEF ObjectsInv
  <2>3. ref'[c] = pending[WriterOf[c]] /\ ref'[c] \in Calls
    OBVIOUS
  <2>4. \A d \in Calls : Published(WriterOf[d], ref'[d])
    BY <2>2, <2>3 DEF ObjectsInv
  <2>5. \A d \in Calls : Published(WriterOf[d], ref[d])'
    BY <2>4 DEF Published
  <2>6. \A w \in Writers : Published(w, pending[w])' /\ Published(w, flushRef[w])'
    BY DEF ObjectsInv, Published
  <2> QED
    BY <2>5, <2>6 DEF ObjectsInv
<1>3. StagesInv'
  BY DEF StagesInv
<1>4. SeedsInv' /\ OnePayload'
  BY DEF SeedsInv, OnePayload
<1>5. JoinsInv'
  BY DEF JoinsInv, Settled, CallsOf
<1> QED
  BY <1>1, <1>2, <1>3, <1>4, <1>5

(* LoadMiss: the new object is one that nobody references.                 *)
LEMMA LoadMissStep ==
  ASSUME IInv, NEW c \in Calls, LoadMiss(c)
  PROVE  IInv'
<1> USE AssumptionsHold DEF Assumptions, IInv, TypeOK, request, flushVars, LoadMiss
<1>1. TypeOK'
  BY DEF Objects
<1>2. ObjectsInv'
  <2>1. \A w \in Writers, r \in Calls : Published(w, r) => Published(w, r)'
    BY DEF Published
  <2>2. \A w \in Writers : Published(w, NoRef)'
    BY DEF Published
  <2> QED
    BY <2>1, <2>2 DEF ObjectsInv
<1>3. StagesInv'
  BY DEF StagesInv
<1>4. SeedsInv' /\ OnePayload'
  BY DEF SeedsInv, OnePayload
<1>5. JoinsInv'
  BY DEF JoinsInv, Settled, CallsOf
<1> QED
  BY <1>1, <1>2, <1>3, <1>4, <1>5

(* LoadOrStore: whoever stores first publishes; everybody adopts it.       *)
LEMMA LoadOrStoreStep ==
  ASSUME IInv, NEW c \in Calls, LoadOrStore(c)
  PROVE  IInv'
<1> USE AssumptionsHold DEF Assumptions, IInv, TypeOK, request, flushVars, LoadOrStore
<1>1. TypeOK'
  OBVIOUS
<1>2. ObjectsInv'
  <2> DEFINE w == WriterOf[c]
             actual == IF pending[w] = NoRef THEN c ELSE pending[w]
  <2>1. /\ actual \in Calls
        /\ WriterOf[actual] = w
        /\ stage'[actual] \in {"Lock", "returned"}
    <3>1. stage' = [stage EXCEPT ![c] = "Lock"] /\ w \in Writers
      OBVIOUS
    <3>2. CASE pending[w] = NoRef
      BY <3>1, <3>2
    <3>3. CASE pending[w] # NoRef
      <4>1. Published(w, pending[w]) /\ pending[w] \in Calls
        BY <3>1, <3>3 DEF ObjectsInv
      <4> QED
        BY <3>1, <3>3, <4>1 DEF Published
    <3> QED
      BY <3>2, <3>3
  <2>2. \A d \in Calls : stage[d] \in {"Lock", "returned"} =>
                         stage'[d] \in {"Lock", "returned"}
    OBVIOUS
  <2>3. /\ pending' = [pending EXCEPT ![w] = actual]
        /\ ref' = [ref EXCEPT ![c] = actual]
    OBVIOUS
  <2> HIDE DEF actual, LoadOrStore
  <2>4. \A v \in Writers : Published(v, pending[v])'
    BY <2>1, <2>2, <2>3 DEF ObjectsInv, Published
  <2>5. \A v \in Writers : Published(v, flushRef[v])'
    <3>1. flushRef' = flushRef
      BY DEF LoadOrStore
    <3> QED
      BY <2>2, <3>1 DEF ObjectsInv, Published
  <2>6. \A d \in Calls : Published(WriterOf[d], ref[d])'
    BY <2>1, <2>2, <2>3 DEF ObjectsInv, Published
  <2> QED
    BY <2>4, <2>5, <2>6 DEF ObjectsInv
<1>3. StagesInv'
  BY DEF StagesInv
<1>4. SeedsInv'
  BY DEF SeedsInv
<1>5. OnePayload'
  BY DEF OnePayload
<1>6. JoinsInv'
  BY DEF JoinsInv, Settled, CallsOf
<1> QED
  BY <1>1, <1>2, <1>3, <1>4, <1>5, <1>6

LEMMA MutateStep ==
  ASSUME IInv, NEW c \in Calls, Mutate(c)
  PROVE  IInv'
<1> USE AssumptionsHold DEF Assumptions, IInv, TypeOK, request, flushVars
<1>1. ref[c] \in Calls /\ call[c] \in Requests
  BY DEF Mutate, StagesInv
<1> DEFINE p == heap[ref[c]].payload
           new == [payload |-> After(p, call[c]),
                   dirty |-> heap[ref[c]].dirty \/ Dirties(p, call[c])]
<1>2. new \in Objects /\ Result(p, call[c]) \in Results
  <2>1. p \in Payload
    BY <1>1 DEF Objects
  <2>2. After(p, call[c]) \in Payload /\ Result(p, call[c]) \in Results
    BY <1>1, <2>1, AfterType, ResultType
  <2> QED
    BY <2>2 DEF Objects
<1>3. /\ stage[c] = "Lock"
      /\ heap' = [heap EXCEPT ![ref[c]] = new]
      /\ ret' = [ret EXCEPT ![c] = Result(p, call[c])]
      /\ stage' = [stage EXCEPT ![c] = "returned"]
      /\ UNCHANGED <<cookie, joins, pending, call, ref, flush, flushRef, header>>
  BY DEF Mutate
<1> HIDE DEF p, new
<1>4. TypeOK'
  BY <1>1, <1>2, <1>3
<1>5. ObjectsInv'
  BY <1>3 DEF ObjectsInv, Published
<1>6. StagesInv'
  BY <1>2, <1>3 DEF StagesInv
<1>7. SeedsInv'
  <2> SUFFICES ASSUME NEW d \in Calls, stage'[d] = "LoadOrStore"
               PROVE  heap'[d] = [payload |-> cookie[WriterOf[d]], dirty |-> FALSE]
    BY <1>3 DEF SeedsInv
  <2>1. stage[d] = "LoadOrStore"
    BY <1>3
  <2>2. stage[ref[c]] \in {"Lock", "returned"}
    BY <1>1 DEF ObjectsInv, Published
  <2>3. heap'[d] = heap[d]
    BY <1>1, <1>3, <2>1, <2>2
  <2> QED
    BY <2>1, <2>3 DEF SeedsInv
<1>8. JoinsInv' /\ OnePayload'
  BY <1>3 DEF JoinsInv, Settled, CallsOf, OnePayload
<1> QED
  BY <1>4, <1>5, <1>6, <1>7, <1>8

LEMMA LoadAndDeleteStep ==
  ASSUME IInv, NEW w \in Writers, LoadAndDelete(w)
  PROVE  IInv'
<1> USE AssumptionsHold DEF Assumptions, IInv, TypeOK, request, callVars, LoadAndDelete
<1>1. TypeOK'
  OBVIOUS
<1>2. ObjectsInv'
  BY DEF ObjectsInv, Published
<1>3. StagesInv'
  BY DEF StagesInv
<1>4. SeedsInv' /\ OnePayload'
  BY DEF SeedsInv, OnePayload
<1>5. JoinsInv'
  BY DEF JoinsInv, Settled, CallsOf
<1> QED
  BY <1>1, <1>2, <1>3, <1>4, <1>5

LEMMA DrainStep ==
  ASSUME IInv, NEW w \in Writers, Drain(w)
  PROVE  IInv'
<1> USE AssumptionsHold DEF Assumptions, IInv, TypeOK, request, callVars, Drain
<1>1. TypeOK'
  <2>1. flushRef[w] \in Calls
    BY DEF StagesInv
  <2>2. heap[flushRef[w]].payload \in Payload
    BY <2>1 DEF Objects
  <2> QED
    BY <2>2
<1>2. ObjectsInv'
  BY DEF ObjectsInv, Published
<1>3. StagesInv'
  BY DEF StagesInv
<1>4. SeedsInv' /\ OnePayload'
  BY DEF SeedsInv, OnePayload
<1>5. JoinsInv'
  BY DEF JoinsInv, Settled, CallsOf
<1> QED
  BY <1>1, <1>2, <1>3, <1>4, <1>5

LEMMA StutterStep == IInv /\ UNCHANGED vars => IInv'
BY DEF IInv, TypeOK, ObjectsInv, Published, StagesInv, SeedsInv, JoinsInv,
       Settled, CallsOf, OnePayload, vars

LEMMA NextIInv == IInv /\ [Next]_vars => IInv'
BY InvokeStep, LoadHitStep, LoadMissStep, LoadOrStoreStep, MutateStep,
   LoadAndDeleteStep, DrainStep, StutterStep DEF Next

(* The inductive invariant holds in every reachable state.                 *)
THEOREM Invariant == Spec => []IInv
BY InitIInv, NextIInv, PTL DEF Spec

(* Every variable stays within its type, whatever the interleaving.        *)
THEOREM TypeCorrect == Spec => []TypeOK
<1>1. IInv => TypeOK
  BY DEF IInv
<1> QED
  BY <1>1, Invariant, PTL

(* All calls that got an object before the flush share the one the flush   *)
(* will send: ensurePending's Load and LoadOrStore never split a response. *)
THEOREM SharedPayload == Spec => []OnePayload
<1>1. IInv => OnePayload
  BY DEF IInv
<1> QED
  BY <1>1, Invariant, PTL

(* Handlers that join their goroutines leave nothing behind in `pending`.  *)
THEOREM NoLeak == Spec => []NoEntryAfterFlush
<1>1. IInv => NoEntryAfterFlush
  BY DEF IInv, JoinsInv, NoEntryAfterFlush
<1> QED
  BY <1>1, Invariant, PTL

-----------------------------------------------------------------------------
(* The refinement.  A step that leaves a writer's accumulator alone.       *)

SameAccumulator(w) ==
  AccOf(w)' = AccOf(w) /\ DirtyOf(w)' = DirtyOf(w)

LEMMA InitRefines == Init => Accumulator!Init
<1> SUFFICES ASSUME Init PROVE Accumulator!Init
  OBVIOUS
<1>1. \A w \in Writers : AccOf(w) = cookie[w] /\ DirtyOf(w) = FALSE
  BY DEF Init, AccOf, DirtyOf, Cell
<1>2. [w \in Writers |-> AccOf(w)] = cookie
  BY <1>1 DEF Init
<1>3. [w \in Writers |-> DirtyOf(w)] = [w \in Writers |-> FALSE]
  BY <1>1
<1> QED
  BY <1>2, <1>3 DEF Init, Accumulator!Init

LEMMA InvokeRefines ==
  ASSUME IInv, NEW c \in Calls, NEW q \in Requests, Invoke(c, q)
  PROVE  Accumulator!Invoke(c, q)
<1>1. \A w \in Writers : SameAccumulator(w)
  BY DEF Invoke, SameAccumulator, AccOf, DirtyOf, Cell, request, flushVars
<1>2. /\ call[c] = NoCall
      /\ call' = [call EXCEPT ![c] = q]
      /\ ret' = IF IsNoop(q) THEN [ret EXCEPT ![c] = [ok |-> TRUE]] ELSE ret
      /\ UNCHANGED <<cookie, flush, header>>
  BY DEF Invoke, request, flushVars, IInv, StagesInv
<1> QED
  BY <1>1, <1>2 DEF Accumulator!Invoke, SameAccumulator, Accumulator!IsNoop, IsNoop

(* ensurePending is invisible: it only finds or builds the payload that    *)
(* the accumulator stands for.                                             *)
LEMMA EnsurePendingRefines ==
  ASSUME IInv, NEW c \in Calls, LoadHit(c) \/ LoadMiss(c) \/ LoadOrStore(c)
  PROVE  UNCHANGED Accumulator!vars
<1>1. UNCHANGED <<cookie, call, ret, flush, flushRef, header>>
  BY DEF LoadHit, LoadMiss, LoadOrStore, request, flushVars
<1>2. \A w \in Writers : SameAccumulator(w)
  <2> TAKE w \in Writers
  <2>1. CASE LoadHit(c)
    BY <2>1 DEF LoadHit, SameAccumulator, AccOf, DirtyOf, Cell, request, flushVars
  <2>2. CASE LoadMiss(c)
    <3>1. Cell(w) # NoRef => Cell(w) # c
      BY <2>2 DEF LoadMiss, Cell, IInv, ObjectsInv, Published
    <3>2. Cell(w) \in Calls \cup {NoRef}
      BY DEF Cell, IInv, TypeOK
    <3>3. Cell(w) # NoRef => heap'[Cell(w)] = heap[Cell(w)]
      BY <2>2, <3>1, <3>2 DEF LoadMiss, IInv, TypeOK
    <3>4. Cell(w)' = Cell(w)
      BY <2>2 DEF LoadMiss, Cell, request, flushVars
    <3> QED
      BY <1>1, <3>3, <3>4 DEF SameAccumulator, AccOf, DirtyOf
  <2>3. CASE LoadOrStore(c)
    <3>1. heap' = heap
      BY <2>3 DEF LoadOrStore
    <3>2. CASE w = WriterOf[c] /\ flush[w] = "open" /\ pending[w] = NoRef
      <4>1. heap[c] = [payload |-> cookie[w], dirty |-> FALSE] /\ pending'[w] = c
        BY <2>3, <3>2 DEF LoadOrStore, IInv, SeedsInv, TypeOK
      <4>2. c # NoRef
        BY AssumptionsHold DEF Assumptions
      <4> QED
        BY <1>1, <3>1, <3>2, <4>1, <4>2 DEF SameAccumulator, AccOf, DirtyOf, Cell
    <3>3. CASE ~(w = WriterOf[c] /\ flush[w] = "open" /\ pending[w] = NoRef)
      <4>1. flush[w] = "open" => pending'[w] = pending[w]
        BY <2>3, <3>3 DEF LoadOrStore, IInv, TypeOK
      <4> QED
        BY <1>1, <3>1, <4>1 DEF SameAccumulator, AccOf, DirtyOf, Cell
    <3> QED
      BY <3>2, <3>3
  <2> QED
    BY <2>1, <2>2, <2>3
<1> QED
  BY <1>1, <1>2 DEF Accumulator!vars, SameAccumulator

(* A critical section on the accumulator's object is the call's effect; on *)
(* any other object the response has been closed and the call misses it.   *)
LEMMA MutateRefines ==
  ASSUME IInv, NEW c \in Calls, Mutate(c)
  PROVE  Accumulator!Apply(c) \/ Accumulator!Miss(c)
<1> DEFINE w == WriterOf[c]
           p == heap[ref[c]].payload
           new == [payload |-> After(p, call[c]),
                   dirty |-> heap[ref[c]].dirty \/ Dirties(p, call[c])]
<1>1. /\ w \in Writers
      /\ ref[c] \in Calls
      /\ call[c] \in Requests
      /\ ref[c] # NoRef
      /\ call[c] # NoCall
      /\ ret[c] = NoResult
  BY AssumptionsHold DEF Assumptions, IInv, TypeOK, StagesInv, Mutate
<1>2. /\ heap' = [heap EXCEPT ![ref[c]] = new]
      /\ ret' = [ret EXCEPT ![c] = Result(p, call[c])]
      /\ UNCHANGED <<cookie, pending, call, flush, flushRef, header>>
  BY DEF Mutate, request, flushVars
<1>3. \A v \in Writers : Cell(v)' = Cell(v)
  BY <1>2 DEF Cell
<1>4. heap \in [Calls -> Objects] /\ p \in Payload
  BY <1>1 DEF IInv, TypeOK, Objects
<1>5. \A v \in Writers : v # w => SameAccumulator(v)
  <2> TAKE v \in Writers
  <2> HAVE v # w
  <2>1. Cell(v) # NoRef => Cell(v) \in Calls /\ WriterOf[Cell(v)] = v
    BY DEF Cell, IInv, TypeOK, ObjectsInv, Published
  <2>2. WriterOf[ref[c]] = w
    BY <1>1 DEF IInv, ObjectsInv, Published
  <2>3. Cell(v) # NoRef => heap'[Cell(v)] = heap[Cell(v)]
    BY <1>1, <1>2, <1>4, <2>1, <2>2
  <2> QED
    BY <1>2, <1>3, <2>3 DEF SameAccumulator, AccOf, DirtyOf
<1> HIDE DEF new
<1>6. CASE ref[c] = Cell(w) /\ flush[w] # "done"
  <2>1. AccOf(w) = p /\ DirtyOf(w) = heap[ref[c]].dirty
    BY <1>1, <1>4, <1>6 DEF AccOf, DirtyOf, Objects
  <2>2. heap'[ref[c]] = new
    BY <1>1, <1>2, <1>4
  <2>3. AccOf(w)' = new.payload /\ DirtyOf(w)' = new.dirty
    <3>1. /\ flush'[w] # "done" /\ Cell(w)' = ref[c] /\ heap'[Cell(w)'] = new
      BY <1>1, <1>2, <1>3, <1>6, <2>2
    <3>2. new.dirty \in BOOLEAN
      BY <1>1, <1>4 DEF new, Objects
    <3>3. AccOf(w)' = heap'[Cell(w)'].payload
      BY <1>1, <3>1 DEF AccOf
    <3>4. DirtyOf(w)' = heap'[Cell(w)'].dirty
      BY <1>1, <3>1, <3>2 DEF DirtyOf
    <3> QED
      BY <3>1, <3>3, <3>4
  <2>4. /\ AccOf(w)' = After(AccOf(w), call[c])
        /\ DirtyOf(w)' = (DirtyOf(w) \/ Dirties(AccOf(w), call[c]))
        /\ ret' = [ret EXCEPT ![c] = Result(AccOf(w), call[c])]
    BY <1>2, <2>1, <2>3 DEF new
  <2> QED
    BY <1>1, <1>2, <1>5, <1>6, <2>4
       DEF Accumulator!Apply, SameAccumulator,
           Accumulator!After, After, Accumulator!Dirties, Dirties,
           Accumulator!Result, Result, Accumulator!NoMessages, NoMessages
<1>7. CASE ~(ref[c] = Cell(w) /\ flush[w] # "done")
  <2>1. flush[w] # "open"
    BY <1>1, <1>7 DEF IInv, OnePayload, Cell
  <2>2. SameAccumulator(w)
    <3>1. flush[w] # "done" /\ Cell(w) # NoRef => heap'[Cell(w)] = heap[Cell(w)]
      BY <1>1, <1>2, <1>4, <1>7 DEF Cell, IInv, TypeOK
    <3> QED
      BY <1>1, <1>2, <1>3, <3>1 DEF SameAccumulator, AccOf, DirtyOf
  <2>3. Result(p, call[c]) \in Results
    BY <1>1, <1>4, ResultType
  <2>4. \E res \in Results : ret' = [ret EXCEPT ![c] = res]
    BY <1>2, <2>3
  <2>5. \A v \in Writers : SameAccumulator(v)
    BY <1>5, <2>2
  <2> QED
    BY <1>1, <1>2, <2>1, <2>4, <2>5
       DEF Accumulator!Miss, SameAccumulator, Accumulator!Results, Results,
           Accumulator!Messages, Messages
<1> QED
  BY <1>6, <1>7

(* LoadAndDelete closes the response, or seals one that nobody touched.    *)
LEMMA LoadAndDeleteRefines ==
  ASSUME IInv, NEW w \in Writers, LoadAndDelete(w)
  PROVE  Accumulator!Close(w) \/ Accumulator!Seal(w)
<1>1. /\ flush[w] = "open"
      /\ UNCHANGED <<cookie, heap, call, ret, header>>
      /\ flush' = [flush EXCEPT ![w] = IF pending[w] = NoRef THEN "done" ELSE "draining"]
      /\ flushRef' = [flushRef EXCEPT ![w] = pending[w]]
      /\ pending' = [pending EXCEPT ![w] = NoRef]
  BY DEF LoadAndDelete, request, callVars
<1>2. \A v \in Writers : v # w => SameAccumulator(v)
  BY <1>1 DEF SameAccumulator, AccOf, DirtyOf, Cell, IInv, TypeOK
<1>3. CASE pending[w] = NoRef
  <2>1. AccOf(w)' = EmptyPayload /\ DirtyOf(w)' = FALSE /\ DirtyOf(w) = FALSE
    BY <1>1, <1>3 DEF AccOf, DirtyOf, Cell, IInv, TypeOK
  <2> QED
    BY <1>1, <1>2, <1>3, <2>1
       DEF Accumulator!Seal, SameAccumulator, Accumulator!EmptyPayload, EmptyPayload,
           Accumulator!NoErrors, NoErrors, Accumulator!NoMessages, NoMessages
<1>4. CASE pending[w] # NoRef
  <2>1. SameAccumulator(w)
    BY <1>1, <1>4 DEF SameAccumulator, AccOf, DirtyOf, Cell, IInv, TypeOK
  <2> QED
    BY <1>1, <1>2, <1>4, <2>1 DEF Accumulator!Close, SameAccumulator
<1> QED
  BY <1>3, <1>4

(* Drain seals the response with what the evicted object holds.            *)
LEMMA DrainRefines ==
  ASSUME IInv, NEW w \in Writers, Drain(w)
  PROVE  Accumulator!Seal(w)
<1>1. /\ flush[w] = "draining"
      /\ flush' = [flush EXCEPT ![w] = "done"]
      /\ UNCHANGED <<cookie, pending, heap, call, ret, flushRef>>
      /\ header' = IF heap[flushRef[w]].dirty /\ heap[flushRef[w]].payload \notin Oversize
                     THEN [header EXCEPT ![w] = heap[flushRef[w]].payload] ELSE header
  BY DEF Drain, Fits, request, callVars
<1>2. \A v \in Writers : v # w => SameAccumulator(v)
  BY <1>1 DEF SameAccumulator, AccOf, DirtyOf, Cell, IInv, TypeOK
<1>3. flushRef[w] \in Calls /\ flushRef[w] # NoRef
  BY <1>1 DEF IInv, TypeOK, StagesInv
<1>4. AccOf(w) = heap[flushRef[w]].payload /\ DirtyOf(w) = heap[flushRef[w]].dirty
  BY <1>1, <1>3 DEF AccOf, DirtyOf, Cell, IInv, TypeOK, Objects
<1>5. AccOf(w)' = EmptyPayload /\ DirtyOf(w)' = FALSE
  BY <1>1 DEF AccOf, DirtyOf, IInv, TypeOK
<1> QED
  BY <1>1, <1>2, <1>4, <1>5
     DEF Accumulator!Seal, SameAccumulator, Accumulator!EmptyPayload, EmptyPayload,
         Accumulator!NoErrors, NoErrors, Accumulator!NoMessages, NoMessages

LEMMA StepRefines == IInv /\ [Next]_vars => [Accumulator!Next]_(Accumulator!vars)
<1> SUFFICES ASSUME IInv, [Next]_vars
             PROVE  Accumulator!Next \/ UNCHANGED Accumulator!vars
  OBVIOUS
<1>1. ASSUME NEW c \in Calls, NEW q \in Requests, Invoke(c, q)
      PROVE  Accumulator!Next
  <2>1. Requests = Accumulator!Requests
    BY DEF Requests, Accumulator!Requests, FlashErrorsReq, TakeErrorsReq,
           FlashMessageReq, TakeMessagesReq, Accumulator!FlashErrorsReq,
           Accumulator!TakeErrorsReq, Accumulator!FlashMessageReq,
           Accumulator!TakeMessagesReq
  <2> QED
    BY <1>1, <2>1, InvokeRefines DEF Accumulator!Next
<1>2. ASSUME NEW c \in Calls, LoadHit(c) \/ LoadMiss(c) \/ LoadOrStore(c)
      PROVE  UNCHANGED Accumulator!vars
  BY <1>2, EnsurePendingRefines
<1>3. ASSUME NEW c \in Calls, Mutate(c)
      PROVE  Accumulator!Next
  BY <1>3, MutateRefines DEF Accumulator!Next
<1>4. ASSUME NEW w \in Writers, LoadAndDelete(w) \/ Drain(w)
      PROVE  Accumulator!Next
  BY <1>4, LoadAndDeleteRefines, DrainRefines DEF Accumulator!Next
<1>5. CASE UNCHANGED vars
  BY <1>5 DEF vars, Accumulator!vars, AccOf, DirtyOf, Cell
<1> QED
  BY <1>1, <1>2, <1>3, <1>4, <1>5 DEF Next

(* Every behaviour of CookieStore is a behaviour of the atomic             *)
(* accumulator: calls that return before the flush are serialised on one   *)
(* payload and the Set-Cookie carries exactly that payload.                *)
THEOREM Refinement == Spec => ImplementsAccumulator
BY InitRefines, StepRefines, Invariant, PTL
   DEF Spec, ImplementsAccumulator, Accumulator!Spec


-----------------------------------------------------------------------------
(* The effect of a call, bag by bag and key by key.                        *)

TouchesBag(q, b) == q.kind \in {"FlashErrors", "TakeErrors"} /\ q.bag = b
TouchesKey(q, k) == (q.kind = "FlashMessage" /\ q.key = k) \/ q.kind = "TakeMessages"

\* q, if it is a take, finds nothing in p.
Finds(p, q) == \/ q.kind = "TakeErrors" /\ p.errors[q.bag] # Absent
               \/ q.kind = "TakeMessages" /\ p.messages # NoMessages

IsTake(q) == q.kind \in {"TakeErrors", "TakeMessages"}

LEMMA AfterEffect ==
  ASSUME NEW p \in Payload, NEW q \in Requests
  PROVE  LET n == After(p, q) IN
         /\ \A b \in Bags : ~TouchesBag(q, b) => n.errors[b] = p.errors[b]
         /\ \A k \in Keys : ~TouchesKey(q, k) => n.messages[k] = p.messages[k]
         /\ IsFlash(q) => Holds(n, q) /\ Dirties(p, q)
         /\ ~Finds(n, q)
         /\ \A r \in Requests : ~IsFlash(q) /\ ~Finds(p, r) => ~Finds(n, r)
<1> USE DEF IsFlash, TouchesBag, TouchesKey, Finds, Holds, Dirties
<1>1. CASE q \in FlashErrorsReq
  BY <1>1 DEF After, Payload, Errors, Messages, FlashErrorsReq
<1>2. CASE q \in TakeErrorsReq
  <2>1. After(p, q) = [p EXCEPT !.errors[q.bag] = Absent] /\ q.bag \in Bags
    BY <1>2 DEF After, TakeErrorsReq
  <2>2. \A r \in Requests : r.kind = "TakeErrors" => r.bag \in Bags
    BY DEF Requests, FlashErrorsReq, TakeErrorsReq, FlashMessageReq, TakeMessagesReq
  <2> QED  BY <1>2, <2>1, <2>2 DEF Payload, Errors, Messages, TakeErrorsReq
<1>3. CASE q \in FlashMessageReq
  BY <1>3 DEF After, Payload, Errors, Messages, FlashMessageReq
<1>4. CASE q \in TakeMessagesReq
  <2>1. After(p, q) = [p EXCEPT !.messages = NoMessages]
    BY <1>4 DEF After, TakeMessagesReq
  <2> QED  BY <1>4, <2>1 DEF Payload, Errors, Messages, NoMessages, TakeMessagesReq
<1> QED  BY <1>1, <1>2, <1>3, <1>4 DEF Requests

\* Competes is about what a call touches.
LEMMA CompetesTouches ==
  /\ \A c \in Calls, b \in Bags :
       TouchesBag(call[c], b) => Competes(c, [kind |-> "FlashErrors", bag |-> b])
  /\ \A c \in Calls, k \in Keys :
       TouchesKey(call[c], k) => Competes(c, [kind |-> "FlashMessage", key |-> k])
  /\ \A c \in Calls, q \in FlashErrorsReq : TouchesBag(call[c], q.bag) => Competes(c, q)
  /\ \A c \in Calls, q \in FlashMessageReq : TouchesKey(call[c], q.key) => Competes(c, q)
BY DEF Competes, TouchesBag, TouchesKey, FlashErrorsReq, FlashMessageReq

-----------------------------------------------------------------------------
(* The inductive invariant, for each response.                             *)

\* The object that the flush of w would send.
Current(w) == heap[pending[w]]

\* What no returned call has touched is as in the request's cookie.
SeedOf(w) ==
  pending[w] # NoRef =>
    /\ \A b \in Bags :
         (\A c \in Returned(w) : ~Competes(c, [kind |-> "FlashErrors", bag |-> b]))
           => Current(w).payload.errors[b] = cookie[w].errors[b]
    /\ \A k \in Keys :
         (\A c \in Returned(w) : ~Competes(c, [kind |-> "FlashMessage", key |-> k]))
           => Current(w).payload.messages[k] = cookie[w].messages[k]

\* A returned flash with which no other returned call competes is there.
FlashedOf(w) ==
  \A c \in Returned(w) :
    IsFlash(call[c]) /\ (\A d \in Returned(w) \ {c} : ~Competes(d, call[c])) =>
      /\ Current(w).dirty
      /\ Holds(Current(w).payload, call[c])

\* As long as nobody flashes, what was taken stays empty, and the same was
\* taken only once.
TakenOf(w) ==
  (\A c \in Returned(w) : ~IsFlash(call[c])) =>
    /\ \A c \in Returned(w) : ~Finds(Current(w).payload, call[c])
    /\ \A c, d \in Returned(w) : c # d /\ call[c] = call[d] /\ IsTake(call[c]) =>
         \/ ret[c] \in {[errors |-> Absent], [messages |-> NoMessages]}
         \/ ret[d] \in {[errors |-> Absent], [messages |-> NoMessages]}

ContentOf(w) == flush[w] = "open" => SeedOf(w) /\ FlashedOf(w) /\ TakenOf(w)

ContentInv == \A w \in Writers : ContentOf(w)

LEMMA QuietContent ==
  ASSUME IInv, NEW w \in Writers, ContentOf(w), Returned(w)' = Returned(w),
         flush'[w] = "open" => flush[w] = "open" /\ pending'[w] = pending[w],
         pending[w] # NoRef => heap'[pending[w]] = heap[pending[w]],
         \A c \in Returned(w) : call'[c] = call[c] /\ ret'[c] = ret[c],
         cookie' = cookie
  PROVE  ContentOf(w)'
<1> SUFFICES ASSUME flush'[w] = "open" PROVE (SeedOf(w) /\ FlashedOf(w) /\ TakenOf(w))'
  BY DEF ContentOf
<1>1. SeedOf(w) /\ FlashedOf(w) /\ TakenOf(w) /\ pending'[w] = pending[w]
  BY DEF ContentOf
<1>2. \A c \in Returned(w) : pending[w] # NoRef
  BY DEF IInv, OnePayload, Returned, CallsOf
<1>3. \A c \in Returned(w) : \A q : Competes(c, q)' <=> Competes(c, q)
  BY DEF Competes
<1>4. SeedOf(w)'
  BY <1>1, <1>3 DEF SeedOf, Current
<1>5. FlashedOf(w)'
  BY <1>1, <1>2, <1>3 DEF FlashedOf, Current
<1>6. TakenOf(w)'
  BY <1>1, <1>2 DEF TakenOf, Current
<1> QED  BY <1>4, <1>5, <1>6

LEMMA MutateContent ==
  ASSUME IInv, ContentInv, NEW c \in Calls, Mutate(c), NEW w \in Writers
  PROVE  ContentOf(w)'
<1> USE AssumptionsHold DEF Assumptions
<1> DEFINE o == ref[c]
           p == heap[o].payload
           q == call[c]
           new == [payload |-> After(p, q), dirty |-> heap[o].dirty \/ Dirties(p, q)]
<1>1. /\ o \in Calls /\ q \in Requests /\ WriterOf[o] = WriterOf[c] /\ o # NoRef
      /\ heap \in [Calls -> Objects] /\ pending \in [Writers -> Calls \cup {NoRef}]
      /\ ret \in [Calls -> Results \cup {NoResult}]
      /\ stage[c] = "Lock"
  BY DEF Mutate, IInv, StagesInv, ObjectsInv, Published, TypeOK
<1>2. p \in Payload
  BY <1>1 DEF Objects
<1>3. /\ heap' = [heap EXCEPT ![o] = new]
      /\ ret' = [ret EXCEPT ![c] = Result(p, q)]
      /\ UNCHANGED <<cookie, pending, call, ref, flush>>
      /\ stage' = [stage EXCEPT ![c] = "returned"]
  BY DEF Mutate, request, flushVars
<1>4. \A d \in Calls \ {c} : stage'[d] = stage[d]
  BY <1>3 DEF IInv, TypeOK
<1>5. stage'[c] = "returned"
  BY <1>3 DEF IInv, TypeOK
<1>6. CASE w # WriterOf[c]
  <2>1. Returned(w)' = Returned(w) /\ \A d \in Returned(w) : d # c
    BY <1>3, <1>4, <1>6 DEF Returned, CallsOf
  <2>2. pending[w] # NoRef => pending[w] # o
    BY <1>1, <1>6 DEF IInv, ObjectsInv, Published
  <2>3. pending[w] # NoRef => heap'[pending[w]] = heap[pending[w]]
    BY <1>1, <1>3, <2>2
  <2>4. \A d \in Returned(w) : d \in Calls
    BY DEF Returned, CallsOf
  <2> QED  BY <1>1, <1>3, <2>1, <2>3, <2>4, QuietContent DEF ContentInv
<1>7. CASE w = WriterOf[c]
  <2> SUFFICES ASSUME flush[w] = "open" PROVE (SeedOf(w) /\ FlashedOf(w) /\ TakenOf(w))'
    BY <1>3 DEF ContentOf
  <2>1. pending[w] = o /\ pending'[w] = o
    BY <1>1, <1>3, <1>7 DEF IInv, OnePayload
  <2>2. /\ Returned(w)' = Returned(w) \cup {c} /\ c \notin Returned(w)
        /\ Returned(w) \subseteq Calls
    BY <1>1, <1>3, <1>4, <1>5, <1>7 DEF Returned, CallsOf
  <2>3. SeedOf(w) /\ FlashedOf(w) /\ TakenOf(w)
    BY DEF ContentInv, ContentOf
  <2>4. /\ Current(w) = heap[o] /\ Current(w)' = new
        /\ new.payload = After(p, q) /\ heap[o].payload = p
        /\ heap[o].dirty => new.dirty
        /\ Dirties(p, q) => new.dirty
    BY <1>1, <1>3, <2>1 DEF Current
  <2>5. /\ \A b \in Bags : ~TouchesBag(q, b) => After(p, q).errors[b] = p.errors[b]
        /\ \A k \in Keys : ~TouchesKey(q, k) => After(p, q).messages[k] = p.messages[k]
        /\ IsFlash(q) => Holds(After(p, q), q) /\ Dirties(p, q)
        /\ ~Finds(After(p, q), q)
        /\ \A r \in Requests : ~IsFlash(q) /\ ~Finds(p, r) => ~Finds(After(p, q), r)
    BY <1>1, <1>2, AfterEffect
  <2>6. \A d \in Calls : \A r : Competes(d, r)' <=> Competes(d, r)
    BY <1>3 DEF Competes
  <2>7. \A d \in Calls \ {c} : ret'[d] = ret[d]
    BY <1>1, <1>3
  <2>8. ret'[c] = Result(p, q)
    BY <1>1, <1>3
  <2>9. \A d \in Returned(w) : call[d] \in Requests
    BY <2>2 DEF Returned, IInv, StagesInv, TypeOK
  <2> HIDE DEF o, p, q, new
  <2>10. SeedOf(w)'
    <3>1. ASSUME NEW b \in Bags,
                 \A d \in Returned(w)' : ~Competes(d, [kind |-> "FlashErrors", bag |-> b])'
          PROVE  After(p, q).errors[b] = cookie[w].errors[b]
      <4>1. ~TouchesBag(q, b)
        BY <2>2, <2>6, <3>1, CompetesTouches DEF q
      <4>2. p.errors[b] = cookie[w].errors[b]
        BY <1>1, <2>1, <2>2, <2>3, <2>4, <2>6, <3>1 DEF SeedOf
      <4> QED  BY <2>5, <4>1, <4>2
    <3>2. ASSUME NEW k \in Keys,
                 \A d \in Returned(w)' : ~Competes(d, [kind |-> "FlashMessage", key |-> k])'
          PROVE  After(p, q).messages[k] = cookie[w].messages[k]
      <4>1. ~TouchesKey(q, k)
        BY <2>2, <2>6, <3>2, CompetesTouches DEF q
      <4>2. p.messages[k] = cookie[w].messages[k]
        BY <1>1, <2>1, <2>2, <2>3, <2>4, <2>6, <3>2 DEF SeedOf
      <4> QED  BY <2>5, <4>1, <4>2
    <3> QED  BY <1>3, <2>4, <3>1, <3>2 DEF SeedOf
  <2>11. FlashedOf(w)'
    <3> SUFFICES ASSUME NEW d \in Returned(w)', IsFlash(call[d]),
                        \A e \in Returned(w)' \ {d} : ~Competes(e, call[d])
                 PROVE  new.dirty /\ Holds(After(p, q), call[d])
      BY <1>3, <2>2, <2>4, <2>6 DEF FlashedOf
    <3>1. CASE d = c
      BY <2>4, <2>5, <3>1 DEF q
    <3>2. CASE d # c
      <4>1. d \in Returned(w) /\ ~Competes(c, call[d])
        BY <2>2, <3>2
      <4>2. heap[o].dirty /\ Holds(p, call[d])
        BY <2>2, <2>3, <2>4, <4>1 DEF FlashedOf
      <4>3. call[d] \in FlashErrorsReq \/ call[d] \in FlashMessageReq
        BY <2>9, <4>1 DEF IsFlash, Requests, TakeErrorsReq, TakeMessagesReq
      <4>4. CASE call[d] \in FlashErrorsReq
        <5>1. ~TouchesBag(q, call[d].bag) /\ call[d].bag \in Bags
          BY <4>1, <4>4, CompetesTouches DEF q, FlashErrorsReq
        <5> QED  BY <2>4, <2>5, <4>2, <4>4, <5>1 DEF Holds, FlashErrorsReq
      <4>5. CASE call[d] \in FlashMessageReq
        <5>1. ~TouchesKey(q, call[d].key) /\ call[d].key \in Keys
          BY <4>1, <4>5, CompetesTouches DEF q, FlashMessageReq
        <5> QED  BY <2>4, <2>5, <4>2, <4>5, <5>1 DEF Holds, FlashMessageReq
      <4> QED  BY <4>3, <4>4, <4>5
    <3> QED  BY <3>1, <3>2
  <2>12. TakenOf(w)'
    <3> SUFFICES ASSUME \A d \in Returned(w)' : ~IsFlash(call[d])
                 PROVE  /\ \A d \in Returned(w)' : ~Finds(After(p, q), call[d])
                        /\ \A d, e \in Returned(w)' :
                             d # e /\ call[d] = call[e] /\ IsTake(call[d]) =>
                               \/ ret'[d] \in {[errors |-> Absent], [messages |-> NoMessages]}
                               \/ ret'[e] \in {[errors |-> Absent], [messages |-> NoMessages]}
      BY <1>3, <2>4 DEF TakenOf
    <3>1. ~IsFlash(q) /\ \A d \in Returned(w) : ~IsFlash(call[d])
      BY <2>2 DEF q
    <3>2. /\ \A d \in Returned(w) : ~Finds(p, call[d])
          /\ \A d, e \in Returned(w) : d # e /\ call[d] = call[e] /\ IsTake(call[d]) =>
               \/ ret[d] \in {[errors |-> Absent], [messages |-> NoMessages]}
               \/ ret[e] \in {[errors |-> Absent], [messages |-> NoMessages]}
      BY <2>3, <2>4, <3>1 DEF TakenOf
    <3>3. \A d \in Returned(w)' : ~Finds(After(p, q), call[d])
      BY <2>2, <2>5, <2>9, <3>1, <3>2 DEF q
    <3>4. ASSUME NEW d \in Returned(w), call[d] = q, IsTake(q)
          PROVE  ret'[c] \in {[errors |-> Absent], [messages |-> NoMessages]}
      <4>1. ~Finds(p, q)
        BY <3>2, <3>4
      <4>2. CASE q.kind = "TakeErrors"
        BY <2>8, <4>1, <4>2 DEF Finds, Result
      <4>3. CASE q.kind = "TakeMessages"
        BY <2>8, <4>1, <4>3 DEF Finds, Result
      <4> QED  BY <3>4, <4>2, <4>3 DEF IsTake
    <3> QED  BY <2>2, <2>7, <3>2, <3>3, <3>4 DEF q
  <2> QED  BY <2>10, <2>11, <2>12
<1> QED  BY <1>6, <1>7

\* The object that the first of the racing calls publishes is the request's
\* cookie, and no call has returned yet.
LEMMA LoadOrStoreContent ==
  ASSUME IInv, ContentInv, NEW c \in Calls, LoadOrStore(c), NEW w \in Writers
  PROVE  ContentOf(w)'
<1> USE AssumptionsHold DEF Assumptions
<1>1. /\ stage[c] = "LoadOrStore" /\ UNCHANGED <<cookie, heap, call, ret, flush>>
      /\ stage' = [stage EXCEPT ![c] = "Lock"]
      /\ \A d \in Calls \ {c} : ref'[d] = ref[d] /\ stage'[d] = stage[d]
      /\ stage'[c] = "Lock"
  BY DEF LoadOrStore, request, flushVars, IInv, TypeOK
<1>2. Returned(w)' = Returned(w)
  BY <1>1 DEF Returned, CallsOf
<1>3. \A v \in Writers : v # WriterOf[c] \/ pending[v] # NoRef => pending'[v] = pending[v]
  BY DEF LoadOrStore, IInv, TypeOK
<1>4. CASE w # WriterOf[c] \/ pending[w] # NoRef
  BY <1>1, <1>2, <1>3, <1>4, QuietContent DEF ContentInv
<1>5. CASE w = WriterOf[c] /\ pending[w] = NoRef
  <2> SUFFICES ASSUME flush[w] = "open" PROVE (SeedOf(w) /\ FlashedOf(w) /\ TakenOf(w))'
    BY <1>1 DEF ContentOf
  <2>1. Returned(w)' = {}
    BY <1>2, <1>5 DEF Returned, CallsOf, IInv, OnePayload
  <2>2. pending'[w] = c
    BY <1>5 DEF LoadOrStore, IInv, TypeOK
  <2>3. heap'[c] = [payload |-> cookie[w], dirty |-> FALSE]
    BY <1>1, <1>5 DEF IInv, SeedsInv
  <2> QED  BY <1>1, <2>1, <2>2, <2>3 DEF SeedOf, FlashedOf, TakenOf, Current
<1> QED  BY <1>4, <1>5

\* The other steps leave alone what is published and who has returned.
LEMMA OtherContent ==
  ASSUME IInv, ContentInv, NEW w \in Writers,
         \/ \E c \in Calls, q \in Requests : Invoke(c, q)
         \/ \E c \in Calls : LoadHit(c) \/ LoadMiss(c)
         \/ \E v \in Writers : LoadAndDelete(v) \/ Drain(v)
         \/ UNCHANGED vars
  PROVE  ContentOf(w)'
<1> USE AssumptionsHold DEF Assumptions
<1>1. ASSUME NEW c \in Calls, NEW q \in Requests, Invoke(c, q) PROVE ContentOf(w)'
  <2>1. /\ UNCHANGED <<cookie, pending, heap, ref, flush>> /\ stage[c] = "idle" /\ ref[c] = NoRef
        /\ \A d \in Calls \ {c} : stage'[d] = stage[d] /\ call'[d] = call[d] /\ ret'[d] = ret[d]
    BY <1>1 DEF Invoke, request, flushVars, IInv, TypeOK, StagesInv
  <2>2. Returned(w)' = Returned(w) /\ c \notin Returned(w) /\ Returned(w) \subseteq Calls
    BY <2>1 DEF Returned, CallsOf
  <2> QED  BY <2>1, <2>2, QuietContent DEF ContentInv
<1>2. ASSUME NEW c \in Calls, LoadHit(c) PROVE ContentOf(w)'
  <2>1. /\ UNCHANGED <<cookie, pending, heap, call, ret, flush>> /\ stage[c] = "Load"
        /\ stage'[c] = "Lock"
        /\ \A d \in Calls \ {c} : stage'[d] = stage[d] /\ ref'[d] = ref[d]
    BY <1>2 DEF LoadHit, request, flushVars, IInv, TypeOK
  <2>2. Returned(w)' = Returned(w)
    BY <2>1 DEF Returned, CallsOf
  <2> QED  BY <2>1, <2>2, QuietContent DEF ContentInv
<1>3. ASSUME NEW c \in Calls, LoadMiss(c) PROVE ContentOf(w)'
  <2>1. /\ UNCHANGED <<cookie, pending, call, ref, ret, flush>> /\ stage[c] = "Load"
        /\ stage'[c] = "LoadOrStore"
        /\ \A d \in Calls \ {c} : stage'[d] = stage[d] /\ heap'[d] = heap[d]
    BY <1>3 DEF LoadMiss, request, flushVars, IInv, TypeOK
  <2>2. Returned(w)' = Returned(w)
    BY <2>1 DEF Returned, CallsOf
  <2>3. pending[w] # NoRef => pending[w] \in Calls \ {c}
    BY <2>1 DEF IInv, TypeOK, ObjectsInv, Published
  <2> QED  BY <2>1, <2>2, <2>3, QuietContent DEF ContentInv
<1>4. ASSUME NEW v \in Writers, LoadAndDelete(v) PROVE ContentOf(w)'
  <2>1. /\ UNCHANGED <<cookie, heap, stage, call, ref, ret>>
        /\ flush'[w] = "open" => flush[w] = "open" /\ pending'[w] = pending[w]
    BY <1>4 DEF LoadAndDelete, request, callVars, IInv, TypeOK
  <2>2. Returned(w)' = Returned(w)
    BY <2>1 DEF Returned, CallsOf
  <2> QED  BY <2>1, <2>2, QuietContent DEF ContentInv
<1>5. ASSUME NEW v \in Writers, Drain(v) PROVE ContentOf(w)'
  <2>1. /\ UNCHANGED <<cookie, pending, heap, stage, call, ref, ret>>
        /\ flush'[w] = "open" => flush[w] = "open"
    BY <1>5 DEF Drain, request, callVars, IInv, TypeOK
  <2>2. Returned(w)' = Returned(w)
    BY <2>1 DEF Returned, CallsOf
  <2> QED  BY <2>1, <2>2, QuietContent DEF ContentInv
<1>6. CASE UNCHANGED vars
  <2>1. UNCHANGED <<cookie, pending, heap, stage, call, ref, ret, flush>>
    BY <1>6 DEF vars
  <2>2. Returned(w)' = Returned(w)
    BY <2>1 DEF Returned, CallsOf
  <2> QED  BY <2>1, <2>2, QuietContent DEF ContentInv
<1> QED  BY <1>1, <1>2, <1>3, <1>4, <1>5, <1>6

LEMMA InitContent == Init => ContentInv
<1> SUFFICES ASSUME Init, NEW w \in Writers PROVE ContentOf(w)
  BY DEF ContentInv
<1>1. pending[w] = NoRef /\ Returned(w) = {}
  BY DEF Init, Returned, CallsOf
<1> QED  BY <1>1 DEF ContentOf, SeedOf, FlashedOf, TakenOf

LEMMA NextContent == IInv /\ ContentInv /\ [Next]_vars => ContentInv'
<1> SUFFICES ASSUME IInv, ContentInv, [Next]_vars, NEW w \in Writers PROVE ContentOf(w)'
  BY DEF ContentInv
<1> QED  BY MutateContent, LoadOrStoreContent, OtherContent DEF Next

-----------------------------------------------------------------------------
(* The theorems.                                                           *)

(* What the accumulator of each response holds, in every reachable state.  *)
THEOREM ContentInvariant == Spec => [](IInv /\ ContentInv)
BY InitIInv, NextIInv, InitContent, NextContent, PTL DEF Spec

(* No goroutine loses another's flash: it is in the object the flush will  *)
(* send, and that object is dirty.                                         *)
THEOREM NoLostUpdate == Spec => []ReturnedFlashIsPending
<1>1. IInv /\ ContentInv => ReturnedFlashIsPending
  <2>1. IInv => \A w \in Writers : \A c \in Returned(w) :
                 flush[w] = "open" => pending[w] # NoRef
    BY DEF IInv, OnePayload, Returned, CallsOf
  <2> QED  BY <2>1 DEF ContentInv, ContentOf, FlashedOf, Current, ReturnedFlashIsPending
<1> QED  BY <1>1, ContentInvariant, PTL

(* What the request's cookie carried survives the calls that do not touch  *)
(* it.                                                                     *)
THEOREM SeedKept == Spec => []SeedSurvives
<1>1. ContentInv => SeedSurvives
  BY DEF ContentInv, ContentOf, SeedOf, Current, SeedSurvives
<1> QED  BY <1>1, ContentInvariant, PTL

(* Two takes of one response do not both get a flash of its cookie.        *)
THEOREM TakeIsOnce == Spec => []TakenOnce
<1>1. ContentInv => TakenOnce
  BY DEF ContentInv, ContentOf, TakenOf, IsTake, TakenOnce
<1> QED  BY <1>1, ContentInvariant, PTL

=============================================================================
