----------------------------- MODULE CookieStore -----------------------------
(***************************************************************************)
(* session.CookieStore: goroutines of a handler call Flash* and Take* on   *)
(* one response while the middleware's hook calls FlushResponse.           *)
(*                                                                         *)
(* Each step is one access to shared memory of session/cookie.go: a        *)
(* sync.Map operation on `pending`, or a critical section under a          *)
(* payload's mutex.  A payload object is named after the call that         *)
(* allocated it.  Encryption and JSON are a faithful round trip of the     *)
(* payload between FlushResponse and read; a payload that does not fit in  *)
(* MaxBytes makes write fail before it sets a header.                      *)
(***************************************************************************)
EXTENDS FlashPayload

CONSTANTS
  Calls,      \* Store calls; each is made at most once
  Writers,    \* response writers, one per request
  WriterOf,   \* the response a call is made for
  Seeds,      \* payloads a request's cookie may hold
  Oversize,   \* payloads whose encoded cookie exceeds MaxBytes
  NoCall, NoResult, NoHeader, NoRef

ASSUME WriterOfAssumption == WriterOf \in [Calls -> Writers]
ASSUME SeedsAssumption    == Seeds \subseteq Payload
ASSUME OversizeAssumption == EmptyPayload \notin Oversize
ASSUME SentinelAssumption ==
  /\ NoRef \notin Calls
  /\ NoCall \notin Requests
  /\ NoResult \notin Results
  /\ NoHeader \notin Payload

VARIABLES
  cookie,    \* cookie[w]: the payload in the cookie of w's request
  joins,     \* joins[w]: w's handler waits for its goroutines before it writes
  pending,   \* the sync.Map: pending[w] is a payload object or NoRef
  heap,      \* heap[c]: the payload object allocated by call c
  stage,     \* stage[c]: the next shared access of call c
  call,      \* call[c]: the operation and its arguments
  ref,       \* ref[c]: the payload object ensurePending gave to call c
  ret,       \* ret[c]: what call c returned
  flush,     \* flush[w]: progress of FlushResponse(w)
  flushRef,  \* flushRef[w]: the payload object it evicted
  header     \* header[w]: the payload of w's Set-Cookie

vars == <<cookie, joins, pending, heap, stage, call, ref, ret, flush, flushRef, header>>

request   == <<cookie, joins>>
callVars  == <<stage, call, ref, ret>>
flushVars == <<flush, flushRef, header>>

-----------------------------------------------------------------------------

Objects == [payload : Payload, dirty : BOOLEAN]

TypeOK ==
  /\ cookie \in [Writers -> Payload]
  /\ joins \in [Writers -> BOOLEAN]
  /\ pending \in [Writers -> Calls \cup {NoRef}]
  /\ heap \in [Calls -> Objects]
  /\ stage \in [Calls -> {"idle", "Load", "LoadOrStore", "Lock", "returned"}]
  /\ call \in [Calls -> Requests \cup {NoCall}]
  /\ ref \in [Calls -> Calls \cup {NoRef}]
  /\ ret \in [Calls -> Results \cup {NoResult}]
  /\ flush \in [Writers -> {"open", "draining", "done"}]
  /\ flushRef \in [Writers -> Calls \cup {NoRef}]
  /\ header \in [Writers -> Payload \cup {NoHeader}]

Init ==
  /\ cookie \in [Writers -> Seeds]
  /\ joins \in [Writers -> BOOLEAN]
  /\ pending = [w \in Writers |-> NoRef]
  /\ heap = [c \in Calls |-> [payload |-> EmptyPayload, dirty |-> FALSE]]
  /\ stage = [c \in Calls |-> "idle"]
  /\ call = [c \in Calls |-> NoCall]
  /\ ref = [c \in Calls |-> NoRef]
  /\ ret = [c \in Calls |-> NoResult]
  /\ flush = [w \in Writers |-> "open"]
  /\ flushRef = [w \in Writers |-> NoRef]
  /\ header = [w \in Writers |-> NoHeader]

CallsOf(w) == {c \in Calls : WriterOf[c] = w}

\* The payload write can put in a Set-Cookie; a delete-cookie carries the
\* empty payload.
Fits(p) == p \notin Oversize

-----------------------------------------------------------------------------
(* The four Store operations.                                              *)

Invoke(c, q) ==
  /\ stage[c] = "idle"
  /\ joins[WriterOf[c]] => flush[WriterOf[c]] = "open"
  /\ call' = [call EXCEPT ![c] = q]
  /\ \/ /\ IsNoop(q)
        /\ stage' = [stage EXCEPT ![c] = "returned"]
        /\ ret' = [ret EXCEPT ![c] = [ok |-> TRUE]]
     \/ /\ ~IsNoop(q)
        /\ stage' = [stage EXCEPT ![c] = "Load"]
        /\ UNCHANGED ret
  /\ UNCHANGED <<request, pending, heap, ref, flushVars>>

\* ensurePending finds the response's accumulator.
LoadHit(c) ==
  LET w == WriterOf[c] IN
  /\ stage[c] = "Load"
  /\ pending[w] # NoRef
  /\ ref' = [ref EXCEPT ![c] = pending[w]]
  /\ stage' = [stage EXCEPT ![c] = "Lock"]
  /\ UNCHANGED <<request, pending, heap, call, ret, flushVars>>

\* Wrong variant: the accumulator starts empty instead of from the cookie.
LoadMissUnseeded(c) ==
  /\ stage[c] = "Load" /\ pending[WriterOf[c]] = NoRef
  /\ heap' = [heap EXCEPT ![c] = [payload |-> EmptyPayload, dirty |-> FALSE]]
  /\ stage' = [stage EXCEPT ![c] = "LoadOrStore"]
  /\ UNCHANGED <<request, pending, call, ref, ret, flushVars>>

\* It finds none and builds one from the request's cookie.
LoadMiss(c) ==
  LET w == WriterOf[c] IN
  /\ stage[c] = "Load"
  /\ pending[w] = NoRef
  /\ heap' = [heap EXCEPT ![c] = [payload |-> cookie[w], dirty |-> FALSE]]
  /\ stage' = [stage EXCEPT ![c] = "LoadOrStore"]
  /\ UNCHANGED <<request, pending, call, ref, ret, flushVars>>

\* Wrong variants: Store instead of LoadOrStore, and a LoadOrStore whose
\* `actual` is ignored.
StoreOver(c) ==
  /\ stage[c] = "LoadOrStore"
  /\ pending' = [pending EXCEPT ![WriterOf[c]] = c]
  /\ ref' = [ref EXCEPT ![c] = c]
  /\ stage' = [stage EXCEPT ![c] = "Lock"]
  /\ UNCHANGED <<request, heap, call, ret, flushVars>>

LoadOrStoreKeepOwn(c) ==
  /\ stage[c] = "LoadOrStore"
  /\ pending' = IF pending[WriterOf[c]] = NoRef
                  THEN [pending EXCEPT ![WriterOf[c]] = c] ELSE pending
  /\ ref' = [ref EXCEPT ![c] = c]
  /\ stage' = [stage EXCEPT ![c] = "Lock"]
  /\ UNCHANGED <<request, heap, call, ret, flushVars>>

\* The first of the racing goroutines publishes its object, the others adopt it.
LoadOrStore(c) ==
  LET w == WriterOf[c]
      actual == IF pending[w] = NoRef THEN c ELSE pending[w] IN
  /\ stage[c] = "LoadOrStore"
  /\ pending' = [pending EXCEPT ![w] = actual]
  /\ ref' = [ref EXCEPT ![c] = actual]
  /\ stage' = [stage EXCEPT ![c] = "Lock"]
  /\ UNCHANGED <<request, heap, call, ret, flushVars>>

\* The critical section under the object's mutex.
Mutate(c) ==
  LET p == heap[ref[c]].payload
      d == heap[ref[c]].dirty IN
  /\ stage[c] = "Lock"
  /\ heap' = [heap EXCEPT ![ref[c]] =
                [payload |-> After(p, call[c]),
                 dirty |-> d \/ Dirties(p, call[c])]]
  /\ ret' = [ret EXCEPT ![c] = Result(p, call[c])]
  /\ stage' = [stage EXCEPT ![c] = "returned"]
  /\ UNCHANGED <<request, pending, call, ref, flushVars>>

-----------------------------------------------------------------------------
(* FlushResponse, which the middleware's sync.Once calls once per writer.  *)

Settled(w) == \A c \in CallsOf(w) : stage[c] \in {"idle", "returned"}

\* Wrong variant: the flush looks the entry up and does not evict it.
LoadWithoutDelete(w) ==
  /\ flush[w] = "open"
  /\ joins[w] => Settled(w)
  /\ flush' = [flush EXCEPT ![w] = IF pending[w] = NoRef THEN "done" ELSE "draining"]
  /\ flushRef' = [flushRef EXCEPT ![w] = pending[w]]
  /\ UNCHANGED <<request, pending, heap, callVars, header>>

LoadAndDelete(w) ==
  /\ flush[w] = "open"
  /\ joins[w] => Settled(w)
  /\ flush' = [flush EXCEPT ![w] = IF pending[w] = NoRef THEN "done" ELSE "draining"]
  /\ flushRef' = [flushRef EXCEPT ![w] = pending[w]]
  /\ pending' = [pending EXCEPT ![w] = NoRef]
  /\ UNCHANGED <<request, heap, callVars, header>>

\* Wrong variant: FlushResponse writes a payload that no call changed.
DrainClean(w) ==
  LET o == heap[flushRef[w]] IN
  /\ flush[w] = "draining"
  /\ flush' = [flush EXCEPT ![w] = "done"]
  /\ header' = IF Fits(o.payload) THEN [header EXCEPT ![w] = o.payload] ELSE header
  /\ UNCHANGED <<request, pending, heap, callVars, flushRef>>

\* The critical section under the evicted object's mutex.
Drain(w) ==
  LET o == heap[flushRef[w]] IN
  /\ flush[w] = "draining"
  /\ flush' = [flush EXCEPT ![w] = "done"]
  /\ header' = IF o.dirty /\ Fits(o.payload)
                 THEN [header EXCEPT ![w] = o.payload] ELSE header
  /\ UNCHANGED <<request, pending, heap, callVars, flushRef>>

Next ==
  \/ \E c \in Calls, q \in Requests : Invoke(c, q)
  \/ \E c \in Calls : LoadHit(c) \/ LoadMiss(c) \/ LoadOrStore(c) \/ Mutate(c)
  \/ \E w \in Writers : LoadAndDelete(w) \/ Drain(w)

Spec == Init /\ [][Next]_vars

-----------------------------------------------------------------------------
(* Properties.                                                             *)

\* Calls on w that have passed their critical section.
Returned(w) == {c \in CallsOf(w) : ref[c] # NoRef /\ stage[c] = "returned"}

Competes(c, q) ==
  \/ /\ q.kind = "FlashErrors"
     /\ call[c].kind \in {"FlashErrors", "TakeErrors"}
     /\ call[c].bag = q.bag
  \/ /\ q.kind = "FlashMessage"
     /\ \/ call[c].kind = "FlashMessage" /\ call[c].key = q.key
        \/ call[c].kind = "TakeMessages"

Holds(p, q) ==
  \/ q.kind = "FlashErrors" /\ p.errors[q.bag] = q.val
  \/ q.kind = "FlashMessage" /\ p.messages[q.key] = q.val

IsFlash(q) == q.kind \in {"FlashErrors", "FlashMessage"}

(* However ensurePending's Load and LoadOrStore interleave, every call that *)
(* got an object before the flush got the one that the flush will send.    *)
OnePayload ==
  \A c \in Calls :
    ref[c] # NoRef /\ flush[WriterOf[c]] = "open"
      => ref[c] = pending[WriterOf[c]]

(* A flash that has returned before the response is flushed is in the      *)
(* accumulator, marked dirty, unless another call on the same response     *)
(* replaced or took it: no goroutine loses another's update.               *)
ReturnedFlashIsPending ==
  \A w \in Writers : \A c \in Returned(w) :
    /\ flush[w] = "open"
    /\ IsFlash(call[c])
    /\ \A d \in Returned(w) \ {c} : ~Competes(d, call[c])
    => /\ pending[w] # NoRef
       /\ heap[pending[w]].dirty
       /\ Holds(heap[pending[w]].payload, call[c])

(* What the request's cookie carried and no call of this response replaced *)
(* or took is still in the accumulator (ensurePending: "pre-existing keys  *)
(* survive subsequent partial updates").                                   *)
SeedSurvives ==
  \A w \in Writers : flush[w] = "open" /\ pending[w] # NoRef =>
    LET p == heap[pending[w]].payload IN
    /\ \A b \in Bags :
         (\A c \in Returned(w) : ~Competes(c, [kind |-> "FlashErrors", bag |-> b]))
           => p.errors[b] = cookie[w].errors[b]
    /\ \A k \in Keys :
         (\A c \in Returned(w) : ~Competes(c, [kind |-> "FlashMessage", key |-> k]))
           => p.messages[k] = cookie[w].messages[k]

(* Two takes of one response that return before it is flushed do not both  *)
(* get a value the cookie carried: take is read-and-clear.                 *)
TakenOnce ==
  \A w \in Writers : flush[w] = "open" =>
    \A c, d \in Returned(w) :
      /\ c # d
      /\ call[c] = call[d]
      /\ call[c].kind \in {"TakeErrors", "TakeMessages"}
      /\ \A e \in Returned(w) : ~IsFlash(call[e])
      => \/ ret[c] \in {[errors |-> Absent], [messages |-> NoMessages]}
         \/ ret[d] \in {[errors |-> Absent], [messages |-> NoMessages]}

(* When a handler joins its goroutines before it writes, no entry of       *)
(* `pending` outlives the flush of its response: the map does not grow.    *)
NoEntryAfterFlush ==
  \A w \in Writers : joins[w] /\ flush[w] # "open" => pending[w] = NoRef

-----------------------------------------------------------------------------
(* The implementation of ResponseAccumulator: the accumulator is the       *)
(* published object until FlushResponse evicts it, then the evicted one.   *)

Cell(w) == IF flush[w] = "open" THEN pending[w] ELSE flushRef[w]

AccOf(w) ==
  IF flush[w] = "done" THEN EmptyPayload
  ELSE IF Cell(w) = NoRef THEN cookie[w]
  ELSE heap[Cell(w)].payload

DirtyOf(w) ==
  flush[w] # "done" /\ Cell(w) # NoRef /\ heap[Cell(w)].dirty

Accumulator == INSTANCE ResponseAccumulator WITH
  acc   <- [w \in Writers |-> AccOf(w)],
  dirty <- [w \in Writers |-> DirtyOf(w)],
  phase <- flush

(* Every behaviour of the store is one of the atomic accumulator.          *)
ImplementsAccumulator == Accumulator!Spec
=============================================================================
