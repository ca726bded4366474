----------------------- MODULE RequestLifecycleProofs -----------------------
(***************************************************************************)
(* Theorems about RequestLifecycle for every set of fields, bags, keys,    *)
(* requests and cookies, and for handlers of every length.                 *)
(***************************************************************************)
EXTENDS RequestLifecycle, TLAPS

-----------------------------------------------------------------------------
(* The inductive invariant follows the accumulator through the request.    *)

\* The request's payload without what the middleware took.
AfterTake ==
  [errors   |-> [b \in Bags |-> IF b = RequestBag THEN {} ELSE cookie.errors[b]],
   messages |-> NoMessages]

\* Until the sync.Once fires, the response holds the taken payload.
Waiting ==
  /\ pending = [payload |-> AfterTake, dirty |-> Took]
  /\ ~once /\ ~tooLarge /\ ~hijacked
  /\ setCookies = <<>>
  /\ wire = NotSent

\* The flush put p into the header map if there was a change to send.
Flushed(changed, p) ==
  \/ ~changed /\ setCookies = <<>>
  \/ changed /\ setCookies = <<p>>
  \/ changed /\ setCookies = <<>> /\ tooLarge

\* What is known of a response once its flush has run.
Sealed ==
  /\ once
  /\ wire # NotSent => wire = setCookies
  /\ IF Redirected /\ HasCollected
       THEN \E last \in Orders : Flushed(TRUE, Persisted(AfterTake, last))
       ELSE Flushed(Took, AfterTake)

\* A redirect after the flush leaves an accumulator that nobody evicts.
LateRedirect == early /\ reply \in {"Redirect", "Location"} /\ HasCollected

DataInv ==
  /\ cookie \in Payload
  /\ info \in InfoType
  /\ collected \in [errors : [CollectorBags -> SUBSET Fields], flash : Messages]

StageInv ==
  /\ stage \in {"arrived", "handling", "replied", "done"}
  /\ early \in BOOLEAN
  /\ stage \in {"arrived", "handling"} => reply = "none"
  /\ stage = "arrived" =>
       /\ ~early /\ ~once /\ ~tooLarge /\ ~hijacked
       /\ pending = NoPending /\ setCookies = <<>> /\ wire = NotSent
  /\ stage = "handling" =>
       IF early THEN Sealed /\ pending = NoPending ELSE Waiting
  /\ stage \in {"replied", "done"} =>
       Sealed /\ (pending = NoPending \/ LateRedirect)

IInv == DataInv /\ StageInv

LEMMA InitIInv == Init => IInv
<1> SUFFICES ASSUME Init PROVE IInv
  OBVIOUS
<1>1. DataInv
  BY SeedsAssumption, InfosAssumption DEF Init, DataInv, Messages, NoMessages
<1>2. StageInv
  BY DEF Init, StageInv
<1> QED
  BY <1>1, <1>2 DEF IInv

-----------------------------------------------------------------------------
(* The middleware.                                                         *)

(* The two takes, on any payload.                                          *)
LEMMA TakeErrorsEffect ==
  ASSUME NEW p \in Payload, NEW b \in Bags, NEW q, q = [kind |-> "TakeErrors", bag |-> b]
  PROVE  /\ After(p, q) = [errors |-> [p.errors EXCEPT ![b] = {}], messages |-> p.messages]
         /\ Dirties(p, q) <=> p.errors[b] # {}
<1>1. q.kind = "TakeErrors" /\ q.bag = b
  OBVIOUS
<1>2. After(p, q) = [p EXCEPT !.errors[b] = {}]
  BY <1>1 DEF After
<1>3. [p EXCEPT !.errors[b] = {}]
        = [errors |-> [p.errors EXCEPT ![b] = {}], messages |-> p.messages]
  BY DEF Payload
<1> QED
  BY <1>1, <1>2, <1>3 DEF Dirties

LEMMA TakeMessagesEffect ==
  ASSUME NEW p \in Payload, NEW q, q = [kind |-> "TakeMessages"]
  PROVE  /\ After(p, q) = [errors |-> p.errors, messages |-> NoMessages]
         /\ Dirties(p, q) <=> p.messages # NoMessages
<1>1. q.kind = "TakeMessages"
  OBVIOUS
<1>2. After(p, q) = [p EXCEPT !.messages = NoMessages]
  BY <1>1 DEF After
<1>3. [p EXCEPT !.messages = NoMessages] = [errors |-> p.errors, messages |-> NoMessages]
  BY DEF Payload
<1> QED
  BY <1>1, <1>2, <1>3 DEF Dirties

LEMMA RequestBagType == ASSUME info \in InfoType PROVE RequestBag \in Bags
BY BagAssumption DEF RequestBag, InfoType

(* Middleware leaves the accumulator with what remains of the cookie, and  *)
(* dirty exactly if something was taken.                                   *)
LEMMA MiddlewareStep == IInv /\ Middleware => IInv'
<1> SUFFICES ASSUME IInv, Middleware PROVE IInv'
  OBVIOUS
<1> DEFINE b  == RequestBag
           q1 == [kind |-> "TakeErrors", bag |-> b]
           q2 == [kind |-> "TakeMessages"]
           o  == StoreCall(pending, q1)
           e1 == [cookie.errors EXCEPT ![b] = {}]
<1>1. b \in Bags
  BY RequestBagType DEF IInv, DataInv
<1>2. /\ cookie \in Payload
      /\ cookie.errors \in [Bags -> SUBSET Fields]
      /\ cookie.messages \in Messages
  BY DEF IInv, DataInv, Payload, Errors
<1>3. pending = NoPending /\ reply = "none" /\ ~early
  BY DEF IInv, StageInv, Middleware
<1>4. /\ stage' = "handling"
      /\ taken' = [errors |-> cookie.errors[b], messages |-> o.payload.messages]
      /\ pending' = StoreCall(o, q2)
      /\ UNCHANGED <<cookie, info, collected, once, setCookies, tooLarge, wire, hijacked,
                     status, reply, early>>
  BY DEF Middleware, request
<1>5. /\ o.payload = [errors |-> e1, messages |-> cookie.messages]
      /\ o.dirty <=> cookie.errors[b] # {}
      /\ o.dirty \in BOOLEAN
      /\ o = [payload |-> o.payload, dirty |-> o.dirty]
  <2>1. Seeded(pending) = [payload |-> cookie, dirty |-> FALSE]
    BY <1>3 DEF Seeded
  <2>2. After(cookie, q1) = [errors |-> e1, messages |-> cookie.messages]
    BY <1>1, <1>2, TakeErrorsEffect
  <2>3. Dirties(cookie, q1) <=> cookie.errors[b] # {}
    BY <1>1, <1>2, TakeErrorsEffect
  <2> HIDE DEF q1, e1
  <2>4. o = [payload |-> After(cookie, q1), dirty |-> FALSE \/ Dirties(cookie, q1)]
    BY <2>1 DEF StoreCall
  <2> DEFINE p1 == After(cookie, q1)
             d1 == FALSE \/ Dirties(cookie, q1)
  <2>5. d1 \in BOOLEAN
    BY Zenon
  <2>6. d1 <=> cookie.errors[b] # {}
    BY <2>3
  <2> HIDE DEF p1, d1, o
  <2>7. o = [payload |-> p1, dirty |-> d1]
    BY <2>4, Zenon DEF p1, d1
  <2>8. o.payload = p1 /\ o.dirty = d1
    BY <2>7
  <2>9. p1 = [errors |-> e1, messages |-> cookie.messages]
    BY <2>2 DEF p1
  <2> QED
    BY <2>5, <2>6, <2>7, <2>8, <2>9
<1>6. o.payload \in Payload
  BY <1>1, <1>2, <1>5 DEF Payload, Errors
<1>7. Seeded(o) = o
  <2>1. o \in Objects
    BY <1>5, <1>6 DEF Objects
  <2> QED
    BY <2>1, PendingAssumption DEF Seeded
<1> HIDE DEF o
<1>8. /\ After(o.payload, q2) = AfterTake
      /\ Dirties(o.payload, q2) <=> cookie.messages # NoMessages
  <2>1. e1 = [c \in Bags |-> IF c = b THEN {} ELSE cookie.errors[c]]
    BY <1>1, <1>2
  <2>2. /\ After(o.payload, q2) = [errors |-> o.payload.errors, messages |-> NoMessages]
        /\ Dirties(o.payload, q2) <=> o.payload.messages # NoMessages
    BY <1>6, TakeMessagesEffect
  <2>3. o.payload.errors = e1 /\ o.payload.messages = cookie.messages
    BY <1>5
  <2> QED
    BY <2>1, <2>2, <2>3 DEF AfterTake
<1>9. AfterTake' = AfterTake /\ (Took' <=> (cookie.errors[b] # {} \/ cookie.messages # NoMessages))
  BY <1>4, <1>5 DEF Took, AfterTake, RequestBag
<1>10. pending' = [payload |-> AfterTake', dirty |-> Took']
  <2>1. pending' = [payload |-> After(o.payload, q2), dirty |-> o.dirty \/ Dirties(o.payload, q2)]
    BY <1>4, <1>7 DEF StoreCall
  <2>2. (o.dirty \/ Dirties(o.payload, q2)) <=> Took'
    BY <1>5, <1>8, <1>9
  <2>3. Took' \in BOOLEAN
    BY DEF Took
  <2>4. (o.dirty \/ Dirties(o.payload, q2)) = Took'
    BY <2>2, <2>3, Zenon
  <2> QED
    BY <1>8, <1>9, <2>1, <2>4, Zenon
<1>11. DataInv'
  BY <1>4 DEF IInv, DataInv
<1>12. Waiting'
  BY <1>3, <1>4, <1>10 DEF Waiting, IInv, StageInv, Middleware
<1> QED
  BY <1>3, <1>4, <1>11, <1>12 DEF IInv, StageInv

-----------------------------------------------------------------------------
(* The flushWriter.                                                        *)

(* Once the flush has run, draining again changes nothing in the header.   *)
LEMMA DrainAgain ==
  ASSUME NEW o, Drain(o), once
  PROVE  pending' = o /\ UNCHANGED <<once, setCookies, tooLarge>>
BY DEF Drain

(* The first drain sends what the accumulator holds if it changed.         *)
LEMMA DrainFirst ==
  ASSUME NEW p, NEW d \in BOOLEAN, Drain([payload |-> p, dirty |-> d]), ~once,
         setCookies = <<>>, [payload |-> p, dirty |-> d] # NoPending
  PROVE  /\ once' = TRUE
         /\ pending' = NoPending
         /\ \/ ~d /\ setCookies' = <<>>
            \/ d /\ setCookies' = <<p>>
            \/ d /\ setCookies' = <<>> /\ tooLarge'
BY DEF Drain, FlushResponse, Changed

(* In the handler, with the accumulator that the middleware left, a        *)
(* writer method seals the response.                                       *)
LEMMA HandlerDrain ==
  ASSUME IInv, stage = "handling", Drain(pending), UNCHANGED <<request, taken>>,
         wire' = wire \/ wire' = setCookies'
  PROVE  /\ once' = TRUE
         /\ pending' = NoPending
         /\ Flushed(Took, AfterTake)'
         /\ wire' # NotSent => wire' = setCookies'
<1>1. AfterTake' = AfterTake /\ Took' = Took
  BY DEF AfterTake, RequestBag, Took, request
<1>2. reply = "none" /\ early \in BOOLEAN
  BY DEF IInv, StageInv
<1>3. CASE early
  <2>1. Sealed /\ pending = NoPending /\ once
    BY <1>3 DEF IInv, StageInv, Sealed
  <2>2. pending' = NoPending /\ UNCHANGED <<once, setCookies, tooLarge>>
    BY <2>1, DrainAgain
  <2>3. Flushed(Took, AfterTake)
    BY <1>2, <2>1 DEF Sealed, Redirected
  <2> QED
    BY <1>1, <2>1, <2>2, <2>3 DEF Flushed, Sealed
<1>4. CASE ~early
  <2>1. Waiting
    BY <1>4 DEF IInv, StageInv
  <2>2. Took \in BOOLEAN
    BY DEF Took
  <2>3. pending # NoPending
    <3>1. AfterTake \in Payload
      BY DEF AfterTake, Payload, Errors, Messages, NoMessages, IInv, DataInv
    <3>2. pending \in Objects
      BY <2>1, <2>2, <3>1 DEF Waiting, Objects
    <3> QED
      BY <3>2, PendingAssumption
  <2>4. /\ once' = TRUE /\ pending' = NoPending
        /\ \/ ~Took /\ setCookies' = <<>>
           \/ Took /\ setCookies' = <<AfterTake>>
           \/ Took /\ setCookies' = <<>> /\ tooLarge'
    BY <2>1, <2>2, <2>3, DrainFirst DEF Waiting
  <2>5. wire' # NotSent => wire' = setCookies'
    BY <2>1 DEF Waiting
  <2> QED
    BY <1>1, <2>4, <2>5 DEF Flushed
<1> QED
  BY <1>2, <1>3, <1>4

-----------------------------------------------------------------------------
(* The steps of the handler.                                               *)

LEMMA CollectStep ==
  ASSUME IInv,
         \/ \E n \in CollectorBags, f \in Fields : AddError(n, f)
         \/ \E k \in Keys, v \in (SUBSET Fields) \ {{}} : SetFlash(k, v)
  PROVE  IInv'
<1>1. /\ stage = "handling" /\ stage' = stage
      /\ UNCHANGED <<cookie, info, taken, reply, early,
                     pending, once, setCookies, tooLarge, wire, hijacked>>
  BY DEF AddError, SetFlash, InHandler, request, response
<1>2. DataInv'
  <2>1. collected' \in [errors : [CollectorBags -> SUBSET Fields], flash : Messages]
    <3>1. CASE \E n \in CollectorBags, f \in Fields : AddError(n, f)
      BY <3>1 DEF AddError, IInv, DataInv
    <3>2. CASE \E k \in Keys, v \in (SUBSET Fields) \ {{}} : SetFlash(k, v)
      BY <3>2 DEF SetFlash, IInv, DataInv, Messages
    <3> QED
      BY <3>1, <3>2
  <2> QED
    BY <1>1, <2>1 DEF IInv, DataInv
<1>3. AfterTake' = AfterTake /\ Took' = Took
  BY <1>1 DEF AfterTake, RequestBag, Took
<1>4. reply = "none" /\ reply' = "none"
  BY <1>1 DEF IInv, StageInv
<1>5. early => Sealed' /\ pending' = NoPending
  BY <1>1, <1>3, <1>4 DEF IInv, StageInv, Sealed, Redirected, Flushed
<1>6. ~early => Waiting'
  BY <1>1, <1>3 DEF IInv, StageInv, Waiting
<1> QED
  BY <1>1, <1>2, <1>4, <1>5, <1>6 DEF IInv, StageInv

LEMMA RawStep ==
  ASSUME IInv,
         RawWriteHeader \/ RawWriteHeader1xx \/ RawWrite \/ RawFlush \/ RawHijack
  PROVE  IInv'
<1>1. /\ stage = "handling" /\ stage' = stage /\ early' = TRUE
      /\ UNCHANGED <<cookie, info, taken, collected, reply>>
      /\ UNCHANGED request
      /\ Drain(pending)
      /\ wire' = wire \/ wire' = setCookies'
  BY DEF RawWriteHeader, RawWriteHeader1xx, RawWrite, RawFlush, RawHijack, Raw, InHandler,
         WriteHeader, WriteHeader1xx, Write, FlushError, Hijack, Commit, request
<1>2. /\ once' = TRUE /\ pending' = NoPending
      /\ Flushed(Took, AfterTake)'
      /\ wire' # NotSent => wire' = setCookies'
  BY <1>1, HandlerDrain
<1>3. reply' = "none"
  BY <1>1 DEF IInv, StageInv
<1>4. Sealed'
  BY <1>2, <1>3 DEF Sealed, Redirected
<1>5. DataInv'
  BY <1>1 DEF IInv, DataInv
<1> QED
  BY <1>1, <1>2, <1>3, <1>4, <1>5 DEF IInv, StageInv

(* Precognition and Render flash nothing.                                  *)
LEMMA AnswerStep ==
  ASSUME IInv, Precognition \/ Render
  PROVE  IInv'
<1>1. /\ stage = "handling" /\ stage' = "replied"
      /\ reply' \in {"Precognition", "Render"}
      /\ UNCHANGED <<cookie, info, taken, collected, early>>
      /\ UNCHANGED request
      /\ Drain(pending)
      /\ wire' = wire \/ wire' = setCookies'
  BY DEF Precognition, Render, Reply, WriteHeader, Write, Commit, request
<1>2. /\ once' = TRUE /\ pending' = NoPending
      /\ Flushed(Took, AfterTake)'
      /\ wire' # NotSent => wire' = setCookies'
  BY <1>1, HandlerDrain
<1>3. Sealed'
  BY <1>1, <1>2 DEF Sealed, Redirected
<1>4. DataInv' /\ early' \in BOOLEAN
  BY <1>1 DEF IInv, DataInv, StageInv
<1> QED
  BY <1>1, <1>2, <1>3, <1>4 DEF IInv, StageInv

(* Redirect and Location persist the collectors into what will be sent,    *)
(* or, after the flush, into an accumulator nobody sends.                  *)
LEMMA RedirectStep ==
  ASSUME IInv, Redirect \/ Location
  PROVE  IInv'
<1>1. PICK last \in Orders :
        /\ stage = "handling" /\ stage' = "replied"
        /\ reply' \in {"Redirect", "Location"}
        /\ UNCHANGED <<cookie, info, taken, collected, early>>
        /\ UNCHANGED request
        /\ Drain(PersistCollectors(last))
        /\ wire' = wire \/ wire' = setCookies'
  BY DEF Redirect, Location, Reply, WriteHeader, Commit, request
<1>2. reply = "none" /\ early \in BOOLEAN
  BY <1>1 DEF IInv, StageInv
<1>3. /\ AfterTake' = AfterTake /\ Took' = Took /\ Orders' = Orders
      /\ HasCollected' = HasCollected
      /\ Persisted(AfterTake, last)' = Persisted(AfterTake, last)
  BY <1>1 DEF AfterTake, RequestBag, Took, Orders, Sources, HasCollected, Persisted
<1>4. DataInv' /\ early' \in BOOLEAN
  BY <1>1 DEF IInv, DataInv, StageInv
<1>5. CASE ~HasCollected
  <2>1. Drain(pending)
    BY <1>1, <1>5 DEF PersistCollectors
  <2>2. /\ once' = TRUE /\ pending' = NoPending
        /\ Flushed(Took, AfterTake)'
        /\ wire' # NotSent => wire' = setCookies'
    BY <1>1, <2>1, HandlerDrain
  <2>3. Sealed'
    BY <1>3, <1>5, <2>2 DEF Sealed
  <2> QED
    BY <1>1, <1>4, <2>2, <2>3 DEF IInv, StageInv
<1>6. CASE HasCollected /\ early
  <2>1. Sealed /\ pending = NoPending /\ once
    BY <1>1, <1>6 DEF IInv, StageInv, Sealed
  <2>2. UNCHANGED <<once, setCookies, tooLarge>>
    BY <1>1, <2>1, DrainAgain
  <2>3. ~Redirected /\ ~Redirected'
    BY <1>1, <1>2, <1>6 DEF Redirected
  <2>4. Flushed(Took, AfterTake)'
    BY <1>3, <2>1, <2>2, <2>3 DEF Sealed, Flushed
  <2>5. Sealed'
    BY <1>1, <2>1, <2>2, <2>3, <2>4 DEF Sealed
  <2>6. LateRedirect'
    BY <1>1, <1>3, <1>6 DEF LateRedirect
  <2> QED
    BY <1>1, <1>4, <2>5, <2>6 DEF IInv, StageInv
<1>7. CASE HasCollected /\ ~early
  <2>1. Waiting
    BY <1>1, <1>7 DEF IInv, StageInv
  <2>2. PersistCollectors(last) = [payload |-> Persisted(AfterTake, last), dirty |-> TRUE]
    <3>1. AfterTake \in Payload
      BY DEF AfterTake, Payload, Errors, Messages, NoMessages, IInv, DataInv
    <3>2. Took \in BOOLEAN
      BY DEF Took
    <3>3. pending # NoPending /\ pending.payload = AfterTake
      BY <2>1, <3>1, <3>2, PendingAssumption DEF Waiting, Objects
    <3>4. Seeded(pending).payload = AfterTake
      BY <3>3 DEF Seeded
    <3> QED
      BY <1>7, <3>4 DEF PersistCollectors
  <2>3. Persisted(AfterTake, last) \in Payload
    <3>1. last \in [Bags -> CollectorBags]
      BY DEF Orders
    <3>2. \A b \in Bags : Sources(b) # {} => last[b] \in CollectorBags
      BY <3>1
    <3>3. AfterTake \in Payload
      BY DEF AfterTake, Payload, Errors, Messages, NoMessages, IInv, DataInv
    <3> QED
      BY <3>2, <3>3 DEF Persisted, Payload, Errors, Messages, IInv, DataInv
  <2>4. [payload |-> Persisted(AfterTake, last), dirty |-> TRUE] # NoPending
    <3>1. [payload |-> Persisted(AfterTake, last), dirty |-> TRUE] \in Objects
      BY <2>3 DEF Objects
    <3> QED
      BY <3>1, PendingAssumption, Zenon
  <2>5. /\ once' = TRUE /\ pending' = NoPending
        /\ \/ setCookies' = <<Persisted(AfterTake, last)>>
           \/ setCookies' = <<>> /\ tooLarge'
    BY <1>1, <2>1, <2>2, <2>4, DrainFirst DEF Waiting
  <2>6. Flushed(TRUE, Persisted(AfterTake, last))'
    BY <1>3, <2>5 DEF Flushed
  <2>7. wire' # NotSent => wire' = setCookies'
    BY <1>1, <2>1 DEF Waiting
  <2>8. \E l \in Orders' : Flushed(TRUE, Persisted(AfterTake, l))'
    BY <1>3, <2>6
  <2>9. Sealed'
    BY <1>1, <1>3, <1>7, <2>5, <2>7, <2>8 DEF Sealed, Redirected
  <2> QED
    BY <1>1, <1>4, <2>5, <2>9 DEF IInv, StageInv
<1> QED
  BY <1>2, <1>5, <1>6, <1>7

(* Return and Panic run the deferred flushNow, which changes nothing if    *)
(* the handler has written.                                                *)
LEMMA EndStep ==
  ASSUME IInv, Return \/ Panic
  PROVE  IInv'
<1>1. /\ stage \in {"handling", "replied"} /\ stage' = "done"
      /\ UNCHANGED <<cookie, info, taken, collected, reply, early>>
      /\ UNCHANGED request
      /\ Drain(pending)
      /\ wire' = wire \/ wire' = setCookies'
  BY DEF Return, Panic, FlushNow, Commit, request
<1>2. DataInv' /\ early' \in BOOLEAN
  BY <1>1 DEF IInv, DataInv, StageInv
<1>3. CASE stage = "handling"
  <2>1. /\ once' = TRUE /\ pending' = NoPending
        /\ Flushed(Took, AfterTake)'
        /\ wire' # NotSent => wire' = setCookies'
    BY <1>1, <1>3, HandlerDrain
  <2>2. reply' = "none"
    BY <1>1, <1>3 DEF IInv, StageInv
  <2>3. Sealed'
    BY <2>1, <2>2 DEF Sealed, Redirected
  <2> QED
    BY <1>1, <1>2, <2>1, <2>3 DEF IInv, StageInv
<1>4. CASE stage = "replied"
  <2>1. Sealed /\ once /\ (pending = NoPending \/ LateRedirect)
    BY <1>4 DEF IInv, StageInv, Sealed
  <2>2. pending' = pending /\ UNCHANGED <<once, setCookies, tooLarge>>
    BY <1>1, <2>1, DrainAgain
  <2>3. wire' # NotSent => wire' = setCookies'
    BY <1>1, <2>1, <2>2 DEF Sealed
  <2>4. Sealed'
    BY <1>1, <2>1, <2>2, <2>3
       DEF Sealed, Flushed, Redirected, HasCollected, Orders, Sources, Persisted,
           AfterTake, RequestBag, Took
  <2>5. LateRedirect' = LateRedirect
    BY <1>1 DEF LateRedirect, HasCollected
  <2> QED
    BY <1>1, <1>2, <2>1, <2>2, <2>4, <2>5 DEF IInv, StageInv
<1> QED
  BY <1>1, <1>3, <1>4

LEMMA StutterStep == IInv /\ UNCHANGED vars => IInv'
<1> SUFFICES ASSUME IInv, UNCHANGED vars PROVE IInv'
  OBVIOUS
<1>1. UNCHANGED <<cookie, info, stage, taken, collected, reply, early,
                  pending, once, setCookies, tooLarge, wire, hijacked>>
  BY DEF vars, request, response
<1>2. /\ AfterTake' = AfterTake /\ Took' = Took
      /\ Redirected' = Redirected /\ HasCollected' = HasCollected
      /\ LateRedirect' = LateRedirect
  BY <1>1 DEF AfterTake, RequestBag, Took, Redirected, HasCollected, LateRedirect
<1>3. Sealed' = Sealed
  BY <1>1 DEF Sealed, Redirected, HasCollected, Orders, Sources, Persisted, Flushed,
              AfterTake, RequestBag, Took
<1>4. Waiting' = Waiting
  BY <1>1, <1>2 DEF Waiting
<1> QED
  BY <1>1, <1>2, <1>3, <1>4 DEF IInv, DataInv, StageInv

LEMMA NextIInv == IInv /\ [Next]_vars => IInv'
BY MiddlewareStep, CollectStep, RawStep, AnswerStep, RedirectStep, EndStep, StutterStep
   DEF Next

(* The inductive invariant holds in every reachable state.                 *)
THEOREM Invariant == Spec => []IInv
BY InitIInv, NextIInv, PTL DEF Spec

-----------------------------------------------------------------------------
(* Nothing enters the header map after net/http sent it, on any path       *)
(* through the flushWriter and for handlers of every length.               *)
THEOREM DrainPrecedesCommit == Spec => []NothingAfterCommit
<1>1. IInv => NothingAfterCommit
  BY DEF IInv, StageInv, NothingAfterCommit, Waiting, Sealed
<1> QED
  BY <1>1, Invariant, PTL

(* A response never carries two session cookies.                           *)
THEOREM AtMostOneCookie == Spec => []OneSetCookie
<1>1. IInv => OneSetCookie
  <2> SUFFICES ASSUME IInv PROVE Len(setCookies) <= 1
    BY DEF OneSetCookie
  <2>1. setCookies = <<>> \/ \E p : setCookies = <<p>>
    BY DEF IInv, StageInv, Waiting, Sealed, Flushed
  <2>2. CASE setCookies = <<>>
    BY <2>2
  <2>3. CASE \E p : setCookies = <<p>>
    <3>1. PICK p : setCookies = <<p>>
      BY <2>3
    <3>2. Len(<<p>>) = 1
      OBVIOUS
    <3> QED
      BY <3>1, <3>2
  <2> QED
    BY <2>1, <2>2, <2>3
<1> QED
  BY <1>1, Invariant, PTL

(* Only a redirect after the handler wrote the response leaves an entry in *)
(* CookieStore.pending.                                                    *)
THEOREM NoLeak == Spec => []NoEntryAfterReturn
<1>1. IInv => NoEntryAfterReturn
  BY DEF IInv, StageInv, NoEntryAfterReturn, LateRedirect
<1> QED
  BY <1>1, Invariant, PTL

(* A response that took flash or persisted some tells the browser, unless  *)
(* the payload does not fit into a cookie.                                 *)
THEOREM ChangeIsSent == Spec => []CookieIsSent
<1>1. IInv => CookieIsSent
  BY DEF IInv, StageInv, CookieIsSent, Sent, Sealed, Flushed
<1> QED
  BY <1>1, Invariant, PTL

(* The cookie that is sent is the request's, less what was taken, plus     *)
(* what the redirect persisted.                                            *)
THEOREM SentCookieIsExact == Spec => []CookieIsExact
<1> DEFINE ErrorsExact(p) ==
             \A b \in Bags :
               IF Redirected /\ Sources(b) # {}
                 THEN \E n \in Sources(b) : p.errors[b] = collected.errors[n]
                 ELSE p.errors[b] = IF b = RequestBag THEN {} ELSE cookie.errors[b]
           MessagesExact(p) ==
             \A k \in Keys : p.messages[k] = IF Redirected THEN collected.flash[k] ELSE {}
<1>1. ASSUME IInv, Sent, wire # <<>>
      PROVE  ErrorsExact(Head(wire)) /\ MessagesExact(Head(wire))
  <2>1. Sealed /\ wire = setCookies
    BY <1>1 DEF IInv, StageInv, Sent, Sealed
  <2>2. /\ \A b \in Bags : AfterTake.errors[b] = IF b = RequestBag THEN {} ELSE cookie.errors[b]
        /\ \A k \in Keys : AfterTake.messages[k] = {}
    BY DEF AfterTake, NoMessages
  <2>3. CASE Redirected /\ HasCollected
    <3>1. PICK last \in Orders : setCookies = <<Persisted(AfterTake, last)>>
      BY <1>1, <2>1, <2>3 DEF Sealed, Flushed
    <3> DEFINE p == Persisted(AfterTake, last)
    <3>2. Head(wire) = p
      BY <2>1, <3>1
    <3>3. \A b \in Bags : Sources(b) # {} => last[b] \in Sources(b)
      BY DEF Orders
    <3>4. /\ \A b \in Bags : p.errors[b] = IF Sources(b) = {} THEN AfterTake.errors[b]
                                            ELSE collected.errors[last[b]]
          /\ \A k \in Keys : p.messages[k] = IF collected.flash[k] = {} THEN AfterTake.messages[k]
                                              ELSE collected.flash[k]
      BY DEF Persisted
    <3> HIDE DEF p
    <3>5. ErrorsExact(p)
      BY <2>2, <2>3, <3>3, <3>4
    <3>6. MessagesExact(p)
      BY <2>2, <2>3, <3>4
    <3> QED
      BY <3>2, <3>5, <3>6
  <2>4. CASE ~(Redirected /\ HasCollected)
    <3>1. Head(wire) = AfterTake
      BY <1>1, <2>1, <2>4 DEF Sealed, Flushed
    <3>2. ~HasCollected => /\ \A b \in Bags : Sources(b) = {}
                           /\ \A k \in Keys : collected.flash[k] = {}
      BY DEF HasCollected, Sources
    <3>3. ErrorsExact(AfterTake)
      BY <2>2, <2>4, <3>2
    <3>4. MessagesExact(AfterTake)
      BY <2>2, <2>4, <3>2
    <3> QED
      BY <3>1, <3>3, <3>4
  <2> QED
    BY <2>3, <2>4
<1>2. IInv => CookieIsExact
  BY <1>1 DEF CookieIsExact
<1> QED
  BY <1>2, Invariant, PTL

-----------------------------------------------------------------------------
(* Type correctness, which needs no more than itself.                      *)

DrainedType ==
  /\ pending \in Objects \cup {NoPending} /\ once \in BOOLEAN
  /\ setCookies \in Seq(Payload) /\ tooLarge \in BOOLEAN

LEMMA DrainType ==
  ASSUME TypeOK, NEW o \in Objects \cup {NoPending}, Drain(o)
  PROVE  DrainedType'
<1>1. CASE once
  <2>1. pending' = o /\ UNCHANGED <<once, setCookies, tooLarge>>
    BY <1>1, DrainAgain
  <2> QED  BY <2>1 DEF TypeOK, DrainedType
<1>2. CASE ~once
  <2>1. /\ once' = TRUE /\ pending' = NoPending
        /\ \/ Changed(o) /\ setCookies' = Append(setCookies, o.payload)
           \/ setCookies' = setCookies
        /\ tooLarge' = (tooLarge \/ (Changed(o) /\ ~(Changed(o) /\ o.payload \notin Oversize)))
    BY <1>2 DEF Drain, FlushResponse
  <2>2. Changed(o) => o.payload \in Payload
    BY DEF Changed, Objects
  <2>3. setCookies' \in Seq(Payload)
    BY <2>1, <2>2 DEF TypeOK
  <2>4. tooLarge' \in BOOLEAN
    BY <2>1, Zenon
  <2> QED  BY <2>1, <2>3, <2>4 DEF DrainedType
<1> QED  BY <1>1, <1>2 DEF TypeOK

LEMMA PersistType ==
  ASSUME TypeOK, NEW last \in Orders
  PROVE  PersistCollectors(last) \in Objects \cup {NoPending}
<1>1. last \in [Bags -> CollectorBags]
  BY DEF Orders
<1>2. Seeded(pending).payload \in Payload
  BY DEF Seeded, TypeOK, Objects
<1>3. Persisted(Seeded(pending).payload, last) \in Payload
  <2>1. collected.errors \in [CollectorBags -> SUBSET Fields] /\ collected.flash \in Messages
    BY DEF TypeOK
  <2>2. \A b \in Bags : last[b] \in CollectorBags
    BY <1>1
  <2> QED  BY <1>2, <2>1, <2>2 DEF Persisted, Payload, Errors, Messages
<1> QED  BY <1>3 DEF PersistCollectors, Objects, TypeOK

LEMMA MiddlewareType == TypeOK /\ Middleware => TypeOK'
<1> SUFFICES ASSUME TypeOK, Middleware PROVE TypeOK'
  OBVIOUS
<1> DEFINE q1 == [kind |-> "TakeErrors", bag |-> RequestBag]
           q2 == [kind |-> "TakeMessages"]
           o  == StoreCall(pending, q1)
<1>1. RequestBag \in Bags
  BY RequestBagType DEF TypeOK
<1>2. \A x \in Objects \cup {NoPending} : Seeded(x) \in Objects
  BY DEF Seeded, TypeOK, Objects
<1>3. ASSUME NEW p \in Payload PROVE After(p, q1) \in Payload /\ After(p, q2) \in Payload
  <2>1. /\ After(p, q1) = [errors |-> [p.errors EXCEPT ![RequestBag] = {}], messages |-> p.messages]
        /\ After(p, q2) = [errors |-> p.errors, messages |-> NoMessages]
    BY <1>1, TakeErrorsEffect, TakeMessagesEffect
  <2> QED  BY <1>1, <2>1 DEF Payload, Errors, Messages, NoMessages
<1>4. /\ Dirties(Seeded(pending).payload, q1) \in BOOLEAN
      /\ Dirties(Seeded(o).payload, q2) \in BOOLEAN
  BY Zenon DEF Dirties
<1> HIDE DEF q1, q2
<1>5. o \in Objects
  BY <1>2, <1>3, <1>4 DEF StoreCall, TypeOK, Objects
<1>6. StoreCall(o, q2) \in Objects
  BY <1>2, <1>3, <1>4, <1>5 DEF StoreCall, Objects
<1>7. cookie.errors[RequestBag] \in SUBSET Fields /\ o.payload.messages \in Messages
  BY <1>1, <1>5 DEF TypeOK, Payload, Errors, Objects
<1> QED  BY <1>6, <1>7 DEF Middleware, TypeOK, request, q1, q2

LEMMA CollectType ==
  ASSUME TypeOK,
         \/ \E n \in CollectorBags, f \in Fields : AddError(n, f)
         \/ \E k \in Keys, v \in (SUBSET Fields) \ {{}} : SetFlash(k, v)
  PROVE  TypeOK'
<1>1. /\ UNCHANGED <<request, stage, taken, reply, response, early>>
      /\ ops' \in 0..MaxOps
  BY BoundAssumption DEF AddError, SetFlash, InHandler, TypeOK
<1>2. collected' \in [errors : [CollectorBags -> SUBSET Fields], flash : Messages]
  <2>0. collected \in [errors : [CollectorBags -> SUBSET Fields], flash : Messages]
    BY DEF TypeOK
  <2>1. CASE \E n \in CollectorBags, f \in Fields : AddError(n, f)
    BY <2>0, <2>1 DEF AddError
  <2>2. CASE \E k \in Keys, v \in (SUBSET Fields) \ {{}} : SetFlash(k, v)
    BY <2>0, <2>2 DEF SetFlash, Messages
  <2> QED  BY <2>1, <2>2
<1> QED  BY <1>1, <1>2 DEF request, response, TypeOK

LEMMA RawType ==
  ASSUME TypeOK,
         RawWriteHeader \/ RawWriteHeader1xx \/ RawWrite \/ RawFlush \/ RawHijack
  PROVE  TypeOK'
<1>1. /\ Drain(pending) /\ Raw
      /\ (wire' = wire \/ wire' = setCookies') /\ hijacked' \in BOOLEAN
  BY DEF RawWriteHeader, RawWriteHeader1xx, RawWrite, RawFlush, RawHijack, TypeOK,
         WriteHeader, WriteHeader1xx, Write, FlushError, Hijack, Commit
<1>2. DrainedType'
  BY <1>1, DrainType DEF TypeOK
<1>3. ops' \in 0..MaxOps
  BY <1>1, BoundAssumption DEF Raw, InHandler, TypeOK
<1> QED  BY <1>1, <1>2, <1>3 DEF Raw, InHandler, request, TypeOK, DrainedType

LEMMA ReplyType ==
  ASSUME TypeOK, Redirect \/ Location \/ Precognition \/ Render
  PROVE  TypeOK'
<1>1. PICK name \in {"Redirect", "Location", "Precognition", "Render"},
           code \in {200, 204, 302, 303, 409, 422, 500},
           o \in Objects \cup {NoPending} :
        Reply(name, code) /\ Drain(o) /\ (wire' = wire \/ wire' = setCookies')
  <2>1. pending \in Objects \cup {NoPending}
    BY DEF TypeOK
  <2>2. CASE Redirect
    BY <2>2, PersistType DEF Redirect, RedirectCode, WriteHeader, Commit
  <2>3. CASE Location
    BY <2>3, PersistType DEF Location, WriteHeader, Commit
  <2>4. CASE Precognition
    BY <2>1, <2>4 DEF Precognition, WriteHeader, Commit
  <2>5. CASE Render
    BY <2>1, <2>5 DEF Render, WriteHeader, Write, Commit
  <2> QED  BY <2>2, <2>3, <2>4, <2>5
<1>2. DrainedType'
  BY <1>1, DrainType
<1> QED  BY <1>1, <1>2 DEF Reply, request, TypeOK, DrainedType

LEMMA EndType == ASSUME TypeOK, Return \/ Panic PROVE TypeOK'
<1>1. /\ Drain(pending) /\ (wire' = wire \/ wire' = setCookies')
      /\ stage' = "done" /\ (status' = status \/ status' = 200)
      /\ UNCHANGED <<cookie, info, taken, collected, hijacked, reply, early, ops>>
  BY DEF Return, Panic, FlushNow, Commit, request
<1>2. DrainedType'
  BY <1>1, DrainType DEF TypeOK
<1> QED  BY <1>1, <1>2 DEF TypeOK, DrainedType

(* Every request's state is well typed in every reachable state.           *)
THEOREM TypeCorrect == Spec => []TypeOK
<1>1. Init => TypeOK
  <2> SUFFICES ASSUME Init PROVE TypeOK
    OBVIOUS
  <2>1. cookie \in Payload /\ info \in InfoType /\ ops \in 0..MaxOps
    BY SeedsAssumption, InfosAssumption, BoundAssumption DEF Init
  <2>2. taken \in [errors : SUBSET Fields, messages : Messages]
    BY DEF Init, Messages, NoMessages
  <2>3. collected \in [errors : [CollectorBags -> SUBSET Fields], flash : Messages]
    BY DEF Init, Messages, NoMessages
  <2>4. pending \in Objects \cup {NoPending} /\ setCookies \in Seq(Payload)
          /\ wire \in Seq(Payload) \cup {NotSent}
    BY DEF Init
  <2>5. /\ stage = "arrived" /\ ~once /\ ~tooLarge /\ ~hijacked /\ ~early
        /\ status = 0 /\ reply = "none"
        /\ once \in BOOLEAN /\ tooLarge \in BOOLEAN /\ hijacked \in BOOLEAN /\ early \in BOOLEAN
    BY DEF Init
  <2> QED  BY <2>1, <2>2, <2>3, <2>4, <2>5 DEF TypeOK
<1>2. TypeOK /\ UNCHANGED vars => TypeOK'
  BY DEF TypeOK, vars, request, response
<1>3. TypeOK /\ [Next]_vars => TypeOK'
  BY <1>2, MiddlewareType, CollectType, RawType, ReplyType, EndType DEF Next
<1> QED
  BY <1>1, <1>3, PTL DEF Spec
=============================================================================
