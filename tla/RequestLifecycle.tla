-------------------------- MODULE RequestLifecycle --------------------------
(***************************************************************************)
(* One request through Inertia.Middleware with a CookieStore: the flash    *)
(* the middleware takes, the collectors the handler fills, and the         *)
(* flushWriter that must put the session's Set-Cookie into the header map  *)
(* before net/http commits it.                                             *)
(*                                                                         *)
(* A handler is any sequence of collector calls and raw uses of the        *)
(* response writer, followed by one reply of the library (Redirect,        *)
(* Location, Precognition, Render) or none, and a return or a panic.  It   *)
(* runs in one goroutine, so a reply is one step; CookieStore shows that   *)
(* the store's calls may be taken as atomic.                               *)
(*                                                                         *)
(* An error map is the set of its fields.  A message's value is opaque and *)
(* drawn from the same sets; the empty set is an absent map key.           *)
(***************************************************************************)
EXTENDS Naturals, Sequences

CONSTANTS
  Fields,      \* fields a form can have errors on
  Bags,        \* error bags of the session
  DefaultBag,  \* Config.DefaultErrorBag
  Unnamed,     \* the collector's bag ""
  Keys,        \* keys of flash messages
  Infos,       \* the RequestInfos considered
  Seeds,       \* payloads a request's cookie may hold
  Oversize,    \* payloads whose encoded cookie exceeds MaxBytes
  MaxOps,      \* bound: collector and raw writer calls per request
  NoBag,       \* X-Inertia-Error-Bag is absent
  NoPending,   \* CookieStore.pending has no entry for the response
  NotSent      \* the header map has not been committed

INSTANCE FlashPayload WITH Vals <- (SUBSET Fields) \ {{}}, Absent <- {}

CollectorBags == Bags \cup {Unnamed}

\* An accumulator of CookieStore.
Objects == [payload : Payload, dirty : BOOLEAN]

InfoType ==
  [inertia : BOOLEAN, prefetch : BOOLEAN, precognition : BOOLEAN,
   method : {"GET", "POST", "PUT", "PATCH", "DELETE"},
   stale : BOOLEAN, errorBag : Bags \cup {NoBag}, validateOnly : SUBSET Fields]

ASSUME BagAssumption      == DefaultBag \in Bags /\ Unnamed \notin Bags /\ NoBag \notin Bags
ASSUME InfosAssumption    == Infos \subseteq InfoType
ASSUME SeedsAssumption    == Seeds \subseteq Payload
ASSUME OversizeAssumption == EmptyPayload \notin Oversize
ASSUME PendingAssumption  == NoPending \notin Objects
ASSUME BoundAssumption    == MaxOps \in Nat

VARIABLES
  cookie,      \* the payload in the request's cookie
  info,        \* the parsed RequestInfo
  stage,       \* "arrived", "handling", "replied" or "done"
  taken,       \* what the middleware took: [errors, messages]
  collected,   \* the collectors: [errors : CollectorBags -> .., flash : Keys -> ..]
  pending,     \* CookieStore's accumulator for the response, or NoPending
  once,        \* the flushWriter's sync.Once has fired
  setCookies,  \* the session cookies in the header map
  tooLarge,    \* FlushResponse failed with ErrCookieTooLarge
  wire,        \* setCookies as net/http sent it, or NotSent
  hijacked,    \* the connection was taken from net/http
  status,      \* the committed status code, 0 before
  reply,       \* the library call that replied, or "none"
  early,       \* the handler used the response writer before that reply
  ops          \* collector and raw calls so far

request  == <<cookie, info>>
response == <<pending, once, setCookies, tooLarge, wire, hijacked, status>>
vars == <<request, stage, taken, collected, response, reply, early, ops>>

-----------------------------------------------------------------------------
(* The store and the response writer.  The methods of flushWriter get the  *)
(* accumulator o as the call before them left it.                          *)

\* Wrong variant: the accumulator is not seeded from the request's cookie.
SeededEmpty(o) ==
  IF o = NoPending THEN [payload |-> EmptyPayload, dirty |-> FALSE] ELSE o

\* ensurePending
Seeded(o) == IF o = NoPending THEN [payload |-> cookie, dirty |-> FALSE] ELSE o

\* One Store call on it.
StoreCall(o, q) ==
  [payload |-> After(Seeded(o).payload, q),
   dirty   |-> Seeded(o).dirty \/ Dirties(Seeded(o).payload, q)]

Changed(o) == o # NoPending /\ o.dirty

\* FlushResponse: evict the accumulator, write its Set-Cookie.
FlushResponse(o) ==
  LET fits == Changed(o) /\ o.payload \notin Oversize IN
  /\ once' = TRUE
  /\ pending' = NoPending
  /\ setCookies' = IF fits THEN Append(setCookies, o.payload) ELSE setCookies
  /\ tooLarge' = (tooLarge \/ (Changed(o) /\ ~fits))

\* Wrong variant: the flush callback without the sync.Once.
DrainAlways(o) == FlushResponse(o)

\* The flush callback behind the sync.Once.
Drain(o) ==
  \/ ~once /\ FlushResponse(o)
  \/ once /\ pending' = o /\ UNCHANGED <<once, setCookies, tooLarge>>

\* net/http sends the header map as it is at this point, once.
Committed == wire # NotSent \/ hijacked
Commit    == wire' = IF Committed THEN wire ELSE setCookies'

\* Wrong variants of the methods below: the session is drained only by the
\* deferred flushNow, a streaming handler reaches the underlying writer through
\* Unwrap, and a handler that writes nothing is not drained at all.
Undrained(o)       == pending' = o /\ UNCHANGED <<once, setCookies, tooLarge>>
WriteUndrained(o)  == Undrained(o) /\ Commit
FlushUnwrapped(o)  == Undrained(o) /\ Commit
FlushNowMissing(o) == Undrained(o)

\* The methods of flushWriter.  An informational (1xx) header is sent without
\* ending the header map's life.
WriteHeader(o)    == Drain(o) /\ Commit
WriteHeader1xx(o) == Drain(o) /\ UNCHANGED wire
Write(o)          == Drain(o) /\ Commit
FlushError(o)     == Drain(o) /\ Commit
Hijack(o)         == Drain(o) /\ UNCHANGED wire
FlushNow(o)       == Drain(o)

-----------------------------------------------------------------------------

SessionBag(n) == IF n = Unnamed THEN DefaultBag ELSE n
RequestBag    == IF info.errorBag = NoBag THEN DefaultBag ELSE info.errorBag

\* The collector bags with errors that persistCollectors writes to b.
Sources(b) ==
  {n \in CollectorBags : SessionBag(n) = b /\ collected.errors[n] # {}}

HasCollected ==
  \/ \E n \in CollectorBags : collected.errors[n] # {}
  \/ \E k \in Keys : collected.flash[k] # {}

\* Go's map order decides which of two collector bags with one session name
\* is written last: last[b].
Orders == {o \in [Bags -> CollectorBags] :
             \A b \in Bags : IF Sources(b) = {} THEN o[b] = b ELSE o[b] \in Sources(b)}

\* persistCollectors: FlashErrors for every bag, FlashMessage for every key.
Persisted(p, last) ==
  [errors   |-> [b \in Bags |-> IF Sources(b) = {} THEN p.errors[b]
                                ELSE collected.errors[last[b]]],
   messages |-> [k \in Keys |-> IF collected.flash[k] = {} THEN p.messages[k]
                                ELSE collected.flash[k]]]

PersistCollectors(last) ==
  IF HasCollected THEN [payload |-> Persisted(Seeded(pending).payload, last), dirty |-> TRUE]
                  ELSE pending

-----------------------------------------------------------------------------

Init ==
  /\ cookie \in Seeds
  /\ info \in Infos
  /\ stage = "arrived"
  /\ taken = [errors |-> {}, messages |-> NoMessages]
  /\ collected = [errors |-> [n \in CollectorBags |-> {}], flash |-> NoMessages]
  /\ pending = NoPending
  /\ once = FALSE
  /\ setCookies = <<>>
  /\ tooLarge = FALSE
  /\ wire = NotSent
  /\ hijacked = FALSE
  /\ status = 0
  /\ reply = "none"
  /\ early = FALSE
  /\ ops = 0

\* Middleware up to next.ServeHTTP: take the request bag's errors, then all
\* messages.
Middleware ==
  LET o == StoreCall(pending, [kind |-> "TakeErrors", bag |-> RequestBag]) IN
  /\ stage = "arrived"
  /\ stage' = "handling"
  /\ taken' = [errors |-> cookie.errors[RequestBag], messages |-> o.payload.messages]
  /\ pending' = StoreCall(o, [kind |-> "TakeMessages"])
  /\ UNCHANGED <<request, collected, once, setCookies, tooLarge, wire, hijacked,
                 status, reply, early, ops>>

InHandler ==
  /\ stage = "handling" /\ ops < MaxOps
  /\ ops' = ops + 1
  /\ UNCHANGED <<request, stage, taken, reply>>

\* ValidationErrors(r).Bag(n).Add(f, ..)
AddError(n, f) ==
  /\ InHandler
  /\ collected' = [collected EXCEPT !.errors[n] = @ \cup {f}]
  /\ UNCHANGED <<response, early>>

\* Flash(r).Set(k, v)
SetFlash(k, v) ==
  /\ InHandler
  /\ collected' = [collected EXCEPT !.flash[k] = v]
  /\ UNCHANGED <<response, early>>

\* The rest of an action in which the handler uses the response writer itself;
\* a header that commits has the status 200.
Raw ==
  /\ InHandler
  /\ early' = TRUE
  /\ status' = IF ~Committed /\ wire' # NotSent THEN 200 ELSE status
  /\ UNCHANGED collected

RawWriteHeader    == WriteHeader(pending) /\ UNCHANGED hijacked /\ Raw
RawWriteHeader1xx == WriteHeader1xx(pending) /\ UNCHANGED hijacked /\ Raw
RawWrite          == Write(pending) /\ UNCHANGED hijacked /\ Raw
RawFlush          == FlushError(pending) /\ UNCHANGED hijacked /\ Raw
RawHijack         == /\ ~hijacked
                     /\ Hijack(pending)
                     /\ hijacked' \in BOOLEAN  \* FALSE: ErrNotSupported
                     /\ Raw

\* A library call ends the handler's own work with `code`, unless a header
\* was committed before.
Reply(name, code) ==
  /\ stage = "handling"
  /\ stage' = "replied"
  /\ reply' = name
  /\ status' = IF Committed THEN status ELSE code
  /\ UNCHANGED <<request, taken, collected, hijacked, early, ops>>

\* Wrong variant: the method is kept across the redirect.
RedirectCodeKeepingMethod(fragment) ==
  IF fragment /\ info.inertia /\ ~info.prefetch THEN 409
  ELSE IF info.method \in {"PUT", "PATCH", "DELETE"} THEN 307 ELSE 302

RedirectCode(fragment) ==
  IF fragment /\ info.inertia /\ ~info.prefetch THEN 409
  ELSE IF info.method \in {"PUT", "PATCH", "DELETE"} THEN 303 ELSE 302

\* Redirect, and Back with the Referer as the URL.
Redirect == \E fragment \in BOOLEAN, last \in Orders :
  Reply("Redirect", RedirectCode(fragment)) /\ WriteHeader(PersistCollectors(last))

Location == \E last \in Orders :
  /\ Reply("Location", IF info.inertia THEN 409 ELSE 302)
  /\ WriteHeader(PersistCollectors(last))

\* The errors Precognition reports: the request's bag, where the default bag
\* is the collector's unnamed one.
PrecognitionErrors ==
  LET errs == collected.errors[IF RequestBag = DefaultBag THEN Unnamed ELSE RequestBag] IN
  IF info.validateOnly = {} THEN errs ELSE errs \cap info.validateOnly

Precognition ==
  /\ info.precognition
  /\ Reply("Precognition", IF PrecognitionErrors = {} THEN 204 ELSE 422)
  /\ WriteHeader(pending)

\* Render answers a version mismatch, an evaluated page, or the ErrorHandler's
\* response for a failed prop.
Render ==
  \/ /\ info.inertia /\ info.method = "GET" /\ info.stale
     /\ Reply("Render", 409)
     /\ WriteHeader(pending)
  \/ /\ ~(info.inertia /\ info.method = "GET" /\ info.stale)
     /\ \/ Reply("Render", 200) /\ Write(pending)
        \/ Reply("Render", 500) /\ WriteHeader(pending)

\* The deferred flushNow, then net/http ends the response.
Return ==
  /\ stage \in {"handling", "replied"}
  /\ stage' = "done"
  /\ FlushNow(pending) /\ Commit
  /\ status' = IF Committed THEN status ELSE 200
  /\ UNCHANGED <<request, taken, collected, hijacked, reply, early, ops>>

\* A panic runs the deferred flushNow; net/http then drops the connection.
Panic ==
  /\ stage \in {"handling", "replied"}
  /\ stage' = "done"
  /\ FlushNow(pending)
  /\ UNCHANGED <<request, taken, collected, wire, hijacked, status, reply, early, ops>>

Next ==
  \/ Middleware
  \/ \E n \in CollectorBags, f \in Fields : AddError(n, f)
  \/ \E k \in Keys, v \in (SUBSET Fields) \ {{}} : SetFlash(k, v)
  \/ RawWriteHeader \/ RawWriteHeader1xx \/ RawWrite \/ RawFlush \/ RawHijack
  \/ Redirect \/ Location \/ Precognition \/ Render
  \/ Return \/ Panic

Spec == Init /\ [][Next]_vars

-----------------------------------------------------------------------------
(* Properties.                                                             *)

TypeOK ==
  /\ cookie \in Payload
  /\ info \in InfoType
  /\ stage \in {"arrived", "handling", "replied", "done"}
  /\ taken \in [errors : SUBSET Fields, messages : Messages]
  /\ collected \in [errors : [CollectorBags -> SUBSET Fields], flash : Messages]
  /\ pending \in Objects \cup {NoPending}
  /\ once \in BOOLEAN
  /\ setCookies \in Seq(Payload)
  /\ tooLarge \in BOOLEAN
  /\ wire \in Seq(Payload) \cup {NotSent}
  /\ hijacked \in BOOLEAN
  /\ status \in {0, 200, 204, 302, 303, 409, 422, 500}
  /\ reply \in {"none", "Redirect", "Location", "Precognition", "Render"}
  /\ early \in BOOLEAN
  /\ ops \in 0..MaxOps

\* The response that reached the browser.
Sent == stage = "done" /\ wire # NotSent

Took == taken.errors # {} \/ taken.messages # NoMessages

\* The reply persisted the collectors into the accumulator of this response.
Redirected == reply \in {"Redirect", "Location"} /\ ~early

(* No Set-Cookie enters the header map after net/http sent it: on every     *)
(* path that commits, flushWriter drains the session first.                *)
NothingAfterCommit ==
  wire # NotSent => once /\ wire = setCookies

(* A response carries at most one session cookie, whichever and however    *)
(* many of flushWriter's methods run.                                      *)
OneSetCookie == Len(setCookies) <= 1

(* A response that took flash, or whose redirect persisted some, carries   *)
(* the cookie that says so; only a payload that does not fit is dropped.   *)
CookieIsSent ==
  Sent /\ ~tooLarge /\ (Took \/ (Redirected /\ HasCollected))
    => wire # <<>>

(* The cookie is the request's one, without what the middleware took and   *)
(* with what Redirect or Location persisted; nothing else is lost, added   *)
(* or resurrected (Render and Precognition flash nothing).                 *)
CookieIsExact ==
  Sent /\ wire # <<>> =>
    LET p == Head(wire) IN
    /\ \A b \in Bags :
         IF Redirected /\ Sources(b) # {}
           THEN \E n \in Sources(b) : p.errors[b] = collected.errors[n]
           ELSE p.errors[b] = IF b = RequestBag THEN {} ELSE cookie.errors[b]
    /\ \A k \in Keys :
         p.messages[k] = IF Redirected THEN collected.flash[k] ELSE {}

(* The response leaves no entry in CookieStore.pending, unless the handler *)
(* wrote to the response before a redirect that persists flash.            *)
NoEntryAfterReturn ==
  stage = "done" /\ pending # NoPending =>
    early /\ reply \in {"Redirect", "Location"} /\ HasCollected

-----------------------------------------------------------------------------
(* What the documentation says and the code does not do.                   *)

RedirectSent ==
  Sent /\ reply = "Redirect" /\ status \in {302, 303, 409} /\ ~tooLarge

(* Redirect: "Any errors or flash messages accumulated in the request's    *)
(* collectors are persisted to the session before the response is written" *)
(* (response.go:11-12).  The messages, whatever the handler did before:    *)
RedirectPersistsMessages ==
  RedirectSent => \A k \in Keys : collected.flash[k] # {} =>
    wire # <<>> /\ Head(wire).messages[k] = collected.flash[k]

(* The same sentence, for the errors of a handler that did not touch the   *)
(* response writer before.                                                 *)
RedirectPersistsErrors ==
  RedirectSent /\ ~early => \A n \in CollectorBags : collected.errors[n] # {} =>
    wire # <<>> /\ collected.errors[n] \subseteq Head(wire).errors[SessionBag(n)]

(* Precognition "inspects the validation errors collected via              *)
(* ValidationErrors(r) for the request's error bag" (precognition.go:11-17) *)
(* and answers 204 only if there are none.                                 *)
PrecognitionSeesTheBag ==
  reply = "Precognition" /\ status = 204 /\ info.validateOnly = {} =>
    Sources(RequestBag) = {}
=============================================================================
