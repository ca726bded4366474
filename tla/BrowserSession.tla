---------------------------- MODULE BrowserSession ----------------------------
(***************************************************************************)
(* One browser and the server's session.Store: visits in flight at the     *)
(* same time, each taking flash when the middleware starts (TakeErrors,    *)
(* TakeMessages) and flashing what its redirect persists, responses that   *)
(* arrive in any order or not at all, and restarts of the server.          *)
(*                                                                         *)
(* The store is a CookieStore (the flash travels in the cookie             *)
(* inertia_flash) or a MemoryStore (it stays in the server under the id    *)
(* in the cookie inertia_session).  RequestLifecycle shows what one        *)
(* request does to its accumulator and its Set-Cookie; here a Store call   *)
(* is one step, and a visit flashes each bag and key at most once, so that *)
(* the visit's name stands for the value it flashes.                       *)
(***************************************************************************)
EXTENDS Naturals, FiniteSets

CONSTANTS
  Visits,     \* the HTTP requests of the browser
  Bags, Keys, \* error bags and keys of flash messages
  Absent,     \* the value of a key a Go map does not hold
  Oversize,   \* payloads whose encoded cookie exceeds MaxBytes
  MaxFlash,   \* bound: flashes per visit
  NoId,       \* no inertia_session cookie
  NoEntry     \* MemoryStore.data has no entry for the id

INSTANCE FlashPayload WITH Vals <- Visits

\* What a visit can flash, and the ids sessionID can generate: one per call.
Slots  == Bags \cup Keys
Ids    == Visits \X Slots
Faults == {"overlap", "lost", "oversize", "expired", "restart"}

ASSUME VisitAssumption    == Absent \notin Visits
ASSUME SlotAssumption     == Bags \cap Keys = {}
ASSUME SentinelAssumption == NoId \notin Ids /\ NoEntry \notin Payload
ASSUME OversizeAssumption == EmptyPayload \notin Oversize
ASSUME BoundAssumption    == MaxFlash \in Nat

VARIABLES
  backend,  \* Config.Session: "cookie" or "memory"
  jar,      \* the browser's cookies: [flash : Payload, id : Ids or NoId]
  data,     \* MemoryStore.data
  stage,    \* the progress of each visit
  bag,      \* the error bag of each visit, from its request's header or the default
  id,       \* the inertia_session cookie of each request
  acc,      \* CookieStore's accumulator for each visit, seeded from its cookie
  minted,   \* the inertia_session cookie in each response's header map
  taken,    \* what the middleware took for each visit
  flashed,  \* the slots each visit has flashed
  seen,     \* the visits that had been delivered when each visit was sent
  prior,    \* the visits that had been delivered when it was delivered
  faults    \* what has happened to the session so far

server  == <<data, acc, minted>>
history == <<taken, flashed>>
times   == <<seen, prior>>
vars == <<backend, jar, server, stage, bag, id, history, times, faults>>

-----------------------------------------------------------------------------

Value(p, s) == IF s \in Bags THEN p.errors[s] ELSE p.messages[s]

FlashCall(v, s) ==
  IF s \in Bags THEN [kind |-> "FlashErrors", bag |-> s, val |-> v]
                ELSE [kind |-> "FlashMessage", key |-> s, val |-> v]

InServer(v)  == stage[v] \in {"sent", "taking", "handling"}
InFlight(v)  == InServer(v) \/ stage[v] = "answered"
Delivered    == {v \in Visits : stage[v] = "delivered"}
Memory       == backend = "memory"

TypeOK ==
  /\ backend \in {"cookie", "memory"}
  /\ jar \in [flash : Payload, id : Ids \cup {NoId}]
  /\ data \in [Ids -> Payload \cup {NoEntry}]
  /\ stage \in [Visits -> {"unsent", "sent", "taking", "handling", "answered",
                           "delivered", "lost"}]
  /\ bag \in [Visits -> Bags \cup {Absent}]
  /\ id \in [Visits -> Ids \cup {NoId}]
  /\ acc \in [Visits -> [payload : Payload, dirty : BOOLEAN]]
  /\ minted \in [Visits -> Ids \cup {NoId}]
  /\ taken \in [Visits -> Payload]
  /\ flashed \in [Visits -> SUBSET Slots]
  /\ seen \in [Visits -> SUBSET Visits]
  /\ prior \in [Visits -> SUBSET Visits]
  /\ faults \subseteq Faults

Init ==
  /\ backend \in {"cookie", "memory"}
  /\ jar = [flash |-> EmptyPayload, id |-> NoId]
  /\ data = [i \in Ids |-> NoEntry]
  /\ stage = [v \in Visits |-> "unsent"]
  /\ bag = [v \in Visits |-> Absent]
  /\ id = [v \in Visits |-> NoId]
  /\ acc = [v \in Visits |-> [payload |-> EmptyPayload, dirty |-> FALSE]]
  /\ minted = [v \in Visits |-> NoId]
  /\ taken = [v \in Visits |-> EmptyPayload]
  /\ flashed = [v \in Visits |-> {}]
  /\ seen = [v \in Visits |-> {}]
  /\ prior = [v \in Visits |-> {}]
  /\ faults = {}

\* A step happens that breaks the session's promise if `bad` holds.
Fault(kind, bad) == faults' = IF bad THEN faults \cup {kind} ELSE faults

-----------------------------------------------------------------------------
(* The stores.                                                             *)

\* Wrong variant: the accumulator is not seeded from the request's cookie.
EnsurePendingEmpty(p) == [payload |-> EmptyPayload, dirty |-> FALSE]

\* CookieStore's accumulator for a request whose cookie holds p.
EnsurePending(p) == [payload |-> p, dirty |-> FALSE]

\* Wrong variant: a take does not mark the accumulator.
CookieCallClean(v, q) ==
  /\ acc' = [acc EXCEPT ![v] =
       [payload |-> After(@.payload, q),
        dirty |-> @.dirty \/ q.kind \in {"FlashErrors", "FlashMessage"}]]
  /\ UNCHANGED <<data, minted>>

\* A CookieStore call works on the accumulator of the visit's response.
CookieCall(v, q) ==
  /\ acc' = [acc EXCEPT ![v] =
       [payload |-> After(@.payload, q), dirty |-> @.dirty \/ Dirties(@.payload, q)]]
  /\ UNCHANGED <<data, minted>>

\* MemoryStore's takes look the request's cookie up and never make an entry.
Known(v) == id[v] # NoId /\ data[id[v]] # NoEntry

\* Wrong variant: the take leaves what it returns in the entry.
MemoryTakeKeeping(v, q) == UNCHANGED server

MemoryTake(v, q) ==
  /\ data' = IF Known(v) THEN [data EXCEPT ![id[v]] = After(@, q)] ELSE data
  /\ UNCHANGED <<acc, minted>>

\* The payload a visit's take reads.
Session(v) ==
  IF ~Memory THEN acc[v].payload
  ELSE IF Known(v) THEN data[id[v]] ELSE EmptyPayload

\* Wrong variant: only the request's cookie is looked at.
SessionIDIgnoringHeader(v, s) == IF id[v] # NoId THEN id[v] ELSE <<v, s>>

\* sessionID: the request's cookie, the one already in the header map, a new one.
SessionID(v, s) ==
  IF id[v] # NoId THEN id[v]
  ELSE IF minted[v] # NoId THEN minted[v] ELSE <<v, s>>

Entry(i) == IF data[i] = NoEntry THEN EmptyPayload ELSE data[i]

\* Wrong variant: a flash starts the entry anew.
MemoryFlashAnew(v, s) ==
  LET i == SessionID(v, s) IN
  /\ data' = [data EXCEPT ![i] = After(EmptyPayload, FlashCall(v, s))]
  /\ minted' = IF id[v] = NoId THEN [minted EXCEPT ![v] = i] ELSE minted
  /\ UNCHANGED acc

MemoryFlash(v, s) ==
  LET i == SessionID(v, s) IN
  /\ data' = [data EXCEPT ![i] = After(Entry(i), FlashCall(v, s))]
  /\ minted' = IF id[v] = NoId THEN [minted EXCEPT ![v] = i] ELSE minted
  /\ UNCHANGED acc

\* The Set-Cookie of a response.
SendsFlash(v) == acc[v].dirty /\ acc[v].payload \notin Oversize
SendsId(v)    == minted[v] # NoId

-----------------------------------------------------------------------------

\* The browser sends a request with its cookies.  A CookieStore's visits, and a
\* MemoryStore's before the browser has an id, must not overlap.
Send(v, b) ==
  /\ stage[v] = "unsent"
  /\ stage' = [stage EXCEPT ![v] = "sent"]
  /\ bag' = [bag EXCEPT ![v] = b]
  /\ id' = [id EXCEPT ![v] = jar.id]
  /\ acc' = [acc EXCEPT ![v] = EnsurePending(jar.flash)]
  /\ seen' = [seen EXCEPT ![v] = Delivered]
  /\ Fault("overlap", jar.id = NoId /\ \E u \in Visits : InFlight(u))
  /\ UNCHANGED <<backend, jar, data, minted, history, prior>>

TakeErrors(v) ==
  LET q == [kind |-> "TakeErrors", bag |-> bag[v]] IN
  /\ stage[v] = "sent"
  /\ stage' = [stage EXCEPT ![v] = "taking"]
  /\ taken' = [taken EXCEPT ![v].errors[bag[v]] = Session(v).errors[bag[v]]]
  /\ \/ Memory /\ MemoryTake(v, q)
     \/ ~Memory /\ CookieCall(v, q)
  /\ UNCHANGED <<backend, jar, bag, id, flashed, times, faults>>

TakeMessages(v) ==
  LET q == [kind |-> "TakeMessages"] IN
  /\ stage[v] = "taking"
  /\ stage' = [stage EXCEPT ![v] = "handling"]
  /\ taken' = [taken EXCEPT ![v].messages = Session(v).messages]
  /\ \/ Memory /\ MemoryTake(v, q)
     \/ ~Memory /\ CookieCall(v, q)
  /\ UNCHANGED <<backend, jar, bag, id, flashed, times, faults>>

\* One Store call of persistCollectors: the bags in map order, then the keys.
Flash(v, s) ==
  /\ stage[v] = "handling"
  /\ s \notin flashed[v] /\ Cardinality(flashed[v]) < MaxFlash
  /\ s \in Bags => flashed[v] \cap Keys = {}
  /\ flashed' = [flashed EXCEPT ![v] = @ \cup {s}]
  /\ \/ Memory /\ MemoryFlash(v, s)
     \/ ~Memory /\ CookieCall(v, FlashCall(v, s))
  /\ UNCHANGED <<backend, jar, stage, bag, id, taken, times, faults>>

\* The response's header is written: FlushResponse adds the flash cookie,
\* unless it is too large.
Answer(v) ==
  /\ stage[v] = "handling"
  /\ stage' = [stage EXCEPT ![v] = "answered"]
  /\ Fault("oversize", acc[v].dirty /\ acc[v].payload \in Oversize)
  /\ UNCHANGED <<backend, jar, server, bag, id, history, times>>

\* The browser receives the response and its Set-Cookie.
Deliver(v) ==
  /\ stage[v] = "answered"
  /\ stage' = [stage EXCEPT ![v] = "delivered"]
  /\ prior' = [prior EXCEPT ![v] = Delivered]
  /\ jar' = [flash |-> IF SendsFlash(v) THEN acc[v].payload ELSE jar.flash,
             id    |-> IF SendsId(v) THEN minted[v] ELSE jar.id]
  /\ UNCHANGED <<backend, server, bag, id, history, seen, faults>>

\* It never does: the connection broke, or the client cancelled the visit.
Lose(v) ==
  /\ stage[v] = "answered"
  /\ stage' = [stage EXCEPT ![v] = "lost"]
  /\ Fault("lost", SendsFlash(v) \/ SendsId(v))
  /\ UNCHANGED <<backend, jar, server, bag, id, history, times>>

\* MaxAge has passed since the flash cookie was set.
Expire ==
  /\ jar.flash # EmptyPayload
  /\ jar' = [jar EXCEPT !.flash = EmptyPayload]
  /\ Fault("expired", TRUE)
  /\ UNCHANGED <<backend, server, stage, bag, id, history, times>>

\* The process dies, with MemoryStore.data and the requests it is handling.
Restart ==
  /\ stage' = [v \in Visits |-> IF InServer(v) THEN "lost" ELSE stage[v]]
  /\ data' = [i \in Ids |-> NoEntry]
  /\ Fault("restart", \/ \E i \in Ids : data[i] # NoEntry
                      \/ \E v \in Visits : InServer(v) /\ acc[v].dirty)
  /\ UNCHANGED <<backend, jar, acc, minted, bag, id, history, times>>

Next ==
  \/ \E v \in Visits :
       \/ \E b \in Bags : Send(v, b)
       \/ TakeErrors(v) \/ TakeMessages(v)
       \/ \E s \in Slots : Flash(v, s)
       \/ Answer(v) \/ Deliver(v) \/ Lose(v)
  \/ Expire \/ Restart

Spec == Init /\ [][Next]_vars

-----------------------------------------------------------------------------
(* Properties.                                                             *)

Took(v, s, u) == Value(taken[v], s) = u

(* However the visits of a browser overlap, and whatever is lost, a flash  *)
(* in a MemoryStore is shown by at most one of them, and then it is in no  *)
(* entry any more: TakeErrors and TakeMessages read and clear in one       *)
(* critical section each.                                                  *)
MemoryTakenOnce ==
  Memory => \A u \in Visits, s \in Slots, v \in Visits : Took(v, s, u) =>
    /\ \A w \in Visits \ {v} : ~Took(w, s, u)
    /\ \A i \in Ids : data[i] # NoEntry => Value(data[i], s) # u

(* A CookieStore's flash that reached the browser is not lost, not even by *)
(* a restart or by the loss of the response that shows it: it stays in the *)
(* jar until a response that shows it arrives, or it expires, or a later   *)
(* visit replaces it, or the response to a visit sent before it arrived    *)
(* overwrites the cookie.                                                  *)
CookieAccounted ==
  ~Memory /\ "expired" \notin faults =>
    \A u \in Delivered : \A s \in flashed[u] : SendsFlash(u) =>
      \/ Value(jar.flash, s) = u
      \/ \E v \in Delivered : u \in seen[v] /\ Took(v, s, u)
      \/ \E v \in Delivered : /\ u \in prior[v] /\ SendsFlash(v)
                              /\ s \in flashed[v] \/ u \notin seen[v]

(* A CookieStore's flash is shown again by a visit that was sent after the *)
(* first response arrived only if that response's cookie was too large, or *)
(* the response to a third visit, sent before, restored the old cookie.    *)
CookieTakenAgain ==
  ~Memory => \A u \in Visits, s \in Slots, v, w \in Visits :
    Took(v, s, u) /\ Took(w, s, u) /\ v \in seen[w] =>
      \/ acc[v].payload \in Oversize
      \/ \E x \in Delivered \ {v, w} : v \in prior[x] /\ v \notin seen[x]

(* What a MemoryStore holds under an id the browser does not send (nothing *)
(* ever deletes an entry) is there because the response with the id did    *)
(* not arrive, or because two visits without an id were in flight at once. *)
OrphanOnlyByTwoIds ==
  \A i \in Ids : data[i] # NoEntry /\ jar.id # i =>
    \E v \in Visits :
      /\ minted[v] = i
      /\ \/ v \notin Delivered
         \/ \E w \in Delivered \ {v} : minted[w] = jar.id /\ v \notin seen[w]

-----------------------------------------------------------------------------
(* The implementation of FlashMailbox: the session is the accumulator of   *)
(* the visit in flight, else the browser's cookie; the entry of the        *)
(* browser's id, else of the id that is on its way.                        *)

CookieBox ==
  IF \E v \in Visits : InFlight(v)
    THEN acc[CHOOSE v \in Visits : InFlight(v)].payload ELSE jar.flash

MemoryBox ==
  IF jar.id # NoId THEN Entry(jar.id)
  ELSE IF \E v \in Visits : InFlight(v) /\ SendsId(v)
    THEN Entry(minted[CHOOSE v \in Visits : InFlight(v) /\ SendsId(v)])
    ELSE EmptyPayload

Mailbox == INSTANCE FlashMailbox WITH box <- IF Memory THEN MemoryBox ELSE CookieBox

(* Until a fault happens the browser's session is one mailbox: visits that *)
(* a MemoryStore handles at the same time take turns, as do those of a     *)
(* CookieStore that do not overlap.                                        *)
ImplementsMailbox == Mailbox!Spec
=============================================================================
