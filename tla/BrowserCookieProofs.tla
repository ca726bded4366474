------------------------- MODULE BrowserCookieProofs -------------------------
(***************************************************************************)
(* Theorems about BrowserSession's CookieStore: where a flash that reached *)
(* the browser can be, and how one can be shown twice.                     *)
(***************************************************************************)
EXTENDS BrowserSessionProofs

-----------------------------------------------------------------------------
(* The steps of a visit on its accumulator.                                *)

LEMMA CookieTakes ==
  ASSUME TypeOK, StageInv, ~Memory, NEW v \in Visits, TakeErrors(v) \/ TakeMessages(v)
  PROVE  /\ \E T \in SUBSET Slots : Takes(v, T)
         /\ flashed[v] = {} /\ flashed'[v] = {} /\ v \notin Delivered
         /\ UNCHANGED <<jar, seen, prior, faults, backend, flashed>>
         /\ InFlight(v)
<1> USE DEF server, history, times
<1>1. \E T \in SUBSET Slots : Takes(v, T)
  BY TakeErrorsTakes, TakeMessagesTakes DEF Slots
<1>2. stage[v] \in {"sent", "taking"} /\ UNCHANGED <<jar, seen, prior, faults, backend, flashed>>
  BY DEF TakeErrors, TakeMessages
<1>3. flashed[v] = {}
  BY <1>2 DEF StageInv
<1> QED  BY <1>1, <1>2, <1>3 DEF Delivered, InFlight, InServer

LEMMA CookieFlashes ==
  ASSUME TypeOK, ~Memory, NEW v \in Visits, NEW s \in Slots, Flash(v, s)
  PROVE  /\ Value(acc'[v].payload, s) = v
         /\ \A t \in Slots \ {s} : Value(acc'[v].payload, t) = Value(acc[v].payload, t)
         /\ acc'[v].dirty
         /\ flashed'[v] = flashed[v] \cup {s}
         /\ UNCHANGED <<jar, seen, prior, faults, backend, taken, stage>>
         /\ stage[v] = "handling"
<1> USE DEF server, history, times
<1> acc \in [Visits -> AccType] /\ flashed \in [Visits -> SUBSET Slots]
  BY DEF TypeOK, AccType
<1>1. acc[v].payload \in Payload
  BY DEF AccType
<1>2. /\ CookieCall(v, FlashCall(v, s)) /\ flashed'[v] = flashed[v] \cup {s}
      /\ UNCHANGED <<jar, seen, prior, faults, backend, taken, stage>>
      /\ stage[v] = "handling"
  BY DEF Flash
<1>3. /\ After(acc[v].payload, FlashCall(v, s)) \in Payload
      /\ Value(After(acc[v].payload, FlashCall(v, s)), s) = v
      /\ \A t \in Slots \ {s} :
           Value(After(acc[v].payload, FlashCall(v, s)), t) = Value(acc[v].payload, t)
      /\ Dirties(acc[v].payload, FlashCall(v, s))
  BY <1>1, FlashEffect
<1>4. /\ acc'[v].payload = After(acc[v].payload, FlashCall(v, s))
      /\ acc'[v].dirty = (acc[v].dirty \/ Dirties(acc[v].payload, FlashCall(v, s)))
  <2>1. Dirties(acc[v].payload, FlashCall(v, s)) \in BOOLEAN
    BY <1>3
  <2> QED  BY <1>2, <1>3, <2>1, CookieCallEffect
<1> QED  BY <1>2, <1>3, <1>4

\* A request starts with what the browser's cookie holds.
LEMMA Sends ==
  ASSUME TypeOK, StageInv, NEW v \in Visits, NEW b \in Bags, Send(v, b)
  PROVE  /\ acc'[v].payload = jar.flash /\ seen'[v] = Delivered
         /\ UNCHANGED <<jar, prior, backend, taken, flashed>>
         /\ flashed[v] = {} /\ v \notin Delivered /\ taken[v] = EmptyPayload
         /\ "expired" \notin faults' => "expired" \notin faults
<1> USE DEF server, history, times
<1>1. acc'[v] = EnsurePending(jar.flash) /\ seen'[v] = Delivered
  BY DEF Send, TypeOK
<1>2. stage[v] = "unsent" /\ UNCHANGED <<jar, prior, backend, taken, flashed>>
  BY DEF Send
<1>3. "expired" \notin faults' => "expired" \notin faults
  BY DEF Send, Fault
<1> QED  BY <1>1, <1>2, <1>3 DEF EnsurePending, StageInv, Delivered

\* The response of v replaces the browser's cookie, or leaves it.
LEMMA Delivers ==
  ASSUME TypeOK, NEW v \in Visits, Deliver(v)
  PROVE  /\ UNCHANGED <<acc, seen, taken, flashed, backend, faults>>
         /\ Delivered' = Delivered \cup {v} /\ v \notin Delivered /\ InFlight(v)
         /\ prior'[v] = Delivered
         /\ SendsFlash(v) => jar'.flash = acc[v].payload
         /\ ~SendsFlash(v) => jar'.flash = jar.flash
         /\ \A x \in Visits : InFlight(x)' => InFlight(x)
<1> USE DEF server, history, times
<1>1. stage \in [Visits -> Stages] /\ prior \in [Visits -> SUBSET Visits]
  BY DEF TypeOK, Stages
<1>2. /\ stage[v] = "answered" /\ stage' = [stage EXCEPT ![v] = "delivered"]
      /\ UNCHANGED <<acc, seen, taken, flashed, backend, faults>>
      /\ prior' = [prior EXCEPT ![v] = Delivered]
  BY DEF Deliver
<1>3. /\ SendsFlash(v) => jar'.flash = acc[v].payload
      /\ ~SendsFlash(v) => jar'.flash = jar.flash
  BY DEF Deliver
<1> QED  BY <1>1, <1>2, <1>3 DEF Delivered, InFlight, InServer

LEMMA FaultsStay ==
  ASSUME NEW kind, NEW bad, Fault(kind, bad)
  PROVE  "expired" \notin faults' => "expired" \notin faults
BY DEF Fault

\* Steps that take visits out of flight, and a cookie that expires.
LEMMA Ends ==
  ASSUME TypeOK, NEW v \in Visits, Answer(v) \/ Lose(v) \/ Expire \/ Restart
  PROVE  /\ UNCHANGED <<acc, seen, prior, taken, flashed, backend>>
         /\ Delivered' = Delivered
         /\ jar'.flash = jar.flash \/ (jar'.flash = EmptyPayload /\ "expired" \in faults')
         /\ "expired" \notin faults' => "expired" \notin faults
         /\ \A x \in Visits : InFlight(x)' => InFlight(x)
<1> USE DEF server, history, times
<1>1. stage \in [Visits -> Stages] /\ jar \in [flash : Payload, id : Ids \cup {NoId}]
  BY DEF TypeOK, Stages
<1>2. CASE Answer(v)
  <2>1. stage[v] = "handling" /\ stage' = [stage EXCEPT ![v] = "answered"]
    BY <1>2 DEF Answer
  <2>2. Delivered' = Delivered /\ \A x \in Visits : InFlight(x)' => InFlight(x)
    BY <1>1, <2>1 DEF Delivered, InFlight, InServer
  <2>3. /\ UNCHANGED <<acc, seen, prior, taken, flashed, backend, jar>>
        /\ "expired" \notin faults' => "expired" \notin faults
    BY <1>2, FaultsStay DEF Answer
  <2> QED  BY <2>2, <2>3
<1>3. CASE Lose(v)
  <2>1. stage[v] = "answered" /\ stage' = [stage EXCEPT ![v] = "lost"]
    BY <1>3 DEF Lose
  <2>2. Delivered' = Delivered /\ \A x \in Visits : InFlight(x)' => InFlight(x)
    BY <1>1, <2>1 DEF Delivered, InFlight, InServer
  <2>3. /\ UNCHANGED <<acc, seen, prior, taken, flashed, backend, jar>>
        /\ "expired" \notin faults' => "expired" \notin faults
    BY <1>3, FaultsStay DEF Lose
  <2> QED  BY <2>2, <2>3
<1>4. CASE Expire
  <2>1. jar'.flash = EmptyPayload
    BY <1>1, <1>4 DEF Expire
  <2>2. UNCHANGED <<acc, seen, prior, taken, flashed, backend, stage>> /\ "expired" \in faults'
    BY <1>4 DEF Expire, Fault
  <2> QED  BY <2>1, <2>2 DEF Delivered, InFlight, InServer
<1>5. CASE Restart
  <2>1. stage' = [x \in Visits |-> IF InServer(x) THEN "lost" ELSE stage[x]]
    BY <1>5 DEF Restart
  <2>2. \A x \in Visits : stage'[x] = IF InServer(x) THEN "lost" ELSE stage[x]
    BY <2>1
  <2>3. Delivered' = Delivered /\ \A x \in Visits : InFlight(x)' => InFlight(x)
    BY <2>2 DEF Delivered, InFlight, InServer
  <2>4. /\ UNCHANGED <<acc, seen, prior, taken, flashed, backend, jar>>
        /\ "expired" \notin faults' => "expired" \notin faults
    BY <1>5, FaultsStay DEF Restart
  <2> QED  BY <2>3, <2>4
<1> QED  BY <1>2, <1>3, <1>4, <1>5

-----------------------------------------------------------------------------
(* What a visit flashes is in its accumulator, and makes it dirty.         *)

FlashedInv ==
  ~Memory => \A v \in Visits : \A s \in flashed[v] :
    acc[v].dirty /\ Value(acc[v].payload, s) = v

LEMMA FlashedNext ==
  ASSUME TypeOK, StageInv, FlashedInv, Next
  PROVE  FlashedInv'
<1> SUFFICES ASSUME ~Memory, ~Memory', NEW v \in Visits, NEW s \in flashed'[v]
             PROVE  acc'[v].dirty /\ Value(acc'[v].payload, s) = v
  <2>1. Memory' <=> Memory
    BY DEF Next, Send, TakeErrors, TakeMessages, Flash, Answer, Deliver, Lose, Expire,
           Restart, Memory
  <2> QED  BY <2>1 DEF FlashedInv
<1>1. ASSUME Past(v) PROVE acc'[v].dirty /\ Value(acc'[v].payload, s) = v
  BY <1>1 DEF Past, FlashedInv
<1>2. ASSUME NEW x \in Visits, x # v, Others(x)
      PROVE  acc'[v].dirty /\ Value(acc'[v].payload, s) = v
  BY <1>1, <1>2 DEF Others
<1>3. ASSUME NEW b \in Bags, Send(v, b) PROVE FALSE
  BY <1>3, Sends
<1>4. CASE TakeErrors(v) \/ TakeMessages(v)
  BY <1>4, CookieTakes
<1>5. ASSUME NEW t \in Slots, Flash(v, t)
      PROVE  acc'[v].dirty /\ Value(acc'[v].payload, s) = v
  <2>1. s \in Slots
    BY TypeNext DEF TypeOK
  <2> QED  BY <1>5, <2>1, CookieFlashes DEF FlashedInv
<1>6. CASE UNCHANGED <<acc, flashed>>
  BY <1>6 DEF FlashedInv
<1>7. ASSUME NEW x \in Visits, Deliver(x) \/ Answer(x) \/ Lose(x) \/ Expire \/ Restart
      PROVE  UNCHANGED <<acc, flashed>>
  BY <1>7, Delivers, Ends
<1> QED  BY <1>2, <1>3, <1>4, <1>5, <1>6, <1>7, OthersFrame DEF Next

-----------------------------------------------------------------------------
(* Where a flash that reached the browser is.                              *)

Shown(u, s)    == \E v \in Delivered : u \in seen[v] /\ Took(v, s, u)
Replaced(u, s) == \E v \in Delivered :
                    /\ u \in prior[v] /\ SendsFlash(v)
                    /\ s \in flashed[v] \/ u \notin seen[v]
Settled(u, s)  == Shown(u, s) \/ Replaced(u, s)

\* Visit x carries the flash, has taken it, or has put its own in its place.
Carries(x, u, s) ==
  Value(acc[x].payload, s) = u \/ Took(x, s, u) \/ s \in flashed[x]

AccountInv ==
  ~Memory /\ "expired" \notin faults =>
    \A u \in Delivered : \A s \in flashed[u] : SendsFlash(u) /\ ~Settled(u, s) =>
      /\ Value(jar.flash, s) = u
      /\ \A x \in Visits : InFlight(x) /\ u \in seen[x] => Carries(x, u, s)

LEMMA SettledStay ==
  ASSUME TypeOK, Next, NEW u, NEW s, Settled(u, s)
  PROVE  Settled(u, s)'
<1>1. ASSUME NEW v \in Delivered
      PROVE  /\ v \in Delivered' /\ acc'[v] = acc[v] /\ taken'[v] = taken[v]
             /\ flashed'[v] = flashed[v] /\ seen'[v] = seen[v] /\ prior'[v] = prior[v]
  BY DeliveredStay DEF Past
<1>2. CASE Shown(u, s)
  BY <1>1, <1>2 DEF Settled, Shown, Took
<1>3. CASE Replaced(u, s)
  BY <1>1, <1>3 DEF Settled, Replaced, SendsFlash
<1> QED  BY <1>2, <1>3 DEF Settled

\* The acting visit keeps what it carries.
LEMMA TakesCarry ==
  ASSUME TypeOK, ~Memory, NEW x \in Visits, NEW u \in Visits, NEW s \in Slots,
         NEW T \in SUBSET Slots, Takes(x, T), flashed'[x] = flashed[x], Carries(x, u, s)
  PROVE  Carries(x, u, s)'
<1>1. Session(x) = acc[x].payload
  BY DEF Session
<1>2. CASE s \in T
  <2>1. ~Took(x, s, u)
    BY <1>2, VisitAssumption DEF Takes, Took
  <2>2. Value(taken'[x], s) = Value(acc[x].payload, s)
    BY <1>1, <1>2 DEF Takes
  <2> QED  BY <2>1, <2>2 DEF Carries, Took
<1>3. CASE s \notin T
  <2>1. Value(taken'[x], s) = Value(taken[x], s)
    BY <1>3 DEF Takes
  <2>2. Value(acc'[x].payload, s) = Value(acc[x].payload, s)
    BY <1>3 DEF Takes, Emptied
  <2> QED  BY <2>1, <2>2 DEF Carries, Took
<1> QED  BY <1>2, <1>3

LEMMA FlashCarries ==
  ASSUME TypeOK, ~Memory, NEW x \in Visits, NEW t \in Slots, Flash(x, t),
         NEW u \in Visits, NEW s \in Slots, Carries(x, u, s)
  PROVE  Carries(x, u, s)'
BY CookieFlashes DEF Carries, Took

LEMMA MemorySame ==
  ASSUME Next
  PROVE  Memory' <=> Memory
BY DEF Next, Send, TakeErrors, TakeMessages, Flash, Answer, Deliver, Lose, Expire,
       Restart, Memory

LEMMA AccountNext ==
  ASSUME TypeOK, StageInv, OrphanInv, FlashedInv, AccountInv, Next
  PROVE  AccountInv'
<1> SUFFICES ASSUME ~Memory, "expired" \notin faults', NEW u \in Delivered',
                    NEW s \in flashed'[u], SendsFlash(u)', ~Settled(u, s)'
             PROVE  /\ Value(jar'.flash, s) = u
                    /\ \A x \in Visits : InFlight(x)' /\ u \in seen'[x] => Carries(x, u, s)'
  BY MemorySame DEF AccountInv
<1>0. u \in Visits /\ s \in Slots /\ ~Settled(u, s)
  BY TypeNext, SettledStay DEF TypeOK, Delivered
<1>1. ASSUME u \in Delivered, "expired" \notin faults
      PROVE  /\ Value(jar.flash, s) = u
             /\ \A x \in Visits : InFlight(x) /\ u \in seen[x] => Carries(x, u, s)
  <2>1. s \in flashed[u] /\ SendsFlash(u)
    BY <1>1, DeliveredStay DEF Past, SendsFlash
  <2> QED  BY <1>0, <1>1, <2>1 DEF AccountInv
<1>2. ASSUME NEW x \in Visits, Past(x), InFlight(x)', u \in seen'[x],
             u \in Delivered, "expired" \notin faults
      PROVE  Carries(x, u, s)'
  <2>1. InFlight(x) /\ u \in seen[x]
    BY <1>2 DEF Past, InFlight, InServer
  <2>2. Carries(x, u, s)
    BY <1>1, <1>2, <2>1
  <2> QED  BY <1>2, <2>2 DEF Past, Carries, Took
<1>3. ASSUME NEW v \in Visits, NEW b \in Bags, Send(v, b)
      PROVE  /\ Value(jar'.flash, s) = u
             /\ \A x \in Visits : InFlight(x)' /\ u \in seen'[x] => Carries(x, u, s)'
  <2>1. u \in Delivered
    <3>1. stage'[v] = "sent"
      BY <1>3 DEF Send, TypeOK
    <3>2. u # v
      BY <3>1 DEF Delivered
    <3> QED  BY <1>3, <3>2, OthersFrame DEF Others, Past, Delivered
  <2>2. Value(jar.flash, s) = u /\ jar' = jar /\ "expired" \notin faults
    BY <1>1, <1>3, <2>1, Sends
  <2>3. Carries(v, u, s)'
    BY <1>3, <2>2, Sends DEF Carries
  <2> QED  BY <1>2, <1>3, <2>1, <2>2, <2>3, OthersFrame DEF Others
<1>4. ASSUME NEW v \in Visits, TakeErrors(v) \/ TakeMessages(v)
      PROVE  /\ Value(jar'.flash, s) = u
             /\ \A x \in Visits : InFlight(x)' /\ u \in seen'[x] => Carries(x, u, s)'
  <2>1. u # v /\ u \in Delivered
    <3>1. v \notin Delivered'
      <4>1. stage'[v] \in {"taking", "handling"}
        BY <1>4 DEF TakeErrors, TakeMessages, TypeOK
      <4> QED  BY <4>1 DEF Delivered
    <3>2. u # v
      BY <3>1
    <3> QED  BY <1>4, <3>2, OthersFrame DEF Others, Past, Delivered
  <2>2. Value(jar.flash, s) = u /\ jar' = jar /\ "expired" \notin faults
    BY <1>1, <1>4, <2>1, CookieTakes
  <2>3. ASSUME u \in seen'[v] PROVE Carries(v, u, s)'
    <3>1. InFlight(v) /\ u \in seen[v] /\ flashed'[v] = flashed[v]
      BY <1>4, <2>3, CookieTakes
    <3>2. Carries(v, u, s)
      BY <1>1, <2>1, <2>2, <3>1
    <3> QED  BY <1>0, <1>4, <3>1, <3>2, CookieTakes, TakesCarry
  <2> QED  BY <1>2, <1>4, <2>1, <2>2, <2>3, OthersFrame DEF Others
<1>5. ASSUME NEW v \in Visits, NEW t \in Slots, Flash(v, t)
      PROVE  /\ Value(jar'.flash, s) = u
             /\ \A x \in Visits : InFlight(x)' /\ u \in seen'[x] => Carries(x, u, s)'
  <2>1. u \in Delivered
    BY <1>5, CookieFlashes DEF Delivered
  <2>2. Value(jar.flash, s) = u /\ jar' = jar /\ "expired" \notin faults
    BY <1>1, <1>5, <2>1, CookieFlashes
  <2>3. ASSUME u \in seen'[v] PROVE Carries(v, u, s)'
    <3>1. InFlight(v) /\ u \in seen[v]
      BY <1>5, <2>3, CookieFlashes DEF InFlight, InServer
    <3>2. Carries(v, u, s)
      BY <1>1, <2>1, <2>2, <3>1
    <3> QED  BY <1>0, <1>5, <3>2, FlashCarries
  <2> QED  BY <1>2, <1>5, <2>1, <2>2, <2>3, OthersFrame DEF Others
<1>6. ASSUME NEW v \in Visits, Deliver(v)
      PROVE  /\ Value(jar'.flash, s) = u
             /\ \A x \in Visits : InFlight(x)' /\ u \in seen'[x] => Carries(x, u, s)'
  <2> USE <1>6
  <2>1. /\ UNCHANGED <<acc, seen, taken, flashed, faults>>
        /\ Delivered' = Delivered \cup {v} /\ v \notin Delivered /\ InFlight(v)
        /\ prior'[v] = Delivered
        /\ SendsFlash(v) => jar'.flash = acc[v].payload
        /\ ~SendsFlash(v) => jar'.flash = jar.flash
        /\ \A x \in Visits : InFlight(x)' => InFlight(x)
    BY Delivers
  <2>2. CASE u = v
    <3>1. SendsFlash(v)
      BY <2>1, <2>2 DEF SendsFlash
    <3>2. Value(acc[v].payload, s) = v
      BY <2>1, <2>2 DEF FlashedInv
    <3>3. \A x \in Visits : v \notin seen'[x]
      BY <2>1 DEF OrphanInv
    <3> QED  BY <2>1, <2>2, <3>1, <3>2, <3>3
  <2>3. CASE u # v
    <3>1. u \in Delivered /\ "expired" \notin faults
      BY <2>1, <2>3
    <3>2. \A x \in Visits : InFlight(x)' /\ u \in seen'[x] => Carries(x, u, s)'
      BY <1>1, <2>1, <3>1 DEF Carries, Took
    <3>3. CASE ~SendsFlash(v)
      BY <1>1, <2>1, <3>1, <3>2, <3>3
    <3>4. CASE SendsFlash(v)
      <4>1. v \in Delivered' /\ u \in prior'[v] /\ SendsFlash(v)'
        BY <2>1, <3>1, <3>4 DEF SendsFlash
      <4>2. s \notin flashed'[v] /\ u \in seen'[v]
        BY <4>1 DEF Settled, Replaced
      <4>3. ~Took(v, s, u)'
        BY <4>1, <4>2 DEF Settled, Shown
      <4>4. Carries(v, u, s)
        BY <1>1, <2>1, <3>1, <4>2
      <4>5. Value(acc[v].payload, s) = u
        BY <2>1, <4>2, <4>3, <4>4 DEF Carries, Took
      <4> QED  BY <2>1, <3>2, <3>4, <4>5
    <3> QED  BY <3>3, <3>4
  <2> QED  BY <2>2, <2>3
<1>7. ASSUME NEW v \in Visits, Answer(v) \/ Lose(v) \/ Expire \/ Restart
      PROVE  /\ Value(jar'.flash, s) = u
             /\ \A x \in Visits : InFlight(x)' /\ u \in seen'[x] => Carries(x, u, s)'
  <2>1. /\ UNCHANGED <<acc, seen, taken, flashed>> /\ Delivered' = Delivered
        /\ jar'.flash = jar.flash /\ "expired" \notin faults
        /\ \A x \in Visits : InFlight(x)' => InFlight(x)
    BY <1>7, Ends
  <2> QED  BY <1>1, <2>1 DEF Carries, Took
<1> QED  BY <1>0, <1>3, <1>4, <1>5, <1>6, <1>7 DEF Next

-----------------------------------------------------------------------------
(* A flash that is shown twice.                                            *)

\* A response that was delivered after that of v, to a visit sent before.
Restores(x, v) == x \in Delivered /\ v \in prior[x] /\ v \notin seen[x]

Clears(v, s, u) == Took(v, s, u) /\ acc[v].payload \notin Oversize

\* Visit w has the flash in its cookie, or took it.
Meets(w, s, u) == (InFlight(w) /\ Value(acc[w].payload, s) = u) \/ Took(w, s, u)

\* Only what was delivered is in the cookie, and a visit that took a flash
\* sends a cookie without it.
TakenInv ==
  ~Memory => \A u \in Visits, s \in Slots :
    /\ Value(jar.flash, s) = u => u \in Delivered
    /\ \A v \in Visits :
         /\ Value(acc[v].payload, s) = u => u \in Delivered \/ (u = v /\ s \in flashed[v])
         /\ Took(v, s, u) => /\ u \in Delivered /\ acc[v].dirty
                             /\ Value(acc[v].payload, s) # u

\* A flash that a delivered visit has taken is back, in the browser's cookie
\* or in that of a visit sent later, only because another was restored.
RestoredInv ==
  ~Memory => \A u \in Visits, s \in Slots, v \in Visits : Clears(v, s, u) =>
    /\ v \in Delivered /\ Value(jar.flash, s) = u =>
         \E x \in Visits \ {v} : Restores(x, v)
    /\ \A w \in Visits : v \in seen[w] /\ Meets(w, s, u) =>
         \E x \in Visits \ {v, w} : Restores(x, v)

LEMMA RestoresStay ==
  ASSUME TypeOK, Next, NEW v, NEW x \in Visits, Restores(x, v)
  PROVE  Restores(x, v)'
BY DeliveredStay DEF Restores, Past

LEMMA TakenNext ==
  ASSUME TypeOK, StageInv, TakenInv, Next
  PROVE  TakenInv'
<1> SUFFICES ASSUME ~Memory, NEW u \in Visits, NEW s \in Slots
             PROVE  /\ Value(jar'.flash, s) = u => u \in Delivered'
                    /\ \A v \in Visits :
                         /\ Value(acc'[v].payload, s) = u =>
                              u \in Delivered' \/ (u = v /\ s \in flashed'[v])
                         /\ Took(v, s, u)' => /\ u \in Delivered' /\ acc'[v].dirty
                                              /\ Value(acc'[v].payload, s) # u
  BY MemorySame DEF TakenInv
<1> DEFINE P(v) == /\ Value(acc[v].payload, s) = u =>
                        u \in Delivered \/ (u = v /\ s \in flashed[v])
                   /\ Took(v, s, u) => /\ u \in Delivered /\ acc[v].dirty
                                       /\ Value(acc[v].payload, s) # u
<1>1. /\ Value(jar.flash, s) = u => u \in Delivered
      /\ \A v \in Visits : P(v)
  BY DEF TakenInv
<1>2. Delivered \subseteq Delivered'
  BY DeliveredStay
<1>3. \A v \in Visits : Past(v) => P(v)'
  BY <1>1, <1>2 DEF Past, Took
<1>4. ASSUME NEW v \in Visits, Others(v), P(v)', jar' = jar
      PROVE  /\ Value(jar'.flash, s) = u => u \in Delivered'
             /\ \A x \in Visits : P(x)'
  BY <1>1, <1>2, <1>3, <1>4 DEF Others
<1>5. ASSUME NEW v \in Visits, NEW b \in Bags, Send(v, b) PROVE P(v)' /\ jar' = jar
  <2>1. ~Took(v, s, u)'
    BY <1>5, Sends, EmptyType, VisitAssumption DEF Took
  <2> QED  BY <1>1, <1>2, <1>5, <2>1, Sends
<1>6. ASSUME NEW v \in Visits, TakeErrors(v) \/ TakeMessages(v) PROVE P(v)' /\ jar' = jar
  <2>1. PICK T \in SUBSET Slots : Takes(v, T)
    BY <1>6, CookieTakes
  <2>2. flashed[v] = {} /\ jar' = jar
    BY <1>6, CookieTakes
  <2>3. CASE s \in T
    <3>1. Value(acc'[v].payload, s) = Absent
      BY <2>1, <2>3 DEF Takes, Emptied
    <3>2. Took(v, s, u)' => Value(acc[v].payload, s) = u
      BY <2>1, <2>3 DEF Takes, Took, Session
    <3>3. Value(acc[v].payload, s) = u => acc'[v].dirty
      BY <2>1, <2>3, VisitAssumption DEF Takes
    <3> QED  BY <1>1, <1>2, <2>2, <3>1, <3>2, <3>3, VisitAssumption
  <2>4. CASE s \notin T
    <3>1. /\ Value(acc'[v].payload, s) = Value(acc[v].payload, s)
          /\ Took(v, s, u)' <=> Took(v, s, u)
          /\ acc[v].dirty => acc'[v].dirty
      BY <2>1, <2>4 DEF Takes, Emptied, Took
    <3> QED  BY <1>1, <1>2, <2>2, <3>1
  <2> QED  BY <2>3, <2>4
<1>7. ASSUME NEW v \in Visits, NEW t \in Slots, Flash(v, t) PROVE P(v)' /\ jar' = jar
  <2>1. v \notin Delivered
    BY <1>7, CookieFlashes DEF Delivered
  <2>2. CASE t = s
    BY <1>1, <1>2, <1>7, <2>1, <2>2, CookieFlashes DEF Took
  <2>3. CASE t # s
    BY <1>1, <1>2, <1>7, <2>3, CookieFlashes DEF Took
  <2> QED  BY <1>7, <2>2, <2>3, CookieFlashes
<1>8. ASSUME NEW v \in Visits, Deliver(v)
      PROVE  /\ Value(jar'.flash, s) = u => u \in Delivered'
             /\ \A x \in Visits : P(x)'
  <2>1. /\ UNCHANGED <<acc, taken, flashed>> /\ Delivered' = Delivered \cup {v}
        /\ jar'.flash = acc[v].payload \/ jar'.flash = jar.flash
    BY <1>8, Delivers
  <2> QED  BY <1>1, <1>2, <2>1 DEF Took
<1>9. ASSUME NEW v \in Visits, Answer(v) \/ Lose(v) \/ Expire \/ Restart
      PROVE  /\ Value(jar'.flash, s) = u => u \in Delivered'
             /\ \A x \in Visits : P(x)'
  <2>1. /\ UNCHANGED <<acc, taken, flashed>> /\ Delivered' = Delivered
        /\ jar'.flash = EmptyPayload \/ jar'.flash = jar.flash
    BY <1>9, Ends
  <2>2. Value(EmptyPayload, s) # u
    BY EmptyType, VisitAssumption
  <2> QED  BY <1>1, <2>1, <2>2 DEF Took
<1>10. /\ Value(jar'.flash, s) = u => u \in Delivered'
       /\ \A x \in Visits : P(x)'
  <2> HIDE DEF P
  <2> QED  BY <1>4, <1>5, <1>6, <1>7, <1>8, <1>9, OthersFrame DEF Next
<1> QED  BY <1>10

\* The acting visit meets only what it met before.
LEMMA TakesMeet ==
  ASSUME TypeOK, StageInv, ~Memory, NEW w \in Visits, TakeErrors(w) \/ TakeMessages(w),
         NEW u \in Visits, NEW s \in Slots, Meets(w, s, u)'
  PROVE  Meets(w, s, u)
<1>1. PICK T \in SUBSET Slots : Takes(w, T)
  BY CookieTakes
<1>2. InFlight(w)
  BY CookieTakes
<1>3. CASE s \in T
  <2>1. Value(acc'[w].payload, s) # u
    BY <1>1, <1>3, VisitAssumption DEF Takes, Emptied
  <2>2. Took(w, s, u)' => Value(acc[w].payload, s) = u
    BY <1>1, <1>3 DEF Takes, Took, Session
  <2> QED  BY <1>2, <2>1, <2>2 DEF Meets
<1>4. CASE s \notin T
  <2>1. /\ Value(acc'[w].payload, s) = Value(acc[w].payload, s)
        /\ Took(w, s, u)' <=> Took(w, s, u)
    BY <1>1, <1>4 DEF Takes, Emptied, Took
  <2> QED  BY <1>2, <2>1 DEF Meets
<1> QED  BY <1>3, <1>4

LEMMA FlashMeets ==
  ASSUME TypeOK, ~Memory, NEW w \in Visits, NEW t \in Slots, Flash(w, t),
         NEW u \in Visits \ {w}, NEW s \in Slots, Meets(w, s, u)'
  PROVE  Meets(w, s, u)
<1>1. InFlight(w)
  BY CookieFlashes DEF InFlight, InServer
<1>2. CASE t = s
  BY <1>1, <1>2, CookieFlashes DEF Meets, Took
<1>3. CASE t # s
  BY <1>1, <1>3, CookieFlashes DEF Meets, Took
<1> QED  BY <1>2, <1>3

LEMMA RestoredNext ==
  ASSUME TypeOK, StageInv, OrphanInv, TakenInv, RestoredInv, Next
  PROVE  RestoredInv'
<1> SUFFICES ASSUME ~Memory, NEW u \in Visits, NEW s \in Slots, NEW v \in Visits,
                    Clears(v, s, u)'
             PROVE  /\ v \in Delivered' /\ Value(jar'.flash, s) = u =>
                         \E x \in Visits \ {v} : Restores(x, v)'
                    /\ \A w \in Visits : v \in seen'[w] /\ Meets(w, s, u)' =>
                         \E x \in Visits \ {v, w} : Restores(x, v)'
  BY MemorySame DEF RestoredInv
<1>1. CASE v \notin Delivered'
  <2>1. \A w \in Visits : v \notin seen'[w]
    BY <1>1, OrphanNext DEF OrphanInv
  <2> QED  BY <1>1, <2>1
<1>2. CASE v \notin Delivered /\ v \in Delivered'
  <2>1. Deliver(v)
    <3>1. PICK y \in Visits : Deliver(y)
      BY <1>2, DeliveredSame
    <3> QED  BY <1>2, <3>1, Delivers
  <2>2. /\ UNCHANGED <<acc, seen, taken>> /\ (SendsFlash(v) => jar'.flash = acc[v].payload)
    BY <2>1, Delivers
  <2>3. Clears(v, s, u)
    BY <2>2 DEF Clears, Took
  <2>4. acc[v].dirty /\ Value(acc[v].payload, s) # u
    BY <2>3 DEF TakenInv, Clears
  <2>5. SendsFlash(v)
    BY <2>3, <2>4 DEF SendsFlash, Clears
  <2>6. \A w \in Visits : v \notin seen'[w]
    BY <1>2, <2>2 DEF OrphanInv
  <2> QED  BY <2>2, <2>4, <2>5, <2>6
<1>3. CASE v \in Delivered
  <2>1. Clears(v, s, u) /\ Past(v)
    BY <1>3, DeliveredStay DEF Past, Clears, Took
  <2>2. u \in Delivered
    BY <2>1 DEF TakenInv, Clears
  <2>3. /\ Value(jar.flash, s) = u => \E x \in Visits \ {v} : Restores(x, v)
        /\ \A w \in Visits : v \in seen[w] /\ Meets(w, s, u) =>
             \E x \in Visits \ {v, w} : Restores(x, v)
    BY <1>3, <2>1 DEF RestoredInv
  <2>4. \A x \in Visits : Restores(x, v) => Restores(x, v)'
    BY RestoresStay
  <2>5. ASSUME NEW w \in Visits, v \in seen[w] /\ Meets(w, s, u)
        PROVE  \E x \in Visits \ {v, w} : Restores(x, v)'
    BY <2>3, <2>4, <2>5
  <2>6. ASSUME NEW w \in Visits, Past(w), Meets(w, s, u)', v \in seen'[w]
        PROVE  v \in seen[w] /\ Meets(w, s, u)
    BY <2>6 DEF Past, Meets, Took, InFlight, InServer
  <2>7. ASSUME NEW y \in Visits, Others(y), jar' = jar,
               v \in seen'[y] /\ Meets(y, s, u)' =>
                 \E x \in Visits \ {v, y} : Restores(x, v)'
        PROVE  /\ Value(jar'.flash, s) = u => \E x \in Visits \ {v} : Restores(x, v)'
               /\ \A w \in Visits : v \in seen'[w] /\ Meets(w, s, u)' =>
                    \E x \in Visits \ {v, w} : Restores(x, v)'
    BY <2>3, <2>4, <2>5, <2>6, <2>7 DEF Others
  <2>8. ASSUME NEW y \in Visits, NEW b \in Bags, Send(y, b)
        PROVE  /\ jar' = jar
               /\ v \in seen'[y] /\ Meets(y, s, u)' =>
                    \E x \in Visits \ {v, y} : Restores(x, v)'
    <3>1. y \notin Delivered /\ jar' = jar
      BY <2>8, Sends
    <3>2. Meets(y, s, u)' => Value(jar.flash, s) = u
      BY <2>8, Sends, EmptyType, VisitAssumption DEF Meets, Took
    <3>3. \A x \in Visits : Restores(x, v) => x # y
      BY <3>1 DEF Restores
    <3> QED  BY <2>3, <2>4, <3>1, <3>2, <3>3
  <2>9. ASSUME NEW y \in Visits, TakeErrors(y) \/ TakeMessages(y)
        PROVE  /\ jar' = jar
               /\ v \in seen'[y] /\ Meets(y, s, u)' =>
                    \E x \in Visits \ {v, y} : Restores(x, v)'
    BY <2>5, <2>9, CookieTakes, TakesMeet
  <2>10. ASSUME NEW y \in Visits, NEW t \in Slots, Flash(y, t)
         PROVE  /\ jar' = jar
                /\ v \in seen'[y] /\ Meets(y, s, u)' =>
                     \E x \in Visits \ {v, y} : Restores(x, v)'
    <3>1. u # y
      BY <2>2, <2>10, CookieFlashes DEF Delivered
    <3> QED  BY <2>5, <2>10, <3>1, CookieFlashes, FlashMeets
  <2>11. ASSUME NEW y \in Visits, Deliver(y)
         PROVE  /\ Value(jar'.flash, s) = u => \E x \in Visits \ {v} : Restores(x, v)'
                /\ \A w \in Visits : v \in seen'[w] /\ Meets(w, s, u)' =>
                     \E x \in Visits \ {v, w} : Restores(x, v)'
    <3>1. /\ UNCHANGED <<acc, seen, taken>>
          /\ Delivered' = Delivered \cup {y} /\ y \notin Delivered /\ InFlight(y)
          /\ prior'[y] = Delivered
          /\ SendsFlash(y) => jar'.flash = acc[y].payload
          /\ ~SendsFlash(y) => jar'.flash = jar.flash
          /\ \A x \in Visits : InFlight(x)' => InFlight(x)
      BY <2>11, Delivers
    <3>2. \A w \in Visits : Meets(w, s, u)' => Meets(w, s, u)
      BY <3>1 DEF Meets, Took
    <3>3. \A w \in Visits : v \in seen'[w] /\ Meets(w, s, u)' =>
            \E x \in Visits \ {v, w} : Restores(x, v)'
      BY <2>5, <3>1, <3>2
    <3>4. ASSUME Value(jar'.flash, s) = u, jar'.flash = acc[y].payload
          PROVE  \E x \in Visits \ {v} : Restores(x, v)'
      <4>1. CASE v \in seen[y]
        <5>1. Meets(y, s, u)
          BY <3>1, <3>4 DEF Meets
        <5> QED  BY <2>5, <4>1, <5>1
      <4>2. CASE v \notin seen[y]
        <5>1. Restores(y, v)' /\ y # v
          BY <1>3, <3>1, <4>2 DEF Restores
        <5> QED  BY <5>1
      <4> QED  BY <4>1, <4>2
    <3> QED  BY <2>3, <2>4, <3>1, <3>3, <3>4
  <2>12. ASSUME NEW y \in Visits, Answer(y) \/ Lose(y) \/ Expire \/ Restart
         PROVE  /\ Value(jar'.flash, s) = u => \E x \in Visits \ {v} : Restores(x, v)'
                /\ \A w \in Visits : v \in seen'[w] /\ Meets(w, s, u)' =>
                     \E x \in Visits \ {v, w} : Restores(x, v)'
    <3>1. /\ UNCHANGED <<acc, seen, taken>>
          /\ jar'.flash = jar.flash \/ jar'.flash = EmptyPayload
          /\ \A x \in Visits : InFlight(x)' => InFlight(x)
      BY <2>12, Ends
    <3>2. \A w \in Visits : Meets(w, s, u)' => Meets(w, s, u)
      BY <3>1 DEF Meets, Took
    <3>3. Value(jar'.flash, s) = u => Value(jar.flash, s) = u
      BY <3>1, EmptyType, VisitAssumption
    <3> QED  BY <2>3, <2>4, <2>5, <3>1, <3>2, <3>3
  <2> QED  BY <2>7, <2>8, <2>9, <2>10, <2>11, <2>12, OthersFrame DEF Next
<1> QED  BY <1>1, <1>2, <1>3

-----------------------------------------------------------------------------
(* The theorems.                                                           *)

CookieInv == FlashedInv /\ AccountInv /\ TakenInv /\ RestoredInv

LEMMA InitCookie == Init => CookieInv
<1> SUFFICES ASSUME Init PROVE CookieInv
  OBVIOUS
<1>1. /\ jar.flash = EmptyPayload /\ Delivered = {}
      /\ \A v \in Visits : acc[v].payload = EmptyPayload /\ taken[v] = EmptyPayload
                             /\ flashed[v] = {}
  BY DEF Init, Delivered
<1>2. \A s \in Slots, u \in Visits : Value(EmptyPayload, s) # u
  BY EmptyType, VisitAssumption
<1>3. FlashedInv /\ AccountInv
  BY <1>1 DEF FlashedInv, AccountInv
<1>4. TakenInv /\ RestoredInv
  BY <1>1, <1>2 DEF TakenInv, RestoredInv, Clears, Took
<1> QED  BY <1>3, <1>4 DEF CookieInv

LEMMA NextCookie == IInv /\ CookieInv /\ [Next]_vars => CookieInv'
<1> SUFFICES ASSUME IInv, CookieInv, [Next]_vars PROVE CookieInv'
  OBVIOUS
<1>1. CASE Next
  BY <1>1, FlashedNext, AccountNext, TakenNext, RestoredNext DEF IInv, CookieInv
<1>2. CASE UNCHANGED vars
  <2>1. UNCHANGED <<backend, jar, acc, stage, taken, flashed, seen, prior, faults>>
    BY <1>2 DEF vars, server, history, times
  <2>2. Delivered' = Delivered /\ (Memory' <=> Memory)
          /\ \A v \in Visits : InFlight(v)' <=> InFlight(v)
    BY <2>1 DEF Delivered, Memory, InFlight, InServer
  <2>3. FlashedInv'
    BY <2>1, <2>2 DEF CookieInv, FlashedInv
  <2>4. AccountInv'
    BY <2>1, <2>2 DEF CookieInv, AccountInv, Settled, Shown, Replaced, SendsFlash,
                      Carries, Took
  <2>5. TakenInv'
    BY <2>1, <2>2 DEF CookieInv, TakenInv, Took
  <2>6. RestoredInv'
    BY <2>1, <2>2 DEF CookieInv, RestoredInv, Clears, Restores, Meets, Took
  <2> QED  BY <2>3, <2>4, <2>5, <2>6 DEF CookieInv
<1> QED  BY <1>1, <1>2

(* The cookies' invariant holds in every reachable state.                  *)
THEOREM CookieInvariant == Spec => [](IInv /\ CookieInv)
BY InitIInv, NextIInv, InitCookie, NextCookie, PTL DEF Spec

(* A CookieStore's flash that reached the browser is in its cookie until a *)
(* response that shows it arrives, or it expires, or it is replaced.       *)
THEOREM FlashAccounted == Spec => []CookieAccounted
<1>1. CookieInv => CookieAccounted
  BY DEF CookieInv, AccountInv, CookieAccounted, Settled, Shown, Replaced
<1> QED  BY <1>1, CookieInvariant, PTL

(* A flash is shown by a visit that was sent after another had shown it    *)
(* only if that one's cookie was too large, or a third restored the old.   *)
THEOREM TakenAgainExplained == Spec => []CookieTakenAgain
<1>1. TypeOK /\ CookieInv => CookieTakenAgain
  <2> SUFFICES ASSUME TypeOK, CookieInv, ~Memory, NEW u \in Visits, NEW s \in Slots,
                      NEW v \in Visits, NEW w \in Visits,
                      Took(v, s, u), Took(w, s, u), v \in seen[w],
                      acc[v].payload \notin Oversize
               PROVE  \E x \in Delivered \ {v, w} : v \in prior[x] /\ v \notin seen[x]
    BY DEF CookieTakenAgain
  <2>1. Clears(v, s, u) /\ Meets(w, s, u)
    BY DEF Clears, Meets
  <2>2. PICK x \in Visits \ {v, w} : Restores(x, v)
    BY <2>1 DEF CookieInv, RestoredInv
  <2> QED  BY <2>2 DEF Restores
<1> QED  BY <1>1, CookieInvariant, PTL DEF IInv

=============================================================================
