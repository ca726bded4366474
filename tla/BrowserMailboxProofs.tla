------------------------- MODULE BrowserMailboxProofs -------------------------
(***************************************************************************)
(* BrowserSession implements FlashMailbox: until a fault happens, the      *)
(* flash of one browser is one payload on which every take and flash acts  *)
(* at once, for both stores and any number of visits, bags and keys.       *)
(***************************************************************************)
EXTENDS BrowserSessionProofs

-----------------------------------------------------------------------------
(* The session as one mailbox.                                             *)

\* What a take that finds nothing leaves.
LEMMA CleanTakes ==
  ASSUME NEW p \in Payload
  PROVE  /\ \A b \in Bags : ~Dirties(p, TakeErrorsCall(b)) => After(p, TakeErrorsCall(b)) = p
         /\ ~Dirties(p, TakeMessagesCall) => After(p, TakeMessagesCall) = p
<1>1. ASSUME NEW b \in Bags, ~Dirties(p, TakeErrorsCall(b))
      PROVE  After(p, TakeErrorsCall(b)) = p
  <2>1. p.errors[b] = Absent
    BY <1>1 DEF Dirties, TakeErrorsCall
  <2>2. After(p, TakeErrorsCall(b)) = [p EXCEPT !.errors[b] = Absent]
    BY DEF After, TakeErrorsCall
  <2> QED  BY <2>1, <2>2 DEF Payload, Errors
<1>2. ASSUME ~Dirties(p, TakeMessagesCall)
      PROVE  After(p, TakeMessagesCall) = p
  <2>1. p.messages = NoMessages
    BY <1>2 DEF Dirties, TakeMessagesCall
  <2>2. After(p, TakeMessagesCall) = [p EXCEPT !.messages = NoMessages]
    BY DEF After, TakeMessagesCall
  <2> QED  BY <2>1, <2>2 DEF Payload
<1> QED  BY <1>1, <1>2

LEMMA EmptyTakes ==
  /\ \A b \in Bags : After(EmptyPayload, TakeErrorsCall(b)) = EmptyPayload
  /\ After(EmptyPayload, TakeMessagesCall) = EmptyPayload
<1>1. /\ \A b \in Bags : ~Dirties(EmptyPayload, TakeErrorsCall(b))
      /\ ~Dirties(EmptyPayload, TakeMessagesCall)
  BY DEF Dirties, TakeErrorsCall, TakeMessagesCall, EmptyPayload, NoErrors
<1> QED  BY <1>1, EmptyType, CleanTakes

-----------------------------------------------------------------------------

\* An id names the visit that made it, and only a MemoryStore makes any.
OwnInv ==
  /\ \A v \in Visits : minted[v] # NoId => \E s \in Slots : minted[v] = <<v, s>>
  /\ ~Memory => jar.id = NoId /\ \A v \in Visits : minted[v] = NoId

\* While nothing has gone wrong: the visits in flight have the browser's id,
\* at most one is in flight before there is an id, and what a CookieStore's has
\* not changed is still in the browser's cookie.
QuietInv ==
  faults = {} =>
    /\ \A v \in Visits : InFlight(v) => id[v] = jar.id
    /\ jar.id = NoId => \A u, v \in Visits : InFlight(u) /\ InFlight(v) => u = v
    /\ ~Memory => \A v \in Visits : InFlight(v) =>
         /\ ~acc[v].dirty => acc[v].payload = jar.flash
         /\ stage[v] = "answered" /\ acc[v].dirty => acc[v].payload \notin Oversize

MailInv == OwnInv /\ QuietInv

LEMMA InitMail == Init => MailInv
BY DEF Init, MailInv, OwnInv, QuietInv, InFlight, InServer

\* Who is in flight after a step of v.
LEMMA FlightFrame ==
  ASSUME TypeOK, NEW v \in Visits,
         \/ \E b \in Bags : Send(v, b)
         \/ TakeErrors(v) \/ TakeMessages(v)
         \/ \E s \in Slots : Flash(v, s)
         \/ Answer(v) \/ Deliver(v) \/ Lose(v)
  PROVE  /\ \A w \in Visits \ {v} :
              /\ InFlight(w)' <=> InFlight(w)
              /\ id'[w] = id[w] /\ acc'[w] = acc[w] /\ minted'[w] = minted[w]
              /\ stage'[w] = stage[w]
         /\ Memory' <=> Memory
         /\ faults \subseteq faults'
<1>1. Others(v)
  BY OthersFrame
<1>2. Memory' <=> Memory
  BY DEF Send, TakeErrors, TakeMessages, Flash, Answer, Deliver, Lose, Memory
<1>3. faults \subseteq faults'
  BY DEF Send, TakeErrors, TakeMessages, Flash, Answer, Deliver, Lose, Fault
<1> QED  BY <1>1, <1>2, <1>3 DEF Others, Past, InFlight, InServer

LEMMA FaultsGrow ==
  ASSUME TypeOK, Next
  PROVE  /\ faults \subseteq faults'
         /\ Memory' <=> Memory
<1>1. CASE Expire
  BY <1>1 DEF Expire, Fault, Memory
<1>2. CASE Restart
  BY <1>2 DEF Restart, Fault, Memory
<1> QED  BY <1>1, <1>2, FlightFrame DEF Next

\* A visit's store call on a CookieStore's accumulator.
LEMMA CookieStep ==
  ASSUME TypeOK, StageInv, ~Memory, NEW v \in Visits
  PROVE  /\ TakeErrors(v) =>
              /\ acc'[v].payload = After(acc[v].payload, TakeErrorsCall(bag[v]))
              /\ ~acc'[v].dirty => ~acc[v].dirty /\ acc'[v].payload = acc[v].payload
         /\ TakeMessages(v) =>
              /\ acc'[v].payload = After(acc[v].payload, TakeMessagesCall)
              /\ ~acc'[v].dirty => ~acc[v].dirty /\ acc'[v].payload = acc[v].payload
         /\ \A s \in Slots : Flash(v, s) =>
              /\ acc'[v].payload = After(acc[v].payload, FlashCall(v, s))
              /\ acc'[v].dirty
<1> acc \in [Visits -> AccType]
  BY DEF TypeOK, AccType
<1>1. acc[v].payload \in Payload
  BY DEF AccType
<1>2. ASSUME NEW q, CookieCall(v, q), After(acc[v].payload, q) \in Payload
      PROVE  /\ acc'[v].payload = After(acc[v].payload, q)
             /\ acc'[v].dirty = (acc[v].dirty \/ Dirties(acc[v].payload, q))
  <2>1. Dirties(acc[v].payload, q) \in BOOLEAN
    BY DEF Dirties
  <2> QED  BY <1>2, <2>1, CookieCallEffect
<1>3. ASSUME TakeErrors(v)
      PROVE  /\ acc'[v].payload = After(acc[v].payload, TakeErrorsCall(bag[v]))
             /\ ~acc'[v].dirty => ~acc[v].dirty /\ acc'[v].payload = acc[v].payload
  <2>1. bag[v] \in Bags /\ CookieCall(v, TakeErrorsCall(bag[v]))
    BY <1>3 DEF TakeErrors, StageInv, TakeErrorsCall
  <2>2. After(acc[v].payload, TakeErrorsCall(bag[v])) \in Payload
    BY <1>1, <2>1, TakeErrorsEffect
  <2> QED  BY <1>1, <1>2, <2>1, <2>2, CleanTakes
<1>4. ASSUME TakeMessages(v)
      PROVE  /\ acc'[v].payload = After(acc[v].payload, TakeMessagesCall)
             /\ ~acc'[v].dirty => ~acc[v].dirty /\ acc'[v].payload = acc[v].payload
  <2>1. CookieCall(v, TakeMessagesCall)
    BY <1>4 DEF TakeMessages, TakeMessagesCall
  <2>2. After(acc[v].payload, TakeMessagesCall) \in Payload
    BY <1>1, TakeMessagesEffect
  <2> QED  BY <1>1, <1>2, <2>1, <2>2, CleanTakes
<1>5. ASSUME NEW s \in Slots, Flash(v, s)
      PROVE  /\ acc'[v].payload = After(acc[v].payload, FlashCall(v, s))
             /\ acc'[v].dirty
  <2>1. CookieCall(v, FlashCall(v, s))
    BY <1>5 DEF Flash
  <2>2. /\ After(acc[v].payload, FlashCall(v, s)) \in Payload
        /\ Dirties(acc[v].payload, FlashCall(v, s))
    BY <1>1, FlashEffect
  <2> QED  BY <1>2, <2>1, <2>2
<1> QED  BY <1>3, <1>4, <1>5

LEMMA OwnNext ==
  ASSUME TypeOK, StageInv, OwnInv, Next
  PROVE  OwnInv'
<1> USE DEF server, history, times
<1>1. ASSUME NEW v \in Visits, NEW s \in Slots, Flash(v, s) PROVE OwnInv'
  <2>1. /\ \A w \in Visits \ {v} : minted'[w] = minted[w]
        /\ (Memory' <=> Memory) /\ jar' = jar
    BY <1>1, FlightFrame DEF Flash
  <2>2. CASE Memory
    <3>1. minted'[v] = IF id[v] = NoId THEN SessionID(v, s) ELSE minted[v]
      BY <1>1, <2>2, MemoryFlashEffect DEF Flash, TypeOK
    <3>2. minted'[v] = minted[v] \/ minted'[v] = <<v, s>>
      BY <3>1 DEF SessionID
    <3> QED  BY <2>1, <2>2, <3>2 DEF OwnInv
  <2>3. CASE ~Memory
    BY <1>1, <2>1, <2>3 DEF Flash, CookieCall, OwnInv
  <2> QED  BY <2>2, <2>3
<1>2. ASSUME NEW v \in Visits, TakeErrors(v) \/ TakeMessages(v) PROVE OwnInv'
  <2>1. minted' = minted
    BY <1>2, TakesTyped
  <2>2. UNCHANGED <<jar, backend>>
    BY <1>2 DEF TakeErrors, TakeMessages
  <2> QED  BY <2>1, <2>2 DEF OwnInv, Memory
<1>3. ASSUME NEW v \in Visits, (\E b \in Bags : Send(v, b)) \/ Answer(v) \/ Lose(v)
      PROVE  OwnInv'
  BY <1>3 DEF Send, Answer, Lose, OwnInv, Memory
<1>4. ASSUME NEW v \in Visits, Deliver(v) PROVE OwnInv'
  BY <1>4 DEF Deliver, SendsId, OwnInv, Memory
<1>5. CASE Expire
  BY <1>5 DEF Expire, OwnInv, Memory, TypeOK
<1>6. CASE Restart
  BY <1>6 DEF Restart, OwnInv, Memory
<1> QED  BY <1>1, <1>2, <1>3, <1>4, <1>5, <1>6 DEF Next

LEMMA QuietNext ==
  ASSUME TypeOK, StageInv, OrphanInv, MailInv, Next
  PROVE  QuietInv'
<1> USE DEF server, history, times
<1>0. faults \subseteq faults' /\ (Memory' <=> Memory)
  BY FaultsGrow
<1> SUFFICES ASSUME faults = {}, faults' = {} PROVE QuietInv'
  BY <1>0 DEF QuietInv
<1>t. /\ stage \in [Visits -> Stages] /\ id \in [Visits -> Ids \cup {NoId}]
      /\ acc \in [Visits -> AccType] /\ jar.id \in Ids \cup {NoId}
  BY DEF TypeOK, Stages, AccType
<1>1. ASSUME NEW v \in Visits, NEW b \in Bags, Send(v, b) PROVE QuietInv'
  <2>1. /\ jar.id = NoId => \A u \in Visits : ~InFlight(u)
    BY <1>1 DEF Send, Fault
  <2>2. /\ jar' = jar /\ id'[v] = jar.id
        /\ acc'[v].payload = jar.flash /\ stage'[v] = "sent"
    BY <1>1, <1>t DEF Send, EnsurePending
  <2>3. \A w \in Visits \ {v} :
              /\ InFlight(w)' <=> InFlight(w)
              /\ id'[w] = id[w] /\ acc'[w] = acc[w] /\ stage'[w] = stage[w]
    BY <1>1, FlightFrame
  <2> QED  BY <1>0, <2>1, <2>2, <2>3 DEF QuietInv, MailInv
<1>2. ASSUME NEW v \in Visits,
             \/ TakeErrors(v) \/ TakeMessages(v)
             \/ \E s \in Slots : Flash(v, s)
      PROVE  QuietInv'
  <2>1. /\ jar' = jar /\ id' = id /\ InFlight(v)
        /\ stage'[v] \in {"taking", "handling"}
    BY <1>2, <1>t DEF TakeErrors, TakeMessages, Flash, InFlight, InServer
  <2>2. \A w \in Visits \ {v} :
              /\ InFlight(w)' <=> InFlight(w)
              /\ acc'[w] = acc[w] /\ stage'[w] = stage[w]
    BY <1>2, FlightFrame
  <2>3. ~Memory => (~acc'[v].dirty => ~acc[v].dirty /\ acc'[v].payload = acc[v].payload)
    BY <1>2, CookieStep
  <2> QED  BY <1>0, <2>1, <2>2, <2>3 DEF QuietInv, MailInv
<1>3. ASSUME NEW v \in Visits, Answer(v) PROVE QuietInv'
  <2>1. /\ jar' = jar /\ id' = id /\ acc' = acc /\ InFlight(v)
        /\ ~(acc[v].dirty /\ acc[v].payload \in Oversize)
    BY <1>3 DEF Answer, Fault, InFlight, InServer
  <2>2. \A w \in Visits \ {v} : (InFlight(w)' <=> InFlight(w)) /\ stage'[w] = stage[w]
    BY <1>3, FlightFrame
  <2> QED  BY <1>0, <2>1, <2>2 DEF QuietInv, MailInv
<1>4. ASSUME NEW v \in Visits, Deliver(v) PROVE QuietInv'
  <2>1. /\ id' = id /\ acc' = acc /\ InFlight(v) /\ ~InFlight(v)'
        /\ jar'.id = IF SendsId(v) THEN minted[v] ELSE jar.id
    BY <1>4, <1>t DEF Deliver, InFlight, InServer
  <2>2. \A w \in Visits \ {v} : (InFlight(w)' <=> InFlight(w)) /\ stage'[w] = stage[w]
    BY <1>4, FlightFrame
  <2>3. CASE SendsId(v) \/ jar.id = NoId
    <3>1. jar.id = NoId
      BY <2>1, <2>3 DEF SendsId, OrphanInv, QuietInv, MailInv
    <3>2. \A w \in Visits : ~InFlight(w)'
      BY <2>1, <2>2, <3>1 DEF QuietInv, MailInv
    <3> QED  BY <3>2 DEF QuietInv
  <2>4. CASE ~SendsId(v) /\ jar.id # NoId
    <3>1. Memory
      BY <2>4 DEF MailInv, OwnInv
    <3> QED  BY <1>0, <2>1, <2>2, <2>4, <3>1 DEF QuietInv, MailInv
  <2> QED  BY <2>3, <2>4
<1>5. ASSUME NEW v \in Visits, Lose(v) PROVE QuietInv'
  <2>1. jar' = jar /\ id' = id /\ acc' = acc /\ ~InFlight(v)'
    BY <1>5, <1>t DEF Lose, InFlight, InServer
  <2>2. \A w \in Visits \ {v} : (InFlight(w)' <=> InFlight(w)) /\ stage'[w] = stage[w]
    BY <1>5, FlightFrame
  <2> QED  BY <1>0, <2>1, <2>2 DEF QuietInv, MailInv
<1>6. CASE Expire
  BY <1>6 DEF Expire, Fault
<1>7. CASE Restart
  <2>1. jar' = jar /\ id' = id /\ acc' = acc
    BY <1>7 DEF Restart
  <2>2. \A w \in Visits : InFlight(w)' => InFlight(w) /\ stage'[w] = stage[w]
    BY <1>7 DEF Restart, InFlight, InServer
  <2> QED  BY <1>0, <2>1, <2>2 DEF QuietInv, MailInv
<1> QED  BY <1>1, <1>2, <1>3, <1>4, <1>5, <1>6, <1>7 DEF Next

-----------------------------------------------------------------------------
(* Every step is a step of the mailbox.                                    *)

Box == IF Memory THEN MemoryBox ELSE CookieBox

\* Where the payload of the session is, while nothing has gone wrong.
BoxInv ==
  faults = {} =>
    /\ ~Memory =>
         /\ \A v \in Visits : InFlight(v) => Box = acc[v].payload
         /\ (\A v \in Visits : ~InFlight(v)) => Box = jar.flash
    /\ Memory =>
         /\ jar.id # NoId => Box = Entry(jar.id)
         /\ jar.id = NoId =>
              /\ \A v \in Visits : InFlight(v) /\ minted[v] # NoId => Box = Entry(minted[v])
              /\ (\A v \in Visits : InFlight(v) => minted[v] = NoId) => Box = EmptyPayload

LEMMA BoxFacts == MailInv => BoxInv
<1> SUFFICES ASSUME MailInv, faults = {} PROVE BoxInv
  BY DEF BoxInv
<1>1. ASSUME ~Memory, NEW v \in Visits, InFlight(v)
      PROVE  Box = acc[v].payload
  <2>1. (CHOOSE u \in Visits : InFlight(u)) = v
    BY <1>1 DEF MailInv, QuietInv, OwnInv
  <2> QED  BY <1>1, <2>1 DEF Box, CookieBox
<1>2. ASSUME ~Memory, \A v \in Visits : ~InFlight(v)
      PROVE  Box = jar.flash
  BY <1>2 DEF Box, CookieBox
<1>3. ASSUME Memory, jar.id # NoId
      PROVE  Box = Entry(jar.id)
  BY <1>3 DEF Box, MemoryBox
<1>4. ASSUME Memory, jar.id = NoId, NEW v \in Visits, InFlight(v), minted[v] # NoId
      PROVE  Box = Entry(minted[v])
  <2>1. (CHOOSE u \in Visits : InFlight(u) /\ SendsId(u)) = v
    BY <1>4 DEF MailInv, QuietInv, SendsId
  <2> QED  BY <1>4, <2>1 DEF Box, MemoryBox, SendsId
<1>5. ASSUME Memory, jar.id = NoId, \A v \in Visits : InFlight(v) => minted[v] = NoId
      PROVE  Box = EmptyPayload
  BY <1>5 DEF Box, MemoryBox, SendsId
<1> QED  BY <1>1, <1>2, <1>3, <1>4, <1>5 DEF BoxInv

\* A step of v while nothing goes wrong.
Quietly ==
  /\ TypeOK /\ StageInv /\ OrphanInv /\ MailInv /\ BoxInv
  /\ MailInv' /\ BoxInv'
  /\ faults = {} /\ faults' = {}

\* What a take reads is in the mailbox.
LEMMA SessionIsBox ==
  ASSUME Quietly, NEW v \in Visits, stage[v] \in {"sent", "taking"}
  PROVE  Session(v) = Box
<1>1. InFlight(v) /\ id[v] = jar.id /\ minted[v] = NoId
  BY DEF InFlight, InServer, Quietly, MailInv, QuietInv, OrphanInv
<1>2. CASE ~Memory
  BY <1>1, <1>2 DEF Session, Quietly, BoxInv
<1>3. CASE Memory /\ jar.id # NoId
  BY <1>1, <1>3 DEF Session, Known, Entry, Quietly, BoxInv
<1>4. CASE Memory /\ jar.id = NoId
  <2>1. \A w \in Visits : InFlight(w) => minted[w] = NoId
    BY <1>1, <1>4 DEF Quietly, MailInv, QuietInv
  <2> QED  BY <1>1, <1>4, <2>1 DEF Session, Known, Quietly, BoxInv
<1> QED  BY <1>2, <1>3, <1>4

\* A MemoryStore's take acts on the mailbox.
LEMMA MemoryTakes ==
  ASSUME Quietly, Memory, Memory', NEW v \in Visits, NEW q,
         stage[v] \in {"sent", "taking"}, InFlight(v)',
         \A w \in Visits \ {v} : InFlight(w)' <=> InFlight(w),
         UNCHANGED <<jar, id>>,
         \A p \in Payload : After(p, q) \in Payload,
         After(EmptyPayload, q) = EmptyPayload,
         MemoryTake(v, q)
  PROVE  Box' = After(Box, q)
<1>1. InFlight(v) /\ id[v] = jar.id /\ minted[v] = NoId
  BY DEF InFlight, InServer, Quietly, MailInv, QuietInv, OrphanInv
<1>2. /\ data \in [Ids -> Payload \cup {NoEntry}] /\ id \in [Visits -> Ids \cup {NoId}]
      /\ jar.id \in Ids \cup {NoId}
  BY DEF Quietly, TypeOK
<1>3. /\ minted' = minted
      /\ Known(v) => id[v] \in Ids /\ data[id[v]] \in Payload
                       /\ data'[id[v]] = After(data[id[v]], q)
      /\ \A i \in Ids : ~(Known(v) /\ i = id[v]) => data'[i] = data[i]
  BY <1>2, MemoryTakeEffect
<1>4. NoEntry \notin Payload
  BY SentinelAssumption
<1>5. CASE jar.id # NoId
  <2>1. Box = Entry(jar.id) /\ Box' = IF data'[jar.id] = NoEntry THEN EmptyPayload ELSE data'[jar.id]
    BY <1>5 DEF Quietly, BoxInv, Entry
  <2>2. CASE Known(v)
    <3>1. data'[jar.id] = After(data[jar.id], q) /\ data'[jar.id] \in Payload
      BY <1>1, <1>3, <2>2
    <3> QED  BY <1>1, <1>4, <2>1, <2>2, <3>1 DEF Known, Entry
  <2>3. CASE ~Known(v)
    <3>1. data'[jar.id] = NoEntry /\ data[jar.id] = NoEntry
      BY <1>1, <1>2, <1>3, <1>5, <2>3 DEF Known
    <3> QED  BY <2>1, <3>1 DEF Entry
  <2> QED  BY <2>2, <2>3
<1>6. CASE jar.id = NoId
  <2>1. \A w \in Visits : InFlight(w) => minted[w] = NoId
    BY <1>1, <1>6 DEF Quietly, MailInv, QuietInv
  <2>2. \A w \in Visits : InFlight(w)' => minted'[w] = NoId
    BY <1>1, <1>3, <2>1
  <2>3. jar'.id = NoId
    BY <1>6
  <2>4. Box = EmptyPayload /\ Box' = EmptyPayload
    BY <1>6, <2>1, <2>2, <2>3 DEF Quietly, BoxInv
  <2> QED  BY <2>4
<1> QED  BY <1>5, <1>6

LEMMA TakesBox ==
  ASSUME Quietly, NEW v \in Visits
  PROVE  /\ TakeErrors(v) => Box' = After(Box, TakeErrorsCall(bag[v]))
         /\ TakeMessages(v) => Box' = After(Box, TakeMessagesCall)
<1>f. ASSUME TakeErrors(v) \/ TakeMessages(v)
      PROVE  /\ stage[v] \in {"sent", "taking"} /\ InFlight(v) /\ InFlight(v)'
             /\ \A w \in Visits \ {v} : InFlight(w)' <=> InFlight(w)
             /\ UNCHANGED <<jar, id>> /\ (Memory' <=> Memory)
  <2>1. /\ stage[v] \in {"sent", "taking"} /\ stage'[v] \in {"taking", "handling"}
        /\ UNCHANGED <<jar, id>>
    BY <1>f DEF TakeErrors, TakeMessages, Quietly, TypeOK
  <2>2. TypeOK
    BY DEF Quietly
  <2>3. /\ \A w \in Visits \ {v} : InFlight(w)' <=> InFlight(w)
        /\ Memory' <=> Memory
    BY <1>f, <2>2, FlightFrame
  <2> QED  BY <2>1, <2>3 DEF InFlight, InServer
<1>1. ASSUME TakeErrors(v)
      PROVE  Box' = After(Box, TakeErrorsCall(bag[v]))
  <2>1. bag[v] \in Bags
    BY <1>1 DEF TakeErrors, Quietly, StageInv
  <2>2. CASE Memory
    <3>1. MemoryTake(v, TakeErrorsCall(bag[v]))
      BY <1>1, <2>2 DEF TakeErrors, TakeErrorsCall
    <3>2. /\ \A p \in Payload : After(p, TakeErrorsCall(bag[v])) \in Payload
          /\ After(EmptyPayload, TakeErrorsCall(bag[v])) = EmptyPayload
      BY <2>1, TakeErrorsEffect, EmptyTakes
    <3> QED  BY <1>1, <1>f, <2>2, <3>1, <3>2, MemoryTakes
  <2>3. CASE ~Memory
    <3>1. acc'[v].payload = After(acc[v].payload, TakeErrorsCall(bag[v]))
      BY <1>1, <2>3, CookieStep DEF Quietly
    <3> QED  BY <1>1, <1>f, <2>3, <3>1 DEF Quietly, BoxInv
  <2> QED  BY <2>2, <2>3
<1>2. ASSUME TakeMessages(v)
      PROVE  Box' = After(Box, TakeMessagesCall)
  <2>2. CASE Memory
    <3>1. MemoryTake(v, TakeMessagesCall)
      BY <1>2, <2>2 DEF TakeMessages, TakeMessagesCall
    <3>2. /\ \A p \in Payload : After(p, TakeMessagesCall) \in Payload
          /\ After(EmptyPayload, TakeMessagesCall) = EmptyPayload
      BY TakeMessagesEffect, EmptyTakes
    <3> QED  BY <1>2, <1>f, <2>2, <3>1, <3>2, MemoryTakes
  <2>3. CASE ~Memory
    <3>1. acc'[v].payload = After(acc[v].payload, TakeMessagesCall)
      BY <1>2, <2>3, CookieStep DEF Quietly
    <3> QED  BY <1>2, <1>f, <2>3, <3>1 DEF Quietly, BoxInv
  <2> QED  BY <2>2, <2>3
<1> QED  BY <1>1, <1>2

LEMMA FlashBox ==
  ASSUME Quietly, NEW v \in Visits, NEW s \in Slots, Flash(v, s)
  PROVE  Box' = After(Box, FlashCall(v, s))
<1>t. /\ data \in [Ids -> Payload \cup {NoEntry}] /\ id \in [Visits -> Ids \cup {NoId}]
      /\ minted \in [Visits -> Ids \cup {NoId}] /\ TypeOK
  BY DEF Quietly, TypeOK
<1>1. /\ InFlight(v) /\ InFlight(v)' /\ UNCHANGED <<jar, id, stage>>
      /\ \A w \in Visits \ {v} : InFlight(w)' <=> InFlight(w)
      /\ Memory' <=> Memory
  <2>1. InFlight(v) /\ UNCHANGED <<jar, id, stage>>
    BY DEF Flash, InFlight, InServer
  <2>2. InFlight(v)'
    BY <2>1 DEF InFlight, InServer
  <2> QED  BY <1>t, <2>1, <2>2, FlightFrame
<1>2. CASE ~Memory
  <2>1. acc'[v].payload = After(acc[v].payload, FlashCall(v, s))
    BY <1>2, CookieStep DEF Quietly
  <2> QED  BY <1>1, <1>2, <2>1 DEF Quietly, BoxInv
<1>3. CASE Memory
  <2> DEFINE i == SessionID(v, s)
  <2>1. MemoryFlash(v, s)
    BY <1>3 DEF Flash
  <2>2. /\ i \in Ids
        /\ data'[i] = After(Entry(i), FlashCall(v, s)) /\ data'[i] \in Payload
        /\ minted'[v] = IF id[v] = NoId THEN i ELSE minted[v]
    BY <1>t, <2>1, MemoryFlashEffect
  <2>3. i \notin {NoId} /\ data'[i] # NoEntry
    BY <2>2, SentinelAssumption
  <2>4. id[v] = jar.id
    BY <1>1 DEF Quietly, MailInv, QuietInv
  <2>5. i = IF id[v] # NoId THEN id[v] ELSE IF minted[v] # NoId THEN minted[v] ELSE <<v, s>>
    BY DEF SessionID
  <2> HIDE DEF i
  <2>6. CASE jar.id # NoId
    <3>1. i = jar.id
      BY <2>4, <2>5, <2>6
    <3>2. Box = Entry(jar.id) /\ Box' = IF data'[jar.id] = NoEntry THEN EmptyPayload ELSE data'[jar.id]
      BY <1>1, <1>3, <2>6 DEF Quietly, BoxInv, Entry
    <3> QED  BY <2>2, <2>3, <3>1, <3>2
  <2>7. CASE jar.id = NoId
    <3>1. minted'[v] = i /\ jar'.id = NoId
      BY <1>1, <2>2, <2>4, <2>7
    <3>2. Box' = IF data'[minted'[v]] = NoEntry THEN EmptyPayload ELSE data'[minted'[v]]
      BY <1>1, <1>3, <2>3, <3>1 DEF Quietly, BoxInv, Entry
    <3>3. Box' = After(Entry(i), FlashCall(v, s))
      BY <2>2, <2>3, <3>1, <3>2
    <3>4. CASE minted[v] # NoId
      BY <1>1, <1>3, <2>4, <2>5, <2>7, <3>3, <3>4 DEF Quietly, BoxInv
    <3>5. CASE minted[v] = NoId
      <4>1. \A w \in Visits : InFlight(w) => minted[w] = NoId
        BY <1>1, <2>7, <3>5 DEF Quietly, MailInv, QuietInv
      <4>2. Box = EmptyPayload
        BY <1>3, <2>7, <4>1 DEF Quietly, BoxInv
      <4>3. data[i] = NoEntry
        <5>1. i = <<v, s>>
          BY <2>4, <2>5, <2>7, <3>5
        <5>2. SUFFICES ASSUME data[i] # NoEntry PROVE FALSE
          OBVIOUS
        <5>3. PICK w \in Visits : minted[w] = i
          BY <2>2, <5>2 DEF Quietly, OrphanInv
        <5>4. PICK t \in Slots : minted[w] = <<w, t>>
          BY <2>3, <5>3 DEF Quietly, MailInv, OwnInv
        <5>5. w = v
          BY <5>1, <5>3, <5>4
        <5> QED  BY <2>3, <3>5, <5>3, <5>5
      <4> QED  BY <3>3, <4>2, <4>3 DEF Entry
    <3> QED  BY <3>4, <3>5
  <2> QED  BY <2>6, <2>7
<1> QED  BY <1>2, <1>3

\* The browser's side and a harmless restart leave the session as it is.
LEMMA RestsBox ==
  ASSUME Quietly, NEW v \in Visits,
         \/ \E b \in Bags : Send(v, b)
         \/ Answer(v) \/ Deliver(v) \/ Lose(v)
  PROVE  Box' = Box
<1> USE DEF server, history, times
<1>t. /\ stage \in [Visits -> Stages] /\ id \in [Visits -> Ids \cup {NoId}]
      /\ acc \in [Visits -> AccType] /\ minted \in [Visits -> Ids \cup {NoId}] /\ TypeOK
  BY DEF Quietly, TypeOK, Stages, AccType
<1>f. /\ \A w \in Visits \ {v} : (InFlight(w)' <=> InFlight(w)) /\ acc'[w] = acc[w]
      /\ Memory' <=> Memory
  BY <1>t, FlightFrame
<1>d. UNCHANGED <<data, minted>>
  BY DEF Send, Answer, Deliver, Lose
<1>1. ASSUME NEW b \in Bags, Send(v, b) PROVE Box' = Box
  <2>1. /\ jar' = jar /\ ~InFlight(v) /\ InFlight(v)' /\ acc'[v].payload = jar.flash
        /\ minted[v] = NoId
        /\ jar.id = NoId => \A u \in Visits : ~InFlight(u)
    BY <1>1, <1>t DEF Send, Fault, EnsurePending, InFlight, InServer, Quietly, OrphanInv
  <2>2. CASE ~Memory
    BY <1>f, <2>1, <2>2 DEF Quietly, BoxInv, MailInv, OwnInv
  <2>3. CASE Memory /\ jar.id # NoId
    BY <1>d, <1>f, <2>1, <2>3 DEF Quietly, BoxInv, Entry
  <2>4. CASE Memory /\ jar.id = NoId
    <3>1. \A w \in Visits : InFlight(w)' => minted'[w] = NoId
      BY <1>d, <1>f, <2>1, <2>4
    <3> QED  BY <1>f, <2>1, <2>4, <3>1 DEF Quietly, BoxInv
  <2> QED  BY <2>2, <2>3, <2>4
<1>2. ASSUME Answer(v) PROVE Box' = Box
  <2>1. jar' = jar /\ InFlight(v) /\ InFlight(v)' /\ acc' = acc
    BY <1>2, <1>t DEF Answer, InFlight, InServer
  <2>2. \A w \in Visits : InFlight(w)' <=> InFlight(w)
    BY <1>f, <2>1
  <2>3. CASE ~Memory
    BY <1>f, <2>1, <2>3 DEF Quietly, BoxInv
  <2>4. CASE Memory /\ jar.id # NoId
    BY <1>d, <1>f, <2>1, <2>4 DEF Quietly, BoxInv, Entry
  <2>5. CASE Memory /\ jar.id = NoId
    BY <1>d, <1>f, <2>1, <2>2, <2>5 DEF Quietly, BoxInv, Entry
  <2> QED  BY <2>3, <2>4, <2>5
<1>3. ASSUME Deliver(v) PROVE Box' = Box
  <2>1. /\ stage[v] = "answered" /\ InFlight(v) /\ ~InFlight(v)'
        /\ jar'.flash = IF SendsFlash(v) THEN acc[v].payload ELSE jar.flash
        /\ jar'.id = IF SendsId(v) THEN minted[v] ELSE jar.id
    BY <1>3, <1>t DEF Deliver, InFlight, InServer
  <2>2. CASE ~Memory
    <3>1. \A w \in Visits : ~InFlight(w)'
      BY <1>f, <2>1, <2>2 DEF Quietly, MailInv, OwnInv, QuietInv
    <3>2. jar'.flash = acc[v].payload
      BY <2>1, <2>2 DEF Quietly, MailInv, QuietInv, SendsFlash
    <3> QED  BY <1>f, <2>1, <2>2, <3>1, <3>2 DEF Quietly, BoxInv
  <2>3. CASE Memory /\ jar.id # NoId
    <3>1. jar'.id = jar.id
      BY <2>1, <2>3 DEF Quietly, MailInv, QuietInv, OrphanInv, SendsId
    <3> QED  BY <1>d, <1>f, <2>3, <3>1 DEF Quietly, BoxInv, Entry
  <2>4. CASE Memory /\ jar.id = NoId /\ minted[v] # NoId
    <3>1. jar'.id = minted[v]
      BY <2>1, <2>4 DEF SendsId
    <3>2. Box = Entry(minted[v])
      BY <2>1, <2>4 DEF Quietly, BoxInv
    <3> QED  BY <1>d, <1>f, <2>4, <3>1, <3>2 DEF Quietly, BoxInv, Entry
  <2>5. CASE Memory /\ jar.id = NoId /\ minted[v] = NoId
    <3>1. jar'.id = NoId
      BY <2>1, <2>5 DEF SendsId
    <3>2. \A w \in Visits : ~InFlight(w)'
      BY <1>f, <2>1, <2>5 DEF Quietly, MailInv, QuietInv
    <3>3. \A w \in Visits : InFlight(w) => minted[w] = NoId
      BY <2>1, <2>5 DEF Quietly, MailInv, QuietInv
    <3> QED  BY <1>f, <2>5, <3>1, <3>2, <3>3 DEF Quietly, BoxInv
  <2> QED  BY <2>2, <2>3, <2>4, <2>5
<1>4. ASSUME Lose(v) PROVE Box' = Box
  <2>1. /\ stage[v] = "answered" /\ InFlight(v) /\ ~InFlight(v)' /\ jar' = jar
        /\ ~SendsFlash(v) /\ ~SendsId(v)
    BY <1>4, <1>t DEF Lose, Fault, InFlight, InServer, Quietly
  <2>2. CASE ~Memory
    <3>1. \A w \in Visits : ~InFlight(w)'
      BY <1>f, <2>1, <2>2 DEF Quietly, MailInv, OwnInv, QuietInv
    <3>2. jar.flash = acc[v].payload
      BY <2>1, <2>2 DEF Quietly, MailInv, QuietInv, SendsFlash
    <3> QED  BY <1>f, <2>1, <2>2, <3>1, <3>2 DEF Quietly, BoxInv
  <2>3. CASE Memory /\ jar.id # NoId
    BY <1>d, <1>f, <2>1, <2>3 DEF Quietly, BoxInv, Entry
  <2>4. CASE Memory /\ jar.id = NoId
    <3>1. \A w \in Visits : InFlight(w) => minted[w] = NoId
      BY <2>1, <2>4 DEF Quietly, MailInv, QuietInv, SendsId
    <3>2. \A w \in Visits : InFlight(w)' => minted'[w] = NoId
      BY <1>d, <1>f, <2>1, <3>1
    <3> QED  BY <1>f, <2>1, <2>4, <3>1, <3>2 DEF Quietly, BoxInv
  <2> QED  BY <2>2, <2>3, <2>4
<1> QED  BY <1>1, <1>2, <1>3, <1>4

LEMMA RestartBox ==
  ASSUME Quietly, Restart
  PROVE  Box' = Box
<1> USE DEF server, history, times
<1>1. /\ jar' = jar /\ acc' = acc /\ (Memory' <=> Memory) /\ minted' = minted
      /\ \A i \in Ids : data[i] = NoEntry
      /\ \A v \in Visits : ~(InServer(v) /\ acc[v].dirty)
      /\ data' = data
  BY DEF Restart, Fault, Memory, Quietly, TypeOK
<1>2. \A v \in Visits : InFlight(v)' <=> InFlight(v) /\ ~InServer(v)
  BY DEF Restart, InFlight, InServer
<1>3. CASE ~Memory
  <2>1. CASE \E v \in Visits : InFlight(v)
    <3>1. PICK v \in Visits : InFlight(v)
      BY <2>1
    <3>2. Box = acc[v].payload
      BY <1>3, <3>1 DEF Quietly, BoxInv
    <3>3. CASE InFlight(v)'
      BY <1>1, <1>3, <3>2, <3>3 DEF Quietly, BoxInv
    <3>4. CASE ~InFlight(v)'
      <4>1. acc[v].payload = jar.flash
        BY <1>1, <1>2, <1>3, <3>1, <3>4 DEF Quietly, MailInv, QuietInv
      <4>2. \A w \in Visits : ~InFlight(w)'
        BY <1>2, <1>3, <3>1, <3>4 DEF Quietly, MailInv, QuietInv, OwnInv
      <4> QED  BY <1>1, <1>3, <3>2, <4>1, <4>2 DEF Quietly, BoxInv
    <3> QED  BY <3>3, <3>4
  <2>2. CASE \A v \in Visits : ~InFlight(v)
    BY <1>1, <1>2, <1>3, <2>2 DEF Quietly, BoxInv
  <2> QED  BY <2>1, <2>2
<1>4. CASE Memory
  <2>1. /\ \A i \in Ids : Entry(i) = EmptyPayload
        /\ \A v \in Visits : minted[v] \in Ids \cup {NoId}
        /\ jar.id \in Ids \cup {NoId}
    BY <1>1 DEF Entry, Quietly, TypeOK
  <2>2. Box = EmptyPayload
    BY <1>4, <2>1 DEF Quietly, BoxInv
  <2>3. \A i \in Ids : data'[i] = NoEntry
    BY <1>1
  <2>4. Box' = EmptyPayload
    <3>1. CASE jar.id # NoId
      BY <1>1, <1>4, <2>1, <2>3, <3>1 DEF Quietly, BoxInv, Entry
    <3>2. CASE jar.id = NoId
      <4>1. \A v \in Visits : minted[v] # NoId => data'[minted[v]] = NoEntry
        BY <2>1, <2>3
      <4> QED  BY <1>1, <1>4, <3>2, <4>1 DEF Quietly, BoxInv, Entry
    <3> QED  BY <3>1, <3>2
  <2> QED  BY <2>2, <2>4
<1> QED  BY <1>3, <1>4

-----------------------------------------------------------------------------
(* The theorem.                                                            *)

LEMMA SamePayload ==
  /\ EmptyPayload = Mailbox!EmptyPayload
  /\ \A p, q : After(p, q) = Mailbox!After(p, q)
BY DEF EmptyPayload, NoErrors, NoMessages, Mailbox!EmptyPayload, Mailbox!NoErrors,
       Mailbox!NoMessages, After, Mailbox!After

LEMMA InitMailbox == Init => Mailbox!Init
<1> SUFFICES ASSUME Init PROVE Mailbox!Init
  OBVIOUS
<1>1. Box = EmptyPayload
  BY DEF Init, Box, MemoryBox, CookieBox, InFlight, InServer
<1> QED  BY <1>1, SamePayload DEF Init, Mailbox!Init, Box

\* A step while nothing goes wrong.
LEMMA QuietStep ==
  ASSUME Quietly, Next
  PROVE  Mailbox!Next \/ UNCHANGED Mailbox!vars
<1>1. ASSUME NEW v \in Visits, TakeErrors(v) PROVE Mailbox!Next
  <2>1. bag[v] \in Bags /\ Session(v) = Box /\ Box' = After(Box, TakeErrorsCall(bag[v]))
    BY <1>1, SessionIsBox, TakesBox DEF TakeErrors, Quietly, StageInv
  <2>2. taken' = [taken EXCEPT ![v].errors[bag[v]] = Box.errors[bag[v]]]
    BY <1>1, <2>1 DEF TakeErrors
  <2>3. Mailbox!TakeErrors(v, bag[v])
    BY <2>1, <2>2, SamePayload DEF Mailbox!TakeErrors, Box, TakeErrorsCall
  <2> QED  BY <2>1, <2>3 DEF Mailbox!Next, Quietly
<1>2. ASSUME NEW v \in Visits, TakeMessages(v) PROVE Mailbox!Next
  <2>1. Session(v) = Box /\ Box' = After(Box, TakeMessagesCall)
    BY <1>2, SessionIsBox, TakesBox DEF TakeMessages
  <2>2. taken' = [taken EXCEPT ![v].messages = Box.messages]
    BY <1>2, <2>1 DEF TakeMessages
  <2>3. Mailbox!TakeMessages(v)
    BY <2>1, <2>2, SamePayload DEF Mailbox!TakeMessages, Box, TakeMessagesCall
  <2> QED  BY <2>3 DEF Mailbox!Next, Quietly
<1>3. ASSUME NEW v \in Visits, NEW s \in Slots, Flash(v, s) PROVE Mailbox!Next
  <2>1. Box' = After(Box, FlashCall(v, s)) /\ taken' = taken
    BY <1>3, FlashBox DEF Flash
  <2>2. CASE s \in Bags
    <3>1. Mailbox!FlashErrors(v, s)
      BY <2>1, <2>2, SamePayload DEF Mailbox!FlashErrors, Box, FlashCall
    <3> QED  BY <2>2, <3>1 DEF Mailbox!Next, Quietly
  <2>3. CASE s \notin Bags
    <3>1. Mailbox!FlashMessage(v, s)
      BY <2>1, <2>3, SamePayload DEF Mailbox!FlashMessage, Box, FlashCall
    <3> QED  BY <2>3, <3>1 DEF Mailbox!Next, Quietly, Slots
  <2> QED  BY <2>2, <2>3
<1>4. ASSUME NEW v \in Visits,
             (\E b \in Bags : Send(v, b)) \/ Answer(v) \/ Deliver(v) \/ Lose(v)
      PROVE  UNCHANGED Mailbox!vars
  <2>1. Box' = Box
    BY <1>4, RestsBox
  <2>2. taken' = taken
    BY <1>4 DEF Send, Answer, Deliver, Lose, history
  <2> QED  BY <2>1, <2>2 DEF Mailbox!vars, Box, Quietly
<1>5. CASE Restart
  <2>1. Box' = Box /\ taken' = taken
    BY <1>5, RestartBox DEF Restart, history
  <2> QED  BY <2>1 DEF Mailbox!vars, Box, Quietly
<1>6. CASE Expire
  BY <1>6 DEF Expire, Fault, Quietly
<1> QED  BY <1>1, <1>2, <1>3, <1>4, <1>5, <1>6 DEF Next

LEMMA StepMailbox ==
  ASSUME IInv, MailInv, BoxInv, TypeOK', MailInv', BoxInv', [Next]_vars
  PROVE  [Mailbox!Next]_(Mailbox!vars)
<1> SUFFICES Mailbox!Next \/ UNCHANGED Mailbox!vars
  OBVIOUS
<1>1. CASE UNCHANGED vars
  BY <1>1 DEF vars, server, history, times, Mailbox!vars, MemoryBox, CookieBox, Memory,
              InFlight, InServer, SendsId, Entry
<1>2. CASE Next /\ faults' = {}
  <2>1. faults = {}
    BY <1>2, FaultsGrow DEF IInv
  <2> QED  BY <1>2, <2>1, QuietStep DEF Quietly, IInv
<1>3. CASE Next /\ faults' # {}
  <2>1. faults \subseteq faults' /\ faults' \in (SUBSET Faults) \ {{}}
    BY <1>3, FaultsGrow DEF IInv, TypeOK
  <2> QED  BY <2>1 DEF Mailbox!Next
<1> QED  BY <1>1, <1>2, <1>3

LEMMA NextMail == IInv /\ MailInv /\ [Next]_vars => MailInv'
<1> SUFFICES ASSUME IInv, MailInv, [Next]_vars PROVE MailInv'
  OBVIOUS
<1>1. CASE Next
  BY <1>1, OwnNext, QuietNext DEF IInv, MailInv
<1>2. CASE UNCHANGED vars
  BY <1>2 DEF vars, server, history, times, MailInv, OwnInv, QuietInv, Memory, InFlight, InServer
<1> QED  BY <1>1, <1>2

(* Until a fault happens, the flash of a browser is one mailbox: every     *)
(* take and every flash of its visits acts on it at once, for both stores, *)
(* any number of visits, bags and keys, and whatever cookies are too large.*)
THEOREM OneMailbox == Spec => ImplementsMailbox
<1>1. IInv => TypeOK
  BY DEF IInv
<1>2. Spec => []MailInv
  BY InitMail, NextMail, Invariant, PTL DEF Spec
<1>3. IInv /\ MailInv /\ BoxInv /\ TypeOK' /\ MailInv' /\ BoxInv' /\ [Next]_vars
        => [Mailbox!Next]_(Mailbox!vars)
  BY StepMailbox
<1> QED  BY <1>1, <1>2, <1>3, Invariant, BoxFacts, InitMailbox, PTL
         DEF Spec, ImplementsMailbox, Mailbox!Spec
===============================================================================
