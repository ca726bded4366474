------------------------- MODULE BrowserSessionProofs -------------------------
(***************************************************************************)
(* Theorems about BrowserSession: what the two stores promise to a browser *)
(* whose visits overlap and whose responses are lost or late, for any      *)
(* number of visits, bags and keys, and whatever cookies are too large.    *)
(***************************************************************************)
EXTENDS BrowserSession, TLAPS

-----------------------------------------------------------------------------
(* The operations, slot by slot.                                           *)

TakeErrorsCall(b) == [kind |-> "TakeErrors", bag |-> b]
TakeMessagesCall  == [kind |-> "TakeMessages"]

LEMMA EmptyType ==
  /\ EmptyPayload \in Payload
  /\ \A s \in Slots : Value(EmptyPayload, s) = Absent
BY DEF EmptyPayload, NoErrors, NoMessages, Payload, Errors, Messages, Value, Slots

LEMMA ValueType ==
  ASSUME NEW p \in Payload, NEW s \in Slots
  PROVE  Value(p, s) \in Visits \cup {Absent}
BY DEF Payload, Errors, Messages, Value, Slots

LEMMA FlashEffect ==
  ASSUME NEW p \in Payload, NEW v \in Visits, NEW s \in Slots
  PROVE  /\ After(p, FlashCall(v, s)) \in Payload
         /\ Value(After(p, FlashCall(v, s)), s) = v
         /\ \A t \in Slots \ {s} : Value(After(p, FlashCall(v, s)), t) = Value(p, t)
         /\ Dirties(p, FlashCall(v, s))
<1>1. CASE s \in Bags
  <2>1. After(p, FlashCall(v, s)) = [p EXCEPT !.errors[s] = v]
    BY <1>1 DEF After, FlashCall
  <2> QED  BY <1>1, <2>1, SlotAssumption
           DEF Payload, Errors, Messages, Value, Slots, Dirties, FlashCall
<1>2. CASE s \in Keys
  <2>1. s \notin Bags
    BY <1>2, SlotAssumption
  <2>2. After(p, FlashCall(v, s)) = [p EXCEPT !.messages[s] = v]
    BY <2>1 DEF After, FlashCall
  <2> QED  BY <1>2, <2>1, <2>2, SlotAssumption
           DEF Payload, Errors, Messages, Value, Slots, Dirties, FlashCall
<1> QED  BY <1>1, <1>2 DEF Slots

LEMMA TakeErrorsEffect ==
  ASSUME NEW p \in Payload, NEW b \in Bags
  PROVE  LET n == After(p, TakeErrorsCall(b)) IN
         /\ n \in Payload
         /\ Value(n, b) = Absent
         /\ \A t \in Slots \ {b} : Value(n, t) = Value(p, t)
         /\ Value(p, b) # Absent => Dirties(p, TakeErrorsCall(b))
<1>1. After(p, TakeErrorsCall(b)) = [p EXCEPT !.errors[b] = Absent]
  BY DEF After, TakeErrorsCall
<1> QED  BY <1>1, SlotAssumption
         DEF Payload, Errors, Messages, Value, Slots, Dirties, TakeErrorsCall

LEMMA TakeMessagesEffect ==
  ASSUME NEW p \in Payload
  PROVE  LET n == After(p, TakeMessagesCall) IN
         /\ n \in Payload
         /\ \A k \in Keys : Value(n, k) = Absent
         /\ \A b \in Bags : Value(n, b) = Value(p, b)
         /\ \A k \in Keys : Value(p, k) # Absent => Dirties(p, TakeMessagesCall)
<1>1. After(p, TakeMessagesCall) = [p EXCEPT !.messages = NoMessages]
  BY DEF After, TakeMessagesCall
<1>2. \A k \in Keys : k \notin Bags
  BY SlotAssumption
<1> QED  BY <1>1, <1>2
         DEF Payload, Errors, Messages, Value, Slots, Dirties, TakeMessagesCall, NoMessages

-----------------------------------------------------------------------------
(* The calls of the two stores.                                            *)

AccType == [payload : Payload, dirty : BOOLEAN]

LEMMA CookieCallEffect ==
  ASSUME acc \in [Visits -> AccType], NEW v \in Visits, NEW q,
         After(acc[v].payload, q) \in Payload,
         Dirties(acc[v].payload, q) \in BOOLEAN,
         CookieCall(v, q)
  PROVE  /\ UNCHANGED <<data, minted>>
         /\ acc' \in [Visits -> AccType]
         /\ acc'[v].payload = After(acc[v].payload, q)
         /\ acc'[v].dirty = (acc[v].dirty \/ Dirties(acc[v].payload, q))
         /\ \A w \in Visits \ {v} : acc'[w] = acc[w]
<1> DEFINE n == [payload |-> After(acc[v].payload, q),
                 dirty   |-> acc[v].dirty \/ Dirties(acc[v].payload, q)]
<1>1. acc' = [acc EXCEPT ![v] = n] /\ UNCHANGED <<data, minted>>
  BY DEF CookieCall
<1>2. acc[v].dirty \in BOOLEAN
  BY DEF AccType
<1>3. n \in AccType /\ n.payload = After(acc[v].payload, q)
        /\ n.dirty = (acc[v].dirty \/ Dirties(acc[v].payload, q))
  BY <1>2 DEF AccType
<1> HIDE DEF n
<1> QED  BY <1>1, <1>3

LEMMA MemoryTakeEffect ==
  ASSUME data \in [Ids -> Payload \cup {NoEntry}], id \in [Visits -> Ids \cup {NoId}],
         NEW v \in Visits, NEW q, \A p \in Payload : After(p, q) \in Payload,
         MemoryTake(v, q)
  PROVE  /\ UNCHANGED <<acc, minted>>
         /\ data' \in [Ids -> Payload \cup {NoEntry}]
         /\ Known(v) => id[v] \in Ids /\ data[id[v]] \in Payload
                          /\ data'[id[v]] = After(data[id[v]], q)
         /\ \A i \in Ids : ~(Known(v) /\ i = id[v]) => data'[i] = data[i]
<1>1. CASE Known(v)
  <2>1. id[v] \in Ids /\ data[id[v]] \in Payload
    BY <1>1 DEF Known
  <2>2. data' = [data EXCEPT ![id[v]] = After(data[id[v]], q)]
    BY <1>1 DEF MemoryTake
  <2> QED  BY <1>1, <2>1, <2>2 DEF MemoryTake
<1>2. CASE ~Known(v)
  BY <1>2 DEF MemoryTake
<1> QED  BY <1>1, <1>2

LEMMA MemoryFlashEffect ==
  ASSUME data \in [Ids -> Payload \cup {NoEntry}], id \in [Visits -> Ids \cup {NoId}],
         minted \in [Visits -> Ids \cup {NoId}],
         NEW v \in Visits, NEW s \in Slots, MemoryFlash(v, s)
  PROVE  /\ UNCHANGED acc
         /\ data' \in [Ids -> Payload \cup {NoEntry}]
         /\ minted' \in [Visits -> Ids \cup {NoId}]
         /\ SessionID(v, s) \in Ids
         /\ Entry(SessionID(v, s)) \in Payload
         /\ data'[SessionID(v, s)] = After(Entry(SessionID(v, s)), FlashCall(v, s))
         /\ data'[SessionID(v, s)] \in Payload
         /\ \A i \in Ids \ {SessionID(v, s)} : data'[i] = data[i]
         /\ minted'[v] = IF id[v] = NoId THEN SessionID(v, s) ELSE minted[v]
         /\ \A w \in Visits \ {v} : minted'[w] = minted[w]
<1> DEFINE i == SessionID(v, s)
           n == After(Entry(i), FlashCall(v, s))
<1>1. i \in Ids
  BY DEF SessionID, Ids
<1>2. Entry(i) \in Payload
  BY <1>1, EmptyType DEF Entry
<1>3. n \in Payload
  BY <1>2, FlashEffect
<1>4. /\ data' = [data EXCEPT ![i] = n]
      /\ minted' = IF id[v] = NoId THEN [minted EXCEPT ![v] = i] ELSE minted
      /\ UNCHANGED acc
  BY DEF MemoryFlash
<1> HIDE DEF i, n
<1>5. /\ data'[i] = n
      /\ data' \in [Ids -> Payload \cup {NoEntry}]
      /\ \A j \in Ids \ {i} : data'[j] = data[j]
  BY <1>1, <1>3, <1>4
<1>6. /\ minted' \in [Visits -> Ids \cup {NoId}]
      /\ minted'[v] = IF id[v] = NoId THEN i ELSE minted[v]
      /\ \A w \in Visits \ {v} : minted'[w] = minted[w]
  BY <1>1, <1>4
<1> QED  BY <1>1, <1>2, <1>3, <1>4, <1>5, <1>6 DEF i, n

-----------------------------------------------------------------------------
(* Types.                                                                  *)

Stages == {"unsent", "sent", "taking", "handling", "answered", "delivered", "lost"}

\* A visit that was sent has a bag, and what it took and flashed is as far as
\* its stage.
StageInv ==
  \A v \in Visits :
    /\ stage[v] # "unsent" => bag[v] \in Bags
    /\ stage[v] \in {"unsent", "sent"} => taken[v] = EmptyPayload
    /\ stage[v] = "taking" => taken[v].messages = NoMessages
    /\ stage[v] \in {"unsent", "sent", "taking"} => flashed[v] = {}

LEMMA InitType == Init => TypeOK /\ StageInv
BY EmptyType DEF Init, TypeOK, StageInv

\* What a take reads.
LEMMA SessionType ==
  ASSUME TypeOK, NEW v \in Visits
  PROVE  Session(v) \in Payload
BY EmptyType DEF TypeOK, Session, Known

LEMMA TakesTyped ==
  ASSUME TypeOK, StageInv, NEW v \in Visits, TakeErrors(v) \/ TakeMessages(v)
  PROVE  /\ data' \in [Ids -> Payload \cup {NoEntry}]
         /\ acc' \in [Visits -> AccType]
         /\ minted' = minted
<1> /\ data \in [Ids -> Payload \cup {NoEntry}] /\ acc \in [Visits -> AccType]
    /\ id \in [Visits -> Ids \cup {NoId}]
  BY DEF TypeOK, AccType
<1>1. acc[v].payload \in Payload
  BY DEF AccType
<1>2. CASE TakeErrors(v)
  <2>1. bag[v] \in Bags
    BY <1>2 DEF TakeErrors, StageInv
  <2>2. MemoryTake(v, TakeErrorsCall(bag[v])) \/ CookieCall(v, TakeErrorsCall(bag[v]))
    BY <1>2 DEF TakeErrors, TakeErrorsCall
  <2>3. \A q \in Payload : After(q, TakeErrorsCall(bag[v])) \in Payload
    BY <2>1, TakeErrorsEffect
  <2>4. Dirties(acc[v].payload, TakeErrorsCall(bag[v])) \in BOOLEAN
    BY DEF Dirties
  <2>5. CASE MemoryTake(v, TakeErrorsCall(bag[v]))
    BY <2>3, <2>5, MemoryTakeEffect
  <2>6. CASE CookieCall(v, TakeErrorsCall(bag[v]))
    BY <1>1, <2>3, <2>4, <2>6, CookieCallEffect
  <2> QED  BY <2>2, <2>5, <2>6
<1>3. CASE TakeMessages(v)
  <2>2. MemoryTake(v, TakeMessagesCall) \/ CookieCall(v, TakeMessagesCall)
    BY <1>3 DEF TakeMessages, TakeMessagesCall
  <2>3. \A q \in Payload : After(q, TakeMessagesCall) \in Payload
    BY TakeMessagesEffect
  <2>4. Dirties(acc[v].payload, TakeMessagesCall) \in BOOLEAN
    BY DEF Dirties
  <2>5. CASE MemoryTake(v, TakeMessagesCall)
    BY <2>3, <2>5, MemoryTakeEffect
  <2>6. CASE CookieCall(v, TakeMessagesCall)
    BY <1>1, <2>3, <2>4, <2>6, CookieCallEffect
  <2> QED  BY <2>2, <2>5, <2>6
<1> QED  BY <1>2, <1>3

LEMMA FlashTyped ==
  ASSUME TypeOK, NEW v \in Visits, NEW s \in Slots, Flash(v, s)
  PROVE  /\ data' \in [Ids -> Payload \cup {NoEntry}]
         /\ acc' \in [Visits -> AccType]
         /\ minted' \in [Visits -> Ids \cup {NoId}]
<1> /\ data \in [Ids -> Payload \cup {NoEntry}] /\ acc \in [Visits -> AccType]
    /\ id \in [Visits -> Ids \cup {NoId}] /\ minted \in [Visits -> Ids \cup {NoId}]
  BY DEF TypeOK, AccType
<1>1. acc[v].payload \in Payload
  BY DEF AccType
<1>2. CASE MemoryFlash(v, s)
  BY <1>2, MemoryFlashEffect
<1>3. CASE CookieCall(v, FlashCall(v, s))
  BY <1>1, <1>3, CookieCallEffect, FlashEffect
<1> QED  BY <1>2, <1>3 DEF Flash

LEMMA TypeNext ==
  ASSUME TypeOK, StageInv, Next
  PROVE  TypeOK'
<1> USE DEF server, history, times
<1>1. ASSUME NEW v \in Visits, NEW b \in Bags, Send(v, b) PROVE TypeOK'
  BY <1>1 DEF Send, TypeOK, EnsurePending, Fault, Faults, Delivered
<1>2. ASSUME NEW v \in Visits, TakeErrors(v) PROVE TypeOK'
  <2>1. bag[v] \in Bags /\ Session(v) \in Payload
    BY <1>2, SessionType DEF TakeErrors, StageInv
  <2>2. taken' \in [Visits -> Payload]
    BY <1>2, <2>1 DEF TakeErrors, TypeOK, Payload, Errors
  <2> QED  BY <1>2, <2>2, TakesTyped DEF TakeErrors, TypeOK, AccType
<1>3. ASSUME NEW v \in Visits, TakeMessages(v) PROVE TypeOK'
  <2>1. Session(v) \in Payload
    BY SessionType
  <2>2. taken' \in [Visits -> Payload]
    BY <1>3, <2>1 DEF TakeMessages, TypeOK, Payload
  <2> QED  BY <1>3, <2>2, TakesTyped DEF TakeMessages, TypeOK, AccType
<1>4. ASSUME NEW v \in Visits, NEW s \in Slots, Flash(v, s) PROVE TypeOK'
  <2>1. flashed' \in [Visits -> SUBSET Slots]
    BY <1>4 DEF Flash, TypeOK
  <2> QED  BY <1>4, <2>1, FlashTyped DEF Flash, TypeOK, AccType
<1>5. ASSUME NEW v \in Visits, Answer(v) PROVE TypeOK'
  BY <1>5 DEF Answer, TypeOK, Fault, Faults
<1>6. ASSUME NEW v \in Visits, Deliver(v) PROVE TypeOK'
  <2>1. jar' \in [flash : Payload, id : Ids \cup {NoId}]
    BY <1>6 DEF Deliver, TypeOK
  <2> QED  BY <1>6, <2>1 DEF Deliver, TypeOK, Delivered
<1>7. ASSUME NEW v \in Visits, Lose(v) PROVE TypeOK'
  BY <1>7 DEF Lose, TypeOK, Fault, Faults
<1>8. CASE Expire
  BY <1>8, EmptyType DEF Expire, TypeOK, Fault, Faults
<1>9. CASE Restart
  <2>1. stage' \in [Visits -> Stages] /\ data' \in [Ids -> Payload \cup {NoEntry}]
    BY <1>9 DEF Restart, TypeOK, Stages
  <2>2. faults' \subseteq Faults
    BY <1>9 DEF Restart, TypeOK, Fault, Faults
  <2> QED  BY <1>9, <2>1, <2>2 DEF Restart, TypeOK, Stages
<1> QED  BY <1>1, <1>2, <1>3, <1>4, <1>5, <1>6, <1>7, <1>8, <1>9 DEF Next

LEMMA StageNext ==
  ASSUME TypeOK, StageInv, Next
  PROVE  StageInv'
<1> USE DEF server, history, times
<1>1. ASSUME NEW v \in Visits, NEW b \in Bags, Send(v, b) PROVE StageInv'
  BY <1>1 DEF Send, TypeOK, StageInv
<1>2. ASSUME NEW v \in Visits, TakeErrors(v) PROVE StageInv'
  <2>1. taken'[v].messages = NoMessages
    BY <1>2 DEF TakeErrors, TypeOK, StageInv, EmptyPayload
  <2> QED  BY <1>2, <2>1 DEF TakeErrors, TypeOK, StageInv
<1>3. ASSUME NEW v \in Visits, TakeMessages(v) PROVE StageInv'
  BY <1>3 DEF TakeMessages, TypeOK, StageInv
<1>4. ASSUME NEW v \in Visits, NEW s \in Slots, Flash(v, s) PROVE StageInv'
  BY <1>4 DEF Flash, TypeOK, StageInv
<1>5. ASSUME NEW v \in Visits, Answer(v) \/ Deliver(v) \/ Lose(v) PROVE StageInv'
  BY <1>5 DEF Answer, Deliver, Lose, TypeOK, StageInv
<1>6. CASE Expire
  BY <1>6 DEF Expire, StageInv
<1>7. CASE Restart
  BY <1>7 DEF Restart, InServer, TypeOK, StageInv
<1> QED  BY <1>1, <1>2, <1>3, <1>4, <1>5, <1>6, <1>7 DEF Next

-----------------------------------------------------------------------------
(* The steps of a visit, slot by slot.                                     *)

\* n is p without what it has in the slots T.
Emptied(p, n, T) ==
  /\ \A s \in T : Value(n, s) = Absent
  /\ \A s \in Slots \ T : Value(n, s) = Value(p, s)

\* Visit v takes the slots T from its session.
Takes(v, T) ==
  /\ \A s \in T : /\ Value(taken'[v], s) = Value(Session(v), s)
                  /\ Value(taken[v], s) = Absent
  /\ \A s \in Slots \ T : Value(taken'[v], s) = Value(taken[v], s)
  /\ \A w \in Visits \ {v} : taken'[w] = taken[w]
  /\ Memory =>
       /\ Known(v) => /\ id[v] \in Ids
                      /\ data[id[v]] # NoEntry
                      /\ Emptied(data[id[v]], data'[id[v]], T)
       /\ \A i \in Ids : ~(Known(v) /\ i = id[v]) => data'[i] = data[i]
  /\ ~Memory =>
       /\ UNCHANGED data
       /\ Emptied(acc[v].payload, acc'[v].payload, T)
       /\ \A s \in T : Value(acc[v].payload, s) # Absent => acc'[v].dirty
       /\ acc[v].dirty => acc'[v].dirty
       /\ \A w \in Visits \ {v} : acc'[w] = acc[w]

LEMMA TakeErrorsTakes ==
  ASSUME TypeOK, StageInv, NEW v \in Visits, TakeErrors(v)
  PROVE  bag[v] \in Bags /\ Takes(v, {bag[v]})
<1> DEFINE b == bag[v]
           q == TakeErrorsCall(b)
<1> /\ data \in [Ids -> Payload \cup {NoEntry}] /\ acc \in [Visits -> AccType]
    /\ id \in [Visits -> Ids \cup {NoId}] /\ taken \in [Visits -> Payload]
  BY DEF TypeOK, AccType
<1>1. b \in Bags /\ b \in Slots
  BY DEF TakeErrors, StageInv, Slots
<1>2. acc[v].payload \in Payload /\ Session(v) \in Payload /\ taken[v] \in Payload
  BY SessionType DEF AccType
<1>3. taken' = [taken EXCEPT ![v].errors[b] = Session(v).errors[b]]
  BY DEF TakeErrors
<1>4. /\ Value(taken'[v], b) = Value(Session(v), b)
      /\ \A s \in Slots \ {b} : Value(taken'[v], s) = Value(taken[v], s)
      /\ \A w \in Visits \ {v} : taken'[w] = taken[w]
  BY <1>1, <1>2, <1>3 DEF Value, Payload, Errors, Slots
<1>5. taken[v] = EmptyPayload
  BY DEF TakeErrors, StageInv
<1>6. Value(taken[v], b) = Absent
  BY <1>1, <1>5, EmptyType
<1>7. (Memory /\ MemoryTake(v, q)) \/ (~Memory /\ CookieCall(v, q))
  BY DEF TakeErrors, TakeErrorsCall
<1>8. \A p \in Payload : After(p, q) \in Payload /\ Emptied(p, After(p, q), {b})
  BY <1>1, TakeErrorsEffect DEF Emptied
<1>9. CASE Memory
  <2>1. MemoryTake(v, q)
    BY <1>7, <1>9
  <2>2. /\ Known(v) => id[v] \in Ids /\ data[id[v]] \in Payload
                         /\ data'[id[v]] = After(data[id[v]], q)
        /\ \A i \in Ids : ~(Known(v) /\ i = id[v]) => data'[i] = data[i]
    BY <1>8, <2>1, MemoryTakeEffect
  <2>3. Known(v) => data[id[v]] # NoEntry
    BY DEF Known
  <2> HIDE DEF q, b
  <2> QED  BY <1>1, <1>4, <1>6, <1>8, <1>9, <2>2, <2>3 DEF Takes, b
<1>10. CASE ~Memory
  <2>1. CookieCall(v, q)
    BY <1>7, <1>10
  <2>2. Dirties(acc[v].payload, q) \in BOOLEAN
    BY DEF Dirties
  <2>3. /\ UNCHANGED <<data, minted>>
        /\ acc'[v].payload = After(acc[v].payload, q)
        /\ acc'[v].dirty = (acc[v].dirty \/ Dirties(acc[v].payload, q))
        /\ \A w \in Visits \ {v} : acc'[w] = acc[w]
    BY <1>2, <1>8, <2>1, <2>2, CookieCallEffect
  <2>4. Value(acc[v].payload, b) # Absent => Dirties(acc[v].payload, q)
    BY <1>1, <1>2, TakeErrorsEffect
  <2> HIDE DEF q, b
  <2> QED  BY <1>1, <1>2, <1>4, <1>6, <1>8, <1>10, <2>3, <2>4 DEF Takes, b
<1> QED  BY <1>1, <1>9, <1>10

LEMMA TakeMessagesTakes ==
  ASSUME TypeOK, StageInv, NEW v \in Visits, TakeMessages(v)
  PROVE  Takes(v, Keys)
<1> DEFINE q == TakeMessagesCall
<1> /\ data \in [Ids -> Payload \cup {NoEntry}] /\ acc \in [Visits -> AccType]
    /\ id \in [Visits -> Ids \cup {NoId}] /\ taken \in [Visits -> Payload]
  BY DEF TypeOK, AccType
<1>1. \A k \in Keys : k \in Slots /\ k \notin Bags
  BY SlotAssumption DEF Slots
<1>2. acc[v].payload \in Payload /\ Session(v) \in Payload /\ taken[v] \in Payload
  BY SessionType DEF AccType
<1>3. taken' = [taken EXCEPT ![v].messages = Session(v).messages]
  BY DEF TakeMessages
<1>4. /\ \A k \in Keys : Value(taken'[v], k) = Value(Session(v), k)
      /\ \A s \in Slots \ Keys : Value(taken'[v], s) = Value(taken[v], s)
      /\ \A w \in Visits \ {v} : taken'[w] = taken[w]
  BY <1>1, <1>2, <1>3 DEF Value, Payload, Errors, Slots
<1>5. taken[v].messages = NoMessages
  BY DEF TakeMessages, StageInv
<1>6. \A k \in Keys : Value(taken[v], k) = Absent
  BY <1>1, <1>5 DEF Value, NoMessages
<1>7. (Memory /\ MemoryTake(v, q)) \/ (~Memory /\ CookieCall(v, q))
  BY DEF TakeMessages, TakeMessagesCall
<1>8. \A p \in Payload : After(p, q) \in Payload /\ Emptied(p, After(p, q), Keys)
  BY <1>1, TakeMessagesEffect DEF Emptied, Slots
<1>9. CASE Memory
  <2>1. MemoryTake(v, q)
    BY <1>7, <1>9
  <2>2. /\ Known(v) => id[v] \in Ids /\ data[id[v]] \in Payload
                         /\ data'[id[v]] = After(data[id[v]], q)
        /\ \A i \in Ids : ~(Known(v) /\ i = id[v]) => data'[i] = data[i]
    BY <1>8, <2>1, MemoryTakeEffect
  <2>3. Known(v) => data[id[v]] # NoEntry
    BY DEF Known
  <2> HIDE DEF q
  <2> QED  BY <1>4, <1>6, <1>8, <1>9, <2>2, <2>3 DEF Takes
<1>10. CASE ~Memory
  <2>1. CookieCall(v, q)
    BY <1>7, <1>10
  <2>2. Dirties(acc[v].payload, q) \in BOOLEAN
    BY DEF Dirties
  <2>3. /\ UNCHANGED <<data, minted>>
        /\ acc'[v].payload = After(acc[v].payload, q)
        /\ acc'[v].dirty = (acc[v].dirty \/ Dirties(acc[v].payload, q))
        /\ \A w \in Visits \ {v} : acc'[w] = acc[w]
    BY <1>2, <1>8, <2>1, <2>2, CookieCallEffect
  <2>4. \A k \in Keys : Value(acc[v].payload, k) # Absent => Dirties(acc[v].payload, q)
    BY <1>2, TakeMessagesEffect
  <2> HIDE DEF q
  <2> QED  BY <1>2, <1>4, <1>6, <1>8, <1>10, <2>3, <2>4 DEF Takes
<1> QED  BY <1>9, <1>10

-----------------------------------------------------------------------------
(* A MemoryStore gives a flash away once.                                  *)

\* u's flash for slot s is under id i.
Holds(i, s, u) == data[i] # NoEntry /\ Value(data[i], s) = u

\* A flash is in one place, an entry or a visit.
MemoryInv ==
  Memory => \A u \in Visits, s \in Slots :
    /\ \A i \in Ids : Holds(i, s, u) => s \in flashed[u]
    /\ \A v \in Visits : Took(v, s, u) => s \in flashed[u]
    /\ \A i, j \in Ids : Holds(i, s, u) /\ Holds(j, s, u) => i = j
    /\ \A v, w \in Visits : Took(v, s, u) /\ Took(w, s, u) => v = w
    /\ \A v \in Visits, i \in Ids : ~(Took(v, s, u) /\ Holds(i, s, u))

LEMMA TakesMemory ==
  ASSUME TypeOK, MemoryInv, NEW v \in Visits, NEW T \in SUBSET Slots, Takes(v, T),
         UNCHANGED <<backend, flashed>>
  PROVE  MemoryInv'
<1> SUFFICES ASSUME Memory PROVE MemoryInv'
  BY DEF MemoryInv, Memory
<1>1. ASSUME NEW u \in Visits, NEW s \in Slots, NEW i \in Ids, Holds(i, s, u)'
      PROVE  Holds(i, s, u) /\ ~(s \in T /\ Known(v) /\ i = id[v])
  <2>1. CASE Known(v) /\ i = id[v]
    <3>1. CASE s \in T
      BY <1>1, <2>1, <3>1, VisitAssumption DEF Takes, Emptied, Holds
    <3>2. CASE s \notin T
      BY <1>1, <2>1, <3>2 DEF Takes, Emptied, Holds
    <3> QED  BY <3>1, <3>2
  <2>2. CASE ~(Known(v) /\ i = id[v])
    BY <1>1, <2>2 DEF Takes, Holds
  <2> QED  BY <2>1, <2>2
<1>2. ASSUME NEW u \in Visits, NEW s \in Slots, NEW w \in Visits, Took(w, s, u)'
      PROVE  \/ Took(w, s, u)
             \/ w = v /\ s \in T /\ Known(v) /\ id[v] \in Ids /\ Holds(id[v], s, u)
  <2>1. CASE w # v \/ s \notin T
    BY <1>2, <2>1 DEF Takes, Took
  <2>2. CASE w = v /\ s \in T
    <3>1. Value(Session(v), s) = u
      BY <1>2, <2>2 DEF Takes, Took
    <3>2. Session(v) = IF Known(v) THEN data[id[v]] ELSE EmptyPayload
      BY DEF Session
    <3>3. Known(v)
      BY <3>1, <3>2, EmptyType, VisitAssumption
    <3> QED  BY <2>2, <3>1, <3>2, <3>3 DEF Takes, Holds
  <2> QED  BY <2>1, <2>2
<1>3. ASSUME NEW u \in Visits, NEW s \in Slots
      PROVE  /\ \A i \in Ids : Holds(i, s, u)' => s \in flashed'[u]
             /\ \A w \in Visits : Took(w, s, u)' => s \in flashed'[u]
             /\ \A i, j \in Ids : Holds(i, s, u)' /\ Holds(j, s, u)' => i = j
             /\ \A w, x \in Visits : Took(w, s, u)' /\ Took(x, s, u)' => w = x
             /\ \A w \in Visits, i \in Ids : ~(Took(w, s, u)' /\ Holds(i, s, u)')
  <2>1. /\ \A i \in Ids : Holds(i, s, u) => s \in flashed[u]
        /\ \A w \in Visits : Took(w, s, u) => s \in flashed[u]
        /\ \A i, j \in Ids : Holds(i, s, u) /\ Holds(j, s, u) => i = j
        /\ \A w, x \in Visits : Took(w, s, u) /\ Took(x, s, u) => w = x
        /\ \A w \in Visits, i \in Ids : ~(Took(w, s, u) /\ Holds(i, s, u))
    BY DEF MemoryInv
  <2> QED  BY <1>1, <1>2, <2>1
<1> QED  BY <1>3 DEF MemoryInv

LEMMA FlashMemory ==
  ASSUME TypeOK, MemoryInv, NEW v \in Visits, NEW s \in Slots, Flash(v, s)
  PROVE  MemoryInv'
<1> SUFFICES ASSUME Memory PROVE MemoryInv'
  BY DEF MemoryInv, Memory, Flash
<1> DEFINE i == SessionID(v, s)
<1>1. MemoryFlash(v, s) /\ s \notin flashed[v]
        /\ flashed' = [flashed EXCEPT ![v] = @ \cup {s}] /\ UNCHANGED taken
  BY DEF Flash
<1>2. /\ i \in Ids /\ Entry(i) \in Payload /\ data'[i] \in Payload
      /\ data'[i] = After(Entry(i), FlashCall(v, s))
      /\ \A j \in Ids \ {i} : data'[j] = data[j]
  BY <1>1, MemoryFlashEffect DEF TypeOK
<1> HIDE DEF i
<1>3. /\ Value(data'[i], s) = v
      /\ \A t \in Slots \ {s} : Value(data'[i], t) = Value(Entry(i), t)
  BY <1>2, FlashEffect
<1>4. /\ flashed'[v] = flashed[v] \cup {s}
      /\ \A u \in Visits \ {v} : flashed'[u] = flashed[u]
  BY <1>1 DEF TypeOK
<1>5. ASSUME NEW j \in Ids, NEW t \in Slots, NEW u \in Visits, Holds(j, t, u)'
      PROVE  (j = i /\ t = s /\ u = v) \/ Holds(j, t, u)
  <2>1. CASE j # i
    BY <1>2, <1>5, <2>1 DEF Holds
  <2>2. CASE j = i /\ t = s
    BY <1>3, <1>5, <2>2 DEF Holds
  <2>3. CASE j = i /\ t # s
    <3>1. Value(Entry(i), t) = u
      BY <1>3, <1>5, <2>3 DEF Holds
    <3>2. data[i] # NoEntry
      BY <3>1, EmptyType, VisitAssumption DEF Entry
    <3> QED  BY <2>3, <3>1, <3>2 DEF Holds, Entry
  <2> QED  BY <2>1, <2>2, <2>3
<1>6. \A w \in Visits, t \in Slots, u \in Visits : Took(w, t, u)' <=> Took(w, t, u)
  BY <1>1 DEF Took
<1>7. ASSUME NEW u \in Visits, NEW t \in Slots
      PROVE  /\ \A j \in Ids : Holds(j, t, u)' => t \in flashed'[u]
             /\ \A w \in Visits : Took(w, t, u)' => t \in flashed'[u]
             /\ \A j, k \in Ids : Holds(j, t, u)' /\ Holds(k, t, u)' => j = k
             /\ \A w, x \in Visits : Took(w, t, u)' /\ Took(x, t, u)' => w = x
             /\ \A w \in Visits, j \in Ids : ~(Took(w, t, u)' /\ Holds(j, t, u)')
  <2>1. /\ \A j \in Ids : Holds(j, t, u) => t \in flashed[u]
        /\ \A w \in Visits : Took(w, t, u) => t \in flashed[u]
        /\ \A j, k \in Ids : Holds(j, t, u) /\ Holds(k, t, u) => j = k
        /\ \A w, x \in Visits : Took(w, t, u) /\ Took(x, t, u) => w = x
        /\ \A w \in Visits, j \in Ids : ~(Took(w, t, u) /\ Holds(j, t, u))
    BY DEF MemoryInv
  <2> QED  BY <1>1, <1>4, <1>5, <1>6, <2>1
<1> QED  BY <1>7 DEF MemoryInv

LEMMA MemoryNext ==
  ASSUME TypeOK, StageInv, MemoryInv, Next
  PROVE  MemoryInv'
<1> USE DEF server, history, times
<1>1. ASSUME NEW v \in Visits, TakeErrors(v) PROVE MemoryInv'
  <2>1. {bag[v]} \in SUBSET Slots /\ Takes(v, {bag[v]})
    BY <1>1, TakeErrorsTakes DEF Slots
  <2> QED  BY <1>1, <2>1, TakesMemory DEF TakeErrors
<1>2. ASSUME NEW v \in Visits, TakeMessages(v) PROVE MemoryInv'
  <2>1. Keys \in SUBSET Slots /\ Takes(v, Keys)
    BY <1>2, TakeMessagesTakes DEF Slots
  <2> QED  BY <1>2, <2>1, TakesMemory DEF TakeMessages
<1>3. ASSUME NEW v \in Visits, NEW s \in Slots, Flash(v, s) PROVE MemoryInv'
  BY <1>3, FlashMemory
<1>4. ASSUME UNCHANGED <<backend, data, taken, flashed>> PROVE MemoryInv'
  BY <1>4 DEF MemoryInv, Memory, Holds, Took
<1>5. CASE Restart
  <2>1. \A i \in Ids : data'[i] = NoEntry
    BY <1>5 DEF Restart
  <2> QED  BY <1>5, <2>1 DEF Restart, MemoryInv, Memory, Holds, Took
<1>6. ASSUME NEW v \in Visits, NEW b \in Bags, Send(v, b) PROVE MemoryInv'
  BY <1>4, <1>6 DEF Send
<1>7. ASSUME NEW v \in Visits, Answer(v) \/ Deliver(v) \/ Lose(v) PROVE MemoryInv'
  BY <1>4, <1>7 DEF Answer, Deliver, Lose
<1>8. CASE Expire
  BY <1>4, <1>8 DEF Expire
<1> QED  BY <1>1, <1>2, <1>3, <1>5, <1>6, <1>7, <1>8 DEF Next

-----------------------------------------------------------------------------
(* What is over does not change.                                           *)

Past(w) ==
  /\ acc'[w] = acc[w] /\ minted'[w] = minted[w] /\ id'[w] = id[w]
  /\ taken'[w] = taken[w] /\ flashed'[w] = flashed[w]
  /\ seen'[w] = seen[w] /\ prior'[w] = prior[w] /\ stage'[w] = stage[w]

\* Every visit but the acting one, v.
Others(v) ==
  \A w \in Visits \ {v} : Past(w)

LEMMA StoreFrame ==
  ASSUME TypeOK, NEW v \in Visits,
         \/ \E q : MemoryTake(v, q) \/ CookieCall(v, q)
         \/ \E s \in Slots : MemoryFlash(v, s)
  PROVE  \A w \in Visits \ {v} : acc'[w] = acc[w] /\ minted'[w] = minted[w]
<1> acc \in [Visits -> AccType] /\ minted \in [Visits -> Ids \cup {NoId}]
  BY DEF TypeOK, AccType
<1>1. ASSUME NEW q, MemoryTake(v, q)
      PROVE  \A w \in Visits \ {v} : acc'[w] = acc[w] /\ minted'[w] = minted[w]
  BY <1>1 DEF MemoryTake
<1>2. ASSUME NEW q, CookieCall(v, q)
      PROVE  \A w \in Visits \ {v} : acc'[w] = acc[w] /\ minted'[w] = minted[w]
  BY <1>2 DEF CookieCall
<1>3. ASSUME NEW s \in Slots, MemoryFlash(v, s)
      PROVE  \A w \in Visits \ {v} : acc'[w] = acc[w] /\ minted'[w] = minted[w]
  BY <1>3 DEF MemoryFlash
<1> QED  BY <1>1, <1>2, <1>3

LEMMA OthersFrame ==
  ASSUME TypeOK, NEW v \in Visits,
         \/ \E b \in Bags : Send(v, b)
         \/ TakeErrors(v) \/ TakeMessages(v)
         \/ \E s \in Slots : Flash(v, s)
         \/ Answer(v) \/ Deliver(v) \/ Lose(v)
  PROVE  Others(v) /\ stage[v] # "delivered"
<1> USE DEF server, history, times
<1> /\ acc \in [Visits -> AccType] /\ minted \in [Visits -> Ids \cup {NoId}]
    /\ id \in [Visits -> Ids \cup {NoId}] /\ taken \in [Visits -> Payload]
    /\ flashed \in [Visits -> SUBSET Slots] /\ stage \in [Visits -> Stages]
    /\ seen \in [Visits -> SUBSET Visits] /\ prior \in [Visits -> SUBSET Visits]
  BY DEF TypeOK, AccType, Stages
<1>1. ASSUME NEW b \in Bags, Send(v, b) PROVE Others(v) /\ stage[v] # "delivered"
  BY <1>1 DEF Send, Others, Past
<1>2. CASE TakeErrors(v)
  <2>1. \A w \in Visits \ {v} : acc'[w] = acc[w] /\ minted'[w] = minted[w]
    BY <1>2, StoreFrame DEF TakeErrors
  <2>2. stage[v] # "delivered" /\ \A w \in Visits \ {v} : stage'[w] = stage[w] /\ taken'[w] = taken[w]
    BY <1>2 DEF TakeErrors
  <2>3. UNCHANGED <<id, flashed, seen, prior>>
    BY <1>2 DEF TakeErrors
  <2> QED  BY <2>1, <2>2, <2>3 DEF Others, Past
<1>3. CASE TakeMessages(v)
  <2>1. \A w \in Visits \ {v} : acc'[w] = acc[w] /\ minted'[w] = minted[w]
    BY <1>3, StoreFrame DEF TakeMessages
  <2>2. stage[v] # "delivered" /\ \A w \in Visits \ {v} : stage'[w] = stage[w] /\ taken'[w] = taken[w]
    BY <1>3 DEF TakeMessages
  <2>3. UNCHANGED <<id, flashed, seen, prior>>
    BY <1>3 DEF TakeMessages
  <2> QED  BY <2>1, <2>2, <2>3 DEF Others, Past
<1>4. ASSUME NEW s \in Slots, Flash(v, s) PROVE Others(v) /\ stage[v] # "delivered"
  <2>1. \A w \in Visits \ {v} : acc'[w] = acc[w] /\ minted'[w] = minted[w]
    BY <1>4, StoreFrame DEF Flash
  <2>2. stage[v] # "delivered" /\ \A w \in Visits \ {v} : flashed'[w] = flashed[w]
    BY <1>4 DEF Flash
  <2>3. UNCHANGED <<id, taken, stage, seen, prior>>
    BY <1>4 DEF Flash
  <2> QED  BY <2>1, <2>2, <2>3 DEF Others, Past
<1>5. CASE Answer(v) \/ Deliver(v) \/ Lose(v)
  BY <1>5 DEF Answer, Deliver, Lose, Others, Past
<1> QED  BY <1>1, <1>2, <1>3, <1>4, <1>5

LEMMA DeliveredStay ==
  ASSUME TypeOK, Next
  PROVE  \A w \in Delivered : Past(w) /\ w \in Delivered'
<1> USE DEF server, history, times
<1> SUFFICES ASSUME NEW w \in Delivered PROVE Past(w) /\ w \in Delivered'
  OBVIOUS
<1> w \in Visits /\ stage[w] = "delivered"
  BY DEF Delivered
<1>1. ASSUME NEW v \in Visits, Others(v), stage[v] # "delivered"
      PROVE  Past(w) /\ w \in Delivered'
  BY <1>1 DEF Others, Past, Delivered
<1>2. CASE Expire
  BY <1>2 DEF Expire, Past, Delivered
<1>3. CASE Restart
  BY <1>3 DEF Restart, InServer, Past, Delivered
<1> QED  BY <1>1, <1>2, <1>3, OthersFrame DEF Next

\* Only Deliver delivers.
LEMMA DeliveredSame ==
  ASSUME TypeOK, Next, \A v \in Visits : ~Deliver(v)
  PROVE  Delivered' = Delivered
<1> USE DEF server, history, times
<1>1. ASSUME NEW v \in Visits,
             \/ \E b \in Bags : Send(v, b)
             \/ TakeErrors(v) \/ TakeMessages(v) \/ Answer(v) \/ Lose(v)
      PROVE  Delivered' = Delivered
  BY <1>1 DEF Send, TakeErrors, TakeMessages, Answer, Lose, Delivered, TypeOK
<1>2. ASSUME NEW v \in Visits, NEW s \in Slots, Flash(v, s) PROVE Delivered' = Delivered
  BY <1>2 DEF Flash, Delivered
<1>3. CASE Expire
  BY <1>3 DEF Expire, Delivered
<1>4. CASE Restart
  BY <1>4 DEF Restart, InServer, Delivered, TypeOK
<1> QED  BY <1>1, <1>2, <1>3, <1>4 DEF Next

-----------------------------------------------------------------------------
(* Every entry of a MemoryStore has an owner.                              *)

\* The visit that brought the browser its id.
Current(w) == w \in Delivered /\ minted[w] = jar.id

OrphanInv ==
  /\ \A i \in Ids : data[i] # NoEntry => \E v \in Visits : minted[v] = i
  /\ jar.id # NoId => \E w \in Visits : Current(w)
  /\ \A v \in Visits :
       /\ seen[v] \subseteq Delivered
       /\ id[v] # NoId => \E w \in Visits : minted[w] = id[v]
       /\ minted[v] # NoId => id[v] = NoId
       /\ stage[v] \in {"unsent", "sent", "taking"} => minted[v] = NoId
       /\ \A u \in seen[v] : minted[u] # NoId => id[v] # NoId
  /\ \A v \in Delivered : minted[v] # NoId =>
       /\ jar.id # NoId
       /\ jar.id # minted[v] => \E w \in Visits \ {v} : Current(w) /\ v \notin seen[w]

LEMMA InitOrphan == Init => OrphanInv
BY DEF Init, OrphanInv, Delivered

LEMMA DeliverOrphan ==
  ASSUME TypeOK, OrphanInv, NEW v \in Visits, Deliver(v)
  PROVE  OrphanInv'
<1> USE DEF server, history, times
<1>1. /\ UNCHANGED <<data, minted, id, seen>>
      /\ jar'.id = IF SendsId(v) THEN minted[v] ELSE jar.id
      /\ Delivered' = Delivered \cup {v} /\ v \notin Delivered
      /\ \A w \in Visits \ {v} : stage'[w] = stage[w]
      /\ stage'[v] = "delivered"
  BY DEF Deliver, Delivered, TypeOK
<1>2. CASE SendsId(v)
  <2>1. jar'.id = minted[v] /\ minted[v] # NoId
    BY <1>1, <1>2 DEF SendsId
  <2>2. Current(v)'
    BY <1>1, <2>1 DEF Current
  <2>3. ASSUME NEW u \in Delivered, minted[u] # NoId PROVE u # v /\ u \notin seen[v]
    BY <1>1, <2>1, <2>3 DEF OrphanInv
  <2> QED  BY <1>1, <2>1, <2>2, <2>3 DEF OrphanInv
<1>3. CASE ~SendsId(v)
  <2>1. jar'.id = jar.id /\ minted[v] = NoId
    BY <1>1, <1>3 DEF SendsId
  <2>2. \A w \in Visits : Current(w) => Current(w)'
    BY <1>1, <2>1 DEF Current
  <2> QED  BY <1>1, <2>1, <2>2 DEF OrphanInv
<1> QED  BY <1>2, <1>3

\* Steps that change neither the entries nor the ids nor what was delivered.
LEMMA QuietOrphan ==
  ASSUME OrphanInv, Delivered' = Delivered,
         jar'.id = jar.id, UNCHANGED <<minted, id, seen>>,
         \A i \in Ids : data'[i] # NoEntry => data[i] # NoEntry,
         \A v \in Visits : stage'[v] \in {"unsent", "sent", "taking"} =>
                            stage[v] \in {"unsent", "sent", "taking"}
  PROVE  OrphanInv'
<1>1. \A w \in Visits : Current(w)' <=> Current(w)
  BY DEF Current
<1> QED  BY <1>1 DEF OrphanInv

LEMMA SendOrphan ==
  ASSUME TypeOK, OrphanInv, NEW v \in Visits, NEW b \in Bags, Send(v, b),
         Delivered' = Delivered
  PROVE  OrphanInv'
<1> USE DEF server, history, times
<1>1. /\ UNCHANGED <<data, minted, jar>>
      /\ id'[v] = jar.id /\ seen'[v] = Delivered /\ stage'[v] = "sent" /\ stage[v] = "unsent"
      /\ \A w \in Visits \ {v} : id'[w] = id[w] /\ seen'[w] = seen[w] /\ stage'[w] = stage[w]
  BY DEF Send, TypeOK
<1>2. v \notin Delivered /\ minted[v] = NoId
  BY <1>1 DEF Delivered, OrphanInv
<1>3. \A w \in Visits : Current(w) => w # v /\ Current(w)'
  BY <1>1, <1>2 DEF Current
<1>4. \A i \in Ids : data'[i] # NoEntry => \E w \in Visits : minted'[w] = i
  BY <1>1 DEF OrphanInv
<1>5. jar'.id # NoId => \E w \in Visits : Current(w)'
  BY <1>1, <1>3 DEF OrphanInv
<1>6. ASSUME NEW w \in Visits
      PROVE  /\ seen'[w] \subseteq Delivered'
             /\ id'[w] # NoId => \E x \in Visits : minted'[x] = id'[w]
             /\ minted'[w] # NoId => id'[w] = NoId
             /\ stage'[w] \in {"unsent", "sent", "taking"} => minted'[w] = NoId
             /\ \A u \in seen'[w] : minted'[u] # NoId => id'[w] # NoId
  <2>1. CASE w = v
    BY <1>1, <1>2, <1>3, <2>1 DEF OrphanInv, Current
  <2>2. CASE w # v
    BY <1>1, <2>2 DEF OrphanInv
  <2> QED  BY <2>1, <2>2
<1>7. ASSUME NEW u \in Delivered', minted'[u] # NoId
      PROVE  /\ jar'.id # NoId
             /\ jar'.id # minted'[u] =>
                  \E w \in Visits \ {u} : Current(w)' /\ u \notin seen'[w]
  BY <1>1, <1>3, <1>7 DEF OrphanInv
<1> QED  BY <1>4, <1>5, <1>6, <1>7 DEF OrphanInv

LEMMA FlashOrphan ==
  ASSUME TypeOK, OrphanInv, NEW v \in Visits, NEW s \in Slots, Flash(v, s), Memory,
         Delivered' = Delivered
  PROVE  OrphanInv'
<1> USE DEF server, history, times
<1> DEFINE i == SessionID(v, s)
<1>1. UNCHANGED <<jar, id, seen, stage>> /\ MemoryFlash(v, s) /\ stage[v] = "handling"
  BY DEF Flash
<1>2. /\ \A j \in Ids \ {i} : data'[j] = data[j]
      /\ minted'[v] = IF id[v] = NoId THEN i ELSE minted[v]
      /\ \A w \in Visits \ {v} : minted'[w] = minted[w]
      /\ i \in Ids
  BY <1>1, MemoryFlashEffect DEF TypeOK
<1>3. v \notin Delivered
  BY <1>1 DEF Delivered
<1>4. /\ id[v] # NoId => i = id[v] /\ minted'[v] = minted[v]
      /\ id[v] = NoId /\ minted[v] # NoId => i = minted[v]
      /\ id[v] = NoId => minted'[v] = i
  BY <1>2 DEF SessionID
<1> HIDE DEF i
<1>5. \A w \in Visits : minted[w] # NoId => minted'[w] = minted[w]
  BY <1>2, <1>4 DEF OrphanInv
<1>6. \E w \in Visits : minted'[w] = i
  <2>1. CASE id[v] = NoId
    BY <1>4, <2>1
  <2>2. CASE id[v] # NoId
    BY <1>4, <1>5, <2>2 DEF OrphanInv
  <2> QED  BY <2>1, <2>2
<1>7. \A w \in Visits : Current(w) => Current(w)'
  BY <1>1, <1>2, <1>3 DEF Current
<1>8. \A j \in Ids : data'[j] # NoEntry => \E w \in Visits : minted'[w] = j
  <2> SUFFICES ASSUME NEW j \in Ids, data'[j] # NoEntry, j # i
               PROVE  \E w \in Visits : minted'[w] = j
    BY <1>6
  <2>1. PICK w \in Visits : minted[w] = j
    BY <1>2 DEF OrphanInv
  <2> QED  BY <1>5, <2>1, SentinelAssumption
<1>9. jar'.id # NoId => \E w \in Visits : Current(w)'
  BY <1>1, <1>7 DEF OrphanInv
<1>10. ASSUME NEW w \in Visits
       PROVE  /\ seen'[w] \subseteq Delivered'
              /\ id'[w] # NoId => \E x \in Visits : minted'[x] = id'[w]
              /\ minted'[w] # NoId => id'[w] = NoId
              /\ stage'[w] \in {"unsent", "sent", "taking"} => minted'[w] = NoId
              /\ \A u \in seen'[w] : minted'[u] # NoId => id'[w] # NoId
  <2>1. id'[w] # NoId => \E x \in Visits : minted'[x] = id'[w]
    BY <1>1, <1>5 DEF OrphanInv
  <2>2. minted'[w] # NoId => id'[w] = NoId
    BY <1>1, <1>2, <1>4 DEF OrphanInv
  <2>3. stage'[w] \in {"unsent", "sent", "taking"} => minted'[w] = NoId
    BY <1>1, <1>2 DEF OrphanInv
  <2>4. seen'[w] \subseteq Delivered'
    BY <1>1 DEF OrphanInv
  <2>5. \A u \in seen'[w] : minted'[u] # NoId => id'[w] # NoId
    BY <1>1, <1>2, <1>3, <2>4 DEF OrphanInv, Delivered
  <2> QED  BY <2>1, <2>2, <2>3, <2>4, <2>5
<1>11. ASSUME NEW u \in Delivered', minted'[u] # NoId
       PROVE  /\ jar'.id # NoId
              /\ jar'.id # minted'[u] =>
                   \E w \in Visits \ {u} : Current(w)' /\ u \notin seen'[w]
  <2>1. u \in Visits /\ u # v /\ minted'[u] = minted[u] /\ u \in Delivered
    BY <1>2, <1>3, <1>11 DEF Delivered
  <2> QED  BY <1>1, <1>7, <1>11, <2>1 DEF OrphanInv
<1> QED  BY <1>8, <1>9, <1>10, <1>11 DEF OrphanInv

LEMMA OrphanNext ==
  ASSUME TypeOK, StageInv, OrphanInv, Next
  PROVE  OrphanInv'
<1> USE DEF server, history, times
<1>1. ASSUME NEW v \in Visits, NEW b \in Bags, Send(v, b) PROVE OrphanInv'
  <2>1. Delivered' = Delivered
    BY <1>1 DEF Send, Delivered, TypeOK
  <2> QED  BY <1>1, <2>1, SendOrphan
<1>2. ASSUME NEW v \in Visits, TakeErrors(v) \/ TakeMessages(v) PROVE OrphanInv'
  <2>1. /\ UNCHANGED <<jar, id, seen>> /\ Delivered' = Delivered /\ minted' = minted
        /\ \A w \in Visits : stage'[w] \in {"unsent", "sent", "taking"} =>
                               stage[w] \in {"unsent", "sent", "taking"}
    <3>1. UNCHANGED <<jar, id, seen>> /\ minted' = minted
      BY <1>2, TakesTyped DEF TakeErrors, TakeMessages
    <3>2. Delivered' = Delivered
      <4>1. stage \in [Visits -> Stages]
        BY DEF TypeOK, Stages
      <4>2. CASE TakeErrors(v)
        BY <4>1, <4>2 DEF TakeErrors, Delivered
      <4>3. CASE TakeMessages(v)
        BY <4>1, <4>3 DEF TakeMessages, Delivered
      <4> QED  BY <1>2, <4>2, <4>3
    <3>3. \A w \in Visits \ {v} : stage'[w] = stage[w]
      BY <1>2, OthersFrame DEF Others, Past
    <3>4. stage[v] \in {"sent", "taking"}
      BY <1>2 DEF TakeErrors, TakeMessages
    <3> QED  BY <3>1, <3>2, <3>3, <3>4
  <2>2. \E T \in SUBSET Slots : Takes(v, T)
    BY <1>2, TakeErrorsTakes, TakeMessagesTakes DEF Slots
  <2>3. \A i \in Ids : data'[i] # NoEntry => data[i] # NoEntry
    BY <2>2 DEF Takes, Memory
  <2> QED  BY <2>1, <2>3, QuietOrphan
<1>3. ASSUME NEW v \in Visits, NEW s \in Slots, Flash(v, s) PROVE OrphanInv'
  <2>1. UNCHANGED <<jar, id, seen, stage>> /\ Delivered' = Delivered
    BY <1>3 DEF Flash, Delivered
  <2>2. CASE Memory
    BY <1>3, <2>1, <2>2, FlashOrphan
  <2>3. CASE ~Memory
    <3>1. UNCHANGED <<data, minted>>
      BY <1>3, <2>3 DEF Flash, CookieCall
    <3> QED  BY <2>1, <3>1, QuietOrphan
  <2> QED  BY <2>2, <2>3
<1>4. ASSUME NEW v \in Visits, Deliver(v) PROVE OrphanInv'
  BY <1>4, DeliverOrphan
<1>5. ASSUME NEW v \in Visits, Answer(v) \/ Lose(v) PROVE OrphanInv'
  <2>1. /\ UNCHANGED <<jar, id, seen, data, minted>> /\ Delivered' = Delivered
        /\ \A w \in Visits : stage'[w] \in {"unsent", "sent", "taking"} =>
                               stage[w] \in {"unsent", "sent", "taking"}
    BY <1>5 DEF Answer, Lose, Delivered, TypeOK
  <2> QED  BY <2>1, QuietOrphan
<1>6. CASE Expire
  <2>1. UNCHANGED <<id, seen, data, minted, stage>> /\ Delivered' = Delivered /\ jar'.id = jar.id
    BY <1>6 DEF Expire, Delivered, TypeOK
  <2> QED  BY <2>1, QuietOrphan
<1>7. CASE Restart
  <2>1. /\ UNCHANGED <<jar, id, seen, minted>> /\ Delivered' = Delivered
        /\ \A i \in Ids : data'[i] = NoEntry
        /\ \A w \in Visits : stage'[w] \in {"unsent", "sent", "taking"} =>
                               stage[w] \in {"unsent", "sent", "taking"}
    BY <1>7 DEF Restart, InServer, Delivered, TypeOK
  <2> QED  BY <2>1, QuietOrphan
<1> QED  BY <1>1, <1>2, <1>3, <1>4, <1>5, <1>6, <1>7 DEF Next

-----------------------------------------------------------------------------
(* The theorems.                                                           *)

IInv == TypeOK /\ StageInv /\ MemoryInv /\ OrphanInv

LEMMA InitIInv == Init => IInv
<1> SUFFICES ASSUME Init PROVE IInv
  OBVIOUS
<1>1. MemoryInv
  BY EmptyType, VisitAssumption DEF Init, MemoryInv, Holds, Took
<1> QED  BY <1>1, InitType, InitOrphan DEF IInv

LEMMA NextIInv == IInv /\ [Next]_vars => IInv'
<1> SUFFICES ASSUME IInv, [Next]_vars PROVE IInv'
  OBVIOUS
<1>1. CASE Next
  BY <1>1, TypeNext, StageNext, MemoryNext, OrphanNext DEF IInv
<1>2. CASE UNCHANGED vars
  <2>1. UNCHANGED <<backend, jar, data, acc, minted, stage, bag, id, taken, flashed,
                    seen, prior, faults>>
    BY <1>2 DEF vars, server, history, times
  <2>2. TypeOK'
    BY <2>1 DEF IInv, TypeOK
  <2>3. StageInv' /\ MemoryInv'
    BY <2>1 DEF IInv, StageInv, MemoryInv, Memory, Holds, Took
  <2>4. OrphanInv'
    BY <2>1 DEF IInv, OrphanInv, Delivered, Current
  <2> QED  BY <2>2, <2>3, <2>4 DEF IInv
<1> QED  BY <1>1, <1>2

(* The strengthened invariant holds in every reachable state.              *)
THEOREM Invariant == Spec => []IInv
BY InitIInv, NextIInv, PTL DEF Spec

(* Every variable keeps its type.                                          *)
THEOREM TypeCorrect == Spec => []TypeOK
<1>1. IInv => TypeOK
  BY DEF IInv
<1> QED  BY <1>1, Invariant, PTL

(* A flash in a MemoryStore is taken by one visit at most, and is then in  *)
(* no entry, however the visits overlap and whatever is lost.              *)
THEOREM TakenByOne == Spec => []MemoryTakenOnce
<1>1. IInv => MemoryTakenOnce
  BY DEF IInv, MemoryInv, MemoryTakenOnce, Holds
<1> QED  BY <1>1, Invariant, PTL

(* An entry whose id the browser does not send belongs to a response that  *)
(* did not arrive, or lost to one whose visit was sent too early.          *)
THEOREM OrphansExplained == Spec => []OrphanOnlyByTwoIds
<1>1. IInv => OrphanOnlyByTwoIds
  <2> SUFFICES ASSUME IInv, NEW i \in Ids, data[i] # NoEntry, jar.id # i
               PROVE  \E v \in Visits :
                        /\ minted[v] = i
                        /\ \/ v \notin Delivered
                           \/ \E w \in Delivered \ {v} : minted[w] = jar.id /\ v \notin seen[w]
    BY DEF OrphanOnlyByTwoIds
  <2>1. PICK v \in Visits : minted[v] = i
    BY DEF IInv, OrphanInv
  <2>2. minted[v] # NoId
    BY <2>1, SentinelAssumption
  <2> QED  BY <2>1, <2>2 DEF IInv, OrphanInv, Current
<1> QED  BY <1>1, Invariant, PTL

===============================================================================
