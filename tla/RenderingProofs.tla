---------------------------- MODULE RenderingProofs ----------------------------
(***************************************************************************)
(* Proofs about Rendering: types, the lock discipline of the shared props, *)
(* the list of shared keys, the cached template, and what a Render that    *)
(* ended has sent, for any number of requests and of Share calls.          *)
(***************************************************************************)
EXTENDS Rendering, TLAPS

-----------------------------------------------------------------------------
(* The inductive invariant.                                                *)

Reading == {"static", "callbacks", "reentered", "keys"}

\* Who holds sharedMu is where the goroutines are.
MutexInv ==
  /\ \A r \in Renders : r \in readers <=> pc[r] \in Reading
  /\ \A s \in Sharers : writer = s <=> pc[s] \in {"wait", "assign"}
  /\ \A s \in Sharers : pc[s] = "assign" => readers = {}
  /\ \A r \in Renders : writer = r => pc[r] = "reentered"

\* What a Share in progress registers.
CallInv ==
  \A s \in Sharers : pc[s] # "idle" => call[s] \in [key : Keys, sort : {"value", "callback"}]

\* Registered keys stay registered, so what was merged is still listed.
SharedInv ==
  /\ \A r \in Renders : todo[r] \subseteq funcs
  /\ \A r \in Renders, k \in Keys : merged[r][k] # None => k \in SharedKeys
  /\ SharedListed

\* A template in use is the cached one, or about to be compared with it.
TemplateInv ==
  \A r \in Renders :
    /\ pc[r] = "publish" => tpl[r] = r
    /\ cfg.root = "cached" /\ pc[r] # "publish" /\ tpl[r] # None => tpl[r] = rootTpl

\* Nothing is written before the last step; from "ssr" on it is a document.
ReplyInv ==
  \A r \in Renders :
    /\ pc[r] \notin {"execute", "done"} =>
         status[r] = 0 /\ body[r] = "empty" /\ ~failed[r]
    /\ pc[r] \notin {"version", "done"} => kind[r] # "stale"
    /\ pc[r] \in {"ssr", "load", "parse", "publish", "execute"} => kind[r] = "document"
    /\ pc[r] \in {"load", "parse", "publish", "execute"} /\ cfg.ssr = "required" =>
         ssr[r] = "ok"
    /\ pc[r] = "execute" =>
         /\ ~failed[r]
         /\ \/ status[r] = 0 /\ body[r] = "empty"
            \/ status[r] = 200 /\ body[r] = "partial"

IInv ==
  TypeOK /\ MutexInv /\ CallInv /\ SharedInv /\ TemplateInv /\ ReplyInv /\ PageOrError

-----------------------------------------------------------------------------

LEMMA InitIInv == Init => IInv
<1> SUFFICES ASSUME Init PROVE IInv
  OBVIOUS
<1> USE DEF Init
<1>1. PICK c \in Scenarios : cfg = c[1] /\ kind = c[2]
  OBVIOUS
<1>2. cfg \in ConfigType /\ kind \in [Renders -> RenderKinds]
  BY <1>1, ScenariosAssumption
<1>3. /\ \A r \in Renders : pc[r] = "version"
      /\ \A s \in Sharers : pc[s] = "idle"
  BY NamesAssumption DEF Goroutines
<1>4. TypeOK
  BY <1>2, <1>3 DEF TypeOK, Goroutines, RenderSteps, ShareSteps
<1>5. MutexInv /\ CallInv
  BY <1>3, NamesAssumption DEF MutexInv, CallInv, Reading
<1>6. SharedInv
  BY <1>3 DEF SharedInv, SharedListed, PageMade, SharedKeys
<1>7. TemplateInv /\ ReplyInv /\ PageOrError
  BY <1>3 DEF TemplateInv, ReplyInv, PageOrError
<1> QED  BY <1>4, <1>5, <1>6, <1>7 DEF IInv

-----------------------------------------------------------------------------
(* Types.                                                                  *)

PcType ==
  /\ pc \in [Goroutines -> RenderSteps \cup ShareSteps]
  /\ \A r \in Renders : pc[r] \in RenderSteps
  /\ \A s \in Sharers : pc[s] \in ShareSteps

LEMMA RenderGoes ==
  ASSUME TypeOK, NEW r \in Renders, NEW from, NEW to \in RenderSteps, Step(r, from, to)
  PROVE  PcType'
BY NamesAssumption DEF Step, TypeOK, PcType, Goroutines

LEMMA ShareGoes ==
  ASSUME TypeOK, NEW s \in Sharers, NEW from, NEW to \in ShareSteps, Step(s, from, to)
  PROVE  PcType'
BY NamesAssumption DEF Step, TypeOK, PcType, Goroutines

LEMMA ErrorType ==
  ASSUME TypeOK, NEW r \in Renders, NEW from, ErrorHandler(r, from)
  PROVE  /\ Step(r, from, "done")
         /\ status' \in [Renders -> {0, 200, 409, 500}]
         /\ body' \in [Renders -> {"empty", "json", "csr", "ssr", "partial", "error", "garbled"}]
         /\ failed' \in [Renders -> BOOLEAN]
BY DEF ErrorHandler, TypeOK

LEMMA WriteType ==
  ASSUME TypeOK, NEW r \in Renders,
         NEW what \in {"json", "csr", "ssr", "partial"}, Write(r, what)
  PROVE  /\ status' \in [Renders -> {0, 200, 409, 500}]
         /\ body' \in [Renders -> {"empty", "json", "csr", "ssr", "partial", "error", "garbled"}]
BY DEF Write, TypeOK

LEMMA ShareType ==
  ASSUME TypeOK, CallInv, NEW s \in Sharers, ShareStep(s)
  PROVE  TypeOK'
<1> USE DEF shared, mutex, merge, page, view, reply
<1> s \in Goroutines
  BY DEF Goroutines
<1>1. ASSUME NEW k \in Keys, NEW sort \in {"value", "callback"}, CallShare(s, k, sort)
      PROVE  TypeOK'
  <2>1. PcType'
    BY <1>1, ShareGoes DEF CallShare, ShareSteps
  <2> QED  BY <1>1, <2>1 DEF CallShare, TypeOK, PcType
<1>2. CASE Lock(s)
  <2>1. PcType'
    BY <1>2, ShareGoes DEF Lock, ShareSteps
  <2>2. readers' \in SUBSET Renders /\ writer' \in Goroutines \cup {None}
    BY <1>2 DEF Lock, LockAnnounce, LockAcquire, TypeOK
  <2> QED  BY <1>2, <2>1, <2>2 DEF Lock, TypeOK, PcType
<1>3. CASE Assign(s)
  <2>1. PcType'
    BY <1>3, ShareGoes DEF Assign, ShareSteps
  <2>2. call[s] \in [key : Keys, sort : {"value", "callback"}]
    BY <1>3 DEF Assign, Step, CallInv
  <2>3. static' \in [Keys -> Sharers \cup {None}] /\ funcs' \in SUBSET Keys
    BY <1>3, <2>2 DEF Assign, TypeOK
  <2> QED  BY <1>3, <2>1, <2>3 DEF Assign, Unlock, TypeOK, PcType
<1> QED  BY <1>1, <1>2, <1>3 DEF ShareStep

LEMMA RenderType ==
  ASSUME TypeOK, NEW r \in Renders, RenderStep(r)
  PROVE  TypeOK'
<1> USE DEF shared, mutex, merge, page, view, reply
<1> r \in Goroutines
  BY DEF Goroutines
<1>1. CASE Version(r)
  <2>1. PcType'
    BY <1>1, RenderGoes DEF Version, RenderSteps
  <2> QED  BY <1>1, <2>1 DEF Version, TypeOK, PcType
<1>2. CASE Merge(r)
  <2>1. PcType'
    BY <1>2, RenderGoes DEF Merge, RenderSteps
  <2>2. readers' \in SUBSET Renders
    BY <1>2 DEF Merge, RLock, TypeOK
  <2> QED  BY <1>2, <2>1, <2>2 DEF Merge, RLock, RUnlock, TypeOK, PcType
<1>3. CASE CopyStatic(r)
  <2>1. PcType'
    BY <1>3, RenderGoes DEF CopyStatic, RenderSteps
  <2>2. merged' \in [Renders -> [Keys -> Sharers \cup {Fresh, None}]]
    BY <1>3 DEF CopyStatic, TypeOK
  <2>3. todo' \in [Renders -> SUBSET Keys]
    BY <1>3 DEF CopyStatic, TypeOK
  <2> QED  BY <1>3, <2>1, <2>2, <2>3 DEF CopyStatic, TypeOK, PcType
<1>4. CASE CallbackPanics(r)
  <2>1. PcType'
    BY <1>4, RenderGoes DEF CallbackPanics, RenderSteps
  <2>2. readers' \in SUBSET Renders
    BY <1>4 DEF CallbackPanics, RUnlock, TypeOK
  <2> QED  BY <1>4, <2>1, <2>2 DEF CallbackPanics, RLock, RUnlock, TypeOK, PcType
<1>5. CASE CallbackShares(r)
  <2>1. PcType'
    BY <1>5, RenderGoes DEF CallbackShares, RenderSteps
  <2>2. writer' \in Goroutines \cup {None}
    BY <1>5 DEF CallbackShares, TypeOK
  <2> QED  BY <1>5, <2>1, <2>2 DEF CallbackShares, TypeOK, PcType
<1>6. CASE MergeEnd(r)
  <2>1. PcType'
    BY <1>6, RenderGoes DEF MergeEnd, RenderSteps
  <2>2. readers' \in SUBSET Renders
    BY <1>6 DEF MergeEnd, RUnlock, TypeOK
  <2> QED  BY <1>6, <2>1, <2>2 DEF MergeEnd, RLock, RUnlock, TypeOK, PcType
<1>7. CASE Unpack(r)
  <2>1. PcType'
    BY <1>7, RenderGoes DEF Unpack, RenderSteps
  <2>2. heap' \in [Sharers -> SUBSET Renders]
    <3>1. heap \in [Sharers -> SUBSET Renders]
      BY DEF TypeOK
    <3>2. CASE UNCHANGED heap
      BY <3>1, <3>2
    <3>3. ASSUME NEW k \in Keys, merged[r][k] \in Maps,
                 heap' = [heap EXCEPT ![merged[r][k]] = @ \cup {r}]
          PROVE  heap' \in [Sharers -> SUBSET Renders]
      BY <3>1, <3>3, MapsAssumption
    <3> QED  BY <1>7, <3>2, <3>3 DEF Unpack
  <2> QED  BY <1>7, <2>1, <2>2 DEF Unpack, TypeOK, PcType
<1>8. CASE Snapshot(r)
  <2>1. PcType'
    BY <1>8, RenderGoes DEF Snapshot, RenderSteps
  <2>2. readers' \in SUBSET Renders
    BY <1>8 DEF Snapshot, RLock, TypeOK
  <2> QED  BY <1>8, <2>1, <2>2 DEF Snapshot, RLock, RUnlock, TypeOK, PcType
<1>9. CASE SnapshotEnd(r)
  <2>1. PcType'
    BY <1>9, RenderGoes DEF SnapshotEnd, RenderSteps
  <2>2. readers' \in SUBSET Renders
    BY <1>9 DEF SnapshotEnd, RUnlock, TypeOK
  <2>3. listed' \in [Renders -> SUBSET Keys]
    BY <1>9 DEF SnapshotEnd, SharedKeys, TypeOK
  <2> QED  BY <1>9, <2>1, <2>2, <2>3 DEF SnapshotEnd, RLock, RUnlock, TypeOK, PcType
<1>10. ASSUME NEW k \in Keys, Callback(r, k)
      PROVE  TypeOK'
  <2>1. PcType'
    BY <1>10, RenderGoes DEF Callback, RenderSteps
  <2>2. merged' \in [Renders -> [Keys -> Sharers \cup {Fresh, None}]]
    BY <1>10 DEF Callback, TypeOK
  <2>3. todo' \in [Renders -> SUBSET Keys]
    BY <1>10 DEF Callback, TypeOK
  <2> QED  BY <1>10, <2>1, <2>2, <2>3 DEF Callback, TypeOK, PcType
<1>11. CASE Resolve(r)
  <2>1. PcType'
    BY <1>11, ErrorType, RenderGoes DEF Resolve, RenderSteps
  <2>2. CASE ErrorHandler(r, "resolve")
    BY <1>11, <2>1, <2>2, ErrorType DEF Resolve, ErrorHandler, Step, TypeOK, PcType
  <2>3. shown' \in [Renders -> [Keys -> SUBSET Renders]]
    <3>1. shown \in [Renders -> [Keys -> SUBSET Renders]] /\ heap \in [Sharers -> SUBSET Renders]
      BY DEF TypeOK
    <3>2. CASE UNCHANGED shown
      BY <3>1, <3>2
    <3>3. CASE shown' = [shown EXCEPT ![r] =
                 [k \in Keys |-> IF merged[r][k] \in Maps THEN heap[merged[r][k]] ELSE {}]]
      <4>1. [k \in Keys |-> IF merged[r][k] \in Maps THEN heap[merged[r][k]] ELSE {}]
              \in [Keys -> SUBSET Renders]
        BY <3>1, MapsAssumption
      <4> QED  BY <3>1, <3>3, <4>1
    <3> QED  BY <1>11, <3>2, <3>3 DEF Resolve
  <2> QED  BY <1>11, <2>1, <2>2, <2>3 DEF Resolve, TypeOK, PcType
<1>12. CASE WritePage(r)
  <2>1. PcType'
    BY <1>12, ErrorType, RenderGoes DEF WritePage, RenderSteps
  <2>2. /\ status' \in [Renders -> {0, 200, 409, 500}]
        /\ body' \in [Renders -> {"empty", "json", "csr", "ssr", "partial", "error", "garbled"}]
        /\ failed' \in [Renders -> BOOLEAN]
    BY <1>12, ErrorType, WriteType DEF WritePage, TypeOK
  <2> QED  BY <1>12, <2>1, <2>2 DEF WritePage, TypeOK, PcType
<1>13. CASE RenderSSR(r)
  <2>1. PcType'
    BY <1>13, ErrorType, RenderGoes DEF RenderSSR, RenderSteps
  <2>2. /\ status' \in [Renders -> {0, 200, 409, 500}]
        /\ body' \in [Renders -> {"empty", "json", "csr", "ssr", "partial", "error", "garbled"}]
        /\ failed' \in [Renders -> BOOLEAN]
    BY <1>13, ErrorType, WriteType DEF RenderSSR, TypeOK
  <2>3. ssr' \in [Renders -> {"none", "ok", "error"}]
    BY <1>13 DEF RenderSSR, TypeOK
  <2> QED  BY <1>13, <2>1, <2>2, <2>3 DEF RenderSSR, TypeOK, PcType
<1>14. CASE LoadRootTemplate(r)
  <2>1. PcType'
    BY <1>14, ErrorType, RenderGoes DEF LoadRootTemplate, RenderSteps
  <2>2. tpl' \in [Renders -> Renders \cup {None}]
    BY <1>14 DEF LoadRootTemplate, TypeOK
  <2> QED  BY <1>14, <2>1, <2>2 DEF LoadRootTemplate, TypeOK, PcType
<1>15. CASE ParseRootTemplate(r)
  <2>1. PcType'
    BY <1>15, ErrorType, RenderGoes DEF ParseRootTemplate, RenderSteps
  <2>2. /\ status' \in [Renders -> {0, 200, 409, 500}]
        /\ body' \in [Renders -> {"empty", "json", "csr", "ssr", "partial", "error", "garbled"}]
        /\ failed' \in [Renders -> BOOLEAN]
    BY <1>15, ErrorType, WriteType DEF ParseRootTemplate, TypeOK
  <2>3. tpl' \in [Renders -> Renders \cup {None}]
    <3>1. tpl \in [Renders -> Renders \cup {None}]
      BY DEF TypeOK
    <3>2. UNCHANGED tpl \/ tpl' = [tpl EXCEPT ![r] = r]
      BY <1>15 DEF ParseRootTemplate
    <3> QED  BY <3>1, <3>2
  <2> QED  BY <1>15, <2>1, <2>2, <2>3 DEF ParseRootTemplate, TypeOK, PcType
<1>16. CASE Publish(r)
  <2>1. PcType'
    BY <1>16, ErrorType, RenderGoes DEF Publish, RenderSteps
  <2>2. tpl' \in [Renders -> Renders \cup {None}] /\ rootTpl' \in Renders \cup {None}
    <3>1. tpl \in [Renders -> Renders \cup {None}] /\ rootTpl \in Renders \cup {None}
      BY DEF TypeOK
    <3>2. \/ rootTpl' = r /\ UNCHANGED tpl
          \/ tpl' = [tpl EXCEPT ![r] = rootTpl] /\ UNCHANGED rootTpl
      BY <1>16 DEF Publish
    <3> QED  BY <3>1, <3>2
  <2> QED  BY <1>16, <2>1, <2>2 DEF Publish, TypeOK, PcType
<1>17. CASE Execute(r)
  <2>1. PcType'
    BY <1>17, ErrorType, RenderGoes DEF Execute, RenderSteps
  <2>2. /\ status' \in [Renders -> {0, 200, 409, 500}]
        /\ body' \in [Renders -> {"empty", "json", "csr", "ssr", "partial", "error", "garbled"}]
        /\ failed' \in [Renders -> BOOLEAN]
    BY <1>17, ErrorType, WriteType DEF Execute, TypeOK
  <2> QED  BY <1>17, <2>1, <2>2 DEF Execute, TypeOK, PcType
<1> QED  BY <1>1, <1>2, <1>3, <1>4, <1>5, <1>6, <1>7, <1>8, <1>9, <1>10, <1>11, <1>12, <1>13, <1>14, <1>15, <1>16, <1>17 DEF RenderStep

-----------------------------------------------------------------------------
(* What a step of one request leaves alone.                                *)

Frame(r) ==
  /\ UNCHANGED <<cfg, kind, static, funcs, call>>
  /\ \A s \in Sharers : pc'[s] = pc[s]
  /\ \A q \in Renders \ {r} :
       /\ pc'[q] = pc[q] /\ todo'[q] = todo[q] /\ merged'[q] = merged[q]
       /\ listed'[q] = listed[q] /\ ssr'[q] = ssr[q] /\ tpl'[q] = tpl[q]
       /\ status'[q] = status[q] /\ body'[q] = body[q] /\ failed'[q] = failed[q]

LEMMA RenderFrame ==
  ASSUME TypeOK, NEW r \in Renders, RenderStep(r)
  PROVE  Frame(r)
<1> /\ pc \in [Goroutines -> RenderSteps \cup ShareSteps]
    /\ todo \in [Renders -> SUBSET Keys]
    /\ merged \in [Renders -> [Keys -> Sharers \cup {Fresh, None}]]
    /\ listed \in [Renders -> SUBSET Keys]
    /\ ssr \in [Renders -> {"none", "ok", "error"}]
    /\ tpl \in [Renders -> Renders \cup {None}]
    /\ status \in [Renders -> {0, 200, 409, 500}]
    /\ body \in [Renders -> {"empty", "json", "csr", "ssr", "partial", "error", "garbled"}]
    /\ failed \in [Renders -> BOOLEAN]
  BY DEF TypeOK
<1> r \in Goroutines /\ r \notin Sharers /\ Sharers \subseteq Goroutines
      /\ Renders \subseteq Goroutines
  BY NamesAssumption DEF Goroutines
<1> USE DEF shared, mutex, merge, page, view, reply, Step
<1>1. CASE Version(r)
  BY <1>1 DEF Version, Frame
<1>2. CASE Merge(r)
  BY <1>2 DEF Merge, Frame
<1>3. CASE CopyStatic(r)
  BY <1>3 DEF CopyStatic, Frame
<1>4. ASSUME NEW k \in Keys, Callback(r, k) PROVE Frame(r)
  BY <1>4 DEF Callback, Frame
<1>5. CASE CallbackPanics(r)
  BY <1>5 DEF CallbackPanics, Frame
<1>6. CASE CallbackShares(r)
  BY <1>6 DEF CallbackShares, Frame
<1>7. CASE MergeEnd(r)
  BY <1>7 DEF MergeEnd, Frame
<1>8. CASE Unpack(r)
  BY <1>8 DEF Unpack, Frame
<1>9. CASE Resolve(r)
  BY <1>9 DEF Resolve, Frame, ErrorHandler
<1>10. CASE Snapshot(r)
  BY <1>10 DEF Snapshot, Frame
<1>11. CASE SnapshotEnd(r)
  BY <1>11 DEF SnapshotEnd, Frame
<1>12. CASE WritePage(r)
  BY <1>12 DEF WritePage, Frame, ErrorHandler, Write
<1>13. CASE RenderSSR(r)
  BY <1>13 DEF RenderSSR, Frame, ErrorHandler
<1>14. CASE LoadRootTemplate(r)
  BY <1>14 DEF LoadRootTemplate, Frame
<1>15. CASE ParseRootTemplate(r)
  BY <1>15 DEF ParseRootTemplate, Frame, ErrorHandler
<1>16. CASE Publish(r)
  BY <1>16 DEF Publish, Frame
<1>17. CASE Execute(r)
  BY <1>17 DEF Execute, Frame, ErrorHandler, Write
<1> QED  BY <1>1, <1>2, <1>3, <1>4, <1>5, <1>6, <1>7, <1>8, <1>9, <1>10, <1>11, <1>12, <1>13, <1>14, <1>15, <1>16, <1>17 DEF RenderStep

\* Nor does a Share touch the requests; what is registered stays registered.
LEMMA ShareFrame ==
  ASSUME TypeOK, CallInv, NEW s \in Sharers, ShareStep(s)
  PROVE  /\ UNCHANGED <<cfg, kind, merge, page, view, reply>>
         /\ \A r \in Renders : pc'[r] = pc[r]
         /\ \A u \in Sharers \ {s} : pc'[u] = pc[u] /\ call'[u] = call[u]
         /\ funcs \subseteq funcs'
         /\ SharedKeys \subseteq SharedKeys'
<1> /\ pc \in [Goroutines -> RenderSteps \cup ShareSteps]
    /\ static \in [Keys -> Sharers \cup {None}]
    /\ call \in [Sharers -> [key : Keys, sort : {"value", "callback"}] \cup {None}]
  BY DEF TypeOK
<1> s \in Goroutines /\ s \notin Renders /\ s # None /\ Sharers \subseteq Goroutines
      /\ Renders \subseteq Goroutines
  BY NamesAssumption DEF Goroutines
<1> USE DEF shared, mutex, Step
<1>1. ASSUME NEW k \in Keys, NEW sort \in {"value", "callback"}, CallShare(s, k, sort)
      PROVE  /\ UNCHANGED <<cfg, kind, merge, page, view, reply>>
             /\ \A r \in Renders : pc'[r] = pc[r]
             /\ \A u \in Sharers \ {s} : pc'[u] = pc[u] /\ call'[u] = call[u]
             /\ UNCHANGED <<static, funcs>>
  BY <1>1 DEF CallShare
<1>2. CASE Lock(s)
  <2>1. /\ UNCHANGED <<cfg, kind, merge, page, view, reply>>
        /\ \A r \in Renders : pc'[r] = pc[r]
        /\ \A u \in Sharers \ {s} : pc'[u] = pc[u] /\ call'[u] = call[u]
        /\ UNCHANGED <<static, funcs>>
    BY <1>2 DEF Lock
  <2> QED  BY <2>1 DEF SharedKeys
<1>3. CASE Assign(s)
  <2>1. /\ UNCHANGED <<cfg, kind, merge, page, view, reply>>
        /\ \A r \in Renders : pc'[r] = pc[r]
        /\ \A u \in Sharers \ {s} : pc'[u] = pc[u] /\ call'[u] = call[u]
        /\ funcs \subseteq funcs'
    BY <1>3 DEF Assign
  <2>2. \A k \in Keys : static[k] # None => static'[k] # None
    BY <1>3 DEF Assign
  <2> QED  BY <2>1, <2>2 DEF SharedKeys
<1> QED  BY <1>1, <1>2, <1>3 DEF ShareStep, SharedKeys

-----------------------------------------------------------------------------
(* sharedMu.                                                               *)

\* What a step of a request does to the lock.
LockUse(r) ==
  \/ UNCHANGED mutex /\ (pc[r] \in Reading <=> pc'[r] \in Reading)
  \/ RLock(r) /\ pc'[r] \in Reading
  \/ RUnlock(r) /\ pc'[r] \notin Reading
  \/ /\ pc[r] \in Reading /\ pc'[r] = "reentered"
     /\ UNCHANGED readers
     /\ writer' = writer \/ (writer = None /\ writer' = r)

LEMMA RenderLock ==
  ASSUME TypeOK, NEW r \in Renders, RenderStep(r)
  PROVE  LockUse(r)
<1> pc \in [Goroutines -> RenderSteps \cup ShareSteps] /\ r \in Goroutines
  BY DEF TypeOK, Goroutines
<1> USE DEF Step, Reading, mutex
<1>1. CASE Version(r)
  BY <1>1 DEF Version, LockUse
<1>2. CASE Merge(r)
  BY <1>2 DEF Merge, LockUse
<1>3. CASE CopyStatic(r)
  BY <1>3 DEF CopyStatic, LockUse
<1>4. ASSUME NEW k \in Keys, Callback(r, k) PROVE LockUse(r)
  BY <1>4 DEF Callback, LockUse
<1>5. CASE CallbackPanics(r)
  BY <1>5 DEF CallbackPanics, LockUse
<1>6. CASE CallbackShares(r)
  BY <1>6 DEF CallbackShares, LockUse
<1>7. CASE MergeEnd(r)
  BY <1>7 DEF MergeEnd, LockUse
<1>8. CASE Unpack(r)
  BY <1>8 DEF Unpack, LockUse
<1>9. CASE Resolve(r)
  BY <1>9 DEF Resolve, LockUse, ErrorHandler
<1>10. CASE Snapshot(r)
  BY <1>10 DEF Snapshot, LockUse
<1>11. CASE SnapshotEnd(r)
  BY <1>11 DEF SnapshotEnd, LockUse
<1>12. CASE WritePage(r)
  BY <1>12 DEF WritePage, LockUse, ErrorHandler
<1>13. CASE RenderSSR(r)
  BY <1>13 DEF RenderSSR, LockUse, ErrorHandler
<1>14. CASE LoadRootTemplate(r)
  BY <1>14 DEF LoadRootTemplate, LockUse
<1>15. CASE ParseRootTemplate(r)
  BY <1>15 DEF ParseRootTemplate, LockUse, ErrorHandler
<1>16. CASE Publish(r)
  BY <1>16 DEF Publish, LockUse
<1>17. CASE Execute(r)
  BY <1>17 DEF Execute, LockUse, ErrorHandler
<1> QED  BY <1>1, <1>2, <1>3, <1>4, <1>5, <1>6, <1>7, <1>8, <1>9, <1>10, <1>11, <1>12, <1>13, <1>14, <1>15, <1>16, <1>17 DEF RenderStep

\* A request whose callback waits for its own lock makes no step.
LEMMA ReenteredIsStuck ==
  ASSUME NEW r \in Renders, RenderStep(r)
  PROVE  pc[r] # "reentered"
<1> USE DEF Step, ErrorHandler
<1>1. Version(r) \/ Merge(r) \/ CopyStatic(r) \/ (\E k \in Keys : Callback(r, k))
        \/ CallbackPanics(r) \/ CallbackShares(r) \/ MergeEnd(r) => pc[r] # "reentered"
  BY DEF Version, Merge, CopyStatic, Callback, CallbackPanics, CallbackShares, MergeEnd
<1>2. Unpack(r) \/ Resolve(r) \/ Snapshot(r) \/ SnapshotEnd(r) \/ WritePage(r)
        => pc[r] # "reentered"
  BY DEF Unpack, Resolve, Snapshot, SnapshotEnd, WritePage
<1>3. RenderSSR(r) \/ LoadRootTemplate(r) \/ ParseRootTemplate(r) \/ Publish(r) \/ Execute(r)
        => pc[r] # "reentered"
  BY DEF RenderSSR, LoadRootTemplate, ParseRootTemplate, Publish, Execute
<1> QED  BY <1>1, <1>2, <1>3 DEF RenderStep

LEMMA MutexNext ==
  ASSUME TypeOK, MutexInv, CallInv, Next
  PROVE  MutexInv' /\ CallInv'
<1>1. ASSUME NEW r \in Renders, RenderStep(r) PROVE MutexInv' /\ CallInv'
  <2>1. Frame(r) /\ LockUse(r) /\ pc[r] # "reentered"
    BY <1>1, RenderFrame, RenderLock, ReenteredIsStuck
  <2>2. r \notin Sharers /\ r # None
    BY NamesAssumption
  <2>3. CallInv'
    BY <2>1 DEF Frame, CallInv
  <2>4. \A q \in Renders : q \in readers' <=> pc'[q] \in Reading
    <3> "reentered" \in Reading
      BY DEF Reading
    <3> QED  BY <2>1 DEF Frame, LockUse, MutexInv, RLock, RUnlock, mutex
  <2>5. \A s \in Sharers : writer' = s <=> pc'[s] \in {"wait", "assign"}
    BY <2>1, <2>2, NamesAssumption DEF Frame, LockUse, MutexInv, RLock, RUnlock, mutex
  <2>6. ASSUME NEW s \in Sharers, pc'[s] = "assign" PROVE readers' = {}
    <3>1. writer = s /\ readers = {}
      BY <2>1, <2>6 DEF Frame, MutexInv
    <3>2. s # None
      BY NamesAssumption
    <3> QED  BY <2>1, <3>1, <3>2 DEF LockUse, RLock, RUnlock, mutex
  <2>7. ASSUME NEW q \in Renders, writer' = q PROVE pc'[q] = "reentered"
    <3>1. writer' = writer \/ (writer' = r /\ pc'[r] = "reentered")
      BY <2>1 DEF LockUse, RLock, RUnlock, mutex
    <3>2. writer # r
      BY <2>1 DEF MutexInv
    <3> QED  BY <2>1, <2>7, <3>1, <3>2 DEF Frame, MutexInv
  <2> QED  BY <2>3, <2>4, <2>5, <2>6, <2>7 DEF MutexInv
<1>2. ASSUME NEW s \in Sharers, ShareStep(s) PROVE MutexInv' /\ CallInv'
  <2>1. /\ \A r \in Renders : pc'[r] = pc[r]
        /\ \A u \in Sharers \ {s} : pc'[u] = pc[u] /\ call'[u] = call[u]
    BY <1>2, ShareFrame
  <2>2. s \in Goroutines /\ s # None
    BY NamesAssumption DEF Goroutines
  <2>3. /\ pc \in [Goroutines -> RenderSteps \cup ShareSteps]
        /\ call \in [Sharers -> [key : Keys, sort : {"value", "callback"}] \cup {None}]
    BY DEF TypeOK
  <2> USE DEF Step
  <2>4. ASSUME NEW k \in Keys, NEW sort \in {"value", "callback"}, CallShare(s, k, sort)
        PROVE  MutexInv' /\ CallInv'
    <3>1. UNCHANGED <<readers, writer>> /\ pc[s] = "idle" /\ pc'[s] = "lock"
      BY <2>2, <2>3, <2>4 DEF CallShare, mutex
    <3>2. call'[s] \in [key : Keys, sort : {"value", "callback"}]
      BY <2>3, <2>4 DEF CallShare
    <3> QED  BY <2>1, <3>1, <3>2 DEF MutexInv, CallInv
  <2>5. CASE Lock(s)
    <3>1. UNCHANGED call /\ UNCHANGED readers
      BY <2>5 DEF Lock, LockAnnounce, LockAcquire, mutex
    <3>2. \/ pc[s] = "lock" /\ pc'[s] = "wait" /\ writer = None /\ writer' = s
          \/ pc[s] = "wait" /\ pc'[s] = "assign" /\ writer' = writer /\ readers = {}
      BY <2>2, <2>3, <2>5 DEF Lock, LockAnnounce, LockAcquire, mutex
    <3> QED  BY <2>1, <2>2, <3>1, <3>2, NamesAssumption DEF MutexInv, CallInv
  <2>6. CASE Assign(s)
    <3>1. UNCHANGED <<call, readers>> /\ writer' = None /\ pc[s] = "assign" /\ pc'[s] = "done"
      BY <2>2, <2>3, <2>6 DEF Assign, Unlock
    <3> QED  BY <2>1, <2>2, <3>1, NamesAssumption DEF MutexInv, CallInv
  <2> QED  BY <1>2, <2>4, <2>5, <2>6 DEF ShareStep
<1> QED  BY <1>1, <1>2 DEF Next

-----------------------------------------------------------------------------
(* The shared props of a page and their list.                              *)

\* The part of SharedInv about one request.
SharedOf(r) ==
  /\ todo[r] \subseteq funcs
  /\ \A k \in Keys : merged[r][k] # None => k \in SharedKeys
  /\ PageMade(r) => {k \in Keys : merged[r][k] # None} \subseteq listed[r]

LEMMA RenderShared ==
  ASSUME TypeOK, NEW r \in Renders, RenderStep(r), SharedOf(r)
  PROVE  SharedOf(r)'
<1> /\ pc \in [Goroutines -> RenderSteps \cup ShareSteps] /\ r \in Goroutines
    /\ todo \in [Renders -> SUBSET Keys]
    /\ merged \in [Renders -> [Keys -> Sharers \cup {Fresh, None}]]
    /\ listed \in [Renders -> SUBSET Keys]
    /\ static \in [Keys -> Sharers \cup {None}]
    /\ funcs \subseteq Keys
  BY DEF TypeOK, Goroutines
<1> UNCHANGED <<static, funcs>>
  BY RenderFrame DEF Frame
<1> USE DEF Step, SharedOf, SharedKeys, PageMade, merge, page
<1>1. CASE Version(r)
  BY <1>1 DEF Version, SharedOf
<1>2. CASE Merge(r)
  BY <1>2 DEF Merge, SharedOf
<1>3. CASE CopyStatic(r)
  BY <1>3 DEF CopyStatic, SharedOf
<1>4. ASSUME NEW k \in Keys, Callback(r, k) PROVE SharedOf(r)'
  BY <1>4 DEF Callback, SharedOf
<1>5. CASE CallbackPanics(r)
  BY <1>5 DEF CallbackPanics, SharedOf
<1>6. CASE CallbackShares(r)
  BY <1>6 DEF CallbackShares, SharedOf
<1>7. CASE MergeEnd(r)
  BY <1>7 DEF MergeEnd, SharedOf
<1>8. CASE Unpack(r)
  BY <1>8 DEF Unpack, SharedOf
<1>9. CASE Resolve(r)
  BY <1>9 DEF Resolve, SharedOf, ErrorHandler
<1>10. CASE Snapshot(r)
  BY <1>10 DEF Snapshot, SharedOf
<1>11. CASE SnapshotEnd(r)
  BY <1>11 DEF SnapshotEnd, SharedOf
<1>12. CASE WritePage(r)
  BY <1>12 DEF WritePage, SharedOf, ErrorHandler, Write
<1>13. CASE RenderSSR(r)
  BY <1>13 DEF RenderSSR, SharedOf, ErrorHandler
<1>14. CASE LoadRootTemplate(r)
  BY <1>14 DEF LoadRootTemplate, SharedOf
<1>15. CASE ParseRootTemplate(r)
  BY <1>15 DEF ParseRootTemplate, SharedOf, ErrorHandler
<1>16. CASE Publish(r)
  BY <1>16 DEF Publish, SharedOf
<1>17. CASE Execute(r)
  BY <1>17 DEF Execute, SharedOf, ErrorHandler, Write
<1> QED  BY <1>1, <1>2, <1>3, <1>4, <1>5, <1>6, <1>7, <1>8, <1>9, <1>10, <1>11, <1>12, <1>13, <1>14, <1>15, <1>16, <1>17 DEF RenderStep

LEMMA SharedNext ==
  ASSUME TypeOK, CallInv, SharedInv, Next
  PROVE  SharedInv'
<1>1. ASSUME NEW r \in Renders, RenderStep(r) PROVE SharedInv'
  <2>1. Frame(r)
    BY <1>1, RenderFrame
  <2>2. SharedOf(r)'
    BY <1>1, RenderShared DEF SharedInv, SharedListed, SharedOf
  <2>3. ASSUME NEW q \in Renders \ {r} PROVE SharedOf(q)'
    BY <2>1 DEF Frame, SharedInv, SharedListed, SharedOf, SharedKeys, PageMade
  <2> QED  BY <2>2, <2>3 DEF SharedInv, SharedListed, SharedOf
<1>2. ASSUME NEW s \in Sharers, ShareStep(s) PROVE SharedInv'
  <2>1. /\ UNCHANGED <<merge, page>>
        /\ \A r \in Renders : pc'[r] = pc[r]
        /\ funcs \subseteq funcs'
        /\ SharedKeys \subseteq SharedKeys'
    BY <1>2, ShareFrame
  <2> QED  BY <2>1 DEF SharedInv, SharedListed, PageMade, merge, page
<1> QED  BY <1>1, <1>2 DEF Next

-----------------------------------------------------------------------------
(* The cached template.                                                    *)

\* The part of TemplateInv about one request.
TemplateOf(r) ==
  /\ pc[r] = "publish" => tpl[r] = r
  /\ cfg.root = "cached" /\ pc[r] # "publish" /\ tpl[r] # None => tpl[r] = rootTpl

LEMMA RenderTemplate ==
  ASSUME TypeOK, NEW r \in Renders, RenderStep(r), TemplateOf(r)
  PROVE  TemplateOf(r)' /\ (rootTpl' = rootTpl \/ rootTpl = None)
<1> /\ pc \in [Goroutines -> RenderSteps \cup ShareSteps] /\ r \in Goroutines
    /\ tpl \in [Renders -> Renders \cup {None}]
  BY DEF TypeOK, Goroutines
<1> UNCHANGED cfg
  BY RenderFrame DEF Frame
<1> USE DEF Step, TemplateOf, view
<1>1. CASE Version(r)
  BY <1>1 DEF Version, TemplateOf
<1>2. CASE Merge(r)
  BY <1>2 DEF Merge, TemplateOf
<1>3. CASE CopyStatic(r)
  BY <1>3 DEF CopyStatic, TemplateOf
<1>4. ASSUME NEW k \in Keys, Callback(r, k) PROVE TemplateOf(r)' /\ (rootTpl' = rootTpl \/ rootTpl = None)
  BY <1>4 DEF Callback, TemplateOf
<1>5. CASE CallbackPanics(r)
  BY <1>5 DEF CallbackPanics, TemplateOf
<1>6. CASE CallbackShares(r)
  BY <1>6 DEF CallbackShares, TemplateOf
<1>7. CASE MergeEnd(r)
  BY <1>7 DEF MergeEnd, TemplateOf
<1>8. CASE Unpack(r)
  BY <1>8 DEF Unpack, TemplateOf
<1>9. CASE Resolve(r)
  BY <1>9 DEF Resolve, TemplateOf, ErrorHandler
<1>10. CASE Snapshot(r)
  BY <1>10 DEF Snapshot, TemplateOf
<1>11. CASE SnapshotEnd(r)
  BY <1>11 DEF SnapshotEnd, TemplateOf
<1>12. CASE WritePage(r)
  BY <1>12 DEF WritePage, TemplateOf, ErrorHandler, Write
<1>13. CASE RenderSSR(r)
  BY <1>13 DEF RenderSSR, TemplateOf, ErrorHandler
<1>14. CASE LoadRootTemplate(r)
  BY <1>14 DEF LoadRootTemplate, TemplateOf
<1>15. CASE ParseRootTemplate(r)
  BY <1>15 DEF ParseRootTemplate, TemplateOf, ErrorHandler
<1>16. CASE Publish(r)
  BY <1>16 DEF Publish, TemplateOf
<1>17. CASE Execute(r)
  BY <1>17 DEF Execute, TemplateOf, ErrorHandler, Write
<1> QED  BY <1>1, <1>2, <1>3, <1>4, <1>5, <1>6, <1>7, <1>8, <1>9, <1>10, <1>11, <1>12, <1>13, <1>14, <1>15, <1>16, <1>17 DEF RenderStep

LEMMA TemplateNext ==
  ASSUME TypeOK, CallInv, TemplateInv, Next
  PROVE  TemplateInv'
<1>1. ASSUME NEW r \in Renders, RenderStep(r) PROVE TemplateInv'
  <2>1. Frame(r) /\ TemplateOf(r)' /\ (rootTpl' = rootTpl \/ rootTpl = None)
    BY <1>1, RenderFrame, RenderTemplate DEF TemplateInv, TemplateOf
  <2>2. ASSUME NEW q \in Renders \ {r} PROVE TemplateOf(q)'
    BY <2>1 DEF Frame, TemplateInv, TemplateOf
  <2> QED  BY <2>1, <2>2 DEF TemplateInv, TemplateOf
<1>2. ASSUME NEW s \in Sharers, ShareStep(s) PROVE TemplateInv'
  <2>1. UNCHANGED <<cfg, view>> /\ \A r \in Renders : pc'[r] = pc[r]
    BY <1>2, ShareFrame
  <2> QED  BY <2>1 DEF TemplateInv, view
<1> QED  BY <1>1, <1>2 DEF Next

-----------------------------------------------------------------------------
(* The reply.                                                              *)

\* The part of ReplyInv and of PageOrError about one request.
ReplyOf(r) ==
  /\ pc[r] \notin {"execute", "done"} =>
       status[r] = 0 /\ body[r] = "empty" /\ ~failed[r]
  /\ pc[r] \notin {"version", "done"} => kind[r] # "stale"
  /\ pc[r] \in {"ssr", "load", "parse", "publish", "execute"} => kind[r] = "document"
  /\ pc[r] \in {"load", "parse", "publish", "execute"} /\ cfg.ssr = "required" =>
       ssr[r] = "ok"
  /\ pc[r] = "execute" =>
       /\ ~failed[r]
       /\ \/ status[r] = 0 /\ body[r] = "empty"
          \/ status[r] = 200 /\ body[r] = "partial"

EndOf(r) ==
  pc[r] = "done" =>
    /\ status[r] = 409 <=> kind[r] = "stale"
    /\ status[r] = 500 <=> body[r] = "error"
    /\ status[r] = 500 => failed[r]
    /\ status[r] = 200 /\ failed[r] => kind[r] = "document" /\ body[r] = "garbled"
    /\ status[r] = 200 /\ ~failed[r] =>
         body[r] = IF kind[r] = "visit" THEN "json"
                   ELSE IF ssr[r] = "ok" THEN "ssr" ELSE "csr"
    /\ cfg.ssr = "required" => body[r] # "csr"

LEMMA RenderReply ==
  ASSUME TypeOK, NEW r \in Renders, RenderStep(r), ReplyOf(r)
  PROVE  ReplyOf(r)' /\ EndOf(r)'
<1> /\ pc \in [Goroutines -> RenderSteps \cup ShareSteps] /\ r \in Goroutines
    /\ pc[r] \in RenderSteps
    /\ status \in [Renders -> {0, 200, 409, 500}]
    /\ body \in [Renders -> {"empty", "json", "csr", "ssr", "partial", "error", "garbled"}]
    /\ failed \in [Renders -> BOOLEAN]
    /\ ssr \in [Renders -> {"none", "ok", "error"}]
    /\ kind[r] \in RenderKinds /\ cfg \in ConfigType
  BY DEF TypeOK, Goroutines
<1> UNCHANGED <<cfg, kind>>
  BY RenderFrame DEF Frame
<1> USE DEF Step, ReplyOf, EndOf, reply, view, ConfigType, RenderKinds
<1>1. CASE Version(r)
  BY <1>1 DEF Version, ReplyOf
<1>2. CASE Merge(r)
  BY <1>2 DEF Merge, ReplyOf
<1>3. CASE CopyStatic(r)
  BY <1>3 DEF CopyStatic, ReplyOf
<1>4. ASSUME NEW k \in Keys, Callback(r, k) PROVE ReplyOf(r)' /\ EndOf(r)'
  BY <1>4 DEF Callback, ReplyOf
<1>5. CASE CallbackPanics(r)
  BY <1>5 DEF CallbackPanics, ReplyOf
<1>6. CASE CallbackShares(r)
  BY <1>6 DEF CallbackShares, ReplyOf
<1>7. CASE MergeEnd(r)
  BY <1>7 DEF MergeEnd, ReplyOf
<1>8. CASE Unpack(r)
  BY <1>8 DEF Unpack, ReplyOf
<1>9. CASE Resolve(r)
  BY <1>9 DEF Resolve, ReplyOf, ErrorHandler
<1>10. CASE Snapshot(r)
  BY <1>10 DEF Snapshot, ReplyOf
<1>11. CASE SnapshotEnd(r)
  BY <1>11 DEF SnapshotEnd, ReplyOf
<1>12. CASE WritePage(r)
  BY <1>12 DEF WritePage, ReplyOf, ErrorHandler, Write
<1>13. CASE RenderSSR(r)
  BY <1>13 DEF RenderSSR, ReplyOf, ErrorHandler
<1>14. CASE LoadRootTemplate(r)
  BY <1>14 DEF LoadRootTemplate, ReplyOf
<1>15. CASE ParseRootTemplate(r)
  BY <1>15 DEF ParseRootTemplate, ReplyOf, ErrorHandler
<1>16. CASE Publish(r)
  BY <1>16 DEF Publish, ReplyOf
<1>17. CASE Execute(r)
  BY <1>17 DEF Execute, ReplyOf, ErrorHandler, Write
<1> QED  BY <1>1, <1>2, <1>3, <1>4, <1>5, <1>6, <1>7, <1>8, <1>9, <1>10, <1>11, <1>12, <1>13, <1>14, <1>15, <1>16, <1>17 DEF RenderStep

LEMMA ReplyNext ==
  ASSUME TypeOK, CallInv, ReplyInv, PageOrError, Next
  PROVE  ReplyInv' /\ PageOrError'
<1>1. ASSUME NEW r \in Renders, RenderStep(r) PROVE ReplyInv' /\ PageOrError'
  <2>1. Frame(r) /\ ReplyOf(r)' /\ EndOf(r)'
    BY <1>1, RenderFrame, RenderReply DEF ReplyInv, ReplyOf
  <2>2. ASSUME NEW q \in Renders \ {r} PROVE ReplyOf(q)' /\ EndOf(q)'
    BY <2>1 DEF Frame, ReplyInv, PageOrError, ReplyOf, EndOf
  <2> QED  BY <2>1, <2>2 DEF ReplyInv, PageOrError, ReplyOf, EndOf
<1>2. ASSUME NEW s \in Sharers, ShareStep(s) PROVE ReplyInv' /\ PageOrError'
  <2>1. UNCHANGED <<cfg, kind, view, reply>> /\ \A r \in Renders : pc'[r] = pc[r]
    BY <1>2, ShareFrame
  <2> QED  BY <2>1 DEF ReplyInv, PageOrError, view, reply
<1> QED  BY <1>1, <1>2 DEF Next

-----------------------------------------------------------------------------
(* The theorems.                                                           *)

LEMMA NextIInv == IInv /\ [Next]_vars => IInv'
<1> SUFFICES ASSUME IInv, [Next]_vars PROVE IInv'
  OBVIOUS
<1>1. CASE Next
  <2>1. TypeOK'
    BY <1>1, ShareType, RenderType DEF Next, IInv
  <2> QED  BY <1>1, <2>1, MutexNext, SharedNext, TemplateNext, ReplyNext DEF IInv
<1>2. CASE UNCHANGED vars
  BY <1>2 DEF vars, shared, mutex, merge, page, view, reply, IInv, TypeOK, MutexInv, CallInv,
              SharedInv, SharedListed, SharedKeys, PageMade, TemplateInv, ReplyInv, PageOrError
<1> QED  BY <1>1, <1>2

\* The invariant of all goroutines that render and share.
THEOREM Invariant == Spec => []IInv
<1> QED  BY InitIInv, NextIInv, PTL DEF Spec

\* The state of every request is well typed, for any number of them.
THEOREM TypeCorrect == Spec => []TypeOK
<1>1. IInv => TypeOK
  BY DEF IInv
<1> QED  BY <1>1, Invariant, PTL

\* No map of shared props is read or assigned while a Share assigns to it.
THEOREM SharedMapsGuarded == Spec => []NoMapRace
<1>1. IInv => NoMapRace
  <2> SUFFICES ASSUME IInv, NEW s \in Sharers, pc[s] = "assign"
               PROVE  /\ \A r \in Renders : pc[r] \notin Reading
                      /\ \A u \in Sharers \ {s} : pc[u] # "assign"
    BY DEF NoMapRace, Reading
  <2> QED  BY DEF IInv, MutexInv
<1> QED  BY <1>1, Invariant, PTL

\* Behind sharedMu nobody waits in a circle, for any number of goroutines.
THEOREM NoCircularWait == Spec => []HolderGoesOn
<1>1. IInv => HolderGoesOn
  <2> SUFFICES ASSUME IInv, ~Reentered, NEW g \in Goroutines, Waits(g)
               PROVE  \E h \in Goroutines :
                        /\ h \in readers \/ h = writer
                        /\ ~Waits(h) /\ pc[h] \notin {"done", "panicked"}
    BY DEF HolderGoesOn
  <2>1. /\ writer \in Goroutines \cup {None} /\ readers \subseteq Renders
        /\ Renders \subseteq Goroutines
    BY DEF IInv, TypeOK, Goroutines
  <2>2. CASE readers # {}
    <3>1. PICK h \in Renders : h \in readers
      BY <2>1, <2>2
    <3>2. pc[h] \in {"static", "callbacks", "keys"}
      BY <3>1 DEF IInv, MutexInv, Reading, Reentered
    <3> QED  BY <2>1, <3>1, <3>2 DEF Waits
  <2>3. CASE readers = {}
    <3>1. writer # None
      BY <2>3 DEF Waits
    <3>2. writer \in Sharers
      BY <2>1, <3>1 DEF IInv, MutexInv, Reentered, Goroutines
    <3>3. pc[writer] \in {"wait", "assign"}
      BY <3>2 DEF IInv, MutexInv
    <3> QED  BY <2>1, <2>3, <3>1, <3>3 DEF Waits
  <2> QED  BY <2>2, <2>3
<1> QED  BY <1>1, Invariant, PTL

\* A page lists every shared prop it has.
THEOREM AllListed == Spec => []SharedListed
<1>1. IInv => SharedListed
  BY DEF IInv, SharedInv
<1> QED  BY <1>1, Invariant, PTL

\* All requests execute the template that was cached first.
THEOREM StableTemplate == Spec => []OneTemplate
<1>1. IInv => OneTemplate
  BY DEF IInv, TemplateInv, OneTemplate
<1> QED  BY <1>1, Invariant, PTL

\* A Render ends in a conflict, in the page asked for, or in an error.
THEOREM RepliesOnce == Spec => []PageOrError
<1>1. IInv => PageOrError
  BY DEF IInv
<1> QED  BY <1>1, Invariant, PTL
=============================================================================
