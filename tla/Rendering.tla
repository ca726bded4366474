------------------------------- MODULE Rendering -------------------------------
(***************************************************************************)
(* Inertia.Render in concurrent requests, with goroutines that call Share  *)
(* and ShareValue meanwhile: the reads of the shared props under sharedMu, *)
(* the callbacks run under it, the unpacking of dotted keys, server-side   *)
(* rendering, the cached root template and the reply.                      *)
(*                                                                         *)
(* A Share call registers a callback, whose result is a new value in every *)
(* request, or a value; a value is named after the call that registered it *)
(* and is a map if the call is in Maps.  Of the contents of a map only the *)
(* requests whose props were written into it are kept.  The handler's own  *)
(* props have other top-level keys than the shared ones, but for at most   *)
(* one dotted key.                                                         *)
(***************************************************************************)
CONSTANTS
  Renders,   \* requests, each of which calls Render once
  Sharers,   \* goroutines, each of which calls Share or ShareValue once
  Maps,      \* the Sharers whose ShareValue passes a map
  Keys,      \* top-level keys of shared props
  Scenarios, \* Configs with what the requests ask for: pairs <<cfg, kind>>
  None       \* no value, nobody, no template

ConfigType  == [ssr : {"none", "optional", "required"}, root : {"cached", "hot", "RootRender"}]
RenderKinds == {"document", "visit", "stale"}

ASSUME ScenariosAssumption ==
  Scenarios \subseteq ConfigType \X [Renders -> RenderKinds]
ASSUME MapsAssumption  == Maps \subseteq Sharers
ASSUME NamesAssumption ==
  /\ Renders \cap Sharers = {}
  /\ None \notin Renders \cup Sharers

VARIABLES
  cfg,      \* Config: SSR with SSRRequired, and how the root view is rendered
  kind,     \* kind[r]: what r asks for
  static,   \* sharedStatic
  funcs,    \* the keys of sharedFuncs
  heap,     \* heap[s]: the requests whose props are in the map that s registered
  readers,  \* sharedMu: goroutines that hold it for reading
  writer,   \* the goroutine that holds its writers' mutex, waiting or writing
  pc,       \* pc[g]: what goroutine g does next
  call,     \* call[s]: the key and sort of value s registers
  todo,     \* todo[r]: callbacks mergeAllProps has yet to call
  merged,   \* merged[r]: the shared props it has copied
  shown,    \* shown[r][k]: the requests whose props are on r's page under k
  listed,   \* listed[r]: the page object's sharedProps
  ssr,      \* ssr[r]: the outcome of the SSR call
  rootTpl,  \* the cached template, named after the request that parsed it
  tpl,      \* tpl[r]: the template r executes
  status,   \* status[r]: the committed status code, 0 before
  body,     \* body[r]: what was written
  failed    \* failed[r]: the ErrorHandler was called

mutex  == <<readers, writer>>
shared == <<static, funcs, heap>>
merge  == <<todo, merged>>
page   == <<shown, listed>>
view   == <<ssr, rootTpl, tpl>>
reply  == <<status, body, failed>>
vars == <<cfg, kind, shared, mutex, pc, call, merge, page, view, reply>>

Goroutines == Renders \cup Sharers
Fresh      == "fresh"   \* a callback's result

-----------------------------------------------------------------------------

RenderSteps == {"version", "merge", "static", "callbacks", "reentered", "unpack",
                "resolve", "snapshot", "keys", "write", "ssr", "load", "parse",
                "publish", "execute", "done", "panicked"}
ShareSteps  == {"idle", "lock", "wait", "assign", "done"}

TypeOK ==
  /\ cfg \in ConfigType
  /\ kind \in [Renders -> RenderKinds]
  /\ static \in [Keys -> Sharers \cup {None}]
  /\ funcs \in SUBSET Keys
  /\ heap \in [Sharers -> SUBSET Renders]
  /\ readers \in SUBSET Renders
  /\ writer \in Goroutines \cup {None}
  /\ pc \in [Goroutines -> RenderSteps \cup ShareSteps]
  /\ \A r \in Renders : pc[r] \in RenderSteps
  /\ \A s \in Sharers : pc[s] \in ShareSteps
  /\ call \in [Sharers -> [key : Keys, sort : {"value", "callback"}] \cup {None}]
  /\ todo \in [Renders -> SUBSET Keys]
  /\ merged \in [Renders -> [Keys -> Sharers \cup {Fresh, None}]]
  /\ shown \in [Renders -> [Keys -> SUBSET Renders]]
  /\ listed \in [Renders -> SUBSET Keys]
  /\ ssr \in [Renders -> {"none", "ok", "error"}]
  /\ rootTpl \in Renders \cup {None}
  /\ tpl \in [Renders -> Renders \cup {None}]
  /\ status \in [Renders -> {0, 200, 409, 500}]
  /\ body \in [Renders -> {"empty", "json", "csr", "ssr", "partial", "error", "garbled"}]
  /\ failed \in [Renders -> BOOLEAN]

Init ==
  /\ \E c \in Scenarios : cfg = c[1] /\ kind = c[2]
  /\ static = [k \in Keys |-> None]
  /\ funcs = {}
  /\ heap = [s \in Sharers |-> {}]
  /\ readers = {} /\ writer = None
  /\ pc = [g \in Goroutines |-> IF g \in Renders THEN "version" ELSE "idle"]
  /\ call = [s \in Sharers |-> None]
  /\ todo = [r \in Renders |-> {}]
  /\ merged = [r \in Renders |-> [k \in Keys |-> None]]
  /\ shown = [r \in Renders |-> [k \in Keys |-> {}]]
  /\ listed = [r \in Renders |-> {}]
  /\ ssr = [r \in Renders |-> "none"]
  /\ rootTpl = None
  /\ tpl = [r \in Renders |-> None]
  /\ status = [r \in Renders |-> 0]
  /\ body = [r \in Renders |-> "empty"]
  /\ failed = [r \in Renders |-> FALSE]

Step(g, from, to) == pc[g] = from /\ pc' = [pc EXCEPT ![g] = to]

-----------------------------------------------------------------------------
(* sync.RWMutex: a writer that waits keeps new readers out.  (That Unlock  *)
(* lets the readers that came meanwhile in first is left out.)             *)

RLock(g)   == writer = None /\ readers' = readers \cup {g} /\ UNCHANGED writer
RUnlock(g) == readers' = readers \ {g} /\ UNCHANGED writer

\* Lock is two steps: keep others out, and wait for the readers to leave.
LockAnnounce(g) == writer = None /\ writer' = g /\ UNCHANGED readers
LockAcquire(g)  == writer = g /\ readers = {} /\ UNCHANGED mutex
Unlock          == writer' = None /\ UNCHANGED readers

-----------------------------------------------------------------------------
(* Share and ShareValue.                                                   *)

CallShare(s, k, sort) ==
  /\ Step(s, "idle", "lock")
  /\ call' = [call EXCEPT ![s] = [key |-> k, sort |-> sort]]
  /\ UNCHANGED <<cfg, kind, shared, mutex, merge, page, view, reply>>

Lock(s) ==
  /\ \/ Step(s, "lock", "wait") /\ LockAnnounce(s)
     \/ Step(s, "wait", "assign") /\ LockAcquire(s)
  /\ UNCHANGED <<cfg, kind, shared, call, merge, page, view, reply>>

\* The assignment, and the deferred Unlock.
Assign(s) ==
  LET c == call[s] IN
  /\ Step(s, "assign", "done")
  /\ static' = IF c.sort = "value" THEN [static EXCEPT ![c.key] = s] ELSE static
  /\ funcs' = IF c.sort = "callback" THEN funcs \cup {c.key} ELSE funcs
  /\ Unlock
  /\ UNCHANGED <<cfg, kind, heap, call, merge, page, view, reply>>

-----------------------------------------------------------------------------
(* The reply.                                                              *)

\* The handler's first byte commits the status 200.
Write(r, what) ==
  /\ status' = [status EXCEPT ![r] = IF @ = 0 THEN 200 ELSE @]
  /\ body' = [body EXCEPT ![r] = what]

\* ErrorHandler, by default http.Error(w, .., 500): the status counts if
\* nothing was written before.
ErrorHandler(r, from) ==
  /\ Step(r, from, "done")
  /\ failed' = [failed EXCEPT ![r] = TRUE]
  /\ status' = [status EXCEPT ![r] = IF @ = 0 THEN 500 ELSE @]
  /\ body' = [body EXCEPT ![r] = IF status[r] = 0 THEN "error" ELSE "garbled"]

-----------------------------------------------------------------------------
(* Render, up to the page object.                                          *)

\* Wrong variant: an ordinary redirect instead of 409.
VersionRedirects(r) ==
  /\ \/ kind[r] = "stale" /\ Step(r, "version", "done")
        /\ status' = [status EXCEPT ![r] = 302]
     \/ kind[r] # "stale" /\ Step(r, "version", "merge")
        /\ UNCHANGED status
  /\ UNCHANGED <<cfg, kind, shared, mutex, call, merge, page, view, body, failed>>

\* Version negotiation.
Version(r) ==
  /\ \/ kind[r] = "stale" /\ Step(r, "version", "done")
        /\ status' = [status EXCEPT ![r] = 409]
     \/ kind[r] # "stale" /\ Step(r, "version", "merge")
        /\ UNCHANGED status
  /\ UNCHANGED <<cfg, kind, shared, mutex, call, merge, page, view, body, failed>>

\* mergeAllProps
Merge(r) ==
  /\ Step(r, "merge", "static")
  /\ RLock(r)
  /\ UNCHANGED <<cfg, kind, shared, call, merge, page, view, reply>>

CopyStatic(r) ==
  /\ Step(r, "static", "callbacks")
  /\ merged' = [merged EXCEPT ![r] = static]
  /\ todo' = [todo EXCEPT ![r] = funcs]
  /\ UNCHANGED <<cfg, kind, shared, mutex, call, page, view, reply>>

Callback(r, k) ==
  /\ Step(r, "callbacks", "callbacks")
  /\ k \in todo[r]
  /\ todo' = [todo EXCEPT ![r] = @ \ {k}]
  /\ merged' = [merged EXCEPT ![r][k] = Fresh]
  /\ UNCHANGED <<cfg, kind, shared, mutex, call, page, view, reply>>

\* Wrong variant: RUnlock is not deferred.
CallbackPanicsHolding(r) ==
  /\ todo[r] # {} /\ Step(r, "callbacks", "panicked")
  /\ UNCHANGED <<cfg, kind, shared, mutex, call, merge, page, view, reply>>

\* A panic in a callback runs the deferred RUnlock; net/http recovers it.
CallbackPanics(r) ==
  /\ todo[r] # {} /\ Step(r, "callbacks", "panicked")
  /\ RUnlock(r)
  /\ UNCHANGED <<cfg, kind, shared, call, merge, page, view, reply>>

\* A callback that calls Share waits for its own goroutine to RUnlock; no
\* action leads out of it.
CallbackShares(r) ==
  /\ todo[r] # {} /\ Step(r, "callbacks", "reentered")
  /\ writer' = IF writer = None THEN r ELSE writer
  /\ UNCHANGED <<cfg, kind, shared, readers, call, merge, page, view, reply>>

\* Wrong variant: the lock is kept for sharedKeysSnapshot.
MergeEndHolding(r) ==
  /\ todo[r] = {} /\ Step(r, "callbacks", "unpack")
  /\ UNCHANGED <<cfg, kind, shared, mutex, call, merge, page, view, reply>>

MergeEnd(r) ==
  /\ todo[r] = {} /\ Step(r, "callbacks", "unpack")
  /\ RUnlock(r)
  /\ UNCHANGED <<cfg, kind, shared, call, merge, page, view, reply>>

\* unpackDotProps, setNestedPath: a prop "k.x" of the handler is written into
\* the map at k, the registered one if k holds one.
Unpack(r) ==
  /\ Step(r, "unpack", "resolve")
  /\ \/ UNCHANGED heap
     \/ \E k \in Keys : /\ merged[r][k] \in Maps
                        /\ heap' = [heap EXCEPT ![merged[r][k]] = @ \cup {r}]
  /\ UNCHANGED <<cfg, kind, static, funcs, mutex, call, merge, page, view, reply>>

\* resolveProps copies the tree, which holds the shared maps, and calls the
\* handler's closures.
Resolve(r) ==
  \/ /\ Step(r, "resolve", "snapshot")
     /\ shown' = [shown EXCEPT ![r] =
          [k \in Keys |-> IF merged[r][k] \in Maps THEN heap[merged[r][k]] ELSE {}]]
     /\ UNCHANGED <<cfg, kind, shared, mutex, call, merge, listed, view, reply>>
  \/ /\ ErrorHandler(r, "resolve")
     /\ UNCHANGED <<cfg, kind, shared, mutex, call, merge, page, view>>
  \/ /\ Step(r, "resolve", "panicked")
     /\ UNCHANGED <<cfg, kind, shared, mutex, call, merge, page, view, reply>>

\* Wrong variant: sharedKeysSnapshot does not lock.
SnapshotUnlocked(r) ==
  /\ Step(r, "snapshot", "keys")
  /\ UNCHANGED <<cfg, kind, shared, mutex, call, merge, page, view, reply>>

\* sharedKeysSnapshot
Snapshot(r) ==
  /\ Step(r, "snapshot", "keys")
  /\ RLock(r)
  /\ UNCHANGED <<cfg, kind, shared, call, merge, page, view, reply>>

\* Wrong variant: the keys of sharedFuncs are forgotten.
SharedKeysStatic == {k \in Keys : static[k] # None}

SharedKeys == {k \in Keys : static[k] # None} \cup funcs

SnapshotEnd(r) ==
  /\ Step(r, "keys", "write")
  /\ listed' = [listed EXCEPT ![r] = SharedKeys]
  /\ RUnlock(r)
  /\ UNCHANGED <<cfg, kind, shared, call, merge, shown, view, reply>>

-----------------------------------------------------------------------------
(* Writing the page.                                                       *)

\* writeJSON, and writeHTML up to the SSR call; json.Marshal may fail.
WritePage(r) ==
  /\ \/ ErrorHandler(r, "write")
     \/ kind[r] = "visit" /\ Step(r, "write", "done") /\ Write(r, "json") /\ UNCHANGED failed
     \/ kind[r] = "document" /\ UNCHANGED reply
        /\ Step(r, "write", IF cfg.ssr = "none" THEN "load" ELSE "ssr")
  /\ UNCHANGED <<cfg, kind, shared, mutex, call, merge, page, view>>

\* Wrong variant: SSRRequired is not looked at.
RenderSSROptional(r) ==
  /\ \E result \in {"ok", "error"} : ssr' = [ssr EXCEPT ![r] = result]
  /\ Step(r, "ssr", "load") /\ UNCHANGED reply
  /\ UNCHANGED <<cfg, kind, shared, mutex, call, merge, page, rootTpl, tpl>>

\* SSRClient.Render: a transport error, a timeout, a status or a body that is
\* not right is an error.
RenderSSR(r) ==
  /\ \E result \in {"ok", "error"} :
       /\ ssr' = [ssr EXCEPT ![r] = result]
       /\ \/ result = "error" /\ cfg.ssr = "required" /\ ErrorHandler(r, "ssr")
          \/ ~(result = "error" /\ cfg.ssr = "required")
             /\ Step(r, "ssr", "load") /\ UNCHANGED reply
  /\ UNCHANGED <<cfg, kind, shared, mutex, call, merge, page, rootTpl, tpl>>

\* loadRootTemplate: the cached template, or one this request parses.
LoadRootTemplate(r) ==
  /\ \/ cfg.root = "RootRender" /\ Step(r, "load", "execute") /\ UNCHANGED tpl
     \/ cfg.root = "cached" /\ rootTpl # None /\ Step(r, "load", "execute")
        /\ tpl' = [tpl EXCEPT ![r] = rootTpl]
     \/ (cfg.root = "hot" \/ (cfg.root = "cached" /\ rootTpl = None))
        /\ Step(r, "load", "parse") /\ UNCHANGED tpl
  /\ UNCHANGED <<cfg, kind, shared, mutex, call, merge, page, ssr, rootTpl, reply>>

ParseRootTemplate(r) ==
  /\ \/ ErrorHandler(r, "parse") /\ UNCHANGED tpl
     \/ Step(r, "parse", IF cfg.root = "hot" THEN "execute" ELSE "publish")
        /\ tpl' = [tpl EXCEPT ![r] = r] /\ UNCHANGED reply
  /\ UNCHANGED <<cfg, kind, shared, mutex, call, merge, page, ssr, rootTpl>>

\* Wrong variant: the second of two racing requests does not look again.
PublishAlways(r) ==
  /\ Step(r, "publish", "execute")
  /\ rootTpl' = r /\ UNCHANGED tpl
  /\ UNCHANGED <<cfg, kind, shared, mutex, call, merge, page, ssr, reply>>

\* The critical section under rootTplMu.
Publish(r) ==
  /\ Step(r, "publish", "execute")
  /\ \/ rootTpl = None /\ rootTpl' = r /\ UNCHANGED tpl
     \/ rootTpl # None /\ tpl' = [tpl EXCEPT ![r] = rootTpl] /\ UNCHANGED rootTpl
  /\ UNCHANGED <<cfg, kind, shared, mutex, call, merge, page, ssr, reply>>

\* Execute writes to the response as it goes: it may fail before the first
\* byte, or after.
Execute(r) ==
  /\ \/ Step(r, "execute", "done") /\ UNCHANGED failed
        /\ Write(r, IF ssr[r] = "ok" THEN "ssr" ELSE "csr")
     \/ ErrorHandler(r, "execute")
     \/ Step(r, "execute", "execute") /\ status[r] = 0 /\ UNCHANGED failed
        /\ Write(r, "partial")
  /\ UNCHANGED <<cfg, kind, shared, mutex, call, merge, page, view>>

-----------------------------------------------------------------------------

ShareStep(s) ==
  \/ \E k \in Keys, sort \in {"value", "callback"} : CallShare(s, k, sort)
  \/ Lock(s) \/ Assign(s)

RenderStep(r) ==
  \/ Version(r) \/ Merge(r) \/ CopyStatic(r)
  \/ \E k \in Keys : Callback(r, k)
  \/ CallbackPanics(r) \/ CallbackShares(r)
  \/ MergeEnd(r) \/ Unpack(r) \/ Resolve(r) \/ Snapshot(r) \/ SnapshotEnd(r)
  \/ WritePage(r) \/ RenderSSR(r)
  \/ LoadRootTemplate(r) \/ ParseRootTemplate(r) \/ Publish(r) \/ Execute(r)

Next ==
  \/ \E s \in Sharers : ShareStep(s)
  \/ \E r \in Renders : RenderStep(r)

Spec == Init /\ [][Next]_vars

\* The Go scheduler runs every goroutine that can run; callbacks, the SSR
\* client (it has a timeout) and templates end.  Nobody has to call Share.
FairSpec ==
  /\ Spec
  /\ \A r \in Renders : WF_vars(RenderStep(r))
  /\ \A s \in Sharers : WF_vars(Lock(s) \/ Assign(s))

-----------------------------------------------------------------------------
(* Properties.                                                             *)

(* The maps of shared props are never read or ranged over while a Share    *)
(* assigns to them (Go would abort the process), nor assigned by two.      *)
NoMapRace ==
  \A s \in Sharers : pc[s] = "assign" =>
    /\ \A r \in Renders : pc[r] \notin {"static", "callbacks", "reentered", "keys"}
    /\ \A u \in Sharers \ {s} : pc[u] # "assign"

PageMade(r) == pc[r] \in {"write", "ssr", "load", "parse", "publish", "execute"}

(* Every shared prop on a page is in its sharedProps, although the values  *)
(* and the keys are read in two critical sections with Shares in between.  *)
SharedListed ==
  \A r \in Renders : PageMade(r) =>
    {k \in Keys : merged[r][k] # None} \subseteq listed[r]

(* Without HotReload all requests execute one template, also those that    *)
(* found the cache empty at the same time ("a stable instance").           *)
OneTemplate ==
  cfg.root = "cached" =>
    \A q, r \in Renders :
      /\ tpl[q] # None /\ pc[q] # "publish"
      /\ tpl[r] # None /\ pc[r] # "publish"
      => tpl[q] = tpl[r]

(* What a Render that ended has sent is a version conflict, the page in    *)
(* the form asked for, or an error: a failure before the first byte is a   *)
(* 500 without a page, a page is never the result of a failed Render       *)
(* unless its template failed halfway, and with SSRRequired a document is  *)
(* never left to the client to render.                                     *)
PageOrError ==
  \A r \in Renders : pc[r] = "done" =>
    /\ status[r] = 409 <=> kind[r] = "stale"
    /\ status[r] = 500 <=> body[r] = "error"
    /\ status[r] = 500 => failed[r]
    /\ status[r] = 200 /\ failed[r] => kind[r] = "document" /\ body[r] = "garbled"
    /\ status[r] = 200 /\ ~failed[r] =>
         body[r] = IF kind[r] = "visit" THEN "json"
                   ELSE IF ssr[r] = "ok" THEN "ssr" ELSE "csr"
    /\ cfg.ssr = "required" => body[r] # "csr"

\* A callback waits for the lock that its own goroutine holds.
Reentered == \E r \in Renders : pc[r] = "reentered"

\* What the RWMutex does not let go on.
Waits(g) ==
  \/ pc[g] \in {"merge", "snapshot", "lock"} /\ writer # None
  \/ pc[g] = "wait" /\ readers # {}

(* Nobody waits for sharedMu in a circle, although Render acquires it      *)
(* twice and a waiting writer keeps readers out: whoever waits, waits      *)
(* behind a goroutine that holds the lock, has not ended or panicked, and  *)
(* can go on.  A callback that itself calls Share waits for its caller.    *)
HolderGoesOn ==
  ~Reentered => \A g \in Goroutines : Waits(g) =>
    \E h \in Goroutines :
      /\ h \in readers \/ h = writer
      /\ ~Waits(h) /\ pc[h] \notin {"done", "panicked"}

(* Every Render ends, whatever Shares wait and whichever callbacks panic,  *)
(* unless a callback itself calls Share.                                   *)
RenderEnds ==
  \A r \in Renders : <>(pc[r] \in {"done", "panicked"} \/ Reentered)

(* And so does every Share: readers cannot keep a writer out for ever.     *)
ShareReturns ==
  \A s \in Sharers : pc[s] = "lock" ~> (pc[s] = "done" \/ Reentered)

-----------------------------------------------------------------------------
(* What the documentation says and the code does not do.                   *)

(* "ShareValue registers a static value that is merged into every Render   *)
(* call" (inertia.go:241): the value stays as registered, and a page shows *)
(* no other request's props.                                               *)
SharedIsStatic ==
  \A r \in Renders, k \in Keys : shown[r][k] \subseteq {r}
=============================================================================
