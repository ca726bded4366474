# inertia-go in TLA+

inertia-go is a Go adapter of the Inertia v3 protocol: a middleware, a few
reply functions (Render, Redirect, Location, Back, Precognition), prop types
that a resolver turns into a page object, and a session in which validation
errors and flash messages survive a redirect. This project models its core,
model-checks it on small instances and proves the most important results for
all instances.

## 1. The system

| part | source | state | operations | what makes it correct |
|---|---|---|---|---|
| Cookie session store | `session/cookie.go` | a `sync.Map` from response writer to accumulator (payload, dirty, mutex); the browser's encrypted cookie | FlashErrors, TakeErrors, FlashMessage, TakeMessages, FlushResponse | goroutines of one handler share one accumulator, no update is lost, take is read-and-clear, one Set-Cookie says it all, no entry outlives its response |
| Memory session store | `session/memory.go` | a map from session id to entry, a mutex | the same four | take is read-and-clear, one session per browser |
| Middleware and response writer | `middleware.go`, `response_writer.go` | the request's context, a `sync.Once` | Middleware, WriteHeader, Write, FlushError, Hijack, flushNow | the session is drained before net/http commits the header map, once, on every path |
| Collectors, redirects, precognition | `helpers.go`, `response.go`, `precognition.go` | per-request error bags and flash messages | Add, Set, Redirect, Location, Back, Precognition | what was collected reaches the session exactly when the handler redirects |
| Props resolver | `resolver.go`, `props.go`, `partial.go` | none between requests | resolve | a partial reload gets what it asks for, what the first response promises is delivered later, callbacks run only when needed |
| Render pipeline | `render.go`, `inertia.go` | configuration | Render | version check, page object, JSON or HTML, failures go to the ErrorHandler |
| Shared props | `inertia.go`, `render.go` | two maps behind a RWMutex | Share, ShareValue, mergeAllProps, sharedKeysSnapshot | requests do not see each other's props, no deadlock |
| Root template, asset version | `roottpl.go`, `version.go` | a cached template, a memoised hash | renderRoot, currentVersion | one consistent template per process |
| Scroll adapters | `scroll.go` | a registry of adapters | RegisterScrollAdapter, Scroll | first match wins |
| Vite manifest | `vite/manifest.go` | the parsed manifest, a set of names warned about | Asset, Tag, CSS | every file of an entry's import graph once, cycles included |
| SSR client | `ssr/ssr.go` | none | Render, Ping | an outcome per call |

How they interact: the middleware wraps the response writer, takes the flash of
the request's error bag and all messages from the session, and puts them with
empty collectors into the request's context. The handler fills the collectors
and replies through the library (or writes itself). Redirect and Location call
the store again; every method of the writer that commits headers first runs
`FlushResponse` once.

Hard behaviours are listed under `hazards` in `PROJECT.json`, each at its line.

## 2. Modules

| module | models | stands on |
|---|---|---|
| `FlashPayload` | `cookiePayload` and the critical sections of the four `Store` operations, as operators | |
| `ResponseAccumulator` | what one response's accumulator promises: every call is atomic until the response is closed, sealing sends the payload if it changed (abstract) | `FlashPayload` |
| `CookieStore` | `CookieStore` as goroutines see it: one action per `sync.Map` access and per critical section | `FlashPayload`, refines `ResponseAccumulator` |
| `RequestLifecycle` | one request through `Middleware` and `flushWriter`, with collectors, raw uses of the writer, the library's replies, return and panic | `FlashPayload` |
| `PropsResolver` | `resolver.go` and the prop types, as operators from headers and a tree of props to a page object | |
| `PageVisits` | a client that visits pages, fetches deferred groups and reloads selections, answered by the resolver | `PropsResolver` |
| `FlashMailbox` | what a session promises one browser while nothing goes wrong: one payload, on which every flash and take acts at once and exactly once (abstract) | `FlashPayload` |
| `BrowserSession` | a browser with several visits in flight over either store (`CookieStore` or `MemoryStore`), responses late, out of order or lost, cookies too large or expired, restarts of the server | `FlashPayload`, refines `FlashMailbox` |
| `Rendering` | concurrent calls of `Render` and `Share`: `sharedMu`, callbacks under it, dotted keys, SSR, the cached root template, the `ErrorHandler` | |
| `ViteManifest` | `Tag` and `CSS` of the manifest, with `collectDeps`'s walk over any import graph | |
| `*Proofs` | the theorems; `BrowserSessionProofs` has those about both stores, `BrowserCookieProofs` those about the cookie, `BrowserMailboxProofs` the refinement of `FlashMailbox` | the module they are named after |
| `MC*` | constants for TLC | |

The modules meet at three seams. `CookieStore` shows that the store's calls may
be taken as atomic; that is why `RequestLifecycle` makes each of them, and each
reply of the library, part of one step. `RequestLifecycle` shows that a response
carries exactly one cookie with what its accumulator held; that is why
`BrowserSession` lets a response carry its visit's accumulator. And all of them
act on the session through the operators of `FlashPayload`.

### State and code

- **CookieStore.** `pending` is the `sync.Map`; a `*pendingPayload` is named
  after the call that allocated it, so `heap[c]` and `ref[c]` are the objects
  and the pointers to them. `stage[c]` is the next shared access of a call:
  `Load`, `LoadOrStore`, `Lock`. `FlushResponse` is `LoadAndDelete`, then
  `Drain` under the object's mutex; `joins[w]` distinguishes handlers that wait
  for their goroutines from those that do not. Encryption and JSON are a
  faithful round trip; a cookie over `MaxBytes` is a payload in `Oversize`.
- **RequestLifecycle.** `once` is the `sync.Once`, `setCookies` the session
  cookies in the header map, `wire` that map as net/http committed it. The
  methods of `flushWriter` are operators on the accumulator that the call
  before them left, so a reply is one action with its trailing drain and commit
  in it. Map iteration order in `persistCollectors` is the choice of `Orders`.
- **PropsResolver.** A tree maps dot paths to nodes; a node is the prop and the
  prop-type, if any, that its callback returns. `resolveItem` gives the outcome
  at a path: filtered, cached, lazy, sent, rescued or failed. The recursion of
  `resolveProps`, `resolveArray` and `recurseInto` becomes a condition on a
  path's ancestors (`Reached`, and `UnderClosure` for the flag
  `parentResolved`), so the module needs no recursion and can be proved about.
- **PageVisits.** `held`, `once` and `awaiting` are the client's: paths with a
  value, once props it remembers, deferred paths it has to fetch. The client is
  not in this repository; the module's head states what is assumed of it.
- **BrowserSession.** `jar` holds the two cookies of the browser, `data` is
  `MemoryStore.data`, `acc[v]` the `CookieStore`'s accumulator of visit `v` and
  `minted[v]` the id cookie in its response's header map, where `sessionID`
  looks for it (`w.Header()["Set-Cookie"]`). A visit is sent, takes its bag's
  errors, takes the messages, flashes what its redirect persists call by call,
  is answered, and delivered or lost; each store call is one step, under the
  memory store's mutex or on an accumulator nobody else has. A visit's name
  stands for the value it flashes. `seen` and `prior` are history: who had been
  delivered when a visit was sent, and when it was delivered. `faults` records
  what ended the mailbox's promise.
- **Rendering.** `pc[g]` is the next step of a goroutine: the two critical
  sections of a render (`mergeAllProps`, `sharedKeysSnapshot`), each with its
  acquire, its reads and its release, and in between the callbacks, one by one.
  `writer` and `readers` are the RWMutex; `Lock` is two steps because a writer
  that waits keeps new readers out. `heap[s]` is the map that a `ShareValue`
  registered, of which only the requests that wrote into it matter;
  `rootTpl` is the template under `rootTplMu`.
- **ViteManifest.** The recursion of `walk` is made explicit: `stack` holds its
  running calls and `nextSheet`, `nextImport` their loop variables. `AddOnce` is
  the insertion behind `cssSeen` and `preloadSeen`, `Filtered` the loop that
  leaves the main file out.

Definitions called "wrong variant" are not part of the specifications. Each is
the mutation of the definition that follows it, by which a property is shown
to be able to fail (`mutants` in `PROJECT.json`).

## 3. Runs

| run | bounds | states | shows |
|---|---|---|---|
| `cookie_store` | two calls on one response and one on another, every operation, request with and without cookie, an oversize payload | symmetric in the two calls | no lost update, no double take, no leak, `ResponseAccumulator` implemented |
| `request_lifecycle` | four collector or raw writer calls, two bags, two fields, one key, nine kinds of request, three cookies | every order of them before every reply | the cookie is drained before the commit, once, and is exact |
| `page_visits` | trees of two levels next to one more prop from a catalogue of 16 nodes, two groups, a second page that shares a once key; one page with two entries below a prop | 31 427 | what is asked is sent and marked, the first response is lazy, the page becomes complete |
| `browser_session` | three visits, two bags, one key, two flashes per visit, payloads with the login bag's errors and a message too large, either store, every fault | 2 114 993, symmetric in the visits | until a fault either store is a mailbox; the memory store shows a flash at most once whatever happens; what a cookie store may lose, or show twice, and why; who owns the memory store's entries |
| `render_pipeline` | two renders, two sharers (one with a map), one key, three scenarios of configuration and requests | 266 840 | no map race, no circular wait, every shared prop listed, one template, page or error; every Render and Share ends |
| `vite_manifest` | 3 965 manifests of three names, Tag and CSS, two roots | 154 894 | the walk ends and finds exactly what is reachable, once, imports first |
| `redirect_after_writer_use` | as `request_lifecycle` | | a redirect after a 1xx header loses the flash |
| `redirect_two_default_bags` | as `request_lifecycle` | | two names of the default bag overwrite each other |
| `precognition_default_bag` | as `request_lifecycle` | | 204 although the bag has errors |
| `nested_always` | as `page_visits` | | `Always` below an unselected plain map is not sent |
| `append_without_path` | as `page_visits` | | `Merge(v).Append()` is on no merge list |
| `shared_map_mutated` | as `render_pipeline` | | a handler's dotted key writes into a shared map, and other requests' pages show it |

The last six state a sentence of a doc comment and find it violated by the
code; `findings` in `PROJECT.json` quotes both.

Why the bounds are enough. A race in the store needs two calls that miss in
`Load`, and a third on another response to see that entries are separate; a
call writes at most one object, so a third racer repeats the second.
A handler's four calls reach the longest interesting order: add an error, set
a message, use the writer, use it again. The resolver's rules relate a path to
its ancestors: two levels give a parent and a child of every pair of kinds,
the third path gives a sibling that is selected instead, and the second page
is what a once prop is carried over from and to. Two entries below one prop let
a client hold a map in part; four kinds of parent have them. The catalogue has each
constructor and modifier once, and the callbacks that return `Optional`,
`Defer` or `Scroll`; it leaves out a rescued prop that is also `Once`, and
`.ExpiresIn`. Three visits are what the worst history of a cookie needs: one
that flashes, one that shows it, and a third, sent before, whose late response
restores the old cookie; the second bag is one that no visit of the default bag
takes. A fourth visit is covered by the proofs, which are for any number. Races
for the lock and for the template are between two; two sharers are a waiting
writer behind a writer. Three names give every shape of import graph that
matters: a chain, a diamond's two ways into one name, a cycle with and without
the root, a name that is not in the manifest. One render scenario each has a
required, an optional and no SSR service, and a cached, a `HotReload` and a
`RootRender` root view; the features do not meet but in the order of the calls.

The symmetry of `browser_session` is sound: no definition names a visit, and
its properties are invariants and a refinement without fairness.

Deadlock is checked in `page_visits`, where a client can always reload. It is
not in the others, where a finite set of calls, visits or renders ends. That
`Rendering` does not stop early is `RenderEnds` and `ShareReturns`.

### Fairness

`Rendering` assumes weak fairness of the steps of each render, and of each
Share once it is called: the Go scheduler runs every goroutine that can run,
and the code the library calls (callbacks, the SSR client, which has a timeout,
templates) returns or panics. Nobody has to call Share. Weak fairness suffices
because a waiting writer keeps later readers out, and each sharer calls once;
that `Unlock` hands the lock to the readers that waited is left out, so the
model allows the Go scheduler more than it does. Both properties except
callbacks that call Share themselves (`Reentered`): they wait for a lock their
own goroutine holds.

`ViteManifest` assumes weak fairness of `Next`: the walk is a computation that
waits for nothing.

The others assume none. What a handler does is up to the handler, what follows
its return is one deferred call, and a browser need not visit. That the page
becomes complete is stated as a safety property: whenever nothing is left to
fetch, nothing is missing; likewise `CookieAccounted` says where a flash is,
not that somebody asks for it.

## 4. Proofs

All theorems hold for every value of the constants under the named assumptions
of the modules (`SentinelAssumption` and its like say that the marks for "none"
are not values; `OversizeAssumption` that the empty payload fits, which a
delete-cookie does; `WriterOfAssumption` that a call has one response).

- **CookieStore.** `IInv` adds to `TypeOK` and `OnePayload` which objects are in
  use: a published object belongs to its response and was allocated by a call
  that is past `LoadOrStore` (`ObjectsInv`), what a call holds at each of its
  stages (`StagesInv`), an object not yet published still is the request's
  cookie (`SeedsInv`), and after the flush of a joined handler no call is in
  flight and no entry is left (`JoinsInv`). Without `ObjectsInv` the types alone
  allow a new object to be seeded over one that is in use. From `IInv` follow `TypeOK`, `OnePayload`, `NoEntryAfterFlush`, and the
  refinement: `Mutate` is the abstract `Apply` when its object is the one the
  response will send and `Miss` when the response was closed first, the two
  flush steps are `Close` and `Seal`, the accesses of `ensurePending` stutter.
- **What the store's accumulator holds** (also `CookieStoreProofs`). `ContentInv`
  says of every open response, relative to `IInv`: a bag or key that no returned
  call touched is as in the request's cookie (`SeedOf`); a returned flash that no
  other returned call competes with is there and marked dirty (`FlashedOf`); and
  as long as nobody flashes, what was taken is gone and was handed out once
  (`TakenOf`). Only `Mutate` disturbs it, and only for the response whose object
  it holds, because `IInv` keeps objects of different responses apart and lets
  no call return before the object is published; `AfterEffect` says what each
  call leaves alone. `ReturnedFlashIsPending`, `SeedSurvives` and `TakenOnce`
  follow.
- **RequestLifecycle.** `IInv` says that before the `sync.Once` fires the
  accumulator is exactly the request's payload after the middleware's two takes
  and the header map is empty (`Waiting`), and that afterwards the header map
  holds what that accumulator, or the one the redirect persisted, had to send,
  and the commit saw it (`Sealed`). Each method of `flushWriter` is one of the
  two lemmas `DrainFirst` and `DrainAgain`. All five safety properties of the
  run follow, for handlers of any length (`MaxOps` is only in a guard). `TypeOK`
  is inductive by itself.
- **BrowserSession.** `IInv` ties what a visit took and flashed to its stage
  (`StageInv`), says that a flash is in one entry or with one visit and was
  flashed before (`MemoryInv`), and gives every entry, every id in a request and
  the id in the jar a response that minted it (`OrphanInv`): a visit that was
  sent after the browser had an id carries one and mints none, so two ids mean
  two overlapping visits. From these follow `MemoryTakenOnce` and
  `OrphanOnlyByTwoIds`. The two store calls of the middleware are one lemma
  each about the slots they empty (`Takes`).
- **BrowserSession's cookie** (`BrowserCookieProofs`). `FlashedInv`: what a
  visit flashes is in its accumulator and marks it dirty. `AccountInv`: unless a
  flash that arrived is settled (shown by a delivered visit, or replaced), it is
  in the jar, and every visit in flight that was sent since carries it, took it,
  or has put its own in its place; without the second half the delivery of such
  a visit could drop it. `TakenInv` and `RestoredInv`: only delivered flash is in
  the jar, a visit that took a flash sends a cookie without it, and such a flash
  is back in the jar or in a later visit only if a visit sent before the take
  was delivered after it. `CookieAccounted` and `CookieTakenAgain` follow.
- **The mailbox** (`BrowserMailboxProofs`). Both stores implement `FlashMailbox`.
  The mapping takes the browser's one payload from the accumulator of the visit
  in flight or from the jar, and with a memory store from the entry of the
  browser's id, or of the id that the first visit made. `OwnInv`: an id names
  the visit that made it, and a cookie store makes none. `QuietInv`: until a
  fault the visits in flight carry the browser's id, at most one is in flight
  before there is one, and what a cookie store's visit has not changed is still
  in the jar. Hence all calls meet in one place (`BoxInv`): a flash or a take is
  the mailbox's, and sending, answering and delivering stutter. A step after a
  fault, or one that is a fault, is what the mailbox allows once its promise has
  ended.
- **Rendering.** `IInv`: who holds `sharedMu` is where the goroutines are
  (`MutexInv`), registered keys stay registered (`SharedInv`), a template in use
  is the cached one or about to be compared with it (`TemplateInv`), nothing is
  written before the last step (`ReplyInv`). From it follow `NoMapRace`,
  `SharedListed`, `OneTemplate` and `PageOrError`, and `HolderGoesOn`: a reader
  is never at a place where it waits, a writer that waits does so behind readers
  only, and only a callback that calls Share makes a render a writer. This is
  what the two liveness properties rest on besides fairness.
- **ViteManifest.** `IInv`: the stack is a path of imports from the entry
  (`StackInv`), what the loops have passed is in the result and visited
  (`ProgressInv`), what is visited is in every closed set with the entry and what
  is in the result is there for a visited name (`SoundInv`), and without
  repetition (`DistinctInv`). When the walk ends no visited name is on the
  stack, so the visited set is closed and hence is everything below the entry:
  `SheetsComplete`, `PreloadComplete` and `EachURLOnce`, for every manifest.
  `ImportsFirst` needs two more. Each name on the stack imports, directly or
  not, the ones above it (`ChainInv`): a module that does not import itself is
  not on the stack when a walk for it or below it begins, so when a walk returns
  to it all it imports has been returned from and is in the list. And a file is
  in the list only after the files of the modules it needs (`OrderInv`).

- **PageVisits and the resolver** (`PageVisitsProofs`). `AnswerInv`: the page the
  client shows is the resolver's answer to its last request, over the page's own
  tree and with selectors that are paths. The rest is about that answer, for any
  tree: `WalkArrives` says that if nothing on a path is filtered out or left for
  later, the walk reaches its end or something on it was rescued (it stops at
  the shortest path not sent); `AskedPath` that everything above a selected path
  can be traversed; `OnPathOrdered` that what is on the way to an entry of a
  callback's map lies above the map or in it. From these follow `AskedIsSent`,
  `CallbackMapIsWhole`, `InitialIsLazy` and `AskedIsMerged`. `TypeOK` needs
  `CarriedPaths`: what a client carries over with a once prop has its place in
  the next page, because props with one once key are one prop: same callback,
  same nodes below it (`Consistent`, part of `Init`, since props of the same key
  are what the handlers of one application pass). `TreesAssumption` says what
  the builders of `props.go` accept and that a tree's paths are closed under
  prefixes.
- **The complete page** (`PageIsComplete`). `CompleteInv` has two halves.
  `Whole`: of a map that a callback returned the client has nothing or
  everything, but for what is below something lazy or cacheable further down
  (`Gap`). `Promised`: if nothing was rescued, a path of the page is held, or at
  or below something awaited, or `Excused` as in the property. For a path
  that a response leaves out, the shortest stop on the way to it (`FirstStop`)
  is lazy, and then listed in a deferred group unless optional
  (`LazyIsListed`); or cached, and then still described, so that the client
  keeps it (`CachedIsListed`) with what it had below (`CarriedIsWhole`); or
  rescued. A partial reload adds values and removes from `awaiting` only what it
  brought (`AddKeeps`); a map carried to another page is as whole there as it
  was, because the trees agree below it (`SamePlace`, `PlaceBelow`).

  The exception for a once prop that no callback returned is not for the
  proof's sake. A client that reloads one entry of such a map is told its once
  key and reports it on its next visit; the resolver then skips the map, and the
  entries it was never sent are neither sent nor promised. TLC shows this on
  trees with two entries below one prop. A map that a callback returned is sent
  whole (`CallbackMapIsWhole`) and is safe.

Every invariant that a run checks is proved, and so are both refinements. Only
model-checked are the liveness properties `RenderEnds`, `ShareReturns` and
`Terminates`: liveness and `ENABLED` are out of the prover's reach.

## 5. Not modelled

- The order in which dotted keys are unpacked, and the page object's other
  fields (history and fragment flags, expiry times, `MatchOn`).
- Whether an answer shows what its visit took: a 409 for a new version, and a
  partial reload that does not select the errors prop, drop it. Both are listed
  as hazards.
- A hijacked connection's cookie. The writer drains the session into the header
  map before the hijack, but net/http does not send that map.
- In the manifest: `Asset`, `ReactRefresh` and the development mode, which only
  format; `Load`, which reads a file. `fsVersion`, a hash computed once.
  `ssr.Client.Ping`, which the library never calls.
- The registry of scroll adapters: a slice behind a mutex, first match wins.
- Go's JSON encoding, AES-GCM and HTML output are taken as correct. A
  `rand.Read` that fails and a payload that cannot be marshalled are left out
  of the stores: the cookie store treats them as an oversize payload, the memory
  store falls back to one shared id.
- The default `ErrorHandler` is `http.Error`; an application's own may do
  otherwise.

## 6. Plan

1. Dotted keys in every map order, in `PropsResolver`, which now takes the tree
   as unpacked.
2. A visit's answer in `BrowserSession`: the 409 for a new version and the
   partial reload without the errors prop, which drop what the middleware took.
3. A variant for `collectDeps`, an action property from which `Terminates`
   follows by well-foundedness.
