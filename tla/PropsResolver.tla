---------------------------- MODULE PropsResolver ----------------------------
(***************************************************************************)
(* resolver.go: from a tree of props and the headers of a request to the   *)
(* page object.                                                            *)
(*                                                                         *)
(* A tree is a function from dot paths (sequences of segments, closed      *)
(* under prefixes) to nodes; the node at p holds what its map or array     *)
(* entry is, [outer |-> prop, inner |-> prop or NoProp], where inner is    *)
(* the prop-type that evaluating outer returns, if any.  The nodes right   *)
(* below p are the entries of the map or array that p evaluates to.  The   *)
(* walk visits every node whose ancestors were all resolved and descended  *)
(* into, so what it does at p is stated for p directly.  Values are        *)
(* opaque, expiry times and the fields of MatchOn are left out.            *)
(***************************************************************************)
EXTENDS Naturals, Sequences

CONSTANTS
  Segments,  \* keys of maps and indices of arrays
  Aliases,   \* Once cache keys given with .As
  Groups,    \* labels of deferred groups
  NoProp,    \* the evaluated value is not a prop-type
  NoAlias    \* a once prop without .As is cached under its path

ASSUME NoAliasAssumption == NoAlias \notin Aliases

\* The props: a plain Go value, a *propBuilder, a *scrollProp.  `fn` says that
\* a builder evaluates a callback, `fails` that the callback returns an error.
Plain == [type |-> "plain"]

\* The paths of Prepend, Append and MatchOn are relative to the prop; its root
\* is the empty path, as joinPath has it.
Builders ==
  [type : {"builder"}, kind : {"eager", "optional", "deferred"}, group : Groups,
   always : BOOLEAN, fn : BOOLEAN, fails : BOOLEAN, rescue : BOOLEAN,
   merge : BOOLEAN, deepMerge : BOOLEAN, prependPath : SUBSET Seq(Segments),
   appendPath : SUBSET Seq(Segments), matchOn : SUBSET Seq(Segments),
   once : BOOLEAN, alias : Aliases \cup {NoAlias}, fresh : BOOLEAN]

Scrolls == [type : {"scroll"}, wrapper : Segments]

Props == Builders \cup Scrolls \cup {Plain}
ASSUME NoPropAssumption == NoProp \notin Props

Nodes == [outer : Props, inner : Builders \cup Scrolls \cup {NoProp}]

\* What the constructors and modifiers let a builder be; they panic on the rest.
Buildable(b) ==
  /\ b.merge => ~b.deepMerge /\ b.kind = "eager" /\ ~b.always
  /\ ~b.merge /\ ~b.deepMerge => b.prependPath \cup b.appendPath \cup b.matchOn = {}
  /\ b.rescue => b.kind = "deferred"
  /\ b.always => b.kind = "eager" /\ ~b.fn
  /\ b.kind # "eager" => b.fn
  /\ b.fails => b.fn
  /\ b.alias # NoAlias \/ b.fresh => b.once

\* What parseRequestInfo and Render put into the propsResolver.
\* An empty `only` is the nil one.
Headers ==
  [partial : BOOLEAN, inertia : BOOLEAN, only : SUBSET Seq(Segments),
   except : SUBSET Seq(Segments), exceptOnce : SUBSET (Aliases \cup Seq(Segments)),
   reset : SUBSET Seq(Segments), scrollPrepend : BOOLEAN]

-----------------------------------------------------------------------------
(* Paths and selectors.                                                    *)

StartsWith(p, s) == Len(s) <= Len(p) /\ SubSeq(p, 1, Len(s)) = s

Ancestors(p) == {SubSeq(p, 1, n) : n \in 1..(Len(p) - 1)}

matchesPath(set, p) == \E s \in set : StartsWith(p, s)
leadsToPath(set, p) == \E s \in set : s # p /\ StartsWith(s, p)

\* Wrong variant: a requested leaf does not make its ancestors traversable.
pathMatchesLeafOnly(h, p) ==
  /\ h.only # {} => matchesPath(h.only, p)
  /\ ~matchesPath(h.except, p)

pathMatches(h, p) ==
  /\ h.only # {} => matchesPath(h.only, p) \/ leadsToPath(h.only, p)
  /\ ~matchesPath(h.except, p)

includedInPartialMetadata(h, p) ==
  /\ h.only # {} => matchesPath(h.only, p)
  /\ ~matchesPath(h.except, p)

-----------------------------------------------------------------------------
(* One node.                                                               *)

IsBuilder(prop) == prop.type = "builder"
alwaysIncluded(prop) == IsBuilder(prop) /\ prop.always
IsScroll(prop)       == prop.type = "scroll"
isClosureProp(prop)  == IsScroll(prop) \/ (IsBuilder(prop) /\ prop.fn)
Fails(prop)          == IsBuilder(prop) /\ prop.fails
isRescuable(prop)    == IsBuilder(prop) /\ prop.rescue
IsOnce(prop)         == IsBuilder(prop) /\ prop.once
IsLazy(prop)         == IsBuilder(prop) /\ prop.kind \in {"optional", "deferred"}

\* The prop whose value is sent: a prop-type returned by a callback is
\* unwrapped one level.
Unwrapped(n) == IF n.inner = NoProp THEN n.outer ELSE n.inner

onceKey(prop, p) == IF prop.alias = NoAlias THEN p ELSE prop.alias

shouldSkipOnce(h, prop, p) ==
  IsOnce(prop) /\ onceKey(prop, p) \in h.exceptOnce /\ ~prop.fresh

\* Wrong variant: an ancestor's callback does not exempt what it returned.
UnderClosureNever(t, p) == FALSE

\* parentResolved: a callback returned the map that p is in, or one above it.
UnderClosure(t, p) == \E q \in Ancestors(p) : isClosureProp(Unwrapped(t[q]))

shouldInclude(h, t, p) ==
  ~h.partial \/ alwaysIncluded(t[p].outer) \/ UnderClosure(t, p) \/ pathMatches(h, p)

OutcomeAfterEval(prop) ==
  IF ~Fails(prop) THEN "sent" ELSE IF isRescuable(prop) THEN "rescued" ELSE "failed"

\* Wrong variant: the prop a callback returns is not checked for laziness.
resolveItemEagerInner(h, t, p) ==
  LET n == t[p] IN
  IF ~shouldInclude(h, t, p) THEN "filtered"
  ELSE IF ~h.partial /\ h.inertia /\ shouldSkipOnce(h, n.outer, p) THEN "cached"
  ELSE IF ~h.partial /\ IsLazy(n.outer) THEN "lazy"
  ELSE IF Fails(n.outer) \/ n.inner = NoProp THEN OutcomeAfterEval(n.outer)
  ELSE OutcomeAfterEval(n.inner)

\* What resolveItem does with the node at p, once the walk gets there.
resolveItem(h, t, p) ==
  LET n == t[p] IN
  IF ~shouldInclude(h, t, p) THEN "filtered"
  ELSE IF ~h.partial /\ h.inertia /\ shouldSkipOnce(h, n.outer, p) THEN "cached"
  ELSE IF ~h.partial /\ IsLazy(n.outer) THEN "lazy"
  ELSE IF Fails(n.outer) \/ n.inner = NoProp THEN OutcomeAfterEval(n.outer)
  ELSE IF ~h.partial /\ IsLazy(n.inner) THEN "lazy"
  ELSE OutcomeAfterEval(n.inner)

-----------------------------------------------------------------------------
(* The walk.                                                               *)

\* The outcome of the node at p, had the walk got there.
Items(h, t) == [p \in DOMAIN t |-> resolveItem(h, t, p)]

\* It gets to p if every value above p was sent and descended into, which the
\* value of a scroll prop is not.
Reached(t, items, p) ==
  \A q \in Ancestors(p) : items[q] = "sent" /\ ~IsScroll(Unwrapped(t[q]))

Outcomes(h, t) ==
  LET items == Items(h, t) IN
  [p \in DOMAIN t |-> IF Reached(t, items, p) THEN items[p] ELSE "unreached"]

With(o, outcomes) == {p \in DOMAIN o : o[p] \in outcomes}

\* Wrong variant: a skipped once prop leaves no metadata.
DescribedPathsWithoutCached(o) == With(o, {"sent", "lazy"})

\* What excludeFromInitial and collectMetadata describe to the client, and the
\* prop they look at.
DescribedPaths(o) == With(o, {"sent", "lazy", "cached"})

Described(t, o, p) ==
  CASE o[p] = "cached" -> t[p].outer
    [] o[p] = "lazy"   -> IF IsLazy(t[p].outer) THEN t[p].outer ELSE t[p].inner
    [] OTHER           -> Unwrapped(t[p])

\* The lists of the page object that the prop at p puts paths on.
PropMarkers(h, prop, p) ==
  IF IsScroll(prop)
  THEN [mergeProps   |-> IF h.scrollPrepend THEN {} ELSE {Append(p, prop.wrapper)},
        prependProps |-> IF h.scrollPrepend THEN {Append(p, prop.wrapper)} ELSE {},
        deepMergeProps |-> {}, matchPropsOn |-> {}]
  ELSE LET nested == prop.prependPath \cup prop.appendPath # {} IN
       [mergeProps     |-> (IF prop.merge /\ ~nested THEN {p} ELSE {})
                             \cup {p \o sub : sub \in prop.appendPath \ {<<>>}},
        prependProps   |-> {p \o sub : sub \in prop.prependPath},
        deepMergeProps |-> IF prop.deepMerge THEN {p} ELSE {},
        matchPropsOn   |-> {p \o sub : sub \in prop.matchOn}]

MarkerLists == {"mergeProps", "prependProps", "deepMergeProps", "matchPropsOn"}

\* Wrong variant: a partial response, which has the values, has no markers.
MergeMarkersInitialOnly(h, t, o) ==
  [list \in MarkerLists |->
     UNION {PropMarkers(h, Described(t, o, p), p)[list] : p \in
              {p \in DescribedPaths(o) \ h.reset : ~h.partial /\ Described(t, o, p) # Plain}}]

\* Scroll targets are listed whatever the selectors; the rest is not listed for
\* a path that was only traversed.
MergeMarkers(h, t, o) ==
  [list \in MarkerLists |->
     UNION {PropMarkers(h, Described(t, o, p), p)[list] : p \in
              {p \in DescribedPaths(o) \ h.reset :
                 \/ IsScroll(Described(t, o, p))
                 \/ /\ IsBuilder(Described(t, o, p))
                    /\ h.partial => includedInPartialMetadata(h, p)}}]

\* Wrong variant: an alias is not looked at.
OnceMarkersByPath(h, t, o) ==
  {<<p, p>> : p \in {p \in DescribedPaths(o) : IsOnce(Described(t, o, p))}}

\* onceProps, as pairs of cache key and path.
OnceMarkers(h, t, o) ==
  {<<onceKey(Described(t, o, p), p), p>> : p \in
     {p \in DescribedPaths(o) : /\ IsOnce(Described(t, o, p))
                                /\ h.partial => includedInPartialMetadata(h, p)}}

\* deferredProps.
DeferredGroups(t, o) ==
  [g \in Groups |-> {p \in With(o, {"lazy"}) : /\ Described(t, o, p).kind = "deferred"
                                              /\ Described(t, o, p).group = g}]

\* resolve fails as a whole on the first error that no Rescue covers.
Failed(o) == With(o, {"failed"}) # {}

Resolved(h, t, o) ==
  [values   |-> With(o, {"sent"}),
   deferred |-> DeferredGroups(t, o),
   merge    |-> MergeMarkers(h, t, o),
   once     |-> OnceMarkers(h, t, o),
   rescued  |-> With(o, {"rescued"})]
=============================================================================
