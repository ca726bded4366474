----------------------------- MODULE PageVisits -----------------------------
(***************************************************************************)
(* A client's page object across the requests that build it: a visit, the  *)
(* partial reloads that fetch what the visit deferred, and reloads of any  *)
(* selection, each answered by the props resolver.                         *)
(*                                                                         *)
(* The client is outside this repository.  It is assumed to do what the    *)
(* headers and the page object are for: it keeps the values of a partial   *)
(* response next to those it has, remembers the once props of its page and *)
(* reports the keys whose values it has, carries such a value over to the  *)
(* next page when that page lists the key, and fetches each deferred group *)
(* by naming its paths.                                                    *)
(***************************************************************************)
EXTENDS PropsResolver

CONSTANTS
  Components,  \* the pages
  PropTrees,   \* trees a handler may pass for each: [Components -> set of trees]
  NoPage       \* the client shows nothing yet

PropsAt(t, p) == {t[p].outer, t[p].inner} \ {NoProp}

\* Once keys are unique on a page, and scroll data is not descended into.
WellFormed(t) ==
  /\ \A p \in DOMAIN t : /\ p \in Seq(Segments) \ {<<>>} /\ t[p] \in Nodes
                         /\ \A m \in PropsAt(t, p) : IsBuilder(m) => Buildable(m)
                         /\ Ancestors(p) \subseteq DOMAIN t
                         /\ \A q \in Ancestors(p) : ~IsScroll(Unwrapped(t[q]))
  /\ \A p, q \in DOMAIN t :
       \A m \in PropsAt(t, p), n \in PropsAt(t, q) :
         p # q /\ IsOnce(m) /\ IsOnce(n) => onceKey(m, p) # onceKey(n, q)

ASSUME TreesAssumption == \A c \in Components : \A t \in PropTrees[c] : WellFormed(t)
ASSUME NoPageAssumption == NoPage \notin Components

\* What is below p in t, by the rest of its path.
Entries(t, p) == {SubSeq(q, Len(p) + 1, Len(q)) : q \in {q \in DOMAIN t : p \in Ancestors(q)}}
Below(t, p) == [s \in Entries(t, p) |-> t[p \o s]]

Cacheable(ts) ==
  UNION {UNION {{<<onceKey(m, p), isClosureProp(Unwrapped(t[p])), Below(t, p)>> :
                  m \in {m \in PropsAt(t, p) : IsOnce(m)}} : p \in DOMAIN t} : t \in ts}

\* Props that share a once key are one prop, on whatever page.
Consistent(ts) == \A u, v \in Cacheable(ts) : u[1] = v[1] => u = v

VARIABLES
  trees,      \* trees[c]: the props of component c
  component,  \* the client's page
  held,       \* paths whose value the client has
  once,       \* pairs of once key and path the client remembers
  awaiting,   \* awaiting[g]: deferred paths of group g it has not fetched
  lost,       \* a prop of the page was rescued
  last        \* the last request and its answer: [kind, headers, page]

vars == <<trees, component, held, once, awaiting, lost, last>>

-----------------------------------------------------------------------------

NoGroups == [g \in Groups |-> {}]

NoAnswer == [values |-> {}, deferred |-> NoGroups, merge |-> [list \in MarkerLists |-> {}],
             once |-> {}, rescued |-> {}]

NoHeaders == [partial |-> FALSE, inertia |-> FALSE, only |-> {}, except |-> {},
              exceptOnce |-> {}, reset |-> {}, scrollPrepend |-> FALSE]

\* X-Inertia-Except-Once-Props: the keys whose values the client has.
ReportedOnce == {e[1] : e \in {e \in once : e[2] \in held}}

\* What the client has of the once prop it remembers as u, at path p.
Moved(u, p) ==
  {p \o SubSeq(q, Len(u[2]) + 1, Len(q)) : q \in {q \in held : StartsWith(q, u[2])}}

\* Values of remembered once props that the next page lists without a value.
Carried(page) ==
  UNION {UNION {Moved(u, e[2]) : u \in {u \in once : u[1] = e[1]}} :
           e \in {e \in page.once : e[2] \notin page.values}}

Init ==
  /\ trees \in {f \in [Components -> UNION {PropTrees[c] : c \in Components}] :
                  /\ \A c \in Components : f[c] \in PropTrees[c]
                  /\ Consistent({f[c] : c \in Components})}
  /\ component = NoPage
  /\ held = {}
  /\ once = {}
  /\ awaiting = NoGroups
  /\ lost = FALSE
  /\ last = [kind |-> "none", headers |-> NoHeaders, page |-> NoAnswer]

\* Render calls the ErrorHandler; the client stays where it is.
Refuse(h) ==
  /\ last' = [kind |-> "refused", headers |-> h, page |-> NoAnswer]
  /\ UNCHANGED <<trees, component, held, once, awaiting, lost>>

\* The first response of a component.
Show(kind, c, h) ==
  LET o == Outcomes(h, trees[c])
      page == Resolved(h, trees[c], o) IN
  \/ Failed(o) /\ Refuse(h)
  \/ /\ ~Failed(o)
     /\ component' = c
     /\ held' = page.values \cup IF h.inertia THEN Carried(page) ELSE {}
     /\ once' = page.once
     /\ awaiting' = page.deferred
     /\ lost' = (page.rescued # {})
     /\ last' = [kind |-> kind, headers |-> h, page |-> page]
     /\ UNCHANGED trees

\* A document request starts a new client.
Document(c) == Show("document", c, NoHeaders)

Visit(c) ==
  /\ component # NoPage
  /\ Show("visit", c, [NoHeaders EXCEPT !.inertia = TRUE, !.exceptOnce = ReportedOnce])

\* A partial response is added to the page.
Add(kind, h, left) ==
  LET o == Outcomes(h, trees[component])
      page == Resolved(h, trees[component], o) IN
  \/ Failed(o) /\ Refuse(h)
  \/ /\ ~Failed(o)
     /\ held' = held \cup page.values
     /\ once' = {u \in once : \A e \in page.once : e[1] # u[1]} \cup page.once
     /\ awaiting' = left
     /\ lost' = (lost \/ page.rescued # {})
     /\ last' = [kind |-> kind, headers |-> h, page |-> page]
     /\ UNCHANGED <<trees, component>>

Partial(only, except) ==
  [NoHeaders EXCEPT !.partial = TRUE, !.inertia = TRUE, !.only = only, !.except = except,
                    !.exceptOnce = ReportedOnce]

\* The follow-up that fetches a deferred group.
FetchGroup(g) ==
  /\ component # NoPage /\ awaiting[g] # {}
  /\ Add("fetch", Partial(awaiting[g], {}), [awaiting EXCEPT ![g] = {}])

Reload(only, except) == Add("reload", Partial(only, except), awaiting)

\* A reload that starts the named props over.
Reset(only) ==
  /\ only # {}
  /\ Add("reload", [Partial(only, {}) EXCEPT !.reset = only], awaiting)

\* Infinite scrolling upwards.
LoadPrevious(p) ==
  /\ IsScroll(Unwrapped(trees[component][p]))
  /\ Add("reload", [Partial({p}, {}) EXCEPT !.scrollPrepend = TRUE], awaiting)

\* A selector that names one path, or none.
Selectors(c) == {{}} \cup {{p} : p \in DOMAIN trees[c]}

Next ==
  \/ \E c \in Components : Document(c) \/ Visit(c)
  \/ \E g \in Groups : FetchGroup(g)
  \/ /\ component # NoPage
     /\ \/ \E only, except \in Selectors(component) : Reload(only, except)
        \/ \E only \in Selectors(component) : Reset(only)
        \/ \E p \in DOMAIN trees[component] : LoadPrevious(p)

Spec == Init /\ [][Next]_vars

-----------------------------------------------------------------------------
(* Properties.                                                             *)

Tree     == trees[component]
Answered == last.kind \notin {"none", "refused"}
Page     == last.page

OnPath(p) == Ancestors(p) \cup {p}

(* The page and what the client knows of it are paths of its own tree, and *)
(* once props are remembered under their own keys.                         *)
TypeOK ==
  /\ component \in Components \cup {NoPage}
  /\ component # NoPage =>
       /\ held \subseteq DOMAIN Tree
       /\ \A e \in once : /\ e[2] \in DOMAIN Tree
                          /\ \E m \in PropsAt(Tree, e[2]) : IsOnce(m) /\ e[1] = onceKey(m, e[2])
       /\ \A g \in Groups : awaiting[g] \subseteq DOMAIN Tree
  /\ lost \in BOOLEAN
  /\ last.headers.partial => last.kind \in {"fetch", "reload", "refused"}

(* A partial reload that succeeds brings everything the client asked for,  *)
(* however deep the path: the value, or the news that it was rescued.      *)
AskedIsSent ==
  Answered /\ last.headers.partial =>
    \A p \in DOMAIN Tree :
      includedInPartialMetadata(last.headers, p)
        => p \in Page.values \/ OnPath(p) \cap Page.rescued # {}

\* The client may have the value of n, and then a visit leaves it out.
Skippable(n) == IsOnce(n.outer) /\ ~n.outer.fresh

(* When every deferred group of the page has been fetched and nothing was  *)
(* rescued, the client has every prop that is not optional: the page that  *)
(* was promised by the first response is complete, also when once props    *)
(* were left out because the client had them.  But what a once prop has    *)
(* below it is not promised again when the once prop is skipped: neither a *)
(* deferred prop, nor the entries of a map that no callback returned, of   *)
(* which the client may have reloaded some only.                           *)
PageComplete ==
  component # NoPage /\ awaiting = NoGroups /\ ~lost =>
    \A p \in DOMAIN Tree :
      \/ p \in held
      \/ \E q \in OnPath(p) : \E m \in PropsAt(Tree, q) :
           IsBuilder(m) /\ m.kind = "optional"
      \/ \E r \in Ancestors(p) : Skippable(Tree[r]) /\
           \/ ~isClosureProp(Unwrapped(Tree[r]))
           \/ \E q \in OnPath(p) : r \in Ancestors(q) /\ \E m \in PropsAt(Tree, q) : IsLazy(m)

(* A first response carries no optional or deferred value, nor anything    *)
(* below one, whether the handler passed the prop or a callback returned it.*)
InitialIsLazy ==
  Answered /\ ~last.headers.partial =>
    \A p \in Page.values : \A q \in OnPath(p) :
      \A m \in PropsAt(Tree, q) : ~IsLazy(m)

(* A prop that the client asked for, without resetting it, and that merges *)
(* into what the client has is marked for merging, at its root or below:   *)
(* unmarked, the client would replace, say, a list by its next page.       *)
(* (What Append without a path does is AppendIsDefault's question.)        *)
AskedIsMerged ==
  Answered /\ last.headers.partial =>
    \A p \in Page.values \ last.headers.reset : LET prop == Unwrapped(Tree[p]) IN
      includedInPartialMetadata(last.headers, p)
        /\ \/ IsScroll(prop)
           \/ IsBuilder(prop) /\ prop.deepMerge
           \/ IsBuilder(prop) /\ prop.merge /\ prop.appendPath # {<<>>}
        => \E list \in MarkerLists \ {"matchPropsOn"} :
             \E target \in Page.merge[list] : StartsWith(target, p)

(* The map that a callback returned is sent whole, also by a reload that   *)
(* named one of its entries only: entries are missing only if rescued.     *)
CallbackMapIsWhole ==
  Answered /\ last.headers.partial =>
    \A p \in Page.values : isClosureProp(Unwrapped(Tree[p])) =>
      \A c \in DOMAIN Tree : p \in Ancestors(c) => 
        c \in Page.values \/ OnPath(c) \cap Page.rescued # {}

-----------------------------------------------------------------------------
(* What the documentation says and the code does not do.                   *)

(* Append without a path is a no-op, as "root append is already the        *)
(* default merge behavior" (props.go:127-128): the prop is marked at its   *)
(* root.                                                                   *)
AppendIsDefault ==
  Answered /\ ~last.headers.partial =>
    \A p \in Page.values : LET prop == Unwrapped(Tree[p]) IN
      IsBuilder(prop) /\ prop.merge /\ prop.appendPath = {<<>>} /\ prop.prependPath = {}
        => p \in Page.merge["mergeProps"]

(* Always "wraps a value so it is included in every Inertia response,      *)
(* regardless of partial-reload selectors" (props.go:44-45), where no      *)
(* lazy, once or rescued prop is above it.                                 *)
AlwaysIncluded ==
  Answered =>
    \A p \in DOMAIN Tree :
      /\ alwaysIncluded(Tree[p].outer) /\ Tree[p].inner = NoProp
      /\ \A q \in Ancestors(p) : Tree[q].outer = Plain
      => p \in Page.values
=============================================================================
