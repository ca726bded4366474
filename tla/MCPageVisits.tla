---------------------------- MODULE MCPageVisits ----------------------------
EXTENDS PageVisits, TLC

CONSTANTS home, other, a, b, x, k, g1, g2

Prop(kind, fn) ==
  [type |-> "builder", kind |-> kind, group |-> g1, always |-> FALSE, fn |-> fn,
   fails |-> FALSE, rescue |-> FALSE, merge |-> FALSE, deepMerge |-> FALSE,
   prependPath |-> {}, appendPath |-> {}, matchOn |-> {},
   once |-> FALSE, alias |-> NoAlias, fresh |-> FALSE]

Only(prop) == [outer |-> prop, inner |-> NoProp]

Always   == [Prop("eager", FALSE) EXCEPT !.always = TRUE]
Optional == Prop("optional", TRUE)
Defer    == Prop("deferred", TRUE)
Merge    == [Prop("eager", TRUE) EXCEPT !.merge = TRUE]
Once     == [Prop("eager", TRUE) EXCEPT !.once = TRUE]
Scroll   == [type |-> "scroll", wrapper |-> x]

\* The props a handler can build, from the constructors and modifiers.
Catalogue ==
  {Only(Plain), Only(Scroll), Only(Always), Only(Optional), Only(Defer), Only(Merge),
   Only([Merge EXCEPT !.fails = TRUE]),
   Only([Merge EXCEPT !.fn = FALSE, !.prependPath = {<<x>>}, !.matchOn = {<<x>>},
                      !.once = TRUE, !.fresh = TRUE]),
   Only([Merge EXCEPT !.appendPath = {<<>>}, !.once = TRUE]),
   Only([Defer EXCEPT !.fails = TRUE, !.rescue = TRUE]),
   Only([Defer EXCEPT !.group = g2, !.deepMerge = TRUE, !.once = TRUE]),
   [outer |-> Always, inner |-> Optional],
   [outer |-> Merge, inner |-> [Defer EXCEPT !.deepMerge = TRUE]],
   [outer |-> Defer, inner |-> Scroll]}

Leaves == {Only([Defer EXCEPT !.group = g2]), Only([Once EXCEPT !.alias = k])}

\* A tree of two levels next to another prop, and a page that shares a once key.
HomeTrees ==
  {t \in {(<<a>> :> m @@ <<a, x>> :> n @@ <<b>> :> l) :
            m \in Catalogue, n \in Catalogue \cup Leaves, l \in Leaves} : WellFormed(t)}

\* A map or array with two entries: a prop's own, or what its callback returns.
Parents ==
  Catalogue \cup
    {Only([Once EXCEPT !.fn = FALSE]), Only(Once), [outer |-> Once, inner |-> Always],
     [outer |-> [Defer EXCEPT !.once = TRUE], inner |-> [Once EXCEPT !.fn = FALSE]]}

ForkTrees ==
  {t \in {(<<a>> :> m @@ <<a, x>> :> n @@ <<a, b>> :> Only(Plain)) :
            m \in Parents, n \in {Only(Plain), Only(Once)} \cup Leaves} : WellFormed(t)}

OtherTrees == {(<<b>> :> Only([Once EXCEPT !.alias = k]))}

MCPropTrees == (home :> HomeTrees \cup ForkTrees @@ other :> OtherTrees)
=============================================================================
