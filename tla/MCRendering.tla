------------------------------ MODULE MCRendering ------------------------------
EXTENDS Rendering, TLC

CONSTANTS r1, r2, s1, s2, k1

Scenario(mode, root, kind1, kind2) ==
  <<[ssr |-> mode, root |-> root], (r1 :> kind1 @@ r2 :> kind2)>>

\* Two documents that race for the template, one beside a visit, with a
\* template of its own, and one beside a request of an old client.
MCScenarios ==
  {Scenario("required", "cached", "document", "document"),
   Scenario("optional", "hot", "document", "visit"),
   Scenario("none", "RootRender", "document", "stale")}
=============================================================================
