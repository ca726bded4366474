--------------------------- MODULE MCViteManifest ---------------------------
EXTENDS ViteManifest, TLC

CONSTANTS main, n1, n2, f0, f1, f2, s0, s1

Lists(k) == {s \in UNION {[1..i -> Names] : i \in 0..k} : Distinct(s)}

\* A chunk that may have a file of its own, that of the entry point, or none.
Chunk(own, sheets, lists) ==
  {NoEntry} \cup [File : {own, f0, NoFile}, CSS : sheets, Imports : lists]

Main == [File : {f0}, CSS : {<<s1, s0>>}, Imports : {s \in Lists(2) : main \notin Elements(s)}]

MCManifests ==
  {main :> e @@ n1 :> c @@ n2 :> d :
     e \in Main,
     c \in Chunk(f1, {<<>>, <<s0>>}, Lists(2)),
     d \in Chunk(f2, {<<s0>>}, Lists(1))}
=============================================================================
