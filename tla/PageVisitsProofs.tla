-------------------------- MODULE PageVisitsProofs --------------------------
(***************************************************************************)
(* Theorems about PageVisits and the resolver it calls, for every tree of  *)
(* props, every selection and every sequence of requests.                  *)
(***************************************************************************)
EXTENDS PageVisits, SequenceTheorems, WellFoundedInduction, TLAPS

-----------------------------------------------------------------------------
(* Paths.                                                                  *)

LEMMA PrefixSeq ==
  ASSUME NEW p \in Seq(Segments), NEW n \in 0..Len(p)
  PROVE  /\ SubSeq(p, 1, n) \in Seq(Segments)
         /\ Len(SubSeq(p, 1, n)) = n
         /\ \A i \in 1..n : SubSeq(p, 1, n)[i] = p[i]
<1>1. \A i \in 1..n : p[i] \in Segments
  OBVIOUS
<1> QED  BY <1>1, SubSeqProperties

\* StartsWith and Ancestors, entry by entry.
LEMMA StartsWithEntries ==
  ASSUME NEW p \in Seq(Segments), NEW s \in Seq(Segments)
  PROVE  StartsWith(p, s) <=> Len(s) <= Len(p) /\ \A i \in 1..Len(s) : s[i] = p[i]
<1>1. Len(s) <= Len(p) => Len(s) \in 0..Len(p)
  OBVIOUS
<1>2. Len(s) <= Len(p) =>
        /\ SubSeq(p, 1, Len(s)) \in Seq(Segments)
        /\ Len(SubSeq(p, 1, Len(s))) = Len(s)
        /\ \A i \in 1..Len(s) : SubSeq(p, 1, Len(s))[i] = p[i]
  BY <1>1, PrefixSeq
<1>3. Len(s) <= Len(p) =>
        (SubSeq(p, 1, Len(s)) = s <=> \A i \in 1..Len(s) : s[i] = p[i])
  BY <1>2, SeqEqual
<1> QED  BY <1>3 DEF StartsWith

LEMMA AncestorEntries ==
  ASSUME NEW p \in Seq(Segments)
  PROVE  /\ Ancestors(p) \subseteq Seq(Segments)
         /\ \A q \in Seq(Segments) :
              q \in Ancestors(p) <=> /\ 1 <= Len(q) /\ Len(q) < Len(p)
                                     /\ StartsWith(p, q)
<1>1. \A n \in 1..(Len(p) - 1) : n \in 0..Len(p)
  OBVIOUS
<1>2. Ancestors(p) \subseteq Seq(Segments)
  BY <1>1, PrefixSeq DEF Ancestors
<1>3. ASSUME NEW q \in Seq(Segments), q \in Ancestors(p)
      PROVE  1 <= Len(q) /\ Len(q) < Len(p) /\ StartsWith(p, q)
  <2>1. PICK n \in 1..(Len(p) - 1) : q = SubSeq(p, 1, n)
    BY <1>3 DEF Ancestors
  <2>2. Len(q) = n
    BY <1>1, <2>1, PrefixSeq
  <2> QED  BY <2>1, <2>2 DEF StartsWith
<1>4. ASSUME NEW q \in Seq(Segments), 1 <= Len(q), Len(q) < Len(p), StartsWith(p, q)
      PROVE  q \in Ancestors(p)
  <2>1. Len(q) \in 1..(Len(p) - 1) /\ SubSeq(p, 1, Len(q)) = q
    BY <1>4 DEF StartsWith
  <2> QED  BY <2>1 DEF Ancestors
<1> QED  BY <1>2, <1>3, <1>4

LEMMA StartsWithNests ==
  ASSUME NEW p \in Seq(Segments), NEW q \in Seq(Segments), NEW r \in Seq(Segments),
         StartsWith(p, q), StartsWith(q, r)
  PROVE  StartsWith(p, r)
<1>1. /\ Len(q) <= Len(p) /\ \A i \in 1..Len(q) : q[i] = p[i]
      /\ Len(r) <= Len(q) /\ \A i \in 1..Len(r) : r[i] = q[i]
  BY StartsWithEntries
<1>2. Len(r) \in Nat /\ Len(q) \in Nat /\ Len(p) \in Nat
  BY LenProperties
<1>3. Len(r) <= Len(p) /\ \A i \in 1..Len(r) : r[i] = p[i]
  BY <1>1, <1>2
<1> QED  BY <1>3, StartsWithEntries

\* What is above an ancestor of p is above p.
LEMMA AncestorsNest ==
  ASSUME NEW p \in Seq(Segments), NEW q \in Ancestors(p)
  PROVE  Ancestors(q) \subseteq Ancestors(p)
<1> SUFFICES ASSUME NEW r \in Ancestors(q) PROVE r \in Ancestors(p)
  OBVIOUS
<1>1. q \in Seq(Segments) /\ Len(q) < Len(p) /\ StartsWith(p, q)
  BY AncestorEntries
<1>2. r \in Seq(Segments) /\ 1 <= Len(r) /\ Len(r) < Len(q) /\ StartsWith(q, r)
  BY <1>1, AncestorEntries
<1>3. StartsWith(p, r)
  BY <1>1, <1>2, StartsWithNests
<1> QED  BY <1>1, <1>2, <1>3, AncestorEntries

\* Two ancestors of one path, or it and an ancestor, are ordered.
LEMMA OnPathOrdered ==
  ASSUME NEW p \in Seq(Segments), NEW q \in Ancestors(p), NEW r \in OnPath(p)
  PROVE  r \in OnPath(q) \/ q \in Ancestors(r)
<1>1. q \in Seq(Segments) /\ 1 <= Len(q) /\ Len(q) < Len(p) /\ StartsWith(p, q)
  BY AncestorEntries
<1>2. r \in Seq(Segments) /\ StartsWith(p, r) /\ 1 <= Len(r)
  BY <1>1, AncestorEntries, StartsWithEntries DEF OnPath
<1>3. CASE Len(q) < Len(r)
  BY <1>1, <1>2, <1>3, StartsWithEntries, AncestorEntries
<1>4. CASE Len(r) < Len(q)
  BY <1>1, <1>2, <1>4, StartsWithEntries, AncestorEntries DEF OnPath
<1>5. CASE Len(r) = Len(q)
  <2>1. \A i \in 1..Len(r) : r[i] = q[i]
    BY <1>1, <1>2, <1>5, StartsWithEntries
  <2> QED  BY <1>1, <1>2, <1>5, <2>1, SeqEqual DEF OnPath
<1> QED  BY <1>1, <1>2, <1>3, <1>4, <1>5

\* A set of paths that is not empty has a shortest one.
LEMMA Shortest ==
  ASSUME NEW T \in SUBSET Seq(Segments), T # {}
  PROVE  \E x \in T : \A y \in T : Len(x) <= Len(y)
<1> DEFINE L == {Len(x) : x \in T}
           R == OpToRel(<, Nat)
<1>1. \A x \in T : Len(x) \in Nat
  BY LenProperties
<1>2. L \subseteq Nat /\ L # {}
  BY <1>1
<1>3. IsWellFoundedOn(R, Nat)
  BY NatLessThanWellFounded
<1>4. \A m, k \in Nat : m < k => <<m, k>> \in R
  BY DEF OpToRel
<1> HIDE DEF R
<1>5. \E n \in L : \A m \in L : <<m, n>> \notin R
  <2> HIDE DEF L
  <2> QED  BY <1>2, <1>3, WFMin
<1>6. PICK x \in T : \A y \in T : <<Len(y), Len(x)>> \notin R
  BY <1>5
<1>7. \A y \in T : ~(Len(y) < Len(x))
  BY <1>1, <1>4, <1>6
<1> QED  BY <1>1, <1>7

\* A path that starts with u is u and the rest.
LEMMA RestOfPath ==
  ASSUME NEW u \in Seq(Segments), NEW q \in Seq(Segments), StartsWith(q, u)
  PROVE  /\ SubSeq(q, Len(u) + 1, Len(q)) \in Seq(Segments)
         /\ u \o SubSeq(q, Len(u) + 1, Len(q)) = q
<1>1. Len(u) \in Nat /\ Len(q) \in Nat /\ Len(u) <= Len(q) /\ SubSeq(q, 1, Len(u)) = u
  BY LenProperties DEF StartsWith
<1>2. SubSeq(q, 1, Len(u)) \o SubSeq(q, Len(u) + 1, Len(q)) = SubSeq(q, 1, Len(q))
  <2>1. 1 \in 1..Len(q) + 1 /\ Len(u) \in 1 - 1..Len(q) /\ Len(q) \in Len(u)..Len(q)
    BY <1>1
  <2> QED  BY <2>1, ConcatAdjacentSubSeq
<1>3. \A i \in Len(u) + 1..Len(q) : q[i] \in Segments
  BY <1>1
<1> QED  BY <1>1, <1>2, <1>3, SubSeqFull, SubSeqProperties

LEMMA Longer ==
  ASSUME NEW u \in Seq(Segments), NEW s \in Seq(Segments)
  PROVE  /\ u \o s \in Seq(Segments) /\ Len(u \o s) = Len(u) + Len(s)
         /\ StartsWith(u \o s, u)
         /\ SubSeq(u \o s, Len(u) + 1, Len(u \o s)) = s
<1>1. /\ u \o s \in Seq(Segments) /\ Len(u \o s) = Len(u) + Len(s)
      /\ \A i \in 1..Len(u) + Len(s) :
           (u \o s)[i] = IF i <= Len(u) THEN u[i] ELSE s[i - Len(u)]
  BY ConcatProperties
<1>2. Len(u) \in Nat /\ Len(s) \in Nat
  BY LenProperties
<1>3. Len(u) <= Len(u \o s) /\ \A i \in 1..Len(u) : u[i] = (u \o s)[i]
  BY <1>1, <1>2
<1>4. StartsWith(u \o s, u)
  BY <1>1, <1>3, StartsWithEntries
<1> DEFINE r == SubSeq(u \o s, Len(u) + 1, Len(u \o s))
<1>5. r \in Seq(Segments) /\ u \o r = u \o s
  BY <1>1, <1>4, RestOfPath
<1>6. r = s
  <2> HIDE DEF r
  <2> QED  BY <1>5, ConcatSimplifications
<1> QED  BY <1>1, <1>4, <1>6

\* What is above what, below u.
LEMMA AncestorsBelow ==
  ASSUME NEW u \in Seq(Segments) \ {<<>>}, NEW s \in Seq(Segments), NEW z \in Seq(Segments)
  PROVE  /\ u \o z \in Ancestors(u \o s) <=> Len(z) < Len(s) /\ StartsWith(s, z)
         /\ u \o z \in OnPath(u \o s) <=> StartsWith(s, z)
<1> DEFINE us == u \o s
           uz == u \o z
<1>1. /\ us \in Seq(Segments) /\ Len(us) = Len(u) + Len(s)
      /\ \A i \in 1..Len(u) + Len(s) :
           us[i] = IF i <= Len(u) THEN u[i] ELSE s[i - Len(u)]
  BY ConcatProperties
<1>2. /\ uz \in Seq(Segments) /\ Len(uz) = Len(u) + Len(z)
      /\ \A i \in 1..Len(u) + Len(z) :
           uz[i] = IF i <= Len(u) THEN u[i] ELSE z[i - Len(u)]
  BY ConcatProperties
<1>3. Len(u) \in Nat \ {0} /\ Len(s) \in Nat /\ Len(z) \in Nat
  BY EmptySeq, LenProperties
<1>4. uz = us => z = s
  BY ConcatSimplifications
<1>5. z = s => uz = us
  OBVIOUS
<1> HIDE DEF us, uz
<1>6. StartsWith(us, uz) <=> Len(uz) <= Len(us) /\ \A i \in 1..Len(uz) : uz[i] = us[i]
  BY <1>1, <1>2, StartsWithEntries
<1>7. StartsWith(us, uz) <=> StartsWith(s, z)
  <2>1. ASSUME StartsWith(us, uz) PROVE StartsWith(s, z)
    <3>1. Len(z) <= Len(s)
      BY <1>1, <1>2, <1>3, <1>6, <2>1
    <3>2. ASSUME NEW i \in 1..Len(z) PROVE z[i] = s[i]
      <4>1. /\ i + Len(u) \in 1..Len(u) + Len(z) /\ i + Len(u) \in 1..Len(u) + Len(s)
            /\ ~(i + Len(u) <= Len(u)) /\ i + Len(u) - Len(u) = i
        BY <1>3, <3>1
      <4>2. uz[i + Len(u)] = us[i + Len(u)]
        BY <1>2, <1>6, <2>1, <4>1
      <4>3. uz[i + Len(u)] = z[i]
        BY <1>2, <4>1
      <4>4. us[i + Len(u)] = s[i]
        BY <1>1, <4>1
      <4> QED  BY <4>2, <4>3, <4>4
    <3> QED  BY <3>1, <3>2, StartsWithEntries
  <2>2. ASSUME StartsWith(s, z) PROVE StartsWith(us, uz)
    <3>1. Len(z) <= Len(s) /\ \A i \in 1..Len(z) : z[i] = s[i]
      BY <2>2, StartsWithEntries
    <3>2. ASSUME NEW i \in 1..Len(u) + Len(z) PROVE uz[i] = us[i]
      <4>1. i \in 1..Len(u) + Len(s) /\ (~(i <= Len(u)) => i - Len(u) \in 1..Len(z))
        BY <1>3, <3>1
      <4> QED  BY <1>1, <1>2, <3>1, <4>1
    <3> QED  BY <1>1, <1>2, <1>3, <1>6, <3>1, <3>2
  <2> QED  BY <2>1, <2>2
<1>8. uz \in Ancestors(us) <=> Len(z) < Len(s) /\ StartsWith(s, z)
  <2>1. /\ 1 <= Len(uz)
        /\ Len(uz) < Len(us) <=> Len(z) < Len(s)
    BY <1>1, <1>2, <1>3
  <2>2. uz \in Ancestors(us) <=> 1 <= Len(uz) /\ Len(uz) < Len(us) /\ StartsWith(us, uz)
    BY <1>1, <1>2, AncestorEntries
  <2> QED  BY <1>7, <2>1, <2>2
<1>9. StartsWith(s, z) /\ ~(Len(z) < Len(s)) => z = s
  <2> SUFFICES ASSUME StartsWith(s, z), ~(Len(z) < Len(s)) PROVE z = s
    OBVIOUS
  <2>1. Len(z) = Len(s) /\ \A i \in 1..Len(z) : z[i] = s[i]
    BY <1>3, StartsWithEntries
  <2> QED  BY <2>1, SeqEqual
<1>10. StartsWith(s, s)
  BY <1>3, StartsWithEntries
<1>11. uz \in OnPath(us) <=> StartsWith(s, z)
  <2>1. uz \in OnPath(us) <=> uz \in Ancestors(us) \/ uz = us
    BY DEF OnPath
  <2> QED  BY <1>4, <1>5, <1>8, <1>9, <1>10, <2>1
<1> QED  BY <1>8, <1>11 DEF us, uz

-----------------------------------------------------------------------------
(* The walk.                                                               *)

LEMMA TreePaths ==
  ASSUME NEW t, WellFormed(t), NEW p \in DOMAIN t
  PROVE  /\ p \in Seq(Segments) \ {<<>>} /\ t[p] \in Nodes
         /\ OnPath(p) \subseteq DOMAIN t
         /\ OnPath(p) \subseteq Seq(Segments)
         /\ \A q \in Ancestors(p) : ~IsScroll(Unwrapped(t[q]))
         /\ \A m \in PropsAt(t, p) : IsBuilder(m) => Buildable(m)
BY DEF WellFormed, OnPath

LEMMA EntriesBelow ==
  ASSUME NEW t, WellFormed(t), NEW u \in DOMAIN t, NEW s \in Seq(Segments) \ {<<>>}
  PROVE  s \in Entries(t, u) <=> u \o s \in DOMAIN t
<1>1. u \in Seq(Segments) /\ u # <<>> /\ Len(u) \in Nat \ {0} /\ Len(s) \in Nat \ {0}
  BY TreePaths, EmptySeq
<1>2. ASSUME s \in Entries(t, u) PROVE u \o s \in DOMAIN t
  <2>1. PICK q \in DOMAIN t : u \in Ancestors(q) /\ s = SubSeq(q, Len(u) + 1, Len(q))
    BY <1>2 DEF Entries
  <2>2. q \in Seq(Segments)
    BY TreePaths
  <2>3. StartsWith(q, u)
    BY <1>1, <2>1, <2>2, AncestorEntries
  <2> QED  BY <1>1, <2>1, <2>2, <2>3, RestOfPath
<1>3. ASSUME u \o s \in DOMAIN t PROVE s \in Entries(t, u)
  <2>1. /\ u \o s \in Seq(Segments) /\ Len(u \o s) = Len(u) + Len(s)
        /\ StartsWith(u \o s, u)
        /\ SubSeq(u \o s, Len(u) + 1, Len(u \o s)) = s
    BY <1>1, Longer
  <2> DEFINE q == u \o s
  <2>2. /\ q \in DOMAIN t /\ q \in Seq(Segments) /\ Len(q) = Len(u) + Len(s)
        /\ StartsWith(q, u) /\ s = SubSeq(q, Len(u) + 1, Len(q))
    BY <1>3, <2>1
  <2> HIDE DEF q
  <2>3. u \in Ancestors(q)
    BY <1>1, <2>2, AncestorEntries
  <2> QED  BY <2>2, <2>3 DEF Entries
<1> QED  BY <1>2, <1>3

LEMMA SameBelow ==
  ASSUME NEW t, WellFormed(t), NEW u \in DOMAIN t, NEW w, WellFormed(w), NEW v \in DOMAIN w,
         Below(t, u) = Below(w, v), NEW s \in Seq(Segments) \ {<<>>}
  PROVE  /\ u \o s \in DOMAIN t <=> v \o s \in DOMAIN w
         /\ u \o s \in DOMAIN t => t[u \o s] = w[v \o s]
<1>1. DOMAIN Below(t, u) = Entries(t, u) /\ DOMAIN Below(w, v) = Entries(w, v)
  BY DEF Below
<1>2. Entries(t, u) = Entries(w, v)
  BY <1>1
<1>3. s \in Entries(t, u) => Below(t, u)[s] = t[u \o s] /\ Below(w, v)[s] = w[v \o s]
  BY <1>2 DEF Below
<1> QED  BY <1>2, <1>3, EntriesBelow

\* Everything above a value that is sent was sent.
LEMMA SentPath ==
  ASSUME NEW h, NEW t, WellFormed(t), NEW p \in With(Outcomes(h, t), {"sent"}),
         NEW q \in OnPath(p)
  PROVE  p \in DOMAIN t /\ resolveItem(h, t, q) = "sent"
<1>1. p \in DOMAIN t /\ Outcomes(h, t)[p] = "sent"
  BY DEF With, Outcomes
<1>2. Reached(t, Items(h, t), p) /\ Items(h, t)[p] = "sent"
  BY <1>1 DEF Outcomes
<1>3. q \in DOMAIN t
  BY <1>1, TreePaths
<1>4. Items(h, t)[q] = "sent"
  BY <1>2 DEF Reached, OnPath
<1> QED  BY <1>1, <1>3, <1>4 DEF Items

\* The walk stops at the shortest path that is not sent.
LEMMA WalkStops ==
  ASSUME NEW h, NEW t, WellFormed(t), NEW p \in DOMAIN t,
         p \notin With(Outcomes(h, t), {"sent"})
  PROVE  \E x \in OnPath(p) : /\ x \in DOMAIN t /\ resolveItem(h, t, x) # "sent"
                             /\ x \in With(Outcomes(h, t), {resolveItem(h, t, x)})
<1> DEFINE items == Items(h, t)
           T == {q \in OnPath(p) : items[q] # "sent"}
<1>1. /\ p \in Seq(Segments)
      /\ OnPath(p) \subseteq DOMAIN t /\ OnPath(p) \subseteq Seq(Segments)
      /\ \A q \in Ancestors(p) : ~IsScroll(Unwrapped(t[q]))
  BY TreePaths
<1>2. ASSUME NEW x \in OnPath(p), \A y \in Ancestors(x) : items[y] = "sent"
      PROVE  Outcomes(h, t)[x] = items[x] /\ DOMAIN Outcomes(h, t) = DOMAIN t
  <2>1. Ancestors(x) \subseteq Ancestors(p)
    BY <1>1, AncestorsNest DEF OnPath
  <2>2. Reached(t, items, x)
    BY <1>1, <1>2, <2>1 DEF Reached
  <2> QED  BY <1>1, <2>2 DEF Outcomes
<1>3. ASSUME T = {} PROVE FALSE
  <2>1. \A y \in Ancestors(p) : items[y] = "sent"
    BY <1>3 DEF OnPath
  <2>2. p \in OnPath(p) /\ items[p] = "sent"
    BY <1>3 DEF OnPath
  <2>3. Outcomes(h, t)[p] = items[p] /\ DOMAIN Outcomes(h, t) = DOMAIN t
    BY <1>2, <2>1, <2>2
  <2> QED  BY <2>2, <2>3 DEF With
<1>4. PICK x \in T : \A y \in T : Len(x) <= Len(y)
  BY <1>1, <1>3, Shortest
<1>5. x \in OnPath(p) /\ items[x] # "sent" /\ x \in Seq(Segments) /\ x \in DOMAIN t
  BY <1>1
<1>6. \A y \in Ancestors(x) : items[y] = "sent"
  <2> SUFFICES ASSUME NEW y \in Ancestors(x), items[y] # "sent" PROVE FALSE
    OBVIOUS
  <2>1. y \in OnPath(p)
    BY <1>1, <1>5, AncestorsNest DEF OnPath
  <2>2. Len(y) < Len(x) /\ y \in Seq(Segments)
    BY <1>5, AncestorEntries
  <2>3. Len(x) <= Len(y)
    BY <1>4, <2>1
  <2> QED  BY <1>5, <2>2, <2>3, LenProperties
<1>7. Outcomes(h, t)[x] = items[x] /\ DOMAIN Outcomes(h, t) = DOMAIN t
  BY <1>2, <1>5, <1>6
<1> QED  BY <1>5, <1>7 DEF With, Items

\* If nothing on the path of p is filtered out or left for later, p is sent,
\* unless something on its path was rescued.
LEMMA WalkArrives ==
  ASSUME NEW h, NEW t, WellFormed(t), ~Failed(Outcomes(h, t)), NEW p \in DOMAIN t,
         \A q \in OnPath(p) : resolveItem(h, t, q) \in {"sent", "rescued", "failed"}
  PROVE  \/ p \in With(Outcomes(h, t), {"sent"})
         \/ OnPath(p) \cap With(Outcomes(h, t), {"rescued"}) # {}
<1> SUFFICES ASSUME p \notin With(Outcomes(h, t), {"sent"})
             PROVE  OnPath(p) \cap With(Outcomes(h, t), {"rescued"}) # {}
  OBVIOUS
<1>1. PICK x \in OnPath(p) : /\ resolveItem(h, t, x) # "sent"
                             /\ x \in With(Outcomes(h, t), {resolveItem(h, t, x)})
  BY WalkStops
<1>2. resolveItem(h, t, x) = "rescued"
  BY <1>1 DEF Failed
<1> QED  BY <1>1, <1>2

-----------------------------------------------------------------------------
(* What an answer has, for any tree and headers.                           *)

Selection(h) == h.only \subseteq Seq(Segments) /\ h.except \subseteq Seq(Segments)

\* A partial reload leaves nothing that it includes for later.
LEMMA PartialItem ==
  ASSUME NEW h, NEW t, NEW p, h.partial, shouldInclude(h, t, p)
  PROVE  resolveItem(h, t, p) \in {"sent", "rescued", "failed"}
BY DEF resolveItem, OutcomeAfterEval

\* What is above a path that was asked for can be traversed.
LEMMA AskedPath ==
  ASSUME NEW h, Selection(h), NEW p \in Seq(Segments), includedInPartialMetadata(h, p),
         NEW q \in OnPath(p)
  PROVE  pathMatches(h, q)
<1>1. q \in Seq(Segments) /\ StartsWith(p, q)
  BY AncestorEntries, StartsWithEntries DEF OnPath
<1>2. ASSUME NEW s \in h.except, StartsWith(q, s) PROVE StartsWith(p, s)
  BY <1>1, <1>2, StartsWithEntries, LenProperties DEF Selection
<1>3. ASSUME NEW s \in h.only, StartsWith(p, s)
      PROVE  StartsWith(q, s) \/ (s # q /\ StartsWith(s, q))
  <2>1. s \in Seq(Segments) /\ Len(s) \in Nat /\ Len(q) \in Nat
    BY <1>1, LenProperties DEF Selection
  <2>2. CASE Len(s) <= Len(q)
    BY <1>1, <1>3, <2>1, <2>2, StartsWithEntries
  <2>3. CASE Len(q) < Len(s)
    BY <1>1, <1>3, <2>1, <2>3, StartsWithEntries
  <2> QED  BY <2>1, <2>2, <2>3
<1> QED  BY <1>2, <1>3 DEF includedInPartialMetadata, pathMatches, matchesPath, leadsToPath

LEMMA AskedArrives ==
  ASSUME NEW h, NEW t, WellFormed(t), Selection(h), h.partial, ~Failed(Outcomes(h, t)),
         NEW p \in DOMAIN t, includedInPartialMetadata(h, p)
  PROVE  \/ p \in With(Outcomes(h, t), {"sent"})
         \/ OnPath(p) \cap With(Outcomes(h, t), {"rescued"}) # {}
<1>1. \A q \in OnPath(p) : shouldInclude(h, t, q)
  BY AskedPath, TreePaths DEF shouldInclude
<1> QED  BY <1>1, PartialItem, WalkArrives

LEMMA ClosureArrives ==
  ASSUME NEW h, NEW t, WellFormed(t), h.partial, ~Failed(Outcomes(h, t)),
         NEW p \in With(Outcomes(h, t), {"sent"}), isClosureProp(Unwrapped(t[p])),
         NEW c \in DOMAIN t, p \in Ancestors(c)
  PROVE  \/ c \in With(Outcomes(h, t), {"sent"})
         \/ OnPath(c) \cap With(Outcomes(h, t), {"rescued"}) # {}
<1>1. ASSUME NEW q \in OnPath(c)
      PROVE  resolveItem(h, t, q) \in {"sent", "rescued", "failed"}
  <2>1. q \in OnPath(p) \/ p \in Ancestors(q)
    BY TreePaths, OnPathOrdered
  <2>2. CASE q \in OnPath(p)
    BY <2>2, SentPath
  <2>3. CASE p \in Ancestors(q)
    BY <2>3, PartialItem DEF shouldInclude, UnderClosure
  <2> QED  BY <2>1, <2>2, <2>3
<1> QED  BY <1>1, WalkArrives

LEMMA InitialSkipsLazy ==
  ASSUME NEW h, NEW t, WellFormed(t), ~h.partial,
         NEW p \in With(Outcomes(h, t), {"sent"}), NEW q \in OnPath(p),
         NEW m \in PropsAt(t, q)
  PROVE  ~IsLazy(m)
<1>1. resolveItem(h, t, q) = "sent"
  BY SentPath
<1>2. ~IsLazy(t[q].outer) /\ (t[q].inner = NoProp \/ ~IsLazy(t[q].inner))
  BY <1>1 DEF resolveItem, OutcomeAfterEval
<1> QED  BY <1>2 DEF PropsAt

\* The markers of a value that was asked for are in the answer.
LEMMA MarkersListed ==
  ASSUME NEW h, NEW t, NEW o, NEW p \in With(o, {"sent"}) \ h.reset,
         includedInPartialMetadata(h, p),
         IsScroll(Unwrapped(t[p])) \/ IsBuilder(Unwrapped(t[p])),
         NEW list \in MarkerLists
  PROVE  PropMarkers(h, Unwrapped(t[p]), p)[list] \subseteq MergeMarkers(h, t, o)[list]
<1>1. Described(t, o, p) = Unwrapped(t[p])
  BY DEF Described, With
<1>2. p \in DescribedPaths(o)
  BY DEF DescribedPaths, With
<1> DEFINE S == {x \in DescribedPaths(o) \ h.reset :
                   \/ IsScroll(Described(t, o, x))
                   \/ /\ IsBuilder(Described(t, o, x))
                      /\ h.partial => includedInPartialMetadata(h, x)}
<1>3. p \in S
  BY <1>1, <1>2
<1>4. MergeMarkers(h, t, o)[list] = UNION {PropMarkers(h, Described(t, o, x), x)[list] : x \in S}
  BY DEF MergeMarkers
<1> HIDE DEF S
<1> QED  BY <1>1, <1>3, <1>4

Merges(prop) ==
  \/ IsScroll(prop)
  \/ IsBuilder(prop) /\ prop.deepMerge
  \/ IsBuilder(prop) /\ prop.merge /\ prop.appendPath # {<<>>}

\* A prop that merges has a marker at its path or below.
LEMMA MergerIsMarked ==
  ASSUME NEW h, NEW prop \in Props, NEW p \in Seq(Segments), Merges(prop),
         IsBuilder(prop) => Buildable(prop)
  PROVE  \E list \in MarkerLists \ {"matchPropsOn"} :
           \E target \in PropMarkers(h, prop, p)[list] : StartsWith(target, p)
<1>1. ASSUME NEW sub \in Seq(Segments) PROVE StartsWith(p \o sub, p)
  <2>1. /\ p \o sub \in Seq(Segments) /\ Len(p \o sub) = Len(p) + Len(sub)
        /\ \A i \in 1..Len(p) + Len(sub) :
             (p \o sub)[i] = IF i <= Len(p) THEN p[i] ELSE sub[i - Len(p)]
    BY ConcatProperties
  <2>2. Len(p) \in Nat /\ Len(sub) \in Nat
    BY LenProperties
  <2>3. Len(p) <= Len(p \o sub) /\ \A i \in 1..Len(p) : p[i] = (p \o sub)[i]
    BY <2>1, <2>2
  <2> QED  BY <2>1, <2>3, StartsWithEntries
<1>2. StartsWith(p, p)
  BY StartsWithEntries, LenProperties
<1>3. CASE IsScroll(prop)
  <2>1. prop.wrapper \in Segments
    BY <1>3 DEF IsScroll, Props, Builders, Scrolls, Plain
  <2>2. Append(p, prop.wrapper) = p \o <<prop.wrapper>> /\ <<prop.wrapper>> \in Seq(Segments)
    BY <2>1
  <2>3. StartsWith(Append(p, prop.wrapper), p)
    BY <1>1, <2>2
  <2>4. \/ Append(p, prop.wrapper) \in PropMarkers(h, prop, p)["mergeProps"]
        \/ Append(p, prop.wrapper) \in PropMarkers(h, prop, p)["prependProps"]
    BY <1>3 DEF PropMarkers
  <2> QED  BY <2>3, <2>4 DEF MarkerLists
<1>4. CASE IsBuilder(prop)
  <2>1. ~IsScroll(prop)
    BY <1>4 DEF IsBuilder, IsScroll
  <2>2. CASE prop.deepMerge
    <3>1. p \in PropMarkers(h, prop, p)["deepMergeProps"]
      BY <2>1, <2>2 DEF PropMarkers
    <3> QED  BY <1>2, <3>1 DEF MarkerLists
  <2>3. CASE prop.merge /\ prop.appendPath # {<<>>}
    <3>1. prop.appendPath \subseteq Seq(Segments) /\ prop.prependPath \subseteq Seq(Segments)
      BY <1>4 DEF IsBuilder, Props, Builders, Scrolls, Plain
    <3>2. CASE prop.appendPath \cup prop.prependPath = {}
      <4>1. p \in PropMarkers(h, prop, p)["mergeProps"]
        BY <2>1, <2>3, <3>2 DEF PropMarkers
      <4> QED  BY <1>2, <4>1 DEF MarkerLists
    <3>3. CASE prop.appendPath # {}
      <4>1. PICK sub \in prop.appendPath \ {<<>>} : TRUE
        BY <2>3, <3>3
      <4>2. p \o sub \in PropMarkers(h, prop, p)["mergeProps"]
        BY <2>1, <4>1 DEF PropMarkers
      <4> QED  BY <1>1, <3>1, <4>1, <4>2 DEF MarkerLists
    <3>4. CASE prop.prependPath # {}
      <4>1. PICK sub \in prop.prependPath : TRUE
        BY <3>4
      <4>2. p \o sub \in PropMarkers(h, prop, p)["prependProps"]
        BY <2>1, <4>1 DEF PropMarkers
      <4> QED  BY <1>1, <3>1, <4>1, <4>2 DEF MarkerLists
    <3> QED  BY <3>2, <3>3, <3>4
  <2> QED  BY <2>1, <2>2, <2>3 DEF Merges
<1> QED  BY <1>3, <1>4 DEF Merges

-----------------------------------------------------------------------------
(* The inductive invariant.                                                *)

\* e is a once key of t, with the path it is a key of.
KeyOf(t, e) ==
  /\ e[2] \in DOMAIN t
  /\ \E m \in PropsAt(t, e[2]) : IsOnce(m) /\ e[1] = onceKey(m, e[2])

TreesInv ==
  /\ \A c \in Components : trees[c] \in PropTrees[c]
  /\ Consistent({trees[c] : c \in Components})
  /\ component \in Components \cup {NoPage}
  /\ awaiting \in [Groups -> SUBSET Seq(Segments)]

\* The answer is what the resolver makes of the page's props.
AnswerInv ==
  Answered =>
    /\ component \in Components
    /\ Selection(last.headers)
    /\ ~Failed(Outcomes(last.headers, Tree))
    /\ Page = Resolved(last.headers, Tree, Outcomes(last.headers, Tree))

IInv == TreesInv /\ AnswerInv /\ TypeOK

LEMMA TreeWellFormed == ASSUME TreesInv, NEW c \in Components PROVE WellFormed(trees[c])
BY TreesAssumption DEF TreesInv

\* What an answer is about is in the tree it was made from.
LEMMA AnswerPaths ==
  ASSUME NEW h, NEW t, WellFormed(t)
  PROVE  LET page == Resolved(h, t, Outcomes(h, t)) IN
         /\ page.values \subseteq DOMAIN t
         /\ page.deferred \in [Groups -> SUBSET DOMAIN t]
         /\ \A e \in page.once : KeyOf(t, e)
         /\ (page.rescued # {}) \in BOOLEAN
<1> DEFINE o == Outcomes(h, t)
           page == Resolved(h, t, o)
<1>1. DOMAIN o = DOMAIN t
  BY DEF Outcomes
<1>2. /\ page.values = With(o, {"sent"}) /\ page.deferred = DeferredGroups(t, o)
      /\ page.once = OnceMarkers(h, t, o)
  BY DEF Resolved
<1>3. ASSUME NEW p \in DescribedPaths(o)
      PROVE  p \in DOMAIN t /\ Described(t, o, p) \in PropsAt(t, p)
  <2>1. p \in DOMAIN t /\ o[p] \in {"sent", "lazy", "cached"}
    BY <1>1, <1>3 DEF DescribedPaths, With
  <2>2. o[p] = resolveItem(h, t, p)
    BY <2>1 DEF Outcomes, Items
  <2>3. t[p].outer # NoProp
    BY <2>1, TreePaths, NoPropAssumption DEF Nodes
  <2> HIDE DEF o
  <2>4. CASE o[p] = "cached"
    BY <2>1, <2>3, <2>4 DEF Described, PropsAt
  <2>5. CASE o[p] = "lazy"
    <3>1. IsLazy(t[p].outer) \/ t[p].inner # NoProp
      BY <2>2, <2>5 DEF resolveItem, OutcomeAfterEval
    <3> QED  BY <2>1, <2>3, <2>5, <3>1 DEF Described, PropsAt
  <2>6. CASE o[p] = "sent"
    BY <2>1, <2>3, <2>6 DEF Described, PropsAt, Unwrapped
  <2> QED  BY <2>1, <2>4, <2>5, <2>6
<1> HIDE DEF o
<1>4. \A e \in OnceMarkers(h, t, o) : KeyOf(t, e)
  BY <1>3 DEF OnceMarkers, KeyOf
<1>5. DeferredGroups(t, o) \in [Groups -> SUBSET DOMAIN t]
  BY <1>1 DEF DeferredGroups, With
<1>6. With(o, {"sent"}) \subseteq DOMAIN t
  BY <1>1 DEF With
<1> QED  BY <1>2, <1>4, <1>5, <1>6 DEF o

\* Props with one once key are equal, and so is what they have below them.
LEMMA OnceIsOne ==
  ASSUME TreesInv, NEW c \in Components, NEW d \in Components, NEW e, NEW f,
         KeyOf(trees[c], e), KeyOf(trees[d], f), e[1] = f[1]
  PROVE  /\ Below(trees[c], e[2]) = Below(trees[d], f[2])
         /\ isClosureProp(Unwrapped(trees[c][e[2]])) = isClosureProp(Unwrapped(trees[d][f[2]]))
<1> DEFINE Entry(b, g) == <<g[1], isClosureProp(Unwrapped(trees[b][g[2]])), Below(trees[b], g[2])>>
<1>1. ASSUME NEW b \in Components, NEW g, KeyOf(trees[b], g)
      PROVE  Entry(b, g) \in Cacheable({trees[a] : a \in Components})
  <2>1. PICK m \in PropsAt(trees[b], g[2]) : IsOnce(m) /\ g[1] = onceKey(m, g[2])
    BY <1>1 DEF KeyOf
  <2>2. g[2] \in DOMAIN trees[b] /\ trees[b] \in {trees[a] : a \in Components}
    BY <1>1 DEF KeyOf
  <2> QED  BY <2>1, <2>2 DEF Cacheable
<1>2. Entry(c, e) \in Cacheable({trees[a] : a \in Components})
  BY <1>1
<1>3. Entry(d, f) \in Cacheable({trees[a] : a \in Components})
  BY <1>1
<1>4. Entry(c, e)[1] = Entry(d, f)[1]
  OBVIOUS
<1>5. Entry(c, e) = Entry(d, f)
  BY <1>2, <1>3, <1>4 DEF TreesInv, Consistent
<1> QED  BY <1>5

\* What a client carries over with e is what it has of the once prop u of its
\* page, at the same place below it.
LEMMA CarriedFrom ==
  ASSUME IInv, component \in Components, NEW c \in Components, NEW page,
         \A e \in page.once : KeyOf(trees[c], e), NEW y \in Carried(page)
  PROVE  \E e \in page.once, u \in once, s \in Seq(Segments) :
           /\ u[1] = e[1] /\ KeyOf(trees[c], e) /\ KeyOf(Tree, u)
           /\ y = e[2] \o s /\ u[2] \o s \in held /\ e[2] \notin page.values
<1>1. PICK e \in page.once, u \in once :
        u[1] = e[1] /\ y \in Moved(u, e[2]) /\ e[2] \notin page.values
  BY DEF Carried
<1>2. PICK q \in held : /\ StartsWith(q, u[2])
                        /\ y = e[2] \o SubSeq(q, Len(u[2]) + 1, Len(q))
  BY <1>1 DEF Moved
<1>3. KeyOf(trees[c], e) /\ KeyOf(Tree, u) /\ q \in DOMAIN Tree
  BY NoPageAssumption DEF IInv, TypeOK, KeyOf
<1>4. WellFormed(Tree)
  BY TreesAssumption DEF IInv, TreesInv, Tree
<1>5. u[2] \in Seq(Segments) /\ q \in Seq(Segments)
  BY <1>3, <1>4, TreePaths DEF KeyOf
<1>6. /\ SubSeq(q, Len(u[2]) + 1, Len(q)) \in Seq(Segments)
      /\ u[2] \o SubSeq(q, Len(u[2]) + 1, Len(q)) = q
  BY <1>2, <1>5, RestOfPath
<1> QED  BY <1>1, <1>2, <1>3, <1>6

\* Such a place in one page is one in the other.
LEMMA SamePlace ==
  ASSUME TreesInv, NEW c \in Components, NEW d \in Components, NEW e, NEW u,
         KeyOf(trees[c], e), KeyOf(trees[d], u), u[1] = e[1],
         NEW s \in Seq(Segments)
  PROVE  /\ u[2] \o s \in DOMAIN trees[d] <=> e[2] \o s \in DOMAIN trees[c]
         /\ u[2] \o s \in DOMAIN trees[d] /\ s # <<>> =>
              trees[c][e[2] \o s] = trees[d][u[2] \o s]
<1>1. WellFormed(trees[c]) /\ WellFormed(trees[d])
  BY TreesAssumption DEF TreesInv
<1>2. e[2] \in DOMAIN trees[c] /\ u[2] \in DOMAIN trees[d]
  BY DEF KeyOf
<1>3. e[2] \in Seq(Segments) \ {<<>>} /\ u[2] \in Seq(Segments) \ {<<>>}
  BY <1>1, <1>2, TreePaths
<1>4. Below(trees[c], e[2]) = Below(trees[d], u[2])
  BY OnceIsOne
<1>5. CASE s = <<>>
  BY <1>2, <1>3, <1>5, ConcatEmptySeq
<1>6. CASE s # <<>>
  BY <1>1, <1>2, <1>4, <1>6, SameBelow
<1> QED  BY <1>5, <1>6

\* What the client carries over to the next page has its place there.
LEMMA CarriedPaths ==
  ASSUME IInv, component \in Components, NEW c \in Components, NEW page,
         \A e \in page.once : KeyOf(trees[c], e)
  PROVE  Carried(page) \subseteq DOMAIN trees[c]
<1> SUFFICES ASSUME NEW y \in Carried(page) PROVE y \in DOMAIN trees[c]
  OBVIOUS
<1>1. PICK e \in page.once, u \in once, s \in Seq(Segments) :
        /\ u[1] = e[1] /\ KeyOf(trees[c], e) /\ KeyOf(Tree, u)
        /\ y = e[2] \o s /\ u[2] \o s \in held
  BY CarriedFrom
<1>2. u[2] \o s \in DOMAIN Tree
  BY <1>1, NoPageAssumption DEF IInv, TypeOK
<1> QED  BY <1>1, <1>2, SamePlace DEF IInv, Tree

LEMMA InitIInv == Init => IInv
<1> SUFFICES ASSUME Init PROVE IInv
  OBVIOUS
<1>1. TreesInv
  BY DEF Init, TreesInv, NoGroups
<1>2. ~Answered
  BY DEF Init, Answered
<1>3. TypeOK
  BY DEF Init, TypeOK, NoHeaders
<1> QED  BY <1>1, <1>2, <1>3 DEF IInv, AnswerInv

LEMMA RefuseStep == ASSUME IInv, NEW h, Refuse(h) PROVE IInv'
<1>1. /\ UNCHANGED <<trees, component, held, once, awaiting, lost>>
      /\ last'.kind = "refused"
  BY DEF Refuse
<1>2. ~Answered'
  BY <1>1 DEF Answered
<1>3. Tree' = Tree
  BY <1>1 DEF Tree
<1> QED  BY <1>1, <1>2, <1>3 DEF IInv, TreesInv, AnswerInv, TypeOK

LEMMA ShowStep ==
  ASSUME IInv, NEW c \in Components, NEW h, Selection(h), ~h.partial,
         h.inertia => component # NoPage, NEW kind, Show(kind, c, h)
  PROVE  IInv'
<1> DEFINE o == Outcomes(h, trees[c])
           page == Resolved(h, trees[c], o)
<1>1. CASE Failed(o) /\ Refuse(h)
  BY <1>1, RefuseStep
<1>2. CASE ~Failed(o) /\ component' = c
  <2>1. WellFormed(trees[c])
    BY TreeWellFormed DEF IInv
  <2>2. /\ page.values \subseteq DOMAIN trees[c]
        /\ page.deferred \in [Groups -> SUBSET DOMAIN trees[c]]
        /\ \A e \in page.once : KeyOf(trees[c], e)
        /\ (page.rescued # {}) \in BOOLEAN
    BY <2>1, AnswerPaths
  <2>3. h.inertia => Carried(page) \subseteq DOMAIN trees[c]
    BY <2>2, CarriedPaths DEF IInv, TreesInv
  <2>4. /\ held' = page.values \cup IF h.inertia THEN Carried(page) ELSE {}
        /\ once' = page.once /\ awaiting' = page.deferred
        /\ lost' = (page.rescued # {})
        /\ last' = [kind |-> kind, headers |-> h, page |-> page]
        /\ trees' = trees
    BY <1>2, RefuseStep DEF Show, Refuse
  <2>5. Tree' = trees[c] /\ c # NoPage
    BY <1>2, <2>4, NoPageAssumption DEF Tree
  <2> HIDE DEF page
  <2>6. AnswerInv'
    BY <1>2, <2>4, <2>5 DEF AnswerInv, Page, page
  <2>7. DOMAIN trees[c] \subseteq Seq(Segments)
    BY <2>1, TreePaths
  <2>8. TreesInv'
    BY <1>2, <2>2, <2>4, <2>7 DEF IInv, TreesInv
  <2>9. TypeOK'
    BY <1>2, <2>2, <2>3, <2>4, <2>5 DEF TypeOK, KeyOf
  <2> QED  BY <2>6, <2>8, <2>9 DEF IInv
<1> QED  BY <1>1, <1>2 DEF Show

LEMMA AddStep ==
  ASSUME IInv, component \in Components, NEW h, Selection(h),
         NEW left \in [Groups -> SUBSET DOMAIN Tree], NEW kind \in {"fetch", "reload"},
         Add(kind, h, left)
  PROVE  IInv'
<1> DEFINE o == Outcomes(h, trees[component])
           page == Resolved(h, trees[component], o)
<1>1. CASE Failed(o) /\ Refuse(h)
  BY <1>1, RefuseStep
<1>2. CASE /\ ~Failed(o)
           /\ held' = held \cup page.values
           /\ once' = {u \in once : \A e \in page.once : e[1] # u[1]} \cup page.once
           /\ awaiting' = left
           /\ lost' = (lost \/ page.rescued # {})
           /\ last' = [kind |-> kind, headers |-> h, page |-> page]
           /\ UNCHANGED <<trees, component>>
  <2>1. WellFormed(Tree) /\ Tree = trees[component] /\ Tree' = Tree
    BY <1>2, TreeWellFormed DEF IInv, Tree
  <2>2. /\ page.values \subseteq DOMAIN Tree
        /\ \A e \in page.once : KeyOf(Tree, e)
    BY <2>1, AnswerPaths
  <2>3. lost' \in BOOLEAN
    BY <1>2, Zenon
  <2> HIDE DEF page
  <2>4. AnswerInv'
    BY <1>2, <2>1 DEF AnswerInv, Page, page
  <2>5. DOMAIN Tree \subseteq Seq(Segments)
    BY <2>1, TreePaths
  <2>6. TreesInv'
    BY <1>2, <2>5 DEF IInv, TreesInv
  <2>7. component # NoPage
    BY NoPageAssumption
  <2>8. TypeOK'
    BY <1>2, <2>1, <2>2, <2>3, <2>7 DEF IInv, TypeOK, KeyOf
  <2> QED  BY <2>4, <2>6, <2>8 DEF IInv
<1> QED  BY <1>1, <1>2 DEF Add

LEMMA NextIInv == IInv /\ [Next]_vars => IInv'
<1> SUFFICES ASSUME IInv, [Next]_vars PROVE IInv'
  OBVIOUS
<1>1. CASE UNCHANGED vars
  BY <1>1 DEF vars, IInv, TreesInv, AnswerInv, TypeOK, Answered, Tree, Page
<1>2. ASSUME NEW c \in Components, Document(c) \/ Visit(c) PROVE IInv'
  BY <1>2, ShowStep DEF Document, Visit, NoHeaders, Selection
<1>3. ASSUME component # NoPage
      PROVE  /\ component \in Components /\ DOMAIN Tree \subseteq Seq(Segments)
             /\ awaiting \in [Groups -> SUBSET DOMAIN Tree]
             /\ Selectors(component) \subseteq SUBSET DOMAIN Tree
  <2>1. component \in Components
    BY <1>3 DEF IInv, TreesInv
  <2>2. WellFormed(Tree)
    BY <2>1, TreeWellFormed DEF IInv, Tree
  <2>3. awaiting \in [Groups -> SUBSET DOMAIN Tree]
    BY <1>3 DEF IInv, TreesInv, TypeOK
  <2> QED  BY <2>1, <2>2, <2>3, TreePaths DEF Selectors, Tree
<1>4. ASSUME NEW only \in SUBSET Seq(Segments), NEW except \in SUBSET Seq(Segments)
      PROVE  /\ Selection(Partial(only, except))
             /\ \A r : Selection([Partial(only, except) EXCEPT !.reset = r])
             /\ Selection([Partial(only, except) EXCEPT !.scrollPrepend = TRUE])
  BY DEF Selection, Partial, NoHeaders
<1>5. ASSUME NEW g \in Groups, FetchGroup(g) PROVE IInv'
  <2>1. Selection(Partial(awaiting[g], {}))
    BY <1>3, <1>4, <1>5 DEF FetchGroup
  <2>2. [awaiting EXCEPT ![g] = {}] \in [Groups -> SUBSET DOMAIN Tree]
    BY <1>3, <1>5 DEF FetchGroup
  <2> QED  BY <1>3, <1>5, <2>1, <2>2, AddStep DEF FetchGroup
<1>6. ASSUME component # NoPage,
             \E only, except \in Selectors(component) : Reload(only, except)
      PROVE  IInv'
  BY <1>3, <1>4, <1>6, AddStep DEF Reload
<1>7. ASSUME component # NoPage, \E only \in Selectors(component) : Reset(only)
      PROVE  IInv'
  BY <1>3, <1>4, <1>7, AddStep DEF Reset
<1>8. ASSUME component # NoPage, \E p \in DOMAIN trees[component] : LoadPrevious(p)
      PROVE  IInv'
  BY <1>3, <1>4, <1>8, AddStep DEF LoadPrevious, Tree
<1> QED  BY <1>1, <1>2, <1>5, <1>6, <1>7, <1>8 DEF Next

-----------------------------------------------------------------------------
(* The theorems.                                                           *)

(* The page the client shows is the resolver's answer to its last request, *)
(* and what it knows of it are paths and once keys of its own tree.        *)
THEOREM Invariant == Spec => []IInv
BY InitIInv, NextIInv, PTL DEF Spec

(* What the client holds, remembers and awaits belongs to its page, also   *)
(* what it carried over from another one.                                  *)
THEOREM TypeCorrect == Spec => []TypeOK
<1>1. IInv => TypeOK
  BY DEF IInv
<1> QED  BY <1>1, Invariant, PTL

LEMMA AnsweredTree ==
  ASSUME IInv, Answered
  PROVE  /\ WellFormed(Tree) /\ Selection(last.headers)
         /\ ~Failed(Outcomes(last.headers, Tree))
         /\ Page.values = With(Outcomes(last.headers, Tree), {"sent"})
         /\ Page.rescued = With(Outcomes(last.headers, Tree), {"rescued"})
         /\ Page.merge = MergeMarkers(last.headers, Tree, Outcomes(last.headers, Tree))
BY TreeWellFormed DEF IInv, AnswerInv, Tree, Resolved

(* A partial reload that succeeds brings all that was asked for, or the    *)
(* news that it was rescued, for every tree and every selection.           *)
THEOREM ReloadBringsAsked == Spec => []AskedIsSent
<1>1. IInv => AskedIsSent
  BY AnsweredTree, AskedArrives DEF AskedIsSent
<1> QED  BY <1>1, Invariant, PTL

(* No first response evaluates an optional or deferred prop into the page. *)
THEOREM FirstIsLazy == Spec => []InitialIsLazy
<1>1. IInv => InitialIsLazy
  BY AnsweredTree, InitialSkipsLazy DEF InitialIsLazy
<1> QED  BY <1>1, Invariant, PTL

(* The map of a callback is sent whole.                                    *)
THEOREM CallbackMapWhole == Spec => []CallbackMapIsWhole
<1>1. IInv => CallbackMapIsWhole
  BY AnsweredTree, ClosureArrives DEF CallbackMapIsWhole
<1> QED  BY <1>1, Invariant, PTL

(* A value that was asked for and merges is marked at its path or below.   *)
THEOREM AskedMerges == Spec => []AskedIsMerged
<1>1. ASSUME IInv, Answered, last.headers.partial,
             NEW p \in Page.values \ last.headers.reset,
             includedInPartialMetadata(last.headers, p), Merges(Unwrapped(Tree[p]))
      PROVE  \E list \in MarkerLists \ {"matchPropsOn"} :
               \E target \in Page.merge[list] : StartsWith(target, p)
  <2> DEFINE o == Outcomes(last.headers, Tree)
             prop == Unwrapped(Tree[p])
  <2>1. WellFormed(Tree) /\ p \in With(o, {"sent"}) /\ p \in DOMAIN Tree
    BY <1>1, AnsweredTree DEF With, Outcomes
  <2>2. /\ prop \in Props /\ p \in Seq(Segments)
        /\ IsBuilder(prop) => Buildable(prop)
    <3>1. Tree[p] \in Nodes /\ prop \in PropsAt(Tree, p)
      BY <2>1, TreePaths, NoPropAssumption DEF Nodes, PropsAt, Unwrapped
    <3> QED  BY <2>1, <3>1, TreePaths DEF Nodes, Props, PropsAt
  <2>3. IsScroll(prop) \/ IsBuilder(prop)
    BY <1>1 DEF Merges
  <2>4. \A list \in MarkerLists :
          PropMarkers(last.headers, prop, p)[list] \subseteq Page.merge[list]
    BY <1>1, <2>1, <2>3, AnsweredTree, MarkersListed
  <2> HIDE DEF prop
  <2> QED  BY <1>1, <2>2, <2>4, MergerIsMarked DEF prop
<1>2. IInv => AskedIsMerged
  BY <1>1 DEF AskedIsMerged, Merges
<1> QED  BY <1>2, Invariant, PTL

-----------------------------------------------------------------------------
(* The page becomes complete.                                              *)

\* Below q, on the way to p, is something that a visit may not send again.
Gap(t, q, p) ==
  \/ \E r \in OnPath(p) : q \in Ancestors(r) /\ \E m \in PropsAt(t, r) : IsLazy(m)
  \/ \E r \in Ancestors(p) : q \in Ancestors(r) /\ Skippable(t[r])
                              /\ ~isClosureProp(Unwrapped(t[r]))

\* A callback's map of which the client has something is whole but for the gaps.
Whole(t, has) ==
  \A q \in has : isClosureProp(Unwrapped(t[q])) =>
    \A p \in DOMAIN t : q \in Ancestors(p) => p \in has \/ Gap(t, q, p)

\* What the page need not have.
Excused(t, p) ==
  \/ \E q \in OnPath(p) : \E m \in PropsAt(t, q) : IsBuilder(m) /\ m.kind = "optional"
  \/ \E r \in Ancestors(p) : Skippable(t[r]) /\
       (~isClosureProp(Unwrapped(t[r])) \/ Gap(t, r, p))

\* What the client has not got is below something it still has to fetch.
Promised(t, has, left) ==
  \A p \in DOMAIN t :
    p \in has \/ Excused(t, p) \/ \E g \in Groups : OnPath(p) \cap left[g] # {}

CompleteInv ==
  component # NoPage =>
    Whole(Tree, held) /\ (~lost => Promised(Tree, held, awaiting))

\* What is below a place below u is u and something more.
LEMMA PlaceBelow ==
  ASSUME NEW u \in Seq(Segments) \ {<<>>}, NEW s \in Seq(Segments),
         NEW r \in Seq(Segments), u \o s \in Ancestors(r)
  PROVE  \E z \in Seq(Segments) \ {<<>>} : r = u \o z
<1> DEFINE us == u \o s
<1>1. /\ us \in Seq(Segments) /\ Len(us) = Len(u) + Len(s) /\ StartsWith(us, u)
      /\ us \in Ancestors(r)
  BY Longer
<1>2. Len(u) \in Nat /\ Len(s) \in Nat /\ Len(r) \in Nat
  BY LenProperties
<1> HIDE DEF us
<1>3. Len(us) < Len(r) /\ StartsWith(r, us)
  <2>1. \A q \in Seq(Segments) :
          q \in Ancestors(r) => Len(q) < Len(r) /\ StartsWith(r, q)
    BY AncestorEntries
  <2> QED  BY <1>1, <2>1
<1>4. StartsWith(r, u)
  BY <1>1, <1>3, StartsWithNests
<1> DEFINE z == SubSeq(r, Len(u) + 1, Len(r))
<1>5. z \in Seq(Segments) /\ u \o z = r
  BY <1>4, RestOfPath
<1>6. z # <<>>
  <2> SUFFICES ASSUME z = <<>> PROVE FALSE
    OBVIOUS
  <2>1. r = u
    <3> HIDE DEF z
    <3> QED  BY <1>5, ConcatEmptySeq
  <2> QED  BY <1>1, <1>2, <1>3, <2>1
<1> QED  BY <1>5, <1>6

LEMMA GapMoves ==
  ASSUME NEW t, WellFormed(t), NEW u \in DOMAIN t, NEW w, WellFormed(w), NEW v \in DOMAIN w,
         Below(t, u) = Below(w, v), NEW s \in Seq(Segments), NEW x \in Seq(Segments),
         u \o x \in DOMAIN t, Gap(t, u \o s, u \o x)
  PROVE  Gap(w, v \o s, v \o x)
<1>1. u \in Seq(Segments) \ {<<>>} /\ v \in Seq(Segments) \ {<<>>}
  BY TreePaths
<1>2. OnPath(u \o x) \subseteq DOMAIN t /\ OnPath(u \o x) \subseteq Seq(Segments)
  BY TreePaths
<1>3. ASSUME NEW r \in OnPath(u \o x), u \o s \in Ancestors(r)
      PROVE  \E z \in Seq(Segments) :
               /\ r = u \o z /\ t[r] = w[v \o z] /\ v \o s \in Ancestors(v \o z)
               /\ v \o z \in OnPath(v \o x)
               /\ r \in Ancestors(u \o x) => v \o z \in Ancestors(v \o x)
  <2>1. PICK z \in Seq(Segments) \ {<<>>} : r = u \o z
    BY <1>1, <1>2, <1>3, PlaceBelow
  <2>2. t[r] = w[v \o z]
    BY <1>2, <2>1, SameBelow
  <2>3. v \o s \in Ancestors(v \o z)
    BY <1>1, <1>3, <2>1, AncestorsBelow
  <2>4. v \o z \in OnPath(v \o x)
    BY <1>1, <2>1, AncestorsBelow
  <2>5. r \in Ancestors(u \o x) => v \o z \in Ancestors(v \o x)
    BY <1>1, <2>1, AncestorsBelow
  <2> QED  BY <2>1, <2>2, <2>3, <2>4, <2>5
<1>4. CASE \E r \in OnPath(u \o x) :
             u \o s \in Ancestors(r) /\ \E m \in PropsAt(t, r) : IsLazy(m)
  <2>1. PICK r \in OnPath(u \o x) :
               u \o s \in Ancestors(r) /\ \E m \in PropsAt(t, r) : IsLazy(m)
    BY <1>4
  <2>2. PICK z \in Seq(Segments) :
               /\ t[r] = w[v \o z] /\ v \o s \in Ancestors(v \o z)
               /\ v \o z \in OnPath(v \o x)
    BY <1>3, <2>1
  <2>3. PropsAt(t, r) = PropsAt(w, v \o z)
    BY <2>2 DEF PropsAt
  <2> QED  BY <2>1, <2>2, <2>3 DEF Gap
<1>5. CASE \E r \in Ancestors(u \o x) : u \o s \in Ancestors(r) /\ Skippable(t[r])
                                       /\ ~isClosureProp(Unwrapped(t[r]))
  <2>1. PICK r \in Ancestors(u \o x) : /\ u \o s \in Ancestors(r) /\ Skippable(t[r])
                                       /\ ~isClosureProp(Unwrapped(t[r]))
    BY <1>5
  <2>2. r \in OnPath(u \o x)
    BY <2>1 DEF OnPath
  <2>3. PICK z \in Seq(Segments) :
               /\ t[r] = w[v \o z] /\ v \o s \in Ancestors(v \o z)
               /\ v \o z \in Ancestors(v \o x)
    BY <1>3, <2>1, <2>2
  <2> QED  BY <2>1, <2>3 DEF Gap
<1> QED  BY <1>4, <1>5 DEF Gap

\* What is missing below x is missing below what is above x.
LEMMA GapNests ==
  ASSUME NEW t, WellFormed(t), NEW p \in DOMAIN t, NEW x, NEW q \in Ancestors(x), Gap(t, x, p)
  PROVE  Gap(t, q, p)
<1>1. \A r \in OnPath(p) : r \in Seq(Segments)
  BY TreePaths
<1>2. ASSUME NEW r \in OnPath(p), x \in Ancestors(r) PROVE q \in Ancestors(r)
  BY <1>1, <1>2, AncestorsNest
<1> QED  BY <1>2 DEF Gap, OnPath

-----------------------------------------------------------------------------

\* Why a first response lacks what it lacks.
LEMMA FirstStop ==
  ASSUME NEW h, NEW t, WellFormed(t), ~h.partial, ~Failed(Outcomes(h, t)),
         NEW p \in DOMAIN t, p \notin With(Outcomes(h, t), {"sent"})
  PROVE  \E x \in OnPath(p) : x \in With(Outcomes(h, t), {"lazy", "cached", "rescued"})
<1>1. PICK x \in OnPath(p) : /\ resolveItem(h, t, x) # "sent"
                             /\ x \in With(Outcomes(h, t), {resolveItem(h, t, x)})
  BY WalkStops
<1>2. resolveItem(h, t, x) \in {"lazy", "cached", "rescued", "failed"}
  BY <1>1 DEF resolveItem, OutcomeAfterEval, shouldInclude
<1>3. resolveItem(h, t, x) # "failed"
  BY <1>1 DEF Failed
<1> QED  BY <1>1, <1>2, <1>3 DEF With

LEMMA OutcomeAt ==
  ASSUME NEW h, NEW t, NEW kinds, NEW x \in With(Outcomes(h, t), kinds), "unreached" \notin kinds
  PROVE  x \in DOMAIN t /\ Outcomes(h, t)[x] = resolveItem(h, t, x)
         /\ resolveItem(h, t, x) \in kinds
BY DEF With, Outcomes, Items

\* Only lazy props are left for later, and only those that are deferred can
\* be rescued.
LEMMA StopsAtLazy ==
  ASSUME NEW h, NEW t, WellFormed(t), NEW x \in With(Outcomes(h, t), {"lazy", "rescued"})
  PROVE  \E m \in PropsAt(t, x) : IsLazy(m)
<1>1. x \in DOMAIN t /\ resolveItem(h, t, x) \in {"lazy", "rescued"}
  BY OutcomeAt
<1>2. t[x].outer \in PropsAt(t, x) /\ (t[x].inner # NoProp => t[x].inner \in PropsAt(t, x))
  BY <1>1, TreePaths, NoPropAssumption DEF Nodes, PropsAt
<1>3. CASE resolveItem(h, t, x) = "lazy"
  BY <1>2, <1>3 DEF resolveItem, OutcomeAfterEval
<1>4. CASE resolveItem(h, t, x) = "rescued"
  <2>1. isRescuable(t[x].outer) \/ (t[x].inner # NoProp /\ isRescuable(t[x].inner))
    BY <1>4 DEF resolveItem, OutcomeAfterEval
  <2>2. PICK m \in PropsAt(t, x) : isRescuable(m)
    BY <1>2, <2>1
  <2>3. m.kind = "deferred"
    BY <1>1, <2>2, TreePaths DEF isRescuable, Buildable
  <2> QED  BY <2>2, <2>3 DEF IsLazy, isRescuable
<1> QED  BY <1>1, <1>3, <1>4

\* What is left for later is optional, or listed with its group.
LEMMA LazyIsListed ==
  ASSUME NEW h, NEW t, WellFormed(t), NEW x \in With(Outcomes(h, t), {"lazy"})
  PROVE  \/ \E m \in PropsAt(t, x) : IsBuilder(m) /\ m.kind = "optional"
         \/ \E g \in Groups : x \in DeferredGroups(t, Outcomes(h, t))[g]
<1> DEFINE o == Outcomes(h, t)
           m == Described(t, o, x)
<1>1. x \in DOMAIN t /\ resolveItem(h, t, x) = "lazy" /\ o[x] = "lazy"
  BY OutcomeAt
<1>2. t[x].outer \in PropsAt(t, x) /\ (t[x].inner # NoProp => t[x].inner \in PropsAt(t, x))
  BY <1>1, TreePaths, NoPropAssumption DEF Nodes, PropsAt
<1>3. m \in PropsAt(t, x) /\ IsLazy(m)
  BY <1>1, <1>2 DEF resolveItem, OutcomeAfterEval, Described
<1>4. m \in Props
  BY <1>1, <1>3, TreePaths DEF PropsAt, Nodes, Props
<1> HIDE DEF m, o
<1>5. m.kind = "optional" \/ (m.kind = "deferred" /\ m.group \in Groups)
  BY <1>3, <1>4 DEF IsLazy, IsBuilder, Props, Builders, Scrolls, Plain
<1>6. CASE m.kind = "optional"
  BY <1>3, <1>6 DEF IsLazy
<1>7. CASE m.kind = "deferred" /\ m.group \in Groups
  <2>1. x \in DeferredGroups(t, o)[m.group]
    BY <1>7 DEF DeferredGroups, m, o
  <2> QED  BY <1>7, <2>1 DEF o
<1> QED  BY <1>5, <1>6, <1>7

\* What is left out because the client has it is listed as a once prop.
LEMMA CachedIsListed ==
  ASSUME NEW h, NEW t, WellFormed(t), ~h.partial, NEW x \in With(Outcomes(h, t), {"cached"})
  PROVE  /\ x \in DOMAIN t /\ Skippable(t[x]) /\ h.inertia
         /\ x \notin With(Outcomes(h, t), {"sent"})
         /\ onceKey(t[x].outer, x) \in h.exceptOnce
         /\ <<onceKey(t[x].outer, x), x>> \in OnceMarkers(h, t, Outcomes(h, t))
<1>1. x \in DOMAIN t /\ resolveItem(h, t, x) = "cached" /\ Outcomes(h, t)[x] = "cached"
  BY OutcomeAt
<1>2. h.inertia /\ shouldSkipOnce(h, t[x].outer, x)
  BY <1>1 DEF resolveItem, OutcomeAfterEval
<1>3. Described(t, Outcomes(h, t), x) = t[x].outer /\ x \in DescribedPaths(Outcomes(h, t))
  BY <1>1 DEF Described, DescribedPaths, With
<1>4. <<onceKey(t[x].outer, x), x>> \in OnceMarkers(h, t, Outcomes(h, t))
  BY <1>2, <1>3 DEF OnceMarkers, shouldSkipOnce
<1> QED  BY <1>1, <1>2, <1>4 DEF shouldSkipOnce, Skippable, With

\* What the client has at a place below a once prop of its page is carried over
\* to that place below the entry e.
LEMMA CarriedBack ==
  ASSUME NEW page, NEW e \in page.once, e[2] \notin page.values, NEW u \in once, u[1] = e[1],
         u[2] \in Seq(Segments), NEW s \in Seq(Segments), u[2] \o s \in held
  PROVE  e[2] \o s \in Carried(page)
<1> DEFINE q == u[2] \o s
<1>1. StartsWith(q, u[2]) /\ SubSeq(q, Len(u[2]) + 1, Len(q)) = s
  BY Longer
<1>2. e[2] \o s \in Moved(u, e[2])
  <2> HIDE DEF q
  <2> QED  BY <1>1 DEF Moved, q
<1> QED  BY <1>2 DEF Carried

LEMMA CachedIsCarried ==
  ASSUME IInv, component \in Components, NEW c \in Components, NEW h, ~h.partial,
         h.inertia => h.exceptOnce = ReportedOnce,
         NEW x \in With(Outcomes(h, trees[c]), {"cached"})
  PROVE  x \in Carried(Resolved(h, trees[c], Outcomes(h, trees[c])))
<1> DEFINE o == Outcomes(h, trees[c])
           page == Resolved(h, trees[c], o)
           e == <<onceKey(trees[c][x].outer, x), x>>
<1>1. WellFormed(trees[c]) /\ WellFormed(Tree)
  BY TreesAssumption DEF IInv, TreesInv, Tree
<1>2. x \in DOMAIN trees[c] /\ x \notin page.values /\ e[1] \in ReportedOnce /\ e \in page.once
  BY <1>1, CachedIsListed DEF Resolved
<1>3. PICK u \in once : u[1] = e[1] /\ u[2] \in held
  BY <1>2 DEF ReportedOnce
<1>4. x \in Seq(Segments) /\ u[2] \in Seq(Segments)
  BY <1>1, <1>2, <1>3, TreePaths, NoPageAssumption DEF IInv, TypeOK
<1>5. u[2] \o <<>> = u[2] /\ x \o <<>> = x /\ <<>> \in Seq(Segments)
  BY <1>4, ConcatEmptySeq, EmptySeq
<1>6. e[2] = x
  OBVIOUS
<1> HIDE DEF e, page
<1>7. e[2] \o <<>> \in Carried(page)
  BY <1>2, <1>3, <1>4, <1>5, <1>6, CarriedBack
<1> QED  BY <1>5, <1>6, <1>7 DEF page

\* A callback's map that is carried over is as whole as it was.
LEMMA CarriedIsWhole ==
  ASSUME IInv, CompleteInv, component \in Components, NEW c \in Components, NEW page,
         \A e \in page.once : KeyOf(trees[c], e),
         NEW q \in Carried(page), isClosureProp(Unwrapped(trees[c][q])),
         NEW p \in DOMAIN trees[c], q \in Ancestors(p)
  PROVE  p \in Carried(page) \/ Gap(trees[c], q, p)
<1>1. PICK e \in page.once, u \in once, s \in Seq(Segments) :
        /\ u[1] = e[1] /\ KeyOf(trees[c], e) /\ KeyOf(Tree, u)
        /\ q = e[2] \o s /\ u[2] \o s \in held /\ e[2] \notin page.values
  BY CarriedFrom
<1>2. WellFormed(trees[c]) /\ WellFormed(Tree) /\ TreesInv /\ Tree = trees[component]
  BY TreesAssumption DEF IInv, TreesInv, Tree
<1>3. /\ e[2] \in DOMAIN trees[c] /\ u[2] \in DOMAIN Tree
      /\ e[2] \in Seq(Segments) \ {<<>>} /\ u[2] \in Seq(Segments) \ {<<>>}
      /\ p \in Seq(Segments)
  BY <1>1, <1>2, TreePaths DEF KeyOf
<1>4. PICK z \in Seq(Segments) \ {<<>>} : p = e[2] \o z
  BY <1>1, <1>3, PlaceBelow
<1>5. Below(Tree, u[2]) = Below(trees[c], e[2])
  BY <1>1, <1>2, OnceIsOne
<1>6. isClosureProp(Unwrapped(Tree[u[2] \o s]))
  <2>1. CASE s = <<>>
    <3>1. e[2] \o s = e[2] /\ u[2] \o s = u[2]
      BY <1>3, <2>1, ConcatEmptySeq
    <3>2. isClosureProp(Unwrapped(trees[c][e[2]])) = isClosureProp(Unwrapped(Tree[u[2]]))
      BY <1>1, <1>2, OnceIsOne
    <3> QED  BY <1>1, <3>1, <3>2
  <2>2. CASE s # <<>>
    <3>1. u[2] \o s \in DOMAIN Tree
      BY <1>1, NoPageAssumption DEF IInv, TypeOK
    <3>2. trees[c][e[2] \o s] = Tree[u[2] \o s]
      BY <1>1, <1>2, <2>2, <3>1, SamePlace
    <3> QED  BY <1>1, <3>2
  <2> QED  BY <2>1, <2>2
<1>7. u[2] \o z \in DOMAIN Tree
  BY <1>1, <1>2, <1>4, SamePlace
<1>8. u[2] \o s \in Ancestors(u[2] \o z)
  BY <1>1, <1>3, <1>4, AncestorsBelow
<1>9. u[2] \o z \in held \/ Gap(Tree, u[2] \o s, u[2] \o z)
  BY <1>1, <1>6, <1>7, <1>8, NoPageAssumption DEF CompleteInv, Whole
<1>10. CASE u[2] \o z \in held
  BY <1>1, <1>3, <1>4, <1>10, CarriedBack
<1>11. CASE Gap(Tree, u[2] \o s, u[2] \o z)
  BY <1>1, <1>2, <1>3, <1>4, <1>5, <1>7, <1>11, GapMoves
<1> QED  BY <1>9, <1>10, <1>11

\* A first response.
LEMMA ShowIsComplete ==
  ASSUME IInv, CompleteInv, NEW c \in Components, NEW h, ~h.partial,
         h.inertia => component \in Components /\ h.exceptOnce = ReportedOnce,
         ~Failed(Outcomes(h, trees[c]))
  PROVE  LET page == Resolved(h, trees[c], Outcomes(h, trees[c]))
             has  == page.values \cup IF h.inertia THEN Carried(page) ELSE {} IN
         /\ Whole(trees[c], has)
         /\ page.rescued = {} => Promised(trees[c], has, page.deferred)
<1> DEFINE t    == trees[c]
           o    == Outcomes(h, t)
           page == Resolved(h, t, o)
           has  == page.values \cup IF h.inertia THEN Carried(page) ELSE {}
           Stop(x, p) == /\ x \in With(o, {"lazy", "cached", "rescued"})
                         /\ x \in With(o, {"cached"}) => x \in Ancestors(p)
<1>1. WellFormed(t)
  BY TreeWellFormed DEF IInv
<1>2. /\ page.values = With(o, {"sent"}) /\ page.rescued = With(o, {"rescued"})
      /\ page.deferred = DeferredGroups(t, o)
  BY DEF Resolved
<1>3. \A e \in page.once : KeyOf(t, e)
  BY <1>1, AnswerPaths
<1>4. ASSUME NEW x \in With(o, {"cached"})
      PROVE  h.inertia /\ Skippable(t[x]) /\ x \in Carried(page)
  <2>1. h.inertia /\ Skippable(t[x])
    BY <1>1, CachedIsListed
  <2> QED  BY <2>1, CachedIsCarried
<1>5. \A p \in DOMAIN t \ has : \E x \in OnPath(p) : Stop(x, p)
  <2> SUFFICES ASSUME NEW p \in DOMAIN t, p \notin has PROVE \E x \in OnPath(p) : Stop(x, p)
    OBVIOUS
  <2>1. PICK x \in OnPath(p) : x \in With(o, {"lazy", "cached", "rescued"})
    BY <1>1, <1>2, FirstStop
  <2>2. x \in With(o, {"cached"}) => x # p
    BY <1>4
  <2> QED  BY <2>1, <2>2 DEF OnPath
<1>6. ASSUME NEW q \in Carried(page), h.inertia, isClosureProp(Unwrapped(t[q])),
             NEW p \in DOMAIN t, q \in Ancestors(p)
      PROVE  p \in has \/ Gap(t, q, p)
  BY <1>3, <1>6, CarriedIsWhole
<1>7. ASSUME NEW x \in With(o, {"lazy", "cached", "rescued"})
      PROVE  x \in With(o, {"cached"}) \/ x \in With(o, {"lazy"}) \/ x \in With(o, {"rescued"})
  BY DEF With
<1>8. ASSUME NEW q \in page.values, NEW p \in DOMAIN t, q \in Ancestors(p), p \notin has
      PROVE  Gap(t, q, p)
  <2>1. PICK x \in OnPath(p) : Stop(x, p)
    <3> HIDE DEF has, Stop
    <3> QED  BY <1>5, <1>8
  <2>2. q \in Ancestors(x)
    <3>1. x \in OnPath(q) \/ q \in Ancestors(x)
      BY <1>1, <1>8, TreePaths, OnPathOrdered
    <3>2. resolveItem(h, t, x) \in {"lazy", "cached", "rescued"}
      BY <2>1, OutcomeAt
    <3>3. x \in OnPath(q) => resolveItem(h, t, x) = "sent"
      BY <1>1, <1>2, SentPath
    <3> QED  BY <3>1, <3>2, <3>3
  <2>3. CASE x \in With(o, {"lazy"}) \/ x \in With(o, {"rescued"})
    <3>1. x \in With(o, {"lazy", "rescued"})
      BY <2>3 DEF With
    <3>2. \E m \in PropsAt(t, x) : IsLazy(m)
      BY <1>1, <3>1, StopsAtLazy
    <3> QED  BY <2>2, <3>2 DEF Gap
  <2>4. CASE x \in With(o, {"cached"})
    <3>1. CASE ~isClosureProp(Unwrapped(t[x]))
      BY <1>4, <2>1, <2>2, <2>4, <3>1 DEF Gap
    <3>2. CASE isClosureProp(Unwrapped(t[x]))
      <4>1. Gap(t, x, p)
        BY <1>4, <1>6, <1>8, <2>1, <2>4, <3>2
      <4> QED  BY <1>1, <2>2, <4>1, GapNests
    <3> QED  BY <3>1, <3>2
  <2> QED  BY <1>7, <2>1, <2>3, <2>4
<1>9. Whole(t, has)
  <2> SUFFICES ASSUME NEW q \in has, isClosureProp(Unwrapped(t[q])),
                      NEW p \in DOMAIN t, q \in Ancestors(p)
               PROVE  p \in has \/ Gap(t, q, p)
    BY DEF Whole
  <2>1. CASE q \in page.values
    BY <1>8, <2>1
  <2>2. CASE q \notin page.values
    <3>1. h.inertia /\ q \in Carried(page)
      BY <2>2
    <3> QED  BY <1>6, <3>1
  <2> QED  BY <2>1, <2>2
<1>10. ASSUME page.rescued = {}, NEW p \in DOMAIN t, p \notin has
       PROVE  Excused(t, p) \/ \E g \in Groups : OnPath(p) \cap page.deferred[g] # {}
  <2>1. PICK x \in OnPath(p) : Stop(x, p)
    <3> HIDE DEF has, Stop
    <3> QED  BY <1>5, <1>10
  <2>2. CASE x \in With(o, {"lazy"})
    <3>1. CASE \E m \in PropsAt(t, x) : IsBuilder(m) /\ m.kind = "optional"
      BY <3>1 DEF Excused
    <3>2. CASE \E g \in Groups : x \in DeferredGroups(t, o)[g]
      BY <1>2, <3>2
    <3> QED  BY <1>1, <2>2, <3>1, <3>2, LazyIsListed
  <2>3. CASE x \in With(o, {"cached"})
    <3>1. CASE ~isClosureProp(Unwrapped(t[x]))
      BY <1>4, <2>1, <2>3, <3>1 DEF Excused
    <3>2. CASE isClosureProp(Unwrapped(t[x]))
      <4>1. Gap(t, x, p)
        BY <1>4, <1>6, <1>10, <2>1, <2>3, <3>2
      <4> QED  BY <1>4, <2>1, <2>3, <4>1 DEF Excused
    <3> QED  BY <3>1, <3>2
  <2> QED  BY <1>2, <1>7, <1>10, <2>1, <2>2, <2>3
<1>11. page.rescued = {} => Promised(t, has, page.deferred)
  BY <1>10 DEF Promised
<1> QED  BY <1>9, <1>11

\* A partial response, of which the fetched paths (if any) are all asked for.
LEMMA AddIsComplete ==
  ASSUME IInv, CompleteInv, component \in Components, NEW h, h.partial, Selection(h),
         ~Failed(Outcomes(h, Tree)), NEW left,
         \A g \in Groups : left[g] = awaiting[g] \/
           \A p \in DOMAIN Tree :
             OnPath(p) \cap awaiting[g] # {} => includedInPartialMetadata(h, p)
  PROVE  LET page == Resolved(h, Tree, Outcomes(h, Tree))
             has  == held \cup page.values IN
         /\ Whole(Tree, has)
         /\ ~lost /\ page.rescued = {} => Promised(Tree, has, left)
<1> DEFINE o    == Outcomes(h, Tree)
           page == Resolved(h, Tree, o)
           has  == held \cup page.values
<1>1. WellFormed(Tree) /\ component # NoPage
  BY TreeWellFormed, NoPageAssumption DEF IInv, Tree
<1>2. page.values = With(o, {"sent"}) /\ page.rescued = With(o, {"rescued"})
  BY DEF Resolved
<1>3. Whole(Tree, has)
  <2> SUFFICES ASSUME NEW q \in has, isClosureProp(Unwrapped(Tree[q])),
                      NEW p \in DOMAIN Tree, q \in Ancestors(p)
               PROVE  p \in has \/ Gap(Tree, q, p)
    BY DEF Whole
  <2>1. CASE q \in held
    BY <1>1, <2>1 DEF CompleteInv, Whole
  <2>2. CASE q \in page.values /\ p \notin page.values
    <3>1. PICK x \in OnPath(p) : x \in With(o, {"rescued"})
      BY <1>1, <1>2, <2>2, ClosureArrives
    <3>2. q \in Ancestors(x)
      <4>1. x \in OnPath(q) \/ q \in Ancestors(x)
        BY <1>1, TreePaths, OnPathOrdered
      <4>2. resolveItem(h, Tree, x) = "rescued"
        BY <3>1, OutcomeAt
      <4>3. x \in OnPath(q) => resolveItem(h, Tree, x) = "sent"
        BY <1>1, <1>2, <2>2, SentPath
      <4> QED  BY <4>1, <4>2, <4>3
    <3>3. x \in With(o, {"lazy", "rescued"})
      BY <3>1 DEF With
    <3>4. \E m \in PropsAt(Tree, x) : IsLazy(m)
      BY <1>1, <3>3, StopsAtLazy
    <3> QED  BY <3>2, <3>4 DEF Gap
  <2> QED  BY <2>1, <2>2
<1>4. ASSUME ~lost, page.rescued = {}, NEW p \in DOMAIN Tree, p \notin has
      PROVE  Excused(Tree, p) \/ \E g \in Groups : OnPath(p) \cap left[g] # {}
  <2>1. ~includedInPartialMetadata(h, p)
    BY <1>1, <1>2, <1>4, AskedArrives
  <2>2. Excused(Tree, p) \/ \E g \in Groups : OnPath(p) \cap awaiting[g] # {}
    BY <1>1, <1>4 DEF CompleteInv, Promised
  <2> QED  BY <2>1, <2>2
<1>5. ~lost /\ page.rescued = {} => Promised(Tree, has, left)
  BY <1>4 DEF Promised
<1> QED  BY <1>3, <1>5

LEMMA ShowKeeps ==
  ASSUME IInv, CompleteInv, NEW c \in Components, NEW h, ~h.partial,
         h.inertia => component \in Components /\ h.exceptOnce = ReportedOnce,
         NEW kind, Show(kind, c, h)
  PROVE  CompleteInv'
<1> DEFINE o == Outcomes(h, trees[c])
           page == Resolved(h, trees[c], o)
           has  == page.values \cup IF h.inertia THEN Carried(page) ELSE {}
<1>1. CASE Refuse(h)
  BY <1>1 DEF Refuse, CompleteInv, Tree
<1>2. CASE ~Failed(o) /\ ~Refuse(h)
  <2>1. /\ component' = c /\ trees' = trees /\ held' = has
        /\ awaiting' = page.deferred /\ lost' = (page.rescued # {})
    BY <1>2 DEF Show
  <2>2. Tree' = trees[c]
    BY <2>1 DEF Tree
  <2>3. /\ Whole(trees[c], has)
        /\ page.rescued = {} => Promised(trees[c], has, page.deferred)
    BY <1>2, ShowIsComplete
  <2> HIDE DEF page, has
  <2> QED  BY <2>1, <2>2, <2>3 DEF CompleteInv
<1> QED  BY <1>1, <1>2 DEF Show

LEMMA AddKeeps ==
  ASSUME IInv, CompleteInv, component \in Components, NEW h, h.partial, Selection(h),
         NEW left,
         \A g \in Groups : left[g] = awaiting[g] \/
           \A p \in DOMAIN Tree :
             OnPath(p) \cap awaiting[g] # {} => includedInPartialMetadata(h, p),
         NEW kind, Add(kind, h, left)
  PROVE  CompleteInv'
<1> DEFINE o == Outcomes(h, Tree)
           page == Resolved(h, Tree, o)
           has  == held \cup page.values
<1>1. CASE Refuse(h)
  BY <1>1 DEF Refuse, CompleteInv, Tree
<1>2. CASE ~Failed(o) /\ ~Refuse(h)
  <2>1. /\ component' = component /\ trees' = trees /\ held' = has
        /\ awaiting' = left /\ lost' = (lost \/ page.rescued # {})
    BY <1>2 DEF Add, Tree
  <2>2. Tree' = Tree
    BY <2>1 DEF Tree
  <2>3. /\ Whole(Tree, has)
        /\ ~lost /\ page.rescued = {} => Promised(Tree, has, left)
    BY <1>2, AddIsComplete
  <2> HIDE DEF page, has
  <2> QED  BY <2>1, <2>2, <2>3 DEF CompleteInv
<1> QED  BY <1>1, <1>2 DEF Add, Tree

LEMMA NextComplete == IInv /\ CompleteInv /\ [Next]_vars => CompleteInv'
<1> SUFFICES ASSUME IInv, CompleteInv, [Next]_vars PROVE CompleteInv'
  OBVIOUS
<1>1. CASE UNCHANGED vars
  BY <1>1 DEF vars, CompleteInv, Tree
<1>2. component # NoPage => component \in Components
  BY DEF IInv, TreesInv
<1>3. ASSUME NEW c \in Components, Document(c) PROVE CompleteInv'
  BY <1>3, ShowKeeps DEF Document, NoHeaders
<1>4. ASSUME NEW c \in Components, Visit(c) PROVE CompleteInv'
  BY <1>2, <1>4, ShowKeeps DEF Visit, NoHeaders
<1>5. ASSUME component # NoPage
      PROVE  /\ DOMAIN Tree \subseteq Seq(Segments)
             /\ awaiting \in [Groups -> SUBSET DOMAIN Tree]
             /\ Selectors(component) \subseteq SUBSET DOMAIN Tree
  <2>1. WellFormed(Tree)
    BY <1>2, <1>5, TreeWellFormed DEF IInv, Tree
  <2>2. awaiting \in [Groups -> SUBSET DOMAIN Tree]
    BY <1>5 DEF IInv, TreesInv, TypeOK
  <2> QED  BY <2>1, <2>2, TreePaths DEF Selectors, Tree
<1>6. ASSUME NEW only \in SUBSET Seq(Segments), NEW except \in SUBSET Seq(Segments)
      PROVE  /\ Selection(Partial(only, except)) /\ Partial(only, except).partial
             /\ \A r : LET h == [Partial(only, except) EXCEPT !.reset = r] IN
                  Selection(h) /\ h.partial
             /\ LET h == [Partial(only, except) EXCEPT !.scrollPrepend = TRUE] IN
                  Selection(h) /\ h.partial
  BY DEF Selection, Partial, NoHeaders
<1>7. ASSUME NEW g \in Groups, FetchGroup(g) PROVE CompleteInv'
  <2> DEFINE h    == Partial(awaiting[g], {})
             left == [awaiting EXCEPT ![g] = {}]
  <2>1. component \in Components /\ Add("fetch", h, left) /\ awaiting[g] # {}
    BY <1>2, <1>7 DEF FetchGroup
  <2>2. Selection(h) /\ h.partial
    BY <1>5, <1>6, <1>7 DEF FetchGroup
  <2>3. ASSUME NEW p \in DOMAIN Tree, OnPath(p) \cap awaiting[g] # {}
        PROVE  includedInPartialMetadata(h, p)
    <3>1. PICK y \in OnPath(p) : y \in awaiting[g]
      BY <2>3
    <3>2. StartsWith(p, y)
      <4>1. p \in Seq(Segments)
        BY <1>5, <1>7 DEF FetchGroup
      <4> QED  BY <4>1, AncestorEntries, StartsWithEntries, LenProperties DEF OnPath
    <3>3. h.only = awaiting[g] /\ h.except = {}
      BY DEF Partial, NoHeaders
    <3> QED  BY <3>1, <3>2, <3>3 DEF includedInPartialMetadata, matchesPath
  <2>4. \A f \in Groups : left[f] = awaiting[f] \/ f = g
    BY <1>5, <1>7 DEF FetchGroup
  <2> HIDE DEF h, left
  <2> QED  BY <2>1, <2>2, <2>3, <2>4, AddKeeps
<1>8. ASSUME component # NoPage,
             \E only, except \in Selectors(component) : Reload(only, except)
      PROVE  CompleteInv'
  BY <1>2, <1>5, <1>6, <1>8, AddKeeps DEF Reload
<1>9. ASSUME component # NoPage, \E only \in Selectors(component) : Reset(only)
      PROVE  CompleteInv'
  BY <1>2, <1>5, <1>6, <1>9, AddKeeps DEF Reset
<1>10. ASSUME component # NoPage, \E p \in DOMAIN trees[component] : LoadPrevious(p)
       PROVE  CompleteInv'
  BY <1>2, <1>5, <1>6, <1>10, AddKeeps DEF LoadPrevious, Tree
<1> QED  BY <1>1, <1>3, <1>4, <1>7, <1>8, <1>9, <1>10 DEF Next

(* When all deferred groups were fetched and nothing was rescued, the page *)
(* lacks nothing but what is optional or below a once prop the client may  *)
(* have in part, for every tree, every sequence of visits, fetches and     *)
(* reloads, and whatever was carried over from other pages.                *)
THEOREM PageIsComplete == Spec => []PageComplete
<1>1. Init => CompleteInv
  BY DEF Init, CompleteInv
<1>2. Spec => []CompleteInv
  BY <1>1, Invariant, NextComplete, PTL DEF Spec
<1>3. ASSUME CompleteInv, component # NoPage, awaiting = NoGroups, ~lost, NEW p \in DOMAIN Tree
      PROVE  p \in held \/ Excused(Tree, p)
  BY <1>3 DEF CompleteInv, Promised, NoGroups
<1>4. ASSUME NEW p \in DOMAIN Tree, NEW r \in Ancestors(p), Gap(Tree, r, p),
             isClosureProp(Unwrapped(Tree[r]))
      PROVE  \/ \E q \in OnPath(p) : r \in Ancestors(q) /\ \E m \in PropsAt(Tree, q) : IsLazy(m)
             \/ \E q \in Ancestors(p) : Skippable(Tree[q]) /\ ~isClosureProp(Unwrapped(Tree[q]))
  BY <1>4 DEF Gap
<1>5. CompleteInv => PageComplete
  BY <1>3, <1>4 DEF PageComplete, Excused
<1> QED  BY <1>2, <1>5, PTL
=============================================================================
