------------------------- MODULE ViteManifestProofs -------------------------
(***************************************************************************)
(* collectDeps finds exactly the closure of the import graph, for every    *)
(* manifest: what a walk has finished with is closed under imports, and    *)
(* every closed set that has the root has what was visited.  A walk that   *)
(* is over has all its imports in preload, and a chunk is added where its  *)
(* walk is over, which orders the preload links.                           *)
(***************************************************************************)
EXTENDS ViteManifest, SequenceTheorems, TLAPS

\* The running walks, each inside the loop over imports of the one before it.
StackInv ==
  /\ stage = "called" => visited = {} /\ css = <<>> /\ preload = <<>>
  /\ stage \in {"walking", "collected"} => Usable
  /\ stage = "walking" => stack # <<>> /\ stack[1] = entry
  /\ stage # "walking" => stack = <<>>
  /\ \A i \in DOMAIN stack : stack[i] \in visited /\ Present(stack[i])
  /\ \A i, j \in DOMAIN stack : stack[i] = stack[j] => i = j
  /\ \A i \in DOMAIN stack : i < Len(stack) =>
       ~MoreSheets(stack[i]) /\ MoreImports(stack[i]) /\ Import(stack[i]) = stack[i + 1]

\* What a walk has passed is in the result; a walk that is over passed it all.
ProgressInv ==
  /\ \A n \in Names : Present(n) =>
       /\ \A j \in DOMAIN entries[n].CSS :
            j < nextSheet[n] => entries[n].CSS[j] \in Elements(css)
       /\ \A j \in DOMAIN entries[n].Imports :
            j < nextImport[n] =>
              /\ entries[n].Imports[j] \in visited
              /\ HasFile(entries[n].Imports[j])
                   => entries[entries[n].Imports[j]].File \in Elements(preload)
  /\ \A n \in visited : Present(n) /\ n \notin Elements(stack)
       => ~MoreSheets(n) /\ ~MoreImports(n)

\* Nothing is visited or listed without a reason.
SoundInv ==
  /\ stage # "called" /\ Usable => entry \in visited
  /\ \A S \in SUBSET Names : entry \in S /\ Closed(S) => visited \subseteq S
  /\ \A c \in Elements(css) : \E n \in visited : c \in SheetsOf(n)
  /\ \A p \in Elements(preload) : \E n \in visited : \E m \in ImportsOf(n) :
       HasFile(m) /\ p = entries[m].File

\* cssSeen and preloadSeen do what they are for.
DistinctInv == Distinct(css) /\ Distinct(preload) /\ EachURLOnce

IInv == TypeOK /\ StackInv /\ ProgressInv /\ SoundInv /\ DistinctInv

-----------------------------------------------------------------------------
(* Sequences.                                                              *)

LEMMA ElementsAppend ==
  ASSUME NEW X, NEW s \in Seq(X), NEW x \in X
  PROVE  /\ Append(s, x) \in Seq(X)
         /\ Elements(Append(s, x)) = Elements(s) \cup {x}
<1>1. /\ DOMAIN Append(s, x) = 1..(Len(s) + 1)
      /\ \A i \in 1..Len(s) : Append(s, x)[i] = s[i]
      /\ Append(s, x)[Len(s) + 1] = x
      /\ DOMAIN s = 1..Len(s)
  OBVIOUS
<1>2. 1..(Len(s) + 1) = (1..Len(s)) \cup {Len(s) + 1}
  BY Len(s) \in Nat
<1> QED  BY <1>1, <1>2 DEF Elements

LEMMA ElementsAddOnce ==
  ASSUME NEW X, NEW s \in Seq(X), NEW x \in X
  PROVE  /\ AddOnce(s, x) \in Seq(X)
         /\ Elements(AddOnce(s, x)) = Elements(s) \cup {x}
BY ElementsAppend DEF AddOnce

LEMMA PreloadedFacts ==
  ASSUME TypeOK, NEW n \in Names
  PROVE  /\ Preloaded(n) \in Seq(Files)
         /\ Elements(preload) \subseteq Elements(Preloaded(n))
         /\ HasFile(n) => entries[n].File \in Elements(Preloaded(n))
         /\ \A p \in Elements(Preloaded(n)) :
              p \in Elements(preload) \/ (HasFile(n) /\ p = entries[n].File)
<1>1. preload \in Seq(Files)
  BY DEF TypeOK
<1>2. CASE HasFile(n)
  <2>1. entries[n].File \in Files
    BY <1>2 DEF HasFile, Present, TypeOK, Entries
  <2> QED  BY <1>1, <1>2, <2>1, ElementsAddOnce DEF Preloaded
<1>3. CASE ~HasFile(n)
  BY <1>1, <1>3 DEF Preloaded
<1> QED  BY <1>2, <1>3

LEMMA SubSeqFacts ==
  ASSUME NEW X, NEW s \in Seq(X), NEW m \in 1..(Len(s) + 1), NEW n \in 0..Len(s), m <= n + 1
  PROVE  /\ SubSeq(s, m, n) \in Seq(X)
         /\ Len(SubSeq(s, m, n)) = n - m + 1
         /\ \A i \in 1..(n - m + 1) : SubSeq(s, m, n)[i] = s[m + i - 1]
<1>1. \A i \in m..n : s[i] \in X
  OBVIOUS
<1>2. m \in Int /\ n \in Int
  OBVIOUS
<1>3. /\ SubSeq(s, m, n) \in Seq(X)
      /\ Len(SubSeq(s, m, n)) = IF m <= n THEN n - m + 1 ELSE 0
      /\ \A i \in 1..(n - m + 1) : SubSeq(s, m, n)[i] = s[m + i - 1]
  BY <1>1, <1>2, SubSeqProperties
<1> QED  BY <1>2, <1>3

\* Removing the one occurrence of main from a sequence without duplicates.
LEMMA FilteredFacts ==
  ASSUME preload \in Seq(Files), NEW main
  PROVE  /\ Filtered(main) \in Seq(Files)
         /\ Distinct(preload) => /\ Distinct(Filtered(main))
                                 /\ main \notin Elements(Filtered(main))
<1>1. CASE main \notin Elements(preload)
  BY <1>1 DEF Filtered
<1>2. CASE main \in Elements(preload)
  <2> DEFINE k == CHOOSE i \in DOMAIN preload : preload[i] = main
             a == SubSeq(preload, 1, k - 1)
             b == SubSeq(preload, k + 1, Len(preload))
  <2>1. k \in 1..Len(preload) /\ preload[k] = main /\ Len(preload) \in Nat
    BY <1>2 DEF Elements
  <2> HIDE DEF k
  <2>2. /\ a \in Seq(Files) /\ Len(a) = k - 1
        /\ \A i \in 1..(k - 1) : a[i] = preload[i]
    <3>1. 1 \in 1..(Len(preload) + 1) /\ k - 1 \in 0..Len(preload) /\ 1 <= (k - 1) + 1
      BY <2>1
    <3>2. /\ SubSeq(preload, 1, k - 1) \in Seq(Files)
          /\ Len(SubSeq(preload, 1, k - 1)) = (k - 1) - 1 + 1
          /\ \A i \in 1..((k - 1) - 1 + 1) : SubSeq(preload, 1, k - 1)[i] = preload[1 + i - 1]
      BY <3>1, SubSeqFacts
    <3> QED  BY <2>1, <3>2
  <2>3. /\ b \in Seq(Files) /\ Len(b) = Len(preload) - k
        /\ \A i \in 1..(Len(preload) - k) : b[i] = preload[k + i]
    <3>1. k + 1 \in 1..(Len(preload) + 1) /\ Len(preload) \in 0..Len(preload) /\ k + 1 <= Len(preload) + 1
      BY <2>1
    <3>2. /\ SubSeq(preload, k + 1, Len(preload)) \in Seq(Files)
          /\ Len(SubSeq(preload, k + 1, Len(preload))) = Len(preload) - (k + 1) + 1
          /\ \A i \in 1..(Len(preload) - (k + 1) + 1) :
               SubSeq(preload, k + 1, Len(preload))[i] = preload[(k + 1) + i - 1]
      BY <3>1, SubSeqFacts
    <3> QED  BY <2>1, <3>2
  <2>4. Filtered(main) = a \o b
    BY <1>2 DEF Filtered, k
  <2> HIDE DEF a, b
  <2>5. /\ a \o b \in Seq(Files)
        /\ Len(a \o b) = Len(preload) - 1
        /\ DOMAIN (a \o b) = 1..(Len(preload) - 1)
    <3>1. a \o b \in Seq(Files) /\ Len(a \o b) = Len(a) + Len(b)
      BY <2>2, <2>3, ConcatProperties
    <3>2. Len(a \o b) = Len(preload) - 1
      BY <2>1, <2>2, <2>3, <3>1
    <3>3. DOMAIN (a \o b) = 1..Len(a \o b)
      BY <3>1
    <3> QED  BY <3>1, <3>2, <3>3
  <2>6. ASSUME NEW i \in DOMAIN (a \o b)
        PROVE  LET l == IF i <= k - 1 THEN i ELSE i + 1 IN
               /\ l \in DOMAIN preload /\ l # k
               /\ (a \o b)[i] = preload[l]
    <3>1. CASE i <= k - 1
      <4>1. i \in 1..(k - 1) /\ i \in 1..Len(preload) /\ i # k
        BY <2>1, <2>5, <3>1
      <4>2. (a \o b)[i] = a[i]
        BY <2>2, <2>3, <4>1
      <4> QED  BY <2>1, <2>2, <3>1, <4>1, <4>2
    <3>2. CASE ~(i <= k - 1)
      <4>1. /\ i - (k - 1) \in 1..(Len(preload) - k)
            /\ k + (i - (k - 1)) = i + 1 /\ i + 1 \in 1..Len(preload) /\ i + 1 # k
        BY <2>1, <2>5, <3>2
      <4>2. (a \o b)[i] = b[i - (k - 1)]
        BY <2>1, <2>2, <2>3, <2>5, <3>2
      <4>3. b[i - (k - 1)] = preload[k + (i - (k - 1))]
        BY <2>3, <4>1
      <4> QED  BY <3>2, <4>1, <4>2, <4>3
    <3> QED  BY <3>1, <3>2
  <2>7. Distinct(preload) => Distinct(a \o b) /\ main \notin Elements(a \o b)
    <3> SUFFICES ASSUME Distinct(preload)
                 PROVE  Distinct(a \o b) /\ main \notin Elements(a \o b)
      OBVIOUS
    <3>1. main \notin Elements(a \o b)
      BY <2>1, <2>6 DEF Distinct, Elements
    <3>2. ASSUME NEW i \in DOMAIN (a \o b), NEW j \in DOMAIN (a \o b), (a \o b)[i] = (a \o b)[j]
          PROVE  i = j
      <4> DEFINE l(n) == IF n <= k - 1 THEN n ELSE n + 1
      <4>1. l(i) = l(j)
        BY <2>6, <3>2 DEF Distinct
      <4> QED  BY <2>1, <2>5, <4>1
    <3> QED  BY <3>1, <3>2 DEF Distinct
  <2> QED  BY <2>4, <2>5, <2>7
<1> QED  BY <1>1, <1>2

\* What Return leaves on the stack.
LEMMA PopFacts ==
  ASSUME TypeOK, Len(stack) > 1, NEW s, s = SubSeq(stack, 1, Len(stack) - 1)
  PROVE  /\ s \in Seq(Names) /\ Len(s) = Len(stack) - 1 /\ s # <<>>
         /\ Len(stack) \in Nat
         /\ DOMAIN s = 1..(Len(stack) - 1)
         /\ \A i \in DOMAIN s : i \in DOMAIN stack /\ s[i] = stack[i]
         /\ Len(stack) - 1 \in DOMAIN stack /\ stack[Len(stack) - 1] \in Names
<1>1. stack \in Seq(Names) /\ Len(stack) \in Nat /\ DOMAIN stack = 1..Len(stack)
  BY DEF TypeOK
<1>2. 1 \in 1..(Len(stack) + 1) /\ Len(stack) - 1 \in 0..Len(stack) /\ 1 <= (Len(stack) - 1) + 1
  BY <1>1
<1>3. /\ s \in Seq(Names)
      /\ Len(s) = (Len(stack) - 1) - 1 + 1
      /\ \A i \in 1..((Len(stack) - 1) - 1 + 1) : s[i] = stack[1 + i - 1]
  BY <1>1, <1>2, SubSeqFacts
<1>4. DOMAIN s = 1..(Len(stack) - 1) /\ Len(s) = Len(stack) - 1
  BY <1>1, <1>3
<1>5. \A i \in 1..(Len(stack) - 1) : s[i] = stack[i]
  <2> TAKE i \in 1..(Len(stack) - 1)
  <2>1. i \in 1..((Len(stack) - 1) - 1 + 1) /\ 1 + i - 1 = i
    BY <1>1
  <2> QED  BY <1>3, <2>1
<1>6. Len(stack) - 1 \in DOMAIN stack /\ stack[Len(stack) - 1] \in Names
  BY <1>1
<1>7. s # <<>>
  <2>1. Len(s) # 0
    BY <1>1, <1>4
  <2> QED  BY <1>3, <2>1, EmptySeq
<1> QED  BY <1>1, <1>3, <1>4, <1>5, <1>6, <1>7

LEMMA TopFacts ==
  ASSUME TypeOK, StackInv, stage = "walking"
  PROVE  /\ Top \in Names /\ Top \in visited /\ Present(Top) /\ Usable
         /\ Len(stack) \in DOMAIN stack /\ Len(stack) \in Nat \ {0}
         /\ Top = stack[Len(stack)]
         /\ entries[Top] \in Entries
<1>1. stack \in Seq(Names) /\ stack # <<>>
  BY DEF TypeOK, StackInv
<1>2. Len(stack) \in Nat \ {0} /\ Len(stack) \in DOMAIN stack /\ Top \in Names
  BY <1>1 DEF Top
<1> QED  BY <1>2 DEF Top, TypeOK, StackInv, Present

-----------------------------------------------------------------------------
(* Types.                                                                  *)

LEMMA InitTypeOK == Init => TypeOK
<1> SUFFICES ASSUME Init PROVE TypeOK
  OBVIOUS
<1>1. entries \in [Names -> Entries \cup {NoEntry}] /\ entry \in Names
  BY ManifestAssumption, RootsAssumption DEF Init
<1>2. <<>> \in Seq(Names) /\ <<>> \in Seq(Sheets) /\ <<>> \in Seq(Files)
  OBVIOUS
<1> QED  BY <1>1, <1>2 DEF Init, TypeOK

LEMMA LinksType ==
  ASSUME NEW p \in Seq(Files), NEW c \in Seq(Sheets)
  PROVE  [preload |-> p, css |-> c] \in [preload : Seq(Files), css : Seq(Sheets)]
OBVIOUS

LEMMA NextTypeOK ==
  ASSUME TypeOK, StackInv, [Next]_vars
  PROVE  TypeOK'
<1> USE DEF TypeOK, input, walk, deps, output
<1>1. CASE Missing
  BY <1>1 DEF Missing
<1>2. CASE CollectDeps
  <2>1. <<entry>> \in Seq(Names)
    OBVIOUS
  <2> QED  BY <1>2, <2>1 DEF CollectDeps
<1>3. CASE Sheet
  <2>1. stage = "walking"
    BY <1>3 DEF Sheet
  <2>2. Top \in Names /\ entries[Top] \in Entries
    BY <2>1, TopFacts
  <2>3. nextSheet[Top] \in DOMAIN entries[Top].CSS
    BY <1>3, <2>2 DEF Sheet, MoreSheets, Entries
  <2>4. entries[Top].CSS[nextSheet[Top]] \in Sheets
    BY <2>2, <2>3 DEF Entries
  <2>5. css' \in Seq(Sheets)
    BY <1>3, <2>4, ElementsAddOnce DEF Sheet
  <2> QED  BY <1>3, <2>2, <2>5 DEF Sheet
<1>4. CASE Descend
  <2>1. Top \in Names /\ entries[Top] \in Entries
    BY <1>4, TopFacts DEF Descend
  <2>2. Import(Top) \in Names
    BY <1>4, <2>1 DEF Descend, MoreImports, Import, Entries
  <2>3. Append(stack, Import(Top)) \in Seq(Names)
    BY <2>2
  <2> QED  BY <1>4, <2>2, <2>3 DEF Descend
<1>5. CASE Skip
  <2>1. Top \in Names /\ entries[Top] \in Entries
    BY <1>5, TopFacts DEF Skip
  <2>2. Import(Top) \in Names
    BY <1>5, <2>1 DEF Skip, MoreImports, Import, Entries
  <2>3. Preloaded(Import(Top)) \in Seq(Files)
    BY <2>2, PreloadedFacts
  <2> QED  BY <1>5, <2>1, <2>2, <2>3 DEF Skip
<1>6. CASE Return
  <2>1. Top \in Names /\ Len(stack) \in Nat
    BY <1>6, TopFacts DEF Return
  <2>2. SubSeq(stack, 1, Len(stack) - 1) \in Seq(Names) /\ stack[Len(stack) - 1] \in Names
    BY <1>6, PopFacts DEF Return
  <2>3. Preloaded(Top) \in Seq(Files)
    BY <2>1, PreloadedFacts
  <2>4. nextImport' \in [Names -> Nat \ {0}]
    <3>1. nextImport' = [nextImport EXCEPT ![stack[Len(stack) - 1]] = @ + 1]
      BY <1>6 DEF Return
    <3> QED  BY <2>2, <3>1
  <2> QED  BY <1>6, <2>2, <2>3, <2>4 DEF Return
<1>7. CASE Collected
  <2>1. <<>> \in Seq(Names)
    OBVIOUS
  <2> QED  BY <1>7, <2>1 DEF Collected
<1>8. CASE Reply
  <2>1. Filtered(entries[entry].File) \in Seq(Files) /\ <<>> \in Seq(Files)
    BY FilteredFacts
  <2>2. op = "Tag" => entries[entry].File \in Files
    BY <1>8 DEF Reply, ProdTag, CSSLinks, StackInv, Usable, HasFile, Present, Entries
  <2>3. css \in Seq(Sheets)
    OBVIOUS
  <2>4. links' \in [preload : Seq(Files), css : Seq(Sheets)]
    <3> DEFINE f == Filtered(entries[entry].File)
    <3>1. f \in Seq(Files)
      BY <2>1
    <3> HIDE DEF f
    <3>2. links' = [preload |-> f, css |-> css] \/ links' = [preload |-> <<>>, css |-> css]
      BY <1>8 DEF Reply, ProdTag, CSSLinks, f
    <3> QED  BY <2>1, <2>3, <3>1, <3>2, LinksType
  <2>5. script' \in Files \cup {NoFile}
    BY <1>8, <2>2 DEF Reply, ProdTag, CSSLinks
  <2> QED  BY <1>8, <2>4, <2>5 DEF Reply, ProdTag, CSSLinks
<1>9. CASE UNCHANGED vars
  BY <1>9 DEF vars
<1> QED  BY <1>1, <1>2, <1>3, <1>4, <1>5, <1>6, <1>7, <1>8, <1>9 DEF Next

-----------------------------------------------------------------------------
(* The stack.                                                              *)

LEMMA NextStackInv ==
  ASSUME TypeOK, StackInv, [Next]_vars, TypeOK'
  PROVE  StackInv'
<1>0. /\ stack \in Seq(Names) /\ DOMAIN stack = 1..Len(stack) /\ Len(stack) \in Nat
      /\ nextSheet \in [Names -> Nat \ {0}] /\ nextImport \in [Names -> Nat \ {0}]
  <2>1. stack \in Seq(Names)
    BY DEF TypeOK
  <2>2. DOMAIN stack = 1..Len(stack) /\ Len(stack) \in Nat
    BY <2>1
  <2> QED  BY <2>1, <2>2 DEF TypeOK
<1>d. \A i, j \in DOMAIN stack : stack[i] = stack[j] => i = j
  BY DEF StackInv
<1> USE DEF input, walk, deps, output, MoreSheets, MoreImports, Import, Usable, HasFile, Present
<1>1. CASE Missing
  BY <1>1 DEF Missing, StackInv
<1>2. CASE CollectDeps
  <2>1. DOMAIN stack' = {1} /\ stack'[1] = entry /\ Len(stack') = 1 /\ stack' # <<>>
    BY <1>2 DEF CollectDeps
  <2> QED  BY <1>2, <2>1 DEF CollectDeps, StackInv
<1>3. CASE Sheet
  <2>1. stage = "walking"
    BY <1>3 DEF Sheet
  <2>2. Top \in Names /\ Top = stack[Len(stack)] /\ Len(stack) \in DOMAIN stack
    BY <2>1, TopFacts
  <2>3. \A i \in DOMAIN stack : i < Len(stack) =>
          stack[i] # Top /\ stack[i] \in Names
    BY <1>0, <2>2 DEF StackInv
  <2>4. \A i \in DOMAIN stack : i < Len(stack) =>
          nextSheet'[stack[i]] = nextSheet[stack[i]]
    BY <1>0, <1>3, <2>2, <2>3 DEF Sheet
  <2> QED  BY <1>3, <2>4 DEF Sheet, StackInv
<1>4. CASE Descend
  <2> DEFINE imp == Import(Top)
  <2>1. /\ Top \in Names /\ Top = stack[Len(stack)] /\ Len(stack) \in DOMAIN stack
        /\ Len(stack) \in Nat \ {0} /\ entries[Top] \in Entries
    BY <1>4, TopFacts DEF Descend
  <2>2. imp \in Names
    BY <1>4, <2>1 DEF Descend, Entries, TypeOK
  <2>3. /\ DOMAIN stack' = 1..(Len(stack) + 1) /\ Len(stack') = Len(stack) + 1
        /\ \A i \in DOMAIN stack : stack'[i] = stack[i]
        /\ stack'[Len(stack) + 1] = imp /\ stack' # <<>>
    BY <1>0, <1>4, <2>2 DEF Descend
  <2>4. \A i \in DOMAIN stack : stack[i] # imp
    BY <1>4 DEF Descend, StackInv
  <2>5. \A i, j \in DOMAIN stack' : stack'[i] = stack'[j] => i = j
    BY <1>0, <2>3, <2>4 DEF StackInv
  <2>6. \A i \in DOMAIN stack' : stack'[i] \in visited' /\ Present(stack'[i])
    BY <1>0, <1>4, <2>3 DEF Descend, StackInv
  <2>7. \A i \in DOMAIN stack' : i < Len(stack') =>
          ~MoreSheets(stack'[i]) /\ MoreImports(stack'[i]) /\ Import(stack'[i]) = stack'[i + 1]
    <3> SUFFICES ASSUME NEW i \in DOMAIN stack', i < Len(stack')
                 PROVE  ~MoreSheets(stack'[i]) /\ MoreImports(stack'[i])
                          /\ Import(stack'[i]) = stack'[i + 1]
      OBVIOUS
    <3>1. CASE i = Len(stack)
      BY <1>4, <2>1, <2>3, <3>1 DEF Descend
    <3>2. CASE i # Len(stack)
      <4>1. i \in DOMAIN stack /\ i < Len(stack) /\ i + 1 \in DOMAIN stack
        BY <1>0, <2>1, <2>3, <3>2
      <4>2. ~MoreSheets(stack[i]) /\ MoreImports(stack[i]) /\ Import(stack[i]) = stack[i + 1]
        BY <4>1 DEF StackInv
      <4> QED  BY <2>3, <4>1, <4>2
    <3> QED  BY <3>1, <3>2
  <2>8. stack'[1] = entry
    BY <1>4, <2>1, <2>3 DEF Descend, StackInv
  <2> QED  BY <1>4, <2>3, <2>5, <2>6, <2>7, <2>8 DEF Descend, StackInv
<1>5. CASE Skip
  <2>1. /\ Top \in Names /\ Top = stack[Len(stack)] /\ Len(stack) \in DOMAIN stack
    BY <1>5, TopFacts DEF Skip
  <2>2. \A i \in DOMAIN stack : i < Len(stack) =>
          stack[i] # Top /\ stack[i] \in Names
    BY <1>0, <2>1 DEF StackInv
  <2>3. \A i \in DOMAIN stack : i < Len(stack) =>
          nextImport'[stack[i]] = nextImport[stack[i]]
    BY <1>0, <1>5, <2>1, <2>2 DEF Skip
  <2> QED  BY <1>5, <2>3 DEF Skip, StackInv
<1>6. CASE Return
  <2> DEFINE up == stack[Len(stack) - 1]
  <2>1. stack' = SubSeq(stack, 1, Len(stack) - 1) /\ Len(stack) > 1
    BY <1>6 DEF Return
  <2>2. /\ Len(stack') = Len(stack) - 1 /\ stack' # <<>>
        /\ DOMAIN stack' = 1..(Len(stack) - 1)
        /\ \A i \in DOMAIN stack' : i \in DOMAIN stack /\ stack'[i] = stack[i]
        /\ Len(stack) - 1 \in DOMAIN stack /\ up \in Names
    BY <2>1, PopFacts
  <2>3. \A i \in DOMAIN stack' : i < Len(stack') =>
          /\ stack[i] # up /\ stack[i] \in Names
          /\ i + 1 \in DOMAIN stack' /\ i < Len(stack)
    <3> SUFFICES ASSUME NEW i \in DOMAIN stack', i < Len(stack')
                 PROVE  /\ stack[i] # up /\ stack[i] \in Names
                        /\ i + 1 \in DOMAIN stack' /\ i < Len(stack)
      OBVIOUS
    <3>1. i \in DOMAIN stack /\ i # Len(stack) - 1 /\ i + 1 \in DOMAIN stack' /\ i < Len(stack)
      <4>1. i \in 1..(Len(stack) - 1) /\ i < Len(stack) - 1 /\ Len(stack) \in Nat
        BY <1>0, <2>2
      <4>2. i + 1 \in 1..(Len(stack) - 1) /\ i \in 1..Len(stack) /\ i < Len(stack)
        BY <4>1
      <4> QED  BY <1>0, <2>2, <4>1, <4>2
    <3>2. stack[i] # up
      BY <1>d, <2>2, <3>1
    <3>3. stack[i] \in Names
      BY <1>0, <3>1
    <3> QED  BY <3>1, <3>2, <3>3
  <2>4. \A i \in DOMAIN stack' : i < Len(stack') =>
          nextImport'[stack[i]] = nextImport[stack[i]]
    BY <1>0, <1>6, <2>2, <2>3 DEF Return
  <2>5. \A i \in DOMAIN stack' : i < Len(stack') =>
          (~MoreSheets(stack[i]) /\ MoreImports(stack[i]) /\ Import(stack[i]) = stack[i + 1])'
    <3> SUFFICES ASSUME NEW i \in DOMAIN stack', i < Len(stack')
                 PROVE  (/\ ~MoreSheets(stack[i])
                         /\ MoreImports(stack[i])
                         /\ Import(stack[i]) = stack[i + 1])'
      OBVIOUS
    <3>1. ~MoreSheets(stack[i]) /\ MoreImports(stack[i]) /\ Import(stack[i]) = stack[i + 1]
      BY <2>2, <2>3 DEF StackInv
    <3>2. stack'[i] = stack[i] /\ stack'[i + 1] = stack[i + 1]
      BY <2>2, <2>3
    <3> QED  BY <1>6, <2>4, <3>1, <3>2 DEF Return
  <2>6. stack'[1] = entry
    BY <1>0, <1>6, <2>1, <2>2 DEF Return, StackInv
  <2> QED  BY <1>6, <2>2, <2>3, <2>5, <2>6 DEF Return, StackInv
<1>7. CASE Collected
  BY <1>7 DEF Collected, StackInv
<1>8. CASE Reply
  BY <1>8 DEF Reply, ProdTag, CSSLinks, StackInv
<1>9. CASE UNCHANGED vars
  BY <1>9 DEF vars, StackInv
<1> QED  BY <1>1, <1>2, <1>3, <1>4, <1>5, <1>6, <1>7, <1>8, <1>9 DEF Next

-----------------------------------------------------------------------------
(* Progress.                                                               *)

\* The import Top is at.
LEMMA ImportFacts ==
  ASSUME TypeOK, StackInv, stage = "walking", MoreImports(Top)
  PROVE  /\ nextImport[Top] \in DOMAIN entries[Top].Imports
         /\ Import(Top) = entries[Top].Imports[nextImport[Top]]
         /\ Import(Top) \in Names /\ Import(Top) \in ImportsOf(Top)
<1>1. Top \in Names /\ entries[Top] \in Entries /\ Present(Top)
  BY TopFacts
<1>2. nextImport[Top] \in Nat \ {0} /\ nextImport[Top] <= Len(entries[Top].Imports)
  BY <1>1 DEF MoreImports, TypeOK
<1>3. nextImport[Top] \in DOMAIN entries[Top].Imports
  BY <1>1, <1>2 DEF Entries
<1>4. entries[Top].Imports[nextImport[Top]] \in Names
  BY <1>1, <1>3 DEF Entries
<1> QED  BY <1>1, <1>3, <1>4 DEF Import, ImportsOf, Elements

\* The walk below Top, when Top returns.
LEMMA UpFacts ==
  ASSUME TypeOK, StackInv, stage = "walking", Len(stack) > 1,
         NEW up, up = stack[Len(stack) - 1]
  PROVE  /\ up \in Names /\ up \in visited /\ Present(up) /\ up # Top
         /\ up \in Elements(SubSeq(stack, 1, Len(stack) - 1))
         /\ nextImport[up] \in DOMAIN entries[up].Imports
         /\ entries[up].Imports[nextImport[up]] = Top
         /\ Top \in ImportsOf(up)
         /\ Elements(stack) \subseteq Elements(SubSeq(stack, 1, Len(stack) - 1)) \cup {Top}
<1> DEFINE s == SubSeq(stack, 1, Len(stack) - 1)
<1>1. /\ Len(stack) \in Nat /\ Len(s) = Len(stack) - 1
      /\ DOMAIN s = 1..(Len(stack) - 1)
      /\ \A i \in DOMAIN s : i \in DOMAIN stack /\ s[i] = stack[i]
      /\ Len(stack) - 1 \in DOMAIN stack /\ up \in Names
  BY PopFacts
<1>2. DOMAIN stack = 1..Len(stack) /\ Len(stack) \in DOMAIN stack /\ Top = stack[Len(stack)]
  BY TopFacts DEF TypeOK
<1>3. Len(stack) - 1 < Len(stack) /\ Len(stack) - 1 # Len(stack) /\ (Len(stack) - 1) + 1 = Len(stack)
  BY <1>1
<1>4. up # Top
  BY <1>1, <1>2, <1>3 DEF StackInv
<1>5. up \in visited /\ Present(up) /\ MoreImports(up) /\ Import(up) = Top
  <2>1. MoreImports(stack[Len(stack) - 1]) /\ Import(stack[Len(stack) - 1]) = stack[(Len(stack) - 1) + 1]
    BY <1>1, <1>3 DEF StackInv
  <2> QED  BY <1>1, <1>2, <1>3, <2>1 DEF StackInv
<1>6. up \in Elements(s)
  <2> HIDE DEF s
  <2>0. Len(stack) - 1 \in 1..(Len(stack) - 1)
    BY <1>1
  <2>1. Len(stack) - 1 \in DOMAIN s /\ s[Len(stack) - 1] = up
    BY <1>1, <2>0
  <2> QED  BY <2>1 DEF Elements
<1>7. entries[up] \in Entries /\ nextImport[up] \in Nat \ {0}
  BY <1>1, <1>5 DEF TypeOK, Present
<1>8. nextImport[up] \in DOMAIN entries[up].Imports /\ entries[up].Imports[nextImport[up]] = Top
  BY <1>5, <1>7 DEF MoreImports, Import, Entries
<1>9. Elements(stack) \subseteq Elements(s) \cup {Top}
  <2> SUFFICES ASSUME NEW i \in DOMAIN stack, i # Len(stack)
               PROVE  stack[i] \in Elements(s)
    BY <1>2 DEF Elements
  <2>1. i \in DOMAIN s
    BY <1>1, <1>2
  <2> QED  BY <1>1, <2>1 DEF Elements
<1> QED  BY <1>1, <1>4, <1>5, <1>6, <1>8, <1>9 DEF ImportsOf, Elements

LEMMA NextProgressInv ==
  ASSUME TypeOK, StackInv, ProgressInv, [Next]_vars, TypeOK', StackInv'
  PROVE  ProgressInv'
<1>1. CASE Missing
  BY <1>1 DEF Missing, ProgressInv, input, walk, deps, Present, HasFile, MoreSheets, MoreImports
<1>2. CASE CollectDeps
  <2>1. visited = {} /\ visited' = {entry} /\ entry \in Elements(stack')
    <3>1. stack' = <<entry>> /\ DOMAIN <<entry>> = {1} /\ <<entry>>[1] = entry
      BY <1>2 DEF CollectDeps
    <3> QED  BY <1>2, <3>1 DEF CollectDeps, StackInv, Elements
  <2> QED  BY <1>2, <2>1 DEF CollectDeps, ProgressInv, input, deps, Present, HasFile
<1>3. CASE Sheet
  <2>1. /\ Top \in Names /\ Present(Top) /\ entries[Top] \in Entries
        /\ Top \in Elements(stack) /\ nextSheet[Top] \in Nat
    BY <1>3, TopFacts DEF Sheet, Elements, TypeOK
  <2>2. nextSheet[Top] \in DOMAIN entries[Top].CSS
    BY <1>3, <2>1 DEF Sheet, MoreSheets, Entries, TypeOK
  <2>3. entries[Top].CSS[nextSheet[Top]] \in Sheets
    BY <2>1, <2>2 DEF Entries
  <2>4. Elements(css') = Elements(css) \cup {entries[Top].CSS[nextSheet[Top]]}
    <3>1. css' = AddOnce(css, entries[Top].CSS[nextSheet[Top]]) /\ css \in Seq(Sheets)
      BY <1>3 DEF Sheet, TypeOK
    <3> QED  BY <2>3, <3>1, ElementsAddOnce
  <2>5. nextSheet' = [nextSheet EXCEPT ![Top] = nextSheet[Top] + 1] /\ nextSheet \in [Names -> Nat \ {0}]
    BY <1>3 DEF Sheet, TypeOK
  <2>6. /\ entries' = entries /\ visited' = visited /\ stack' = stack
        /\ nextImport' = nextImport /\ preload' = preload
    BY <1>3 DEF Sheet, input
  <2>7. ASSUME NEW n \in Names, Present(n), NEW j \in DOMAIN entries[n].CSS, j < nextSheet'[n]
        PROVE  entries[n].CSS[j] \in Elements(css')
    <3>1. CASE n = Top /\ j = nextSheet[Top]
      BY <2>4, <3>1
    <3>2. CASE n = Top /\ j # nextSheet[Top]
      <4>1. j < nextSheet[n]
        <5>1. nextSheet'[n] = nextSheet[n] + 1
          BY <2>5, <3>2
        <5>2. j \in Nat
          BY <2>1, <3>2 DEF Entries
        <5> QED  BY <2>1, <2>7, <3>2, <5>1, <5>2
      <4> QED  BY <2>4, <2>7, <4>1 DEF ProgressInv
    <3>3. CASE n # Top
      BY <2>4, <2>5, <2>7, <3>3 DEF ProgressInv
    <3> QED  BY <3>1, <3>2, <3>3
  <2>8. \A n \in visited : n \notin Elements(stack) => nextSheet'[n] = nextSheet[n]
    BY <2>1, <2>5 DEF TypeOK
  <2> QED  BY <2>6, <2>7, <2>8 DEF ProgressInv, Present, HasFile, MoreSheets, MoreImports
<1>4. CASE Descend
  <2>1. Import(Top) \in Names /\ stack \in Seq(Names)
    BY <1>4, ImportFacts DEF Descend, TypeOK
  <2>2. Elements(stack') = Elements(stack) \cup {Import(Top)}
    BY <1>4, <2>1, ElementsAppend DEF Descend
  <2> QED  BY <1>4, <2>2 DEF Descend, ProgressInv, input, deps, Present, HasFile, MoreSheets, MoreImports
<1>5. CASE Skip
  <2> DEFINE imp == Import(Top)
  <2>1. /\ Top \in Names /\ Present(Top) /\ entries[Top] \in Entries
        /\ Top \in Elements(stack) /\ nextImport[Top] \in Nat
    BY <1>5, TopFacts DEF Skip, Elements, TypeOK
  <2>2. imp \in Names /\ imp = entries[Top].Imports[nextImport[Top]]
    BY <1>5, ImportFacts DEF Skip
  <2>3. /\ Elements(preload) \subseteq Elements(preload')
        /\ HasFile(imp) => entries[imp].File \in Elements(preload')
    BY <1>5, <2>2, PreloadedFacts DEF Skip
  <2>4. /\ nextImport' = [nextImport EXCEPT ![Top] = nextImport[Top] + 1]
        /\ nextImport \in [Names -> Nat \ {0}]
    BY <1>5 DEF Skip, TypeOK
  <2>5. /\ entries' = entries /\ visited' = visited \cup {imp} /\ stack' = stack
        /\ nextSheet' = nextSheet /\ css' = css
        /\ imp \in visited \/ ~Present(imp)
    BY <1>5 DEF Skip, input
  <2> HIDE DEF imp
  <2>6. ASSUME NEW n \in Names, Present(n), NEW j \in DOMAIN entries[n].Imports, j < nextImport'[n]
        PROVE  /\ entries[n].Imports[j] \in visited'
               /\ HasFile(entries[n].Imports[j])
                    => entries[entries[n].Imports[j]].File \in Elements(preload')
    <3>1. CASE n = Top /\ j = nextImport[Top]
      BY <2>2, <2>3, <2>5, <3>1
    <3>2. CASE n = Top /\ j # nextImport[Top]
      <4>1. j < nextImport[n]
        <5>1. nextImport'[n] = nextImport[n] + 1
          BY <2>4, <3>2
        <5>2. j \in Nat
          BY <2>1, <3>2 DEF Entries
        <5> QED  BY <2>1, <2>6, <3>2, <5>1, <5>2
      <4> QED  BY <2>3, <2>5, <2>6, <4>1 DEF ProgressInv
    <3>3. CASE n # Top
      BY <2>3, <2>4, <2>5, <2>6, <3>3 DEF ProgressInv
    <3> QED  BY <3>1, <3>2, <3>3
  <2>7. \A n \in visited : n \notin Elements(stack) => nextImport'[n] = nextImport[n]
    BY <2>1, <2>4 DEF TypeOK
  <2> QED  BY <2>5, <2>6, <2>7 DEF ProgressInv, Present, HasFile, MoreSheets, MoreImports
<1>6. CASE Return
  <2> DEFINE up == stack[Len(stack) - 1]
  <2>1. /\ up \in Names /\ up # Top /\ up \in Elements(stack')
        /\ entries[up].Imports[nextImport[up]] = Top /\ nextImport[up] \in Nat
        /\ Present(up) /\ entries[up] \in Entries
        /\ Elements(stack) \subseteq Elements(stack') \cup {Top}
    BY <1>6, UpFacts DEF Return, TypeOK, Present
  <2>2. Top \in Names /\ Top \in visited /\ ~MoreSheets(Top) /\ ~MoreImports(Top)
    BY <1>6, TopFacts DEF Return
  <2>3. /\ Elements(preload) \subseteq Elements(preload')
        /\ HasFile(Top) => entries[Top].File \in Elements(preload')
    BY <1>6, <2>2, PreloadedFacts DEF Return
  <2>4. /\ nextImport' = [nextImport EXCEPT ![up] = nextImport[up] + 1]
        /\ nextImport \in [Names -> Nat \ {0}]
    BY <1>6 DEF Return, TypeOK
  <2>5. entries' = entries /\ visited' = visited /\ nextSheet' = nextSheet /\ css' = css
    BY <1>6 DEF Return, input
  <2> HIDE DEF up
  <2>6. ASSUME NEW n \in Names, Present(n), NEW j \in DOMAIN entries[n].Imports, j < nextImport'[n]
        PROVE  /\ entries[n].Imports[j] \in visited
               /\ HasFile(entries[n].Imports[j])
                    => entries[entries[n].Imports[j]].File \in Elements(preload')
    <3>1. CASE n = up /\ j = nextImport[up]
      BY <2>1, <2>2, <2>3, <3>1
    <3>2. CASE n = up /\ j # nextImport[up]
      <4>1. j < nextImport[n]
        <5>1. nextImport'[n] = nextImport[n] + 1
          BY <2>4, <3>2
        <5>2. j \in Nat
          BY <2>1, <3>2 DEF Entries
        <5> QED  BY <2>1, <2>6, <3>2, <5>1, <5>2
      <4> QED  BY <2>3, <2>6, <4>1 DEF ProgressInv
    <3>3. CASE n # up
      BY <2>3, <2>4, <2>6, <3>3 DEF ProgressInv
    <3> QED  BY <3>1, <3>2, <3>3
  <2>7. \A n \in visited : n \notin Elements(stack') => nextImport'[n] = nextImport[n]
    BY <2>1, <2>4 DEF TypeOK
  <2>8. \A n \in visited : n \notin Elements(stack') => n = Top \/ n \notin Elements(stack)
    BY <2>1
  <2> QED  BY <2>2, <2>5, <2>6, <2>7, <2>8 DEF ProgressInv, Present, HasFile, MoreSheets, MoreImports
<1>7. CASE Collected
  <2>1. \A n \in Elements(stack) : n = Top
    BY <1>7, TopFacts DEF Collected, Elements, TypeOK, Top
  <2> QED  BY <1>7, <2>1 DEF Collected, ProgressInv, input, deps, Present, HasFile, MoreSheets, MoreImports
<1>8. CASE Reply
  BY <1>8 DEF Reply, ProdTag, CSSLinks, ProgressInv, input, walk, deps, Present, HasFile, MoreSheets, MoreImports
<1>9. CASE UNCHANGED vars
  BY <1>9 DEF vars, ProgressInv, input, walk, deps, Present, HasFile, MoreSheets, MoreImports
<1> QED  BY <1>1, <1>2, <1>3, <1>4, <1>5, <1>6, <1>7, <1>8, <1>9 DEF Next

-----------------------------------------------------------------------------
(* Soundness.                                                              *)

LEMMA NextSoundInv ==
  ASSUME TypeOK, StackInv, SoundInv, [Next]_vars, TypeOK'
  PROVE  SoundInv'
<1> USE DEF Closed, ImportsOf, SheetsOf, HasFile, Present, Usable
<1>1. CASE Missing
  BY <1>1 DEF Missing, SoundInv, input, walk, deps
<1>2. CASE CollectDeps
  <2>1. /\ visited' = {entry} /\ css' = <<>> /\ preload' = <<>>
        /\ entries' = entries /\ entry' = entry
    BY <1>2 DEF CollectDeps, StackInv, input, deps
  <2>2. Elements(<<>>) = {}
    BY DEF Elements
  <2> QED  BY <2>1, <2>2 DEF SoundInv
<1>3. CASE Sheet
  <2> DEFINE sheet == entries[Top].CSS[nextSheet[Top]]
  <2>1. /\ Top \in Names /\ Top \in visited /\ Present(Top) /\ entries[Top] \in Entries
    BY <1>3, TopFacts DEF Sheet
  <2>2. nextSheet[Top] \in DOMAIN entries[Top].CSS
    BY <1>3, <2>1 DEF Sheet, MoreSheets, Entries, TypeOK
  <2>3. sheet \in Sheets /\ sheet \in SheetsOf(Top)
    BY <2>1, <2>2 DEF Entries, Elements
  <2>4. Elements(css') = Elements(css) \cup {sheet}
    <3>1. css' = AddOnce(css, sheet) /\ css \in Seq(Sheets)
      BY <1>3 DEF Sheet, TypeOK
    <3> QED  BY <2>3, <3>1, ElementsAddOnce
  <2>5. /\ entries' = entries /\ entry' = entry /\ op' = op /\ visited' = visited
        /\ preload' = preload /\ stage' = stage
    BY <1>3 DEF Sheet, input
  <2> HIDE DEF sheet
  <2> QED  BY <1>3, <2>1, <2>3, <2>4, <2>5 DEF SoundInv, Sheet
<1>4. CASE Descend
  <2>1. Top \in visited /\ Import(Top) \in ImportsOf(Top)
    BY <1>4, TopFacts, ImportFacts DEF Descend
  <2> QED  BY <1>4, <2>1 DEF Descend, SoundInv, input, deps
<1>5. CASE Skip
  <2> DEFINE imp == Import(Top)
  <2>1. Top \in visited /\ imp \in ImportsOf(Top) /\ imp \in Names
    BY <1>5, TopFacts, ImportFacts DEF Skip
  <2>2. \A p \in Elements(preload') :
          p \in Elements(preload) \/ (HasFile(imp) /\ p = entries[imp].File)
    BY <1>5, <2>1, PreloadedFacts DEF Skip
  <2>3. /\ entries' = entries /\ entry' = entry /\ op' = op /\ visited' = visited \cup {imp}
        /\ css' = css /\ stage' = stage
    BY <1>5 DEF Skip, input
  <2> HIDE DEF imp
  <2> QED  BY <1>5, <2>1, <2>2, <2>3 DEF SoundInv
<1>6. CASE Return
  <2> DEFINE up == stack[Len(stack) - 1]
  <2>1. up \in visited /\ Top \in ImportsOf(up) /\ Top \in Names
    BY <1>6, TopFacts, UpFacts DEF Return
  <2>2. \A p \in Elements(preload') :
          p \in Elements(preload) \/ (HasFile(Top) /\ p = entries[Top].File)
    BY <1>6, <2>1, PreloadedFacts DEF Return
  <2>3. /\ entries' = entries /\ entry' = entry /\ op' = op /\ visited' = visited
        /\ css' = css /\ stage' = stage
    BY <1>6 DEF Return, input
  <2> HIDE DEF up
  <2> QED  BY <1>6, <2>1, <2>2, <2>3 DEF SoundInv
<1>7. CASE Collected
  BY <1>7 DEF Collected, SoundInv, input, deps
<1>8. CASE Reply
  BY <1>8 DEF Reply, ProdTag, CSSLinks, SoundInv, input, walk, deps
<1>9. CASE UNCHANGED vars
  BY <1>9 DEF vars, SoundInv, input, walk, deps
<1> QED  BY <1>1, <1>2, <1>3, <1>4, <1>5, <1>6, <1>7, <1>8, <1>9 DEF Next

-----------------------------------------------------------------------------
(* No URL twice.                                                           *)

LEMMA DistinctAddOnce ==
  ASSUME NEW X, NEW s \in Seq(X), NEW x \in X, Distinct(s)
  PROVE  Distinct(AddOnce(s, x))
<1>1. CASE x \in Elements(s)
  BY <1>1 DEF AddOnce
<1>2. CASE x \notin Elements(s)
  <2>1. /\ DOMAIN s = 1..Len(s) /\ Len(s) \in Nat
        /\ DOMAIN Append(s, x) = 1..(Len(s) + 1)
        /\ \A i \in 1..Len(s) : Append(s, x)[i] = s[i]
        /\ Append(s, x)[Len(s) + 1] = x
    OBVIOUS
  <2>2. \A i \in 1..Len(s) : s[i] # x
    BY <1>2, <2>1 DEF Elements
  <2>3. \A i \in 1..(Len(s) + 1) : i \in 1..Len(s) \/ i = Len(s) + 1
    BY <2>1
  <2>4. Distinct(Append(s, x))
    BY <2>1, <2>2, <2>3 DEF Distinct
  <2> QED  BY <1>2, <2>4 DEF AddOnce
<1> QED  BY <1>1, <1>2

LEMMA DistinctPreloaded ==
  ASSUME TypeOK, Distinct(preload), NEW n \in Names
  PROVE  Distinct(Preloaded(n))
<1>1. preload \in Seq(Files)
  BY DEF TypeOK
<1>2. HasFile(n) => entries[n].File \in Files
  BY DEF HasFile, Present, TypeOK, Entries
<1> QED  BY <1>1, <1>2, DistinctAddOnce DEF Preloaded

LEMMA NextDistinctInv ==
  ASSUME TypeOK, StackInv, DistinctInv, [Next]_vars
  PROVE  DistinctInv'
<1>1. CASE Sheet
  <2>1. Top \in Names /\ entries[Top] \in Entries
    BY <1>1, TopFacts DEF Sheet
  <2>2. nextSheet[Top] \in DOMAIN entries[Top].CSS
    BY <1>1, <2>1 DEF Sheet, MoreSheets, Entries, TypeOK
  <2>3. entries[Top].CSS[nextSheet[Top]] \in Sheets
    BY <2>1, <2>2 DEF Entries
  <2>4. css' = AddOnce(css, entries[Top].CSS[nextSheet[Top]]) /\ css \in Seq(Sheets)
    BY <1>1 DEF Sheet, TypeOK
  <2>5. Distinct(css')
    BY <2>3, <2>4, DistinctAddOnce DEF DistinctInv
  <2> QED  BY <1>1, <2>5 DEF Sheet, DistinctInv, EachURLOnce, output
<1>2. CASE Skip
  <2>1. Import(Top) \in Names
    BY <1>2, ImportFacts DEF Skip
  <2>2. Distinct(preload')
    BY <1>2, <2>1, DistinctPreloaded DEF Skip, DistinctInv
  <2> QED  BY <1>2, <2>2 DEF Skip, DistinctInv, EachURLOnce, output
<1>3. CASE Return
  <2>1. Top \in Names
    BY <1>3, TopFacts DEF Return
  <2>2. Distinct(preload')
    BY <1>3, <2>1, DistinctPreloaded DEF Return, DistinctInv
  <2> QED  BY <1>3, <2>2 DEF Return, DistinctInv, EachURLOnce, output
<1>4. CASE Reply
  <2>1. css' = css /\ preload' = preload /\ links'.css = css
    BY <1>4 DEF Reply, ProdTag, CSSLinks, deps
  <2>2. CASE op = "Tag"
    <3> DEFINE main == entries[entry].File
    <3>1. links'.preload = Filtered(main) /\ script' = main
      BY <1>4, <2>2 DEF Reply, ProdTag, CSSLinks
    <3>2. preload \in Seq(Files)
      BY DEF TypeOK
    <3> HIDE DEF main
    <3>3. Distinct(Filtered(main)) /\ main \notin Elements(Filtered(main))
      BY <3>2, FilteredFacts DEF DistinctInv
    <3> QED  BY <2>1, <3>1, <3>3 DEF DistinctInv, EachURLOnce
  <2>3. CASE op # "Tag"
    <3>1. links'.preload = <<>>
      BY <1>4, <2>3 DEF Reply, ProdTag, CSSLinks
    <3> QED  BY <2>1, <3>1 DEF DistinctInv, EachURLOnce, Distinct, Elements
  <2> QED  BY <2>2, <2>3
<1>5. CASE Missing \/ CollectDeps \/ Descend \/ Collected \/ UNCHANGED vars
  BY <1>5 DEF Missing, CollectDeps, Descend, Collected, vars, deps, output, DistinctInv, EachURLOnce
<1> QED  BY <1>1, <1>2, <1>3, <1>4, <1>5 DEF Next

-----------------------------------------------------------------------------
(* The theorems.                                                           *)

LEMMA InitIInv == Init => IInv
<1> SUFFICES ASSUME Init PROVE IInv
  OBVIOUS
<1>1. TypeOK
  BY InitTypeOK
<1>2. /\ stage = "called" /\ visited = {} /\ stack = <<>> /\ css = <<>> /\ preload = <<>>
      /\ links.css = <<>> /\ links.preload = <<>>
      /\ \A n \in Names : nextSheet[n] = 1 /\ nextImport[n] = 1
  BY DEF Init
<1>3. DOMAIN <<>> = {} /\ Elements(<<>>) = {} /\ Distinct(<<>>)
  BY DEF Elements, Distinct
<1>4. StackInv
  BY <1>2, <1>3 DEF StackInv
<1>5. ProgressInv
  <2>1. \A n \in Names : Present(n) =>
          /\ \A j \in DOMAIN entries[n].CSS : ~(j < 1)
          /\ \A j \in DOMAIN entries[n].Imports : ~(j < 1)
    BY <1>1 DEF TypeOK, Present, Entries
  <2> QED  BY <1>2, <2>1 DEF ProgressInv
<1>6. SoundInv
  BY <1>2, <1>3 DEF SoundInv
<1>7. DistinctInv
  BY <1>2, <1>3 DEF DistinctInv, EachURLOnce
<1> QED  BY <1>1, <1>4, <1>5, <1>6, <1>7 DEF IInv

LEMMA NextIInv == IInv /\ [Next]_vars => IInv'
BY NextTypeOK, NextStackInv, NextProgressInv, NextSoundInv, NextDistinctInv DEF IInv

\* The inductive invariant of a call: its stack, what its walks have passed,
\* and why anything is in its result.
THEOREM Invariant == Spec => []IInv
<1> QED  BY InitIInv, NextIInv, PTL DEF Spec

\* The state of a call is well typed.
THEOREM TypeCorrect == Spec => []TypeOK
<1>1. IInv => TypeOK
  BY DEF IInv
<1> QED  BY <1>1, Invariant, PTL

\* When the walk is over, the names it visited are those below the entry.
LEMMA VisitedIsBelow ==
  ASSUME IInv, Walked
  PROVE  visited = Below(entry)
<1> USE DEF IInv
<1>1. stage # "called" /\ stage # "walking" /\ Usable /\ entry \in Names /\ visited \subseteq Names
  BY DEF Walked, StackInv, TypeOK
<1>2. Elements(stack) = {}
  BY <1>1 DEF StackInv, Elements
<1>3. Closed(visited)
  <2> SUFFICES ASSUME NEW n \in visited, Present(n), NEW j \in DOMAIN entries[n].Imports
               PROVE  entries[n].Imports[j] \in visited
    BY DEF Closed, ImportsOf, Elements
  <2>1. n \in Names /\ entries[n] \in Entries /\ nextImport[n] \in Nat
    BY <1>1 DEF TypeOK, Present
  <2>2. ~(nextImport[n] <= Len(entries[n].Imports))
    BY <1>2 DEF ProgressInv, MoreImports
  <2>3. j < nextImport[n]
    BY <2>1, <2>2 DEF Entries
  <2> QED  BY <2>1, <2>3 DEF ProgressInv
<1>4. Below(entry) \subseteq visited
  BY <1>1, <1>3 DEF Below, SoundInv
<1>5. visited \subseteq Below(entry)
  BY <1>1 DEF Below, SoundInv
<1> QED  BY <1>4, <1>5

\* CSS and Tag list the stylesheets of the whole import chain, for every
\* manifest and every entry.
THEOREM FindsAllSheets == Spec => []SheetsComplete
<1>1. IInv => SheetsComplete
  <2> SUFFICES ASSUME IInv, Walked
               PROVE  Elements(css) = UNION {SheetsOf(n) : n \in Below(entry)}
    BY DEF SheetsComplete
  <2>1. visited = Below(entry)
    BY VisitedIsBelow
  <2>2. visited \subseteq Names /\ Elements(stack) = {}
    BY DEF IInv, Walked, StackInv, TypeOK, Elements
  <2>3. ASSUME NEW n \in visited, NEW c \in SheetsOf(n)
        PROVE  c \in Elements(css)
    <3>1. Present(n) /\ n \in Names /\ entries[n] \in Entries /\ nextSheet[n] \in Nat
      BY <2>2, <2>3 DEF SheetsOf, IInv, TypeOK, Present
    <3>2. PICK j \in DOMAIN entries[n].CSS : c = entries[n].CSS[j]
      BY <3>1, <2>3 DEF SheetsOf, Elements
    <3>3. ~(nextSheet[n] <= Len(entries[n].CSS))
      BY <2>2, <3>1 DEF IInv, ProgressInv, MoreSheets
    <3>4. j < nextSheet[n]
      BY <3>1, <3>2, <3>3 DEF Entries
    <3> QED  BY <3>1, <3>2, <3>4 DEF IInv, ProgressInv
  <2> QED  BY <2>1, <2>3 DEF IInv, SoundInv
<1> QED  BY <1>1, Invariant, PTL

\* Tag preloads the file of everything that is imported below the entry, for
\* every manifest and every entry.
THEOREM FindsAllFiles == Spec => []PreloadComplete
<1>1. IInv => PreloadComplete
  <2> SUFFICES ASSUME IInv, Walked
               PROVE  Elements(preload) = FilesOf(Imported(Below(entry)))
    BY DEF PreloadComplete
  <2>1. visited = Below(entry)
    BY VisitedIsBelow
  <2>2. visited \subseteq Names /\ Elements(stack) = {}
    BY DEF IInv, Walked, StackInv, TypeOK, Elements
  <2>3. ASSUME NEW n \in visited, NEW m \in ImportsOf(n), HasFile(m)
        PROVE  entries[m].File \in Elements(preload)
    <3>1. Present(n) /\ n \in Names /\ entries[n] \in Entries /\ nextImport[n] \in Nat
      BY <2>2, <2>3 DEF ImportsOf, IInv, TypeOK, Present
    <3>2. PICK j \in DOMAIN entries[n].Imports : m = entries[n].Imports[j]
      BY <3>1, <2>3 DEF ImportsOf, Elements
    <3>3. ~(nextImport[n] <= Len(entries[n].Imports))
      BY <2>2, <3>1 DEF IInv, ProgressInv, MoreImports
    <3>4. j < nextImport[n]
      BY <3>1, <3>2, <3>3 DEF Entries
    <3> QED  BY <2>3, <3>1, <3>2, <3>4 DEF IInv, ProgressInv
  <2>4. FilesOf(Imported(visited)) \subseteq Elements(preload)
    BY <2>3 DEF FilesOf, Imported
  <2>5. Elements(preload) \subseteq FilesOf(Imported(visited))
    BY DEF IInv, SoundInv, FilesOf, Imported
  <2> QED  BY <2>1, <2>4, <2>5
<1> QED  BY <1>1, Invariant, PTL

\* No tag repeats a URL, the script's own included.
THEOREM NoURLTwice == Spec => []EachURLOnce
<1>1. IInv => EachURLOnce
  BY DEF IInv, DistinctInv
<1> QED  BY <1>1, Invariant, PTL


-----------------------------------------------------------------------------
(* The order of the preload links.                                         *)

\* What ImportsFirst asks of n and a module it imports.
Needs(n, m) ==
  /\ HasFile(n) /\ HasFile(m)
  /\ m \in ImportsOf(n)
  /\ n \notin Imported(Below(n))
  /\ \A o \in Names \ {n, m} :
       HasFile(o) => entries[o].File \notin {entries[n].File, entries[m].File}
  /\ entries[n].File # entries[m].File

\* b is not in s, or every a is in front of every b and there is one.
Follows(s, a, b) ==
  b \in Elements(s) =>
    /\ a \in Elements(s)
    /\ \A i, j \in DOMAIN s : s[i] = a /\ s[j] = b => i < j

\* A running walk is for something below each walk it was called from.
ChainInv ==
  \A i, j \in DOMAIN stack : i <= j => stack[j] \in Below(stack[i])

OrderInv ==
  \A n, m \in Names :
    Needs(n, m) => Follows(preload, entries[m].File, entries[n].File)

LEMMA FollowsAddOnce ==
  ASSUME NEW X, NEW s \in Seq(X), NEW x \in X, NEW a, NEW b, a # b,
         Follows(s, a, b),
         x = b => a \in Elements(s)
  PROVE  Follows(AddOnce(s, x), a, b)
<1>1. CASE x \in Elements(s)
  BY <1>1 DEF AddOnce
<1>2. CASE x \notin Elements(s)
  <2> DEFINE t == Append(s, x)
  <2>1. /\ DOMAIN s = 1..Len(s) /\ Len(s) \in Nat
        /\ DOMAIN t = 1..(Len(s) + 1)
        /\ \A i \in 1..Len(s) : t[i] = s[i]
        /\ t[Len(s) + 1] = x
    OBVIOUS
  <2>2. Elements(t) = Elements(s) \cup {x}
    BY ElementsAppend
  <2> HIDE DEF t
  <2>3. \A i \in DOMAIN t : i \in DOMAIN s \/ i = Len(s) + 1
    BY <2>1
  <2>4. \A i \in DOMAIN s : t[i] = s[i] /\ s[i] \in Elements(s) /\ i < Len(s) + 1
    BY <2>1 DEF Elements
  <2>5. CASE x = b
    <3>1. a \in Elements(t)
      BY <2>2, <2>5
    <3>2. ASSUME NEW i \in DOMAIN t, NEW j \in DOMAIN t, t[i] = a, t[j] = b
          PROVE  i < j
      <4>1. j = Len(s) + 1
        BY <1>2, <2>3, <2>4, <2>5, <3>2
      <4>2. i \in DOMAIN s
        BY <2>1, <2>3, <2>5, <3>2
      <4> QED  BY <2>4, <4>1, <4>2
    <3>3. Follows(t, a, b)
      BY <3>1, <3>2 DEF Follows
    <3> QED  BY <1>2, <3>3 DEF AddOnce, t
  <2>6. CASE x # b
    <3> SUFFICES ASSUME b \in Elements(t)
                 PROVE  /\ a \in Elements(t)
                        /\ \A i, j \in DOMAIN t : t[i] = a /\ t[j] = b => i < j
      BY <1>2 DEF Follows, AddOnce, t
    <3>1. b \in Elements(s) /\ a \in Elements(s)
      BY <2>2, <2>6 DEF Follows
    <3>2. x # a
      BY <1>2, <3>1
    <3>3. ASSUME NEW i \in DOMAIN t, NEW j \in DOMAIN t, t[i] = a, t[j] = b
          PROVE  i < j
      <4>1. i \in DOMAIN s /\ j \in DOMAIN s
        BY <2>1, <2>3, <2>6, <3>2, <3>3
      <4>2. s[i] = a /\ s[j] = b
        BY <2>4, <3>3, <4>1
      <4> QED  BY <3>1, <4>1, <4>2 DEF Follows
    <3> QED  BY <2>2, <3>1, <3>3
  <2> QED  BY <2>5, <2>6
<1> QED  BY <1>1, <1>2

LEMMA BelowFacts ==
  ASSUME TypeOK, NEW n \in Names
  PROVE  /\ n \in Below(n)
         /\ \A m \in Below(n) : \A o \in ImportsOf(m) : o \in Names => o \in Below(n)
BY DEF Below, Closed

LEMMA NextChainInv ==
  ASSUME TypeOK, StackInv, ChainInv, [Next]_vars, TypeOK'
  PROVE  ChainInv'
<1>0. stack \in Seq(Names) /\ DOMAIN stack = 1..Len(stack) /\ Len(stack) \in Nat
  <2>1. stack \in Seq(Names)
    BY DEF TypeOK
  <2> QED  BY <2>1
<1>e. entries' = entries
  BY DEF Next, Missing, CollectDeps, Sheet, Descend, Skip, Return, Collected, Reply, vars, input
<1> DEFINE B(x) == {m \in Names : \A S \in SUBSET Names : x \in S /\ Closed(S) => m \in S}
<1>c. \A S : Closed(S)' = Closed(S)
  BY <1>e DEF Closed, ImportsOf, Present
<1>b. ASSUME \A i, j \in DOMAIN stack' : i <= j => stack'[j] \in B(stack'[i])
      PROVE  ChainInv'
  BY <1>b, <1>c DEF ChainInv, Below
<1>B. \A x \in Names : B(x) = Below(x)
  BY DEF Below
<1> HIDE DEF B
<1>1. CASE CollectDeps
  <2>1. stack' = <<entry>> /\ entry \in Names
    BY <1>1 DEF CollectDeps, TypeOK
  <2>2. DOMAIN stack' = {1} /\ stack'[1] = entry
    BY <2>1
  <2>3. entry \in Below(entry)
    BY <2>1, BelowFacts
  <2> QED  BY <1>b, <1>B, <2>1, <2>2, <2>3 DEF ChainInv
<1>2. CASE Descend
  <2> DEFINE imp == Import(Top)
  <2>1. /\ Top \in Names /\ Top = stack[Len(stack)] /\ Len(stack) \in DOMAIN stack
        /\ imp \in ImportsOf(Top) /\ imp \in Names
    BY <1>2, TopFacts, ImportFacts DEF Descend
  <2>2. stack' = Append(stack, imp)
    BY <1>2 DEF Descend
  <2> HIDE DEF imp
  <2>3. /\ DOMAIN stack' = 1..(Len(stack) + 1)
        /\ \A i \in DOMAIN stack : stack'[i] = stack[i] /\ stack[i] \in Names
        /\ stack'[Len(stack) + 1] = imp
    BY <1>0, <2>1, <2>2
  <2>4. ASSUME NEW i \in DOMAIN stack', NEW j \in DOMAIN stack', i <= j
        PROVE  stack'[j] \in B(stack'[i])
    <3>1. CASE j \in DOMAIN stack
      <4>1. i \in DOMAIN stack
        BY <1>0, <2>3, <2>4, <3>1
      <4> QED  BY <1>b, <1>B, <2>3, <2>4, <3>1, <4>1 DEF ChainInv
    <3>2. CASE j \notin DOMAIN stack /\ i \in DOMAIN stack
      <4>1. stack'[j] = imp
        BY <1>0, <2>3, <3>2
      <4>2. i <= Len(stack) /\ stack[Len(stack)] \in Below(stack[i])
        BY <1>0, <2>1, <3>2 DEF ChainInv
      <4>3. imp \in Below(stack[i])
        BY <2>1, <2>3, <3>2, <4>2, BelowFacts
      <4> QED  BY <1>b, <1>B, <2>3, <3>2, <4>1, <4>3
    <3>3. CASE j \notin DOMAIN stack /\ i \notin DOMAIN stack
      <4>1. stack'[j] = imp /\ stack'[i] = imp
        BY <1>0, <2>3, <3>3
      <4> QED  BY <1>b, <1>B, <2>1, <4>1, BelowFacts
    <3> QED  BY <3>1, <3>2, <3>3
  <2> QED  BY <1>b, <2>4
<1>3. CASE Return
  <2>1. /\ \A i \in DOMAIN stack' : i \in DOMAIN stack /\ stack'[i] = stack[i]
    BY <1>3, PopFacts DEF Return
  <2>2. \A i \in DOMAIN stack : stack[i] \in Names
    BY <1>0
  <2> QED  BY <1>b, <1>B, <2>1, <2>2 DEF ChainInv
<1>4. CASE Collected
  <2>1. DOMAIN stack' = {}
    BY <1>4 DEF Collected
  <2> QED  BY <1>b, <2>1
<1>5. CASE Missing \/ Sheet \/ Skip \/ Reply \/ UNCHANGED vars
  <2>1. stack' = stack
    BY <1>5 DEF Missing, Sheet, Skip, Reply, vars, walk
  <2>2. \A i \in DOMAIN stack : stack[i] \in Names
    BY <1>0
  <2> QED  BY <1>b, <1>B, <2>1, <2>2 DEF ChainInv
<1> QED  BY <1>1, <1>2, <1>3, <1>4, <1>5 DEF Next

\* What a walk that is over has imported is in preload.
LEMMA ImportsPreloaded ==
  ASSUME TypeOK, ProgressInv, NEW n \in Names, Present(n), ~MoreImports(n),
         NEW m \in ImportsOf(n), HasFile(m)
  PROVE  entries[m].File \in Elements(preload)
<1>1. entries[n] \in Entries /\ nextImport[n] \in Nat
  BY DEF TypeOK, Present
<1>2. PICK j \in DOMAIN entries[n].Imports : m = entries[n].Imports[j]
  BY DEF ImportsOf, Elements
<1>3. j < nextImport[n]
  BY <1>1, <1>2 DEF Entries, MoreImports
<1> QED  BY <1>2, <1>3 DEF ProgressInv

\* Where a walk returns, the imports of what it was for are in preload,
\* unless it is on a cycle.
LEMMA PreloadedFollows ==
  ASSUME TypeOK, ProgressInv, OrderInv, NEW k \in Names,
         \A m \in ImportsOf(k) :
           HasFile(m) /\ HasFile(k) /\ k \notin Imported(Below(k))
             => entries[m].File \in Elements(preload),
         NEW n \in Names, NEW m \in Names, Needs(n, m)
  PROVE  Follows(Preloaded(k), entries[m].File, entries[n].File)
<1>1. preload \in Seq(Files) /\ (HasFile(k) => entries[k].File \in Files)
  BY DEF TypeOK, HasFile, Present, Entries
<1>2. Follows(preload, entries[m].File, entries[n].File)
  BY DEF OrderInv
<1>3. CASE ~HasFile(k)
  BY <1>2, <1>3 DEF Preloaded
<1>4. CASE HasFile(k)
  <2>1. entries[k].File = entries[n].File => k = n
    BY <1>4 DEF Needs
  <2>2. entries[k].File = entries[n].File => entries[m].File \in Elements(preload)
    BY <1>4, <2>1 DEF Needs
  <2>3. entries[m].File # entries[n].File
    BY DEF Needs
  <2>4. Follows(AddOnce(preload, entries[k].File), entries[m].File, entries[n].File)
    BY <1>1, <1>2, <1>4, <2>2, <2>3, FollowsAddOnce
  <2> QED  BY <1>4, <2>4 DEF Preloaded
<1> QED  BY <1>3, <1>4

LEMMA NextOrderInv ==
  ASSUME TypeOK, StackInv, ProgressInv, ChainInv, OrderInv, [Next]_vars
  PROVE  OrderInv'
<1>e. entries' = entries
  BY DEF Next, Missing, CollectDeps, Sheet, Descend, Skip, Return, Collected, Reply, vars, input
<1>n. \A n, m : Needs(n, m)' = Needs(n, m)
  BY <1>e DEF Needs, HasFile, Present, ImportsOf, Imported, Below, Closed
<1>1. CASE Skip
  <2> DEFINE imp == Import(Top)
  <2>1. /\ Top \in Names /\ Top = stack[Len(stack)] /\ Len(stack) \in DOMAIN stack
        /\ Len(stack) \in Nat /\ imp \in ImportsOf(Top) /\ imp \in Names
    BY <1>1, TopFacts, ImportFacts DEF Skip
  <2>2. preload' = Preloaded(imp) /\ (imp \in visited \/ ~Present(imp))
    BY <1>1 DEF Skip
  <2> HIDE DEF imp
  <2>3. ASSUME NEW m \in ImportsOf(imp), HasFile(m), HasFile(imp), imp \notin Imported(Below(imp))
        PROVE  entries[m].File \in Elements(preload)
    <3>1. Present(imp) /\ imp \in visited
      BY <2>2, <2>3 DEF HasFile
    <3>2. imp \notin Elements(stack)
      <4> SUFFICES ASSUME NEW i \in DOMAIN stack, imp = stack[i]
                   PROVE  FALSE
        BY DEF Elements
      <4>1. i <= Len(stack)
        BY <2>1 DEF TypeOK
      <4>2. Top \in Below(imp)
        BY <2>1, <4>1 DEF ChainInv
      <4> QED  BY <2>1, <2>3, <4>2 DEF Imported
    <3>3. ~MoreImports(imp)
      BY <3>1, <3>2 DEF ProgressInv
    <3> QED  BY <2>1, <2>3, <3>1, <3>3, ImportsPreloaded
  <2>4. \A n, m \in Names : Needs(n, m) => Follows(preload', entries[m].File, entries[n].File)
    BY <2>1, <2>2, <2>3, PreloadedFollows
  <2> QED  BY <1>e, <1>n, <2>4 DEF OrderInv
<1>2. CASE Return
  <2>1. Top \in Names /\ Present(Top) /\ ~MoreImports(Top) /\ preload' = Preloaded(Top)
    BY <1>2, TopFacts DEF Return
  <2>2. \A m \in ImportsOf(Top) : HasFile(m) => entries[m].File \in Elements(preload)
    BY <2>1, ImportsPreloaded
  <2>3. \A n, m \in Names : Needs(n, m) => Follows(preload', entries[m].File, entries[n].File)
    BY <2>1, <2>2, PreloadedFollows
  <2> QED  BY <1>e, <1>n, <2>3 DEF OrderInv
<1>3. CASE Missing \/ CollectDeps \/ Sheet \/ Descend \/ Collected \/ Reply \/ UNCHANGED vars
  <2>1. preload' = preload
    BY <1>3 DEF Missing, CollectDeps, Sheet, Descend, Collected, Reply, vars, deps
  <2> QED  BY <1>e, <1>n, <2>1 DEF OrderInv
<1> QED  BY <1>1, <1>2, <1>3 DEF Next

\* A module that is on no import cycle is preloaded after the modules it
\* imports, for every manifest and every entry.
THEOREM ImportsBeforeImporters == Spec => []ImportsFirst
<1>1. Init => ChainInv /\ OrderInv
  <2> SUFFICES ASSUME Init PROVE ChainInv /\ OrderInv
    OBVIOUS
  <2>1. DOMAIN stack = {} /\ Elements(preload) = {}
    BY DEF Init, Elements
  <2> QED  BY <2>1 DEF ChainInv, OrderInv, Follows
<1>2. IInv /\ IInv' /\ ChainInv /\ OrderInv /\ [Next]_vars => ChainInv' /\ OrderInv'
  BY NextChainInv, NextOrderInv DEF IInv
<1>3. OrderInv => ImportsFirst
  <2> SUFFICES ASSUME OrderInv, NEW n \in Names, NEW m \in Names, Needs(n, m),
                      NEW i \in DOMAIN preload, NEW j \in DOMAIN preload,
                      preload[i] = entries[m].File, preload[j] = entries[n].File
               PROVE  i < j
    BY DEF ImportsFirst, Needs
  <2>1. entries[n].File \in Elements(preload)
    BY DEF Elements
  <2> QED  BY <2>1 DEF OrderInv, Follows
<1> QED  BY <1>1, <1>2, <1>3, Invariant, PTL DEF Spec
=============================================================================
