---------------------------- MODULE ViteManifest ----------------------------
(***************************************************************************)
(* vite.Manifest in production mode: one call of Tag or CSS over any       *)
(* manifest, whose import graph may have cycles, diamonds, chunks that are *)
(* not in the manifest, and chunks that share a file or a stylesheet.      *)
(*                                                                         *)
(* collectDeps walks the graph by recursion.  Here the recursion is        *)
(* explicit: `stack` holds the running walks; walk(n) gets past its        *)
(* `visited` test at most once, so its two loop variables are functions    *)
(* of n.  A URL is the file itself, the base being a common prefix.        *)
(***************************************************************************)
EXTENDS Naturals, Sequences

CONSTANTS
  Names,      \* keys of the manifest, and names its entries import
  Files,      \* hashed file names of chunks
  Sheets,     \* stylesheets
  Manifests,  \* the manifests considered
  Roots,      \* names the root template asks for
  NoEntry,    \* the manifest does not have the name
  NoFile      \* the entry's File is empty

Entries == [File : Files \cup {NoFile}, CSS : Seq(Sheets), Imports : Seq(Names)]

ASSUME ManifestAssumption == Manifests \subseteq [Names -> Entries \cup {NoEntry}]
ASSUME RootsAssumption    == Roots \subseteq Names
ASSUME NoEntryAssumption  == NoEntry \notin Entries
ASSUME NoFileAssumption   == NoFile \notin Files

VARIABLES
  entries,    \* the parsed manifest
  op,         \* "Tag" or "CSS"
  entry,      \* the call's argument
  stage,      \* "called", "walking", "collected" or "returned"
  warned,     \* the names logMissing has stored
  visited,    \* the names walk was called with
  stack,      \* the running walks, the innermost last
  nextSheet,  \* nextSheet[n]: the element of CSS walk(n) handles next
  nextImport, \* nextImport[n]: the element of Imports walk(n) handles next
  css,        \* stylesheets in order of insertion
  preload,    \* files of imports in order of insertion
  script,     \* what the call returns: the src of the script, if any,
  links       \* and the hrefs of its links

input  == <<entries, op, entry>>
walk   == <<visited, stack, nextSheet, nextImport>>
deps   == <<css, preload>>
output == <<script, links>>
vars   == <<input, stage, warned, walk, deps, output>>

-----------------------------------------------------------------------------

Elements(s) == {s[i] : i \in DOMAIN s}
Present(n)  == entries[n] # NoEntry
HasFile(n)  == Present(n) /\ entries[n].File # NoFile

TypeOK ==
  /\ entries \in [Names -> Entries \cup {NoEntry}]
  /\ op \in {"Tag", "CSS"}
  /\ entry \in Names
  /\ stage \in {"called", "walking", "collected", "returned"}
  /\ warned \subseteq Names
  /\ visited \subseteq Names
  /\ stack \in Seq(Names)
  /\ nextSheet \in [Names -> Nat \ {0}]
  /\ nextImport \in [Names -> Nat \ {0}]
  /\ css \in Seq(Sheets)
  /\ preload \in Seq(Files)
  /\ script \in Files \cup {NoFile}
  /\ links \in [preload : Seq(Files), css : Seq(Sheets)]

Init ==
  /\ entries \in Manifests
  /\ op \in {"Tag", "CSS"}
  /\ entry \in Roots
  /\ stage = "called"
  /\ warned = {}
  /\ visited = {}
  /\ stack = <<>>
  /\ nextSheet = [n \in Names |-> 1]
  /\ nextImport = [n \in Names |-> 1]
  /\ css = <<>>
  /\ preload = <<>>
  /\ script = NoFile
  /\ links = [preload |-> <<>>, css |-> <<>>]

-----------------------------------------------------------------------------

\* Wrong variant: insertion without the look at cssSeen or preloadSeen.
AddAlways(s, x) == Append(s, x)

\* Insertion behind cssSeen and preloadSeen.
AddOnce(s, x) == IF x \in Elements(s) THEN s ELSE Append(s, x)

\* Wrong variants: a chunk without a file is preloaded too, and only what the
\* entry itself imports is preloaded.
PreloadedUnchecked(n) ==
  IF Present(n) THEN AddOnce(preload, entries[n].File) ELSE preload

PreloadedDirect(n) ==
  IF HasFile(n) /\ n \in Elements(entries[entry].Imports)
    THEN AddOnce(preload, entries[n].File) ELSE preload

\* The second half of the loop over Imports: walk(n) has returned.
Preloaded(n) == IF HasFile(n) THEN AddOnce(preload, entries[n].File) ELSE preload

Usable == IF op = "Tag" THEN HasFile(entry) ELSE Present(entry)

\* A missing entry: logMissing, and a placeholder.
Missing ==
  /\ stage = "called"
  /\ ~Usable
  /\ warned' = warned \cup {entry}
  /\ stage' = "returned"
  /\ UNCHANGED <<input, walk, deps, output>>

\* collectDeps(entry) calls walk.
CollectDeps ==
  /\ stage = "called"
  /\ Usable
  /\ stage' = "walking"
  /\ visited' = {entry}
  /\ stack' = <<entry>>
  /\ UNCHANGED <<input, warned, nextSheet, nextImport, deps, output>>

Top == stack[Len(stack)]

MoreSheets(n)  == nextSheet[n] <= Len(entries[n].CSS)
MoreImports(n) == nextImport[n] <= Len(entries[n].Imports)
Import(n)      == entries[n].Imports[nextImport[n]]

\* One iteration of the loop over CSS.
Sheet ==
  /\ stage = "walking"
  /\ MoreSheets(Top)
  /\ css' = AddOnce(css, entries[Top].CSS[nextSheet[Top]])
  /\ nextSheet' = [nextSheet EXCEPT ![Top] = @ + 1]
  /\ UNCHANGED <<input, stage, warned, visited, stack, nextImport, preload, output>>

\* Wrong variant: the file is preloaded before its own imports are walked.
DescendPreloading ==
  LET imp == Import(Top) IN
  /\ stage = "walking" /\ ~MoreSheets(Top) /\ MoreImports(Top)
  /\ imp \notin visited /\ Present(imp)
  /\ visited' = visited \cup {imp}
  /\ stack' = Append(stack, imp)
  /\ preload' = Preloaded(imp)
  /\ UNCHANGED <<input, stage, warned, nextSheet, nextImport, css, output>>

\* walk(imp) for an entry not visited yet.
Descend ==
  LET imp == Import(Top) IN
  /\ stage = "walking"
  /\ ~MoreSheets(Top)
  /\ MoreImports(Top)
  /\ imp \notin visited
  /\ Present(imp)
  /\ visited' = visited \cup {imp}
  /\ stack' = Append(stack, imp)
  /\ UNCHANGED <<input, stage, warned, nextSheet, nextImport, deps, output>>

\* Wrong variants: a missing import ends the loop, or is tried forever.
SkipReturning ==
  LET imp == Import(Top) IN
  /\ stage = "walking" /\ ~MoreSheets(Top) /\ MoreImports(Top)
  /\ imp \in visited \/ ~Present(imp)
  /\ visited' = visited \cup {imp}
  /\ preload' = Preloaded(imp)
  /\ nextImport' = [nextImport EXCEPT ![Top] =
                      IF Present(imp) THEN @ + 1 ELSE Len(entries[Top].Imports) + 1]
  /\ UNCHANGED <<input, stage, warned, stack, nextSheet, css, output>>

SkipRetrying ==
  LET imp == Import(Top) IN
  /\ stage = "walking" /\ ~MoreSheets(Top) /\ MoreImports(Top)
  /\ imp \in visited \/ ~Present(imp)
  /\ visited' = visited \cup {imp}
  /\ preload' = Preloaded(imp)
  /\ nextImport' = IF Present(imp) THEN [nextImport EXCEPT ![Top] = @ + 1] ELSE nextImport
  /\ UNCHANGED <<input, stage, warned, stack, nextSheet, css, output>>

\* walk(imp) returns at once: imp is visited, or not in the manifest.
Skip ==
  LET imp == Import(Top) IN
  /\ stage = "walking"
  /\ ~MoreSheets(Top)
  /\ MoreImports(Top)
  /\ imp \in visited \/ ~Present(imp)
  /\ visited' = visited \cup {imp}
  /\ preload' = Preloaded(imp)
  /\ nextImport' = [nextImport EXCEPT ![Top] = @ + 1]
  /\ UNCHANGED <<input, stage, warned, stack, nextSheet, css, output>>

\* walk(Top) returns to the loop over its caller's imports.
Return ==
  LET up == stack[Len(stack) - 1] IN
  /\ stage = "walking"
  /\ ~MoreSheets(Top)
  /\ ~MoreImports(Top)
  /\ Len(stack) > 1
  /\ stack' = SubSeq(stack, 1, Len(stack) - 1)
  /\ preload' = Preloaded(Top)
  /\ nextImport' = [nextImport EXCEPT ![up] = @ + 1]
  /\ UNCHANGED <<input, stage, warned, visited, nextSheet, css, output>>

\* walk(entry) returns to collectDeps.
Collected ==
  /\ stage = "walking"
  /\ ~MoreSheets(Top)
  /\ ~MoreImports(Top)
  /\ Len(stack) = 1
  /\ stack' = <<>>
  /\ stage' = "collected"
  /\ UNCHANGED <<input, warned, visited, nextSheet, nextImport, deps, output>>

\* filteredPreload: the main file is in preload at most once.
Filtered(main) ==
  IF main \notin Elements(preload) THEN preload
  ELSE LET k == CHOOSE i \in DOMAIN preload : preload[i] = main
       IN  SubSeq(preload, 1, k - 1) \o SubSeq(preload, k + 1, Len(preload))

\* prodTag writes the script and the links.
ProdTag ==
  /\ op = "Tag"
  /\ script' = entries[entry].File
  /\ links' = [preload |-> Filtered(entries[entry].File), css |-> css]

\* CSS writes the links to stylesheets.
CSSLinks ==
  /\ op = "CSS"
  /\ links' = [preload |-> <<>>, css |-> css]
  /\ UNCHANGED script

Reply ==
  /\ stage = "collected"
  /\ stage' = "returned"
  /\ ProdTag \/ CSSLinks
  /\ UNCHANGED <<input, warned, walk, deps>>

Next == Missing \/ CollectDeps \/ Sheet \/ Descend \/ Skip \/ Return \/ Collected \/ Reply

Spec == Init /\ [][Next]_vars

\* The call computes without waiting for anything.
FairSpec == Spec /\ WF_vars(Next)

-----------------------------------------------------------------------------
(* Properties.                                                             *)

ImportsOf(n) == IF Present(n) THEN Elements(entries[n].Imports) ELSE {}
SheetsOf(n)  == IF Present(n) THEN Elements(entries[n].CSS) ELSE {}
FilesOf(S)   == {entries[n].File : n \in {m \in S : HasFile(m)}}

Closed(S) == \A n \in S : ImportsOf(n) \subseteq S

\* The names below n in the import graph, n included: the least closed set.
Below(n) == {m \in Names : \A S \in SUBSET Names : n \in S /\ Closed(S) => m \in S}

Imported(S) == UNION {ImportsOf(n) : n \in S}

Walked == stage = "collected" \/ (stage = "returned" /\ Usable)

Distinct(s) == \A i, j \in DOMAIN s : s[i] = s[j] => i = j

(* collectDeps finds "every CSS file referenced anywhere in the import     *)
(* chain" (Tag's comment) and no other, across cycles and missing chunks.  *)
SheetsComplete ==
  Walked => Elements(css) = UNION {SheetsOf(n) : n \in Below(entry)}

(* "modulepreload for every static import (recursively)": the files of     *)
(* everything an entry below the root imports, and no other.               *)
PreloadComplete ==
  Walked => Elements(preload) = FilesOf(Imported(Below(entry)))

(* "Each URL appears at most once", the script's own included, also when   *)
(* chunks share a file or import the root.                                 *)
EachURLOnce ==
  /\ Distinct(links.css)
  /\ Distinct(links.preload)
  /\ script \notin Elements(links.preload)

(* A module that is on no import cycle is preloaded after the modules it   *)
(* imports (where no file is that of several chunks): the order in which   *)
(* the browser can evaluate them.                                          *)
ImportsFirst ==
  Walked =>
    \A n, m \in Names :
      /\ HasFile(n) /\ HasFile(m)
      /\ m \in ImportsOf(n)
      /\ n \notin Imported(Below(n))
      /\ \A o \in Names \ {n, m} :
           HasFile(o) => entries[o].File \notin {entries[n].File, entries[m].File}
      /\ entries[n].File # entries[m].File
      => \A i, j \in DOMAIN preload :
           preload[i] = entries[m].File /\ preload[j] = entries[n].File => i < j

(* The call returns, however the chunks import each other.                 *)
Terminates == <>(stage = "returned")
=============================================================================
