------------------------------ MODULE Credits ------------------------------
(***************************************************************************)
(* What a test is credited with, one question at a time: a behaviour is an *)
(* input, a call of the code on it and its answer.  The inputs are         *)
(*   mapping     [disk, scripts, http]: the texts of the files, the        *)
(*               scripts that ran and whether a server may be asked for    *)
(*               their text and maps (Mapping)                             *)
(*   projection  [segments, length, ranges] of one script (Projection)     *)
(*   union       [boot, delta]: two sets of scripts (BootUnion)            *)
(*   delta       [before, ran, found]: the first of two snapshots of a     *)
(*               script, what ran until the second, and the ranges whose   *)
(*               count in the first the code finds again                   *)
(***************************************************************************)
EXTENDS Mapping

CONSTANTS
  Disks, Observations,              \* texts of files, sets of scripts
  Layouts, Lengths, RangeSets,      \* sets of segments, lengths of sources, sets of ranges
  Boots, Windows,                   \* sets of scripts: the boot's and a window's dump
  Snapshots, FunctionOf,            \* reports, and the function a span belongs to
  Unanswered,
  Mixed         \* whether to ask of sources that ran in several scripts too

P == INSTANCE Projection
U == INSTANCE BootUnion

VARIABLES topic, input, answer
vars == <<topic, input, answer>>

Inputs(about) ==
  CASE about = "mapping"    -> [disk : Disks, scripts : Observations, http : BOOLEAN]
    [] about = "projection" -> [segments : Layouts, length : Lengths, ranges : RangeSets]
    [] about = "union"      -> [boot : Boots, delta : Windows]
    [] about = "delta"      -> [before : Snapshots, ran : Snapshots, found : SUBSET DOMAIN FunctionOf]

Init ==
  /\ topic \in {"mapping", "projection", "union", "delta"}
  /\ input \in Inputs(topic)
  /\ answer = Unanswered

\* The entry of a test, the regions of each source, and the two merged reports.
Credited(i) == [files    |-> ToFiles(i.disk, i.scripts, i.http),
                blocks   |-> ToBlocks(i.disk, i.scripts, i.http),
                packages |-> ToPackages(i.disk, i.scripts, i.http)]

Regioned(i) == [s \in DOMAIN i.length |-> P!Regions(i.segments, i.ranges, s, i.length)]

United(i) == U!UnionWithBoot(i.boot, i.delta)

\* The second snapshot counts on from the first.
After(before, ran) ==
  [s \in DOMAIN ran |-> ran[s] + IF s \in DOMAIN before THEN before[s] ELSE 0]
Grown(i) ==
  U!DeltaScript(i.before, i.found \cap DOMAIN i.before, After(i.before, i.ran), FunctionOf)

Ask(about, reply) ==
  /\ topic = about /\ answer = Unanswered
  /\ answer' = reply
  /\ UNCHANGED <<topic, input>>

Map == Ask("mapping", Credited(input))
Project == Ask("projection", Regioned(input))
Unite == Ask("union", United(input))
Subtract == Ask("delta", Grown(input))

Next == Map \/ Project \/ Unite \/ Subtract
Spec == Init /\ [][Next]_vars

-----------------------------------------------------------------------------
(* Scripts and their maps.                                                 *)

NamesIn(s) ==
  CASE s.declared.map # NoMap -> s.declared.map [] s.beside.map # NoMap -> s.beside.map [] OTHER -> {}

\* A recording that cannot tell is not written.
Written == topic = "mapping" /\ answer # Unanswered /\ answer.files # {Nowhere}

\* The sources that ran as they stand, and the scripts that are asked what they
\* were built from.
MappedScripts ==
  {s \in Executed(input.scripts) : OwnSource(s) \/ ~(s.allowed \/ AccountedForAsItStands(s))}

\* Whatever a script that ran was built from is credited, or what it was built
\* from stands word for word in a file that is (source-map.ts: a wrong file is
\* worse than none).
FilesHold ==
  Written => \A s \in MappedScripts : \A n \in NamesIn(s) :
    n.of \in Source \cap DOMAIN input.disk =>
      n.of \in answer.files \/ \E h \in answer.files : input.disk[h] = n.content

\* So is the package of vendored code that was bundled in (mapper.ts, toPackages).
PackagesHold ==
  Written => \A s \in MappedScripts : \A n \in NamesIn(s) :
    n.of \in Vendored /\ Package[n.of] # Nowhere => Package[n.of] \in answer.packages

BlocksOf(h) == {x[2] : x \in {y \in answer.blocks : y[1] = h}}

\* What ran of a source: of the text it has now, or of the one it was built from.
RanIn(s, h) ==
  IF OwnSource(s) THEN {BlockAt[input.disk[h]][q] : q \in s.ran[h]}
  ELSE UNION {{BlockAt[n.text][q] : q \in s.ran[h]} : n \in {m \in NamesIn(s) : m.of = h}}

Through(h) == {s \in MappedScripts : h \in DOMAIN s.ran}
NamesOf(h) ==
  {sn \in UNION {{s} \X NamesIn(s) : s \in MappedScripts} :
     LET at == Resolve(input.disk, sn[1], input.http).located IN
       sn[2].of = h \/ (sn[2] \in DOMAIN at /\ at[sn[2]] = h)}
AtMostOne(S) == \A x, y \in S : x = y

\* The blocks of a file, where it has any, are those that ran: a map that no
\* longer fits the text on disk gives none (mapper.ts, projectedBlocks).
BlocksHold ==
  Written => \A h \in answer.files :
    BlocksOf(h) # {} /\ (Mixed \/ (AtMostOne(Through(h)) /\ AtMostOne(NamesOf(h))))
      => \A s \in Through(h) : RanIn(s, h) \subseteq BlocksOf(h)

-----------------------------------------------------------------------------
(* Ranges.                                                                 *)

\* No region says of code that ran that it did not, wherever a build put it and
\* into how many places (project.ts).
ProjectionHolds ==
  topic = "projection" /\ answer # Unanswered =>
    \A t \in P!Placed(input.segments, input.length) :
      P!ExecutedAt(t.gen, input.ranges) => P!ExecutedAt(t.orig, answer[t.source])

TellsAt(url, span, scripts) == url \in DOMAIN scripts /\ U!Tells(span, scripts[url])

\* A window's dump has this very range, and says that it did not run: a branch not
\* taken of a function that ran.
Denied(url, span, delta) == url \in DOMAIN delta /\ span \in DOMAIN delta[url] /\ delta[url][span] = 0

\* What ran in a window ran in the union, even where the window's dump leaves its
\* range out, and so did what ran at boot, in every window whose dump does not deny
\* that very range (mergeScript in boot-delta-coverage.ts).
BootKept ==
  topic = "union" /\ answer # Unanswered =>
    \A url \in DOMAIN answer : \A span \in DOMAIN answer[url] :
      \/ TellsAt(url, span, input.delta)
      \/ TellsAt(url, span, input.boot) /\ ~Denied(url, span, input.delta)
      => answer[url][span] > 0

\* What does not hold: that all of the boot is in every window's result
\* (boot-delta-coverage.ts:25-26).  The exact count of a window overrides the boot's.
BootInEvery ==
  topic = "union" /\ answer # Unanswered =>
    \A url \in DOMAIN answer : \A span \in DOMAIN answer[url] :
      TellsAt(url, span, input.boot) => answer[url][span] > 0

\* What ran between two snapshots is in what they differ by, with a count
\* (inspector-observer.ts).
DeltaHolds ==
  topic = "delta" /\ answer # Unanswered =>
    \A span \in DOMAIN input.ran : input.ran[span] > 0 => span \in DOMAIN answer /\ answer[span] > 0

-----------------------------------------------------------------------------
(* What can be said of the inputs, whoever makes them.                     *)

HasMap(s) == s.declared.map # NoMap \/ s.beside.map # NoMap

\* A script has one map, wherever it is found; a build publishes the text it
\* read or none; a file that is run as it stands is built from nothing else.
IsScript(s) ==
  /\ s.declared.map # NoMap /\ s.beside.map # NoMap => s.declared.map = s.beside.map
  /\ \A n \in NamesIn(s) : n.content \in {n.text, NoText}
  /\ IF OwnSource(s) THEN DOMAIN s.ran = {s.path} /\ \A n \in NamesIn(s) : n.of = s.path
     ELSE HasMap(s) => DOMAIN s.ran \subseteq {n.of : n \in NamesIn(s)}

IsRange(r) == r.start \in Nat /\ r.end \in Nat /\ r.count \in Nat
Around(r, q) == r.start <= q.start /\ q.end <= r.end

\* V8 nests its ranges: two of them are apart, or one is in the other.
Nested(ranges) ==
  \A q, r \in ranges : q.end <= r.start \/ r.end <= q.start \/ Around(q, r) \/ Around(r, q)

IsReport(report) ==
  DOMAIN report \subseteq Nat \X Nat /\ \A span \in DOMAIN report : report[span] \in Nat

CreditsAssumption ==
  /\ \A disk \in Disks : \A file \in DOMAIN disk : disk[file] # NoText
  /\ \A scripts \in Observations : \A s \in scripts : IsScript(s)
  /\ \A segments \in Layouts : \A t \in segments :
       t.gen \in Nat /\ t.orig \in Nat /\ \A length \in Lengths : t.source \in DOMAIN length
  /\ \A length \in Lengths : \A s \in DOMAIN length : length[s] \in Nat
  /\ \A ranges \in RangeSets : (\A r \in ranges : IsRange(r)) /\ Nested(ranges)
  /\ \A scripts \in Boots \cup Windows : \A url \in DOMAIN scripts : IsReport(scripts[url])
  /\ \A report \in Snapshots : IsReport(report)

ASSUME InputsAreReal == CreditsAssumption

\* What the credits rest on beyond that.  Names tell of files: one that is read
\* where the map lies leads to what it stands for, one that is only a guess to a
\* file of the same sort (or out of the repository), and code of the repository
\* or of a package has no bare name.
Akin(file, other) ==
  /\ (file \in Source) = (other \in Source)
  /\ (file \in Vendored) = (other \in Vendored)
  /\ file \in Vendored => Package[file] = Package[other]

IsTruthful(n) ==
  /\ \A r \in {"own", "beside"} : n.at[r] = n.of
  /\ \A r \in {"path", "authority", "url", "root"} : n.at[r] = Nowhere \/ Akin(n.at[r], n.of)
  /\ n.of \in Source \cup Vendored =>
       /\ LooksLikePath(n.form)
       /\ \A anchored \in BOOLEAN : LET readings == Readings(n.form, anchored) IN
            \E i \in DOMAIN readings : n.at[readings[i]] \in InRepo

NamesTellTheTruth ==
  \A scripts \in Observations : \A s \in scripts : \A n \in NamesIn(s) : IsTruthful(n)
=============================================================================
