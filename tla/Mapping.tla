------------------------------ MODULE Mapping ------------------------------
(***************************************************************************)
(* From the scripts a test executed to the sources, packages and blocks    *)
(* its entry is credited with: mapper.ts, source-map.ts, packages.ts and   *)
(* istanbul.ts.                                                            *)
(*                                                                         *)
(* A script is a record:                                                   *)
(*   url       "file", "http" or "runtime"; path, the file it is or is     *)
(*             served from (Nowhere for an asset no build directory holds) *)
(*   executed  whether one of its ranges ran                               *)
(*   served    whether the server still answers for it                     *)
(*   carried   whether the observation brought the text along              *)
(*   allowed   whether the project accepts that it cannot be mapped        *)
(*   declared  [at |-> ..., map |-> ...], the source map it declares       *)
(*   beside    the same for the map of its own name beside it              *)
(*   ran       [file -> the places of it whose code ran]: what happened    *)
(* A map is a set of named sources: the form of the name, the files each   *)
(* reading of it leads to, the file it stands for and the text that was    *)
(* built from, and that text again as content if the build published it.   *)
(***************************************************************************)
EXTENDS Naturals, Sequences, FiniteSetsExt, Functions

CONSTANTS
  Source,       \* files the source filter passes
  Vendored,     \* files below node_modules
  Built,        \* files in a directory read as build output
  Other,        \* other files of the repository: tests, sources left out
  Nowhere,      \* no file of the repository
  Package,      \* the package a vendored file belongs to, or Nowhere
  BlockAt,      \* the block at each place of a text
  NoText, NoMap

InRepo == Source \cup Vendored \cup Built \cup Other

\* A file is of one sort, and "no file" is none.
MappingAssumption ==
  /\ Source \cap (Vendored \cup Built \cup Other) = {}
  /\ Vendored \cap (Built \cup Other) = {}
  /\ Built \cap Other = {}
  /\ Nowhere \notin InRepo

ASSUME MappingIsSorted == MappingAssumption

-----------------------------------------------------------------------------
(* source-map.ts                                                           *)

\* The readings of a name, in the order they are tried.  What a map says on disk
\* anchors a relative name at the map; elsewhere a name is only a guess.
Readings(form, anchored) ==
  CASE form = "file" -> <<"own">>
    [] form = "scheme" -> <<"path", "authority">>
    [] OTHER -> IF anchored THEN <<"beside">> ELSE <<"url", "root">>

Anchored(reading) == reading \in {"own", "beside"}

\* A name that could be no file is one of the synthetic modules bundlers list.
LooksLikePath(form) == form \in {"dotted", "scheme", "file"}

\* Mutant: a path that exists is evidence enough.
HoldsAnything(disk, file, content) == TRUE

Holds(disk, file, content) == content # NoText /\ disk[file] = content

Outcome(kind, file) == [kind |-> kind, file |-> file]

\* The first reading that leads to a file that will do.
Locate(disk, named, anchored) ==
  LET readings == Readings(named.form, anchored)
      inside == {i \in DOMAIN readings : named.at[readings[i]] \in InRepo}
      found == {i \in inside : LET file == named.at[readings[i]] IN
                  /\ file \in DOMAIN disk
                  /\ Anchored(readings[i]) \/ Holds(disk, file, named.content)}
  IN  IF found # {} THEN Outcome("located", named.at[readings[Min(found)]])
      ELSE IF inside # {} /\ LooksLikePath(named.form) THEN Outcome("unresolved", Nowhere)
      ELSE Outcome("foreign", Nowhere)

\* Text from disk or a build directory, else over HTTP if that is allowed.
Load(disk, script, http) ==
  IF script.path # Nowhere THEN script.path \in DOMAIN disk
  ELSE script.url = "http" /\ http /\ script.served

\* A map of another origin is not followed.
LoadMap(script, ref, http) ==
  CASE ref.at = "disk" -> ref.map
    [] ref.at = "server" /\ script.url = "http" /\ http /\ script.served -> ref.map
    [] OTHER -> NoMap

Unmapped == [kind |-> "unmapped", located |-> <<>>, unresolved |-> {}]

\* The located names of the map with the files they are, and those that could be
\* a file of the repository and are not found.  text is what the observation
\* brought along.
ResolveFull(disk, script, http, text) ==
  LET inline == script.declared.at = "inline"
      declared == IF inline THEN script.declared.map ELSE LoadMap(script, script.declared, http)
      neighbour == LoadMap(script, script.beside, http)
      map == IF declared # NoMap THEN declared ELSE neighbour
      anchored == CASE declared = NoMap -> script.beside.at = "disk"
                    [] inline -> script.path # Nowhere
                    [] OTHER -> script.declared.at = "disk"
      outcome(named) == Locate(disk, named, anchored)
  IN  IF map = NoMap \/ ~(text \/ Load(disk, script, http)) THEN Unmapped
      ELSE [kind |-> "mapped",
            located |-> [n \in {m \in map : outcome(m).kind = "located"} |-> outcome(n).file],
            unresolved |-> {n \in map : outcome(n).kind = "unresolved"}]

Resolve(disk, script, http) == ResolveFull(disk, script, http, FALSE)
ResolveProjectable(disk, script, http) == ResolveFull(disk, script, http, script.carried)

Sources(resolved) == Range(resolved.located)

-----------------------------------------------------------------------------
(* V8FileMapper                                                            *)

OwnSource(script) == script.url = "file" /\ script.path \in Source \cup Other

AccountedForAsItStands(script) ==
  script.url # "http" /\ (script.url = "runtime" \/ script.path \in Vendored \cup {Nowhere})

Attribution(sources, gap) == [sources |-> sources, gap |-> gap]

AttributeOwnSource(disk, script, http) ==
  Attribution(({script.path} \cup Sources(Resolve(disk, script, http))) \cap Source, FALSE)

\* Mutant: a source that is not found is passed over.
AttributeBuiltLeniently(disk, script, http) ==
  LET mapped == Resolve(disk, script, http) IN
    Attribution(Sources(mapped) \cap Source, ~script.allowed /\ mapped.kind = "unmapped")

AttributeBuiltScript(disk, script, http) ==
  LET mapped == Resolve(disk, script, http)
      gap == mapped.kind = "unmapped" \/ mapped.unresolved # {} \/ Sources(mapped) = {}
  IN  IF script.allowed THEN Attribution({}, FALSE)
      ELSE IF gap THEN Attribution({}, TRUE)
      ELSE Attribution(Sources(mapped) \cap Source, FALSE)

Attribute(disk, script, http) ==
  CASE OwnSource(script) -> AttributeOwnSource(disk, script, http)
    [] AccountedForAsItStands(script) -> Attribution({}, FALSE)
    [] OTHER -> AttributeBuiltScript(disk, script, http)

Executed(scripts) == {s \in scripts : s.executed}

\* The files an entry gets, or {Nowhere}: a gap, or a source that is not there to
\* be hashed, fails the recording.
ToFiles(disk, scripts, http) ==
  LET of == {Attribute(disk, s, http) : s \in Executed(scripts)}
      files == UNION {a.sources : a \in of}
  IN  IF (\E a \in of : a.gap) \/ ~(files \subseteq DOMAIN disk) THEN {Nowhere} ELSE files

\* Mutant: only what ran below node_modules counts.
ToPackagesByPath(disk, scripts, http) ==
  {Package[s.path] : s \in {r \in Executed(scripts) : r.url = "file" /\ r.path \in Vendored}} \ {Nowhere}

\* Vendored scripts, and vendored sources that were built into others.
ToPackages(disk, scripts, http) ==
  LET vendored(s) == s.url = "file" /\ s.path \in Vendored
      files(s) == IF vendored(s) THEN {s.path} ELSE Sources(Resolve(disk, s, http)) \cap Vendored
  IN  {Package[f] : f \in UNION {files(s) : s \in Executed(scripts)}} \ {Nowhere}

\* Mutant: the map is read against the file as it stands now.
ConfirmedByPath(disk, named, file) == file \in Source /\ file \in DOMAIN disk

\* A map is read against a file only while that is the text it was built from.
Confirmed(disk, named, file) ==
  file \in Source /\ file \in DOMAIN disk /\ named.content = disk[file]

\* The sources whose blocks a script gives, by their names in the map, with their files.
Projected(disk, script, http) ==
  IF script.allowed \/ AccountedForAsItStands(script) THEN {}
  ELSE LET located == ResolveProjectable(disk, script, http).located IN
         {nf \in {<<n, located[n]>> : n \in DOMAIN located} : Confirmed(disk, nf[1], nf[2])}

\* <<file, block>>: a script that is a source is read as the file on disk, another
\* through its map (project.ts), the blocks being those the file has there now.
ToBlocks(disk, scripts, http) ==
  LET There(f, places) == {<<f, BlockAt[disk[f]][p]>> : p \in places}
      own(s) == s.url = "file" /\ s.path \in Source
  IN  UNION {IF ~own(s)
             THEN UNION {There(nf[2], s.ran[nf[1].of]) : nf \in Projected(disk, s, http)}
             ELSE IF s.path \in DOMAIN disk THEN There(s.path, s.ran[s.path])
             ELSE {} : s \in Executed(scripts)}
=============================================================================
