----------------------------- MODULE MCCredits -----------------------------
(* The inputs of Credits, case by case: a script built from source a with    *)
(* every way its map may name a, be found and have gone stale; ranges of a   *)
(* bundle projected to two sources; dumps and snapshots of one script.       *)
EXTENDS Credits, TLC
CONSTANTS a, b, v, d, p, t1, t2, f, g,
  BareNames     \* whether a map may give a source of the repository a bare name

-----------------------------------------------------------------------------
(* Scripts and their maps.                                                 *)

MCSource == {a, b}
MCVendored == {v}
MCBuilt == {d}
MCPackage == v :> p
MCBlockAt == t1 :> <<f, g>> @@ t2 :> <<g, f>>

MCDisks == {x @@ (b :> y @@ v :> t1 @@ d :> t1) : x \in {<<>>} \cup {a :> t : t \in {t1, t2}}, y \in {t1, t2}}

Named(form, of, at, text, content) ==
  [form |-> form, of |-> of, at |-> at, text |-> text, content |-> content]
Everywhere(file) == [r \in {"own", "beside", "path", "authority", "url", "root"} |-> file]

\* A build names a as it likes; read beside its map, or as it stands, that is a.
\* Whether a build that publishes no text read this one or that is all the same.
NamesFor(file) ==
  {Named(form, file, [Everywhere(file) EXCEPT !.path = x, !.url = x, !.root = y], text[1], text[2]) :
    form \in {"dotted", "scheme", "file"} \cup (IF BareNames THEN {"bare"} ELSE {}),
    text \in {<<t1, t1>>, <<t2, t2>>, <<t1, NoText>>}, x \in {a, b}, y \in {a, b}}

Aside == {Named("dotted", file, Everywhere(file), t1, t1) : file \in {v, b}}
         \cup {Named("bare", Nowhere, Everywhere(Nowhere), t1, NoText)}

Maps == {{n} \cup others : n \in NamesFor(a), others \in {{}} \cup {{m} : m \in Aside}}

Ref(at, m) == [at |-> at, map |-> m]
None == Ref("none", NoMap)
Refs(m, at) == {<<None, None>>, <<None, Ref(at, m)>>, <<Ref("inline", m), None>>, <<Ref(at, m), None>>,
                <<Ref("elsewhere", m), None>>}

Script(url, path, served, carried, allowed, refs, ran) ==
  [url |-> url, path |-> path, executed |-> TRUE, served |-> served, carried |-> carried,
   allowed |-> allowed, declared |-> refs[1], beside |-> refs[2], ran |-> ran]

Itself == Script("file", a, FALSE, FALSE, FALSE, <<None, None>>, a :> {1})

\* A bundle on disk, one served out of a build directory, one only a server has.
Bundles(m) ==
  LET ran == [file \in {n.of : n \in m} |-> {1}] IN
    {Script(url, d, FALSE, FALSE, allowed, refs, ran) :
       url \in {"file", "http"}, allowed \in BOOLEAN, refs \in Refs(m, "disk")}
    \cup {Script("http", Nowhere, served, TRUE, FALSE, refs, ran) :
            served \in BOOLEAN, refs \in Refs(m, "server")}

MCObservations == UNION {{{s} \cup also : s \in Bundles(m), also \in {{}, {Itself}}} : m \in Maps}

-----------------------------------------------------------------------------
(* Ranges of a bundle of a (whose text has 3 offsets) and b (1, or none).  *)

Segment(gen, source, orig) == [gen |-> gen, source |-> source, orig |-> orig]
RangeOf(start, end, count) == [start |-> start, end |-> end, count |-> count]
Places == {Segment(0, a, 0)} \cup {Segment(0, s, o) : s \in {a, b}, o \in 0..2}
Inner == {{<<0, 1>>}, {<<1, 2>>}, {<<0, 2>>}, {<<1, 3>>}, {<<0, 2>>, <<0, 1>>}, {<<0, 2>>, <<1, 2>>},
          {<<0, 1>>, <<1, 3>>}, {<<1, 3>>, <<2, 3>>}}

MCLayouts == {{[at[i] EXCEPT !.gen = i] : i \in 0..2} : at \in [0..2 -> Places]}
MCLengths == {a :> 3 @@ b :> 3, a :> 3 @@ b :> 0, a :> 2 @@ b :> 3}
MCRangeSets ==
  UNION {{{RangeOf(r[1], r[2], counts[r]) : r \in DOMAIN counts} :
            counts \in [ends \cup {<<0, 3>>} -> 0..2]} : ends \in Inner}

-----------------------------------------------------------------------------
(* Dumps and snapshots: a function, a block in it, a function in that.     *)

Spans == {<<0, 4>>, <<1, 4>>, <<2, 3>>}
Reports(counts) == UNION {[dom \cup {<<0, 4>>} -> counts] : dom \in SUBSET Spans}

MCBoots == {b :> boot : boot \in Reports(0..2)}
MCWindows == {[s \in at |-> delta] : at \in SUBSET {a, b}, delta \in Reports(0..2)}
MCSnapshots == Reports(0..2)
MCFunctionOf == <<0, 4>> :> 1 @@ <<1, 4>> :> 1 @@ <<2, 3>> :> 2

\* The hypothesis of the theorems (CreditsProofs).
ASSUME NamesAreTrue == BareNames \/ NamesTellTheTruth
=============================================================================
