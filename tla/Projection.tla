----------------------------- MODULE Projection -----------------------------
(***************************************************************************)
(* Coverage ranges of a script that was built from several sources, and    *)
(* what they say of those sources (project.ts, executedAt in blocks.ts).   *)
(*                                                                         *)
(* A segment of the source map places one generated offset at an offset of *)
(* a source: [gen, source, orig].  A range is [start, end, count], its end *)
(* exclusive; the region it is projected to has the same shape.            *)
(***************************************************************************)
EXTENDS Integers, FiniteSets, FiniteSetsExt

Within(range, offset) == range.start <= offset /\ offset < range.end

\* What a map can be read for: the segments of a source whose text is there
\* (length, 0 without one) and holds every segment of that source.
Placed(segments, length) ==
  {s \in segments : /\ length[s.source] > 0
                    /\ \A t \in segments : t.source = s.source => t.orig < length[s.source]}

\* The next mapped construct after an offset of a source, or the source's end.
EndAfter(usable, source, offset, length) ==
  LET later == {s.orig : s \in {t \in usable : t.source = source /\ t.orig > offset}}
  IN  IF later # {} THEN Min(later) ELSE Max({length[source], offset + 1})

Mine(usable, range, source) ==
  {s \in usable : s.source = source /\ Within(range, s.gen)}

\* Mutant: code that was inlined elsewhere too is not thought of.
OwnsHullOnly(usable, mine, source) ==
  LET offsets == {s.orig : s \in mine}
  IN  \A s \in usable : s.source = source /\ s.orig >= Min(offsets) /\ s.orig <= Max(offsets)
                          => s.orig \in offsets

\* A range may say "did not run" of the span of its segments only when all the
\* mapped code in it is the range's own, and lies nowhere else in the script.
OwnsSpan(usable, mine, source) ==
  LET offsets == {s.orig : s \in mine}
  IN  \A s \in usable : s.source = source /\ s.orig >= Min(offsets) /\ s.orig <= Max(offsets)
                          => s \in mine

\* The regions of one source.  A range that did not run and reaches several
\* sources, whether or not they can be read, says nothing.
Regions(segments, ranges, source, length) ==
  LET usable == Placed(segments, length)
      Sources(range) == {s.source : s \in {t \in segments : Within(range, t.gen)}}
      Says(range) == LET mine == Mine(usable, range, source) IN
        /\ mine # {}
        /\ range.count = 0 => /\ Cardinality(Sources(range)) = 1
                              /\ OwnsSpan(usable, mine, source)
      Region(range) == LET offsets == {s.orig : s \in Mine(usable, range, source)} IN
        [start |-> Min(offsets),
         end |-> EndAfter(usable, source, Max(offsets), length),
         count |-> range.count]
  IN  {Region(range) : range \in {r \in ranges : Says(r)}}

\* The narrowest region around a probe has the word, the highest count among
\* equals; a probe in no region counts as executed.
ExecutedAt(probe, regions) ==
  LET around == {r \in regions : Within(r, probe)}
      width(r) == r.end - r.start
      narrowest == {r \in around : \A t \in around : width(r) <= width(t)}
  IN  around = {} \/ \E r \in narrowest : r.count > 0
=============================================================================
