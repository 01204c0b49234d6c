--------------------------- MODULE CreditsProofs ---------------------------
(***************************************************************************)
(* What Credits asks of mapper.ts, project.ts and the two mergers of       *)
(* reports, for every disk, observation, layout of a bundle and report.    *)
(* An answer is the reply of the code to the input (Invariance), so each   *)
(* property comes down to a lemma about an operator of Mapping, Projection *)
(* or BootUnion:                                                           *)
(*   RegionsTell      the region that has the word is no narrower than     *)
(*                    that of the range that had it, for ranges that nest  *)
(*   UnionKeeps       a range is its own narrowest range                   *)
(*   DifferenceTells  what ran grew, found or not                          *)
(*   LocatedIsRight, ResolvedByItsMap, BuiltIsCredited                     *)
(*                    a name is found where it says or by its text; an     *)
(*                    entry that is written has no name that is not found  *)
(***************************************************************************)
EXTENDS Credits, WellFoundedInduction, TLAPS

\* The input is one of the inputs, and the answer, if there is one, its reply.
IInv ==
  /\ topic \in {"mapping", "projection", "union", "delta"}
  /\ input \in Inputs(topic)
  /\ \/ answer = Unanswered
     \/ topic = "mapping" /\ answer = Credited(input)
     \/ topic = "projection" /\ answer = Regioned(input)
     \/ topic = "union" /\ answer = United(input)
     \/ topic = "delta" /\ answer = Grown(input)

\* Nothing is answered but what was asked (Ask).
LEMMA Invariance == Spec => []IInv
<1>1. Init => IInv
  BY DEF Init, IInv
<1>2. IInv /\ [Next]_vars => IInv'
  BY DEF IInv, Next, Map, Project, Unite, Subtract, Ask, vars
<1> QED  BY <1>1, <1>2, PTL DEF Spec

-----------------------------------------------------------------------------
(* Projection.                                                             *)

\* What Min is of a set of numbers, whether or not it is finite.
LEMMA LeastOf ==
  ASSUME NEW S \in SUBSET Nat, S # {}
  PROVE  P!Min(S) \in S /\ \A y \in S : P!Min(S) <= y
<1>1. PICK x \in S : \A y \in S : ~(<<y, x>> \in OpToRel(<, Nat))
  BY WFMin, NatLessThanWellFounded
<1>2. ASSUME NEW y \in S  PROVE x <= y
  <2>1. <<y, x>> \in Nat \X Nat /\ ~(<<y, x>> \in OpToRel(<, Nat))
    BY <1>1
  <2>2. ~(y < x)
    BY <2>1 DEF OpToRel
  <2> QED  BY <2>2
<1> QED  BY <1>2 DEF P!Min

\* What Max is of a bounded one.
LEMMA MostOf ==
  ASSUME NEW S \in SUBSET Nat, S # {}, NEW k \in Nat, \A x \in S : x <= k
  PROVE  P!Max(S) \in S /\ \A y \in S : P!Max(S) >= y
<1> DEFINE T == {k - x : x \in S}
<1>1. T \in SUBSET Nat /\ T # {}
  <2>1. \A x \in S : k - x \in Nat
    OBVIOUS
  <2> QED  BY <2>1
<1>2. PICK x \in S : P!Min(T) = k - x
  BY <1>1, LeastOf
<1>3. \A y \in S : k - x <= k - y
  BY <1>1, <1>2, LeastOf
<1>4. \A y \in S : x >= y
  BY <1>3
<1> QED  BY <1>4 DEF P!Max

\* Code that ran is not said to have been left out (projectRanges in project.ts).
\* A region that says so and has the word is of a range q around the code, as all
\* that lies in its span is; the range n that says it ran is inside q, and so its
\* region is inside q's: it is as narrow, and has the word too.
LEMMA RegionsTell ==
  ASSUME NEW segments, NEW ranges, NEW length,
         \A s \in segments : s.gen \in Nat /\ s.orig \in Nat /\ s.source \in DOMAIN length,
         \A s \in DOMAIN length : length[s] \in Nat,
         \A r \in ranges : IsRange(r),
         Nested(ranges),
         NEW t \in P!Placed(segments, length), P!ExecutedAt(t.gen, ranges)
  PROVE  P!ExecutedAt(t.orig, P!Regions(segments, ranges, t.source, length))
<1> DEFINE usable == P!Placed(segments, length)
           src == t.source
           mine(r) == P!Mine(usable, r, src)
           offs(r) == {s.orig : s \in mine(r)}
           lo(r) == P!Min(offs(r))
           hi(r) == P!Max(offs(r))
           E(o) == P!EndAfter(usable, src, o, length)
           R(r) == [start |-> lo(r), end |-> E(hi(r)), count |-> r.count]
           regions == P!Regions(segments, ranges, src, length)
           at(r) == P!Within(r, t.orig)
<1>1. \A s \in usable : /\ s \in segments /\ s.gen \in Nat /\ s.orig \in Nat
                        /\ s.source = src => s.orig < length[src]
  BY DEF P!Placed
<1>2. length[src] \in Nat
  BY <1>1
<1>3. ASSUME NEW r \in ranges, mine(r) # {}
      PROVE  /\ lo(r) \in offs(r) /\ hi(r) \in offs(r)
             /\ \A s \in mine(r) : lo(r) <= s.orig /\ s.orig <= hi(r)
             /\ lo(r) \in Nat /\ hi(r) \in Nat /\ hi(r) < length[src]
  <2>1. offs(r) \in SUBSET Nat /\ offs(r) # {} /\ \A o \in offs(r) : o <= length[src] /\ o < length[src]
    BY <1>1, <1>2, <1>3 DEF P!Mine
  <2>2. lo(r) \in offs(r) /\ \A o \in offs(r) : lo(r) <= o
    BY <2>1, LeastOf
  <2>3. hi(r) \in offs(r) /\ \A o \in offs(r) : hi(r) >= o
    <3> HIDE DEF offs
    <3> QED  BY <2>1, <1>2, MostOf
  <2> QED  BY <2>1, <2>2, <2>3
<1>4. ASSUME NEW o \in Nat, o < length[src]
      PROVE  /\ E(o) \in Nat /\ o < E(o) /\ E(o) <= length[src]
             /\ \A s \in usable : s.source = src /\ s.orig > o => E(o) <= s.orig
             /\ E(o) = length[src] \/ \E s \in usable : s.source = src /\ s.orig > o /\ E(o) = s.orig
  <2> DEFINE later == {s.orig : s \in {u \in usable : u.source = src /\ u.orig > o}}
  <2>1. later \in SUBSET Nat
    BY <1>1
  <2>2. CASE later # {}
    <3>1. E(o) = P!Min(later)
      BY <2>2 DEF P!EndAfter
    <3>2. E(o) \in later /\ \A x \in later : E(o) <= x
      <4> HIDE DEF later, E
      <4> QED  BY <2>1, <2>2, <3>1, LeastOf
    <3> HIDE DEF E
    <3> QED  BY <1>1, <1>2, <3>2
  <2>3. CASE later = {}
    <3>1. E(o) = P!Max({length[src], o + 1})
      BY <2>3 DEF P!EndAfter
    <3>2. E(o) \in {length[src], o + 1} /\ \A x \in {length[src], o + 1} : E(o) >= x
      <4>1. {length[src], o + 1} \in SUBSET Nat /\ \A x \in {length[src], o + 1} : x <= length[src]
        BY <1>2, <1>4
      <4> HIDE DEF E
      <4> QED  BY <1>2, <3>1, <4>1, MostOf
    <3>3. E(o) = length[src]
      <4> HIDE DEF E
      <4> QED  BY <3>2, <1>2, <1>4
    <3> HIDE DEF E
    <3> QED  BY <3>3, <2>3, <1>2, <1>4
  <2> QED  BY <2>2, <2>3
<1>5. ASSUME NEW o \in Nat, NEW u \in Nat, o <= u, u < length[src]
      PROVE  E(o) <= E(u)
  <2> HIDE DEF E
  <2> QED  BY <1>1, <1>2, <1>4, <1>5
<1>6. regions = {R(r) : r \in {q \in ranges : 
                 /\ mine(q) # {}
                 /\ q.count = 0 =>
                      /\ P!Cardinality({s.source : s \in {x \in segments : P!Within(q, x.gen)}}) = 1
                      /\ P!OwnsSpan(usable, mine(q), src)}}
  BY DEF P!Regions
<1> DEFINE says(q) == /\ mine(q) # {}
                      /\ q.count = 0 =>
                           /\ P!Cardinality({s.source : s \in {x \in segments : P!Within(q, x.gen)}}) = 1
                           /\ P!OwnsSpan(usable, mine(q), src)
           around == {x \in regions : at(x)}
           width(x) == x.end - x.start
           narrowest == {x \in around : \A y \in around : width(x) <= width(y)}
<1>7. ASSUME NEW x \in regions
      PROVE  /\ \E r \in ranges : says(r) /\ x = R(r)
             /\ x.start \in Nat /\ x.end \in Nat /\ x.count \in Nat /\ width(x) \in Nat
  <2>1. PICK r \in ranges : says(r) /\ x = R(r)
    BY <1>6
  <2>2. x.start = lo(r) /\ x.end = E(hi(r)) /\ x.count = r.count /\ r.count \in Nat
    BY <2>1 DEF IsRange
  <2>3. /\ lo(r) \in Nat /\ hi(r) \in Nat /\ lo(r) <= hi(r)
        /\ E(hi(r)) \in Nat /\ hi(r) < E(hi(r))
    <3>1. mine(r) # {}
      BY <2>1
    <3> HIDE DEF mine, lo, hi, E
    <3> QED  BY <3>1, <1>3, <1>4
  <2>4. x.start \in Nat /\ x.end \in Nat /\ x.count \in Nat /\ width(x) \in Nat
    <3> HIDE DEF lo, hi, E
    <3> QED  BY <2>2, <2>3
  <2> HIDE DEF says, R, width
  <2> QED  BY <2>1, <2>4
<1>8. ASSUME NEW r \in ranges, says(r), r.count = 0, at(R(r))
      PROVE  t \in mine(r)
  <2>1. mine(r) # {} /\ P!OwnsSpan(usable, mine(r), src)
    BY <1>8
  <2>2. lo(r) <= t.orig /\ t.orig < E(hi(r))
    BY <1>8 DEF P!Within
  <2>3. hi(r) \in Nat /\ hi(r) < length[src]
    BY <2>1, <1>3
  <2>4. t.orig <= hi(r)
    <3> HIDE DEF E, lo, hi
    <3> QED  BY <1>1, <1>4, <2>2, <2>3
  <2>5. \A s \in usable : s.source = src /\ s.orig >= lo(r) /\ s.orig <= hi(r) => s \in mine(r)
    BY <2>1 DEF P!OwnsSpan
  <2> HIDE DEF E, lo, hi, mine
  <2> QED  BY <1>1, <1>3, <2>1, <2>2, <2>4, <2>5
<1>9. ASSUME around # {}  PROVE narrowest # {}
  <2> DEFINE W == {width(x) : x \in around}
  <2>1. W \in SUBSET Nat /\ W # {}
    BY <1>7, <1>9
  <2>2. P!Min(W) \in W /\ \A y \in W : P!Min(W) <= y
    <3> HIDE DEF W
    <3> QED  BY <2>1, LeastOf
  <2>3. PICK x \in around : width(x) = P!Min(W)
    BY <2>2
  <2>4. \A y \in around : width(x) <= width(y)
    <3> HIDE DEF width, around
    <3> QED  BY <2>2, <2>3
  <2> QED  BY <2>3, <2>4
<1> HIDE DEF regions
<1>10. P!ExecutedAt(t.orig, regions) <=> around = {} \/ \E x \in narrowest : x.count > 0
  BY DEF P!ExecutedAt
<1>11. ASSUME around # {}, \A x \in narrowest : ~(x.count > 0)
       PROVE  FALSE
  <2>1. PICK w \in narrowest : ~(w.count > 0)
    BY <1>9, <1>11
  <2>2. PICK q \in ranges : says(q) /\ w = R(q) /\ q.count = 0 /\ t \in mine(q)
    <3>1. PICK q \in ranges : says(q) /\ w = R(q)
      BY <1>7, <2>1
    <3>2. q.count = 0 /\ at(R(q))
      BY <1>7, <2>1, <3>1
    <3> QED  BY <1>8, <3>1, <3>2
  <2>3. q \in {r \in ranges : P!Within(r, t.gen)}
    BY <2>2 DEF P!Mine
  <2>4. PICK n \in ranges :
          /\ P!Within(n, t.gen) /\ n.count > 0
          /\ \A r \in ranges : P!Within(r, t.gen) => n.end - n.start <= r.end - r.start
    BY <2>3 DEF P!ExecutedAt
  <2>5. t \in mine(n) /\ says(n)
    BY <2>4 DEF P!Mine
  <2>6. R(n) \in regions
    BY <2>5, <1>6
  <2>7. lo(n) <= t.orig /\ t.orig <= hi(n) /\ t.orig < E(hi(n))
    <3> HIDE DEF lo, hi, E, mine
    <3> QED  BY <2>5, <1>1, <1>3, <1>4
  <2>8. at(R(n))
    <3> HIDE DEF lo, hi, E
    <3> QED  BY <2>7 DEF P!Within
  <2>9. IsRange(n) /\ IsRange(q) /\ P!Within(q, t.gen) /\ n.end - n.start <= q.end - q.start
    BY <2>3, <2>4
  <2>10. Around(q, n)
    BY <1>1, <2>4, <2>9 DEF Nested, Around, IsRange, P!Within
  <2>11. mine(n) \subseteq mine(q)
    BY <1>1, <2>9, <2>10 DEF Around, IsRange, P!Within, P!Mine
  <2>12. lo(q) <= lo(n) /\ hi(n) <= hi(q) /\ hi(q) < length[src] /\ {lo(q), lo(n), hi(q), hi(n)} \subseteq Nat
    <3>1. lo(n) \in offs(q) /\ hi(n) \in offs(q)
      BY <1>3, <2>5, <2>11
    <3> HIDE DEF lo, hi, mine
    <3> QED  BY <1>3, <2>2, <2>5, <3>1
  <2>13. E(hi(n)) <= E(hi(q)) /\ E(hi(n)) \in Nat /\ E(hi(q)) \in Nat
    <3> HIDE DEF lo, hi, E
    <3> QED  BY <1>2, <1>4, <1>5, <2>12
  <2>14. width(R(n)) <= width(w)
    <3>1. width(R(n)) = E(hi(n)) - lo(n) /\ width(w) = E(hi(q)) - lo(q)
      BY <2>2
    <3> HIDE DEF width, lo, hi, E
    <3> QED  BY <2>12, <2>13, <3>1
  <2>15. R(n) \in narrowest
    <3>1. \A y \in around : width(R(n)) <= width(y)
      <4> SUFFICES ASSUME NEW y \in around  PROVE width(R(n)) <= width(y)
        OBVIOUS
      <4>1. width(w) <= width(y) /\ {width(w), width(y), width(R(n))} \subseteq Nat
        BY <1>7, <2>1, <2>6
      <4> HIDE DEF width, R
      <4> QED  BY <2>14, <4>1
    <3> QED  BY <2>6, <2>8, <3>1
  <2>16. R(n).count > 0
    BY <2>4
  <2> QED  BY <1>11, <2>15, <2>16
<1>12. P!ExecutedAt(t.orig, regions)
  BY <1>10, <1>11
<1> QED  BY <1>12 DEF regions

-----------------------------------------------------------------------------
(* Unions and differences.                                                 *)

\* Of a span that is one of its own, a report says what it has for it.
LEMMA OwnSpanTells ==
  ASSUME NEW report, IsReport(report), NEW span \in DOMAIN report, U!Tells(span, report)
  PROVE  report[span] > 0
<1> DEFINE over == {s \in DOMAIN report : U!Contains(s, span)}
<1>1. span \in over
  BY DEF U!Contains, IsReport
<1>2. ASSUME NEW s \in over, U!Width(s) <= U!Width(span)  PROVE s = span
  <2>1. s \in Nat \X Nat /\ span \in Nat \X Nat /\ U!Contains(s, span)
    BY <1>1 DEF IsReport
  <2>2. s[1] = span[1] /\ s[2] = span[2]
    BY <1>2, <2>1 DEF U!Contains, U!Width
  <2> QED  BY <2>1, <2>2
<1>3. \A s \in over : U!Width(span) <= U!Width(s)
  BY <1>1 DEF IsReport, U!Contains, U!Width
<1>4. U!Narrowest(over) = span
  <2> HIDE DEF over
  <2> QED  BY <1>1, <1>2, <1>3 DEF U!Narrowest
<1> QED  BY <1>4 DEF U!Tells

\* What the window tells of a span, their union does, and what the boot tells where
\* the window does not deny it (mergeScript): the count of the narrowest range of the
\* window around it is in the maximum.
LEMMA UnionTells ==
  ASSUME NEW boot, NEW delta,
         IsReport(boot), IsReport(delta),
         NEW span \in DOMAIN boot \cup DOMAIN delta,
         \/ U!Tells(span, delta)
         \/ U!Tells(span, boot) /\ ~(span \in DOMAIN delta /\ delta[span] = 0)
  PROVE  U!MergeScript(boot, delta)[span] > 0
<1> DEFINE over(report) == {s \in DOMAIN report : U!Contains(s, span)}
<1>1. U!MergeScript(boot, delta)[span] =
        IF span \in DOMAIN boot THEN U!Count(boot, delta, span) ELSE delta[span]
  BY DEF U!MergeScript
<1>2. CASE span \in DOMAIN delta
  <2>1. delta[span] > 0
    <3>1. CASE U!Tells(span, delta)
      BY <1>2, <3>1, OwnSpanTells
    <3>2. CASE delta[span] # 0
      BY <1>2, <3>2 DEF IsReport
    <3> QED  BY <1>2, <3>1, <3>2
  <2> QED  BY <1>1, <1>2, <2>1 DEF U!Count
<1>3. CASE span \notin DOMAIN delta
  <2>1. span \in DOMAIN boot /\ boot[span] \in Nat
    BY <1>3 DEF IsReport
  <2> DEFINE enclosing == U!EnclosingDeltaCount(delta, span)
  <2>2. {s \in DOMAIN delta : U!Contains(s, span) /\ s # span} = over(delta)
    BY <1>3
  <2>3. over(delta) # {} => U!Narrowest(over(delta)) \in over(delta)
    <3> SUFFICES ASSUME over(delta) # {}  PROVE U!Narrowest(over(delta)) \in over(delta)
      OBVIOUS
    <3> DEFINE W == {U!Width(s) - U!Width(span) : s \in over(delta)}
    <3>1. \A s \in over(delta) : U!Width(s) \in Int /\ U!Width(s) - U!Width(span) \in Nat
      BY <2>1 DEF IsReport, U!Contains, U!Width
    <3>2. W \in SUBSET Nat /\ W # {}
      BY <3>1
    <3>3. PICK s \in over(delta) : U!Width(s) - U!Width(span) = P!Min(W)
      <4> HIDE DEF over
      <4> QED  BY <3>2, LeastOf
    <3>4. \A x \in over(delta) : U!Width(s) - U!Width(span) <= U!Width(x) - U!Width(span)
      <4>1. \A y \in W : P!Min(W) <= y
        <5> HIDE DEF W
        <5> QED  BY <3>2, LeastOf
      <4>2. \A x \in over(delta) : U!Width(x) - U!Width(span) \in W
        OBVIOUS
      <4> HIDE DEF over, W
      <4> QED  BY <3>3, <4>1, <4>2
    <3>5. \A x \in over(delta) : U!Width(s) <= U!Width(x)
      <4>1. U!Width(span) \in Int
        BY <2>1 DEF IsReport, U!Width
      <4> HIDE DEF over
      <4> QED  BY <3>1, <3>4, <4>1
    <3> HIDE DEF over
    <3> QED  BY <3>5 DEF U!Narrowest
  <2>4. enclosing \in Nat \cup {-1}
    BY <2>2, <2>3 DEF U!EnclosingDeltaCount, U!Unknown, IsReport
  <2>5. U!Count(boot, delta, span) = U!Max({enclosing, boot[span]})
    BY <1>3 DEF U!Count
  <2>6. U!Max({enclosing, boot[span]}) >= enclosing /\ U!Max({enclosing, boot[span]}) >= boot[span]
    BY <2>1, <2>4 DEF U!Max
  <2>7. CASE U!Tells(span, delta)
    <3>1. over(delta) # {} /\ delta[U!Narrowest(over(delta))] > 0
      BY <2>7 DEF U!Tells
    <3>2. enclosing > 0
      BY <2>2, <3>1 DEF U!EnclosingDeltaCount
    <3> HIDE DEF enclosing
    <3> QED  BY <1>1, <2>1, <2>4, <2>5, <2>6, <3>2 DEF U!Max
  <2>8. CASE U!Tells(span, boot)
    <3>1. boot[span] > 0
      BY <2>1, <2>8, OwnSpanTells
    <3> HIDE DEF enclosing
    <3> QED  BY <1>1, <2>1, <2>4, <2>5, <2>6, <3>1 DEF U!Max
  <2> QED  BY <2>7, <2>8
<1> QED  BY <1>2, <1>3

\* So for sets of scripts (unionWithBoot).
LEMMA UnionKeeps ==
  ASSUME NEW boot, NEW delta,
         \A url \in DOMAIN boot : IsReport(boot[url]),
         \A url \in DOMAIN delta : IsReport(delta[url]),
         NEW url \in DOMAIN U!UnionWithBoot(boot, delta),
         NEW span \in DOMAIN U!UnionWithBoot(boot, delta)[url],
         \/ TellsAt(url, span, delta)
         \/ TellsAt(url, span, boot) /\ ~Denied(url, span, delta)
  PROVE  U!UnionWithBoot(boot, delta)[url][span] > 0
<1> DEFINE both == U!UnionWithBoot(boot, delta)
<1>1. CASE url \notin DOMAIN delta
  <2>1. both[url] = boot[url] /\ url \in DOMAIN boot
    BY <1>1 DEF U!UnionWithBoot
  <2> QED  BY <1>1, <2>1, OwnSpanTells DEF TellsAt
<1>2. CASE url \notin DOMAIN boot
  <2>1. both[url] = delta[url] /\ url \in DOMAIN delta
    BY <1>2 DEF U!UnionWithBoot
  <2> QED  BY <1>2, <2>1, OwnSpanTells DEF TellsAt
<1>3. CASE url \in DOMAIN boot /\ url \in DOMAIN delta
  <2>1. both[url] = U!MergeScript(boot[url], delta[url])
    BY <1>3 DEF U!UnionWithBoot
  <2>2. span \in DOMAIN boot[url] \cup DOMAIN delta[url]
    BY <2>1 DEF U!MergeScript
  <2> QED  BY <1>3, <2>1, <2>2, UnionTells DEF TellsAt, Denied
<1> QED  BY <1>1, <1>2, <1>3

\* What ran between two snapshots has grown, and keeps its function in.
LEMMA DifferenceTells ==
  ASSUME NEW before, NEW found, NEW ran, NEW functionOf,
         IsReport(before), IsReport(ran), found \subseteq DOMAIN before,
         NEW span \in DOMAIN ran, ran[span] > 0
  PROVE  LET grown == U!DeltaScript(before, found, After(before, ran), functionOf) IN
           span \in DOMAIN grown /\ grown[span] > 0
<1> DEFINE after == After(before, ran)
           by == [s \in DOMAIN after |-> after[s] - (IF s \in found THEN before[s] ELSE 0)]
           kept == {s \in DOMAIN by : \E t \in DOMAIN by : functionOf[t] = functionOf[s] /\ by[t] > 0}
<1>1. span \in DOMAIN by /\ by[span] > 0
  BY DEF After, IsReport
<1>2. span \in kept
  BY <1>1
<1>3. U!DeltaScript(before, found, after, functionOf) = [s \in kept |-> by[s]]
  BY DEF U!DeltaScript, U!Restrict
<1> HIDE DEF by, kept
<1> QED  BY <1>1, <1>2, <1>3

-----------------------------------------------------------------------------
(* Names of a map.                                                         *)

\* The first of at most two readings is one of them.
LEMMA FirstOf ==
  ASSUME NEW S \in SUBSET (1..2), S # {}
  PROVE  Min(S) \in S
<1>1. \E x \in S : \A y \in S : x <= y
  <2>1. CASE 1 \in S
    BY <2>1
  <2>2. CASE 1 \notin S
    <3>1. \A y \in S : y = 2
      BY <2>2
    <3>2. 2 \in S
      BY <3>1
    <3> QED  BY <3>1, <3>2
  <2> QED  BY <2>1, <2>2
<1> QED  BY <1>1 DEF Min

\* No name has more than two readings.
LEMMA ReadingsAre ==
  ASSUME NEW form, NEW anchored \in BOOLEAN
  PROVE  /\ DOMAIN Readings(form, anchored) \subseteq 1..2
         /\ \A i \in DOMAIN Readings(form, anchored) :
              Readings(form, anchored)[i] \in {"own", "beside", "path", "authority", "url", "root"}
BY DEF Readings

\* A name that tells the truth and is found leads to what it stands for, or to a
\* file of its sort with its text.
LEMMA LocatedIsRight ==
  ASSUME NEW disk, NEW n, NEW anchored \in BOOLEAN, IsTruthful(n),
         Locate(disk, n, anchored).kind = "located"
  PROVE  LET file == Locate(disk, n, anchored).file IN
           /\ file \in DOMAIN disk /\ file \in InRepo
           /\ file = n.of \/ (Akin(file, n.of) /\ disk[file] = n.content /\ n.content # NoText)
<1> DEFINE readings == Readings(n.form, anchored)
           inside == {i \in DOMAIN readings : n.at[readings[i]] \in InRepo}
           found == {i \in inside : LET file == n.at[readings[i]] IN
                       /\ file \in DOMAIN disk
                       /\ Anchored(readings[i]) \/ Holds(disk, file, n.content)}
           i == Min(found)
<1>1. found # {} /\ Locate(disk, n, anchored) = Outcome("located", n.at[readings[i]])
  BY DEF Locate, Outcome
<1>2. i \in found
  BY <1>1, ReadingsAre, FirstOf
<1>3. readings[i] \in {"own", "beside", "path", "authority", "url", "root"}
  <2> HIDE DEF i
  <2> QED  BY <1>2, ReadingsAre
<1>4. Locate(disk, n, anchored).file = n.at[readings[i]]
  <2> HIDE DEF readings, i, found
  <2> QED  BY <1>1 DEF Outcome
<1> DEFINE file == n.at[readings[i]]
<1>5. file \in DOMAIN disk /\ file \in InRepo /\ (Anchored(readings[i]) \/ Holds(disk, file, n.content))
  <2> HIDE DEF i, readings
  <2> QED  BY <1>2
<1>6. file = n.of \/ (Akin(file, n.of) /\ disk[file] = n.content /\ n.content # NoText)
  <2> HIDE DEF i, readings
  <2> QED  BY <1>3, <1>5, MappingIsSorted DEF IsTruthful, MappingAssumption, Anchored, Holds
<1> HIDE DEF file
<1> QED  BY <1>4, <1>5, <1>6 DEF file

\* Code of the repository or of a package is found, or the script has a gap.
LEMMA NeverForeign ==
  ASSUME NEW disk, NEW n, NEW anchored \in BOOLEAN, IsTruthful(n), n.of \in Source \cup Vendored
  PROVE  Locate(disk, n, anchored).kind \in {"located", "unresolved"}
<1>1. /\ LooksLikePath(n.form)
      /\ \E i \in DOMAIN Readings(n.form, anchored) : n.at[Readings(n.form, anchored)[i]] \in InRepo
  BY DEF IsTruthful
<1> QED  BY <1>1 DEF Locate, Outcome

\* The names that are located and those that are not, by one way to read them.
IsReadBy(located, unresolved, disk, names, anchored) ==
  /\ located = [n \in {m \in names : Locate(disk, m, anchored).kind = "located"} |->
                  Locate(disk, n, anchored).file]
  /\ unresolved = {n \in names : Locate(disk, n, anchored).kind = "unresolved"}

\* A script that is mapped is so by the map it has, declared or beside it
\* (resolve in source-map.ts), all names being read the same way.
LEMMA ResolvedByItsMap ==
  ASSUME NEW disk, NEW s, NEW http \in BOOLEAN, NEW text, IsScript(s),
         ResolveFull(disk, s, http, text).kind = "mapped"
  PROVE  LET r == ResolveFull(disk, s, http, text) IN
           /\ HasMap(s)
           /\ \E anchored \in BOOLEAN : IsReadBy(r.located, r.unresolved, disk, NamesIn(s), anchored)
<1> DEFINE inline == s.declared.at = "inline"
           declared == IF inline THEN s.declared.map ELSE LoadMap(s, s.declared, http)
           neighbour == LoadMap(s, s.beside, http)
           map == IF declared # NoMap THEN declared ELSE neighbour
           anchored == CASE declared = NoMap -> s.beside.at = "disk"
                         [] inline -> s.path # Nowhere
                         [] OTHER -> s.declared.at = "disk"
           r == ResolveFull(disk, s, http, text)
<1>1. anchored \in BOOLEAN
  OBVIOUS
<1>2. declared \in {s.declared.map, NoMap} /\ neighbour \in {s.beside.map, NoMap}
  BY DEF LoadMap
<1>3. /\ map # NoMap
      /\ r = [kind |-> "mapped",
              located |-> [n \in {m \in map : Locate(disk, m, anchored).kind = "located"} |->
                            Locate(disk, n, anchored).file],
              unresolved |-> {n \in map : Locate(disk, n, anchored).kind = "unresolved"}]
  <2> SUFFICES ASSUME map = NoMap \/ ~(text \/ Load(disk, s, http))  PROVE FALSE
    BY DEF ResolveFull
  <2>1. r = Unmapped
    BY DEF ResolveFull
  <2> HIDE DEF r
  <2> QED  BY <2>1 DEF Unmapped, r
<1>4. map = NamesIn(s) /\ HasMap(s)
  <2> HIDE DEF declared, neighbour
  <2> QED  BY <1>2, <1>3 DEF NamesIn, HasMap, IsScript
<1>5. IsReadBy(r.located, r.unresolved, disk, map, anchored)
  <2> HIDE DEF map, anchored, r
  <2> QED  BY <1>3 DEF IsReadBy
<1> HIDE DEF map, anchored, r
<1>6. HasMap(s) /\ \E x \in BOOLEAN : IsReadBy(r.located, r.unresolved, disk, NamesIn(s), x)
  BY <1>1, <1>4, <1>5
<1> QED  BY <1>6 DEF r

\* What the observation brought along is of use only to a script without a text.
LEMMA TextInHandChangesNothing ==
  ASSUME NEW disk, NEW s, NEW http, Resolve(disk, s, http).kind = "mapped"
  PROVE  ResolveProjectable(disk, s, http) = Resolve(disk, s, http)
<1>1. ResolveFull(disk, s, http, FALSE) # Unmapped
  <2>1. Unmapped.kind # "mapped"
    BY DEF Unmapped
  <2> QED  BY <2>1 DEF Resolve
<1> QED  BY <1>1 DEF ResolveFull, Resolve, ResolveProjectable

\* An entry that is written has no gap: each script that was built is mapped, all
\* its names are accounted for, and it is credited with the sources they lead to.
LEMMA BuiltIsCredited ==
  ASSUME NEW disk, NEW scripts, NEW http \in BOOLEAN, NEW s \in Executed(scripts),
         ~s.allowed, ~AccountedForAsItStands(s), ~OwnSource(s),
         ToFiles(disk, scripts, http) # {Nowhere}
  PROVE  /\ Resolve(disk, s, http).kind = "mapped"
         /\ Resolve(disk, s, http).unresolved = {}
         /\ Sources(Resolve(disk, s, http)) \cap Source \subseteq ToFiles(disk, scripts, http)
<1> DEFINE r == Resolve(disk, s, http)
           of == {Attribute(disk, x, http) : x \in Executed(scripts)}
<1>1. Attribute(disk, s, http) = AttributeBuiltScript(disk, s, http)
  BY DEF Attribute
<1>2. \A x \in of : ~x.gap
  BY DEF ToFiles
<1>3. ~AttributeBuiltScript(disk, s, http).gap
  BY <1>1, <1>2
<1>4. r.kind \in {"mapped", "unmapped"}
  BY DEF Resolve, ResolveFull, Unmapped
<1>5. /\ r.kind # "unmapped" /\ r.unresolved = {}
      /\ AttributeBuiltScript(disk, s, http) = Attribution(Sources(r) \cap Source, FALSE)
  BY <1>3 DEF AttributeBuiltScript, Attribution
<1>6. AttributeBuiltScript(disk, s, http).sources = Sources(r) \cap Source
  <2> HIDE DEF r
  <2> QED  BY <1>5 DEF Attribution
<1>7. ToFiles(disk, scripts, http) = UNION {x.sources : x \in of}
  BY DEF ToFiles
<1>8. Attribute(disk, s, http).sources \subseteq UNION {x.sources : x \in of}
  OBVIOUS
<1> HIDE DEF r
<1>9. Sources(r) \cap Source \subseteq ToFiles(disk, scripts, http)
  BY <1>1, <1>6, <1>7, <1>8
<1> QED  BY <1>4, <1>5, <1>9 DEF r

\* Names lead to what they stand for or to its like, and none of those that
\* matter is passed over.
IsReadRight(r, disk, names) ==
  /\ \A n \in DOMAIN r.located :
       /\ n \in names
       /\ r.located[n] \in InRepo \cap DOMAIN disk
       /\ \/ r.located[n] = n.of
          \/ Akin(r.located[n], n.of) /\ disk[r.located[n]] = n.content /\ n.content # NoText
  /\ \A n \in names : n.of \in Source \cup Vendored => n \in DOMAIN r.located \/ n \in r.unresolved

\* That is how the names of a script that is mapped are read.
LEMMA LocatedNames ==
  ASSUME NEW disk, NEW s, NEW http \in BOOLEAN, NEW text, IsScript(s), \A n \in NamesIn(s) : IsTruthful(n),
         ResolveFull(disk, s, http, text).kind = "mapped"
  PROVE  IsReadRight(ResolveFull(disk, s, http, text), disk, NamesIn(s))
<1> DEFINE r == ResolveFull(disk, s, http, text)
<1>1. PICK anchored \in BOOLEAN : IsReadBy(r.located, r.unresolved, disk, NamesIn(s), anchored)
  BY ResolvedByItsMap
<1> HIDE DEF r
<1>2. ASSUME NEW n \in DOMAIN r.located
      PROVE  /\ n \in NamesIn(s)
             /\ r.located[n] \in InRepo \cap DOMAIN disk
             /\ \/ r.located[n] = n.of
                \/ Akin(r.located[n], n.of) /\ disk[r.located[n]] = n.content /\ n.content # NoText
  <2>1. /\ n \in NamesIn(s) /\ Locate(disk, n, anchored).kind = "located"
        /\ r.located[n] = Locate(disk, n, anchored).file
    BY <1>1, <1>2 DEF IsReadBy
  <2> QED  BY <2>1, LocatedIsRight
<1>3. ASSUME NEW n \in NamesIn(s), n.of \in Source \cup Vendored
      PROVE  n \in DOMAIN r.located \/ n \in r.unresolved
  BY <1>1, <1>3, NeverForeign DEF IsReadBy
<1>4. IsReadRight(r, disk, NamesIn(s))
  BY <1>2, <1>3 DEF IsReadRight
<1> QED  BY <1>4 DEF r

\* What holds of an input of topic "mapping".
LEMMA InputsOfMapping ==
  ASSUME IInv, Written, NamesTellTheTruth
  PROVE  /\ input.http \in BOOLEAN
         /\ \A file \in DOMAIN input.disk : input.disk[file] # NoText
         /\ \A s \in input.scripts : IsScript(s) /\ \A n \in NamesIn(s) : IsTruthful(n)
         /\ answer = Credited(input)
<1>1. topic = "mapping" /\ answer = Credited(input)
  BY DEF Written, IInv
<1>2. input \in [disk : Disks, scripts : Observations, http : BOOLEAN]
  BY <1>1 DEF IInv, Inputs
<1>3. input.disk \in Disks /\ input.scripts \in Observations /\ input.http \in BOOLEAN
  BY <1>2
<1> QED  BY <1>1, <1>3, InputsAreReal DEF CreditsAssumption, NamesTellTheTruth

\* The names of a script that has a map of its own, in an entry that is written.
LEMMA NamesAreCredited ==
  ASSUME IInv, Written, NamesTellTheTruth, NEW s \in MappedScripts, ~OwnSource(s)
  PROVE  LET r == Resolve(input.disk, s, input.http) IN
           /\ r.kind = "mapped"
           /\ \A n \in NamesIn(s) : n.of \in Source \cup Vendored => n \in DOMAIN r.located
           /\ \A n \in DOMAIN r.located :
                /\ n \in NamesIn(s) /\ r.located[n] \in DOMAIN input.disk
                /\ \/ r.located[n] = n.of
                   \/ Akin(r.located[n], n.of) /\ input.disk[r.located[n]] = n.content
                /\ r.located[n] \in Sources(r)
                /\ r.located[n] \in Source => r.located[n] \in answer.files
<1> DEFINE r == Resolve(input.disk, s, input.http)
<1>1. s \in Executed(input.scripts) /\ s \in input.scripts /\ ~s.allowed /\ ~AccountedForAsItStands(s)
  BY DEF MappedScripts, Executed
<1>2. answer.files = ToFiles(input.disk, input.scripts, input.http) /\ answer.files # {Nowhere}
  BY InputsOfMapping DEF Credited, Written
<1>3. /\ r.kind = "mapped" /\ r.unresolved = {}
      /\ Sources(r) \cap Source \subseteq answer.files
  BY <1>1, <1>2, InputsOfMapping, BuiltIsCredited
<1>4. IsReadRight(r, input.disk, NamesIn(s))
  BY <1>1, <1>3, InputsOfMapping, LocatedNames DEF Resolve
<1>5. \A n \in DOMAIN r.located : r.located[n] \in Sources(r)
  BY DEF Sources, Range
<1> HIDE DEF r
<1>6. \A n \in DOMAIN r.located : r.located[n] \in Source => r.located[n] \in answer.files
  BY <1>3, <1>5
<1>7. \A n \in NamesIn(s) : n.of \in Source \cup Vendored => n \in DOMAIN r.located
  BY <1>3, <1>4 DEF IsReadRight
<1> QED  BY <1>3, <1>4, <1>5, <1>6, <1>7 DEF r, IsReadRight

-----------------------------------------------------------------------------
(* Files, packages and blocks.                                             *)

\* A source that ran is in the entry, or a file with its text (toFiles).
LEMMA FilesAreCredited == ASSUME IInv, NamesTellTheTruth  PROVE FilesHold
<1> SUFFICES ASSUME Written, NEW s \in MappedScripts, NEW n \in NamesIn(s), n.of \in Source
             PROVE  n.of \in answer.files \/ \E h \in answer.files : input.disk[h] = n.content
  BY DEF FilesHold
<1>1. CASE OwnSource(s)
  <2>1. s \in Executed(input.scripts) /\ s \in input.scripts
    BY DEF MappedScripts, Executed
  <2>2. n.of = s.path
    BY <1>1, <2>1, InputsOfMapping DEF IsScript
  <2>3. s.path \in Attribute(input.disk, s, input.http).sources
    <3>1. Attribute(input.disk, s, input.http) = AttributeOwnSource(input.disk, s, input.http)
      BY <1>1, MappingIsSorted DEF Attribute, OwnSource, AccountedForAsItStands, MappingAssumption, InRepo
    <3> QED  BY <2>2, <3>1 DEF AttributeOwnSource, Attribution
  <2>4. answer.files = ToFiles(input.disk, input.scripts, input.http) /\ answer.files # {Nowhere}
    BY InputsOfMapping DEF Credited, Written
  <2>5. answer.files = UNION {x.sources : x \in {Attribute(input.disk, y, input.http) :
                                                   y \in Executed(input.scripts)}}
    BY <2>4 DEF ToFiles
  <2> QED  BY <2>1, <2>2, <2>3, <2>5
<1>2. CASE ~OwnSource(s)
  BY <1>2, NamesAreCredited DEF Akin
<1> QED  BY <1>1, <1>2

\* Vendored code that was bundled in: its package is (toPackages).
LEMMA PackagesAreCredited == ASSUME IInv, NamesTellTheTruth  PROVE PackagesHold
<1> SUFFICES ASSUME Written, NEW s \in MappedScripts, NEW n \in NamesIn(s),
                    n.of \in Vendored, Package[n.of] # Nowhere
             PROVE  Package[n.of] \in answer.packages
  BY DEF PackagesHold
<1>1. s \in Executed(input.scripts) /\ s \in input.scripts
  BY DEF MappedScripts, Executed
<1>2. ~OwnSource(s) /\ ~AccountedForAsItStands(s)
  <2> SUFFICES ASSUME OwnSource(s)  PROVE FALSE
    BY DEF MappedScripts
  <2>1. n.of = s.path
    BY <1>1, InputsOfMapping DEF IsScript
  <2> QED  BY <2>1, MappingIsSorted DEF OwnSource, MappingAssumption
<1> DEFINE r == Resolve(input.disk, s, input.http)
<1>3. PICK k \in Sources(r) : k \in Vendored /\ Package[k] = Package[n.of]
  <2>1. /\ n \in DOMAIN r.located /\ r.located[n] \in Sources(r)
        /\ r.located[n] = n.of \/ Akin(r.located[n], n.of)
    BY <1>2, NamesAreCredited
  <2> HIDE DEF r
  <2> QED  BY <2>1 DEF Akin
<1>4. ~(s.url = "file" /\ s.path \in Vendored)
  BY <1>2 DEF AccountedForAsItStands
<1>5. answer.packages = ToPackages(input.disk, input.scripts, input.http)
  BY InputsOfMapping DEF Credited
<1> QED  BY <1>1, <1>3, <1>4, <1>5 DEF ToPackages

\* An entry that is written has only sources, and they are there.
LEMMA FilesAreSources ==
  ASSUME NEW disk, NEW scripts, NEW http, ToFiles(disk, scripts, http) # {Nowhere}
  PROVE  ToFiles(disk, scripts, http) \subseteq Source \cap DOMAIN disk
<1>1. ASSUME NEW s  PROVE Attribute(disk, s, http).sources \subseteq Source
  BY DEF Attribute, AttributeOwnSource, AttributeBuiltScript, Attribution
<1>2. /\ ToFiles(disk, scripts, http) =
           UNION {x.sources : x \in {Attribute(disk, s, http) : s \in Executed(scripts)}}
      /\ ToFiles(disk, scripts, http) \subseteq DOMAIN disk
  BY DEF ToFiles
<1> QED  BY <1>1, <1>2

\* Blocks that are recorded of a file are blocks of it.
LEMMA BlocksAt ==
  ASSUME NEW h, NEW places, {<<h, BlockAt[input.disk[h]][q]>> : q \in places} \subseteq answer.blocks
  PROVE  {BlockAt[input.disk[h]][q] : q \in places} \subseteq BlocksOf(h)
<1> SUFFICES ASSUME NEW q \in places  PROVE BlockAt[input.disk[h]][q] \in BlocksOf(h)
  OBVIOUS
<1> DEFINE x == <<h, BlockAt[input.disk[h]][q]>>
<1>1. x \in answer.blocks /\ x[1] = h /\ x[2] = BlockAt[input.disk[h]][q]
  OBVIOUS
<1> HIDE DEF x
<1> QED  BY <1>1 DEF BlocksOf

\* A script that gave blocks of h is the one it ran through, and the name it was
\* read by the one that stands for it; its text is the one h has (toBlocks).
LEMMA BlocksAreCredited == ASSUME IInv, NamesTellTheTruth, ~Mixed  PROVE BlocksHold
<1> SUFFICES ASSUME Written, NEW h \in answer.files, BlocksOf(h) # {},
                    AtMostOne(Through(h)), AtMostOne(NamesOf(h)), NEW s \in Through(h)
             PROVE  RanIn(s, h) \subseteq BlocksOf(h)
  BY DEF BlocksHold
<1> DEFINE disk == input.disk
           There(f, places) == {<<f, BlockAt[disk[f]][q]>> : q \in places}
           own(x) == x.url = "file" /\ x.path \in Source
           Of(x) == IF ~own(x)
                    THEN UNION {There(nf[2], x.ran[nf[1].of]) : nf \in Projected(disk, x, input.http)}
                    ELSE IF x.path \in DOMAIN disk THEN There(x.path, x.ran[x.path])
                    ELSE {}
<1>1. s \in MappedScripts /\ h \in DOMAIN s.ran
  BY DEF Through
<1>2. \A x \in MappedScripts : x \in Executed(input.scripts) /\ x \in input.scripts
  BY DEF MappedScripts, Executed
<1>3. /\ answer.blocks = ToBlocks(disk, input.scripts, input.http)
      /\ answer.files = ToFiles(disk, input.scripts, input.http) /\ answer.files # {Nowhere}
  BY InputsOfMapping DEF Credited, Written
<1>4. h \in Source /\ h \in DOMAIN disk
  BY <1>3, FilesAreSources
<1>5. answer.blocks = UNION {Of(x) : x \in Executed(input.scripts)}
  BY <1>3 DEF ToBlocks
<1>6. CASE OwnSource(s)
  <2>1. h = s.path /\ own(s)
    BY <1>1, <1>2, <1>4, <1>6, InputsOfMapping DEF IsScript, OwnSource
  <2>2. There(h, s.ran[h]) \subseteq answer.blocks
    BY <1>1, <1>2, <1>4, <1>5, <2>1
  <2>3. RanIn(s, h) = {BlockAt[disk[h]][q] : q \in s.ran[h]}
    BY <1>6 DEF RanIn
  <2> QED  BY <2>2, <2>3, BlocksAt
<1>7. CASE ~OwnSource(s)
  <2>1. ~own(s)
    BY <1>7 DEF OwnSource
  <2>2. PICK m \in NamesIn(s) : m.of = h
    <3>1. Resolve(disk, s, input.http).kind = "mapped" /\ IsScript(s) /\ input.http \in BOOLEAN
      BY <1>1, <1>2, <1>7, NamesAreCredited, InputsOfMapping
    <3>2. HasMap(s)
      BY <3>1, ResolvedByItsMap DEF Resolve
    <3> QED  BY <1>1, <1>7, <3>1, <3>2 DEF IsScript
  <2>3. \A n \in NamesIn(s) : n.of = h => <<s, n>> \in NamesOf(h)
    BY <1>1 DEF NamesOf
  <2>4. PICK x \in Executed(input.scripts) : \E b \in Of(x) : b[1] = h
    BY <1>5 DEF BlocksOf
  <2>5. ~own(x)
    <3> SUFFICES ASSUME own(x)  PROVE FALSE
      OBVIOUS
    <3>1. OwnSource(x) /\ x \in input.scripts /\ x.path = h
      BY <2>4 DEF OwnSource, Executed
    <3>2. x \in Through(h)
      BY <2>4, <3>1, InputsOfMapping DEF MappedScripts, Through, IsScript
    <3> QED  BY <1>7, <3>1, <3>2 DEF AtMostOne
  <2>6. PICK nf \in Projected(disk, x, input.http) : \E b \in There(nf[2], x.ran[nf[1].of]) : b[1] = h
    BY <2>4, <2>5
  <2> DEFINE rp == ResolveProjectable(disk, x, input.http)
  <2>7. /\ ~(x.allowed \/ AccountedForAsItStands(x))
        /\ nf[1] \in DOMAIN rp.located /\ rp.located[nf[1]] = h
        /\ nf[1].content = disk[h]
    BY <2>6 DEF Projected, Confirmed
  <2>8. x \in MappedScripts /\ x \in input.scripts
    BY <2>4, <2>7 DEF MappedScripts, Executed
  <2>9. rp.kind = "mapped"
    <3> SUFFICES ASSUME rp = Unmapped  PROVE FALSE
      BY DEF ResolveProjectable, ResolveFull
    <3> HIDE DEF rp
    <3> QED  BY <2>7 DEF Unmapped
  <2>10. nf[1] \in NamesIn(x) /\ (h = nf[1].of \/ Akin(h, nf[1].of))
    <3>1. IsScript(x) /\ (\A n \in NamesIn(x) : IsTruthful(n)) /\ input.http \in BOOLEAN
      BY <2>8, InputsOfMapping
    <3>2. rp = ResolveFull(disk, x, input.http, x.carried)
      BY DEF ResolveProjectable
    <3> HIDE DEF rp
    <3> QED  BY <2>7, <2>9, <3>1, <3>2, LocatedNames DEF IsReadRight
  <2>11. ~OwnSource(x)
    <3> SUFFICES ASSUME OwnSource(x)  PROVE FALSE
      OBVIOUS
    <3>1. nf[1].of = x.path /\ x.path \in Other
      BY <2>5, <2>8, <2>10, InputsOfMapping DEF IsScript, OwnSource
    <3> QED  BY <1>4, <2>10, <3>1, MappingIsSorted DEF Akin, MappingAssumption
  <2>12. rp = Resolve(disk, x, input.http)
    BY <2>8, <2>11, NamesAreCredited, TextInHandChangesNothing
  <2>13. <<x, nf[1]>> \in NamesOf(h)
    <3> HIDE DEF rp
    <3> QED  BY <2>7, <2>8, <2>10, <2>12 DEF NamesOf
  <2>14. x = s /\ nf[1] = m /\ \A n \in NamesIn(s) : n.of = h => n = m
    <3>1. \A n \in NamesIn(s) : n.of = h => <<s, n>> = <<x, nf[1]>>
      BY <2>3, <2>13 DEF AtMostOne
    <3> QED  BY <2>2, <3>1
  <2>15. m.text = disk[h]
    <3>1. m.content \in {m.text, NoText} /\ disk[h] # NoText
      BY <1>1, <1>2, <1>4, <2>2, InputsOfMapping DEF IsScript
    <3> QED  BY <2>7, <2>14, <3>1
  <2>16. There(h, s.ran[h]) \subseteq answer.blocks
    <3>1. nf[2] = h /\ nf \in Projected(disk, s, input.http) /\ nf[1].of = h
      BY <2>2, <2>6, <2>14
    <3>2. There(nf[2], s.ran[nf[1].of]) \subseteq Of(s)
      BY <2>1, <3>1
    <3> QED  BY <1>1, <1>2, <1>5, <3>1, <3>2
  <2>17. RanIn(s, h) \subseteq {BlockAt[m.text][q] : q \in s.ran[h]}
    BY <1>7, <2>14 DEF RanIn
  <2> QED  BY <2>15, <2>16, <2>17, BlocksAt
<1> QED  BY <1>6, <1>7

-----------------------------------------------------------------------------
(* The properties of the run.                                              *)

\* The lemmas above, of an input that was asked.
LEMMA ProjectionIsRight == ASSUME IInv  PROVE ProjectionHolds
<1> SUFFICES ASSUME topic = "projection", answer # Unanswered,
                    NEW t \in P!Placed(input.segments, input.length), P!ExecutedAt(t.gen, input.ranges)
             PROVE  P!ExecutedAt(t.orig, answer[t.source])
  BY DEF ProjectionHolds
<1>1. answer = Regioned(input) /\ input \in [segments : Layouts, length : Lengths, ranges : RangeSets]
  BY DEF IInv, Inputs
<1>2. input.segments \in Layouts /\ input.length \in Lengths /\ input.ranges \in RangeSets
  BY <1>1
<1>3. t \in input.segments
  BY DEF P!Placed
<1>4. answer[t.source] = P!Regions(input.segments, input.ranges, t.source, input.length)
  BY <1>1, <1>2, <1>3, InputsAreReal DEF CreditsAssumption, Regioned
<1>5. /\ \A s \in input.segments : s.gen \in Nat /\ s.orig \in Nat /\ s.source \in DOMAIN input.length
      /\ \A s \in DOMAIN input.length : input.length[s] \in Nat
      /\ \A r \in input.ranges : IsRange(r)
      /\ Nested(input.ranges)
  BY <1>2, InputsAreReal DEF CreditsAssumption
<1> QED  BY <1>4, <1>5, RegionsTell

\* The same of a union.
LEMMA BootIsKept == ASSUME IInv  PROVE BootKept
<1> SUFFICES ASSUME topic = "union", answer # Unanswered
             PROVE  BootKept
  BY DEF BootKept
<1>1. answer = U!UnionWithBoot(input.boot, input.delta) /\ input \in [boot : Boots, delta : Windows]
  BY DEF IInv, Inputs, United
<1>2. input.boot \in Boots /\ input.delta \in Windows
  BY <1>1
<1>3. /\ \A url \in DOMAIN input.boot : IsReport(input.boot[url])
      /\ \A url \in DOMAIN input.delta : IsReport(input.delta[url])
  BY <1>2, InputsAreReal DEF CreditsAssumption
<1> QED  BY <1>1, <1>3, UnionKeeps DEF BootKept

\* The same of a difference.
LEMMA DeltaIsRight == ASSUME IInv  PROVE DeltaHolds
<1> SUFFICES ASSUME topic = "delta", answer # Unanswered, NEW span \in DOMAIN input.ran, input.ran[span] > 0
             PROVE  span \in DOMAIN answer /\ answer[span] > 0
  BY DEF DeltaHolds
<1>1. /\ answer = Grown(input)
      /\ input \in [before : Snapshots, ran : Snapshots, found : SUBSET DOMAIN FunctionOf]
  BY DEF IInv, Inputs
<1>2. input.before \in Snapshots /\ input.ran \in Snapshots
  BY <1>1
<1>3. IsReport(input.before) /\ IsReport(input.ran)
  BY <1>2, InputsAreReal DEF CreditsAssumption
<1>4. input.found \cap DOMAIN input.before \subseteq DOMAIN input.before
  OBVIOUS
<1> QED  BY <1>1, <1>3, <1>4, DifferenceTells DEF Grown

\* An entry that is written has every source of the repository that ran in any
\* script, as itself or as a file with the same text, as long as the names in
\* source maps tell the truth (toFiles in mapper.ts, locate in source-map.ts).
THEOREM FilesAreNeverMissed == NamesTellTheTruth => (Spec => []FilesHold)
<1> SUFFICES ASSUME NamesTellTheTruth  PROVE Spec => []FilesHold
  OBVIOUS
<1>1. IInv => FilesHold
  BY FilesAreCredited
<1> QED  BY <1>1, Invariance, PTL

\* It has every package whose code was built into what ran (toPackages).
THEOREM PackagesAreNeverMissed == NamesTellTheTruth => (Spec => []PackagesHold)
<1> SUFFICES ASSUME NamesTellTheTruth  PROVE Spec => []PackagesHold
  OBVIOUS
<1>1. IInv => PackagesHold
  BY PackagesAreCredited
<1> QED  BY <1>1, Invariance, PTL

\* The blocks it has of a source that ran in one script only are all that ran
\* there, as of the text the source has now (toBlocks in mapper.ts).
THEOREM BlocksAreNeverMissed == NamesTellTheTruth /\ ~Mixed => (Spec => []BlocksHold)
<1> SUFFICES ASSUME NamesTellTheTruth, ~Mixed  PROVE Spec => []BlocksHold
  OBVIOUS
<1>1. IInv => BlocksHold
  BY BlocksAreCredited
<1> QED  BY <1>1, Invariance, PTL

\* No layout of a bundle makes projected ranges say of code that ran that it did
\* not (project.ts).
THEOREM ProjectionNeverMisses == Spec => []ProjectionHolds
<1>1. IInv => ProjectionHolds
  BY ProjectionIsRight
<1> QED  BY <1>1, Invariance, PTL

\* Of every range of the union, what ran in the window ran, and what ran at boot, in
\* every window whose dump does not report that very range as one that did not run
\* (boot-delta-coverage.ts).
THEOREM BootIsAlwaysKept == Spec => []BootKept
<1>1. IInv => BootKept
  BY BootIsKept
<1> QED  BY <1>1, Invariance, PTL

\* What ran between two snapshots is in their difference, with a count, whatever
\* the index of functions leads to (inspector-observer.ts).
THEOREM DeltaNeverMisses == Spec => []DeltaHolds
<1>1. IInv => DeltaHolds
  BY DeltaIsRight
<1> QED  BY <1>1, Invariance, PTL
=============================================================================
