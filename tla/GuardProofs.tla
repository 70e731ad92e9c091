----------------------------- MODULE GuardProofs ----------------------------
(***************************************************************************)
(* Theorems about the redaction of Guard: for texts of any length, any     *)
(* number of findings and any detectors.                                   *)
(***************************************************************************)
EXTENDS Guard, WellFoundedInduction, TLAPS

-----------------------------------------------------------------------------
(* Loops.  A loop over a list is a function on 0 .. n: where it starts,    *)
(* and what a turn makes of the value before it.                           *)

LEMMA LeastExists ==
  ASSUME NEW T \in SUBSET Nat, T # {}
  PROVE  \E least \in T : \A t \in T : least <= t
<1>1. PICK least \in T : \A t \in T : ~ (<<t, least>> \in OpToRel(<, Nat))
  BY WFMin, NatLessThanWellFounded, Zenon
<1>2. \A t \in T : least <= t
  <2>. SUFFICES ASSUME NEW t \in T PROVE least <= t
    OBVIOUS
  <2>1. ~ (<<t, least>> \in {ss \in Nat \X Nat : ss[1] < ss[2]})
    BY <1>1 DEF OpToRel
  <2>. QED
    BY <2>1
<1>. QED
  BY <1>2

(* What holds of 0 and passes from each number below n to the next one     *)
(* holds up to n.                                                          *)
LEMMA Countup ==
  ASSUME NEW n \in Nat, NEW good, 0 \in good,
         \A i \in 1 .. n : i - 1 \in good => i \in good
  PROVE  \A i \in 0 .. n : i \in good
<1>. DEFINE T == {i \in 0 .. n : i \notin good}
<1>. SUFFICES ASSUME T # {} PROVE FALSE
  OBVIOUS
<1>1. T \in SUBSET Nat
  OBVIOUS
<1>2. PICK i \in T : \A t \in T : i <= t
  <2>. HIDE DEF T
  <2>. QED
    BY <1>1, LeastExists
<1>3. i \in 1 .. n /\ i - 1 \in 0 .. n
  OBVIOUS
<1>4. i - 1 \notin T
  BY <1>2, <1>3
<1>. QED
  BY <1>3, <1>4

IsLoop(f, S, start, n, turn) ==
  /\ f \in [0 .. n -> S] /\ f[0] = start
  /\ \A i \in 1 .. n : f[i] = turn[i][f[i - 1]]

LEMMA LoopExists ==
  ASSUME NEW S, NEW start \in S, NEW n \in Nat, NEW turn \in [1 .. n -> [S -> S]]
  PROVE  \E f : IsLoop(f, S, start, n, turn)
<1>. DEFINE Runs(m, f) ==
       /\ f \in [0 .. m -> S] /\ f[0] = start
       /\ \A i \in 1 .. m : f[i] = turn[i][f[i - 1]]
<1>. DEFINE good == {m \in 0 .. n : \E f : Runs(m, f)}
<1>1. 0 \in good
  <2>1. Runs(0, [i \in 0 .. 0 |-> start])
    OBVIOUS
  <2>. HIDE DEF Runs
  <2>. QED
    BY <2>1
<1>2. ASSUME NEW m \in 1 .. n, m - 1 \in good PROVE m \in good
  <2>1. PICK g : Runs(m - 1, g)
    BY <1>2
  <2>. DEFINE f == [i \in 0 .. m |-> IF i = m THEN turn[m][g[m - 1]] ELSE g[i]]
  <2>2. g[m - 1] \in S /\ m \in 1 .. n
    BY <2>1
  <2>3. turn[m][g[m - 1]] \in S
    BY <2>2
  <2>4. f \in [0 .. m -> S]
    BY <2>1, <2>3
  <2>5. f[0] = start
    BY <2>1
  <2>6. ASSUME NEW i \in 1 .. m PROVE f[i] = turn[i][f[i - 1]]
    <3>1. f[i - 1] = g[i - 1]
      OBVIOUS
    <3>2. CASE i = m
      <4>1. f[m] = turn[m][g[m - 1]]
        OBVIOUS
      <4>. QED
        BY <3>1, <3>2, <4>1
    <3>3. CASE i # m
      <4>1. i \in 1 .. m - 1 /\ f[i] = g[i]
        BY <3>3
      <4>2. g[i] = turn[i][g[i - 1]]
        BY <2>1, <4>1
      <4>. QED
        BY <3>1, <4>1, <4>2
    <3>. QED
      BY <3>2, <3>3
  <2>7. Runs(m, f)
    BY <2>4, <2>5, <2>6
  <2>. HIDE DEF Runs, f
  <2>. QED
    BY <2>7
<1>3. n \in good
  <2>1. n \in 0 .. n
    OBVIOUS
  <2>. HIDE DEF good
  <2>2. \A i \in 0 .. n : i \in good
    BY <1>1, <1>2, Countup
  <2>. QED
    BY <2>1, <2>2
<1>. QED
  BY <1>3 DEF IsLoop

-----------------------------------------------------------------------------
(* What the spans after the first i findings are: separate and in order,   *)
(* each begun by a finding, together what the findings cover, and each     *)
(* with one of the surest detectors of the findings in it.                 *)
Within(f, s) == s.start <= f.start /\ f.end <= s.end

Separate(spans) ==
  \A k, l \in DOMAIN spans : k < l => spans[k].end < spans[l].start

BegunBy(found, i, spans) ==
  \A l \in DOMAIN spans : \E j \in 1 .. i : spans[l].start = found[j].start

Covered(found, i, spans) ==
  /\ \A j \in 1 .. i : \E l \in DOMAIN spans : Within(found[j], spans[l])
  /\ \A l \in DOMAIN spans : \A p \in Nat : (spans[l].start <= p /\ p < spans[l].end) =>
       \E j \in 1 .. i : found[j].start <= p /\ p < found[j].end

NamedBySurest(found, i, spans) ==
  \A l \in DOMAIN spans :
    /\ \E j \in 1 .. i : Within(found[j], spans[l]) /\ spans[l].detector = found[j].detector
    /\ \A j \in 1 .. i : Within(found[j], spans[l]) =>
         found[j].detector.confidence <= spans[l].detector.confidence

Merged(found, i, spans) ==
  /\ spans \in Seq(Spans)
  /\ Separate(spans)
  /\ BegunBy(found, i, spans)
  /\ Covered(found, i, spans)
  /\ NamedBySurest(found, i, spans)

LEMMA SpanTypes ==
  ASSUME NEW s \in Spans
  PROVE  /\ s.start \in Nat /\ s.end \in Nat /\ s.start < s.end /\ s.end <= MaxLength
         /\ s.detector \in Detectors /\ s.detector.confidence \in Nat
  BY LengthAssumption, DetectorAssumption DEF Spans, Finding

LEMMA SpanIs ==
  ASSUME NEW from \in Nat, NEW to \in Nat, from < to, to <= MaxLength, NEW d \in Detectors
  PROVE  [start |-> from, end |-> to, detector |-> d] \in Spans
  BY LengthAssumption DEF Spans, Finding

LEMMA JoinedSpan ==
  ASSUME NEW s \in Spans, NEW f \in Spans, s.start <= f.start
  PROVE  LET t == Joined(s, f) IN
         /\ t \in Spans
         /\ t.start = s.start /\ s.end <= t.end /\ f.end <= t.end /\ t.end \in {s.end, f.end}
         /\ t.detector \in {s.detector, f.detector}
         /\ s.detector.confidence <= t.detector.confidence
         /\ f.detector.confidence <= t.detector.confidence
  BY SpanTypes, SpanIs DEF Joined, Surer

LEMMA BeginStep ==
  ASSUME NEW found \in Seq(Spans), NEW i \in 1 .. Len(found),
         NEW spans, Merged(found, i - 1, spans),
         spans # <<>> => spans[Len(spans)].end < found[i].start
  PROVE  Merged(found, i, Append(spans, found[i]))
<1>. DEFINE f == found[i]
            n == Len(spans)
            longer == Append(spans, f)
<1>1. spans \in Seq(Spans) /\ n \in Nat /\ f \in Spans
  BY DEF Merged
<1>2. /\ longer \in Seq(Spans) /\ Len(longer) = n + 1 /\ longer[n + 1] = f
      /\ \A l \in 1 .. n : longer[l] = spans[l] /\ spans[l] \in Spans
      /\ DOMAIN longer = 1 .. n + 1 /\ DOMAIN spans = 1 .. n
  BY <1>1
<1>3. n # 0 => spans[n].end < f.start
  BY <1>1
<1>. HIDE DEF f, n, longer
<1>4. \A l \in 1 .. n : spans[l].end < f.start
  <2>. SUFFICES ASSUME NEW l \in 1 .. n PROVE spans[l].end < f.start
    OBVIOUS
  <2>1. n \in 1 .. n
    BY <1>1
  <2>2. l = n \/ spans[l].end < spans[n].start
    BY <1>1, <1>2, <2>1, SMTT(30) DEF Merged, Separate
  <2>3. spans[n].start < spans[n].end /\ spans[n] \in Spans /\ spans[l] \in Spans
    BY <1>2, <2>1, SpanTypes
  <2>. QED
    BY <1>1, <1>3, <2>2, <2>3, SpanTypes, SMTT(30)
<1>5. Separate(longer)
  BY <1>1, <1>2, <1>4 DEF Merged, Separate
<1>6. BegunBy(found, i, longer)
  BY <1>1, <1>2 DEF Merged, BegunBy, f
<1>7. \A j \in 1 .. i - 1 : \E l \in 1 .. n : Within(found[j], spans[l])
  BY <1>1, <1>2 DEF Merged, Covered
<1>8. Within(f, f)
  BY <1>1, SpanTypes DEF Within
<1>9. Covered(found, i, longer)
  <2>1. ASSUME NEW j \in 1 .. i PROVE \E l \in 1 .. n + 1 : Within(found[j], longer[l])
    <3>1. CASE j = i
      BY <1>1, <1>2, <1>8, <3>1 DEF f
    <3>2. CASE j # i
      BY <1>1, <1>2, <1>7, <3>2
    <3>. QED
      BY <3>1, <3>2
  <2>2. ASSUME NEW l \in 1 .. n + 1, NEW p \in Nat, longer[l].start <= p, p < longer[l].end
        PROVE  \E j \in 1 .. i : found[j].start <= p /\ p < found[j].end
    <3>1. CASE l = n + 1
      BY <1>2, <2>2, <3>1 DEF f
    <3>2. CASE l \in 1 .. n
      <4>1. \E j \in 1 .. i - 1 : found[j].start <= p /\ p < found[j].end
        BY <1>2, <2>2, <3>2 DEF Merged, Covered
      <4>. QED
        BY <4>1
    <3>. QED
      BY <1>1, <3>1, <3>2
  <2>. QED
    BY <1>2, <2>1, <2>2 DEF Covered
<1>10. NamedBySurest(found, i, longer)
  <2>1. ASSUME NEW l \in 1 .. n
        PROVE  /\ \E j \in 1 .. i :
                    Within(found[j], longer[l]) /\ longer[l].detector = found[j].detector
               /\ \A j \in 1 .. i : Within(found[j], longer[l]) =>
                    found[j].detector.confidence <= longer[l].detector.confidence
    <3>1. /\ \E j \in 1 .. i - 1 :
                Within(found[j], spans[l]) /\ spans[l].detector = found[j].detector
          /\ \A j \in 1 .. i - 1 : Within(found[j], spans[l]) =>
                found[j].detector.confidence <= spans[l].detector.confidence
      BY <1>2 DEF Merged, NamedBySurest
    <3>2. ~ Within(f, spans[l])
      BY <1>1, <1>2, <1>4, SpanTypes DEF Within
    <3>3. \A j \in 1 .. i : j = i \/ j \in 1 .. i - 1
      OBVIOUS
    <3>4. \A j \in 1 .. i - 1 : j \in 1 .. i
      OBVIOUS
    <3>. QED
      BY <1>2, <3>1, <3>2, <3>3, <3>4 DEF f
  <2>2. ASSUME NEW j \in 1 .. i, Within(found[j], f) PROVE j = i
    <3>. SUFFICES ASSUME j # i PROVE FALSE
      OBVIOUS
    <3>1. PICK l \in 1 .. n : Within(found[j], spans[l])
      BY <1>7
    <3>2. found[j] \in Spans /\ spans[l] \in Spans
      BY <1>2
    <3>3. /\ found[j].start \in Nat /\ found[j].end \in Nat /\ found[j].start < found[j].end
          /\ f.start \in Nat /\ spans[l].end \in Nat
      BY <1>1, <3>2, SpanTypes
    <3>4. spans[l].end < f.start
      BY <1>4
    <3>5. f.start <= found[j].start /\ found[j].end <= spans[l].end
      BY <2>2, <3>1 DEF Within
    <3>. QED
      BY <3>3, <3>4, <3>5
  <2>3. f.detector.confidence <= f.detector.confidence
    BY <1>1, SpanTypes
  <2>4. i \in 1 .. i
    OBVIOUS
  <2>5. ASSUME NEW l \in 1 .. n + 1
        PROVE  /\ \E j \in 1 .. i :
                    Within(found[j], longer[l]) /\ longer[l].detector = found[j].detector
               /\ \A j \in 1 .. i : Within(found[j], longer[l]) =>
                    found[j].detector.confidence <= longer[l].detector.confidence
    <3>1. CASE l \in 1 .. n
      BY <2>1, <3>1
    <3>2. CASE l = n + 1
      BY <1>2, <1>8, <2>2, <2>3, <2>4, <3>2 DEF f
    <3>. QED
      BY <1>1, <3>1, <3>2
  <2>. QED
    BY <1>2, <2>5 DEF NamedBySurest
<1>. QED
  BY <1>2, <1>5, <1>6, <1>9, <1>10 DEF Merged, f, longer

LEMMA ExtendStep ==
  ASSUME NEW found \in Seq(Spans), InOrder(found), NEW i \in 1 .. Len(found),
         NEW spans, Merged(found, i - 1, spans), Len(spans) > 0,
         found[i].start <= spans[Len(spans)].end
  PROVE  Merged(found, i,
           [spans EXCEPT ![Len(spans)] = Joined(spans[Len(spans)], found[i])])
<1>. DEFINE f == found[i]
            n == Len(spans)
            last == spans[n]
            s == Joined(last, f)
            joined == [spans EXCEPT ![n] = s]
<1>1. spans \in Seq(Spans) /\ n \in Nat /\ n \in 1 .. n /\ f \in Spans /\ last \in Spans
  BY DEF Merged
<1>2. last.start <= f.start
  <2>1. PICK j \in 1 .. i - 1 : last.start = found[j].start
    BY <1>1 DEF Merged, BegunBy
  <2>2. Before(found[j], f)
    BY DEF InOrder
  <2>3. found[j] \in Spans
    OBVIOUS
  <2>. QED
    BY <1>1, <2>1, <2>2, <2>3, SpanTypes DEF Before
<1>3. /\ s \in Spans
      /\ s.start = last.start /\ last.end <= s.end /\ f.end <= s.end
      /\ s.end \in {last.end, f.end}
      /\ s.detector \in {last.detector, f.detector}
      /\ last.detector.confidence <= s.detector.confidence
      /\ f.detector.confidence <= s.detector.confidence
  BY <1>1, <1>2, JoinedSpan
<1>4. /\ joined \in Seq(Spans) /\ Len(joined) = n /\ joined[n] = s
      /\ \A l \in 1 .. n : l # n => joined[l] = spans[l]
      /\ \A l \in 1 .. n : spans[l] \in Spans
      /\ DOMAIN joined = 1 .. n /\ DOMAIN spans = 1 .. n
  <2>. HIDE DEF s
  <2>. QED
    BY <1>1, <1>3
<1>5. f.start <= last.end
  OBVIOUS
<1>. HIDE DEF f, n, last, s, joined
<1>6. \A l \in 1 .. n : l # n => spans[l].end < last.start
  BY <1>1, <1>4 DEF Merged, Separate, last
<1>7. Separate(joined)
  BY <1>1, <1>3, <1>4, <1>6 DEF Merged, Separate, last
<1>8. BegunBy(found, i, joined)
  <2>. SUFFICES ASSUME NEW l \in 1 .. n
                PROVE  \E j \in 1 .. i : joined[l].start = found[j].start
    BY <1>4 DEF BegunBy
  <2>1. joined[l].start = spans[l].start
    BY <1>3, <1>4 DEF last
  <2>2. \E j \in 1 .. i - 1 : spans[l].start = found[j].start
    BY <1>4 DEF Merged, BegunBy
  <2>. QED
    BY <2>1, <2>2
<1>9. \A j \in 1 .. i - 1 : \E l \in 1 .. n : Within(found[j], spans[l])
  BY <1>1, <1>4 DEF Merged, Covered
<1>10. Within(f, s)
  BY <1>1, <1>2, <1>3, SpanTypes DEF Within
<1>11. \A g \in Spans : Within(g, last) => Within(g, s)
  BY <1>1, <1>3, SpanTypes, SMTT(30) DEF Within
<1>12. \A g \in Spans, l \in 1 .. n :
         (Within(g, s) /\ Within(g, spans[l])) => l = n
  BY <1>1, <1>3, <1>4, <1>6, SpanTypes, SMTT(30) DEF Within
<1>13. \A j \in 1 .. i : found[j] \in Spans
  OBVIOUS
<1>14. Covered(found, i, joined)
  <2>1. ASSUME NEW j \in 1 .. i PROVE \E l \in 1 .. n : Within(found[j], joined[l])
    <3>1. CASE j = i
      BY <1>1, <1>4, <1>10, <3>1 DEF f
    <3>2. CASE j # i
      <4>1. PICK l \in 1 .. n : Within(found[j], spans[l])
        BY <1>9, <3>2
      <4>2. CASE l = n
        BY <1>1, <1>4, <1>11, <1>13, <4>1, <4>2 DEF last
      <4>3. CASE l # n
        BY <1>4, <4>1, <4>3
      <4>. QED
        BY <4>2, <4>3
    <3>. QED
      BY <3>1, <3>2
  <2>2. ASSUME NEW l \in 1 .. n, NEW p \in Nat, joined[l].start <= p, p < joined[l].end
        PROVE  \E j \in 1 .. i : found[j].start <= p /\ p < found[j].end
    <3>1. CASE spans[l].start <= p /\ p < spans[l].end
      <4>1. \E j \in 1 .. i - 1 : found[j].start <= p /\ p < found[j].end
        BY <1>4, <2>2, <3>1 DEF Merged, Covered
      <4>. QED
        BY <4>1
    <3>2. CASE ~ (spans[l].start <= p /\ p < spans[l].end)
      <4>1. l = n
        BY <1>4, <2>2, <3>2
      <4>2. f.start <= p /\ p < f.end
        BY <1>1, <1>3, <1>4, <1>5, <2>2, <3>2, <4>1, SpanTypes, SMTT(30) DEF last
      <4>. QED
        BY <4>2 DEF f
    <3>. QED
      BY <3>1, <3>2
  <2>. QED
    BY <1>4, <2>1, <2>2 DEF Covered
<1>15. \A l \in 1 .. n :
         /\ \E j \in 1 .. i - 1 :
              Within(found[j], spans[l]) /\ spans[l].detector = found[j].detector
         /\ \A j \in 1 .. i - 1 : Within(found[j], spans[l]) =>
              found[j].detector.confidence <= spans[l].detector.confidence
  BY <1>4 DEF Merged, NamedBySurest
<1>16. \A j \in 1 .. i - 1 : j \in 1 .. i /\ found[j] \in Spans
  OBVIOUS
<1>17. NamedBySurest(found, i, joined)
  <2>1. ASSUME NEW l \in 1 .. n
        PROVE  \E j \in 1 .. i : Within(found[j], joined[l]) /\ joined[l].detector = found[j].detector
    <3>1. PICK j \in 1 .. i - 1 :
            Within(found[j], spans[l]) /\ spans[l].detector = found[j].detector
      BY <1>15
    <3>2. CASE l # n
      BY <1>4, <1>16, <3>1, <3>2
    <3>3. CASE l = n /\ s.detector = last.detector
      BY <1>1, <1>4, <1>11, <1>16, <3>1, <3>3 DEF last
    <3>4. CASE l = n /\ s.detector = f.detector
      <4>1. i \in 1 .. i
        OBVIOUS
      <4>. QED
        BY <1>4, <1>10, <3>4, <4>1 DEF f
    <3>. QED
      BY <1>3, <3>2, <3>3, <3>4
  <2>2. ASSUME NEW l \in 1 .. n, NEW j \in 1 .. i, Within(found[j], joined[l])
        PROVE  found[j].detector.confidence <= joined[l].detector.confidence
    <3>1. CASE l # n /\ j # i
      <4>1. j \in 1 .. i - 1 /\ joined[l] = spans[l]
        BY <1>4, <3>1
      <4>. QED
        BY <1>15, <2>2, <4>1
    <3>2. CASE l # n /\ j = i
      BY <1>1, <1>4, <1>10, <1>12, <2>2, <3>2 DEF f
    <3>3. CASE l = n /\ j # i
      <4>1. j \in 1 .. i - 1
        BY <3>3
      <4>2. PICK m \in 1 .. n : Within(found[j], spans[m])
        BY <1>9, <4>1
      <4>3. m = n
        BY <1>4, <1>12, <1>16, <2>2, <3>3, <4>1, <4>2
      <4>4. found[j].detector.confidence <= last.detector.confidence
        BY <1>15, <4>1, <4>2, <4>3 DEF last
      <4>5. /\ found[j].detector.confidence \in Nat /\ last.detector.confidence \in Nat
            /\ s.detector.confidence \in Nat
        BY <1>1, <1>3, <1>13, SpanTypes
      <4>. QED
        BY <1>3, <1>4, <3>3, <4>4, <4>5
    <3>4. CASE l = n /\ j = i
      BY <1>3, <1>4, <3>4 DEF f
    <3>. QED
      BY <3>1, <3>2, <3>3, <3>4
  <2>. QED
    BY <1>4, <2>1, <2>2 DEF NamedBySurest
<1>18. Merged(found, i, joined)
  BY <1>4, <1>7, <1>8, <1>14, <1>17 DEF Merged
<1>. QED
  BY <1>18 DEF joined, s, last, n, f

LEMMA MergeStep ==
  ASSUME NEW found \in Seq(Spans), InOrder(found), NEW i \in 1 .. Len(found),
         NEW spans, Merged(found, i - 1, spans)
  PROVE  Merged(found, i, MergeOne(spans, found[i]))
<1>1. spans \in Seq(Spans) /\ Len(spans) \in Nat /\ found[i] \in Spans
  BY DEF Merged
<1>2. CASE Len(spans) > 0 /\ found[i].start <= spans[Len(spans)].end
  BY <1>2, ExtendStep DEF MergeOne
<1>3. CASE ~ (Len(spans) > 0 /\ found[i].start <= spans[Len(spans)].end)
  <2>1. ASSUME spans # <<>> PROVE spans[Len(spans)].end < found[i].start
    <3>1. Len(spans) > 0 /\ spans[Len(spans)] \in Spans
      BY <1>1, <2>1
    <3>. QED
      BY <1>1, <1>3, <3>1, SpanTypes
  <2>2. Merged(found, i, Append(spans, found[i]))
    BY <2>1, BeginStep
  <2>. QED
    BY <1>3, <2>2 DEF MergeOne
<1>. QED
  BY <1>2, <1>3

(* The function that Merge is defined by exists, and each of its values is *)
(* made of the one before.                                                 *)
IsMergeRun(merged, found, n) ==
  /\ Merge(found) = merged[n] /\ merged[0] = <<>>
  /\ \A i \in 1 .. n : merged[i] = MergeOne(merged[i - 1], found[i])

LEMMA MergeRuns ==
  ASSUME NEW found \in Seq(Spans), NEW n \in Nat, n = Len(found)
  PROVE  \E merged : IsMergeRun(merged, found, n)
<1>. DEFINE IsRun(g) == g = [i \in 0 .. n |-> IF i = 0 THEN <<>> ELSE MergeOne(g[i - 1], found[i])]
            turn == [i \in 1 .. n |-> [s \in Seq(Spans) |-> MergeOne(s, found[i])]]
<1>1. ASSUME NEW i \in 1 .. n, NEW spans \in Seq(Spans)
      PROVE  MergeOne(spans, found[i]) \in Seq(Spans)
  <2>. DEFINE f == found[i]
              last == spans[Len(spans)]
  <2>1. f \in Spans /\ Len(spans) \in Nat
    OBVIOUS
  <2>2. Append(spans, f) \in Seq(Spans)
    BY <2>1
  <2>3. ASSUME Len(spans) > 0, f.start <= last.end
        PROVE  [spans EXCEPT ![Len(spans)] = Joined(last, f)] \in Seq(Spans)
    <3>1. last \in Spans /\ Len(spans) \in 1 .. Len(spans)
      BY <2>1, <2>3
    <3>2. Joined(last, f) \in Spans
      <4>. DEFINE e == IF f.end > last.end THEN f.end ELSE last.end
                  d == Surer(last.detector, f.detector)
      <4>. HIDE DEF last, f
      <4>1. e \in Nat /\ last.start \in Nat /\ last.start < e /\ e <= MaxLength
        BY <2>1, <3>1, SpanTypes, LengthAssumption
      <4>2. d \in Detectors
        BY <2>1, <3>1, SpanTypes DEF Surer
      <4>. HIDE DEF e, d
      <4>3. [start |-> last.start, end |-> e, detector |-> d] \in Spans
        BY <4>1, <4>2, SpanIs
      <4>. QED
        BY <4>3 DEF Joined, e, d
    <3>. HIDE DEF last, f
    <3>. QED
      BY <3>1, <3>2
  <2>. QED
    BY <2>2, <2>3 DEF MergeOne
<1>2. turn \in [1 .. n -> [Seq(Spans) -> Seq(Spans)]]
  BY <1>1
<1>3. PICK f : IsLoop(f, Seq(Spans), <<>>, n, turn)
  <2>1. <<>> \in Seq(Spans)
    OBVIOUS
  <2>. HIDE DEF turn
  <2>. QED
    BY <1>2, <2>1, LoopExists
<1>4. ASSUME NEW i \in 1 .. n PROVE f[i] = MergeOne(f[i - 1], found[i])
  <2>1. f[i - 1] \in Seq(Spans)
    BY <1>3 DEF IsLoop
  <2>2. turn[i][f[i - 1]] = MergeOne(f[i - 1], found[i])
    BY <2>1
  <2>. QED
    BY <1>3, <2>2 DEF IsLoop
<1>5. IsRun(f)
  <2>1. f = [i \in 0 .. n |-> f[i]]
    BY <1>3 DEF IsLoop
  <2>2. \A i \in 0 .. n : f[i] = IF i = 0 THEN <<>> ELSE MergeOne(f[i - 1], found[i])
    BY <1>3, <1>4 DEF IsLoop
  <2>. QED
    BY <2>1, <2>2, Zenon
<1>. DEFINE merged == CHOOSE g : IsRun(g)
<1>6. IsRun(merged)
  <2>. HIDE DEF IsRun
  <2>. QED
    BY <1>5, Zenon
<1>7. Merge(found) = merged[n]
  BY Zenon DEF Merge
<1>8. \A i \in 0 .. n :
        merged[i] = IF i = 0 THEN <<>> ELSE MergeOne(merged[i - 1], found[i])
  <2>. HIDE DEF merged
  <2>. QED
    BY <1>6, Zenon
<1>. HIDE DEF merged
<1>9. merged[0] = <<>> /\ \A i \in 1 .. n : merged[i] = MergeOne(merged[i - 1], found[i])
  <2>1. 0 \in 0 .. n /\ \A i \in 1 .. n : i \in 0 .. n /\ i # 0
    OBVIOUS
  <2>. QED
    BY <1>8, <2>1, Zenon
<1>. QED
  BY <1>7, <1>9 DEF IsMergeRun

(* What _merge returns for every sorted list of findings: spans in order   *)
(* that neither overlap nor touch, each begun by a finding, which cover    *)
(* what the findings cover and no more, each with the surest detector of   *)
(* the findings within.                                                    *)
THEOREM MergeCovers ==
  ASSUME NEW found \in Seq(Spans), InOrder(found)
  PROVE  Merged(found, Len(found), Merge(found))
<1>n. PICK n \in Nat : n = Len(found)
  OBVIOUS
<1>r. PICK merged : IsMergeRun(merged, found, n)
  BY <1>n, MergeRuns
<1>1. /\ Merge(found) = merged[n] /\ merged[0] = <<>>
      /\ \A i \in 1 .. n : merged[i] = MergeOne(merged[i - 1], found[i])
  BY <1>r DEF IsMergeRun
<1>. DEFINE good == {i \in 0 .. n : Merged(found, i, merged[i])}
<1>2. n \in 0 .. n /\ 0 \in 0 .. n
  OBVIOUS
<1>3. 0 \in good
  <2>1. Merged(found, 0, <<>>)
    BY DEF Merged, Separate, BegunBy, Covered, NamedBySurest
  <2>. QED
    BY <1>1, <1>2, <2>1
<1>4. ASSUME NEW i \in 1 .. n, i - 1 \in good PROVE i \in good
  <2>1. Merged(found, i, MergeOne(merged[i - 1], found[i]))
    BY <1>n, <1>4, MergeStep
  <2>. QED
    BY <1>1, <2>1
<1>5. n \in good
  <2>. HIDE DEF good
  <2>. QED
    BY <1>2, <1>3, <1>4, Countup
<1>. QED
  BY <1>n, <1>1, <1>5

-----------------------------------------------------------------------------
(* What the preview is when all before the cursor has been copied or       *)
(* replaced: every token stands for one of the spans.                      *)
Parts == {<<"shown", p>> : p \in 0 .. MaxLength - 1} \cup {Token(s) : s \in Spans}

ShownClear(found, parts, cursor) ==
  /\ \A i \in DOMAIN parts : ~ IsToken(parts[i]) =>
       parts[i][2] < cursor /\ Clear(found, parts[i][2])
  /\ \A p \in 0 .. cursor - 1 : Clear(found, p) =>
       \E i \in DOMAIN parts : ~ IsToken(parts[i]) /\ parts[i][2] = p
  /\ \A i, j \in DOMAIN parts :
       (i < j /\ ~ IsToken(parts[i]) /\ ~ IsToken(parts[j])) => parts[i][2] < parts[j][2]

StandsFor(parts, cursor, i, s) ==
  /\ parts[i] = Token(s)
  /\ i = 1 => s.start = 0
  /\ i > 1 => ~ IsToken(parts[i - 1]) /\ parts[i - 1][2] + 1 = s.start
  /\ i = Len(parts) => s.end = cursor
  /\ i < Len(parts) => ~ IsToken(parts[i + 1]) /\ parts[i + 1][2] = s.end

Previewed(found, spans, parts, cursor) ==
  /\ parts \in Seq(Parts) /\ cursor \in 0 .. MaxLength
  /\ ShownClear(found, parts, cursor)
  /\ \A i \in DOMAIN parts : IsToken(parts[i]) =>
       \E l \in DOMAIN spans : StandsFor(parts, cursor, i, spans[l])

LEMMA PartTypes ==
  /\ \A part \in Parts : ~ IsToken(part) => part[2] \in Nat /\ part = <<"shown", part[2]>>
  /\ \A p \in Nat : ~ IsToken(<<"shown", p>>) /\ <<"shown", p>>[2] = p
  /\ \A s \in Spans : IsToken(Token(s)) /\ Token(s) \in Parts
  BY LengthAssumption DEF Parts, IsToken, Token

LEMMA Concat ==
  ASSUME NEW s \in Seq(Parts), NEW t \in Seq(Parts)
  PROVE  /\ s \o t \in Seq(Parts)
         /\ Len(s \o t) = Len(s) + Len(t)
         /\ DOMAIN (s \o t) = 1 .. Len(s) + Len(t)
         /\ \A i \in 1 .. Len(s) : (s \o t)[i] = s[i]
         /\ \A i \in Len(s) + 1 .. Len(s) + Len(t) : (s \o t)[i] = t[i - Len(s)]
  OBVIOUS

LEMMA ShownParts ==
  ASSUME NEW from \in Nat, NEW to \in Nat, from <= to, to <= MaxLength
  PROVE  /\ Shown(from, to) \in Seq(Parts)
         /\ Len(Shown(from, to)) = to - from
         /\ \A i \in 1 .. to - from : Shown(from, to)[i] = <<"shown", from + i - 1>>
<1>1. \A i \in 1 .. to - from : <<"shown", from + i - 1>> \in Parts
  BY LengthAssumption DEF Parts
<1>2. to - from \in Nat
  OBVIOUS
<1>. QED
  BY <1>1, <1>2 DEF Shown

EndsShown(parts, p) == Len(parts) > 0 /\ parts[Len(parts)] = <<"shown", p>>

AllClear(found, from, to) == \A p \in Nat : (from <= p /\ p < to) => Clear(found, p)

LEMMA ShowMore ==
  ASSUME NEW found \in Seq(Spans), NEW spans \in Seq(Spans), NEW parts, NEW cursor \in Nat,
         Previewed(found, spans, parts, cursor),
         NEW to \in Nat, cursor <= to, to <= MaxLength,
         AllClear(found, cursor, to)
  PROVE  /\ Previewed(found, spans, parts \o Shown(cursor, to), to)
         /\ cursor = to => parts \o Shown(cursor, to) = parts
         /\ cursor < to => EndsShown(parts \o Shown(cursor, to), to - 1)
<1>. DEFINE k == Len(parts)
            more == parts \o Shown(cursor, to)
            m == Len(more)
<1>1. parts \in Seq(Parts) /\ k \in Nat /\ DOMAIN parts = 1 .. k
  BY DEF Previewed
<1>2. /\ more \in Seq(Parts) /\ m = k + (to - cursor) /\ DOMAIN more = 1 .. m
      /\ \A i \in 1 .. k : more[i] = parts[i]
  <2>. DEFINE block == Shown(cursor, to)
  <2>1. block \in Seq(Parts) /\ Len(block) = to - cursor
    BY ShownParts
  <2>. HIDE DEF block
  <2>2. /\ parts \o block \in Seq(Parts) /\ Len(parts \o block) = k + Len(block)
        /\ DOMAIN (parts \o block) = 1 .. k + Len(block)
        /\ \A i \in 1 .. k : (parts \o block)[i] = parts[i]
    <3>. HIDE DEF more, m
    <3>. QED
      BY <1>1, <2>1, Concat
  <2>. QED
    BY <2>1, <2>2 DEF block
<1>3. \A i \in k + 1 .. m : more[i] = <<"shown", cursor + (i - k) - 1>>
  <2>. SUFFICES ASSUME NEW i \in k + 1 .. m PROVE more[i] = <<"shown", cursor + (i - k) - 1>>
    OBVIOUS
  <2>1. i - k \in 1 .. to - cursor /\ i \in k + 1 .. k + (to - cursor)
    BY <1>1, <1>2
  <2>2. more[i] = Shown(cursor, to)[i - k]
    <3>1. Shown(cursor, to) \in Seq(Parts) /\ Len(Shown(cursor, to)) = to - cursor
      BY ShownParts
    <3>. QED
      BY <1>1, <2>1, <3>1, Concat
  <2>. QED
    BY <2>1, <2>2, ShownParts
<1>. HIDE DEF more, m, k
<1>4. cursor = to => more = parts
  <2>1. more = [i \in 1 .. m |-> more[i]] /\ parts = [i \in 1 .. k |-> parts[i]]
    BY <1>1, <1>2
  <2>2. cursor = to => m = k
    BY <1>1, <1>2
  <2>. QED
    BY <1>2, <2>1, <2>2
<1>5. /\ m \in Nat /\ k <= m
      /\ \A i \in 1 .. m : i \in 1 .. k \/ i \in k + 1 .. m
      /\ \A i \in 1 .. k : i \in 1 .. m
      /\ \A i \in k + 1 .. m : i \in 1 .. m
  BY <1>1, <1>2
<1>6. \A i \in k + 1 .. m :
        ~ IsToken(more[i]) /\ more[i][2] = cursor + (i - k) - 1
  <2>. SUFFICES ASSUME NEW i \in k + 1 .. m
                PROVE  ~ IsToken(more[i]) /\ more[i][2] = cursor + (i - k) - 1
    OBVIOUS
  <2>1. cursor + (i - k) - 1 \in Nat
    BY <1>1, <1>5
  <2>. QED
    BY <1>3, <2>1, PartTypes
<1>7. /\ \A i \in 1 .. k : ~ IsToken(parts[i]) =>
           parts[i][2] \in Nat /\ parts[i][2] < cursor /\ Clear(found, parts[i][2])
      /\ \A p \in 0 .. cursor - 1 : Clear(found, p) =>
           \E i \in 1 .. k : ~ IsToken(parts[i]) /\ parts[i][2] = p
      /\ \A i, j \in 1 .. k :
           (i < j /\ ~ IsToken(parts[i]) /\ ~ IsToken(parts[j])) => parts[i][2] < parts[j][2]
  <2>1. \A i \in 1 .. k : parts[i] \in Parts
    BY <1>1
  <2>. QED
    BY <1>1, <2>1, PartTypes DEF Previewed, ShownClear
<1>8. ShownClear(found, more, to)
  <2>1. ASSUME NEW i \in 1 .. m, ~ IsToken(more[i])
        PROVE  more[i][2] < to /\ Clear(found, more[i][2])
    <3>1. CASE i \in 1 .. k
      BY <1>2, <1>7, <2>1, <3>1
    <3>2. CASE i \in k + 1 .. m
      <4>1. /\ cursor + (i - k) - 1 \in Nat /\ cursor <= cursor + (i - k) - 1
            /\ cursor + (i - k) - 1 < to
        BY <1>1, <1>2, <3>2
      <4>. QED
        BY <1>6, <3>2, <4>1 DEF AllClear
    <3>. QED
      BY <1>5, <3>1, <3>2
  <2>2. ASSUME NEW p \in 0 .. to - 1, Clear(found, p)
        PROVE  \E i \in 1 .. m : ~ IsToken(more[i]) /\ more[i][2] = p
    <3>1. CASE p < cursor
      <4>1. p \in 0 .. cursor - 1
        BY <3>1
      <4>2. PICK i \in 1 .. k : ~ IsToken(parts[i]) /\ parts[i][2] = p
        BY <1>7, <2>2, <4>1
      <4>. QED
        BY <1>2, <1>5, <4>2
    <3>2. CASE cursor <= p
      <4>. DEFINE i == p - cursor + k + 1
      <4>1. i \in k + 1 .. m /\ cursor + (i - k) - 1 = p
        BY <1>1, <1>2, <3>2
      <4>2. more[i][2] = p /\ ~ IsToken(more[i]) /\ i \in 1 .. m
        BY <1>5, <1>6, <4>1
      <4>. QED
        BY <4>2
    <3>. QED
      BY <3>1, <3>2
  <2>3. ASSUME NEW i \in 1 .. m, NEW j \in 1 .. m, i < j, ~ IsToken(more[i]), ~ IsToken(more[j])
        PROVE  more[i][2] < more[j][2]
    <3>1. CASE i \in 1 .. k /\ j \in 1 .. k
      BY <1>2, <1>7, <2>3, <3>1
    <3>2. CASE i \in 1 .. k /\ j \in k + 1 .. m
      <4>1. more[i][2] \in Nat /\ more[i][2] < cursor
        BY <1>2, <1>7, <2>3, <3>2
      <4>. QED
        BY <1>1, <1>6, <3>2, <4>1
    <3>3. CASE i \in k + 1 .. m /\ j \in k + 1 .. m
      <4>1. more[i][2] = cursor + (i - k) - 1 /\ more[j][2] = cursor + (j - k) - 1
        BY <1>6, <3>3
      <4>. QED
        BY <1>1, <2>3, <4>1
    <3>. QED
      BY <1>1, <1>5, <2>3, <3>1, <3>2, <3>3
  <2>. QED
    BY <1>2, <2>1, <2>2, <2>3 DEF ShownClear
<1>9. ASSUME NEW i \in 1 .. m, IsToken(more[i])
      PROVE  \E l \in DOMAIN spans : StandsFor(more, to, i, spans[l])
  <2>1. i \in 1 .. k
    BY <1>5, <1>6, <1>9
  <2>2. PICK l \in DOMAIN spans : StandsFor(parts, cursor, i, spans[l])
    BY <1>1, <1>2, <1>9, <2>1 DEF Previewed
  <2>3. more[i] = Token(spans[l])
    BY <1>2, <2>1, <2>2 DEF StandsFor
  <2>4. /\ i = 1 => spans[l].start = 0
        /\ i > 1 => ~ IsToken(more[i - 1]) /\ more[i - 1][2] + 1 = spans[l].start
    <3>1. i > 1 => more[i - 1] = parts[i - 1]
      BY <1>1, <1>2, <2>1
    <3>. QED
      BY <2>2, <3>1 DEF StandsFor
  <2>5. CASE i < k
    <3>1. more[i + 1] = parts[i + 1] /\ i < m
      BY <1>1, <1>2, <1>5, <2>5
    <3>2. ~ IsToken(parts[i + 1]) /\ parts[i + 1][2] = spans[l].end
      BY <2>2, <2>5 DEF StandsFor, k
    <3>. QED
      BY <1>1, <1>5, <2>3, <2>4, <3>1, <3>2 DEF StandsFor, m
  <2>6. CASE i = k /\ cursor = to
    <3>1. more = parts
      BY <1>4, <2>6
    <3>. QED
      BY <2>2, <2>6, <3>1
  <2>7. CASE i = k /\ cursor < to
    <3>1. i + 1 \in k + 1 .. m /\ i < m
      BY <1>1, <1>2, <2>7
    <3>2. ~ IsToken(more[i + 1]) /\ more[i + 1][2] = cursor
      BY <1>1, <1>6, <2>7, <3>1
    <3>3. spans[l].end = cursor
      BY <2>2, <2>7 DEF StandsFor, k
    <3>. QED
      BY <1>1, <1>5, <2>3, <2>4, <3>1, <3>2, <3>3 DEF StandsFor, m
  <2>. QED
    BY <1>1, <2>1, <2>5, <2>6, <2>7
<1>10. Previewed(found, spans, more, to)
  <2>1. to \in 0 .. MaxLength
    BY LengthAssumption
  <2>. QED
    BY <1>2, <1>8, <1>9, <2>1 DEF Previewed
<1>11. cursor < to => m > 0 /\ more[m] = <<"shown", to - 1>>
  <2>. SUFFICES ASSUME cursor < to PROVE m > 0 /\ more[m] = <<"shown", to - 1>>
    OBVIOUS
  <2>1. m \in k + 1 .. m /\ cursor + (m - k) - 1 = to - 1 /\ m > 0
    BY <1>1, <1>2
  <2>. QED
    BY <1>3, <2>1
<1>. QED
  BY <1>4, <1>10, <1>11 DEF more, m, EndsShown

LEMMA AddToken ==
  ASSUME NEW found \in Seq(Spans), NEW spans \in Seq(Spans), NEW parts, NEW l \in DOMAIN spans,
         Previewed(found, spans, parts, spans[l].start),
         Len(parts) = 0 => spans[l].start = 0,
         Len(parts) > 0 => spans[l].start > 0 /\ EndsShown(parts, spans[l].start - 1),
         \A p \in Nat : (spans[l].start <= p /\ p < spans[l].end) => ~ Clear(found, p)
  PROVE  Previewed(found, spans, parts \o <<Token(spans[l])>>, spans[l].end)
<1>. DEFINE k == Len(parts)
            s == spans[l]
            more == parts \o <<Token(s)>>
<1>1. /\ parts \in Seq(Parts) /\ k \in Nat /\ DOMAIN parts = 1 .. k
      /\ s \in Spans
  BY DEF Previewed
<1>2. /\ s.start \in Nat /\ s.end \in Nat /\ s.start < s.end /\ s.end <= MaxLength
      /\ s.end \in 0 .. MaxLength
      /\ Token(s) \in Parts /\ IsToken(Token(s))
  <2>. HIDE DEF s
  <2>. QED
    BY <1>1, SpanTypes, PartTypes, LengthAssumption
<1>3. /\ more \in Seq(Parts) /\ Len(more) = k + 1 /\ DOMAIN more = 1 .. k + 1
      /\ \A i \in 1 .. k : more[i] = parts[i]
      /\ more[k + 1] = Token(s)
  <2>. DEFINE token == Token(s)
  <2>. HIDE DEF token
  <2>1. token \in Parts
    BY <1>2 DEF token
  <2>2. /\ parts \o <<token>> \in Seq(Parts) /\ Len(parts \o <<token>>) = k + 1
        /\ DOMAIN (parts \o <<token>>) = 1 .. k + 1
        /\ \A i \in 1 .. k : (parts \o <<token>>)[i] = parts[i]
        /\ (parts \o <<token>>)[k + 1] = token
    BY <1>1, <2>1
  <2>. QED
    BY <2>2 DEF token
<1>4. /\ k = 0 => s.start = 0
      /\ k > 0 => s.start > 0 /\ parts[k] = <<"shown", s.start - 1>>
  BY DEF EndsShown
<1>5. \A p \in Nat : (s.start <= p /\ p < s.end) => ~ Clear(found, p)
  OBVIOUS
<1>6. /\ \A i \in 1 .. k : ~ IsToken(parts[i]) =>
           parts[i][2] \in Nat /\ parts[i][2] < s.start /\ Clear(found, parts[i][2])
      /\ \A p \in 0 .. s.start - 1 : Clear(found, p) =>
           \E i \in 1 .. k : ~ IsToken(parts[i]) /\ parts[i][2] = p
      /\ \A i, j \in 1 .. k :
           (i < j /\ ~ IsToken(parts[i]) /\ ~ IsToken(parts[j])) => parts[i][2] < parts[j][2]
  <2>1. \A i \in 1 .. k : parts[i] \in Parts
    BY <1>1
  <2>2. ShownClear(found, parts, s.start)
    BY DEF Previewed
  <2>. HIDE DEF s
  <2>. QED
    BY <1>1, <2>1, <2>2, PartTypes DEF ShownClear
<1>7. \A i \in 1 .. k : IsToken(parts[i]) =>
        \E h \in DOMAIN spans : StandsFor(parts, s.start, i, spans[h])
  BY <1>1 DEF Previewed
<1>. HIDE DEF k, s, more
<1>8. \A i \in 1 .. k + 1 : i = k + 1 \/ i \in 1 .. k
  BY <1>1
<1>9. \A i \in 1 .. k : i \in 1 .. k + 1
  BY <1>1
<1>10. ShownClear(found, more, s.end)
  <2>1. ASSUME NEW i \in 1 .. k + 1, ~ IsToken(more[i])
        PROVE  i \in 1 .. k /\ more[i] = parts[i]
    BY <1>2, <1>3, <1>8, <2>1
  <2>2. ASSUME NEW i \in 1 .. k + 1, ~ IsToken(more[i])
        PROVE  more[i][2] < s.end /\ Clear(found, more[i][2])
    BY <1>2, <1>6, <2>1, <2>2
  <2>3. ASSUME NEW p \in 0 .. s.end - 1, Clear(found, p)
        PROVE  \E i \in 1 .. k + 1 : ~ IsToken(more[i]) /\ more[i][2] = p
    <3>1. p \in 0 .. s.start - 1
      BY <1>2, <1>5, <2>3
    <3>2. PICK i \in 1 .. k : ~ IsToken(parts[i]) /\ parts[i][2] = p
      BY <1>6, <2>3, <3>1
    <3>. QED
      BY <1>3, <1>9, <3>2
  <2>4. ASSUME NEW i \in 1 .. k + 1, NEW j \in 1 .. k + 1, i < j,
               ~ IsToken(more[i]), ~ IsToken(more[j])
        PROVE  more[i][2] < more[j][2]
    BY <1>6, <2>1, <2>4
  <2>. QED
    BY <1>3, <2>2, <2>3, <2>4 DEF ShownClear
<1>11. k > 0 => ~ IsToken(parts[k]) /\ parts[k][2] + 1 = s.start
  <2>. SUFFICES ASSUME k > 0 PROVE ~ IsToken(parts[k]) /\ parts[k][2] + 1 = s.start
    OBVIOUS
  <2>1. s.start - 1 \in Nat /\ (s.start - 1) + 1 = s.start
    BY <1>2, <1>4
  <2>. QED
    BY <1>4, <2>1, PartTypes
<1>12. ASSUME NEW i \in 1 .. k + 1, IsToken(more[i])
       PROVE  \E h \in DOMAIN spans : StandsFor(more, s.end, i, spans[h])
  <2>1. CASE i = k + 1
    <3>1. i > 1 => more[i - 1] = parts[k] /\ k > 0
      BY <1>1, <1>3, <2>1
    <3>2. i = 1 => k = 0
      BY <1>1, <2>1
    <3>3. i = Len(more) /\ ~ i < Len(more)
      BY <1>1, <1>3, <2>1
    <3>4. StandsFor(more, s.end, i, s)
      BY <1>3, <1>4, <1>11, <2>1, <3>1, <3>2, <3>3 DEF StandsFor
    <3>. QED
      BY <3>4 DEF s
  <2>2. CASE i \in 1 .. k
    <3>1. i # k
      BY <1>1, <1>3, <1>11, <1>12, <2>2
    <3>2. /\ i + 1 \in 1 .. k /\ i < k /\ i < Len(more) /\ i # Len(more)
          /\ more[i] = parts[i] /\ more[i + 1] = parts[i + 1]
          /\ i > 1 => more[i - 1] = parts[i - 1]
      BY <1>1, <1>3, <2>2, <3>1
    <3>3. PICK h \in DOMAIN spans : StandsFor(parts, s.start, i, spans[h])
      BY <1>7, <1>12, <2>2, <3>2
    <3>4. StandsFor(more, s.end, i, spans[h])
      BY <3>2, <3>3 DEF StandsFor, k
    <3>. QED
      BY <3>4
  <2>. QED
    BY <1>8, <2>1, <2>2
<1>13. Previewed(found, spans, more, s.end)
  BY <1>2, <1>3, <1>10, <1>12 DEF Previewed
<1>. QED
  BY <1>13 DEF more, s

IsRedactRun(done, found, spans, n) ==
  /\ Redact(found) = done[n].parts \o Shown(done[n].cursor, MaxLength)
  /\ done[0] = [parts |-> <<>>, cursor |-> 0]
  /\ \A i \in 1 .. n : done[i] = RedactOne(done[i - 1], spans[i])

LEMMA RedactRuns ==
  ASSUME NEW found, NEW spans \in Seq(Spans), spans = Merge(found),
         NEW n \in Nat, n = Len(spans)
  PROVE  \E done : IsRedactRun(done, found, spans, n)
<1>. DEFINE States == [parts: Seq(Parts), cursor: Nat]
            start == [parts |-> <<>>, cursor |-> 0]
            IsRun(g) == g = [i \in 0 .. n |-> IF i = 0 THEN start ELSE RedactOne(g[i - 1], spans[i])]
            turn == [i \in 1 .. n |-> [s \in States |-> RedactOne(s, spans[i])]]
<1>1. ASSUME NEW i \in 1 .. n, NEW state \in States
      PROVE  RedactOne(state, spans[i]) \in States
  <2>. DEFINE s == spans[i]
              block == Shown(state.cursor, s.start)
  <2>1. s \in Spans /\ s.start \in Nat /\ s.end \in Nat /\ s.start <= MaxLength /\ Token(s) \in Parts
    BY SpanTypes, PartTypes, LengthAssumption
  <2>. HIDE DEF s
  <2>2. block \in Seq(Parts)
    <3>1. CASE state.cursor <= s.start
      BY <2>1, <3>1, ShownParts
    <3>2. CASE ~ state.cursor <= s.start
      <4>1. 1 .. s.start - state.cursor = {}
        BY <2>1, <3>2
      <4>2. block = <<>>
        BY <4>1 DEF Shown
      <4>. QED
        BY <4>2
    <3>. QED
      BY <3>1, <3>2
  <2>. HIDE DEF block
  <2>3. <<Token(s)>> \in Seq(Parts)
    BY <2>1
  <2>4. state.parts \o block \o <<Token(s)>> \in Seq(Parts)
    BY <2>2, <2>3
  <2>. QED
    BY <2>1, <2>4 DEF RedactOne, block, s
<1>2. turn \in [1 .. n -> [States -> States]]
  BY <1>1
<1>3. PICK f : IsLoop(f, States, start, n, turn)
  <2>1. start \in States
    OBVIOUS
  <2>. HIDE DEF turn, States, start
  <2>. QED
    BY <1>2, <2>1, LoopExists
<1>4. ASSUME NEW i \in 1 .. n PROVE f[i] = RedactOne(f[i - 1], spans[i])
  <2>1. f[i - 1] \in States
    BY <1>3 DEF IsLoop
  <2>2. turn[i][f[i - 1]] = RedactOne(f[i - 1], spans[i])
    BY <2>1
  <2>. QED
    BY <1>3, <2>2 DEF IsLoop
<1>5. IsRun(f)
  <2>1. f = [i \in 0 .. n |-> f[i]]
    BY <1>3 DEF IsLoop
  <2>2. \A i \in 0 .. n : f[i] = IF i = 0 THEN start ELSE RedactOne(f[i - 1], spans[i])
    BY <1>3, <1>4 DEF IsLoop
  <2>. QED
    BY <2>1, <2>2, Zenon
<1>. DEFINE done == CHOOSE g : IsRun(g)
<1>6. IsRun(done)
  <2>. HIDE DEF IsRun
  <2>. QED
    BY <1>5, Zenon
<1>7. Redact(found) = done[n].parts \o Shown(done[n].cursor, MaxLength)
  BY Zenon DEF Redact
<1>8. \A i \in 0 .. n : done[i] = IF i = 0 THEN start ELSE RedactOne(done[i - 1], spans[i])
  <2>. HIDE DEF done
  <2>. QED
    BY <1>6, Zenon
<1>. HIDE DEF done
<1>9. done[0] = start /\ \A i \in 1 .. n : done[i] = RedactOne(done[i - 1], spans[i])
  <2>1. 0 \in 0 .. n /\ \A i \in 1 .. n : i \in 0 .. n /\ i # 0
    OBVIOUS
  <2>. QED
    BY <1>8, <2>1, Zenon
<1>. QED
  BY <1>7, <1>9 DEF IsRedactRun

(* After k spans: the cursor is behind the last of them.                   *)
RedactedTo(found, spans, k, done) ==
  /\ Previewed(found, spans, done.parts, done.cursor)
  /\ k = 0 => done.parts = <<>> /\ done.cursor = 0
  /\ k > 0 => done.cursor = spans[k].end

LEMMA ClearOutside ==
  ASSUME NEW found \in Seq(Spans), NEW spans, Merged(found, Len(found), spans), NEW p \in Nat
  PROVE  Clear(found, p) <=> \A l \in DOMAIN spans : ~ (spans[l].start <= p /\ p < spans[l].end)
<1>1. ASSUME Clear(found, p), NEW l \in DOMAIN spans, spans[l].start <= p, p < spans[l].end
      PROVE  FALSE
  <2>1. PICK j \in 1 .. Len(found) : found[j].start <= p /\ p < found[j].end
    BY <1>1 DEF Merged, Covered
  <2>. QED
    BY <1>1, <2>1 DEF Clear
<1>2. ASSUME NEW j \in DOMAIN found, found[j].start <= p, p < found[j].end
      PROVE  \E l \in DOMAIN spans : spans[l].start <= p /\ p < spans[l].end
  <2>1. PICK l \in DOMAIN spans : Within(found[j], spans[l])
    BY DEF Merged, Covered
  <2>2. found[j] \in Spans /\ spans[l] \in Spans
    BY DEF Merged
  <2>. QED
    BY <1>2, <2>1, <2>2, SpanTypes DEF Within
<1>. QED
  BY <1>1, <1>2 DEF Clear

LEMMA RedactStep ==
  ASSUME NEW found \in Seq(Spans), NEW spans, Merged(found, Len(found), spans),
         NEW k \in 1 .. Len(spans), NEW done, RedactedTo(found, spans, k - 1, done)
  PROVE  RedactedTo(found, spans, k, RedactOne(done, spans[k]))
<1>. DEFINE s == spans[k]
            from == done.cursor
            before == done.parts \o Shown(from, s.start)
<1>1. /\ spans \in Seq(Spans) /\ s \in Spans /\ k \in DOMAIN spans
      /\ \A l \in DOMAIN spans : spans[l] \in Spans
  BY DEF Merged
<1>2. s.start \in Nat /\ s.end \in Nat /\ s.start < s.end /\ s.start <= MaxLength
  <2>. HIDE DEF s
  <2>. QED
    BY <1>1, SpanTypes, LengthAssumption
<1>3. from \in Nat /\ from <= MaxLength
  BY LengthAssumption DEF RedactedTo, Previewed
<1>4. k > 1 => from = spans[k - 1].end /\ spans[k - 1].end < s.start
  BY <1>1 DEF RedactedTo, Merged, Separate
<1>5. k = 1 => from = 0 /\ done.parts = <<>>
  BY DEF RedactedTo
<1>6. from <= s.start /\ (k > 1 => from < s.start)
  BY <1>2, <1>3, <1>4, <1>5
<1>7. AllClear(found, from, s.start)
  <2>. SUFFICES ASSUME NEW p \in Nat, from <= p, p < s.start,
                       NEW l \in DOMAIN spans, spans[l].start <= p, p < spans[l].end
                PROVE  FALSE
    BY ClearOutside DEF AllClear
  <2>1. CASE l >= k
    <3>1. l = k \/ s.end < spans[l].start
      BY <1>1, <2>1 DEF Merged, Separate
    <3>2. spans[l].start \in Nat
      BY <1>1, SpanTypes
    <3>. HIDE DEF s, from
    <3>. QED
      BY <1>2, <3>1, <3>2 DEF s
  <2>2. CASE l < k
    <3>1. l = k - 1 \/ spans[l].end < spans[k - 1].start
      BY <1>1, <2>2 DEF Merged, Separate
    <3>2. k > 1 /\ spans[k - 1] \in Spans
      BY <1>1, <2>2
    <3>3. spans[l].end <= spans[k - 1].end
      BY <1>1, <3>1, <3>2, SpanTypes
    <3>4. spans[l].end \in Nat /\ spans[k - 1].end \in Nat
      BY <1>1, <3>2, SpanTypes
    <3>5. from = spans[k - 1].end
      BY <1>4, <3>2
    <3>. HIDE DEF from
    <3>. QED
      BY <1>3, <3>3, <3>4, <3>5
  <2>. QED
    BY <1>1, <2>1, <2>2
<1>8. Previewed(found, spans, done.parts, from)
  BY DEF RedactedTo
<1>9. /\ Previewed(found, spans, before, s.start)
      /\ from = s.start => before = done.parts
      /\ from < s.start => EndsShown(before, s.start - 1)
  <2>1. PICK c \in Nat, to \in Nat : c = from /\ to = s.start
    BY <1>2, <1>3
  <2>. HIDE DEF s, from
  <2>2. /\ Previewed(found, spans, done.parts, c) /\ c <= to /\ to <= MaxLength
        /\ AllClear(found, c, to)
    BY <1>2, <1>6, <1>7, <1>8, <2>1
  <2>3. /\ Previewed(found, spans, done.parts \o Shown(c, to), to)
        /\ c = to => done.parts \o Shown(c, to) = done.parts
        /\ c < to => EndsShown(done.parts \o Shown(c, to), to - 1)
    BY <1>1, <2>2, ShowMore
  <2>. QED
    BY <2>1, <2>3
<1>10. before \in Seq(Parts)
  BY <1>9 DEF Previewed
<1>. HIDE DEF before
<1>11. Len(before) = 0 => s.start = 0
  <2>. HIDE DEF s, from
  <2>. QED
    BY <1>2, <1>3, <1>5, <1>6, <1>9 DEF EndsShown
<1>12. Len(before) > 0 => s.start > 0 /\ EndsShown(before, s.start - 1)
  <2>1. CASE from = s.start
    <3>1. k = 1 /\ before = <<>>
      BY <1>2, <1>5, <1>6, <1>9, <2>1
    <3>. QED
      BY <3>1
  <2>2. CASE from < s.start
    BY <1>2, <1>3, <1>9, <2>2
  <2>. QED
    BY <1>2, <1>3, <1>6, <2>1, <2>2
<1>13. \A p \in Nat : (s.start <= p /\ p < s.end) => ~ Clear(found, p)
  BY <1>1, ClearOutside
<1>14. Previewed(found, spans, before \o <<Token(s)>>, s.end)
  BY <1>1, <1>9, <1>11, <1>12, <1>13, AddToken
<1>15. RedactOne(done, s).parts = before \o <<Token(s)>> /\ RedactOne(done, s).cursor = s.end
  BY DEF RedactOne, before
<1>. QED
  BY <1>14, <1>15 DEF RedactedTo

(* A preview made from the spans of the merge is what it is to show.       *)
LEMMA PreviewIsRedacted ==
  ASSUME NEW found \in Seq(Spans), NEW spans, Merged(found, Len(found), spans),
         NEW preview, Previewed(found, spans, preview, MaxLength)
  PROVE  Redacted(found, preview)
<1>1. /\ preview \in Seq(Parts) /\ DOMAIN preview = 1 .. Len(preview) /\ Len(preview) \in Nat
      /\ spans \in Seq(Spans) /\ MaxLength \in Nat
  BY LengthAssumption DEF Previewed, Merged
<1>2. ShowsClear(found, preview)
  BY DEF Previewed, ShownClear, ShowsClear
<1>3. ASSUME NEW l \in DOMAIN spans
      PROVE  Surest(found, spans[l].start, spans[l].end, spans[l].detector.category)
  <2>1. PICK i \in 1 .. Len(found) :
          Within(found[i], spans[l]) /\ spans[l].detector = found[i].detector
    BY DEF Merged, NamedBySurest
  <2>2. \A j \in 1 .. Len(found) : Within(found[j], spans[l]) =>
          found[j].detector.confidence <= found[i].detector.confidence
    BY <2>1 DEF Merged, NamedBySurest
  <2>3. DOMAIN found = 1 .. Len(found)
    OBVIOUS
  <2>. QED
    BY <2>1, <2>2, <2>3 DEF Surest, Within
<1>4. ASSUME NEW i \in DOMAIN preview, IsToken(preview[i])
      PROVE  LET from == IF i = 1 THEN 0 ELSE preview[i - 1][2] + 1
                 to == IF i = Len(preview) THEN MaxLength ELSE preview[i + 1][2]
             IN  /\ i > 1 => ~ IsToken(preview[i - 1])
                 /\ i < Len(preview) => ~ IsToken(preview[i + 1])
                 /\ Surest(found, from, to, preview[i][2])
  <2>1. PICK l \in DOMAIN spans : StandsFor(preview, MaxLength, i, spans[l])
    BY <1>4 DEF Previewed
  <2>. DEFINE from == IF i = 1 THEN 0 ELSE preview[i - 1][2] + 1
              to == IF i = Len(preview) THEN MaxLength ELSE preview[i + 1][2]
  <2>2. from = spans[l].start
    BY <1>1, <2>1 DEF StandsFor
  <2>3. to = spans[l].end
    BY <1>1, <2>1 DEF StandsFor
  <2>4. preview[i][2] = spans[l].detector.category
    BY <2>1 DEF StandsFor, Token
  <2>5. Surest(found, from, to, preview[i][2])
    BY <1>3, <2>2, <2>3, <2>4, Zenon
  <2>. QED
    BY <2>1, <2>5 DEF StandsFor
<1>5. NamesRuns(found, preview)
  BY <1>4 DEF NamesRuns
<1>. QED
  BY <1>2, <1>5 DEF Redacted

(* Invariant 7 for every text and every list of findings, however they     *)
(* overlap: what Redact makes shows each position outside the findings, in *)
(* order, none inside, and one token with the category of a surest         *)
(* detector for each unbroken run of findings.                             *)
THEOREM RedactIsRedacted ==
  ASSUME NEW found \in Seq(Spans), InOrder(found)
  PROVE  Redacted(found, Redact(found))
<1>s. PICK spans : spans = Merge(found)
  OBVIOUS
<1>1. Merged(found, Len(found), spans) /\ spans \in Seq(Spans)
  BY <1>s, MergeCovers DEF Merged
<1>2. PICK n \in Nat : n = Len(spans)
  BY <1>1
<1>r. PICK done : IsRedactRun(done, found, spans, n)
  BY <1>s, <1>1, <1>2, RedactRuns
<1>3. /\ Redact(found) = done[n].parts \o Shown(done[n].cursor, MaxLength)
      /\ done[0] = [parts |-> <<>>, cursor |-> 0]
      /\ \A i \in 1 .. n : done[i] = RedactOne(done[i - 1], spans[i])
  BY <1>r DEF IsRedactRun
<1>. DEFINE good == {k \in 0 .. n : RedactedTo(found, spans, k, done[k])}
<1>4. 0 \in good
  <2>1. Previewed(found, spans, <<>>, 0)
    BY LengthAssumption DEF Previewed, ShownClear
  <2>2. RedactedTo(found, spans, 0, done[0])
    BY <1>3, <2>1 DEF RedactedTo
  <2>. QED
    BY <2>2
<1>5. ASSUME NEW k \in 1 .. n, k - 1 \in good PROVE k \in good
  <2>1. RedactedTo(found, spans, k, RedactOne(done[k - 1], spans[k]))
    BY <1>1, <1>2, <1>5, RedactStep
  <2>. QED
    BY <1>3, <2>1
<1>6. n \in good
  <2>1. n \in 0 .. n
    OBVIOUS
  <2>. HIDE DEF good
  <2>. QED
    BY <1>4, <1>5, <2>1, Countup
<1>. DEFINE last == done[n]
<1>7. RedactedTo(found, spans, n, last)
  BY <1>6
<1>. HIDE DEF last
<1>8. /\ last.cursor \in Nat /\ last.cursor <= MaxLength
      /\ Previewed(found, spans, last.parts, last.cursor)
  BY <1>7, LengthAssumption DEF RedactedTo, Previewed
<1>9. AllClear(found, last.cursor, MaxLength)
  <2>. SUFFICES ASSUME NEW p \in Nat, last.cursor <= p,
                       NEW l \in DOMAIN spans, spans[l].start <= p, p < spans[l].end
                PROVE  FALSE
    BY <1>1, ClearOutside DEF AllClear
  <2>1. n > 0 /\ l \in 1 .. n
    BY <1>1, <1>2
  <2>2. l = n \/ spans[l].end < spans[n].start
    BY <1>1, <1>2, <2>1 DEF Merged, Separate
  <2>3. spans[l] \in Spans /\ spans[n] \in Spans
    BY <1>1, <1>2, <2>1
  <2>4. last.cursor = spans[n].end
    BY <1>7, <2>1 DEF RedactedTo
  <2>. QED
    BY <2>2, <2>3, <2>4, SpanTypes
<1>10. Previewed(found, spans, last.parts \o Shown(last.cursor, MaxLength), MaxLength)
  <2>1. MaxLength \in Nat /\ MaxLength <= MaxLength
    BY LengthAssumption
  <2>. QED
    BY <1>1, <1>8, <1>9, <2>1, ShowMore
<1>. QED
  BY <1>1, <1>3, <1>10, PreviewIsRedacted DEF last
=============================================================================
