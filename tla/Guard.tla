-------------------------------- MODULE Guard -------------------------------
(***************************************************************************)
(* Aira Guard (memory/guard/): the verdict on a text, and the redaction of *)
(* the secrets found in it.  What a pattern matches is not modelled: a     *)
(* text carries the set of flags that the detectors raise on it, and a     *)
(* finding is the span of positions it covers, end excluded.               *)
(***************************************************************************)
EXTENDS Naturals, Sequences

CONSTANTS
  Detectors,    \* the patterns of detectors.py: a category and a confidence each
  MaxLength,    \* bound: positions of a redacted text
  MaxFindings   \* bound: findings in it

ASSUME DetectorAssumption == \A d \in Detectors : d.confidence \in Nat
ASSUME LengthAssumption == MaxLength \in Nat /\ MaxFindings \in Nat

(* DeterministicGuard.scan: an oversized text is not looked at.            *)
Scan(flags) ==
  IF "oversized" \in flags
    THEN [blocked |-> TRUE, do_not_remember |-> FALSE, instruction_like |-> FALSE]
    ELSE [blocked |-> "secret" \in flags,
          do_not_remember |-> "denied" \in flags,
          instruction_like |-> "override" \in flags]

-----------------------------------------------------------------------------
Finding == [start: 0 .. MaxLength - 1, end: 1 .. MaxLength, detector: Detectors]

Spans == {f \in Finding : f.start < f.end}

(* Mutant of Before: the findings stay as the detectors gave them. *)
Anyhow(f, g) == TRUE

(* The key that _merge sorts by.  What has one key stays in the order of   *)
(* the detectors, which may be any.                                        *)
Before(f, g) == f.start < g.start \/ (f.start = g.start /\ f.end <= g.end)

InOrder(findings) ==
  \A i, j \in DOMAIN findings : i < j => Before(findings[i], findings[j])

(* find_secrets: detectors may match at overlapping places, or twice.      *)
SortedFindings ==
  {found \in UNION {[1 .. n -> Spans] : n \in 1 .. MaxFindings} : InOrder(found)}

Surer(d, e) == IF e.confidence > d.confidence THEN e ELSE d

(* Mutant of Joined: a finding inside the last span cuts it short. *)
JoinedToEnd(s, f) ==
  [start |-> s.start, end |-> f.end, detector |-> Surer(s.detector, f.detector)]

Joined(s, f) ==
  [start |-> s.start, end |-> IF f.end > s.end THEN f.end ELSE s.end,
   detector |-> Surer(s.detector, f.detector)]

(* One turn of the loop of _merge: a finding that overlaps or touches the  *)
(* last span extends it, any other begins a new one.                       *)
MergeOne(merged, f) ==
  LET n == Len(merged)
  IN  IF n > 0 /\ f.start <= merged[n].end
        THEN [merged EXCEPT ![n] = Joined(merged[n], f)]
        ELSE Append(merged, f)

Merge(findings) ==
  LET merged[i \in 0 .. Len(findings)] ==
        IF i = 0 THEN <<>> ELSE MergeOne(merged[i - 1], findings[i])
  IN  merged[Len(findings)]

Shown(from, to) == [i \in 1 .. to - from |-> <<"shown", from + i - 1>>]

Token(s) == <<"token", s.detector.category>>

(* redact: the text between the spans, and a token for each.  The cap on   *)
(* the length of the preview is left out.                                  *)
RedactOne(done, s) ==
  [parts |-> done.parts \o Shown(done.cursor, s.start) \o <<Token(s)>>, cursor |-> s.end]

Redact(findings) ==
  LET spans == Merge(findings)
      done[i \in 0 .. Len(spans)] ==
        IF i = 0 THEN [parts |-> <<>>, cursor |-> 0] ELSE RedactOne(done[i - 1], spans[i])
      last == done[Len(spans)]
  IN  last.parts \o Shown(last.cursor, MaxLength)

-----------------------------------------------------------------------------
(* What a preview is to show: each position outside all findings, in       *)
(* order, and none inside; one token for each unbroken run of findings,    *)
(* naming the surest detector of the run.                                  *)
IsToken(part) == part[1] = "token"

Clear(found, p) == \A i \in DOMAIN found : ~ (found[i].start <= p /\ p < found[i].end)

ShowsClear(found, preview) ==
  /\ \A i \in DOMAIN preview : ~ IsToken(preview[i]) => Clear(found, preview[i][2])
  /\ \A p \in 0 .. MaxLength - 1 : Clear(found, p) =>
       \E i \in DOMAIN preview : ~ IsToken(preview[i]) /\ preview[i][2] = p
  /\ \A i, j \in DOMAIN preview :
       (i < j /\ ~ IsToken(preview[i]) /\ ~ IsToken(preview[j])) => preview[i][2] < preview[j][2]

Surest(found, from, to, category) ==
  LET run == {i \in DOMAIN found : from <= found[i].start /\ found[i].end <= to}
  IN  \E i \in run :
        /\ found[i].detector.category = category
        /\ \A j \in run : found[j].detector.confidence <= found[i].detector.confidence

NamesRuns(found, preview) ==
  \A i \in DOMAIN preview : IsToken(preview[i]) =>
    LET from == IF i = 1 THEN 0 ELSE preview[i - 1][2] + 1
        to == IF i = Len(preview) THEN MaxLength ELSE preview[i + 1][2]
    IN  /\ i > 1 => ~ IsToken(preview[i - 1])
        /\ i < Len(preview) => ~ IsToken(preview[i + 1])
        /\ Surest(found, from, to, preview[i][2])

Redacted(found, preview) == ShowsClear(found, preview) /\ NamesRuns(found, preview)
=============================================================================
