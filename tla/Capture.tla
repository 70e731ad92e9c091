------------------------------ MODULE Capture -------------------------------
(***************************************************************************)
(* The write path of one turn: CaptureService.process with the extraction  *)
(* and evaluation of its candidate (memory/capture/), behind the guard.    *)
(* The vault is taken as the notebook Assistant implements: the active     *)
(* memories of one owner.                                                  *)
(*                                                                         *)
(* A text is what the patterns of extraction.py see of it: a correction    *)
(* cue, a remember or forget verb, the form of the rest with its words and *)
(* value, and the flags of the guard and of the evaluation.  Words are in  *)
(* one case and one blank apart.                                           *)
(***************************************************************************)
EXTENDS Guard, SequencesExt, FiniteSetsExt

CONSTANTS
  Letters,      \* words written with letters only
  Preferences,  \* those of them that are preference attributes
  Phrases,      \* what texts speak of: word sequences, a final dot as a last "word"
  Values,       \* what "my <attribute> is" says
  MaxFlags      \* bound: flags of one text

(* Bounds: a phrase of letters fits the patterns' 31 characters, and holds *)
(* no wording of the patterns but "my", "about", "that" and "to".          *)
ASSUME PhraseAssumption ==
  /\ Preferences \subseteq Letters
  /\ {"project", "name"} \subseteq Letters \ Preferences
  /\ "." \notin Letters
  /\ \A words \in Phrases : words \in Seq(STRING) /\ words # <<>>
  /\ \A words \in Phrases : \A i \in DOMAIN words : words[i] = "." => i = Len(words) /\ i > 1

VARIABLES
  store,   \* the active memories: kind and slot of the canonical key, content
  scan,    \* secrets found in the last turn, and the preview in its GuardResult
  meant    \* history: the statements that count

captureVars == <<store, scan, meant>>

Body(form, words, value) == [form |-> form, words |-> words, value |-> value]

(* [a-z][a-z ]{0,30} *)
Lettered(words) == \A i \in DOMAIN words : words[i] \in Letters

Statements ==
  {Body("attribute", words, v) :
     words \in {w \in Phrases : Lettered(w)} \ {<<"project">>, <<"name">>}, v \in Values} \cup
  {Body(form, <<form>>, v) : form \in {"project", "name"}, v \in Values} \cup
  {Body(form, words, "none") : form \in {"instruction", "preference", "free"}, words \in Phrases}

Nothing == Body("empty", <<>>, "none")

Targets == {Body("target", words, "none") : words \in Phrases}

Flags == {"assistant", "oversized", "secret", "denied", "override", "temporary"}

Texts ==
  [flags: UNION {kSubset(n, Flags) : n \in 0 .. MaxFlags}, cue: BOOLEAN,
   verb: {"none", "remember"}, body: Statements \cup {Nothing}]
  \cup
  [flags: UNION {kSubset(n, Flags) : n \in 0 .. MaxFlags}, cue: BOOLEAN,
   verb: {"forget"}, body: Targets]

-----------------------------------------------------------------------------
(* extraction.py *)

(* (?:that\s+)? and the like: a leading word goes if another one follows.  *)
DropLead(leads, words) ==
  IF Len(words) > 1 /\ words[1] \in leads /\ words[2] # "." THEN Tail(words) ELSE words

(* rstrip(".") *)
StripDot(words) == IF words[Len(words)] = "." THEN Front(words) ELSE words

(* What _REMEMBER leaves of a text, if no other pattern takes it. *)
Rest(body) ==
  IF body.form = "free" THEN [body EXCEPT !.words = DropLead({"that", "to"}, @)] ELSE body

(* The content of the memory: the statement without its final dot.         *)
Content(body) ==
  IF body.form \in {"instruction", "preference", "free"}
    THEN [body EXCEPT !.words = StripDot(@)] ELSE body

KindForAttribute(words) ==
  IF \E tool \in Preferences : words = <<tool>> THEN "preference" ELSE "semantic"

Kind(body) ==
  CASE body.form = "instruction" -> "instruction"
    [] body.form = "attribute"   -> KindForAttribute(body.words)
    [] body.form = "preference"  -> "preference"
    [] OTHER                     -> "semantic"

(* _parse_statement: free text only on request; scores in percent          *)
ParseStatement(body, source, confidence, importance) ==
  IF body.form = "empty" \/ (body.form = "free" /\ source # "explicit")
    THEN {}
    ELSE {[action |-> "remember", kind |-> Kind(body), slot |-> Content(body).words,
           content |-> Content(body), source |-> source, confidence |-> confidence,
           importance |-> IF body.form = "instruction" THEN Max({importance, 80})
                          ELSE importance]}

(* What _FORGET leaves of a request. *)
Target(body) == DropLead({"about"}, body.words)

(* _ATTR_FROM_TARGET; a final dot is not stripped, and is no letter.       *)
TargetSlot(target) == IF Lettered(target) THEN DropLead({"my"}, target) ELSE target

(* Mutant of TargetKind: only plain facts are sought. *)
PlainKind(target) == "semantic"

TargetKind(target) ==
  IF Lettered(target) THEN KindForAttribute(TargetSlot(target)) ELSE "semantic"

ForgetCandidate(body) ==
  [action |-> "forget", kind |-> TargetKind(Target(body)), slot |-> TargetSlot(Target(body)),
   content |-> Body("target", Target(body), "none"), source |-> "explicit",
   confidence |-> 90, importance |-> 50]

(* extract_candidates *)
Candidates(text) ==
  CASE text.verb = "forget"   -> {ForgetCandidate(text.body)}
    [] text.verb = "remember" -> ParseStatement(Rest(text.body), "explicit", 90, 70)
    [] OTHER -> IF text.cue THEN ParseStatement(text.body, "correction", 85, 75)
                            ELSE ParseStatement(text.body, "inferred", 60, 55)

-----------------------------------------------------------------------------
(* evaluation.py *)
KindBonus(kind) == IF kind = "instruction" THEN 15 ELSE 5

Clamp(score) == Min({100, score})

Keep(text, c) ==
  LET importance == Clamp(Clamp(c.importance + KindBonus(c.kind))
                            + IF c.source = "correction" THEN 5 ELSE 0)
      confidence == Clamp(c.confidence + IF c.source = "explicit" THEN 5 ELSE 0)
  IN  "temporary" \notin text.flags /\ importance >= 40 /\ confidence >= 50

-----------------------------------------------------------------------------
(* service.py *)
Existing(c) == {r \in store : r.kind = c.kind /\ r.slot = c.slot}

(* _resolve and apply: forget, remember, supersede, or ignore a duplicate  *)
Resolve(c) ==
  LET record == [kind |-> c.kind, slot |-> c.slot, content |-> c.content]
  IN  store' = (store \ Existing(c)) \cup IF c.action = "forget" THEN {} ELSE {record}

Considered(text, c) ==
  /\ ~ (c.kind = "instruction" /\ Scan(text.flags).instruction_like)
  /\ Keep(text, c)

(* What capture resolves of a turn: no candidate, or one                   *)
Accepted(text) ==
  LET guard == Scan(text.flags)
  IN  IF guard.blocked \/ "assistant" \in text.flags \/ guard.do_not_remember
        THEN {}
        ELSE {c \in Candidates(text) : Considered(text, c)}

-----------------------------------------------------------------------------
(* What the user means, without kinds or keys: which statements stand.     *)

(* A text that is to be kept or to take effect: no one else's words, not   *)
(* refused, not temporary, no instruction that overrides, and a bare text  *)
(* only on request.                                                        *)
Counts(text) ==
  /\ text.flags \cap {"assistant", "oversized", "secret", "denied", "temporary"} = {}
  /\ "override" \in text.flags => text.body.form # "instruction"
  /\ text.body.form = "free" => text.verb = "remember"
  /\ text.body.form # "empty"

(* The forms that say something of what the words name: of a tool, its     *)
(* choice or that it is liked; else a fact, or a note of these very words. *)
Named(words) ==
  IF \E tool \in Preferences : words = <<tool>>
    THEN {"attribute", "preference"}
    ELSE {"attribute", "project", "name", "free"}

(* A statement takes the place of one on the same words, in the same form  *)
(* or naming the same thing.                                               *)
Replaces(new, old) ==
  /\ new.words = old.words
  /\ new.form = old.form \/ {new.form, old.form} \subseteq Named(old.words)

(* A request reaches what the words name that follow "about" and "my"; one *)
(* that is no name, with a digit or a dot, only a note of these words.     *)
Reaches(body, old) ==
  LET target == DropLead({"about"}, body.words)
  IN  IF Lettered(target)
        THEN old.words = DropLead({"my"}, target) /\ old.form \in Named(old.words)
        ELSE old.words = target /\ old.form = "free"

Meaning(text) ==
  LET new == Content(Rest(text.body))
  IN  IF ~ Counts(text) THEN meant
      ELSE IF text.verb = "forget" THEN {old \in meant : ~ Reaches(text.body, old)}
      ELSE {old \in meant : ~ Replaces(new, old)} \cup {new}

-----------------------------------------------------------------------------
NoSecrets == [found |-> <<>>, preview |-> <<>>]

CaptureInit ==
  /\ store = {}
  /\ scan = NoSecrets
  /\ meant = {}

(* process *)
CaptureTurn(text) ==
  /\ IF Accepted(text) = {} THEN UNCHANGED store
     ELSE \E c \in Accepted(text) : Resolve(c)
  /\ scan' = NoSecrets
  /\ meant' = Meaning(text)

(* process of a text with secrets, seen as the spans found in it           *)
CaptureSecret(found) ==
  /\ scan' = [found |-> found, preview |-> Redact(found)]
  /\ UNCHANGED <<store, meant>>

(* Invariants 5, 6 and 9, ADR-013: after any sequence of turns the owner's *)
(* active memories are the statements that stand, one memory for each: no  *)
(* statement is lost to another's key, none outlives its correction or a   *)
(* request that reaches it, none comes from a blocked, refused, temporary  *)
(* or assistant text.  The keys that statements and forget requests get on *)
(* different paths agree where Replaces and Reaches say so, and only there. *)
StoreIsLastSaid ==
  /\ {r.content : r \in store} = meant
  /\ \A r, s \in store : r.content = s.content => r = s

(* Invariant 7: however the secrets found in a text overlap, nest or       *)
(* touch, no position of them reaches the preview that is shown, logged    *)
(* and stored in events, and nothing else is missing from it.              *)
RedactionCovers == scan.found # <<>> => Redacted(scan.found, scan.preview)
=============================================================================
