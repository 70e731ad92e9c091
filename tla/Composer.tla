------------------------------ MODULE Composer ------------------------------
(***************************************************************************)
(* From a ranked list to a bounded context block: deduplicate and          *)
(* ContextComposer.build (memory/ranking/dedup.py, context.py), one step   *)
(* per turn of their loops.                                                *)
(*                                                                         *)
(* Tokens are bytes, so the count of a block is the wrapper's and each     *)
(* line's (its newline included) added up.  A line is the sanitized        *)
(* content, its number and, in debug mode, the id.                         *)
(***************************************************************************)
EXTENDS Naturals, Sequences

CONSTANTS
  Budgets,      \* values of [memory].context_token_budget
  TopKs,        \* values of [memory].top_k
  WrapperSize,  \* tokens of the two tags and the preamble
  Size,         \* per content, tokens of a line with a one-digit number
  Radix,        \* the first number that needs another digit
  IdSize        \* tokens the id adds to a line

ASSUME SizeAssumption ==
  /\ Budgets \subseteq Nat /\ TopKs \subseteq Nat /\ WrapperSize \in Nat
  /\ Radix \in Nat /\ IdSize \in Nat
  /\ \A content \in DOMAIN Size : Size[content] \in Nat

VARIABLES
  limits,     \* budget, top_k and debug of this block
  ranked,     \* the ranked memories
  walked,     \* how many of them deduplicate has walked over
  kept,       \* the ones it kept ...
  packed,     \* ... how many of these build has considered
  items,      \* the ContextItems, with the tokens of the block up to each
  decisions,  \* the ContextDecisions
  phase       \* "idle", "dedup", "pack" or "done"

composeVars == <<limits, ranked, walked, kept, packed, items, decisions, phase>>

NoLimits == [budget |-> 0, topK |-> 0, debug |-> FALSE]

ComposeInit ==
  /\ limits = NoLimits
  /\ ranked = <<>> /\ walked = 0 /\ kept = <<>> /\ packed = 0
  /\ items = <<>> /\ decisions = <<>>
  /\ phase = "idle"

(* compose_memory_context: a list of different memories comes in.          *)
StartCompose(list, debug) ==
  /\ phase = "idle"
  /\ \E budget \in Budgets, topK \in TopKs :
       limits' = [budget |-> budget, topK |-> topK, debug |-> debug]
  /\ ranked' = list
  /\ phase' = "dedup"
  /\ UNCHANGED <<walked, kept, packed, items, decisions>>

Decided(r, included) == Append(decisions, [memory |-> r, included |-> included])

(* Mutant of Duplicate: only the canonical key is compared. *)
DuplicateKey(r) == \E i \in DOMAIN kept : kept[i].key = r.key

(* seen_keys and seen_hashes are those of the kept memories.               *)
Duplicate(r) == \E i \in DOMAIN kept : kept[i].key = r.key \/ kept[i].content = r.content

Deduplicate ==
  /\ phase = "dedup" /\ walked < Len(ranked)
  /\ LET r == ranked[walked + 1]
     IN  IF Duplicate(r)
           THEN decisions' = Decided(r, FALSE) /\ UNCHANGED kept
           ELSE kept' = Append(kept, r) /\ UNCHANGED decisions
  /\ walked' = walked + 1
  /\ UNCHANGED <<limits, ranked, packed, items, phase>>

DedupDone ==
  /\ phase = "dedup" /\ walked = Len(ranked)
  /\ phase' = "pack"
  /\ UNCHANGED <<limits, ranked, walked, kept, packed, items, decisions>>

LineSize(index, r) ==
  Size[r.content] + (IF index < Radix THEN 0 ELSE 1) + (IF limits.debug THEN IdSize ELSE 0)

(* token_count of the block with the items so far                          *)
BlockTokens == IF items = <<>> THEN WrapperSize ELSE items[Len(items)].upto

(* Mutant of Fits: the line is measured with the number of the last item.  *)
FitsAsLast(r) == BlockTokens + LineSize(Len(items), r) <= limits.budget

(* An excluded memory uses up no number.                                   *)
Fits(r) == BlockTokens + LineSize(Len(items) + 1, r) <= limits.budget

Include(r) ==
  /\ items' = Append(items, [index |-> Len(items) + 1, memory |-> r,
                             upto |-> BlockTokens + LineSize(Len(items) + 1, r)])
  /\ decisions' = Decided(r, TRUE)

(* Beyond top-k; or the wrapper alone, or the line, exceeds the budget.    *)
(* The code lists the decisions beyond top-k first: their order is left    *)
(* out.                                                                    *)
Exclude(r) == decisions' = Decided(r, FALSE) /\ UNCHANGED items

Pack ==
  /\ phase = "pack" /\ packed < Len(kept)
  /\ LET r == kept[packed + 1]
     IN  IF packed < limits.topK /\ WrapperSize <= limits.budget /\ Fits(r)
           THEN Include(r)
           ELSE Exclude(r)
  /\ packed' = packed + 1
  /\ UNCHANGED <<limits, ranked, walked, kept, phase>>

PackDone ==
  /\ phase = "pack" /\ packed = Len(kept)
  /\ phase' = "done"
  /\ UNCHANGED <<limits, ranked, walked, kept, packed, items, decisions>>

(* The block was used, or composing it failed.                             *)
Discard ==
  /\ phase' = "idle"
  /\ limits' = NoLimits
  /\ ranked' = <<>> /\ walked' = 0 /\ kept' = <<>> /\ packed' = 0
  /\ items' = <<>> /\ decisions' = <<>>

ComposeStep == Deduplicate \/ DedupDone \/ Pack \/ PackDone

(* The component on its own, over ranked lists of any length.              *)
ComposeNext(M) ==
  \/ \E list \in Seq(M), debug \in BOOLEAN : StartCompose(list, debug)
  \/ ComposeStep
  \/ Discard

ComposeSpec(M) == ComposeInit /\ [][ComposeNext(M)]_composeVars

-----------------------------------------------------------------------------
(* Invariant 10: the block never exceeds its budget nor its top_k, counted *)
(* over the lines as they are numbered in the end, although each line is   *)
(* measured while the numbers after it are still open.                     *)
BlockWithinBudget ==
  /\ items # <<>> => BlockTokens <= limits.budget
  /\ Len(items) <= limits.topK
  /\ \A i \in DOMAIN items :
       /\ items[i].index = i
       /\ items[i].upto = (IF i = 1 THEN WrapperSize ELSE items[i - 1].upto)
                            + LineSize(i, items[i].memory)

(* No two memories in a block state the same key or content, and what a    *)
(* block leaves out is never lost: every ranked memory gets exactly one    *)
(* decision, "included" for the ones in the block, and one left out is a   *)
(* duplicate of a kept one before it, beyond top-k, or still does not fit. *)
BlockAccounted ==
  /\ \A i, j \in DOMAIN items :
       (items[i].memory.key = items[j].memory.key \/ items[i].memory.content = items[j].memory.content)
         => i = j
  /\ phase = "done" =>
       /\ Len(decisions) = Len(ranked)
       /\ \A i \in DOMAIN ranked :
            \E d \in DOMAIN decisions :
              /\ decisions[d].memory = ranked[i]
              /\ decisions[d].included <=> \E k \in DOMAIN items : items[k].memory = ranked[i]
       /\ \A d \in DOMAIN decisions :
            ~ decisions[d].included =>
              LET r == decisions[d].memory
              IN  \/ \E i \in DOMAIN kept : kept[i] # r /\ (kept[i].key = r.key \/ kept[i].content = r.content)
                  \/ \E i \in DOMAIN kept : kept[i] = r /\ i > limits.topK
                  \/ ~ Fits(r)
=============================================================================
