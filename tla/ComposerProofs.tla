--------------------------- MODULE ComposerProofs ---------------------------
(***************************************************************************)
(* ContextComposer.build keeps to its budget and its top_k whatever the    *)
(* ranked list, the sizes of its lines and the limits are.                 *)
(***************************************************************************)
EXTENDS Composer, TLAPS

Memory(M) == \A r \in M : r.content \in DOMAIN Size

Limits == [budget : Nat, topK : Nat, debug : BOOLEAN]

Item(M) == [index : Nat, memory : M, upto : Nat]

ComposeTypeOK(M) ==
  /\ limits \in Limits
  /\ ranked \in Seq(M) /\ kept \in Seq(M) /\ items \in Seq(Item(M))
  /\ walked \in Nat /\ packed \in Nat
  /\ phase \in {"idle", "dedup", "pack", "done"}

(* While the list is deduplicated nothing is packed yet, and an item stands *)
(* for one memory considered: so the top_k first candidates give at most    *)
(* top_k items.                                                             *)
PackedInOrder ==
  /\ phase \in {"idle", "dedup"} => items = <<>> /\ packed = 0
  /\ phase = "idle" => ranked = <<>> /\ kept = <<>> /\ walked = 0
  /\ Len(items) <= packed

ComposeInv(M) == ComposeTypeOK(M) /\ PackedInOrder /\ BlockWithinBudget

-----------------------------------------------------------------------------
(* Every line has a size that is a natural number.                         *)
LEMMA LinesMeasured ==
  ASSUME NEW M, Memory(M), limits \in Limits, NEW r \in M, NEW index \in Nat
  PROVE  LineSize(index, r) \in Nat
BY SizeAssumption DEF Memory, Limits, LineSize

(* The tokens so far are a natural number.                                 *)
LEMMA BlockMeasured ==
  ASSUME NEW M, ComposeTypeOK(M)
  PROVE  BlockTokens \in Nat
<1>1. CASE items = <<>>
  BY <1>1, SizeAssumption DEF BlockTokens
<1>2. CASE items # <<>>
  <2>1. items \in Seq(Item(M)) /\ Len(items) \in 1 .. Len(items)
    BY <1>2 DEF ComposeTypeOK
  <2>2. items[Len(items)] \in Item(M)
    BY <2>1
  <2> QED
    BY <1>2, <2>2 DEF BlockTokens, Item
<1> QED
  BY <1>1, <1>2

(* Including a memory that fits keeps the block within its limits.         *)
LEMMA IncludeWithinBudget ==
  ASSUME NEW M, Memory(M), ComposeInv(M), NEW r \in M,
         packed < limits.topK, Fits(r), limits' = limits, Include(r)
  PROVE  items' \in Seq(Item(M)) /\ Len(items') = Len(items) + 1 /\ BlockWithinBudget'
<1> DEFINE n == Len(items)
           line == LineSize(n + 1, r)
           new == [index |-> n + 1, memory |-> r, upto |-> BlockTokens + line]
<1>1. n \in Nat /\ items \in Seq(Item(M)) /\ limits \in Limits /\ packed \in Nat
  BY DEF ComposeInv, ComposeTypeOK
<1>2. line \in Nat
  BY <1>1, LinesMeasured
<1>3. BlockTokens \in Nat
  BY BlockMeasured DEF ComposeInv
<1>4. new \in Item(M)
  BY <1>1, <1>2, <1>3 DEF Item
<1>5. items' = Append(items, new)
  BY DEF Include
<1> HIDE DEF new, line
<1>6. /\ items' \in Seq(Item(M))
      /\ Len(items') = n + 1
      /\ \A i \in 1 .. n : items'[i] = items[i]
      /\ items'[n + 1] = new
  BY <1>1, <1>4, <1>5
<1>7. DOMAIN items' = 1 .. n + 1 /\ DOMAIN items = 1 .. n
  BY <1>1, <1>6
<1>8. BlockTokens' = new.upto
  <2>1. items' # <<>>
    BY <1>1, <1>6
  <2> QED
    BY <2>1, <1>6 DEF BlockTokens
<1>9. new.index = n + 1 /\ new.memory = r /\ new.upto = BlockTokens + line
  BY DEF new
<1>10. BlockTokens' <= limits'.budget
  BY <1>8, <1>9 DEF Fits, line
<1>11. Len(items') <= limits'.topK
  BY <1>1, <1>6 DEF ComposeInv, PackedInOrder, Limits
<1>12. ASSUME NEW i \in DOMAIN items'
       PROVE  /\ items'[i].index = i
              /\ items'[i].upto = (IF i = 1 THEN WrapperSize ELSE items'[i - 1].upto)
                                    + LineSize(i, items[i].memory)'
  <2>1. ASSUME NEW j \in Nat, NEW m PROVE LineSize(j, m)' = LineSize(j, m)
    BY DEF LineSize
  <2>2. CASE i = n + 1
    <3>1. (IF i = 1 THEN WrapperSize ELSE items'[i - 1].upto) = BlockTokens
      <4>1. CASE n = 0
        BY <1>1, <2>2, <4>1 DEF BlockTokens
      <4>2. CASE n > 0
        <5>1. n \in 1 .. n /\ i - 1 = n /\ i # 1 /\ items # <<>>
          BY <1>1, <2>2, <4>2
        <5> QED
          BY <5>1, <1>6 DEF BlockTokens
      <4> QED
        BY <1>1, <4>1, <4>2
    <3>2. items'[i] = new
      BY <1>6, <2>2
    <3>3. LineSize(i, items[i].memory)' = LineSize(i, r)
      BY <3>2, <1>9, <1>1, <2>2 DEF LineSize
    <3> QED
      BY <3>1, <3>2, <3>3, <2>2, <1>9 DEF line
  <2>3. CASE i # n + 1
    <3>1. i \in 1 .. n /\ items'[i] = items[i]
      BY <1>1, <1>6, <1>7, <2>3
    <3>2. i # 1 => i - 1 \in 1 .. n /\ items'[i - 1] = items[i - 1]
      BY <1>1, <1>6, <3>1
    <3>3. LineSize(i, items[i].memory)' = LineSize(i, items[i].memory)
      BY <3>1 DEF LineSize
    <3>4. /\ items[i].index = i
          /\ items[i].upto = (IF i = 1 THEN WrapperSize ELSE items[i - 1].upto)
                               + LineSize(i, items[i].memory)
      BY <1>7, <3>1 DEF ComposeInv, BlockWithinBudget
    <3> QED
      BY <3>1, <3>2, <3>3, <3>4
  <2> QED
    BY <2>2, <2>3
<1> QED
  BY <1>6, <1>10, <1>11, <1>12 DEF BlockWithinBudget

(* An action that leaves limits and items alone keeps the block.           *)
LEMMA BlockUntouched ==
  ASSUME BlockWithinBudget, UNCHANGED <<limits, items>>
  PROVE  BlockWithinBudget'
BY DEF BlockWithinBudget, BlockTokens, LineSize

-----------------------------------------------------------------------------
LEMMA ComposeInitial ==
  ASSUME NEW M, ComposeInit
  PROVE  ComposeInv(M)
BY DEF ComposeInit, ComposeInv, ComposeTypeOK, PackedInOrder, BlockWithinBudget, Limits, NoLimits

LEMMA StartKeeps ==
  ASSUME NEW M, ComposeInv(M), NEW list \in Seq(M), NEW debug \in BOOLEAN,
         StartCompose(list, debug)
  PROVE  ComposeInv(M)'
<1>1. limits' \in Limits
  BY SizeAssumption DEF StartCompose, Limits
<1>2. ComposeTypeOK(M)'
  BY <1>1 DEF ComposeInv, ComposeTypeOK, StartCompose
<1>3. items' = <<>> /\ packed' = 0 /\ phase' = "dedup"
  BY DEF ComposeInv, PackedInOrder, StartCompose
<1>4. PackedInOrder'
  BY <1>3 DEF PackedInOrder
<1>5. BlockWithinBudget'
  BY <1>1, <1>3 DEF BlockWithinBudget, Limits
<1> QED
  BY <1>2, <1>4, <1>5 DEF ComposeInv

LEMMA DeduplicateKeeps ==
  ASSUME NEW M, ComposeInv(M), Deduplicate
  PROVE  ComposeInv(M)'
<1>1. ranked[walked + 1] \in M
  BY DEF ComposeInv, ComposeTypeOK, Deduplicate
<1>2. kept' \in Seq(M)
  <2>1. kept \in Seq(M)
    BY DEF ComposeInv, ComposeTypeOK
  <2>2. CASE Duplicate(ranked[walked + 1])
    BY <2>1, <2>2 DEF Deduplicate
  <2>3. CASE ~ Duplicate(ranked[walked + 1])
    <3>1. kept' = Append(kept, ranked[walked + 1])
      BY <2>3 DEF Deduplicate
    <3> QED
      BY <1>1, <2>1, <3>1
  <2> QED
    BY <2>2, <2>3
<1>3. ComposeTypeOK(M)'
  BY <1>2 DEF ComposeInv, ComposeTypeOK, Deduplicate
<1>4. PackedInOrder'
  BY DEF ComposeInv, PackedInOrder, Deduplicate
<1>5. BlockWithinBudget'
  BY BlockUntouched DEF ComposeInv, Deduplicate
<1> QED
  BY <1>3, <1>4, <1>5 DEF ComposeInv

LEMMA PackKeeps ==
  ASSUME NEW M, Memory(M), ComposeInv(M), Pack
  PROVE  ComposeInv(M)'
<1> DEFINE r == kept[packed + 1]
<1>1. packed \in Nat /\ kept \in Seq(M) /\ r \in M
  BY DEF ComposeInv, ComposeTypeOK, Pack
<1>2. limits' = limits /\ packed' = packed + 1 /\ phase' = phase /\ phase = "pack"
  BY DEF Pack
<1> HIDE DEF r
<1>3. /\ items' \in Seq(Item(M))
      /\ Len(items') <= Len(items) + 1
      /\ BlockWithinBudget'
  <2>1. CASE packed < limits.topK /\ Fits(r) /\ Include(r)
    <3>1. items' \in Seq(Item(M)) /\ Len(items') = Len(items) + 1 /\ BlockWithinBudget'
      BY <1>1, <1>2, <2>1, IncludeWithinBudget
    <3> QED
      BY <3>1 DEF ComposeInv, ComposeTypeOK
  <2>2. CASE Exclude(r)
    <3>1. items' = items
      BY <2>2 DEF Exclude
    <3> QED
      BY <3>1, <1>2, BlockUntouched DEF ComposeInv, ComposeTypeOK
  <2>3. \/ packed < limits.topK /\ Fits(r) /\ Include(r)
        \/ Exclude(r)
    BY DEF Pack, r
  <2> QED
    BY <2>1, <2>2, <2>3
<1>4. ComposeTypeOK(M)'
  BY <1>1, <1>2, <1>3 DEF ComposeInv, ComposeTypeOK, Pack
<1>5. PackedInOrder'
  BY <1>1, <1>2, <1>3 DEF ComposeInv, ComposeTypeOK, PackedInOrder
<1> QED
  BY <1>3, <1>4, <1>5 DEF ComposeInv

LEMMA DiscardKeeps ==
  ASSUME NEW M, ComposeInv(M), Discard
  PROVE  ComposeInv(M)'
BY DEF Discard, ComposeInv, ComposeTypeOK, PackedInOrder, BlockWithinBudget, Limits, NoLimits

LEMMA PhaseKeeps ==
  ASSUME NEW M, ComposeInv(M), DedupDone \/ PackDone
  PROVE  ComposeInv(M)'
<1>1. BlockWithinBudget'
  BY BlockUntouched DEF ComposeInv, DedupDone, PackDone
<1>2. ComposeTypeOK(M)' /\ PackedInOrder'
  BY DEF ComposeInv, ComposeTypeOK, PackedInOrder, DedupDone, PackDone
<1> QED
  BY <1>1, <1>2 DEF ComposeInv

LEMMA ComposeStepKeeps ==
  ASSUME NEW M, Memory(M), ComposeInv(M), [ComposeNext(M)]_composeVars
  PROVE  ComposeInv(M)'
<1>1. CASE \E list \in Seq(M), debug \in BOOLEAN : StartCompose(list, debug)
  BY <1>1, StartKeeps
<1>2. CASE Deduplicate
  BY <1>2, DeduplicateKeeps
<1>3. CASE DedupDone \/ PackDone
  BY <1>3, PhaseKeeps
<1>4. CASE Pack
  BY <1>4, PackKeeps
<1>5. CASE Discard
  BY <1>5, DiscardKeeps
<1>6. CASE UNCHANGED composeVars
  BY <1>6, BlockUntouched DEF composeVars, ComposeInv, ComposeTypeOK, PackedInOrder
<1> QED
  BY <1>1, <1>2, <1>3, <1>4, <1>5, <1>6 DEF ComposeNext, ComposeStep

(* Invariant 10 of ContextComposer.build, for every budget, top_k, ranked  *)
(* list and line size: the block in the making never exceeds its budget    *)
(* nor its top_k, counted over the lines as they are finally numbered.     *)
THEOREM BlocksAreBounded ==
  ASSUME NEW M, Memory(M)
  PROVE  ComposeSpec(M) => []BlockWithinBudget
<1>1. ComposeInit => ComposeInv(M)
  BY ComposeInitial
<1>2. ComposeInv(M) /\ [ComposeNext(M)]_composeVars => ComposeInv(M)'
  BY ComposeStepKeeps
<1>3. ComposeInv(M) => BlockWithinBudget
  BY DEF ComposeInv
<1> QED
  BY <1>1, <1>2, <1>3, PTL DEF ComposeSpec
-----------------------------------------------------------------------------
(* What a block leaves out.  The ranked memories differ, as they do when   *)
(* they come from the vault: ids are unique.                               *)

RankedDiffer == \A i, j \in DOMAIN ranked : ranked[i] = ranked[j] => i = j

Akin(r, s) == r.key = s.key \/ r.content = s.content

InBlock(r) == \E k \in DOMAIN items : items[k].memory = r

DuplicateOf(r) == \E k \in DOMAIN kept : kept[k] # r /\ Akin(kept[k], r)

(* The reasons to leave a memory out *)
Justified(r) ==
  \/ DuplicateOf(r)
  \/ \E k \in DOMAIN kept : kept[k] = r /\ k > limits.topK
  \/ ~ Fits(r)

Decision(M) == [memory : M, included : BOOLEAN]

DecisionsCounted(M) ==
  /\ decisions \in Seq(Decision(M))
  /\ walked <= Len(ranked) /\ packed <= Len(kept)
  /\ Len(decisions) + Len(kept) = walked + packed
  /\ phase = "idle" => decisions = <<>>
  /\ phase \in {"pack", "done"} => walked = Len(ranked)
  /\ phase = "done" => packed = Len(kept)

KeptDiffer ==
  /\ \A k \in DOMAIN kept : \E i \in 1 .. walked : kept[k] = ranked[i]
  /\ \A k, l \in DOMAIN kept : Akin(kept[k], kept[l]) => k = l

ItemsDiffer ==
  /\ items # <<>> => WrapperSize <= limits.budget
  /\ \A k \in DOMAIN items : \E i \in 1 .. packed : items[k].memory = kept[i]
  /\ \A k, l \in DOMAIN items : Akin(items[k].memory, items[l].memory) => k = l

(* A memory walked over is kept or a duplicate, one considered is decided. *)
Decisive ==
  /\ \A i \in 1 .. walked :
       \/ \E k \in DOMAIN kept : kept[k] = ranked[i]
       \/ /\ \E d \in DOMAIN decisions :
               decisions[d].memory = ranked[i] /\ ~ decisions[d].included
          /\ DuplicateOf(ranked[i])
  /\ \A k \in 1 .. packed : \E d \in DOMAIN decisions :
       decisions[d].memory = kept[k] /\ (decisions[d].included <=> InBlock(kept[k]))
  /\ \A d \in DOMAIN decisions :
       ~ decisions[d].included => Justified(decisions[d].memory)

AccountInv(M) ==
  /\ ComposeInv(M) /\ DecisionsCounted(M)
  /\ RankedDiffer => KeptDiffer /\ ItemsDiffer /\ Decisive

(* A decision more. *)
LEMMA OneMoreDecision ==
  ASSUME NEW M, DecisionsCounted(M), NEW r \in M, NEW included \in BOOLEAN,
         decisions' = Decided(r, included)
  PROVE  /\ decisions' \in Seq(Decision(M))
         /\ Len(decisions') = Len(decisions) + 1
         /\ DOMAIN decisions \subseteq DOMAIN decisions'
         /\ \A d \in DOMAIN decisions : decisions'[d] = decisions[d]
         /\ Len(decisions') \in DOMAIN decisions'
         /\ decisions'[Len(decisions')].memory = r
         /\ decisions'[Len(decisions')].included = included
         /\ \A d \in DOMAIN decisions' : d \in DOMAIN decisions \/ d = Len(decisions')
<1>. DEFINE new == [memory |-> r, included |-> included]
<1>1. decisions \in Seq(Decision(M)) /\ new \in Decision(M) /\ decisions' = Append(decisions, new)
  BY DEF DecisionsCounted, Decided, Decision
<1>2. new.memory = r /\ new.included = included
  OBVIOUS
<1>. HIDE DEF new
<1>. QED
  BY <1>1, <1>2

LEMMA DedupAccounts ==
  ASSUME NEW M, AccountInv(M), Deduplicate
  PROVE  DecisionsCounted(M)' /\ (RankedDiffer' => KeptDiffer' /\ ItemsDiffer' /\ Decisive')
<1>1. /\ walked \in Nat /\ ranked \in Seq(M) /\ kept \in Seq(M) /\ packed = 0 /\ items = <<>>
      /\ phase = "dedup" /\ walked < Len(ranked) /\ walked + 1 \in DOMAIN ranked
      /\ decisions \in Seq(Decision(M))
      /\ Len(kept) \in Nat /\ Len(decisions) \in Nat /\ Len(decisions) + Len(kept) = walked
  BY DEF AccountInv, ComposeInv, ComposeTypeOK, PackedInOrder, Deduplicate, DecisionsCounted
<1>2. PICK r \in M : r = ranked[walked + 1]
  BY <1>1
<1>3. /\ walked' = walked + 1 /\ ranked' = ranked /\ packed' = packed /\ items' = items
      /\ phase' = phase /\ limits' = limits
      /\ 1 .. walked' = (1 .. walked) \cup {walked + 1}
  BY <1>1 DEF Deduplicate
<1>4. RankedDiffer' <=> RankedDiffer
  BY <1>3 DEF RankedDiffer
<1>5. ItemsDiffer'
  BY <1>1, <1>3 DEF ItemsDiffer
<1>6. CASE Duplicate(r)
  <2>1. decisions' = Decided(r, FALSE) /\ kept' = kept
    BY <1>2, <1>6 DEF Deduplicate
  <2>2. /\ decisions' \in Seq(Decision(M))
        /\ Len(decisions') = Len(decisions) + 1
        /\ DOMAIN decisions \subseteq DOMAIN decisions'
        /\ \A d \in DOMAIN decisions : decisions'[d] = decisions[d]
        /\ Len(decisions') \in DOMAIN decisions'
        /\ decisions'[Len(decisions')].memory = r
        /\ decisions'[Len(decisions')].included = FALSE
        /\ \A d \in DOMAIN decisions' : d \in DOMAIN decisions \/ d = Len(decisions')
    BY <1>2, <2>1, OneMoreDecision DEF AccountInv
  <2>3. DecisionsCounted(M)'
    <3>1. Len(decisions') + Len(kept') = walked' + packed'
      <4>1. /\ Len(decisions') = Len(decisions) + 1 /\ Len(kept') = Len(kept)
            /\ walked' = walked + 1 /\ packed' = 0
        BY <1>1, <1>3, <2>1, <2>2
      <4>. QED
        BY <1>1, <4>1
    <3>2. walked' <= Len(ranked') /\ packed' <= Len(kept') /\ phase' = "dedup"
      BY <1>1, <1>3, <2>1
    <3>. QED
      BY <2>2, <3>1, <3>2 DEF DecisionsCounted
  <2>4. ASSUME RankedDiffer PROVE KeptDiffer' /\ Decisive'
    <3>1. KeptDiffer /\ Decisive
      BY <2>4 DEF AccountInv
    <3>2. KeptDiffer'
      BY <1>3, <2>1, <3>1 DEF KeptDiffer
    <3>3. DuplicateOf(r)
      <4>1. PICK k \in DOMAIN kept : Akin(kept[k], r)
        BY <1>6 DEF Duplicate, Akin
      <4>2. PICK i \in 1 .. walked : kept[k] = ranked[i]
        BY <3>1 DEF KeptDiffer
      <4>3. kept[k] # r
        BY <1>1, <1>2, <2>4, <4>2 DEF RankedDiffer
      <4>. QED
        BY <4>1, <4>3 DEF DuplicateOf
    <3>4. ASSUME NEW x PROVE (DuplicateOf(x)' <=> DuplicateOf(x)) /\ (Justified(x)' <=> Justified(x))
                             /\ (InBlock(x)' <=> InBlock(x))
      BY <1>3, <2>1 DEF DuplicateOf, Justified, InBlock, Fits, BlockTokens, LineSize
    <3>5. ASSUME NEW i \in 1 .. walked'
          PROVE  \/ \E k \in DOMAIN kept' : kept'[k] = ranked'[i]
                 \/ /\ \E d \in DOMAIN decisions' :
                         decisions'[d].memory = ranked'[i] /\ ~ decisions'[d].included
                    /\ DuplicateOf(ranked[i])'
      <4>1. PICK x : x = ranked[i]
        OBVIOUS
      <4>2. DuplicateOf(x) => DuplicateOf(ranked[i])'
        BY <1>3, <2>1, <4>1 DEF DuplicateOf
      <4>3. \/ \E k \in DOMAIN kept : kept[k] = x
            \/ /\ \E d \in DOMAIN decisions' :
                    decisions'[d].memory = x /\ ~ decisions'[d].included
               /\ DuplicateOf(x)
        <5>1. CASE i = walked + 1
          BY <1>2, <2>2, <3>3, <4>1, <5>1
        <5>2. CASE i \in 1 .. walked
          BY <2>2, <3>1, <4>1, <5>2 DEF Decisive
        <5>. QED
          BY <1>3, <5>1, <5>2
      <4>. QED
        BY <1>3, <2>1, <4>1, <4>2, <4>3
    <3>6. ASSUME NEW d \in DOMAIN decisions', ~ decisions'[d].included
          PROVE  Justified(decisions[d].memory)'
      <4>1. PICK m : m = decisions'[d].memory
        OBVIOUS
      <4>2. Justified(m)
        <5>1. CASE d = Len(decisions')
          BY <2>2, <3>3, <4>1, <5>1 DEF Justified
        <5>2. CASE d \in DOMAIN decisions
          BY <2>2, <3>1, <3>6, <4>1, <5>2 DEF Decisive
        <5>. QED
          BY <2>2, <5>1, <5>2
      <4>3. Justified(m)'
        BY <3>4, <4>2
      <4>. QED
        BY <4>1, <4>3 DEF Justified, DuplicateOf, Fits, BlockTokens, LineSize
    <3>7. \A k \in 1 .. packed' : FALSE
      BY <1>1, <1>3
    <3>. QED
      BY <3>2, <3>5, <3>6, <3>7 DEF Decisive
  <2>. QED
    BY <1>4, <1>5, <2>3, <2>4
<1>7. CASE ~ Duplicate(r)
  <2>1. decisions' = decisions /\ kept' = Append(kept, r)
    BY <1>2, <1>7 DEF Deduplicate
  <2>. DEFINE n == Len(kept)
  <2>2. /\ n \in Nat /\ DOMAIN kept = 1 .. n /\ DOMAIN kept' = 1 .. n + 1 /\ Len(kept') = n + 1
        /\ \A k \in 1 .. n : kept'[k] = kept[k]
        /\ kept'[n + 1] = r
    BY <1>1, <1>2, <2>1
  <2>3. DecisionsCounted(M)'
    BY <1>1, <1>3, <2>1, <2>2 DEF AccountInv, DecisionsCounted
  <2>4. ASSUME RankedDiffer PROVE KeptDiffer' /\ Decisive'
    <3>1. KeptDiffer /\ Decisive
      BY <2>4 DEF AccountInv
    <3>. HIDE DEF n
    <3>2. \A k \in 1 .. n : ~ Akin(kept[k], r) /\ ~ Akin(r, kept[k])
      BY <1>7, <2>2 DEF Duplicate, Akin
    <3>3. KeptDiffer'
      <4>1. ASSUME NEW k \in DOMAIN kept' PROVE \E i \in 1 .. walked' : kept'[k] = ranked'[i]
        <5>1. CASE k = n + 1
          BY <1>1, <1>2, <1>3, <2>2, <5>1
        <5>2. CASE k \in 1 .. n
          BY <1>3, <2>2, <3>1, <5>2 DEF KeptDiffer
        <5>. QED
          BY <2>2, <5>1, <5>2
      <4>2. ASSUME NEW k \in DOMAIN kept', NEW l \in DOMAIN kept', Akin(kept'[k], kept'[l])
            PROVE  k = l
        BY <2>2, <3>1, <3>2, <4>2 DEF KeptDiffer
      <4>. QED
        BY <4>1, <4>2 DEF KeptDiffer, Akin
    <3>4. ASSUME NEW x PROVE (DuplicateOf(x) => DuplicateOf(x)') /\ (Justified(x) => Justified(x)')
      BY <1>3, <2>2 DEF DuplicateOf, Justified, Fits, BlockTokens, LineSize, Akin
    <3>5. ASSUME NEW i \in 1 .. walked'
          PROVE  \/ \E k \in DOMAIN kept' : kept'[k] = ranked'[i]
                 \/ /\ \E d \in DOMAIN decisions' :
                         decisions'[d].memory = ranked'[i] /\ ~ decisions'[d].included
                    /\ DuplicateOf(ranked[i])'
      <4>1. CASE i = walked + 1
        BY <1>1, <1>2, <1>3, <2>2, <4>1
      <4>2. CASE i \in 1 .. walked
        <5>1. PICK x : x = ranked[i]
          OBVIOUS
        <5>2. DuplicateOf(x)' => DuplicateOf(ranked[i])'
          BY <1>3, <5>1 DEF DuplicateOf
        <5>3. \/ \E k \in DOMAIN kept : kept[k] = x
              \/ /\ \E d \in DOMAIN decisions : decisions[d].memory = x /\ ~ decisions[d].included
                 /\ DuplicateOf(x)
          BY <3>1, <4>2, <5>1 DEF Decisive
        <5>. QED
          BY <1>3, <2>1, <2>2, <3>4, <5>1, <5>2, <5>3
      <4>. QED
        BY <1>3, <4>1, <4>2
    <3>6. ASSUME NEW d \in DOMAIN decisions', ~ decisions'[d].included
          PROVE  Justified(decisions[d].memory)'
      <4>1. PICK m : m = decisions[d].memory
        OBVIOUS
      <4>2. Justified(m)'
        BY <2>1, <3>1, <3>4, <3>6, <4>1 DEF Decisive
      <4>. QED
        BY <2>1, <4>1, <4>2 DEF Justified, DuplicateOf, Fits, BlockTokens, LineSize
    <3>7. \A k \in 1 .. packed' : FALSE
      BY <1>1, <1>3
    <3>. QED
      BY <3>3, <3>5, <3>6, <3>7 DEF Decisive
  <2>. QED
    BY <1>4, <1>5, <2>3, <2>4
<1>. QED
  BY <1>6, <1>7

LEMMA LimitsMeasured ==
  ASSUME NEW M, ComposeInv(M)
  PROVE  limits \in Limits /\ limits.budget \in Nat /\ limits.topK \in Nat /\ WrapperSize \in Nat
BY SizeAssumption DEF ComposeInv, ComposeTypeOK, Limits

(* What did not fit fits less the more the block holds.                    *)
LEMMA StillUnfit ==
  ASSUME NEW M, Memory(M), ComposeInv(M), NEW r \in M, NEW x \in M,
         limits' = limits, Include(x), ~ Fits(r)
  PROVE  ~ Fits(r)'
<1>. DEFINE n == Len(items)
            line == LineSize(n + 1, x)
<1>1. n \in Nat /\ items \in Seq(Item(M)) /\ limits \in Limits /\ Radix \in Nat /\ IdSize \in Nat
  BY SizeAssumption DEF ComposeInv, ComposeTypeOK
<1>2. line \in Nat /\ BlockTokens \in Nat /\ limits.budget \in Nat
  <2>1. n + 1 \in Nat
    BY <1>1
  <2>2. line \in Nat
    BY <1>1, <2>1, LinesMeasured
  <2>. QED
    BY <2>2, LimitsMeasured, BlockMeasured DEF ComposeInv
<1>3. Size[r.content] \in Nat
  BY SizeAssumption DEF Memory
<1>. DEFINE new == [index |-> n + 1, memory |-> x, upto |-> BlockTokens + line]
<1>4. new \in Item(M) /\ new.upto = BlockTokens + line
  BY <1>1, <1>2 DEF Item
<1>5. items' = Append(items, new)
  BY DEF Include
<1>. HIDE DEF new, line
<1>6. Len(items') = n + 1 /\ items' # <<>> /\ items'[n + 1] = new
  BY <1>1, <1>4, <1>5
<1>7. BlockTokens' = BlockTokens + line
  BY <1>4, <1>6 DEF BlockTokens
<1>8. Fits(r)' <=> BlockTokens + line + LineSize(n + 2, r) <= limits.budget
  <2>1. LineSize(Len(items) + 1, r)' = LineSize(n + 2, r)
    BY <1>1, <1>6 DEF LineSize
  <2>. QED
    BY <1>7, <2>1 DEF Fits
<1>9. LineSize(n + 1, r) \in Nat /\ LineSize(n + 2, r) \in Nat /\ LineSize(n + 1, r) <= LineSize(n + 2, r)
  BY <1>1, <1>3, SMTT(30) DEF LineSize
<1>. QED
  BY <1>2, <1>8, <1>9 DEF Fits

(* Neither a reason nor a duplicate goes away while the block is packed.   *)
LEMMA ReasonsLast ==
  ASSUME NEW M, Memory(M), ComposeInv(M), NEW x \in M, NEW r \in M,
         limits' = limits, kept' = kept, Include(x) \/ Exclude(x)
  PROVE  /\ DuplicateOf(r) => DuplicateOf(r)'
         /\ Justified(r) => Justified(r)'
<1>1. DuplicateOf(r)' <=> DuplicateOf(r)
  BY DEF DuplicateOf
<1>2. ~ Fits(r) => ~ Fits(r)'
  <2>1. CASE Include(x)
    BY <2>1, StillUnfit
  <2>2. CASE Exclude(x)
    BY <2>2 DEF Exclude, Fits, BlockTokens, LineSize
  <2>. QED
    BY <2>1, <2>2
<1>. QED
  BY <1>1, <1>2 DEF Justified

(* A memory considered is either in the block, or there is a reason.       *)
LEMMA PackAccounts ==
  ASSUME NEW M, Memory(M), AccountInv(M), Pack
  PROVE  DecisionsCounted(M)' /\ (RankedDiffer' => KeptDiffer' /\ ItemsDiffer' /\ Decisive')
<1>1. /\ packed \in Nat /\ kept \in Seq(M) /\ items \in Seq(Item(M)) /\ Len(kept) \in Nat
      /\ phase = "pack" /\ packed < Len(kept) /\ packed + 1 \in DOMAIN kept
      /\ decisions \in Seq(Decision(M)) /\ Len(decisions) \in Nat /\ walked \in Nat
      /\ Len(decisions) + Len(kept) = walked + packed
      /\ walked = Len(ranked)
      /\ DOMAIN kept = 1 .. Len(kept)
  BY DEF AccountInv, ComposeInv, ComposeTypeOK, Pack, DecisionsCounted
<1>2. PICK r \in M : r = kept[packed + 1]
  BY <1>1
<1>3. /\ walked' = walked /\ ranked' = ranked /\ kept' = kept /\ packed' = packed + 1
      /\ limits' = limits /\ phase' = phase
      /\ 1 .. packed' = (1 .. packed) \cup {packed + 1}
  BY <1>1 DEF Pack
<1>4. PICK included \in BOOLEAN :
        /\ decisions' = Decided(r, included)
        /\ included => /\ WrapperSize <= limits.budget
                       /\ Include(r)
        /\ ~ included => /\ Exclude(r)
                         /\ packed >= limits.topK \/ WrapperSize > limits.budget \/ ~ Fits(r)
  <2>1. CASE packed < limits.topK /\ WrapperSize <= limits.budget /\ Fits(r)
    BY <1>2, <2>1 DEF Pack, Include
  <2>2. CASE ~ (packed < limits.topK /\ WrapperSize <= limits.budget /\ Fits(r))
    <3>1. limits.topK \in Nat /\ limits.budget \in Nat /\ WrapperSize \in Nat
      BY LimitsMeasured DEF AccountInv
    <3>2. Exclude(r)
      BY <1>2, <2>2 DEF Pack
    <3>3. packed >= limits.topK \/ WrapperSize > limits.budget \/ ~ Fits(r)
      BY <1>1, <2>2, <3>1
    <3>. QED
      BY <3>2, <3>3 DEF Exclude
  <2>. QED
    BY <2>1, <2>2
<1>5. LineSize(Len(items) + 1, r) \in Nat
  <2>1. Len(items) + 1 \in Nat /\ limits \in Limits
    BY <1>1, LimitsMeasured DEF AccountInv
  <2>. QED
    BY <2>1, LinesMeasured
<1>6. /\ decisions' \in Seq(Decision(M))
      /\ Len(decisions') = Len(decisions) + 1
      /\ DOMAIN decisions \subseteq DOMAIN decisions'
      /\ \A d \in DOMAIN decisions : decisions'[d] = decisions[d]
      /\ Len(decisions') \in DOMAIN decisions'
      /\ decisions'[Len(decisions')].memory = r
      /\ decisions'[Len(decisions')].included = included
      /\ \A d \in DOMAIN decisions' : d \in DOMAIN decisions \/ d = Len(decisions')
  BY <1>4, OneMoreDecision DEF AccountInv
<1>7. DecisionsCounted(M)'
  <2>1. Len(decisions') + Len(kept') = walked' + packed'
    <3>1. /\ Len(decisions') = Len(decisions) + 1 /\ Len(kept') = Len(kept)
          /\ walked' = walked /\ packed' = packed + 1
      BY <1>3, <1>6
    <3>2. /\ Len(decisions) \in Nat /\ Len(kept) \in Nat /\ walked \in Nat /\ packed \in Nat
          /\ Len(decisions) + Len(kept) = walked + packed
      BY <1>1
    <3>. QED
      BY <3>1, <3>2
  <2>2. /\ walked' = Len(ranked') /\ walked' <= Len(ranked') /\ packed' <= Len(kept')
        /\ phase' = "pack"
    BY <1>1, <1>3
  <2>. QED
    BY <1>6, <2>1, <2>2 DEF DecisionsCounted
<1>8. \/ included /\ items' = Append(items, [index |-> Len(items) + 1, memory |-> r,
                                upto |-> BlockTokens + LineSize(Len(items) + 1, r)])
      \/ ~ included /\ items' = items
  BY <1>4 DEF Include, Exclude
<1>9. /\ DOMAIN items \subseteq DOMAIN items'
      /\ \A k \in DOMAIN items : items'[k] = items[k]
      /\ ~ included => items' = items
      /\ included => /\ Len(items) + 1 \in DOMAIN items'
                     /\ items'[Len(items) + 1].memory = r
                     /\ \A k \in DOMAIN items' : k \in DOMAIN items \/ k = Len(items) + 1
  <2>1. PICK new : new = [index |-> Len(items) + 1, memory |-> r,
                          upto |-> BlockTokens + LineSize(Len(items) + 1, r)]
    OBVIOUS
  <2>2. new \in Item(M) /\ new.memory = r
    <3>1. BlockTokens \in Nat
      BY BlockMeasured DEF AccountInv, ComposeInv
    <3>. QED
      BY <1>1, <1>5, <2>1, <3>1 DEF Item
  <2>3. \/ included /\ items' = Append(items, new)
        \/ ~ included /\ items' = items
    BY <1>8, <2>1
  <2>4. CASE included /\ items' = Append(items, new)
    <3>1. items \in Seq(Item(M))
      BY <1>1
    <3>. QED
      BY <2>2, <2>4, <3>1
  <2>. QED
    BY <2>3, <2>4
<1>10. RankedDiffer' <=> RankedDiffer
  BY <1>3 DEF RankedDiffer
<1>11. ASSUME RankedDiffer PROVE KeptDiffer' /\ ItemsDiffer' /\ Decisive'
  <2>1. KeptDiffer /\ ItemsDiffer /\ Decisive
    BY <1>11 DEF AccountInv
  <2>2. KeptDiffer'
    BY <1>3, <2>1 DEF KeptDiffer
  <2>3. ASSUME NEW i \in 1 .. packed PROVE ~ Akin(kept[i], r) /\ ~ Akin(r, kept[i])
    <3>1. i \in DOMAIN kept /\ packed + 1 \in DOMAIN kept /\ i # packed + 1
      BY <1>1
    <3>. QED
      BY <1>2, <2>1, <3>1 DEF KeptDiffer
  <2>4. ASSUME NEW k \in DOMAIN items PROVE ~ Akin(items[k].memory, r) /\ ~ Akin(r, items[k].memory)
    BY <2>1, <2>3 DEF ItemsDiffer
  <2>5. ItemsDiffer'
    <3>1. items' # <<>> => WrapperSize <= limits'.budget
      BY <1>3, <1>4, <1>9, <2>1 DEF ItemsDiffer
    <3>2. ASSUME NEW k \in DOMAIN items' PROVE \E i \in 1 .. packed' : items'[k].memory = kept'[i]
      BY <1>2, <1>3, <1>9, <2>1 DEF ItemsDiffer
    <3>3. ASSUME NEW k \in DOMAIN items', NEW l \in DOMAIN items',
                 Akin(items'[k].memory, items'[l].memory)
          PROVE  k = l
      BY <1>9, <2>1, <2>4, <3>3 DEF ItemsDiffer
    <3>. QED
      BY <3>1, <3>2, <3>3 DEF ItemsDiffer, Akin
  <2>6. ~ InBlock(r) /\ (InBlock(r)' <=> included)
    <3>1. \A k \in DOMAIN items : items[k].memory # r
      BY <2>4 DEF Akin
    <3>. QED
      BY <1>9, <3>1 DEF InBlock
  <2>7. ASSUME NEW x, x # r PROVE InBlock(x)' <=> InBlock(x)
    BY <1>9, <2>7 DEF InBlock
  <2>8. ASSUME NEW i \in 1 .. walked'
        PROVE  \/ \E k \in DOMAIN kept' : kept'[k] = ranked'[i]
               \/ /\ \E d \in DOMAIN decisions' :
                       decisions'[d].memory = ranked'[i] /\ ~ decisions'[d].included
                  /\ DuplicateOf(ranked[i])'
    <3>1. DuplicateOf(ranked[i])' <=> DuplicateOf(ranked[i])
      BY <1>3 DEF DuplicateOf
    <3>2. \/ \E k \in DOMAIN kept : kept[k] = ranked[i]
          \/ /\ \E d \in DOMAIN decisions : decisions[d].memory = ranked[i] /\ ~ decisions[d].included
             /\ DuplicateOf(ranked[i])
      BY <1>3, <2>1 DEF Decisive
    <3>. QED
      BY <1>3, <1>6, <3>1, <3>2
  <2>9. ASSUME NEW k \in 1 .. packed'
        PROVE  \E d \in DOMAIN decisions' :
                 decisions'[d].memory = kept'[k] /\ (decisions'[d].included <=> InBlock(kept[k])')
    <3>1. PICK x : x = kept[k]
      OBVIOUS
    <3>2. InBlock(kept[k])' <=> InBlock(x)'
      BY <1>3, <3>1 DEF InBlock
    <3>3. CASE k = packed + 1
      BY <1>2, <1>3, <1>6, <2>6, <3>1, <3>2, <3>3
    <3>4. CASE k \in 1 .. packed
      <4>1. x # r
        BY <2>3, <3>1, <3>4 DEF Akin
      <4>2. PICK d \in DOMAIN decisions :
              decisions[d].memory = x /\ (decisions[d].included <=> InBlock(x))
        BY <2>1, <3>1, <3>4 DEF Decisive
      <4>. QED
        BY <1>3, <1>6, <2>7, <3>1, <3>2, <4>1, <4>2
    <3>. QED
      BY <1>3, <3>3, <3>4
  <2>10. ~ included => Justified(r)'
    <3>. SUFFICES ASSUME ~ included PROVE Justified(r)'
      OBVIOUS
    <3>1. /\ Exclude(r)
          /\ packed >= limits.topK \/ WrapperSize > limits.budget \/ ~ Fits(r)
      BY <1>4
    <3>2. Justified(r)
      <4>1. limits.topK \in Nat /\ limits.budget \in Nat /\ WrapperSize \in Nat
        BY LimitsMeasured DEF AccountInv
      <4>2. CASE packed >= limits.topK
        <5>1. packed + 1 > limits.topK
          BY <1>1, <4>1, <4>2
        <5>. QED
          BY <1>1, <1>2, <5>1 DEF Justified
      <4>3. CASE WrapperSize > limits.budget
        <5>1. items = <<>>
          BY <2>1, <4>1, <4>3 DEF ItemsDiffer
        <5>. QED
          BY <1>5, <4>1, <4>3, <5>1 DEF Justified, Fits, BlockTokens
      <4>. QED
        BY <3>1, <4>2, <4>3 DEF Justified
    <3>. QED
      BY <1>3, <3>1, <3>2, ReasonsLast DEF AccountInv
  <2>11. ASSUME NEW d \in DOMAIN decisions', ~ decisions'[d].included
         PROVE  Justified(decisions[d].memory)'
    <3>1. PICK m : m = decisions'[d].memory
      OBVIOUS
    <3>2. Justified(m)'
      <4>1. CASE d = Len(decisions')
        BY <1>6, <2>10, <2>11, <3>1, <4>1
      <4>2. CASE d \in DOMAIN decisions
        <5>1. m = decisions[d].memory /\ ~ decisions[d].included
          BY <1>6, <2>11, <3>1, <4>2
        <5>2. decisions[d] \in Decision(M)
          BY <1>1, <4>2
        <5>3. m \in M
          BY <5>1, <5>2 DEF Decision
        <5>4. Justified(m)
          BY <2>1, <4>2, <5>1 DEF Decisive
        <5>. QED
          BY <1>3, <1>4, <5>3, <5>4, ReasonsLast DEF AccountInv
      <4>. QED
        BY <1>6, <4>1, <4>2
    <3>. QED
      BY <3>1, <3>2 DEF Justified, DuplicateOf, Fits, BlockTokens, LineSize
  <2>. QED
    BY <2>2, <2>5, <2>8, <2>9, <2>11 DEF Decisive
<1>. QED
  BY <1>7, <1>10, <1>11

(* Nothing is counted or decided before a list comes in: an empty state,   *)
(* here the one after a step.                                              *)
LEMMA EmptyAccounts ==
  ASSUME NEW M, packed' = 0, walked' = 0, kept' = <<>>, items' = <<>>, decisions' = <<>>,
         0 <= Len(ranked'), phase' \in {"idle", "dedup"}
  PROVE  DecisionsCounted(M)' /\ KeptDiffer' /\ ItemsDiffer' /\ Decisive'
<1>1. Len(kept') = 0 /\ Len(decisions') = 0 /\ DOMAIN kept' = {} /\ DOMAIN items' = {}
      /\ DOMAIN decisions' = {} /\ decisions' \in Seq(Decision(M)) /\ 1 .. 0 = {}
  OBVIOUS
<1>2. DecisionsCounted(M)'
  BY <1>1 DEF DecisionsCounted
<1>3. KeptDiffer' /\ ItemsDiffer' /\ Decisive'
  BY <1>1 DEF KeptDiffer, ItemsDiffer, Decisive
<1>. QED
  BY <1>2, <1>3

LEMMA StartAccounts ==
  ASSUME NEW M, AccountInv(M), NEW list \in Seq(M), NEW debug \in BOOLEAN,
         StartCompose(list, debug)
  PROVE  DecisionsCounted(M)' /\ KeptDiffer' /\ ItemsDiffer' /\ Decisive'
<1>1. /\ packed' = 0 /\ walked' = 0 /\ kept' = <<>> /\ items' = <<>> /\ decisions' = <<>>
      /\ 0 <= Len(ranked') /\ phase' = "dedup"
  <2>1. phase = "idle" /\ ranked' = list /\ phase' = "dedup"
        /\ UNCHANGED <<walked, kept, packed, items, decisions>>
    BY DEF StartCompose
  <2>2. Len(list) >= 0
    OBVIOUS
  <2>. QED
    BY <2>1, <2>2 DEF AccountInv, DecisionsCounted, ComposeInv, PackedInOrder
<1>. QED
  BY <1>1, EmptyAccounts

LEMMA DiscardAccounts ==
  ASSUME NEW M, Discard
  PROVE  DecisionsCounted(M)' /\ KeptDiffer' /\ ItemsDiffer' /\ Decisive'
<1>1. /\ packed' = 0 /\ walked' = 0 /\ kept' = <<>> /\ items' = <<>> /\ decisions' = <<>>
      /\ 0 <= Len(ranked') /\ phase' = "idle"
  BY DEF Discard
<1>. QED
  BY <1>1, EmptyAccounts

LEMMA PhaseAccounts ==
  ASSUME NEW M, AccountInv(M), DedupDone \/ PackDone \/ UNCHANGED composeVars
  PROVE  DecisionsCounted(M)' /\ (RankedDiffer' => KeptDiffer' /\ ItemsDiffer' /\ Decisive')
<1>1. UNCHANGED <<limits, ranked, walked, kept, packed, items, decisions>>
  BY DEF DedupDone, PackDone, composeVars
<1>2. \/ phase' = phase
      \/ phase' = "pack" /\ walked = Len(ranked)
      \/ phase' = "done" /\ packed = Len(kept) /\ phase = "pack"
  BY DEF DedupDone, PackDone, composeVars
<1>3. DecisionsCounted(M)'
  BY <1>1, <1>2 DEF AccountInv, DecisionsCounted
<1>. QED
  BY <1>1, <1>3
  DEF AccountInv, RankedDiffer, KeptDiffer, ItemsDiffer, Decisive, DuplicateOf, InBlock,
      Justified, Fits, BlockTokens, LineSize

LEMMA AccountStep ==
  ASSUME NEW M, Memory(M), AccountInv(M), [ComposeNext(M)]_composeVars
  PROVE  AccountInv(M)'
<1>1. ComposeInv(M)'
  BY ComposeStepKeeps DEF AccountInv
<1>2. DecisionsCounted(M)' /\ (RankedDiffer' => KeptDiffer' /\ ItemsDiffer' /\ Decisive')
  BY StartAccounts, DedupAccounts, PackAccounts, PhaseAccounts, DiscardAccounts
  DEF ComposeNext, ComposeStep
<1>. QED
  BY <1>1, <1>2 DEF AccountInv

LEMMA AccountInitial ==
  ASSUME NEW M, ComposeInit
  PROVE  AccountInv(M)
<1>1. Len(kept) = 0 /\ Len(decisions) = 0 /\ DOMAIN kept = {} /\ DOMAIN items = {}
      /\ DOMAIN decisions = {} /\ decisions \in Seq(Decision(M)) /\ 1 .. 0 = {}
      /\ Len(ranked) = 0 /\ walked = 0 /\ packed = 0 /\ phase = "idle" /\ decisions = <<>>
      /\ items = <<>>
  BY DEF ComposeInit
<1>2. DecisionsCounted(M)
  BY <1>1 DEF DecisionsCounted
<1>3. KeptDiffer /\ ItemsDiffer /\ Decisive
  BY <1>1 DEF KeptDiffer, ItemsDiffer, Decisive
<1>. QED
  BY <1>2, <1>3, ComposeInitial DEF AccountInv

LEMMA AccountedFor ==
  ASSUME NEW M, AccountInv(M), RankedDiffer
  PROVE  BlockAccounted
<1>1. KeptDiffer /\ ItemsDiffer /\ Decisive /\ DecisionsCounted(M)
  BY DEF AccountInv
<1>2. /\ ranked \in Seq(M) /\ kept \in Seq(M) /\ Len(kept) \in Nat /\ Len(ranked) \in Nat
      /\ DOMAIN ranked = 1 .. Len(ranked) /\ DOMAIN kept = 1 .. Len(kept)
      /\ decisions \in Seq(Decision(M)) /\ Len(decisions) \in Nat
  BY <1>1 DEF AccountInv, ComposeInv, ComposeTypeOK, DecisionsCounted
<1>3. \A k, l \in DOMAIN items :
        (items[k].memory.key = items[l].memory.key \/ items[k].memory.content = items[l].memory.content)
          => k = l
  BY <1>1 DEF ItemsDiffer, Akin
<1>4. ASSUME phase = "done"
      PROVE  Len(decisions) = Len(ranked) /\ walked = Len(ranked) /\ packed = Len(kept)
  <2>1. walked = Len(ranked) /\ packed = Len(kept)
        /\ Len(decisions) + Len(kept) = walked + packed
    BY <1>1, <1>4 DEF DecisionsCounted
  <2>. QED
    BY <1>2, <2>1
<1>5. ASSUME phase = "done", NEW i \in DOMAIN ranked
      PROVE  \E d \in DOMAIN decisions :
               /\ decisions[d].memory = ranked[i]
               /\ decisions[d].included <=> \E k \in DOMAIN items : items[k].memory = ranked[i]
  <2>1. i \in 1 .. walked
    BY <1>2, <1>4, <1>5
  <2>2. CASE \E k \in DOMAIN kept : kept[k] = ranked[i]
    <3>1. PICK k \in 1 .. packed : kept[k] = ranked[i]
      BY <1>2, <1>4, <1>5, <2>2
    <3>2. PICK d \in DOMAIN decisions :
            decisions[d].memory = kept[k] /\ (decisions[d].included <=> InBlock(kept[k]))
      BY <1>1, <3>1 DEF Decisive
    <3>. QED
      BY <3>1, <3>2 DEF InBlock
  <2>3. CASE /\ \E d \in DOMAIN decisions :
                  decisions[d].memory = ranked[i] /\ ~ decisions[d].included
             /\ DuplicateOf(ranked[i])
    <3>1. ASSUME NEW k \in DOMAIN items PROVE items[k].memory # ranked[i]
      <4>1. PICK m \in DOMAIN kept : items[k].memory = kept[m]
        BY <1>1, <1>2, <1>4, <1>5 DEF ItemsDiffer
      <4>2. PICK l \in DOMAIN kept : kept[l] # ranked[i] /\ Akin(kept[l], ranked[i])
        BY <2>3 DEF DuplicateOf
      <4>3. kept[m] = ranked[i] => m = l
        BY <1>1, <4>2 DEF KeptDiffer
      <4>. QED
        BY <4>1, <4>2, <4>3
    <3>. QED
      BY <2>3, <3>1
  <2>. QED
    BY <1>1, <2>1, <2>2, <2>3 DEF Decisive
<1>6. ASSUME NEW d \in DOMAIN decisions, ~ decisions[d].included
      PROVE  LET r == decisions[d].memory
             IN  \/ \E i \in DOMAIN kept : kept[i] # r /\ (kept[i].key = r.key \/ kept[i].content = r.content)
                 \/ \E i \in DOMAIN kept : kept[i] = r /\ i > limits.topK
                 \/ ~ Fits(r)
  BY <1>1, <1>6 DEF Decisive, Justified, DuplicateOf, Akin
<1>. QED
  BY <1>3, <1>4, <1>5, <1>6 DEF BlockAccounted

(* However long the ranked list, and whatever the sizes and the limits: no *)
(* two lines of a block state the same, and every memory of the list is in *)
(* the block or left out for a reason that holds of the finished block.    *)
THEOREM NothingLeftOutSilently ==
  ASSUME NEW M, Memory(M)
  PROVE  ComposeSpec(M) => [](RankedDiffer => BlockAccounted)
<1>1. ComposeInit => AccountInv(M)
  BY AccountInitial
<1>2. AccountInv(M) /\ [ComposeNext(M)]_composeVars => AccountInv(M)'
  BY AccountStep
<1>3. AccountInv(M) => (RankedDiffer => BlockAccounted)
  BY AccountedFor
<1>. QED
  BY <1>1, <1>2, <1>3, PTL DEF ComposeSpec
=============================================================================
