------------------------------ MODULE Notebook ------------------------------
(***************************************************************************)
(* What the user of one assistant may rely on, without ids, statuses or    *)
(* time: for each owner and subject (canonical key) it knows one fact at   *)
(* most.  Learning a fact replaces what was known on that subject and      *)
(* touches no other; a fact is dropped on request or by ageing.            *)
(***************************************************************************)
CONSTANTS Owners, Keys, Contents

VARIABLE facts   \* a set of <<owner, key, content>>

On(owner, key) == {f \in facts : f[1] = owner /\ f[2] = key}

Init == facts = {}

Learn(owner, key, content) ==
  facts' = (facts \ On(owner, key)) \cup {<<owner, key, content>>}

Drop(owner, key) ==
  /\ On(owner, key) # {}
  /\ facts' = facts \ On(owner, key)

Next ==
  \E owner \in Owners, key \in Keys :
    Drop(owner, key) \/ \E content \in Contents : Learn(owner, key, content)

Spec == Init /\ [][Next]_facts
=============================================================================
