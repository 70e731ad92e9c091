------------------------------- MODULE Ledger ------------------------------
(***************************************************************************)
(* What the vault promises the rest of Aira, without rows, audit or SQL.   *)
(* An owner's ledger holds entries; an entry is recallable until it is     *)
(* withdrawn (superseded, archived, expired or forgotten), and never       *)
(* again: only erasing it and admitting it anew brings its id back.  At    *)
(* every moment keyword search sees exactly the current content of the     *)
(* recallable entries.                                                     *)
(***************************************************************************)
CONSTANTS Owners, Ids, Contents

VARIABLES
  book,         \* the entries
  searchable    \* the <<id, content>> pairs that keyword search sees

Entry == [id: Ids, owner: Owners, content: Contents, recallable: BOOLEAN]

Recallable(entries) == {<<e.id, e.content>> : e \in {x \in entries : x.recallable}}

Commit(entries) ==
  /\ book' = entries
  /\ searchable' = Recallable(entries)

Init == book = {} /\ searchable = {}

(* New entries of one owner: a memory remembered, or a file imported. *)
Admit(owner) ==
  LET new == book' \ book
  IN  /\ book \subseteq book' /\ new # {} /\ new \subseteq Entry
      /\ \A e \in new : e.owner = owner /\ \A x \in book : x.id # e.id
      /\ \A e, x \in new : e.id = x.id => e = x
      /\ searchable' = Recallable(book')

(* Only a recallable entry can be edited. *)
Revise(owner) ==
  \E e \in book, content \in Contents :
    /\ e.owner = owner /\ e.recallable
    /\ Commit((book \ {e}) \cup {[e EXCEPT !.content = content]})

Withdrawn(e) == [e EXCEPT !.recallable = FALSE]

Withdraw(owner) ==
  \E e \in book :
    /\ e.owner = owner /\ e.recallable
    /\ Commit((book \ {e}) \cup {Withdrawn(e)})

(* A correction: the old entry goes and the new one comes in one step. *)
Replace(owner) ==
  \E e \in book, id \in Ids, content \in Contents :
    /\ e.owner = owner /\ e.recallable
    /\ \A x \in book : x.id # id
    /\ Commit((book \ {e}) \cup
         {Withdrawn(e),
          [id |-> id, owner |-> owner, content |-> content, recallable |-> TRUE]})

Erase(owner) ==
  \E e \in book : e.owner = owner /\ Commit(book \ {e})

Next ==
  \E owner \in Owners :
    \/ Admit(owner)
    \/ Revise(owner)
    \/ Withdraw(owner)
    \/ Replace(owner)
    \/ Erase(owner)

Spec == Init /\ [][Next]_<<book, searchable>>
=============================================================================
