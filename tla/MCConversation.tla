--------------------------- MODULE MCConversation ---------------------------
(* Small instances of Conversation for TLC. *)
EXTENDS Conversation

(* A build with FTS5, one without, and one without on a file with an index *)
AllBuilds == {<<TRUE, TRUE>>, <<FALSE, FALSE>>, <<TRUE, FALSE>>}

FtsBuild == {<<TRUE, TRUE>>}

LineSizes == [c \in {"c1", "c2"} |-> IF c = "c1" THEN 1 ELSE 2]
=============================================================================
