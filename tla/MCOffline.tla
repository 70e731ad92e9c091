----------------------------- MODULE MCOffline ------------------------------
(* Small instances of Offline for TLC. *)
EXTENDS Offline

(* Lines of one and of two tokens *)
MCSize == [c1 |-> 1, c2 |-> 1, c3 |-> 2]

(* Three detectors, two of them of one category *)
MCDetectors ==
  {[category |-> "api_key", confidence |-> 97], [category |-> "api_key", confidence |-> 75],
   [category |-> "password", confidence |-> 80]}

(* A tool, a fact's name and their notes; with each word that a pattern    *)
(* strips; with a dot, with a digit, and the words of a fixed key.         *)
MCPhrases ==
  {<<"editor">>, <<"editor", ".">>, <<"my", "editor">>, <<"dog">>, <<"my", "dog">>,
   <<"about", "dog">>, <<"that", "dog">>, <<"R2">>, <<"project">>}
=============================================================================
