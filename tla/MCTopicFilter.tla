--------------------------- MODULE MCTopicFilter ---------------------------
(* Instances of TopicFilter for TLC.                                       *)
EXTENDS TopicFilter

(* Two letters tell a level that matches from one that does not.           *)
MCLetters == {"a", "b"}
=============================================================================
