------------------------------- MODULE MCSkip --------------------------------
(* Rests of a few tokens, with the statements that follow them. *)
EXTENDS SkipWalk, SequencesExt

CONSTANT MaxTokens

MCStatements ==
  {s \in {Append(b, ";") : b \in BoundedSeq({"(", ")", "[", "]", ";", "x"}, MaxTokens - 1)} :
     Ends(s) = {Len(s)} /\ WellTyped(s)}

\* Nothing follows, or another statement.
MCRests == {s \o behind : s \in MCStatements, behind \in {<<>>, <<"x", ";">>}}
=============================================================================
