------------------------------ MODULE MCBinders ------------------------------
(* Short sources over alphabets of characters that have to do with each other. *)
EXTENDS Binders

Over(chars, n) == BoundedSeq(chars, n)

\* Named parameters, casts, literals, comments.
NameSources == Over({":", "a", "1", "'", "sp"}, 6) \cup Over({":", "a", "'", "-", "nl"}, 6)

\* Positional parameters, operators, literals, quoted names.
MarkSources == Over({"?", "=", "-", "'", "dq", "sp"}, 5) \cup Over({"?", "/", "*", "'", "nl"}, 6)

\* Dollar strings, numbers, operators, comments.
OtherSources == Over({"$", "a", "1", ":", "'", "sp"}, 5) \cup Over({"1", ".", "e", "+", "_"}, 5)
                  \cup Over({"+", "*", "@", "a", "/"}, 5) \cup Over({"/", "*", "a"}, 9)

MCSources == NameSources \cup MarkSources \cup OtherSources

PostgresSyntax == {"dollar-strings", "named-params"}
=============================================================================
