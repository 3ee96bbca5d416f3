------------------------------ MODULE MCReading ------------------------------
(* Expressions of up to four operands with every pair of operators, and     *)
(* short texts over alphabets of tokens that have to do with each other.    *)
EXTENDS Reading

MCIdent == {"n", "t", "count", "lower", "integer", "text", "operator"}

MCColumns == [c \in {<<"n">>, <<"t">>, <<"t", "n">>} |->
                IF c = <<"t">> THEN Type("text") ELSE [type |-> "integer", nullable |-> TRUE]]

MCParams == <<Type("integer"), Type("text")>>

Integer == Type("integer")

Texts(alphabet, n) == BoundedSeq(alphabet, n) \ {<<>>}

Operands == {<<"number">>, <<"string">>, <<"true">>, <<"n">>, <<"-", "number">>, <<"not", "true">>,
             <<"(", "number", "||", "t", ")">>, <<"n", "::", "text">>}

Infix == {"or", "and", "=", "like", "||", "+", "-", "*", "%", "^"}

Simple == {<<"number">>, <<"string">>, <<"true">>}

Chains == {a \o <<f>> \o b \o <<g>> \o c : a \in Operands, f \in Infix, g \in Infix,
                                           b, c \in {<<"number">>, <<"n">>, <<"not", "true">>, <<"string">>}}
          \cup {a \o <<f>> \o b \o <<g>> \o <<"number">> \o <<h>> \o <<"number">> :
                  a, b \in {<<"number">>, <<"-", "number">>}, f \in Infix \cup {"between"}, g, h \in Infix}
          \cup {a \o <<"between">> \o b \o <<"and">> \o c \o <<g>> \o d : a, b, c, d \in Simple, g \in Infix}

Branch == {<<"number">>, <<"string">>, <<"sql_null">>, <<"?">>, <<"true">>}

Cases == {<<"case">> \o d \o <<"when">> \o w \o <<"then">> \o t \o e \o <<"end">> :
            d \in Branch \cup {<<>>}, w \in Branch, t \in Branch,
            e \in {<<>>} \cup {<<"else">> \o x : x \in Branch}
                  \cup {<<"when">> \o x \o <<"then">> \o y : x, y \in Branch}}

Windows == {<<"lower", "(">> \o a \o <<")", "over", "(">> \o p \o o \o <<")">> :
              a \in {<<>>, <<"?">>}, p \in {<<>>, <<"partition", "by", "?">>, <<"partition", "by", "?", ",", "?">>},
              o \in {<<>>, <<"order", "by", "?">>, <<"order", "by", "?", "desc", ",", "?">>}}

MCSources == Chains \cup Cases \cup Windows
  \cup Texts({"number", "n", "-", "+", "(", ")"}, 5)
  \cup Texts({"n", ".", "*", "(", ")", "::"}, 5)
  \cup Texts({"number", "[", "]", "array", "text", ","}, 5)
  \cup Texts({"n", "is", "not", "sql_null", "=", "^"}, 4)
  \cup Texts({"n", "in", "(", ")", ",", "?"}, 6)
  \cup Texts({"?", "=", "any", "(", ")", "select", "exists"}, 4)
  \cup Texts({"cast", "(", ")", "as", "?", "text"}, 5)
  \cup {<<"?">> \o <<f, "(">> \o q \o <<")", "=", "?">> : f \in {"=", "in"}, q \in Texts({"select", "?", ","}, 3)}
  \cup {<<"?", "=", "any", "(", "array", "[">> \o q \o <<"]", ")", "or", "?">> : q \in Texts({"select", "?", ","}, 3)}
  \cup {<<"n", "operator">> \o q \o <<"?">> : q \in Texts({"(", ")", "||", "?"}, 4)}
  \cup {<<"count", "(">> \o q : q \in Texts({")", "*", "?", ","}, 4)}
  \cup {<<"case">> \o q : q \in Texts({"when", "then", "else", "end", "?"}, 5)}
=============================================================================
