---------------------------- MODULE MCParameters ----------------------------
(* The instance of Parameters that TLC checks. *)
EXTENDS ParametersProperties

Str(t, n) == [kind |-> "string", text |-> t, size |-> n]
Num(t, n) == [kind |-> "number", text |-> t, size |-> n]
True == [kind |-> "boolean", text |-> "true", size |-> 0]

Texts == {"a", "b c"}
NoRule == [broken |-> FALSE, pattern |-> Texts, longest |-> 9, least |-> -9, most |-> 9, enum |-> {}]

\* Numbers on and beyond the bounds of 1..2, strings on and beyond a length of
\* one, one of them of two words.
Values == {Str("a", 1), Str("b c", 3), Num("1", 1), Num("2", 2), Num("3", 3), True}
Answers == {Str("a", 1), Str("b c", 3)}
NoDefinition ==
  [type |-> "string", required |-> FALSE, default |-> None, mapped |-> FALSE, rule |-> NoRule]

Definitions ==
  LET types == {[NoDefinition EXCEPT !.type = t] : t \in {"string", "number", "boolean", "enum", "date"}}
      rules == {[NoDefinition EXCEPT !.rule.longest = 1], [NoDefinition EXCEPT !.rule.broken = TRUE],
                [NoDefinition EXCEPT !.rule.pattern = {"b c"}],
                [NoDefinition EXCEPT !.type = "number", !.rule.least = 1, !.rule.most = 2],
                [NoDefinition EXCEPT !.type = "enum", !.rule.enum = {"a"}]}
  IN {[[[d EXCEPT !.required = r] EXCEPT !.mapped = m] EXCEPT !.default = v] :
        d \in types \cup rules, r \in BOOLEAN, m \in BOOLEAN, v \in {None, Str("b c", 3)}}

\* A token that is a placeholder, one that has fixed text around two, and one
\* of an unknown name; the empty one is that of the logs mode.
Templates == {<< >>, << <<0>>, <<1>>, <<2, 0, 1>>, <<3>> >>}

=============================================================================
