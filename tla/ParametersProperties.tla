------------------------ MODULE ParametersProperties ------------------------
(* What an execution may be given as arguments. *)
EXTENDS Parameters

\* The texts that a definition allows, by the kind of the value.
Conforms(d, v) ==
  \/ /\ d.type \in {"string", "enum"} /\ v.kind = "string"
     /\ d.type = "string" => ~d.rule.broken /\ v.text \in d.rule.pattern /\ v.size <= d.rule.longest
     /\ d.type = "enum" => v.text \in d.rule.enum \/ d.rule.enum = {}
  \/ d.type = "number" /\ v.kind = "number" /\ v.size \in d.rule.least..d.rule.most
  \/ d.type = "boolean" /\ v.kind = "boolean"

\* The user's word comes first, then the environment, then the default.
FromUser(p) == given[p] # None
FromEnvironment(p) == ~FromUser(p) /\ schema[p].mapped
FromDefault(p) == ~FromUser(p) /\ ~schema[p].mapped /\ schema[p].default # None

\* The text is what the parameter's first source says, and this conforms to
\* the definition, unless it is a default, which nothing validates, or the null
\* of a user, which prints as it is; the placeholder itself stays only of a
\* parameter that is optional and has no source.
Justified(p, text) ==
  /\ FromUser(p) => text = given[p].text /\ (given[p] = Null \/ Conforms(schema[p], given[p]))
  /\ FromEnvironment(p) => \E v \in Answer : v.text = text /\ Conforms(schema[p], v)
  /\ FromDefault(p) => text = schema[p].default.text
  /\ ~(FromUser(p) \/ FromEnvironment(p) \/ FromDefault(p)) =>
       text = "{{}}" /\ ~schema[p].required

\* Each placeholder of a command that is about to run has become what the
\* sources of its parameter justify; those of unknown names stay.
ArgumentsAreTheRightOnes ==
  stage = "built" =>
    \A i \in DOMAIN template : \A j \in DOMAIN template[i] :
      template[i][j] \in Param => Justified(template[i][j], args[i][j])

\* Something that nobody can run a command with.
Wrong(p) ==
  \/ FromUser(p) /\ given[p] # Null /\ ~Conforms(schema[p], given[p])
  \/ given[p] \in {None, Null} /\ schema[p].required /\ schema[p].default = None
     /\ ~FromEnvironment(p)
  \/ FromEnvironment(p) /\ \A v \in Answer : ~Conforms(schema[p], v)

\* The environment did not provide the value of p, nor is that of an earlier
\* parameter missing which it should provide.
FirstMissing(p) ==
  /\ FromEnvironment(p) /\ values[p] = None
  /\ \A q \in 1..(p - 1) : FromEnvironment(q) => values[q] \in Answer

\* A request is turned away for a cause, and is not run with one: a name that
\* is not in the schema, a missing value, one that does not conform, or an
\* environment that does not provide it; this one at the first parameter that
\* it concerns.
RefusedForCause ==
  LET cause == extra \/ \E p \in Param : Wrong(p)
  IN /\ stage = "invalid" =>
          cause \/ \E p \in Param : FromEnvironment(p) /\ ~Conforms(schema[p], values[p])
     /\ stage = "unresolved" => \E p \in Param : p = at - 1 /\ FirstMissing(p)
     /\ stage \in {"valid", "built"} => ~cause

=============================================================================
