----------------------------- MODULE Parameters -----------------------------
(***************************************************************************)
(* What becomes of the parameters of one execution request:                *)
(* envvar.ResolveParams, validator.Validate and BuildCommandArgs, in the   *)
(* order in which the executor's ExecuteCommand calls them.                *)
(*                                                                         *)
(* Parameters are numbered in the order of the schema.  A value is its     *)
(* JSON kind, how %v prints it, and a size: of a number its value, of a    *)
(* string its length in bytes.  The command string is a sequence of        *)
(* tokens, a token a sequence of pieces: 0 is fixed text, p is the         *)
(* placeholder of parameter p, or of a name that is no parameter's.        *)
(***************************************************************************)
EXTENDS Integers, Sequences

CONSTANTS
  Definition,  \* the definitions that a schema is made of
  Count,       \* the number of parameters in it
  Value,       \* the values that a user may send
  Answer,      \* what an environment variable may hold: strings
  Template     \* command strings

Param == 1..Count

\* The absence of a value, of a default, of a rule; JSON's null.
None == [kind |-> "none", text |-> "", size |-> 0]
Null == [kind |-> "null", text |-> "<nil>", size |-> 0]

ASSUME CountAssumption == Count \in Nat \ {0}
ASSUME AnswerAssumption == \A v \in Answer : v.kind = "string"
ASSUME SizesAssumption ==
  /\ \A v \in Value \cup Answer : v.size \in Int
  /\ \A d \in Definition : {d.rule.longest, d.rule.least, d.rule.most} \subseteq Int

VARIABLES
  schema,    \* the definition of each parameter
  template,  \* the command string, << >> for the logs mode
  given,     \* what the user sent for each parameter, None if nothing
  extra,     \* the user sent a name that is not in the schema
  at,        \* the parameter that is resolved next
  stage,
  values,    \* the map that is resolved, validated and stored
  args       \* what the container is given to run

vars == <<schema, template, given, extra, at, stage, values, args>>

Init ==
  /\ schema \in [Param -> Definition]
  /\ template \in Template
  /\ given \in [Param -> Value \cup {None, Null}]
  /\ extra \in BOOLEAN
  /\ at = 1 /\ stage = "resolve"
  /\ values = given
  /\ args = << >>

\* Mutant of Mapped: a value that the user sent does not count.
Mapped_Always(p) == schema[p].mapped

\* The parameter is read from a container: it is mapped, and the user sent
\* nothing for it, not even null.
Mapped(p) == schema[p].mapped /\ given[p] = None

\* What is found of a variable in a container; None if the container cannot be
\* inspected or does not have it.
InspectContainerEnv == Answer \cup {None}

\* The body of the loop of ResolveParams: without the variable the request
\* fails, whether or not there is a default.
ResolveParam ==
  /\ stage = "resolve" /\ at <= Count
  /\ IF Mapped(at)
     THEN \E v \in InspectContainerEnv :
            \/ v = None /\ stage' = "unresolved" /\ UNCHANGED values
            \/ v # None /\ values' = [values EXCEPT ![at] = v] /\ UNCHANGED stage
     ELSE UNCHANGED <<values, stage>>
  /\ at' = at + 1
  /\ UNCHANGED <<schema, template, given, extra, args>>

-----------------------------------------------------------------------------
(* The validator; each operator gives the codes of the errors it adds. *)

Error(code, wrong) == IF wrong THEN {code} ELSE {}

\* validateStringConstraints: the pattern, "" or one that does not compile or
\* a set of texts, and the length.
StringErrors(rule, v) ==
  IF rule.broken THEN {"validation_failed"}
  ELSE Error("validation_failed", v.text \notin rule.pattern \/ v.size > rule.longest)

\* Mutant of NumberErrors: the bounds are not allowed themselves.
NumberErrors_Strict(rule, v) ==
  Error("validation_failed", v.size <= rule.least \/ v.size >= rule.most)

\* validateNumberConstraints.
NumberErrors(rule, v) ==
  Error("validation_failed", v.size < rule.least \/ v.size > rule.most)

\* validateEnumConstraints: without a list everything is allowed.
EnumErrors(rule, v) ==
  Error("validation_failed", rule.enum # {} /\ v.text \notin rule.enum)

\* validateType.
TypeErrors(d, v) ==
  CASE d.type = "string"  /\ v.kind = "string"  -> StringErrors(d.rule, v)
    [] d.type = "number"  /\ v.kind = "number"  -> NumberErrors(d.rule, v)
    [] d.type = "boolean" /\ v.kind = "boolean" -> {}
    [] d.type = "enum"    /\ v.kind = "string"  -> EnumErrors(d.rule, v)
    [] OTHER -> {"invalid_type"}

\* Validate, what it does with one definition.
ParamErrors(p) ==
  IF values[p] \in {None, Null}
  THEN Error("required", schema[p].required /\ schema[p].default = None)
  ELSE TypeErrors(schema[p], values[p])

\* Validate.
Errors ==
  Error("unknown_parameter", extra) \cup UNION {ParamErrors(p) : p \in Param}

Validate ==
  /\ stage = "resolve" /\ at > Count
  /\ stage' = IF Errors = {} THEN "valid" ELSE "invalid"
  /\ UNCHANGED <<schema, template, given, extra, at, values, args>>

-----------------------------------------------------------------------------
\* What replaces a placeholder: a value in the map, null being printed like any
\* other, then the default; without either it is left as it is.
Filled(p) ==
  CASE p \in Param /\ values[p] # None -> values[p].text
    [] p \in Param /\ values[p] = None /\ schema[p].default # None -> schema[p].default.text
    [] OTHER -> "{{}}"

Piece(p) == IF p = 0 THEN "fixed" ELSE Filled(p)

\* BuildCommandArgs: each token of the command string becomes one argument,
\* whatever a value contains.  The logs mode has no arguments.
BuildCommandArgs ==
  /\ stage = "valid"
  /\ args' = [i \in DOMAIN template |-> [j \in DOMAIN template[i] |-> Piece(template[i][j])]]
  /\ stage' = "built"
  /\ UNCHANGED <<schema, template, given, extra, at, values>>

Next == ResolveParam \/ Validate \/ BuildCommandArgs

Spec == Init /\ [][Next]_vars

=============================================================================
