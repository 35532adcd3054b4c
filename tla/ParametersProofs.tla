-------------------------- MODULE ParametersProofs --------------------------
(* What is run, and what is refused, for every schema and every request. *)
EXTENDS ParametersProperties, TLAPS

\* The types of what does not change, and of the resolved values.
RequestInv ==
  /\ schema \in [Param -> Definition]
  /\ given \in [Param -> Value \cup {None, Null}]
  /\ extra \in BOOLEAN
  /\ values \in [Param -> Value \cup Answer \cup {None, Null}]
  /\ at \in Nat \ {0}
  /\ stage \in {"resolve", "unresolved", "valid", "invalid", "built"}

\* A parameter that the loop has passed was read from a container if it is
\* mapped; every other value is the user's.
ResolvedInv ==
  stage # "unresolved" =>
    /\ \A p \in Param : IF Mapped(p) /\ p < at THEN values[p] \in Answer ELSE values[p] = given[p]
    /\ stage # "resolve" => at > Count

\* The loop ended at p, a mapped parameter, after answers for all before it.
Stopped(p) ==
  /\ p \in Param /\ Mapped(p) /\ values[p] = None
  /\ \A q \in Param : q < p /\ Mapped(q) => values[q] \in Answer

\* What the stages say of the validation.
StageInv ==
  /\ stage = "unresolved" => Stopped(at - 1)
  /\ stage = "invalid" => Errors # {}
  /\ stage \in {"valid", "built"} => Errors = {}
  /\ stage = "built" =>
       \A i \in DOMAIN template : \A j \in DOMAIN template[i] : args[i][j] = Piece(template[i][j])

ParametersInv == RequestInv /\ ResolvedInv /\ StageInv

-----------------------------------------------------------------------------
\* A value of a schema's parameter has no error exactly if it is what the
\* definition allows.
LEMMA NoErrorIsConforming ==
  ASSUME NEW d \in Definition, NEW v \in Value \cup Answer
  PROVE  TypeErrors(d, v) = {} <=> Conforms(d, v)
<1>1. v.size \in Int /\ {d.rule.longest, d.rule.least, d.rule.most} \subseteq Int
  BY SizesAssumption
<1>2. \A wrong : Error("validation_failed", wrong) = {} <=> ~wrong
  BY DEF Error
<1>3. CASE d.type = "string" /\ v.kind = "string"
  <2>1. TypeErrors(d, v) = StringErrors(d.rule, v)
    BY <1>3 DEF TypeErrors
  <2>2. StringErrors(d.rule, v) = {}
          <=> ~d.rule.broken /\ v.text \in d.rule.pattern /\ v.size <= d.rule.longest
    BY <1>1 DEF StringErrors, Error
  <2> QED BY <1>3, <2>1, <2>2 DEF Conforms
<1>4. CASE d.type = "number" /\ v.kind = "number"
  <2>1. TypeErrors(d, v) = NumberErrors(d.rule, v)
    BY <1>4 DEF TypeErrors
  <2>2. NumberErrors(d.rule, v) = {} <=> v.size \in d.rule.least..d.rule.most
    BY <1>1 DEF NumberErrors, Error
  <2> QED BY <1>4, <2>1, <2>2 DEF Conforms
<1>5. CASE d.type = "boolean" /\ v.kind = "boolean"
  BY <1>5 DEF TypeErrors, Conforms
<1>6. CASE d.type = "enum" /\ v.kind = "string"
  <2>1. TypeErrors(d, v) = EnumErrors(d.rule, v)
    BY <1>6 DEF TypeErrors
  <2>2. EnumErrors(d.rule, v) = {} <=> v.text \in d.rule.enum \/ d.rule.enum = {}
    BY DEF EnumErrors, Error
  <2> QED BY <1>6, <2>1, <2>2 DEF Conforms
<1>7. CASE ~ \/ d.type = "string" /\ v.kind = "string"
             \/ d.type = "number" /\ v.kind = "number"
             \/ d.type = "boolean" /\ v.kind = "boolean"
             \/ d.type = "enum" /\ v.kind = "string"
  BY <1>7 DEF TypeErrors, Conforms
<1> QED BY <1>3, <1>4, <1>5, <1>6, <1>7

\* A validation without errors found none in any parameter.
LEMMA ErrorsAreThoseOfParameters ==
  Errors = {} <=> ~extra /\ \A p \in Param : ParamErrors(p) = {}
<1>1. Error("unknown_parameter", extra) = {} <=> ~extra
  BY DEF Error
<1> QED BY <1>1 DEF Errors

LEMMA AnswersAreValues ==
  ASSUME NEW v \in Answer  PROVE v # None /\ v # Null
<1>1. v.kind = "string" /\ None.kind = "none" /\ Null.kind = "null"
  BY AnswerAssumption DEF None, Null
<1> QED BY <1>1

-----------------------------------------------------------------------------
(* The invariant *)

LEMMA ParametersInit == Init => ParametersInv
<1> SUFFICES ASSUME Init PROVE ParametersInv
  OBVIOUS
<1>1. RequestInv
  BY DEF Init, RequestInv
<1>2. ResolvedInv
  <2>1. \A p \in Param : ~(p < at)
    BY CountAssumption DEF Init, Param
  <2> QED BY <2>1 DEF Init, ResolvedInv
<1>3. StageInv
  BY DEF Init, StageInv
<1> QED BY <1>1, <1>2, <1>3 DEF ParametersInv

LEMMA ResolveKeeps == ParametersInv /\ ResolveParam => ParametersInv'
<1> SUFFICES ASSUME ParametersInv, ResolveParam PROVE ParametersInv'
  OBVIOUS
<1> USE DEF ParametersInv
<1>1. /\ at \in Param /\ at' = at + 1 /\ stage = "resolve"
      /\ UNCHANGED <<schema, template, given, extra, args>>
  BY CountAssumption DEF RequestInv, ResolveParam, Param
<1>2. \A p : Mapped(p)' = Mapped(p)
  BY <1>1 DEF Mapped
<1>3. CASE Mapped(at)
  <2>1. PICK v \in InspectContainerEnv :
          \/ v = None /\ stage' = "unresolved" /\ UNCHANGED values
          \/ v # None /\ values' = [values EXCEPT ![at] = v] /\ UNCHANGED stage
    BY <1>3 DEF ResolveParam
  <2>2. CASE v = None /\ stage' = "unresolved" /\ UNCHANGED values
    <3>1. RequestInv' /\ ResolvedInv'
      BY <1>1, <2>2 DEF RequestInv, ResolvedInv
    <3>2. at' - 1 = at
      BY <1>1 DEF RequestInv
    <3>3. values[at] = None
      BY <1>1, <1>3 DEF ResolvedInv, Mapped, Param
    <3>4. \A q \in Param : q < at /\ Mapped(q) => values[q] \in Answer
      BY <1>1 DEF ResolvedInv
    <3>5. Stopped(at - 1)'
      BY <1>1, <1>2, <1>3, <2>2, <3>2, <3>3, <3>4 DEF Stopped, Param
    <3> QED BY <2>2, <3>1, <3>5 DEF ParametersInv, StageInv
  <2>3. CASE v # None /\ values' = [values EXCEPT ![at] = v] /\ UNCHANGED stage
    <3>1. v \in Answer
      BY <2>3 DEF InspectContainerEnv
    <3>2. RequestInv'
      BY <1>1, <2>3, <3>1 DEF RequestInv
    <3>3. ResolvedInv'
      <4>1. \A p \in Param : p < at + 1 <=> p < at \/ p = at
        BY <1>1 DEF Param
      <4> QED BY <1>1, <1>2, <1>3, <2>3, <3>1, <4>1 DEF RequestInv, ResolvedInv
    <3> QED BY <1>1, <2>3, <3>2, <3>3 DEF StageInv
  <2> QED BY <2>1, <2>2, <2>3
<1>4. CASE ~Mapped(at)
  <2>1. UNCHANGED <<values, stage>>
    BY <1>4 DEF ResolveParam
  <2>2. RequestInv'
    BY <1>1, <2>1 DEF RequestInv
  <2>3. ResolvedInv'
    <3>1. \A p \in Param : p < at + 1 <=> p < at \/ p = at
      BY <1>1 DEF Param
    <3> QED BY <1>1, <1>2, <1>4, <2>1, <3>1 DEF ResolvedInv
  <2> QED BY <1>1, <2>1, <2>2, <2>3 DEF StageInv
<1> QED BY <1>3, <1>4

\* Errors is about what these steps do not change.
LEMMA ErrorsStay ==
  UNCHANGED <<schema, values, extra>> => UNCHANGED Errors
BY DEF Errors, ParamErrors

LEMMA ValidateKeeps == ParametersInv /\ Validate => ParametersInv'
<1> SUFFICES ASSUME ParametersInv, Validate PROVE ParametersInv'
  OBVIOUS
<1>1. UNCHANGED <<schema, template, given, extra, at, values, args>>
  BY DEF Validate
<1>2. \A p : Mapped(p)' = Mapped(p)
  BY <1>1 DEF Mapped
<1>3. Errors' = Errors
  BY <1>1, ErrorsStay
<1>4. at > Count /\ stage' \in {"valid", "invalid"} /\ stage = "resolve"
  BY DEF Validate
<1>5. stage' = "valid" => Errors = {}
  BY DEF Validate
<1>6. stage' = "invalid" => Errors # {}
  BY DEF Validate
<1>7. RequestInv'
  BY <1>1, <1>4 DEF ParametersInv, RequestInv
<1>8. ResolvedInv'
  BY <1>1, <1>2, <1>4 DEF ParametersInv, ResolvedInv
<1>9. StageInv'
  BY <1>3, <1>4, <1>5, <1>6 DEF StageInv
<1> QED BY <1>7, <1>8, <1>9 DEF ParametersInv

LEMMA BuildKeeps == ParametersInv /\ BuildCommandArgs => ParametersInv'
<1> SUFFICES ASSUME ParametersInv, BuildCommandArgs PROVE ParametersInv'
  OBVIOUS
<1>1. UNCHANGED <<schema, template, given, extra, at, values>>
      /\ stage = "valid" /\ stage' = "built"
  BY DEF BuildCommandArgs
<1>2. (\A p : Mapped(p)' = Mapped(p)) /\ (\A p : Piece(p)' = Piece(p))
  BY <1>1 DEF Mapped, Piece, Filled
<1>3. Errors' = Errors
  BY <1>1, ErrorsStay
<1>4. RequestInv'
  BY <1>1 DEF ParametersInv, RequestInv
<1>5. ResolvedInv'
  BY <1>1, <1>2 DEF ParametersInv, ResolvedInv
<1>6. \A i \in DOMAIN template : \A j \in DOMAIN template[i] : args'[i][j] = Piece(template[i][j])
  BY DEF BuildCommandArgs
<1>7. StageInv'
  BY <1>1, <1>2, <1>3, <1>6 DEF ParametersInv, StageInv
<1> QED BY <1>4, <1>5, <1>7 DEF ParametersInv

LEMMA ParametersStep == ParametersInv /\ [Next]_vars => ParametersInv'
<1> SUFFICES ASSUME ParametersInv, [Next]_vars PROVE ParametersInv'
  OBVIOUS
<1>1. CASE Next
  BY <1>1, ResolveKeeps, ValidateKeeps, BuildKeeps DEF Next
<1>2. CASE UNCHANGED vars
  <2>1. UNCHANGED <<schema, template, given, extra, at, stage, values, args>>
    BY <1>2 DEF vars
  <2>2. Errors' = Errors
    BY <2>1, ErrorsStay
  <2>3. (\A p : Mapped(p)' = Mapped(p)) /\ (\A p : Piece(p)' = Piece(p))
    BY <2>1 DEF Mapped, Piece, Filled
  <2>4. StageInv'
    BY <2>1, <2>2, <2>3 DEF ParametersInv, StageInv, Stopped
  <2> QED BY <2>1, <2>3, <2>4 DEF ParametersInv, RequestInv, ResolvedInv
<1> QED BY <1>1, <1>2

LEMMA ParametersInvariant == Spec => []ParametersInv
BY ParametersInit, ParametersStep, PTL DEF Spec

-----------------------------------------------------------------------------
(* The properties *)

\* In the invariant: what is validated and filled in for a parameter.
LEMMA SourceOfValue ==
  ASSUME ParametersInv, stage \notin {"resolve", "unresolved"}, NEW p \in Param
  PROVE  /\ FromUser(p) => values[p] = given[p] /\ given[p] \in Value \cup {None, Null}
         /\ FromEnvironment(p) => values[p] \in Answer
         /\ ~FromUser(p) /\ ~FromEnvironment(p) => values[p] = None
<1>1. p < at
  BY CountAssumption DEF ParametersInv, RequestInv, ResolvedInv, Param
<1>2. IF Mapped(p) THEN values[p] \in Answer ELSE values[p] = given[p]
  BY <1>1 DEF ParametersInv, RequestInv, ResolvedInv
<1>3. given[p] \in Value \cup {None, Null}
  BY DEF ParametersInv, RequestInv
<1> QED BY <1>2, <1>3 DEF Mapped, FromUser, FromEnvironment

\* ArgumentsAreTheRightOnes: a command that is about to run has at each
\* placeholder what the user, the environment or the default says, and what
\* the definition allows, with the exceptions that the property names.
THEOREM RightArguments == Spec => []ArgumentsAreTheRightOnes
<1>1. ParametersInv => ArgumentsAreTheRightOnes
  <2> SUFFICES ASSUME ParametersInv, stage = "built",
                      NEW i \in DOMAIN template, NEW j \in DOMAIN template[i],
                      template[i][j] \in Param
               PROVE  Justified(template[i][j], args[i][j])
    BY DEF ArgumentsAreTheRightOnes
  <2> DEFINE p == template[i][j]
             text == args[i][j]
  <2>0. p \in Param
    OBVIOUS
  <2> HIDE DEF p
  <2>1. text = Filled(p)
    <3>1. text = Piece(p)
      BY DEF ParametersInv, StageInv, p
    <3>2. p # 0
      BY <2>0, CountAssumption DEF Param
    <3> QED BY <3>1, <3>2 DEF Piece
  <2>2. ParamErrors(p) = {}
    BY <2>0, ErrorsAreThoseOfParameters DEF ParametersInv, StageInv
  <2>3. schema[p] \in Definition
    BY <2>0 DEF ParametersInv, RequestInv
  <2> SUFFICES Justified(p, text)
    BY DEF p
  <2> HIDE DEF text
  <2>4. CASE FromUser(p)
    <3>1. values[p] = given[p] /\ given[p] \in Value \cup {Null} /\ given[p] # None
      BY <2>0, <2>4, SourceOfValue DEF FromUser
    <3>2. text = given[p].text
      BY <2>0, <2>1, <3>1 DEF Filled
    <3>3. given[p] # Null => Conforms(schema[p], given[p])
      BY <2>2, <2>3, <3>1, NoErrorIsConforming DEF ParamErrors
    <3>4. given[p] = Null \/ Conforms(schema[p], given[p])
      BY <3>3
    <3>5. ~FromEnvironment(p) /\ ~FromDefault(p)
      BY <2>4 DEF FromEnvironment, FromDefault
    <3> QED BY <2>4, <3>2, <3>4, <3>5 DEF Justified
  <2>5. CASE FromEnvironment(p)
    <3>1. values[p] \in Answer /\ values[p] # None /\ values[p] # Null
      BY <2>0, <2>5, SourceOfValue, AnswersAreValues
    <3>2. text = values[p].text
      BY <2>0, <2>1, <3>1 DEF Filled
    <3>3. Conforms(schema[p], values[p])
      BY <2>2, <2>3, <3>1, NoErrorIsConforming DEF ParamErrors
    <3>4. ~FromUser(p) /\ ~FromDefault(p)
      BY <2>5 DEF FromEnvironment, FromDefault
    <3>5. \E v \in Answer : v.text = text /\ Conforms(schema[p], v)
      BY <3>1, <3>2, <3>3
    <3> QED BY <2>5, <3>4, <3>5 DEF Justified
  <2>6. CASE ~FromUser(p) /\ ~FromEnvironment(p)
    <3>1. values[p] = None
      BY <2>0, <2>6, SourceOfValue
    <3>2. FromDefault(p) <=> schema[p].default # None
      BY <2>6 DEF FromDefault, FromUser, FromEnvironment
    <3>3. CASE FromDefault(p)
      <4>1. text = schema[p].default.text
        BY <2>0, <2>1, <3>1, <3>2, <3>3 DEF Filled
      <4> QED BY <2>6, <3>3, <4>1 DEF Justified
    <3>4. CASE ~FromDefault(p)
      <4>1. text = "{{}}"
        BY <2>0, <2>1, <3>1, <3>2, <3>4 DEF Filled
      <4>2. ~schema[p].required
        BY <2>2, <3>1, <3>2, <3>4 DEF ParamErrors, Error
      <4> QED BY <2>6, <3>4, <4>1, <4>2 DEF Justified
    <3> QED BY <3>3, <3>4
  <2> QED BY <2>4, <2>5, <2>6
<1> QED BY <1>1, ParametersInvariant, PTL

\* RefusedForCause: a request is turned away for a cause that it, its schema
\* or the environment gives, and one with such a cause is never run.
THEOREM RefusedWithCause == Spec => []RefusedForCause
<1>1. ParametersInv => RefusedForCause
  <2> SUFFICES ASSUME ParametersInv PROVE RefusedForCause
    OBVIOUS
  <2>1. stage = "unresolved" => \E p \in Param : p = at - 1 /\ FirstMissing(p)
    <3> SUFFICES ASSUME Stopped(at - 1) PROVE FirstMissing(at - 1) /\ at - 1 \in Param
      BY DEF ParametersInv, StageInv
    <3>1. \A q \in 1..(at - 2) : q \in Param /\ q < at - 1
      BY CountAssumption DEF Stopped, Param, ParametersInv, RequestInv
    <3>2. at - 1 - 1 = at - 2
      BY DEF ParametersInv, RequestInv
    <3>3. \A q : FromEnvironment(q) <=> Mapped(q)
      BY DEF Mapped, FromEnvironment, FromUser
    <3> QED BY <3>1, <3>2, <3>3 DEF Stopped, FirstMissing
  <2>2. ASSUME stage \in {"valid", "built", "invalid"}, NEW p \in Param
        PROVE  /\ Wrong(p) => ParamErrors(p) # {}
               /\ ParamErrors(p) # {} =>
                    Wrong(p) \/ (FromEnvironment(p) /\ ~Conforms(schema[p], values[p]))
    <3>1. schema[p] \in Definition
      BY DEF ParametersInv, RequestInv
    <3>2. CASE FromUser(p)
      <4>1. values[p] = given[p] /\ given[p] \in Value \cup {Null} /\ given[p] # None
        BY <2>2, <3>2, SourceOfValue DEF FromUser
      <4>2. ~FromEnvironment(p)
        BY <3>2 DEF FromEnvironment
      <4>3. CASE given[p] = Null
        <5>1. ParamErrors(p) # {} <=> schema[p].required /\ schema[p].default = None
          BY <4>1, <4>3 DEF ParamErrors, Error
        <5> QED BY <3>2, <4>1, <4>2, <4>3, <5>1 DEF Wrong
      <4>4. CASE given[p] # Null
        <5>1. ParamErrors(p) = {} <=> Conforms(schema[p], given[p])
          BY <3>1, <4>1, <4>4, NoErrorIsConforming DEF ParamErrors
        <5> QED BY <3>2, <4>1, <4>2, <4>4, <5>1 DEF Wrong
      <4> QED BY <4>3, <4>4
    <3>3. CASE FromEnvironment(p)
      <4>1. values[p] \in Answer /\ values[p] # None /\ values[p] # Null
        BY <2>2, <3>3, SourceOfValue, AnswersAreValues
      <4>2. ParamErrors(p) = {} <=> Conforms(schema[p], values[p])
        BY <3>1, <4>1, NoErrorIsConforming DEF ParamErrors
      <4>3. ~FromUser(p) /\ given[p] = None
        BY <3>3 DEF FromEnvironment, FromUser
      <4> QED BY <3>3, <4>1, <4>2, <4>3 DEF Wrong
    <3>4. CASE ~FromUser(p) /\ ~FromEnvironment(p)
      <4>1. values[p] = None /\ given[p] = None
        BY <2>2, <3>4, SourceOfValue DEF FromUser
      <4>2. ParamErrors(p) # {} <=> schema[p].required /\ schema[p].default = None
        BY <4>1 DEF ParamErrors, Error
      <4> QED BY <3>4, <4>1, <4>2 DEF Wrong
    <3> QED BY <3>2, <3>3, <3>4
  <2>3. stage = "invalid" => extra \/ \E p \in Param : ParamErrors(p) # {}
    BY ErrorsAreThoseOfParameters DEF ParametersInv, StageInv
  <2>4. stage \in {"valid", "built"} => ~extra /\ \A p \in Param : ParamErrors(p) = {}
    BY ErrorsAreThoseOfParameters DEF ParametersInv, StageInv
  <2> QED BY <2>1, <2>2, <2>3, <2>4 DEF RefusedForCause
<1> QED BY <1>1, ParametersInvariant, PTL

=============================================================================
