-------------------------- MODULE SchemaValidation --------------------------
(***************************************************************************)
(* The JSON Schema validator (xtable-schema/src/validation.rs).  A schema  *)
(* is a record that has, of the keywords, the ones it uses, in the form    *)
(* the validator reads.  A oneOf, type or pattern of another form refuses  *)
(* every value, as an empty one does here; any other keyword of another    *)
(* form is ignored, and stands for one that is absent.  Values are those   *)
(* of RecordQuery; a string has its length in len, and patterns are sets   *)
(* of strings.  For the keyword additionalProperties, "closed" stands for  *)
(* false and "additional" for a schema.                                    *)
(*                                                                         *)
(* The outcome is the path to the first failure, or Valid.                 *)
(***************************************************************************)
EXTENDS Naturals, Sequences

LOCAL INSTANCE SequencesExt

CONSTANTS
  Schemas, Values,    \* the schemas and values to validate
  Valid

VARIABLES
  schema, value,
  outcome             \* of validate, or the empty set before it

validation_vars == <<schema, value, outcome>>

Has(s, keyword) == keyword \in DOMAIN s

JsonType(v) == IF v.t = "number" /\ v.whole THEN "integer" ELSE v.t

(* One name or several; an integer is a number.                            *)
TypeAccepts(s, v) ==
  \/ JsonType(v) \in s.type
  \/ JsonType(v) = "integer" /\ "number" \in s.type

PropertyNames(s) == IF Has(s, "properties") THEN DOMAIN s.properties ELSE {}

MissingNames(s, v) ==
  IF Has(s, "required") THEN SelectSeq(s.required, LAMBDA n : n \notin DOMAIN v.fields)
  ELSE <<>>

FirstFailure(outcomes) ==
  IF \A o \in ToSet(outcomes) : o = Valid THEN Valid
  ELSE SelectSeq(outcomes, LAMBDA o : o # Valid)[1]

(* Deviation: required properties are not looked for.                      *)
RequiredSkipped(s, v, path) == Valid

RequiredPresent(s, v, path) ==
  IF MissingNames(s, v) = <<>> THEN Valid ELSE Append(path, MissingNames(s, v)[1])

ValidateString(s, v, path) ==
  IF \/ Has(s, "minLength") /\ v.len < s.minLength
     \/ Has(s, "maxLength") /\ v.len > s.maxLength
     \/ Has(s, "pattern") /\ v.s \notin s.pattern
  THEN path ELSE Valid

ValidateNumber(s, v, path) ==
  IF \/ Has(s, "minimum") /\ v.n < s.minimum
     \/ Has(s, "maximum") /\ v.n > s.maximum
  THEN path ELSE Valid

(* Names are visited in their order.                                       *)
InOrder(names) == SetToSortSeq(names, LAMBDA a, b : a < b)

RECURSIVE ValidateInner(_, _, _)

ValidateEach(s, v, names, path) ==
  FirstFailure([i \in DOMAIN InOrder(names) |->
    ValidateInner(s[InOrder(names)[i]], v.fields[InOrder(names)[i]],
                  Append(path, InOrder(names)[i]))])

(* required, then properties, then the rest of the object.                 *)
ValidateObject(s, v, path) ==
  LET present == PropertyNames(s) \cap DOMAIN v.fields
      others  == DOMAIN v.fields \ PropertyNames(s)
      extra   ==
        CASE others = {} -> Valid
          [] others # {} /\ Has(s, "closed") -> Append(path, InOrder(others)[1])
          [] others # {} /\ Has(s, "additional") ->
               ValidateEach([n \in others |-> s.additional], v, others, path)
          [] OTHER -> Valid
  IN  FirstFailure(<<RequiredPresent(s, v, path),
                     IF present = {} THEN Valid
                     ELSE ValidateEach(s.properties, v, present, path),
                     extra>>)

ValidateArray(s, v, path) ==
  IF \/ Has(s, "minItems") /\ Len(v.elems) < s.minItems
     \/ Has(s, "maxItems") /\ Len(v.elems) > s.maxItems
  THEN path
  ELSE IF ~ Has(s, "items") THEN Valid
  ELSE FirstFailure([i \in DOMAIN v.elems |->
         ValidateInner(s.items, v.elems[i], Append(path, i - 1))])

(* oneOf, type, const, enum, then by the type of the value.                *)
ValidateInner(s, v, path) ==
  CASE /\ Has(s, "oneOf")
       /\ Len(SelectSeq(s.oneOf,
                        LAMBDA sub : ValidateInner(sub, v, path) = Valid)) # 1
                                                         -> path
    [] Has(s, "type") /\ ~ TypeAccepts(s, v)             -> path
    [] Has(s, "const") /\ v # s.const                    -> path
    [] Has(s, "enum") /\ v \notin s.enum                 -> path
    [] OTHER -> CASE v.t = "object" -> ValidateObject(s, v, path)
                  [] v.t = "array"  -> ValidateArray(s, v, path)
                  [] v.t = "string" -> ValidateString(s, v, path)
                  [] v.t = "number" -> ValidateNumber(s, v, path)
                  [] OTHER          -> Valid

Validate(s, v) == ValidateInner(s, v, <<>>)

InitValidation == schema \in Schemas /\ value \in Values /\ outcome = {}

RunValidation ==
  /\ outcome = {}
  /\ outcome' = {Validate(schema, value)}
  /\ UNCHANGED <<schema, value>>

=============================================================================
