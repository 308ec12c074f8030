------------------------------- MODULE Values -------------------------------
(***************************************************************************)
(* Canonical values (values.py): when two are the same, how one is encoded *)
(* for keys and fingerprints, and the relations a manifest may declare     *)
(* between old and new values (validate.py).                               *)
(*                                                                         *)
(* A value has the kind of its Python object.  n stands for a number in    *)
(* halves, or for a text; form tells apart what equal numbers may differ   *)
(* in (the sign of zero, the scale of a decimal) and the zone of a         *)
(* timestamp.                                                              *)
(***************************************************************************)
EXTENDS Integers

CONSTANT Exact  \* 2^53, scaled down: integers up to it are exact in a float

ASSUME ExactAssumption == Exact \in Nat \ {0}

Value(kind, n, form) == [kind |-> kind, n |-> n, form |-> form]

Null == Value("null", 0, "")
IntValue(k) == Value("int", 2 * k, "")
FloatValue(halves) == Value("float", halves, "")
NegativeZero == Value("float", 0, "negative")
NaN == Value("float", 0, "nan")
Boolean(b) == Value("bool", IF b THEN 2 ELSE 0, "")
Text(k) == Value("str", k, "")
Binary(k) == Value("bytes", k, "")
Instant(ns, tz) == Value("instant", ns, tz)

IsNull(v) == v.kind = "null"

(* What canonical makes of a cell of a flat column: there is one null.     *)
Kinds == {"null", "bool", "int", "float", "decimal", "str", "bytes", "instant"}
Forms == {"", "negative", "nan", "scale 0", "scale 1", "scale 2", "naive", "UTC"}

Canonical == {v \in [kind : Kinds, n : Int, form : Forms] : IsNull(v) => v = Null}

IsNumber(v) == v.kind \in {"int", "float", "decimal"}
IsNaN(v) == v.kind = "float" /\ v.form = "nan"

(* float(k): above Exact only even integers are floats, ties go to the     *)
(* even mantissa; k <= 2 * Exact.                                          *)
Nearest(k) ==
    IF k <= Exact \/ k % 2 = 0 THEN k
    ELSE IF ((k - 1) \div 2) % 2 = 0 THEN k - 1 ELSE k + 1

(* Faulty: numbers are compared as floats. *)
sameAsFloats(a, b) ==
    LET float(v) == IF v.kind = "int" THEN 2 * Nearest(v.n \div 2) ELSE v.n
    IN  IF IsNumber(a) /\ IsNumber(b) THEN IsNaN(a) = IsNaN(b) /\ float(a) = float(b) ELSE a = b

(* Value equality: numbers by exact value whatever their type, timestamps  *)
(* with their zone, everything else within its type.                       *)
same(a, b) ==
    IF IsNumber(a) /\ IsNumber(b)
    THEN IsNaN(a) = IsNaN(b) /\ a.n = b.n
    ELSE a = b

(* A tagged encoding: the type, the digits, the sign of zero, the scale    *)
(* and the zone are all in it, and it is the same for every NaN.           *)
encode(v) == IF IsNull(v) THEN <<>> ELSE <<v.kind, v.n, v.form>>

(***************************************************************************)
(* Conversions of Arrow, as far as a relation speaks of them               *)
(***************************************************************************)

(* math.trunc of a number of halves. *)
Truncated(halves) == IF halves >= 0 THEN halves \div 2 ELSE -((-halves) \div 2)

(***************************************************************************)
(* _check_relation: pairs of old and new values of the aligned rows        *)
(***************************************************************************)
BothNull(a, b) == IsNull(a) /\ IsNull(b)

(* Faulty: a null may have become anything. *)
TruncatesOrFills(a, b) ==
    \/ IsNull(a)
    \/ a.kind = "float" /\ a.form # "nan" /\ b.kind = "int" /\ b.n = 2 * Truncated(a.n)

Truncates(a, b) ==
    \/ BothNull(a, b)
    \/ a.kind = "float" /\ a.form # "nan" /\ b.kind = "int" /\ b.n = 2 * Truncated(a.n)

(* isinstance(a, int) is true of booleans too. *)
RoundsToFloat(a, b) ==
    \/ BothNull(a, b)
    \/ a.kind \in {"int", "bool"} /\ b.kind = "float" /\ b.form # "nan" /\ b.n = 2 * Nearest(a.n \div 2)

Encodes(a, b) ==
    \/ BothNull(a, b)
    \/ a.kind = "str" /\ b = Binary(a.n)

ReadsAsUtc(a, b) ==
    \/ BothNull(a, b)
    \/ a.kind = "instant" /\ a.form = "naive" /\ b = Instant(a.n, "UTC")

Relations ==
    {"nulls_filled", "nulled", "truncated_toward_zero", "nearest_float64",
     "utf8_encoded", "interpreted_as_utc"}

_check_relation(relation, pairs) ==
    CASE relation = "nulls_filled" ->
            /\ \A p \in pairs : IsNull(p[1]) \/ same(p[1], p[2])
            /\ \E p \in pairs : IsNull(p[1]) /\ ~IsNull(p[2])
      [] relation = "nulled" ->
            /\ \A p \in pairs : IsNull(p[2])
            /\ \E p \in pairs : ~IsNull(p[1])
      [] relation = "truncated_toward_zero" -> \A p \in pairs : Truncates(p[1], p[2])
      [] relation = "nearest_float64" -> \A p \in pairs : RoundsToFloat(p[1], p[2])
      [] relation = "utf8_encoded" -> \A p \in pairs : Encodes(p[1], p[2])
      [] relation = "interpreted_as_utc" -> \A p \in pairs : ReadsAsUtc(p[1], p[2])
=============================================================================
