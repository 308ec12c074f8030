----------------------------- MODULE MCValidator -----------------------------
(* Two rows of a key and a value, in the types of the numeric scenarios and *)
(* of the ones that change a representation, and a log without a key.       *)
EXTENDS Validator

Lossy == {"truncated_toward_zero", "nearest_float64", "utf8_encoded", "interpreted_as_utc"}

Casts ==
    [types \in {<<"double", "int64">>, <<"int64", "double">>, <<"string", "binary">>,
                <<"timestamp[us]", "timestamp[us, tz=UTC]">>} |->
        CASE types[1] = "double" -> "truncated_toward_zero"
          [] types[1] = "int64" -> "nearest_float64"
          [] types[1] = "string" -> "utf8_encoded"
          [] OTHER -> "interpreted_as_utc"]

Written ==
    [type \in Scalars |->
        CASE type = "int64" -> {Null, IntValue(1), IntValue(5)}
          [] type = "double" -> {Null, FloatValue(0), NegativeZero, NaN}
          [] type = "string" -> {Null, Text(1)}
          [] OTHER -> {Null}]

Keyed(field, first, second) ==
    [columns |-> <<Field("id", "int64", FALSE, NoId), field>>,
     rows |-> <<[id |-> IntValue(1)] @@ (field.name :> first), [id |-> IntValue(2)] @@ (field.name :> second)>>,
     identity |-> <<"id">>]

Tagged(field, first, second) ==
    [Keyed(field, first, second) EXCEPT !.columns = <<Field("id", "int64", FALSE, 1), [field EXCEPT !.id = 2]>>]

Integers64 == Keyed(Field("x", "int64", TRUE, NoId), IntValue(5), Null)
Doubles == Keyed(Field("x", "double", TRUE, NoId), FloatValue(3), FloatValue(-3))
Strings == Tagged(Field("x", "string", TRUE, 2), Text(1), Text(2))
Zones == Keyed(Field("x", "timestamp[us]", FALSE, NoId), Instant(1, "naive"), Instant(2, "naive"))
Log ==
    [columns |-> <<Field("x", "double", TRUE, NoId)>>,
     rows |-> <<[x |-> FloatValue(2)], [x |-> FloatValue(2)]>>,
     identity |-> <<>>]

AllStarts == {Integers64, Doubles, Strings, Zones, Log}
=============================================================================
