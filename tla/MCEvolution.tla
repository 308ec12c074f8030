---------------------------- MODULE MCEvolution ------------------------------
(* The corpus, and small schemas like the corpus's own, to start from. *)
EXTENDS Evolution, Corpus

(* int, str and struct<x: int>. *)
TypesFlat == {[kind |-> k, inner |-> [r \in {} |-> <<>>]] : k \in {"int", "str"}}
TypesSmall == {
    [kind |-> "int", inner |-> [r \in {} |-> <<>>]],
    [kind |-> "struct", inner |-> [r \in {<<>>} |-> <<[name |-> "x", kind |-> "int", null |-> TRUE]>>]]}

(* Flat, every column identified: rename_column_with_field_id and others. *)
IdentifiedFlat == [g \in {<<>>} |-> <<Field("a", "int", FALSE, 1), Field("b", "int", TRUE, 2)>>]

(* A struct column, identified throughout. *)
IdentifiedStruct ==
    [g \in {<<>>, <<"s">>} |->
        IF g = <<>> THEN <<Field("a", "int", FALSE, 1), Field("s", "struct", TRUE, 2)>>
        ELSE <<Field("x", "int", TRUE, 3), Field("a", "int", TRUE, 4)>>]

(* No field ids: a list of structs. *)
ListOfStructs ==
    [g \in {<<>>, <<"l">>, <<"l", "[]">>} |->
        CASE g = <<>> -> <<Field("a", "int", FALSE, NoId), Field("l", "list", TRUE, NoId)>>
          [] g = <<"l">> -> <<Field("[]", "struct", TRUE, NoId)>>
          [] OTHER -> <<Field("x", "int", TRUE, NoId), Field("b", "int", TRUE, NoId)>>]

(* The same with field ids on every struct member. *)
IdentifiedList ==
    [g \in {<<>>, <<"l">>, <<"l", "[]">>} |->
        CASE g = <<>> -> <<Field("l", "list", TRUE, 1)>>
          [] g = <<"l">> -> <<Field("[]", "struct", TRUE, NoId)>>
          [] OTHER -> <<Field("x", "int", TRUE, 2), Field("b", "int", TRUE, 3)>>]

(* A map of structs: map_value_widen, one level deeper. *)
MapOfStruct ==
    [g \in {<<>>, <<"m", "[]">>, <<"m", "[]", "value">>} |->
        CASE g = <<>> -> <<Field("m", "map", TRUE, NoId)>>
          [] g = <<"m", "[]">> -> <<Field("key", "int", FALSE, NoId), Field("value", "struct", TRUE, NoId)>>
          [] OTHER -> <<Field("x", "int", TRUE, NoId), Field("y", "int", TRUE, NoId)>>]

(* A version without a next one yet. *)
Begin(schema) == Transition(schema, schema, {}, TRUE, {})

(* The types of the corpus that are not containers. *)
CorpusScalars == {
    "null", "bool", "int16", "int32", "int64", "uint32", "float", "double",
    "decimal128(9, 2)", "decimal128(18, 2)", "decimal128(9, 4)", "decimal128(12, 2)",
    "string", "large_string", "binary", "dictionary",
    "date32[day]", "timestamp[us]", "timestamp[ns]", "timestamp[ms]", "timestamp[us, tz=UTC]"}

MCScalars == CorpusScalars \cup {"int", "str"}

TypesCorpus == {[kind |-> "list", inner |-> [r \in {<<>>} |-> <<[name |-> "[]", kind |-> "int32", null |-> TRUE]>>]]}

(* One more edit of any transition of the corpus. *)
OfTheCorpus ==
    [first |-> all_scenarios, names |-> {"name", "postcode"}, ids |-> 1..5, types |-> TypesCorpus, maxEdits |-> 2]

(* Two edits anywhere in nested types, with and without field ids. *)
OfNested ==
    [first |-> {Begin(s) : s \in {IdentifiedStruct, IdentifiedList, MapOfStruct, ListOfStructs}},
     names |-> {"a", "b"}, ids |-> 1..5, types |-> TypesSmall, maxEdits |-> 2]

(* Three edits of identified columns. *)
OfFlat ==
    [first |-> {Begin(IdentifiedFlat)}, names |-> {"a", "b", "c"}, ids |-> 1..4, types |-> TypesFlat, maxEdits |-> 3]

(* Two edits of a list of identified members. *)
OfList ==
    [first |-> {Begin(IdentifiedList)}, names |-> {"a", "x"}, ids |-> 1..4, types |-> TypesFlat, maxEdits |-> 2]

AllAuthors == {OfTheCorpus, OfNested, OfFlat}
ListAuthors == {OfList}
=============================================================================
