------------------------------- MODULE Corpus --------------------------------
(***************************************************************************)
(* The transitions of the corpus as their builders declare them: the two   *)
(* schemas, the mutations, whether every path is retained, and the paths   *)
(* whose values change.  The rows themselves are abstracted.               *)
(***************************************************************************)
EXTENDS Diff

Transition(from, to, mutations, paths_retained, value_changes) ==
    [from |-> from, to |-> to, mutations |-> mutations,
     paths_retained |-> paths_retained, value_changes |-> value_changes]

(* Column declarations. *)
Col(name, type) == Field(name, type, TRUE, NoId)
Req(name, type) == Field(name, type, FALSE, NoId)
Tagged(name, type, id) == Field(name, type, TRUE, id)

ID == Req("id", "int64")
ID_1 == Field("id", "int64", FALSE, 1)
NAME == Col("name", "string")

T(scalar) == [kind |-> scalar, inner |-> [r \in {} |-> <<>>]]

Flat(columns) == [g \in {<<>>} |-> columns]
Nested(columns, p, members) == [g \in {<<>>, p} |-> IF g = p THEN members ELSE columns]

(* The same columns in both versions: only the rows differ. *)
SameSchema(columns, value_changes) == Transition(Flat(columns), Flat(columns), {}, TRUE, value_changes)

(***************************************************************************)
(* columns.py                                                              *)
(***************************************************************************)
Added(column) ==
    Transition(Flat(<<ID, NAME>>), Flat(<<ID, NAME, column>>),
               {add_field(<<column.name>>, T(column.kind), column.null)}, TRUE, {})

Removed(column) ==
    Transition(Flat(<<ID, NAME, column>>), Flat(<<ID, NAME>>),
               {remove_field(<<column.name>>, T(column.kind), column.null)}, FALSE, {})

add_nullable_string_column == {Added(Col("customer_segment", "string"))}
add_nullable_int64_column == {Added(Col("loyalty_points", "int64"))}
add_required_column == {Added(Req("country_code", "string"))}

(* Three versions: the new column is all null, then it is filled. *)
add_all_null_column ==
    {Added(Col("referrer", "string")), SameSchema(<<ID, NAME, Col("referrer", "string")>>, {<<"referrer">>})}

remove_nullable_column == {Removed(Col("middle_name", "string"))}
remove_required_column == {Removed(Req("country_code", "string"))}

(***************************************************************************)
(* numeric.py                                                              *)
(***************************************************************************)
Retyped(name, old, new, value_changes) ==
    {Transition(Flat(<<ID, Col(name, old)>>), Flat(<<ID, Col(name, new)>>),
                {change_type(<<name>>, T(old), T(new))}, TRUE, value_changes)}

widen_int32_to_int64 == Retyped("quantity", "int32", "int64", {})
widen_int16_to_int32 == Retyped("quantity", "int16", "int32", {})
uint32_to_int64 == Retyped("quantity", "uint32", "int64", {})
int64_to_float64 == Retyped("measurement", "int64", "double", {<<"measurement">>})
float64_to_int64_integral == Retyped("amount", "double", "int64", {})
float64_to_int64_fractional == Retyped("amount", "double", "int64", {<<"amount">>})
float32_to_float64 == Retyped("reading", "float", "double", {})
decimal_precision_increase == Retyped("price", "decimal128(9, 2)", "decimal128(18, 2)", {})
decimal_scale_increase == Retyped("price", "decimal128(9, 2)", "decimal128(9, 4)", {})
int32_to_decimal == Retyped("quantity", "int32", "decimal128(12, 2)", {})

(***************************************************************************)
(* nullability.py                                                          *)
(***************************************************************************)
Nullability(old) ==
    {Transition(Flat(<<ID, Field("sku", "string", old, NoId)>>), Flat(<<ID, Field("sku", "string", ~old, NoId)>>),
                {change_nullability(<<"sku">>, old, ~old)}, TRUE, {})}

nullable_column_backfilled == {SameSchema(<<ID, Col("email", "string")>>, {<<"email">>})}
required_to_nullable == Nullability(FALSE)
nullable_to_required == Nullability(TRUE)
column_becomes_all_null == {SameSchema(<<ID, Col("discount", "double")>>, {<<"discount">>})}
null_type_to_string == Retyped("comment", "null", "string", {<<"comment">>})

(***************************************************************************)
(* representation.py.  "dictionary" is the type of int8 indices into       *)
(* strings; the values of a dictionary are not part of the type.           *)
(***************************************************************************)
string_to_large_string == Retyped("label", "string", "large_string", {})
string_to_dictionary == Retyped("status", "string", "dictionary", {})
dictionary_reencoded == {SameSchema(<<ID, Col("status", "dictionary")>>, {})}
string_to_binary == Retyped("payload", "string", "binary", {<<"payload">>})

(***************************************************************************)
(* structural.py                                                           *)
(***************************************************************************)
reorder_columns ==
    LET old == <<ID, Col("region", "string"), Col("amount", "int64"), Col("active", "bool")>>
        new == <<old[3], old[1], old[4], old[2]>>
    IN  {Transition(Flat(old), Flat(new), {reorder_fields(<<>>, NamesOf(old), NamesOf(new))}, TRUE, {})}

rename_column_with_field_id ==
    LET version(name) == Flat(<<ID_1, Tagged(name, "string", 2), Tagged("email", "string", 3)>>)
    IN  {Transition(version("full_name"), version("display_name"),
                    {rename_field(<<"full_name">>, <<"display_name">>, 2)}, FALSE, {})}

ADDRESS_2 == <<Col("street", "string"), Col("city", "string")>>
ADDRESS_3 == Append(ADDRESS_2, Col("postcode", "string"))
Address(members) == Nested(<<ID, Col("address", "struct")>>, <<"address">>, members)

add_nested_field ==
    {Transition(Address(ADDRESS_2), Address(ADDRESS_3),
                {add_field(<<"address", "postcode">>, T("string"), TRUE)}, TRUE, {})}

remove_nested_field ==
    {Transition(Address(ADDRESS_3), Address(ADDRESS_2),
                {remove_field(<<"address", "postcode">>, T("string"), TRUE)}, FALSE, {})}

nested_field_type_change ==
    LET version(type) ==
            Nested(<<ID, Col("position", "struct")>>, <<"position">>, <<Req("lat", type), Req("lon", type)>>)
    IN  {Transition(version("float"), version("double"),
                    {change_type(<<"position", name>>, T("float"), T("double")) : name \in {"lat", "lon"}}, TRUE, {})}

reorder_nested_fields ==
    LET reordered == <<ADDRESS_3[3], ADDRESS_3[1], ADDRESS_3[2]>>
    IN  {Transition(Address(ADDRESS_3), Address(reordered),
                    {reorder_fields(<<"address">>, NamesOf(ADDRESS_3), NamesOf(reordered))}, TRUE, {})}

drop_then_readd_column ==
    LET version(score) == Flat(<<ID_1, Tagged("name", "string", 2), score>>)
    IN  {Transition(version(Tagged("score", "int32", 3)), version(Tagged("score", "string", 4)),
                    {remove_field(<<"score">>, T("int32"), TRUE), add_field(<<"score">>, T("string"), TRUE)},
                    FALSE, {})}

rename_then_reuse_name ==
    LET version(name) == <<ID_1, Tagged(name, "string", 2), Tagged("amount", "int64", 3)>>
    IN  {Transition(Flat(version("status")), Flat(Append(version("legacy_status"), Tagged("status", "string", 4))),
                    {rename_field(<<"status">>, <<"legacy_status">>, 2), add_field(<<"status">>, T("string"), TRUE)},
                    FALSE, {})}

(* No field ids: not a rename. *)
rename_case_only ==
    {Transition(Flat(<<ID, Col("UserId", "int64")>>), Flat(<<ID, Col("userid", "int64")>>),
                {remove_field(<<"UserId">>, T("int64"), TRUE), add_field(<<"userid">>, T("int64"), TRUE)},
                FALSE, {})}

(***************************************************************************)
(* containers.py                                                           *)
(***************************************************************************)
list_element_widen ==
    LET version(type) == Nested(<<ID, Col("scores", "list")>>, <<"scores">>, <<Col("[]", type)>>)
    IN  {Transition(version("int32"), version("int64"),
                    {change_type(<<"scores", "[]">>, T("int32"), T("int64"))}, TRUE, {})}

LINE_ITEM_2 == <<Col("sku", "string"), Col("qty", "int32")>>
LINE_ITEM_3 == Append(LINE_ITEM_2, Col("discount", "double"))

add_field_in_list_of_struct ==
    LET version(members) ==
            [g \in {<<>>, <<"line_items">>, <<"line_items", "[]">>} |->
                CASE g = <<>> -> <<ID, Col("line_items", "list")>>
                  [] g = <<"line_items">> -> <<Col("[]", "struct")>>
                  [] OTHER -> members]
    IN  {Transition(version(LINE_ITEM_2), version(LINE_ITEM_3),
                    {add_field(<<"line_items", "[]", "discount">>, T("double"), TRUE)}, TRUE, {})}

map_value_widen ==
    LET version(type) ==
            Nested(<<ID, Col("attributes", "map")>>, <<"attributes", "[]">>, <<Req("key", "string"), Col("value", type)>>)
    IN  {Transition(version("int32"), version("int64"),
                    {change_type(<<"attributes", "[]", "value">>, T("int32"), T("int64"))}, TRUE, {})}

rows_appended_without_key == {SameSchema(<<Col("level", "string"), Col("message", "string")>>, {})}

(***************************************************************************)
(* temporal_edge.py                                                        *)
(***************************************************************************)
timestamp_naive_to_utc == Retyped("event_time", "timestamp[us]", "timestamp[us, tz=UTC]", {<<"event_time">>})
timestamp_ns_to_us == Retyped("event_time", "timestamp[ns]", "timestamp[us]", {})
timestamp_ms_to_us == Retyped("event_time", "timestamp[ms]", "timestamp[us]", {})

dates_before_gregorian_cutover ==
    {SameSchema(<<ID, Col("event_date", "date32[day]"), Col("event_time", "timestamp[us]")>>, {})}

empty_then_populated ==
    {SameSchema(<<ID, Col("label", "string"), Col("amount", "double"), Col("observed_at", "timestamp[us, tz=UTC]")>>, {})}

rows_deleted == {SameSchema(<<ID, Col("status", "string"), Col("amount", "int64")>>, {})}

-----------------------------------------------------------------------------
all_scenarios == UNION {
    add_nullable_string_column, add_nullable_int64_column, add_all_null_column, add_required_column,
    remove_nullable_column, remove_required_column,
    widen_int32_to_int64, widen_int16_to_int32, uint32_to_int64, int64_to_float64, float64_to_int64_integral,
    float64_to_int64_fractional, float32_to_float64, decimal_precision_increase, decimal_scale_increase,
    int32_to_decimal,
    nullable_column_backfilled, required_to_nullable, nullable_to_required, column_becomes_all_null,
    null_type_to_string,
    string_to_large_string, string_to_dictionary, dictionary_reencoded, string_to_binary,
    reorder_columns, rename_column_with_field_id, add_nested_field, remove_nested_field,
    nested_field_type_change, reorder_nested_fields, drop_then_readd_column, rename_then_reuse_name,
    rename_case_only,
    list_element_widen, add_field_in_list_of_struct, map_value_widen, rows_appended_without_key,
    timestamp_naive_to_utc, timestamp_ns_to_us, timestamp_ms_to_us, dates_before_gregorian_cutover,
    empty_then_populated, rows_deleted}
=============================================================================
