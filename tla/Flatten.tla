------------------------------- MODULE Flatten -------------------------------
(***************************************************************************)
(* Nested columns (values.py): how the values of an Arrow array are read,  *)
(* and the per-path values that flatten makes of them for the comparison   *)
(* of two versions.                                                        *)
(*                                                                         *)
(* A type is a leaf, a list, a map (a list of key and value) or a struct.  *)
(* A column is written, rewritten, grown by a member or laid out anew, and *)
(* compared with what it was.                                              *)
(***************************************************************************)
EXTENDS Values, SequencesExt, FiniteSetsExt

CONSTANTS
    Columns,    \* types of the columns there are
    Leaves,     \* values of a leaf, besides null
    MaxItems,   \* bound on the elements of a list or map
    NewMember   \* the name of a member that a struct gains

Leaf == [kind |-> "leaf"]
List(of) == [kind |-> "list", of |-> of]
Struct(members) == [kind |-> "struct", of |-> members]
Map(key, value) == [kind |-> "map", of |-> Struct([n \in {"key", "value"} |-> IF n = "key" THEN key ELSE value])]

Items(seq) == [kind |-> "items", of |-> seq]
Dict(members) == [kind |-> "dict", of |-> members]

VARIABLES
    type,    \* the column's type as it was
    old,     \* its rows as they were
    grown,   \* its type now
    new,     \* its rows now
    array    \* the Arrow array they are stored in

vars == <<type, old, grown, new, array>>

-----------------------------------------------------------------------------
(***************************************************************************)
(* Values of a type                                                        *)
(***************************************************************************)
RECURSIVE ValuesOf(_)
ValuesOf(t) ==
    CASE t.kind = "leaf" -> {Null} \cup Leaves
      [] t.kind = "list" -> {Null} \cup {Items(s) : s \in BoundedSeq(ValuesOf(t.of), MaxItems)}
      [] t.kind = "map" ->
            {Null} \cup {Items(s) : s \in BoundedSeq({d \in ValuesOf(t.of) \ {Null} : ~IsNull(d.of["key"])}, MaxItems)}
      [] t.kind = "struct" ->
            {Null} \cup {Dict(f) : f \in {g \in [DOMAIN t.of -> UNION {ValuesOf(t.of[n]) : n \in DOMAIN t.of}] :
                                            \A n \in DOMAIN t.of : g[n] \in ValuesOf(t.of[n])}}

(* same (values.py), with its cases of dict and list. *)
RECURSIVE sameNested(_, _)
sameNested(a, b) ==
    CASE a.kind = "dict" /\ b.kind = "dict" ->
            DOMAIN a.of = DOMAIN b.of /\ \A n \in DOMAIN a.of : sameNested(a.of[n], b.of[n])
      [] a.kind = "items" /\ b.kind = "items" ->
            Len(a.of) = Len(b.of) /\ \A i \in DOMAIN a.of : sameNested(a.of[i], b.of[i])
      [] OTHER -> same(a, b)

-----------------------------------------------------------------------------
(***************************************************************************)
(* Arrow arrays.  The elements of all lists of an array are one child      *)
(* array, cut by offsets; it may hold more than the lists say: what a      *)
(* slice left out in front, and the slots of lists that are null.  The     *)
(* children of a null struct hold anything.                                *)
(***************************************************************************)
RECURSIVE Junk(_)
Junk(t) ==
    CASE t.kind = "leaf" -> CHOOSE v \in Leaves : TRUE
      [] t.kind = "struct" -> Dict([n \in DOMAIN t.of |-> Junk(t.of[n])])
      [] OTHER -> Items(<<Junk(t.of)>>)

RECURSIVE Stored(_, _, _)
Stored(t, rows, waste) ==
    LET valid == [i \in DOMAIN rows |-> ~IsNull(rows[i])]
        left == IF waste THEN <<Junk(t.of)>> ELSE <<>>
        slots == [i \in DOMAIN rows |-> IF valid[i] THEN rows[i].of ELSE left]
        ends == [i \in 0..Len(rows) |-> FoldLeft(LAMBDA n, s : n + Len(s), Len(left), SubSeq(slots, 1, i))]
        member(n) == [i \in DOMAIN rows |->
                        IF valid[i] THEN rows[i].of[n] ELSE IF waste THEN Junk(t.of[n]) ELSE Null]
    IN  CASE t.kind = "leaf" /\ waste ->
                LET words == SetToSeq(Leaves)
                IN  [kind |-> "dictionary", words |-> words,
                     codes |-> [i \in DOMAIN rows |->
                                  IF valid[i] THEN CHOOSE k \in DOMAIN words : words[k] = rows[i] ELSE 0]]
          [] t.kind = "leaf" /\ ~waste -> [kind |-> "leaf", pylist |-> rows]
          [] t.kind = "struct" ->
                [kind |-> "struct", valid |-> valid,
                 fields |-> [n \in DOMAIN t.of |-> Stored(t.of[n], member(n), waste)]]
          [] OTHER ->
                [kind |-> t.kind, valid |-> valid, offsets |-> ends,
                 values |-> Stored(t.of, left \o FlattenSeq(slots), waste)]

(* Faulty: a null list is an empty one. *)
RECURSIVE _valuesByOffsets(_)
_valuesByOffsets(a) ==
    CASE a.kind = "leaf" -> a.pylist
      [] a.kind = "dictionary" -> [i \in DOMAIN a.codes |-> IF a.codes[i] = 0 THEN Null ELSE a.words[a.codes[i]]]
      [] a.kind = "struct" ->
            LET children == [n \in DOMAIN a.fields |-> _valuesByOffsets(a.fields[n])]
            IN  [i \in DOMAIN a.valid |->
                    IF a.valid[i] THEN Dict([n \in DOMAIN children |-> children[n][i]]) ELSE Null]
      [] OTHER ->
            LET inner == _valuesByOffsets(a.values)
            IN  [i \in DOMAIN a.valid |-> Items(SubSeq(inner, a.offsets[i - 1] + 1, a.offsets[i]))]

(* Every value of an array, in row order. *)
RECURSIVE _values(_)
_values(a) ==
    CASE a.kind = "leaf" -> a.pylist
      [] a.kind = "dictionary" -> [i \in DOMAIN a.codes |-> IF a.codes[i] = 0 THEN Null ELSE a.words[a.codes[i]]]
      [] a.kind = "struct" ->
            LET children == [n \in DOMAIN a.fields |-> _values(a.fields[n])]
            IN  [i \in DOMAIN a.valid |->
                    IF a.valid[i] THEN Dict([n \in DOMAIN children |-> children[n][i]]) ELSE Null]
      [] OTHER ->
            LET inner == _values(a.values)
            IN  [i \in DOMAIN a.valid |->
                    IF a.valid[i] THEN Items(SubSeq(inner, a.offsets[i - 1] + 1, a.offsets[i])) ELSE Null]

-----------------------------------------------------------------------------
(***************************************************************************)
(* flatten                                                                 *)
(***************************************************************************)
Valid == <<"valid">>
Length == <<"length">>
MemberOf(n) == <<"member", n>>

(* Faulty: a struct path has the whole struct. *)
AppliedWhole(f, v) ==
    CASE f = Valid -> v
      [] f = Length -> IntValue(Len(v.of))
      [] OTHER -> v.of[f[2]]

Applied(f, v) ==
    CASE f = Valid -> Boolean(TRUE)
      [] f = Length -> IntValue(Len(v.of))
      [] OTHER -> v.of[f[2]]

(* f of the values some list levels inside v; nulls stay null. *)
RECURSIVE _map(_, _, _)
_map(f, v, depth) ==
    IF IsNull(v) THEN Null
    ELSE IF depth = 0 THEN Applied(f, v)
    ELSE Items([i \in DOMAIN v.of |-> _map(f, v.of[i], depth - 1)])

Merged(functions) ==
    [p \in UNION {DOMAIN f : f \in functions} |-> (CHOOSE f \in functions : p \in DOMAIN f)[p]]

(* Faulty: a struct is its members. *)
StructPathNone(path, rows) == {}

StructPath(path, rows) == {[p \in {path} |-> rows]}

RECURSIVE walk(_, _, _, _)
walk(path, t, values, depth) ==
    LET each(f, d) == [i \in DOMAIN values |-> _map(f, values[i], d)]
        members(at, s, d) == {walk(Append(at, n), s.of[n], each(MemberOf(n), d), d) : n \in DOMAIN s.of}
    IN  CASE t.kind = "struct" ->
                Merged(StructPath(path, each(Valid, depth)) \cup members(path, t, depth))
          [] t.kind = "map" ->
                Merged({[p \in {path} |-> each(Length, depth)]} \cup members(Append(path, "[]"), t.of, depth + 1))
          [] t.kind = "list" ->
                Merged({[p \in {path} |-> each(Length, depth)], walk(Append(path, "[]"), t.of, values, depth + 1)})
          [] OTHER -> [p \in {path} |-> values]

flatten(t, rows) == walk(<<"column">>, t, rows, 0)

-----------------------------------------------------------------------------
(***************************************************************************)
(* Columns as the scenarios write them                                     *)
(***************************************************************************)
(* Faulty: the new member takes the place of the others. *)
GrowAlone(t) == IF t.kind = "struct" THEN {Struct([n \in {NewMember} |-> Leaf])} ELSE {}

(* The types with one more member in one struct. *)
RECURSIVE Grow(_)
Grow(t) ==
    CASE t.kind = "leaf" -> {}
      [] t.kind = "struct" ->
            {Struct([n \in (DOMAIN t.of) \cup {NewMember} |-> IF n = NewMember THEN Leaf ELSE t.of[n]])}
            \cup UNION {{Struct([t.of EXCEPT ![n] = u]) : u \in Grow(t.of[n])} : n \in DOMAIN t.of}
      [] t.kind = "list" -> {List(u) : u \in Grow(t.of)}
      [] t.kind = "map" -> {Map(t.of.of["key"], u) : u \in Grow(t.of.of["value"])}

(* A value in a type grown from its own. *)
RECURSIVE Refilled(_, _, _)
Refilled(t, v, x) ==
    CASE IsNull(v) \/ t.kind = "leaf" -> v
      [] t.kind = "struct" ->
            Dict([n \in DOMAIN t.of |-> IF n \in DOMAIN v.of THEN Refilled(t.of[n], v.of[n], x) ELSE x])
      [] OTHER -> Items([i \in DOMAIN v.of |-> Refilled(t.of, v.of[i], x)])

Init ==
    /\ type \in Columns
    /\ old \in {<<v>> : v \in ValuesOf(type)}
    /\ grown = type
    /\ new = old
    /\ array = Stored(type, old, FALSE)

Rewrite ==
    /\ grown = type /\ new = old
    /\ \E v \in ValuesOf(type) :
          /\ new' = <<v>>
          /\ array' = Stored(type, new', FALSE)
    /\ UNCHANGED <<type, old, grown>>

AddMember ==
    /\ grown = type /\ new = old
    /\ \E t \in Grow(type), x \in {Null} \cup Leaves :
          /\ grown' = t
          /\ new' = <<Refilled(t, old[1], x)>>
          /\ array' = Stored(t, new', FALSE)
    /\ UNCHANGED <<type, old>>

(* A row of a null in front, and another layout. *)
LayOut ==
    /\ Len(new) = 1
    /\ new' = <<Null>> \o new
    /\ array' = Stored(grown, new', TRUE)
    /\ UNCHANGED <<type, old, grown>>

Next == Rewrite \/ AddMember \/ LayOut

Spec == Init /\ [][Next]_vars

-----------------------------------------------------------------------------
(* The fields of a type that flatten has a path for: structs, lists and    *)
(* maps themselves, and what they hold.                                    *)
RECURSIVE FieldCount(_)
FieldCount(t) ==
    CASE t.kind = "leaf" -> 1
      [] t.kind = "struct" -> 1 + MapThenSumSet(LAMBDA n : FieldCount(t.of[n]), DOMAIN t.of)
      [] t.kind = "list" -> 1 + FieldCount(t.of)
      [] t.kind = "map" -> FieldCount(t.of)

(* Rows are of their types, a path of flatten is never there for two       *)
(* fields, and a column that grows keeps its paths.                        *)
TypeOK ==
    /\ type \in Columns
    /\ old[1] \in ValuesOf(type)
    /\ Last(new) \in ValuesOf(grown)
    /\ Cardinality(DOMAIN flatten(type, old)) = FieldCount(type)
    /\ Cardinality(DOMAIN flatten(grown, new)) = FieldCount(grown)
    /\ DOMAIN flatten(type, old) \subseteq DOMAIN flatten(grown, new)

(* However an array is laid out (a child with elements of no list, slots   *)
(* of null lists, members of null structs, a dictionary), _values reads    *)
(* the values that were written.                                           *)
ReadsWhatWasWritten == _values(array) = new

(* Two columns of one type agree at every path of flatten just when their  *)
(* values are the same: common_values_preserved, which looks at paths      *)
(* alone, misses no change of a nested value and invents none.             *)
FlattenLosesNothing ==
    grown = type /\ Len(new) = 1 =>
        LET a == flatten(type, old)
            b == flatten(type, new)
        IN  (\A p \in DOMAIN a : sameNested(a[p][1], b[p][1])) <=> sameNested(old[1], new[1])

(* Every path of the old column has the values it had when a struct gains  *)
(* a member, inside a list or a map too (add_field_in_list_of_struct):     *)
(* paths are compared one by one, not as whole rows.                       *)
NewMembersChangeNothing ==
    grown # type =>
        \A p \in DOMAIN flatten(type, old) :
            sameNested(Last(flatten(grown, new)[p]), flatten(type, old)[p][1])
=============================================================================
