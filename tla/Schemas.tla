------------------------------- MODULE Schemas -------------------------------
(***************************************************************************)
(* Arrow schemas as the corpus sees them: ordered fields, each with a name, *)
(* a type, a nullable flag and, optionally, a Parquet field id.            *)
(*                                                                         *)
(* A path is the sequence of segments the code joins into a string:        *)
(* `line_items[].sku` is <<"line_items", "[]", "sku">>.  A schema maps     *)
(* every level (the path in front of some siblings) to the sequence of     *)
(* those siblings.  The top level is <<>>, the children of a struct at p   *)
(* are the level p, the element of a list at p is the one field "[]" of    *)
(* the level p, and the two fields of a map at p are the level p \o <<"[]">>.*)
(***************************************************************************)
EXTENDS Naturals, SequencesExt

CONSTANTS
    Scalars,   \* spellings of the non-container types
    NoId       \* the field_id of a field that carries none

Containers == {"struct", "list", "large_list", "map"}

(* One Arrow field; its children, if any, are a level of the schema. *)
Field(name, kind, null, id) == [name |-> name, kind |-> kind, null |-> null, id |-> id]

(* The level holding the children of field f at path p. *)
LevelOf(f, p) == IF f.kind = "map" THEN Append(p, "[]") ELSE p

PathsIn(s, g) == {Append(g, s[g][i].name) : i \in DOMAIN s[g]}

(* Every path of a schema: the keys of flatten. *)
Paths(s) == UNION {PathsIn(s, g) : g \in DOMAIN s}

FieldAt(s, p) == LET siblings == s[Front(p)]
                 IN  siblings[CHOOSE i \in DOMAIN siblings : siblings[i].name = Last(p)]

(* p names q or something inside q. *)
Under(p, q) == IsPrefix(q, p)
Below(p, q) == IsStrictPrefix(q, p)

Beyond(p, q) == SubSeq(p, Len(q) + 1, Len(p))

(***************************************************************************)
(* What type_string tells apart: the kind, and below it the names, types,  *)
(* nullability and order of the members.  Field ids are not in it, nor the *)
(* name of a list's element, which is "[]" here for every list.            *)
(***************************************************************************)
Member(f) == [name |-> f.name, kind |-> f.kind, null |-> f.null]

Inner(s, p) ==
    LET levels == {g \in DOMAIN s : Under(g, p)}
    IN  [r \in {Beyond(g, p) : g \in levels} |->
            [i \in DOMAIN s[p \o r] |-> Member(s[p \o r][i])]]

TypeOf(s, p) == [kind |-> FieldAt(s, p).kind, inner |-> Inner(s, p)]

(* A whole schema without its field ids. *)
Shape(s) == Inner(s, <<>>)

(* Paths with what stands there, in no order. *)
Outline(s) == {<<p, FieldAt(s, p).kind, FieldAt(s, p).null>> : p \in Paths(s)}

StructLevels(s) == {<<>>} \cup {p \in Paths(s) : FieldAt(s, p).kind = "struct"}

(* What a path of s is made of. *)
Segments(s) == {"[]"} \cup UNION {{s[g][i].name : i \in DOMAIN s[g]} : g \in DOMAIN s}

Fields(names) == [name : names, kind : Scalars \cup Containers, null : BOOLEAN, id : Nat \cup {NoId}]

(***************************************************************************)
(* The schemas the corpus builds: sibling names and sibling field ids are  *)
(* unique, a level exists exactly where a container is, a list has one     *)
(* element and a map a non-null key and a value.  An element's field id is *)
(* never read (_diff_pair is called on elements directly), so it has none. *)
(***************************************************************************)
Siblings(F) ==
    \A i, j \in DOMAIN F : i # j =>
        F[i].name # F[j].name /\ (F[i].id = F[j].id => F[i].id = NoId)

WellFormed(s) ==
    /\ IsFiniteSet(DOMAIN s) /\ DOMAIN s \subseteq Seq(Segments(s))
    /\ \A g \in DOMAIN s : s[g] \in Seq(Fields(Segments(s))) /\ Siblings(s[g])
    /\ DOMAIN s = {<<>>} \cup {LevelOf(FieldAt(s, p), p) :
                                  p \in {q \in Paths(s) : FieldAt(s, q).kind \in Containers}}
    /\ \A p \in Paths(s) :
          LET f == FieldAt(s, p) IN
          /\ f.kind \in {"list", "large_list"} =>
                Len(s[p]) = 1 /\ s[p][1].name = "[]" /\ s[p][1].id = NoId
          /\ f.kind = "map" =>
                /\ [i \in DOMAIN s[Append(p, "[]")] |-> s[Append(p, "[]")][i].name] = <<"key", "value">>
                /\ ~s[Append(p, "[]")][1].null
=============================================================================
