------------------------------ MODULE Evolution ------------------------------
(***************************************************************************)
(* A transition of a corpus scenario as its author writes it: a version,   *)
(* the next one, and the mutations declared for the two.  The author       *)
(* starts from a transition there is, or from a version alone, and edits   *)
(* the next version, in any of the ways the builders of the corpus do.     *)
(*                                                                         *)
(* The diff sees the two schemas and nothing else.  The state keeps how    *)
(* the second was made from the first, so that what the diff says can be   *)
(* compared with what happened.                                            *)
(***************************************************************************)
EXTENDS Diff

(* An author: the transitions to start from, and for the edits the names   *)
(* and field ids a field may take, the types of new and retyped fields (as *)
(* TypeOf gives them), and a bound on their number.                        *)
CONSTANT Authors

(* The levels of a type, its members without field ids, placed at p. *)
Grown(s, p, type) ==
    LET at == {p \o r : r \in DOMAIN type.inner}
        members(r) == [i \in DOMAIN type.inner[r] |->
                          LET m == type.inner[r][i] IN Field(m.name, m.kind, m.null, NoId)]
    IN  [g \in DOMAIN s \cup at |-> IF g \in at THEN members(Beyond(g, p)) ELSE s[g]]

(* A schema of one column of this type. *)
ColumnOf(type) == Grown([g \in {<<>>} |-> <<Field("x", type.kind, TRUE, NoId)>>], <<"x">>, type)

(* A type is what TypeOf says of a field of some schema. *)
IsType(type) == WellFormed(ColumnOf(type)) /\ TypeOf(ColumnOf(type), <<"x">>) = type

ASSUME AuthorsAssumption ==
    \A a \in Authors :
        /\ a.maxEdits \in Nat
        /\ a.ids \subseteq Nat
        /\ \A type \in a.types : IsType(type)
        /\ \A t \in a.first :
              /\ WellFormed(t.from) /\ WellFormed(t.to)
              /\ IsFiniteSet(t.mutations)
              /\ t.from # t.to => a.maxEdits > 0

VARIABLES
    from,      \* schema of the version before
    to,        \* schema of the version being written
    declared,  \* mutations the author declares for from -> to
    edits,     \* edits between from and to; a given transition counts as one
    author     \* who writes the transition

vars == <<from, to, declared, edits, author>>

TypeOK ==
    /\ WellFormed(from)
    /\ WellFormed(to)
    /\ author \in Authors
    /\ edits \in 0..author.maxEdits
    /\ IsFiniteSet(declared)

Init ==
    /\ author \in Authors
    /\ \E t \in author.first :
          /\ from = t.from
          /\ to = t.to
          /\ declared = t.mutations
    /\ edits = IF from = to THEN 0 ELSE 1

(***************************************************************************)
(* Surgery on a schema                                                     *)
(***************************************************************************)
WithLevel(s, g, siblings) == [s EXCEPT ![g] = siblings]

WithField(s, g, i, f) == WithLevel(s, g, [s[g] EXCEPT ![i] = f])

Pruned(s, p) == [g \in {h \in DOMAIN s : ~Under(h, p)} |-> s[g]]

Moved(s, p, q) ==
    LET home(g) == IF Under(g, q) THEN p \o Beyond(g, q) ELSE g
        kept == {g \in DOMAIN s : ~Under(g, p)}
        moved == {q \o Beyond(g, p) : g \in {h \in DOMAIN s : Under(h, p)}}
    IN  [g \in kept \cup moved |-> s[home(g)]]

Swapped(siblings, i, j) ==
    [k \in DOMAIN siblings |->
        IF k = i THEN siblings[j] ELSE IF k = j THEN siblings[i] ELSE siblings[k]]

UnusedNames(g) == author.names \ {to[g][i].name : i \in DOMAIN to[g]}
UnusedIds(g) == author.ids \ {to[g][i].id : i \in DOMAIN to[g]}

(* Field ids as the corpus gives them: the smallest free one, or none. *)
NewIds(g) == {NoId} \cup {n \in UnusedIds(g) : \A k \in UnusedIds(g) : n <= k}

Identified(g) == \A i \in DOMAIN to[g] : to[g][i].id # NoId

(* One edit of the schema, with the mutations it amounts to. *)
Edit(schema, mutations) ==
    /\ edits < author.maxEdits
    /\ to' = schema
    /\ declared' = declared \cup mutations
    /\ edits' = edits + 1
    /\ UNCHANGED <<from, author>>

(***************************************************************************)
(* Edits.  A member of a struct, or a column, sits at position i of level g.*)
(***************************************************************************)
AddField(g, i, name, type, null, id) ==
    LET p == Append(g, name)
    IN  /\ name \in UnusedNames(g)
        /\ id \in NewIds(g)
        /\ Edit(Grown(WithLevel(to, g, InsertAt(to[g], i, Field(name, type.kind, null, id))), p, type),
                {add_field(p, type, null)})

(* Faulty: the members of a removed struct stay behind. *)
RemoveFieldOnly(g, i) ==
    LET p == Append(g, to[g][i].name)
    IN  /\ Len(to[g]) > 1
        /\ Edit(WithLevel(to, g, RemoveAt(to[g], i)), {remove_field(p, TypeOf(to, p), to[g][i].null)})

RemoveField(g, i) ==
    LET p == Append(g, to[g][i].name)
    IN  /\ Len(to[g]) > 1
        /\ Edit(Pruned(WithLevel(to, g, RemoveAt(to[g], i)), p),
                {remove_field(p, TypeOf(to, p), to[g][i].null)})

(* A rename is one only where the field ids are evidence of it. *)
RenameField(g, i, name) ==
    LET f == to[g][i]
        p == Append(g, f.name)
        q == Append(g, name)
    IN  /\ name \in UnusedNames(g)
        /\ Edit(WithField(Moved(to, p, q), g, i, [f EXCEPT !.name = name]),
                IF Identified(g) THEN {rename_field(p, q, f.id)}
                ELSE {remove_field(p, TypeOf(to, p), f.null), add_field(q, TypeOf(to, p), f.null)})

(* Dropped and added again under the same name and in the same place: a    *)
(* different field, which only field ids can tell.                         *)
ReplaceField(g, i, id) ==
    LET f == to[g][i]
        p == Append(g, f.name)
    IN  /\ Identified(g)
        /\ id \in NewIds(g) \ {NoId}
        /\ Edit(WithField(to, g, i, [f EXCEPT !.id = id]),
                {remove_field(p, TypeOf(to, p), f.null), add_field(p, TypeOf(to, p), f.null)})

MoveField(g, i, j) ==
    /\ i < j
    /\ Edit(WithLevel(to, g, Swapped(to[g], i, j)),
            {reorder_fields(g, NamesOf(to[g]), NamesOf(Swapped(to[g], i, j)))})

(* Fields of every level, elements and map members among them, can change  *)
(* their type and nullability.                                             *)
RetypeField(g, i, type) ==
    LET f == to[g][i]
        p == Append(g, f.name)
    IN  /\ type.kind # f.kind
        /\ Edit(Grown(Pruned(WithField(to, g, i, [f EXCEPT !.kind = type.kind]), p), p, type),
                {change_type(p, TypeOf(to, p), type)})

(* list and large_list differ in the width of their offsets only: the      *)
(* members stay, with their field ids.                                     *)
WidenList(g, i) ==
    LET f == to[g][i]
        p == Append(g, f.name)
        wide == [to EXCEPT ![g][i].kind = "large_list"]
    IN  /\ f.kind = "list"
        /\ Edit(wide, {change_type(p, TypeOf(to, p), TypeOf(wide, p))})

IsMapKey(g, i) ==
    /\ g # <<>>
    /\ Front(g) \in Paths(to)
    /\ FieldAt(to, Front(g)).kind = "map"
    /\ Last(g) = "[]"
    /\ i = 1

ChangeNullability(g, i) ==
    LET f == to[g][i]
    IN  /\ ~IsMapKey(g, i)
        /\ Edit(WithField(to, g, i, [f EXCEPT !.null = ~f.null]),
                {change_nullability(Append(g, f.name), f.null, ~f.null)})

Next ==
    \/ \E g \in StructLevels(to) :
        \/ \E i \in 1..(Len(to[g]) + 1), name \in author.names, type \in author.types,
              null \in BOOLEAN, id \in author.ids \cup {NoId} : AddField(g, i, name, type, null, id)
        \/ \E i \in DOMAIN to[g] :
            \/ RemoveField(g, i)
            \/ \E name \in author.names : RenameField(g, i, name)
            \/ \E id \in author.ids : ReplaceField(g, i, id)
            \/ \E j \in DOMAIN to[g] : MoveField(g, i, j)
    \/ \E g \in DOMAIN to : \E i \in DOMAIN to[g] :
        \/ \E type \in author.types : RetypeField(g, i, type)
        \/ WidenList(g, i)
        \/ ChangeNullability(g, i)

Spec == Init /\ [][Next]_vars

-----------------------------------------------------------------------------
(***************************************************************************)
(* Properties                                                              *)
(***************************************************************************)
Observed == diff_schemas(from, to)

(***************************************************************************)
(* A reader of the mutation list, knowing `from` and no other fact about   *)
(* `to`: removed fields go with all they hold, the others move with the    *)
(* renames, retyped ones get the members of their new type, and added ones *)
(* come with theirs.                                                       *)
(***************************************************************************)
MembersAt(p, type) ==
    UNION {{<<Append(p \o r, type.inner[r][i].name), type.inner[r][i].kind, type.inner[r][i].null>> :
                i \in DOMAIN type.inner[r]} : r \in DOMAIN type.inner}

Replay(old, mutations) ==
    LET retyped == OfKind(mutations, "change_type")
        at(kind, p) == {m \in OfKind(mutations, kind) : m.path = p}
        kept == {p \in Paths(old) :
                    /\ ~GoneWith(mutations, p)
                    /\ ~\E m \in retyped : Below(Target(mutations, p), m.path)}
        kindOf(p) == LET q == Target(mutations, p)
                     IN  IF at("change_type", q) = {} THEN FieldAt(old, p).kind
                         ELSE (CHOOSE m \in at("change_type", q) : TRUE).new_type.kind
        nullOf(p) == LET q == Target(mutations, p)
                     IN  IF at("change_nullability", q) = {} THEN FieldAt(old, p).null
                         ELSE (CHOOSE m \in at("change_nullability", q) : TRUE).new_nullable
    IN  {<<Target(mutations, p), kindOf(p), nullOf(p)>> : p \in kept}
            \cup (UNION {MembersAt(m.path, m.new_type) : m \in retyped})
            \cup {<<m.path, m.type.kind, m.nullable>> : m \in OfKind(mutations, "add_field")}
            \cup (UNION {MembersAt(m.path, m.type) : m \in OfKind(mutations, "add_field")})

(* "Every structural difference between `old` and `new`" (diff_schemas):   *)
(* after any edits, the mutations and the old schema determine every field *)
(* of the new one, with its type and nullability.                          *)
MutationsRebuildTheNewSchema ==
    LET seen == Observed IN Replay(from, seen) = Outline(to)

(* No mutation is reported only when nothing but field ids may differ, and *)
(* none when nothing does: whatever the edits undid, an empty diff means   *)
(* the same fields in the same order.                                      *)
EmptyDiffMeansSameSchema ==
    LET nothing == Observed = {}
    IN  /\ nothing => Shape(from) = Shape(to)
        /\ from = to => nothing

(* The diff has no preferred direction: read backwards, additions are the  *)
(* removals, renames go back, and each reordered level is reordered.       *)
(* Engines are run on [from, to] and on [to, from] against one diff.       *)
DiffReadsBackwards ==
    LET back == diff_schemas(to, from)
        forth == Observed
        pairs == Pairs(from, to)
        pathsOf(mutations, kind) == {m.path : m \in OfKind(mutations, kind)}
        carried(kind) == {pq \in pairs : pq[2] \in pathsOf(forth, kind)}
    IN  /\ pathsOf(back, "add_field") = pathsOf(forth, "remove_field")
        /\ pathsOf(back, "remove_field") = pathsOf(forth, "add_field")
        /\ {<<m.old_path, m.path>> : m \in OfKind(back, "rename_field")}
              = {<<m.path, m.old_path>> : m \in OfKind(forth, "rename_field")}
        /\ \A kind \in {"change_type", "change_nullability"} :
              pathsOf(back, kind) = {pq[1] : pq \in carried(kind)}
        /\ Cardinality(OfKind(back, "reorder_fields")) = Cardinality(OfKind(forth, "reorder_fields"))

(* observe_transition pairs the fields whose values it compares from the   *)
(* mutation list alone.  It pairs every field the diff matched, and pairs  *)
(* others only inside a field whose container type changed, where the diff *)
(* did not look.                                                           *)
CommonPathsFollowTheDiff ==
    LET pairs == Pairs(from, to)
        common == Common(from, to)
    IN  /\ pairs \subseteq common
        /\ \A pq \in common \ pairs :
              \E m \in OfKind(Observed, "change_type") : Below(pq[2], m.path)

(* DESIGN.md says of common paths that matching follows the diff, "by      *)
(* field id where every sibling has one": two fields whose levels carry    *)
(* field ids throughout are compared only when the ids agree.              *)
CommonPathsFollowFieldIds ==
    \A pq \in Common(from, to) :
        ById(from[Front(pq[1])], to[Front(pq[2])])
            => FieldAt(from, pq[1]).id = FieldAt(to, pq[2]).id

(* check_transitions accepts a transition when declared and observed       *)
(* mutations agree: a version made by one edit declares exactly what the   *)
(* diff finds, wherever in the schema the edit was made, and so does every *)
(* transition of the corpus.                                               *)
OneEditIsItsDeclaration == edits <= 1 => Observed = declared

(* Of the facts a given transition declares: paths_retained is what the    *)
(* files show, and values are said to change only at paths whose fields    *)
(* are compared, which mutations elsewhere in the schema must not undo.    *)
DeclaredFactsHold ==
    \A t \in author.first : from = t.from /\ to = t.to =>
        /\ t.paths_retained = PathsRetained(from, to)
        /\ t.value_changes \subseteq {pq[2] : pq \in Common(from, to)}

(* paths_retained promises more than that no path disappeared: every field *)
(* of `from` is, under its own name, the field of `to` the diff matched,   *)
(* except inside a retyped container.                                      *)
RetainedPathsAreTheSameFields ==
    PathsRetained(from, to) =>
        LET seen == Observed
            pairs == Pairs(from, to)
        IN  /\ OfKind(seen, "remove_field") \cup OfKind(seen, "rename_field") = {}
            /\ \A p \in Paths(from) :
                  \/ <<p, p>> \in pairs
                  \/ \E m \in OfKind(seen, "change_type") : Below(p, m.path)
=============================================================================
