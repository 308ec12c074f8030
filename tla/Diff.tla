-------------------------------- MODULE Diff ---------------------------------
(***************************************************************************)
(* The structural schema diff (diff.py) and the pairing of field paths that *)
(* observe_transition (validate.py) derives from it.                       *)
(***************************************************************************)
EXTENDS Schemas

(***************************************************************************)
(* Matching                                                                *)
(***************************************************************************)

(* Siblings are paired by field id when every one of them, on both sides,  *)
(* has one.                                                                *)
(* Faulty: the new siblings are taken to have ids too. *)
ByOldId(F, G) == F # <<>> /\ G # <<>> /\ \A f \in Range(F) : f.id # NoId

ById(F, G) == /\ F # <<>> /\ G # <<>>
              /\ \A f \in Range(F) \cup Range(G) : f.id # NoId

(* Positions paired.  The dictionary over the new siblings keeps the last  *)
(* of those with one tag.                                                  *)
Match(F, G) ==
    LET tag(f) == IF ById(F, G) THEN f.id ELSE f.name
    IN  {ij \in (DOMAIN F) \X (DOMAIN G) :
            /\ tag(F[ij[1]]) = tag(G[ij[2]])
            /\ \A k \in DOMAIN G : tag(G[k]) = tag(G[ij[2]]) => k <= ij[2]}

(* The pairs among the siblings of two levels, as old and new paths. *)
PairsAt(old, new, lv) ==
    {<<Append(lv[1], old[lv[1]][ij[1]].name), Append(lv[2], new[lv[2]][ij[2]].name)>> :
        ij \in Match(old[lv[1]], new[lv[2]])}

(* Two matched fields are compared level by level when both are the same   *)
(* kind of container, and by their type strings otherwise.                 *)
Descends(a, b) == a.kind = b.kind /\ a.kind \in Containers

LevelsBelow(old, new, lv) ==
    {<<LevelOf(FieldAt(old, pq[1]), pq[1]), LevelOf(FieldAt(new, pq[2]), pq[2])>> :
        pq \in {xy \in PairsAt(old, new, lv) : Descends(FieldAt(old, xy[1]), FieldAt(new, xy[2]))}}

(* Every two levels the diff compares. *)
MatchedLevels(old, new) ==
    LET reach[n \in Nat] ==
            IF n = 0 THEN {<< <<>>, <<>> >>}
            ELSE LET seen == reach[n - 1]
                 IN  seen \cup UNION {LevelsBelow(old, new, lv) : lv \in seen}
    IN  reach[Cardinality(DOMAIN old)]

Pairs(old, new) == UNION {PairsAt(old, new, lv) : lv \in MatchedLevels(old, new)}

(***************************************************************************)
(* Mutations, in the exact form of the constructors of models.py           *)
(***************************************************************************)
add_field(path, type, nullable) ==
    [kind |-> "add_field", path |-> path, type |-> type, nullable |-> nullable]

remove_field(path, type, nullable) ==
    [kind |-> "remove_field", path |-> path, type |-> type, nullable |-> nullable]

change_type(path, old_type, new_type) ==
    [kind |-> "change_type", path |-> path, old_type |-> old_type, new_type |-> new_type]

change_nullability(path, old_nullable, new_nullable) ==
    [kind |-> "change_nullability", path |-> path,
     old_nullable |-> old_nullable, new_nullable |-> new_nullable]

rename_field(old_path, path, field_id) ==
    [kind |-> "rename_field", path |-> path, old_path |-> old_path, field_id |-> field_id]

reorder_fields(path, old_order, new_order) ==
    [kind |-> "reorder_fields", path |-> path, old_order |-> old_order, new_order |-> new_order]

(***************************************************************************)
(* The diff                                                                *)
(***************************************************************************)
NamesOf(F) == [i \in DOMAIN F |-> F[i].name]

Removals(old, new, lv) ==
    {remove_field(p, TypeOf(old, p), FieldAt(old, p).null) :
        p \in PathsIn(old, lv[1]) \ {pq[1] : pq \in PairsAt(old, new, lv)}}

Additions(old, new, lv) ==
    {add_field(q, TypeOf(new, q), FieldAt(new, q).null) :
        q \in PathsIn(new, lv[2]) \ {pq[2] : pq \in PairsAt(old, new, lv)}}

(* Faulty: whatever changed its path, under a renamed parent for instance. *)
RenamesOfPaths(old, new, lv) ==
    {rename_field(pq[1], pq[2], FieldAt(new, pq[2]).id) :
        pq \in {xy \in PairsAt(old, new, lv) : xy[1] # xy[2]}}

Renames(old, new, lv) ==
    {rename_field(pq[1], pq[2], FieldAt(new, pq[2]).id) :
        pq \in {xy \in PairsAt(old, new, lv) : Last(xy[1]) # Last(xy[2])}}

(* Some two pairs whose order in old and in new disagree. *)
OutOfOrder(F, G) ==
    \E x, y \in Match(F, G) : x[1] < y[1] /\ x[2] > y[2]

(* Faulty: fields are compared as a set. *)
ReordersUnseen(old, new, lv) == {}

Reorders(old, new, lv) ==
    IF OutOfOrder(old[lv[1]], new[lv[2]])
    THEN {reorder_fields(lv[2], NamesOf(old[lv[1]]), NamesOf(new[lv[2]]))}
    ELSE {}

(* Faulty: types only. *)
diff_pair_types(old, new, pq) ==
    LET a == FieldAt(old, pq[1])
        b == FieldAt(new, pq[2])
    IN  IF ~Descends(a, b) /\ TypeOf(old, pq[1]) # TypeOf(new, pq[2])
        THEN {change_type(pq[2], TypeOf(old, pq[1]), TypeOf(new, pq[2]))} ELSE {}

(* Differences between two fields known to be the same field. *)
diff_pair(old, new, pq) ==
    LET a == FieldAt(old, pq[1])
        b == FieldAt(new, pq[2])
    IN  (IF ~Descends(a, b) /\ TypeOf(old, pq[1]) # TypeOf(new, pq[2])
         THEN {change_type(pq[2], TypeOf(old, pq[1]), TypeOf(new, pq[2]))} ELSE {})
        \cup
        (IF a.null # b.null THEN {change_nullability(pq[2], a.null, b.null)} ELSE {})

diff_level(old, new, lv) ==
    Removals(old, new, lv) \cup Renames(old, new, lv) \cup Additions(old, new, lv)
        \cup Reorders(old, new, lv)
        \cup UNION {diff_pair(old, new, pq) : pq \in PairsAt(old, new, lv)}

diff_schemas(old, new) ==
    UNION {diff_level(old, new, lv) : lv \in MatchedLevels(old, new)}

OfKind(mutations, kind) == {m \in mutations : m.kind = kind}

(***************************************************************************)
(* Common paths, as observe_transition finds them from the mutations alone *)
(***************************************************************************)

(* Faulty: the shortest renamed prefix. *)
TargetOfShortest(mutations, p) ==
    LET above == {m \in OfKind(mutations, "rename_field") : Under(p, m.old_path)}
    IN  IF above = {} THEN p
        ELSE LET m == CHOOSE c \in above : \A o \in above : Len(o.old_path) >= Len(c.old_path)
             IN  m.path \o Beyond(p, m.old_path)

(* Where an old path is now: the longest renamed prefix wins. *)
Target(mutations, p) ==
    LET above == {m \in OfKind(mutations, "rename_field") : Under(p, m.old_path)}
    IN  IF above = {} THEN p
        ELSE LET m == CHOOSE c \in above : \A o \in above : Len(o.old_path) <= Len(c.old_path)
             IN  m.path \o Beyond(p, m.old_path)

(* Faulty: a path that is there again was never gone. *)
GoneWithNothing(mutations, p) == FALSE

GoneWith(mutations, p) == \E m \in OfKind(mutations, "remove_field") : Under(p, m.path)

Common(old, new) ==
    LET mutations == diff_schemas(old, new)
        there == Paths(new)
    IN  {<<p, Target(mutations, p)>> :
            p \in {q \in Paths(old) : /\ ~GoneWith(mutations, q)
                                      /\ Target(mutations, q) \in there}}

(* The declared fact paths_retained. *)
PathsRetained(old, new) == {<<p, p>> : p \in Paths(old)} \subseteq Common(old, new)
=============================================================================
