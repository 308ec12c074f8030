----------------------------- MODULE Validator ------------------------------
(***************************************************************************)
(* The validator (validate.py) on one transition: two tables with rows, and*)
(* a manifest that declares their identity, schemas and facts.  An author  *)
(* edits the files, declares, and edits again; what the validator says of  *)
(* them is check_scenario, or the exception that ends it.                  *)
(*                                                                         *)
(* Columns are flat: Evolution has the nested schemas, Flatten the nested  *)
(* values.  The Parquet schema and the dictionaries are not modelled.      *)
(***************************************************************************)
EXTENDS Diff, Values, FiniteSetsExt

CONSTANTS
    Conversions, \* <<old type, new type>> -> the relation of its values
    Starts,      \* old tables to start from, each with its identity
    Fresh,       \* type -> values the author may write
    Spare,       \* a name for a renamed column
    MaxEdits,    \* bound on edits of the files
    Gone,        \* a version without a file
    Undeclared   \* a scenario without a manifest

Versions == {"from", "to"}

(* A table: columns as fields of a schema, rows as functions of names. *)
Table(columns, rows) == [columns |-> columns, rows |-> rows]
Names(t) == {t.columns[i].name : i \in DOMAIN t.columns}
Column(t, name) == t.columns[CHOOSE i \in DOMAIN t.columns : t.columns[i].name = name]
SchemaOf(t) == [level \in {<<>>} |-> t.columns]

(***************************************************************************)
(* The tables the corpus builds: a value of the column's own in every cell,*)
(* and names and field ids that are unique, ids for all columns or none.   *)
(***************************************************************************)
ColumnNames == {Spare} \cup UNION {Names(s) : s \in Starts}
Columns == [name : ColumnNames, kind : Scalars, null : BOOLEAN, id : Nat \cup {NoId}]

UniqueColumns(columns) ==
    /\ \A i, j \in DOMAIN columns : i # j =>
          /\ columns[i].name # columns[j].name
          /\ columns[i].id = columns[j].id => columns[i].id = NoId
          /\ columns[i].id = NoId <=> columns[j].id = NoId

IsTable(t) ==
    /\ t = Table(t.columns, t.rows)
    /\ t.columns \in Seq(Columns) /\ UniqueColumns(t.columns)
    /\ t.rows \in Seq([Names(t) -> Canonical])

ASSUME ScalarsAssumption == Scalars \cap Containers = {} /\ NoId \notin Nat

ASSUME StartsAssumption ==
    \A s \in Starts : IsTable(Table(s.columns, s.rows)) /\ s.identity \in Seq(Names(s))

(* What a cast finds in a column of the type it reads. *)
Converts(relation, v) ==
    \/ IsNull(v)
    \/ relation = "truncated_toward_zero" /\ v.kind = "float"
    \/ relation = "nearest_float64" /\ v.kind = "int"
    \/ relation = "utf8_encoded" /\ v.kind = "str"
    \/ relation = "interpreted_as_utc" /\ v.kind = "instant" /\ v.form = "naive"

(* The tables of the corpus identify their rows, and hold what their types *)
(* say.                                                                    *)
ASSUME OriginalsAssumption ==
    \A s \in Starts :
        /\ \A i \in DOMAIN s.rows, c \in Range(s.identity) : ~IsNull(s.rows[i][c])
        /\ s.identity # <<>> =>
              \A i, j \in DOMAIN s.rows :
                 (\A c \in Range(s.identity) : encode(s.rows[i][c]) = encode(s.rows[j][c])) => i = j
        /\ \A k \in DOMAIN s.columns, types \in DOMAIN Conversions :
              s.columns[k].kind = types[1] =>
                 \A i \in DOMAIN s.rows : Converts(Conversions[types], s.rows[i][s.columns[k].name])

ASSUME EditsAssumption ==
    /\ Fresh \in [Scalars -> SUBSET Canonical]
    /\ \A types \in DOMAIN Conversions :
          /\ types[2] \in Scalars
          /\ Conversions[types] \in
                {"truncated_toward_zero", "nearest_float64", "utf8_encoded", "interpreted_as_utc"}
    /\ MaxEdits \in Nat

VARIABLES
    tables,    \* version -> its file
    identity,  \* row_identity of the manifest
    manifest,  \* what else the manifest declares
    edits      \* edits of the files so far: the column and the change

vars == <<tables, identity, manifest, edits>>

-----------------------------------------------------------------------------
(***************************************************************************)
(* Rows                                                                    *)
(***************************************************************************)
HasIdentity(t) == Range(identity) \subseteq Names(t)

(* A row without a key has a null in its identity; without an identity     *)
(* rows are known by their position.                                       *)
NoKey == <<>>

row_keys(t) ==
    [i \in DOMAIN t.rows |->
        IF identity = <<>> THEN <<"position", i>>
        ELSE IF \E k \in DOMAIN identity : IsNull(t.rows[i][identity[k]]) THEN NoKey
        ELSE [k \in DOMAIN identity |-> encode(t.rows[i][identity[k]])]]

(* Faulty: rows are aligned by their position. *)
AlignedByPosition(a, b) == {<<i, i>> : i \in (DOMAIN a.rows) \cap (DOMAIN b.rows)}

(* Rows of one key: of several in b the last one counts. *)
Aligned(a, b) ==
    LET keys_a == row_keys(a)
        keys_b == row_keys(b)
    IN  {ij \in (DOMAIN a.rows) \X (DOMAIN b.rows) :
            /\ keys_a[ij[1]] = keys_b[ij[2]]
            /\ \A l \in DOMAIN b.rows : keys_b[l] = keys_b[ij[2]] => l <= ij[2]}

PairsAtPath(a, b, p, q) == {<<a.rows[ij[1]][Last(p)], b.rows[ij[2]][Last(q)]>> : ij \in Aligned(a, b)}

(* Common paths whose values are not the same in every aligned row. *)
Changes(a, b) ==
    LET pairs == [pq \in Common(SchemaOf(a), SchemaOf(b)) |-> PairsAtPath(a, b, pq[1], pq[2])]
        changed == {pq \in DOMAIN pairs : \E xy \in pairs[pq] : ~same(xy[1], xy[2])}
    IN  [q \in {pq[2] : pq \in changed} |-> pairs[CHOOSE pq \in changed : pq[2] = q]]

(* Faulty: rows of the new file are looked up in the old one. *)
FactsOfNewRows(a, b) ==
    [row_count_preserved |-> Len(a.rows) = Len(b.rows),
     row_identity_preserved |-> row_keys(a) = row_keys(b),
     rows_retained |-> Range(row_keys(b)) \subseteq Range(row_keys(a)),
     paths_retained |-> PathsRetained(SchemaOf(a), SchemaOf(b)),
     common_values_preserved |-> DOMAIN Changes(a, b) = {}]

Facts(a, b) ==
    [row_count_preserved |-> Len(a.rows) = Len(b.rows),
     row_identity_preserved |-> row_keys(a) = row_keys(b),
     rows_retained |-> Range(row_keys(a)) \subseteq Range(row_keys(b)),
     paths_retained |-> PathsRetained(SchemaOf(a), SchemaOf(b)),
     common_values_preserved |-> DOMAIN Changes(a, b) = {}]

observe_transition(a, b) ==
    [mutations |-> diff_schemas(SchemaOf(a), SchemaOf(b)), facts |-> Facts(a, b), changes |-> Changes(a, b)]

(* The schema and every value in row order, taken to be hashed injectively. *)
fingerprint(t) == <<t.columns, [i \in DOMAIN t.rows |-> [c \in Names(t) |-> encode(t.rows[i][c])]]>>

-----------------------------------------------------------------------------
(***************************************************************************)
(* The checks, as sets of the problems they report                         *)
(***************************************************************************)

(* Faulty: the identity is not looked up in the schemas. *)
ManifestProblemsOfChanges ==
    IF manifest.facts.common_values_preserved = (DOMAIN manifest.relations # {})
    THEN {<<"from", "value_changes and common_values_preserved">>} ELSE {}

(* check_manifest, whose problems hide all the others. *)
ManifestProblems ==
    {<<v, "identity not in the schema">> : v \in {u \in Versions : ~Range(identity) \subseteq manifest.names[u]}}
    \cup (IF manifest.facts.common_values_preserved = (DOMAIN manifest.relations # {})
          THEN {<<"from", "value_changes and common_values_preserved">>} ELSE {})

(* Faulty: one key may stand for several rows. *)
IdentityProblemsNoCount(v) ==
    IF identity = <<>> \/ ~HasIdentity(tables[v]) THEN {}
    ELSE IF NoKey \in Range(row_keys(tables[v])) THEN {<<v, "null identity">>} ELSE {}

IdentityProblems(v) ==
    LET keys == row_keys(tables[v])
    IN  IF identity = <<>> \/ ~HasIdentity(tables[v]) THEN {}
        ELSE (IF NoKey \in Range(keys) THEN {<<v, "null identity">>} ELSE {})
             \cup (IF Cardinality(Range(keys)) # Len(keys) THEN {<<v, "identity not unique">>} ELSE {})

(* Faulty: schema and number of rows only. *)
ContentProblemsNoPrint(v) ==
    LET t == tables[v]
    IN  (IF manifest.schemas[v] # t.columns THEN {<<v, "schema">>} ELSE {})
        \cup (IF manifest.counts[v] # Len(t.rows) THEN {<<v, "row_count">>} ELSE {})

ContentProblems(v) ==
    LET t == tables[v]
    IN  (IF manifest.schemas[v] # t.columns THEN {<<v, "schema">>} ELSE {})
        \cup (IF manifest.counts[v] # Len(t.rows) THEN {<<v, "row_count">>} ELSE {})
        \cup (IF manifest.prints[v] # fingerprint(t) THEN {<<v, "fingerprint">>} ELSE {})
        \cup {<<v, "nulls", c>> : c \in {d \in Names(t) :
                 ~Column(t, d).null /\ \E i \in DOMAIN t.rows : IsNull(t.rows[i][d])}}

(* A missing file is one problem, and the version is looked at no further. *)
check_versions ==
    UNION {IF tables[v] = Gone THEN {<<v, "missing">>} ELSE ContentProblems(v) \cup IdentityProblems(v) : v \in Versions}

TransitionProblems(seen) ==
    {<<"mutation", m>> : m \in SymDiff(manifest.mutations, seen.mutations)}
    \cup {<<"fact", n>> : n \in {x \in DOMAIN seen.facts : manifest.facts[x] # seen.facts[x]}}
    \cup (IF DOMAIN manifest.relations # DOMAIN seen.changes THEN {<<"value_changes">>} ELSE {})
    \cup {<<"relation", q>> : q \in {p \in (DOMAIN manifest.relations) \cap (DOMAIN seen.changes) :
             ~_check_relation(manifest.relations[p], seen.changes[p])}}

check_transitions ==
    IF \E v \in Versions : tables[v] = Gone THEN {<<"missing version file">>}
    ELSE TransitionProblems(observe_transition(tables["from"], tables["to"]))

(* row_keys indexes the identity columns of files that are there. *)
Raises ==
    /\ ManifestProblems = {}
    /\ \A v \in Versions : tables[v] # Gone
    /\ \E v \in Versions : ~HasIdentity(tables[v])

(* The exception that stands for what check_scenario had found. *)
KeyMissing == {<<"KeyError">>}

(* What check_versions found goes with the exception of check_transitions. *)
check_scenario ==
    CASE ManifestProblems # {} -> ManifestProblems
      [] ManifestProblems = {} /\ Raises -> KeyMissing
      [] OTHER -> check_versions \cup check_transitions

-----------------------------------------------------------------------------
(***************************************************************************)
(* What the facts mean (DESIGN.md, section 3), by value equality alone     *)
(***************************************************************************)
SameRow(a, b, i, j) ==
    IF identity = <<>> THEN i = j
    ELSE \A c \in Range(identity) :
            c \in Names(a) /\ c \in Names(b) /\ same(a.rows[i][c], b.rows[j][c])

SameColumn(a, b, f, g) == IF ById(a.columns, b.columns) THEN f.id = g.id ELSE f.name = g.name

ChangedColumns(a, b) ==
    {g \in Range(b.columns) :
        \E f \in Range(a.columns), i \in DOMAIN a.rows, j \in DOMAIN b.rows :
            /\ SameColumn(a, b, f, g)
            /\ SameRow(a, b, i, j)
            /\ ~same(a.rows[i][f.name], b.rows[j][g.name])}

(* Old and new values of the column g of the new file, row by row. *)
ValuesByDefinition(a, b, g) ==
    LET f == CHOOSE x \in Range(a.columns) : SameColumn(a, b, x, g)
    IN  {<<a.rows[ij[1]][f.name], b.rows[ij[2]][g.name]>> :
            ij \in {xy \in (DOMAIN a.rows) \X (DOMAIN b.rows) : SameRow(a, b, xy[1], xy[2])}}

(* Each column that changed has a relation, and it is the right one. *)
RelationsAreTrue ==
    LET a == tables["from"]
        b == tables["to"]
        changed == ChangedColumns(a, b)
    IN  /\ DOMAIN manifest.relations = {<<g.name>> : g \in changed}
        /\ \A g \in changed :
              _check_relation(manifest.relations[<<g.name>>], ValuesByDefinition(a, b, g))

FactsByDefinition(a, b) ==
    [row_count_preserved |-> Len(a.rows) = Len(b.rows),
     row_identity_preserved |->
        Len(a.rows) = Len(b.rows) /\ \A i \in DOMAIN a.rows : SameRow(a, b, i, i),
     rows_retained |-> \A i \in DOMAIN a.rows : \E j \in DOMAIN b.rows : SameRow(a, b, i, j),
     paths_retained |->
        \A f \in Range(a.columns) : \E g \in Range(b.columns) : SameColumn(a, b, f, g) /\ f.name = g.name,
     common_values_preserved |-> ChangedColumns(a, b) = {}]

(* The identity can identify: there, without nulls, and unique. *)
Identifies(t) ==
    /\ HasIdentity(t)
    /\ \A i, j \in DOMAIN t.rows : SameRow(t, t, i, j) => i = j
    /\ \A i \in DOMAIN t.rows, c \in Range(identity) : ~IsNull(t.rows[i][c])

-----------------------------------------------------------------------------
(***************************************************************************)
(* The author                                                              *)
(***************************************************************************)
Init ==
    /\ \E s \in Starts :
          /\ tables = [v \in Versions |-> Table(s.columns, s.rows)]
          /\ identity = s.identity
    /\ manifest = Undeclared
    /\ edits = <<>>

Edit(what, table) ==
    /\ Len(edits) < MaxEdits
    /\ tables' = [tables EXCEPT !["to"] = table]
    /\ edits' = Append(edits, what)
    /\ UNCHANGED <<identity, manifest>>

Here == tables["to"] # Gone
New == tables["to"]

DeleteRow ==
    /\ Here
    /\ \E i \in DOMAIN New.rows : Edit(<<"", "rows">>, [New EXCEPT !.rows = RemoveAt(@, i)])

RepeatRow ==
    /\ Here
    /\ \E i \in DOMAIN New.rows : Edit(<<"", "rows">>, [New EXCEPT !.rows = Append(@, @[i])])

SwapRows ==
    /\ Here
    /\ \E i, j \in DOMAIN New.rows :
          i < j /\ Edit(<<"", "rows">>, [New EXCEPT !.rows = [@ EXCEPT ![i] = New.rows[j], ![j] = New.rows[i]]])

SetValue ==
    /\ Here
    /\ \E c \in Names(New), i \in DOMAIN New.rows : \E v \in Fresh[Column(New, c).kind] :
          /\ v # New.rows[i][c]
          /\ Edit(<<"", "value">>, [New EXCEPT !.rows[i][c] = v])

(* Every value of a column in a new type; nulls stay null. *)
Converted(relation, v) ==
    IF IsNull(v) THEN v
    ELSE CASE relation = "truncated_toward_zero" -> IntValue(Truncated(v.n))
           [] relation = "nearest_float64" -> FloatValue(2 * Nearest(v.n \div 2))
           [] relation = "utf8_encoded" -> Binary(v.n)
           [] relation = "interpreted_as_utc" -> Instant(v.n, "UTC")

CastOf(t, k, types) ==
    [columns |-> [t.columns EXCEPT ![k].kind = types[2]],
     rows |-> [i \in DOMAIN t.rows |->
                 [t.rows[i] EXCEPT ![t.columns[k].name] = Converted(Conversions[types], @)]]]

(* Arrow casts no NaN to an integer. *)
Castable(t, k, types) ==
    /\ t.columns[k].kind = types[1]
    /\ \A i \in DOMAIN t.rows : ~IsNaN(t.rows[i][t.columns[k].name])

Cast ==
    /\ Here
    /\ \E k \in DOMAIN New.columns, types \in DOMAIN Conversions :
          /\ Castable(New, k, types)
          /\ Edit(<<New.columns[k].name, Conversions[types]>>, CastOf(New, k, types))

DropColumn ==
    /\ Here
    /\ Len(New.columns) > 1
    /\ \E k \in DOMAIN New.columns :
          LET f == New.columns[k] IN
          Edit(<<"", "columns">>, [columns |-> RemoveAt(New.columns, k),
                           rows |-> [i \in DOMAIN New.rows |-> [c \in Names(New) \ {f.name} |-> New.rows[i][c]]]])

(* Faulty: only the schema of the file is written anew. *)
RenameColumnOnly ==
    /\ Here
    /\ Spare \notin Names(New)
    /\ \E k \in DOMAIN New.columns : Edit(<<"", "columns">>, [New EXCEPT !.columns[k].name = Spare])

RenameColumn ==
    /\ Here
    /\ Spare \notin Names(New)
    /\ \E k \in DOMAIN New.columns :
          LET f == New.columns[k]
              old(c) == IF c = Spare THEN f.name ELSE c
          IN  Edit(<<"", "columns">>,
                   [columns |-> [New.columns EXCEPT ![k].name = Spare],
                    rows |-> [i \in DOMAIN New.rows |->
                                [c \in (Names(New) \ {f.name}) \cup {Spare} |-> New.rows[i][old(c)]]]])

(* Another column by the name, and its own field id: drop_then_readd_column. *)
ReplaceColumn ==
    /\ Here
    /\ \E k \in DOMAIN New.columns :
          LET f == New.columns[k] IN
          /\ f.id # NoId
          /\ Edit(<<"", "columns">>, [New EXCEPT !.columns[k].id = Max({g.id : g \in Range(New.columns)}) + 1])

RemoveFile == Here /\ Edit(<<"", "file">>, Gone)

(* What the author says of the facts: they are so, but one may be wrong.   *)
Told(facts) == {facts} \cup {[facts EXCEPT ![n] = ~@] : n \in DOMAIN facts}

(* One relation for each of the paths, or none at all. *)
Claims(paths) == UNION {[p -> {r}] : p \in {paths, {}}, r \in Relations}

(* The manifest of the files as they are. *)
ManifestOf(said, relations) ==
    [of |-> tables,
     names |-> [v \in Versions |-> Names(tables[v])],
     schemas |-> [v \in Versions |-> tables[v].columns],
     counts |-> [v \in Versions |-> Len(tables[v].rows)],
     prints |-> [v \in Versions |-> fingerprint(tables[v])],
     mutations |-> diff_schemas(SchemaOf(tables["from"]), SchemaOf(tables["to"])),
     facts |-> said,
     relations |-> relations]

Declare ==
    /\ manifest = Undeclared
    /\ Here
    /\ \E said \in Told(FactsByDefinition(tables["from"], tables["to"])),
          relations \in Claims({<<g.name>> : g \in ChangedColumns(tables["from"], tables["to"])}) :
             manifest' = ManifestOf(said, relations)
    /\ UNCHANGED <<tables, identity, edits>>

Next ==
    \/ DeleteRow \/ RepeatRow \/ SwapRows \/ SetValue
    \/ Cast \/ DropColumn \/ RenameColumn \/ ReplaceColumn
    \/ RemoveFile
    \/ Declare

Spec == Init /\ [][Next]_vars

-----------------------------------------------------------------------------
(* Every row of a file has a value for each of its columns, whose names    *)
(* are unique, whatever edits there were.                                  *)
TypeOK ==
    /\ DOMAIN tables = Versions
    /\ \A v \in Versions : tables[v] # Gone => IsTable(tables[v])
    /\ Len(edits) <= MaxEdits
    /\ manifest # Undeclared =>
          /\ manifest.facts \in [{"row_count_preserved", "row_identity_preserved", "rows_retained",
                                   "paths_retained", "common_values_preserved"} -> BOOLEAN]
          /\ \A p \in DOMAIN manifest.relations : manifest.relations[p] \in Relations

Both == \A v \in Versions : tables[v] # Gone
Accepted == manifest # Undeclared /\ check_scenario = {}

(* Keys that are equal by value are written alike.  The encoding tells     *)
(* apart what value equality does not: 1, 1.0 and 1.00, or 0.0 and -0.0.   *)
KeysAreWrittenAlike ==
    \A v, w \in Versions : \A i \in DOMAIN tables[v].rows, j \in DOMAIN tables[w].rows :
        \A c \in Range(identity) :
            LET x == tables[v].rows[i][c]
                y == tables[w].rows[j][c]
            IN  same(x, y) => encode(x) = encode(y)

(* What the validator accepts has its files, and when keys are written     *)
(* alike, it is so: their identity identifies, the facts are the ones      *)
(* DESIGN.md defines and each column that changed has its relation         *)
(* (check_scenario; tests only swap relations and facts of the corpus      *)
(* there is).                                                              *)
AcceptedManifestsAreTrue ==
    Accepted =>
        /\ Both
        /\ KeysAreWrittenAlike =>
              /\ \A v \in Versions : Identifies(tables[v])
              /\ manifest.facts = FactsByDefinition(tables["from"], tables["to"])
              /\ RelationsAreTrue

TrueManifest ==
    /\ manifest # Undeclared
    /\ Both
    /\ \A v \in Versions : Identifies(tables[v])
    /\ \A v \in Versions : ContentProblems(v) = {}
    /\ manifest.mutations = diff_schemas(SchemaOf(tables["from"]), SchemaOf(tables["to"]))
    /\ manifest.facts = FactsByDefinition(tables["from"], tables["to"])
    /\ RelationsAreTrue

(* A true manifest is accepted when keys are written alike: alignment by   *)
(* encoded keys and pairing by mutations and path prefixes find what the   *)
(* definitions say, and nothing else (observe_transition).                 *)
TrueManifestsAreAccepted == TrueManifest /\ KeysAreWrittenAlike => Accepted

(* Rows retained, paths retained and values preserved together mean that   *)
(* nothing of the old file is lost: each of its rows is in the new one,    *)
(* with every value it had under the name it had, and once if keys are     *)
(* written alike (0.0 and -0.0 are two keys of one value).                 *)
Kin(i) ==
    {j \in DOMAIN tables["to"].rows :
        /\ identity = <<>> => i = j
        /\ \A c \in Names(tables["from"]) : same(tables["from"].rows[i][c], tables["to"].rows[j][c])}

PositiveFactsLoseNothing ==
    Accepted /\ manifest.facts.rows_retained /\ manifest.facts.paths_retained
             /\ manifest.facts.common_values_preserved =>
        \A i \in DOMAIN tables["from"].rows :
            Kin(i) # {} /\ (KeysAreWrittenAlike => Cardinality(Kin(i)) = 1)

(* "no relation in the corpus holds vacuously" (DESIGN.md 190): of two     *)
(* relations at most one fits the values of a column that changed, so one  *)
(* swapped for another is always found.                                    *)
RelationsExclude ==
    Both /\ (\A v \in Versions : HasIdentity(tables[v])) =>
        LET changes == Changes(tables["from"], tables["to"])
        IN  \A q \in DOMAIN changes : \A r, s \in Relations :
                _check_relation(r, changes[q]) /\ _check_relation(s, changes[q]) => r = s

(* A null or the very number it was; text never equals bytes, nor a naive  *)
(* timestamp a zoned one.                                                  *)
Kept(x, y) ==
    \/ BothNull(x, y)
    \/ IsNumber(x) /\ IsNumber(y) /\ x.n = y.n

(* A column that was only cast has changed just when the cast lost         *)
(* something, and then has the relation of that cast: observe_transition   *)
(* and _check_relation see no other change, and miss none.                 *)
OneCastIsItsRelation ==
    \A c \in Names(tables["from"]) \ Range(identity) : \A types \in DOMAIN Conversions :
        edits = <<<<c, Conversions[types]>>>> =>
            LET changes == Changes(tables["from"], tables["to"])
            IN  /\ DOMAIN changes \subseteq {<<c>>}
                /\ \A q \in DOMAIN changes : _check_relation(Conversions[types], changes[q])
                /\ (DOMAIN changes = {}) <=>
                      \A i \in DOMAIN New.rows : Kept(tables["from"].rows[i][c], New.rows[i][c])

(* Accepted files are the ones the manifest was made of: no later edit of  *)
(* a file goes unnoticed, not even of the sign of a zero (check_versions). *)
AcceptedFilesAreTheDeclaredOnes == Accepted => tables = manifest.of

(* row_keys indexes the identity columns without looking whether they are  *)
(* there.  It raises on nothing that was declared as it is: check_manifest *)
(* lets no manifest through whose own files would raise, so only an edit   *)
(* after the declaration ends validate_corpus that way.                    *)
DeclaredFilesNeverRaise == manifest # Undeclared /\ tables = manifest.of => ~Raises

=============================================================================
