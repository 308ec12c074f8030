-------------------------- MODULE ValidatorProofs ---------------------------
(***************************************************************************)
(* Validator, for every choice of original tables, of values to write, of  *)
(* casts and of the bound on edits: what check_scenario accepts is true,   *)
(* what is true is accepted, and no edit goes unnoticed.                   *)
(*                                                                         *)
(* Two invariants are inductive.  ValidatorInv says that the files are     *)
(* tables of canonical values, and that the manifest was made of such      *)
(* files, the ones it keeps in its field of.  History says what the new    *)
(* file is after a first edit.  All else follows from a single state: the  *)
(* diff of flat schemas pairs the columns that are the same one, alignment *)
(* by encoded keys pairs the rows that are the same one, so that what      *)
(* observe_transition finds is what the definitions say.                   *)
(***************************************************************************)
EXTENDS Validator, Lemmas

-----------------------------------------------------------------------------
(***************************************************************************)
(* What the edits do to a table                                            *)
(***************************************************************************)

(* A converted value is a canonical one. *)
LEMMA ConvertedType ==
    ASSUME NEW v \in Canonical, NEW types \in DOMAIN Conversions
    PROVE  Converted(Conversions[types], v) \in Canonical
<1> DEFINE relation == Conversions[types]
<1>1. v.n \in Int /\ v.n \div 2 \in Int /\ (-v.n) \div 2 \in Int
  BY DEF Canonical
<1>2. Truncated(v.n) \in Int
  BY <1>1 DEF Truncated
<1>3. Nearest(v.n \div 2) \in Int
  BY <1>1, ExactAssumption DEF Nearest
<1>4. \A kind \in {"int", "float", "bytes", "instant"}, n \in Int, form \in {"", "UTC"} :
         Value(kind, n, form) \in Canonical
  <2> SUFFICES ASSUME NEW kind \in {"int", "float", "bytes", "instant"}, NEW n \in Int, NEW form \in {"", "UTC"}
               PROVE  Value(kind, n, form) \in Canonical
    OBVIOUS
  <2>1. kind \in Kinds /\ form \in Forms /\ kind # "null"
    BY DEF Kinds, Forms
  <2>2. Value(kind, n, form) \in [kind : Kinds, n : Int, form : Forms] /\ Value(kind, n, form).kind = kind
    BY <2>1 DEF Value
  <2> QED
    BY <2>1, <2>2 DEF Canonical, IsNull
<1>5. relation \in {"truncated_toward_zero", "nearest_float64", "utf8_encoded", "interpreted_as_utc"}
  BY EditsAssumption
<1>6. CASE IsNull(v)
  BY <1>6 DEF Converted
<1>7. CASE ~IsNull(v)
  <2>1. CASE relation = "truncated_toward_zero"
    <3>1. 2 * Truncated(v.n) \in Int
      BY <1>2
    <3> QED
      BY <1>4, <1>7, <2>1, <3>1 DEF Converted, IntValue
  <2>2. CASE relation = "nearest_float64"
    <3>1. 2 * Nearest(v.n \div 2) \in Int
      BY <1>3
    <3> QED
      BY <1>4, <1>7, <2>2, <3>1 DEF Converted, FloatValue
  <2>3. CASE relation = "utf8_encoded"
    BY <1>1, <1>4, <1>7, <2>3 DEF Converted, Binary
  <2>4. CASE relation = "interpreted_as_utc"
    BY <1>1, <1>4, <1>7, <2>4 DEF Converted, Instant
  <2> QED
    BY <1>5, <2>1, <2>2, <2>3, <2>4
<1> QED
  BY <1>6, <1>7

(* The fields of a column, and of a table.  *)
LEMMA TableFacts ==
    ASSUME NEW t, IsTable(t)
    PROVE  /\ t = Table(t.columns, t.rows)
           /\ Len(t.columns) \in Nat /\ DOMAIN t.columns = 1..Len(t.columns)
           /\ \A i \in DOMAIN t.columns : t.columns[i] \in Columns /\ t.columns[i].name \in Names(t)
           /\ Len(t.rows) \in Nat /\ DOMAIN t.rows = 1..Len(t.rows)
           /\ \A i \in DOMAIN t.rows : /\ t.rows[i] \in [Names(t) -> Canonical]
                                       /\ \A c \in Names(t) : t.rows[i][c] \in Canonical
<1>1. /\ t = Table(t.columns, t.rows)
      /\ t.columns \in Seq(Columns) /\ t.rows \in Seq([Names(t) -> Canonical])
  BY DEF IsTable
<1>2. \A i \in DOMAIN t.columns : t.columns[i].name \in Names(t)
  BY DEF Names
<1>3. /\ Len(t.rows) \in Nat /\ DOMAIN t.rows = 1..Len(t.rows)
      /\ \A i \in DOMAIN t.rows : t.rows[i] \in [Names(t) -> Canonical]
  BY <1>1
<1>4. /\ Len(t.columns) \in Nat /\ DOMAIN t.columns = 1..Len(t.columns)
      /\ \A i \in DOMAIN t.columns : t.columns[i] \in Columns
  BY <1>1
<1> QED
  BY <1>1, <1>2, <1>3, <1>4

(* A table with other rows of its columns is a table. *)
LEMMA RowsKeepTable ==
    ASSUME NEW t, IsTable(t), NEW rows \in Seq([Names(t) -> Canonical])
    PROVE  IsTable([t EXCEPT !.rows = rows])
<1>1. [t EXCEPT !.rows = rows] = Table(t.columns, rows)
  BY DEF IsTable, Table
<1> QED
  BY <1>1 DEF IsTable, Table, Names

(* One row for every row there was. *)
LEMMA MappedRows ==
    ASSUME NEW t, IsTable(t), NEW S, NEW rows, rows = [i \in DOMAIN t.rows |-> rows[i]],
           \A i \in DOMAIN t.rows : rows[i] \in S
    PROVE  rows \in Seq(S)
<1>1. DOMAIN t.rows = 1..Len(t.rows) /\ Len(t.rows) \in Nat /\ DOMAIN rows = DOMAIN t.rows
  BY TableFacts
<1> QED
  BY <1>1, SequenceFacts

(* Columns that keep their names keep the rows too. *)
LEMMA ColumnsKeepTable ==
    ASSUME NEW t, IsTable(t), NEW columns \in Seq(Columns), UniqueColumns(columns),
           {columns[i].name : i \in DOMAIN columns} = Names(t), NEW rows \in Seq([Names(t) -> Canonical])
    PROVE  IsTable([columns |-> columns, rows |-> rows])
BY DEF IsTable, Table, Names

(* Cast: the names stay, and every converted value is canonical. *)
LEMMA CastKeeps ==
    ASSUME NEW t, IsTable(t), NEW k \in DOMAIN t.columns, NEW types \in DOMAIN Conversions
    PROVE  IsTable(CastOf(t, k, types))
<1> DEFINE columns == [t.columns EXCEPT ![k].kind = types[2]]
           rows == [i \in DOMAIN t.rows |-> [t.rows[i] EXCEPT ![t.columns[k].name] = Converted(Conversions[types], @)]]
<1>1. types[2] \in Scalars
  BY EditsAssumption
<1>2. t.columns \in Seq(Columns) /\ UniqueColumns(t.columns)
  BY DEF IsTable
<1>3. columns \in Seq(Columns) /\ DOMAIN columns = DOMAIN t.columns
      /\ \A i \in DOMAIN columns : columns[i].name = t.columns[i].name /\ columns[i].id = t.columns[i].id
  <2>1. t.columns[k] \in Columns
    BY <1>2
  <2>2. [t.columns[k] EXCEPT !.kind = types[2]] \in Columns
    BY <1>1, <2>1 DEF Columns
  <2>3. columns = [t.columns EXCEPT ![k] = [t.columns[k] EXCEPT !.kind = types[2]]]
    OBVIOUS
  <2> HIDE DEF columns
  <2>4. columns \in Seq(Columns) /\ DOMAIN columns = DOMAIN t.columns
        /\ \A i \in DOMAIN columns : columns[i] = IF i = k THEN [t.columns[k] EXCEPT !.kind = types[2]] ELSE t.columns[i]
    BY <1>2, <2>2, <2>3, ExceptFacts
  <2> QED
    BY <2>1, <2>4 DEF Columns
<1>4. UniqueColumns(columns)
  BY <1>2, <1>3 DEF UniqueColumns
<1>5. {columns[i].name : i \in DOMAIN columns} = Names(t)
  BY <1>3 DEF Names
<1>6. ASSUME NEW i \in DOMAIN t.rows PROVE rows[i] \in [Names(t) -> Canonical]
  <2>1. t.rows[i] \in [Names(t) -> Canonical] /\ t.columns[k].name \in Names(t)
    BY TableFacts
  <2>2. Converted(Conversions[types], t.rows[i][t.columns[k].name]) \in Canonical
    BY <2>1, ConvertedType
  <2> QED
    BY <2>1, <2>2
<1>7. rows \in Seq([Names(t) -> Canonical])
  <2>1. rows = [i \in DOMAIN t.rows |-> rows[i]]
    OBVIOUS
  <2> HIDE DEF rows
  <2> QED
    BY <1>6, <2>1, MappedRows
<1> SUFFICES IsTable([columns |-> columns, rows |-> rows])
  BY DEF CastOf
<1> HIDE DEF columns, rows
<1> QED
  BY <1>3, <1>4, <1>5, <1>7, ColumnsKeepTable

(* DropColumn: the columns left are as unique as they were, and every row  *)
(* has a value for just these.                                             *)
LEMMA DropKeeps ==
    ASSUME NEW t, IsTable(t), NEW k \in DOMAIN t.columns
    PROVE  IsTable([columns |-> RemoveAt(t.columns, k),
                    rows |-> [i \in DOMAIN t.rows |->
                               [c \in Names(t) \ {t.columns[k].name} |-> t.rows[i][c]]]])
<1> DEFINE columns == RemoveAt(t.columns, k)
           names == Names(t) \ {t.columns[k].name}
           rows == [i \in DOMAIN t.rows |-> [c \in names |-> t.rows[i][c]]]
           n == Len(t.columns)
<1>1. t.columns \in Seq(Columns) /\ UniqueColumns(t.columns) /\ DOMAIN t.columns = 1..n /\ n \in Nat
  BY TableFacts DEF IsTable
<1>2. /\ columns \in Seq(Columns) /\ DOMAIN columns = 1..(n - 1)
      /\ \A i \in 1..(n - 1) : columns[i] = IF i < k THEN t.columns[i] ELSE t.columns[i + 1]
  BY <1>1, RemoveAtFacts
<1> HIDE DEF columns
<1>3. \A i \in DOMAIN columns : \E j \in DOMAIN t.columns : j # k /\ columns[i] = t.columns[j]
  <2> SUFFICES ASSUME NEW i \in 1..(n - 1) PROVE \E j \in 1..n : j # k /\ columns[i] = t.columns[j]
    BY <1>1, <1>2
  <2>1. CASE i < k
    <3>1. i \in 1..n /\ i # k
      BY <1>1, <2>1
    <3> QED
      BY <1>2, <2>1, <3>1
  <2>2. CASE ~ (i < k)
    <3>1. i + 1 \in 1..n /\ i + 1 # k
      BY <1>1, <2>2
    <3> QED
      BY <1>2, <2>2, <3>1
  <2> QED
    BY <2>1, <2>2
<1>4. \A j \in DOMAIN t.columns : j # k => \E i \in DOMAIN columns : columns[i] = t.columns[j]
  <2> SUFFICES ASSUME NEW j \in 1..n, j # k PROVE \E i \in 1..(n - 1) : columns[i] = t.columns[j]
    BY <1>1, <1>2
  <2>1. CASE j < k
    <3>1. j \in 1..(n - 1)
      BY <1>1, <2>1
    <3> QED
      BY <1>2, <2>1, <3>1
  <2>2. CASE ~ (j < k)
    <3>1. j - 1 \in 1..(n - 1) /\ ~ (j - 1 < k) /\ (j - 1) + 1 = j
      BY <1>1, <2>2
    <3> QED
      BY <1>2, <3>1
  <2> QED
    BY <2>1, <2>2
<1>5. UniqueColumns(columns)
  <2> SUFFICES ASSUME NEW i \in 1..(n - 1), NEW j \in 1..(n - 1), i # j
               PROVE  /\ columns[i].name # columns[j].name
                      /\ columns[i].id = columns[j].id => columns[i].id = NoId
                      /\ columns[i].id = NoId <=> columns[j].id = NoId
    BY <1>2 DEF UniqueColumns
  <2>1. PICK p \in 1..n, q \in 1..n : p # q /\ columns[i] = t.columns[p] /\ columns[j] = t.columns[q]
    <3>1. \A x \in 1..(n - 1) : x \in 1..n /\ x + 1 \in 1..n
      BY <1>1
    <3> QED
      BY <1>1, <1>2, <3>1
  <2> QED
    BY <1>1, <2>1 DEF UniqueColumns
<1>6. {columns[i].name : i \in DOMAIN columns} = names
  <2>1. ASSUME NEW i \in DOMAIN columns PROVE columns[i].name \in names
    <3>1. PICK j \in DOMAIN t.columns : j # k /\ columns[i] = t.columns[j]
      BY <1>3, <2>1
    <3> QED
      BY <1>1, <3>1 DEF Names, UniqueColumns
  <2>2. ASSUME NEW c \in names PROVE \E i \in DOMAIN columns : columns[i].name = c
    <3>1. PICK j \in DOMAIN t.columns : c = t.columns[j].name
      BY DEF Names
    <3> QED
      BY <1>4, <3>1
  <2> QED
    BY <2>1, <2>2
<1>7. rows \in Seq([names -> Canonical])
  <2>1. rows = [i \in DOMAIN t.rows |-> rows[i]]
    OBVIOUS
  <2>2. \A i \in DOMAIN t.rows : rows[i] \in [names -> Canonical]
    BY TableFacts
  <2> HIDE DEF rows
  <2> QED
    BY <2>1, <2>2, MappedRows
<1> SUFFICES IsTable([columns |-> columns, rows |-> rows])
  BY DEF columns
<1> HIDE DEF rows, names
<1> QED
  BY <1>2, <1>5, <1>6, <1>7 DEF IsTable, Table, Names

(* A column with another name or id. *)
LEMMA ColumnChanges ==
    ASSUME NEW t, IsTable(t), NEW k \in DOMAIN t.columns, NEW column \in Columns
    PROVE  /\ [t.columns EXCEPT ![k] = column] \in Seq(Columns)
           /\ DOMAIN [t.columns EXCEPT ![k] = column] = DOMAIN t.columns
           /\ \A i \in DOMAIN t.columns : [t.columns EXCEPT ![k] = column][i] = IF i = k THEN column ELSE t.columns[i]
BY ExceptFacts DEF IsTable

(* RenameColumn: the spare name is one no column had. *)
LEMMA RenameKeeps ==
    ASSUME NEW t, IsTable(t), NEW k \in DOMAIN t.columns, Spare \notin Names(t),
           NEW rows, rows = [i \in DOMAIN t.rows |-> rows[i]],
           \A i \in DOMAIN t.rows : rows[i] \in [(Names(t) \ {t.columns[k].name}) \cup {Spare} -> Canonical]
    PROVE  IsTable([columns |-> [t.columns EXCEPT ![k].name = Spare], rows |-> rows])
<1> DEFINE column == [t.columns[k] EXCEPT !.name = Spare]
           columns == [t.columns EXCEPT ![k] = column]
           names == (Names(t) \ {t.columns[k].name}) \cup {Spare}
<1>1. t.columns[k] \in Columns /\ UniqueColumns(t.columns) /\ Spare \in ColumnNames
      /\ \A i \in DOMAIN t.columns : t.columns[i] \in Columns /\ t.columns[i].name \in Names(t)
  BY TableFacts DEF ColumnNames, IsTable
<1>2. column \in Columns /\ column.name = Spare /\ column.id = t.columns[k].id
  BY <1>1 DEF Columns
<1>3. [t.columns EXCEPT ![k].name = Spare] = columns
  OBVIOUS
<1> HIDE DEF column
<1>4. columns \in Seq(Columns) /\ DOMAIN columns = DOMAIN t.columns
      /\ \A i \in DOMAIN columns : columns[i] = IF i = k THEN column ELSE t.columns[i]
  BY <1>2, ColumnChanges
<1> HIDE DEF columns
<1>5. UniqueColumns(columns)
  BY <1>1, <1>2, <1>4 DEF UniqueColumns
<1>6. {columns[i].name : i \in DOMAIN columns} = names
  <2>1. ASSUME NEW i \in DOMAIN columns PROVE columns[i].name \in names
    BY <1>1, <1>2, <1>4, <2>1 DEF UniqueColumns
  <2>2. ASSUME NEW c \in names PROVE \E i \in DOMAIN columns : columns[i].name = c
    <3>1. CASE c = Spare
      BY <1>2, <1>4, <3>1
    <3>2. CASE c # Spare
      <4>1. PICK j \in DOMAIN t.columns : c = t.columns[j].name
        BY <3>2 DEF Names
      <4>2. j # k
        BY <3>2, <4>1
      <4> QED
        BY <1>4, <4>1, <4>2
    <3> QED
      BY <3>1, <3>2
  <2> QED
    BY <2>1, <2>2
<1>7. rows \in Seq([names -> Canonical])
  BY MappedRows
<1> HIDE DEF names
<1> QED
  BY <1>3, <1>4, <1>5, <1>6, <1>7 DEF IsTable, Table, Names

(* ReplaceColumn: the new field id is above all those in the file. *)
LEMMA ReplaceKeeps ==
    ASSUME NEW t, IsTable(t), NEW k \in DOMAIN t.columns, t.columns[k].id # NoId
    PROVE  IsTable([t EXCEPT !.columns[k].id = Max({g.id : g \in Range(t.columns)}) + 1])
<1> DEFINE ids == {g.id : g \in Range(t.columns)}
           column == [t.columns[k] EXCEPT !.id = Max(ids) + 1]
           columns == [t.columns EXCEPT ![k] = column]
           n == Len(t.columns)
<1>1. t.columns[k] \in Columns /\ UniqueColumns(t.columns) /\ n \in Nat /\ DOMAIN t.columns = 1..n
      /\ \A i \in DOMAIN t.columns : t.columns[i] \in Columns
  BY TableFacts DEF IsTable
<1>2. \A i \in 1..n : t.columns[i].id \in Nat
  BY <1>1 DEF UniqueColumns, Columns
<1>3. Max(ids) \in Nat /\ \A i \in 1..n : t.columns[i].id <= Max(ids)
  <2> DEFINE id == [i \in 1..n |-> t.columns[i].id]
  <2>1. \A i \in 1..n : id[i] = t.columns[i].id /\ id[i] \in Nat
    BY <1>2
  <2>2. PICK b \in Nat : \A i \in 1..n : id[i] <= b
    <3> HIDE DEF id
    <3> QED
      BY <1>1, <2>1, Bounded
  <2>3. ids = {t.columns[i].id : i \in 1..n}
    BY <1>1 DEF Range
  <2>4. ids \subseteq 0..b /\ ids # {}
    <3>1. \A i \in 1..n : t.columns[i].id \in 0..b
      <4> SUFFICES ASSUME NEW i \in 1..n PROVE t.columns[i].id \in 0..b
        OBVIOUS
      <4>1. t.columns[i].id \in Nat /\ t.columns[i].id = id[i]
        BY <2>1
      <4>2. id[i] <= b
        BY <2>2
      <4> HIDE DEF id
      <4> QED
        BY <2>2, <4>1, <4>2
    <3>2. t.columns[k].id \in ids
      BY <1>1, <2>3
    <3> QED
      BY <2>3, <3>1, <3>2
  <2> HIDE DEF ids
  <2>5. Max(ids) \in ids /\ \A y \in ids : Max(ids) >= y
    BY <2>2, <2>4, MaxIsThere
  <2>6. Max(ids) \in Nat
    <3>1. 0..b \subseteq Nat
      OBVIOUS
    <3> QED
      BY <2>4, <2>5, <3>1
  <2> QED
    BY <1>2, <2>3, <2>5, <2>6
<1> HIDE DEF ids
<1>4. column \in Columns /\ column.name = t.columns[k].name /\ column.id = Max(ids) + 1 /\ column.id # NoId
  BY <1>1, <1>3, ScalarsAssumption DEF Columns
<1>5. [t EXCEPT !.columns[k].id = Max(ids) + 1] = Table(columns, t.rows)
  <2>1. t = [columns |-> t.columns, rows |-> t.rows]
    BY DEF Table, IsTable
  <2>2. [t EXCEPT !.columns[k].id = Max(ids) + 1] = [t EXCEPT !.columns = columns]
    OBVIOUS
  <2> HIDE DEF columns
  <2> QED
    BY <2>1, <2>2 DEF Table
<1> HIDE DEF column
<1>6. columns \in Seq(Columns) /\ DOMAIN columns = DOMAIN t.columns
      /\ \A i \in DOMAIN columns : columns[i] = IF i = k THEN column ELSE t.columns[i]
  BY <1>4, ColumnChanges
<1> HIDE DEF columns
<1>7. \A i \in 1..n : column.id # t.columns[i].id /\ t.columns[i].id # NoId
  BY <1>2, <1>3, <1>4, ScalarsAssumption
<1>8. UniqueColumns(columns)
  BY <1>1, <1>4, <1>6, <1>7 DEF UniqueColumns
<1>9. {columns[i].name : i \in DOMAIN columns} = Names(t)
  BY <1>4, <1>6 DEF Names
<1>10. IsTable([columns |-> columns, rows |-> t.rows])
  BY <1>6, <1>8, <1>9, ColumnsKeepTable DEF IsTable
<1> QED
  BY <1>5, <1>10 DEF ids, Table

-----------------------------------------------------------------------------
(***************************************************************************)
(* The inductive invariant                                                 *)
(***************************************************************************)

(* What the author may have noted of an edit. *)
Edits == {<<"", "rows">>, <<"", "value">>, <<"", "columns">>, <<"", "file">>}
            \cup (ColumnNames \X {Conversions[types] : types \in DOMAIN Conversions})

(* The files are tables, but the new one may be gone; edits are counted. *)
TablesInv ==
    /\ tables = [v \in Versions |-> tables[v]]
    /\ IsTable(tables["from"])
    /\ Here => IsTable(New)
    /\ identity \in Seq(ColumnNames)
    /\ edits \in Seq(Edits) /\ Len(edits) <= MaxEdits

FactNames == {"row_count_preserved", "row_identity_preserved", "rows_retained", "paths_retained",
              "common_values_preserved"}

(* The manifest m is one of these files. *)
Declares(m, files) ==
    /\ files = [v \in Versions |-> files[v]]
    /\ \A v \in Versions :
          /\ IsTable(files[v])
          /\ m.names[v] = Names(files[v])
          /\ m.schemas[v] = files[v].columns
          /\ m.counts[v] = Len(files[v].rows)
          /\ m.prints[v] = fingerprint(files[v])
    /\ m.mutations = diff_schemas(SchemaOf(files["from"]), SchemaOf(files["to"]))
    /\ m.facts \in [FactNames -> BOOLEAN]
    /\ \A p \in DOMAIN m.relations : m.relations[p] \in Relations

ManifestInv == manifest # Undeclared => Declares(manifest, manifest.of)

ValidatorInv == TablesInv /\ ManifestInv

(* The tables to start from are tables. *)
LEMMA InvInit == Init => ValidatorInv
<1> SUFFICES ASSUME Init PROVE ValidatorInv
  OBVIOUS
<1>1. PICK s \in Starts : /\ tables = [v \in Versions |-> Table(s.columns, s.rows)]
                          /\ identity = s.identity
  BY DEF Init
<1>2. IsTable(Table(s.columns, s.rows)) /\ s.identity \in Seq(Names(s))
  BY StartsAssumption
<1>3. Names(s) \subseteq ColumnNames
  BY DEF ColumnNames
<1>4. identity \in Seq(ColumnNames)
  BY <1>1, <1>2, <1>3
<1>5. edits \in Seq(Edits) /\ Len(edits) <= MaxEdits
  BY EditsAssumption DEF Init
<1> QED
  BY <1>1, <1>2, <1>4, <1>5 DEF Init, ValidatorInv, TablesInv, ManifestInv, Versions, Here, New

(* An edit changes the new file only, into a table or to none. *)
LEMMA EditKeeps ==
    ASSUME ValidatorInv, NEW what \in Edits, NEW table, IsTable(table) \/ table = Gone, Edit(what, table)
    PROVE  ValidatorInv'
<1>1. tables' = [tables EXCEPT !["to"] = table] /\ UNCHANGED <<identity, manifest>>
      /\ edits' = Append(edits, what) /\ Len(edits) < MaxEdits
  BY DEF Edit
<1>2. edits' \in Seq(Edits) /\ Len(edits') <= MaxEdits
  BY <1>1, EditsAssumption DEF ValidatorInv, TablesInv
<1>3. tables' = [v \in Versions |-> tables'[v]] /\ tables'["from"] = tables["from"] /\ tables'["to"] = table
  BY <1>1 DEF ValidatorInv, TablesInv, Versions
<1> QED
  BY <1>1, <1>2, <1>3 DEF ValidatorInv, TablesInv, ManifestInv, Here, New

(* The column of a name is there. *)
LEMMA ColumnOf ==
    ASSUME NEW t, IsTable(t), NEW c \in Names(t)
    PROVE  \E i \in DOMAIN t.columns : t.columns[i].name = c /\ Column(t, c) = t.columns[i]
<1>1. \E i \in DOMAIN t.columns : t.columns[i].name = c
  BY DEF Names
<1> QED
  BY <1>1 DEF Column

(* Every edit of the author leaves a table behind, or no file. *)
LEMMA EditsKeep ==
    ASSUME ValidatorInv, Here,
           DeleteRow \/ RepeatRow \/ SwapRows \/ SetValue \/ Cast \/ DropColumn \/ RenameColumn \/ ReplaceColumn
           \/ RemoveFile
    PROVE  ValidatorInv'
<1>types. IsTable(New) /\ New.rows \in Seq([Names(New) -> Canonical])
  BY DEF ValidatorInv, TablesInv, IsTable
<1>kinds. {<<"", "rows">>, <<"", "value">>, <<"", "columns">>, <<"", "file">>} \subseteq Edits
  BY DEF Edits
<1>1. CASE DeleteRow
  <2>1. PICK i \in DOMAIN New.rows : Edit(<<"", "rows">>, [New EXCEPT !.rows = RemoveAt(@, i)])
    BY <1>1 DEF DeleteRow
  <2>2. IsTable([New EXCEPT !.rows = RemoveAt(New.rows, i)])
    BY <1>types, RemoveAtFacts, RowsKeepTable
  <2> QED
    BY <1>kinds, <2>1, <2>2, EditKeeps
<1>2. CASE RepeatRow
  <2>1. PICK i \in DOMAIN New.rows : Edit(<<"", "rows">>, [New EXCEPT !.rows = Append(@, @[i])])
    BY <1>2 DEF RepeatRow
  <2>2. Append(New.rows, New.rows[i]) \in Seq([Names(New) -> Canonical])
    BY <1>types
  <2>3. IsTable([New EXCEPT !.rows = Append(New.rows, New.rows[i])])
    BY <1>types, <2>2, RowsKeepTable
  <2> QED
    BY <1>kinds, <2>1, <2>3, EditKeeps
<1>3. CASE SwapRows
  <2>1. PICK i \in DOMAIN New.rows, j \in DOMAIN New.rows :
          Edit(<<"", "rows">>, [New EXCEPT !.rows = [@ EXCEPT ![i] = New.rows[j], ![j] = New.rows[i]]])
    BY <1>3 DEF SwapRows
  <2> DEFINE rows == [New.rows EXCEPT ![i] = New.rows[j], ![j] = New.rows[i]]
  <2>2. rows \in Seq([Names(New) -> Canonical])
    BY <1>types
  <2>3. IsTable([New EXCEPT !.rows = rows])
    <3> HIDE DEF rows
    <3> QED
      BY <1>types, <2>2, RowsKeepTable
  <2> QED
    BY <1>kinds, <2>1, <2>3, EditKeeps
<1>4. CASE SetValue
  <2>1. PICK c \in Names(New), i \in DOMAIN New.rows : \E v \in Fresh[Column(New, c).kind] :
          Edit(<<"", "value">>, [New EXCEPT !.rows[i][c] = v])
    BY <1>4 DEF SetValue
  <2>2. PICK v \in Fresh[Column(New, c).kind] : Edit(<<"", "value">>, [New EXCEPT !.rows[i][c] = v])
    BY <2>1
  <2>3. v \in Canonical
    <3>1. Column(New, c) \in Columns
      BY <1>types, ColumnOf, TableFacts
    <3>2. Column(New, c).kind \in Scalars
      BY <3>1 DEF Columns
    <3> QED
      BY <2>2, <3>2, EditsAssumption
  <2> DEFINE row == [New.rows[i] EXCEPT ![c] = v]
  <2>4. row \in [Names(New) -> Canonical]
    <3>1. New.rows[i] \in [Names(New) -> Canonical]
      BY <1>types
    <3> QED
      BY <2>3, <3>1
  <2>5. [New EXCEPT !.rows[i][c] = v] = [New EXCEPT !.rows = [New.rows EXCEPT ![i] = row]]
    OBVIOUS
  <2>6. [New.rows EXCEPT ![i] = row] \in Seq([Names(New) -> Canonical])
    <3> HIDE DEF row
    <3> QED
      BY <1>types, <2>4, ExceptFacts
  <2>7. IsTable([New EXCEPT !.rows = [New.rows EXCEPT ![i] = row]])
    <3> HIDE DEF row
    <3> QED
      BY <1>types, <2>6, RowsKeepTable
  <2> QED
    BY <1>kinds, <2>2, <2>5, <2>7, EditKeeps
<1>5. CASE Cast
  <2>1. PICK k \in DOMAIN New.columns, types \in DOMAIN Conversions :
          Edit(<<New.columns[k].name, Conversions[types]>>, CastOf(New, k, types))
    BY <1>5 DEF Cast
  <2>2. <<New.columns[k].name, Conversions[types]>> \in Edits
    <3>1. New.columns[k].name \in ColumnNames
      BY <1>types, TableFacts DEF Columns
    <3> QED
      BY <3>1 DEF Edits
  <2> QED
    BY <1>types, <2>1, <2>2, CastKeeps, EditKeeps
<1>6. CASE DropColumn
  <2>1. PICK k \in DOMAIN New.columns :
          Edit(<<"", "columns">>,
               [columns |-> RemoveAt(New.columns, k),
                rows |-> [i \in DOMAIN New.rows |->
                            [c \in Names(New) \ {New.columns[k].name} |-> New.rows[i][c]]]])
    BY <1>6 DEF DropColumn
  <2> QED
    BY <1>types, <1>kinds, <2>1, DropKeeps, EditKeeps
<1>7. CASE RenameColumn
  <2>1. PICK k \in DOMAIN New.columns :
          LET f == New.columns[k]
              old(c) == IF c = Spare THEN f.name ELSE c
          IN  Edit(<<"", "columns">>,
                   [columns |-> [New.columns EXCEPT ![k].name = Spare],
                    rows |-> [i \in DOMAIN New.rows |->
                                [c \in (Names(New) \ {f.name}) \cup {Spare} |-> New.rows[i][old(c)]]]])
    BY <1>7 DEF RenameColumn
  <2> DEFINE name == New.columns[k].name
             names == (Names(New) \ {name}) \cup {Spare}
             rows == [i \in DOMAIN New.rows |-> [c \in names |-> New.rows[i][IF c = Spare THEN name ELSE c]]]
  <2>2. Edit(<<"", "columns">>, [columns |-> [New.columns EXCEPT ![k].name = Spare], rows |-> rows])
    BY <2>1
  <2>3. rows = [i \in DOMAIN New.rows |-> rows[i]]
    OBVIOUS
  <2>4. \A i \in DOMAIN New.rows : rows[i] \in [names -> Canonical]
    <3>1. name \in Names(New)
      BY <1>types, TableFacts
    <3> QED
      BY <1>types, <3>1, TableFacts
  <2>5. Spare \notin Names(New)
    BY <1>7 DEF RenameColumn
  <2>6. IsTable([columns |-> [New.columns EXCEPT ![k].name = Spare], rows |-> rows])
    <3> HIDE DEF rows
    <3> QED
      BY <1>types, <2>3, <2>4, <2>5, RenameKeeps
  <2> QED
    BY <1>kinds, <2>2, <2>6, EditKeeps
<1>8. CASE ReplaceColumn
  <2>1. PICK k \in DOMAIN New.columns :
          /\ New.columns[k].id # NoId
          /\ Edit(<<"", "columns">>, [New EXCEPT !.columns[k].id = Max({g.id : g \in Range(New.columns)}) + 1])
    BY <1>8 DEF ReplaceColumn
  <2> QED
    BY <1>types, <1>kinds, <2>1, ReplaceKeeps, EditKeeps
<1>9. CASE RemoveFile
  BY <1>kinds, <1>9, EditKeeps DEF RemoveFile
<1> QED
  BY <1>1, <1>2, <1>3, <1>4, <1>5, <1>6, <1>7, <1>8, <1>9

(* The facts of DESIGN.md are five Booleans. *)
LEMMA FactsTyped ==
    ASSUME NEW a, NEW b PROVE FactsByDefinition(a, b) \in [FactNames -> BOOLEAN]
<1> DEFINE Facts5(p, q, r, s, t) ==
             [row_count_preserved |-> p, row_identity_preserved |-> q, rows_retained |-> r,
              paths_retained |-> s, common_values_preserved |-> t]
<1>1. ASSUME NEW p \in BOOLEAN, NEW q \in BOOLEAN, NEW r \in BOOLEAN, NEW s \in BOOLEAN, NEW t \in BOOLEAN
      PROVE  Facts5(p, q, r, s, t) \in [FactNames -> BOOLEAN]
  BY DEF FactNames
<1>2. \E p, q, r, s, t \in BOOLEAN : FactsByDefinition(a, b) = Facts5(p, q, r, s, t)
  BY Zenon DEF FactsByDefinition
<1> QED
  BY <1>1, <1>2

(* One of the facts told the other way round is still a fact. *)
LEMMA Flipped ==
    ASSUME NEW S, NEW f \in [S -> BOOLEAN], NEW n \in S
    PROVE  [f EXCEPT ![n] = ~@] \in [S -> BOOLEAN]
<1> DEFINE b == ~f[n]
<1>1. b \in BOOLEAN
  OBVIOUS
<1>2. [f EXCEPT ![n] = ~@] = [f EXCEPT ![n] = b]
  OBVIOUS
<1> HIDE DEF b
<1>3. [f EXCEPT ![n] = b] \in [S -> BOOLEAN]
  BY <1>1
<1> QED
  BY <1>2, <1>3

(* What the author says of the facts are Booleans too. *)
LEMMA ToldTyped ==
    ASSUME NEW facts \in [FactNames -> BOOLEAN], NEW said \in Told(facts)
    PROVE  said \in [FactNames -> BOOLEAN]
<1> DEFINE flipped(n) == [facts EXCEPT ![n] = ~@]
<1>1. said \in {facts} \cup {flipped(n) : n \in DOMAIN facts}
  BY DEF Told
<1>2. \A n \in FactNames : flipped(n) \in [FactNames -> BOOLEAN]
  BY Flipped
<1>3. DOMAIN facts = FactNames
  OBVIOUS
<1> HIDE DEF flipped
<1> QED
  BY <1>1, <1>2, <1>3

(* What the author says of changed values are relations. *)
LEMMA ClaimsTyped ==
    ASSUME NEW paths, NEW relations \in Claims(paths)
    PROVE  \A p \in DOMAIN relations : relations[p] \in Relations
<1>1. PICK p \in {paths, {}}, r \in Relations : relations \in [p -> {r}]
  BY DEF Claims
<1> QED
  BY <1>1

(* Declare writes down the files as they are. *)
LEMMA DeclareKeeps == ASSUME ValidatorInv, Declare PROVE ValidatorInv'
<1>1. PICK said \in Told(FactsByDefinition(tables["from"], tables["to"])),
           relations \in Claims({<<g.name>> : g \in ChangedColumns(tables["from"], tables["to"])}) :
              manifest' = ManifestOf(said, relations)
  BY DEF Declare
<1>2. Here /\ UNCHANGED <<tables, identity, edits>>
  BY DEF Declare
<1>3. said \in [FactNames -> BOOLEAN]
  BY FactsTyped, ToldTyped
<1>4. \A p \in DOMAIN relations : relations[p] \in Relations
  BY ClaimsTyped
<1>5. \A v \in Versions : IsTable(tables[v])
  BY <1>2 DEF ValidatorInv, TablesInv, Versions, Here, New
<1>6. Declares(ManifestOf(said, relations), tables) /\ ManifestOf(said, relations).of = tables
  BY <1>3, <1>4, <1>5 DEF Declares, ValidatorInv, TablesInv, ManifestOf
<1>7. TablesInv'
  BY <1>2 DEF ValidatorInv, TablesInv, Here, New
<1>8. ManifestInv'
  BY <1>1, <1>6 DEF ManifestInv
<1> QED
  BY <1>7, <1>8 DEF ValidatorInv

(* Every step keeps the invariant. *)
LEMMA InvStep == ValidatorInv /\ [Next]_vars => ValidatorInv'
<1> SUFFICES ASSUME ValidatorInv, [Next]_vars PROVE ValidatorInv'
  OBVIOUS
<1>1. CASE DeleteRow \/ RepeatRow \/ SwapRows \/ SetValue \/ Cast \/ DropColumn \/ RenameColumn \/ ReplaceColumn
           \/ RemoveFile
  <2>1. Here
    BY <1>1 DEF DeleteRow, RepeatRow, SwapRows, SetValue, Cast, DropColumn, RenameColumn, ReplaceColumn, RemoveFile
  <2> QED
    BY <1>1, <2>1, EditsKeep
<1>2. CASE Declare
  BY <1>2, DeclareKeeps
<1>3. CASE UNCHANGED vars
  BY <1>3 DEF vars, ValidatorInv, TablesInv, ManifestInv, Here, New
<1> QED
  BY <1>1, <1>2, <1>3 DEF Next

(* The invariant holds of every behaviour. *)
LEMMA InvHolds == Spec => []ValidatorInv
BY InvInit, InvStep, PTL DEF Spec

(* The files stay tables whatever the author does: every row has a         *)
(* canonical value for each column, and what is declared has the form      *)
(* check_scenario expects.                                                 *)
THEOREM TypeCorrect == Spec => []TypeOK
<1>1. ValidatorInv => TypeOK
  BY DEF ValidatorInv, TablesInv, ManifestInv, Declares, TypeOK, Versions, Here, New, FactNames
<1> QED
  BY <1>1, InvHolds, PTL

-----------------------------------------------------------------------------
(***************************************************************************)
(* What the encoding and the checks tell apart                             *)
(***************************************************************************)

(* The tagged encoding (values.py, encode) tells canonical values apart:   *)
(* type, digits, sign of zero, scale and zone are in it.                   *)
LEMMA EncodeExact ==
    ASSUME NEW x \in Canonical, NEW y \in Canonical, encode(x) = encode(y)
    PROVE  x = y
<1>1. /\ x = [kind |-> x.kind, n |-> x.n, form |-> x.form]
      /\ y = [kind |-> y.kind, n |-> y.n, form |-> y.form]
  BY DEF Canonical
<1>2. CASE IsNull(x) /\ IsNull(y)
  BY <1>2 DEF Canonical
<1>3. CASE ~IsNull(x) /\ ~IsNull(y)
  BY <1>1, <1>3 DEF encode
<1>4. \A a, b, c : <<a, b, c>> # <<>>
  OBVIOUS
<1>5. CASE IsNull(x) /\ ~IsNull(y)
  <2>1. encode(x) = <<>> /\ encode(y) = <<y.kind, y.n, y.form>>
    BY <1>5 DEF encode
  <2> QED
    BY <1>4, <2>1
<1>6. CASE ~IsNull(x) /\ IsNull(y)
  <2>1. encode(y) = <<>> /\ encode(x) = <<x.kind, x.n, x.form>>
    BY <1>6 DEF encode
  <2> QED
    BY <1>4, <2>1
<1> QED
  BY <1>2, <1>3, <1>5, <1>6

(* Files with one fingerprint are one file: it holds the schema and every  *)
(* value.                                                                  *)
LEMMA FingerprintExact ==
    ASSUME NEW t, IsTable(t), NEW u, IsTable(u), fingerprint(t) = fingerprint(u)
    PROVE  t = u
<1> DEFINE print(x) == [i \in DOMAIN x.rows |-> [c \in Names(x) |-> encode(x.rows[i][c])]]
<1>1. t.columns = u.columns /\ print(t) = print(u)
  BY DEF fingerprint
<1>2. Names(t) = Names(u)
  BY <1>1 DEF Names
<1>3. DOMAIN t.rows = DOMAIN u.rows
  <2>1. DOMAIN print(t) = DOMAIN t.rows /\ DOMAIN print(u) = DOMAIN u.rows
    OBVIOUS
  <2> QED
    BY <1>1, <2>1
<1>4. ASSUME NEW i \in DOMAIN t.rows PROVE t.rows[i] = u.rows[i]
  <2>1. t.rows[i] \in [Names(t) -> Canonical] /\ u.rows[i] \in [Names(t) -> Canonical]
    BY <1>2, <1>3, TableFacts
  <2>2. ASSUME NEW c \in Names(t) PROVE t.rows[i][c] = u.rows[i][c]
    <3>1. print(t)[i][c] = encode(t.rows[i][c]) /\ print(u)[i][c] = encode(u.rows[i][c])
      BY <1>2, <1>3
    <3> QED
      BY <1>1, <2>1, <3>1, EncodeExact
  <2> QED
    BY <2>1, <2>2
<1>5. t.rows = u.rows
  <2>1. t.rows \in Seq([Names(t) -> Canonical]) /\ u.rows \in Seq([Names(t) -> Canonical])
    BY <1>2 DEF IsTable
  <2>2. t.rows = [i \in DOMAIN t.rows |-> t.rows[i]] /\ u.rows = [i \in DOMAIN u.rows |-> u.rows[i]]
    BY <2>1
  <2> QED
    BY <1>3, <1>4, <2>2
<1> QED
  BY <1>1, <1>5 DEF IsTable

(* What a manifest that is accepted has been checked for. *)
LEMMA NothingReported ==
    ASSUME Accepted
    PROVE  /\ ManifestProblems = {} /\ Both
           /\ \A v \in Versions : HasIdentity(tables[v]) /\ ContentProblems(v) = {} /\ IdentityProblems(v) = {}
           /\ TransitionProblems(observe_transition(tables["from"], tables["to"])) = {}
<1>1. ManifestProblems = {} /\ ~Raises /\ check_versions = {} /\ check_transitions = {}
  BY DEF Accepted, check_scenario, KeyMissing
<1>2. Both
  BY <1>1 DEF check_transitions, Both
<1>3. \A v \in Versions : ContentProblems(v) \cup IdentityProblems(v) = {}
  <2> DEFINE problems(v) ==
               IF tables[v] = Gone THEN {<<v, "missing">>} ELSE ContentProblems(v) \cup IdentityProblems(v)
  <2>1. UNION {problems(v) : v \in Versions} = {}
    BY <1>1 DEF check_versions
  <2>2. \A v \in Versions : problems(v) = {}
    <3> HIDE DEF problems
    <3> QED
      BY <2>1
  <2> QED
    BY <1>2, <2>2 DEF Both
<1>4. \A v \in Versions : HasIdentity(tables[v])
  BY <1>1, <1>2 DEF Raises, Both
<1> QED
  BY <1>1, <1>2, <1>3, <1>4 DEF check_transitions, Both

(* A file without content problems is the one declared. *)
LEMMA DeclaredColumns ==
    ASSUME NEW v \in Versions, ContentProblems(v) = {}
    PROVE  manifest.schemas[v] = tables[v].columns /\ manifest.counts[v] = Len(tables[v].rows)
           /\ manifest.prints[v] = fingerprint(tables[v])
BY DEF ContentProblems

(* A manifest that check_scenario accepts is one made of the very files    *)
(* there are: no edit after the declaration passes check_versions.         *)
THEOREM EditsAreNoticed == Spec => []AcceptedFilesAreTheDeclaredOnes
<1>1. ValidatorInv => AcceptedFilesAreTheDeclaredOnes
  <2> SUFFICES ASSUME ValidatorInv, Accepted PROVE tables = manifest.of
    BY DEF AcceptedFilesAreTheDeclaredOnes
  <2>1. Declares(manifest, manifest.of)
    BY DEF ValidatorInv, ManifestInv, Accepted
  <2>2. ASSUME NEW v \in Versions PROVE tables[v] = manifest.of[v]
    <3>1. IsTable(tables[v])
      BY NothingReported DEF Both, ValidatorInv, TablesInv, Versions, Here, New
    <3>2. IsTable(manifest.of[v]) /\ manifest.prints[v] = fingerprint(manifest.of[v])
      BY <2>1 DEF Declares
    <3>3. manifest.prints[v] = fingerprint(tables[v])
      BY NothingReported, DeclaredColumns
    <3> QED
      BY <3>1, <3>2, <3>3, FingerprintExact
  <2> QED
    BY <2>1, <2>2 DEF ValidatorInv, TablesInv, Declares
<1> QED
  BY <1>1, InvHolds, PTL

(* A manifest that check_manifest lets through names columns that its own  *)
(* files have, so row_keys finds them there.                               *)
THEOREM DeclaredFilesAnswer == Spec => []DeclaredFilesNeverRaise
<1>1. ValidatorInv => DeclaredFilesNeverRaise
  <2> SUFFICES ASSUME ValidatorInv, manifest # Undeclared, tables = manifest.of, ManifestProblems = {},
                      NEW v \in Versions
               PROVE  HasIdentity(tables[v])
    BY DEF DeclaredFilesNeverRaise, Raises
  <2>1. manifest.names[v] = Names(manifest.of[v])
    BY DEF ValidatorInv, ManifestInv, Declares
  <2>2. Range(identity) \subseteq manifest.names[v]
    BY DEF ManifestProblems
  <2> QED
    BY <2>1, <2>2 DEF HasIdentity
<1> QED
  BY <1>1, InvHolds, PTL

-----------------------------------------------------------------------------
(***************************************************************************)
(* The diff of two tables: one level, without nested columns               *)
(***************************************************************************)

(* Paths of one name. *)
LEMMA One ==
    ASSUME NEW x
    PROVE  /\ Append(<<>>, x) = <<x>> /\ Front(<<x>>) = <<>> /\ Last(<<x>>) = x
           /\ \A y : Under(<<x>>, <<y>>) <=> x = y
           /\ Beyond(<<x>>, <<x>>) = <<>>
<1>1. Append(<<>>, x) = <<x>>
  OBVIOUS
<1>2. Last(<<x>>) = x
  BY DEF Last
<1>3. Front(<<x>>) = <<>>
  BY DEF Front
<1>4. Beyond(<<x>>, <<x>>) = <<>>
  BY DEF Beyond
<1>5. \A y : Under(<<x>>, <<y>>) <=> x = y
  BY DEF Under, IsPrefix
<1> QED
  BY <1>1, <1>2, <1>3, <1>4, <1>5

(* The schema of a table has one level. *)
LEMMA TopOnly ==
    ASSUME NEW t
    PROVE  DOMAIN SchemaOf(t) = {<<>>} /\ SchemaOf(t)[<<>>] = t.columns
BY DEF SchemaOf

(* Its paths are the names of the columns. *)
LEMMA FlatPaths ==
    ASSUME NEW t, IsTable(t)
    PROVE  /\ Paths(SchemaOf(t)) = {<<c>> : c \in Names(t)}
           /\ PathsIn(SchemaOf(t), <<>>) = {<<c>> : c \in Names(t)}
<1>1. PathsIn(SchemaOf(t), <<>>) = {<<c>> : c \in Names(t)}
  <2>1. PathsIn(SchemaOf(t), <<>>) = {Append(<<>>, t.columns[i].name) : i \in DOMAIN t.columns}
    BY TopOnly DEF PathsIn
  <2>2. \A i \in DOMAIN t.columns : Append(<<>>, t.columns[i].name) = <<t.columns[i].name>>
    BY One
  <2> QED
    BY <2>1, <2>2 DEF Names
<1>2. Paths(SchemaOf(t)) = PathsIn(SchemaOf(t), <<>>)
  BY TopOnly DEF Paths
<1> QED
  BY <1>1, <1>2

(* No column is a container. *)
LEMMA FlatField ==
    ASSUME NEW t, IsTable(t), NEW c \in Names(t)
    PROVE  /\ FieldAt(SchemaOf(t), <<c>>).kind \in Scalars
           /\ FieldAt(SchemaOf(t), <<c>>).kind \notin Containers
<1>1. FieldAt(SchemaOf(t), <<c>>) = Column(t, c)
  <2>1. Front(<<c>>) = <<>> /\ Last(<<c>>) = c /\ SchemaOf(t)[<<>>] = t.columns
    BY One, TopOnly
  <2> QED
    BY <2>1 DEF FieldAt, Column
<1>2. Column(t, c) \in Columns
  BY ColumnOf, TableFacts
<1> QED
  BY <1>1, <1>2, ScalarsAssumption DEF Columns

(* Two columns that are the same field, as the diff pairs them. *)
LEMMA FlatMatch ==
    ASSUME NEW a, IsTable(a), NEW b, IsTable(b)
    PROVE  /\ Match(a.columns, b.columns) =
                {ij \in (DOMAIN a.columns) \X (DOMAIN b.columns) : SameColumn(a, b, a.columns[ij[1]], b.columns[ij[2]])}
           /\ \A i \in DOMAIN a.columns, k, l \in DOMAIN b.columns :
                 SameColumn(a, b, a.columns[i], b.columns[k]) /\ SameColumn(a, b, a.columns[i], b.columns[l]) => k = l
           /\ \A i, j \in DOMAIN a.columns, k \in DOMAIN b.columns :
                 SameColumn(a, b, a.columns[i], b.columns[k]) /\ SameColumn(a, b, a.columns[j], b.columns[k]) => i = j
<1>1. UniqueColumns(a.columns) /\ UniqueColumns(b.columns)
  BY DEF IsTable
<1>2. \A k \in DOMAIN b.columns : k \in Nat
  BY TableFacts
<1>3. CASE ById(a.columns, b.columns)
  <2>1. /\ \A i \in DOMAIN a.columns : a.columns[i].id # NoId
        /\ \A k \in DOMAIN b.columns : b.columns[k].id # NoId
    BY <1>3 DEF ById, Range
  <2>2. /\ \A i, j \in DOMAIN a.columns : a.columns[i].id = a.columns[j].id => i = j
        /\ \A k, l \in DOMAIN b.columns : b.columns[k].id = b.columns[l].id => k = l
    BY <1>1, <2>1 DEF UniqueColumns
  <2>3. \A f, g : SameColumn(a, b, f, g) <=> f.id = g.id
    BY <1>3 DEF SameColumn
  <2>4. Match(a.columns, b.columns) =
          {ij \in (DOMAIN a.columns) \X (DOMAIN b.columns) :
             /\ a.columns[ij[1]].id = b.columns[ij[2]].id
             /\ \A k \in DOMAIN b.columns : b.columns[k].id = b.columns[ij[2]].id => k <= ij[2]}
    BY <1>3 DEF Match
  <2>5. \A k, l \in DOMAIN b.columns : b.columns[k].id = b.columns[l].id => k <= l
    BY <1>2, <2>2
  <2> QED
    BY <2>2, <2>3, <2>4, <2>5
<1>4. CASE ~ById(a.columns, b.columns)
  <2>2. /\ \A i, j \in DOMAIN a.columns : a.columns[i].name = a.columns[j].name => i = j
        /\ \A k, l \in DOMAIN b.columns : b.columns[k].name = b.columns[l].name => k = l
    BY <1>1 DEF UniqueColumns
  <2>3. \A f, g : SameColumn(a, b, f, g) <=> f.name = g.name
    BY <1>4 DEF SameColumn
  <2>4. Match(a.columns, b.columns) =
          {ij \in (DOMAIN a.columns) \X (DOMAIN b.columns) :
             /\ a.columns[ij[1]].name = b.columns[ij[2]].name
             /\ \A k \in DOMAIN b.columns : b.columns[k].name = b.columns[ij[2]].name => k <= ij[2]}
    BY <1>4 DEF Match
  <2>5. \A k, l \in DOMAIN b.columns : b.columns[k].name = b.columns[l].name => k <= l
    BY <1>2, <2>2
  <2> QED
    BY <2>2, <2>3, <2>4, <2>5
<1> QED
  BY <1>3, <1>4

(* Where the columns are that two tables have in common, by name or id. *)
SamePaths(a, b) ==
    {<< <<a.columns[ik[1]].name>>, <<b.columns[ik[2]].name>> >> :
        ik \in {jl \in (DOMAIN a.columns) \X (DOMAIN b.columns) : SameColumn(a, b, a.columns[jl[1]], b.columns[jl[2]])}}

(* The diff pairs the columns that are the same one. *)
LEMMA FlatPairs ==
    ASSUME NEW a, IsTable(a), NEW b, IsTable(b)
    PROVE  PairsAt(SchemaOf(a), SchemaOf(b), << <<>>, <<>> >>) = SamePaths(a, b)
<1>1. PairsAt(SchemaOf(a), SchemaOf(b), << <<>>, <<>> >>) =
        {<<Append(<<>>, a.columns[ij[1]].name), Append(<<>>, b.columns[ij[2]].name)>> :
            ij \in Match(a.columns, b.columns)}
  BY TopOnly DEF PairsAt
<1>2. \A x : Append(<<>>, x) = <<x>>
  BY One
<1>3. PairsAt(SchemaOf(a), SchemaOf(b), << <<>>, <<>> >>) =
        {<< <<a.columns[ij[1]].name>>, <<b.columns[ij[2]].name>> >> : ij \in Match(a.columns, b.columns)}
  BY <1>1, <1>2
<1> QED
  BY <1>3, FlatMatch DEF SamePaths

(* Where nothing lies below the top level, it is the only one the diff     *)
(* compares: the recursive function in MatchedLevels is the constant one.  *)
LEMMA OneLevel ==
    ASSUME NEW old, NEW new, DOMAIN old = {<<>>}, LevelsBelow(old, new, << <<>>, <<>> >>) = {}
    PROVE  MatchedLevels(old, new) = {<< <<>>, <<>> >>}
<1> DEFINE start == {<< <<>>, <<>> >>}
           further(seen) == seen \cup UNION {LevelsBelow(old, new, lv) : lv \in seen}
           reach[n \in Nat] ==
               IF n = 0 THEN start
               ELSE LET seen == reach[n - 1] IN seen \cup UNION {LevelsBelow(old, new, lv) : lv \in seen}
           reaches(f) == f = [n \in Nat |-> IF n = 0 THEN start ELSE further(f[n - 1])]
<1>1. Cardinality(DOMAIN old) = 1
  BY FS_Singleton
<1>2. MatchedLevels(old, new) = reach[1]
  BY <1>1 DEF MatchedLevels
<1>3. reach = CHOOSE f : reaches(f)
  OBVIOUS
<1>4. reaches([n \in Nat |-> start])
  OBVIOUS
<1> HIDE DEF reaches
<1>5. reaches(reach)
  BY <1>3, <1>4
<1> HIDE DEF reach
<1>6. reach[0] = start
  BY <1>5 DEF reaches
<1>7. reach[1] = further(reach[0])
  <2>1. reach = [n \in Nat |-> IF n = 0 THEN start ELSE further(reach[n - 1])]
    BY <1>5 DEF reaches
  <2>2. 1 - 1 = 0 /\ 1 \in Nat /\ 1 # 0
    OBVIOUS
  <2> HIDE DEF further
  <2> QED
    BY <2>1, <2>2
<1>8. further(start) = start
  OBVIOUS
<1> QED
  BY <1>2, <1>6, <1>7, <1>8

(* So it is for tables. *)
LEMMA FlatLevels ==
    ASSUME NEW a, IsTable(a), NEW b, IsTable(b)
    PROVE  MatchedLevels(SchemaOf(a), SchemaOf(b)) = {<< <<>>, <<>> >>}
<1>1. \A pq \in SamePaths(a, b) : \E c \in Names(a) : pq[1] = <<c>>
  BY DEF SamePaths, Names
<1>2. \A pq \in SamePaths(a, b) : ~Descends(FieldAt(SchemaOf(a), pq[1]), FieldAt(SchemaOf(b), pq[2]))
  BY <1>1, FlatField DEF Descends
<1>3. LevelsBelow(SchemaOf(a), SchemaOf(b), << <<>>, <<>> >>) = {}
  BY <1>2, FlatPairs DEF LevelsBelow
<1> QED
  BY <1>3, TopOnly, OneLevel

(* The diff of two tables is the diff of that level. *)
LEMMA FlatDiff ==
    ASSUME NEW a, IsTable(a), NEW b, IsTable(b)
    PROVE  diff_schemas(SchemaOf(a), SchemaOf(b)) = diff_level(SchemaOf(a), SchemaOf(b), << <<>>, <<>> >>)
BY FlatLevels DEF diff_schemas

(* Which mutations are renames, and which are removals. *)
LEMMA FlatRenames ==
    ASSUME NEW a, IsTable(a), NEW b, IsTable(b)
    PROVE  /\ OfKind(diff_schemas(SchemaOf(a), SchemaOf(b)), "rename_field") =
                 Renames(SchemaOf(a), SchemaOf(b), << <<>>, <<>> >>)
           /\ OfKind(diff_schemas(SchemaOf(a), SchemaOf(b)), "remove_field") =
                 Removals(SchemaOf(a), SchemaOf(b), << <<>>, <<>> >>)
<1> DEFINE old == SchemaOf(a)
           new == SchemaOf(b)
           top == << <<>>, <<>> >>
<1>1. \A m \in Removals(old, new, top) : m.kind = "remove_field"
  BY DEF Removals, remove_field
<1>2. \A m \in Renames(old, new, top) : m.kind = "rename_field"
  BY DEF Renames, rename_field
<1>3. \A m \in Additions(old, new, top) : m.kind = "add_field"
  BY DEF Additions, add_field
<1>4. \A m \in Reorders(old, new, top) : m.kind = "reorder_fields"
  BY DEF Reorders, reorder_fields
<1>5. \A pq : \A m \in diff_pair(old, new, pq) : m.kind \in {"change_type", "change_nullability"}
  BY DEF diff_pair, change_type, change_nullability
<1>6. diff_schemas(old, new) =
        Removals(old, new, top) \cup Renames(old, new, top) \cup Additions(old, new, top)
          \cup Reorders(old, new, top) \cup UNION {diff_pair(old, new, pq) : pq \in PairsAt(old, new, top)}
  BY FlatDiff DEF diff_level
<1> HIDE DEF old, new, top
<1> QED
  BY <1>1, <1>2, <1>3, <1>4, <1>5, <1>6 DEF OfKind, old, new, top

(* A column has at most one path it is found at, and the other way round. *)
LEMMA SamePathsUnique ==
    ASSUME NEW a, IsTable(a), NEW b, IsTable(b)
    PROVE  /\ \A pq \in SamePaths(a, b) : \E c \in Names(a), d \in Names(b) : pq = << <<c>>, <<d>> >>
           /\ \A pq, xy \in SamePaths(a, b) : pq[1] = xy[1] => pq = xy
           /\ \A pq, xy \in SamePaths(a, b) : pq[2] = xy[2] => pq = xy
<1>1. \A pq \in SamePaths(a, b) : \E c \in Names(a), d \in Names(b) : pq = << <<c>>, <<d>> >>
  BY DEF SamePaths, Names
<1>2. ASSUME NEW pq \in SamePaths(a, b), NEW xy \in SamePaths(a, b), pq[1] = xy[1] \/ pq[2] = xy[2]
      PROVE  pq = xy
  <2>1. PICK i \in DOMAIN a.columns, k \in DOMAIN b.columns :
          SameColumn(a, b, a.columns[i], b.columns[k]) /\ pq = << <<a.columns[i].name>>, <<b.columns[k].name>> >>
    BY DEF SamePaths
  <2>2. PICK j \in DOMAIN a.columns, l \in DOMAIN b.columns :
          SameColumn(a, b, a.columns[j], b.columns[l]) /\ xy = << <<a.columns[j].name>>, <<b.columns[l].name>> >>
    BY DEF SamePaths
  <2>3. CASE pq[1] = xy[1]
    <3>1. a.columns[i].name = a.columns[j].name
      BY <2>1, <2>2, <2>3
    <3>2. i = j
      BY <3>1 DEF IsTable, UniqueColumns
    <3> QED
      BY <2>1, <2>2, <3>2, FlatMatch
  <2>4. CASE pq[2] = xy[2]
    <3>1. b.columns[k].name = b.columns[l].name
      BY <2>1, <2>2, <2>4
    <3>2. k = l
      BY <3>1 DEF IsTable, UniqueColumns
    <3> QED
      BY <2>1, <2>2, <3>2, FlatMatch
  <2> QED
    BY <1>2, <2>3, <2>4
<1> QED
  BY <1>1, <1>2

(* A column is gone just when the diff pairs it with none. *)
LEMMA FlatGone ==
    ASSUME NEW a, IsTable(a), NEW b, IsTable(b), NEW c \in Names(a)
    PROVE  GoneWith(diff_schemas(SchemaOf(a), SchemaOf(b)), <<c>>) <=> <<c>> \notin {pq[1] : pq \in SamePaths(a, b)}
<1> DEFINE gone == {<<d>> : d \in Names(a)} \ {pq[1] : pq \in SamePaths(a, b)}
           removed(p) == remove_field(p, TypeOf(SchemaOf(a), p), FieldAt(SchemaOf(a), p).null)
<1>1. OfKind(diff_schemas(SchemaOf(a), SchemaOf(b)), "remove_field") = {removed(p) : p \in gone}
  BY FlatRenames, FlatPaths, FlatPairs DEF Removals
<1>2. \A p : removed(p).path = p
  BY DEF remove_field
<1> HIDE DEF removed
<1>3. GoneWith(diff_schemas(SchemaOf(a), SchemaOf(b)), <<c>>) <=> \E p \in gone : Under(<<c>>, p)
  BY <1>1, <1>2 DEF GoneWith
<1>4. \A p \in gone : Under(<<c>>, p) <=> p = <<c>>
  BY One
<1> QED
  BY <1>3, <1>4

(* The renames lead every column to the one it is paired with. *)
LEMMA FlatTarget ==
    ASSUME NEW a, IsTable(a), NEW b, IsTable(b), NEW pq \in SamePaths(a, b)
    PROVE  Target(diff_schemas(SchemaOf(a), SchemaOf(b)), pq[1]) = pq[2]
<1> DEFINE mutations == diff_schemas(SchemaOf(a), SchemaOf(b))
           renamed(xy) == rename_field(xy[1], xy[2], FieldAt(SchemaOf(b), xy[2]).id)
           above == {m \in OfKind(mutations, "rename_field") : Under(pq[1], m.old_path)}
<1>1. OfKind(mutations, "rename_field") = {renamed(xy) : xy \in {uv \in SamePaths(a, b) : Last(uv[1]) # Last(uv[2])}}
  BY FlatRenames, FlatPairs DEF Renames
<1>2. \A xy : renamed(xy).path = xy[2] /\ renamed(xy).old_path = xy[1]
  BY DEF rename_field
<1>3. PICK c \in Names(a), d \in Names(b) : pq = << <<c>>, <<d>> >>
  BY SamePathsUnique
<1>4. \A xy \in SamePaths(a, b) : Under(pq[1], xy[1]) <=> xy = pq
  <2>1. \A xy \in SamePaths(a, b) : Under(pq[1], xy[1]) <=> xy[1] = pq[1]
    BY <1>3, One, SamePathsUnique
  <2> QED
    BY <2>1, SamePathsUnique
<1> HIDE DEF mutations, renamed
<1>5. above = {renamed(xy) : xy \in {uv \in SamePaths(a, b) : uv = pq /\ Last(uv[1]) # Last(uv[2])}}
  BY <1>1, <1>2, <1>4
<1>6. Target(mutations, pq[1]) =
        IF above = {} THEN pq[1]
        ELSE LET m == CHOOSE x \in above : \A o \in above : Len(o.old_path) <= Len(x.old_path)
             IN  m.path \o Beyond(pq[1], m.old_path)
  BY DEF Target
<1> HIDE DEF above
<1>7. CASE c = d
  <2>1. above = {}
    BY <1>3, <1>5, <1>7
  <2> QED
    BY <1>3, <1>6, <1>7, <2>1 DEF mutations
<1>8. CASE c # d
  <2>1. Last(pq[1]) # Last(pq[2])
    BY <1>3, <1>8, One
  <2>2. above = {renamed(pq)}
    BY <1>5, <2>1
  <2>3. (CHOOSE x \in above : \A o \in above : Len(o.old_path) <= Len(x.old_path)) = renamed(pq)
    <3>1. \A o \in above : o.old_path = <<c>>
      BY <1>2, <1>3, <2>2
    <3>2. Len(<<c>>) <= Len(<<c>>)
      OBVIOUS
    <3> QED
      BY <2>2, <3>1, <3>2
  <2>4. Target(mutations, pq[1]) = pq[2] \o Beyond(pq[1], pq[1])
    BY <1>2, <1>6, <2>2, <2>3
  <2>5. Beyond(pq[1], pq[1]) = <<>>
    BY <1>3, One
  <2>6. <<d>> \o <<>> = <<d>>
    OBVIOUS
  <2> QED
    BY <1>3, <2>4, <2>5, <2>6 DEF mutations
<1> QED
  BY <1>7, <1>8

(* Common paths, which observe_transition finds from the mutations and the *)
(* path prefixes alone, are the columns that are the same one.             *)
LEMMA FlatCommon ==
    ASSUME NEW a, IsTable(a), NEW b, IsTable(b)
    PROVE  Common(SchemaOf(a), SchemaOf(b)) = SamePaths(a, b)
<1> DEFINE mutations == diff_schemas(SchemaOf(a), SchemaOf(b))
           kept == {p \in Paths(SchemaOf(a)) : ~GoneWith(mutations, p) /\ Target(mutations, p) \in Paths(SchemaOf(b))}
<1>1. Common(SchemaOf(a), SchemaOf(b)) = {<<p, Target(mutations, p)>> : p \in kept}
  BY DEF Common
<1>2. kept = {pq[1] : pq \in SamePaths(a, b)}
  <2>1. ASSUME NEW p \in kept PROVE p \in {pq[1] : pq \in SamePaths(a, b)}
    <3>1. PICK c \in Names(a) : p = <<c>>
      BY FlatPaths
    <3> QED
      BY <3>1, FlatGone
  <2>2. ASSUME NEW pq \in SamePaths(a, b) PROVE pq[1] \in kept
    <3>1. PICK c \in Names(a), d \in Names(b) : pq = << <<c>>, <<d>> >>
      BY SamePathsUnique
    <3>2. ~GoneWith(mutations, pq[1])
      BY <3>1, FlatGone
    <3>3. Target(mutations, pq[1]) \in Paths(SchemaOf(b))
      BY <3>1, FlatTarget, FlatPaths
    <3>4. pq[1] \in Paths(SchemaOf(a))
      BY <3>1, FlatPaths
    <3> QED
      BY <3>2, <3>3, <3>4
  <2> QED
    BY <2>1, <2>2
<1>3. \A pq \in SamePaths(a, b) : <<pq[1], Target(mutations, pq[1])>> = pq
  BY FlatTarget, SamePathsUnique
<1> HIDE DEF kept, mutations
<1> QED
  BY <1>1, <1>2, <1>3

-----------------------------------------------------------------------------
(***************************************************************************)
(* Relations between the values that changed                               *)
(***************************************************************************)

(* The changes are those of paths that are the same column. *)
LEMMA ChangesOf ==
    ASSUME NEW a, IsTable(a), NEW b, IsTable(b)
    PROVE  /\ DOMAIN Changes(a, b) =
                {pq[2] : pq \in {xy \in SamePaths(a, b) :
                                    \E uv \in PairsAtPath(a, b, xy[1], xy[2]) : ~same(uv[1], uv[2])}}
           /\ \A pq \in SamePaths(a, b) :
                 pq[2] \in DOMAIN Changes(a, b) => Changes(a, b)[pq[2]] = PairsAtPath(a, b, pq[1], pq[2])
<1> DEFINE pairs == [pq \in SamePaths(a, b) |-> PairsAtPath(a, b, pq[1], pq[2])]
           changed == {pq \in DOMAIN pairs : \E xy \in pairs[pq] : ~same(xy[1], xy[2])}
           chosen(q) == CHOOSE pq \in changed : pq[2] = q
<1>1. Changes(a, b) = [q \in {pq[2] : pq \in changed} |-> pairs[chosen(q)]]
  <2>1. pairs = [pq \in Common(SchemaOf(a), SchemaOf(b)) |-> PairsAtPath(a, b, pq[1], pq[2])]
    BY FlatCommon
  <2> HIDE DEF pairs
  <2> QED
    BY <2>1, Zenon DEF Changes
<1>changed. changed = {pq \in SamePaths(a, b) : \E uv \in PairsAtPath(a, b, pq[1], pq[2]) : ~same(uv[1], uv[2])}
  OBVIOUS
<1>2. ASSUME NEW pq \in changed PROVE chosen(pq[2]) = pq
  <2>1. chosen(pq[2]) \in changed /\ chosen(pq[2])[2] = pq[2]
    <3> HIDE DEF changed
    <3> QED
      BY Zenon
  <2> HIDE DEF chosen
  <2> QED
    BY <2>1, SamePathsUnique
<1>3. DOMAIN Changes(a, b) = {pq[2] : pq \in changed}
  BY <1>1
<1>4. ASSUME NEW pq \in SamePaths(a, b), pq[2] \in DOMAIN Changes(a, b)
      PROVE  Changes(a, b)[pq[2]] = PairsAtPath(a, b, pq[1], pq[2])
  <2>1. PICK xy \in changed : xy[2] = pq[2]
    <3> HIDE DEF changed
    <3> QED
      BY <1>3, <1>4
  <2>2. xy = pq
    BY <2>1, SamePathsUnique
  <2>3. pq \in changed
    BY <2>1, <2>2
  <2>4. Changes(a, b)[pq[2]] = pairs[chosen(pq[2])]
    <3> HIDE DEF pairs, chosen, changed
    <3> QED
      BY <1>1, <2>3
  <2> QED
    BY <1>2, <2>3, <2>4
<1> QED
  BY <1>3, <1>4, <1>changed

(* What is compared are canonical values. *)
LEMMA PairsCanonical ==
    ASSUME NEW a, IsTable(a), NEW b, IsTable(b), NEW pq \in SamePaths(a, b), NEW xy \in PairsAtPath(a, b, pq[1], pq[2])
    PROVE  xy[1] \in Canonical /\ xy[2] \in Canonical
<1>1. PICK c \in Names(a), d \in Names(b) : pq = << <<c>>, <<d>> >>
  BY SamePathsUnique
<1>2. Last(pq[1]) = c /\ Last(pq[2]) = d
  BY <1>1, One
<1>3. PICK ij \in (DOMAIN a.rows) \X (DOMAIN b.rows) : xy = <<a.rows[ij[1]][c], b.rows[ij[2]][d]>>
  BY <1>2 DEF PairsAtPath, Aligned
<1> QED
  BY <1>1, <1>3, TableFacts

(* Of two relations that fit values of which some changed both are one. *)
LEMMA OneRelation ==
    ASSUME NEW pairs, \A p \in pairs : p[1] \in Canonical /\ p[2] \in Canonical,
           \E p \in pairs : ~same(p[1], p[2]),
           NEW r \in Relations, NEW s \in Relations, _check_relation(r, pairs), _check_relation(s, pairs)
    PROVE  r = s
<1> DEFINE casts == {"truncated_toward_zero", "nearest_float64", "utf8_encoded", "interpreted_as_utc"}
           kinds(q) == CASE q = "truncated_toward_zero" -> {"float"}
                         [] q = "nearest_float64" -> {"int", "bool"}
                         [] q = "utf8_encoded" -> {"str"}
                         [] q = "interpreted_as_utc" -> {"instant"}
<1>1. \A q \in Relations : q \in {"nulls_filled", "nulled"} \cup casts
  BY DEF Relations
<1>2. PICK c \in pairs : ~same(c[1], c[2])
  OBVIOUS
<1>3. ~ (IsNull(c[1]) /\ IsNull(c[2]))
  <2> SUFFICES ASSUME IsNull(c[1]), IsNull(c[2]) PROVE FALSE
    OBVIOUS
  <2>1. c[1] = Null /\ c[2] = Null
    BY DEF Canonical
  <2> QED
    BY <1>2, <2>1 DEF same, Null, Value, IsNumber
(* A cast leaves nulls as they are, and has values of its own kind to convert. *)
<1>4. ASSUME NEW q \in casts, _check_relation(q, pairs), NEW p \in pairs
      PROVE  (IsNull(p[1]) /\ IsNull(p[2])) \/ (p[1].kind \in kinds(q) /\ ~IsNull(p[1]) /\ ~IsNull(p[2]))
  <2>1. CASE q = "truncated_toward_zero"
    BY <1>4, <2>1 DEF _check_relation, Truncates, BothNull, IsNull
  <2>2. CASE q = "nearest_float64"
    BY <1>4, <2>2 DEF _check_relation, RoundsToFloat, BothNull, IsNull
  <2>3. CASE q = "utf8_encoded"
    <3>1. \A n : Binary(n).kind = "bytes"
      BY DEF Binary, Value
    <3>2. Encodes(p[1], p[2])
      BY <1>4, <2>3 DEF _check_relation
    <3> QED
      BY <2>3, <3>1, <3>2 DEF Encodes, BothNull, IsNull
  <2>4. CASE q = "interpreted_as_utc"
    <3>1. \A n : Instant(n, "UTC").kind = "instant"
      BY DEF Instant, Value
    <3>2. ReadsAsUtc(p[1], p[2])
      BY <1>4, <2>4 DEF _check_relation
    <3> QED
      BY <2>4, <3>1, <3>2 DEF ReadsAsUtc, BothNull, IsNull
  <2> QED
    BY <2>1, <2>2, <2>3, <2>4
<1>5. ASSUME _check_relation("nulls_filled", pairs) PROVE \E p \in pairs : IsNull(p[1]) /\ ~IsNull(p[2])
  BY <1>5 DEF _check_relation
<1>6. ASSUME _check_relation("nulled", pairs)
      PROVE  (\A p \in pairs : IsNull(p[2])) /\ \E p \in pairs : ~IsNull(p[1])
  BY <1>6 DEF _check_relation
<1>7. ASSUME NEW q \in casts, _check_relation(q, pairs)
      PROVE  ~_check_relation("nulls_filled", pairs) /\ ~_check_relation("nulled", pairs)
  BY <1>4, <1>5, <1>6, <1>7
<1>8. ~ (_check_relation("nulls_filled", pairs) /\ _check_relation("nulled", pairs))
  BY <1>5, <1>6
<1>9. ASSUME NEW p \in casts, NEW q \in casts, _check_relation(p, pairs), _check_relation(q, pairs) PROVE p = q
  <2>1. c[1].kind \in kinds(p) /\ c[1].kind \in kinds(q)
    BY <1>3, <1>4, <1>9
  <2> QED
    BY <2>1
<1> HIDE DEF casts, kinds
<1> QED
  BY <1>1, <1>7, <1>8, <1>9

(* Of the relations _check_relation knows, at most one fits the values of  *)
(* a column that changed, for every corpus.                                *)
THEOREM RelationsAreExclusive == Spec => []RelationsExclude
<1>1. ValidatorInv => RelationsExclude
  <2> DEFINE a == tables["from"]
             b == tables["to"]
  <2> SUFFICES ASSUME ValidatorInv, Both, NEW q \in DOMAIN Changes(a, b), NEW r \in Relations, NEW s \in Relations,
                      _check_relation(r, Changes(a, b)[q]), _check_relation(s, Changes(a, b)[q])
               PROVE  r = s
    BY DEF RelationsExclude
  <2>1. IsTable(a) /\ IsTable(b)
    BY DEF ValidatorInv, TablesInv, Both, Versions, Here, New
  <2> HIDE DEF a, b
  <2>2. PICK pq \in SamePaths(a, b) :
          q = pq[2] /\ \E uv \in PairsAtPath(a, b, pq[1], pq[2]) : ~same(uv[1], uv[2])
    <3>1. q \in {pq[2] : pq \in {xy \in SamePaths(a, b) :
                                      \E uv \in PairsAtPath(a, b, xy[1], xy[2]) : ~same(uv[1], uv[2])}}
      BY <2>1, ChangesOf
    <3> QED
      BY <3>1
  <2>3. Changes(a, b)[q] = PairsAtPath(a, b, pq[1], pq[2])
    BY <2>1, <2>2, ChangesOf
  <2> QED
    BY <2>1, <2>2, <2>3, PairsCanonical, OneRelation
<1> QED
  BY <1>1, InvHolds, PTL

-----------------------------------------------------------------------------
(***************************************************************************)
(* Rows and their keys                                                     *)
(***************************************************************************)

(* The keys identify the rows of a table. *)
Keyed(t) ==
    /\ HasIdentity(t)
    /\ \A i, j \in DOMAIN t.rows : row_keys(t)[i] = row_keys(t)[j] => i = j
    /\ identity # <<>> => \A i \in DOMAIN t.rows : row_keys(t)[i] # NoKey

(* Keys that are equal by value are written alike, of two tables. *)
Alike(a, b) ==
    \A i \in DOMAIN a.rows, j \in DOMAIN b.rows, c \in Range(identity) :
        same(a.rows[i][c], b.rows[j][c]) => encode(a.rows[i][c]) = encode(b.rows[j][c])

(* The key of a row: its position, none when it has a null, or the encoded *)
(* values of its identity.                                                 *)
LEMMA KeysOf ==
    ASSUME NEW t, IsTable(t), identity \in Seq(ColumnNames)
    PROVE  /\ DOMAIN row_keys(t) = DOMAIN t.rows
           /\ identity = <<>> => \A i \in DOMAIN t.rows : row_keys(t)[i] = <<"position", i>>
           /\ identity # <<>> => \A i \in DOMAIN t.rows :
                 /\ row_keys(t)[i] = NoKey <=> \E k \in DOMAIN identity : IsNull(t.rows[i][identity[k]])
                 /\ row_keys(t)[i] # NoKey =>
                       row_keys(t)[i] = [k \in DOMAIN identity |-> encode(t.rows[i][identity[k]])]
BY DEF row_keys, NoKey

(* Every value is the same as itself, NaN too. *)
LEMMA SameIsReflexive == \A x : same(x, x)
BY DEF same

(* Rows with one key are the same row, and the other way round when keys   *)
(* are written alike.                                                      *)
LEMMA KeysTell ==
    ASSUME NEW a, IsTable(a), HasIdentity(a), NEW b, IsTable(b), HasIdentity(b), identity \in Seq(ColumnNames),
           NEW i \in DOMAIN a.rows, NEW j \in DOMAIN b.rows,
           identity # <<>> => row_keys(a)[i] # NoKey /\ row_keys(b)[j] # NoKey
    PROVE  /\ row_keys(a)[i] = row_keys(b)[j] => SameRow(a, b, i, j)
           /\ identity # <<>> /\ row_keys(a)[i] = row_keys(b)[j] =>
                 \A c \in Range(identity) : a.rows[i][c] = b.rows[j][c]
           /\ Alike(a, b) /\ SameRow(a, b, i, j) => row_keys(a)[i] = row_keys(b)[j]
<1>1. CASE identity = <<>>
  <2>1. row_keys(a)[i] = <<"position", i>> /\ row_keys(b)[j] = <<"position", j>>
    BY <1>1, KeysOf
  <2>2. SameRow(a, b, i, j) <=> i = j
    BY <1>1 DEF SameRow
  <2> QED
    BY <1>1, <2>1, <2>2
<1>2. CASE identity # <<>>
  <2>1. /\ row_keys(a)[i] = [k \in DOMAIN identity |-> encode(a.rows[i][identity[k]])]
        /\ row_keys(b)[j] = [k \in DOMAIN identity |-> encode(b.rows[j][identity[k]])]
    BY <1>2, KeysOf
  <2>2. \A c \in Range(identity) : /\ c \in Names(a) /\ a.rows[i][c] \in Canonical
                                   /\ c \in Names(b) /\ b.rows[j][c] \in Canonical
    BY TableFacts DEF HasIdentity
  <2>3. row_keys(a)[i] = row_keys(b)[j] <=>
          \A c \in Range(identity) : encode(a.rows[i][c]) = encode(b.rows[j][c])
    <3>1. ASSUME row_keys(a)[i] = row_keys(b)[j], NEW k \in DOMAIN identity
          PROVE  encode(a.rows[i][identity[k]]) = encode(b.rows[j][identity[k]])
      <4>1. row_keys(a)[i][k] = encode(a.rows[i][identity[k]]) /\ row_keys(b)[j][k] = encode(b.rows[j][identity[k]])
        BY <2>1
      <4> QED
        BY <3>1, <4>1
    <3>2. ASSUME \A k \in DOMAIN identity : encode(a.rows[i][identity[k]]) = encode(b.rows[j][identity[k]])
          PROVE  row_keys(a)[i] = row_keys(b)[j]
      BY <2>1, <3>2
    <3> QED
      BY <3>1, <3>2 DEF Range
  <2>4. SameRow(a, b, i, j) <=> \A c \in Range(identity) : same(a.rows[i][c], b.rows[j][c])
    BY <1>2, <2>2 DEF SameRow
  <2>5. ASSUME row_keys(a)[i] = row_keys(b)[j], NEW c \in Range(identity) PROVE a.rows[i][c] = b.rows[j][c]
    BY <2>2, <2>3, <2>5, EncodeExact
  <2>6. ASSUME row_keys(a)[i] = row_keys(b)[j] PROVE SameRow(a, b, i, j)
    BY <2>4, <2>5, <2>6, SameIsReflexive
  <2>7. ASSUME Alike(a, b), SameRow(a, b, i, j) PROVE row_keys(a)[i] = row_keys(b)[j]
    BY <2>3, <2>4, <2>7 DEF Alike
  <2> QED
    BY <1>2, <2>5, <2>6, <2>7
<1> QED
  BY <1>1, <1>2

(* What check_versions asks of the identity: that the keys are keys. *)
LEMMA KeyedFiles ==
    ASSUME NEW v \in Versions, IsTable(tables[v]), HasIdentity(tables[v]), identity \in Seq(ColumnNames)
    PROVE  IdentityProblems(v) = {} <=> Keyed(tables[v])
<1> DEFINE t == tables[v]
           keys == row_keys(t)
           n == Len(t.rows)
<1>1. n \in Nat /\ DOMAIN t.rows = 1..n
  BY TableFacts
<1>2. keys \in Seq(Range(keys)) /\ Len(keys) = n /\ DOMAIN keys = 1..n
  <2>1. DOMAIN keys = 1..n /\ keys = [i \in 1..n |-> keys[i]]
    BY <1>1 DEF row_keys
  <2>2. \A i \in 1..n : keys[i] \in Range(keys)
    BY <2>1 DEF Range
  <2> HIDE DEF keys, n
  <2> QED
    BY <1>1, <2>1, <2>2, SequenceFacts
<1>3. Cardinality(Range(keys)) = n <=> \A i, j \in 1..n : keys[i] = keys[j] => i = j
  <2> HIDE DEF keys, n
  <2>1. keys \in Surjection(1..n, Range(keys))
    BY <1>2 DEF Surjection, Range
  <2>2. IsFiniteSet(1..n) /\ Cardinality(1..n) = n
    BY <1>1, FS_Interval
  <2>3. Cardinality(Range(keys)) = n <=> keys \in Injection(1..n, Range(keys))
    BY <2>1, <2>2, FS_Surjection
  <2>4. keys \in [1..n -> Range(keys)]
    BY <1>2
  <2> QED
    BY <2>3, <2>4 DEF Injection, IsInjective
<1>4. CASE identity = <<>>
  <2>1. \A i \in 1..n : keys[i] = <<"position", i>>
    BY <1>1, <1>4, KeysOf
  <2>2. \A i, j \in 1..n : keys[i] = keys[j] => i = j
    BY <2>1
  <2> QED
    BY <1>1, <1>4, <2>2 DEF IdentityProblems, Keyed
<1>5. CASE identity # <<>>
  <2>1. IdentityProblems(v) = {} <=> NoKey \notin Range(keys) /\ Cardinality(Range(keys)) = n
    BY <1>2, <1>5 DEF IdentityProblems
  <2>2. NoKey \notin Range(keys) <=> \A i \in 1..n : keys[i] # NoKey
    BY <1>2 DEF Range
  <2> QED
    BY <1>1, <1>3, <1>5, <2>1, <2>2 DEF Keyed
<1> QED
  BY <1>4, <1>5

(* Such an identity identifies. *)
LEMMA KeyedIdentifies ==
    ASSUME NEW t, IsTable(t), identity \in Seq(ColumnNames)
    PROVE  /\ Keyed(t) /\ Alike(t, t) => Identifies(t)
           /\ Identifies(t) => Keyed(t)
<1>1. ASSUME Keyed(t), Alike(t, t) PROVE Identifies(t)
  <2>1. ASSUME NEW i \in DOMAIN t.rows, NEW j \in DOMAIN t.rows, SameRow(t, t, i, j) PROVE i = j
    BY <1>1, <2>1, KeysTell DEF Keyed
  <2>2. ASSUME NEW i \in DOMAIN t.rows, NEW c \in Range(identity) PROVE ~IsNull(t.rows[i][c])
    <3>1. PICK k \in DOMAIN identity : c = identity[k]
      BY DEF Range
    <3>2. identity # <<>>
      BY <3>1
    <3> QED
      BY <1>1, <3>1, <3>2, KeysOf DEF Keyed
  <2> QED
    BY <1>1, <2>1, <2>2 DEF Identifies, Keyed
<1>2. ASSUME Identifies(t) PROVE Keyed(t)
  <2>1. ASSUME identity # <<>>, NEW i \in DOMAIN t.rows PROVE row_keys(t)[i] # NoKey
    <3>1. \A k \in DOMAIN identity : identity[k] \in Range(identity)
      BY DEF Range
    <3> QED
      BY <1>2, <2>1, <3>1, KeysOf DEF Identifies
  <2>2. ASSUME NEW i \in DOMAIN t.rows, NEW j \in DOMAIN t.rows, row_keys(t)[i] = row_keys(t)[j] PROVE i = j
    BY <1>2, <2>1, <2>2, KeysTell DEF Identifies
  <2> QED
    BY <1>2, <2>1, <2>2 DEF Keyed, Identifies
<1> QED
  BY <1>1, <1>2

(* With unique keys, alignment is equality of keys. *)
LEMMA AlignedRows ==
    ASSUME NEW a, IsTable(a), NEW b, IsTable(b), Keyed(b)
    PROVE  Aligned(a, b) = {ij \in (DOMAIN a.rows) \X (DOMAIN b.rows) : row_keys(a)[ij[1]] = row_keys(b)[ij[2]]}
<1>1. \A j, l \in DOMAIN b.rows : row_keys(b)[l] = row_keys(b)[j] => l <= j
  <2>1. \A j \in DOMAIN b.rows : j <= j
    BY TableFacts
  <2> QED
    BY <2>1 DEF Keyed
<1> QED
  BY <1>1 DEF Aligned

-----------------------------------------------------------------------------
(***************************************************************************)
(* What is observed is what DESIGN.md defines                              *)
(***************************************************************************)

(* Aligned rows are the same row by value, when keys are written alike. *)
LEMMA AlignedBySameRow ==
    ASSUME NEW a, IsTable(a), NEW b, IsTable(b), identity \in Seq(ColumnNames), Keyed(a), Keyed(b), Alike(a, b)
    PROVE  /\ \A i \in DOMAIN a.rows, j \in DOMAIN b.rows : row_keys(a)[i] = row_keys(b)[j] <=> SameRow(a, b, i, j)
           /\ Aligned(a, b) = {ij \in (DOMAIN a.rows) \X (DOMAIN b.rows) : SameRow(a, b, ij[1], ij[2])}
<1>1. \A i \in DOMAIN a.rows, j \in DOMAIN b.rows : row_keys(a)[i] = row_keys(b)[j] <=> SameRow(a, b, i, j)
  BY KeysTell DEF Keyed
<1> QED
  BY <1>1, AlignedRows

(* The values observe_transition pairs for a column are those of the       *)
(* definition.                                                             *)
LEMMA ValuesAgree ==
    ASSUME NEW a, IsTable(a), NEW b, IsTable(b), identity \in Seq(ColumnNames), Keyed(a), Keyed(b), Alike(a, b),
           NEW f \in Range(a.columns), NEW g \in Range(b.columns), SameColumn(a, b, f, g)
    PROVE  /\ << <<f.name>>, <<g.name>> >> \in SamePaths(a, b)
           /\ PairsAtPath(a, b, <<f.name>>, <<g.name>>) = ValuesByDefinition(a, b, g)
<1>1. PICK i \in DOMAIN a.columns, k \in DOMAIN b.columns : f = a.columns[i] /\ g = b.columns[k]
  BY DEF Range
<1>2. \A x \in Range(a.columns) : SameColumn(a, b, x, g) => x = f
  BY <1>1, FlatMatch DEF Range
<1>3. (CHOOSE x \in Range(a.columns) : SameColumn(a, b, x, g)) = f
  BY <1>2
<1>4. << <<f.name>>, <<g.name>> >> \in SamePaths(a, b)
  <2>1. <<i, k>> \in {jl \in (DOMAIN a.columns) \X (DOMAIN b.columns) :
                        SameColumn(a, b, a.columns[jl[1]], b.columns[jl[2]])}
    BY <1>1
  <2> QED
    BY <1>1, <2>1 DEF SamePaths
<1>5. Last(<<f.name>>) = f.name /\ Last(<<g.name>>) = g.name
  BY One
<1>6. PairsAtPath(a, b, <<f.name>>, <<g.name>>) =
        {<<a.rows[ij[1]][f.name], b.rows[ij[2]][g.name]>> :
            ij \in {xy \in (DOMAIN a.rows) \X (DOMAIN b.rows) : SameRow(a, b, xy[1], xy[2])}}
  BY <1>5, AlignedBySameRow DEF PairsAtPath
<1>7. ValuesByDefinition(a, b, g) =
        {<<a.rows[ij[1]][f.name], b.rows[ij[2]][g.name]>> :
            ij \in {xy \in (DOMAIN a.rows) \X (DOMAIN b.rows) : SameRow(a, b, xy[1], xy[2])}}
  BY <1>3 DEF ValuesByDefinition
<1> QED
  BY <1>4, <1>6, <1>7

(* Some value changed just when it did in some row that is the same one. *)
LEMMA PairsBySameRow ==
    ASSUME NEW a, IsTable(a), NEW b, IsTable(b), identity \in Seq(ColumnNames), Keyed(a), Keyed(b), Alike(a, b),
           NEW c, NEW d
    PROVE  (\E uv \in PairsAtPath(a, b, <<c>>, <<d>>) : ~same(uv[1], uv[2]))
             <=> \E i \in DOMAIN a.rows, j \in DOMAIN b.rows : SameRow(a, b, i, j) /\ ~same(a.rows[i][c], b.rows[j][d])
<1>1. Last(<<c>>) = c /\ Last(<<d>>) = d
  BY One
<1>2. PairsAtPath(a, b, <<c>>, <<d>>) =
        {<<a.rows[ij[1]][c], b.rows[ij[2]][d]>> :
            ij \in {xy \in (DOMAIN a.rows) \X (DOMAIN b.rows) : SameRow(a, b, xy[1], xy[2])}}
  BY <1>1, AlignedBySameRow DEF PairsAtPath
<1> DEFINE there == {xy \in (DOMAIN a.rows) \X (DOMAIN b.rows) : SameRow(a, b, xy[1], xy[2])}
           value(ij) == <<a.rows[ij[1]][c], b.rows[ij[2]][d]>>
<1>values. /\ PairsAtPath(a, b, <<c>>, <<d>>) = {value(ij) : ij \in there}
           /\ \A ij : value(ij)[1] = a.rows[ij[1]][c] /\ value(ij)[2] = b.rows[ij[2]][d]
  BY <1>2
<1>3. ASSUME NEW i \in DOMAIN a.rows, NEW j \in DOMAIN b.rows, SameRow(a, b, i, j), ~same(a.rows[i][c], b.rows[j][d])
      PROVE  \E uv \in PairsAtPath(a, b, <<c>>, <<d>>) : ~same(uv[1], uv[2])
  <2> DEFINE ij == <<i, j>>
  <2>1. ij \in there /\ ij[1] = i /\ ij[2] = j
    BY <1>3
  <2> HIDE DEF ij, there, value
  <2>2. value(ij) \in PairsAtPath(a, b, <<c>>, <<d>>)
    BY <1>values, <2>1
  <2> QED
    BY <1>3, <1>values, <2>1, <2>2
<1>4. ASSUME NEW uv \in PairsAtPath(a, b, <<c>>, <<d>>), ~same(uv[1], uv[2])
      PROVE  \E i \in DOMAIN a.rows, j \in DOMAIN b.rows : SameRow(a, b, i, j) /\ ~same(a.rows[i][c], b.rows[j][d])
  <2>1. PICK ij \in there : uv = value(ij)
    <3> HIDE DEF there, value
    <3> QED
      BY <1>values
  <2>2. ij[1] \in DOMAIN a.rows /\ ij[2] \in DOMAIN b.rows /\ SameRow(a, b, ij[1], ij[2])
    OBVIOUS
  <2> HIDE DEF value
  <2>3. ~same(a.rows[ij[1]][c], b.rows[ij[2]][d])
    BY <1>4, <1>values, <2>1
  <2> QED
    BY <2>2, <2>3
<1> QED
  BY <1>3, <1>4

(* The changes observe_transition finds are those of the definition, with  *)
(* the values of the definition.                                           *)
LEMMA ChangesAgree ==
    ASSUME NEW a, IsTable(a), NEW b, IsTable(b), identity \in Seq(ColumnNames), Keyed(a), Keyed(b), Alike(a, b)
    PROVE  /\ DOMAIN Changes(a, b) = {<<g.name>> : g \in ChangedColumns(a, b)}
           /\ \A g \in ChangedColumns(a, b) : Changes(a, b)[<<g.name>>] = ValuesByDefinition(a, b, g)
<1>1. ASSUME NEW q \in DOMAIN Changes(a, b) PROVE q \in {<<g.name>> : g \in ChangedColumns(a, b)}
  <2>1. PICK pq \in SamePaths(a, b) : q = pq[2] /\ \E uv \in PairsAtPath(a, b, pq[1], pq[2]) : ~same(uv[1], uv[2])
    <3>1. q \in {pq[2] : pq \in {xy \in SamePaths(a, b) :
                                    \E uv \in PairsAtPath(a, b, xy[1], xy[2]) : ~same(uv[1], uv[2])}}
      BY ChangesOf
    <3> QED
      BY <3>1
  <2>2. PICK i \in DOMAIN a.columns, k \in DOMAIN b.columns :
          SameColumn(a, b, a.columns[i], b.columns[k]) /\ pq = << <<a.columns[i].name>>, <<b.columns[k].name>> >>
    BY DEF SamePaths
  <2>3. a.columns[i] \in Range(a.columns) /\ b.columns[k] \in Range(b.columns)
    BY DEF Range
  <2>4. \E x \in DOMAIN a.rows, y \in DOMAIN b.rows :
          SameRow(a, b, x, y) /\ ~same(a.rows[x][a.columns[i].name], b.rows[y][b.columns[k].name])
    BY <2>1, <2>2, PairsBySameRow
  <2>5. b.columns[k] \in ChangedColumns(a, b)
    BY <2>2, <2>3, <2>4 DEF ChangedColumns
  <2> QED
    BY <2>1, <2>2, <2>5
<1>2. ASSUME NEW g \in ChangedColumns(a, b)
      PROVE  <<g.name>> \in DOMAIN Changes(a, b) /\ Changes(a, b)[<<g.name>>] = ValuesByDefinition(a, b, g)
  <2>1. g \in Range(b.columns)
    BY DEF ChangedColumns
  <2>2. PICK f \in Range(a.columns), i \in DOMAIN a.rows, j \in DOMAIN b.rows :
          SameColumn(a, b, f, g) /\ SameRow(a, b, i, j) /\ ~same(a.rows[i][f.name], b.rows[j][g.name])
    BY DEF ChangedColumns
  <2>3. << <<f.name>>, <<g.name>> >> \in SamePaths(a, b)
        /\ PairsAtPath(a, b, <<f.name>>, <<g.name>>) = ValuesByDefinition(a, b, g)
    BY <2>1, <2>2, ValuesAgree
  <2>4. \E uv \in PairsAtPath(a, b, <<f.name>>, <<g.name>>) : ~same(uv[1], uv[2])
    BY <2>2, PairsBySameRow
  <2> DEFINE pq == << <<f.name>>, <<g.name>> >>
  <2>5. pq[1] = <<f.name>> /\ pq[2] = <<g.name>>
    OBVIOUS
  <2> HIDE DEF pq
  <2>6. pq \in {xy \in SamePaths(a, b) : \E uv \in PairsAtPath(a, b, xy[1], xy[2]) : ~same(uv[1], uv[2])}
    BY <2>3, <2>4, <2>5 DEF pq
  <2>7. pq[2] \in DOMAIN Changes(a, b)
    <3>1. pq[2] \in {uv[2] : uv \in {xy \in SamePaths(a, b) :
                                        \E uv \in PairsAtPath(a, b, xy[1], xy[2]) : ~same(uv[1], uv[2])}}
      BY <2>6
    <3> QED
      BY <3>1, ChangesOf, Zenon
  <2>8. Changes(a, b)[pq[2]] = PairsAtPath(a, b, pq[1], pq[2])
    BY <2>6, <2>7, ChangesOf
  <2> QED
    BY <2>3, <2>5, <2>7, <2>8
<1> QED
  BY <1>1, <1>2

(* The facts it finds are those of the definition. *)
LEMMA FactsAgree ==
    ASSUME NEW a, IsTable(a), NEW b, IsTable(b), identity \in Seq(ColumnNames), Keyed(a), Keyed(b), Alike(a, b)
    PROVE  Facts(a, b) = FactsByDefinition(a, b)
<1>rows. /\ Len(a.rows) \in Nat /\ DOMAIN a.rows = 1..Len(a.rows)
         /\ Len(b.rows) \in Nat /\ DOMAIN b.rows = 1..Len(b.rows)
  BY TableFacts
<1>keys. \A i \in DOMAIN a.rows, j \in DOMAIN b.rows : row_keys(a)[i] = row_keys(b)[j] <=> SameRow(a, b, i, j)
  BY AlignedBySameRow
<1>functions. /\ row_keys(a) = [i \in DOMAIN a.rows |-> row_keys(a)[i]]
              /\ row_keys(b) = [i \in DOMAIN b.rows |-> row_keys(b)[i]]
  BY DEF row_keys
<1>1. (row_keys(a) = row_keys(b)) <=> (Len(a.rows) = Len(b.rows) /\ \A i \in DOMAIN a.rows : SameRow(a, b, i, i))
  <2>1. ASSUME row_keys(a) = row_keys(b)
        PROVE  Len(a.rows) = Len(b.rows) /\ \A i \in DOMAIN a.rows : SameRow(a, b, i, i)
    <3>1. DOMAIN a.rows = DOMAIN b.rows
      BY <2>1, KeysOf
    <3>2. Len(a.rows) = Len(b.rows)
      BY <1>rows, <3>1
    <3> QED
      BY <1>keys, <2>1, <3>1, <3>2
  <2>2. ASSUME Len(a.rows) = Len(b.rows), \A i \in DOMAIN a.rows : SameRow(a, b, i, i)
        PROVE  row_keys(a) = row_keys(b)
    <3>1. DOMAIN a.rows = DOMAIN b.rows
      BY <1>rows, <2>2
    <3>2. \A i \in DOMAIN a.rows : row_keys(a)[i] = row_keys(b)[i]
      BY <1>keys, <2>2, <3>1
    <3> QED
      BY <1>functions, <3>1, <3>2
  <2> QED
    BY <2>1, <2>2
<1>2. (Range(row_keys(a)) \subseteq Range(row_keys(b)))
        <=> \A i \in DOMAIN a.rows : \E j \in DOMAIN b.rows : SameRow(a, b, i, j)
  <2>1. /\ Range(row_keys(a)) = {row_keys(a)[i] : i \in DOMAIN a.rows}
        /\ Range(row_keys(b)) = {row_keys(b)[i] : i \in DOMAIN b.rows}
    BY KeysOf DEF Range
  <2> QED
    BY <1>keys, <2>1
<1>3. PathsRetained(SchemaOf(a), SchemaOf(b))
        <=> \A f \in Range(a.columns) : \E g \in Range(b.columns) : SameColumn(a, b, f, g) /\ f.name = g.name
  <2>1. PathsRetained(SchemaOf(a), SchemaOf(b)) <=> \A c \in Names(a) : << <<c>>, <<c>> >> \in SamePaths(a, b)
    BY FlatPaths, FlatCommon DEF PathsRetained
  <2>2. ASSUME NEW f \in Range(a.columns), << <<f.name>>, <<f.name>> >> \in SamePaths(a, b)
        PROVE  \E g \in Range(b.columns) : SameColumn(a, b, f, g) /\ f.name = g.name
    <3>1. PICK i \in DOMAIN a.columns, k \in DOMAIN b.columns :
            /\ SameColumn(a, b, a.columns[i], b.columns[k])
            /\ << <<f.name>>, <<f.name>> >> = << <<a.columns[i].name>>, <<b.columns[k].name>> >>
      BY <2>2 DEF SamePaths
    <3>2. f.name = a.columns[i].name /\ f.name = b.columns[k].name
      BY <3>1
    <3>3. f = a.columns[i]
      BY <3>2 DEF IsTable, UniqueColumns, Range
    <3>4. b.columns[k] \in Range(b.columns)
      BY DEF Range
    <3> QED
      BY <3>1, <3>2, <3>3, <3>4
  <2>3. ASSUME NEW f \in Range(a.columns), NEW g \in Range(b.columns), SameColumn(a, b, f, g), f.name = g.name
        PROVE  << <<f.name>>, <<f.name>> >> \in SamePaths(a, b)
    <3>1. << <<f.name>>, <<g.name>> >> \in SamePaths(a, b)
      BY <2>3, ValuesAgree
    <3> QED
      BY <2>3, <3>1
  <2>4. Names(a) = {f.name : f \in Range(a.columns)}
    BY DEF Names, Range
  <2>5. PathsRetained(SchemaOf(a), SchemaOf(b))
          <=> \A f \in Range(a.columns) : << <<f.name>>, <<f.name>> >> \in SamePaths(a, b)
    BY <2>1, <2>4
  <2> QED
    BY <2>2, <2>3, <2>5
<1>4. (DOMAIN Changes(a, b) = {}) <=> (ChangedColumns(a, b) = {})
  <2>1. DOMAIN Changes(a, b) = {<<g.name>> : g \in ChangedColumns(a, b)}
    BY ChangesAgree
  <2> QED
    BY <2>1, Zenon
<1> DEFINE counted == Len(a.rows) = Len(b.rows)
           identical == row_keys(a) = row_keys(b)
           retained == Range(row_keys(a)) \subseteq Range(row_keys(b))
           paths == PathsRetained(SchemaOf(a), SchemaOf(b))
           preserved == DOMAIN Changes(a, b) = {}
<1>5. identical = (Len(a.rows) = Len(b.rows) /\ \A i \in DOMAIN a.rows : SameRow(a, b, i, i))
  BY <1>1
<1>6. retained = (\A i \in DOMAIN a.rows : \E j \in DOMAIN b.rows : SameRow(a, b, i, j))
  BY <1>2
<1>7. paths = (\A f \in Range(a.columns) : \E g \in Range(b.columns) : SameColumn(a, b, f, g) /\ f.name = g.name)
  BY <1>3 DEF PathsRetained
<1>8. preserved = (ChangedColumns(a, b) = {})
  BY <1>4
<1>9. Facts(a, b) = [row_count_preserved |-> counted, row_identity_preserved |-> identical, rows_retained |-> retained,
                     paths_retained |-> paths, common_values_preserved |-> preserved]
  BY Zenon DEF Facts
<1> HIDE DEF identical, retained, paths, preserved
<1> QED
  BY <1>5, <1>6, <1>7, <1>8, <1>9 DEF FactsByDefinition

-----------------------------------------------------------------------------
(***************************************************************************)
(* Accepted manifests and true ones                                        *)
(***************************************************************************)

(* The whole state when both files are there. *)
LEMMA BothTyped ==
    ASSUME ValidatorInv, Both
    PROVE  /\ identity \in Seq(ColumnNames)
           /\ \A v \in Versions : IsTable(tables[v])
BY DEF ValidatorInv, TablesInv, Both, Versions, Here, New

(* The assumption on keys, file by file. *)
LEMMA WrittenAlike ==
    ASSUME KeysAreWrittenAlike, NEW v \in Versions, NEW w \in Versions
    PROVE  Alike(tables[v], tables[w])
BY DEF KeysAreWrittenAlike, Alike

(* What check_transitions reports no problem of, and the other way round. *)
LEMMA TransitionsMatch ==
    ASSUME NEW a, NEW b, manifest.facts \in [FactNames -> BOOLEAN]
    PROVE  /\ TransitionProblems(observe_transition(a, b)) = {} =>
                 /\ manifest.facts = Facts(a, b)
                 /\ DOMAIN manifest.relations = DOMAIN Changes(a, b)
                 /\ \A q \in DOMAIN Changes(a, b) : _check_relation(manifest.relations[q], Changes(a, b)[q])
           /\ /\ manifest.mutations = diff_schemas(SchemaOf(a), SchemaOf(b))
              /\ manifest.facts = Facts(a, b)
              /\ DOMAIN manifest.relations = DOMAIN Changes(a, b)
              /\ \A q \in DOMAIN Changes(a, b) : _check_relation(manifest.relations[q], Changes(a, b)[q])
              => TransitionProblems(observe_transition(a, b)) = {}
<1> DEFINE seen == observe_transition(a, b)
<1>1. /\ seen.mutations = diff_schemas(SchemaOf(a), SchemaOf(b))
      /\ seen.facts = Facts(a, b) /\ seen.changes = Changes(a, b)
  BY DEF observe_transition
<1>2. Facts(a, b) = [n \in FactNames |-> Facts(a, b)[n]]
  BY DEF Facts, FactNames
<1> HIDE DEF seen
<1>3. ASSUME TransitionProblems(seen) = {}
      PROVE  /\ \A n \in DOMAIN seen.facts : manifest.facts[n] = seen.facts[n]
             /\ DOMAIN manifest.relations = DOMAIN seen.changes
             /\ \A q \in (DOMAIN manifest.relations) \cap (DOMAIN seen.changes) :
                   _check_relation(manifest.relations[q], seen.changes[q])
  <2>1. {<<"fact", n>> : n \in {x \in DOMAIN seen.facts : manifest.facts[x] # seen.facts[x]}} = {}
    BY <1>3 DEF TransitionProblems
  <2>2. {<<"relation", q>> : q \in {p \in (DOMAIN manifest.relations) \cap (DOMAIN seen.changes) :
            ~_check_relation(manifest.relations[p], seen.changes[p])}} = {}
    BY <1>3 DEF TransitionProblems
  <2>3. DOMAIN manifest.relations = DOMAIN seen.changes
    BY <1>3 DEF TransitionProblems
  <2> QED
    BY <2>1, <2>2, <2>3
<1>4. ASSUME manifest.mutations = seen.mutations, manifest.facts = seen.facts,
             DOMAIN manifest.relations = DOMAIN seen.changes,
             \A q \in DOMAIN seen.changes : _check_relation(manifest.relations[q], seen.changes[q])
      PROVE  TransitionProblems(seen) = {}
  <2>1. SymDiff(manifest.mutations, seen.mutations) = {}
    BY <1>4 DEF SymDiff
  <2> QED
    BY <1>4, <2>1 DEF TransitionProblems
<1>5. ASSUME TransitionProblems(seen) = {} PROVE manifest.facts = Facts(a, b)
  <2>1. \A n \in FactNames : manifest.facts[n] = Facts(a, b)[n]
    BY <1>1, <1>2, <1>3, <1>5
  <2> QED
    BY <1>2, <2>1
<1> QED
  BY <1>1, <1>3, <1>4, <1>5 DEF seen

(* The state that accepts a manifest makes it true. *)
LEMMA AcceptedIsTrue == ASSUME ValidatorInv PROVE AcceptedManifestsAreTrue
<1> SUFFICES ASSUME Accepted
             PROVE  Both /\ (KeysAreWrittenAlike =>
                               /\ \A v \in Versions : Identifies(tables[v])
                               /\ manifest.facts = FactsByDefinition(tables["from"], tables["to"])
                               /\ RelationsAreTrue)
  BY DEF AcceptedManifestsAreTrue
<1>1. Both
  BY NothingReported
<1> SUFFICES ASSUME KeysAreWrittenAlike
             PROVE  /\ \A v \in Versions : Identifies(tables[v])
                    /\ manifest.facts = FactsByDefinition(tables["from"], tables["to"])
                    /\ RelationsAreTrue
  BY <1>1
<1> DEFINE a == tables["from"]
           b == tables["to"]
<1>2. \A v \in Versions : IsTable(tables[v]) /\ identity \in Seq(ColumnNames)
  BY <1>1, BothTyped
<1>3. \A v \in Versions : Keyed(tables[v])
  BY <1>2, NothingReported, KeyedFiles
<1>4. \A v \in Versions : Identifies(tables[v])
  BY <1>2, <1>3, WrittenAlike, KeyedIdentifies
<1>5. /\ IsTable(a) /\ IsTable(b) /\ identity \in Seq(ColumnNames) /\ Keyed(a) /\ Keyed(b) /\ Alike(a, b)
      /\ manifest.facts \in [FactNames -> BOOLEAN]
  BY <1>2, <1>3, WrittenAlike DEF Versions, ValidatorInv, ManifestInv, Accepted, Declares
<1>6. TransitionProblems(observe_transition(a, b)) = {}
  BY NothingReported
<1> HIDE DEF a, b
<1>7. /\ manifest.facts = Facts(a, b)
      /\ DOMAIN manifest.relations = DOMAIN Changes(a, b)
      /\ \A q \in DOMAIN Changes(a, b) : _check_relation(manifest.relations[q], Changes(a, b)[q])
  BY <1>5, <1>6, TransitionsMatch
<1>8. manifest.facts = FactsByDefinition(a, b)
  BY <1>5, <1>7, FactsAgree
<1>9. /\ DOMAIN manifest.relations = {<<g.name>> : g \in ChangedColumns(a, b)}
      /\ \A g \in ChangedColumns(a, b) : _check_relation(manifest.relations[<<g.name>>], ValuesByDefinition(a, b, g))
  <2>1. DOMAIN Changes(a, b) = {<<g.name>> : g \in ChangedColumns(a, b)}
        /\ \A g \in ChangedColumns(a, b) : Changes(a, b)[<<g.name>>] = ValuesByDefinition(a, b, g)
    BY <1>5, ChangesAgree
  <2>2. ASSUME NEW g \in ChangedColumns(a, b)
        PROVE  _check_relation(manifest.relations[<<g.name>>], ValuesByDefinition(a, b, g))
    <3>1. <<g.name>> \in DOMAIN Changes(a, b) /\ Changes(a, b)[<<g.name>>] = ValuesByDefinition(a, b, g)
      BY <2>1
    <3>2. _check_relation(manifest.relations[<<g.name>>], Changes(a, b)[<<g.name>>])
      BY <1>7, <3>1
    <3> QED
      BY <3>1, <3>2
  <2> QED
    BY <1>7, <2>1, <2>2
<1> QED
  BY <1>4, <1>8, <1>9 DEF RelationsAreTrue, a, b

(* The files of a manifest that check_scenario accepts are there, and, if  *)
(* equal keys are written alike, identified, and the facts and relations   *)
(* are those of DESIGN.md, found by value equality alone.                  *)
THEOREM AcceptedAreTrue == Spec => []AcceptedManifestsAreTrue
BY AcceptedIsTrue, InvHolds, PTL

(* The state that makes a manifest true accepts it. *)
LEMMA TrueIsAccepted == ASSUME ValidatorInv PROVE TrueManifestsAreAccepted
<1> SUFFICES ASSUME TrueManifest, KeysAreWrittenAlike PROVE Accepted
  BY DEF TrueManifestsAreAccepted
<1> DEFINE a == tables["from"]
           b == tables["to"]
<1>1. /\ manifest # Undeclared /\ Both
      /\ \A v \in Versions : IsTable(tables[v]) /\ identity \in Seq(ColumnNames)
  BY BothTyped DEF TrueManifest
<1>2. Declares(manifest, manifest.of)
  BY <1>1 DEF ValidatorInv, ManifestInv
<1>3. \A v \in Versions : HasIdentity(tables[v]) /\ Keyed(tables[v])
  BY <1>1, KeyedIdentifies DEF TrueManifest, Identifies
<1>4. \A v \in Versions : ContentProblems(v) = {} /\ IdentityProblems(v) = {}
  BY <1>1, <1>3, KeyedFiles DEF TrueManifest
<1>5. /\ IsTable(a) /\ IsTable(b) /\ identity \in Seq(ColumnNames) /\ Keyed(a) /\ Keyed(b) /\ Alike(a, b)
      /\ manifest.facts \in [FactNames -> BOOLEAN]
      /\ manifest.mutations = diff_schemas(SchemaOf(a), SchemaOf(b))
      /\ manifest.facts = FactsByDefinition(a, b)
      /\ DOMAIN manifest.relations = {<<g.name>> : g \in ChangedColumns(a, b)}
      /\ \A g \in ChangedColumns(a, b) : _check_relation(manifest.relations[<<g.name>>], ValuesByDefinition(a, b, g))
  BY <1>1, <1>2, <1>3, WrittenAlike DEF Versions, Declares, TrueManifest, RelationsAreTrue
<1>6. ManifestProblems = {}
  <2>1. ASSUME NEW v \in Versions PROVE Range(identity) \subseteq manifest.names[v]
    <3>1. manifest.names[v] = Names(manifest.of[v]) /\ manifest.schemas[v] = manifest.of[v].columns
      BY <1>2 DEF Declares
    <3>2. manifest.schemas[v] = tables[v].columns
      BY <1>4, DeclaredColumns
    <3>3. Names(manifest.of[v]) = Names(tables[v])
      BY <3>1, <3>2 DEF Names
    <3> QED
      BY <1>3, <3>1, <3>3 DEF HasIdentity
  <2>2. manifest.facts.common_values_preserved <=> ChangedColumns(a, b) = {}
    <3> HIDE DEF a, b
    <3> QED
      BY <1>5 DEF FactsByDefinition
  <2>3. (DOMAIN manifest.relations # {}) <=> ChangedColumns(a, b) # {}
    BY <1>5, ZenonT(40)
  <2>4. manifest.facts.common_values_preserved # (DOMAIN manifest.relations # {})
    BY <2>2, <2>3
  <2> QED
    BY <2>1, <2>4 DEF ManifestProblems
<1>7. check_versions = {}
  BY <1>1, <1>4 DEF check_versions, Both
<1>8. check_transitions = {}
  <2> HIDE DEF a, b
  <2>1. DOMAIN Changes(a, b) = {<<g.name>> : g \in ChangedColumns(a, b)}
        /\ \A g \in ChangedColumns(a, b) : Changes(a, b)[<<g.name>>] = ValuesByDefinition(a, b, g)
    BY <1>5, ChangesAgree
  <2>2. ASSUME NEW q \in DOMAIN Changes(a, b) PROVE _check_relation(manifest.relations[q], Changes(a, b)[q])
    <3>1. PICK g \in ChangedColumns(a, b) : q = <<g.name>>
      BY <2>1
    <3> QED
      BY <1>5, <2>1, <3>1
  <2>3. manifest.facts = Facts(a, b)
    BY <1>5, FactsAgree
  <2>4. TransitionProblems(observe_transition(a, b)) = {}
    BY <1>5, <2>1, <2>2, <2>3, TransitionsMatch
  <2> QED
    BY <1>1, <2>4 DEF check_transitions, Both, a, b
<1>9. ~Raises
  BY <1>3 DEF Raises
<1> QED
  BY <1>1, <1>6, <1>7, <1>8, <1>9 DEF Accepted, check_scenario

(* A manifest that is true of the files is accepted, if equal keys are     *)
(* written alike: check_scenario has no problem to report of it.           *)
THEOREM TrueAreAccepted == Spec => []TrueManifestsAreAccepted
BY TrueIsAccepted, InvHolds, PTL

(* The row of the old key in the new file is the row with all the old      *)
(* values.                                                                 *)
LEMMA NothingIsLost == ASSUME ValidatorInv PROVE PositiveFactsLoseNothing
<1> SUFFICES ASSUME Accepted, manifest.facts.rows_retained, manifest.facts.paths_retained,
                    manifest.facts.common_values_preserved, NEW i \in DOMAIN tables["from"].rows
             PROVE  Kin(i) # {} /\ (KeysAreWrittenAlike => Cardinality(Kin(i)) = 1)
  BY DEF PositiveFactsLoseNothing
<1> DEFINE a == tables["from"]
           b == tables["to"]
<1>1. Both /\ \A v \in Versions : IsTable(tables[v]) /\ identity \in Seq(ColumnNames)
  BY NothingReported, BothTyped
<1>2. \A v \in Versions : Keyed(tables[v]) /\ HasIdentity(tables[v])
  BY <1>1, NothingReported, KeyedFiles
<1>3. /\ IsTable(a) /\ IsTable(b) /\ identity \in Seq(ColumnNames) /\ Keyed(a) /\ Keyed(b)
      /\ HasIdentity(a) /\ HasIdentity(b)
      /\ manifest.facts \in [FactNames -> BOOLEAN]
  BY <1>1, <1>2 DEF Versions, ValidatorInv, ManifestInv, Accepted, Declares
<1>4. TransitionProblems(observe_transition(a, b)) = {}
  BY NothingReported
<1>5. /\ KeysAreWrittenAlike => Alike(a, b)
      /\ i \in DOMAIN a.rows
  BY WrittenAlike DEF Versions
<1>6. Kin(i) = {j \in DOMAIN b.rows :
                  (identity = <<>> => i = j) /\ \A c \in Names(a) : same(a.rows[i][c], b.rows[j][c])}
  BY DEF Kin
<1> HIDE DEF a, b
<1>7. Facts(a, b).rows_retained /\ Facts(a, b).paths_retained /\ Facts(a, b).common_values_preserved
  BY <1>3, <1>4, TransitionsMatch
<1>8. PICK j \in DOMAIN b.rows : row_keys(a)[i] = row_keys(b)[j]
  <2>1. Range(row_keys(a)) \subseteq Range(row_keys(b))
    BY <1>7 DEF Facts
  <2> QED
    BY <1>3, <1>5, <2>1, KeysOf, SMTT(40) DEF Range
<1>9. \A c \in Names(a) : << <<c>>, <<c>> >> \in SamePaths(a, b)
  <2>1. PathsRetained(SchemaOf(a), SchemaOf(b))
    BY <1>7 DEF Facts
  <2> QED
    BY <1>3, <2>1, FlatPaths, FlatCommon DEF PathsRetained
<1>10. ASSUME NEW c \in Names(a) PROVE same(a.rows[i][c], b.rows[j][c])
  <2> DEFINE pq == << <<c>>, <<c>> >>
             ij == <<i, j>>
  <2>1. pq \in SamePaths(a, b) /\ pq[1] = <<c>> /\ pq[2] = <<c>> /\ Last(<<c>>) = c
    BY <1>9, One
  <2>2. ij \in Aligned(a, b) /\ ij[1] = i /\ ij[2] = j
    BY <1>3, <1>5, <1>8, AlignedRows
  <2> HIDE DEF pq, ij
  <2>3. <<a.rows[i][c], b.rows[j][c]>> \in PairsAtPath(a, b, pq[1], pq[2])
    BY <2>1, <2>2 DEF PairsAtPath
  <2>4. DOMAIN Changes(a, b) = {}
    BY <1>7 DEF Facts
  <2>5. {xy \in SamePaths(a, b) : \E uv \in PairsAtPath(a, b, xy[1], xy[2]) : ~same(uv[1], uv[2])} = {}
    <3>1. DOMAIN Changes(a, b) = {xy[2] : xy \in {zw \in SamePaths(a, b) :
                                     \E uv \in PairsAtPath(a, b, zw[1], zw[2]) : ~same(uv[1], uv[2])}}
      BY <1>3, ChangesOf
    <3> QED
      BY <2>4, <3>1, Zenon
  <2>6. \A uv \in PairsAtPath(a, b, pq[1], pq[2]) : same(uv[1], uv[2])
    BY <2>1, <2>5
  <2> QED
    BY <2>3, <2>6
<1>11. identity = <<>> => i = j
  BY <1>3, <1>5, <1>8, KeysOf
<1>12. j \in Kin(i)
  BY <1>6, <1>10, <1>11
<1>13. ASSUME KeysAreWrittenAlike PROVE Cardinality(Kin(i)) = 1
  <2>1. ASSUME NEW k \in Kin(i) PROVE k = j
    <3>1. k \in DOMAIN b.rows /\ (identity = <<>> => i = k) /\ \A c \in Names(a) : same(a.rows[i][c], b.rows[k][c])
      BY <1>6, <2>1
    <3>2. SameRow(a, b, i, k)
      BY <1>3, <3>1 DEF SameRow, HasIdentity
    <3>3. row_keys(a)[i] = row_keys(b)[k]
      BY <1>3, <1>5, <1>13, <3>1, <3>2, AlignedBySameRow
    <3> QED
      BY <1>3, <1>8, <3>1, <3>3 DEF Keyed
  <2>2. Kin(i) = {j}
    BY <1>12, <2>1
  <2> QED
    BY <2>2, FS_Singleton
<1> QED
  BY <1>12, <1>13

(* When an accepted manifest says that rows and paths are retained and     *)
(* values preserved, every row of the old file is in the new one with all  *)
(* it held.                                                                *)
THEOREM PositiveFactsAreSound == Spec => []PositiveFactsLoseNothing
BY NothingIsLost, InvHolds, PTL

-----------------------------------------------------------------------------
(***************************************************************************)
(* One cast                                                                *)
(***************************************************************************)

Casts == {"truncated_toward_zero", "nearest_float64", "utf8_encoded", "interpreted_as_utc"}

(* u is t after a cast of one column. *)
CastBy(relation, name, t, u) ==
    \E k \in DOMAIN t.columns, types \in DOMAIN Conversions :
        /\ name = t.columns[k].name /\ relation = Conversions[types]
        /\ Castable(t, k, types)
        /\ u = CastOf(t, k, types)

(* The old file is the original, and after one cast the new one is that    *)
(* file cast.                                                              *)
History ==
    /\ \E s \in Starts : tables["from"] = Table(s.columns, s.rows) /\ identity = s.identity
    /\ edits = <<>> => tables["to"] = tables["from"]
    /\ \A name : \A relation \in Casts :
          edits = << <<name, relation>> >> => CastBy(relation, name, tables["from"], tables["to"])

(* Nothing was edited yet. *)
LEMMA HistoryInit == Init => History
<1> SUFFICES ASSUME Init PROVE History
  OBVIOUS
<1>1. edits = <<>> /\ tables["to"] = tables["from"]
  BY DEF Init, Versions
<1>2. \E s \in Starts : tables["from"] = Table(s.columns, s.rows) /\ identity = s.identity
  BY DEF Init, Versions
<1> QED
  BY <1>1, <1>2 DEF History

(* The first edit starts from the original; a later one is not the only    *)
(* one.                                                                    *)
LEMMA EditHistory ==
    ASSUME ValidatorInv, History, NEW name, NEW relation, NEW table, Edit(<<name, relation>>, table),
           relation \in Casts => CastBy(relation, name, tables["to"], table)
    PROVE  History'
<1>1. tables' = [tables EXCEPT !["to"] = table] /\ edits' = Append(edits, <<name, relation>>) /\ UNCHANGED identity
  BY DEF Edit
<1>2. tables'["from"] = tables["from"] /\ tables'["to"] = table
  BY <1>1 DEF ValidatorInv, TablesInv, Versions
<1>3. edits \in Seq(Edits)
  BY DEF ValidatorInv, TablesInv
<1>4. edits' # <<>> /\ (edits' = Append(<<>>, <<name, relation>>) => edits = <<>>)
  BY <1>1, <1>3
<1>5. ASSUME NEW n, NEW r \in Casts, edits' = << <<n, r>> >>
      PROVE  CastBy(r, n, tables["from"], table)
  <2>1. edits = <<>> /\ n = name /\ r = relation
    BY <1>1, <1>3, <1>5
  <2> QED
    BY <2>1 DEF History
<1> QED
  BY <1>1, <1>2, <1>4, <1>5 DEF History

(* Every step keeps the history. *)
LEMMA HistoryStep == ValidatorInv /\ History /\ [Next]_vars => History'
<1> SUFFICES ASSUME ValidatorInv, History, [Next]_vars PROVE History'
  OBVIOUS
<1>0. "rows" \notin Casts /\ "value" \notin Casts /\ "columns" \notin Casts /\ "file" \notin Casts
  BY DEF Casts
<1>1. CASE DeleteRow \/ RepeatRow \/ SwapRows
  <2>1. PICK table : Edit(<<"", "rows">>, table)
    BY <1>1 DEF DeleteRow, RepeatRow, SwapRows
  <2> QED
    BY <1>0, <2>1, EditHistory
<1>2. CASE SetValue
  <2>1. PICK table : Edit(<<"", "value">>, table)
    BY <1>2 DEF SetValue
  <2> QED
    BY <1>0, <2>1, EditHistory
<1>3. CASE Cast
  <2>1. PICK k \in DOMAIN New.columns, types \in DOMAIN Conversions :
          /\ Castable(New, k, types)
          /\ Edit(<<New.columns[k].name, Conversions[types]>>, CastOf(New, k, types))
    BY <1>3 DEF Cast
  <2>2. CastBy(Conversions[types], New.columns[k].name, New, CastOf(New, k, types))
    BY <2>1 DEF CastBy
  <2> QED
    BY <2>1, <2>2, EditHistory DEF New
<1>4. CASE DropColumn \/ RenameColumn \/ ReplaceColumn
  <2>1. PICK table : Edit(<<"", "columns">>, table)
    BY <1>4 DEF DropColumn, RenameColumn, ReplaceColumn
  <2> QED
    BY <1>0, <2>1, EditHistory
<1>5. CASE RemoveFile
  BY <1>0, <1>5, EditHistory DEF RemoveFile
<1>6. CASE Declare \/ UNCHANGED vars
  <2>1. UNCHANGED <<tables, identity, edits>>
    BY <1>6 DEF Declare, vars
  <2> QED
    BY <2>1 DEF History
<1> QED
  BY <1>1, <1>2, <1>3, <1>4, <1>5, <1>6 DEF Next

(* Both invariants together. *)
LEMMA HistoryHolds == Spec => [](ValidatorInv /\ History)
<1>1. Init => ValidatorInv /\ History
  BY InvInit, HistoryInit
<1>2. ValidatorInv /\ History /\ [Next]_vars => (ValidatorInv /\ History)'
  BY InvStep, HistoryStep
<1> QED
  BY <1>1, <1>2, PTL DEF Spec

(* A converted value has the relation of its conversion, and is the same    *)
(* value only as the number it was.                                         *)
LEMMA ConvertedHolds ==
    ASSUME NEW relation \in Casts, NEW v \in Canonical, Converts(relation, v), ~IsNaN(v)
    PROVE  /\ relation = "truncated_toward_zero" => Truncates(v, Converted(relation, v))
           /\ relation = "nearest_float64" => RoundsToFloat(v, Converted(relation, v))
           /\ relation = "utf8_encoded" => Encodes(v, Converted(relation, v))
           /\ relation = "interpreted_as_utc" => ReadsAsUtc(v, Converted(relation, v))
           /\ same(v, Converted(relation, v)) <=> Kept(v, Converted(relation, v))
<1> DEFINE w == Converted(relation, v)
<1>1. CASE IsNull(v)
  <2>1. w = v
    BY <1>1 DEF Converted
  <2> HIDE DEF w
  <2> QED
    BY <1>1, <2>1, SameIsReflexive DEF Truncates, RoundsToFloat, Encodes, ReadsAsUtc, BothNull, Kept, w
<1>2. CASE ~IsNull(v)
  <2>1. CASE relation = "truncated_toward_zero"
    <3>1. w.kind = "int" /\ w.n = 2 * Truncated(v.n) /\ w.form = "" /\ v.kind = "float"
      BY <1>2, <2>1 DEF Converted, IntValue, Value, Converts
    <3> HIDE DEF w
    <3>2. Truncates(v, w)
      BY <3>1 DEF Truncates, IsNaN
    <3>3. same(v, w) <=> Kept(v, w)
      BY <1>2, <3>1 DEF same, Kept, IsNumber, IsNaN, BothNull, IsNull
    <3> QED
      BY <2>1, <3>2, <3>3 DEF w
  <2>2. CASE relation = "nearest_float64"
    <3>1. w.kind = "float" /\ w.n = 2 * Nearest(v.n \div 2) /\ w.form = "" /\ v.kind = "int"
      BY <1>2, <2>2 DEF Converted, FloatValue, Value, Converts
    <3> HIDE DEF w
    <3>2. RoundsToFloat(v, w)
      BY <3>1 DEF RoundsToFloat
    <3>3. same(v, w) <=> Kept(v, w)
      BY <1>2, <3>1 DEF same, Kept, IsNumber, IsNaN, BothNull, IsNull
    <3> QED
      BY <2>2, <3>2, <3>3 DEF w
  <2>3. CASE relation = "utf8_encoded"
    <3>1. w = Binary(v.n) /\ v.kind = "str"
      BY <1>2, <2>3 DEF Converted, Converts
    <3>2. w.kind = "bytes"
      <4>1. \A n : Binary(n).kind = "bytes"
        BY DEF Binary, Value
      <4> HIDE DEF w
      <4> QED
        BY <3>1, <4>1
    <3> HIDE DEF w
    <3>3. Encodes(v, w)
      BY <3>1 DEF Encodes
    <3>4. same(v, w) <=> Kept(v, w)
      BY <1>2, <3>1, <3>2 DEF same, Kept, IsNumber, IsNaN, BothNull, IsNull
    <3> QED
      BY <2>3, <3>3, <3>4 DEF w
  <2>4. CASE relation = "interpreted_as_utc"
    <3>1. w = Instant(v.n, "UTC") /\ v.kind = "instant" /\ v.form = "naive"
      BY <1>2, <2>4 DEF Converted, Converts
    <3>2. w.kind = "instant" /\ w.form = "UTC"
      BY <3>1 DEF Instant, Value
    <3> HIDE DEF w
    <3>3. ReadsAsUtc(v, w)
      BY <3>1 DEF ReadsAsUtc
    <3>4. same(v, w) <=> Kept(v, w)
      BY <1>2, <3>1, <3>2 DEF same, Kept, IsNumber, IsNaN, BothNull, IsNull
    <3> QED
      BY <2>4, <3>3, <3>4 DEF w
  <2> QED
    BY <2>1, <2>2, <2>3, <2>4 DEF Casts
<1> QED
  BY <1>1, <1>2

(* The columns and rows of a file before and after a cast of one column. *)
LEMMA CastRows ==
    ASSUME NEW t, IsTable(t), NEW k \in DOMAIN t.columns, NEW types \in DOMAIN Conversions
    PROVE  LET u == CastOf(t, k, types)
               c == t.columns[k].name
           IN  /\ IsTable(u) /\ Names(u) = Names(t) /\ DOMAIN u.rows = DOMAIN t.rows
               /\ DOMAIN u.columns = DOMAIN t.columns
               /\ \A i \in DOMAIN t.columns : u.columns[i].name = t.columns[i].name /\ u.columns[i].id = t.columns[i].id
               /\ \A i \in DOMAIN t.rows : \A d \in Names(t) :
                     u.rows[i][d] = IF d = c THEN Converted(Conversions[types], t.rows[i][c]) ELSE t.rows[i][d]
<1> DEFINE u == CastOf(t, k, types)
           c == t.columns[k].name
<1>1. /\ u.columns = [t.columns EXCEPT ![k].kind = types[2]]
      /\ u.rows = [i \in DOMAIN t.rows |-> [t.rows[i] EXCEPT ![c] = Converted(Conversions[types], @)]]
  BY DEF CastOf
<1>2. IsTable(u)
  BY CastKeeps
<1> HIDE DEF u
<1>3. /\ DOMAIN u.columns = DOMAIN t.columns
      /\ \A i \in DOMAIN t.columns : u.columns[i].name = t.columns[i].name /\ u.columns[i].id = t.columns[i].id
  <2>1. \A i \in DOMAIN t.columns : t.columns[i] \in Columns
    BY TableFacts
  <2>2. t.columns \in Seq(Columns)
    BY DEF IsTable
  <2> QED
    BY <1>1, <2>1, <2>2 DEF Columns
<1>4. Names(u) = Names(t)
  BY <1>3 DEF Names
<1>5. DOMAIN u.rows = DOMAIN t.rows
  BY <1>1
<1>6. ASSUME NEW i \in DOMAIN t.rows, NEW d \in Names(t)
      PROVE  u.rows[i][d] = IF d = c THEN Converted(Conversions[types], t.rows[i][c]) ELSE t.rows[i][d]
  <2>1. t.rows[i] \in [Names(t) -> Canonical]
    BY TableFacts
  <2>2. u.rows[i] = [t.rows[i] EXCEPT ![c] = Converted(Conversions[types], t.rows[i][c])]
    BY <1>1
  <2> HIDE DEF c
  <2> QED
    BY <2>1, <2>2
<1> QED
  BY <1>2, <1>3, <1>4, <1>5, <1>6 DEF u

(* The original identifies its rows, by its keys too. *)
LEMMA OriginalKeyed ==
    ASSUME ValidatorInv, History
    PROVE  Keyed(tables["from"])
<1> DEFINE a == tables["from"]
<1>1. PICK s \in Starts : a = Table(s.columns, s.rows) /\ identity = s.identity
  BY DEF History
<1>2. IsTable(a) /\ identity \in Seq(ColumnNames) /\ identity \in Seq(Names(s))
  BY <1>1, StartsAssumption DEF ValidatorInv, TablesInv
<1>3. Names(a) = Names(s) /\ a.rows = s.rows
  BY <1>1 DEF Table, Names
<1> HIDE DEF a
<1>4. HasIdentity(a)
  BY <1>2, <1>3 DEF HasIdentity, Range
<1>5. /\ \A i \in DOMAIN a.rows, c \in Range(identity) : ~IsNull(a.rows[i][c])
      /\ identity # <<>> =>
            \A i, j \in DOMAIN a.rows :
               (\A c \in Range(identity) : encode(a.rows[i][c]) = encode(a.rows[j][c])) => i = j
  BY <1>1, <1>3, OriginalsAssumption
<1>6. ASSUME identity # <<>>, NEW i \in DOMAIN a.rows PROVE row_keys(a)[i] # NoKey
  <2>1. \A k \in DOMAIN identity : identity[k] \in Range(identity)
    BY DEF Range
  <2>2. ~ \E k \in DOMAIN identity : IsNull(a.rows[i][identity[k]])
    BY <1>5, <2>1
  <2> QED
    BY <1>2, <1>6, <2>2, KeysOf
<1>7. ASSUME NEW i \in DOMAIN a.rows, NEW j \in DOMAIN a.rows, row_keys(a)[i] = row_keys(a)[j] PROVE i = j
  <2>1. CASE identity = <<>>
    <3>1. row_keys(a)[i] = <<"position", i>> /\ row_keys(a)[j] = <<"position", j>>
      BY <1>2, <2>1, KeysOf
    <3>2. <<"position", i>> = <<"position", j>>
      BY <1>7, <3>1
    <3> QED
      BY <3>2
  <2>2. CASE identity # <<>>
    <3>1. \A c \in Range(identity) : a.rows[i][c] = a.rows[j][c]
      BY <1>2, <1>4, <1>6, <1>7, <2>2, KeysTell
    <3> QED
      BY <1>5, <2>2, <3>1
  <2> QED
    BY <2>1, <2>2
<1> QED
  BY <1>4, <1>6, <1>7 DEF Keyed, a

(* A cast of a column outside the identity moves no row and no column. *)
LEMMA CastAligned ==
    ASSUME NEW t, IsTable(t), identity \in Seq(ColumnNames), Keyed(t), NEW k \in DOMAIN t.columns,
           NEW types \in DOMAIN Conversions, t.columns[k].name \notin Range(identity)
    PROVE  LET u == CastOf(t, k, types)
           IN  /\ SamePaths(t, u) = {<< <<d>>, <<d>> >> : d \in Names(t)}
               /\ \A d \in Names(t) :
                     PairsAtPath(t, u, <<d>>, <<d>>) = {<<t.rows[i][d], u.rows[i][d]>> : i \in DOMAIN t.rows}
<1> DEFINE u == CastOf(t, k, types)
<1>1. /\ IsTable(u) /\ Names(u) = Names(t) /\ DOMAIN u.rows = DOMAIN t.rows
      /\ DOMAIN u.columns = DOMAIN t.columns
      /\ \A i \in DOMAIN t.columns : u.columns[i].name = t.columns[i].name /\ u.columns[i].id = t.columns[i].id
      /\ \A i \in DOMAIN t.rows : \A d \in Names(t) :
            u.rows[i][d] = IF d = t.columns[k].name THEN Converted(Conversions[types], t.rows[i][t.columns[k].name])
                           ELSE t.rows[i][d]
  BY CastRows
<1> HIDE DEF u
<1>2. \A i, j \in DOMAIN t.columns : SameColumn(t, u, t.columns[i], u.columns[j]) <=> i = j
  <2>1. ASSUME NEW i \in DOMAIN t.columns PROVE SameColumn(t, u, t.columns[i], u.columns[i])
    BY <1>1 DEF SameColumn
  <2> QED
    BY <1>1, <2>1, FlatMatch
<1>3. SamePaths(t, u) = {<< <<d>>, <<d>> >> : d \in Names(t)}
  <2>1. ASSUME NEW pq \in SamePaths(t, u) PROVE pq \in {<< <<d>>, <<d>> >> : d \in Names(t)}
    <3>1. PICK i \in DOMAIN t.columns, j \in DOMAIN u.columns :
            SameColumn(t, u, t.columns[i], u.columns[j]) /\ pq = << <<t.columns[i].name>>, <<u.columns[j].name>> >>
      BY DEF SamePaths
    <3>2. pq = << <<t.columns[i].name>>, <<t.columns[i].name>> >>
      BY <1>1, <1>2, <3>1
    <3> QED
      BY <3>2 DEF Names
  <2>2. ASSUME NEW d \in Names(t) PROVE << <<d>>, <<d>> >> \in SamePaths(t, u)
    <3>1. PICK i \in DOMAIN t.columns : t.columns[i].name = d
      BY DEF Names
    <3> DEFINE ii == <<i, i>>
    <3>2. ii \in {jl \in (DOMAIN t.columns) \X (DOMAIN u.columns) : SameColumn(t, u, t.columns[jl[1]], u.columns[jl[2]])}
          /\ ii[1] = i /\ ii[2] = i
      BY <1>1, <1>2
    <3> HIDE DEF ii
    <3>3. << <<t.columns[ii[1]].name>>, <<u.columns[ii[2]].name>> >> \in SamePaths(t, u)
      BY <3>2 DEF SamePaths
    <3> QED
      BY <1>1, <3>1, <3>2, <3>3
  <2> QED
    BY <2>1, <2>2
<1>4. \A i \in DOMAIN t.rows : row_keys(u)[i] = row_keys(t)[i]
  <2>1. \A i \in DOMAIN t.rows : \A p \in DOMAIN identity : u.rows[i][identity[p]] = t.rows[i][identity[p]]
    BY <1>1 DEF Keyed, HasIdentity, Range
  <2> QED
    BY <1>1, <2>1 DEF row_keys
<1>5. Keyed(u)
  BY <1>1, <1>4 DEF Keyed, HasIdentity
<1>6. Aligned(t, u) = {ij \in (DOMAIN t.rows) \X (DOMAIN u.rows) : ij[1] = ij[2]}
  <2>1. \A i, j \in DOMAIN t.rows : row_keys(t)[i] = row_keys(u)[j] <=> i = j
    BY <1>4 DEF Keyed
  <2> QED
    BY <1>1, <1>5, <2>1, AlignedRows
<1>7. ASSUME NEW d \in Names(t)
      PROVE  PairsAtPath(t, u, <<d>>, <<d>>) = {<<t.rows[i][d], u.rows[i][d]>> : i \in DOMAIN t.rows}
  <2>1. Last(<<d>>) = d
    BY One
  <2>2. PairsAtPath(t, u, <<d>>, <<d>>) = {<<t.rows[ij[1]][d], u.rows[ij[2]][d]>> : ij \in Aligned(t, u)}
    BY <2>1 DEF PairsAtPath
  <2>3. ASSUME NEW i \in DOMAIN t.rows PROVE <<t.rows[i][d], u.rows[i][d]>> \in PairsAtPath(t, u, <<d>>, <<d>>)
    <3> DEFINE ii == <<i, i>>
    <3>1. ii \in Aligned(t, u) /\ ii[1] = i /\ ii[2] = i
      BY <1>1, <1>6
    <3> HIDE DEF ii
    <3> QED
      BY <2>2, <3>1
  <2>4. ASSUME NEW xy \in PairsAtPath(t, u, <<d>>, <<d>>)
        PROVE  \E i \in DOMAIN t.rows : xy = <<t.rows[i][d], u.rows[i][d]>>
    <3>1. PICK ij \in Aligned(t, u) : xy = <<t.rows[ij[1]][d], u.rows[ij[2]][d]>>
      BY <2>2
    <3>2. ij[1] \in DOMAIN t.rows /\ ij[1] = ij[2]
      BY <1>6
    <3> QED
      BY <3>1, <3>2
  <2> QED
    BY <2>3, <2>4
<1> QED
  BY <1>3, <1>7 DEF u

(* What observe_transition sees of a cast: that column, and the values     *)
(* before and after.                                                       *)
LEMMA CastChanges ==
    ASSUME NEW t, IsTable(t), identity \in Seq(ColumnNames), Keyed(t), NEW k \in DOMAIN t.columns,
           NEW types \in DOMAIN Conversions, t.columns[k].name \notin Range(identity), Castable(t, k, types),
           \A i \in DOMAIN t.rows : Converts(Conversions[types], t.rows[i][t.columns[k].name])
    PROVE  LET u == CastOf(t, k, types)
               c == t.columns[k].name
           IN  /\ DOMAIN Changes(t, u) \subseteq {<<c>>}
               /\ \A q \in DOMAIN Changes(t, u) : _check_relation(Conversions[types], Changes(t, u)[q])
               /\ (DOMAIN Changes(t, u) = {}) <=> \A i \in DOMAIN u.rows : Kept(t.rows[i][c], u.rows[i][c])
<1> DEFINE u == CastOf(t, k, types)
           c == t.columns[k].name
           relation == Conversions[types]
<1>1. /\ IsTable(u) /\ DOMAIN u.rows = DOMAIN t.rows
      /\ \A i \in DOMAIN t.rows : \A d \in Names(t) :
            u.rows[i][d] = IF d = c THEN Converted(relation, t.rows[i][c]) ELSE t.rows[i][d]
  BY CastRows
<1>2. /\ SamePaths(t, u) = {<< <<d>>, <<d>> >> : d \in Names(t)}
      /\ \A d \in Names(t) : PairsAtPath(t, u, <<d>>, <<d>>) = {<<t.rows[i][d], u.rows[i][d]>> : i \in DOMAIN t.rows}
  BY CastAligned
<1>3. c \in Names(t) /\ relation \in Casts
      /\ \A i \in DOMAIN t.rows : t.rows[i][c] \in Canonical /\ ~IsNaN(t.rows[i][c]) /\ Converts(relation, t.rows[i][c])
  BY TableFacts, EditsAssumption DEF Castable, Casts
<1> HIDE DEF u, c, relation
<1>4. \A i \in DOMAIN t.rows : u.rows[i][c] = Converted(relation, t.rows[i][c])
  BY <1>1, <1>3
<1>5. ASSUME NEW d \in Names(t)
      PROVE  (\E xy \in PairsAtPath(t, u, <<d>>, <<d>>) : ~same(xy[1], xy[2]))
               <=> \E i \in DOMAIN t.rows : ~same(t.rows[i][d], u.rows[i][d])
  <2> DEFINE value(i) == <<t.rows[i][d], u.rows[i][d]>>
  <2>1. \A i : value(i)[1] = t.rows[i][d] /\ value(i)[2] = u.rows[i][d]
    OBVIOUS
  <2>2. PairsAtPath(t, u, <<d>>, <<d>>) = {value(i) : i \in DOMAIN t.rows}
    BY <1>2
  <2> HIDE DEF value
  <2> QED
    BY <2>1, <2>2
<1>6. \A d \in Names(t) : <<d>> \in DOMAIN Changes(t, u) <=> \E i \in DOMAIN t.rows : ~same(t.rows[i][d], u.rows[i][d])
  <2> SUFFICES ASSUME NEW d \in Names(t)
               PROVE  <<d>> \in DOMAIN Changes(t, u) <=> \E xy \in PairsAtPath(t, u, <<d>>, <<d>>) : ~same(xy[1], xy[2])
    BY <1>5
  <2> DEFINE changed == {xy \in SamePaths(t, u) : \E uv \in PairsAtPath(t, u, xy[1], xy[2]) : ~same(uv[1], uv[2])}
             dd == << <<d>>, <<d>> >>
  <2>1. DOMAIN Changes(t, u) = {pq[2] : pq \in changed}
    BY <1>1, ChangesOf
  <2>2. dd \in SamePaths(t, u) /\ dd[1] = <<d>> /\ dd[2] = <<d>>
    BY <1>2
  <2> HIDE DEF dd
  <2>3. dd \in changed <=> \E xy \in PairsAtPath(t, u, <<d>>, <<d>>) : ~same(xy[1], xy[2])
    BY <2>2
  <2>4. ASSUME <<d>> \in DOMAIN Changes(t, u) PROVE dd \in changed
    <3>1. PICK pq \in changed : pq[2] = <<d>>
      <4> HIDE DEF changed
      <4> QED
        BY <2>1, <2>4
    <3>2. pq = dd
      BY <1>1, <2>2, <3>1, SamePathsUnique
    <3> QED
      BY <3>1, <3>2
  <2> HIDE DEF changed
  <2>5. ASSUME dd \in changed PROVE <<d>> \in DOMAIN Changes(t, u)
    BY <2>1, <2>2, <2>5
  <2> QED
    BY <2>3, <2>4, <2>5
<1>7. \A q \in DOMAIN Changes(t, u) : \E d \in Names(t) : q = <<d>>
  <2> SUFFICES ASSUME NEW q \in DOMAIN Changes(t, u) PROVE \E d \in Names(t) : q = <<d>>
    OBVIOUS
  <2>1. \E pq \in SamePaths(t, u) : q = pq[2]
    <3>1. q \in {pq[2] : pq \in {xy \in SamePaths(t, u) :
                                    \E uv \in PairsAtPath(t, u, xy[1], xy[2]) : ~same(uv[1], uv[2])}}
      BY <1>1, ChangesOf, ZenonT(40)
    <3> QED
      BY <3>1
  <2> QED
    BY <1>2, <2>1
<1>8. DOMAIN Changes(t, u) \subseteq {<<c>>}
  <2>1. \A d \in Names(t) : d # c => \A i \in DOMAIN t.rows : same(t.rows[i][d], u.rows[i][d])
    BY <1>1, SameIsReflexive
  <2> QED
    BY <1>6, <1>7, <2>1
<1>9. ASSUME NEW q \in DOMAIN Changes(t, u) PROVE _check_relation(relation, Changes(t, u)[q])
  <2>1. q = <<c>>
    BY <1>8
  <2> DEFINE cc == << <<c>>, <<c>> >>
  <2>2. cc \in SamePaths(t, u) /\ cc[1] = <<c>> /\ cc[2] = <<c>>
    BY <1>2, <1>3
  <2> HIDE DEF cc
  <2>3. Changes(t, u)[q] = PairsAtPath(t, u, <<c>>, <<c>>)
    <3>1. cc[2] \in DOMAIN Changes(t, u)
      BY <2>1, <2>2
    <3>2. Changes(t, u)[cc[2]] = PairsAtPath(t, u, cc[1], cc[2])
      BY <1>1, <2>2, <3>1, ChangesOf
    <3> QED
      BY <2>1, <2>2, <3>2
  <2>4. ASSUME NEW xy \in Changes(t, u)[q]
        PROVE  \E v \in Canonical : Converts(relation, v) /\ ~IsNaN(v) /\ xy[1] = v /\ xy[2] = Converted(relation, v)
    <3>1. PICK i \in DOMAIN t.rows : xy = <<t.rows[i][c], u.rows[i][c]>>
      BY <1>2, <1>3, <2>3
    <3> QED
      BY <1>3, <1>4, <3>1
  <2>5. /\ relation = "truncated_toward_zero" => \A xy \in Changes(t, u)[q] : Truncates(xy[1], xy[2])
        /\ relation = "nearest_float64" => \A xy \in Changes(t, u)[q] : RoundsToFloat(xy[1], xy[2])
        /\ relation = "utf8_encoded" => \A xy \in Changes(t, u)[q] : Encodes(xy[1], xy[2])
        /\ relation = "interpreted_as_utc" => \A xy \in Changes(t, u)[q] : ReadsAsUtc(xy[1], xy[2])
    BY <1>3, <2>4, ConvertedHolds
  <2> QED
    BY <1>3, <2>5 DEF _check_relation, Casts
<1>10. (DOMAIN Changes(t, u) = {}) <=> \A i \in DOMAIN u.rows : Kept(t.rows[i][c], u.rows[i][c])
  <2>1. (DOMAIN Changes(t, u) = {}) <=> <<c>> \notin DOMAIN Changes(t, u)
    BY <1>8
  <2>2. \A i \in DOMAIN t.rows : same(t.rows[i][c], u.rows[i][c]) <=> Kept(t.rows[i][c], u.rows[i][c])
    BY <1>3, <1>4, ConvertedHolds
  <2> QED
    BY <1>1, <1>3, <1>6, <2>1, <2>2
<1> QED
  BY <1>8, <1>9, <1>10 DEF u, c, relation

(* It is so in every state after one cast. *)
LEMMA OneCast == ASSUME ValidatorInv, History PROVE OneCastIsItsRelation
<1> DEFINE a == tables["from"]
<1> SUFFICES ASSUME NEW c \in Names(a) \ Range(identity), NEW types \in DOMAIN Conversions,
                    edits = << <<c, Conversions[types]>> >>
             PROVE  /\ DOMAIN Changes(a, New) \subseteq {<<c>>}
                    /\ \A q \in DOMAIN Changes(a, New) : _check_relation(Conversions[types], Changes(a, New)[q])
                    /\ (DOMAIN Changes(a, New) = {}) <=> \A i \in DOMAIN New.rows : Kept(a.rows[i][c], New.rows[i][c])
  BY DEF OneCastIsItsRelation, New
<1>1. Conversions[types] \in Casts
  BY EditsAssumption DEF Casts
<1>2. CastBy(Conversions[types], c, a, New)
  BY <1>1 DEF History, New
<1>3. PICK k \in DOMAIN a.columns, casts \in DOMAIN Conversions :
        /\ c = a.columns[k].name /\ Conversions[types] = Conversions[casts]
        /\ Castable(a, k, casts)
        /\ New = CastOf(a, k, casts)
  BY <1>2 DEF CastBy
<1>4. IsTable(a) /\ identity \in Seq(ColumnNames) /\ Keyed(a)
  BY OriginalKeyed DEF ValidatorInv, TablesInv
<1>5. PICK s \in Starts : a = Table(s.columns, s.rows)
  BY DEF History
<1>6. a.columns = s.columns /\ a.rows = s.rows
  BY <1>5 DEF Table
<1> HIDE DEF a
<1>7. \A i \in DOMAIN a.rows : Converts(Conversions[casts], a.rows[i][a.columns[k].name])
  BY <1>3, <1>6, OriginalsAssumption DEF Castable
<1> QED
  BY <1>3, <1>4, <1>7, CastChanges

(* After a single cast, observe_transition sees a change of that column    *)
(* only, only if a value was lost, and always with the relation of the     *)
(* cast.                                                                   *)
THEOREM OneCastHolds == Spec => []OneCastIsItsRelation
BY OneCast, HistoryHolds, PTL
=============================================================================
