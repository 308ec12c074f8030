---------------------------- MODULE ReportProofs -----------------------------
(***************************************************************************)
(* The report (adapters/report.py), for every corpus, registry, set of     *)
(* schemas and row counts: the class of a combined read does not depend on *)
(* the spelling of its schema, the order table is the one its text         *)
(* describes, and a results file that lost more than its last record is    *)
(* never rendered.                                                         *)
(***************************************************************************)
EXTENDS Report, Lemmas

Relations == {"error", "neither", "from", "to", "both"}

(* An error has no schema to spell; what is read has one. *)
LEMMA RespeltRecord ==
    ASSUME NEW record \in Records, NEW spelling \in Spellings
    PROVE  /\ Respelt(record, spelling) \in Records
           /\ Respelt(record, spelling).status = record.status
           /\ Respelt(record, spelling).rows = record.rows
           /\ record.status = "error" => Respelt(record, spelling).schema = record.schema
           /\ record.status # "error" => Respelt(record, spelling).schema = spelling[record.schema]
  BY DEF Respelt, Records, Success, Failure, Spellings

(* A renaming that is one to one keeps which schemas are the same. *)
LEMMA SameSchema ==
    ASSUME NEW one \in Records, NEW two \in Records, NEW spelling \in Spellings,
           one.status = two.status
    PROVE  Respelt(one, spelling).schema = Respelt(two, spelling).schema <=> one.schema = two.schema
  BY DEF Respelt, Records, Success, Failure, Spellings

(* So it keeps the version that a read is like. *)
LEMMA RespeltAlike ==
    ASSUME NEW record \in Records, NEW first \in Records, NEW second \in Records,
           NEW spelling \in Spellings, record.status # "error"
    PROVE  Alike(Respelt(record, spelling), <<Respelt(first, spelling), Respelt(second, spelling)>>)
             = Alike(record, <<first, second>>)
  BY AnswersAssumption DEF Alike, Respelt, Records, Success, Failure, Spellings

LEMMA RespeltRelation ==
    ASSUME NEW record \in Records, NEW first \in Records, NEW second \in Records,
           NEW spelling \in Spellings
    PROVE  _relative(Respelt(record, spelling), <<Respelt(first, spelling), Respelt(second, spelling)>>)
             = _relative(record, <<first, second>>)
  <1>1. CASE record.status = "error"
    BY <1>1, RespeltRecord DEF _relative
  <1>2. CASE record.status # "error"
    BY <1>2, RespeltRecord, RespeltAlike, ZenonT(40) DEF _relative
  <1> QED BY <1>1, <1>2

(* A read has just one relation to the two versions. *)
LEMMA RelationType ==
    ASSUME NEW record \in Records, NEW alone
    PROVE  /\ _relative(record, alone) \in Relations
           /\ _relative(record, alone) = "error" <=> record.status = "error"
  <1> DEFINE alike == Alike(record, alone)
  <1>1. alike \in {{}, {1}, {2}, {1, 2}}
    BY DEF Alike
  <1>2. {1} # {2} /\ {1} # {1, 2} /\ {2} # {1, 2} /\ {} # {1} /\ {} # {2} /\ {} # {1, 2}
    OBVIOUS
  <1> QED BY <1>1, <1>2 DEF _relative, Relations

-----------------------------------------------------------------------------
(***************************************************************************)
(* Two outcomes                                                            *)
(***************************************************************************)
Position(relation, order, byPosition) == IF byPosition THEN AtPosition(relation, order) ELSE relation

(* A relation to neither version, and an error, have no position; the two  *)
(* others change places with the files.                                    *)
LEMMA PositionType ==
    ASSUME NEW one \in Relations, NEW two \in Relations
    PROVE  /\ AtPosition(one, 1) = AtPosition(two, 2) <=>
                 \/ one = two /\ one \notin {"from", "to"}
                 \/ one = "from" /\ two = "to"
                 \/ one = "to" /\ two = "from"
  BY DEF AtPosition, Relations

LEMMA SamePosition ==
    ASSUME NEW one \in Relations, NEW two \in Relations, NEW byPosition \in BOOLEAN,
           Position(one, 1, byPosition) = Position(two, 2, byPosition)
    PROVE  /\ one = "neither" <=> two = "neither"
           /\ one = "error" <=> two = "error"
  BY PositionType DEF Position

(* Outcomes are the same when positions and rows are, and schemas where    *)
(* they are spelt out.                                                     *)
LEMMA SameOutcome ==
    ASSUME NEW forward \in Records, NEW reversed \in Records, NEW alone, NEW byPosition \in BOOLEAN
    PROVE  OutcomeOf(forward, 1, alone, byPosition) = OutcomeOf(reversed, 2, alone, byPosition) <=>
              /\ Position(_relative(forward, alone), 1, byPosition)
                    = Position(_relative(reversed, alone), 2, byPosition)
              /\ forward.rows = reversed.rows
              /\ _relative(forward, alone) = "neither" => forward.schema = reversed.schema
  <1> DEFINE one == _relative(forward, alone)
             two == _relative(reversed, alone)
             third == IF one = "neither" THEN forward.schema ELSE None
             fourth == IF two = "neither" THEN reversed.schema ELSE None
  <1>1. OutcomeOf(forward, 1, alone, byPosition) = <<Position(one, 1, byPosition), forward.rows, third>>
    BY DEF OutcomeOf, Position
  <1>2. OutcomeOf(reversed, 2, alone, byPosition) = <<Position(two, 2, byPosition), reversed.rows, fourth>>
    BY DEF OutcomeOf, Position
  <1>3. one \in Relations /\ two \in Relations
    BY RelationType
  <1>4. Position(one, 1, byPosition) = Position(two, 2, byPosition) => (one = "neither" <=> two = "neither")
    BY <1>3, SamePosition
  <1>5. OutcomeOf(forward, 1, alone, byPosition) = OutcomeOf(reversed, 2, alone, byPosition) <=>
            /\ Position(one, 1, byPosition) = Position(two, 2, byPosition)
            /\ forward.rows = reversed.rows
            /\ third = fourth
    <2> HIDE DEF one, two, third, fourth
    <2> QED BY <1>1, <1>2
  <1> QED BY <1>4, <1>5

-----------------------------------------------------------------------------
(* However an engine spells its schemas, its combined read is in the same  *)
(* class and depends on the order of the files or not.                     *)
LEMMA SpellingLemma == SpellingIsIgnored
  <1> SUFFICES ASSUME NEW forward \in Records, NEW reversed \in Records,
                      NEW first \in Records, NEW second \in Records, NEW spelling \in Spellings
               PROVE  LET alone == <<first, second>>
                          other(record) == Respelt(record, spelling)
                          others == <<other(first), other(second)>>
                      IN  /\ Class(other(forward), others) = Class(forward, alone)
                          /\ _order_dependent(other(forward), other(reversed), others)
                                = _order_dependent(forward, reversed, alone)
    BY DEF SpellingIsIgnored
  <1> DEFINE alone == <<first, second>>
             others == <<Respelt(first, spelling), Respelt(second, spelling)>>
             f == Respelt(forward, spelling)
             r == Respelt(reversed, spelling)
  <1>1. f \in Records /\ f.rows = forward.rows /\ f.status = forward.status
    BY RespeltRecord
  <1>2. r \in Records /\ r.rows = reversed.rows /\ r.status = reversed.status
    BY RespeltRecord
  <1>3. _relative(f, others) = _relative(forward, alone) /\ _relative(r, others) = _relative(reversed, alone)
    BY RespeltRelation
  <1>4. Class(f, others) = Class(forward, alone)
    BY <1>1, <1>3 DEF Class
  <1>5. ASSUME NEW byPosition \in BOOLEAN
        PROVE  OutcomeOf(f, 1, others, byPosition) = OutcomeOf(r, 2, others, byPosition) <=>
               OutcomeOf(forward, 1, alone, byPosition) = OutcomeOf(reversed, 2, alone, byPosition)
    <2> DEFINE one == _relative(forward, alone)
               two == _relative(reversed, alone)
    <2>1. one \in Relations /\ two \in Relations
          /\ (one = "error" <=> forward.status = "error") /\ (two = "error" <=> reversed.status = "error")
      BY RelationType
    <2>2. Position(one, 1, byPosition) = Position(two, 2, byPosition) /\ one = "neither" =>
              (f.schema = r.schema <=> forward.schema = reversed.schema)
      <3> SUFFICES ASSUME Position(one, 1, byPosition) = Position(two, 2, byPosition), one = "neither"
                   PROVE  f.schema = r.schema <=> forward.schema = reversed.schema
        OBVIOUS
      <3>1. two = "neither"
        BY <2>1, SamePosition
      <3>2. forward.status # "error" /\ reversed.status # "error"
        BY <2>1, <3>1
      <3>3. forward.status = reversed.status
        BY <3>2 DEF Records, Success, Failure
      <3> QED BY <3>3, SameSchema
    <2>3. OutcomeOf(f, 1, others, byPosition) = OutcomeOf(r, 2, others, byPosition) <=>
              /\ Position(one, 1, byPosition) = Position(two, 2, byPosition)
              /\ forward.rows = reversed.rows
              /\ one = "neither" => f.schema = r.schema
      BY <1>1, <1>2, <1>3, SameOutcome
    <2>4. OutcomeOf(forward, 1, alone, byPosition) = OutcomeOf(reversed, 2, alone, byPosition) <=>
              /\ Position(one, 1, byPosition) = Position(two, 2, byPosition)
              /\ forward.rows = reversed.rows
              /\ one = "neither" => forward.schema = reversed.schema
      BY SameOutcome
    <2> QED BY <2>2, <2>3, <2>4
  <1>6. _order_dependent(f, r, others) = _order_dependent(forward, reversed, alone)
    BY <1>5 DEF _order_dependent
  <1> QED BY <1>4, <1>6

(* A read that is like a version takes its schema, and the other way       *)
(* round.                                                                  *)
LEMMA TakesVersion ==
    ASSUME NEW record \in Records, NEW alone, NEW v \in {1, 2}, record.status = "success"
    PROVE  Takes(record, alone, v) <=>
              _relative(record, alone) \in {IF v = 1 THEN "from" ELSE "to", "both"}
  <1> DEFINE alike == Alike(record, alone)
  <1>1. Takes(record, alone, v) <=> v \in alike
    BY DEF Alike, Takes
  <1>2. alike \in {{}, {1}, {2}, {1, 2}}
    BY DEF Alike
  <1>3. {1} # {2} /\ {1} # {1, 2} /\ {2} # {1, 2} /\ {} # {1} /\ {} # {2} /\ {} # {1, 2}
    OBVIOUS
  <1>4. CASE alike = {}
    BY <1>1, <1>3, <1>4 DEF _relative
  <1>5. CASE alike = {1}
    BY <1>1, <1>3, <1>5 DEF _relative
  <1>6. CASE alike = {2}
    BY <1>1, <1>3, <1>6 DEF _relative
  <1>7. CASE alike = {1, 2}
    BY <1>1, <1>3, <1>7 DEF _relative
  <1> QED BY <1>2, <1>4, <1>5, <1>6, <1>7

(* A read depends on the order exactly when the orders disagree and no     *)
(* rule of position explains it.                                           *)
LEMMA OrderLemma == OrderMeansPosition
  <1> SUFFICES ASSUME NEW forward \in Records, NEW reversed \in Records,
                      NEW first \in Records, NEW second \in Records
               PROVE  LET alone == <<first, second>>
                      IN  _order_dependent(forward, reversed, alone) <=>
                            \/ forward.status # reversed.status
                            \/ /\ forward.status = "success"
                               /\ \/ forward.rows # reversed.rows
                                  \/ forward.schema # reversed.schema /\ ~ByRule(forward, reversed, alone)
    BY DEF OrderMeansPosition
  <1> DEFINE alone == <<first, second>>
             one == _relative(forward, alone)
             two == _relative(reversed, alone)
             same == /\ forward.rows = reversed.rows
                     /\ one = "neither" => forward.schema = reversed.schema
                     /\ one = two \/ (one = "from" /\ two = "to") \/ (one = "to" /\ two = "from")
  <1>1. /\ one \in Relations /\ two \in Relations
        /\ one = "error" <=> forward.status = "error"
        /\ two = "error" <=> reversed.status = "error"
    BY RelationType
  <1>2. forward.status \in {"success", "error"} /\ reversed.status \in {"success", "error"}
    BY DEF Records, Success, Failure
  <1>3. _order_dependent(forward, reversed, alone) <=> ~same
    <2>1. OutcomeOf(forward, 1, alone, TRUE) = OutcomeOf(reversed, 2, alone, TRUE) <=>
              /\ AtPosition(one, 1) = AtPosition(two, 2)
              /\ forward.rows = reversed.rows
              /\ one = "neither" => forward.schema = reversed.schema
      <3>1. OutcomeOf(forward, 1, alone, TRUE) = OutcomeOf(reversed, 2, alone, TRUE) <=>
                /\ Position(one, 1, TRUE) = Position(two, 2, TRUE)
                /\ forward.rows = reversed.rows
                /\ one = "neither" => forward.schema = reversed.schema
        BY TRUE \in BOOLEAN, SameOutcome
      <3>2. Position(one, 1, TRUE) = AtPosition(one, 1) /\ Position(two, 2, TRUE) = AtPosition(two, 2)
        BY DEF Position
      <3> QED BY <3>1, <3>2
    <2>2. OutcomeOf(forward, 1, alone, FALSE) = OutcomeOf(reversed, 2, alone, FALSE) <=>
              /\ one = two
              /\ forward.rows = reversed.rows
              /\ one = "neither" => forward.schema = reversed.schema
      <3>1. OutcomeOf(forward, 1, alone, FALSE) = OutcomeOf(reversed, 2, alone, FALSE) <=>
                /\ Position(one, 1, FALSE) = Position(two, 2, FALSE)
                /\ forward.rows = reversed.rows
                /\ one = "neither" => forward.schema = reversed.schema
        BY FALSE \in BOOLEAN, SameOutcome
      <3>2. Position(one, 1, FALSE) = one /\ Position(two, 2, FALSE) = two
        BY DEF Position
      <3> QED BY <3>1, <3>2
    <2>3. AtPosition(one, 1) = AtPosition(two, 2) <=>
              \/ one = two /\ one \notin {"from", "to"}
              \/ one = "from" /\ two = "to"
              \/ one = "to" /\ two = "from"
      BY <1>1, PositionType
    <2>4. _order_dependent(forward, reversed, alone) <=>
              /\ OutcomeOf(forward, 1, alone, TRUE) # OutcomeOf(reversed, 2, alone, TRUE)
              /\ OutcomeOf(forward, 1, alone, FALSE) # OutcomeOf(reversed, 2, alone, FALSE)
      BY DEF _order_dependent
    <2> HIDE DEF one, two
    <2> QED BY <2>1, <2>2, <2>3, <2>4
  <1>4. CASE forward.status # reversed.status
    BY <1>1, <1>2, <1>3, <1>4
  <1>5. CASE forward.status = "error" /\ reversed.status = "error"
    <2>1. forward.rows = reversed.rows
      BY <1>5 DEF Records, Success, Failure
    <2> QED BY <1>1, <1>3, <1>5, <2>1
  <1>6. CASE forward.status = "success" /\ reversed.status = "success"
    <2>1. /\ Takes(forward, alone, 1) <=> one \in {"from", "both"}
          /\ Takes(forward, alone, 2) <=> one \in {"to", "both"}
          /\ Takes(reversed, alone, 1) <=> two \in {"from", "both"}
          /\ Takes(reversed, alone, 2) <=> two \in {"to", "both"}
      BY <1>6, TakesVersion
    <2>2. ByRule(forward, reversed, alone) <=>
              \/ one \in {"from", "both"} /\ two \in {"to", "both"}
              \/ one \in {"to", "both"} /\ two \in {"from", "both"}
      BY <2>1 DEF ByRule
    <2>3. \A v \in {1, 2} : Takes(forward, alone, v) /\ Takes(reversed, alone, v) => forward.schema = reversed.schema
      BY DEF Takes
    <2>4. one # "error" /\ two # "error"
      BY <1>1, <1>6
    <2>5. forward.schema = reversed.schema => one = two
      BY <1>6 DEF _relative, Alike
    <2>6. one = two /\ one # "neither" => forward.schema = reversed.schema
      BY <1>1, <2>1, <2>3, <2>4 DEF Relations
    <2>7. (one = "both" /\ two # "neither") \/ (two = "both" /\ one # "neither")
              => forward.schema = reversed.schema
      BY <1>1, <2>1, <2>3, <2>4 DEF Relations
    <2> HIDE DEF one, two
    <2> QED BY <1>1, <1>3, <1>6, <2>2, <2>4, <2>5, <2>6, <2>7 DEF Relations
  <1> QED BY <1>2, <1>4, <1>5, <1>6

(* The classes of combined reads, and whether they depend on the order,    *)
(* never depend on how an engine spells its types (report.py, _relative    *)
(* and _order_dependent).                                                  *)
THEOREM SpellingIsFree == Spec => []SpellingDoesNotMatter
  <1>1. SpellingDoesNotMatter
    BY SpellingLemma DEF SpellingDoesNotMatter
  <1> QED BY <1>1, PTL

(* A mode is in the order table of a section just when it fails in one     *)
(* order, its rows differ, or its schema differs and it takes neither the  *)
(* first file nor the second (_order_dependent).                           *)
THEOREM OrderTableIsExact == Spec => []OrderTableIsByPosition
  <1>1. OrderTableIsByPosition
    BY OrderLemma DEF OrderTableIsByPosition
  <1> QED BY <1>1, PTL

-----------------------------------------------------------------------------
(***************************************************************************)
(* Calls and their order                                                   *)
(***************************************************************************)

(* A member of a product of five sets, by its parts.                       *)
LEMMA FiveParts ==
    ASSUME NEW A, NEW B, NEW C, NEW D, NEW E, NEW c \in A \X B \X C \X D \X E
    PROVE  /\ c = <<c[1], c[2], c[3], c[4], c[5]>>
           /\ c[1] \in A /\ c[2] \in B /\ c[3] \in C /\ c[4] \in D /\ c[5] \in E
OBVIOUS

(* The parts of a call, and the sets they are from.                        *)
LEMMA CallTypes ==
    ASSUME NEW a \in Registry, NEW scenarios, scenarios \subseteq Nat, NEW c \in Calls(a, scenarios)
    PROVE  /\ c = <<c[1], c[2], c[3], c[4], c[5]>>
           /\ c[1] \in scenarios /\ c[2] \in 1..(NumVersions - 1) /\ c[3] \in DOMAIN Modes[a]
           /\ c[4] \in 1..Modes[a][c[3]] /\ c[5] \in {1, 2}
           /\ c[1] \in Nat /\ c[2] \in Nat /\ c[3] \in Nat /\ c[4] \in Nat /\ c[5] \in Nat
           /\ c[3] \in 1..5 /\ Modes[a][c[3]] \in Nat
<1>1. PICK o \in DOMAIN Modes[a] :
        c \in scenarios \X (1..(NumVersions - 1)) \X {o} \X (1..Modes[a][o]) \X _inputs
  BY DEF Calls
<1>2. /\ c = <<c[1], c[2], c[3], c[4], c[5]>>
      /\ c[1] \in scenarios /\ c[2] \in 1..(NumVersions - 1) /\ c[3] = o
      /\ c[4] \in 1..Modes[a][o] /\ c[5] \in _inputs
  BY <1>1, FiveParts
<1>3. o \in 1..5 /\ Modes[a][o] \in Nat /\ _inputs = {1, 2}
  BY CallsAssumption, ModesAssumption DEF _inputs
<1> QED
  BY <1>2, <1>3

(* Parts from those sets make a call.                                      *)
LEMMA CallExists ==
    ASSUME NEW a, NEW scenarios,
           NEW s \in scenarios, NEW v \in 1..(NumVersions - 1), NEW o \in DOMAIN Modes[a],
           NEW m \in 1..Modes[a][o], NEW i \in {1, 2}
    PROVE  <<s, v, o, m, i>> \in Calls(a, scenarios)
<1>1. <<s, v, o, m, i>> \in scenarios \X (1..(NumVersions - 1)) \X {o} \X (1..Modes[a][o]) \X _inputs
  BY DEF _inputs
<1> QED
  BY <1>1 DEF Calls

(* The order of calls, spelt out.                                          *)
LEMMA BeforeParts ==
    ASSUME NEW c, NEW d
    PROVE  Before(c, d) <=>
              \/ c[1] < d[1]
              \/ c[1] = d[1] /\ c[2] < d[2]
              \/ c[1] = d[1] /\ c[2] = d[2] /\ c[3] < d[3]
              \/ c[1] = d[1] /\ c[2] = d[2] /\ c[3] = d[3] /\ c[4] < d[4]
              \/ c[1] = d[1] /\ c[2] = d[2] /\ c[3] = d[3] /\ c[4] = d[4] /\ c[5] < d[5]
<1> DEFINE At(k) == c[k] < d[k] /\ \A j \in 1..(k - 1) : c[j] = d[j]
<1>1. Before(c, d) <=> At(1) \/ At(2) \/ At(3) \/ At(4) \/ At(5)
  <2>1. 1..5 = {1, 2, 3, 4, 5}
    OBVIOUS
  <2>2. Before(c, d) <=> \E k \in 1..5 : At(k)
    BY DEF Before
  <2> HIDE DEF At
  <2> QED
    BY <2>1, <2>2
<1>2. 1..0 = {} /\ 1..1 = {1} /\ 1..2 = {1, 2} /\ 1..3 = {1, 2, 3} /\ 1..4 = {1, 2, 3, 4}
  OBVIOUS
<1>3. At(1) <=> c[1] < d[1]
  BY <1>2
<1>4. At(2) <=> c[1] = d[1] /\ c[2] < d[2]
  BY <1>2
<1>5. At(3) <=> c[1] = d[1] /\ c[2] = d[2] /\ c[3] < d[3]
  BY <1>2
<1>6. At(4) <=> c[1] = d[1] /\ c[2] = d[2] /\ c[3] = d[3] /\ c[4] < d[4]
  BY <1>2
<1>7. At(5) <=> c[1] = d[1] /\ c[2] = d[2] /\ c[3] = d[3] /\ c[4] = d[4] /\ c[5] < d[5]
  BY <1>2
<1> HIDE DEF At
<1> QED
  BY <1>1, <1>3, <1>4, <1>5, <1>6, <1>7

(* It is transitive.                                                       *)
LEMMA BeforeTransitive ==
    ASSUME NEW a \in Registry, NEW scenarios, scenarios \subseteq Nat,
           NEW c \in Calls(a, scenarios), NEW d \in Calls(a, scenarios), NEW e \in Calls(a, scenarios),
           Before(c, d), Before(d, e)
    PROVE  Before(c, e)
<1>1. \A x \in {c, d, e} : x[1] \in Nat /\ x[2] \in Nat /\ x[3] \in Nat /\ x[4] \in Nat /\ x[5] \in Nat
  BY CallTypes
<1> QED
  BY <1>1, BeforeParts

-----------------------------------------------------------------------------
(***************************************************************************)
(* The inductive invariant                                                 *)
(***************************************************************************)

(* A file holds its first records up to some call: with a call, all calls  *)
(* before it.                                                              *)
IsCut(f, a, r) ==
    /\ IsFile(f, a, r)
    /\ f = None \/ \A c \in DOMAIN f, d \in Calls(a, ScenariosAt(r)) : Before(d, c) => d \in DOMAIN f

Corpora == [Scenarios -> Tables \cup {None}]

(* The files of the releases there are hold first records; those to come   *)
(* have none. The section was written from a release that was observed.    *)
ReportInv ==
    /\ manifests \in Corpora
    /\ released \in Seq(Corpora) /\ Release \in 1..MaxReleases
    /\ DOMAIN results = 1..MaxReleases /\ \A r \in 1..MaxReleases : DOMAIN results[r] = Registry
    /\ \A r \in 1..MaxReleases, a \in Registry :
          IF r <= Release THEN IsCut(results[r][a], a, r) ELSE results[r][a] = None
    /\ directories \subseteq 1..Release
    /\ section = Blank \/ section.release \in directories
    /\ exit \in {"none", "absent", "raised", "written", "current", "stale"}
    /\ runs \in 0..MaxRuns
    /\ edits \in 0..MaxEdits

(* What a whole run writes (runner.py, observe) is such a file.            *)
LEMMA ObservationsAreCuts ==
    ASSUME NEW a \in Registry, NEW f \in Observations(a)
    PROVE  /\ DOMAIN f = Calls(a, ScenariosAt(Release))
           /\ \A c \in DOMAIN f : f[c] \in Records
           /\ IsCut(f, a, Release)
<1> DEFINE calls == Calls(a, ScenariosAt(Release))
<1>1. DOMAIN f = calls /\ \A c \in calls : f[c] \in Answers[Operation(c)][Order(c)]
  BY DEF Observations
<1>2. ScenariosAt(Release) \subseteq Nat
  BY DEF ScenariosAt, Scenarios
<1>3. ASSUME NEW c \in calls PROVE f[c] \in Records
  <2>1. c[3] \in 1..5 /\ c[5] \in _inputs
    BY <1>2, CallTypes DEF _inputs
  <2> QED
    BY <1>1, <2>1, AnswersAssumption DEF Operation, Order
<1> QED
  BY <1>1, <1>3 DEF IsCut, IsFile

(* So is what is left of it when the write is cut short.                   *)
LEMMA CutsAreCuts ==
    ASSUME NEW a \in Registry, NEW f \in Observations(a), NEW g \in Cuts(f)
    PROVE  IsCut(g, a, Release)
<1> DEFINE calls == Calls(a, ScenariosAt(Release))
<1>1. /\ DOMAIN f = calls /\ \A c \in calls : f[c] \in Records
      /\ ScenariosAt(Release) \subseteq Nat
  BY ObservationsAreCuts DEF ScenariosAt, Scenarios
<1>2. CASE g = <<>>
  <2>1. DOMAIN g = {}
    BY <1>2
  <2> QED
    BY <2>1 DEF IsCut, IsFile
<1>3. ASSUME NEW last \in DOMAIN f, g = Prefix(f, last) PROVE IsCut(g, a, Release)
  <2>1. DOMAIN g = {d \in calls : ~Before(last, d)} /\ \A c \in DOMAIN g : g[c] = f[c]
    BY <1>1, <1>3 DEF Prefix
  <2>2. ASSUME NEW c \in DOMAIN g PROVE c \in calls /\ g[c] \in Records
    BY <1>1, <2>1
  <2>3. ASSUME NEW c \in DOMAIN g, NEW d \in calls, Before(d, c) PROVE d \in DOMAIN g
    <3>1. Before(last, d) => Before(last, c)
      BY <1>1, <2>1, <2>3, BeforeTransitive
    <3> QED
      BY <2>1, <3>1
  <2> QED
    BY <2>1, <2>2, <2>3 DEF IsCut, IsFile
<1> QED
  BY <1>2, <1>3 DEF Cuts

(* Nothing has been observed when the first release is made.               *)
LEMMA ReportInvInit == Init => ReportInv
<1> SUFFICES ASSUME Init PROVE ReportInv
  OBVIOUS
<1>1. manifests \in Corpora /\ released \in Seq(Corpora) /\ Len(released) = 1
  BY DEF Init, Corpora
<1>2. \A r \in 1..MaxReleases, a \in Registry : results[r][a] = None /\ IsCut(None, a, r)
  BY DEF Init, IsCut, IsFile
<1> QED
  BY <1>1, <1>2, BoundsAssumption DEF Init, ReportInv, Release

(* A run puts such a file in the place of one of the current release.      *)
LEMMA RunStep ==
    ASSUME ReportInv, NEW a \in Registry, RunOf(a), NEW f, IsCut(f, a, Release),
           results' = [results EXCEPT ![Release][a] = f]
    PROVE  ReportInv'
<1>1. UNCHANGED <<manifests, released, section, exit, edits>> /\ runs' \in 0..MaxRuns
  BY BoundsAssumption DEF RunOf, ReportInv
<1>2. directories' = directories \cup {Release} /\ Release \in 1..MaxReleases /\ Release' = Release
  BY <1>1 DEF RunOf, ReportInv, Release
<1>3. DOMAIN results' = 1..MaxReleases /\ \A r \in 1..MaxReleases : DOMAIN results'[r] = Registry
  BY DEF ReportInv
<1>4. ASSUME NEW r \in 1..MaxReleases, NEW b \in Registry
      PROVE  IF r <= Release' THEN IsCut(results[r][b], b, r)' ELSE results'[r][b] = None
  <2>1. results'[r][b] = IF r = Release /\ b = a THEN f ELSE results[r][b]
    BY <1>2, <1>4 DEF ReportInv
  <2>2. IF r <= Release THEN IsCut(results'[r][b], b, r) ELSE results'[r][b] = None
    BY <1>2, <1>4, <2>1 DEF ReportInv
  <2>3. IsCut(results[r][b], b, r)' <=> IsCut(results'[r][b], b, r)
    BY <1>1 DEF IsCut, IsFile, ScenariosAt
  <2> QED
    BY <1>2, <2>2, <2>3
<1> QED
  BY <1>1, <1>2, <1>3, <1>4 DEF ReportInv, Corpora

(* Every step keeps the invariant, one case per action of Next.            *)
LEMMA ReportInvStep == ReportInv /\ [Next]_vars => ReportInv'
<1> SUFFICES ASSUME ReportInv, [Next]_vars PROVE ReportInv'
  OBVIOUS
<1>1. ASSUME NEW a \in Registry, RunAdapter(a) PROVE ReportInv'
  BY <1>1, ObservationsAreCuts, RunStep DEF RunAdapter
<1>2. ASSUME NEW a \in Registry, CutResults(a) PROVE ReportInv'
  <2>1. CASE UNCHANGED results
    <3>1. UNCHANGED <<manifests, released, results, section, exit, edits>> /\ runs' \in 0..MaxRuns
      BY <1>2, <2>1, BoundsAssumption DEF CutResults, RunOf, ReportInv
    <3>2. directories' = directories \cup {Release} /\ Release' = Release
      BY <1>2, <3>1 DEF CutResults, RunOf, Release
    <3> QED
      BY <3>1, <3>2 DEF ReportInv, IsCut, IsFile, ScenariosAt, Corpora
  <2>2. CASE \E f \in Observations(a) : \E g \in Cuts(f) \ {f} : results' = [results EXCEPT ![Release][a] = g]
    BY <1>2, <2>2, CutsAreCuts, RunStep DEF CutResults
  <2> QED
    BY <1>2, <2>1, <2>2 DEF CutResults
<1>3. ASSUME NEW s \in Scenarios, EditScenario(s) PROVE ReportInv'
  <2>1. manifests' \in Corpora /\ edits' \in 0..MaxEdits
    BY <1>3, BoundsAssumption DEF EditScenario, ReportInv, Corpora
  <2>2. UNCHANGED <<released, results, directories, section, exit, runs, Release>>
    BY <1>3 DEF EditScenario, Release
  <2> QED
    BY <2>1, <2>2 DEF ReportInv, IsCut, IsFile, ScenariosAt, Corpora
<1>4. CASE NewRelease
  <2>1. /\ released' = Append(released, manifests) /\ Release < MaxReleases
        /\ UNCHANGED <<manifests, results, directories, section, exit, runs, edits>>
    BY <1>4 DEF NewRelease
  <2>2. /\ released' \in Seq(Corpora) /\ Release' = Release + 1 /\ Release' \in 1..MaxReleases
        /\ \A r \in 1..Release : released'[r] = released[r]
    BY <2>1, BoundsAssumption DEF ReportInv, Release
  <2>3. ASSUME NEW r \in 1..MaxReleases, NEW a \in Registry
        PROVE  IF r <= Release' THEN IsCut(results[r][a], a, r)' ELSE results'[r][a] = None
    <3>1. CASE r <= Release
      <4>1. ScenariosAt(r)' = ScenariosAt(r)
        BY <2>2, <3>1 DEF ScenariosAt, ReportInv
      <4>2. IsCut(results[r][a], a, r)
        BY <3>1 DEF ReportInv
      <4>3. IsCut(results[r][a], a, r)'
        BY <2>1, <4>1, <4>2 DEF IsCut, IsFile
      <4> QED
        BY <2>2, <3>1, <4>3 DEF ReportInv
    <3>2. CASE ~ (r <= Release)
      <4>1. results'[r][a] = None
        BY <2>1, <3>2 DEF ReportInv
      <4>2. IsCut(results[r][a], a, r)'
        BY <4>1 DEF IsCut, IsFile
      <4> QED
        BY <4>1, <4>2
    <3> QED
      BY <3>1, <3>2
  <2>4. directories' \subseteq 1..Release'
    BY <2>1, <2>2 DEF ReportInv
  <2> QED
    BY <2>1, <2>2, <2>3, <2>4 DEF ReportInv, Corpora
<1>5. ASSUME NEW how \in {"absent", "raised", "written", "current", "stale"}, Ends(how),
             section' = section \/ (directories # {} /\ section' = render(latest_results))
      PROVE  ReportInv'
  <2>1. UNCHANGED <<manifests, released, results, directories, runs, edits, Release>> /\ exit' = how
    BY <1>5 DEF Ends, Release
  <2>2. section' = Blank \/ section'.release \in directories
    <3>1. CASE section' = section
      BY <3>1 DEF ReportInv
    <3>2. CASE directories # {} /\ section' = render(latest_results)
      <4>1. latest_results \in directories
        <5>1. directories \subseteq 0..Release /\ Release \in Nat
          BY BoundsAssumption DEF ReportInv
        <5>2. Max(directories) \in directories
          BY <3>2, <5>1, MaxIsThere
        <5> QED
          BY <5>2 DEF latest_results
      <4>2. section'.release = latest_results
        BY <3>2 DEF render
      <4> QED
        BY <4>1, <4>2
    <3> QED
      BY <1>5, <3>1, <3>2
  <2> QED
    BY <2>1, <2>2 DEF ReportInv, IsCut, IsFile, ScenariosAt, Corpora
<1>6. CASE NoResults \/ RenderRaises
  BY <1>5, <1>6 DEF NoResults, RenderRaises
<1>7. CASE WriteReport
  BY <1>5, <1>7 DEF WriteReport
<1>8. CASE CheckReport
  BY <1>5, <1>8 DEF CheckReport
<1>9. CASE UNCHANGED vars
  BY <1>9 DEF vars, ReportInv, IsCut, IsFile, ScenariosAt, Corpora, Release
<1> QED
  BY <1>1, <1>2, <1>3, <1>4, <1>6, <1>7, <1>8, <1>9 DEF Next

(* The invariant holds in every reachable state.                           *)
LEMMA ReportInvHolds == Spec => []ReportInv
BY ReportInvInit, ReportInvStep, PTL DEF Spec

(* The state of the report, of fixtures/ and of results/ is always of its  *)
(* type.                                                                   *)
THEOREM TypeCorrect == Spec => []TypeOK
<1>1. ReportInv => TypeOK
  <2> SUFFICES ASSUME ReportInv PROVE TypeOK
    OBVIOUS
  <2>1. \A r \in 1..Release : released[r] \in Corpora /\ r \in 1..MaxReleases /\ r <= Release
    <3>1. DOMAIN released = 1..Release /\ Release \in 1..MaxReleases
      BY DEF ReportInv, Release
    <3> QED
      BY <3>1, BoundsAssumption DEF ReportInv
  <2> QED
    BY <2>1 DEF ReportInv, TypeOK, Corpora, IsCut
<1> QED
  BY <1>1, ReportInvHolds, PTL

-----------------------------------------------------------------------------
(***************************************************************************)
(* A cut that loses more than a record is noticed                          *)
(***************************************************************************)

(* The last operation an adapter declares a mode for.                      *)
LastOperation(a, o) ==
    /\ o \in DOMAIN Modes[a] \cap Insisted /\ Modes[a][o] > 0
    /\ \A p \in DOMAIN Modes[a] : p > o => Modes[a][p] = 0

(* The last call of a transition but one: its other order is the last.     *)
Penultimate(a, o, key) == Call(key, o, Modes[a][o], 1)

(* Every call of a transition comes before the last but one, or is one of  *)
(* the last two.                                                           *)
LEMMA LastCalls ==
    ASSUME NEW a \in Registry, NEW scenarios, scenarios \subseteq Nat,
           NEW c \in Calls(a, scenarios), NEW o, LastOperation(a, o)
    PROVE  /\ Penultimate(a, o, Transition(c)) \in Calls(a, scenarios)
           /\ c = Penultimate(a, o, Transition(c))
                 \/ Before(c, Penultimate(a, o, Transition(c)))
                 \/ c = Call(Transition(c), o, Modes[a][o], 2)
<1> DEFINE m == Modes[a][o]
           e == <<c[1], c[2], o, m, 1>>
<1>1. /\ c = <<c[1], c[2], c[3], c[4], c[5]>>
      /\ c[1] \in scenarios /\ c[2] \in 1..(NumVersions - 1) /\ c[3] \in DOMAIN Modes[a]
      /\ c[4] \in 1..Modes[a][c[3]] /\ c[5] \in {1, 2}
      /\ c[1] \in Nat /\ c[2] \in Nat /\ c[3] \in Nat /\ c[4] \in Nat /\ c[5] \in Nat
  BY CallTypes
<1>2. o \in DOMAIN Modes[a] /\ o \in Nat /\ m \in Nat /\ m > 0 /\ m \in 1..m
  BY CallsAssumption DEF LastOperation
<1>3. Penultimate(a, o, Transition(c)) = e /\ Call(Transition(c), o, m, 2) = <<c[1], c[2], o, m, 2>>
  BY DEF Penultimate, Call, Transition
<1>4. e \in Calls(a, scenarios)
  BY <1>1, <1>2, CallExists
<1>5. c[3] <= o
  BY <1>1, <1>2 DEF LastOperation
<1>6. e[1] = c[1] /\ e[2] = c[2] /\ e[3] = o /\ e[4] = m /\ e[5] = 1
  OBVIOUS
<1>7. c[3] < o \/ (c[3] = o /\ c[4] < m) => Before(c, e)
  BY <1>6, BeforeParts
<1>8. c[3] = o => c[4] < m \/ c[4] = m
  BY <1>1, <1>2
<1>9. c[3] = o /\ c[4] = m => c = e \/ c = <<c[1], c[2], o, m, 2>>
  BY <1>1
<1>10. c = e \/ Before(c, e) \/ c = <<c[1], c[2], o, m, 2>>
  <2> HIDE DEF e, m
  <2> QED
    BY <1>1, <1>2, <1>5, <1>7, <1>8, <1>9
<1> QED
  BY <1>3, <1>4, <1>10

(* render insists on the last call but one of a transition it has a key    *)
(* for.                                                                    *)
LEMMA PenultimateIsMissed ==
    ASSUME NEW r, NEW a \in Registry, results[r][a] # None, NEW o, LastOperation(a, o),
           EveryModeAnswered(r, a), NEW key \in Keys(results[r]),
           Penultimate(a, o, key) \notin DOMAIN results[r][a]
    PROVE  Raises(results[r])
<1> DEFINE files == results[r]
           am == <<a, Modes[a][o]>>
<1>1. am \in ModesOf(files, o)
  <2>1. Modes[a][o] \in 1..Modes[a][o] /\ o \in DOMAIN Modes[a]
    BY CallsAssumption DEF LastOperation
  <2> QED
    BY <2>1 DEF EveryModeAnswered
<1>2. ~Has(files, am, key, o, 1)
  BY DEF Has, Penultimate
<1>3. LacksForward(files, key) \/ LacksWrite(files, key) \/ LacksProfile(files, key)
  <2>1. CASE o = read_versions_together
    BY <1>1, <1>2, <2>1 DEF LacksForward
  <2>2. CASE o = append_to_table
    <3>1. \A s : 1 \in IF s THEN {1, 2} ELSE {1}
      OBVIOUS
    <3> QED
      BY <1>1, <1>2, <2>2, <3>1 DEF LacksWrite
  <2>3. CASE o = profile_each_version
    BY <1>1, <1>2, <2>3 DEF LacksProfile
  <2> QED
    BY <2>1, <2>2, <2>3 DEF LastOperation, Insisted
<1> QED
  BY <1>3 DEF Raises

(* It has a key for every transition once one adapter has the whole        *)
(* corpus: every adapter observes every transition.                        *)
LEMMA EveryKeyIsThere ==
    ASSUME NEW r, NEW b \in Reported(results[r]), Lost(r, b) = {},
           NEW a \in Registry, NEW c \in Calls(a, ScenariosAt(r))
    PROVE  Transition(c) \in Keys(results[r])
<1>1. ScenariosAt(r) \subseteq Nat /\ b \in Registry
  BY DEF ScenariosAt, Scenarios, Reported
<1>2. PICK o : LastOperation(b, o)
  BY <1>1, ModesAssumption DEF LastOperation
<1>3. o \in DOMAIN Modes[b] /\ 1 \in 1..Modes[b][o]
  BY <1>1, <1>2, CallsAssumption DEF LastOperation
<1>4. c[1] \in ScenariosAt(r) /\ c[2] \in 1..(NumVersions - 1)
  BY <1>1, CallTypes
<1> DEFINE d == <<c[1], c[2], o, 1, 1>>
<1>5. d \in Calls(b, ScenariosAt(r))
  BY <1>3, <1>4, CallExists
<1>6. d \in DOMAIN results[r][b] /\ Transition(d) = Transition(c)
  BY <1>5 DEF Lost, Transition
<1> QED
  BY <1>6 DEF Keys

(* Of two lost records, one is not the last of its transition, and the     *)
(* last but one is lost with it; or they are the last of two transitions,  *)
(* and the last but one of the later transition is lost.                   *)
LEMMA CutsAreMissed == ReportInv => LongCutsAreRefused
<1> SUFFICES ASSUME ReportInv, NEW r \in directories, NEW a \in Registry,
                    results[r][a] # None, EveryModeAnswered(r, a),
                    NEW b \in Reported(results[r]), Lost(r, b) = {}, Cardinality(Lost(r, a)) > 1
             PROVE  Raises(results[r])
  BY DEF LongCutsAreRefused
<1> DEFINE f == results[r][a]
           calls == Calls(a, ScenariosAt(r))
<1>1. ScenariosAt(r) \subseteq Nat /\ DOMAIN f \subseteq calls
      /\ \A c \in DOMAIN f, d \in calls : Before(d, c) => d \in DOMAIN f
  <2>1. r \in 1..MaxReleases /\ r <= Release
    BY BoundsAssumption DEF ReportInv
  <2> QED
    BY <2>1 DEF ReportInv, IsCut, IsFile, ScenariosAt, Scenarios
<1>2. PICK o : LastOperation(a, o)
  BY ModesAssumption DEF LastOperation
<1>3. PICK c \in Lost(r, a), d \in Lost(r, a) : c # d
  <2>1. Lost(r, a) # {} /\ \A c : Lost(r, a) # {c}
    <3>1. Cardinality({}) = 0 /\ \A c : Cardinality({c}) = 1
      BY FS_EmptySet, FS_Singleton
    <3>2. Lost(r, a) # {}
      BY <3>1
    <3>3. ASSUME NEW c, Lost(r, a) = {c} PROVE FALSE
      <4>1. Cardinality(Lost(r, a)) = 1
        BY <3>1, <3>3
      <4> QED
        BY <4>1
    <3> QED
      BY <3>2, <3>3
  <2> QED
    BY <2>1
<1>4. ASSUME NEW e \in calls, Penultimate(a, o, Transition(e)) \notin DOMAIN f
      PROVE  Raises(results[r])
  <2>1. Transition(e) \in Keys(results[r])
    BY <1>4, EveryKeyIsThere
  <2> QED
    BY <1>2, <1>4, <2>1, PenultimateIsMissed
<1>5. \A e \in Lost(r, a) : \/ Penultimate(a, o, Transition(e)) \notin DOMAIN f
                            \/ e = Call(Transition(e), o, Modes[a][o], 2)
  BY <1>1, <1>2, LastCalls DEF Lost
<1>6. ASSUME NEW x \in Lost(r, a), NEW y \in Lost(r, a),
             x = Call(Transition(x), o, Modes[a][o], 2), y = Call(Transition(y), o, Modes[a][o], 2),
             x[1] < y[1] \/ (x[1] = y[1] /\ x[2] < y[2])
      PROVE  Raises(results[r])
  <2>1. x \in calls /\ y \in calls /\ x \notin DOMAIN f
    BY DEF Lost
  <2>2. Penultimate(a, o, Transition(y))[1] = y[1] /\ Penultimate(a, o, Transition(y))[2] = y[2]
    BY DEF Penultimate, Call, Transition
  <2>3. Before(x, Penultimate(a, o, Transition(y)))
    BY <1>6, <2>2, BeforeParts
  <2>4. Penultimate(a, o, Transition(y)) \notin DOMAIN f
    BY <1>1, <2>1, <2>3
  <2> QED
    BY <1>4, <2>1, <2>4
<1>7. CASE c = Call(Transition(c), o, Modes[a][o], 2) /\ d = Call(Transition(d), o, Modes[a][o], 2)
  <2>1. c[1] # d[1] \/ c[2] # d[2]
    BY <1>3, <1>7 DEF Call, Transition
  <2>2. c[1] \in Nat /\ c[2] \in Nat /\ d[1] \in Nat /\ d[2] \in Nat
    BY <1>1, CallTypes DEF Lost
  <2> QED
    BY <1>6, <1>7, <2>1, <2>2
<1>8. CASE c # Call(Transition(c), o, Modes[a][o], 2) \/ d # Call(Transition(d), o, Modes[a][o], 2)
  BY <1>4, <1>5, <1>8 DEF Lost
<1> QED
  BY <1>7, <1>8

(* A results file that lost more than its last record is not rendered      *)
(* (report.py, render), once every mode of its adapter has answered and    *)
(* another adapter has the whole corpus.                                   *)
THEOREM LongCutsRaise == Spec => []LongCutsAreRefused
BY CutsAreMissed, ReportInvHolds, PTL
=============================================================================
