--------------------------- MODULE EvolutionProofs ---------------------------
(***************************************************************************)
(* What the diff and the common paths promise of the two schemas of a      *)
(* transition.                                                             *)
(***************************************************************************)
EXTENDS Evolution, DiffProofs

(* The levels whose siblings are reordered. *)
Disordered(old, new) == {lv \in Levels(old, new) : OutOfOrder(old[lv[1]], new[lv[2]])}

ReorderOf(old, new, lv) == reorder_fields(lv[2], NamesOf(old[lv[1]]), NamesOf(new[lv[2]]))

(* _diff_level reports one reorder_fields for every level it finds out of  *)
(* order, and no two levels share it.                                      *)
LEMMA OneReorderPerLevel ==
    ASSUME NEW old, NEW new, WellFormed(old), WellFormed(new)
    PROVE  /\ IsFiniteSet(Disordered(old, new))
           /\ Cardinality(OfKind(diff_schemas(old, new), "reorder_fields")) = Cardinality(Disordered(old, new))
<1> DEFINE S == Disordered(old, new)
           T == OfKind(diff_schemas(old, new), "reorder_fields")
           f == [lv \in S |-> ReorderOf(old, new, lv)]
<1>1. IsFiniteSet(S)
  <2>1. S \subseteq Levels(old, new)
    BY DEF Disordered
  <2> HIDE DEF S
  <2> QED
    BY <2>1, LevelsAreFinite, FS_Subset
<1>2. \A m : m \in T <=> \E lv \in S : m = ReorderOf(old, new, lv)
  <2> SUFFICES ASSUME NEW m PROVE m \in T <=> \E lv \in S : m = ReorderOf(old, new, lv)
    OBVIOUS
  <2> HIDE DEF T
  <2>1. m \in T <=> \E lv \in Levels(old, new) : OutOfOrder(old[lv[1]], new[lv[2]]) /\ m = ReorderOf(old, new, lv)
    BY ReorderedMeans DEF T, ReorderOf
  <2> QED
    BY <2>1 DEF Disordered
<1>3. \A lv, mv \in S : ReorderOf(old, new, lv) = ReorderOf(old, new, mv) => lv = mv
  <2> SUFFICES ASSUME NEW lv \in S, NEW mv \in S, ReorderOf(old, new, lv) = ReorderOf(old, new, mv)
               PROVE  lv = mv
    OBVIOUS
  <2>1. lv \in Levels(old, new) /\ mv \in Levels(old, new)
    BY DEF Disordered
  <2>2. ReorderOf(old, new, lv).path = lv[2] /\ ReorderOf(old, new, mv).path = mv[2]
    BY DEF ReorderOf, reorder_fields
  <2>3. lv[2] = mv[2]
    BY <2>2
  <2>4. <<lv[2], lv[1]>> \in Levels(new, old) /\ lv = <<lv[1], lv[2]>>
    BY <2>1, LevelsBack
  <2>5. <<mv[2], mv[1]>> \in Levels(new, old) /\ mv = <<mv[1], mv[2]>>
    BY <2>1, LevelsBack
  <2>6. <<lv[2], lv[1]>> = <<mv[2], mv[1]>>
    <3> DEFINE x == <<lv[2], lv[1]>>
               y == <<mv[2], mv[1]>>
    <3>1. x \in Levels(new, old) /\ y \in Levels(new, old) /\ x[1] = y[1]
      BY <2>3, <2>4, <2>5
    <3> HIDE DEF x, y
    <3>2. x = y
      BY <3>1, LevelUnique
    <3> QED
      BY <3>2 DEF x, y
  <2> QED
    BY <2>4, <2>5, <2>6
<1>4. f \in Bijection(S, T)
  <2> HIDE DEF S, T
  <2>1. f \in [S -> T]
    BY <1>2
  <2>2. \A x \in S : f[x] = ReorderOf(old, new, x)
    OBVIOUS
  <2> HIDE DEF f
  <2>3. \A x, y \in S : f[x] = f[y] => x = y
    BY <1>3, <2>2
  <2>4. \A t \in T : \E x \in S : f[x] = t
    BY <1>2, <2>2
  <2> QED
    BY <2>1, <2>3, <2>4 DEF Bijection, Injection, Surjection, IsInjective
<1> HIDE DEF S, T, f
<1>5. ExistsBijection(S, T)
  BY <1>4 DEF ExistsBijection
<1>6. Cardinality(T) = Cardinality(S)
  BY <1>1, <1>5, FS_Bijection
<1> QED
  BY <1>1, <1>6 DEF S, T

(* Two pairs that disagree in one direction disagree in the other. *)
LEMMA DisorderBack ==
    ASSUME NEW old, NEW new, WellFormed(old), WellFormed(new), NEW g \in DOMAIN old, NEW h \in DOMAIN new,
           OutOfOrder(old[g], new[h])
    PROVE  OutOfOrder(new[h], old[g])
<1> DEFINE F == old[g]
           G == new[h]
<1>1. F \in Seq(Fields(Segments(old))) /\ Siblings(F)
  BY SchemaFacts
<1>2. G \in Seq(Fields(Segments(new))) /\ Siblings(G)
  BY SchemaFacts
<1> HIDE DEF F, G
<1>3. DOMAIN F \subseteq Nat /\ DOMAIN G \subseteq Nat
  BY <1>1, <1>2
<1>4. ById(F, G) <=> ById(G, F)
  BY DEF ById
<1>5. Match(F, G) = {ij \in (DOMAIN F) \X (DOMAIN G) :
                        IF ById(F, G) THEN F[ij[1]].id = G[ij[2]].id ELSE F[ij[1]].name = G[ij[2]].name}
  BY <1>1, <1>2, <1>3, MatchFacts
<1>6. Match(G, F) = {ij \in (DOMAIN G) \X (DOMAIN F) :
                        IF ById(G, F) THEN G[ij[1]].id = F[ij[2]].id ELSE G[ij[1]].name = F[ij[2]].name}
  BY <1>1, <1>2, <1>3, MatchFacts
<1>7. \A x \in Match(F, G) : <<x[2], x[1]>> \in Match(G, F)
  BY <1>4, <1>5, <1>6
<1>8. PICK x \in Match(F, G), y \in Match(F, G) : x[1] < y[1] /\ x[2] > y[2]
  BY DEF OutOfOrder, F, G
<1> DEFINE u == <<y[2], y[1]>>
           v == <<x[2], x[1]>>
<1>9. u \in Match(G, F) /\ v \in Match(G, F)
  BY <1>7, <1>8
<1>10. x[1] \in Nat /\ y[1] \in Nat /\ x[2] \in Nat /\ y[2] \in Nat
  BY <1>3, <1>5, <1>8
<1>11. u[1] < v[1] /\ u[2] > v[2]
  BY <1>8, <1>10
<1> HIDE DEF u, v
<1>12. OutOfOrder(G, F)
  BY <1>9, <1>11 DEF OutOfOrder
<1> QED
  BY <1>12 DEF F, G

(* Read backwards, the same levels are out of order. *)
LEMMA DisorderedBack ==
    ASSUME NEW old, NEW new, WellFormed(old), WellFormed(new), NEW lv \in Disordered(old, new)
    PROVE  <<lv[2], lv[1]>> \in Disordered(new, old)
<1>1. lv \in Levels(old, new) /\ OutOfOrder(old[lv[1]], new[lv[2]])
  BY DEF Disordered
<1>2. lv[1] \in DOMAIN old /\ lv[2] \in DOMAIN new
  BY <1>1 DEF Levels, Domains
<1>3. OutOfOrder(new[lv[2]], old[lv[1]])
  BY <1>1, <1>2, DisorderBack
<1>4. <<lv[2], lv[1]>> \in Levels(new, old)
  BY <1>1, LevelsBack
<1> DEFINE x == <<lv[2], lv[1]>>
<1>5. x[1] = lv[2] /\ x[2] = lv[1] /\ x \in Levels(new, old)
  BY <1>4
<1> HIDE DEF x
<1>6. x \in Disordered(new, old)
  BY <1>3, <1>5 DEF Disordered
<1> QED
  BY <1>6 DEF x

(* The diff and the diff read backwards report equally many reordered      *)
(* levels.                                                                 *)
LEMMA ReordersBack ==
    ASSUME NEW old, NEW new, WellFormed(old), WellFormed(new)
    PROVE  Cardinality(OfKind(diff_schemas(new, old), "reorder_fields"))
              = Cardinality(OfKind(diff_schemas(old, new), "reorder_fields"))
<1> DEFINE S == Disordered(old, new)
           T == Disordered(new, old)
           f == [lv \in S |-> <<lv[2], lv[1]>>]
<1>1. f \in [S -> T]
  BY DisorderedBack
<1>2. \A x \in S : f[x] = <<x[2], x[1]>> /\ x = <<x[1], x[2]>>
  BY LevelsBack DEF Disordered
<1>3. \A x, y \in S : f[x] = f[y] => x = y
  <2> HIDE DEF f, S
  <2> QED
    BY <1>2
<1>4. \A t \in T : \E x \in S : f[x] = t
  <2> SUFFICES ASSUME NEW t \in T PROVE \E x \in S : f[x] = t
    OBVIOUS
  <2> DEFINE x == <<t[2], t[1]>>
  <2>1. x \in S
    BY DisorderedBack
  <2>2. x[1] = t[2] /\ x[2] = t[1] /\ t = <<t[1], t[2]>>
    BY LevelsBack DEF Disordered
  <2> HIDE DEF f, S, x
  <2> QED
    BY <1>2, <2>1, <2>2
<1> HIDE DEF S, T, f
<1>5. f \in Bijection(S, T)
  BY <1>1, <1>3, <1>4 DEF Bijection, Injection, Surjection, IsInjective
<1>6. ExistsBijection(S, T)
  BY <1>5 DEF ExistsBijection
<1>7. IsFiniteSet(S) /\ Cardinality(OfKind(diff_schemas(old, new), "reorder_fields")) = Cardinality(S)
  BY OneReorderPerLevel DEF S
<1>8. Cardinality(T) = Cardinality(S)
  BY <1>6, <1>7, FS_Bijection
<1>9. Cardinality(OfKind(diff_schemas(new, old), "reorder_fields")) = Cardinality(T)
  BY OneReorderPerLevel DEF T
<1> QED
  BY <1>7, <1>8, <1>9

(* A field as Outline shows it. *)
Point(s, p) == <<p, FieldAt(s, p).kind, FieldAt(s, p).null>>

(* The parts of Replay. *)
At(mutations, kind, p) == {m \in OfKind(mutations, kind) : m.path = p}

Kept(old, mutations) ==
    {p \in Paths(old) : /\ ~GoneWith(mutations, p)
                        /\ ~\E m \in OfKind(mutations, "change_type") : Below(Target(mutations, p), m.path)}

KindNow(old, mutations, p) ==
    IF At(mutations, "change_type", Target(mutations, p)) = {} THEN FieldAt(old, p).kind
    ELSE (CHOOSE m \in At(mutations, "change_type", Target(mutations, p)) : TRUE).new_type.kind

NullNow(old, mutations, p) ==
    IF At(mutations, "change_nullability", Target(mutations, p)) = {} THEN FieldAt(old, p).null
    ELSE (CHOOSE m \in At(mutations, "change_nullability", Target(mutations, p)) : TRUE).new_nullable

(* Replay, with its local definitions named. *)
LEMMA ReplayParts ==
    ASSUME NEW old, NEW mutations
    PROVE  Replay(old, mutations) =
              {<<Target(mutations, p), KindNow(old, mutations, p), NullNow(old, mutations, p)>> :
                  p \in Kept(old, mutations)}
              \cup (UNION {MembersAt(m.path, m.new_type) : m \in OfKind(mutations, "change_type")})
              \cup {<<m.path, m.type.kind, m.nullable>> : m \in OfKind(mutations, "add_field")}
              \cup (UNION {MembersAt(m.path, m.type) : m \in OfKind(mutations, "add_field")})
BY Zenon DEF Replay, Kept, KindNow, NullNow, At

(* A field is in the replay because it was kept, or came with a new type,  *)
(* or was added, or came with an added one.                                *)
LEMMA ReplayMeans ==
    ASSUME NEW old, NEW mutations, NEW x
    PROVE  x \in Replay(old, mutations) <=>
              \/ \E p \in Kept(old, mutations) :
                    x = <<Target(mutations, p), KindNow(old, mutations, p), NullNow(old, mutations, p)>>
              \/ \E m \in OfKind(mutations, "change_type") : x \in MembersAt(m.path, m.new_type)
              \/ \E m \in OfKind(mutations, "add_field") : x = <<m.path, m.type.kind, m.nullable>>
              \/ \E m \in OfKind(mutations, "add_field") : x \in MembersAt(m.path, m.type)
<1> DEFINE A == {<<Target(mutations, p), KindNow(old, mutations, p), NullNow(old, mutations, p)>> :
                    p \in Kept(old, mutations)}
           B == UNION {MembersAt(m.path, m.new_type) : m \in OfKind(mutations, "change_type")}
           C == {<<m.path, m.type.kind, m.nullable>> : m \in OfKind(mutations, "add_field")}
           D == UNION {MembersAt(m.path, m.type) : m \in OfKind(mutations, "add_field")}
<1>1. x \in A <=> \E p \in Kept(old, mutations) :
                     x = <<Target(mutations, p), KindNow(old, mutations, p), NullNow(old, mutations, p)>>
  OBVIOUS
<1>2. x \in B <=> \E m \in OfKind(mutations, "change_type") : x \in MembersAt(m.path, m.new_type)
  BY Zenon
<1>3. x \in C <=> \E m \in OfKind(mutations, "add_field") : x = <<m.path, m.type.kind, m.nullable>>
  OBVIOUS
<1>4. x \in D <=> \E m \in OfKind(mutations, "add_field") : x \in MembersAt(m.path, m.type)
  BY Zenon
<1>5. Replay(old, mutations) = A \cup B \cup C \cup D
  BY ReplayParts
<1> HIDE DEF A, B, C, D
<1>6. x \in Replay(old, mutations) <=> x \in A \/ x \in B \/ x \in C \/ x \in D
  BY <1>5
<1> QED
  BY <1>1, <1>2, <1>3, <1>4, <1>6

(* The fields the replay keeps are the paired ones.                        *)
LEMMA KeptArePaired ==
    ASSUME NEW old, NEW new, WellFormed(old), WellFormed(new), NEW p
    PROVE  p \in Kept(old, diff_schemas(old, new)) <=> \E q : <<p, q>> \in Pairs(old, new)
<1>1. ASSUME NEW q, <<p, q>> \in Pairs(old, new)
      PROVE  p \in Kept(old, diff_schemas(old, new))
  <2>1. p \in Paths(old) /\ q \in Paths(new)
    BY <1>1, PairFacts
  <2>2. ~GoneWith(diff_schemas(old, new), p)
    BY <1>1, PairedIsNotLost, GoneMeans
  <2>3. Target(diff_schemas(old, new), p) = q
    BY <1>1, TargetOfPair
  <2>4. ASSUME NEW m \in OfKind(diff_schemas(old, new), "change_type"), Below(q, m.path) PROVE FALSE
    <3>1. PICK xy \in Pairs(old, new) :
              /\ ~Descends(FieldAt(old, xy[1]), FieldAt(new, xy[2]))
              /\ m = change_type(xy[2], TypeOf(old, xy[1]), TypeOf(new, xy[2]))
      BY RetypedMeans
    <3>2. m.path = xy[2]
      BY <3>1 DEF change_type
    <3> DEFINE r == xy[1]
               s == xy[2]
    <3>3. <<r, s>> \in Pairs(old, new) /\ s \in Paths(new)
      BY PairIs
    <3>4. ~Descends(FieldAt(old, r), FieldAt(new, s)) /\ Below(q, s)
      BY <2>4, <3>1, <3>2
    <3> HIDE DEF r, s
    <3>5. <<q, p>> \in Pairs(new, old)
      BY <1>1, PairBack
    <3>6. PICK d \in Paths(old) : <<s, d>> \in Pairs(new, old) /\ Descends(FieldAt(new, s), FieldAt(old, d))
      BY <3>3, <3>4, <3>5, PairsAround
    <3>7. <<d, s>> \in Pairs(old, new)
      BY <3>6, PairBack
    <3>8. d = r
      BY <3>3, <3>7, PairUniqueBack
    <3> QED
      BY <3>4, <3>6, <3>8 DEF Descends
  <2> QED
    BY <2>1, <2>2, <2>3, <2>4 DEF Kept
<1>2. ASSUME p \in Kept(old, diff_schemas(old, new)), \A q : <<p, q>> \notin Pairs(old, new) PROVE FALSE
  <2>1. /\ p \in Paths(old) /\ ~GoneWith(diff_schemas(old, new), p)
        /\ ~\E m \in OfKind(diff_schemas(old, new), "change_type") : Below(Target(diff_schemas(old, new), p), m.path)
    BY <1>2 DEF Kept
  <2>2. ~\E r \in Lost(old, new) : Under(p, r)
    BY <2>1, GoneMeans
  <2>3. InsideRetyped(old, new, p)
    BY <1>2, <2>1, <2>2, Whereabouts
  <2>4. PICK r \in Paths(old), s \in Paths(new) :
           <<r, s>> \in Pairs(old, new) /\ ~Descends(FieldAt(old, r), FieldAt(new, s)) /\ Below(p, r)
    BY <2>3 DEF InsideRetyped
  <2>5. Container(old, r)
    BY <2>1, <2>4, AroundIsContainer
  <2>6. Below(Target(diff_schemas(old, new), p), s)
    BY <2>1, <2>4, TargetInside
  <2>7. \E m \in OfKind(diff_schemas(old, new), "change_type") : m.path = s
    BY <2>4, <2>5, RetypeIsSeen
  <2> QED
    BY <2>1, <2>6, <2>7
<1> QED
  BY <1>1, <1>2

(* A kept field gets the path, the kind and the nullability of its partner *)
(* in the new schema.                                                      *)
LEMMA KindAndNullNow ==
    ASSUME NEW old, NEW new, WellFormed(old), WellFormed(new), NEW p, NEW q, <<p, q>> \in Pairs(old, new)
    PROVE  /\ Target(diff_schemas(old, new), p) = q
           /\ KindNow(old, diff_schemas(old, new), p) = FieldAt(new, q).kind
           /\ NullNow(old, diff_schemas(old, new), p) = FieldAt(new, q).null
<1> DEFINE seen == diff_schemas(old, new)
           pq == <<p, q>>
<1>1. Target(seen, p) = q
  BY TargetOfPair
<1>2. pq \in Pairs(old, new) /\ pq[1] = p /\ pq[2] = q
  OBVIOUS
<1> HIDE DEF pq
<1>3. KindNow(old, seen, p) = FieldAt(new, q).kind
  <2>1. CASE At(seen, "change_type", q) = {}
    <3>1. ASSUME ~Descends(FieldAt(old, p), FieldAt(new, q)), TypeOf(old, p) # TypeOf(new, q) PROVE FALSE
      <4> DEFINE m == change_type(q, TypeOf(old, p), TypeOf(new, q))
      <4>1. m.path = q
        BY DEF change_type
      <4>2. m \in OfKind(seen, "change_type")
        BY <1>2, <3>1, RetypedMeans
      <4> QED
        BY <2>1, <4>1, <4>2 DEF At
    <3>2. FieldAt(old, p).kind = FieldAt(new, q).kind
      <4>1. CASE Descends(FieldAt(old, p), FieldAt(new, q))
        BY <4>1 DEF Descends
      <4>2. CASE TypeOf(old, p) = TypeOf(new, q)
        <5>1. TypeOf(old, p).kind = FieldAt(old, p).kind /\ TypeOf(new, q).kind = FieldAt(new, q).kind
          BY DEF TypeOf
        <5> QED
          BY <4>2, <5>1
      <4> QED
        BY <3>1, <4>1, <4>2
    <3> QED
      BY <1>1, <2>1, <3>2 DEF KindNow
  <2>2. CASE At(seen, "change_type", q) # {}
    <3> DEFINE m == CHOOSE c \in At(seen, "change_type", q) : TRUE
    <3>1. m \in At(seen, "change_type", q)
      BY <2>2
    <3>2. KindNow(old, seen, p) = m.new_type.kind
      BY <1>1, <2>2 DEF KindNow
    <3> HIDE DEF m
    <3>3. m \in OfKind(seen, "change_type") /\ m.path = q
      BY <3>1 DEF At
    <3>4. PICK xy \in Pairs(old, new) : m = change_type(xy[2], TypeOf(old, xy[1]), TypeOf(new, xy[2]))
      BY <3>3, RetypedMeans
    <3>5. m.path = xy[2] /\ m.new_type = TypeOf(new, xy[2])
      BY <3>4 DEF change_type
    <3>6. m.new_type.kind = FieldAt(new, q).kind
      BY <3>3, <3>5 DEF TypeOf
    <3> QED
      BY <3>2, <3>6
  <2> QED
    BY <2>1, <2>2
<1>4. NullNow(old, seen, p) = FieldAt(new, q).null
  <2>1. CASE At(seen, "change_nullability", q) = {}
    <3>1. ASSUME FieldAt(old, p).null # FieldAt(new, q).null PROVE FALSE
      <4> DEFINE m == change_nullability(q, FieldAt(old, p).null, FieldAt(new, q).null)
      <4>1. m.path = q
        BY DEF change_nullability
      <4>2. m \in OfKind(seen, "change_nullability")
        BY <1>2, <3>1, RelaxedMeans
      <4> QED
        BY <2>1, <4>1, <4>2 DEF At
    <3> QED
      BY <1>1, <2>1, <3>1 DEF NullNow
  <2>2. CASE At(seen, "change_nullability", q) # {}
    <3> DEFINE m == CHOOSE c \in At(seen, "change_nullability", q) : TRUE
    <3>1. m \in At(seen, "change_nullability", q)
      BY <2>2
    <3>2. NullNow(old, seen, p) = m.new_nullable
      BY <1>1, <2>2 DEF NullNow
    <3> HIDE DEF m
    <3>3. m \in OfKind(seen, "change_nullability") /\ m.path = q
      BY <3>1 DEF At
    <3>4. PICK xy \in Pairs(old, new) :
             m = change_nullability(xy[2], FieldAt(old, xy[1]).null, FieldAt(new, xy[2]).null)
      BY <3>3, RelaxedMeans
    <3>5. m.path = xy[2] /\ m.new_nullable = FieldAt(new, xy[2]).null
      BY <3>4 DEF change_nullability
    <3> QED
      BY <3>2, <3>3, <3>5
  <2> QED
    BY <2>1, <2>2
<1> QED
  BY <1>1, <1>3, <1>4

(* The members a type string lists are the fields inside the field that    *)
(* has the type.                                                           *)
LEMMA MembersMean ==
    ASSUME NEW s, WellFormed(s), NEW q \in Paths(s), NEW x
    PROVE  x \in MembersAt(q, TypeOf(s, q)) <=> \E g \in Paths(s) : Below(g, q) /\ x = Point(s, g)
<1> DEFINE N == Segments(s)
           inner == TypeOf(s, q).inner
           point(r, i) == <<Append(q \o r, inner[r][i].name), inner[r][i].kind, inner[r][i].null>>
<1>0. q \in Seq(N)
  BY PathFacts
<1>1. inner = Inner(s, q)
  BY DEF TypeOf
<1>2. DOMAIN inner = {Beyond(g, q) : g \in {h \in DOMAIN s : Under(h, q)}}
  BY <1>1 DEF Inner
<1>3. \A r \in DOMAIN inner : inner[r] = [i \in DOMAIN s[q \o r] |-> Member(s[q \o r][i])]
  BY <1>1 DEF Inner
<1>4. x \in MembersAt(q, TypeOf(s, q)) <=> \E r \in DOMAIN inner : \E i \in DOMAIN inner[r] : x = point(r, i)
  BY DEF MembersAt
<1>5. \A g \in DOMAIN s : Under(g, q) =>
         Beyond(g, q) \in DOMAIN inner /\ q \o Beyond(g, q) = g
  <2> SUFFICES ASSUME NEW g \in DOMAIN s, Under(g, q)
               PROVE  Beyond(g, q) \in DOMAIN inner /\ q \o Beyond(g, q) = g
    OBVIOUS
  <2>1. g \in Seq(N)
    BY SchemaFacts
  <2> QED
    BY <1>0, <1>2, <2>1, UnderMeans
<1>6. \A r \in DOMAIN inner : \E g \in DOMAIN s : Under(g, q) /\ r = Beyond(g, q) /\ q \o r = g
  BY <1>2, <1>5
<1> HIDE DEF inner, N
<1>7. ASSUME NEW r \in DOMAIN inner, NEW i \in DOMAIN inner[r]
      PROVE  \E g \in Paths(s) : Below(g, q) /\ point(r, i) = Point(s, g)
  <2>1. PICK g \in DOMAIN s : Under(g, q) /\ q \o r = g
    BY <1>6
  <2>2. i \in DOMAIN s[g] /\ inner[r][i] = Member(s[g][i])
    BY <1>3, <2>1
  <2> DEFINE t == Append(g, s[g][i].name)
  <2>3. t \in Paths(s) /\ FieldAt(s, t) = s[g][i] /\ s[g][i].name \in Segments(s)
    BY <2>2, FieldFacts
  <2>4. Below(t, q)
    <3>1. g \in Seq(N)
      BY SchemaFacts DEF N
    <3>2. Under(t, q)
      BY <1>0, <2>1, <2>3, <3>1, UnderFacts DEF N
    <3>3. t # q
      <4>1. Len(q) <= Len(g) /\ Len(t) = Len(g) + 1 /\ Len(q) \in Nat /\ Len(g) \in Nat
        BY <1>0, <2>1, <2>3, <3>1, UnderFacts, AppendFacts DEF N
      <4> QED
        BY <4>1
    <3> QED
      BY <3>2, <3>3 DEF Below, Under, IsStrictPrefix
  <2>5. point(r, i) = Point(s, t)
    BY <2>1, <2>2, <2>3 DEF Point, Member
  <2> QED
    BY <2>3, <2>4, <2>5
<1>8. ASSUME NEW g \in Paths(s), Below(g, q)
      PROVE  \E r \in DOMAIN inner : \E i \in DOMAIN inner[r] : point(r, i) = Point(s, g)
  <2>1. /\ g \in Seq(N) /\ g = Append(Front(g), Last(g)) /\ Front(g) \in DOMAIN s /\ Last(g) \in N
        /\ FieldAt(s, g).name = Last(g)
    BY PathFacts DEF N
  <2>2. Front(g) \in Seq(N)
    BY <2>1, SchemaFacts DEF N
  <2>3. Under(g, q) /\ g # q
    BY <1>8 DEF Below, Under, IsStrictPrefix
  <2>4. Under(Front(g), q)
    <3> DEFINE a == Front(g)
               b == Last(g)
    <3>1. a \in Seq(N) /\ b \in N /\ g = Append(a, b)
      BY <2>1, <2>2
    <3>2. Under(Append(a, b), q) /\ q # Append(a, b)
      BY <2>3, <3>1
    <3> HIDE DEF a, b
    <3>3. Under(a, q)
      BY <1>0, <3>1, <3>2, UnderFacts
    <3> QED
      BY <3>3 DEF a
  <2>5. PICK i \in DOMAIN s[Front(g)] : FieldAt(s, g) = s[Front(g)][i]
    BY PathFacts
  <2> DEFINE r == Beyond(Front(g), q)
  <2>6. r \in DOMAIN inner /\ q \o r = Front(g)
    BY <1>5, <2>1, <2>4
  <2>a. inner[r] = [j \in DOMAIN s[q \o r] |-> Member(s[q \o r][j])]
    BY <1>3, <2>6
  <2>b. q \o r = Front(g)
    BY <2>6
  <2> HIDE DEF r
  <2>c. inner[r] = [j \in DOMAIN s[Front(g)] |-> Member(s[Front(g)][j])]
    BY <2>a, <2>b, Zenon
  <2>7. i \in DOMAIN inner[r] /\ inner[r][i] = Member(FieldAt(s, g))
    BY <2>5, <2>c
  <2> HIDE DEF r
  <2>8. point(r, i) = Point(s, g)
    BY <2>1, <2>6, <2>7 DEF Point, Member
  <2> QED
    BY <2>6, <2>7, <2>8
<1> QED
  BY <1>4, <1>7, <1>8

(* The outline of a schema, field by field. *)
LEMMA OutlineMeans ==
    ASSUME NEW s
    PROVE  Outline(s) = {Point(s, p) : p \in Paths(s)}
BY DEF Outline, Point

(* The members a change_type or add_field brings in its type. *)
LEMMA BroughtIn ==
    ASSUME NEW s, WellFormed(s), NEW q \in Paths(s)
    PROVE  MembersAt(q, TypeOf(s, q)) \subseteq Outline(s)
BY MembersMean, OutlineMeans

(* Every field of the new schema is in the replay: it is paired, or added  *)
(* with what holds it, or inside a retyped field.                          *)
LEMMA EverythingIsReplayed ==
    ASSUME NEW old, NEW new, WellFormed(old), WellFormed(new), NEW g \in Paths(new),
           NEW seen, seen = diff_schemas(old, new)
    PROVE  Point(new, g) \in Replay(old, seen)
<1> DEFINE now(p) == <<Target(seen, p), KindNow(old, seen, p), NullNow(old, seen, p)>>
<1>1. Point(new, g) \in Replay(old, seen) <=>
         \/ \E p \in Kept(old, seen) : Point(new, g) = <<Target(seen, p), KindNow(old, seen, p), NullNow(old, seen, p)>>
         \/ \E m \in OfKind(seen, "change_type") : Point(new, g) \in MembersAt(m.path, m.new_type)
         \/ \E m \in OfKind(seen, "add_field") : Point(new, g) = <<m.path, m.type.kind, m.nullable>>
         \/ \E m \in OfKind(seen, "add_field") : Point(new, g) \in MembersAt(m.path, m.type)
  BY ReplayMeans
<1>2. \/ \E q \in Paths(old) : <<g, q>> \in Pairs(new, old)
      \/ \E r \in Lost(new, old) : Under(g, r)
      \/ InsideRetyped(new, old, g)
  BY Whereabouts
<1>3. CASE \E q \in Paths(old) : <<g, q>> \in Pairs(new, old)
  <2>1. PICK p \in Paths(old) : <<g, p>> \in Pairs(new, old)
    BY <1>3
  <2>2. <<p, g>> \in Pairs(old, new)
    BY <2>1, PairBack
  <2>3. p \in Kept(old, seen)
    BY <2>2, KeptArePaired
  <2>4. now(p) = Point(new, g)
    <3>1. /\ Target(seen, p) = g /\ KindNow(old, seen, p) = FieldAt(new, g).kind
          /\ NullNow(old, seen, p) = FieldAt(new, g).null
      BY <2>2, KindAndNullNow
    <3> QED
      BY <3>1 DEF Point
  <2> QED
    BY <1>1, <2>3, <2>4
<1>4. CASE \E r \in Lost(new, old) : Under(g, r)
  <2>1. PICK r \in Lost(new, old) : Under(g, r)
    BY <1>4
  <2>2. r \in Paths(new)
    BY DEF Lost
  <2> DEFINE m == add_field(r, TypeOf(new, r), FieldAt(new, r).null)
  <2>3. m \in OfKind(seen, "add_field")
    BY AddedMeans
  <2>4. m.path = r /\ m.type = TypeOf(new, r) /\ m.nullable = FieldAt(new, r).null
    BY DEF add_field
  <2> HIDE DEF m
  <2>5. CASE g = r
    <3>1. <<m.path, m.type.kind, m.nullable>> = Point(new, g)
      BY <2>4, <2>5 DEF Point, TypeOf
    <3> QED
      BY <1>1, <2>3, <3>1
  <2>6. CASE g # r
    <3>1. Below(g, r)
      BY <2>1, <2>6 DEF Below, Under, IsStrictPrefix
    <3>2. Point(new, g) \in MembersAt(r, TypeOf(new, r))
      BY <2>2, <3>1, MembersMean
    <3>3. Point(new, g) \in MembersAt(m.path, m.type)
      BY <2>4, <3>2
    <3> QED
      BY <1>1, <2>3, <3>3
  <2> QED
    BY <2>5, <2>6
<1>5. CASE InsideRetyped(new, old, g)
  <2>1. PICK r \in Paths(new), s \in Paths(old) :
           <<r, s>> \in Pairs(new, old) /\ ~Descends(FieldAt(new, r), FieldAt(old, s)) /\ Below(g, r)
    BY <1>5 DEF InsideRetyped
  <2>2. <<s, r>> \in Pairs(old, new)
    BY <2>1, PairBack
  <2>3. ~Descends(FieldAt(old, s), FieldAt(new, r))
    BY <2>1 DEF Descends
  <2>4. Container(new, r)
    BY <2>1, AroundIsContainer
  <2>5. PICK m \in OfKind(seen, "change_type") : m.path = r /\ m.new_type = TypeOf(new, r)
    BY <2>2, <2>3, <2>4, RetypeIsSeen
  <2>6. Point(new, g) \in MembersAt(r, TypeOf(new, r))
    BY <2>1, MembersMean
  <2>7. Point(new, g) \in MembersAt(m.path, m.new_type)
    BY <2>5, <2>6
  <2> QED
    BY <1>1, <2>5, <2>7
<1> QED
  BY <1>2, <1>3, <1>4, <1>5

(* The replay invents nothing: what it keeps, moves, retypes and adds is   *)
(* in the new schema.                                                      *)
LEMMA NothingElseIsReplayed ==
    ASSUME NEW old, NEW new, WellFormed(old), WellFormed(new), 
           NEW seen, seen = diff_schemas(old, new), NEW x \in Replay(old, seen)
    PROVE  x \in Outline(new)
<1>1. x \in Replay(old, seen) <=>
         \/ \E p \in Kept(old, seen) : x = <<Target(seen, p), KindNow(old, seen, p), NullNow(old, seen, p)>>
         \/ \E m \in OfKind(seen, "change_type") : x \in MembersAt(m.path, m.new_type)
         \/ \E m \in OfKind(seen, "add_field") : x = <<m.path, m.type.kind, m.nullable>>
         \/ \E m \in OfKind(seen, "add_field") : x \in MembersAt(m.path, m.type)
  BY ReplayMeans
<1>2. ASSUME NEW p \in Kept(old, seen)
      PROVE  <<Target(seen, p), KindNow(old, seen, p), NullNow(old, seen, p)>> \in Outline(new)
  <2>1. PICK q : <<p, q>> \in Pairs(old, new)
    BY KeptArePaired
  <2>2. q \in Paths(new)
    BY <2>1, PairFacts
  <2>3. Target(seen, p) = q /\ KindNow(old, seen, p) = FieldAt(new, q).kind /\ NullNow(old, seen, p) = FieldAt(new, q).null
    BY <2>1, KindAndNullNow
  <2> QED
    BY <2>2, <2>3 DEF Outline
<1>3. ASSUME NEW m \in OfKind(seen, "change_type")
      PROVE  MembersAt(m.path, m.new_type) \subseteq Outline(new)
  <2>1. PICK xy \in Pairs(old, new) : m = change_type(xy[2], TypeOf(old, xy[1]), TypeOf(new, xy[2]))
    BY RetypedMeans
  <2>2. m.path = xy[2] /\ m.new_type = TypeOf(new, xy[2])
    BY <2>1 DEF change_type
  <2>3. xy[2] \in Paths(new)
    BY PairIs
  <2>4. MembersAt(xy[2], TypeOf(new, xy[2])) \subseteq Outline(new)
    BY <2>3, BroughtIn
  <2> QED
    BY <2>2, <2>4
<1>4. ASSUME NEW m \in OfKind(seen, "add_field")
      PROVE  /\ <<m.path, m.type.kind, m.nullable>> \in Outline(new)
             /\ MembersAt(m.path, m.type) \subseteq Outline(new)
  <2>1. PICK q \in Lost(new, old) : m = add_field(q, TypeOf(new, q), FieldAt(new, q).null)
    BY AddedMeans
  <2>2. m.path = q /\ m.type = TypeOf(new, q) /\ m.nullable = FieldAt(new, q).null
    BY <2>1 DEF add_field
  <2>3. q \in Paths(new)
    BY DEF Lost
  <2>4. MembersAt(q, TypeOf(new, q)) \subseteq Outline(new)
    BY <2>3, BroughtIn
  <2>5. m.type.kind = FieldAt(new, q).kind
    BY <2>2 DEF TypeOf
  <2>6. <<m.path, m.type.kind, m.nullable>> \in Outline(new)
    BY <2>2, <2>3, <2>5 DEF Outline
  <2> QED
    BY <2>2, <2>4, <2>6
<1>5. x \in Replay(old, seen)
  OBVIOUS
<1> QED
  BY <1>1, <1>2, <1>3, <1>4, <1>5

-----------------------------------------------------------------------------
(* Read backwards, additions are removals, renames go back, altered pairs  *)
(* are the same pairs, and as many levels are reordered: a result of an    *)
(* engine run on [to, from] may be judged by the diff of [from, to].       *)
THEOREM DiffIsReversible ==
    ASSUME WellFormed(from), WellFormed(to)
    PROVE  DiffReadsBackwards
<1> DEFINE back == diff_schemas(to, from)
           forth == diff_schemas(from, to)
<1>1. {m.path : m \in OfKind(back, "add_field")} = {m.path : m \in OfKind(forth, "remove_field")}
  BY RemovedPaths, AddedPaths
<1>2. {m.path : m \in OfKind(back, "remove_field")} = {m.path : m \in OfKind(forth, "add_field")}
  BY RemovedPaths, AddedPaths
<1>3. {<<m.old_path, m.path>> : m \in OfKind(back, "rename_field")}
        = {<<m.path, m.old_path>> : m \in OfKind(forth, "rename_field")}
  BY RenamesBack
<1>4. \A kind \in {"change_type", "change_nullability"} :
        {m.path : m \in OfKind(back, kind)}
           = {pq[1] : pq \in {xy \in Pairs(from, to) : xy[2] \in {m.path : m \in OfKind(forth, kind)}}}
  BY AlterationsBack
<1>5. Cardinality(OfKind(back, "reorder_fields")) = Cardinality(OfKind(forth, "reorder_fields"))
  BY ReordersBack
<1> QED
  BY <1>1, <1>2, <1>3, <1>4, <1>5 DEF DiffReadsBackwards, Observed

(* When the diff is empty the two schemas have one shape, and a schema has *)
(* no diff with itself.                                                    *)
THEOREM EmptyDiffIsSilence ==
    ASSUME WellFormed(from), WellFormed(to)
    PROVE  EmptyDiffMeansSameSchema
<1>1. diff_schemas(from, to) = {} => Shape(from) = Shape(to)
  BY EmptyDiffMeansSameShape
<1>2. from = to => diff_schemas(from, to) = {}
  BY SameSchemaMeansEmptyDiff
<1> QED
  BY <1>1, <1>2 DEF EmptyDiffMeansSameSchema, Observed

(* The paths observe_transition compares are the pairs of the diff, and    *)
(* paths inside a container whose type changed.                            *)
THEOREM CommonPathsArePairs ==
    ASSUME WellFormed(from), WellFormed(to)
    PROVE  CommonPathsFollowTheDiff
<1>1. Pairs(from, to) \subseteq Common(from, to)
  BY PairedIsCommon
<1>2. ASSUME NEW pq \in Common(from, to) \ Pairs(from, to)
      PROVE  \E m \in OfKind(diff_schemas(from, to), "change_type") : Below(pq[2], m.path)
  <2>1. pq = <<pq[1], pq[2]>>
    BY CommonIs
  <2>2. <<pq[1], pq[2]>> \in Common(from, to) /\ <<pq[1], pq[2]>> \notin Pairs(from, to)
    BY <2>1
  <2> QED
    BY <2>2, CommonIsPaired
<1> QED
  BY <1>1, <1>2 DEF CommonPathsFollowTheDiff, Observed

(* paths_retained of observe_transition: no field was removed or renamed,  *)
(* and every path still names the field it named.                          *)
THEOREM RetainedPathsStay ==
    ASSUME WellFormed(from), WellFormed(to)
    PROVE  RetainedPathsAreTheSameFields
<1> SUFFICES ASSUME PathsRetained(from, to) PROVE RetainedPathsAreTheSameFields
  BY DEF RetainedPathsAreTheSameFields
<1>1. \A p \in Paths(from) : <<p, p>> \in Common(from, to)
  BY DEF PathsRetained
<1>2. \A p \in Paths(from) : ~GoneWith(diff_schemas(from, to), p) /\ p = Target(diff_schemas(from, to), p)
  BY <1>1, CommonMeans
<1>3. OfKind(diff_schemas(from, to), "remove_field") = {}
  <2> SUFFICES ASSUME NEW m \in OfKind(diff_schemas(from, to), "remove_field") PROVE FALSE
    OBVIOUS
  <2>1. PICK p \in Lost(from, to) : TRUE
    BY RemovedMeans
  <2>2. p \in Paths(from) /\ Under(p, p)
    <3>1. p \in Paths(from)
      BY DEF Lost
    <3>2. p \in Seq(Segments(from))
      BY <3>1, PathFacts
    <3> QED
      BY <3>1, <3>2, UnderFacts
  <2>3. GoneWith(diff_schemas(from, to), p)
    BY <2>2, GoneMeans
  <2> QED
    BY <1>2, <2>2, <2>3
<1>4. OfKind(diff_schemas(from, to), "rename_field") = {}
  <2> SUFFICES ASSUME NEW m \in OfKind(diff_schemas(from, to), "rename_field") PROVE FALSE
    OBVIOUS
  <2>1. <<m.old_path, m.path>> \in Pairs(from, to) /\ Last(m.old_path) # Last(m.path) /\ m.old_path \in Paths(from)
    BY RenameFacts
  <2>2. Target(diff_schemas(from, to), m.old_path) = m.path
    BY <2>1, TargetOfPair
  <2> QED
    BY <1>2, <2>1, <2>2
<1>5. ASSUME NEW p \in Paths(from)
      PROVE  \/ <<p, p>> \in Pairs(from, to)
             \/ \E m \in OfKind(diff_schemas(from, to), "change_type") : Below(p, m.path)
  BY <1>1, CommonIsPaired
<1> QED
  BY <1>3, <1>4, <1>5 DEF RetainedPathsAreTheSameFields, Observed

(* "Every structural difference between `old` and `new`": the old schema   *)
(* and the mutations of diff_schemas determine every field of the new one. *)
THEOREM DiffIsComplete ==
    ASSUME WellFormed(from), WellFormed(to)
    PROVE  MutationsRebuildTheNewSchema
<1>1. \A x \in Replay(from, diff_schemas(from, to)) : x \in Outline(to)
  BY NothingElseIsReplayed
<1>2. \A x \in Outline(to) : x \in Replay(from, diff_schemas(from, to))
  BY EverythingIsReplayed, OutlineMeans
<1>3. Replay(from, diff_schemas(from, to)) = Outline(to)
  <2> DEFINE A == Replay(from, diff_schemas(from, to))
             B == Outline(to)
  <2>1. \A x : x \in A <=> x \in B
    BY <1>1, <1>2
  <2>2. A = {x \in A \cup B : x \in A} /\ B = {x \in A \cup B : x \in B}
    OBVIOUS
  <2> HIDE DEF A, B
  <2>3. A = B
    BY <2>1, <2>2
  <2> QED
    BY <2>3 DEF A, B
<1> QED
  BY <1>3 DEF MutationsRebuildTheNewSchema, Observed

-----------------------------------------------------------------------------
(****************************************************************************)
(* Well-formed schemas by levels and places, with any segments to make     *)
(* paths of                                                                *)
(****************************************************************************)
(* The level that field i of level g holds, if it holds one. *)
Held(s, g, i) == LevelOf(s[g][i], Append(g, s[g][i].name))

(* The members of a list are its element, those of a map its key and value. *)
Shaped(kind, F) ==
    /\ kind \in {"list", "large_list"} => Len(F) = 1 /\ F[1].name = "[]" /\ F[1].id = NoId
    /\ kind = "map" => [i \in DOMAIN F |-> F[i].name] = <<"key", "value">> /\ ~F[1].null

(* Field i of level g holds the level h. *)
HoldsLevel(s, g, i, h) == s[g][i].kind \in Containers /\ h = Held(s, g, i)

(* WellFormed by levels and places, with any set of segments M. *)
Sound(s, M) ==
    /\ IsFiniteSet(DOMAIN s) /\ <<>> \in DOMAIN s /\ DOMAIN s \subseteq Seq(M) /\ "[]" \in M
    /\ \A g \in DOMAIN s : s[g] \in Seq(Fields(M)) /\ Siblings(s[g])
    /\ \A g \in DOMAIN s : \A i \in DOMAIN s[g] :
          s[g][i].kind \in Containers => Held(s, g, i) \in DOMAIN s /\ Shaped(s[g][i].kind, s[Held(s, g, i)])
    /\ \A h \in DOMAIN s : h = <<>> \/ \E g \in DOMAIN s : \E i \in DOMAIN s[g] : HoldsLevel(s, g, i, h)

(* The same, one place at a time. *)
LEMMA WellFormedIsSound ==
    ASSUME NEW s, WellFormed(s)
    PROVE  Sound(s, Segments(s))
<1>1. /\ IsFiniteSet(DOMAIN s) /\ <<>> \in DOMAIN s /\ "[]" \in Segments(s)
      /\ \A g \in DOMAIN s : g \in Seq(Segments(s)) /\ s[g] \in Seq(Fields(Segments(s))) /\ Siblings(s[g])
  BY SchemaFacts
<1>2. ASSUME NEW g \in DOMAIN s, NEW i \in DOMAIN s[g], s[g][i].kind \in Containers
      PROVE  Held(s, g, i) \in DOMAIN s /\ Shaped(s[g][i].kind, s[Held(s, g, i)])
  <2> DEFINE p == Append(g, s[g][i].name)
  <2>1. p \in Paths(s) /\ FieldAt(s, p) = s[g][i]
    BY FieldFacts
  <2>2. Held(s, g, i) = Inside(s, p)
    BY <2>1 DEF Held, Inside
  <2>3. Inside(s, p) \in DOMAIN s
    BY <1>2, <2>1, SchemaFacts DEF Container
  <2>4. Shaped(FieldAt(s, p).kind, s[Inside(s, p)])
    <3>1. FieldAt(s, p).kind \in {"list", "large_list"} =>
             Len(s[p]) = 1 /\ s[p][1].name = "[]" /\ s[p][1].id = NoId /\ Inside(s, p) = p
      BY <2>1, InsideFacts DEF WellFormed
    <3>2. FieldAt(s, p).kind = "map" =>
             /\ [j \in DOMAIN s[Append(p, "[]")] |-> s[Append(p, "[]")][j].name] = <<"key", "value">>
             /\ ~s[Append(p, "[]")][1].null
             /\ Inside(s, p) = Append(p, "[]")
      BY <2>1 DEF WellFormed, Inside, LevelOf
    <3> HIDE DEF p
    <3> QED
      BY <3>1, <3>2 DEF Shaped
  <2> HIDE DEF p
  <2> QED
    BY <2>1, <2>2, <2>3, <2>4
<1>3. ASSUME NEW h \in DOMAIN s, h # <<>>
      PROVE  \E g \in DOMAIN s : \E i \in DOMAIN s[g] : HoldsLevel(s, g, i, h)
  <2>1. PICK p \in Paths(s) : Container(s, p) /\ h = Inside(s, p)
    BY <1>3, SchemaFacts
  <2>2. PICK i \in DOMAIN s[Front(p)] : FieldAt(s, p) = s[Front(p)][i]
    BY PathFacts
  <2>3. Front(p) \in DOMAIN s /\ p = Append(Front(p), Last(p)) /\ FieldAt(s, p).name = Last(p)
    BY PathFacts
  <2>4. HoldsLevel(s, Front(p), i, h)
    BY <2>1, <2>2, <2>3 DEF HoldsLevel, Held, Container, Inside
  <2> QED
    BY <2>2, <2>3, <2>4
<1> QED
  BY <1>1, <1>2, <1>3 DEF Sound

(* The field at a place of a sound schema is the one its path names. *)
LEMMA SoundFields ==
    ASSUME NEW s, NEW M, Sound(s, M), NEW g \in DOMAIN s, NEW i \in DOMAIN s[g]
    PROVE  /\ s[g][i] \in Fields(M) /\ s[g][i].name \in M /\ g \in Seq(M) /\ s[g] \in Seq(Fields(M))
           /\ Append(g, s[g][i].name) \in Paths(s)
           /\ FieldAt(s, Append(g, s[g][i].name)) = s[g][i]
           /\ Front(Append(g, s[g][i].name)) = g
<1> DEFINE p == Append(g, s[g][i].name)
<1>1. g \in Seq(M) /\ s[g] \in Seq(Fields(M)) /\ Siblings(s[g])
  BY DEF Sound
<1>2. s[g][i] \in Fields(M)
  BY <1>1
<1>3. s[g][i].name \in M
  BY <1>2 DEF Fields
<1>5. p \in Paths(s)
  BY DEF Paths, PathsIn
<1>6. Front(p) = g /\ Last(p) = s[g][i].name
  BY <1>1, <1>3, AppendFacts
<1>7. \A j \in DOMAIN s[g] : s[g][j].name = s[g][i].name => j = i
  BY <1>1 DEF Siblings
<1>8. FieldAt(s, p) = s[g][i]
  <2>1. FieldAt(s, p) = s[g][CHOOSE j \in DOMAIN s[g] : s[g][j].name = s[g][i].name]
    BY <1>6 DEF FieldAt
  <2>2. (CHOOSE j \in DOMAIN s[g] : s[g][j].name = s[g][i].name) = i
    BY <1>7
  <2> QED
    BY <2>1, <2>2
<1> QED
  BY <1>1, <1>2, <1>3, <1>5, <1>6, <1>8

(* Where the held level is. *)
LEMMA HeldFacts ==
    ASSUME NEW s, NEW M, "[]" \in M, NEW g \in Seq(M), NEW i, s[g][i].name \in M
    PROVE  /\ Held(s, g, i) \in Seq(M) /\ Len(Held(s, g, i)) > Len(g)
           /\ \A N : "[]" \in N /\ g \in Seq(N) /\ s[g][i].name \in N => Held(s, g, i) \in Seq(N)
<1> DEFINE a == s[g][i].name
           p == Append(g, a)
<1>1. p \in Seq(M) /\ Len(p) = Len(g) + 1 /\ Len(g) \in Nat
  BY AppendFacts
<1>2. Append(p, "[]") \in Seq(M) /\ Len(Append(p, "[]")) = Len(p) + 1
  BY <1>1, AppendFacts
<1>3. Held(s, g, i) = p \/ Held(s, g, i) = Append(p, "[]")
  BY DEF Held, LevelOf
<1>4. ASSUME NEW N, "[]" \in N, g \in Seq(N), a \in N PROVE p \in Seq(N) /\ Append(p, "[]") \in Seq(N)
  BY <1>4
<1> HIDE DEF a, p
<1>5. Held(s, g, i) \in Seq(M) /\ Len(Held(s, g, i)) > Len(g)
  BY <1>1, <1>2, <1>3
<1> QED
  BY <1>3, <1>4, <1>5 DEF a

(* Sound for some segments is well-formed: every level is held by a field *)
(* in a shorter one, so that its path is made of names of the schema.      *)
LEMMA SoundIsWellFormed ==
    ASSUME NEW s, NEW M, Sound(s, M)
    PROVE  WellFormed(s)
<1> DEFINE N == Segments(s)
<1>0. "[]" \in N /\ \A g \in DOMAIN s : \A i \in DOMAIN s[g] : s[g][i].name \in N
  BY DEF Segments
<1> HIDE DEF N
<1>1. \A g \in DOMAIN s : g \in Seq(N)
  <2> DEFINE bad == {h \in DOMAIN s : h \notin Seq(N)}
             lengths == {Len(h) : h \in bad}
  <2> SUFFICES ASSUME bad # {} PROVE FALSE
    OBVIOUS
  <2>1. \A h \in bad : h \in Seq(M) /\ Len(h) \in Nat
    BY DEF Sound
  <2>2. lengths \subseteq Nat /\ lengths # {}
    BY <2>1
  <2>3. PICK n \in lengths : \A m \in lengths : n <= m
    BY <2>2, Least
  <2>4. PICK h \in bad : n = Len(h)
    OBVIOUS
  <2>5. h # <<>>
    <3>1. <<>> \in Seq(N) /\ h \notin Seq(N)
      OBVIOUS
    <3> QED
      BY <3>1, Zenon
  <2>6. PICK g \in DOMAIN s : \E i \in DOMAIN s[g] : HoldsLevel(s, g, i, h)
    BY <2>5 DEF Sound
  <2>7. PICK i \in DOMAIN s[g] : HoldsLevel(s, g, i, h)
    BY <2>6
  <2>8. h = Held(s, g, i)
    BY <2>7 DEF HoldsLevel
  <2>9. g \in Seq(M) /\ s[g][i].name \in M /\ "[]" \in M
    BY SoundFields DEF Sound
  <2>10. Len(h) > Len(g) /\ (g \in Seq(N) => h \in Seq(N))
    BY <1>0, <2>8, <2>9, HeldFacts
  <2>11. g \notin bad
    <3> SUFFICES ASSUME g \in bad PROVE FALSE
      OBVIOUS
    <3>1. Len(g) \in lengths /\ Len(g) \in Nat /\ Len(h) \in Nat
      BY <2>1
    <3> QED
      BY <2>3, <2>4, <2>10, <3>1
  <2> QED
    BY <2>10, <2>11
<1>2. \A g \in DOMAIN s : s[g] \in Seq(Fields(N)) /\ Siblings(s[g])
  <2> SUFFICES ASSUME NEW g \in DOMAIN s PROVE s[g] \in Seq(Fields(N)) /\ Siblings(s[g])
    OBVIOUS
  <2>1. s[g] \in Seq(Fields(M)) /\ Siblings(s[g])
    BY DEF Sound
  <2>2. \A i \in DOMAIN s[g] : s[g][i] \in Fields(N)
    <3> SUFFICES ASSUME NEW i \in DOMAIN s[g] PROVE s[g][i] \in Fields(N)
      OBVIOUS
    <3>1. s[g][i] \in Fields(M) /\ s[g][i].name \in N
      BY <1>0, <2>1
    <3> QED
      BY <3>1 DEF Fields
  <2>3. s[g] \in Seq(Fields(N))
    BY <2>1, <2>2
  <2> QED
    BY <2>1, <2>3
<1>3. ASSUME NEW p \in Paths(s)
      PROVE  \E g \in DOMAIN s : \E i \in DOMAIN s[g] : p = Append(g, s[g][i].name)
  BY DEF Paths, PathsIn
<1>4. DOMAIN s = {<<>>} \cup {LevelOf(FieldAt(s, p), p) : p \in {q \in Paths(s) : FieldAt(s, q).kind \in Containers}}
  <2>1. ASSUME NEW p \in Paths(s), FieldAt(s, p).kind \in Containers
        PROVE  LevelOf(FieldAt(s, p), p) \in DOMAIN s
    <3>1. PICK g \in DOMAIN s : \E i \in DOMAIN s[g] : p = Append(g, s[g][i].name)
      BY <1>3
    <3>2. PICK i \in DOMAIN s[g] : p = Append(g, s[g][i].name)
      BY <3>1
    <3>3. FieldAt(s, p) = s[g][i]
      BY <3>2, SoundFields
    <3>4. LevelOf(FieldAt(s, p), p) = Held(s, g, i)
      BY <3>2, <3>3 DEF Held
    <3> QED
      BY <2>1, <3>3, <3>4 DEF Sound
  <2>2. ASSUME NEW h \in DOMAIN s, h # <<>>
        PROVE  \E p \in {q \in Paths(s) : FieldAt(s, q).kind \in Containers} : h = LevelOf(FieldAt(s, p), p)
    <3>1. PICK g \in DOMAIN s : \E i \in DOMAIN s[g] : HoldsLevel(s, g, i, h)
      BY <2>2 DEF Sound
    <3>2. PICK i \in DOMAIN s[g] : HoldsLevel(s, g, i, h)
      BY <3>1
    <3> DEFINE p == Append(g, s[g][i].name)
    <3>3. p \in Paths(s) /\ FieldAt(s, p) = s[g][i]
      BY SoundFields
    <3>4. h = LevelOf(FieldAt(s, p), p) /\ FieldAt(s, p).kind \in Containers
      BY <3>2, <3>3 DEF HoldsLevel, Held
    <3> HIDE DEF p
    <3> QED
      BY <3>3, <3>4
  <2>3. <<>> \in DOMAIN s
    BY DEF Sound
  <2> QED
    BY <2>1, <2>2, <2>3
<1>5. ASSUME NEW p \in Paths(s)
      PROVE  LET f == FieldAt(s, p) IN
             /\ f.kind \in {"list", "large_list"} => Len(s[p]) = 1 /\ s[p][1].name = "[]" /\ s[p][1].id = NoId
             /\ f.kind = "map" =>
                   /\ [i \in DOMAIN s[Append(p, "[]")] |-> s[Append(p, "[]")][i].name] = <<"key", "value">>
                   /\ ~s[Append(p, "[]")][1].null
  <2>1. PICK g \in DOMAIN s : \E i \in DOMAIN s[g] : p = Append(g, s[g][i].name)
    BY <1>3
  <2>2. PICK i \in DOMAIN s[g] : p = Append(g, s[g][i].name)
    BY <2>1
  <2>3. FieldAt(s, p) = s[g][i]
    BY <2>2, SoundFields
  <2>4. s[g][i].kind \in Containers => Shaped(s[g][i].kind, s[Held(s, g, i)])
    BY DEF Sound
  <2>5. s[g][i].kind \in {"list", "large_list"} =>
           s[g][i].kind \in Containers /\ Held(s, g, i) = p
    BY <2>2 DEF Held, LevelOf, Containers
  <2>6. s[g][i].kind = "map" =>
           s[g][i].kind \in Containers /\ Held(s, g, i) = Append(p, "[]")
    BY <2>2 DEF Held, LevelOf, Containers
  <2> QED
    BY <2>3, <2>4, <2>5, <2>6 DEF Shaped
<1>6. IsFiniteSet(DOMAIN s)
  BY DEF Sound
<1> QED
  BY <1>1, <1>2, <1>4, <1>5, <1>6 DEF WellFormed, N

(* More segments do no harm. *)
LEMMA SoundGrows ==
    ASSUME NEW s, NEW N, NEW M, N \subseteq M, Sound(s, N)
    PROVE  Sound(s, M)
<1>1. \A F \in Seq(Fields(N)) : F \in Seq(Fields(M))
  <2>1. Fields(N) \subseteq Fields(M)
    BY DEF Fields
  <2> QED
    BY <2>1
<1>2. \A g \in DOMAIN s : g \in Seq(M)
  BY DEF Sound
<1>3. \A g \in DOMAIN s : s[g] \in Seq(Fields(M))
  BY <1>1 DEF Sound
<1> QED
  BY <1>2, <1>3 DEF Sound

(* The level a field of this kind at p holds. *)
LevelAt(kind, p) == IF kind = "map" THEN Append(p, "[]") ELSE p

(* X is what is inside a field of this kind at p, in levels. *)
Subtree(X, p, kind, M) ==
    /\ p \in Seq(M) /\ "[]" \in M /\ IsFiniteSet(DOMAIN X)
    /\ \A h \in DOMAIN X : h \in Seq(M) /\ Under(h, p) /\ X[h] \in Seq(Fields(M)) /\ Siblings(X[h])
    /\ kind \in Containers => LevelAt(kind, p) \in DOMAIN X /\ Shaped(kind, X[LevelAt(kind, p)])
    /\ \A h \in DOMAIN X : \A i \in DOMAIN X[h] :
          X[h][i].kind \in Containers => Held(X, h, i) \in DOMAIN X /\ Shaped(X[h][i].kind, X[Held(X, h, i)])
    /\ \A h \in DOMAIN X : \/ kind \in Containers /\ h = LevelAt(kind, p)
                           \/ \E g \in DOMAIN X : \E i \in DOMAIN X[g] : HoldsLevel(X, g, i, h)

(* The level of a map is not at the map itself. *)
LEMMA MapHasNoLevel ==
    ASSUME NEW s, NEW M, Sound(s, M), NEW g \in DOMAIN s, NEW i \in DOMAIN s[g], s[g][i].kind = "map"
    PROVE  Append(g, s[g][i].name) \notin DOMAIN s
BY SoundIsWellFormed, SoundFields, NoMapLevel

(* The held level by the kind of the field. *)
LEMMA HeldIs ==
    ASSUME NEW s, NEW g, NEW i
    PROVE  /\ Held(s, g, i) = LevelAt(s[g][i].kind, Append(g, s[g][i].name))
           /\ s[g][i].kind # "map" => Held(s, g, i) = Append(g, s[g][i].name)
           /\ s[g][i].kind = "map" => Held(s, g, i) = Append(Append(g, s[g][i].name), "[]")
BY DEF Held, LevelOf, LevelAt

(* A level is inside of a field when what holds it is, or is that field. *)
LEMMA HeldUnder ==
    ASSUME NEW s, NEW M, Sound(s, M), NEW h \in DOMAIN s, NEW i \in DOMAIN s[h],
           NEW g \in DOMAIN s, NEW a \in M
    PROVE  /\ Under(Held(s, h, i), Append(g, a)) <=> Under(h, Append(g, a)) \/ (h = g /\ s[h][i].name = a)
           /\ Held(s, h, i) \in Seq(M) /\ Len(Held(s, h, i)) > Len(h)
<1> DEFINE c == s[h][i].name
           p == Append(g, a)
           q == Append(h, c)
           l == Held(s, h, i)
<1>1. h \in Seq(M) /\ g \in Seq(M) /\ c \in M /\ "[]" \in M
  BY SoundFields DEF Sound
<1>2. p \in Seq(M) /\ q \in Seq(M) /\ Front(p) = g /\ Last(p) = a /\ Front(q) = h /\ Last(q) = c
  BY <1>1, AppendFacts
<1>3. /\ Append(q, "[]") \in Seq(M) /\ Front(Append(q, "[]")) = q
      /\ Under(q, p) <=> p = q \/ Under(h, p)
      /\ Under(Append(q, "[]"), p) <=> p = Append(q, "[]") \/ Under(q, p)
  <2>1. Append(q, "[]") \in Seq(M) /\ Front(Append(q, "[]")) = q
    BY <1>1, <1>2, AppendFacts
  <2> HIDE DEF p
  <2>2. Under(q, p) <=> p = q \/ Under(h, p)
    <3> HIDE DEF c
    <3> QED
      BY <1>1, <1>2, UnderFacts
  <2> HIDE DEF q
  <2>3. Under(Append(q, "[]"), p) <=> p = Append(q, "[]") \/ Under(q, p)
    BY <1>1, <1>2, UnderFacts
  <2> QED
    BY <2>1, <2>2, <2>3
<1>4. p = q <=> h = g /\ c = a
  BY <1>2
<1>5. Held(s, h, i) \in Seq(M) /\ Len(Held(s, h, i)) > Len(h)
  BY <1>1, HeldFacts
<1>6. CASE s[h][i].kind # "map"
  <2>1. l = q
    BY <1>6, HeldIs
  <2> HIDE DEF l, p, q
  <2> QED
    BY <1>3, <1>4, <1>5, <2>1 DEF l, p
<1>7. CASE s[h][i].kind = "map"
  <2>1. l = Append(q, "[]")
    BY <1>7, HeldIs
  <2>2. q \notin DOMAIN s
    BY <1>7, MapHasNoLevel
  <2>3. p # Append(q, "[]")
    BY <1>2, <1>3, <2>2
  <2> HIDE DEF l, p, q, c
  <2>4. Under(l, p) <=> Under(h, p) \/ (h = g /\ c = a)
    BY <1>3, <1>4, <2>1, <2>3
  <2> QED
    BY <1>5, <2>4 DEF l, p, c
<1> QED
  BY <1>6, <1>7

(* What a schema has inside of a field. *)
LEMMA SubtreeOfField ==
    ASSUME NEW s, NEW M, Sound(s, M), NEW g \in DOMAIN s, NEW i \in DOMAIN s[g],
           NEW p, p = Append(g, s[g][i].name), NEW X, DOMAIN X = {h \in DOMAIN s : Under(h, p)},
           \A h \in DOMAIN X : X[h] = s[h]
    PROVE  Subtree(X, p, s[g][i].kind, M)
<1> DEFINE a == s[g][i].name
           kind == s[g][i].kind
<1>1. g \in Seq(M) /\ a \in M /\ "[]" \in M /\ p \in Seq(M)
  <2>1. g \in Seq(M) /\ a \in M /\ "[]" \in M
    BY SoundFields DEF Sound
  <2> QED
    BY <2>1, AppendFacts
<1>2. IsFiniteSet(DOMAIN X)
  <2>1. IsFiniteSet(DOMAIN s) /\ DOMAIN X \subseteq DOMAIN s
    BY DEF Sound
  <2> QED
    BY <2>1, FS_Subset
<1>3. \A h \in DOMAIN X : h \in Seq(M) /\ Under(h, p) /\ X[h] \in Seq(Fields(M)) /\ Siblings(X[h])
  BY DEF Sound
<1>4. \A h \in DOMAIN s : \A j \in DOMAIN s[h] :
         Under(Held(s, h, j), p) <=> Under(h, p) \/ (h = g /\ s[h][j].name = a)
  BY <1>1, HeldUnder
<1>5. \A h \in DOMAIN X : h \in DOMAIN s /\ \A j \in DOMAIN X[h] :
         /\ Held(X, h, j) = Held(s, h, j) /\ Held(s, h, j) = LevelAt(s[h][j].kind, Append(h, s[h][j].name))
         /\ X[h][j] = s[h][j]
  BY DEF Held, LevelOf, LevelAt
<1>6. kind \in Containers => LevelAt(kind, p) \in DOMAIN X /\ Shaped(kind, X[LevelAt(kind, p)])
  <2> SUFFICES ASSUME kind \in Containers PROVE LevelAt(kind, p) \in DOMAIN X /\ Shaped(kind, X[LevelAt(kind, p)])
    OBVIOUS
  <2>1. LevelAt(kind, p) = Held(s, g, i)
    BY HeldIs
  <2>2. Held(s, g, i) \in DOMAIN s /\ Shaped(kind, s[Held(s, g, i)])
    BY DEF Sound
  <2>3. Under(Held(s, g, i), p)
    BY <1>4
  <2> QED
    BY <2>1, <2>2, <2>3
<1>7. ASSUME NEW h \in DOMAIN X, NEW j \in DOMAIN X[h], X[h][j].kind \in Containers
      PROVE  Held(X, h, j) \in DOMAIN X /\ Shaped(X[h][j].kind, X[Held(X, h, j)])
  <2>1. h \in DOMAIN s /\ j \in DOMAIN s[h] /\ Held(X, h, j) = Held(s, h, j) /\ X[h][j] = s[h][j] /\ Under(h, p)
    BY <1>5
  <2>2. Held(s, h, j) \in DOMAIN s /\ Shaped(s[h][j].kind, s[Held(s, h, j)])
    BY <1>7, <2>1 DEF Sound
  <2>3. Under(Held(s, h, j), p)
    BY <1>4, <2>1
  <2> QED
    BY <2>1, <2>2, <2>3
<1>8. ASSUME NEW h \in DOMAIN X
      PROVE  \/ kind \in Containers /\ h = LevelAt(kind, p)
             \/ \E h2 \in DOMAIN X : \E j \in DOMAIN X[h2] : HoldsLevel(X, h2, j, h)
  <2>1. h \in DOMAIN s /\ Under(h, p)
    OBVIOUS
  <2>2. h # <<>>
    <3>1. Len(p) = Len(g) + 1 /\ Len(g) \in Nat
      BY <1>1, AppendFacts
    <3>2. h \in Seq(M) /\ Len(h) >= Len(p)
      BY <1>1, <1>3, <2>1, UnderFacts
    <3> QED
      BY <3>1, <3>2
  <2>3. PICK h2 \in DOMAIN s : \E j \in DOMAIN s[h2] : HoldsLevel(s, h2, j, h)
    BY <2>1, <2>2 DEF Sound
  <2>4. PICK j \in DOMAIN s[h2] : HoldsLevel(s, h2, j, h)
    BY <2>3
  <2>5. s[h2][j].kind \in Containers /\ h = Held(s, h2, j)
    BY <2>4 DEF HoldsLevel
  <2>6. Under(h2, p) \/ (h2 = g /\ s[h2][j].name = a)
    BY <1>4, <2>1, <2>5
  <2>7. CASE Under(h2, p)
    <3>1. h2 \in DOMAIN X /\ j \in DOMAIN X[h2]
      BY <2>7
    <3>2. HoldsLevel(X, h2, j, h)
      BY <1>5, <2>5, <3>1 DEF HoldsLevel
    <3> QED
      BY <3>1, <3>2
  <2>8. CASE h2 = g /\ s[h2][j].name = a
    <3>1. Siblings(s[g])
      BY DEF Sound
    <3>2. j = i
      BY <2>8, <3>1 DEF Siblings
    <3>3. h = LevelAt(kind, p) /\ kind \in Containers
      BY <2>5, <2>8, <3>2, HeldIs
    <3> QED
      BY <3>3
  <2> QED
    BY <2>6, <2>7, <2>8
<1> QED
  BY <1>1, <1>2, <1>3, <1>6, <1>7, <1>8 DEF Subtree

(* What is left of s without what is inside of p. *)
Outside(s, p) == {h \in DOMAIN s : ~Under(h, p)}

(* t is s, with the siblings F on the level g: the field a of that level   *)
(* and what it holds gave way to the field b, which holds X.               *)
Regrafted(s, g, a, b, F, X, t) ==
    /\ DOMAIN t = Outside(s, Append(g, a)) \cup DOMAIN X
    /\ t[g] = F
    /\ \A h \in Outside(s, Append(g, a)) : h # g => t[h] = s[h]
    /\ \A h \in DOMAIN X : t[h] = X[h]

(* The siblings F are the siblings E, but for one field: the one named a   *)
(* among E, the one named b among F.                                       *)
OthersStay(E, a, b, F) ==
    /\ \A i \in DOMAIN F : F[i].name # b => \E j \in DOMAIN E : E[j] = F[i] /\ F[i].name # a
    /\ \A j \in DOMAIN E : E[j].name # a => \E i \in DOMAIN F : F[i] = E[j] /\ F[i].name # b

(* F has the shape of what holds the level g. *)
FitsInto(s, g, F) ==
    \A h \in DOMAIN s : \A i \in DOMAIN s[h] :
        s[h][i].kind \in Containers /\ Held(s, h, i) = g => Shaped(s[h][i].kind, F)

(* A field and what it holds can give way to another one and what that    *)
(* one holds.                                                              *)
LEMMA Regraft ==
    ASSUME NEW s, NEW M, Sound(s, M), NEW g \in DOMAIN s, NEW a \in M, NEW b \in M,
           NEW F \in Seq(Fields(M)), Siblings(F), FitsInto(s, g, F),
           OthersStay(s[g], a, b, F),
           \A h \in Outside(s, Append(g, a)) : ~Under(h, Append(g, b)),
           NEW X, \A i \in DOMAIN F : F[i].name = b => Subtree(X, Append(g, b), F[i].kind, M),
           (\A i \in DOMAIN F : F[i].name # b) => DOMAIN X = {},
           NEW t, Regrafted(s, g, a, b, F, X, t)
    PROVE  Sound(t, M)
<1> DEFINE p == Append(g, a)
           q == Append(g, b)
           K == Outside(s, p)
<1>1. g \in Seq(M) /\ "[]" \in M /\ <<>> \in DOMAIN s /\ IsFiniteSet(DOMAIN s)
  BY DEF Sound
<1>2. /\ p \in Seq(M) /\ Len(p) = Len(g) + 1 /\ Len(g) \in Nat
      /\ q \in Seq(M)
  BY <1>1, AppendFacts
<1>3. DOMAIN t = K \cup DOMAIN X /\ t[g] = F /\ (\A h \in K : h # g => t[h] = s[h]) /\ \A h \in DOMAIN X : t[h] = X[h]
  BY DEF Regrafted
<1>4. \A h \in K : h \in DOMAIN s /\ ~Under(h, p) /\ ~Under(h, q) /\ h \in Seq(M)
  BY DEF Outside, Sound
<1>a. \A h \in DOMAIN s : ~Under(h, p) => h \in K
  BY DEF Outside
<1>5. \A h \in DOMAIN s : \A j \in DOMAIN s[h] :
         /\ Under(Held(s, h, j), p) <=> Under(h, p) \/ (h = g /\ s[h][j].name = a)
         /\ Held(s, h, j) \in Seq(M) /\ Len(Held(s, h, j)) > Len(h) /\ Len(h) \in Nat
  <2> SUFFICES ASSUME NEW h \in DOMAIN s, NEW j \in DOMAIN s[h]
               PROVE  /\ Under(Held(s, h, j), p) <=> Under(h, p) \/ (h = g /\ s[h][j].name = a)
                      /\ Held(s, h, j) \in Seq(M) /\ Len(Held(s, h, j)) > Len(h) /\ Len(h) \in Nat
    OBVIOUS
  <2>1. h \in Seq(M)
    BY DEF Sound
  <2> QED
    BY <2>1, HeldUnder
<1>6. <<>> \in K /\ g \in K
  <2> HIDE DEF p, K
  <2>1. \A h \in Seq(M) : Len(h) < Len(p) => ~Under(h, p)
    <3> SUFFICES ASSUME NEW h \in Seq(M), Len(h) < Len(p), Under(h, p) PROVE FALSE
      OBVIOUS
    <3>1. Len(p) <= Len(h) /\ Len(h) \in Nat /\ Len(p) \in Nat
      BY <1>2, UnderFacts
    <3> QED
      BY <3>1
  <2>2. <<>> \in Seq(M) /\ Len(<<>>) = 0
    OBVIOUS
  <2>3. ~Under(<<>>, p)
    <3>1. 0 < Len(p)
      BY <1>2
    <3>2. Len(<<>>) < Len(p)
      BY <2>2, <3>1
    <3> QED
      BY <2>1, <2>2, <3>2, Zenon
  <2>4. ~Under(g, p)
    BY <1>1, <1>2, <2>1
  <2> QED
    BY <1>1, <1>a, <2>3, <2>4
(* X is the subtree of a field of F, or empty. *)
<1>7. ASSUME NEW h \in DOMAIN X
      PROVE  \E i \in DOMAIN F : F[i].name = b /\ Subtree(X, q, F[i].kind, M)
  OBVIOUS
<1>8. \A h \in DOMAIN X : h \in Seq(M) /\ Under(h, q) /\ X[h] \in Seq(Fields(M)) /\ Siblings(X[h]) /\ h \notin K
  <2> SUFFICES ASSUME NEW h \in DOMAIN X
               PROVE  h \in Seq(M) /\ Under(h, q) /\ X[h] \in Seq(Fields(M)) /\ Siblings(X[h]) /\ h \notin K
    OBVIOUS
  <2>1. PICK i \in DOMAIN F : Subtree(X, q, F[i].kind, M)
    BY <1>7
  <2> QED
    BY <1>4, <2>1 DEF Subtree
<1>9. IsFiniteSet(DOMAIN X)
  <2>1. CASE DOMAIN X = {}
    BY <2>1, FS_EmptySet
  <2>2. CASE DOMAIN X # {}
    <3>1. PICK i \in DOMAIN F : Subtree(X, q, F[i].kind, M)
      BY <1>7, <2>2
    <3> QED
      BY <3>1 DEF Subtree
  <2> QED
    BY <2>1, <2>2
<1>10. IsFiniteSet(DOMAIN t)
  <2>1. IsFiniteSet(K)
    <3>1. K \subseteq DOMAIN s
      BY <1>4
    <3> HIDE DEF K
    <3> QED
      BY <1>1, <3>1, FS_Subset
  <2> HIDE DEF K
  <2>2. IsFiniteSet(K \cup DOMAIN X)
    BY <1>9, <2>1, FS_Union
  <2> QED
    BY <1>3, <2>2
<1>11. \A h \in DOMAIN t : h \in Seq(M) /\ t[h] \in Seq(Fields(M)) /\ Siblings(t[h])
  <2> SUFFICES ASSUME NEW h \in DOMAIN t PROVE h \in Seq(M) /\ t[h] \in Seq(Fields(M)) /\ Siblings(t[h])
    OBVIOUS
  <2>1. CASE h \in DOMAIN X
    BY <1>3, <1>8, <2>1
  <2>2. CASE h = g
    BY <1>1, <1>3, <2>2
  <2>3. CASE h \in K /\ h # g
    <3>1. h \in DOMAIN s /\ t[h] = s[h] /\ h \in Seq(M)
      BY <1>3, <1>4, <2>3
    <3> QED
      BY <3>1 DEF Sound
  <2> QED
    BY <1>3, <2>1, <2>2, <2>3
<1> HIDE DEF p, q, K
(* A container of s whose level stays. *)
<1>12. ASSUME NEW h \in K, NEW j \in DOMAIN s[h], s[h][j].kind \in Containers, ~(h = g /\ s[h][j].name = a)
       PROVE  Held(s, h, j) \in K /\ Shaped(s[h][j].kind, t[Held(s, h, j)])
  <2>1. h \in DOMAIN s /\ ~Under(h, p)
    BY <1>4
  <2>2. Held(s, h, j) \in DOMAIN s /\ Shaped(s[h][j].kind, s[Held(s, h, j)])
    BY <1>12, <2>1 DEF Sound
  <2>3. ~Under(Held(s, h, j), p)
    BY <1>5, <1>12, <2>1
  <2>4. Held(s, h, j) \in K
    BY <1>a, <2>2, <2>3
  <2>5. CASE Held(s, h, j) = g
    <3>1. Shaped(s[h][j].kind, F)
      BY <1>12, <2>1, <2>5 DEF FitsInto
    <3> QED
      BY <1>3, <2>4, <2>5, <3>1
  <2>6. CASE Held(s, h, j) # g
    BY <1>3, <2>2, <2>4, <2>6
  <2> QED
    BY <2>4, <2>5, <2>6
<1>13. ASSUME NEW h \in DOMAIN t, NEW i \in DOMAIN t[h], t[h][i].kind \in Containers
       PROVE  Held(t, h, i) \in DOMAIN t /\ Shaped(t[h][i].kind, t[Held(t, h, i)])
  <2>1. CASE h \in DOMAIN X
    <3>1. PICK k \in DOMAIN F : Subtree(X, q, F[k].kind, M)
      BY <1>7, <2>1
    <3>2. t[h] = X[h]
      BY <1>3, <2>1
    <3>3. Held(t, h, i) = Held(X, h, i)
      BY <3>2 DEF Held
    <3>4. Held(X, h, i) \in DOMAIN X /\ Shaped(X[h][i].kind, X[Held(X, h, i)])
      BY <1>13, <2>1, <3>1, <3>2 DEF Subtree
    <3> QED
      BY <1>3, <3>2, <3>3, <3>4
  <2>2. CASE h = g /\ t[h][i].name = b
    <3>1. i \in DOMAIN F /\ t[h][i] = F[i]
      BY <1>3, <2>2
    <3>2. Subtree(X, q, F[i].kind, M)
      BY <2>2, <3>1 DEF q
    <3>3. Held(t, h, i) = LevelAt(F[i].kind, q)
      BY <2>2, <3>1, HeldIs DEF q
    <3>4. LevelAt(F[i].kind, q) \in DOMAIN X /\ Shaped(F[i].kind, X[LevelAt(F[i].kind, q)])
      BY <1>13, <3>1, <3>2 DEF Subtree
    <3> QED
      BY <1>3, <3>1, <3>3, <3>4
  <2>3. CASE h = g /\ t[h][i].name # b
    <3>1. i \in DOMAIN F /\ t[h][i] = F[i]
      BY <1>3, <2>3
    <3>2. PICK j \in DOMAIN s[g] : s[g][j] = F[i] /\ F[i].name # a
      BY <2>3, <3>1 DEF OthersStay
    <3>3. Held(t, h, i) = Held(s, g, j)
      BY <2>3, <3>1, <3>2 DEF Held
    <3>4. Held(s, g, j) \in K /\ Shaped(s[g][j].kind, t[Held(s, g, j)])
      BY <1>6, <1>12, <1>13, <3>1, <3>2
    <3> QED
      BY <1>3, <3>1, <3>2, <3>3, <3>4
  <2>4. CASE h \in K /\ h # g
    <3>1. t[h] = s[h]
      BY <1>3, <2>4
    <3>2. Held(t, h, i) = Held(s, h, i)
      BY <3>1 DEF Held
    <3>3. Held(s, h, i) \in K /\ Shaped(s[h][i].kind, t[Held(s, h, i)])
      BY <1>12, <1>13, <2>4, <3>1
    <3> QED
      BY <1>3, <3>1, <3>2, <3>3
  <2> QED
    BY <1>3, <2>1, <2>2, <2>3, <2>4
<1>14. ASSUME NEW h \in DOMAIN t, h # <<>>
       PROVE  \E h2 \in DOMAIN t : \E i \in DOMAIN t[h2] : HoldsLevel(t, h2, i, h)
  <2>1. CASE h \in DOMAIN X
    <3>1. PICK k \in DOMAIN F : F[k].name = b /\ Subtree(X, q, F[k].kind, M)
      BY <1>7, <2>1
    <3>2. CASE F[k].kind \in Containers /\ h = LevelAt(F[k].kind, q)
      <4>1. k \in DOMAIN t[g] /\ t[g][k] = F[k] /\ g \in DOMAIN t
        BY <1>3, <1>6
      <4>2. Held(t, g, k) = h
        BY <3>1, <3>2, <4>1, HeldIs DEF q
      <4>3. HoldsLevel(t, g, k, h)
        BY <3>2, <4>1, <4>2 DEF HoldsLevel
      <4> QED
        BY <4>1, <4>3
    <3>3. CASE \E h2 \in DOMAIN X : \E i \in DOMAIN X[h2] : HoldsLevel(X, h2, i, h)
      <4>1. PICK h2 \in DOMAIN X : \E i \in DOMAIN X[h2] : HoldsLevel(X, h2, i, h)
        BY <3>3
      <4>2. PICK i \in DOMAIN X[h2] : HoldsLevel(X, h2, i, h)
        BY <4>1
      <4>3. t[h2] = X[h2] /\ h2 \in DOMAIN t
        BY <1>3
      <4>4. HoldsLevel(t, h2, i, h)
        BY <4>2, <4>3 DEF HoldsLevel, Held
      <4> QED
        BY <4>3, <4>4
    <3> QED
      BY <2>1, <3>1, <3>2, <3>3 DEF Subtree
  <2>2. CASE h \in K
    <3>1. h \in DOMAIN s /\ ~Under(h, p)
      BY <1>4, <2>2
    <3>2. PICK h2 \in DOMAIN s : \E j \in DOMAIN s[h2] : HoldsLevel(s, h2, j, h)
      BY <1>14, <3>1 DEF Sound
    <3>3. PICK j \in DOMAIN s[h2] : HoldsLevel(s, h2, j, h)
      BY <3>2
    <3>4. s[h2][j].kind \in Containers /\ h = Held(s, h2, j)
      BY <3>3 DEF HoldsLevel
    <3>5. ~Under(h2, p) /\ ~(h2 = g /\ s[h2][j].name = a)
      BY <1>5, <3>1, <3>4
    <3>6. h2 \in K
      BY <1>a, <3>5
    <3>7. CASE h2 # g
      <4>1. t[h2] = s[h2] /\ h2 \in DOMAIN t
        BY <1>3, <3>6, <3>7
      <4>2. HoldsLevel(t, h2, j, h)
        BY <3>4, <4>1 DEF HoldsLevel, Held
      <4> QED
        BY <4>1, <4>2
    <3>8. CASE h2 = g
      <4>1. PICK i \in DOMAIN F : F[i] = s[g][j]
        BY <3>5, <3>8 DEF OthersStay
      <4>2. i \in DOMAIN t[g] /\ t[g][i] = F[i] /\ g \in DOMAIN t
        BY <1>3, <1>6
      <4>3. HoldsLevel(t, g, i, h)
        BY <3>4, <3>8, <4>1, <4>2 DEF HoldsLevel, Held
      <4> QED
        BY <4>2, <4>3
    <3> QED
      BY <3>7, <3>8
  <2> QED
    BY <1>3, <2>1, <2>2
<1>15. <<>> \in DOMAIN t
  BY <1>3, <1>6
<1> QED
  BY <1>1, <1>10, <1>11, <1>13, <1>14, <1>15 DEF Sound

(* A field of the same name that holds the same level. *)
SamePlace(f, e) == f.name = e.name /\ (f.kind = e.kind \/ (f.kind = "list" /\ e.kind = "large_list"))

(* It is as good a container as the other one. *)
LEMMA SamePlaceHolds ==
    ASSUME NEW s, NEW t, NEW g, NEW i, NEW j, SamePlace(s[g][j], t[g][i])
    PROVE  /\ s[g][j].kind \in Containers <=> t[g][i].kind \in Containers
           /\ Held(t, g, i) = Held(s, g, j)
           /\ \A F : Shaped(s[g][j].kind, F) <=> Shaped(t[g][i].kind, F)
<1>1. CASE s[g][j].kind = t[g][i].kind
  BY <1>1 DEF SamePlace, Held, LevelOf
<1>2. CASE s[g][j].kind = "list" /\ t[g][i].kind = "large_list"
  BY <1>2 DEF SamePlace, Held, LevelOf, Containers, Shaped
<1> QED
  BY <1>1, <1>2 DEF SamePlace

(* The siblings of a level can change places and ids, and lists their      *)
(* width.                                                                  *)
LEMMA Reseat ==
    ASSUME NEW s, NEW M, Sound(s, M), NEW g \in DOMAIN s,
           NEW F \in Seq(Fields(M)), Siblings(F), FitsInto(s, g, F),
           \A i \in DOMAIN F : \E j \in DOMAIN s[g] : SamePlace(s[g][j], F[i]),
           \A j \in DOMAIN s[g] : \E i \in DOMAIN F : SamePlace(s[g][j], F[i]),
           NEW t, DOMAIN t = DOMAIN s, t[g] = F, \A h \in DOMAIN s : h # g => t[h] = s[h]
    PROVE  Sound(t, M)
<1>1. \A h \in DOMAIN t : t[h] \in Seq(Fields(M)) /\ Siblings(t[h])
  <2> SUFFICES ASSUME NEW h \in DOMAIN t PROVE t[h] \in Seq(Fields(M)) /\ Siblings(t[h])
    OBVIOUS
  <2>1. CASE h = g
    BY <2>1
  <2>2. CASE h # g
    BY <2>2 DEF Sound
  <2> QED
    BY <2>1, <2>2
<1>2. \A h \in DOMAIN s : \A j \in DOMAIN s[h] : s[h][j].kind \in Containers =>
         Held(s, h, j) \in DOMAIN t /\ Shaped(s[h][j].kind, t[Held(s, h, j)])
  <2> SUFFICES ASSUME NEW h \in DOMAIN s, NEW j \in DOMAIN s[h], s[h][j].kind \in Containers
               PROVE  Held(s, h, j) \in DOMAIN t /\ Shaped(s[h][j].kind, t[Held(s, h, j)])
    OBVIOUS
  <2>1. Held(s, h, j) \in DOMAIN s /\ Shaped(s[h][j].kind, s[Held(s, h, j)])
    BY DEF Sound
  <2>2. CASE Held(s, h, j) = g
    BY <2>1, <2>2 DEF FitsInto
  <2>3. CASE Held(s, h, j) # g
    BY <2>1, <2>3
  <2> QED
    BY <2>2, <2>3
<1>3. ASSUME NEW h \in DOMAIN t, NEW i \in DOMAIN t[h], t[h][i].kind \in Containers
      PROVE  Held(t, h, i) \in DOMAIN t /\ Shaped(t[h][i].kind, t[Held(t, h, i)])
  <2>1. CASE h = g
    <3>1. PICK j \in DOMAIN s[g] : SamePlace(s[g][j], t[g][i])
      BY <2>1
    <3>2. /\ s[g][j].kind \in Containers
          /\ Held(t, g, i) = Held(s, g, j)
          /\ \A G : Shaped(s[g][j].kind, G) <=> Shaped(t[g][i].kind, G)
      BY <1>3, <2>1, <3>1, SamePlaceHolds
    <3>3. Held(s, g, j) \in DOMAIN t /\ Shaped(s[g][j].kind, t[Held(s, g, j)])
      BY <1>2, <3>2
    <3> QED
      BY <2>1, <3>2, <3>3
  <2>2. CASE h # g
    <3>1. t[h] = s[h] /\ h \in DOMAIN s
      BY <2>2
    <3>2. Held(t, h, i) = Held(s, h, i)
      BY <3>1 DEF Held
    <3> QED
      BY <1>2, <1>3, <3>1, <3>2
  <2> QED
    BY <2>1, <2>2
<1>4. ASSUME NEW h \in DOMAIN t, h # <<>>
      PROVE  \E h2 \in DOMAIN t : \E i \in DOMAIN t[h2] : HoldsLevel(t, h2, i, h)
  <2>1. PICK h2 \in DOMAIN s : \E j \in DOMAIN s[h2] : HoldsLevel(s, h2, j, h)
    BY <1>4 DEF Sound
  <2>2. PICK j \in DOMAIN s[h2] : HoldsLevel(s, h2, j, h)
    BY <2>1
  <2>3. s[h2][j].kind \in Containers /\ h = Held(s, h2, j)
    BY <2>2 DEF HoldsLevel
  <2>4. CASE h2 = g
    <3>1. PICK i \in DOMAIN F : SamePlace(s[g][j], F[i])
      BY <2>4
    <3>2. i \in DOMAIN t[g] /\ SamePlace(s[g][j], t[g][i])
      BY <3>1
    <3>3. t[g][i].kind \in Containers /\ Held(t, g, i) = h
      BY <2>3, <2>4, <3>2, SamePlaceHolds
    <3>4. HoldsLevel(t, g, i, h)
      BY <3>3 DEF HoldsLevel
    <3> QED
      BY <3>2, <3>4
  <2>5. CASE h2 # g
    <3>1. t[h2] = s[h2]
      BY <2>5
    <3>2. HoldsLevel(t, h2, j, h)
      BY <2>3, <3>1 DEF HoldsLevel, Held
    <3> QED
      BY <3>1, <3>2
  <2> QED
    BY <2>4, <2>5
<1>5. /\ IsFiniteSet(DOMAIN t) /\ <<>> \in DOMAIN t /\ DOMAIN t \subseteq Seq(M) /\ "[]" \in M
  BY DEF Sound
<1> QED
  BY <1>1, <1>3, <1>4, <1>5 DEF Sound


(* Where a level inside of p is once p has become q. *)
Carried(h, p, q) == q \o Beyond(h, p)

(* A path carried elsewhere keeps its last segment. *)
LEMMA CarriedFurther ==
    ASSUME NEW M, NEW p \in Seq(M), NEW q \in Seq(M), NEW h \in Seq(M), Under(h, p), NEW n \in M
    PROVE  Under(Append(h, n), p) /\ Carried(Append(h, n), p, q) = Append(Carried(h, p, q), n)
<1> DEFINE r == Beyond(h, p)
<1>1. r \in Seq(M) /\ h = p \o r
  BY UnderMeans
<1> HIDE DEF r
<1>2. q \o r \in Seq(M)
  BY <1>1, ConcatProperties
<1>3. Carried(h, p, q) = q \o r
  BY DEF Carried, r
<1>4. JoinsInAnyOrder(M)
  BY JoinInAnyOrder
<1>5. Append(h, n) = h \o <<n>> /\ Append(q \o r, n) = (q \o r) \o <<n>> /\ <<n>> \in Seq(M)
  BY <1>2, AppendFacts
<1>6. (p \o r) \o <<n>> = p \o (r \o <<n>>) /\ (q \o r) \o <<n>> = q \o (r \o <<n>>)
  BY <1>1, <1>4, <1>5, ZenonT(40) DEF JoinsInAnyOrder
<1>7. r \o <<n>> \in Seq(M)
  BY <1>1, <1>5, ConcatProperties
<1>8. Under(p \o (r \o <<n>>), p) /\ Beyond(p \o (r \o <<n>>), p) = r \o <<n>>
  BY <1>7, BeyondFacts
<1>9. Append(h, n) = p \o (r \o <<n>>)
  BY <1>1, <1>5, <1>6
<1>10. Carried(Append(h, n), p, q) = q \o (r \o <<n>>)
  BY <1>8, <1>9 DEF Carried
<1> QED
  BY <1>3, <1>5, <1>6, <1>8, <1>9, <1>10

(* And its last two. *)
LEMMA CarriedTwice ==
    ASSUME NEW M, NEW p \in Seq(M), NEW q \in Seq(M), NEW h \in Seq(M), Under(h, p), NEW n \in M, NEW c \in M
    PROVE  Carried(Append(Append(h, n), c), p, q) = Append(Append(Carried(h, p, q), n), c)
<1>1. PICK m \in Seq(M) : m = Append(h, n)
  BY AppendFacts
<1>2. Under(m, p) /\ Carried(m, p, q) = Append(Carried(h, p, q), n)
  BY <1>1, CarriedFurther
<1>3. Carried(Append(m, c), p, q) = Append(Carried(m, p, q), c)
  BY <1>2, CarriedFurther, SMTT(40)
<1> QED
  BY <1>1, <1>2, <1>3

(* A path can be carried there and back. *)
LEMMA CarriedFacts ==
    ASSUME NEW M, NEW p \in Seq(M), NEW q \in Seq(M), NEW h \in Seq(M), Under(h, p)
    PROVE  /\ Carried(h, p, q) \in Seq(M) /\ Under(Carried(h, p, q), q)
           /\ Carried(Carried(h, p, q), q, p) = h
           /\ Carried(p, p, q) = q
<1> DEFINE r == Beyond(h, p)
<1>1. r \in Seq(M) /\ h = p \o r
  BY UnderMeans
<1> HIDE DEF r
<1>2. q \o r \in Seq(M) /\ Under(q \o r, q) /\ Beyond(q \o r, q) = r
  BY <1>1, BeyondFacts, ConcatProperties
<1>3. Carried(h, p, q) = q \o r
  BY DEF Carried, r
<1>4. Carried(Carried(h, p, q), q, p) = h
  BY <1>1, <1>2, <1>3 DEF Carried
<1>5. Carried(p, p, q) = q
  <2>1. p = p \o <<>> /\ <<>> \in Seq(M) /\ q \o <<>> = q
    BY ConcatEmptySeq
  <2>2. Beyond(p \o <<>>, p) = <<>>
    BY <2>1, BeyondFacts
  <2>3. Beyond(p, p) = <<>>
    BY <2>1, <2>2
  <2> QED
    BY <2>1, <2>3, Zenon DEF Carried
<1> QED
  BY <1>2, <1>3, <1>4, <1>5

(* The same fields, with their field ids or without. *)
Copied(F, G) ==
    /\ DOMAIN G = DOMAIN F
    /\ \A i \in DOMAIN F : /\ G[i].name = F[i].name /\ G[i].kind = F[i].kind /\ G[i].null = F[i].null
                           /\ G[i].id = F[i].id \/ G[i].id = NoId

(* What is copied is as well-shaped as the original. *)
LEMMA CopiedFacts ==
    ASSUME NEW N, NEW F \in Seq(N), NEW G, NEW O, G \in Seq(O), Copied(F, G), Siblings(F)
    PROVE  /\ Siblings(G)
           /\ \A kind : Shaped(kind, F) => Shaped(kind, G)
<1>1. Siblings(G)
  BY DEF Siblings, Copied
<1>2. Len(F) = Len(G) /\ DOMAIN F = 1..Len(F) /\ Len(F) \in Nat
  BY LenProperties DEF Copied
<1>3. [i \in DOMAIN F |-> F[i].name] = [i \in DOMAIN G |-> G[i].name]
  BY DEF Copied
<1>4. ASSUME NEW kind, Shaped(kind, F) PROVE Shaped(kind, G)
  <2>1. CASE kind \in {"list", "large_list"}
    <3>1. Len(F) = 1 /\ F[1].name = "[]" /\ F[1].id = NoId /\ kind # "map"
      BY <1>4, <2>1 DEF Shaped
    <3>2. 1 \in DOMAIN F
      BY <1>2, <3>1
    <3> QED
      BY <1>2, <3>1, <3>2 DEF Shaped, Copied
  <2>2. CASE kind = "map"
    <3>1. [i \in DOMAIN F |-> F[i].name] = <<"key", "value">> /\ ~F[1].null /\ kind \notin {"list", "large_list"}
      BY <1>4, <2>2 DEF Shaped
    <3>2. 1 \in DOMAIN F
      <4>1. DOMAIN [i \in DOMAIN F |-> F[i].name] = DOMAIN <<"key", "value">>
        BY <3>1
      <4> QED
        BY <4>1
    <3> QED
      BY <1>3, <3>1, <3>2 DEF Shaped, Copied
  <2>3. CASE kind \notin {"list", "large_list", "map"}
    BY <2>3 DEF Shaped
  <2> QED
    BY <2>1, <2>2, <2>3
<1> QED
  BY <1>1, <1>4

(* What is inside of p can stand inside of q. *)
LEMMA SubtreeMoves ==
    ASSUME NEW M, NEW X, NEW p, NEW kind, Subtree(X, p, kind, M), NEW q \in Seq(M),
           NEW Y, DOMAIN Y = {Carried(h, p, q) : h \in DOMAIN X},
           \A h \in DOMAIN X : Y[Carried(h, p, q)] \in Seq(Fields(M)) /\ Copied(X[h], Y[Carried(h, p, q)])
    PROVE  Subtree(Y, q, kind, M)
<1>1. p \in Seq(M) /\ "[]" \in M /\ IsFiniteSet(DOMAIN X)
  BY DEF Subtree
<1>2. \A h \in DOMAIN X : h \in Seq(M) /\ Under(h, p) /\ X[h] \in Seq(Fields(M)) /\ Siblings(X[h])
  BY DEF Subtree
<1>3. \A h \in DOMAIN X :
         LET l == Carried(h, p, q) IN
         /\ l \in DOMAIN Y /\ l \in Seq(M) /\ Under(l, q)
         /\ Y[l] \in Seq(Fields(M)) /\ Siblings(Y[l]) /\ DOMAIN Y[l] = DOMAIN X[h]
         /\ \A k : Shaped(k, X[h]) => Shaped(k, Y[l])
         /\ \A i \in DOMAIN X[h] : Y[l][i].kind = X[h][i].kind /\ Y[l][i].name = X[h][i].name /\ X[h][i].name \in M
  <2> SUFFICES ASSUME NEW h \in DOMAIN X, NEW l, l = Carried(h, p, q)
               PROVE  /\ l \in DOMAIN Y /\ l \in Seq(M) /\ Under(l, q)
                      /\ Y[l] \in Seq(Fields(M)) /\ Siblings(Y[l]) /\ DOMAIN Y[l] = DOMAIN X[h]
                      /\ \A k : Shaped(k, X[h]) => Shaped(k, Y[l])
                      /\ \A i \in DOMAIN X[h] : Y[l][i].kind = X[h][i].kind /\ Y[l][i].name = X[h][i].name /\ X[h][i].name \in M
    OBVIOUS
  <2>1. l \in DOMAIN Y /\ Y[l] \in Seq(Fields(M)) /\ Copied(X[h], Y[l])
    OBVIOUS
  <2>2. l \in Seq(M) /\ Under(l, q)
    BY <1>1, <1>2, CarriedFacts
  <2>3. Siblings(Y[l]) /\ \A k : Shaped(k, X[h]) => Shaped(k, Y[l])
    BY <1>2, <2>1, CopiedFacts
  <2>4. \A i \in DOMAIN X[h] : X[h][i].name \in M
    <3>1. \A i \in DOMAIN X[h] : X[h][i] \in Fields(M)
      BY <1>2
    <3> QED
      BY <3>1 DEF Fields
  <2> QED
    BY <2>1, <2>2, <2>3, <2>4 DEF Copied
<1>4. IsFiniteSet(DOMAIN Y)
  <2> DEFINE f == [l \in DOMAIN Y |-> Carried(l, q, p)]
  <2>1. \A l \in DOMAIN Y : f[l] \in DOMAIN X /\ l = Carried(f[l], p, q)
    <3> SUFFICES ASSUME NEW l \in DOMAIN Y PROVE Carried(l, q, p) \in DOMAIN X /\ l = Carried(Carried(l, q, p), p, q)
      OBVIOUS
    <3>1. PICK h \in DOMAIN X : l = Carried(h, p, q)
      OBVIOUS
    <3>2. Carried(l, q, p) = h
      BY <1>1, <1>2, <3>1, CarriedFacts
    <3> QED
      BY <3>1, <3>2
  <2>2. f \in [DOMAIN Y -> DOMAIN X]
    BY <2>1
  <2> HIDE DEF f
  <2>3. \A x, y \in DOMAIN Y : f[x] = f[y] => x = y
    BY <2>1
  <2> QED
    BY <1>1, <2>2, <2>3, FiniteByPlaces
(* Held levels are carried with the fields that hold them. *)
<1>5. \A k : /\ LevelAt(k, q) = Carried(LevelAt(k, p), p, q)
  <2>1. Under(p, p) /\ Carried(p, p, q) = q
    BY <1>1, UnderFacts, CarriedFacts
  <2>2. Carried(Append(p, "[]"), p, q) = Append(q, "[]")
    BY <1>1, <2>1, CarriedFurther
  <2> QED
    BY <2>1, <2>2 DEF LevelAt
<1>6. ASSUME NEW h \in DOMAIN X, NEW i \in DOMAIN X[h]
      PROVE  Held(Y, Carried(h, p, q), i) = Carried(Held(X, h, i), p, q)
  <2> DEFINE n == X[h][i].name
             l == Carried(h, p, q)
  <2>1. Y[l][i].kind = X[h][i].kind /\ Y[l][i].name = n /\ n \in M
    BY <1>3
  <2>2. h \in Seq(M) /\ Under(h, p)
    BY <1>2
  <2> HIDE DEF n
  <2>3. Under(Append(h, n), p) /\ Carried(Append(h, n), p, q) = Append(l, n) /\ Append(h, n) \in Seq(M)
    BY <1>1, <2>1, <2>2, CarriedFurther, AppendFacts
  <2>4. Carried(Append(Append(h, n), "[]"), p, q) = Append(Append(l, n), "[]")
    <3>1. \A c \in M : Carried(Append(Append(h, n), c), p, q) = Append(Append(l, n), c)
      <4> TAKE c \in M
      <4> QED
        BY <1>1, <2>1, <2>2, CarriedTwice
    <3> QED
      BY <1>1, <3>1
  <2>5. Held(Y, l, i) = LevelAt(X[h][i].kind, Append(l, n)) /\ Held(X, h, i) = LevelAt(X[h][i].kind, Append(h, n))
    BY <2>1, HeldIs DEF n
  <2> HIDE DEF l
  <2> QED
    BY <2>3, <2>4, <2>5 DEF LevelAt, l
<1>7. kind \in Containers => LevelAt(kind, q) \in DOMAIN Y /\ Shaped(kind, Y[LevelAt(kind, q)])
  <2> SUFFICES ASSUME kind \in Containers PROVE LevelAt(kind, q) \in DOMAIN Y /\ Shaped(kind, Y[LevelAt(kind, q)])
    OBVIOUS
  <2>1. LevelAt(kind, p) \in DOMAIN X /\ Shaped(kind, X[LevelAt(kind, p)])
    BY DEF Subtree
  <2> QED
    BY <1>3, <1>5, <2>1
<1>8. ASSUME NEW l \in DOMAIN Y, NEW i \in DOMAIN Y[l], Y[l][i].kind \in Containers
      PROVE  Held(Y, l, i) \in DOMAIN Y /\ Shaped(Y[l][i].kind, Y[Held(Y, l, i)])
  <2>1. PICK h \in DOMAIN X : l = Carried(h, p, q)
    OBVIOUS
  <2>2. i \in DOMAIN X[h] /\ Y[l][i].kind = X[h][i].kind
    BY <1>3, <2>1
  <2>3. Held(X, h, i) \in DOMAIN X /\ Shaped(X[h][i].kind, X[Held(X, h, i)])
    BY <1>8, <2>2 DEF Subtree
  <2>4. Held(Y, l, i) = Carried(Held(X, h, i), p, q)
    BY <1>6, <2>1, <2>2
  <2> QED
    BY <1>3, <2>2, <2>3, <2>4
<1>9. ASSUME NEW l \in DOMAIN Y
      PROVE  \/ kind \in Containers /\ l = LevelAt(kind, q)
             \/ \E l2 \in DOMAIN Y : \E i \in DOMAIN Y[l2] : HoldsLevel(Y, l2, i, l)
  <2>1. PICK h \in DOMAIN X : l = Carried(h, p, q)
    OBVIOUS
  <2>2. CASE kind \in Containers /\ h = LevelAt(kind, p)
    BY <1>5, <2>1, <2>2
  <2>3. CASE \E h2 \in DOMAIN X : \E i \in DOMAIN X[h2] : HoldsLevel(X, h2, i, h)
    <3>1. PICK h2 \in DOMAIN X : \E i \in DOMAIN X[h2] : HoldsLevel(X, h2, i, h)
      BY <2>3
    <3>2. PICK i \in DOMAIN X[h2] : HoldsLevel(X, h2, i, h)
      BY <3>1
    <3> DEFINE l2 == Carried(h2, p, q)
    <3>3. l2 \in DOMAIN Y /\ i \in DOMAIN Y[l2] /\ Y[l2][i].kind = X[h2][i].kind
      BY <1>3
    <3>4. Held(Y, l2, i) = l
      BY <1>6, <2>1, <3>2 DEF HoldsLevel
    <3>5. HoldsLevel(Y, l2, i, l)
      BY <3>2, <3>3, <3>4 DEF HoldsLevel
    <3> HIDE DEF l2
    <3> QED
      BY <3>3, <3>5
  <2> QED
    BY <2>2, <2>3 DEF Subtree
<1>10. \A l \in DOMAIN Y : l \in Seq(M) /\ Under(l, q) /\ Y[l] \in Seq(Fields(M)) /\ Siblings(Y[l])
  BY <1>3
<1> QED
  BY <1>1, <1>4, <1>7, <1>8, <1>9, <1>10 DEF Subtree


-----------------------------------------------------------------------------
(****************************************************************************)
(* Siblings after an edit                                                  *)
(****************************************************************************)
(* F is s with e at place k. *)
Inserted(s, k, e, F) ==
    /\ DOMAIN F = 1..(Len(s) + 1) /\ F[k] = e
    /\ \A i \in 1..(k - 1) : F[i] = s[i]
    /\ \A i \in (k + 1)..(Len(s) + 1) : F[i] = s[i - 1]

(* That is what InsertAt makes. *)
LEMMA InsertAtFacts ==
    ASSUME NEW S, NEW s \in Seq(S), NEW k \in 1..(Len(s) + 1), NEW e \in S
    PROVE  InsertAt(s, k, e) \in Seq(S) /\ Inserted(s, k, e, InsertAt(s, k, e))
<1> DEFINE p == SubSeq(s, 1, k - 1)
           q == SubSeq(s, k, Len(s))
           pe == p \o <<e>>
<1>1. Len(s) \in Nat /\ k \in 1..(Len(s) + 1) /\ \A i \in 1..Len(s) : s[i] \in S
  BY LenProperties, ElementOfSeq
<1>2. /\ p \in Seq(S) /\ Len(p) = k - 1 /\ \A i \in 1..(k - 1) : p[i] = s[i]
  BY <1>1
<1>3. /\ q \in Seq(S) /\ Len(q) = Len(s) - k + 1 /\ \A i \in 1..(Len(s) - k + 1) : q[i] = s[i + k - 1]
  BY <1>1
<1>4. <<e>> \in Seq(S) /\ Len(<<e>>) = 1 /\ <<e>>[1] = e
  OBVIOUS
<1>5. /\ pe \in Seq(S) /\ Len(pe) = k
      /\ \A i \in 1..k : pe[i] = IF i <= k - 1 THEN p[i] ELSE <<e>>[i - (k - 1)]
  <2> HIDE DEF p
  <2>1. Len(pe) = Len(p) + Len(<<e>>) /\ pe \in Seq(S)
        /\ \A i \in 1..(Len(p) + Len(<<e>>)) : pe[i] = IF i <= Len(p) THEN p[i] ELSE <<e>>[i - Len(p)]
    BY <1>2, <1>4, ConcatProperties
  <2> QED
    BY <1>1, <1>2, <1>4, <2>1
<1>6. \A i \in 1..k : pe[i] = IF i < k THEN s[i] ELSE e
  <2> HIDE DEF p, pe
  <2> SUFFICES ASSUME NEW i \in 1..k PROVE pe[i] = IF i < k THEN s[i] ELSE e
    OBVIOUS
  <2>1. CASE i < k
    BY <1>1, <1>2, <1>5, <2>1
  <2>2. CASE i = k
    <3>1. i - (k - 1) = 1 /\ ~(i <= k - 1)
      BY <1>1, <2>2
    <3> QED
      BY <1>4, <1>5, <2>2, <3>1
  <2> QED
    BY <2>1, <2>2, <1>1
<1> HIDE DEF pe
<1>7. /\ pe \o q \in Seq(S) /\ Len(pe \o q) = Len(s) + 1
      /\ \A i \in 1..(Len(s) + 1) : (pe \o q)[i] = IF i <= k THEN pe[i] ELSE q[i - k]
  <2> HIDE DEF q
  <2>1. Len(pe \o q) = Len(pe) + Len(q) /\ pe \o q \in Seq(S)
        /\ \A i \in 1..(Len(pe) + Len(q)) : (pe \o q)[i] = IF i <= Len(pe) THEN pe[i] ELSE q[i - Len(pe)]
    BY <1>3, <1>5, ConcatProperties
  <2>2. Len(pe) = k /\ k + Len(q) = Len(s) + 1
    BY <1>1, <1>3, <1>5
  <2> QED
    BY <2>1, <2>2
<1>8. InsertAt(s, k, e) = pe \o q
  BY DEF InsertAt, pe
<1>9. /\ \A i \in 1..(k - 1) : (pe \o q)[i] = s[i]
      /\ (pe \o q)[k] = e
      /\ \A i \in (k + 1)..(Len(s) + 1) : (pe \o q)[i] = s[i - 1]
  <2> HIDE DEF q
  <2>1. ASSUME NEW i \in 1..(k - 1) PROVE (pe \o q)[i] = s[i]
    BY <1>1, <1>6, <1>7
  <2>2. (pe \o q)[k] = e
    BY <1>1, <1>6, <1>7
  <2>3. ASSUME NEW i \in (k + 1)..(Len(s) + 1) PROVE (pe \o q)[i] = s[i - 1]
    <3>1. i - k \in 1..(Len(s) - k + 1) /\ i - k + k - 1 = i - 1 /\ ~(i <= k) /\ i \in 1..(Len(s) + 1)
      BY <1>1
    <3> QED
      BY <1>3, <1>7, <3>1
  <2> QED
    BY <2>1, <2>2, <2>3
<1>10. DOMAIN (pe \o q) = 1..(Len(s) + 1)
  <2> HIDE DEF q
  <2> QED
    BY <1>7, LenProperties
<1> HIDE DEF q
<1> QED
  BY <1>7, <1>8, <1>9, <1>10 DEF Inserted

(* A field with a name and an id of its own joins its siblings. *)
LEMMA JoinsSiblings ==
    ASSUME NEW S, NEW s \in Seq(S), NEW k \in 1..(Len(s) + 1), NEW e \in S, Siblings(s),
           \A i \in DOMAIN s : s[i].name # e.name,
           e.id = NoId \/ \A i \in DOMAIN s : s[i].id # e.id
    PROVE  /\ Siblings(InsertAt(s, k, e))
           /\ OthersStay(s, e.name, e.name, InsertAt(s, k, e))
           /\ \A i \in DOMAIN InsertAt(s, k, e) : InsertAt(s, k, e)[i].name = e.name => InsertAt(s, k, e)[i] = e
           /\ \E i \in DOMAIN InsertAt(s, k, e) : InsertAt(s, k, e)[i] = e
<1> DEFINE F == InsertAt(s, k, e)
<1>1. Len(s) \in Nat /\ DOMAIN s = 1..Len(s)
  BY LenProperties
<1>2. Inserted(s, k, e, F)
  BY InsertAtFacts
<1> HIDE DEF F
<1>3. ASSUME NEW i \in DOMAIN F, i # k
      PROVE  \E j \in DOMAIN s : F[i] = s[j] /\ j = IF i < k THEN i ELSE i - 1
  BY <1>1, <1>2, <1>3 DEF Inserted
<1>4. k \in DOMAIN F /\ F[k] = e
  BY <1>1, <1>2 DEF Inserted
<1>5. Siblings(F)
  <2> SUFFICES ASSUME NEW i \in DOMAIN F, NEW j \in DOMAIN F, i # j
               PROVE  F[i].name # F[j].name /\ (F[i].id = F[j].id => F[i].id = NoId)
    BY DEF Siblings
  <2>1. CASE i = k
    <3>1. PICK y \in DOMAIN s : F[j] = s[y]
      BY <1>3, <2>1
    <3> QED
      BY <1>4, <2>1, <3>1
  <2>2. CASE j = k
    <3>1. PICK x \in DOMAIN s : F[i] = s[x]
      BY <1>3, <2>2
    <3> QED
      BY <1>4, <2>2, <3>1
  <2>3. CASE i # k /\ j # k
    <3>1. PICK x \in DOMAIN s : F[i] = s[x] /\ x = IF i < k THEN i ELSE i - 1
      BY <1>3, <2>3
    <3>2. PICK y \in DOMAIN s : F[j] = s[y] /\ y = IF j < k THEN j ELSE j - 1
      BY <1>3, <2>3
    <3>3. x # y
      BY <1>1, <1>2, <2>3, <3>1, <3>2 DEF Inserted
    <3> QED
      BY <3>1, <3>2, <3>3 DEF Siblings
  <2> QED
    BY <2>1, <2>2, <2>3
<1>6. \A j \in DOMAIN s : \E i \in DOMAIN F : F[i] = s[j]
  <2> SUFFICES ASSUME NEW j \in DOMAIN s PROVE \E i \in DOMAIN F : F[i] = s[j]
    OBVIOUS
  <2>1. CASE j < k
    BY <1>1, <1>2, <2>1 DEF Inserted
  <2>2. CASE ~(j < k)
    <3>1. j + 1 \in DOMAIN F /\ F[j + 1] = s[j]
      BY <1>1, <1>2, <2>2 DEF Inserted
    <3> QED
      BY <3>1
  <2> QED
    BY <2>1, <2>2
<1>7. OthersStay(s, e.name, e.name, F)
  <2>1. \A i \in DOMAIN F : F[i].name # e.name => \E j \in DOMAIN s : s[j] = F[i]
    BY <1>3, <1>4
  <2> QED
    BY <1>6, <2>1 DEF OthersStay
<1> QED
  BY <1>3, <1>4, <1>5, <1>7 DEF F

(* And one leaves them. *)
LEMMA LeavesSiblings ==
    ASSUME NEW S, NEW s \in Seq(S), NEW k \in DOMAIN s, Siblings(s)
    PROVE  /\ RemoveAt(s, k) \in Seq(S) /\ Siblings(RemoveAt(s, k))
           /\ OthersStay(s, s[k].name, s[k].name, RemoveAt(s, k))
           /\ \A i \in DOMAIN RemoveAt(s, k) : RemoveAt(s, k)[i].name # s[k].name
<1> DEFINE F == RemoveAt(s, k)
<1>1. Len(s) \in Nat /\ DOMAIN s = 1..Len(s)
  BY LenProperties
<1>2. F \in Seq(S) /\ DOMAIN F = 1..(Len(s) - 1)
      /\ \A i \in 1..(Len(s) - 1) : F[i] = IF i < k THEN s[i] ELSE s[i + 1]
  BY RemoveAtFacts
<1> HIDE DEF F
<1>3. ASSUME NEW i \in DOMAIN F
      PROVE  \E j \in DOMAIN s : F[i] = s[j] /\ j = (IF i < k THEN i ELSE i + 1) /\ j # k
  BY <1>1, <1>2
<1>4. Siblings(F)
  <2> SUFFICES ASSUME NEW i \in DOMAIN F, NEW j \in DOMAIN F, i # j
               PROVE  F[i].name # F[j].name /\ (F[i].id = F[j].id => F[i].id = NoId)
    BY DEF Siblings
  <2>1. PICK x \in DOMAIN s : F[i] = s[x] /\ x = IF i < k THEN i ELSE i + 1
    BY <1>3
  <2>2. PICK y \in DOMAIN s : F[j] = s[y] /\ y = IF j < k THEN j ELSE j + 1
    BY <1>3
  <2>3. x # y
    BY <1>1, <1>2, <2>1, <2>2
  <2> QED
    BY <2>1, <2>2, <2>3 DEF Siblings
<1>5. \A i \in DOMAIN F : \E j \in DOMAIN s : s[j] = F[i] /\ F[i].name # s[k].name
  <2> SUFFICES ASSUME NEW i \in DOMAIN F PROVE \E j \in DOMAIN s : s[j] = F[i] /\ F[i].name # s[k].name
    OBVIOUS
  <2>1. PICK j \in DOMAIN s : F[i] = s[j] /\ j # k
    BY <1>3
  <2>2. s[j].name # s[k].name
    BY <2>1 DEF Siblings
  <2> QED
    BY <2>1, <2>2
<1>6. \A j \in DOMAIN s : s[j].name # s[k].name => \E i \in DOMAIN F : F[i] = s[j]
  <2> SUFFICES ASSUME NEW j \in DOMAIN s, s[j].name # s[k].name PROVE \E i \in DOMAIN F : F[i] = s[j]
    OBVIOUS
  <2>1. CASE j < k
    BY <1>1, <1>2, <2>1
  <2>2. CASE j > k
    <3>1. j - 1 \in DOMAIN F /\ F[j - 1] = s[j]
      BY <1>1, <1>2, <2>2
    <3> QED
      BY <3>1
  <2> QED
    BY <1>1, <2>1, <2>2
<1>7. OthersStay(s, s[k].name, s[k].name, F) /\ \A i \in DOMAIN F : F[i].name # s[k].name
  BY <1>5, <1>6 DEF OthersStay
<1> QED
  BY <1>2, <1>4, <1>7 DEF F


(* What holds a level among whose fields an author adds, removes, renames  *)
(* and moves is a struct, which any siblings fit into.                     *)
LEMMA StructLevelFits ==
    ASSUME NEW s, WellFormed(s), NEW g \in StructLevels(s)
    PROVE  g \in DOMAIN s /\ \A F : FitsInto(s, g, F)
<1> DEFINE M == Segments(s)
<1>1. Sound(s, M)
  BY WellFormedIsSound
<1> HIDE DEF M
<1>2. CASE g = <<>>
  <2>1. <<>> \in DOMAIN s
    BY <1>1 DEF Sound
  <2>2. ASSUME NEW h \in DOMAIN s, NEW i \in DOMAIN s[h] PROVE Held(s, h, i) # <<>>
    <3>1. h \in Seq(M) /\ s[h][i].name \in M /\ "[]" \in M
      BY <1>1, SoundFields DEF Sound
    <3>2. Len(Held(s, h, i)) > Len(h) /\ Len(h) \in Nat
      BY <3>1, HeldFacts
    <3>3. Len(<<>>) = 0
      OBVIOUS
    <3> QED
      BY <3>2, <3>3
  <2> QED
    BY <1>2, <2>1, <2>2 DEF FitsInto
<1>3. CASE g # <<>>
  <2>1. g \in Paths(s) /\ FieldAt(s, g).kind = "struct"
    BY <1>3 DEF StructLevels
  <2>2. Inside(s, g) = g /\ Container(s, g)
    BY <2>1 DEF Inside, LevelOf, Container, Containers
  <2>3. g \in DOMAIN s
    BY <2>1, <2>2, SchemaFacts
  <2>4. ASSUME NEW h \in DOMAIN s, NEW i \in DOMAIN s[h], Held(s, h, i) = g
        PROVE  s[h][i].kind = "struct"
    <3> DEFINE p == Append(h, s[h][i].name)
    <3>1. p \in Paths(s) /\ FieldAt(s, p) = s[h][i]
      BY FieldFacts
    <3>2. Inside(s, p) = g
      BY <2>4, <3>1 DEF Held, Inside
    <3> HIDE DEF p
    <3>3. p = g
      BY <2>1, <2>2, <3>1, <3>2, InsideUnique
    <3> QED
      BY <2>1, <3>1, <3>3
  <2>5. \A F : Shaped("struct", F)
    BY DEF Shaped
  <2> QED
    BY <2>3, <2>4, <2>5 DEF FitsInto
<1> QED
  BY <1>2, <1>3

(* A name no field of a level has leads to no level. *)
LEMMA NothingThere ==
    ASSUME NEW s, NEW M, Sound(s, M), NEW g \in DOMAIN s, NEW a \in M,
           \A i \in DOMAIN s[g] : s[g][i].name # a
    PROVE  \A h \in DOMAIN s : ~Under(h, Append(g, a))
<1> DEFINE p == Append(g, a)
           there == {h \in DOMAIN s : Under(h, p)}
           lengths == {Len(h) : h \in there}
<1> SUFFICES ASSUME there # {} PROVE FALSE
  OBVIOUS
<1>1. \A h \in DOMAIN s : h \in Seq(M) /\ Len(h) \in Nat
  BY DEF Sound
<1>2. lengths \subseteq Nat /\ lengths # {}
  BY <1>1
<1> HIDE DEF p
<1>3. PICK n \in lengths : \A m \in lengths : n <= m
  <2> HIDE DEF lengths
  <2> QED
    BY <1>2, Least
<1>4. PICK h \in there : n = Len(h)
  OBVIOUS
<1>5. h # <<>>
  <2>1. p \in Seq(M) /\ Len(p) = Len(g) + 1 /\ Len(g) \in Nat
    BY <1>1, AppendFacts DEF p
  <2>2. Len(p) <= Len(h) /\ Len(h) \in Nat
    BY <1>1, <1>4, <2>1, UnderFacts
  <2>3. Len(<<>>) = 0
    OBVIOUS
  <2> QED
    BY <2>1, <2>2, <2>3
<1>6. PICK h2 \in DOMAIN s : \E i \in DOMAIN s[h2] : HoldsLevel(s, h2, i, h)
  BY <1>4, <1>5 DEF Sound
<1>7. PICK i \in DOMAIN s[h2] : HoldsLevel(s, h2, i, h)
  BY <1>6
<1>8. h = Held(s, h2, i) /\ Under(h, p)
  BY <1>4, <1>7 DEF HoldsLevel
<1>9. /\ Under(h, p) <=> Under(h2, p) \/ (h2 = g /\ s[h2][i].name = a)
      /\ Len(h) > Len(h2)
  BY <1>8, HeldUnder DEF p
<1>10. h2 \in there
  BY <1>8, <1>9
<1>11. Len(h) <= Len(h2)
  BY <1>3, <1>4, <1>10
<1> QED
  BY <1>1, <1>4, <1>9, <1>11

(* Members as Grown gives them to a new level. *)
Stripped(F) == [i \in DOMAIN F |-> Field(F[i].name, F[i].kind, F[i].null, NoId)]

(* The levels a type brings to q. *)
Planted(q, type) == [h \in {q \o r : r \in DOMAIN type.inner} |-> Stripped(type.inner[Beyond(h, q)])]

(* The levels of a type can be inside of a field of that type anywhere. *)
LEMMA TypeFacts ==
    ASSUME NEW type, IsType(type), NEW M, Segments(ColumnOf(type)) \subseteq M
    PROVE  /\ DOMAIN type.inner \subseteq Seq(M)
           /\ type.kind \in Scalars \cup Containers
           /\ \A q \in Seq(M) : Subtree(Planted(q, type), q, type.kind, M)
<1> DEFINE s == ColumnOf(type)
           p == <<"x">>
<1>1. WellFormed(s) /\ TypeOf(s, p) = type
  BY DEF IsType
<1>2. Sound(s, M)
  BY <1>1, WellFormedIsSound, SoundGrows
<1>3. type.inner = Inner(s, p) /\ type.kind = FieldAt(s, p).kind
  <2> HIDE DEF s
  <2>1. TypeOf(s, p).inner = Inner(s, p) /\ TypeOf(s, p).kind = FieldAt(s, p).kind
    BY DEF TypeOf
  <2> QED
    BY <1>1, <2>1
<1>4. DOMAIN s = {<<>>} \cup {p \o r : r \in DOMAIN type.inner}
  BY DEF ColumnOf, Grown
<1>5. ASSUME <<>> \notin {p \o r : r \in DOMAIN type.inner}
      PROVE  s[<<>>] = <<Field("x", type.kind, TRUE, NoId)>>
  BY <1>5 DEF ColumnOf, Grown
<1> HIDE DEF s
<1>6. DOMAIN type.inner = {Beyond(h, p) : h \in {l \in DOMAIN s : Under(l, p)}}
  BY <1>3 DEF Inner
<1>7. <<>> \notin {p \o r : r \in DOMAIN type.inner}
  <2> DEFINE N == M \cup {"x"}
  <2>1. Sound(s, N)
    BY <1>2, SoundGrows
  <2>2. p \in Seq(N) /\ Len(p) = 1
    OBVIOUS
  <2> HIDE DEF N, p
  <2> SUFFICES ASSUME NEW h \in DOMAIN s, Under(h, p) PROVE p \o Beyond(h, p) # <<>>
    BY <1>6
  <2>3. h \in Seq(N)
    BY <2>1 DEF Sound
  <2>4. p \o Beyond(h, p) = h /\ Len(p) <= Len(h)
    BY <2>2, <2>3, UnderMeans, UnderFacts
  <2>5. h # <<>>
    <3>1. Len(<<>>) = 0
      OBVIOUS
    <3> QED
      BY <2>2, <2>4, <3>1
  <2> QED
    BY <2>4, <2>5
<1>8. s[<<>>] = <<Field("x", type.kind, TRUE, NoId)>>
  BY <1>5, <1>7
<1>9. /\ 1 \in DOMAIN s[<<>>] /\ s[<<>>][1].name = "x" /\ s[<<>>][1].kind = type.kind
      /\ <<>> \in DOMAIN s
  BY <1>4, <1>8 DEF Field
<1>10. /\ s[<<>>][1] \in Fields(M) /\ "x" \in M /\ Append(<<>>, "x") = p
  BY <1>2, <1>9, SoundFields
<1>11. type.kind \in Scalars \cup Containers /\ p \in Seq(M)
  BY <1>9, <1>10 DEF Fields
<1> DEFINE X == [h \in {l \in DOMAIN s : Under(l, p)} |-> s[h]]
<1>12. Subtree(X, p, type.kind, M)
  <2> HIDE DEF p
  <2>1. p = Append(<<>>, s[<<>>][1].name)
    BY <1>9, <1>10
  <2>2. DOMAIN X = {h \in DOMAIN s : Under(h, p)} /\ \A h \in DOMAIN X : X[h] = s[h]
    OBVIOUS
  <2> HIDE DEF X
  <2> QED
    BY <1>2, <1>9, <2>1, <2>2, SubtreeOfField
<1> HIDE DEF p
(* Each level of the type is one of the column. *)
<1>13. ASSUME NEW h \in DOMAIN X
       PROVE  /\ h \in Seq(M) /\ Beyond(h, p) \in Seq(M) /\ h = p \o Beyond(h, p)
              /\ type.inner[Beyond(h, p)] = [i \in DOMAIN s[h] |-> Member(s[h][i])]
  <2>1. h \in DOMAIN s /\ Under(h, p) /\ h \in Seq(M)
    BY <1>2 DEF Sound
  <2>2. Beyond(h, p) \in Seq(M) /\ h = p \o Beyond(h, p)
    BY <1>11, <2>1, UnderMeans
  <2>3. type.inner[Beyond(h, p)] = [i \in DOMAIN s[p \o Beyond(h, p)] |-> Member(s[p \o Beyond(h, p)][i])]
    BY <1>3, <2>1 DEF Inner
  <2> QED
    BY <2>1, <2>2, <2>3
<1>14. DOMAIN X = {l \in DOMAIN s : Under(l, p)} /\ \A h \in DOMAIN X : X[h] = s[h]
  OBVIOUS
<1> HIDE DEF X
<1>15. \A r \in DOMAIN type.inner : r \in Seq(M)
  BY <1>6, <1>13, <1>14
<1>16. ASSUME NEW q \in Seq(M)
       PROVE  Subtree(Planted(q, type), q, type.kind, M)
  <2> DEFINE Y == Planted(q, type)
  <2>1. DOMAIN Y = {Carried(h, p, q) : h \in DOMAIN X}
    BY <1>6, <1>14 DEF Planted, Carried
  <2>2. ASSUME NEW h \in DOMAIN X
        PROVE  Y[Carried(h, p, q)] \in Seq(Fields(M)) /\ Copied(X[h], Y[Carried(h, p, q)])
    <3>1. Beyond(Carried(h, p, q), q) = Beyond(h, p)
      BY <1>13, BeyondFacts DEF Carried
    <3>2. Carried(h, p, q) \in DOMAIN Y
      BY <2>1
    <3>3. Y[Carried(h, p, q)] = Stripped(type.inner[Beyond(h, p)])
      BY <3>1, <3>2 DEF Planted
    <3> DEFINE F == X[h]
               G == Y[Carried(h, p, q)]
    <3>4. F \in Seq(Fields(M))
      BY <1>12 DEF Subtree
    <3>5. F = s[h] /\ type.inner[Beyond(h, p)] = [i \in DOMAIN F |-> Member(F[i])]
      BY <1>13, <1>14
    <3>6. G = [i \in DOMAIN F |-> Field(F[i].name, F[i].kind, F[i].null, NoId)]
      BY <3>3, <3>5 DEF Stripped, Member
    <3> HIDE DEF F, G
    <3>7. Copied(F, G)
      BY <3>6 DEF Copied, Field
    <3>8. \A i \in DOMAIN F : G[i] \in Fields(M)
      <4> SUFFICES ASSUME NEW i \in DOMAIN F PROVE G[i] \in Fields(M)
        OBVIOUS
      <4>1. F[i] \in Fields(M)
        BY <3>4
      <4> QED
        BY <3>6, <4>1 DEF Fields, Field
    <3>9. DOMAIN F = 1..Len(F) /\ Len(F) \in Nat
      BY <3>4
    <3>10. G \in Seq(Fields(M))
      <4>1. G = [i \in 1..Len(F) |-> Field(F[i].name, F[i].kind, F[i].null, NoId)]
        BY <3>6, <3>9
      <4>2. \A i \in 1..Len(F) : Field(F[i].name, F[i].kind, F[i].null, NoId) \in Fields(M)
        BY <3>6, <3>8, <3>9
      <4> QED
        BY <3>9, <4>1, <4>2
    <3> QED
      BY <3>7, <3>10 DEF F, G
  <2> HIDE DEF Y
  <2>3. Subtree(Y, q, type.kind, M)
    BY <1>12, <2>1, <2>2, SubtreeMoves
  <2> QED
    BY <2>3 DEF Y
<1> QED
  BY <1>11, <1>15, <1>16


-----------------------------------------------------------------------------
(****************************************************************************)
(* Edits keep schemas well-formed                                          *)
(****************************************************************************)
(* t is s with the levels X at q. *)
Extended(s, q, X, t) ==
    /\ DOMAIN t = DOMAIN s \cup DOMAIN X
    /\ \A h \in DOMAIN X : Under(h, q) /\ t[h] = X[h]
    /\ \A h \in DOMAIN s : ~Under(h, q) => t[h] = s[h]

(* What Grown makes of a schema. *)
LEMMA GrownMeans ==
    ASSUME NEW s, NEW type, NEW M, NEW q \in Seq(M), DOMAIN type.inner \subseteq Seq(M)
    PROVE  Extended(s, q, Planted(q, type), Grown(s, q, type))
<1> DEFINE at == {q \o r : r \in DOMAIN type.inner}
<1>1. DOMAIN Planted(q, type) = at /\ \A h \in at : Planted(q, type)[h] = Stripped(type.inner[Beyond(h, q)])
  BY DEF Planted
<1>2. \A h \in at : Under(h, q)
  <2> SUFFICES ASSUME NEW r \in DOMAIN type.inner PROVE Under(q \o r, q)
    OBVIOUS
  <2> QED
    BY BeyondFacts
<1>3. DOMAIN Grown(s, q, type) = DOMAIN s \cup at
  BY DEF Grown
<1>4. \A h \in at : Grown(s, q, type)[h] = Stripped(type.inner[Beyond(h, q)])
  BY DEF Grown, Stripped
<1>5. \A h \in DOMAIN s \ at : Grown(s, q, type)[h] = s[h]
  BY DEF Grown
<1> HIDE DEF at
<1>6. \A h \in DOMAIN s : ~Under(h, q) => Grown(s, q, type)[h] = s[h]
  BY <1>2, <1>5
<1> QED
  BY <1>1, <1>2, <1>3, <1>4, <1>6 DEF Extended

(* The new column or member, wherever it is put. *)
LEMMA AddFieldFits ==
    ASSUME NEW s, WellFormed(s), NEW g \in StructLevels(s), NEW i \in 1..(Len(s[g]) + 1),
           NEW name, \A j \in DOMAIN s[g] : s[g][j].name # name,
           NEW type, IsType(type), NEW null \in BOOLEAN,
           NEW id \in Nat \cup {NoId}, id = NoId \/ \A j \in DOMAIN s[g] : s[g][j].id # id
    PROVE  LET F == InsertAt(s[g], i, Field(name, type.kind, null, id))
               t == Grown(WithLevel(s, g, F), Append(g, name), type)
           IN  WellFormed(t) /\ Regrafted(s, g, name, name, F, Planted(Append(g, name), type), t)
<1> DEFINE M == Segments(s) \cup {name} \cup Segments(ColumnOf(type))
           e == Field(name, type.kind, null, id)
           F == InsertAt(s[g], i, e)
           u == WithLevel(s, g, F)
           q == Append(g, name)
           X == Planted(q, type)
           t == Grown(u, q, type)
<1>1. Sound(s, M) /\ Segments(ColumnOf(type)) \subseteq M /\ name \in M
  BY WellFormedIsSound, SoundGrows
<1> HIDE DEF M
<1>2. g \in DOMAIN s /\ g \in Seq(M) /\ \A G : FitsInto(s, g, G)
  BY <1>1, StructLevelFits DEF Sound
<1>3. DOMAIN type.inner \subseteq Seq(M) /\ type.kind \in Scalars \cup Containers
      /\ \A p \in Seq(M) : Subtree(Planted(p, type), p, type.kind, M)
  BY <1>1, TypeFacts
<1>4. e \in Fields(M) /\ e.name = name /\ e.id = id /\ e.kind = type.kind
  BY <1>1, <1>3 DEF Fields, Field
<1>5. s[g] \in Seq(Fields(M)) /\ Siblings(s[g])
  BY <1>1, <1>2 DEF Sound
<1> HIDE DEF e
<1>6. F \in Seq(Fields(M))
  BY <1>4, <1>5, InsertAtFacts
<1>7. /\ Siblings(F) /\ OthersStay(s[g], name, name, F)
      /\ \A j \in DOMAIN F : F[j].name = name => F[j] = e
      /\ \E j \in DOMAIN F : F[j] = e
  BY <1>4, <1>5, JoinsSiblings
<1> HIDE DEF F
<1>9. q \in Seq(M) /\ \A h \in DOMAIN s : ~Under(h, q)
  BY <1>1, <1>2, AppendFacts, NothingThere
<1>10. ~Under(g, q)
  BY <1>2, <1>9
<1>11. DOMAIN u = DOMAIN s /\ u[g] = F /\ \A h \in DOMAIN s : h # g => u[h] = s[h]
  BY <1>2 DEF WithLevel
<1> HIDE DEF u
<1>12. Extended(u, q, X, t)
  BY <1>3, <1>9, GrownMeans
<1>13. Outside(s, q) = DOMAIN s
  BY <1>9 DEF Outside
<1> HIDE DEF X, t
<1>14. Regrafted(s, g, name, name, F, X, t)
  <2>1. t[g] = F
    BY <1>2, <1>10, <1>11, <1>12 DEF Extended
  <2>2. \A h \in Outside(s, q) : h # g => t[h] = s[h]
    BY <1>9, <1>11, <1>12, <1>13 DEF Extended
  <2> QED
    BY <1>11, <1>12, <1>13, <2>1, <2>2 DEF Regrafted, Extended
<1>15. \A j \in DOMAIN F : F[j].name = name => Subtree(X, q, F[j].kind, M)
  BY <1>3, <1>4, <1>7, <1>9 DEF X
<1>16. \A h \in Outside(s, q) : ~Under(h, q)
  BY DEF Outside
<1>17. ~(\A j \in DOMAIN F : F[j].name # name)
  BY <1>4, <1>7
<1>18. Sound(t, M)
  BY <1>1, <1>2, <1>6, <1>7, <1>14, <1>15, <1>16, <1>17, Regraft
<1>19. WellFormed(t)
  BY <1>18, SoundIsWellFormed
<1> QED
  BY <1>14, <1>19 DEF t, u, F, e, X

NoLevels == [h \in {} |-> <<>>]

(* A removed struct goes with its members. *)
LEMMA RemoveFieldFits ==
    ASSUME NEW s, WellFormed(s), NEW g \in StructLevels(s), NEW i \in DOMAIN s[g]
    PROVE  LET a == s[g][i].name
               F == RemoveAt(s[g], i)
               t == Pruned(WithLevel(s, g, F), Append(g, a))
           IN  WellFormed(t) /\ Regrafted(s, g, a, a, F, NoLevels, t)
<1> DEFINE M == Segments(s)
           a == s[g][i].name
           F == RemoveAt(s[g], i)
           p == Append(g, a)
           u == WithLevel(s, g, F)
           t == Pruned(u, p)
           X == NoLevels
<1>1. Sound(s, M)
  BY WellFormedIsSound
<1> HIDE DEF M
<1>2. g \in DOMAIN s /\ g \in Seq(M) /\ FitsInto(s, g, F)
  BY <1>1, StructLevelFits DEF Sound
<1>3. s[g] \in Seq(Fields(M)) /\ Siblings(s[g]) /\ a \in M
  BY <1>1, <1>2, SoundFields DEF Sound
<1>4. F \in Seq(Fields(M)) /\ Siblings(F) /\ OthersStay(s[g], a, a, F) /\ \A j \in DOMAIN F : F[j].name # a
  BY <1>3, LeavesSiblings
<1> HIDE DEF F
<1>6. p \in Seq(M) /\ Len(p) = Len(g) + 1 /\ Len(g) \in Nat
  BY <1>2, <1>3, AppendFacts
<1>7. ~Under(g, p)
  <2> HIDE DEF p
  <2> SUFFICES ASSUME Under(g, p) PROVE FALSE
    OBVIOUS
  <2>1. Len(p) <= Len(g)
    BY <1>2, <1>6, UnderFacts
  <2> QED
    BY <1>6, <2>1
<1>8. DOMAIN u = DOMAIN s /\ u[g] = F /\ \A h \in DOMAIN s : h # g => u[h] = s[h]
  BY <1>2 DEF WithLevel
<1> HIDE DEF u
<1>9. DOMAIN t = Outside(s, p) /\ \A h \in Outside(s, p) : t[h] = u[h]
  BY <1>8 DEF Pruned, Outside
<1> HIDE DEF t
<1>10. Regrafted(s, g, a, a, F, X, t)
  <2>1. g \in Outside(s, p)
    BY <1>2, <1>7 DEF Outside
  <2>2. \A h \in Outside(s, p) : h \in DOMAIN s
    BY DEF Outside
  <2> QED
    BY <1>8, <1>9, <2>1, <2>2 DEF Regrafted, NoLevels
<1>11. \A h \in Outside(s, p) : ~Under(h, p)
  BY DEF Outside
<1>12. DOMAIN X = {} /\ \A j \in DOMAIN F : F[j].name # a
  BY <1>4 DEF NoLevels
<1> HIDE DEF X
<1>13. Sound(t, M)
  BY <1>1, <1>2, <1>3, <1>4, <1>10, <1>11, <1>12, Regraft
<1>14. WellFormed(t)
  BY <1>13, SoundIsWellFormed
<1> QED
  BY <1>10, <1>14 DEF t, u, F, X


(* One of the siblings changed. *)
LEMMA OneChanged ==
    ASSUME NEW S, NEW E \in Seq(S), NEW i \in DOMAIN E, NEW f \in S, NEW F, F = [E EXCEPT ![i] = f]
    PROVE  /\ F \in Seq(S) /\ DOMAIN F = DOMAIN E /\ F[i] = f
           /\ \A j \in DOMAIN E : j # i => F[j] = E[j]
<1>1. DOMAIN F = DOMAIN E /\ F[i] = f /\ \A j \in DOMAIN E : j # i => F[j] = E[j]
  OBVIOUS
<1>2. DOMAIN E = 1..Len(E) /\ Len(E) \in Nat /\ \A j \in DOMAIN E : E[j] \in S
  BY LenProperties, ElementOfSeq
<1>3. F \in Seq(S)
  <2>1. F \in [1..Len(E) -> S]
    BY <1>2
  <2> QED
    BY <1>2, <2>1
<1> QED
  BY <1>1, <1>3

(* A field renamed to an unused name. *)
LEMMA RenamedSiblings ==
    ASSUME NEW S, NEW E \in Seq(S), NEW i \in DOMAIN E, NEW f \in S, NEW F, F = [E EXCEPT ![i] = f],
           Siblings(E), f.id = E[i].id, \A j \in DOMAIN E : E[j].name # f.name
    PROVE  Siblings(F) /\ OthersStay(E, E[i].name, f.name, F)
<1>1. DOMAIN F = DOMAIN E /\ F[i] = f /\ \A j \in DOMAIN E : j # i => F[j] = E[j]
  BY OneChanged
<1>2. Siblings(F)
  BY <1>1 DEF Siblings
<1>3. \A j \in DOMAIN E : j # i => E[j].name # E[i].name
  BY DEF Siblings
<1> QED
  BY <1>1, <1>2, <1>3 DEF OthersStay

(* An id for field i that no other sibling has. *)
FreeId(E, i, id) == id = E[i].id \/ id = NoId \/ \A j \in DOMAIN E : E[j].id # id

(* A field changed under its name. *)
LEMMA RevisedSiblings ==
    ASSUME NEW S, NEW E \in Seq(S), NEW i \in DOMAIN E, NEW f \in S, NEW F, F = [E EXCEPT ![i] = f],
           Siblings(E), f.name = E[i].name,
           FreeId(E, i, f.id)
    PROVE  Siblings(F) /\ OthersStay(E, f.name, f.name, F)
<1>1. DOMAIN F = DOMAIN E /\ F[i] = f /\ \A j \in DOMAIN E : j # i => F[j] = E[j]
  BY OneChanged
<1>2. Siblings(F)
  BY <1>1 DEF Siblings, FreeId
<1>3. \A j \in DOMAIN E : j # i => E[j].name # E[i].name
  BY DEF Siblings
<1> QED
  BY <1>1, <1>2, <1>3 DEF OthersStay

(* Siblings that keep their names and ids, and a map's key that stays      *)
(* non-null, still fit into what holds them.                               *)
LEMMA FitsAgain ==
    ASSUME NEW s, NEW M, Sound(s, M), NEW g \in DOMAIN s,
           NEW S, NEW F \in Seq(S), DOMAIN F = DOMAIN s[g],
           \A j \in DOMAIN F : F[j].name = s[g][j].name /\ F[j].id = s[g][j].id,
           \A h \in DOMAIN s : \A k \in DOMAIN s[h] : s[h][k].kind = "map" /\ Held(s, h, k) = g => F[1].null = s[g][1].null
    PROVE  FitsInto(s, g, F)
<1> SUFFICES ASSUME NEW h \in DOMAIN s, NEW k \in DOMAIN s[h], s[h][k].kind \in Containers, Held(s, h, k) = g
             PROVE  Shaped(s[h][k].kind, F)
  BY DEF FitsInto
<1>1. Shaped(s[h][k].kind, s[g]) /\ s[g] \in Seq(Fields(M))
  BY DEF Sound
<1>2. Len(F) = Len(s[g]) /\ Len(F) \in Nat /\ DOMAIN F = 1..Len(F)
  BY <1>1, LenProperties
<1>3. [j \in DOMAIN F |-> F[j].name] = [j \in DOMAIN s[g] |-> s[g][j].name]
  OBVIOUS
<1>4. CASE s[h][k].kind \in {"list", "large_list"}
  <2>1. Len(s[g]) = 1 /\ s[g][1].name = "[]" /\ s[g][1].id = NoId /\ s[h][k].kind # "map"
    BY <1>1, <1>4 DEF Shaped
  <2>2. 1 \in DOMAIN F
    BY <1>2, <2>1
  <2> QED
    BY <1>2, <2>1, <2>2 DEF Shaped
<1>5. CASE s[h][k].kind = "map"
  <2>1. [j \in DOMAIN s[g] |-> s[g][j].name] = <<"key", "value">> /\ ~s[g][1].null
    BY <1>1, <1>5 DEF Shaped
  <2>2. F[1].null = s[g][1].null
    BY <1>5
  <2> QED
    BY <1>3, <1>5, <2>1, <2>2 DEF Shaped
<1>6. CASE s[h][k].kind = "struct"
  BY <1>6 DEF Shaped
<1> QED
  BY <1>4, <1>5, <1>6 DEF Containers

(* The levels of p, at q. *)
CarriedLevels(s, p, q) ==
    [h \in {Carried(l, p, q) : l \in {l \in DOMAIN s : Under(l, p)}} |-> s[Carried(h, q, p)]]

(* A renamed struct takes its members along. *)
LEMMA RenameFieldFits ==
    ASSUME NEW s, WellFormed(s), NEW g \in StructLevels(s), NEW i \in DOMAIN s[g],
           NEW name, \A j \in DOMAIN s[g] : s[g][j].name # name
    PROVE  LET p == Append(g, s[g][i].name)
               q == Append(g, name)
               f == [s[g][i] EXCEPT !.name = name]
               t == WithField(Moved(s, p, q), g, i, f)
           IN  /\ WellFormed(t)
               /\ Regrafted(s, g, s[g][i].name, name, [s[g] EXCEPT ![i] = f], CarriedLevels(s, p, q), t)
<1> DEFINE M == Segments(s) \cup {name}
           a == s[g][i].name
           f == [s[g][i] EXCEPT !.name = name]
           F == [s[g] EXCEPT ![i] = f]
           p == Append(g, a)
           q == Append(g, name)
           u == Moved(s, p, q)
           t == WithField(u, g, i, f)
           X == CarriedLevels(s, p, q)
<1>1. Sound(s, M) /\ name \in M
  BY WellFormedIsSound, SoundGrows
<1> HIDE DEF M
<1>2. g \in DOMAIN s /\ g \in Seq(M) /\ FitsInto(s, g, F)
  BY <1>1, StructLevelFits DEF Sound
<1>3. s[g] \in Seq(Fields(M)) /\ Siblings(s[g]) /\ a \in M /\ s[g][i] \in Fields(M)
  BY <1>1, <1>2, SoundFields DEF Sound
<1>4. f \in Fields(M) /\ f.name = name /\ f.id = s[g][i].id /\ f.kind = s[g][i].kind
  BY <1>1, <1>3 DEF Fields
<1> HIDE DEF f
<1>5. F \in Seq(Fields(M)) /\ Siblings(F) /\ OthersStay(s[g], a, name, F)
      /\ DOMAIN F = DOMAIN s[g] /\ F[i] = f
  <2> HIDE DEF F
  <2>1. F = [s[g] EXCEPT ![i] = f]
    BY DEF F
  <2>2. \A j \in DOMAIN s[g] : s[g][j].name # f.name
    BY <1>4
  <2>3. F \in Seq(Fields(M)) /\ DOMAIN F = DOMAIN s[g] /\ F[i] = f
    BY <1>3, <1>4, <2>1, OneChanged
  <2>4. Siblings(F) /\ OthersStay(s[g], s[g][i].name, f.name, F)
    BY <1>3, <1>4, <2>1, <2>2, RenamedSiblings
  <2> QED
    BY <1>4, <2>3, <2>4
<1>6. p \in Seq(M) /\ q \in Seq(M) /\ Len(p) = Len(g) + 1 /\ Len(g) \in Nat
  BY <1>1, <1>2, <1>3, AppendFacts
<1>7. \A h \in DOMAIN s : ~Under(h, q)
  BY <1>1, <1>2, NothingThere
<1>8. ~Under(g, p)
  <2> HIDE DEF p
  <2> SUFFICES ASSUME Under(g, p) PROVE FALSE
    OBVIOUS
  <2>1. Len(p) <= Len(g)
    BY <1>2, <1>6, UnderFacts
  <2> QED
    BY <1>6, <2>1
<1>9. p = Append(g, s[g][i].name)
  OBVIOUS
<1> HIDE DEF p, q
<1> DEFINE X0 == [h \in {l \in DOMAIN s : Under(l, p)} |-> s[h]]
<1>10. Subtree(X0, p, s[g][i].kind, M)
  <2>1. DOMAIN X0 = {h \in DOMAIN s : Under(h, p)} /\ \A h \in DOMAIN X0 : X0[h] = s[h]
    OBVIOUS
  <2> HIDE DEF X0
  <2> QED
    BY <1>1, <1>2, <1>9, <2>1, SubtreeOfField
<1>11. ASSUME NEW l \in DOMAIN s, Under(l, p)
       PROVE  Carried(Carried(l, p, q), q, p) = l /\ Under(Carried(l, p, q), q)
  <2>1. l \in Seq(M)
    BY <1>1 DEF Sound
  <2> QED
    BY <1>6, <1>11, <2>1, CarriedFacts
<1>12. DOMAIN X = {Carried(l, p, q) : l \in {l \in DOMAIN s : Under(l, p)}}
       /\ \A l \in DOMAIN s : Under(l, p) => X[Carried(l, p, q)] = s[l]
  BY <1>11 DEF CarriedLevels
<1>13. \A h \in DOMAIN X : Under(h, q) /\ X[h] = s[Carried(h, q, p)]
  BY <1>11 DEF CarriedLevels
<1> HIDE DEF X
<1>14. Subtree(X, q, f.kind, M)
  <2>1. DOMAIN X = {Carried(h, p, q) : h \in DOMAIN X0}
    BY <1>12
  <2>2. ASSUME NEW h \in DOMAIN X0
        PROVE  X[Carried(h, p, q)] \in Seq(Fields(M)) /\ Copied(X0[h], X[Carried(h, p, q)])
    <3>1. X[Carried(h, p, q)] = s[h] /\ X0[h] = s[h] /\ h \in DOMAIN s
      BY <1>12
    <3>2. s[h] \in Seq(Fields(M)) /\ Copied(s[h], s[h])
      BY <1>1, <3>1 DEF Sound, Copied
    <3> QED
      BY <3>1, <3>2
  <2> HIDE DEF X0
  <2> QED
    BY <1>4, <1>6, <1>10, <2>1, <2>2, SubtreeMoves
<1> HIDE DEF X0
<1>15. /\ DOMAIN u = Outside(s, p) \cup DOMAIN X
       /\ \A h \in Outside(s, p) : u[h] = s[h]
       /\ \A h \in DOMAIN X : u[h] = X[h]
  <2>1. DOMAIN u = Outside(s, p) \cup DOMAIN X
    BY <1>12 DEF Moved, Outside, Carried
  <2>2. \A h \in DOMAIN u : u[h] = s[IF Under(h, q) THEN Carried(h, q, p) ELSE h]
    BY DEF Moved, Carried
  <2> HIDE DEF u
  <2>3. \A h \in Outside(s, p) : ~Under(h, q)
    BY <1>7 DEF Outside
  <2> QED
    BY <1>13, <2>1, <2>2, <2>3
<1>16. g \in Outside(s, p) /\ u[g] = s[g] /\ g \in DOMAIN u /\ g \notin DOMAIN X
  BY <1>2, <1>7, <1>8, <1>13, <1>15 DEF Outside
<1> HIDE DEF u
<1>17. DOMAIN t = DOMAIN u /\ t[g] = F /\ \A h \in DOMAIN u : h # g => t[h] = u[h]
  BY <1>16 DEF WithField, WithLevel
<1> HIDE DEF t, F
<1>18. Regrafted(s, g, a, name, F, X, t)
  <2>1. DOMAIN t = Outside(s, p) \cup DOMAIN X /\ t[g] = F
        /\ (\A h \in Outside(s, p) : h # g => t[h] = s[h]) /\ \A h \in DOMAIN X : t[h] = X[h]
    BY <1>15, <1>16, <1>17
  <2> QED
    BY <2>1 DEF Regrafted, p
<1>19. \A j \in DOMAIN F : F[j].name = name => Subtree(X, Append(g, name), F[j].kind, M)
  <2> SUFFICES ASSUME NEW j \in DOMAIN F, F[j].name = name PROVE Subtree(X, q, F[j].kind, M)
    BY DEF q
  <2>1. j = i
    BY <1>4, <1>5 DEF Siblings
  <2> QED
    BY <1>5, <1>14, <2>1
<1>20. \A h \in Outside(s, Append(g, a)) : ~Under(h, Append(g, name))
  BY <1>7 DEF Outside, q
<1>21. ~(\A j \in DOMAIN F : F[j].name # name)
  BY <1>4, <1>5
<1>22. Sound(t, M)
  BY <1>1, <1>2, <1>3, <1>5, <1>18, <1>19, <1>20, <1>21, Regraft
<1>23. WellFormed(t)
  BY <1>22, SoundIsWellFormed
<1> QED
  BY <1>18, <1>23 DEF t, u, f, p, q, F, X


(* A map has a key. *)
LEMMA MapHasKey ==
    ASSUME NEW s, NEW M, Sound(s, M), NEW h \in DOMAIN s, NEW k \in DOMAIN s[h], s[h][k].kind = "map"
    PROVE  1 \in DOMAIN s[Held(s, h, k)]
<1> DEFINE F == s[Held(s, h, k)]
<1>1. s[h][k].kind \in Containers
  BY DEF Containers
<1>2. Shaped("map", F)
  BY <1>1 DEF Sound
<1> HIDE DEF F
<1>3. DOMAIN [j \in DOMAIN F |-> F[j].name] = DOMAIN <<"key", "value">>
  BY <1>2 DEF Shaped
<1> QED
  BY <1>3 DEF F

(* A field of another type holds the members of that type. *)
LEMMA RetypeFieldFits ==
    ASSUME NEW s, WellFormed(s), NEW g \in DOMAIN s, NEW i \in DOMAIN s[g], NEW type, IsType(type)
    PROVE  LET a == s[g][i].name
               p == Append(g, a)
               f == [s[g][i] EXCEPT !.kind = type.kind]
               t == Grown(Pruned(WithField(s, g, i, f), p), p, type)
           IN  WellFormed(t) /\ Regrafted(s, g, a, a, [s[g] EXCEPT ![i] = f], Planted(p, type), t)
<1> DEFINE M == Segments(s) \cup Segments(ColumnOf(type))
           a == s[g][i].name
           f == [s[g][i] EXCEPT !.kind = type.kind]
           F == [s[g] EXCEPT ![i] = f]
           p == Append(g, a)
           u == Pruned(WithField(s, g, i, f), p)
           t == Grown(u, p, type)
           X == Planted(p, type)
<1>1. Sound(s, M) /\ Segments(ColumnOf(type)) \subseteq M
  BY WellFormedIsSound, SoundGrows
<1> HIDE DEF M
<1>2. s[g] \in Seq(Fields(M)) /\ Siblings(s[g]) /\ a \in M /\ s[g][i] \in Fields(M) /\ g \in Seq(M)
  BY <1>1, SoundFields DEF Sound
<1>3. DOMAIN type.inner \subseteq Seq(M) /\ type.kind \in Scalars \cup Containers
      /\ \A q \in Seq(M) : Subtree(Planted(q, type), q, type.kind, M)
  BY <1>1, TypeFacts
<1>4. f \in Fields(M) /\ f.name = a /\ f.id = s[g][i].id /\ f.null = s[g][i].null /\ f.kind = type.kind
  BY <1>2, <1>3 DEF Fields
<1> HIDE DEF f
<1>5. /\ F \in Seq(Fields(M)) /\ Siblings(F) /\ OthersStay(s[g], a, a, F)
      /\ DOMAIN F = DOMAIN s[g] /\ F[i] = f /\ \A j \in DOMAIN s[g] : j # i => F[j] = s[g][j]
  <2> HIDE DEF F
  <2>1. F = [s[g] EXCEPT ![i] = f]
    BY DEF F
  <2>2. F \in Seq(Fields(M)) /\ DOMAIN F = DOMAIN s[g] /\ F[i] = f /\ \A j \in DOMAIN s[g] : j # i => F[j] = s[g][j]
    BY <1>2, <1>4, <2>1, OneChanged
  <2>a. f.name = s[g][i].name /\ FreeId(s[g], i, f.id)
    BY <1>4 DEF FreeId
  <2>3. Siblings(F) /\ OthersStay(s[g], f.name, f.name, F)
    BY <1>2, <1>4, <2>1, <2>a, RevisedSiblings
  <2> QED
    BY <1>4, <2>2, <2>3
<1> HIDE DEF F
<1>6. FitsInto(s, g, F)
  <2>1. \A j \in DOMAIN F : F[j].name = s[g][j].name /\ F[j].id = s[g][j].id /\ F[j].null = s[g][j].null
    BY <1>4, <1>5
  <2>2. ASSUME NEW h \in DOMAIN s, NEW k \in DOMAIN s[h], s[h][k].kind = "map" /\ Held(s, h, k) = g
        PROVE  F[1].null = s[g][1].null
    <3>1. 1 \in DOMAIN s[g]
      BY <1>1, <2>2, MapHasKey
    <3> QED
      BY <1>5, <2>1, <3>1
  <2> QED
    BY <1>1, <1>5, <2>1, <2>2, FitsAgain
<1>7. p \in Seq(M) /\ Len(p) = Len(g) + 1 /\ Len(g) \in Nat
  BY <1>2, AppendFacts
<1>8. ~Under(g, p)
  <2> HIDE DEF p
  <2> SUFFICES ASSUME Under(g, p) PROVE FALSE
    OBVIOUS
  <2>1. Len(p) <= Len(g)
    BY <1>2, <1>7, UnderFacts
  <2> QED
    BY <1>7, <2>1
<1> HIDE DEF p
<1>9. g \in Outside(s, p) /\ \A h \in Outside(s, p) : h \in DOMAIN s /\ ~Under(h, p)
  BY <1>8 DEF Outside
<1>10. DOMAIN u = Outside(s, p) /\ u[g] = F /\ \A h \in Outside(s, p) : h # g => u[h] = s[h]
  BY <1>9 DEF Pruned, WithField, WithLevel, Outside, F
<1> HIDE DEF u
<1>11. Extended(u, p, X, t)
  BY <1>3, <1>7, GrownMeans
<1> HIDE DEF X, t
<1>12. Regrafted(s, g, a, a, F, X, t)
  <2>1. DOMAIN t = Outside(s, p) \cup DOMAIN X /\ t[g] = F
        /\ (\A h \in Outside(s, p) : h # g => t[h] = s[h]) /\ \A h \in DOMAIN X : t[h] = X[h]
    BY <1>9, <1>10, <1>11 DEF Extended
  <2> QED
    BY <2>1 DEF Regrafted, p
<1>13. \A j \in DOMAIN F : F[j].name = a => Subtree(X, Append(g, a), F[j].kind, M)
  <2> SUFFICES ASSUME NEW j \in DOMAIN F, F[j].name = a PROVE Subtree(X, p, F[j].kind, M)
    BY DEF p
  <2>1. j = i
    BY <1>4, <1>5 DEF Siblings
  <2> QED
    BY <1>3, <1>4, <1>5, <1>7, <2>1 DEF X
<1>14. \A h \in Outside(s, Append(g, a)) : ~Under(h, Append(g, a))
  BY DEF Outside
<1>15. ~(\A j \in DOMAIN F : F[j].name # a)
  BY <1>4, <1>5
<1>16. Sound(t, M)
  BY <1>1, <1>2, <1>5, <1>6, <1>12, <1>13, <1>14, <1>15, Regraft
<1>17. WellFormed(t)
  BY <1>16, SoundIsWellFormed
<1> QED
  BY <1>12, <1>17 DEF t, u, f, p, F, X

(* A field changed in place: its id, its nullability, or the width of a    *)
(* list's offsets.                                                         *)
LEMMA RevisionFits ==
    ASSUME NEW s, WellFormed(s), NEW g \in DOMAIN s, NEW i \in DOMAIN s[g],
           NEW f \in Fields(Segments(s)), SamePlace(s[g][i], f),
           FreeId(s[g], i, f.id),
           FitsInto(s, g, [s[g] EXCEPT ![i] = f])
    PROVE  WellFormed(WithField(s, g, i, f))
<1> DEFINE M == Segments(s)
           F == [s[g] EXCEPT ![i] = f]
           t == WithField(s, g, i, f)
<1>1. Sound(s, M)
  BY WellFormedIsSound
<1> HIDE DEF M
<1>2. s[g] \in Seq(Fields(M)) /\ Siblings(s[g]) /\ f \in Fields(M)
  BY <1>1 DEF Sound, M
<1>3. f.name = s[g][i].name
  BY DEF SamePlace
<1>4. F \in Seq(Fields(M)) /\ DOMAIN F = DOMAIN s[g] /\ F[i] = f /\ \A j \in DOMAIN s[g] : j # i => F[j] = s[g][j]
  <2> HIDE DEF F
  <2>1. F = [s[g] EXCEPT ![i] = f]
    BY DEF F
  <2> QED
    BY <1>2, <2>1, OneChanged
<1>5. Siblings(F)
  <2> HIDE DEF F
  <2>1. F = [s[g] EXCEPT ![i] = f]
    BY DEF F
  <2> QED
    BY <1>2, <1>3, <2>1, RevisedSiblings
<1>6. FitsInto(s, g, F)
  OBVIOUS
<1>7. DOMAIN t = DOMAIN s /\ t[g] = F /\ \A h \in DOMAIN s : h # g => t[h] = s[h]
  BY DEF WithField, WithLevel
<1> HIDE DEF F, t
<1>8. \A e : SamePlace(e, e)
  BY DEF SamePlace
<1>9. \A j \in DOMAIN s[g] : j \in DOMAIN F /\ SamePlace(s[g][j], F[j])
  BY <1>4, <1>8
<1>10. Sound(t, M)
  <2>1. \A j \in DOMAIN F : \E k \in DOMAIN s[g] : SamePlace(s[g][k], F[j])
    BY <1>4, <1>9
  <2>2. \A k \in DOMAIN s[g] : \E j \in DOMAIN F : SamePlace(s[g][k], F[j])
    BY <1>9
  <2> QED
    <3>1. F \in Seq(Fields(M))
      BY <1>4
    <3> QED
      BY <1>1, <1>5, <1>6, <1>7, <2>1, <2>2, <3>1, Reseat
<1> QED
  BY <1>10, SoundIsWellFormed DEF t

(* Two fields that change places. *)
LEMMA MoveFieldFits ==
    ASSUME NEW s, WellFormed(s), NEW g \in StructLevels(s), NEW i \in DOMAIN s[g], NEW j \in DOMAIN s[g], i # j
    PROVE  WellFormed(WithLevel(s, g, Swapped(s[g], i, j)))
<1> DEFINE M == Segments(s)
           F == Swapped(s[g], i, j)
           t == WithLevel(s, g, F)
<1>1. Sound(s, M)
  BY WellFormedIsSound
<1> HIDE DEF M
<1>2. g \in DOMAIN s /\ FitsInto(s, g, F)
  BY StructLevelFits
<1>3. s[g] \in Seq(Fields(M)) /\ Siblings(s[g])
  BY <1>1, <1>2 DEF Sound
<1>4. DOMAIN F = DOMAIN s[g] /\ \A k \in DOMAIN F : F[k] = IF k = i THEN s[g][j] ELSE IF k = j THEN s[g][i] ELSE s[g][k]
  BY DEF Swapped
<1>5. DOMAIN t = DOMAIN s /\ t[g] = F /\ \A h \in DOMAIN s : h # g => t[h] = s[h]
  BY <1>2 DEF WithLevel
<1> HIDE DEF F, t
<1>6. F[i] = s[g][j] /\ F[j] = s[g][i] /\ \A k \in DOMAIN s[g] : k # i /\ k # j => F[k] = s[g][k]
  BY <1>4
<1>7. F \in Seq(Fields(M))
  <2>1. DOMAIN F = 1..Len(s[g]) /\ Len(s[g]) \in Nat /\ \A k \in DOMAIN s[g] : s[g][k] \in Fields(M)
    BY <1>3, <1>4, LenProperties, ElementOfSeq
  <2>2. \A k \in DOMAIN F : F[k] \in Fields(M)
    BY <1>4, <1>6, <2>1
  <2>3. F \in [1..Len(s[g]) -> Fields(M)]
    <3>1. F = [k \in DOMAIN F |-> F[k]]
      BY DEF F, Swapped
    <3> QED
      BY <2>1, <2>2, <3>1
  <2> QED
    BY <2>1, <2>3
<1>8. Siblings(F)
  <2> SUFFICES ASSUME NEW k \in DOMAIN F, NEW l \in DOMAIN F, k # l
               PROVE  F[k].name # F[l].name /\ (F[k].id = F[l].id => F[k].id = NoId)
    BY DEF Siblings
  <2> DEFINE place(m) == IF m = i THEN j ELSE IF m = j THEN i ELSE m
  <2>1. F[k] = s[g][place(k)] /\ F[l] = s[g][place(l)] /\ place(k) # place(l)
        /\ place(k) \in DOMAIN s[g] /\ place(l) \in DOMAIN s[g]
    BY <1>4, <1>6
  <2> HIDE DEF place
  <2> QED
    BY <1>3, <2>1 DEF Siblings
<1>9. \A e : SamePlace(e, e)
  BY DEF SamePlace
<1>10. Sound(t, M)
  <2>1. \A k \in DOMAIN F : \E l \in DOMAIN s[g] : s[g][l] = F[k]
    BY <1>4, <1>6
  <2>2. \A l \in DOMAIN s[g] : \E k \in DOMAIN F : s[g][l] = F[k]
    BY <1>4, <1>6
  <2>3. \A k \in DOMAIN F : \E l \in DOMAIN s[g] : SamePlace(s[g][l], F[k])
    BY <1>9, <2>1
  <2>4. \A l \in DOMAIN s[g] : \E k \in DOMAIN F : SamePlace(s[g][l], F[k])
    BY <1>9, <2>2
  <2> QED
    BY <1>1, <1>2, <1>5, <1>7, <1>8, <2>3, <2>4, Reseat
<1> QED
  BY <1>10, SoundIsWellFormed DEF t, F


-----------------------------------------------------------------------------
(****************************************************************************)
(* What authors can reach                                                  *)
(****************************************************************************)
(* Authors start from well-formed versions. *)
LEMMA InitTyped == Init => TypeOK
<1> SUFFICES ASSUME Init PROVE TypeOK
  OBVIOUS
<1>1. author \in Authors
  BY DEF Init
<1>2. PICK t \in author.first : from = t.from /\ to = t.to /\ declared = t.mutations
  BY DEF Init
<1>3. /\ author.maxEdits \in Nat
      /\ WellFormed(t.from) /\ WellFormed(t.to) /\ IsFiniteSet(t.mutations)
      /\ t.from # t.to => author.maxEdits > 0
  BY <1>1, AuthorsAssumption
<1>4. edits = IF from = to THEN 0 ELSE 1
  BY DEF Init
<1>5. edits \in 0..author.maxEdits
  <2>1. CASE from = to
    BY <1>3, <1>4, <2>1
  <2>2. CASE from # to
    BY <1>2, <1>3, <1>4, <2>2
  <2> QED
    BY <2>1, <2>2
<1> QED
  BY <1>1, <1>2, <1>3, <1>5 DEF TypeOK

(* An edit that makes a schema makes a transition. *)
LEMMA EditTyped ==
    ASSUME TypeOK, NEW schema, WellFormed(schema), NEW mutations, IsFiniteSet(mutations), Edit(schema, mutations)
    PROVE  TypeOK'
<1>1. /\ edits < author.maxEdits /\ to' = schema /\ declared' = declared \cup mutations
      /\ edits' = edits + 1 /\ from' = from /\ author' = author
  BY DEF Edit
<1>2. author.maxEdits \in Nat /\ edits \in 0..author.maxEdits
  BY AuthorsAssumption DEF TypeOK
<1>3. edits' \in 0..author'.maxEdits
  BY <1>1, <1>2
<1>4. IsFiniteSet(declared')
  <2>1. IsFiniteSet(declared)
    BY DEF TypeOK
  <2>2. IsFiniteSet(declared \cup mutations)
    BY <2>1, FS_Union
  <2> QED
    BY <1>1, <2>2
<1>5. WellFormed(to') /\ WellFormed(from') /\ author' \in Authors
  <2>1. WellFormed(to')
    BY <1>1
  <2>2. WellFormed(from')
    BY <1>1 DEF TypeOK
  <2> QED
    BY <1>1, <2>1, <2>2 DEF TypeOK
<1> QED
  BY <1>3, <1>4, <1>5 DEF TypeOK

(* An edit declares one mutation or two. *)
LEMMA OneOrTwo == \A x, y : IsFiniteSet({x}) /\ IsFiniteSet({x, y})
<1> SUFFICES ASSUME NEW x, NEW y PROVE IsFiniteSet({x}) /\ IsFiniteSet({x, y})
  OBVIOUS
<1>1. IsFiniteSet({x})
  BY FS_Singleton
<1>2. IsFiniteSet({x} \cup {y})
  BY <1>1, FS_AddElement
<1>3. {x, y} = {x} \cup {y}
  OBVIOUS
<1> QED
  BY <1>1, <1>2, <1>3

(* An id given to a field is free. *)
LEMMA NewId ==
    ASSUME TypeOK, NEW g \in DOMAIN to, NEW id \in NewIds(g)
    PROVE  id \in Nat \cup {NoId} /\ (id = NoId \/ \A j \in DOMAIN to[g] : to[g][j].id # id)
<1>1. author.ids \subseteq Nat
  BY AuthorsAssumption DEF TypeOK
<1> QED
  BY <1>1 DEF NewIds, UnusedIds

(* And so is its name. *)
LEMMA UnusedName ==
    ASSUME NEW g, NEW name \in UnusedNames(g)
    PROVE  \A j \in DOMAIN to[g] : to[g][j].name # name
BY DEF UnusedNames

(* Each edit makes a well-formed version of a well-formed one. *)
LEMMA AddFieldTyped ==
    ASSUME TypeOK, NEW g \in StructLevels(to), NEW i \in 1..(Len(to[g]) + 1), NEW name,
           NEW type \in author.types, NEW null \in BOOLEAN, NEW id, AddField(g, i, name, type, null, id)
    PROVE  TypeOK'
<1>1. WellFormed(to) /\ g \in DOMAIN to
  BY StructLevelFits DEF TypeOK
<1>2. name \in UnusedNames(g) /\ id \in NewIds(g)
  BY DEF AddField
<1>3. IsType(type)
  BY AuthorsAssumption DEF TypeOK
<1>4. id \in Nat \cup {NoId} /\ (id = NoId \/ \A j \in DOMAIN to[g] : to[g][j].id # id)
  BY <1>1, <1>2, NewId
<1>5. \A j \in DOMAIN to[g] : to[g][j].name # name
  BY <1>2, UnusedName
<1> DEFINE schema == Grown(WithLevel(to, g, InsertAt(to[g], i, Field(name, type.kind, null, id))), Append(g, name), type)
           mutations == {add_field(Append(g, name), type, null)}
<1>6. WellFormed(schema)
  BY <1>1, <1>3, <1>4, <1>5, AddFieldFits
<1>7. IsFiniteSet(mutations)
  BY OneOrTwo
<1>8. Edit(schema, mutations)
  BY DEF AddField
<1> HIDE DEF schema, mutations
<1> QED
  BY <1>6, <1>7, <1>8, EditTyped

(* RemoveField: what the field held goes with it. *)
LEMMA RemoveFieldTyped ==
    ASSUME TypeOK, NEW g \in StructLevels(to), NEW i \in DOMAIN to[g], RemoveField(g, i)
    PROVE  TypeOK'
<1> DEFINE p == Append(g, to[g][i].name)
           schema == Pruned(WithLevel(to, g, RemoveAt(to[g], i)), p)
           mutations == {remove_field(p, TypeOf(to, p), to[g][i].null)}
<1>1. WellFormed(schema)
  BY RemoveFieldFits DEF TypeOK
<1>2. IsFiniteSet(mutations)
  BY OneOrTwo
<1>3. Edit(schema, mutations)
  BY DEF RemoveField
<1> HIDE DEF schema, mutations
<1> QED
  BY <1>1, <1>2, <1>3, EditTyped

(* RenameField: what the field held moves with it. *)
LEMMA RenameFieldTyped ==
    ASSUME TypeOK, NEW g \in StructLevels(to), NEW i \in DOMAIN to[g], NEW name, RenameField(g, i, name)
    PROVE  TypeOK'
<1> DEFINE f == to[g][i]
           p == Append(g, f.name)
           q == Append(g, name)
           schema == WithField(Moved(to, p, q), g, i, [f EXCEPT !.name = name])
           mutations == IF Identified(g) THEN {rename_field(p, q, f.id)}
                        ELSE {remove_field(p, TypeOf(to, p), f.null), add_field(q, TypeOf(to, p), f.null)}
<1>1. \A j \in DOMAIN to[g] : to[g][j].name # name
  BY UnusedName DEF RenameField
<1>2. WellFormed(schema)
  BY <1>1, RenameFieldFits DEF TypeOK
<1>3. IsFiniteSet(mutations)
  BY OneOrTwo
<1>4. Edit(schema, mutations)
  BY DEF RenameField
<1> HIDE DEF schema, mutations
<1> QED
  BY <1>2, <1>3, <1>4, EditTyped

(* ReplaceField: the new field has an id of its own. *)
LEMMA ReplaceFieldTyped ==
    ASSUME TypeOK, NEW g \in StructLevels(to), NEW i \in DOMAIN to[g], NEW id, ReplaceField(g, i, id)
    PROVE  TypeOK'
<1> DEFINE f == [to[g][i] EXCEPT !.id = id]
           p == Append(g, to[g][i].name)
           schema == WithField(to, g, i, f)
           mutations == {remove_field(p, TypeOf(to, p), to[g][i].null), add_field(p, TypeOf(to, p), to[g][i].null)}
<1>1. WellFormed(to) /\ g \in DOMAIN to /\ \A F : FitsInto(to, g, F)
  BY StructLevelFits DEF TypeOK
<1>2. id \in Nat \cup {NoId} /\ (id = NoId \/ \A j \in DOMAIN to[g] : to[g][j].id # id)
  BY <1>1, NewId DEF ReplaceField
<1>3. to[g][i] \in Fields(Segments(to))
  BY <1>1, FieldFacts
<1>4. f \in Fields(Segments(to)) /\ f.id = id /\ f.name = to[g][i].name /\ f.kind = to[g][i].kind
  BY <1>2, <1>3 DEF Fields
<1>5. SamePlace(to[g][i], f) /\ FreeId(to[g], i, f.id)
  BY <1>2, <1>4 DEF SamePlace, FreeId
<1> HIDE DEF f
<1>6. WellFormed(schema)
  BY <1>1, <1>4, <1>5, RevisionFits
<1>7. IsFiniteSet(mutations)
  BY OneOrTwo
<1>8. Edit(schema, mutations)
  BY DEF ReplaceField, f
<1> HIDE DEF schema, mutations
<1> QED
  BY <1>6, <1>7, <1>8, EditTyped

(* MoveField: the same fields in another order. *)
LEMMA MoveFieldTyped ==
    ASSUME TypeOK, NEW g \in StructLevels(to), NEW i \in DOMAIN to[g], NEW j \in DOMAIN to[g], MoveField(g, i, j)
    PROVE  TypeOK'
<1> DEFINE schema == WithLevel(to, g, Swapped(to[g], i, j))
           mutations == {reorder_fields(g, NamesOf(to[g]), NamesOf(Swapped(to[g], i, j)))}
<1>1. i # j
  <2>1. to[g] \in Seq(Fields(Segments(to)))
    BY StructLevelFits, SchemaFacts DEF TypeOK
  <2>2. i \in Nat /\ j \in Nat
    BY <2>1, LenProperties
  <2> QED
    BY <2>2 DEF MoveField
<1>2. WellFormed(schema)
  BY <1>1, MoveFieldFits DEF TypeOK
<1>3. IsFiniteSet(mutations)
  BY OneOrTwo
<1>4. Edit(schema, mutations)
  BY DEF MoveField
<1> HIDE DEF schema, mutations
<1> QED
  BY <1>2, <1>3, <1>4, EditTyped

(* RetypeField: the members of the old type give way to those of the new. *)
LEMMA RetypeFieldTyped ==
    ASSUME TypeOK, NEW g \in DOMAIN to, NEW i \in DOMAIN to[g], NEW type \in author.types, RetypeField(g, i, type)
    PROVE  TypeOK'
<1> DEFINE f == to[g][i]
           p == Append(g, f.name)
           schema == Grown(Pruned(WithField(to, g, i, [f EXCEPT !.kind = type.kind]), p), p, type)
           mutations == {change_type(p, TypeOf(to, p), type)}
<1>1. IsType(type) /\ WellFormed(to)
  BY AuthorsAssumption DEF TypeOK
<1>2. WellFormed(schema)
  BY <1>1, RetypeFieldFits
<1>3. IsFiniteSet(mutations)
  BY OneOrTwo
<1>4. Edit(schema, mutations)
  BY DEF RetypeField
<1> HIDE DEF schema, mutations
<1> QED
  BY <1>2, <1>3, <1>4, EditTyped

(* WidenList: a large_list holds what the list held. *)
LEMMA WidenListTyped ==
    ASSUME TypeOK, NEW g \in DOMAIN to, NEW i \in DOMAIN to[g], WidenList(g, i)
    PROVE  TypeOK'
<1> DEFINE f == [to[g][i] EXCEPT !.kind = "large_list"]
           F == [to[g] EXCEPT ![i] = f]
           p == Append(g, to[g][i].name)
           schema == [to EXCEPT ![g][i].kind = "large_list"]
           mutations == {change_type(p, TypeOf(to, p), TypeOf(schema, p))}
<1>1. WellFormed(to) /\ to[g][i].kind = "list"
  BY DEF TypeOK, WidenList
<1>2. to[g][i] \in Fields(Segments(to)) /\ to[g] \in Seq(Fields(Segments(to))) /\ Sound(to, Segments(to))
  BY <1>1, FieldFacts, SchemaFacts, WellFormedIsSound
<1>3. /\ f \in Fields(Segments(to)) /\ f.kind = "large_list"
      /\ f.id = to[g][i].id /\ f.name = to[g][i].name /\ f.null = to[g][i].null
  BY <1>2 DEF Fields, Containers
<1>4. SamePlace(to[g][i], f) /\ FreeId(to[g], i, f.id)
  BY <1>1, <1>3 DEF SamePlace, FreeId
<1>5. schema = WithField(to, g, i, f)
  BY DEF WithField, WithLevel
<1> HIDE DEF f, schema
<1>6. FitsInto(to, g, F)
  <2> HIDE DEF F
  <2>1. F \in Seq(Fields(Segments(to))) /\ DOMAIN F = DOMAIN to[g] /\ F[i] = f
        /\ \A j \in DOMAIN to[g] : j # i => F[j] = to[g][j]
    BY <1>2, <1>3, OneChanged DEF F
  <2>2. \A j \in DOMAIN F : F[j].name = to[g][j].name /\ F[j].id = to[g][j].id /\ F[j].null = to[g][j].null
    BY <1>3, <2>1
  <2>3. ASSUME NEW h \in DOMAIN to, NEW k \in DOMAIN to[h], to[h][k].kind = "map" /\ Held(to, h, k) = g
        PROVE  F[1].null = to[g][1].null
    BY <1>2, <2>1, <2>2, <2>3, MapHasKey
  <2> QED
    BY <1>2, <2>1, <2>2, <2>3, FitsAgain
<1>7. WellFormed(schema)
  BY <1>1, <1>3, <1>4, <1>5, <1>6, RevisionFits
<1>8. IsFiniteSet(mutations)
  BY OneOrTwo
<1>9. Edit(schema, mutations)
  BY DEF WidenList, schema
<1> HIDE DEF mutations
<1> QED
  BY <1>7, <1>8, <1>9, EditTyped


(* ChangeNullability: a map's key is left alone. *)
LEMMA ChangeNullabilityTyped ==
    ASSUME TypeOK, NEW g \in DOMAIN to, NEW i \in DOMAIN to[g], ChangeNullability(g, i)
    PROVE  TypeOK'
<1> DEFINE f == [to[g][i] EXCEPT !.null = ~to[g][i].null]
           F == [to[g] EXCEPT ![i] = f]
           schema == WithField(to, g, i, f)
           mutations == {change_nullability(Append(g, to[g][i].name), to[g][i].null, ~to[g][i].null)}
           M == Segments(to)
<1>1. WellFormed(to)
  BY DEF TypeOK
<1>2. to[g][i] \in Fields(M) /\ to[g] \in Seq(Fields(M)) /\ Sound(to, M)
  BY <1>1, FieldFacts, SchemaFacts, WellFormedIsSound
<1> HIDE DEF M
<1>3. f \in Fields(M) /\ f.kind = to[g][i].kind /\ f.id = to[g][i].id /\ f.name = to[g][i].name
  BY <1>2 DEF Fields
<1>4. SamePlace(to[g][i], f) /\ FreeId(to[g], i, f.id)
  BY <1>3 DEF SamePlace, FreeId
<1>5. ASSUME NEW h \in DOMAIN to, NEW k \in DOMAIN to[h], to[h][k].kind = "map" /\ Held(to, h, k) = g
      PROVE  i # 1
  <2> DEFINE p == Append(h, to[h][k].name)
  <2>1. p \in Paths(to) /\ FieldAt(to, p) = to[h][k] /\ p \in Seq(M) /\ "[]" \in M
    <3>1. h \in Seq(M) /\ to[h][k].name \in M /\ "[]" \in M
      BY <1>2, SoundFields DEF Sound
    <3> QED
      BY <1>2, <3>1, SoundFields, AppendFacts
  <2>2. g = Append(p, "[]")
    BY <1>5, HeldIs
  <2> HIDE DEF p
  <2>3. g # <<>> /\ Front(g) = p /\ Last(g) = "[]"
    BY <2>1, <2>2, AppendFacts
  <2>4. FieldAt(to, Front(g)).kind = "map" /\ Front(g) \in Paths(to)
    BY <1>5, <2>1, <2>3
  <2> QED
    BY <2>3, <2>4 DEF ChangeNullability, IsMapKey
<1> HIDE DEF f
<1>6. FitsInto(to, g, F)
  <2> HIDE DEF F
  <2>1. F \in Seq(Fields(M)) /\ DOMAIN F = DOMAIN to[g] /\ F[i] = f
        /\ \A j \in DOMAIN to[g] : j # i => F[j] = to[g][j]
    BY <1>2, <1>3, OneChanged DEF F
  <2>2. \A j \in DOMAIN F : F[j].name = to[g][j].name /\ F[j].id = to[g][j].id
    BY <1>3, <2>1
  <2>3. ASSUME NEW h \in DOMAIN to, NEW k \in DOMAIN to[h], to[h][k].kind = "map" /\ Held(to, h, k) = g
        PROVE  F[1].null = to[g][1].null
    <3>1. 1 \in DOMAIN to[g]
      BY <1>2, <2>3, MapHasKey
    <3> QED
      BY <1>5, <2>1, <2>3, <3>1
  <2> QED
    BY <1>2, <2>1, <2>2, <2>3, FitsAgain
<1>7. WellFormed(schema)
  BY <1>1, <1>3, <1>4, <1>6, RevisionFits DEF M
<1>8. IsFiniteSet(mutations)
  BY OneOrTwo
<1>9. Edit(schema, mutations)
  BY DEF ChangeNullability, f
<1> HIDE DEF schema, mutations
<1> QED
  BY <1>7, <1>8, <1>9, EditTyped

(* TypeOK is inductive. *)
LEMMA NextTyped == TypeOK /\ [Next]_vars => TypeOK'
<1> SUFFICES ASSUME TypeOK, [Next]_vars PROVE TypeOK'
  OBVIOUS
<1>1. CASE UNCHANGED vars
  BY <1>1 DEF vars, TypeOK
<1>2. ASSUME NEW g \in StructLevels(to), NEW i \in 1..(Len(to[g]) + 1), NEW name \in author.names,
             NEW type \in author.types, NEW null \in BOOLEAN, NEW id \in author.ids \cup {NoId},
             AddField(g, i, name, type, null, id)
      PROVE  TypeOK'
  BY <1>2, AddFieldTyped
<1>3. ASSUME NEW g \in StructLevels(to), NEW i \in DOMAIN to[g], RemoveField(g, i) PROVE TypeOK'
  BY <1>3, RemoveFieldTyped
<1>4. ASSUME NEW g \in StructLevels(to), NEW i \in DOMAIN to[g], NEW name \in author.names, RenameField(g, i, name)
      PROVE  TypeOK'
  BY <1>4, RenameFieldTyped
<1>5. ASSUME NEW g \in StructLevels(to), NEW i \in DOMAIN to[g], NEW id \in author.ids, ReplaceField(g, i, id)
      PROVE  TypeOK'
  BY <1>5, ReplaceFieldTyped
<1>6. ASSUME NEW g \in StructLevels(to), NEW i \in DOMAIN to[g], NEW j \in DOMAIN to[g], MoveField(g, i, j)
      PROVE  TypeOK'
  BY <1>6, MoveFieldTyped
<1>7. ASSUME NEW g \in DOMAIN to, NEW i \in DOMAIN to[g], NEW type \in author.types, RetypeField(g, i, type)
      PROVE  TypeOK'
  BY <1>7, RetypeFieldTyped
<1>8. ASSUME NEW g \in DOMAIN to, NEW i \in DOMAIN to[g], WidenList(g, i) PROVE TypeOK'
  BY <1>8, WidenListTyped
<1>9. ASSUME NEW g \in DOMAIN to, NEW i \in DOMAIN to[g], ChangeNullability(g, i) PROVE TypeOK'
  BY <1>9, ChangeNullabilityTyped
<1> QED
  BY <1>1, <1>2, <1>3, <1>4, <1>5, <1>6, <1>7, <1>8, <1>9 DEF Next

(* Whatever edits an author makes, in whatever order, both versions stay   *)
(* well-formed: names and ids unique, a level wherever a container is.     *)
THEOREM TypeCorrect == Spec => []TypeOK
<1> QED
  BY InitTyped, NextTyped, PTL DEF Spec

(* So the five properties of the diff hold of every transition an author   *)
(* can write, after any number of edits.                                   *)
THEOREM EveryDiffIsReversible == Spec => []DiffReadsBackwards
<1>1. TypeOK => DiffReadsBackwards
  BY DiffIsReversible DEF TypeOK
<1> QED
  BY <1>1, TypeCorrect, PTL

(* After edits that undo one another the diff is empty only if they did.   *)
THEOREM EveryEmptyDiffIsSilence == Spec => []EmptyDiffMeansSameSchema
<1>1. TypeOK => EmptyDiffMeansSameSchema
  BY EmptyDiffIsSilence DEF TypeOK
<1> QED
  BY <1>1, TypeCorrect, PTL

(* The paths observe_transition compares follow the diff. *)
THEOREM EveryCommonPathIsAPair == Spec => []CommonPathsFollowTheDiff
<1>1. TypeOK => CommonPathsFollowTheDiff
  BY CommonPathsArePairs DEF TypeOK
<1> QED
  BY <1>1, TypeCorrect, PTL

(* Retained paths are the same fields. *)
THEOREM EveryRetainedPathStays == Spec => []RetainedPathsAreTheSameFields
<1>1. TypeOK => RetainedPathsAreTheSameFields
  BY RetainedPathsStay DEF TypeOK
<1> QED
  BY <1>1, TypeCorrect, PTL

(* Replayed on the old schema, the mutations of diff_schemas give every    *)
(* field of the new one.  The order of fields is not part of a replay.     *)
THEOREM EveryDiffIsComplete == Spec => []MutationsRebuildTheNewSchema
<1>1. TypeOK => MutationsRebuildTheNewSchema
  BY DiffIsComplete DEF TypeOK
<1> QED
  BY <1>1, TypeCorrect, PTL

-----------------------------------------------------------------------------
(****************************************************************************)
(* The diff of one edit                                                     *)
(****************************************************************************)
(* The path of field i of level g. *)
PathOf(s, g, i) == Append(g, s[g][i].name)

(* What two fields known to be the same field differ in. *)
Differs(old, new, g, h, i, j, m) ==
    \/ /\ old[g][i].name # new[h][j].name
       /\ m = rename_field(PathOf(old, g, i), PathOf(new, h, j), new[h][j].id)
    \/ /\ ~Descends(old[g][i], new[h][j])
       /\ TypeOf(old, PathOf(old, g, i)) # TypeOf(new, PathOf(new, h, j))
       /\ m = change_type(PathOf(new, h, j), TypeOf(old, PathOf(old, g, i)), TypeOf(new, PathOf(new, h, j)))
    \/ /\ old[g][i].null # new[h][j].null
       /\ m = change_nullability(PathOf(new, h, j), old[g][i].null, new[h][j].null)

Matches(old, new, g, h, i, j) == <<i, j>> \in Match(old[g], new[h])

(* What the diff says of a field without a counterpart. *)
IsGone(old, new, g, h, m) ==
    \E i \in DOMAIN old[g] :
        /\ \A j \in DOMAIN new[h] : ~Matches(old, new, g, h, i, j)
        /\ m = remove_field(PathOf(old, g, i), TypeOf(old, PathOf(old, g, i)), old[g][i].null)

IsNew(old, new, g, h, m) ==
    \E j \in DOMAIN new[h] :
        /\ \A i \in DOMAIN old[g] : ~Matches(old, new, g, h, i, j)
        /\ m = add_field(PathOf(new, h, j), TypeOf(new, PathOf(new, h, j)), new[h][j].null)

IsMoved(old, new, g, h, m) ==
    OutOfOrder(old[g], new[h]) /\ m = reorder_fields(h, NamesOf(old[g]), NamesOf(new[h]))

IsChanged(old, new, g, h, m) ==
    \E i \in DOMAIN old[g], j \in DOMAIN new[h] : Matches(old, new, g, h, i, j) /\ Differs(old, new, g, h, i, j, m)

(* The pairs of a level, by position. *)
LEMMA PairsByPlace ==
    ASSUME NEW old, NEW new, NEW g, NEW h, NEW x
    PROVE  /\ x \in PairsAt(old, new, <<g, h>>) <=>
                 \E i \in DOMAIN old[g], j \in DOMAIN new[h] :
                    Matches(old, new, g, h, i, j) /\ x = <<PathOf(old, g, i), PathOf(new, h, j)>>
           /\ \A y \in Match(old[g], new[h]) : y = <<y[1], y[2]>> /\ y[1] \in DOMAIN old[g] /\ y[2] \in DOMAIN new[h]
<1> DEFINE F == old[g]
           G == new[h]
<1>1. \A y \in Match(F, G) : y = <<y[1], y[2]>> /\ y[1] \in DOMAIN F /\ y[2] \in DOMAIN G
  BY DEF Match
<1>2. PairsAt(old, new, <<g, h>>) = {<<Append(g, F[ij[1]].name), Append(h, G[ij[2]].name)>> : ij \in Match(F, G)}
  BY DEF PairsAt
<1>3. \A i, j : Matches(old, new, g, h, i, j) <=> <<i, j>> \in Match(F, G)
  BY DEF Matches
<1>4. \A i, j : <<PathOf(old, g, i), PathOf(new, h, j)>> = <<Append(g, F[i].name), Append(h, G[j].name)>>
  BY DEF PathOf
<1> HIDE DEF F, G
<1>5. ASSUME x \in PairsAt(old, new, <<g, h>>)
      PROVE  \E i \in DOMAIN F, j \in DOMAIN G : <<i, j>> \in Match(F, G) /\ x = <<Append(g, F[i].name), Append(h, G[j].name)>>
  <2>1. PICK ij \in Match(F, G) : x = <<Append(g, F[ij[1]].name), Append(h, G[ij[2]].name)>>
    BY <1>2, <1>5
  <2> QED
    BY <1>1, <2>1
<1>6. ASSUME NEW i \in DOMAIN F, NEW j \in DOMAIN G, <<i, j>> \in Match(F, G),
             x = <<Append(g, F[i].name), Append(h, G[j].name)>>
      PROVE  x \in PairsAt(old, new, <<g, h>>)
  <2> DEFINE ij == <<i, j>>
  <2>1. ij[1] = i /\ ij[2] = j /\ ij \in Match(F, G)
    BY <1>6
  <2> HIDE DEF ij
  <2> QED
    BY <1>2, <1>6, <2>1
<1>7. x \in PairsAt(old, new, <<g, h>>) <=>
          \E i \in DOMAIN F, j \in DOMAIN G :
             Matches(old, new, g, h, i, j) /\ x = <<PathOf(old, g, i), PathOf(new, h, j)>>
  BY <1>3, <1>4, <1>5, <1>6
<1> QED
  BY <1>1, <1>7 DEF F, G

(* The mutations of one level, field by field. *)
LEMMA LevelMutations ==
    ASSUME NEW old, NEW new, WellFormed(old), WellFormed(new), NEW g \in DOMAIN old, NEW h \in DOMAIN new, NEW m
    PROVE  m \in diff_level(old, new, <<g, h>>) <=>
              \/ IsGone(old, new, g, h, m) \/ IsNew(old, new, g, h, m)
              \/ IsMoved(old, new, g, h, m) \/ IsChanged(old, new, g, h, m)
<1> DEFINE lv == <<g, h>>
           pairs == PairsAt(old, new, lv)
<1>1. lv[1] = g /\ lv[2] = h
  OBVIOUS
<1>2. \A x : x \in pairs <=> \E i \in DOMAIN old[g], j \in DOMAIN new[h] :
                    Matches(old, new, g, h, i, j) /\ x = <<PathOf(old, g, i), PathOf(new, h, j)>>
  BY PairsByPlace
<1> HIDE DEF lv
<1>3. \A i \in DOMAIN old[g] : PathOf(old, g, i) \in PathsIn(old, g) /\ FieldAt(old, PathOf(old, g, i)) = old[g][i]
                               /\ Last(PathOf(old, g, i)) = old[g][i].name
  BY FieldFacts DEF PathOf
<1>4. \A j \in DOMAIN new[h] : PathOf(new, h, j) \in PathsIn(new, h) /\ FieldAt(new, PathOf(new, h, j)) = new[h][j]
                               /\ Last(PathOf(new, h, j)) = new[h][j].name
  BY FieldFacts DEF PathOf
<1>5. PathsIn(old, g) = {PathOf(old, g, i) : i \in DOMAIN old[g]} /\ PathsIn(new, h) = {PathOf(new, h, j) : j \in DOMAIN new[h]}
  BY DEF PathsIn, PathOf
<1>6. /\ \A i, k \in DOMAIN old[g] : PathOf(old, g, i) = PathOf(old, g, k) => i = k
      /\ \A j, k \in DOMAIN new[h] : PathOf(new, h, j) = PathOf(new, h, k) => j = k
  <2>1. Siblings(old[g]) /\ Siblings(new[h])
    BY SchemaFacts
  <2> QED
    BY <1>3, <1>4, <2>1 DEF Siblings
<1>7. diff_level(old, new, lv) = Removals(old, new, lv) \cup Renames(old, new, lv) \cup Additions(old, new, lv)
        \cup Reorders(old, new, lv) \cup Retypes(old, new, lv) \cup Relaxes(old, new, lv)
  BY PairMutations DEF diff_level
<1>8. m \in Removals(old, new, lv) <=> IsGone(old, new, g, h, m)
  <2>1. Removals(old, new, lv) = {remove_field(p, TypeOf(old, p), FieldAt(old, p).null) : p \in PathsIn(old, g) \ {pq[1] : pq \in pairs}}
    BY <1>1 DEF Removals
  <2>2. \A i \in DOMAIN old[g] : PathOf(old, g, i) \in {pq[1] : pq \in pairs} <=> \E j \in DOMAIN new[h] : Matches(old, new, g, h, i, j)
    <3> SUFFICES ASSUME NEW i \in DOMAIN old[g]
                 PROVE  (\E pq \in pairs : PathOf(old, g, i) = pq[1]) <=> \E j \in DOMAIN new[h] : Matches(old, new, g, h, i, j)
      OBVIOUS
    <3>1. ASSUME NEW pq \in pairs, PathOf(old, g, i) = pq[1] PROVE \E j \in DOMAIN new[h] : Matches(old, new, g, h, i, j)
      BY <1>2, <1>6, <3>1
    <3>2. ASSUME NEW j \in DOMAIN new[h], Matches(old, new, g, h, i, j) PROVE \E pq \in pairs : PathOf(old, g, i) = pq[1]
      <4> DEFINE pq == <<PathOf(old, g, i), PathOf(new, h, j)>>
      <4>1. pq[1] = PathOf(old, g, i) /\ pq \in pairs
        BY <1>2, <3>2
      <4> HIDE DEF pq, pairs
      <4> QED
        BY <4>1
    <3> QED
      BY <3>1, <3>2
  <2> HIDE DEF pairs
  <2> QED
    BY <1>3, <1>5, <2>1, <2>2 DEF IsGone
<1>9. m \in Additions(old, new, lv) <=> IsNew(old, new, g, h, m)
  <2>1. Additions(old, new, lv) = {add_field(p, TypeOf(new, p), FieldAt(new, p).null) : p \in PathsIn(new, h) \ {pq[2] : pq \in pairs}}
    BY <1>1 DEF Additions
  <2>2. \A j \in DOMAIN new[h] : PathOf(new, h, j) \in {pq[2] : pq \in pairs} <=> \E i \in DOMAIN old[g] : Matches(old, new, g, h, i, j)
    <3> SUFFICES ASSUME NEW j \in DOMAIN new[h]
                 PROVE  (\E pq \in pairs : PathOf(new, h, j) = pq[2]) <=> \E i \in DOMAIN old[g] : Matches(old, new, g, h, i, j)
      OBVIOUS
    <3>1. ASSUME NEW pq \in pairs, PathOf(new, h, j) = pq[2] PROVE \E i \in DOMAIN old[g] : Matches(old, new, g, h, i, j)
      BY <1>2, <1>6, <3>1
    <3>2. ASSUME NEW i \in DOMAIN old[g], Matches(old, new, g, h, i, j) PROVE \E pq \in pairs : PathOf(new, h, j) = pq[2]
      <4> DEFINE pq == <<PathOf(old, g, i), PathOf(new, h, j)>>
      <4>1. pq[2] = PathOf(new, h, j) /\ pq \in pairs
        BY <1>2, <3>2
      <4> HIDE DEF pq, pairs
      <4> QED
        BY <4>1
    <3> QED
      BY <3>1, <3>2
  <2> HIDE DEF pairs
  <2> QED
    BY <1>4, <1>5, <2>1, <2>2 DEF IsNew
<1>10. m \in Reorders(old, new, lv) <=> IsMoved(old, new, g, h, m)
  BY <1>1 DEF Reorders, IsMoved
<1>11. m \in Renames(old, new, lv) \cup Retypes(old, new, lv) \cup Relaxes(old, new, lv) <=> IsChanged(old, new, g, h, m)
  <2> DEFINE Named(p, q) == Last(p) # Last(q) /\ m = rename_field(p, q, FieldAt(new, q).id)
             Typed(p, q) == /\ ~Descends(FieldAt(old, p), FieldAt(new, q)) /\ TypeOf(old, p) # TypeOf(new, q)
                            /\ m = change_type(q, TypeOf(old, p), TypeOf(new, q))
             Loose(p, q) == /\ FieldAt(old, p).null # FieldAt(new, q).null
                            /\ m = change_nullability(q, FieldAt(old, p).null, FieldAt(new, q).null)
  <2>1. m \in Renames(old, new, lv) <=> \E pq \in pairs : Named(pq[1], pq[2])
    BY DEF Renames
  <2>2. m \in Retypes(old, new, lv) <=> \E pq \in pairs : Typed(pq[1], pq[2])
    BY DEF Retypes
  <2>3. m \in Relaxes(old, new, lv) <=> \E pq \in pairs : Loose(pq[1], pq[2])
    BY DEF Relaxes
  <2> DEFINE Changes(p, q) == Named(p, q) \/ Typed(p, q) \/ Loose(p, q)
  <2>4. \A i \in DOMAIN old[g], j \in DOMAIN new[h] :
            Changes(PathOf(old, g, i), PathOf(new, h, j)) <=> Differs(old, new, g, h, i, j, m)
    BY <1>3, <1>4 DEF Differs
  <2>5. m \in Renames(old, new, lv) \cup Retypes(old, new, lv) \cup Relaxes(old, new, lv) <=> \E pq \in pairs : Changes(pq[1], pq[2])
    BY <2>1, <2>2, <2>3
  <2> HIDE DEF Changes, pairs
  <2>6. ASSUME NEW pq \in pairs, Changes(pq[1], pq[2]) PROVE IsChanged(old, new, g, h, m)
    <3>1. PICK i \in DOMAIN old[g], j \in DOMAIN new[h] :
                Matches(old, new, g, h, i, j) /\ pq = <<PathOf(old, g, i), PathOf(new, h, j)>>
      BY <1>2
    <3>2. Changes(PathOf(old, g, i), PathOf(new, h, j))
      BY <2>6, <3>1
    <3> QED
      BY <2>4, <3>1, <3>2 DEF IsChanged
  <2>7. ASSUME IsChanged(old, new, g, h, m) PROVE \E pq \in pairs : Changes(pq[1], pq[2])
    <3>1. PICK i \in DOMAIN old[g], j \in DOMAIN new[h] :
                Matches(old, new, g, h, i, j) /\ Differs(old, new, g, h, i, j, m)
      BY <2>7 DEF IsChanged
    <3> DEFINE pq == <<PathOf(old, g, i), PathOf(new, h, j)>>
    <3>2. pq[1] = PathOf(old, g, i) /\ pq[2] = PathOf(new, h, j)
      OBVIOUS
    <3>3. pq \in pairs
      BY <1>2, <3>1
    <3> HIDE DEF pq
    <3> QED
      BY <2>4, <3>1, <3>2, <3>3
  <2> QED
    BY <2>5, <2>6, <2>7
<1> HIDE DEF pairs
<1> QED
  BY <1>7, <1>8, <1>9, <1>10, <1>11 DEF lv

(* What a field without members says of its type. *)
LEMMA ScalarHasNoLevel ==
    ASSUME NEW s, WellFormed(s), NEW p \in Paths(s), ~Container(s, p)
    PROVE  \A h \in DOMAIN s : ~Under(h, p)
<1> SUFFICES ASSUME NEW h \in DOMAIN s, Under(h, p) PROVE FALSE
  OBVIOUS
<1> DEFINE N == Segments(s)
<1>1. p \in Seq(N) /\ h \in Seq(N) /\ p # <<>>
  BY PathFacts, SchemaFacts
<1>2. Len(p) <= Len(h) /\ Len(p) \in Nat /\ Len(p) # 0
  BY <1>1, UnderFacts, EmptySeq
<1>3. h # <<>>
  BY <1>2
<1>4. PICK t \in Paths(s) : Container(s, t) /\ h = Inside(s, t)
  BY <1>3, SchemaFacts
<1>5. t \in Seq(N) /\ "[]" \in N
  BY <1>4, PathFacts, SchemaFacts
<1>6. Under(t, p)
  <2>1. CASE h = t
    BY <2>1
  <2>2. CASE FieldAt(s, t).kind = "map" /\ h = Append(t, "[]")
    <3>1. p = Append(t, "[]") \/ Under(t, p)
      <4> HIDE DEF N
      <4> QED
        BY <1>1, <1>5, <2>2, UnderFacts
    <3>2. p # Append(t, "[]")
      <4> SUFFICES ASSUME p = Append(t, "[]") PROVE FALSE
        OBVIOUS
      <4>1. Front(p) = t
        BY <1>5, AppendFacts
      <4> QED
        BY <2>2, <4>1, PathFacts, NoMapLevel
    <3> QED
      BY <3>1, <3>2
  <2> QED
    BY <1>4, <2>1, <2>2, InsideFacts
<1>7. t # p
  BY <1>4
<1> QED
  BY <1>6, <1>7, AroundIsContainer DEF Below, Under, IsStrictPrefix

(* The members of a level, as a type lists them. *)
MembersOf(F) == [i \in DOMAIN F |-> Member(F[i])]

InnerBy(s, p, M) == [r \in {x \in Seq(M) : p \o x \in DOMAIN s} |-> MembersOf(s[p \o r])]

(* A type lists what is inside of the field, by how far inside it is. *)
LEMMA InnerMeans ==
    ASSUME NEW s, NEW M, DOMAIN s \subseteq Seq(M), NEW p \in Seq(M)
    PROVE  Inner(s, p) = InnerBy(s, p, M)
<1> DEFINE R == {Beyond(g, p) : g \in {h \in DOMAIN s : Under(h, p)}}
<1>1. R = {r \in Seq(M) : p \o r \in DOMAIN s}
  <2>1. ASSUME NEW g \in DOMAIN s, Under(g, p) PROVE Beyond(g, p) \in Seq(M) /\ p \o Beyond(g, p) = g
    <3>1. g \in Seq(M)
      OBVIOUS
    <3> QED
      BY <2>1, <3>1, UnderMeans
  <2>2. ASSUME NEW r \in Seq(M), p \o r \in DOMAIN s PROVE r \in R
    BY <2>2, BeyondFacts
  <2> QED
    BY <2>1, <2>2
<1>2. Inner(s, p) = [r \in R |-> [i \in DOMAIN s[p \o r] |-> Member(s[p \o r][i])]]
  BY DEF Inner
<1>3. \A r : MembersOf(s[p \o r]) = [i \in DOMAIN s[p \o r] |-> Member(s[p \o r][i])]
  BY DEF MembersOf
<1> HIDE DEF R
<1> QED
  BY <1>1, <1>2, <1>3 DEF InnerBy

(* What is inside of p in old is inside of q in new. *)
SameInside(old, p, new, q, M) ==
    \A r \in Seq(M) :
        /\ p \o r \in DOMAIN old <=> q \o r \in DOMAIN new
        /\ p \o r \in DOMAIN old => MembersOf(old[p \o r]) = MembersOf(new[q \o r])

LEMMA SameInner ==
    ASSUME NEW old, NEW new, NEW M, DOMAIN old \subseteq Seq(M), DOMAIN new \subseteq Seq(M),
           NEW p \in Seq(M), NEW q \in Seq(M),
           SameInside(old, p, new, q, M)
    PROVE  Inner(old, p) = Inner(new, q)
<1>1. Inner(old, p) = InnerBy(old, p, M)
  BY InnerMeans
<1>2. Inner(new, q) = InnerBy(new, q, M)
  BY InnerMeans
<1>3. {r \in Seq(M) : p \o r \in DOMAIN old} = {r \in Seq(M) : q \o r \in DOMAIN new}
  BY DEF SameInside
<1> QED
  BY <1>1, <1>2, <1>3 DEF InnerBy, SameInside

LEMMA SameType ==
    ASSUME NEW old, NEW new, NEW p, NEW q, Inner(old, p) = Inner(new, q), FieldAt(old, p).kind = FieldAt(new, q).kind
    PROVE  TypeOf(old, p) = TypeOf(new, q)
BY DEF TypeOf

LEMMA ScalarType ==
    ASSUME NEW old, NEW new, WellFormed(old), WellFormed(new), NEW p \in Paths(old), NEW q \in Paths(new),
           ~Container(old, p), FieldAt(old, p).kind = FieldAt(new, q).kind
    PROVE  TypeOf(old, p) = TypeOf(new, q)
<1>1. (\A h \in DOMAIN old : ~Under(h, p)) /\ (\A h \in DOMAIN new : ~Under(h, q))
  BY ScalarHasNoLevel DEF Container
<1>2. {h \in DOMAIN old : Under(h, p)} = {} /\ {h \in DOMAIN new : Under(h, q)} = {}
  BY <1>1
<1>3. {Beyond(g, p) : g \in {h \in DOMAIN old : Under(h, p)}} = {} /\ {Beyond(g, q) : g \in {h \in DOMAIN new : Under(h, q)}} = {}
  BY <1>2
<1>4. Inner(old, p) = [r \in {} |-> [i \in DOMAIN old[p \o r] |-> Member(old[p \o r][i])]]
  BY <1>3 DEF Inner
<1>5. Inner(new, q) = [r \in {} |-> [i \in DOMAIN new[q \o r] |-> Member(new[q \o r][i])]]
  BY <1>3 DEF Inner
<1>6. Inner(old, p) = Inner(new, q)
  BY <1>4, <1>5
<1> QED
  BY <1>6, SameType

(* Of a field that is the same but for its id, and what it holds aside,    *)
(* nothing is reported.                                                    *)
LEMMA SameFieldSaysNothing ==
    ASSUME NEW old, NEW new, WellFormed(old), WellFormed(new), NEW g \in DOMAIN old, NEW h \in DOMAIN new,
           NEW i \in DOMAIN old[g], NEW j \in DOMAIN new[h], Member(old[g][i]) = Member(new[h][j]), NEW m
    PROVE  ~Differs(old, new, g, h, i, j, m)
<1> DEFINE p == PathOf(old, g, i)
           q == PathOf(new, h, j)
<1>1. old[g][i].name = new[h][j].name /\ old[g][i].kind = new[h][j].kind /\ old[g][i].null = new[h][j].null
  BY DEF Member
<1>2. p \in Paths(old) /\ FieldAt(old, p) = old[g][i] /\ q \in Paths(new) /\ FieldAt(new, q) = new[h][j]
  BY FieldFacts DEF PathOf
<1> HIDE DEF p, q
<1>3. ~Descends(old[g][i], new[h][j]) => TypeOf(old, p) = TypeOf(new, q)
  BY <1>1, <1>2, ScalarType DEF Descends, Container
<1> QED
  BY <1>1, <1>3 DEF Differs, p, q

(* The levels compared next, by position. *)
Deeper(old, new, g, h, i, j) ==
    Matches(old, new, g, h, i, j) /\ Descends(old[g][i], new[h][j])

LEMMA BelowByPlace ==
    ASSUME NEW old, NEW new, WellFormed(old), WellFormed(new), NEW g \in DOMAIN old, NEW h \in DOMAIN new,
           NEW x \in LevelsBelow(old, new, <<g, h>>)
    PROVE  \E i \in DOMAIN old[g], j \in DOMAIN new[h] :
              Deeper(old, new, g, h, i, j) /\ x = <<Held(old, g, i), Held(new, h, j)>>
<1>1. PICK p \in PathsIn(old, g), q \in PathsIn(new, h) :
                   /\ SameField(old, new, p, q) /\ Descends(FieldAt(old, p), FieldAt(new, q))
                   /\ x = <<Inside(old, p), Inside(new, q)>>
  BY BelowFacts
<1> DEFINE pq == <<p, q>>
<1>2. pq \in PairsAt(old, new, <<g, h>>)
  <2>1. pq \in PathsIn(old, g) \X PathsIn(new, h) /\ pq[1] = p /\ pq[2] = q
    OBVIOUS
  <2> HIDE DEF pq
  <2> QED
    BY <1>1, <2>1, PairsFacts
<1>3. pq[1] = p /\ pq[2] = q
  OBVIOUS
<1> HIDE DEF pq
<1>4. PICK i \in DOMAIN old[g], j \in DOMAIN new[h] :
                    Matches(old, new, g, h, i, j) /\ pq = <<PathOf(old, g, i), PathOf(new, h, j)>>
  BY <1>2, PairsByPlace
<1>5. p = Append(g, old[g][i].name) /\ q = Append(h, new[h][j].name)
  BY <1>3, <1>4 DEF PathOf
<1>6. FieldAt(old, p) = old[g][i] /\ FieldAt(new, q) = new[h][j]
  BY <1>5, FieldFacts
<1>7. Inside(old, p) = Held(old, g, i) /\ Inside(new, q) = Held(new, h, j)
  BY <1>5, <1>6 DEF Inside, Held
<1> QED
  BY <1>1, <1>4, <1>6, <1>7 DEF Deeper

(* Siblings are matched with themselves, in order. *)
LEMMA MatchOfOne ==
    ASSUME NEW S, NEW F \in Seq(S), Siblings(F)
    PROVE  (\A i, j : <<i, j>> \in Match(F, F) <=> i = j /\ i \in DOMAIN F) /\ ~OutOfOrder(F, F)
<1>1. DOMAIN F \subseteq Nat
  BY LenProperties
<1>2. /\ Match(F, F) = {ij \in (DOMAIN F) \X (DOMAIN F) :
                    IF ById(F, F) THEN F[ij[1]].id = F[ij[2]].id ELSE F[ij[1]].name = F[ij[2]].name}
      /\ ById(F, F) => (\A i, j \in DOMAIN F : F[i].id = F[j].id => i = j)
      /\ \A i, j \in DOMAIN F : F[i].name = F[j].name => i = j
  BY <1>1, MatchFacts
<1>3. \A i, j \in DOMAIN F : <<i, j>> \in Match(F, F) <=> i = j
  BY <1>2
<1>4. \A x \in Match(F, F) : x = <<x[1], x[2]>> /\ x[1] \in DOMAIN F /\ x[2] \in DOMAIN F
  BY <1>2
<1>5. ASSUME NEW i, NEW j, <<i, j>> \in Match(F, F) PROVE i \in DOMAIN F /\ j \in DOMAIN F
  BY <1>2, <1>5
<1>6. \A x \in Match(F, F) : x[1] = x[2]
  BY <1>3, <1>4
<1>7. ~OutOfOrder(F, F)
  <2> SUFFICES ASSUME NEW x \in Match(F, F), NEW y \in Match(F, F), x[1] < y[1], x[2] > y[2] PROVE FALSE
    BY DEF OutOfOrder
  <2>1. x[1] \in Nat /\ y[1] \in Nat /\ x[1] = x[2] /\ y[1] = y[2]
    BY <1>1, <1>4, <1>6
  <2> QED
    BY <2>1
<1> QED
  BY <1>3, <1>5, <1>7

(* new is old but for the siblings of the level g: of the levels D of old, *)
(* h is the level c[h] of new.                                             *)
Follows(old, new, g, D, c) ==
    /\ D \subseteq DOMAIN old /\ <<>> \in D /\ g \in D
    /\ c \in [D -> DOMAIN new] /\ c[<<>>] = <<>> /\ c[g] = g
    /\ \A h \in D : h # g => old[h] = new[c[h]]
    /\ \A h \in D : h # g => \A i \in DOMAIN old[h] :
          old[h][i].kind \in Containers => Held(old, h, i) \in D /\ c[Held(old, h, i)] = Held(new, c[h], i)
    /\ \A i \in DOMAIN old[g], j \in DOMAIN new[g] :
          Deeper(old, new, g, g, i, j) => Held(old, g, i) \in D /\ c[Held(old, g, i)] = Held(new, g, j)

(* Only those levels are compared with each other. *)
LEMMA LevelsFollow ==
    ASSUME NEW old, NEW new, WellFormed(old), WellFormed(new), NEW g, NEW D, NEW c, Follows(old, new, g, D, c)
    PROVE  \A lv \in Levels(old, new) : lv[1] \in D /\ lv = <<lv[1], c[lv[1]]>>
<1> DEFINE S == {<<h, c[h]>> : h \in D}
<1>1. /\ D \subseteq DOMAIN old /\ <<>> \in D /\ g \in D
      /\ c \in [D -> DOMAIN new] /\ c[<<>>] = <<>> /\ c[g] = g
      /\ \A h \in D : h # g => old[h] = new[c[h]]
  BY DEF Follows
<1>2. S \in SUBSET Domains(old, new)
  BY <1>1 DEF Domains
<1>3. Top \in S
  BY <1>1 DEF Top
<1>4. ASSUME NEW h \in D, NEW x \in LevelsBelow(old, new, <<h, c[h]>>) PROVE x \in S
  <2>1. h \in DOMAIN old /\ c[h] \in DOMAIN new
    BY <1>1
  <2>2. PICK i \in DOMAIN old[h], j \in DOMAIN new[c[h]] :
              Deeper(old, new, h, c[h], i, j) /\ x = <<Held(old, h, i), Held(new, c[h], j)>>
    BY <1>4, <2>1, BelowByPlace
  <2>3. Held(old, h, i) \in D /\ c[Held(old, h, i)] = Held(new, c[h], j)
    <3>1. CASE h = g
      BY <1>1, <2>2, <3>1 DEF Follows
    <3>2. CASE h # g
      <4>1. old[h] = new[c[h]] /\ old[h] \in Seq(Fields(Segments(old))) /\ Siblings(old[h])
        BY <1>1, <2>1, <3>2, SchemaFacts
      <4>2. <<i, j>> \in Match(old[h], old[h])
        BY <2>2, <4>1 DEF Deeper, Matches
      <4>3. i = j
        BY <4>1, <4>2, MatchOfOne
      <4>4. old[h][i].kind \in Containers
        BY <2>2 DEF Deeper, Descends
      <4> QED
        BY <3>2, <4>3, <4>4 DEF Follows
    <3> QED
      BY <3>1, <3>2
  <2> QED
    BY <2>2, <2>3
<1>5. IsClosed(old, new, S)
  <2> SUFFICES ASSUME NEW lv \in S PROVE LevelsBelow(old, new, lv) \subseteq S
    BY DEF IsClosed
  <2>1. PICK h \in D : lv = <<h, c[h]>>
    OBVIOUS
  <2> HIDE DEF S
  <2> QED
    BY <1>4, <2>1
<1>6. \A lv \in Levels(old, new) : lv \in S
  BY <1>2, <1>3, <1>5 DEF Levels
<1> QED
  BY <1>6

(* The other levels say nothing ... *)
LEMMA OtherLevelsSayNothing ==
    ASSUME NEW old, NEW new, WellFormed(old), WellFormed(new), NEW g, NEW D, NEW c, Follows(old, new, g, D, c),
           NEW h \in D, h # g
    PROVE  diff_level(old, new, <<h, c[h]>>) = {}
<1>1. h \in DOMAIN old /\ c[h] \in DOMAIN new /\ old[h] = new[c[h]]
  BY DEF Follows
<1>2. old[h] \in Seq(Fields(Segments(old))) /\ Siblings(old[h])
  BY <1>1, SchemaFacts
<1>3. (\A i, j : <<i, j>> \in Match(old[h], old[h]) <=> i = j /\ i \in DOMAIN old[h]) /\ ~OutOfOrder(old[h], old[h])
  BY <1>2, MatchOfOne
<1>4. \A i, j : Matches(old, new, h, c[h], i, j) <=> i = j /\ i \in DOMAIN old[h]
  BY <1>1, <1>3 DEF Matches
<1> SUFFICES ASSUME NEW m \in diff_level(old, new, <<h, c[h]>>) PROVE FALSE
  OBVIOUS
<1>5. IsGone(old, new, h, c[h], m) \/ IsNew(old, new, h, c[h], m) \/ IsMoved(old, new, h, c[h], m) \/ IsChanged(old, new, h, c[h], m)
  BY <1>1, LevelMutations
<1>6. ~IsGone(old, new, h, c[h], m)
  BY <1>1, <1>4 DEF IsGone
<1>7. ~IsNew(old, new, h, c[h], m)
  BY <1>1, <1>4 DEF IsNew
<1>8. ~IsMoved(old, new, h, c[h], m)
  BY <1>1, <1>3 DEF IsMoved
<1>9. ~IsChanged(old, new, h, c[h], m)
  <2> SUFFICES ASSUME NEW i \in DOMAIN old[h], NEW j \in DOMAIN new[c[h]], Matches(old, new, h, c[h], i, j),
                      Differs(old, new, h, c[h], i, j, m)
               PROVE  FALSE
    BY DEF IsChanged
  <2>1. Member(old[h][i]) = Member(new[c[h]][j])
    BY <1>1, <1>4
  <2> QED
    BY <1>1, <2>1, SameFieldSaysNothing
<1> QED
  BY <1>5, <1>6, <1>7, <1>8, <1>9

(* ... and the level g is compared, unless it has nothing to say itself:   *)
(* the diff is what it finds there.                                        *)
LEMMA OnePlace ==
    ASSUME NEW old, NEW new, WellFormed(old), WellFormed(new), NEW g, NEW D, NEW c, Follows(old, new, g, D, c)
    PROVE  diff_schemas(old, new) = diff_level(old, new, <<g, g>>) 
<1>1. diff_schemas(old, new) = UNION {diff_level(old, new, lv) : lv \in Levels(old, new)}
  BY EveryLevelIsReached DEF diff_schemas
<1>2. \A lv \in Levels(old, new) : lv[1] \in D /\ lv = <<lv[1], c[lv[1]]>>
  BY LevelsFollow
<1>3. c[g] = g /\ g \in DOMAIN old
  BY DEF Follows
<1>4. ASSUME NEW lv \in Levels(old, new), lv # <<g, g>> PROVE diff_level(old, new, lv) = {}
  <2>1. lv[1] # g
    BY <1>2, <1>3, <1>4
  <2>2. diff_level(old, new, <<lv[1], c[lv[1]]>>) = {}
    BY <1>2, <2>1, OtherLevelsSayNothing
  <2> QED
    BY <1>2, <2>2
<1>5. <<g, g>> \in Levels(old, new)
  <2> SUFFICES ASSUME <<g, g>> \notin Levels(old, new) PROVE FALSE
    OBVIOUS
  <2>1. \A lv \in Levels(old, new) : diff_level(old, new, lv) = {}
    BY <1>4
  <2>2. diff_schemas(old, new) = {}
    BY <1>1, <2>1
  <2>3. SameFields(old, new)
    BY <2>2, EmptyDiffMeansSameFields
  <2> QED
    BY <1>3, <2>3, SameLevels
<1> QED
  BY <1>1, <1>4, <1>5

(* The level of a field's siblings is not inside of that field. *)
LEMMA NotInsideItself ==
    ASSUME NEW M, NEW g \in Seq(M), NEW a \in M
    PROVE  ~Under(g, Append(g, a)) /\ ~Under(<<>>, Append(g, a))
<1> DEFINE p == Append(g, a)
<1>1. p \in Seq(M) /\ Len(p) = Len(g) + 1 /\ Len(g) \in Nat /\ <<>> \in Seq(M) /\ Len(<<>>) = 0
  BY AppendFacts
<1> HIDE DEF p
<1>2. ~Under(g, p)
  <2> SUFFICES ASSUME Under(g, p) PROVE FALSE
    OBVIOUS
  <2>1. Len(p) <= Len(g)
    BY <1>1, UnderFacts
  <2> QED
    BY <1>1, <2>1
<1>3. ~Under(<<>>, p)
  <2> SUFFICES ASSUME Under(<<>>, p) PROVE FALSE
    OBVIOUS
  <2>1. Len(p) <= Len(<<>>)
    BY <1>1, UnderFacts
  <2> QED
    BY <1>1, <2>1
<1> QED
  BY <1>2, <1>3 DEF p

(* A field gave way to another one, which is not the same field for the    *)
(* diff, or holds other things.                                            *)
LEMMA GraftDiff ==
    ASSUME NEW s, NEW t, WellFormed(s), WellFormed(t), NEW M, Sound(s, M), NEW g \in DOMAIN s, NEW a \in M,
           NEW b, NEW F, NEW X, Regrafted(s, g, a, b, F, X, t),
           \A i \in DOMAIN s[g], j \in DOMAIN F :
               Deeper(s, t, g, g, i, j) => s[g][i].name # a /\ F[j].name = s[g][i].name
    PROVE  diff_schemas(s, t) = diff_level(s, t, <<g, g>>)
<1> DEFINE p == Append(g, a)
           D == Outside(s, p)
           c == [h \in D |-> h]
<1>1. /\ DOMAIN t = D \cup DOMAIN X /\ t[g] = F
      /\ \A h \in D : h # g => t[h] = s[h]
  BY DEF Regrafted
<1>2. g \in Seq(M) /\ <<>> \in DOMAIN s
  BY DEF Sound
<1>3. \A h \in D : h \in DOMAIN s /\ ~Under(h, p)
  BY DEF Outside
<1>4. <<>> \in D /\ g \in D
  BY <1>2, NotInsideItself DEF Outside
<1>5. ASSUME NEW h \in D, NEW i \in DOMAIN s[h], s[h][i].kind \in Containers, h # g \/ s[h][i].name # a
      PROVE  Held(s, h, i) \in D
  <2>1. ~Under(Held(s, h, i), p)
    BY <1>3, <1>5, HeldUnder
  <2>2. Held(s, h, i) \in DOMAIN s
    BY <1>3, <1>5 DEF Sound
  <2> QED
    BY <2>1, <2>2 DEF Outside
<1> HIDE DEF D, p
<1>6. \A h \in D : c[h] = h
  OBVIOUS
<1>7. c \in [D -> DOMAIN t]
  BY <1>1
<1> HIDE DEF c
<1>8. ASSUME NEW h \in D, h # g, NEW i \in DOMAIN s[h], s[h][i].kind \in Containers
      PROVE  Held(s, h, i) \in D /\ c[Held(s, h, i)] = Held(t, c[h], i)
  <2>1. Held(s, h, i) \in D
    BY <1>5, <1>8
  <2>2. t[h] = s[h]
    BY <1>1, <1>8
  <2>3. Held(t, h, i) = Held(s, h, i)
    BY <2>2 DEF Held
  <2> QED
    BY <1>6, <1>8, <2>1, <2>3
<1>9. ASSUME NEW i \in DOMAIN s[g], NEW j \in DOMAIN t[g], Deeper(s, t, g, g, i, j)
      PROVE  Held(s, g, i) \in D /\ c[Held(s, g, i)] = Held(t, g, j)
  <2>1. s[g][i].name # a /\ F[j].name = s[g][i].name
    BY <1>1, <1>9
  <2>2. s[g][i].kind \in Containers /\ t[g][j].kind = s[g][i].kind
    BY <1>9 DEF Deeper, Descends
  <2>3. Held(s, g, i) \in D
    BY <1>4, <1>5, <2>1, <2>2
  <2>4. Held(t, g, j) = Held(s, g, i)
    BY <1>1, <2>1, <2>2, HeldIs
  <2> QED
    BY <1>6, <2>3, <2>4
<1>10. Follows(s, t, g, D, c)
  BY <1>1, <1>3, <1>4, <1>6, <1>7, <1>8, <1>9 DEF Follows
<1> QED
  BY <1>10, OnePlace

(* Siblings changed in place. *)
LEMMA ReseatDiff ==
    ASSUME NEW s, NEW t, WellFormed(s), WellFormed(t), NEW g \in DOMAIN s,
           DOMAIN t = DOMAIN s, \A h \in DOMAIN s : h # g => t[h] = s[h],
           \A i \in DOMAIN s[g], j \in DOMAIN t[g] : Deeper(s, t, g, g, i, j) => t[g][j].name = s[g][i].name
    PROVE  diff_schemas(s, t) = diff_level(s, t, <<g, g>>)
<1> DEFINE D == DOMAIN s
           c == [h \in D |-> h]
<1>1. Sound(s, Segments(s))
  BY WellFormedIsSound
<1>2. <<>> \in D
  BY <1>1 DEF Sound
<1>3. \A h \in D : c[h] = h
  OBVIOUS
<1>4. c \in [D -> DOMAIN t]
  OBVIOUS
<1> HIDE DEF c
<1>5. ASSUME NEW h \in D, h # g, NEW i \in DOMAIN s[h], s[h][i].kind \in Containers
      PROVE  Held(s, h, i) \in D /\ c[Held(s, h, i)] = Held(t, c[h], i)
  <2>1. Held(s, h, i) \in D
    BY <1>1, <1>5 DEF Sound
  <2>2. t[h] = s[h]
    BY <1>5
  <2>3. Held(t, h, i) = Held(s, h, i)
    BY <2>2 DEF Held
  <2> QED
    BY <1>3, <2>1, <2>3
<1>6. ASSUME NEW i \in DOMAIN s[g], NEW j \in DOMAIN t[g], Deeper(s, t, g, g, i, j)
      PROVE  Held(s, g, i) \in D /\ c[Held(s, g, i)] = Held(t, g, j)
  <2>1. s[g][i].kind \in Containers /\ t[g][j].kind = s[g][i].kind /\ t[g][j].name = s[g][i].name
    BY <1>6 DEF Deeper, Descends
  <2>2. Held(s, g, i) \in D
    BY <1>1, <2>1 DEF Sound
  <2>3. Held(t, g, j) = Held(s, g, i)
    BY <2>1, HeldIs
  <2> QED
    BY <1>3, <2>2, <2>3
<1>7. Follows(s, t, g, D, c)
  <2> HIDE DEF D
  <2> QED
    BY <1>2, <1>3, <1>4, <1>5, <1>6 DEF Follows, D
<1> QED
  BY <1>7, OnePlace

(* Where what a field holds is, once it is carried elsewhere. *)
LEMMA CarriedLevel ==
    ASSUME NEW M, NEW p \in Seq(M), NEW q \in Seq(M), NEW h \in Seq(M), Under(h, p), NEW n \in M, "[]" \in M, NEW kind
    PROVE  Carried(LevelAt(kind, Append(h, n)), p, q) = LevelAt(kind, Append(Carried(h, p, q), n))
<1>1. Carried(Append(h, n), p, q) = Append(Carried(h, p, q), n)
  BY CarriedFurther, SMTT(60)
<1>2. PICK e \in M : e = "[]"
  OBVIOUS
<1>3. Carried(Append(Append(h, n), e), p, q) = Append(Append(Carried(h, p, q), n), e)
  BY CarriedTwice, SMTT(60)
<1> QED
  BY <1>1, <1>2, <1>3 DEF LevelAt

LEMMA CarriedLevelItself ==
    ASSUME NEW M, NEW p \in Seq(M), NEW q \in Seq(M), "[]" \in M, NEW kind
    PROVE  Carried(LevelAt(kind, p), p, q) = LevelAt(kind, q)
<1>1. Under(p, p) /\ Carried(p, p, q) = q
  BY UnderFacts, CarriedFacts
<1>2. PICK e \in M : e = "[]"
  OBVIOUS
<1>3. Carried(Append(p, e), p, q) = Append(Carried(p, p, q), e)
  BY <1>1, CarriedFurther, SMTT(60)
<1> QED
  BY <1>1, <1>2, <1>3 DEF LevelAt

(* Of the fields whose members are compared, the one named a is now named  *)
(* b, and the others have kept their names.                                *)
OnlyRenamed(s, t, g, a, b) ==
    \A i \in DOMAIN s[g], j \in DOMAIN t[g] :
        Deeper(s, t, g, g, i, j) => t[g][j].name = IF s[g][i].name = a THEN b ELSE s[g][i].name

(* A field took another name, and everything in it along. *)
LEMMA CarryDiff ==
    ASSUME NEW s, NEW t, WellFormed(s), WellFormed(t), NEW M, Sound(s, M), NEW g \in DOMAIN s, NEW a \in M, NEW b \in M,
           NEW F, Regrafted(s, g, a, b, F, CarriedLevels(s, Append(g, a), Append(g, b)), t),
           OnlyRenamed(s, t, g, a, b)
    PROVE  diff_schemas(s, t) = diff_level(s, t, <<g, g>>)
<1> DEFINE p == Append(g, a)
           q == Append(g, b)
           D == DOMAIN s
           X == CarriedLevels(s, p, q)
           c == [h \in D |-> IF Under(h, p) THEN Carried(h, p, q) ELSE h]
<1>0. g \in Seq(M) /\ <<>> \in D /\ D \subseteq Seq(M) /\ "[]" \in M /\ p \in Seq(M) /\ q \in Seq(M)
  BY AppendFacts DEF Sound
<1>1. /\ DOMAIN t = Outside(s, p) \cup DOMAIN X /\ t[g] = F
      /\ \A h \in Outside(s, p) : h # g => t[h] = s[h]
      /\ \A h \in DOMAIN X : t[h] = X[h]
  BY DEF Regrafted
<1>2. ~Under(g, p) /\ ~Under(<<>>, p)
  BY <1>0, NotInsideItself
<1> HIDE DEF p, q
<1>3. \A l \in D : Under(l, p) => Carried(l, p, q) \in DOMAIN X /\ X[Carried(l, p, q)] = s[l]
  <2> SUFFICES ASSUME NEW l \in D, Under(l, p) PROVE Carried(l, p, q) \in DOMAIN X /\ X[Carried(l, p, q)] = s[l]
    OBVIOUS
  <2>1. Carried(Carried(l, p, q), q, p) = l
    BY <1>0, CarriedFacts
  <2> QED
    BY <2>1 DEF CarriedLevels
<1>4. \A h \in D : (Under(h, p) => c[h] = Carried(h, p, q)) /\ (~Under(h, p) => c[h] = h)
  OBVIOUS
<1>5. c \in [D -> DOMAIN t]
  BY <1>1, <1>3 DEF Outside
<1> HIDE DEF c, X
<1>6. \A h \in D : h # g => s[h] = t[c[h]]
  BY <1>1, <1>3, <1>4 DEF Outside
<1>7. \A h \in D : \A i \in DOMAIN s[h] : s[h][i].kind \in Containers => Held(s, h, i) \in D
  BY DEF Sound
<1>8. ASSUME NEW h \in D, h # g, NEW i \in DOMAIN s[h], s[h][i].kind \in Containers
      PROVE  c[Held(s, h, i)] = Held(t, c[h], i)
  <2>1. Held(s, h, i) \in D /\ s[h][i] = t[c[h]][i]
    BY <1>6, <1>7, <1>8
  <2>2. Under(Held(s, h, i), p) <=> Under(h, p)
    BY <1>8, HeldUnder DEF p
  <2>3. CASE ~Under(h, p)
    <3>1. t[h] = s[h] /\ c[h] = h /\ c[Held(s, h, i)] = Held(s, h, i)
      BY <1>4, <1>6, <1>8, <2>1, <2>2, <2>3
    <3> QED
      BY <3>1 DEF Held
  <2>4. CASE Under(h, p)
    <3>1. h \in Seq(M) /\ s[h][i].name \in M
      BY <1>0, SoundFields
    <3>2. c[h] = Carried(h, p, q) /\ c[Held(s, h, i)] = Carried(Held(s, h, i), p, q)
      BY <1>4, <2>1, <2>2, <2>4
    <3> DEFINE n == Append(h, s[h][i].name)
               k == Append(Carried(h, p, q), s[h][i].name)
    <3>5. Held(s, h, i) = LevelAt(s[h][i].kind, n) /\ Held(t, c[h], i) = LevelAt(s[h][i].kind, k)
      BY <2>1, <3>2, HeldIs
    <3>6. Carried(LevelAt(s[h][i].kind, n), p, q) = LevelAt(s[h][i].kind, k)
      BY <1>0, <2>4, <3>1, CarriedLevel
    <3> QED
      BY <3>2, <3>5, <3>6
  <2> QED
    BY <2>3, <2>4
<1>9. ASSUME NEW i \in DOMAIN s[g], NEW j \in DOMAIN t[g], Deeper(s, t, g, g, i, j)
      PROVE  Held(s, g, i) \in D /\ c[Held(s, g, i)] = Held(t, g, j)
  <2>1. s[g][i].kind \in Containers /\ t[g][j].kind = s[g][i].kind
    BY <1>9 DEF Deeper, Descends
  <2>2. F[j].name = IF s[g][i].name = a THEN b ELSE s[g][i].name
    BY <1>1, <1>9 DEF OnlyRenamed
  <2>3. Held(s, g, i) \in D
    BY <1>7, <2>1
  <2>4. Under(Held(s, g, i), p) <=> s[g][i].name = a
    BY <1>2, HeldUnder DEF p
  <2>5. CASE s[g][i].name # a
    <3>1. Held(t, g, j) = Held(s, g, i)
      BY <1>1, <2>1, <2>2, <2>5, HeldIs
    <3> QED
      BY <1>4, <2>3, <2>4, <2>5, <3>1
  <2>6. CASE s[g][i].name = a
    <3>1. c[Held(s, g, i)] = Carried(Held(s, g, i), p, q)
      BY <1>4, <2>3, <2>4, <2>6
    <3>2. Append(g, s[g][i].name) = p /\ Append(g, t[g][j].name) = q
      BY <1>1, <2>2, <2>6 DEF p, q
    <3>5. Held(s, g, i) = LevelAt(s[g][i].kind, p) /\ Held(t, g, j) = LevelAt(s[g][i].kind, q)
      BY <2>1, <3>2 DEF Held, LevelOf, LevelAt
    <3>6. Carried(LevelAt(s[g][i].kind, p), p, q) = LevelAt(s[g][i].kind, q)
      BY <1>0, CarriedLevelItself
    <3> QED
      BY <2>3, <3>1, <3>5, <3>6
  <2> QED
    BY <2>3, <2>5, <2>6
<1>10. Follows(s, t, g, D, c)
  <2>1. c[<<>>] = <<>> /\ c[g] = g
    BY <1>0, <1>2, <1>4
  <2>2. \A h \in D : h # g => \A i \in DOMAIN s[h] :
          s[h][i].kind \in Containers => Held(s, h, i) \in D /\ c[Held(s, h, i)] = Held(t, c[h], i)
    BY <1>7, <1>8
  <2> HIDE DEF D
  <2> QED
    BY <1>0, <1>5, <1>6, <1>9, <2>1, <2>2 DEF Follows, D
<1> QED
  BY <1>10, OnePlace

(* Field i of a level is the same field for the diff after it changed.     *)
StillMatched(E, i, F) == IF ById(E, F) THEN F[i].id = E[i].id ELSE F[i].name = E[i].name

(* One of the siblings changed: the others are matched in place.           *)
LEMMA MatchInPlace ==
    ASSUME NEW S, NEW E \in Seq(S), NEW F \in Seq(S), Siblings(E), Siblings(F), DOMAIN F = DOMAIN E, NEW i \in DOMAIN E,
           \A j \in DOMAIN E : j # i => F[j] = E[j]
    PROVE  /\ \A j \in DOMAIN E, k \in DOMAIN F : <<j, k>> \in Match(E, F) <=> j = k /\ (j = i => StillMatched(E, i, F))
           /\ ~OutOfOrder(E, F)
<1>1. DOMAIN E \subseteq Nat
  BY LenProperties
<1>2. Match(E, F) = {ij \in (DOMAIN E) \X (DOMAIN F) :
                    IF ById(E, F) THEN E[ij[1]].id = F[ij[2]].id ELSE E[ij[1]].name = F[ij[2]].name}
  BY <1>1, MatchFacts
<1>3. \A j \in DOMAIN E, k \in DOMAIN F :
          <<j, k>> \in Match(E, F) <=> IF ById(E, F) THEN E[j].id = F[k].id ELSE E[j].name = F[k].name
  BY <1>2
<1>4. ASSUME NEW j \in DOMAIN E, NEW k \in DOMAIN F
      PROVE  <<j, k>> \in Match(E, F) <=> j = k /\ (j = i => StillMatched(E, i, F))
  <2>1. CASE ById(E, F)
    <3>1. (\A l \in DOMAIN E : E[l].id # NoId) /\ \A l \in DOMAIN F : F[l].id # NoId
      BY <2>1 DEF ById, Range
    <3>2. <<j, k>> \in Match(E, F) <=> E[j].id = F[k].id
      BY <1>3, <2>1
    <3>3. StillMatched(E, i, F) <=> F[i].id = E[i].id
      BY <2>1 DEF StillMatched
    <3>4. \A l, m \in DOMAIN E : E[l].id = E[m].id => l = m
      BY <3>1 DEF Siblings
    <3>5. \A l, m \in DOMAIN F : F[l].id = F[m].id => l = m
      BY <3>1 DEF Siblings
    <3> QED
      BY <3>2, <3>3, <3>4, <3>5
  <2>2. CASE ~ById(E, F)
    <3>2. <<j, k>> \in Match(E, F) <=> E[j].name = F[k].name
      BY <1>3, <2>2
    <3>3. StillMatched(E, i, F) <=> F[i].name = E[i].name
      BY <2>2 DEF StillMatched
    <3>4. \A l, m \in DOMAIN E : E[l].name = E[m].name => l = m
      BY DEF Siblings
    <3>5. \A l, m \in DOMAIN F : F[l].name = F[m].name => l = m
      BY DEF Siblings
    <3> QED
      BY <3>2, <3>3, <3>4, <3>5
  <2> QED
    BY <2>1, <2>2
<1>5. \A x \in Match(E, F) : x = <<x[1], x[2]>> /\ x[1] \in DOMAIN E /\ x[2] \in DOMAIN F
  BY <1>2
<1>6. \A x \in Match(E, F) : x[1] = x[2]
  BY <1>4, <1>5
<1>7. ~OutOfOrder(E, F)
  <2> SUFFICES ASSUME NEW x \in Match(E, F), NEW y \in Match(E, F), x[1] < y[1], x[2] > y[2] PROVE FALSE
    BY DEF OutOfOrder
  <2>1. x[1] \in Nat /\ y[1] \in Nat /\ x[1] = x[2] /\ y[1] = y[2]
    BY <1>1, <1>5, <1>6
  <2> QED
    BY <2>1
<1> QED
  BY <1>4, <1>7

Dropped(s, g, i) == remove_field(PathOf(s, g, i), TypeOf(s, PathOf(s, g, i)), s[g][i].null)
Arrived(s, g, i) == add_field(PathOf(s, g, i), TypeOf(s, PathOf(s, g, i)), s[g][i].null)

(* The siblings other than field i are matched with themselves, and the    *)
(* diff says of field i what it differs in, if it is the same field, and   *)
(* that one went and another one came, if not.                             *)
OneOfThem(s, t, g, i) ==
    /\ \A j \in DOMAIN s[g], k \in DOMAIN t[g] :
          Matches(s, t, g, g, j, k) <=> j = k /\ (j = i => StillMatched(s[g], i, t[g]))
    /\ StillMatched(s[g], i, t[g]) => \A m : m \in diff_level(s, t, <<g, g>>) <=> Differs(s, t, g, g, i, i, m)
    /\ ~StillMatched(s[g], i, t[g]) => diff_level(s, t, <<g, g>>) = {Dropped(s, g, i), Arrived(t, g, i)}

(* One field of a level changed, or another one took its place. *)
LEMMA LevelInPlace ==
    ASSUME NEW s, NEW t, WellFormed(s), WellFormed(t), NEW g \in DOMAIN s, g \in DOMAIN t,
           DOMAIN t[g] = DOMAIN s[g], NEW i \in DOMAIN s[g],
           \A j \in DOMAIN s[g] : j # i => t[g][j] = s[g][j]
    PROVE  OneOfThem(s, t, g, i)
<1> DEFINE same == StillMatched(s[g], i, t[g])
           M == Segments(s) \cup Segments(t)
<1>1. s[g] \in Seq(Fields(M)) /\ t[g] \in Seq(Fields(M)) /\ Siblings(s[g]) /\ Siblings(t[g])
  <2>1. Sound(s, M) /\ Sound(t, M)
    BY WellFormedIsSound, SoundGrows
  <2> QED
    BY <2>1 DEF Sound
<1>2. /\ \A j \in DOMAIN s[g], k \in DOMAIN t[g] : <<j, k>> \in Match(s[g], t[g]) <=> j = k /\ (j = i => same)
      /\ ~OutOfOrder(s[g], t[g])
  BY <1>1, MatchInPlace
<1>3. \A j \in DOMAIN s[g], k \in DOMAIN t[g] : Matches(s, t, g, g, j, k) <=> j = k /\ (j = i => same)
  BY <1>2 DEF Matches
<1> HIDE DEF same
<1>4. \A m : m \in diff_level(s, t, <<g, g>>) <=>
                \/ IsGone(s, t, g, g, m) \/ IsNew(s, t, g, g, m)
                \/ IsMoved(s, t, g, g, m) \/ IsChanged(s, t, g, g, m)
  BY LevelMutations
<1>5. \A m : ~IsMoved(s, t, g, g, m)
  BY <1>2 DEF IsMoved
<1>6. \A m : IsGone(s, t, g, g, m) <=> ~same /\ m = Dropped(s, g, i)
  BY <1>3 DEF IsGone, Dropped
<1>7. \A m : IsNew(s, t, g, g, m) <=> ~same /\ m = Arrived(t, g, i)
  BY <1>3 DEF IsNew, Arrived
<1>8. ASSUME NEW j \in DOMAIN s[g], NEW m, j # i PROVE ~Differs(s, t, g, g, j, j, m)
  <2>1. Member(s[g][j]) = Member(t[g][j])
    BY <1>8
  <2> QED
    BY <2>1, SameFieldSaysNothing
<1>9. \A m : IsChanged(s, t, g, g, m) <=> same /\ Differs(s, t, g, g, i, i, m)
  BY <1>3, <1>8 DEF IsChanged
<1>10. ~same => diff_level(s, t, <<g, g>>) = {Dropped(s, g, i), Arrived(t, g, i)}
  BY <1>4, <1>5, <1>6, <1>7, <1>9
<1>11. same => \A m : m \in diff_level(s, t, <<g, g>>) <=> Differs(s, t, g, g, i, i, m)
  BY <1>4, <1>5, <1>6, <1>7, <1>9
<1> QED
  BY <1>3, <1>10, <1>11 DEF same, OneOfThem

(* Where a sibling is once another one is inserted at k. *)
Place(i, k) == IF i < k THEN i ELSE i + 1

(* The siblings before an insertion are matched with themselves. *)
LEMMA MatchInserted ==
    ASSUME NEW S, NEW E \in Seq(S), NEW F \in Seq(S), Siblings(E), Siblings(F),
           NEW k \in 1..(Len(E) + 1), NEW e, Inserted(E, k, e, F)
    PROVE  /\ \A i \in DOMAIN E : Place(i, k) \in DOMAIN F /\ Place(i, k) # k /\ F[Place(i, k)] = E[i]
           /\ \A j \in DOMAIN F : j # k => \E i \in DOMAIN E : j = Place(i, k)
           /\ \A i \in DOMAIN E, j \in DOMAIN F : <<i, j>> \in Match(E, F) <=> j = Place(i, k)
           /\ \A i \in DOMAIN E, j \in DOMAIN F : <<j, i>> \in Match(F, E) <=> j = Place(i, k)
           /\ ~OutOfOrder(E, F) /\ ~OutOfOrder(F, E) /\ k \in DOMAIN F
<1>1. DOMAIN E = 1..Len(E) /\ Len(E) \in Nat /\ DOMAIN F = 1..(Len(E) + 1)
  BY LenProperties DEF Inserted
<1>2. \A i \in DOMAIN E : Place(i, k) \in DOMAIN F /\ Place(i, k) # k /\ F[Place(i, k)] = E[i]
  <2> SUFFICES ASSUME NEW i \in DOMAIN E PROVE Place(i, k) \in DOMAIN F /\ Place(i, k) # k /\ F[Place(i, k)] = E[i]
    OBVIOUS
  <2>1. CASE i < k
    <3>1. Place(i, k) = i /\ i \in 1..(k - 1) /\ i \in 1..(Len(E) + 1)
      BY <1>1, <2>1 DEF Place
    <3> QED
      BY <1>1, <2>1, <3>1 DEF Inserted
  <2>2. CASE ~(i < k)
    <3>1. Place(i, k) = i + 1 /\ i + 1 \in (k + 1)..(Len(E) + 1) /\ i + 1 \in 1..(Len(E) + 1) /\ (i + 1) - 1 = i
      BY <1>1, <2>2 DEF Place
    <3>2. F[i + 1] = E[(i + 1) - 1]
      BY <3>1 DEF Inserted
    <3> QED
      BY <1>1, <2>2, <3>1, <3>2
  <2> QED
    BY <2>1, <2>2
<1>3. \A j \in DOMAIN F : j # k => \E i \in DOMAIN E : j = Place(i, k)
  <2> SUFFICES ASSUME NEW j \in DOMAIN F, j # k PROVE \E i \in DOMAIN E : j = Place(i, k)
    OBVIOUS
  <2>1. CASE j < k
    <3>1. j \in DOMAIN E /\ j = Place(j, k)
      BY <1>1, <2>1 DEF Place
    <3> QED
      BY <3>1
  <2>2. CASE j > k
    <3>1. j - 1 \in DOMAIN E /\ j = Place(j - 1, k)
      BY <1>1, <2>2 DEF Place
    <3> QED
      BY <3>1
  <2> QED
    BY <1>1, <2>1, <2>2
<1>4. DOMAIN E \subseteq Nat /\ DOMAIN F \subseteq Nat /\ k \in DOMAIN F
  BY <1>1
<1>5. Match(E, F) = {ij \in (DOMAIN E) \X (DOMAIN F) :
                    IF ById(E, F) THEN E[ij[1]].id = F[ij[2]].id ELSE E[ij[1]].name = F[ij[2]].name}
  BY <1>4, MatchFacts
<1>6. Match(F, E) = {ij \in (DOMAIN F) \X (DOMAIN E) :
                    IF ById(F, E) THEN F[ij[1]].id = E[ij[2]].id ELSE F[ij[1]].name = E[ij[2]].name}
  BY <1>4, MatchFacts
<1>7. ById(E, F) => \A j \in DOMAIN F : F[j].id # NoId
  BY DEF ById, Range
<1>8. ById(E, F) <=> ById(F, E)
  BY DEF ById
<1>9. ASSUME NEW i \in DOMAIN E, NEW j \in DOMAIN F
      PROVE  (IF ById(E, F) THEN E[i].id = F[j].id ELSE E[i].name = F[j].name) <=> j = Place(i, k)
  <2> DEFINE l == Place(i, k)
  <2>1. E[i] = F[l] /\ l \in DOMAIN F
    BY <1>2
  <2> HIDE DEF l
  <2>2. \A x, y \in DOMAIN F : F[x].name = F[y].name => x = y
    BY DEF Siblings
  <2>3. ById(E, F) => \A x, y \in DOMAIN F : F[x].id = F[y].id => x = y
    BY <1>7 DEF Siblings
  <2>4. (IF ById(E, F) THEN E[i].id = F[j].id ELSE E[i].name = F[j].name) <=> j = l
    BY <2>1, <2>2, <2>3
  <2> QED
    BY <2>4 DEF l
<1>10. \A i \in DOMAIN E, j \in DOMAIN F : <<i, j>> \in Match(E, F) <=> j = Place(i, k)
  BY <1>5, <1>9
<1>11. \A i \in DOMAIN E, j \in DOMAIN F : <<j, i>> \in Match(F, E) <=> j = Place(i, k)
  <2> SUFFICES ASSUME NEW i \in DOMAIN E, NEW j \in DOMAIN F PROVE <<j, i>> \in Match(F, E) <=> j = Place(i, k)
    OBVIOUS
  <2>1. <<j, i>> \in Match(F, E) <=> IF ById(F, E) THEN F[j].id = E[i].id ELSE F[j].name = E[i].name
    BY <1>6
  <2> QED
    BY <1>8, <1>9, <2>1
<1>12. \A i, l \in DOMAIN E : i < l <=> Place(i, k) < Place(l, k)
  BY <1>1 DEF Place
<1>13. ~OutOfOrder(E, F)
  <2> SUFFICES ASSUME NEW x \in Match(E, F), NEW y \in Match(E, F), x[1] < y[1], x[2] > y[2] PROVE FALSE
    BY DEF OutOfOrder
  <2>1. /\ x = <<x[1], x[2]>> /\ y = <<y[1], y[2]>> /\ x[1] \in DOMAIN E /\ y[1] \in DOMAIN E
        /\ x[2] \in DOMAIN F /\ y[2] \in DOMAIN F
    BY <1>5
  <2>2. x[2] = Place(x[1], k) /\ y[2] = Place(y[1], k)
    BY <1>10, <2>1
  <2>3. x[2] < y[2] /\ x[2] \in Nat /\ y[2] \in Nat
    BY <1>4, <1>12, <2>1, <2>2
  <2> QED
    BY <2>3
<1>14. ~OutOfOrder(F, E)
  <2> SUFFICES ASSUME NEW x \in Match(F, E), NEW y \in Match(F, E), x[1] < y[1], x[2] > y[2] PROVE FALSE
    BY DEF OutOfOrder
  <2>1. /\ x = <<x[1], x[2]>> /\ y = <<y[1], y[2]>> /\ x[1] \in DOMAIN F /\ y[1] \in DOMAIN F
        /\ x[2] \in DOMAIN E /\ y[2] \in DOMAIN E
    BY <1>6
  <2>2. x[1] = Place(x[2], k) /\ y[1] = Place(y[2], k)
    BY <1>11, <2>1
  <2>3. x[2] < y[2] /\ x[2] \in Nat /\ y[2] \in Nat
    BY <1>4, <1>12, <2>1, <2>2
  <2> QED
    BY <2>3
<1> QED
  BY <1>2, <1>3, <1>4, <1>10, <1>11, <1>13, <1>14

(* A field removed can be inserted again. *)
LEMMA RemovedIsInserted ==
    ASSUME NEW S, NEW E \in Seq(S), NEW k \in DOMAIN E
    PROVE  /\ RemoveAt(E, k) \in Seq(S) /\ k \in 1..(Len(RemoveAt(E, k)) + 1)
           /\ Inserted(RemoveAt(E, k), k, E[k], E)
<1> DEFINE F == RemoveAt(E, k)
<1>1. Len(E) \in Nat /\ DOMAIN E = 1..Len(E)
  BY LenProperties
<1>2. F \in Seq(S) /\ DOMAIN F = 1..(Len(E) - 1) /\ Len(F) = Len(E) - 1
      /\ \A i \in 1..(Len(E) - 1) : F[i] = IF i < k THEN E[i] ELSE E[i + 1]
  BY RemoveAtFacts
<1> HIDE DEF F
<1>3. DOMAIN E = 1..(Len(F) + 1) /\ k \in 1..(Len(F) + 1)
  BY <1>1, <1>2
<1>4. \A i \in 1..(k - 1) : E[i] = F[i]
  BY <1>1, <1>2
<1>5. \A i \in (k + 1)..(Len(F) + 1) : E[i] = F[i - 1]
  <2> SUFFICES ASSUME NEW i \in (k + 1)..(Len(F) + 1) PROVE E[i] = F[i - 1]
    OBVIOUS
  <2>1. i - 1 \in 1..(Len(E) - 1) /\ ~(i - 1 < k) /\ (i - 1) + 1 = i
    BY <1>1, <1>2
  <2>2. F[i - 1] = E[(i - 1) + 1]
    BY <1>2, <2>1
  <2> QED
    BY <2>1, <2>2
<1> QED
  BY <1>2, <1>3, <1>4, <1>5 DEF Inserted, F

(* The siblings of a level, for both schemas. *)
LEMMA BothLevels ==
    ASSUME NEW s, NEW t, WellFormed(s), WellFormed(t), NEW g \in DOMAIN s, g \in DOMAIN t
    PROVE  \E S : s[g] \in Seq(S) /\ t[g] \in Seq(S) /\ Siblings(s[g]) /\ Siblings(t[g])
<1> DEFINE M == Segments(s) \cup Segments(t)
<1>1. Sound(s, M) /\ Sound(t, M)
  BY WellFormedIsSound, SoundGrows
<1> HIDE DEF M
<1>2. s[g] \in Seq(Fields(M)) /\ t[g] \in Seq(Fields(M)) /\ Siblings(s[g]) /\ Siblings(t[g])
  BY <1>1 DEF Sound
<1> QED
  BY <1>2

(* A field joined the siblings of a level. *)
LEMMA LevelInserted ==
    ASSUME NEW s, NEW t, WellFormed(s), WellFormed(t), NEW g \in DOMAIN s, g \in DOMAIN t,
           NEW k \in 1..(Len(s[g]) + 1), NEW e, Inserted(s[g], k, e, t[g])
    PROVE  /\ \A i \in DOMAIN s[g], j \in DOMAIN t[g] : Matches(s, t, g, g, i, j) => t[g][j] = s[g][i] /\ j # k
           /\ diff_level(s, t, <<g, g>>) = {Arrived(t, g, k)}
<1>1. PICK S : s[g] \in Seq(S) /\ t[g] \in Seq(S) /\ Siblings(s[g]) /\ Siblings(t[g])
  BY BothLevels
<1>2. /\ \A i \in DOMAIN s[g] : Place(i, k) \in DOMAIN t[g] /\ Place(i, k) # k /\ t[g][Place(i, k)] = s[g][i]
      /\ \A j \in DOMAIN t[g] : j # k => \E i \in DOMAIN s[g] : j = Place(i, k)
      /\ \A i \in DOMAIN s[g], j \in DOMAIN t[g] : <<i, j>> \in Match(s[g], t[g]) <=> j = Place(i, k)
      /\ ~OutOfOrder(s[g], t[g]) /\ k \in DOMAIN t[g]
  BY <1>1, MatchInserted
<1>3. \A i \in DOMAIN s[g], j \in DOMAIN t[g] : Matches(s, t, g, g, i, j) <=> j = Place(i, k)
  BY <1>2 DEF Matches
<1>4. \A m : m \in diff_level(s, t, <<g, g>>) <=>
                \/ IsGone(s, t, g, g, m) \/ IsNew(s, t, g, g, m)
                \/ IsMoved(s, t, g, g, m) \/ IsChanged(s, t, g, g, m)
  BY LevelMutations
<1>5. \A m : ~IsMoved(s, t, g, g, m)
  BY <1>2 DEF IsMoved
<1>6. \A m : ~IsGone(s, t, g, g, m)
  BY <1>2, <1>3 DEF IsGone
<1>7. \A j \in DOMAIN t[g] : (\A i \in DOMAIN s[g] : ~Matches(s, t, g, g, i, j)) <=> j = k
  BY <1>2, <1>3
<1>8. \A m : IsNew(s, t, g, g, m) <=> m = Arrived(t, g, k)
  BY <1>2, <1>7 DEF IsNew, Arrived
<1>9. \A m : ~IsChanged(s, t, g, g, m)
  <2> SUFFICES ASSUME NEW m, NEW i \in DOMAIN s[g], NEW j \in DOMAIN t[g], Matches(s, t, g, g, i, j),
                      Differs(s, t, g, g, i, j, m)
               PROVE  FALSE
    BY DEF IsChanged
  <2>1. Member(s[g][i]) = Member(t[g][j])
    BY <1>2, <1>3
  <2> QED
    BY <2>1, SameFieldSaysNothing
<1> QED
  BY <1>2, <1>3, <1>4, <1>5, <1>6, <1>8, <1>9

(* A field left the siblings of a level. *)
LEMMA LevelLeft ==
    ASSUME NEW s, NEW t, WellFormed(s), WellFormed(t), NEW g \in DOMAIN s, g \in DOMAIN t,
           NEW k \in 1..(Len(t[g]) + 1), NEW e, Inserted(t[g], k, e, s[g])
    PROVE  /\ \A i \in DOMAIN s[g], j \in DOMAIN t[g] : Matches(s, t, g, g, i, j) => t[g][j] = s[g][i] /\ i # k
           /\ diff_level(s, t, <<g, g>>) = {Dropped(s, g, k)}
<1>1. PICK S : s[g] \in Seq(S) /\ t[g] \in Seq(S) /\ Siblings(s[g]) /\ Siblings(t[g])
  BY BothLevels
<1>2. /\ \A i \in DOMAIN t[g] : Place(i, k) \in DOMAIN s[g] /\ Place(i, k) # k /\ s[g][Place(i, k)] = t[g][i]
      /\ \A j \in DOMAIN s[g] : j # k => \E i \in DOMAIN t[g] : j = Place(i, k)
      /\ \A i \in DOMAIN t[g], j \in DOMAIN s[g] : <<j, i>> \in Match(s[g], t[g]) <=> j = Place(i, k)
      /\ ~OutOfOrder(s[g], t[g]) /\ k \in DOMAIN s[g]
  BY <1>1, MatchInserted
<1>3. \A i \in DOMAIN t[g], j \in DOMAIN s[g] : Matches(s, t, g, g, j, i) <=> j = Place(i, k)
  BY <1>2 DEF Matches
<1>4. \A m : m \in diff_level(s, t, <<g, g>>) <=>
                \/ IsGone(s, t, g, g, m) \/ IsNew(s, t, g, g, m)
                \/ IsMoved(s, t, g, g, m) \/ IsChanged(s, t, g, g, m)
  BY LevelMutations
<1>5. \A m : ~IsMoved(s, t, g, g, m)
  BY <1>2 DEF IsMoved
<1>6. \A m : ~IsNew(s, t, g, g, m)
  BY <1>2, <1>3 DEF IsNew
<1>7. \A j \in DOMAIN s[g] : (\A i \in DOMAIN t[g] : ~Matches(s, t, g, g, j, i)) <=> j = k
  BY <1>2, <1>3
<1>8. \A m : IsGone(s, t, g, g, m) <=> m = Dropped(s, g, k)
  BY <1>2, <1>7 DEF IsGone, Dropped
<1>9. \A m : ~IsChanged(s, t, g, g, m)
  <2> SUFFICES ASSUME NEW m, NEW i \in DOMAIN s[g], NEW j \in DOMAIN t[g], Matches(s, t, g, g, i, j),
                      Differs(s, t, g, g, i, j, m)
               PROVE  FALSE
    BY DEF IsChanged
  <2>1. Member(s[g][i]) = Member(t[g][j])
    BY <1>2, <1>3
  <2> QED
    BY <2>1, SameFieldSaysNothing
<1> QED
  BY <1>2, <1>3, <1>4, <1>5, <1>6, <1>8, <1>9

(* Where a sibling is once those at i and j changed places. *)
Exchanged(k, i, j) == IF k = i THEN j ELSE IF k = j THEN i ELSE k

(* Two siblings that changed places are matched crosswise. *)
LEMMA MatchSwapped ==
    ASSUME NEW S, NEW E \in Seq(S), NEW F \in Seq(S), Siblings(E), Siblings(F),
           NEW i \in DOMAIN E, NEW j \in DOMAIN E, i < j, F = Swapped(E, i, j)
    PROVE  /\ \A k \in DOMAIN E : Exchanged(k, i, j) \in DOMAIN F /\ F[Exchanged(k, i, j)] = E[k]
           /\ \A l \in DOMAIN F : \E k \in DOMAIN E : l = Exchanged(k, i, j)
           /\ \A k \in DOMAIN E, l \in DOMAIN F : <<k, l>> \in Match(E, F) <=> l = Exchanged(k, i, j)
           /\ OutOfOrder(E, F)
<1>1. DOMAIN E = 1..Len(E) /\ Len(E) \in Nat
  BY LenProperties
<1>2. DOMAIN F = DOMAIN E /\ \A k \in DOMAIN E : F[k] = IF k = i THEN E[j] ELSE IF k = j THEN E[i] ELSE E[k]
  BY DEF Swapped
<1>3. F[i] = E[j] /\ F[j] = E[i] /\ \A k \in DOMAIN E : k # i /\ k # j => F[k] = E[k]
  BY <1>1, <1>2
<1>4. \A k \in DOMAIN E : Exchanged(k, i, j) \in DOMAIN F /\ F[Exchanged(k, i, j)] = E[k]
  BY <1>2, <1>3 DEF Exchanged
<1>5. \A l \in DOMAIN F : Exchanged(l, i, j) \in DOMAIN E /\ l = Exchanged(Exchanged(l, i, j), i, j)
  BY <1>2 DEF Exchanged
<1>6. Match(E, F) = {ij \in (DOMAIN E) \X (DOMAIN F) :
                    IF ById(E, F) THEN E[ij[1]].id = F[ij[2]].id ELSE E[ij[1]].name = F[ij[2]].name}
  BY <1>1, <1>2, MatchFacts
<1>7. ById(E, F) => \A l \in DOMAIN F : F[l].id # NoId
  BY DEF ById, Range
<1>8. ASSUME NEW k \in DOMAIN E, NEW l \in DOMAIN F
      PROVE  <<k, l>> \in Match(E, F) <=> l = Exchanged(k, i, j)
  <2> DEFINE x == Exchanged(k, i, j)
  <2>1. E[k] = F[x] /\ x \in DOMAIN F
    BY <1>4
  <2> HIDE DEF x
  <2>2. \A y, z \in DOMAIN F : F[y].name = F[z].name => y = z
    BY DEF Siblings
  <2>3. ById(E, F) => \A y, z \in DOMAIN F : F[y].id = F[z].id => y = z
    BY <1>7 DEF Siblings
  <2>4. <<k, l>> \in Match(E, F) <=> IF ById(E, F) THEN E[k].id = F[l].id ELSE E[k].name = F[l].name
    BY <1>6
  <2>5. <<k, l>> \in Match(E, F) <=> l = x
    BY <2>1, <2>2, <2>3, <2>4
  <2> QED
    BY <2>5 DEF x
<1>9. OutOfOrder(E, F)
  <2> DEFINE x == <<i, j>>
             y == <<j, i>>
  <2>1. x \in Match(E, F) /\ y \in Match(E, F)
    BY <1>1, <1>2, <1>8 DEF Exchanged
  <2>2. x[1] < y[1] /\ x[2] > y[2]
    BY <1>1
  <2> HIDE DEF x, y
  <2> QED
    BY <2>1, <2>2 DEF OutOfOrder
<1> QED
  BY <1>4, <1>5, <1>8, <1>9, <1>2

(* Two fields of a level changed places. *)
LEMMA LevelSwapped ==
    ASSUME NEW s, NEW t, WellFormed(s), WellFormed(t), NEW g \in DOMAIN s, g \in DOMAIN t,
           NEW i \in DOMAIN s[g], NEW j \in DOMAIN s[g], i < j, t[g] = Swapped(s[g], i, j)
    PROVE  /\ \A k \in DOMAIN s[g], l \in DOMAIN t[g] : Matches(s, t, g, g, k, l) => t[g][l] = s[g][k]
           /\ diff_level(s, t, <<g, g>>) = {reorder_fields(g, NamesOf(s[g]), NamesOf(t[g]))}
<1>1. PICK S : s[g] \in Seq(S) /\ t[g] \in Seq(S) /\ Siblings(s[g]) /\ Siblings(t[g])
  BY BothLevels
<1>2. /\ \A k \in DOMAIN s[g] : Exchanged(k, i, j) \in DOMAIN t[g] /\ t[g][Exchanged(k, i, j)] = s[g][k]
      /\ \A l \in DOMAIN t[g] : \E k \in DOMAIN s[g] : l = Exchanged(k, i, j)
      /\ \A k \in DOMAIN s[g], l \in DOMAIN t[g] : <<k, l>> \in Match(s[g], t[g]) <=> l = Exchanged(k, i, j)
      /\ OutOfOrder(s[g], t[g])
  BY <1>1, MatchSwapped
<1>3. \A k \in DOMAIN s[g], l \in DOMAIN t[g] : Matches(s, t, g, g, k, l) <=> l = Exchanged(k, i, j)
  BY <1>2 DEF Matches
<1>4. \A m : m \in diff_level(s, t, <<g, g>>) <=>
                \/ IsGone(s, t, g, g, m) \/ IsNew(s, t, g, g, m)
                \/ IsMoved(s, t, g, g, m) \/ IsChanged(s, t, g, g, m)
  BY LevelMutations
<1>5. \A m : IsMoved(s, t, g, g, m) <=> m = reorder_fields(g, NamesOf(s[g]), NamesOf(t[g]))
  BY <1>2 DEF IsMoved
<1>6. \A m : ~IsGone(s, t, g, g, m)
  BY <1>2, <1>3 DEF IsGone
<1>7. \A m : ~IsNew(s, t, g, g, m)
  BY <1>2, <1>3 DEF IsNew
<1>8. \A m : ~IsChanged(s, t, g, g, m)
  <2> SUFFICES ASSUME NEW m, NEW k \in DOMAIN s[g], NEW l \in DOMAIN t[g], Matches(s, t, g, g, k, l),
                      Differs(s, t, g, g, k, l, m)
               PROVE  FALSE
    BY DEF IsChanged
  <2>1. Member(s[g][k]) = Member(t[g][l])
    BY <1>2, <1>3
  <2> QED
    BY <2>1, SameFieldSaysNothing
<1> QED
  BY <1>2, <1>3, <1>4, <1>5, <1>6, <1>7, <1>8

(* A type is the list of what TypeOf made of a schema. *)
LEMMA TypeLists ==
    ASSUME NEW type, IsType(type)
    PROVE  /\ type = [kind |-> type.kind, inner |-> type.inner]
           /\ type.inner = [r \in DOMAIN type.inner |-> type.inner[r]]
           /\ \A r \in DOMAIN type.inner : MembersOf(Stripped(type.inner[r])) = type.inner[r]
<1> DEFINE s == ColumnOf(type)
           p == <<"x">>
           R == {Beyond(h, p) : h \in {l \in DOMAIN s : Under(l, p)}}
<1>1. type = TypeOf(s, p)
  BY DEF IsType
<1> HIDE DEF s, p
<1>2. type.kind = FieldAt(s, p).kind /\ type.inner = Inner(s, p) /\ type = [kind |-> FieldAt(s, p).kind, inner |-> Inner(s, p)]
  BY <1>1 DEF TypeOf
<1>3. Inner(s, p) = [r \in R |-> [i \in DOMAIN s[p \o r] |-> Member(s[p \o r][i])]]
  BY DEF Inner
<1> HIDE DEF R
<1>4. DOMAIN type.inner = R /\ \A r \in R : type.inner[r] = [i \in DOMAIN s[p \o r] |-> Member(s[p \o r][i])]
  BY <1>2, <1>3
<1>5. ASSUME NEW r \in R PROVE MembersOf(Stripped(type.inner[r])) = type.inner[r]
  <2> DEFINE F == s[p \o r]
             G == type.inner[r]
  <2>1. G = [i \in DOMAIN F |-> Member(F[i])]
    BY <1>4
  <2> HIDE DEF F, G
  <2>2. Stripped(G) = [i \in DOMAIN F |-> Field(F[i].name, F[i].kind, F[i].null, NoId)]
    BY <2>1 DEF Stripped, Member
  <2>3. MembersOf(Stripped(G)) = [i \in DOMAIN F |-> Member(Field(F[i].name, F[i].kind, F[i].null, NoId))]
    BY <2>2 DEF MembersOf
  <2>4. \A i \in DOMAIN F : Member(Field(F[i].name, F[i].kind, F[i].null, NoId)) = Member(F[i])
    BY DEF Member, Field
  <2> QED
    BY <2>1, <2>3, <2>4 DEF G
<1>6. type.inner = [r \in R |-> type.inner[r]]
  BY <1>2, <1>3, <1>4
<1> QED
  BY <1>2, <1>4, <1>5, <1>6

(* A field with the levels of a type has that type. *)
LEMMA PlantedType ==
    ASSUME NEW t, NEW M, DOMAIN t \subseteq Seq(M), NEW q \in Seq(M), NEW type, IsType(type),
           DOMAIN type.inner \subseteq Seq(M),
           \A h \in DOMAIN t : Under(h, q) => h \in DOMAIN Planted(q, type),
           \A h \in DOMAIN Planted(q, type) : h \in DOMAIN t /\ t[h] = Planted(q, type)[h],
           FieldAt(t, q).kind = type.kind
    PROVE  TypeOf(t, q) = type
<1> DEFINE X == Planted(q, type)
           R == DOMAIN type.inner
<1>1. DOMAIN X = {q \o r : r \in R} /\ \A h \in DOMAIN X : X[h] = Stripped(type.inner[Beyond(h, q)])
  BY DEF Planted
<1>2. /\ type = [kind |-> type.kind, inner |-> type.inner] /\ type.inner = [r \in R |-> type.inner[r]]
      /\ \A r \in R : MembersOf(Stripped(type.inner[r])) = type.inner[r]
  BY TypeLists
<1>3. \A r \in Seq(M) : Under(q \o r, q) /\ Beyond(q \o r, q) = r
  BY BeyondFacts
<1>4. (\A h \in DOMAIN t : Under(h, q) => h \in DOMAIN X) /\ \A h \in DOMAIN X : h \in DOMAIN t /\ t[h] = X[h]
  OBVIOUS
<1> HIDE DEF X, R
<1>5. R \subseteq Seq(M)
  BY DEF R
<1>6. ASSUME NEW r \in Seq(M) PROVE q \o r \in DOMAIN t <=> r \in R
  <2>1. ASSUME q \o r \in DOMAIN t PROVE r \in R
    <3>1. q \o r \in DOMAIN X
      BY <1>3, <1>4, <2>1
    <3>2. PICK x \in R : q \o r = q \o x
      BY <1>1, <3>1
    <3>3. Beyond(q \o x, q) = x /\ Beyond(q \o r, q) = r
      BY <1>3, <1>5
    <3> QED
      BY <3>2, <3>3
  <2>2. ASSUME r \in R PROVE q \o r \in DOMAIN t
    BY <1>1, <1>4, <2>2
  <2> QED
    BY <2>1, <2>2
<1>7. ASSUME NEW r \in R PROVE MembersOf(t[q \o r]) = type.inner[r]
  <2>1. r \in Seq(M) /\ q \o r \in DOMAIN X /\ Beyond(q \o r, q) = r
    BY <1>1, <1>3, <1>5
  <2>2. t[q \o r] = Stripped(type.inner[r])
    BY <1>1, <1>4, <2>1
  <2> QED
    BY <1>2, <2>2
<1>8. Inner(t, q) = InnerBy(t, q, M)
  BY InnerMeans
<1>9. {x \in Seq(M) : q \o x \in DOMAIN t} = R
  BY <1>5, <1>6
<1>10. InnerBy(t, q, M) = [r \in R |-> type.inner[r]]
  BY <1>7, <1>9 DEF InnerBy
<1>11. Inner(t, q) = type.inner
  BY <1>2, <1>8, <1>10
<1> QED
  BY <1>2, <1>11 DEF TypeOf

(* The field grafted with the members of a type has that type. *)
LEMMA GraftedType ==
    ASSUME NEW s, NEW t, WellFormed(t), NEW g \in DOMAIN t, NEW b, NEW F, NEW type, IsType(type),
           Regrafted(s, g, b, b, F, Planted(Append(g, b), type), t),
           NEW k \in DOMAIN F, F[k].name = b, F[k].kind = type.kind
    PROVE  TypeOf(t, Append(g, b)) = type
<1> DEFINE M == Segments(t) \cup Segments(ColumnOf(type))
           q == Append(g, b)
           X == Planted(q, type)
<1>1. Sound(t, M) /\ Segments(ColumnOf(type)) \subseteq M
  BY WellFormedIsSound, SoundGrows
<1> HIDE DEF M
<1>2. DOMAIN type.inner \subseteq Seq(M)
  BY <1>1, TypeFacts
<1>3. DOMAIN t = Outside(s, q) \cup DOMAIN X /\ t[g] = F /\ \A h \in DOMAIN X : t[h] = X[h]
  BY DEF Regrafted
<1>4. q \in Paths(t) /\ FieldAt(t, q) = F[k]
  BY <1>3, FieldFacts
<1>5. q \in Seq(M) /\ DOMAIN t \subseteq Seq(M)
  <2>1. g \in Seq(M) /\ b \in M
    BY <1>1, <1>3, SoundFields
  <2> QED
    BY <1>1, <2>1, AppendFacts DEF Sound
<1> HIDE DEF q
<1>6. \A h \in DOMAIN t : Under(h, q) => h \in DOMAIN X
  BY <1>3 DEF Outside
<1>7. \A h \in DOMAIN X : h \in DOMAIN t /\ t[h] = X[h]
  BY <1>3
<1>8. TypeOf(t, q) = type
  BY <1>2, <1>4, <1>5, <1>6, <1>7, PlantedType
<1> QED
  BY <1>8 DEF q

(* The field that took what it held along still has its type. *)
LEMMA CarriedType ==
    ASSUME NEW s, NEW t, WellFormed(s), WellFormed(t), NEW g \in DOMAIN s, g \in DOMAIN t, NEW a, NEW b, NEW F,
           Regrafted(s, g, a, b, F, CarriedLevels(s, Append(g, a), Append(g, b)), t),
           NEW i \in DOMAIN s[g], s[g][i].name = a, NEW k \in DOMAIN F, F[k].name = b, F[k].kind = s[g][i].kind,
           \A j \in DOMAIN s[g] : s[g][j].name # b
    PROVE  TypeOf(s, Append(g, a)) = TypeOf(t, Append(g, b))
<1> DEFINE M == Segments(s) \cup Segments(t)
           p == Append(g, a)
           q == Append(g, b)
           X == CarriedLevels(s, p, q)
<1>1. Sound(s, M) /\ Sound(t, M)
  BY WellFormedIsSound, SoundGrows
<1> HIDE DEF M
<1>2. DOMAIN t = Outside(s, p) \cup DOMAIN X /\ t[g] = F /\ \A h \in DOMAIN X : t[h] = X[h]
  BY DEF Regrafted
<1>3. g \in Seq(M) /\ a \in M /\ b \in M
  BY <1>1, <1>2, SoundFields
<1>4. p \in Seq(M) /\ q \in Seq(M) /\ DOMAIN s \subseteq Seq(M) /\ DOMAIN t \subseteq Seq(M)
  BY <1>1, <1>3, AppendFacts DEF Sound
<1>5. \A h \in DOMAIN s : ~Under(h, q)
  BY <1>1, <1>3, NothingThere
<1>6. FieldAt(s, p).kind = FieldAt(t, q).kind
  BY <1>2, FieldFacts
<1> HIDE DEF p, q
<1>7. DOMAIN X = {Carried(l, p, q) : l \in {l \in DOMAIN s : Under(l, p)}} /\ \A h \in DOMAIN X : X[h] = s[Carried(h, q, p)]
  BY DEF CarriedLevels
<1> HIDE DEF X
<1>8. \A r \in Seq(M) : Under(p \o r, p) /\ Beyond(p \o r, p) = r /\ Under(q \o r, q) /\ Beyond(q \o r, q) = r
  BY <1>4, BeyondFacts
<1>9. ASSUME NEW r \in Seq(M), p \o r \in DOMAIN s PROVE q \o r \in DOMAIN t /\ t[q \o r] = s[p \o r]
  <2>1. Carried(p \o r, p, q) = q \o r /\ Carried(q \o r, q, p) = p \o r
    BY <1>8, Zenon DEF Carried
  <2>2. q \o r \in DOMAIN X
    BY <1>7, <1>8, <1>9, <2>1
  <2> QED
    BY <1>2, <1>7, <2>1, <2>2
<1>10. ASSUME NEW r \in Seq(M), q \o r \in DOMAIN t PROVE p \o r \in DOMAIN s
  <2>1. q \o r \in DOMAIN X
    BY <1>2, <1>5, <1>8, <1>10 DEF Outside
  <2>2. PICK l \in DOMAIN s : Under(l, p) /\ q \o r = Carried(l, p, q)
    BY <1>7, <2>1
  <2>3. l \in Seq(M)
    BY <1>4
  <2>4. Beyond(l, p) \in Seq(M) /\ l = p \o Beyond(l, p)
    BY <1>4, <2>2, <2>3, UnderMeans
  <2>5. q \o r = q \o Beyond(l, p)
    BY <2>2 DEF Carried
  <2>6. Beyond(q \o Beyond(l, p), q) = Beyond(l, p) /\ Beyond(q \o r, q) = r
    BY <1>8, <2>4
  <2>7. r = Beyond(l, p)
    BY <2>5, <2>6
  <2> QED
    BY <2>4, <2>7
<1>a. SameInside(s, p, t, q, M)
  BY <1>9, <1>10 DEF SameInside
<1>11. Inner(s, p) = Inner(t, q)
  BY <1>4, <1>a, SameInner
<1>12. TypeOf(s, p) = TypeOf(t, q)
  BY <1>6, <1>11, SameType
<1> QED
  BY <1>12 DEF p, q

(* A field with nothing changed inside of it still has its type. *)
LEMMA KeptType ==
    ASSUME NEW s, NEW t, WellFormed(s), WellFormed(t), NEW g \in DOMAIN s, DOMAIN t = DOMAIN s,
           \A h \in DOMAIN s : h # g => t[h] = s[h], NEW i \in DOMAIN s[g], i \in DOMAIN t[g],
           t[g][i].name = s[g][i].name, t[g][i].kind = s[g][i].kind
    PROVE  TypeOf(s, Append(g, s[g][i].name)) = TypeOf(t, Append(g, s[g][i].name))
<1> DEFINE M == Segments(s)
           p == Append(g, s[g][i].name)
<1>1. Sound(s, M)
  BY WellFormedIsSound
<1> HIDE DEF M
<1>2. g \in Seq(M) /\ s[g][i].name \in M /\ p \in Seq(M) /\ DOMAIN s \subseteq Seq(M)
  BY <1>1, SoundFields, AppendFacts DEF Sound
<1>3. ~Under(g, p)
  BY <1>2, NotInsideItself
<1>4. FieldAt(s, p).kind = FieldAt(t, p).kind
  BY FieldFacts
<1> HIDE DEF p
<1>5. \A r \in Seq(M) : Under(p \o r, p)
  BY <1>2, BeyondFacts
<1>6. \A r \in Seq(M) : p \o r # g
  BY <1>3, <1>5
<1>7. \A r \in Seq(M) : p \o r \in DOMAIN s <=> p \o r \in DOMAIN t
  OBVIOUS
<1>8. \A r \in Seq(M) : p \o r \in DOMAIN s => MembersOf(s[p \o r]) = MembersOf(t[p \o r])
  BY <1>6
<1>a. SameInside(s, p, t, p, M)
  BY <1>7, <1>8 DEF SameInside
<1>9. Inner(s, p) = Inner(t, p)
  BY <1>2, <1>a, SameInner
<1> QED
  BY <1>4, <1>9, SameType DEF p

(* An added field is the addition the diff finds. *)
LEMMA AddFieldDiff ==
    ASSUME NEW s, WellFormed(s), NEW g \in StructLevels(s), NEW i \in 1..(Len(s[g]) + 1),
           NEW name, \A j \in DOMAIN s[g] : s[g][j].name # name,
           NEW type, IsType(type), NEW null \in BOOLEAN,
           NEW id \in Nat \cup {NoId}, id = NoId \/ \A j \in DOMAIN s[g] : s[g][j].id # id,
           NEW t, t = Grown(WithLevel(s, g, InsertAt(s[g], i, Field(name, type.kind, null, id))), Append(g, name), type)
    PROVE  diff_schemas(s, t) = {add_field(Append(g, name), type, null)}
<1> DEFINE e == Field(name, type.kind, null, id)
           F == InsertAt(s[g], i, e)
           X == Planted(Append(g, name), type)
           M == Segments(s) \cup {name} \cup Segments(ColumnOf(type))
<1>1. WellFormed(t) /\ Regrafted(s, g, name, name, F, X, t)
  BY AddFieldFits
<1>2. g \in DOMAIN s
  BY StructLevelFits
<1>3. Sound(s, M) /\ name \in M /\ Segments(ColumnOf(type)) \subseteq M
  BY WellFormedIsSound, SoundGrows
<1> HIDE DEF M
<1>4. s[g] \in Seq(Fields(M)) /\ g \in Seq(M)
  BY <1>2, <1>3 DEF Sound
<1>5. e.name = name /\ e.kind = type.kind /\ e.null = null
  BY DEF Field
<1>6. e \in Fields(M)
  BY <1>3, TypeFacts DEF Fields, Field
<1> HIDE DEF e
<1>7. Inserted(s[g], i, e, F) /\ i \in DOMAIN F
  <2>1. Inserted(s[g], i, e, F)
    BY <1>4, <1>6, InsertAtFacts
  <2>2. Len(s[g]) \in Nat
    BY <1>4, LenProperties
  <2> HIDE DEF F
  <2> QED
    BY <2>1, <2>2 DEF Inserted
<1>8. t[g] = F /\ g \in DOMAIN t
  <2>1. g \in Outside(s, Append(g, name))
    BY <1>2, <1>3, <1>4, NotInsideItself DEF Outside
  <2> QED
    BY <1>1, <2>1 DEF Regrafted
<1> HIDE DEF F, X
<1>9. /\ \A k \in DOMAIN s[g], j \in DOMAIN F : Matches(s, t, g, g, k, j) => F[j] = s[g][k] /\ j # i
      /\ diff_level(s, t, <<g, g>>) = {Arrived(t, g, i)}
  BY <1>1, <1>2, <1>7, <1>8, LevelInserted
<1>10. \A k \in DOMAIN s[g], j \in DOMAIN F :
          Deeper(s, t, g, g, k, j) => s[g][k].name # name /\ F[j].name = s[g][k].name
  BY <1>9 DEF Deeper
<1>11. diff_schemas(s, t) = diff_level(s, t, <<g, g>>)
  BY <1>1, <1>2, <1>3, <1>10, GraftDiff
<1>12. F[i] = e
  BY <1>7 DEF Inserted
<1>13. TypeOf(t, Append(g, name)) = type
  BY <1>1, <1>5, <1>7, <1>8, <1>12, GraftedType DEF X
<1>14. Arrived(t, g, i) = add_field(Append(g, name), type, null)
  BY <1>5, <1>8, <1>12, <1>13 DEF Arrived, PathOf
<1> QED
  BY <1>9, <1>11, <1>14

(* A removed field is the removal it finds: nothing more is said of what   *)
(* the field held.                                                         *)
LEMMA RemoveFieldDiff ==
    ASSUME NEW s, WellFormed(s), NEW g \in StructLevels(s), NEW i \in DOMAIN s[g],
           NEW t, t = Pruned(WithLevel(s, g, RemoveAt(s[g], i)), Append(g, s[g][i].name))
    PROVE  diff_schemas(s, t)
              = {remove_field(Append(g, s[g][i].name), TypeOf(s, Append(g, s[g][i].name)), s[g][i].null)}
<1> DEFINE a == s[g][i].name
           F == RemoveAt(s[g], i)
           M == Segments(s)
<1>1. WellFormed(t) /\ Regrafted(s, g, a, a, F, NoLevels, t)
  BY RemoveFieldFits
<1>2. g \in DOMAIN s
  BY StructLevelFits
<1>3. Sound(s, M)
  BY WellFormedIsSound
<1> HIDE DEF M
<1>4. s[g] \in Seq(Fields(M)) /\ g \in Seq(M) /\ a \in M /\ Siblings(s[g])
  BY <1>2, <1>3, SoundFields DEF Sound
<1>5. F \in Seq(Fields(M)) /\ i \in 1..(Len(F) + 1) /\ Inserted(F, i, s[g][i], s[g])
  BY <1>4, RemovedIsInserted
<1>6. t[g] = F /\ g \in DOMAIN t
  <2>1. g \in Outside(s, Append(g, a))
    BY <1>2, <1>4, NotInsideItself DEF Outside
  <2> QED
    BY <1>1, <2>1 DEF Regrafted
<1> HIDE DEF F
<1>7. /\ \A k \in DOMAIN s[g], j \in DOMAIN F : Matches(s, t, g, g, k, j) => F[j] = s[g][k] /\ k # i
      /\ diff_level(s, t, <<g, g>>) = {Dropped(s, g, i)}
  BY <1>1, <1>2, <1>5, <1>6, LevelLeft
<1>8. \A k \in DOMAIN s[g], j \in DOMAIN F :
          Deeper(s, t, g, g, k, j) => s[g][k].name # a /\ F[j].name = s[g][k].name
  BY <1>4, <1>7 DEF Deeper, Siblings
<1>9. diff_schemas(s, t) = diff_level(s, t, <<g, g>>)
  BY <1>1, <1>2, <1>3, <1>4, <1>8, GraftDiff
<1> QED
  BY <1>7, <1>9 DEF Dropped, PathOf

(* t is s with the field f in place of field i of level g. *)
RevisedAt(s, t, g, i, f) ==
    /\ DOMAIN t = DOMAIN s /\ \A h \in DOMAIN s : h # g => t[h] = s[h]
    /\ t[g] = [s[g] EXCEPT ![i] = f] /\ DOMAIN t[g] = DOMAIN s[g]
    /\ t[g][i] = f /\ \A j \in DOMAIN s[g] : j # i => t[g][j] = s[g][j]

(* The diff says what that field differs in, or that another one came. *)
DiffOfOne(s, t, g, i) ==
    /\ StillMatched(s[g], i, t[g]) => \A m : m \in diff_schemas(s, t) <=> Differs(s, t, g, g, i, i, m)
    /\ ~StillMatched(s[g], i, t[g]) => diff_schemas(s, t) = {Dropped(s, g, i), Arrived(t, g, i)}

(* A field changed under its name: its level is the only one to look at.   *)
LEMMA RevisionDiff ==
    ASSUME NEW s, WellFormed(s), NEW g \in DOMAIN s, NEW i \in DOMAIN s[g], NEW f, f.name = s[g][i].name,
           NEW t, t = WithField(s, g, i, f), WellFormed(t)
    PROVE  RevisedAt(s, t, g, i, f) /\ DiffOfOne(s, t, g, i)
<1>1. DOMAIN t = DOMAIN s /\ (\A h \in DOMAIN s : h # g => t[h] = s[h]) /\ t[g] = [s[g] EXCEPT ![i] = f]
  BY DEF WithField, WithLevel
<1>2. DOMAIN t[g] = DOMAIN s[g] /\ t[g][i] = f /\ \A j \in DOMAIN s[g] : j # i => t[g][j] = s[g][j]
  <2>1. s[g] = [j \in DOMAIN s[g] |-> s[g][j]]
    BY SchemaFacts
  <2> QED
    BY <1>1, <2>1
<1>3. OneOfThem(s, t, g, i)
  <2>1. g \in DOMAIN t /\ DOMAIN t[g] = DOMAIN s[g]
    BY <1>1, <1>2
  <2>2. \A j \in DOMAIN s[g] : j # i => t[g][j] = s[g][j]
    BY <1>2
  <2> QED
    BY <2>1, <2>2, LevelInPlace
<1>4. \A j \in DOMAIN s[g], k \in DOMAIN t[g] : Deeper(s, t, g, g, j, k) => t[g][k].name = s[g][j].name
  BY <1>2, <1>3 DEF Deeper, OneOfThem
<1>5. diff_schemas(s, t) = diff_level(s, t, <<g, g>>)
  BY <1>1, <1>4, ReseatDiff
<1>6. DiffOfOne(s, t, g, i)
  BY <1>3, <1>5 DEF OneOfThem, DiffOfOne
<1> QED
  BY <1>1, <1>2, <1>6 DEF RevisedAt

(* Every sibling has a field id. *)
EachHasId(siblings) == \A j \in DOMAIN siblings : siblings[j].id # NoId

(* A name no sibling has. *)
IsFreshName(siblings, name) == \A j \in DOMAIN siblings : siblings[j].name # name

(* A renamed field is a rename where every sibling has an id, and a field  *)
(* removed and another one added where not.                                *)
LEMMA RenameFieldDiff ==
    ASSUME NEW s, WellFormed(s), NEW g \in StructLevels(s), NEW i \in DOMAIN s[g],
           NEW name, IsFreshName(s[g], name),
           NEW t, t = WithField(Moved(s, Append(g, s[g][i].name), Append(g, name)), g, i, [s[g][i] EXCEPT !.name = name])
    PROVE  LET p == Append(g, s[g][i].name)
               q == Append(g, name)
           IN  /\ EachHasId(s[g]) => diff_schemas(s, t) = {rename_field(p, q, s[g][i].id)}
               /\ ~EachHasId(s[g]) => diff_schemas(s, t) =
                       {remove_field(p, TypeOf(s, p), s[g][i].null), add_field(q, TypeOf(s, p), s[g][i].null)}
<1> DEFINE p == Append(g, s[g][i].name)
           q == Append(g, name)
           a == s[g][i].name
           f == [s[g][i] EXCEPT !.name = name]
           F == [s[g] EXCEPT ![i] = f]
           M == Segments(s) \cup {name}
<1>1. WellFormed(t) /\ Regrafted(s, g, a, name, F, CarriedLevels(s, Append(g, a), Append(g, name)), t)
  BY RenameFieldFits DEF IsFreshName
<1>2. g \in DOMAIN s
  BY StructLevelFits
<1>3. Sound(s, M) /\ name \in M
  BY WellFormedIsSound, SoundGrows
<1> HIDE DEF M
<1>4. s[g] \in Seq(Fields(M)) /\ g \in Seq(M) /\ a \in M /\ Siblings(s[g]) /\ s[g][i] \in Fields(M)
  BY <1>2, <1>3, SoundFields DEF Sound
<1>5. f \in Fields(M) /\ f.name = name /\ f.id = s[g][i].id /\ f.kind = s[g][i].kind /\ f.null = s[g][i].null
  BY <1>3, <1>4 DEF Fields
<1> HIDE DEF f
<1>6. DOMAIN F = DOMAIN s[g] /\ F[i] = f /\ \A j \in DOMAIN s[g] : j # i => F[j] = s[g][j]
  <2> HIDE DEF F
  <2>1. F = [s[g] EXCEPT ![i] = f]
    BY DEF F
  <2> QED
    BY <1>4, <1>5, <2>1, OneChanged
<1> HIDE DEF F
<1>7. t[g] = F /\ g \in DOMAIN t
  <2>1. g \in Outside(s, Append(g, a))
    BY <1>2, <1>4, NotInsideItself DEF Outside
  <2> QED
    BY <1>1, <2>1 DEF Regrafted
<1>8. OneOfThem(s, t, g, i)
  BY <1>1, <1>2, <1>6, <1>7, LevelInPlace
<1>9. \A j \in DOMAIN s[g] : j # i => s[g][j].name # a
  BY <1>4 DEF Siblings
<1>10. OnlyRenamed(s, t, g, a, name)
  <2> SUFFICES ASSUME NEW j \in DOMAIN s[g], NEW k \in DOMAIN F, Deeper(s, t, g, g, j, k)
               PROVE  F[k].name = IF s[g][j].name = a THEN name ELSE s[g][j].name
    BY <1>7 DEF OnlyRenamed
  <2>1. j = k
    BY <1>7, <1>8 DEF OneOfThem, Deeper
  <2> QED
    BY <1>5, <1>6, <1>9, <2>1
<1>11. diff_schemas(s, t) = diff_level(s, t, <<g, g>>)
  BY <1>1, <1>2, <1>3, <1>4, <1>10, CarryDiff
<1>12. TypeOf(s, p) = TypeOf(t, q)
  BY <1>1, <1>2, <1>5, <1>6, <1>7, CarriedType DEF IsFreshName
<1>13. PathOf(s, g, i) = p /\ PathOf(t, g, i) = q
  BY <1>5, <1>6, <1>7 DEF PathOf
<1>14. ASSUME EachHasId(s[g]) PROVE diff_schemas(s, t) = {rename_field(p, q, s[g][i].id)}
  <2>1. StillMatched(s[g], i, t[g])
    <3>1. \A j \in DOMAIN F : F[j].id # NoId
      BY <1>5, <1>6, <1>14 DEF EachHasId
    <3>2. s[g] # <<>> /\ F # <<>>
      BY <1>6
    <3>3. ById(s[g], F)
      BY <1>14, <3>1, <3>2 DEF ById, Range, EachHasId
    <3> QED
      BY <1>5, <1>6, <1>7, <3>3 DEF StillMatched
  <2>2. \A m : m \in diff_schemas(s, t) <=> Differs(s, t, g, g, i, i, m)
    BY <1>8, <1>11, <2>1 DEF OneOfThem
  <2>3. \A m : Differs(s, t, g, g, i, i, m) <=> m = rename_field(p, q, s[g][i].id)
    BY <1>5, <1>6, <1>7, <1>12, <1>13 DEF Differs, IsFreshName
  <2> QED
    BY <2>2, <2>3
<1>15. ASSUME ~EachHasId(s[g])
       PROVE  diff_schemas(s, t) = {remove_field(p, TypeOf(s, p), s[g][i].null), add_field(q, TypeOf(s, p), s[g][i].null)}
  <2>1. ~StillMatched(s[g], i, t[g])
    <3>1. ~ById(s[g], F)
      BY <1>15 DEF ById, Range, EachHasId
    <3> QED
      BY <1>5, <1>6, <1>7, <3>1 DEF StillMatched, IsFreshName
  <2>2. diff_schemas(s, t) = {Dropped(s, g, i), Arrived(t, g, i)}
    BY <1>8, <1>11, <2>1 DEF OneOfThem
  <2>3. Dropped(s, g, i) = remove_field(p, TypeOf(s, p), s[g][i].null)
        /\ Arrived(t, g, i) = add_field(q, TypeOf(s, p), s[g][i].null)
    BY <1>5, <1>6, <1>7, <1>12, <1>13 DEF Dropped, Arrived
  <2> QED
    BY <2>2, <2>3
<1> QED
  BY <1>14, <1>15

(* All they differ in is the type. *)
DiffersInType(s, t, g, i) ==
    \A m : Differs(s, t, g, g, i, i, m)
              <=> m = change_type(PathOf(s, g, i), TypeOf(s, PathOf(s, g, i)), TypeOf(t, PathOf(s, g, i)))

(* Two fields with two kinds have two types. *)
LEMMA OnlyKindDiffers ==
    ASSUME NEW s, NEW t, WellFormed(s), WellFormed(t), NEW g, g \in DOMAIN s, g \in DOMAIN t,
           NEW i, i \in DOMAIN s[g], i \in DOMAIN t[g],
           t[g][i].name = s[g][i].name, t[g][i].null = s[g][i].null, t[g][i].kind # s[g][i].kind
    PROVE  DiffersInType(s, t, g, i)
<1> DEFINE p == PathOf(s, g, i)
<1>1. PathOf(t, g, i) = p
  BY DEF PathOf
<1>2. FieldAt(s, p) = s[g][i] /\ FieldAt(t, p) = t[g][i]
  <2>1. FieldAt(s, Append(g, s[g][i].name)) = s[g][i]
    BY FieldFacts
  <2>2. FieldAt(t, Append(g, t[g][i].name)) = t[g][i]
    BY FieldFacts
  <2> QED
    BY <1>1, <2>1, <2>2 DEF PathOf
<1>3. TypeOf(s, p).kind = s[g][i].kind /\ TypeOf(t, p).kind = t[g][i].kind
  BY <1>2 DEF TypeOf
<1> HIDE DEF p
<1>4. \A m : Differs(s, t, g, g, i, i, m) <=> m = change_type(p, TypeOf(s, p), TypeOf(t, p))
  BY <1>1, <1>3 DEF Differs, Descends, p
<1> QED
  BY <1>4 DEF DiffersInType, p

(* A field of the same name and id is the same field. *)
LEMMA SameTags ==
    ASSUME NEW E, NEW F, NEW i, F[i].name = E[i].name, F[i].id = E[i].id
    PROVE  StillMatched(E, i, F)
BY DEF StillMatched

(* A field id no sibling has. *)
IsFreshId(siblings, id) == id # NoId /\ \A j \in DOMAIN siblings : siblings[j].id # id

(* A field dropped and added again is a removal and an addition: the ids   *)
(* tell.                                                                   *)
LEMMA ReplaceFieldDiff ==
    ASSUME NEW s, WellFormed(s), NEW g \in DOMAIN s, NEW i \in DOMAIN s[g], EachHasId(s[g]),
           NEW id, IsFreshId(s[g], id),
           NEW t, t = WithField(s, g, i, [s[g][i] EXCEPT !.id = id]), WellFormed(t)
    PROVE  LET p == Append(g, s[g][i].name)
           IN  diff_schemas(s, t)
                  = {remove_field(p, TypeOf(s, p), s[g][i].null), add_field(p, TypeOf(s, p), s[g][i].null)}
<1> DEFINE p == Append(g, s[g][i].name)
           f == [s[g][i] EXCEPT !.id = id]
<1>1. s[g][i] \in Fields(Segments(s))
  BY FieldFacts
<1>2. f.name = s[g][i].name /\ f.id = id /\ f.kind = s[g][i].kind /\ f.null = s[g][i].null
  BY <1>1 DEF Fields
<1> HIDE DEF f
<1>3. RevisedAt(s, t, g, i, f) /\ DiffOfOne(s, t, g, i)
  BY <1>2, RevisionDiff DEF f
<1>4. ~StillMatched(s[g], i, t[g])
  <2>1. \A j \in DOMAIN t[g] : t[g][j].id # NoId
    BY <1>2, <1>3 DEF RevisedAt, EachHasId, IsFreshId
  <2>2. s[g] # <<>> /\ t[g] # <<>>
    BY <1>3 DEF RevisedAt
  <2>3. ById(s[g], t[g])
    BY <2>1, <2>2 DEF ById, Range, EachHasId
  <2> QED
    BY <1>2, <1>3, <2>3 DEF StillMatched, RevisedAt, IsFreshId
<1>5. g \in DOMAIN t /\ i \in DOMAIN t[g] /\ t[g][i] = f /\ DOMAIN t = DOMAIN s /\ \A h \in DOMAIN s : h # g => t[h] = s[h]
  BY <1>3 DEF RevisedAt
<1>6. TypeOf(s, p) = TypeOf(t, p)
  BY <1>2, <1>5, KeptType
<1>7. diff_schemas(s, t) = {Dropped(s, g, i), Arrived(t, g, i)}
  BY <1>3, <1>4 DEF DiffOfOne
<1> QED
  BY <1>2, <1>5, <1>6, <1>7 DEF Dropped, Arrived, PathOf

(* A list with wider offsets changed its type and nothing else. *)
LEMMA WidenListDiff ==
    ASSUME NEW s, WellFormed(s), NEW g \in DOMAIN s, NEW i \in DOMAIN s[g], s[g][i].kind = "list",
           NEW t, t = WithField(s, g, i, [s[g][i] EXCEPT !.kind = "large_list"]), WellFormed(t)
    PROVE  LET p == Append(g, s[g][i].name)
           IN  diff_schemas(s, t) = {change_type(p, TypeOf(s, p), TypeOf(t, p))}
<1> DEFINE p == Append(g, s[g][i].name)
           f == [s[g][i] EXCEPT !.kind = "large_list"]
<1>1. s[g][i] \in Fields(Segments(s))
  BY FieldFacts
<1>2. f.name = s[g][i].name /\ f.id = s[g][i].id /\ f.kind = "large_list" /\ f.null = s[g][i].null
  BY <1>1 DEF Fields
<1> HIDE DEF f
<1>3. RevisedAt(s, t, g, i, f) /\ DiffOfOne(s, t, g, i)
  BY <1>2, RevisionDiff DEF f
<1>4. g \in DOMAIN t /\ i \in DOMAIN t[g] /\ t[g][i] = f
  BY <1>3 DEF RevisedAt
<1>5. StillMatched(s[g], i, t[g])
  BY <1>2, <1>4, SameTags
<1>6. \A m : Differs(s, t, g, g, i, i, m) <=> m = change_type(p, TypeOf(s, p), TypeOf(t, p))
  <2>1. t[g][i].name = s[g][i].name /\ t[g][i].null = s[g][i].null /\ t[g][i].kind # s[g][i].kind
    BY <1>2, <1>4
  <2>2. DiffersInType(s, t, g, i)
    BY <1>4, <2>1, OnlyKindDiffers
  <2> QED
    BY <2>2 DEF DiffersInType, PathOf
<1> QED
  BY <1>3, <1>5, <1>6 DEF DiffOfOne

(* A field that may now be null, or may no longer, changed that and        *)
(* nothing else, whatever it holds.                                        *)
LEMMA ChangeNullabilityDiff ==
    ASSUME NEW s, WellFormed(s), NEW g \in DOMAIN s, NEW i \in DOMAIN s[g],
           NEW t, t = WithField(s, g, i, [s[g][i] EXCEPT !.null = ~s[g][i].null]), WellFormed(t)
    PROVE  LET p == Append(g, s[g][i].name)
           IN  diff_schemas(s, t) = {change_nullability(p, s[g][i].null, ~s[g][i].null)}
<1> DEFINE p == Append(g, s[g][i].name)
           f == [s[g][i] EXCEPT !.null = ~s[g][i].null]
<1>1. s[g][i] \in Fields(Segments(s)) /\ s[g][i].null \in BOOLEAN
  BY FieldFacts DEF Fields
<1>2. f.name = s[g][i].name /\ f.id = s[g][i].id /\ f.kind = s[g][i].kind /\ f.null = ~s[g][i].null
  BY <1>1 DEF Fields
<1> HIDE DEF f
<1>3. RevisedAt(s, t, g, i, f) /\ DiffOfOne(s, t, g, i)
  BY <1>2, RevisionDiff DEF f
<1>4. g \in DOMAIN t /\ i \in DOMAIN t[g] /\ t[g][i] = f /\ DOMAIN t = DOMAIN s /\ \A h \in DOMAIN s : h # g => t[h] = s[h]
  BY <1>3 DEF RevisedAt
<1>5. StillMatched(s[g], i, t[g])
  BY <1>2, <1>4, SameTags
<1>6. TypeOf(s, p) = TypeOf(t, p)
  BY <1>2, <1>4, KeptType
<1>7. PathOf(s, g, i) = p /\ PathOf(t, g, i) = p
  BY <1>2, <1>4 DEF PathOf
<1>8. s[g][i].null # t[g][i].null
  BY <1>1, <1>2, <1>4
<1>9. \A m : Differs(s, t, g, g, i, i, m) <=> m = change_nullability(p, s[g][i].null, t[g][i].null)
  BY <1>2, <1>4, <1>6, <1>7, <1>8 DEF Differs
<1>10. diff_schemas(s, t) = {change_nullability(p, s[g][i].null, t[g][i].null)}
  BY <1>3, <1>5, <1>9 DEF DiffOfOne
<1> QED
  BY <1>2, <1>4, <1>10

(* Two fields that changed places are the reordering of their level. *)
LEMMA MoveFieldDiff ==
    ASSUME NEW s, WellFormed(s), NEW g \in StructLevels(s), NEW i \in DOMAIN s[g], NEW j \in DOMAIN s[g], i < j,
           NEW t, t = WithLevel(s, g, Swapped(s[g], i, j)), WellFormed(t)
    PROVE  diff_schemas(s, t) = {reorder_fields(g, NamesOf(s[g]), NamesOf(Swapped(s[g], i, j)))}
<1>1. g \in DOMAIN s
  BY StructLevelFits
<1>2. DOMAIN t = DOMAIN s /\ t[g] = Swapped(s[g], i, j) /\ \A h \in DOMAIN s : h # g => t[h] = s[h]
  BY <1>1 DEF WithLevel
<1>3. /\ \A k \in DOMAIN s[g], l \in DOMAIN t[g] : Matches(s, t, g, g, k, l) => t[g][l] = s[g][k]
      /\ diff_level(s, t, <<g, g>>) = {reorder_fields(g, NamesOf(s[g]), NamesOf(t[g]))}
  BY <1>1, <1>2, LevelSwapped
<1>4. \A k \in DOMAIN s[g], l \in DOMAIN t[g] : Deeper(s, t, g, g, k, l) => t[g][l].name = s[g][k].name
  BY <1>3 DEF Deeper
<1>5. diff_schemas(s, t) = diff_level(s, t, <<g, g>>)
  BY <1>1, <1>2, <1>4, ReseatDiff
<1> QED
  BY <1>2, <1>3, <1>5

(* A retyped field is one change of type, whatever it held and holds. *)
LEMMA RetypeFieldDiff ==
    ASSUME NEW s, WellFormed(s), NEW g \in DOMAIN s, NEW i \in DOMAIN s[g], NEW type, IsType(type),
           type.kind # s[g][i].kind,
           NEW t, t = Grown(Pruned(WithField(s, g, i, [s[g][i] EXCEPT !.kind = type.kind]), Append(g, s[g][i].name)), Append(g, s[g][i].name), type)
    PROVE  LET p == Append(g, s[g][i].name)
           IN  diff_schemas(s, t) = {change_type(p, TypeOf(s, p), type)}
<1> DEFINE p == Append(g, s[g][i].name)
           a == s[g][i].name
           f == [s[g][i] EXCEPT !.kind = type.kind]
           F == [s[g] EXCEPT ![i] = f]
           M == Segments(s)
<1>1. WellFormed(t) /\ Regrafted(s, g, a, a, F, Planted(Append(g, a), type), t)
  BY RetypeFieldFits
<1>2. Sound(s, M)
  BY WellFormedIsSound
<1> HIDE DEF M
<1>3. s[g] \in Seq(Fields(M)) /\ g \in Seq(M) /\ a \in M /\ s[g][i] \in Fields(M)
  BY <1>2, SoundFields DEF Sound
<1>4. f.name = a /\ f.id = s[g][i].id /\ f.kind = type.kind /\ f.null = s[g][i].null
  BY <1>3 DEF Fields
<1> HIDE DEF f
<1>5. DOMAIN F = DOMAIN s[g] /\ F[i] = f /\ \A j \in DOMAIN s[g] : j # i => F[j] = s[g][j]
  <2>1. s[g] = [j \in DOMAIN s[g] |-> s[g][j]]
    BY <1>3
  <2> QED
    BY <2>1
<1> HIDE DEF F
<1>6. t[g] = F /\ g \in DOMAIN t
  <2>1. g \in Outside(s, Append(g, a))
    BY <1>3, NotInsideItself DEF Outside
  <2> QED
    BY <1>1, <2>1 DEF Regrafted
<1>7. OneOfThem(s, t, g, i)
  BY <1>1, <1>5, <1>6, LevelInPlace
<1>8. ASSUME NEW j \in DOMAIN s[g], NEW k \in DOMAIN F, Deeper(s, t, g, g, j, k)
      PROVE  s[g][j].name # a /\ F[k].name = s[g][j].name
  <2>1. j = k
    BY <1>6, <1>7, <1>8 DEF OneOfThem, Deeper
  <2>2. j # i
    <3> SUFFICES ASSUME j = i PROVE FALSE
      OBVIOUS
    <3>1. s[g][i].kind = F[i].kind
      BY <1>6, <1>8, <2>1 DEF Deeper, Descends
    <3> QED
      BY <1>4, <1>5, <3>1
  <2>3. F[k] = s[g][j]
    BY <1>5, <2>1, <2>2
  <2>4. Siblings(s[g])
    BY SchemaFacts
  <2> QED
    BY <2>2, <2>3, <2>4 DEF Siblings
<1>9. diff_schemas(s, t) = diff_level(s, t, <<g, g>>)
  BY <1>1, <1>2, <1>3, <1>8, GraftDiff
<1>10. StillMatched(s[g], i, t[g])
  BY <1>4, <1>5, <1>6, SameTags
<1>11. TypeOf(t, p) = type
  BY <1>1, <1>4, <1>5, <1>6, GraftedType
<1>12. \A m : Differs(s, t, g, g, i, i, m) <=> m = change_type(p, TypeOf(s, p), type)
  <2>1. t[g][i].name = s[g][i].name /\ t[g][i].null = s[g][i].null /\ t[g][i].kind # s[g][i].kind /\ i \in DOMAIN t[g]
    BY <1>4, <1>5, <1>6
  <2>2. DiffersInType(s, t, g, i)
    BY <1>1, <1>6, <2>1, OnlyKindDiffers
  <2> QED
    BY <1>11, <2>2 DEF DiffersInType, PathOf
<1>13. \A m : m \in diff_schemas(s, t) <=> m = change_type(p, TypeOf(s, p), type)
  BY <1>7, <1>9, <1>10, <1>12 DEF OneOfThem
<1> QED
  BY <1>13

(* The transition made so far: with no edits there is nothing to declare,  *)
(* and with one the diff is what was declared.                             *)
DeclaredSoFar ==
    /\ TypeOK
    /\ edits = 0 => from = to /\ declared = {}
    /\ edits <= 1 => diff_schemas(from, to) = declared

(* The transitions authors start from, those of the corpus, declare what   *)
(* the diff finds: a fact of the corpus and not of the code, which the run *)
(* of the corpus checks of its initial states.                             *)
GivenDeclarationsHold ==
    \A a \in Authors : \A t \in a.first : diff_schemas(t.from, t.to) = t.mutations

(* One edit of the version there was is declared as the diff finds it. *)
LEMMA EditDeclared ==
    ASSUME DeclaredSoFar, NEW schema, NEW mutations, Edit(schema, mutations),
           diff_schemas(to, schema) = mutations, TypeOK'
    PROVE  DeclaredSoFar'
<1>1. /\ to' = schema /\ declared' = declared \cup mutations /\ edits' = edits + 1 /\ from' = from
  BY DEF Edit
<1>2. edits \in Nat
  BY AuthorsAssumption DEF DeclaredSoFar, TypeOK
<1>3. edits' # 0 /\ (edits' <= 1 => edits = 0)
  BY <1>1, <1>2
<1>4. ASSUME edits = 0 PROVE diff_schemas(from', to') = declared'
  <2>1. from = to /\ declared = {}
    BY <1>4 DEF DeclaredSoFar
  <2>2. declared' = mutations /\ from' = to /\ to' = schema
    BY <1>1, <2>1
  <2> QED
    BY <2>2
<1> QED
  BY <1>3, <1>4 DEF DeclaredSoFar

(* Each edit, by what the diff says of it. *)
LEMMA AddFieldDeclared ==
    ASSUME DeclaredSoFar, NEW g \in StructLevels(to), NEW i \in 1..(Len(to[g]) + 1), NEW name,
           NEW type \in author.types, NEW null \in BOOLEAN, NEW id, AddField(g, i, name, type, null, id)
    PROVE  DeclaredSoFar'
<1> DEFINE schema == Grown(WithLevel(to, g, InsertAt(to[g], i, Field(name, type.kind, null, id))), Append(g, name), type)
           mutations == {add_field(Append(g, name), type, null)}
<1>1. TypeOK
  BY DEF DeclaredSoFar
<1>2. WellFormed(to) /\ g \in DOMAIN to /\ IsType(type)
  BY <1>1, StructLevelFits, AuthorsAssumption DEF TypeOK
<1>3. name \in UnusedNames(g) /\ id \in NewIds(g)
  BY DEF AddField
<1>4. id \in Nat \cup {NoId} /\ (id = NoId \/ \A j \in DOMAIN to[g] : to[g][j].id # id)
  BY <1>1, <1>2, <1>3, NewId
<1>5. \A j \in DOMAIN to[g] : to[g][j].name # name
  BY <1>3, UnusedName
<1>6. diff_schemas(to, schema) = mutations
  <2> HIDE DEF schema
  <2>1. schema = Grown(WithLevel(to, g, InsertAt(to[g], i, Field(name, type.kind, null, id))), Append(g, name), type)
    BY DEF schema
  <2> QED
    BY <1>2, <1>4, <1>5, <2>1, AddFieldDiff
<1>7. Edit(schema, mutations)
  BY DEF AddField
<1>8. TypeOK'
  BY <1>1, AddFieldTyped
<1> HIDE DEF schema, mutations
<1> QED
  BY <1>6, <1>7, <1>8, EditDeclared

(* RemoveField: one removal. *)
LEMMA RemoveFieldDeclared ==
    ASSUME DeclaredSoFar, NEW g \in StructLevels(to), NEW i \in DOMAIN to[g], RemoveField(g, i)
    PROVE  DeclaredSoFar'
<1> DEFINE p == Append(g, to[g][i].name)
           schema == Pruned(WithLevel(to, g, RemoveAt(to[g], i)), p)
           mutations == {remove_field(p, TypeOf(to, p), to[g][i].null)}
<1>1. TypeOK /\ WellFormed(to)
  BY DEF DeclaredSoFar, TypeOK
<1>2. diff_schemas(to, schema) = mutations
  BY <1>1, RemoveFieldDiff
<1>3. Edit(schema, mutations)
  BY DEF RemoveField
<1>4. TypeOK'
  BY <1>1, RemoveFieldTyped
<1> HIDE DEF schema, mutations
<1> QED
  BY <1>2, <1>3, <1>4, EditDeclared

(* RenameField: a rename, or a removal and an addition. *)
LEMMA RenameFieldDeclared ==
    ASSUME DeclaredSoFar, NEW g \in StructLevels(to), NEW i \in DOMAIN to[g], NEW name, RenameField(g, i, name)
    PROVE  DeclaredSoFar'
<1> DEFINE f == to[g][i]
           p == Append(g, f.name)
           q == Append(g, name)
           schema == WithField(Moved(to, p, q), g, i, [f EXCEPT !.name = name])
           mutations == IF Identified(g) THEN {rename_field(p, q, f.id)}
                        ELSE {remove_field(p, TypeOf(to, p), f.null), add_field(q, TypeOf(to, p), f.null)}
<1>1. TypeOK /\ WellFormed(to)
  BY DEF DeclaredSoFar, TypeOK
<1>2. IsFreshName(to[g], name)
  BY UnusedName DEF RenameField, IsFreshName
<1>3. diff_schemas(to, schema) = mutations
  <2> HIDE DEF schema
  <2>1. schema = WithField(Moved(to, p, q), g, i, [to[g][i] EXCEPT !.name = name]) /\ p = Append(g, to[g][i].name)
        /\ q = Append(g, name)
    BY DEF schema
  <2>2. Identified(g) <=> EachHasId(to[g])
    BY DEF Identified, EachHasId
  <2>3. /\ EachHasId(to[g]) => diff_schemas(to, schema) = {rename_field(p, q, to[g][i].id)}
        /\ ~EachHasId(to[g]) => diff_schemas(to, schema) =
                {remove_field(p, TypeOf(to, p), to[g][i].null), add_field(q, TypeOf(to, p), to[g][i].null)}
    BY <1>1, <1>2, <2>1, RenameFieldDiff
  <2> QED
    BY <2>2, <2>3
<1>4. Edit(schema, mutations)
  BY DEF RenameField
<1>5. TypeOK'
  BY <1>1, RenameFieldTyped
<1> HIDE DEF schema, mutations
<1> QED
  BY <1>3, <1>4, <1>5, EditDeclared

(* ReplaceField: a removal and an addition under one name. *)
LEMMA ReplaceFieldDeclared ==
    ASSUME DeclaredSoFar, NEW g \in StructLevels(to), NEW i \in DOMAIN to[g], NEW id, ReplaceField(g, i, id)
    PROVE  DeclaredSoFar'
<1> DEFINE p == Append(g, to[g][i].name)
           schema == WithField(to, g, i, [to[g][i] EXCEPT !.id = id])
           mutations == {remove_field(p, TypeOf(to, p), to[g][i].null), add_field(p, TypeOf(to, p), to[g][i].null)}
<1>1. TypeOK /\ WellFormed(to) /\ g \in DOMAIN to
  BY StructLevelFits DEF DeclaredSoFar, TypeOK
<1>2. Identified(g) /\ id \in NewIds(g) /\ id # NoId
  BY DEF ReplaceField
<1>3. IsFreshId(to[g], id)
  BY <1>1, <1>2, NewId DEF IsFreshId
<1>4. Edit(schema, mutations)
  BY DEF ReplaceField
<1>5. TypeOK'
  BY <1>1, ReplaceFieldTyped
<1>6. WellFormed(schema)
  BY <1>4, <1>5 DEF Edit, TypeOK
<1>7. diff_schemas(to, schema) = mutations
  <2> HIDE DEF schema
  <2>1. schema = WithField(to, g, i, [to[g][i] EXCEPT !.id = id]) /\ p = Append(g, to[g][i].name)
    BY DEF schema
  <2>2. EachHasId(to[g])
    BY <1>2 DEF Identified, EachHasId
  <2> QED
    BY <1>1, <1>2, <1>3, <1>6, <2>1, <2>2, ReplaceFieldDiff
<1> HIDE DEF schema, mutations
<1> QED
  BY <1>4, <1>5, <1>7, EditDeclared

(* MoveField: a reordering of its level. *)
LEMMA MoveFieldDeclared ==
    ASSUME DeclaredSoFar, NEW g \in StructLevels(to), NEW i \in DOMAIN to[g], NEW j \in DOMAIN to[g], MoveField(g, i, j)
    PROVE  DeclaredSoFar'
<1> DEFINE schema == WithLevel(to, g, Swapped(to[g], i, j))
           mutations == {reorder_fields(g, NamesOf(to[g]), NamesOf(Swapped(to[g], i, j)))}
<1>1. TypeOK /\ WellFormed(to)
  BY DEF DeclaredSoFar, TypeOK
<1>2. Edit(schema, mutations) /\ i < j
  BY DEF MoveField
<1>3. TypeOK'
  BY <1>1, MoveFieldTyped
<1>4. WellFormed(schema)
  BY <1>2, <1>3 DEF Edit, TypeOK
<1>5. diff_schemas(to, schema) = mutations
  BY <1>1, <1>2, <1>4, MoveFieldDiff
<1> HIDE DEF schema, mutations
<1> QED
  BY <1>2, <1>3, <1>5, EditDeclared

(* RetypeField: a change of type, which stands for all the members. *)
LEMMA RetypeFieldDeclared ==
    ASSUME DeclaredSoFar, NEW g \in DOMAIN to, NEW i \in DOMAIN to[g], NEW type \in author.types, RetypeField(g, i, type)
    PROVE  DeclaredSoFar'
<1> DEFINE p == Append(g, to[g][i].name)
           schema == Grown(Pruned(WithField(to, g, i, [to[g][i] EXCEPT !.kind = type.kind]), p), p, type)
           mutations == {change_type(p, TypeOf(to, p), type)}
<1>1. TypeOK /\ WellFormed(to) /\ IsType(type)
  BY AuthorsAssumption DEF DeclaredSoFar, TypeOK
<1>2. Edit(schema, mutations) /\ type.kind # to[g][i].kind
  BY DEF RetypeField
<1>3. TypeOK'
  BY <1>1, RetypeFieldTyped
<1>4. diff_schemas(to, schema) = mutations
  <2> HIDE DEF schema
  <2>1. schema = Grown(Pruned(WithField(to, g, i, [to[g][i] EXCEPT !.kind = type.kind]), p), p, type)
        /\ p = Append(g, to[g][i].name)
    BY DEF schema
  <2> QED
    BY <1>1, <1>2, <2>1, RetypeFieldDiff
<1> HIDE DEF schema, mutations
<1> QED
  BY <1>2, <1>3, <1>4, EditDeclared

(* WidenList: a change of type. *)
LEMMA WidenListDeclared ==
    ASSUME DeclaredSoFar, NEW g \in DOMAIN to, NEW i \in DOMAIN to[g], WidenList(g, i)
    PROVE  DeclaredSoFar'
<1> DEFINE p == Append(g, to[g][i].name)
           schema == [to EXCEPT ![g][i].kind = "large_list"]
           mutations == {change_type(p, TypeOf(to, p), TypeOf(schema, p))}
<1>1. TypeOK /\ WellFormed(to)
  BY DEF DeclaredSoFar, TypeOK
<1>2. Edit(schema, mutations) /\ to[g][i].kind = "list"
  BY DEF WidenList
<1>3. TypeOK'
  BY <1>1, WidenListTyped
<1>4. WellFormed(schema)
  BY <1>2, <1>3 DEF Edit, TypeOK
<1>5. schema = WithField(to, g, i, [to[g][i] EXCEPT !.kind = "large_list"])
  BY DEF WithField, WithLevel
<1>6. diff_schemas(to, schema) = mutations
  <2> HIDE DEF schema
  <2>1. p = Append(g, to[g][i].name)
    BY DEF p
  <2> QED
    BY <1>1, <1>2, <1>4, <1>5, <2>1, WidenListDiff
<1> HIDE DEF schema, mutations
<1> QED
  BY <1>2, <1>3, <1>6, EditDeclared

(* ChangeNullability: that and nothing else. *)
LEMMA ChangeNullabilityDeclared ==
    ASSUME DeclaredSoFar, NEW g \in DOMAIN to, NEW i \in DOMAIN to[g], ChangeNullability(g, i)
    PROVE  DeclaredSoFar'
<1> DEFINE p == Append(g, to[g][i].name)
           schema == WithField(to, g, i, [to[g][i] EXCEPT !.null = ~to[g][i].null])
           mutations == {change_nullability(p, to[g][i].null, ~to[g][i].null)}
<1>1. TypeOK /\ WellFormed(to)
  BY DEF DeclaredSoFar, TypeOK
<1>2. Edit(schema, mutations)
  BY DEF ChangeNullability
<1>3. TypeOK'
  BY <1>1, ChangeNullabilityTyped
<1>4. WellFormed(schema)
  BY <1>2, <1>3 DEF Edit, TypeOK
<1>5. diff_schemas(to, schema) = mutations
  <2> HIDE DEF schema
  <2>1. schema = WithField(to, g, i, [to[g][i] EXCEPT !.null = ~to[g][i].null]) /\ p = Append(g, to[g][i].name)
    BY DEF schema
  <2> QED
    BY <1>1, <1>4, <2>1, ChangeNullabilityDiff
<1> HIDE DEF schema, mutations
<1> QED
  BY <1>2, <1>3, <1>5, EditDeclared

(* What an author starts from is declared. *)
LEMMA InitDeclared ==
    ASSUME GivenDeclarationsHold, Init
    PROVE  DeclaredSoFar
<1>1. TypeOK
  BY InitTyped
<1>2. author \in Authors /\ edits = IF from = to THEN 0 ELSE 1
  BY DEF Init
<1>3. PICK t \in author.first : from = t.from /\ to = t.to /\ declared = t.mutations
  BY DEF Init
<1>4. diff_schemas(from, to) = declared
  BY <1>2, <1>3 DEF GivenDeclarationsHold
<1>5. edits = 0 => from = to
  BY <1>2
<1>6. from = to => declared = {}
  BY <1>1, <1>4, SameSchemaMeansEmptyDiff DEF TypeOK
<1> QED
  BY <1>1, <1>4, <1>5, <1>6 DEF DeclaredSoFar

(* And every edit keeps it so. *)
LEMMA NextDeclared == DeclaredSoFar /\ [Next]_vars => DeclaredSoFar'
<1> SUFFICES ASSUME DeclaredSoFar, [Next]_vars PROVE DeclaredSoFar'
  OBVIOUS
<1>1. CASE UNCHANGED vars
  BY <1>1 DEF vars, DeclaredSoFar, TypeOK
<1>2. ASSUME NEW g \in StructLevels(to), NEW i \in 1..(Len(to[g]) + 1), NEW name \in author.names,
             NEW type \in author.types, NEW null \in BOOLEAN, NEW id \in author.ids \cup {NoId},
             AddField(g, i, name, type, null, id)
      PROVE  DeclaredSoFar'
  BY <1>2, AddFieldDeclared
<1>3. ASSUME NEW g \in StructLevels(to), NEW i \in DOMAIN to[g], RemoveField(g, i) PROVE DeclaredSoFar'
  BY <1>3, RemoveFieldDeclared
<1>4. ASSUME NEW g \in StructLevels(to), NEW i \in DOMAIN to[g], NEW name \in author.names, RenameField(g, i, name)
      PROVE  DeclaredSoFar'
  BY <1>4, RenameFieldDeclared
<1>5. ASSUME NEW g \in StructLevels(to), NEW i \in DOMAIN to[g], NEW id \in author.ids, ReplaceField(g, i, id)
      PROVE  DeclaredSoFar'
  BY <1>5, ReplaceFieldDeclared
<1>6. ASSUME NEW g \in StructLevels(to), NEW i \in DOMAIN to[g], NEW j \in DOMAIN to[g], MoveField(g, i, j)
      PROVE  DeclaredSoFar'
  BY <1>6, MoveFieldDeclared
<1>7. ASSUME NEW g \in DOMAIN to, NEW i \in DOMAIN to[g], NEW type \in author.types, RetypeField(g, i, type)
      PROVE  DeclaredSoFar'
  BY <1>7, RetypeFieldDeclared
<1>8. ASSUME NEW g \in DOMAIN to, NEW i \in DOMAIN to[g], WidenList(g, i) PROVE DeclaredSoFar'
  BY <1>8, WidenListDeclared
<1>9. ASSUME NEW g \in DOMAIN to, NEW i \in DOMAIN to[g], ChangeNullability(g, i) PROVE DeclaredSoFar'
  BY <1>9, ChangeNullabilityDeclared
<1> QED
  BY <1>1, <1>2, <1>3, <1>4, <1>5, <1>6, <1>7, <1>8, <1>9 DEF Next

(* A version made by one edit, of any kind and anywhere in any schema,     *)
(* declares exactly what diff_schemas finds, so that check_transitions     *)
(* accepts the transition.                                                 *)
THEOREM EveryEditIsItsDeclaration ==
    ASSUME GivenDeclarationsHold
    PROVE  Spec => []OneEditIsItsDeclaration
<1>1. Init => DeclaredSoFar
  BY InitDeclared
<1>2. DeclaredSoFar => OneEditIsItsDeclaration
  BY DEF DeclaredSoFar, OneEditIsItsDeclaration, Observed
<1> QED
  BY <1>1, <1>2, NextDeclared, PTL DEF Spec
=============================================================================
