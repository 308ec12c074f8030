----------------------------- MODULE DiffProofs ------------------------------
(***************************************************************************)
(* What the diff does, for any two well-formed schemas: the levels         *)
(* _diff_level is called for, the fields it pairs, the mutations of each   *)
(* kind, where observe_transition finds an old field again, and what an    *)
(* empty diff and a diff read backwards mean.                              *)
(***************************************************************************)
EXTENDS Diff, Lemmas, SequenceTheorems

-----------------------------------------------------------------------------
(***************************************************************************)
(* Paths                                                                   *)
(***************************************************************************)

(* A path inside another one is that one and the rest. *)
LEMMA UnderMeans ==
    ASSUME NEW N, NEW p \in Seq(N), NEW q \in Seq(N), Under(p, q)
    PROVE  Beyond(p, q) \in Seq(N) /\ p = q \o Beyond(p, q)
<1>1. Len(q) <= Len(p) /\ SubSeq(q, 1, Len(q)) = SubSeq(p, 1, Len(q)) /\ Len(p) \in Nat /\ Len(q) \in Nat
  BY LenProperties DEF Under, IsPrefix
<1>2. SubSeq(p, 1, Len(q)) = q
  BY <1>1, SubSeqFull
<1>3. Beyond(p, q) \in Seq(N)
  <2>1. Len(q) + 1 \in Int /\ Len(p) \in Int /\ \A i \in (Len(q) + 1)..Len(p) : p[i] \in N
    BY <1>1, ElementOfSeq
  <2> QED
    BY <2>1, SubSeqProperties DEF Beyond
<1>4. SubSeq(p, 1, Len(q)) \o SubSeq(p, Len(q) + 1, Len(p)) = SubSeq(p, 1, Len(p))
  <2>1. 1 \in 1..(Len(p) + 1) /\ Len(q) \in (1 - 1)..Len(p) /\ Len(p) \in Len(q)..Len(p)
    BY <1>1
  <2> QED
    BY <2>1, ConcatAdjacentSubSeq
<1>5. SubSeq(p, 1, Len(p)) = p
  BY SubSeqFull
<1> QED
  BY <1>2, <1>3, <1>4, <1>5 DEF Beyond

(* What is left of a joined path beyond its first part is its second part. *)
LEMMA BeyondFacts ==
    ASSUME NEW N, NEW q \in Seq(N), NEW r \in Seq(N)
    PROVE  Under(q \o r, q) /\ Beyond(q \o r, q) = r
<1>1. /\ q \o r \in Seq(N) /\ Len(q \o r) = Len(q) + Len(r) /\ Len(q) \in Nat /\ Len(r) \in Nat
      /\ \A i \in 1..(Len(q) + Len(r)) : (q \o r)[i] = IF i <= Len(q) THEN q[i] ELSE r[i - Len(q)]
  BY ConcatProperties, LenProperties
<1>2. SubSeq(q, 1, Len(q)) = SubSeq(q \o r, 1, Len(q))
  <2>1. CASE Len(q) = 0
    BY <1>1, <2>1, SubSeqEmpty
  <2>2. CASE Len(q) # 0
    <3>1. 1 \in 1..Len(q) /\ Len(q) \in 1..Len(q)
      BY <1>1, <2>2
    <3> QED
      BY <3>1, SubSeqOfConcat1
  <2> QED
    BY <2>1, <2>2
<1>3. Under(q \o r, q)
  BY <1>1, <1>2 DEF Under, IsPrefix
<1>4. Beyond(q \o r, q) \in Seq(N) /\ q \o r = q \o Beyond(q \o r, q)
  BY <1>1, <1>3, UnderMeans
<1>5. Beyond(q \o r, q) = r
  BY <1>4, ConcatSimplifications
<1> QED
  BY <1>3, <1>5

(* The last segment of a path, and what is in front of it. *)
LEMMA AppendFacts ==
    ASSUME NEW N, NEW g \in Seq(N), NEW a \in N
    PROVE  /\ Append(g, a) \in Seq(N) /\ Append(g, a) # <<>> /\ Len(Append(g, a)) = Len(g) + 1
           /\ Front(Append(g, a)) = g /\ Last(Append(g, a)) = a
           /\ Append(g, a) = g \o <<a>> /\ <<a>> \in Seq(N)
<1>1. /\ Append(g, a) \in Seq(N) /\ Append(g, a) # <<>> /\ Len(Append(g, a)) = Len(g) + 1
      /\ Append(g, a)[Len(g) + 1] = a /\ Append(g, a) = g \o <<a>> /\ <<a>> \in Seq(N) /\ Len(g) \in Nat
      /\ Len(g) + 1 - 1 = Len(g)
  BY AppendProperties, AppendIsConcat, LenProperties
<1>2. Under(Append(g, a), g)
  BY <1>1, BeyondFacts
<1>3. SubSeq(Append(g, a), 1, Len(g)) = g
  BY <1>2, SubSeqFull DEF Under, IsPrefix
<1> QED
  BY <1>1, <1>3 DEF Front, Last

(* A path that is not the top level is the level in front of it and one    *)
(* more segment.                                                           *)
LEMMA FrontLast ==
    ASSUME NEW N, NEW p \in Seq(N), p # <<>>
    PROVE  Front(p) \in Seq(N) /\ Last(p) \in N /\ p = Append(Front(p), Last(p)) /\ Len(p) = Len(Front(p)) + 1
<1>1. PICK g \in Seq(N), a \in N : p = Append(g, a)
  BY SequenceEmptyOrAppend
<1>2. Front(p) = g /\ Last(p) = a /\ Len(p) = Len(g) + 1
  BY <1>1, AppendFacts
<1> QED
  BY <1>1, <1>2

(* Paths can be joined in any order. *)
JoinsInAnyOrder(N) == \A t, u, v \in Seq(N) : (t \o u) \o v = t \o (u \o v)

(* Joining is associative. *)
LEMMA JoinInAnyOrder ==
    ASSUME NEW N
    PROVE  JoinsInAnyOrder(N)
BY ConcatAssociative DEF JoinsInAnyOrder

(* How paths lie inside one another. *)
LEMMA UnderFacts ==
    ASSUME NEW N, NEW p \in Seq(N), NEW q \in Seq(N)
    PROVE  /\ Under(p, p) /\ Under(p, <<>>)
           /\ Under(p, q) => Len(q) <= Len(p) /\ (Len(q) = Len(p) => p = q)
           /\ \A r \in Seq(N) : Under(p, q) /\ Under(q, r) => Under(p, r)
           /\ \A r \in Seq(N) : Under(p, q) /\ Under(p, r) => Under(q, r) \/ Under(r, q)
           /\ \A a \in N : Under(Append(p, a), q) <=> q = Append(p, a) \/ Under(p, q)
           /\ \A r \in Seq(N) : Under(q \o r, q)
<1>0. /\ Len(p) \in Nat /\ Len(q) \in Nat /\ <<>> \in Seq(N)
      /\ \A s \in Seq(N) : SubSeq(s, 1, Len(s)) = s /\ Len(s) \in Nat
  BY LenProperties, SubSeqFull
<1>a. \A s, t \in Seq(N) : Under(s, t) => \E r \in Seq(N) : s = t \o r
  BY UnderMeans
<1>b. \A t, r \in Seq(N) : Under(t \o r, t) /\ t \o r \in Seq(N) /\ Len(t \o r) = Len(t) + Len(r)
  BY BeyondFacts, ConcatProperties
<1>c. JoinsInAnyOrder(N)
  BY JoinInAnyOrder
<1>1. Under(p, p) /\ Under(p, <<>>)
  <2>1. p \o <<>> = p /\ <<>> \o p = p
    BY ConcatEmptySeq
  <2> QED
    BY <1>0, <1>b, <2>1
<1>2. Under(p, q) => Len(q) <= Len(p) /\ (Len(q) = Len(p) => p = q)
  BY <1>0 DEF Under, IsPrefix
<1>3. ASSUME NEW s \in Seq(N), NEW t \in Seq(N), NEW r \in Seq(N), Under(s, t), Under(t, r)
      PROVE  Under(s, r)
  <2>1. PICK u \in Seq(N) : s = t \o u
    BY <1>3, <1>a
  <2>2. PICK v \in Seq(N) : t = r \o v
    BY <1>3, <1>a
  <2>3. (r \o v) \o u = r \o (v \o u)
    BY <1>c, ZenonT(60) DEF JoinsInAnyOrder
  <2>4. v \o u \in Seq(N)
    BY <1>b
  <2>5. Under(r \o (v \o u), r)
    BY <1>b, <2>4
  <2> QED
    BY <2>1, <2>2, <2>3, <2>5
<1>4. ASSUME NEW r \in Seq(N), Under(p, q), Under(p, r), Len(r) <= Len(q)
      PROVE  Under(q, r)
  <2>1. /\ q = SubSeq(p, 1, Len(q)) /\ r = SubSeq(p, 1, Len(r)) /\ Len(q) <= Len(p) /\ Len(r) <= Len(p)
        /\ Len(r) \in Nat
    BY <1>0, <1>4 DEF Under, IsPrefix
  <2>2. PICK u \in Seq(N) : p = q \o u
    BY <1>4, <1>a
  <2>3. CASE Len(r) = 0
    <3>1. r = <<>>
      BY <2>3, EmptySeq
    <3>2. <<>> \o q = q
      BY ConcatEmptySeq
    <3>3. Under(<<>> \o q, <<>>)
      BY <1>0, <1>b
    <3> QED
      BY <3>1, <3>2, <3>3
  <2>4. CASE Len(r) # 0
    <3>1. 1 \in 1..Len(q) /\ Len(r) \in 1..Len(q)
      BY <1>0, <1>4, <2>1, <2>4
    <3>2. SubSeq(q \o u, 1, Len(r)) = SubSeq(q, 1, Len(r))
      BY <3>1, SubSeqOfConcat1
    <3>3. r = SubSeq(q, 1, Len(r)) /\ SubSeq(r, 1, Len(r)) = r
      BY <1>0, <2>1, <2>2, <3>2
    <3> QED
      BY <1>4, <3>3 DEF Under, IsPrefix
  <2> QED
    BY <2>3, <2>4
<1>5. ASSUME NEW r \in Seq(N), Under(p, q), Under(p, r)
      PROVE  Under(q, r) \/ Under(r, q)
  <2>1. CASE Len(r) <= Len(q)
    BY <1>4, <1>5, <2>1
  <2>2. CASE Len(q) <= Len(r)
    <3>1. /\ q = SubSeq(p, 1, Len(q)) /\ r = SubSeq(p, 1, Len(r)) /\ Len(q) <= Len(p) /\ Len(r) <= Len(p)
          /\ Len(r) \in Nat
      BY <1>0, <1>5 DEF Under, IsPrefix
    <3>2. PICK u \in Seq(N) : p = r \o u
      BY <1>5, <1>a
    <3>3. CASE Len(q) = 0
      <4>1. q = <<>> /\ <<>> \o r = r
        BY <3>3, EmptySeq, ConcatEmptySeq
      <4>2. Under(<<>> \o r, <<>>)
        BY <1>0, <1>b
      <4> QED
        BY <4>1, <4>2
    <3>4. CASE Len(q) # 0
      <4>1. 1 \in 1..Len(r) /\ Len(q) \in 1..Len(r)
        BY <1>0, <2>2, <3>1, <3>4
      <4>2. SubSeq(r \o u, 1, Len(q)) = SubSeq(r, 1, Len(q))
        BY <4>1, SubSeqOfConcat1
      <4>3. q = SubSeq(r, 1, Len(q)) /\ SubSeq(q, 1, Len(q)) = q
        BY <1>0, <3>1, <3>2, <4>2
      <4> QED
        BY <2>2, <4>3 DEF Under, IsPrefix
    <3> QED
      BY <3>3, <3>4
  <2>3. Len(r) \in Nat
    BY <1>0
  <2> QED
    BY <1>0, <2>1, <2>2, <2>3
<1>6. ASSUME NEW a \in N
      PROVE  Under(Append(p, a), q) <=> q = Append(p, a) \/ Under(p, q)
  <2> DEFINE x == Append(p, a)
  <2>1. x \in Seq(N) /\ Len(x) = Len(p) + 1 /\ Under(x, p)
    <3>1. x = p \o <<a>> /\ <<a>> \in Seq(N) /\ x \in Seq(N) /\ Len(x) = Len(p) + 1
      BY AppendFacts
    <3> HIDE DEF x
    <3> QED
      BY <1>b, <3>1
  <2>2. Under(x, x)
    <3>1. x \o <<>> = x
      BY <2>1, ConcatEmptySeq
    <3> QED
      BY <1>0, <1>b, <2>1, <3>1
  <2>3. ASSUME Under(p, q) PROVE Under(x, q)
    BY <1>3, <2>1, <2>3
  <2>4. ASSUME Under(x, q), q # x PROVE Under(p, q)
    <3>1. PICK u \in Seq(N) : x = q \o u
      BY <1>a, <2>1, <2>4
    <3>2. u # <<>>
      BY <2>4, <3>1, ConcatEmptySeq
    <3>3. Front(u) \in Seq(N) /\ Last(u) \in N /\ u = Front(u) \o <<Last(u)>> /\ <<Last(u)>> \in Seq(N)
      BY <3>2, FrontLast, AppendFacts, ZenonT(40)
    <3>4. x = (q \o Front(u)) \o <<Last(u)>> /\ q \o Front(u) \in Seq(N)
      <4>1. (q \o Front(u)) \o <<Last(u)>> = q \o (Front(u) \o <<Last(u)>>)
        BY <3>3, ConcatAssociative
      <4> HIDE DEF x
      <4> QED
        BY <1>b, <3>1, <3>3, <4>1
    <3>5. x = Append(q \o Front(u), Last(u))
      <4>1. Append(q \o Front(u), Last(u)) = (q \o Front(u)) \o <<Last(u)>>
        BY <3>3, <3>4, AppendIsConcat
      <4> HIDE DEF x
      <4> QED
        BY <3>4, <4>1
    <3>6. p = q \o Front(u)
      <4>1. Front(Append(q \o Front(u), Last(u))) = q \o Front(u)
        BY <3>3, <3>4, AppendFacts
      <4>2. Front(x) = p
        BY AppendFacts
      <4> HIDE DEF x
      <4> QED
        BY <3>5, <4>1, <4>2
    <3> QED
      BY <1>b, <3>3, <3>6
  <2> HIDE DEF x
  <2>5. Under(x, q) <=> q = x \/ Under(p, q)
    BY <2>2, <2>3, <2>4
  <2> QED
    BY <2>5 DEF x
<1> QED
  BY <1>1, <1>2, <1>3, <1>5, <1>6, <1>b

-----------------------------------------------------------------------------
(***************************************************************************)
(* The levels the diff reaches                                             *)
(***************************************************************************)
Top == << <<>>, <<>> >>

(* One step of MatchedLevels. *)
Further(old, new, seen) == seen \cup UNION {LevelsBelow(old, new, lv) : lv \in seen}

(* f is the recursive function of MatchedLevels, or the start of it. *)
Reaches(old, new, f) ==
    f = [n \in Nat |-> IF n = 0 THEN {Top} ELSE Further(old, new, f[n - 1])]

ReachesUpTo(old, new, m, f) ==
    f = [n \in 0..m |-> IF n = 0 THEN {Top} ELSE Further(old, new, f[n - 1])]

(* The recursion of MatchedLevels starts at the two top levels, as         *)
(* diff_schemas does.                                                      *)
LEMMA ReachUpTo ==
    ASSUME NEW old, NEW new, NEW m \in Nat, NEW f, ReachesUpTo(old, new, m, f)
    PROVE  f[0] = {Top}
<1>1. f = [n \in 0..m |-> IF n = 0 THEN {Top} ELSE Further(old, new, f[n - 1])]
  BY DEF ReachesUpTo
<1>2. 0 \in 0..m
  OBVIOUS
<1> QED
  BY <1>1, <1>2

(* Each step of it adds the levels below those seen: one call of           *)
(* _diff_level deeper.                                                     *)
LEMMA ReachStepUpTo ==
    ASSUME NEW old, NEW new, NEW m \in Nat, NEW f, ReachesUpTo(old, new, m, f), NEW n \in 1..m
    PROVE  f[n] = Further(old, new, f[n - 1])
<1>1. f = [k \in 0..m |-> IF k = 0 THEN {Top} ELSE Further(old, new, f[k - 1])]
  BY DEF ReachesUpTo
<1>2. n \in 0..m /\ n # 0
  OBVIOUS
<1> QED
  BY <1>1, <1>2, Zenon

(* Two functions that follow the recursion agree as far as both go. *)
LEMMA ReachUnique ==
    ASSUME NEW old, NEW new, NEW m \in Nat, NEW n \in Nat, m <= n, NEW f, NEW g,
           ReachesUpTo(old, new, m, f), ReachesUpTo(old, new, n, g)
    PROVE  \A k \in 0..m : f[k] = g[k]
<1> DEFINE differ == {k \in 0..m : f[k] # g[k]}
<1>1. SUFFICES ASSUME differ # {} PROVE FALSE
  OBVIOUS
<1>2. differ \subseteq Nat
  OBVIOUS
<1>3. PICK k \in differ : \A l \in differ : k <= l
  <2> HIDE DEF differ
  <2> QED BY <1>1, <1>2, Least
<1>4. k \in 0..m /\ f[k] # g[k]
  OBVIOUS
<1>5. k # 0
  BY <1>4, ReachUpTo
<1>6. k \in 1..m /\ k \in 1..n /\ k - 1 \in 0..m /\ ~(k <= k - 1)
  BY <1>4, <1>5
<1>7. k - 1 \notin differ
  <2> HIDE DEF differ
  <2> QED BY <1>3, <1>6
<1>8. f[k - 1] = g[k - 1]
  BY <1>6, <1>7
<1>9. f[k] = Further(old, new, f[k - 1])
  BY <1>6, ReachStepUpTo
<1>10. g[k] = Further(old, new, g[k - 1])
  BY <1>6, ReachStepUpTo
<1> QED
  BY <1>4, <1>8, <1>9, <1>10

(* The recursion can be followed for any number of steps. *)
LEMMA ReachesEvery ==
    ASSUME NEW old, NEW new, NEW m \in Nat
    PROVE  \E f : ReachesUpTo(old, new, m, f)
<1> DEFINE missing == {n \in Nat : ~ \E f : ReachesUpTo(old, new, n, f)}
<1>1. SUFFICES ASSUME missing # {} PROVE FALSE
  OBVIOUS
<1>2. PICK n \in missing : \A k \in missing : n <= k
  <2>1. missing \subseteq Nat
    OBVIOUS
  <2> HIDE DEF missing
  <2> QED BY <1>1, <2>1, Least
<1>3. n # 0
  <2> SUFFICES ASSUME n = 0 PROVE FALSE
    OBVIOUS
  <2> DEFINE f == [k \in 0..0 |-> {Top}]
  <2>1. f = [k \in 0..0 |-> IF k = 0 THEN {Top} ELSE Further(old, new, f[k - 1])]
    <3>1. \A k \in 0..0 : k = 0
      OBVIOUS
    <3> QED
      BY <3>1, Zenon
  <2>2. ReachesUpTo(old, new, 0, f)
    BY <2>1 DEF ReachesUpTo
  <2> QED
    BY <2>2
<1>4. n - 1 \in Nat /\ ~(n <= n - 1) /\ n \in Nat /\ n \in 0..n /\ (n - 1) \in 0..n
  BY <1>3
<1>5. PICK f : ReachesUpTo(old, new, n - 1, f)
  <2>1. n - 1 \notin missing
    <3> HIDE DEF missing
    <3> QED BY <1>2, <1>4
  <2> QED
    BY <1>4, <2>1
<1> DEFINE g == [k \in 0..n |-> IF k = n THEN Further(old, new, f[n - 1]) ELSE f[k]]
<1>6. \A k \in 0..n : k # n => k \in 0..(n - 1) /\ (k # 0 => k \in 1..(n - 1) /\ k - 1 \in 0..n /\ k - 1 # n)
  BY <1>4
<1>7. \A k \in 0..n : g[k] = IF k = 0 THEN {Top} ELSE Further(old, new, g[k - 1])
  <2> SUFFICES ASSUME NEW k \in 0..n PROVE g[k] = IF k = 0 THEN {Top} ELSE Further(old, new, g[k - 1])
    OBVIOUS
  <2>1. CASE k = n
    <3>1. g[n - 1] = f[n - 1]
      BY <1>4
    <3> QED
      BY <1>3, <2>1, <3>1
  <2>2. CASE k # n
    <3>1. f[0] = {Top} /\ (k # 0 => f[k] = Further(old, new, f[k - 1]))
      BY <1>4, <1>5, <1>6, <2>2, ReachUpTo, ReachStepUpTo
    <3>2. g[k] = f[k] /\ (k # 0 => g[k - 1] = f[k - 1])
      BY <1>6, <2>2
    <3> HIDE DEF g
    <3> QED
      BY <3>1, <3>2
  <2> QED
    BY <2>1, <2>2
<1>8. ReachesUpTo(old, new, n, g)
  <2>1. g = [k \in 0..n |-> g[k]]
    OBVIOUS
  <2> HIDE DEF g
  <2>2. g = [k \in 0..n |-> IF k = 0 THEN {Top} ELSE Further(old, new, g[k - 1])]
    BY <1>7, <2>1
  <2> QED
    BY <2>2 DEF ReachesUpTo
<1>9. n \in missing
  BY <1>2
<1> QED
  BY <1>8, <1>9

(* The recursive function there is. *)
LEMMA ReachExists ==
    ASSUME NEW old, NEW new
    PROVE  \E f : Reaches(old, new, f)
<1> DEFINE up(n) == CHOOSE f : ReachesUpTo(old, new, n, f)
           r == [n \in Nat |-> up(n)[n]]
<1>1. \A n \in Nat : ReachesUpTo(old, new, n, up(n))
  BY ReachesEvery
<1>2. \A n \in Nat : r[n] = up(n)[n]
  OBVIOUS
<1>3. r = [n \in Nat |-> r[n]]
  OBVIOUS
<1> HIDE DEF up, r
<1>4. ASSUME NEW n \in Nat
      PROVE  r[n] = IF n = 0 THEN {Top} ELSE Further(old, new, r[n - 1])
  <2>1. CASE n = 0
    BY <1>1, <1>2, <2>1, ReachUpTo
  <2>2. CASE n # 0
    <3>1. n - 1 \in Nat /\ n - 1 <= n /\ n - 1 \in 0..(n - 1) /\ n \in 1..n
      BY <2>2
    <3>2. up(n - 1)[n - 1] = up(n)[n - 1]
      BY <1>1, <3>1, ReachUnique
    <3>3. up(n)[n] = Further(old, new, up(n)[n - 1])
      <4>1. ReachesUpTo(old, new, n, up(n))
        BY <1>1
      <4> QED
        BY <3>1, <4>1, ReachStepUpTo
    <3> QED
      BY <1>2, <2>2, <3>1, <3>2, <3>3
  <2> QED
    BY <2>1, <2>2
<1>5. r = [n \in Nat |-> IF n = 0 THEN {Top} ELSE Further(old, new, r[n - 1])]
  BY <1>3, <1>4
<1> QED
  BY <1>5 DEF Reaches

(* MatchedLevels is what the recursion gives after as many steps as there  *)
(* are old levels.                                                         *)
LEMMA ReachIs ==
    ASSUME NEW old, NEW new
    PROVE  \E f : Reaches(old, new, f) /\ MatchedLevels(old, new) = f[Cardinality(DOMAIN old)]
<1> DEFINE reach[n \in Nat] ==
               IF n = 0 THEN {<< <<>>, <<>> >>}
               ELSE LET seen == reach[n - 1] IN seen \cup UNION {LevelsBelow(old, new, lv) : lv \in seen}
<1>1. MatchedLevels(old, new) = reach[Cardinality(DOMAIN old)]
  BY DEF MatchedLevels
<1>2. reach = CHOOSE f : Reaches(old, new, f)
  BY DEF Reaches, Top, Further
<1> HIDE DEF reach
<1>3. Reaches(old, new, reach)
  BY <1>2, ReachExists
<1> QED
  BY <1>1, <1>3

(* The two equations of the recursion, for use in what follows. *)
LEMMA ReachSteps ==
    ASSUME NEW old, NEW new, NEW f, Reaches(old, new, f)
    PROVE  /\ f[0] = {Top}
           /\ \A n \in Nat : f[n + 1] = Further(old, new, f[n])
<1>1. f = [n \in Nat |-> IF n = 0 THEN {Top} ELSE Further(old, new, f[n - 1])]
  BY DEF Reaches
<1>2. f[0] = {Top}
  BY <1>1
<1>3. ASSUME NEW n \in Nat PROVE f[n + 1] = Further(old, new, f[n])
  <2>1. n + 1 \in Nat /\ n + 1 # 0 /\ (n + 1) - 1 = n
    OBVIOUS
  <2>2. f[n + 1] = Further(old, new, f[(n + 1) - 1])
    BY <1>1, <2>1, Zenon
  <2> QED
    BY <2>1, <2>2
<1> QED
  BY <1>2, <1>3

-----------------------------------------------------------------------------
(***************************************************************************)
(* One schema                                                              *)
(***************************************************************************)
Container(s, p) == FieldAt(s, p).kind \in Containers

(* The level a container holds. *)
Inside(s, p) == LevelOf(FieldAt(s, p), p)

(* The parts of WellFormed that are about levels. *)
LEMMA SchemaFacts ==
    ASSUME NEW s, WellFormed(s)
    PROVE  /\ IsFiniteSet(DOMAIN s) /\ <<>> \in DOMAIN s /\ "[]" \in Segments(s)
           /\ \A g \in DOMAIN s : g \in Seq(Segments(s)) /\ s[g] \in Seq(Fields(Segments(s))) /\ Siblings(s[g])
           /\ \A p \in Paths(s) : Container(s, p) => Inside(s, p) \in DOMAIN s
           /\ \A g \in DOMAIN s : g = <<>> \/ \E p \in Paths(s) : Container(s, p) /\ g = Inside(s, p)
<1>1. DOMAIN s = {<<>>} \cup {Inside(s, p) : p \in {q \in Paths(s) : Container(s, q)}}
  BY DEF WellFormed, Inside, Container
<1>2. "[]" \in Segments(s)
  BY DEF Segments
<1>3. IsFiniteSet(DOMAIN s) /\ \A g \in DOMAIN s : g \in Seq(Segments(s)) /\ s[g] \in Seq(Fields(Segments(s))) /\ Siblings(s[g])
  BY DEF WellFormed
<1>4. \A p \in Paths(s) : Container(s, p) => Inside(s, p) \in DOMAIN s
  BY <1>1
<1>5. \A g \in DOMAIN s : g = <<>> \/ \E p \in Paths(s) : Container(s, p) /\ g = Inside(s, p)
  BY <1>1
<1>6. <<>> \in DOMAIN s
  BY <1>1
<1> QED
  BY <1>2, <1>3, <1>4, <1>5, <1>6

(* The field at a place of a level is the one its path names: flatten's    *)
(* keys are unique.                                                        *)
LEMMA FieldFacts ==
    ASSUME NEW s, WellFormed(s), NEW g \in DOMAIN s, NEW i \in DOMAIN s[g]
    PROVE  /\ s[g][i] \in Fields(Segments(s)) /\ s[g][i].name \in Segments(s)
           /\ Append(g, s[g][i].name) \in PathsIn(s, g)
           /\ Append(g, s[g][i].name) \in Paths(s)
           /\ FieldAt(s, Append(g, s[g][i].name)) = s[g][i]
           /\ Front(Append(g, s[g][i].name)) = g /\ Last(Append(g, s[g][i].name)) = s[g][i].name
<1> DEFINE p == Append(g, s[g][i].name)
<1>1. g \in Seq(Segments(s)) /\ s[g] \in Seq(Fields(Segments(s))) /\ Siblings(s[g])
  BY SchemaFacts
<1>2. s[g][i] \in Fields(Segments(s))
  BY <1>1
<1>3. s[g][i].name \in Segments(s)
  BY <1>2 DEF Fields
<1>4. p \in PathsIn(s, g)
  BY DEF PathsIn
<1>5. p \in Paths(s)
  BY <1>4 DEF Paths
<1>6. Front(p) = g /\ Last(p) = s[g][i].name
  BY <1>1, <1>3, AppendFacts
<1>7. \A j \in DOMAIN s[g] : s[g][j].name = s[g][i].name => j = i
  BY <1>1 DEF Siblings
<1>8. FieldAt(s, p) = s[g][i]
  <2>1. FieldAt(s, p) = s[g][CHOOSE j \in DOMAIN s[g] : s[g][j].name = s[g][i].name]
    BY <1>6 DEF FieldAt
  <2>2. (CHOOSE j \in DOMAIN s[g] : s[g][j].name = s[g][i].name) = i
    BY <1>7
  <2> QED
    BY <2>1, <2>2
<1> QED
  BY <1>2, <1>3, <1>4, <1>5, <1>6, <1>8

(* What a path of a schema is made of, and the field that stands there. *)
LEMMA PathFacts ==
    ASSUME NEW s, WellFormed(s), NEW p \in Paths(s)
    PROVE  /\ p \in Seq(Segments(s)) /\ p # <<>> /\ p = Append(Front(p), Last(p))
           /\ Front(p) \in DOMAIN s /\ Last(p) \in Segments(s) /\ p \in PathsIn(s, Front(p))
           /\ FieldAt(s, p) \in Fields(Segments(s)) /\ FieldAt(s, p).name = Last(p)
           /\ \E i \in DOMAIN s[Front(p)] : FieldAt(s, p) = s[Front(p)][i]
           /\ Len(p) = Len(Front(p)) + 1 /\ Len(p) \in Nat /\ Len(Front(p)) \in Nat
<1>g. PICK g \in DOMAIN s : p \in PathsIn(s, g)
  BY DEF Paths
<1>1. PICK i \in DOMAIN s[g] : p = Append(g, s[g][i].name)
  BY <1>g DEF PathsIn
<1>2. /\ s[g][i] \in Fields(Segments(s)) /\ s[g][i].name \in Segments(s) /\ p \in PathsIn(s, g)
      /\ FieldAt(s, p) = s[g][i] /\ Front(p) = g /\ Last(p) = s[g][i].name
  BY <1>1, FieldFacts
<1>3. g \in Seq(Segments(s))
  BY SchemaFacts
<1>4. p \in Seq(Segments(s)) /\ p # <<>> /\ Len(p) = Len(g) + 1
  BY <1>1, <1>2, <1>3, AppendFacts
<1>5. Len(g) \in Nat /\ Len(p) \in Nat
  BY <1>3, <1>4, LenProperties
<1> QED
  BY <1>1, <1>2, <1>3, <1>4, <1>5

(* The paths of a level are the paths with that level in front. *)
LEMMA PathsOfLevel ==
    ASSUME NEW s, WellFormed(s), NEW g \in DOMAIN s
    PROVE  PathsIn(s, g) = {p \in Paths(s) : Front(p) = g}
<1>1. \A p \in PathsIn(s, g) : p \in Paths(s) /\ Front(p) = g
  <2> SUFFICES ASSUME NEW p \in PathsIn(s, g) PROVE p \in Paths(s) /\ Front(p) = g
    OBVIOUS
  <2>1. PICK i \in DOMAIN s[g] : p = Append(g, s[g][i].name)
    BY DEF PathsIn
  <2> QED
    BY <2>1, FieldFacts
<1>2. \A p \in Paths(s) : Front(p) = g => p \in PathsIn(s, g)
  BY PathFacts
<1> QED
  BY <1>1, <1>2

(* The level a container holds begins with the path of the container. *)
LEMMA InsideFacts ==
    ASSUME NEW s, WellFormed(s), NEW p \in Paths(s)
    PROVE  /\ Inside(s, p) \in Seq(Segments(s))
           /\ Inside(s, p) = p \/ (FieldAt(s, p).kind = "map" /\ Inside(s, p) = Append(p, "[]"))
           /\ FieldAt(s, p).kind # "map" => Inside(s, p) = p
           /\ Under(Inside(s, p), p) /\ Len(Inside(s, p)) >= Len(p) /\ Len(Inside(s, p)) > Len(Front(p))
           /\ Len(Inside(s, p)) \in Nat
<1>1. /\ p \in Seq(Segments(s)) /\ Len(p) = Len(Front(p)) + 1 /\ Len(p) \in Nat /\ Len(Front(p)) \in Nat
      /\ "[]" \in Segments(s)
  BY PathFacts, SchemaFacts
<1>2. CASE FieldAt(s, p).kind = "map"
  <2>1. Inside(s, p) = Append(p, "[]")
    BY <1>2 DEF Inside, LevelOf
  <2>2. Append(p, "[]") \in Seq(Segments(s)) /\ Len(Append(p, "[]")) = Len(p) + 1 /\ Under(Append(p, "[]"), p)
    BY <1>1, AppendFacts, UnderFacts
  <2> QED
    BY <1>1, <1>2, <2>1, <2>2
<1>3. CASE FieldAt(s, p).kind # "map"
  <2>1. Inside(s, p) = p /\ Under(p, p)
    BY <1>1, <1>3, UnderFacts DEF Inside, LevelOf
  <2> QED
    BY <1>1, <1>3, <2>1
<1> QED
  BY <1>2, <1>3

(* The level of a map is not at the map itself. *)
LEMMA NoMapLevel ==
    ASSUME NEW s, WellFormed(s)
    PROVE  \A p \in Paths(s) : FieldAt(s, p).kind = "map" => p \notin DOMAIN s
<1> DEFINE bad == {p \in Paths(s) : FieldAt(s, p).kind = "map" /\ p \in DOMAIN s}
           lengths == {Len(p) : p \in bad}
<1>1. SUFFICES ASSUME bad # {} PROVE FALSE
  OBVIOUS
<1>2. lengths \subseteq Nat /\ lengths # {}
  <2>1. \A p \in bad : Len(p) \in Nat
    BY PathFacts
  <2> QED
    BY <1>1, <2>1
<1>3. PICK n \in lengths : \A m \in lengths : n <= m
  <2> HIDE DEF lengths
  <2> QED BY <1>2, Least
<1>4. PICK p \in bad : \A q \in bad : Len(p) <= Len(q)
  BY <1>3
<1>5. p \in Paths(s) /\ FieldAt(s, p).kind = "map" /\ p \in DOMAIN s /\ p # <<>> /\ Len(p) = Len(Front(p)) + 1 /\ Len(p) \in Nat
      /\ Front(p) \in DOMAIN s /\ Len(Front(p)) \in Nat
  BY PathFacts
<1>6. PICK q \in Paths(s) : Container(s, q) /\ p = Inside(s, q)
  BY <1>5, SchemaFacts
<1>7. FieldAt(s, q).kind = "map" /\ p = Append(q, "[]")
  <2>1. CASE Inside(s, q) = q
    <3>1. FieldAt(s, q).kind = "map" /\ Inside(s, q) = Append(q, "[]")
      BY <1>5, <1>6, <2>1 DEF Inside, LevelOf
    <3> QED
      BY <1>6, <3>1
  <2>2. CASE Inside(s, q) # q
    BY <1>6, <2>2, InsideFacts
  <2> QED
    BY <2>1, <2>2
<1>8. Front(p) = q
  <2>1. q \in Seq(Segments(s)) /\ "[]" \in Segments(s)
    BY PathFacts, SchemaFacts
  <2> QED
    BY <1>7, <2>1, AppendFacts
<1>9. q \in bad
  BY <1>5, <1>7, <1>8
<1>10. ~(Len(p) <= Len(q))
  BY <1>5, <1>8
<1> HIDE DEF bad
<1> QED
  BY <1>4, <1>9, <1>10

(* No two containers hold one level, and what is no container holds none.  *)
LEMMA InsideUnique ==
    ASSUME NEW s, WellFormed(s), NEW p \in Paths(s), NEW q \in Paths(s), Inside(s, q) = Inside(s, p)
    PROVE  p = q
<1>1. p \in Seq(Segments(s)) /\ q \in Seq(Segments(s)) /\ "[]" \in Segments(s) /\ Front(p) \in DOMAIN s /\ Front(q) \in DOMAIN s
  BY PathFacts, SchemaFacts
<1>2. Front(Append(p, "[]")) = p /\ Front(Append(q, "[]")) = q
  BY <1>1, AppendFacts
<1>3. CASE FieldAt(s, p).kind = "map" /\ FieldAt(s, q).kind = "map"
  <2>1. Inside(s, p) = Append(p, "[]") /\ Inside(s, q) = Append(q, "[]")
    BY <1>3 DEF Inside, LevelOf
  <2> QED
    BY <1>2, <2>1
<1>4. CASE FieldAt(s, p).kind = "map" /\ FieldAt(s, q).kind # "map"
  <2>1. Inside(s, p) = Append(p, "[]") /\ Inside(s, q) = q
    BY <1>4 DEF Inside, LevelOf
  <2>2. Front(q) = p
    BY <1>2, <2>1
  <2> QED
    BY <1>1, <1>4, <2>2, NoMapLevel
<1>5. CASE FieldAt(s, p).kind # "map" /\ FieldAt(s, q).kind = "map"
  <2>1. Inside(s, p) = p /\ Inside(s, q) = Append(q, "[]")
    BY <1>5 DEF Inside, LevelOf
  <2>2. Front(p) = q
    BY <1>2, <2>1
  <2> QED
    BY <1>1, <1>5, <2>2, NoMapLevel
<1>6. CASE FieldAt(s, p).kind # "map" /\ FieldAt(s, q).kind # "map"
  BY <1>6 DEF Inside, LevelOf
<1> QED
  BY <1>3, <1>4, <1>5, <1>6

-----------------------------------------------------------------------------
(***************************************************************************)
(* Two levels                                                              *)
(***************************************************************************)

(* The field of old at p and the one of new at q are the same field, as    *)
(* _match sees it.                                                         *)
SameField(old, new, p, q) ==
    IF ById(old[Front(p)], new[Front(q)]) THEN FieldAt(old, p).id = FieldAt(new, q).id
    ELSE Last(p) = Last(q)

(* Positions are matched by ids or by names, without regard to more.       *)
LEMMA MatchFacts ==
    ASSUME NEW F, NEW G, DOMAIN G \subseteq Nat, Siblings(F), Siblings(G)
    PROVE  /\ Match(F, G) =
                {ij \in (DOMAIN F) \X (DOMAIN G) :
                    IF ById(F, G) THEN F[ij[1]].id = G[ij[2]].id ELSE F[ij[1]].name = G[ij[2]].name}
           /\ ById(F, G) => (\A i, j \in DOMAIN F : F[i].id = F[j].id => i = j)
                            /\ (\A i, j \in DOMAIN G : G[i].id = G[j].id => i = j)
           /\ \A i, j \in DOMAIN F : F[i].name = F[j].name => i = j
           /\ \A i, j \in DOMAIN G : G[i].name = G[j].name => i = j
<1>1. /\ \A i, j \in DOMAIN F : F[i].name = F[j].name => i = j
      /\ \A i, j \in DOMAIN G : G[i].name = G[j].name => i = j
  BY DEF Siblings
<1>2. CASE ById(F, G)
  <2>1. (\A i \in DOMAIN F : F[i].id # NoId) /\ (\A i \in DOMAIN G : G[i].id # NoId)
    BY <1>2 DEF ById, Range
  <2>2. /\ \A i, j \in DOMAIN F : F[i].id = F[j].id => i = j
        /\ \A i, j \in DOMAIN G : G[i].id = G[j].id => i = j
    BY <2>1 DEF Siblings
  <2>3. Match(F, G) = {ij \in (DOMAIN F) \X (DOMAIN G) :
                          /\ F[ij[1]].id = G[ij[2]].id
                          /\ \A k \in DOMAIN G : G[k].id = G[ij[2]].id => k <= ij[2]}
    BY <1>2 DEF Match
  <2>4. \A k, l \in DOMAIN G : G[k].id = G[l].id => k <= l
    BY <2>2
  <2> QED
    BY <1>1, <1>2, <2>2, <2>3, <2>4
<1>3. CASE ~ById(F, G)
  <2>1. Match(F, G) = {ij \in (DOMAIN F) \X (DOMAIN G) :
                          /\ F[ij[1]].name = G[ij[2]].name
                          /\ \A k \in DOMAIN G : G[k].name = G[ij[2]].name => k <= ij[2]}
    BY <1>3 DEF Match
  <2>2. \A k, l \in DOMAIN G : G[k].name = G[l].name => k <= l
    BY <1>1
  <2> QED
    BY <1>1, <1>3, <2>1, <2>2
<1> QED
  BY <1>2, <1>3

(* The pairs of two levels are the paths of the same field.                *)
LEMMA PairsFacts ==
    ASSUME NEW old, NEW new, WellFormed(old), WellFormed(new), NEW g \in DOMAIN old, NEW h \in DOMAIN new
    PROVE  PairsAt(old, new, <<g, h>>) =
               {pq \in PathsIn(old, g) \X PathsIn(new, h) : SameField(old, new, pq[1], pq[2])}
<1> DEFINE F == old[g]
           G == new[h]
           at(ij) == <<Append(g, F[ij[1]].name), Append(h, G[ij[2]].name)>>
           same(ij) == IF ById(F, G) THEN F[ij[1]].id = G[ij[2]].id ELSE F[ij[1]].name = G[ij[2]].name
           right == {pq \in PathsIn(old, g) \X PathsIn(new, h) : SameField(old, new, pq[1], pq[2])}
<1>1. DOMAIN G \subseteq Nat /\ Siblings(F) /\ Siblings(G)
  <2>1. G \in Seq(Fields(Segments(new))) /\ Siblings(F) /\ Siblings(G)
    BY SchemaFacts
  <2> HIDE DEF F, G
  <2> QED
    BY <2>1, LenProperties
<1>2. Match(F, G) = {ij \in (DOMAIN F) \X (DOMAIN G) : same(ij)}
  BY <1>1, MatchFacts
<1>3. PairsAt(old, new, <<g, h>>) = {at(ij) : ij \in Match(F, G)}
  BY DEF PairsAt
<1>4. \A i \in DOMAIN F : /\ Append(g, F[i].name) \in PathsIn(old, g) /\ FieldAt(old, Append(g, F[i].name)) = F[i]
                          /\ Front(Append(g, F[i].name)) = g /\ Last(Append(g, F[i].name)) = F[i].name
  BY FieldFacts
<1>5. \A i \in DOMAIN G : /\ Append(h, G[i].name) \in PathsIn(new, h) /\ FieldAt(new, Append(h, G[i].name)) = G[i]
                          /\ Front(Append(h, G[i].name)) = h /\ Last(Append(h, G[i].name)) = G[i].name
  BY FieldFacts
<1>6. \A i \in DOMAIN F, j \in DOMAIN G :
         SameField(old, new, Append(g, F[i].name), Append(h, G[j].name)) <=> same(<<i, j>>)
  BY <1>4, <1>5 DEF SameField
<1>7. \A p \in PathsIn(old, g) : \E i \in DOMAIN F : p = Append(g, F[i].name)
  BY DEF PathsIn
<1>8. \A p \in PathsIn(new, h) : \E i \in DOMAIN G : p = Append(h, G[i].name)
  BY DEF PathsIn
<1>a. \A p \in PathsIn(old, g), q \in PathsIn(new, h) : SameField(old, new, p, q) => <<p, q>> \in right
  OBVIOUS
<1>9. ASSUME NEW ij \in Match(F, G) PROVE at(ij) \in right
  <2>1. PICK i \in DOMAIN F, j \in DOMAIN G : ij = <<i, j>>
    BY <1>2
  <2>2. same(<<i, j>>)
    BY <1>2, <2>1
  <2>3. at(ij) = <<Append(g, F[i].name), Append(h, G[j].name)>>
    BY <2>1
  <2>4. SameField(old, new, Append(g, F[i].name), Append(h, G[j].name))
    BY <1>6, <2>2
  <2>5. Append(g, F[i].name) \in PathsIn(old, g) /\ Append(h, G[j].name) \in PathsIn(new, h)
    BY <1>4, <1>5
  <2>6. <<Append(g, F[i].name), Append(h, G[j].name)>> \in right
    BY <1>a, <2>4, <2>5
  <2> HIDE DEF right, at
  <2> QED
    BY <2>3, <2>6
<1>10. ASSUME NEW pq \in right PROVE \E ij \in Match(F, G) : pq = at(ij)
  <2>1. PICK i \in DOMAIN F : pq[1] = Append(g, F[i].name)
    BY <1>7
  <2>2. PICK j \in DOMAIN G : pq[2] = Append(h, G[j].name)
    BY <1>8
  <2>3. same(<<i, j>>)
    BY <1>6, <2>1, <2>2
  <2>4. <<i, j>> \in Match(F, G)
    BY <1>2, <2>3
  <2>5. pq = <<pq[1], pq[2]>>
    OBVIOUS
  <2>6. at(<<i, j>>) = pq
    BY <2>1, <2>2, <2>5
  <2> QED
    BY <2>4, <2>6
<1> HIDE DEF at, right
<1> QED
  BY <1>3, <1>9, <1>10 DEF right

(* A field has one partner at most, on either side.                        *)
LEMMA SameFieldUnique ==
    ASSUME NEW old, NEW new, WellFormed(old), WellFormed(new), NEW p \in Paths(old), NEW q \in Paths(new),
           SameField(old, new, p, q)
    PROVE  /\ \A r \in Paths(new) : Front(r) = Front(q) /\ SameField(old, new, p, r) => r = q
           /\ \A r \in Paths(old) : Front(r) = Front(p) /\ SameField(old, new, r, q) => r = p
<1> DEFINE F == old[Front(p)]
           G == new[Front(q)]
<1>1. DOMAIN G \subseteq Nat /\ Siblings(F) /\ Siblings(G)
  <2>1. Front(p) \in DOMAIN old /\ Front(q) \in DOMAIN new
    BY PathFacts
  <2>2. G \in Seq(Fields(Segments(new))) /\ Siblings(F) /\ Siblings(G)
    BY <2>1, SchemaFacts
  <2> HIDE DEF F, G
  <2> QED
    BY <2>2, LenProperties
<1>2. /\ ById(F, G) => (\A i, j \in DOMAIN F : F[i].id = F[j].id => i = j)
                       /\ (\A i, j \in DOMAIN G : G[i].id = G[j].id => i = j)
  BY <1>1, MatchFacts
<1>3. ASSUME NEW r \in Paths(new), Front(r) = Front(q), SameField(old, new, p, r) PROVE r = q
  <2>1. r = Append(Front(q), Last(r)) /\ q = Append(Front(q), Last(q)) /\ FieldAt(new, r).name = Last(r) /\ FieldAt(new, q).name = Last(q)
    BY <1>3, PathFacts
  <2>2. CASE ById(F, G)
    <3>1. FieldAt(new, r).id = FieldAt(new, q).id
      BY <1>3, <2>2 DEF SameField
    <3>2. \E i, j \in DOMAIN G : FieldAt(new, r) = G[i] /\ FieldAt(new, q) = G[j]
      <4>1. \E i \in DOMAIN new[Front(r)] : FieldAt(new, r) = new[Front(r)][i]
        BY PathFacts
      <4>2. \E i \in DOMAIN new[Front(q)] : FieldAt(new, q) = new[Front(q)][i]
        BY PathFacts
      <4> QED
        BY <1>3, <4>1, <4>2
    <3>3. FieldAt(new, r) = FieldAt(new, q)
      BY <1>2, <2>2, <3>1, <3>2
    <3> QED
      BY <2>1, <3>3
  <2>3. CASE ~ById(F, G)
    BY <1>3, <2>1, <2>3 DEF SameField
  <2> QED
    BY <2>2, <2>3
<1>4. ASSUME NEW r \in Paths(old), Front(r) = Front(p), SameField(old, new, r, q) PROVE r = p
  <2>1. r = Append(Front(p), Last(r)) /\ p = Append(Front(p), Last(p)) /\ FieldAt(old, r).name = Last(r) /\ FieldAt(old, p).name = Last(p)
    BY <1>4, PathFacts
  <2>2. CASE ById(F, G)
    <3>1. FieldAt(old, r).id = FieldAt(old, p).id
      BY <1>4, <2>2 DEF SameField
    <3>2. \E i, j \in DOMAIN F : FieldAt(old, r) = F[i] /\ FieldAt(old, p) = F[j]
      <4>1. \E i \in DOMAIN old[Front(r)] : FieldAt(old, r) = old[Front(r)][i]
        BY PathFacts
      <4>2. \E i \in DOMAIN old[Front(p)] : FieldAt(old, p) = old[Front(p)][i]
        BY PathFacts
      <4> QED
        BY <1>4, <4>1, <4>2
    <3>3. FieldAt(old, r) = FieldAt(old, p)
      BY <1>2, <2>2, <3>1, <3>2
    <3> QED
      BY <2>1, <3>3
  <2>3. CASE ~ById(F, G)
    BY <1>4, <2>1, <2>3 DEF SameField
  <2> QED
    BY <2>2, <2>3
<1> QED
  BY <1>3, <1>4

(* Read backwards, it is the same field. *)
LEMMA SameFieldBack ==
    ASSUME NEW old, NEW new, NEW p, NEW q
    PROVE  SameField(old, new, p, q) <=> SameField(new, old, q, p)
<1>1. ById(old[Front(p)], new[Front(q)]) <=> ById(new[Front(q)], old[Front(p)])
  BY DEF ById
<1> QED
  BY <1>1 DEF SameField

(* What a step of the diff goes down to. *)
LEMMA BelowFacts ==
    ASSUME NEW old, NEW new, WellFormed(old), WellFormed(new), NEW g \in DOMAIN old, NEW h \in DOMAIN new, NEW x
    PROVE  x \in LevelsBelow(old, new, <<g, h>>) <=>
               \E p \in PathsIn(old, g), q \in PathsIn(new, h) :
                  /\ SameField(old, new, p, q) /\ Descends(FieldAt(old, p), FieldAt(new, q))
                  /\ x = <<Inside(old, p), Inside(new, q)>>
<1> DEFINE pairs == PairsAt(old, new, <<g, h>>)
           to(pq) == <<Inside(old, pq[1]), Inside(new, pq[2])>>
           goes(pq) == Descends(FieldAt(old, pq[1]), FieldAt(new, pq[2]))
<1>1. pairs = {pq \in PathsIn(old, g) \X PathsIn(new, h) : SameField(old, new, pq[1], pq[2])}
  BY PairsFacts
<1>2. LevelsBelow(old, new, <<g, h>>) = {to(pq) : pq \in {xy \in pairs : goes(xy)}}
  BY DEF LevelsBelow, Inside
<1>3. x \in LevelsBelow(old, new, <<g, h>>) <=> \E pq \in pairs : goes(pq) /\ x = to(pq)
  <2> HIDE DEF pairs, to, goes
  <2> QED
    BY <1>2
<1>4. ASSUME NEW pq \in pairs, goes(pq), x = to(pq)
      PROVE  \E p \in PathsIn(old, g), q \in PathsIn(new, h) :
                  /\ SameField(old, new, p, q) /\ Descends(FieldAt(old, p), FieldAt(new, q))
                  /\ x = <<Inside(old, p), Inside(new, q)>>
  <2>1. pq[1] \in PathsIn(old, g) /\ pq[2] \in PathsIn(new, h) /\ SameField(old, new, pq[1], pq[2])
    <3> HIDE DEF pairs
    <3> QED BY <1>1
  <2> QED
    BY <1>4, <2>1
<1>5. ASSUME NEW p \in PathsIn(old, g), NEW q \in PathsIn(new, h),
             SameField(old, new, p, q), Descends(FieldAt(old, p), FieldAt(new, q)),
             x = <<Inside(old, p), Inside(new, q)>>
      PROVE  \E pq \in pairs : goes(pq) /\ x = to(pq)
  <2>1. <<p, q>> \in pairs
    <3> HIDE DEF pairs
    <3> QED BY <1>1, <1>5
  <2>2. goes(<<p, q>>) /\ x = to(<<p, q>>)
    BY <1>5
  <2> QED
    BY <2>1, <2>2
<1> HIDE DEF pairs, to, goes
<1> QED
  BY <1>3, <1>4, <1>5

-----------------------------------------------------------------------------
(***************************************************************************)
(* Every two levels the diff compares                                      *)
(***************************************************************************)
Domains(old, new) == (DOMAIN old) \X (DOMAIN new)

(* Nothing below the levels of S is missing from S. *)
IsClosed(old, new, S) == \A lv \in S : LevelsBelow(old, new, lv) \subseteq S

(* The smallest closed set that has the two top levels. *)
Levels(old, new) ==
    {lv \in Domains(old, new) :
        \A S \in SUBSET Domains(old, new) : Top \in S /\ IsClosed(old, new, S) => lv \in S}

(* The two top levels are levels, and the diff never leaves the levels of  *)
(* the two schemas.                                                        *)
LEMMA TopIsThere ==
    ASSUME NEW old, NEW new, WellFormed(old), WellFormed(new)
    PROVE  Top \in Domains(old, new) /\ IsClosed(old, new, Domains(old, new))
<1>1. <<>> \in DOMAIN old /\ <<>> \in DOMAIN new
  BY SchemaFacts
<1>2. ASSUME NEW lv \in Domains(old, new), NEW x \in LevelsBelow(old, new, lv)
      PROVE  x \in Domains(old, new)
  <2>1. PICK g \in DOMAIN old, h \in DOMAIN new : lv = <<g, h>>
    BY DEF Domains
  <2>2. PICK p \in PathsIn(old, g), q \in PathsIn(new, h) :
           Descends(FieldAt(old, p), FieldAt(new, q)) /\ x = <<Inside(old, p), Inside(new, q)>>
    BY <2>1, BelowFacts
  <2>3. p \in Paths(old) /\ q \in Paths(new)
    BY DEF Paths
  <2>4. Container(old, p) /\ Container(new, q)
    BY <2>2 DEF Descends, Container
  <2>5. Inside(old, p) \in DOMAIN old /\ Inside(new, q) \in DOMAIN new
    BY <2>3, <2>4, SchemaFacts
  <2> QED
    BY <2>2, <2>5 DEF Domains
<1> QED
  BY <1>1, <1>2 DEF Top, Domains, IsClosed

(* The levels the diff compares are themselves closed under going down. *)
LEMMA LevelsAreClosed ==
    ASSUME NEW old, NEW new, WellFormed(old), WellFormed(new)
    PROVE  Top \in Levels(old, new) /\ IsClosed(old, new, Levels(old, new))
<1>1. Top \in Levels(old, new)
  BY TopIsThere DEF Levels
<1>2. ASSUME NEW lv \in Levels(old, new), NEW x \in LevelsBelow(old, new, lv)
      PROVE  x \in Levels(old, new)
  <2>1. x \in Domains(old, new)
    BY TopIsThere DEF Levels, IsClosed
  <2>2. ASSUME NEW S \in SUBSET Domains(old, new), Top \in S, IsClosed(old, new, S)
        PROVE  x \in S
    <3>1. lv \in S
      BY <2>2 DEF Levels
    <3> QED
      BY <2>2, <3>1 DEF IsClosed
  <2> QED
    BY <2>1, <2>2 DEF Levels
<1> QED
  BY <1>1, <1>2 DEF IsClosed

(* Two levels are compared because two fields above them are. *)
LEMMA LevelOrigin ==
    ASSUME NEW old, NEW new, WellFormed(old), WellFormed(new), NEW x \in Levels(old, new)
    PROVE  x = Top \/ \E lv \in Levels(old, new) : x \in LevelsBelow(old, new, lv)
<1> DEFINE S == Levels(old, new) \ {x}
<1>1. SUFFICES ASSUME x # Top, \A lv \in Levels(old, new) : x \notin LevelsBelow(old, new, lv)
               PROVE  FALSE
  OBVIOUS
<1>2. S \in SUBSET Domains(old, new)
  BY DEF Levels
<1>3. Top \in S
  BY <1>1, LevelsAreClosed
<1>4. IsClosed(old, new, S)
  <2>1. IsClosed(old, new, Levels(old, new))
    BY LevelsAreClosed
  <2> QED
    BY <1>1, <2>1 DEF IsClosed
<1>5. x \in S
  <2> HIDE DEF S
  <2> QED BY <1>2, <1>3, <1>4 DEF Levels
<1> QED
  BY <1>5

(* The same, in paths. *)
LEMMA LevelMeans ==
    ASSUME NEW old, NEW new, WellFormed(old), WellFormed(new), NEW g, NEW h
    PROVE  <<g, h>> \in Levels(old, new) <=>
              \/ g = <<>> /\ h = <<>>
              \/ \E p \in Paths(old), q \in Paths(new) :
                    /\ <<Front(p), Front(q)>> \in Levels(old, new) /\ SameField(old, new, p, q)
                    /\ Descends(FieldAt(old, p), FieldAt(new, q))
                    /\ g = Inside(old, p) /\ h = Inside(new, q)
<1>1. ASSUME <<g, h>> \in Levels(old, new), <<g, h>> # Top
      PROVE  \E p \in Paths(old), q \in Paths(new) :
                    /\ <<Front(p), Front(q)>> \in Levels(old, new) /\ SameField(old, new, p, q)
                    /\ Descends(FieldAt(old, p), FieldAt(new, q))
                    /\ g = Inside(old, p) /\ h = Inside(new, q)
  <2>1. PICK lv \in Levels(old, new) : <<g, h>> \in LevelsBelow(old, new, lv)
    BY <1>1, LevelOrigin
  <2>2. PICK a \in DOMAIN old, b \in DOMAIN new : lv = <<a, b>>
    BY DEF Levels, Domains
  <2>3. PICK p \in PathsIn(old, a), q \in PathsIn(new, b) :
                  /\ SameField(old, new, p, q) /\ Descends(FieldAt(old, p), FieldAt(new, q))
                  /\ <<g, h>> = <<Inside(old, p), Inside(new, q)>>
    BY <2>1, <2>2, BelowFacts
  <2>4. p \in Paths(old) /\ Front(p) = a
    BY PathsOfLevel
  <2>5. q \in Paths(new) /\ Front(q) = b
    BY PathsOfLevel
  <2> QED
    BY <2>2, <2>3, <2>4, <2>5
<1>2. ASSUME NEW p \in Paths(old), NEW q \in Paths(new),
             <<Front(p), Front(q)>> \in Levels(old, new), SameField(old, new, p, q),
             Descends(FieldAt(old, p), FieldAt(new, q)), g = Inside(old, p), h = Inside(new, q)
      PROVE  <<g, h>> \in Levels(old, new)
  <2>1. Front(p) \in DOMAIN old /\ p \in PathsIn(old, Front(p))
    BY PathFacts
  <2>2. Front(q) \in DOMAIN new /\ q \in PathsIn(new, Front(q))
    BY PathFacts
  <2>3. <<g, h>> \in LevelsBelow(old, new, <<Front(p), Front(q)>>)
    BY <1>2, <2>1, <2>2, BelowFacts
  <2> QED
    BY <1>2, <2>3, LevelsAreClosed DEF IsClosed
<1>3. g = <<>> /\ h = <<>> => <<g, h>> \in Levels(old, new)
  BY LevelsAreClosed DEF Top
<1>4. <<g, h>> = Top <=> g = <<>> /\ h = <<>>
  BY DEF Top
<1> QED
  BY <1>1, <1>2, <1>3, <1>4

(* A level is compared with one level at most. *)
LEMMA LevelUnique ==
    ASSUME NEW old, NEW new, WellFormed(old), WellFormed(new)
    PROVE  \A lv, mv \in Levels(old, new) : lv[1] = mv[1] => lv = mv
<1> DEFINE differ(lv) == \E mv \in Levels(old, new) : lv[1] = mv[1] /\ lv # mv
           bad == {lv \in Levels(old, new) : differ(lv)}
           lengths == {Len(lv[1]) : lv \in bad}
<1>1. SUFFICES ASSUME bad # {} PROVE FALSE
  OBVIOUS
<1>2. lengths \subseteq Nat /\ lengths # {}
  <2>1. \A lv \in Levels(old, new) : lv[1] \in DOMAIN old
    BY DEF Levels, Domains
  <2>2. \A g \in DOMAIN old : Len(g) \in Nat
    BY SchemaFacts, LenProperties
  <2> QED
    BY <1>1, <2>1, <2>2
<1>3. PICK n \in lengths : \A m \in lengths : n <= m
  <2> HIDE DEF lengths
  <2> QED BY <1>2, Least
<1>4. PICK lv \in bad : \A kv \in bad : Len(lv[1]) <= Len(kv[1])
  BY <1>3
<1>5. PICK mv \in Levels(old, new) : lv[1] = mv[1] /\ lv # mv
  BY <1>4
<1>6. lv \in Levels(old, new) /\ lv = <<lv[1], lv[2]>> /\ mv = <<mv[1], mv[2]>>
  BY DEF Levels, Domains
<1>7. \A p \in Paths(old) : Inside(old, p) # <<>> /\ Len(Front(p)) < Len(Inside(old, p))
      /\ Len(Front(p)) \in Nat /\ Len(Inside(old, p)) \in Nat
  <2>1. \A p \in Paths(old) : Len(Inside(old, p)) > Len(Front(p)) /\ Len(Inside(old, p)) \in Nat
    BY InsideFacts
  <2>2. \A p \in Paths(old) : Len(Front(p)) \in Nat
    BY PathFacts
  <2>3. Len(<<>>) = 0
    OBVIOUS
  <2> QED
    BY <2>1, <2>2, <2>3
<1>8. CASE lv[1] = <<>>
  <2>1. lv[2] = <<>> /\ mv[2] = <<>>
    <3>1. <<lv[1], lv[2]>> \in Levels(old, new) /\ <<mv[1], mv[2]>> \in Levels(old, new)
      BY <1>6
    <3>2. ASSUME NEW x, NEW y, <<x, y>> \in Levels(old, new)
          PROVE  (x = <<>> /\ y = <<>>) \/ \E p \in Paths(old) : x = Inside(old, p)
      <4>1. \/ x = <<>> /\ y = <<>>
            \/ \E p \in Paths(old), q \in Paths(new) :
                    /\ <<Front(p), Front(q)>> \in Levels(old, new) /\ SameField(old, new, p, q)
                    /\ Descends(FieldAt(old, p), FieldAt(new, q))
                    /\ x = Inside(old, p) /\ y = Inside(new, q)
        BY <3>2, LevelMeans
      <4> QED
        BY <4>1
    <3> QED
      BY <1>5, <1>7, <1>8, <3>1, <3>2
  <2> QED
    BY <1>5, <1>6, <2>1
<1>9. CASE lv[1] # <<>>
  <2>1. PICK p \in Paths(old), q \in Paths(new) :
                    /\ <<Front(p), Front(q)>> \in Levels(old, new) /\ SameField(old, new, p, q)
                    /\ lv[1] = Inside(old, p) /\ lv[2] = Inside(new, q)
    <3>1. <<lv[1], lv[2]>> \in Levels(old, new)
      BY <1>6
    <3> QED
      BY <1>9, <3>1, LevelMeans
  <2>2. PICK r \in Paths(old), s \in Paths(new) :
                    /\ <<Front(r), Front(s)>> \in Levels(old, new) /\ SameField(old, new, r, s)
                    /\ mv[1] = Inside(old, r) /\ mv[2] = Inside(new, s)
    <3>1. <<mv[1], mv[2]>> \in Levels(old, new) /\ mv[1] # <<>>
      BY <1>5, <1>6, <1>9
    <3> QED
      BY <3>1, LevelMeans
  <2>3. p = r
    BY <1>5, <2>1, <2>2, InsideUnique
  <2> DEFINE above == <<Front(p), Front(q)>>
             other == <<Front(p), Front(s)>>
  <2>4. above = other
    <3>1. above[1] = other[1] /\ above[1] = Front(p) /\ above \in Levels(old, new) /\ other \in Levels(old, new)
      BY <2>1, <2>2, <2>3
    <3>2. ~(Len(lv[1]) <= Len(above[1]))
      BY <1>7, <2>1, <3>1
    <3> HIDE DEF bad, above, other
    <3>3. above \notin bad
      BY <1>4, <3>2
    <3>4. ~differ(above)
      BY <3>1, <3>3 DEF bad
    <3> QED
      BY <3>1, <3>4
  <2>5. Front(q) = Front(s)
    BY <2>4
  <2>6. q = s
    BY <2>1, <2>2, <2>3, <2>5, SameFieldUnique
  <2> QED
    BY <1>5, <1>6, <2>1, <2>2, <2>6
<1> QED
  BY <1>8, <1>9

(* Read backwards, the same levels are compared. *)
LEMMA LevelsBack ==
    ASSUME NEW old, NEW new, WellFormed(old), WellFormed(new), NEW lv \in Levels(old, new)
    PROVE  <<lv[2], lv[1]>> \in Levels(new, old) /\ lv = <<lv[1], lv[2]>>
<1> DEFINE back(mv) == <<mv[2], mv[1]>>
           S == {mv \in Domains(old, new) : back(mv) \in Levels(new, old)}
<1>1. Top \in S
  <2>1. back(Top) = Top
    BY DEF Top
  <2> QED
    BY <2>1, TopIsThere, LevelsAreClosed
<1>2. IsClosed(old, new, S)
  <2> SUFFICES ASSUME NEW mv \in S, NEW x \in LevelsBelow(old, new, mv) PROVE x \in S
    BY DEF IsClosed
  <2>1. PICK g \in DOMAIN old, h \in DOMAIN new : mv = <<g, h>>
    BY DEF Domains
  <2>2. PICK p \in PathsIn(old, g), q \in PathsIn(new, h) :
                  /\ SameField(old, new, p, q) /\ Descends(FieldAt(old, p), FieldAt(new, q))
                  /\ x = <<Inside(old, p), Inside(new, q)>>
    BY <2>1, BelowFacts
  <2>3. x \in Domains(old, new)
    BY TopIsThere DEF IsClosed
  <2>4. SameField(new, old, q, p) /\ Descends(FieldAt(new, q), FieldAt(old, p))
    BY <2>2, SameFieldBack DEF Descends
  <2>5. <<h, g>> \in Levels(new, old)
    BY <2>1
  <2>6. <<Inside(new, q), Inside(old, p)>> \in LevelsBelow(new, old, <<h, g>>)
    BY <2>4, BelowFacts
  <2>7. <<Inside(new, q), Inside(old, p)>> \in Levels(new, old)
    BY <2>5, <2>6, LevelsAreClosed DEF IsClosed
  <2>8. back(x) = <<Inside(new, q), Inside(old, p)>>
    BY <2>2
  <2> QED
    BY <2>3, <2>7, <2>8
<1>3. lv \in S
  <2>1. S \in SUBSET Domains(old, new)
    OBVIOUS
  <2> HIDE DEF S
  <2> QED
    BY <1>1, <1>2, <2>1 DEF Levels
<1>4. lv = <<lv[1], lv[2]>>
  BY DEF Levels, Domains
<1> QED
  BY <1>3, <1>4

(* A set with one element at most for each of a finite set is finite.      *)
LEMMA FiniteByPlaces ==
    ASSUME NEW S, NEW T, IsFiniteSet(T), NEW f \in [S -> T], \A x, y \in S : f[x] = f[y] => x = y
    PROVE  IsFiniteSet(S) /\ Cardinality(S) <= Cardinality(T)
<1>1. f \in Injection(S, T)
  BY DEF Injection, IsInjective
<1> QED
  BY <1>1, FS_Injection

(* No more pairs of levels are compared than the old schema has levels. *)
LEMMA LevelsAreFinite ==
    ASSUME NEW old, NEW new, WellFormed(old), WellFormed(new)
    PROVE  IsFiniteSet(Levels(old, new)) /\ Cardinality(Levels(old, new)) <= Cardinality(DOMAIN old)
<1> DEFINE f == [lv \in Levels(old, new) |-> lv[1]]
<1>1. f \in [Levels(old, new) -> DOMAIN old]
  BY DEF Levels, Domains
<1>2. \A lv, mv \in Levels(old, new) : f[lv] = f[mv] => lv = mv
  BY LevelUnique
<1>3. IsFiniteSet(DOMAIN old)
  BY SchemaFacts
<1> HIDE DEF f
<1> QED
  BY <1>1, <1>2, <1>3, FiniteByPlaces

(* Each step of the recursion stays within those levels, and one that adds *)
(* nothing has them all.                                                   *)
LEMMA ReachFacts ==
    ASSUME NEW old, NEW new, WellFormed(old), WellFormed(new), NEW f, Reaches(old, new, f), NEW n \in Nat
    PROVE  /\ f[n] \subseteq Levels(old, new) /\ Top \in f[n]
           /\ f[n] \subseteq f[n + 1]
           /\ f[n] = f[n + 1] => f[n] = Levels(old, new)
<1> DEFINE good(k) == f[k] \subseteq Levels(old, new) /\ Top \in f[k]
           bad == {k \in Nat : ~good(k)}
<1>1. f[0] = {Top} /\ \A k \in Nat : f[k + 1] = Further(old, new, f[k])
  BY ReachSteps
<1>2. bad = {}
  <2> SUFFICES ASSUME bad # {} PROVE FALSE
    OBVIOUS
  <2>1. PICK k \in bad : \A l \in bad : k <= l
    <3>1. bad \subseteq Nat
      OBVIOUS
    <3> HIDE DEF bad
    <3> QED BY <3>1, Least
  <2>2. good(0)
    BY <1>1, LevelsAreClosed
  <2>3. k # 0
    BY <2>2
  <2>4. k - 1 \in Nat /\ ~(k <= k - 1) /\ (k - 1) + 1 = k
    BY <2>3
  <2>5. good(k - 1)
    BY <2>1, <2>4
  <2>6. f[k] = Further(old, new, f[k - 1])
    BY <1>1, <2>4
  <2>7. good(k)
    <3>1. \A lv \in f[k - 1] : LevelsBelow(old, new, lv) \subseteq Levels(old, new)
      BY <2>5, LevelsAreClosed DEF IsClosed
    <3> QED
      BY <2>5, <2>6, <3>1 DEF Further
  <2> QED
    BY <2>7
<1>3. good(n)
  BY <1>2
<1>4. f[n + 1] = Further(old, new, f[n])
  BY <1>1
<1>5. f[n] \subseteq f[n + 1]
  BY <1>4 DEF Further
<1>6. ASSUME f[n] = f[n + 1] PROVE f[n] = Levels(old, new)
  <2>1. \A lv \in f[n] : LevelsBelow(old, new, lv) \subseteq f[n]
    BY <1>4, <1>6 DEF Further
  <2>2. f[n] \in SUBSET Domains(old, new)
    BY <1>3 DEF Levels
  <2>3. Levels(old, new) \subseteq f[n]
    BY <1>3, <2>1, <2>2 DEF Levels, IsClosed
  <2> QED
    BY <1>3, <2>3
<1> QED
  BY <1>3, <1>5, <1>6

(* The bound of the recursion, the number of old levels, is enough: what   *)
(* the diff compares is the smallest closed set.                           *)
LEMMA EveryLevelIsReached ==
    ASSUME NEW old, NEW new, WellFormed(old), WellFormed(new)
    PROVE  MatchedLevels(old, new) = Levels(old, new)
<1> DEFINE c == Cardinality(DOMAIN old)
           all == Levels(old, new)
<1>1. PICK f : Reaches(old, new, f) /\ MatchedLevels(old, new) = f[c]
  BY ReachIs
<1>2. c \in Nat
  BY SchemaFacts, FS_CardinalityType
<1>3. IsFiniteSet(all) /\ Cardinality(all) <= c /\ Cardinality(all) \in Nat
  BY LevelsAreFinite, FS_CardinalityType
<1> HIDE DEF all, c
<1>4. \A n \in Nat : f[n] \subseteq all /\ Top \in f[n] /\ f[n] \subseteq f[n + 1] /\ (f[n] = f[n + 1] => f[n] = all)
  BY <1>1, ReachFacts DEF all
<1>5. \A n \in Nat : IsFiniteSet(f[n]) /\ Cardinality(f[n]) \in Nat /\ Cardinality(f[n]) <= Cardinality(all)
  <2> SUFFICES ASSUME NEW n \in Nat
               PROVE  IsFiniteSet(f[n]) /\ Cardinality(f[n]) \in Nat /\ Cardinality(f[n]) <= Cardinality(all)
    OBVIOUS
  <2>1. f[n] \in SUBSET all
    BY <1>4
  <2>2. IsFiniteSet(f[n]) /\ Cardinality(f[n]) <= Cardinality(all)
    BY <1>3, <2>1, FS_Subset
  <2> QED
    BY <2>2, FS_CardinalityType
<1> DEFINE grown(n) == f[n] = all \/ Cardinality(f[n]) >= n + 1
           bad == {n \in Nat : ~grown(n)}
<1>6. bad = {}
  <2> SUFFICES ASSUME bad # {} PROVE FALSE
    OBVIOUS
  <2>1. PICK k \in bad : \A l \in bad : k <= l
    <3>1. bad \subseteq Nat
      OBVIOUS
    <3> HIDE DEF bad
    <3> QED BY <3>1, Least
  <2>2. grown(0)
    <3>1. IsFiniteSet(f[0]) /\ Cardinality(f[0]) \in Nat /\ f[0] # {}
      BY <1>4, <1>5
    <3>2. Cardinality(f[0]) # 0
      BY <3>1, FS_EmptySet
    <3> QED
      BY <3>1, <3>2
  <2>3. k # 0
    BY <2>2
  <2>4. k - 1 \in Nat /\ ~(k <= k - 1) /\ (k - 1) + 1 = k /\ k \in Nat
    BY <2>3
  <2>5. grown(k - 1)
    BY <2>1, <2>4
  <2>6. f[k - 1] \subseteq f[k] /\ (f[k - 1] = f[k] => f[k] = all) /\ f[k] \subseteq all
    BY <1>4, <2>4
  <2>7. f[k] # all
    OBVIOUS
  <2>8. f[k - 1] # f[k] /\ f[k - 1] # all
    BY <2>6, <2>7
  <2>9. Cardinality(f[k - 1]) >= k
    BY <2>4, <2>5, <2>8
  <2>10. IsFiniteSet(f[k]) /\ Cardinality(f[k]) \in Nat /\ Cardinality(f[k - 1]) \in Nat
    BY <1>5, <2>4
  <2>11. Cardinality(f[k - 1]) <= Cardinality(f[k]) /\ Cardinality(f[k]) # Cardinality(f[k - 1])
    BY <2>6, <2>8, <2>10, FS_Subset
  <2>12. Cardinality(f[k]) >= k + 1
    BY <2>4, <2>9, <2>10, <2>11
  <2>13. ~grown(k)
    OBVIOUS
  <2> QED
    BY <2>12, <2>13
<1>7. grown(c)
  BY <1>2, <1>6
<1>8. f[c] = all
  <2>1. Cardinality(f[c]) \in Nat /\ Cardinality(f[c]) <= Cardinality(all)
    BY <1>2, <1>5
  <2> QED
    BY <1>2, <1>3, <1>7, <2>1
<1> QED
  BY <1>1, <1>8 DEF all

-----------------------------------------------------------------------------
(***************************************************************************)
(* The pairs of fields                                                     *)
(***************************************************************************)
LEMMA PairMeans ==
    ASSUME NEW old, NEW new, WellFormed(old), WellFormed(new), NEW x
    PROVE  x \in Pairs(old, new) <=>
              \E p \in Paths(old), q \in Paths(new) :
                 /\ x = <<p, q>> /\ <<Front(p), Front(q)>> \in Levels(old, new) /\ SameField(old, new, p, q)
<1>1. Pairs(old, new) = UNION {PairsAt(old, new, lv) : lv \in Levels(old, new)}
  BY EveryLevelIsReached DEF Pairs
<1>2. ASSUME x \in Pairs(old, new)
      PROVE  \E p \in Paths(old), q \in Paths(new) :
                 /\ x = <<p, q>> /\ <<Front(p), Front(q)>> \in Levels(old, new) /\ SameField(old, new, p, q)
  <2>1. PICK lv \in Levels(old, new) : x \in PairsAt(old, new, lv)
    BY <1>1, <1>2
  <2>2. PICK g \in DOMAIN old, h \in DOMAIN new : lv = <<g, h>>
    BY DEF Levels, Domains
  <2>3. x \in {pq \in PathsIn(old, g) \X PathsIn(new, h) : SameField(old, new, pq[1], pq[2])}
    BY <2>1, <2>2, PairsFacts
  <2>4. PICK p \in PathsIn(old, g), q \in PathsIn(new, h) : x = <<p, q>> /\ SameField(old, new, p, q)
    BY <2>3
  <2>5. p \in Paths(old) /\ Front(p) = g
    BY PathsOfLevel
  <2>6. q \in Paths(new) /\ Front(q) = h
    BY PathsOfLevel
  <2> QED
    BY <2>2, <2>4, <2>5, <2>6
<1>3. ASSUME NEW p \in Paths(old), NEW q \in Paths(new),
             x = <<p, q>>, <<Front(p), Front(q)>> \in Levels(old, new), SameField(old, new, p, q)
      PROVE  x \in Pairs(old, new)
  <2>1. Front(p) \in DOMAIN old /\ p \in PathsIn(old, Front(p))
    BY PathFacts
  <2>2. Front(q) \in DOMAIN new /\ q \in PathsIn(new, Front(q))
    BY PathFacts
  <2>3. PairsAt(old, new, <<Front(p), Front(q)>>) =
          {pq \in PathsIn(old, Front(p)) \X PathsIn(new, Front(q)) : SameField(old, new, pq[1], pq[2])}
    BY <2>1, <2>2, PairsFacts
  <2>4. x \in PairsAt(old, new, <<Front(p), Front(q)>>)
    BY <1>3, <2>1, <2>2, <2>3
  <2> QED
    BY <1>1, <1>3, <2>4
<1> QED
  BY <1>2, <1>3

(* Both paths of a pair are there, on two levels that _diff_level          *)
(* compares.                                                               *)
LEMMA PairFacts ==
    ASSUME NEW old, NEW new, WellFormed(old), WellFormed(new), NEW p, NEW q, <<p, q>> \in Pairs(old, new)
    PROVE  /\ p \in Paths(old) /\ q \in Paths(new)
           /\ <<Front(p), Front(q)>> \in Levels(old, new) /\ SameField(old, new, p, q)
<1>1. PICK r \in Paths(old), s \in Paths(new) :
         <<p, q>> = <<r, s>> /\ <<Front(r), Front(s)>> \in Levels(old, new) /\ SameField(old, new, r, s)
  BY PairMeans
<1> QED
  BY <1>1

(* Read backwards, the same fields are paired. *)
LEMMA PairBack ==
    ASSUME NEW old, NEW new, WellFormed(old), WellFormed(new), NEW p, NEW q
    PROVE  <<p, q>> \in Pairs(old, new) <=> <<q, p>> \in Pairs(new, old)
<1>1. ASSUME NEW a, NEW b, WellFormed(a), WellFormed(b), NEW r, NEW s, <<r, s>> \in Pairs(a, b)
      PROVE  <<s, r>> \in Pairs(b, a)
  <2>1. r \in Paths(a) /\ s \in Paths(b) /\ <<Front(r), Front(s)>> \in Levels(a, b) /\ SameField(a, b, r, s)
    BY <1>1, PairFacts
  <2> DEFINE lv == <<Front(r), Front(s)>>
  <2>2. lv[1] = Front(r) /\ lv[2] = Front(s)
    OBVIOUS
  <2>3. <<lv[2], lv[1]>> \in Levels(b, a)
    <3> HIDE DEF lv
    <3>1. lv \in Levels(a, b)
      BY <2>1 DEF lv
    <3> QED
      BY <1>1, <3>1, LevelsBack
  <2>4. SameField(b, a, s, r)
    BY <2>1, SameFieldBack
  <2>5. <<Front(s), Front(r)>> \in Levels(b, a)
    BY <2>2, <2>3
  <2> HIDE DEF lv
  <2> QED
    BY <1>1, <2>1, <2>4, <2>5, PairMeans
<1> QED
  BY <1>1

(* An old field is paired with one new field at most. *)
LEMMA PairUnique ==
    ASSUME NEW old, NEW new, WellFormed(old), WellFormed(new), NEW p, NEW q, NEW r,
           <<p, q>> \in Pairs(old, new), <<p, r>> \in Pairs(old, new)
    PROVE  q = r
<1>1. /\ p \in Paths(old) /\ q \in Paths(new)
      /\ <<Front(p), Front(q)>> \in Levels(old, new) /\ SameField(old, new, p, q)
  BY PairFacts
<1>2. r \in Paths(new) /\ <<Front(p), Front(r)>> \in Levels(old, new) /\ SameField(old, new, p, r)
  BY PairFacts
<1>3. Front(q) = Front(r)
  BY <1>1, <1>2, LevelUnique
<1> QED
  BY <1>1, <1>2, <1>3, SameFieldUnique

(* A new field is paired with one old field at most. *)
LEMMA PairUniqueBack ==
    ASSUME NEW old, NEW new, WellFormed(old), WellFormed(new), NEW p, NEW q, NEW r,
           <<p, q>> \in Pairs(old, new), <<r, q>> \in Pairs(old, new)
    PROVE  p = r
<1>1. <<q, p>> \in Pairs(new, old)
  BY PairBack
<1>2. <<q, r>> \in Pairs(new, old)
  BY PairBack
<1> QED
  BY <1>1, <1>2, PairUnique

(* The pair of p and q holds the levels g and h. *)
Holds(old, new, p, q, g, h) ==
    /\ <<p, q>> \in Pairs(old, new) /\ Descends(FieldAt(old, p), FieldAt(new, q))
    /\ g = Inside(old, p) /\ h = Inside(new, q)

(* Two levels are compared because a pair of fields was, and went on.      *)
LEMMA LevelPair ==
    ASSUME NEW old, NEW new, WellFormed(old), WellFormed(new), NEW g, NEW h, <<g, h>> \in Levels(old, new)
    PROVE  (g = <<>> /\ h = <<>>) \/ \E p \in Paths(old), q \in Paths(new) : Holds(old, new, p, q, g, h)
<1>1. \/ g = <<>> /\ h = <<>>
      \/ \E p \in Paths(old), q \in Paths(new) :
                 /\ <<Front(p), Front(q)>> \in Levels(old, new) /\ SameField(old, new, p, q)
                 /\ Descends(FieldAt(old, p), FieldAt(new, q))
                 /\ g = Inside(old, p) /\ h = Inside(new, q)
  BY LevelMeans
<1>2. \A p \in Paths(old), q \in Paths(new) :
         <<Front(p), Front(q)>> \in Levels(old, new) /\ SameField(old, new, p, q) => <<p, q>> \in Pairs(old, new)
  BY PairMeans
<1> QED
  BY <1>1, <1>2 DEF Holds

(* _diff_pair goes on to the members of two containers of one kind. *)
LEMMA PairGoesDown ==
    ASSUME NEW old, NEW new, WellFormed(old), WellFormed(new), NEW p, NEW q,
           <<p, q>> \in Pairs(old, new), Descends(FieldAt(old, p), FieldAt(new, q))
    PROVE  <<Inside(old, p), Inside(new, q)>> \in Levels(old, new)
<1>1. /\ p \in Paths(old) /\ q \in Paths(new)
      /\ <<Front(p), Front(q)>> \in Levels(old, new) /\ SameField(old, new, p, q)
  BY PairFacts
<1> QED
  BY <1>1, LevelMeans

-----------------------------------------------------------------------------
(***************************************************************************)
(* What a field is inside of                                               *)
(***************************************************************************)

(* The container of the level of a field is what the field is inside of.   *)
LEMMA InsideOf ==
    ASSUME NEW s, WellFormed(s), NEW p \in Paths(s), NEW t \in Paths(s), Front(p) = Inside(s, t)
    PROVE  /\ Below(p, t) /\ Len(t) < Len(p) /\ Len(t) \in Nat /\ Len(p) \in Nat
           /\ \A r \in Paths(s) : Below(p, r) => Under(t, r)
<1>1. /\ p \in Seq(Segments(s)) /\ p = Append(Front(p), Last(p)) /\ Front(p) \in DOMAIN s /\ Last(p) \in Segments(s)
      /\ Len(p) = Len(Front(p)) + 1 /\ Len(p) \in Nat /\ Len(Front(p)) \in Nat
  BY PathFacts
<1>2. t \in Seq(Segments(s)) /\ Len(t) \in Nat
  BY PathFacts
<1>3. Front(p) \in Seq(Segments(s)) /\ "[]" \in Segments(s)
  BY <1>1, SchemaFacts
<1>4. /\ Under(Front(p), t) /\ Len(Front(p)) >= Len(t)
      /\ Front(p) = t \/ (FieldAt(s, t).kind = "map" /\ Front(p) = Append(t, "[]"))
  BY InsideFacts
<1>5. Under(p, t)
  <2>1. Under(Append(Front(p), Last(p)), t) <=> t = Append(Front(p), Last(p)) \/ Under(Front(p), t)
    BY <1>1, <1>2, <1>3, UnderFacts
  <2> QED
    BY <1>1, <1>4, <2>1
<1>6. Len(t) < Len(p)
  BY <1>1, <1>2, <1>4
<1>7. Below(p, t)
  BY <1>1, <1>2, <1>5, <1>6 DEF Below, Under, IsStrictPrefix
<1>8. ASSUME NEW r \in Paths(s), Below(p, r)
      PROVE  Under(t, r)
  <2>1. r \in Seq(Segments(s)) /\ Front(r) \in DOMAIN s
    BY PathFacts
  <2>2. Under(p, r) /\ r # p
    BY <1>8 DEF Below, Under, IsStrictPrefix
  <2>3. Under(Append(Front(p), Last(p)), r) <=> r = Append(Front(p), Last(p)) \/ Under(Front(p), r)
    BY <1>1, <1>3, <2>1, UnderFacts
  <2>4. Under(Front(p), r)
    BY <1>1, <2>2, <2>3
  <2>5. CASE Front(p) = t
    BY <2>4, <2>5
  <2>6. CASE FieldAt(s, t).kind = "map" /\ Front(p) = Append(t, "[]")
    <3>1. Under(Append(t, "[]"), r) <=> r = Append(t, "[]") \/ Under(t, r)
      BY <1>2, <1>3, <2>1, UnderFacts
    <3>2. Front(Append(t, "[]")) = t
      BY <1>2, <1>3, AppendFacts
    <3>3. r # Append(t, "[]")
      BY <2>1, <2>6, <3>2, NoMapLevel
    <3> QED
      BY <2>4, <2>6, <3>1, <3>3
  <2> QED
    BY <1>4, <2>5, <2>6
<1> QED
  BY <1>1, <1>2, <1>6, <1>7, <1>8

(* A field inside another one is not a column. *)
LEMMA NotOnTop ==
    ASSUME NEW s, WellFormed(s), NEW p \in Paths(s), NEW r \in Paths(s), Below(p, r)
    PROVE  Front(p) # <<>>
<1>1. p \in Seq(Segments(s)) /\ Len(p) = Len(Front(p)) + 1
  BY PathFacts
<1>2. r \in Seq(Segments(s)) /\ r # <<>> /\ Len(r) \in Nat /\ Len(r) = Len(Front(r)) + 1 /\ Len(Front(r)) \in Nat
  BY PathFacts
<1>3. Under(p, r) /\ r # p
  BY DEF Below, Under, IsStrictPrefix
<1>4. Len(r) <= Len(p) /\ Len(r) # Len(p)
  BY <1>1, <1>2, <1>3, UnderFacts
<1>5. SUFFICES ASSUME Front(p) = <<>> PROVE FALSE
  OBVIOUS
<1>6. Len(p) = 1
  BY <1>1, <1>5
<1> QED
  BY <1>2, <1>4, <1>6

(* Every field around a paired one is paired too, and compared by members. *)
LEMMA PairsAround ==
    ASSUME NEW old, NEW new, WellFormed(old), WellFormed(new),
           NEW a, NEW b, <<a, b>> \in Pairs(old, new), NEW c \in Paths(old), Below(a, c)
    PROVE  \E d \in Paths(new) : /\ <<c, d>> \in Pairs(old, new) /\ Below(b, d)
                                 /\ Descends(FieldAt(old, c), FieldAt(new, d))
<1> DEFINE holds(p, q, r) == \E s \in Paths(new) : /\ <<r, s>> \in Pairs(old, new) /\ Below(q, s)
                                                   /\ Descends(FieldAt(old, r), FieldAt(new, s))
           bad == {p \in Paths(old) : \E q \in Paths(new), r \in Paths(old) :
                                         <<p, q>> \in Pairs(old, new) /\ Below(p, r) /\ ~holds(p, q, r)}
           lengths == {Len(p) : p \in bad}
<1>1. ASSUME bad # {} PROVE FALSE
  <2>1. lengths \subseteq Nat /\ lengths # {}
    <3>1. \A p \in Paths(old) : Len(p) \in Nat
      BY PathFacts
    <3> QED
      BY <1>1, <3>1
  <2>2. PICK n \in lengths : \A m \in lengths : n <= m
    <3> HIDE DEF lengths
    <3> QED BY <2>1, Least
  <2>3. PICK p \in bad : \A t \in bad : Len(p) <= Len(t)
    BY <2>2
  <2>4. p \in Paths(old) /\ \E q \in Paths(new), r \in Paths(old) :
                                         <<p, q>> \in Pairs(old, new) /\ Below(p, r) /\ ~holds(p, q, r)
    BY <2>3
  <2>5. PICK q \in Paths(new), r \in Paths(old) : <<p, q>> \in Pairs(old, new) /\ Below(p, r) /\ ~holds(p, q, r)
    BY <2>4
  <2>6. Front(p) # <<>> /\ <<Front(p), Front(q)>> \in Levels(old, new)
    BY <2>4, <2>5, NotOnTop, PairFacts
  <2>w. PICK t \in Paths(old), u \in Paths(new) : Holds(old, new, t, u, Front(p), Front(q))
    BY <2>6, LevelPair
  <2>7. /\ <<t, u>> \in Pairs(old, new) /\ Descends(FieldAt(old, t), FieldAt(new, u))
        /\ Front(p) = Inside(old, t) /\ Front(q) = Inside(new, u)
    BY <2>w DEF Holds
  <2>8. Under(t, r) /\ Len(t) < Len(p) /\ Len(t) \in Nat /\ Len(p) \in Nat
    BY <2>4, <2>5, <2>7, InsideOf
  <2>9. Below(q, u)
    BY <2>7, InsideOf
  <2>10. CASE t = r
    BY <2>5, <2>7, <2>9, <2>10
  <2>11. CASE t # r
    <3>1. Below(t, r)
      BY <2>8, <2>11 DEF Below, Under, IsStrictPrefix
    <3>2. t \notin bad
      <4> HIDE DEF bad
      <4> QED BY <2>3, <2>8
    <3>3. holds(t, u, r)
      BY <2>7, <3>1, <3>2
    <3>4. PICK s \in Paths(new) : /\ <<r, s>> \in Pairs(old, new) /\ Below(u, s)
                                  /\ Descends(FieldAt(old, r), FieldAt(new, s))
      BY <3>3
    <3>5. Below(q, s)
      <4>1. q \in Seq(Segments(new)) /\ Len(q) \in Nat
        BY PathFacts
      <4>2. u \in Seq(Segments(new)) /\ Len(u) \in Nat
        BY PathFacts
      <4>3. s \in Seq(Segments(new)) /\ Len(s) \in Nat
        BY PathFacts
      <4>4. Under(q, u) /\ Under(u, s)
        BY <2>9, <3>4 DEF Below, Under, IsStrictPrefix
      <4>5. Under(q, s)
        BY <4>1, <4>2, <4>3, <4>4, UnderFacts
      <4>6. Len(s) <= Len(u)
        BY <4>2, <4>3, <4>4, UnderFacts
      <4>7. Len(u) < Len(q)
        BY <2>7, InsideOf
      <4>8. s # q
        BY <4>1, <4>2, <4>3, <4>6, <4>7
      <4> QED
        BY <4>5, <4>8 DEF Below, Under, IsStrictPrefix
    <3> QED
      BY <2>5, <3>4, <3>5
  <2> QED
    BY <2>10, <2>11
<1>2. \A p \in Paths(old), q \in Paths(new), r \in Paths(old) :
         <<p, q>> \in Pairs(old, new) /\ Below(p, r) => holds(p, q, r)
  BY <1>1
<1>3. a \in Paths(old) /\ b \in Paths(new)
  BY PairFacts
<1>4. holds(a, b, c)
  <2> HIDE DEF holds
  <2> QED BY <1>2, <1>3
<1> QED
  BY <1>4

-----------------------------------------------------------------------------
(***************************************************************************)
(* The mutations of each kind                                              *)
(***************************************************************************)
Retypes(old, new, lv) ==
    {change_type(pq[2], TypeOf(old, pq[1]), TypeOf(new, pq[2])) :
        pq \in {xy \in PairsAt(old, new, lv) : /\ ~Descends(FieldAt(old, xy[1]), FieldAt(new, xy[2]))
                                               /\ TypeOf(old, xy[1]) # TypeOf(new, xy[2])}}

Relaxes(old, new, lv) ==
    {change_nullability(pq[2], FieldAt(old, pq[1]).null, FieldAt(new, pq[2]).null) :
        pq \in {xy \in PairsAt(old, new, lv) : FieldAt(old, xy[1]).null # FieldAt(new, xy[2]).null}}

(* What _diff_pair reports of the pairs of a level, by kind. *)
LEMMA PairMutations ==
    ASSUME NEW old, NEW new, NEW lv
    PROVE  UNION {diff_pair(old, new, pq) : pq \in PairsAt(old, new, lv)}
              = Retypes(old, new, lv) \cup Relaxes(old, new, lv)
<1> DEFINE pairs == PairsAt(old, new, lv)
           kept(pq) == Descends(FieldAt(old, pq[1]), FieldAt(new, pq[2]))
           same(pq) == TypeOf(old, pq[1]) = TypeOf(new, pq[2])
           type(pq) == change_type(pq[2], TypeOf(old, pq[1]), TypeOf(new, pq[2]))
           equal(pq) == FieldAt(old, pq[1]).null = FieldAt(new, pq[2]).null
           null(pq) == change_nullability(pq[2], FieldAt(old, pq[1]).null, FieldAt(new, pq[2]).null)
<1>1. \A pq \in pairs : diff_pair(old, new, pq) =
          (IF ~kept(pq) /\ ~same(pq) THEN {type(pq)} ELSE {}) \cup (IF ~equal(pq) THEN {null(pq)} ELSE {})
  BY DEF diff_pair
<1>2. Retypes(old, new, lv) = {type(pq) : pq \in {xy \in pairs : ~kept(xy) /\ ~same(xy)}}
  BY DEF Retypes
<1>3. Relaxes(old, new, lv) = {null(pq) : pq \in {xy \in pairs : ~equal(xy)}}
  BY DEF Relaxes
<1> HIDE DEF pairs, kept, same, type, equal, null
<1>4. UNION {diff_pair(old, new, pq) : pq \in pairs}
        = {type(pq) : pq \in {xy \in pairs : ~kept(xy) /\ ~same(xy)}}
             \cup {null(pq) : pq \in {xy \in pairs : ~equal(xy)}}
  BY <1>1
<1> QED
  BY <1>2, <1>3, <1>4 DEF pairs

(* Each part of the diff of a level makes mutations of one kind.           *)
LEMMA KindsOfParts ==
    ASSUME NEW old, NEW new, NEW lv
    PROVE  /\ \A m \in Removals(old, new, lv) : m.kind = "remove_field"
           /\ \A m \in Renames(old, new, lv) : m.kind = "rename_field"
           /\ \A m \in Additions(old, new, lv) : m.kind = "add_field"
           /\ \A m \in Reorders(old, new, lv) : m.kind = "reorder_fields"
           /\ \A m \in Retypes(old, new, lv) : m.kind = "change_type"
           /\ \A m \in Relaxes(old, new, lv) : m.kind = "change_nullability"
<1>1. \A p, t, n : remove_field(p, t, n).kind = "remove_field"
  BY DEF remove_field
<1>2. \A p, t, n : rename_field(p, t, n).kind = "rename_field"
  BY DEF rename_field
<1>3. \A p, t, n : add_field(p, t, n).kind = "add_field"
  BY DEF add_field
<1>4. \A p, t, n : reorder_fields(p, t, n).kind = "reorder_fields"
  BY DEF reorder_fields
<1>5. \A p, t, n : change_type(p, t, n).kind = "change_type"
  BY DEF change_type
<1>6. \A p, t, n : change_nullability(p, t, n).kind = "change_nullability"
  BY DEF change_nullability
<1>7. \A m \in Removals(old, new, lv) : m.kind = "remove_field"
  BY <1>1 DEF Removals
<1>8. \A m \in Renames(old, new, lv) : m.kind = "rename_field"
  BY <1>2 DEF Renames
<1>9. \A m \in Additions(old, new, lv) : m.kind = "add_field"
  BY <1>3 DEF Additions
<1>10. \A m \in Reorders(old, new, lv) : m.kind = "reorder_fields"
  BY <1>4 DEF Reorders
<1>11. \A m \in Retypes(old, new, lv) : m.kind = "change_type"
  BY <1>5 DEF Retypes
<1>12. \A m \in Relaxes(old, new, lv) : m.kind = "change_nullability"
  BY <1>6 DEF Relaxes
<1> QED
  BY <1>7, <1>8, <1>9, <1>10, <1>11, <1>12

(* The diff, by kinds. *)
LEMMA DiffByKinds ==
    ASSUME NEW old, NEW new, WellFormed(old), WellFormed(new), NEW m
    PROVE  /\ m \in OfKind(diff_schemas(old, new), "remove_field") <=>
                  \E lv \in Levels(old, new) : m \in Removals(old, new, lv)
           /\ m \in OfKind(diff_schemas(old, new), "rename_field") <=>
                  \E lv \in Levels(old, new) : m \in Renames(old, new, lv)
           /\ m \in OfKind(diff_schemas(old, new), "add_field") <=>
                  \E lv \in Levels(old, new) : m \in Additions(old, new, lv)
           /\ m \in OfKind(diff_schemas(old, new), "reorder_fields") <=>
                  \E lv \in Levels(old, new) : m \in Reorders(old, new, lv)
           /\ m \in OfKind(diff_schemas(old, new), "change_type") <=>
                  \E lv \in Levels(old, new) : m \in Retypes(old, new, lv)
           /\ m \in OfKind(diff_schemas(old, new), "change_nullability") <=>
                  \E lv \in Levels(old, new) : m \in Relaxes(old, new, lv)
           /\ m \in diff_schemas(old, new) =>
                  m.kind \in {"remove_field", "rename_field", "add_field", "reorder_fields",
                              "change_type", "change_nullability"}
<1>1. m \in diff_schemas(old, new) <=>
         \E lv \in Levels(old, new) :
            \/ m \in Removals(old, new, lv) \/ m \in Renames(old, new, lv) \/ m \in Additions(old, new, lv)
            \/ m \in Reorders(old, new, lv) \/ m \in Retypes(old, new, lv) \/ m \in Relaxes(old, new, lv)
  <2>1. diff_schemas(old, new) = UNION {diff_level(old, new, lv) : lv \in Levels(old, new)}
    BY EveryLevelIsReached DEF diff_schemas
  <2>2. \A lv : diff_level(old, new, lv) =
                   Removals(old, new, lv) \cup Renames(old, new, lv) \cup Additions(old, new, lv)
                     \cup Reorders(old, new, lv) \cup Retypes(old, new, lv) \cup Relaxes(old, new, lv)
    BY PairMutations DEF diff_level
  <2> QED
    BY <2>1, <2>2
<1>2. \A k : m \in OfKind(diff_schemas(old, new), k) <=> m \in diff_schemas(old, new) /\ m.kind = k
  BY DEF OfKind
<1> QED
  BY <1>1, <1>2, KindsOfParts

(* The fields of old that are looked for in new, and not found.            *)
Lost(old, new) ==
    {p \in Paths(old) : /\ \E h : <<Front(p), h>> \in Levels(old, new)
                        /\ \A q \in Paths(new) : <<p, q>> \notin Pairs(old, new)}

(* The members of Pairs are pairs of an old and a new path. *)
LEMMA PairIs ==
    ASSUME NEW old, NEW new, WellFormed(old), WellFormed(new), NEW x \in Pairs(old, new)
    PROVE  x = <<x[1], x[2]>> /\ x[1] \in Paths(old) /\ x[2] \in Paths(new)
<1>1. PICK p \in Paths(old), q \in Paths(new) :
         x = <<p, q>> /\ <<Front(p), Front(q)>> \in Levels(old, new) /\ SameField(old, new, p, q)
  BY PairMeans
<1> QED
  BY <1>1

(* The pairs of a level are the pairs with these two levels in front. *)
LEMMA PairsOfLevel ==
    ASSUME NEW old, NEW new, WellFormed(old), WellFormed(new), NEW lv \in Levels(old, new), NEW x
    PROVE  x \in PairsAt(old, new, lv) <=> x \in Pairs(old, new) /\ <<Front(x[1]), Front(x[2])>> = lv
<1>1. PICK g \in DOMAIN old, h \in DOMAIN new : lv = <<g, h>>
  BY DEF Levels, Domains
<1>2. PairsAt(old, new, lv) = {pq \in PathsIn(old, g) \X PathsIn(new, h) : SameField(old, new, pq[1], pq[2])}
  BY <1>1, PairsFacts
<1>3. PathsIn(old, g) = {p \in Paths(old) : Front(p) = g}
  BY PathsOfLevel
<1>4. PathsIn(new, h) = {p \in Paths(new) : Front(p) = h}
  BY PathsOfLevel
<1>5. ASSUME x \in PairsAt(old, new, lv)
      PROVE  x \in Pairs(old, new) /\ <<Front(x[1]), Front(x[2])>> = lv
  <2>1. PICK p \in PathsIn(old, g), q \in PathsIn(new, h) : x = <<p, q>> /\ SameField(old, new, p, q)
    BY <1>2, <1>5
  <2>2. p \in Paths(old) /\ q \in Paths(new) /\ Front(p) = g /\ Front(q) = h
    BY <1>3, <1>4
  <2>3. <<p, q>> \in Pairs(old, new)
    BY <1>1, <2>1, <2>2, PairMeans
  <2> QED
    BY <1>1, <2>1, <2>2, <2>3
<1>6. ASSUME x \in Pairs(old, new), <<Front(x[1]), Front(x[2])>> = lv
      PROVE  x \in PairsAt(old, new, lv)
  <2>1. x = <<x[1], x[2]>> /\ x[1] \in Paths(old) /\ x[2] \in Paths(new)
    BY <1>6, PairIs
  <2>2. SameField(old, new, x[1], x[2])
    BY <1>6, <2>1, PairFacts
  <2>3. Front(x[1]) = g /\ Front(x[2]) = h
    BY <1>1, <1>6
  <2>4. x[1] \in PathsIn(old, g) /\ x[2] \in PathsIn(new, h)
    BY <1>3, <1>4, <2>1, <2>3
  <2> QED
    BY <1>2, <2>1, <2>2, <2>4
<1> QED
  BY <1>5, <1>6

(* What _diff_level finds no partner for on a level are the lost fields of *)
(* that level.                                                             *)
LEMMA LostOfLevel ==
    ASSUME NEW old, NEW new, WellFormed(old), WellFormed(new), NEW lv \in Levels(old, new)
    PROVE  /\ PathsIn(old, lv[1]) \ {pq[1] : pq \in PairsAt(old, new, lv)} = {p \in Lost(old, new) : Front(p) = lv[1]}
           /\ PathsIn(new, lv[2]) \ {pq[2] : pq \in PairsAt(old, new, lv)} = {q \in Lost(new, old) : Front(q) = lv[2]}
<1>1. PICK g \in DOMAIN old, h \in DOMAIN new : lv = <<g, h>>
  BY DEF Levels, Domains
<1>2. <<h, g>> \in Levels(new, old)
  <2>1. <<lv[2], lv[1]>> \in Levels(new, old)
    BY LevelsBack
  <2> QED
    BY <1>1, <2>1
<1>3. PathsIn(old, g) = {p \in Paths(old) : Front(p) = g}
  BY PathsOfLevel
<1>4. PathsIn(new, h) = {p \in Paths(new) : Front(p) = h}
  BY PathsOfLevel
<1>5. ASSUME NEW p \in Paths(old), Front(p) = g, NEW q, <<p, q>> \in Pairs(old, new)
      PROVE  Front(q) = h
  <2>1. <<g, Front(q)>> \in Levels(old, new)
    BY <1>5, PairFacts
  <2> QED
    BY <1>1, <2>1, LevelUnique
<1>6. ASSUME NEW q \in Paths(new), Front(q) = h, NEW p, <<p, q>> \in Pairs(old, new)
      PROVE  Front(p) = g
  <2>1. <<Front(p), h>> \in Levels(old, new)
    BY <1>6, PairFacts
  <2> DEFINE mv == <<Front(p), h>>
  <2>2. <<mv[2], mv[1]>> \in Levels(new, old)
    <3>1. mv \in Levels(old, new)
      BY <2>1
    <3> HIDE DEF mv
    <3> QED BY <3>1, LevelsBack
  <2>3. <<h, Front(p)>> \in Levels(new, old)
    BY <2>2
  <2> QED
    BY <1>2, <2>3, LevelUnique
<1>7. ASSUME NEW p \in Paths(old), Front(p) = g
      PROVE  p \in {pq[1] : pq \in PairsAt(old, new, lv)} <=> \E q \in Paths(new) : <<p, q>> \in Pairs(old, new)
  <2>1. ASSUME NEW pq \in PairsAt(old, new, lv), p = pq[1] PROVE \E q \in Paths(new) : <<p, q>> \in Pairs(old, new)
    <3>1. pq \in Pairs(old, new)
      BY PairsOfLevel
    <3>2. pq = <<p, pq[2]>> /\ pq[2] \in Paths(new)
      BY <2>1, <3>1, PairIs
    <3> QED
      BY <3>1, <3>2
  <2>2. ASSUME NEW q \in Paths(new), <<p, q>> \in Pairs(old, new) PROVE <<p, q>> \in PairsAt(old, new, lv)
    <3>1. <<Front(p), Front(q)>> = lv
      BY <1>1, <1>5, <1>7, <2>2
    <3> QED
      BY <2>2, <3>1, PairsOfLevel
  <2>3. \A q : <<p, q>>[1] = p
    OBVIOUS
  <2> QED
    BY <2>1, <2>2, <2>3
<1>8. ASSUME NEW q \in Paths(new), Front(q) = h
      PROVE  q \in {pq[2] : pq \in PairsAt(old, new, lv)} <=> \E p \in Paths(old) : <<p, q>> \in Pairs(old, new)
  <2>1. ASSUME NEW pq \in PairsAt(old, new, lv), q = pq[2] PROVE \E p \in Paths(old) : <<p, q>> \in Pairs(old, new)
    <3>1. pq \in Pairs(old, new)
      BY PairsOfLevel
    <3>2. pq = <<pq[1], q>> /\ pq[1] \in Paths(old)
      BY <2>1, <3>1, PairIs
    <3> QED
      BY <3>1, <3>2
  <2>2. ASSUME NEW p \in Paths(old), <<p, q>> \in Pairs(old, new) PROVE <<p, q>> \in PairsAt(old, new, lv)
    <3>1. <<Front(p), Front(q)>> = lv
      BY <1>1, <1>6, <1>8, <2>2
    <3> QED
      BY <2>2, <3>1, PairsOfLevel
  <2>3. \A p : <<p, q>>[2] = q
    OBVIOUS
  <2> QED
    BY <2>1, <2>2, <2>3
<1>9. \A p \in Paths(old) : Front(p) = g =>
         (p \in Lost(old, new) <=> ~ \E q \in Paths(new) : <<p, q>> \in Pairs(old, new))
  BY <1>1 DEF Lost
<1>10. \A q \in Paths(new) : Front(q) = h =>
         (q \in Lost(new, old) <=> ~ \E p \in Paths(old) : <<p, q>> \in Pairs(old, new))
  <2>1. \A q \in Paths(new), p \in Paths(old) : <<p, q>> \in Pairs(old, new) <=> <<q, p>> \in Pairs(new, old)
    BY PairBack
  <2> QED
    BY <1>2, <2>1 DEF Lost
<1>11. Lost(old, new) \subseteq Paths(old) /\ Lost(new, old) \subseteq Paths(new) /\ lv[1] = g /\ lv[2] = h
  BY <1>1 DEF Lost
<1>12. PathsIn(old, g) \ {pq[1] : pq \in PairsAt(old, new, lv)} = {p \in Lost(old, new) : Front(p) = g}
  BY <1>3, <1>7, <1>9, <1>11
<1>13. PathsIn(new, h) \ {pq[2] : pq \in PairsAt(old, new, lv)} = {q \in Lost(new, old) : Front(q) = h}
  BY <1>4, <1>8, <1>10, <1>11
<1> QED
  BY <1>11, <1>12, <1>13

(* What is removed: the lost fields of old, ... *)
LEMMA RemovedMeans ==
    ASSUME NEW old, NEW new, WellFormed(old), WellFormed(new), NEW m
    PROVE  m \in OfKind(diff_schemas(old, new), "remove_field") <=>
              \E p \in Lost(old, new) : m = remove_field(p, TypeOf(old, p), FieldAt(old, p).null)
<1> DEFINE of(p) == remove_field(p, TypeOf(old, p), FieldAt(old, p).null)
<1>1. \A lv \in Levels(old, new) : Removals(old, new, lv) = {of(p) : p \in {r \in Lost(old, new) : Front(r) = lv[1]}}
  BY LostOfLevel DEF Removals
<1>2. \A p \in Lost(old, new) : \E lv \in Levels(old, new) : Front(p) = lv[1]
  <2>1. \A p, h : <<Front(p), h>>[1] = Front(p)
    OBVIOUS
  <2> QED
    BY <2>1 DEF Lost
<1> HIDE DEF of
<1>3. (\E lv \in Levels(old, new) : m \in Removals(old, new, lv)) <=> \E p \in Lost(old, new) : m = of(p)
  BY <1>1, <1>2
<1> QED
  BY <1>3, DiffByKinds DEF of

(* ... what is added: the fields of new nothing in old is found for, ... *)
LEMMA AddedMeans ==
    ASSUME NEW old, NEW new, WellFormed(old), WellFormed(new), NEW m
    PROVE  m \in OfKind(diff_schemas(old, new), "add_field") <=>
              \E q \in Lost(new, old) : m = add_field(q, TypeOf(new, q), FieldAt(new, q).null)
<1> DEFINE of(p) == add_field(p, TypeOf(new, p), FieldAt(new, p).null)
<1>1. \A lv \in Levels(old, new) : Additions(old, new, lv) = {of(p) : p \in {r \in Lost(new, old) : Front(r) = lv[2]}}
  BY LostOfLevel DEF Additions
<1>2. \A p \in Lost(new, old) : \E lv \in Levels(old, new) : Front(p) = lv[2]
  <2> SUFFICES ASSUME NEW p \in Lost(new, old) PROVE \E lv \in Levels(old, new) : Front(p) = lv[2]
    OBVIOUS
  <2>1. PICK h : <<Front(p), h>> \in Levels(new, old)
    BY DEF Lost
  <2> DEFINE mv == <<Front(p), h>>
  <2>2. mv \in Levels(new, old) /\ mv[1] = Front(p) /\ mv[2] = h
    BY <2>1
  <2> HIDE DEF mv
  <2>3. <<mv[2], mv[1]>> \in Levels(old, new)
    BY <2>2, LevelsBack
  <2>4. <<h, Front(p)>> \in Levels(old, new) /\ <<h, Front(p)>>[2] = Front(p)
    BY <2>2, <2>3
  <2> QED
    BY <2>4
<1> HIDE DEF of
<1>3. (\E lv \in Levels(old, new) : m \in Additions(old, new, lv)) <=> \E p \in Lost(new, old) : m = of(p)
  BY <1>1, <1>2
<1> QED
  BY <1>3, DiffByKinds DEF of

(* A property of the pairs of all levels is one of the pairs.              *)
LEMMA AllPairs ==
    ASSUME NEW old, NEW new, WellFormed(old), WellFormed(new)
    PROVE  Pairs(old, new) = UNION {PairsAt(old, new, lv) : lv \in Levels(old, new)}
BY EveryLevelIsReached DEF Pairs

(* ... renamed: the pairs of fields with two names, ... *)
LEMMA RenamedMeans ==
    ASSUME NEW old, NEW new, WellFormed(old), WellFormed(new), NEW m
    PROVE  m \in OfKind(diff_schemas(old, new), "rename_field") <=>
              \E pq \in Pairs(old, new) : /\ Last(pq[1]) # Last(pq[2])
                                          /\ m = rename_field(pq[1], pq[2], FieldAt(new, pq[2]).id)
<1> DEFINE of(pq) == rename_field(pq[1], pq[2], FieldAt(new, pq[2]).id)
           is(pq) == Last(pq[1]) # Last(pq[2])
<1>1. \A lv : Renames(old, new, lv) = {of(pq) : pq \in {xy \in PairsAt(old, new, lv) : is(xy)}}
  BY DEF Renames
<1>2. Pairs(old, new) = UNION {PairsAt(old, new, lv) : lv \in Levels(old, new)}
  BY AllPairs
<1> HIDE DEF of, is
<1>3. (\E lv \in Levels(old, new) : m \in Renames(old, new, lv)) <=> \E pq \in Pairs(old, new) : is(pq) /\ m = of(pq)
  BY <1>1, <1>2
<1> QED
  BY <1>3, DiffByKinds DEF of, is

(* ... retyped: those with two types, which are not compared by members, ... *)
LEMMA RetypedMeans ==
    ASSUME NEW old, NEW new, WellFormed(old), WellFormed(new), NEW m
    PROVE  m \in OfKind(diff_schemas(old, new), "change_type") <=>
              \E pq \in Pairs(old, new) : /\ ~Descends(FieldAt(old, pq[1]), FieldAt(new, pq[2]))
                                          /\ TypeOf(old, pq[1]) # TypeOf(new, pq[2])
                                          /\ m = change_type(pq[2], TypeOf(old, pq[1]), TypeOf(new, pq[2]))
<1> DEFINE of(pq) == change_type(pq[2], TypeOf(old, pq[1]), TypeOf(new, pq[2]))
           is(pq) == /\ ~Descends(FieldAt(old, pq[1]), FieldAt(new, pq[2]))
                     /\ TypeOf(old, pq[1]) # TypeOf(new, pq[2])
<1>1. \A lv : Retypes(old, new, lv) = {of(pq) : pq \in {xy \in PairsAt(old, new, lv) : is(xy)}}
  BY DEF Retypes
<1>2. Pairs(old, new) = UNION {PairsAt(old, new, lv) : lv \in Levels(old, new)}
  BY AllPairs
<1> HIDE DEF of, is
<1>3. (\E lv \in Levels(old, new) : m \in Retypes(old, new, lv)) <=> \E pq \in Pairs(old, new) : is(pq) /\ m = of(pq)
  BY <1>1, <1>2
<1>4. m \in OfKind(diff_schemas(old, new), "change_type") <=> \E pq \in Pairs(old, new) : is(pq) /\ m = of(pq)
  BY <1>3, DiffByKinds
<1> QED
  BY <1>4 DEF of, is

(* ... relaxed or restricted: those one of which is nullable, ... *)
LEMMA RelaxedMeans ==
    ASSUME NEW old, NEW new, WellFormed(old), WellFormed(new), NEW m
    PROVE  m \in OfKind(diff_schemas(old, new), "change_nullability") <=>
              \E pq \in Pairs(old, new) :
                 /\ FieldAt(old, pq[1]).null # FieldAt(new, pq[2]).null
                 /\ m = change_nullability(pq[2], FieldAt(old, pq[1]).null, FieldAt(new, pq[2]).null)
<1> DEFINE of(pq) == change_nullability(pq[2], FieldAt(old, pq[1]).null, FieldAt(new, pq[2]).null)
           is(pq) == FieldAt(old, pq[1]).null # FieldAt(new, pq[2]).null
<1>1. \A lv : Relaxes(old, new, lv) = {of(pq) : pq \in {xy \in PairsAt(old, new, lv) : is(xy)}}
  BY DEF Relaxes
<1>2. Pairs(old, new) = UNION {PairsAt(old, new, lv) : lv \in Levels(old, new)}
  BY AllPairs
<1> HIDE DEF of, is
<1>3. (\E lv \in Levels(old, new) : m \in Relaxes(old, new, lv)) <=> \E pq \in Pairs(old, new) : is(pq) /\ m = of(pq)
  BY <1>1, <1>2
<1>4. m \in OfKind(diff_schemas(old, new), "change_nullability") <=> \E pq \in Pairs(old, new) : is(pq) /\ m = of(pq)
  BY <1>3, DiffByKinds
<1> QED
  BY <1>4 DEF of, is

(* ... and reordered: the levels with two pairs in different orders.       *)
LEMMA ReorderedMeans ==
    ASSUME NEW old, NEW new, WellFormed(old), WellFormed(new), NEW m
    PROVE  m \in OfKind(diff_schemas(old, new), "reorder_fields") <=>
              \E lv \in Levels(old, new) :
                 /\ OutOfOrder(old[lv[1]], new[lv[2]])
                 /\ m = reorder_fields(lv[2], NamesOf(old[lv[1]]), NamesOf(new[lv[2]]))
<1>1. \A lv : m \in Reorders(old, new, lv) <=>
                 /\ OutOfOrder(old[lv[1]], new[lv[2]])
                 /\ m = reorder_fields(lv[2], NamesOf(old[lv[1]]), NamesOf(new[lv[2]]))
  BY DEF Reorders
<1> QED
  BY <1>1, DiffByKinds

-----------------------------------------------------------------------------
(***************************************************************************)
(* Where an old field is, by the mutations                                 *)
(***************************************************************************)

(* p is inside a field whose pair was not compared by members.             *)
InsideRetyped(old, new, p) ==
    \E r \in Paths(old), s \in Paths(new) :
        <<r, s>> \in Pairs(old, new) /\ ~Descends(FieldAt(old, r), FieldAt(new, s)) /\ Below(p, r)

(* Each old field is paired, or lost with what it was in, or was not       *)
(* looked for.                                                             *)
LEMMA Whereabouts ==
    ASSUME NEW old, NEW new, WellFormed(old), WellFormed(new), NEW p \in Paths(old)
    PROVE  \/ \E q \in Paths(new) : <<p, q>> \in Pairs(old, new)
           \/ \E r \in Lost(old, new) : Under(p, r)
           \/ InsideRetyped(old, new, p)
<1> DEFINE known(x) == \/ \E q \in Paths(new) : <<x, q>> \in Pairs(old, new)
                       \/ \E r \in Lost(old, new) : Under(x, r)
                       \/ InsideRetyped(old, new, x)
           bad == {x \in Paths(old) : ~known(x)}
           lengths == {Len(x) : x \in bad}
<1>1. ASSUME bad # {} PROVE FALSE
  <2>1. lengths \subseteq Nat /\ lengths # {}
    <3>1. \A x \in Paths(old) : Len(x) \in Nat
      BY PathFacts
    <3> QED
      BY <1>1, <3>1
  <2>2. PICK n \in lengths : \A m \in lengths : n <= m
    <3> HIDE DEF lengths
    <3> QED BY <2>1, Least
  <2>3. PICK x \in bad : \A y \in bad : Len(x) <= Len(y)
    BY <2>2
  <2>4. x \in Paths(old) /\ ~known(x)
    OBVIOUS
  <2> HIDE DEF bad, lengths, known
  <2>5. x \in Seq(Segments(old)) /\ Front(x) \in DOMAIN old
    BY <2>4, PathFacts
  <2>6. ASSUME NEW h, <<Front(x), h>> \in Levels(old, new) PROVE FALSE
    <3>1. Under(x, x)
      BY <2>5, UnderFacts
    <3>2. x \notin Lost(old, new) /\ ~ \E q \in Paths(new) : <<x, q>> \in Pairs(old, new)
      BY <2>4, <3>1 DEF known
    <3> QED
      BY <2>4, <2>6, <3>2 DEF Lost
  <2>7. Front(x) # <<>>
    <3>1. <<(<<>>), (<<>>)>> \in Levels(old, new)
      BY LevelsAreClosed DEF Top
    <3> QED
      BY <2>6, <3>1
  <2>8. PICK t \in Paths(old) : Container(old, t) /\ Front(x) = Inside(old, t)
    BY <2>5, <2>7, SchemaFacts
  <2>9. Below(x, t) /\ Len(t) < Len(x) /\ Len(t) \in Nat /\ Len(x) \in Nat
    BY <2>4, <2>8, InsideOf
  <2>10. known(t)
    <3>1. t \notin bad
      BY <2>3, <2>9
    <3> QED
      BY <3>1 DEF bad
  <2>11. Under(x, t) /\ t \in Seq(Segments(old))
    BY <2>9, PathFacts DEF Below, Under, IsStrictPrefix
  <2>12. CASE \E q \in Paths(new) : <<t, q>> \in Pairs(old, new)
    <3>1. PICK q \in Paths(new) : <<t, q>> \in Pairs(old, new)
      BY <2>12
    <3>2. CASE Descends(FieldAt(old, t), FieldAt(new, q))
      <4>1. <<Front(x), Inside(new, q)>> \in Levels(old, new)
        BY <2>8, <3>1, <3>2, PairGoesDown
      <4> QED
        BY <2>6, <4>1
    <3>3. CASE ~Descends(FieldAt(old, t), FieldAt(new, q))
      <4>1. InsideRetyped(old, new, x)
        BY <2>9, <3>1, <3>3 DEF InsideRetyped
      <4> QED
        BY <2>4, <4>1 DEF known
    <3> QED
      BY <3>2, <3>3
  <2>13. CASE \E r \in Lost(old, new) : Under(t, r)
    <3>1. PICK r \in Lost(old, new) : Under(t, r)
      BY <2>13
    <3>2. r \in Paths(old)
      BY DEF Lost
    <3>3. r \in Seq(Segments(old))
      BY <3>2, PathFacts
    <3>4. Under(x, r)
      BY <2>5, <2>11, <3>1, <3>3, UnderFacts
    <3> QED
      BY <2>4, <3>4 DEF known
  <2>14. CASE InsideRetyped(old, new, t)
    <3>1. PICK r \in Paths(old), s \in Paths(new) :
             <<r, s>> \in Pairs(old, new) /\ ~Descends(FieldAt(old, r), FieldAt(new, s)) /\ Below(t, r)
      BY <2>14 DEF InsideRetyped
    <3>2. r \in Seq(Segments(old)) /\ Len(r) \in Nat
      BY PathFacts
    <3>3. Under(t, r)
      BY <3>1 DEF Below, Under, IsStrictPrefix
    <3>4. Under(x, r)
      BY <2>5, <2>11, <3>2, <3>3, UnderFacts
    <3>5. Len(r) <= Len(t)
      BY <2>11, <3>2, <3>3, UnderFacts
    <3>6. Below(x, r)
      BY <2>9, <3>2, <3>4, <3>5 DEF Below, Under, IsStrictPrefix
    <3>7. InsideRetyped(old, new, x)
      BY <3>1, <3>6 DEF InsideRetyped
    <3> QED
      BY <2>4, <3>7 DEF known
  <2> QED
    BY <2>10, <2>12, <2>13, <2>14 DEF known
<1>2. known(p)
  BY <1>1
<1> QED
  BY <1>2

(* What is paired is not lost, nor inside a lost field, nor unlooked for.  *)
LEMMA PairedIsNotLost ==
    ASSUME NEW old, NEW new, WellFormed(old), WellFormed(new), NEW p, NEW q, <<p, q>> \in Pairs(old, new)
    PROVE  /\ \A r \in Lost(old, new) : ~Under(p, r)
           /\ ~InsideRetyped(old, new, p)
<1>1. p \in Paths(old) /\ q \in Paths(new)
  BY PairFacts
<1>2. ASSUME NEW r \in Lost(old, new), Under(p, r) PROVE FALSE
  <2>1. r \in Paths(old) /\ \A s \in Paths(new) : <<r, s>> \notin Pairs(old, new)
    BY DEF Lost
  <2>2. CASE r = p
    BY <1>1, <2>1, <2>2
  <2>3. CASE r # p
    <3>1. Below(p, r)
      BY <1>2, <2>3 DEF Below, Under, IsStrictPrefix
    <3> QED
      BY <2>1, <3>1, PairsAround
  <2> QED
    BY <2>2, <2>3
<1>3. ASSUME NEW r \in Paths(old), NEW s \in Paths(new),
             <<r, s>> \in Pairs(old, new), ~Descends(FieldAt(old, r), FieldAt(new, s)), Below(p, r)
      PROVE  FALSE
  <2>1. PICK d \in Paths(new) : <<r, d>> \in Pairs(old, new) /\ Descends(FieldAt(old, r), FieldAt(new, d))
    BY <1>3, PairsAround
  <2>2. d = s
    BY <1>3, <2>1, PairUnique
  <2> QED
    BY <1>3, <2>1, <2>2
<1> QED
  BY <1>2, <1>3 DEF InsideRetyped

RenamesAround(mutations, p) == {m \in OfKind(mutations, "rename_field") : Under(p, m.old_path)}

(* The renames, renames(mutations) in diff.py, are the pairs with two      *)
(* names.                                                                  *)
LEMMA RenameFacts ==
    ASSUME NEW old, NEW new, WellFormed(old), WellFormed(new)
    PROVE  /\ \A m \in OfKind(diff_schemas(old, new), "rename_field") :
                 <<m.old_path, m.path>> \in Pairs(old, new) /\ Last(m.old_path) # Last(m.path)
                 /\ m.old_path \in Paths(old) /\ m.path \in Paths(new)
           /\ \A p, q : <<p, q>> \in Pairs(old, new) /\ Last(p) # Last(q) =>
                 \E m \in OfKind(diff_schemas(old, new), "rename_field") : m.old_path = p /\ m.path = q
<1>0. \A p, q, i : rename_field(p, q, i).old_path = p /\ rename_field(p, q, i).path = q
  BY DEF rename_field
<1>1. ASSUME NEW m \in OfKind(diff_schemas(old, new), "rename_field")
      PROVE  <<m.old_path, m.path>> \in Pairs(old, new) /\ Last(m.old_path) # Last(m.path)
             /\ m.old_path \in Paths(old) /\ m.path \in Paths(new)
  <2>1. PICK pq \in Pairs(old, new) : Last(pq[1]) # Last(pq[2]) /\ m = rename_field(pq[1], pq[2], FieldAt(new, pq[2]).id)
    BY RenamedMeans
  <2>2. pq = <<pq[1], pq[2]>> /\ pq[1] \in Paths(old) /\ pq[2] \in Paths(new)
    BY PairIs
  <2>3. m.old_path = pq[1] /\ m.path = pq[2]
    BY <1>0, <2>1
  <2> QED
    BY <2>1, <2>2, <2>3
<1>2. ASSUME NEW p, NEW q, <<p, q>> \in Pairs(old, new), Last(p) # Last(q)
      PROVE  \E m \in OfKind(diff_schemas(old, new), "rename_field") : m.old_path = p /\ m.path = q
  <2> DEFINE pq == <<p, q>>
             m == rename_field(pq[1], pq[2], FieldAt(new, pq[2]).id)
  <2>1. pq[1] = p /\ pq[2] = q /\ pq \in Pairs(old, new)
    BY <1>2
  <2>2. m \in OfKind(diff_schemas(old, new), "rename_field")
    <3> HIDE DEF pq
    <3>1. \E xy \in Pairs(old, new) : Last(xy[1]) # Last(xy[2]) /\ m = rename_field(xy[1], xy[2], FieldAt(new, xy[2]).id)
      BY <1>2, <2>1
    <3> HIDE DEF m
    <3> QED
      BY <3>1, RenamedMeans
  <2>3. m.old_path = p /\ m.path = q
    <3> HIDE DEF pq
    <3> QED BY <1>0, <2>1
  <2> QED
    BY <2>2, <2>3
<1> QED
  BY <1>1, <1>2

(* The longest renamed path around p, which Target goes by.                *)
LongestRename(mutations, p) ==
    CHOOSE c \in RenamesAround(mutations, p) :
        \A o \in RenamesAround(mutations, p) : Len(o.old_path) <= Len(c.old_path)

(* Target takes the longest renamed path around p, as observe_transition's *)
(* max by length does, and leaves p where it is when there is none.        *)
LEMMA TargetMeans ==
    ASSUME NEW old, NEW new, WellFormed(old), WellFormed(new), NEW p \in Paths(old)
    PROVE  /\ RenamesAround(diff_schemas(old, new), p) = {} => Target(diff_schemas(old, new), p) = p
           /\ RenamesAround(diff_schemas(old, new), p) # {} =>
                 /\ LongestRename(diff_schemas(old, new), p) \in RenamesAround(diff_schemas(old, new), p)
                 /\ Target(diff_schemas(old, new), p) =
                       LongestRename(diff_schemas(old, new), p).path
                          \o Beyond(p, LongestRename(diff_schemas(old, new), p).old_path)
                 /\ \A o \in RenamesAround(diff_schemas(old, new), p) :
                       Len(o.old_path) <= Len(LongestRename(diff_schemas(old, new), p).old_path)
<1> DEFINE seen == diff_schemas(old, new)
           around == RenamesAround(seen, p)
           lengths == {Len(o.old_path) : o \in around}
<1>1. around = {} => Target(seen, p) = p
  BY DEF Target, RenamesAround
<1>2. around # {} => Target(seen, p) = LongestRename(seen, p).path \o Beyond(p, LongestRename(seen, p).old_path)
  BY DEF Target, RenamesAround, LongestRename
<1>3. ASSUME around # {}
      PROVE  \E c \in around : \A o \in around : Len(o.old_path) <= Len(c.old_path)
  <2>1. p \in Seq(Segments(old)) /\ Len(p) \in Nat
    BY PathFacts
  <2>2. ASSUME NEW o \in around PROVE Len(o.old_path) \in 0..Len(p)
    <3>1. o \in OfKind(seen, "rename_field") /\ Under(p, o.old_path)
      BY DEF RenamesAround
    <3>2. o.old_path \in Paths(old)
      BY <3>1, RenameFacts
    <3>3. o.old_path \in Seq(Segments(old)) /\ Len(o.old_path) \in Nat
      BY <3>2, PathFacts
    <3>4. Len(o.old_path) <= Len(p)
      BY <2>1, <3>1, <3>3, UnderFacts
    <3> QED
      BY <2>1, <3>3, <3>4
  <2> HIDE DEF around
  <2>3. lengths \subseteq 0..Len(p) /\ lengths # {}
    BY <1>3, <2>2
  <2> DEFINE most == Max(lengths)
  <2>4. most \in lengths /\ \A n \in lengths : most >= n
    <3> HIDE DEF lengths
    <3> QED BY <2>1, <2>3, MaxIsThere
  <2>5. PICK c \in around : most = Len(c.old_path)
    <3> HIDE DEF most
    <3> QED BY <2>4
  <2>6. ASSUME NEW o \in around PROVE Len(o.old_path) <= Len(c.old_path)
    <3>1. Len(o.old_path) \in lengths
      OBVIOUS
    <3>2. most \in Nat /\ Len(o.old_path) \in Nat
      <4> HIDE DEF most, lengths
      <4> QED BY <2>1, <2>3, <2>4, <3>1
    <3> HIDE DEF most, lengths
    <3> QED
      BY <2>4, <2>5, <3>1, <3>2
  <2> QED
    BY <2>6
<1>4. around # {} => /\ LongestRename(seen, p) \in around
                     /\ \A o \in around : Len(o.old_path) <= Len(LongestRename(seen, p).old_path)
  <2> HIDE DEF lengths
  <2> QED BY <1>3 DEF LongestRename
<1> HIDE DEF around, seen, lengths
<1> QED
  BY <1>1, <1>2, <1>4 DEF around, seen

Down(kind, name) == IF kind = "map" THEN <<"[]">> \o <<name>> ELSE <<name>>

(* The segments between a container and one of its members. *)
LEMMA PathGoesDown ==
    ASSUME NEW s, WellFormed(s), NEW p \in Paths(s), NEW t \in Paths(s), Front(p) = Inside(s, t)
    PROVE  /\ p = t \o Down(FieldAt(s, t).kind, Last(p))
           /\ Down(FieldAt(s, t).kind, Last(p)) \in Seq(Segments(s))
<1> DEFINE N == Segments(s)
           a == Last(p)
<1>1. p = Append(Front(p), a) /\ a \in N /\ t \in Seq(N) /\ "[]" \in N
  BY PathFacts, SchemaFacts
<1>2. CASE FieldAt(s, t).kind = "map"
  <2>1. Front(p) = Append(t, "[]")
    BY <1>2 DEF Inside, LevelOf
  <2>2. p = Append(Append(t, "[]"), a)
    BY <1>1, <2>1
  <2>3. Append(t, "[]") \in Seq(N) /\ Append(t, "[]") = t \o <<"[]">> /\ <<"[]">> \in Seq(N)
    BY <1>1, AppendFacts
  <2>4. p = (t \o <<"[]">>) \o <<a>> /\ <<a>> \in Seq(N)
    <3>1. Append(Append(t, "[]"), a) = Append(t, "[]") \o <<a>> /\ <<a>> \in Seq(N)
      <4> DEFINE g == Append(t, "[]")
      <4>1. g \in Seq(N) /\ a \in N
        BY <1>1, <2>3
      <4> HIDE DEF g, N, a
      <4>2. Append(g, a) = g \o <<a>> /\ <<a>> \in Seq(N)
        BY <4>1, AppendFacts
      <4> QED
        BY <4>2 DEF g
    <3> QED
      BY <2>2, <2>3, <3>1
  <2>5. (t \o <<"[]">>) \o <<a>> = t \o (<<"[]">> \o <<a>>)
    BY <1>1, <2>3, <2>4, ConcatAssociative
  <2>6. <<"[]">> \o <<a>> \in Seq(N)
    BY <2>3, <2>4, ConcatProperties
  <2> HIDE DEF N, a
  <2>7. Down(FieldAt(s, t).kind, a) = <<"[]">> \o <<a>>
    BY <1>2 DEF Down
  <2> QED
    BY <2>4, <2>5, <2>6, <2>7 DEF N, a
<1>3. CASE FieldAt(s, t).kind # "map"
  <2>1. Front(p) = t
    BY <1>3 DEF Inside, LevelOf
  <2>2. Append(t, a) = t \o <<a>> /\ <<a>> \in Seq(N)
    BY <1>1, AppendFacts
  <2>3. Down(FieldAt(s, t).kind, a) = <<a>>
    BY <1>3 DEF Down
  <2> QED
    BY <1>1, <2>1, <2>2, <2>3
<1> QED
  BY <1>2, <1>3

(* Two paths in the same renamed fields move together.                     *)
LEMMA MoveTogether ==
    ASSUME NEW old, NEW new, WellFormed(old), WellFormed(new), NEW t \in Paths(old),
           NEW w \in Seq(Segments(old)), t \o w \in Paths(old),
           RenamesAround(diff_schemas(old, new), t \o w) = RenamesAround(diff_schemas(old, new), t)
    PROVE  Target(diff_schemas(old, new), t \o w) = Target(diff_schemas(old, new), t) \o w
<1> DEFINE p == t \o w
            seen == diff_schemas(old, new)
           around == RenamesAround(seen, t)
           N == Segments(old) \cup Segments(new)
<1>0. p \in Seq(Segments(old)) /\ t \in Seq(Segments(old))
  BY PathFacts
<1>1. CASE around = {}
  <2>1. Target(seen, p) = p
    BY <1>1, TargetMeans
  <2>2. Target(seen, t) = t
    BY <1>1, TargetMeans
  <2> QED
    BY <2>1, <2>2
<1>2. CASE around # {}
  <2> DEFINE m == LongestRename(seen, t)
  <2>1. m \in around /\ Target(seen, t) = m.path \o Beyond(t, m.old_path)
    BY <1>2, TargetMeans, ZenonT(40)
  <2>2. m = LongestRename(seen, p)
    BY DEF LongestRename
  <2>3. Target(seen, p) = m.path \o Beyond(p, m.old_path)
    <3>1. RenamesAround(seen, p) # {}
      BY <1>2
    <3> HIDE DEF m, p
    <3>2. Target(seen, p) = LongestRename(seen, p).path \o Beyond(p, LongestRename(seen, p).old_path)
      BY <3>1, TargetMeans, ZenonT(40) DEF p
    <3> HIDE DEF seen
    <3> QED
      BY <2>2, <3>2
  <2>4. m \in OfKind(seen, "rename_field") /\ Under(t, m.old_path)
    BY <2>1 DEF RenamesAround
  <2>5. m.old_path \in Paths(old) /\ m.path \in Paths(new)
    BY <2>4, RenameFacts
  <2> HIDE DEF m, p, around, seen
  <2> DEFINE r == m.old_path
             b == Beyond(t, r)
             c == m.path
  <2>6. r \in Seq(Segments(old))
    BY <2>5, PathFacts
  <2>7. c \in Seq(Segments(new))
    BY <2>5, PathFacts
  <2>8. b \in Seq(Segments(old)) /\ t = r \o b
    BY <1>0, <2>4, <2>6, UnderMeans
  <2> HIDE DEF r, b, c
  <2>9. p = r \o (b \o w) /\ b \o w \in Seq(Segments(old))
    BY <2>6, <2>8, ConcatAssociative, ConcatProperties DEF p
  <2>10. Beyond(p, r) = b \o w
    BY <2>6, <2>9, BeyondFacts
  <2>11. b \in Seq(N) /\ w \in Seq(N) /\ c \in Seq(N)
    <3>1. Segments(old) \subseteq N /\ Segments(new) \subseteq N
      OBVIOUS
    <3> HIDE DEF N
    <3> QED BY <2>7, <2>8, <3>1, SeqMonotonic
  <2>12. c \o (b \o w) = (c \o b) \o w
    <3> HIDE DEF N
    <3> QED BY <2>11, ConcatAssociative
  <2>13. Target(seen, p) = c \o (b \o w) /\ Target(seen, t) = c \o b
    BY <2>1, <2>3, <2>10 DEF r, b, c
  <2>14. Target(seen, p) = Target(seen, t) \o w
    BY <2>12, <2>13
  <2> QED
    BY <2>14 DEF seen, p
<1> QED
  BY <1>1, <1>2

(* A pair of one name has the renames of the fields it is in.              *)
LEMMA RenamesAbove ==
    ASSUME NEW old, NEW new, WellFormed(old), WellFormed(new),
           NEW p, NEW q, <<p, q>> \in Pairs(old, new), Last(p) = Last(q),
           NEW m \in RenamesAround(diff_schemas(old, new), p)
    PROVE  m.old_path \in Paths(old) /\ Below(p, m.old_path)
<1>1. m \in OfKind(diff_schemas(old, new), "rename_field") /\ Under(p, m.old_path)
  BY DEF RenamesAround
<1>2. <<m.old_path, m.path>> \in Pairs(old, new) /\ Last(m.old_path) # Last(m.path) /\ m.old_path \in Paths(old)
  BY <1>1, RenameFacts
<1>3. m.old_path # p
  <2> SUFFICES ASSUME m.old_path = p PROVE FALSE
    OBVIOUS
  <2>1. <<p, m.path>> \in Pairs(old, new)
    BY <1>2
  <2>2. m.path = q
    BY <2>1, PairUnique
  <2> QED
    BY <1>2, <2>2
<1> QED
  BY <1>1, <1>2, <1>3 DEF Below, Under, IsStrictPrefix

(* Target finds the partner of a paired field.                             *)
LEMMA TargetOfPair ==
    ASSUME NEW old, NEW new, WellFormed(old), WellFormed(new), NEW a, NEW b, <<a, b>> \in Pairs(old, new)
    PROVE  Target(diff_schemas(old, new), a) = b
<1> DEFINE seen == diff_schemas(old, new)
           bad == {p \in Paths(old) : \E q \in Paths(new) : <<p, q>> \in Pairs(old, new) /\ Target(seen, p) # q}
           lengths == {Len(p) : p \in bad}
<1>1. ASSUME bad # {} PROVE FALSE
  <2>1. lengths \subseteq Nat /\ lengths # {}
    <3>1. \A x \in Paths(old) : Len(x) \in Nat
      BY PathFacts
    <3> QED
      BY <1>1, <3>1
  <2>2. PICK n \in lengths : \A l \in lengths : n <= l
    <3> HIDE DEF lengths
    <3> QED BY <2>1, Least
  <2>3. PICK p \in bad : \A y \in bad : Len(p) <= Len(y)
    BY <2>2
  <2>4. p \in Paths(old)
    OBVIOUS
  <2>5. PICK q \in Paths(new) : <<p, q>> \in Pairs(old, new) /\ Target(seen, p) # q
    OBVIOUS
  <2>6. \A t \in Paths(old), u \in Paths(new) : <<t, u>> \in Pairs(old, new) /\ Len(t) < Len(p) => Target(seen, t) = u
    <3>1. \A t \in bad : Len(p) \in Nat /\ Len(t) \in Nat
      BY <2>4, PathFacts
    <3> QED
      BY <2>3, <3>1
  <2> HIDE DEF bad, lengths
  <2>7. p \in Seq(Segments(old)) /\ Len(p) \in Nat
    BY <2>4, PathFacts
  <2>8. q \in Seq(Segments(new)) /\ Len(q) \in Nat
    BY PathFacts
  <2>9. CASE Last(p) # Last(q)
    <3> DEFINE around == RenamesAround(seen, p)
    <3>1. PICK c \in OfKind(seen, "rename_field") : c.old_path = p /\ c.path = q
      BY <2>5, <2>9, RenameFacts
    <3>2. c \in around
      BY <2>7, <3>1, UnderFacts DEF RenamesAround
    <3> DEFINE m == LongestRename(seen, p)
    <3>3. /\ m \in around /\ Target(seen, p) = m.path \o Beyond(p, m.old_path)
          /\ \A o \in around : Len(o.old_path) <= Len(m.old_path)
      <4>1. around # {}
        BY <3>2
      <4> QED
        BY <2>4, <4>1, TargetMeans, ZenonT(40)
    <3>4. m \in OfKind(seen, "rename_field") /\ Under(p, m.old_path)
      BY <3>3 DEF RenamesAround
    <3>5. <<m.old_path, m.path>> \in Pairs(old, new) /\ m.old_path \in Paths(old)
      BY <3>4, RenameFacts
    <3>6. m.old_path \in Seq(Segments(old)) /\ Len(m.old_path) \in Nat
      BY <3>5, PathFacts
    <3>7. m.old_path = p
      <4>1. Len(m.old_path) <= Len(p) /\ (Len(m.old_path) = Len(p) => p = m.old_path)
        BY <2>7, <3>4, <3>6, UnderFacts
      <4> QED
        BY <2>7, <3>1, <3>2, <3>3, <3>6, <4>1
    <3>8. m.path = q
      <4>1. <<p, m.path>> \in Pairs(old, new)
        BY <3>5, <3>7
      <4> QED
        BY <2>5, <4>1, PairUnique
    <3>9. Beyond(p, p) = <<>>
      <4>1. p \o <<>> = p /\ <<>> \in Seq(Segments(old))
        BY <2>7, ConcatEmptySeq, EmptySeq
      <4>2. Beyond(p \o <<>>, p) = <<>>
        BY <2>7, <4>1, BeyondFacts
      <4> QED
        BY <4>1, <4>2
    <3>10. q \o <<>> = q
      BY <2>8, ConcatEmptySeq
    <3> QED
      BY <2>5, <3>3, <3>7, <3>8, <3>9, <3>10
  <2>10. CASE Last(p) = Last(q)
    <3>1. \A m \in RenamesAround(seen, p) : m.old_path \in Paths(old) /\ Below(p, m.old_path)
      BY <2>5, <2>10, RenamesAbove
    <3>2. <<Front(p), Front(q)>> \in Levels(old, new)
      BY <2>5, PairFacts
    <3>3. CASE Front(p) = <<>>
      <4>1. Front(q) = <<>>
        <5>1. <<(<<>>), (<<>>)>> \in Levels(old, new)
          BY LevelsAreClosed DEF Top
        <5> QED
          BY <3>2, <3>3, <5>1, LevelUnique
      <4>2. RenamesAround(seen, p) = {}
        BY <2>4, <3>1, <3>3, NotOnTop
      <4>3. Target(seen, p) = p
        BY <2>4, <4>2, TargetMeans
      <4>4. p = Append(<<>>, Last(p)) /\ q = Append(<<>>, Last(q))
        BY <2>4, <3>3, <4>1, PathFacts
      <4> QED
        BY <2>5, <2>10, <4>3, <4>4
    <3>4. CASE Front(p) # <<>>
      <4>w. PICK t \in Paths(old), u \in Paths(new) : Holds(old, new, t, u, Front(p), Front(q))
        BY <3>2, <3>4, LevelPair
      <4>1. /\ <<t, u>> \in Pairs(old, new) /\ FieldAt(old, t).kind = FieldAt(new, u).kind
            /\ Front(p) = Inside(old, t) /\ Front(q) = Inside(new, u)
        BY <4>w DEF Holds, Descends
      <4>2. Below(p, t) /\ Len(t) < Len(p) /\ \A r \in Paths(old) : Below(p, r) => Under(t, r)
        BY <2>4, <4>1, InsideOf
      <4>3. Target(seen, t) = u
        BY <2>6, <4>1, <4>2
      <4> DEFINE w == Down(FieldAt(old, t).kind, Last(p))
      <4>4. p = t \o w /\ w \in Seq(Segments(old))
        BY <2>4, <4>1, PathGoesDown
      <4>5. q = u \o w
        BY <2>10, <4>1, PathGoesDown
      <4>6. RenamesAround(seen, p) = RenamesAround(seen, t)
        <5>1. \A m \in RenamesAround(seen, p) : Under(t, m.old_path)
          BY <3>1, <4>2
        <5>2. ASSUME NEW m \in OfKind(seen, "rename_field"), Under(t, m.old_path) PROVE Under(p, m.old_path)
          <6>1. m.old_path \in Paths(old)
            BY RenameFacts
          <6>2. m.old_path \in Seq(Segments(old))
            BY <6>1, PathFacts
          <6>3. t \in Seq(Segments(old)) /\ Under(p, t)
            BY <4>2, PathFacts DEF Below, Under, IsStrictPrefix
          <6> QED
            BY <2>7, <5>2, <6>2, <6>3, UnderFacts
        <5> QED
          BY <5>1, <5>2 DEF RenamesAround
      <4>7. Target(seen, p) = Target(seen, t) \o w
        <5> HIDE DEF w, seen
        <5>1. t \o w \in Paths(old) /\ RenamesAround(seen, t \o w) = RenamesAround(seen, t)
          BY <2>4, <4>4, <4>6
        <5>2. Target(seen, t \o w) = Target(seen, t) \o w
          BY <4>4, <5>1, MoveTogether DEF seen
        <5> QED BY <4>4, <5>2
      <4> HIDE DEF w
      <4> QED
        BY <2>5, <4>3, <4>5, <4>7
    <3> QED
      BY <3>3, <3>4
  <2> QED
    BY <2>9, <2>10
<1>2. a \in Paths(old) /\ b \in Paths(new)
  BY PairFacts
<1> QED
  BY <1>1, <1>2

(* A field inside of a retyped one goes where that one goes.               *)
LEMMA TargetInside ==
    ASSUME NEW old, NEW new, WellFormed(old), WellFormed(new), NEW p \in Paths(old),
           NEW r, NEW s, <<r, s>> \in Pairs(old, new), ~Descends(FieldAt(old, r), FieldAt(new, s)), Below(p, r)
    PROVE  /\ Target(diff_schemas(old, new), p) = s \o Beyond(p, r)
           /\ Beyond(p, r) \in Seq(Segments(old)) /\ Beyond(p, r) # <<>>
           /\ Below(Target(diff_schemas(old, new), p), s)
<1> DEFINE seen == diff_schemas(old, new)
           w == Beyond(p, r)
           N == Segments(old) \cup Segments(new)
<1>1. r \in Paths(old) /\ s \in Paths(new)
  BY PairFacts
<1>2. p \in Seq(Segments(old)) /\ r \in Seq(Segments(old)) /\ Under(p, r) /\ p # r
  BY <1>1, PathFacts DEF Below, Under, IsStrictPrefix
<1>3. p = r \o w /\ w \in Seq(Segments(old))
  BY <1>2, UnderMeans
<1>4. w # <<>>
  <2>1. r \o <<>> = r
    BY <1>2, ConcatEmptySeq
  <2> HIDE DEF w
  <2> QED
    BY <1>2, <1>3, <2>1
<1>5. RenamesAround(seen, p) = RenamesAround(seen, r)
  <2>1. ASSUME NEW m \in OfKind(seen, "rename_field")
        PROVE  Under(p, m.old_path) <=> Under(r, m.old_path)
    <3>1. <<m.old_path, m.path>> \in Pairs(old, new) /\ m.old_path \in Paths(old)
      BY RenameFacts
    <3>2. m.old_path \in Seq(Segments(old))
      BY <3>1, PathFacts
    <3>3. Under(r, m.old_path) => Under(p, m.old_path)
      BY <1>2, <3>2, UnderFacts
    <3>4. ASSUME Under(p, m.old_path), ~Under(r, m.old_path) PROVE FALSE
      <4>1. Under(m.old_path, r)
        BY <1>2, <3>2, <3>4, UnderFacts
      <4>2. Under(r, r)
        BY <1>2, UnderFacts
      <4>3. Below(m.old_path, r)
        BY <3>4, <4>1, <4>2 DEF Below, Under, IsStrictPrefix
      <4>4. InsideRetyped(old, new, m.old_path)
        BY <1>1, <4>3 DEF InsideRetyped
      <4> QED
        BY <3>1, <4>4, PairedIsNotLost
    <3> QED
      BY <3>3, <3>4
  <2> QED
    BY <2>1 DEF RenamesAround
<1>6. Target(seen, p) = Target(seen, r) \o w
  <2> HIDE DEF w, seen
  <2>1. r \o w \in Paths(old) /\ RenamesAround(seen, r \o w) = RenamesAround(seen, r)
    BY <1>3, <1>5
  <2>2. Target(seen, r \o w) = Target(seen, r) \o w
    BY <1>1, <1>3, <2>1, MoveTogether DEF seen
  <2> QED BY <1>3, <2>2
<1>7. Target(seen, r) = s
  BY TargetOfPair
<1>8. Below(s \o w, s)
  <2>1. s \in Seq(Segments(new))
    BY <1>1, PathFacts
  <2>2. s \in Seq(N) /\ w \in Seq(N)
    <3>1. Segments(old) \subseteq N /\ Segments(new) \subseteq N
      OBVIOUS
    <3> HIDE DEF N, w
    <3> QED BY <1>3, <2>1, <3>1, SeqMonotonic
  <2> HIDE DEF w, N
  <2>3. Under(s \o w, s)
    BY <2>2, BeyondFacts
  <2>4. s \o w # s
    BY <1>4, <2>2, ConcatEqualIffEmpty
  <2> QED
    BY <2>3, <2>4 DEF Below, Under, IsStrictPrefix
<1> HIDE DEF w, seen
<1>9. Target(seen, p) = s \o w
  BY <1>6, <1>7
<1> QED
  BY <1>3, <1>4, <1>8, <1>9 DEF w, seen

-----------------------------------------------------------------------------
(***************************************************************************)
(* Common paths                                                            *)
(***************************************************************************)

(* What a field is inside of is a container. *)
LEMMA AroundIsContainer ==
    ASSUME NEW s, WellFormed(s), NEW p \in Paths(s), NEW r \in Paths(s), Below(p, r)
    PROVE  Container(s, r)
<1> DEFINE bad == {x \in Paths(s) : Below(x, r) /\ ~Container(s, r)}
           lengths == {Len(x) : x \in bad}
<1>1. ASSUME bad # {} PROVE FALSE
  <2>1. lengths \subseteq Nat /\ lengths # {}
    <3>1. \A x \in Paths(s) : Len(x) \in Nat
      BY PathFacts
    <3> QED
      BY <1>1, <3>1
  <2>2. PICK n \in lengths : \A m \in lengths : n <= m
    <3> HIDE DEF lengths
    <3> QED BY <2>1, Least
  <2>3. PICK x \in bad : \A y \in bad : Len(x) <= Len(y)
    BY <2>2
  <2>4. x \in Paths(s) /\ Below(x, r) /\ ~Container(s, r)
    OBVIOUS
  <2>5. Front(x) # <<>> /\ Front(x) \in DOMAIN s
    BY <2>4, NotOnTop, PathFacts
  <2>6. PICK t \in Paths(s) : Container(s, t) /\ Front(x) = Inside(s, t)
    BY <2>5, SchemaFacts
  <2>7. Under(t, r) /\ Len(t) < Len(x) /\ Len(t) \in Nat /\ Len(x) \in Nat
    BY <2>4, <2>6, InsideOf
  <2>8. t # r
    BY <2>4, <2>6
  <2>9. t \in bad
    BY <2>4, <2>7, <2>8 DEF Below, Under, IsStrictPrefix
  <2> HIDE DEF bad
  <2> QED
    BY <2>3, <2>7, <2>9
<1> QED
  BY <1>1

(* observe_transition skips a path when it is under a lost field. *)
LEMMA GoneMeans ==
    ASSUME NEW old, NEW new, WellFormed(old), WellFormed(new), NEW p
    PROVE  GoneWith(diff_schemas(old, new), p) <=> \E r \in Lost(old, new) : Under(p, r)
<1> DEFINE of(r) == remove_field(r, TypeOf(old, r), FieldAt(old, r).null)
           gone == OfKind(diff_schemas(old, new), "remove_field")
<1>1. \A r : of(r).path = r
  BY DEF remove_field
<1>2. \A m : m \in gone <=> \E r \in Lost(old, new) : m = of(r)
  BY RemovedMeans
<1>3. GoneWith(diff_schemas(old, new), p) <=> \E m \in gone : Under(p, m.path)
  BY DEF GoneWith
<1> HIDE DEF of, gone
<1>4. (\E m \in gone : Under(p, m.path)) <=> \E r \in Lost(old, new) : Under(p, r)
  BY <1>1, <1>2
<1> QED
  BY <1>3, <1>4

(* The conditions of observe_transition's loop, for one pair of paths. *)
LEMMA CommonMeans ==
    ASSUME NEW old, NEW new, NEW p, NEW q
    PROVE  <<p, q>> \in Common(old, new) <=>
              /\ p \in Paths(old) /\ ~GoneWith(diff_schemas(old, new), p)
              /\ q = Target(diff_schemas(old, new), p) /\ q \in Paths(new)
<1> DEFINE seen == diff_schemas(old, new)
           there == {x \in Paths(old) : ~GoneWith(seen, x) /\ Target(seen, x) \in Paths(new)}
<1>1. Common(old, new) = {<<x, Target(seen, x)>> : x \in there}
  BY DEF Common
<1> HIDE DEF seen
<1> QED
  BY <1>1 DEF seen

(* The members of Common are pairs. *)
LEMMA CommonIs ==
    ASSUME NEW old, NEW new, NEW x \in Common(old, new)
    PROVE  x = <<x[1], x[2]>>
BY DEF Common

(* observe_transition compares the values of every pair of the diff. *)
LEMMA PairedIsCommon ==
    ASSUME NEW old, NEW new, WellFormed(old), WellFormed(new)
    PROVE  Pairs(old, new) \subseteq Common(old, new)
<1> SUFFICES ASSUME NEW x \in Pairs(old, new) PROVE x \in Common(old, new)
  OBVIOUS
<1> DEFINE p == x[1]
           q == x[2]
<1>1. x = <<p, q>> /\ p \in Paths(old) /\ q \in Paths(new)
  BY PairIs
<1>2. <<p, q>> \in Pairs(old, new)
  BY <1>1
<1> HIDE DEF p, q
<1>3. Target(diff_schemas(old, new), p) = q
  BY <1>2, TargetOfPair
<1>4. ~GoneWith(diff_schemas(old, new), p)
  BY <1>2, GoneMeans, PairedIsNotLost
<1>5. <<p, q>> \in Common(old, new)
  BY <1>1, <1>3, <1>4, CommonMeans
<1> QED
  BY <1>1, <1>5

(* A field that holds members and is not compared by members is retyped.   *)
LEMMA RetypeIsSeen ==
    ASSUME NEW old, NEW new, WellFormed(old), WellFormed(new), NEW r, NEW s, <<r, s>> \in Pairs(old, new),
           ~Descends(FieldAt(old, r), FieldAt(new, s)), Container(old, r) \/ Container(new, s)
    PROVE  \E m \in OfKind(diff_schemas(old, new), "change_type") : m.path = s /\ m.new_type = TypeOf(new, s)
<1>1. FieldAt(old, r).kind # FieldAt(new, s).kind
  BY DEF Descends, Container
<1>2. TypeOf(old, r) # TypeOf(new, s)
  BY <1>1 DEF TypeOf
<1> DEFINE pq == <<r, s>>
           m == change_type(pq[2], TypeOf(old, pq[1]), TypeOf(new, pq[2]))
<1>3. pq[1] = r /\ pq[2] = s /\ pq \in Pairs(old, new)
  OBVIOUS
<1>4. m.path = s /\ m.new_type = TypeOf(new, s)
  BY DEF change_type
<1> HIDE DEF pq
<1>5. \E xy \in Pairs(old, new) : /\ ~Descends(FieldAt(old, xy[1]), FieldAt(new, xy[2]))
                                  /\ TypeOf(old, xy[1]) # TypeOf(new, xy[2])
                                  /\ m = change_type(xy[2], TypeOf(old, xy[1]), TypeOf(new, xy[2]))
  BY <1>2, <1>3
<1> HIDE DEF m
<1>6. m \in OfKind(diff_schemas(old, new), "change_type")
  BY <1>5, RetypedMeans
<1> QED
  BY <1>4, <1>6

(* It compares no others, except inside a field that was retyped. *)
LEMMA CommonIsPaired ==
    ASSUME NEW old, NEW new, WellFormed(old), WellFormed(new), NEW p, NEW q, <<p, q>> \in Common(old, new)
    PROVE  \/ <<p, q>> \in Pairs(old, new)
           \/ \E m \in OfKind(diff_schemas(old, new), "change_type") :
                 /\ Below(q, m.path)
                 /\ \E r \in Paths(old) : <<r, m.path>> \in Pairs(old, new) /\ Below(p, r)
<1> DEFINE seen == diff_schemas(old, new)
<1>1. p \in Paths(old) /\ ~GoneWith(seen, p) /\ q = Target(seen, p) /\ q \in Paths(new)
  BY CommonMeans
<1>2. \A r \in Lost(old, new) : ~Under(p, r)
  BY <1>1, GoneMeans
<1>3. CASE \E y \in Paths(new) : <<p, y>> \in Pairs(old, new)
  <2>1. PICK y \in Paths(new) : <<p, y>> \in Pairs(old, new)
    BY <1>3
  <2>2. y = q
    BY <1>1, <2>1, TargetOfPair
  <2> QED
    BY <2>1, <2>2
<1>4. CASE InsideRetyped(old, new, p)
  <2>1. PICK r \in Paths(old), s \in Paths(new) :
           <<r, s>> \in Pairs(old, new) /\ ~Descends(FieldAt(old, r), FieldAt(new, s)) /\ Below(p, r)
    BY <1>4 DEF InsideRetyped
  <2>2. Container(old, r)
    BY <1>1, <2>1, AroundIsContainer
  <2>3. PICK m \in OfKind(seen, "change_type") : m.path = s
    BY <2>1, <2>2, RetypeIsSeen
  <2>4. Below(q, s)
    BY <1>1, <2>1, TargetInside
  <2> QED
    BY <2>1, <2>3, <2>4
<1> QED
  BY <1>1, <1>2, <1>3, <1>4, Whereabouts

-----------------------------------------------------------------------------
(***************************************************************************)
(* The empty diff                                                          *)
(***************************************************************************)

(* Two rows matched one to one, and nowhere crosswise, are matched place   *)
(* by place.                                                               *)
LEMMA InOrder ==
    ASSUME NEW m \in Nat, NEW n \in Nat, NEW R,
           \A i \in 1..m : \E j \in 1..n : <<i, j>> \in R,
           \A j \in 1..n : \E i \in 1..m : <<i, j>> \in R,
           \A i \in 1..m, j, k \in 1..n : <<i, j>> \in R /\ <<i, k>> \in R => j = k,
           \A i, k \in 1..m, j \in 1..n : <<i, j>> \in R /\ <<k, j>> \in R => i = k,
           \A i, k \in 1..m, j, l \in 1..n : <<i, j>> \in R /\ <<k, l>> \in R /\ i < k => ~(j > l)
    PROVE  m = n /\ \A i \in 1..m : <<i, i>> \in R
<1> DEFINE bad == {i \in 1..m : i > n \/ <<i, i>> \notin R}
<1>1. ASSUME bad # {} PROVE FALSE
  <2>1. PICK i \in bad : \A k \in bad : i <= k
    <3>1. bad \subseteq Nat
      OBVIOUS
    <3> HIDE DEF bad
    <3> QED BY <1>1, <3>1, Least
  <2>2. i \in 1..m /\ (i > n \/ <<i, i>> \notin R)
    OBVIOUS
  <2>3. \A k \in 1..m : k < i => k <= n /\ <<k, k>> \in R
    <3>1. \A k \in 1..m : k < i => k \notin bad
      <4> HIDE DEF bad
      <4> QED BY <2>1, <2>2
    <3> QED
      BY <3>1
  <2>4. PICK j \in 1..n : <<i, j>> \in R
    BY <2>2
  <2> HIDE DEF bad
  <2>5. ~(j < i)
    <3> SUFFICES ASSUME j < i PROVE FALSE
      OBVIOUS
    <3>1. j \in 1..m /\ <<j, j>> \in R
      BY <2>2, <2>3
    <3>2. i = j
      BY <2>2, <2>4, <3>1
    <3> QED
      BY <3>2
  <2>6. j # i
    <3> SUFFICES ASSUME j = i PROVE FALSE
      OBVIOUS
    <3> QED
      BY <2>2, <2>4
  <2>7. j > i /\ i \in 1..n
    BY <2>2, <2>5, <2>6
  <2>8. PICK k \in 1..m : <<k, i>> \in R
    BY <2>7
  <2>9. k # i
    <3> SUFFICES ASSUME k = i PROVE FALSE
      OBVIOUS
    <3>1. <<i, i>> \in R
      BY <2>8
    <3>2. i = j
      BY <2>2, <2>4, <2>7, <3>1
    <3> QED
      BY <2>6, <3>2
  <2>10. ~(k < i)
    <3> SUFFICES ASSUME k < i PROVE FALSE
      OBVIOUS
    <3>1. <<k, k>> \in R /\ k \in 1..n
      BY <2>3
    <3>2. k = i
      BY <2>7, <2>8, <3>1
    <3> QED
      BY <3>2
  <2>11. k > i
    BY <2>2, <2>9, <2>10
  <2>12. ~(j > i)
    BY <2>2, <2>4, <2>7, <2>8, <2>11
  <2> QED
    BY <2>7, <2>12
<1>2. \A i \in 1..m : i <= n /\ <<i, i>> \in R
  <2> SUFFICES ASSUME NEW i \in 1..m PROVE i <= n /\ <<i, i>> \in R
    OBVIOUS
  <2>1. i \notin bad
    BY <1>1
  <2> QED
    BY <2>1
<1> HIDE DEF bad
<1>3. m <= n
  <2>1. CASE m = 0
    BY <2>1
  <2>2. CASE m # 0
    <3>1. m \in 1..m
      BY <2>2
    <3> QED
      BY <1>2, <3>1
  <2> QED
    BY <2>1, <2>2
<1>4. n <= m
  <2> SUFFICES ASSUME m < n PROVE FALSE
    OBVIOUS
  <2>1. n \in 1..n
    OBVIOUS
  <2>2. PICK i \in 1..m : <<i, n>> \in R
    BY <2>1
  <2>3. i \in 1..n /\ <<i, i>> \in R
    BY <1>2
  <2>4. i = n
    BY <2>1, <2>2, <2>3
  <2> QED
    BY <2>4
<1> QED
  BY <1>2, <1>3, <1>4

(* Every field is found again under its name, as the same kind of field.   *)
SameFields(old, new) ==
    /\ Lost(old, new) = {}
    /\ \A p \in Paths(old), q \in Paths(new) : <<p, q>> \in Pairs(old, new) =>
          Last(p) = Last(q) /\ FieldAt(old, p).kind = FieldAt(new, q).kind

(* When every field keeps its name and kind, each level is compared with   *)
(* the level of its own path.                                              *)
LEMMA SameLevels ==
    ASSUME NEW old, NEW new, WellFormed(old), WellFormed(new), SameFields(old, new)
    PROVE  /\ \A g, h : <<g, h>> \in Levels(old, new) => g = h
           /\ \A g \in DOMAIN old : <<g, g>> \in Levels(old, new)
<1>0. \A g \in DOMAIN old : Len(g) \in Nat
  BY SchemaFacts, LenProperties
<1>1. \A p \in Paths(old) : Len(Front(p)) < Len(Inside(old, p))
  BY InsideFacts
<1>2. \A p \in Paths(old) : Front(p) \in DOMAIN old
  BY PathFacts
<1>3. \A lv \in Levels(old, new) : lv = <<lv[1], lv[2]>> /\ lv[1] \in DOMAIN old
  BY DEF Levels, Domains
<1> DEFINE bad == {lv \in Levels(old, new) : lv[1] # lv[2]}
           lengths == {Len(lv[1]) : lv \in bad}
<1>4. ASSUME bad # {} PROVE FALSE
  <2>1. lengths \subseteq Nat /\ lengths # {}
    BY <1>0, <1>3, <1>4
  <2>2. PICK n \in lengths : \A m \in lengths : n <= m
    <3> HIDE DEF lengths
    <3> QED BY <2>1, Least
  <2>3. PICK lv \in bad : \A mv \in bad : Len(lv[1]) <= Len(mv[1])
    BY <2>2
  <2>4. lv \in Levels(old, new) /\ lv[1] # lv[2] /\ <<lv[1], lv[2]>> \in Levels(old, new) /\ lv[1] \in DOMAIN old
    BY <1>3
  <2> HIDE DEF bad, lengths
  <2>5. PICK t \in Paths(old), u \in Paths(new) : Holds(old, new, t, u, lv[1], lv[2])
    BY <2>4, LevelPair
  <2>6. <<t, u>> \in Pairs(old, new) /\ lv[1] = Inside(old, t) /\ lv[2] = Inside(new, u)
    BY <2>5 DEF Holds
  <2>7. <<Front(t), Front(u)>> \in Levels(old, new)
    BY <2>6, PairFacts
  <2> DEFINE mv == <<Front(t), Front(u)>>
  <2>8. mv[1] = Front(t) /\ mv[2] = Front(u) /\ mv \in Levels(old, new)
    BY <2>7
  <2> HIDE DEF mv
  <2>9. ~(Len(lv[1]) <= Len(mv[1]))
    BY <1>0, <1>1, <1>2, <2>4, <2>6, <2>8
  <2>10. Front(t) = Front(u)
    BY <2>3, <2>8, <2>9 DEF bad
  <2>11. Last(t) = Last(u) /\ FieldAt(old, t).kind = FieldAt(new, u).kind
    BY <2>6 DEF SameFields
  <2>12. t = Append(Front(t), Last(t))
    BY PathFacts
  <2>13. u = Append(Front(u), Last(u))
    BY PathFacts
  <2>14. t = u
    BY <2>10, <2>11, <2>12, <2>13
  <2>15. Inside(old, t) = Inside(new, u)
    BY <2>11, <2>14 DEF Inside, LevelOf
  <2> QED
    BY <2>4, <2>6, <2>15
<1>5. ASSUME NEW g, NEW h, <<g, h>> \in Levels(old, new) PROVE g = h
  <2> DEFINE lv == <<g, h>>
  <2>1. lv \notin bad /\ lv \in Levels(old, new) /\ lv[1] = g /\ lv[2] = h
    BY <1>4, <1>5
  <2> HIDE DEF lv
  <2> QED
    BY <2>1
<1> HIDE DEF bad, lengths
<1> DEFINE missing == {g \in DOMAIN old : <<g, g>> \notin Levels(old, new)}
           sizes == {Len(g) : g \in missing}
<1>6. ASSUME missing # {} PROVE FALSE
  <2>1. sizes \subseteq Nat /\ sizes # {}
    BY <1>0, <1>6
  <2>2. PICK n \in sizes : \A m \in sizes : n <= m
    <3> HIDE DEF sizes
    <3> QED BY <2>1, Least
  <2>3. PICK g \in missing : \A h \in missing : Len(g) <= Len(h)
    BY <2>2
  <2>4. g \in DOMAIN old /\ <<g, g>> \notin Levels(old, new)
    OBVIOUS
  <2> HIDE DEF missing, sizes
  <2>5. g # <<>>
    BY <2>4, LevelsAreClosed DEF Top
  <2>6. PICK t \in Paths(old) : Container(old, t) /\ g = Inside(old, t)
    BY <2>4, <2>5, SchemaFacts
  <2>7. Front(t) \notin missing
    BY <1>0, <1>1, <1>2, <2>3, <2>4, <2>6
  <2>8. <<Front(t), Front(t)>> \in Levels(old, new)
    BY <1>2, <2>7 DEF missing
  <2>9. PICK u \in Paths(new) : <<t, u>> \in Pairs(old, new)
    BY <2>8 DEF SameFields, Lost
  <2>10. Descends(FieldAt(old, t), FieldAt(new, u))
    BY <2>6, <2>9 DEF SameFields, Descends, Container
  <2>11. <<g, Inside(new, u)>> \in Levels(old, new)
    BY <2>6, <2>9, <2>10, PairGoesDown
  <2> QED
    BY <1>5, <2>4, <2>11
<1>7. \A g \in DOMAIN old : <<g, g>> \in Levels(old, new)
  BY <1>6
<1> QED
  BY <1>5, <1>7

(* When nothing was added either, the same holds read backwards. *)
LEMMA SameFieldsBack ==
    ASSUME NEW old, NEW new, WellFormed(old), WellFormed(new), SameFields(old, new), Lost(new, old) = {}
    PROVE  SameFields(new, old)
BY PairBack DEF SameFields

(* The fields of a level of both schemas, place by place.                  *)
LEMMA SameLevel ==
    ASSUME NEW old, NEW new, WellFormed(old), WellFormed(new), SameFields(old, new), Lost(new, old) = {},
           NEW g \in DOMAIN old, ~OutOfOrder(old[g], new[g])
    PROVE  /\ g \in DOMAIN new /\ DOMAIN old[g] = DOMAIN new[g]
           /\ \A i \in DOMAIN old[g] : <<Append(g, old[g][i].name), Append(g, new[g][i].name)>> \in Pairs(old, new)
<1> DEFINE F == old[g]
           G == new[g]
           R(i, j) == <<i, j>> \in Match(F, G)
<1>1. <<g, g>> \in Levels(old, new) /\ g \in DOMAIN new
  <2>1. <<g, g>> \in Levels(old, new)
    BY SameLevels
  <2> QED
    BY <2>1 DEF Levels, Domains
<1>2. <<g, g>> \in Levels(new, old)
  <2>1. SameFields(new, old)
    BY SameFieldsBack
  <2> QED
    BY <1>1, <2>1, SameLevels
<1>3. PairsAt(old, new, <<g, g>>) = {<<Append(g, F[ij[1]].name), Append(g, G[ij[2]].name)>> : ij \in Match(F, G)}
  BY DEF PairsAt
<1>4. /\ DOMAIN F = 1..Len(F) /\ Len(F) \in Nat /\ Siblings(F)
      /\ DOMAIN G = 1..Len(G) /\ Len(G) \in Nat /\ Siblings(G)
  <2>1. F \in Seq(Fields(Segments(old))) /\ Siblings(F)
    BY SchemaFacts
  <2>2. G \in Seq(Fields(Segments(new))) /\ Siblings(G)
    BY <1>1, SchemaFacts
  <2> HIDE DEF F, G
  <2> QED
    BY <2>1, <2>2, LenProperties
<1>5. /\ Match(F, G) = {ij \in (DOMAIN F) \X (DOMAIN G) :
                          IF ById(F, G) THEN F[ij[1]].id = G[ij[2]].id ELSE F[ij[1]].name = G[ij[2]].name}
      /\ ById(F, G) => (\A i, j \in DOMAIN F : F[i].id = F[j].id => i = j)
                       /\ (\A i, j \in DOMAIN G : G[i].id = G[j].id => i = j)
      /\ \A i, j \in DOMAIN F : F[i].name = F[j].name => i = j
      /\ \A i, j \in DOMAIN G : G[i].name = G[j].name => i = j
  <2>1. DOMAIN G \subseteq Nat /\ Siblings(F) /\ Siblings(G)
    BY <1>4
  <2> HIDE DEF F, G
  <2> QED
    BY <2>1, MatchFacts
<1>6. \A i \in DOMAIN F : Append(g, F[i].name) \in Paths(old) /\ Front(Append(g, F[i].name)) = g /\ Last(Append(g, F[i].name)) = F[i].name
  BY FieldFacts
<1>7. \A i \in DOMAIN G : Append(g, G[i].name) \in Paths(new) /\ Front(Append(g, G[i].name)) = g /\ Last(Append(g, G[i].name)) = G[i].name
  BY <1>1, FieldFacts
<1>8. ASSUME NEW p, NEW q, <<p, q>> \in Pairs(old, new), Front(p) = g \/ Front(q) = g
      PROVE  \E i \in DOMAIN F, j \in DOMAIN G : R(i, j) /\ p = Append(g, F[i].name) /\ q = Append(g, G[j].name)
  <2>1. <<Front(p), Front(q)>> \in Levels(old, new)
    BY <1>8, PairFacts
  <2>2. Front(p) = Front(q)
    BY <2>1, SameLevels
  <2> DEFINE x == <<p, q>>
  <2>3. x \in Pairs(old, new) /\ <<Front(x[1]), Front(x[2])>> = <<g, g>>
    BY <1>8, <2>2
  <2>4. x \in PairsAt(old, new, <<g, g>>)
    <3> HIDE DEF x
    <3> QED BY <1>1, <2>3, PairsOfLevel
  <2>5. PICK ij \in Match(F, G) : x = <<Append(g, F[ij[1]].name), Append(g, G[ij[2]].name)>>
    <3> HIDE DEF x, F, G
    <3> QED BY <1>3, <2>4
  <2>6. ij = <<ij[1], ij[2]>> /\ ij[1] \in DOMAIN F /\ ij[2] \in DOMAIN G
    <3> HIDE DEF F, G
    <3> QED BY <1>5
  <2>7. R(ij[1], ij[2])
    BY <2>6
  <2>8. p = Append(g, F[ij[1]].name) /\ q = Append(g, G[ij[2]].name)
    BY <2>5
  <2> HIDE DEF F, G, R
  <2> QED
    BY <2>6, <2>7, <2>8
<1>9. \A i \in DOMAIN F : \E j \in DOMAIN G : R(i, j)
  <2> SUFFICES ASSUME NEW i \in DOMAIN F PROVE \E j \in DOMAIN G : R(i, j)
    OBVIOUS
  <2> DEFINE p == Append(g, F[i].name)
  <2>1. p \in Paths(old) /\ Front(p) = g /\ Last(p) = F[i].name
    BY <1>6
  <2> HIDE DEF p, F, G, R
  <2>2. PICK q \in Paths(new) : <<p, q>> \in Pairs(old, new)
    BY <1>1, <2>1 DEF SameFields, Lost
  <2>3. PICK k \in DOMAIN F, j \in DOMAIN G : R(k, j) /\ p = Append(g, F[k].name)
    BY <1>8, <2>1, <2>2
  <2>4. F[k].name = F[i].name
    BY <1>6, <2>1, <2>3
  <2> QED
    BY <1>5, <2>3, <2>4
<1>10. \A j \in DOMAIN G : \E i \in DOMAIN F : R(i, j)
  <2> SUFFICES ASSUME NEW j \in DOMAIN G PROVE \E i \in DOMAIN F : R(i, j)
    OBVIOUS
  <2> DEFINE q == Append(g, G[j].name)
  <2>1. q \in Paths(new) /\ Front(q) = g /\ Last(q) = G[j].name
    BY <1>7
  <2> HIDE DEF q, F, G, R
  <2>2. PICK p \in Paths(old) : <<q, p>> \in Pairs(new, old)
    <3>1. q \notin Lost(new, old)
      OBVIOUS
    <3> QED
      BY <1>2, <2>1, <3>1 DEF Lost
  <2>3. <<p, q>> \in Pairs(old, new)
    BY <2>2, PairBack
  <2>4. PICK i \in DOMAIN F, k \in DOMAIN G : R(i, k) /\ q = Append(g, G[k].name)
    BY <1>8, <2>1, <2>3
  <2>5. G[k].name = G[j].name
    BY <1>7, <2>1, <2>4
  <2> QED
    BY <1>5, <2>4, <2>5
<1>11. \A i \in DOMAIN F, j \in DOMAIN G :
          R(i, j) <=> IF ById(F, G) THEN F[i].id = G[j].id ELSE F[i].name = G[j].name
  <2> HIDE DEF F, G
  <2> QED BY <1>5
<1>12. \A i \in DOMAIN F, j, k \in DOMAIN G : R(i, j) /\ R(i, k) => j = k
  <2> HIDE DEF F, G, R
  <2> QED BY <1>5, <1>11
<1>13. \A i, k \in DOMAIN F, j \in DOMAIN G : R(i, j) /\ R(k, j) => i = k
  <2> HIDE DEF F, G, R
  <2> QED BY <1>5, <1>11
<1>14. \A i, k \in DOMAIN F, j, l \in DOMAIN G : R(i, j) /\ R(k, l) /\ i < k => ~(j > l)
  <2> SUFFICES ASSUME NEW i \in DOMAIN F, NEW k \in DOMAIN F, NEW j \in DOMAIN G, NEW l \in DOMAIN G,
                      R(i, j), R(k, l), i < k, j > l
               PROVE  FALSE
    OBVIOUS
  <2> DEFINE x == <<i, j>>
             y == <<k, l>>
  <2>1. x \in Match(F, G) /\ y \in Match(F, G) /\ x[1] < y[1] /\ x[2] > y[2]
    OBVIOUS
  <2> HIDE DEF x, y, R
  <2> QED
    BY <2>1 DEF OutOfOrder
<1>15. Len(F) = Len(G) /\ \A i \in 1..Len(F) : R(i, i)
  <2> DEFINE M == Match(F, G)
  <2> HIDE DEF F, G, R
  <2>1. /\ \A i \in 1..Len(F) : \E j \in 1..Len(G) : R(i, j)
        /\ \A j \in 1..Len(G) : \E i \in 1..Len(F) : R(i, j)
    BY <1>4, <1>9, <1>10
  <2>2. \A i \in 1..Len(F), j, k \in 1..Len(G) : R(i, j) /\ R(i, k) => j = k
    BY <1>4, <1>12
  <2>3. \A i, k \in 1..Len(F), j \in 1..Len(G) : R(i, j) /\ R(k, j) => i = k
    BY <1>4, <1>13
  <2>4. \A i, k \in 1..Len(F), j, l \in 1..Len(G) : R(i, j) /\ R(k, l) /\ i < k => ~(j > l)
    BY <1>4, <1>14
  <2>5. \A i, j : R(i, j) <=> <<i, j>> \in M
    BY DEF R
  <2> HIDE DEF M
  <2>6. Len(F) = Len(G) /\ \A i \in 1..Len(F) : <<i, i>> \in M
    <3>1. /\ \A i \in 1..Len(F) : \E j \in 1..Len(G) : <<i, j>> \in M
          /\ \A j \in 1..Len(G) : \E i \in 1..Len(F) : <<i, j>> \in M
          /\ \A i \in 1..Len(F), j, k \in 1..Len(G) : <<i, j>> \in M /\ <<i, k>> \in M => j = k
          /\ \A i, k \in 1..Len(F), j \in 1..Len(G) : <<i, j>> \in M /\ <<k, j>> \in M => i = k
          /\ \A i, k \in 1..Len(F), j, l \in 1..Len(G) :
                <<i, j>> \in M /\ <<k, l>> \in M /\ i < k => ~(j > l)
      BY <2>1, <2>2, <2>3, <2>4, <2>5
    <3> QED
      BY <1>4, <3>1, InOrder
  <2> QED
    BY <2>5, <2>6
<1>16. ASSUME NEW i \in DOMAIN F PROVE <<Append(g, F[i].name), Append(g, G[i].name)>> \in Pairs(old, new)
  <2> DEFINE ii == <<i, i>>
  <2>1. ii \in Match(F, G) /\ ii[1] = i /\ ii[2] = i
    BY <1>4, <1>15
  <2> HIDE DEF ii
  <2>2. <<Append(g, F[ii[1]].name), Append(g, G[ii[2]].name)>> \in PairsAt(old, new, <<g, g>>)
    BY <1>3, <2>1
  <2>3. <<Append(g, F[i].name), Append(g, G[i].name)>> \in PairsAt(old, new, <<g, g>>)
    BY <2>1, <2>2
  <2> QED
    BY <1>1, <2>3, AllPairs
<1> QED
  BY <1>1, <1>4, <1>15, <1>16

(* An empty diff has no mutation of any kind. *)
LEMMA NothingOfNoKind ==
    ASSUME NEW k
    PROVE  OfKind({}, k) = {}
BY DEF OfKind

(* The shape of a schema, level by level. *)
LEMMA ShapeMeans ==
    ASSUME NEW s, WellFormed(s)
    PROVE  Shape(s) = [r \in DOMAIN s |-> [i \in DOMAIN s[r] |-> Member(s[r][i])]]
<1>1. \A g \in DOMAIN s : Under(g, <<>>) /\ Beyond(g, <<>>) = g /\ <<>> \o g = g
  <2> SUFFICES ASSUME NEW g \in DOMAIN s PROVE Under(g, <<>>) /\ Beyond(g, <<>>) = g /\ <<>> \o g = g
    OBVIOUS
  <2>1. g \in Seq(Segments(s))
    BY SchemaFacts
  <2>2. <<>> \in Seq(Segments(s))
    BY EmptySeq
  <2>3. <<>> \o g = g
    BY <2>1, ConcatEmptySeq
  <2>4. Under(<<>> \o g, <<>>) /\ Beyond(<<>> \o g, <<>>) = g
    BY <2>1, <2>2, BeyondFacts
  <2> QED
    BY <2>3, <2>4
<1> DEFINE levels == {g \in DOMAIN s : Under(g, <<>>)}
           at == {Beyond(g, <<>>) : g \in levels}
<1>2. Shape(s) = [r \in at |-> [i \in DOMAIN s[(<<>>) \o r] |-> Member(s[(<<>>) \o r][i])]]
  BY DEF Shape, Inner
<1>3. levels = DOMAIN s
  BY <1>1
<1> HIDE DEF levels
<1>4. at = DOMAIN s
  BY <1>1, <1>3
<1> HIDE DEF at
<1> QED
  BY <1>1, <1>2, <1>4

(* Without any mutation every field is paired with its like. *)
LEMMA EmptyDiffMeansSameFields ==
    ASSUME NEW old, NEW new, WellFormed(old), WellFormed(new), diff_schemas(old, new) = {}
    PROVE  /\ SameFields(old, new) /\ Lost(new, old) = {}
           /\ \A p \in Paths(old), q \in Paths(new) : <<p, q>> \in Pairs(old, new) =>
                 /\ Last(p) = Last(q) /\ FieldAt(old, p).kind = FieldAt(new, q).kind
                 /\ FieldAt(old, p).null = FieldAt(new, q).null
<1>0. \A k : OfKind(diff_schemas(old, new), k) = {}
  BY NothingOfNoKind
<1>1. Lost(old, new) = {}
  <2> SUFFICES ASSUME NEW p \in Lost(old, new) PROVE FALSE
    OBVIOUS
  <2> DEFINE m == remove_field(p, TypeOf(old, p), FieldAt(old, p).null)
  <2>1. \E r \in Lost(old, new) : m = remove_field(r, TypeOf(old, r), FieldAt(old, r).null)
    OBVIOUS
  <2> HIDE DEF m
  <2> QED
    BY <1>0, <2>1, RemovedMeans
<1>2. Lost(new, old) = {}
  <2> SUFFICES ASSUME NEW p \in Lost(new, old) PROVE FALSE
    OBVIOUS
  <2> DEFINE m == add_field(p, TypeOf(new, p), FieldAt(new, p).null)
  <2>1. \E r \in Lost(new, old) : m = add_field(r, TypeOf(new, r), FieldAt(new, r).null)
    OBVIOUS
  <2> HIDE DEF m
  <2> QED
    BY <1>0, <2>1, AddedMeans
<1>3. ASSUME NEW p \in Paths(old), NEW q \in Paths(new), <<p, q>> \in Pairs(old, new)
      PROVE  /\ Last(p) = Last(q) /\ FieldAt(old, p).kind = FieldAt(new, q).kind
             /\ FieldAt(old, p).null = FieldAt(new, q).null
  <2> DEFINE pq == <<p, q>>
  <2>1. pq \in Pairs(old, new) /\ pq[1] = p /\ pq[2] = q
    BY <1>3
  <2> HIDE DEF pq
  <2>2. Last(p) = Last(q)
    <3> SUFFICES ASSUME Last(p) # Last(q) PROVE FALSE
      OBVIOUS
    <3>1. \E m \in OfKind(diff_schemas(old, new), "rename_field") : m.old_path = p /\ m.path = q
      BY <1>3, RenameFacts
    <3> QED
      BY <1>0, <3>1
  <2>3. FieldAt(old, p).kind = FieldAt(new, q).kind
    <3> SUFFICES ASSUME FieldAt(old, p).kind # FieldAt(new, q).kind PROVE FALSE
      OBVIOUS
    <3>1. ~Descends(FieldAt(old, p), FieldAt(new, q)) /\ TypeOf(old, p) # TypeOf(new, q)
      BY DEF Descends, TypeOf
    <3> DEFINE m == change_type(pq[2], TypeOf(old, pq[1]), TypeOf(new, pq[2]))
    <3>2. \E xy \in Pairs(old, new) : /\ ~Descends(FieldAt(old, xy[1]), FieldAt(new, xy[2]))
                                      /\ TypeOf(old, xy[1]) # TypeOf(new, xy[2])
                                      /\ m = change_type(xy[2], TypeOf(old, xy[1]), TypeOf(new, xy[2]))
      BY <2>1, <3>1
    <3> HIDE DEF m
    <3> QED
      BY <1>0, <3>2, RetypedMeans
  <2>4. FieldAt(old, p).null = FieldAt(new, q).null
    <3> SUFFICES ASSUME FieldAt(old, p).null # FieldAt(new, q).null PROVE FALSE
      OBVIOUS
    <3> DEFINE m == change_nullability(pq[2], FieldAt(old, pq[1]).null, FieldAt(new, pq[2]).null)
    <3>2. \E xy \in Pairs(old, new) :
                 /\ FieldAt(old, xy[1]).null # FieldAt(new, xy[2]).null
                 /\ m = change_nullability(xy[2], FieldAt(old, xy[1]).null, FieldAt(new, xy[2]).null)
      BY <2>1
    <3> HIDE DEF m
    <3> QED
      BY <1>0, <3>2, RelaxedMeans
  <2> QED
    BY <2>2, <2>3, <2>4
<1>4. SameFields(old, new)
  BY <1>1, <1>3 DEF SameFields
<1> QED
  BY <1>2, <1>3, <1>4

(* No mutation at all means the same levels with the same members.         *)
LEMMA EmptyDiffMeansSameShape ==
    ASSUME NEW old, NEW new, WellFormed(old), WellFormed(new), diff_schemas(old, new) = {}
    PROVE  Shape(old) = Shape(new)
<1>0. \A k : OfKind(diff_schemas(old, new), k) = {}
  BY NothingOfNoKind
<1>2. Lost(new, old) = {}
  BY EmptyDiffMeansSameFields
<1>3. \A p \in Paths(old), q \in Paths(new) : <<p, q>> \in Pairs(old, new) =>
         /\ Last(p) = Last(q) /\ FieldAt(old, p).kind = FieldAt(new, q).kind
         /\ FieldAt(old, p).null = FieldAt(new, q).null
  BY EmptyDiffMeansSameFields
<1>4. SameFields(old, new)
  BY EmptyDiffMeansSameFields
<1>5. \A g \in DOMAIN old : ~OutOfOrder(old[g], new[g])
  <2> SUFFICES ASSUME NEW g \in DOMAIN old, OutOfOrder(old[g], new[g]) PROVE FALSE
    OBVIOUS
  <2> DEFINE lv == <<g, g>>
             m == reorder_fields(lv[2], NamesOf(old[lv[1]]), NamesOf(new[lv[2]]))
  <2>1. lv \in Levels(old, new) /\ lv[1] = g /\ lv[2] = g
    BY <1>4, SameLevels
  <2> HIDE DEF lv
  <2>2. \E mv \in Levels(old, new) :
                 /\ OutOfOrder(old[mv[1]], new[mv[2]])
                 /\ m = reorder_fields(mv[2], NamesOf(old[mv[1]]), NamesOf(new[mv[2]]))
    BY <2>1
  <2> HIDE DEF m
  <2> QED
    BY <1>0, <2>2, ReorderedMeans
<1>6. \A g \in DOMAIN old :
         /\ g \in DOMAIN new /\ DOMAIN old[g] = DOMAIN new[g]
         /\ \A i \in DOMAIN old[g] : <<Append(g, old[g][i].name), Append(g, new[g][i].name)>> \in Pairs(old, new)
  BY <1>2, <1>4, <1>5, SameLevel
<1>7. DOMAIN old = DOMAIN new
  <2>1. SameFields(new, old)
    BY <1>2, <1>4, SameFieldsBack
  <2>2. \A g \in DOMAIN new : <<g, g>> \in Levels(new, old)
    BY <2>1, SameLevels
  <2>3. DOMAIN new \subseteq DOMAIN old
    BY <2>2 DEF Levels, Domains
  <2> QED
    BY <1>6, <2>3
<1>8. \A g \in DOMAIN old : \A i \in DOMAIN old[g] : Member(old[g][i]) = Member(new[g][i])
  <2> SUFFICES ASSUME NEW g \in DOMAIN old, NEW i \in DOMAIN old[g] PROVE Member(old[g][i]) = Member(new[g][i])
    OBVIOUS
  <2> DEFINE p == Append(g, old[g][i].name)
             q == Append(g, new[g][i].name)
  <2>1. p \in Paths(old) /\ FieldAt(old, p) = old[g][i] /\ Last(p) = old[g][i].name
    BY FieldFacts
  <2>2. g \in DOMAIN new /\ i \in DOMAIN new[g]
    BY <1>6
  <2>3. q \in Paths(new) /\ FieldAt(new, q) = new[g][i] /\ Last(q) = new[g][i].name
    BY <2>2, FieldFacts
  <2>4. <<p, q>> \in Pairs(old, new)
    BY <1>6
  <2> HIDE DEF p, q
  <2>5. Last(p) = Last(q) /\ FieldAt(old, p).kind = FieldAt(new, q).kind /\ FieldAt(old, p).null = FieldAt(new, q).null
    BY <1>3, <2>1, <2>3, <2>4
  <2> QED
    BY <2>1, <2>3, <2>5 DEF Member
<1>9. \A g \in DOMAIN old :
         [i \in DOMAIN old[g] |-> Member(old[g][i])] = [i \in DOMAIN new[g] |-> Member(new[g][i])]
  BY <1>6, <1>8
<1>10. Shape(old) = [g \in DOMAIN old |-> [i \in DOMAIN old[g] |-> Member(old[g][i])]]
  BY ShapeMeans
<1>11. Shape(new) = [g \in DOMAIN new |-> [i \in DOMAIN new[g] |-> Member(new[g][i])]]
  BY ShapeMeans
<1> QED
  BY <1>7, <1>9, <1>10, <1>11

(* A schema is compared with itself level by level and field by field.     *)
LEMMA LevelsOfOne ==
    ASSUME NEW s, WellFormed(s)
    PROVE  \A lv \in Levels(s, s) : lv[1] = lv[2]
<1> DEFINE S == {lv \in Domains(s, s) : lv[1] = lv[2]}
<1>1. Top \in S
  BY TopIsThere DEF Top
<1>2. IsClosed(s, s, S)
  <2> SUFFICES ASSUME NEW lv \in S, NEW x \in LevelsBelow(s, s, lv) PROVE x \in S
    BY DEF IsClosed
  <2>1. PICK g \in DOMAIN s : lv = <<g, g>>
    BY DEF Domains
  <2>2. PICK p \in PathsIn(s, g), q \in PathsIn(s, g) :
                  SameField(s, s, p, q) /\ x = <<Inside(s, p), Inside(s, q)>>
    BY <2>1, BelowFacts
  <2>3. p \in Paths(s) /\ q \in Paths(s) /\ Front(p) = g /\ Front(q) = g
    BY PathsOfLevel
  <2>4. SameField(s, s, p, p)
    BY DEF SameField
  <2>5. p = q
    BY <2>2, <2>3, <2>4, SameFieldUnique
  <2>6. x \in Domains(s, s)
    BY TopIsThere DEF IsClosed
  <2> QED
    BY <2>2, <2>5, <2>6
<1>3. S \in SUBSET Domains(s, s)
  OBVIOUS
<1> HIDE DEF S
<1>4. Levels(s, s) \subseteq S
  BY <1>1, <1>2, <1>3 DEF Levels
<1> QED
  BY <1>4 DEF S

(* In the diff of a schema with itself each field is paired with itself,   *)
(* and none is lost.                                                       *)
LEMMA PairsOfOne ==
    ASSUME NEW s, WellFormed(s)
    PROVE  /\ \A x \in Pairs(s, s) : x[1] = x[2]
           /\ Lost(s, s) = {}
<1>1. ASSUME NEW p, NEW q, <<p, q>> \in Pairs(s, s) PROVE p = q
  <2>1. p \in Paths(s) /\ q \in Paths(s) /\ <<Front(p), Front(q)>> \in Levels(s, s) /\ SameField(s, s, p, q)
    BY <1>1, PairFacts
  <2> DEFINE lv == <<Front(p), Front(q)>>
  <2>2. lv \in Levels(s, s) /\ lv[1] = Front(p) /\ lv[2] = Front(q)
    BY <2>1
  <2> HIDE DEF lv
  <2>3. Front(p) = Front(q)
    BY <2>2, LevelsOfOne
  <2>4. SameField(s, s, p, p)
    BY DEF SameField
  <2> QED
    BY <2>1, <2>3, <2>4, SameFieldUnique
<1>2. \A x \in Pairs(s, s) : x[1] = x[2]
  <2> SUFFICES ASSUME NEW x \in Pairs(s, s) PROVE x[1] = x[2]
    OBVIOUS
  <2>1. <<x[1], x[2]>> \in Pairs(s, s)
    BY PairIs
  <2> QED
    BY <1>1, <2>1
<1>3. ASSUME NEW p \in Lost(s, s) PROVE FALSE
  <2>1. p \in Paths(s) /\ \A q \in Paths(s) : <<p, q>> \notin Pairs(s, s)
    BY DEF Lost
  <2>2. PICK h : <<Front(p), h>> \in Levels(s, s)
    BY DEF Lost
  <2> DEFINE lv == <<Front(p), h>>
  <2>3. lv \in Levels(s, s) /\ lv[1] = Front(p) /\ lv[2] = h
    BY <2>2
  <2> HIDE DEF lv
  <2>4. Front(p) = h
    BY <2>3, LevelsOfOne
  <2>5. SameField(s, s, p, p)
    BY DEF SameField
  <2>6. <<p, p>> \in Pairs(s, s)
    BY <2>1, <2>2, <2>4, <2>5, PairMeans
  <2> QED
    BY <2>1, <2>6
<1> QED
  BY <1>2, <1>3

(* Nothing differs between a schema and itself.                            *)
LEMMA SameSchemaMeansEmptyDiff ==
    ASSUME NEW s, WellFormed(s)
    PROVE  diff_schemas(s, s) = {}
<1> SUFFICES ASSUME NEW m \in diff_schemas(s, s) PROVE FALSE
  OBVIOUS
<1>1. \A x \in Pairs(s, s) : x[1] = x[2]
  BY PairsOfOne
<1>2. Lost(s, s) = {}
  BY PairsOfOne
<1>3. m \notin OfKind(diff_schemas(s, s), "remove_field")
  BY <1>2, RemovedMeans
<1>4. m \notin OfKind(diff_schemas(s, s), "add_field")
  BY <1>2, AddedMeans
<1>5. m \notin OfKind(diff_schemas(s, s), "rename_field")
  <2>1. ~ \E pq \in Pairs(s, s) : Last(pq[1]) # Last(pq[2]) /\ m = rename_field(pq[1], pq[2], FieldAt(s, pq[2]).id)
    BY <1>1
  <2> QED
    BY <2>1, RenamedMeans
<1>6. m \notin OfKind(diff_schemas(s, s), "change_type")
  <2>1. ~ \E pq \in Pairs(s, s) : /\ ~Descends(FieldAt(s, pq[1]), FieldAt(s, pq[2]))
                                  /\ TypeOf(s, pq[1]) # TypeOf(s, pq[2])
                                  /\ m = change_type(pq[2], TypeOf(s, pq[1]), TypeOf(s, pq[2]))
    BY <1>1
  <2> QED
    BY <2>1, RetypedMeans
<1>7. m \notin OfKind(diff_schemas(s, s), "change_nullability")
  <2>1. ~ \E pq \in Pairs(s, s) : /\ FieldAt(s, pq[1]).null # FieldAt(s, pq[2]).null
                                  /\ m = change_nullability(pq[2], FieldAt(s, pq[1]).null, FieldAt(s, pq[2]).null)
    BY <1>1
  <2> QED
    BY <2>1, RelaxedMeans
<1>8. m \notin OfKind(diff_schemas(s, s), "reorder_fields")
  <2>1. ~ \E lv \in Levels(s, s) :
                 /\ OutOfOrder(s[lv[1]], s[lv[2]])
                 /\ m = reorder_fields(lv[2], NamesOf(s[lv[1]]), NamesOf(s[lv[2]]))
    <3> SUFFICES ASSUME NEW lv \in Levels(s, s), OutOfOrder(s[lv[1]], s[lv[2]]) PROVE FALSE
      OBVIOUS
    <3>1. lv[1] = lv[2] /\ lv[1] \in DOMAIN s
      BY LevelsOfOne DEF Levels, Domains
    <3> DEFINE F == s[lv[1]]
    <3>2. Siblings(F) /\ DOMAIN F \subseteq Nat
      <4>1. F \in Seq(Fields(Segments(s))) /\ Siblings(F)
        BY <3>1, SchemaFacts
      <4> HIDE DEF F
      <4> QED
        BY <4>1, LenProperties
    <3>3. OutOfOrder(F, F)
      BY <3>1
    <3> HIDE DEF F
    <3>4. PICK x, y \in Match(F, F) : x[1] < y[1] /\ x[2] > y[2]
      BY <3>3 DEF OutOfOrder
    <3>5. \A z \in Match(F, F) : z[1] = z[2] /\ z[1] \in Nat
      BY <3>2, MatchFacts
    <3> QED
      BY <3>4, <3>5
  <2> QED
    BY <2>1, ReorderedMeans
<1>9. m.kind \in {"remove_field", "rename_field", "add_field", "reorder_fields", "change_type", "change_nullability"}
  BY DiffByKinds
<1> QED
  BY <1>3, <1>4, <1>5, <1>6, <1>7, <1>8, <1>9 DEF OfKind

-----------------------------------------------------------------------------
(***************************************************************************)
(* The diff read backwards                                                 *)
(***************************************************************************)

(* The paths of remove_field mutations are those of the lost fields.       *)
LEMMA RemovedPaths ==
    ASSUME NEW old, NEW new, WellFormed(old), WellFormed(new)
    PROVE  {m.path : m \in OfKind(diff_schemas(old, new), "remove_field")} = Lost(old, new)
<1> DEFINE of(r) == remove_field(r, TypeOf(old, r), FieldAt(old, r).null)
           gone == OfKind(diff_schemas(old, new), "remove_field")
<1>1. \A r : of(r).path = r
  BY DEF remove_field
<1>2. \A m : m \in gone <=> \E r \in Lost(old, new) : m = of(r)
  BY RemovedMeans
<1> HIDE DEF of, gone
<1>3. {m.path : m \in gone} = Lost(old, new)
  BY <1>1, <1>2
<1> QED
  BY <1>3 DEF gone

(* The paths of add_field mutations are those of the fields that are lost  *)
(* when the diff is read backwards.                                        *)
LEMMA AddedPaths ==
    ASSUME NEW old, NEW new, WellFormed(old), WellFormed(new)
    PROVE  {m.path : m \in OfKind(diff_schemas(old, new), "add_field")} = Lost(new, old)
<1> DEFINE of(r) == add_field(r, TypeOf(new, r), FieldAt(new, r).null)
           more == OfKind(diff_schemas(old, new), "add_field")
<1>1. \A r : of(r).path = r
  BY DEF add_field
<1>2. \A m : m \in more <=> \E r \in Lost(new, old) : m = of(r)
  BY AddedMeans
<1> HIDE DEF of, more
<1>3. {m.path : m \in more} = Lost(new, old)
  BY <1>1, <1>2
<1> QED
  BY <1>3 DEF more

(* Read backwards, each rename goes from the new path to the old one. *)
LEMMA RenamesBack ==
    ASSUME NEW old, NEW new, WellFormed(old), WellFormed(new)
    PROVE  {<<m.old_path, m.path>> : m \in OfKind(diff_schemas(new, old), "rename_field")}
              = {<<m.path, m.old_path>> : m \in OfKind(diff_schemas(old, new), "rename_field")}
<1> DEFINE back == OfKind(diff_schemas(new, old), "rename_field")
           forth == OfKind(diff_schemas(old, new), "rename_field")
<1>1. ASSUME NEW m \in back PROVE \E o \in forth : m.old_path = o.path /\ m.path = o.old_path
  <2>1. <<m.old_path, m.path>> \in Pairs(new, old) /\ Last(m.old_path) # Last(m.path)
    BY RenameFacts
  <2>2. <<m.path, m.old_path>> \in Pairs(old, new)
    BY <2>1, PairBack
  <2> DEFINE p == m.path
             q == m.old_path
  <2>3. <<p, q>> \in Pairs(old, new) /\ Last(p) # Last(q)
    BY <2>1, <2>2
  <2> HIDE DEF p, q
  <2>4. \E o \in forth : o.old_path = p /\ o.path = q
    BY <2>3, RenameFacts
  <2> QED
    BY <2>4 DEF p, q
<1>2. ASSUME NEW m \in forth PROVE \E o \in back : o.old_path = m.path /\ o.path = m.old_path
  <2>1. <<m.old_path, m.path>> \in Pairs(old, new) /\ Last(m.old_path) # Last(m.path)
    BY RenameFacts
  <2>2. <<m.path, m.old_path>> \in Pairs(new, old)
    BY <2>1, PairBack
  <2> DEFINE p == m.path
             q == m.old_path
  <2>3. <<p, q>> \in Pairs(new, old) /\ Last(p) # Last(q)
    BY <2>1, <2>2
  <2> HIDE DEF p, q
  <2>4. \E o \in back : o.old_path = p /\ o.path = q
    BY <2>3, RenameFacts
  <2> QED
    BY <2>4 DEF p, q
<1> HIDE DEF back, forth
<1>3. {<<m.old_path, m.path>> : m \in back} = {<<m.path, m.old_path>> : m \in forth}
  BY <1>1, <1>2
<1> QED
  BY <1>3 DEF back, forth

(* The pairs a mutation of this kind is reported for, from either side.    *)
Altered(old, new, kind, p, q) ==
    IF kind = "change_type"
    THEN ~Descends(FieldAt(old, p), FieldAt(new, q)) /\ TypeOf(old, p) # TypeOf(new, q)
    ELSE FieldAt(old, p).null # FieldAt(new, q).null

PathsOf(old, new, kind) == {m.path : m \in OfKind(diff_schemas(old, new), kind)}
AlteredPairs(old, new, kind) == {xy \in Pairs(old, new) : Altered(old, new, kind, xy[1], xy[2])}

(* change_type and change_nullability are reported at the new path of each *)
(* altered pair.                                                           *)
LEMMA AlteredPaths ==
    ASSUME NEW old, NEW new, WellFormed(old), WellFormed(new), NEW kind \in {"change_type", "change_nullability"}
    PROVE  PathsOf(old, new, kind) = {pq[2] : pq \in AlteredPairs(old, new, kind)}
<1>1. CASE kind = "change_type"
  <2> DEFINE of(pq) == change_type(pq[2], TypeOf(old, pq[1]), TypeOf(new, pq[2]))
             is(pq) == Altered(old, new, kind, pq[1], pq[2])
             seen == OfKind(diff_schemas(old, new), kind)
  <2>1. \A pq : of(pq).path = pq[2]
    BY DEF change_type
  <2>2. \A pq : is(pq) <=> ~Descends(FieldAt(old, pq[1]), FieldAt(new, pq[2])) /\ TypeOf(old, pq[1]) # TypeOf(new, pq[2])
    BY <1>1 DEF Altered
  <2>3. \A m : m \in seen <=> \E pq \in Pairs(old, new) : is(pq) /\ m = of(pq)
    <3> SUFFICES ASSUME NEW m PROVE m \in seen <=> \E pq \in Pairs(old, new) : is(pq) /\ m = of(pq)
      OBVIOUS
    <3>1. m \in OfKind(diff_schemas(old, new), "change_type") <=>
              \E pq \in Pairs(old, new) : /\ ~Descends(FieldAt(old, pq[1]), FieldAt(new, pq[2]))
                                          /\ TypeOf(old, pq[1]) # TypeOf(new, pq[2])
                                          /\ m = of(pq)
      BY RetypedMeans
    <3> HIDE DEF is, of
    <3> QED
      BY <1>1, <2>2, <3>1
  <2> HIDE DEF of, is, seen
  <2>4. {m.path : m \in seen} = {pq[2] : pq \in {xy \in Pairs(old, new) : is(xy)}}
    BY <2>1, <2>3
  <2> QED
    BY <2>4 DEF is, seen, PathsOf, AlteredPairs
<1>2. CASE kind = "change_nullability"
  <2> DEFINE of(pq) == change_nullability(pq[2], FieldAt(old, pq[1]).null, FieldAt(new, pq[2]).null)
             is(pq) == Altered(old, new, kind, pq[1], pq[2])
             seen == OfKind(diff_schemas(old, new), kind)
  <2>1. \A pq : of(pq).path = pq[2]
    BY DEF change_nullability
  <2>2. \A pq : is(pq) <=> FieldAt(old, pq[1]).null # FieldAt(new, pq[2]).null
    BY <1>2 DEF Altered
  <2>3. \A m : m \in seen <=> \E pq \in Pairs(old, new) : is(pq) /\ m = of(pq)
    <3> SUFFICES ASSUME NEW m PROVE m \in seen <=> \E pq \in Pairs(old, new) : is(pq) /\ m = of(pq)
      OBVIOUS
    <3>1. m \in OfKind(diff_schemas(old, new), "change_nullability") <=>
              \E pq \in Pairs(old, new) : FieldAt(old, pq[1]).null # FieldAt(new, pq[2]).null /\ m = of(pq)
      BY RelaxedMeans
    <3> HIDE DEF is, of
    <3> QED
      BY <1>2, <2>2, <3>1
  <2> HIDE DEF of, is, seen
  <2>4. {m.path : m \in seen} = {pq[2] : pq \in {xy \in Pairs(old, new) : is(xy)}}
    BY <2>1, <2>3
  <2> QED
    BY <2>4 DEF is, seen, PathsOf, AlteredPairs
<1> QED
  BY <1>1, <1>2

(* Read backwards, they are reported for the same pairs, at the old path. *)
LEMMA AlterationsBack ==
    ASSUME NEW old, NEW new, WellFormed(old), WellFormed(new), NEW kind \in {"change_type", "change_nullability"}
    PROVE  {m.path : m \in OfKind(diff_schemas(new, old), kind)}
              = {pq[1] : pq \in {xy \in Pairs(old, new) :
                                    xy[2] \in {m.path : m \in OfKind(diff_schemas(old, new), kind)}}}
<1> DEFINE back == {m.path : m \in OfKind(diff_schemas(new, old), kind)}
           forth == {m.path : m \in OfKind(diff_schemas(old, new), kind)}
           carried == {xy \in Pairs(old, new) : xy[2] \in forth}
<1>a. PathsOf(old, new, kind) = {pq[2] : pq \in AlteredPairs(old, new, kind)}
  BY AlteredPaths
<1>b. PathsOf(new, old, kind) = {pq[2] : pq \in AlteredPairs(new, old, kind)}
  BY AlteredPaths
<1>1. \A x : x \in forth <=> \E xy \in Pairs(old, new) : Altered(old, new, kind, xy[1], xy[2]) /\ x = xy[2]
  BY <1>a DEF PathsOf, AlteredPairs
<1>2. \A x : x \in back <=> \E xy \in Pairs(new, old) : Altered(new, old, kind, xy[1], xy[2]) /\ x = xy[2]
  BY <1>b DEF PathsOf, AlteredPairs
<1>3. \A p, q : Altered(old, new, kind, p, q) <=> Altered(new, old, kind, q, p)
  BY DEF Altered, Descends
<1> HIDE DEF back, forth
<1>4. \A p, q : <<p, q>> \in Pairs(old, new) => (q \in forth <=> Altered(old, new, kind, p, q))
  <2> SUFFICES ASSUME NEW p, NEW q, <<p, q>> \in Pairs(old, new)
               PROVE  q \in forth <=> Altered(old, new, kind, p, q)
    OBVIOUS
  <2>1. ASSUME q \in forth PROVE Altered(old, new, kind, p, q)
    <3>1. PICK xy \in Pairs(old, new) : Altered(old, new, kind, xy[1], xy[2]) /\ q = xy[2]
      BY <1>1, <2>1
    <3>2. <<xy[1], q>> \in Pairs(old, new)
      BY <3>1, PairIs
    <3>3. xy[1] = p
      BY <3>2, PairUniqueBack
    <3> QED
      BY <3>1, <3>3
  <2>2. ASSUME Altered(old, new, kind, p, q) PROVE q \in forth
    <3> DEFINE x == <<p, q>>
    <3>1. x \in Pairs(old, new) /\ Altered(old, new, kind, x[1], x[2]) /\ x[2] = q
      BY <2>2
    <3> HIDE DEF x
    <3> QED
      BY <1>1, <3>1
  <2> QED
    BY <2>1, <2>2
<1>5. \A p : p \in back <=> \E q : <<p, q>> \in Pairs(old, new) /\ Altered(old, new, kind, p, q)
  <2> SUFFICES ASSUME NEW p PROVE p \in back <=> \E q : <<p, q>> \in Pairs(old, new) /\ Altered(old, new, kind, p, q)
    OBVIOUS
  <2>1. ASSUME p \in back PROVE \E q : <<p, q>> \in Pairs(old, new) /\ Altered(old, new, kind, p, q)
    <3>1. PICK xy \in Pairs(new, old) : Altered(new, old, kind, xy[1], xy[2]) /\ p = xy[2]
      BY <1>2, <2>1
    <3>2. <<xy[1], p>> \in Pairs(new, old)
      BY <3>1, PairIs
    <3>3. <<p, xy[1]>> \in Pairs(old, new)
      BY <3>2, PairBack
    <3>4. Altered(old, new, kind, p, xy[1])
      BY <1>3, <3>1
    <3> QED
      BY <3>3, <3>4
  <2>2. ASSUME NEW q, <<p, q>> \in Pairs(old, new), Altered(old, new, kind, p, q) PROVE p \in back
    <3> DEFINE x == <<q, p>>
    <3>1. x[1] = q /\ x[2] = p
      OBVIOUS
    <3>2. <<q, p>> \in Pairs(new, old)
      BY <2>2, PairBack
    <3>3. x \in Pairs(new, old) /\ Altered(new, old, kind, x[1], x[2])
      BY <1>3, <2>2, <3>1, <3>2
    <3> HIDE DEF x
    <3> QED
      BY <1>2, <3>1, <3>3
  <2> QED
    BY <2>1, <2>2
<1>6. \A p : p \in back <=> \E q : <<p, q>> \in Pairs(old, new) /\ q \in forth
  BY <1>4, <1>5
<1>7. \A x \in Pairs(old, new) : x = <<x[1], x[2]>>
  BY PairIs
<1>8. \A p : p \in {pq[1] : pq \in carried} <=> \E q : <<p, q>> \in Pairs(old, new) /\ q \in forth
  <2>1. ASSUME NEW pq \in carried PROVE <<pq[1], pq[2]>> \in Pairs(old, new) /\ pq[2] \in forth
    BY <1>7
  <2>2. ASSUME NEW p, NEW q, <<p, q>> \in Pairs(old, new), q \in forth PROVE <<p, q>> \in carried /\ p = <<p, q>>[1]
    BY <2>2
  <2> HIDE DEF carried
  <2>3. ASSUME NEW p, p \in {pq[1] : pq \in carried} PROVE \E q : <<p, q>> \in Pairs(old, new) /\ q \in forth
    BY <2>1, <2>3
  <2>4. ASSUME NEW p, NEW q, <<p, q>> \in Pairs(old, new), q \in forth PROVE p \in {pq[1] : pq \in carried}
    BY <2>2, <2>4
  <2> QED
    BY <2>3, <2>4
<1> HIDE DEF carried
<1>9. back = {pq[1] : pq \in carried}
  BY <1>6, <1>8
<1> QED
  BY <1>9 DEF back, forth, carried
=============================================================================
