----------------------------- MODULE ContentProofs -----------------------------
(***************************************************************************)
(* What the documents of a candidate and of a release do to the rows of a  *)
(* content database, for every database, candidate and set of materials.   *)
(*                                                                         *)
(* A replay is a recursive function over a document; that all of it goes   *)
(* as its first steps do is an induction over the set of the places up to  *)
(* which it does (UpTo).                                                   *)
(***************************************************************************)
EXTENDS Derivation, FiniteSetTheorems, FunctionTheorems, SequenceTheorems,
        WellFoundedInduction, TLAPS

-----------------------------------------------------------------------------
(***************************************************************************)
(* Lists: a finite set is listed in an order by counting, for each of its  *)
(* members, those before it.                                               *)
(***************************************************************************)
Below == {p \in Nat \X Nat : p[1] < p[2]}

\* Induction up to a bound, as a statement about sets.
LEMMA UpTo ==
  ASSUME NEW L \in Nat, NEW S \in SUBSET (0..L), 0 \in S, \A n \in S : n < L => n + 1 \in S
  PROVE  S = 0..L
<1>1. IsWellFoundedOn(Below, Nat)
  BY NatLessThanWellFounded DEF OpToRel, Below
<1>2. SUFFICES ASSUME (0..L) \ S # {} PROVE FALSE
  OBVIOUS
<1>3. PICK x \in (0..L) \ S : \A y \in (0..L) \ S : <<y, x>> \notin Below
  <2>1. (0..L) \ S \subseteq Nat
    OBVIOUS
  <2>2. QED
    BY <1>1, <1>2, <2>1, WFMin
<1>4. x \in Nat /\ x # 0 /\ x - 1 \in 0..L /\ x - 1 < L
  BY <1>3
<1>5. <<x - 1, x>> \in Below
  BY <1>4 DEF Below
<1>6. x - 1 \in S
  BY <1>3, <1>4, <1>5
<1>7. QED
  BY <1>3, <1>4, <1>6

\* Replay is what its definition says it is: the state after each mutation comes from
\* the state before it.
LEMMA ReplayDef ==
  ASSUME NEW db, NEW operations, Len(operations) \in Nat
  PROVE  LET t == Replay(db, operations)
         IN  /\ t[0] = [ok |-> TRUE, db |-> db]
             /\ \A n \in 1..Len(operations) : t[n] = AppliedTo(t[n - 1], operations[n])
<1> DEFINE L == Len(operations)
           Start0 == [ok |-> TRUE, db |-> db]
           Is(f, n) == f = [k \in 0..n |-> IF k = 0 THEN Start0 ELSE AppliedTo(f[k - 1], operations[k])]
           S == {n \in 0..L : \E f : Is(f, n)}
<1> HIDE DEF Start0
<1>1. 0 \in S
  <2>1. Is([k \in 0..0 |-> Start0], 0)
    OBVIOUS
  <2>2. \E f : Is(f, 0)
    <3> HIDE DEF Is
    <3>1. QED
      BY <2>1
  <2>3. QED
    BY <2>2
<1>2. ASSUME NEW n \in S, n < L PROVE n + 1 \in S
  <2>1. PICK f : Is(f, n)
    OBVIOUS
  <2> DEFINE g == [k \in 0..(n + 1) |-> IF k <= n THEN f[k] ELSE AppliedTo(f[n], operations[n + 1])]
  <2>2. ASSUME NEW k \in 0..(n + 1)
        PROVE  g[k] = IF k = 0 THEN Start0 ELSE AppliedTo(g[k - 1], operations[k])
    <3>1. CASE k = 0
      BY <2>1, <3>1, <1>2
    <3>2. CASE k \in 1..n
      <4>1. g[k] = f[k] /\ g[k - 1] = f[k - 1]
        BY <3>2
      <4>2. f[k] = AppliedTo(f[k - 1], operations[k])
        BY <2>1, <3>2
      <4>3. QED
        BY <4>1, <4>2, <3>2
    <3>3. CASE k = n + 1
      <4>1. g[k] = AppliedTo(f[n], operations[n + 1]) /\ g[k - 1] = f[n]
        BY <3>3
      <4>2. QED
        BY <4>1, <3>3
    <3>4. QED
      BY <3>1, <3>2, <3>3
  <2>3. Is(g, n + 1)
    BY <2>2
  <2>4. \E h : Is(h, n + 1)
    <3> HIDE DEF Is, g
    <3>1. QED
      BY <2>3
  <2>5. QED
    BY <2>4, <1>2
<1>3. S = 0..L
  <2>1. S \in SUBSET (0..L)
    OBVIOUS
  <2> HIDE DEF S
  <2>2. QED
    BY <1>1, <1>2, <2>1, UpTo
<1>4. \E f : Is(f, L)
  BY <1>3
<1>5. Is(Replay(db, operations), L)
  BY <1>4 DEF Replay, Start0
<1> DEFINE t == Replay(db, operations)
<1> HIDE DEF t
<1>6. Is(t, L)
  BY <1>5 DEF t
<1>7. \A k \in 0..L : t[k] = IF k = 0 THEN Start0 ELSE AppliedTo(t[k - 1], operations[k])
  BY <1>6
<1>8. t[0] = Start0 /\ \A n \in 1..L : t[n] = AppliedTo(t[n - 1], operations[n])
  BY <1>7
<1>9. QED
  BY <1>8 DEF Start0, t

\* seq lists the elements of S, each once and in the order R.
Lists(seq, S, R) ==
  /\ Len(seq) = Cardinality(S) /\ Len(seq) \in Nat /\ DOMAIN seq = 1..Len(seq)
  /\ \A n \in 1..Len(seq) : seq[n] \in S
  /\ \A m \in S : \E n \in 1..Len(seq) : seq[n] = m
  /\ \A n, k \in 1..Len(seq) : n < k => <<seq[n], seq[k]>> \in R

\* A function on 1..N is a sequence of length N.
LEMMA LengthOfFunction ==
  ASSUME NEW N \in Nat, NEW S, NEW f \in [1..N -> S]
  PROVE  f \in Seq(S) /\ Len(f) = N
<1>1. f \in Seq(S)
  BY SeqDef
<1>2. Len(f) \in Nat /\ DOMAIN f = 1..Len(f)
  BY <1>1, LenProperties
<1>3. DOMAIN f = 1..N
  OBVIOUS
<1> DEFINE L == Len(f)
<1> HIDE DEF L
<1>4. L \in Nat /\ 1..L = 1..N
  BY <1>2, <1>3 DEF L
<1>5. L = N
  BY <1>4
<1>6. QED
  BY <1>1, <1>5 DEF L

\* The place of each member by those before it.
Counted(S, R) == [m \in S |-> 1 + Cardinality({k \in S : <<k, m>> \in R})]

\* A place counts what comes before; so places rise with the order.
LEMMA PlacesRise ==
  ASSUME NEW S, IsFiniteSet(S), NEW R,
         \A a, b, c \in S : <<a, b>> \in R /\ <<b, c>> \in R => <<a, c>> \in R,
         \A a \in S : <<a, a>> \notin R,
         \A a, b \in S : a = b \/ <<a, b>> \in R \/ <<b, a>> \in R,
         NEW place, place = Counted(S, R)
  PROVE  /\ place \in [S -> 1..Cardinality(S)]
         /\ \A a, b \in S : <<a, b>> \in R => place[a] < place[b]
<1> DEFINE N == Cardinality(S)
           under(m) == {k \in S : <<k, m>> \in R}
<1>1. N \in Nat /\ IsFiniteSet(1..N) /\ Cardinality(1..N) = N
  BY FS_CardinalityType, FS_Interval
<1>2. ASSUME NEW m \in S
      PROVE  IsFiniteSet(under(m)) /\ Cardinality(under(m)) \in 0..(N - 1) /\ place[m] \in 1..N
  <2>1. under(m) \subseteq S \ {m}
    OBVIOUS
  <2>2. IsFiniteSet(S \ {m}) /\ Cardinality(S \ {m}) = N - 1 /\ N - 1 \in Nat
    <3>1. IsFiniteSet(S \ {m}) /\ Cardinality(S \ {m}) = N - 1
      BY FS_RemoveElement
    <3>2. N - 1 \in Nat
      BY <3>1, FS_CardinalityType
    <3>3. QED
      BY <3>1, <3>2
  <2>3. IsFiniteSet(under(m)) /\ Cardinality(under(m)) <= N - 1 /\ Cardinality(under(m)) \in Nat
    <3> HIDE DEF under
    <3>1. QED
      BY <2>1, <2>2, FS_Subset, FS_CardinalityType
  <2>4. place[m] = 1 + Cardinality(under(m))
    BY DEF Counted
  <2>5. QED
    BY <2>2, <2>3, <2>4, <1>1
<1>3. ASSUME NEW a \in S, NEW b \in S, <<a, b>> \in R
      PROVE  place[a] < place[b]
  <2>1. under(a) \subseteq under(b) /\ a \in under(b) /\ a \notin under(a)
    BY <1>3
  <2>2. Cardinality(under(a)) <= Cardinality(under(b)) /\ Cardinality(under(a)) # Cardinality(under(b))
    <3>1. IsFiniteSet(under(b))
      BY <1>2
    <3> HIDE DEF under
    <3>2. QED
      BY <2>1, <3>1, FS_Subset
  <2>3. place[a] = 1 + Cardinality(under(a)) /\ place[b] = 1 + Cardinality(under(b))
    BY DEF Counted
  <2>4. Cardinality(under(a)) \in 0..(N - 1) /\ Cardinality(under(b)) \in 0..(N - 1)
    BY <1>2
  <2> HIDE DEF under
  <2>5. QED
    BY <1>1, <2>2, <2>3, <2>4
<1>4. place \in [S -> 1..N]
  BY <1>2 DEF Counted
<1>5. QED
  BY <1>3, <1>4

\* What is put at its place is listed, each once and in the order.
LEMMA RankedOrder ==
  ASSUME NEW S, IsFiniteSet(S), NEW R,
         \A a, b \in S : a = b \/ <<a, b>> \in R \/ <<b, a>> \in R,
         NEW place \in [S -> 1..Cardinality(S)],
         \A a, b \in S : <<a, b>> \in R => place[a] < place[b],
         NEW seq, seq = [n \in 1..Cardinality(S) |-> CHOOSE m \in S : place[m] = n]
  PROVE  Lists(seq, S, R)
<1> DEFINE N == Cardinality(S)
<1>1. N \in Nat /\ IsFiniteSet(1..N) /\ Cardinality(1..N) = N
  BY FS_CardinalityType, FS_Interval
<1> HIDE DEF N
<1>2. \A m \in S : place[m] \in 1..N
  BY DEF N
<1>3. \A a, b \in S : <<a, b>> \in R => place[a] < place[b]
  OBVIOUS
<1>4. place \in Injection(S, 1..N)
  <2>1. place \in [S -> 1..N]
    BY DEF N
  <2>2. ASSUME NEW a \in S, NEW b \in S, place[a] = place[b] PROVE a = b
    <3>1. place[a] \in 1..N /\ place[b] \in 1..N
      BY <1>2
    <3>2. ~(<<a, b>> \in R) /\ ~(<<b, a>> \in R)
      BY <1>1, <1>3, <2>2, <3>1
    <3>3. QED
      BY <3>2
  <2>3. QED
    BY <2>1, <2>2, Fun_IsInj
<1>5. place \in Surjection(S, 1..N)
  BY <1>1, <1>4, FS_Injection DEF N
<1>6. \A n \in 1..N : \E m \in S : place[m] = n
  BY <1>5 DEF Surjection
<1>7. \A n \in 1..N : seq[n] \in S /\ place[seq[n]] = n
  BY <1>6 DEF N
<1>8. \A m \in S : seq[place[m]] = m
  <2>1. TAKE m \in S
  <2>2. place[m] \in 1..N
    BY <1>2
  <2>3. place[seq[place[m]]] = place[m] /\ seq[place[m]] \in S
    BY <1>7, <2>2
  <2>4. QED
    BY <2>3, <1>4, Fun_InjectionProperties
<1>9. seq \in Seq(S) /\ Len(seq) = N
  <2>1. seq \in [1..N -> S]
    BY <1>7 DEF N
  <2>2. QED
    BY <2>1, <1>1, LengthOfFunction
<1>10. ASSUME NEW n \in 1..N, NEW k \in 1..N, n < k
       PROVE  <<seq[n], seq[k]>> \in R
  <2>1. seq[n] \in S /\ seq[k] \in S /\ place[seq[n]] = n /\ place[seq[k]] = k
    BY <1>7
  <2>2. seq[n] # seq[k] /\ ~(<<seq[k], seq[n]>> \in R)
    <3>1. <<seq[k], seq[n]>> \in R => k < n
      BY <1>3, <2>1
    <3>2. QED
      BY <1>1, <1>10, <2>1, <3>1
  <2>3. QED
    BY <2>1, <2>2
<1>11. DOMAIN seq = 1..N
  BY DEF N
<1>12. \A m \in S : \E n \in 1..N : seq[n] = m
  BY <1>2, <1>8
<1>13. QED
  BY <1>1, <1>7, <1>9, <1>10, <1>11, <1>12 DEF Lists, N

-----------------------------------------------------------------------------
(***************************************************************************)
(* Identities of rows, and the order of the mutations and operations that  *)
(* name them.                                                              *)
(***************************************************************************)
OneKey == {"source_snapshots", "materials", "editorial_queue", "issues", "issue_analysis",
           "llm_attempts", "gazettes", "content_releases"}
TwoKeys == {"issue_materials", "gazette_assets"}

\* The identity of a row: a table and as many numbers as its key has columns.
IdFits(id) ==
  \/ \E t \in OneKey : \E a \in Nat : id = <<t, <<a>>>>
  \/ \E t \in TwoKeys : \E a, b \in Nat : id = <<t, <<a, b>>>>
  \/ \E a, b, c \in Nat : id = <<"material_rubrics", <<a, b, c>>>>

\* The tables in the order of a delta.
LEMMA Positions ==
  /\ DOMAIN Position = OneKey \cup TwoKeys \cup {"material_rubrics"}
  /\ Position["source_snapshots"] = 1 /\ Position["materials"] = 2
  /\ Position["editorial_queue"] = 3 /\ Position["issues"] = 4
  /\ Position["issue_materials"] = 5 /\ Position["issue_analysis"] = 6
  /\ Position["llm_attempts"] = 7 /\ Position["material_rubrics"] = 8
  /\ Position["gazettes"] = 9 /\ Position["gazette_assets"] = 10
  /\ Position["content_releases"] = 11
<1>1. DOMAIN UpsertOrder = 1..11 /\ Len(UpsertOrder) = 11
  BY DEF UpsertOrder
<1>2. ToSet(UpsertOrder) = OneKey \cup TwoKeys \cup {"material_rubrics"}
  BY <1>1 DEF ToSet, UpsertOrder, OneKey, TwoKeys
<1>3. DOMAIN Position = ToSet(UpsertOrder)
  BY DEF Position
<1>4. \A n \in 1..11 : Position[UpsertOrder[n]] = n
  <2>1. TAKE n \in 1..11
  <2>2. \A k \in 1..11 : UpsertOrder[k] = UpsertOrder[n] => k = n
    BY DEF UpsertOrder
  <2>3. UpsertOrder[n] \in ToSet(UpsertOrder)
    BY <1>1 DEF ToSet
  <2> DEFINE t == UpsertOrder[n]
  <2> HIDE DEF t
  <2>4. (CHOOSE k \in DOMAIN UpsertOrder : UpsertOrder[k] = t) = n
    BY <1>1, <2>2 DEF t
  <2>5. t \in ToSet(UpsertOrder)
    BY <2>3 DEF t
  <2>6. QED
    BY <2>4, <2>5 DEF Position, t
<1>5. /\ UpsertOrder[1] = "source_snapshots" /\ UpsertOrder[2] = "materials"
      /\ UpsertOrder[3] = "editorial_queue" /\ UpsertOrder[4] = "issues"
      /\ UpsertOrder[5] = "issue_materials" /\ UpsertOrder[6] = "issue_analysis"
      /\ UpsertOrder[7] = "llm_attempts" /\ UpsertOrder[8] = "material_rubrics"
      /\ UpsertOrder[9] = "gazettes" /\ UpsertOrder[10] = "gazette_assets"
      /\ UpsertOrder[11] = "content_releases"
  BY DEF UpsertOrder
<1>6. QED
  BY <1>2, <1>3, <1>4, <1>5

\* The parts of a row's identity.
LEMMA PartsOfId ==
  ASSUME NEW id, IdFits(id)
  PROVE  /\ id[1] \in OneKey => id[2] = <<id[2][1]>> /\ id[2][1] \in Nat
         /\ id[1] \in TwoKeys => id[2] = <<id[2][1], id[2][2]>> /\ id[2][1] \in Nat /\ id[2][2] \in Nat
         /\ id[1] = "material_rubrics" =>
              /\ id[2] = <<id[2][1], id[2][2], id[2][3]>>
              /\ id[2][1] \in Nat /\ id[2][2] \in Nat /\ id[2][3] \in Nat
         /\ id[1] \in OneKey \cup TwoKeys \cup {"material_rubrics"}
         /\ id = <<id[1], id[2]>>
<1>1. CASE \E t \in OneKey : \E a \in Nat : id = <<t, <<a>>>>
  BY <1>1 DEF OneKey, TwoKeys
<1>2. CASE \E t \in TwoKeys : \E a, b \in Nat : id = <<t, <<a, b>>>>
  BY <1>2 DEF OneKey, TwoKeys
<1>3. CASE \E a, b, c \in Nat : id = <<"material_rubrics", <<a, b, c>>>>
  BY <1>3 DEF OneKey, TwoKeys
<1>4. QED
  BY <1>1, <1>2, <1>3 DEF IdFits

\* Keys of one table are ordered column by column.
LEMMA KeysOfOne ==
  ASSUME NEW a \in Nat, NEW b \in Nat
  PROVE  KeyBefore(<<a>>, <<b>>) <=> a < b
<1>1. DOMAIN <<a>> = {1} /\ <<a>>[1] = a /\ <<b>>[1] = b
  OBVIOUS
<1>2. 1..(1 - 1) = {}
  OBVIOUS
<1>3. KeyBefore(<<a>>, <<b>>) <=> \E n \in {1} : <<a>>[n] < <<b>>[n] /\ \A j \in 1..(n - 1) : <<a>>[j] = <<b>>[j]
  BY <1>1 DEF KeyBefore
<1>4. QED
  BY <1>1, <1>2, <1>3

\* Keys of two parts, compared.
LEMMA KeysOfTwo ==
  ASSUME NEW a1 \in Nat, NEW a2 \in Nat, NEW b1 \in Nat, NEW b2 \in Nat
  PROVE  KeyBefore(<<a1, a2>>, <<b1, b2>>) <=> a1 < b1 \/ (a1 = b1 /\ a2 < b2)
<1>1. DOMAIN <<a1, a2>> = {1, 2}
  OBVIOUS
<1>2. 1..(1 - 1) = {} /\ 1..(2 - 1) = {1}
  OBVIOUS
<1>3. QED
  BY <1>1, <1>2 DEF KeyBefore

\* Keys of three parts, compared.
LEMMA KeysOfThree ==
  ASSUME NEW a1 \in Nat, NEW a2 \in Nat, NEW a3 \in Nat,
         NEW b1 \in Nat, NEW b2 \in Nat, NEW b3 \in Nat
  PROVE  KeyBefore(<<a1, a2, a3>>, <<b1, b2, b3>>)
           <=> \/ a1 < b1
               \/ a1 = b1 /\ a2 < b2
               \/ a1 = b1 /\ a2 = b2 /\ a3 < b3
<1>1. DOMAIN <<a1, a2, a3>> = {1, 2, 3}
  OBVIOUS
<1>2. 1..(1 - 1) = {} /\ 1..(2 - 1) = {1} /\ 1..(3 - 1) = {1, 2}
  OBVIOUS
<1>3. QED
  BY <1>1, <1>2 DEF KeyBefore

\* The rows of a table are strictly and totally ordered by their keys.
LEMMA KeyOrder ==
  ASSUME NEW x, NEW y, NEW z, IdFits(x), IdFits(y), IdFits(z), x[1] = y[1], y[1] = z[1]
  PROVE  /\ ~KeyBefore(x[2], x[2])
         /\ KeyBefore(x[2], y[2]) /\ KeyBefore(y[2], z[2]) => KeyBefore(x[2], z[2])
         /\ x = y \/ KeyBefore(x[2], y[2]) \/ KeyBefore(y[2], x[2])
<1>1. CASE x[1] \in OneKey
  <2>1. PICK a \in Nat, b \in Nat, c \in Nat : x[2] = <<a>> /\ y[2] = <<b>> /\ z[2] = <<c>>
    BY <1>1, PartsOfId
  <2>2. x = <<x[1], <<a>>>> /\ y = <<x[1], <<b>>>>
    BY <2>1, PartsOfId
  <2>3. ~KeyBefore(<<a>>, <<a>>)
    BY KeysOfOne
  <2>4. KeyBefore(<<a>>, <<b>>) /\ KeyBefore(<<b>>, <<c>>) => KeyBefore(<<a>>, <<c>>)
    BY KeysOfOne
  <2>5. a = b \/ KeyBefore(<<a>>, <<b>>) \/ KeyBefore(<<b>>, <<a>>)
    BY KeysOfOne
  <2>6. QED
    BY <2>1, <2>2, <2>3, <2>4, <2>5
<1>2. CASE x[1] \in TwoKeys
  <2>1. PICK a1 \in Nat, a2 \in Nat, b1 \in Nat, b2 \in Nat, c1 \in Nat, c2 \in Nat :
          x[2] = <<a1, a2>> /\ y[2] = <<b1, b2>> /\ z[2] = <<c1, c2>>
    BY <1>2, PartsOfId
  <2>2. x = <<x[1], <<a1, a2>>>> /\ y = <<x[1], <<b1, b2>>>>
    BY <2>1, PartsOfId
  <2>3. ~KeyBefore(<<a1, a2>>, <<a1, a2>>)
    BY KeysOfTwo
  <2>4. KeyBefore(<<a1, a2>>, <<b1, b2>>) /\ KeyBefore(<<b1, b2>>, <<c1, c2>>)
          => KeyBefore(<<a1, a2>>, <<c1, c2>>)
    BY KeysOfTwo
  <2>5. \/ a1 = b1 /\ a2 = b2
        \/ KeyBefore(<<a1, a2>>, <<b1, b2>>)
        \/ KeyBefore(<<b1, b2>>, <<a1, a2>>)
    BY KeysOfTwo
  <2>6. QED
    BY <2>1, <2>2, <2>3, <2>4, <2>5
<1>3. CASE x[1] = "material_rubrics"
  <2>1. PICK a1 \in Nat, a2 \in Nat, a3 \in Nat, b1 \in Nat, b2 \in Nat, b3 \in Nat,
             c1 \in Nat, c2 \in Nat, c3 \in Nat :
          x[2] = <<a1, a2, a3>> /\ y[2] = <<b1, b2, b3>> /\ z[2] = <<c1, c2, c3>>
    BY <1>3, PartsOfId
  <2>2. x = <<x[1], <<a1, a2, a3>>>> /\ y = <<x[1], <<b1, b2, b3>>>>
    BY <2>1, PartsOfId
  <2>3. ~KeyBefore(<<a1, a2, a3>>, <<a1, a2, a3>>)
    BY KeysOfThree
  <2>4. KeyBefore(<<a1, a2, a3>>, <<b1, b2, b3>>) /\ KeyBefore(<<b1, b2, b3>>, <<c1, c2, c3>>)
          => KeyBefore(<<a1, a2, a3>>, <<c1, c2, c3>>)
    BY KeysOfThree
  <2>5. \/ a1 = b1 /\ a2 = b2 /\ a3 = b3
        \/ KeyBefore(<<a1, a2, a3>>, <<b1, b2, b3>>)
        \/ KeyBefore(<<b1, b2, b3>>, <<a1, a2, a3>>)
    BY KeysOfThree
  <2>6. QED
    BY <2>1, <2>2, <2>3, <2>4, <2>5
<1>4. QED
  BY <1>1, <1>2, <1>3, PartsOfId

\* One mutation for each row, of rows that there can be.
OnePerRow(M) ==
  /\ IsFiniteSet(M)
  /\ \A m \in M : IdFits(m.id)
  /\ \A m, n \in M : m.id = n.id => m = n

\* Before another by rank, then by table, then by key.
RankedBefore(M, rank) ==
  {p \in M \X M :
     \/ rank[p[1]] < rank[p[2]]
     \/ rank[p[1]] = rank[p[2]] /\ Position[p[1].id[1]] < Position[p[2].id[1]]
     \/ rank[p[1]] = rank[p[2]] /\ p[1].id[1] = p[2].id[1] /\ KeyBefore(p[1].id[2], p[2].id[2])}

\* Every table has a position of its own in a delta.
LEMMA PositionOfId ==
  /\ \A id : IdFits(id) => Position[id[1]] \in 1..11
  /\ \A i, j : IdFits(i) /\ IdFits(j) /\ Position[i[1]] = Position[j[1]] => i[1] = j[1]
<1>1. ASSUME NEW t \in OneKey \cup TwoKeys \cup {"material_rubrics"} PROVE Position[t] \in 1..11
  BY Positions DEF OneKey, TwoKeys
<1>2. ASSUME NEW t \in OneKey \cup TwoKeys \cup {"material_rubrics"},
             NEW u \in OneKey \cup TwoKeys \cup {"material_rubrics"}, Position[t] = Position[u]
      PROVE  t = u
  <2>1. UpsertOrder[Position[t]] = t
    BY Positions DEF OneKey, TwoKeys, UpsertOrder
  <2>2. UpsertOrder[Position[u]] = u
    BY Positions DEF OneKey, TwoKeys, UpsertOrder
  <2>3. QED
    BY <1>2, <2>1, <2>2
<1>3. QED
  BY <1>1, <1>2, PartsOfId

\* The order of mutations is strict and total.
LEMMA RankedIsOrder ==
  ASSUME NEW M, OnePerRow(M), NEW rank \in [M -> Int]
  PROVE  LET R == RankedBefore(M, rank)
         IN  /\ \A a, b, c \in M : <<a, b>> \in R /\ <<b, c>> \in R => <<a, c>> \in R
             /\ \A a \in M : <<a, a>> \notin R
             /\ \A a, b \in M : a = b \/ <<a, b>> \in R \/ <<b, a>> \in R
<1> DEFINE R == RankedBefore(M, rank)
           L(a, b) == KeyBefore(a.id[2], b.id[2])
           P(a) == Position[a.id[1]]
           T(a) == a.id[1]
<1>1. \A a, b \in M : <<a, b>> \in R <=>
        \/ rank[a] < rank[b]
        \/ rank[a] = rank[b] /\ P(a) < P(b)
        \/ rank[a] = rank[b] /\ T(a) = T(b) /\ L(a, b)
  BY DEF RankedBefore
<1>2. \A a \in M : P(a) \in Int /\ rank[a] \in Int
  BY PositionOfId DEF OnePerRow
<1>3. \A a, b \in M : P(a) = P(b) => T(a) = T(b)
  BY PositionOfId DEF OnePerRow
<1>4. \A a, b, c \in M : T(a) = T(b) /\ T(b) = T(c) /\ L(a, b) /\ L(b, c) => L(a, c)
  BY KeyOrder DEF OnePerRow
<1>5. \A a \in M : ~L(a, a)
  BY KeyOrder DEF OnePerRow
<1>6. \A a, b \in M : T(a) = T(b) => a = b \/ L(a, b) \/ L(b, a)
  <2>1. TAKE a, b \in M
  <2>2. HAVE T(a) = T(b)
  <2>3. a.id = b.id \/ L(a, b) \/ L(b, a)
    BY <2>2, KeyOrder DEF OnePerRow
  <2>4. QED
    BY <2>3 DEF OnePerRow
<1>7. \A a, b \in M : T(a) = T(b) => P(a) = P(b)
  OBVIOUS
<1> HIDE DEF R, L, P, T
<1>8. \A a, b, c \in M : <<a, b>> \in R /\ <<b, c>> \in R => <<a, c>> \in R
  <2>1. TAKE a, b, c \in M
  <2>2. HAVE <<a, b>> \in R /\ <<b, c>> \in R
  <2>3. rank[a] \in Int /\ rank[b] \in Int /\ rank[c] \in Int /\ P(a) \in Int /\ P(b) \in Int /\ P(c) \in Int
    BY <1>2
  <2>4. rank[a] < rank[b] \/ (rank[a] = rank[b] /\ P(a) < P(b))
          \/ (rank[a] = rank[b] /\ T(a) = T(b) /\ L(a, b))
    BY <1>1, <2>2
  <2>5. rank[b] < rank[c] \/ (rank[b] = rank[c] /\ P(b) < P(c))
          \/ (rank[b] = rank[c] /\ T(b) = T(c) /\ L(b, c))
    BY <1>1, <2>2
  <2>6. T(a) = T(b) => P(a) = P(b)
    BY <1>7
  <2>7. T(b) = T(c) => P(b) = P(c)
    BY <1>7
  <2>8. T(a) = T(b) /\ T(b) = T(c) /\ L(a, b) /\ L(b, c) => L(a, c)
    BY <1>4
  <2>9. rank[a] < rank[c] \/ (rank[a] = rank[c] /\ P(a) < P(c))
          \/ (rank[a] = rank[c] /\ T(a) = T(c) /\ L(a, c))
    BY <2>3, <2>4, <2>5, <2>6, <2>7, <2>8
  <2>10. QED
    BY <1>1, <2>9
<1>9. \A a \in M : <<a, a>> \notin R
  BY <1>1, <1>2, <1>5
<1>10. \A a, b \in M : a = b \/ <<a, b>> \in R \/ <<b, a>> \in R
  <2>1. TAKE a, b \in M
  <2>2. rank[a] \in Int /\ rank[b] \in Int /\ P(a) \in Int /\ P(b) \in Int
    BY <1>2
  <2>3. P(a) = P(b) => a = b \/ L(a, b) \/ L(b, a)
    BY <1>3, <1>6
  <2>4. P(a) = P(b) => T(a) = T(b)
    BY <1>3
  <2>5. QED
    BY <1>1, <2>2, <2>3, <2>4
<1>11. QED
  BY <1>8, <1>9, <1>10 DEF R

\* The operations of a delta, ordered, are a list of them all.
LEMMA DeltaIsListed ==
  ASSUME NEW M, OnePerRow(M)
  PROVE  /\ [m \in M |-> DeltaRank(m)] \in [M -> Int]
         /\ Lists(Ordered(M, DeltaRank), M, RankedBefore(M, [m \in M |-> DeltaRank(m)]))
<1> DEFINE rank == [m \in M |-> DeltaRank(m)]
           R == RankedBefore(M, rank)
           place == Places(M, DeltaRank)
<1>1. rank \in [M -> Int]
  <2>1. Len(UpsertOrder) = 11
    BY DEF UpsertOrder
  <2>2. ASSUME NEW m \in M PROVE DeltaRank(m) \in Int
    <3>1. Position[m.id[1]] \in 1..11
      BY PositionOfId DEF OnePerRow
    <3>2. QED
      BY <2>1, <3>1 DEF DeltaRank
  <2>3. QED
    BY <2>2
<1>2. \A a, b \in M : <<a, b>> \in R <=> Before(DeltaRank, a, b)
  BY DEF RankedBefore, Before
<1>3. place = Counted(M, R)
  <2>1. \A m \in M : {k \in M : <<k, m>> \in R} = {k \in M : Before(DeltaRank, k, m)}
    BY <1>2
  <2>2. QED
    BY <2>1 DEF Places, Counted
<1>4. Ordered(M, DeltaRank) = [n \in 1..Cardinality(M) |-> CHOOSE m \in M : place[m] = n]
  BY DEF Ordered
<1> HIDE DEF R, place, rank
<1>5. /\ \A a, b, c \in M : <<a, b>> \in R /\ <<b, c>> \in R => <<a, c>> \in R
      /\ \A a \in M : <<a, a>> \notin R
      /\ \A a, b \in M : a = b \/ <<a, b>> \in R \/ <<b, a>> \in R
  BY <1>1, RankedIsOrder DEF R
<1>6. IsFiniteSet(M)
  BY DEF OnePerRow
<1>7. /\ place \in [M -> 1..Cardinality(M)]
      /\ \A a, b \in M : <<a, b>> \in R => place[a] < place[b]
  BY <1>3, <1>5, <1>6, PlacesRise
<1>8. Lists(Ordered(M, DeltaRank), M, R)
  BY <1>4, <1>5, <1>6, <1>7, RankedOrder
<1>9. QED
  BY <1>1, <1>8 DEF R, rank

\* The tables a candidate's mutations are about.
PlanFits(M) ==
  /\ OnePerRow(M)
  /\ \A m \in M : m.id[1] \in IF m.action = "delete"
                              THEN {"material_rubrics", "issue_materials", "gazette_assets",
                                    "editorial_queue", "issue_analysis"}
                              ELSE {"source_snapshots", "materials", "issues", "issue_materials",
                                    "issue_analysis", "llm_attempts", "material_rubrics",
                                    "editorial_queue", "gazettes", "gazette_assets"}

\* The mutations of a candidate, ordered, are a list of them all.
LEMMA PlanIsListed ==
  ASSUME NEW M, PlanFits(M)
  PROVE  /\ [m \in M |-> Priority(m)] \in [M -> Int]
         /\ Lists(Ordered(M, Priority), M, RankedBefore(M, [m \in M |-> Priority(m)]))
<1> DEFINE rank == [m \in M |-> Priority(m)]
           R == RankedBefore(M, rank)
           place == Places(M, Priority)
<1>1. rank \in [M -> Int]
  <2>1. ASSUME NEW m \in M PROVE Priority(m) \in Int
    BY DEF PlanFits, Priority, DeletePriority, UpsertPriority
  <2>2. QED
    BY <2>1
<1>2. \A a, b \in M : <<a, b>> \in R <=> Before(Priority, a, b)
  BY DEF RankedBefore, Before
<1>3. place = Counted(M, R)
  <2>1. \A m \in M : {k \in M : <<k, m>> \in R} = {k \in M : Before(Priority, k, m)}
    BY <1>2
  <2>2. QED
    BY <2>1 DEF Places, Counted
<1>4. Ordered(M, Priority) = [n \in 1..Cardinality(M) |-> CHOOSE m \in M : place[m] = n]
  BY DEF Ordered
<1> HIDE DEF R, place, rank
<1>5. /\ \A a, b, c \in M : <<a, b>> \in R /\ <<b, c>> \in R => <<a, c>> \in R
      /\ \A a \in M : <<a, a>> \notin R
      /\ \A a, b \in M : a = b \/ <<a, b>> \in R \/ <<b, a>> \in R
  BY <1>1, RankedIsOrder DEF R, PlanFits
<1>6. IsFiniteSet(M)
  BY DEF OnePerRow, PlanFits
<1>7. /\ place \in [M -> 1..Cardinality(M)]
      /\ \A a, b \in M : <<a, b>> \in R => place[a] < place[b]
  BY <1>3, <1>5, <1>6, PlacesRise
<1>8. Lists(Ordered(M, Priority), M, R)
  BY <1>4, <1>5, <1>6, <1>7, RankedOrder
<1>9. QED
  BY <1>1, <1>8 DEF R, rank

-----------------------------------------------------------------------------
(***************************************************************************)
(* Replay: what a document of mutations does to a database, one after the  *)
(* other.                                                                  *)
(***************************************************************************)
IsDb(d) == d = [x \in DOMAIN d |-> d[x]] /\ \A x \in DOMAIN d : d[x] # Absent

\* A document says of each of its rows what it is and what it becomes.
Document(db, ops) ==
  /\ IsDb(db) /\ Len(ops) \in Nat
  /\ \A n \in 1..Len(ops) :
       /\ ops[n].before = Row(db, ops[n].id)
       /\ IF ops[n].action = "delete" THEN ops[n].after = Absent /\ ops[n].before # Absent
                                      ELSE ops[n].after # Absent
  /\ \A n, k \in 1..Len(ops) : ops[n].id = ops[k].id => n = k

\* Whatever hangs on a deleted row was deleted before it.
ChildrenFirst(db, ops) ==
  \A n \in 1..Len(ops) : ops[n].action = "delete" =>
    /\ \A k \in 1..(n - 1) : ops[k].after = Absent \/ ops[n].id \notin Parents(ops[k].id, ops[k].after)
    /\ \A x \in DOMAIN db : (\A k \in 1..(n - 1) : ops[k].id # x) => ops[n].id \notin Parents(x, db[x])

\* d is db after the first n mutations.
After(d, db, ops, n) ==
  /\ IsDb(d)
  /\ \A k \in 1..n : Row(d, ops[k].id) = ops[k].after
  /\ \A x : (\A k \in 1..n : ops[k].id # x) => Row(d, x) = Row(db, x)

\* The schema takes the mutation.
Accepts(d, m) ==
  m.action = "delete" \/ Row(d, m.id) = m.after
    \/ /\ UniqueHolds(WithRow(d, m.id, m.after), m.id)
       /\ Parents(m.id, m.after) \subseteq DOMAIN WithRow(d, m.id, m.after)

\* A row is there unless it is absent.
LEMMA RowIsThere ==
  ASSUME NEW d, IsDb(d), NEW x
  PROVE  x \in DOMAIN d <=> Row(d, x) # Absent
BY DEF IsDb, Row

\* Two databases with the same rows are the same.
LEMMA SameRowsSameDb ==
  ASSUME NEW d, NEW e, IsDb(d), IsDb(e), \A x : Row(d, x) = Row(e, x)
  PROVE  d = e
<1>1. \A x : x \in DOMAIN d <=> x \in DOMAIN e
  BY RowIsThere
<1>2. DOMAIN d = DOMAIN e
  BY <1>1
<1>3. \A x \in DOMAIN d : d[x] = e[x]
  BY <1>2 DEF Row
<1>4. QED
  BY <1>2, <1>3 DEF IsDb

\* A row that is written is there.
LEMMA WrittenRow ==
  ASSUME NEW d, IsDb(d), NEW id, NEW row, row # Absent
  PROVE  IsDb(WithRow(d, id, row)) /\ Row(WithRow(d, id, row), id) = row
<1> DEFINE e == WithRow(d, id, row)
<1>1. DOMAIN e = DOMAIN d \cup {id} /\ e = [y \in DOMAIN e |-> e[y]]
  BY DEF WithRow
<1>2. \A y \in DOMAIN e : e[y] = IF y = id THEN row ELSE d[y]
  BY DEF WithRow
<1> HIDE DEF e
<1>3. IsDb(e)
  BY <1>1, <1>2 DEF IsDb
<1>4. Row(e, id) = row /\ e[id] = row
  BY <1>1, <1>2 DEF Row
<1>5. QED
  BY <1>1, <1>3, <1>4 DEF e

\* A write changes no other row.
LEMMA OtherRows ==
  ASSUME NEW d, NEW id, NEW row, NEW x
  PROVE  x # id => Row(WithRow(d, id, row), x) = Row(d, x)
BY DEF WithRow, Row

\* A database with rows removed is one.
LEMMA RemovedRows ==
  ASSUME NEW d, IsDb(d), NEW ids
  PROVE  IsDb(Without(d, ids)) /\ DOMAIN Without(d, ids) = DOMAIN d \ ids
<1> DEFINE e == Without(d, ids)
<1>1. DOMAIN e = DOMAIN d \ ids /\ e = [y \in DOMAIN e |-> e[y]]
  BY DEF Without
<1>2. \A y \in DOMAIN e : e[y] = d[y]
  BY DEF Without
<1> HIDE DEF e
<1>3. IsDb(e)
  BY <1>1, <1>2 DEF IsDb
<1>4. QED
  BY <1>1, <1>3 DEF e

\* A removal changes no other row.
LEMMA RemainingRows ==
  ASSUME NEW d, NEW ids, NEW x
  PROVE  Row(Without(d, ids), x) = IF x \in ids THEN Absent ELSE Row(d, x)
BY DEF Without, Row

\* What is db after n mutations, when the n-th has been written and nothing else changed.
LEMMA AfterOneMore ==
  ASSUME NEW db, NEW ops, Document(db, ops), NEW n \in 1..Len(ops),
         NEW d, After(d, db, ops, n - 1), NEW e, IsDb(e), Row(e, ops[n].id) = ops[n].after,
         \A x : x # ops[n].id => Row(e, x) = Row(d, x)
  PROVE  After(e, db, ops, n)
<1>1. Len(ops) \in Nat /\ n - 1 \in Nat /\ \A k \in 1..(n - 1) : k \in 1..Len(ops) /\ k # n
  BY DEF Document
<1>2. \A k \in 1..(n - 1) : ops[k].id # ops[n].id
  BY <1>1 DEF Document
<1>3. \A k \in 1..n : k = n \/ k \in 1..(n - 1)
  BY <1>1
<1>4. \A k \in 1..n : Row(e, ops[k].id) = ops[k].after
  BY <1>2, <1>3 DEF After
<1>5. \A x : (\A k \in 1..n : ops[k].id # x) => Row(e, x) = Row(db, x)
  <2>1. TAKE x
  <2>2. HAVE \A k \in 1..n : ops[k].id # x
  <2>3. x # ops[n].id /\ \A k \in 1..(n - 1) : ops[k].id # x
    BY <1>1, <2>2
  <2>4. QED
    BY <2>3 DEF After
<1>6. QED
  BY <1>4, <1>5 DEF After

\* One mutation of a document.
LEMMA OneMutation ==
  ASSUME NEW db, NEW ops, Document(db, ops), ChildrenFirst(db, ops), NEW n \in 1..Len(ops),
         NEW d, After(d, db, ops, n - 1), NEW t, t = [ok |-> TRUE, db |-> d],
         NEW u, u = AppliedTo(t, ops[n])
  PROVE  /\ u = [ok |-> u.ok, db |-> u.db] /\ u.ok \in BOOLEAN
         /\ u.ok <=> Accepts(d, ops[n])
         /\ u.ok => After(u.db, db, ops, n)
<1> DEFINE m == ops[n]
<1>1. Len(ops) \in Nat /\ n - 1 \in Nat /\ \A k \in 1..(n - 1) : k \in 1..Len(ops) /\ k # n
  BY DEF Document
<1>2. \A k \in 1..(n - 1) : ops[k].id # m.id
  BY <1>1 DEF Document
<1>3. Row(d, m.id) = m.before /\ m.before = Row(db, m.id)
  BY <1>2 DEF After, Document
<1>4. IsDb(d)
  BY DEF After
<1>5. IF m.action = "delete" THEN m.after = Absent /\ m.before # Absent ELSE m.after # Absent
  BY DEF Document
<1>6. \A e : IsDb(e) /\ Row(e, m.id) = m.after /\ (\A x : x # m.id => Row(e, x) = Row(d, x))
               => After(e, db, ops, n)
  BY AfterOneMore
<1>7. CASE m.action = "delete"
  <2>1. u = Executed(d, m)
    BY <1>3, <1>5, <1>7 DEF AppliedTo
  <2>2. Dependents(d, m.id) = {}
    <3>1. SUFFICES ASSUME NEW x \in DOMAIN d, m.id \in Parents(x, d[x]) PROVE FALSE
      BY DEF Dependents
    <3>2. Row(d, x) = d[x] /\ d[x] # Absent
      BY <1>4 DEF Row, IsDb
    <3>3. CASE \E k \in 1..(n - 1) : ops[k].id = x
      <4>1. PICK k \in 1..(n - 1) : ops[k].id = x
        BY <3>3
      <4>2. ops[k].after = d[x]
        BY <3>2, <4>1 DEF After
      <4>3. QED
        BY <1>7, <3>1, <3>2, <4>1, <4>2 DEF ChildrenFirst
    <3>4. CASE \A k \in 1..(n - 1) : ops[k].id # x
      <4>1. Row(db, x) = d[x]
        BY <3>2, <3>4 DEF After
      <4>2. x \in DOMAIN db /\ db[x] = d[x]
        BY <3>2, <4>1 DEF Row
      <4>3. QED
        BY <1>7, <3>1, <3>4, <4>2 DEF ChildrenFirst
    <3>5. QED
      BY <3>3, <3>4
  <2> DEFINE e == Without(d, {m.id})
  <2>3. u = [ok |-> TRUE, db |-> e]
    BY <1>7, <2>1, <2>2 DEF Executed
  <2>4. IsDb(e) /\ \A x : Row(e, x) = IF x \in {m.id} THEN Absent ELSE Row(d, x)
    BY <1>4, RemovedRows, RemainingRows
  <2>5. Accepts(d, m)
    BY <1>7 DEF Accepts
  <2>6. Row(e, m.id) = m.after /\ \A x : x # m.id => Row(e, x) = Row(d, x)
    BY <1>5, <1>7, <2>4
  <2> HIDE DEF e
  <2>7. After(e, db, ops, n)
    BY <1>6, <2>4, <2>6
  <2>8. u.ok = TRUE /\ u.db = e
    BY <2>3
  <2>9. QED
    BY <2>3, <2>5, <2>7, <2>8
<1>8. CASE m.action # "delete" /\ Row(d, m.id) = m.after
  <2>1. u = t
    BY <1>8 DEF AppliedTo
  <2>2. Accepts(d, m)
    BY <1>8 DEF Accepts
  <2>3. After(d, db, ops, n)
    BY <1>4, <1>6, <1>8
  <2>4. u.ok = TRUE /\ u.db = d
    BY <2>1
  <2>5. QED
    BY <2>1, <2>2, <2>3, <2>4
<1>9. CASE m.action # "delete" /\ Row(d, m.id) # m.after
  <2> DEFINE e == WithRow(d, m.id, m.after)
             ok == UniqueHolds(e, m.id) /\ Parents(m.id, m.after) \subseteq DOMAIN e
  <2>1. u = Executed(d, m)
    BY <1>3, <1>9 DEF AppliedTo
  <2>2. u = [ok |-> ok, db |-> e]
    BY <1>9, <2>1 DEF Executed
  <2>3. IsDb(e) /\ Row(e, m.id) = m.after /\ \A x : x # m.id => Row(e, x) = Row(d, x)
    <3>1. m.after # Absent
      BY <1>5, <1>9
    <3>2. IsDb(e) /\ Row(e, m.id) = m.after
      <4>1. \A row : row # Absent => IsDb(WithRow(d, m.id, row)) /\ Row(WithRow(d, m.id, row), m.id) = row
        BY <1>4, WrittenRow
      <4>2. QED
        BY <3>1, <4>1
    <3>3. \A x : x # m.id => Row(e, x) = Row(d, x)
      BY OtherRows
    <3>4. QED
      BY <3>2, <3>3
  <2>4. Accepts(d, m) <=> ok
    BY <1>9 DEF Accepts
  <2>5. ok \in BOOLEAN
    OBVIOUS
  <2> HIDE DEF e, ok
  <2>6. After(e, db, ops, n)
    BY <2>3, <1>6
  <2>7. u.ok = ok /\ u.db = e
    BY <2>2
  <2>8. QED
    BY <2>2, <2>4, <2>5, <2>6, <2>7
<1>10. QED
  BY <1>7, <1>8, <1>9

\* A document, mutation by mutation.
LEMMA WholeReplay ==
  ASSUME NEW db, NEW ops, Document(db, ops), ChildrenFirst(db, ops)
  PROVE  LET t == Replay(db, ops)
         IN  \A n \in 0..Len(ops) :
               /\ t[n] = [ok |-> t[n].ok, db |-> t[n].db] /\ t[n].ok \in BOOLEAN
               /\ t[n].ok => After(t[n].db, db, ops, n)
               /\ n > 0 => (t[n].ok <=> t[n - 1].ok /\ Accepts(t[n - 1].db, ops[n]))
<1> DEFINE t == Replay(db, ops)
           L == Len(ops)
           Good(n) == /\ t[n] = [ok |-> t[n].ok, db |-> t[n].db] /\ t[n].ok \in BOOLEAN
                      /\ t[n].ok => After(t[n].db, db, ops, n)
                      /\ n > 0 => (t[n].ok <=> t[n - 1].ok /\ Accepts(t[n - 1].db, ops[n]))
           S == {n \in 0..L : Good(n)}
<1>1. L \in Nat
  BY DEF Document
<1>2. t[0] = [ok |-> TRUE, db |-> db] /\ \A n \in 1..L : t[n] = AppliedTo(t[n - 1], ops[n])
  BY <1>1, ReplayDef
<1> HIDE DEF t
<1>3. 0 \in S
  <2>1. After(db, db, ops, 0)
    BY DEF After, Document
  <2>2. t[0].ok = TRUE /\ t[0].db = db
    BY <1>2
  <2>3. Good(0)
    BY <1>2, <2>1, <2>2
  <2>4. QED
    BY <1>1, <2>3
<1>4. ASSUME NEW n \in S, n < L PROVE n + 1 \in S
  <2>1. n \in 0..L /\ Good(n) /\ n + 1 \in 1..L /\ (n + 1) - 1 = n
    BY <1>1, <1>4
  <2>2. t[n + 1] = AppliedTo(t[n], ops[n + 1])
    BY <1>2, <2>1
  <2>3. CASE t[n].ok
    <3>1. t[n] = [ok |-> TRUE, db |-> t[n].db] /\ After(t[n].db, db, ops, (n + 1) - 1)
      BY <2>1, <2>3
    <3>2. /\ t[n + 1] = [ok |-> t[n + 1].ok, db |-> t[n + 1].db] /\ t[n + 1].ok \in BOOLEAN
          /\ t[n + 1].ok <=> Accepts(t[n].db, ops[n + 1])
          /\ t[n + 1].ok => After(t[n + 1].db, db, ops, n + 1)
      BY <2>1, <2>2, <3>1, OneMutation
    <3>3. Good(n + 1)
      BY <2>1, <2>2, <2>3, <3>2
    <3>4. QED
      BY <2>1, <3>3
  <2>4. CASE ~t[n].ok
    <3>1. t[n + 1] = t[n]
      BY <2>2, <2>4 DEF AppliedTo
    <3>2. Good(n + 1)
      BY <2>1, <2>4, <3>1
    <3>3. QED
      BY <2>1, <3>2
  <2>5. QED
    BY <2>1, <2>3, <2>4
<1>5. S \in SUBSET (0..L)
  OBVIOUS
<1>6. S = 0..L
  <2> HIDE DEF S
  <2>1. QED
    BY <1>1, <1>3, <1>4, <1>5, UpTo
<1>7. \A n \in 0..L : Good(n)
  BY <1>6
<1>8. QED
  BY <1>7 DEF t

-----------------------------------------------------------------------------
(***************************************************************************)
(* Deltas: whether one applies depends on the order of its operations and  *)
(* on rows that would clash halfway.                                       *)
(***************************************************************************)
\* Two rows of one table that a UNIQUE constraint does not let stand together.
Clashing(a, x, b, y) ==
  /\ a # b /\ a[1] = b[1]
  /\ \/ a[1] = "issue_materials" /\ a[2][1] = b[2][1] /\ x.sort_order = y.sort_order
     \/ a[1] = "issues" /\ x.issue_date = y.issue_date
     \/ a[1] = "content_releases" /\ (x.sequence = y.sequence \/ x.candidate = y.candidate)

Unique(d) == \A a, b \in DOMAIN d : ~Clashing(a, d[a], b, d[b])

\* What holds of a database whose transaction is committed.
Sound(d) ==
  /\ IsDb(d) /\ IsFiniteSet(DOMAIN d)
  /\ \A x \in DOMAIN d : IdFits(x)
  /\ ReferencesHold(d)
  /\ Unique(d)

\* The UNIQUE constraints of one row, in terms of rows that clash.
LEMMA UniqueAsRows ==
  ASSUME NEW d, IsDb(d), NEW id, id \in DOMAIN d
  PROVE  UniqueHolds(d, id) <=> \A x \in DOMAIN d : ~Clashing(id, d[id], x, d[x])
<1>1. \A x \in DOMAIN d : x[1] = id[1] => (Clash(d, id, x) <=> Clashing(id, d[id], x, d[x]))
  BY DEF Clash, Clashing
<1>2. \A x \in DOMAIN d : x[1] # id[1] => ~Clashing(id, d[id], x, d[x])
  BY DEF Clashing
<1>3. QED
  BY <1>1, <1>2 DEF UniqueHolds, RowsOf

\* Rows clash with each other.
LEMMA ClashIsMutual ==
  ASSUME NEW a, NEW x, NEW b, NEW y, Clashing(a, x, b, y)
  PROVE  Clashing(b, y, a, x)
BY DEF Clashing

\* A row's parents are in tables that a delta writes earlier.
LEMMA ParentsEarlier ==
  ASSUME NEW id, IdFits(id), NEW row, NEW p \in Parents(id, row)
  PROVE  /\ p[1] \in {"issues", "materials", "issue_materials", "gazettes"}
         /\ Position[p[1]] < Position[id[1]]
         /\ p[1] = "issue_materials" =>
              id[1] = "material_rubrics" /\ p = <<"issue_materials", <<id[2][1], id[2][2]>>>>
<1>1. CASE id[1] = "issue_materials"
  BY <1>1, Positions DEF Parents
<1>2. CASE id[1] = "material_rubrics"
  BY <1>2, Positions DEF Parents
<1>3. CASE id[1] = "issue_analysis"
  BY <1>3, Positions DEF Parents
<1>4. CASE id[1] = "llm_attempts"
  BY <1>4, Positions DEF Parents
<1>5. CASE id[1] = "editorial_queue"
  BY <1>5, Positions DEF Parents
<1>6. CASE id[1] = "gazette_assets"
  BY <1>6, Positions DEF Parents
<1>7. QED
  BY <1>1, <1>2, <1>3, <1>4, <1>5, <1>6 DEF Parents

\* In a listing, what is before another comes earlier.
LEMMA ListedBefore ==
  ASSUME NEW M, OnePerRow(M), NEW rank \in [M -> Int], NEW seq,
         Lists(seq, M, RankedBefore(M, rank)), NEW n \in 1..Len(seq), NEW k \in 1..Len(seq),
         <<seq[k], seq[n]>> \in RankedBefore(M, rank)
  PROVE  k < n
<1> DEFINE R == RankedBefore(M, rank)
<1>1. /\ \A a, b, c \in M : <<a, b>> \in R /\ <<b, c>> \in R => <<a, c>> \in R
      /\ \A a \in M : <<a, a>> \notin R
  BY RankedIsOrder
<1> HIDE DEF R
<1>2. Lists(seq, M, R) /\ <<seq[k], seq[n]>> \in R
  BY DEF R
<1>3. seq[k] \in M /\ seq[n] \in M /\ Len(seq) \in Nat
  BY <1>2 DEF Lists
<1>4. n # k
  BY <1>1, <1>2, <1>3
<1>5. ~(n < k)
  <2>1. SUFFICES ASSUME n < k PROVE FALSE
    OBVIOUS
  <2>2. <<seq[n], seq[k]>> \in R
    BY <2>1, <1>2 DEF Lists
  <2>3. QED
    BY <1>1, <1>2, <1>3, <2>2
<1>6. QED
  BY <1>3, <1>4, <1>5

\* A list of one mutation for each row names no row twice.
LEMMA ListedOnce ==
  ASSUME NEW M, OnePerRow(M), NEW rank \in [M -> Int], NEW seq,
         Lists(seq, M, RankedBefore(M, rank)), NEW n \in 1..Len(seq), NEW k \in 1..Len(seq),
         seq[n].id = seq[k].id
  PROVE  n = k
<1> DEFINE R == RankedBefore(M, rank)
<1>1. \A a \in M : <<a, a>> \notin R
  BY RankedIsOrder
<1> HIDE DEF R
<1>2. Lists(seq, M, R)
  BY DEF R
<1>3. seq[n] \in M /\ seq[k] \in M /\ Len(seq) \in Nat
  BY <1>2 DEF Lists
<1>4. seq[n] = seq[k]
  BY <1>3 DEF OnePerRow
<1>5. ~(n < k) /\ ~(k < n)
  BY <1>1, <1>2, <1>3, <1>4 DEF Lists
<1>6. QED
  BY <1>3, <1>5

\* The operations of a delta, one for each row that differs.
DeltaSet(base, target) ==
    {[action |-> "delete", id |-> id, before |-> base[id], after |-> Absent] :
        id \in DOMAIN base \ DOMAIN target}
    \cup
    {[action |-> IF id \notin DOMAIN base /\ "insert" \in Allowed[id[1]]
                 THEN "insert" ELSE "upsert",
      id |-> id, before |-> Row(base, id), after |-> target[id]] :
        id \in {x \in DOMAIN target : Row(base, x) # target[x]}}

\* What an operation of a delta says of its row.
LEMMA DeltaSays ==
  ASSUME NEW base, NEW target, IsDb(base), IsDb(target), NEW m \in DeltaSet(base, target)
  PROVE  /\ m.before = Row(base, m.id) /\ m.after = Row(target, m.id)
         /\ m.before # m.after
         /\ m.id \in DOMAIN base \cup DOMAIN target
         /\ m.action = IF m.id \notin DOMAIN target THEN "delete"
                       ELSE IF m.id \notin DOMAIN base /\ "insert" \in Allowed[m.id[1]]
                       THEN "insert" ELSE "upsert"
         /\ m = [action |-> m.action, id |-> m.id, before |-> m.before, after |-> m.after]
<1>1. CASE \E id \in DOMAIN base \ DOMAIN target :
             m = [action |-> "delete", id |-> id, before |-> base[id], after |-> Absent]
  <2>1. PICK id \in DOMAIN base \ DOMAIN target :
             m = [action |-> "delete", id |-> id, before |-> base[id], after |-> Absent]
    BY <1>1
  <2>2. base[id] # Absent /\ Row(base, id) = base[id] /\ Row(target, id) = Absent
    BY <2>1 DEF IsDb, Row
  <2>3. QED
    BY <2>1, <2>2
<1>2. CASE \E id \in DOMAIN target : /\ Row(base, id) # target[id]
             /\ m = [action |-> IF id \notin DOMAIN base /\ "insert" \in Allowed[id[1]]
                                THEN "insert" ELSE "upsert",
                     id |-> id, before |-> Row(base, id), after |-> target[id]]
  <2>1. PICK id \in DOMAIN target : /\ Row(base, id) # target[id]
             /\ m = [action |-> IF id \notin DOMAIN base /\ "insert" \in Allowed[id[1]]
                                THEN "insert" ELSE "upsert",
                     id |-> id, before |-> Row(base, id), after |-> target[id]]
    BY <1>2
  <2>2. Row(target, id) = target[id]
    BY <2>1 DEF Row
  <2>3. QED
    BY <2>1, <2>2
<1>3. QED
  BY <1>1, <1>2 DEF DeltaSet

\* A delta says something of every row that differs.
LEMMA DeltaSpeaksOfAll ==
  ASSUME NEW base, NEW target, IsDb(base), IsDb(target), NEW id, Row(base, id) # Row(target, id)
  PROVE  \E m \in DeltaSet(base, target) : m.id = id
<1>1. CASE id \in DOMAIN target
  <2> DEFINE m == [action |-> IF id \notin DOMAIN base /\ "insert" \in Allowed[id[1]]
                              THEN "insert" ELSE "upsert",
                   id |-> id, before |-> Row(base, id), after |-> target[id]]
  <2>1. Row(target, id) = target[id]
    BY <1>1 DEF Row
  <2>2. m \in DeltaSet(base, target)
    BY <1>1, <2>1 DEF DeltaSet
  <2>3. m.id = id
    OBVIOUS
  <2> HIDE DEF m
  <2>4. QED
    BY <2>2, <2>3
<1>2. CASE id \notin DOMAIN target
  <2> DEFINE m == [action |-> "delete", id |-> id, before |-> base[id], after |-> Absent]
  <2>1. id \in DOMAIN base
    BY <1>2 DEF Row
  <2>2. m \in DeltaSet(base, target)
    BY <1>2, <2>1 DEF DeltaSet
  <2>3. m.id = id
    OBVIOUS
  <2> HIDE DEF m
  <2>4. QED
    BY <2>2, <2>3
<1>3. QED
  BY <1>1, <1>2

\* There are finitely many mutations when they are of finitely many rows.
LEMMA FiniteByIds ==
  ASSUME NEW M, NEW S, IsFiniteSet(S), \A m \in M : m.id \in S,
         \A m, n \in M : m.id = n.id => m = n
  PROVE  IsFiniteSet(M)
<1> DEFINE f == [m \in M |-> m.id]
<1>1. f \in [M -> S] /\ \A m, n \in M : f[m] = f[n] => m = n
  OBVIOUS
<1> HIDE DEF f
<1>2. f \in Injection(M, S)
  BY <1>1, Fun_IsInj
<1>3. QED
  BY <1>2, FS_Injection

\* A delta has one operation for each row.
LEMMA DeltaIsOnePerRow ==
  ASSUME NEW base, NEW target, Sound(base), Sound(target)
  PROVE  OnePerRow(DeltaSet(base, target))
<1> DEFINE M == DeltaSet(base, target)
           S == DOMAIN base \cup DOMAIN target
<1>1. IsDb(base) /\ IsDb(target)
  BY DEF Sound
<1>2. \A m \in M : m.id \in S
  BY <1>1, DeltaSays
<1>3. ASSUME NEW m \in M, NEW n \in M, m.id = n.id PROVE m = n
  <2>1. m.before = n.before /\ m.after = n.after
    BY <1>1, <1>3, DeltaSays
  <2>2. m.action = n.action
    BY <1>1, <1>3, DeltaSays
  <2>3. /\ m = [action |-> m.action, id |-> m.id, before |-> m.before, after |-> m.after]
        /\ n = [action |-> n.action, id |-> n.id, before |-> n.before, after |-> n.after]
    BY <1>1, DeltaSays
  <2>4. QED
    BY <1>3, <2>1, <2>2, <2>3
<1>4. IsFiniteSet(S)
  BY FS_Union DEF Sound
<1>5. \A m \in M : IdFits(m.id)
  BY <1>2 DEF Sound
<1> HIDE DEF M, S
<1>6. IsFiniteSet(M)
  BY <1>2, <1>3, <1>4, FiniteByIds
<1>7. OnePerRow(M)
  BY <1>3, <1>5, <1>6 DEF OnePerRow
<1>8. QED
  BY <1>7 DEF M

\* No row takes a place that a later row of its table has yet to leave.
NoCrossing(base, target) ==
  \A a \in DOMAIN target, b \in DOMAIN base \cap DOMAIN target :
    /\ Row(base, a) # target[a] /\ base[b] # target[b]
    /\ a[1] = b[1] /\ KeyBefore(a[2], b[2])
    => ~Clashing(a, target[a], b, base[b])

DeletesAllowed(base, target) ==
  \A x \in DOMAIN base \ DOMAIN target : "delete" \in Allowed[x[1]]

\* Of the tables that others refer to, a delta deletes from one only.
LEMMA DeletableTables ==
  ASSUME NEW t \in {"issues", "materials", "issue_materials", "gazettes"}, "delete" \in Allowed[t]
  PROVE  t = "issue_materials"
BY DEF Allowed

\* What the operations of a delta say, and in which order.
DeltaFacts(base, target, ops) ==
  /\ Len(ops) \in Nat
  /\ \A n \in 1..Len(ops) :
       /\ ops[n].before = Row(base, ops[n].id) /\ ops[n].after = Row(target, ops[n].id)
       /\ ops[n].before # ops[n].after
       /\ IdFits(ops[n].id)
       /\ ops[n].action = "delete" <=> ops[n].after = Absent
  /\ \A n, k \in 1..Len(ops) : ops[n].id = ops[k].id => n = k
  /\ \A x \in DOMAIN base \cup DOMAIN target :
       Row(base, x) # Row(target, x) => \E n \in 1..Len(ops) : ops[n].id = x
  /\ \A n, k \in 1..Len(ops) :
       /\ ops[k].action = "delete" /\ ops[n].action # "delete" => k < n
       /\ /\ ops[k].action = "delete" /\ ops[n].action = "delete"
          /\ Position[ops[n].id[1]] < Position[ops[k].id[1]]
          => k < n
       /\ /\ ops[k].action # "delete" /\ ops[n].action # "delete"
          /\ Position[ops[k].id[1]] < Position[ops[n].id[1]]
          => k < n
       /\ /\ ops[k].action # "delete" /\ ops[n].action # "delete"
          /\ ops[k].id[1] = ops[n].id[1] /\ n < k
          => KeyBefore(ops[n].id[2], ops[k].id[2])

\* Every delta is ordered in this way.
LEMMA DeltaFactsHold ==
  ASSUME NEW base, NEW target, Sound(base), Sound(target),
         NEW ops, ops = DeltaOperations(base, target)
  PROVE  DeltaFacts(base, target, ops)
<1> DEFINE M == DeltaSet(base, target)
           rank == [m \in M |-> DeltaRank(m)]
           R == RankedBefore(M, rank)
<1>1. OnePerRow(M)
  BY DeltaIsOnePerRow
<1>2. ops = Ordered(M, DeltaRank)
  BY DEF DeltaOperations, DeltaSet
<1>3. rank \in [M -> Int] /\ Lists(ops, M, R)
  BY <1>1, <1>2, DeltaIsListed
<1>4. IsDb(base) /\ IsDb(target)
  BY DEF Sound
<1>5. /\ Len(ops) \in Nat /\ \A n \in 1..Len(ops) : ops[n] \in M
      /\ \A m \in M : \E n \in 1..Len(ops) : ops[n] = m
      /\ \A n, k \in 1..Len(ops) : n < k => <<ops[n], ops[k]>> \in R
  BY <1>3 DEF Lists
<1>6. \A m \in M : /\ m.before = Row(base, m.id) /\ m.after = Row(target, m.id)
                   /\ m.before # m.after /\ IdFits(m.id)
                   /\ m.action = "delete" <=> m.after = Absent
  <2>1. TAKE m \in M
  <2>2. /\ m.before = Row(base, m.id) /\ m.after = Row(target, m.id)
        /\ m.before # m.after
        /\ m.action = "delete" <=> m.id \notin DOMAIN target
    BY <1>4, DeltaSays
  <2>3. m.id \in DOMAIN target <=> Row(target, m.id) # Absent
    BY <1>4, RowIsThere
  <2>4. IdFits(m.id)
    BY <1>1 DEF OnePerRow
  <2>5. QED
    BY <2>2, <2>3, <2>4
<1>7. \A n, k \in 1..Len(ops) : ops[n].id = ops[k].id => n = k
  BY <1>1, <1>3, ListedOnce
<1>8. ASSUME NEW x, Row(base, x) # Row(target, x) PROVE \E n \in 1..Len(ops) : ops[n].id = x
  <2>1. PICK m \in M : m.id = x
    BY <1>4, <1>8, DeltaSpeaksOfAll
  <2>2. QED
    BY <1>5, <2>1
<1>9. ASSUME NEW n \in 1..Len(ops), NEW k \in 1..Len(ops)
      PROVE  /\ ops[k].action = "delete" /\ ops[n].action # "delete" => k < n
             /\ /\ ops[k].action = "delete" /\ ops[n].action = "delete"
                /\ Position[ops[n].id[1]] < Position[ops[k].id[1]]
                => k < n
             /\ /\ ops[k].action # "delete" /\ ops[n].action # "delete"
                /\ Position[ops[k].id[1]] < Position[ops[n].id[1]]
                => k < n
             /\ /\ ops[k].action # "delete" /\ ops[n].action # "delete"
                /\ ops[k].id[1] = ops[n].id[1] /\ n < k
                => KeyBefore(ops[n].id[2], ops[k].id[2])
  <2> DEFINE a == ops[k]
             b == ops[n]
  <2>1. a \in M /\ b \in M /\ Position[a.id[1]] \in 1..11 /\ Position[b.id[1]] \in 1..11
    BY <1>5, <1>6, PositionOfId
  <2>2. Len(UpsertOrder) = 11
    BY DEF UpsertOrder
  <2>3. /\ rank[a] = IF a.action = "delete" THEN 11 - Position[a.id[1]] ELSE 11 + Position[a.id[1]]
        /\ rank[b] = IF b.action = "delete" THEN 11 - Position[b.id[1]] ELSE 11 + Position[b.id[1]]
    BY <2>1, <2>2 DEF DeltaRank
  <2>4. rank[a] < rank[b] => k < n
    <3>1. rank[a] < rank[b] => <<a, b>> \in R
      BY <2>1 DEF RankedBefore
    <3> HIDE DEF rank, M
    <3>2. QED
      BY <3>1, <1>1, <1>3, ListedBefore
  <2>5. n < k => <<b, a>> \in R
    BY <1>5
  <2>6. <<b, a>> \in R =>
          \/ rank[b] < rank[a]
          \/ rank[b] = rank[a] /\ Position[b.id[1]] < Position[a.id[1]]
          \/ rank[b] = rank[a] /\ KeyBefore(b.id[2], a.id[2])
    <3> HIDE DEF rank
    <3>1. QED
      BY DEF RankedBefore
  <2> HIDE DEF rank, M, R
  <2> DEFINE pa == Position[a.id[1]]
             pb == Position[b.id[1]]
  <2> HIDE DEF pa, pb
  <2>7. /\ pa \in 1..11 /\ pb \in 1..11
        /\ rank[a] = IF a.action = "delete" THEN 11 - pa ELSE 11 + pa
        /\ rank[b] = IF b.action = "delete" THEN 11 - pb ELSE 11 + pb
        /\ a.id[1] = b.id[1] => pa = pb
    BY <2>1, <2>3 DEF pa, pb
  <2>8. /\ a.action = "delete" /\ b.action # "delete" => rank[a] < rank[b]
        /\ a.action = "delete" /\ b.action = "delete" /\ pb < pa => rank[a] < rank[b]
        /\ a.action # "delete" /\ b.action # "delete" /\ pa < pb => rank[a] < rank[b]
        /\ a.action # "delete" /\ b.action # "delete" /\ a.id[1] = b.id[1] => rank[a] = rank[b]
    <3>1. \A p, q \in 1..11 : /\ 11 - p < 11 + q
                              /\ q < p => 11 - p < 11 - q
                              /\ p < q => 11 + p < 11 + q
      OBVIOUS
    <3>2. ASSUME a.action = "delete", b.action # "delete" PROVE rank[a] < rank[b]
      <4>1. rank[a] = 11 - pa /\ rank[b] = 11 + pb
        BY <2>7, <3>2
      <4>2. QED
        BY <2>7, <3>1, <4>1
    <3>3. ASSUME a.action = "delete", b.action = "delete", pb < pa PROVE rank[a] < rank[b]
      <4>1. rank[a] = 11 - pa /\ rank[b] = 11 - pb
        BY <2>7, <3>3
      <4>2. QED
        BY <2>7, <3>1, <3>3, <4>1
    <3>4. ASSUME a.action # "delete", b.action # "delete"
          PROVE  /\ pa < pb => rank[a] < rank[b]
                 /\ a.id[1] = b.id[1] => rank[a] = rank[b]
      <4>1. rank[a] = 11 + pa /\ rank[b] = 11 + pb
        BY <2>7, <3>4
      <4>2. QED
        BY <2>7, <3>1, <4>1
    <3>5. QED
      BY <3>2, <3>3, <3>4
  <2>9. /\ <<b, a>> \in R /\ a.id[1] = b.id[1] /\ rank[a] = rank[b] => KeyBefore(b.id[2], a.id[2])
    <3>1. pa \in Int /\ pb \in Int /\ rank[a] \in Int /\ rank[b] \in Int
      BY <1>3, <2>1, <2>7
    <3>2. QED
      BY <2>6, <2>7, <3>1 DEF pa, pb
  <2> HIDE DEF rank, M, R
  <2>10. QED
    BY <2>4, <2>5, <2>8, <2>9 DEF pa, pb
<1> HIDE DEF M, R, rank
<1>10. QED
  BY <1>5, <1>6, <1>7, <1>8, <1>9 DEF DeltaFacts

\* The children of a deleted row are deleted before it.
LEMMA DeltaDeletesChildrenFirst ==
  ASSUME NEW base, NEW target, Sound(base), Sound(target), DeletesAllowed(base, target),
         NEW ops, DeltaFacts(base, target, ops)
  PROVE  ChildrenFirst(base, ops)
<1>1. SUFFICES ASSUME NEW n \in 1..Len(ops), ops[n].action = "delete"
               PROVE  /\ \A k \in 1..(n - 1) : ops[k].after = Absent
                                  \/ ops[n].id \notin Parents(ops[k].id, ops[k].after)
                      /\ \A x \in DOMAIN base : (\A k \in 1..(n - 1) : ops[k].id # x)
                                  => ops[n].id \notin Parents(x, base[x])
  BY DEF ChildrenFirst
<1>2. Len(ops) \in Nat /\ \A k \in 1..(n - 1) : k \in 1..Len(ops) /\ ~(n < k)
  BY DEF DeltaFacts
<1> DEFINE id == ops[n].id
<1>3. Row(base, id) # Absent /\ Row(target, id) = Absent
  BY <1>1 DEF DeltaFacts
<1>4. id \in DOMAIN base /\ id \notin DOMAIN target
  BY <1>3, RowIsThere DEF Sound
<1>5. \A k \in 1..(n - 1) : ops[k].after = Absent
  BY <1>1, <1>2 DEF DeltaFacts
<1>6. ASSUME NEW x \in DOMAIN base, \A k \in 1..(n - 1) : ops[k].id # x, id \in Parents(x, base[x])
      PROVE  FALSE
  <2>1. IdFits(x)
    BY DEF Sound
  <2>2. id[1] = "issue_materials" /\ x[1] = "material_rubrics"
        /\ Position[id[1]] < Position[x[1]]
    <3>1. "delete" \in Allowed[id[1]]
      BY <1>4 DEF DeletesAllowed
    <3>2. id[1] \in {"issues", "materials", "issue_materials", "gazettes"}
          /\ Position[id[1]] < Position[x[1]]
          /\ (id[1] = "issue_materials" => x[1] = "material_rubrics")
      BY <1>6, <2>1, ParentsEarlier
    <3>3. QED
      BY <3>1, <3>2, DeletableTables
  <2>3. x \notin DOMAIN target
    <3>1. SUFFICES ASSUME x \in DOMAIN target PROVE FALSE
      OBVIOUS
    <3>2. Parents(x, target[x]) = Parents(x, base[x])
      BY <2>2 DEF Parents
    <3>3. Parents(x, target[x]) \subseteq DOMAIN target
      BY <3>1 DEF Sound, ReferencesHold
    <3>4. QED
      BY <1>4, <1>6, <3>2, <3>3
  <2>4. Row(base, x) # Absent /\ Row(target, x) = Absent
    BY <2>3, RowIsThere DEF Sound, Row
  <2>5. PICK k \in 1..Len(ops) : ops[k].id = x
    BY <2>4 DEF DeltaFacts
  <2>6. ops[k].action = "delete"
    BY <2>4, <2>5 DEF DeltaFacts
  <2>7. k < n
    BY <1>1, <2>2, <2>5, <2>6 DEF DeltaFacts
  <2>8. QED
    BY <1>2, <1>6, <2>5, <2>7
<1>7. QED
  BY <1>5, <1>6

\* A delta says of each row what it is in the base.
LEMMA DeltaIsDocument ==
  ASSUME NEW base, NEW target, Sound(base), Sound(target), NEW ops, DeltaFacts(base, target, ops)
  PROVE  Document(base, ops)
<1>1. IsDb(base)
  BY DEF Sound
<1>2. QED
  BY <1>1 DEF Document, DeltaFacts

\* Half-way through a delta a row is as in the base or as in the target.
LEMMA HalfWay ==
  ASSUME NEW base, NEW target, NEW ops, DeltaFacts(base, target, ops),
         NEW n \in 0..Len(ops), NEW d, After(d, base, ops, n), NEW x
  PROVE  \/ Row(d, x) = Row(target, x)
         \/ \E k \in (n + 1)..Len(ops) : ops[k].id = x /\ Row(d, x) = Row(base, x)
<1>1. Len(ops) \in Nat
  BY DEF DeltaFacts
<1>2. CASE \E k \in 1..n : ops[k].id = x
  <2>1. PICK k \in 1..n : ops[k].id = x
    BY <1>2
  <2>2. Row(d, x) = ops[k].after /\ k \in 1..Len(ops)
    BY <1>1, <2>1 DEF After
  <2>3. QED
    BY <2>1, <2>2 DEF DeltaFacts
<1>3. CASE \A k \in 1..n : ops[k].id # x
  <2>1. Row(d, x) = Row(base, x)
    BY <1>3 DEF After
  <2>2. CASE Row(base, x) = Row(target, x)
    BY <2>1, <2>2
  <2>3. CASE Row(base, x) # Row(target, x)
    <3>1. x \in DOMAIN base \cup DOMAIN target
      BY <2>3 DEF Row
    <3>2. PICK k \in 1..Len(ops) : ops[k].id = x
      BY <2>3, <3>1 DEF DeltaFacts
    <3>3. k \in (n + 1)..Len(ops)
      BY <1>1, <1>3, <3>2
    <3>4. QED
      BY <2>1, <3>2, <3>3
  <2>4. QED
    BY <2>2, <2>3
<1>4. QED
  BY <1>2, <1>3

\* A verdict put into the result of a transaction.
LEMMA Verdict ==
  ASSUME NEW db, NEW x, NEW y
  PROVE  [[ok |-> x, db |-> db] EXCEPT !.ok = y] = [ok |-> y, db |-> db]
OBVIOUS

\* An operation that writes breaks no UNIQUE constraint: the rows it could clash with
\* are as in the target, or are written later and stood beside its row all along.
LEMMA DeltaKeepsUnique ==
  ASSUME NEW base, NEW target, Sound(base), Sound(target), NoCrossing(base, target),
         NEW ops, DeltaFacts(base, target, ops), NEW n \in 1..Len(ops),
         ops[n].action # "delete",
         NEW d, After(d, base, ops, n - 1), Row(d, ops[n].id) # ops[n].after,
         NEW e, e = WithRow(d, ops[n].id, ops[n].after)
  PROVE  UniqueHolds(e, ops[n].id)
<1> DEFINE id == ops[n].id
<1>1. /\ Len(ops) \in Nat /\ n - 1 \in 0..Len(ops) /\ (n - 1) + 1 = n
      /\ ops[n].after = Row(target, id) /\ ops[n].after # Absent
  BY DEF DeltaFacts
<1>2. IsDb(base) /\ IsDb(target) /\ IsDb(d)
  BY DEF Sound, After
<1>3. id \in DOMAIN target /\ target[id] = ops[n].after /\ IdFits(id)
  BY <1>1, <1>2, RowIsThere DEF Row, DeltaFacts
<1>4. /\ DOMAIN e = DOMAIN d \cup {id} /\ e[id] = target[id]
      /\ \A x \in DOMAIN d : x # id => e[x] = d[x]
  BY <1>3 DEF WithRow
<1>5. IsDb(e)
  BY <1>1, <1>2, WrittenRow
<1>6. Row(base, id) # target[id]
  BY <1>1, <1>3 DEF DeltaFacts
<1>7. ASSUME NEW x \in DOMAIN d, x # id, x[1] = id[1] PROVE ~Clashing(id, target[id], x, d[x])
  <2>1. Row(d, x) = d[x] /\ d[x] # Absent
    BY <1>2 DEF Row, IsDb
  <2>2. CASE Row(d, x) = Row(target, x)
    <3>1. x \in DOMAIN target /\ target[x] = d[x]
      BY <1>2, <2>1, <2>2, RowIsThere DEF Row
    <3>2. QED
      BY <1>3, <3>1 DEF Sound, Unique
  <2>3. CASE \E k \in n..Len(ops) : ops[k].id = x /\ Row(d, x) = Row(base, x)
    <3>1. PICK k \in n..Len(ops) : ops[k].id = x /\ Row(d, x) = Row(base, x)
      BY <2>3
    <3>2. k \in 1..Len(ops) /\ n < k /\ ~(k < n)
      BY <1>1, <1>7, <3>1
    <3>3. x \in DOMAIN base /\ base[x] = d[x]
      BY <1>2, <2>1, <3>1, RowIsThere DEF Row
    <3>4. ops[k].action # "delete"
      BY <3>2 DEF DeltaFacts
    <3>5. /\ ops[k].after = Row(target, x) /\ ops[k].after # Absent
          /\ Row(base, x) # Row(target, x)
      BY <3>1, <3>2, <3>4 DEF DeltaFacts
    <3>6. x \in DOMAIN target /\ target[x] = Row(target, x)
      BY <1>2, <3>5, RowIsThere DEF Row
    <3>7. base[x] # target[x]
      BY <2>1, <3>1, <3>3, <3>5, <3>6
    <3>8. KeyBefore(id[2], x[2])
      BY <1>7, <3>1, <3>2, <3>4 DEF DeltaFacts
    <3>9. QED
      BY <1>3, <1>6, <1>7, <3>3, <3>6, <3>7, <3>8 DEF NoCrossing
  <2>4. QED
    BY <1>1, <2>2, <2>3, HalfWay
<1>8. ~Clashing(id, e[id], id, e[id])
  BY DEF Clashing
<1>9. \A x \in DOMAIN e : ~Clashing(id, e[id], x, e[x])
  <2>1. TAKE x \in DOMAIN e
  <2>2. CASE x = id
    BY <1>8, <2>2
  <2>3. CASE x # id /\ x[1] = id[1]
    BY <1>4, <1>7, <2>3
  <2>4. CASE x[1] # id[1]
    BY <2>4 DEF Clashing
  <2>5. QED
    BY <2>2, <2>3, <2>4
<1>10. id \in DOMAIN e
  BY <1>4
<1> HIDE DEF id
<1>11. UniqueHolds(e, id)
  BY <1>5, <1>9, <1>10, UniqueAsRows
<1>12. QED
  BY <1>11 DEF id

\* An operation that writes finds the rows its row refers to.
LEMMA DeltaKeepsReferences ==
  ASSUME NEW base, NEW target, Sound(base), Sound(target),
         NEW ops, DeltaFacts(base, target, ops), NEW n \in 1..Len(ops),
         ops[n].action # "delete",
         NEW d, After(d, base, ops, n - 1)
  PROVE  Parents(ops[n].id, ops[n].after) \subseteq DOMAIN WithRow(d, ops[n].id, ops[n].after)
<1> DEFINE id == ops[n].id
<1>1. /\ Len(ops) \in Nat /\ n - 1 \in 0..Len(ops) /\ (n - 1) + 1 = n
      /\ ops[n].after = Row(target, id) /\ ops[n].after # Absent /\ IdFits(id)
  BY DEF DeltaFacts
<1>2. IsDb(base) /\ IsDb(target) /\ IsDb(d)
  BY DEF Sound, After
<1>3. id \in DOMAIN target /\ target[id] = ops[n].after
  BY <1>1, <1>2, RowIsThere DEF Row
<1>4. SUFFICES ASSUME NEW p \in Parents(id, target[id]) PROVE p \in DOMAIN d
  BY <1>3 DEF WithRow
<1>5. p \in DOMAIN target /\ Row(target, p) # Absent
  BY <1>2, <1>3, <1>4, RowIsThere DEF Sound, ReferencesHold
<1>6. Position[p[1]] < Position[id[1]]
  BY <1>1, <1>4, ParentsEarlier
<1>7. CASE Row(d, p) = Row(target, p)
  BY <1>2, <1>5, <1>7, RowIsThere
<1>8. CASE \E k \in n..Len(ops) : ops[k].id = p
  <2>1. PICK k \in n..Len(ops) : ops[k].id = p
    BY <1>8
  <2>2. k \in 1..Len(ops) /\ ~(k < n)
    BY <1>1, <2>1
  <2>3. ops[k].action # "delete"
    BY <1>5, <2>1, <2>2 DEF DeltaFacts
  <2>4. k < n
    BY <1>6, <2>1, <2>2, <2>3 DEF DeltaFacts
  <2>5. QED
    BY <2>2, <2>4
<1>9. QED
  BY <1>1, <1>7, <1>8, HalfWay

\* Behaviour of build_delta and apply_delta_to_staging: between two sound databases whose
\* rows do not cross, and if it deletes only where it may, a delta applies to its base
\* and gives exactly the target's rows.
THEOREM DeltaApplies ==
  ASSUME NEW base, NEW target, Sound(base), Sound(target),
         DeletesAllowed(base, target), NoCrossing(base, target)
  PROVE  Applied(base, DeltaOperations(base, target)) = [ok |-> TRUE, db |-> target]
<1> DEFINE ops == DeltaOperations(base, target)
           t == Replay(base, ops)
           L == Len(ops)
<1> HIDE DEF ops
<1>1. DeltaFacts(base, target, ops)
  BY DeltaFactsHold DEF ops
<1>2. Document(base, ops) /\ ChildrenFirst(base, ops)
  BY <1>1, DeltaIsDocument, DeltaDeletesChildrenFirst
<1>3. L \in Nat
  BY <1>1 DEF DeltaFacts
<1>4. t[0] = [ok |-> TRUE, db |-> base]
  BY <1>3, ReplayDef
<1>5. \A n \in 0..L :
        /\ t[n] = [ok |-> t[n].ok, db |-> t[n].db] /\ t[n].ok \in BOOLEAN
        /\ t[n].ok => After(t[n].db, base, ops, n)
        /\ n > 0 => (t[n].ok <=> t[n - 1].ok /\ Accepts(t[n - 1].db, ops[n]))
  BY <1>2, WholeReplay
<1> HIDE DEF t
<1>6. ASSUME NEW n \in 1..L, NEW d, After(d, base, ops, n - 1) PROVE Accepts(d, ops[n])
  <2>1. SUFFICES ASSUME ops[n].action # "delete", Row(d, ops[n].id) # ops[n].after
                 PROVE  Accepts(d, ops[n])
    BY DEF Accepts
  <2>2. UniqueHolds(WithRow(d, ops[n].id, ops[n].after), ops[n].id)
    BY <1>1, <1>6, <2>1, DeltaKeepsUnique
  <2>3. Parents(ops[n].id, ops[n].after) \subseteq DOMAIN WithRow(d, ops[n].id, ops[n].after)
    BY <1>1, <1>6, <2>1, DeltaKeepsReferences
  <2>4. QED
    BY <2>2, <2>3 DEF Accepts
<1> DEFINE S == {n \in 0..L : t[n].ok}
<1>7. 0 \in S
  BY <1>3, <1>4
<1>8. ASSUME NEW n \in S, n < L PROVE n + 1 \in S
  <2>1. n \in 0..L /\ n + 1 \in 1..L /\ (n + 1) - 1 = n /\ n + 1 > 0 /\ n + 1 \in 0..L /\ t[n].ok
    BY <1>3, <1>8
  <2>2. After(t[n].db, base, ops, n)
    BY <1>5, <2>1
  <2>3. Accepts(t[n].db, ops[n + 1])
    BY <1>6, <2>1, <2>2
  <2>4. t[n + 1].ok <=> t[(n + 1) - 1].ok /\ Accepts(t[(n + 1) - 1].db, ops[n + 1])
    BY <1>5, <2>1
  <2>5. QED
    BY <2>1, <2>3, <2>4
<1>9. S = 0..L
  <2>1. S \in SUBSET (0..L)
    OBVIOUS
  <2> HIDE DEF S
  <2>2. QED
    BY <1>3, <1>7, <1>8, <2>1, UpTo
<1>10. L \in 0..L /\ t[L].ok
  BY <1>3, <1>9
<1>11. t[L] = [ok |-> TRUE, db |-> t[L].db] /\ After(t[L].db, base, ops, L)
  BY <1>5, <1>10
<1> DEFINE d == t[L].db
<1>12. \A x : Row(d, x) = Row(target, x)
  <2>1. TAKE x
  <2>2. (L + 1)..L = {}
    BY <1>3
  <2>3. Row(d, x) = Row(target, x) \/ \E k \in (L + 1)..L : ops[k].id = x
    BY <1>1, <1>10, <1>11, HalfWay
  <2>4. QED
    BY <2>2, <2>3
<1>13. d = target
  <2>1. IsDb(d) /\ IsDb(target)
    BY <1>11 DEF After, Sound
  <2> HIDE DEF d
  <2>2. QED
    BY <1>12, <2>1, SameRowsSameDb
<1>14. t[L] = [ok |-> TRUE, db |-> target]
  BY <1>11, <1>13
<1>15. ReferencesHold(target)
  BY DEF Sound
<1>16. Applied(base, ops) = [t[L] EXCEPT !.ok = @ /\ ReferencesHold(t[L].db)]
  BY DEF Applied, t
<1> HIDE DEF L
<1>17. Applied(base, ops) = [ok |-> TRUE, db |-> target]
  <2>1. t[L].ok = TRUE /\ t[L].db = target
    BY <1>14
  <2>2. (t[L].ok /\ ReferencesHold(t[L].db)) = TRUE
    BY <1>15, <2>1
  <2>3. Applied(base, ops) = [t[L] EXCEPT !.ok = TRUE]
    BY <1>16, <2>2
  <2>4. [[ok |-> TRUE, db |-> target] EXCEPT !.ok = TRUE] = [ok |-> TRUE, db |-> target]
    BY Verdict
  <2> DEFINE u == t[L]
  <2> HIDE DEF u
  <2>5. u = [ok |-> TRUE, db |-> target] /\ Applied(base, ops) = [u EXCEPT !.ok = TRUE]
    BY <1>14, <2>3 DEF u
  <2>6. QED
    BY <2>4, <2>5
<1>18. QED
  BY <1>17 DEF ops

-----------------------------------------------------------------------------
(***************************************************************************)
(* Committed replays: a transaction that went through has itself shown     *)
(* that no two rows cross on the way.                                      *)
(***************************************************************************)
\* What a committed document says of its way there.
Accepted(db, ops) ==
  \A n \in 1..Len(ops) : \E d : After(d, db, ops, n - 1) /\ Accepts(d, ops[n])

\* A replay that commits accepted every mutation.
LEMMA CommittedReplay ==
  ASSUME NEW db, NEW ops, Document(db, ops), ChildrenFirst(db, ops),
         NEW r, Applied(db, ops) = [ok |-> TRUE, db |-> r]
  PROVE  After(r, db, ops, Len(ops)) /\ ReferencesHold(r) /\ Accepted(db, ops)
<1> DEFINE t == Replay(db, ops)
           L == Len(ops)
<1>1. L \in Nat
  BY DEF Document
<1>2. \A n \in 0..L :
        /\ t[n] = [ok |-> t[n].ok, db |-> t[n].db] /\ t[n].ok \in BOOLEAN
        /\ t[n].ok => After(t[n].db, db, ops, n)
        /\ n > 0 => (t[n].ok <=> t[n - 1].ok /\ Accepts(t[n - 1].db, ops[n]))
  BY WholeReplay
<1>3. Applied(db, ops) = [t[L] EXCEPT !.ok = @ /\ ReferencesHold(t[L].db)]
  BY DEF Applied
<1> HIDE DEF t
<1>4. t[L].ok /\ t[L].db = r /\ ReferencesHold(t[L].db)
  <2>1. L \in 0..L
    BY <1>1
  <2> DEFINE u == t[L]
             v == u.ok /\ ReferencesHold(u.db)
  <2>2. u = [ok |-> u.ok, db |-> u.db] /\ Applied(db, ops) = [u EXCEPT !.ok = v]
    BY <1>2, <1>3, <2>1
  <2> HIDE DEF u, v
  <2>3. [[ok |-> u.ok, db |-> u.db] EXCEPT !.ok = v] = [ok |-> v, db |-> u.db]
    BY Verdict
  <2>4. [ok |-> v, db |-> u.db] = [ok |-> TRUE, db |-> r]
    BY <2>2, <2>3
  <2>5. v /\ u.db = r
    BY <2>4
  <2>6. QED
    BY <2>5 DEF u, v
<1> DEFINE S == {n \in 0..L : t[L - n].ok}
<1>5. 0 \in S
  BY <1>1, <1>4
<1>6. ASSUME NEW n \in S, n < L PROVE n + 1 \in S
  <2>1. L - n \in 0..L /\ L - n > 0 /\ (L - n) - 1 = L - (n + 1) /\ n + 1 \in 0..L /\ t[L - n].ok
    BY <1>1, <1>6
  <2>2. t[(L - n) - 1].ok
    BY <1>2, <2>1
  <2>3. QED
    BY <2>1, <2>2
<1>7. S = 0..L
  <2>1. S \in SUBSET (0..L)
    OBVIOUS
  <2> HIDE DEF S
  <2>2. QED
    BY <1>1, <1>5, <1>6, <2>1, UpTo
<1>8. \A n \in 0..L : t[n].ok
  <2>1. TAKE n \in 0..L
  <2>2. L - n \in 0..L /\ L - (L - n) = n
    BY <1>1
  <2>3. QED
    BY <1>7, <2>2
<1>9. ASSUME NEW n \in 1..L PROVE \E d : After(d, db, ops, n - 1) /\ Accepts(d, ops[n])
  <2>1. n - 1 \in 0..L /\ n \in 0..L /\ n > 0
    BY <1>1
  <2>2. After(t[n - 1].db, db, ops, n - 1) /\ Accepts(t[n - 1].db, ops[n])
    BY <1>2, <1>8, <2>1
  <2>3. QED
    BY <2>2
<1>10. After(r, db, ops, L)
  <2>1. L \in 0..L
    BY <1>1
  <2>2. After(t[L].db, db, ops, L)
    BY <1>2, <1>4, <2>1
  <2>3. QED
    BY <1>4, <2>2
<1>11. QED
  BY <1>4, <1>9, <1>10 DEF Accepted

\* A row that was written stands apart from every other row of that moment.
LEMMA WrittenApart ==
  ASSUME NEW db, NEW ops, Document(db, ops), NEW n \in 1..Len(ops),
         ops[n].action # "delete", ops[n].before # ops[n].after,
         NEW d, After(d, db, ops, n - 1), Accepts(d, ops[n]),
         NEW x, Row(d, x) # Absent
  PROVE  ~Clashing(ops[n].id, ops[n].after, x, Row(d, x))
<1> DEFINE id == ops[n].id
           row == ops[n].after
           e == WithRow(d, id, row)
<1>1. Len(ops) \in Nat /\ n - 1 \in Nat /\ \A k \in 1..(n - 1) : k \in 1..Len(ops) /\ k # n
  BY DEF Document
<1>2. Row(d, id) = ops[n].before
  <2>1. \A k \in 1..(n - 1) : ops[k].id # id
    BY <1>1 DEF Document
  <2>2. QED
    BY <2>1 DEF After, Document
<1>3. UniqueHolds(e, id) /\ row # Absent /\ IsDb(d)
  BY <1>2 DEF Accepts, Document, After
<1>4. SUFFICES ASSUME x # id PROVE ~Clashing(id, row, x, Row(d, x))
  BY DEF Clashing
<1>5. x \in DOMAIN d /\ Row(d, x) = d[x]
  BY DEF Row
<1>6. IsDb(e)
  BY <1>3, WrittenRow
<1>7. id \in DOMAIN e /\ x \in DOMAIN e /\ e[id] = row /\ e[x] = d[x]
  BY <1>4, <1>5 DEF WithRow
<1> HIDE DEF e, id, row
<1>8. \A y \in DOMAIN e : ~Clashing(id, e[id], y, e[y])
  BY <1>3, <1>6, <1>7, UniqueAsRows
<1>9. QED
  BY <1>5, <1>7, <1>8

\* What the row of one mutation is when another mutation is carried out.
LEMMA RowMeanwhile ==
  ASSUME NEW db, NEW ops, Document(db, ops), NEW n \in 1..Len(ops), NEW d, After(d, db, ops, n - 1)
  PROVE  /\ \A k \in 1..Len(ops) : k < n => Row(d, ops[k].id) = ops[k].after
         /\ \A k \in 1..Len(ops) : n <= k => Row(d, ops[k].id) = ops[k].before
<1>1. Len(ops) \in Nat
  BY DEF Document
<1>2. ASSUME NEW k \in 1..Len(ops), n <= k PROVE Row(d, ops[k].id) = ops[k].before
  <2>1. \A j \in 1..(n - 1) : j \in 1..Len(ops) /\ j # k
    BY <1>1, <1>2
  <2>2. \A j \in 1..(n - 1) : ops[j].id # ops[k].id
    BY <2>1 DEF Document
  <2>3. QED
    BY <2>2 DEF After, Document
<1>3. QED
  BY <1>1, <1>2 DEF After

\* A row that was written clashes with no row that was in place before it.
LEMMA StandsApart ==
  ASSUME NEW db, NEW ops, Document(db, ops), Accepted(db, ops), NEW r, After(r, db, ops, Len(ops)),
         NEW n \in 1..Len(ops), ops[n].before # ops[n].after, ops[n].after # Absent,
         NEW b, Row(r, b) # Absent,
         \A k \in 1..Len(ops) : ops[k].id = b => k < n \/ ops[k].before = ops[k].after
  PROVE  ~Clashing(ops[n].id, ops[n].after, b, Row(r, b))
<1>1. PICK d : After(d, db, ops, n - 1) /\ Accepts(d, ops[n])
  BY DEF Accepted
<1>2. Len(ops) \in Nat /\ \A k \in 1..(n - 1) : k \in 1..Len(ops)
  BY DEF Document
<1>3. Row(d, b) = Row(r, b)
  <2>1. CASE \E k \in 1..Len(ops) : ops[k].id = b
    <3>1. PICK k \in 1..Len(ops) : ops[k].id = b
      BY <2>1
    <3>2. Row(r, b) = ops[k].after
      BY <3>1 DEF After
    <3>3. k < n \/ (n <= k /\ ops[k].before = ops[k].after)
      BY <1>2, <3>1
    <3>4. QED
      BY <1>1, <3>1, <3>2, <3>3, RowMeanwhile
  <2>2. CASE \A k \in 1..Len(ops) : ops[k].id # b
    <3>1. \A k \in 1..(n - 1) : ops[k].id # b
      BY <1>2, <2>2
    <3>2. QED
      BY <1>1, <2>2, <3>1 DEF After
  <2>3. QED
    BY <2>1, <2>2
<1>4. ops[n].action # "delete"
  BY DEF Document
<1>5. QED
  BY <1>1, <1>3, <1>4, WrittenApart

\* A committed document leaves every UNIQUE constraint as true as it found it.
LEMMA CommittedUnique ==
  ASSUME NEW db, NEW ops, Document(db, ops), Unique(db), Accepted(db, ops),
         NEW r, After(r, db, ops, Len(ops))
  PROVE  Unique(r)
<1>1. SUFFICES ASSUME NEW a \in DOMAIN r, NEW b \in DOMAIN r, Clashing(a, r[a], b, r[b])
               PROVE  FALSE
  BY DEF Unique
<1>2. IsDb(r) /\ IsDb(db) /\ Len(ops) \in Nat
  BY DEF After, Document
<1>3. /\ Row(r, a) = r[a] /\ Row(r, a) # Absent
      /\ Row(r, b) = r[b] /\ Row(r, b) # Absent
  BY <1>2 DEF Row, IsDb
<1>4. a # b /\ Clashing(b, r[b], a, r[a])
  BY <1>1, ClashIsMutual DEF Clashing
<1>5. ASSUME NEW x \in DOMAIN r, \A k \in 1..Len(ops) : ops[k].id = x => ops[k].before = ops[k].after
      PROVE  x \in DOMAIN db /\ db[x] = r[x]
  <2>1. Row(db, x) = Row(r, x)
    BY <1>5 DEF After, Document
  <2>2. Row(r, x) = r[x] /\ r[x] # Absent
    BY <1>2 DEF Row, IsDb
  <2>3. QED
    BY <1>2, <2>1, <2>2, RowIsThere DEF Row
<1> DEFINE Changes(x) == \E n \in 1..Len(ops) : ops[n].id = x /\ ops[n].before # ops[n].after
<1>6. CASE ~Changes(a) /\ ~Changes(b)
  <2>1. a \in DOMAIN db /\ db[a] = r[a] /\ b \in DOMAIN db /\ db[b] = r[b]
    BY <1>5, <1>6
  <2>2. QED
    BY <1>1, <2>1 DEF Unique
<1>7. ASSUME NEW n \in 1..Len(ops), ops[n].before # ops[n].after,
             \/ ops[n].id = a /\ (\A k \in 1..Len(ops) : ops[k].id = b => k < n \/ ops[k].before = ops[k].after)
             \/ ops[n].id = b /\ (\A k \in 1..Len(ops) : ops[k].id = a => k < n \/ ops[k].before = ops[k].after)
      PROVE  FALSE
  <2>1. \A k \in 1..Len(ops) : Row(r, ops[k].id) = ops[k].after
    BY DEF After
  <2>2. CASE ops[n].id = a /\ (\A k \in 1..Len(ops) : ops[k].id = b => k < n \/ ops[k].before = ops[k].after)
    <3>1. ops[n].after = r[a] /\ ops[n].after # Absent
      BY <1>3, <2>1, <2>2
    <3>2. QED
      BY <1>1, <1>3, <1>7, <2>2, <3>1, StandsApart
  <2>3. CASE ops[n].id = b /\ (\A k \in 1..Len(ops) : ops[k].id = a => k < n \/ ops[k].before = ops[k].after)
    <3>1. ops[n].after = r[b] /\ ops[n].after # Absent
      BY <1>3, <2>1, <2>3
    <3>2. QED
      BY <1>3, <1>4, <1>7, <2>3, <3>1, StandsApart
  <2>4. QED
    BY <1>7, <2>2, <2>3
<1>8. CASE Changes(a) /\ ~Changes(b)
  BY <1>7, <1>8
<1>9. CASE ~Changes(a) /\ Changes(b)
  BY <1>7, <1>9
<1>10. CASE Changes(a) /\ Changes(b)
  <2>1. PICK n \in 1..Len(ops), k \in 1..Len(ops) :
          /\ ops[n].id = a /\ ops[n].before # ops[n].after
          /\ ops[k].id = b /\ ops[k].before # ops[k].after
    BY <1>10
  <2>2. /\ \A j \in 1..Len(ops) : ops[j].id = a => j = n
        /\ \A j \in 1..Len(ops) : ops[j].id = b => j = k
    BY <2>1 DEF Document
  <2>3. n < k \/ k < n
    BY <1>2, <1>4, <2>1
  <2>4. QED
    BY <1>7, <2>1, <2>2, <2>3
<1>11. QED
  BY <1>6, <1>8, <1>9, <1>10

\* The mutations of one table are carried out in the order of its keys.
KeysRise(ops) ==
  \A n, k \in 1..Len(ops) :
    /\ ops[n].action # "delete" /\ ops[k].action # "delete" /\ ops[n].id[1] = ops[k].id[1] /\ n < k
    => KeyBefore(ops[n].id[2], ops[k].id[2])

\* A committed document crosses no row: had it, its own replay would have refused it.
LEMMA CommittedCrossesNothing ==
  ASSUME NEW db, NEW ops, Document(db, ops), Accepted(db, ops), KeysRise(ops),
         \A n \in 1..Len(ops) : IdFits(ops[n].id), NEW r, After(r, db, ops, Len(ops))
  PROVE  NoCrossing(db, r)
<1>1. SUFFICES ASSUME NEW a \in DOMAIN r, NEW b \in DOMAIN db \cap DOMAIN r,
                      Row(db, a) # r[a], db[b] # r[b], a[1] = b[1], KeyBefore(a[2], b[2])
               PROVE  ~Clashing(a, r[a], b, db[b])
  BY DEF NoCrossing
<1>2. IsDb(r) /\ IsDb(db) /\ Len(ops) \in Nat
  BY DEF After, Document
<1>3. Row(r, a) = r[a] /\ Row(r, b) = r[b] /\ Row(db, b) = db[b]
      /\ Row(r, a) # Absent /\ Row(r, b) # Absent /\ Row(db, b) # Absent
  BY <1>2 DEF Row, IsDb
<1>4. PICK n \in 1..Len(ops) : ops[n].id = a
  BY <1>1, <1>3 DEF After
<1>5. PICK k \in 1..Len(ops) : ops[k].id = b
  BY <1>1, <1>3 DEF After
<1>6. /\ ops[n].after = r[a] /\ ops[n].before = Row(db, a)
      /\ ops[k].after = r[b] /\ ops[k].before = db[b]
  BY <1>3, <1>4, <1>5 DEF After, Document
<1>7. ops[n].action # "delete" /\ ops[k].action # "delete"
  BY <1>3, <1>6 DEF Document
<1>8. n <= k
  <2>1. SUFFICES ASSUME k < n PROVE FALSE
    BY <1>2
  <2>2. KeyBefore(b[2], a[2])
    BY <1>1, <1>4, <1>5, <1>7, <2>1 DEF KeysRise
  <2>3. IdFits(a) /\ IdFits(b)
    BY <1>4, <1>5
  <2>4. QED
    BY <1>1, <2>2, <2>3, KeyOrder
<1>9. PICK d : After(d, db, ops, n - 1) /\ Accepts(d, ops[n])
  BY DEF Accepted
<1>10. Row(d, b) = db[b]
  BY <1>5, <1>6, <1>8, <1>9, RowMeanwhile
<1>11. QED
  BY <1>1, <1>3, <1>4, <1>6, <1>7, <1>9, <1>10, WrittenApart

-----------------------------------------------------------------------------
(***************************************************************************)
(* Plans: what the mutations of a candidate say of each row, and in which  *)
(* order.                                                                  *)
(***************************************************************************)
\* A candidate as its author can write it down.
CandidateFits(c) ==
  /\ c.candidateId \in Nat \ {0}
  /\ c.operation \in {"daily", "correction", "gazette"}
  /\ c.operation # "gazette" => c.materials \in Seq(Materials) /\ c.rubric \in {1, 2}
  /\ c.operation = "gazette" => c.assets \in SUBSET Nat /\ IsFiniteSet(c.assets)

\* The mutations that a candidate wants, the restated rows apart.
Wanted(db, c) ==
  IF c.operation = "gazette" THEN GazetteMutations(db, c)
  ELSE Dropped(db, c) \cup CardMutations(db, c) \cup IssueRowMutations(db, c)
       \cup LinkMutations(db, c) \cup AttemptMutations(db, c)
       \cup SnapshotMutations(db, c) \cup QueueMutations(db, c)

\* The place of a card in its issue.
PlaceOf(c, m) == CHOOSE n \in DOMAIN c.materials : c.materials[n] = m

\* The row that a candidate wants, or none.
RowFor(db, c, id) ==
  CASE c.operation = "gazette" /\ id[1] = "gazettes" ->
         [content |-> c.assets, at |-> c.candidateId]
    [] c.operation = "gazette" /\ id[1] # "gazettes" ->
         IF id[2][2] \in c.assets THEN [bytes |-> id[2][2]] ELSE Absent
    [] c.operation # "gazette" /\ id[1] = "materials" ->
         [created |-> Created(db, id, c), at |-> c.candidateId]
    [] c.operation # "gazette" /\ id[1] = "issues" ->
         [issue_date |-> id[2][1], status |-> "published", at |-> c.candidateId]
    [] c.operation # "gazette" /\ id[1] = "issue_materials" ->
         IF id[2][2] \in ToSet(c.materials)
         THEN [sort_order |-> PlaceOf(c, id[2][2]) - 1, created |-> Created(db, id, c),
               at |-> c.candidateId]
         ELSE Absent
    [] c.operation # "gazette" /\ id[1] = "issue_analysis" ->
         [cites |-> c.cites, at |-> c.candidateId]
    [] c.operation # "gazette" /\ id[1] = "material_rubrics" ->
         IF id[2][2] \in ToSet(c.materials) /\ id[2][3] = c.rubric
         THEN [origin |-> "candidate"] ELSE Absent
    [] c.operation # "gazette" /\ id[1] = "llm_attempts" -> [issue |-> IssueFor[c.operation]]
    [] c.operation # "gazette" /\ id[1] = "source_snapshots" -> [at |-> c.candidateId]
    [] c.operation # "gazette" /\ id[1] = "editorial_queue" -> Absent

\* The action that writes or deletes such a row.
ActionFor(db, c, id) ==
  IF RowFor(db, c, id) = Absent THEN "delete"
  ELSE IF id[1] \in {"source_snapshots", "llm_attempts"} THEN "insert" ELSE "upsert"

\* The tables that a candidate may delete from and write to.
DeletedTables ==
  {"material_rubrics", "issue_materials", "gazette_assets", "editorial_queue", "issue_analysis"}
WrittenTables ==
  {"source_snapshots", "materials", "issues", "issue_materials", "issue_analysis",
   "llm_attempts", "material_rubrics", "editorial_queue", "gazettes", "gazette_assets"}

\* What a candidate says of a row.
Says(db, c, m) ==
  /\ IdFits(m.id) /\ About(m.id, c)
  /\ m = MutationOf(db, ActionFor(db, c, m.id), m.id, RowFor(db, c, m.id))
  /\ IF RowFor(db, c, m.id) = Absent THEN m.id \in DOMAIN db /\ m.id[1] \in DeletedTables
                                     ELSE m.id[1] \in WrittenTables

\* No row that is written is the absent one.
LEMMA RowsArePresent ==
  ASSUME NEW x, NEW y, NEW z
  PROVE  /\ [content |-> x, at |-> y] # Absent
         /\ [bytes |-> x] # Absent
         /\ [created |-> x, at |-> y] # Absent
         /\ [issue_date |-> x, status |-> y, at |-> z] # Absent
         /\ [sort_order |-> x, created |-> y, at |-> z] # Absent
         /\ [cites |-> x, at |-> y] # Absent
         /\ [origin |-> x] # Absent
         /\ [issue |-> x] # Absent
         /\ [at |-> x] # Absent
         /\ [sequence |-> x, base |-> y, candidate |-> y, after |-> z] # Absent
BY DEF Absent

\* The cards of a candidate are materials, each with a place.
LEMMA CardsAreMaterials ==
  ASSUME NEW c, CandidateFits(c), c.operation # "gazette"
  PROVE  /\ ToSet(c.materials) \subseteq Nat /\ IsFiniteSet(ToSet(c.materials))
         /\ \A m \in ToSet(c.materials) :
              PlaceOf(c, m) \in DOMAIN c.materials /\ c.materials[PlaceOf(c, m)] = m
<1>1. c.materials \in Seq(Materials) /\ Materials \subseteq Nat
  BY DerivationAssumption DEF CandidateFits
<1>2. /\ DOMAIN c.materials = 1..Len(c.materials) /\ Len(c.materials) \in Nat
      /\ \A n \in DOMAIN c.materials : c.materials[n] \in Materials
  BY <1>1
<1>3. ToSet(c.materials) = {c.materials[n] : n \in DOMAIN c.materials}
  BY DEF ToSet
<1> DEFINE D == DOMAIN c.materials
           T == ToSet(c.materials)
           f == [n \in D |-> c.materials[n]]
<1>4. f \in [D -> T] /\ \A m \in T : \E n \in D : f[n] = m
  BY <1>3
<1> HIDE DEF f, D, T
<1>5. f \in Surjection(D, T)
  BY <1>4, Fun_IsSurj
<1>6. IsFiniteSet(D)
  BY <1>2, FS_Interval DEF D
<1>7. IsFiniteSet(T)
  BY <1>5, <1>6, FS_Surjection
<1>8. \A m \in T : PlaceOf(c, m) \in DOMAIN c.materials /\ c.materials[PlaceOf(c, m)] = m
  BY <1>3 DEF PlaceOf, T
<1>9. T \subseteq Nat
  BY <1>1, <1>2, <1>3 DEF T
<1>10. QED
  BY <1>7, <1>8, <1>9 DEF T

\* The issue of a candidate is the day's or the published one.
LEMMA IssueNumber ==
  ASSUME NEW c, CandidateFits(c), c.operation # "gazette"
  PROVE  IssueFor[c.operation] \in {1, 2}
BY DEF CandidateFits, IssueFor

\* What a mutation says when it writes the row that is wanted.
LEMMA SaysWritten ==
  ASSUME NEW db, NEW c, NEW id, IdFits(id), About(id, c), id[1] \in WrittenTables,
         RowFor(db, c, id) # Absent, NEW action, action = ActionFor(db, c, id),
         NEW row, row = RowFor(db, c, id), NEW m, m = MutationOf(db, action, id, row)
  PROVE  Says(db, c, m)
<1>1. m.id = id
  BY DEF MutationOf
<1>2. QED
  BY <1>1 DEF Says

\* A mutation that deletes says what the candidate wants.
LEMMA SaysDeleted ==
  ASSUME NEW db, NEW c, NEW id, IdFits(id), About(id, c), id[1] \in DeletedTables,
         id \in DOMAIN db, RowFor(db, c, id) = Absent, NEW m, m = DeleteOf(db, id)
  PROVE  Says(db, c, m)
<1>1. m.id = id /\ m = MutationOf(db, "delete", id, Absent)
  BY DEF MutationOf, DeleteOf
<1>2. ActionFor(db, c, id) = "delete"
  BY DEF ActionFor
<1>3. QED
  BY <1>1, <1>2 DEF Says

\* So do the mutations of the cards,
LEMMA CardsSay ==
  ASSUME NEW db, NEW c, CandidateFits(c), c.operation # "gazette", NEW m \in CardMutations(db, c)
  PROVE  Says(db, c, m)
<1>1. PICK k \in ToSet(c.materials) :
        m = MutationOf(db, "upsert", <<"materials", <<k>>>>,
              [created |-> Created(db, <<"materials", <<k>>>>, c), at |-> c.candidateId])
  BY DEF CardMutations
<1> DEFINE id == <<"materials", <<k>>>>
<1>2. id[1] = "materials" /\ id[2] = <<k>> /\ id[2][1] = k /\ k \in Nat
  BY CardsAreMaterials
<1>3. IdFits(id)
  BY <1>2 DEF IdFits, OneKey
<1>4. About(id, c)
  BY <1>2 DEF About
<1> HIDE DEF id
<1>5. RowFor(db, c, id) = [created |-> Created(db, id, c), at |-> c.candidateId]
  BY <1>2 DEF RowFor
<1>6. RowFor(db, c, id) # Absent
  BY <1>5, RowsArePresent
<1>7. ActionFor(db, c, id) = "upsert" /\ id[1] \in WrittenTables
  BY <1>2, <1>6 DEF ActionFor, WrittenTables
<1>8. m = MutationOf(db, "upsert", id, [created |-> Created(db, id, c), at |-> c.candidateId])
  BY <1>1 DEF id
<1>9. QED
  BY <1>3, <1>4, <1>5, <1>6, <1>7, <1>8, SaysWritten

\* of the issue and its analysis,
LEMMA IssueRowsSay ==
  ASSUME NEW db, NEW c, CandidateFits(c), c.operation # "gazette", NEW m \in IssueRowMutations(db, c)
  PROVE  Says(db, c, m)
<1> DEFINE i == IssueFor[c.operation]
           id == <<"issues", <<i>>>>
           an == <<"issue_analysis", <<i>>>>
<1>1. i \in Nat
  BY IssueNumber
<1>2. \/ m = MutationOf(db, "upsert", id, [issue_date |-> i, status |-> "published", at |-> c.candidateId])
      \/ m = MutationOf(db, "upsert", an, [cites |-> c.cites, at |-> c.candidateId])
  BY DEF IssueRowMutations
<1>3. id[1] = "issues" /\ id[2] = <<i>> /\ id[2][1] = i /\ an[1] = "issue_analysis" /\ an[2] = <<i>> /\ an[2][1] = i
  OBVIOUS
<1>4. IdFits(id) /\ IdFits(an)
  BY <1>1 DEF IdFits, OneKey
<1>5. About(id, c) /\ About(an, c)
  BY <1>3 DEF About
<1> HIDE DEF id, an, i
<1>6. /\ RowFor(db, c, id) = [issue_date |-> i, status |-> "published", at |-> c.candidateId]
      /\ RowFor(db, c, an) = [cites |-> c.cites, at |-> c.candidateId]
  BY <1>3 DEF RowFor
<1>7. RowFor(db, c, id) # Absent /\ RowFor(db, c, an) # Absent
  BY <1>6, RowsArePresent
<1>8. /\ ActionFor(db, c, id) = "upsert" /\ id[1] \in WrittenTables
      /\ ActionFor(db, c, an) = "upsert" /\ an[1] \in WrittenTables
  BY <1>3, <1>7 DEF ActionFor, WrittenTables
<1>9. QED
  BY <1>2, <1>4, <1>5, <1>6, <1>7, <1>8, SaysWritten

\* of the links and rubrics,
LEMMA LinksSay ==
  ASSUME NEW db, NEW c, Sound(db), CandidateFits(c), c.operation # "gazette", NEW m \in LinkMutations(db, c)
  PROVE  Says(db, c, m)
<1> DEFINE i == IssueFor[c.operation]
           cards == ToSet(c.materials)
<1>1. i \in Nat /\ cards \subseteq Nat /\ c.rubric \in Nat
  BY IssueNumber, CardsAreMaterials DEF CandidateFits
<1>2. CASE \E k \in cards :
             m = MutationOf(db, "upsert", LinkRow(i, k),
                   [sort_order |-> PlaceOf(c, k) - 1, created |-> Created(db, LinkRow(i, k), c),
                    at |-> c.candidateId])
  <2>1. PICK k \in cards :
             m = MutationOf(db, "upsert", LinkRow(i, k),
                   [sort_order |-> PlaceOf(c, k) - 1, created |-> Created(db, LinkRow(i, k), c),
                    at |-> c.candidateId])
    BY <1>2
  <2> DEFINE id == LinkRow(i, k)
  <2>2. id[1] = "issue_materials" /\ id[2] = <<i, k>> /\ id[2][1] = i /\ id[2][2] = k
    BY DEF LinkRow
  <2>3. IdFits(id)
    BY <1>1 DEF IdFits, TwoKeys, LinkRow
  <2>4. About(id, c)
    BY <2>2 DEF About
  <2> HIDE DEF id
  <2>5. RowFor(db, c, id) = [sort_order |-> PlaceOf(c, k) - 1, created |-> Created(db, id, c),
                             at |-> c.candidateId]
    BY <2>2 DEF RowFor
  <2>6. RowFor(db, c, id) # Absent
    BY <2>5, RowsArePresent
  <2>7. ActionFor(db, c, id) = "upsert" /\ id[1] \in WrittenTables
    BY <2>2, <2>6 DEF ActionFor, WrittenTables
  <2>8. m = MutationOf(db, "upsert", id, [sort_order |-> PlaceOf(c, k) - 1,
                                          created |-> Created(db, id, c), at |-> c.candidateId])
    BY <2>1 DEF id
  <2>9. QED
    BY <2>3, <2>4, <2>5, <2>6, <2>7, <2>8, SaysWritten
<1>3. CASE \E k \in cards : m = MutationOf(db, "upsert", Rubric(i, k, c.rubric), [origin |-> "candidate"])
  <2>1. PICK k \in cards : m = MutationOf(db, "upsert", Rubric(i, k, c.rubric), [origin |-> "candidate"])
    BY <1>3
  <2> DEFINE id == Rubric(i, k, c.rubric)
  <2>2. /\ id[1] = "material_rubrics" /\ id[2] = <<i, k, c.rubric>>
        /\ id[2][1] = i /\ id[2][2] = k /\ id[2][3] = c.rubric
    BY DEF Rubric
  <2>3. IdFits(id)
    BY <1>1 DEF IdFits, Rubric
  <2>4. About(id, c)
    BY <2>2 DEF About
  <2> HIDE DEF id
  <2>5. RowFor(db, c, id) = [origin |-> "candidate"]
    BY <2>2 DEF RowFor
  <2>6. RowFor(db, c, id) # Absent
    BY <2>5, RowsArePresent
  <2>7. ActionFor(db, c, id) = "upsert" /\ id[1] \in WrittenTables
    BY <2>2, <2>6 DEF ActionFor, WrittenTables
  <2>8. m = MutationOf(db, "upsert", id, [origin |-> "candidate"])
    BY <2>1 DEF id
  <2>9. QED
    BY <2>3, <2>4, <2>5, <2>6, <2>7, <2>8, SaysWritten
<1>4. CASE \E id \in RowsOf(db, "material_rubrics") :
             id[2][1] = i /\ id[2][2] \in cards /\ id[2][3] # c.rubric /\ m = DeleteOf(db, id)
  <2>1. PICK id \in RowsOf(db, "material_rubrics") :
             id[2][1] = i /\ id[2][2] \in cards /\ id[2][3] # c.rubric /\ m = DeleteOf(db, id)
    BY <1>4
  <2>2. id \in DOMAIN db /\ id[1] = "material_rubrics" /\ IdFits(id)
    BY <2>1 DEF RowsOf, Sound
  <2>3. About(id, c)
    BY <2>1, <2>2 DEF About
  <2>4. RowFor(db, c, id) = Absent
    BY <2>1, <2>2 DEF RowFor
  <2>5. id[1] \in DeletedTables
    BY <2>2 DEF DeletedTables
  <2>6. QED
    BY <2>1, <2>2, <2>3, <2>4, <2>5, SaysDeleted
<1>5. QED
  BY <1>2, <1>3, <1>4 DEF LinkMutations, PlaceOf

\* of the cards that a correction drops,
LEMMA DroppedSay ==
  ASSUME NEW db, NEW c, Sound(db), CandidateFits(c), NEW m \in Dropped(db, c)
  PROVE  Says(db, c, m)
<1> DEFINE i == IssueFor[c.operation]
           cards == ToSet(c.materials)
           gone == Cards(db, i) \ cards
<1>1. /\ c.operation = "correction"
      /\ \/ \E id \in RowsOf(db, "material_rubrics") :
              id[2][1] = i /\ id[2][2] \in gone /\ m = DeleteOf(db, id)
         \/ \E k \in gone : m = DeleteOf(db, LinkRow(i, k))
  BY DEF Dropped
<1>2. CASE \E id \in RowsOf(db, "material_rubrics") :
              id[2][1] = i /\ id[2][2] \in gone /\ m = DeleteOf(db, id)
  <2>1. PICK id \in RowsOf(db, "material_rubrics") :
              id[2][1] = i /\ id[2][2] \in gone /\ m = DeleteOf(db, id)
    BY <1>2
  <2>2. id \in DOMAIN db /\ id[1] = "material_rubrics" /\ IdFits(id)
    BY <2>1 DEF RowsOf, Sound
  <2>3. About(id, c)
    BY <1>1, <2>1, <2>2 DEF About
  <2>4. RowFor(db, c, id) = Absent
    BY <1>1, <2>1, <2>2 DEF RowFor
  <2>5. id[1] \in DeletedTables
    BY <2>2 DEF DeletedTables
  <2>6. QED
    BY <2>1, <2>2, <2>3, <2>4, <2>5, SaysDeleted
<1>3. CASE \E k \in gone : m = DeleteOf(db, LinkRow(i, k))
  <2>1. PICK k \in gone : m = DeleteOf(db, LinkRow(i, k))
    BY <1>3
  <2>2. PICK id \in LinksOf(db, i) : k = id[2][2]
    BY <2>1 DEF Cards
  <2>3. id \in DOMAIN db /\ id[1] = "issue_materials" /\ IdFits(id) /\ id[2][1] = i
    BY <2>2 DEF LinksOf, RowsOf, Sound
  <2>4. id = LinkRow(i, k)
    BY <2>2, <2>3, PartsOfId DEF LinkRow, TwoKeys
  <2>5. About(id, c)
    BY <1>1, <2>3 DEF About
  <2>6. RowFor(db, c, id) = Absent
    BY <1>1, <2>1, <2>2, <2>3 DEF RowFor
  <2>7. id[1] \in DeletedTables
    BY <2>3 DEF DeletedTables
  <2>8. QED
    BY <2>1, <2>3, <2>4, <2>5, <2>6, <2>7, SaysDeleted
<1>4. QED
  BY <1>1, <1>2, <1>3

\* of the attempt, the snapshot and the queue,
LEMMA RestSay ==
  ASSUME NEW db, NEW c, Sound(db), CandidateFits(c), c.operation # "gazette",
         NEW m \in AttemptMutations(db, c) \cup SnapshotMutations(db, c) \cup QueueMutations(db, c)
  PROVE  Says(db, c, m)
<1>1. c.candidateId \in Nat
  BY DEF CandidateFits
<1>2. CASE m \in AttemptMutations(db, c)
  <2> DEFINE id == <<"llm_attempts", <<c.candidateId>>>>
  <2>1. m = MutationOf(db, "insert", id, [issue |-> IssueFor[c.operation]])
    BY <1>2 DEF AttemptMutations
  <2>2. id[1] = "llm_attempts" /\ id[2] = <<c.candidateId>> /\ id[2][1] = c.candidateId
    OBVIOUS
  <2>3. IdFits(id)
    BY <1>1 DEF IdFits, OneKey
  <2>4. About(id, c)
    BY <2>2 DEF About
  <2> HIDE DEF id
  <2>5. RowFor(db, c, id) = [issue |-> IssueFor[c.operation]]
    BY <2>2 DEF RowFor
  <2>6. RowFor(db, c, id) # Absent
    BY <2>5, RowsArePresent
  <2>7. ActionFor(db, c, id) = "insert" /\ id[1] \in WrittenTables
    BY <2>2, <2>6 DEF ActionFor, WrittenTables
  <2>8. QED
    BY <2>1, <2>3, <2>4, <2>5, <2>6, <2>7, SaysWritten
<1>3. CASE m \in SnapshotMutations(db, c)
  <2> DEFINE id == <<"source_snapshots", <<c.candidateId>>>>
  <2>1. m = MutationOf(db, "insert", id, [at |-> c.candidateId])
    BY <1>3 DEF SnapshotMutations
  <2>2. id[1] = "source_snapshots" /\ id[2] = <<c.candidateId>> /\ id[2][1] = c.candidateId
    OBVIOUS
  <2>3. IdFits(id)
    BY <1>1 DEF IdFits, OneKey
  <2>4. About(id, c)
    BY <2>2 DEF About
  <2> HIDE DEF id
  <2>5. RowFor(db, c, id) = [at |-> c.candidateId]
    BY <2>2 DEF RowFor
  <2>6. RowFor(db, c, id) # Absent
    BY <2>5, RowsArePresent
  <2>7. ActionFor(db, c, id) = "insert" /\ id[1] \in WrittenTables
    BY <2>2, <2>6 DEF ActionFor, WrittenTables
  <2>8. QED
    BY <2>1, <2>3, <2>4, <2>5, <2>6, <2>7, SaysWritten
<1>4. CASE m \in QueueMutations(db, c)
  <2> DEFINE id == <<"editorial_queue", <<1>>>>
  <2>1. m = DeleteOf(db, id) /\ c.operation = "daily" /\ id \in DOMAIN db
    BY <1>4 DEF QueueMutations
  <2>2. id[1] = "editorial_queue" /\ id[2] = <<1>>
    OBVIOUS
  <2>3. IdFits(id)
    BY DEF IdFits, OneKey
  <2>4. About(id, c)
    BY <2>1, <2>2 DEF About
  <2> HIDE DEF id
  <2>5. RowFor(db, c, id) = Absent
    BY <2>2 DEF RowFor
  <2>6. id[1] \in DeletedTables
    BY <2>2 DEF DeletedTables
  <2>7. QED
    BY <2>1, <2>3, <2>4, <2>5, <2>6, SaysDeleted
<1>5. QED
  BY <1>2, <1>3, <1>4

\* and of a gazette.
LEMMA GazettesSay ==
  ASSUME NEW db, NEW c, Sound(db), CandidateFits(c), c.operation = "gazette",
         NEW m \in GazetteMutations(db, c)
  PROVE  Says(db, c, m)
<1>1. CASE \E a \in RowsOf(db, "gazette_assets") : a[2][2] \notin c.assets /\ m = DeleteOf(db, a)
  <2>1. PICK id \in RowsOf(db, "gazette_assets") : id[2][2] \notin c.assets /\ m = DeleteOf(db, id)
    BY <1>1
  <2>2. id \in DOMAIN db /\ id[1] = "gazette_assets" /\ IdFits(id)
    BY <2>1 DEF RowsOf, Sound
  <2>3. About(id, c)
    BY <2>2 DEF About
  <2>4. RowFor(db, c, id) = Absent
    BY <2>1, <2>2 DEF RowFor
  <2>5. id[1] \in DeletedTables
    BY <2>2 DEF DeletedTables
  <2>6. QED
    BY <2>1, <2>2, <2>3, <2>4, <2>5, SaysDeleted
<1>2. CASE m = MutationOf(db, "upsert", <<"gazettes", <<1>>>>, [content |-> c.assets, at |-> c.candidateId])
  <2> DEFINE id == <<"gazettes", <<1>>>>
  <2>1. id[1] = "gazettes" /\ IdFits(id)
    BY DEF IdFits, OneKey
  <2>2. About(id, c)
    BY <2>1 DEF About
  <2>3. m = MutationOf(db, "upsert", id, [content |-> c.assets, at |-> c.candidateId])
    BY <1>2
  <2> HIDE DEF id
  <2>4. RowFor(db, c, id) = [content |-> c.assets, at |-> c.candidateId]
    BY <2>1 DEF RowFor
  <2>5. RowFor(db, c, id) # Absent
    BY <2>4, RowsArePresent
  <2>6. ActionFor(db, c, id) = "upsert" /\ id[1] \in WrittenTables
    BY <2>1, <2>5 DEF ActionFor, WrittenTables
  <2>7. QED
    BY <2>1, <2>2, <2>3, <2>4, <2>5, <2>6, SaysWritten
<1>3. CASE \E a \in c.assets : m = MutationOf(db, "upsert", <<"gazette_assets", <<1, a>>>>, [bytes |-> a])
  <2>1. PICK a \in c.assets : m = MutationOf(db, "upsert", <<"gazette_assets", <<1, a>>>>, [bytes |-> a])
    BY <1>3
  <2> DEFINE id == <<"gazette_assets", <<1, a>>>>
  <2>2. a \in Nat /\ id[1] = "gazette_assets" /\ id[2] = <<1, a>> /\ id[2][2] = a
    BY DEF CandidateFits
  <2>3. IdFits(id)
    BY <2>2 DEF IdFits, TwoKeys
  <2>4. About(id, c)
    BY <2>2 DEF About
  <2>5. m = MutationOf(db, "upsert", id, [bytes |-> a])
    BY <2>1
  <2> HIDE DEF id
  <2>6. RowFor(db, c, id) = [bytes |-> a]
    BY <2>2 DEF RowFor
  <2>7. RowFor(db, c, id) # Absent
    BY <2>6, RowsArePresent
  <2>8. ActionFor(db, c, id) = "upsert" /\ id[1] \in WrittenTables
    BY <2>2, <2>7 DEF ActionFor, WrittenTables
  <2>9. QED
    BY <2>3, <2>4, <2>5, <2>6, <2>7, <2>8, SaysWritten
<1>4. QED
  BY <1>1, <1>2, <1>3 DEF GazetteMutations

\* Every mutation of a candidate says what the candidate wants of one row.
LEMMA WantedSays ==
  ASSUME NEW db, NEW c, Sound(db), CandidateFits(c), NEW m \in Wanted(db, c)
  PROVE  Says(db, c, m)
BY DroppedSay, CardsSay, IssueRowsSay, LinksSay, RestSay, GazettesSay DEF Wanted

\* The mutations of a plan.
PlanSet(db, c) == Wanted(db, c) \cup Restated(db, Wanted(db, c))

\* A plan is the ordered set of its mutations.
LEMMA PlanIsOrdered ==
  ASSUME NEW db, NEW c
  PROVE  PlanOf(db, c) = Ordered(PlanSet(db, c), Priority)
BY DEF PlanOf, PlanSet, Wanted

\* The values of a function on a finite set are finitely many.
LEMMA FiniteImage ==
  ASSUME NEW S, IsFiniteSet(S), NEW f, DOMAIN f = S
  PROVE  IsFiniteSet({f[x] : x \in S})
<1> DEFINE T == {f[x] : x \in S}
           g == [x \in S |-> f[x]]
<1>1. g \in [S -> T] /\ \A y \in T : \E x \in S : g[x] = y
  OBVIOUS
<1> HIDE DEF g, T
<1>2. g \in Surjection(S, T)
  BY <1>1, Fun_IsSurj
<1>3. IsFiniteSet(T)
  BY <1>2, FS_Surjection
<1>4. QED
  BY <1>3 DEF T

\* Four things are finitely many.
LEMMA FourAreFinite ==
  ASSUME NEW a, NEW b, NEW c, NEW d
  PROVE  IsFiniteSet({a, b, c, d})
<1>1. IsFiniteSet({a}) /\ IsFiniteSet({b}) /\ IsFiniteSet({c}) /\ IsFiniteSet({d})
  BY FS_Singleton
<1>2. IsFiniteSet({a} \cup {b} \cup {c} \cup {d})
  BY <1>1, FS_Union
<1>3. {a, b, c, d} = {a} \cup {b} \cup {c} \cup {d}
  OBVIOUS
<1>4. QED
  BY <1>2, <1>3

\* There are finitely many rows to delete.
LEMMA FiniteDeletes ==
  ASSUME NEW db, Sound(db)
  PROVE  IsFiniteSet({DeleteOf(db, id) : id \in DOMAIN db})
<1> DEFINE f == [id \in DOMAIN db |-> DeleteOf(db, id)]
<1>1. IsFiniteSet(DOMAIN db)
  BY DEF Sound
<1>2. DOMAIN f = DOMAIN db /\ {DeleteOf(db, id) : id \in DOMAIN db} = {f[id] : id \in DOMAIN db}
  OBVIOUS
<1> HIDE DEF f
<1>3. QED
  BY <1>1, <1>2, FiniteImage

\* A mutation that deletes is of a row that is there.
LEMMA DeletesAreOfRows ==
  ASSUME NEW db, NEW c, NEW m, Says(db, c, m), m.after = Absent
  PROVE  m \in {DeleteOf(db, id) : id \in DOMAIN db}
<1>1. m = MutationOf(db, ActionFor(db, c, m.id), m.id, RowFor(db, c, m.id))
  BY DEF Says
<1>2. m.after = RowFor(db, c, m.id)
  BY <1>1 DEF MutationOf
<1>3. m.id \in DOMAIN db /\ ActionFor(db, c, m.id) = "delete"
  BY <1>2 DEF Says, ActionFor
<1>4. m = DeleteOf(db, m.id)
  BY <1>1, <1>2, <1>3 DEF DeleteOf
<1>5. QED
  BY <1>3, <1>4

\* A candidate wants finitely many mutations.
LEMMA WantedIsFinite ==
  ASSUME NEW db, NEW c, Sound(db), CandidateFits(c)
  PROVE  IsFiniteSet(Wanted(db, c))
<1> DEFINE A == {DeleteOf(db, id) : id \in DOMAIN db}
           i == IssueFor[c.operation]
           cards == ToSet(c.materials)
           B == [k \in cards |-> MutationOf(db, "upsert", <<"materials", <<k>>>>,
                   [created |-> Created(db, <<"materials", <<k>>>>, c), at |-> c.candidateId])]
           D == [k \in cards |-> MutationOf(db, "upsert", LinkRow(i, k),
                   [sort_order |-> PlaceOf(c, k) - 1, created |-> Created(db, LinkRow(i, k), c),
                    at |-> c.candidateId])]
           E == [k \in cards |-> MutationOf(db, "upsert", Rubric(i, k, c.rubric), [origin |-> "candidate"])]
           F == {MutationOf(db, "upsert", <<"issues", <<i>>>>,
                   [issue_date |-> i, status |-> "published", at |-> c.candidateId]),
                 MutationOf(db, "upsert", <<"issue_analysis", <<i>>>>, [cites |-> c.cites, at |-> c.candidateId]),
                 MutationOf(db, "insert", <<"llm_attempts", <<c.candidateId>>>>, [issue |-> i]),
                 MutationOf(db, "insert", <<"source_snapshots", <<c.candidateId>>>>, [at |-> c.candidateId])}
           G == [a \in c.assets |-> MutationOf(db, "upsert", <<"gazette_assets", <<1, a>>>>, [bytes |-> a])]
           H == MutationOf(db, "upsert", <<"gazettes", <<1>>>>, [content |-> c.assets, at |-> c.candidateId])
<1>1. IsFiniteSet(A)
  BY FiniteDeletes
<1>2. CASE c.operation # "gazette"
  <2>1. IsFiniteSet(cards)
    BY <1>2, CardsAreMaterials
  <2>2. \A m \in Dropped(db, c) \cup QueueMutations(db, c) : m.after = Absent
    <3>1. \A id : DeleteOf(db, id).after = Absent
      BY DEF DeleteOf, MutationOf
    <3>2. \A m \in Dropped(db, c) : \E id : m = DeleteOf(db, id)
      BY DEF Dropped
    <3>3. \A m \in QueueMutations(db, c) : \E id : m = DeleteOf(db, id)
      BY DEF QueueMutations
    <3>4. QED
      BY <3>1, <3>2, <3>3
  <2>3. Dropped(db, c) \subseteq A /\ QueueMutations(db, c) \subseteq A
    BY <1>2, <2>2, DroppedSay, RestSay, DeletesAreOfRows
  <2>4. CardMutations(db, c) \subseteq {B[k] : k \in cards}
    BY DEF CardMutations
  <2>5. LinkMutations(db, c) \subseteq A \cup {D[k] : k \in cards} \cup {E[k] : k \in cards}
    BY DEF LinkMutations, RowsOf, PlaceOf
  <2>6. IssueRowMutations(db, c) \cup AttemptMutations(db, c) \cup SnapshotMutations(db, c) \subseteq F
    BY DEF IssueRowMutations, AttemptMutations, SnapshotMutations
  <2>7. IsFiniteSet(F)
    BY FourAreFinite
  <2>8. DOMAIN B = cards /\ DOMAIN D = cards /\ DOMAIN E = cards
    OBVIOUS
  <2> HIDE DEF A, B, D, E, F, cards
  <2>9. IsFiniteSet({B[k] : k \in cards}) /\ IsFiniteSet({D[k] : k \in cards}) /\ IsFiniteSet({E[k] : k \in cards})
    BY <2>1, <2>8, FiniteImage
  <2> DEFINE all == A \cup {B[k] : k \in cards} \cup {D[k] : k \in cards} \cup {E[k] : k \in cards} \cup F
  <2>10. IsFiniteSet(all)
    BY <1>1, <2>7, <2>9, FS_Union
  <2>11. Wanted(db, c) \subseteq all
    BY <1>2, <2>3, <2>4, <2>5, <2>6 DEF Wanted
  <2>12. QED
    BY <2>10, <2>11, FS_Subset
<1>3. CASE c.operation = "gazette"
  <2>1. IsFiniteSet(c.assets)
    BY <1>3 DEF CandidateFits
  <2>2. GazetteMutations(db, c) \subseteq A \cup {G[a] : a \in c.assets} \cup {H}
    BY DEF GazetteMutations, RowsOf
  <2>3. DOMAIN G = c.assets
    OBVIOUS
  <2> HIDE DEF A, G, H
  <2>4. IsFiniteSet({G[a] : a \in c.assets})
    BY <2>1, <2>3, FiniteImage
  <2>5. IsFiniteSet(A \cup {G[a] : a \in c.assets} \cup {H})
    BY <1>1, <2>4, FS_Union, FS_AddElement
  <2>6. QED
    BY <1>3, <2>2, <2>5, FS_Subset DEF Wanted
<1>4. QED
  BY <1>2, <1>3

\* What is written down again is a row of the database, as it is, that the candidate
\* does not write.
LEMMA RestatedSays ==
  ASSUME NEW db, Sound(db), NEW mutations, NEW m \in Restated(db, mutations)
  PROVE  /\ m = MutationOf(db, "upsert", m.id, db[m.id])
         /\ m.id \in DOMAIN db /\ IdFits(m.id)
         /\ m.id[1] \in WrittenTables
         /\ \A n \in mutations : n.id # m.id
<1> DEFINE drafts == {i \in RowsOf(db, "issues") : db[i].status = "draft"}
           numbers == {i[2][1] : i \in drafts}
           links == UNION {LinksOf(db, i) : i \in numbers}
           rows == RowsOf(db, "editorial_queue") \cup drafts \cup links
                   \cup {r \in RowsOf(db, "material_rubrics") : r[2][1] \in numbers}
                   \cup {<<"materials", <<l[2][2]>>>> : l \in links}
<1>1. PICK id \in rows \ {n.id : n \in mutations} : m = MutationOf(db, "upsert", id, db[id])
  BY DEF Restated
<1>2. m.id = id
  BY <1>1 DEF MutationOf
<1>3. \A l \in links : l \in DOMAIN db /\ l[1] = "issue_materials"
  BY DEF LinksOf, RowsOf
<1>4. /\ id \in DOMAIN db
      /\ id[1] \in {"editorial_queue", "issues", "issue_materials", "material_rubrics", "materials"}
  <2>1. CASE id \in RowsOf(db, "editorial_queue") \cup drafts
                   \cup {r \in RowsOf(db, "material_rubrics") : r[2][1] \in numbers}
    BY <2>1 DEF RowsOf
  <2>2. CASE id \in links
    BY <1>3, <2>2
  <2>3. CASE id \in {<<"materials", <<l[2][2]>>>> : l \in links}
    <3>1. PICK l \in links : id = <<"materials", <<l[2][2]>>>>
      BY <2>3
    <3>2. id \in Parents(l, db[l])
      BY <1>3, <3>1 DEF Parents
    <3>3. id \in DOMAIN db
      BY <1>3, <3>2 DEF Sound, ReferencesHold
    <3>4. QED
      BY <3>1, <3>3
  <2>4. QED
    BY <1>1, <2>1, <2>2, <2>3
<1>5. id[1] \in WrittenTables /\ IdFits(id)
  BY <1>4 DEF WrittenTables, Sound
<1>6. QED
  BY <1>1, <1>2, <1>4, <1>5

\* A plan has one mutation for each row, of the tables it may write.
LEMMA PlanSetFits ==
  ASSUME NEW db, NEW c, Sound(db), CandidateFits(c)
  PROVE  PlanFits(PlanSet(db, c))
<1> DEFINE W == Wanted(db, c)
           R == Restated(db, W)
<1>1. \A m \in W : Says(db, c, m)
  BY WantedSays
<1>2. \A m \in R : /\ m = MutationOf(db, "upsert", m.id, db[m.id])
                   /\ m.id \in DOMAIN db /\ IdFits(m.id)
                   /\ m.id[1] \in WrittenTables
                   /\ \A n \in W : n.id # m.id
  BY RestatedSays
<1>3. IsFiniteSet(W)
  BY WantedIsFinite
<1> HIDE DEF W, R
<1>4. IsFiniteSet(R)
  <2>1. IsFiniteSet(DOMAIN db)
    BY DEF Sound
  <2>2. \A m, n \in R : m.id = n.id => m = n
    BY <1>2
  <2>3. QED
    BY <1>2, <2>1, <2>2, FiniteByIds
<1>5. \A m, n \in W \cup R : m.id = n.id => m = n
  <2>1. \A m, n \in W : m.id = n.id => m = n
    BY <1>1 DEF Says
  <2>2. \A m, n \in R : m.id = n.id => m = n
    BY <1>2
  <2>3. QED
    BY <1>2, <2>1, <2>2
<1>6. \A m \in W \cup R : IdFits(m.id)
  BY <1>1, <1>2 DEF Says
<1>7. IsFiniteSet(W \cup R)
  BY <1>3, <1>4, FS_Union
<1>8. OnePerRow(W \cup R)
  BY <1>5, <1>6, <1>7 DEF OnePerRow
<1>9. \A m \in W : m.id[1] \in IF m.action = "delete" THEN DeletedTables ELSE WrittenTables
  <2>1. TAKE m \in W
  <2>2. m = MutationOf(db, ActionFor(db, c, m.id), m.id, RowFor(db, c, m.id))
    BY <1>1 DEF Says
  <2>3. m.action = ActionFor(db, c, m.id)
    BY <2>2 DEF MutationOf
  <2>4. m.action = "delete" <=> RowFor(db, c, m.id) = Absent
    BY <2>3 DEF ActionFor
  <2>5. QED
    BY <1>1, <2>4 DEF Says
<1>10. \A m \in R : m.action = "upsert"
  BY <1>2 DEF MutationOf
<1>11. PlanFits(W \cup R)
  BY <1>2, <1>8, <1>9, <1>10 DEF PlanFits, DeletedTables, WrittenTables
<1>12. QED
  BY <1>11 DEF PlanSet, W, R

\* A daily candidate is bound to rows that know nothing of its issue.
LEMMA IssueIsNew ==
  ASSUME NEW db, NEW c, Sound(db), Bindable(db, c), c.operation = "daily",
         NEW x \in DOMAIN db, x[1] \in {"issue_materials", "material_rubrics"}
  PROVE  x[2][1] # IssueFor[c.operation]
<1>1. ASSUME NEW l \in DOMAIN db, l[1] = "issue_materials" PROVE l[2][1] # IssueFor[c.operation]
  <2>1. <<"issues", <<l[2][1]>>>> \in Parents(l, db[l])
    BY <1>1 DEF Parents
  <2>2. <<"issues", <<l[2][1]>>>> \in RowsOf(db, "issues")
    BY <1>1, <2>1 DEF Sound, ReferencesHold, RowsOf
  <2>3. IssueFor[c.operation] = IssueFor.daily
    OBVIOUS
  <2>4. QED
    BY <2>2, <2>3 DEF Bindable
<1>2. CASE x[1] = "material_rubrics"
  <2> DEFINE l == <<"issue_materials", <<x[2][1], x[2][2]>>>>
  <2>1. l \in Parents(x, db[x])
    BY <1>2 DEF Parents
  <2>2. l \in DOMAIN db
    BY <2>1 DEF Sound, ReferencesHold
  <2>3. l[1] = "issue_materials" /\ l[2][1] = x[2][1]
    OBVIOUS
  <2> HIDE DEF l
  <2>4. QED
    BY <1>1, <2>2, <2>3
<1>3. QED
  BY <1>1, <1>2

\* A candidate speaks of every link and every rubric of its issue.
LEMMA AllSpokenOf ==
  ASSUME NEW db, NEW c, Sound(db), CandidateFits(c), c.operation # "gazette", Bindable(db, c),
         NEW x \in DOMAIN db, x[1] \in {"issue_materials", "material_rubrics"},
         x[2][1] = IssueFor[c.operation]
  PROVE  \E m \in Wanted(db, c) : m.id = x
<1> DEFINE i == IssueFor[c.operation]
           k == x[2][2]
           cards == ToSet(c.materials)
<1>1. c.operation = "correction"
  BY IssueIsNew DEF CandidateFits
<1>2. \A id, row : MutationOf(db, "upsert", id, row).id = id /\ DeleteOf(db, id).id = id
  BY DEF MutationOf, DeleteOf
<1>3. IdFits(x)
  BY DEF Sound
<1>4. /\ LinkMutations(db, c) \subseteq Wanted(db, c)
      /\ Dropped(db, c) \subseteq Wanted(db, c)
  BY DEF Wanted
<1>5. CASE x[1] = "issue_materials"
  <2>1. x = LinkRow(i, k)
    BY <1>3, <1>5, PartsOfId DEF LinkRow, TwoKeys
  <2>2. CASE k \in cards
    <3>1. MutationOf(db, "upsert", LinkRow(i, k),
            [sort_order |-> (CHOOSE n \in DOMAIN c.materials : c.materials[n] = k) - 1,
             created |-> Created(db, LinkRow(i, k), c), at |-> c.candidateId]) \in LinkMutations(db, c)
      BY <2>2 DEF LinkMutations
    <3>2. QED
      BY <1>2, <1>4, <2>1, <3>1
  <2>3. CASE k \notin cards
    <3>1. k \in Cards(db, i)
      BY <1>5 DEF Cards, LinksOf, RowsOf
    <3>2. DeleteOf(db, LinkRow(i, k)) \in Dropped(db, c)
      BY <1>1, <2>3, <3>1 DEF Dropped
    <3>3. QED
      BY <1>2, <1>4, <2>1, <3>2
  <2>4. QED
    BY <2>2, <2>3
<1>6. CASE x[1] = "material_rubrics"
  <2>1. x = Rubric(i, k, x[2][3]) /\ x \in RowsOf(db, "material_rubrics")
    BY <1>3, <1>6, PartsOfId DEF Rubric, RowsOf
  <2>2. CASE k \in cards /\ x[2][3] = c.rubric
    <3>1. MutationOf(db, "upsert", Rubric(i, k, c.rubric), [origin |-> "candidate"]) \in LinkMutations(db, c)
      BY <2>2 DEF LinkMutations
    <3>2. QED
      BY <1>2, <1>4, <2>1, <2>2, <3>1
  <2>3. CASE k \in cards /\ x[2][3] # c.rubric
    <3>1. DeleteOf(db, x) \in LinkMutations(db, c)
      BY <2>1, <2>3 DEF LinkMutations
    <3>2. QED
      BY <1>2, <1>4, <3>1
  <2>4. CASE k \notin cards
    <3> DEFINE l == LinkRow(i, k)
    <3>1. l \in Parents(x, db[x])
      BY <1>6 DEF Parents, LinkRow
    <3>2. l \in DOMAIN db /\ l[1] = "issue_materials" /\ l[2][1] = i /\ l[2][2] = k
      BY <3>1 DEF Sound, ReferencesHold, LinkRow
    <3>3. k \in Cards(db, i)
      BY <3>2 DEF Cards, LinksOf, RowsOf
    <3>4. DeleteOf(db, x) \in Dropped(db, c)
      BY <1>1, <2>1, <2>4, <3>3 DEF Dropped
    <3>5. QED
      BY <1>2, <1>4, <3>4
  <2>5. QED
    BY <2>2, <2>3, <2>4
<1>7. QED
  BY <1>5, <1>6

\* What the mutations of a plan are.
LEMMA PlanSays ==
  ASSUME NEW db, NEW c, Sound(db), CandidateFits(c), NEW m \in PlanSet(db, c)
  PROVE  /\ IdFits(m.id) /\ m.before = Row(db, m.id)
         /\ m.action = "delete" <=> m.after = Absent
         /\ m.action = "delete" => m \in Wanted(db, c) /\ Says(db, c, m) /\ m.before # Absent
         /\ m.id[1] \in DeletedTables \cup WrittenTables
<1>1. IsDb(db)
  BY DEF Sound
<1>2. CASE m \in Wanted(db, c)
  <2>1. Says(db, c, m)
    BY <1>2, WantedSays
  <2>2. m = MutationOf(db, ActionFor(db, c, m.id), m.id, RowFor(db, c, m.id))
    BY <2>1 DEF Says
  <2>3. m.action = ActionFor(db, c, m.id) /\ m.after = RowFor(db, c, m.id) /\ m.before = Row(db, m.id)
    BY <2>2 DEF MutationOf
  <2>4. m.action = "delete" <=> m.after = Absent
    BY <2>3 DEF ActionFor
  <2>5. m.action = "delete" => m.before # Absent
    BY <1>1, <2>1, <2>3, <2>4, RowIsThere DEF Says
  <2>6. QED
    BY <1>2, <2>1, <2>3, <2>4, <2>5 DEF Says
<1>3. CASE m \in Restated(db, Wanted(db, c))
  <2>1. /\ m = MutationOf(db, "upsert", m.id, db[m.id])
        /\ m.id \in DOMAIN db /\ IdFits(m.id)
        /\ m.id[1] \in WrittenTables
    BY <1>3, RestatedSays
  <2>2. m.action = "upsert" /\ m.after = db[m.id] /\ m.before = Row(db, m.id)
    BY <2>1 DEF MutationOf
  <2>3. m.after # Absent
    BY <1>1, <2>1, <2>2 DEF IsDb
  <2>4. QED
    BY <2>1, <2>2, <2>3
<1>4. QED
  BY <1>2, <1>3 DEF PlanSet

\* The rows that go with a link are gone before it, and all deletes are before all writes.
LEMMA PriorityOfDeletes ==
  ASSUME NEW m, m.id[1] \in IF m.action = "delete" THEN DeletedTables ELSE WrittenTables
  PROVE  /\ m.action = "delete" => Priority(m) \in 0..10
         /\ m.action # "delete" => Priority(m) \in 20..51
         /\ m.action = "delete" /\ m.id[1] = "material_rubrics" => Priority(m) = 0
         /\ m.action = "delete" /\ m.id[1] = "issue_materials" => Priority(m) = 3
         /\ m.action # "delete" => Priority(m) = UpsertPriority[m.id[1]]
BY DEF Priority, DeletePriority, UpsertPriority, DeletedTables, WrittenTables

\* What the mutations of a plan are, and in which order they stand.
PlanFacts(db, c, plan) ==
  /\ Len(plan) \in Nat
  /\ \A n \in 1..Len(plan) : plan[n] \in PlanSet(db, c)
  /\ \A m \in PlanSet(db, c) : \E n \in 1..Len(plan) : plan[n] = m
  /\ \A n, k \in 1..Len(plan) : plan[n].id = plan[k].id => n = k
  /\ \A n, k \in 1..Len(plan) :
       /\ Priority(plan[n]) < Priority(plan[k]) => n < k
       /\ n < k => Priority(plan[n]) <= Priority(plan[k])
       /\ /\ n < k /\ Priority(plan[n]) = Priority(plan[k]) /\ plan[n].id[1] = plan[k].id[1]
          => KeyBefore(plan[n].id[2], plan[k].id[2])

\* Every plan is ordered in this way.
LEMMA PlanFactsHold ==
  ASSUME NEW db, NEW c, Sound(db), CandidateFits(c), NEW plan, plan = PlanOf(db, c)
  PROVE  PlanFacts(db, c, plan)
<1> DEFINE M == PlanSet(db, c)
           rank == [m \in M |-> Priority(m)]
           R == RankedBefore(M, rank)
<1>1. PlanFits(M) /\ OnePerRow(M)
  BY PlanSetFits DEF PlanFits
<1>2. plan = Ordered(M, Priority)
  BY PlanIsOrdered
<1>3. rank \in [M -> Int] /\ Lists(plan, M, R)
  BY <1>1, <1>2, PlanIsListed
<1>4. /\ Len(plan) \in Nat /\ \A n \in 1..Len(plan) : plan[n] \in M
      /\ \A m \in M : \E n \in 1..Len(plan) : plan[n] = m
      /\ \A n, k \in 1..Len(plan) : n < k => <<plan[n], plan[k]>> \in R
  BY <1>3 DEF Lists
<1>5. \A n, k \in 1..Len(plan) : plan[n].id = plan[k].id => n = k
  BY <1>1, <1>3, ListedOnce
<1>6. \A m \in M : rank[m] = Priority(m) /\ rank[m] \in Int
  BY <1>3
<1> HIDE DEF M, rank
<1>7. \A a, b \in M : <<a, b>> \in R =>
        \/ rank[a] < rank[b]
        \/ rank[a] = rank[b] /\ Position[a.id[1]] < Position[b.id[1]]
        \/ rank[a] = rank[b] /\ KeyBefore(a.id[2], b.id[2])
  BY DEF RankedBefore
<1>8. \A a \in M : Position[a.id[1]] \in Int
  BY <1>1, PositionOfId DEF OnePerRow
<1>9. \A a, b \in M : rank[a] < rank[b] => <<a, b>> \in R
  BY DEF RankedBefore
<1> HIDE DEF R
<1>10. ASSUME NEW n \in 1..Len(plan), NEW k \in 1..Len(plan)
       PROVE  /\ Priority(plan[n]) < Priority(plan[k]) => n < k
              /\ n < k => Priority(plan[n]) <= Priority(plan[k])
              /\ /\ n < k /\ Priority(plan[n]) = Priority(plan[k]) /\ plan[n].id[1] = plan[k].id[1]
                 => KeyBefore(plan[n].id[2], plan[k].id[2])
  <2> DEFINE a == plan[n]
             b == plan[k]
  <2>1. a \in M /\ b \in M
    BY <1>4
  <2>2. rank[a] < rank[b] => n < k
    <3>1. SUFFICES ASSUME rank[a] < rank[b] PROVE n < k
      OBVIOUS
    <3>2. <<plan[n], plan[k]>> \in RankedBefore(M, rank)
      BY <1>9, <2>1, <3>1 DEF R
    <3>3. Lists(plan, M, RankedBefore(M, rank))
      BY <1>3 DEF R
    <3>4. QED
      BY <1>1, <1>3, <3>2, <3>3, ListedBefore
  <2>3. n < k => <<a, b>> \in R
    BY <1>4
  <2>4. n < k => rank[a] <= rank[b]
    BY <1>6, <1>7, <2>1, <2>3
  <2>5. n < k /\ rank[a] = rank[b] /\ a.id[1] = b.id[1] => KeyBefore(a.id[2], b.id[2])
    BY <1>6, <1>7, <1>8, <2>1, <2>3
  <2>6. rank[a] = Priority(a) /\ rank[b] = Priority(b)
    BY <1>6, <2>1
  <2>7. QED
    BY <2>2, <2>4, <2>5, <2>6
<1>11. QED
  BY <1>4, <1>5, <1>10 DEF PlanFacts, M

-----------------------------------------------------------------------------
(***************************************************************************)
(* The staging copy: what is in it after its candidate was replayed.       *)
(***************************************************************************)
\* A plan says of each row what it is in the base.
LEMMA PlanIsDocument ==
  ASSUME NEW db, NEW c, Sound(db), CandidateFits(c), NEW plan, PlanFacts(db, c, plan)
  PROVE  /\ Document(db, plan) /\ KeysRise(plan)
         /\ \A n \in 1..Len(plan) : IdFits(plan[n].id)
<1>1. /\ Len(plan) \in Nat /\ \A n \in 1..Len(plan) : plan[n] \in PlanSet(db, c)
      /\ \A n, k \in 1..Len(plan) : plan[n].id = plan[k].id => n = k
  BY DEF PlanFacts
<1>2. \A n \in 1..Len(plan) :
         /\ IdFits(plan[n].id) /\ plan[n].before = Row(db, plan[n].id)
         /\ plan[n].action = "delete" <=> plan[n].after = Absent
         /\ plan[n].action = "delete" => plan[n].before # Absent
  BY <1>1, PlanSays
<1>3. IsDb(db)
  BY DEF Sound
<1>4. Document(db, plan)
  BY <1>1, <1>2, <1>3 DEF Document
<1>5. \A m \in PlanSet(db, c) : m.id[1] \in IF m.action = "delete" THEN DeletedTables ELSE WrittenTables
  BY PlanSetFits DEF PlanFits, DeletedTables, WrittenTables
<1>6. \A m \in PlanSet(db, c) : m.action # "delete" => Priority(m) = UpsertPriority[m.id[1]]
  BY <1>5, PriorityOfDeletes
<1>7. KeysRise(plan)
  BY <1>1, <1>6 DEF KeysRise, PlanFacts
<1>8. QED
  BY <1>2, <1>4, <1>7

\* The replay deletes children first, so nothing is taken along that the plan does not name.
LEMMA PlanDeletesChildrenFirst ==
  ASSUME NEW db, NEW c, Sound(db), CandidateFits(c), Bindable(db, c),
         NEW plan, PlanFacts(db, c, plan)
  PROVE  ChildrenFirst(db, plan)
<1>1. SUFFICES ASSUME NEW n \in 1..Len(plan), plan[n].action = "delete"
               PROVE  /\ \A k \in 1..(n - 1) : plan[k].after = Absent
                                  \/ plan[n].id \notin Parents(plan[k].id, plan[k].after)
                      /\ \A x \in DOMAIN db : (\A k \in 1..(n - 1) : plan[k].id # x)
                                  => plan[n].id \notin Parents(x, db[x])
  BY DEF ChildrenFirst
<1> DEFINE m == plan[n]
           id == plan[n].id
<1>2. /\ Len(plan) \in Nat /\ \A k \in 1..Len(plan) : plan[k] \in PlanSet(db, c)
      /\ \A k \in 1..(n - 1) : k \in 1..Len(plan) /\ k < n
  BY DEF PlanFacts
<1>3. \A a \in PlanSet(db, c) : a.id[1] \in IF a.action = "delete" THEN DeletedTables ELSE WrittenTables
  BY PlanSetFits DEF PlanFits, DeletedTables, WrittenTables
<1>4. Priority(m) \in 0..10
  BY <1>1, <1>2, <1>3, PriorityOfDeletes
<1>5. ASSUME NEW k \in 1..(n - 1) PROVE plan[k].after = Absent
  <2>1. Priority(plan[k]) <= Priority(m)
    BY <1>2 DEF PlanFacts
  <2>2. plan[k].action # "delete" => Priority(plan[k]) \in 20..51
    BY <1>2, <1>3, PriorityOfDeletes
  <2> DEFINE p == Priority(plan[k])
             q == Priority(m)
  <2> HIDE DEF p, q
  <2>3. plan[k].action = "delete"
    <3>1. p <= q /\ q \in 0..10 /\ (plan[k].action # "delete" => p \in 20..51)
      BY <1>4, <2>1, <2>2 DEF p, q
    <3>2. CASE plan[k].action # "delete"
      <4>1. p \in 20..51 /\ q \in 0..10 /\ p <= q
        BY <3>1, <3>2
      <4>2. QED
        BY <4>1
    <3>3. QED
      BY <3>2
  <2>4. QED
    BY <1>2, <2>3, PlanSays
<1>6. ASSUME NEW x \in DOMAIN db, \A k \in 1..(n - 1) : plan[k].id # x, id \in Parents(x, db[x])
      PROVE  FALSE
  <2>1. IdFits(x)
    BY DEF Sound
  <2>2. id[1] \in {"issues", "materials", "issue_materials", "gazettes"}
        /\ (id[1] = "issue_materials" =>
              x[1] = "material_rubrics" /\ id = <<"issue_materials", <<x[2][1], x[2][2]>>>>)
    BY <1>6, <2>1, ParentsEarlier
  <2>3. id[1] = "issue_materials" /\ x[1] = "material_rubrics"
        /\ id = <<"issue_materials", <<x[2][1], x[2][2]>>>>
    BY <1>1, <1>2, <1>3, <2>2 DEF DeletedTables
  <2>4. Says(db, c, m) /\ m.after = Absent
    BY <1>1, <1>2, PlanSays
  <2>5. m.after = RowFor(db, c, id)
    BY <2>4 DEF Says, MutationOf
  <2>6. About(id, c) /\ RowFor(db, c, id) = Absent
    BY <2>4, <2>5 DEF Says
  <2>7. c.operation # "gazette"
    BY <2>3, <2>6 DEF About
  <2>8. id[2][1] = IssueFor[c.operation] /\ id[2][1] = x[2][1] /\ id[2][2] = x[2][2]
    BY <2>3, <2>6, <2>7 DEF About
  <2>9. id[2][2] \notin ToSet(c.materials)
    <3>1. id[2][2] \in ToSet(c.materials) =>
            RowFor(db, c, id) = [sort_order |-> PlaceOf(c, id[2][2]) - 1, created |-> Created(db, id, c),
                                 at |-> c.candidateId]
      BY <2>3, <2>7 DEF RowFor
    <3>2. QED
      BY <2>6, <3>1, RowsArePresent
  <2>10. x[1] \in {"issue_materials", "material_rubrics"} /\ x[2][1] = IssueFor[c.operation]
    BY <2>3, <2>8
  <2>11. \E a \in Wanted(db, c) : a.id = x
    BY <2>7, <2>10, AllSpokenOf
  <2>12. PICK a \in Wanted(db, c) : a.id = x
    BY <2>11
  <2>13. Says(db, c, a)
    BY WantedSays
  <2>14. RowFor(db, c, x) = Absent
    BY <2>3, <2>7, <2>8, <2>9 DEF RowFor
  <2>15. a.action = "delete"
    BY <2>12, <2>13, <2>14 DEF Says, MutationOf, ActionFor
  <2>16. a \in PlanSet(db, c)
    BY DEF PlanSet
  <2>17. PICK k \in 1..Len(plan) : plan[k] = a
    BY <2>16 DEF PlanFacts
  <2>18. Priority(a) = 0 /\ Priority(m) = 3
    BY <1>1, <1>2, <1>3, <2>3, <2>12, <2>15, <2>16, PriorityOfDeletes
  <2>19. k < n
    BY <2>17, <2>18 DEF PlanFacts
  <2>20. k \in 1..(n - 1)
    BY <1>2, <2>19
  <2>21. QED
    BY <1>6, <2>12, <2>17, <2>20
<1>7. QED
  BY <1>5, <1>6

\* What a staging copy is: its base with the rows that the candidate wants, and nothing else.
Staged(db, c, r) ==
  /\ IsDb(r)
  /\ \A m \in Wanted(db, c) : Row(r, m.id) = RowFor(db, c, m.id)
  /\ \A x : (\A m \in Wanted(db, c) : m.id # x) => Row(r, x) = Row(db, x)

\* Behaviour of replay_to_staging: a replay that commits leaves every constraint of the
\* schema intact, every row as the candidate wants it and every other row as it was, and
\* no written row clashes with the earlier state of one that is written after it.
THEOREM StagingHolds ==
  ASSUME NEW db, NEW c, Sound(db), CandidateFits(c), Bindable(db, c),
         NEW r, Applied(db, PlanOf(db, c)) = [ok |-> TRUE, db |-> r]
  PROVE  Staged(db, c, r) /\ Sound(r) /\ NoCrossing(db, r)
<1> DEFINE plan == PlanOf(db, c)
           M == PlanSet(db, c)
<1>1. PlanFacts(db, c, plan)
  BY PlanFactsHold
<1> HIDE DEF plan, M
<1>2. Document(db, plan) /\ KeysRise(plan) /\ \A n \in 1..Len(plan) : IdFits(plan[n].id)
  BY <1>1, PlanIsDocument
<1>3. ChildrenFirst(db, plan)
  BY <1>1, PlanDeletesChildrenFirst
<1>4. Applied(db, plan) = [ok |-> TRUE, db |-> r]
  BY DEF plan
<1>5. After(r, db, plan, Len(plan)) /\ ReferencesHold(r) /\ Accepted(db, plan)
  BY <1>2, <1>3, <1>4, CommittedReplay
<1>6. Unique(r)
  BY <1>2, <1>5, CommittedUnique DEF Sound
<1>7. NoCrossing(db, r)
  BY <1>2, <1>5, CommittedCrossesNothing
<1>8. IsDb(r) /\ IsDb(db)
  BY <1>5 DEF After, Sound
<1>9. /\ \A n \in 1..Len(plan) : plan[n] \in M
      /\ \A m \in M : \E n \in 1..Len(plan) : plan[n] = m
  BY <1>1 DEF PlanFacts, M
<1>10. /\ \A m \in M : Row(r, m.id) = m.after
       /\ \A x : (\A m \in M : m.id # x) => Row(r, x) = Row(db, x)
  BY <1>5, <1>9 DEF After
<1>11. \A m \in Wanted(db, c) : m \in M /\ m.after = RowFor(db, c, m.id)
  BY WantedSays DEF Says, MutationOf, M, PlanSet
<1>12. \A m \in M : m \in Wanted(db, c) \/ Row(db, m.id) = m.after
  <2>1. ASSUME NEW m \in Restated(db, Wanted(db, c)) PROVE Row(db, m.id) = m.after
    <3>1. m = MutationOf(db, "upsert", m.id, db[m.id]) /\ m.id \in DOMAIN db
      BY RestatedSays
    <3>2. QED
      BY <3>1 DEF MutationOf, Row
  <2>2. QED
    BY <2>1 DEF M, PlanSet
<1>13. Staged(db, c, r)
  <2>1. ASSUME NEW x, \A m \in Wanted(db, c) : m.id # x PROVE Row(r, x) = Row(db, x)
    <3>1. CASE \E m \in M : m.id = x
      BY <1>10, <1>12, <2>1, <3>1
    <3>2. CASE \A m \in M : m.id # x
      BY <1>10, <3>2
    <3>3. QED
      BY <3>1, <3>2
  <2>2. QED
    BY <1>8, <1>10, <1>11, <2>1 DEF Staged
<1>14. Sound(r)
  <2> DEFINE g == [m \in M |-> m.id]
  <2>1. IsFiniteSet(M)
    BY PlanSetFits DEF PlanFits, OnePerRow, M
  <2>2. DOMAIN g = M /\ \A m \in M : g[m] = m.id
    OBVIOUS
  <2> HIDE DEF g
  <2>3. IsFiniteSet({g[m] : m \in M})
    BY <2>1, <2>2, FiniteImage
  <2>4. ASSUME NEW x \in DOMAIN r PROVE x \in DOMAIN db \/ \E m \in M : m.id = x
    <3>1. SUFFICES ASSUME \A m \in M : m.id # x PROVE x \in DOMAIN db
      OBVIOUS
    <3>2. Row(r, x) = Row(db, x) /\ Row(r, x) # Absent
      BY <1>8, <1>10, <3>1, RowIsThere
    <3>3. QED
      BY <1>8, <3>2, RowIsThere
  <2>5. DOMAIN r \subseteq DOMAIN db \cup {g[m] : m \in M}
    BY <2>2, <2>4
  <2>6. IsFiniteSet(DOMAIN db \cup {g[m] : m \in M})
    BY <2>3, FS_Union DEF Sound
  <2>7. IsFiniteSet(DOMAIN r)
    BY <2>5, <2>6, FS_Subset
  <2>8. \A x \in DOMAIN r : IdFits(x)
    <3>1. \A m \in M : IdFits(m.id)
      BY PlanSays DEF M
    <3>2. QED
      BY <2>4, <3>1 DEF Sound
  <2>9. QED
    BY <1>5, <1>6, <1>8, <2>7, <2>8 DEF Sound
<1>15. QED
  BY <1>7, <1>13, <1>14

\* The links and rubrics that stand in the issue afterwards are wanted there.
LEMMA StandsAsWanted ==
  ASSUME NEW db, NEW c, Sound(db), CandidateFits(c), c.operation # "gazette", Bindable(db, c),
         NEW r, Staged(db, c, r),
         NEW x, x[1] \in {"issue_materials", "material_rubrics"},
         x[2][1] = IssueFor[c.operation], Row(r, x) # Absent
  PROVE  Row(r, x) = RowFor(db, c, x)
<1>1. CASE \E m \in Wanted(db, c) : m.id = x
  BY <1>1 DEF Staged
<1>2. CASE \A m \in Wanted(db, c) : m.id # x
  <2>1. Row(db, x) # Absent
    BY <1>2 DEF Staged
  <2>2. x \in DOMAIN db
    BY <2>1 DEF Row
  <2>3. QED
    BY <1>2, <2>2, AllSpokenOf
<1>3. QED
  BY <1>1, <1>2

\* What a candidate wants of its cards, its analysis and its gazette is there.
LEMMA WantedIsThere ==
  ASSUME NEW db, NEW c, Sound(db), CandidateFits(c), NEW r, Staged(db, c, r)
  PROVE  /\ c.operation # "gazette" =>
              /\ \A k \in ToSet(c.materials) :
                   /\ Row(r, LinkRow(IssueFor[c.operation], k)) =
                        RowFor(db, c, LinkRow(IssueFor[c.operation], k))
                   /\ Row(r, Rubric(IssueFor[c.operation], k, c.rubric)) =
                        RowFor(db, c, Rubric(IssueFor[c.operation], k, c.rubric))
              /\ Row(r, <<"issue_analysis", <<IssueFor[c.operation]>>>>) =
                   RowFor(db, c, <<"issue_analysis", <<IssueFor[c.operation]>>>>)
         /\ c.operation = "gazette" =>
              /\ \A a \in c.assets : Row(r, <<"gazette_assets", <<1, a>>>>) =
                   RowFor(db, c, <<"gazette_assets", <<1, a>>>>)
              /\ \A x \in RowsOf(db, "gazette_assets") :
                   x[2][2] \notin c.assets => Row(r, x) = RowFor(db, c, x)
<1>1. \A action, id, row : MutationOf(db, action, id, row).id = id /\ DeleteOf(db, id).id = id
  BY DEF MutationOf, DeleteOf
<1>2. \A m \in Wanted(db, c) : Row(r, m.id) = RowFor(db, c, m.id)
  BY DEF Staged
<1>3. ASSUME c.operation # "gazette", NEW k \in ToSet(c.materials)
      PROVE  /\ \E m \in Wanted(db, c) : m.id = LinkRow(IssueFor[c.operation], k)
             /\ \E m \in Wanted(db, c) : m.id = Rubric(IssueFor[c.operation], k, c.rubric)
  <2> DEFINE i == IssueFor[c.operation]
  <2>1. MutationOf(db, "upsert", LinkRow(i, k),
          [sort_order |-> (CHOOSE n \in DOMAIN c.materials : c.materials[n] = k) - 1,
           created |-> Created(db, LinkRow(i, k), c), at |-> c.candidateId]) \in LinkMutations(db, c)
    BY <1>3 DEF LinkMutations
  <2>2. MutationOf(db, "upsert", Rubric(i, k, c.rubric), [origin |-> "candidate"]) \in LinkMutations(db, c)
    BY <1>3 DEF LinkMutations
  <2>3. LinkMutations(db, c) \subseteq Wanted(db, c)
    BY <1>3 DEF Wanted
  <2>4. QED
    BY <1>1, <2>1, <2>2, <2>3
<1>4. ASSUME c.operation # "gazette"
      PROVE  \E m \in Wanted(db, c) : m.id = <<"issue_analysis", <<IssueFor[c.operation]>>>>
  <2>1. MutationOf(db, "upsert", <<"issue_analysis", <<IssueFor[c.operation]>>>>,
          [cites |-> c.cites, at |-> c.candidateId]) \in IssueRowMutations(db, c)
    BY DEF IssueRowMutations
  <2>2. IssueRowMutations(db, c) \subseteq Wanted(db, c)
    BY <1>4 DEF Wanted
  <2>3. QED
    BY <1>1, <2>1, <2>2
<1>5. ASSUME c.operation = "gazette"
      PROVE  /\ \A a \in c.assets : \E m \in Wanted(db, c) : m.id = <<"gazette_assets", <<1, a>>>>
             /\ \A x \in RowsOf(db, "gazette_assets") :
                  x[2][2] \notin c.assets => \E m \in Wanted(db, c) : m.id = x
  <2>1. GazetteMutations(db, c) = Wanted(db, c)
    BY <1>5 DEF Wanted
  <2>2. \A a \in c.assets :
          MutationOf(db, "upsert", <<"gazette_assets", <<1, a>>>>, [bytes |-> a]) \in GazetteMutations(db, c)
    BY DEF GazetteMutations
  <2>3. \A x \in RowsOf(db, "gazette_assets") :
          x[2][2] \notin c.assets => DeleteOf(db, x) \in GazetteMutations(db, c)
    BY DEF GazetteMutations
  <2>4. ASSUME NEW a \in c.assets PROVE \E m \in Wanted(db, c) : m.id = <<"gazette_assets", <<1, a>>>>
    <3>1. MutationOf(db, "upsert", <<"gazette_assets", <<1, a>>>>, [bytes |-> a]) \in Wanted(db, c)
      BY <2>1, <2>2
    <3>2. QED
      BY <1>1, <3>1
  <2>5. ASSUME NEW x \in RowsOf(db, "gazette_assets"), x[2][2] \notin c.assets
        PROVE  \E m \in Wanted(db, c) : m.id = x
    <3>1. DeleteOf(db, x) \in Wanted(db, c)
      BY <2>1, <2>3, <2>5
    <3>2. QED
      BY <1>1, <3>1
  <2>6. QED
    BY <2>4, <2>5
<1>6. QED
  BY <1>2, <1>3, <1>4, <1>5

\* e has the rows of r in every table but that of the release markers.
SameContent(e, r) ==
  /\ IsDb(e) /\ IsDb(r)
  /\ \A x : x[1] # "content_releases" => Row(e, x) = Row(r, x)

\* The staging copy says what the candidate asks for.
LEMMA StagedAsAsked ==
  ASSUME NEW db, NEW c, Sound(db), CandidateFits(c), ValidCandidate(c), Bindable(db, c),
         NEW r, Staged(db, c, r), Sound(r), NEW e, SameContent(e, r)
  PROVE  Asked(e, c)
<1> DEFINE i == IssueFor[c.operation]
           cards == ToSet(c.materials)
<1>1. \A x : x[1] # "content_releases" => (x \in DOMAIN e <=> Row(r, x) # Absent)
  BY RowIsThere DEF SameContent
<1>2. \A x : x[1] # "content_releases" => (x \in DOMAIN e => e[x] = Row(r, x))
  BY DEF SameContent, Row
<1>3. \A x : x[1] # "content_releases" /\ x \in DOMAIN e => IdFits(x)
  <2>1. TAKE x
  <2>2. HAVE x[1] # "content_releases" /\ x \in DOMAIN e
  <2>3. x \in DOMAIN r
    BY <1>1, <2>2, RowIsThere DEF SameContent
  <2>4. QED
    BY <2>3 DEF Sound
<1>4. CASE c.operation # "gazette"
  <2>1. ASSUME NEW x \in DOMAIN e, x[1] \in {"issue_materials", "material_rubrics"}, x[2][1] = i
        PROVE  RowFor(db, c, x) # Absent
    <3>1. Row(r, x) # Absent
      BY <1>1, <2>1
    <3>2. QED
      BY <1>4, <2>1, <3>1, StandsAsWanted
  <2>2. ASSUME NEW k \in cards
        PROVE  /\ LinkRow(i, k) \in DOMAIN e
               /\ e[LinkRow(i, k)].sort_order = PlaceOf(c, k) - 1
               /\ Rubric(i, k, c.rubric) \in DOMAIN e
    <3> DEFINE l == LinkRow(i, k)
               u == Rubric(i, k, c.rubric)
    <3>1. /\ l[1] = "issue_materials" /\ l[2][2] = k
          /\ u[1] = "material_rubrics" /\ u[2][2] = k /\ u[2][3] = c.rubric
      BY DEF LinkRow, Rubric
    <3>2. Row(r, l) = RowFor(db, c, l) /\ Row(r, u) = RowFor(db, c, u)
      BY <1>4, WantedIsThere
    <3> HIDE DEF l, u
    <3>3. RowFor(db, c, l) = [sort_order |-> PlaceOf(c, k) - 1, created |-> Created(db, l, c),
                              at |-> c.candidateId]
      BY <1>4, <3>1 DEF RowFor
    <3>4. RowFor(db, c, u) = [origin |-> "candidate"]
      BY <1>4, <3>1 DEF RowFor
    <3>5. Row(r, l) # Absent /\ Row(r, u) # Absent
      BY <3>2, <3>3, <3>4, RowsArePresent
    <3>6. l \in DOMAIN e /\ u \in DOMAIN e
      BY <1>1, <3>1, <3>5
    <3>7. e[l] = [sort_order |-> PlaceOf(c, k) - 1, created |-> Created(db, l, c), at |-> c.candidateId]
      BY <1>2, <3>1, <3>2, <3>3, <3>6
    <3>8. e[l].sort_order = PlaceOf(c, k) - 1
      BY <3>7
    <3>9. QED
      BY <3>6, <3>8 DEF l, u
  <2>3. Cards(e, i) = cards
    <3>1. ASSUME NEW k \in Cards(e, i) PROVE k \in cards
      <4>1. PICK x \in DOMAIN e : x[1] = "issue_materials" /\ x[2][1] = i /\ x[2][2] = k
        BY DEF Cards, LinksOf, RowsOf
      <4>2. RowFor(db, c, x) # Absent
        BY <2>1, <4>1
      <4>3. QED
        BY <1>4, <4>1, <4>2 DEF RowFor
    <3>2. ASSUME NEW k \in cards PROVE k \in Cards(e, i)
      <4> DEFINE l == LinkRow(i, k)
      <4>1. l \in DOMAIN e /\ l[1] = "issue_materials" /\ l[2][1] = i /\ l[2][2] = k
        BY <2>2 DEF LinkRow
      <4> HIDE DEF l
      <4>2. QED
        BY <4>1 DEF Cards, LinksOf, RowsOf
    <3>3. QED
      BY <3>1, <3>2
  <2>4. ASSUME NEW n \in DOMAIN c.materials PROVE e[LinkRow(i, c.materials[n])].sort_order = n - 1
    <3>1. c.materials[n] \in cards
      BY DEF ToSet
    <3>2. PlaceOf(c, c.materials[n]) = n
      BY <1>4, <3>1, CardsAreMaterials DEF ValidCandidate
    <3>3. QED
      BY <2>2, <3>1, <3>2
  <2>5. {x[2] : x \in {y \in RowsOf(e, "material_rubrics") : y[2][1] = i}} = {<<i, k, c.rubric>> : k \in cards}
    <3>1. ASSUME NEW x \in DOMAIN e, x[1] = "material_rubrics", x[2][1] = i
          PROVE  x[2][2] \in cards /\ x[2] = <<i, x[2][2], c.rubric>>
      <4>1. RowFor(db, c, x) # Absent
        BY <2>1, <3>1
      <4>2. x[2][2] \in cards /\ x[2][3] = c.rubric
        BY <1>4, <3>1, <4>1 DEF RowFor
      <4>3. x[2] = <<x[2][1], x[2][2], x[2][3]>>
        BY <1>3, <3>1, PartsOfId
      <4>4. QED
        BY <3>1, <4>2, <4>3
    <3>2. ASSUME NEW k \in cards
          PROVE  \E x \in DOMAIN e : x[1] = "material_rubrics" /\ x[2][1] = i /\ x[2] = <<i, k, c.rubric>>
      <4> DEFINE u == Rubric(i, k, c.rubric)
      <4>1. u \in DOMAIN e /\ u[1] = "material_rubrics" /\ u[2][1] = i /\ u[2] = <<i, k, c.rubric>>
        BY <2>2 DEF Rubric
      <4> HIDE DEF u
      <4>2. QED
        BY <4>1
    <3> HIDE DEF i, cards
    <3> DEFINE own == {y \in RowsOf(e, "material_rubrics") : y[2][1] = i}
    <3>3. \A x \in own : x[2] \in {<<i, k, c.rubric>> : k \in cards}
      BY <3>1 DEF RowsOf
    <3>4. \A k \in cards : \E x \in own : x[2] = <<i, k, c.rubric>>
      BY <3>2 DEF RowsOf
    <3> HIDE DEF own
    <3>5. {x[2] : x \in own} = {<<i, k, c.rubric>> : k \in cards}
      BY <3>3, <3>4
    <3>6. QED
      BY <3>5 DEF own
  <2>6. e[<<"issue_analysis", <<i>>>>].cites = c.cites
    <3> DEFINE a == <<"issue_analysis", <<i>>>>
    <3>1. a[1] = "issue_analysis"
      OBVIOUS
    <3>2. Row(r, a) = RowFor(db, c, a)
      BY <1>4, WantedIsThere
    <3> HIDE DEF a
    <3>3. RowFor(db, c, a) = [cites |-> c.cites, at |-> c.candidateId]
      BY <1>4, <3>1 DEF RowFor
    <3>4. Row(r, a) # Absent
      BY <3>2, <3>3, RowsArePresent
    <3>5. a \in DOMAIN e
      BY <1>1, <3>1, <3>4
    <3>6. e[a] = [cites |-> c.cites, at |-> c.candidateId]
      BY <1>2, <3>1, <3>2, <3>3, <3>5
    <3>7. e[a].cites = c.cites
      BY <3>6
    <3>8. QED
      BY <3>7 DEF a
  <2>7. QED
    BY <1>4, <2>3, <2>4, <2>5, <2>6 DEF Asked
<1>5. CASE c.operation = "gazette"
  <2>1. ASSUME NEW x \in DOMAIN e, x[1] = "gazette_assets" PROVE x[2][2] \in c.assets
    <3>1. SUFFICES ASSUME x[2][2] \notin c.assets PROVE FALSE
      OBVIOUS
    <3>2. Row(r, x) # Absent
      BY <1>1, <2>1
    <3>3. RowFor(db, c, x) = Absent
      BY <1>5, <2>1, <3>1 DEF RowFor
    <3>4. CASE x \in RowsOf(db, "gazette_assets")
      BY <1>5, <3>1, <3>2, <3>3, <3>4, WantedIsThere
    <3>5. CASE x \notin RowsOf(db, "gazette_assets")
      <4>1. Row(db, x) = Absent
        BY <2>1, <3>5 DEF RowsOf, Row
      <4>2. PICK m \in Wanted(db, c) : m.id = x
        BY <3>2, <4>1 DEF Staged
      <4>3. QED
        BY <3>2, <3>3, <4>2 DEF Staged
    <3>6. QED
      BY <3>4, <3>5
  <2>2. ASSUME NEW a \in c.assets
        PROVE  \E x \in DOMAIN e : x[1] = "gazette_assets" /\ x[2][2] = a
    <3> DEFINE x == <<"gazette_assets", <<1, a>>>>
    <3>1. x[1] = "gazette_assets" /\ x[2][2] = a
      OBVIOUS
    <3>2. Row(r, x) = RowFor(db, c, x)
      BY <1>5, WantedIsThere
    <3> HIDE DEF x
    <3>3. RowFor(db, c, x) = [bytes |-> a]
      BY <1>5, <3>1 DEF RowFor
    <3>4. x \in DOMAIN e
      BY <1>1, <3>1, <3>2, <3>3, RowsArePresent
    <3>5. QED
      BY <3>1, <3>4
  <2>3. {a[2][2] : a \in RowsOf(e, "gazette_assets")} = c.assets
    BY <2>1, <2>2 DEF RowsOf
  <2>4. QED
    BY <1>5, <2>3 DEF Asked
<1>6. QED
  BY <1>4, <1>5

\* What is not about the candidate's issue or gazette stays as it was.
LEMMA StagedElsewhere ==
  ASSUME NEW db, NEW c, Sound(db), CandidateFits(c), NEW r, Staged(db, c, r),
         NEW x, ~About(x, c)
  PROVE  Row(r, x) = Row(db, x)
<1>1. \A m \in Wanted(db, c) : m.id # x
  BY WantedSays DEF Says
<1>2. QED
  BY <1>1 DEF Staged

-----------------------------------------------------------------------------
(***************************************************************************)
(* Releases: the first one, and a staging copy that is marked; packages    *)
(* between them.                                                           *)
(***************************************************************************)
\* The markers of a release database: each is of its own candidate, and one is the newest.
Markers(d) ==
  /\ \A x \in RowsOf(d, "content_releases") : d[x].sequence \in Nat /\ d[x].candidate = x[2][1]
  /\ \E x \in RowsOf(d, "content_releases") :
       \A y \in RowsOf(d, "content_releases") : d[y].sequence <= d[x].sequence

\* The newest marker.
LEMMA LatestMarker ==
  ASSUME NEW d, Markers(d)
  PROVE  \E x \in RowsOf(d, "content_releases") :
           /\ Latest(d).id = x[2][1] /\ Latest(d).row = d[x]
           /\ \A y \in RowsOf(d, "content_releases") : d[y].sequence <= d[x].sequence
<1> DEFINE all == RowsOf(d, "content_releases")
           last == CHOOSE x \in all : \A y \in all : d[y].sequence <= d[x].sequence
<1>1. last \in all /\ \A y \in all : d[y].sequence <= d[last].sequence
  BY DEF Markers
<1>2. Latest(d) = [id |-> last[2][1], row |-> d[last]]
  BY DEF Latest
<1> HIDE DEF all, last
<1>3. Latest(d).id = last[2][1] /\ Latest(d).row = d[last]
  BY <1>2
<1>4. QED
  BY <1>1, <1>3 DEF all

\* No candidate names the release that it is bound to.
LEMMA BoundToAnother ==
  ASSUME NEW d, Markers(d), NEW c, Bindable(d, c)
  PROVE  c.base # c.candidateId
<1>1. PICK x \in RowsOf(d, "content_releases") : Latest(d).id = x[2][1]
  BY LatestMarker
<1>2. QED
  BY <1>1 DEF Markers, Bindable

\* A candidate says nothing of the markers.
LEMMA MarkersAreKept ==
  ASSUME NEW db, NEW c, Sound(db), CandidateFits(c), NEW r, Staged(db, c, r)
  PROVE  /\ \A x : x[1] = "content_releases" => Row(r, x) = Row(db, x)
         /\ RowsOf(r, "content_releases") = RowsOf(db, "content_releases")
         /\ \A x \in RowsOf(db, "content_releases") : r[x] = db[x]
<1>1. \A m \in Wanted(db, c) : m.id[1] # "content_releases"
  BY WantedSays DEF Says, DeletedTables, WrittenTables
<1>2. \A x : x[1] = "content_releases" => Row(r, x) = Row(db, x)
  BY <1>1 DEF Staged
<1>3. IsDb(db) /\ IsDb(r)
  BY DEF Sound, Staged
<1>4. \A x : x[1] = "content_releases" => (x \in DOMAIN r <=> x \in DOMAIN db)
  BY <1>2, <1>3, RowIsThere
<1>5. RowsOf(r, "content_releases") = RowsOf(db, "content_releases")
  BY <1>4 DEF RowsOf
<1>6. \A x \in RowsOf(db, "content_releases") : r[x] = db[x]
  BY <1>2, <1>4 DEF RowsOf, Row
<1>7. QED
  BY <1>2, <1>5, <1>6

\* The row of a release's marker, and a database with it.
MarkerRow(id) == <<"content_releases", <<id>>>>
MarkedFrom(s, id) == Marked(s, id, Latest(s).row.sequence + 1, Latest(s).id, id)

\* A marked copy is sound, its marker is its newest, and nothing else has changed.
LEMMA MarkedHolds ==
  ASSUME NEW s, Sound(s), Markers(s), NEW id \in Nat,
         \A x \in RowsOf(s, "content_releases") : s[x].candidate # id,
         NEW e, e = MarkedFrom(s, id)
  PROVE  /\ Sound(e) /\ Markers(e) /\ SameContent(e, s)
         /\ MarkerRow(id) \notin DOMAIN s
         /\ \A x : x # MarkerRow(id) => Row(e, x) = Row(s, x)
<1> DEFINE new == MarkerRow(id)
           row == [sequence |-> Latest(s).row.sequence + 1, base |-> Latest(s).id,
                   candidate |-> id, after |-> State(s)]
           old == RowsOf(s, "content_releases")
<1>1. e = WithRow(s, new, row)
  BY DEF MarkedFrom, Marked, MarkerRow
<1>2. new[1] = "content_releases" /\ new[2][1] = id /\ IdFits(new)
  BY DEF MarkerRow, IdFits, OneKey
<1>3. new \notin DOMAIN s
  BY <1>2 DEF Markers, RowsOf
<1>4. row # Absent
  <2>1. \A x, y, z, w : [sequence |-> x, base |-> y, candidate |-> z, after |-> w] # Absent
    BY DEF Absent
  <2>2. QED
    BY <2>1
<1>5. PICK last \in old : Latest(s).row = s[last] /\ \A y \in old : s[y].sequence <= s[last].sequence
  BY LatestMarker
<1>6. row.sequence = s[last].sequence + 1 /\ row.candidate = id
  BY <1>5
<1> HIDE DEF row, new
<1>7. DOMAIN e = DOMAIN s \cup {new} /\ e[new] = row /\ \A x \in DOMAIN s : e[x] = s[x]
  BY <1>1, <1>3 DEF WithRow
<1>8. IsDb(s)
  BY DEF Sound
<1>9. IsDb(e)
  BY <1>1, <1>4, <1>8, WrittenRow
<1>10. \A x : x # new => Row(e, x) = Row(s, x)
  BY <1>1, OtherRows
<1>11. RowsOf(e, "content_releases") = old \cup {new}
  BY <1>2, <1>7 DEF RowsOf
<1>12. \A x \in old : x \in DOMAIN s /\ e[x] = s[x] /\ s[x].sequence \in Nat /\ s[x].candidate = x[2][1] /\ x # new
  BY <1>3, <1>7 DEF Markers, RowsOf
<1>13. row.sequence \in Nat /\ \A x \in old : s[x].sequence < row.sequence
  BY <1>5, <1>6, <1>12
<1>14. Markers(e)
  <2>1. \A x \in old \cup {new} : e[x].sequence \in Nat /\ e[x].candidate = x[2][1]
    BY <1>2, <1>6, <1>7, <1>12, <1>13
  <2>2. \A y \in old \cup {new} : e[y].sequence <= e[new].sequence
    BY <1>7, <1>12, <1>13
  <2>3. QED
    BY <1>11, <2>1, <2>2 DEF Markers
<1>15. SameContent(e, s)
  BY <1>2, <1>8, <1>9, <1>10 DEF SameContent
<1>16. Unique(e)
  <2>1. SUFFICES ASSUME NEW a \in DOMAIN e, NEW b \in DOMAIN e, Clashing(a, e[a], b, e[b])
                 PROVE  FALSE
    BY DEF Unique
  <2>2. a # b /\ a[1] = b[1]
    BY <2>1 DEF Clashing
  <2>3. ASSUME NEW x \in DOMAIN s, x[1] = "content_releases" PROVE ~Clashing(new, row, x, s[x])
    <3>1. x \in old
      BY <2>3 DEF RowsOf
    <3>2. s[x].sequence # row.sequence
      BY <3>1, <1>12, <1>13
    <3>3. s[x].candidate # row.candidate
      BY <3>1, <1>6
    <3>4. QED
      BY <1>2, <3>2, <3>3 DEF Clashing
  <2>4. CASE a = new
    BY <1>2, <1>7, <2>1, <2>2, <2>3, <2>4
  <2>5. CASE b = new
    <3>1. Clashing(b, e[b], a, e[a])
      BY <2>1, ClashIsMutual
    <3>2. QED
      BY <1>2, <1>7, <2>2, <2>3, <2>5, <3>1
  <2>6. CASE a # new /\ b # new
    BY <1>7, <2>1, <2>6 DEF Sound, Unique
  <2>7. QED
    BY <2>4, <2>5, <2>6
<1>17. ReferencesHold(e)
  <2>1. Parents(new, row) = {}
    BY <1>2 DEF Parents
  <2>2. \A x \in DOMAIN s : Parents(x, s[x]) \subseteq DOMAIN s
    BY DEF Sound, ReferencesHold
  <2>3. QED
    BY <1>7, <2>1, <2>2 DEF ReferencesHold
<1>18. IsFiniteSet(DOMAIN e)
  BY <1>7, FS_AddElement DEF Sound
<1>19. \A x \in DOMAIN e : IdFits(x)
  BY <1>2, <1>7 DEF Sound
<1>20. QED
  BY <1>3, <1>9, <1>10, <1>14, <1>15, <1>16, <1>17, <1>18, <1>19 DEF Sound, new

\* The marker of a release crosses no row, either.
LEMMA MarkerCrossesNothing ==
  ASSUME NEW base, NEW s, NEW e, NEW id, IsDb(s), IsDb(e), IsDb(base), NoCrossing(base, s),
         \A x : x[1] = "content_releases" => Row(s, x) = Row(base, x),
         \A x : x # MarkerRow(id) => Row(e, x) = Row(s, x),
         MarkerRow(id) \notin DOMAIN s
  PROVE  NoCrossing(base, e)
<1>1. SUFFICES ASSUME NEW a \in DOMAIN e, NEW b \in DOMAIN base \cap DOMAIN e,
                      Row(base, a) # e[a], base[b] # e[b], a[1] = b[1], KeyBefore(a[2], b[2])
               PROVE  ~Clashing(a, e[a], b, base[b])
  BY DEF NoCrossing
<1>2. Row(e, b) = e[b] /\ Row(base, b) = base[b] /\ Row(e, a) = e[a] /\ Row(e, a) # Absent /\ Row(e, b) # Absent
  BY DEF Row, IsDb
<1>3. MarkerRow(id)[1] = "content_releases"
  BY DEF MarkerRow
<1>4. MarkerRow(id) \notin DOMAIN base
  <2>1. Row(s, MarkerRow(id)) = Absent
    BY DEF Row
  <2>2. Row(base, MarkerRow(id)) = Absent
    BY <1>3, <2>1
  <2>3. QED
    BY <2>2, RowIsThere
<1>5. b # MarkerRow(id)
  BY <1>4
<1>6. b[1] # "content_releases"
  BY <1>1, <1>2, <1>5
<1>7. Row(s, a) = e[a] /\ Row(s, b) = e[b]
  BY <1>1, <1>2, <1>3, <1>5, <1>6
<1>8. a \in DOMAIN s /\ b \in DOMAIN s /\ s[a] = e[a] /\ s[b] = e[b]
  BY <1>2, <1>7, RowIsThere DEF Row
<1>9. QED
  BY <1>1, <1>8 DEF NoCrossing

\* The first release, its cards, the card of its draft and the places of its cards.
StartDb == Marked(StartRows, 0, 0, 0, 0)

StartCards == ToSet(Start)
Drafted == CHOOSE m \in Materials : m \notin StartCards
StartPlace(m) == CHOOSE n \in DOMAIN Start : Start[n] = m

\* The identities of the rows of the first release.
StartIds ==
  {<<"materials", <<m>>>> : m \in StartCards \cup {Drafted}}
  \cup {LinkRow(1, m) : m \in StartCards} \cup {Rubric(1, m, 1) : m \in StartCards}
  \cup {<<"issues", <<1>>>>, <<"issue_analysis", <<1>>>>, <<"issues", <<Draft>>>>,
        LinkRow(Draft, Drafted), <<"editorial_queue", <<1>>>>}

\* The cards of the first issue are materials, each with a place, and the draft has another.
LEMMA StartCardsFit ==
  /\ IsFiniteSet(StartCards) /\ StartCards \subseteq Nat
  /\ Drafted \in Nat /\ Drafted \notin StartCards
  /\ \A m \in StartCards : StartPlace(m) \in Nat /\ Start[StartPlace(m)] = m
<1>1. Start \in Seq(Materials) /\ Materials \subseteq Nat /\ \E m \in Materials : m \notin StartCards
  BY DerivationAssumption DEF StartCards
<1>2. DOMAIN Start = 1..Len(Start) /\ Len(Start) \in Nat /\ \A n \in DOMAIN Start : Start[n] \in Materials
  BY <1>1
<1>3. StartCards = {Start[n] : n \in DOMAIN Start}
  BY DEF StartCards, ToSet
<1>4. IsFiniteSet(DOMAIN Start)
  BY <1>2, FS_Interval
<1>5. IsFiniteSet(StartCards)
  BY <1>3, <1>4, FiniteImage
<1>6. \A m \in StartCards : StartPlace(m) \in DOMAIN Start /\ Start[StartPlace(m)] = m
  BY <1>3 DEF StartPlace
<1>7. Drafted \in Materials /\ Drafted \notin StartCards
  BY <1>1 DEF Drafted
<1>8. \A m \in StartCards : m \in Materials
  BY <1>2, <1>3
<1>9. StartCards \subseteq Nat /\ Drafted \in Nat
  BY <1>1, <1>7, <1>8
<1>10. \A m \in StartCards : StartPlace(m) \in Nat
  BY <1>2, <1>6
<1>11. QED
  BY <1>5, <1>6, <1>7, <1>9, <1>10

\* The rows of the first release, table by table.
LEMMA StartRowsAre ==
  /\ StartRows = [x \in DOMAIN StartRows |-> StartRows[x]]
  /\ DOMAIN StartRows = StartIds
  /\ \A x \in StartIds :
       /\ x[1] = "materials" => StartRows[x] = [created |-> 0, at |-> 0]
       /\ x[1] = "issue_materials" =>
            StartRows[x] = [sort_order |-> IF x[2][1] = Draft THEN 0 ELSE StartPlace(x[2][2]) - 1,
                            created |-> 0, at |-> 0]
       /\ x[1] = "material_rubrics" => StartRows[x] = [origin |-> "candidate"]
       /\ x[1] = "issues" =>
            StartRows[x] = [issue_date |-> x[2][1], at |-> 0,
                            status |-> IF x[2][1] = Draft THEN "draft" ELSE "published"]
       /\ x[1] = "issue_analysis" => StartRows[x] = [cites |-> {Start[1]}, at |-> 0]
       /\ x[1] = "editorial_queue" =>
            StartRows[x] = [material |-> Drafted, state |-> "deferred", at |-> 0]
<1> DEFINE row(x) ==
      CASE x[1] = "materials" -> [created |-> 0, at |-> 0]
        [] x[1] = "issue_materials" ->
             [sort_order |-> IF x[2][1] = Draft THEN 0 ELSE StartPlace(x[2][2]) - 1,
              created |-> 0, at |-> 0]
        [] x[1] = "material_rubrics" -> [origin |-> "candidate"]
        [] x[1] = "issues" ->
             [issue_date |-> x[2][1], at |-> 0,
              status |-> IF x[2][1] = Draft THEN "draft" ELSE "published"]
        [] x[1] = "issue_analysis" -> [cites |-> {Start[1]}, at |-> 0]
        [] x[1] = "editorial_queue" ->
             [material |-> Drafted, state |-> "deferred", at |-> 0]
<1>1. StartRows = [x \in StartIds |-> row(x)]
  BY DEF StartRows, StartIds, StartCards, Drafted, StartPlace
<1>2. ASSUME NEW x \in StartIds
      PROVE  /\ x[1] = "materials" => row(x) = [created |-> 0, at |-> 0]
             /\ x[1] = "issue_materials" =>
                  row(x) = [sort_order |-> IF x[2][1] = Draft THEN 0 ELSE StartPlace(x[2][2]) - 1,
                            created |-> 0, at |-> 0]
             /\ x[1] = "material_rubrics" => row(x) = [origin |-> "candidate"]
             /\ x[1] = "issues" =>
                  row(x) = [issue_date |-> x[2][1], at |-> 0,
                            status |-> IF x[2][1] = Draft THEN "draft" ELSE "published"]
             /\ x[1] = "issue_analysis" => row(x) = [cites |-> {Start[1]}, at |-> 0]
             /\ x[1] = "editorial_queue" =>
                  row(x) = [material |-> Drafted, state |-> "deferred", at |-> 0]
  OBVIOUS
<1> HIDE DEF row
<1>3. /\ StartRows = [x \in DOMAIN StartRows |-> StartRows[x]] /\ DOMAIN StartRows = StartIds
      /\ \A x \in StartIds : StartRows[x] = row(x)
  BY <1>1
<1>4. QED
  BY <1>2, <1>3

\* Which rows there are in the first release.
LEMMA StartIdsFit ==
  /\ IsFiniteSet(StartIds)
  /\ \A x \in StartIds :
       /\ IdFits(x)
       /\ x[1] \in {"materials", "issue_materials", "material_rubrics", "issues", "issue_analysis",
                    "editorial_queue"}
       /\ x[1] = "issue_materials" => \/ x[2][1] = 1 /\ x[2][2] \in StartCards /\ x = LinkRow(1, x[2][2])
                                      \/ x = LinkRow(Draft, Drafted)
       /\ x[1] = "material_rubrics" => x[2][1] = 1 /\ x[2][2] \in StartCards
       /\ x[1] = "issues" => x[2][1] \in {1, Draft} /\ x = <<"issues", <<x[2][1]>>>>
       /\ x[1] = "issue_analysis" => x[2] = <<1>>
<1> DEFINE A == [m \in StartCards \cup {Drafted} |-> <<"materials", <<m>>>>]
           B == [m \in StartCards |-> LinkRow(1, m)]
           D == [m \in StartCards |-> Rubric(1, m, 1)]
           first == <<"issues", <<1>>>>
           analysis == <<"issue_analysis", <<1>>>>
           drafted == <<"issues", <<Draft>>>>
           link == LinkRow(Draft, Drafted)
           entry == <<"editorial_queue", <<1>>>>
<1>1. StartIds = {A[m] : m \in StartCards \cup {Drafted}} \cup {B[m] : m \in StartCards}
                 \cup {D[m] : m \in StartCards} \cup {first, analysis, drafted, link} \cup {entry}
  BY DEF StartIds
<1>2. DOMAIN A = StartCards \cup {Drafted} /\ DOMAIN B = StartCards /\ DOMAIN D = StartCards
  OBVIOUS
<1>3. IsFiniteSet(StartCards \cup {Drafted}) /\ IsFiniteSet(StartCards)
  BY StartCardsFit, FS_AddElement
<1>4. IsFiniteSet(StartIds)
  <2> HIDE DEF A, B, D, first, analysis, drafted, link, entry
  <2>1. IsFiniteSet({A[m] : m \in StartCards \cup {Drafted}}) /\ IsFiniteSet({B[m] : m \in StartCards})
        /\ IsFiniteSet({D[m] : m \in StartCards})
    BY <1>2, <1>3, FiniteImage
  <2>2. IsFiniteSet({first, analysis, drafted, link})
    BY FourAreFinite
  <2>3. QED
    BY <1>1, <2>1, <2>2, FS_Union, FS_AddElement
<1>5. ASSUME NEW m \in StartCards \cup {Drafted}, NEW x, x = A[m]
      PROVE  IdFits(x) /\ x[1] = "materials"
  BY <1>5, StartCardsFit DEF IdFits, OneKey
<1>6. ASSUME NEW m \in StartCards, NEW x, x = B[m]
      PROVE  IdFits(x) /\ x[1] = "issue_materials" /\ x[2][1] = 1 /\ x[2][2] = m /\ x = LinkRow(1, x[2][2])
  BY <1>6, StartCardsFit DEF IdFits, TwoKeys, LinkRow
<1>7. ASSUME NEW m \in StartCards, NEW x, x = D[m]
      PROVE  IdFits(x) /\ x[1] = "material_rubrics" /\ x[2][1] = 1 /\ x[2][2] = m
  BY <1>7, StartCardsFit DEF IdFits, Rubric
<1>8. /\ IdFits(first) /\ first[1] = "issues" /\ first[2][1] = 1
      /\ IdFits(analysis) /\ analysis[1] = "issue_analysis" /\ analysis[2] = <<1>>
      /\ IdFits(drafted) /\ drafted[1] = "issues" /\ drafted[2][1] = Draft
      /\ IdFits(entry) /\ entry[1] = "editorial_queue"
  BY DEF IdFits, OneKey, Draft
<1>9. IdFits(link) /\ link[1] = "issue_materials"
  BY StartCardsFit DEF IdFits, TwoKeys, LinkRow, Draft
<1>10. first = <<"issues", <<first[2][1]>>>> /\ drafted = <<"issues", <<drafted[2][1]>>>>
  OBVIOUS
<1>11. ASSUME NEW x \in StartIds
       PROVE  /\ IdFits(x)
              /\ x[1] \in {"materials", "issue_materials", "material_rubrics", "issues",
                           "issue_analysis", "editorial_queue"}
              /\ x[1] = "issue_materials" =>
                   \/ x[2][1] = 1 /\ x[2][2] \in StartCards /\ x = LinkRow(1, x[2][2])
                   \/ x = LinkRow(Draft, Drafted)
              /\ x[1] = "material_rubrics" => x[2][1] = 1 /\ x[2][2] \in StartCards
              /\ x[1] = "issues" => x[2][1] \in {1, Draft} /\ x = <<"issues", <<x[2][1]>>>>
              /\ x[1] = "issue_analysis" => x[2] = <<1>>
  <2> HIDE DEF A, B, D, first, analysis, drafted, entry
  <2>1. CASE x \in {A[m] : m \in StartCards \cup {Drafted}}
    BY <1>5, <2>1
  <2>2. CASE x \in {B[m] : m \in StartCards}
    BY <1>6, <2>2
  <2>3. CASE x \in {D[m] : m \in StartCards}
    BY <1>7, <2>3
  <2>4. CASE x \in {first, analysis, drafted, link} \cup {entry}
    BY <1>8, <1>9, <1>10, <2>4
  <2>5. QED
    BY <1>1, <2>1, <2>2, <2>3, <2>4
<1>12. QED
  BY <1>4, <1>11

\* The first release is sound.
LEMMA StartIsSound ==
  /\ Sound(StartRows) /\ RowsOf(StartRows, "content_releases") = {}
<1> DEFINE d == StartRows
<1>1. ASSUME NEW x \in StartIds PROVE d[x] # Absent
  <2>1. \A u, v, w : /\ [created |-> u, at |-> v] # Absent
                     /\ [sort_order |-> u, created |-> v, at |-> w] # Absent
                     /\ [origin |-> u] # Absent
                     /\ [issue_date |-> u, at |-> v, status |-> w] # Absent
                     /\ [cites |-> u, at |-> v] # Absent
                     /\ [material |-> u, state |-> v, at |-> w] # Absent
    BY DEF Absent
  <2>2. QED
    BY <2>1, StartRowsAre, StartIdsFit
<1>2. IsDb(d)
  BY <1>1, StartRowsAre DEF IsDb
<1>3. \A m \in StartCards : /\ <<"materials", <<m>>>> \in StartIds
                            /\ LinkRow(1, m) \in StartIds
  BY DEF StartIds
<1>4. /\ <<"materials", <<Drafted>>>> \in StartIds /\ <<"issues", <<1>>>> \in StartIds
      /\ <<"issues", <<Draft>>>> \in StartIds
  BY DEF StartIds
<1>5. ASSUME NEW x \in StartIds, NEW p \in Parents(x, d[x]) PROVE p \in StartIds
  <2>1. CASE x[1] = "issue_materials"
    <3>1. \/ x[2][1] = 1 /\ x[2][2] \in StartCards
          \/ x[2][1] = Draft /\ x[2][2] = Drafted
      BY <2>1, StartIdsFit DEF LinkRow
    <3>2. p \in {<<"issues", <<x[2][1]>>>>, <<"materials", <<x[2][2]>>>>}
      BY <1>5, <2>1 DEF Parents
    <3>3. QED
      BY <1>3, <1>4, <3>1, <3>2
  <2>2. CASE x[1] = "material_rubrics"
    <3>1. x[2][1] = 1 /\ x[2][2] \in StartCards
      BY <2>2, StartIdsFit
    <3>2. p = LinkRow(1, x[2][2])
      BY <1>5, <2>2, <3>1 DEF Parents, LinkRow
    <3>3. QED
      BY <1>3, <3>1, <3>2
  <2>3. CASE x[1] = "issue_analysis"
    BY <1>4, <1>5, <2>3, StartIdsFit DEF Parents
  <2>4. CASE x[1] = "editorial_queue"
    <3>1. d[x].material = Drafted
      BY <2>4, StartRowsAre
    <3>2. QED
      BY <1>4, <1>5, <2>4, <3>1 DEF Parents
  <2>5. CASE x[1] \in {"materials", "issues"}
    BY <1>5, <2>5 DEF Parents
  <2>6. QED
    BY <2>1, <2>2, <2>3, <2>4, <2>5, StartIdsFit
<1>6. ReferencesHold(d)
  BY <1>5, StartRowsAre DEF ReferencesHold
<1>7. ASSUME NEW a \in StartIds, NEW b \in StartIds, Clashing(a, d[a], b, d[b]) PROVE FALSE
  <2>1. a # b /\ a[1] = b[1] /\ a[1] # "content_releases"
    BY <1>7, StartIdsFit DEF Clashing
  <2>2. CASE a[1] = "issues"
    <3>1. d[a].issue_date = a[2][1] /\ d[b].issue_date = b[2][1]
      <4>1. ASSUME NEW x \in StartIds, x[1] = "issues" PROVE d[x].issue_date = x[2][1]
        <5>1. d[x] = [issue_date |-> x[2][1], at |-> 0,
                      status |-> IF x[2][1] = Draft THEN "draft" ELSE "published"]
          BY <4>1, StartRowsAre
        <5> HIDE DEF d
        <5>2. QED
          BY <5>1
      <4>2. QED
        BY <1>7, <2>1, <2>2, <4>1
    <3>2. a[2][1] = b[2][1]
      BY <1>7, <2>2, <3>1 DEF Clashing
    <3>3. QED
      BY <2>1, <2>2, <3>2, StartIdsFit
  <2>3. CASE a[1] = "issue_materials"
    <3>1. a[2][1] = b[2][1] /\ d[a].sort_order = d[b].sort_order
      BY <1>7, <2>3 DEF Clashing
    <3>2. LinkRow(Draft, Drafted)[2][1] = Draft /\ Draft # 1
      BY DEF LinkRow, Draft
    <3>3. /\ a[2][1] = 1 /\ a[2][2] \in StartCards /\ a = LinkRow(1, a[2][2])
          /\ b[2][1] = 1 /\ b[2][2] \in StartCards /\ b = LinkRow(1, b[2][2])
      BY <2>1, <2>3, <3>1, <3>2, StartIdsFit
    <3>4. d[a].sort_order = StartPlace(a[2][2]) - 1 /\ d[b].sort_order = StartPlace(b[2][2]) - 1
      <4>1. ASSUME NEW x \in StartIds, x[1] = "issue_materials", x[2][1] = 1
            PROVE  d[x].sort_order = StartPlace(x[2][2]) - 1
        <5>1. d[x] = [sort_order |-> IF x[2][1] = Draft THEN 0 ELSE StartPlace(x[2][2]) - 1,
                      created |-> 0, at |-> 0]
          BY <4>1, StartRowsAre
        <5> HIDE DEF d
        <5>2. QED
          BY <3>2, <4>1, <5>1
      <4>2. QED
        BY <1>7, <2>1, <2>3, <3>3, <4>1
    <3>5. StartPlace(a[2][2]) = StartPlace(b[2][2])
      <4> DEFINE i == StartPlace(a[2][2])
                 k == StartPlace(b[2][2])
      <4>1. i \in Nat /\ k \in Nat
        BY <3>3, StartCardsFit
      <4>2. i - 1 = k - 1
        BY <3>1, <3>4
      <4> HIDE DEF i, k
      <4>3. i = k
        BY <4>1, <4>2
      <4>4. QED
        BY <4>3 DEF i, k
    <3>6. a[2][2] = b[2][2]
      <4>1. Start[StartPlace(a[2][2])] = a[2][2] /\ Start[StartPlace(b[2][2])] = b[2][2]
        BY <3>3, StartCardsFit
      <4>2. QED
        BY <3>5, <4>1
    <3>7. QED
      BY <2>1, <3>3, <3>6
  <2>4. QED
    BY <1>7, <2>1, <2>2, <2>3 DEF Clashing
<1>8. Unique(d)
  BY <1>7, StartRowsAre DEF Unique
<1>9. RowsOf(d, "content_releases") = {}
  BY StartRowsAre, StartIdsFit DEF RowsOf
<1>10. QED
  BY <1>2, <1>6, <1>8, <1>9, StartRowsAre, StartIdsFit DEF Sound

\* The first release: its rows under one marker.
LEMMA StartDbHolds ==
  /\ Sound(StartDb) /\ Markers(StartDb) /\ Latest(StartDb).id = 0
<1> DEFINE new == <<"content_releases", <<0>>>>
           row == [sequence |-> 0, base |-> 0, candidate |-> 0, after |-> State(StartRows)]
           s == StartRows
           e == StartDb
<1>1. e = WithRow(s, new, row)
  BY DEF StartDb, Marked
<1>2. new[1] = "content_releases" /\ new[2][1] = 0 /\ IdFits(new)
  BY DEF IdFits, OneKey
<1>3. IsDb(s) /\ Sound(s) /\ RowsOf(s, "content_releases") = {}
  BY StartIsSound DEF Sound
<1>4. new \notin DOMAIN s
  BY <1>2, <1>3 DEF RowsOf
<1>5. row # Absent
  <2>1. \A x, y, z, w : [sequence |-> x, base |-> y, candidate |-> z, after |-> w] # Absent
    BY DEF Absent
  <2>2. QED
    BY <2>1
<1>6. row.sequence = 0 /\ row.candidate = 0
  OBVIOUS
<1> HIDE DEF row, new, s, e
<1>7. DOMAIN e = DOMAIN s \cup {new} /\ e[new] = row /\ \A x \in DOMAIN s : e[x] = s[x]
  BY <1>1, <1>4 DEF WithRow
<1>8. IsDb(e)
  BY <1>1, <1>3, <1>5, WrittenRow
<1>9. RowsOf(e, "content_releases") = {new}
  BY <1>2, <1>3, <1>7 DEF RowsOf
<1>10. Markers(e)
  BY <1>2, <1>6, <1>7, <1>9 DEF Markers
<1>11. Latest(e).id = 0
  <2>1. PICK x \in RowsOf(e, "content_releases") : Latest(e).id = x[2][1]
    BY <1>10, LatestMarker
  <2>2. QED
    BY <1>2, <1>9, <2>1
<1>12. Unique(e)
  <2>1. SUFFICES ASSUME NEW a \in DOMAIN e, NEW b \in DOMAIN e, Clashing(a, e[a], b, e[b])
                 PROVE  FALSE
    BY DEF Unique
  <2>2. a # b /\ a[1] = b[1]
    BY <2>1 DEF Clashing
  <2>3. \A x \in DOMAIN s : x[1] # "content_releases"
    BY <1>3 DEF RowsOf
  <2>4. a # new /\ b # new
    BY <1>2, <1>7, <2>2, <2>3
  <2>5. QED
    BY <1>3, <1>7, <2>1, <2>4 DEF Sound, Unique
<1>13. ReferencesHold(e)
  <2>1. Parents(new, row) = {}
    BY <1>2 DEF Parents
  <2>2. \A x \in DOMAIN s : Parents(x, s[x]) \subseteq DOMAIN s
    BY <1>3 DEF Sound, ReferencesHold
  <2>3. QED
    BY <1>7, <2>1, <2>2 DEF ReferencesHold
<1>14. IsFiniteSet(DOMAIN e) /\ \A x \in DOMAIN e : IdFits(x)
  BY <1>2, <1>3, <1>7, FS_AddElement DEF Sound
<1>15. Sound(e)
  BY <1>8, <1>12, <1>13, <1>14 DEF Sound
<1>16. QED
  BY <1>10, <1>11, <1>15 DEF e

\* The verdict on a document is a record of its kind.
LEMMA VerdictOfReplay ==
  ASSUME NEW db, NEW ops, Document(db, ops), ChildrenFirst(db, ops), Applied(db, ops).ok
  PROVE  Applied(db, ops) = [ok |-> TRUE, db |-> Applied(db, ops).db]
<1> DEFINE L == Len(ops)
           u == Replay(db, ops)[L]
           v == u.ok /\ ReferencesHold(u.db)
<1>1. L \in Nat /\ L \in 0..L
  BY DEF Document
<1>2. u = [ok |-> u.ok, db |-> u.db] /\ u.ok \in BOOLEAN
  BY <1>1, WholeReplay
<1>3. Applied(db, ops) = [u EXCEPT !.ok = v]
  BY DEF Applied
<1>4. v \in BOOLEAN
  BY <1>2
<1> HIDE DEF u, v
<1>5. [[ok |-> u.ok, db |-> u.db] EXCEPT !.ok = v] = [ok |-> v, db |-> u.db]
  BY Verdict
<1> DEFINE a == Applied(db, ops)
<1>6. a = [ok |-> v, db |-> u.db]
  BY <1>2, <1>3, <1>5
<1> HIDE DEF a
<1>7. a.ok = v /\ a.db = u.db
  BY <1>6
<1>8. v = TRUE
  BY <1>4, <1>7 DEF a
<1>9. QED
  BY <1>6, <1>7, <1>8 DEF a

\* The verdict on a plan.
LEMMA VerdictOfPlan ==
  ASSUME NEW db, NEW c, Sound(db), CandidateFits(c), Bindable(db, c), Applied(db, PlanOf(db, c)).ok
  PROVE  Applied(db, PlanOf(db, c)) = [ok |-> TRUE, db |-> Applied(db, PlanOf(db, c)).db]
<1> DEFINE plan == PlanOf(db, c)
<1>1. PlanFacts(db, c, plan)
  BY PlanFactsHold
<1> HIDE DEF plan
<1>2. Document(db, plan) /\ ChildrenFirst(db, plan)
  BY <1>1, PlanIsDocument, PlanDeletesChildrenFirst
<1>3. Applied(db, plan).ok
  BY DEF plan
<1>4. Applied(db, plan) = [ok |-> TRUE, db |-> Applied(db, plan).db]
  BY <1>2, <1>3, VerdictOfReplay
<1>5. QED
  BY <1>4 DEF plan

\* A delta that is allowed deletes from no table that only grows.
LEMMA DeletesAreAllowed ==
  ASSUME NEW base, NEW target, Sound(base), Sound(target), NEW ops, ops = DeltaOperations(base, target),
         \A n \in DOMAIN ops : ops[n].action \in Allowed[ops[n].id[1]]
  PROVE  DeletesAllowed(base, target)
<1>1. DeltaFacts(base, target, ops)
  BY DeltaFactsHold
<1>2. DOMAIN ops = 1..Len(ops)
  <2>1. OnePerRow(DeltaSet(base, target))
    BY DeltaIsOnePerRow
  <2>2. ops = Ordered(DeltaSet(base, target), DeltaRank)
    BY DEF DeltaOperations, DeltaSet
  <2>3. QED
    BY <2>1, <2>2, DeltaIsListed DEF Lists
<1>3. SUFFICES ASSUME NEW x \in DOMAIN base \ DOMAIN target PROVE "delete" \in Allowed[x[1]]
  BY DEF DeletesAllowed
<1>4. Row(base, x) # Absent /\ Row(target, x) = Absent
  BY <1>3 DEF Row, Sound, IsDb
<1>5. PICK n \in 1..Len(ops) : ops[n].id = x
  BY <1>1, <1>4 DEF DeltaFacts
<1>6. ops[n].action = "delete"
  BY <1>1, <1>4, <1>5 DEF DeltaFacts
<1>7. QED
  BY <1>2, <1>5, <1>6

-----------------------------------------------------------------------------
\* A candidate that fits the rows of a release, and the copy its mutations make of them.
Bound(c, db) == CandidateFits(c) /\ ValidCandidate(c) /\ Bindable(db, c)
Packaged(c, db, s) == Bound(c, db) /\ Applied(db, PlanOf(db, c)) = [ok |-> TRUE, db |-> s]

\* What a package holds.
LEMMA PackageHolds ==
  ASSUME NEW db, Sound(db), Markers(db), NEW c, NEW s, Packaged(c, db, s)
  PROVE  /\ Staged(db, c, s) /\ Sound(s) /\ Markers(s) /\ NoCrossing(db, s)
         /\ c.candidateId \in Nat \ {0} /\ c.base # c.candidateId
         /\ \A x \in RowsOf(s, "content_releases") : s[x].candidate # c.candidateId
         /\ Latest(s).id # c.candidateId
<1>1. CandidateFits(c) /\ Bindable(db, c) /\ Applied(db, PlanOf(db, c)) = [ok |-> TRUE, db |-> s]
  BY DEF Packaged, Bound
<1>2. Staged(db, c, s) /\ Sound(s) /\ NoCrossing(db, s)
  BY <1>1, StagingHolds
<1>3. /\ RowsOf(s, "content_releases") = RowsOf(db, "content_releases")
      /\ \A x \in RowsOf(db, "content_releases") : s[x] = db[x]
  BY <1>1, <1>2, MarkersAreKept
<1>4. Markers(s)
  BY <1>3 DEF Markers
<1>5. \A x \in RowsOf(s, "content_releases") : s[x].candidate # c.candidateId
  BY <1>1, <1>3 DEF Bindable
<1>6. Latest(s).id # c.candidateId
  BY <1>4, <1>5, LatestMarker DEF Markers
<1>7. c.candidateId \in Nat \ {0} /\ c.base # c.candidateId
  BY <1>1, BoundToAnother DEF CandidateFits
<1>8. QED
  BY <1>2, <1>4, <1>5, <1>6, <1>7

\* The staging copy of a package, or its marked copy.
Copies(c, s) == {s, MarkedFrom(s, c.candidateId)}

\* What a release file holds.
LEMMA CopyHolds ==
  ASSUME NEW db, Sound(db), Markers(db), NEW c, NEW s, Packaged(c, db, s), NEW e \in Copies(c, s)
  PROVE  Sound(e) /\ Markers(e) /\ SameContent(e, s) /\ NoCrossing(db, e)
<1>1. /\ Staged(db, c, s) /\ Sound(s) /\ Markers(s) /\ NoCrossing(db, s) /\ c.candidateId \in Nat
      /\ \A x \in RowsOf(s, "content_releases") : s[x].candidate # c.candidateId
  BY PackageHolds
<1>2. CASE e = s
  BY <1>1, <1>2 DEF SameContent, Sound
<1>3. CASE e = MarkedFrom(s, c.candidateId)
  <2>1. /\ Sound(e) /\ Markers(e) /\ SameContent(e, s)
        /\ MarkerRow(c.candidateId) \notin DOMAIN s
        /\ \A x : x # MarkerRow(c.candidateId) => Row(e, x) = Row(s, x)
    BY <1>1, <1>3, MarkedHolds
  <2>2. \A x : x[1] = "content_releases" => Row(s, x) = Row(db, x)
    BY <1>1, MarkersAreKept DEF Packaged, Bound
  <2>3. IsDb(db) /\ IsDb(s) /\ IsDb(e)
    BY <1>1, <2>1 DEF Sound
  <2>4. NoCrossing(db, e)
    BY <1>1, <2>1, <2>2, <2>3, MarkerCrossesNothing
  <2>5. QED
    BY <2>1, <2>4
<1>4. QED
  BY <1>2, <1>3 DEF Copies

\* A release file says what its candidate asks for, and nothing else has changed.
LEMMA CopyIsDesired ==
  ASSUME NEW db, Sound(db), Markers(db), NEW c, NEW s, Packaged(c, db, s), NEW e \in Copies(c, s)
  PROVE  /\ Asked(e, c)
         /\ \A id \in DOMAIN State(db) \cup DOMAIN State(e) :
              About(id, c) \/ Row(State(db), id) = Row(State(e), id)
<1>1. Staged(db, c, s) /\ Sound(s) /\ SameContent(e, s)
  BY PackageHolds, CopyHolds
<1>2. CandidateFits(c) /\ ValidCandidate(c) /\ Bindable(db, c)
  BY DEF Packaged, Bound
<1>3. Asked(e, c)
  BY <1>1, <1>2, StagedAsAsked
<1>4. ASSUME NEW d, NEW id
      PROVE  /\ id \in DOMAIN State(d) => id[1] # "content_releases"
             /\ id[1] # "content_releases" => Row(State(d), id) = Row(d, id)
  BY DEF State, Without, RowsOf, Row
<1>5. ASSUME NEW id \in DOMAIN State(db) \cup DOMAIN State(e), ~About(id, c)
      PROVE  Row(State(db), id) = Row(State(e), id)
  <2>1. id[1] # "content_releases"
    BY <1>4, <1>5
  <2>2. Row(State(db), id) = Row(db, id) /\ Row(State(e), id) = Row(e, id)
    BY <1>4, <2>1
  <2>3. Row(e, id) = Row(s, id)
    BY <1>1, <2>1 DEF SameContent
  <2>4. Row(s, id) = Row(db, id)
    BY <1>1, <1>2, <1>5, StagedElsewhere
  <2>5. QED
    BY <2>2, <2>3, <2>4
<1>6. QED
  BY <1>3, <1>5
===============================================================================
