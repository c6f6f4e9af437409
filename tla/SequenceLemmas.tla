--------------------------- MODULE SequenceLemmas ---------------------------
(***************************************************************************)
(* Induction over the natural numbers with the induction hypothesis as a   *)
(* set, and what it gives about the sequence operators of the models.      *)
(***************************************************************************)
EXTENDS Integers, Sequences, SequencesExt, Selection, FiniteSets, FiniteSetTheorems, FunctionTheorems,
        SequenceTheorems, TLAPS

\* A set of numbers that holds 0, and with a number the next one, holds them
\* all: otherwise its members below a missing one would be mapped one to one
\* onto fewer.
LEMMA SetInduction ==
  ASSUME NEW S \in SUBSET Nat, 0 \in S, \A n \in S : n + 1 \in S
  PROVE  S = Nat
<1>1. SUFFICES ASSUME NEW m \in Nat, m \notin S PROVE FALSE
  OBVIOUS
<1> DEFINE T == {k \in S : k <= m}
<1> DEFINE next == [k \in T |-> k + 1]
<1>2. IsFiniteSet(T) /\ IsFiniteSet(T \ {0})
  <2>1. T \in SUBSET Nat /\ \A k \in T : k <= m
    OBVIOUS
  <2>2. IsFiniteSet(T)
    BY <2>1, FS_BoundedSetOfNaturals
  <2> QED BY <2>2, FS_RemoveElement
<1>3. 0 \in T
  BY <1>1
<1>4. next \in Injection(T, T \ {0})
  <2>1. \A k \in T : k \in Nat /\ k + 1 \in S /\ k # m /\ k + 1 <= m /\ k + 1 # 0
    BY <1>1
  <2>2. next \in [T -> T \ {0}]
    BY <2>1
  <2> QED BY <2>1, <2>2 DEF Injection, IsInjective
<1>5. Cardinality(T) <= Cardinality(T \ {0})
  BY <1>2, <1>4, FS_Injection
<1>6. Cardinality(T \ {0}) = Cardinality(T) - 1 /\ Cardinality(T) \in Nat
  BY <1>2, <1>3, FS_RemoveElement, FS_CardinalityType
<1> QED BY <1>5, <1>6

\* The concatenations that FlattenSeq goes through, for the first n sequences.
IsFlattening(f, seqs, n) ==
    f = [i \in 1..n |-> IF i = 1 THEN seqs[i] ELSE f[i - 1] \o seqs[i]]

LEMMA FlatteningExists ==
  ASSUME NEW seqs, NEW n \in Nat
  PROVE  \E f : IsFlattening(f, seqs, n)
<1> DEFINE S == {m \in Nat : \E f : IsFlattening(f, seqs, m)}
<1>1. 0 \in S
  <2>1. IsFlattening([i \in 1..0 |-> i], seqs, 0)
    BY DEF IsFlattening
  <2> QED BY <2>1
<1>2. ASSUME NEW m \in S PROVE m + 1 \in S
  <2>1. PICK f : IsFlattening(f, seqs, m)
    BY <1>2
  <2>2. m \in Nat
    BY <1>2
  <2> DEFINE last == IF m + 1 = 1 THEN seqs[m + 1] ELSE f[m] \o seqs[m + 1]
  <2> DEFINE g == [i \in 1..(m + 1) |-> IF i = m + 1 THEN last ELSE f[i]]
  <2> HIDE DEF last
  <2>3. \A i \in 1..(m + 1) : i # 1 => g[i - 1] = f[i - 1]
    BY <2>2
  <2>4. \A i \in 1..(m + 1) :
            g[i] = IF i = 1 THEN seqs[i] ELSE g[i - 1] \o seqs[i]
    <3>1. TAKE i \in 1..(m + 1)
    <3>2. CASE i = m + 1
      BY <2>2, <2>3, <3>2 DEF last
    <3>3. CASE i # m + 1
      <4>1. i \in 1..m
        BY <2>2, <3>3
      <4>2. f[i] = IF i = 1 THEN seqs[i] ELSE f[i - 1] \o seqs[i]
        BY <2>1, <4>1 DEF IsFlattening
      <4> QED BY <2>3, <3>3, <4>2
    <3> QED BY <3>2, <3>3
  <2>5. IsFlattening(g, seqs, m + 1)
    BY <2>4 DEF IsFlattening
  <2> QED BY <2>2, <2>5
<1>3. S = Nat
  <2> HIDE DEF S
  <2>1. S \in SUBSET Nat
    BY DEF S
  <2> QED BY <1>1, <1>2, <2>1, SetInduction
<1> QED BY <1>3

LEMMA FlattenSeqDef ==
  ASSUME NEW T, NEW seqs \in Seq(T), Len(seqs) # 0
  PROVE  \E f : IsFlattening(f, seqs, Len(seqs)) /\ FlattenSeq(seqs) = f[Len(seqs)]
<1> DEFINE flat == CHOOSE f : IsFlattening(f, seqs, Len(seqs))
<1>1. Len(seqs) \in Nat
  OBVIOUS
<1>2. \E f : IsFlattening(f, seqs, Len(seqs))
  BY <1>1, FlatteningExists
<1>3. IsFlattening(flat, seqs, Len(seqs))
  BY <1>2
<1>4. FlattenSeq(seqs) = flat[Len(seqs)]
  BY Zenon DEF FlattenSeq, IsFlattening
<1> QED BY <1>3, <1>4
\* A flat sequence of what the first n sequences hold, in their order: each of
\* its elements is of one of them, those of an earlier one come first, and no
\* element of theirs is missing.
FlatOf(flat, seqs, n, T) ==
    /\ flat \in Seq(T)
    /\ \E own \in [1..Len(flat) -> 1..n] :
          /\ \A k \in 1..Len(flat) : \E j \in DOMAIN seqs[own[k]] : flat[k] = seqs[own[k]][j]
          /\ \A k, l \in 1..Len(flat) : k < l => own[k] <= own[l]
    /\ \A i \in 1..n : \A j \in DOMAIN seqs[i] : \E k \in 1..Len(flat) : flat[k] = seqs[i][j]

LEMMA FlatOfFirst ==
  ASSUME NEW T, NEW seqs \in Seq(Seq(T)), Len(seqs) # 0
  PROVE  FlatOf(seqs[1], seqs, 1, T)
<1> DEFINE flat == seqs[1]
<1>1. flat \in Seq(T) /\ DOMAIN flat = 1..Len(flat)
  OBVIOUS
<1> DEFINE own == [k \in 1..Len(flat) |-> 1]
<1>2. own \in [1..Len(flat) -> 1..1]
  OBVIOUS
<1>3. \A k \in 1..Len(flat) : \E j \in DOMAIN seqs[own[k]] : flat[k] = seqs[own[k]][j]
  BY <1>1
<1>4. \A k, l \in 1..Len(flat) : k < l => own[k] <= own[l]
  OBVIOUS
<1>5. \A i \in 1..1 : \A j \in DOMAIN seqs[i] : \E k \in 1..Len(flat) : flat[k] = seqs[i][j]
  BY <1>1
<1> QED BY <1>1, <1>2, <1>3, <1>4, <1>5 DEF FlatOf

LEMMA FlatOfNext ==
  ASSUME NEW T, NEW seqs \in Seq(Seq(T)), NEW n \in Nat, n + 1 <= Len(seqs),
         NEW flat, FlatOf(flat, seqs, n, T)
  PROVE  FlatOf(flat \o seqs[n + 1], seqs, n + 1, T)
<1> DEFINE add == seqs[n + 1]
<1> DEFINE all == flat \o add
<1>1. /\ flat \in Seq(T) /\ add \in Seq(T) /\ all \in Seq(T)
      /\ Len(flat) \in Nat /\ Len(add) \in Nat /\ Len(all) = Len(flat) + Len(add)
      /\ DOMAIN add = 1..Len(add)
  BY DEF FlatOf
<1>2. \A k \in 1..Len(all) : all[k] = IF k <= Len(flat) THEN flat[k] ELSE add[k - Len(flat)]
  BY <1>1
<1>3. PICK own \in [1..Len(flat) -> 1..n] :
          /\ \A k \in 1..Len(flat) : \E j \in DOMAIN seqs[own[k]] : flat[k] = seqs[own[k]][j]
          /\ \A k, l \in 1..Len(flat) : k < l => own[k] <= own[l]
  BY DEF FlatOf
<1>4. \A i \in 1..n : \A j \in DOMAIN seqs[i] : \E k \in 1..Len(flat) : flat[k] = seqs[i][j]
  BY DEF FlatOf
<1> DEFINE owner == [k \in 1..Len(all) |-> IF k <= Len(flat) THEN own[k] ELSE n + 1]
<1> HIDE DEF all, add
<1>5. owner \in [1..Len(all) -> 1..(n + 1)]
  BY <1>1
<1>6. ASSUME NEW k \in 1..Len(all)
      PROVE  \E j \in DOMAIN seqs[owner[k]] : all[k] = seqs[owner[k]][j]
  <2>1. CASE k <= Len(flat)
    <3>1. k \in 1..Len(flat) /\ owner[k] = own[k] /\ all[k] = flat[k]
      BY <1>1, <1>2, <1>6, <2>1
    <3> QED BY <1>3, <3>1
  <2>2. CASE ~(k <= Len(flat))
    <3>1. owner[k] = n + 1 /\ all[k] = add[k - Len(flat)] /\ k - Len(flat) \in DOMAIN add
      BY <1>1, <1>2, <1>6, <2>2
    <3> QED BY <3>1 DEF add
  <2> QED BY <2>1, <2>2
<1>7. ASSUME NEW k \in 1..Len(all), NEW l \in 1..Len(all), k < l
      PROVE  owner[k] <= owner[l]
  <2>1. \A h \in 1..Len(all) : owner[h] = IF h <= Len(flat) THEN own[h] ELSE n + 1
    OBVIOUS
  <2>2. \A h \in 1..Len(flat) : own[h] \in 1..n
    BY <1>3
  <2>3. CASE l <= Len(flat)
    <3>1. k \in 1..Len(flat) /\ l \in 1..Len(flat)
      BY <1>1, <1>7, <2>3
    <3>2. own[k] <= own[l]
      BY <1>3, <1>7, <3>1
    <3> QED BY <1>1, <1>7, <2>1, <3>1, <3>2
  <2>4. CASE ~(l <= Len(flat))
    <3>1. owner[l] = n + 1 /\ owner[k] \in 1..(n + 1)
      BY <1>5, <1>7, <2>1, <2>4
    <3> QED BY <3>1
  <2> QED BY <2>3, <2>4
<1>8. ASSUME NEW i \in 1..(n + 1), NEW j \in DOMAIN seqs[i]
      PROVE  \E k \in 1..Len(all) : all[k] = seqs[i][j]
  <2>1. CASE i <= n
    <3>1. PICK k \in 1..Len(flat) : flat[k] = seqs[i][j]
      BY <1>4, <1>8, <2>1
    <3>2. k \in 1..Len(all) /\ all[k] = flat[k]
      BY <1>1, <1>2, <3>1
    <3> QED BY <3>1, <3>2
  <2>2. CASE i = n + 1
    <3>1. j \in 1..Len(add) /\ add[j] = seqs[i][j]
      BY <1>1, <1>8, <2>2 DEF add
    <3>2. Len(flat) + j \in 1..Len(all) /\ all[Len(flat) + j] = add[j]
      <4> DEFINE k == Len(flat) + j
      <4>1. k \in 1..Len(all) /\ ~(k <= Len(flat)) /\ k - Len(flat) = j
        BY <1>1, <3>1
      <4> HIDE DEF k
      <4>2. all[k] = add[j]
        BY <1>2, <4>1
      <4> QED BY <4>1, <4>2 DEF k
    <3> QED BY <3>1, <3>2
  <2>3. i <= n \/ i = n + 1
    BY <1>8
  <2> QED BY <2>1, <2>2, <2>3
<1>9. FlatOf(all, seqs, n + 1, T)
  BY <1>1, <1>5, <1>6, <1>7, <1>8 DEF FlatOf
<1> QED BY <1>9 DEF all, add

\* FlattenSeq drops nothing, invents nothing and keeps the order.
LEMMA FlattenSeqFlat ==
  ASSUME NEW T, NEW seqs \in Seq(Seq(T)), Len(seqs) # 0
  PROVE  FlatOf(FlattenSeq(seqs), seqs, Len(seqs), T)
<1>1. PICK f : IsFlattening(f, seqs, Len(seqs)) /\ FlattenSeq(seqs) = f[Len(seqs)]
  BY FlattenSeqDef
<1> DEFINE N == Len(seqs)
<1>2. N \in Nat /\ N # 0
  OBVIOUS
<1> HIDE DEF N
<1>3. \A i \in 1..N : f[i] = IF i = 1 THEN seqs[i] ELSE f[i - 1] \o seqs[i]
  BY <1>1 DEF IsFlattening, N
<1> DEFINE P(m) == m + 1 <= N => FlatOf(f[m + 1], seqs, m + 1, T)
<1> DEFINE S == {m \in Nat : P(m)}
<1>4. 0 \in S
  BY <1>2, <1>3, FlatOfFirst DEF N
<1>5. ASSUME NEW m \in S PROVE m + 1 \in S
  <2>1. m \in Nat /\ P(m)
    BY <1>5
  <2>2. SUFFICES ASSUME m + 2 <= N PROVE FlatOf(f[m + 2], seqs, m + 2, T)
    BY <2>1
  <2>3. FlatOf(f[m + 1], seqs, m + 1, T)
    BY <1>2, <2>1, <2>2
  <2>4. f[m + 2] = f[m + 1] \o seqs[m + 2]
    <3>1. m + 2 \in 1..N /\ m + 2 # 1 /\ (m + 2) - 1 = m + 1
      BY <1>2, <2>1, <2>2
    <3>2. f[m + 2] = IF m + 2 = 1 THEN seqs[m + 2] ELSE f[(m + 2) - 1] \o seqs[m + 2]
      BY <1>3, <3>1
    <3> QED BY <3>1, <3>2
  <2>5. m + 1 \in Nat /\ (m + 1) + 1 = m + 2 /\ m + 2 <= Len(seqs)
    BY <2>1, <2>2 DEF N
  <2> QED BY <2>3, <2>4, <2>5, FlatOfNext
<1>6. S = Nat
  <2>1. S \in SUBSET Nat
    OBVIOUS
  <2> HIDE DEF S
  <2> QED BY <1>4, <1>5, <2>1, SetInduction
<1>7. N - 1 \in S /\ (N - 1) + 1 = N
  <2>1. N - 1 \in Nat /\ (N - 1) + 1 = N
    BY <1>2
  <2> HIDE DEF S
  <2> QED BY <1>6, <2>1
<1>8. FlatOf(f[N], seqs, N, T)
  BY <1>2, <1>7
<1> QED BY <1>1, <1>8 DEF N
-----------------------------------------------------------------------------
(* Slices, concatenation and removal, and the sets of their elements *)

LEMMA SubSeqFacts ==
  ASSUME NEW S, NEW s \in Seq(S), NEW m \in Nat \ {0}, NEW n \in Nat, n <= Len(s)
  PROVE  /\ SubSeq(s, m, n) \in Seq(S)
         /\ Len(SubSeq(s, m, n)) = IF m <= n THEN n - m + 1 ELSE 0
         /\ \A i \in 1..Len(SubSeq(s, m, n)) : SubSeq(s, m, n)[i] = s[m + i - 1]
<1>1. \A i \in m..n : s[i] \in S
  BY ElementOfSeq
<1> QED BY <1>1, SubSeqProperties

LEMMA ConcatType ==
  ASSUME NEW S, NEW s \in Seq(S), NEW t \in Seq(S)
  PROVE  s \o t \in Seq(S) /\ Len(s \o t) = Len(s) + Len(t)
         /\ (\A i \in 1..Len(s) : (s \o t)[i] = s[i])
  BY ConcatProperties

LEMMA PrefixOfConcat ==
  ASSUME NEW S, NEW s \in Seq(S), NEW t \in Seq(S)
  PROVE  IsPrefix(s, s \o t)
<1>1. /\ s \o t \in Seq(S) /\ Len(s) <= Len(s \o t) /\ Len(s) \in Nat /\ Len(s \o t) \in Nat
      /\ \A i \in 1..Len(s) : (s \o t)[i] = s[i]
  BY ConcatType, LenProperties
<1>2. /\ SubSeq(s, 1, Len(s)) = s
      /\ SubSeq(s \o t, 1, Len(s)) \in Seq(S) /\ Len(SubSeq(s \o t, 1, Len(s))) = Len(s)
      /\ \A i \in 1..Len(s) : SubSeq(s \o t, 1, Len(s))[i] = (s \o t)[i]
  <2>1. SubSeq(s, 1, Len(s)) = s
    BY SubSeqFull
  <2> DEFINE u == s \o t
  <2> HIDE DEF u
  <2>2. u \in Seq(S) /\ Len(s) <= Len(u) /\ Len(s) \in Nat
    BY <1>1 DEF u
  <2>3. /\ SubSeq(u, 1, Len(s)) \in Seq(S)
        /\ Len(SubSeq(u, 1, Len(s))) = IF 1 <= Len(s) THEN Len(s) - 1 + 1 ELSE 0
        /\ \A i \in 1..Len(SubSeq(u, 1, Len(s))) : SubSeq(u, 1, Len(s))[i] = u[1 + i - 1]
    BY <2>2, SubSeqFacts
  <2>4. Len(SubSeq(u, 1, Len(s))) = Len(s)
    BY <2>2, <2>3
  <2>5. \A i \in 1..Len(s) : SubSeq(u, 1, Len(s))[i] = u[i]
    BY <2>2, <2>3, <2>4
  <2> QED BY <2>1, <2>3, <2>4, <2>5 DEF u
<1>3. SubSeq(s \o t, 1, Len(s)) = s
  BY <1>1, <1>2, SeqEqual
<1> QED BY <1>1, <1>2, <1>3 DEF IsPrefix

LEMMA ToSetFacts ==
  ASSUME NEW S, NEW s \in Seq(S)
  PROVE  /\ ToSet(s) \subseteq S
         /\ ToSet(s) = {s[i] : i \in 1..Len(s)}
         /\ s \in Seq(ToSet(s))
         /\ ToSet(s) = {} <=> s = <<>>
<1>1. DOMAIN s = 1..Len(s) /\ Len(s) \in Nat /\ \A i \in 1..Len(s) : s[i] \in S
  BY LenProperties, ElementOfSeq
<1>2. ToSet(s) = {s[i] : i \in 1..Len(s)} /\ ToSet(s) \subseteq S
  BY <1>1 DEF ToSet
<1>3. s \in Seq(ToSet(s))
  <2>1. s \in [1..Len(s) -> ToSet(s)]
    BY <1>1, <1>2, LenProperties
  <2> QED BY <1>1, <2>1, SeqDef
<1>4. ToSet(s) = {} <=> s = <<>>
  <2>1. CASE s = <<>>
    <3>1. Len(s) = 0
      BY <2>1, EmptySeq
    <3> QED BY <1>2, <2>1, <3>1
  <2>2. CASE s # <<>>
    <3>1. 1 \in 1..Len(s)
      BY <1>1, <2>2, EmptySeq
    <3> QED BY <1>2, <2>2, <3>1
  <2> QED BY <2>1, <2>2
<1> QED BY <1>2, <1>3, <1>4

LEMMA ToSetConcat ==
  ASSUME NEW S, NEW s \in Seq(S), NEW t \in Seq(S)
  PROVE  ToSet(s \o t) = ToSet(s) \cup ToSet(t)
<1> DEFINE u == s \o t
<1>1. /\ u \in Seq(S) /\ Len(u) = Len(s) + Len(t) /\ Len(s) \in Nat /\ Len(t) \in Nat
      /\ \A i \in 1..Len(s) + Len(t) : u[i] = IF i <= Len(s) THEN s[i] ELSE t[i - Len(s)]
  BY ConcatProperties, LenProperties
<1> HIDE DEF u
<1>2. ToSet(u) = {u[i] : i \in 1..Len(u)} /\ ToSet(s) = {s[i] : i \in 1..Len(s)}
      /\ ToSet(t) = {t[i] : i \in 1..Len(t)}
  BY <1>1, ToSetFacts
<1>3. ASSUME NEW i \in 1..Len(u) PROVE u[i] \in ToSet(s) \cup ToSet(t)
  <2>1. CASE i <= Len(s)
    BY <1>1, <1>2, <1>3, <2>1
  <2>2. CASE ~(i <= Len(s))
    <3>1. i - Len(s) \in 1..Len(t) /\ u[i] = t[i - Len(s)]
      BY <1>1, <1>3, <2>2
    <3> QED BY <1>2, <3>1
  <2> QED BY <2>1, <2>2
<1>4. ASSUME NEW i \in 1..Len(s) PROVE s[i] \in ToSet(u)
  <2>1. i \in 1..Len(u) /\ u[i] = s[i]
    BY <1>1, <1>4
  <2> QED BY <1>2, <2>1
<1>5. ASSUME NEW i \in 1..Len(t) PROVE t[i] \in ToSet(u)
  <2> DEFINE j == Len(s) + i
  <2>1. j \in 1..Len(u) /\ ~(j <= Len(s)) /\ j - Len(s) = i
    BY <1>1, <1>5
  <2> HIDE DEF j
  <2>2. u[j] = t[i]
    BY <1>1, <2>1
  <2> QED BY <1>2, <2>1, <2>2
<1>6. ToSet(u) = ToSet(s) \cup ToSet(t)
  BY <1>2, <1>3, <1>4, <1>5
<1> QED BY <1>6 DEF u

LEMMA ToSetOne ==
  ASSUME NEW S, NEW x \in S
  PROVE  <<x>> \in Seq(S) /\ ToSet(<<x>>) = {x} /\ Len(<<x>>) = 1 /\ <<x>>[1] = x
<1> DEFINE s == <<x>>
<1>1. s \in Seq(S) /\ Len(s) = 1 /\ s[1] = x /\ DOMAIN s = {1}
  OBVIOUS
<1>2. s \in Seq(S) /\ Len(s) = 1 /\ s[1] = x
  BY <1>1
<1> HIDE DEF s
<1>3. ToSet(s) = {s[i] : i \in {1}}
  BY <1>1 DEF ToSet
<1>4. ToSet(s) = {x}
  BY <1>2, <1>3
<1> QED BY <1>2, <1>4 DEF s

LEMMA ToSetAppend ==
  ASSUME NEW S, NEW s \in Seq(S), NEW x \in S
  PROVE  ToSet(Append(s, x)) = ToSet(s) \cup {x}
<1> DEFINE t == <<x>>
<1>1. t \in Seq(S) /\ ToSet(t) = {x}
  BY ToSetOne
<1>2. Append(s, x) = s \o t
  BY AppendIsConcat
<1> HIDE DEF t
<1> QED BY <1>1, <1>2, ToSetConcat

\* A sequence is its first n elements and the rest.
LEMMA SplitAt ==
  ASSUME NEW S, NEW s \in Seq(S), NEW n \in 0..Len(s)
  PROVE  /\ SubSeq(s, 1, n) \in Seq(S) /\ SubSeq(s, n + 1, Len(s)) \in Seq(S)
         /\ Len(SubSeq(s, 1, n)) = n /\ Len(SubSeq(s, n + 1, Len(s))) = Len(s) - n
         /\ s = SubSeq(s, 1, n) \o SubSeq(s, n + 1, Len(s))
         /\ ToSet(s) = ToSet(SubSeq(s, 1, n)) \cup ToSet(SubSeq(s, n + 1, Len(s)))
<1>1. Len(s) \in Nat /\ n \in Nat /\ n <= Len(s)
  BY LenProperties
<1>2. /\ SubSeq(s, 1, n) \in Seq(S)
      /\ Len(SubSeq(s, 1, n)) = IF 1 <= n THEN n - 1 + 1 ELSE 0
  BY <1>1, SubSeqFacts
<1>3. /\ SubSeq(s, n + 1, Len(s)) \in Seq(S)
      /\ Len(SubSeq(s, n + 1, Len(s))) = IF n + 1 <= Len(s) THEN Len(s) - (n + 1) + 1 ELSE 0
  <2>1. n + 1 \in Nat \ {0}
    BY <1>1
  <2> QED BY <1>1, <2>1, SubSeqFacts
<1>4. s = SubSeq(s, 1, n) \o SubSeq(s, n + 1, Len(s))
  <2>1. 1 \in 1..Len(s) + 1 /\ n \in 1 - 1..Len(s) /\ Len(s) \in n..Len(s)
    BY <1>1
  <2>2. SubSeq(s, 1, n) \o SubSeq(s, n + 1, Len(s)) = SubSeq(s, 1, Len(s))
    BY <2>1, ConcatAdjacentSubSeq
  <2> QED BY <2>2, SubSeqFull
<1>5. ToSet(s) = ToSet(SubSeq(s, 1, n)) \cup ToSet(SubSeq(s, n + 1, Len(s)))
  <2> DEFINE a == SubSeq(s, 1, n)
             b == SubSeq(s, n + 1, Len(s))
  <2>1. a \in Seq(S) /\ b \in Seq(S) /\ s = a \o b
    BY <1>2, <1>3, <1>4
  <2> HIDE DEF a, b
  <2>2. ToSet(a \o b) = ToSet(a) \cup ToSet(b)
    BY ONLY <2>1, ToSetConcat
  <2>3. ToSet(s) = ToSet(a) \cup ToSet(b)
    BY <2>1, <2>2, Zenon
  <2> QED BY <2>3 DEF a, b
<1>6. Len(SubSeq(s, 1, n)) = n /\ Len(SubSeq(s, n + 1, Len(s))) = Len(s) - n
  BY <1>1, <1>2, <1>3
<1> QED BY <1>2, <1>3, <1>4, <1>5, <1>6

LEMMA HeadTail ==
  ASSUME NEW S, NEW s \in Seq(S), s # <<>>
  PROVE  /\ Head(s) \in S /\ Tail(s) \in Seq(S) /\ s = <<Head(s)>> \o Tail(s)
         /\ <<Head(s)>> \in Seq(S) /\ Head(s) = s[1] /\ 1 \in 1..Len(s)
         /\ ToSet(s) = {Head(s)} \cup ToSet(Tail(s))
<1>1. Head(s) \in S /\ Tail(s) \in Seq(S) /\ Head(s) = s[1] /\ 1 \in 1..Len(s)
  BY HeadTailProperties, EmptySeq, LenProperties
<1>2. <<Head(s)>> \in Seq(S) /\ Len(<<Head(s)>>) = 1 /\ <<Head(s)>>[1] = Head(s)
  BY <1>1
<1>3. s = <<Head(s)>> \o Tail(s)
  <2>1. 1 \in 1..Len(s) /\ Len(s) \in 1..Len(s)
    BY EmptySeq
  <2>2. SubSeq(s, 1, Len(s)) = <<s[1]>> \o SubSeq(s, 1 + 1, Len(s))
    BY <2>1, SubSeqRecursiveFirst
  <2>3. Tail(s) = SubSeq(s, 2, Len(s)) /\ SubSeq(s, 1, Len(s)) = s
    BY TailIsSubSeq, SubSeqFull
  <2> QED BY <1>1, <2>2, <2>3
<1>4. ToSet(s) = {Head(s)} \cup ToSet(Tail(s))
  <2> DEFINE t == <<Head(s)>>
             r == Tail(s)
  <2>1. t \in Seq(S) /\ ToSet(t) = {Head(s)} /\ s = t \o r /\ r \in Seq(S)
    BY <1>1, <1>3, ToSetOne
  <2> HIDE DEF t, r
  <2>2. ToSet(t \o r) = ToSet(t) \cup ToSet(r)
    BY <2>1, ToSetConcat
  <2>3. ToSet(s) = {Head(s)} \cup ToSet(r)
    BY <2>1, <2>2
  <2> QED BY <2>3 DEF r
<1> QED BY <1>1, <1>2, <1>3, <1>4

LEMMA RemoveAtType ==
  ASSUME NEW S, NEW s \in Seq(S), NEW i \in DOMAIN s
  PROVE  RemoveAt(s, i) \in Seq(S)
  BY DEF RemoveAt

\* Removal closes the gap: what stood behind the removed element moves up.
LEMMA RemoveAtFacts ==
  ASSUME NEW S, NEW s \in Seq(S), NEW i \in 1..Len(s)
  PROVE  /\ RemoveAt(s, i) \in Seq(S) /\ Len(RemoveAt(s, i)) = Len(s) - 1
         /\ \A j \in 1..Len(s) - 1 : RemoveAt(s, i)[j] = IF j < i THEN s[j] ELSE s[j + 1]
<1> DEFINE a == SubSeq(s, 1, i - 1)
           b == SubSeq(s, i + 1, Len(s))
<1>1. Len(s) \in Nat /\ i \in Nat \ {0} /\ i <= Len(s) /\ i - 1 \in Nat /\ i - 1 <= Len(s)
      /\ i + 1 \in Nat \ {0}
  BY LenProperties
<1>2. /\ a \in Seq(S) /\ Len(a) = IF 1 <= i - 1 THEN (i - 1) - 1 + 1 ELSE 0
      /\ \A j \in 1..Len(a) : a[j] = s[1 + j - 1]
  BY <1>1, SubSeqFacts
<1>3. /\ b \in Seq(S) /\ Len(b) = IF i + 1 <= Len(s) THEN Len(s) - (i + 1) + 1 ELSE 0
      /\ \A j \in 1..Len(b) : b[j] = s[(i + 1) + j - 1]
  BY <1>1, SubSeqFacts
<1>4. RemoveAt(s, i) = a \o b
  BY DEF RemoveAt
<1> DEFINE u == a \o b
<1> HIDE DEF a, b
<1>5. /\ u \in Seq(S) /\ Len(u) = Len(a) + Len(b)
      /\ \A j \in 1..Len(a) + Len(b) : u[j] = IF j <= Len(a) THEN a[j] ELSE b[j - Len(a)]
  BY <1>2, <1>3, ConcatProperties
<1> HIDE DEF u
<1>6. Len(a) = i - 1 /\ Len(b) = Len(s) - i
  BY <1>1, <1>2, <1>3
<1>7. Len(u) = Len(s) - 1
  BY <1>1, <1>5, <1>6
<1>8. ASSUME NEW j \in 1..Len(s) - 1 PROVE u[j] = IF j < i THEN s[j] ELSE s[j + 1]
  <2>1. u[j] = IF j <= i - 1 THEN a[j] ELSE b[j - (i - 1)]
    BY <1>1, <1>5, <1>6, <1>7
  <2>2. CASE j < i
    <3>1. j \in 1..Len(a) /\ j <= i - 1 /\ 1 + j - 1 = j
      BY <1>1, <1>6, <2>2
    <3>2. a[j] = s[j]
      BY <1>2, <3>1
    <3> QED BY <2>1, <2>2, <3>1, <3>2
  <2>3. CASE ~(j < i)
    <3> DEFINE k == j - (i - 1)
    <3>1. k \in 1..Len(b) /\ ~(j <= i - 1) /\ (i + 1) + k - 1 = j + 1
      BY <1>1, <1>6, <2>3
    <3>2. u[j] = b[k]
      BY <2>1, <3>1
    <3> HIDE DEF k
    <3>3. b[k] = s[j + 1]
      BY <1>3, <3>1
    <3> QED BY <2>3, <3>2, <3>3
  <2> QED BY <2>2, <2>3
<1> QED BY <1>4, <1>5, <1>7, <1>8 DEF u
-----------------------------------------------------------------------------
(* Sequences without repetitions: lists of waiters *)

NoRepeats(s) == \A i, j \in 1..Len(s) : s[i] = s[j] => i = j

LEMMA TailFacts ==
  ASSUME NEW S, NEW s \in Seq(S), s # <<>>
  PROVE  /\ Tail(s) \in Seq(S) /\ Len(Tail(s)) = Len(s) - 1 /\ Len(s) \in Nat \ {0}
         /\ \A i \in 1..Len(s) - 1 : Tail(s)[i] = s[i + 1]
         /\ Head(s) = s[1] /\ Head(s) \in S
<1>1. Len(s) \in Nat \ {0}
  BY EmptySeq, LenProperties
<1> QED BY <1>1, HeadTailProperties

LEMMA NoRepeatsTail ==
  ASSUME NEW S, NEW s \in Seq(S), s # <<>>, NoRepeats(s)
  PROVE  NoRepeats(Tail(s)) /\ \A i \in 1..Len(Tail(s)) : Tail(s)[i] # Head(s)
<1> DEFINE t == Tail(s)
<1>1. /\ t \in Seq(S) /\ Len(t) = Len(s) - 1 /\ Len(s) \in Nat \ {0}
      /\ \A i \in 1..Len(s) - 1 : t[i] = s[i + 1]
      /\ Head(s) = s[1]
  BY TailFacts
<1> HIDE DEF t
<1>2. \A i \in 1..Len(t) : i + 1 \in 1..Len(s) /\ t[i] = s[i + 1] /\ i + 1 # 1
  BY <1>1
<1>3. \A i, j \in 1..Len(t) : i + 1 = j + 1 => i = j
  BY <1>1
<1>4. NoRepeats(t)
  BY <1>2, <1>3 DEF NoRepeats
<1>5. \A i \in 1..Len(t) : t[i] # Head(s)
  <2>1. 1 \in 1..Len(s)
    BY <1>1
  <2> QED BY <1>1, <1>2, <2>1 DEF NoRepeats
<1> QED BY <1>4, <1>5 DEF t

LEMMA NoRepeatsAppend ==
  ASSUME NEW S, NEW s \in Seq(S), NEW x \in S, NoRepeats(s), \A i \in 1..Len(s) : s[i] # x
  PROVE  /\ NoRepeats(Append(s, x)) /\ Append(s, x) \in Seq(S) /\ Len(Append(s, x)) = Len(s) + 1
         /\ \A i \in 1..Len(s) : Append(s, x)[i] = s[i]
         /\ Append(s, x)[Len(s) + 1] = x /\ Len(s) \in Nat
<1> DEFINE t == Append(s, x)
<1>1. /\ t \in Seq(S) /\ Len(t) = Len(s) + 1 /\ Len(s) \in Nat
      /\ \A i \in 1..Len(s) : t[i] = s[i]
      /\ t[Len(s) + 1] = x
  BY AppendProperties, LenProperties
<1> HIDE DEF t
<1>2. ASSUME NEW i \in 1..Len(t), NEW j \in 1..Len(t), t[i] = t[j] PROVE i = j
  <2>1. i \in 1..Len(s) \/ i = Len(s) + 1
    BY <1>1
  <2>2. j \in 1..Len(s) \/ j = Len(s) + 1
    BY <1>1
  <2> QED BY <1>1, <1>2, <2>1, <2>2 DEF NoRepeats
<1>3. NoRepeats(t)
  BY <1>2 DEF NoRepeats
<1> QED BY <1>1, <1>3 DEF t

LEMMA NoRepeatsRemove ==
  ASSUME NEW S, NEW s \in Seq(S), NEW i \in 1..Len(s), NoRepeats(s)
  PROVE  /\ NoRepeats(RemoveAt(s, i))
         /\ \A j \in 1..Len(RemoveAt(s, i)) :
               RemoveAt(s, i)[j] # s[i] /\ \E k \in 1..Len(s) : s[k] = RemoveAt(s, i)[j]
         /\ \A k \in 1..Len(s) :
               s[k] # s[i] => \E j \in 1..Len(RemoveAt(s, i)) : RemoveAt(s, i)[j] = s[k]
<1> DEFINE r == RemoveAt(s, i)
           pos(j) == IF j < i THEN j ELSE j + 1
<1>1. /\ r \in Seq(S) /\ Len(r) = Len(s) - 1
      /\ \A j \in 1..Len(s) - 1 : r[j] = IF j < i THEN s[j] ELSE s[j + 1]
  BY RemoveAtFacts
<1> HIDE DEF r
<1>2. Len(s) \in Nat /\ i \in Nat
  BY LenProperties
<1>3. ASSUME NEW j \in 1..Len(r) PROVE pos(j) \in 1..Len(s) /\ pos(j) # i /\ r[j] = s[pos(j)]
  <2>1. CASE j < i
    BY <1>1, <1>2, <2>1
  <2>2. CASE ~(j < i)
    <3>1. j + 1 \in 1..Len(s) /\ j + 1 # i /\ r[j] = s[j + 1]
      BY <1>1, <1>2, <2>2
    <3> QED BY <2>2, <3>1
  <2> QED BY <2>1, <2>2
<1>4. \A j, k \in 1..Len(r) : pos(j) = pos(k) => j = k
  BY <1>1, <1>2
<1>5. ASSUME NEW k \in 1..Len(s), k # i PROVE \E j \in 1..Len(r) : r[j] = s[k]
  <2>1. CASE k < i
    <3>1. k \in 1..Len(r) /\ k \in 1..Len(s) - 1
      BY <1>1, <1>2, <2>1
    <3>2. r[k] = s[k]
      BY <1>1, <2>1, <3>1
    <3> QED BY <3>1, <3>2
  <2>2. CASE ~(k < i)
    <3> DEFINE j == k - 1
    <3>1. j \in 1..Len(r) /\ j \in 1..Len(s) - 1 /\ ~(j < i) /\ j + 1 = k
      BY <1>1, <1>2, <1>5, <2>2
    <3> HIDE DEF j
    <3>2. r[j] = s[k]
      BY <1>1, <3>1
    <3> QED BY <3>1, <3>2
  <2> QED BY <2>1, <2>2
<1> HIDE DEF pos
<1>6. NoRepeats(r)
  BY <1>3, <1>4 DEF NoRepeats
<1>7. \A j \in 1..Len(r) : r[j] # s[i] /\ \E k \in 1..Len(s) : s[k] = r[j]
  BY <1>3 DEF NoRepeats
<1>8. \A k \in 1..Len(s) : s[k] # s[i] => \E j \in 1..Len(r) : r[j] = s[k]
  BY <1>5
<1> QED BY <1>6, <1>7, <1>8 DEF r

LEMMA NoRepeatsConcat ==
  ASSUME NEW S, NEW s \in Seq(S), NEW t \in Seq(S), NoRepeats(s), NoRepeats(t),
         \A i \in 1..Len(s), j \in 1..Len(t) : s[i] # t[j]
  PROVE  /\ NoRepeats(s \o t)
         /\ \A k \in 1..Len(s \o t) : \/ \E i \in 1..Len(s) : (s \o t)[k] = s[i]
                                      \/ \E j \in 1..Len(t) : (s \o t)[k] = t[j]
<1> DEFINE u == s \o t
<1>1. /\ u \in Seq(S) /\ Len(u) = Len(s) + Len(t) /\ Len(s) \in Nat /\ Len(t) \in Nat
      /\ \A i \in 1..Len(s) + Len(t) : u[i] = IF i <= Len(s) THEN s[i] ELSE t[i - Len(s)]
  BY ConcatProperties, LenProperties
<1> HIDE DEF u
<1>2. ASSUME NEW k \in 1..Len(u)
      PROVE  \/ k \in 1..Len(s) /\ u[k] = s[k]
             \/ k - Len(s) \in 1..Len(t) /\ u[k] = t[k - Len(s)]
  <2>1. CASE k <= Len(s)
    BY <1>1, <2>1
  <2>2. CASE ~(k <= Len(s))
    BY <1>1, <2>2
  <2> QED BY <2>1, <2>2
<1>3. \A j, k \in 1..Len(u) : j - Len(s) = k - Len(s) => j = k
  BY <1>1
<1>4. ASSUME NEW j \in 1..Len(u), NEW k \in 1..Len(u), u[j] = u[k] PROVE j = k
  <2>1. \/ j \in 1..Len(s) /\ u[j] = s[j]
        \/ j - Len(s) \in 1..Len(t) /\ u[j] = t[j - Len(s)]
    BY <1>2
  <2>2. \/ k \in 1..Len(s) /\ u[k] = s[k]
        \/ k - Len(s) \in 1..Len(t) /\ u[k] = t[k - Len(s)]
    BY <1>2
  <2>3. j \in 1..Len(s) /\ u[j] = s[j] => k \in 1..Len(s) /\ u[k] = s[k]
    BY <1>4, <2>2
  <2>4. CASE j \in 1..Len(s) /\ u[j] = s[j]
    BY <1>4, <2>3, <2>4 DEF NoRepeats
  <2>5. CASE j - Len(s) \in 1..Len(t) /\ u[j] = t[j - Len(s)]
    <3>1. k - Len(s) \in 1..Len(t) /\ u[k] = t[k - Len(s)]
      BY <1>4, <2>2, <2>5
    <3>2. j - Len(s) = k - Len(s)
      BY <1>4, <2>5, <3>1 DEF NoRepeats
    <3> QED BY <1>3, <3>2
  <2> QED BY <2>1, <2>4, <2>5
<1>5. NoRepeats(u)
  BY <1>4 DEF NoRepeats
<1>6. \A k \in 1..Len(u) : \/ \E i \in 1..Len(s) : u[k] = s[i]
                           \/ \E j \in 1..Len(t) : u[k] = t[j]
  BY <1>2
<1> QED BY <1>5, <1>6 DEF u

LEMMA AppendBehind ==
  ASSUME NEW S, NEW s \in Seq(S), NEW t \in Seq(S), NEW x \in S
  PROVE  s \o Append(t, x) = Append(s \o t, x)
<1> DEFINE o == <<x>>
<1>1. o \in Seq(S) /\ Append(t, x) = t \o o /\ s \o t \in Seq(S)
  BY AppendIsConcat, ConcatType
<1>2. Append(s \o t, x) = (s \o t) \o o
  <2> DEFINE u == s \o t
  <2>1. u \in Seq(S)
    BY <1>1
  <2> HIDE DEF u
  <2>2. Append(u, x) = u \o o
    BY <2>1, AppendIsConcat
  <2> QED BY <2>2 DEF u
<1> HIDE DEF o
<1> QED BY <1>1, <1>2, ConcatAssociative
-----------------------------------------------------------------------------
(* Lines without repetitions, by the sets of those who stand in them *)

LEMMA LineAppend ==
  ASSUME NEW S, NEW s \in Seq(S), NEW x \in S, NoRepeats(s), x \notin ToSet(s)
  PROVE  NoRepeats(Append(s, x)) /\ Append(s, x) \in Seq(S) /\ Len(Append(s, x)) = Len(s) + 1
         /\ ToSet(Append(s, x)) = ToSet(s) \cup {x} /\ Append(s, x) # <<>>
<1>1. \A i \in 1..Len(s) : s[i] # x
  BY ToSetFacts
<1>2. NoRepeats(Append(s, x)) /\ Append(s, x) \in Seq(S) /\ Len(Append(s, x)) = Len(s) + 1
      /\ Len(s) \in Nat
  BY <1>1, NoRepeatsAppend
<1>3. ToSet(Append(s, x)) = ToSet(s) \cup {x}
  BY ToSetAppend
<1>4. Append(s, x) # <<>>
  BY <1>2, EmptySeq
<1> QED BY <1>2, <1>3, <1>4

LEMMA LineTail ==
  ASSUME NEW S, NEW s \in Seq(S), NoRepeats(s), s # <<>>
  PROVE  NoRepeats(Tail(s)) /\ Tail(s) \in Seq(S) /\ Head(s) \in S
         /\ Head(s) \in ToSet(s) /\ ToSet(Tail(s)) = ToSet(s) \ {Head(s)}
<1>1. NoRepeats(Tail(s)) /\ \A i \in 1..Len(Tail(s)) : Tail(s)[i] # Head(s)
  BY NoRepeatsTail
<1>2. Head(s) \in S /\ Tail(s) \in Seq(S) /\ ToSet(s) = {Head(s)} \cup ToSet(Tail(s))
  BY HeadTail
<1>3. Head(s) \notin ToSet(Tail(s))
  <2> DEFINE t == Tail(s)
  <2>1. t \in Seq(S) /\ \A i \in 1..Len(t) : t[i] # Head(s)
    BY <1>1, <1>2
  <2> HIDE DEF t
  <2>2. ToSet(t) = {t[i] : i \in 1..Len(t)}
    BY <2>1, ToSetFacts
  <2>3. Head(s) \notin ToSet(t)
    BY <2>1, <2>2
  <2> QED BY <2>3 DEF t
<1> QED BY <1>1, <1>2, <1>3

LEMMA LineRemove ==
  ASSUME NEW S, NEW s \in Seq(S), NoRepeats(s), NEW i \in DOMAIN s
  PROVE  NoRepeats(RemoveAt(s, i)) /\ RemoveAt(s, i) \in Seq(S)
         /\ ToSet(RemoveAt(s, i)) = ToSet(s) \ {s[i]} /\ s[i] \in ToSet(s)
<1> DEFINE r == RemoveAt(s, i)
<1>1. i \in 1..Len(s)
  BY LenProperties
<1>2. /\ NoRepeats(r) /\ r \in Seq(S)
      /\ \A j \in 1..Len(r) : r[j] # s[i] /\ \E k \in 1..Len(s) : s[k] = r[j]
      /\ \A k \in 1..Len(s) : s[k] # s[i] => \E j \in 1..Len(r) : r[j] = s[k]
  <2>1. r \in Seq(S)
    BY RemoveAtType
  <2> QED BY <1>1, <2>1, NoRepeatsRemove
<1> HIDE DEF r
<1>3. ToSet(s) = {s[k] : k \in 1..Len(s)} /\ ToSet(r) = {r[k] : k \in 1..Len(r)}
  BY <1>2, ToSetFacts
<1>4. ToSet(r) = ToSet(s) \ {s[i]}
  <2>1. \A x \in ToSet(r) : x \in ToSet(s) \ {s[i]}
    BY <1>2, <1>3
  <2>2. \A x \in ToSet(s) \ {s[i]} : x \in ToSet(r)
    BY <1>2, <1>3
  <2> QED BY <2>1, <2>2
<1>5. s[i] \in ToSet(s)
  BY <1>1, <1>3
<1> QED BY <1>2, <1>4, <1>5 DEF r

-----------------------------------------------------------------------------
(* Ascending sequences of numbers, and the enumeration of a set as one *)

InOrder(s) == \A i, j \in 1..Len(s) : i < j => s[i] < s[j]

LEMMA InOrderTail ==
  ASSUME NEW S \in SUBSET Nat, NEW s \in Seq(S), s # <<>>, InOrder(s)
  PROVE  /\ InOrder(Tail(s)) /\ Tail(s) \in Seq(S) /\ Head(s) \in S
         /\ ToSet(s) = {Head(s)} \cup ToSet(Tail(s))
         /\ \A x \in ToSet(Tail(s)) : Head(s) < x
<1> DEFINE t == Tail(s)
<1>1. /\ t \in Seq(S) /\ Len(t) = Len(s) - 1 /\ Len(s) \in Nat \ {0}
      /\ \A i \in 1..Len(s) - 1 : t[i] = s[i + 1]
      /\ Head(s) = s[1] /\ Head(s) \in S
  BY TailFacts
<1>2. ToSet(s) = {Head(s)} \cup ToSet(t)
  BY HeadTail
<1> HIDE DEF t
<1>3. \A i \in 1..Len(t) : i + 1 \in 1..Len(s) /\ t[i] = s[i + 1] /\ 1 < i + 1
  BY <1>1
<1>4. \A i, j \in 1..Len(t) : i < j => i + 1 < j + 1
  BY <1>1
<1>5. InOrder(t)
  BY <1>3, <1>4 DEF InOrder
<1>6. \A i \in 1..Len(t) : Head(s) < t[i]
  <2>1. 1 \in 1..Len(s)
    BY <1>1
  <2> QED BY <1>1, <1>3, <2>1 DEF InOrder
<1>7. \A x \in ToSet(t) : Head(s) < x
  <2>1. ToSet(t) = {t[i] : i \in 1..Len(t)}
    BY <1>1, ToSetFacts
  <2> QED BY <1>6, <2>1
<1> QED BY <1>1, <1>2, <1>5, <1>7 DEF t

\* Every finite set of numbers has an ascending enumeration.
LEMMA EnumerationExists ==
  ASSUME NEW n \in Nat, NEW S \in SUBSET (1..n)
  PROVE  IsFiniteSet(S) /\ Cardinality(S) \in Nat
         /\ \E s \in [1..Cardinality(S) -> S] : \A i, j \in 1..Cardinality(S) : i < j => s[i] < s[j]
<1> DEFINE Asc(s, k) == \A i, j \in 1..k : i < j => s[i] < s[j]
           Enumerable(X) == \E s \in [1..Cardinality(X) -> X] : Asc(s, Cardinality(X))
           P == {m \in Nat : \A X \in SUBSET (1..m) : Enumerable(X)}
<1>1. ASSUME NEW m \in Nat, NEW X \in SUBSET (1..m)
      PROVE  IsFiniteSet(X) /\ Cardinality(X) \in Nat
  <2>1. IsFiniteSet(1..m)
    BY FS_Interval
  <2>2. IsFiniteSet(X)
    BY <2>1, FS_Subset
  <2> QED BY <2>2, FS_CardinalityType
<1>2. 0 \in P
  <2>1. ASSUME NEW X \in SUBSET (1..0) PROVE Enumerable(X)
    <3>0. X = {}
      OBVIOUS
    <3>1. X = {} /\ Cardinality(X) = 0
      BY <3>0, FS_EmptySet
    <3>2. [i \in 1..0 |-> i] \in [1..0 -> X] /\ Asc([i \in 1..0 |-> i], 0)
      OBVIOUS
    <3> QED BY <3>1, <3>2
  <2> QED BY <2>1
<1>3. ASSUME NEW m \in P PROVE m + 1 \in P
  <2>0. m \in Nat /\ m + 1 \in Nat
    OBVIOUS
  <2>1. ASSUME NEW X \in SUBSET (1..(m + 1)) PROVE Enumerable(X)
    <3>1. CASE m + 1 \notin X
      <4>1. X \in SUBSET (1..m)
        BY <2>0, <3>1
      <4> QED BY <4>1
    <3>2. CASE m + 1 \in X
      <4> DEFINE Y == X \ {m + 1}
                 c == Cardinality(Y)
                 d == Cardinality(X)
      <4>1. Y \in SUBSET (1..m)
        BY <2>0
      <4>2. c \in Nat /\ d \in Nat /\ d = c + 1
        <5>1. IsFiniteSet(X) /\ d \in Nat
          BY <2>0, <1>1
        <5>2. c = d - 1
          BY <3>2, <5>1, FS_RemoveElement
        <5>3. c \in Nat
          BY <2>0, <4>1, <1>1
        <5> QED BY <5>1, <5>2, <5>3
      <4>3. PICK y \in [1..c -> Y] : Asc(y, c)
        BY <4>1
      <4> HIDE DEF c, d
      <4> DEFINE x == [i \in 1..d |-> IF i = d THEN m + 1 ELSE y[i]]
      <4>4. \A i \in 1..d : i # d => i \in 1..c
        BY <4>2
      <4>5. x \in [1..d -> X]
        BY <3>2, <4>3, <4>4
      <4>6. \A i \in 1..c : y[i] \in 1..m /\ y[i] < m + 1
        <5>1. \A k \in 1..m : k < m + 1
          BY <2>0
        <5>2. \A i \in 1..c : y[i] \in Y
          BY <4>3
        <5> QED BY <4>1, <5>1, <5>2
      <4>7. Asc(x, d)
        <5> SUFFICES ASSUME NEW i \in 1..d, NEW j \in 1..d, i < j PROVE x[i] < x[j]
          OBVIOUS
        <5>1. i \in 1..c /\ x[i] = y[i]
          BY <4>2
        <5>2. CASE j = d
          BY <4>6, <5>1, <5>2
        <5>3. CASE j # d
          BY <4>3, <4>4, <5>1, <5>3
        <5> QED BY <5>2, <5>3
      <4> QED BY <4>5, <4>7 DEF d
    <3> QED BY <3>1, <3>2
  <2> QED BY <2>0, <2>1
<1>4. P = Nat
  <2>1. P \in SUBSET Nat
    OBVIOUS
  <2> HIDE DEF P
  <2> QED BY <1>2, <1>3, <2>1, SetInduction
<1> QED BY <1>1, <1>4

\* An ascending function onto no more places than the set has elements reaches
\* them all.
LEMMA EnumerationComplete ==
  ASSUME NEW S \in SUBSET Nat, IsFiniteSet(S), NEW s \in [1..Cardinality(S) -> S],
         \A i, j \in 1..Cardinality(S) : i < j => s[i] < s[j]
  PROVE  s \in Seq(S) /\ Len(s) = Cardinality(S) /\ InOrder(s) /\ ToSet(s) = S
<1> DEFINE c == Cardinality(S)
<1>1. c \in Nat
  BY FS_CardinalityType
<1>2. s \in [1..c -> S] /\ \A i, j \in 1..c : i < j => s[i] < s[j]
  OBVIOUS
<1>3. Cardinality(1..c) = c
  <2> HIDE DEF c
  <2>1. Cardinality(1..c) = IF 1 > c THEN 0 ELSE c - 1 + 1
    BY <1>1, FS_Interval
  <2> QED BY <1>1, <2>1
<1>4. s \in Surjection(1..c, S)
  <2>1. s \in Injection(1..c, S)
    <3>1. ASSUME NEW i \in 1..c, NEW j \in 1..c, s[i] = s[j] PROVE i = j
      <4> HIDE DEF c
      <4>1. s[i] \in Nat /\ ~(s[i] < s[j]) /\ ~(s[j] < s[i])
        <5>1. s[i] \in S
          BY <1>2
        <5>2. s[i] \in Nat
          BY <5>1
        <5> QED BY <3>1, <5>2
      <4>2. ~(i < j) /\ ~(j < i) /\ i \in Int /\ j \in Int
        BY <1>1, <1>2, <4>1
      <4> QED BY <4>2
    <3> HIDE DEF c
    <3> QED BY <1>2, <3>1 DEF Injection, IsInjective
  <2> QED BY <1>3, <2>1, FS_Injection
<1> HIDE DEF c
<1>5. s \in Seq(S) /\ Len(s) = c /\ DOMAIN s = 1..c
  BY <1>1, <1>2
<1>6. InOrder(s)
  BY <1>2, <1>5 DEF InOrder
<1>7. ToSet(s) = S
  <2>1. \A x \in S : \E i \in 1..c : s[i] = x
    BY <1>4 DEF Surjection
  <2> QED BY <1>2, <1>5, <2>1 DEF ToSet
<1> QED BY <1>5, <1>6, <1>7 DEF c
-----------------------------------------------------------------------------
(* Selection *)

\* What Only goes through, for the first n elements.
IsKeeping(f, s, S, n) ==
    f = [i \in 0..n |-> IF i = 0 THEN <<>>
                        ELSE IF s[i] \in S THEN Append(f[i - 1], s[i]) ELSE f[i - 1]]

LEMMA KeepingExists ==
  ASSUME NEW s, NEW S, NEW n \in Nat
  PROVE  \E f : IsKeeping(f, s, S, n)
<1> DEFINE P == {m \in Nat : \E f : IsKeeping(f, s, S, m)}
<1>1. 0 \in P
  <2>1. IsKeeping([i \in 0..0 |-> <<>>], s, S, 0)
    BY DEF IsKeeping
  <2> QED BY <2>1
<1>2. ASSUME NEW m \in P PROVE m + 1 \in P
  <2>1. PICK f : IsKeeping(f, s, S, m)
    BY <1>2
  <2>2. m \in Nat
    BY <1>2
  <2> DEFINE last == IF s[m + 1] \in S THEN Append(f[m], s[m + 1]) ELSE f[m]
  <2> DEFINE g == [i \in 0..(m + 1) |-> IF i = m + 1 THEN last ELSE f[i]]
  <2> DEFINE h == [i \in 0..(m + 1) |-> IF i = 0 THEN <<>>
                      ELSE IF s[i] \in S THEN Append(g[i - 1], s[i]) ELSE g[i - 1]]
  <2>3. \A i \in 0..m : f[i] = IF i = 0 THEN <<>>
                      ELSE IF s[i] \in S THEN Append(f[i - 1], s[i]) ELSE f[i - 1]
    BY <2>1 DEF IsKeeping
  <2> HIDE DEF last
  <2>4. \A i \in 0..(m + 1) : i # 0 => g[i - 1] = f[i - 1]
    BY <2>2
  <2>5. ASSUME NEW i \in 0..(m + 1) PROVE g[i] = h[i]
    <3>1. CASE i = m + 1
      <4>1. i # 0 /\ i - 1 = m /\ g[i] = last /\ g[i - 1] = f[m]
        BY <2>2, <2>4, <3>1
      <4> QED BY <3>1, <4>1 DEF last
    <3>2. CASE i # m + 1
      <4>1. i \in 0..m /\ g[i] = f[i]
        BY <2>2, <3>2
      <4> HIDE DEF g
      <4> QED BY <2>3, <2>4, <4>1
    <3> QED BY <3>1, <3>2
  <2>6. g = h
    BY <2>5
  <2>7. IsKeeping(g, s, S, m + 1)
    <3> HIDE DEF g
    <3> QED BY <2>6 DEF IsKeeping
  <2> QED BY <2>2, <2>7
<1>3. P = Nat
  <2> HIDE DEF P
  <2>1. P \in SUBSET Nat
    BY DEF P
  <2> QED BY <1>1, <1>2, <2>1, SetInduction
<1> QED BY <1>3

LEMMA OnlyDef ==
  ASSUME NEW T, NEW s \in Seq(T), NEW S
  PROVE  \E f : IsKeeping(f, s, S, Len(s)) /\ Only(s, S) = f[Len(s)]
<1> DEFINE keep == CHOOSE f : IsKeeping(f, s, S, Len(s))
<1>1. Len(s) \in Nat
  OBVIOUS
<1>2. \E f : IsKeeping(f, s, S, Len(s))
  BY <1>1, KeepingExists
<1>3. IsKeeping(keep, s, S, Len(s))
  BY <1>2
<1>4. Only(s, S) = keep[Len(s)]
  BY Zenon DEF Only, IsKeeping
<1> QED BY <1>3, <1>4

\* t is what is in S of the first n elements of s, each where at says it stood.
KeptFrom(t, at, s, n, S) ==
    /\ at \in [1..Len(t) -> 1..n]
    /\ \A k \in 1..Len(t) : t[k] = s[at[k]] /\ s[at[k]] \in S
    /\ \A k, l \in 1..Len(t) : k < l => at[k] < at[l]
    /\ \A i \in 1..n : s[i] \in S => \E k \in 1..Len(t) : at[k] = i

LEMMA KeptNext ==
  ASSUME NEW T, NEW s \in Seq(T), NEW S, NEW n \in Nat, n + 1 <= Len(s),
         NEW t \in Seq(T), NEW at, KeptFrom(t, at, s, n, S)
  PROVE  LET u == IF s[n + 1] \in S THEN Append(t, s[n + 1]) ELSE t
         IN  u \in Seq(T) /\ \E b : KeptFrom(u, b, s, n + 1, S)
<1>0. Len(t) \in Nat /\ s[n + 1] \in T
  OBVIOUS
<1>a. /\ at \in [1..Len(t) -> 1..n]
      /\ \A k \in 1..Len(t) : t[k] = s[at[k]] /\ s[at[k]] \in S
      /\ \A k, l \in 1..Len(t) : k < l => at[k] < at[l]
      /\ \A i \in 1..n : s[i] \in S => \E k \in 1..Len(t) : at[k] = i
  BY DEF KeptFrom
<1>1. CASE s[n + 1] \notin S
  <2>1. at \in [1..Len(t) -> 1..(n + 1)]
    BY <1>a
  <2>2. \A i \in 1..(n + 1) : s[i] \in S => i \in 1..n
    BY <1>1
  <2>3. KeptFrom(t, at, s, n + 1, S)
    BY <1>a, <2>1, <2>2 DEF KeptFrom
  <2> QED BY <1>1, <2>3
<1>2. CASE s[n + 1] \in S
  <2> DEFINE u == Append(t, s[n + 1])
             m == Len(t) + 1
             b == [k \in 1..m |-> IF k = m THEN n + 1 ELSE at[k]]
  <2>1. u \in Seq(T) /\ Len(u) = m /\ u[m] = s[n + 1] /\ \A k \in 1..Len(t) : u[k] = t[k]
    BY <1>0, AppendProperties
  <2>2. m \in Nat /\ \A k \in 1..m : k # m => k \in 1..Len(t)
    BY <1>0
  <2>3. \A k \in 1..Len(t) : k \in 1..m /\ k # m /\ k < m
    BY <1>0
  <2>4. \A k \in 1..Len(t) : at[k] \in 1..n /\ at[k] \in 1..(n + 1) /\ at[k] < n + 1
    BY <1>a
  <2> HIDE DEF u, m
  <2>5. \A k \in 1..m : b[k] = IF k = m THEN n + 1 ELSE at[k]
    OBVIOUS
  <2>6. b \in [1..m -> 1..(n + 1)]
    BY <2>2, <2>4
  <2> HIDE DEF b
  <2>7. \A k \in 1..m : u[k] = s[b[k]] /\ s[b[k]] \in S
    BY <1>2, <1>a, <2>1, <2>2, <2>5
  <2>8. ASSUME NEW k \in 1..m, NEW l \in 1..m, k < l PROVE b[k] < b[l]
    <3>1. k # m /\ k \in 1..Len(t)
      BY <2>2, <2>8
    <3>2. CASE l = m
      BY <2>4, <2>5, <3>1, <3>2
    <3>3. CASE l # m
      BY <1>a, <2>2, <2>5, <2>8, <3>1, <3>3
    <3> QED BY <3>2, <3>3
  <2>9. ASSUME NEW i \in 1..(n + 1), s[i] \in S PROVE \E k \in 1..m : b[k] = i
    <3>1. CASE i = n + 1
      <4>1. m \in 1..m /\ b[m] = n + 1
        BY <1>0, <2>2, <2>5 DEF m
      <4> QED BY <3>1, <4>1
    <3>2. CASE i # n + 1
      <4>1. i \in 1..n
        BY <3>2
      <4>2. PICK k \in 1..Len(t) : at[k] = i
        BY <1>a, <2>9, <4>1
      <4> QED BY <2>3, <2>5, <4>2
    <3> QED BY <3>1, <3>2
  <2>10. KeptFrom(u, b, s, n + 1, S)
    BY <2>1, <2>6, <2>7, <2>8, <2>9 DEF KeptFrom
  <2>11. u \in Seq(T) /\ \E c : KeptFrom(u, c, s, n + 1, S)
    BY <2>1, <2>10
  <2> QED BY <1>2, <2>11 DEF u
<1> QED BY <1>1, <1>2

\* Only keeps what is in the set, all of it, in its order.
LEMMA OnlyKept ==
  ASSUME NEW T, NEW s \in Seq(T), NEW S
  PROVE  Only(s, S) \in Seq(T) /\ \E at : KeptFrom(Only(s, S), at, s, Len(s), S)
<1>1. PICK f : IsKeeping(f, s, S, Len(s)) /\ Only(s, S) = f[Len(s)]
  BY OnlyDef
<1> DEFINE N == Len(s)
<1>2. N \in Nat
  OBVIOUS
<1>3. \A i \in 0..N : f[i] = IF i = 0 THEN <<>>
                    ELSE IF s[i] \in S THEN Append(f[i - 1], s[i]) ELSE f[i - 1]
  BY <1>1 DEF IsKeeping
<1> HIDE DEF N
<1> DEFINE Good(m) == f[m] \in Seq(T) /\ \E at : KeptFrom(f[m], at, s, m, S)
           P == {m \in Nat : m <= N => Good(m)}
<1>4. 0 \in P
  <2>1. f[0] = <<>>
    BY <1>2, <1>3
  <2>2. f[0] \in Seq(T) /\ Len(f[0]) = 0
    BY <2>1
  <2>3. KeptFrom(f[0], [k \in 1..0 |-> k], s, 0, S)
    BY <2>2 DEF KeptFrom
  <2> QED BY <2>2, <2>3
<1>5. ASSUME NEW m \in P PROVE m + 1 \in P
  <2>1. m \in Nat
    OBVIOUS
  <2>2. SUFFICES ASSUME m + 1 <= N PROVE Good(m + 1)
    BY <2>1
  <2>3. f[m + 1] = IF s[m + 1] \in S THEN Append(f[m], s[m + 1]) ELSE f[m]
    <3>1. m + 1 \in 0..N /\ m + 1 # 0 /\ (m + 1) - 1 = m
      BY <1>2, <2>1, <2>2
    <3> QED BY <1>3, <3>1
  <2>4. Good(m) /\ m + 1 <= Len(s)
    BY <1>2, <2>1, <2>2 DEF N
  <2>5. PICK at : KeptFrom(f[m], at, s, m, S)
    BY <2>4
  <2> QED BY <2>1, <2>3, <2>4, <2>5, KeptNext
<1>6. P = Nat
  <2>1. P \in SUBSET Nat
    OBVIOUS
  <2> HIDE DEF P
  <2> QED BY <1>4, <1>5, <2>1, SetInduction
<1>7. Good(N)
  <2>1. N \in P
    BY <1>2, <1>6
  <2> QED BY <1>2, <2>1
<1> QED BY <1>1, <1>7 DEF N

\* Selecting keeps a list without repetitions so, and its elements are the
\* list's that are in the set.
LEMMA OnlyFacts ==
  ASSUME NEW T, NEW s \in Seq(T), NEW S
  PROVE  /\ Only(s, S) \in Seq(T) /\ Len(Only(s, S)) <= Len(s)
         /\ ToSet(Only(s, S)) = ToSet(s) \cap S
         /\ NoRepeats(s) => NoRepeats(Only(s, S))
<1> DEFINE t == Only(s, S)
           n == Len(s)
<1>1. t \in Seq(T) /\ n \in Nat /\ Len(t) \in Nat
  BY OnlyKept
<1>2. PICK at : KeptFrom(t, at, s, n, S)
  BY OnlyKept
<1> HIDE DEF t
<1>3. /\ at \in [1..Len(t) -> 1..n]
      /\ \A k \in 1..Len(t) : t[k] = s[at[k]] /\ s[at[k]] \in S
      /\ \A k, l \in 1..Len(t) : k < l => at[k] < at[l]
      /\ \A i \in 1..n : s[i] \in S => \E k \in 1..Len(t) : at[k] = i
  BY <1>2 DEF KeptFrom
<1>4. ToSet(t) = {t[k] : k \in 1..Len(t)} /\ ToSet(s) = {s[i] : i \in 1..n}
  BY <1>1, ToSetFacts
<1>5. ToSet(t) = ToSet(s) \cap S
  <2> HIDE DEF n
  <2>1. ASSUME NEW k \in 1..Len(t) PROVE t[k] \in ToSet(s) \cap S
    BY <1>3, <1>4
  <2>2. ASSUME NEW i \in 1..n, s[i] \in S PROVE s[i] \in ToSet(t)
    BY <1>3, <1>4, <2>2
  <2> QED BY <1>4, <2>1, <2>2
<1>6. \A k, l \in 1..Len(t) : at[k] = at[l] => k = l
  <2> SUFFICES ASSUME NEW k \in 1..Len(t), NEW l \in 1..Len(t), at[k] = at[l] PROVE k = l
    OBVIOUS
  <2>1. at[k] \in Int /\ at[l] \in Int
    BY <1>1, <1>3
  <2>2. ~(k < l) /\ ~(l < k)
    BY <1>3, <2>1
  <2> QED BY <1>1, <2>2
<1>7. NoRepeats(s) => NoRepeats(t)
  <2> SUFFICES ASSUME NoRepeats(s), NEW k \in 1..Len(t), NEW l \in 1..Len(t), t[k] = t[l] PROVE k = l
    BY DEF NoRepeats
  <2>1. at[k] \in 1..n /\ at[l] \in 1..n /\ s[at[k]] = s[at[l]]
    BY <1>3
  <2>2. at[k] = at[l]
    BY <2>1 DEF NoRepeats
  <2> QED BY <1>6, <2>2
<1>8. Len(t) <= n
  <2> HIDE DEF n
  <2>1. IsFiniteSet(1..Len(t)) /\ IsFiniteSet(1..n) /\ Cardinality(1..Len(t)) = Len(t)
        /\ Cardinality(1..n) = n
    <3>1. \A m \in Nat : IsFiniteSet(1..m) /\ Cardinality(1..m) = IF 1 > m THEN 0 ELSE m - 1 + 1
      BY FS_Interval
    <3>2. \A m \in Nat : IsFiniteSet(1..m) /\ Cardinality(1..m) = m
      BY <3>1
    <3> QED BY <1>1, <3>2
  <2>2. at \in Injection(1..Len(t), 1..n)
    BY <1>3, <1>6 DEF Injection, IsInjective
  <2>3. Cardinality(1..Len(t)) <= Cardinality(1..n)
    BY <2>1, <2>2, FS_Injection
  <2> QED BY <2>1, <2>3
<1> QED BY <1>1, <1>5, <1>7, <1>8 DEF t
=============================================================================
