---------------------------- MODULE Triage_proofs ----------------------------
(* Theorems about what is grouped and suppressed, for any regular          *)
(* expressions, projects and inputs that meet Triage's assumptions.        *)
EXTENDS Triage, FiniteSetTheorems, TLAPS

-----------------------------------------------------------------------------
(***************************************************************************)
(* Selections from a sequence.                                             *)
(***************************************************************************)
UpTo(I, k) == {j \in I : j <= k}

LEMMA Order ==
  \A j, k, m \in Nat :
    /\ j <= k /\ k < m => j <= m
    /\ k < m => ~(m <= k)
    /\ k <= k
    /\ k < m \/ m < k \/ k = m
    /\ k < m => k # m
  OBVIOUS

LEMMA RankOf ==
  ASSUME NEW I, IsFiniteSet(I), I \subseteq Nat, NEW k \in I
  PROVE  /\ Cardinality(UpTo(I, k)) \in 1..Cardinality(I)
         /\ Cardinality(I) \in Nat
         /\ IsFiniteSet(UpTo(I, k))
<1>1. UpTo(I, k) \in SUBSET I /\ k \in UpTo(I, k)
  BY DEF UpTo
<1>2. IsFiniteSet(UpTo(I, k)) /\ Cardinality(UpTo(I, k)) <= Cardinality(I)
  BY <1>1, FS_Subset
<1>3. Cardinality(UpTo(I, k)) \in Nat /\ Cardinality(I) \in Nat
  BY <1>2, FS_CardinalityType
<1>4. Cardinality(UpTo(I, k)) # 0
  BY <1>1, <1>2, FS_EmptySet
<1> QED
  BY <1>2, <1>3, <1>4

LEMMA RankRises ==
  ASSUME NEW I, IsFiniteSet(I), I \subseteq Nat, NEW k \in I, NEW m \in I, k < m
  PROVE  Cardinality(UpTo(I, k)) < Cardinality(UpTo(I, m))
<1>1. UpTo(I, k) \in SUBSET UpTo(I, m) /\ m \in UpTo(I, m) /\ m \notin UpTo(I, k)
  <2>1. k \in Nat /\ m \in Nat /\ \A j \in I : j \in Nat
    OBVIOUS
  <2> QED
    BY <2>1, Order DEF UpTo
<1>2. IsFiniteSet(UpTo(I, m)) /\ Cardinality(UpTo(I, m)) \in Nat /\ Cardinality(UpTo(I, k)) \in Nat
  <2>1. UpTo(I, m) \in SUBSET I /\ UpTo(I, k) \in SUBSET I
    BY DEF UpTo
  <2> QED
    BY <2>1, FS_Subset, FS_CardinalityType
<1>3. /\ Cardinality(UpTo(I, k)) <= Cardinality(UpTo(I, m))
      /\ Cardinality(UpTo(I, m)) = Cardinality(UpTo(I, k)) => UpTo(I, m) = UpTo(I, k)
  BY <1>1, <1>2, FS_Subset
<1> QED
  BY <1>1, <1>2, <1>3

(* The n-th index of a selection: there is one, and only one. *)
LEMMA NthIndex ==
  ASSUME NEW I, IsFiniteSet(I), I \subseteq Nat, NEW n \in 1..Cardinality(I)
  PROVE  \E k \in I : Cardinality(UpTo(I, k)) = n
<1> DEFINE N == 1..Cardinality(I)
           rank == [k \in I |-> Cardinality(UpTo(I, k))]
<1>1. Cardinality(I) \in Nat
  BY FS_CardinalityType
<1>2. IsFiniteSet(N) /\ Cardinality(N) = Cardinality(I)
  BY <1>1, FS_Interval
<1>3. rank \in [I -> N]
  BY RankOf
<1>4. ASSUME NEW k \in I, NEW m \in I, rank[k] = rank[m] PROVE k = m
  <2>1. k \in Nat /\ m \in Nat /\ rank[k] \in Nat
    BY <1>1, <1>3
  <2>2. rank[k] = Cardinality(UpTo(I, k)) /\ rank[m] = Cardinality(UpTo(I, m))
    OBVIOUS
  <2>3. (k < m => rank[k] < rank[m]) /\ (m < k => rank[m] < rank[k])
    BY <2>2, RankRises
  <2>4. ~(k < m) /\ ~(m < k)
    BY <1>4, <2>1, <2>3, Order
  <2> QED
    BY <2>1, <2>4, Order
<1>5. rank \in Injection(I, N)
  BY <1>3, <1>4 DEF Injection, IsInjective
<1>6. rank \in Surjection(I, N)
  BY <1>2, <1>5, FS_Injection
<1> QED
  BY <1>6 DEF Surjection

(* What the elements of a selection are, and how many there are. *)
LEMMA KeptFacts ==
  ASSUME NEW S, NEW s \in Seq(S), NEW I \in SUBSET DOMAIN s
  PROVE  /\ Kept(s, I) \in Seq(S) /\ Len(Kept(s, I)) = Cardinality(I)
         /\ IsFiniteSet(I) /\ Cardinality(I) \in Nat /\ Cardinality(I) <= Len(s)
         /\ Kept(s, I) = <<>> <=> I = {}
         /\ \A n \in 1..Cardinality(I) : \E k \in I : Kept(s, I)[n] = s[k]
         /\ \A k \in I : \E n \in 1..Cardinality(I) : Kept(s, I)[n] = s[k]
<1> DEFINE nth(n) == CHOOSE k \in I : Cardinality(UpTo(I, k)) = n
<1>1. DOMAIN s = 1..Len(s) /\ Len(s) \in Nat
  OBVIOUS
<1>2. IsFiniteSet(I) /\ I \subseteq Nat /\ Cardinality(I) <= Len(s)
  <2>1. 1 \in Int /\ Len(s) \in Int /\ I \in SUBSET (1..Len(s))
    BY <1>1
  <2>2. IsFiniteSet(1..Len(s)) /\ Cardinality(1..Len(s)) = Len(s)
    <3>1. IsFiniteSet(1..Len(s)) /\ Cardinality(1..Len(s)) = IF 1 > Len(s) THEN 0 ELSE Len(s) - 1 + 1
      BY <2>1, FS_Interval
    <3> QED
      BY <1>1, <3>1
  <2>3. IsFiniteSet(I) /\ Cardinality(I) <= Cardinality(1..Len(s))
    BY <2>1, <2>2, FS_Subset
  <2> QED
    BY <2>1, <2>2, <2>3
<1>3. Cardinality(I) \in Nat
  BY <1>2, FS_CardinalityType
<1>4. \A n \in 1..Cardinality(I) : nth(n) \in I /\ Cardinality(UpTo(I, nth(n))) = n
  BY <1>2, NthIndex
<1>5. Kept(s, I) = [n \in 1..Cardinality(I) |-> s[nth(n)]]
  BY DEF Kept, UpTo
<1>6. \A n \in 1..Cardinality(I) : Kept(s, I)[n] = s[nth(n)] /\ Kept(s, I)[n] \in S
  BY <1>1, <1>4, <1>5
<1>7. Kept(s, I) \in Seq(S) /\ Len(Kept(s, I)) = Cardinality(I)
  <2>1. DOMAIN Kept(s, I) = 1..Cardinality(I) /\ Kept(s, I) \in [1..Cardinality(I) -> S]
    BY <1>5, <1>6
  <2> QED
    BY <1>3, <2>1
<1>8. ASSUME NEW k \in I PROVE \E n \in 1..Cardinality(I) : Kept(s, I)[n] = s[k]
  <2>1. PICK n \in 1..Cardinality(I) : n = Cardinality(UpTo(I, k))
    BY <1>2, RankOf
  <2>2. nth(n) = k
    <3>1. nth(n) \in I /\ Cardinality(UpTo(I, nth(n))) = Cardinality(UpTo(I, k))
      BY <1>4, <2>1
    <3>2. nth(n) \in Nat /\ k \in Nat /\ Cardinality(UpTo(I, k)) \in Nat
      BY <1>2, <3>1, RankOf
    <3>3. ~(nth(n) < k) /\ ~(k < nth(n))
      BY <1>2, <3>1, <3>2, RankRises
    <3> QED
      BY <3>2, <3>3
  <2> QED
    BY <1>6, <2>2
<1>9. Kept(s, I) = <<>> <=> I = {}
  BY <1>2, <1>3, <1>7, FS_EmptySet
<1> QED
  BY <1>2, <1>3, <1>4, <1>6, <1>7, <1>8, <1>9

(* The first of a selection. *)
LEMMA KeptFirst ==
  ASSUME NEW S, NEW s \in Seq(S), NEW I \in SUBSET DOMAIN s,
         NEW k \in I, \A j \in I : k <= j
  PROVE  Kept(s, I) # <<>> /\ Head(Kept(s, I)) = s[k]
<1> DEFINE nth(n) == CHOOSE j \in I : Cardinality(UpTo(I, j)) = n
<1>1. IsFiniteSet(I) /\ I \subseteq Nat /\ Cardinality(I) \in Nat /\ k \in Nat
  BY KeptFacts
<1>2. Kept(s, I) \in Seq(S) /\ Kept(s, I) # <<>>
  BY KeptFacts
<1>3. 1 \in 1..Cardinality(I) /\ Head(Kept(s, I)) = s[nth(1)]
  <2>1. Cardinality(UpTo(I, k)) \in 1..Cardinality(I)
    BY <1>1, RankOf
  <2>2. 1 \in 1..Cardinality(I)
    BY <1>1, <2>1
  <2>3. Kept(s, I)[1] = s[nth(1)]
    BY <2>2 DEF Kept, UpTo
  <2> QED
    BY <1>2, <2>2, <2>3
<1>4. nth(1) \in I /\ Cardinality(UpTo(I, nth(1))) = 1
  BY <1>1, <1>3, NthIndex
<1>5. ~(k < nth(1))
  <2> SUFFICES ASSUME k < nth(1) PROVE FALSE
    OBVIOUS
  <2>1. Cardinality(UpTo(I, k)) < Cardinality(UpTo(I, nth(1)))
    BY <1>1, <1>4, RankRises
  <2>2. Cardinality(UpTo(I, k)) \in 1..Cardinality(I)
    BY <1>1, RankOf
  <2> QED
    BY <1>1, <1>4, <2>1, <2>2
<1>6. nth(1) = k
  BY <1>1, <1>4, <1>5
<1> QED
  BY <1>2, <1>3, <1>6

(* The same selection from two sequences has corresponding elements. *)
LEMMA KeptAlike ==
  ASSUME NEW S, NEW s \in Seq(S), NEW t \in Seq(S), DOMAIN s = DOMAIN t,
         NEW I \in SUBSET DOMAIN s
  PROVE  /\ Len(Kept(s, I)) = Len(Kept(t, I))
         /\ \A n \in DOMAIN Kept(s, I) : \E k \in I : Kept(s, I)[n] = s[k] /\ Kept(t, I)[n] = t[k]
         /\ (\A k \in I : s[k] = t[k]) => Kept(s, I) = Kept(t, I)
<1> DEFINE nth(n) == CHOOSE k \in I : Cardinality(UpTo(I, k)) = n
<1>1. IsFiniteSet(I) /\ I \subseteq Nat /\ Cardinality(I) \in Nat
  BY KeptFacts
<1>2. \A n \in 1..Cardinality(I) : nth(n) \in I
  BY <1>1, NthIndex
<1>3. /\ Kept(s, I) = [n \in 1..Cardinality(I) |-> s[nth(n)]]
      /\ Kept(t, I) = [n \in 1..Cardinality(I) |-> t[nth(n)]]
  BY DEF Kept, UpTo
<1>4. Len(Kept(s, I)) = Cardinality(I) /\ Len(Kept(t, I)) = Cardinality(I)
  BY KeptFacts
<1>5. \A n \in DOMAIN Kept(s, I) : \E k \in I : Kept(s, I)[n] = s[k] /\ Kept(t, I)[n] = t[k]
  BY <1>2, <1>3
<1>6. (\A k \in I : s[k] = t[k]) => Kept(s, I) = Kept(t, I)
  BY <1>2, <1>3
<1> QED
  BY <1>4, <1>5, <1>6

LEMMA Single ==
  ASSUME NEW S, NEW a \in S
  PROVE  <<a>> \in Seq(S) /\ Len(<<a>>) = 1
  OBVIOUS

LEMMA Pair ==
  ASSUME NEW S, NEW a \in S, NEW b \in S
  PROVE  <<a>> \o <<b>> = <<a, b>> /\ <<a, b>> \in Seq(S) /\ Len(<<a, b>>) = 2
<1>1. /\ <<a>> \in Seq(S) /\ <<b>> \in Seq(S) /\ Len(<<a>>) = 1 /\ Len(<<b>>) = 1
      /\ <<a, b>> \in Seq(S) /\ Len(<<a, b>>) = 2
  OBVIOUS
<1>2. <<a>> \o <<b>> \in Seq(S) /\ Len(<<a>> \o <<b>>) = 2
  BY <1>1
<1>3. (<<a>> \o <<b>>)[1] = a /\ (<<a>> \o <<b>>)[2] = b
  BY <1>1
<1>4. \A s, t \in Seq(S) : Len(s) = 2 /\ Len(t) = 2 /\ s[1] = t[1] /\ s[2] = t[2] => s = t
  OBVIOUS
<1> QED
  BY <1>1, <1>2, <1>3, <1>4

LEMMA Triple ==
  ASSUME NEW a, NEW b, NEW c, NEW d, NEW e, NEW f, <<a, b, c>> = <<d, e, f>>
  PROVE  a = d /\ b = e /\ c = f
  OBVIOUS

LEMMA TopFacts ==
  ASSUME NEW S, NEW s \in Seq(S)
  PROVE  /\ Top(s) \in Seq(S) /\ Len(Top(s)) <= MaxFrames
         /\ Top(s) = <<>> <=> s = <<>>
         /\ \A n \in DOMAIN Top(s) : n \in DOMAIN s /\ Top(s)[n] = s[n]
<1> DEFINE m == IF Len(s) < MaxFrames THEN Len(s) ELSE MaxFrames
<1>1. m \in Nat /\ m <= Len(s) /\ m <= MaxFrames /\ (m = 0 <=> Len(s) = 0)
  <2>1. Len(s) \in Nat /\ MaxFrames \in Nat /\ MaxFrames # 0
    BY BoundsAssumption
  <2> QED
    BY <2>1
<1>2. Top(s) = SubSeq(s, 1, m)
  BY DEF Top
<1> HIDE DEF m
<1>3. Top(s) \in Seq(S) /\ Len(Top(s)) = m /\ \A n \in 1..m : Top(s)[n] = s[n]
  BY <1>1, <1>2
<1> QED
  BY <1>1, <1>3

-----------------------------------------------------------------------------
(***************************************************************************)
(* Lines of text, and lines that differ in volatile words only.            *)
(***************************************************************************)
LEMMA Blank == <<>> \in Line /\ <<>> \in Text /\ "" \in Words
<1>1. "" \in Words
  BY WordsAssumption
<1>2. <<>> \in Line /\ <<>> \in Text
  BY DEF Line, Text
<1> QED
  BY <1>1, <1>2

LEMMA LeftType == ASSUME NEW w \in Words PROVE Left(w) \in Words
  BY WordsAssumption DEF Left

(* What Normalize leaves of a line is what is left of its words. *)
LEMMA NormalizeFacts ==
  ASSUME NEW line \in Line
  PROVE  /\ Normalize(line) \in Line
         /\ \A n \in DOMAIN Normalize(line) :
              \E k \in DOMAIN line : Normalize(line)[n] = Left(line[k]) /\ Left(line[k]) # ""
         /\ \A k \in DOMAIN line : Left(line[k]) # "" =>
              \E n \in DOMAIN Normalize(line) : Normalize(line)[n] = Left(line[k])
<1> DEFINE left == [k \in DOMAIN line |-> Left(line[k])]
           I    == {k \in DOMAIN left : left[k] # ""}
<1>1. left \in Seq(Words) /\ DOMAIN left = DOMAIN line
  <2>1. line \in Seq(Words)
    BY DEF Line
  <2>2. Len(line) \in Nat /\ DOMAIN line = 1..Len(line) /\ \A k \in DOMAIN line : line[k] \in Words
    BY <2>1
  <2>3. left \in [1..Len(line) -> Words]
    BY <2>2, LeftType
  <2> QED
    BY <2>2, <2>3
<1>2. Normalize(line) = Kept(left, I)
  BY DEF Normalize, Select
<1>3. /\ I \in SUBSET DOMAIN left
      /\ \A k \in I : k \in DOMAIN line /\ left[k] = Left(line[k]) /\ Left(line[k]) # ""
      /\ \A k \in DOMAIN line : Left(line[k]) # "" => k \in I /\ left[k] = Left(line[k])
  OBVIOUS
<1> HIDE DEF left, I
<1>4. /\ Kept(left, I) \in Seq(Words) /\ Len(Kept(left, I)) = Cardinality(I)
      /\ Cardinality(I) \in Nat
      /\ \A n \in 1..Cardinality(I) : \E k \in I : Kept(left, I)[n] = left[k]
      /\ \A k \in I : \E n \in 1..Cardinality(I) : Kept(left, I)[n] = left[k]
  <2>1. left \in Seq(Words) /\ I \in SUBSET DOMAIN left
    BY <1>1, <1>3
  <2>2. /\ Kept(left, I) \in Seq(Words) /\ Len(Kept(left, I)) = Cardinality(I)
        /\ Cardinality(I) \in Nat
    BY <2>1, KeptFacts
  <2>3. \A n \in 1..Cardinality(I) : \E k \in I : Kept(left, I)[n] = left[k]
    BY <2>1, KeptFacts
  <2>4. \A k \in I : \E n \in 1..Cardinality(I) : Kept(left, I)[n] = left[k]
    BY <2>1, KeptFacts
  <2> QED
    BY <2>2, <2>3, <2>4
<1>5. DOMAIN Normalize(line) = 1..Cardinality(I)
  BY <1>2, <1>4
<1>6. Normalize(line) \in Line
  BY <1>2, <1>4 DEF Line
<1>7. ASSUME NEW n \in DOMAIN Normalize(line)
      PROVE  \E k \in DOMAIN line : Normalize(line)[n] = Left(line[k]) /\ Left(line[k]) # ""
  <2>1. PICK k \in I : Kept(left, I)[n] = left[k]
    BY <1>4, <1>5
  <2> QED
    BY <1>2, <1>3, <2>1
<1>8. ASSUME NEW k \in DOMAIN line, Left(line[k]) # ""
      PROVE  \E n \in DOMAIN Normalize(line) : Normalize(line)[n] = Left(line[k])
  <2>1. k \in I /\ left[k] = Left(line[k])
    BY <1>3, <1>8
  <2>2. PICK n \in 1..Cardinality(I) : Kept(left, I)[n] = left[k]
    BY <1>4, <2>1
  <2> QED
    BY <1>2, <1>5, <2>1, <2>2
<1> QED
  BY <1>6, <1>7, <1>8

LEMMA LikeWordsLeft ==
  ASSUME NEW v, NEW w, LikeWords(v, w)
  PROVE  Left(v) = Left(w)
<1> USE WordsAssumption
<1>1. CASE v = w
  BY <1>1
<1>2. CASE {v, w} \subseteq Checkouts \/ {v, w} \subseteq Positions
  BY <1>2 DEF Left
<1>3. CASE {v, w} \subseteq DOMAIN Mark /\ Mark[v] = Mark[w]
  BY <1>3 DEF Left
<1> QED
  BY <1>1, <1>2, <1>3 DEF LikeWords

(* Lines that differ in volatile words only are normalised to the same. *)
LEMMA LikeLinesNormalize ==
  ASSUME NEW l \in Line, NEW m \in Line, LikeLines(l, m)
  PROVE  /\ Normalize(l) = Normalize(m)
         /\ DOMAIN l = DOMAIN m
         /\ NotBlank(l) <=> NotBlank(m)
<1>1. DOMAIN l = DOMAIN m
  BY DEF LikeLines, Line
<1>2. [k \in DOMAIN l |-> Left(l[k])] = [k \in DOMAIN m |-> Left(m[k])]
  BY <1>1, LikeWordsLeft DEF LikeLines
<1>3. NotBlank(l) <=> NotBlank(m)
  BY DEF LikeLines, NotBlank, Line
<1> QED
  BY <1>1, <1>2, <1>3 DEF Normalize

(* A word is alike only words of its own kind. *)
LEMMA LikeWordsKind ==
  ASSUME NEW v, NEW w, LikeWords(v, w)
  PROVE  /\ v \in FrameWords \cup ErrorWords \/ w \in FrameWords \cup ErrorWords => v = w
         /\ v \in Positions <=> w \in Positions
         /\ v \in Checkouts <=> w \in Checkouts
         /\ v \in DOMAIN DirsIn <=> w \in DOMAIN DirsIn
<1> USE WordsAssumption
<1>1. CASE v = w
  BY <1>1
<1>2. CASE {v, w} \subseteq Checkouts
  BY <1>2
<1>3. CASE {v, w} \subseteq Positions
  BY <1>3
<1>4. CASE {v, w} \subseteq DOMAIN Mark /\ Mark[v] = Mark[w] /\ Mark[v] # ""
  BY <1>4
<1> QED
  BY <1>1, <1>2, <1>3, <1>4 DEF LikeWords

LEMMA LikeLinesFrame ==
  ASSUME NEW l \in Line, NEW m \in Line, LikeLines(l, m), IsFrame(l)
  PROVE  IsFrame(m)
<1>1. Len(l) = Len(m) /\ Len(l) \in Nat /\ DOMAIN l = 1..Len(l)
  BY DEF LikeLines, Line
<1>2. \A k \in 1..Len(l) : LikeWords(l[k], m[k])
  BY <1>1 DEF LikeLines
<1>3. CASE l # <<>> /\ l[1] \in FrameWords
  <2>1. 1 \in 1..Len(l) /\ m # <<>>
    BY <1>1, <1>3 DEF Line
  <2>2. m[1] \in FrameWords
    BY <1>2, <1>3, <2>1, LikeWordsKind
  <2> QED
    BY <2>1, <2>2 DEF IsFrame
<1>4. ASSUME NEW k \in 2..Len(l), l[k] \in Positions, l[k - 1] \in DOMAIN DirsIn,
             \A j \in 1..(k - 2) : l[j] \in Checkouts
      PROVE  IsFrame(m)
  <2>1. k \in 1..Len(l) /\ k - 1 \in 1..Len(l) /\ \A j \in 1..(k - 2) : j \in 1..Len(l)
    BY <1>1
  <2>2. m[k] \in Positions /\ m[k - 1] \in DOMAIN DirsIn
    BY <1>2, <1>4, <2>1, LikeWordsKind
  <2>3. \A j \in 1..(k - 2) : m[j] \in Checkouts
    BY <1>2, <1>4, <2>1, LikeWordsKind
  <2>4. k \in 2..Len(m)
    BY <1>1
  <2> QED
    BY <2>2, <2>3, <2>4 DEF IsFrame
<1> QED
  BY <1>3, <1>4 DEF IsFrame

LEMMA LikeLinesBack ==
  ASSUME NEW l \in Line, NEW m \in Line, LikeLines(l, m)
  PROVE  LikeLines(m, l)
<1>1. \A k \in DOMAIN m : LikeWords(m[k], l[k])
  BY LikeLinesNormalize DEF LikeLines, LikeWords
<1> QED
  BY <1>1 DEF LikeLines

(* Something is left of a frame: its first word, or its path. *)
LEMMA FrameIsLeft ==
  ASSUME NEW l \in Line, IsFrame(l)
  PROVE  Normalize(l) # <<>>
<1>1. Len(l) \in Nat /\ DOMAIN l = 1..Len(l)
  BY DEF Line
<1>2. \E k \in DOMAIN l : Left(l[k]) # ""
  <2>1. CASE l # <<>> /\ l[1] \in FrameWords
    <3>1. 1 \in DOMAIN l
      BY <1>1, <2>1 DEF Line
    <3>2. Left(l[1]) # ""
      BY <2>1, WordsAssumption DEF Left
    <3> QED
      BY <3>1, <3>2
  <2>2. ASSUME NEW k \in 2..Len(l), l[k - 1] \in DOMAIN DirsIn
        PROVE  \E j \in DOMAIN l : Left(l[j]) # ""
    <3>1. k - 1 \in DOMAIN l
      BY <1>1
    <3>2. Left(l[k - 1]) # ""
      BY <2>2, WordsAssumption DEF Left
    <3> QED
      BY <3>1, <3>2
  <2> QED
    BY <2>1, <2>2 DEF IsFrame
<1>3. \E n \in DOMAIN Normalize(l) : TRUE
  BY <1>2, NormalizeFacts
<1> QED
  BY <1>3

-----------------------------------------------------------------------------
(***************************************************************************)
(* Texts: what is extracted from them and what they are classed as.        *)
(***************************************************************************)
LEMMA TextFacts ==
  ASSUME NEW t \in Text
  PROVE  /\ t \in Seq(Line) /\ Len(t) \in Nat /\ DOMAIN t = 1..Len(t)
         /\ \A k \in DOMAIN t : t[k] \in Line
  BY DEF Text

LEMMA LikeTexts ==
  ASSUME NEW s \in Text, NEW t \in Text, Like(s, t)
  PROVE  /\ DOMAIN s = DOMAIN t
         /\ \A k \in DOMAIN s : LikeLines(s[k], t[k]) /\ LikeLines(t[k], s[k])
<1>1. DOMAIN s = DOMAIN t
  BY TextFacts DEF Like
<1>2. \A k \in DOMAIN s : LikeLines(s[k], t[k]) /\ s[k] \in Line /\ t[k] \in Line
  BY <1>1, TextFacts DEF Like
<1> QED
  BY <1>1, <1>2, LikeLinesBack

(* Normalised texts have the normalised lines of which something is left. *)
LEMMA NormalizeAllFacts ==
  ASSUME NEW lines \in Text
  PROVE  /\ NormalizeAll(lines) \in Text /\ Len(NormalizeAll(lines)) <= Len(lines)
         /\ \A n \in DOMAIN NormalizeAll(lines) :
              \E k \in DOMAIN lines : NormalizeAll(lines)[n] = Normalize(lines[k])
         /\ (\E k \in DOMAIN lines : Normalize(lines[k]) # <<>>) => NormalizeAll(lines) # <<>>
<1> DEFINE left == [k \in DOMAIN lines |-> Normalize(lines[k])]
           I    == {k \in DOMAIN left : left[k] # <<>>}
<1>1. left \in Seq(Line) /\ Len(left) = Len(lines) /\ DOMAIN left = DOMAIN lines
  <2>1. left \in [1..Len(lines) -> Line] /\ Len(lines) \in Nat
    BY TextFacts, NormalizeFacts
  <2> QED
    BY <2>1, TextFacts
<1>2. NormalizeAll(lines) = Kept(left, I)
  BY DEF NormalizeAll, Select, NotBlank
<1>3. /\ I \in SUBSET DOMAIN left
      /\ \A k \in I : k \in DOMAIN lines /\ left[k] = Normalize(lines[k])
      /\ \A k \in DOMAIN lines : Normalize(lines[k]) # <<>> => k \in I
  OBVIOUS
<1> HIDE DEF left, I
<1>4. /\ Kept(left, I) \in Seq(Line) /\ Len(Kept(left, I)) = Cardinality(I)
      /\ Cardinality(I) \in Nat /\ Cardinality(I) <= Len(left)
      /\ Kept(left, I) = <<>> <=> I = {}
      /\ \A n \in 1..Cardinality(I) : \E k \in I : Kept(left, I)[n] = left[k]
  BY <1>1, <1>3, KeptFacts
<1>5. DOMAIN Kept(left, I) = 1..Cardinality(I)
  BY <1>4
<1> QED
  BY <1>1, <1>2, <1>3, <1>4, <1>5 DEF Text

LEMMA LikeNormalizeAll ==
  ASSUME NEW s \in Text, NEW t \in Text, Like(s, t)
  PROVE  NormalizeAll(s) = NormalizeAll(t)
<1>1. DOMAIN s = DOMAIN t /\ \A k \in DOMAIN s : Normalize(s[k]) = Normalize(t[k])
  BY LikeTexts, TextFacts, LikeLinesNormalize
<1>2. [k \in DOMAIN s |-> Normalize(s[k])] = [k \in DOMAIN t |-> Normalize(t[k])]
  BY <1>1
<1> QED
  BY <1>2 DEF NormalizeAll

FrameLines(body) == {k \in DOMAIN body : IsFrame(body[k])}

(* The frames extracted from a body are frames of it, and there are some   *)
(* if it has any.                                                          *)
LEMMA ExtractFacts ==
  ASSUME NEW body \in Text
  PROVE  /\ ExtractFrames(body) \in Text /\ Len(ExtractFrames(body)) <= MaxFrames
         /\ \A n \in DOMAIN ExtractFrames(body) :
              \E k \in FrameLines(body) : ExtractFrames(body)[n] = Normalize(body[k])
         /\ ExtractFrames(body) = <<>> <=> FrameLines(body) = {}
<1> DEFINE I      == FrameLines(body)
           framed == Kept(body, I)
           normal == NormalizeAll(framed)
<1>1. I \in SUBSET DOMAIN body /\ body \in Seq(Line)
  BY DEF FrameLines, Text
<1>2. /\ framed \in Seq(Line) /\ Len(framed) = Cardinality(I) /\ Cardinality(I) \in Nat
      /\ framed = <<>> <=> I = {}
      /\ \A n \in 1..Cardinality(I) : \E k \in I : framed[n] = body[k]
  BY <1>1, KeptFacts
<1>3. ExtractFrames(body) = Top(normal)
  BY DEF ExtractFrames, Select, FrameLines
<1>4. framed \in Text /\ DOMAIN framed = 1..Cardinality(I)
  BY <1>2 DEF Text
<1> HIDE DEF framed
<1>5. /\ normal \in Seq(Line)
      /\ \A n \in DOMAIN normal : \E k \in DOMAIN framed : normal[n] = Normalize(framed[k])
      /\ Len(normal) <= Len(framed)
      /\ (\E k \in DOMAIN framed : Normalize(framed[k]) # <<>>) => normal # <<>>
  BY <1>4, NormalizeAllFacts DEF Text
<1>6. normal = <<>> <=> I = {}
  <2>1. ASSUME I = {} PROVE normal = <<>>
    <3>1. \A n \in DOMAIN normal : FALSE
      BY <1>2, <1>4, <1>5, <2>1
    <3> QED
      BY <1>5, <3>1
  <2>2. ASSUME I # {} PROVE normal # <<>>
    <3>1. framed # <<>> /\ framed \in Seq(Line)
      BY <1>2, <2>2
    <3>2. 1 \in DOMAIN framed
      BY <3>1
    <3>3. PICK k \in I : framed[1] = body[k]
      BY <1>2, <1>4, <3>2
    <3>4. Normalize(framed[1]) # <<>>
      BY <3>3, TextFacts, FrameIsLeft DEF FrameLines
    <3> QED
      BY <1>5, <3>2, <3>4
  <2> QED
    BY <2>1, <2>2
<1> HIDE DEF normal, I
<1>7. /\ Top(normal) \in Seq(Line) /\ Len(Top(normal)) <= MaxFrames
      /\ Top(normal) = <<>> <=> normal = <<>>
      /\ \A n \in DOMAIN Top(normal) : n \in DOMAIN normal /\ Top(normal)[n] = normal[n]
  BY <1>5, TopFacts
<1>8. ASSUME NEW n \in DOMAIN Top(normal) PROVE \E k \in I : Top(normal)[n] = Normalize(body[k])
  <2>1. PICK m \in DOMAIN framed : normal[n] = Normalize(framed[m])
    BY <1>5, <1>7
  <2>2. PICK k \in I : framed[m] = body[k]
    BY <1>2, <1>4
  <2> QED
    BY <1>7, <2>1, <2>2
<1> QED
  BY <1>3, <1>6, <1>7, <1>8 DEF Text, I

LEMMA LikeExtract ==
  ASSUME NEW s \in Text, NEW t \in Text, Like(s, t)
  PROVE  ExtractFrames(s) = ExtractFrames(t)
<1>1. DOMAIN s = DOMAIN t /\ \A k \in DOMAIN s : LikeLines(s[k], t[k]) /\ LikeLines(t[k], s[k])
  BY LikeTexts
<1>2. \A k \in DOMAIN s : IsFrame(s[k]) <=> IsFrame(t[k])
  BY <1>1, TextFacts, LikeLinesFrame
<1>3. FrameLines(s) = FrameLines(t)
  BY <1>1, <1>2 DEF FrameLines
<1> DEFINE I == FrameLines(s)
<1>4. I \in SUBSET DOMAIN s /\ s \in Seq(Line) /\ t \in Seq(Line)
  BY DEF FrameLines, Text
<1> HIDE DEF I
<1>5. /\ Len(Kept(s, I)) = Len(Kept(t, I))
      /\ \A n \in DOMAIN Kept(s, I) : \E k \in I : Kept(s, I)[n] = s[k] /\ Kept(t, I)[n] = t[k]
  BY <1>1, <1>4, KeptAlike
<1>6. Like(Kept(s, I), Kept(t, I))
  BY <1>1, <1>4, <1>5 DEF Like
<1>7. Kept(s, I) \in Text /\ Kept(t, I) \in Text
  BY <1>1, <1>4, KeptFacts DEF Text
<1>8. NormalizeAll(Kept(s, I)) = NormalizeAll(Kept(t, I))
  BY <1>6, <1>7, LikeNormalizeAll
<1>9. ExtractFrames(s) = Top(NormalizeAll(Kept(s, I))) /\ ExtractFrames(t) = Top(NormalizeAll(Kept(t, I)))
  BY <1>3 DEF ExtractFrames, Select, FrameLines, I
<1> QED
  BY <1>8, <1>9

FirstWritten(body) == FirstLine(Select(body, NotBlank))

LEMMA FirstFacts ==
  ASSUME NEW body \in Text
  PROVE  FirstWritten(body) \in Line
<1> DEFINE I == {k \in DOMAIN body : body[k] # <<>>}
<1>1. I \in SUBSET DOMAIN body /\ body \in Seq(Line)
  BY DEF Text
<1>2. FirstWritten(body) = FirstLine(Kept(body, I))
  BY DEF FirstWritten, Select, NotBlank
<1> HIDE DEF I
<1>3. Kept(body, I) \in Seq(Line)
  BY <1>1, KeptFacts
<1>4. <<>> \in Line
  BY DEF Line
<1> QED
  BY <1>2, <1>3, <1>4 DEF FirstLine

LEMMA LikeFirst ==
  ASSUME NEW s \in Text, NEW t \in Text, Like(s, t)
  PROVE  LikeLines(FirstWritten(s), FirstWritten(t))
<1> DEFINE I == {k \in DOMAIN s : s[k] # <<>>}
<1>1. DOMAIN s = DOMAIN t /\ \A k \in DOMAIN s : LikeLines(s[k], t[k])
  BY LikeTexts
<1>2. \A k \in DOMAIN s : NotBlank(s[k]) <=> NotBlank(t[k])
  BY <1>1, TextFacts, LikeLinesNormalize
<1>3. I = {k \in DOMAIN t : t[k] # <<>>}
  BY <1>1, <1>2 DEF NotBlank
<1>4. /\ FirstWritten(s) = FirstLine(Kept(s, I))
      /\ FirstWritten(t) = FirstLine(Kept(t, I))
  BY <1>3 DEF FirstWritten, Select, NotBlank
<1>5. I \in SUBSET DOMAIN s /\ s \in Seq(Line) /\ t \in Seq(Line)
  BY DEF Text
<1> HIDE DEF I
<1>6. /\ Kept(s, I) \in Seq(Line) /\ Kept(t, I) \in Seq(Line)
      /\ Len(Kept(s, I)) = Len(Kept(t, I))
      /\ \A n \in DOMAIN Kept(s, I) : \E k \in I : Kept(s, I)[n] = s[k] /\ Kept(t, I)[n] = t[k]
  BY <1>1, <1>5, KeptFacts, KeptAlike
<1>7. CASE Kept(s, I) = <<>>
  <2>1. Kept(t, I) = <<>>
    BY <1>6, <1>7
  <2> QED
    BY <1>4, <1>7, <2>1 DEF FirstLine, LikeLines, LikeWords
<1>8. CASE Kept(s, I) # <<>>
  <2>1. 1 \in DOMAIN Kept(s, I) /\ Kept(t, I) # <<>>
    BY <1>6, <1>8
  <2>2. PICK k \in I : Kept(s, I)[1] = s[k] /\ Kept(t, I)[1] = t[k]
    BY <1>6, <2>1
  <2>3. FirstWritten(s) = s[k] /\ FirstWritten(t) = t[k]
    BY <1>4, <1>6, <1>8, <2>1, <2>2 DEF FirstLine
  <2> QED
    BY <1>1, <1>5, <2>3
<1> QED
  BY <1>7, <1>8

LEMMA ClassFacts ==
  ASSUME NEW title \in Line, NEW body \in Text
  PROVE  /\ ErrorClass(title, body) \in Line
         /\ ErrorClass(title, body) = Normalize(title) \/ Len(ErrorClass(title, body)) = 1
<1> DEFINE first == FirstWritten(body)
<1>1. /\ first \in Line
      /\ ErrorClass(title, body) =
           IF first # <<>> /\ first[1] \in ErrorWords THEN <<first[1]>>
           ELSE IF Normalize(title) # <<>> THEN Normalize(title) ELSE <<"unknown">>
  BY FirstFacts DEF ErrorClass, FirstWritten
<1> HIDE DEF first
<1>2. Normalize(title) \in Line /\ <<"unknown">> \in Line /\ Len(<<"unknown">>) = 1
  <2>1. Normalize(title) \in Line
    BY NormalizeFacts
  <2>2. "unknown" \in Words
    BY WordsAssumption
  <2>3. <<"unknown">> \in Seq(Words) /\ Len(<<"unknown">>) = 1
    BY <2>2, Single
  <2> QED
    BY <2>1, <2>3 DEF Line
<1>3. first # <<>> => <<first[1]>> \in Line /\ Len(<<first[1]>>) = 1
  BY <1>1 DEF Line
<1> QED
  BY <1>1, <1>2, <1>3

LEMMA LikeClass ==
  ASSUME NEW l \in Line, NEW m \in Line, LikeLines(l, m),
         NEW s \in Text, NEW t \in Text, Like(s, t)
  PROVE  ErrorClass(l, s) = ErrorClass(m, t)
<1> DEFINE first  == FirstWritten(s)
           second == FirstWritten(t)
<1>1. Normalize(l) = Normalize(m)
  BY LikeLinesNormalize
<1>2. first \in Line /\ second \in Line /\ LikeLines(first, second)
  BY FirstFacts, LikeFirst
<1>3. /\ ErrorClass(l, s) =
           IF first # <<>> /\ first[1] \in ErrorWords THEN <<first[1]>>
           ELSE IF Normalize(l) # <<>> THEN Normalize(l) ELSE <<"unknown">>
      /\ ErrorClass(m, t) =
           IF second # <<>> /\ second[1] \in ErrorWords THEN <<second[1]>>
           ELSE IF Normalize(m) # <<>> THEN Normalize(m) ELSE <<"unknown">>
  BY DEF ErrorClass, FirstWritten
<1> HIDE DEF first, second
<1>4. first # <<>> <=> second # <<>>
  BY <1>2, LikeLinesNormalize DEF NotBlank
<1>5. first # <<>> => LikeWords(first[1], second[1])
  <2>1. first # <<>> => 1 \in DOMAIN first
    BY <1>2 DEF Line
  <2> QED
    BY <1>2, <2>1 DEF LikeLines
<1>6. first # <<>> /\ (first[1] \in ErrorWords \/ second[1] \in ErrorWords) => first[1] = second[1]
  BY <1>5, LikeWordsKind
<1> QED
  BY <1>1, <1>3, <1>4, <1>6

-----------------------------------------------------------------------------
(***************************************************************************)
(* The selection of frames.                                                *)
(***************************************************************************)
Own(slug, f) == IF SourceRoots(slug) = {} THEN ~Within(f, DependencyDirs)
                                          ELSE Within(f, SourceRoots(slug))

LEMMA OwnFacts ==
  ASSUME NEW slug, NEW frames \in Text
  PROVE  /\ OwnFrames(slug, frames) \in Text /\ Len(OwnFrames(slug, frames)) <= MaxFrames
         /\ \A n \in DOMAIN OwnFrames(slug, frames) :
              \E k \in DOMAIN frames : OwnFrames(slug, frames)[n] = frames[k] /\ Own(slug, frames[k])
         /\ OwnFrames(slug, frames) = <<>> <=> \A k \in DOMAIN frames : ~Own(slug, frames[k])
<1> DEFINE I == {k \in DOMAIN frames : Own(slug, frames[k])}
<1>1. I \in SUBSET DOMAIN frames /\ frames \in Seq(Line)
  BY DEF Text
<1>2. OwnFrames(slug, frames) = Top(Kept(frames, I))
  BY DEF OwnFrames, Select, Own
<1>3. I = {} <=> \A k \in DOMAIN frames : ~Own(slug, frames[k])
  OBVIOUS
<1>4. \A k \in I : k \in DOMAIN frames /\ Own(slug, frames[k])
  OBVIOUS
<1> HIDE DEF I
<1>5. /\ Kept(frames, I) \in Seq(Line) /\ Len(Kept(frames, I)) = Cardinality(I)
      /\ Cardinality(I) \in Nat
      /\ Kept(frames, I) = <<>> <=> I = {}
      /\ \A n \in 1..Cardinality(I) : \E k \in I : Kept(frames, I)[n] = frames[k]
  BY <1>1, KeptFacts
<1>6. DOMAIN Kept(frames, I) = 1..Cardinality(I)
  BY <1>5
<1>7. /\ Top(Kept(frames, I)) \in Seq(Line) /\ Len(Top(Kept(frames, I))) <= MaxFrames
      /\ Top(Kept(frames, I)) = <<>> <=> Kept(frames, I) = <<>>
      /\ \A n \in DOMAIN Top(Kept(frames, I)) :
           n \in DOMAIN Kept(frames, I) /\ Top(Kept(frames, I))[n] = Kept(frames, I)[n]
  BY <1>5, TopFacts
<1> QED
  BY <1>2, <1>3, <1>4, <1>5, <1>6, <1>7 DEF Text

(* The strategy follows from the frames it selected: of what it takes for  *)
(* the project's own there is none in all_frames, and nothing else in the  *)
(* two before it.                                                          *)
StrategyOf(slug, selected) ==
  IF selected = <<>> THEN "no_frames"
  ELSE IF ~Own(slug, selected[1]) THEN "all_frames"
  ELSE IF SourceRoots(slug) = {} THEN "denylist" ELSE "source_roots"

LEMMA SelectFacts ==
  ASSUME NEW slug, NEW frames \in Text
  PROVE  /\ SelectFrames(slug, frames).frames \in Text
         /\ Len(SelectFrames(slug, frames).frames) <= MaxFrames
         /\ SelectFrames(slug, frames).frames = <<>> <=> frames = <<>>
         /\ \A n \in DOMAIN SelectFrames(slug, frames).frames :
              \E k \in DOMAIN frames : SelectFrames(slug, frames).frames[n] = frames[k]
         /\ SelectFrames(slug, frames).strategy = StrategyOf(slug, SelectFrames(slug, frames).frames)
<1> DEFINE own == OwnFrames(slug, frames)
           selected == SelectFrames(slug, frames)
<1>1. /\ own \in Text /\ Len(own) <= MaxFrames
      /\ \A n \in DOMAIN own : \E k \in DOMAIN frames : own[n] = frames[k] /\ Own(slug, frames[k])
      /\ own = <<>> <=> \A k \in DOMAIN frames : ~Own(slug, frames[k])
  BY OwnFacts
<1>2. CASE frames = <<>>
  <2>1. own = <<>>
    BY <1>1, <1>2
  <2>2. selected = [strategy |-> "no_frames", frames |-> <<>>]
    BY <1>2, <2>1 DEF SelectFrames
  <2>3. <<>> \in Text /\ Len(<<>>) = 0 /\ DOMAIN <<>> = {} /\ 0 <= MaxFrames
    BY BoundsAssumption DEF Text
  <2> QED
    BY <1>2, <2>2, <2>3 DEF StrategyOf
<1>3. CASE frames # <<>> /\ own # <<>>
  <2>1. selected = [strategy |-> IF SourceRoots(slug) = {} THEN "denylist" ELSE "source_roots",
                    frames   |-> own]
    BY <1>3 DEF SelectFrames
  <2>2. 1 \in DOMAIN own
    BY <1>1, <1>3 DEF Text
  <2>3. Own(slug, own[1])
    BY <1>1, <2>2
  <2> QED
    BY <1>1, <1>3, <2>1, <2>3 DEF StrategyOf
<1>4. CASE frames # <<>> /\ own = <<>>
  <2>1. selected = [strategy |-> "all_frames", frames |-> Top(frames)]
    BY <1>4 DEF SelectFrames
  <2>2. /\ Top(frames) \in Text /\ Len(Top(frames)) <= MaxFrames /\ Top(frames) # <<>>
        /\ \A n \in DOMAIN Top(frames) : n \in DOMAIN frames /\ Top(frames)[n] = frames[n]
    BY <1>4, TopFacts DEF Text
  <2>3. 1 \in DOMAIN Top(frames)
    BY <2>2 DEF Text
  <2>4. ~Own(slug, Top(frames)[1])
    BY <1>1, <1>4, <2>2, <2>3
  <2> QED
    BY <1>4, <2>1, <2>2, <2>4 DEF StrategyOf
<1> QED
  BY <1>2, <1>3, <1>4

-----------------------------------------------------------------------------
(***************************************************************************)
(* The first that failed.                                                  *)
(***************************************************************************)
LEMMA LeastIndex ==
  ASSUME NEW I, IsFiniteSet(I), I \subseteq Nat, I # {}
  PROVE  \E k \in I : \A j \in I : k <= j
<1>1. Cardinality(I) \in Nat /\ Cardinality(I) # 0
  BY FS_CardinalityType, FS_EmptySet
<1>2. PICK k \in I : Cardinality(UpTo(I, k)) = 1
  <2>1. 1 \in 1..Cardinality(I)
    BY <1>1
  <2> QED
    BY <2>1, NthIndex
<1>3. ASSUME NEW j \in I PROVE ~(j < k)
  <2>1. j < k => Cardinality(UpTo(I, j)) < 1
    BY <1>2, RankRises
  <2>2. Cardinality(UpTo(I, j)) \in 1..Cardinality(I)
    BY RankOf
  <2> QED
    BY <1>1, <2>1, <2>2
<1>4. ASSUME NEW j \in I PROVE k <= j
  <2>1. j \in Nat /\ k \in Nat
    OBVIOUS
  <2> QED
    BY <1>3, <2>1
<1> QED
  BY <1>4

FailedOf(s) == Select(s, LAMBDA x : x.failed)

LEMMA FirstFailed ==
  ASSUME NEW S, NEW s \in Seq(S)
  PROVE  /\ ~Fails(s) => FailedOf(s) = <<>>
         /\ Fails(s) => /\ FailedOf(s) # <<>>
                        /\ FirstFailing(s) \in DOMAIN s
                        /\ Head(FailedOf(s)) = s[FirstFailing(s)]
<1> DEFINE I == {k \in DOMAIN s : s[k].failed}
<1>1. I \in SUBSET DOMAIN s /\ DOMAIN s = 1..Len(s) /\ Len(s) \in Nat
  OBVIOUS
<1>2. FailedOf(s) = Kept(s, I)
  BY DEF FailedOf, Select
<1>3. Fails(s) <=> I # {}
  BY DEF Fails
<1>4. IsFiniteSet(I) /\ I \subseteq Nat /\ (Kept(s, I) = <<>> <=> I = {})
  BY <1>1, KeptFacts
<1>5. ASSUME I # {} PROVE FirstFailing(s) \in I /\ \A j \in I : FirstFailing(s) <= j
  <2>1. PICK k \in I : \A j \in I : k <= j
    BY <1>4, <1>5, LeastIndex
  <2>2. \A m \in 1..(k - 1) : m \in DOMAIN s /\ m \notin I
    <3> SUFFICES ASSUME NEW m \in 1..(k - 1) PROVE m \in DOMAIN s /\ m \notin I
      OBVIOUS
    <3>1. k \in 1..Len(s)
      BY <1>1
    <3>2. m \in DOMAIN s /\ ~(k <= m)
      BY <1>1, <3>1
    <3> QED
      BY <2>1, <3>2
  <2>3. k \in DOMAIN s /\ s[k].failed /\ \A m \in 1..(k - 1) : ~s[m].failed
    BY <2>2
  <2>4. /\ FirstFailing(s) \in DOMAIN s /\ s[FirstFailing(s)].failed
        /\ \A m \in 1..(FirstFailing(s) - 1) : ~s[m].failed
    BY <2>3 DEF FirstFailing
  <2>5. ASSUME NEW j \in I PROVE FirstFailing(s) <= j
    <3>1. j \in 1..Len(s) /\ FirstFailing(s) \in 1..Len(s) /\ s[j].failed
      BY <1>1, <2>4
    <3>2. j \notin 1..(FirstFailing(s) - 1)
      BY <2>4, <3>1
    <3> QED
      BY <1>1, <3>1, <3>2
  <2> QED
    BY <2>4, <2>5
<1>6. ASSUME I # {} PROVE Kept(s, I) # <<>> /\ Head(Kept(s, I)) = s[FirstFailing(s)]
  BY <1>1, <1>5, <1>6, KeptFirst
<1> QED
  BY <1>1, <1>2, <1>3, <1>4, <1>5, <1>6

(* The names a run is grouped by: its first failing job's, and that of the *)
(* job's first failing step.                                               *)
FailedJob(run)  == run.jobs[FirstFailing(run.jobs)]
FailedStep(run) == FailedJob(run).steps[FirstFailing(FailedJob(run).steps)]

LEMMA FailedJobType ==
  ASSUME NEW run \in Runs, Fails(run.jobs)
  PROVE  /\ FirstFailing(run.jobs) \in DOMAIN run.jobs
         /\ FailedJob(run) \in Job /\ FailedJob(run).name \in Line
         /\ Fails(FailedJob(run).steps) =>
              /\ FirstFailing(FailedJob(run).steps) \in DOMAIN FailedJob(run).steps
              /\ FailedStep(run).name \in Line
<1>1. run.jobs \in Seq(Job)
  BY InputsAssumption
<1>2. FirstFailing(run.jobs) \in DOMAIN run.jobs
  BY <1>1, FirstFailed
<1>3. FailedJob(run) \in Job
  BY <1>1, <1>2 DEF FailedJob
<1>4. /\ FailedJob(run).name \in Line
      /\ FailedJob(run).steps \in Seq([name : Line, failed : BOOLEAN])
  BY <1>3 DEF Job
<1>5. Fails(FailedJob(run).steps) =>
        FirstFailing(FailedJob(run).steps) \in DOMAIN FailedJob(run).steps
  BY <1>4, FirstFailed
<1>6. Fails(FailedJob(run).steps) => FailedStep(run) \in [name : Line, failed : BOOLEAN]
  <2> SUFFICES ASSUME Fails(FailedJob(run).steps)
               PROVE  FailedStep(run) \in [name : Line, failed : BOOLEAN]
    OBVIOUS
  <2> DEFINE steps == FailedJob(run).steps
             Step == [name : Line, failed : BOOLEAN]
  <2>1. steps \in Seq(Step) /\ FirstFailing(steps) \in DOMAIN steps
    BY <1>4, <1>5
  <2>2. FailedStep(run) = steps[FirstFailing(steps)]
    BY DEF FailedStep
  <2> HIDE DEF steps, Step
  <2>3. steps[FirstFailing(steps)] \in Step
    BY <2>1
  <2> QED
    BY <2>2, <2>3 DEF Step
<1> QED
  BY <1>2, <1>3, <1>4, <1>5, <1>6

LEMMA FailedJobStepsFacts ==
  ASSUME NEW run \in Runs
  PROVE  /\ ~Fails(run.jobs) => FailedJobSteps(run) = <<>>
         /\ Fails(run.jobs) =>
              FailedJobSteps(run) = IF Fails(FailedJob(run).steps)
                                    THEN <<FailedJob(run).name, FailedStep(run).name>>
                                    ELSE <<FailedJob(run).name>>
<1>1. FailedJobSteps(run) =
        IF FailedOf(run.jobs) = <<>> THEN <<>>
        ELSE <<Head(FailedOf(run.jobs)).name>> \o
               (IF FailedOf(Head(FailedOf(run.jobs)).steps) = <<>> THEN <<>>
                ELSE <<Head(FailedOf(Head(FailedOf(run.jobs)).steps)).name>>)
  BY DEF FailedJobSteps, FailedOf
<1>2. run.jobs \in Seq(Job)
  BY InputsAssumption
<1>3. CASE ~Fails(run.jobs)
  BY <1>1, <1>2, <1>3, FirstFailed
<1>4. CASE Fails(run.jobs)
  <2>1. FailedOf(run.jobs) # <<>> /\ Head(FailedOf(run.jobs)) = FailedJob(run)
    BY <1>2, <1>4, FirstFailed DEF FailedJob
  <2>2. FailedJob(run) \in Job
    BY <1>4, FailedJobType
  <2>3. FailedJob(run).steps \in Seq([name : Line, failed : BOOLEAN])
    BY <2>2 DEF Job
  <2>4. FailedJobSteps(run) =
          <<FailedJob(run).name>> \o
            (IF FailedOf(FailedJob(run).steps) = <<>> THEN <<>>
             ELSE <<Head(FailedOf(FailedJob(run).steps)).name>>)
    BY <1>1, <2>1
  <2>5. CASE ~Fails(FailedJob(run).steps)
    <3>1. FailedOf(FailedJob(run).steps) = <<>>
      BY <2>3, <2>5, FirstFailed
    <3>2. FailedJobSteps(run) = <<FailedJob(run).name>> \o <<>>
      BY <2>4, <3>1
    <3> QED
      BY <1>4, <2>5, <3>2
  <2>6. CASE Fails(FailedJob(run).steps)
    <3>1. /\ FailedOf(FailedJob(run).steps) # <<>>
          /\ Head(FailedOf(FailedJob(run).steps)) = FailedStep(run)
      BY <2>3, <2>6, FirstFailed DEF FailedStep
    <3>2. FailedJobSteps(run) = <<FailedJob(run).name>> \o <<FailedStep(run).name>>
      BY <2>4, <3>1
    <3>3. FailedJob(run).name \in Line /\ FailedStep(run).name \in Line
      BY <1>4, <2>6, FailedJobType
    <3> QED
      BY <1>4, <2>6, <3>2, <3>3, Pair
  <2> QED
    BY <2>5, <2>6
<1> QED
  BY <1>3, <1>4

-----------------------------------------------------------------------------
(***************************************************************************)
(* Incidents and their fingerprints.                                       *)
(***************************************************************************)
Kinds      == {"log.error", "workflow_run.failed", "issues.opened"}
Strategies == {"source_roots", "denylist", "all_frames", "workflow", "no_frames"}
Verdicts   == {"pass", "filtered", "suppressed"}

Failure == [slug : Slugs, kind : Kinds, title : Line, body : Text, workflow : Words, steps : Text]

FramesFor(incident) == SelectFrames(incident.slug, ExtractFrames(incident.body)).frames

(* What a log entry or an issue is grouped by: a class and frames of its   *)
(* own, some if it has any, which tell the strategy they were selected by. *)
LEMMA StackFingerprint ==
  ASSUME NEW incident \in Failure, ~IsRun(incident)
  PROVE  /\ Fingerprint(incident).hash =
              <<incident.slug, ErrorClass(incident.title, incident.body), FramesFor(incident)>>
         /\ Fingerprint(incident).strategy = StrategyOf(incident.slug, FramesFor(incident))
         /\ FramesFor(incident) \in Text /\ Len(FramesFor(incident)) <= MaxFrames
         /\ FramesFor(incident) = <<>> <=> FramesOf(incident) = {}
         /\ \A n \in DOMAIN FramesFor(incident) : FramesFor(incident)[n] \in FramesOf(incident)
         /\ ErrorClass(incident.title, incident.body) \in Line
<1> DEFINE frames   == ExtractFrames(incident.body)
           selected == FramesFor(incident)
<1>1. incident.body \in Text /\ incident.title \in Line
  BY DEF Failure
<1>2. /\ frames \in Text
      /\ \A n \in DOMAIN frames : \E k \in FrameLines(incident.body) : frames[n] = Normalize(incident.body[k])
      /\ frames = <<>> <=> FrameLines(incident.body) = {}
  BY <1>1, ExtractFacts
<1>3. /\ selected \in Text /\ Len(selected) <= MaxFrames
      /\ selected = <<>> <=> frames = <<>>
      /\ \A n \in DOMAIN selected : \E k \in DOMAIN frames : selected[n] = frames[k]
      /\ SelectFrames(incident.slug, frames).strategy = StrategyOf(incident.slug, selected)
  BY <1>2, SelectFacts DEF FramesFor
<1>4. FramesOf(incident) = {Normalize(incident.body[k]) : k \in FrameLines(incident.body)}
  BY DEF FramesOf, FrameLines
<1>5. FramesOf(incident) = {} <=> FrameLines(incident.body) = {}
  BY <1>4
<1>6. \A n \in DOMAIN selected : selected[n] \in FramesOf(incident)
  BY <1>2, <1>3, <1>4
<1>7. /\ Fingerprint(incident).hash =
           <<incident.slug, ErrorClass(incident.title, incident.body), selected>>
      /\ Fingerprint(incident).strategy = SelectFrames(incident.slug, frames).strategy
  BY DEF Fingerprint, ComputeFingerprint, FramesFor
<1>8. ErrorClass(incident.title, incident.body) \in Line
  BY <1>1, ClassFacts
<1> QED
  BY <1>2, <1>3, <1>5, <1>6, <1>7, <1>8

LEMMA RunFingerprint ==
  ASSUME NEW incident \in Failure, IsRun(incident)
  PROVE  /\ Fingerprint(incident).hash =
              <<incident.slug, <<"workflow:", incident.workflow>>, NormalizeAll(incident.steps)>>
         /\ Fingerprint(incident).strategy = "workflow"
         /\ NormalizeAll(incident.steps) \in Text
         /\ Len(NormalizeAll(incident.steps)) <= Len(incident.steps)
         /\ <<"workflow:", incident.workflow>> \in Line
<1>1. incident.steps \in Text /\ incident.workflow \in Words /\ "workflow:" \in Words
  BY WordsAssumption DEF Failure
<1>2. /\ NormalizeAll(incident.steps) \in Text
      /\ Len(NormalizeAll(incident.steps)) <= Len(incident.steps)
  BY <1>1, NormalizeAllFacts
<1>3. <<"workflow:", incident.workflow>> \in Line
  BY <1>1, Pair DEF Line
<1> QED
  BY <1>2, <1>3 DEF Fingerprint, WorkflowFingerprint

(* What repeats a failure has its fingerprint. *)
LEMMA RepeatsShareHash ==
  ASSUME NEW a \in Failure, NEW b \in Failure, Repeats(a, b)
  PROVE  Fingerprint(a).hash = Fingerprint(b).hash
<1>1. a.slug = b.slug /\ a.workflow = b.workflow /\ (IsRun(a) <=> IsRun(b))
  BY DEF Repeats, IsRun
<1>2. /\ a.title \in Line /\ a.body \in Text /\ a.steps \in Text
      /\ b.title \in Line /\ b.body \in Text /\ b.steps \in Text
  BY DEF Failure
<1>3. CASE IsRun(a)
  <2>1. Like(a.steps, b.steps)
    BY <1>3 DEF Repeats
  <2>2. NormalizeAll(a.steps) = NormalizeAll(b.steps)
    BY <1>2, <2>1, LikeNormalizeAll
  <2> QED
    BY <1>1, <1>3, <2>2, RunFingerprint
<1>4. CASE ~IsRun(a)
  <2>1. Like(a.body, b.body) /\ LikeLines(a.title, b.title)
    BY <1>4 DEF Repeats
  <2>2. ErrorClass(a.title, a.body) = ErrorClass(b.title, b.body)
    BY <1>2, <2>1, LikeClass
  <2>3. ExtractFrames(a.body) = ExtractFrames(b.body)
    BY <1>2, <2>1, LikeExtract
  <2>4. FramesFor(a) = FramesFor(b)
    BY <1>1, <2>3 DEF FramesFor
  <2> QED
    BY <1>1, <1>4, <2>2, <2>4, StackFingerprint
<1> QED
  BY <1>3, <1>4

LEMMA HashType ==
  ASSUME NEW incident \in Failure
  PROVE  /\ Fingerprint(incident).hash \in Slugs \X Line \X Text
         /\ Fingerprint(incident).strategy \in Strategies
         /\ Len(Fingerprint(incident).hash[3]) <=
              (IF IsRun(incident) THEN Len(incident.steps) ELSE MaxFrames)
<1>1. incident.slug \in Slugs
  BY DEF Failure
<1>2. ASSUME NEW class \in Line, NEW frames \in Text
      PROVE  <<incident.slug, class, frames>> \in Slugs \X Line \X Text
  BY <1>1
<1>3. CASE IsRun(incident)
  <2>1. /\ Fingerprint(incident).hash =
             <<incident.slug, <<"workflow:", incident.workflow>>, NormalizeAll(incident.steps)>>
        /\ Fingerprint(incident).strategy = "workflow"
        /\ NormalizeAll(incident.steps) \in Text
        /\ Len(NormalizeAll(incident.steps)) <= Len(incident.steps)
        /\ <<"workflow:", incident.workflow>> \in Line
    BY <1>3, RunFingerprint
  <2>2. Fingerprint(incident).hash \in Slugs \X Line \X Text
    BY <1>2, <2>1
  <2> QED
    BY <1>3, <2>1, <2>2 DEF Strategies
<1>4. CASE ~IsRun(incident)
  <2>1. /\ Fingerprint(incident).hash =
             <<incident.slug, ErrorClass(incident.title, incident.body), FramesFor(incident)>>
        /\ Fingerprint(incident).strategy = StrategyOf(incident.slug, FramesFor(incident))
        /\ FramesFor(incident) \in Text /\ Len(FramesFor(incident)) <= MaxFrames
        /\ ErrorClass(incident.title, incident.body) \in Line
    BY <1>4, StackFingerprint
  <2>2. Fingerprint(incident).hash \in Slugs \X Line \X Text
    BY <1>2, <2>1
  <2>3. StrategyOf(incident.slug, FramesFor(incident)) \in Strategies
    BY DEF Strategies, StrategyOf
  <2> QED
    BY <1>4, <2>1, <2>2, <2>3
<1> QED
  BY <1>3, <1>4

(* What the three adapters store. *)
LEMMA LogIncidentType ==
  ASSUME NEW slug \in Slugs, NEW entry \in Entries
  PROVE  /\ LogIncident(slug, entry) \in Failure /\ ~IsRun(LogIncident(slug, entry))
         /\ LogIncident(slug, entry).title = MessageAndBody(entry).title
<1>1. /\ entry.text \in Seq(Line) /\ entry.stack \in Seq(Line)
      /\ entry.message \in Seq(Line) /\ entry.other \in Line
  BY InputsAssumption DEF Text
<1>2. ASSUME NEW s \in Seq(Line), s # <<>> PROVE Head(s) \in Line
  BY <1>2
<1>3. <<>> \in Text /\ <<entry.other>> \in Text /\ "" \in Words
  BY <1>1, Blank, Single DEF Text
<1>4. MessageAndBody(entry).title \in Line /\ MessageAndBody(entry).body \in Text
  <2>1. CASE entry.text # <<>>
    <3>1. MessageAndBody(entry) = [title |-> Head(entry.text), body |-> entry.text]
      BY <2>1 DEF MessageAndBody
    <3> QED
      BY <1>1, <1>2, <2>1, <3>1 DEF Text
  <2>2. CASE entry.text = <<>> /\ entry.stack # <<>>
    <3>1. MessageAndBody(entry) =
            [title |-> Head(IF entry.message # <<>> THEN entry.message ELSE entry.stack),
             body  |-> entry.stack]
      BY <2>2 DEF MessageAndBody
    <3> QED
      BY <1>1, <1>2, <2>2, <3>1 DEF Text
  <2>3. CASE entry.text = <<>> /\ entry.stack = <<>> /\ entry.message # <<>>
    <3>1. MessageAndBody(entry) = [title |-> Head(entry.message), body |-> entry.message]
      BY <2>3 DEF MessageAndBody
    <3> QED
      BY <1>1, <1>2, <2>3, <3>1 DEF Text
  <2>4. CASE entry.text = <<>> /\ entry.stack = <<>> /\ entry.message = <<>>
    <3>1. MessageAndBody(entry) =
            [title |-> entry.other, body |-> IF entry.other = <<>> THEN <<>> ELSE <<entry.other>>]
      BY <2>4 DEF MessageAndBody
    <3>2. (IF entry.other = <<>> THEN <<>> ELSE <<entry.other>>) \in Text
      BY <1>3
    <3> QED
      BY <1>1, <3>1, <3>2
  <2> QED
    BY <2>1, <2>2, <2>3, <2>4
<1>5. PICK head \in Line : head = MessageAndBody(entry).title
  BY <1>4
<1>6. PICK lines \in Text : lines = MessageAndBody(entry).body
  BY <1>4
<1>7. LogIncident(slug, entry) = Incident(slug, "log.error", head, lines, "", <<>>)
  BY <1>5, <1>6 DEF LogIncident
<1>8. /\ LogIncident(slug, entry) \in Failure /\ LogIncident(slug, entry).title = head
      /\ ~IsRun(LogIncident(slug, entry))
  <2> DEFINE stored == LogIncident(slug, entry)
  <2>1. stored = [slug |-> slug, kind |-> "log.error", title |-> head, body |-> lines,
                  workflow |-> "", steps |-> <<>>]
    BY <1>7 DEF Incident
  <2> HIDE DEF stored
  <2>2. stored.kind = "log.error" /\ stored.title = head
    BY <2>1
  <2>3. ~IsRun(stored)
    BY <2>2 DEF IsRun
  <2>4. "log.error" \in Kinds
    BY DEF Kinds
  <2>5. stored \in Failure
    BY <2>1, <2>4, Blank DEF Failure
  <2> QED
    BY <2>2, <2>3, <2>5 DEF stored
<1> QED
  BY <1>5, <1>8

LEMMA IssueIncidentType ==
  ASSUME NEW slug \in Slugs, NEW issue \in Issues
  PROVE  /\ IssueIncident(slug, issue) \in Failure /\ ~IsRun(IssueIncident(slug, issue))
         /\ IssueIncident(slug, issue).title = issue.title
<1>1. issue.title \in Line /\ issue.body \in Text
  BY InputsAssumption
<1> QED
  BY <1>1, Blank DEF IssueIncident, Incident, Failure, Kinds, IsRun

LEMMA RunIncidentType ==
  ASSUME NEW slug \in Slugs, NEW run \in Runs, NEW found \in BOOLEAN
  PROVE  /\ RunIncident(slug, run, found) \in Failure /\ IsRun(RunIncident(slug, run, found))
         /\ RunIncident(slug, run, found).slug = slug
         /\ Len(RunIncident(slug, run, found).steps) <= 2
<1>1. run.id \in Words /\ run.workflow \in Words /\ run.commit \in Text
  BY InputsAssumption
<1>2. <<"run:", run.id>> \in Line /\ <<run.workflow, "failed">> \in Line
  BY <1>1, WordsAssumption, Pair DEF Line
<1>3. FailedJobSteps(run) # <<>> => FailedJobSteps(run) \in Text /\ Len(FailedJobSteps(run)) <= 2
  <2> SUFFICES ASSUME FailedJobSteps(run) # <<>>
               PROVE  FailedJobSteps(run) \in Text /\ Len(FailedJobSteps(run)) <= 2
    OBVIOUS
  <2>1. /\ Fails(run.jobs)
        /\ FailedJobSteps(run) = IF Fails(FailedJob(run).steps)
                                 THEN <<FailedJob(run).name, FailedStep(run).name>>
                                 ELSE <<FailedJob(run).name>>
    BY FailedJobStepsFacts
  <2>2. FailedJob(run).name \in Line /\ (Fails(FailedJob(run).steps) => FailedStep(run).name \in Line)
    BY <2>1, FailedJobType
  <2>3. CASE Fails(FailedJob(run).steps)
    BY <2>1, <2>2, <2>3, Pair DEF Text
  <2>4. CASE ~Fails(FailedJob(run).steps)
    BY <2>1, <2>2, <2>4, Single DEF Text
  <2> QED
    BY <2>3, <2>4
<1>4. FailedSteps(run, found) \in Text /\ Len(FailedSteps(run, found)) <= 2
  <2>1. <<<<"run:", run.id>>>> \in Text /\ Len(<<<<"run:", run.id>>>>) = 1
    BY <1>2, Single DEF Text
  <2> QED
    BY <1>3, <2>1 DEF FailedSteps
<1> HIDE DEF FailedSteps
<1> QED
  BY <1>1, <1>2, <1>4 DEF RunIncident, Incident, Failure, Kinds, IsRun

-----------------------------------------------------------------------------
(***************************************************************************)
(* What is decided within a window.                                        *)
(***************************************************************************)
Decision ==
  [of : Entries \cup Runs \cup Issues, found : BOOLEAN, incident : Failure,
   hash : Slugs \X Line \X Text, strategy : Strategies, verdict : Verdicts]

(* The incident is that of the failure it was stored for. *)
Stores(incident, of, found) ==
  \/ /\ IsRun(incident) /\ of \in Runs
     /\ incident = RunIncident(incident.slug, of, found)
     /\ Len(incident.steps) <= 2
  \/ /\ ~IsRun(incident)
     /\ \/ \E entry \in Entries : incident.title = MessageAndBody(entry).title
        \/ \E issue \in Issues : incident.title = issue.title

Recorded(d) ==
  /\ Stores(d.incident, d.of, d.found)
  /\ d.hash = Fingerprint(d.incident).hash
  /\ d.strategy = Fingerprint(d.incident).strategy

(* Only the first of a fingerprint passes the chain. *)
OnePasses ==
  \A i, j \in DOMAIN decided :
    i < j /\ decided[i].hash = decided[j].hash => decided[j].verdict # "pass"

WindowInv ==
  /\ decided \in Seq(Decision) /\ Len(decided) <= MaxDecided
  /\ \A i \in DOMAIN decided : Recorded(decided[i])
  /\ OnePasses

LEMMA Appended ==
  ASSUME NEW S, NEW s \in Seq(S), NEW e \in S
  PROVE  /\ Append(s, e) \in Seq(S) /\ Len(Append(s, e)) = Len(s) + 1 /\ Len(s) \in Nat
         /\ Append(s, e)[Len(s) + 1] = e
         /\ \A i \in DOMAIN s : i \in 1..Len(s) /\ Append(s, e)[i] = s[i]
         /\ \A i \in DOMAIN Append(s, e) : i \in DOMAIN s \/ i = Len(s) + 1
  OBVIOUS

LEMMA VerdictFacts ==
  ASSUME NEW incident, NEW suppressed \in BOOLEAN
  PROVE  /\ Verdict(incident, suppressed) \in Verdicts
         /\ suppressed => Verdict(incident, suppressed) # "pass"
<1>1. CASE Transient(incident)
  <2>1. Verdict(incident, suppressed) = "filtered"
    BY <1>1 DEF Verdict
  <2> QED
    BY <2>1 DEF Verdicts
<1>2. CASE ~Transient(incident) /\ suppressed
  <2>1. Verdict(incident, suppressed) = "suppressed"
    BY <1>2 DEF Verdict
  <2> QED
    BY <2>1 DEF Verdicts
<1>3. CASE ~Transient(incident) /\ ~suppressed
  <2>1. Verdict(incident, suppressed) = "pass"
    BY <1>3 DEF Verdict
  <2> QED
    BY <1>3, <2>1 DEF Verdicts
<1> QED
  BY <1>1, <1>2, <1>3

LEMMA ProcessKeeps ==
  ASSUME WindowInv, Len(decided) < MaxDecided,
         NEW of \in Entries \cup Runs \cup Issues, NEW found \in BOOLEAN, NEW incident \in Failure,
         Stores(incident, of, found), Process(of, found, incident)
  PROVE  WindowInv'
<1> DEFINE fp   == Fingerprint(incident)
           seen == \E i \in DOMAIN decided : decided[i].hash = fp.hash
           new  == [of |-> of, found |-> found, incident |-> incident, hash |-> fp.hash,
                    strategy |-> fp.strategy, verdict |-> Verdict(incident, seen)]
<1>1. decided' = Append(decided, new)
  BY DEF Process
<1>2. seen \in BOOLEAN
  OBVIOUS
<1>3. fp.hash \in Slugs \X Line \X Text /\ fp.strategy \in Strategies
  BY HashType
<1>4. Verdict(incident, seen) \in Verdicts /\ (seen => Verdict(incident, seen) # "pass")
  BY <1>2, VerdictFacts
<1> HIDE DEF fp, seen
<1>5. new \in Decision
  BY <1>3, <1>4 DEF Decision
<1>6. Recorded(new)
  BY DEF Recorded, fp
<1>7. \A i \in DOMAIN decided : decided[i].hash = new.hash => new.verdict # "pass"
  BY <1>4 DEF seen
<1> HIDE DEF new
<1>8. /\ decided' \in Seq(Decision) /\ Len(decided') = Len(decided) + 1 /\ Len(decided) \in Nat
      /\ decided'[Len(decided) + 1] = new
      /\ \A i \in DOMAIN decided : i \in 1..Len(decided) /\ decided'[i] = decided[i]
      /\ \A i \in DOMAIN decided' : i \in DOMAIN decided \/ i = Len(decided) + 1
  BY <1>1, <1>5, Appended DEF WindowInv
<1>9. Len(decided') <= MaxDecided
  BY <1>8, BoundsAssumption
<1>10. \A i \in DOMAIN decided' : Recorded(decided'[i])
  BY <1>6, <1>8 DEF WindowInv
<1>11. OnePasses'
  <2> SUFFICES ASSUME NEW i \in DOMAIN decided', NEW j \in DOMAIN decided', i < j,
                      decided'[i].hash = decided'[j].hash
               PROVE  decided'[j].verdict # "pass"
    BY DEF OnePasses
  <2>1. CASE j \in DOMAIN decided
    <3>1. i \in DOMAIN decided
      BY <1>8, <2>1
    <3> QED
      BY <1>8, <2>1, <3>1 DEF WindowInv, OnePasses
  <2>2. CASE j = Len(decided) + 1
    <3>1. i \in DOMAIN decided
      BY <1>8, <2>2
    <3> QED
      BY <1>7, <1>8, <2>2, <3>1
  <2> QED
    BY <1>8, <2>1, <2>2
<1>12. WindowInv' <=> /\ decided' \in Seq(Decision) /\ Len(decided') <= MaxDecided
                      /\ \A i \in DOMAIN decided' : Recorded(decided'[i])
                      /\ OnePasses'
  BY DEF WindowInv, Recorded, Stores
<1> QED
  BY <1>8, <1>9, <1>10, <1>11, <1>12

LEMMA WindowStep ==
  ASSUME WindowInv, [Next]_decided
  PROVE  WindowInv'
<1>1. ASSUME Len(decided) < MaxDecided, NEW slug \in Slugs, NEW entry \in Entries, TriageLog(slug, entry)
      PROVE  WindowInv'
  <2>1. Process(entry, TRUE, LogIncident(slug, entry))
    BY <1>1 DEF TriageLog
  <2>2. LogIncident(slug, entry) \in Failure /\ Stores(LogIncident(slug, entry), entry, TRUE)
    BY LogIncidentType DEF Stores
  <2> QED
    BY <1>1, <2>1, <2>2, ProcessKeeps
<1>2. ASSUME Len(decided) < MaxDecided, NEW slug \in Slugs, NEW run \in Runs, NEW found \in BOOLEAN,
             TriageRun(slug, run, found)
      PROVE  WindowInv'
  <2>1. Process(run, found, RunIncident(slug, run, found))
    BY <1>2 DEF TriageRun
  <2>2. RunIncident(slug, run, found) \in Failure /\ Stores(RunIncident(slug, run, found), run, found)
    BY RunIncidentType DEF Stores
  <2> QED
    BY <1>2, <2>1, <2>2, ProcessKeeps
<1>3. ASSUME Len(decided) < MaxDecided, NEW slug \in Slugs, NEW issue \in Issues, TriageIssue(slug, issue)
      PROVE  WindowInv'
  <2>1. Process(issue, TRUE, IssueIncident(slug, issue))
    BY <1>3 DEF TriageIssue
  <2>2. IssueIncident(slug, issue) \in Failure /\ Stores(IssueIncident(slug, issue), issue, TRUE)
    BY IssueIncidentType DEF Stores
  <2> QED
    BY <1>3, <2>1, <2>2, ProcessKeeps
<1>4. CASE Lull
  <2>1. decided' = <<>> /\ Len(<<>>) = 0 /\ DOMAIN <<>> = {} /\ <<>> \in Seq(Decision) /\ 0 <= MaxDecided
    BY <1>4, BoundsAssumption DEF Lull
  <2> QED
    BY <2>1 DEF WindowInv, OnePasses
<1>5. CASE UNCHANGED decided
  BY <1>5 DEF WindowInv, OnePasses, Recorded, Stores
<1> QED
  BY <1>1, <1>2, <1>3, <1>4, <1>5 DEF Next

LEMMA WindowHolds == Spec => []WindowInv
<1>1. Init => WindowInv
  <2>1. <<>> \in Seq(Decision) /\ Len(<<>>) = 0 /\ DOMAIN <<>> = {} /\ 0 <= MaxDecided
    BY BoundsAssumption
  <2> QED
    BY <2>1 DEF Init, WindowInv, OnePasses
<1> QED
  BY <1>1, WindowStep, PTL DEF Spec

-----------------------------------------------------------------------------
(***************************************************************************)
(* Theorems.                                                               *)
(***************************************************************************)

(* Every decided failure has a strategy and a verdict the dashboard knows, *)
(* and is grouped on at most MaxFrames frames, or on a job and a step.     *)
THEOREM TypeCorrect == Spec => []TypeOK
<1>1. WindowInv => TypeOK
  <2> SUFFICES ASSUME WindowInv PROVE TypeOK
    OBVIOUS
  <2> SUFFICES ASSUME NEW i \in DOMAIN decided
               PROVE  /\ decided[i].strategy \in Strategies /\ decided[i].verdict \in Verdicts
                      /\ Len(decided[i].hash[3]) <= (IF IsRun(decided[i].incident) THEN 2 ELSE MaxFrames)
    BY DEF WindowInv, TypeOK, Strategies, Verdicts
  <2> DEFINE d == decided[i]
  <2>1. d \in Decision /\ Recorded(d)
    BY DEF WindowInv
  <2> HIDE DEF d
  <2>2. d.strategy \in Strategies /\ d.verdict \in Verdicts /\ d.incident \in Failure
    BY <2>1 DEF Decision
  <2>3. Len(d.hash[3]) <= (IF IsRun(d.incident) THEN Len(d.incident.steps) ELSE MaxFrames)
    BY <2>1, <2>2, HashType DEF Recorded
  <2>4. IsRun(d.incident) => Len(d.incident.steps) <= 2
    BY <2>1 DEF Recorded, Stores
  <2>5. d.hash[3] \in Text /\ d.incident.steps \in Text
    BY <2>1, <2>2 DEF Decision, Failure
  <2>6. Len(d.hash[3]) \in Nat /\ Len(d.incident.steps) \in Nat
    BY <2>5, TextFacts
  <2>7. Len(d.hash[3]) <= (IF IsRun(d.incident) THEN 2 ELSE MaxFrames)
    BY <2>3, <2>4, <2>6
  <2> QED
    BY <2>2, <2>7 DEF d
<1> QED
  BY <1>1, WindowHolds, PTL

(* A log entry or a run that repeats an earlier one of the window, from    *)
(* another checkout or machine, at another line or time, does not pass the *)
(* chain again: what is volatile is in no part of the digest.              *)
THEOREM StormCostsOneTriage == Spec => []RepeatIsNotTriagedAgain
<1>1. WindowInv => RepeatIsNotTriagedAgain
  <2> SUFFICES ASSUME WindowInv, NEW i \in DOMAIN decided, NEW j \in DOMAIN decided, i < j,
                      Repeats(decided[i].incident, decided[j].incident)
               PROVE  decided[j].verdict # "pass"
    BY DEF RepeatIsNotTriagedAgain
  <2>1. decided[i] \in Decision /\ decided[j] \in Decision
    BY DEF WindowInv
  <2>2. decided[i].incident \in Failure /\ decided[j].incident \in Failure
    BY <2>1 DEF Decision
  <2>3. decided[i].hash = decided[j].hash
    BY <2>2, RepeatsShareHash DEF WindowInv, Recorded
  <2> QED
    BY <2>3 DEF WindowInv, OnePasses
<1> QED
  BY <1>1, WindowHolds, PTL

(* A run is grouped with runs only. *)
LEMMA RunsApart ==
  ASSUME NoTitleIsALabel, NEW d \in Decision, NEW e \in Decision, Recorded(d), Recorded(e),
         d.hash = e.hash, IsRun(d.incident)
  PROVE  IsRun(e.incident)
<1> SUFFICES ASSUME ~IsRun(e.incident) PROVE FALSE
  OBVIOUS
<1> DEFINE a == d.incident
           b == e.incident
<1>1. a \in Failure /\ b \in Failure
  BY DEF Decision
<1>2. Fingerprint(a).hash = Fingerprint(b).hash
  BY DEF Recorded
<1>3. IsRun(a) /\ ~IsRun(b) /\ Stores(a, d.of, d.found) /\ Stores(b, e.of, e.found)
  BY DEF Recorded
<1> HIDE DEF a, b
<1>4. Fingerprint(a).hash = <<a.slug, <<"workflow:", a.workflow>>, NormalizeAll(a.steps)>>
  BY <1>1, <1>3, RunFingerprint
<1>5. Fingerprint(b).hash = <<b.slug, ErrorClass(b.title, b.body), FramesFor(b)>>
  BY <1>1, <1>3, StackFingerprint
<1>6. ErrorClass(b.title, b.body) = <<"workflow:", a.workflow>>
  <2>1. <<a.slug, <<"workflow:", a.workflow>>, NormalizeAll(a.steps)>> =
          <<b.slug, ErrorClass(b.title, b.body), FramesFor(b)>>
    BY <1>2, <1>4, <1>5
  <2> QED
    BY <2>1, Triple
<1>7. Len(<<"workflow:", a.workflow>>) = 2
  OBVIOUS
<1>8. Normalize(b.title) = <<"workflow:", a.workflow>>
  <2>1. b.title \in Line /\ b.body \in Text
    BY <1>1 DEF Failure
  <2>2. \/ ErrorClass(b.title, b.body) = Normalize(b.title)
        \/ Len(ErrorClass(b.title, b.body)) = 1
    BY <2>1, ClassFacts
  <2>3. Len(ErrorClass(b.title, b.body)) = 2
    BY <1>6, <1>7
  <2> QED
    BY <1>6, <2>2, <2>3
<1>9. d.of \in Runs /\ a.workflow = d.of.workflow
  BY <1>3 DEF Stores, RunIncident, Incident
<1>10. \/ \E entry \in Entries : b.title = MessageAndBody(entry).title
       \/ \E issue \in Issues : b.title = issue.title
  BY <1>3 DEF Stores
<1> QED
  BY <1>8, <1>9, <1>10 DEF NoTitleIsALabel

(* Two sightings of a fingerprint got there by the same strategy, so the   *)
(* one stored with it tells how all of them were grouped.                  *)
THEOREM StrategyIsTheGroups ==
  ASSUME NoTitleIsALabel
  PROVE  Spec => []OneStrategyPerGroup
<1>1. WindowInv => OneStrategyPerGroup
  <2> SUFFICES ASSUME WindowInv, NEW i \in DOMAIN decided, NEW j \in DOMAIN decided, Grouped(i, j)
               PROVE  decided[i].strategy = decided[j].strategy
    BY DEF OneStrategyPerGroup
  <2> DEFINE d == decided[i]
             e == decided[j]
  <2>1. d \in Decision /\ e \in Decision /\ Recorded(d) /\ Recorded(e) /\ d.hash = e.hash
    BY DEF WindowInv, Grouped
  <2> HIDE DEF d, e
  <2>2. d.incident \in Failure /\ e.incident \in Failure
    BY <2>1 DEF Decision
  <2>3. IsRun(d.incident) <=> IsRun(e.incident)
    BY <2>1, RunsApart
  <2>4. ASSUME IsRun(d.incident) PROVE d.strategy = e.strategy
    <3>1. Fingerprint(d.incident).strategy = "workflow" /\ Fingerprint(e.incident).strategy = "workflow"
      BY <2>2, <2>3, <2>4, RunFingerprint
    <3> QED
      BY <2>1, <3>1 DEF Recorded
  <2>5. ASSUME ~IsRun(d.incident) PROVE d.strategy = e.strategy
    <3>1. /\ d.hash = <<d.incident.slug, ErrorClass(d.incident.title, d.incident.body), FramesFor(d.incident)>>
          /\ e.hash = <<e.incident.slug, ErrorClass(e.incident.title, e.incident.body), FramesFor(e.incident)>>
          /\ d.strategy = StrategyOf(d.incident.slug, FramesFor(d.incident))
          /\ e.strategy = StrategyOf(e.incident.slug, FramesFor(e.incident))
      BY <2>1, <2>2, <2>3, <2>5, StackFingerprint DEF Recorded
    <3>2. <<d.incident.slug, ErrorClass(d.incident.title, d.incident.body), FramesFor(d.incident)>> =
            <<e.incident.slug, ErrorClass(e.incident.title, e.incident.body), FramesFor(e.incident)>>
      BY <2>1, <3>1
    <3>3. d.incident.slug = e.incident.slug /\ FramesFor(d.incident) = FramesFor(e.incident)
      BY <3>2, Triple
    <3>4. StrategyOf(d.incident.slug, FramesFor(d.incident)) = StrategyOf(e.incident.slug, FramesFor(e.incident))
      BY <3>3
    <3> QED
      BY <3>1, <3>4
  <2> QED
    BY <2>4, <2>5 DEF d, e
<1> QED
  BY <1>1, WindowHolds, PTL

(* No over-collapse of stack traces: failures that are grouped belong to   *)
(* one project and have a frame in common, or show none, whatever roots    *)
(* are declared and whatever they match.                                   *)
THEOREM GroupsHaveAFrameInCommon ==
  ASSUME NoTitleIsALabel
  PROVE  Spec => []GroupsShareAFrame
<1>1. WindowInv => GroupsShareAFrame
  <2> SUFFICES ASSUME WindowInv, NEW i \in DOMAIN decided, NEW j \in DOMAIN decided, Grouped(i, j),
                      ~IsRun(decided[i].incident)
               PROVE  LET a == decided[i].incident
                          b == decided[j].incident
                      IN  /\ ~IsRun(b)
                          /\ a.slug = b.slug
                          /\ FramesOf(a) \cap FramesOf(b) # {} \/ FramesOf(a) \cup FramesOf(b) = {}
    BY DEF GroupsShareAFrame
  <2> DEFINE a == decided[i].incident
             b == decided[j].incident
  <2>1. /\ decided[i] \in Decision /\ decided[j] \in Decision
        /\ Recorded(decided[i]) /\ Recorded(decided[j]) /\ decided[i].hash = decided[j].hash
    BY DEF WindowInv, Grouped
  <2>2. a \in Failure /\ b \in Failure /\ ~IsRun(a)
    BY <2>1 DEF Decision
  <2>3. ~IsRun(b)
    BY <2>1, RunsApart
  <2>4. Fingerprint(a).hash = Fingerprint(b).hash
    BY <2>1 DEF Recorded
  <2> HIDE DEF a, b
  <2>5. /\ Fingerprint(a).hash = <<a.slug, ErrorClass(a.title, a.body), FramesFor(a)>>
        /\ FramesFor(a) \in Text
        /\ FramesFor(a) = <<>> <=> FramesOf(a) = {}
        /\ \A n \in DOMAIN FramesFor(a) : FramesFor(a)[n] \in FramesOf(a)
    BY <2>2, StackFingerprint
  <2>6. /\ Fingerprint(b).hash = <<b.slug, ErrorClass(b.title, b.body), FramesFor(b)>>
        /\ FramesFor(b) = <<>> <=> FramesOf(b) = {}
        /\ \A n \in DOMAIN FramesFor(b) : FramesFor(b)[n] \in FramesOf(b)
    BY <2>2, <2>3, StackFingerprint
  <2>7. a.slug = b.slug /\ FramesFor(a) = FramesFor(b)
    <3>1. <<a.slug, ErrorClass(a.title, a.body), FramesFor(a)>> =
            <<b.slug, ErrorClass(b.title, b.body), FramesFor(b)>>
      BY <2>4, <2>5, <2>6
    <3> QED
      BY <3>1, Triple
  <2>8. FramesFor(a) # <<>> => 1 \in DOMAIN FramesFor(a)
    BY <2>5 DEF Text
  <2>9. FramesOf(a) \cap FramesOf(b) # {} \/ FramesOf(a) \cup FramesOf(b) = {}
    BY <2>5, <2>6, <2>7, <2>8
  <2> QED
    BY <2>3, <2>7, <2>9 DEF a, b
<1> QED
  BY <1>1, WindowHolds, PTL


-----------------------------------------------------------------------------
(***************************************************************************)
(* Groups of runs.                                                         *)
(***************************************************************************)

(* A selection of everything. *)
LEMMA KeptAll ==
  ASSUME NEW S, NEW s \in Seq(S)
  PROVE  Kept(s, DOMAIN s) = s
<1> DEFINE I == 1..Len(s)
           nth(n) == CHOOSE k \in I : Cardinality(UpTo(I, k)) = n
<1>1. Len(s) \in Nat /\ DOMAIN s = I
  OBVIOUS
<1>2. IsFiniteSet(I) /\ Cardinality(I) = Len(s) /\ I \subseteq Nat
  <2>1. 1 \in Int /\ Len(s) \in Int
    BY <1>1
  <2>2. IsFiniteSet(1..Len(s)) /\ Cardinality(1..Len(s)) = IF 1 > Len(s) THEN 0 ELSE Len(s) - 1 + 1
    BY <2>1, FS_Interval
  <2> QED
    BY <1>1, <2>2
<1>3. ASSUME NEW k \in I PROVE Cardinality(UpTo(I, k)) = k
  <2>1. k \in Nat /\ 1 <= k /\ k <= Len(s)
    BY <1>1
  <2>2. UpTo(I, k) = 1..k
    BY <1>1, <2>1 DEF UpTo
  <2>3. 1 \in Int /\ k \in Int
    BY <2>1
  <2>4. Cardinality(1..k) = IF 1 > k THEN 0 ELSE k - 1 + 1
    BY <2>3, FS_Interval
  <2> QED
    BY <2>1, <2>2, <2>4
<1>4. \A n \in 1..Cardinality(I) : nth(n) \in I /\ Cardinality(UpTo(I, nth(n))) = n
  BY <1>2, NthIndex
<1>5. \A n \in I : nth(n) = n
  BY <1>2, <1>3, <1>4
<1>6. Kept(s, I) = [n \in 1..Cardinality(I) |-> s[nth(n)]]
  BY DEF Kept, UpTo
<1>7. Kept(s, I) = [n \in I |-> s[n]]
  BY <1>2, <1>5, <1>6
<1> QED
  BY <1>1, <1>7

LEMMA PlainNormalize ==
  ASSUME NEW line \in Line, Plain(line)
  PROVE  /\ Normalize(line) = [k \in DOMAIN line |-> Left(line[k])]
         /\ Normalize(line) # <<>>
<1> DEFINE left == [k \in DOMAIN line |-> Left(line[k])]
<1>1. line \in Seq(Words) /\ DOMAIN line = 1..Len(line) /\ Len(line) \in Nat
  BY DEF Line
<1>2. left \in [1..Len(line) -> Words]
  BY <1>1, LeftType
<1>3. left \in Seq(Words) /\ DOMAIN left = DOMAIN line /\ Len(left) = Len(line)
  BY <1>1, <1>2
<1>4. {k \in DOMAIN left : left[k] # ""} = DOMAIN left
  BY DEF Plain
<1>5. Normalize(line) = Kept(left, {k \in DOMAIN left : left[k] # ""})
  BY DEF Normalize, Select
<1> HIDE DEF left
<1>6. Normalize(line) = left
  BY <1>3, <1>4, <1>5, KeptAll
<1>7. line # <<>>
  BY DEF Plain
<1>8. Len(line) # 0
  BY <1>1, <1>7
<1>9. left # <<>>
  BY <1>3, <1>8
<1> QED
  BY <1>6, <1>9 DEF left

(* What tells plain names apart survives Normalize. *)
LEMMA PlainAlike ==
  ASSUME NEW l \in Line, NEW m \in Line, Plain(l), Plain(m), Normalize(l) = Normalize(m)
  PROVE  LikeLines(l, m)
<1>1. [k \in DOMAIN l |-> Left(l[k])] = [k \in DOMAIN m |-> Left(m[k])]
  BY PlainNormalize
<1>2. DOMAIN l = DOMAIN m
  BY <1>1
<1>3. Len(l) = Len(m)
  BY <1>2 DEF Line
<1>4. ASSUME NEW k \in DOMAIN l PROVE LikeWords(l[k], m[k])
  <2>1. Left(l[k]) = Left(m[k]) /\ Left(l[k]) # ""
    <3>1. [h \in DOMAIN l |-> Left(l[h])][k] = [h \in DOMAIN m |-> Left(m[h])][k]
      BY <1>1
    <3> QED
      BY <1>2, <3>1 DEF Plain
  <2>2. \A w \in DOMAIN Mark : Mark[w] # l[k] /\ Mark[w] # m[k]
    BY <1>2 DEF Plain
  <2>3. CASE l[k] \in DOMAIN Mark /\ m[k] \in DOMAIN Mark
    BY <2>1, <2>3 DEF Left, LikeWords
  <2>4. CASE l[k] \notin DOMAIN Mark \/ m[k] \notin DOMAIN Mark
    BY <2>1, <2>2, <2>4 DEF Left, LikeWords
  <2> QED
    BY <2>3, <2>4
<1> QED
  BY <1>3, <1>4 DEF LikeLines

(* The names of a plain text are all there after it is normalised. *)
LEMMA PlainNormalizeAll ==
  ASSUME NEW lines \in Text, \A k \in DOMAIN lines : Plain(lines[k])
  PROVE  NormalizeAll(lines) = [k \in DOMAIN lines |-> Normalize(lines[k])]
<1> DEFINE left == [k \in DOMAIN lines |-> Normalize(lines[k])]
<1>1. left \in Seq(Line) /\ DOMAIN left = DOMAIN lines
  <2>1. left \in [1..Len(lines) -> Line] /\ Len(lines) \in Nat
    BY TextFacts, NormalizeFacts
  <2> QED
    BY <2>1, TextFacts
<1>2. \A k \in DOMAIN lines : Normalize(lines[k]) # <<>>
  BY TextFacts, PlainNormalize
<1>3. {k \in DOMAIN left : left[k] # <<>>} = DOMAIN left
  BY <1>2
<1>4. NormalizeAll(lines) = Kept(left, {k \in DOMAIN left : left[k] # <<>>})
  BY DEF NormalizeAll, Select, NotBlank
<1> HIDE DEF left
<1>5. NormalizeAll(lines) = left
  BY <1>1, <1>3, <1>4, KeptAll
<1> QED
  BY <1>5 DEF left

(* What a looked-up run is grouped by. *)
LEMMA RunNames ==
  ASSUME PlainNames, NEW run \in Runs, Fails(run.jobs), NEW slug \in Slugs
  PROVE  LET steps == RunIncident(slug, run, TRUE).steps
         IN  /\ steps \in Text
             /\ NormalizeAll(steps) = [k \in DOMAIN steps |-> Normalize(steps[k])]
             /\ steps = IF Fails(FailedJob(run).steps)
                        THEN <<FailedJob(run).name, FailedStep(run).name>>
                        ELSE <<FailedJob(run).name>>
             /\ FailedJob(run).name \in Line /\ Plain(FailedJob(run).name)
             /\ Fails(FailedJob(run).steps) => FailedStep(run).name \in Line /\ Plain(FailedStep(run).name)
<1> DEFINE steps == RunIncident(slug, run, TRUE).steps
<1>1. /\ FirstFailing(run.jobs) \in DOMAIN run.jobs
      /\ FailedJob(run).name \in Line
      /\ Fails(FailedJob(run).steps) =>
           /\ FirstFailing(FailedJob(run).steps) \in DOMAIN FailedJob(run).steps
           /\ FailedStep(run).name \in Line
  BY FailedJobType
<1>2. Plain(FailedJob(run).name) /\ (Fails(FailedJob(run).steps) => Plain(FailedStep(run).name))
  BY <1>1 DEF PlainNames, FailedJob, FailedStep
<1>3. FailedJobSteps(run) = IF Fails(FailedJob(run).steps)
                            THEN <<FailedJob(run).name, FailedStep(run).name>>
                            ELSE <<FailedJob(run).name>>
  BY FailedJobStepsFacts
<1>4. steps = FailedJobSteps(run)
  <2>1. FailedJobSteps(run) # <<>>
    BY <1>3
  <2>2. FailedSteps(run, TRUE) = FailedJobSteps(run)
    BY <2>1 DEF FailedSteps
  <2> QED
    BY <2>2 DEF RunIncident, Incident
<1> HIDE DEF steps
<1>5. CASE Fails(FailedJob(run).steps)
  <2>1. steps = <<FailedJob(run).name, FailedStep(run).name>>
    BY <1>3, <1>4, <1>5
  <2>2. steps \in Text /\ \A k \in DOMAIN steps : Plain(steps[k])
    BY <1>1, <1>2, <1>5, <2>1, Pair DEF Text
  <2> QED
    BY <1>1, <1>2, <1>5, <2>1, <2>2, PlainNormalizeAll DEF steps
<1>6. CASE ~Fails(FailedJob(run).steps)
  <2>1. steps = <<FailedJob(run).name>>
    BY <1>3, <1>4, <1>6
  <2>2. steps \in Text /\ \A k \in DOMAIN steps : Plain(steps[k])
    BY <1>1, <1>2, <1>6, <2>1, Single DEF Text
  <2> QED
    BY <1>1, <1>2, <1>6, <2>1, <2>2, PlainNormalizeAll DEF steps
<1> QED
  BY <1>5, <1>6

LEMMA Equal ==
  ASSUME NEW a, NEW b, NEW c, NEW d, <<a, b>> = <<c, d>>
  PROVE  a = c /\ b = d
  OBVIOUS

(* A run's incident of plain names tells where the run failed.             *)
LEMMA SameDigestSameStep ==
  ASSUME PlainNames, NEW r \in Runs, NEW s \in Runs, NEW p \in Slugs, NEW q \in Slugs,
         Fails(r.jobs), Fails(s.jobs),
         NormalizeAll(RunIncident(p, r, TRUE).steps) = NormalizeAll(RunIncident(q, s, TRUE).steps)
  PROVE  SameStep(r, s)
<1> DEFINE u == RunIncident(p, r, TRUE).steps
           v == RunIncident(q, s, TRUE).steps
<1>1. /\ NormalizeAll(u) = [k \in DOMAIN u |-> Normalize(u[k])]
      /\ u = IF Fails(FailedJob(r).steps) THEN <<FailedJob(r).name, FailedStep(r).name>>
                                          ELSE <<FailedJob(r).name>>
      /\ FailedJob(r).name \in Line /\ Plain(FailedJob(r).name)
      /\ Fails(FailedJob(r).steps) => FailedStep(r).name \in Line /\ Plain(FailedStep(r).name)
  BY RunNames
<1>2. /\ NormalizeAll(v) = [k \in DOMAIN v |-> Normalize(v[k])]
      /\ v = IF Fails(FailedJob(s).steps) THEN <<FailedJob(s).name, FailedStep(s).name>>
                                          ELSE <<FailedJob(s).name>>
      /\ FailedJob(s).name \in Line /\ Plain(FailedJob(s).name)
      /\ Fails(FailedJob(s).steps) => FailedStep(s).name \in Line /\ Plain(FailedStep(s).name)
  BY RunNames
<1>3. NormalizeAll(u) = NormalizeAll(v)
  OBVIOUS
<1> HIDE DEF u, v
<1>4. [k \in DOMAIN u |-> Normalize(u[k])] = [k \in DOMAIN v |-> Normalize(v[k])]
  BY <1>1, <1>2, <1>3
<1>5. DOMAIN u = DOMAIN v /\ \A k \in DOMAIN u : Normalize(u[k]) = Normalize(v[k])
  <2>1. DOMAIN u = DOMAIN v
    BY <1>4
  <2>2. ASSUME NEW k \in DOMAIN u PROVE Normalize(u[k]) = Normalize(v[k])
    <3>1. [h \in DOMAIN u |-> Normalize(u[h])][k] = [h \in DOMAIN v |-> Normalize(v[h])][k]
      BY <1>4
    <3> QED
      BY <2>1, <3>1
  <2> QED
    BY <2>1, <2>2
<1>6. /\ DOMAIN u = IF Fails(FailedJob(r).steps) THEN 1..2 ELSE 1..1
      /\ DOMAIN v = IF Fails(FailedJob(s).steps) THEN 1..2 ELSE 1..1
  BY <1>1, <1>2
<1>7. Fails(FailedJob(r).steps) <=> Fails(FailedJob(s).steps)
  <2>1. 2 \in 1..2 /\ 2 \notin 1..1
    OBVIOUS
  <2> QED
    BY <1>5, <1>6, <2>1
<1>8. u[1] = FailedJob(r).name /\ v[1] = FailedJob(s).name /\ 1 \in DOMAIN u
  BY <1>1, <1>2, <1>6
<1>9. LikeLines(FailedJob(r).name, FailedJob(s).name)
  BY <1>1, <1>2, <1>5, <1>8, PlainAlike
<1>10. ASSUME Fails(FailedJob(r).steps)
       PROVE  LikeLines(FailedStep(r).name, FailedStep(s).name)
  <2>1. u[2] = FailedStep(r).name /\ v[2] = FailedStep(s).name /\ 2 \in DOMAIN u
    BY <1>1, <1>2, <1>6, <1>7, <1>10
  <2> QED
    BY <1>1, <1>2, <1>5, <1>7, <1>10, <2>1, PlainAlike
<1> QED
  BY <1>7, <1>9, <1>10 DEF SameStep, FailedJob, FailedStep

(* No over-collapse of a workflow: CI failures whose jobs were looked up   *)
(* are grouped only if they failed in the same job and step of the same    *)
(* workflow, numbers in the names aside.                                   *)
THEOREM RunsAreGroupedByStep ==
  ASSUME NoTitleIsALabel, PlainNames
  PROVE  Spec => []RunsShareAStep
<1>1. WindowInv => RunsShareAStep
  <2> SUFFICES ASSUME WindowInv, NEW i \in DOMAIN decided, NEW j \in DOMAIN decided, Grouped(i, j),
                      IsRun(decided[i].incident), decided[i].found, decided[j].found,
                      Fails(decided[i].of.jobs), Fails(decided[j].of.jobs)
               PROVE  decided[i].of.workflow = decided[j].of.workflow /\ SameStep(decided[i].of, decided[j].of)
    BY DEF RunsShareAStep
  <2> DEFINE d == decided[i]
             e == decided[j]
             a == decided[i].incident
             b == decided[j].incident
  <2>1. d \in Decision /\ e \in Decision /\ Recorded(d) /\ Recorded(e) /\ d.hash = e.hash
    BY DEF WindowInv, Grouped
  <2>2. a = d.incident /\ b = e.incident /\ IsRun(a) /\ d.found = TRUE /\ e.found = TRUE
    BY <2>1 DEF Decision
  <2>3. Fails(d.of.jobs) /\ Fails(e.of.jobs)
    OBVIOUS
  <2> HIDE DEF a, b, d, e
  <2>4. a \in Failure /\ b \in Failure
    BY <2>1, <2>2 DEF Decision
  <2>5. IsRun(b)
    BY <2>1, <2>2, RunsApart
  <2>6. d.of \in Runs /\ a = RunIncident(a.slug, d.of, TRUE)
    BY <2>1, <2>2 DEF Recorded, Stores
  <2>7. e.of \in Runs /\ b = RunIncident(b.slug, e.of, TRUE)
    BY <2>1, <2>2, <2>5 DEF Recorded, Stores
  <2>8. a.workflow = b.workflow /\ NormalizeAll(a.steps) = NormalizeAll(b.steps)
    <3>1. <<a.slug, <<"workflow:", a.workflow>>, NormalizeAll(a.steps)>> =
            <<b.slug, <<"workflow:", b.workflow>>, NormalizeAll(b.steps)>>
      <4>1. Fingerprint(a).hash = <<a.slug, <<"workflow:", a.workflow>>, NormalizeAll(a.steps)>>
        BY <2>2, <2>4, RunFingerprint
      <4>2. Fingerprint(b).hash = <<b.slug, <<"workflow:", b.workflow>>, NormalizeAll(b.steps)>>
        BY <2>4, <2>5, RunFingerprint
      <4>3. Fingerprint(a).hash = Fingerprint(b).hash
        BY <2>1, <2>2 DEF Recorded
      <4> QED
        BY <4>1, <4>2, <4>3
    <3>2. <<"workflow:", a.workflow>> = <<"workflow:", b.workflow>> /\ NormalizeAll(a.steps) = NormalizeAll(b.steps)
      BY <3>1, Triple
    <3> QED
      BY <3>2, Equal
  <2>9. a.workflow = d.of.workflow /\ b.workflow = e.of.workflow
    <3>1. \A p, r : RunIncident(p, r, TRUE).workflow = r.workflow
      BY DEF RunIncident, Incident
    <3>2. RunIncident(a.slug, d.of, TRUE).workflow = d.of.workflow
      BY <3>1, Zenon
    <3>3. RunIncident(b.slug, e.of, TRUE).workflow = e.of.workflow
      BY <3>1, Zenon
    <3> QED
      BY <2>6, <2>7, <3>2, <3>3, Zenon
  <2>10. a.slug \in Slugs /\ b.slug \in Slugs
    BY <2>4 DEF Failure
  <2>11. NormalizeAll(RunIncident(a.slug, d.of, TRUE).steps) = NormalizeAll(RunIncident(b.slug, e.of, TRUE).steps)
    BY <2>6, <2>7, <2>8
  <2>12. SameStep(d.of, e.of)
    BY <2>3, <2>6, <2>7, <2>10, <2>11, SameDigestSameStep
  <2> QED
    BY <2>8, <2>9, <2>12 DEF d, e
<1> QED
  BY <1>1, WindowHolds, PTL
=============================================================================
