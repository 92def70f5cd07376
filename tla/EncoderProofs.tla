---------------------------- MODULE EncoderProofs ----------------------------
(***************************************************************************)
(* Theorems about Encoder, for any inputs, ladder and number of attempts.  *)
(*                                                                         *)
(* Why a result that comes late is never taken for that of a retry: what a *)
(* channel receives belongs to a call whose command has ended, and Watch   *)
(* is still in that call, or took it and the attempt knows the quality.    *)
(*                                                                         *)
(* Why what an attempt lists is whole: no script names a file twice, and   *)
(* what a command reads comes before it; a process that was not given up   *)
(* is the one its attempt waits for, and as long as nothing goes wrong one *)
(* attempt at a time is at work, so nobody writes a file beside it.        *)
(***************************************************************************)
EXTENDS Encoder, FiniteSetTheorems, FunctionTheorems, SequenceTheorems, TLAPS

-----------------------------------------------------------------------------
(* The tasks of an attempt.                                                *)

\* A set of places has one increasing enumeration at least (InOrder): the rank
\* of a place among them is a bijection, and its inverse increases.
LEMMA Increasing ==
    ASSUME NEW n \in Nat, NEW S \in SUBSET (1..n)
    PROVE  \E f \in [1..Cardinality(S) -> S] :
               \A i, j \in DOMAIN f : i < j => f[i] < f[j]
<1> DEFINE N == 1..Cardinality(S)
           Below(i) == {j \in S : j <= i}
           rank == [i \in S |-> Cardinality(Below(i))]
<1>0. S \subseteq Nat
  OBVIOUS
<1>1. IsFiniteSet(S) /\ Cardinality(S) \in Nat
  <2>1. IsFiniteSet(1..n)
    BY FS_Interval
  <2>2. IsFiniteSet(S)
    BY <2>1, FS_Subset
  <2> QED
    BY <2>2, FS_CardinalityType
<1>2. \A i \in S : IsFiniteSet(Below(i)) /\ Cardinality(Below(i)) \in N
  <2> SUFFICES ASSUME NEW i \in S
               PROVE  IsFiniteSet(Below(i)) /\ Cardinality(Below(i)) \in N
    OBVIOUS
  <2>1. IsFiniteSet(Below(i)) /\ Cardinality(Below(i)) <= Cardinality(S)
    BY <1>1, FS_Subset
  <2>2. Cardinality(Below(i)) \in Nat
    BY <2>1, FS_CardinalityType
  <2>3. Below(i) # {}
    OBVIOUS
  <2>4. Cardinality(Below(i)) # 0
    BY <2>1, <2>3, FS_EmptySet
  <2> QED
    BY <1>1, <2>1, <2>2, <2>4
<1>3. ASSUME NEW i \in S, NEW j \in S, i < j
      PROVE  rank[i] < rank[j]
  <2>1. Below(i) \subseteq Below(j) /\ j \in Below(j) /\ j \notin Below(i)
    <3>1. i \in Nat /\ j \in Nat /\ \A k \in S : k \in Nat
      BY <1>0
    <3>2. ~(j <= i) /\ j <= j /\ \A k \in Nat : k <= i => k <= j
      BY <1>3, <3>1
    <3> QED
      BY <3>1, <3>2
  <2>2. /\ Cardinality(Below(i)) <= Cardinality(Below(j))
        /\ Cardinality(Below(i)) # Cardinality(Below(j))
    BY <1>2, <2>1, FS_Subset
  <2>3. Cardinality(Below(i)) \in Nat /\ Cardinality(Below(j)) \in Nat
    BY <1>1, <1>2
  <2> HIDE DEF Below
  <2> QED
    BY <2>2, <2>3
<1>4. rank \in Injection(S, N)
  <2>1. rank \in [S -> N]
    BY <1>2
  <2>2. \A i, j \in S : rank[i] = rank[j] => i = j
    <3> SUFFICES ASSUME NEW i \in S, NEW j \in S, rank[i] = rank[j], i # j
                 PROVE  FALSE
      OBVIOUS
    <3>1. rank[i] \in Nat
      BY <1>1, <2>1
    <3>2. i < j \/ j < i
      OBVIOUS
    <3> HIDE DEF rank
    <3> QED
      BY <1>3, <3>1, <3>2
  <2> QED
    BY <2>1, <2>2, Fun_IsInj
<1>5. rank \in Surjection(S, N)
  <2>1. IsFiniteSet(N) /\ Cardinality(N) = Cardinality(S)
    BY <1>1, FS_Interval
  <2> QED
    BY <1>4, <2>1, FS_Injection
<1> DEFINE f == [k \in N |-> CHOOSE i \in S : rank[i] = k]
<1>6. f \in [N -> S] /\ \A k \in N : rank[f[k]] = k
  <2>1. \A k \in N : \E i \in S : rank[i] = k
    BY <1>5 DEF Surjection
  <2> HIDE DEF rank
  <2> QED
    BY <2>1
<1>7. \A i, j \in N : i < j => f[i] < f[j]
  <2> SUFFICES ASSUME NEW i \in N, NEW j \in N, i < j, ~(f[i] < f[j])
               PROVE  FALSE
    OBVIOUS
  <2>1. f[i] \in S /\ f[j] \in S /\ rank[f[i]] = i /\ rank[f[j]] = j
    BY <1>6
  <2> HIDE DEF f, rank
  <2>2. f[i] \in Nat /\ f[j] \in Nat /\ i \in Nat /\ j \in Nat
    <3>1. f[i] \in Nat /\ f[j] \in Nat
      BY <1>0, <2>1
    <3>2. \A k \in N : k \in Nat
      BY <1>1
    <3> QED
      BY <3>1, <3>2
  <2>3. f[j] < f[i] \/ f[i] = f[j]
    BY <2>2
  <2>4. i # j /\ ~(j < i)
    BY <2>2
  <2>5. f[j] < f[i] => j < i
    BY <1>3, <2>1
  <2> QED
    BY <2>1, <2>3, <2>4, <2>5
<1> QED
  BY <1>6, <1>7

\* What the kinds of commands write, two by two (FilesAssumption).
LEMMA FilesApart ==
    /\ \A s \in {Names(Ladder), Bitrates, Thumbnails, Extras} : IsInjective(s)
    /\ \A s \in {Bitrates, Thumbnails, Extras} :
          /\ Range(s) \cap Range(Names(Ladder)) = {}
          /\ Range(s) \cap {"raw", "processed", "master", "palette", "gif"} = {}
    /\ Range(Names(Ladder)) \cap {"raw", "processed", "master", "palette", "gif"} = {}
    /\ Range(Bitrates) \cap Range(Thumbnails) = {}
    /\ Range(Bitrates) \cap Range(Extras) = {}
    /\ Range(Thumbnails) \cap Range(Extras) = {}
<1> DEFINE fixed == <<"raw", "processed", "master", "palette", "gif">>
           kinds == <<Names(Ladder), Bitrates, Thumbnails, Extras, fixed>>
<1>1. /\ DOMAIN kinds = 1..5
      /\ kinds[1] = Names(Ladder) /\ kinds[2] = Bitrates /\ kinds[3] = Thumbnails
      /\ kinds[4] = Extras /\ kinds[5] = fixed
  OBVIOUS
<1>2. Range(fixed) = {"raw", "processed", "master", "palette", "gif"}
  <2>1. DOMAIN fixed = 1..5
    OBVIOUS
  <2> QED
    BY <2>1 DEF Range
<1>3. \A i, j \in 1..5 : /\ IsInjective(kinds[i])
                         /\ i # j => Range(kinds[i]) \cap Range(kinds[j]) = {}
  BY <1>1, FilesAssumption
<1>4. \A i, j \in {1, 2, 3, 4, 5} :
          /\ IsInjective(kinds[i])
          /\ i # j => Range(kinds[i]) \cap Range(kinds[j]) = {}
  BY <1>3
<1> HIDE DEF fixed, kinds
<1> QED
  BY <1>1, <1>2, <1>4

LEMMA InOrderNames ==
    ASSUME NEW S \in SUBSET DOMAIN Ladder
    PROVE  /\ InOrder(S) \in Seq(Qualities)
           /\ IsInjective(InOrder(S)) /\ Range(InOrder(S)) \subseteq Qualities
<1> DEFINE place == CHOOSE f \in [1..Cardinality(S) -> S] :
                        \A i, j \in DOMAIN f : i < j => f[i] < f[j]
<1>1. Ladder \in Seq(Range(Ladder)) /\ DOMAIN Ladder = 1..Len(Ladder) /\ Len(Ladder) \in Nat
  BY EncoderAssumption, LenProperties
<1>2. /\ place \in [1..Cardinality(S) -> S]
      /\ \A i, j \in 1..Cardinality(S) : i < j => place[i] < place[j]
  BY <1>1, Increasing
<1>3. Cardinality(S) \in Nat
  <2>1. IsFiniteSet(1..Len(Ladder))
    BY <1>1, FS_Interval
  <2>2. IsFiniteSet(S)
    BY <1>1, <2>1, FS_Subset
  <2> QED
    BY <2>2, FS_CardinalityType
<1> HIDE DEF place
<1>4. /\ InOrder(S) = [i \in 1..Cardinality(S) |-> Ladder[place[i]].name]
      /\ \A i \in 1..Cardinality(S) : InOrder(S)[i] = Names(Ladder)[place[i]]
  BY <1>2 DEF InOrder, place, Names
<1>5. \A i \in 1..Cardinality(S) : InOrder(S)[i] \in Qualities
  BY <1>2, <1>4 DEF Qualities, Range
<1>6. IsInjective(InOrder(S))
  <2> SUFFICES ASSUME NEW i \in 1..Cardinality(S), NEW j \in 1..Cardinality(S),
                      InOrder(S)[i] = InOrder(S)[j], i # j
               PROVE  FALSE
    BY <1>4 DEF IsInjective
  <2>1. place[i] = place[j]
    BY <1>2, <1>4, FilesApart DEF IsInjective, Names
  <2>2. i < j \/ j < i
    BY <1>3
  <2> QED
    BY <1>1, <1>2, <2>1, <2>2
<1> QED
  BY <1>3, <1>4, <1>5, <1>6 DEF Range

\* What a command reads, an earlier one of the sequence writes.
Ready(s) == \A i \in DOMAIN s : \A g \in Source(s[i]) : \E j \in 1..i-1 : s[j] = g
Good(s)  == s \in Seq(Files) /\ IsInjective(s) /\ Ready(s)

\* One sequence after another, of other files.
LEMMA GoodJoin ==
    ASSUME NEW s, NEW t, Good(s), Good(t), Range(s) \cap Range(t) = {}
    PROVE  Good(s \o t) /\ Range(s \o t) = Range(s) \cup Range(t)
<1>1. /\ s \in Seq(Files) /\ t \in Seq(Files) /\ s \o t \in Seq(Files)
      /\ DOMAIN s = 1..Len(s) /\ DOMAIN t = 1..Len(t) /\ DOMAIN (s \o t) = 1..Len(s) + Len(t)
      /\ Len(s) \in Nat /\ Len(t) \in Nat
  BY LenProperties, ConcatProperties DEF Good
<1>2. /\ \A i \in DOMAIN s : i \in DOMAIN (s \o t) /\ (s \o t)[i] = s[i]
      /\ \A i \in DOMAIN t : Len(s) + i \in DOMAIN (s \o t) /\ (s \o t)[Len(s) + i] = t[i]
  BY <1>1, ConcatProperties
<1>3. \A i \in DOMAIN (s \o t) :
          \/ i \in DOMAIN s
          \/ \E k \in DOMAIN t : i = Len(s) + k
  <2> SUFFICES ASSUME NEW i \in DOMAIN (s \o t), i \notin DOMAIN s
               PROVE  \E k \in DOMAIN t : i = Len(s) + k
    OBVIOUS
  <2>1. i - Len(s) \in DOMAIN t /\ i = Len(s) + (i - Len(s))
    BY <1>1
  <2> QED
    BY <2>1
<1> DEFINE u == s \o t
<1>4. Range(u) = Range(s) \cup Range(t)
  BY <1>2, <1>3 DEF Range
<1> HIDE DEF u
<1>5. IsInjective(u)
  <2> SUFFICES ASSUME NEW i \in DOMAIN u, NEW j \in DOMAIN u, u[i] = u[j]
               PROVE  i = j
    BY DEF IsInjective
  <2>1. CASE i \in DOMAIN s /\ j \in DOMAIN s
    BY <1>2, <2>1 DEF Good, IsInjective, u
  <2>2. CASE i \notin DOMAIN s /\ j \notin DOMAIN s
    <3>1. PICK k \in DOMAIN t, l \in DOMAIN t : i = Len(s) + k /\ j = Len(s) + l
      BY <1>3, <2>2 DEF u
    <3>2. t[k] = t[l]
      BY <1>2, <3>1 DEF u
    <3> QED
      BY <3>1, <3>2 DEF Good, IsInjective
  <2>3. CASE i \in DOMAIN s /\ j \notin DOMAIN s
    <3>1. u[i] \in Range(s) /\ u[j] \in Range(t)
      BY <1>2, <1>3, <2>3 DEF Range, u
    <3> QED
      BY <3>1
  <2>4. CASE i \notin DOMAIN s /\ j \in DOMAIN s
    <3>1. u[j] \in Range(s) /\ u[i] \in Range(t)
      BY <1>2, <1>3, <2>4 DEF Range, u
    <3> QED
      BY <3>1
  <2> QED
    BY <2>1, <2>2, <2>3, <2>4
<1>6. Ready(u)
  <2> SUFFICES ASSUME NEW i \in DOMAIN u, NEW g \in Source(u[i])
               PROVE  \E j \in 1..i-1 : u[j] = g
    BY DEF Ready
  <2>1. CASE i \in DOMAIN s
    <3>1. PICK j \in 1..i-1 : s[j] = g
      BY <1>2, <2>1 DEF Good, Ready, u
    <3>2. j \in DOMAIN s
      BY <1>1, <2>1
    <3> QED
      BY <1>2, <3>1, <3>2 DEF u
  <2>2. CASE i \notin DOMAIN s
    <3>1. PICK k \in DOMAIN t : i = Len(s) + k
      BY <1>3, <2>2 DEF u
    <3>2. u[i] = t[k]
      BY <1>2, <3>1 DEF u
    <3>3. PICK j \in 1..k-1 : t[j] = g
      BY <3>2 DEF Good, Ready
    <3>4. j \in DOMAIN t /\ Len(s) + j \in 1..i-1
      BY <1>1, <3>1
    <3>5. u[Len(s) + j] = g
      BY <1>2, <3>3, <3>4 DEF u
    <3> QED
      BY <3>4, <3>5
  <2> QED
    BY <2>1, <2>2
<1> QED
  BY <1>1, <1>4, <1>5, <1>6 DEF Good, u

\* The files that no command reads, and those whose command reads none of them.
Plain == Qualities \cup Range(Thumbnails) \cup Range(Extras) \cup {"master"}

LEMMA FileKinds ==
    /\ Qualities = Range(Names(Ladder)) /\ Qualities \subseteq Files /\ Plain \subseteq Files
    /\ {"raw", "processed", "master", "palette", "gif"} \subseteq Files
    /\ Range(Bitrates) \subseteq Files
    /\ \A f \in Plain \cup {"raw", "palette"} : Source(f) = {}
    /\ Source("processed") = {"raw"} /\ Source("gif") = {"palette"}
    /\ \A f \in Range(Bitrates) : Source(f) = {"processed"}
    /\ Plain \cap {"raw", "processed", "palette", "gif"} = {}
    /\ Plain \cap Range(Bitrates) = {}
    /\ Qualities \cap Range(Thumbnails) = {} /\ Qualities \cap Range(Extras) = {}
    /\ Range(Thumbnails) \cap Range(Extras) = {}
    /\ "master" \notin Qualities \cup Range(Thumbnails) \cup Range(Extras) \cup Range(Bitrates)
    /\ "palette" \notin Range(Bitrates) /\ "gif" \notin Range(Bitrates)
    /\ "raw" \notin Range(Bitrates) /\ "processed" \notin Range(Bitrates)
<1>1. Qualities = Range(Names(Ladder))
  BY DEF Qualities, Names, Range
<1>2. /\ Qualities \subseteq Files /\ Plain \subseteq Files /\ Range(Bitrates) \subseteq Files
      /\ {"raw", "processed", "master", "palette", "gif"} \subseteq Files
  BY DEF Files, Others, Previews, Plain
<1>3. /\ Plain \cap {"raw", "processed", "palette", "gif"} = {}
      /\ Plain \cap Range(Bitrates) = {}
      /\ Range(Bitrates) \cap {"raw", "processed", "master", "palette", "gif"} = {}
  BY <1>1, FilesApart DEF Plain
<1>4. /\ \A f \in Plain \cup {"raw", "palette"} : Source(f) = {}
      /\ Source("processed") = {"raw"} /\ Source("gif") = {"palette"}
      /\ \A f \in Range(Bitrates) : Source(f) = {"processed"}
  BY <1>3 DEF Source
<1>5. /\ Qualities \cap Range(Thumbnails) = {} /\ Qualities \cap Range(Extras) = {}
      /\ Range(Thumbnails) \cap Range(Extras) = {}
      /\ "master" \notin Qualities \cup Range(Thumbnails) \cup Range(Extras) \cup Range(Bitrates)
  BY <1>1, FilesApart
<1> QED
  BY <1>1, <1>2, <1>3, <1>4, <1>5

LEMMA PlainGood ==
    ASSUME NEW s, NEW T \in SUBSET Plain, s \in Seq(T), IsInjective(s)
    PROVE  Good(s) /\ Range(s) \subseteq T
<1>1. \A i \in DOMAIN s : s[i] \in T
  BY LenProperties, ElementOfSeq
<1>2. s \in Seq(Files)
  BY FileKinds, SeqMonotonic
<1> QED
  BY <1>1, <1>2, FileKinds DEF Good, Ready, Range

LEMMA AudioGood ==
    /\ Good(<<"raw", "processed">> \o Bitrates)
    /\ Range(<<"raw", "processed">> \o Bitrates) = {"raw", "processed"} \cup Range(Bitrates)
<1> DEFINE s == <<"raw", "processed">>
           u == s \o Bitrates
<1>1. /\ s \in Seq(Files) /\ Len(s) = 2 /\ s[1] = "raw" /\ s[2] = "processed"
  BY FileKinds
<1>2. Bitrates \in Seq(Range(Bitrates)) /\ Bitrates \in Seq(Files)
  BY EncoderAssumption, FileKinds, SeqMonotonic
<1>3. /\ u \in Seq(Files) /\ DOMAIN u = 1..2 + Len(Bitrates) /\ Len(Bitrates) \in Nat
      /\ DOMAIN Bitrates = 1..Len(Bitrates)
      /\ u[1] = "raw" /\ u[2] = "processed"
      /\ \A i \in 1..Len(Bitrates) : u[2 + i] = Bitrates[i]
  <2> HIDE DEF s
  <2>1. /\ u \in Seq(Files) /\ Len(u) = Len(s) + Len(Bitrates)
        /\ \A i \in 1..Len(u) : u[i] = IF i <= Len(s) THEN s[i] ELSE Bitrates[i - Len(s)]
    <3>1. s \in Seq(Files) /\ Bitrates \in Seq(Files)
      BY <1>1, <1>2
    <3> HIDE DEF s
    <3> QED
      BY <3>1, ConcatProperties
  <2>2. Len(Bitrates) \in Nat /\ DOMAIN Bitrates = 1..Len(Bitrates) /\ DOMAIN u = 1..Len(u)
    BY <1>2, <2>1, LenProperties
  <2> HIDE DEF u
  <2>3. u[1] = "raw" /\ u[2] = "processed"
    BY <1>1, <2>1, <2>2
  <2>4. ASSUME NEW i \in 1..Len(Bitrates)
        PROVE  u[2 + i] = Bitrates[i]
    <3>1. 2 + i \in 1..Len(u) /\ ~(2 + i <= 2) /\ (2 + i) - 2 = i
      BY <1>1, <2>1, <2>2
    <3> QED
      BY <1>1, <2>1, <3>1
  <2> QED
    BY <1>1, <2>1, <2>2, <2>3, <2>4
<1> HIDE DEF u, s
<1>4. \A i \in DOMAIN u : i = 1 \/ i = 2 \/ \E k \in DOMAIN Bitrates : i = 2 + k
  <2> SUFFICES ASSUME NEW i \in DOMAIN u, i # 1, i # 2
               PROVE  \E k \in DOMAIN Bitrates : i = 2 + k
    OBVIOUS
  <2>1. i - 2 \in DOMAIN Bitrates /\ i = 2 + (i - 2)
    BY <1>3
  <2> QED
    BY <2>1
<1>5. \A k \in DOMAIN Bitrates : u[2 + k] = Bitrates[k] /\ Bitrates[k] \in Range(Bitrates)
                                 /\ 2 + k \in DOMAIN u
  <2>1. \A k \in 1..Len(Bitrates) : 2 + k \in 1..2 + Len(Bitrates)
    BY <1>3
  <2> QED
    BY <1>3, <2>1 DEF Range
<1>6. Range(u) = {"raw", "processed"} \cup Range(Bitrates)
  <2>1. 1 \in DOMAIN u /\ 2 \in DOMAIN u
    BY <1>3
  <2>2. \A i \in DOMAIN u : u[i] \in {"raw", "processed"} \cup Range(Bitrates)
    BY <1>3, <1>4, <1>5
  <2>3. {u[i] : i \in DOMAIN u} \subseteq {"raw", "processed"} \cup Range(Bitrates)
    BY <2>2
  <2>4. \A x \in Range(Bitrates) : \E i \in DOMAIN u : u[i] = x
    BY <1>5 DEF Range
  <2>5. {"raw", "processed"} \cup Range(Bitrates) \subseteq {u[i] : i \in DOMAIN u}
    BY <1>3, <2>1, <2>4
  <2> QED
    BY <2>3, <2>5 DEF Range
<1>7. IsInjective(u)
  <2> SUFFICES ASSUME NEW i \in DOMAIN u, NEW j \in DOMAIN u, u[i] = u[j]
               PROVE  i = j
    BY DEF IsInjective
  <2>1. CASE i \in {1, 2} /\ j \in {1, 2}
    BY <1>3, <2>1
  <2>2. CASE i \notin {1, 2} /\ j \notin {1, 2}
    BY <1>4, <1>5, <2>2, FilesApart DEF IsInjective
  <2>3. CASE (i \in {1, 2}) # (j \in {1, 2})
    BY <1>3, <1>4, <1>5, <2>3, FileKinds
  <2> QED
    BY <2>1, <2>2, <2>3
<1>8. Ready(u)
  <2> SUFFICES ASSUME NEW i \in DOMAIN u, NEW g \in Source(u[i])
               PROVE  \E j \in 1..i-1 : u[j] = g
    BY DEF Ready
  <2>1. CASE i = 1
    BY <1>3, <2>1, FileKinds
  <2>2. CASE i = 2
    <3>1. g = "raw" /\ 1 \in 1..i-1
      BY <1>3, <2>2, FileKinds
    <3> QED
      BY <1>3, <3>1
  <2>3. CASE i # 1 /\ i # 2
    <3>1. PICK k \in DOMAIN Bitrates : i = 2 + k
      BY <1>4, <2>3
    <3>2. g = "processed"
      BY <1>5, <3>1, FileKinds
    <3>3. 2 \in 1..i-1
      BY <1>3, <3>1
    <3> QED
      BY <1>3, <3>2, <3>3
  <2> QED
    BY <2>1, <2>2, <2>3
<1> QED
  BY <1>3, <1>6, <1>7, <1>8 DEF Good, u, s

LEMMA PreviewsGood ==
    /\ Good(generatePreviews)
    /\ Range(generatePreviews) = Previews
<1> DEFINE s == <<"palette", "gif">>
<1>1. Good(s) /\ Range(s) = {"palette", "gif"}
  <2>1. s \in Seq(Files) /\ DOMAIN s = 1..2 /\ s[1] = "palette" /\ s[2] = "gif"
    BY FileKinds
  <2> HIDE DEF s
  <2>2. \A i \in DOMAIN s : i = 1 \/ i = 2
    BY <2>1
  <2>3. IsInjective(s) /\ Range(s) = {"palette", "gif"}
    BY <2>1, <2>2 DEF IsInjective, Range
  <2>4. Ready(s)
    <3> SUFFICES ASSUME NEW i \in DOMAIN s, NEW g \in Source(s[i])
                 PROVE  \E j \in 1..i-1 : s[j] = g
      BY DEF Ready
    <3>1. i = 2 /\ g = "palette"
      BY <2>1, <2>2, FileKinds
    <3>2. 1 \in 1..i-1
      BY <3>1
    <3> QED
      BY <2>1, <3>1, <3>2
  <2> QED
    BY <2>1, <2>3, <2>4 DEF Good
<1>2. Good(Thumbnails) /\ Good(Extras)
  <2>1. Range(Thumbnails) \subseteq Plain /\ Range(Extras) \subseteq Plain
    BY DEF Plain
  <2> QED
    BY <2>1, EncoderAssumption, FilesApart, PlainGood
<1> HIDE DEF s
<1>3. Good(Thumbnails \o s) /\ Range(Thumbnails \o s) = Range(Thumbnails) \cup {"palette", "gif"}
  BY <1>1, <1>2, FilesApart, GoodJoin
<1>4. /\ Good((Thumbnails \o s) \o Extras)
      /\ Range((Thumbnails \o s) \o Extras)
           = Range(Thumbnails) \cup {"palette", "gif"} \cup Range(Extras)
  <2>1. Range(Thumbnails \o s) \cap Range(Extras) = {}
    BY <1>3, FilesApart
  <2> QED
    BY <1>2, <1>3, <2>1, GoodJoin
<1> QED
  BY <1>4 DEF generatePreviews, Previews, s

\* Whatever the input, the script of an attempt names no file twice, and what
\* a command reads is written by an earlier one (Scripts).
LEMMA ScriptGood == ASSUME NEW in \in Inputs PROVE Good(Scripts[in])
<1> DEFINE tracks == IF in.audio THEN EncodeSeparateAV(in) ELSE SelectVariants(in)
<1>1. DOMAIN Ladder = 1..Len(Ladder) /\ Len(Ladder) \in Nat \ {0}
  <2>1. Ladder \in Seq(Range(Ladder)) /\ Ladder # << >>
    BY EncoderAssumption
  <2> QED
    BY <2>1, LenProperties, EmptySeq
<1>2. \A S \in SUBSET DOMAIN Ladder : Good(InOrder(S)) /\ Range(InOrder(S)) \subseteq Qualities
  <2>1. Qualities \subseteq Plain
    BY DEF Plain
  <2> QED
    BY <2>1, InOrderNames, PlainGood
<1>3. Good(tracks)
      /\ Range(tracks) \subseteq Qualities \cup {"raw", "processed"} \cup Range(Bitrates)
  <2>1. CASE in.audio
    <3>1. Good(selectQualities(in)) /\ Range(selectQualities(in)) \subseteq Qualities
      BY <1>2 DEF selectQualities
    <3>2. Range(<<"raw", "processed">> \o Bitrates) \cap Range(selectQualities(in)) = {}
      BY <3>1, AudioGood, FileKinds, FilesApart
    <3>3. Good(EncodeSeparateAV(in))
          /\ Range(EncodeSeparateAV(in))
                = {"raw", "processed"} \cup Range(Bitrates) \cup Range(selectQualities(in))
      BY <3>1, <3>2, AudioGood, GoodJoin DEF EncodeSeparateAV
    <3> QED
      BY <2>1, <3>1, <3>3
  <2>2. CASE ~in.audio
    <3> DEFINE fitting == {i \in DOMAIN Ladder : Ladder[i].height <= in.height}
    <3>1. CASE fitting = {}
      <4> DEFINE s == <<Ladder[1].name>>
      <4>1. Ladder[1].name \in Qualities
        BY <1>1 DEF Qualities, Range
      <4>2. s \in Seq(Qualities) /\ IsInjective(s) /\ Qualities \subseteq Plain
        BY <4>1 DEF IsInjective, Plain
      <4>3. SelectVariants(in) = s
        BY <3>1 DEF SelectVariants
      <4> HIDE DEF s
      <4>4. Good(s) /\ Range(s) \subseteq Qualities
        BY <4>2, PlainGood
      <4> QED
        BY <2>2, <4>3, <4>4
    <3>2. CASE fitting # {}
      <4>1. SelectVariants(in) = InOrder(fitting)
        BY <3>2 DEF SelectVariants
      <4> QED
        BY <1>2, <2>2, <4>1
    <3> QED
      BY <3>1, <3>2
  <2> QED
    BY <2>1, <2>2
<1> HIDE DEF tracks
<1> DEFINE m == <<"master">>
<1>4. Good(m) /\ Range(m) = {"master"}
  <2>1. m \in Seq({"master"}) /\ IsInjective(m) /\ {"master"} \subseteq Plain
    BY DEF IsInjective, Plain
  <2>2. Range(m) = {"master"}
    BY DEF Range
  <2> HIDE DEF m
  <2> QED
    BY <2>1, <2>2, PlainGood
<1> HIDE DEF m
<1>5. Good(tracks \o m) /\ Range(tracks \o m) = Range(tracks) \cup {"master"}
  <2>1. Range(tracks) \cap Range(m) = {}
    BY <1>3, <1>4, FileKinds
  <2> QED
    BY <1>3, <1>4, <2>1, GoodJoin
<1>6. Good((tracks \o m) \o generatePreviews)
  <2>1. Range(tracks \o m) \cap Range(generatePreviews) = {}
    BY <1>3, <1>5, PreviewsGood, FilesApart, FileKinds DEF Previews
  <2> QED
    BY <1>5, <2>1, PreviewsGood, GoodJoin
<1> QED
  BY <1>6 DEF Scripts, tracks, m

-----------------------------------------------------------------------------
(* Why results are received in time.                                       *)

\* What the proof needs of the types.
Shape ==
    /\ pc \in [Attempts -> {"idle", "run", "probe", "wait", "failed", "done"}]
    /\ at = [a \in Attempts |-> at[a]]
    /\ complete \subseteq Qualities
    /\ known \in [Attempts -> SUBSET Qualities]
    /\ listed = [a \in Attempts |-> listed[a]]
    /\ exit \in [Attempts -> [Files -> {"none", "running", "ok", "error"}]]
    /\ done \in [Attempts -> [Qualities -> {"empty", "ok", "error"}]]

\* An attempt knows nothing before it begins, and what it lists as encoded later.
KnownFirst ==
    \A a \in Attempts :
        /\ pc[a] = "idle" => known[a] = {}
        /\ ~input.audio => listed[a] \cap Qualities \subseteq known[a]

\* A quality that the attempt knows is not encoded again.
EncodesUnknown ==
    \A a \in Attempts :
        pc[a] \in {"probe", "wait"} /\ Watched(Task(a)) => Task(a) \notin known[a]

\* A goroutine that is not given up belongs to the call the attempt waits for.
InsideInTime ==
    \A a \in Attempts, q \in Qualities :
        Inside(a, q) /\ <<a, q>> \notin late => pc[a] = "wait" /\ Task(a) = q

\* So does a result, unless it was taken and the quality is known.
ReceivedInTime ==
    \A a \in Attempts, q \in Qualities :
        done[a][q] # "empty" =>
            /\ Watched(q)
            /\ \/ q \in known[a] /\ done[a][q] = "ok"
               \/ pc[a] = "wait" /\ Task(a) = q

\* A result comes from a command that has ended.
ReceivedAfterExit ==
    \A a \in Attempts :
        pc[a] = "wait" /\ Watched(Task(a)) /\ done[a][Task(a)] # "empty"
            => exit[a][Task(a)] = "none"

\* Some attempt that knows the quality has received that it is encoded.
Vouched(q) == \E a \in Attempts : q \in known[a] /\ exit[a][q] = "none" /\ done[a][q] = "ok"

AllVouched ==
    \A q \in complete \cup UNION {known[a] : a \in Attempts} : Watched(q) => Vouched(q)

InTime ==
    /\ Shape /\ KnownFirst /\ EncodesUnknown /\ InsideInTime
    /\ ReceivedInTime /\ ReceivedAfterExit /\ AllVouched

-----------------------------------------------------------------------------
(* The steps.                                                              *)

LEMMA FileFacts == Qualities \subseteq Files /\ "master" \notin Qualities
BY FileKinds

\* A process begins or ends, and a channel is filled or emptied.
LEMMA ExitChanges ==
    ASSUME Shape, NEW a \in Attempts, NEW f,
           NEW s \in {"none", "running", "ok", "error"}, exit' = [exit EXCEPT ![a][f] = s]
    PROVE  /\ exit' \in [Attempts -> [Files -> {"none", "running", "ok", "error"}]]
           /\ \A b \in Attempts \ {a} : exit'[b] = exit[b]
           /\ \A x \in Files : exit'[a][x] = IF x = f THEN s ELSE exit[a][x]
<1> DEFINE E == [Files -> {"none", "running", "ok", "error"}]
<1>1. exit \in [Attempts -> E] /\ exit[a] \in E
  BY DEF Shape
<1>2. exit' = [exit EXCEPT ![a] = [exit[a] EXCEPT ![f] = s]]
  BY <1>1
<1>3. [exit[a] EXCEPT ![f] = s] \in E
  BY <1>1
<1>4. exit'[a] = [exit[a] EXCEPT ![f] = s]
  BY <1>1, <1>2
<1> QED
  BY <1>1, <1>2, <1>3, <1>4

LEMMA DoneChanges ==
    ASSUME Shape, NEW a \in Attempts, NEW f,
           NEW s \in {"empty", "ok", "error"}, done' = [done EXCEPT ![a][f] = s]
    PROVE  /\ done' \in [Attempts -> [Qualities -> {"empty", "ok", "error"}]]
           /\ \A b \in Attempts \ {a} : done'[b] = done[b]
           /\ \A x \in Qualities : done'[a][x] = IF x = f THEN s ELSE done[a][x]
<1> DEFINE E == [Qualities -> {"empty", "ok", "error"}]
<1>1. done \in [Attempts -> E] /\ done[a] \in E
  BY DEF Shape
<1>2. done' = [done EXCEPT ![a] = [done[a] EXCEPT ![f] = s]]
  BY <1>1
<1>3. [done[a] EXCEPT ![f] = s] \in E
  BY <1>1
<1>4. done'[a] = [done[a] EXCEPT ![f] = s]
  BY <1>1, <1>2
<1> QED
  BY <1>1, <1>2, <1>3, <1>4

\* An attempt goes on to another task, or ends.
MovesOn(a) ==
    /\ pc' = [pc EXCEPT ![a] = pc'[a]] /\ pc'[a] \in {"run", "failed", "done"}
    /\ at' = [at EXCEPT ![a] = at'[a]]

\* Nobody knows more, and the state names only what was known.
LearnsNothing ==
    /\ known' = known /\ complete' \subseteq Qualities
    /\ complete' \subseteq complete \cup UNION {known[a] : a \in Attempts}

LEMMA InitInTime == Init => InTime
<1> SUFFICES ASSUME Init PROVE InTime
  OBVIOUS
<1>1. Shape
  BY FileFacts DEF Init, Shape
<1>2. KnownFirst /\ EncodesUnknown
  BY DEF Init, KnownFirst, EncodesUnknown
<1>3. InsideInTime /\ ReceivedInTime /\ ReceivedAfterExit
  BY FileFacts DEF Init, InsideInTime, ReceivedInTime, ReceivedAfterExit, Inside
<1>4. AllVouched
  BY DEF Init, AllVouched
<1> QED
  BY <1>1, <1>2, <1>3, <1>4 DEF InTime

\* Whoever vouches goes on to, if results are only lost for qualities not known.
LEMMA VouchedStays ==
    ASSUME InTime, UNCHANGED input, LearnsNothing,
           \A a \in Attempts, q \in Qualities :
               q \in known[a] /\ exit[a][q] = "none" /\ done[a][q] = "ok"
                 => exit'[a][q] = "none" /\ done'[a][q] = "ok"
    PROVE  AllVouched'
<1> SUFFICES ASSUME NEW q \in complete' \cup UNION {known'[a] : a \in Attempts}, Watched(q)'
             PROVE  Vouched(q)'
  BY DEF AllVouched
<1>1. q \in complete \cup UNION {known[a] : a \in Attempts} /\ Watched(q)
  BY DEF LearnsNothing, Watched
<1>2. Vouched(q)
  BY <1>1 DEF InTime, AllVouched
<1> QED
  BY <1>1, <1>2 DEF Vouched, Watched, LearnsNothing

\* A task that is over without a result leaves nothing of its call behind.
LEMMA MoveKeeps ==
    ASSUME InTime, NEW a \in Attempts, pc[a] \in {"run", "probe", "wait"},
           MovesOn(a), LearnsNothing, UNCHANGED input, Shape',
           listed' = [listed EXCEPT ![a] = listed'[a]],
           ~input.audio => listed'[a] \cap Qualities \subseteq known[a],
           \A b \in Attempts \ {a} : exit'[b] = exit[b] /\ done'[b] = done[b],
           late \subseteq late',
           \A q \in Qualities :
               IF pc[a] = "wait" /\ Task(a) = q /\ Watched(q)
               THEN done'[a][q] = "empty" /\ (exit'[a][q] = "none" \/ <<a, q>> \in late')
               ELSE done'[a][q] = done[a][q] /\ (exit'[a][q] # "none" => exit'[a][q] = exit[a][q])
    PROVE  InTime'
<1> USE DEF InTime
<1>0. /\ known' = known /\ input' = input
      /\ pc'[a] \in {"run", "failed", "done"}
      /\ \A b \in Attempts \ {a} : pc'[b] = pc[b] /\ Task(b)' = Task(b)
      /\ \A q : Watched(q)' <=> Watched(q)
  BY DEF MovesOn, LearnsNothing, Shape, Task, Script, Watched
<1>1. KnownFirst'
  BY <1>0 DEF KnownFirst, Shape
<1>2. EncodesUnknown'
  BY <1>0 DEF EncodesUnknown
<1>3. InsideInTime'
  BY <1>0 DEF InsideInTime, Inside
<1>4. ReceivedInTime'
  <2> SUFFICES ASSUME NEW b \in Attempts, NEW q \in Qualities, done'[b][q] # "empty"
               PROVE  /\ Watched(q)
                      /\ \/ q \in known[b] /\ done'[b][q] = "ok"
                         \/ pc'[b] = "wait" /\ Task(b)' = q
    BY <1>0 DEF ReceivedInTime
  <2>1. CASE b = a
    <3>1. ~(pc[a] = "wait" /\ Task(a) = q /\ Watched(q)) /\ done'[a][q] = done[a][q]
      BY <2>1
    <3> QED
      BY <2>1, <3>1 DEF ReceivedInTime
  <2>2. CASE b # a
    <3>1. done[b][q] # "empty" /\ done'[b][q] = done[b][q]
      BY <2>2
    <3> QED
      BY <1>0, <2>2, <3>1 DEF ReceivedInTime
  <2> QED
    BY <2>1, <2>2
<1>5. ReceivedAfterExit'
  <2> SUFFICES ASSUME NEW b \in Attempts, pc'[b] = "wait", Watched(Task(b))',
                      done'[b][Task(b)'] # "empty"
               PROVE  exit'[b][Task(b)'] = "none"
    BY DEF ReceivedAfterExit
  <2>1. b # a
    BY <1>0
  <2> QED
    BY <1>0, <2>1 DEF ReceivedAfterExit
<1>6. AllVouched'
  <2> SUFFICES ASSUME NEW b \in Attempts, NEW q \in Qualities,
                      q \in known[b] /\ exit[b][q] = "none" /\ done[b][q] = "ok"
               PROVE  exit'[b][q] = "none" /\ done'[b][q] = "ok"
    BY VouchedStays
  <2>1. CASE b = a
    BY <2>1 DEF EncodesUnknown
  <2>2. CASE b # a
    BY <2>2
  <2> QED
    BY <2>1, <2>2
<1> QED
  BY <1>1, <1>2, <1>3, <1>4, <1>5, <1>6

LEMMA TaskErrsMoves ==
    ASSUME InTime, NEW a \in Attempts, pc[a] \in {"probe", "wait"}, TaskErrs(a)
    PROVE  /\ MovesOn(a) /\ LearnsNothing
           /\ listed' = [b \in Attempts |-> listed'[b]]
           /\ pc' \in [Attempts -> {"idle", "run", "probe", "wait", "failed", "done"}]
           /\ at' = [b \in Attempts |-> at'[b]]
           /\ listed' = [listed EXCEPT ![a] = listed'[a]]
           /\ ~input.audio => listed'[a] \cap Qualities \subseteq known[a]
<1> USE DEF InTime
<1>1. CASE PassOver(a)
  <2>1. MovesOn(a)
    BY <1>1 DEF PassOver, Advance, MovesOn, Shape
  <2>2. LearnsNothing
    BY <1>1 DEF PassOver, LearnsNothing, Shape
  <2>3. listed' = listed /\ at' = [b \in Attempts |-> at'[b]]
    BY <1>1 DEF PassOver, Advance, Shape
  <2> QED
    BY <1>1, <2>1, <2>2, <2>3 DEF PassOver, Advance, Shape, KnownFirst
<1>2. CASE FailAttempt(a)
  BY <1>2 DEF FailAttempt, MovesOn, LearnsNothing, Shape, KnownFirst
<1>3. CASE DropPreviews(a)
  <2>1. MovesOn(a) /\ LearnsNothing
    BY <1>3 DEF DropPreviews, MovesOn, LearnsNothing, Shape
  <2> QED
    BY <1>3, <2>1 DEF DropPreviews, Shape, KnownFirst
<1> QED
  BY <1>1, <1>2, <1>3 DEF TaskErrs

LEMMA FailsKeeps ==
    ASSUME InTime, NEW a \in Attempts, TaskFails(a) \/ TimesOut(a) \/ ProbeFails(a)
    PROVE  InTime'
<1> USE DEF InTime
<1>1. pc[a] \in {"probe", "wait"} /\ TaskErrs(a) /\ UNCHANGED input
  BY DEF TaskFails, TimesOut, ProbeFails
<1>2. /\ exit' \in [Attempts -> [Files -> {"none", "running", "ok", "error"}]]
      /\ done' \in [Attempts -> [Qualities -> {"empty", "ok", "error"}]]
      /\ \A b \in Attempts \ {a} : exit'[b] = exit[b] /\ done'[b] = done[b]
      /\ late \subseteq late'
  <2>1. CASE TaskFails(a)
    <3>1. late' = late /\ Taken(a)
      BY <2>1 DEF TaskFails
    <3>2. CASE Watched(Task(a))
      <4>1. done' = [done EXCEPT ![a][Task(a)] = "empty"] /\ exit' = exit
        BY <3>1, <3>2 DEF Taken
      <4>2. /\ done' \in [Attempts -> [Qualities -> {"empty", "ok", "error"}]]
            /\ \A b \in Attempts \ {a} : done'[b] = done[b]
        BY <4>1, DoneChanges
      <4> QED
        BY <3>1, <4>1, <4>2 DEF Shape
    <3>3. CASE ~Watched(Task(a))
      <4>1. exit' = [exit EXCEPT ![a][Task(a)] = "none"] /\ done' = done
        BY <3>1, <3>3 DEF Taken
      <4>2. /\ exit' \in [Attempts -> [Files -> {"none", "running", "ok", "error"}]]
            /\ \A b \in Attempts \ {a} : exit'[b] = exit[b]
        BY <4>1, ExitChanges
      <4> QED
        BY <3>1, <4>1, <4>2 DEF Shape
    <3> QED
      BY <3>1, <3>2, <3>3
  <2>2. CASE TimesOut(a)
    BY <2>2 DEF TimesOut, Shape
  <2>3. CASE ProbeFails(a)
    BY <2>3 DEF ProbeFails, command, Shape
  <2> QED
    BY <2>1, <2>2, <2>3
<1>3. Shape'
  BY <1>1, <1>2, TaskErrsMoves DEF Shape, LearnsNothing
<1>4. ASSUME NEW q \in Qualities
      PROVE  IF pc[a] = "wait" /\ Task(a) = q /\ Watched(q)
             THEN done'[a][q] = "empty" /\ (exit'[a][q] = "none" \/ <<a, q>> \in late')
             ELSE done'[a][q] = done[a][q] /\ (exit'[a][q] # "none" => exit'[a][q] = exit[a][q])
  <2>1. CASE TaskFails(a)
    <3>1. CASE Watched(Task(a))
      <4>1. Outcome(a) # "empty" /\ pc[a] = "wait" /\ Task(a) \in Qualities
        BY <2>1, <3>1 DEF TaskFails, Watched
      <4>2. exit[a][Task(a)] = "none"
        BY <4>1, <3>1 DEF Outcome, ReceivedAfterExit
      <4> QED
        BY <2>1, <3>1, <4>1, <4>2 DEF TaskFails, Taken, Shape
    <3>2. CASE ~Watched(Task(a))
      BY <2>1, <3>2, FileFacts DEF TaskFails, Taken, Shape
    <3> QED
      BY <3>1, <3>2
  <2>2. CASE TimesOut(a)
    BY <2>2 DEF TimesOut, Shape
  <2>3. CASE ProbeFails(a)
    BY <2>3 DEF ProbeFails, command
  <2> QED
    BY <2>1, <2>2, <2>3
<1> QED
  BY <1>1, <1>2, <1>3, <1>4, TaskErrsMoves, MoveKeeps

LEMMA MovesKeep ==
    ASSUME InTime, NEW a \in Attempts, SkipVariant(a) \/ Finish(a)
    PROVE  InTime'
<1> USE DEF InTime
<1>1. /\ pc[a] = "run" /\ MovesOn(a) /\ LearnsNothing /\ UNCHANGED input /\ Shape'
      /\ UNCHANGED <<exit, done, late>>
      /\ listed' = [listed EXCEPT ![a] = listed'[a]]
      /\ ~input.audio => listed'[a] \cap Qualities \subseteq known[a]
  <2>1. CASE SkipVariant(a)
    <3>1. Task(a) \in known[a] /\ Task(a) \in Files
      BY <2>1, FileFacts DEF SkipVariant, Watched
    <3> QED
      BY <2>1, <3>1 DEF SkipVariant, MovesOn, LearnsNothing, Shape, KnownFirst, disk, command
  <2>2. CASE Finish(a)
    BY <2>2 DEF Finish, MovesOn, LearnsNothing, Shape, KnownFirst, disk, command
  <2> QED
    BY <2>1, <2>2
<1> QED
  BY <1>1, MoveKeeps

LEMMA BeginKeeps ==
    ASSUME InTime, NEW a \in Attempts, Begin(a)
    PROVE  InTime'
<1> USE DEF InTime
<1>1. /\ pc[a] = "idle" /\ pc'[a] = "run" /\ known[a] = {} /\ known'[a] = complete
      /\ \A b \in Attempts \ {a} : pc'[b] = pc[b] /\ known'[b] = known[b]
      /\ UNCHANGED <<input, complete, at, listed, exit, done, late>>
      /\ \A b \in Attempts : Task(b)' = Task(b)
      /\ \A q : Watched(q)' <=> Watched(q)
  BY DEF Begin, disk, command, Shape, KnownFirst, Task, Script, Watched
<1>2. Shape'
  BY DEF Begin, disk, command, Shape
<1>3. KnownFirst'
  BY <1>1 DEF KnownFirst
<1>4. EncodesUnknown'
  BY <1>1 DEF EncodesUnknown
<1>5. InsideInTime' /\ ReceivedAfterExit'
  BY <1>1 DEF InsideInTime, Inside, ReceivedAfterExit
<1>6. ReceivedInTime'
  BY <1>1 DEF ReceivedInTime
<1>7. AllVouched'
  <2> SUFFICES ASSUME NEW q \in complete' \cup UNION {known'[b] : b \in Attempts}, Watched(q)'
               PROVE  Vouched(q)'
    BY DEF AllVouched
  <2>1. q \in complete \cup UNION {known[b] : b \in Attempts}
    BY <1>1
  <2>2. PICK b \in Attempts : q \in known[b] /\ exit[b][q] = "none" /\ done[b][q] = "ok"
    BY <1>1, <2>1 DEF AllVouched, Vouched
  <2> QED
    BY <1>1, <2>2 DEF Vouched
<1> QED
  BY <1>2, <1>3, <1>4, <1>5, <1>6, <1>7

LEMMA ProbeInputKeeps ==
    ASSUME InTime, NEW a \in Attempts, ProbeInput(a)
    PROVE  InTime'
<1> USE DEF InTime
<1>1. /\ pc[a] = "run" /\ pc'[a] = "probe" /\ Task(a) \notin known[a]
      /\ \A b \in Attempts \ {a} : pc'[b] = pc[b]
      /\ UNCHANGED <<input, known, at, listed, exit, done, late>>
      /\ \A b \in Attempts : Task(b)' = Task(b)
      /\ \A q : Watched(q)' <=> Watched(q)
  BY DEF ProbeInput, command, Shape, Task, Script, Watched
<1>2. LearnsNothing
  BY <1>1 DEF ProbeInput, LearnsNothing, Shape
<1>3. Shape'
  BY <1>1, <1>2 DEF ProbeInput, LearnsNothing, Shape
<1>4. KnownFirst'
  BY <1>1 DEF KnownFirst
<1>5. EncodesUnknown'
  BY <1>1 DEF EncodesUnknown
<1>6. InsideInTime' /\ ReceivedAfterExit'
  BY <1>1 DEF InsideInTime, Inside, ReceivedAfterExit
<1>7. ReceivedInTime'
  BY <1>1 DEF ReceivedInTime
<1>8. AllVouched'
  BY <1>1, <1>2, VouchedStays
<1> QED
  BY <1>3, <1>4, <1>5, <1>6, <1>7, <1>8

LEMMA StartKeeps ==
    ASSUME InTime, NEW a \in Attempts, StartCommand(a) \/ ProbeEnds(a)
    PROVE  InTime'
<1> USE DEF InTime
<1> DEFINE f == Task(a)
<1>1. pc[a] \in {"run", "probe"} /\ Start(a) /\ (Watched(f) => f \notin known[a])
  BY DEF StartCommand, ProbeEnds, Probed, EncodesUnknown
<1>2. exit' = [exit EXCEPT ![a][f] = "running"] /\ pc' = [pc EXCEPT ![a] = "wait"]
  BY <1>1 DEF Start
<1>3. /\ pc'[a] = "wait" /\ \A b \in Attempts \ {a} : pc'[b] = pc[b]
      /\ UNCHANGED <<input, complete, known, at, listed, done, late>>
      /\ \A b \in Attempts : Task(b)' = Task(b)
      /\ \A q : Watched(q)' <=> Watched(q)
  BY <1>1, <1>2 DEF Start, Shape, Task, Script, Watched
<1>4. /\ exit' \in [Attempts -> [Files -> {"none", "running", "ok", "error"}]]
      /\ \A b \in Attempts \ {a} : exit'[b] = exit[b]
      /\ \A x \in Files : exit'[a][x] = IF x = f THEN "running" ELSE exit[a][x]
  BY <1>2, ExitChanges
<1>5. LearnsNothing
  BY <1>3 DEF LearnsNothing, Shape
<1>6. Shape'
  BY <1>2, <1>3, <1>4 DEF Shape
<1>7. KnownFirst' /\ EncodesUnknown'
  BY <1>3, <1>1 DEF KnownFirst, EncodesUnknown
<1>8. InsideInTime'
  BY <1>1, <1>3, <1>4, FileFacts DEF InsideInTime, Inside
<1>9. ReceivedInTime'
  BY <1>1, <1>3 DEF ReceivedInTime
<1>10. ReceivedAfterExit'
  <2> SUFFICES ASSUME NEW b \in Attempts, pc'[b] = "wait", Watched(Task(b)),
                      done[b][Task(b)] # "empty"
               PROVE  exit'[b][Task(b)] = "none"
    BY <1>3 DEF ReceivedAfterExit
  <2>1. b # a
    BY <1>1 DEF ReceivedInTime, Watched
  <2> QED
    BY <1>3, <1>4, <2>1 DEF ReceivedAfterExit
<1>11. AllVouched'
  <2> SUFFICES ASSUME NEW b \in Attempts, NEW q \in Qualities,
                      q \in known[b] /\ exit[b][q] = "none" /\ done[b][q] = "ok"
               PROVE  exit'[b][q] = "none" /\ done'[b][q] = "ok"
    BY <1>3, <1>5, VouchedStays
  <2>1. Watched(q)
    BY DEF ReceivedInTime
  <2> QED
    BY <1>1, <1>3, <1>4, <2>1, FileFacts
<1> QED
  BY <1>6, <1>7, <1>8, <1>9, <1>10, <1>11

LEMMA TaskSucceedsKeeps ==
    ASSUME InTime, NEW a \in Attempts, TaskSucceeds(a)
    PROVE  InTime'
<1> USE DEF InTime
<1> DEFINE f == Task(a)
<1>1. /\ pc[a] = "wait" /\ pc' = [pc EXCEPT ![a] = "run"] /\ at' = [at EXCEPT ![a] = @ + 1]
      /\ Outcome(a) = "ok" /\ UNCHANGED <<input, late>>
      /\ listed' = [listed EXCEPT ![a] = @ \cup ({f} \ {"raw", "processed", "palette"})]
  BY DEF TaskSucceeds, Advance
<1>2. CASE Watched(f)
  <2>1. /\ f \in Qualities /\ f \in Files /\ done[a][f] = "ok" /\ exit[a][f] = "none"
    BY <1>1, <1>2, FileFacts DEF Watched, Outcome, ReceivedAfterExit
  <2>2. /\ known' = [known EXCEPT ![a] = known[a] \cup {f}]
        /\ complete' = known[a] \cup {f} /\ UNCHANGED <<exit, done>>
    BY <1>2 DEF TaskSucceeds, Save
  <2>3. /\ known'[a] = known[a] \cup {f} /\ listed'[a] \subseteq listed[a] \cup {f}
        /\ pc'[a] = "run"
        /\ \A b \in Attempts \ {a} : /\ pc'[b] = pc[b] /\ known'[b] = known[b]
                                     /\ listed'[b] = listed[b] /\ Task(b)' = Task(b)
        /\ \A q : Watched(q)' <=> Watched(q)
    BY <1>1, <2>2 DEF Shape, Task, Script, Watched
  <2>4. Shape'
    BY <1>1, <2>1, <2>2 DEF Shape
  <2>5. KnownFirst'
    BY <1>1, <2>3 DEF KnownFirst
  <2>6. EncodesUnknown'
    BY <2>3 DEF EncodesUnknown
  <2>7. InsideInTime' /\ ReceivedAfterExit'
    BY <1>1, <2>1, <2>2, <2>3 DEF InsideInTime, Inside, ReceivedAfterExit
  <2>8. ReceivedInTime'
    BY <2>1, <2>2, <2>3 DEF ReceivedInTime
  <2>9. AllVouched'
    <3> SUFFICES ASSUME NEW q \in complete' \cup UNION {known'[b] : b \in Attempts},
                        Watched(q)'
                 PROVE  Vouched(q)'
      BY DEF AllVouched
    <3>1. CASE q = f
      BY <2>1, <2>2, <2>3, <3>1 DEF Vouched
    <3>2. CASE q # f
      <4>1. q \in UNION {known[b] : b \in Attempts} /\ Watched(q)
        BY <2>2, <2>3, <3>2
      <4>2. Vouched(q)
        BY <4>1 DEF AllVouched
      <4> QED
        BY <2>2, <2>3, <4>2 DEF Vouched
    <3> QED
      BY <3>1, <3>2
  <2> QED
    BY <2>4, <2>5, <2>6, <2>7, <2>8, <2>9
<1>3. CASE ~Watched(f)
  <2>1. exit' = [exit EXCEPT ![a][f] = "none"] /\ UNCHANGED <<done, known, complete>>
    BY <1>3 DEF TaskSucceeds, Taken
  <2>2. /\ exit' \in [Attempts -> [Files -> {"none", "running", "ok", "error"}]]
        /\ \A b \in Attempts \ {a} : exit'[b] = exit[b]
        /\ \A x \in Files : exit'[a][x] = IF x = f THEN "none" ELSE exit[a][x]
    BY <2>1, ExitChanges
  <2>3. MovesOn(a) /\ LearnsNothing
    BY <1>1, <2>1 DEF MovesOn, LearnsNothing, Shape
  <2>4. listed' = [listed EXCEPT ![a] = listed'[a]]
    BY <1>1 DEF Shape
  <2>5. ~input.audio => listed'[a] \cap Qualities \subseteq known[a]
    BY <1>1, <1>3 DEF Watched, KnownFirst, Shape
  <2>6. Shape'
    BY <1>1, <2>1, <2>2 DEF Shape
  <2> QED
    BY <1>1, <1>3, <2>1, <2>2, <2>3, <2>4, <2>5, <2>6, FileFacts, MoveKeeps
<1> QED
  BY <1>2, <1>3

LEMMA MasterPlaylistKeeps ==
    ASSUME InTime, NEW a \in Attempts, MasterPlaylist(a) \/ MasterFails(a)
    PROVE  InTime'
<1> USE DEF InTime
<1>1. /\ pc[a] = "run" /\ UNCHANGED <<input, exit, done, late>>
      /\ pc' = [pc EXCEPT ![a] = pc'[a]] /\ pc'[a] \in {"run", "failed"}
      /\ at' = [at EXCEPT ![a] = at'[a]]
      /\ listed' = [listed EXCEPT ![a] = listed'[a]]
      /\ listed'[a] \subseteq listed[a] \cup {"master"}
      /\ \/ UNCHANGED <<known, complete>>
         \/ Save(a, known[a] \cup (listed[a] \cap Qualities))
  BY DEF MasterPlaylist, MasterFails, AtMaster, Advance, command, Shape
<1>2. Shape'
  <2>1. /\ pc' \in [Attempts -> {"idle", "run", "probe", "wait", "failed", "done"}]
        /\ at' = [b \in Attempts |-> at'[b]]
        /\ listed' = [b \in Attempts |-> listed'[b]]
    BY <1>1 DEF Shape
  <2>2. complete' \subseteq Qualities /\ known' \in [Attempts -> SUBSET Qualities]
    <3>1. CASE UNCHANGED <<known, complete>>
      BY <3>1 DEF Shape
    <3>2. CASE Save(a, known[a] \cup (listed[a] \cap Qualities))
      <4>1. known[a] \cup (listed[a] \cap Qualities) \subseteq Qualities
        BY DEF Shape
      <4> QED
        BY <3>2, <4>1 DEF Shape, Save
    <3> QED
      BY <1>1, <3>1, <3>2
  <2> QED
    BY <1>1, <2>1, <2>2 DEF Shape
<1>3. CASE ~input.audio
  <2>1. known[a] \cup (listed[a] \cap Qualities) = known[a]
    BY <1>3 DEF KnownFirst
  <2>2. LearnsNothing
    <3>1. CASE UNCHANGED <<known, complete>>
      BY <3>1 DEF LearnsNothing, Shape
    <3>2. CASE Save(a, known[a])
      BY <3>2 DEF LearnsNothing, Save, Shape
    <3> QED
      BY <1>1, <2>1, <3>1, <3>2
  <2>3. listed'[a] \cap Qualities \subseteq known[a]
    BY <1>1, <1>3, FileFacts DEF KnownFirst
  <2>4. MovesOn(a)
    BY <1>1 DEF MovesOn
  <2> QED
    BY <1>1, <1>2, <2>2, <2>3, <2>4, MoveKeeps
<1>4. CASE input.audio
  <2>1. \A q : ~Watched(q) /\ ~Watched(q)'
    BY <1>1, <1>4 DEF Watched
  <2>2. KnownFirst'
    BY <1>1, <1>4 DEF KnownFirst, Shape, Save
  <2>3. EncodesUnknown' /\ InsideInTime' /\ ReceivedAfterExit' /\ AllVouched'
    BY <2>1 DEF EncodesUnknown, InsideInTime, Inside, ReceivedAfterExit, AllVouched
  <2>4. ReceivedInTime'
    BY <1>1, <2>1 DEF ReceivedInTime
  <2> QED
    BY <1>2, <2>2, <2>3, <2>4
<1> QED
  BY <1>3, <1>4, <1>2 DEF Shape

LEMMA ExitsKeeps ==
    ASSUME InTime, NEW a \in Attempts, NEW f \in Files, Exits(a, f)
    PROVE  InTime'
<1> USE DEF InTime
<1>1. /\ exit[a][f] = "running" /\ UNCHANGED <<input, complete, attempt, done, late>>
      /\ \/ exit' = [exit EXCEPT ![a][f] = "ok"]
         \/ exit' = [exit EXCEPT ![a][f] = "error"]
  BY DEF Exits, Running
<1>2. /\ exit' \in [Attempts -> [Files -> {"none", "running", "ok", "error"}]]
      /\ \A b \in Attempts \ {a} : exit'[b] = exit[b]
      /\ \A x \in Files \ {f} : exit'[a][x] = exit[a][x]
  <2>1. CASE exit' = [exit EXCEPT ![a][f] = "ok"]
    BY <2>1, ExitChanges
  <2>2. CASE exit' = [exit EXCEPT ![a][f] = "error"]
    BY <2>2, ExitChanges
  <2> QED
    BY <1>1, <2>1, <2>2
<1>3. /\ UNCHANGED <<pc, at, known, listed>>
      /\ \A b \in Attempts : Task(b)' = Task(b)
      /\ \A q : Watched(q)' <=> Watched(q)
  BY <1>1 DEF attempt, Task, Script, Watched
<1>4. Shape' /\ LearnsNothing
  BY <1>1, <1>2, <1>3 DEF Shape, LearnsNothing
<1>5. KnownFirst' /\ EncodesUnknown' /\ ReceivedInTime'
  BY <1>1, <1>3 DEF KnownFirst, EncodesUnknown, ReceivedInTime
<1>6. InsideInTime'
  <2> SUFFICES ASSUME NEW b \in Attempts, NEW q \in Qualities,
                      Watched(q), exit'[b][q] # "none", <<b, q>> \notin late
               PROVE  pc[b] = "wait" /\ Task(b) = q
    BY <1>1, <1>3 DEF InsideInTime, Inside
  <2>1. exit[b][q] # "none"
    BY <1>1, <1>2, FileFacts
  <2> QED
    BY <2>1 DEF InsideInTime, Inside
<1>7. ReceivedAfterExit'
  BY <1>1, <1>2, <1>3, FileFacts DEF ReceivedAfterExit, Watched
<1>8. AllVouched'
  BY <1>1, <1>2, <1>4, FileFacts, VouchedStays
<1> QED
  BY <1>4, <1>5, <1>6, <1>7, <1>8

LEMMA FnReturnsKeeps ==
    ASSUME InTime, NEW a \in Attempts, NEW f \in Qualities, FnReturns(a, f)
    PROVE  InTime'
<1> USE DEF InTime
<1>1. /\ Watched(f) /\ exit[a][f] \in {"ok", "error"}
      /\ exit' = [exit EXCEPT ![a][f] = "none"]
      /\ UNCHANGED <<input, complete, attempt, late>>
  BY FileFacts DEF FnReturns, Inside, Running, Shape, disk
<1>2. /\ exit' \in [Attempts -> [Files -> {"none", "running", "ok", "error"}]]
      /\ \A b \in Attempts \ {a} : exit'[b] = exit[b]
      /\ \A x \in Files : exit'[a][x] = IF x = f THEN "none" ELSE exit[a][x]
  BY <1>1, ExitChanges
<1>3. /\ UNCHANGED <<pc, at, known, listed>>
      /\ \A b \in Attempts : Task(b)' = Task(b)
      /\ \A q : Watched(q)' <=> Watched(q)
  BY <1>1 DEF attempt, Task, Script, Watched
<1>4. /\ done' \in [Attempts -> [Qualities -> {"empty", "ok", "error"}]]
      /\ \A b \in Attempts \ {a} : done'[b] = done[b]
      /\ \A x \in Qualities \ {f} : done'[a][x] = done[a][x]
      /\ done'[a][f] = done[a][f] \/ (pc[a] = "wait" /\ Task(a) = f)
  <2>1. CASE <<a, f>> \in late
    BY <2>1 DEF FnReturns, Shape
  <2>2. CASE <<a, f>> \notin late
    <3>1. done' = [done EXCEPT ![a][f] = exit[a][f]]
      BY <2>2 DEF FnReturns
    <3>2. pc[a] = "wait" /\ Task(a) = f
      BY <2>2 DEF FnReturns, InsideInTime
    <3>3. exit[a][f] \in {"empty", "ok", "error"}
      BY <1>1
    <3>4. /\ done' \in [Attempts -> [Qualities -> {"empty", "ok", "error"}]]
          /\ \A b \in Attempts \ {a} : done'[b] = done[b]
          /\ \A x \in Qualities \ {f} : done'[a][x] = done[a][x]
      BY <3>1, <3>3, DoneChanges
    <3> QED
      BY <3>2, <3>4
  <2> QED
    BY <2>1, <2>2
<1>5. Shape' /\ LearnsNothing
  BY <1>1, <1>2, <1>3, <1>4 DEF Shape, LearnsNothing
<1>6. KnownFirst' /\ EncodesUnknown'
  BY <1>1, <1>3 DEF KnownFirst, EncodesUnknown
<1>7. InsideInTime' /\ ReceivedAfterExit'
  <2>1. \A b \in Attempts, q \in Qualities : exit'[b][q] # "none" => exit'[b][q] = exit[b][q]
    BY <1>2, FileFacts
  <2>2. InsideInTime'
    BY <1>1, <1>3, <2>1 DEF InsideInTime, Inside
  <2>3. ReceivedAfterExit'
    <3> SUFFICES ASSUME NEW b \in Attempts, pc[b] = "wait", Watched(Task(b)),
                        done'[b][Task(b)] # "empty"
                 PROVE  exit'[b][Task(b)] = "none"
      BY <1>3 DEF ReceivedAfterExit
    <3>1. CASE b = a /\ Task(b) = f
      BY <1>2, <3>1, FileFacts
    <3>2. CASE ~(b = a /\ Task(b) = f)
      <4>1. Task(b) \in Qualities /\ done'[b][Task(b)] = done[b][Task(b)]
        BY <1>4, <3>2 DEF Watched
      <4> QED
        BY <2>1, <4>1 DEF ReceivedAfterExit
    <3> QED
      BY <3>1, <3>2
  <2> QED
    BY <2>2, <2>3
<1>8. ReceivedInTime'
  <2> SUFFICES ASSUME NEW b \in Attempts, NEW q \in Qualities, done'[b][q] # "empty"
               PROVE  /\ Watched(q)
                      /\ \/ q \in known[b] /\ done'[b][q] = "ok"
                         \/ pc[b] = "wait" /\ Task(b) = q
    BY <1>3 DEF ReceivedInTime
  <2>1. CASE done'[b][q] = done[b][q]
    BY <2>1 DEF ReceivedInTime
  <2>2. CASE done'[b][q] # done[b][q]
    BY <1>1, <1>4, <2>2
  <2> QED
    BY <2>1, <2>2
<1>9. AllVouched'
  <2> SUFFICES ASSUME NEW b \in Attempts, NEW q \in Qualities,
                      q \in known[b] /\ exit[b][q] = "none" /\ done[b][q] = "ok"
               PROVE  exit'[b][q] = "none" /\ done'[b][q] = "ok"
    BY <1>1, <1>5, VouchedStays
  <2>1. b # a \/ q # f
    BY <1>1
  <2> QED
    BY <1>2, <1>4, <2>1, FileFacts
<1> QED
  BY <1>5, <1>6, <1>7, <1>8, <1>9

LEMMA StaysSame ==
    ASSUME InTime, RemoveFiles \/ UNCHANGED vars
    PROVE  InTime'
<1> USE DEF InTime
<1>1. /\ UNCHANGED <<input, pc, at, known, listed, exit, done, late>>
      /\ complete' \in {{}, complete}
  BY DEF RemoveFiles, attempt, vars, disk, command
<1>2. /\ \A b \in Attempts : Task(b)' = Task(b)
      /\ \A q : Watched(q)' <=> Watched(q)
  BY <1>1 DEF Task, Script, Watched
<1>3. Shape' /\ LearnsNothing
  BY <1>1 DEF Shape, LearnsNothing
<1>4. KnownFirst' /\ EncodesUnknown' /\ ReceivedInTime'
  BY <1>1, <1>2 DEF KnownFirst, EncodesUnknown, ReceivedInTime
<1>5. InsideInTime' /\ ReceivedAfterExit'
  BY <1>1, <1>2 DEF InsideInTime, Inside, ReceivedAfterExit
<1>6. AllVouched'
  BY <1>1, <1>3, VouchedStays
<1> QED
  BY <1>3, <1>4, <1>5, <1>6

LEMMA StepKeeps == InTime /\ [Next]_vars => InTime'
<1> SUFFICES ASSUME InTime, [Next]_vars PROVE InTime'
  OBVIOUS
<1>1. ASSUME NEW a \in Attempts, Step(a) PROVE InTime'
  <2>1. CASE SkipVariant(a) \/ Finish(a)
    BY <2>1, MovesKeep
  <2>2. CASE ProbeInput(a)
    BY <2>2, ProbeInputKeeps
  <2>3. CASE StartCommand(a)
    BY <2>3, StartKeeps
  <2>4. CASE TaskSucceeds(a)
    BY <2>4, TaskSucceedsKeeps
  <2>5. CASE TaskFails(a) \/ TimesOut(a)
    BY <2>5, FailsKeeps
  <2>6. CASE MasterPlaylist(a) \/ MasterFails(a)
    BY <2>6, MasterPlaylistKeeps
  <2> QED
    BY <1>1, <2>1, <2>2, <2>3, <2>4, <2>5, <2>6 DEF Step
<1>2. ASSUME NEW a \in Attempts, Begin(a) PROVE InTime'
  BY <1>2, BeginKeeps
<1>3. ASSUME NEW a \in Attempts, ProbeEnds(a) PROVE InTime'
  BY <1>3, StartKeeps
<1>4. ASSUME NEW a \in Attempts, ProbeFails(a) PROVE InTime'
  BY <1>4, FailsKeeps
<1>5. ASSUME NEW a \in Attempts, NEW f \in Files, Exits(a, f) PROVE InTime'
  BY <1>5, ExitsKeeps
<1>6. ASSUME NEW a \in Attempts, NEW q \in Qualities, FnReturns(a, q) PROVE InTime'
  BY <1>6, FnReturnsKeeps
<1>7. CASE RemoveFiles \/ UNCHANGED vars
  BY <1>7, StaysSame
<1> QED
  BY <1>1, <1>2, <1>3, <1>4, <1>5, <1>6, <1>7 DEF Next

\* Whatever the inputs, the ladder and the number of attempts: a quality the
\* state names as completed was encoded by a command that ended well while it
\* was waited for, and no late result is taken for that of a retry
\* (watchdog.go:44, transcode_usecase.go:519).
THEOREM EncodedInTimeCorrect == Spec => []EncodedInTime
<1>1. InTime => EncodedInTime
  BY DEF InTime, AllVouched, Vouched, EncodedInTime
<1> QED
  BY <1>1, InitInTime, StepKeeps, PTL DEF Spec

-----------------------------------------------------------------------------
(* Types.                                                                  *)

\* An attempt is at a task of its script when it waits for a command.
AtTask == \A a \in Attempts : pc[a] \in {"probe", "wait"} => at[a] \in DOMAIN Script

Typed == TypeOK /\ AtTask

AttemptTyped ==
    /\ complete \subseteq Qualities
    /\ pc \in [Attempts -> {"idle", "run", "probe", "wait", "failed", "done"}]
    /\ at \in [Attempts -> 1..Len(Script) + 1]
    /\ \A S \in {known, failed} : S \in [Attempts -> SUBSET Qualities]
    /\ listed \in [Attempts -> SUBSET Files]

CommandTyped ==
    /\ content \in [Files -> {"absent", "part", "whole"}]
    /\ exit \in [Attempts -> [Files -> {"none", "running", "ok", "error"}]]
    /\ done \in [Attempts -> [Qualities -> {"empty", "ok", "error"}]]
    /\ late \subseteq Attempts \X Qualities /\ hurt \in [Attempts -> SUBSET Files]

LEMMA TypedParts ==
    /\ Typed <=> /\ input \in Inputs /\ faults \in 0..MaxFaults
                 /\ AttemptTyped /\ CommandTyped /\ AtTask
    /\ Typed => Shape
BY DEF Typed, TypeOK, AttemptTyped, CommandTyped, Shape

LEMMA TypedNext ==
    ASSUME Typed, UNCHANGED input, faults' \in 0..MaxFaults,
           AttemptTyped', CommandTyped', AtTask'
    PROVE  Typed'
BY DEF Typed, TypeOK, AttemptTyped, CommandTyped

LEMMA ScriptFacts ==
    ASSUME Typed
    PROVE  /\ DOMAIN Script = 1..Len(Script) /\ Len(Script) \in Nat
           /\ IsInjective(Script) /\ Ready(Script)
           /\ \A i \in DOMAIN Script : Script[i] \in Files
           /\ \A a \in Attempts : pc[a] \in {"probe", "wait"} \/ at[a] <= Len(Script) =>
                  at[a] \in DOMAIN Script /\ Task(a) \in Files
<1>1. Good(Script)
  BY ScriptGood DEF Script, Typed, TypeOK
<1>2. Script \in Seq(Files)
  BY <1>1 DEF Good
<1>3. DOMAIN Script = 1..Len(Script) /\ Len(Script) \in Nat /\ Script \in [1..Len(Script) -> Files]
  BY <1>2, LenProperties
<1>4. \A a \in Attempts : at[a] \in Nat \ {0}
  BY <1>3 DEF Typed, TypeOK
<1>5. \A a \in Attempts : at[a] <= Len(Script) => at[a] \in DOMAIN Script
  BY <1>3, <1>4
<1>6. \A i \in DOMAIN Script : Script[i] \in Files
  BY <1>3
<1> QED
  BY <1>1, <1>3, <1>5, <1>6 DEF Good, Typed, AtTask, Task

LEMMA InitTyped == Init => Typed
<1> SUFFICES ASSUME Init PROVE Typed
  OBVIOUS
<1>1. input \in Inputs /\ faults \in 0..MaxFaults
  BY EncoderAssumption DEF Init
<1>2. Len(Script) \in Nat
  BY <1>1, ScriptGood, LenProperties DEF Script, Good
<1>3. 1 \in 1..Len(Script) + 1
  BY <1>2
<1> QED
  BY <1>1, <1>3, TypedParts DEF Init, AttemptTyped, CommandTyped, AtTask

\* An attempt that goes on keeps its place in the script.
LEMMA AdvanceTyped ==
    ASSUME Typed, NEW a \in Attempts, at[a] \in DOMAIN Script,
           at' = [at EXCEPT ![a] = @ + 1]
    PROVE  at' \in [Attempts -> 1..Len(Script) + 1]
<1>1. at \in [Attempts -> 1..Len(Script) + 1]
  BY DEF Typed, TypeOK
<1>2. at[a] + 1 \in 1..Len(Script) + 1
  BY ScriptFacts
<1> QED
  BY <1>1, <1>2

LEMMA TaskErrsTyped ==
    ASSUME Typed, NEW a \in Attempts, pc[a] \in {"probe", "wait"}, TaskErrs(a),
           UNCHANGED input
    PROVE  AttemptTyped' /\ AtTask'
<1>1. /\ AttemptTyped /\ AtTask /\ Script' = Script /\ Task(a) \in Files
      /\ at[a] \in DOMAIN Script
  BY ScriptFacts, TypedParts DEF Typed, Script
<1>2. Len(Script) + 1 \in 1..Len(Script) + 1
  BY ScriptFacts
<1>3. CASE PassOver(a)
  <2>1. at' \in [Attempts -> 1..Len(Script) + 1]
    BY <1>1, <1>3, AdvanceTyped DEF PassOver, Advance
  <2>2. Watched(Task(a)) => Task(a) \in Qualities
    BY DEF Watched
  <2>3. failed' \in [Attempts -> SUBSET Qualities] /\ complete' \subseteq Qualities
    BY <1>1, <1>3, <2>2 DEF PassOver, AttemptTyped
  <2> QED
    BY <1>1, <1>3, <2>1, <2>3 DEF PassOver, Advance, AttemptTyped, AtTask
<1>4. CASE FailAttempt(a)
  BY <1>1, <1>4 DEF FailAttempt, AttemptTyped, AtTask
<1>5. CASE DropPreviews(a)
  BY <1>1, <1>2, <1>5 DEF DropPreviews, AttemptTyped, AtTask
<1> QED
  BY <1>3, <1>4, <1>5 DEF TaskErrs

LEMMA PaletteTyped ==
    ASSUME Typed, NEW a \in Attempts, RemovePalette(a)
    PROVE  /\ content' \in [Files -> {"absent", "part", "whole"}]
           /\ hurt' \in [Attempts -> SUBSET Files]
<1>1. CommandTyped /\ "palette" \in Files /\ "gif" \in Files
  BY TypedParts, FileKinds
<1>2. hurt' \in [Attempts -> SUBSET Files]
  BY <1>1 DEF RemovePalette, CommandTyped
<1> QED
  BY <1>1, <1>2 DEF RemovePalette, CommandTyped

LEMMA TakenTyped ==
    ASSUME Typed, NEW a \in Attempts, Taken(a)
    PROVE  /\ exit' \in [Attempts -> [Files -> {"none", "running", "ok", "error"}]]
           /\ done' \in [Attempts -> [Qualities -> {"empty", "ok", "error"}]]
<1>1. Shape
  BY TypedParts
<1> QED
  BY <1>1, ExitChanges, DoneChanges DEF Taken, Shape

LEMMA StartTyped ==
    ASSUME Typed, NEW a \in Attempts, at[a] \in DOMAIN Script, Start(a)
    PROVE  Typed'
<1>1. AttemptTyped /\ CommandTyped /\ AtTask /\ Script' = Script /\ Task(a) \in Files
  BY ScriptFacts, TypedParts DEF Typed, Script, Start, Task
<1>2. exit' \in [Attempts -> [Files -> {"none", "running", "ok", "error"}]]
  BY TypedParts, ExitChanges DEF Start
<1>3. hurt' \in [Attempts -> SUBSET Files]
  BY <1>1 DEF Start, Disturbed, CommandTyped
<1>4. content' \in [Files -> {"absent", "part", "whole"}]
  BY <1>1 DEF Start, CommandTyped
<1>5. CommandTyped'
  BY <1>1, <1>2, <1>3, <1>4 DEF Start, CommandTyped
<1>6. AttemptTyped' /\ AtTask'
  BY <1>1 DEF Start, AttemptTyped, AtTask
<1> QED
  BY <1>5, <1>6, TypedParts, TypedNext DEF Start

LEMMA TypedStep == Typed /\ [Next]_vars => Typed'
<1> SUFFICES ASSUME Typed, [Next]_vars PROVE Typed'
  OBVIOUS
<1>0. /\ AttemptTyped /\ CommandTyped /\ AtTask /\ input \in Inputs /\ faults \in 0..MaxFaults
  BY TypedParts
<1>1. ASSUME NEW a \in Attempts, SkipVariant(a) PROVE Typed'
  <2>1. at[a] \in DOMAIN Script /\ Task(a) \in Files /\ Script' = Script
    BY <1>1, ScriptFacts DEF SkipVariant, Script
  <2>2. at' \in [Attempts -> 1..Len(Script) + 1]
    BY <1>1, <2>1, AdvanceTyped DEF SkipVariant
  <2> QED
    BY <1>0, <1>1, <2>1, <2>2, TypedNext
       DEF SkipVariant, disk, command, AttemptTyped, CommandTyped, AtTask
<1>2. ASSUME NEW a \in Attempts, ProbeInput(a) PROVE Typed'
  <2>1. at[a] \in DOMAIN Script /\ Task(a) \in Files /\ Script' = Script
    BY <1>2, ScriptFacts DEF ProbeInput, Script
  <2>2. CommandTyped'
    BY <1>0, <1>2, <2>1 DEF ProbeInput, command, CommandTyped
  <2>3. AttemptTyped' /\ AtTask'
    BY <1>0, <1>2, <2>1 DEF ProbeInput, AttemptTyped, AtTask
  <2> QED
    BY <1>0, <1>2, <2>2, <2>3, TypedNext DEF ProbeInput
<1>3. ASSUME NEW a \in Attempts, StartCommand(a) PROVE Typed'
  BY <1>3, ScriptFacts, StartTyped DEF StartCommand
<1>4. ASSUME NEW a \in Attempts, TaskSucceeds(a) PROVE Typed'
  <2>1. /\ at[a] \in DOMAIN Script /\ Task(a) \in Files /\ Script' = Script
        /\ Watched(Task(a)) => Task(a) \in Qualities
    BY <1>4, ScriptFacts DEF TaskSucceeds, Script, Watched
  <2>2. at' \in [Attempts -> 1..Len(Script) + 1]
    BY <1>4, <2>1, AdvanceTyped DEF TaskSucceeds, Advance
  <2>3. known' \in [Attempts -> SUBSET Qualities] /\ complete' \subseteq Qualities
    BY <1>0, <1>4, <2>1 DEF TaskSucceeds, Save, AttemptTyped
  <2>4. listed' \in [Attempts -> SUBSET Files]
    BY <1>0, <1>4, <2>1 DEF TaskSucceeds, AttemptTyped
  <2>5. AttemptTyped' /\ AtTask'
    BY <1>0, <1>4, <2>1, <2>2, <2>3, <2>4 DEF TaskSucceeds, Advance, AttemptTyped, AtTask
  <2>6. /\ exit' \in [Attempts -> [Files -> {"none", "running", "ok", "error"}]]
        /\ done' \in [Attempts -> [Qualities -> {"empty", "ok", "error"}]]
    BY <1>0, <1>4, TakenTyped DEF TaskSucceeds, CommandTyped
  <2>7. CommandTyped'
    BY <1>0, <1>4, <2>6, PaletteTyped DEF TaskSucceeds, CommandTyped
  <2> QED
    BY <1>0, <1>4, <2>5, <2>7, TypedNext DEF TaskSucceeds
<1>5. ASSUME NEW a \in Attempts, TaskFails(a) PROVE Typed'
  <2>1. AttemptTyped' /\ AtTask'
    BY <1>5, TaskErrsTyped DEF TaskFails
  <2>2. CommandTyped'
    BY <1>0, <1>5, TakenTyped, PaletteTyped DEF TaskFails, CommandTyped
  <2> QED
    BY <1>0, <1>5, <2>1, <2>2, TypedNext DEF TaskFails
<1>6. ASSUME NEW a \in Attempts, TimesOut(a) PROVE Typed'
  <2>1. AttemptTyped' /\ AtTask'
    BY <1>6, TaskErrsTyped DEF TimesOut
  <2>2. done' \in [Attempts -> [Qualities -> {"empty", "ok", "error"}]]
    BY <1>6, TypedParts, DoneChanges DEF TimesOut
  <2>3. late' \subseteq Attempts \X Qualities
    BY <1>0, <1>6 DEF TimesOut, CommandTyped, Watched
  <2> QED
    BY <1>0, <1>6, <2>1, <2>2, <2>3, TypedNext DEF TimesOut, CommandTyped
<1>7. ASSUME NEW a \in Attempts, MasterPlaylist(a) \/ MasterFails(a) PROVE Typed'
  <2>1. at[a] \in DOMAIN Script /\ Script' = Script
    BY <1>7, ScriptFacts DEF MasterPlaylist, MasterFails, AtMaster, Script
  <2>2. at' \in [Attempts -> 1..Len(Script) + 1]
    <3>1. CASE at' = at
      BY <1>0, <3>1 DEF AttemptTyped
    <3>2. CASE Advance(a)
      BY <2>1, <3>2, AdvanceTyped DEF Advance
    <3> QED
      BY <1>7, <3>1, <3>2 DEF MasterPlaylist, MasterFails
  <2>3. pc' \in [Attempts -> {"idle", "run", "probe", "wait", "failed", "done"}]
        /\ \A b \in Attempts : pc'[b] \in {"probe", "wait"} => pc[b] = pc'[b] /\ at'[b] = at[b]
    BY <1>0, <1>7 DEF MasterPlaylist, MasterFails, AtMaster, Advance, AttemptTyped
  <2>4. known' \in [Attempts -> SUBSET Qualities] /\ complete' \subseteq Qualities
        /\ listed' \in [Attempts -> SUBSET Files]
    <3>1. known[a] \cup (listed[a] \cap Qualities) \subseteq Qualities
      BY <1>0 DEF AttemptTyped
    <3>2. listed[a] \cup {"master"} \subseteq Files
      BY <1>0, FileKinds DEF AttemptTyped
    <3>3. CASE MasterPlaylist(a)
      BY <1>0, <3>1, <3>2, <3>3 DEF MasterPlaylist, Save, AttemptTyped
    <3>4. CASE MasterFails(a)
      BY <1>0, <3>4 DEF MasterFails, AttemptTyped
    <3> QED
      BY <1>7, <3>3, <3>4
  <2>5. AttemptTyped' /\ AtTask'
    BY <1>0, <1>7, <2>1, <2>2, <2>3, <2>4 DEF MasterPlaylist, MasterFails, AttemptTyped, AtTask
  <2>6. CommandTyped'
    BY <1>0, <1>7, FileKinds DEF MasterPlaylist, MasterFails, command, CommandTyped
  <2> QED
    BY <1>0, <1>7, <2>5, <2>6, TypedNext DEF MasterPlaylist, MasterFails
<1>8. ASSUME NEW a \in Attempts, Finish(a) PROVE Typed'
  BY <1>0, <1>8, TypedNext
     DEF Finish, disk, command, AttemptTyped, CommandTyped, AtTask, Script
<1>9. ASSUME NEW a \in Attempts, Begin(a) PROVE Typed'
  <2>1. faults' \in 0..MaxFaults
    BY <1>0, <1>9, EncoderAssumption DEF Begin, Fault
  <2>2. Script' = Script
    BY <1>9 DEF Begin, Script
  <2>3. AttemptTyped' /\ AtTask'
    BY <1>0, <1>9, <2>2 DEF Begin, disk, AttemptTyped, AtTask
  <2> QED
    BY <1>0, <1>9, <2>1, <2>3, TypedNext DEF Begin, disk, command, CommandTyped
<1>10. ASSUME NEW a \in Attempts, ProbeEnds(a) PROVE Typed'
  BY <1>10, ScriptFacts, StartTyped DEF ProbeEnds
<1>11. ASSUME NEW a \in Attempts, ProbeFails(a) PROVE Typed'
  <2>1. AttemptTyped' /\ AtTask'
    BY <1>11, TaskErrsTyped DEF ProbeFails
  <2> QED
    BY <1>0, <1>11, <2>1, TypedNext DEF ProbeFails, command, CommandTyped
<1>12. ASSUME NEW a \in Attempts, NEW f \in Files, Exits(a, f) PROVE Typed'
  <2>1. exit' \in [Attempts -> [Files -> {"none", "running", "ok", "error"}]]
    BY <1>12, TypedParts, ExitChanges DEF Exits
  <2>2. /\ content' \in [Files -> {"absent", "part", "whole"}]
        /\ hurt' \in [Attempts -> SUBSET Files]
    BY <1>0, <1>12 DEF Exits, CommandTyped
  <2>3. CommandTyped'
    BY <1>0, <1>12, <2>1, <2>2 DEF Exits, CommandTyped
  <2> QED
    BY <1>0, <1>12, <2>3, TypedNext DEF Exits, attempt, AttemptTyped, AtTask, Script
<1>13. ASSUME NEW a \in Attempts, NEW q \in Qualities, FnReturns(a, q) PROVE Typed'
  <2>1. exit' \in [Attempts -> [Files -> {"none", "running", "ok", "error"}]]
    BY <1>13, TypedParts, ExitChanges DEF FnReturns
  <2>2. exit[a][q] \in {"ok", "error"}
    BY <1>0, <1>13, FileKinds DEF FnReturns, Inside, Running, CommandTyped
  <2>3. done' \in [Attempts -> [Qualities -> {"empty", "ok", "error"}]]
    <3>1. CASE <<a, q>> \in late
      BY <1>0, <1>13, <3>1 DEF FnReturns, CommandTyped
    <3>2. CASE <<a, q>> \notin late
      <4>1. done' = [done EXCEPT ![a][q] = exit[a][q]] /\ exit[a][q] \in {"empty", "ok", "error"}
        BY <1>13, <2>2, <3>2 DEF FnReturns
      <4> QED
        BY <4>1, TypedParts, DoneChanges
    <3> QED
      BY <3>1, <3>2
  <2>4. CommandTyped'
    BY <1>0, <1>13, <2>1, <2>3 DEF FnReturns, disk, CommandTyped
  <2> QED
    BY <1>0, <1>13, <2>4, TypedNext DEF FnReturns, disk, attempt, AttemptTyped, AtTask, Script
<1>14. CASE RemoveFiles
  <2>1. faults' \in 0..MaxFaults
    BY <1>0, <1>14, EncoderAssumption DEF RemoveFiles, Fault
  <2>2. CommandTyped'
    BY <1>0, <1>14 DEF RemoveFiles, CommandTyped
  <2>3. AttemptTyped' /\ AtTask'
    BY <1>0, <1>14 DEF RemoveFiles, attempt, AttemptTyped, AtTask, Script
  <2> QED
    BY <1>0, <1>14, <2>1, <2>2, <2>3, TypedNext DEF RemoveFiles
<1>15. CASE UNCHANGED vars
  BY <1>0, <1>15, TypedNext
     DEF vars, disk, attempt, command, AttemptTyped, CommandTyped, AtTask, Script
<1> QED
  BY <1>1, <1>2, <1>3, <1>4, <1>5, <1>6, <1>7, <1>8, <1>9, <1>10, <1>11, <1>12,
     <1>13, <1>14, <1>15 DEF Next, Step

\* Whatever the inputs, the ladder and the number of attempts, each variable
\* has its type: no attempt looks for a task beyond the end of its script.
THEOREM TypeCorrect == Spec => []TypeOK
<1>1. Typed => TypeOK
  BY DEF Typed
<1> QED
  BY <1>1, InitTyped, TypedStep, PTL DEF Spec

-----------------------------------------------------------------------------
(* Why what an attempt lists is whole.                                     *)

\* Nobody has removed a file, no attempt began beside another, and no command
\* that writes f was given up.
Calm(f) == faults = 0 /\ \A b \in Attempts : <<b, f>> \notin late

\* Attempts come one after another, and the state says what the one at work knows.
Alone ==
    faults = 0 =>
        \A a \in Attempts : Busy(a) =>
            complete = known[a] /\ \A b \in Attempts : Busy(b) => b = a

NotBegun == \A a \in Attempts : pc[a] = "idle" => at[a] = 1 /\ listed[a] = {}

\* A process that was not given up is the one its attempt waits for.
Owned ==
    \A a \in Attempts, f \in Files :
        exit[a][f] # "none" /\ <<a, f>> \notin late => pc[a] = "wait" /\ Task(a) = f

HurtRuns == \A a \in Attempts : \A f \in hurt[a] : Running(a, f)

\* A command at peace does its work, and so the file is whole when it has ended.
WrittenWell ==
    \A a \in Attempts, f \in Files : Calm(f) =>
        /\ Running(a, f) => f \notin hurt[a] /\ content[f] # "absent"
        /\ exit[a][f] = "ok" => content[f] = "whole"
        /\ pc[a] = "wait" /\ Task(a) = f /\ Watched(f) /\ done[a][f] = "ok"
              => content[f] = "whole"

\* What a command still to come reads is whole, or to be written before it.
SourcesReady ==
    faults = 0 =>
        \A a \in Attempts : Busy(a) =>
            \A i \in DOMAIN Script : i >= at[a] =>
                \A g \in Source(Script[i]) :
                    content[g] = "whole" \/ \E j \in at[a]..i-1 : Script[j] = g

\* What is listed will not be written again.
ListedDone ==
    \A a \in Attempts : Busy(a) =>
        \A f \in listed[a] :
            /\ f \notin {"raw", "processed", "palette"}
            /\ \A i \in DOMAIN Script : i >= at[a] => Script[i] # f
            /\ Calm(f) => content[f] = "whole" \/ Unchecked(f)

CompleteWhole == \A q \in complete : Calm(q) /\ Watched(q) => content[q] = "whole"

Whole ==
    /\ Typed /\ InTime /\ Alone /\ NotBegun /\ Owned /\ HurtRuns
    /\ WrittenWell /\ SourcesReady /\ ListedDone /\ CompleteWhole

\* A step of an attempt that has begun.
Acts(a) == Step(a) \/ ProbeEnds(a) \/ ProbeFails(a)

LEMMA BusyIs ==
    ASSUME Typed, NEW a \in Attempts
    PROVE  Busy(a) <=> pc[a] \in {"run", "probe", "wait"}
BY DEF Typed, TypeOK, Busy, Ended

LEMMA InitWhole == Init => Whole
<1> SUFFICES ASSUME Init PROVE Whole
  OBVIOUS
<1>1. Typed /\ InTime
  BY InitTyped, InitInTime
<1>2. /\ \A a \in Attempts : pc[a] = "idle" /\ at[a] = 1 /\ listed[a] = {} /\ hurt[a] = {}
      /\ \A a \in Attempts, f \in Files : exit[a][f] = "none"
      /\ complete = {}
  BY DEF Init
<1>3. \A a \in Attempts : ~Busy(a)
  BY <1>2 DEF Busy
<1> QED
  BY <1>1, <1>2, <1>3
     DEF Whole, Alone, NotBegun, Owned, HurtRuns, WrittenWell, SourcesReady, ListedDone,
         CompleteWhole, Running

\* What no step does: change the input, forget a fault or a command given up.
LEMMA Frame ==
    ASSUME Typed, [Next]_vars
    PROVE  /\ UNCHANGED input /\ Script' = Script
           /\ \A f : Watched(f)' <=> Watched(f)
           /\ faults' = 0 => faults = 0
           /\ late \subseteq late'
           /\ \A f : Calm(f)' => Calm(f)
<1>1. faults \in Nat
  BY EncoderAssumption DEF Typed, TypeOK
<1>2. UNCHANGED input /\ (faults' = 0 => faults = 0) /\ late \subseteq late'
  <2>1. ASSUME NEW a \in Attempts, Begin(a)
        PROVE  UNCHANGED input /\ (faults' = 0 => faults = 0) /\ late \subseteq late'
    BY <1>1, <2>1 DEF Begin, Fault, command
  <2>2. ASSUME NEW a \in Attempts, Step(a)
        PROVE  UNCHANGED input /\ (faults' = 0 => faults = 0) /\ late \subseteq late'
    BY <2>2 DEF Step, SkipVariant, ProbeInput, StartCommand, Start, TaskSucceeds, TaskFails,
                TimesOut, MasterFails, MasterPlaylist, Finish, command
  <2>3. ASSUME NEW a \in Attempts, ProbeEnds(a) \/ ProbeFails(a)
        PROVE  UNCHANGED input /\ (faults' = 0 => faults = 0) /\ late \subseteq late'
    BY <2>3 DEF ProbeEnds, ProbeFails, Start, command
  <2>4. ASSUME NEW a \in Attempts, NEW f, Exits(a, f) \/ FnReturns(a, f)
        PROVE  UNCHANGED input /\ (faults' = 0 => faults = 0) /\ late \subseteq late'
    BY <2>4 DEF Exits, FnReturns
  <2>5. CASE RemoveFiles \/ UNCHANGED vars
    BY <1>1, <2>5 DEF RemoveFiles, Fault, vars, command
  <2> QED
    BY <2>1, <2>2, <2>3, <2>4, <2>5 DEF Next
<1> QED
  BY <1>2 DEF Script, Watched, Calm

\* What a step of an attempt leaves alone.
LEMMA ActsAlone ==
    ASSUME Typed, Typed', NEW a \in Attempts, Acts(a)
    PROVE  /\ pc[a] \in {"run", "probe", "wait"}
           /\ pc'[a] \in {"run", "probe", "wait", "failed", "done"}
           /\ faults' = faults
           /\ \A b \in Attempts \ {a} :
                 /\ pc'[b] = pc[b] /\ at'[b] = at[b] /\ known'[b] = known[b]
                 /\ listed'[b] = listed[b] /\ exit'[b] = exit[b]
<1>1. AttemptTyped /\ CommandTyped /\ Shape
  BY TypedParts
<1>2. pc[a] \in {"run", "probe", "wait"}
  BY DEF Acts, Step, SkipVariant, ProbeInput, StartCommand, TaskSucceeds, TaskFails,
         TimesOut, MasterFails, MasterPlaylist, AtMaster, Finish, ProbeEnds, ProbeFails
<1>3. ASSUME TaskErrs(a)
      PROVE  /\ pc'[a] \in {"run", "failed"}
             /\ \A b \in Attempts \ {a} :
                   /\ pc'[b] = pc[b] /\ at'[b] = at[b] /\ known'[b] = known[b]
                   /\ listed'[b] = listed[b]
  BY <1>1, <1>3 DEF TaskErrs, PassOver, FailAttempt, DropPreviews, Advance, AttemptTyped
<1>4. ASSUME Start(a)
      PROVE  /\ pc'[a] = "wait" /\ faults' = faults
             /\ \A b \in Attempts \ {a} :
                   /\ pc'[b] = pc[b] /\ at'[b] = at[b] /\ known'[b] = known[b]
                   /\ listed'[b] = listed[b] /\ exit'[b] = exit[b]
  BY <1>1, <1>4 DEF Start, AttemptTyped, CommandTyped
<1>5. CASE SkipVariant(a)
  BY <1>1, <1>2, <1>5 DEF SkipVariant, command, AttemptTyped
<1>6. CASE ProbeInput(a)
  BY <1>1, <1>2, <1>6 DEF ProbeInput, command, AttemptTyped
<1>7. CASE StartCommand(a) \/ ProbeEnds(a)
  BY <1>2, <1>4, <1>7 DEF StartCommand, ProbeEnds
<1>8. CASE TaskSucceeds(a)
  BY <1>1, <1>2, <1>8 DEF TaskSucceeds, Advance, Save, Taken, AttemptTyped, CommandTyped
<1>9. CASE TaskFails(a) \/ TimesOut(a) \/ ProbeFails(a)
  <2>1. TaskErrs(a) /\ faults' = faults
    BY <1>9 DEF TaskFails, TimesOut, ProbeFails
  <2>2. \A b \in Attempts \ {a} : exit'[b] = exit[b]
    BY <1>1, <1>9 DEF TaskFails, TimesOut, ProbeFails, Taken, command, CommandTyped
  <2> QED
    BY <1>2, <1>3, <2>1, <2>2
<1>10. CASE MasterPlaylist(a) \/ MasterFails(a)
  BY <1>1, <1>2, <1>10 DEF MasterPlaylist, MasterFails, Advance, Save, command, AttemptTyped
<1>11. CASE Finish(a)
  BY <1>1, <1>2, <1>11 DEF Finish, disk, command, AttemptTyped
<1> QED
  BY <1>5, <1>6, <1>7, <1>8, <1>9, <1>10, <1>11 DEF Acts, Step

LEMMA Kinds ==
    [Next]_vars <=> \/ \E a \in Attempts : Begin(a) \/ Acts(a)
                    \/ \E a \in Attempts, f \in Files : Exits(a, f)
                    \/ \E a \in Attempts, q \in Qualities : FnReturns(a, q)
                    \/ RemoveFiles \/ UNCHANGED vars
BY DEF Next, Acts

LEMMA AloneKept == Whole /\ Typed' /\ [Next]_vars => Alone'
<1> SUFFICES ASSUME Whole, Typed', [Next]_vars, faults' = 0, NEW a \in Attempts, Busy(a)'
             PROVE  (complete' = known'[a]) /\ \A b \in Attempts : Busy(b)' => b = a
  BY DEF Alone
<1>1. /\ AttemptTyped /\ CommandTyped /\ faults = 0 /\ faults \in Nat
      /\ \A b \in Attempts : Busy(b) =>
             complete = known[b] /\ \A c \in Attempts : Busy(c) => c = b
  BY TypedParts, Frame, EncoderAssumption DEF Whole, Alone
<1>2. ASSUME NEW b \in Attempts, Begin(b)
      PROVE  (complete' = known'[a]) /\ \A c \in Attempts : Busy(c)' => c = a
  <2>1. \A c \in Attempts : ~Busy(c)
    BY <1>1, <1>2 DEF Begin, Fault
  <2>2. \A c \in Attempts \ {b} : ~Busy(c)'
    BY <1>1, <1>2, <2>1 DEF Begin, Busy, Ended, AttemptTyped
  <2>3. known'[b] = complete'
    BY <1>1, <1>2 DEF Begin, disk, AttemptTyped
  <2> QED
    BY <2>2, <2>3
<1>3. ASSUME NEW b \in Attempts, Acts(b)
      PROVE  (complete' = known'[a]) /\ \A c \in Attempts : Busy(c)' => c = a
  <2>1. Busy(b) /\ complete = known[b] /\ \A c \in Attempts : Busy(c) => c = b
    BY <1>1, <1>3, BusyIs, ActsAlone DEF Whole
  <2>2. \A c \in Attempts : Busy(c)' => c = b
    BY <1>3, <2>1, ActsAlone DEF Busy, Ended, Whole
  <2>3. complete' = known'[b]
    <3>1. CASE TaskErrs(b)
      BY <1>1, <2>1, <3>1 DEF TaskErrs, PassOver, FailAttempt, DropPreviews
    <3>2. CASE SkipVariant(b) \/ ProbeInput(b) \/ Start(b) \/ Finish(b)
      BY <2>1, <3>2 DEF SkipVariant, ProbeInput, Start, Finish, disk
    <3>3. CASE TaskSucceeds(b)
      BY <1>1, <2>1, <3>3 DEF TaskSucceeds, Save, AttemptTyped
    <3>4. CASE MasterPlaylist(b) \/ MasterFails(b)
      BY <1>1, <2>1, <3>4 DEF MasterPlaylist, MasterFails, Save, AttemptTyped
    <3> QED
      BY <1>3, <3>1, <3>2, <3>3, <3>4
         DEF Acts, Step, StartCommand, ProbeEnds, ProbeFails, TaskFails, TimesOut
  <2> QED
    BY <2>2, <2>3
<1>4. ASSUME UNCHANGED <<complete, attempt>>
      PROVE  (complete' = known'[a]) /\ \A c \in Attempts : Busy(c)' => c = a
  BY <1>1, <1>4 DEF attempt, Busy, Ended
<1>5. ASSUME NEW b \in Attempts, NEW f, Exits(b, f) \/ FnReturns(b, f)
      PROVE  UNCHANGED <<complete, attempt>>
  BY <1>5 DEF Exits, FnReturns, disk
<1>6. CASE RemoveFiles
  BY <1>1, <1>6 DEF RemoveFiles, Fault
<1>7. CASE UNCHANGED vars
  BY <1>4, <1>7 DEF vars, disk
<1> QED
  BY <1>2, <1>3, <1>4, <1>5, <1>6, <1>7, Kinds

LEMMA NotBegunKept == Whole /\ Typed' /\ [Next]_vars => NotBegun'
<1> SUFFICES ASSUME Whole, Typed', [Next]_vars, NEW a \in Attempts, pc'[a] = "idle"
             PROVE  at'[a] = 1 /\ listed'[a] = {}
  BY DEF NotBegun
<1>1. AttemptTyped /\ Typed /\ (pc[a] = "idle" => at[a] = 1 /\ listed[a] = {})
  BY TypedParts DEF Whole, NotBegun
<1>2. ASSUME NEW b \in Attempts, Begin(b)
      PROVE  at'[a] = 1 /\ listed'[a] = {}
  BY <1>1, <1>2 DEF Begin, AttemptTyped
<1>3. ASSUME NEW b \in Attempts, Acts(b)
      PROVE  at'[a] = 1 /\ listed'[a] = {}
  BY <1>1, <1>3, ActsAlone
<1>4. ASSUME UNCHANGED attempt
      PROVE  at'[a] = 1 /\ listed'[a] = {}
  BY <1>1, <1>4 DEF attempt
<1>5. ASSUME NEW b \in Attempts, NEW f, Exits(b, f) \/ FnReturns(b, f)
      PROVE  UNCHANGED attempt
  BY <1>5 DEF Exits, FnReturns
<1> QED
  BY <1>2, <1>3, <1>4, <1>5, Kinds DEF RemoveFiles, vars

\* When the result of a command is taken, its process is gone.
LEMMA TakenGone ==
    ASSUME Whole, NEW a \in Attempts, TaskSucceeds(a) \/ TaskFails(a)
    PROVE  /\ pc[a] = "wait" /\ Task(a) \in Files /\ ~Running(a, Task(a))
           /\ exit'[a][Task(a)] = "none"
           /\ \A f \in Files \ {Task(a)} : exit'[a][f] = exit[a][f]
           /\ \A b \in Attempts \ {a} : exit'[b] = exit[b]
           /\ UNCHANGED late
<1>1. Typed /\ Shape /\ pc[a] = "wait" /\ Task(a) \in Files /\ UNCHANGED late
  BY TypedParts, ScriptFacts DEF Whole, TaskSucceeds, TaskFails
<1>2. CASE Watched(Task(a))
  <2>1. Outcome(a) # "empty"
    BY DEF TaskSucceeds, TaskFails
  <2>2. exit[a][Task(a)] = "none"
    BY <1>1, <1>2, <2>1 DEF Whole, InTime, ReceivedAfterExit, Outcome
  <2>3. exit' = exit
    BY <1>2 DEF TaskSucceeds, TaskFails, Taken
  <2> QED
    BY <1>1, <2>2, <2>3 DEF Running
<1>3. CASE ~Watched(Task(a))
  <2>1. exit[a][Task(a)] \in {"ok", "error"}
    BY <1>3 DEF TaskSucceeds, TaskFails, Outcome
  <2>2. exit' = [exit EXCEPT ![a][Task(a)] = "none"]
    BY <1>3 DEF TaskSucceeds, TaskFails, Taken
  <2> QED
    BY <1>1, <2>1, <2>2, ExitChanges DEF Running
<1> QED
  BY <1>2, <1>3

\* What a command that starts does to the processes.
LEMMA StartFacts ==
    ASSUME Typed, NEW a \in Attempts, Start(a), StartCommand(a) \/ ProbeEnds(a)
    PROVE  /\ pc[a] \in {"run", "probe"} /\ pc' = [pc EXCEPT ![a] = "wait"] /\ pc'[a] = "wait"
           /\ Task(a) \in Files /\ at[a] \in DOMAIN Script
           /\ exit'[a][Task(a)] = "running"
           /\ \A f \in Files \ {Task(a)} : exit'[a][f] = exit[a][f]
           /\ \A b \in Attempts \ {a} : exit'[b] = exit[b]
           /\ content' = [content EXCEPT ![Task(a)] = "part"]
           /\ UNCHANGED <<input, complete, faults, at, known, listed, done, late>>
           /\ \A b \in Attempts : Task(b)' = Task(b)
<1>1. pc[a] \in {"run", "probe"} /\ Task(a) \in Files /\ at[a] \in DOMAIN Script
  BY ScriptFacts DEF StartCommand, ProbeEnds
<1>2. exit' = [exit EXCEPT ![a][Task(a)] = "running"] /\ Shape
  BY TypedParts DEF Start
<1>3. pc'[a] = "wait"
  BY <1>2 DEF Start, Shape
<1>4. /\ exit'[a][Task(a)] = "running"
      /\ \A f \in Files \ {Task(a)} : exit'[a][f] = exit[a][f]
      /\ \A b \in Attempts \ {a} : exit'[b] = exit[b]
  BY <1>1, <1>2, ExitChanges
<1>5. UNCHANGED <<input, at>>
  BY DEF Start
<1>6. \A b \in Attempts : Task(b)' = Task(b)
  BY <1>5 DEF Task, Script
<1> QED
  BY <1>1, <1>3, <1>4, <1>6 DEF Start

LEMMA OwnedKept == Whole /\ Typed' /\ [Next]_vars => Owned'
<1> SUFFICES ASSUME Whole, Typed', [Next]_vars, NEW a \in Attempts, NEW f \in Files,
                    exit'[a][f] # "none", <<a, f>> \notin late'
             PROVE  pc'[a] = "wait" /\ Task(a)' = f
  BY DEF Owned
<1>1. /\ Typed /\ AttemptTyped /\ Script' = Script /\ <<a, f>> \notin late
      /\ exit[a][f] # "none" => pc[a] = "wait" /\ Task(a) = f
  BY TypedParts, Frame DEF Whole, Owned
<1>2. ASSUME pc'[a] = pc[a], at'[a] = at[a], exit'[a][f] # "none" => exit[a][f] # "none"
      PROVE  pc'[a] = "wait" /\ Task(a)' = f
  BY <1>1, <1>2 DEF Task
<1>3. ASSUME NEW b \in Attempts, Begin(b)
      PROVE  pc'[a] = "wait" /\ Task(a)' = f
  BY <1>1, <1>2, <1>3 DEF Begin, command, AttemptTyped
<1>4. ASSUME NEW b \in Attempts, Acts(b)
      PROVE  pc'[a] = "wait" /\ Task(a)' = f
  <2>1. CASE b # a
    BY <1>2, <1>4, <2>1, ActsAlone DEF Whole
  <2>2. CASE b = a /\ (TaskSucceeds(a) \/ TaskFails(a))
    BY <1>1, <2>2, TakenGone
  <2>3. CASE b = a /\ TimesOut(a)
    BY <1>1, <2>3 DEF TimesOut
  <2>4. CASE b = a /\ (StartCommand(a) \/ ProbeEnds(a))
    <3>1. Start(a)
      BY <2>4 DEF StartCommand, ProbeEnds
    <3> QED
      BY <1>1, <2>4, <3>1, StartFacts
  <2>5. CASE b = a /\ (\/ SkipVariant(a) \/ ProbeInput(a) \/ MasterPlaylist(a) \/ MasterFails(a)
                       \/ Finish(a) \/ ProbeFails(a))
    <3>1. pc[a] # "wait" /\ exit' = exit
      BY <2>5
         DEF SkipVariant, ProbeInput, MasterPlaylist, MasterFails, AtMaster, Finish, ProbeFails,
             command
    <3> QED
      BY <1>1, <3>1
  <2> QED
    BY <1>4, <2>1, <2>2, <2>3, <2>4, <2>5 DEF Acts, Step
<1>5. ASSUME NEW b \in Attempts, NEW g \in Files, Exits(b, g)
      PROVE  pc'[a] = "wait" /\ Task(a)' = f
  <2>1. UNCHANGED <<pc, at>> /\ exit[b][g] # "none"
    BY <1>5 DEF Exits, attempt, Running
  <2>2. b # a \/ g # f => exit'[a][f] = exit[a][f]
    BY <1>5, TypedParts, ExitChanges DEF Exits, Whole
  <2> QED
    BY <1>1, <1>2, <2>1, <2>2
<1>6. ASSUME NEW b \in Attempts, NEW q \in Qualities, FnReturns(b, q)
      PROVE  pc'[a] = "wait" /\ Task(a)' = f
  <2>1. UNCHANGED <<pc, at>> /\ exit' = [exit EXCEPT ![b][q] = "none"]
    BY <1>6 DEF FnReturns, attempt
  <2>2. exit'[a][f] = exit[a][f] \/ exit'[a][f] = "none"
    BY <2>1, TypedParts, ExitChanges DEF Whole
  <2> QED
    BY <1>2, <2>1, <2>2
<1>7. CASE RemoveFiles \/ UNCHANGED vars
  BY <1>2, <1>7 DEF RemoveFiles, vars, attempt, command
<1> QED
  BY <1>3, <1>4, <1>5, <1>6, <1>7, Kinds

LEMMA HurtRunsKept == Whole /\ Typed' /\ [Next]_vars => HurtRuns'
<1> SUFFICES ASSUME Whole, Typed', [Next]_vars, NEW a \in Attempts, NEW f \in hurt'[a]
             PROVE  exit'[a][f] = "running"
  BY DEF HurtRuns, Running
<1>1. /\ Typed /\ CommandTyped /\ f \in Files
      /\ f \in hurt[a] => exit[a][f] = "running"
  BY TypedParts DEF Whole, HurtRuns, Running, Typed, TypeOK
<1>2. ASSUME UNCHANGED <<exit, hurt>>
      PROVE  exit'[a][f] = "running"
  BY <1>1, <1>2
<1>3. ASSUME NEW b \in Attempts, Begin(b)
      PROVE  exit'[a][f] = "running"
  BY <1>2, <1>3 DEF Begin, command
<1>4. ASSUME NEW b \in Attempts, Acts(b)
      PROVE  exit'[a][f] = "running"
  <2>1. CASE TaskSucceeds(b) \/ TaskFails(b)
    <3>1. f \in hurt[a] \/ Running(a, f)
      BY <1>1, <2>1 DEF TaskSucceeds, TaskFails, RemovePalette
    <3> QED
      BY <1>1, <2>1, <3>1, TakenGone DEF Running
  <2>2. CASE StartCommand(b) \/ ProbeEnds(b)
    <3>1. Start(b)
      BY <2>2 DEF StartCommand, ProbeEnds
    <3>2. f \in hurt[a] \/ Running(a, f) \/ (a = b /\ f = Task(b))
      BY <3>1 DEF Start, Disturbed
    <3> QED
      BY <1>1, <2>2, <3>1, <3>2, StartFacts DEF Running
  <2>3. CASE \/ SkipVariant(b) \/ ProbeInput(b) \/ MasterPlaylist(b) \/ MasterFails(b)
             \/ Finish(b) \/ ProbeFails(b) \/ TimesOut(b)
    BY <1>2, <2>3 DEF SkipVariant, ProbeInput, MasterPlaylist, MasterFails, Finish, ProbeFails,
                      TimesOut, command
  <2> QED
    BY <1>4, <2>1, <2>2, <2>3 DEF Acts, Step
<1>5. ASSUME NEW b \in Attempts, NEW g \in Files, Exits(b, g)
      PROVE  exit'[a][f] = "running"
  <2>1. f \in hurt[a] /\ (b # a \/ g # f)
    BY <1>1, <1>5 DEF Exits, CommandTyped
  <2>2. exit'[a][f] = exit[a][f]
    BY <1>1, <1>5, <2>1, TypedParts, ExitChanges DEF Exits
  <2> QED
    BY <1>1, <2>1, <2>2
<1>6. ASSUME NEW b \in Attempts, NEW q \in Qualities, FnReturns(b, q)
      PROVE  exit'[a][f] = "running"
  <2>1. f \in hurt[a] /\ exit' = [exit EXCEPT ![b][q] = "none"] /\ exit[b][q] # "running"
    BY <1>6 DEF FnReturns, Running
  <2>2. b # a \/ q # f
    BY <1>1, <2>1
  <2>3. exit'[a][f] = exit[a][f]
    BY <1>1, <2>1, <2>2, TypedParts, ExitChanges
  <2> QED
    BY <1>1, <2>1, <2>3
<1>7. CASE RemoveFiles
  <2>1. exit' = exit /\ Running(a, f)
    BY <1>7 DEF RemoveFiles
  <2> QED
    BY <2>1 DEF Running
<1>8. CASE UNCHANGED vars
  BY <1>2, <1>8 DEF vars, command
<1> QED
  BY <1>3, <1>4, <1>5, <1>6, <1>7, <1>8, Kinds

\* A process at peace belongs to the one attempt at work.
LEMMA CleanRuns ==
    ASSUME Whole, NEW a \in Attempts, Busy(a), NEW b \in Attempts, NEW f \in Files,
           exit[b][f] # "none", Calm(f)
    PROVE  b = a /\ pc[a] = "wait" /\ Task(a) = f
<1>1. pc[b] = "wait" /\ Task(b) = f
  BY DEF Whole, Owned, Calm
<1>2. Busy(b)
  BY <1>1 DEF Busy, Ended
<1> QED
  BY <1>1, <1>2 DEF Whole, Alone, Calm

\* A wait begins with a command, and then only processes go on, unless a
\* fault happens.
LEMMA WaitSteps ==
    ASSUME Whole, Alone', Typed', [Next]_vars, NEW a \in Attempts, pc'[a] = "wait",
           faults' = 0
    PROVE  \/ StartCommand(a) \/ ProbeEnds(a)
           \/ /\ UNCHANGED <<pc, at, complete, known, listed>>
              /\ \/ \E b \in Attempts, f \in Files : Exits(b, f)
                 \/ \E b \in Attempts, q \in Qualities : FnReturns(b, q)
                 \/ UNCHANGED vars
<1>1. AttemptTyped /\ Typed /\ faults = 0 /\ faults \in Nat /\ Busy(a)'
  BY TypedParts, Frame, EncoderAssumption DEF Whole, Busy, Ended
<1>2. ASSUME NEW b \in Attempts, Begin(b)
      PROVE  FALSE
  <2>1. a # b /\ pc[a] = "wait"
    BY <1>1, <1>2 DEF Begin, AttemptTyped
  <2> QED
    BY <1>1, <1>2, <2>1 DEF Begin, Fault, Busy, Ended
<1>3. ASSUME NEW b \in Attempts, Acts(b)
      PROVE  StartCommand(a) \/ ProbeEnds(a)
  <2>1. b = a
    BY <1>1, <1>3, ActsAlone, BusyIs DEF Whole, Alone
  <2>2. TaskErrs(a) => pc'[a] # "wait"
    BY <1>1 DEF TaskErrs, PassOver, FailAttempt, DropPreviews, Advance, AttemptTyped
  <2>3. ~(TaskFails(a) \/ TimesOut(a) \/ ProbeFails(a))
    BY <2>2 DEF TaskFails, TimesOut, ProbeFails
  <2>4. ~TaskSucceeds(a)
    BY <1>1 DEF TaskSucceeds, Advance, AttemptTyped
  <2>5. ~(SkipVariant(a) \/ ProbeInput(a) \/ MasterPlaylist(a) \/ MasterFails(a) \/ Finish(a))
    BY <1>1 DEF SkipVariant, ProbeInput, MasterPlaylist, MasterFails, AtMaster, Finish, Advance,
                AttemptTyped
  <2> QED
    BY <1>3, <2>1, <2>3, <2>4, <2>5 DEF Acts, Step
<1>4. ASSUME NEW b \in Attempts, NEW f, Exits(b, f) \/ FnReturns(b, f)
      PROVE  UNCHANGED <<pc, at, complete, known, listed>>
  BY <1>4 DEF Exits, FnReturns, attempt, disk
<1>5. ~RemoveFiles
  BY <1>1 DEF RemoveFiles, Fault
<1>6. UNCHANGED vars => UNCHANGED <<pc, at, complete, known, listed>>
  BY DEF vars, disk, attempt
<1> QED
  BY <1>2, <1>3, <1>4, <1>5, <1>6, Kinds

\* A command that starts at peace is not disturbed: nobody writes its file,
\* and what it reads is whole.
LEMMA StartsWell ==
    ASSUME Whole, NEW a \in Attempts, Start(a), StartCommand(a) \/ ProbeEnds(a), Calm(Task(a))
    PROVE  Task(a) \notin hurt'[a]
<1> DEFINE f == Task(a)
<1>1. /\ Typed /\ pc[a] \in {"run", "probe"} /\ f \in Files /\ at[a] \in DOMAIN Script
      /\ faults = 0 /\ Busy(a)
  BY StartFacts DEF Whole, Calm, Busy, Ended
<1>2. \A b \in Attempts : exit[b][f] = "none"
  BY <1>1, CleanRuns
<1>3. ~Elsewhere(a, f) /\ ~Running(a, f)
  BY <1>2 DEF Elsewhere, Running
<1>4. \A g \in Source(f) : content[g] = "whole"
  <2>1. at[a] \in Nat
    BY <1>1, ScriptFacts
  <2>2. at[a]..at[a] - 1 = {} /\ at[a] >= at[a]
    BY <2>1
  <2> QED
    BY <1>1, <2>2 DEF Whole, SourcesReady, Task
<1>5. f \notin hurt[a]
  BY <1>3 DEF Whole, HurtRuns
<1>6. hurt'[a] = Disturbed(a, f)[a]
  BY DEF Start
<1> HIDE DEF f
<1> QED
  BY <1>3, <1>4, <1>5, <1>6 DEF Disturbed, f

LEMMA WrittenWellKept ==
    Whole /\ Typed' /\ InTime' /\ Alone' /\ Owned' /\ [Next]_vars => WrittenWell'
<1> SUFFICES ASSUME Whole, Typed', InTime', Alone', Owned', [Next]_vars
             PROVE  WrittenWell'
  OBVIOUS
<1> SUFFICES ASSUME NEW a \in Attempts, NEW f \in Files, Calm(f)'
             PROVE  /\ exit'[a][f] = "running" => f \notin hurt'[a] /\ content'[f] # "absent"
                    /\ exit'[a][f] = "ok" => content'[f] = "whole"
                    /\ pc'[a] = "wait" /\ Task(a)' = f /\ Watched(f) /\ done'[a][f] = "ok"
                         => content'[f] = "whole"
  <2>1. UNCHANGED input
    BY Frame DEF Whole
  <2>2. \A g : Watched(g)' <=> Watched(g)
    BY <2>1 DEF Watched
  <2> QED
    BY <2>2 DEF WrittenWell, Running
<1>1. /\ Typed /\ CommandTyped /\ Shape /\ Calm(f) /\ faults' = 0 /\ Script' = Script
      /\ UNCHANGED input
  BY TypedParts, Frame DEF Whole, Calm
<1>2. CASE pc'[a] # "wait" \/ Task(a)' # f
  <2>1. exit'[a][f] = "none"
    BY <1>2 DEF Owned, Calm
  <2> QED
    BY <1>2, <2>1
<1>3. CASE pc'[a] = "wait" /\ Task(a)' = f
  <2>1. CASE StartCommand(a) \/ ProbeEnds(a)
    <3>1. Start(a)
      BY <2>1 DEF StartCommand, ProbeEnds
    <3>2. Task(a) = f
      BY <1>1, <1>3, <2>1, <3>1, StartFacts
    <3>3. exit'[a][f] = "running" /\ content'[f] = "part"
      BY <1>1, <2>1, <3>1, <3>2, StartFacts DEF CommandTyped
    <3>4. f \notin hurt'[a]
      BY <1>1, <2>1, <3>1, <3>2, StartsWell
    <3>5. Watched(f) => done'[a][f] # "ok"
      <4> SUFFICES ASSUME Watched(f), done'[a][f] = "ok" PROVE FALSE
        OBVIOUS
      <4>1. Watched(Task(a)') /\ done'[a][Task(a)'] # "empty"
        BY <1>3
      <4>2. Watched(Task(a))'
        BY <1>1, <4>1 DEF Watched
      <4>3. exit'[a][f] = "none"
        BY <1>3, <4>1, <4>2 DEF InTime, ReceivedAfterExit
      <4> QED
        BY <3>3, <4>3
    <3> QED
      BY <3>3, <3>4, <3>5
  <2>2. CASE /\ UNCHANGED <<pc, at>>
             /\ \/ \E b \in Attempts, g \in Files : Exits(b, g)
                \/ \E b \in Attempts, q \in Qualities : FnReturns(b, q)
                \/ UNCHANGED vars
    <3>1. pc[a] = "wait" /\ Task(a) = f /\ Busy(a)
      BY <1>1, <1>3, <2>2 DEF Task, Busy, Ended
    <3>2. /\ exit[a][f] = "running" => f \notin hurt[a] /\ content[f] # "absent"
          /\ exit[a][f] = "ok" => content[f] = "whole"
          /\ Watched(f) /\ done[a][f] = "ok" => content[f] = "whole" /\ exit[a][f] = "none"
      BY <1>1, <3>1 DEF Whole, WrittenWell, Running, InTime, ReceivedAfterExit
    <3>3. ASSUME NEW b \in Attempts, NEW g \in Files, Exits(b, g), b # a \/ g # f
          PROVE  exit'[a][f] = exit[a][f] /\ content'[f] = content[f] /\ hurt'[a] \subseteq hurt[a]
      <4>1. Running(b, g)
        BY <3>3 DEF Exits
      <4>2. g # f
        BY <1>1, <3>1, <3>3, <4>1, CleanRuns DEF Running
      <4>3. exit'[a][f] = exit[a][f]
        BY <1>1, <3>3, <4>2, ExitChanges DEF Exits
      <4> QED
        BY <1>1, <3>3, <4>2, <4>3 DEF Exits, CommandTyped
    <3>4. CASE \E b \in Attempts, g \in Files : Exits(b, g) /\ (b # a \/ g # f)
      <4>1. done' = done
        BY <3>4 DEF Exits
      <4> QED
        BY <3>2, <3>3, <3>4, <4>1
    <3>5. CASE Exits(a, f)
      <4>1. exit[a][f] = "running" /\ f \notin hurt[a] /\ content[f] # "absent" /\ done' = done
        BY <3>2, <3>5 DEF Exits, Running
      <4>2. \/ exit' = [exit EXCEPT ![a][f] = "ok"] /\ content'[f] = "whole"
            \/ exit' = [exit EXCEPT ![a][f] = "error"]
        BY <1>1, <3>5, <4>1 DEF Exits, CommandTyped
      <4>3. exit'[a][f] \in {"ok", "error"} /\ (exit'[a][f] = "ok" => content'[f] = "whole")
        BY <1>1, <4>2, ExitChanges
      <4> QED
        BY <3>2, <4>1, <4>3
    <3>6. ASSUME NEW b \in Attempts, NEW q \in Qualities, FnReturns(b, q), b # a \/ q # f
          PROVE  exit'[a][f] = exit[a][f] /\ (Watched(f) => done'[a][f] = done[a][f])
      <4>1. /\ exit' = [exit EXCEPT ![b][q] = "none"]
            /\ done \in [Attempts -> [Qualities -> {"empty", "ok", "error"}]]
        BY <1>1, <3>6 DEF FnReturns, CommandTyped
      <4>2. exit'[a][f] = exit[a][f]
        BY <1>1, <3>6, <4>1, ExitChanges
      <4>3. done' = done \/ done' = [done EXCEPT ![b][q] = exit[b][q]]
        BY <3>6 DEF FnReturns
      <4> QED
        BY <3>6, <4>1, <4>2, <4>3 DEF Watched
    <3>7. CASE \E b \in Attempts, q \in Qualities : FnReturns(b, q) /\ (b # a \/ q # f)
      <4>1. UNCHANGED <<content, hurt>>
        BY <3>7 DEF FnReturns, disk
      <4> QED
        BY <3>2, <3>6, <3>7, <4>1
    <3>8. CASE f \in Qualities /\ FnReturns(a, f)
      <4>1. /\ UNCHANGED <<content, hurt>> /\ exit' = [exit EXCEPT ![a][f] = "none"]
            /\ done' = [done EXCEPT ![a][f] = exit[a][f]]
        BY <1>1, <3>8 DEF FnReturns, disk, Calm
      <4>2. exit'[a][f] = "none"
        BY <1>1, <4>1, ExitChanges
      <4>3. done'[a][f] = exit[a][f]
        BY <1>1, <3>8, <4>1 DEF CommandTyped
      <4> QED
        BY <3>2, <4>1, <4>2, <4>3
    <3>9. CASE UNCHANGED vars
      BY <3>2, <3>9 DEF vars, disk, command
    <3> QED
      BY <2>2, <3>4, <3>5, <3>7, <3>8, <3>9
  <2> QED
    BY <1>1, <1>3, <2>1, <2>2, WaitSteps
<1> QED
  BY <1>2, <1>3

\* Three files are read by other commands; no attempt lists one of them.
LEMMA SourceFacts ==
    ASSUME NEW f \in Files, NEW g \in Source(f)
    PROVE  /\ g \in {"raw", "processed", "palette"} /\ g \in Files /\ g # f
           /\ g \notin Qualities \cup Range(Extras) \cup {"master"}
           /\ g = "palette" => f = "gif"
<1>1. \/ f = "processed" /\ g = "raw"
      \/ f \in Range(Bitrates) /\ g = "processed"
      \/ f = "gif" /\ g = "palette"
  BY DEF Source
<1> QED
  BY <1>1, FileKinds DEF Plain

\* What writes the file of its task at once, a command or the service's own code.
Rewrites(a) == StartCommand(a) \/ ProbeEnds(a) \/ MasterPlaylist(a) \/ MasterFails(a)

\* An attempt that does is at work, at a task of its script.
LEMMA RewriteFacts ==
    ASSUME Typed, NEW a \in Attempts, Rewrites(a)
    PROVE  Busy(a) /\ at[a] \in DOMAIN Script
<1>1. CASE StartCommand(a) \/ ProbeEnds(a)
  <2>1. Start(a)
    BY <1>1 DEF StartCommand, ProbeEnds
  <2> QED
    BY <1>1, <2>1, StartFacts DEF Busy, Ended
<1>2. CASE MasterPlaylist(a) \/ MasterFails(a)
  BY <1>2, ScriptFacts DEF MasterPlaylist, MasterFails, AtMaster, Busy, Ended
<1> QED
  BY <1>1, <1>2 DEF Rewrites

\* A whole file stays whole at peace, unless it is written anew, or it is the
\* palette and the GIF is done.
LEMMA WholeStays ==
    ASSUME Whole, Typed', [Next]_vars, NEW f \in Files, Calm(f)', content[f] = "whole"
    PROVE  \/ content'[f] = "whole"
           \/ \E a \in Attempts : Rewrites(a) /\ Task(a) = f
           \/ /\ f = "palette"
              /\ \E a \in Attempts : Task(a) = "gif" /\ (TaskSucceeds(a) \/ TaskFails(a))
<1>1. Typed /\ CommandTyped /\ Calm(f) /\ faults' = 0 /\ faults = 0 /\ faults \in Nat
  BY TypedParts, Frame, EncoderAssumption DEF Whole, Calm
<1>2. ASSUME NEW a \in Attempts, Acts(a), content'[f] # "whole"
      PROVE  \/ Rewrites(a) /\ Task(a) = f
             \/ f = "palette" /\ Task(a) = "gif" /\ (TaskSucceeds(a) \/ TaskFails(a))
  <2>1. ~(SkipVariant(a) \/ Finish(a) \/ TimesOut(a) \/ ProbeFails(a))
    BY <1>2 DEF SkipVariant, Finish, TimesOut, ProbeFails, disk
  <2>2. ~ProbeInput(a)
    BY <1>1, <1>2 DEF ProbeInput, CommandTyped
  <2>3. MasterPlaylist(a) \/ MasterFails(a) => Task(a) = f
    BY <1>1, <1>2 DEF MasterPlaylist, MasterFails, AtMaster, CommandTyped
  <2>4. StartCommand(a) \/ ProbeEnds(a) => Task(a) = f
    BY <1>1, <1>2 DEF StartCommand, ProbeEnds, Start, CommandTyped
  <2>5. TaskSucceeds(a) \/ TaskFails(a) => f = "palette" /\ Task(a) = "gif"
    BY <1>1, <1>2 DEF TaskSucceeds, TaskFails, RemovePalette, CommandTyped
  <2> QED
    BY <1>2, <2>1, <2>2, <2>3, <2>4, <2>5 DEF Acts, Step, Rewrites
<1>3. ASSUME NEW a \in Attempts, NEW g \in Files, Exits(a, g)
      PROVE  content'[f] = "whole"
  <2>1. CASE g # f
    BY <1>1, <1>3, <2>1 DEF Exits, CommandTyped
  <2>2. CASE g = f
    <3>1. f \notin hurt[a]
      BY <1>1, <1>3, <2>2 DEF Exits, Whole, WrittenWell
    <3> QED
      BY <1>1, <1>3, <2>2, <3>1 DEF Exits, CommandTyped
  <2> QED
    BY <2>1, <2>2
<1>4. ~RemoveFiles
  BY <1>1 DEF RemoveFiles, Fault
<1>5. ASSUME NEW a \in Attempts, NEW q, Begin(a) \/ FnReturns(a, q)
      PROVE  content'[f] = "whole"
  BY <1>5 DEF Begin, FnReturns, disk
<1>6. UNCHANGED vars => content'[f] = "whole"
  BY DEF vars, disk
<1> QED
  BY <1>2, <1>3, <1>4, <1>5, <1>6, Kinds

LEMMA BusyBegins ==
    ASSUME Typed, Typed', [Next]_vars, NEW a \in Attempts, Busy(a)', ~Busy(a)
    PROVE  Begin(a)
<1>1. AttemptTyped
  BY TypedParts
<1>2. pc'[a] # pc[a]
  BY DEF Busy, Ended
<1>3. ASSUME NEW b \in Attempts, Begin(b) PROVE b = a
  BY <1>1, <1>2, <1>3 DEF Begin, AttemptTyped
<1>4. ASSUME NEW b \in Attempts, Acts(b) PROVE FALSE
  BY <1>2, <1>4, ActsAlone, BusyIs
<1>5. ~UNCHANGED pc
  BY <1>2
<1>6. ASSUME NEW b \in Attempts, NEW f PROVE ~(Exits(b, f) \/ FnReturns(b, f))
  BY <1>5 DEF Exits, FnReturns, attempt
<1>7. ~(RemoveFiles \/ UNCHANGED vars)
  BY <1>5 DEF RemoveFiles, vars, attempt
<1> QED
  BY <1>3, <1>4, <1>6, <1>7, Kinds

\* How an attempt at work goes on in its script, and what it lists then.
GoesOn(a) ==
    \/ at'[a] = at[a] /\ listed'[a] = listed[a]
    \/ at'[a] = Len(Script) + 1 /\ listed'[a] \subseteq listed[a]
    \/ /\ at'[a] = at[a] + 1 /\ listed'[a] = listed[a]
       /\ Task(a) \in Qualities \cup Range(Extras)
    \/ /\ at'[a] = at[a] + 1 /\ listed'[a] \subseteq listed[a] \cup {Task(a)}
       /\ \/ SkipVariant(a) \/ TaskSucceeds(a)
          \/ /\ MasterPlaylist(a) /\ Task(a) = "master"
             /\ input.audio => content'["master"] = "whole"

LEMMA AtMoves ==
    ASSUME Typed, Typed', [Next]_vars, NEW a \in Attempts, Busy(a), Busy(a)'
    PROVE  GoesOn(a)
<1> USE DEF GoesOn
<1>1. AttemptTyped /\ CommandTyped /\ pc[a] # "idle" /\ pc'[a] # "failed"
  BY TypedParts DEF Busy, Ended
<1>2. ASSUME TaskErrs(a) PROVE GoesOn(a)
  BY <1>1, <1>2 DEF TaskErrs, PassOver, FailAttempt, DropPreviews, Advance, AttemptTyped
<1>3. ASSUME NEW b \in Attempts, Acts(b) PROVE GoesOn(a)
  <2>1. CASE b # a
    BY <1>3, <2>1, ActsAlone
  <2>2. CASE TaskFails(a) \/ TimesOut(a) \/ ProbeFails(a)
    BY <1>2, <2>2 DEF TaskFails, TimesOut, ProbeFails
  <2>3. CASE StartCommand(a) \/ ProbeEnds(a) \/ ProbeInput(a) \/ Finish(a)
    BY <2>3 DEF StartCommand, ProbeEnds, Start, ProbeInput, Finish
  <2>4. CASE SkipVariant(a)
    BY <1>1, <2>4 DEF SkipVariant, AttemptTyped
  <2>5. CASE TaskSucceeds(a)
    BY <1>1, <2>5 DEF TaskSucceeds, Advance, AttemptTyped
  <2>6. CASE MasterPlaylist(a)
    <3>1. /\ at' = [at EXCEPT ![a] = @ + 1] /\ Task(a) = "master"
          /\ listed' = [listed EXCEPT ![a] = @ \cup {"master"}]
      BY <1>1, <2>6 DEF MasterPlaylist, AtMaster, Advance, AttemptTyped
    <3>2. input.audio => content'["master"] = "whole"
      BY <1>1, <2>6, FileKinds DEF MasterPlaylist, CommandTyped
    <3> QED
      BY <1>1, <2>6, <3>1, <3>2 DEF AttemptTyped
  <2>7. ~MasterFails(a)
    BY <1>1 DEF MasterFails, AttemptTyped
  <2> QED
    BY <1>3, <2>1, <2>2, <2>3, <2>4, <2>5, <2>6, <2>7 DEF Acts, Step
<1>4. ASSUME NEW b \in Attempts, Begin(b) PROVE GoesOn(a)
  BY <1>4 DEF Begin
<1>5. ASSUME NEW b \in Attempts, NEW f, Exits(b, f) \/ FnReturns(b, f) PROVE GoesOn(a)
  BY <1>5 DEF Exits, FnReturns, attempt
<1>6. CASE RemoveFiles \/ UNCHANGED vars
  BY <1>6 DEF RemoveFiles, vars, attempt
<1> QED
  BY <1>3, <1>4, <1>5, <1>6, Kinds

\* A command whose success is taken has written its file, at peace.
LEMMA SucceedsWhole ==
    ASSUME Whole, NEW a \in Attempts, TaskSucceeds(a), Calm(Task(a))
    PROVE  content[Task(a)] = "whole" /\ (Task(a) # "palette" => content'[Task(a)] = "whole")
<1>1. pc[a] = "wait" /\ Task(a) \in Files /\ CommandTyped
  BY TakenGone, TypedParts DEF Whole
<1>2. content[Task(a)] = "whole"
  BY <1>1 DEF TaskSucceeds, Outcome, Whole, WrittenWell
<1> QED
  BY <1>1, <1>2 DEF TaskSucceeds, RemovePalette, CommandTyped

\* The palette is removed with its one reader done; a source that failed ends
\* the attempt or the previews (separate_av_encoder.go:37-52).
LEMMA SourcesReadyKept ==
    Whole /\ Typed' /\ Alone' /\ [Next]_vars => SourcesReady'
<1> SUFFICES ASSUME Whole, Typed', Alone', [Next]_vars
             PROVE  SourcesReady'
  OBVIOUS
<1>0. Script' = Script
  BY Frame DEF Whole
<1> SUFFICES ASSUME faults' = 0, NEW a \in Attempts, Busy(a)',
                    NEW i \in DOMAIN Script, i >= at'[a], NEW g \in Source(Script[i])
             PROVE  content'[g] = "whole" \/ \E j \in at'[a]..i-1 : Script[j] = g
  BY <1>0 DEF SourcesReady, Source
<1>1. /\ Typed /\ Typed' /\ faults = 0 /\ Script[i] \in Files
      /\ DOMAIN Script = 1..Len(Script) /\ Len(Script) \in Nat /\ i \in Nat /\ i <= Len(Script)
      /\ IsInjective(Script) /\ Ready(Script)
  BY ScriptFacts, Frame DEF Whole
<1>2. /\ g \in {"raw", "processed", "palette"} /\ g \in Files /\ g # Script[i]
      /\ g \notin Qualities \cup Range(Extras) \cup {"master"}
      /\ g = "palette" => Script[i] = "gif"
  BY <1>1, SourceFacts
<1>3. Calm(g)' /\ Calm(g)
  <2>1. late' \subseteq Attempts \X Qualities
    BY DEF Typed, TypeOK
  <2>2. Calm(g)'
    BY <1>2, <2>1 DEF Calm
  <2> QED
    BY <1>1, <2>2, Frame
<1>4. at[a] \in Nat /\ at'[a] \in Nat
  <2>1. AttemptTyped /\ at' \in [Attempts -> 1..Len(Script)' + 1] /\ Script' = Script
    BY TypedParts, Frame DEF Whole, Typed, TypeOK
  <2>2. at \in [Attempts -> 1..Len(Script) + 1] /\ at' \in [Attempts -> 1..Len(Script) + 1]
    BY <2>1 DEF AttemptTyped
  <2>3. \A k \in 1..Len(Script) + 1 : k \in Nat
    BY <1>1
  <2> QED
    BY <2>2, <2>3
<1>5. CASE ~Busy(a)
  <2>1. Begin(a)
    BY <1>1, <1>5, BusyBegins
  <2>2. at'[a] = 1
    BY <2>1 DEF Begin, Whole, NotBegun
  <2> QED
    BY <1>1, <2>2 DEF Ready
<1>6. CASE Busy(a)
  <2>1. GoesOn(a)
    BY <1>1, <1>6, AtMoves
  <2>2. /\ at'[a] = at[a] \/ at'[a] = at[a] + 1
        /\ at[a] <= i /\ at[a] \in DOMAIN Script
    <3>1. at'[a] # Len(Script) + 1
      BY <1>1, <1>4
    <3>2. at'[a] = at[a] \/ at'[a] = at[a] + 1
      BY <2>1, <3>1 DEF GoesOn
    <3>3. at[a] <= i
      BY <1>1, <1>4, <3>2
    <3>4. at[a] <= Len(Script)
      BY <1>1, <1>4, <3>3
    <3> QED
      BY <1>1, <3>2, <3>3, <3>4, ScriptFacts
  <2>3. content[g] = "whole" \/ \E j \in at[a]..i-1 : Script[j] = g
    BY <1>1, <1>4, <1>6, <2>2 DEF Whole, SourcesReady
  <2>4. CASE content[g] = "whole"
    <3>1. ASSUME NEW b \in Attempts, Rewrites(b), Task(b) = g
          PROVE  \E j \in at'[a]..i-1 : Script[j] = g
      <4>1. Start(b) /\ (StartCommand(b) \/ ProbeEnds(b))
        BY <1>2, <3>1 DEF Rewrites, StartCommand, ProbeEnds, MasterPlaylist, MasterFails, AtMaster
      <4>2. Busy(b) /\ at'[a] = at[a]
        BY <1>1, <3>1, <4>1, StartFacts DEF Busy, Ended
      <4>3. b = a
        BY <1>1, <1>6, <4>2 DEF Whole, Alone
      <4>4. Script[at[a]] = g /\ at[a] # i
        BY <1>2, <3>1, <4>3 DEF Task
      <4>5. at[a] \in at'[a]..i-1
        BY <1>1, <1>4, <2>2, <4>2, <4>4
      <4> QED
        BY <4>4, <4>5
    <3>2. ASSUME g = "palette", NEW b \in Attempts, Task(b) = "gif", TaskSucceeds(b) \/ TaskFails(b)
          PROVE  FALSE
      <4>1. pc[b] = "wait"
        BY <3>2, TakenGone
      <4>2. b = a
        BY <1>1, <1>6, <4>1 DEF Whole, Alone, Busy, Ended
      <4>3. at[a] = i
        BY <1>1, <1>2, <2>2, <3>2, <4>2 DEF Task, IsInjective
      <4>4. at'[a] = at[a]
        BY <1>4, <2>2, <4>3
      <4>5. AttemptTyped /\ pc'[a] # "failed"
        BY <1>1, TypedParts DEF Busy, Ended
      <4>6. CASE TaskSucceeds(a)
        <5>1. at'[a] = at[a] + 1
          BY <4>5, <4>6 DEF TaskSucceeds, Advance, AttemptTyped
        <5> QED
          BY <1>4, <4>4, <5>1
      <4>7. CASE TaskFails(a)
        <5>1. "gif" \notin Qualities \cup Range(Extras)
          BY FileKinds DEF Plain
        <5>2. DropPreviews(a)
          BY <3>2, <4>2, <4>5, <4>7, <5>1
             DEF TaskFails, TaskErrs, PassOver, FailAttempt, AttemptTyped
        <5>3. at'[a] = Len(Script) + 1
          BY <4>5, <5>2 DEF DropPreviews, AttemptTyped
        <5> QED
          BY <1>1, <1>4, <4>3, <4>4, <5>3
      <4> QED
        BY <3>2, <4>2, <4>6, <4>7
    <3> QED
      BY <1>2, <1>3, <2>4, <3>1, <3>2, WholeStays
  <2>5. ASSUME NEW j \in at[a]..i-1, Script[j] = g
        PROVE  content'[g] = "whole" \/ \E k \in at'[a]..i-1 : Script[k] = g
    <3>1. CASE j >= at'[a]
      <4>1. j \in at'[a]..i-1
        BY <1>1, <1>4, <2>5, <3>1
      <4> QED
        BY <2>5, <4>1
    <3>2. CASE ~(j >= at'[a])
      <4>1. j = at[a] /\ at'[a] # at[a]
        BY <1>1, <1>4, <2>2, <3>2
      <4>2. Task(a) = g
        BY <2>5, <4>1 DEF Task
      <4>3. ~SkipVariant(a) /\ ~MasterPlaylist(a)
        BY <1>2, <4>2 DEF SkipVariant, MasterPlaylist, AtMaster, Watched
      <4>4. at'[a] # Len(Script) + 1
        BY <1>1, <1>4
      <4>5. TaskSucceeds(a)
        BY <1>2, <2>1, <4>1, <4>2, <4>3, <4>4 DEF GoesOn
      <4>6. content[g] = "whole"
        BY <1>3, <4>2, <4>5, SucceedsWhole
      <4> QED
        BY <2>4, <4>6
    <3> QED
      BY <3>1, <3>2
  <2> QED
    BY <2>3, <2>4, <2>5
<1> QED
  BY <1>5, <1>6

LEMMA ListedDoneKept == Whole /\ Typed' /\ [Next]_vars => ListedDone'
<1> SUFFICES ASSUME Whole, Typed', [Next]_vars
             PROVE  ListedDone'
  OBVIOUS
<1>1. Typed /\ AttemptTyped /\ Script' = Script /\ UNCHANGED input
  BY TypedParts, Frame DEF Whole
<1> SUFFICES ASSUME NEW a \in Attempts, Busy(a)', NEW f \in listed'[a]
             PROVE  /\ f \notin {"raw", "processed", "palette"}
                    /\ \A i \in DOMAIN Script : i >= at'[a] => Script[i] # f
                    /\ Calm(f)' => content'[f] = "whole" \/ Unchecked(f)
  BY <1>1 DEF ListedDone, Unchecked
<1>2. f \in Files
  BY DEF Typed, TypeOK
<1>3. /\ DOMAIN Script = 1..Len(Script) /\ Len(Script) \in Nat /\ IsInjective(Script)
      /\ at[a] \in Nat
  <2>1. \A k \in 1..Len(Script) + 1 : k \in Nat
    BY <1>1, ScriptFacts
  <2> QED
    BY <1>1, <2>1, ScriptFacts DEF AttemptTyped
<1>4. CASE ~Busy(a)
  <2>1. Begin(a)
    BY <1>1, <1>4, BusyBegins
  <2>2. listed'[a] = {}
    BY <2>1 DEF Begin, Whole, NotBegun
  <2> QED
    BY <2>2
<1>5. CASE Busy(a)
  <2>1. GoesOn(a)
    BY <1>1, <1>5, AtMoves
  <2>2. \A i \in DOMAIN Script : i >= at'[a] => i >= at[a] /\ (at'[a] = at[a] + 1 => i # at[a])
    <3> SUFFICES ASSUME NEW i \in DOMAIN Script, i >= at'[a]
                 PROVE  i >= at[a] /\ (at'[a] = at[a] + 1 => i # at[a])
      OBVIOUS
    <3>1. i \in Nat /\ at'[a] # Len(Script) + 1
      BY <1>3
    <3>2. at'[a] = at[a] \/ at'[a] = at[a] + 1
      BY <2>1, <3>1 DEF GoesOn
    <3> QED
      BY <1>3, <3>1, <3>2
  <2>3. CASE f \in listed[a]
    <3>1. /\ f \notin {"raw", "processed", "palette"}
          /\ \A i \in DOMAIN Script : i >= at[a] => Script[i] # f
          /\ Calm(f) => content[f] = "whole" \/ Unchecked(f)
      BY <1>5, <2>3 DEF Whole, ListedDone
    <3>2. ASSUME Calm(f)', ~Unchecked(f)
          PROVE  content'[f] = "whole"
      <4>1. Calm(f) /\ content[f] = "whole" /\ faults = 0
        BY <1>1, <3>1, <3>2, Frame DEF Calm
      <4>2. ASSUME NEW b \in Attempts, Rewrites(b), Task(b) = f
            PROVE  FALSE
        <5>1. Busy(b) /\ at[b] \in DOMAIN Script
          BY <1>1, <4>2, RewriteFacts
        <5>2. b = a
          BY <1>5, <4>1, <5>1 DEF Whole, Alone
        <5>3. Script[at[a]] = f /\ at[a] >= at[a] /\ at[a] \in DOMAIN Script
          BY <1>3, <4>2, <5>1, <5>2 DEF Task
        <5> QED
          BY <3>1, <5>3
      <4> QED
        BY <1>2, <3>1, <3>2, <4>1, <4>2, WholeStays
    <3> QED
      BY <2>2, <3>1, <3>2
  <2>4. CASE f \notin listed[a]
    <3>1. /\ at'[a] = at[a] + 1 /\ f = Task(a)
          /\ \/ SkipVariant(a) \/ TaskSucceeds(a)
             \/ MasterPlaylist(a) /\ (content'[f] = "whole" \/ Unchecked(f))
      BY <2>1, <2>4 DEF GoesOn, Unchecked
    <3>2. at[a] \in DOMAIN Script
      BY <1>1, <3>1, ScriptFacts DEF SkipVariant, TaskSucceeds, MasterPlaylist, AtMaster
    <3>3. \A i \in DOMAIN Script : i >= at'[a] => Script[i] # f
      BY <1>3, <2>2, <3>1, <3>2 DEF IsInjective, Task
    <3>4. f \notin {"raw", "processed", "palette"}
      <4>1. CASE SkipVariant(a) \/ MasterPlaylist(a)
        BY <3>1, <4>1, FileKinds DEF SkipVariant, MasterPlaylist, AtMaster, Watched, Plain
      <4>2. CASE TaskSucceeds(a)
        BY <1>1, <2>4, <3>1, <4>2 DEF TaskSucceeds, AttemptTyped
      <4> QED
        BY <3>1, <4>1, <4>2
    <3>5. ASSUME Calm(f)', ~Unchecked(f)
          PROVE  content'[f] = "whole"
      <4>1. Calm(f) /\ faults = 0
        BY <1>1, <3>5, Frame DEF Calm
      <4>2. CASE SkipVariant(a)
        <5>1. Watched(f) /\ f \in known[a] /\ content' = content
          BY <3>1, <4>2 DEF SkipVariant, disk
        <5>2. f \in complete
          BY <1>5, <4>1, <5>1 DEF Whole, Alone
        <5> QED
          BY <4>1, <5>1, <5>2 DEF Whole, CompleteWhole
      <4>3. CASE TaskSucceeds(a)
        BY <3>1, <3>4, <4>1, <4>3, SucceedsWhole
      <4> QED
        BY <3>1, <3>5, <4>2, <4>3
    <3> QED
      BY <3>3, <3>4, <3>5
  <2> QED
    BY <2>3, <2>4
<1> QED
  BY <1>4, <1>5

LEMMA CompleteWholeKept == Whole /\ Typed' /\ [Next]_vars => CompleteWhole'
<1> SUFFICES ASSUME Whole, Typed', [Next]_vars
             PROVE  CompleteWhole'
  OBVIOUS
<1>1. /\ Typed /\ AttemptTyped /\ Shape /\ UNCHANGED input
      /\ \A q : Watched(q)' <=> Watched(q)
  BY TypedParts, Frame DEF Whole
<1> SUFFICES ASSUME NEW q \in complete', Calm(q)', Watched(q)
             PROVE  content'[q] = "whole"
  BY <1>1 DEF CompleteWhole
<1>2. /\ Calm(q) /\ faults = 0 /\ faults' = 0 /\ faults \in Nat /\ ~input.audio
      /\ q \in Qualities /\ q \in Files
  BY <1>1, Frame, FileKinds, EncoderAssumption DEF Calm, Watched
<1>3. \A a \in Attempts : Busy(a) => complete = known[a]
  BY <1>2 DEF Whole, Alone
<1>4. q \in complete \/ \E a \in Attempts : TaskSucceeds(a) /\ Task(a) = q
  <2>1. ASSUME NEW a \in Attempts, Acts(a)
        PROVE  q \in complete \/ (TaskSucceeds(a) /\ Task(a) = q)
    <3>1. complete = known[a]
      BY <1>1, <1>3, <2>1, ActsAlone, BusyIs
    <3>2. CASE TaskErrs(a)
      BY <3>1, <3>2 DEF TaskErrs, PassOver, FailAttempt, DropPreviews
    <3>3. CASE SkipVariant(a) \/ ProbeInput(a) \/ Start(a) \/ Finish(a)
      BY <3>1, <3>3 DEF SkipVariant, ProbeInput, Start, Finish, disk
    <3>4. CASE TaskSucceeds(a)
      BY <3>1, <3>4 DEF TaskSucceeds, Save
    <3>5. CASE MasterPlaylist(a) \/ MasterFails(a)
      <4>1. listed[a] \cap Qualities \subseteq known[a]
        BY <1>2 DEF Whole, InTime, KnownFirst
      <4> QED
        BY <3>1, <3>5, <4>1 DEF MasterPlaylist, MasterFails, Save
    <3> QED
      BY <2>1, <3>2, <3>3, <3>4, <3>5
         DEF Acts, Step, StartCommand, ProbeEnds, ProbeFails, TaskFails, TimesOut
  <2>2. ASSUME NEW a \in Attempts, NEW f, Begin(a) \/ Exits(a, f) \/ FnReturns(a, f)
        PROVE  q \in complete
    BY <2>2 DEF Begin, Exits, FnReturns, disk
  <2>3. CASE RemoveFiles \/ UNCHANGED vars
    BY <2>3 DEF RemoveFiles, vars, disk
  <2> QED
    BY <2>1, <2>2, <2>3, Kinds
<1>5. ASSUME NEW a \in Attempts, TaskSucceeds(a), Task(a) = q
      PROVE  content'[q] = "whole"
  <2>1. q # "palette"
    BY <1>2, FileKinds DEF Plain
  <2> QED
    BY <1>2, <1>5, <2>1, SucceedsWhole
<1>6. CASE q \in complete
  <2>1. content[q] = "whole" /\ q # "palette" /\ q # "master"
    BY <1>2, <1>6, FileKinds DEF Whole, CompleteWhole, Plain
  <2>2. ASSUME NEW a \in Attempts, Rewrites(a), Task(a) = q
        PROVE  FALSE
    <3>1. ProbeEnds(a)
      BY <2>1, <2>2 DEF Rewrites, StartCommand, Probed, MasterPlaylist, MasterFails, AtMaster
    <3>2. pc[a] = "probe"
      BY <3>1 DEF ProbeEnds
    <3>3. q \in known[a]
      BY <1>3, <1>6, <3>2 DEF Busy, Ended
    <3> QED
      BY <2>2, <3>2, <3>3 DEF Whole, InTime, EncodesUnknown
  <2> QED
    BY <1>2, <2>1, <2>2, WholeStays
<1> QED
  BY <1>4, <1>5, <1>6

LEMMA WholeKept == Whole /\ [Next]_vars => Whole'
<1> SUFFICES ASSUME Whole, [Next]_vars PROVE Whole'
  OBVIOUS
<1>1. Typed' /\ InTime'
  BY TypedStep, StepKeeps DEF Whole
<1>2. Alone' /\ NotBegun' /\ Owned' /\ HurtRuns'
  BY <1>1, AloneKept, NotBegunKept, OwnedKept, HurtRunsKept
<1>3. WrittenWell' /\ SourcesReady' /\ ListedDone' /\ CompleteWhole'
  BY <1>1, <1>2, WrittenWellKept, SourcesReadyKept, ListedDoneKept, CompleteWholeKept
<1> QED
  BY <1>1, <1>2, <1>3 DEF Whole

\* Whatever the inputs, the ladder and the number of attempts: when an attempt
\* ends well, every file of its result is whole, unless the watchdog gave up a
\* command that writes it, two executions were at work at once, or the files
\* were removed (separate_av_encoder.go:37, transcode_usecase.go:496); the master
\* playlist of an input without audio is not covered (encoder.go:151-167).
THEOREM PublishedWholeCorrect == Spec => PublishedWhole
<1> DEFINE Ends == \A a \in Attempts : pc[a] # "done" /\ pc'[a] = "done" =>
                      \A f \in listed[a] :
                          \/ content[f] = "whole" \/ Unchecked(f)
                          \/ faults > 0 \/ \E b \in Attempts : <<b, f>> \in late
<1>1. ASSUME Whole, [Next]_vars PROVE Ends
  <2> SUFFICES ASSUME NEW a \in Attempts, pc[a] # "done", pc'[a] = "done", NEW f \in listed[a]
               PROVE  \/ content[f] = "whole" \/ Unchecked(f)
                      \/ faults > 0 \/ \E b \in Attempts : <<b, f>> \in late
    OBVIOUS
  <2>1. Typed /\ AttemptTyped /\ faults \in Nat
    BY <1>1, TypedParts, EncoderAssumption DEF Whole
  <2>2. Typed'
    BY <1>1, TypedStep DEF Whole
  <2>3. ASSUME NEW b \in Attempts, Acts(b) PROVE Busy(a)
    BY <2>1, <2>2, <2>3, ActsAlone, BusyIs
  <2>4. ASSUME NEW b \in Attempts, Begin(b) PROVE FALSE
    BY <2>1, <2>4 DEF Begin, AttemptTyped
  <2>5. ASSUME NEW b \in Attempts, NEW g PROVE ~(Exits(b, g) \/ FnReturns(b, g))
    BY DEF Exits, FnReturns, attempt
  <2>6. ~(RemoveFiles \/ UNCHANGED vars)
    BY DEF RemoveFiles, vars, attempt
  <2>7. Busy(a)
    BY <1>1, <2>3, <2>4, <2>5, <2>6, Kinds
  <2>8. Calm(f) => content[f] = "whole" \/ Unchecked(f)
    BY <1>1, <2>7 DEF Whole, ListedDone
  <2> QED
    BY <2>1, <2>8 DEF Calm
<1> QED
  BY <1>1, InitWhole, WholeKept, PTL DEF Spec, PublishedWhole

=============================================================================
