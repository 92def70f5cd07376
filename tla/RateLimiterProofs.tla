-------------------------- MODULE RateLimiterProofs --------------------------
(***************************************************************************)
(* Theorems about RateLimiter, for any keys, requests, rates, bursts       *)
(* and cleanup ages that its assumption admits.                            *)
(***************************************************************************)
EXTENDS RateLimiter, FiniteSetTheorems, TLAPS

\* The requests that hold a visitor which the cleanup took from their key.
Stale(c) == {r \in Requests : held[r] # None /\ key[r] = c /\ held[r] # visitors[c]}

\* How many others there are: each of them may have been stale and have taken a
\* token beyond those of the key's visitor.
Done(c) == Cardinality(Requests \ Stale(c))

Full == Burst * Period

\* What a visitor can give, in parts of a token, if its age loses nothing.
Potential(v) == tokens[v] * Period + age[v] * Rate

\* A visitor is of one key, and held by requests of that key only.
VisitorsApart ==
    /\ \A c, d \in Keys : visitors[c] # None /\ visitors[c] = visitors[d] => c = d
    /\ \A r \in Requests : held[r] # None => key[r] \in Keys
    /\ \A r \in Requests, c \in Keys :
           held[r] # None /\ held[r] = visitors[c] => key[r] = c

\* A stale request looked up before its key's visitor was made, and has been
\* between its locks at one end of a unit at most.
StaleSoon ==
    \A c \in Keys : visitors[c] # None => \A r \in Stale(c) :
        age[visitors[c]] <= IF r \in late THEN 1 ELSE 0

\* A key that is unknown, or has a full bucket, has no more of it than an exact
\* bucket and what stale requests took; one whose bucket was used, in addition the
\* part of a token whose time counted while it was full.
Covered(c) ==
    LET v == visitors[c]
        owed == Done(c) * Period
    IN  \/ credit[c] >= Full - owed
        \/ /\ v # None /\ tokens[v] # Burst
           /\ \/ credit[c] >= Full - owed - (Period - 1)
              \/ credit[c] >= Potential(v) - owed - (Period - 1)

\* The longer a bucket rests, the more of what stale requests took is made good.
Recovers(c) ==
    visitors[c] # None =>
        \/ credit[c] >= Full
        \/ credit[c] >= Potential(visitors[c]) - Rate - Done(c) * Period

CreditSound == \A c \in Keys : Covered(c) /\ Recovers(c)

IInv == TypeOK /\ VisitorsApart /\ StaleSoon /\ CreditSound

-----------------------------------------------------------------------------
(* Constants and numbers.                                                  *)

LEMMA ConstantFacts ==
    /\ Rate \in Nat \ {0} /\ Period \in Nat \ {0} /\ Burst \in Nat \ {0} /\ Cleanup \in Nat
    /\ IsFiniteSet(Requests) /\ IsFiniteSet(Keys)
    /\ Cardinality(Requests) \in Nat /\ Cardinality(Keys) \in Nat
    /\ Cleanup * Rate >= (Burst + Cardinality(Requests)) * Period
    /\ Cardinality(Visitors) >= Cardinality(Requests) + Cardinality(Keys)
    /\ None \notin Visitors \cup Keys
BY RateLimiterAssumption, FS_CardinalityType

LEMMA MinOfTwo ==
    ASSUME NEW a \in Int, NEW b \in Int
    PROVE  Min({a, b}) = IF a <= b THEN a ELSE b
BY DEF Min

\* Whole tokens: the rest is less than one.
LEMMA WholeTokens ==
    ASSUME NEW x \in Nat
    PROVE  /\ x \div Period \in Nat
           /\ (x \div Period) * Period <= x
           /\ x < (x \div Period) * Period + Period
BY ConstantFacts

LEMMA Products ==
    ASSUME NEW a \in Nat, NEW b \in Nat
    PROVE  a * b \in Nat
OBVIOUS

-----------------------------------------------------------------------------
(* Types.                                                                  *)

\* A key without a visitor and a request that holds none leave one unused.
LEMMA SomeUnused ==
    ASSUME TypeOK, NEW r \in Requests, NEW c \in Keys,
           held[r] = None, visitors[c] = None
    PROVE  \E v \in Visitors : Unused(v)
<1> USE ConstantFacts
<1> DEFINE K == {visitors[d] : d \in Keys}
           H == {held[q] : q \in Requests}
<1>1. IsFiniteSet(K) /\ Cardinality(K) <= Cardinality(Keys)
  <2>1. visitors \in Surjection(Keys, K)
    BY DEF TypeOK, Surjection
  <2> QED
    BY <2>1, FS_Surjection
<1>2. IsFiniteSet(H) /\ Cardinality(H) <= Cardinality(Requests)
  <2>1. held \in Surjection(Requests, H)
    BY DEF TypeOK, Surjection
  <2> QED
    BY <2>1, FS_Surjection
<1>3. Cardinality(K \cap H) >= 1
  <2>1. None \in K \cap H
    OBVIOUS
  <2>2. IsFiniteSet(K \cap H)
    BY <1>1, FS_Intersection
  <2>3. Cardinality(K \cap H) \in Nat /\ Cardinality(K \cap H) # 0
    BY <2>1, <2>2, FS_CardinalityType, FS_EmptySet
  <2> HIDE DEF K, H
  <2> QED
    BY <2>3
<1>4. /\ IsFiniteSet(K \cup H)
      /\ Cardinality(K \cup H) <= Cardinality(Keys) + Cardinality(Requests) - 1
  <2>1. /\ IsFiniteSet(K \cup H) /\ IsFiniteSet(K \cap H)
        /\ Cardinality(K \cup H) = Cardinality(K) + Cardinality(H) - Cardinality(K \cap H)
    BY <1>1, <1>2, FS_Union, FS_Intersection
  <2>2. Cardinality(K) \in Nat /\ Cardinality(H) \in Nat /\ Cardinality(K \cap H) \in Nat
    BY <1>1, <1>2, <2>1, FS_CardinalityType
  <2> HIDE DEF K, H
  <2> QED
    BY <1>1, <1>2, <1>3, <2>1, <2>2
<1>5. ASSUME Visitors \subseteq K \cup H
      PROVE  FALSE
  <2>1. IsFiniteSet(Visitors) /\ Cardinality(Visitors) <= Cardinality(K \cup H)
    BY <1>4, <1>5, FS_Subset
  <2>2. Cardinality(Visitors) \in Nat /\ Cardinality(K \cup H) \in Nat
    BY <1>4, <2>1, FS_CardinalityType
  <2> HIDE DEF K, H
  <2> QED
    BY <1>4, <2>1, <2>2
<1> QED
  BY <1>5 DEF Unused

\* Whatever a request brings, getClientIP makes a key of it.
LEMMA NextByKey ==
    ASSUME Next
    PROVE  \/ \E r \in Requests : Allow(r)
           \/ \E r \in Requests, c \in Keys : LookUp(r, c)
           \/ \E c \in Keys : Forget(c)
           \/ Tick
<1>1. \A xff, xri \in Headers \cup {None}, addr \in Connections :
          GetClientIP(xff, xri, addr) \in Keys
  BY DEF GetClientIP, Keys
<1> QED
  BY <1>1 DEF Next

\* What LookUp does for a key it does not know.
NewVisitor(r, c, v) ==
    /\ v \in Visitors /\ Unused(v) /\ held[r] = None /\ visitors[c] = None
    /\ key' = [key EXCEPT ![r] = c] /\ answer' = [answer EXCEPT ![r] = "none"]
    /\ held' = [held EXCEPT ![r] = v] /\ visitors' = [visitors EXCEPT ![c] = v]
    /\ tokens' = [tokens EXCEPT ![v] = Burst] /\ age' = [age EXCEPT ![v] = 0]
    /\ UNCHANGED <<late, credit>>

\* What LookUp does for a key it knows.
KnownVisitor(r, c) ==
    /\ visitors[c] # None /\ held[r] = None
    /\ key' = [key EXCEPT ![r] = c] /\ answer' = [answer EXCEPT ![r] = "none"]
    /\ held' = [held EXCEPT ![r] = visitors[c]]
    /\ UNCHANGED <<visitors, tokens, age, late, credit>>

LEMMA LookUpCases ==
    ASSUME TypeOK, NEW r \in Requests, NEW c \in Keys, LookUp(r, c)
    PROVE  KnownVisitor(r, c) \/ \E v \in Visitors : NewVisitor(r, c, v)
<1>1. CASE visitors[c] # None
  BY <1>1 DEF LookUp, KnownVisitor, limiter
<1>2. CASE visitors[c] = None
  <2> DEFINE v == CHOOSE x \in Visitors : Unused(x)
  <2>1. held[r] = None
    BY DEF LookUp
  <2>2. v \in Visitors /\ Unused(v)
    BY <1>2, <2>1, SomeUnused
  <2>3. /\ key' = [key EXCEPT ![r] = c] /\ answer' = [answer EXCEPT ![r] = "none"]
        /\ held' = [held EXCEPT ![r] = v] /\ visitors' = [visitors EXCEPT ![c] = v]
        /\ tokens' = [tokens EXCEPT ![v] = Burst] /\ age' = [age EXCEPT ![v] = 0]
        /\ UNCHANGED <<late, credit>>
    BY <1>2 DEF LookUp
  <2> HIDE DEF v
  <2> QED
    BY <1>2, <2>1, <2>2, <2>3 DEF NewVisitor
<1> QED
  BY <1>1, <1>2

LEMMA RefilledTypes ==
    ASSUME TypeOK, NEW v \in Visitors
    PROVE  /\ tokens[v] \in 0..Burst /\ age[v] \in 0..Cleanup + 1
           /\ TokensToAdd(v) \in Nat
           /\ TokensToAdd(v) * Period <= age[v] * Rate
           /\ age[v] * Rate < TokensToAdd(v) * Period + Period
           /\ Refilled(v) \in 0..Burst
           /\ Refilled(v) = IF tokens[v] + TokensToAdd(v) <= Burst
                            THEN tokens[v] + TokensToAdd(v) ELSE Burst
<1> USE ConstantFacts
<1>1. tokens[v] \in 0..Burst /\ age[v] \in 0..Cleanup + 1
  BY DEF TypeOK
<1>2. age[v] * Rate \in Nat
  BY <1>1, Products
<1>3. /\ TokensToAdd(v) \in Nat
      /\ TokensToAdd(v) * Period <= age[v] * Rate
      /\ age[v] * Rate < TokensToAdd(v) * Period + Period
  BY <1>2, WholeTokens DEF TokensToAdd
<1>4. Refilled(v) = IF tokens[v] + TokensToAdd(v) <= Burst
                    THEN tokens[v] + TokensToAdd(v) ELSE Burst
  BY <1>1, <1>3, MinOfTwo DEF Refilled
<1> QED
  BY <1>1, <1>3, <1>4

LEMMA TypesInitially == Init => TypeOK
<1> SUFFICES ASSUME Init PROVE TypeOK
  OBVIOUS
<1>1. Burst * Period \in Int
  BY ConstantFacts
<1> QED
  BY <1>1, ConstantFacts DEF Init, TypeOK

LEMMA TypesKept == TypeOK /\ [Next]_vars => TypeOK'
<1> SUFFICES ASSUME TypeOK, [Next]_vars PROVE TypeOK'
  OBVIOUS
<1> USE ConstantFacts
<1>1. ASSUME NEW r \in Requests, NEW c \in Keys, LookUp(r, c)
      PROVE  TypeOK'
  <2>1. CASE KnownVisitor(r, c)
    BY <2>1 DEF KnownVisitor, TypeOK
  <2>2. ASSUME NEW v \in Visitors, NewVisitor(r, c, v)
        PROVE  TypeOK'
    BY <2>2 DEF NewVisitor, TypeOK
  <2> QED
    BY <1>1, <2>1, <2>2, LookUpCases
<1>2. ASSUME NEW r \in Requests, Allow(r)
      PROVE  TypeOK'
  <2> DEFINE v == held[r]
  <2>1. v \in Visitors
    BY <1>2 DEF Allow, TypeOK
  <2>2. Refilled(v) \in 0..Burst
    BY <2>1, RefilledTypes
  <2>3. tokens' \in [Visitors -> 0..Burst] /\ age' \in [Visitors -> 0..Cleanup + 1]
    BY <1>2, <2>1, <2>2 DEF Allow, TypeOK
  <2>4. credit' \in [Keys -> Int]
    <3>1. \/ credit' = credit
          \/ credit' = [credit EXCEPT ![key[r]] = credit[key[r]] - Period]
      BY <1>2 DEF Allow, Answer, TypeOK
    <3> QED
      BY <3>1 DEF TypeOK
  <2>5. /\ UNCHANGED <<visitors, key>> /\ late' = late \ {r}
        /\ held' \in [Requests -> Visitors \cup {None}]
        /\ answer' \in [Requests -> {"none", "admitted", "denied"}]
    BY <1>2 DEF Allow, Answer, TypeOK
  <2> QED
    BY <2>3, <2>4, <2>5 DEF TypeOK
<1>3. ASSUME NEW c \in Keys, Forget(c)
      PROVE  TypeOK'
  BY <1>3 DEF Forget, TypeOK, request
<1>4. CASE Tick
  <2>1. \A v \in Visitors : Min({age[v] + 1, Cleanup + 1}) \in 0..Cleanup + 1
    BY MinOfTwo DEF TypeOK
  <2>2. \A c \in Keys : Min({credit[c] + Rate, Burst * Period}) \in Int
    <3>1. Burst * Period \in Int
      OBVIOUS
    <3>2. \A c \in Keys : credit[c] + Rate \in Int
      BY DEF TypeOK
    <3> QED
      BY <3>1, <3>2, MinOfTwo
  <2>3. age' \in [Visitors -> 0..Cleanup + 1]
    BY <1>4, <2>1 DEF Tick
  <2>4. credit' \in [Keys -> Int]
    BY <1>4, <2>2 DEF Tick
  <2> QED
    BY <1>4, <2>3, <2>4 DEF Tick, TypeOK
<1>5. CASE UNCHANGED vars
  BY <1>5 DEF vars, limiter, request, TypeOK
<1> QED
  BY <1>1, <1>2, <1>3, <1>4, <1>5, NextByKey

-----------------------------------------------------------------------------
(* Who is stale.                                                           *)

LEMMA DoneFacts ==
    ASSUME NEW S
    PROVE  /\ Cardinality(Requests \ S) \in Nat
           /\ Cardinality(Requests \ S) <= Cardinality(Requests)
           /\ \A r \in Requests \ S : Cardinality(Requests \ S) >= 1
           /\ \A r \in Requests \cap S :
                  Cardinality(Requests \ (S \ {r})) = Cardinality(Requests \ S) + 1
<1>1. /\ IsFiniteSet(Requests \ S)
      /\ Cardinality(Requests \ S) <= Cardinality(Requests)
  BY ConstantFacts, FS_Subset
<1>2. Cardinality(Requests \ S) \in Nat
  BY <1>1, FS_CardinalityType
<1>3. ASSUME NEW r \in Requests \ S
      PROVE  Cardinality(Requests \ S) >= 1
  <2>1. Cardinality(Requests \ S) # 0
    BY <1>1, <1>3, FS_EmptySet
  <2> QED
    BY <1>2, <2>1
<1>4. ASSUME NEW r \in Requests \cap S
      PROVE  Cardinality(Requests \ (S \ {r})) = Cardinality(Requests \ S) + 1
  <2>1. Requests \ (S \ {r}) = (Requests \ S) \cup {r} /\ r \notin Requests \ S
    BY <1>4
  <2> QED
    BY <1>1, <2>1, FS_AddElement
<1> QED
  BY <1>1, <1>2, <1>3, <1>4

LEMMA CreditTypes ==
    ASSUME TypeOK, NEW c \in Keys
    PROVE  /\ credit[c] \in Int /\ Done(c) \in Nat /\ Done(c) <= Cardinality(Requests)
           /\ Done(c) * Period \in Nat /\ Full \in Nat
           /\ visitors[c] # None => /\ visitors[c] \in Visitors
                                   /\ tokens[visitors[c]] \in 0..Burst
                                   /\ age[visitors[c]] \in 0..Cleanup + 1
                                   /\ tokens[visitors[c]] * Period \in Nat
                                   /\ age[visitors[c]] * Rate \in Nat
                                   /\ Potential(visitors[c]) \in Nat
<1> USE ConstantFacts
<1>1. Done(c) \in Nat /\ Done(c) <= Cardinality(Requests)
  BY DoneFacts DEF Done
<1>2. Done(c) * Period \in Nat /\ Full \in Nat
  BY <1>1, Products DEF Full
<1>3. ASSUME visitors[c] # None
      PROVE  /\ visitors[c] \in Visitors
             /\ tokens[visitors[c]] \in 0..Burst
             /\ age[visitors[c]] \in 0..Cleanup + 1
  BY <1>3 DEF TypeOK
<1>4. ASSUME visitors[c] # None
      PROVE  /\ tokens[visitors[c]] * Period \in Nat
             /\ age[visitors[c]] * Rate \in Nat
  BY <1>3, <1>4, Products
<1> QED
  BY <1>1, <1>2, <1>3, <1>4 DEF TypeOK, Potential

-----------------------------------------------------------------------------
(* A refill and a token taken: the arithmetic.                             *)

\* x, y and z are tokens, tokens to add and age, w what stale requests may have
\* taken, all in parts of a token; k is the credit.
LEMMA TakeFromUsed ==
    ASSUME NEW P \in Nat \ {0}, NEW R \in Nat, NEW F \in Nat, NEW k \in Int,
           NEW x \in Nat, NEW y \in Nat, NEW z \in Nat, NEW w \in Nat,
           y <= z, z < y + P, w >= P,
           k >= F - w - (P - 1) \/ k >= x + z - w - (P - 1),
           k >= F \/ k >= x + z - R - w
    PROVE  /\ y = 0 /\ x <= F - P =>
                  /\ k - P >= (x - P) + z - w - (P - 1)
                  /\ k - P >= (x - P) + z - R - w
           /\ x + y <= F => /\ k - P >= (x + y - P) - w - (P - 1)
                            /\ k - P >= (x + y - P) - R - w
           /\ x + y >= F => /\ k - P >= (F - P) - w - (P - 1)
                            /\ k - P >= (F - P) - R - w
BY SMT

LEMMA TakeFromFull ==
    ASSUME NEW P \in Nat \ {0}, NEW R \in Nat, NEW F \in Nat, NEW k \in Int,
           NEW z \in Nat, NEW w \in Nat, w >= P,
           k >= F - w,
           k >= F \/ k >= F + z - R - w
    PROVE  /\ z < P => /\ k - P >= (F - P) + z - w - (P - 1)
                       /\ k - P >= (F - P) + z - R - w
           /\ k - P >= (F - P) - w - (P - 1)
           /\ k - P >= (F - P) - R - w
<1> QED
  BY SMT

-----------------------------------------------------------------------------
(* The lookup.                                                             *)

LEMMA KnownKeeps ==
    ASSUME IInv, TypeOK', NEW r \in Requests, NEW c \in Keys, KnownVisitor(r, c)
    PROVE  IInv'
<1> USE ConstantFacts
<1>1. /\ visitors[c] # None /\ held[r] = None
      /\ key' = [key EXCEPT ![r] = c] /\ held' = [held EXCEPT ![r] = visitors[c]]
      /\ UNCHANGED <<visitors, tokens, age, late, credit>>
  BY DEF KnownVisitor
<1>2. VisitorsApart'
  BY <1>1 DEF IInv, TypeOK, VisitorsApart
<1>3. \A d \in Keys : Stale(d)' = Stale(d)
  BY <1>1 DEF IInv, TypeOK, Stale
<1>4. \A d \in Keys : Done(d)' = Done(d)
  BY <1>3 DEF Done
<1>5. StaleSoon'
  BY <1>1, <1>3 DEF IInv, StaleSoon
<1>6. CreditSound'
  BY <1>1, <1>4 DEF IInv, CreditSound, Covered, Recovers, Potential
<1> QED
  BY <1>2, <1>5, <1>6 DEF IInv

\* A new visitor is full, and its key has what stale requests left of a full
\* bucket: nobody held the visitor, so they are the same as before.
LEMMA NewKeeps ==
    ASSUME IInv, TypeOK', NEW r \in Requests, NEW c \in Keys, NEW v \in Visitors,
           NewVisitor(r, c, v)
    PROVE  IInv'
<1> USE ConstantFacts
<1>1. /\ Unused(v) /\ held[r] = None /\ visitors[c] = None /\ v # None
      /\ key' = [key EXCEPT ![r] = c] /\ held' = [held EXCEPT ![r] = v]
      /\ visitors' = [visitors EXCEPT ![c] = v]
      /\ tokens' = [tokens EXCEPT ![v] = Burst] /\ age' = [age EXCEPT ![v] = 0]
      /\ UNCHANGED <<late, credit>>
  BY DEF NewVisitor
<1>2. /\ \A d \in Keys : visitors[d] # v
      /\ \A q \in Requests : held[q] # v
  BY <1>1 DEF Unused
<1>3. VisitorsApart'
  BY <1>1, <1>2 DEF IInv, TypeOK, VisitorsApart
<1>4. \A d \in Keys : Stale(d)' = Stale(d)
  BY <1>1, <1>2 DEF IInv, TypeOK, Stale
<1>5. \A d \in Keys : Done(d)' = Done(d)
  BY <1>4 DEF Done
<1>6. /\ visitors'[c] = v /\ tokens'[v] = Burst /\ age'[v] = 0
      /\ \A d \in Keys \ {c} :
             /\ visitors'[d] = visitors[d]
             /\ visitors[d] # None => /\ tokens'[visitors[d]] = tokens[visitors[d]]
                                     /\ age'[visitors[d]] = age[visitors[d]]
  BY <1>1, <1>2 DEF IInv, TypeOK
<1>7. StaleSoon'
  <2> SUFFICES ASSUME NEW d \in Keys, visitors'[d] # None, NEW q \in Stale(d)'
               PROVE  age'[visitors'[d]] <= IF q \in late' THEN 1 ELSE 0
    BY DEF StaleSoon
  <2>1. CASE d = c
    BY <1>6, <2>1
  <2>2. CASE d # c
    BY <1>1, <1>4, <1>6, <2>2 DEF IInv, StaleSoon
  <2> QED
    BY <2>1, <2>2
<1>8. CreditSound'
  <2> SUFFICES ASSUME NEW d \in Keys PROVE Covered(d)' /\ Recovers(d)'
    BY DEF CreditSound
  <2>1. /\ credit[d] \in Int /\ Done(d) * Period \in Nat /\ Full \in Nat
    BY CreditTypes DEF IInv
  <2>2. CASE d = c
    <3>1. credit[c] >= Full - Done(c) * Period
      BY <1>1 DEF IInv, CreditSound, Covered
    <3>2. Potential(v)' = Full
      BY <1>6 DEF Potential, Full
    <3>3. Covered(c)'
      BY <1>1, <1>5, <3>1 DEF Covered, Full
    <3>4. credit[c] >= Full - Rate - Done(c) * Period
      BY <2>1, <2>2, <3>1
    <3> QED
      BY <1>1, <1>5, <1>6, <2>2, <3>2, <3>3, <3>4 DEF Recovers
  <2>3. CASE d # c
    <3>1. visitors[d] # None => Potential(visitors[d])' = Potential(visitors[d])
      BY <1>6, <2>3 DEF Potential
    <3> QED
      BY <1>1, <1>5, <1>6, <2>3, <3>1 DEF IInv, CreditSound, Covered, Recovers, Full, Potential
  <2> QED
    BY <2>2, <2>3
<1> QED
  BY <1>3, <1>7, <1>8 DEF IInv

-----------------------------------------------------------------------------
(* The cleanup.                                                            *)

\* A visitor that is old enough has made good whatever stale requests took.
LEMMA ForgetKeeps ==
    ASSUME IInv, TypeOK', NEW c \in Keys, Forget(c)
    PROVE  IInv'
<1> USE ConstantFacts
<1>1. /\ visitors[c] # None /\ age[visitors[c]] > Cleanup
      /\ visitors' = [visitors EXCEPT ![c] = None]
      /\ UNCHANGED <<tokens, age, key, held, late, credit>>
  BY DEF Forget, request
<1>2. VisitorsApart'
  BY <1>1 DEF IInv, TypeOK, VisitorsApart
<1>3. visitors'[c] = None /\ \A d \in Keys \ {c} : visitors'[d] = visitors[d]
  BY <1>1 DEF IInv, TypeOK
<1>4. \A d \in Keys \ {c} : Stale(d)' = Stale(d)
  BY <1>1, <1>3 DEF Stale
<1>5. \A d \in Keys \ {c} : Done(d)' = Done(d)
  BY <1>4 DEF Done
<1>6. StaleSoon'
  BY <1>1, <1>3, <1>4 DEF IInv, StaleSoon
<1>7. Covered(c)' /\ Recovers(c)'
  <2> DEFINE v == visitors[c]
             z == age[v] * Rate
             x == tokens[v] * Period
             w == Done(c) * Period
             b == Burst * Period
             n == Cardinality(Requests) * Period
  <2>1. /\ credit[c] \in Int /\ w \in Nat /\ x \in Nat /\ z \in Nat
        /\ age[v] = Cleanup + 1 /\ Done(c) \in Nat /\ Done(c) <= Cardinality(Requests)
    BY <1>1, CreditTypes DEF IInv
  <2>2. z >= b + n + Rate
    <3>1. z = Cleanup * Rate + Rate
      BY <2>1
    <3>2. (Burst + Cardinality(Requests)) * Period = b + n
      OBVIOUS
    <3>3. Cleanup * Rate \in Nat /\ b \in Nat /\ n \in Nat
      BY Products
    <3> HIDE DEF z, b, n
    <3> QED
      BY <3>1, <3>2, <3>3
  <2>3. w <= n
    BY <2>1
  <2>4. credit[c] >= b \/ credit[c] >= x + z - Rate - w
    <3>1. Recovers(c)
      BY DEF IInv, CreditSound
    <3>2. credit[c] >= Full \/ credit[c] >= Potential(v) - Rate - w
      BY <1>1, <3>1 DEF Recovers
    <3>3. Potential(v) = x + z /\ Full = b
      BY DEF Potential, Full
    <3> HIDE DEF x, z, w, b
    <3> QED
      BY <2>1, <3>2, <3>3
  <2>5. credit[c] >= b
    <3>1. b \in Nat /\ n \in Nat
      BY Products
    <3> HIDE DEF x, z, w, b, n
    <3> QED
      BY <2>1, <2>2, <2>3, <2>4, <3>1
  <2>6. Done(c)' \in Nat
    BY DoneFacts DEF Done
  <2>7. Done(c)' * Period \in Nat
    BY <2>6, Products
  <2>8. credit[c] >= b - Done(c)' * Period
    <3>1. b \in Nat
      BY Products
    <3> HIDE DEF b
    <3> QED
      BY <2>1, <2>5, <2>7, <3>1
  <2> QED
    BY <1>1, <1>3, <2>8 DEF Covered, Recovers, Full
<1>8. CreditSound'
  BY <1>1, <1>3, <1>5, <1>7 DEF IInv, CreditSound, Covered, Recovers, Full, Potential
<1> QED
  BY <1>2, <1>6, <1>8 DEF IInv

-----------------------------------------------------------------------------
(* A unit of time.                                                         *)

LEMMA TickKeeps ==
    ASSUME IInv, TypeOK', Tick
    PROVE  IInv'
<1> USE ConstantFacts
<1>1. /\ late = {} /\ late' = {r \in Requests : held[r] # None}
      /\ UNCHANGED <<visitors, tokens, key, held, answer>>
  BY DEF Tick
<1>2. VisitorsApart'
  BY <1>1 DEF IInv, VisitorsApart
<1>3. \A c \in Keys : Stale(c)' = Stale(c)
  BY <1>1 DEF Stale
<1>4. \A c \in Keys : Done(c)' = Done(c)
  BY <1>3 DEF Done
<1>5. ASSUME NEW c \in Keys, visitors[c] # None
      PROVE  \/ age'[visitors[c]] = age[visitors[c]] + 1
             \/ age'[visitors[c]] = age[visitors[c]]
  <2> DEFINE v == visitors[c]
  <2>1. v \in Visitors /\ age[v] \in 0..Cleanup + 1
    BY <1>5, CreditTypes DEF IInv
  <2>2. ~Unused(v)
    BY DEF Unused
  <2>3. age'[v] = Min({age[v] + 1, Cleanup + 1})
    BY <2>1, <2>2 DEF Tick
  <2>4. Min({age[v] + 1, Cleanup + 1}) =
            IF age[v] + 1 <= Cleanup + 1 THEN age[v] + 1 ELSE Cleanup + 1
    BY <2>1, MinOfTwo
  <2> QED
    BY <2>1, <2>3, <2>4
<1>6. StaleSoon'
  <2> SUFFICES ASSUME NEW c \in Keys, visitors'[c] # None, NEW r \in Stale(c)'
               PROVE  age'[visitors'[c]] <= IF r \in late' THEN 1 ELSE 0
    BY DEF StaleSoon
  <2>1. visitors[c] # None /\ r \in Stale(c) /\ r \in late' /\ r \notin late
    BY <1>1, <1>3 DEF Stale
  <2>2. age[visitors[c]] <= 0
    BY <2>1 DEF IInv, StaleSoon
  <2>3. age[visitors[c]] \in 0..Cleanup + 1
    BY <2>1, CreditTypes DEF IInv
  <2> QED
    BY <1>1, <1>5, <2>1, <2>2, <2>3
<1>7. ASSUME NEW c \in Keys
      PROVE  Covered(c)' /\ Recovers(c)'
  <2> DEFINE w == Done(c) * Period
             k == credit[c]
  <2>1. k \in Int /\ w \in Nat /\ Full \in Nat
    BY CreditTypes DEF IInv
  <2>2. credit'[c] = IF k + Rate <= Full THEN k + Rate ELSE Full
    <3>1. credit'[c] = Min({k + Rate, Full})
      BY DEF Tick, Full
    <3> QED
      BY <2>1, <3>1, MinOfTwo
  <2>3. (Done(c) * Period)' = w /\ Full' = Full
    BY <1>4 DEF Full
  <2>4. Covered(c) /\ Recovers(c)
    BY DEF IInv, CreditSound
  <2>5. CASE visitors[c] = None
    <3>1. k >= Full - w
      BY <2>4, <2>5 DEF Covered
    <3> HIDE DEF w, k
    <3>2. credit'[c] >= Full - w
      BY <2>1, <2>2, <3>1
    <3> QED
      BY <1>1, <2>3, <2>5, <3>2 DEF Covered, Recovers
  <2>6. CASE visitors[c] # None
    <3> DEFINE v == visitors[c]
               p == Potential(v)
               q == Potential(v)'
    <3>1. /\ v \in Visitors /\ tokens[v] \in Nat /\ age[v] \in Nat
          /\ tokens[v] * Period \in Nat /\ age[v] * Rate \in Nat /\ p \in Nat
      BY <2>6, CreditTypes DEF IInv
    <3>2. visitors'[c] = v /\ tokens'[v] = tokens[v] /\ v # None
      BY <1>1, <2>6
    <3>3. q = p + Rate \/ q = p
      <4>1. q = tokens'[visitors'[c]] * Period + age'[visitors'[c]] * Rate
        BY DEF Potential
      <4>2. age'[v] = age[v] + 1 \/ age'[v] = age[v]
        BY <1>5, <2>6
      <4>3. (age[v] + 1) * Rate = age[v] * Rate + Rate
        BY <3>1
      <4>4. \/ age'[v] * Rate = age[v] * Rate + Rate
            \/ age'[v] * Rate = age[v] * Rate
        BY <4>2, <4>3
      <4>5. q = tokens[v] * Period + age'[v] * Rate
        BY <3>2, <4>1
      <4>6. p = tokens[v] * Period + age[v] * Rate
        BY DEF Potential
      <4> DEFINE x == tokens[v] * Period
                 z == age[v] * Rate
      <4>7. x \in Nat /\ z \in Nat /\ (q = x + z + Rate \/ q = x + z) /\ p = x + z
        BY <3>1, <4>4, <4>5, <4>6
      <4> HIDE DEF x, z, p, q
      <4> QED
        BY <4>7
    <3>4. /\ \/ k >= Full - w
             \/ /\ tokens[v] # Burst
                /\ k >= Full - w - (Period - 1) \/ k >= p - w - (Period - 1)
          /\ k >= Full \/ k >= p - Rate - w
      BY <2>4, <2>6 DEF Covered, Recovers
    <3> HIDE DEF w, k, p, q
    <3>5. /\ \/ credit'[c] >= Full - w
             \/ /\ tokens[v] # Burst
                /\ \/ credit'[c] >= Full - w - (Period - 1)
                   \/ credit'[c] >= q - w - (Period - 1)
          /\ credit'[c] >= Full \/ credit'[c] >= q - Rate - w
      BY <2>1, <2>2, <3>1, <3>3, <3>4
    <3> QED
      BY <2>3, <3>2, <3>5 DEF Covered, Recovers, q
  <2> QED
    BY <2>5, <2>6
<1> QED
  BY <1>2, <1>6, <1>7 DEF IInv, CreditSound

-----------------------------------------------------------------------------
(* A request counts under its visitor's lock.                              *)

\* What Allow does with a key d and its visitor v.
Takes(r, d, v) ==
    /\ tokens' = [tokens EXCEPT ![v] = IF Refilled(v) > 0 THEN Refilled(v) - 1 ELSE 0]
    /\ age' = [age EXCEPT ![v] = IF TokensToAdd(v) > 0 THEN 0 ELSE age[v]]
    /\ credit' = [credit EXCEPT ![d] = IF Refilled(v) > 0 THEN credit[d] - Period
                                       ELSE credit[d]]
    /\ held' = [held EXCEPT ![r] = None] /\ late' = late \ {r}
    /\ UNCHANGED <<visitors, key>>

LEMMA AllowTakes ==
    ASSUME IInv, NEW r \in Requests, Allow(r)
    PROVE  /\ held[r] \in Visitors /\ held[r] # None /\ key[r] \in Keys
           /\ Takes(r, key[r], held[r])
<1>1. held[r] # None
  BY DEF Allow
<1>2. held[r] \in Visitors /\ key[r] \in Keys
  BY <1>1 DEF IInv, TypeOK, VisitorsApart
<1>3. /\ tokens' = [tokens EXCEPT ![held[r]] =
                       IF Refilled(held[r]) > 0 THEN Refilled(held[r]) - 1 ELSE 0]
      /\ age' = [age EXCEPT ![held[r]] =
                    IF TokensToAdd(held[r]) > 0 THEN 0 ELSE age[held[r]]]
      /\ Answer(r, Refilled(held[r]) > 0)
  BY DEF Allow, IInv, TypeOK
<1> QED
  BY <1>1, <1>2, <1>3 DEF Takes, Answer, IInv, TypeOK

\* The other keys have other visitors.
LEMMA OthersUntouched ==
    ASSUME IInv, NEW r \in Requests, NEW d \in Keys, NEW v \in Visitors,
           v = held[r], v # None, d = key[r], Takes(r, d, v),
           NEW c \in Keys, c # d
    PROVE  /\ Stale(c)' = Stale(c) /\ Done(c)' = Done(c)
           /\ visitors'[c] = visitors[c] /\ credit'[c] = credit[c]
           /\ visitors[c] # None => /\ tokens'[visitors[c]] = tokens[visitors[c]]
                                   /\ age'[visitors[c]] = age[visitors[c]]
<1>1. visitors[c] # v
  BY DEF IInv, VisitorsApart
<1>2. Stale(c)' = Stale(c)
  BY DEF Takes, Stale, IInv, TypeOK
<1>3. Done(c)' = Done(c)
  BY <1>2 DEF Done
<1>4. visitors[c] # None => /\ tokens'[visitors[c]] = tokens[visitors[c]]
                           /\ age'[visitors[c]] = age[visitors[c]]
  BY <1>1 DEF Takes, IInv, TypeOK
<1>5. visitors'[c] = visitors[c] /\ credit'[c] = credit[c]
  BY DEF Takes, IInv, TypeOK
<1> QED
  BY <1>2, <1>3, <1>4, <1>5

\* A stale request takes from a visitor that its key has no more: it leaves the
\* stale ones, which allows for its token.
LEMMA StaleTakes ==
    ASSUME IInv, NEW r \in Requests, NEW d \in Keys, NEW v \in Visitors,
           v = held[r], v # None, d = key[r], Takes(r, d, v), v # visitors[d]
    PROVE  /\ Stale(d)' = Stale(d) \ {r}
           /\ visitors[d] # None => /\ tokens'[visitors[d]] = tokens[visitors[d]]
                                   /\ age'[visitors[d]] = age[visitors[d]]
           /\ Covered(d)' /\ Recovers(d)'
<1> USE ConstantFacts
<1>1. Stale(d)' = Stale(d) \ {r} /\ r \in Stale(d)
  BY DEF Takes, Stale, IInv, TypeOK
<1>2. visitors[d] # None => /\ tokens'[visitors[d]] = tokens[visitors[d]]
                           /\ age'[visitors[d]] = age[visitors[d]]
  BY DEF Takes, IInv, TypeOK
<1>3. visitors'[d] = visitors[d]
  BY DEF Takes
<1> DEFINE w == Done(d) * Period
           k == credit[d]
<1>4. k \in Int /\ w \in Nat /\ Full \in Nat /\ Done(d) \in Nat
  BY CreditTypes DEF IInv
<1>5. (Done(d) * Period)' = w + Period
  <2>1. Done(d)' = Done(d) + 1
    BY <1>1, DoneFacts DEF Done
  <2>2. (Done(d) + 1) * Period = w + Period
    BY <1>4
  <2> QED
    BY <2>1, <2>2
<1>6. credit'[d] >= k - Period /\ credit'[d] \in Int
  BY <1>4 DEF Takes, IInv, TypeOK
<1>7. Covered(d) /\ Recovers(d)
  BY DEF IInv, CreditSound
<1>8. CASE visitors[d] = None
  <2>1. k >= Full - w
    BY <1>7, <1>8 DEF Covered
  <2>2. credit'[d] >= Full - (w + Period)
    <3> HIDE DEF w, k
    <3> QED
      BY <1>4, <1>6, <2>1
  <2>3. Full' = Full
    BY DEF Full
  <2> QED
    BY <1>1, <1>3, <1>5, <1>8, <2>2, <2>3 DEF Covered, Recovers
<1>9. CASE visitors[d] # None
  <2> DEFINE u == visitors[d]
             x == tokens[u] * Period
             z == age[u] * Rate
  <2>1. /\ tokens[u] \in 0..Burst /\ age[u] \in 0..Cleanup + 1 /\ x \in Nat /\ z \in Nat
    BY <1>9, CreditTypes DEF IInv
  <2>2. Potential(u) = x + z /\ Potential(u)' = x + z /\ Full' = Full
    BY <1>2, <1>3, <1>9 DEF Potential, Full
  \* The key's visitor is as young as the request is old.
  <2>3. z <= Rate
    <3>1. age[u] <= 1
      BY <1>1, <1>9, <2>1 DEF IInv, StaleSoon
    <3>2. age[u] = 0 \/ age[u] = 1
      BY <2>1, <3>1
    <3> QED
      BY <3>2
  <2>4. x <= Full
    BY <2>1 DEF Full
  <2>5. /\ \/ k >= Full - w
           \/ /\ tokens[u] # Burst
              /\ k >= Full - w - (Period - 1) \/ k >= (x + z) - w - (Period - 1)
        /\ k >= Full \/ k >= (x + z) - Rate - w
    BY <1>7, <1>9, <2>2 DEF Covered, Recovers
  <2>6. /\ \/ credit'[d] >= Full - (w + Period)
           \/ /\ tokens[u] # Burst
              /\ \/ credit'[d] >= Full - (w + Period) - (Period - 1)
                 \/ credit'[d] >= (x + z) - (w + Period) - (Period - 1)
        /\ credit'[d] >= (x + z) - Rate - (w + Period)
    <3> HIDE DEF x, z, w, k
    <3> QED
      BY <1>4, <1>6, <2>1, <2>3, <2>4, <2>5
  <2>7. visitors'[d] # None /\ tokens'[visitors'[d]] = tokens[u]
        /\ Potential(visitors[d])' = x + z
    BY <1>2, <1>3, <1>9, <2>2
  <2>8. Covered(d)'
    BY <1>5, <2>2, <2>6, <2>7 DEF Covered
  <2>9. Recovers(d)'
    BY <1>5, <2>2, <2>6, <2>7 DEF Recovers
  <2> QED
    BY <1>1, <1>2, <2>8, <2>9
<1> QED
  BY <1>8, <1>9

\* A request that holds its key's visitor takes from what that visitor has.
LEMMA HolderTakes ==
    ASSUME IInv, NEW r \in Requests, NEW d \in Keys, NEW v \in Visitors,
           v = held[r], v # None, d = key[r], Takes(r, d, v), v = visitors[d]
    PROVE  /\ Stale(d)' = Stale(d)
           /\ age'[v] = 0 \/ age'[v] = age[v]
           /\ Covered(d)' /\ Recovers(d)'
<1> USE ConstantFacts
<1>1. Stale(d)' = Stale(d) /\ r \in Requests \ Stale(d)
  BY DEF Takes, Stale, IInv, TypeOK
<1>2. Done(d)' = Done(d) /\ Done(d) >= 1
  BY <1>1, DoneFacts DEF Done
<1>3. visitors'[d] = v /\ Full' = Full
  BY DEF Takes, Full
<1> DEFINE w == Done(d) * Period
           k == credit[d]
           t == tokens[v]
           n == TokensToAdd(v)
           x == t * Period
           y == n * Period
           z == age[v] * Rate
           f == Refilled(v)
<1>4. /\ k \in Int /\ w \in Nat /\ Full \in Nat /\ Done(d) \in Nat
      /\ t \in 0..Burst /\ age[v] \in 0..Cleanup + 1 /\ x \in Nat /\ z \in Nat
  BY CreditTypes DEF IInv
<1>5. /\ n \in Nat /\ y <= z /\ z < y + Period /\ f \in 0..Burst
      /\ f = IF t + n <= Burst THEN t + n ELSE Burst
  BY RefilledTypes DEF IInv
<1>6. w >= Period
  BY <1>2, <1>4
<1>7. y \in Nat
  BY <1>5, Products
<1>8. /\ tokens'[v] = IF f > 0 THEN f - 1 ELSE 0
      /\ age'[v] = IF n > 0 THEN 0 ELSE age[v]
      /\ credit'[d] = IF f > 0 THEN k - Period ELSE k
  BY DEF Takes, IInv, TypeOK
<1>9. /\ \/ k >= Full - w
         \/ /\ t # Burst
            /\ k >= Full - w - (Period - 1) \/ k >= (x + z) - w - (Period - 1)
      /\ k >= Full \/ k >= (x + z) - Rate - w
  <2>1. Covered(d) /\ Recovers(d)
    BY DEF IInv, CreditSound
  <2> QED
    BY <2>1 DEF Covered, Recovers, Potential
<1>10. (Done(d) * Period)' = w /\ Potential(v)' = tokens'[v] * Period + age'[v] * Rate
  BY <1>2 DEF Potential
<1> DEFINE q == tokens'[v] * Period + age'[v] * Rate
\* It suffices that what is left covers what the visitor can give.
<1>11. ASSUME q \in Nat, credit'[d] \in Int, tokens'[v] # Burst,
              credit'[d] >= q - w - (Period - 1), credit'[d] >= q - Rate - w
       PROVE  Covered(d)' /\ Recovers(d)'
  BY <1>3, <1>10, <1>11 DEF Covered, Recovers, Potential
<1>12. t = Burst => x = Full
  BY DEF Full
<1>13. t # Burst => x <= Full - Period
  <2> SUFFICES ASSUME t # Burst PROVE x <= Full - Period
    OBVIOUS
  <2>1. t <= Burst - 1
    BY <1>4
  <2>2. t * Period <= (Burst - 1) * Period
    BY <1>4, <2>1
  <2>3. (Burst - 1) * Period = Full - Period
    BY DEF Full
  <2> QED
    BY <2>2, <2>3
<1>14. ASSUME f = 0
       PROVE  Covered(d)' /\ Recovers(d)'
  <2>1. t = 0 /\ n = 0 /\ tokens'[v] = 0 /\ age'[v] = age[v] /\ credit'[d] = k
    BY <1>4, <1>5, <1>8, <1>14
  <2>2. q = x + z
    BY <2>1
  <2>3. x = 0 /\ y = 0 /\ z < Period /\ Full >= Period
    <3>1. x = 0 /\ y = 0
      BY <2>1
    <3>2. t # Burst
      BY <2>1
    <3>3. z < Period
      <4> HIDE DEF x, y, z, t
      <4> QED
        BY <1>4, <1>5, <3>1
    <3> HIDE DEF x, y, z, t
    <3> QED
      BY <1>4, <1>13, <3>1, <3>2, <3>3
  <2>4. k >= (x + z) - w - (Period - 1) /\ k >= (x + z) - Rate - w
    <3> HIDE DEF x, y, z, w, k, t
    <3> QED
      BY <1>4, <1>6, <1>9, <2>3
  <2>5. q \in Nat /\ credit'[d] \in Int /\ tokens'[v] # Burst
    BY <1>4, <2>1, <2>2
  <2> HIDE DEF q, k, x, z, w
  <2> QED
    BY <1>11, <2>1, <2>2, <2>4, <2>5
<1>15. ASSUME f > 0
       PROVE  Covered(d)' /\ Recovers(d)'
  <2>1. /\ tokens'[v] = f - 1 /\ credit'[d] = k - Period /\ tokens'[v] # Burst
        /\ f * Period \in Nat /\ (f - 1) * Period \in Nat
        /\ (f - 1) * Period = f * Period - Period
    BY <1>5, <1>8, <1>15
  <2>2. CASE n = 0
    <3>1. f = t /\ y = 0 /\ age'[v] = age[v]
      BY <1>4, <1>5, <1>8, <2>2
    <3>2. q = (x - Period) + z
      BY <2>1, <3>1
    <3>3. q \in Nat
      BY <1>4, <2>1, <3>1
    <3>4. k - Period >= (x - Period) + z - w - (Period - 1)
      <4> HIDE DEF x, y, z, w, k, t, n, f
      <4> QED
        BY <1>4, <1>5, <1>6, <1>7, <1>9, <1>12, <1>13, <3>1, TakeFromUsed, TakeFromFull
    <3>5. k - Period >= (x - Period) + z - Rate - w
      <4> HIDE DEF x, y, z, w, k, t, n, f
      <4> QED
        BY <1>4, <1>5, <1>6, <1>7, <1>9, <1>12, <1>13, <3>1, TakeFromUsed, TakeFromFull
    <3>6. credit'[d] \in Int
      BY <1>4, <2>1
    <3>7. /\ credit'[d] >= q - w - (Period - 1)
          /\ credit'[d] >= q - Rate - w
      <4> HIDE DEF q, k, x, z, w, f, t
      <4> QED
        BY <1>4, <2>1, <3>2, <3>4, <3>5
    <3> HIDE DEF q, k, x, z, w, f
    <3> QED
      BY <1>11, <2>1, <3>3, <3>6, <3>7
  <2>3. CASE n > 0
    <3>1. age'[v] = 0
      BY <1>8, <2>3
    <3>2. q = f * Period - Period /\ q \in Nat
      BY <2>1, <3>1
    <3>3. \/ f * Period = Full /\ x + y >= Full
          \/ f * Period = x + y /\ x + y <= Full /\ t # Burst
      <4>1. CASE t + n <= Burst
        <5>1. (t + n) * Period = x + y
          BY <1>4, <1>5
        <5>2. (t + n) * Period <= Burst * Period
          BY <1>4, <1>5, <4>1
        <5>3. t # Burst
          BY <1>4, <1>5, <2>3, <4>1
        <5> QED
          BY <1>5, <4>1, <5>1, <5>2, <5>3 DEF Full
      <4>2. CASE t + n > Burst
        <5>1. (t + n) * Period = x + y
          BY <1>4, <1>5
        <5>2. (t + n) * Period >= Burst * Period
          BY <1>4, <1>5, <4>2
        <5> QED
          BY <1>4, <1>5, <4>2, <5>1, <5>2 DEF Full
      <4> QED
        BY <1>4, <1>5, <4>1, <4>2
    <3>4. /\ k - Period >= (f * Period - Period) - w - (Period - 1)
          /\ k - Period >= (f * Period - Period) - Rate - w
      <4> DEFINE g == f * Period
      <4> HIDE DEF x, y, z, w, k, t, n, g, f
      <4>1. CASE k >= Full - w
        <5>1. g <= Full /\ g \in Nat
          BY <1>4, <1>7, <2>1, <3>3 DEF g
        <5> QED
          BY <1>4, <5>1, <4>1 DEF g
      <4>2. CASE /\ t # Burst
                 /\ k >= Full - w - (Period - 1) \/ k >= (x + z) - w - (Period - 1)
        BY <1>4, <1>5, <1>6, <1>7, <1>9, <3>3, <4>2, TakeFromUsed DEF g
      <4> QED
        BY <1>9, <4>1, <4>2
    <3>5. credit'[d] \in Int
      BY <1>4, <2>1
    <3> HIDE DEF q, k, x, z, w, f
    <3> QED
      BY <1>11, <2>1, <3>2, <3>4, <3>5
  <2> QED
    BY <1>5, <2>2, <2>3
<1>16. age'[v] = 0 \/ age'[v] = age[v]
  BY <1>8
<1> QED
  BY <1>1, <1>5, <1>14, <1>15, <1>16

LEMMA AllowKeeps ==
    ASSUME IInv, TypeOK', NEW r \in Requests, Allow(r)
    PROVE  IInv'
<1>0. PICK d \in Keys, v \in Visitors : d = key[r] /\ v = held[r]
  BY AllowTakes
<1>1. v = held[r] /\ v # None /\ d = key[r] /\ Takes(r, d, v)
  BY <1>0, AllowTakes
<1>2. /\ held' = [held EXCEPT ![r] = None] /\ late' = late \ {r}
      /\ UNCHANGED <<visitors, key>>
  BY <1>1 DEF Takes
<1>3. VisitorsApart'
  BY <1>2 DEF IInv, TypeOK, VisitorsApart
<1>4. ASSUME NEW c \in Keys, c # d
      PROVE  /\ Stale(c)' = Stale(c) /\ Done(c)' = Done(c)
             /\ visitors'[c] = visitors[c] /\ credit'[c] = credit[c]
             /\ visitors[c] # None => /\ tokens'[visitors[c]] = tokens[visitors[c]]
                                     /\ age'[visitors[c]] = age[visitors[c]]
  BY <1>1, <1>4, OthersUntouched
<1>5. /\ Stale(d)' \subseteq Stale(d) \ {r}
      /\ visitors[d] # None =>
             age'[visitors[d]] = 0 \/ age'[visitors[d]] = age[visitors[d]]
      /\ Covered(d)' /\ Recovers(d)'
  <2>1. CASE v = visitors[d]
    <3>1. r \notin Stale(d)
      BY <1>1, <2>1 DEF Stale
    <3> QED
      BY <1>1, <2>1, <3>1, HolderTakes
  <2>2. CASE v # visitors[d]
    BY <1>1, <2>2, StaleTakes
  <2> QED
    BY <2>1, <2>2
<1>6. StaleSoon'
  <2> SUFFICES ASSUME NEW c \in Keys, visitors'[c] # None, NEW q \in Stale(c)'
               PROVE  age'[visitors'[c]] <= IF q \in late' THEN 1 ELSE 0
    BY DEF StaleSoon
  <2>1. q \in Stale(c) /\ q # r
    <3>1. CASE c = d
      BY <1>5, <3>1
    <3>2. CASE c # d
      <4>1. q \in Stale(c)
        BY <1>4, <3>2
      <4>2. r \notin Stale(c)
        BY <1>1, <3>2 DEF Stale
      <4> QED
        BY <4>1, <4>2
    <3> QED
      BY <3>1, <3>2
  <2>2. visitors'[c] = visitors[c] /\ (q \in late' <=> q \in late)
    BY <1>2, <2>1
  <2>3. age[visitors[c]] <= IF q \in late THEN 1 ELSE 0
    BY <2>1, <2>2 DEF IInv, StaleSoon
  <2>4. age'[visitors[c]] = 0 \/ age'[visitors[c]] = age[visitors[c]]
    BY <1>4, <1>5, <2>2
  <2> QED
    BY <2>2, <2>3, <2>4
<1>7. CreditSound'
  <2> SUFFICES ASSUME NEW c \in Keys PROVE Covered(c)' /\ Recovers(c)'
    BY DEF CreditSound
  <2>1. CASE c # d
    <3>1. visitors[c] # None => Potential(visitors[c])' = Potential(visitors[c])
      BY <1>4, <2>1 DEF Potential
    <3> QED
      BY <1>4, <2>1, <3>1 DEF IInv, CreditSound, Covered, Recovers, Full, Potential
  <2> QED
    BY <1>5, <2>1
<1> QED
  BY <1>3, <1>6, <1>7 DEF IInv

-----------------------------------------------------------------------------
(* The theorems.                                                           *)

LEMMA InvInitially == Init => IInv
<1> SUFFICES ASSUME Init PROVE IInv
  OBVIOUS
<1>1. TypeOK
  BY TypesInitially
<1>2. \A c \in Keys : visitors[c] = None
  BY DEF Init
<1>3. VisitorsApart /\ StaleSoon
  BY <1>2 DEF Init, VisitorsApart, StaleSoon
<1>4. ASSUME NEW c \in Keys
      PROVE  Covered(c) /\ Recovers(c)
  <2>1. credit[c] = Full
    BY DEF Init, Full
  <2>2. Done(c) * Period \in Nat /\ Full \in Nat
    BY <1>1, CreditTypes
  <2>3. credit[c] >= Full - Done(c) * Period
    BY <2>1, <2>2
  <2> QED
    BY <1>2, <2>3 DEF Covered, Recovers
<1> QED
  BY <1>1, <1>3, <1>4 DEF IInv, CreditSound

LEMMA InvKept == IInv /\ [Next]_vars => IInv'
<1> SUFFICES ASSUME IInv, [Next]_vars PROVE IInv'
  OBVIOUS
<1>1. TypeOK'
  BY TypesKept DEF IInv
<1>2. ASSUME NEW r \in Requests, NEW c \in Keys, LookUp(r, c)
      PROVE  IInv'
  BY <1>1, <1>2, LookUpCases, KnownKeeps, NewKeeps DEF IInv
<1>3. ASSUME NEW r \in Requests, Allow(r)
      PROVE  IInv'
  BY <1>1, <1>3, AllowKeeps
<1>4. ASSUME NEW c \in Keys, Forget(c)
      PROVE  IInv'
  BY <1>1, <1>4, ForgetKeeps
<1>5. CASE Tick
  BY <1>1, <1>5, TickKeeps
<1>6. CASE UNCHANGED vars
  <2>1. \A c \in Keys : Stale(c)' = Stale(c)
    BY <1>6 DEF vars, limiter, request, Stale
  <2>2. \A c \in Keys : Done(c)' = Done(c)
    BY <2>1 DEF Done
  <2>3. VisitorsApart' /\ StaleSoon'
    BY <1>6, <2>1 DEF IInv, vars, limiter, request, VisitorsApart, StaleSoon
  <2>4. CreditSound'
    BY <1>6, <2>2
       DEF IInv, vars, limiter, request, CreditSound, Covered, Recovers, Full, Potential
  <2> QED
    BY <1>1, <2>3, <2>4 DEF IInv
<1> QED
  BY <1>2, <1>3, <1>4, <1>5, <1>6, NextByKey

\* The variables keep their types: a request without a visitor always finds an
\* object for one, and allow leaves no bucket more than full.
THEOREM TypeCorrect == Spec => []TypeOK
<1> QED
  BY TypesInitially, TypesKept, PTL DEF Spec

\* In whatever time the requests of a key get no more than a burst, the tokens of that
\* time, one for each request that was between the two locks of allow while its visitor
\* was forgotten, and a part of one: a visitor is forgotten only when it would be full
\* again, whatever such requests took.
THEOREM KeyRateKeptCorrect == Spec => []KeyRateKept
<1>1. IInv => KeyRateKept
  <2> SUFFICES ASSUME IInv, NEW c \in Keys
               PROVE  credit[c] > -(Cardinality(Requests) + 1) * Period
    BY DEF KeyRateKept
  <2> DEFINE w == Done(c) * Period
             n == Cardinality(Requests) * Period
  <2>1. /\ credit[c] \in Int /\ Full \in Nat /\ w \in Nat
        /\ Done(c) \in Nat /\ Done(c) <= Cardinality(Requests)
        /\ visitors[c] # None => Potential(visitors[c]) \in Nat
    BY CreditTypes DEF IInv
  <2>2. w <= n /\ n \in Nat
    BY <2>1, ConstantFacts
  <2>3. -(Cardinality(Requests) + 1) * Period = -n - Period
    BY ConstantFacts
  <2>4. Covered(c)
    BY DEF IInv, CreditSound
  <2>5. \/ credit[c] >= Full - w
        \/ credit[c] >= Full - w - (Period - 1)
        \/ visitors[c] # None /\ credit[c] >= Potential(visitors[c]) - w - (Period - 1)
    BY <2>4 DEF Covered
  <2> HIDE DEF w, n
  <2>6. credit[c] > -n - Period
    BY <2>1, <2>2, <2>5, ConstantFacts
  <2> QED
    BY <2>3, <2>6
<1> QED
  BY <1>1, InvInitially, InvKept, PTL DEF Spec
=============================================================================
