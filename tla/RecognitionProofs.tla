---------------------------- MODULE RecognitionProofs ----------------------------
(* Proofs, for any library, any shortlists and any policies, that what acceptance *)
(* publishes is true of the library, that it refuses only for a change and that   *)
(* a face search does not contradict the run.                                     *)
EXTENDS Recognition, FiniteSetTheorems, SequenceTheorems, WellFoundedInduction, TLAPS

-----------------------------------------------------------------------------
(* Grades *)

Grade == 0..Top

\* A set of numbers has a least one.
LEMMA LeastOfNaturals ==
  ASSUME NEW S \in SUBSET Nat, S # {}
  PROVE  \E m \in S : \A y \in S : m <= y
<1>1. PICK m \in S : \A y \in S : ~(<<y, m>> \in OpToRel(<, Nat))
  BY WFMin, NatLessThanWellFounded
<1>2. \A y \in S : ~(y < m)
  BY <1>1 DEF OpToRel
<1> QED
  BY <1>2

\* The best of a set of grades is one of them, and none is better.
LEMMA BestGrade ==
  ASSUME NEW S \in SUBSET Grade, S # {}
  PROVE  MaxOf(S) \in S /\ \A y \in S : MaxOf(S) >= y
<1> DEFINE Left == {Top - x : x \in S}
<1>1. \A x \in S : Top - x \in Nat
  BY LibraryAssumption DEF Grade
<1>2. Left \subseteq Nat /\ Left # {}
  BY <1>1
<1>3. PICK m \in Left : \A y \in Left : m <= y
  BY <1>2, LeastOfNaturals
<1>4. PICK x \in S : m = Top - x
  OBVIOUS
<1>5. \A y \in S : x >= y
  <2> TAKE y \in S
  <2>1. Top - y \in Left
    OBVIOUS
  <2>2. Top - x <= Top - y
    BY <2>1, <1>3, <1>4
  <2> QED
    BY <2>2, LibraryAssumption DEF Grade
<1> QED
  BY <1>5 DEF MaxOf

-----------------------------------------------------------------------------
(* The library *)

LibraryOK ==
    /\ similar \in [Face \cup {Itself} -> Grade]
    /\ owner \in [Face -> Identities \cup {None, "GONE"}]

LEMMA LibraryTyped == TypeOK => LibraryOK
BY DEF TypeOK, LibraryOK, Grade

\* The face to be decided is none of the remembered ones, which are finitely many.
LEMMA FacesAreFinite ==
  /\ Itself \notin Face
  /\ IsFiniteSet(Face)
  /\ \A T \in SUBSET Face : IsFiniteSet(T) /\ Cardinality(T) \in Nat
<1>1. IsFiniteSet(Face)
  BY FS_Interval, LibraryAssumption DEF Face
<1> QED
  <2>1. \A T \in SUBSET Face : IsFiniteSet(T) /\ Cardinality(T) \in Nat
    BY <1>1, FS_Subset, FS_CardinalityType
  <2>2. Itself \notin Face
    BY LibraryAssumption DEF Face, Itself
  <2> QED
    BY <1>1, <2>1, <2>2

-----------------------------------------------------------------------------
(* Groups of the faces of one identity *)

\* The candidate that a face of the shortlist T belongs to.
CandidateOf(f, T) ==
    [identity |-> OwnerOf(f), members |-> GroupOf(f, T),
     similarity |-> MaxOf({similar[g] : g \in GroupOf(f, T)})]

\* A candidate has its face, only faces of the shortlist, all of its identity, and the
\* grade of its best face.
LEMMA CandidateFacts ==
  ASSUME LibraryOK, NEW T \in SUBSET Face, NEW f \in T
  PROVE  LET c == CandidateOf(f, T) IN
         /\ f \in c.members /\ c.members \subseteq T
         /\ c.identity = owner[f]
         /\ \A g \in c.members : owner[g] = c.identity
         /\ c.similarity = MaxOf({similar[g] : g \in c.members})
         /\ c.similarity \in Grade
         /\ \E g \in c.members : similar[g] = c.similarity
         /\ \A g \in c.members : similar[g] <= c.similarity
<1> DEFINE M == GroupOf(f, T)
           grades == {similar[g] : g \in M}
<1>1. \A g \in Face : OwnerOf(g) = owner[g] /\ similar[g] \in Grade
  BY FacesAreFinite DEF OwnerOf, LibraryOK
<1>2. f \in M /\ M \subseteq T
  BY <1>1 DEF GroupOf
<1>3. \A g \in M : owner[g] = owner[f]
  BY <1>1 DEF GroupOf
<1>4. grades \in SUBSET Grade /\ grades # {}
  BY <1>1, <1>2
<1>5. MaxOf(grades) \in grades /\ \A y \in grades : MaxOf(grades) >= y
  BY <1>4, BestGrade
<1>6. /\ MaxOf(grades) \in Grade
      /\ \E g \in M : similar[g] = MaxOf(grades)
      /\ \A g \in M : similar[g] <= MaxOf(grades)
  <2>1. \A g \in M : similar[g] \in grades
    OBVIOUS
  <2>2. \A g \in M : similar[g] <= MaxOf(grades)
    BY <1>4, <1>5, <2>1, LibraryAssumption DEF Grade
  <2> QED
    BY <1>4, <1>5, <2>2
<1>7. CandidateOf(f, T) = [identity |-> owner[f], members |-> M, similarity |-> MaxOf(grades)]
  BY <1>1 DEF CandidateOf
<1> DEFINE c == CandidateOf(f, T)
<1>8. c.identity = owner[f] /\ c.members = M /\ c.similarity = MaxOf(grades)
  BY <1>7
<1> HIDE DEF M, c
<1>9. c.similarity = MaxOf({similar[g] : g \in c.members})
  BY <1>8
<1> SUFFICES /\ f \in c.members /\ c.members \subseteq T
             /\ c.identity = owner[f]
             /\ \A g \in c.members : owner[g] = c.identity
             /\ c.similarity = MaxOf({similar[g] : g \in c.members})
             /\ c.similarity \in Grade
             /\ \E g \in c.members : similar[g] = c.similarity
             /\ \A g \in c.members : similar[g] <= c.similarity
  BY DEF c
<1> HIDE DEF grades
<1> QED
  BY <1>2, <1>3, <1>6, <1>8, <1>9

\* Two candidates share no face, and only candidates without an identity share that.
LEMMA CandidatesDiffer ==
  ASSUME LibraryOK, NEW T \in SUBSET Face, NEW f \in T, NEW g \in T,
         CandidateOf(f, T) # CandidateOf(g, T)
  PROVE  /\ CandidateOf(f, T).members \cap CandidateOf(g, T).members = {}
         /\ \/ CandidateOf(f, T).identity = None
            \/ CandidateOf(f, T).identity # CandidateOf(g, T).identity
<1>1. \A h \in Face : OwnerOf(h) = owner[h]
  BY FacesAreFinite DEF OwnerOf
<1>2. \/ owner[f] # owner[g]
      \/ owner[f] = None /\ owner[g] = None
  <2> SUFFICES ASSUME owner[f] = owner[g], owner[f] # None PROVE FALSE
    OBVIOUS
  <2>1. GroupOf(f, T) = GroupOf(g, T)
    BY <1>1 DEF GroupOf
  <2> QED
    BY <1>1, <2>1 DEF CandidateOf
<1>3. GroupOf(f, T) \cap GroupOf(g, T) = {}
  <2> SUFFICES ASSUME NEW h \in GroupOf(f, T), h \in GroupOf(g, T) PROVE FALSE
    OBVIOUS
  <2>1. owner[h] = owner[f] /\ owner[h] = owner[g]
    BY <1>1 DEF GroupOf
  <2>2. owner[f] = None /\ owner[g] = None
    BY <1>2, <2>1
  <2>3. h = f /\ h = g
    BY <1>1, <2>2 DEF GroupOf
  <2> QED
    BY <2>3
<1> QED
  BY <1>1, <1>2, <1>3 DEF CandidateOf

\* No more candidates than faces.
LEMMA CandidatesAreFew ==
  ASSUME NEW T \in SUBSET Face
  PROVE  /\ Groups(T) = {CandidateOf(f, T) : f \in T}
         /\ IsFiniteSet(Groups(T))
         /\ Cardinality(Groups(T)) \in Nat
         /\ Cardinality(Groups(T)) <= Cardinality(T)
<1> DEFINE of == [f \in T |-> CandidateOf(f, T)]
<1>1. Groups(T) = {CandidateOf(f, T) : f \in T}
  BY DEF Groups, CandidateOf
<1>2. of \in Surjection(T, Groups(T))
  BY <1>1 DEF Surjection
<1>3. IsFiniteSet(T)
  BY FacesAreFinite
<1> HIDE DEF of
<1>4. IsFiniteSet(Groups(T)) /\ Cardinality(Groups(T)) <= Cardinality(T)
  BY <1>2, <1>3, FS_Surjection
<1> QED
  BY <1>1, <1>4, FS_CardinalityType

-----------------------------------------------------------------------------
(* Rankings *)

\* What stays true of a ranking of the shortlist T when faces change identity.
Ranking(r, T) ==
    /\ Len(r) \in Nat /\ DOMAIN r = 1..Len(r) /\ Len(r) <= Cardinality(T)
    /\ r = <<>> \/ Len(r) > 0
    /\ \A n \in 1..Len(r) :
          /\ r[n].members # {} /\ r[n].members \subseteq T
          /\ r[n].similarity = MaxOf({similar[f] : f \in r[n].members})
    /\ \A f \in T : \E n \in 1..Len(r) : f \in r[n].members
    /\ \A m, n \in 1..Len(r) : m # n =>
          /\ r[m].members \cap r[n].members = {}
          /\ r[m].identity = None \/ r[m].identity # r[n].identity
    /\ \A m, n \in 1..Len(r) : m < n => BestFirst(r[m], r[n])

\* The candidates' faces are of their identities.
Owned(r) == \A n \in 1..Len(r) : \A f \in r[n].members : owner[f] = r[n].identity

\* An order of the candidates lists every one, once.
LEMMA RankedIsRanking ==
  ASSUME LibraryOK, NEW T \in SUBSET Face, NEW r \in Ranked(Groups(T))
  PROVE  Ranking(r, T) /\ Owned(r) /\ \A n \in 1..Len(r) : \E f \in T : r[n] = CandidateOf(f, T)
<1> DEFINE G == Groups(T)
           N == Cardinality(G)
<1>1. /\ G = {CandidateOf(f, T) : f \in T} /\ IsFiniteSet(G)
      /\ N \in Nat /\ N <= Cardinality(T)
  BY CandidatesAreFew
<1>2. /\ r \in [1..N -> G]
      /\ {r[n] : n \in DOMAIN r} = G
      /\ \A m, n \in DOMAIN r : m < n => BestFirst(r[m], r[n])
  BY DEF Ranked
<1> HIDE DEF G, N
<1>3. r \in Seq(G) /\ Len(r) = N /\ DOMAIN r = 1..N
  BY <1>1, <1>2
<1>4. \A m, n \in 1..N : m # n => r[m] # r[n]
  <2>1. r \in Surjection(1..N, G)
    BY <1>2 DEF Surjection
  <2>2. IsFiniteSet(1..N) /\ Cardinality(1..N) = N
    BY <1>1, FS_Interval
  <2>3. r \in Injection(1..N, G)
    BY <2>1, <2>2, FS_SurjSameCardinalityImpliesInj DEF N
  <2> QED
    BY <2>3 DEF Injection, IsInjective
<1>5. \A n \in 1..N : \E f \in T : r[n] = CandidateOf(f, T)
  BY <1>1, <1>2
<1>6. \A n \in 1..N :
         /\ r[n].members # {} /\ r[n].members \subseteq T
         /\ r[n].similarity = MaxOf({similar[f] : f \in r[n].members})
         /\ \A f \in r[n].members : owner[f] = r[n].identity
  <2> TAKE n \in 1..N
  <2>1. PICK f \in T : r[n] = CandidateOf(f, T)
    BY <1>5
  <2> DEFINE c == CandidateOf(f, T)
  <2>2. /\ f \in c.members /\ c.members \subseteq T
        /\ c.similarity = MaxOf({similar[g] : g \in c.members})
        /\ \A g \in c.members : owner[g] = c.identity
    BY CandidateFacts
  <2> HIDE DEF c
  <2>3. r[n] = c
    BY <2>1 DEF c
  <2> QED
    BY <2>2, <2>3
<1>7. \A f \in T : \E n \in 1..N : f \in r[n].members
  <2> TAKE f \in T
  <2>1. PICK n \in 1..N : r[n] = CandidateOf(f, T)
    BY <1>1, <1>2, <1>3
  <2>2. f \in CandidateOf(f, T).members
    BY CandidateFacts
  <2> QED
    BY <2>1, <2>2
<1>8. \A m, n \in 1..N : m # n =>
         /\ r[m].members \cap r[n].members = {}
         /\ r[m].identity = None \/ r[m].identity # r[n].identity
  <2> SUFFICES ASSUME NEW m \in 1..N, NEW n \in 1..N, m # n
               PROVE  /\ r[m].members \cap r[n].members = {}
                      /\ r[m].identity = None \/ r[m].identity # r[n].identity
    OBVIOUS
  <2>1. PICK f \in T : r[m] = CandidateOf(f, T)
    BY <1>5
  <2>2. PICK g \in T : r[n] = CandidateOf(g, T)
    BY <1>5
  <2>3. CandidateOf(f, T) # CandidateOf(g, T)
    BY <1>4, <2>1, <2>2
  <2> QED
    BY <2>1, <2>2, <2>3, CandidatesDiffer
<1>9. r = <<>> \/ Len(r) > 0
  BY <1>3, EmptySeq, LenProperties
<1> QED
  BY <1>1, <1>2, <1>3, <1>5, <1>6, <1>7, <1>8, <1>9 DEF Ranking, Owned

\* The first candidate has the best grade of the shortlist, and each later one no better.
LEMMA RankingFacts ==
  ASSUME LibraryOK, NEW T \in SUBSET Face, NEW r, Ranking(r, T)
  PROVE  /\ \A n \in 1..Len(r) :
               /\ r[n].similarity \in Grade
               /\ \E f \in r[n].members : similar[f] = r[n].similarity
               /\ \A f \in r[n].members : similar[f] <= r[n].similarity
         /\ \A m, n \in 1..Len(r) : m <= n => r[n].similarity <= r[m].similarity
         /\ \A f \in T : Len(r) > 0 /\ similar[f] <= r[1].similarity
         /\ T # {} => Len(r) > 0
<1>1. ASSUME NEW n \in 1..Len(r)
      PROVE  /\ r[n].similarity \in Grade
             /\ \E f \in r[n].members : similar[f] = r[n].similarity
             /\ \A f \in r[n].members : similar[f] <= r[n].similarity
  <2> DEFINE M == r[n].members
             grades == {similar[f] : f \in M}
  <2>1. M # {} /\ M \subseteq T /\ r[n].similarity = MaxOf(grades)
    BY DEF Ranking
  <2>2. \A f \in M : similar[f] \in Grade
    BY <2>1 DEF LibraryOK
  <2>3. grades \in SUBSET Grade /\ grades # {}
    BY <2>1, <2>2
  <2>4. MaxOf(grades) \in grades /\ \A y \in grades : MaxOf(grades) >= y
    BY <2>3, BestGrade
  <2>5. \A f \in M : similar[f] \in grades
    OBVIOUS
  <2>6. \A f \in M : similar[f] <= MaxOf(grades)
    BY <2>3, <2>4, <2>5, LibraryAssumption DEF Grade
  <2>7. \E f \in M : similar[f] = MaxOf(grades)
    BY <2>4
  <2> QED
    BY <2>1, <2>3, <2>4, <2>6, <2>7
<1>2. ASSUME NEW m \in 1..Len(r), NEW n \in 1..Len(r), m <= n
      PROVE  r[n].similarity <= r[m].similarity
  <2>1. Len(r) \in Nat
    BY DEF Ranking
  <2>2. r[m].similarity \in Int /\ r[n].similarity \in Int
    BY <1>1 DEF Grade
  <2>3. m < n => r[m].similarity >= r[n].similarity
    BY DEF Ranking, BestFirst
  <2> QED
    BY <1>2, <2>1, <2>2, <2>3
<1>3. ASSUME NEW f \in T
      PROVE  Len(r) > 0 /\ similar[f] <= r[1].similarity
  <2>1. PICK n \in 1..Len(r) : f \in r[n].members
    BY DEF Ranking
  <2>2. Len(r) \in Nat /\ 1 \in 1..Len(r) /\ 1 <= n
    BY <2>1 DEF Ranking
  <2>3. similar[f] <= r[n].similarity /\ r[n].similarity <= r[1].similarity
    BY <1>1, <1>2, <2>1, <2>2
  <2>4. similar[f] \in Int /\ r[n].similarity \in Int /\ r[1].similarity \in Int
    BY <1>1, <2>2 DEF LibraryOK, Grade
  <2> QED
    BY <2>2, <2>3, <2>4
<1> QED
  BY <1>1, <1>2, <1>3

\* A candidate's grade is that of one of its faces.
LEMMA BestFace ==
  ASSUME LibraryOK, NEW T \in SUBSET Face, NEW r, Ranking(r, T), NEW n \in 1..Len(r)
  PROVE  /\ r[n].similarity \in Int
         /\ \E f \in T : f \in r[n].members /\ similar[f] = r[n].similarity
<1>1. r[n].similarity \in Grade /\ \E f \in r[n].members : similar[f] = r[n].similarity
  BY RankingFacts
<1>2. r[n].members \subseteq T
  BY DEF Ranking
<1> QED
  BY <1>1, <1>2 DEF Grade

\* No face of a candidate has a better grade.
LEMMA NoneBetter ==
  ASSUME LibraryOK, NEW T \in SUBSET Face, NEW r, Ranking(r, T), NEW n \in 1..Len(r),
         NEW f \in r[n].members
  PROVE  similar[f] <= r[n].similarity /\ r[n].similarity \in Int
<1>1. similar[f] <= r[n].similarity
  BY RankingFacts
<1> QED
  BY <1>1, BestFace

\* No candidates, no faces.
LEMMA NoCandidate ==
  ASSUME NEW T, NEW r, Ranking(r, T), r # <<>>
  PROVE  \E f \in T : TRUE
<1>1. 1 \in 1..Len(r)
  BY DEF Ranking
<1>2. r[1].members # {} /\ r[1].members \subseteq T
  BY <1>1 DEF Ranking
<1> QED
  BY <1>2

-----------------------------------------------------------------------------
(* Shortlists *)

\* A face that is not of the shortlist T is behind a whole shortlist.
Seen(T) == \A g \in Present \ T : Cardinality(T) = K /\ \A h \in T : similar[h] >= similar[g]

LEMMA NearestSees ==
  ASSUME NEW T \in Nearest(Present, K)
  PROVE  Seen(T)
<1>1. Present \subseteq Face /\ T \subseteq Present
  BY DEF Present, Nearest
<1>2. IsFiniteSet(Present)
  BY <1>1, FacesAreFinite
<1>3. Cardinality(T) = Cardinality(Present) => T = Present
  BY <1>1, <1>2, FS_Subset
<1>4. Cardinality(T) = IF Cardinality(Present) < K THEN Cardinality(Present) ELSE K
  BY DEF Nearest
<1> QED
  BY <1>3, <1>4 DEF Seen, Nearest

\* The nearest of the nearest: what is nearest of n >= k nearest of an index that holds
\* every face, none of which the database refused, is nearest of the library.
LEMMA NearestOfNearest ==
  ASSUME LibraryOK, NEW S \in SUBSET Face, Present \subseteq S, NEW k \in Nat, NEW n \in Nat, k <= n,
         NEW hits \in Nearest(S, n), hits \subseteq Present, NEW T \in Nearest(hits, k)
  PROVE  T \in Nearest(Present, k)
<1>1. Present \subseteq Face /\ hits \subseteq S /\ T \subseteq hits
  BY DEF Present, Nearest
<1>2. /\ IsFiniteSet(S) /\ IsFiniteSet(Present) /\ IsFiniteSet(hits)
      /\ Cardinality(S) \in Nat /\ Cardinality(Present) \in Nat /\ Cardinality(hits) \in Nat
  BY <1>1, FacesAreFinite
<1>3. /\ Cardinality(hits) = IF Cardinality(S) < n THEN Cardinality(S) ELSE n
      /\ Cardinality(T) = IF Cardinality(hits) < k THEN Cardinality(hits) ELSE k
  BY DEF Nearest
<1>4. Cardinality(hits) <= Cardinality(Present)
  BY <1>2, FS_Subset
<1>5. Cardinality(hits) = Cardinality(S) => hits = S
  BY <1>1, <1>2, FS_Subset
<1>6. Cardinality(T) = IF Cardinality(Present) < k THEN Cardinality(Present) ELSE k
  <2>1. CASE Cardinality(hits) < k
    <3>1. Cardinality(hits) = Cardinality(S)
      BY <1>2, <1>3, <2>1
    <3>2. hits = Present
      BY <1>5, <3>1
    <3> QED
      BY <1>3, <2>1, <3>2
  <2>2. CASE ~(Cardinality(hits) < k)
    BY <1>2, <1>3, <1>4, <2>2
  <2> QED
    BY <2>1, <2>2
<1>7. ASSUME NEW f \in T, NEW g \in Present \ T
      PROVE  similar[f] >= similar[g]
  BY <1>1 DEF Nearest
<1> QED
  BY <1>1, <1>6, <1>7 DEF Nearest

\* A retrieval has at most k faces of the library, not the face itself; and when the index
\* held every face and the database refused none, no face is nearer than they are.
LEMMA RetrievalFacts ==
  ASSUME LibraryOK, NEW S \in SUBSET Face, NEW k \in Nat, NEW aside \in {{}, {Itself}},
         NEW v \in Retrievals(S, aside, aside, k)
  PROVE  /\ v.members \in SUBSET Face
         /\ Cardinality(v.members) \in Nat /\ Cardinality(v.members) <= k
         /\ (v.dropped = 0 /\ Present \subseteq S) => v.members \in Nearest(Present, k)
<1> DEFINE n == k + Cardinality(aside)
           Kept(hits) == {f \in hits : Eligible(f)}
<1>1. PICK hits \in Nearest(S, n) :
         v \in {[members |-> T, dropped |-> Cardinality(hits \ Kept(hits))] :
                   T \in Nearest((Kept(hits) \cup aside) \ aside, k)}
  BY DEF Retrievals
<1> DEFINE kept == Kept(hits)
<1>2. PICK T \in Nearest((kept \cup aside) \ aside, k) :
         v = [members |-> T, dropped |-> Cardinality(hits \ kept)]
  BY <1>1
<1>3. hits \subseteq Face /\ kept \subseteq Face
  BY DEF Nearest
<1>4. (kept \cup aside) \ aside = kept
  BY <1>3, FacesAreFinite
<1>5. T \in Nearest(kept, k) /\ T \subseteq kept
  BY <1>4 DEF Nearest
<1>6. Cardinality(kept) \in Nat /\ Cardinality(T) = IF Cardinality(kept) < k THEN Cardinality(kept) ELSE k
  BY <1>3, <1>5, FacesAreFinite DEF Nearest
<1>7. n \in Nat /\ k <= n
  <2>1. Cardinality({}) = 0 /\ Cardinality({Itself}) = 1
    BY FS_EmptySet, FS_Singleton
  <2> QED
    BY <2>1
<1>8. ASSUME v.dropped = 0, Present \subseteq S
      PROVE  T \in Nearest(Present, k)
  <2>1. Cardinality(hits \ kept) = 0 /\ hits \ kept \subseteq Face
    BY <1>2, <1>3, <1>8
  <2>2. hits \ kept = {}
    BY <2>1, FS_EmptySet, FacesAreFinite
  <2>3. hits = kept /\ hits \subseteq Present
    BY <1>3, <2>2 DEF Present
  <2> HIDE DEF n, kept
  <2> QED
    BY <1>5, <1>7, <1>8, <2>3, NearestOfNearest
<1> HIDE DEF kept
<1> QED
  BY <1>2, <1>3, <1>5, <1>6, <1>8

-----------------------------------------------------------------------------
(* The policy *)

Similar(r) == r[1].similarity >= policy.threshold
Leads(r) == Margin(r) = None \/ ~(Margin(r) < policy.margin)

\* When the policy matches, and when it says that a face is nobody known.
LEMMA JudgedFacts ==
  ASSUME NEW good \in BOOLEAN, NEW complete \in BOOLEAN, NEW r
  PROVE  LET p == Judged(good, complete, r) IN
         /\ p.reason \in ReasonsOf(p.outcome)
         /\ p.identity # None <=> p.outcome = "MATCH_EXISTING"
         /\ p.outcome = "MATCH_EXISTING" <=>
               (good /\ complete /\ r # <<>> /\ Similar(r) /\ Leads(r) /\ r[1].identity # None)
         /\ p.outcome = "MATCH_EXISTING" => p.identity = r[1].identity
         /\ p.outcome = "CREATE_NEW" =>
               complete /\ (r = <<>> \/ r[1].similarity < policy.ceiling)
BY DEF Judged, Match, MatchFirst, Abstain, Create, ReasonsOf, Similar, Leads

\* A lead over the second candidate is a lead over every later one.
LEMMA LeadOverAll ==
  ASSUME LibraryOK, policy \in Policies, NEW T \in SUBSET Face, NEW r, Ranking(r, T), Leads(r)
  PROVE  \A n \in 1..Len(r) : n # 1 => r[1].similarity - r[n].similarity >= policy.margin
<1> SUFFICES ASSUME NEW n \in 1..Len(r), n # 1
             PROVE  r[1].similarity - r[n].similarity >= policy.margin
  OBVIOUS
<1>1. Len(r) \in Nat /\ Len(r) >= 2 /\ 1 \in 1..Len(r) /\ 2 \in 1..Len(r) /\ 2 <= n
  BY DEF Ranking
<1> DEFINE best == r[1].similarity
           second == r[2].similarity
           later == r[n].similarity
<1>2. best \in Int /\ second \in Int /\ later \in Int /\ later <= second
  <2>1. \A m \in 1..Len(r) : r[m].similarity \in Grade
    BY RankingFacts
  <2>2. later <= second
    BY <1>1, RankingFacts
  <2> QED
    BY <1>1, <2>1, <2>2 DEF Grade
<1>3. policy.margin \in Int
  BY PolicyAssumption
<1>4. Margin(r) = best - second
  BY <1>1 DEF Margin
<1> HIDE DEF best, second, later
<1>5. Margin(r) # None
  BY <1>2, <1>4, NullAssumption
<1>6. best - second >= policy.margin
  BY <1>2, <1>3, <1>4, <1>5 DEF Leads
<1>7. best - later >= policy.margin
  BY <1>2, <1>3, <1>6
<1> QED
  BY <1>7 DEF best, later

\* A match has a face above the threshold and ahead of every face that is not of its
\* identity, seen or not.
LEMMA MatchIsAhead ==
  ASSUME LibraryOK, policy \in Policies, NEW T \in SUBSET Face, NEW r, Ranking(r, T), Owned(r),
         Seen(T), r # <<>>, Similar(r), Leads(r)
  PROVE  \E f \in Face :
             /\ owner[f] = r[1].identity /\ similar[f] >= policy.threshold
             /\ \A g \in Present : owner[g] # r[1].identity => Separates(f, g, r[1].identity)
<1> DEFINE i == r[1].identity
           best == r[1].similarity
<1>1. Len(r) \in Nat /\ 1 \in 1..Len(r) /\ r[1].members \subseteq T
  <2>1. Len(r) \in Nat /\ Len(r) > 0
    BY DEF Ranking
  <2>2. 1 \in 1..Len(r)
    BY <2>1
  <2> QED
    BY <2>1, <2>2 DEF Ranking
<1>2. PICK f \in r[1].members : similar[f] = best
  BY <1>1, RankingFacts
<1>3. f \in Face /\ owner[f] = i /\ similar[f] >= policy.threshold
  BY <1>1, <1>2 DEF Owned, Similar
<1>4. /\ best \in Int /\ policy.margin \in Int
      /\ \A h \in Face : similar[h] \in Int
  BY <1>1, RankingFacts, PolicyAssumption DEF LibraryOK, Grade
<1>5. ASSUME NEW h \in T, owner[h] # i
      PROVE  best - similar[h] >= policy.margin
  <2>1. PICK n \in 1..Len(r) : h \in r[n].members
    BY DEF Ranking
  <2>2. n # 1
    BY <1>5, <2>1 DEF Owned
  <2>3. best - r[n].similarity >= policy.margin
    BY <2>2, LeadOverAll
  <2>4. r[n].similarity \in Int /\ similar[h] <= r[n].similarity
    BY <2>1, NoneBetter
  <2> HIDE DEF best
  <2> QED
    BY <1>4, <2>3, <2>4
<1>6. ASSUME NEW g \in Present, owner[g] # i
      PROVE  Separates(f, g, i)
  <2>1. CASE g \in T
    <3>1. best - similar[g] >= policy.margin
      BY <1>5, <1>6, <2>1
    <3> QED
      BY <1>2, <3>1 DEF Separates
  <2>2. CASE g \notin T
    <3>1. Cardinality(T) = K /\ \A h \in T : similar[h] >= similar[g]
      BY <2>2 DEF Seen
    <3>2. CASE \A h \in T : owner[h] = i
      <4> DEFINE H == {h \in Face : owner[h] = i /\ similar[h] >= similar[g]}
      <4>1. T \subseteq H
        BY <3>1, <3>2
      <4>2. IsFiniteSet(H) /\ Cardinality(H) \in Nat
        BY FacesAreFinite
      <4>3. Cardinality(T) <= Cardinality(H)
        BY <4>1, <4>2, FS_Subset
      <4>4. Cardinality(H) >= K
        BY <3>1, <4>2, <4>3, ShortlistAssumption
      <4> QED
        BY <4>4 DEF Separates
    <3>3. CASE \E h \in T : owner[h] # i
      <4>1. PICK h \in T : owner[h] # i
        BY <3>3
      <4>2. best - similar[h] >= policy.margin /\ similar[h] >= similar[g]
        BY <1>5, <3>1, <4>1
      <4>3. similar[h] \in Int /\ similar[g] \in Int
        BY <1>4 DEF Present
      <4> HIDE DEF best
      <4>4. best - similar[g] >= policy.margin
        BY <1>4, <4>2, <4>3
      <4> QED
        BY <1>2, <4>4 DEF Separates
    <3> QED
      BY <3>2, <3>3
  <2> QED
    BY <2>1, <2>2
<1> QED
  BY <1>3, <1>6

\* When the best of the shortlist is below the ceiling, every face is.
LEMMA NewIsFar ==
  ASSUME LibraryOK, policy \in Policies, NEW T \in SUBSET Face, NEW r, Ranking(r, T), Seen(T),
         r = <<>> \/ r[1].similarity < policy.ceiling
  PROVE  \A g \in Present : similar[g] < policy.ceiling
<1>1. /\ policy.ceiling \in Int
      /\ \A h \in Face : similar[h] \in Int
  BY PolicyAssumption DEF LibraryOK, Grade
<1>2. ASSUME NEW h \in T
      PROVE  similar[h] < policy.ceiling
  <2>1. Len(r) > 0 /\ similar[h] <= r[1].similarity
    BY RankingFacts
  <2>2. Len(r) \in Nat /\ 1 \in 1..Len(r)
    BY <2>1 DEF Ranking
  <2>3. r # <<>>
    BY <2>1
  <2>4. r[1].similarity \in Grade
    BY <2>2, RankingFacts
  <2>5. r[1].similarity \in Int /\ r[1].similarity < policy.ceiling
    BY <2>3, <2>4 DEF Grade
  <2> QED
    BY <1>1, <2>1, <2>5
<1>3. ASSUME NEW g \in Present, g \notin T
      PROVE  similar[g] < policy.ceiling
  <2>1. Cardinality(T) = K /\ \A h \in T : similar[h] >= similar[g]
    BY <1>3 DEF Seen
  <2>2. T # {}
    <3> SUFFICES ASSUME T = {} PROVE FALSE
      OBVIOUS
    <3>1. Cardinality({}) = 0
      BY FS_EmptySet
    <3>2. K = 0
      BY <2>1, <3>1
    <3> QED
      BY <3>2, ShortlistAssumption
  <2>3. PICK h \in T : similar[h] >= similar[g]
    BY <2>1, <2>2
  <2>4. similar[h] < policy.ceiling /\ similar[g] \in Int /\ similar[h] \in Int
    BY <1>1, <1>2 DEF Present
  <2> QED
    BY <1>1, <2>3, <2>4
<1> QED
  BY <1>2, <1>3

-----------------------------------------------------------------------------
(* A run and a face search over the same library *)

\* The best candidate of a shortlist of the nearest is as near as any face is.
LEMMA BestOfAll ==
  ASSUME LibraryOK, NEW k \in Nat, k > 0, NEW T \in Nearest(Present, k), NEW r, Ranking(r, T),
         Present # {}
  PROVE  /\ T \in SUBSET Face /\ T \subseteq Present /\ Len(r) > 0 /\ 1 \in 1..Len(r)
         /\ r[1].similarity \in Int
         /\ \A g \in Present : similar[g] <= r[1].similarity
<1>1. Present \subseteq Face /\ T \subseteq Present
  BY DEF Present, Nearest
<1>2. T # {}
  <2> SUFFICES ASSUME T = {} PROVE FALSE
    OBVIOUS
  <2>1. IsFiniteSet(Present) /\ Cardinality(Present) \in Nat
    BY <1>1, FacesAreFinite
  <2>2. Cardinality({}) = 0 /\ Cardinality(Present) # 0
    BY <2>1, FS_EmptySet
  <2>3. Cardinality({}) = IF Cardinality(Present) < k THEN Cardinality(Present) ELSE k
    BY DEF Nearest
  <2> QED
    BY <2>1, <2>2, <2>3
<1>3. T \in SUBSET Face
  BY <1>1
<1>4. Len(r) \in Nat /\ Len(r) > 0
  BY <1>2, <1>3, RankingFacts DEF Ranking
<1>5. 1 \in 1..Len(r)
  BY <1>4
<1>6. r[1].similarity \in Grade /\ \A f \in T : similar[f] <= r[1].similarity
  BY <1>3, <1>5, RankingFacts
<1>7. ASSUME NEW g \in Present, g \notin T
      PROVE  similar[g] <= r[1].similarity
  <2>1. PICK f \in T : similar[f] >= similar[g]
    BY <1>2, <1>7 DEF Nearest
  <2>2. similar[f] \in Int /\ similar[g] \in Int
    BY <1>1 DEF LibraryOK, Grade
  <2> QED
    BY <1>6, <2>1, <2>2 DEF Grade
<1> QED
  BY <1>1, <1>3, <1>4, <1>5, <1>6, <1>7 DEF Grade

\* Whatever their lengths, two shortlists of the nearest put the same identity first.
LEMMA SameBest ==
  ASSUME LibraryOK, ~Tied, NEW j \in Nat, j > 0, NEW k \in Nat, k > 0,
         NEW S \in Nearest(Present, j), NEW q, Ranking(q, S), Owned(q),
         NEW T \in Nearest(Present, k), NEW r, Ranking(r, T), Owned(r), Present # {}
  PROVE  q[1].identity = r[1].identity /\ q[1].similarity = r[1].similarity
<1>1. /\ S \in SUBSET Face /\ S \subseteq Present /\ 1 \in 1..Len(q) /\ q[1].similarity \in Int
      /\ \A g \in Present : similar[g] <= q[1].similarity
  BY BestOfAll
<1>2. /\ T \in SUBSET Face /\ T \subseteq Present /\ 1 \in 1..Len(r) /\ r[1].similarity \in Int
      /\ \A g \in Present : similar[g] <= r[1].similarity
  BY BestOfAll
<1>3. PICK f \in S : f \in q[1].members /\ similar[f] = q[1].similarity
  BY <1>1, BestFace
<1>4. PICK g \in T : g \in r[1].members /\ similar[g] = r[1].similarity
  BY <1>2, BestFace
<1>5. f \in Present /\ g \in Present
  BY <1>1, <1>2
<1>6. similar[f] = similar[g]
  BY <1>1, <1>2, <1>3, <1>4, <1>5
<1>7. owner[f] = owner[g]
  BY <1>5, <1>6 DEF Tied
<1>8. owner[f] = q[1].identity /\ owner[g] = r[1].identity
  BY <1>1, <1>2, <1>3, <1>4 DEF Owned
<1> QED
  BY <1>3, <1>4, <1>6, <1>7, <1>8

\* Who leads in the longer shortlist leads in the shorter one.
LEMMA SameLead ==
  ASSUME LibraryOK, policy \in Policies, ~Tied, Present # {},
         NEW j \in Nat, NEW k \in Nat, k > 0, k <= j,
         NEW S \in Nearest(Present, j), NEW q, Ranking(q, S), Owned(q), Leads(q),
         NEW T \in Nearest(Present, k), NEW r, Ranking(r, T), Owned(r), r[1].identity # None
  PROVE  Leads(r)
<1> SUFFICES ASSUME Len(r) >= 2 PROVE Leads(r)
  <2>1. Len(r) \in Nat
    BY DEF Ranking
  <2> QED
    BY <2>1 DEF Leads, Margin
<1> DEFINE i == r[1].identity
<1>0. Present \subseteq Face /\ j > 0
  BY DEF Present
<1>1. q[1].identity = i /\ q[1].similarity = r[1].similarity
  BY <1>0, SameBest
<1>2. S \in SUBSET Face /\ S \subseteq Present /\ T \in SUBSET Face /\ T \subseteq Present
  BY <1>0 DEF Nearest
<1>3. Len(r) \in Nat /\ 1 \in 1..Len(r) /\ 2 \in 1..Len(r)
  BY DEF Ranking
<1>4. PICK h \in T : h \in r[2].members /\ similar[h] = r[2].similarity
  BY <1>2, <1>3, BestFace
<1>5. h \in T /\ owner[h] # i
  <2>1. owner[h] = r[2].identity
    BY <1>3, <1>4 DEF Owned
  <2>2. r[2].identity # r[1].identity
    BY <1>3 DEF Ranking
  <2> QED
    BY <2>1, <2>2
<1>6. PICK g \in S : similar[g] = similar[h] /\ owner[g] # i
  <2>1. CASE h \in S
    BY <1>5, <2>1
  <2>2. CASE h \notin S
    <3>1. /\ IsFiniteSet(Present) /\ Cardinality(Present) \in Nat
          /\ IsFiniteSet(S) /\ Cardinality(S) \in Nat /\ IsFiniteSet(T) /\ Cardinality(T) \in Nat
      BY <1>0, <1>2, FacesAreFinite
    <3>2. Cardinality(T) <= Cardinality(S)
      <4>1. /\ Cardinality(S) = IF Cardinality(Present) < j THEN Cardinality(Present) ELSE j
            /\ Cardinality(T) = IF Cardinality(Present) < k THEN Cardinality(Present) ELSE k
        BY DEF Nearest
      <4> QED
        BY <3>1, <4>1
    <3>3. ~(S \subseteq T)
      <4> SUFFICES ASSUME S \subseteq T PROVE FALSE
        OBVIOUS
      <4>1. Cardinality(S) <= Cardinality(T) /\ (Cardinality(S) = Cardinality(T) => S = T)
        BY <3>1, FS_Subset
      <4>2. S = T
        BY <3>1, <3>2, <4>1
      <4> QED
        BY <1>5, <2>2, <4>2
    <3>4. PICK g \in S : g \notin T
      BY <3>3
    <3>5. g \in Present /\ h \in Present
      BY <1>2, <1>5, <3>4
    <3>6. similar[g] >= similar[h] /\ similar[h] >= similar[g]
      BY <1>5, <2>2, <3>4, <3>5 DEF Nearest
    <3>7. similar[g] = similar[h]
      BY <1>0, <3>5, <3>6 DEF LibraryOK, Grade
    <3>8. owner[g] = owner[h]
      BY <3>5, <3>7 DEF Tied
    <3> QED
      BY <1>5, <3>7, <3>8
  <2> QED
    BY <2>1, <2>2
<1>7. PICK n \in 1..Len(q) : g \in q[n].members
  BY DEF Ranking
<1>8. n # 1
  BY <1>1, <1>6, <1>7 DEF Owned
<1>9. q[1].similarity - q[n].similarity >= policy.margin
  BY <1>2, <1>8, LeadOverAll
<1>10. similar[g] <= q[n].similarity /\ q[n].similarity \in Int
  BY <1>2, <1>7, NoneBetter
<1>11. r[1].similarity \in Int /\ r[2].similarity \in Int /\ policy.margin \in Int
  BY <1>2, <1>3, BestFace, PolicyAssumption
<1> DEFINE best == r[1].similarity
           second == r[2].similarity
           later == q[n].similarity
<1>12. second <= later /\ best - later >= policy.margin
  BY <1>1, <1>4, <1>6, <1>9, <1>10
<1>13. best \in Int /\ second \in Int /\ later \in Int /\ policy.margin \in Int
  BY <1>10, <1>11
<1>14. Margin(r) = best - second
  BY <1>3 DEF Margin
<1> HIDE DEF best, second, later
<1>15. ~(best - second < policy.margin)
  BY <1>12, <1>13
<1> QED
  BY <1>14, <1>15 DEF Leads

\* The search names whom the run matches, and the run's match is among its people.
LEMMA NamesAgree ==
  ASSUME LibraryOK, policy \in Policies, ~Tied,
         NEW S \in Nearest(Present, SearchK), NEW q \in Ranked(Groups(S)),
         NEW T \in Nearest(Present, K), NEW r \in Ranked(Groups(T))
  PROVE  LET found == Answer(TRUE, q)
             run == Judged(TRUE, TRUE, r) IN
         /\ found.identity # None => run.identity = found.identity
         /\ run.identity # None => run.identity \in found.people
<1> DEFINE named == Judged(TRUE, TRUE, q)
           run == Judged(TRUE, TRUE, r)
<1>1. S \in SUBSET Face /\ T \in SUBSET Face
  BY DEF Nearest, Present
<1>2. Ranking(q, S) /\ Owned(q) /\ Ranking(r, T) /\ Owned(r)
  BY <1>1, RankedIsRanking
<1>3. K \in Nat /\ K > 0 /\ SearchK \in Nat /\ SearchK > 0 /\ K <= SearchK
  BY ShortlistAssumption
<1>4. /\ named.identity # None <=> (q # <<>> /\ Similar(q) /\ Leads(q) /\ q[1].identity # None)
      /\ named.identity # None => named.identity = q[1].identity
      /\ run.identity # None <=> (r # <<>> /\ Similar(r) /\ Leads(r) /\ r[1].identity # None)
      /\ run.identity # None => run.identity = r[1].identity
  BY JudgedFacts
<1>5. q # <<>> \/ r # <<>> => Present # {}
  <2>1. q # <<>> => S # {}
    BY <1>2, NoCandidate
  <2>2. r # <<>> => T # {}
    BY <1>2, NoCandidate
  <2>3. S \subseteq Present /\ T \subseteq Present
    BY DEF Nearest
  <2> QED
    BY <2>1, <2>2, <2>3
<1>6. ASSUME Present # {}
      PROVE  /\ q[1].identity = r[1].identity /\ q[1].similarity = r[1].similarity
             /\ 1 \in DOMAIN q /\ 1 \in 1..Len(r) /\ r # <<>>
  <2>1. q[1].identity = r[1].identity /\ q[1].similarity = r[1].similarity
    BY <1>2, <1>3, <1>6, SameBest
  <2>2. 1 \in 1..Len(q)
    BY <1>2, <1>3, <1>6, BestOfAll
  <2>3. 1 \in 1..Len(r) /\ Len(r) > 0
    BY <1>2, <1>3, <1>6, BestOfAll
  <2> QED
    BY <1>2, <2>1, <2>2, <2>3 DEF Ranking
<1>7. ASSUME named.identity # None
      PROVE  run.identity = named.identity
  <2>1. q # <<>> /\ Similar(q) /\ Leads(q) /\ q[1].identity # None /\ named.identity = q[1].identity
    BY <1>4, <1>7
  <2>2. r # <<>> /\ q[1].identity = r[1].identity /\ q[1].similarity = r[1].similarity
    BY <1>5, <1>6, <2>1
  <2>3. Present # {}
    BY <1>5, <2>1
  <2>4. Leads(r)
    BY <1>2, <1>3, <2>1, <2>2, <2>3, SameLead
  <2>5. Similar(r)
    BY <2>1, <2>2 DEF Similar
  <2> QED
    BY <1>4, <2>1, <2>2, <2>4, <2>5
<1>8. ASSUME run.identity # None
      PROVE  run.identity \in Answer(TRUE, q).people
  <2>1. r # <<>> /\ r[1].identity # None /\ run.identity = r[1].identity
    BY <1>4, <1>8
  <2>2. q[1].identity = r[1].identity /\ 1 \in DOMAIN q
    BY <1>5, <1>6, <2>1
  <2>3. q[1].identity \in {q[n].identity : n \in DOMAIN q} \ {None}
    BY <2>1, <2>2
  <2> HIDE DEF run
  <2> QED
    BY <2>1, <2>2, <2>3 DEF Answer
<1>9. Answer(TRUE, q).identity = named.identity
  BY DEF Answer
<1> HIDE DEF named, run
<1>10. run = Judged(TRUE, TRUE, r)
  BY DEF run
<1> QED
  BY <1>7, <1>8, <1>9, <1>10

-----------------------------------------------------------------------------
(* The inductive invariant *)

\* An open index is for a decision still to come; without lag it holds every face.
OpenInv == opened # None => decision = None /\ (~lag => Present \subseteq opened)

\* The evidence of d is a ranking of the shortlist T with what the policy says of it.
EvidenceOf(d, T) ==
    /\ Cardinality(T) \in Nat /\ Cardinality(T) <= K
    /\ Ranking(d.candidates, T)
    /\ d.requested = K /\ d.returned = Cardinality(T) /\ d.margin = Margin(d.candidates)
    /\ d.good \in BOOLEAN /\ d.converged \in BOOLEAN
    /\ d.proposal = Judged(d.good, Complete(d.dropped, d.converged), d.candidates)

\* A complete decision has looked past no face, and others can only leave the library.
DecisionInv ==
    decision # None =>
        \E T \in SUBSET Face :
            /\ EvidenceOf(decision, T)
            /\ Complete(decision.dropped, decision.converged) => Seen(T)

\* Once a search has answered the library rests, and a complete decision is about it.
AnswerInv ==
    answer # None =>
        /\ answer.complete =>
              \E S \in Nearest(Present, SearchK) : \E q \in Ranked(Groups(S)) : answer = Answer(TRUE, q)
        /\ decision # None /\ Complete(decision.dropped, decision.converged) =>
              \E T \in Nearest(Present, K) : decision.candidates \in Ranked(Groups(T))

VerdictInv == verdict # "none" => decision # None

IInv ==
    /\ TypeOK /\ OpenInv /\ DecisionInv /\ AnswerInv /\ VerdictInv
    /\ AcceptedIsTrue /\ RefusedForCause

\* Evidence speaks of the faces and the policy of the run, which do not change.
LEMMA EvidenceKept ==
  ASSUME UNCHANGED <<similar, policy>>, NEW T, EvidenceOf(decision', T)
  PROVE  EvidenceOf(decision, T)'
<1>1. PICK r : r = decision'.candidates
  OBVIOUS
<1>2. Ranking(r, T)
  BY <1>1 DEF EvidenceOf
<1>3. Ranking(decision.candidates, T)'
  <2> DEFINE Graded(c) == \A n \in 1..Len(c) : c[n].similarity = MaxOf({similar[f] : f \in c[n].members})
  <2>1. Graded(r)
    BY <1>2 DEF Ranking
  <2>2. similar' = similar
    OBVIOUS
  <2>3. Graded(r)'
    BY <2>1, <2>2
  <2>4. Graded(decision.candidates)'
    BY <1>1, <2>3
  <2> QED
    BY <1>1, <1>2, <2>4 DEF Ranking, BestFirst
<1>4. PICK p : p = Judged(decision'.good, Complete(decision'.dropped, decision'.converged), decision'.candidates)
  OBVIOUS
<1>5. p = Judged(decision.good, Complete(decision.dropped, decision.converged), decision.candidates)'
  BY <1>4 DEF Judged, Match, MatchFirst, Margin, Complete
<1>6. decision'.proposal = p /\ decision'.margin = Margin(decision'.candidates)
  BY <1>4 DEF EvidenceOf
<1> QED
  BY <1>3, <1>5, <1>6 DEF EvidenceOf, Margin

\* Shortlists and answers depend on nothing but the library and the policy.
LEMMA LibraryKept ==
  ASSUME UNCHANGED <<similar, owner, policy>>
  PROVE  /\ Present' = Present
         /\ \A T : Seen(T)' <=> Seen(T)
         /\ Nearest(Present, K)' = Nearest(Present, K)
         /\ Nearest(Present, SearchK)' = Nearest(Present, SearchK)
         /\ \A S : Ranked(Groups(S))' = Ranked(Groups(S))
         /\ \A q : Answer(TRUE, q)' = Answer(TRUE, q)
<1>1. Present' = Present
  BY DEF Present, Eligible
<1>2. \A T : Seen(T)' <=> Seen(T)
  BY <1>1 DEF Seen
<1>3. Nearest(Present, K)' = Nearest(Present, K) /\ Nearest(Present, SearchK)' = Nearest(Present, SearchK)
  BY <1>1 DEF Nearest
<1>4. \A S : Ranked(Groups(S))' = Ranked(Groups(S))
  BY DEF Ranked, Groups, GroupOf, OwnerOf
<1>5. \A q : Answer(TRUE, q)' = Answer(TRUE, q)
  BY DEF Answer, Judged, Match, MatchFirst
<1> QED
  BY <1>1, <1>2, <1>3, <1>4, <1>5

\* A step of acceptance leaves every fact about the decision and the answer alone.
LEMMA DecisionKept ==
  ASSUME UNCHANGED <<similar, owner, policy, decision>>, DecisionInv
  PROVE  DecisionInv'
<1> SUFFICES ASSUME decision # None PROVE DecisionInv'
  BY DEF DecisionInv
<1>1. PICK T \in SUBSET Face :
         EvidenceOf(decision, T) /\ (Complete(decision.dropped, decision.converged) => Seen(T))
  BY DEF DecisionInv
<1>2. EvidenceOf(decision', T)
  BY <1>1
<1>3. EvidenceOf(decision, T)'
  BY <1>2, EvidenceKept
<1>4. (Complete(decision.dropped, decision.converged) => Seen(T))'
  BY <1>1, LibraryKept DEF Complete
<1> QED
  BY <1>3, <1>4 DEF DecisionInv

LEMMA AnswerKept ==
  ASSUME UNCHANGED <<similar, owner, policy, decision, answer>>, AnswerInv
  PROVE  AnswerInv'
BY LibraryKept DEF AnswerInv, Complete

\* The invariant holds at first.
LEMMA InitInv == Init => IInv
BY LibraryAssumption DEF Init, IInv, TypeOK, OpenInv, DecisionInv, AnswerInv, VerdictInv,
   AcceptedIsTrue, RefusedForCause

\* Opening an index.
LEMMA OpenIndexInv ==
  ASSUME IInv, OpenIndex
  PROVE  IInv'
<1>1. /\ opened' \in SUBSET Face /\ (~lag => Present \subseteq opened') /\ decision = None
      /\ UNCHANGED <<similar, owner, policy, lag, decision, verdict, answer, changes>>
  BY DEF OpenIndex, Indexes, question
<1>2. TypeOK'
  BY <1>1 DEF IInv, TypeOK
<1>3. Present' = Present
  BY <1>1 DEF Present, Eligible
<1>4. OpenInv'
  BY <1>1, <1>3 DEF OpenInv
<1>5. DecisionInv' /\ VerdictInv' /\ verdict = "none"
  BY <1>1 DEF DecisionInv, IInv, VerdictInv
<1>6. AcceptedIsTrue' /\ RefusedForCause'
  BY <1>1, <1>5 DEF AcceptedIsTrue, RefusedForCause
<1>7. AnswerInv'
  BY <1>1, AnswerKept DEF IInv
<1> QED
  BY <1>2, <1>4, <1>5, <1>6, <1>7 DEF IInv

\* What a decision has read.
LEMMA DecideEvidence ==
  ASSUME IInv, Decide
  PROVE  \E T \in SUBSET Face :
            /\ EvidenceOf(decision', T)
            /\ Complete(decision'.dropped, decision'.converged) =>
                  T \in Nearest(Present, K) /\ decision'.candidates \in Ranked(Groups(T))
<1>1. LibraryOK /\ opened \in SUBSET Face /\ (~lag => Present \subseteq opened) /\ K \in Nat
  BY LibraryTyped, ShortlistAssumption DEF IInv, TypeOK, OpenInv, Decide
<1>2. PICK good \in BOOLEAN, v \in Retrievals(opened, {Itself}, {Itself}, K) :
         \E converged \in (IF lag THEN {FALSE} ELSE BOOLEAN) : \E ranked \in Ranked(Groups(v.members)) :
            decision' = Evidence(good, v, converged, ranked)
  BY DEF Decide, RunLocal, LeftOut
<1>3. PICK converged \in (IF lag THEN {FALSE} ELSE BOOLEAN), r \in Ranked(Groups(v.members)) :
         decision' = Evidence(good, v, converged, r)
  BY <1>2
<1> DEFINE T == v.members
<1>4. /\ T \in SUBSET Face /\ Cardinality(T) \in Nat /\ Cardinality(T) <= K
      /\ (v.dropped = 0 /\ Present \subseteq opened) => T \in Nearest(Present, K)
  BY <1>1, RetrievalFacts
<1>5. converged \in BOOLEAN /\ (converged => ~lag)
  OBVIOUS
<1> DEFINE d == decision'
<1>6. /\ d.proposal = Judged(good, Complete(v.dropped, converged), r)
      /\ d.good = good /\ d.candidates = r /\ d.margin = Margin(r) /\ d.requested = K
      /\ d.returned = Cardinality(T) /\ d.dropped = v.dropped /\ d.converged = converged
  BY <1>3 DEF Evidence
<1> HIDE DEF T, d
<1>7. r \in Ranked(Groups(T))
  BY DEF T
<1>8. Ranking(r, T)
  BY <1>1, <1>4, <1>7, RankedIsRanking
<1>9. EvidenceOf(d, T)
  BY <1>4, <1>5, <1>6, <1>8 DEF EvidenceOf
<1>10. Complete(d.dropped, d.converged) => T \in Nearest(Present, K)
  BY <1>1, <1>4, <1>5, <1>6 DEF Complete
<1>11. d = decision'
  BY DEF d
<1> QED
  BY <1>4, <1>6, <1>7, <1>9, <1>10, <1>11

\* A decision.
LEMMA DecideInv ==
  ASSUME IInv, Decide
  PROVE  IInv'
<1>1. /\ opened' = None /\ decision = None /\ verdict = "none"
      /\ UNCHANGED <<similar, owner, policy, lag, verdict, answer, changes>>
  BY DEF Decide, question, IInv, OpenInv, VerdictInv
<1>2. TypeOK' /\ OpenInv' /\ VerdictInv' /\ AcceptedIsTrue' /\ RefusedForCause'
  BY <1>1 DEF IInv, TypeOK, OpenInv, VerdictInv, AcceptedIsTrue, RefusedForCause
<1>3. Present' = Present
  BY <1>1 DEF Present, Eligible
<1>4. PICK T \in SUBSET Face :
          /\ EvidenceOf(decision', T)
          /\ Complete(decision'.dropped, decision'.converged) =>
                T \in Nearest(Present, K) /\ decision'.candidates \in Ranked(Groups(T))
  BY DecideEvidence
<1>5. /\ Nearest(Present, K)' = Nearest(Present, K)
      /\ Nearest(Present, SearchK)' = Nearest(Present, SearchK)
      /\ \A S : Ranked(Groups(S))' = Ranked(Groups(S))
      /\ \A q : Answer(TRUE, q)' = Answer(TRUE, q)
  BY <1>1, LibraryKept
<1>8. DecisionInv'
  <2>1. EvidenceOf(decision, T)'
    BY <1>1, <1>4, EvidenceKept
  <2>2. (Complete(decision.dropped, decision.converged) => Seen(T))'
    <3> SUFFICES ASSUME Complete(decision.dropped, decision.converged)' PROVE Seen(T)'
      OBVIOUS
    <3>1. T \in Nearest(Present, K)
      BY <1>4 DEF Complete
    <3>2. Seen(T)
      BY <3>1, NearestSees
    <3> QED
      BY <1>1, <1>3, <3>2 DEF Seen
  <2> QED
    BY <2>1, <2>2 DEF DecisionInv
<1>9. AnswerInv'
  <2> SUFFICES ASSUME answer' # None PROVE AnswerInv'
    BY DEF AnswerInv
  <2>1. answer.complete =>
          \E S \in Nearest(Present, SearchK) : \E q \in Ranked(Groups(S)) : answer = Answer(TRUE, q)
    BY <1>1 DEF IInv, AnswerInv
  <2> QED
    BY <1>1, <1>4, <1>5, <2>1 DEF AnswerInv, Complete
<1> QED
  BY <1>2, <1>8, <1>9 DEF IInv

\* Acceptance finds of its evidence what the decision wrote, but for what has changed since.
LEMMA EvidenceIsSound ==
  ASSUME TypeOK, NEW T \in SUBSET Face, EvidenceOf(decision, T)
  PROVE  /\ decision.proposal.reason \in ReasonsOf(decision.proposal.outcome)
         /\ CandidatesAreSound(decision.candidates)
         /\ CountsAgree(decision) /\ MarginAgrees(decision)
         /\ FollowsEvidence(decision)
         /\ \A n \in DOMAIN decision.candidates : Itself \notin decision.candidates[n].members
<1> DEFINE d == decision
           r == decision.candidates
           complete == Complete(d.dropped, d.converged)
<1>1. /\ Ranking(r, T) /\ d.requested = K /\ d.returned = Cardinality(T) /\ d.margin = Margin(r)
      /\ Cardinality(T) \in Nat /\ Cardinality(T) <= K /\ d.good \in BOOLEAN
      /\ d.proposal = Judged(d.good, complete, r)
  BY DEF EvidenceOf
<1>2. complete \in BOOLEAN
  BY DEF EvidenceOf, Complete
<1> HIDE DEF d, r, complete
<1>3. d.proposal.reason \in ReasonsOf(d.proposal.outcome)
  <2> DEFINE p == d.proposal
             good == d.good
  <2>1. good \in BOOLEAN /\ p = Judged(good, complete, r)
    BY <1>1
  <2> HIDE DEF p, good
  <2>2. p.reason \in ReasonsOf(p.outcome)
    BY <1>2, <2>1, JudgedFacts
  <2> QED
    BY <2>2 DEF p
<1>4. DOMAIN r = 1..Len(r) /\ Len(r) \in Nat /\ Len(r) <= Cardinality(T)
  BY <1>1 DEF Ranking
<1>5. UNION {r[n].members : n \in DOMAIN r} = T
  <2>1. /\ \A n \in DOMAIN r : r[n].members \subseteq T
        /\ \A f \in T : \E n \in DOMAIN r : f \in r[n].members
    BY <1>1, <1>4 DEF Ranking
  <2> QED
    BY <2>1
<1>6. CandidatesAreSound(r)
  BY <1>1, <1>4 DEF Ranking, CandidatesAreSound
<1>7. CountsAgree(d)
  BY <1>1, <1>4, <1>5, ShortlistAssumption DEF CountsAgree, r, d
<1>8. MarginAgrees(d)
  BY <1>1 DEF MarginAgrees, r, d
<1>9. \A m, n \in DOMAIN r : m < n => BestFirst(r[m], r[n])
  BY <1>1, <1>4 DEF Ranking
<1>10. FollowsEvidence(d)
  BY <1>1, <1>9 DEF FollowsEvidence, r, d, complete
<1>11. \A n \in DOMAIN r : Itself \notin r[n].members
  BY <1>1, <1>4, FacesAreFinite DEF Ranking
<1> QED
  BY <1>3, <1>6, <1>7, <1>8, <1>10, <1>11 DEF d, r

\* The verdict.
LEMMA AcceptInv ==
  ASSUME IInv, Accept
  PROVE  IInv'
<1>1. /\ decision # None /\ verdict = "none"
      /\ UNCHANGED <<similar, owner, policy, lag, opened, decision, answer, changes>>
  BY DEF Accept, question
<1>2. Present' = Present
  BY <1>1 DEF Present, Eligible
<1>3. TypeOK'
  BY <1>1 DEF IInv, TypeOK, Accept
<1>4. OpenInv' /\ VerdictInv'
  BY <1>1, <1>2 DEF IInv, OpenInv, VerdictInv
<1>5. DecisionInv' /\ AnswerInv'
  BY <1>1, DecisionKept, AnswerKept DEF IInv
<1>6. PICK T \in SUBSET Face :
         EvidenceOf(decision, T) /\ (Complete(decision.dropped, decision.converged) => Seen(T))
  BY <1>1 DEF IInv, DecisionInv
<1>7. /\ decision.proposal.reason \in ReasonsOf(decision.proposal.outcome)
      /\ CandidatesAreSound(decision.candidates)
      /\ CountsAgree(decision) /\ MarginAgrees(decision)
      /\ FollowsEvidence(decision)
      /\ \A n \in DOMAIN decision.candidates : Itself \notin decision.candidates[n].members
  BY <1>6, EvidenceIsSound DEF IInv
<1>8. verdict' = IF Authoritative(decision) THEN "accepted" ELSE "refused"
  BY <1>7 DEF Accept
<1>9. RefusedForCause'
  <2> SUFFICES ASSUME ~Authoritative(decision) PROVE RefusedForCause'
    BY <1>8 DEF RefusedForCause
  <2>1. \E n \in DOMAIN decision.candidates :
            \E f \in decision.candidates[n].members : owner[f] # decision.candidates[n].identity
    BY <1>7 DEF Authoritative
  <2> QED
    BY <1>1, <2>1 DEF RefusedForCause
<1>10. AcceptedIsTrue'
  <2> SUFFICES ASSUME Authoritative(decision) PROVE AcceptedIsTrue'
    BY <1>8 DEF AcceptedIsTrue
  <2> DEFINE r == decision.candidates
             complete == Complete(decision.dropped, decision.converged)
             p == decision.proposal
  <2>1. LibraryOK /\ policy \in Policies /\ Ranking(r, T)
    BY <1>6, LibraryTyped DEF IInv, TypeOK, EvidenceOf
  <2>2. Owned(r)
    BY <2>1 DEF Authoritative, Owned, Ranking
  <2>3. /\ p.identity # None <=> p.outcome = "MATCH_EXISTING"
        /\ p.outcome = "MATCH_EXISTING" =>
              complete /\ r # <<>> /\ Similar(r) /\ Leads(r) /\ p.identity = r[1].identity
        /\ p.outcome = "CREATE_NEW" =>
              complete /\ (r = <<>> \/ r[1].similarity < policy.ceiling)
    <3>1. /\ decision.good \in BOOLEAN /\ complete \in BOOLEAN
          /\ p = Judged(decision.good, complete, r)
      BY <1>6 DEF EvidenceOf, Complete
    <3> HIDE DEF r, complete, p
    <3> QED
      BY <3>1, JudgedFacts
  <2>4. CASE p.outcome = "MATCH_EXISTING"
    <3>1. Seen(T) /\ r # <<>> /\ Similar(r) /\ Leads(r) /\ p.identity = r[1].identity
      BY <1>6, <2>3, <2>4
    <3>2. PICK f \in Face :
             /\ owner[f] = p.identity /\ similar[f] >= policy.threshold
             /\ \A g \in Present : owner[g] # p.identity => Separates(f, g, p.identity)
      BY <2>1, <2>2, <3>1, MatchIsAhead
    <3>3. \A g \in Present' : owner'[g] # p.identity => Separates(f, g, p.identity)'
      BY <1>1, <1>2, <3>2 DEF Separates
    <3> QED
      BY <1>1, <2>4, <3>2, <3>3 DEF AcceptedIsTrue
  <2>5. CASE p.outcome = "CREATE_NEW"
    <3>1. \A g \in Present : similar[g] < policy.ceiling
      BY <1>6, <2>1, <2>3, <2>5, NewIsFar
    <3> QED
      BY <1>1, <1>2, <2>5, <3>1 DEF AcceptedIsTrue
  <2>6. CASE p.outcome \notin {"MATCH_EXISTING", "CREATE_NEW"}
    BY <1>1, <2>6 DEF AcceptedIsTrue
  <2> QED
    BY <2>4, <2>5, <2>6
<1> QED
  BY <1>3, <1>4, <1>5, <1>9, <1>10 DEF IInv

\* A face search.
LEMMA SearchFaceInv ==
  ASSUME IInv, SearchFace
  PROVE  IInv'
<1>1. /\ decision = None /\ verdict = "none"
      /\ UNCHANGED <<similar, owner, policy, lag, opened, decision, verdict, changes>>
  BY DEF SearchFace, question, IInv, OpenInv, VerdictInv
<1>2. Present' = Present
  BY <1>1 DEF Present, Eligible
<1>3. /\ TypeOK' /\ OpenInv' /\ VerdictInv' /\ DecisionInv' /\ AcceptedIsTrue' /\ RefusedForCause'
  BY <1>1, <1>2 DEF IInv, TypeOK, OpenInv, VerdictInv, DecisionInv, AcceptedIsTrue, RefusedForCause
<1>4. LibraryOK /\ SearchK \in Nat
  BY LibraryTyped, ShortlistAssumption DEF IInv
<1>5. PICK index \in Indexes, converged \in (IF lag THEN {FALSE} ELSE BOOLEAN) :
         \E v \in Retrievals(index, {}, {}, SearchK) : \E ranked \in Ranked(Groups(v.members)) :
            answer' = Answer(Complete(v.dropped, converged), ranked)
  BY DEF SearchFace
<1>6. PICK v \in Retrievals(index, {}, {}, SearchK) : \E q \in Ranked(Groups(v.members)) :
         answer' = Answer(Complete(v.dropped, converged), q)
  BY <1>5
<1>7. PICK q \in Ranked(Groups(v.members)) : answer' = Answer(Complete(v.dropped, converged), q)
  BY <1>6
<1>8. index \in SUBSET Face /\ (~lag => Present \subseteq index) /\ (converged => ~lag) /\ converged \in BOOLEAN
  BY DEF Indexes
<1>9. v.dropped = 0 /\ Present \subseteq index => v.members \in Nearest(Present, SearchK)
  BY <1>4, <1>8, RetrievalFacts
<1>10. ASSUME answer'.complete
      PROVE  v.members \in Nearest(Present, SearchK) /\ answer' = Answer(TRUE, q)
  <2>1. Complete(v.dropped, converged) = TRUE
    BY <1>7, <1>8, <1>10 DEF Answer, Complete
  <2>2. v.dropped = 0 /\ converged
    BY <2>1 DEF Complete
  <2> QED
    BY <1>7, <1>8, <1>9, <2>1, <2>2
<1>11. AnswerInv'
  <2> DEFINE S == v.members
  <2>1. q \in Ranked(Groups(S))
    OBVIOUS
  <2>2. answer'.complete => S \in Nearest(Present, SearchK) /\ answer' = Answer(TRUE, q)
    BY <1>10
  <2> HIDE DEF S
  <2>3. /\ Nearest(Present, SearchK)' = Nearest(Present, SearchK)
        /\ Ranked(Groups(S))' = Ranked(Groups(S)) /\ Answer(TRUE, q)' = Answer(TRUE, q)
    BY <1>1, LibraryKept
  <2> QED
    BY <1>1, <2>1, <2>2, <2>3 DEF AnswerInv
<1> QED
  BY <1>3, <1>11 DEF IInv

\* Another transaction: faces leave the library or change their identity.
LEMMA ChangeInv ==
  ASSUME IInv, NEW new \in [Face -> Identities \cup {None, "GONE"}], Change(new),
         \A f \in Face : owner[f] = "GONE" => new[f] = "GONE"
  PROVE  IInv'
<1>1. /\ verdict = "none" /\ answer = None /\ owner' = new
      /\ UNCHANGED <<similar, policy, lag, opened, decision, verdict, answer>>
      /\ changes < MaxChanges /\ changes' = changes + 1
  BY DEF Change, question
<1>2. Present' \subseteq Present
  BY <1>1 DEF Present, Eligible
<1>3. changes' \in 0..MaxChanges
  BY <1>1, LibraryAssumption DEF IInv, TypeOK
<1>4. TypeOK'
  BY <1>1, <1>3 DEF IInv, TypeOK
<1>5. OpenInv' /\ VerdictInv' /\ AnswerInv' /\ AcceptedIsTrue' /\ RefusedForCause'
  BY <1>1, <1>2 DEF IInv, OpenInv, VerdictInv, AnswerInv, AcceptedIsTrue, RefusedForCause
<1>6. DecisionInv'
  <2> SUFFICES ASSUME decision # None PROVE DecisionInv'
    BY <1>1 DEF DecisionInv
  <2>1. PICK T \in SUBSET Face :
           EvidenceOf(decision, T) /\ (Complete(decision.dropped, decision.converged) => Seen(T))
    BY DEF IInv, DecisionInv
  <2>2. EvidenceOf(decision', T)
    BY <1>1, <2>1
  <2>3. EvidenceOf(decision, T)'
    BY <1>1, <2>2, EvidenceKept
  <2>4. Seen(T) => Seen(T)'
    BY <1>1, <1>2 DEF Seen
  <2>5. (Complete(decision.dropped, decision.converged) => Seen(T))'
    BY <1>1, <2>1, <2>4 DEF Complete
  <2> QED
    BY <2>3, <2>5 DEF DecisionInv
<1> QED
  BY <1>4, <1>5, <1>6 DEF IInv

\* Nothing happens to the invariant when nothing happens.
LEMMA IdleInv ==
  ASSUME IInv, UNCHANGED vars
  PROVE  IInv'
<1>1. UNCHANGED <<similar, owner, policy, lag, opened, decision, verdict, answer, changes>>
  BY DEF vars
<1>2. Present' = Present
  BY <1>1 DEF Present, Eligible
<1>3. TypeOK' /\ OpenInv' /\ VerdictInv'
  BY <1>1, <1>2 DEF IInv, TypeOK, OpenInv, VerdictInv
<1>4. DecisionInv' /\ AnswerInv'
  BY <1>1, DecisionKept, AnswerKept DEF IInv
<1>5. RefusedForCause'
  BY <1>1 DEF IInv, RefusedForCause
<1>6. AcceptedIsTrue'
  <2>1. \A f, g, i : Separates(f, g, i)' <=> Separates(f, g, i)
    BY <1>1 DEF Separates
  <2> QED
    BY <1>1, <1>2, <2>1 DEF IInv, AcceptedIsTrue
<1> QED
  BY <1>3, <1>4, <1>5, <1>6 DEF IInv

\* Every step of the run, of acceptance, of a search and of others keeps the invariant.
LEMMA NextInv ==
  ASSUME IInv, [Next]_vars
  PROVE  IInv'
<1>0. owner \in [Face -> Identities \cup {None, "GONE"}]
  BY DEF IInv, TypeOK
<1>1. CASE OpenIndex
  BY <1>1, OpenIndexInv
<1>2. CASE Decide
  BY <1>2, DecideInv
<1>3. CASE Accept
  BY <1>3, AcceptInv
<1>4. CASE SearchFace
  BY <1>4, SearchFaceInv
<1>5. ASSUME NEW f \in Face, Erase(f)
      PROVE  IInv'
  <2> DEFINE new == [owner EXCEPT ![f] = "GONE"]
  <2>1. Change(new)
    BY <1>5 DEF Erase
  <2>2. new \in [Face -> Identities \cup {None, "GONE"}]
    BY <1>0
  <2>3. \A g \in Face : owner[g] = "GONE" => new[g] = "GONE"
    BY <1>0
  <2> HIDE DEF new
  <2> QED
    BY <2>1, <2>2, <2>3, ChangeInv
<1>6. ASSUME NEW i \in Identities, NEW j \in Identities, Merge(i, j)
      PROVE  IInv'
  <2> DEFINE new == [f \in Face |-> IF owner[f] = i THEN j ELSE owner[f]]
  <2>1. Change(new)
    BY <1>6 DEF Merge
  <2>2. new \in [Face -> Identities \cup {None, "GONE"}]
    BY <1>0
  <2>3. \A g \in Face : owner[g] = "GONE" => new[g] = "GONE"
    BY NullAssumption
  <2> HIDE DEF new
  <2> QED
    BY <2>1, <2>2, <2>3, ChangeInv
<1>7. ASSUME NEW f \in Face, NEW i \in Identities, Assign(f, i)
      PROVE  IInv'
  <2> DEFINE new == [owner EXCEPT ![f] = i]
  <2>1. Change(new) /\ owner[f] # "GONE"
    BY <1>7 DEF Assign, Eligible
  <2>2. new \in [Face -> Identities \cup {None, "GONE"}]
    BY <1>0
  <2>3. \A g \in Face : owner[g] = "GONE" => new[g] = "GONE"
    BY <1>0, <2>1
  <2> HIDE DEF new
  <2> QED
    BY <2>1, <2>2, <2>3, ChangeInv
<1>8. CASE UNCHANGED vars
  BY <1>8, IdleInv
<1> QED
  BY <1>1, <1>2, <1>3, <1>4, <1>5, <1>6, <1>7, <1>8 DEF Next

\* The search and the run that the invariant speaks of agree.
LEMMA AnswersAgree ==
  ASSUME IInv
  PROVE  SearchAgrees
<1> SUFFICES ASSUME decision # None, answer # None, ~Tied, decision.good, answer.complete,
                    Complete(decision.dropped, decision.converged)
             PROVE  LET run == decision.proposal IN
                    /\ answer.identity # None => run.identity = answer.identity
                    /\ run.identity # None =>
                          run.identity \in answer.people /\ answer.identity \in {None, run.identity}
  BY DEF SearchAgrees
<1>1. LibraryOK /\ policy \in Policies
  BY LibraryTyped DEF IInv, TypeOK
<1>2. PICK S \in Nearest(Present, SearchK) : \E q \in Ranked(Groups(S)) : answer = Answer(TRUE, q)
  BY DEF IInv, AnswerInv
<1>3. PICK q \in Ranked(Groups(S)) : answer = Answer(TRUE, q)
  BY <1>2
<1>4. PICK T \in Nearest(Present, K) : decision.candidates \in Ranked(Groups(T))
  BY DEF IInv, AnswerInv
<1>5. PICK U \in SUBSET Face : EvidenceOf(decision, U)
  BY DEF IInv, DecisionInv
<1>6. decision.good = TRUE /\ Complete(decision.dropped, decision.converged) = TRUE
  BY <1>5 DEF EvidenceOf, Complete
<1>7. decision.proposal = Judged(TRUE, TRUE, decision.candidates)
  BY <1>5, <1>6 DEF EvidenceOf
<1> DEFINE r == decision.candidates
           run == decision.proposal
<1> HIDE DEF r, run
<1>8. r \in Ranked(Groups(T)) /\ run = Judged(TRUE, TRUE, r)
  BY <1>4, <1>7 DEF r, run
<1>9. /\ Answer(TRUE, q).identity # None => run.identity = Answer(TRUE, q).identity
      /\ run.identity # None => run.identity \in Answer(TRUE, q).people
  BY <1>1, <1>8, NamesAgree
<1>10. /\ answer.identity # None => run.identity = answer.identity
       /\ run.identity # None => run.identity \in answer.people
  BY <1>3, <1>9
<1> QED
  BY <1>10 DEF run

-----------------------------------------------------------------------------
(* Theorems *)

\* IInv holds in every state of every behaviour.
THEOREM Invariant == Spec => []IInv
<1>1. Init => IInv
  BY InitInv
<1>2. IInv /\ [Next]_vars => IInv'
  BY NextInv
<1> QED
  BY <1>1, <1>2, PTL DEF Spec

\* The library, the frozen policy and the index of a run keep their types, whatever
\* others do during the decision.
THEOREM TypesAreKept == Spec => []TypeOK
<1>1. IInv => TypeOK
  BY DEF IInv
<1> QED
  BY <1>1, Invariant, PTL

\* What acceptance publishes is true of the library as it is then, for libraries and
\* shortlists of any size and any policies (recognition/retrieval.py retrieve, reasoner.py
\* decide, processing/accept_run.py _validate_reasoned_decision).
THEOREM AcceptanceIsTrue == Spec => []AcceptedIsTrue
<1>1. IInv => AcceptedIsTrue
  BY DEF IInv
<1> QED
  BY <1>1, Invariant, PTL

\* Acceptance refuses no decision but one that cites a face which has left or changed
\* its identity since: every other check of accept_run.py passes on the evidence that
\* reasoner.py writes (reasoner.py evidence_payload, accept_run.py _evidence, _candidates).
THEOREM RefusalsHaveACause == Spec => []RefusedForCause
<1>1. IInv => RefusedForCause
  BY DEF IInv
<1> QED
  BY <1>1, Invariant, PTL

\* A face search with a longer shortlist does not contradict the run that decides about
\* the same face over the same library (recognition/face_query.py search, reasoner.py decide).
THEOREM SearchesAgree == Spec => []SearchAgrees
<1>1. IInv => SearchAgrees
  BY AnswersAgree
<1> QED
  BY <1>1, Invariant, PTL
=============================================================================
