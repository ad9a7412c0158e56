--------------------------- MODULE IdentitiesProofs ---------------------------
(***************************************************************************)
(* Theorems about `Identities`, for any faces, images, identities and      *)
(* people.                                                                 *)
(*                                                                         *)
(* The invariant `IInv` is the properties with what they need of each      *)
(* other, one lemma per part.  Two definitions of the module walk along    *)
(* merges by a recursive function; that the walk is long enough is the     *)
(* pigeonhole principle, over a set of identities that is finite.          *)
(***************************************************************************)
EXTENDS Identities, TLAPS, FiniteSetTheorems, NaturalsInduction

-----------------------------------------------------------------------------
(* The inductive invariant *)

\* Only a merged identity points to another, a face without a vector has no
\* owner, an owner exists, and a crop goes with the vector.
RowsInv ==
    /\ \A i \in Identities : identity[i].mergedInto # None <=> identity[i].state = "MERGED"
    /\ \A f \in Faces : face[f].rep = "NONE" => face[f].owner = None
    /\ \A f \in Faces : face[f].owner # None => identity[face[f].owner].state # "FREE"
    /\ \A f \in Faces : face[f].rep \in {"ERASING", "ERASED"} => face[f].crop # "KEPT"

\* A person belongs to an ACTIVE identity only.
LinkInv == \A i \in Identities : link[i] # None => Active(i) /\ link[i] \in people

\* What an ACTIVE identity shows is in use, and what one shows that recognition proposes
\* is the face that it was proposed for.
ShowsInv ==
    /\ \A i \in Identities : Active(i) /\ identity[i].shows # None =>
          \/ face[identity[i].shows].owner = i /\ face[identity[i].shows].rep = "ACTIVE"
          \/ source[SourceOf[identity[i].shows]] = "DELETING"
    /\ \A f \in Faces :
          face[f].rep = "PENDING" /\ Created(f) /\ identity[face[f].owner].state = "PENDING" =>
              identity[face[f].owner].shows = f

\* Among any merged identities there is one that was merged into none of them.
MergesInv ==
    \A S \in SUBSET Identities :
        S # {} /\ (\A i \in S : identity[i].state = "MERGED") =>
            \E i \in S : identity[i].mergedInto \notin S

\* Nothing that an identity owned is in use.
Empty(i) ==
    /\ \A f \in Faces : face[f].owner = i =>
          /\ face[f].rep \in {"ERASING", "ERASED"}
          /\ face[f].occ # "ACTIVE" /\ face[f].crop # "KEPT"
    /\ identity[i].shows = None

\* The forgotten identities, with all that lead to them.
LostInv ==
    \E lost \in SUBSET Identities :
        /\ \A i \in lost : identity[i].state \in {"MERGED", "FORGOTTEN"} /\ Empty(i)
        /\ \A i \in Identities :
              \/ identity[i].state = "FORGOTTEN"
              \/ identity[i].state = "MERGED" /\ identity[i].mergedInto \in lost
              => i \in lost

\* Whoever sends a revision saw an identity that was ACTIVE then.
ViewInv ==
    /\ view.current => view.of \in Identities /\ identity[view.of].state \notin {"FREE", "PENDING"}
    /\ CurrentViewsAreTrue

IInv ==
    /\ TypeOK /\ RowsInv /\ OwnersAgree
    /\ LinkInv /\ ShowsInv /\ MergesInv /\ LostInv /\ ViewInv

-----------------------------------------------------------------------------
(* Walks along merges *)

\* A set of numbers has a least one.
LEMMA Least == ASSUME NEW S \in SUBSET Nat, S # {}
  PROVE \E x \in S : \A y \in S : x <= y
<1>1. \E x \in S : \A y \in S : ~ (<<y, x>> \in OpToRel(<,Nat))
  BY WFMin, NatLessThanWellFounded
<1>2. ASSUME NEW x \in S, NEW y \in S, <<y,x>> \notin OpToRel(<,Nat) PROVE x <= y
  BY <1>2 DEF OpToRel
<1> QED BY <1>1, <1>2

\* Induction, of a set: the library's theorem takes an operator, which no installed
\* prover can instantiate.
LEMMA SetInduction ==
  ASSUME NEW S \in SUBSET Nat, 0 \in S, \A n \in S : n + 1 \in S
  PROVE  S = Nat
<1>1. SUFFICES ASSUME Nat \ S # {} PROVE FALSE
  OBVIOUS
<1>2. PICK x \in Nat \ S : \A y \in Nat \ S : x <= y
  BY <1>1, Least
<1>3. x # 0 /\ x - 1 \in Nat
  BY <1>2
<1>4. x - 1 \in S
  BY <1>2, <1>3
<1>5. (x - 1) + 1 \in S
  BY <1>4
<1> QED BY <1>2, <1>3, <1>5

Iterates(k, X, a, g, N) ==
    k \in [0..N -> X] /\ k[0] = a /\ \A n \in 1..N : k[n] = g[k[n - 1]]

\* A function that begins with a and goes on with g exists.
LEMMA Iterated ==
  ASSUME NEW X, NEW a \in X, NEW g \in [X -> X], NEW N \in Nat
  PROVE  \E k : Iterates(k, X, a, g, N)
<1> DEFINE Good(k, n) == k[0] = a /\ \A m \in 1..n : k[m] = g[k[m - 1]]
           S == {n \in Nat : \E k \in [0..n -> X] : Good(k, n)}
<1>1. 0 \in S
  <2> DEFINE k == [n \in 0..0 |-> a]
  <2>1. k \in [0..0 -> X] /\ Good(k, 0)
    OBVIOUS
  <2> QED BY <2>1
<1>2. ASSUME NEW n \in S PROVE n + 1 \in S
  <2>1. PICK k \in [0..n -> X] : Good(k, n)
    OBVIOUS
  <2> DEFINE h == [m \in 0..(n + 1) |-> IF m = n + 1 THEN g[k[n]] ELSE k[m]]
  <2>2. n \in Nat /\ k[n] \in X
    OBVIOUS
  <2>3. h \in [0..(n + 1) -> X]
    BY <2>2
  <2>4. \A m \in 1..(n + 1) : h[m] = g[h[m - 1]]
    <3> TAKE m \in 1..(n + 1)
    <3>1. m - 1 \in 0..n /\ h[m - 1] = k[m - 1]
      BY <2>2
    <3>2. CASE m = n + 1
      BY <2>2, <3>1, <3>2
    <3>3. CASE m # n + 1
      <4>1. m \in 1..n /\ h[m] = k[m]
        BY <2>2, <3>3
      <4> QED BY <2>1, <3>1, <4>1
    <3> QED BY <3>2, <3>3
  <2>5. h[0] = a
    BY <2>1, <2>2
  <2>6. Good(h, n + 1)
    BY <2>4, <2>5
  <2> HIDE DEF Good, h
  <2> QED BY <2>2, <2>3, <2>6
<1>3. N \in S
  <2> HIDE DEF S
  <2>1. S \in SUBSET Nat
    BY DEF S
  <2> QED BY <1>1, <1>2, <2>1, SetInduction
<1>4. PICK k \in [0..N -> X] : Good(k, N)
  BY <1>3
<1> QED BY <1>4 DEF Iterates

\* The family of an identity: itself and, with every identity, those merged into that one.
LEMMA FamilyOf ==
  ASSUME TypeOK, NEW i \in Identities
  PROVE  /\ Family(i) \subseteq Identities /\ i \in Family(i)
         /\ \A j \in Family(i) : j = i \/ identity[j].mergedInto # None
         /\ \A j \in Identities : identity[j].mergedInto \in Family(i) => j \in Family(i)
<1> DEFINE N == Cardinality(Identities)
           Into(F) == {j \in Identities : identity[j].mergedInto \in F}
           Unfold(k, n) == IF n = 0 THEN {i} ELSE k[n - 1] \cup Into(k[n - 1])
           f == CHOOSE k : k = [n \in 0..N |-> Unfold(k, n)]
           Closed(F) == Into(F) \subseteq F
<1>1. N \in Nat
  BY FiniteAssumption, FS_CardinalityType
<1>2. \E k : k = [n \in 0..N |-> Unfold(k, n)]
  <2> DEFINE g == [F \in SUBSET Identities |-> F \cup Into(F)]
  <2>1. g \in [SUBSET Identities -> SUBSET Identities] /\ {i} \in SUBSET Identities
    OBVIOUS
  <2>2. PICK k \in [0..N -> SUBSET Identities] : k[0] = {i} /\ \A n \in 1..N : k[n] = g[k[n - 1]]
    <3>1. \E k : Iterates(k, SUBSET Identities, {i}, g, N)
      <4> HIDE DEF g, N
      <4> QED BY <1>1, <2>1, Iterated
    <3> QED BY <3>1 DEF Iterates
  <2>3. ASSUME NEW n \in 0..N PROVE k[n] = Unfold(k, n)
    <3>1. n # 0 => k[n - 1] \in SUBSET Identities
      BY <1>1
    <3>2. k[n] = IF n = 0 THEN {i} ELSE g[k[n - 1]]
      <4>1. n # 0 => n \in 1..N
        BY <1>1
      <4> QED BY <2>2, <4>1
    <3> QED BY <3>1, <3>2
  <2>4. k = [n \in 0..N |-> k[n]]
    OBVIOUS
  <2>5. k = [n \in 0..N |-> Unfold(k, n)]
    <3> HIDE DEF Unfold, g
    <3> QED BY <2>3, <2>4
  <2> QED BY <2>5
<1>3. f = [n \in 0..N |-> Unfold(f, n)]
  BY <1>2
<1>4. Family(i) = f[N]
  BY DEF Family
<1>5. f[0] = {i} /\ \A n \in Nat : n + 1 <= N => f[n + 1] = f[n] \cup Into(f[n])
  <2> HIDE DEF f
  <2>1. f[0] = Unfold(f, 0)
    BY <1>1, <1>3
  <2>2. ASSUME NEW n \in Nat, n + 1 <= N PROVE f[n + 1] = Unfold(f, n + 1)
    <3>1. n + 1 \in 0..N
      BY <1>1, <2>2
    <3> QED BY <1>3, <3>1
  <2>3. ASSUME NEW n \in Nat, n + 1 <= N PROVE f[n + 1] = f[n] \cup Into(f[n])
    <3>1. (n + 1) - 1 = n /\ n + 1 # 0
      OBVIOUS
    <3> HIDE DEF Into
    <3> QED BY <2>2, <2>3, <3>1
  <2> QED BY <2>1, <2>3
<1> HIDE DEF f, Unfold
<1> DEFINE Holds(n) == /\ f[n] \subseteq Identities /\ i \in f[n]
                       /\ \A j \in f[n] : j = i \/ identity[j].mergedInto # None
                       /\ Closed(f[n]) \/ Cardinality(f[n]) >= n + 1
           S == {n \in Nat : n <= N => Holds(n)}
<1>6. 0 \in S
  <2>1. f[0] = {i} /\ Cardinality({i}) = 1
    BY <1>5, FS_Singleton
  <2>2. Cardinality(f[0]) >= 0 + 1
    BY <2>1
  <2> QED BY <2>1, <2>2
<1>7. ASSUME NEW n \in S PROVE n + 1 \in S
  <2> SUFFICES ASSUME n + 1 <= N PROVE Holds(n + 1)
    OBVIOUS
  <2>1. n \in Nat /\ n + 1 \in Nat /\ Holds(n)
    BY <1>1
  <2>2. f[n + 1] = f[n] \cup Into(f[n])
    BY <1>5, <2>1
  <2>3. f[n + 1] \subseteq Identities /\ i \in f[n + 1]
    BY <2>1, <2>2
  <2>4. \A j \in f[n + 1] : j = i \/ identity[j].mergedInto # None
    BY <2>1, <2>2, NoneAssumption
  <2>5. CASE Closed(f[n])
    BY <2>2, <2>3, <2>4, <2>5
  <2>6. CASE ~Closed(f[n])
    <3>1. PICK j \in Into(f[n]) : j \notin f[n]
      BY <2>6
    <3>2. f[n] \cup {j} \subseteq f[n + 1]
      BY <2>2, <3>1
    <3>3. IsFiniteSet(f[n]) /\ IsFiniteSet(f[n + 1])
      BY <2>1, <2>3, FiniteAssumption, FS_Subset
    <3>4. Cardinality(f[n] \cup {j}) = Cardinality(f[n]) + 1
      BY <3>1, <3>3, FS_AddElement
    <3>5. Cardinality(f[n] \cup {j}) <= Cardinality(f[n + 1])
      BY <3>2, <3>3, FS_Subset
    <3>6. Cardinality(f[n + 1]) \in Nat /\ Cardinality(f[n]) \in Nat
      BY <3>3, FS_CardinalityType
    <3>7. Cardinality(f[n + 1]) >= n + 2
      BY <2>1, <2>6, <3>4, <3>5, <3>6
    <3>8. Cardinality(f[n + 1]) >= (n + 1) + 1
      BY <2>1, <3>6, <3>7
    <3> QED BY <2>3, <2>4, <3>8
  <2> QED BY <2>5, <2>6
<1>8. Holds(N)
  <2>1. S = Nat
    <3> HIDE DEF S
    <3>1. S \in SUBSET Nat
      BY DEF S
    <3> QED BY <1>6, <1>7, <3>1, SetInduction
  <2> QED BY <1>1, <2>1
<1>9. Closed(f[N])
  <2>1. Cardinality(f[N]) <= N /\ Cardinality(f[N]) \in Nat
    BY <1>8, FiniteAssumption, FS_Subset, FS_CardinalityType
  <2> QED BY <1>1, <1>8, <2>1
<1> QED BY <1>4, <1>8, <1>9

\* Following the merges ends at an identity that is not merged, and a set of identities
\* that holds with each identity those merged into it has the beginning with the end.
LEMMA EndOfMerges ==
  ASSUME TypeOK, RowsInv, MergesInv, NEW i \in Identities
  PROVE  /\ EndOf(i) \in Identities /\ identity[EndOf(i)].state # "MERGED"
         /\ \A lost \in SUBSET Identities :
               /\ \A j \in Identities :
                     identity[j].state = "MERGED" /\ identity[j].mergedInto \in lost => j \in lost
               /\ EndOf(i) \in lost
               => i \in lost
<1> DEFINE N == Cardinality(Identities)
           Next1(j) == IF identity[j].state = "MERGED" THEN identity[j].mergedInto ELSE j
           Unfold(k, n) == IF n = 0 THEN i ELSE Next1(k[n - 1])
           w == CHOOSE k : k = [n \in 0..N |-> Unfold(k, n)]
<1>1. N \in Nat
  BY FiniteAssumption, FS_CardinalityType
<1>0. \A j \in Identities : Next1(j) \in Identities
  BY DEF TypeOK, RowsInv, Rows
<1>2. \E k : k = [n \in 0..N |-> Unfold(k, n)]
  <2> DEFINE g == [j \in Identities |-> Next1(j)]
  <2>1. g \in [Identities -> Identities]
    BY <1>0
  <2>2. PICK k \in [0..N -> Identities] : k[0] = i /\ \A n \in 1..N : k[n] = g[k[n - 1]]
    <3>1. \E k : Iterates(k, Identities, i, g, N)
      <4> HIDE DEF g, N
      <4> QED BY <1>1, <2>1, Iterated
    <3> QED BY <3>1 DEF Iterates
  <2>3. ASSUME NEW n \in 0..N PROVE k[n] = Unfold(k, n)
    <3>1. n # 0 => k[n - 1] \in Identities
      BY <1>1
    <3>2. k[n] = IF n = 0 THEN i ELSE g[k[n - 1]]
      <4>1. n # 0 => n \in 1..N
        BY <1>1
      <4> QED BY <2>2, <4>1
    <3> QED BY <3>1, <3>2
  <2>4. k = [n \in 0..N |-> k[n]]
    OBVIOUS
  <2>5. k = [n \in 0..N |-> Unfold(k, n)]
    <3> HIDE DEF Unfold, g
    <3> QED BY <2>3, <2>4
  <2> QED BY <2>5
<1>3. w = [n \in 0..N |-> Unfold(w, n)]
  BY <1>2
<1>4. EndOf(i) = w[N]
  BY DEF EndOf
<1>5. w[0] = i /\ \A n \in Nat : n + 1 <= N => w[n + 1] = Next1(w[n])
  <2> HIDE DEF w
  <2>1. w[0] = Unfold(w, 0)
    BY <1>1, <1>3
  <2>2. ASSUME NEW n \in Nat, n + 1 <= N PROVE w[n + 1] = Unfold(w, n + 1)
    <3>1. n + 1 \in 0..N
      BY <1>1, <2>2
    <3> QED BY <1>3, <3>1
  <2> QED BY <2>1, <2>2
<1> DEFINE Merged(j) == identity[j].state = "MERGED"
           S == {n \in Nat : n <= N =>
                    w[n] \in Identities /\ (Merged(w[n]) => \A m \in 0..n : Merged(w[m]))}
<1> HIDE DEF w, Unfold
<1>6. 0 \in S
  BY <1>5
<1>7. ASSUME NEW n \in S PROVE n + 1 \in S
  <2> SUFFICES ASSUME n + 1 <= N
               PROVE  w[n + 1] \in Identities /\ (Merged(w[n + 1]) => \A m \in 0..(n + 1) : Merged(w[m]))
    OBVIOUS
  <2>1. /\ n \in Nat /\ w[n] \in Identities /\ w[n + 1] = Next1(w[n])
        /\ Merged(w[n]) => \A m \in 0..n : Merged(w[m])
    BY <1>1, <1>5
  <2>2. w[n + 1] \in Identities
    BY <1>0, <2>1
  <2>3. \A m \in 0..(n + 1) : m \in 0..n \/ m = n + 1
    BY <2>1
  <2>4. Merged(w[n + 1]) => Merged(w[n])
    BY <2>1
  <2> QED BY <2>1, <2>2, <2>3, <2>4
<1>8. S = Nat
  <2> HIDE DEF S
  <2>1. S \in SUBSET Nat
    BY DEF S
  <2> QED BY <1>6, <1>7, <2>1, SetInduction
<1>9. \A n \in 0..N : w[n] \in Identities /\ (Merged(w[n]) => \A m \in 0..n : Merged(w[m]))
  BY <1>1, <1>8
\* A walk that came nowhere went in a circle.
<1>10. ASSUME Merged(w[N]) PROVE FALSE
  <2> DEFINE walk == [n \in 0..N |-> w[n]]
  <2>1. walk \in [0..N -> Identities]
    BY <1>9
  <2>2. IsFiniteSet(0..N) /\ Cardinality(0..N) = N + 1
    BY <1>1, FS_Interval
  <2>3. \E x, y \in 0..N : x # y /\ walk[x] = walk[y]
    <3> HIDE DEF walk
    <3>1. Cardinality(Identities) < Cardinality(0..N)
      BY <1>1, <2>2
    <3> QED BY <2>1, <2>2, <3>1, FiniteAssumption, FS_PigeonHole
  <2>4. PICK a \in 0..N, b \in 0..N : a < b /\ w[a] = w[b]
    <3>1. \A x, y \in 0..N : x # y => x < y \/ y < x
      BY <1>1
    <3>2. PICK x \in 0..N, y \in 0..N : x # y /\ w[x] = w[y]
      BY <2>3
    <3> QED BY <3>1, <3>2
  <2> DEFINE C == {w[m] : m \in a..(b - 1)}
  <2>5. C \subseteq Identities /\ C # {} /\ \A j \in C : Merged(j)
    <3>1. \A m \in a..(b - 1) : m \in 0..N
      BY <1>1, <2>4
    <3>2. a \in a..(b - 1)
      BY <1>1, <2>4
    <3>3. N \in 0..N
      BY <1>1
    <3> QED BY <1>9, <1>10, <3>1, <3>2, <3>3
  <2>6. ASSUME NEW m \in a..(b - 1) PROVE identity[w[m]].mergedInto \in C
    <3>1. m \in Nat /\ m + 1 <= N /\ w[m] \in C
      BY <1>1, <2>4
    <3>2. w[m + 1] = identity[w[m]].mergedInto
      BY <1>5, <2>5, <3>1
    <3>3. m + 1 \in a..(b - 1) \/ m + 1 = b
      BY <1>1, <2>4
    <3>4. a \in a..(b - 1)
      BY <1>1, <2>4
    <3> QED BY <2>4, <3>2, <3>3, <3>4
  <2>7. \A j \in C : identity[j].mergedInto \in C
    BY <2>6
  <2> HIDE DEF C
  <2> QED BY <2>5, <2>7 DEF MergesInv
<1>11. ASSUME NEW lost \in SUBSET Identities,
              \A j \in Identities :
                  identity[j].state = "MERGED" /\ identity[j].mergedInto \in lost => j \in lost,
              w[N] \in lost
       PROVE  i \in lost
  <2> DEFINE T == {n \in Nat : n <= N => (w[n] \in lost => i \in lost)}
  <2>1. 0 \in T
    BY <1>5
  <2>2. ASSUME NEW n \in T PROVE n + 1 \in T
    <3> SUFFICES ASSUME n + 1 <= N, w[n + 1] \in lost PROVE i \in lost
      OBVIOUS
    <3>1. n \in Nat /\ n \in 0..N /\ w[n] \in Identities /\ w[n + 1] = Next1(w[n])
      BY <1>1, <1>5, <1>9
    <3>2. w[n] \in lost
      BY <1>11, <3>1
    <3> QED BY <3>1, <3>2
  <2>3. T = Nat
    <3> HIDE DEF T
    <3>1. T \in SUBSET Nat
      BY DEF T
    <3> QED BY <2>1, <2>2, <3>1, SetInduction
  <2> QED BY <1>1, <1>11, <2>3
<1>12. w[N] \in Identities /\ ~Merged(w[N])
  BY <1>1, <1>9, <1>10
<1> QED BY <1>4, <1>11, <1>12

-----------------------------------------------------------------------------
(* What each step does, row by row *)

\* A step on the people of an identity.
Named1(i, p) ==
    \/ p \in People /\ (AssignPerson(i, p) \/ NameIdentity(i, p))
    \/ p = None /\ RemovePerson(i)

\* The decision about the faces D, of which those in B get new identities.
Deciding(s, D, B, born) ==
    /\ D \subseteq Of(s) /\ B \subseteq D
    /\ (\A f, g \in B : born[f] = born[g] => f = g)
    /\ Decide(s, D, born)

LEMMA StepCases ==
  ASSUME [Next]_vars
  PROVE  \/ /\ UNCHANGED <<identity, face, link, people, source>>
            /\ \/ UNCHANGED <<run, view>>
               \/ \E s \in Sources : RunEnds(s)
               \/ \E i \in Identities : Look(i)
         \/ \E s \in Sources, D \in SUBSET Faces, B \in SUBSET Faces :
               \E born \in [B -> Free] : Deciding(s, D, B, born)
         \/ \E s \in Sources : Accept(s)
         \/ \E s \in Identities, L \in SUBSET Identities : Merge(L, s)
         \/ \E i \in Identities, S \in SUBSET Faces, n \in Identities : Split(i, S, n)
         \/ \E f \in Faces, t \in Identities : Reassign(f, t)
         \/ \E f \in Faces, t \in Identities : Resolve(f, t)
         \/ \E i \in Identities, p \in People \cup {None} : Named1(i, p)
         \/ \E I \in SUBSET Identities : ForgetAll(I)
         \/ \E f \in Faces : Erased(f)
         \/ \E s \in Sources : BeginDeletion(s)
         \/ \E s \in Sources : FinishDeletion(s)
<1>1. CASE Recognize
  <2>1. ASSUME NEW s \in Sources, RunEnds(s)
        PROVE  UNCHANGED <<identity, face, link, people, source>>
    BY <2>1 DEF RunEnds
  <2> QED BY <1>1, <2>1 DEF Recognize, Deciding
<1>2. CASE Correct
  BY <1>2 DEF Correct, Named1
<1>3. CASE Remove
  <2>1. ASSUME NEW i \in Identities, Forget(i)
        PROVE  \E I \in SUBSET Identities : ForgetAll(I)
    BY <2>1 DEF Forget
  <2>2. ASSUME NEW p \in People, ForgetPerson(p)
        PROVE  \E I \in SUBSET Identities : ForgetAll(I)
    BY <2>2 DEF ForgetPerson
  <2> QED BY <1>3, <2>1, <2>2 DEF Remove
<1>4. CASE \E i \in Identities : Look(i)
  <2>1. UNCHANGED <<identity, face, link, people, source>>
    BY <1>4 DEF Look
  <2> QED BY <1>4, <2>1
<1>5. CASE UNCHANGED vars
  BY <1>5 DEF vars
<1> QED BY <1>1, <1>2, <1>3, <1>4, <1>5 DEF Next

\* What it writes.
Decided(s, D, B, born) ==
    /\ face' \in [Faces -> FaceRows] /\ identity' \in [Identities -> Rows]
    /\ source[s] = "ACTIVE"
    /\ \A f \in Faces \ D : face'[f] = face[f]
    /\ \A f \in D : /\ face[f].rep = "NONE" /\ SourceOf[f] = s
                    /\ face'[f].rep = "PENDING" /\ face'[f].occ = "NONE"
                    /\ \/ f \in B /\ face'[f].owner = born[f] /\ face'[f].cites = None
                       \/ face'[f].owner = None
                       \/ face'[f].cites # None /\ Active(face'[f].owner)
                          /\ face'[f].owner \in Identities
    /\ \A i \in Identities :
          \/ \E f \in B : /\ born[f] = i /\ identity[i].state = "FREE"
                          /\ identity'[i].state = "PENDING"
                          /\ identity'[i].mergedInto = None /\ identity'[i].shows = f
          \/ identity'[i] = identity[i] /\ \A f \in B : born[f] # i
    /\ UNCHANGED <<link, people, source, view>> /\ run' = [run EXCEPT ![s] = D]

LEMMA DecideEffect ==
  ASSUME TypeOK, NEW s \in Sources, NEW D \in SUBSET Faces, NEW B \in SUBSET Faces,
         NEW born \in [B -> Free], Deciding(s, D, B, born)
  PROVE  Decided(s, D, B, born)
<1> USE DEF Deciding
<1>0. /\ face \in [Faces -> FaceRows] /\ identity \in [Identities -> Rows]
      /\ DOMAIN born = B /\ D \subseteq Faces /\ None \notin Faces \cup Identities
      /\ \A f \in B : born[f] \in Identities /\ identity[born[f]].state = "FREE"
  BY NoneAssumption DEF TypeOK, Free
<1>1. PICK cited \in [D \ DOMAIN born -> {m \in Faces : Candidate(m)} \cup {None}] :
         face' = [f \in Faces |->
                    IF f \notin D THEN face[f]
                    ELSE [Unseen EXCEPT
                            !.rep = "PENDING", !.crop = "KEPT",
                            !.owner = IF f \in DOMAIN born THEN born[f]
                                      ELSE IF cited[f] = None THEN None
                                      ELSE face[cited[f]].owner,
                            !.cites = IF f \in DOMAIN born THEN None ELSE cited[f]]]
  BY DEF Decide
<1>2. ASSUME NEW f \in D
      PROVE  /\ face'[f] \in FaceRows
             /\ face'[f].rep = "PENDING" /\ face'[f].occ = "NONE"
             /\ \/ f \in B /\ face'[f].owner = born[f] /\ face'[f].cites = None
                \/ face'[f].owner = None
                \/ face'[f].cites # None /\ Active(face'[f].owner)
                   /\ face'[f].owner \in Identities
  <2>1. CASE f \in B
    <3>1. face'[f] = [Unseen EXCEPT !.rep = "PENDING", !.crop = "KEPT", !.owner = born[f],
                                    !.cites = None]
      BY <1>0, <1>1, <2>1
    <3> QED BY <1>0, <2>1, <3>1 DEF Unseen, FaceRows
  <2>2. CASE f \notin B
    <3> DEFINE c == cited[f]
    <3>1. c = None \/ (c \in Faces /\ Candidate(c))
      BY <1>0, <2>2
    <3>2. CASE c = None
      <4>1. face'[f] = [Unseen EXCEPT !.rep = "PENDING", !.crop = "KEPT", !.owner = None,
                                      !.cites = None]
        BY <1>0, <1>1, <2>2, <3>2
      <4> QED BY <4>1 DEF Unseen, FaceRows
    <3>3. CASE c # None
      <4>1. face'[f] = [Unseen EXCEPT !.rep = "PENDING", !.crop = "KEPT",
                                      !.owner = face[c].owner, !.cites = c]
        BY <1>0, <1>1, <2>2, <3>3
      <4>2. c \in Faces /\ face[c].owner \in Identities /\ Active(face[c].owner)
        BY <1>0, <3>1, <3>3 DEF Candidate, FaceRows
      <4> HIDE DEF c
      <4> QED BY <3>3, <4>1, <4>2 DEF Unseen, FaceRows
    <3> QED BY <3>2, <3>3
  <2> QED BY <2>1, <2>2
<1>3. face' \in [Faces -> FaceRows] /\ \A f \in Faces \ D : face'[f] = face[f]
  <2>1. \A f \in Faces : face'[f] \in FaceRows
    BY <1>0, <1>1, <1>2
  <2> QED BY <1>0, <1>1, <2>1
<1>4. ASSUME NEW i \in Identities
      PROVE  /\ identity'[i] \in Rows
             /\ \/ \E f \in B : /\ born[f] = i /\ identity[i].state = "FREE"
                               /\ identity'[i].state = "PENDING"
                               /\ identity'[i].mergedInto = None /\ identity'[i].shows = f
                \/ identity'[i] = identity[i] /\ \A f \in B : born[f] # i
  <2>1. identity'[i] = IF \E f \in B : born[f] = i
                       THEN [Unborn EXCEPT !.state = "PENDING",
                                           !.shows = CHOOSE f \in B : born[f] = i]
                       ELSE identity[i]
    <3>1. identity' = [j \in Identities |->
                         IF \E f \in DOMAIN born : born[f] = j
                         THEN [Unborn EXCEPT !.state = "PENDING",
                                 !.shows = CHOOSE f \in DOMAIN born : born[f] = j]
                         ELSE identity[j]]
      BY DEF Decide
    <3> QED BY <1>0, <3>1
  <2>2. ASSUME NEW f \in B, born[f] = i
        PROVE  identity'[i] = [Unborn EXCEPT !.state = "PENDING", !.shows = f]
    <3>1. (CHOOSE g \in B : born[g] = i) = f
      BY <2>2
    <3> QED BY <2>1, <2>2, <3>1
  <2>3. ASSUME NEW f \in B PROVE [Unborn EXCEPT !.state = "PENDING", !.shows = f] \in Rows
    BY <1>0 DEF Unborn, Rows, IdentityStates
  <2>4. CASE \E f \in B : born[f] = i
    <3>1. PICK f \in B : born[f] = i
      BY <2>4
    <3>2. identity'[i] = [Unborn EXCEPT !.state = "PENDING", !.shows = f]
      BY <2>2, <3>1
    <3>3. /\ identity'[i] \in Rows /\ identity'[i].state = "PENDING"
          /\ identity'[i].mergedInto = None /\ identity'[i].shows = f
      BY <2>3, <3>1, <3>2 DEF Unborn
    <3>4. identity[i].state = "FREE"
      BY <1>0, <3>1
    <3> QED BY <3>1, <3>2, <3>3, <3>4
  <2>5. CASE ~ \E f \in B : born[f] = i
    <3>1. identity'[i] = identity[i]
      BY <2>1, <2>5
    <3> QED BY <1>0, <2>5, <3>1
  <2> QED BY <2>4, <2>5
<1>5. identity' \in [Identities -> Rows]
  <2>1. identity' = [i \in Identities |-> identity'[i]]
    BY DEF Decide
  <2> QED BY <1>4, <2>1
<1>6. /\ source[s] = "ACTIVE" /\ \A f \in D : face[f].rep = "NONE" /\ SourceOf[f] = s
      /\ UNCHANGED <<link, people, source, view>> /\ run' = [run EXCEPT ![s] = D]
  BY DEF Decide, Of
<1> QED BY <1>2, <1>3, <1>4, <1>5, <1>6 DEF Decided

\* The run of s is accepted.
Accepted(s) ==
    /\ face' \in [Faces -> FaceRows] /\ identity' \in [Identities -> Rows]
    /\ \A f \in Faces \ run[s] : face'[f] = face[f]
    /\ \A f \in run[s] :
          /\ StillValid(f) /\ face'[f].rep = "ACTIVE" /\ face'[f].owner = face[f].owner
          /\ face'[f].crop = face[f].crop
          /\ \/ face[f].owner = None /\ face'[f].occ = face[f].occ
                /\ face'[f].occOwner = face[f].occOwner
             \/ face[f].owner # None /\ face'[f].occ = "ACTIVE"
                /\ face'[f].occOwner = face[f].owner
    /\ \A i \in Identities :
          /\ identity'[i].shows = identity[i].shows
          /\ identity'[i].mergedInto = identity[i].mergedInto
          /\ \/ (\E f \in run[s] : face[f].owner = i) /\ identity'[i].state = "ACTIVE"
             \/ (\A f \in run[s] : face[f].owner # i) /\ identity'[i].state = identity[i].state
    /\ UNCHANGED <<link, people, source>> /\ run' = [run EXCEPT ![s] = {}]
    /\ Touch({face[f].owner : f \in run[s]} \ {None})

LEMMA AcceptEffect ==
  ASSUME TypeOK, NEW s \in Sources, Accept(s)
  PROVE  Accepted(s)
<1>0. /\ face \in [Faces -> FaceRows] /\ identity \in [Identities -> Rows]
      /\ run[s] \subseteq Faces /\ None \notin Identities
  BY NoneAssumption DEF TypeOK
<1> DEFINE owners == {face[f].owner : f \in run[s]} \ {None}
<1>1. /\ identity' = [i \in Identities |->
                         IF i \in owners THEN Activated(identity[i]) ELSE identity[i]]
      /\ face' = [f \in Faces |-> IF f \in run[s] THEN Assigned(face[f]) ELSE face[f]]
      /\ \A f \in run[s] : StillValid(f)
      /\ UNCHANGED <<link, people, source>> /\ run' = [run EXCEPT ![s] = {}] /\ Touch(owners)
  BY DEF Accept
<1>2. ASSUME NEW r \in FaceRows
      PROVE  /\ Assigned(r) \in FaceRows
             /\ Assigned(r).rep = "ACTIVE" /\ Assigned(r).owner = r.owner
             /\ Assigned(r).crop = r.crop
             /\ \/ r.owner = None /\ Assigned(r).occ = r.occ /\ Assigned(r).occOwner = r.occOwner
                \/ r.owner # None /\ Assigned(r).occ = "ACTIVE" /\ Assigned(r).occOwner = r.owner
  BY <1>2 DEF Assigned, FaceRows
<1>3. ASSUME NEW r \in Rows
      PROVE  /\ Activated(r) \in Rows /\ Activated(r).state = "ACTIVE"
             /\ Activated(r).shows = r.shows /\ Activated(r).mergedInto = r.mergedInto
  BY <1>3 DEF Activated, Rows, IdentityStates
<1>4. face' \in [Faces -> FaceRows]
  BY <1>0, <1>1, <1>2
<1>5. identity' \in [Identities -> Rows]
  BY <1>0, <1>1, <1>3
<1>6. ASSUME NEW f \in run[s] PROVE face'[f] = Assigned(face[f]) /\ face[f] \in FaceRows
  BY <1>0, <1>1, <1>6
<1>7. \A f \in Faces \ run[s] : face'[f] = face[f]
  BY <1>1
<1>8. ASSUME NEW i \in Identities
      PROVE  /\ identity[i] \in Rows
             /\ \/ (\E f \in run[s] : face[f].owner = i) /\ identity'[i] = Activated(identity[i])
                \/ (\A f \in run[s] : face[f].owner # i) /\ identity'[i] = identity[i]
  <2>1. i \in owners <=> \E f \in run[s] : face[f].owner = i
    BY <1>0
  <2>2. identity'[i] = IF i \in owners THEN Activated(identity[i]) ELSE identity[i]
    BY <1>1
  <2> QED BY <1>0, <2>1, <2>2
<1>9. ASSUME NEW f \in run[s]
      PROVE  /\ StillValid(f) /\ face'[f].rep = "ACTIVE" /\ face'[f].owner = face[f].owner
             /\ face'[f].crop = face[f].crop
             /\ \/ face[f].owner = None /\ face'[f].occ = face[f].occ
                   /\ face'[f].occOwner = face[f].occOwner
                \/ face[f].owner # None /\ face'[f].occ = "ACTIVE"
                   /\ face'[f].occOwner = face[f].owner
  <2>1. StillValid(f)
    BY <1>1
  <2>2. face'[f] = Assigned(face[f]) /\ face[f] \in FaceRows
    BY <1>6
  <2> QED BY <1>2, <2>1, <2>2
<1>10. ASSUME NEW i \in Identities
      PROVE  /\ identity'[i].shows = identity[i].shows
             /\ identity'[i].mergedInto = identity[i].mergedInto
             /\ \/ (\E f \in run[s] : face[f].owner = i) /\ identity'[i].state = "ACTIVE"
                \/ (\A f \in run[s] : face[f].owner # i) /\ identity'[i].state = identity[i].state
  BY <1>3, <1>8
<1> QED BY <1>1, <1>4, <1>5, <1>7, <1>9, <1>10 DEF Accepted

\* The identities L become s.
Merged(L, s) ==
    /\ face' \in [Faces -> FaceRows] /\ identity' \in [Identities -> Rows]
    /\ link' \in [Identities -> People \cup {None}]
    /\ s \notin L /\ \A i \in L \cup {s} : Active(i)
    /\ \A f \in Faces :
          /\ face'[f].rep = face[f].rep /\ face'[f].occ = face[f].occ
          /\ face'[f].crop = face[f].crop /\ face'[f].cites = face[f].cites
          /\ face'[f].owner = IF face[f].owner \in L /\ face[f].rep = "ACTIVE"
                              THEN s ELSE face[f].owner
          /\ face'[f].occOwner = IF face[f].occOwner \in L /\ face[f].occ = "ACTIVE"
                                 THEN s ELSE face[f].occOwner
    /\ \A l \in L : /\ identity'[l].state = "MERGED" /\ identity'[l].mergedInto = s
                    /\ identity'[l].shows = identity[l].shows
                    /\ link'[l] = None
    /\ identity'[s].state = "ACTIVE" /\ identity'[s].mergedInto = identity[s].mergedInto
    /\ \E l \in L \cup {s} : identity'[s].shows = identity[l].shows
    /\ \E l \in L \cup {s} : link'[s] = link[l]
    /\ \A i \in Identities \ (L \cup {s}) : identity'[i] = identity[i] /\ link'[i] = link[i]
    /\ UNCHANGED <<people, run, source>> /\ Touch(L \cup {s})

LEMMA MergeEffect ==
  ASSUME TypeOK, NEW s \in Identities, NEW L \in SUBSET Identities, Merge(L, s)
  PROVE  Merged(L, s)
<1>0. /\ face \in [Faces -> FaceRows] /\ identity \in [Identities -> Rows]
      /\ link \in [Identities -> People \cup {None}]
  BY DEF TypeOK
<1>1. /\ s \notin L /\ (\A i \in L \cup {s} : Active(i))
      /\ MergeInto(L, s) /\ UNCHANGED <<people, run, source>> /\ Touch(L \cup {s})
  BY DEF Merge
<1>2. ASSUME NEW own, NEW others, NEW r \in Inherits(own, others) PROVE r = own \/ r \in others
  BY <1>2 DEF Inherits
<1>3. PICK p \in Named(L, s) :
          link' = [i \in Identities |-> IF i = s THEN p ELSE IF i \in L THEN None ELSE link[i]]
  BY <1>1 DEF MergeInto
<1>4. PICK l \in L \cup {s} : p = link[l]
  BY <1>2 DEF Named
<1>5. PICK r \in Inherits(identity[s].shows, {identity[k].shows : k \in L}) :
         identity' = [i \in Identities |->
             IF i = s THEN [identity[s] EXCEPT !.shows = r]
             ELSE IF i \in L
             THEN [identity[i] EXCEPT !.state = "MERGED", !.mergedInto = s]
             ELSE identity[i]]
  BY <1>1 DEF MergeInto
<1>6. PICK k \in L \cup {s} : r = identity[k].shows
  BY <1>2
<1>7. face' = [f \in Faces |->
         [face[f] EXCEPT
            !.owner = IF @ \in L /\ face[f].rep = "ACTIVE" THEN s ELSE @,
            !.occOwner = IF @ \in L /\ face[f].occ = "ACTIVE" THEN s ELSE @]]
  BY <1>1 DEF MergeInto
<1>8. link' \in [Identities -> People \cup {None}]
  BY <1>0, <1>3, <1>4
<1>9. ASSUME NEW f \in Faces
      PROVE  /\ face'[f] \in FaceRows
             /\ face'[f].rep = face[f].rep /\ face'[f].occ = face[f].occ
             /\ face'[f].crop = face[f].crop /\ face'[f].cites = face[f].cites
             /\ face'[f].owner = IF face[f].owner \in L /\ face[f].rep = "ACTIVE"
                                 THEN s ELSE face[f].owner
             /\ face'[f].occOwner = IF face[f].occOwner \in L /\ face[f].occ = "ACTIVE"
                                    THEN s ELSE face[f].occOwner
  <2>1. face[f] \in FaceRows
    BY <1>0
  <2>2. face'[f] = [face[f] EXCEPT
            !.owner = IF face[f].owner \in L /\ face[f].rep = "ACTIVE" THEN s ELSE face[f].owner,
            !.occOwner = IF face[f].occOwner \in L /\ face[f].occ = "ACTIVE" THEN s
                         ELSE face[f].occOwner]
    BY <1>7, <2>1 DEF FaceRows
  <2> QED BY <2>1, <2>2 DEF FaceRows
<1>10. face' \in [Faces -> FaceRows]
  <2>1. face' = [f \in Faces |-> face'[f]]
    BY <1>7
  <2> QED BY <1>9, <2>1
<1>11. /\ identity'[s] = [identity[s] EXCEPT !.shows = r]
       /\ \A i \in L : identity'[i] = [identity[i] EXCEPT !.state = "MERGED", !.mergedInto = s]
       /\ \A i \in Identities \ (L \cup {s}) : identity'[i] = identity[i] /\ link'[i] = link[i]
       /\ link'[s] = link[l] /\ \A i \in L : link'[i] = None
  BY <1>1, <1>3, <1>4, <1>5
<1>12. /\ identity'[s] \in Rows /\ identity'[s].state = "ACTIVE"
       /\ identity'[s].mergedInto = identity[s].mergedInto
       /\ identity'[s].shows = identity[k].shows
  <2>1. identity[s] \in Rows /\ identity[k] \in Rows /\ identity[s].state = "ACTIVE"
    BY <1>0, <1>1 DEF Active
  <2>2. r \in Faces \cup {None}
    BY <1>6, <2>1 DEF Rows
  <2> QED BY <1>6, <1>11, <2>1, <2>2 DEF Rows, IdentityStates
<1>13. ASSUME NEW i \in L
       PROVE  /\ identity'[i] \in Rows /\ identity'[i].state = "MERGED"
              /\ identity'[i].mergedInto = s /\ identity'[i].shows = identity[i].shows
  <2>1. identity[i] \in Rows
    BY <1>0
  <2>2. identity'[i] = [identity[i] EXCEPT !.state = "MERGED", !.mergedInto = s]
    BY <1>11
  <2> QED BY <2>1, <2>2 DEF Rows, IdentityStates
<1>14. identity' \in [Identities -> Rows]
  <2>1. identity' = [i \in Identities |-> identity'[i]]
    BY <1>5
  <2>2. \A i \in Identities : identity'[i] \in Rows
    BY <1>0, <1>11, <1>12, <1>13
  <2> QED BY <2>1, <2>2
<1> QED BY <1>1, <1>8, <1>9, <1>10, <1>11, <1>12, <1>13, <1>14 DEF Merged

\* Another face to show, or the same.
LEMMA RefreshedIn ==
  ASSUME TypeOK, NEW i \in Identities, NEW moved, NEW shows \in Refreshed(i, moved)
  PROVE  /\ shows \in Faces \cup {None}
         /\ \/ shows = identity[i].shows /\ shows \notin moved
            \/ shows = None
            \/ shows \in Faces \ moved /\ face[shows].owner = i /\ face[shows].rep = "ACTIVE"
<1>1. identity[i].shows \in Faces \cup {None}
  BY DEF TypeOK, Rows
<1> QED BY <1>1 DEF Refreshed, OccurrencesOf


\* The clients that saw one of the identities I are told.
Told(I) ==
    \/ view' = view /\ view.of \notin I
    \/ view' = [view EXCEPT !.current = FALSE]

\* The faces S of i become those of t, which is ACTIVE or new.
Moved(i, S, t) ==
    /\ face' \in [Faces -> FaceRows] /\ identity' \in [Identities -> Rows]
    /\ Active(i) /\ i # t /\ identity[t].state \in {"FREE", "ACTIVE"} /\ S \subseteq Faces
    /\ \A f \in Faces \ S : face'[f] = face[f]
    /\ \A f \in S :
          /\ face[f].rep = "ACTIVE" /\ face[f].occ = "ACTIVE"
          /\ face[f].owner = i /\ face[f].occOwner = i
          /\ face'[f].rep = "ACTIVE" /\ face'[f].occ = "ACTIVE"
          /\ face'[f].owner = t /\ face'[f].occOwner = t
    /\ identity'[i].state = "ACTIVE" /\ identity'[i].mergedInto = identity[i].mergedInto
    /\ \/ identity'[i].shows = identity[i].shows /\ identity'[i].shows \notin S
       \/ identity'[i].shows = None
       \/ /\ identity'[i].shows \in Faces \ S
          /\ face[identity'[i].shows].owner = i /\ face[identity'[i].shows].rep = "ACTIVE"
    /\ identity'[t].state = "ACTIVE" /\ identity'[t].mergedInto = identity[t].mergedInto
    /\ identity'[t].shows \in S \/ (Active(t) /\ identity'[t].shows = identity[t].shows)
    /\ \A j \in Identities \ {i, t} : identity'[j] = identity[j]
    /\ UNCHANGED <<link, people, run, source>> /\ Told({j \in {i, t} : Active(j)})

LEMMA SplitEffect ==
  ASSUME TypeOK, RowsInv, NEW i \in Identities, NEW S \in SUBSET Faces, NEW n \in Identities,
         Split(i, S, n)
  PROVE  Moved(i, S, n)
<1>0. /\ face \in [Faces -> FaceRows] /\ identity \in [Identities -> Rows] /\ S \subseteq Faces
      /\ identity[n].state = "FREE" /\ Active(i) /\ i # n /\ identity[i] \in Rows
      /\ identity[n].mergedInto = None /\ i # None /\ ~ Active(n)
  BY NoneAssumption DEF TypeOK, Split, Free, Active, RowsInv, Rows
<1>1. PICK shows \in Refreshed(i, S), first \in S :
         identity' = [identity EXCEPT
            ![i].shows = shows,
            ![n] = [Unborn EXCEPT !.state = "ACTIVE", !.shows = first]]
  BY DEF Split, SplitOff
<1>2. face' = [f \in Faces |->
         IF f \in S THEN [face[f] EXCEPT !.owner = n, !.occOwner = n] ELSE face[f]]
  BY DEF Split, SplitOff
<1>3. ASSUME NEW f \in S
      PROVE  /\ face[f].rep = "ACTIVE" /\ face[f].occ = "ACTIVE"
             /\ face[f].owner = i /\ face[f].occOwner = i
             /\ face'[f].rep = "ACTIVE" /\ face'[f].occ = "ACTIVE"
             /\ face'[f].owner = n /\ face'[f].occOwner = n /\ face'[f] \in FaceRows
  <2>1. /\ face[f].rep = "ACTIVE" /\ face[f].occ = "ACTIVE"
        /\ face[f].owner = i /\ face[f].occOwner = i /\ face[f] \in FaceRows
    BY <1>0 DEF Split, OccurrencesOf, Supported
  <2>2. face'[f] = [face[f] EXCEPT !.owner = n, !.occOwner = n]
    BY <1>0, <1>2
  <2> QED BY <2>1, <2>2 DEF FaceRows
<1>4. face' \in [Faces -> FaceRows] /\ \A f \in Faces \ S : face'[f] = face[f]
  <2>1. \A f \in Faces : face'[f] \in FaceRows
    BY <1>0, <1>2, <1>3
  <2> QED BY <1>2, <2>1
<1>5. /\ shows \in Faces \cup {None}
      /\ \/ shows = identity[i].shows /\ shows \notin S
         \/ shows = None
         \/ shows \in Faces \ S /\ face[shows].owner = i /\ face[shows].rep = "ACTIVE"
  BY RefreshedIn
<1>6. /\ identity'[i] = [identity[i] EXCEPT !.shows = shows]
      /\ identity'[n] = [Unborn EXCEPT !.state = "ACTIVE", !.shows = first]
      /\ \A j \in Identities \ {i, n} : identity'[j] = identity[j]
      /\ identity' = [j \in Identities |-> identity'[j]]
  BY <1>0, <1>1
<1>7. /\ identity'[i] \in Rows /\ identity'[i].state = "ACTIVE"
      /\ identity'[i].mergedInto = identity[i].mergedInto /\ identity'[i].shows = shows
  BY <1>0, <1>5, <1>6 DEF Rows, Active
<1>8. /\ identity'[n] \in Rows /\ identity'[n].state = "ACTIVE"
      /\ identity'[n].mergedInto = None /\ identity'[n].shows \in S
  BY <1>0, <1>6 DEF Rows, Unborn, IdentityStates
<1>9. identity' \in [Identities -> Rows]
  <2>1. \A j \in Identities : identity'[j] \in Rows
    BY <1>0, <1>6, <1>7, <1>8
  <2> QED BY <1>6, <2>1
<1>10. UNCHANGED <<link, people, run, source>> /\ Told({j \in {i, n} : Active(j)})
  BY <1>0 DEF Split, Touch, Told
<1> QED BY <1>0, <1>3, <1>4, <1>5, <1>6, <1>7, <1>8, <1>9, <1>10 DEF Moved

\* The identity that takes the face f.
LEMMA ReceivingIs ==
  ASSUME TypeOK, RowsInv, NEW f \in Faces, NEW t \in Identities, t \in Free \/ Active(t)
  PROVE  /\ identity[t].state \in {"FREE", "ACTIVE"}
         /\ Receiving(t, f) \in Rows /\ Receiving(t, f).state = "ACTIVE"
         /\ Receiving(t, f).mergedInto = identity[t].mergedInto
         /\ \/ Receiving(t, f).shows = f
            \/ Active(t) /\ Receiving(t, f).shows = identity[t].shows
<1>1. /\ identity[t] \in Rows /\ identity[t].state \in {"FREE", "ACTIVE"}
      /\ (t \in Free <=> identity[t].state = "FREE")
      /\ (t \in Free => identity[t].mergedInto = None)
  BY DEF TypeOK, Free, Active, RowsInv
<1>2. CASE t \in Free
  <2>1. Receiving(t, f) = [Unborn EXCEPT !.state = "ACTIVE", !.shows = f]
    BY <1>2 DEF Receiving
  <2> QED BY <1>1, <1>2, <2>1 DEF Rows, Unborn, IdentityStates
<1>3. CASE t \notin Free
  <2>1. Receiving(t, f) = [identity[t] EXCEPT !.shows = IF @ = None THEN f ELSE @]
    BY <1>3 DEF Receiving
  <2> QED BY <1>1, <1>3, <2>1 DEF Rows, Active
<1> QED BY <1>2, <1>3

LEMMA ReassignEffect ==
  ASSUME TypeOK, RowsInv, OwnersAgree, NEW f \in Faces, NEW t \in Identities, Reassign(f, t)
  PROVE  \E i \in Identities : Moved(i, {f}, t)
<1> DEFINE i == face[f].occOwner
<1>0. /\ face \in [Faces -> FaceRows] /\ identity \in [Identities -> Rows]
      /\ face[f].occ = "ACTIVE" /\ Active(i) /\ t # i /\ (t \in Free \/ Active(t))
      /\ face[f].rep = "ACTIVE" /\ face[f].owner = i /\ i \in Identities /\ Supported(f)
  <2>1. face[f].occ = "ACTIVE" /\ Active(i) /\ t # i /\ (t \in Free \/ Active(t))
    BY DEF Reassign, InHand
  <2>2. Supported(f)
    BY <2>1 DEF OwnersAgree
  <2>3. face \in [Faces -> FaceRows] /\ identity \in [Identities -> Rows]
    BY DEF TypeOK
  <2>4. i \in Identities
    BY <2>2, <2>3 DEF Supported, FaceRows
  <2> QED BY <2>1, <2>2, <2>3, <2>4 DEF Supported
<1>1. PICK shows \in Refreshed(i, {f}) :
         identity' = [identity EXCEPT ![i].shows = shows, ![t] = Receiving(t, f)]
  BY DEF Reassign
<1>2. face' = [face EXCEPT ![f].occOwner = t, ![f].owner = t]
  BY <1>0 DEF Reassign
<1>3. UNCHANGED <<link, people, run, source>> /\ Told({j \in {i, t} : Active(j)})
  BY DEF Reassign, Touch, Told
<1> HIDE DEF i
<1>4. /\ face' \in [Faces -> FaceRows] /\ \A g \in Faces \ {f} : face'[g] = face[g]
      /\ face'[f].rep = "ACTIVE" /\ face'[f].occ = "ACTIVE"
      /\ face'[f].owner = t /\ face'[f].occOwner = t
  <2>1. face[f] \in FaceRows
    BY <1>0
  <2>2. face'[f] = [face[f] EXCEPT !.occOwner = t, !.owner = t]
    BY <1>0, <1>2
  <2>3. face'[f] \in FaceRows /\ face'[f].rep = "ACTIVE" /\ face'[f].occ = "ACTIVE"
      /\ face'[f].owner = t /\ face'[f].occOwner = t
    BY <1>0, <2>1, <2>2 DEF FaceRows
  <2>4. \A g \in Faces \ {f} : face'[g] = face[g]
    BY <1>0, <1>2
  <2>5. face' = [g \in Faces |-> face'[g]]
    BY <1>0, <1>2
  <2> QED BY <1>0, <2>3, <2>4, <2>5
<1>5. /\ shows \in Faces \cup {None}
      /\ \/ shows = identity[i].shows /\ shows \notin {f}
         \/ shows = None
         \/ shows \in Faces \ {f} /\ face[shows].owner = i /\ face[shows].rep = "ACTIVE"
  BY <1>0, RefreshedIn
<1>6. /\ identity'[i] = [identity[i] EXCEPT !.shows = shows]
      /\ identity'[t] = Receiving(t, f)
      /\ \A j \in Identities \ {i, t} : identity'[j] = identity[j]
      /\ identity' = [j \in Identities |-> identity'[j]]
  BY <1>0, <1>1
<1>7. /\ identity'[i] \in Rows /\ identity'[i].state = "ACTIVE"
      /\ identity'[i].mergedInto = identity[i].mergedInto /\ identity'[i].shows = shows
  <2>1. identity[i] \in Rows /\ identity[i].state = "ACTIVE"
    BY <1>0 DEF Active
  <2> QED BY <1>5, <1>6, <2>1 DEF Rows
<1>8. /\ identity'[t] \in Rows /\ identity'[t].state = "ACTIVE"
      /\ identity'[t].mergedInto = identity[t].mergedInto
      /\ identity'[t].shows = f \/ (Active(t) /\ identity'[t].shows = identity[t].shows)
      /\ identity[t].state \in {"FREE", "ACTIVE"}
  BY <1>0, <1>6, ReceivingIs
<1>9. identity' \in [Identities -> Rows]
  <2>1. \A j \in Identities : identity'[j] \in Rows
    BY <1>0, <1>6, <1>7, <1>8
  <2> QED BY <1>6, <2>1
<1>10. Moved(i, {f}, t)
  <2>1. \A g \in Faces \ {f} : face'[g] = face[g]
    BY <1>4
  <2>2. \A g \in {f} : /\ face[g].rep = "ACTIVE" /\ face[g].occ = "ACTIVE"
                      /\ face[g].owner = i /\ face[g].occOwner = i
                      /\ face'[g].rep = "ACTIVE" /\ face'[g].occ = "ACTIVE"
                      /\ face'[g].owner = t /\ face'[g].occOwner = t
    BY <1>0, <1>4 DEF i
  <2>3. i # t /\ {f} \subseteq Faces
    BY <1>0
  <2>4. \A j \in Identities \ {i, t} : identity'[j] = identity[j]
    BY <1>6
  <2>5. identity'[t].shows \in {f} \/ (Active(t) /\ identity'[t].shows = identity[t].shows)
    BY <1>8
  <2>6. \/ identity'[i].shows = identity[i].shows /\ identity'[i].shows \notin {f}
        \/ identity'[i].shows = None
        \/ /\ identity'[i].shows \in Faces \ {f}
           /\ face[identity'[i].shows].owner = i /\ face[identity'[i].shows].rep = "ACTIVE"
    BY <1>5, <1>7
  <2> QED BY <1>0, <1>3, <1>4, <1>7, <1>8, <1>9, <2>1, <2>2, <2>3, <2>4, <2>5, <2>6, Zenon
          DEF Moved
<1> QED BY <1>0, <1>10

\* The face f, which had no owner, becomes one of t.
Resolved(f, t) ==
    /\ face' \in [Faces -> FaceRows] /\ identity' \in [Identities -> Rows]
    /\ face[f].rep = "ACTIVE" /\ face[f].owner = None /\ face[f].occ # "ACTIVE"
    /\ identity[t].state \in {"FREE", "ACTIVE"}
    /\ \A g \in Faces \ {f} : face'[g] = face[g]
    /\ face'[f].rep = "ACTIVE" /\ face'[f].occ = "ACTIVE"
    /\ face'[f].owner = t /\ face'[f].occOwner = t
    /\ identity'[t].state = "ACTIVE" /\ identity'[t].mergedInto = identity[t].mergedInto
    /\ identity'[t].shows = f \/ (Active(t) /\ identity'[t].shows = identity[t].shows)
    /\ \A j \in Identities \ {t} : identity'[j] = identity[j]
    /\ UNCHANGED <<link, people, run, source>> /\ Told({t})

LEMMA ResolveEffect ==
  ASSUME TypeOK, RowsInv, NEW f \in Faces, NEW t \in Identities, Resolve(f, t)
  PROVE  Resolved(f, t)
<1>0. /\ face \in [Faces -> FaceRows] /\ identity \in [Identities -> Rows]
      /\ face[f].rep = "ACTIVE" /\ face[f].owner = None /\ face[f].occ # "ACTIVE"
      /\ (t \in Free \/ Active(t)) /\ face[f] \in FaceRows /\ identity[t] \in Rows
  BY DEF TypeOK, Resolve, Unresolved
<1>1. /\ face' = [face EXCEPT ![f].owner = t, ![f].occ = "ACTIVE", ![f].occOwner = t]
      /\ identity' = [identity EXCEPT ![t] = Receiving(t, f)]
      /\ UNCHANGED <<link, people, run, source>> /\ Told({t})
  BY DEF Resolve, Touch, Told
<1>2. /\ face' \in [Faces -> FaceRows] /\ \A g \in Faces \ {f} : face'[g] = face[g]
      /\ face'[f].rep = "ACTIVE" /\ face'[f].occ = "ACTIVE"
      /\ face'[f].owner = t /\ face'[f].occOwner = t
  <2>1. face'[f] = [face[f] EXCEPT !.owner = t, !.occ = "ACTIVE", !.occOwner = t]
    BY <1>0, <1>1
  <2>2. face'[f] \in FaceRows /\ face'[f].rep = "ACTIVE" /\ face'[f].occ = "ACTIVE"
      /\ face'[f].owner = t /\ face'[f].occOwner = t
    BY <1>0, <2>1 DEF FaceRows
  <2>3. face' = [g \in Faces |-> face'[g]] /\ \A g \in Faces \ {f} : face'[g] = face[g]
    BY <1>0, <1>1
  <2> QED BY <1>0, <2>2, <2>3
<1>3. /\ identity'[t] = Receiving(t, f)
      /\ \A j \in Identities \ {t} : identity'[j] = identity[j]
      /\ identity' = [j \in Identities |-> identity'[j]]
  BY <1>0, <1>1
<1>4. /\ identity'[t] \in Rows /\ identity'[t].state = "ACTIVE"
      /\ identity'[t].mergedInto = identity[t].mergedInto
      /\ identity'[t].shows = f \/ (Active(t) /\ identity'[t].shows = identity[t].shows)
      /\ identity[t].state \in {"FREE", "ACTIVE"}
  BY <1>0, <1>3, ReceivingIs
<1>5. identity' \in [Identities -> Rows]
  <2>1. \A j \in Identities : identity'[j] \in Rows
    BY <1>0, <1>3, <1>4
  <2> QED BY <1>3, <2>1
<1> QED BY <1>0, <1>1, <1>2, <1>3, <1>4, <1>5 DEF Resolved

\* The person of i is p now.
Renamed(i, p) ==
    /\ link' \in [Identities -> People \cup {None}] /\ people' \subseteq People
    /\ people \subseteq people' /\ Active(i) /\ p \in people' \cup {None} /\ link'[i] = p
    /\ \A j \in Identities \ {i} : link'[j] = link[j]
    /\ UNCHANGED <<identity, face, run, source>> /\ Told({i})

LEMMA NamedEffect ==
  ASSUME TypeOK, NEW i \in Identities, NEW p \in People \cup {None}, Named1(i, p)
  PROVE  Renamed(i, p)
<1>0. link \in [Identities -> People \cup {None}] /\ people \subseteq People
  BY DEF TypeOK
<1>1. /\ Active(i) /\ link' = [link EXCEPT ![i] = p] /\ Told({i})
      /\ UNCHANGED <<identity, face, run, source>>
  BY DEF Named1, AssignPerson, NameIdentity, RemovePerson, Link, Touch, Told
<1>2. people \subseteq people' /\ people' \subseteq People /\ p \in people' \cup {None}
  BY <1>0 DEF Named1, AssignPerson, NameIdentity, RemovePerson
<1> QED BY <1>0, <1>1, <1>2 DEF Renamed

\* The identities I are forgotten, with their kin.
Forgot(I, kin) ==
    /\ face' \in [Faces -> FaceRows] /\ identity' \in [Identities -> Rows]
    /\ link' \in [Identities -> People \cup {None}]
    /\ I \subseteq kin /\ \A i \in I : Active(i)
    /\ \A j \in kin \ I : identity[j].state = "MERGED"
    /\ \A j \in Identities : identity[j].mergedInto \in kin => j \in kin
    /\ \A f \in Faces :
          /\ face'[f].owner = face[f].owner /\ face'[f].occOwner = face[f].occOwner
          /\ face'[f].cites = face[f].cites
          /\ face'[f].occ = IF face[f].occ = "ACTIVE" /\ face[f].occOwner \in I
                            THEN "DELETED" ELSE face[f].occ
          /\ \/ /\ face[f].owner \in kin
                /\ face'[f].rep \in {"ERASING", "ERASED"} /\ face'[f].crop # "KEPT"
             \/ /\ face[f].owner \notin kin
                /\ face'[f].rep = face[f].rep /\ face'[f].crop = face[f].crop
    /\ \A j \in Identities :
          /\ identity'[j].state = IF j \in I THEN "FORGOTTEN" ELSE identity[j].state
          /\ identity'[j].mergedInto = identity[j].mergedInto
          /\ identity'[j].shows = IF j \in kin THEN None ELSE identity[j].shows
          /\ link'[j] = IF j \in I THEN None ELSE link[j]
    /\ UNCHANGED <<people, run, source>> /\ Told(I)

LEMMA ForgetEffect ==
  ASSUME TypeOK, RowsInv, NEW I \in SUBSET Identities, ForgetAll(I)
  PROVE  \E kin \in SUBSET Identities : Forgot(I, kin)
<1> DEFINE kin == UNION {Family(i) : i \in I}
<1>0. /\ face \in [Faces -> FaceRows] /\ identity \in [Identities -> Rows]
      /\ link \in [Identities -> People \cup {None}] /\ None \notin Identities
  BY NoneAssumption DEF TypeOK
<1>1. /\ kin \in SUBSET Identities /\ I \subseteq kin
      /\ \A j \in kin \ I : identity[j].state = "MERGED"
      /\ \A j \in Identities : identity[j].mergedInto \in kin => j \in kin
  BY FamilyOf DEF RowsInv
<1>2. /\ \A i \in I : Active(i)
      /\ identity' = [i \in Identities |->
            IF i \in I
            THEN [identity[i] EXCEPT !.state = "FORGOTTEN", !.shows = None]
            ELSE IF i \in kin THEN [identity[i] EXCEPT !.shows = None] ELSE identity[i]]
      /\ link' = [i \in Identities |-> IF i \in I THEN None ELSE link[i]]
      /\ face' = [f \in Faces |->
            LET row == IF face[f].owner \in kin THEN Retired(Queued(face[f])) ELSE face[f]
            IN IF row.occ = "ACTIVE" /\ row.occOwner \in I
               THEN [row EXCEPT !.occ = "DELETED"] ELSE row]
      /\ UNCHANGED <<people, run, source>> /\ Told(I)
  BY DEF ForgetAll, Touch, Told
<1> HIDE DEF kin
<1>3. ASSUME NEW f \in Faces
      PROVE  /\ face'[f] \in FaceRows
             /\ face'[f].owner = face[f].owner /\ face'[f].occOwner = face[f].occOwner
             /\ face'[f].cites = face[f].cites
             /\ face'[f].occ = IF face[f].occ = "ACTIVE" /\ face[f].occOwner \in I
                               THEN "DELETED" ELSE face[f].occ
             /\ \/ /\ face[f].owner \in kin
                   /\ face'[f].rep \in {"ERASING", "ERASED"} /\ face'[f].crop # "KEPT"
                \/ /\ face[f].owner \notin kin
                   /\ face'[f].rep = face[f].rep /\ face'[f].crop = face[f].crop
  <2> DEFINE row == IF face[f].owner \in kin THEN Retired(Queued(face[f])) ELSE face[f]
  <2>0. face[f] \in FaceRows
    BY <1>0
  <2>1. /\ row \in FaceRows /\ row.owner = face[f].owner /\ row.occOwner = face[f].occOwner
        /\ row.cites = face[f].cites /\ row.occ = face[f].occ
        /\ \/ /\ face[f].owner \in kin
              /\ row.rep \in {"ERASING", "ERASED"} /\ row.crop # "KEPT"
           \/ face[f].owner \notin kin /\ row.rep = face[f].rep /\ row.crop = face[f].crop
    <3>1. CASE face[f].owner \in kin
      <4>1. face[f].owner # None
        BY <1>0, <1>1, <3>1
      <4>2. face[f].rep # "NONE"
        BY <4>1 DEF RowsInv
      <4>3. /\ Queued(face[f]) \in FaceRows /\ Queued(face[f]).rep \in {"ERASING", "ERASED"}
            /\ Queued(face[f]).owner = face[f].owner /\ Queued(face[f]).occOwner = face[f].occOwner
            /\ Queued(face[f]).cites = face[f].cites /\ Queued(face[f]).occ = face[f].occ
        BY <2>0, <4>2 DEF Queued, FaceRows
      <4>4. ASSUME NEW r \in FaceRows
            PROVE  /\ Retired(r) \in FaceRows /\ Retired(r).rep = r.rep /\ Retired(r).crop # "KEPT"
                   /\ Retired(r).owner = r.owner /\ Retired(r).occOwner = r.occOwner
                   /\ Retired(r).cites = r.cites /\ Retired(r).occ = r.occ
        BY <4>4 DEF Retired, FaceRows
      <4>5. row = Retired(Queued(face[f]))
        BY <3>1
      <4> HIDE DEF row
      <4> QED BY <3>1, <4>3, <4>4, <4>5
    <3>2. CASE face[f].owner \notin kin
      BY <2>0, <3>2
    <3> QED BY <3>1, <3>2
  <2>2. face'[f] = IF row.occ = "ACTIVE" /\ row.occOwner \in I
                   THEN [row EXCEPT !.occ = "DELETED"] ELSE row
    BY <1>2
  <2> HIDE DEF row
  <2>3. CASE row.occ = "ACTIVE" /\ row.occOwner \in I
    BY <2>1, <2>2, <2>3 DEF FaceRows
  <2>4. CASE ~ (row.occ = "ACTIVE" /\ row.occOwner \in I)
    BY <2>1, <2>2, <2>4
  <2> QED BY <2>3, <2>4
<1>4. face' \in [Faces -> FaceRows]
  <2>1. face' = [f \in Faces |-> face'[f]]
    BY <1>2
  <2> QED BY <1>3, <2>1
<1>5. ASSUME NEW j \in Identities
      PROVE  /\ identity'[j] \in Rows
             /\ identity'[j].state = IF j \in I THEN "FORGOTTEN" ELSE identity[j].state
             /\ identity'[j].mergedInto = identity[j].mergedInto
             /\ identity'[j].shows = IF j \in kin THEN None ELSE identity[j].shows
             /\ link'[j] = IF j \in I THEN None ELSE link[j]
  <2>1. identity[j] \in Rows
    BY <1>0
  <2>2. CASE j \in I
    <3>1. identity'[j] = [identity[j] EXCEPT !.state = "FORGOTTEN", !.shows = None]
      BY <1>2, <2>2
    <3> QED BY <1>1, <1>2, <2>1, <2>2, <3>1 DEF Rows, IdentityStates
  <2>3. CASE j \notin I /\ j \in kin
    <3>1. identity'[j] = [identity[j] EXCEPT !.shows = None]
      BY <1>2, <2>3
    <3> QED BY <1>1, <1>2, <2>1, <2>3, <3>1 DEF Rows
  <2>4. CASE j \notin kin
    BY <1>1, <1>2, <2>1, <2>4
  <2> QED BY <2>2, <2>3, <2>4
<1>6. identity' \in [Identities -> Rows]
  <2>1. identity' = [j \in Identities |-> identity'[j]]
    BY <1>2
  <2> QED BY <1>5, <2>1
<1>7. link' \in [Identities -> People \cup {None}]
  BY <1>0, <1>2
<1> QED BY <1>1, <1>2, <1>3, <1>4, <1>5, <1>6, <1>7 DEF Forgot

\* The vector of f is gone.
Wiped(f) ==
    /\ face' \in [Faces -> FaceRows] /\ face[f].rep = "ERASING"
    /\ \A g \in Faces \ {f} : face'[g] = face[g]
    /\ face'[f].rep = "ERASED" /\ face'[f].owner = face[f].owner
    /\ face'[f].occ = face[f].occ /\ face'[f].occOwner = face[f].occOwner
    /\ face'[f].crop = face[f].crop /\ face'[f].cites = face[f].cites
    /\ UNCHANGED <<identity, link, people, run, source, view>>

LEMMA ErasedEffect ==
  ASSUME TypeOK, RowsInv, NEW f \in Faces, Erased(f)
  PROVE  Wiped(f)
<1>1. face \in [Faces -> FaceRows] /\ face[f] \in FaceRows
  BY DEF TypeOK
<1>2. /\ face[f].rep = "ERASING" /\ face' = [face EXCEPT ![f].rep = "ERASED"]
      /\ UNCHANGED <<identity, link, people, run, source, view>>
  BY DEF Erased
<1>3. face'[f] = [face[f] EXCEPT !.rep = "ERASED"] /\ \A g \in Faces \ {f} : face'[g] = face[g]
  BY <1>1, <1>2
<1>4. /\ face'[f] \in FaceRows
      /\ face'[f].rep = "ERASED" /\ face'[f].owner = face[f].owner
      /\ face'[f].occ = face[f].occ /\ face'[f].occOwner = face[f].occOwner
      /\ face'[f].crop = face[f].crop /\ face'[f].cites = face[f].cites
  BY <1>1, <1>3 DEF FaceRows
<1> QED BY <1>1, <1>2, <1>3, <1>4 DEF Wiped

\* The deletion of s is committed.
Begun(s) ==
    /\ face' \in [Faces -> FaceRows]
    /\ source' \in [Sources -> {"ACTIVE", "DELETING", "DELETED"}]
    /\ source[s] = "ACTIVE" /\ source'[s] = "DELETING"
    /\ \A r \in Sources \ {s} : source'[r] = source[r]
    /\ \A f \in Faces \ Of(s) : face'[f] = face[f]
    /\ \A f \in Of(s) :
          /\ SourceOf[f] = s
          /\ face'[f].owner = face[f].owner /\ face'[f].occOwner = face[f].occOwner
          /\ face'[f].cites = face[f].cites /\ face'[f].crop # "KEPT"
          /\ face'[f].rep = IF face[f].rep \in {"PENDING", "ACTIVE"} THEN "ERASING"
                            ELSE face[f].rep
          /\ face'[f].occ = IF face[f].occ = "ACTIVE" THEN "DELETED" ELSE face[f].occ
    /\ Told({face[f].occOwner : f \in {g \in Of(s) : Active(face[g].occOwner)}} \ {None})
    /\ UNCHANGED <<identity, link, people, run>>

LEMMA BeginEffect ==
  ASSUME TypeOK, NEW s \in Sources, BeginDeletion(s)
  PROVE  Begun(s)
<1>0. /\ face \in [Faces -> FaceRows] /\ Of(s) \subseteq Faces
      /\ source \in [Sources -> {"ACTIVE", "DELETING", "DELETED"}]
  BY DEF TypeOK, Of
<1>1. /\ source[s] = "ACTIVE" /\ source' = [source EXCEPT ![s] = "DELETING"]
      /\ face' = [f \in Faces |->
            IF f \notin Of(s) THEN face[f]
            ELSE LET row == Retired(Queued(face[f]))
                 IN IF row.occ = "ACTIVE" THEN [row EXCEPT !.occ = "DELETED"] ELSE row]
      /\ UNCHANGED <<identity, link, people, run>>
  BY DEF BeginDeletion
<1>2. ASSUME NEW f \in Of(s)
      PROVE  /\ face'[f] \in FaceRows /\ SourceOf[f] = s
             /\ face'[f].owner = face[f].owner /\ face'[f].occOwner = face[f].occOwner
             /\ face'[f].cites = face[f].cites /\ face'[f].crop # "KEPT"
             /\ face'[f].rep = IF face[f].rep \in {"PENDING", "ACTIVE"} THEN "ERASING"
                               ELSE face[f].rep
             /\ face'[f].occ = IF face[f].occ = "ACTIVE" THEN "DELETED" ELSE face[f].occ
  <2> DEFINE row == Retired(Queued(face[f]))
  <2>1. face[f] \in FaceRows
    BY <1>0
  <2>2. /\ Queued(face[f]) \in FaceRows
        /\ Queued(face[f]).rep = IF face[f].rep \in {"PENDING", "ACTIVE"} THEN "ERASING"
                                 ELSE face[f].rep
        /\ Queued(face[f]).owner = face[f].owner /\ Queued(face[f]).occOwner = face[f].occOwner
        /\ Queued(face[f]).cites = face[f].cites /\ Queued(face[f]).occ = face[f].occ
    BY <2>1 DEF Queued, FaceRows
  <2>3. ASSUME NEW r \in FaceRows
        PROVE  /\ Retired(r) \in FaceRows /\ Retired(r).rep = r.rep /\ Retired(r).crop # "KEPT"
               /\ Retired(r).owner = r.owner /\ Retired(r).occOwner = r.occOwner
               /\ Retired(r).cites = r.cites /\ Retired(r).occ = r.occ
    BY <2>3 DEF Retired, FaceRows
  <2>4. face'[f] = IF row.occ = "ACTIVE" THEN [row EXCEPT !.occ = "DELETED"] ELSE row
    BY <1>0, <1>1
  <2>5. /\ row \in FaceRows /\ row.crop # "KEPT" /\ row.occ = face[f].occ
        /\ row.owner = face[f].owner /\ row.occOwner = face[f].occOwner
        /\ row.cites = face[f].cites
        /\ row.rep = IF face[f].rep \in {"PENDING", "ACTIVE"} THEN "ERASING" ELSE face[f].rep
    BY <2>2, <2>3
  <2> HIDE DEF row
  <2>6. CASE row.occ = "ACTIVE"
    <3>1. face'[f] = [row EXCEPT !.occ = "DELETED"]
      BY <2>4, <2>6
    <3> QED BY <2>5, <2>6, <3>1 DEF FaceRows, Of
  <2>7. CASE row.occ # "ACTIVE"
    BY <2>4, <2>5, <2>7 DEF Of
  <2> QED BY <2>6, <2>7
<1>3. face' \in [Faces -> FaceRows] /\ \A f \in Faces \ Of(s) : face'[f] = face[f]
  <2>1. \A f \in Faces : face'[f] \in FaceRows
    BY <1>0, <1>1, <1>2
  <2> QED BY <1>1, <2>1
<1>4. Told({face[f].occOwner : f \in {g \in Of(s) : Active(face[g].occOwner)}} \ {None})
  BY DEF BeginDeletion, Touch, Told
<1> QED BY <1>0, <1>1, <1>2, <1>3, <1>4 DEF Begun

\* The rows of s are gone.
Finished(s) ==
    /\ face' \in [Faces -> FaceRows] /\ identity' \in [Identities -> Rows]
    /\ source' \in [Sources -> {"ACTIVE", "DELETING", "DELETED"}]
    /\ source[s] = "DELETING"
    /\ \A r \in Sources \ {s} : source'[r] = source[r]
    /\ \A f \in Faces \ Of(s) : face'[f] = face[f]
    /\ \A f \in Of(s) : /\ SourceOf[f] = s /\ face[f].rep \in {"NONE", "ERASED"}
                        /\ face'[f] = Unseen
    /\ \A i \in Identities :
          /\ identity'[i].mergedInto = identity[i].mergedInto
          /\ \/ /\ Active(i) /\ identity'[i].state = "ACTIVE"
                /\ identity'[i].shows \in OccurrencesOf(i) \ Of(s)
             \/ /\ Active(i) /\ link[i] = None /\ OccurrencesOf(i) \ Of(s) = {}
                /\ identity'[i].state = "DELETED" /\ identity'[i].shows = None
             \/ /\ identity'[i].state = identity[i].state
                /\ identity'[i].shows = IF identity[i].shows \in Of(s) THEN None
                                        ELSE identity[i].shows
    /\ Told({})
    /\ UNCHANGED <<link, people, run>>

LEMMA FinishEffect ==
  ASSUME TypeOK, NEW s \in Sources, FinishDeletion(s)
  PROVE  Finished(s)
<1>0. /\ face \in [Faces -> FaceRows] /\ identity \in [Identities -> Rows]
      /\ source \in [Sources -> {"ACTIVE", "DELETING", "DELETED"}] /\ Of(s) \subseteq Faces
      /\ \A f \in Of(s) : SourceOf[f] = s
  BY DEF TypeOK, Of
<1> DEFINE affected == ({face[f].occOwner : f \in Of(s)} \cup {face[f].owner : f \in Of(s)}) \ {None}
           kept(i) == OccurrencesOf(i) \ Of(s)
           shows(i) == IF identity[i].shows \in Of(s) THEN None ELSE identity[i].shows
           refilled(i) == i \in affected /\ Active(i) /\ shows(i) = None /\ kept(i) # {}
           ended(i) == i \in affected /\ Active(i) /\ kept(i) = {} /\ link[i] = None
<1>1. /\ source[s] = "DELETING" /\ source' = [source EXCEPT ![s] = "DELETED"]
      /\ \A f \in Of(s) : face[f].rep \in {"NONE", "ERASED"}
      /\ face' = [f \in Faces |-> IF f \in Of(s) THEN Unseen ELSE face[f]]
      /\ UNCHANGED <<link, people, run>> /\ Told({})
  BY DEF FinishDeletion, Touch, Told
<1>2. PICK pick \in [{i \in Identities : refilled(i)} -> Faces] :
        /\ \A i \in DOMAIN pick : pick[i] \in kept(i)
        /\ identity' = [i \in Identities |->
             IF refilled(i) THEN [identity[i] EXCEPT !.shows = pick[i]]
             ELSE IF ended(i)
             THEN [identity[i] EXCEPT !.state = "DELETED", !.shows = None]
             ELSE [identity[i] EXCEPT !.shows = shows(i)]]
  BY DEF FinishDeletion
<1>3. \A i \in Identities : shows(i) \in Faces \cup {None}
  BY <1>0 DEF Rows
<1>4. \A i \in Identities : /\ refilled(i) => Active(i)
                            /\ ended(i) => /\ Active(i) /\ link[i] = None
                                           /\ OccurrencesOf(i) \ Of(s) = {}
                            /\ shows(i) = IF identity[i].shows \in Of(s) THEN None
                                          ELSE identity[i].shows
  OBVIOUS
<1>5. Unseen \in FaceRows
  BY DEF Unseen, FaceRows
<1> HIDE DEF refilled, ended, shows
<1>6. ASSUME NEW i \in Identities
      PROVE  /\ identity'[i] \in Rows
             /\ identity'[i].mergedInto = identity[i].mergedInto
             /\ \/ /\ Active(i) /\ identity'[i].state = "ACTIVE"
                   /\ identity'[i].shows \in OccurrencesOf(i) \ Of(s)
                \/ /\ Active(i) /\ link[i] = None /\ OccurrencesOf(i) \ Of(s) = {}
                   /\ identity'[i].state = "DELETED" /\ identity'[i].shows = None
                \/ /\ identity'[i].state = identity[i].state
                   /\ identity'[i].shows = IF identity[i].shows \in Of(s) THEN None
                                           ELSE identity[i].shows
  <2>1. identity[i] \in Rows
    BY <1>0
  <2>2. CASE refilled(i)
    <3>1. identity'[i] = [identity[i] EXCEPT !.shows = pick[i]]
      BY <1>2, <2>2
    <3>2. pick[i] \in OccurrencesOf(i) \ Of(s) /\ pick[i] \in Faces
      BY <1>2, <2>2
    <3>3. Active(i) /\ identity[i].state = "ACTIVE"
      BY <1>4, <2>2 DEF Active
    <3> QED BY <2>1, <3>1, <3>2, <3>3 DEF Rows
  <2>3. CASE ~ refilled(i) /\ ended(i)
    <3>1. identity'[i] = [identity[i] EXCEPT !.state = "DELETED", !.shows = None]
      BY <1>2, <2>3
    <3> QED BY <1>4, <2>1, <2>3, <3>1 DEF Rows, IdentityStates
  <2>4. CASE ~ refilled(i) /\ ~ ended(i)
    <3>1. identity'[i] = [identity[i] EXCEPT !.shows = shows(i)]
      BY <1>2, <2>4
    <3> QED BY <1>3, <1>4, <2>1, <3>1 DEF Rows
  <2> QED BY <2>2, <2>3, <2>4
<1>7. identity' \in [Identities -> Rows]
  <2>1. identity' = [i \in Identities |-> identity'[i]]
    BY <1>2
  <2> QED BY <1>6, <2>1
<1>8. face' \in [Faces -> FaceRows] /\ \A f \in Faces \ Of(s) : face'[f] = face[f]
  BY <1>0, <1>1, <1>5
<1>9. \A f \in Of(s) : face'[f] = Unseen
  BY <1>0, <1>1
<1> QED BY <1>0, <1>1, <1>6, <1>7, <1>8, <1>9 DEF Finished

LEMMA Steps ==
  ASSUME IInv, [Next]_vars
  PROVE  \/ /\ UNCHANGED <<identity, face, link, people, source>>
            /\ \/ UNCHANGED <<run, view>>
               \/ \E s \in Sources : RunEnds(s)
               \/ \E i \in Identities : Look(i)
         \/ \E s \in Sources, D \in SUBSET Faces, B \in SUBSET Faces :
               \E born \in [B -> Free] : Deciding(s, D, B, born) /\ Decided(s, D, B, born)
         \/ \E s \in Sources : Accepted(s)
         \/ \E s \in Identities, L \in SUBSET Identities : Merged(L, s)
         \/ \E i \in Identities, S \in SUBSET Faces, t \in Identities : Moved(i, S, t)
         \/ \E f \in Faces, t \in Identities : Resolved(f, t)
         \/ \E i \in Identities, p \in People \cup {None} : Renamed(i, p)
         \/ \E I \in SUBSET Identities, kin \in SUBSET Identities : Forgot(I, kin)
         \/ \E f \in Faces : Wiped(f)
         \/ \E s \in Sources : Begun(s)
         \/ \E s \in Sources : Finished(s)
<1>0. TypeOK /\ RowsInv /\ OwnersAgree
  BY DEF IInv
<1>1. ASSUME NEW f \in Faces, NEW t \in Identities, Reassign(f, t)
      PROVE  \E i \in Identities : \E S \in SUBSET Faces : Moved(i, S, t)
  <2>1. {f} \in SUBSET Faces
    OBVIOUS
  <2> QED BY <1>0, <1>1, <2>1, ReassignEffect
<1>2. ASSUME NEW s \in Sources, NEW D \in SUBSET Faces, NEW B \in SUBSET Faces,
             NEW born \in [B -> Free], Deciding(s, D, B, born)
      PROVE  Decided(s, D, B, born)
  BY <1>0, <1>2, DecideEffect
<1>3. ASSUME NEW s \in Sources
      PROVE  /\ Accept(s) => Accepted(s)
             /\ BeginDeletion(s) => Begun(s)
             /\ FinishDeletion(s) => Finished(s)
  BY <1>0, AcceptEffect, BeginEffect, FinishEffect
<1>4. ASSUME NEW s \in Identities, NEW L \in SUBSET Identities, Merge(L, s)
      PROVE  Merged(L, s)
  BY <1>0, <1>4, MergeEffect
<1>5. ASSUME NEW i \in Identities, NEW S \in SUBSET Faces, NEW n \in Identities, Split(i, S, n)
      PROVE  Moved(i, S, n)
  BY <1>0, <1>5, SplitEffect
<1>6. ASSUME NEW f \in Faces, NEW t \in Identities, Resolve(f, t)
      PROVE  Resolved(f, t)
  BY <1>0, <1>6, ResolveEffect
<1>7. ASSUME NEW i \in Identities, NEW p \in People \cup {None}, Named1(i, p)
      PROVE  Renamed(i, p)
  BY <1>0, <1>7, NamedEffect
<1>8. ASSUME NEW I \in SUBSET Identities, ForgetAll(I)
      PROVE  \E kin \in SUBSET Identities : Forgot(I, kin)
  BY <1>0, <1>8, ForgetEffect
<1>9. ASSUME NEW f \in Faces, Erased(f)
      PROVE  Wiped(f)
  BY <1>0, <1>9, ErasedEffect
<1> QED BY <1>1, <1>2, <1>3, <1>4, <1>5, <1>6, <1>7, <1>8, <1>9, StepCases

ViewType == [of : Identities \cup {None}, faces : SUBSET Faces,
             person : People \cup {None}, current : BOOLEAN]

LEMMA ToldIs ==
  ASSUME view \in ViewType, NEW I, Told(I)
  PROVE  /\ view' \in ViewType /\ view'.of = view.of
         /\ view'.current => view' = view /\ view.of \notin I
<1>1. CASE view' = view /\ view.of \notin I
  BY <1>1
<1>2. CASE view' = [view EXCEPT !.current = FALSE]
  BY <1>2 DEF ViewType
<1> QED BY <1>1, <1>2 DEF Told

-----------------------------------------------------------------------------
(* Types *)

LEMMA NextTypes ==
  ASSUME IInv, [Next]_vars
  PROVE  TypeOK'
<1>0. /\ TypeOK /\ RowsInv /\ OwnersAgree /\ view \in ViewType
      /\ identity \in [Identities -> Rows] /\ face \in [Faces -> FaceRows]
      /\ link \in [Identities -> People \cup {None}] /\ people \subseteq People
      /\ run \in [Sources -> SUBSET Faces]
      /\ source \in [Sources -> {"ACTIVE", "DELETING", "DELETED"}]
  BY DEF IInv, TypeOK, ViewType
<1>1. SUFFICES /\ identity' \in [Identities -> Rows] /\ face' \in [Faces -> FaceRows]
               /\ link' \in [Identities -> People \cup {None}] /\ people' \subseteq People
               /\ run' \in [Sources -> SUBSET Faces]
               /\ source' \in [Sources -> {"ACTIVE", "DELETING", "DELETED"}]
               /\ view' \in ViewType
  BY DEF TypeOK, ViewType
<1>2. CASE /\ UNCHANGED <<identity, face, link, people, source>>
           /\ \/ UNCHANGED <<run, view>>
              \/ \E s \in Sources : RunEnds(s)
              \/ \E i \in Identities : Look(i)
  <2>1. CASE UNCHANGED <<run, view>>
    BY <1>0, <1>2, <2>1
  <2>2. ASSUME NEW s \in Sources, RunEnds(s) PROVE run' \in [Sources -> SUBSET Faces]
    BY <1>0, <2>2 DEF RunEnds
  <2>3. ASSUME NEW i \in Identities, Look(i) PROVE view' \in ViewType
    BY <1>0, <2>3 DEF Look, ViewType, OccurrencesOf
  <2> QED BY <1>0, <1>2, <2>1, <2>2, <2>3 DEF RunEnds, Look
<1>3. ASSUME NEW s \in Sources, NEW D \in SUBSET Faces, NEW B \in SUBSET Faces,
             NEW born \in [B -> Free], Decided(s, D, B, born)
      PROVE  /\ identity' \in [Identities -> Rows] /\ face' \in [Faces -> FaceRows]
             /\ run' \in [Sources -> SUBSET Faces] /\ UNCHANGED <<link, people, source, view>>
  BY <1>0, <1>3 DEF Decided
<1>4. ASSUME NEW s \in Sources, Accepted(s)
      PROVE  /\ identity' \in [Identities -> Rows] /\ face' \in [Faces -> FaceRows]
             /\ run' \in [Sources -> SUBSET Faces] /\ view' \in ViewType
             /\ UNCHANGED <<link, people, source>>
  <2>1. Told({face[f].owner : f \in run[s]} \ {None})
    BY <1>4 DEF Accepted, Touch, Told
  <2> QED BY <1>0, <1>4, <2>1, ToldIs DEF Accepted
<1>5. ASSUME NEW s \in Identities, NEW L \in SUBSET Identities, Merged(L, s)
      PROVE  /\ identity' \in [Identities -> Rows] /\ face' \in [Faces -> FaceRows]
             /\ link' \in [Identities -> People \cup {None}] /\ view' \in ViewType
             /\ UNCHANGED <<people, run, source>>
  <2>1. Told(L \cup {s})
    BY <1>5 DEF Merged, Touch, Told
  <2> QED BY <1>0, <1>5, <2>1, ToldIs DEF Merged
<1>6. CASE \E i \in Identities, S \in SUBSET Faces, t \in Identities : Moved(i, S, t)
  BY <1>0, <1>6, ToldIs DEF Moved
<1>7. CASE \E f \in Faces, t \in Identities : Resolved(f, t)
  BY <1>0, <1>7, ToldIs DEF Resolved
<1>8. CASE \E i \in Identities, p \in People \cup {None} : Renamed(i, p)
  BY <1>0, <1>8, ToldIs DEF Renamed
<1>9. CASE \E I \in SUBSET Identities, kin \in SUBSET Identities : Forgot(I, kin)
  BY <1>0, <1>9, ToldIs DEF Forgot
<1>10. CASE \E f \in Faces : Wiped(f)
  BY <1>0, <1>10 DEF Wiped
<1>11. CASE \E s \in Sources : Begun(s)
  BY <1>0, <1>11, ToldIs DEF Begun
<1>12. CASE \E s \in Sources : Finished(s)
  BY <1>0, <1>12, ToldIs DEF Finished
<1> QED BY <1>0, <1>2, <1>3, <1>4, <1>5, <1>6, <1>7, <1>8, <1>9, <1>10, <1>11, <1>12, Steps, Zenon

-----------------------------------------------------------------------------
(* Rows and owners *)

LEMMA NextRows ==
  ASSUME IInv, [Next]_vars
  PROVE  RowsInv'
<1>0. /\ TypeOK /\ RowsInv /\ identity \in [Identities -> Rows] /\ face \in [Faces -> FaceRows]
      /\ None \notin Identities
  BY NoneAssumption DEF IInv, TypeOK
<1> SUFFICES /\ \A i \in Identities :
                   identity'[i].mergedInto # None <=> identity'[i].state = "MERGED"
             /\ \A f \in Faces : face'[f].rep = "NONE" => face'[f].owner = None
             /\ \A f \in Faces : face'[f].owner # None => identity'[face'[f].owner].state # "FREE"
             /\ \A f \in Faces :
                   face'[f].rep \in {"ERASING", "ERASED"} => face'[f].crop # "KEPT"
  BY DEF RowsInv
<1>1. \A f \in Faces : face[f].owner \in Identities \cup {None}
  BY <1>0 DEF FaceRows
<1>2. CASE UNCHANGED <<identity, face>>
  BY <1>0, <1>2 DEF RowsInv
<1>3. ASSUME NEW s \in Sources, NEW D \in SUBSET Faces, NEW B \in SUBSET Faces,
             NEW born \in [B -> Free], Decided(s, D, B, born)
      PROVE  RowsInv'
  <2>1. \A i \in Identities :
           \/ identity'[i].mergedInto = None /\ identity'[i].state = "PENDING"
           \/ identity'[i] = identity[i]
    BY <1>3 DEF Decided, Unborn
  <2>2. \A i \in Identities : identity[i].state # "FREE" => identity'[i].state # "FREE"
    BY <2>1
  <2>3. ASSUME NEW f \in D
        PROVE  face'[f].owner # None => identity'[face'[f].owner].state # "FREE"
    <3>1. \A g \in B : born[g] \in Identities /\ identity'[born[g]].state = "PENDING"
      <4>1. \A g \in B : born[g] \in Identities
        BY DEF Free
      <4> QED BY <1>3, <4>1 DEF Decided, Unborn
    <3> QED BY <1>3, <2>2, <3>1 DEF Decided, Active
  <2> QED BY <1>0, <1>1, <1>3, <2>1, <2>2, <2>3 DEF Decided, RowsInv
<1>4. ASSUME NEW s \in Sources, Accepted(s)
      PROVE  RowsInv'
  <2>1. \A f \in run[s] : f \in Faces /\ (face[f].owner # None =>
           identity[face[f].owner].state \in {"PENDING", "ACTIVE"})
    BY <1>0, <1>4 DEF Accepted, StillValid, Created, Matched, Active, TypeOK
  <2>2. \A i \in Identities : (\E f \in run[s] : face[f].owner = i) =>
           identity[i].state \in {"PENDING", "ACTIVE"}
    BY <1>0, <2>1
  <2>3. \A i \in Identities : identity[i].state # "FREE" => identity'[i].state # "FREE"
    BY <1>4 DEF Accepted
  <2>4. \A i \in Identities : identity'[i].mergedInto # None <=> identity'[i].state = "MERGED"
    BY <1>0, <1>4, <2>2 DEF Accepted, RowsInv
  <2> QED BY <1>0, <1>1, <1>4, <2>3, <2>4 DEF Accepted, RowsInv
<1>5. ASSUME NEW s \in Identities, NEW L \in SUBSET Identities, Merged(L, s)
      PROVE  RowsInv'
  <2>1. \A i \in Identities : /\ identity'[i].mergedInto # None <=> identity'[i].state = "MERGED"
                              /\ identity[i].state # "FREE" => identity'[i].state # "FREE"
    BY <1>0, <1>5 DEF Merged, RowsInv, Active
  <2> QED BY <1>0, <1>1, <1>5, <2>1 DEF Merged, RowsInv
<1>6. ASSUME NEW i \in Identities, NEW S \in SUBSET Faces, NEW t \in Identities, Moved(i, S, t)
      PROVE  RowsInv'
  <2>1. \A j \in Identities : /\ identity'[j].mergedInto # None <=> identity'[j].state = "MERGED"
                              /\ identity[j].state # "FREE" => identity'[j].state # "FREE"
    BY <1>0, <1>6 DEF Moved, RowsInv, Active
  <2> QED BY <1>0, <1>1, <1>6, <2>1 DEF Moved, RowsInv
<1>7. ASSUME NEW f \in Faces, NEW t \in Identities, Resolved(f, t)
      PROVE  RowsInv'
  <2>1. \A j \in Identities : /\ identity'[j].mergedInto # None <=> identity'[j].state = "MERGED"
                              /\ identity[j].state # "FREE" => identity'[j].state # "FREE"
    BY <1>0, <1>7 DEF Resolved, RowsInv, Active
  <2> QED BY <1>0, <1>1, <1>7, <2>1 DEF Resolved, RowsInv
<1>8. ASSUME NEW I \in SUBSET Identities, NEW kin \in SUBSET Identities, Forgot(I, kin)
      PROVE  RowsInv'
  <2>1. \A j \in Identities : /\ identity'[j].mergedInto # None <=> identity'[j].state = "MERGED"
                              /\ identity[j].state # "FREE" => identity'[j].state # "FREE"
    BY <1>0, <1>8 DEF Forgot, RowsInv, Active
  <2> QED BY <1>0, <1>1, <1>8, <2>1 DEF Forgot, RowsInv
<1>9. ASSUME NEW f \in Faces, Wiped(f)
      PROVE  RowsInv'
  BY <1>0, <1>9 DEF Wiped, RowsInv
<1>10. ASSUME NEW s \in Sources, Begun(s)
       PROVE  RowsInv'
  BY <1>0, <1>10 DEF Begun, RowsInv
<1>11. ASSUME NEW s \in Sources, Finished(s)
       PROVE  RowsInv'
  <2>1. \A j \in Identities : /\ identity'[j].mergedInto # None <=> identity'[j].state = "MERGED"
                              /\ identity[j].state # "FREE" => identity'[j].state # "FREE"
    BY <1>0, <1>11 DEF Finished, RowsInv, Active
  <2> QED BY <1>0, <1>1, <1>11, <2>1 DEF Finished, RowsInv, Unseen
<1>12. CASE \E i \in Identities, p \in People \cup {None} : Renamed(i, p)
  BY <1>2, <1>12 DEF Renamed
<1> HIDE DEF RowsInv
<1> QED BY <1>2, <1>3, <1>4, <1>5, <1>6, <1>7, <1>8, <1>9, <1>10, <1>11, <1>12, Steps DEF RowsInv

\* A face that counts, and what OwnersAgree says of one.
Counts(f) == face[f].occ = "ACTIVE" \/ (face[f].rep = "ACTIVE" /\ face[f].owner # None)
Owned(f) == /\ face[f].occ = "ACTIVE" /\ face[f].rep = "ACTIVE" /\ face[f].owner \in Identities
            /\ face[f].owner = face[f].occOwner /\ identity[face[f].owner].state = "ACTIVE"

LEMMA OwnersAre ==
  ASSUME TypeOK, OwnersAgree
  PROVE  \A f \in Faces : Counts(f) => Owned(f)
<1>1. \A f \in Faces : face[f].owner \in Identities \cup {None}
  BY DEF TypeOK, FaceRows
<1>2. ASSUME NEW f \in Faces, Counts(f)
      PROVE  /\ face[f].occ = "ACTIVE" /\ Supported(f) /\ Active(face[f].owner)
  BY <1>2 DEF OwnersAgree, Counts
<1>3. ASSUME NEW f \in Faces, Counts(f) PROVE Owned(f)
  BY <1>1, <1>2, <1>3 DEF Owned, Supported, Active
<1> QED BY <1>3

LEMMA NextOwners ==
  ASSUME IInv, [Next]_vars
  PROVE  OwnersAgree'
<1>0. /\ TypeOK /\ RowsInv /\ identity \in [Identities -> Rows] /\ face \in [Faces -> FaceRows]
      /\ None \notin Identities /\ \A f \in Faces : Counts(f) => Owned(f)
  BY NoneAssumption, OwnersAre DEF IInv, TypeOK
<1> DEFINE Goal == \A f \in Faces : Counts(f)' => Owned(f)'
<1>1. SUFFICES Goal
  <2>1. ASSUME NEW f \in Faces, Owned(f)'
        PROVE  (face[f].occ = "ACTIVE" /\ Supported(f) /\ Active(face[f].owner))'
    BY <1>0, <2>1 DEF Owned, Supported, Active
  <2> QED BY <1>1, <2>1 DEF OwnersAgree, Counts
<1>2. CASE UNCHANGED <<identity, face>>
  BY <1>0, <1>2 DEF Counts, Owned
<1>3. ASSUME NEW s \in Sources, NEW D \in SUBSET Faces, NEW B \in SUBSET Faces,
             NEW born \in [B -> Free], Decided(s, D, B, born)
      PROVE  Goal
  <2>1. \A i \in Identities : identity[i].state = "ACTIVE" => identity'[i].state = "ACTIVE"
    BY <1>3 DEF Decided
  <2> QED BY <1>0, <1>3, <2>1 DEF Decided, Counts, Owned
<1>4. ASSUME NEW s \in Sources, Accepted(s)
      PROVE  Goal
  <2>1. \A i \in Identities : identity[i].state = "ACTIVE" => identity'[i].state = "ACTIVE"
    BY <1>4 DEF Accepted
  <2>2. ASSUME NEW f \in Faces \ run[s] PROVE Counts(f)' => Owned(f)'
    BY <1>0, <1>4, <2>1, <2>2 DEF Accepted, Counts, Owned
  <2>3. ASSUME NEW f \in run[s] PROVE Counts(f)' => Owned(f)'
    <3>1. /\ f \in Faces /\ face[f].rep = "PENDING" /\ face'[f].rep = "ACTIVE"
          /\ face'[f].owner = face[f].owner /\ face[f].owner \in Identities \cup {None}
      BY <1>0, <1>4 DEF Accepted, StillValid, TypeOK, FaceRows
    <3>2. face[f].occ # "ACTIVE"
      BY <1>0, <3>1 DEF Counts, Owned
    <3>3. CASE face[f].owner = None
      BY <1>0, <1>4, <3>1, <3>2, <3>3 DEF Accepted, Counts
    <3>4. CASE face[f].owner # None
      BY <1>4, <3>1, <3>4 DEF Accepted, Owned
    <3> QED BY <3>3, <3>4
  <2> QED BY <2>2, <2>3
<1>5. ASSUME NEW s \in Identities, NEW L \in SUBSET Identities, Merged(L, s)
      PROVE  Goal
  <2> SUFFICES ASSUME NEW f \in Faces, Counts(f)' PROVE Owned(f)'
    OBVIOUS
  <2>1. Counts(f)
    BY <1>0, <1>5 DEF Merged, Counts
  <2>2. Owned(f)
    BY <1>0, <2>1
  <2>3. \A i \in Identities \ L : identity[i].state = "ACTIVE" => identity'[i].state = "ACTIVE"
    BY <1>5 DEF Merged
  <2> QED BY <1>5, <2>2, <2>3 DEF Merged, Owned
<1>6. ASSUME NEW i \in Identities, NEW S \in SUBSET Faces, NEW t \in Identities, Moved(i, S, t)
      PROVE  Goal
  <2>1. \A j \in Identities : identity[j].state = "ACTIVE" => identity'[j].state = "ACTIVE"
    BY <1>6 DEF Moved
  <2> QED BY <1>0, <1>6, <2>1 DEF Moved, Counts, Owned
<1>7. ASSUME NEW f \in Faces, NEW t \in Identities, Resolved(f, t)
      PROVE  Goal
  <2>1. \A j \in Identities : identity[j].state = "ACTIVE" => identity'[j].state = "ACTIVE"
    BY <1>7 DEF Resolved
  <2> QED BY <1>0, <1>7, <2>1 DEF Resolved, Counts, Owned
<1>8. ASSUME NEW I \in SUBSET Identities, NEW kin \in SUBSET Identities, Forgot(I, kin)
      PROVE  Goal
  <2> SUFFICES ASSUME NEW f \in Faces, Counts(f)' PROVE Owned(f)'
    OBVIOUS
  <2>1. Counts(f)
    BY <1>0, <1>8 DEF Forgot, Counts
  <2>2. Owned(f)
    BY <1>0, <2>1
  <2>3. face[f].owner \notin I
    BY <1>8, <2>2 DEF Forgot, Counts, Owned
  <2>4. face[f].owner \notin kin
    BY <1>8, <2>2, <2>3 DEF Forgot, Owned
  <2> QED BY <1>8, <2>2, <2>3, <2>4 DEF Forgot, Owned
<1>9. ASSUME NEW f \in Faces, Wiped(f)
      PROVE  Goal
  BY <1>0, <1>9 DEF Wiped, Counts, Owned
<1>10. ASSUME NEW s \in Sources, Begun(s)
       PROVE  Goal
  BY <1>0, <1>10 DEF Begun, Counts, Owned
<1>11. ASSUME NEW s \in Sources, Finished(s)
       PROVE  Goal
  <2> SUFFICES ASSUME NEW f \in Faces, Counts(f)' PROVE Owned(f)'
    OBVIOUS
  <2>1. f \notin Of(s) /\ face'[f] = face[f]
    BY <1>0, <1>11 DEF Finished, Counts, Unseen
  <2>2. Owned(f)
    BY <1>0, <2>1 DEF Counts
  <2>3. f \in OccurrencesOf(face[f].owner) \ Of(s)
    BY <2>1, <2>2 DEF Owned, OccurrencesOf
  <2>4. identity'[face[f].owner].state = "ACTIVE"
    BY <1>11, <2>2, <2>3 DEF Finished, Owned
  <2> QED BY <2>1, <2>2, <2>4 DEF Owned
<1>12. CASE \E i \in Identities, p \in People \cup {None} : Renamed(i, p)
  BY <1>2, <1>12 DEF Renamed
<1> HIDE DEF Goal
<1> QED BY <1>2, <1>3, <1>4, <1>5, <1>6, <1>7, <1>8, <1>9, <1>10, <1>11, <1>12, Steps

-----------------------------------------------------------------------------
(* People, and the faces that are shown *)

LEMMA NextLinks ==
  ASSUME IInv, [Next]_vars
  PROVE  LinkInv'
<1>0. /\ TypeOK /\ RowsInv /\ link \in [Identities -> People \cup {None}]
      /\ \A i \in Identities : link[i] # None => identity[i].state = "ACTIVE" /\ link[i] \in people
  BY DEF IInv, TypeOK, LinkInv, Active
<1> DEFINE Goal == \A i \in Identities :
                      link'[i] # None => identity'[i].state = "ACTIVE" /\ link'[i] \in people'
<1>1. SUFFICES Goal
  BY DEF LinkInv, Active
<1>2. CASE UNCHANGED <<identity, link, people>>
  BY <1>0, <1>2
<1>3. ASSUME NEW s \in Sources, NEW D \in SUBSET Faces, NEW B \in SUBSET Faces,
             NEW born \in [B -> Free], Decided(s, D, B, born)
      PROVE  Goal
  BY <1>0, <1>3 DEF Decided
<1>4. ASSUME NEW s \in Sources, Accepted(s)
      PROVE  Goal
  BY <1>0, <1>4 DEF Accepted
<1>5. ASSUME NEW s \in Identities, NEW L \in SUBSET Identities, Merged(L, s)
      PROVE  Goal
  BY <1>0, <1>5 DEF Merged
<1>6. ASSUME NEW i \in Identities, NEW S \in SUBSET Faces, NEW t \in Identities, Moved(i, S, t)
      PROVE  Goal
  BY <1>0, <1>6 DEF Moved
<1>7. ASSUME NEW f \in Faces, NEW t \in Identities, Resolved(f, t)
      PROVE  Goal
  BY <1>0, <1>7 DEF Resolved
<1>8. ASSUME NEW I \in SUBSET Identities, NEW kin \in SUBSET Identities, Forgot(I, kin)
      PROVE  Goal
  BY <1>0, <1>8 DEF Forgot
<1>9. ASSUME NEW i \in Identities, NEW p \in People \cup {None}, Renamed(i, p)
      PROVE  Goal
  BY <1>0, <1>9 DEF Renamed, Active
<1>10. ASSUME NEW s \in Sources, Finished(s)
       PROVE  Goal
  BY <1>0, <1>10 DEF Finished
<1>11. CASE (\E f \in Faces : Wiped(f)) \/ \E s \in Sources : Begun(s)
  BY <1>2, <1>11 DEF Wiped, Begun
<1> HIDE DEF Goal
<1> QED BY <1>2, <1>3, <1>4, <1>5, <1>6, <1>7, <1>8, <1>9, <1>10, <1>11, Steps

\* What i shows, if it shows a face, is well shown.
WellShown(i) ==
    identity[i].state = "ACTIVE" /\ identity[i].shows # None =>
        \/ face[identity[i].shows].owner = i /\ face[identity[i].shows].rep = "ACTIVE"
        \/ source[SourceOf[identity[i].shows]] = "DELETING"

\* What recognition proposes for the face f shows f.
Proposed(f) ==
    face[f].rep = "PENDING" /\ face[f].owner # None /\ face[f].cites = None
    /\ identity[face[f].owner].state = "PENDING" => identity[face[f].owner].shows = f

LEMMA NextShows ==
  ASSUME IInv, TypeOK', [Next]_vars
  PROVE  ShowsInv'
<1>0. /\ TypeOK /\ RowsInv /\ OwnersAgree /\ None \notin Identities /\ None \notin Faces
      /\ identity \in [Identities -> Rows] /\ face \in [Faces -> FaceRows]
      /\ \A i \in Identities : WellShown(i)
      /\ \A f \in Faces : Proposed(f) /\ (Counts(f) => Owned(f))
  BY NoneAssumption, OwnersAre DEF IInv, TypeOK, ShowsInv, WellShown, Proposed, Created, Active
<1>00. /\ \A i \in Identities : identity[i].shows \in Faces \cup {None}
       /\ \A i \in Identities : identity'[i].shows \in Faces \cup {None}
       /\ \A f \in Faces : face[f].owner \in Identities \cup {None}
       /\ \A f \in Faces : face'[f].owner \in Identities \cup {None}
       /\ \A f \in Faces : SourceOf[f] \in Sources
       /\ \A f \in Faces : face[f].rep = "NONE" => face[f].owner = None
       /\ \A f \in Faces : face[f].owner # None => identity[face[f].owner].state # "FREE"
  BY <1>0, SourceAssumption DEF TypeOK, Rows, FaceRows, RowsInv
<1> DEFINE Goal == /\ \A i \in Identities : WellShown(i)'
                   /\ \A f \in Faces : Proposed(f)'
<1>1. SUFFICES Goal
  BY DEF ShowsInv, WellShown, Proposed, Created, Active
<1>2. CASE UNCHANGED <<identity, face, source>>
  BY <1>0, <1>2 DEF WellShown, Proposed
<1>3. ASSUME NEW s \in Sources, NEW D \in SUBSET Faces, NEW B \in SUBSET Faces,
             NEW born \in [B -> Free], Deciding(s, D, B, born), Decided(s, D, B, born)
      PROVE  Goal
  <2>1. ASSUME NEW i \in Identities PROVE WellShown(i)'
    <3>1. CASE identity'[i].state = "ACTIVE" /\ identity'[i].shows # None
      <4>1. identity'[i] = identity[i]
        BY <1>3, <3>1 DEF Decided
      <4>2. PICK f \in Faces : f = identity[i].shows
        BY <1>00, <3>1, <4>1
      <4>3. f \in D => face[f].owner = None
        BY <1>00, <1>3 DEF Decided
      <4> QED BY <1>0, <1>3, <3>1, <4>1, <4>2, <4>3 DEF Decided, WellShown
    <3> QED BY <3>1 DEF WellShown
  <2>2. ASSUME NEW f \in Faces PROVE Proposed(f)'
    <3>1. CASE f \in D
      <4>1. CASE f \in B /\ face'[f].owner = born[f]
        <5>1. born[f] \in Identities
          BY <4>1 DEF Free
        <5>2. \A g \in B : born[g] = born[f] => g = f
          BY <1>3, <4>1 DEF Deciding
        <5>3. identity'[born[f]].shows = f
          BY <1>3, <4>1, <5>1, <5>2 DEF Decided
        <5> QED BY <4>1, <5>3 DEF Proposed
      <4>2. CASE face'[f].owner = None \/ face'[f].cites # None
        BY <4>2 DEF Proposed
      <4> QED BY <1>3, <3>1, <4>1, <4>2 DEF Decided
    <3>2. CASE f \notin D
      <4>1. face'[f] = face[f]
        BY <1>3, <3>2 DEF Decided
      <4>2. CASE face[f].owner # None
        <5>1. identity'[face[f].owner] = identity[face[f].owner]
          BY <1>00, <1>3, <4>2 DEF Decided
        <5> QED BY <1>0, <4>1, <5>1 DEF Proposed
      <4> QED BY <4>1, <4>2 DEF Proposed
    <3> QED BY <3>1, <3>2
  <2> QED BY <2>1, <2>2
<1>4. ASSUME NEW s \in Sources, Accepted(s)
      PROVE  Goal
  <2>0. \A f \in run[s] : f \in Faces /\ face[f].rep = "PENDING"
    BY <1>0, <1>4 DEF Accepted, StillValid, TypeOK
  <2>1. ASSUME NEW i \in Identities, identity'[i].state = "ACTIVE", identity'[i].shows # None
        PROVE  WellShown(i)'
    <3>1. PICK f \in Faces : f = identity[i].shows /\ identity'[i].shows = f
      BY <1>00, <1>4, <2>1 DEF Accepted
    <3>2. CASE identity[i].state = "ACTIVE"
      <4>1. face[f].rep = "ACTIVE" => face'[f] = face[f]
        BY <1>4, <2>0 DEF Accepted
      <4> QED BY <1>0, <1>4, <2>1, <3>1, <3>2, <4>1 DEF Accepted, WellShown
    <3>3. CASE identity[i].state # "ACTIVE"
      <4>1. PICK g \in run[s] : face[g].owner = i
        BY <1>4, <2>1, <3>3 DEF Accepted
      <4>2. /\ g \in Faces /\ face[g].rep = "PENDING" /\ StillValid(g) /\ face[g].owner # None
            /\ face'[g].rep = "ACTIVE" /\ face'[g].owner = i
        BY <1>0, <1>4, <2>0, <4>1 DEF Accepted
      <4>3. face[g].cites = None /\ identity[i].state = "PENDING"
        BY <3>3, <4>1, <4>2 DEF StillValid, Created, Matched, Active
      <4>4. identity[i].shows = g
        BY <1>0, <4>1, <4>2, <4>3 DEF Proposed
      <4> QED BY <3>1, <4>2, <4>4 DEF WellShown
    <3> QED BY <3>2, <3>3
  <2>2. ASSUME NEW f \in Faces PROVE Proposed(f)'
    <3>1. CASE f \in run[s]
      BY <1>4, <3>1 DEF Accepted, Proposed
    <3>2. CASE f \notin run[s]
      BY <1>0, <1>00, <1>4, <3>2 DEF Accepted, Proposed
    <3> QED BY <3>1, <3>2
  <2> QED BY <2>1, <2>2 DEF WellShown
<1>5. ASSUME NEW s \in Identities, NEW L \in SUBSET Identities, Merged(L, s)
      PROVE  Goal
  <2>1. ASSUME NEW i \in Identities, identity'[i].state = "ACTIVE", identity'[i].shows # None
        PROVE  WellShown(i)'
    <3>1. CASE i = s
      <4>1. PICK l \in L \cup {s} : identity'[s].shows = identity[l].shows
        BY <1>5 DEF Merged
      <4>2. l \in Identities /\ WellShown(l) /\ identity[l].state = "ACTIVE"
        BY <1>0, <1>5 DEF Merged, Active
      <4>3. PICK f \in Faces : f = identity[l].shows
        BY <1>00, <2>1, <3>1, <4>1, <4>2
      <4> QED BY <1>5, <2>1, <3>1, <4>1, <4>2, <4>3 DEF Merged, WellShown
    <3>2. CASE i # s
      <4>1. i \notin L /\ identity'[i] = identity[i]
        BY <1>5, <2>1, <3>2 DEF Merged
      <4>2. PICK f \in Faces : f = identity[i].shows
        BY <1>00, <2>1, <4>1
      <4> QED BY <1>0, <1>5, <2>1, <4>1, <4>2 DEF Merged, WellShown
    <3> QED BY <3>1, <3>2
  <2>2. ASSUME NEW f \in Faces PROVE Proposed(f)'
    <3>1. face'[f].rep = "PENDING" => face'[f].owner = face[f].owner
      BY <1>5 DEF Merged
    <3>2. \A i \in Identities : identity'[i].state = "PENDING" => identity'[i] = identity[i]
      BY <1>5 DEF Merged
    <3> QED BY <1>0, <1>00, <1>5, <3>1, <3>2 DEF Merged, Proposed
  <2> QED BY <2>1, <2>2 DEF WellShown
<1>6. ASSUME NEW i \in Identities, NEW S \in SUBSET Faces, NEW t \in Identities, Moved(i, S, t)
      PROVE  Goal
  <2>1. ASSUME NEW j \in Identities, identity'[j].state = "ACTIVE", identity'[j].shows # None
        PROVE  WellShown(j)'
    <3>1. PICK f \in Faces : f = identity'[j].shows
      BY <1>00, <2>1
    <3>2. CASE j = i
      BY <1>0, <1>6, <2>1, <3>1, <3>2 DEF Moved, WellShown, Active
    <3>3. CASE j = t
      BY <1>0, <1>6, <2>1, <3>1, <3>3 DEF Moved, WellShown, Active
    <3>4. CASE j \notin {i, t}
      BY <1>0, <1>6, <2>1, <3>1, <3>4 DEF Moved, WellShown
    <3> QED BY <3>2, <3>3, <3>4
  <2>2. ASSUME NEW f \in Faces PROVE Proposed(f)'
    <3>1. \A j \in Identities : identity'[j].state = "PENDING" => identity'[j] = identity[j]
      BY <1>6 DEF Moved
    <3>2. face'[f].rep = "PENDING" => face'[f] = face[f]
      BY <1>6 DEF Moved
    <3> QED BY <1>0, <1>00, <3>1, <3>2 DEF Proposed
  <2> QED BY <2>1, <2>2 DEF WellShown
<1>7. ASSUME NEW f \in Faces, NEW t \in Identities, Resolved(f, t)
      PROVE  Goal
  <2>1. ASSUME NEW j \in Identities, identity'[j].state = "ACTIVE", identity'[j].shows # None
        PROVE  WellShown(j)'
    <3>1. PICK g \in Faces : g = identity'[j].shows
      BY <1>00, <2>1
    <3>2. CASE j = t
      BY <1>0, <1>7, <2>1, <3>1, <3>2 DEF Resolved, WellShown, Active
    <3>3. CASE j # t
      BY <1>0, <1>7, <2>1, <3>1, <3>3 DEF Resolved, WellShown
    <3> QED BY <3>2, <3>3
  <2>2. ASSUME NEW g \in Faces PROVE Proposed(g)'
    <3>1. \A j \in Identities : identity'[j].state = "PENDING" => identity'[j] = identity[j]
      BY <1>7 DEF Resolved
    <3>2. face'[g].rep = "PENDING" => face'[g] = face[g]
      BY <1>7 DEF Resolved
    <3> QED BY <1>0, <1>00, <3>1, <3>2 DEF Proposed
  <2> QED BY <2>1, <2>2 DEF WellShown
<1>8. ASSUME NEW I \in SUBSET Identities, NEW kin \in SUBSET Identities, Forgot(I, kin)
      PROVE  Goal
  <2>1. ASSUME NEW i \in Identities, identity'[i].state = "ACTIVE", identity'[i].shows # None
        PROVE  WellShown(i)'
    <3>1. i \notin kin /\ identity[i].state = "ACTIVE" /\ identity'[i].shows = identity[i].shows
      BY <1>8, <2>1 DEF Forgot
    <3>2. PICK f \in Faces : f = identity[i].shows
      BY <1>00, <2>1, <3>1
    <3> QED BY <1>0, <1>8, <2>1, <3>1, <3>2 DEF Forgot, WellShown
  <2>2. ASSUME NEW f \in Faces PROVE Proposed(f)'
    <3> SUFFICES ASSUME face'[f].rep = "PENDING" PROVE Proposed(f)'
      BY DEF Proposed
    <3>1. face[f].owner \notin kin /\ face[f].rep = "PENDING"
      BY <1>8 DEF Forgot
    <3>2. face'[f].owner = face[f].owner /\ face'[f].cites = face[f].cites
      BY <1>8 DEF Forgot
    <3>3. CASE face[f].owner # None
      <4>1. /\ identity'[face[f].owner].shows = identity[face[f].owner].shows
            /\ identity'[face[f].owner].state = identity[face[f].owner].state
        BY <1>00, <1>8, <3>1, <3>3 DEF Forgot
      <4> QED BY <1>0, <3>1, <3>2, <4>1 DEF Proposed
    <3> QED BY <3>2, <3>3 DEF Proposed
  <2> QED BY <2>1, <2>2 DEF WellShown
<1>9. ASSUME NEW f \in Faces, Wiped(f)
      PROVE  Goal
  <2>1. ASSUME NEW i \in Identities, identity[i].state = "ACTIVE", identity[i].shows # None
        PROVE  WellShown(i)'
    <3>1. PICK g \in Faces : g = identity[i].shows
      BY <1>00, <2>1
    <3> QED BY <1>0, <1>9, <2>1, <3>1 DEF Wiped, WellShown
  <2>2. \A g \in Faces : Proposed(g)'
    BY <1>0, <1>9 DEF Wiped, Proposed
  <2> QED BY <1>9, <2>1, <2>2 DEF Wiped, WellShown
<1>10. ASSUME NEW s \in Sources, Begun(s)
       PROVE  Goal
  <2>1. ASSUME NEW i \in Identities, identity[i].state = "ACTIVE", identity[i].shows # None
        PROVE  WellShown(i)'
    <3>1. PICK f \in Faces : f = identity[i].shows /\ SourceOf[f] \in Sources
      BY <1>00, <2>1
    <3>2. CASE f \in Of(s)
      BY <1>10, <3>1, <3>2 DEF Begun, WellShown
    <3>3. CASE f \notin Of(s)
      <4>1. SourceOf[f] # s
        BY <3>3 DEF Of
      <4> QED BY <1>0, <1>10, <2>1, <3>1, <3>3, <4>1 DEF Begun, WellShown
    <3> QED BY <3>2, <3>3
  <2>2. \A f \in Faces : Proposed(f)'
    BY <1>0, <1>10 DEF Begun, Proposed
  <2> QED BY <1>10, <2>1, <2>2 DEF Begun, WellShown
<1>11. ASSUME NEW s \in Sources, Finished(s)
       PROVE  Goal
  <2>1. ASSUME NEW i \in Identities, identity'[i].state = "ACTIVE", identity'[i].shows # None
        PROVE  WellShown(i)'
    <3>1. PICK f \in Faces : f = identity'[i].shows /\ SourceOf[f] \in Sources
      BY <1>00, <2>1
    <3>2. f \notin Of(s) /\ SourceOf[f] # s /\ face'[f] = face[f]
      BY <1>11, <2>1, <3>1 DEF Finished, Of
    <3>3. CASE f \in OccurrencesOf(i)
      BY <1>0, <3>1, <3>2, <3>3 DEF OccurrencesOf, Counts, Owned, WellShown
    <3>4. CASE f = identity[i].shows /\ identity[i].state = "ACTIVE"
      BY <1>0, <1>11, <2>1, <3>1, <3>2, <3>4 DEF Finished, WellShown
    <3> QED BY <1>11, <2>1, <3>1, <3>3, <3>4 DEF Finished
  <2>2. ASSUME NEW f \in Faces PROVE Proposed(f)'
    <3>1. CASE f \in Of(s)
      BY <1>11, <3>1 DEF Finished, Proposed, Unseen
    <3>2. CASE f \notin Of(s)
      <4>1. face'[f] = face[f]
        BY <1>11, <3>2 DEF Finished
      <4>2. \A i \in Identities : identity'[i].state = "PENDING" =>
               /\ identity[i].state = "PENDING"
               /\ identity[i].shows \notin Of(s) => identity'[i].shows = identity[i].shows
        BY <1>11 DEF Finished
      <4> QED BY <1>0, <1>00, <3>2, <4>1, <4>2 DEF Proposed
    <3> QED BY <3>1, <3>2
  <2> QED BY <2>1, <2>2 DEF WellShown
<1>12. CASE \E i \in Identities, p \in People \cup {None} : Renamed(i, p)
  BY <1>2, <1>12 DEF Renamed
<1> HIDE DEF Goal
<1> QED BY <1>2, <1>3, <1>4, <1>5, <1>6, <1>7, <1>8, <1>9, <1>10, <1>11, <1>12, Steps

-----------------------------------------------------------------------------
(* Merges, and what is forgotten *)

LEMMA NextMerges ==
  ASSUME IInv, [Next]_vars
  PROVE  MergesInv'
<1>0. /\ TypeOK /\ MergesInv /\ identity \in [Identities -> Rows]
  BY DEF IInv, TypeOK
<1>1. CASE \E s \in Identities, L \in SUBSET Identities : Merged(L, s)
  <2>1. PICK s \in Identities, L \in SUBSET Identities : Merged(L, s)
    BY <1>1
  <2> SUFFICES ASSUME NEW S \in SUBSET Identities, S # {},
                      \A i \in S : identity'[i].state = "MERGED"
               PROVE  \E i \in S : identity'[i].mergedInto \notin S
    BY DEF MergesInv
  <2>2. s \notin S
    BY <2>1 DEF Merged
  <2>3. CASE S \cap L = {}
    <3>1. \A i \in S : identity'[i] = identity[i]
      BY <2>1, <2>2, <2>3 DEF Merged
    <3> QED BY <1>0, <3>1 DEF MergesInv
  <2>4. CASE S \cap L # {}
    BY <2>1, <2>2, <2>4 DEF Merged
  <2> QED BY <2>3, <2>4
<1> DEFINE Same == \A i \in Identities : identity'[i].state = "MERGED" =>
                      /\ identity[i].state = "MERGED"
                      /\ identity'[i].mergedInto = identity[i].mergedInto
<1>2. CASE Same
  <2> SUFFICES ASSUME NEW S \in SUBSET Identities, S # {},
                      \A i \in S : identity'[i].state = "MERGED"
               PROVE  \E i \in S : identity'[i].mergedInto \notin S
    BY DEF MergesInv
  <2>1. PICK i \in S : identity[i].mergedInto \notin S
    BY <1>0, <1>2 DEF MergesInv
  <2> QED BY <1>2, <2>1
<1>3. CASE UNCHANGED identity
  BY <1>0, <1>3 DEF MergesInv
<1>4. ASSUME NEW s \in Sources, NEW D \in SUBSET Faces, NEW B \in SUBSET Faces,
             NEW born \in [B -> Free], Decided(s, D, B, born)
      PROVE  Same
  BY <1>4 DEF Decided
<1>5. ASSUME NEW s \in Sources
      PROVE  (Accepted(s) => Same) /\ (Finished(s) => Same)
  BY DEF Accepted, Finished
<1>6. ASSUME NEW i \in Identities, NEW S \in SUBSET Faces, NEW t \in Identities, Moved(i, S, t)
      PROVE  Same
  BY <1>6 DEF Moved
<1>7. ASSUME NEW f \in Faces, NEW t \in Identities, Resolved(f, t)
      PROVE  Same
  BY <1>7 DEF Resolved
<1>8. ASSUME NEW I \in SUBSET Identities, NEW kin \in SUBSET Identities, Forgot(I, kin)
      PROVE  Same
  BY <1>8 DEF Forgot
<1>9. CASE \/ \E i \in Identities, p \in People \cup {None} : Renamed(i, p)
           \/ \E f \in Faces : Wiped(f)
           \/ \E s \in Sources : Begun(s)
  BY <1>3, <1>9 DEF Renamed, Wiped, Begun
<1> HIDE DEF Same
<1> QED BY <1>1, <1>2, <1>3, <1>4, <1>5, <1>6, <1>7, <1>8, <1>9, Steps

\* What LostInv says of the set that it is about.
Lost(lost) ==
    /\ \A i \in lost : identity[i].state \in {"MERGED", "FORGOTTEN"} /\ Empty(i)
    /\ \A i \in Identities :
          \/ identity[i].state = "FORGOTTEN"
          \/ identity[i].state = "MERGED" /\ identity[i].mergedInto \in lost
          => i \in lost

LEMMA NextLost ==
  ASSUME IInv, [Next]_vars
  PROVE  LostInv'
<1>0. /\ TypeOK /\ RowsInv /\ None \notin Identities
      /\ identity \in [Identities -> Rows] /\ face \in [Faces -> FaceRows]
      /\ \A f \in Faces : Counts(f) => Owned(f)
  BY NoneAssumption, OwnersAre DEF IInv, TypeOK
<1>1. PICK lost \in SUBSET Identities : Lost(lost)
  BY DEF IInv, LostInv, Lost
<1>2. /\ \A f \in Faces : face[f].owner \in Identities \cup {None}
      /\ \A i \in lost : identity[i].state \in {"MERGED", "FORGOTTEN"} /\ identity[i].shows = None
      /\ \A f \in Faces : face[f].owner \in lost =>
            /\ face[f].rep \in {"ERASING", "ERASED"}
            /\ face[f].occ # "ACTIVE" /\ face[f].crop # "KEPT"
      /\ \A i \in Identities :
            \/ identity[i].state = "FORGOTTEN"
            \/ identity[i].state = "MERGED" /\ identity[i].mergedInto \in lost
            => i \in lost
  BY <1>0, <1>1 DEF Lost, Empty, FaceRows
\* It is enough to find a set that fits afterwards.
<1> DEFINE Fits(X) ==
      /\ \A i \in X : identity'[i].state \in {"MERGED", "FORGOTTEN"} /\ identity'[i].shows = None
      /\ \A f \in Faces : face'[f].owner \in X =>
            /\ face'[f].rep \in {"ERASING", "ERASED"}
            /\ face'[f].occ # "ACTIVE" /\ face'[f].crop # "KEPT"
      /\ \A i \in Identities :
            \/ identity'[i].state = "FORGOTTEN"
            \/ identity'[i].state = "MERGED" /\ identity'[i].mergedInto \in X
            => i \in X
<1>3. SUFFICES \E X \in SUBSET Identities : Fits(X)
  BY DEF LostInv, Empty
<1>4. CASE UNCHANGED <<identity, face>>
  BY <1>2, <1>4
<1>5. ASSUME NEW s \in Sources, NEW D \in SUBSET Faces, NEW B \in SUBSET Faces,
             NEW born \in [B -> Free], Decided(s, D, B, born)
      PROVE  Fits(lost)
  <2>1. \A i \in Identities : identity[i].state # "FREE" => identity'[i] = identity[i]
    BY <1>5 DEF Decided
  <2>2. \A f \in D : face'[f].owner \notin lost
    <3>1. \A g \in B : born[g] \in Identities /\ identity[born[g]].state = "FREE"
      BY DEF Free
    <3> QED BY <1>0, <1>2, <1>5, <3>1 DEF Decided, Active
  <2>3. \A f \in Faces \ D : face'[f] = face[f]
    BY <1>5 DEF Decided
  <2>4. \A i \in Identities : identity[i].state = "FREE" =>
           identity'[i].state = "PENDING" \/ identity'[i] = identity[i]
    BY <1>5 DEF Decided
  <2> QED BY <1>2, <2>1, <2>2, <2>3, <2>4
<1>6. ASSUME NEW s \in Sources, Accepted(s)
      PROVE  Fits(lost)
  <2>1. ASSUME NEW f \in run[s] PROVE f \in Faces /\ face'[f].owner \notin lost
    <3>1. f \in Faces /\ face[f].rep = "PENDING" /\ face'[f].owner = face[f].owner
      BY <1>0, <1>6 DEF Accepted, StillValid, TypeOK
    <3> QED BY <1>2, <3>1
  <2>2. \A i \in lost : identity'[i].state = identity[i].state
    <3>1. \A f \in run[s] : face[f].owner \notin lost
      BY <1>6, <2>1 DEF Accepted
    <3> QED BY <1>6, <3>1 DEF Accepted
  <2>3. \A i \in Identities : identity'[i].state \in {"FORGOTTEN", "MERGED"} =>
           identity'[i].state = identity[i].state
    BY <1>6 DEF Accepted
  <2> QED BY <1>2, <1>6, <2>1, <2>2, <2>3 DEF Accepted
<1>7. ASSUME NEW s \in Identities, NEW L \in SUBSET Identities, Merged(L, s)
      PROVE  Fits(lost)
  <2>1. s \notin lost /\ L \cap lost = {}
    BY <1>2, <1>7 DEF Merged, Active
  <2> QED BY <1>2, <1>7, <2>1 DEF Merged
<1>8. ASSUME NEW i \in Identities, NEW S \in SUBSET Faces, NEW t \in Identities, Moved(i, S, t)
      PROVE  Fits(lost)
  <2>1. i \notin lost /\ t \notin lost
    BY <1>2, <1>8 DEF Moved, Active
  <2> QED BY <1>2, <1>8, <2>1 DEF Moved
<1>9. ASSUME NEW f \in Faces, NEW t \in Identities, Resolved(f, t)
      PROVE  Fits(lost)
  <2>1. t \notin lost
    BY <1>2, <1>9 DEF Resolved
  <2> QED BY <1>2, <1>9, <2>1 DEF Resolved
<1>10. ASSUME NEW I \in SUBSET Identities, NEW kin \in SUBSET Identities, Forgot(I, kin)
       PROVE  Fits(lost \cup kin)
  <2>1. \A i \in lost \cup kin :
           identity'[i].state \in {"MERGED", "FORGOTTEN"} /\ identity'[i].shows = None
    BY <1>2, <1>10 DEF Forgot
  <2>2. ASSUME NEW f \in Faces, face'[f].owner \in lost \cup kin
        PROVE  /\ face'[f].rep \in {"ERASING", "ERASED"}
               /\ face'[f].occ # "ACTIVE" /\ face'[f].crop # "KEPT"
    <3>1. CASE face[f].owner \in kin
      <4>1. face'[f].rep \in {"ERASING", "ERASED"} /\ face'[f].crop # "KEPT"
        BY <1>10, <3>1 DEF Forgot
      <4>2. ASSUME face'[f].occ = "ACTIVE" PROVE FALSE
        <5>1. face[f].occ = "ACTIVE" /\ face[f].occOwner \notin I
          BY <1>10, <4>2 DEF Forgot
        <5>2. Owned(f)
          BY <1>0, <5>1 DEF Counts
        <5> QED BY <1>10, <3>1, <5>1, <5>2 DEF Forgot, Owned
      <4> QED BY <4>1, <4>2
    <3>2. CASE face[f].owner \notin kin
      BY <1>2, <1>10, <2>2, <3>2 DEF Forgot
    <3> QED BY <3>1, <3>2
  <2>3. ASSUME NEW i \in Identities,
               \/ identity'[i].state = "FORGOTTEN"
               \/ identity'[i].state = "MERGED" /\ identity'[i].mergedInto \in lost \cup kin
        PROVE  i \in lost \cup kin
    BY <1>2, <1>10, <2>3 DEF Forgot
  <2> QED BY <2>1, <2>2, <2>3
<1>11. ASSUME NEW f \in Faces, Wiped(f)
       PROVE  Fits(lost)
  BY <1>2, <1>11 DEF Wiped
<1>12. ASSUME NEW s \in Sources, Begun(s)
       PROVE  Fits(lost)
  BY <1>2, <1>12 DEF Begun
<1>13. ASSUME NEW s \in Sources, Finished(s)
       PROVE  Fits(lost)
  <2>1. \A i \in lost : identity'[i].state = identity[i].state /\ identity'[i].shows = None
    BY <1>2, <1>13 DEF Finished, Active
  <2>2. \A f \in Faces : f \in Of(s) \/ face'[f] = face[f]
    BY <1>13 DEF Finished
  <2>3. \A f \in Of(s) : face'[f].owner \notin lost
    BY <1>0, <1>13 DEF Finished, Unseen
  <2>4. \A i \in Identities : /\ identity'[i].mergedInto = identity[i].mergedInto
                              /\ identity'[i].state \in {"FORGOTTEN", "MERGED"} =>
                                    identity'[i].state = identity[i].state
    BY <1>13 DEF Finished, Active
  <2> QED BY <1>2, <2>1, <2>2, <2>3, <2>4
<1>14. CASE \E i \in Identities, p \in People \cup {None} : Renamed(i, p)
  BY <1>4, <1>14 DEF Renamed
<1>15. lost \in SUBSET Identities /\ \A kin \in SUBSET Identities : lost \cup kin \in SUBSET Identities
  OBVIOUS
<1> HIDE DEF Fits
<1> QED BY <1>4, <1>5, <1>6, <1>7, <1>8, <1>9, <1>10, <1>11, <1>12, <1>13, <1>14, <1>15, Steps

-----------------------------------------------------------------------------
(* What a client saw *)

\* The identities that existed when somebody could look at them.
Settled(i) == identity[i].state \notin {"FREE", "PENDING"}

\* A step that tells the clients of the identities I, and leaves the others as they were.
Keeps(I) ==
    /\ Told(I)
    /\ \A i \in Identities : Settled(i) => Settled(i)'
    /\ \A i \in Identities \ I : Settled(i) /\ identity'[i].state = "ACTIVE" =>
          /\ identity[i].state = "ACTIVE" /\ link'[i] = link[i]
          /\ \A f \in Faces : (face'[f].occ = "ACTIVE" /\ face'[f].occOwner = i)
                              <=> (face[f].occ = "ACTIVE" /\ face[f].occOwner = i)

LEMMA ViewKept ==
  ASSUME TypeOK, ViewInv, NEW I, Keeps(I)
  PROVE  ViewInv'
<1>1. /\ view.current => view.of \in Identities /\ Settled(view.of)
      /\ view.current /\ identity[view.of].state = "ACTIVE" =>
            OccurrencesOf(view.of) = view.faces /\ link[view.of] = view.person
  BY DEF ViewInv, CurrentViewsAreTrue, Settled, Active
<1>2. view'.current => view' = view /\ view.of \notin I
  BY ToldIs DEF TypeOK, ViewType, Keeps
<1>3. ASSUME view'.current
      PROVE  /\ view'.of \in Identities /\ Settled(view.of)' /\ view' = view
             /\ identity'[view.of].state = "ACTIVE" =>
                  /\ identity[view.of].state = "ACTIVE" /\ link'[view.of] = link[view.of]
                  /\ OccurrencesOf(view.of)' = OccurrencesOf(view.of)
  <2> DEFINE v == view.of
  <2>1. v \in Identities \ I /\ Settled(v) /\ view' = view
    BY <1>1, <1>2, <1>3
  <2>2. Settled(v)'
    BY <2>1 DEF Keeps, Settled
  <2>3. ASSUME identity'[v].state = "ACTIVE"
        PROVE  /\ identity[v].state = "ACTIVE" /\ link'[v] = link[v]
               /\ {f \in Faces : face'[f].occ = "ACTIVE" /\ face'[f].occOwner = v}
                  = {f \in Faces : face[f].occ = "ACTIVE" /\ face[f].occOwner = v}
    BY <2>1, <2>3 DEF Keeps
  <2> QED BY <2>1, <2>2, <2>3 DEF OccurrencesOf
<1> QED BY <1>1, <1>2, <1>3 DEF ViewInv, CurrentViewsAreTrue, Settled, Active

LEMMA NextViews ==
  ASSUME IInv, [Next]_vars
  PROVE  ViewInv'
<1>0. /\ TypeOK /\ RowsInv /\ ViewInv /\ view \in ViewType /\ None \notin Identities
      /\ identity \in [Identities -> Rows] /\ face \in [Faces -> FaceRows]
      /\ \A f \in Faces : Counts(f) => Owned(f)
  BY NoneAssumption, OwnersAre DEF IInv, TypeOK, ViewType
<1>1. \A f \in Faces : face[f].rep # "ACTIVE" => face[f].occ # "ACTIVE"
  BY <1>0 DEF Counts, Owned
<1>2. CASE /\ UNCHANGED <<identity, face, link, people, source>>
           /\ \/ UNCHANGED <<run, view>>
              \/ \E s \in Sources : RunEnds(s)
              \/ \E i \in Identities : Look(i)
  <2>1. CASE UNCHANGED view
    BY <1>0, <1>2, <2>1 DEF ViewInv, CurrentViewsAreTrue, OccurrencesOf, Active
  <2>2. ASSUME NEW i \in Identities, Look(i) PROVE ViewInv'
    <3>1. /\ view'.of = i /\ view'.faces = OccurrencesOf(i) /\ view'.person = link[i]
          /\ identity[i].state = "ACTIVE"
      BY <2>2 DEF Look, Active
    <3> QED BY <1>2, <3>1 DEF ViewInv, CurrentViewsAreTrue, OccurrencesOf, Active
  <2> QED BY <1>2, <2>1, <2>2 DEF RunEnds
<1>3. ASSUME NEW s \in Sources, NEW D \in SUBSET Faces, NEW B \in SUBSET Faces,
             NEW born \in [B -> Free], Decided(s, D, B, born)
      PROVE  Keeps({})
  <2>1. \A i \in Identities : Settled(i) => identity'[i] = identity[i] /\ link'[i] = link[i]
    BY <1>3 DEF Decided, Settled
  <2>2. \A f \in D : face[f].occ # "ACTIVE" /\ face'[f].occ # "ACTIVE"
    BY <1>1, <1>3 DEF Decided
  <2>3. Told({}) /\ \A f \in Faces \ D : face'[f] = face[f]
    BY <1>3 DEF Decided, Told
  <2> QED BY <2>1, <2>2, <2>3 DEF Keeps, Settled
<1>4. ASSUME NEW s \in Sources, Accepted(s)
      PROVE  Keeps({face[f].owner : f \in run[s]} \ {None})
  <2> DEFINE I == {face[f].owner : f \in run[s]} \ {None}
  <2>1. Told(I)
    BY <1>4 DEF Accepted, Touch, Told
  <2>2. \A i \in Identities : Settled(i) => Settled(i)'
    BY <1>4 DEF Accepted, Settled
  <2>3. ASSUME NEW i \in Identities \ I
        PROVE  /\ identity'[i].state = identity[i].state /\ link'[i] = link[i]
               /\ \A f \in run[s] : face[f].owner # i
    BY <1>0, <1>4, <2>3 DEF Accepted
  <2>4. ASSUME NEW i \in Identities \ I, NEW f \in Faces
        PROVE  (face'[f].occ = "ACTIVE" /\ face'[f].occOwner = i)
               <=> (face[f].occ = "ACTIVE" /\ face[f].occOwner = i)
    <3>1. CASE f \in run[s]
      <4>1. face[f].rep = "PENDING" /\ face[f].owner # i
        BY <1>4, <2>3, <3>1 DEF Accepted, StillValid
      <4> QED BY <1>1, <1>4, <3>1, <4>1 DEF Accepted
    <3>2. CASE f \notin run[s]
      BY <1>4, <3>2 DEF Accepted
    <3> QED BY <3>1, <3>2
  <2> HIDE DEF I
  <2>5. Keeps(I)
    BY <2>1, <2>2, <2>3, <2>4 DEF Keeps
  <2> QED BY <2>5 DEF I
<1>5. ASSUME NEW s \in Identities, NEW L \in SUBSET Identities, Merged(L, s)
      PROVE  Keeps(L \cup {s})
  <2>1. Told(L \cup {s})
    BY <1>5 DEF Merged, Touch, Told
  <2>2. \A i \in Identities : Settled(i) => Settled(i)'
    BY <1>5 DEF Merged, Settled
  <2> QED BY <1>5, <2>1, <2>2 DEF Merged, Keeps
<1>6. ASSUME NEW i \in Identities, NEW S \in SUBSET Faces, NEW t \in Identities, Moved(i, S, t)
      PROVE  Keeps({j \in {i, t} : Active(j)})
  <2> DEFINE I == {j \in {i, t} : Active(j)}
  <2>1. Told(I)
    BY <1>6 DEF Moved
  <2>2. \A j \in Identities : Settled(j) => Settled(j)'
    BY <1>6 DEF Moved, Settled
  <2>3. ASSUME NEW j \in Identities \ I, Settled(j)
        PROVE  /\ j \notin {i, t} /\ identity'[j] = identity[j] /\ link'[j] = link[j]
               /\ \A f \in Faces : (face'[f].occ = "ACTIVE" /\ face'[f].occOwner = j)
                                   <=> (face[f].occ = "ACTIVE" /\ face[f].occOwner = j)
    <3>1. j \notin {i, t}
      BY <1>6, <2>3 DEF Moved, Settled, Active
    <3> QED BY <1>6, <3>1 DEF Moved
  <2> HIDE DEF I
  <2>4. Keeps(I)
    BY <2>1, <2>2, <2>3 DEF Keeps
  <2> QED BY <2>4 DEF I
<1>7. ASSUME NEW f \in Faces, NEW t \in Identities, Resolved(f, t)
      PROVE  Keeps({t})
  <2>1. \A j \in Identities : Settled(j) => Settled(j)'
    BY <1>7 DEF Resolved, Settled
  <2> QED BY <1>7, <2>1 DEF Resolved, Keeps
<1>8. ASSUME NEW I \in SUBSET Identities, NEW kin \in SUBSET Identities, Forgot(I, kin)
      PROVE  Keeps(I)
  <2>1. \A j \in Identities : Settled(j) => Settled(j)'
    BY <1>8 DEF Forgot, Settled
  <2> QED BY <1>8, <2>1 DEF Forgot, Keeps
<1>9. ASSUME NEW i \in Identities, NEW p \in People \cup {None}, Renamed(i, p)
      PROVE  Keeps({i})
  BY <1>9 DEF Renamed, Keeps, Settled
<1>10. ASSUME NEW f \in Faces, Wiped(f)
       PROVE  Keeps({})
  BY <1>10 DEF Wiped, Keeps, Settled, Told
<1>11. ASSUME NEW s \in Sources, Begun(s)
       PROVE  Keeps({face[f].occOwner : f \in {g \in Of(s) : Active(face[g].occOwner)}} \ {None})
  <2> DEFINE I == {face[f].occOwner : f \in {g \in Of(s) : Active(face[g].occOwner)}} \ {None}
  <2>1. Told(I)
    BY <1>11 DEF Begun
  <2>2. UNCHANGED <<identity, link>>
    BY <1>11 DEF Begun
  <2>3. ASSUME NEW i \in Identities \ I, identity[i].state = "ACTIVE", NEW f \in Faces
        PROVE  (face'[f].occ = "ACTIVE" /\ face'[f].occOwner = i)
               <=> (face[f].occ = "ACTIVE" /\ face[f].occOwner = i)
    <3>1. CASE f \in Of(s)
      <4>1. face[f].occOwner # i
        BY <1>0, <2>3, <3>1 DEF Active
      <4> QED BY <1>11, <3>1, <4>1 DEF Begun
    <3>2. CASE f \notin Of(s)
      BY <1>11, <3>2 DEF Begun
    <3> QED BY <3>1, <3>2
  <2> HIDE DEF I
  <2>4. Keeps(I)
    BY <2>1, <2>2, <2>3 DEF Keeps, Settled
  <2> QED BY <2>4 DEF I
<1>12. ASSUME NEW s \in Sources, Finished(s)
       PROVE  Keeps({})
  <2>1. \A f \in Of(s) : face[f].occ # "ACTIVE" /\ face'[f].occ # "ACTIVE"
    BY <1>1, <1>12 DEF Finished, Unseen, Of
  <2>2. \A j \in Identities : Settled(j) => Settled(j)'
    BY <1>12 DEF Finished, Settled
  <2>3. \A j \in Identities : identity'[j].state = "ACTIVE" => identity[j].state = "ACTIVE"
    BY <1>12 DEF Finished, Active
  <2> QED BY <1>12, <2>1, <2>2, <2>3 DEF Finished, Keeps
<1> QED BY <1>0, <1>2, <1>3, <1>4, <1>5, <1>6, <1>7, <1>8, <1>9, <1>10, <1>11, <1>12,
           Steps, ViewKept

-----------------------------------------------------------------------------
(* The theorems *)

LEMMA InitHolds ==
  ASSUME Init
  PROVE  IInv
<1>1. TypeOK
  BY DEF Init, TypeOK, Rows, FaceRows, IdentityStates, Unborn, Unseen, NoView
<1>2. RowsInv
  BY DEF Init, RowsInv, Unborn, Unseen
<1>3. OwnersAgree
  BY DEF Init, OwnersAgree, Unseen
<1>4. LinkInv
  BY DEF Init, LinkInv
<1>5. ShowsInv
  BY DEF Init, ShowsInv, Active, Unborn, Unseen
<1>6. MergesInv
  BY DEF Init, MergesInv, Unborn
<1>7. LostInv
  <2>1. \A i \in Identities : identity[i].state = "FREE"
    BY DEF Init, Unborn
  <2>2. {} \in SUBSET Identities
    OBVIOUS
  <2> QED BY <2>1, <2>2 DEF LostInv
<1>8. ViewInv
  BY DEF Init, ViewInv, CurrentViewsAreTrue, NoView
<1> QED BY <1>1, <1>2, <1>3, <1>4, <1>5, <1>6, <1>7, <1>8 DEF IInv

LEMMA NextHolds ==
  ASSUME IInv, [Next]_vars
  PROVE  IInv'
BY NextTypes, NextRows, NextOwners, NextLinks, NextShows, NextMerges, NextLost, NextViews DEF IInv

\* The inductive invariant holds of every behaviour: recognition, corrections, forgetting and
\* the deletion of sources keep the rows of identities, faces and people in step with each other.
THEOREM Invariant == Spec => []IInv
<1>1. Init => IInv
  BY InitHolds
<1>2. IInv /\ [Next]_vars => IInv'
  BY NextHolds
<1> QED BY <1>1, <1>2, PTL DEF Spec

\* Every variable holds rows of its table.
THEOREM TypesAreKept == Spec => []TypeOK
<1>1. IInv => TypeOK
  BY DEF IInv
<1> QED BY <1>1, Invariant, PTL

\* A face that counts belongs to one identity by its occurrence and by its representation, and
\* that identity is ACTIVE: merging, splitting, correcting, forgetting and deleting in separate
\* transactions never leave the two rows with different owners.
THEOREM FacesHaveOneOwner == Spec => []OwnersAgree
<1>1. IInv => OwnersAgree
  BY DEF IInv
<1> QED BY <1>1, Invariant, PTL

\* A person belongs to an ACTIVE identity, and whoever follows the merges from an identity, as
\* recognition does with the candidates of an older search, comes to one that was not merged: no
\* sequence of merges, splits and corrections closes a cycle.
THEOREM MergesLeadSomewhere == Spec => []MergesEnd
<1>1. IInv => MergesEnd
  <2>1. ASSUME IInv PROVE \A i \in Identities : identity[EndOf(i)].state # "MERGED"
    BY <2>1, EndOfMerges DEF IInv
  <2> QED BY <2>1 DEF MergesEnd, IInv, LinkInv
<1> QED BY <1>1, Invariant, PTL

\* The face an ACTIVE identity shows is one of its own, unless the source of that face is being
\* deleted: every operation that takes a face away gives the identity another, or none.
THEOREM FacesShownAreOwned == Spec => []ShowsItsOwn
<1>1. IInv => ShowsItsOwn
  BY DEF IInv, ShowsInv, ShowsItsOwn
<1> QED BY <1>1, Invariant, PTL

\* Once an identity is forgotten, no vector, crop or occurrence of it, or of any identity that was
\* ever merged into it, directly or not, is in use, and none of them shows a face.
THEOREM NothingForgottenIsKept == Spec => []ForgottenLeavesNothing
<1>1. ASSUME IInv PROVE ForgottenLeavesNothing
  <2>0. TypeOK /\ RowsInv /\ MergesInv
    BY <1>1 DEF IInv
  <2>1. PICK lost \in SUBSET Identities : Lost(lost)
    BY <1>1 DEF IInv, LostInv, Lost
  <2>2. ASSUME NEW i \in Identities, identity[EndOf(i)].state = "FORGOTTEN"
        PROVE  Empty(i)
    <3>1. EndOf(i) \in lost
      BY <2>0, <2>1, <2>2, EndOfMerges DEF Lost
    <3>2. i \in lost
      BY <2>0, <2>1, <3>1, EndOfMerges DEF Lost
    <3> QED BY <2>1, <3>2 DEF Lost
  <2> QED BY <2>2 DEF ForgottenLeavesNothing, Empty
<1> QED BY <1>1, Invariant, PTL

\* A revision that is still the current one speaks of the faces and the person that its reader saw:
\* the optimistic lock of merge, split and forget is never passed after an unseen change.
THEOREM RevisionsTellTheTruth == Spec => []CurrentViewsAreTrue
<1>1. IInv => CurrentViewsAreTrue
  BY DEF IInv, ViewInv
<1> QED BY <1>1, Invariant, PTL
=============================================================================
