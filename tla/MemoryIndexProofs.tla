--------------------------- MODULE MemoryIndexProofs ---------------------------
(***************************************************************************)
(* Proofs about MemoryIndex: what is erased is in no index file and, while *)
(* the write-ahead log may hold it, recorded as owed; an erasure that      *)
(* reports itself complete is; what is searched covers what was accepted.  *)
(* They hold for any number of vectors, of callers, of tries, any batch    *)
(* size, and whatever fails.  And where nothing outside the program fails, *)
(* whatever is killed, an erasure that returns is complete and a start     *)
(* finishes those of an earlier process.                                   *)
(*                                                                         *)
(* The inductive invariant IInv has a part for each thing that the code    *)
(* relies on without checking it: what a row implies about its operations  *)
(* (RowsInv), what an applied or claimed removal implies about the files   *)
(* (FilesInv, PurgeInv, ClearInv), what an applied addition implies        *)
(* (CoverInv), who holds the lock (LockInv), what a marker read earlier    *)
(* still says (LogInv) and what a call has found so far (ReportInv).       *)
(* CalmInv adds to it what holds while nothing has failed: every removal   *)
(* that is needed is due or applied, a pass leaves out nothing it claimed, *)
(* and how far each erasure and a start have come (Advances and            *)
(* StartAdvances).                                                         *)
(***************************************************************************)
EXTENDS MemoryIndex, FiniteSetTheorems, WellFoundedInduction, TLAPS

-----------------------------------------------------------------------------
(* Sequences of operations *)

\* A set of numbers has a least one.
LEMMA Least == ASSUME NEW S \in SUBSET Nat, S # {}
  PROVE \E x \in S : \A y \in S : x <= y
<1>1. \E x \in S : \A y \in S : ~ (<<y, x>> \in OpToRel(<,Nat))
  BY WFMin, NatLessThanWellFounded
<1>2. ASSUME NEW x \in S, NEW y \in S, <<y,x>> \notin OpToRel(<,Nat) PROVE x <= y
  BY <1>2 DEF OpToRel
<1> QED BY <1>1, <1>2

\* Induction, of a set: the library's theorem takes an operator, which no installed
\* prover can instantiate.
LEMMA SetInduction ==
  ASSUME NEW S \in SUBSET Nat, 0 \in S, \A n \in S : n + 1 \in S
  PROVE  S = Nat
<1>1. SUFFICES ASSUME Nat \ S # {} PROVE FALSE
  OBVIOUS
<1>2. PICK x \in Nat \ S : \A y \in Nat \ S : x <= y
  BY <1>1, Least
<1>3. x # 0 /\ x - 1 \in Nat
  BY <1>2
<1>4. x - 1 \in S
  BY <1>2, <1>3
<1>5. (x - 1) + 1 \in S
  BY <1>4
<1> QED BY <1>2, <1>3, <1>5

\* Nothing is in a sequence twice.
Once(q) == \A i, j \in DOMAIN q : q[i] = q[j] => i = j

\* What Kept's recursive definition says: the function that it defines does exist.
LEMMA KeptUnfolds ==
  ASSUME NEW A, NEW seq \in Seq(A), NEW some
  PROVE  \E k : /\ k[0] = << >>
                /\ \A n \in 1..Len(seq) :
                      k[n] = IF seq[n] \in some THEN Append(k[n - 1], seq[n]) ELSE k[n - 1]
                /\ Kept(seq, some) = k[Len(seq)]
<1> DEFINE N == Len(seq)
           Unfold(k, n) == IF n = 0 THEN << >>
                           ELSE IF seq[n] \in some THEN Append(k[n - 1], seq[n]) ELSE k[n - 1]
           Good(k, n) == k = [m \in 0..n |-> Unfold(k, m)]
           S == {n \in Nat : n <= N => \E k : Good(k, n)}
<1>1. N \in Nat
  OBVIOUS
<1>2. 0 \in S
  <2> DEFINE k == [m \in 0..0 |-> << >>]
  <2>1. \A m \in 0..0 : m = 0
    OBVIOUS
  <2>2. Good(k, 0)
    BY <2>1
  <2> QED BY <2>2
<1>3. ASSUME NEW n \in S PROVE n + 1 \in S
  <2>1. n \in Nat /\ n + 1 \in Nat
    OBVIOUS
  <2>2. SUFFICES ASSUME n + 1 <= N PROVE \E k : Good(k, n + 1)
    BY <2>1
  <2>3. PICK k : Good(k, n)
    <3> HIDE DEF Good, N
    <3> QED BY <1>1, <2>1, <2>2
  <2> DEFINE last == Unfold(k, n + 1)
             g == [m \in 0..(n + 1) |-> IF m = n + 1 THEN last ELSE k[m]]
  <2>4. (n + 1) - 1 = n /\ n + 1 # 0 /\ n \in 0..n
    BY <2>1
  <2>5. \A m \in 0..n : g[m] = k[m] /\ g[m] = Unfold(g, m)
    <3> TAKE m \in 0..n
    <3>1. g[m] = k[m]
      BY <2>1
    <3>2. m # 0 => m - 1 \in 0..n /\ g[m - 1] = k[m - 1]
      BY <2>1
    <3>3. k[m] = Unfold(k, m)
      BY <2>3
    <3> QED BY <3>1, <3>2, <3>3
  <2>6. g[n + 1] = Unfold(g, n + 1)
    BY <2>1, <2>4, <2>5
  <2>7. \A m \in 0..(n + 1) : m \in 0..n \/ m = n + 1
    BY <2>1
  <2>8. \A m \in 0..(n + 1) : g[m] = Unfold(g, m)
    <3> HIDE DEF g, last, Unfold
    <3> QED BY <2>5, <2>6, <2>7
  <2>9. g = [m \in 0..(n + 1) |-> g[m]]
    OBVIOUS
  <2>10. Good(g, n + 1)
    <3> HIDE DEF g, Unfold
    <3> QED BY <2>8, <2>9
  <2> QED BY <2>10
<1>4. N \in S
  BY <1>1, <1>2, <1>3, SetInduction
<1> DEFINE f == CHOOSE k : k = [m \in 0..N |-> Unfold(k, m)]
<1>5. \E k : Good(k, N)
  <2> HIDE DEF Good, N
  <2> QED BY <1>1, <1>4
<1>6. f = [m \in 0..N |-> Unfold(f, m)]
  BY <1>5
<1>7. Kept(seq, some) = f[N]
  BY DEF Kept
<1>8. \A n \in 0..N : f[n] = Unfold(f, n)
  <2> HIDE DEF f
  <2> QED BY <1>6
<1>9. f[0] = << >>
  <2> HIDE DEF f
  <2> QED BY <1>1, <1>8
<1>10. \A n \in 1..N : f[n] = IF seq[n] \in some THEN Append(f[n - 1], seq[n]) ELSE f[n - 1]
  <2> HIDE DEF f
  <2> QED BY <1>1, <1>8
<1> QED BY <1>7, <1>9, <1>10

\* Kept takes of a sequence just what is in the set; nothing comes later than it was,
\* and what was there once still is.
LEMMA KeptIn ==
  ASSUME NEW A, NEW seq \in Seq(A), NEW some
  PROVE  /\ Kept(seq, some) \in Seq(A)
         /\ ToSet(Kept(seq, some)) = ToSet(seq) \cap some
         /\ \A i \in DOMAIN seq : seq[i] \in some =>
               \E j \in DOMAIN Kept(seq, some) : j <= i /\ Kept(seq, some)[j] = seq[i]
         /\ Once(seq) => Once(Kept(seq, some))
<1>1. PICK k : /\ k[0] = << >>
               /\ \A n \in 1..Len(seq) :
                     k[n] = IF seq[n] \in some THEN Append(k[n - 1], seq[n]) ELSE k[n - 1]
               /\ Kept(seq, some) = k[Len(seq)]
  BY KeptUnfolds
<1> DEFINE N == Len(seq)
           Holds(q, n) ==
              /\ q \in Seq(A) /\ Len(q) <= n
              /\ ToSet(q) = {seq[i] : i \in 1..n} \cap some
              /\ \A i \in 1..n : seq[i] \in some => \E j \in DOMAIN q : j <= i /\ q[j] = seq[i]
              /\ Once(seq) => Once(q)
           S == {n \in Nat : n <= N => Holds(k[n], n)}
<1>2. N \in Nat /\ seq \in [1..N -> A]
  OBVIOUS
<1>3. 0 \in S
  <2>1. Holds(<< >>, 0)
    BY DEF ToSet, Once
  <2> HIDE DEF Holds
  <2> QED BY <1>1, <2>1
<1>4. ASSUME NEW n \in S PROVE n + 1 \in S
  <2>1. n \in Nat /\ n + 1 \in Nat
    OBVIOUS
  <2>2. SUFFICES ASSUME n + 1 <= N PROVE Holds(k[n + 1], n + 1)
    BY <2>1
  <2>3. PICK q : q = k[n]
    OBVIOUS
  <2>4. Holds(q, n)
    <3> HIDE DEF Holds
    <3> QED BY <1>2, <2>1, <2>2, <2>3
  <2>5. n + 1 \in 1..N /\ (n + 1) - 1 = n /\ seq[n + 1] \in A
    BY <1>2, <2>1, <2>2
  <2>6. k[n + 1] = IF seq[n + 1] \in some THEN Append(q, seq[n + 1]) ELSE q
    BY <1>1, <2>3, <2>5
  <2>7. PICK x : x = seq[n + 1]
    OBVIOUS
  <2>8. {seq[i] : i \in 1..(n + 1)} = {seq[i] : i \in 1..n} \cup {x}
    BY <2>1, <2>7
  <2>9. \A i \in 1..(n + 1) : i \in 1..n \/ i = n + 1
    BY <2>1
  <2>10. CASE x \notin some
    <3>1. k[n + 1] = q
      BY <2>6, <2>7, <2>10
    <3>2. \A i \in 1..(n + 1) : seq[i] \in some => \E j \in DOMAIN q : j <= i /\ q[j] = seq[i]
      BY <2>4, <2>7, <2>9, <2>10
    <3>3. q \in Seq(A) /\ Len(q) <= n + 1
      BY <2>1, <2>4
    <3>4. ToSet(q) = {seq[i] : i \in 1..(n + 1)} \cap some /\ (Once(seq) => Once(q))
      BY <2>4, <2>8, <2>10
    <3>5. Holds(q, n + 1)
      BY <3>2, <3>3, <3>4
    <3> HIDE DEF Holds
    <3> QED BY <3>1, <3>5
  <2>11. CASE x \in some
    <3>1. PICK p : p = Append(q, x)
      OBVIOUS
    <3>2. k[n + 1] = p
      BY <2>6, <2>7, <2>11, <3>1
    <3>3. q \in Seq(A) /\ x \in A /\ Len(q) <= n
      BY <2>4, <2>5, <2>7
    <3>4. /\ p \in Seq(A) /\ Len(p) = Len(q) + 1 /\ p[Len(q) + 1] = x
          /\ \A j \in DOMAIN q : j \in DOMAIN p /\ p[j] = q[j]
          /\ Len(q) + 1 \in DOMAIN p
          /\ \A j \in DOMAIN p : j \in DOMAIN q \/ j = Len(q) + 1
      BY <3>1, <3>3
    <3>5. Len(p) <= n + 1 /\ Len(q) + 1 <= n + 1
      BY <2>1, <3>3, <3>4
    <3>6. ToSet(p) = ToSet(q) \cup {x}
      BY <3>4 DEF ToSet
    <3>7. ToSet(p) = {seq[i] : i \in 1..(n + 1)} \cap some
      BY <2>4, <2>8, <2>11, <3>6
    <3>8. \A i \in 1..(n + 1) : seq[i] \in some => \E j \in DOMAIN p : j <= i /\ p[j] = seq[i]
      <4> TAKE i \in 1..(n + 1)
      <4>1. CASE i \in 1..n
        BY <2>4, <3>4, <4>1
      <4>2. CASE i = n + 1
        BY <2>7, <3>4, <3>5, <4>2
      <4> QED BY <2>9, <4>1, <4>2
    <3>9. ASSUME Once(seq) PROVE Once(p)
      <4>1. Once(q)
        BY <2>4, <3>9
      <4>2. \A i \in 1..n : seq[i] # x
        BY <1>2, <2>1, <2>2, <2>7, <3>9 DEF Once
      <4>3. x \notin ToSet(q)
        BY <2>4, <4>2
      <4>4. \A j \in DOMAIN q : q[j] # x
        BY <4>3 DEF ToSet
      <4> QED BY <3>4, <4>1, <4>4 DEF Once
    <3>10. Holds(p, n + 1)
      BY <3>4, <3>5, <3>7, <3>8, <3>9
    <3> HIDE DEF Holds
    <3> QED BY <3>2, <3>10
  <2> QED BY <2>10, <2>11
<1>5. N \in S
  BY <1>2, <1>3, <1>4, SetInduction
<1>6. Holds(Kept(seq, some), N)
  <2> HIDE DEF Holds
  <2> QED BY <1>1, <1>2, <1>5
<1>7. ToSet(seq) = {seq[i] : i \in 1..N} /\ DOMAIN seq = 1..N
  BY <1>2 DEF ToSet
<1> QED BY <1>6, <1>7

\* Two sequences, one after the other.
LEMMA Joined ==
  ASSUME NEW A, NEW a \in Seq(A), NEW b \in Seq(A)
  PROVE  /\ a \o b \in Seq(A)
         /\ ToSet(a \o b) = ToSet(a) \cup ToSet(b)
<1> DEFINE c == a \o b
<1>1. c \in Seq(A) /\ Len(c) = Len(a) + Len(b)
  OBVIOUS
<1>2. \A i \in DOMAIN c : c[i] \in ToSet(a) \cup ToSet(b)
  <2> TAKE i \in DOMAIN c
  <2>1. CASE i <= Len(a)
    BY <2>1 DEF ToSet
  <2>2. CASE i > Len(a)
    <3>1. i - Len(a) \in DOMAIN b /\ c[i] = b[i - Len(a)]
      BY <2>2
    <3> QED BY <3>1 DEF ToSet
  <2> QED BY <2>1, <2>2
<1>3. \A i \in DOMAIN a : i \in DOMAIN c /\ c[i] = a[i]
  OBVIOUS
<1>4. \A i \in DOMAIN b : i + Len(a) \in DOMAIN c /\ c[i + Len(a)] = b[i]
  OBVIOUS
<1> HIDE DEF c
<1>5. ToSet(c) = ToSet(a) \cup ToSet(b)
  BY <1>2, <1>3, <1>4 DEF ToSet
<1> QED BY <1>1, <1>5 DEF c

\* One more at the end.
LEMMA OneMore ==
  ASSUME NEW A, NEW a \in Seq(A), NEW x \in A
  PROVE  /\ Append(a, x) \in Seq(A)
         /\ ToSet(Append(a, x)) = ToSet(a) \cup {x}
<1> DEFINE c == Append(a, x)
<1>1. c \in Seq(A) /\ Len(c) = Len(a) + 1 /\ c[Len(a) + 1] = x
  OBVIOUS
<1>2. \A i \in DOMAIN a : i \in DOMAIN c /\ c[i] = a[i]
  OBVIOUS
<1>3. \A i \in DOMAIN c : i \in DOMAIN a \/ i = Len(a) + 1
  OBVIOUS
<1>4. Len(a) + 1 \in DOMAIN c
  OBVIOUS
<1> HIDE DEF c
<1>5. ToSet(c) = ToSet(a) \cup {x}
  BY <1>1, <1>2, <1>3, <1>4 DEF ToSet
<1> QED BY <1>1, <1>5 DEF c

\* An order of a finite set holds its members and nothing else.
LEMMA OrderOf ==
  ASSUME NEW S, IsFiniteSet(S), NEW order \in SetToSeqs(S)
  PROVE  order \in Seq(S) /\ ToSet(order) = S
<1> DEFINE D == 1..Cardinality(S)
<1>1. Cardinality(S) \in Nat
  BY FS_CardinalityType
<1>2. order \in [D -> S] /\ \A i, j \in D : i # j => order[i] # order[j]
  BY DEF SetToSeqs
<1>3. order \in Seq(S)
  BY <1>1, <1>2
<1>4. order \in Injection(D, S)
  BY <1>2 DEF Injection, IsInjective
<1>5. Cardinality(D) = Cardinality(S)
  BY <1>1, FS_Interval
<1>6. order \in Surjection(D, S)
  BY <1>4, <1>5, FS_Injection
<1>7. ToSet(order) = S
  BY <1>2, <1>6 DEF Surjection, ToSet
<1> QED BY <1>3, <1>7

LEMMA OpIsFinite == IsFiniteSet(Op)
<1>1. {"ADD", "REMOVE"} = {"ADD"} \cup {"REMOVE"}
  OBVIOUS
<1>2. IsFiniteSet({"ADD"}) /\ IsFiniteSet({"REMOVE"})
  BY FS_Singleton
<1>3. IsFiniteSet({"ADD", "REMOVE"})
  BY <1>1, <1>2, FS_Union
<1> QED BY <1>3, FS_Product, MemoryAssumption DEF Op

\* What is left of the queue.
LEMMA WithoutIn ==
  ASSUME NEW some, queue \in Seq(Op)
  PROVE  /\ Without(some) \in Seq(Op)
         /\ ToSet(Without(some)) = ToSet(queue) \ some
<1>1. ToSet(queue) \subseteq Op
  BY DEF ToSet
<1> QED BY <1>1, KeptIn DEF Without

\* What append_batch leaves: what was there of other representations, and what is new.
LEMMA AppendedIn ==
  ASSUME NEW new \in SUBSET Op, NEW q \in Appended(new), queue \in Seq(Op)
  PROVE  /\ q \in Seq(Op)
         /\ ToSet(q) = {op \in ToSet(queue) : \A n \in new : n[1] # op[1]} \cup new
<1> DEFINE gone == {op \in Op : \E n \in new : n[1] = op[1]}
<1>1. PICK order \in SetToSeqs(new) : q = Without(gone) \o order
  BY DEF Appended
<1>2. IsFiniteSet(new)
  BY OpIsFinite, FS_Subset
<1>3. order \in Seq(new) /\ ToSet(order) = new
  BY <1>2, OrderOf
<1>4. order \in Seq(Op)
  BY <1>3
<1>5. Without(gone) \in Seq(Op) /\ ToSet(Without(gone)) = ToSet(queue) \ gone
  BY WithoutIn
<1>6. q \in Seq(Op) /\ ToSet(q) = (ToSet(queue) \ gone) \cup new
  <2> HIDE DEF gone
  <2>1. q \in Seq(Op) /\ ToSet(q) = ToSet(Without(gone)) \cup ToSet(order)
    BY <1>1, <1>4, <1>5, Joined
  <2> QED BY <2>1, <1>3, <1>5
<1>7. ToSet(queue) \subseteq Op
  BY DEF ToSet
<1> QED BY <1>6, <1>7

-----------------------------------------------------------------------------
(* The inductive invariant *)

Known == Pending \cup applied \cup failed \cup ToSet(pass.claimed)
Gone(r) == rep[r] \in {"ERASING", "ERASED"}

\* What the row of a representation implies about its operations, and the reverse.
RowsInv ==
    /\ \A r \in Rep : rep[r] = "ACTIVE" => r \in keyed
    /\ \A r \in Rep : rep[r] \in {"PENDING", "ERASED"} => r \notin keyed
    /\ \A r \in Rep : <<r, "REMOVE">> \in Known => Gone(r)
    /\ \A r \in Rep : <<r, "ADD">> \in Known => rep[r] # "PENDING"
    /\ \A r \in Rep : rep[r] = "ACTIVE" => <<r, "ADD">> \in Pending \cup applied \cup failed
    /\ \A op \in Pending : tries[op] < MaxTries
    /\ \A r \in Rep : rep[r] = "PENDING" => tries[<<r, "ADD">>] = 0

\* Files, and what a pass holds in memory, have vectors with a key only; none of those
\* whose removal is applied, but for quarantined files.
FilesInv ==
    /\ live.keys \subseteq keyed /\ pass.mem \subseteq keyed
    /\ \A file \in stale \cup quarantined : file \subseteq keyed
    /\ \A r \in Rep : <<r, "REMOVE">> \in applied =>
          r \notin live.keys /\ r \notin pass.mem /\ \A file \in stale : r \notin file

\* A claimed removal is carried out by a rebuild, before it may be settled as applied.
PurgeInv ==
    \A r \in Rep : <<r, "REMOVE">> \in ToSet(pass.claimed) =>
        /\ ~pass.validate
        /\ pass.step = "open" => ~pass.rebuilt /\ pass.ok = {}
        /\ <<r, "REMOVE">> \in pass.ok => pass.purge
        /\ pass.rebuilt /\ pass.step \in {"write", "publish", "apply", "retired"} =>
              r \notin pass.mem
        /\ pass.rebuilt /\ pass.step \in {"apply", "retired"} => r \notin live.keys
        /\ pass.step = "retired" /\ <<r, "REMOVE">> \in pass.ok => pass.rebuilt
        /\ pass.step = "settle" /\ <<r, "REMOVE">> \in pass.ok =>
              r \notin live.keys /\ r \notin pass.mem /\ \A file \in stale : r \notin file

\* What is about to be cleared is in no file.
ClearInv ==
    \A t \in Thread : At(t, "clear") => \A r \in thread[t].ready :
        /\ Gone(r)
        /\ \/ r \notin keyed
           \/ <<r, "REMOVE">> \in applied /\ \A file \in quarantined : r \notin file

\* What is ACTIVE and was added, by an operation that is applied or that this pass
\* tried, is in the memory of the pass and, once that is published, in the live index.
CoverInv ==
    /\ pass.validate => pass.claimed = << >>
    /\ pass.step = "open" => pass.ok = {}
    /\ ToSet(pass.todo) \subseteq ToSet(pass.claimed)
    /\ pass.step \in {"write", "publish", "apply", "retired"} =>
          \A r \in Active : <<r, "ADD">> \in applied \cup (pass.ok \cap ToSet(pass.claimed)) =>
              r \in pass.mem
    /\ live.state = "SOUND" =>
          /\ \A r \in Active : <<r, "ADD">> \in applied => r \in live.keys
          /\ pass.step = "apply" /\ ~pass.changed => pass.mem \subseteq live.keys
          /\ pass.step = "retired" /\ ~pass.validate => pass.mem \subseteq live.keys
          /\ pass.step = "settle" => \A r \in Active :
                <<r, "ADD">> \in pass.ok \cap ToSet(pass.claimed) => r \in live.keys

StartupSteps == {"accepting", "validate", "requeue", "resume", "catch_up", "caught_up"}
Homes == StartupSteps \cup {"idle", "down"}

\* Who holds the lock and why, and which threads move in which phase.
LockInv ==
    /\ pass.step # "none" => lock \in Thread /\ thread[lock].step \in {"pass", "validate"}
    /\ pass.validate => lock = Main /\ At(Main, "validate")
    /\ lock # Nobody => thread[lock].step \in {"pass", "validate", "search", "clear"}
    /\ \A t \in Thread : thread[t].step \in {"search", "clear"} => lock = t
    /\ \A t \in Caller : thread[t].home = "idle" /\ (phase # "open" => At(t, "idle"))
    /\ thread[Main].home \in Homes
    /\ phase = "open" => thread[Main].home = "idle"
    /\ phase = "closed" => At(Main, "down")
    /\ thread[Main].step \in StartupSteps => phase = "starting"
    /\ \A t \in Caller : thread[t].step \notin StartupSteps

\* What a call that looked at an index saw.
SearchInv ==
    \A t \in Caller : At(t, "search") => \A r \in Active :
        <<r, "ADD">> \in applied => r \in thread[t].seen

\* A marker that was read before the log was truncated is no longer there once another
\* vector was erased.
LogInv ==
    /\ marker \in {0, Cardinality(Erased)}
    /\ \A t \in Thread : thread[t].token <= Cardinality(Erased)
    /\ \A t \in Thread : At(t, "clear_marker") /\ thread[t].token = Cardinality(Erased) =>
          Erased \cap log = {}
    /\ LogIsOwed

\* What a call has found out so far stays true until it reports it.
ReportInv ==
    \A t \in Thread :
        /\ thread[t].home = "idle" => \A r \in thread[t].scope : Gone(r)
        /\ thread[t].step \in {"read_marker", "truncate", "clear_marker", "done"} =>
              /\ thread[t].erased \subseteq Erased
              /\ ~thread[t].owed => /\ thread[t].scope \cap Erasing = {}
                                    /\ thread[t].home = "idle" =>
                                          thread[t].erased = thread[t].scope
              /\ At(t, "clear_marker") \/ (At(t, "done") /\ ~thread[t].owed) =>
                    thread[t].erased \cap log = {}

IInv ==
    /\ TypeOK /\ RowsInv
    /\ FilesInv /\ PurgeInv /\ ClearInv
    /\ CoverInv /\ LockInv /\ SearchInv
    /\ LogInv /\ ReportInv

-----------------------------------------------------------------------------
(* Types *)

LEMMA ErasedCount ==
  /\ Cardinality(Rep) \in Nat
  /\ \A S \in SUBSET Rep : Cardinality(S) \in 0..Cardinality(Rep)
<1>1. Cardinality(Rep) \in Nat
  BY FS_CardinalityType, MemoryAssumption
<1>2. ASSUME NEW S \in SUBSET Rep PROVE Cardinality(S) \in 0..Cardinality(Rep)
  <2>1. IsFiniteSet(S) /\ Cardinality(S) <= Cardinality(Rep)
    BY FS_Subset, MemoryAssumption
  <2>2. Cardinality(S) \in Nat
    BY <2>1, FS_CardinalityType
  <2> QED BY <1>1, <2>1, <2>2
<1> QED BY <1>1, <1>2

\* A thread at rest, and one whose call is at another step, is of the type of calls.
LEMMA RestType == ASSUME NEW step \in Step PROVE Rest(step) \in Calls
BY ErasedCount DEF Rest, Calls

LEMMA StepType ==
  ASSUME NEW c \in Calls, NEW step \in Step
  PROVE  [c EXCEPT !.step = step] \in Calls
BY DEF Calls

LEMMA ReturnType ==
  ASSUME NEW t, thread \in [Thread -> Calls], Return(t)
  PROVE  thread' \in [Thread -> Calls]
<1>1. CASE t \in Thread
  <2>1. thread[t].home \in Step
    BY <1>1 DEF Calls
  <2>2. Rest(thread[t].home) \in Calls
    BY <2>1, RestType
  <2> QED BY <2>2 DEF Return
<1>2. CASE t \notin Thread
  BY <1>2 DEF Return
<1> QED BY <1>1, <1>2

LEMMA GoToType ==
  ASSUME NEW t, NEW step \in Step, thread \in [Thread -> Calls], GoTo(t, step)
  PROVE  thread' \in [Thread -> Calls]
<1>1. CASE t \in Thread
  <2>1. [thread[t] EXCEPT !.step = step] \in Calls
    BY <1>1, StepType
  <2> QED BY <2>1 DEF GoTo
<1>2. CASE t \notin Thread
  BY <1>2 DEF GoTo
<1> QED BY <1>1, <1>2

LEMMA NoPassType == NoPass \in Passes
BY DEF NoPass, Passes, PassStep

LEMMA InitTypes == ASSUME Init PROVE TypeOK
<1>1. /\ rep \in [Rep -> {"PENDING", "ACTIVE", "ERASING", "ERASED"}]
      /\ keyed \subseteq Rep
      /\ queue \in Seq(Op)
      /\ \A kind \in {backoff, applied, failed} : kind \subseteq Op
      /\ log \subseteq Rep
      /\ live \in [state : {"NONE", "SOUND", "DAMAGED"}, keys : SUBSET Rep]
      /\ stale \subseteq SUBSET Rep
      /\ quarantined \subseteq SUBSET Rep
      /\ lock \in Thread \cup {Nobody}
      /\ phase \in {"closed", "starting", "open"}
  BY DEF Init
<1>2. tries \in [Op -> 0..MaxTries] /\ marker \in 0..Cardinality(Rep)
  BY ErasedCount, MemoryAssumption DEF Init
<1>3. pass \in Passes /\ thread \in [Thread -> Calls]
  <2>1. Rest("idle") \in Calls
    BY RestType DEF Step
  <2> QED BY <2>1, NoPassType DEF Init
<1> QED BY <1>1, <1>2, <1>3 DEF TypeOK

\* What an erasure does to rows and operations.
LEMMA QueueTypes ==
  ASSUME TypeOK, NEW scope \in SUBSET Rep, QueueErasure(scope)
  PROVE  /\ rep' \in [Rep -> {"PENDING", "ACTIVE", "ERASING", "ERASED"}]
         /\ keyed' \subseteq Rep
         /\ queue' \in Seq(Op)
         /\ \A kind \in {backoff', applied', failed'} : kind \subseteq Op
         /\ tries' \in [Op -> 0..MaxTries]
         /\ log' \subseteq Rep
         /\ UNCHANGED <<marker, files, lock, pass, phase>>
<1> DEFINE moved   == {r \in scope : rep[r] \in {"PENDING", "ACTIVE"}}
           removes == Removes({r \in keyed : \/ r \in moved
                                             \/ rep[r] = "ERASING" /\ NeedsRemove(r)})
<1>1. keyed \subseteq Rep /\ removes \in SUBSET Op
  BY DEF TypeOK, Removes, Op
<1>2. queue' \in Seq(Op)
  <2>1. queue' \in Appended(removes)
    BY DEF QueueErasure
  <2> HIDE DEF removes
  <2> QED BY <1>1, <2>1, AppendedIn DEF TypeOK
<1>3. rep' \in [Rep -> {"PENDING", "ACTIVE", "ERASING", "ERASED"}] /\ log' \subseteq Rep
  BY DEF QueueErasure, TypeOK
<1>4. /\ \A kind \in {backoff', applied', failed'} : kind \subseteq Op
      /\ tries' \in [Op -> 0..MaxTries]
  <2>0. 0 \in 0..MaxTries
    BY MemoryAssumption
  <2>1. /\ tries' = [op \in Op |-> IF op \in removes THEN 0 ELSE tries[op]]
        /\ backoff' \subseteq backoff /\ failed' \subseteq failed /\ applied' = applied
    BY DEF QueueErasure
  <2> HIDE DEF removes
  <2> QED BY <2>0, <2>1 DEF TypeOK
<1> QED BY <1>1, <1>2, <1>3, <1>4 DEF QueueErasure

LEMMA PassStepTypes ==
  ASSUME TypeOK, RowsInv, PassStepTaken
  PROVE  TypeOK'
<1>0. /\ pass \in Passes
      /\ thread \in [Thread -> Calls]
      /\ live \in [state : {"NONE", "SOUND", "DAMAGED"}, keys : SUBSET Rep]
  BY DEF TypeOK
<1>1. ASSUME OpenIndex PROVE TypeOK'
  <2>1. stale' \subseteq SUBSET Rep /\ quarantined' \subseteq SUBSET Rep
    BY <1>1 DEF OpenIndex, LeftOf, TypeOK
  <2>2. pass' \in Passes
    <3>1. CASE live.state = "SOUND"
      BY <1>0, <1>1, <3>1 DEF OpenIndex, Passes, PassStep
    <3>2. CASE live.state # "SOUND"
      BY <1>0, <1>1, <3>2 DEF OpenIndex, Passes, PassStep
    <3> QED BY <3>1, <3>2
  <2>3. live' \in [state : {"NONE", "SOUND", "DAMAGED"}, keys : SUBSET Rep]
    BY <1>0, <1>1 DEF OpenIndex
  <2> QED BY <1>1, <2>1, <2>2, <2>3 DEF OpenIndex, TypeOK, rows, ops
<1>2. ASSUME Build PROVE TypeOK'
  <2>1. Entries \in SUBSET Rep
    BY DEF Entries, Active
  <2>2. pass' \in Passes
    BY <1>0, <1>2, <2>1 DEF Build, Passes, PassStep
  <2> QED BY <1>2, <2>2 DEF Build, TypeOK, rows, ops, files
<1>9. ASSUME WriteGeneration PROVE TypeOK'
  <2>1. pass' \in Passes
    BY <1>0, <1>9 DEF WriteGeneration, Passes, PassStep
  <2> QED BY <1>9, <2>1 DEF WriteGeneration, TypeOK, rows, ops, files
<1>3. ASSUME Publish PROVE TypeOK'
  <2>1. /\ live' \in [state : {"NONE", "SOUND", "DAMAGED"}, keys : SUBSET Rep]
        /\ stale' \subseteq SUBSET Rep
        /\ pass' \in Passes
    BY <1>3 DEF Publish, TypeOK, Passes, PassStep, LeftOf
  <2> QED BY <1>3, <2>1 DEF Publish, TypeOK, rows, ops
<1>4. ASSUME ApplyOne PROVE TypeOK'
  <2>1. pass.todo \in Seq(Op) /\ pass.todo # << >>
    BY <1>0, <1>4 DEF Passes, ApplyOne
  <2> DEFINE op == Head(pass.todo)
             r  == op[1]
             purge == op[2] = "REMOVE" /\ (r \notin keyed \/ rep[r] = "ERASING")
             mem == CASE op[2] = "ADD" /\ r \in Active -> pass.mem \cup {r}
                      [] op[2] = "REMOVE" /\ ~purge    -> pass.mem \ {r}
                      [] OTHER                         -> pass.mem
  <2>2. op \in Op /\ Tail(pass.todo) \in Seq(Op)
    BY <2>1
  <2>3. mem \in SUBSET Rep
    BY <1>0 DEF Active, Passes
  <2>4. pass' = [pass EXCEPT !.todo = Tail(@), !.ok = @ \cup {op}, !.mem = mem,
                            !.purge = @ \/ purge, !.changed = @ \/ mem # pass.mem]
    BY <1>4 DEF ApplyOne
  <2>5. purge \in BOOLEAN /\ (mem # pass.mem) \in BOOLEAN
    OBVIOUS
  <2> HIDE DEF op, mem, purge
  <2>6. pass' \in Passes
    BY <1>0, <2>2, <2>3, <2>4, <2>5 DEF Passes
  <2> QED BY <1>4, <2>6 DEF ApplyOne, TypeOK, rows, ops, files
<1>10. ASSUME OperationFails PROVE TypeOK'
  <2>1. pass.todo \in Seq(Op) /\ pass.todo # << >>
    BY <1>0, <1>10 DEF Passes, OperationFails
  <2>2. Tail(pass.todo) \in Seq(Op)
    BY <2>1
  <2>3. pass' \in Passes
    BY <1>0, <1>10, <2>2 DEF OperationFails, Passes, PassStep
  <2> QED BY <1>10, <2>3 DEF OperationFails, TypeOK, rows, ops, files
<1>5. ASSUME AfterApply PROVE TypeOK'
  <2>1. Kept(pass.claimed, pass.ok) \in Seq(Op)
    BY KeptIn DEF TypeOK, Passes
  <2>2. pass' \in Passes
    BY <1>0, <1>5, <2>1 DEF AfterApply, Passes, PassStep
  <2> QED BY <1>5, <2>2 DEF AfterApply, TypeOK, rows, ops, files
<1>6. ASSUME Retired PROVE TypeOK'
  <2>1. pass' \in Passes
    BY <1>6 DEF Retired, TypeOK, Passes, PassStep
  <2> QED BY <1>6, <2>1 DEF Retired, TypeOK, rows, ops, files
<1>7. ASSUME SpaceFails PROVE TypeOK'
  <2>1. pass' \in Passes /\ stale' \subseteq SUBSET Rep
    BY <1>7 DEF SpaceFails, Unfinished, TypeOK, Passes, PassStep
  <2> QED BY <1>7, <2>1 DEF SpaceFails, TypeOK, rows, ops
<1>8. ASSUME Settle PROVE TypeOK'
  <2> DEFINE still == ToSet(pass.claimed) \cap Pending
             lost  == {op \in still \ Succeeded : RanOut(op)}
             again == still \ (Succeeded \cup lost)
  <2>1. still \subseteq Op
    BY DEF Pending, ToSet, TypeOK
  <2>2. queue' \in Seq(Op)
    <3>1. queue' = Without(still)
      BY <1>8 DEF Settle
    <3> HIDE DEF still
    <3> QED BY <3>1, WithoutIn DEF TypeOK
  <2>3. /\ applied' = applied \cup (still \cap Succeeded)
        /\ failed' = failed \cup lost
        /\ backoff' = (backoff \ still) \cup again
        /\ tries' = [op \in Op |-> IF op \in still THEN tries[op] + 1 ELSE tries[op]]
    BY <1>8 DEF Settle
  <2>4. \A kind \in {backoff', applied', failed'} : kind \subseteq Op
    <3> HIDE DEF still
    <3> QED BY <2>1, <2>3 DEF TypeOK
  <2>5. tries' \in [Op -> 0..MaxTries]
    <3>1. \A op \in still : tries[op] + 1 \in 0..MaxTries
      BY <2>1, MemoryAssumption DEF RowsInv, TypeOK
    <3> HIDE DEF still
    <3> QED BY <2>1, <2>3, <3>1 DEF TypeOK
  <2>6. thread' \in [Thread -> Calls]
    <3>1. CASE Return(lock)
      BY <1>0, <3>1, ReturnType
    <3>2. ASSUME NEW owed \in BOOLEAN,
                 thread' = [thread EXCEPT ![lock].step = "finalize", ![lock].owed = owed]
          PROVE  thread' \in [Thread -> Calls]
      <4>1. CASE lock \in Thread
        <5> DEFINE c == thread[lock]
        <5>0. c \in Calls /\ "finalize" \in Step
          BY <1>0, <4>1 DEF Step
        <5>1. [c EXCEPT !.step = "finalize", !.owed = owed] \in Calls
          <6> HIDE DEF c
          <6> QED BY <5>0 DEF Calls
        <5> QED BY <1>0, <3>2, <5>1
      <4>2. CASE lock \notin Thread
        BY <1>0, <3>2, <4>2
      <4> QED BY <4>1, <4>2
    <3> QED BY <1>8, <3>1, <3>2 DEF Settle
  <2> QED BY <1>8, <2>2, <2>4, <2>5, <2>6, NoPassType DEF Settle, TypeOK, rows, files
<1> QED BY <1>1, <1>2, <1>3, <1>4, <1>5, <1>6, <1>7, <1>8, <1>9, <1>10
       DEF PassStepTaken

LEMMA ThreadStepTypes ==
  ASSUME TypeOK, NEW t \in Thread, ThreadStep(t)
  PROVE  TypeOK'
<1>0. /\ pass \in Passes
      /\ thread \in [Thread -> Calls]
      /\ thread[t] \in Calls
  BY DEF TypeOK
<1>1. ASSUME Claim(t) PROVE TypeOK'
  <2> DEFINE n   == IF thread[t].limit < Len(queue) THEN thread[t].limit ELSE Len(queue)
             due == SubSeq(queue, 1, n)
  <2>1. queue \in Seq(Op) /\ Len(queue) \in Nat
    BY DEF TypeOK
  <2>2. n \in 0..Len(queue)
    BY <1>0, <2>1 DEF Calls
  <2>3. due \in Seq(Op)
    <3> HIDE DEF n
    <3> QED BY <2>1, <2>2
  <2>4. CASE due = << >>
    <3>1. thread' \in [Thread -> Calls]
      BY <1>0, <1>1, <2>4, ReturnType, GoToType DEF Claim, Step
    <3> QED BY <1>1, <2>4, <3>1 DEF Claim, TypeOK, rows, ops, files
  <2>5. CASE due # << >>
    <3>1. pass' = [NoPass EXCEPT !.step = "open", !.claimed = due, !.todo = due]
      BY <1>1, <2>5 DEF Claim
    <3>2. pass' \in Passes
      <4> HIDE DEF due
      <4> QED BY <2>3, <3>1, NoPassType DEF Passes, PassStep
    <3> QED BY <1>1, <2>5, <3>2 DEF Claim, TypeOK, rows, ops, files
  <2> QED BY <2>4, <2>5
<1>2. ASSUME Drive(t) PROVE TypeOK'
  <2>1. EveryDue \in Nat
    <3>1. IsFiniteSet(Pending)
      BY OpIsFinite, FS_Subset DEF Pending, ToSet, TypeOK
    <3> QED BY <3>1, FS_CardinalityType DEF EveryDue
  <2>2. AfterDrive \in Step
    BY DEF AfterDrive, Step
  <2>3. thread' \in [Thread -> Calls]
    BY <1>0, <1>2, <2>1, <2>2 DEF Drive, Calls
  <2> QED BY <1>2, <2>3 DEF Drive, TypeOK, rows, ops, files
<1>3. ASSUME FinalizeSpace(t) PROVE TypeOK'
  <2>1. quarantined' \subseteq SUBSET Rep
    BY <1>3 DEF FinalizeSpace, LeftOf, TypeOK
  <2>2. ASSUME NEW ready \in SUBSET Rep, NEW clean \in BOOLEAN,
               thread' = [thread EXCEPT ![t].ready = ready,
                                        ![t].owed = @ \/ ~clean,
                                        ![t].step = IF ready = {} THEN "summarize" ELSE "clear"]
        PROVE  thread' \in [Thread -> Calls]
    <3>1. (IF ready = {} THEN "summarize" ELSE "clear") \in Step
      BY DEF Step
    <3> QED BY <1>0, <2>2, <3>1 DEF Calls
  <2>3. thread' \in [Thread -> Calls] /\ lock' \in {Nobody, t}
    <3> DEFINE removed == {r \in Erasing \cap keyed : RemovalDone(r)}
               keyless == Erasing \ keyed
               clean == removed = {} \/ Left(quarantined') = {}
               ready == IF clean THEN removed \cup keyless ELSE keyless
    <3>1. ready \in SUBSET Rep /\ clean \in BOOLEAN
      BY DEF Erasing
    <3>2. /\ thread' = [thread EXCEPT ![t].ready = ready,
                                      ![t].owed = @ \/ ~clean,
                                      ![t].step = IF ready = {} THEN "summarize" ELSE "clear"]
          /\ lock' = IF ready = {} THEN Nobody ELSE t
      BY <1>3 DEF FinalizeSpace
    <3> HIDE DEF ready, clean
    <3> QED BY <2>2, <3>1, <3>2
  <2> QED BY <1>3, <2>1, <2>3 DEF FinalizeSpace, TypeOK, rows, ops
<1>4. ASSUME Clear(t) PROVE TypeOK'
  <2>1. /\ rep' \in [Rep -> {"PENDING", "ACTIVE", "ERASING", "ERASED"}]
        /\ keyed' \subseteq Rep
        /\ log' \subseteq Rep
        /\ UNCHANGED <<ops, files, pass, phase>>
    BY <1>4 DEF Clear, Erasing, TypeOK
  <2>2. marker' \in 0..Cardinality(Rep)
    BY <1>4, ErasedCount DEF Clear
  <2>3. thread' \in [Thread -> Calls]
    BY <1>0, <1>4, GoToType DEF Clear, Step
  <2> QED BY <1>4, <2>1, <2>2, <2>3 DEF Clear, TypeOK, ops, files
<1>5. ASSUME Summarize(t) PROVE TypeOK'
  <2> DEFINE erased == {r \in thread[t].scope : rep[r] = "ERASED"}
             owed == thread[t].scope \cap Erasing # {}
  <2>1. erased \in SUBSET Rep /\ owed \in BOOLEAN
    BY <1>0 DEF Calls
  <2>2. thread' = [thread EXCEPT ![t].erased = erased, ![t].owed = @ \/ owed,
                                 ![t].step = "read_marker"]
    BY <1>5 DEF Summarize
  <2>3. thread' \in [Thread -> Calls]
    <3> HIDE DEF erased, owed
    <3> QED BY <1>0, <2>1, <2>2 DEF Calls, Step
  <2> QED BY <1>5, <2>3 DEF Summarize, TypeOK, rows, ops, files
<1>6. ASSUME ReadMarker(t) PROVE TypeOK'
  <2>1. thread' \in [Thread -> Calls]
    BY <1>0, <1>6 DEF ReadMarker, TypeOK, Calls, Step
  <2> QED BY <1>6, <2>1 DEF ReadMarker, TypeOK, rows, ops, files
<1>7. ASSUME Truncate(t) PROVE TypeOK'
  <2>1. CASE GoTo(t, "clear_marker")
    <3>1. thread' \in [Thread -> Calls]
      BY <1>0, <2>1, GoToType DEF Step
    <3> QED BY <1>7, <3>1 DEF Truncate, TypeOK, rows, ops, files
  <2>2. CASE StillOwed(t)
    <3>1. thread' \in [Thread -> Calls]
      BY <1>0, <2>2 DEF StillOwed, Calls, Step
    <3> QED BY <1>7, <3>1 DEF Truncate, TypeOK, rows, ops, files
  <2> QED BY <1>7, <2>1, <2>2 DEF Truncate
<1>8. ASSUME ClearMarker(t) PROVE TypeOK'
  <2>1. thread' \in [Thread -> Calls]
    BY <1>0, <1>8, GoToType DEF ClearMarker, Step
  <2>2. marker' \in 0..Cardinality(Rep)
    BY <1>8, ErasedCount DEF ClearMarker, ClearIfUnchanged, TypeOK
  <2> QED BY <1>8, <2>1, <2>2 DEF ClearMarker, TypeOK, rows, ops, files
<1>9. ASSUME Report(t) PROVE TypeOK'
  <2>1. thread' \in [Thread -> Calls]
    BY <1>0, <1>9, ReturnType DEF Report
  <2> QED BY <1>9, <2>1 DEF Report, TypeOK, rows, ops, files
<1>10. ASSUME SpaceBlocked(t) PROVE TypeOK'
  <2>1. thread' \in [Thread -> Calls]
    BY <1>0, <1>10 DEF SpaceBlocked, Calls, Step
  <2> QED BY <1>10, <2>1 DEF SpaceBlocked, TypeOK, rows, ops, files
<1>11. ASSUME CallFails(t) PROVE TypeOK'
  <2>1. thread' \in [Thread -> Calls]
    <3>1. CASE Return(t)
      BY <1>0, <3>1, ReturnType
    <3>2. CASE thread' = [thread EXCEPT ![t] = Rest("down")]
      <4>1. Rest("down") \in Calls
        BY RestType DEF Step
      <4> QED BY <1>0, <3>2, <4>1
    <3> QED BY <1>11, <3>1, <3>2 DEF CallFails
  <2> QED BY <1>11, <2>1, NoPassType DEF CallFails, TypeOK, rows, ops, files
<1>12. ASSUME SearchAnswer(t) PROVE TypeOK'
  <2>1. thread' \in [Thread -> Calls]
    BY <1>0, <1>12, ReturnType DEF SearchAnswer
  <2> QED BY <1>12, <2>1 DEF SearchAnswer, TypeOK, rows, ops, files
<1> QED
  BY <1>1, <1>2, <1>3, <1>4, <1>5, <1>6, <1>7, <1>8, <1>9, <1>10, <1>11, <1>12
     DEF ThreadStep, EraserStep

LEMMA OtherTypes ==
  ASSUME TypeOK, RowsInv, Next, ~PassStepTaken, \A t \in Thread : ~ThreadStep(t)
  PROVE  TypeOK'
<1>0. /\ thread \in [Thread -> Calls]
      /\ Main \in Thread
      /\ Caller \subseteq Thread
      /\ live \in [state : {"NONE", "SOUND", "DAMAGED"}, keys : SUBSET Rep]
  BY DEF TypeOK, Thread
<1>1. ASSUME NEW new \in SUBSET Rep, Accept(new) PROVE TypeOK'
  <2> DEFINE adds == {<<r, "ADD">> : r \in new}
  <2>1. /\ rep' \in [Rep -> {"PENDING", "ACTIVE", "ERASING", "ERASED"}]
        /\ keyed' \subseteq Rep
        /\ log' \subseteq Rep
        /\ UNCHANGED <<backoff, applied, failed, tries, marker, files, lock, pass, phase>>
    BY <1>1 DEF Accept, TypeOK
  <2>2. queue' \in Seq(Op)
    <3>1. adds \in SUBSET Op
      BY DEF Op
    <3>2. queue' \in Appended(adds)
      BY <1>1 DEF Accept
    <3> HIDE DEF adds
    <3> QED BY <3>1, <3>2, AppendedIn DEF TypeOK
  <2>3. thread' \in [Thread -> Calls]
    <3>1. Batch \in Nat
      BY MemoryAssumption
    <3> QED BY <1>0, <1>1, <3>1 DEF Accept, Calls, Step
  <2> QED BY <2>1, <2>2, <2>3 DEF TypeOK, files
<1>2. ASSUME NEW t \in Caller, NEW scope \in SUBSET Rep, Erase(t, scope) PROVE TypeOK'
  <2>1. thread' \in [Thread -> Calls]
    BY <1>0, <1>2 DEF Erase, Calls, Step
  <2> QED BY <1>2, <2>1, QueueTypes DEF Erase, TypeOK, files
<1>3. ASSUME NEW t \in Caller, Search(t) PROVE TypeOK'
  <2>1. thread' \in [Thread -> Calls]
    BY <1>0, <1>3 DEF Search, Calls, Step
  <2> QED BY <1>0, <1>3, <2>1 DEF Search, Exclusive, TypeOK, rows, ops, files
<1>4. ASSUME NEW op \in Op, BackoffEnds(op) PROVE TypeOK'
  <2>1. queue' \in Seq(Op)
    BY <1>4 DEF BackoffEnds, TypeOK
  <2> QED BY <1>4, <2>1 DEF BackoffEnds, TypeOK, rows, files
<1>5. ASSUME Decide PROVE TypeOK'
  <2>1. live.keys \in SUBSET Rep /\ "decide" \in Step
    BY <1>0 DEF Step
  <2>2. thread' \in [Thread -> Calls]
    <3> DEFINE c == thread[Main]
    <3>1. c \in Calls
      BY <1>0
    <3>2. [c EXCEPT !.step = "decide", !.seen = live.keys] \in Calls
      <4> HIDE DEF c
      <4> QED BY <2>1, <3>1 DEF Calls
    <3> QED BY <1>0, <1>5, <3>2 DEF Decide
  <2> QED BY <1>5, <2>2 DEF Decide, TypeOK, rows, ops, files
<1>6. ASSUME DecideAnswer PROVE TypeOK'
  <2>1. thread' \in [Thread -> Calls]
    BY <1>0, <1>6, ReturnType DEF DecideAnswer
  <2> QED BY <1>6, <2>1 DEF DecideAnswer, TypeOK, rows, ops, files
<1>7. ASSUME Crash PROVE TypeOK'
  <2>1. thread' \in [Thread -> Calls]
    <3>1. \A t \in Thread : Rest(IF t = Main THEN "down" ELSE "idle") \in Calls
      BY RestType DEF Step
    <3> QED BY <1>7, <3>1 DEF Crash
  <2>2. stale' \subseteq SUBSET Rep
    BY <1>7 DEF Crash, Unfinished, TypeOK, Passes
  <2> QED BY <1>7, <2>1, <2>2, NoPassType DEF Crash, TypeOK, rows, ops
<1>8. ASSUME Start PROVE TypeOK'
  <2>1. Rest("accepting") \in Calls
    BY RestType DEF Step
  <2>2. thread' \in [Thread -> Calls]
    BY <1>0, <1>8, <2>1 DEF Start
  <2> QED BY <1>8, <2>2 DEF Start, TypeOK, rows, ops, files
<1>9. ASSUME Validate PROVE TypeOK'
  <2>1. thread' \in [Thread -> Calls]
    BY <1>0, <1>9, GoToType DEF Validate, Step
  <2>2. pass' \in Passes
    BY <1>9, NoPassType DEF Validate, Passes, PassStep
  <2> QED BY <1>0, <1>9, <2>1, <2>2 DEF Validate, TypeOK, rows, ops, files
<1>10. ASSUME Validated PROVE TypeOK'
  <2>1. thread' \in [Thread -> Calls]
    BY <1>0, <1>10, GoToType DEF Validated, Step
  <2> QED BY <1>10, <2>1, NoPassType DEF Validated, TypeOK, rows, ops, files
<1>11. ASSUME Requeue PROVE TypeOK'
  <2>1. thread' \in [Thread -> Calls]
    BY <1>0, <1>11, GoToType DEF Requeue, Step
  <2>2. queue' \in Seq(Op)
    <3>1. PICK order \in SetToSeqs(failed) : queue' = queue \o order
      BY <1>11 DEF Requeue
    <3>2. IsFiniteSet(failed) /\ failed \subseteq Op
      BY OpIsFinite, FS_Subset DEF TypeOK
    <3>3. order \in Seq(Op)
      BY <3>2, OrderOf
    <3> QED BY <3>1, <3>3, Joined DEF TypeOK
  <2>3. tries' \in [Op -> 0..MaxTries]
    <3>1. 0 \in 0..MaxTries
      BY MemoryAssumption
    <3> QED BY <1>11, <3>1 DEF Requeue, TypeOK
  <2> QED BY <1>11, <2>1, <2>2, <2>3 DEF Requeue, TypeOK, rows, files
<1>12. ASSUME Resume PROVE TypeOK'
  <2>1. Rest("catch_up") \in Calls
    BY RestType DEF Step
  <2>2. [Rest("catch_up") EXCEPT !.step = "drive", !.scope = Rep] \in Calls
    BY <2>1 DEF Calls, Step
  <2>3. thread' \in [Thread -> Calls]
    BY <1>0, <1>12, <2>2 DEF Resume
  <2> QED BY <1>12, <2>3, QueueTypes DEF Resume, TypeOK, files
<1>13. ASSUME CatchUp PROVE TypeOK'
  <2>1. Batch \in Nat /\ "pass" \in Step /\ "caught_up" \in Step
    BY MemoryAssumption DEF Step
  <2>2. thread' \in [Thread -> Calls]
    <3> DEFINE c == thread[Main]
    <3>1. c \in Calls
      BY <1>0
    <3>2. [c EXCEPT !.step = "pass", !.home = "caught_up", !.limit = Batch] \in Calls
      <4> HIDE DEF c
      <4> QED BY <2>1, <3>1 DEF Calls
    <3> QED BY <1>0, <1>13, <3>2 DEF CatchUp
  <2> QED BY <1>13, <2>2 DEF CatchUp, TypeOK, rows, ops, files
<1>14. ASSUME OpenLibrary PROVE TypeOK'
  <2>1. Rest("idle") \in Calls
    BY RestType DEF Step
  <2>2. thread' \in [Thread -> Calls]
    BY <1>0, <1>14, <2>1 DEF OpenLibrary
  <2> QED BY <1>14, <2>2 DEF OpenLibrary, TypeOK, rows, ops, files
<1>15. ASSUME Damage PROVE TypeOK'
  <2>0. live.keys \in SUBSET Rep /\ stale \subseteq SUBSET Rep
    BY <1>0 DEF TypeOK
  <2>1. /\ stale' \subseteq SUBSET Rep
        /\ live' \in [state : {"NONE", "SOUND", "DAMAGED"}, keys : SUBSET Rep]
    <3>1. CASE live' = [live EXCEPT !.state = "DAMAGED"] /\ UNCHANGED stale
      BY <1>0, <2>0, <3>1
    <3>2. CASE live' = [state |-> "NONE", keys |-> {}] /\ stale' = stale \cup {live.keys}
      BY <2>0, <3>2
    <3> QED BY <1>15, <3>1, <3>2 DEF Damage
  <2> QED BY <1>15, <2>1 DEF Damage, TypeOK, rows, ops
<1> QED
  BY <1>1, <1>2, <1>3, <1>4, <1>5, <1>6, <1>7, <1>8, <1>9, <1>10, <1>11, <1>12, <1>13,
     <1>14, <1>15 DEF Next, StartupStep

LEMMA NextTypes == ASSUME TypeOK, RowsInv, [Next]_vars PROVE TypeOK'
<1>1. CASE UNCHANGED vars
  BY <1>1 DEF vars, state, TypeOK
<1>2. CASE PassStepTaken
  BY <1>2, PassStepTypes
<1>3. ASSUME NEW t \in Thread, ThreadStep(t) PROVE TypeOK'
  BY <1>3, ThreadStepTypes
<1> QED BY <1>1, <1>2, <1>3, OtherTypes

-----------------------------------------------------------------------------
(* Steps, by what they leave alone *)

\* The steps of a pass but for the one that settles it.
PassWork ==
    \/ OpenIndex \/ Build \/ WriteGeneration \/ Publish \/ ApplyOne \/ AfterApply
    \/ Retired \/ OperationFails \/ SpaceFails

\* The steps that move a thread, and at most the lock, the log and the marker.
QuietStep(t) ==
    \/ Drive(t) \/ Summarize(t) \/ ReadMarker(t) \/ Truncate(t) \/ ClearMarker(t)
    \/ Report(t) \/ SpaceBlocked(t) \/ SearchAnswer(t) \/ (t \in Caller /\ Search(t))
    \/ Decide \/ DecideAnswer \/ Start \/ CatchUp \/ OpenLibrary

\* The steps that begin or give up a pass.
PassEnds == (\E t \in Thread : CallFails(t)) \/ Crash \/ Validate \/ Validated

LEMMA StepCases ==
  ASSUME [Next]_vars
  PROVE  \/ UNCHANGED vars
         \/ \E new \in SUBSET Rep : Accept(new)
         \/ \E t \in Caller, scope \in SUBSET Rep : Erase(t, scope)
         \/ \E op \in Op : BackoffEnds(op)
         \/ \E t \in Thread : Claim(t) \/ FinalizeSpace(t) \/ Clear(t) \/ QuietStep(t)
         \/ Resume \/ Requeue \/ Settle \/ PassWork \/ PassEnds \/ Damage
<1>1. Caller \subseteq Thread /\ Main \in Thread
  BY DEF Thread
<1>2. CASE PassStepTaken
  BY <1>2 DEF PassStepTaken, PassWork
<1>3. ASSUME NEW t \in Thread, ThreadStep(t)
      PROVE  Claim(t) \/ FinalizeSpace(t) \/ Clear(t) \/ QuietStep(t) \/ PassEnds
  BY <1>3 DEF ThreadStep, EraserStep, QuietStep, PassEnds
<1>4. ASSUME NEW t \in Caller, Search(t) PROVE QuietStep(t)
  BY <1>4 DEF QuietStep
<1>5. CASE StartupStep
  BY <1>1, <1>5 DEF StartupStep, QuietStep, PassEnds
<1>6. CASE Decide \/ DecideAnswer
  BY <1>1, <1>6 DEF QuietStep
<1> QED BY <1>1, <1>2, <1>3, <1>4, <1>5, <1>6 DEF Next, PassEnds

LEMMA PassFrame ==
  ASSUME TypeOK, PassWork
  PROVE  /\ UNCHANGED <<rep, keyed, queue, backoff, applied, failed, tries>>
         /\ UNCHANGED <<marker, log, lock, thread, phase>>
         /\ pass'.claimed = pass.claimed
         /\ pass'.validate = pass.validate
<1>0. pass \in Passes
  BY DEF TypeOK
<1>1. UNCHANGED <<rows, ops, marker, log, lock, thread, phase>>
  BY DEF PassWork, OpenIndex, Build, WriteGeneration, Publish, ApplyOne, AfterApply, Retired,
         OperationFails, SpaceFails
<1>3. CASE OpenIndex
  <2>1. \/ \E a, b : pass' = [pass EXCEPT !.step = a, !.mem = b]
        \/ \E a, b : pass' = [pass EXCEPT !.step = a, !.rebuilt = b]
    BY <1>3 DEF OpenIndex
  <2> QED BY <1>0, <1>1, <2>1 DEF Passes, rows, ops
<1>4. CASE Build
  BY <1>0, <1>1, <1>4 DEF Passes, Build, rows, ops
<1>5. CASE WriteGeneration
  BY <1>0, <1>1, <1>5 DEF Passes, WriteGeneration, rows, ops
<1>6. CASE Publish
  BY <1>0, <1>1, <1>6 DEF Passes, Publish, rows, ops
<1>7. CASE ApplyOne
  <2>1. \E a, b, c, d, e : pass' = [pass EXCEPT !.todo = a, !.ok = b, !.mem = c,
                                               !.purge = d, !.changed = e]
    BY <1>7 DEF ApplyOne
  <2> QED BY <1>0, <1>1, <2>1 DEF Passes, rows, ops
<1>8. CASE AfterApply
  <2>1. \/ \E a, b : pass' = [pass EXCEPT !.step = a, !.rebuilt = TRUE, !.todo = b]
        \/ \E a : pass' = [pass EXCEPT !.step = a]
    BY <1>8 DEF AfterApply
  <2> QED BY <1>0, <1>1, <2>1 DEF Passes, rows, ops
<1>9. CASE Retired
  BY <1>0, <1>1, <1>9 DEF Passes, Retired, rows, ops
<1>10. CASE OperationFails
  BY <1>0, <1>1, <1>10 DEF Passes, OperationFails, rows, ops
<1>11. CASE SpaceFails
  BY <1>0, <1>1, <1>11 DEF Passes, SpaceFails, rows, ops
<1> QED BY <1>3, <1>4, <1>5, <1>6, <1>7, <1>8, <1>9, <1>10, <1>11 DEF PassWork

LEMMA QuietFrame ==
  ASSUME NEW t \in Thread, QuietStep(t)
  PROVE  /\ UNCHANGED <<rep, keyed, queue, backoff, applied, failed, tries>>
         /\ UNCHANGED <<live, stale, quarantined, pass>>
<1>1. CASE Drive(t) \/ Summarize(t) \/ ReadMarker(t) \/ Truncate(t) \/ ClearMarker(t)
           \/ Report(t) \/ SpaceBlocked(t) \/ SearchAnswer(t)
  BY <1>1 DEF Drive, Summarize, ReadMarker, Truncate, ClearMarker, Report, SpaceBlocked,
              SearchAnswer, rows, ops, files
<1>2. CASE Search(t) \/ Decide \/ DecideAnswer \/ Start \/ CatchUp \/ OpenLibrary
  BY <1>2 DEF Search, Decide, DecideAnswer, Start, CatchUp, OpenLibrary, rows, ops, files
<1> QED BY <1>1, <1>2 DEF QuietStep

LEMMA PassEndsFrame ==
  ASSUME PassEnds
  PROVE  /\ UNCHANGED <<rep, keyed, queue, backoff, applied, failed, tries>>
         /\ UNCHANGED <<marker, log, live, quarantined>>
         /\ stale' \in {stale, stale \cup {pass.mem}}
         /\ \/ pass' = pass
            \/ pass' = NoPass
            \/ pass' = [NoPass EXCEPT !.step = "open", !.validate = TRUE]
<1>1. ASSUME NEW t \in Thread, CallFails(t)
      PROVE  /\ UNCHANGED <<rows, ops, marker, log, files>>
             /\ pass' \in {pass, NoPass}
  BY <1>1 DEF CallFails
<1>2. CASE Crash
  BY <1>2 DEF Crash, Unfinished, rows, ops
<1>3. CASE Validate \/ Validated
  BY <1>3 DEF Validate, Validated, rows, ops, files
<1> QED BY <1>1, <1>2, <1>3 DEF PassEnds, rows, ops, files

-----------------------------------------------------------------------------
(* Rows and operations *)

\* A step that leaves rows and operations alone, and claims nothing new.
LEMMA RowsKept ==
  ASSUME RowsInv,
         UNCHANGED <<rep, keyed, queue, backoff, applied, failed, tries>>,
         pass'.claimed \in {pass.claimed, << >>}
  PROVE  RowsInv'
<1>1. Known' \subseteq Known /\ Pending' = Pending
  BY DEF Known, Pending, ToSet
<1> QED BY <1>1 DEF RowsInv, Gone

LEMMA AcceptKeepsRows ==
  ASSUME TypeOK, RowsInv, NEW new \in SUBSET Rep, Accept(new)
  PROVE  RowsInv'
<1> DEFINE adds == {<<r, "ADD">> : r \in new}
<1>1. ToSet(queue') = {op \in ToSet(queue) : \A n \in adds : n[1] # op[1]} \cup adds
  <2>1. adds \in SUBSET Op /\ queue' \in Appended(adds)
    BY DEF Op, Accept
  <2> HIDE DEF adds
  <2> QED BY <2>1, AppendedIn DEF TypeOK
<1>2. Pending' \subseteq Pending \cup adds /\ Known' \subseteq Known \cup adds
  BY <1>1 DEF Accept, Known, Pending
<1>3. \A r \in Rep : r \notin new => (<<r, "ADD">> \in Pending => <<r, "ADD">> \in Pending')
  <2> TAKE r \in Rep
  <2>1. r \notin new => \A n \in adds : n[1] # r
    OBVIOUS
  <2> QED BY <1>1, <2>1 DEF Accept, Pending
<1>4. /\ \A r \in new : rep[r] = "PENDING" /\ <<r, "ADD">> \in Pending'
      /\ rep' = [r \in Rep |-> IF r \in new THEN "ACTIVE" ELSE rep[r]]
      /\ keyed' = keyed \cup new
      /\ UNCHANGED <<applied, failed, tries>>
  BY <1>1 DEF Accept, Pending
<1>5. \A op \in adds : tries[op] < MaxTries
  BY <1>4, MemoryAssumption DEF RowsInv
<1>6. \A r \in Rep : <<r, "REMOVE">> \notin adds /\ (<<r, "ADD">> \in adds => r \in new)
  OBVIOUS
<1> HIDE DEF adds
<1> QED BY <1>2, <1>3, <1>4, <1>5, <1>6 DEF RowsInv, Gone

LEMMA QueueKeepsRows ==
  ASSUME TypeOK, RowsInv, NEW scope \in SUBSET Rep, QueueErasure(scope)
  PROVE  RowsInv'
<1> DEFINE moved   == {r \in scope : rep[r] \in {"PENDING", "ACTIVE"}}
           due     == {r \in keyed : \/ r \in moved
                                     \/ rep[r] = "ERASING" /\ NeedsRemove(r)}
           removes == Removes(due)
<1>0. due \subseteq Rep /\ removes = {<<r, "REMOVE">> : r \in due}
  BY DEF TypeOK, Removes
<1>1. ToSet(queue') = {op \in ToSet(queue) : \A n \in removes : n[1] # op[1]} \cup removes
  <2>1. removes \in SUBSET Op /\ queue' \in Appended(removes)
    BY <1>0 DEF Op, QueueErasure
  <2> HIDE DEF removes
  <2> QED BY <2>1, AppendedIn DEF TypeOK
<1>2. /\ backoff' = {op \in backoff : \A n \in removes : n[1] # op[1]}
      /\ failed' = failed \ removes
      /\ tries' = [op \in Op |-> IF op \in removes THEN 0 ELSE tries[op]]
      /\ rep' = [r \in Rep |-> IF r \in moved THEN "ERASING" ELSE rep[r]]
      /\ UNCHANGED <<keyed, applied, pass>>
  BY DEF QueueErasure
<1>3. /\ Pending' = {op \in Pending : \A n \in removes : n[1] # op[1]} \cup removes
      /\ Known' \subseteq Known \cup removes
  BY <1>1, <1>2 DEF Pending, Known
<1>4. \A r \in Rep : rep'[r] = IF r \in moved THEN "ERASING" ELSE rep[r]
  BY <1>2
<1>5. \A r \in due : rep'[r] = "ERASING"
  BY <1>0, <1>4
<1>6. \A r \in Rep : rep'[r] = "ACTIVE" => rep[r] = "ACTIVE" /\ r \notin due
  BY <1>4, <1>5
<1>7. \A r \in Rep : r \notin due => \A n \in removes : n[1] # r
  BY <1>0
<1>8. \A r \in Rep : rep'[r] = "ACTIVE" =>
         <<r, "ADD">> \in Pending' \cup applied' \cup failed'
  <2> TAKE r \in Rep
  <2> HAVE rep'[r] = "ACTIVE"
  <2>1. <<r, "ADD">> \in Pending \cup applied \cup failed /\ r \notin due
    BY <1>6 DEF RowsInv
  <2>2. <<r, "ADD">> \notin removes
    BY <1>0
  <2>3. <<r, "ADD">> \in Pending => <<r, "ADD">> \in Pending'
    BY <2>1, <1>3, <1>7
  <2> QED BY <2>1, <2>2, <2>3, <1>2
<1>9. \A op \in Pending' : tries'[op] < MaxTries
  <2>1. Pending \subseteq Op /\ removes \subseteq Op
    BY <1>0 DEF Pending, ToSet, TypeOK, Op
  <2> HIDE DEF removes
  <2>2. \A op \in removes : tries'[op] = 0
    BY <2>1, <1>2
  <2>3. \A op \in Pending : op \notin removes => tries'[op] = tries[op]
    BY <2>1, <1>2
  <2> QED BY <1>3, <2>2, <2>3, MemoryAssumption DEF RowsInv
<1>10. \A r \in Rep : rep'[r] = "PENDING" => tries'[<<r, "ADD">>] = 0
  <2> TAKE r \in Rep
  <2>1. <<r, "ADD">> \in Op /\ <<r, "ADD">> \notin removes
    BY <1>0 DEF Op
  <2> HIDE DEF removes
  <2>2. tries'[<<r, "ADD">>] = tries[<<r, "ADD">>]
    BY <2>1, <1>2
  <2> QED BY <2>2, <1>4 DEF RowsInv
<1>11. \A r \in Rep : Gone(r) => Gone(r)'
  BY <1>4 DEF Gone
<1>12. \A r \in Rep : <<r, "REMOVE">> \in Known' => Gone(r)'
  BY <1>0, <1>3, <1>5, <1>11 DEF RowsInv, Gone
<1>13. \A r \in Rep : <<r, "ADD">> \in Known' => rep'[r] # "PENDING"
  <2>1. \A r \in Rep : <<r, "ADD">> \notin removes
    BY <1>0
  <2> HIDE DEF removes
  <2> QED BY <2>1, <1>3, <1>4 DEF RowsInv
<1>14. /\ \A r \in Rep : rep'[r] = "ACTIVE" => r \in keyed'
       /\ \A r \in Rep : rep'[r] \in {"PENDING", "ERASED"} => r \notin keyed'
  BY <1>2, <1>4 DEF RowsInv
<1> QED BY <1>8, <1>9, <1>10, <1>12, <1>13, <1>14 DEF RowsInv

LEMMA ClearKeepsRows ==
  ASSUME TypeOK, RowsInv, NEW t \in Thread, Clear(t)
  PROVE  RowsInv'
<1> DEFINE cleared == thread[t].ready \cap Erasing
<1>1. /\ rep' = [r \in Rep |-> IF r \in cleared THEN "ERASED" ELSE rep[r]]
      /\ keyed' = keyed \ cleared
      /\ UNCHANGED <<queue, backoff, applied, failed, tries, pass>>
  BY DEF Clear, ops
<1>2. \A r \in cleared : rep[r] = "ERASING"
  BY DEF Erasing
<1>3. Known' = Known /\ Pending' = Pending
  BY <1>1 DEF Known, Pending
<1> HIDE DEF cleared
<1> QED BY <1>1, <1>2, <1>3 DEF RowsInv, Gone

LEMMA SettleKeepsRows ==
  ASSUME TypeOK, RowsInv, Settle
  PROVE  RowsInv'
<1> DEFINE still == ToSet(pass.claimed) \cap Pending
           lost  == {op \in still \ Succeeded : RanOut(op)}
           again == still \ (Succeeded \cup lost)
<1>1. /\ applied' = applied \cup (still \cap Succeeded)
      /\ failed' = failed \cup lost
      /\ tries' = [op \in Op |-> IF op \in still THEN tries[op] + 1 ELSE tries[op]]
      /\ queue' = Without(still)
      /\ backoff' = (backoff \ still) \cup again
      /\ UNCHANGED <<rep, keyed>>
      /\ pass' = NoPass
  BY DEF Settle, rows
<1>2. ToSet(queue') = ToSet(queue) \ still /\ ToSet(pass'.claimed) = {}
  <2>1. ToSet(pass'.claimed) = {}
    BY <1>1 DEF NoPass, ToSet
  <2> HIDE DEF still
  <2> QED BY <2>1, <1>1, WithoutIn DEF TypeOK
<1>3. Pending' = (Pending \ still) \cup again
  BY <1>1, <1>2 DEF Pending
<1>4. /\ still \subseteq Pending
      /\ still = (still \cap Succeeded) \cup lost \cup again
  OBVIOUS
<1>5. /\ Known' \subseteq Known
      /\ Pending \cup applied \cup failed \subseteq Pending' \cup applied' \cup failed'
  <2> HIDE DEF lost, again
  <2> QED BY <1>1, <1>2, <1>3, <1>4 DEF Known
<1>6. Pending \subseteq Op
  BY DEF Pending, ToSet, TypeOK
<1>7. \A op \in Pending' : tries'[op] < MaxTries
  <2>1. \A op \in again : tries'[op] < MaxTries
    <3> TAKE op \in again
    <3>1. op \in Op /\ ~ RanOut(op) /\ op \in still
      BY <1>6
    <3>2. tries[op] \in Nat
      BY <3>1 DEF TypeOK
    <3> HIDE DEF still, again
    <3> QED BY <3>1, <3>2, <1>1, MemoryAssumption DEF RanOut
  <2>2. \A op \in Pending \ still : tries'[op] = tries[op]
    <3> HIDE DEF still
    <3> QED BY <1>1, <1>6
  <2> HIDE DEF still, again
  <2> QED BY <1>3, <2>1, <2>2 DEF RowsInv
<1>8. \A r \in Rep : rep[r] = "PENDING" => tries'[<<r, "ADD">>] = 0
  <2> TAKE r \in Rep
  <2> HAVE rep[r] = "PENDING"
  <2>1. <<r, "ADD">> \notin still /\ tries[<<r, "ADD">>] = 0 /\ <<r, "ADD">> \in Op
    BY DEF RowsInv, Known, Op
  <2> HIDE DEF still
  <2> QED BY <2>1, <1>1
<1> HIDE DEF still, lost, again
<1> QED BY <1>1, <1>5, <1>7, <1>8 DEF RowsInv, Gone

LEMMA OtherOpsKeepRows ==
  ASSUME TypeOK, RowsInv
  PROVE  /\ \A op \in Op : BackoffEnds(op) => RowsInv'
         /\ Requeue => RowsInv'
         /\ \A t \in Thread : Claim(t) => RowsInv'
<1>1. ASSUME NEW op \in Op, BackoffEnds(op) PROVE RowsInv'
  <2>1. ToSet(queue') = ToSet(queue) \cup {op}
    BY <1>1, OneMore DEF BackoffEnds, TypeOK
  <2>2. Pending' = Pending /\ Known' = Known
    BY <1>1, <2>1 DEF BackoffEnds, Pending, Known
  <2> QED BY <1>1, <2>2 DEF BackoffEnds, rows, RowsInv, Gone
<1>2. ASSUME Requeue PROVE RowsInv'
  <2>1. PICK order \in SetToSeqs(failed) : queue' = queue \o order
    BY <1>2 DEF Requeue
  <2>2. IsFiniteSet(failed) /\ failed \subseteq Op
    BY OpIsFinite, FS_Subset DEF TypeOK
  <2>3. order \in Seq(Op) /\ ToSet(order) = failed
    BY <2>2, OrderOf
  <2>4. ToSet(queue') = ToSet(queue) \cup failed
    BY <2>1, <2>3, Joined DEF TypeOK
  <2>5. /\ failed' = {}
        /\ tries' = [op \in Op |-> IF op \in failed THEN 0 ELSE tries[op]]
        /\ UNCHANGED <<rep, keyed, backoff, applied, pass>>
    BY <1>2 DEF Requeue, rows
  <2>6. Pending' = Pending \cup failed /\ Known' = Known
    BY <2>4, <2>5 DEF Pending, Known
  <2>7. Pending \subseteq Op
    BY DEF Pending, ToSet, TypeOK
  <2>8. \A op \in Op : tries'[op] = IF op \in failed THEN 0 ELSE tries[op]
    BY <2>5
  <2>9. \A op \in Pending' : tries'[op] < MaxTries
    BY <2>2, <2>6, <2>7, <2>8, MemoryAssumption DEF RowsInv
  <2>10. \A r \in Rep : <<r, "ADD">> \in Op
    BY DEF Op
  <2> QED BY <2>5, <2>6, <2>8, <2>9, <2>10 DEF RowsInv, Gone
<1>3. ASSUME NEW t \in Thread, Claim(t) PROVE RowsInv'
  <2> DEFINE n   == IF thread[t].limit < Len(queue) THEN thread[t].limit ELSE Len(queue)
             due == SubSeq(queue, 1, n)
  <2>1. queue \in Seq(Op) /\ thread[t].limit \in Nat
    BY DEF TypeOK, Calls
  <2>2. n \in 0..Len(queue)
    BY <2>1
  <2>3. due \in Seq(Op) /\ ToSet(due) \subseteq ToSet(queue)
    <3> HIDE DEF n
    <3>1. due \in Seq(Op) /\ \A i \in DOMAIN due : i \in DOMAIN queue /\ due[i] = queue[i]
      BY <2>1, <2>2
    <3> HIDE DEF due
    <3> QED BY <3>1 DEF ToSet
  <2>4. UNCHANGED <<rep, keyed, queue, backoff, applied, failed, tries>>
    BY <1>3 DEF Claim, rows, ops
  <2>5. pass'.claimed \in {pass.claimed, due}
    <3>1. pass' = pass \/ pass' = [NoPass EXCEPT !.step = "open", !.claimed = due, !.todo = due]
      BY <1>3 DEF Claim
    <3> HIDE DEF due
    <3> QED BY <3>1 DEF NoPass
  <2> HIDE DEF due
  <2>6. Known' \subseteq Known /\ Pending' = Pending
    BY <2>3, <2>4, <2>5 DEF Known, Pending
  <2> QED BY <2>4, <2>6 DEF RowsInv, Gone
<1> QED BY <1>1, <1>2, <1>3

LEMMA NextRows ==
  ASSUME TypeOK, RowsInv, [Next]_vars
  PROVE  RowsInv'
<1>1. CASE UNCHANGED vars
  BY <1>1, RowsKept DEF vars, state
<1>2. ASSUME NEW t \in Thread, QuietStep(t) PROVE RowsInv'
  BY <1>2, QuietFrame, RowsKept
<1>3. CASE PassWork
  BY <1>3, PassFrame, RowsKept
<1>4. CASE PassEnds
  <2>1. pass'.claimed \in {pass.claimed, << >>}
    <3>1. NoPass.claimed = << >>
      BY DEF NoPass
    <3>2. [NoPass EXCEPT !.step = "open", !.validate = TRUE].claimed = << >>
      BY DEF NoPass
    <3> QED BY <1>4, <3>1, <3>2, PassEndsFrame
  <2> QED BY <1>4, <2>1, PassEndsFrame, RowsKept
<1>5. CASE Damage
  BY <1>5, RowsKept DEF Damage, rows, ops
<1>6. ASSUME NEW t \in Thread, FinalizeSpace(t) PROVE RowsInv'
  BY <1>6, RowsKept DEF FinalizeSpace, rows, ops
<1>7. CASE Resume
  BY <1>7, QueueKeepsRows DEF Resume
<1>8. ASSUME NEW t \in Caller, NEW scope \in SUBSET Rep, Erase(t, scope) PROVE RowsInv'
  BY <1>8, QueueKeepsRows DEF Erase
<1> QED
  BY <1>1, <1>2, <1>3, <1>4, <1>5, <1>6, <1>7, <1>8, StepCases, AcceptKeepsRows,
     ClearKeepsRows, SettleKeepsRows, OtherOpsKeepRows

LEMMA InitRows == ASSUME Init PROVE RowsInv
<1>1. Known = {} /\ Pending = {}
  BY DEF Init, Known, Pending, ToSet, NoPass
<1>2. \A r \in Rep : <<r, "ADD">> \in Op
  BY DEF Op
<1> QED BY <1>1, <1>2 DEF Init, RowsInv, Gone

-----------------------------------------------------------------------------
(* What no step undoes *)

LEMMA NothingComesBack ==
  ASSUME TypeOK, RowsInv, [Next]_vars
  PROVE  /\ \A r \in Rep : Gone(r) => Gone(r)' /\ (r \notin keyed => r \notin keyed')
         /\ \A r \in Rep : rep[r] = "ERASED" => rep'[r] = "ERASED"
         /\ applied \subseteq applied'
         /\ keyed \subseteq keyed' \/ \E t \in Thread : Clear(t)
<1>1. CASE UNCHANGED <<rep, keyed, applied>>
  BY <1>1 DEF Gone
<1>2. ASSUME NEW new \in SUBSET Rep, Accept(new)
      PROVE  /\ \A r \in Rep : Gone(r) => Gone(r)' /\ (r \notin keyed => r \notin keyed')
             /\ \A r \in Rep : rep[r] = "ERASED" => rep'[r] = "ERASED"
             /\ applied \subseteq applied' /\ keyed \subseteq keyed'
  BY <1>2 DEF Accept, Gone
<1>3. ASSUME NEW scope \in SUBSET Rep, QueueErasure(scope)
      PROVE  /\ \A r \in Rep : Gone(r) => Gone(r)' /\ (r \notin keyed => r \notin keyed')
             /\ \A r \in Rep : rep[r] = "ERASED" => rep'[r] = "ERASED"
             /\ applied \subseteq applied' /\ keyed \subseteq keyed'
  BY <1>3 DEF QueueErasure, Gone
<1>4. ASSUME NEW t \in Thread, Clear(t)
      PROVE  /\ \A r \in Rep : Gone(r) => Gone(r)' /\ (r \notin keyed => r \notin keyed')
             /\ \A r \in Rep : rep[r] = "ERASED" => rep'[r] = "ERASED"
             /\ applied \subseteq applied'
  BY <1>4 DEF Clear, Gone, ops
<1>5. CASE Settle
  <2>1. UNCHANGED <<rep, keyed>> /\ applied \subseteq applied'
    BY <1>5 DEF Settle, rows
  <2> QED BY <2>1 DEF Gone
<1>6. \/ UNCHANGED <<rep, keyed, applied>>
      \/ \E new \in SUBSET Rep : Accept(new)
      \/ \E scope \in SUBSET Rep : QueueErasure(scope)
      \/ \E t \in Thread : Clear(t)
      \/ Settle
  <2>1. CASE UNCHANGED vars
    BY <2>1 DEF vars, state
  <2>2. ASSUME NEW t \in Thread, Claim(t) \/ FinalizeSpace(t)
        PROVE  UNCHANGED <<rep, keyed, applied>>
    BY <2>2 DEF Claim, FinalizeSpace, rows, ops
  <2>3. CASE Damage \/ Requeue \/ \E op \in Op : BackoffEnds(op)
    BY <2>3 DEF Damage, Requeue, BackoffEnds, rows, ops
  <2>4. CASE Resume
    BY <2>4 DEF Resume
  <2>5. ASSUME NEW t \in Caller, NEW scope \in SUBSET Rep, Erase(t, scope)
        PROVE  QueueErasure(scope)
    BY <2>5 DEF Erase
  <2> QED BY <2>1, <2>2, <2>3, <2>4, <2>5, StepCases, QuietFrame, PassFrame, PassEndsFrame
<1> QED BY <1>1, <1>2, <1>3, <1>4, <1>5, <1>6

-----------------------------------------------------------------------------
(* Files and the memory of a pass *)

\* The steps that leave files and the pass alone, and remove no key.
LEMMA FilesKept ==
  ASSUME FilesInv, PurgeInv,
         UNCHANGED <<live, stale, applied, pass>>, quarantined' \subseteq quarantined,
         keyed \subseteq keyed'
  PROVE  FilesInv' /\ PurgeInv'
<1>1. FilesInv'
  BY DEF FilesInv
<1>2. PurgeInv'
  BY DEF PurgeInv
<1> QED BY <1>1, <1>2

LEMMA PassWorkKeepsFiles ==
  ASSUME TypeOK, RowsInv, FilesInv, PurgeInv, PassWork
  PROVE  FilesInv' /\ PurgeInv'
<1>0. /\ pass \in Passes
      /\ UNCHANGED <<rep, keyed, applied>>
      /\ pass'.claimed = pass.claimed
  BY PassFrame DEF TypeOK
<1>1. \A r \in Rep : <<r, "REMOVE">> \in applied \cup ToSet(pass.claimed) => r \notin Active
  BY DEF RowsInv, Known, Gone, Active
<1>2. Active \subseteq keyed
  BY DEF Active, RowsInv
<1>3. ASSUME OpenIndex PROVE FilesInv' /\ PurgeInv'
  <2>1. CASE live.state = "SOUND"
    <3>1. /\ pass.step = "open"
          /\ stale' \subseteq stale
          /\ pass' = [pass EXCEPT !.step = "apply", !.mem = live.keys]
          /\ UNCHANGED <<live, quarantined>>
      BY <1>3, <2>1 DEF OpenIndex, LeftOf
    <3>2. /\ pass'.mem = live.keys /\ pass'.step = "apply"
          /\ pass'.ok = pass.ok /\ pass'.rebuilt = pass.rebuilt
          /\ pass'.validate = pass.validate
      BY <1>0, <3>1 DEF Passes
    <3>3. FilesInv'
      BY <1>0, <3>1, <3>2 DEF FilesInv
    <3>4. PurgeInv'
      BY <1>0, <3>1, <3>2 DEF PurgeInv
    <3> QED BY <3>3, <3>4
  <2>2. CASE live.state # "SOUND"
    <3> DEFINE own == stale \cup (IF live.state = "NONE" THEN {} ELSE {live.keys})
    <3>1. /\ pass.step = "open"
          /\ stale' \subseteq own
          /\ quarantined' = quarantined \cup (own \ stale')
          /\ live' = [state |-> "NONE", keys |-> {}]
          /\ pass' = [pass EXCEPT !.step = "build", !.rebuilt = pass.validate]
      BY <1>3, <2>2 DEF OpenIndex, LeftOf
    <3>2. /\ pass'.mem = pass.mem /\ pass'.step = "build"
          /\ pass'.ok = pass.ok /\ pass'.validate = pass.validate
      BY <1>0, <3>1 DEF Passes
    <3>3. live'.keys = {}
      BY <3>1
    <3>4. \A file \in own : file \in stale \/ file = live.keys
      OBVIOUS
    <3>5. FilesInv'
      <4> HIDE DEF own
      <4> QED BY <1>0, <3>1, <3>2, <3>3, <3>4 DEF FilesInv
    <3>6. PurgeInv'
      BY <1>0, <3>1, <3>2 DEF PurgeInv
    <3> QED BY <3>5, <3>6
  <2> QED BY <2>1, <2>2
<1>4. ASSUME Build PROVE FilesInv' /\ PurgeInv'
  <2>1. /\ pass' = [pass EXCEPT !.step = "write", !.mem = Active, !.changed = FALSE]
        /\ UNCHANGED <<live, stale, quarantined>>
    BY <1>4 DEF Build, Entries, files
  <2>2. /\ pass'.mem = Active /\ pass'.step = "write" /\ pass'.purge = pass.purge
        /\ pass'.ok = pass.ok /\ pass'.validate = pass.validate
    BY <1>0, <2>1 DEF Passes
  <2>3. FilesInv'
    BY <1>0, <1>1, <1>2, <2>1, <2>2 DEF FilesInv
  <2>4. PurgeInv'
    BY <1>0, <1>1, <2>1, <2>2 DEF PurgeInv
  <2> QED BY <2>3, <2>4
<1>5. ASSUME WriteGeneration PROVE FilesInv' /\ PurgeInv'
  <2>1. /\ pass.step = "write"
        /\ pass' = [pass EXCEPT !.step = "publish"]
        /\ UNCHANGED <<live, stale, quarantined>>
    BY <1>5 DEF WriteGeneration, files
  <2>2. /\ pass'.mem = pass.mem /\ pass'.step = "publish" /\ pass'.purge = pass.purge
        /\ pass'.ok = pass.ok /\ pass'.validate = pass.validate
        /\ pass'.rebuilt = pass.rebuilt
    BY <1>0, <2>1 DEF Passes
  <2>3. FilesInv'
    BY <1>0, <2>1, <2>2 DEF FilesInv
  <2>4. PurgeInv'
    BY <1>0, <2>1, <2>2 DEF PurgeInv
  <2> QED BY <2>3, <2>4
<1>6. ASSUME Publish PROVE FilesInv' /\ PurgeInv'
  <2>1. /\ pass.step = "publish"
        /\ live' = [state |-> "SOUND", keys |-> pass.mem]
        /\ stale' \subseteq stale \cup {live.keys}
        /\ pass' = [pass EXCEPT !.step = "apply", !.changed = FALSE]
        /\ UNCHANGED quarantined
    BY <1>6 DEF Publish, LeftOf
  <2>2. /\ pass'.mem = pass.mem /\ pass'.step = "apply" /\ pass'.purge = pass.purge
        /\ pass'.ok = pass.ok /\ pass'.validate = pass.validate
        /\ pass'.rebuilt = pass.rebuilt /\ live'.keys = pass.mem
    BY <1>0, <2>1 DEF Passes
  <2>3. FilesInv'
    <3>1. \A file \in stale' : file \in stale \/ file = live.keys
      BY <2>1
    <3> QED BY <1>0, <2>1, <2>2, <3>1 DEF FilesInv
  <2>4. PurgeInv'
    BY <1>0, <2>1, <2>2 DEF PurgeInv
  <2> QED BY <2>3, <2>4
<1>7. ASSUME ApplyOne PROVE FilesInv' /\ PurgeInv'
  <2> DEFINE op == Head(pass.todo)
             r  == op[1]
             purge == op[2] = "REMOVE" /\ (r \notin keyed \/ rep[r] = "ERASING")
             mem == CASE op[2] = "ADD" /\ r \in Active -> pass.mem \cup {r}
                      [] op[2] = "REMOVE" /\ ~purge    -> pass.mem \ {r}
                      [] OTHER                         -> pass.mem
  <2>1. /\ pass.step = "apply"
        /\ \E c : pass' = [pass EXCEPT !.todo = Tail(@), !.ok = @ \cup {op}, !.mem = mem,
                                       !.purge = @ \/ purge, !.changed = c]
        /\ UNCHANGED <<live, stale, quarantined>>
    BY <1>7 DEF ApplyOne, files
  <2>2. mem \subseteq pass.mem \cup Active
    OBVIOUS
  <2>3. purge \in BOOLEAN
    OBVIOUS
  <2>4. \A x \in Rep : op = <<x, "REMOVE">> /\ op \in ToSet(pass.claimed) => purge
    <3> HIDE DEF op, mem
    <3> TAKE x \in Rep
    <3> HAVE op = <<x, "REMOVE">> /\ op \in ToSet(pass.claimed)
    <3>1. Gone(x) /\ op[1] = x /\ op[2] = "REMOVE"
      BY DEF RowsInv, Known
    <3> QED BY <3>1 DEF RowsInv, Gone
  <2> HIDE DEF op, mem, purge
  <2>5. /\ pass'.mem = mem /\ pass'.step = "apply" /\ pass'.purge = (pass.purge \/ purge)
        /\ pass'.ok = pass.ok \cup {op} /\ pass'.validate = pass.validate
        /\ pass'.rebuilt = pass.rebuilt
    BY <1>0, <2>1 DEF Passes
  <2>6. FilesInv'
    BY <1>0, <1>1, <1>2, <2>1, <2>2, <2>5 DEF FilesInv
  <2>7. PurgeInv'
    BY <1>0, <1>1, <2>1, <2>2, <2>4, <2>5 DEF PurgeInv
  <2> QED BY <2>6, <2>7
<1>8. ASSUME AfterApply PROVE FilesInv' /\ PurgeInv'
  <2>1. pass.step = "apply" /\ UNCHANGED <<live, stale, quarantined>>
    BY <1>8 DEF AfterApply, files
  <2>2. /\ pass'.mem = pass.mem /\ pass'.purge = pass.purge
        /\ pass'.ok = pass.ok /\ pass'.validate = pass.validate
        /\ pass'.step \in {"build", "write", "retired"}
        /\ pass'.step # "build" => pass'.rebuilt = pass.rebuilt
        /\ pass'.step = "retired" /\ pass.purge /\ pass.ok # {} => pass.rebuilt
    <3> DEFINE todo == Kept(pass.claimed, pass.ok)
               purges == pass.purge /\ pass.ok # {} /\ ~pass.rebuilt
    <3>1. \/ pass' = [pass EXCEPT !.step = "build", !.rebuilt = TRUE, !.todo = todo]
          \/ pass' = [pass EXCEPT !.step = "write"]
          \/ ~purges /\ pass' = [pass EXCEPT !.step = "retired"]
      BY <1>8 DEF AfterApply
    <3> HIDE DEF todo
    <3> QED BY <1>0, <3>1 DEF Passes
  <2>3. FilesInv'
    BY <1>0, <2>1, <2>2 DEF FilesInv
  <2>4. PurgeInv'
    BY <1>0, <2>1, <2>2 DEF PurgeInv
  <2> QED BY <2>3, <2>4
<1>9. ASSUME Retired PROVE FilesInv' /\ PurgeInv'
  <2>1. pass.step = "retired" /\ UNCHANGED <<live, stale, quarantined>>
    BY <1>9 DEF Retired, files
  <2>2. /\ pass'.mem = pass.mem /\ pass'.purge = pass.purge
        /\ pass'.ok \subseteq pass.ok /\ pass'.validate = pass.validate
        /\ pass'.step = "settle" /\ pass'.rebuilt = pass.rebuilt
        /\ \A r \in Rep : <<r, "REMOVE">> \in pass'.ok => stale = {} \/ ~pass.purge
        /\ \A r \in Rep : <<r, "REMOVE">> \in pass'.ok => stale = {}
    <3> DEFINE ok == IF stale = {} THEN pass.ok ELSE IF pass.purge THEN {}
                     ELSE {op \in pass.ok : op[2] = "ADD"}
    <3>1. pass' = [pass EXCEPT !.step = "settle", !.ok = ok]
      BY <1>0, <1>9 DEF Retired, Passes
    <3>2. ok \subseteq pass.ok /\ \A r \in Rep : <<r, "REMOVE">> \in ok => stale = {}
      OBVIOUS
    <3> HIDE DEF ok
    <3> QED BY <1>0, <3>1, <3>2 DEF Passes
  <2>3. FilesInv'
    BY <1>0, <2>1, <2>2 DEF FilesInv
  <2>4. PurgeInv'
    BY <1>0, <2>1, <2>2 DEF PurgeInv
  <2> QED BY <2>3, <2>4
<1>10. ASSUME OperationFails \/ SpaceFails PROVE FilesInv' /\ PurgeInv'
  <2>1. /\ UNCHANGED <<live, quarantined>>
        /\ stale' \in {stale, stale \cup {pass.mem}}
    BY <1>10 DEF OperationFails, SpaceFails, Unfinished, files
  <2>2. /\ pass'.mem = pass.mem /\ pass'.purge = pass.purge
        /\ pass'.validate = pass.validate /\ pass'.rebuilt = pass.rebuilt
        /\ \/ pass'.step = "settle" /\ pass'.ok = {}
           \/ pass'.step = "apply" /\ pass.step = "apply" /\ pass'.ok = pass.ok
    <3>1. CASE OperationFails
      BY <1>0, <3>1 DEF OperationFails, Passes
    <3>2. CASE SpaceFails
      BY <1>0, <3>2 DEF SpaceFails, Passes
    <3> QED BY <1>10, <3>1, <3>2
  <2>3. FilesInv'
    BY <1>0, <2>1, <2>2 DEF FilesInv
  <2>4. PurgeInv'
    BY <1>0, <2>1, <2>2 DEF PurgeInv
  <2> QED BY <2>3, <2>4
<1> QED
  BY <1>3, <1>4, <1>5, <1>6, <1>7, <1>8, <1>9, <1>10 DEF PassWork

\* A pass that is not there, or has just begun.
LEMMA NewPassKeepsFiles ==
  ASSUME FilesInv, RowsInv,
         UNCHANGED <<keyed, live, quarantined, applied>>,
         stale' \subseteq stale \cup {live.keys, pass.mem},
         pass'.mem = {}, pass'.ok = {}, ~pass'.rebuilt,
         ~pass'.validate \/ pass'.claimed = << >>
  PROVE  FilesInv' /\ PurgeInv'
<1>1. FilesInv'
  BY DEF FilesInv
<1>2. PurgeInv'
  BY DEF PurgeInv, ToSet
<1> QED BY <1>1, <1>2

LEMMA NextFiles ==
  ASSUME TypeOK, RowsInv, FilesInv, PurgeInv, ClearInv, [Next]_vars
  PROVE  FilesInv' /\ PurgeInv'
<1>1. CASE UNCHANGED vars
  BY <1>1, FilesKept DEF vars, state
<1>2. ASSUME NEW t \in Thread, QuietStep(t) PROVE FilesInv' /\ PurgeInv'
  BY <1>2, QuietFrame, FilesKept
<1>3. CASE PassWork
  BY <1>3, PassWorkKeepsFiles
<1>4. CASE PassEnds
  <2>1. /\ NoPass.mem = {} /\ NoPass.ok = {} /\ ~NoPass.rebuilt /\ NoPass.claimed = << >>
    BY DEF NoPass
  <2> DEFINE p == [NoPass EXCEPT !.step = "open", !.validate = TRUE]
  <2>2. /\ p.mem = {} /\ p.ok = {} /\ ~p.rebuilt /\ p.claimed = << >>
    BY DEF NoPass
  <2> HIDE DEF p
  <2>3. /\ UNCHANGED <<rep, keyed, live, quarantined, applied>>
        /\ stale' \subseteq stale \cup {live.keys, pass.mem}
        /\ pass' = pass \/ pass' = NoPass \/ pass' = p
    BY <1>4, PassEndsFrame DEF p
  <2>4. CASE pass' = pass
    <3>1. FilesInv'
      BY <2>3, <2>4 DEF FilesInv
    <3>2. PurgeInv'
      BY <2>3, <2>4 DEF PurgeInv
    <3> QED BY <3>1, <3>2
  <2>5. CASE pass' = NoPass \/ pass' = p
    BY <2>1, <2>2, <2>3, <2>5, NewPassKeepsFiles
  <2> QED BY <2>3, <2>4, <2>5
<1>5. CASE Damage
  <2>1. /\ UNCHANGED <<keyed, quarantined, applied, pass>>
        /\ live'.keys \in {live.keys, {}}
        /\ stale' \in {stale, stale \cup {live.keys}}
    BY <1>5 DEF Damage, rows, ops, TypeOK
  <2>2. FilesInv'
    BY <2>1 DEF FilesInv
  <2>3. PurgeInv'
    BY <2>1 DEF PurgeInv
  <2> QED BY <2>2, <2>3
<1>6. ASSUME NEW t \in Thread, FinalizeSpace(t) PROVE FilesInv' /\ PurgeInv'
  <2>1. /\ UNCHANGED <<live, stale, applied, pass, keyed>> /\ quarantined' \subseteq quarantined
    BY <1>6 DEF FinalizeSpace, LeftOf, rows, ops
  <2> QED BY <2>1, FilesKept
<1>7. ASSUME NEW scope, QueueErasure(scope) PROVE FilesInv' /\ PurgeInv'
  BY <1>7, FilesKept DEF QueueErasure, files
<1>8. CASE Resume \/ \E t \in Caller, scope \in SUBSET Rep : Erase(t, scope)
  BY <1>7, <1>8 DEF Resume, Erase
<1>9. ASSUME NEW new \in SUBSET Rep, Accept(new) PROVE FilesInv' /\ PurgeInv'
  BY <1>9, FilesKept DEF Accept, files
<1>10. ASSUME NEW op \in Op, BackoffEnds(op) PROVE FilesInv' /\ PurgeInv'
  BY <1>10, FilesKept DEF BackoffEnds, rows, files
<1>14. CASE Requeue
  BY <1>14, FilesKept DEF Requeue, rows, files
<1>11. ASSUME NEW t \in Thread, Claim(t) PROVE FilesInv' /\ PurgeInv'
  <2>1. UNCHANGED <<keyed, live, stale, quarantined, applied>>
    BY <1>11 DEF Claim, rows, ops, files
  <2>2. CASE pass' = pass
    BY <2>1, <2>2, FilesKept
  <2>3. ASSUME NEW due, pass' = [NoPass EXCEPT !.step = "open", !.claimed = due, !.todo = due]
        PROVE  FilesInv' /\ PurgeInv'
    <3>1. pass'.mem = {} /\ pass'.ok = {} /\ ~pass'.rebuilt /\ ~pass'.validate
      BY <2>3 DEF NoPass
    <3> QED BY <2>1, <3>1, NewPassKeepsFiles
  <2> QED BY <1>11, <2>2, <2>3 DEF Claim
<1>12. ASSUME NEW t \in Thread, Clear(t) PROVE FilesInv' /\ PurgeInv'
  <2> DEFINE cleared == thread[t].ready \cap Erasing
  <2>1. /\ UNCHANGED <<live, stale, quarantined, applied, pass>>
        /\ keyed' = keyed \ cleared
        /\ At(t, "clear")
    BY <1>12 DEF Clear, ops, files
  <2>2. \A r \in cleared : /\ r \notin live.keys /\ r \notin pass.mem
                          /\ \A file \in stale \cup quarantined : r \notin file
    <3> TAKE r \in cleared
    <3>1. /\ r \in Rep
          /\ \/ r \notin keyed
             \/ <<r, "REMOVE">> \in applied /\ \A file \in quarantined : r \notin file
      BY <2>1 DEF ClearInv, Erasing
    <3> QED BY <3>1 DEF FilesInv
  <2>3. FilesInv'
    <3> HIDE DEF cleared
    <3> QED BY <2>1, <2>2 DEF FilesInv
  <2>4. PurgeInv'
    BY <2>1 DEF PurgeInv
  <2> QED BY <2>3, <2>4
<1>13. ASSUME Settle PROVE FilesInv' /\ PurgeInv'
  <2>1. /\ UNCHANGED <<keyed, live, stale, quarantined>>
        /\ applied' \subseteq applied \cup (ToSet(pass.claimed) \cap pass.ok)
        /\ pass.step = "settle"
        /\ pass' = NoPass
    BY <1>13 DEF Settle, Succeeded, rows, files
  <2>2. /\ NoPass.mem = {} /\ ToSet(NoPass.claimed) = {}
    BY DEF NoPass, ToSet
  <2>3. FilesInv'
    BY <2>1, <2>2 DEF FilesInv, PurgeInv
  <2>4. PurgeInv'
    BY <2>1, <2>2 DEF PurgeInv
  <2> QED BY <2>3, <2>4
<1> QED
  BY <1>1, <1>2, <1>3, <1>4, <1>5, <1>6, <1>8, <1>9, <1>10, <1>11, <1>12,
     <1>13, <1>14, StepCases

-----------------------------------------------------------------------------
(* What the index covers *)

\* The steps that leave the pass, the live index and what is applied alone, and make
\* ACTIVE only what was PENDING.
LEMMA CoverKept ==
  ASSUME RowsInv, CoverInv,
         UNCHANGED <<live, applied, pass>>,
         \A r \in Rep : rep'[r] = "ACTIVE" => rep[r] \in {"ACTIVE", "PENDING"}
  PROVE  CoverInv'
<1>1. \A r \in Active' : <<r, "ADD">> \in applied \cup ToSet(pass.claimed) => r \in Active
  BY DEF Active, RowsInv, Known
<1> QED BY <1>1 DEF CoverInv

LEMMA PassWorkKeepsCover ==
  ASSUME TypeOK, RowsInv, CoverInv, PassWork
  PROVE  CoverInv'
<1>0. /\ pass \in Passes
      /\ UNCHANGED <<rep, keyed, applied>>
      /\ pass'.claimed = pass.claimed
      /\ pass'.validate = pass.validate
      /\ Active' = Active
  BY PassFrame DEF TypeOK, Active
<1>1. ASSUME OpenIndex PROVE CoverInv'
  <2>1. CASE live.state = "SOUND"
    <3>1. /\ pass.step = "open"
          /\ pass' = [pass EXCEPT !.step = "apply", !.mem = live.keys]
          /\ UNCHANGED live
      BY <1>1, <2>1 DEF OpenIndex
    <3>2. /\ pass'.mem = live.keys /\ pass'.step = "apply"
          /\ pass'.ok = pass.ok /\ pass'.todo = pass.todo
      BY <1>0, <3>1 DEF Passes
    <3> QED BY <1>0, <2>1, <3>1, <3>2 DEF CoverInv
  <2>2. CASE live.state # "SOUND"
    <3>1. /\ pass.step = "open"
          /\ live' = [state |-> "NONE", keys |-> {}]
          /\ pass' = [pass EXCEPT !.step = "build", !.rebuilt = pass.validate]
      BY <1>1, <2>2 DEF OpenIndex
    <3>2. pass'.step = "build" /\ pass'.todo = pass.todo /\ live'.state = "NONE"
      BY <1>0, <3>1 DEF Passes
    <3> QED BY <1>0, <3>2 DEF CoverInv
  <2> QED BY <2>1, <2>2
<1>2. ASSUME Build PROVE CoverInv'
  <2>1. /\ pass' = [pass EXCEPT !.step = "write", !.mem = Active, !.changed = FALSE]
        /\ UNCHANGED live
    BY <1>2 DEF Build, Entries, files
  <2>2. pass'.mem = Active /\ pass'.step = "write" /\ pass'.todo = pass.todo
    BY <1>0, <2>1 DEF Passes
  <2> QED BY <1>0, <2>1, <2>2 DEF CoverInv
<1>3. ASSUME WriteGeneration PROVE CoverInv'
  <2>1. pass.step = "write" /\ pass' = [pass EXCEPT !.step = "publish"] /\ UNCHANGED live
    BY <1>3 DEF WriteGeneration, files
  <2>2. /\ pass'.mem = pass.mem /\ pass'.step = "publish" /\ pass'.todo = pass.todo
        /\ pass'.ok = pass.ok
    BY <1>0, <2>1 DEF Passes
  <2> QED BY <1>0, <2>1, <2>2 DEF CoverInv
<1>4. ASSUME Publish PROVE CoverInv'
  <2>1. /\ pass.step = "publish"
        /\ live' = [state |-> "SOUND", keys |-> pass.mem]
        /\ pass' = [pass EXCEPT !.step = "apply", !.changed = FALSE]
    BY <1>4 DEF Publish
  <2>2. /\ pass'.mem = pass.mem /\ pass'.step = "apply" /\ pass'.todo = pass.todo
        /\ pass'.ok = pass.ok /\ live'.keys = pass.mem
    BY <1>0, <2>1 DEF Passes
  <2> QED BY <1>0, <2>1, <2>2 DEF CoverInv
<1>5. ASSUME ApplyOne PROVE CoverInv'
  <2> DEFINE op == Head(pass.todo)
             r  == op[1]
             purge == op[2] = "REMOVE" /\ (r \notin keyed \/ rep[r] = "ERASING")
             mem == CASE op[2] = "ADD" /\ r \in Active -> pass.mem \cup {r}
                      [] op[2] = "REMOVE" /\ ~purge    -> pass.mem \ {r}
                      [] OTHER                         -> pass.mem
             changed == mem # pass.mem
  <2>1. /\ pass.step = "apply" /\ pass.todo # << >> /\ pass.todo \in Seq(Op)
        /\ \E d : pass' = [pass EXCEPT !.todo = Tail(@), !.ok = @ \cup {op}, !.mem = mem,
                                       !.purge = d, !.changed = @ \/ changed]
        /\ UNCHANGED live
    BY <1>0, <1>5 DEF ApplyOne, files, Passes
  <2>2. op \in ToSet(pass.todo) /\ ToSet(Tail(pass.todo)) \subseteq ToSet(pass.todo)
    <3> DEFINE tail == Tail(pass.todo)
    <3>1. \A i \in DOMAIN tail : i + 1 \in DOMAIN pass.todo /\ tail[i] = pass.todo[i + 1]
      BY <2>1
    <3>2. 1 \in DOMAIN pass.todo /\ op = pass.todo[1]
      BY <2>1
    <3> HIDE DEF tail, op
    <3> QED BY <3>1, <3>2 DEF ToSet, tail
  <2>3. op \in ToSet(pass.claimed) /\ op \in Op
    <3>1. op \in Op
      BY <2>1
    <3> HIDE DEF op
    <3> QED BY <2>2, <3>1 DEF CoverInv
  <2>4. \A x \in Active : x \in pass.mem => x \in mem
    <3> HIDE DEF op
    <3> TAKE x \in Active
    <3>1. op # <<x, "REMOVE">>
      BY <2>3 DEF RowsInv, Known, Gone, Active
    <3>2. op[2] = "REMOVE" => op[1] # x
      BY <2>3, <3>1 DEF Op
    <3> QED BY <3>2
  <2>5. \A x \in Active : op = <<x, "ADD">> => x \in mem
    OBVIOUS
  <2>6. changed \in BOOLEAN
    OBVIOUS
  <2>7. ~changed => mem = pass.mem
    OBVIOUS
  <2> HIDE DEF op, mem, changed
  <2>8. /\ pass'.mem = mem /\ pass'.step = "apply" /\ pass'.todo = Tail(pass.todo)
        /\ pass'.ok = pass.ok \cup {op} /\ pass'.changed = (pass.changed \/ changed)
    BY <1>0, <2>1 DEF Passes
  <2> QED BY <1>0, <2>1, <2>2, <2>4, <2>5, <2>7, <2>8 DEF CoverInv
<1>6. ASSUME AfterApply PROVE CoverInv'
  <2> DEFINE todo == Kept(pass.claimed, pass.ok)
  <2>1. pass.step = "apply" /\ UNCHANGED live
    BY <1>6 DEF AfterApply, files
  <2>2. /\ pass'.mem = pass.mem /\ pass'.ok = pass.ok
        /\ pass'.todo \in {pass.todo, todo}
        /\ pass'.step \in {"build", "write", "retired"}
        /\ pass'.step = "retired" /\ ~pass.validate => ~pass.changed
    <3>1. \/ pass' = [pass EXCEPT !.step = "build", !.rebuilt = TRUE, !.todo = todo]
          \/ pass' = [pass EXCEPT !.step = "write"]
          \/ (~pass.validate => ~pass.changed) /\ pass' = [pass EXCEPT !.step = "retired"]
      BY <1>6 DEF AfterApply
    <3> HIDE DEF todo
    <3> QED BY <1>0, <3>1 DEF Passes
  <2>3. ToSet(todo) \subseteq ToSet(pass.claimed)
    BY <1>0, KeptIn DEF Passes
  <2> HIDE DEF todo
  <2> QED BY <1>0, <2>1, <2>2, <2>3 DEF CoverInv
<1>7. ASSUME Retired PROVE CoverInv'
  <2>1. pass.step = "retired" /\ UNCHANGED live
    BY <1>7 DEF Retired, files
  <2>2. pass'.ok \subseteq pass.ok /\ pass'.step = "settle" /\ pass'.todo = pass.todo
    BY <1>0, <1>7 DEF Retired, Passes
  <2>3. ToSet(<< >>) = {}
    BY DEF ToSet
  <2> QED BY <1>0, <2>1, <2>2, <2>3 DEF CoverInv
<1>8. ASSUME OperationFails PROVE CoverInv'
  <2>1. pass.step = "apply" /\ pass.todo # << >> /\ pass.todo \in Seq(Op) /\ UNCHANGED live
    BY <1>0, <1>8 DEF OperationFails, Passes, files
  <2>2. ToSet(Tail(pass.todo)) \subseteq ToSet(pass.todo)
    <3> DEFINE tail == Tail(pass.todo)
    <3>1. \A i \in DOMAIN tail : i + 1 \in DOMAIN pass.todo /\ tail[i] = pass.todo[i + 1]
      BY <2>1
    <3> HIDE DEF tail
    <3> QED BY <3>1 DEF ToSet, tail
  <2>3. \/ pass'.step = "settle" /\ pass'.ok = {} /\ pass'.todo = pass.todo
        \/ /\ pass'.step = "apply" /\ pass'.ok = pass.ok /\ pass'.todo = Tail(pass.todo)
           /\ pass'.mem = pass.mem /\ pass'.changed = pass.changed
    BY <1>0, <1>8 DEF OperationFails, Passes
  <2> QED BY <1>0, <2>1, <2>2, <2>3 DEF CoverInv
<1>9. ASSUME SpaceFails PROVE CoverInv'
  <2>1. pass'.step = "settle" /\ pass'.ok = {} /\ pass'.todo = pass.todo /\ UNCHANGED live
    BY <1>0, <1>9 DEF SpaceFails, Passes
  <2> QED BY <1>0, <2>1 DEF CoverInv
<1> QED
  BY <1>1, <1>2, <1>3, <1>4, <1>5, <1>6, <1>7, <1>8, <1>9 DEF PassWork

LEMMA NewPassKeepsCover ==
  ASSUME CoverInv, UNCHANGED <<rep, live, applied>>,
         pass'.step \in {"none", "open"}, pass'.ok = {}, pass'.todo = pass'.claimed,
         pass'.validate => pass'.claimed = << >>
  PROVE  CoverInv'
BY DEF CoverInv, Active

LEMMA NextCovers ==
  ASSUME TypeOK, RowsInv, CoverInv, [Next]_vars
  PROVE  CoverInv'
<1>1. CASE UNCHANGED vars
  BY <1>1, CoverKept DEF vars, state
<1>2. ASSUME NEW t \in Thread, QuietStep(t) PROVE CoverInv'
  BY <1>2, QuietFrame, CoverKept
<1>3. CASE PassWork
  BY <1>3, PassWorkKeepsCover
<1>4. CASE PassEnds
  <2> DEFINE p == [NoPass EXCEPT !.step = "open", !.validate = TRUE]
  <2>1. \A q \in {NoPass, p} : /\ q.step \in {"none", "open"} /\ q.ok = {}
                              /\ q.todo = << >> /\ q.claimed = << >>
    <3>1. /\ NoPass.step = "none" /\ NoPass.ok = {}
          /\ NoPass.todo = << >> /\ NoPass.claimed = << >>
      BY DEF NoPass
    <3>2. p.step = "open" /\ p.ok = {} /\ p.todo = << >> /\ p.claimed = << >>
      BY DEF NoPass
    <3> HIDE DEF p
    <3> QED BY <3>1, <3>2
  <2> HIDE DEF p
  <2>2. UNCHANGED <<rep, live, applied>> /\ pass' \in {pass, NoPass, p}
    BY <1>4, PassEndsFrame DEF p
  <2>3. CASE pass' = pass
    BY <2>2, <2>3, CoverKept
  <2>4. CASE pass' \in {NoPass, p}
    BY <2>1, <2>2, <2>4, NewPassKeepsCover
  <2> QED BY <2>2, <2>3, <2>4
<1>5. CASE Damage
  <2>1. UNCHANGED <<rep, applied, pass>> /\ live'.state # "SOUND"
    BY <1>5 DEF Damage, rows, ops, TypeOK
  <2> QED BY <2>1 DEF CoverInv, Active
<1>6. ASSUME NEW t \in Thread, FinalizeSpace(t) PROVE CoverInv'
  BY <1>6, CoverKept DEF FinalizeSpace, rows, ops
<1>7. ASSUME NEW scope, QueueErasure(scope) PROVE CoverInv'
  <2>1. \A r \in Rep : rep'[r] = "ACTIVE" => rep[r] = "ACTIVE"
    BY <1>7 DEF QueueErasure
  <2> QED BY <1>7, <2>1, CoverKept DEF QueueErasure, files
<1>8. CASE Resume \/ \E t \in Caller, scope \in SUBSET Rep : Erase(t, scope)
  BY <1>7, <1>8 DEF Resume, Erase
<1>9. ASSUME NEW new \in SUBSET Rep, Accept(new) PROVE CoverInv'
  <2>1. \A r \in Rep : rep'[r] = "ACTIVE" => rep[r] \in {"ACTIVE", "PENDING"}
    BY <1>9 DEF Accept
  <2> QED BY <1>9, <2>1, CoverKept DEF Accept, files
<1>10. ASSUME NEW op \in Op, BackoffEnds(op) PROVE CoverInv'
  BY <1>10, CoverKept DEF BackoffEnds, rows, files
<1>11. CASE Requeue
  BY <1>11, CoverKept DEF Requeue, rows, files
<1>12. ASSUME NEW t \in Thread, Claim(t) PROVE CoverInv'
  <2>1. UNCHANGED <<rep, live, applied>>
    BY <1>12 DEF Claim, rows, ops, files
  <2>2. CASE pass' = pass
    BY <2>1, <2>2, CoverKept
  <2>3. ASSUME NEW due, pass' = [NoPass EXCEPT !.step = "open", !.claimed = due, !.todo = due]
        PROVE  CoverInv'
    <3>1. /\ pass'.step = "open" /\ pass'.ok = {} /\ pass'.todo = pass'.claimed
          /\ ~pass'.validate
      BY <2>3 DEF NoPass
    <3> QED BY <2>1, <3>1, NewPassKeepsCover
  <2> QED BY <1>12, <2>2, <2>3 DEF Claim
<1>13. ASSUME NEW t \in Thread, Clear(t) PROVE CoverInv'
  <2>1. \A r \in Rep : rep'[r] = "ACTIVE" => rep[r] = "ACTIVE"
    BY <1>13 DEF Clear
  <2> QED BY <1>13, <2>1, CoverKept DEF Clear, ops, files
<1>14. CASE Settle
  <2>1. /\ UNCHANGED <<rep, live>>
        /\ applied' \subseteq applied \cup (ToSet(pass.claimed) \cap pass.ok)
        /\ pass.step = "settle"
        /\ pass' = NoPass
    BY <1>14 DEF Settle, Succeeded, rows, files
  <2>2. /\ NoPass.step = "none" /\ NoPass.claimed = << >> /\ NoPass.todo = << >>
    BY DEF NoPass
  <2> QED BY <2>1, <2>2 DEF CoverInv, Active
<1> QED
  BY <1>1, <1>2, <1>3, <1>4, <1>5, <1>6, <1>8, <1>9, <1>10, <1>11, <1>12, <1>13, <1>14,
     StepCases

-----------------------------------------------------------------------------
(* What a step does to a call *)

EarlySteps == {"drive", "pass", "finalize", "summarize", "decide", "validate", "requeue",
               "resume"}

\* A call has not begun to report, and is about what it was about or about what was just
\* queued for erasure.
Early(u) ==
    /\ thread'[u].step \in EarlySteps
    /\ thread'[u].token \in {thread[u].token, 0}
    /\ thread'[u].home = "idle" =>
          \/ thread[u].home = "idle" /\ thread'[u].scope = thread[u].scope
          \/ \E scope \in SUBSET Rep : QueueErasure(scope) /\ thread'[u].scope = scope

Reports(u) ==
    \/ FinalizeSpace(u) \/ Clear(u) \/ Summarize(u) \/ ReadMarker(u) \/ Truncate(u)
    \/ ClearMarker(u) \/ (u \in Caller /\ Search(u))

CallMoved(u) ==
    \/ thread'[u] = thread[u]
    \/ \E step \in Step : thread'[u] = Rest(step)
    \/ Early(u)
    \/ Reports(u)

LEMMA Returned ==
  ASSUME TypeOK, NEW t \in Thread, Return(t), NEW u \in Thread
  PROVE  CallMoved(u)
<1>1. thread[t].home \in Step
  BY DEF TypeOK, Calls
<1> QED BY <1>1 DEF TypeOK, Return, CallMoved

LEMMA WentTo ==
  ASSUME TypeOK, NEW t \in Thread, NEW step \in EarlySteps, GoTo(t, step), NEW u \in Thread
  PROVE  CallMoved(u)
<1>1. CASE u # t
  BY <1>1 DEF TypeOK, GoTo, CallMoved
<1>2. CASE u = t
  <2> DEFINE c == thread[u]
  <2>1. thread'[u] = [c EXCEPT !.step = step] /\ c \in Calls
    BY <1>2 DEF TypeOK, GoTo
  <2>2. Early(u)
    <3>1. /\ thread'[u].step = step /\ thread'[u].token = c.token
          /\ thread'[u].home = c.home /\ thread'[u].scope = c.scope
      <4> HIDE DEF c
      <4> QED BY <2>1 DEF Calls
    <3> QED BY <3>1 DEF Early
  <2> QED BY <2>2 DEF CallMoved
<1> QED BY <1>1, <1>2

LEMMA CallMoves ==
  ASSUME TypeOK, [Next]_vars, NEW u \in Thread
  PROVE  CallMoved(u)
<1>0. /\ thread \in [Thread -> Calls] /\ thread[u] \in Calls
      /\ Main \in Thread /\ Caller \subseteq Thread
  BY DEF TypeOK, Thread
<1>1. CASE UNCHANGED thread
  BY <1>1 DEF CallMoved
<1>2. ASSUME NEW new \in SUBSET Rep, Accept(new) PROVE CallMoved(u)
  <2>1. CASE u = Main /\ phase = "open"
    <3>1. /\ thread'[u].step = "pass" /\ thread'[u].token = thread[u].token
          /\ thread'[u].home = thread[u].home /\ thread'[u].scope = thread[u].scope
      BY <1>0, <1>2, <2>1 DEF Accept, Calls
    <3> QED BY <3>1 DEF CallMoved, Early, EarlySteps
  <2>2. CASE ~(u = Main /\ phase = "open")
    <3>1. thread'[u] = thread[u]
      BY <1>0, <1>2, <2>2 DEF Accept
    <3> QED BY <3>1 DEF CallMoved
  <2> QED BY <2>1, <2>2
<1>3. ASSUME NEW t \in Caller, NEW scope \in SUBSET Rep, Erase(t, scope) PROVE CallMoved(u)
  <2>1. CASE u = t
    <3>1. /\ thread'[u].step = "drive" /\ thread'[u].token = thread[u].token
          /\ thread'[u].scope = scope /\ QueueErasure(scope)
      BY <1>0, <1>3, <2>1 DEF Erase, Calls
    <3> QED BY <3>1 DEF CallMoved, Early, EarlySteps
  <2>2. CASE u # t
    BY <1>0, <1>3, <2>2 DEF Erase, CallMoved
  <2> QED BY <2>1, <2>2
<1>4. ASSUME NEW t \in Thread, Claim(t) PROVE CallMoved(u)
  <2>1. Return(t) \/ GoTo(t, "finalize") \/ UNCHANGED thread
    BY <1>4 DEF Claim
  <2> QED BY <1>1, <2>1, Returned, WentTo DEF EarlySteps
<1>5. ASSUME NEW t \in Thread, FinalizeSpace(t) \/ Clear(t) \/ Summarize(t) \/ ReadMarker(t)
                              \/ Truncate(t) \/ ClearMarker(t) \/ (t \in Caller /\ Search(t))
      PROVE  CallMoved(u)
  <2>1. CASE u = t
    BY <1>5, <2>1 DEF CallMoved, Reports
  <2>2. CASE u # t
    <3>1. thread'[u] = thread[u]
      <4>1. CASE FinalizeSpace(t)
        BY <1>0, <2>2, <4>1 DEF FinalizeSpace
      <4>2. CASE Clear(t) \/ ClearMarker(t)
        BY <1>0, <2>2, <4>2 DEF Clear, ClearMarker, GoTo
      <4>3. CASE Summarize(t) \/ ReadMarker(t) \/ (t \in Caller /\ Search(t))
        BY <1>0, <2>2, <4>3 DEF Summarize, ReadMarker, Search
      <4>4. CASE Truncate(t)
        BY <1>0, <2>2, <4>4 DEF Truncate, GoTo, StillOwed
      <4> QED BY <1>5, <4>1, <4>2, <4>3, <4>4
    <3> QED BY <3>1 DEF CallMoved
  <2> QED BY <2>1, <2>2
<1>6. ASSUME NEW t \in Thread, Drive(t) PROVE CallMoved(u)
  <2>1. CASE u = t
    <3>1. /\ thread'[u].step = AfterDrive /\ thread'[u].token = thread[u].token
          /\ thread'[u].home = thread[u].home /\ thread'[u].scope = thread[u].scope
      BY <1>0, <1>6, <2>1 DEF Drive, Calls
    <3>2. AfterDrive \in EarlySteps
      BY DEF AfterDrive, EarlySteps
    <3> QED BY <3>1, <3>2 DEF CallMoved, Early
  <2>2. CASE u # t
    BY <1>0, <1>6, <2>2 DEF Drive, CallMoved
  <2> QED BY <2>1, <2>2
<1>7. ASSUME NEW t \in Thread, SpaceBlocked(t) PROVE CallMoved(u)
  <2>1. CASE u = t
    <3>1. /\ thread'[u].step = "summarize" /\ thread'[u].token = thread[u].token
          /\ thread'[u].home = thread[u].home /\ thread'[u].scope = thread[u].scope
      BY <1>0, <1>7, <2>1 DEF SpaceBlocked, Calls
    <3> QED BY <3>1 DEF CallMoved, Early, EarlySteps
  <2>2. CASE u # t
    BY <1>0, <1>7, <2>2 DEF SpaceBlocked, CallMoved
  <2> QED BY <2>1, <2>2
<1>8. ASSUME NEW t \in Thread, Report(t) \/ SearchAnswer(t) PROVE CallMoved(u)
  BY <1>8, Returned DEF Report, SearchAnswer
<1>9. ASSUME NEW t \in Thread, CallFails(t) PROVE CallMoved(u)
  <2>1. CASE Return(t)
    BY <2>1, Returned
  <2>2. CASE thread' = [thread EXCEPT ![t] = Rest("down")]
    BY <1>0, <2>2 DEF CallMoved, Step
  <2> QED BY <1>9, <2>1, <2>2 DEF CallFails
<1>10. CASE Decide \/ DecideAnswer
  <2>1. CASE DecideAnswer
    BY <1>0, <2>1, Returned DEF DecideAnswer
  <2>2. CASE Decide /\ u = Main
    <3>1. /\ thread'[u].step = "decide" /\ thread'[u].token = thread[u].token
          /\ thread'[u].home = thread[u].home /\ thread'[u].scope = thread[u].scope
      BY <1>0, <2>2 DEF Decide, Calls
    <3> QED BY <3>1 DEF CallMoved, Early, EarlySteps
  <2>3. CASE Decide /\ u # Main
    BY <1>0, <2>3 DEF Decide, CallMoved
  <2> QED BY <1>10, <2>1, <2>2, <2>3
<1>11. CASE Start \/ OpenLibrary \/ Crash
  <2>1. thread'[u] = thread[u] \/ \E step \in {"accepting", "idle", "down"} : thread'[u] = Rest(step)
    BY <1>0, <1>11 DEF Start, OpenLibrary, Crash
  <2> QED BY <2>1 DEF CallMoved, Step
<1>12. CASE CatchUp
  <2>1. CASE u = Main
    <3>1. /\ thread'[u].step = "pass" /\ thread'[u].token = thread[u].token
          /\ thread'[u].home = "caught_up"
      BY <1>0, <1>12, <2>1 DEF CatchUp, Calls
    <3> QED BY <3>1 DEF CallMoved, Early, EarlySteps
  <2>2. CASE u # Main
    BY <1>0, <1>12, <2>2 DEF CatchUp, CallMoved
  <2> QED BY <2>1, <2>2
<1>13. CASE Resume
  <2>1. CASE u = Main
    <3>1. thread'[u].step = "drive" /\ thread'[u].token = 0 /\ thread'[u].home = "catch_up"
      BY <1>0, <1>13, <2>1 DEF Resume, Rest
    <3> QED BY <3>1 DEF CallMoved, Early, EarlySteps
  <2>2. CASE u # Main
    BY <1>0, <1>13, <2>2 DEF Resume, CallMoved
  <2> QED BY <2>1, <2>2
<1>14. CASE Validate \/ Validated \/ Requeue
  BY <1>0, <1>14, WentTo DEF Validate, Validated, Requeue, EarlySteps
<1>15. CASE Settle
  <2>1. CASE lock \notin Thread
    <3>1. thread' = thread
      BY <1>0, <1>15, <2>1 DEF Settle, Return
    <3> QED BY <1>1, <3>1
  <2>2. CASE lock \in Thread /\ Return(lock)
    BY <2>2, Returned
  <2>3. ASSUME lock \in Thread,
               NEW owed, thread' = [thread EXCEPT ![lock].step = "finalize", ![lock].owed = owed]
        PROVE  CallMoved(u)
    <3>1. CASE u = lock
      <4>1. /\ thread'[u].step = "finalize" /\ thread'[u].token = thread[u].token
            /\ thread'[u].home = thread[u].home /\ thread'[u].scope = thread[u].scope
        BY <1>0, <2>3, <3>1 DEF Calls
      <4> QED BY <4>1 DEF CallMoved, Early, EarlySteps
    <3>2. CASE u # lock
      BY <1>0, <2>3, <3>2 DEF CallMoved
    <3> QED BY <3>1, <3>2
  <2> QED BY <1>15, <2>1, <2>2, <2>3 DEF Settle
<1>16. CASE PassWork \/ Damage \/ \E op \in Op : BackoffEnds(op)
  BY <1>1, <1>16, PassFrame DEF Damage, BackoffEnds
<1>17. CASE UNCHANGED vars
  BY <1>1, <1>17 DEF vars, state
<1>18. ASSUME NEW t \in Thread, QuietStep(t) PROVE CallMoved(u)
  BY <1>5, <1>6, <1>7, <1>8, <1>10, <1>11, <1>12, <1>18 DEF QuietStep
<1>19. CASE PassEnds
  BY <1>9, <1>11, <1>14, <1>19 DEF PassEnds
<1> QED
  BY <1>2, <1>3, <1>4, <1>5, <1>13, <1>14, <1>15, <1>16, <1>17, <1>18, <1>19, StepCases

-----------------------------------------------------------------------------
(* What is about to be cleared *)

LEMMA QuarantineMoves ==
  ASSUME TypeOK, [Next]_vars
  PROVE  \A file \in quarantined' : file \in quarantined \cup stale \cup {live.keys}
<1>1. CASE UNCHANGED quarantined
  BY <1>1
<1>2. CASE OpenIndex
  BY <1>2 DEF OpenIndex
<1>3. ASSUME NEW t \in Thread, FinalizeSpace(t) PROVE quarantined' \subseteq quarantined
  BY <1>3 DEF FinalizeSpace, LeftOf
<1>4. CASE PassWork /\ ~OpenIndex
  BY <1>1, <1>4 DEF PassWork, Build, WriteGeneration, Publish, ApplyOne, AfterApply, Retired,
                    OperationFails, SpaceFails, files
<1>5. ASSUME NEW t \in Thread, QuietStep(t) PROVE UNCHANGED quarantined
  BY <1>5, QuietFrame
<1>6. CASE PassEnds
  BY <1>1, <1>6, PassEndsFrame
<1>7. CASE UNCHANGED vars
  BY <1>1, <1>7 DEF vars, state
<1>8. ASSUME NEW t \in Thread, Claim(t) \/ Clear(t) PROVE UNCHANGED quarantined
  BY <1>8 DEF Claim, Clear, files
<1>9. CASE Resume \/ Requeue \/ Settle \/ Damage
  BY <1>1, <1>9 DEF Resume, QueueErasure, Requeue, Settle, Damage, files
<1>10. ASSUME NEW new \in SUBSET Rep, Accept(new) PROVE UNCHANGED quarantined
  BY <1>10 DEF Accept, files
<1>11. ASSUME NEW t \in Caller, NEW scope \in SUBSET Rep, Erase(t, scope)
       PROVE  UNCHANGED quarantined
  BY <1>11 DEF Erase, QueueErasure, files
<1>12. ASSUME NEW op \in Op, BackoffEnds(op) PROVE UNCHANGED quarantined
  BY <1>12 DEF BackoffEnds, files
<1> QED
  BY <1>1, <1>2, <1>3, <1>4, <1>5, <1>6, <1>7, <1>8, <1>9, <1>10, <1>11, <1>12, StepCases

LEMMA NextClears ==
  ASSUME TypeOK, RowsInv, FilesInv, ClearInv, [Next]_vars
  PROVE  ClearInv'
<1> SUFFICES ASSUME NEW u \in Thread, thread'[u].step = "clear", NEW r \in thread'[u].ready
             PROVE  /\ Gone(r)'
                    /\ \/ r \notin keyed'
                       \/ /\ <<r, "REMOVE">> \in applied'
                          /\ \A file \in quarantined' : r \notin file
  BY DEF ClearInv, At
<1>0. /\ thread[u] \in Calls
      /\ \A x \in Rep : Gone(x) => Gone(x)' /\ (x \notin keyed => x \notin keyed')
      /\ applied \subseteq applied'
  BY NothingComesBack DEF TypeOK
<1>1. CASE thread'[u] = thread[u]
  <2>1. /\ r \in Rep /\ Gone(r)
        /\ r \notin keyed \/ (<<r, "REMOVE">> \in applied /\ \A file \in quarantined : r \notin file)
    BY <1>0, <1>1 DEF ClearInv, At, Calls
  <2>2. CASE r \notin keyed
    BY <1>0, <2>1, <2>2
  <2>3. CASE <<r, "REMOVE">> \in applied /\ \A file \in quarantined : r \notin file
    <3>1. r \notin live.keys /\ \A file \in stale : r \notin file
      BY <2>1, <2>3 DEF FilesInv
    <3>2. \A file \in quarantined' : r \notin file
      BY <2>3, <3>1, QuarantineMoves
    <3> QED BY <1>0, <2>1, <2>3, <3>2
  <2> QED BY <2>1, <2>2, <2>3
<1>2. ASSUME NEW step \in Step, thread'[u] = Rest(step) PROVE FALSE
  BY <1>2 DEF Rest
<1>3. CASE FinalizeSpace(u)
  <2> DEFINE removed == {x \in Erasing \cap keyed : RemovalDone(x)}
             keyless == Erasing \ keyed
             clean == removed = {} \/ Left(quarantined') = {}
             ready == IF clean THEN removed \cup keyless ELSE keyless
  <2>1. /\ thread' = [thread EXCEPT ![u].ready = ready,
                                    ![u].owed = @ \/ ~clean,
                                    ![u].step = IF ready = {} THEN "summarize" ELSE "clear"]
        /\ UNCHANGED <<rep, keyed>>
    BY <1>3 DEF FinalizeSpace, rows
  <2>2. r \in ready
    <3> HIDE DEF ready, clean
    <3>1. thread'[u].ready = ready
      BY <1>0, <2>1 DEF TypeOK, Calls
    <3> QED BY <3>1
  <2>3. r \in Erasing
    BY <2>2
  <2>4. Gone(r)'
    BY <2>1, <2>3 DEF Gone, Erasing
  <2>5. CASE r \notin keyed
    BY <2>1, <2>4, <2>5
  <2>6. CASE r \in keyed
    <3>1. r \in removed /\ clean
      BY <2>2, <2>6
    <3>2. quarantined' = {} /\ <<r, "REMOVE">> \in applied
      BY <3>1 DEF Left, RemovalDone
    <3> QED BY <1>0, <2>4, <3>2
  <2> QED BY <2>5, <2>6
<1>4. CASE Early(u)
  BY <1>4 DEF Early, EarlySteps
<1>5. CASE Clear(u) \/ Summarize(u) \/ ReadMarker(u) \/ Truncate(u) \/ ClearMarker(u) \/ Search(u)
  <2>1. thread'[u].step \in {"summarize", "read_marker", "truncate", "done", "clear_marker", "search"}
    <3>1. thread[u] \in Calls /\ thread \in [Thread -> Calls]
      BY DEF TypeOK
    <3>2. CASE Clear(u) \/ ClearMarker(u) \/ Truncate(u)
      BY <3>1, <3>2 DEF Clear, ClearMarker, Truncate, GoTo, StillOwed, Calls
    <3>3. CASE Summarize(u)
      BY <3>1, <3>3 DEF Summarize, Calls
    <3>4. CASE ReadMarker(u)
      BY <3>1, <3>4 DEF ReadMarker, Calls
    <3>5. CASE Search(u)
      BY <3>1, <3>5 DEF Search, Calls
    <3> QED BY <1>5, <3>2, <3>3, <3>4, <3>5
  <2> QED BY <2>1
<1> QED BY <1>1, <1>2, <1>3, <1>4, <1>5, CallMoves DEF CallMoved, Reports

-----------------------------------------------------------------------------
(* The write-ahead log *)

\* Only erasing adds to what is erased, and nothing else brings an erased vector back
\* into the log.
LEMMA LogMoves ==
  ASSUME TypeOK, RowsInv, [Next]_vars
  PROVE  \/ \E t \in Thread : Clear(t)
         \/ \E t \in Thread : Truncate(t) /\ UNCHANGED <<rep, marker>> /\ log' \in {log, {}}
         \/ \E t \in Thread : ClearMarker(t) /\ UNCHANGED <<rep, log>>
         \/ Erased' = Erased /\ marker' = marker /\ log' \cap Erased = log \cap Erased
<1>1. CASE UNCHANGED <<rep, marker, log>>
  BY <1>1 DEF Erased
<1>2. ASSUME NEW new \in SUBSET Rep, Accept(new)
      PROVE  Erased' = Erased /\ marker' = marker /\ log' \cap Erased = log \cap Erased
  BY <1>2 DEF Accept, Erased
<1>3. ASSUME NEW scope \in SUBSET Rep, QueueErasure(scope)
      PROVE  Erased' = Erased /\ marker' = marker /\ log' \cap Erased = log \cap Erased
  BY <1>3 DEF QueueErasure, Erased, TypeOK
<1>4. CASE Resume \/ \E t \in Caller, scope \in SUBSET Rep : Erase(t, scope)
  BY <1>3, <1>4 DEF Resume, Erase
<1>5. ASSUME NEW t \in Thread, Truncate(t)
      PROVE  UNCHANGED <<rep, marker>> /\ log' \in {log, {}}
  BY <1>5 DEF Truncate, rows
<1>6. ASSUME NEW t \in Thread, ClearMarker(t)
      PROVE  UNCHANGED <<rep, log>>
  BY <1>6 DEF ClearMarker, rows
<1>7. ASSUME NEW t \in Thread, QuietStep(t), ~Truncate(t), ~ClearMarker(t)
      PROVE  UNCHANGED <<rep, marker, log>>
  <2>1. CASE Drive(t) \/ Summarize(t) \/ ReadMarker(t) \/ Report(t) \/ SpaceBlocked(t)
             \/ SearchAnswer(t)
    BY <2>1 DEF Drive, Summarize, ReadMarker, Report, SpaceBlocked, SearchAnswer, rows
  <2>2. CASE Search(t) \/ Decide \/ DecideAnswer \/ Start \/ CatchUp \/ OpenLibrary
    BY <2>2 DEF Search, Decide, DecideAnswer, Start, CatchUp, OpenLibrary, rows
  <2> QED BY <1>7, <2>1, <2>2 DEF QuietStep
<1>8. CASE PassWork
  BY <1>1, <1>8, PassFrame
<1>9. CASE PassEnds
  BY <1>1, <1>9, PassEndsFrame
<1>10. CASE Requeue \/ Settle \/ Damage
  BY <1>1, <1>10 DEF Requeue, Settle, Damage, rows
<1>11. ASSUME NEW t \in Thread, Claim(t) \/ FinalizeSpace(t)
       PROVE  UNCHANGED <<rep, marker, log>>
  BY <1>11 DEF Claim, FinalizeSpace, rows
<1>12. ASSUME NEW op \in Op, BackoffEnds(op) PROVE UNCHANGED <<rep, marker, log>>
  BY <1>12 DEF BackoffEnds, rows
<1>13. CASE UNCHANGED vars
  BY <1>1, <1>13 DEF vars, state
<1> QED
  BY <1>1, <1>2, <1>4, <1>5, <1>6, <1>7, <1>8, <1>9, <1>10, <1>11, <1>12, <1>13, StepCases

\* The values of the marker: what was read stands for no more than what is erased.
LEMMA ErasedGrows ==
  ASSUME NEW A \in SUBSET Rep, NEW B \in SUBSET Rep, A \subseteq B
  PROVE  /\ Cardinality(A) \in Nat /\ Cardinality(B) \in Nat
         /\ Cardinality(A) <= Cardinality(B)
         /\ A # B => Cardinality(A) < Cardinality(B)
<1>1. IsFiniteSet(B)
  BY FS_Subset, MemoryAssumption
<1>2. /\ IsFiniteSet(A) /\ Cardinality(A) <= Cardinality(B)
      /\ Cardinality(B) = Cardinality(A) => B = A
  BY <1>1, FS_Subset
<1> QED BY <1>1, <1>2, FS_CardinalityType

LEMMA NextLog ==
  ASSUME TypeOK, RowsInv, LogInv, [Next]_vars
  PROVE  LogInv'
<1> DEFINE n == Cardinality(Erased)
<1>0. /\ thread \in [Thread -> Calls]
      /\ Erased \in SUBSET Rep /\ Erased' \in SUBSET Rep
      /\ \A u \in Thread : thread[u].token \in Nat
  BY DEF TypeOK, Erased, Calls
<1>1. n \in Nat /\ marker \in {0, n} /\ marker \in Nat
  BY <1>0, ErasedGrows DEF LogInv
\* What a step does to the marker that a call has read.
<1>2. ASSUME NEW u \in Thread
      PROVE  \/ /\ thread'[u].token = thread[u].token
                /\ thread'[u].step = "clear_marker" => thread[u].step = "clear_marker" \/ Truncate(u)
             \/ thread'[u].token = 0
             \/ thread'[u].token = marker /\ ReadMarker(u) /\ thread'[u].step # "clear_marker"
  <2>0. thread[u] \in Calls
    BY <1>0
  <2>1. CASE thread'[u] = thread[u]
    BY <2>1
  <2>2. ASSUME NEW step \in Step, thread'[u] = Rest(step) PROVE thread'[u].token = 0
    BY <2>2 DEF Rest
  <2>3. CASE Early(u)
    BY <2>3 DEF Early, EarlySteps
  <2>4. CASE FinalizeSpace(u)
    <3>1. \E a, b : \/ thread' = [thread EXCEPT ![u].ready = a, ![u].owed = b, ![u].step = "summarize"]
                    \/ thread' = [thread EXCEPT ![u].ready = a, ![u].owed = b, ![u].step = "clear"]
      BY <2>4 DEF FinalizeSpace
    <3> QED BY <1>0, <2>0, <3>1 DEF Calls
  <2>5. CASE Clear(u) \/ ClearMarker(u)
    BY <1>0, <2>0, <2>5 DEF Clear, ClearMarker, GoTo, Calls
  <2>6. CASE Summarize(u)
    BY <1>0, <2>0, <2>6 DEF Summarize, Calls
  <2>7. CASE Truncate(u)
    BY <1>0, <2>0, <2>7 DEF Truncate, GoTo, StillOwed, Calls
  <2>8. CASE Search(u)
    BY <1>0, <2>0, <2>8 DEF Search, Calls
  <2>9. CASE ReadMarker(u)
    BY <1>0, <2>0, <2>9 DEF ReadMarker, Calls
  <2> QED BY <2>1, <2>2, <2>3, <2>4, <2>5, <2>6, <2>7, <2>8, <2>9, CallMoves
          DEF CallMoved, Reports
<1>3. CASE Erased' = Erased /\ marker' = marker /\ log' \cap Erased = log \cap Erased
  <2>1. \A u \in Thread : ~Truncate(u) \/ log' = {} \/ thread'[u].step # "clear_marker"
    <3> TAKE u \in Thread
    <3>1. thread[u] \in Calls
      BY <1>0
    <3> QED BY <1>0, <3>1 DEF Truncate, GoTo, StillOwed, Calls
  <2>2. LogIsOwed'
    BY <1>3 DEF LogInv, LogIsOwed
  <2>3. \A u \in Thread : thread'[u].token <= n
    BY <1>0, <1>1, <1>2 DEF LogInv
  <2>4. \A u \in Thread : thread'[u].step = "clear_marker" /\ thread'[u].token = n =>
            Erased \cap log' = {}
    <3> TAKE u \in Thread
    <3> HAVE thread'[u].step = "clear_marker" /\ thread'[u].token = n
    <3>1. CASE thread'[u].token = 0
      <4>1. Erased = {}
        <5>1. IsFiniteSet(Erased)
          BY <1>0, FS_Subset, MemoryAssumption
        <5> QED BY <5>1, <3>1, FS_EmptySet
      <4> QED BY <4>1
    <3>2. CASE thread[u].step = "clear_marker" /\ thread'[u].token = thread[u].token
      BY <1>3, <3>2 DEF LogInv, At
    <3>3. CASE Truncate(u)
      BY <2>1, <3>3
    <3> QED BY <1>2, <3>1, <3>2, <3>3
  <2>5. Cardinality(Erased)' = n
    BY <1>3
  <2> HIDE DEF n
  <2> QED BY <1>1, <1>3, <2>2, <2>3, <2>4, <2>5 DEF LogInv, At, n
<1>4. ASSUME NEW t \in Thread, Truncate(t), UNCHANGED <<rep, marker>>, log' \in {log, {}}
      PROVE  LogInv'
  <2>1. Erased' = Erased
    BY <1>4 DEF Erased
  <2>2. CASE log' = log
    BY <1>3, <1>4, <2>1, <2>2
  <2>3. CASE log' = {}
    <3>1. \A u \in Thread : thread'[u].token <= n
      BY <1>0, <1>1, <1>2 DEF LogInv
    <3> QED BY <1>1, <1>4, <2>1, <2>3, <3>1 DEF LogInv, LogIsOwed, At
  <2> QED BY <1>4, <2>2, <2>3
<1>5. ASSUME NEW t \in Thread, ClearMarker(t), UNCHANGED <<rep, log>> PROVE LogInv'
  <2>1. /\ Erased' = Erased /\ At(t, "clear_marker")
        /\ marker' = IF marker = thread[t].token THEN 0 ELSE marker
        /\ thread'[t].step = "done"
    BY <1>0, <1>5 DEF Erased, ClearMarker, ClearIfUnchanged, GoTo, Calls
  <2>2. CASE marker' = marker
    BY <1>3, <1>5, <2>1, <2>2
  <2>3. CASE marker' # marker
    <3>1. marker = n /\ thread[t].token = n /\ marker' = 0
      BY <1>1, <2>1, <2>3
    <3>2. Erased \cap log = {}
      BY <2>1, <3>1 DEF LogInv
    <3>3. \A u \in Thread : thread'[u].token <= n
      BY <1>0, <1>1, <1>2 DEF LogInv
    <3> QED BY <1>1, <1>5, <2>1, <3>1, <3>2, <3>3 DEF LogInv, LogIsOwed, At
  <2> QED BY <2>2, <2>3
<1>6. ASSUME NEW t \in Thread, Clear(t) PROVE LogInv'
  <2> DEFINE cleared == thread[t].ready \cap Erasing
  <2>1. /\ rep' = [r \in Rep |-> IF r \in cleared THEN "ERASED" ELSE rep[r]]
        /\ log' = log \cup cleared
        /\ marker' = Cardinality(Erased')
    BY <1>6 DEF Clear, Erased
  <2>2. Erased' = Erased \cup cleared /\ cleared \cap Erased = {}
    BY <2>1 DEF Erased, Erasing
  <2>3. /\ Cardinality(Erased') \in Nat /\ n <= Cardinality(Erased')
        /\ cleared # {} => n < Cardinality(Erased')
    <3> HIDE DEF cleared
    <3>1. Erased \subseteq Erased' /\ (cleared # {} => Erased # Erased')
      BY <2>2
    <3> QED BY <1>0, <3>1, ErasedGrows
  <2>4. \A u \in Thread : thread'[u].token \in Nat /\ thread'[u].token <= n
    BY <1>0, <1>1, <1>2 DEF LogInv
  <2>5. \A u \in Thread : thread'[u].token <= Cardinality(Erased')
    BY <1>1, <2>3, <2>4
  <2>6. \A u \in Thread : thread'[u].step = "clear_marker" /\ thread'[u].token = Cardinality(Erased')
            => Erased' \cap log' = {}
    <3> TAKE u \in Thread
    <3> HAVE thread'[u].step = "clear_marker" /\ thread'[u].token = Cardinality(Erased')
    <3>1. cleared = {} /\ thread'[u].token = n
      BY <1>1, <2>3, <2>4
    <3>2. Erased' = Erased /\ log' = log
      BY <2>1, <2>2, <3>1
    <3>3. ~Truncate(u)
      <4> SUFFICES ASSUME Truncate(u) PROVE FALSE
        OBVIOUS
      <4>1. At(t, "clear") /\ At(u, "truncate") /\ t # u
        BY <1>6 DEF Truncate, Clear, At
      <4>2. thread'[t].step = "summarize"
        BY <1>0, <1>6 DEF Clear, GoTo, Calls
      <4>3. thread'[t] = thread[t]
        BY <1>0, <4>1 DEF Truncate, GoTo, StillOwed
      <4> QED BY <4>1, <4>2, <4>3 DEF At
    <3>4. CASE thread'[u].token = 0
      <4>1. IsFiniteSet(Erased)
        BY <1>0, FS_Subset, MemoryAssumption
      <4> QED BY <4>1, <3>1, <3>2, <3>4, FS_EmptySet
    <3>5. CASE thread[u].step = "clear_marker" /\ thread'[u].token = thread[u].token
      BY <3>1, <3>2, <3>5 DEF LogInv, At
    <3> QED BY <1>2, <3>3, <3>4, <3>5
  <2>7. LogIsOwed'
    <3>1. CASE cleared = {} /\ Erased = {}
      BY <2>2, <3>1 DEF LogIsOwed
    <3>2. CASE cleared # {} \/ Erased # {}
      <4>1. Erased' # {} /\ IsFiniteSet(Erased')
        BY <1>0, <2>2, <3>2, FS_Subset, MemoryAssumption
      <4>2. marker' # 0
        BY <2>1, <4>1, FS_EmptySet
      <4> QED BY <4>2 DEF LogIsOwed
    <3> QED BY <3>1, <3>2
  <2> HIDE DEF cleared
  <2> QED BY <2>1, <2>5, <2>6, <2>7 DEF LogInv, At
<1> QED BY <1>3, <1>4, <1>5, <1>6, LogMoves

-----------------------------------------------------------------------------
(* The coordinator's lock *)

\* A thread may be at a step with a home: callers only while the library is open, the
\* main thread at a step of startup only while it is starting.
MayBeAt(t, call) ==
    /\ phase # "closed"
    /\ t \in Caller => /\ phase = "open" /\ call.home = "idle"
                       /\ call.step \notin StartupSteps
    /\ t = Main => /\ call.home \in Homes
                   /\ phase = "open" => call.home = "idle" /\ call.step \notin StartupSteps

OnlyMoves(t) == \A u \in Thread : u # t => thread'[u] = thread[u]

LEMMA LockKept ==
  ASSUME TypeOK, LockInv, NEW t \in Thread, OnlyMoves(t), MayBeAt(t, thread'[t]),
         thread'[t].step \notin {"search", "clear"},
         lock # t, lock' = lock, pass'.step = pass.step, pass'.validate = pass.validate,
         phase' = phase
  PROVE  LockInv'
<1>1. Caller \subseteq Thread /\ Main \in Thread /\ lock \in Thread \cup {Nobody}
      /\ phase \in {"closed", "starting", "open"}
  BY DEF TypeOK, Thread
<1> QED BY <1>1 DEF LockInv, OnlyMoves, MayBeAt, At

LEMMA LockReleased ==
  ASSUME TypeOK, LockInv, NEW t \in Thread, OnlyMoves(t), MayBeAt(t, thread'[t]),
         thread'[t].step \notin {"search", "clear"},
         lock \in {t, Nobody}, lock' = Nobody, pass'.step = "none", ~pass'.validate,
         phase' = phase
  PROVE  LockInv'
<1>1. /\ Caller \subseteq Thread /\ Main \in Thread /\ Nobody \notin Thread
      /\ phase \in {"closed", "starting", "open"}
  BY MemoryAssumption DEF TypeOK, Thread
<1> QED BY <1>1 DEF LockInv, OnlyMoves, MayBeAt, At

LEMMA LockTaken ==
  ASSUME TypeOK, LockInv, NEW t \in Thread, OnlyMoves(t), MayBeAt(t, thread'[t]),
         thread'[t].step \in {"pass", "validate", "search", "clear"},
         pass'.step # "none" => thread'[t].step \in {"pass", "validate"},
         pass'.validate => t = Main /\ thread'[t].step = "validate",
         lock = Nobody, lock' = t, phase' = phase
  PROVE  LockInv'
<1>1. /\ Caller \subseteq Thread /\ Main \in Thread /\ Nobody \notin Thread
      /\ phase \in {"closed", "starting", "open"}
  BY MemoryAssumption DEF TypeOK, Thread
<1> QED BY <1>1 DEF LockInv, OnlyMoves, MayBeAt, At

\* Where a thread is when it moves, and where it returns to.
LEMMA Movers ==
  ASSUME TypeOK, LockInv, NEW t \in Thread
  PROVE  /\ thread[t].step \notin {"idle", "down"} => MayBeAt(t, thread[t])
         /\ thread[t].step \notin {"idle", "down"} => MayBeAt(t, Rest(thread[t].home))
         /\ thread[t].step \notin {"pass", "validate", "search", "clear"} => lock # t
         /\ lock = Nobody => lock # t
         /\ thread[t].home \in Homes
         /\ Rest(thread[t].home).step \notin {"search", "clear"}
<1>1. /\ Caller \subseteq Thread /\ Main \in Thread /\ Nobody \notin Thread
      /\ phase \in {"closed", "starting", "open"} /\ (t \in Caller \/ t = Main)
      /\ Main \notin Caller
  BY MemoryAssumption DEF TypeOK, Thread
<1>2. Rest(thread[t].home).step = thread[t].home /\ Rest(thread[t].home).home = thread[t].home
  BY DEF Rest
<1>3. thread[t].home \in Homes
  BY <1>1 DEF LockInv, Homes
<1>4. thread[t].step \notin {"idle", "down"} => MayBeAt(t, thread[t])
  BY <1>1, <1>3 DEF LockInv, MayBeAt, At
<1>5. thread[t].step \notin {"idle", "down"} => MayBeAt(t, Rest(thread[t].home))
  BY <1>1, <1>2, <1>3 DEF LockInv, MayBeAt, At, StartupSteps
<1>6. /\ thread[t].step \notin {"pass", "validate", "search", "clear"} => lock # t
      /\ lock = Nobody => lock # t
  BY <1>1 DEF LockInv
<1>7. Rest(thread[t].home).step \notin {"search", "clear"}
  BY <1>2, <1>3 DEF Homes, StartupSteps
<1> QED BY <1>3, <1>4, <1>5, <1>6, <1>7

\* A pass is only there while its holder is at it.
LEMMA NoPassHere ==
  ASSUME TypeOK, LockInv, NEW t \in Thread, lock = Nobody \/ At(t, "clear") \/ At(t, "search")
  PROVE  pass.step = "none" /\ ~pass.validate
<1>1. Nobody \notin Thread /\ Main \in Thread
  BY MemoryAssumption DEF Thread
<1> QED BY <1>1 DEF LockInv, At

LEMMA StepsOn ==
  ASSUME TypeOK, LockInv, NEW t \in Thread, thread[t].step \notin {"idle", "down"},
         thread'[t].home = thread[t].home,
         thread'[t].step \notin StartupSteps
  PROVE  MayBeAt(t, thread'[t])
BY Movers DEF MayBeAt

\* A step of a call that keeps the lock out of it.
LEMMA CallKeepsLock ==
  ASSUME TypeOK, LockInv, NEW t \in Thread, OnlyMoves(t), lock # t,
         thread[t].step \notin {"idle", "down"},
         \/ thread'[t] = Rest(thread[t].home)
         \/ /\ thread'[t].home = thread[t].home
            /\ thread'[t].step \notin StartupSteps \cup {"search", "clear"},
         UNCHANGED <<lock, pass, phase>>
  PROVE  LockInv'
<1>1. MayBeAt(t, thread'[t]) /\ thread'[t].step \notin {"search", "clear"}
  BY Movers, StepsOn
<1> QED BY <1>1, LockKept

LEMMA CallReleasesLock ==
  ASSUME TypeOK, LockInv, NEW t \in Thread, OnlyMoves(t), lock \in {t, Nobody},
         thread[t].step \notin {"idle", "down"},
         \/ thread'[t] = Rest(thread[t].home)
         \/ /\ thread'[t].home = thread[t].home
            /\ thread'[t].step \notin StartupSteps \cup {"search", "clear"},
         lock' = Nobody, pass'.step = "none", ~pass'.validate, phase' = phase
  PROVE  LockInv'
<1>1. MayBeAt(t, thread'[t]) /\ thread'[t].step \notin {"search", "clear"}
  BY Movers, StepsOn
<1> QED BY <1>1, LockReleased

LEMMA NoPassFields == NoPass.step = "none" /\ ~NoPass.validate
BY DEF NoPass

LEMMA CallsKeepLock ==
  ASSUME TypeOK, LockInv, NEW t \in Thread,
         \/ Claim(t) \/ FinalizeSpace(t) \/ Clear(t) \/ CallFails(t)
         \/ Drive(t) \/ Summarize(t) \/ ReadMarker(t) \/ Truncate(t) \/ ClearMarker(t)
         \/ Report(t) \/ SpaceBlocked(t) \/ SearchAnswer(t)
  PROVE  LockInv'
<1>0. /\ thread \in [Thread -> Calls] /\ thread[t] \in Calls
      /\ thread[t].step \notin {"pass", "validate", "search", "clear"} => lock # t
      /\ lock = Nobody => lock # t
  BY Movers DEF TypeOK
<1>1. ASSUME Return(t)
      PROVE  OnlyMoves(t) /\ thread'[t] = Rest(thread[t].home)
  BY <1>0, <1>1 DEF Return, OnlyMoves
<1>2. ASSUME NEW step, GoTo(t, step)
      PROVE  OnlyMoves(t) /\ thread'[t].step = step /\ thread'[t].home = thread[t].home
  BY <1>0, <1>2 DEF GoTo, OnlyMoves, Calls
<1>3. CASE Claim(t)
  <2>0. thread[t].step = "pass" /\ lock = Nobody /\ UNCHANGED phase
    BY <1>3 DEF Claim, At
  <2>1. CASE UNCHANGED <<lock, pass>>
    <3>1. CASE Return(t) \/ GoTo(t, "finalize")
      BY <1>0, <1>1, <1>2, <2>0, <2>1, <3>1, CallKeepsLock DEF StartupSteps
    <3>2. CASE UNCHANGED thread
      BY <2>0, <2>1, <3>2 DEF LockInv, At
    <3> QED BY <1>3, <3>1, <3>2 DEF Claim
  <2>2. ASSUME NEW due, lock' = t, UNCHANGED thread,
               pass' = [NoPass EXCEPT !.step = "open", !.claimed = due, !.todo = due]
        PROVE  LockInv'
    <3>1. pass'.step = "open" /\ ~pass'.validate
      BY <2>2 DEF NoPass
    <3>2. OnlyMoves(t) /\ MayBeAt(t, thread'[t]) /\ thread'[t].step = "pass"
      BY <2>0, <2>2, Movers DEF OnlyMoves
    <3> QED BY <2>0, <2>2, <3>1, <3>2, LockTaken
  <2> QED BY <1>3, <2>1, <2>2 DEF Claim
<1>4. CASE FinalizeSpace(t)
  <2>1. \E a, b : \/ /\ thread' = [thread EXCEPT ![t].ready = a, ![t].owed = b, ![t].step = "summarize"]
                     /\ lock' = Nobody
                  \/ /\ thread' = [thread EXCEPT ![t].ready = a, ![t].owed = b, ![t].step = "clear"]
                     /\ lock' = t
    BY <1>4 DEF FinalizeSpace
  <2>2. /\ OnlyMoves(t) /\ thread'[t].home = thread[t].home
        /\ \/ thread'[t].step = "summarize" /\ lock' = Nobody
           \/ thread'[t].step = "clear" /\ lock' = t
    BY <1>0, <2>1 DEF OnlyMoves, Calls
  <2>3. thread[t].step = "finalize" /\ lock = Nobody /\ UNCHANGED <<pass, phase>>
    BY <1>4 DEF FinalizeSpace, At
  <2>4. pass'.step = "none" /\ ~pass'.validate
    BY <2>3, NoPassHere
  <2>5. MayBeAt(t, thread'[t])
    BY <2>2, <2>3, StepsOn DEF StartupSteps
  <2> QED BY <2>2, <2>3, <2>4, <2>5, LockReleased, LockTaken
<1>5. CASE Clear(t)
  <2>1. /\ thread[t].step = "clear" /\ GoTo(t, "summarize") /\ lock' = Nobody
        /\ UNCHANGED <<pass, phase>>
    BY <1>5 DEF Clear, At
  <2>2. lock = t /\ pass'.step = "none" /\ ~pass'.validate
    BY <2>1, NoPassHere DEF LockInv, At
  <2> QED BY <1>2, <2>1, <2>2, CallReleasesLock DEF StartupSteps
<1>6. CASE SpaceBlocked(t)
  <2>1. /\ OnlyMoves(t) /\ thread'[t].step = "summarize" /\ thread'[t].home = thread[t].home
    BY <1>0, <1>6 DEF SpaceBlocked, OnlyMoves, Calls
  <2>2. /\ \/ thread[t].step = "finalize" /\ lock = Nobody
           \/ thread[t].step = "clear"
        /\ lock' = Nobody /\ UNCHANGED <<pass, phase>>
    BY <1>6 DEF SpaceBlocked, At
  <2>3. lock \in {t, Nobody} /\ pass'.step = "none" /\ ~pass'.validate
    BY <2>2, NoPassHere DEF LockInv, At
  <2> QED BY <2>1, <2>2, <2>3, CallReleasesLock DEF StartupSteps
<1>7. CASE SearchAnswer(t)
  <2>1. thread[t].step = "search" /\ Return(t) /\ UNCHANGED <<pass, phase>>
        /\ lock' = IF lock = t THEN Nobody ELSE lock
    BY <1>7 DEF SearchAnswer, At
  <2>2. lock = t /\ pass'.step = "none" /\ ~pass'.validate
    BY <2>1, NoPassHere DEF LockInv, At
  <2> QED BY <1>1, <2>1, <2>2, CallReleasesLock
<1>8. CASE Drive(t)
  <2>1. AfterDrive \notin StartupSteps \cup {"search", "clear"}
    BY DEF AfterDrive, StartupSteps
  <2>2. /\ OnlyMoves(t) /\ thread'[t].step = AfterDrive /\ thread'[t].home = thread[t].home
        /\ thread[t].step = "drive" /\ UNCHANGED <<lock, pass, phase>>
    BY <1>0, <1>8 DEF Drive, OnlyMoves, Calls, At
  <2> QED BY <1>0, <2>1, <2>2, CallKeepsLock
<1>9. CASE Summarize(t)
  <2>1. /\ OnlyMoves(t) /\ thread'[t].step = "read_marker" /\ thread'[t].home = thread[t].home
        /\ thread[t].step = "summarize" /\ UNCHANGED <<lock, pass, phase>>
    BY <1>0, <1>9 DEF Summarize, OnlyMoves, Calls, At
  <2> QED BY <1>0, <2>1, CallKeepsLock DEF StartupSteps
<1>10. CASE ReadMarker(t)
  <2>1. /\ OnlyMoves(t) /\ thread'[t].step \in {"done", "truncate"}
        /\ thread'[t].home = thread[t].home
        /\ thread[t].step = "read_marker" /\ UNCHANGED <<lock, pass, phase>>
    BY <1>0, <1>10 DEF ReadMarker, OnlyMoves, Calls, At
  <2> QED BY <1>0, <2>1, CallKeepsLock DEF StartupSteps
<1>11. CASE Truncate(t)
  <2>1. /\ OnlyMoves(t) /\ thread'[t].step \in {"done", "clear_marker"}
        /\ thread'[t].home = thread[t].home
        /\ thread[t].step = "truncate" /\ UNCHANGED <<lock, pass, phase>>
    BY <1>0, <1>11 DEF Truncate, StillOwed, GoTo, OnlyMoves, Calls, At
  <2> QED BY <1>0, <2>1, CallKeepsLock DEF StartupSteps
<1>12. CASE ClearMarker(t)
  <2>1. GoTo(t, "done") /\ thread[t].step = "clear_marker" /\ UNCHANGED <<lock, pass, phase>>
    BY <1>12 DEF ClearMarker, At
  <2> QED BY <1>0, <1>2, <2>1, CallKeepsLock DEF StartupSteps
<1>13. CASE Report(t)
  <2>1. Return(t) /\ thread[t].step = "done" /\ UNCHANGED <<lock, pass, phase>>
    BY <1>13 DEF Report, At
  <2> QED BY <1>0, <1>1, <2>1, CallKeepsLock
<1>14. CASE CallFails(t)
  <2>1. /\ thread[t].step \in {"drive", "summarize", "read_marker", "clear_marker", "done", "pass"}
        /\ \/ lock = t /\ lock' = Nobody /\ pass' = NoPass
           \/ lock # t /\ UNCHANGED <<lock, pass>>
    BY <1>14 DEF CallFails, At
  <2>2. CASE thread[t].home # "caught_up"
    <3>1. Return(t) /\ UNCHANGED phase
      BY <1>14, <2>2 DEF CallFails
    <3>2. CASE lock = t /\ lock' = Nobody /\ pass' = NoPass
      BY <1>1, <2>1, <3>1, <3>2, CallReleasesLock, NoPassFields
    <3>3. CASE lock # t /\ UNCHANGED <<lock, pass>>
      BY <1>1, <2>1, <3>1, <3>3, CallKeepsLock
    <3> QED BY <2>1, <3>2, <3>3
  <2>3. CASE thread[t].home = "caught_up"
    <3>1. /\ thread' = [thread EXCEPT ![t] = Rest("down")] /\ phase' = "closed"
      BY <1>14, <2>3 DEF CallFails
    <3>2. /\ Caller \subseteq Thread /\ Main \in Thread /\ Nobody \notin Thread
          /\ Main \notin Caller /\ (t \in Caller \/ t = Main)
          /\ lock \in Thread \cup {Nobody}
      BY MemoryAssumption DEF Thread, TypeOK
    <3>3. t = Main /\ phase # "open"
      BY <2>3, <3>2 DEF LockInv
    <3>4. \A u \in Caller : At(u, "idle")
      BY <3>3 DEF LockInv
    <3>5. lock \in {t, Nobody}
      <4> SUFFICES ASSUME lock \in Caller PROVE FALSE
        BY <3>2, <3>3 DEF Thread
      <4>1. thread[lock].step = "idle"
        BY <3>4 DEF At
      <4>2. lock # Nobody
        BY <3>2
      <4> QED BY <4>1, <4>2 DEF LockInv
    <3>6. lock' = Nobody /\ pass'.step = "none" /\ ~pass'.validate
      BY <2>1, <3>2, <3>5, NoPassFields, NoPassHere
    <3>7. /\ thread'[Main].step = "down" /\ thread'[Main].home = "down"
          /\ \A u \in Caller : thread'[u] = thread[u]
      BY <1>0, <3>1, <3>2, <3>3 DEF Rest
    <3>8. \A u \in Caller : thread'[u].step = "idle" /\ thread'[u].home = "idle"
      BY <3>4, <3>7 DEF LockInv, At
    <3>9. \A u \in Thread : thread'[u].step \notin {"search", "clear"}
      BY <3>7, <3>8 DEF Thread
    <3> QED BY <3>1, <3>6, <3>7, <3>8, <3>9 DEF LockInv, At, Homes, StartupSteps
  <2> QED BY <2>2, <2>3
<1> QED
  BY <1>3, <1>4, <1>5, <1>6, <1>7, <1>8, <1>9, <1>10, <1>11, <1>12, <1>13, <1>14

LEMMA NextLocks ==
  ASSUME TypeOK, LockInv, [Next]_vars
  PROVE  LockInv'
<1>0. /\ thread \in [Thread -> Calls]
      /\ Caller \subseteq Thread /\ Main \in Thread /\ Nobody \notin Thread /\ Main \notin Caller
      /\ \A t \in Thread : t \in Caller \/ t = Main
      /\ lock \in Thread \cup {Nobody} /\ phase \in {"closed", "starting", "open"}
  BY MemoryAssumption DEF TypeOK, Thread
<1>1. CASE UNCHANGED <<lock, thread, phase>> /\ pass'.step = pass.step
           /\ pass'.validate = pass.validate
  BY <1>1 DEF LockInv, At
<1>2. ASSUME NEW t \in Thread,
             \/ Claim(t) \/ FinalizeSpace(t) \/ Clear(t)
             \/ Drive(t) \/ Summarize(t) \/ ReadMarker(t) \/ Truncate(t) \/ ClearMarker(t)
             \/ Report(t) \/ SpaceBlocked(t) \/ SearchAnswer(t)
      PROVE  LockInv'
  BY <1>2, CallsKeepLock
<1>3. ASSUME NEW t \in Thread, CallFails(t) PROVE LockInv'
  BY <1>3, CallsKeepLock
<1>4. ASSUME NEW new \in SUBSET Rep, Accept(new) PROVE LockInv'
  <2>1. UNCHANGED <<lock, pass, phase>> /\ thread[Main].step \in {"idle", "accepting"}
    BY <1>4 DEF Accept
  <2>2. CASE phase = "open"
    <3>1. /\ OnlyMoves(Main) /\ thread'[Main].step = "pass"
          /\ thread'[Main].home = thread[Main].home
      BY <1>0, <1>4, <2>2 DEF Accept, OnlyMoves, Calls
    <3>2. lock # Main /\ MayBeAt(Main, thread'[Main])
      BY <1>0, <2>1, <2>2, <3>1, Movers DEF MayBeAt, LockInv, StartupSteps
    <3> QED BY <1>0, <2>1, <3>1, <3>2, LockKept
  <2>3. CASE phase # "open"
    BY <1>1, <1>4, <2>1, <2>3 DEF Accept
  <2> QED BY <2>2, <2>3
<1>5. ASSUME NEW t \in Caller, NEW scope \in SUBSET Rep, Erase(t, scope) PROVE LockInv'
  <2>1. /\ OnlyMoves(t) /\ thread'[t].step = "drive" /\ thread'[t].home = thread[t].home
    BY <1>0, <1>5 DEF Erase, OnlyMoves, Calls
  <2>2. UNCHANGED <<lock, pass, phase>> /\ thread[t].step = "idle" /\ phase = "open"
    BY <1>5 DEF Erase, QueueErasure, At
  <2>3. lock # t /\ MayBeAt(t, thread'[t])
    BY <1>0, <2>1, <2>2, Movers DEF MayBeAt, LockInv, StartupSteps
  <2> QED BY <1>0, <2>1, <2>2, <2>3, LockKept
<1>6. ASSUME NEW t \in Caller, Search(t) PROVE LockInv'
  <2>1. /\ OnlyMoves(t) /\ thread'[t].step = "search" /\ thread'[t].home = thread[t].home
    BY <1>0, <1>6 DEF Search, OnlyMoves, Calls
  <2>2. UNCHANGED <<pass, phase>> /\ lock = Nobody /\ lock' = t /\ phase = "open"
    BY <1>6 DEF Search, Exclusive
  <2>3. MayBeAt(t, thread'[t]) /\ pass'.step = "none" /\ ~pass'.validate
    BY <1>0, <2>1, <2>2, NoPassHere DEF MayBeAt, LockInv, StartupSteps
  <2> QED BY <1>0, <2>1, <2>2, <2>3, LockTaken
<1>7. CASE Decide \/ DecideAnswer
  <2>1. UNCHANGED <<lock, pass, phase>>
    BY <1>7 DEF Decide, DecideAnswer
  <2>2. CASE Decide
    <3>1. /\ OnlyMoves(Main) /\ thread'[Main].step = "decide" /\ phase = "open"
          /\ thread'[Main].home = thread[Main].home /\ thread[Main].step = "idle"
      BY <1>0, <2>2 DEF Decide, OnlyMoves, Calls, At
    <3>2. lock # Main /\ MayBeAt(Main, thread'[Main])
      BY <1>0, <3>1, Movers DEF MayBeAt, LockInv, StartupSteps
    <3> QED BY <1>0, <2>1, <3>1, <3>2, LockKept
  <2>3. CASE DecideAnswer
    <3>1. /\ OnlyMoves(Main) /\ thread[Main].step = "decide"
          /\ thread'[Main] = Rest(thread[Main].home)
      BY <1>0, <2>3 DEF DecideAnswer, Return, OnlyMoves, At
    <3> QED BY <1>0, <2>1, <3>1, Movers, CallKeepsLock
  <2> QED BY <1>7, <2>2, <2>3
<1>8. CASE Crash
  <2>1. /\ lock' = Nobody /\ pass' = NoPass /\ phase' = "closed"
        /\ \A t \in Thread : thread'[t] = Rest(IF t = Main THEN "down" ELSE "idle")
    BY <1>8 DEF Crash
  <2>2. /\ thread'[Main].step = "down" /\ thread'[Main].home = "down"
        /\ \A t \in Caller : thread'[t].step = "idle" /\ thread'[t].home = "idle"
    <3>1. thread'[Main] = Rest("down")
      BY <1>0, <2>1
    <3>2. \A t \in Caller : thread'[t] = Rest("idle")
      BY <1>0, <2>1
    <3> QED BY <3>1, <3>2 DEF Rest
  <2> QED BY <1>0, <2>1, <2>2, NoPassFields DEF LockInv, At, Homes, StartupSteps
\* While the library is not open nobody but the main thread can hold the lock.
<1>9. phase # "open" => lock \in {Main, Nobody}
  BY <1>0 DEF LockInv, At
<1>10. ASSUME phase # "open", thread[Main].step \notin {"pass", "validate", "search", "clear"}
       PROVE  lock = Nobody /\ pass.step = "none" /\ ~pass.validate
  <2>1. lock = Nobody
    BY <1>0, <1>9, <1>10 DEF LockInv
  <2> QED BY <1>0, <2>1, NoPassHere
<1>11. CASE Start
  <2>1. /\ phase = "closed" /\ phase' = "starting" /\ UNCHANGED <<lock, pass>>
        /\ thread'[Main] = Rest("accepting")
        /\ \A t \in Caller : thread'[t] = thread[t]
    BY <1>0, <1>11 DEF Start
  <2>2. lock = Nobody /\ pass.step = "none" /\ ~pass.validate
    BY <1>10, <2>1 DEF LockInv, At
  <2>3. thread'[Main].step = "accepting" /\ thread'[Main].home = "accepting"
    BY <2>1 DEF Rest
  <2> QED BY <1>0, <2>1, <2>2, <2>3 DEF LockInv, At, Homes, StartupSteps
<1>12. CASE OpenLibrary
  <2>1. /\ thread[Main].step = "caught_up" /\ phase' = "open" /\ UNCHANGED <<lock, pass>>
        /\ thread'[Main] = Rest("idle")
        /\ \A t \in Caller : thread'[t] = thread[t]
    BY <1>0, <1>12 DEF OpenLibrary, At
  <2>2. phase = "starting"
    BY <2>1 DEF LockInv, StartupSteps
  <2>3. lock = Nobody /\ pass.step = "none" /\ ~pass.validate
    BY <1>10, <2>1, <2>2
  <2>4. thread'[Main].step = "idle" /\ thread'[Main].home = "idle"
    BY <2>1 DEF Rest
  <2> QED BY <1>0, <2>1, <2>2, <2>3, <2>4 DEF LockInv, At, Homes, StartupSteps
<1>13. CASE CatchUp
  <2>1. /\ thread[Main].step \in {"catch_up", "caught_up"} /\ UNCHANGED <<lock, pass, phase>>
        /\ OnlyMoves(Main) /\ thread'[Main].step = "pass" /\ thread'[Main].home = "caught_up"
    BY <1>0, <1>13 DEF CatchUp, OnlyMoves, Calls, At
  <2>2. phase = "starting" /\ lock # Main
    BY <1>0, <2>1, Movers DEF LockInv, StartupSteps
  <2>3. MayBeAt(Main, thread'[Main])
    BY <1>0, <2>1, <2>2 DEF MayBeAt, Homes, StartupSteps
  <2> QED BY <1>0, <2>1, <2>2, <2>3, LockKept
<1>14. CASE Resume
  <2>1. /\ thread[Main].step = "resume" /\ UNCHANGED <<lock, pass, phase>>
        /\ OnlyMoves(Main) /\ thread'[Main].step = "drive" /\ thread'[Main].home = "catch_up"
    BY <1>0, <1>14 DEF Resume, QueueErasure, OnlyMoves, Rest, At
  <2>2. phase = "starting" /\ lock # Main
    BY <1>0, <2>1, Movers DEF LockInv, StartupSteps
  <2>3. MayBeAt(Main, thread'[Main])
    BY <1>0, <2>1, <2>2 DEF MayBeAt, Homes, StartupSteps
  <2> QED BY <1>0, <2>1, <2>2, <2>3, LockKept
<1>15. CASE Requeue
  <2>1. /\ thread[Main].step = "requeue" /\ UNCHANGED <<lock, pass, phase>>
        /\ OnlyMoves(Main) /\ thread'[Main].step = "resume"
        /\ thread'[Main].home = thread[Main].home
    BY <1>0, <1>15 DEF Requeue, GoTo, OnlyMoves, Calls, At
  <2>2. phase = "starting" /\ lock # Main
    BY <1>0, <2>1, Movers DEF LockInv, StartupSteps
  <2>3. MayBeAt(Main, thread'[Main])
    BY <1>0, <2>1, <2>2, Movers DEF MayBeAt
  <2> QED BY <1>0, <2>1, <2>2, <2>3, LockKept
<1>16. CASE Validate
  <2>1. /\ thread[Main].step = "accepting" /\ UNCHANGED phase /\ lock' = Main
        /\ pass' = [NoPass EXCEPT !.step = "open", !.validate = TRUE]
        /\ OnlyMoves(Main) /\ thread'[Main].step = "validate"
        /\ thread'[Main].home = thread[Main].home
    BY <1>0, <1>16 DEF Validate, GoTo, OnlyMoves, Calls, At
  <2>2. phase = "starting"
    BY <2>1 DEF LockInv, StartupSteps
  <2>3. lock = Nobody
    BY <1>10, <2>1, <2>2
  <2>4. MayBeAt(Main, thread'[Main])
    BY <1>0, <2>1, <2>2, Movers DEF MayBeAt
  <2> QED BY <1>0, <2>1, <2>3, <2>4, LockTaken
<1>17. CASE Validated
  <2>1. /\ pass.validate /\ UNCHANGED phase /\ lock' = Nobody /\ pass' = NoPass
        /\ OnlyMoves(Main) /\ thread'[Main].step = "requeue"
        /\ thread'[Main].home = thread[Main].home
    BY <1>0, <1>17 DEF Validated, GoTo, OnlyMoves, Calls
  <2>2. lock = Main /\ thread[Main].step = "validate"
    BY <2>1 DEF LockInv, At
  <2>3. phase = "starting"
    BY <2>2 DEF LockInv, StartupSteps
  <2>4. MayBeAt(Main, thread'[Main])
    BY <1>0, <2>1, <2>3, Movers DEF MayBeAt
  <2> QED BY <1>0, <2>1, <2>2, <2>4, NoPassFields, LockReleased
<1>18. CASE Settle
  <2>1. lock \in Thread /\ thread[lock].step \in {"pass", "validate"}
    BY <1>18 DEF Settle, LockInv
  <2>2. lock' = Nobody /\ pass' = NoPass /\ UNCHANGED phase
    BY <1>18 DEF Settle
  <2>3. \/ Return(lock)
        \/ \E owed : thread' = [thread EXCEPT ![lock].step = "finalize", ![lock].owed = owed]
    BY <1>18 DEF Settle
  <2>4. CASE Return(lock)
    <3>1. OnlyMoves(lock) /\ thread'[lock] = Rest(thread[lock].home)
      BY <1>0, <2>1, <2>4 DEF Return, OnlyMoves
    <3> QED BY <2>1, <2>2, <3>1, CallReleasesLock, NoPassFields
  <2>5. ASSUME NEW owed,
               thread' = [thread EXCEPT ![lock].step = "finalize", ![lock].owed = owed]
        PROVE  LockInv'
    <3>1. /\ OnlyMoves(lock) /\ thread'[lock].step = "finalize"
          /\ thread'[lock].home = thread[lock].home
      BY <1>0, <2>1, <2>5 DEF OnlyMoves, Calls
    <3> QED BY <2>1, <2>2, <3>1, CallReleasesLock, NoPassFields DEF StartupSteps
  <2> QED BY <2>3, <2>4, <2>5
<1>19. CASE PassWork
  <2>1. UNCHANGED <<lock, thread, phase>> /\ pass'.validate = pass.validate
    BY <1>19, PassFrame
  <2>2. pass.step # "none"
    BY <1>19 DEF PassWork, OpenIndex, Build, WriteGeneration, Publish, ApplyOne, AfterApply,
                 Retired, OperationFails, SpaceFails
  <2> QED BY <2>1, <2>2 DEF LockInv, At
<1>20. CASE Damage \/ \E op \in Op : BackoffEnds(op)
  BY <1>1, <1>20 DEF Damage, BackoffEnds
<1>21. CASE UNCHANGED vars
  BY <1>1, <1>21 DEF vars, state
<1>22. ASSUME NEW t \in Thread, QuietStep(t) PROVE LockInv'
  BY <1>2, <1>6, <1>7, <1>11, <1>12, <1>13, <1>22 DEF QuietStep
<1>23. CASE PassEnds
  BY <1>3, <1>8, <1>16, <1>17, <1>23 DEF PassEnds
<1> QED
  BY <1>2, <1>4, <1>5, <1>14, <1>15, <1>18, <1>19, <1>20, <1>21, <1>22, <1>23, StepCases

-----------------------------------------------------------------------------
(* What a search sees *)

\* Only settling applies operations.
LEMMA AppliedMoves ==
  ASSUME TypeOK, [Next]_vars, pass.step # "settle"
  PROVE  applied' = applied
<1>1. ASSUME NEW scope \in SUBSET Rep, QueueErasure(scope) PROVE applied' = applied
  BY <1>1 DEF QueueErasure
<1>2. CASE Resume \/ \E t \in Caller, scope \in SUBSET Rep : Erase(t, scope)
  BY <1>1, <1>2 DEF Resume, Erase
<1>3. CASE (\E new \in SUBSET Rep : Accept(new)) \/ Requeue \/ (\E op \in Op : BackoffEnds(op))
  BY <1>3 DEF Accept, Requeue, BackoffEnds
<1>4. CASE PassWork \/ Damage
  BY <1>4, PassFrame DEF Damage, ops
<1>5. CASE PassEnds
  BY <1>5, PassEndsFrame DEF ops
<1>6. ASSUME NEW t \in Thread, QuietStep(t) PROVE applied' = applied
  BY <1>6, QuietFrame DEF ops
<1>7. ASSUME NEW t \in Thread, Claim(t) \/ FinalizeSpace(t) \/ Clear(t) PROVE applied' = applied
  BY <1>7 DEF Claim, FinalizeSpace, Clear, ops
<1>8. CASE UNCHANGED vars
  BY <1>8 DEF vars, state
<1>9. ~Settle
  BY DEF Settle
<1> QED BY <1>2, <1>3, <1>4, <1>5, <1>6, <1>7, <1>8, <1>9, StepCases

LEMMA NextSearches ==
  ASSUME TypeOK, RowsInv, CoverInv, LockInv, SearchInv, [Next]_vars
  PROVE  SearchInv'
<1>0. /\ thread \in [Thread -> Calls] /\ Caller \subseteq Thread
      /\ \A u \in Thread : thread[u] \in Calls
  BY DEF TypeOK, Thread
<1>1. LockInv'
  BY NextLocks
\* Nobody settles an operation while the index is being looked at.
<1>2. ASSUME NEW u \in Caller, thread[u].step = "search", thread'[u] = thread[u],
             NEW r \in Rep, rep'[r] = "ACTIVE", <<r, "ADD">> \in applied'
      PROVE  rep[r] = "ACTIVE" /\ <<r, "ADD">> \in applied
  <2>1. pass.step = "none"
    BY <1>0, <1>2, NoPassHere DEF At
  <2>2. applied' = applied
    BY <2>1, AppliedMoves
  <2>3. rep[r] # "PENDING"
    BY <1>2, <2>2 DEF RowsInv, Known
  <2>4. rep[r] = "ACTIVE"
    <3>1. ~Gone(r)
      BY <1>2, NothingComesBack DEF Gone
    <3> QED BY <2>3, <3>1 DEF TypeOK, Gone
  <2> QED BY <1>2, <2>2, <2>4
<1>3. ASSUME NEW u \in Caller, thread'[u].step = "search"
      PROVE  (thread'[u] = thread[u] /\ thread[u].step = "search") \/ Search(u)
  <2>1. ASSUME NEW step \in Step, thread'[u] = Rest(step) PROVE FALSE
    <3>1. thread'[u].home = "idle"
      BY <1>1 DEF LockInv
    <3> QED BY <1>3, <2>1, <3>1 DEF Rest
  <2>2. ~Early(u)
    BY <1>3 DEF Early, EarlySteps
  <2>3. ASSUME FinalizeSpace(u) PROVE FALSE
    <3>1. \E a, b : \/ thread' = [thread EXCEPT ![u].ready = a, ![u].owed = b, ![u].step = "summarize"]
                    \/ thread' = [thread EXCEPT ![u].ready = a, ![u].owed = b, ![u].step = "clear"]
      BY <2>3 DEF FinalizeSpace
    <3> QED BY <1>0, <1>3, <3>1 DEF Calls
  <2>4. ~Clear(u) /\ ~ClearMarker(u)
    BY <1>0, <1>3 DEF Clear, ClearMarker, GoTo, Calls
  <2>5. ~Summarize(u) /\ ~ReadMarker(u)
    <3>1. ASSUME Summarize(u) PROVE FALSE
      BY <1>0, <1>3, <3>1 DEF Summarize, Calls
    <3>2. ASSUME ReadMarker(u) PROVE FALSE
      <4>1. thread'[u].step \in {"done", "truncate"}
        BY <1>0, <3>2 DEF ReadMarker, Calls
      <4> QED BY <1>3, <4>1
    <3> QED BY <3>1, <3>2
  <2>6. ~Truncate(u)
    BY <1>0, <1>3 DEF Truncate, GoTo, StillOwed, Calls
  <2> QED BY <1>0, <1>3, <2>1, <2>2, <2>3, <2>4, <2>5, <2>6, CallMoves DEF CallMoved, Reports
<1>4. ASSUME NEW u \in Caller, Search(u), NEW r \in Rep, rep'[r] = "ACTIVE",
             <<r, "ADD">> \in applied'
      PROVE  r \in thread'[u].seen
  <2>1. UNCHANGED <<rep, applied>> /\ thread'[u].seen = live.keys /\ Readable
    BY <1>0, <1>4 DEF Search, rows, ops, Calls
  <2>2. r \in Active
    BY <1>4, <2>1 DEF Active
  <2>3. live.state = "SOUND"
    BY <2>1, <2>2 DEF Readable
  <2> QED BY <1>4, <2>1, <2>2, <2>3 DEF CoverInv
<1>5. ASSUME NEW u \in Caller, thread'[u].step = "search", NEW r \in Rep, rep'[r] = "ACTIVE",
             <<r, "ADD">> \in applied'
      PROVE  r \in thread'[u].seen
  <2>1. CASE thread'[u] = thread[u] /\ thread[u].step = "search"
    BY <1>2, <1>5, <2>1 DEF SearchInv, Active, At
  <2> QED BY <1>3, <1>4, <1>5, <2>1
<1> QED BY <1>5 DEF SearchInv, Active, At

-----------------------------------------------------------------------------
(* What a call reports *)

\* Only an erasure that a caller asks for puts representations under erasure.
LEMMA ErasingMoves ==
  ASSUME TypeOK, [Next]_vars
  PROVE  Erasing' \subseteq Erasing \/ \E t \in Caller, scope \in SUBSET Rep : Erase(t, scope)
<1>1. CASE rep' = rep
  BY <1>1 DEF Erasing
<1>2. ASSUME NEW new \in SUBSET Rep, Accept(new) PROVE Erasing' \subseteq Erasing
  BY <1>2 DEF Accept, Erasing
<1>3. CASE Resume
  <2>1. QueueErasure({})
    BY <1>3 DEF Resume
  <2>2. rep' = [r \in Rep |-> rep[r]]
    BY <2>1 DEF QueueErasure
  <2> QED BY <2>2 DEF Erasing
<1>4. ASSUME NEW t \in Thread, Clear(t) PROVE Erasing' \subseteq Erasing
  BY <1>4 DEF Clear, Erasing
<1>5. ASSUME NEW t \in Thread, Claim(t) \/ FinalizeSpace(t) PROVE rep' = rep
  BY <1>5 DEF Claim, FinalizeSpace, rows
<1>6. ASSUME NEW t \in Thread, QuietStep(t) PROVE rep' = rep
  BY <1>6, QuietFrame
<1>7. CASE Requeue \/ Settle \/ Damage \/ \E op \in Op : BackoffEnds(op)
  BY <1>1, <1>7 DEF Requeue, Settle, Damage, BackoffEnds, rows
<1>8. CASE PassWork \/ PassEnds
  BY <1>1, <1>8, PassFrame, PassEndsFrame
<1>9. CASE UNCHANGED vars
  BY <1>1, <1>9 DEF vars, state
<1> QED BY <1>1, <1>2, <1>3, <1>4, <1>5, <1>6, <1>7, <1>8, <1>9, StepCases

\* What is erased stays so, and what of it is not in the log does not return there.
LEMMA ErasedStays ==
  ASSUME TypeOK, RowsInv, [Next]_vars
  PROVE  /\ Erased \subseteq Erased'
         /\ \A some \in SUBSET Erased : some \cap log = {} => some \cap log' = {}
<1>1. ASSUME NEW t \in Thread, Clear(t)
      PROVE  Erased \subseteq Erased' /\ log' \cap Erased = log \cap Erased
  BY <1>1 DEF Clear, Erased, Erasing
<1>2. ASSUME NEW t \in Thread, Truncate(t) \/ ClearMarker(t), UNCHANGED rep, log' \in {log, {}}
      PROVE  Erased' = Erased /\ log' \cap Erased \subseteq log \cap Erased
  BY <1>2 DEF Erased
<1>3. Erased \subseteq Erased' /\ log' \cap Erased \subseteq log \cap Erased
  BY <1>1, <1>2, LogMoves
<1> QED BY <1>3

LEMMA NextScopes ==
  ASSUME TypeOK, RowsInv, ReportInv, [Next]_vars, NEW u \in Thread, thread'[u].home = "idle",
         NEW r \in thread'[u].scope
  PROVE  Gone(r)'
<1>0. /\ thread \in [Thread -> Calls] /\ thread[u] \in Calls
  BY DEF TypeOK
<1>1. ASSUME thread[u].home = "idle", r \in thread[u].scope PROVE Gone(r)'
  <2>1. r \in Rep /\ Gone(r)
    BY <1>0, <1>1 DEF ReportInv, Calls
  <2> QED BY <2>1, NothingComesBack
<1>2. CASE thread'[u].home = thread[u].home /\ thread'[u].scope = thread[u].scope
  BY <1>1, <1>2
<1>3. ASSUME NEW step \in Step, thread'[u] = Rest(step) PROVE FALSE
  BY <1>3 DEF Rest
<1>4. CASE Early(u)
  <2>1. ASSUME NEW scope \in SUBSET Rep, QueueErasure(scope), thread'[u].scope = scope
        PROVE  Gone(r)'
    BY <2>1 DEF QueueErasure, TypeOK, Gone
  <2> QED BY <1>1, <1>4, <2>1 DEF Early
<1>5. ASSUME Reports(u)
      PROVE  thread'[u].home = thread[u].home /\ thread'[u].scope = thread[u].scope
  <2>1. CASE FinalizeSpace(u)
    <3>1. \E a, b, step : thread' = [thread EXCEPT ![u].ready = a, ![u].owed = b, ![u].step = step]
      BY <2>1 DEF FinalizeSpace
    <3> QED BY <1>0, <3>1 DEF Calls
  <2>2. CASE Clear(u) \/ ClearMarker(u)
    BY <1>0, <2>2 DEF Clear, ClearMarker, GoTo, Calls
  <2>3. CASE Summarize(u)
    BY <1>0, <2>3 DEF Summarize, Calls
  <2>4. CASE ReadMarker(u)
    BY <1>0, <2>4 DEF ReadMarker, Calls
  <2>5. CASE Search(u)
    BY <1>0, <2>5 DEF Search, Calls
  <2>6. CASE Truncate(u)
    BY <1>0, <2>6 DEF Truncate, GoTo, StillOwed, Calls
  <2> QED BY <1>5, <2>1, <2>2, <2>3, <2>4, <2>5, <2>6 DEF Reports
<1> QED BY <1>2, <1>3, <1>4, <1>5, CallMoves DEF CallMoved

ReportSteps == {"read_marker", "truncate", "clear_marker", "done"}

\* What one call has found out.
FoundOut(call) ==
    call.step \in ReportSteps =>
        /\ call.erased \subseteq Erased
        /\ ~call.owed => /\ call.scope \cap Erasing = {}
                         /\ call.home = "idle" => call.erased = call.scope
        /\ call.step = "clear_marker" \/ (call.step = "done" /\ ~call.owed) =>
              call.erased \cap log = {}

LEMMA ReportsFoundOut ==
  ReportInv <=> \A t \in Thread : /\ thread[t].home = "idle" => \A r \in thread[t].scope : Gone(r)
                                  /\ FoundOut(thread[t])
BY DEF ReportInv, FoundOut, ReportSteps, At

\* It stays true of a call that does not move.
LEMMA FoundOutStays ==
  ASSUME TypeOK, RowsInv, LockInv, ReportInv, [Next]_vars, NEW u \in Thread,
         thread'[u] = thread[u]
  PROVE  FoundOut(thread[u])'
<1> SUFFICES ASSUME thread[u].step \in ReportSteps PROVE FoundOut(thread[u])'
  BY DEF FoundOut
<1>0. thread[u] \in Calls /\ (u \in Caller \/ u = Main)
  BY DEF TypeOK, Thread
<1>1. FoundOut(thread[u])
  BY ReportsFoundOut
<1>2. thread[u].erased \subseteq Erased'
  BY <1>1, ErasedStays DEF FoundOut
<1>3. ASSUME ~thread[u].owed PROVE thread[u].scope \cap Erasing' = {}
  <2>1. CASE thread[u].home = "idle"
    <3>1. thread[u].scope \subseteq Erased'
      BY <1>1, <1>2, <1>3, <2>1 DEF FoundOut
    <3> QED BY <3>1 DEF Erased, Erasing
  <2>2. CASE thread[u].home # "idle"
    <3>1. phase # "open"
      BY <1>0, <2>2 DEF LockInv
    <3>2. Erasing' \subseteq Erasing
      BY <3>1, ErasingMoves DEF Erase
    <3> QED BY <1>1, <1>3, <3>2 DEF FoundOut
  <2> QED BY <2>1, <2>2
<1>4. ASSUME thread[u].step = "clear_marker" \/ (thread[u].step = "done" /\ ~thread[u].owed)
      PROVE  thread[u].erased \cap log' = {}
  <2>1. thread[u].erased \in SUBSET Erased /\ thread[u].erased \cap log = {}
    BY <1>1, <1>4 DEF FoundOut
  <2> QED BY <2>1, ErasedStays
<1> QED BY <1>1, <1>2, <1>3, <1>4 DEF FoundOut

LEMMA NextReports ==
  ASSUME TypeOK, RowsInv, LockInv, LogInv, ReportInv, [Next]_vars
  PROVE  ReportInv'
<1> SUFFICES ASSUME NEW u \in Thread PROVE FoundOut(thread[u])'
  <2>1. \A u \in Thread : thread'[u].home = "idle" => \A r \in thread'[u].scope : Gone(r)'
    BY NextScopes
  <2> QED BY <2>1 DEF ReportInv, FoundOut, ReportSteps, At
<1>0. /\ thread \in [Thread -> Calls] /\ thread[u] \in Calls
      /\ FoundOut(thread[u])
  BY ReportsFoundOut DEF TypeOK
<1>1. CASE thread'[u] = thread[u]
  BY <1>1, FoundOutStays
<1>2. ASSUME NEW step \in Step, thread'[u] = Rest(step) PROVE FoundOut(thread[u])'
  BY <1>2 DEF Rest, FoundOut
<1>3. CASE Early(u)
  BY <1>3 DEF Early, EarlySteps, FoundOut, ReportSteps
<1>4. CASE FinalizeSpace(u)
  <2>1. \E a, b : \/ thread' = [thread EXCEPT ![u].ready = a, ![u].owed = b, ![u].step = "summarize"]
                  \/ thread' = [thread EXCEPT ![u].ready = a, ![u].owed = b, ![u].step = "clear"]
    BY <1>4 DEF FinalizeSpace
  <2>2. thread'[u].step \in {"summarize", "clear"}
    BY <1>0, <2>1 DEF Calls
  <2> QED BY <2>2 DEF FoundOut, ReportSteps
<1>5. CASE Clear(u) \/ Search(u)
  <2>1. thread'[u].step \in {"summarize", "search"}
    BY <1>0, <1>5 DEF Clear, Search, GoTo, Calls
  <2> QED BY <2>1 DEF FoundOut, ReportSteps
<1>6. CASE Summarize(u)
  <2> DEFINE c == thread[u]  d == thread'[u]
  <2>1. /\ d.step = "read_marker" /\ d.scope = c.scope /\ d.home = c.home
        /\ d.erased = {r \in c.scope : rep[r] = "ERASED"}
        /\ d.owed = (c.owed \/ c.scope \cap Erasing # {})
        /\ rep' = rep
    BY <1>0, <1>6 DEF Summarize, rows, Calls
  <2>2. c.scope \subseteq Rep
    BY <1>0 DEF Calls
  <2>3. c.home = "idle" => \A r \in c.scope : Gone(r)
    BY DEF ReportInv
  <2>4. d.erased \subseteq Erased'
    BY <2>1, <2>2 DEF Erased
  <2>5. ~d.owed => d.scope \cap Erasing' = {}
    BY <2>1 DEF Erasing
  <2>6. ~d.owed /\ d.home = "idle" => d.erased = d.scope
    BY <2>1, <2>2, <2>3 DEF Erasing, Gone
  <2> HIDE DEF c
  <2> QED BY <2>1, <2>4, <2>5, <2>6 DEF FoundOut, ReportSteps
<1>7. ASSUME thread'[u].step \in ReportSteps, thread[u].step \in ReportSteps,
             thread'[u].erased = thread[u].erased, thread'[u].scope = thread[u].scope,
             thread'[u].home = thread[u].home, ~thread'[u].owed => ~thread[u].owed,
             rep' = rep,
             thread'[u].step = "clear_marker" \/ (thread'[u].step = "done" /\ ~thread'[u].owed) =>
                 thread[u].erased \cap log' = {}
      PROVE  FoundOut(thread[u])'
  BY <1>0, <1>7 DEF FoundOut, Erased, Erasing
<1>8. CASE ReadMarker(u)
  <2>1. /\ thread[u].step = "read_marker" /\ thread'[u].erased = thread[u].erased
        /\ thread'[u].scope = thread[u].scope /\ thread'[u].home = thread[u].home
        /\ thread'[u].owed = thread[u].owed /\ rep' = rep /\ log' = log
        /\ \/ thread'[u].step = "done" /\ marker = 0
           \/ thread'[u].step = "truncate"
    BY <1>0, <1>8 DEF ReadMarker, rows, Calls, At
  <2>2. thread[u].erased \subseteq Erased
    BY <1>0, <2>1 DEF FoundOut, ReportSteps
  <2>3. marker = 0 => thread[u].erased \cap log = {}
    BY <2>2 DEF LogInv, LogIsOwed
  <2> QED BY <1>7, <2>1, <2>3 DEF ReportSteps
<1>9. CASE Truncate(u)
  <2>1. CASE log' = {} /\ GoTo(u, "clear_marker")
    <3>1. /\ thread[u].step = "truncate" /\ thread'[u].erased = thread[u].erased
          /\ thread'[u].scope = thread[u].scope /\ thread'[u].home = thread[u].home
          /\ thread'[u].owed = thread[u].owed /\ rep' = rep
          /\ thread'[u].step = "clear_marker"
      BY <1>0, <1>9, <2>1 DEF Truncate, GoTo, rows, Calls, At
    <3> QED BY <1>7, <2>1, <3>1 DEF ReportSteps
  <2>2. CASE StillOwed(u)
    <3>1. /\ thread[u].step = "truncate" /\ thread'[u].erased = thread[u].erased
          /\ thread'[u].scope = thread[u].scope /\ thread'[u].home = thread[u].home
          /\ thread'[u].owed = TRUE /\ rep' = rep
          /\ thread'[u].step = "done"
      BY <1>0, <1>9, <2>2 DEF Truncate, StillOwed, rows, Calls, At
    <3> QED BY <1>7, <3>1 DEF ReportSteps
  <2> QED BY <1>9, <2>1, <2>2 DEF Truncate
<1>10. CASE ClearMarker(u)
  <2>1. /\ thread[u].step = "clear_marker" /\ thread'[u].erased = thread[u].erased
        /\ thread'[u].scope = thread[u].scope /\ thread'[u].home = thread[u].home
        /\ thread'[u].owed = thread[u].owed /\ rep' = rep /\ log' = log
        /\ thread'[u].step = "done"
    BY <1>0, <1>10 DEF ClearMarker, GoTo, rows, Calls, At
  <2>2. thread[u].erased \cap log = {}
    BY <1>0, <2>1 DEF FoundOut, ReportSteps
  <2> QED BY <1>7, <2>1, <2>2 DEF ReportSteps
<1> QED
  BY <1>1, <1>2, <1>3, <1>4, <1>5, <1>6, <1>8, <1>9, <1>10, CallMoves DEF CallMoved, Reports

-----------------------------------------------------------------------------
(* The invariant, and what follows from it *)

LEMMA InitHolds == ASSUME Init PROVE IInv
<1>0. /\ Caller \subseteq Thread /\ Main \in Thread /\ Nobody \notin Thread
      /\ \A t \in Thread : thread[t] = Rest("idle")
      /\ pass = NoPass /\ lock = Nobody /\ phase = "open"
      /\ Active = {} /\ Erased = {} /\ marker = 0
      /\ live = [state |-> "NONE", keys |-> {}] /\ stale = {} /\ quarantined = {}
      /\ applied = {}
  BY MemoryAssumption DEF Init, Thread, Active, Erased
<1>1. /\ NoPass.step = "none" /\ ~NoPass.validate /\ NoPass.claimed = << >>
      /\ NoPass.todo = << >> /\ NoPass.ok = {} /\ NoPass.mem = {}
  BY DEF NoPass
<1>2. \A t \in Thread :
         /\ thread[t].step = "idle" /\ thread[t].home = "idle" /\ thread[t].scope = {}
         /\ thread[t].token = 0
  BY <1>0 DEF Rest
<1>3. ToSet(NoPass.claimed) = {} /\ ToSet(NoPass.todo) = {}
  BY <1>1 DEF ToSet
<1>4. TypeOK /\ RowsInv
  BY InitTypes, InitRows
<1>5. FilesInv /\ PurgeInv /\ ClearInv
  BY <1>0, <1>1, <1>2, <1>3 DEF FilesInv, PurgeInv, ClearInv, At
<1>6. CoverInv
  BY <1>0, <1>1, <1>3 DEF CoverInv
<1>7. LockInv
  BY <1>0, <1>1, <1>2 DEF LockInv, At, Homes, StartupSteps
<1>8. SearchInv
  BY <1>0, <1>2 DEF SearchInv, At
<1>9. ReportInv
  BY <1>2 DEF ReportInv, At
<1>10. LogInv
  <2>1. Cardinality(Erased) = 0
    BY <1>0, FS_EmptySet
  <2> QED BY <1>0, <1>2, <2>1 DEF LogInv, LogIsOwed, At
<1> QED BY <1>4, <1>5, <1>6, <1>7, <1>8, <1>9, <1>10 DEF IInv

LEMMA NextHolds == ASSUME IInv, [Next]_vars PROVE IInv'
<1> USE DEF IInv
<1>1. TypeOK' /\ RowsInv'
  BY NextTypes, NextRows
<1>2. FilesInv' /\ PurgeInv' /\ ClearInv'
  BY NextFiles, NextClears
<1>3. CoverInv' /\ LockInv' /\ SearchInv'
  BY NextCovers, NextLocks, NextSearches
<1>4. LogInv' /\ ReportInv'
  BY NextLog, NextReports
<1> QED BY <1>1, <1>2, <1>3, <1>4

\* Every step of every thread, of a pass and of startup, every failure and every kill
\* keeps the invariant.
THEOREM Invariant == Spec => []IInv
<1>1. Init => IInv
  BY InitHolds
<1>2. IInv /\ [Next]_vars => IInv'
  BY NextHolds
<1> QED BY <1>1, <1>2, PTL DEF Spec

\* The columns, the files and what a thread remembers keep their types: no operation is
\* tried more than RetryPolicy.max_attempts times.
THEOREM TypesAreKept == Spec => []TypeOK
<1>1. IInv => TypeOK
  BY DEF IInv
<1> QED BY <1>1, Invariant, PTL

LEMMA ErasedInNoFile == ASSUME IInv PROVE ErasedIsGone
<1>1. Erased \cap keyed = {}
  BY DEF IInv, RowsInv, Erased
<1>2. /\ live.keys \subseteq keyed /\ pass.mem \subseteq keyed
      /\ \A file \in stale \cup quarantined : file \subseteq keyed
  BY DEF IInv, FilesInv
<1>3. OnDisk \subseteq keyed
  BY <1>2 DEF OnDisk
<1> QED BY <1>1, <1>3 DEF ErasedIsGone

\* Once the eraser has cleared a vector (`_clear`), no index file of any kind holds it,
\* however passes, rebuilds, quarantines, failures and kills interleaved before.
THEOREM ErasedVectorsAreGone == Spec => []ErasedIsGone
<1>1. IInv => ErasedIsGone
  BY ErasedInNoFile
<1> QED BY <1>1, Invariant, PTL

\* The marker `wal_truncation_owed` stands for as long as the write-ahead log may hold an
\* erased vector.
THEOREM TruncationIsOwed == Spec => []LogIsOwed
<1>1. IInv => LogIsOwed
  BY DEF IInv, LogInv
<1> QED BY <1>1, Invariant, PTL

\* The report of `erase`: complete means erased, in no file and not in the log.
THEOREM CompleteReportsAreTrue == Spec => []CompleteReportIsTrue
<1>1. ASSUME IInv PROVE CompleteReportIsTrue
  <2> SUFFICES ASSUME NEW t \in Thread, At(t, "done"), ~thread[t].owed
               PROVE  /\ thread[t].scope \cap Erasing = {}
                      /\ thread[t].erased \cap (OnDisk \cup log) = {}
                      /\ thread[t].home = "idle" => thread[t].erased = thread[t].scope
    BY DEF CompleteReportIsTrue
  <2>1. /\ thread[t].erased \subseteq Erased
        /\ thread[t].scope \cap Erasing = {}
        /\ thread[t].home = "idle" => thread[t].erased = thread[t].scope
        /\ thread[t].erased \cap log = {}
    BY <1>1 DEF IInv, ReportInv, At
  <2>2. Erased \cap OnDisk = {}
    BY <1>1, ErasedInNoFile DEF ErasedIsGone
  <2> QED BY <2>1, <2>2
<1>2. IInv => CompleteReportIsTrue
  BY <1>1
<1> QED BY <1>2, Invariant, PTL

\* `settle` records an `ADD` as applied only when the published generation has it, and no
\* rebuild loses it.
THEOREM IndexCovers == Spec => []IndexCoversMemory
<1>1. IInv => IndexCoversMemory
  BY DEF IInv, CoverInv, IndexCoversMemory
<1> QED BY <1>1, Invariant, PTL

\* The lock that face search holds keeps its answer complete when it says `converged`.
THEOREM SearchesAreComplete == Spec => []SearchIsComplete
<1>1. ASSUME IInv PROVE SearchIsComplete
  <2> SUFFICES ASSUME NEW t \in Caller, At(t, "search"), Converged, NEW r \in Active
               PROVE  r \in thread[t].seen
    BY DEF SearchIsComplete
  <2>1. rep[r] = "ACTIVE" /\ r \in Rep
    BY DEF Active
  <2>2. <<r, "ADD">> \in applied
    BY <1>1, <2>1 DEF IInv, RowsInv, Converged
  <2> QED BY <1>1, <2>2 DEF IInv, SearchInv
<1>2. IInv => SearchIsComplete
  BY <1>1
<1> QED BY <1>2, Invariant, PTL
-----------------------------------------------------------------------------
(* Where nothing fails: what an erasure and a start come to *)

\* Files that a kill left are there until startup has validated the index.
Unvalidated ==
    phase = "closed" \/ At(Main, "accepting") \/ (pass.validate /\ pass.step = "open")

\* Every removal that is needed is due or applied, and not both.
RemovalsDue ==
    /\ failed = {} /\ backoff = {}
    /\ Once(queue)
    /\ \A r \in keyed : rep[r] = "ERASING" => <<r, "REMOVE">> \in ToSet(queue) \cup applied
    /\ \A r \in Rep : <<r, "REMOVE">> \in applied => <<r, "REMOVE">> \notin ToSet(queue)

\* A pass leaves out nothing that it claimed.
PassGoesOn ==
    /\ pass.step # "none" => ToSet(pass.claimed) \subseteq pass.ok \cup ToSet(pass.todo)
    /\ pass.step \in {"retired", "settle"} => ToSet(pass.claimed) \subseteq pass.ok

EraserSteps == {"drive", "pass", "finalize", "clear", "summarize"} \cup ReportSteps
First(q, n) == {q[i] : i \in {i \in DOMAIN q : i <= n}}

\* The vectors that a call still has to clear, of those that may be in files.
Awaits(t) == thread[t].scope \cap Erasing \cap keyed

\* How far an erasure has come: a pass takes up all of its removals, or somebody else
\* had applied them, and then they are cleared.
Advances(t) ==
    /\ ~thread[t].owed
    /\ thread[t].scope # {} => thread[t].step \in EraserSteps
    /\ At(t, "pass") => \A r \in Awaits(t) :
          <<r, "REMOVE">> \in applied \cup (IF lock = t THEN ToSet(pass.claimed)
                                           ELSE First(queue, thread[t].limit))
    /\ At(t, "finalize") => \A r \in Awaits(t) : <<r, "REMOVE">> \in applied
    /\ At(t, "clear") => thread[t].scope \cap Erasing \subseteq thread[t].ready
    /\ thread[t].step \in {"summarize"} \cup ReportSteps => thread[t].scope \cap Erasing = {}

\* What startup has finished of the erasures that an earlier process began.
StartAdvances ==
    phase = "starting" =>
        /\ thread[Main].home = "catch_up" /\ ~At(Main, "catch_up") =>
              /\ thread[Main].scope = Rep
              /\ thread[Main].step \in {"clear_marker", "done"} => Erased \cap log = {}
        /\ thread[Main].step \in {"catch_up", "caught_up"} \/ thread[Main].home = "caught_up" =>
              Erasing = {} /\ Erased \cap log = {}

Calm ==
    /\ RemovalsDue
    /\ stale # {} => Unvalidated
    /\ PassGoesOn
    /\ \A t \in Thread : Advances(t)
    /\ StartAdvances

CalmInv == ~faults => Calm

-----------------------------------------------------------------------------
(* The order of the queue *)

LEMMA OrderOnce ==
  ASSUME NEW S, IsFiniteSet(S), NEW order \in SetToSeqs(S)
  PROVE  order \in Seq(S) /\ ToSet(order) = S /\ Once(order)
<1>1. order \in Seq(S) /\ ToSet(order) = S
  BY OrderOf
<1>2. Cardinality(S) \in Nat
  BY FS_CardinalityType
<1>3. /\ order \in [1..Cardinality(S) -> S]
      /\ \A i, j \in 1..Cardinality(S) : i # j => order[i] # order[j]
  BY DEF SetToSeqs
<1> QED BY <1>1, <1>2, <1>3 DEF Once

LEMMA JoinedOnce ==
  ASSUME NEW A, NEW a \in Seq(A), NEW b \in Seq(A), Once(a), Once(b), ToSet(a) \cap ToSet(b) = {}
  PROVE  Once(a \o b)
<1> DEFINE c == a \o b
<1>1. /\ \A i \in DOMAIN c : \/ i \in DOMAIN a /\ c[i] = a[i]
                             \/ i > Len(a) /\ i - Len(a) \in DOMAIN b /\ c[i] = b[i - Len(a)]
      /\ \A i \in DOMAIN c : i \in Nat
      /\ Len(a) \in Nat
  OBVIOUS
<1>2. \A i \in DOMAIN a, j \in DOMAIN b : a[i] # b[j]
  BY DEF ToSet
<1> HIDE DEF c
<1>3. ASSUME NEW i \in DOMAIN c, NEW j \in DOMAIN c, c[i] = c[j] PROVE i = j
  <2>1. CASE i \in DOMAIN a /\ c[i] = a[i] /\ j \in DOMAIN a /\ c[j] = a[j]
    BY <1>3, <2>1 DEF Once
  <2>2. CASE /\ i > Len(a) /\ i - Len(a) \in DOMAIN b /\ c[i] = b[i - Len(a)]
             /\ j > Len(a) /\ j - Len(a) \in DOMAIN b /\ c[j] = b[j - Len(a)]
    <3>1. i - Len(a) = j - Len(a)
      BY <1>3, <2>2 DEF Once
    <3> QED BY <1>1, <3>1
  <2> QED BY <1>1, <1>2, <1>3, <2>1, <2>2
<1>4. Once(c)
  BY <1>3 DEF Once
<1> QED BY <1>4 DEF c

LEMMA WithoutKeeps ==
  ASSUME queue \in Seq(Op), Once(queue), NEW some
  PROVE  /\ Once(Without(some))
         /\ \A n \in Nat : \A op \in First(queue, n) \ some : op \in First(Without(some), n)
<1>1. PICK q : q = Kept(queue, Op \ some)
  OBVIOUS
<1>2. /\ q \in Seq(Op) /\ Once(q)
      /\ \A i \in DOMAIN queue : queue[i] \in Op \ some =>
            \E j \in DOMAIN q : j <= i /\ q[j] = queue[i]
  BY <1>1, KeptIn
<1>3. ASSUME NEW n \in Nat, NEW op \in First(queue, n) \ some PROVE op \in First(q, n)
  <2>1. PICK i \in DOMAIN queue : i <= n /\ op = queue[i]
    BY <1>3 DEF First
  <2>2. op \in Op \ some
    BY <1>3, <2>1
  <2>3. PICK j \in DOMAIN q : j <= i /\ q[j] = op
    BY <1>2, <2>1, <2>2
  <2>4. j <= n
    BY <1>2, <2>1, <2>3
  <2> QED BY <2>3, <2>4 DEF First
<1> QED BY <1>1, <1>2, <1>3 DEF Without

\* append_batch puts nothing before what was there of other representations.
LEMMA AppendedKeeps ==
  ASSUME NEW new \in SUBSET Op, NEW q \in Appended(new), queue \in Seq(Op), Once(queue)
  PROVE  /\ Once(q)
         /\ \A n \in Nat : \A op \in First(queue, n) :
               (\A x \in new : x[1] # op[1]) => op \in First(q, n)
<1> DEFINE gone == {op \in Op : \E n \in new : n[1] = op[1]}
<1>1. PICK order \in SetToSeqs(new) : q = Without(gone) \o order
  BY DEF Appended
<1>2. IsFiniteSet(new)
  BY OpIsFinite, FS_Subset
<1>3. order \in Seq(Op) /\ ToSet(order) = new /\ Once(order)
  <2>1. order \in Seq(new) /\ ToSet(order) = new /\ Once(order)
    BY <1>2, OrderOnce
  <2> QED BY <2>1
<1>4. new \subseteq gone
  OBVIOUS
<1>5. PICK p : p = Without(gone)
  OBVIOUS
<1>6. /\ p \in Seq(Op) /\ ToSet(p) = ToSet(queue) \ gone /\ Once(p)
      /\ \A n \in Nat : \A op \in First(queue, n) \ gone : op \in First(p, n)
  <2> HIDE DEF gone
  <2> QED BY <1>5, WithoutIn, WithoutKeeps
<1>7. Once(q)
  <2> HIDE DEF gone
  <2>1. ToSet(p) \cap ToSet(order) = {}
    BY <1>3, <1>4, <1>6
  <2> QED BY <1>1, <1>3, <1>5, <1>6, <2>1, JoinedOnce
<1>8. q = p \o order
  BY <1>1, <1>5
<1>9. \A i \in DOMAIN p : i \in DOMAIN q /\ q[i] = p[i]
  <2> HIDE DEF gone
  <2> QED BY <1>3, <1>6, <1>8
<1>10. ASSUME NEW n \in Nat, NEW op \in First(queue, n), \A x \in new : x[1] # op[1]
       PROVE  op \in First(q, n)
  <2>1. op \notin gone
    BY <1>10
  <2>2. op \in First(p, n)
    BY <1>6, <1>10, <2>1
  <2> QED BY <1>9, <2>2 DEF First
<1> QED BY <1>7, <1>10

\* A pass for as many operations as are due takes up all of them.
LEMMA FirstIsAll ==
  ASSUME queue \in Seq(Op), Once(queue)
  PROVE  /\ Cardinality(ToSet(queue)) \in Nat
         /\ First(queue, Cardinality(ToSet(queue))) = ToSet(queue)
<1> DEFINE D == 1..Len(queue)
<1>1. Len(queue) \in Nat /\ DOMAIN queue = D
  OBVIOUS
<1>2. IsFiniteSet(D) /\ Cardinality(D) = Len(queue)
  BY <1>1, FS_Interval
<1>3. queue \in Bijection(D, ToSet(queue))
  <2>1. queue \in [D -> ToSet(queue)]
    BY DEF ToSet
  <2> QED BY <1>1, <2>1 DEF Bijection, Injection, Surjection, IsInjective, Once, ToSet
<1>4. Cardinality(ToSet(queue)) = Len(queue)
  <2>1. ExistsBijection(D, ToSet(queue))
    BY <1>3 DEF ExistsBijection
  <2> HIDE DEF D
  <2> QED BY <1>2, <2>1, FS_Bijection
<1>5. First(queue, Len(queue)) = ToSet(queue)
  <2>1. {i \in DOMAIN queue : i <= Len(queue)} = DOMAIN queue
    BY <1>1
  <2> QED BY <2>1 DEF First, ToSet
<1> QED BY <1>1, <1>4, <1>5

\* What a pass claims is what comes first.
LEMMA ClaimedIsFirst ==
  ASSUME queue \in Seq(Op), NEW n \in Nat, NEW due,
         due = SubSeq(queue, 1, IF n < Len(queue) THEN n ELSE Len(queue))
  PROVE  ToSet(due) = First(queue, n) /\ (due = << >> => First(queue, n) = {})
<1> DEFINE m == IF n < Len(queue) THEN n ELSE Len(queue)
<1>1. m \in 0..Len(queue) /\ Len(queue) \in Nat
  OBVIOUS
<1>2. \A i \in DOMAIN queue : i <= n <=> i \in 1..m
  OBVIOUS
<1>3. due = SubSeq(queue, 1, m)
  OBVIOUS
<1> HIDE DEF m
<1>4. DOMAIN due = 1..m
  BY <1>1, <1>3
<1>5. \A i \in 1..m : due[i] = queue[i] /\ i \in DOMAIN queue
  BY <1>1, <1>3
<1>6. ToSet(due) = First(queue, n)
  BY <1>2, <1>4, <1>5 DEF ToSet, First
<1>7. due = << >> => ToSet(due) = {}
  BY DEF ToSet
<1> QED BY <1>6, <1>7

-----------------------------------------------------------------------------
(* Removals stay due, in their turn, until they are applied *)

\* What a step must show of the removals.
RemovalsKept ==
    /\ RemovalsDue'
    /\ applied \subseteq applied'
    /\ \A r \in keyed : rep[r] = "ERASING" =>
          \A n \in Nat : <<r, "REMOVE">> \in First(queue, n) =>
              <<r, "REMOVE">> \in applied' \cup First(queue, n)'

LEMMA SameRemovalsKept ==
  ASSUME RemovalsDue, UNCHANGED <<queue, backoff, applied, failed>>,
         \A r \in keyed' : rep'[r] = "ERASING" => r \in keyed /\ rep[r] = "ERASING"
  PROVE  RemovalsKept
BY DEF RemovalsKept, RemovalsDue, First

LEMMA AcceptKeepsRemovals ==
  ASSUME TypeOK, RowsInv, RemovalsDue, NEW new \in SUBSET Rep, Accept(new)
  PROVE  RemovalsKept
<1>1. PICK adds \in SUBSET Op : adds = {<<r, "ADD">> : r \in new}
  <2>1. {<<r, "ADD">> : r \in new} \in SUBSET Op
    BY DEF Op
  <2> QED BY <2>1
<1>2. queue \in Seq(Op) /\ queue' \in Appended(adds) /\ Once(queue) /\ keyed \subseteq Rep
  BY <1>1 DEF TypeOK, Accept, RemovalsDue
<1>3. /\ ToSet(queue') = {op \in ToSet(queue) : \A n \in adds : n[1] # op[1]} \cup adds
      /\ Once(queue')
      /\ \A n \in Nat : \A op \in First(queue, n) :
            (\A x \in adds : x[1] # op[1]) => op \in First(queue', n)
  BY <1>2, AppendedIn, AppendedKeeps
<1>4. /\ \A r \in new : rep[r] = "PENDING"
      /\ rep' = [r \in Rep |-> IF r \in new THEN "ACTIVE" ELSE rep[r]]
      /\ keyed' = keyed \cup new /\ UNCHANGED <<backoff, applied, failed>>
  BY DEF Accept
<1>5. \A r \in Rep : <<r, "REMOVE">> \notin adds /\ (r \notin new => \A x \in adds : x[1] # r)
  BY <1>1
<1>6. \A r \in keyed' : rep'[r] = "ERASING" => r \in Rep /\ r \notin new /\ r \in keyed /\ rep[r] = "ERASING"
  BY <1>2, <1>4
<1>7. \A r \in keyed : rep[r] = "ERASING" => \A x \in adds : x[1] # <<r, "REMOVE">>[1]
  BY <1>2, <1>4, <1>5
<1>8. ASSUME NEW r \in keyed', rep'[r] = "ERASING"
      PROVE  <<r, "REMOVE">> \in ToSet(queue') \cup applied'
  <2>1. r \in keyed /\ rep[r] = "ERASING" /\ <<r, "REMOVE">>[1] = r
    BY <1>6, <1>8
  <2>2. <<r, "REMOVE">> \in ToSet(queue) \cup applied
    BY <2>1 DEF RemovalsDue
  <2> QED BY <1>3, <1>4, <1>7, <2>1, <2>2
<1>9. ASSUME NEW r \in Rep, <<r, "REMOVE">> \in applied' PROVE <<r, "REMOVE">> \notin ToSet(queue')
  BY <1>3, <1>4, <1>5, <1>9 DEF RemovalsDue
<1>10. RemovalsDue'
  BY <1>3, <1>4, <1>8, <1>9 DEF RemovalsDue
<1>11. ASSUME NEW r \in keyed, rep[r] = "ERASING", NEW n \in Nat, <<r, "REMOVE">> \in First(queue, n)
       PROVE  <<r, "REMOVE">> \in First(queue', n)
  BY <1>3, <1>7, <1>11
<1> QED BY <1>4, <1>10, <1>11 DEF RemovalsKept, First

LEMMA QueueKeepsRemovals ==
  ASSUME TypeOK, RowsInv, RemovalsDue, NEW scope \in SUBSET Rep, QueueErasure(scope)
  PROVE  RemovalsKept
<1> DEFINE moved == {r \in scope : rep[r] \in {"PENDING", "ACTIVE"}}
           due == {r \in keyed : \/ r \in moved
                                 \/ rep[r] = "ERASING" /\ NeedsRemove(r)}
           removes == Removes(due)
<1>1. /\ rep' = [r \in Rep |-> IF r \in moved THEN "ERASING" ELSE rep[r]]
      /\ queue' \in Appended(removes)
      /\ UNCHANGED <<keyed, applied>>
  <2>1. queue' \in Appended(removes)
    BY DEF QueueErasure
  <2>2. rep' = [r \in Rep |-> IF r \in moved THEN "ERASING" ELSE rep[r]]
    BY DEF QueueErasure
  <2>3. UNCHANGED <<keyed, applied>>
    BY DEF QueueErasure
  <2> QED BY <2>1, <2>2, <2>3
<1>2. backoff' \subseteq backoff /\ failed' \subseteq failed
  BY DEF QueueErasure
<1>3. /\ \A r \in Rep : r \in moved <=> r \in scope /\ rep[r] \in {"PENDING", "ACTIVE"}
      /\ \A r \in Rep : r \in due <=> r \in keyed /\ (r \in moved \/ (rep[r] = "ERASING" /\ NeedsRemove(r)))
      /\ due \in SUBSET Rep
  <2>1. \A r \in Rep : r \in moved <=> r \in scope /\ rep[r] \in {"PENDING", "ACTIVE"}
    OBVIOUS
  <2>2. due \in SUBSET Rep
    BY DEF TypeOK
  <2>3. \A r \in Rep : r \in due <=>
           r \in keyed /\ (r \in moved \/ (rep[r] = "ERASING" /\ NeedsRemove(r)))
    OBVIOUS
  <2> HIDE DEF moved, due
  <2> QED BY <2>1, <2>2, <2>3
<1> HIDE DEF moved, due
<1>4. removes \in SUBSET Op /\ removes = {<<r, "REMOVE">> : r \in due}
  BY <1>3 DEF Removes, Op
<1> HIDE DEF removes
<1>5. queue \in Seq(Op) /\ Once(queue) /\ keyed \subseteq Rep /\ Pending = ToSet(queue)
  BY DEF TypeOK, RemovalsDue, Pending
<1>6. /\ ToSet(queue') = {op \in ToSet(queue) : \A n \in removes : n[1] # op[1]} \cup removes
      /\ Once(queue')
      /\ \A n \in Nat : \A op \in First(queue, n) :
            (\A x \in removes : x[1] # op[1]) => op \in First(queue', n)
  BY <1>1, <1>4, <1>5, AppendedIn, AppendedKeeps
<1>7. \A r \in Rep : /\ r \notin due => \A x \in removes : x[1] # <<r, "REMOVE">>[1]
                     /\ <<r, "REMOVE">> \in removes <=> r \in due
  BY <1>4
<1>8. ASSUME NEW r \in Rep, <<r, "REMOVE">> \in ToSet(queue) \cup applied
      PROVE  r \notin due
  <2>1. Gone(r)
    BY <1>5, <1>8 DEF RowsInv, Known
  <2>2. ~NeedsRemove(r)
    BY <1>5, <1>8 DEF NeedsRemove
  <2> QED BY <1>3, <2>1, <2>2 DEF Gone
<1>9. ASSUME NEW r \in keyed', rep'[r] = "ERASING"
      PROVE  <<r, "REMOVE">> \in ToSet(queue') \cup applied'
  <2>1. r \in keyed /\ r \in Rep /\ (r \in moved \/ rep[r] = "ERASING")
    BY <1>1, <1>3, <1>5, <1>9
  <2>2. CASE r \in due
    BY <1>6, <1>7, <2>1, <2>2
  <2>3. CASE r \notin due
    <3>1. <<r, "REMOVE">> \in Pending \cup applied
      BY <1>3, <2>1, <2>3 DEF NeedsRemove
    <3> QED BY <1>1, <1>5, <1>6, <1>7, <2>1, <2>3, <3>1
  <2> QED BY <2>2, <2>3
<1>10. ASSUME NEW r \in Rep, <<r, "REMOVE">> \in applied' PROVE <<r, "REMOVE">> \notin ToSet(queue')
  <2>1. <<r, "REMOVE">> \notin ToSet(queue) /\ <<r, "REMOVE">> \notin removes
    BY <1>1, <1>7, <1>8, <1>10 DEF RemovalsDue
  <2> QED BY <1>6, <2>1
<1>11. RemovalsDue'
  BY <1>2, <1>6, <1>9, <1>10 DEF RemovalsDue
<1>12. ASSUME NEW r \in keyed, NEW n \in Nat, <<r, "REMOVE">> \in First(queue, n)
       PROVE  <<r, "REMOVE">> \in First(queue', n)
  <2>1. <<r, "REMOVE">> \in ToSet(queue) /\ r \in Rep
    BY <1>5, <1>12 DEF First, ToSet
  <2> QED BY <1>6, <1>7, <1>8, <1>12, <2>1
<1> QED BY <1>1, <1>11, <1>12 DEF RemovalsKept, First

LEMMA SettleKeepsRemovals ==
  ASSUME TypeOK, RemovalsDue, PassGoesOn, Settle
  PROVE  RemovalsKept
<1>1. PICK still : still = ToSet(pass.claimed) \cap Pending
  OBVIOUS
<1>2. still \subseteq pass.ok /\ still \subseteq ToSet(queue) /\ queue \in Seq(Op) /\ Once(queue)
  BY <1>1 DEF PassGoesOn, Settle, RemovalsDue, Pending, TypeOK
<1>3. /\ applied' = applied \cup still
      /\ queue' = Without(still) /\ UNCHANGED <<rep, keyed>>
  BY <1>1, <1>2 DEF Settle, rows, Succeeded
<1>4. failed' = {} /\ backoff' = {}
  <2>1. still \ Succeeded = {}
    BY <1>2 DEF Succeeded
  <2>2. /\ failed' = failed \cup {op \in still \ Succeeded : RanOut(op)}
        /\ backoff' = (backoff \ still) \cup
              (still \ (Succeeded \cup {op \in still \ Succeeded : RanOut(op)}))
    BY <1>1 DEF Settle
  <2> QED BY <1>2, <2>1, <2>2 DEF RemovalsDue
<1>5. /\ ToSet(queue') = ToSet(queue) \ still /\ Once(queue')
      /\ \A n \in Nat : \A op \in First(queue, n) \ still : op \in First(queue', n)
  BY <1>2, <1>3, WithoutIn, WithoutKeeps
<1>6. RemovalsDue'
  BY <1>3, <1>4, <1>5 DEF RemovalsDue
<1> QED BY <1>3, <1>5, <1>6 DEF RemovalsKept, First

LEMMA RequeueKeepsRemovals ==
  ASSUME TypeOK, RemovalsDue, Requeue
  PROVE  RemovalsKept
<1>1. PICK order \in SetToSeqs(failed) : queue' = queue \o order
  BY DEF Requeue
<1>2. order \in Seq(failed) /\ ToSet(order) = {}
  BY OrderOf, FS_EmptySet DEF RemovalsDue
<1>3. order = << >>
  BY <1>2 DEF ToSet
<1>4. queue' = queue
  BY <1>1, <1>3 DEF TypeOK
<1>5. failed' = failed /\ UNCHANGED <<rep, keyed, backoff, applied>>
  BY DEF Requeue, RemovalsDue, rows
<1> QED BY <1>4, <1>5, SameRemovalsKept

LEMMA NextKeepsRemovals ==
  ASSUME TypeOK, RowsInv, RemovalsDue, PassGoesOn, [Next]_vars
  PROVE  RemovalsKept
<1>1. CASE UNCHANGED <<rep, keyed, queue, backoff, applied, failed>>
  BY <1>1, SameRemovalsKept
<1>2. ASSUME NEW new \in SUBSET Rep, Accept(new) PROVE RemovalsKept
  BY <1>2, AcceptKeepsRemovals
<1>3. ASSUME NEW t \in Caller, NEW scope \in SUBSET Rep, Erase(t, scope) PROVE RemovalsKept
  BY <1>3, QueueKeepsRemovals DEF Erase
<1>4. CASE Resume
  BY <1>4, QueueKeepsRemovals DEF Resume
<1>5. ASSUME NEW op \in Op, BackoffEnds(op) PROVE FALSE
  BY <1>5 DEF BackoffEnds, RemovalsDue
<1>6. ASSUME NEW t \in Thread, Clear(t) PROVE RemovalsKept
  <2>1. /\ UNCHANGED <<queue, backoff, applied, failed>> /\ keyed' \subseteq keyed
        /\ \A r \in Rep : rep'[r] = "ERASING" => rep[r] = "ERASING"
    BY <1>6 DEF Clear, ops
  <2> QED BY <2>1, SameRemovalsKept DEF TypeOK
<1>7. ASSUME NEW t \in Thread, Claim(t) \/ FinalizeSpace(t)
      PROVE  UNCHANGED <<rep, keyed, queue, backoff, applied, failed>>
  BY <1>7 DEF Claim, FinalizeSpace, rows, ops
<1>8. ASSUME NEW t \in Thread, QuietStep(t)
      PROVE  UNCHANGED <<rep, keyed, queue, backoff, applied, failed>>
  BY <1>8, QuietFrame
<1>9. CASE PassWork
  BY <1>1, <1>9, PassFrame
<1>10. CASE PassEnds
  BY <1>1, <1>10, PassEndsFrame
<1>11. CASE Damage \/ UNCHANGED vars
  BY <1>1, <1>11 DEF Damage, vars, state, rows, ops
<1> QED
  BY <1>1, <1>2, <1>3, <1>4, <1>5, <1>6, <1>7, <1>8, <1>9, <1>10, <1>11, RequeueKeepsRemovals,
     SettleKeepsRemovals, StepCases

-----------------------------------------------------------------------------
(* Passes leave nothing out, and files that a kill left are gone once startup has
   looked at the index *)

LEMMA FaultsStay == ASSUME [Next]_vars PROVE faults' = faults
BY DEF Next, vars

\* Nobody is under way in a process that is gone or has just begun.
LEMMA NobodyMoves ==
  ASSUME TypeOK, LockInv, phase = "closed" \/ At(Main, "accepting")
  PROVE  /\ \A t \in Thread : thread[t].step \in {"idle", "down", "accepting"}
         /\ pass.step = "none"
         /\ phase # "open"
<1>1. /\ Main \in Thread /\ Thread = Caller \cup {Main}
      /\ phase \in {"closed", "starting", "open"}
  BY DEF TypeOK, Thread
<1>2. phase # "open" /\ thread[Main].step \in {"down", "accepting"}
  BY DEF LockInv, At, StartupSteps
<1>3. \A t \in Thread : thread[t].step \in {"idle", "down", "accepting"}
  BY <1>1, <1>2 DEF LockInv, At
<1> QED BY <1>2, <1>3 DEF LockInv

LEMMA NothingToRetire ==
  ASSUME TypeOK, LockInv, stale # {} => Unvalidated, pass.step \notin {"none", "open"}
  PROVE  stale = {}
BY NobodyMoves DEF Unvalidated

LEMMA StaleStays ==
  ASSUME TypeOK, LockInv, ~faults, stale # {} => Unvalidated, [Next]_vars, stale' # {}
  PROVE  Unvalidated'
<1>0. /\ thread \in [Thread -> Calls] /\ Main \in Thread /\ Caller \subseteq Thread
      /\ pass \in Passes
  BY DEF TypeOK, Thread
<1>1. ASSUME stale' = stale
      PROVE  Unvalidated
  BY <1>1
<1>2. CASE UNCHANGED <<phase, pass, stale>> /\ thread'[Main] = thread[Main]
  BY <1>1, <1>2 DEF Unvalidated, At
<1>3. ASSUME NEW t \in Thread, thread[t].step \notin {"idle", "down", "accepting"},
             UNCHANGED <<pass, stale>>
      PROVE  Unvalidated'
  <2>1. pass.validate /\ pass.step = "open"
    BY <1>1, <1>3, NobodyMoves DEF Unvalidated
  <2> QED BY <1>3, <2>1 DEF Unvalidated
<1>4. ASSUME NEW new \in SUBSET Rep, Accept(new) PROVE Unvalidated'
  <2>1. UNCHANGED <<phase, pass, stale>>
    BY <1>4 DEF Accept, files
  <2>2. CASE phase = "open"
    <3>1. pass.validate /\ pass.step = "open"
      BY <1>1, <2>1, <2>2, NobodyMoves DEF Unvalidated
    <3> QED BY <2>1, <3>1 DEF Unvalidated
  <2>3. CASE phase # "open"
    BY <1>2, <1>4, <2>1, <2>3 DEF Accept
  <2> QED BY <2>2, <2>3
<1>5. ASSUME NEW t \in Caller, NEW scope \in SUBSET Rep, Erase(t, scope) PROVE Unvalidated'
  <2>1. UNCHANGED <<phase, pass, stale>> /\ thread' = [thread EXCEPT ![t].step = "drive", ![t].scope = scope]
    BY <1>5 DEF Erase, QueueErasure, files
  <2>2. t # Main
    BY MemoryAssumption, <1>5
  <2> QED BY <1>0, <1>2, <2>1, <2>2
<1>6. ASSUME NEW t \in Thread, Claim(t) PROVE FALSE
  <2>1. stale' = stale /\ lock = Nobody /\ thread[t].step = "pass"
    BY <1>6 DEF Claim, files, At
  <2>2. ~pass.validate
    BY <2>1, NoPassHere
  <2> QED BY <1>1, <2>1, <2>2, NobodyMoves DEF Unvalidated
<1>7. ASSUME NEW t \in Thread, FinalizeSpace(t) \/ Clear(t) PROVE Unvalidated'
  <2>1. thread[t].step \in {"finalize", "clear"} /\ UNCHANGED <<pass, stale>>
    BY <1>7 DEF FinalizeSpace, Clear, files, At
  <2> QED BY <1>3, <2>1
<1>8. ASSUME NEW t \in Thread, QuietStep(t) PROVE Unvalidated'
  <2>1. UNCHANGED <<pass, stale>>
    BY <1>8, QuietFrame
  <2>2. CASE Drive(t) \/ Summarize(t) \/ ReadMarker(t) \/ Truncate(t) \/ ClearMarker(t)
             \/ Report(t) \/ SearchAnswer(t)
    <3>1. thread[t].step \in {"drive", "summarize", "read_marker", "truncate", "clear_marker",
                              "done", "search"}
      BY <2>2 DEF Drive, Summarize, ReadMarker, Truncate, ClearMarker, Report, SearchAnswer, At
    <3> QED BY <1>3, <2>1, <3>1
  <2>3. CASE DecideAnswer \/ CatchUp \/ OpenLibrary
    <3>1. thread[Main].step \in {"decide", "catch_up", "caught_up"}
      BY <2>3 DEF DecideAnswer, CatchUp, OpenLibrary, At
    <3> QED BY <1>0, <1>3, <2>1, <3>1
  <2>4. CASE Start
    <3>1. At(Main, "accepting")'
      BY <1>0, <2>4 DEF Start, At, Rest
    <3> QED BY <3>1 DEF Unvalidated
  <2>5. CASE Search(t) \/ Decide
    <3>1. phase = "open"
      BY <2>5 DEF Search, Decide
    <3>2. pass.validate /\ pass.step = "open"
      BY <1>1, <2>1, <3>1, NobodyMoves DEF Unvalidated
    <3> QED BY <2>1, <3>2 DEF Unvalidated
  <2> QED BY <1>8, <2>2, <2>3, <2>4, <2>5 DEF QuietStep, SpaceBlocked
<1>9. CASE Resume \/ Requeue
  <2>1. thread[Main].step \in {"resume", "requeue"} /\ UNCHANGED <<pass, stale>>
    BY <1>9 DEF Resume, Requeue, QueueErasure, files, At
  <2> QED BY <1>0, <1>3, <2>1
<1>10. ASSUME pass.step \notin {"none", "open"}, stale' = stale PROVE FALSE
  BY <1>10, NothingToRetire
<1>11. CASE Settle \/ Validated
  <2>1. pass.step = "settle" /\ stale' = stale
    BY <1>11 DEF Settle, Validated, files
  <2> QED BY <1>10, <2>1
<1>12. CASE PassWork
  <2>1. ~OpenIndex /\ ~Publish
    BY DEF OpenIndex, Publish, LeftOf
  <2>2. ~OperationFails /\ ~SpaceFails
    BY DEF OperationFails, SpaceFails
  <2>3. pass.step \notin {"none", "open"} /\ stale' = stale
    BY <1>12, <2>1, <2>2 DEF PassWork, Build, WriteGeneration, ApplyOne, AfterApply, Retired, files
  <2> QED BY <1>10, <2>3
<1>13. CASE Crash
  BY <1>13 DEF Crash, Unvalidated
<1>14. CASE Validate
  <2>1. pass'.step = "open" /\ pass'.validate
    BY <1>14 DEF Validate, NoPass
  <2> QED BY <2>1 DEF Unvalidated
<1>15. ASSUME NEW op \in Op, BackoffEnds(op) PROVE Unvalidated'
  BY <1>2, <1>15 DEF BackoffEnds, files
<1>16. CASE UNCHANGED vars
  BY <1>2, <1>16 DEF vars, state
<1>17. ~Damage /\ \A t \in Thread : ~CallFails(t)
  BY DEF Damage, CallFails
<1> QED
  BY <1>4, <1>5, <1>6, <1>7, <1>8, <1>9, <1>11, <1>12, <1>13, <1>14, <1>15, <1>16, <1>17,
     StepCases DEF PassEnds

LEMMA PassWorkGoesOn ==
  ASSUME TypeOK, LockInv, ~faults, stale # {} => Unvalidated, PassGoesOn, PassWork
  PROVE  PassGoesOn'
<1>0. /\ pass \in Passes /\ pass'.claimed = pass.claimed
      /\ pass.claimed \in Seq(Op) /\ pass.todo \in Seq(Op)
  BY PassFrame DEF TypeOK, Passes
<1>1. ASSUME pass'.ok = pass.ok, pass'.todo = pass.todo, pass.step # "none",
             pass'.step \notin {"retired", "settle"}
      PROVE  PassGoesOn'
  BY <1>0, <1>1 DEF PassGoesOn
<1>2. CASE OpenIndex
  <2>1. /\ pass.step = "open"
        /\ \/ \E b : pass' = [pass EXCEPT !.step = "apply", !.mem = b]
           \/ \E b : pass' = [pass EXCEPT !.step = "build", !.rebuilt = b]
    BY <1>2 DEF OpenIndex
  <2> QED BY <1>0, <1>1, <2>1 DEF Passes
<1>3. CASE Build
  BY <1>0, <1>1, <1>3 DEF Passes, Build
<1>4. CASE WriteGeneration
  BY <1>0, <1>1, <1>4 DEF Passes, WriteGeneration
<1>5. CASE Publish
  BY <1>0, <1>1, <1>5 DEF Passes, Publish
<1>6. CASE ApplyOne
  <2>1. /\ pass.step = "apply" /\ pass.todo # << >>
        /\ \E c, d, e : pass' = [pass EXCEPT !.todo = Tail(@), !.ok = @ \cup {Head(pass.todo)},
                                              !.mem = c, !.purge = d, !.changed = e]
    BY <1>6 DEF ApplyOne
  <2>2. pass'.step = "apply" /\ pass'.todo = Tail(pass.todo) /\ pass'.ok = pass.ok \cup {Head(pass.todo)}
    BY <1>0, <2>1 DEF Passes
  <2>3. ToSet(pass.todo) \subseteq {Head(pass.todo)} \cup ToSet(Tail(pass.todo))
    <3> DEFINE s == pass.todo
    <3> HIDE DEF s
    <3>1. s \in Seq(Op) /\ s # << >>
      BY <1>0, <2>1 DEF s
    <3>2. ASSUME NEW i \in DOMAIN s, i # 1 PROVE s[i] \in ToSet(Tail(s))
      <4>1. i - 1 \in DOMAIN Tail(s) /\ Tail(s)[i - 1] = s[i]
        BY <3>1, <3>2
      <4> QED BY <4>1 DEF ToSet
    <3>3. Head(s) = s[1]
      BY <3>1
    <3>4. ToSet(s) \subseteq {Head(s)} \cup ToSet(Tail(s))
      BY <3>2, <3>3 DEF ToSet
    <3> QED BY <3>4 DEF s
  <2> QED BY <1>0, <2>1, <2>2, <2>3 DEF PassGoesOn
<1>7. CASE AfterApply
  <2>1. pass.step = "apply" /\ pass.todo = << >>
    BY <1>7 DEF AfterApply
  <2>2. ToSet(pass.claimed) \subseteq pass.ok
    <3>1. ToSet(pass.todo) = {}
      BY <2>1 DEF ToSet
    <3> QED BY <2>1, <3>1 DEF PassGoesOn
  <2>3. \/ \E b : pass' = [pass EXCEPT !.step = "build", !.rebuilt = TRUE, !.todo = b]
        \/ pass' = [pass EXCEPT !.step = "write"]
        \/ pass' = [pass EXCEPT !.step = "retired"]
    BY <1>7 DEF AfterApply
  <2>4. pass'.ok = pass.ok
    BY <1>0, <2>3 DEF Passes
  <2> QED BY <1>0, <2>2, <2>4 DEF PassGoesOn
<1>8. CASE Retired
  <2>1. stale = {} /\ pass.step = "retired"
    BY <1>8, NothingToRetire DEF Retired
  <2>2. pass'.ok = pass.ok
    BY <1>0, <1>8, <2>1 DEF Retired, Passes
  <2> QED BY <1>0, <2>1, <2>2 DEF PassGoesOn
<1> QED
  BY <1>2, <1>3, <1>4, <1>5, <1>6, <1>7, <1>8 DEF PassWork, OperationFails, SpaceFails

LEMMA NextPassGoesOn ==
  ASSUME TypeOK, LockInv, ~faults, stale # {} => Unvalidated, PassGoesOn, [Next]_vars
  PROVE  PassGoesOn'
<1>1. CASE UNCHANGED pass
  BY <1>1 DEF PassGoesOn
<1>2. ASSUME ToSet(pass'.claimed) = {} PROVE PassGoesOn'
  BY <1>2 DEF PassGoesOn
<1>3. ToSet(NoPass.claimed) = {} /\ ToSet([NoPass EXCEPT !.step = "open", !.validate = TRUE].claimed) = {}
  BY DEF NoPass, ToSet
<1>4. CASE PassEnds
  BY <1>1, <1>2, <1>3, <1>4, PassEndsFrame
<1>5. CASE Settle
  BY <1>2, <1>3, <1>5 DEF Settle
<1>6. ASSUME NEW t \in Thread, Claim(t) PROVE PassGoesOn'
  <2>1. \/ UNCHANGED pass
        \/ \E due : pass' = [NoPass EXCEPT !.step = "open", !.claimed = due, !.todo = due]
    BY <1>6 DEF Claim
  <2>2. ASSUME NEW due, pass' = [NoPass EXCEPT !.step = "open", !.claimed = due, !.todo = due]
        PROVE  PassGoesOn'
    <3>1. pass'.step = "open" /\ pass'.claimed = due /\ pass'.todo = due
      BY <2>2 DEF NoPass
    <3> QED BY <3>1 DEF PassGoesOn
  <2> QED BY <1>1, <2>1, <2>2
<1>7. ASSUME NEW t \in Thread, QuietStep(t) PROVE PassGoesOn'
  BY <1>1, <1>7, QuietFrame
<1>8. ASSUME NEW t \in Thread, FinalizeSpace(t) \/ Clear(t) PROVE UNCHANGED pass
  BY <1>8 DEF FinalizeSpace, Clear
<1>9. ASSUME NEW scope \in SUBSET Rep, QueueErasure(scope) PROVE UNCHANGED pass
  BY <1>9 DEF QueueErasure
<1>10. CASE Resume \/ \E t \in Caller, scope \in SUBSET Rep : Erase(t, scope)
  BY <1>1, <1>9, <1>10 DEF Resume, Erase
<1>11. CASE (\E new \in SUBSET Rep : Accept(new)) \/ Requeue \/ (\E op \in Op : BackoffEnds(op)) \/ Damage
  BY <1>1, <1>11 DEF Accept, Requeue, BackoffEnds, Damage
<1>12. CASE UNCHANGED vars
  BY <1>1, <1>12 DEF vars, state
<1> QED
  BY <1>1, <1>4, <1>5, <1>6, <1>7, <1>8, <1>10, <1>11, <1>12, PassWorkGoesOn, StepCases

-----------------------------------------------------------------------------
(* A call goes on with what it has begun *)

\* What a call was to erase and has not is only what it had not erased before.
LEMMA AwaitedBefore ==
  ASSUME TypeOK, RowsInv, LockInv, ReportInv, [Next]_vars, NEW u \in Thread,
         NEW r \in thread[u].scope, r \in Erasing'
  PROVE  /\ r \in Erasing
         /\ r \in keyed' => r \in keyed
<1>0. /\ thread[u] \in Calls /\ (u \in Caller \/ u = Main) /\ r \in Rep
  BY DEF TypeOK, Thread, Calls
<1>1. rep'[r] = "ERASING"
  BY DEF Erasing
<1>2. r \in Erasing
  <2>1. CASE thread[u].home = "idle"
    <3>1. Gone(r)
      BY <2>1 DEF ReportInv
    <3>2. rep[r] # "ERASED"
      BY <1>0, <1>1, NothingComesBack
    <3> QED BY <1>0, <3>1, <3>2 DEF Gone, Erasing
  <2>2. CASE thread[u].home # "idle"
    <3>1. phase # "open"
      BY <1>0, <2>2 DEF LockInv
    <3> QED BY <3>1, ErasingMoves DEF Erase
  <2> QED BY <2>1, <2>2
<1>3. r \in keyed' => r \in keyed
  BY <1>0, <1>2, NothingComesBack DEF Gone, Erasing
<1> QED BY <1>2, <1>3

\* Where nothing fails, a pass that others see under way stays its holder's.
LEMMA LockMoves ==
  ASSUME TypeOK, LockInv, ~faults, [Next]_vars, NEW u \in Thread, At(u, "pass"),
         thread'[u] = thread[u], thread[u].scope # {}, ~Claim(u)
  PROVE  /\ lock = u => lock' = u /\ pass'.claimed = pass.claimed
         /\ lock # u => lock' # u
<1>0. /\ thread \in [Thread -> Calls] /\ thread[u] \in Calls
      /\ Main \in Thread /\ Caller \subseteq Thread /\ Nobody \notin Thread
      /\ thread[u].step = "pass"
  BY MemoryAssumption DEF TypeOK, Thread, At
<1> DEFINE Stays == /\ lock = u => lock' = u /\ pass'.claimed = pass.claimed
                    /\ lock # u => lock' # u
<1>1. CASE UNCHANGED <<lock, pass>>
  BY <1>1
<1>2. ASSUME NEW t \in Thread, Claim(t) PROVE Stays
  <2>1. lock = Nobody /\ (lock' = lock \/ lock' = t)
    BY <1>2 DEF Claim
  <2>2. t # u
    BY <1>2
  <2> QED BY <1>0, <2>1, <2>2
<1>3. ASSUME NEW t \in Thread, FinalizeSpace(t) PROVE Stays
  <2>1. /\ lock = Nobody /\ lock' \in {Nobody, t} /\ thread[t].step = "finalize"
    BY <1>3 DEF FinalizeSpace, At
  <2> QED BY <1>0, <2>1
<1>4. ASSUME NEW t \in Thread, thread[t].step \in {"clear", "search"}, lock' \in {lock, Nobody},
             UNCHANGED pass
      PROVE  Stays
  <2>1. lock = t /\ t # u
    BY <1>0, <1>4 DEF LockInv
  <2> QED BY <1>0, <1>4, <2>1
<1>5. ASSUME NEW t \in Thread, Clear(t) PROVE Stays
  BY <1>4, <1>5 DEF Clear, At
<1>6. ASSUME NEW t \in Thread, QuietStep(t) PROVE Stays
  <2>1. UNCHANGED pass
    BY <1>6, QuietFrame
  <2>2. CASE SearchAnswer(t)
    BY <1>4, <2>1, <2>2 DEF SearchAnswer, At
  <2>3. CASE Search(t)
    <3>1. lock = Nobody /\ lock' = t /\ thread[t].step = "idle"
      BY <2>3 DEF Search, Exclusive, At
    <3> QED BY <1>0, <3>1
  <2>4. CASE UNCHANGED lock
    BY <1>1, <2>1, <2>4
  <2>5. CASE Drive(t) \/ Summarize(t) \/ ReadMarker(t) \/ Truncate(t) \/ ClearMarker(t) \/ Report(t)
    BY <2>4, <2>5 DEF Drive, Summarize, ReadMarker, Truncate, ClearMarker, Report
  <2>6. CASE Decide \/ DecideAnswer \/ Start \/ CatchUp \/ OpenLibrary
    BY <2>4, <2>6 DEF Decide, DecideAnswer, Start, CatchUp, OpenLibrary
  <2>7. ~SpaceBlocked(t)
    BY DEF SpaceBlocked
  <2> QED BY <1>6, <2>2, <2>3, <2>5, <2>6, <2>7 DEF QuietStep
<1>7. ASSUME Settle PROVE Stays
  <2>1. lock \in Thread /\ lock' = Nobody
    BY <1>7 DEF Settle, LockInv
  <2>2. lock # u
    <3> SUFFICES ASSUME lock = u PROVE FALSE
      OBVIOUS
    <3>1. \E b : thread' = [thread EXCEPT ![u].step = "finalize", ![u].owed = b]
      BY <1>7 DEF Settle
    <3>2. thread'[u].step = "finalize"
      BY <1>0, <3>1 DEF Calls
    <3> QED BY <1>0, <3>2
  <2> QED BY <1>0, <2>1, <2>2
<1>8. CASE PassWork
  BY <1>8, PassFrame
<1>9. ASSUME Crash PROVE FALSE
  <2>1. thread'[u].step \in {"down", "idle"}
    BY <1>0, <1>9 DEF Crash, Rest
  <2> QED BY <1>0, <2>1
<1>10. ASSUME Validate PROVE Stays
  <2>1. At(Main, "accepting")
    BY <1>10 DEF Validate
  <2>2. FALSE
    BY <1>0, <2>1, NobodyMoves
  <2> QED BY <2>2
<1>11. ASSUME Validated PROVE Stays
  <2>1. lock = Main /\ thread[Main].step = "validate" /\ lock' = Nobody
    BY <1>11 DEF Validated, LockInv, At
  <2> QED BY <1>0, <2>1
<1>12. \A t \in Thread : ~CallFails(t)
  BY DEF CallFails
<1>13. CASE Resume \/ Requeue \/ Damage \/ (\E op \in Op : BackoffEnds(op))
            \/ (\E new \in SUBSET Rep : Accept(new))
            \/ (\E t \in Caller, scope \in SUBSET Rep : Erase(t, scope))
  BY <1>1, <1>13 DEF Resume, Erase, QueueErasure, Requeue, Damage, BackoffEnds, Accept
<1>14. CASE UNCHANGED vars
  BY <1>1, <1>14 DEF vars, state
<1> HIDE DEF Stays
<1>15. Stays
  BY <1>2, <1>3, <1>5, <1>6, <1>7, <1>8, <1>9, <1>10, <1>11, <1>12, <1>13, <1>14, StepCases
     DEF PassEnds, Stays
<1> QED BY <1>15 DEF Stays

\* What has been found out of a call that does not move stays true.
LEMMA AdvancesStay ==
  ASSUME TypeOK, RowsInv, LockInv, ReportInv, ~faults, RemovalsDue, PassGoesOn, [Next]_vars,
         NEW u \in Thread, Advances(u), thread'[u] = thread[u], ~Claim(u)
  PROVE  Advances(u)'
<1>0. thread[u] \in Calls
  BY DEF TypeOK
<1>1. RemovalsKept
  BY NextKeepsRemovals
<1>2. \A r \in thread[u].scope \cap Erasing' : r \in Erasing /\ (r \in keyed' => r \in keyed)
  BY AwaitedBefore
<1>3. \A r \in Awaits(u)' : r \in Awaits(u) /\ r \in keyed /\ rep[r] = "ERASING" /\ thread[u].scope # {}
  BY <1>2 DEF Awaits, Erasing
<1>4. ASSUME At(u, "pass"), NEW r \in Awaits(u)'
      PROVE  <<r, "REMOVE">> \in applied' \cup
                (IF lock' = u THEN ToSet(pass'.claimed) ELSE First(queue, thread[u].limit)')
  <2>1. /\ lock = u => lock' = u /\ pass'.claimed = pass.claimed
        /\ lock # u => lock' # u
    BY <1>3, <1>4, LockMoves
  <2>2. <<r, "REMOVE">> \in applied \cup (IF lock = u THEN ToSet(pass.claimed)
                                         ELSE First(queue, thread[u].limit))
    BY <1>3, <1>4 DEF Advances
  <2>3. applied \subseteq applied'
    BY <1>1 DEF RemovalsKept
  <2>4. CASE lock = u
    BY <2>1, <2>2, <2>3, <2>4
  <2>5. CASE lock # u
    <3>1. PICK n \in Nat : n = thread[u].limit
      BY <1>0 DEF Calls
    <3>2. n = thread'[u].limit
      BY <3>1
    <3>3. <<r, "REMOVE">> \in applied \cup First(queue, n)
      BY <2>2, <2>5, <3>1
    <3>4. <<r, "REMOVE">> \in applied' \cup First(queue, n)'
      BY <1>1, <1>3, <1>4, <2>3, <3>3 DEF RemovalsKept
    <3>5. First(queue, n)' = First(queue, thread[u].limit)'
      BY <3>2 DEF First
    <3> QED BY <2>1, <2>5, <3>4, <3>5
  <2> QED BY <2>4, <2>5
<1>5. ASSUME At(u, "finalize"), NEW r \in Awaits(u)' PROVE <<r, "REMOVE">> \in applied'
  <2>1. <<r, "REMOVE">> \in applied
    BY <1>3, <1>5 DEF Advances
  <2> QED BY <1>1, <2>1 DEF RemovalsKept
<1>6. At(u, "clear") => thread[u].scope \cap Erasing' \subseteq thread[u].ready
  BY <1>2 DEF Advances
<1>7. thread[u].step \in {"summarize"} \cup ReportSteps => thread[u].scope \cap Erasing' = {}
  BY <1>2 DEF Advances
<1> QED BY <1>4, <1>5, <1>6, <1>7 DEF Advances, At

\* A call that is about nothing has nothing to find out.
LEMMA ScopelessAdvances ==
  ASSUME NEW u \in Thread, thread'[u].scope = {}, ~thread'[u].owed
  PROVE  Advances(u)'
BY DEF Advances, Awaits

LEMMA RestAdvances ==
  ASSUME NEW u \in Thread, NEW step, thread'[u] = Rest(step)
  PROVE  Advances(u)'
BY ScopelessAdvances DEF Rest

LEMMA Scopeless ==
  ASSUME NEW u \in Thread, Advances(u), thread[u].step \notin EraserSteps
  PROVE  thread[u].scope = {} /\ ~thread[u].owed
BY DEF Advances

\* _drive plans a pass for every operation that is due.
LEMMA DriveAdvances ==
  ASSUME TypeOK, LockInv, RemovalsDue, NEW u \in Thread, Advances(u), Drive(u)
  PROVE  Advances(u)'
<1>0. thread \in [Thread -> Calls] /\ thread[u] \in Calls /\ queue \in Seq(Op) /\ Nobody \notin Thread
  BY MemoryAssumption DEF TypeOK, Thread
<1> DEFINE c == thread[u]  d == thread'[u]
<1>1. /\ thread' = [thread EXCEPT ![u].limit = EveryDue, ![u].step = AfterDrive]
      /\ UNCHANGED <<rep, keyed, queue, backoff, applied, failed, tries, lock, pass>>
      /\ c.step = "drive"
  BY DEF Drive, rows, ops, At
<1>2. /\ d.limit = Cardinality(ToSet(queue)) /\ d.step = AfterDrive
      /\ d.scope = c.scope /\ d.owed = c.owed
  <2>1. EveryDue = Cardinality(ToSet(queue))
    BY DEF EveryDue, Pending, RemovalsDue
  <2> QED BY <1>0, <1>1, <2>1 DEF Calls
<1>3. lock # u
  BY <1>1, Movers
<1>4. ~c.owed
  BY DEF Advances
<1>5. \A r \in Awaits(u) : <<r, "REMOVE">> \in applied \cup ToSet(queue)
  BY DEF Awaits, RemovalsDue, Erasing
<1>6. Awaits(u)' = Awaits(u) /\ Erasing' = Erasing
  BY <1>1, <1>2 DEF Awaits, Erasing
<1>7. First(queue, thread[u].limit)' = ToSet(queue)
  <2>1. First(queue, Cardinality(ToSet(queue))) = ToSet(queue)
    BY <1>0, FirstIsAll DEF RemovalsDue
  <2>2. First(queue, thread[u].limit)' = First(queue, Cardinality(ToSet(queue)))
    BY <1>1, <1>2 DEF First
  <2> QED BY <2>1, <2>2
<1>8. CASE d.step = "summarize" /\ Erasing = {}
  BY <1>2, <1>4, <1>6, <1>8 DEF Advances, At, EraserSteps, ReportSteps
<1>9. CASE d.step = "finalize" /\ Pending = {}
  <2>1. \A r \in Awaits(u)' : <<r, "REMOVE">> \in applied'
    BY <1>1, <1>5, <1>6, <1>9 DEF Pending
  <2> QED BY <1>2, <1>4, <1>9, <2>1 DEF Advances, At, EraserSteps, ReportSteps
<1>10. CASE d.step = "pass"
  <2>1. \A r \in Awaits(u)' : <<r, "REMOVE">> \in (applied \cup (IF lock = u THEN ToSet(pass.claimed)
                                                    ELSE First(queue, thread[u].limit)))'
    BY <1>1, <1>3, <1>5, <1>6, <1>7
  <2> QED BY <1>2, <1>4, <1>10, <2>1 DEF Advances, At, EraserSteps, ReportSteps
<1> QED BY <1>2, <1>8, <1>9, <1>10 DEF AfterDrive

\* A pass takes what comes first; with nothing due, all that is needed was applied.
LEMMA ClaimAdvances ==
  ASSUME TypeOK, LockInv, RemovalsDue, NEW u \in Thread, Advances(u), Claim(u)
  PROVE  Advances(u)'
<1>0. /\ thread \in [Thread -> Calls] /\ thread[u] \in Calls /\ queue \in Seq(Op)
      /\ Nobody \notin Thread /\ thread[u].limit \in Nat
  BY MemoryAssumption DEF TypeOK, Thread, Calls
<1> DEFINE c == thread[u]  d == thread'[u]
           due == SubSeq(queue, 1, IF c.limit < Len(queue) THEN c.limit ELSE Len(queue))
<1>1. /\ UNCHANGED <<rep, keyed, queue, backoff, applied, failed, tries>>
      /\ c.step = "pass" /\ lock = Nobody
  BY DEF Claim, rows, ops, At
<1>2. \/ Return(u)
      \/ due = << >> /\ GoTo(u, "finalize")
      \/ thread' = thread /\ lock' = u /\ pass' = [NoPass EXCEPT !.step = "open", !.claimed = due, !.todo = due]
  BY DEF Claim
<1>3. ToSet(due) = First(queue, c.limit) /\ (due = << >> => First(queue, c.limit) = {})
  BY <1>0, ClaimedIsFirst
<1> HIDE DEF due
<1>4. ~c.owed /\ \A r \in Awaits(u) : <<r, "REMOVE">> \in applied \cup First(queue, c.limit)
  BY <1>0, <1>1 DEF Advances, At
<1>5. CASE Return(u)
  <2>1. \E step : thread'[u] = Rest(step)
    BY <1>0, <1>5 DEF Return
  <2> QED BY <2>1, RestAdvances
<1>6. CASE due = << >> /\ GoTo(u, "finalize")
  <2>1. d.step = "finalize" /\ d.scope = c.scope /\ d.owed = c.owed
    BY <1>0, <1>6 DEF GoTo, Calls
  <2>2. Awaits(u)' = Awaits(u)
    BY <1>1, <2>1 DEF Awaits, Erasing
  <2>3. \A r \in Awaits(u)' : <<r, "REMOVE">> \in applied'
    BY <1>1, <1>3, <1>4, <1>6, <2>2
  <2> QED BY <1>4, <2>1, <2>3 DEF Advances, At, EraserSteps, ReportSteps
<1>7. CASE /\ thread' = thread /\ lock' = u
           /\ pass' = [NoPass EXCEPT !.step = "open", !.claimed = due, !.todo = due]
  <2>1. pass'.claimed = due
    BY <1>7 DEF NoPass
  <2>2. Awaits(u)' = Awaits(u)
    BY <1>1, <1>7 DEF Awaits, Erasing
  <2>3. \A r \in Awaits(u)' : <<r, "REMOVE">> \in (applied \cup (IF lock = u THEN ToSet(pass.claimed)
                                                    ELSE First(queue, thread[u].limit)))'
    BY <1>1, <1>3, <1>4, <1>7, <2>1, <2>2
  <2>4. d = c
    BY <1>7
  <2> QED BY <1>1, <1>4, <2>3, <2>4 DEF Advances, At, EraserSteps, ReportSteps
<1> QED BY <1>2, <1>5, <1>6, <1>7

\* What was claimed is applied.
LEMMA SettleAdvances ==
  ASSUME TypeOK, LockInv, RemovalsDue, PassGoesOn, NEW u \in Thread, Advances(u), Settle, lock = u
  PROVE  Advances(u)'
<1>0. thread \in [Thread -> Calls] /\ thread[u] \in Calls
  BY DEF TypeOK
<1> DEFINE c == thread[u]  d == thread'[u]
           still == ToSet(pass.claimed) \cap Pending
           lost == {op \in still \ Succeeded : RanOut(op)}
           again == still \ (Succeeded \cup lost)
<1>1. pass.step = "settle" /\ applied' = applied \cup (still \cap Succeeded) /\ UNCHANGED <<rep, keyed>>
  BY DEF Settle, rows
<1>2. still \subseteq Succeeded /\ ToSet(pass.claimed) \cap ToSet(queue) \subseteq still
  BY <1>1 DEF PassGoesOn, Succeeded, Pending
<1>3. lost = {} /\ again = {}
  BY <1>2
<1>4. \/ c.scope = {} /\ Return(u)
      \/ c.scope # {} /\ thread' = [thread EXCEPT ![u].step = "finalize",
                                                  ![u].owed = \E op \in lost \cup again : op[1] \in Erasing]
  BY DEF Settle
<1> HIDE DEF still, lost, again
<1>5. CASE Return(u)
  <2>1. \E step : thread'[u] = Rest(step)
    BY <1>0, <1>5 DEF Return
  <2> QED BY <2>1, RestAdvances
<1>6. CASE c.scope # {} /\ thread' = [thread EXCEPT ![u].step = "finalize",
                                                  ![u].owed = \E op \in lost \cup again : op[1] \in Erasing]
  <2>1. d.step = "finalize" /\ d.scope = c.scope /\ ~d.owed
    <3>1. ~\E op \in lost \cup again : op[1] \in Erasing
      BY <1>3
    <3>2. thread' = [thread EXCEPT ![u].step = "finalize", ![u].owed = FALSE]
      BY <1>6, <3>1
    <3> QED BY <1>0, <3>2 DEF Calls
  <2>2. c.step = "pass"
    <3>1. c.step \in {"pass", "validate"}
      BY <1>0, <1>1 DEF LockInv
    <3> QED BY <1>6, <3>1 DEF Advances, EraserSteps, ReportSteps
  <2>3. ASSUME NEW r \in Awaits(u)' PROVE <<r, "REMOVE">> \in applied'
    <3>1. r \in Awaits(u) /\ r \in keyed /\ rep[r] = "ERASING"
      BY <1>1, <2>1, <2>3 DEF Awaits, Erasing
    <3>2. <<r, "REMOVE">> \in applied \cup ToSet(pass.claimed)
      BY <2>2, <3>1 DEF Advances, At
    <3>3. <<r, "REMOVE">> \in applied \cup ToSet(queue)
      BY <3>1 DEF RemovalsDue
    <3> QED BY <1>1, <1>2, <3>2, <3>3
  <2> QED BY <2>1, <2>3 DEF Advances, At, EraserSteps, ReportSteps
<1> QED BY <1>4, <1>5, <1>6

\* With every file gone, what was to be erased may be cleared.
LEMMA FinalizeAdvances ==
  ASSUME TypeOK, LockInv, ~faults, RemovalsDue, stale # {} => Unvalidated,
         NEW u \in Thread, Advances(u), FinalizeSpace(u)
  PROVE  Advances(u)'
<1>0. thread \in [Thread -> Calls] /\ thread[u] \in Calls
  BY DEF TypeOK
<1> DEFINE c == thread[u]  d == thread'[u]
           removed == {r \in Erasing \cap keyed : RemovalDone(r)}
           keyless == Erasing \ keyed
<1>1. c.step = "finalize" /\ lock = Nobody /\ UNCHANGED <<rep, keyed, stale>>
  BY DEF FinalizeSpace, At, rows
<1>2. stale = {}
  <2>1. ~pass.validate
    BY <1>1, NoPassHere
  <2> QED BY <1>1, <2>1, NobodyMoves DEF Unvalidated
<1>3. removed = {} \/ Left(quarantined') = {}
  <2>1. removed # {} => quarantined' = {}
    BY DEF FinalizeSpace, LeftOf
  <2> QED BY <1>2, <2>1 DEF Left
<1> DEFINE clean == removed = {} \/ Left(quarantined') = {}
           ready == IF clean THEN removed \cup keyless ELSE keyless
<1>4. thread' = [thread EXCEPT ![u].ready = ready, ![u].owed = @ \/ ~clean,
                              ![u].step = IF ready = {} THEN "summarize" ELSE "clear"]
  BY DEF FinalizeSpace
<1>5. clean /\ ready = removed \cup keyless
  BY <1>3
<1>6. \A r \in removed \cup keyless : r \in Erasing
  OBVIOUS
<1>7. ASSUME NEW r \in c.scope \cap Erasing PROVE r \in removed \cup keyless
  <2>1. CASE r \in keyed
    <3>1. <<r, "REMOVE">> \in applied /\ r \in Rep
      BY <1>1, <2>1 DEF Advances, At, Awaits, Erasing
    <3>2. RemovalDone(r)
      BY <3>1 DEF RemovalDone, RemovalsDue, Pending
    <3> QED BY <2>1, <3>2
  <2> QED BY <2>1
<1> HIDE DEF clean, ready, removed, keyless
<1>8. /\ d.ready = ready /\ d.scope = c.scope /\ d.step = IF ready = {} THEN "summarize" ELSE "clear"
      /\ d.owed = c.owed
  <2>1. thread' = [thread EXCEPT ![u].ready = ready, ![u].owed = @ \/ FALSE,
                              ![u].step = IF ready = {} THEN "summarize" ELSE "clear"]
    BY <1>4, <1>5
  <2>2. c.owed \in BOOLEAN
    BY <1>0 DEF Calls
  <2> QED BY <1>0, <2>1, <2>2 DEF Calls
<1>9. ~c.owed /\ Erasing' = Erasing
  BY <1>1 DEF Advances, Erasing
<1> QED BY <1>5, <1>7, <1>8, <1>9 DEF Advances, At, EraserSteps, ReportSteps

LEMMA ClearAdvances ==
  ASSUME TypeOK, NEW u \in Thread, Advances(u), Clear(u)
  PROVE  Advances(u)'
<1>0. thread \in [Thread -> Calls] /\ thread[u] \in Calls
  BY DEF TypeOK
<1> DEFINE c == thread[u]  d == thread'[u]
           cleared == c.ready \cap Erasing
<1>1. /\ c.step = "clear" /\ GoTo(u, "summarize")
      /\ rep' = [r \in Rep |-> IF r \in cleared THEN "ERASED" ELSE rep[r]]
  BY DEF Clear, At
<1>2. d.step = "summarize" /\ d.scope = c.scope /\ d.owed = c.owed
  BY <1>0, <1>1 DEF GoTo, Calls
<1>3. c.scope \cap Erasing \subseteq c.ready /\ ~c.owed
  BY <1>1 DEF Advances, At
<1>4. \A r \in Erasing' : r \in Erasing /\ r \notin cleared
  BY <1>1 DEF Erasing
<1>5. d.scope \cap Erasing' = {}
  BY <1>2, <1>3, <1>4
<1> QED BY <1>2, <1>3, <1>5 DEF Advances, At, EraserSteps, ReportSteps

\* The steps of a report, of which none finds that something is owed.
LEMMA ReportAdvances ==
  ASSUME TypeOK, ~faults, NEW u \in Thread, Advances(u),
         Summarize(u) \/ ReadMarker(u) \/ Truncate(u) \/ ClearMarker(u)
  PROVE  /\ Advances(u)'
         /\ thread'[u].step \in ReportSteps
         /\ thread'[u].scope = thread[u].scope /\ thread'[u].home = thread[u].home
         /\ rep' = rep
<1>0. /\ thread \in [Thread -> Calls] /\ thread[u] \in Calls /\ thread[u].owed \in BOOLEAN
  BY DEF TypeOK, Calls
<1> DEFINE c == thread[u]  d == thread'[u]
<1>1. c.step \in {"summarize"} \cup ReportSteps /\ rep' = rep
  BY DEF Summarize, ReadMarker, Truncate, ClearMarker, At, ReportSteps, rows
<1>2. c.scope \cap Erasing = {} /\ ~c.owed
  BY <1>1 DEF Advances
<1>3. d.step \in ReportSteps /\ d.scope = c.scope /\ d.home = c.home /\ ~d.owed
  <2>1. CASE Summarize(u)
    <3> DEFINE found == c.owed \/ c.scope \cap Erasing # {}
    <3>1. \E e : thread' = [thread EXCEPT ![u].erased = e, ![u].owed = found,
                                          ![u].step = "read_marker"]
      BY <2>1 DEF Summarize
    <3>2. ~found
      BY <1>2
    <3> HIDE DEF found
    <3> QED BY <1>0, <3>1, <3>2 DEF Calls, ReportSteps
  <2>2. CASE ReadMarker(u)
    <3>1. \E k, s : s \in {"done", "truncate"} /\ thread' = [thread EXCEPT ![u].token = k, ![u].step = s]
      BY <2>2 DEF ReadMarker
    <3> QED BY <1>0, <1>2, <3>1 DEF Calls, ReportSteps
  <2>3. CASE Truncate(u)
    <3>1. GoTo(u, "clear_marker")
      BY <2>3 DEF Truncate
    <3> QED BY <1>0, <1>2, <3>1 DEF Calls, GoTo, ReportSteps
  <2>4. CASE ClearMarker(u)
    <3>1. GoTo(u, "done")
      BY <2>4 DEF ClearMarker
    <3> QED BY <1>0, <1>2, <3>1 DEF Calls, GoTo, ReportSteps
  <2> QED BY <2>1, <2>2, <2>3, <2>4
<1>4. d.scope \cap Erasing' = {}
  BY <1>1, <1>2, <1>3 DEF Erasing
<1>5. Advances(u)'
  BY <1>3, <1>4 DEF Advances, At, EraserSteps, ReportSteps
<1> QED BY <1>1, <1>3, <1>5

LEMMA NextAdvances ==
  ASSUME TypeOK, RowsInv, LockInv, ReportInv, ~faults, Calm, [Next]_vars, NEW u \in Thread
  PROVE  Advances(u)'
<1>0. /\ thread \in [Thread -> Calls] /\ thread[u] \in Calls
      /\ Main \in Thread /\ Caller \subseteq Thread /\ Advances(u)
  BY DEF TypeOK, Thread, Calm
<1>1. CASE Claim(u)
  BY <1>0, <1>1, ClaimAdvances DEF Calm
<1>2. CASE thread'[u] = thread[u] /\ ~Claim(u)
  BY <1>0, <1>2, AdvancesStay DEF Calm
<1> SUFFICES ASSUME thread'[u] # thread[u], ~Claim(u) PROVE Advances(u)'
  BY <1>1, <1>2
\* A step whose caller was not erasing leaves it about nothing.
<1>3. ASSUME thread[u].step \notin EraserSteps,
             thread'[u].scope = thread[u].scope, thread'[u].owed = thread[u].owed
      PROVE  Advances(u)'
  BY <1>0, <1>3, Scopeless, ScopelessAdvances
<1>4. ASSUME NEW new \in SUBSET Rep, Accept(new) PROVE Advances(u)'
  <2>1. /\ u = Main /\ thread' = [thread EXCEPT ![Main].step = "pass", ![Main].limit = Batch]
        /\ thread[u].step \in {"idle", "accepting"}
    BY <1>0, <1>4 DEF Accept
  <2>2. thread'[u].scope = thread[u].scope /\ thread'[u].owed = thread[u].owed
    BY <1>0, <2>1 DEF Calls
  <2> QED BY <1>3, <2>1, <2>2 DEF EraserSteps, ReportSteps
<1>5. ASSUME NEW t \in Caller, NEW scope \in SUBSET Rep, Erase(t, scope) PROVE Advances(u)'
  <2>1. /\ u = t /\ thread' = [thread EXCEPT ![t].step = "drive", ![t].scope = scope]
        /\ thread[u].step = "idle"
    BY <1>0, <1>5 DEF Erase, At
  <2>2. thread'[u].step = "drive" /\ thread'[u].owed = thread[u].owed
    BY <1>0, <2>1 DEF Calls
  <2>3. ~thread[u].owed
    BY <1>0 DEF Advances
  <2> QED BY <2>2, <2>3 DEF Advances, At, EraserSteps, ReportSteps
<1>6. ASSUME NEW t \in Thread, Claim(t) PROVE FALSE
  <2>1. \/ Return(t) \/ GoTo(t, "finalize") \/ thread' = thread
    BY <1>6 DEF Claim
  <2> QED BY <1>0, <1>6, <2>1 DEF Return, GoTo
<1>7. ASSUME NEW t \in Thread, FinalizeSpace(t) PROVE Advances(u)'
  <2>1. \E a, b, s : thread' = [thread EXCEPT ![t].ready = a, ![t].owed = b, ![t].step = s]
    BY <1>7 DEF FinalizeSpace
  <2>2. u = t
    BY <1>0, <2>1
  <2> QED BY <1>0, <1>7, <2>2, FinalizeAdvances DEF Calm
<1>8. ASSUME NEW t \in Thread, Clear(t) PROVE Advances(u)'
  <2>1. u = t
    BY <1>0, <1>8 DEF Clear, GoTo
  <2> QED BY <1>0, <1>8, <2>1, ClearAdvances
<1>9. ASSUME NEW t \in Thread, Return(t) PROVE Advances(u)'
  <2>1. thread'[u] = Rest(thread[u].home)
    BY <1>0, <1>9 DEF Return
  <2> QED BY <2>1, RestAdvances
<1>10. ASSUME NEW t \in Thread, QuietStep(t) PROVE Advances(u)'
  <2>1. CASE Drive(t)
    <3>1. u = t
      BY <1>0, <2>1 DEF Drive
    <3> QED BY <1>0, <2>1, <3>1, DriveAdvances DEF Calm
  <2>2. CASE Summarize(t) \/ ReadMarker(t) \/ Truncate(t) \/ ClearMarker(t)
    <3>1. u = t
      BY <1>0, <2>2 DEF Summarize, ReadMarker, Truncate, ClearMarker, GoTo, StillOwed
    <3> QED BY <1>0, <2>2, <3>1, ReportAdvances
  <2>3. CASE Report(t) \/ SearchAnswer(t) \/ DecideAnswer
    BY <1>0, <1>9, <2>3 DEF Report, SearchAnswer, DecideAnswer
  <2>4. CASE Search(t)
    <3>1. /\ u = t /\ thread' = [thread EXCEPT ![t].step = "search", ![t].seen = live.keys]
          /\ thread[u].step = "idle"
      BY <1>0, <2>4 DEF Search, At
    <3>2. thread'[u].scope = thread[u].scope /\ thread'[u].owed = thread[u].owed
      BY <1>0, <3>1 DEF Calls
    <3> QED BY <1>3, <3>1, <3>2 DEF EraserSteps, ReportSteps
  <2>5. CASE Decide
    <3>1. /\ u = Main /\ thread' = [thread EXCEPT ![Main].step = "decide", ![Main].seen = live.keys]
          /\ thread[u].step = "idle"
      BY <1>0, <2>5 DEF Decide, At
    <3>2. thread'[u].scope = thread[u].scope /\ thread'[u].owed = thread[u].owed
      BY <1>0, <3>1 DEF Calls
    <3> QED BY <1>3, <3>1, <3>2 DEF EraserSteps, ReportSteps
  <2>6. CASE Start \/ OpenLibrary
    <3>1. \E step : thread' = [thread EXCEPT ![Main] = Rest(step)]
      BY <2>6 DEF Start, OpenLibrary
    <3>2. \E step : thread'[u] = Rest(step)
      BY <1>0, <3>1
    <3> QED BY <3>2, RestAdvances
  <2>7. CASE CatchUp
    <3>1. /\ u = Main
          /\ thread' = [thread EXCEPT ![Main].step = "pass", ![Main].home = "caught_up",
                                      ![Main].limit = Batch]
          /\ thread[u].step \in {"catch_up", "caught_up"}
      BY <1>0, <2>7 DEF CatchUp, At
    <3>2. thread'[u].scope = thread[u].scope /\ thread'[u].owed = thread[u].owed
      BY <1>0, <3>1 DEF Calls
    <3> QED BY <1>3, <3>1, <3>2 DEF EraserSteps, ReportSteps
  <2> QED BY <1>10, <2>1, <2>2, <2>3, <2>4, <2>5, <2>6, <2>7 DEF QuietStep, SpaceBlocked
<1>11. CASE Resume
  <2>1. thread' = [thread EXCEPT ![Main] = [Rest("catch_up") EXCEPT !.step = "drive", !.scope = Rep]]
    BY <1>11 DEF Resume
  <2>2. thread'[u] = [Rest("catch_up") EXCEPT !.step = "drive", !.scope = Rep]
    BY <1>0, <2>1
  <2>3. thread'[u].step = "drive" /\ ~thread'[u].owed
    BY <2>2 DEF Rest
  <2> QED BY <2>3 DEF Advances, At, EraserSteps, ReportSteps
<1>12. ASSUME NEW step, GoTo(Main, step), thread[Main].step \in {"requeue", "accepting", "validate"}
       PROVE  Advances(u)'
  <2>1. u = Main
    BY <1>0, <1>12 DEF GoTo
  <2>2. thread'[u].scope = thread[u].scope /\ thread'[u].owed = thread[u].owed
    BY <1>0, <1>12, <2>1 DEF GoTo, Calls
  <2> QED BY <1>3, <1>12, <2>1, <2>2 DEF EraserSteps, ReportSteps
<1>13. CASE Requeue
  BY <1>12, <1>13 DEF Requeue, At
<1>14. CASE Validate
  BY <1>12, <1>14 DEF Validate, At
<1>15. CASE Validated
  BY <1>12, <1>15 DEF Validated, LockInv, At
<1>16. CASE Settle
  <2>1. \/ Return(lock)
        \/ \E b : thread' = [thread EXCEPT ![lock].step = "finalize", ![lock].owed = b]
    BY <1>16 DEF Settle
  <2>2. lock = u
    BY <1>0, <2>1 DEF Return
  <2> QED BY <1>0, <1>16, <2>2, SettleAdvances DEF Calm
<1>17. CASE Crash
  <2>1. \E step : thread'[u] = Rest(step)
    BY <1>17 DEF Crash
  <2> QED BY <2>1, RestAdvances
<1>18. ~PassWork /\ ~(\E op \in Op : BackoffEnds(op)) /\ ~UNCHANGED vars
  BY PassFrame DEF BackoffEnds, vars, state
<1>19. ~Damage /\ \A t \in Thread : ~CallFails(t)
  BY DEF Damage, CallFails
<1> QED
  BY <1>4, <1>5, <1>6, <1>7, <1>8, <1>10, <1>11, <1>13, <1>14, <1>15, <1>16, <1>17, <1>18, <1>19,
     StepCases DEF PassEnds

-----------------------------------------------------------------------------
(* How far startup has come *)

LEMMA PhaseMoves ==
  ASSUME TypeOK, ~faults, [Next]_vars
  PROVE  phase' = phase \/ Crash \/ Start \/ OpenLibrary
<1>1. ASSUME NEW t \in Thread, QuietStep(t), ~Start, ~OpenLibrary PROVE phase' = phase
  <2>1. CASE Drive(t) \/ Summarize(t) \/ ReadMarker(t) \/ Truncate(t) \/ ClearMarker(t)
             \/ Report(t) \/ SpaceBlocked(t) \/ SearchAnswer(t)
    BY <2>1 DEF Drive, Summarize, ReadMarker, Truncate, ClearMarker, Report, SpaceBlocked,
                SearchAnswer
  <2>2. CASE Search(t) \/ Decide \/ DecideAnswer \/ CatchUp
    BY <2>2 DEF Search, Decide, DecideAnswer, CatchUp
  <2> QED BY <1>1, <2>1, <2>2 DEF QuietStep
<1>2. ASSUME NEW t \in Thread, Claim(t) \/ FinalizeSpace(t) \/ Clear(t) PROVE phase' = phase
  BY <1>2 DEF Claim, FinalizeSpace, Clear
<1>3. ASSUME NEW scope \in SUBSET Rep, QueueErasure(scope) PROVE phase' = phase
  BY <1>3 DEF QueueErasure
<1>4. CASE Resume \/ \E t \in Caller, scope \in SUBSET Rep : Erase(t, scope)
  BY <1>3, <1>4 DEF Resume, Erase
<1>5. CASE (\E new \in SUBSET Rep : Accept(new)) \/ Requeue \/ Settle \/ Damage
           \/ \E op \in Op : BackoffEnds(op)
  BY <1>5 DEF Accept, Requeue, Settle, Damage, BackoffEnds
<1>6. CASE PassWork \/ UNCHANGED vars
  BY <1>6, PassFrame DEF vars, state
<1>7. CASE PassEnds
  BY <1>7 DEF PassEnds, CallFails, Validate, Validated
<1> QED BY <1>1, <1>2, <1>4, <1>5, <1>6, <1>7, StepCases

\* Startup has finished what was being erased.
NothingLeft == Erasing = {} /\ Erased \cap log = {}

LEMMA NothingIsLeftAgain ==
  ASSUME TypeOK, RowsInv, [Next]_vars, phase = "starting", NothingLeft
  PROVE  NothingLeft'
<1>1. Erasing' = {}
  BY ErasingMoves DEF Erase, NothingLeft
<1>2. Erased' \subseteq Erased \cup Erasing
  <2>1. ASSUME NEW t \in Thread, Clear(t) PROVE Erased' \subseteq Erased \cup Erasing
    BY <2>1 DEF Clear, Erased, Erasing
  <2>2. CASE rep' = rep \/ Erased' = Erased
    BY <2>2 DEF Erased
  <2> QED BY <2>1, <2>2, LogMoves
<1>3. Erased \cap log' = {}
  BY ErasedStays DEF NothingLeft
<1> QED BY <1>1, <1>2, <1>3 DEF NothingLeft

\* What the main thread does while the library is not open.
LEMMA MainMoves ==
  ASSUME TypeOK, LockInv, ~faults, [Next]_vars, phase = "starting", phase' = "starting",
         thread'[Main] # thread[Main]
  PROVE  \/ Return(Main) /\ (thread[Main].scope = {} \/ thread[Main].step \in {"done", "search", "decide"})
         \/ Resume \/ CatchUp
         \/ ReadMarker(Main) \/ Truncate(Main) \/ ClearMarker(Main)
         \/ /\ thread[Main].step # "catch_up"
            /\ thread'[Main].home = thread[Main].home /\ thread'[Main].scope = thread[Main].scope
            /\ thread'[Main].step \notin {"catch_up", "caught_up", "clear_marker", "done"}
<1>0. /\ thread \in [Thread -> Calls] /\ thread[Main] \in Calls
      /\ Main \in Thread /\ Caller \subseteq Thread /\ Main \notin Caller
  BY MemoryAssumption DEF TypeOK, Thread
<1> DEFINE Goes == /\ thread[Main].step # "catch_up"
                   /\ thread'[Main].home = thread[Main].home
                   /\ thread'[Main].scope = thread[Main].scope
                   /\ thread'[Main].step \notin {"catch_up", "caught_up", "clear_marker", "done"}
           Returns == /\ Return(Main)
                      /\ thread[Main].scope = {} \/ thread[Main].step \in {"done", "search", "decide"}
           Steps == {"pass", "finalize", "clear", "summarize", "read_marker", "validate",
                     "requeue", "resume"}
<1>1. ASSUME NEW t \in Thread, NEW step \in Steps, GoTo(t, step), thread[t].step # "catch_up"
      PROVE  Goes
  BY <1>0, <1>1 DEF GoTo, Calls
<1>2. ASSUME NEW t \in Thread, Return(t),
             thread[t].scope = {} \/ thread[t].step \in {"done", "search", "decide"}
      PROVE  Returns
  <2>1. t = Main
    BY <1>0, <1>2 DEF Return
  <2> QED BY <1>2, <2>1
<1>3. ~(\E new \in SUBSET Rep : Accept(new))
  BY DEF Accept
<1>4. ~(\E t \in Caller, scope \in SUBSET Rep : Erase(t, scope))
  BY DEF Erase
<1>5. ASSUME NEW t \in Thread, Claim(t) PROVE Goes \/ Returns
  <2>1. \/ Return(t) /\ thread[t].scope = {}
        \/ GoTo(t, "finalize") /\ thread[t].step = "pass"
        \/ thread' = thread
    BY <1>5 DEF Claim, At
  <2> QED BY <1>1, <1>2, <2>1
<1>6. ASSUME NEW t \in Thread, FinalizeSpace(t) PROVE Goes
  <2>1. \E a, b, s : /\ s \in Steps
                     /\ thread' = [thread EXCEPT ![t].ready = a, ![t].owed = b, ![t].step = s]
    BY <1>6 DEF FinalizeSpace
  <2>2. thread[t].step = "finalize"
    BY <1>6 DEF FinalizeSpace, At
  <2> QED BY <1>0, <2>1, <2>2 DEF Calls
<1>7. ASSUME NEW t \in Thread, Clear(t) PROVE Goes
  BY <1>1, <1>7 DEF Clear, At
<1>8. ASSUME NEW t \in Thread, QuietStep(t)
      PROVE  \/ Goes \/ Returns \/ CatchUp
             \/ ReadMarker(Main) \/ Truncate(Main) \/ ClearMarker(Main)
  <2>1. CASE Drive(t)
    <3>1. \E a, s : s \in Steps /\ thread' = [thread EXCEPT ![t].limit = a, ![t].step = s]
      BY <2>1 DEF Drive, AfterDrive
    <3>2. thread[t].step = "drive"
      BY <2>1 DEF Drive, At
    <3> QED BY <1>0, <3>1, <3>2 DEF Calls
  <2>2. CASE Summarize(t)
    <3>1. \E a, b : thread' = [thread EXCEPT ![t].erased = a, ![t].owed = b, ![t].step = "read_marker"]
      BY <2>2 DEF Summarize
    <3>2. thread[t].step = "summarize"
      BY <2>2 DEF Summarize, At
    <3> QED BY <1>0, <3>1, <3>2 DEF Calls
  <2>3. CASE ReadMarker(t) \/ Truncate(t) \/ ClearMarker(t)
    <3>1. t = Main
      BY <1>0, <2>3 DEF ReadMarker, Truncate, ClearMarker, GoTo, StillOwed
    <3> QED BY <2>3, <3>1
  <2>4. CASE Report(t) \/ SearchAnswer(t) \/ DecideAnswer
    BY <1>0, <1>2, <2>4 DEF Report, SearchAnswer, DecideAnswer, At
  <2>5. ~Search(t) /\ ~Decide /\ ~Start /\ ~OpenLibrary /\ ~SpaceBlocked(t)
    BY DEF Search, Decide, Start, OpenLibrary, SpaceBlocked
  <2> QED BY <1>8, <2>1, <2>2, <2>3, <2>4, <2>5 DEF QuietStep
<1>9. ASSUME Requeue \/ Validate \/ Validated PROVE Goes
  <2>1. \E step \in Steps : GoTo(Main, step)
    BY <1>9 DEF Requeue, Validate, Validated
  <2>2. thread[Main].step # "catch_up"
    BY <1>9 DEF Requeue, Validate, Validated, LockInv, At
  <2> QED BY <1>0, <1>1, <2>1, <2>2
<1>10. ASSUME Settle PROVE Goes \/ Returns
  <2>1. lock \in Thread /\ thread[lock].step \in {"pass", "validate"}
    BY <1>10 DEF Settle, LockInv
  <2>2. \/ Return(lock) /\ thread[lock].scope = {}
        \/ \E b : thread' = [thread EXCEPT ![lock].step = "finalize", ![lock].owed = b]
    BY <1>10 DEF Settle
  <2>3. ASSUME NEW b, thread' = [thread EXCEPT ![lock].step = "finalize", ![lock].owed = b]
        PROVE  Goes
    BY <1>0, <2>1, <2>3 DEF Calls
  <2> QED BY <1>2, <2>1, <2>2, <2>3
<1>11. ~Crash
  BY DEF Crash
<1>12. ~PassWork /\ ~(\E op \in Op : BackoffEnds(op)) /\ ~UNCHANGED vars
  BY PassFrame DEF BackoffEnds, vars, state
<1>13. ~Damage /\ \A t \in Thread : ~CallFails(t)
  BY DEF Damage, CallFails
<1> HIDE DEF Goes, Returns
<1>14. ASSUME PassEnds PROVE Goes
  BY <1>9, <1>11, <1>13, <1>14 DEF PassEnds
<1>15. ASSUME NEW t \in Thread, Claim(t) \/ FinalizeSpace(t) \/ Clear(t) \/ QuietStep(t)
       PROVE  \/ Goes \/ Returns \/ CatchUp
              \/ ReadMarker(Main) \/ Truncate(Main) \/ ClearMarker(Main)
  BY <1>5, <1>6, <1>7, <1>8, <1>15
<1>16. \/ \E t \in Thread : Claim(t) \/ FinalizeSpace(t) \/ Clear(t) \/ QuietStep(t)
       \/ Resume \/ Requeue \/ Settle \/ PassEnds
  BY <1>3, <1>4, <1>12, <1>13, StepCases
<1>17. \/ Goes \/ Returns \/ Resume \/ CatchUp
       \/ ReadMarker(Main) \/ Truncate(Main) \/ ClearMarker(Main)
  BY <1>9, <1>10, <1>14, <1>15, <1>16
<1> QED BY <1>17 DEF Goes, Returns

LEMMA NextStartAdvances ==
  ASSUME TypeOK, RowsInv, LockInv, LogInv, ~faults, Calm, [Next]_vars
  PROVE  StartAdvances'
<1>0. /\ thread \in [Thread -> Calls] /\ thread[Main] \in Calls /\ Main \in Thread
      /\ Advances(Main) /\ StartAdvances
  BY DEF TypeOK, Thread, Calm
<1> SUFFICES ASSUME phase' = "starting" PROVE StartAdvances'
  BY DEF StartAdvances
<1> DEFINE c == thread[Main]  d == thread'[Main]
<1>1. CASE Start
  <2>1. d = Rest("accepting")
    BY <1>0, <1>1 DEF Start
  <2>2. d.home = "accepting" /\ d.step = "accepting"
    BY <2>1 DEF Rest
  <2> QED BY <2>2 DEF StartAdvances, At
<1> SUFFICES ASSUME phase = "starting" PROVE StartAdvances'
  BY <1>1, PhaseMoves DEF Crash, OpenLibrary
<1>2. /\ c.home = "catch_up" /\ c.step # "catch_up" =>
            c.scope = Rep /\ (c.step \in {"clear_marker", "done"} => Erased \cap log = {})
      /\ c.step \in {"catch_up", "caught_up"} \/ c.home = "caught_up" => NothingLeft
  BY <1>0 DEF StartAdvances, At, NothingLeft
\* What the resumed erasure has found of everything.
<1>3. ASSUME c.home = "catch_up", c.step # "catch_up",
             c.step \in {"summarize"} \cup ReportSteps \/ c.scope = {}
      PROVE  Erasing = {}
  <2>1. c.scope \cap Erasing = {}
    BY <1>0, <1>3 DEF Advances
  <2> QED BY <1>2, <1>3, <2>1 DEF Erasing
\* Without anything to erase there is nothing left.
<1>4. Rep = {} => NothingLeft'
  BY DEF NothingLeft, Erasing, Erased
<1>5. NothingLeft => NothingLeft'
  BY NothingIsLeftAgain
<1>6. CASE d = c
  <2>1. ASSUME d.home = "catch_up", d.step # "catch_up", d.step \in {"clear_marker", "done"}
        PROVE  Erased' \cap log' = {}
    <3>1. Erasing = {} /\ Erased \cap log = {}
      BY <1>2, <1>3, <1>6, <2>1 DEF ReportSteps
    <3> QED BY <1>5, <3>1 DEF NothingLeft
  <2> QED BY <1>2, <1>5, <1>6, <2>1 DEF StartAdvances, At, NothingLeft
<1>7. CASE Return(Main) /\ (c.scope = {} \/ c.step \in {"done", "search", "decide"})
  <2>1. d = Rest(c.home)
    BY <1>0, <1>7 DEF Return
  <2>2. d.home = c.home /\ d.step = c.home
    BY <2>1 DEF Rest
  <2>3. ASSUME c.home = "catch_up" PROVE NothingLeft'
    <3>1. CASE c.step = "catch_up"
      BY <1>2, <1>5, <3>1
    <3>2. CASE c.step = "done"
      BY <1>2, <1>3, <1>5, <2>3, <3>2 DEF NothingLeft, ReportSteps
    <3>3. CASE c.step \notin {"catch_up", "done"}
      <4>1. c.scope = {}
        BY <1>0, <1>7, <3>3, Scopeless DEF EraserSteps, ReportSteps
      <4> QED BY <1>2, <1>4, <2>3, <3>3, <4>1
    <3> QED BY <3>1, <3>2, <3>3
  <2>4. c.home = "caught_up" => NothingLeft'
    BY <1>2, <1>5
  <2> QED BY <2>2, <2>3, <2>4 DEF StartAdvances, At, NothingLeft
<1>8. CASE Resume
  <2>1. thread' = [thread EXCEPT ![Main] = [Rest("catch_up") EXCEPT !.step = "drive", !.scope = Rep]]
    BY <1>8 DEF Resume
  <2>2. d = [Rest("catch_up") EXCEPT !.step = "drive", !.scope = Rep]
    BY <1>0, <2>1
  <2>3. d.step = "drive" /\ d.home = "catch_up" /\ d.scope = Rep
    BY <2>2 DEF Rest
  <2> QED BY <2>3 DEF StartAdvances, At
<1>9. CASE CatchUp
  <2>1. /\ thread' = [thread EXCEPT ![Main].step = "pass", ![Main].home = "caught_up",
                                    ![Main].limit = Batch]
        /\ c.step \in {"catch_up", "caught_up"}
    BY <1>9 DEF CatchUp, At
  <2>2. d.step = "pass" /\ d.home = "caught_up"
    BY <1>0, <2>1 DEF Calls
  <2>3. NothingLeft'
    BY <1>2, <1>5, <2>1
  <2> QED BY <2>2, <2>3 DEF StartAdvances, At, NothingLeft
<1>10. ASSUME c.step # "catch_up", d.home = c.home, d.scope = c.scope,
              d.step \notin {"catch_up", "caught_up"},
              c.home = "catch_up" /\ d.step \in {"clear_marker", "done"} => Erased' \cap log' = {}
       PROVE  StartAdvances'
  BY <1>2, <1>5, <1>10 DEF StartAdvances, At, NothingLeft
<1>11. CASE ReadMarker(Main) \/ Truncate(Main) \/ ClearMarker(Main)
  <2>1. /\ d.step \in ReportSteps /\ d.scope = c.scope /\ d.home = c.home
        /\ rep' = rep /\ Erased' = Erased
    BY <1>0, <1>11, ReportAdvances DEF Erased
  <2>2. c.step \in ReportSteps
    BY <1>11 DEF ReadMarker, Truncate, ClearMarker, At, ReportSteps
  <2>3. ASSUME c.home = "catch_up", d.step \in {"clear_marker", "done"} PROVE Erased' \cap log' = {}
    <3>1. CASE ReadMarker(Main)
      <4>1. log' = log /\ thread' = [thread EXCEPT ![Main].token = marker,
                                  ![Main].step = IF marker = 0 THEN "done" ELSE "truncate"]
        BY <3>1 DEF ReadMarker
      <4>2. d.step = IF marker = 0 THEN "done" ELSE "truncate"
        BY <1>0, <4>1 DEF Calls
      <4>3. marker = 0
        BY <2>3, <4>2
      <4> QED BY <2>1, <4>1, <4>3 DEF LogInv, LogIsOwed
    <3>2. CASE Truncate(Main)
      <4>1. log' = {}
        BY <3>2 DEF Truncate
      <4> QED BY <4>1
    <3>3. CASE ClearMarker(Main)
      <4>1. c.step = "clear_marker" /\ log' = log
        BY <3>3 DEF ClearMarker, At
      <4> QED BY <1>2, <2>1, <2>3, <4>1
    <3> QED BY <1>11, <3>1, <3>2, <3>3
  <2> QED BY <1>10, <2>1, <2>2, <2>3 DEF ReportSteps
<1> QED BY <1>6, <1>7, <1>8, <1>9, <1>10, <1>11, MainMoves

LEMMA NextCalm ==
  ASSUME IInv, CalmInv, [Next]_vars
  PROVE  CalmInv'
<1> SUFFICES ASSUME ~faults' PROVE Calm'
  BY DEF CalmInv
<1> USE DEF IInv
<1>1. ~faults /\ Calm
  BY FaultsStay DEF CalmInv
<1>2. RemovalsDue'
  BY <1>1, NextKeepsRemovals DEF Calm, RemovalsKept
<1>3. (stale # {} => Unvalidated)'
  BY <1>1, StaleStays DEF Calm
<1>4. PassGoesOn'
  BY <1>1, NextPassGoesOn DEF Calm
<1>5. \A t \in Thread : Advances(t)'
  BY <1>1, NextAdvances
<1>6. StartAdvances'
  BY <1>1, NextStartAdvances
<1> QED BY <1>2, <1>3, <1>4, <1>5, <1>6 DEF Calm

LEMMA InitCalm == ASSUME Init PROVE CalmInv
<1>0. /\ \A t \in Thread : thread[t].scope = {} /\ ~thread[t].owed
      /\ queue = << >> /\ backoff = {} /\ applied = {} /\ failed = {} /\ stale = {}
      /\ keyed = {} /\ phase = "open" /\ pass.step = "none"
  BY DEF Init, Rest, NoPass
<1>1. RemovalsDue
  BY <1>0 DEF RemovalsDue, Once
<1>2. PassGoesOn
  BY <1>0 DEF PassGoesOn
<1>3. \A t \in Thread : Advances(t)
  BY <1>0 DEF Advances, Awaits
<1>4. StartAdvances
  BY <1>0 DEF StartAdvances
<1> QED BY <1>0, <1>1, <1>2, <1>3, <1>4 DEF CalmInv, Calm

\* The rest of the inductive invariant, for behaviours in which nothing outside the
\* program fails: kills, and the callers of memory/erasure.py, are still unrestricted.
THEOREM CalmInvariant == Spec => []CalmInv
<1>1. Init => CalmInv
  BY InitCalm
<1>2. IInv /\ CalmInv /\ [Next]_vars => CalmInv'
  BY NextCalm
<1> QED BY <1>1, <1>2, Invariant, PTL DEF Spec

\* When nothing outside the program fails, every erasure that returns is complete,
\* with any number of callers at once and any backlog (memory/erasure.py _drive, erase).
THEOREM ErasuresAreComplete == Spec => []NothingIsOwed
<1>1. CalmInv => NothingIsOwed
  BY DEF CalmInv, Calm, Advances, NothingIsOwed
<1> QED BY <1>1, CalmInvariant, PTL

\* And a start on which nothing fails opens the library only after every erasure that an
\* earlier process began is finished, the log included (recovery/startup.py, which calls
\* memory/erasure.py resume before it catches up).
THEOREM StartFinishesErasures == Spec => RecoveryFinishesErasures
<1>1. IInv /\ CalmInv /\ [Next]_vars =>
        [~faults /\ phase = "starting" /\ phase' = "open" =>
            Erasing = {} /\ Erased \cap log = {}]_vars
  <2> SUFFICES ASSUME IInv, CalmInv, [Next]_vars, ~faults, phase = "starting", phase' = "open"
               PROVE  Erasing = {} /\ Erased \cap log = {}
    OBVIOUS
  <2>1. OpenLibrary
    BY PhaseMoves DEF IInv, Crash, Start
  <2>2. thread[Main].step = "caught_up"
    BY <2>1 DEF OpenLibrary, At
  <2> QED BY <2>2 DEF CalmInv, Calm, StartAdvances
<1> QED BY <1>1, Invariant, CalmInvariant, PTL DEF Spec, RecoveryFinishesErasures
=============================================================================
