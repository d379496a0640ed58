------------------------ MODULE EvidenceGates_proofs ------------------------
(***************************************************************************)
(* Theorems about the signal graph (SignalGraph.tla) and the judges over   *)
(* it (EvidenceGates.tla), for every set of bindings, every schema, every  *)
(* matrix of records and every configuration the registry accepts, however *)
(* deep its fusions nest.                                                  *)
(*                                                                         *)
(* A fusion is a recursive function over the fusions it reads.  That the   *)
(* functions exist, and what they come to, is shown by an induction along  *)
(* Acyclic; what Those picks from a sequence, by one along its positions.  *)
(***************************************************************************)
EXTENDS EvidenceGates, SequenceTheorems, FiniteSetTheorems, WellFoundedInduction, TLAPS

-----------------------------------------------------------------------------
(* Induction over the positions of a sequence, and over fusions.           *)

LEMMA SmallestOf ==
  ASSUME NEW S \in SUBSET Nat, S # {}
  PROVE  \E x \in S : \A y \in S : x <= y
<1> DEFINE R == OpToRel(<, Nat)
<1>1. IsWellFoundedOn(R, Nat)  BY NatLessThanWellFounded
<1>2. PICK x \in S : \A y \in S : ~(<<y, x>> \in R)
  <2> HIDE DEF R
  <2> QED  BY <1>1, WFMin
<1>3. \A y \in S : ~(y < x)  BY <1>2 DEF OpToRel
<1> HIDE DEF R
<1> QED  BY <1>3, S \subseteq Nat

LEMMA UpTo ==
  ASSUME NEW n \in Nat, NEW Good, 0 \in Good,
         \A i \in 1..n : i - 1 \in Good => i \in Good
  PROVE  \A i \in 0..n : i \in Good
<1> DEFINE Bad == {i \in 0..n : i \notin Good}
<1> SUFFICES ASSUME Bad # {}  PROVE FALSE
  OBVIOUS
<1>1. PICK i \in Bad : \A j \in Bad : i <= j
  <2>1. Bad \in SUBSET Nat  OBVIOUS
  <2> HIDE DEF Bad
  <2> QED  BY <2>1, SmallestOf
<1>2. i \in 1..n /\ i - 1 \in 0..n /\ ~(i <= i - 1)  BY <1>1
<1>3. i - 1 \in Good  BY <1>1, <1>2
<1> QED  BY <1>1, <1>2, <1>3

(* A function that is defined from one position to the next exists.        *)
Follows(n, V, v, step, f) ==
  f \in [0..n -> V] /\ f[0] = v /\ \A i \in 1..n : f[i] = step[i][f[i - 1]]

LEMMA StepByStep ==
  ASSUME NEW n \in Nat, NEW V, NEW v \in V, NEW step \in [1..n -> [V -> V]]
  PROVE  \E f : Follows(n, V, v, step, f)
<1> DEFINE Good == {m \in 0..n : \E f : Follows(m, V, v, step, f)}
<1>1. 0 \in Good
  <2> DEFINE f == [i \in 0..0 |-> v]
  <2>1. f \in [0..0 -> V] /\ f[0] = v /\ \A i \in 1..0 : f[i] = step[i][f[i - 1]]
    OBVIOUS
  <2> HIDE DEF f
  <2>2. Follows(0, V, v, step, f)  BY <2>1 DEF Follows
  <2> QED  BY <2>2
<1>2. ASSUME NEW m \in 1..n, m - 1 \in Good  PROVE m \in Good
  <2>1. PICK f : Follows(m - 1, V, v, step, f)  BY <1>2
  <2> DEFINE g == [i \in 0..m |-> IF i = m THEN step[m][f[m - 1]] ELSE f[i]]
  <2>2. /\ f \in [0..(m - 1) -> V] /\ f[0] = v
        /\ \A i \in 1..(m - 1) : f[i] = step[i][f[i - 1]]
    BY <2>1 DEF Follows
  <2>3. g \in [0..m -> V]
    <3>1. step[m] \in [V -> V] /\ f[m - 1] \in V  BY <2>2
    <3>2. \A i \in 0..m : i # m => i \in 0..(m - 1)  OBVIOUS
    <3> QED  BY <2>2, <3>1, <3>2
  <2>4. g[0] = v  BY <2>2
  <2>5. ASSUME NEW i \in 1..m  PROVE g[i] = step[i][g[i - 1]]
    <3>1. g[i - 1] = f[i - 1]  OBVIOUS
    <3>2. CASE i = m
      <4>1. g[m] = step[m][f[m - 1]]  OBVIOUS
      <4> HIDE DEF g
      <4> QED  BY <3>1, <3>2, <4>1
    <3>3. CASE i # m
      <4>1. i \in 1..(m - 1)  BY <3>3
      <4>2. g[i] = f[i]  BY <3>3
      <4> HIDE DEF g
      <4> QED  BY <2>2, <3>1, <4>1, <4>2
    <3> QED  BY <3>2, <3>3
  <2> HIDE DEF g
  <2>6. Follows(m, V, v, step, g)  BY <2>3, <2>4, <2>5 DEF Follows
  <2>7. m \in 0..n  OBVIOUS
  <2> QED  BY <2>6, <2>7
<1> HIDE DEF Good
<1>3. n \in Good
  <2>1. \A i \in 0..n : i \in Good  BY <1>1, <1>2, UpTo
  <2> QED  BY <2>1
<1> QED  BY <1>3 DEF Good

-----------------------------------------------------------------------------
(* The members of a set in a sequence.                                     *)

LEMMA ElemsAre ==
  ASSUME NEW T, NEW s \in Seq(T)
  PROVE  /\ Elems(s) \subseteq T
         /\ \A i \in 1..Len(s) : s[i] \in Elems(s)
         /\ Elems(s) # {} => Len(s) > 0 /\ s # <<>>
         /\ s # <<>> => Len(s) \in Nat \ {0} /\ 1 \in 1..Len(s) /\ s[1] \in Elems(s)
  BY LenProperties, ElementOfSeq, EmptySeq DEF Elems

LEMMA ElemsOfAppend ==
  ASSUME NEW T, NEW s \in Seq(T), NEW e \in T
  PROVE  /\ Append(s, e) \in Seq(T) /\ Len(Append(s, e)) = Len(s) + 1
         /\ Elems(Append(s, e)) = Elems(s) \cup {e}
<1> DEFINE a == Append(s, e)
<1>1. /\ a \in Seq(T) /\ Len(a) = Len(s) + 1 /\ Len(s) \in Nat
      /\ \A i \in 1..Len(s) : a[i] = s[i]
      /\ a[Len(s) + 1] = e
  BY AppendProperties, LenProperties
<1> HIDE DEF a
<1>2. \A i \in 1..Len(a) : i \in 1..Len(s) \/ i = Len(s) + 1  BY <1>1
<1>3. \A i \in 1..Len(s) : i \in 1..Len(a)  BY <1>1
<1>4. Len(s) + 1 \in 1..Len(a)  BY <1>1
<1>5. Elems(a) = Elems(s) \cup {e}
  <2>1. \A x \in Elems(a) : x \in Elems(s) \cup {e}  BY <1>1, <1>2 DEF Elems
  <2>2. \A x \in Elems(s) : x \in Elems(a)
    <3> SUFFICES ASSUME NEW i \in 1..Len(s)  PROVE s[i] \in Elems(a)
      BY DEF Elems
    <3> QED  BY <1>1, <1>3 DEF Elems
  <2>3. e \in Elems(a)  BY <1>1, <1>4 DEF Elems
  <2> QED  BY <2>1, <2>2, <2>3
<1> QED  BY <1>1, <1>5 DEF a

LEMMA ElemsOfConcat ==
  ASSUME NEW T, NEW s \in Seq(T), NEW r \in Seq(T)
  PROVE  /\ s \o r \in Seq(T) /\ Len(s \o r) = Len(s) + Len(r)
         /\ Elems(s \o r) = Elems(s) \cup Elems(r)
<1> DEFINE a == s \o r
<1>1. /\ a \in Seq(T) /\ Len(a) = Len(s) + Len(r) /\ Len(s) \in Nat /\ Len(r) \in Nat
      /\ \A i \in 1..(Len(s) + Len(r)) : a[i] = IF i <= Len(s) THEN s[i] ELSE r[i - Len(s)]
  BY ConcatProperties, LenProperties
<1> HIDE DEF a
<1>2. \A i \in 1..Len(a) : i \in 1..Len(s) \/ i - Len(s) \in 1..Len(r)  BY <1>1
<1>3. \A x \in Elems(a) : x \in Elems(s) \cup Elems(r)
  <2> SUFFICES ASSUME NEW i \in 1..Len(a)  PROVE a[i] \in Elems(s) \cup Elems(r)
    BY DEF Elems
  <2>1. CASE i <= Len(s)
    <3>1. i \in 1..Len(s) /\ a[i] = s[i]  BY <1>1, <2>1
    <3> QED  BY <3>1 DEF Elems
  <2>2. CASE ~(i <= Len(s))
    <3>1. i - Len(s) \in 1..Len(r) /\ a[i] = r[i - Len(s)]  BY <1>1, <2>2
    <3> QED  BY <3>1 DEF Elems
  <2> QED  BY <2>1, <2>2
<1>4. \A x \in Elems(s) : x \in Elems(a)
  <2> SUFFICES ASSUME NEW i \in 1..Len(s)  PROVE s[i] \in Elems(a)
    BY DEF Elems
  <2>1. i \in 1..Len(a) /\ a[i] = s[i]  BY <1>1
  <2> QED  BY <2>1 DEF Elems
<1>5. \A x \in Elems(r) : x \in Elems(a)
  <2> SUFFICES ASSUME NEW i \in 1..Len(r)  PROVE r[i] \in Elems(a)
    BY DEF Elems
  <2>1. i + Len(s) \in 1..(Len(s) + Len(r)) /\ ~(i + Len(s) <= Len(s)) /\ (i + Len(s)) - Len(s) = i
    BY <1>1
  <2>2. i + Len(s) \in 1..Len(a) /\ a[i + Len(s)] = r[i]  BY <1>1, <2>1
  <2> QED  BY <2>2 DEF Elems
<1> QED  BY <1>1, <1>3, <1>4, <1>5 DEF a

(* The function by which Those goes through a sequence.                    *)
Picks(s, S, f) ==
  f = [i \in 0..Len(s) |->
         IF i = 0 THEN <<>> ELSE IF s[i] \in S THEN Append(f[i - 1], s[i]) ELSE f[i - 1]]

PickedBy(T, s, S, f) ==
  /\ f \in [0..Len(s) -> Seq(T)] /\ Those(s, S) = f[Len(s)] /\ f[0] = <<>>
  /\ \A i \in 1..Len(s) : f[i] = IF s[i] \in S THEN Append(f[i - 1], s[i]) ELSE f[i - 1]

LEMMA ThoseByPicks ==
  ASSUME NEW T, NEW s \in Seq(T), NEW S
  PROVE  \E f : PickedBy(T, s, S, f)
<1> DEFINE N == Len(s)
           step == [i \in 1..N |-> [q \in Seq(T) |-> IF s[i] \in S THEN Append(q, s[i]) ELSE q]]
           Through(f) == \A i \in 1..N :
                           f[i] = IF s[i] \in S THEN Append(f[i - 1], s[i]) ELSE f[i - 1]
<1>1. N \in Nat /\ <<>> \in Seq(T) /\ \A i \in 1..N : s[i] \in T
  BY LenProperties, EmptySeq, ElementOfSeq
<1>2. step \in [1..N -> [Seq(T) -> Seq(T)]]
  BY <1>1, AppendProperties
<1>3. \A q \in Seq(T), i \in 1..N :
        step[i][q] = IF s[i] \in S THEN Append(q, s[i]) ELSE q
  OBVIOUS
<1> HIDE DEF step, N
<1>4. PICK h \in [0..N -> Seq(T)] : h[0] = <<>> /\ \A i \in 1..N : h[i] = step[i][h[i - 1]]
  <2>1. PICK h : Follows(N, Seq(T), <<>>, step, h)  BY <1>1, <1>2, StepByStep
  <2> QED  BY <2>1 DEF Follows
<1>5. Through(h)
  <2> SUFFICES ASSUME NEW i \in 1..N
               PROVE  h[i] = IF s[i] \in S THEN Append(h[i - 1], s[i]) ELSE h[i - 1]
    OBVIOUS
  <2>1. h[i - 1] \in Seq(T)  BY <1>1
  <2> QED  BY <1>3, <1>4, <2>1
<1>6. Picks(s, S, h)
  <2>1. h = [i \in 0..N |-> h[i]]  OBVIOUS
  <2>2. \A i \in 0..N : h[i] = IF i = 0 THEN <<>> ELSE IF s[i] \in S
                                THEN Append(h[i - 1], s[i]) ELSE h[i - 1]
    <3>1. \A i \in 0..N : i = 0 \/ i \in 1..N  BY <1>1
    <3> QED  BY <1>4, <1>5, <3>1
  <2>3. h = [i \in 0..N |-> IF i = 0 THEN <<>> ELSE IF s[i] \in S
                             THEN Append(h[i - 1], s[i]) ELSE h[i - 1]]
    BY <2>1, <2>2
  <2> QED  BY <2>3 DEF Picks, N
<1> DEFINE f == CHOOSE g : Picks(s, S, g)
<1>7. Picks(s, S, f)  BY <1>6
<1>8. Those(s, S) = f[N]  BY DEF Those, Picks, N
<1> HIDE DEF f
<1>9. /\ f = [i \in 0..N |-> f[i]] /\ f[0] = <<>> /\ Through(f)
  <2>1. f = [i \in 0..N |-> IF i = 0 THEN <<>> ELSE IF s[i] \in S
                             THEN Append(f[i - 1], s[i]) ELSE f[i - 1]]
    BY <1>7 DEF Picks, N
  <2>2. DOMAIN f = 0..N  BY <2>1
  <2>3. f = [i \in 0..N |-> f[i]]
    <3>1. \A i \in 0..N : f[i] = IF i = 0 THEN <<>> ELSE IF s[i] \in S
                                  THEN Append(f[i - 1], s[i]) ELSE f[i - 1]
      BY <2>1
    <3> QED  BY <2>1, <3>1
  <2>4. 0 \in 0..N /\ \A i \in 1..N : i \in 0..N /\ i # 0  BY <1>1
  <2> QED  BY <2>1, <2>3, <2>4
<1>10. f \in [0..N -> Seq(T)]
  <2> DEFINE Good == {i \in 0..N : f[i] \in Seq(T)}
  <2>1. 0 \in Good  BY <1>1, <1>9
  <2>2. \A i \in 1..N : i - 1 \in Good => i \in Good
    <3> SUFFICES ASSUME NEW i \in 1..N, f[i - 1] \in Seq(T)  PROVE f[i] \in Seq(T)
      OBVIOUS
    <3>1. Append(f[i - 1], s[i]) \in Seq(T)  BY <1>1, AppendProperties
    <3> QED  BY <1>9, <3>1
  <2> HIDE DEF Good
  <2>3. \A i \in 0..N : i \in Good  BY <1>1, <2>1, <2>2, UpTo
  <2>4. \A i \in 0..N : f[i] \in Seq(T)  BY <2>3 DEF Good
  <2> QED  BY <1>9, <2>4
<1>11. PickedBy(T, s, S, f)  BY <1>8, <1>9, <1>10 DEF PickedBy, N
<1> QED  BY <1>11

LEMMA ThoseAre ==
  ASSUME NEW T, NEW s \in Seq(T), NEW S
  PROVE  /\ Those(s, S) \in Seq(T)
         /\ Elems(Those(s, S)) = Elems(s) \cap S
         /\ Len(Those(s, S)) <= Len(s)
         /\ Len(Those(s, S)) = Len(s) => Elems(s) \subseteq S
<1> DEFINE N == Len(s)
<1>1. PICK f : PickedBy(T, s, S, f)  BY ThoseByPicks
<1>a. /\ f \in [0..N -> Seq(T)] /\ Those(s, S) = f[N] /\ f[0] = <<>>
      /\ \A i \in 1..N : f[i] = IF s[i] \in S THEN Append(f[i - 1], s[i]) ELSE f[i - 1]
  BY <1>1 DEF PickedBy
<1>2. N \in Nat /\ \A i \in 1..N : s[i] \in T  BY LenProperties, ElementOfSeq
<1> DEFINE Sofar(i) == {s[j] : j \in 1..i}
           Fine(i) == /\ Elems(f[i]) = Sofar(i) \cap S
                      /\ Len(f[i]) <= i
                      /\ Len(f[i]) = i => Sofar(i) \subseteq S
           Good == {i \in 0..N : Fine(i)}
<1>3. 0 \in Good
  <2>1. Elems(<<>>) = {} /\ Len(<<>>) = 0 /\ Sofar(0) = {}  BY EmptySeq DEF Elems
  <2>2. Fine(0)  BY <1>a, <2>1
  <2> QED  BY <1>2, <2>2
<1>4. ASSUME NEW i \in 1..N, i - 1 \in Good  PROVE i \in Good
  <2>1. Fine(i - 1)  BY <1>4
  <2>2. f[i - 1] \in Seq(T) /\ Len(f[i - 1]) \in Nat /\ i - 1 \in Nat /\ i \in 0..N
    BY <1>a, <1>2, LenProperties
  <2>3. Sofar(i) = Sofar(i - 1) \cup {s[i]}
    <3>1. \A j \in 1..i : j \in 1..(i - 1) \/ j = i  BY <1>2
    <3>2. \A j \in 1..(i - 1) : j \in 1..i  BY <1>2
    <3>3. i \in 1..i  BY <1>2
    <3> QED  BY <3>1, <3>2, <3>3
  <2> HIDE DEF Sofar
  <2>4. CASE s[i] \in S
    <3>1. f[i] = Append(f[i - 1], s[i]) /\ s[i] \in T  BY <1>a, <1>2, <2>4
    <3>2. Elems(f[i]) = Elems(f[i - 1]) \cup {s[i]} /\ Len(f[i]) = Len(f[i - 1]) + 1
      BY <2>2, <3>1, ElemsOfAppend
    <3>3. Elems(f[i]) = Sofar(i) \cap S  BY <2>1, <2>3, <2>4, <3>2
    <3>4. Len(f[i]) <= i /\ (Len(f[i]) = i => Len(f[i - 1]) = i - 1)  BY <2>1, <2>2, <3>2
    <3> QED  BY <2>1, <2>2, <2>3, <2>4, <3>3, <3>4
  <2>5. CASE s[i] \notin S
    <3>1. f[i] = f[i - 1]  BY <1>a, <2>5
    <3>2. Len(f[i]) <= i /\ Len(f[i]) # i  BY <2>1, <2>2, <3>1
    <3> QED  BY <2>1, <2>2, <2>3, <2>5, <3>1, <3>2
  <2> QED  BY <2>4, <2>5
<1> HIDE DEF Good
<1>5. N \in Good
  <2>1. \A i \in 0..N : i \in Good  BY <1>2, <1>3, <1>4, UpTo
  <2> QED  BY <1>2, <2>1
<1>6. Fine(N)  BY <1>5 DEF Good
<1>7. Sofar(N) = Elems(s)  BY DEF Elems
<1>8. f[N] \in Seq(T)  BY <1>a, <1>2
<1> QED  BY <1>a, <1>6, <1>7, <1>8

-----------------------------------------------------------------------------
(* Fusions read each other without a cycle.                                *)

(* What holds of no fusion, and of one more whenever it holds of those it  *)
(* reads, holds of all.                                                    *)
LEMMA FusionByFusion ==
  ASSUME NEW fusions, IsFiniteSet(DOMAIN fusions), Acyclic(fusions),
         NEW Good, {} \in Good,
         \A G \in SUBSET DOMAIN fusions : G \in Good =>
           \A f \in DOMAIN fusions \ G :
             Elems(fusions[f].children) \cap (DOMAIN fusions \ G) = {} => G \cup {f} \in Good
  PROVE  DOMAIN fusions \in Good
<1> DEFINE D == DOMAIN fusions
           Left == {n \in Nat : \E G \in SUBSET D : G \in Good /\ n = Cardinality(D \ G)}
<1>1. Cardinality(D) \in Left
  <2>1. D \ {} = D /\ {} \in SUBSET D  OBVIOUS
  <2>2. Cardinality(D) \in Nat  BY FS_CardinalityType
  <2> QED  BY <2>1, <2>2
<1>2. PICK n \in Left : \A m \in Left : n <= m
  <2>1. Left \in SUBSET Nat  OBVIOUS
  <2> HIDE DEF Left
  <2> QED  BY <1>1, <2>1, SmallestOf
<1>3. PICK G \in SUBSET D : G \in Good /\ n = Cardinality(D \ G)  OBVIOUS
<1>4. CASE D \ G = {}
  <2>1. G = D  BY <1>4
  <2> QED  BY <1>3, <2>1
<1>5. CASE D \ G # {}
  <2>1. D \ G \in SUBSET D  OBVIOUS
  <2>2. {f \in D \ G : Elems(fusions[f].children) \cap (D \ G) = {}} # {}
    BY <1>5, <2>1 DEF Acyclic
  <2>3. PICK f \in D \ G : Elems(fusions[f].children) \cap (D \ G) = {}  BY <2>2
  <2>4. G \cup {f} \in Good  BY <1>3, <2>3
  <2>5. G \cup {f} \in SUBSET D  OBVIOUS
  <2>6. D \ (G \cup {f}) = (D \ G) \ {f}  OBVIOUS
  <2>7. IsFiniteSet(D \ G)  BY <2>1, FS_Subset
  <2>8. Cardinality(D \ (G \cup {f})) = n - 1 /\ Cardinality(D \ (G \cup {f})) \in Nat
    <3>1. Cardinality((D \ G) \ {f}) = Cardinality(D \ G) - 1 /\ IsFiniteSet((D \ G) \ {f})
      BY <2>3, <2>7, FS_RemoveElement
    <3> QED  BY <1>3, <2>6, <3>1, FS_CardinalityType
  <2>9. n - 1 \in Left  BY <2>4, <2>5, <2>8
  <2>10. n \in Nat  OBVIOUS
  <2> HIDE DEF Left
  <2> QED  BY <1>2, <2>9, <2>10
<1> QED  BY <1>4, <1>5

Signals == [value : Texts, ev : [kind : Kinds, age : -1..MaxAge]]

Evidence == [kind : Kinds, age : -1..MaxAge]

LEMMA SequenceOf ==
  ASSUME NEW S, NEW n \in Nat, NEW q \in [1..n -> S]
  PROVE  q \in Seq(S) /\ Len(q) = n
<1>1. q \in Seq(S)  BY SeqDef
<1>2. Len(q) \in Nat /\ DOMAIN q = 1..Len(q)  BY <1>1, LenProperties
<1>3. 1..n = 1..Len(q)  BY <1>2
<1>4. Len(q) = n
  <2>1. CASE n = 0
    <3>1. 1 \notin 1..Len(q)  BY <1>3, <2>1
    <3> QED  BY <1>2, <2>1, <3>1
  <2>2. CASE n # 0
    <3>1. n \in 1..Len(q)  BY <1>3, <2>2
    <3>2. Len(q) \in 1..Len(q)  BY <1>2, <3>1
    <3>3. Len(q) \in 1..n  BY <1>3, <3>2
    <3> QED  BY <1>2, <3>1, <3>3
  <2> QED  BY <2>1, <2>2
<1> QED  BY <1>1, <1>4

-----------------------------------------------------------------------------
(* What a graph knows of its sources.                                      *)

(* A graph that selections can be made in.                                 *)
Read(g) ==
  /\ g.config \in Configs /\ Accepted(g.config)
  /\ g.signals \in [Bindings -> Signals \cup {NoSignal}]

SignalOf(g, b) ==
  [id |-> b, value |-> g.signals[b].value, ev |-> g.signals[b].ev, ttl |-> g.config.bindings[b].ttl]

Shown(g) == {b \in Bindings : g.signals[b] # NoSignal}

(* What a fusion chooses from.                                             *)
Candidates(g) ==
  [id : Bindings \cup DOMAIN g.config.fusions, value : Texts, ev : Evidence, ttl : Nat]

LEMMA SignalIsCandidate ==
  ASSUME NEW g, Read(g), NEW b \in Shown(g)
  PROVE  SignalOf(g, b) \in Candidates(g)
<1>1. g.signals[b] \in Signals  BY DEF Read, Shown
<1>2. g.signals[b].value \in Texts /\ g.signals[b].ev \in Evidence
  BY <1>1 DEF Signals, Evidence
<1>3. g.config.bindings[b].ttl \in Nat /\ b \in Bindings  BY GraphConstants DEF Read, Shown
<1> QED  BY <1>2, <1>3 DEF SignalOf, Candidates

LEMMA SignalsAre ==
  ASSUME NEW g, Read(g), NEW ids \in Seq(Bindings)
  PROVE  /\ SignalsOf(g, ids) \in Seq(Candidates(g))
         /\ Elems(SignalsOf(g, ids)) = {SignalOf(g, b) : b \in Elems(ids) \cap Shown(g)}
         /\ Len(SignalsOf(g, ids)) <= Len(ids)
         /\ Len(SignalsOf(g, ids)) = Len(ids) => Elems(ids) \subseteq Shown(g)
<1> DEFINE there == {b \in Elems(ids) : g.signals[b] # NoSignal}
           present == Those(ids, there)
           q == [i \in 1..Len(present) |-> SignalOf(g, present[i])]
<1>1. SignalsOf(g, ids) = q  BY DEF SignalsOf, SignalOf
<1>2. /\ present \in Seq(Bindings) /\ Elems(present) = Elems(ids) \cap there
      /\ Len(present) <= Len(ids) /\ (Len(present) = Len(ids) => Elems(ids) \subseteq there)
  BY ThoseAre
<1>3. there = Elems(ids) \cap Shown(g)  BY ElemsAre DEF Shown
<1> HIDE DEF there, present
<1>4. Len(present) \in Nat /\ \A i \in 1..Len(present) : present[i] \in Elems(present)
  BY <1>2, LenProperties, ElemsAre
<1>5. \A i \in 1..Len(present) : SignalOf(g, present[i]) \in Candidates(g)
  BY <1>2, <1>3, <1>4, SignalIsCandidate
<1>6. q \in [1..Len(present) -> Candidates(g)]  BY <1>5
<1>7. q \in Seq(Candidates(g)) /\ Len(q) = Len(present)
  <2> HIDE DEF q
  <2> QED  BY <1>4, <1>6, SequenceOf
<1>8. Elems(q) = {SignalOf(g, b) : b \in Elems(present)}
  <2>1. \A i \in 1..Len(present) : q[i] = SignalOf(g, present[i])  OBVIOUS
  <2> HIDE DEF q
  <2> QED  BY <1>7, <2>1 DEF Elems
<1> HIDE DEF q
<1> QED  BY <1>1, <1>2, <1>3, <1>7, <1>8

LEMMA NestedAre ==
  ASSUME NEW g, Read(g), NEW kids \in Seq(DOMAIN g.config.fusions), NEW below, NEW field,
         field.ttl \in Nat,
         \A k \in Elems(kids) :
           Offers(below[k]) => below[k].value \in Texts /\ below[k].by.ev \in Evidence
  PROVE  /\ Nested(kids, below, field) \in Seq(Candidates(g))
         /\ Elems(Nested(kids, below, field))
              = {AsCandidate(k, below[k], field) : k \in {l \in Elems(kids) : Offers(below[l])}}
         /\ Len(Nested(kids, below, field)) <= Len(kids)
         /\ Len(Nested(kids, below, field)) = Len(kids) => \A k \in Elems(kids) : Offers(below[k])
<1> DEFINE D == DOMAIN g.config.fusions
           there == {k \in Elems(kids) : Offers(below[k])}
           offered == Those(kids, there)
           q == [i \in 1..Len(offered) |-> AsCandidate(offered[i], below[offered[i]], field)]
<1>0. Nested(kids, below, field) = q  BY DEF Nested
<1>1. /\ offered \in Seq(D) /\ Elems(offered) = Elems(kids) \cap there
      /\ Len(offered) <= Len(kids) /\ (Len(offered) = Len(kids) => Elems(kids) \subseteq there)
  <2> HIDE DEF there
  <2> QED  BY ThoseAre
<1>2. Elems(kids) \subseteq D  BY ElemsAre
<1>3. Len(offered) \in Nat /\ \A i \in 1..Len(offered) : offered[i] \in Elems(offered)
  <2> HIDE DEF offered
  <2> QED  BY <1>1, LenProperties, ElemsAre
<1>4. \A k \in there : AsCandidate(k, below[k], field) \in Candidates(g)
  BY <1>2 DEF AsCandidate, Candidates
<1>5. Elems(offered) = there  BY <1>1
<1> HIDE DEF there, offered
<1>6. q \in [1..Len(offered) -> Candidates(g)]  BY <1>3, <1>4, <1>5
<1>7. q \in Seq(Candidates(g)) /\ Len(q) = Len(offered)
  <2> HIDE DEF q
  <2> QED  BY <1>3, <1>6, SequenceOf
<1>8. Elems(q) = {AsCandidate(k, below[k], field) : k \in Elems(offered)}
  <2>1. \A i \in 1..Len(offered) : q[i] = AsCandidate(offered[i], below[offered[i]], field)  OBVIOUS
  <2> HIDE DEF q
  <2> QED  BY <1>7, <2>1 DEF Elems
<1> HIDE DEF q
<1>9. Len(q) = Len(kids) => \A k \in Elems(kids) : Offers(below[k])
  BY <1>1, <1>7 DEF there
<1> QED  BY <1>0, <1>1, <1>5, <1>7, <1>8, <1>9 DEF there

-----------------------------------------------------------------------------
(* What a strategy makes of its candidates.                                *)

Healthy(s, field) == Classify(s.value, field) = "valid" /\ IsFresh(s, field)

(* A selection among candidates: nothing, or a healthy one decides, and    *)
(* all that are active are healthy.                                        *)
Chosen(candidates, field, r) ==
  /\ r.value \in Texts
  /\ r.by # NoSignal =>
       r.by \in candidates /\ Healthy(r.by, field) /\ r.state = "valid" /\ r.active # {}
  /\ \A x \in r.active : \E s \in candidates : s.id = x /\ Healthy(s, field)

LEMMA UndecidedIsChosen ==
  ASSUME NEW candidates, NEW field, NEW state
  PROVE  Chosen(candidates, field, Undecided(state)) /\ Undecided(state).by = NoSignal
  BY DEF Chosen, Undecided, Texts

LEMMA Extremes ==
  ASSUME NEW g, NEW A \in SUBSET Candidates(g), A # {}
  PROVE  /\ \E s \in A : \A t \in A : s.ev.age <= t.ev.age
         /\ \E s \in A : \A t \in A : t.ev.age <= s.ev.age
<1>1. \A s \in A : s.ev.age \in -1..MaxAge  BY DEF Candidates, Evidence
<1>2. MaxAge \in Nat  BY GraphConstants
<1>3. \E s \in A : \A t \in A : s.ev.age <= t.ev.age
  <2> DEFINE Ages == {n \in Nat : \E s \in A : n = s.ev.age + 1}
  <2>1. Ages \in SUBSET Nat  OBVIOUS
  <2>2. \A s \in A : s.ev.age + 1 \in Ages  BY <1>1, <1>2
  <2>3. Ages # {}  BY <2>2
  <2>4. PICK n \in Ages : \A m \in Ages : n <= m
    <3> HIDE DEF Ages
    <3> QED  BY <2>1, <2>3, SmallestOf
  <2>5. PICK s \in A : n = s.ev.age + 1  OBVIOUS
  <2>6. \A t \in A : n <= t.ev.age + 1  BY <2>2, <2>4
  <2> HIDE DEF Ages
  <2>7. \A t \in A : s.ev.age <= t.ev.age  BY <1>1, <1>2, <2>5, <2>6
  <2> QED  BY <2>7
<1>4. \E s \in A : \A t \in A : t.ev.age <= s.ev.age
  <2> DEFINE Ages == {n \in Nat : \E s \in A : n = MaxAge - s.ev.age}
  <2>1. Ages \in SUBSET Nat  OBVIOUS
  <2>2. \A s \in A : MaxAge - s.ev.age \in Ages  BY <1>1, <1>2
  <2>3. Ages # {}  BY <2>2
  <2>4. PICK n \in Ages : \A m \in Ages : n <= m
    <3> HIDE DEF Ages
    <3> QED  BY <2>1, <2>3, SmallestOf
  <2>5. PICK s \in A : n = MaxAge - s.ev.age  OBVIOUS
  <2>6. \A t \in A : n <= MaxAge - t.ev.age  BY <2>2, <2>4
  <2> HIDE DEF Ages
  <2>7. \A t \in A : t.ev.age <= s.ev.age  BY <1>1, <1>2, <2>5, <2>6
  <2> QED  BY <2>7
<1> QED  BY <1>3, <1>4

(* The first of the members of a set that a sequence has.                  *)
LEMMA FirstOfThose ==
  ASSUME NEW T, NEW s \in Seq(T), NEW S, Elems(s) \cap S # {}
  PROVE  Those(s, S)[1] \in Elems(s) \cap S
<1>1. Those(s, S) \in Seq(T) /\ Elems(Those(s, S)) = Elems(s) \cap S  BY ThoseAre
<1> DEFINE q == Those(s, S)
<1> HIDE DEF q
<1>2. q \in Seq(T) /\ Elems(q) # {}  BY <1>1 DEF q
<1>3. q[1] \in Elems(q)  BY <1>2, ElemsAre
<1> QED  BY <1>1, <1>3 DEF q

LEMMA DecidedIsChosen ==
  ASSUME NEW candidates, NEW field, NEW value \in Texts, NEW s \in candidates, NEW active,
         NEW complete, NEW conflict, Healthy(s, field), active # {},
         \A x \in active : \E t \in candidates : t.id = x /\ Healthy(t, field)
  PROVE  Chosen(candidates, field, Decided(value, s, active, complete, conflict))
<1> DEFINE r == Decided(value, s, active, complete, conflict)
<1>1. r.value = value /\ r.state = "valid" /\ r.by = s /\ r.active = active  BY DEF Decided
<1> HIDE DEF r
<1>2. Chosen(candidates, field, r)  BY <1>1 DEF Chosen
<1> QED  BY <1>2 DEF r

LEMMA OneIsChosen ==
  ASSUME NEW g, NEW candidates \in Seq(Candidates(g)), NEW field, NEW strategy,
         NEW fresh \in Seq(Candidates(g)),
         Elems(fresh) = {s \in Elems(candidates) : Healthy(s, field)}
  PROVE  Chosen(Elems(candidates), field, SelectOne(strategy, candidates, fresh, field))
<1> DEFINE all == Elems(fresh)
           youngest == {s \in all : \A t \in all : s.ev.age <= t.ev.age}
           s == IF strategy = "latest" THEN Those(fresh, youngest)[1] ELSE fresh[1]
           agree == \A t \in all : t.value = s.value
<1>1. CASE fresh = <<>>  BY <1>1, UndecidedIsChosen DEF SelectOne
<1>2. CASE fresh # <<>>
  <2>1. SelectOne(strategy, candidates, fresh, field)
          = Decided(s.value, s, {s.id}, agree, ~agree)
    BY <1>2 DEF SelectOne
  <2>2. all \in SUBSET Candidates(g) /\ all # {} /\ fresh[1] \in all  BY <1>2, ElemsAre
  <2>3. s \in all
    <3>1. PICK t \in all : \A u \in all : t.ev.age <= u.ev.age
      <4> HIDE DEF all
      <4> QED  BY <2>2, Extremes
    <3>2. t \in all \cap youngest  BY <3>1
    <3>3. Those(fresh, youngest)[1] \in all
      <4> HIDE DEF youngest
      <4> QED  BY <3>2, FirstOfThose
    <3> HIDE DEF youngest, all
    <3> QED  BY <2>2, <3>3
  <2> HIDE DEF s, agree
  <2>4. s \in Elems(candidates) /\ Healthy(s, field) /\ s \in Candidates(g)  BY <2>2, <2>3
  <2>5. s.value \in Texts  BY <2>4 DEF Candidates
  <2>6. Chosen(Elems(candidates), field, Decided(s.value, s, {s.id}, agree, ~agree))
    <3>1. \A x \in {s.id} : \E t \in Elems(candidates) : t.id = x /\ Healthy(t, field)
      BY <2>4
    <3>2. {s.id} # {}  OBVIOUS
    <3> QED  BY <2>4, <2>5, <3>1, <3>2, DecidedIsChosen
  <2> QED  BY <2>1, <2>6
<1> QED  BY <1>1, <1>2

LEMMA BooleanIsChosen ==
  ASSUME NEW g, NEW candidates \in Seq(Candidates(g)), NEW field, NEW strategy, NEW inputs,
         NEW fresh \in Seq(Candidates(g)),
         Elems(fresh) = {s \in Elems(candidates) : Healthy(s, field)}
  PROVE  Chosen(Elems(candidates), field, SelectBoolean(strategy, fresh, inputs))
<1> DEFINE says(v) == Those(fresh, {s \in Elems(fresh) : s.value = v})
           trues  == says("true")
           falses == says("false")
           uncertain == Uncertain(Len(trues) + Len(falses), inputs)
           ids(s) == {t.id : t \in Elems(s)}
           oldest(s) == Those(s, {t \in Elems(s) : \A u \in Elems(s) : u.ev.age <= t.ev.age})[1]
           r == SelectBoolean(strategy, fresh, inputs)
<1>1. \/ r = Decided("false", oldest(falses), ids(falses), ~uncertain, FALSE) /\ falses # <<>>
      \/ r = Decided("true", oldest(trues), ids(trues), TRUE, FALSE) /\ trues # <<>>
      \/ r = Decided("true", trues[1], ids(trues), ~uncertain, FALSE) /\ trues # <<>>
      \/ r = Decided("false", falses[1], ids(falses), TRUE, FALSE) /\ falses # <<>>
      \/ \E state : r = Undecided(state)
  BY DEF SelectBoolean
<1>2. ASSUME NEW v  PROVE says(v) \in Seq(Candidates(g)) /\ Elems(says(v)) \subseteq Elems(fresh)
  BY ThoseAre
<1> HIDE DEF says, uncertain, r
<1>3. ASSUME NEW v, says(v) # <<>>
      PROVE  /\ says(v)[1] \in Elems(says(v)) /\ oldest(says(v)) \in Elems(says(v))
             /\ ids(says(v)) # {}
  <2> DEFINE A == Elems(says(v))
             Old == {t \in A : \A u \in A : u.ev.age <= t.ev.age}
  <2>1. A \in SUBSET Candidates(g) /\ A # {} /\ says(v)[1] \in A  BY <1>2, <1>3, ElemsAre
  <2>2. PICK t \in A : \A u \in A : u.ev.age <= t.ev.age
    <3> HIDE DEF A
    <3> QED  BY <2>1, Extremes
  <2>3. t \in A \cap Old  BY <2>2
  <2>4. Those(says(v), Old)[1] \in A
    <3> HIDE DEF Old
    <3> QED  BY <1>2, <2>3, FirstOfThose
  <2> QED  BY <2>1, <2>4
<1>4. ASSUME NEW v, says(v) # <<>>, NEW value \in Texts, NEW s \in Elems(says(v)),
             NEW complete, NEW conflict
      PROVE  Chosen(Elems(candidates), field, Decided(value, s, ids(says(v)), complete, conflict))
  <2>1. \A t \in Elems(says(v)) : t \in Elems(candidates) /\ Healthy(t, field)  BY <1>2
  <2>2. \A x \in ids(says(v)) : \E t \in Elems(candidates) : t.id = x /\ Healthy(t, field)
    BY <2>1
  <2>3. ids(says(v)) # {}  BY <1>3, <1>4
  <2> HIDE DEF ids
  <2> QED  BY <1>4, <2>1, <2>2, <2>3, DecidedIsChosen
<1>5. "true" \in Texts /\ "false" \in Texts  BY DEF Texts
<1> HIDE DEF ids, oldest
<1>6. Chosen(Elems(candidates), field, r)
  BY <1>1, <1>3, <1>4, <1>5, UndecidedIsChosen
<1> QED  BY <1>6 DEF r

-----------------------------------------------------------------------------
(* The leaves of a fusion.                                                 *)

LEMMA OverFusions ==
  ASSUME NEW fusions, Acyclic(fusions), NEW Good,
         \A f \in DOMAIN fusions :
           (\A k \in Elems(fusions[f].children) : k \in Good) => f \in Good,
         \A f \in DOMAIN fusions : Elems(fusions[f].children) \subseteq DOMAIN fusions
  PROVE  \A f \in DOMAIN fusions : f \in Good
<1> DEFINE Bad == DOMAIN fusions \ Good
<1> SUFFICES ASSUME Bad # {}  PROVE FALSE
  OBVIOUS
<1>1. Bad \in SUBSET DOMAIN fusions  OBVIOUS
<1>2. {f \in Bad : Elems(fusions[f].children) \cap Bad = {}} # {}
  <2> HIDE DEF Bad
  <2> QED  BY <1>1 DEF Acyclic
<1>3. PICK f \in Bad : Elems(fusions[f].children) \cap Bad = {}  BY <1>2
<1> QED  BY <1>3

(* The fusions of an accepted configuration.                               *)
LEMMA FusionsAre ==
  ASSUME NEW c \in Configs, Accepted(c)
  PROVE  /\ IsFiniteSet(DOMAIN c.fusions) /\ Acyclic(c.fusions)
         /\ DOMAIN c.fusions \cap Bindings = {}
         /\ \A f \in DOMAIN c.fusions :
              /\ c.fusions[f].inputs \in Seq(Bindings)
              /\ c.fusions[f].children \in Seq(DOMAIN c.fusions)
              /\ Elems(c.fusions[f].inputs) \subseteq Bindings
              /\ Elems(c.fusions[f].children) \subseteq DOMAIN c.fusions
              /\ IsOpening(c.fusions[f]) =>
                   c.fusions[f].children = <<>> /\ c.fusions[f].inputs # <<>>
<1>1. IsFiniteSet(DOMAIN c.fusions) /\ DOMAIN c.fusions \cap Bindings = {}  BY GraphConstants
<1>2. FusionsFit(c)  BY DEF Accepted
<1>3. Acyclic(c.fusions)  BY <1>2 DEF FusionsFit
<1>4. ASSUME NEW f \in DOMAIN c.fusions
      PROVE  /\ c.fusions[f].inputs \in Seq(Bindings)
             /\ c.fusions[f].children \in Seq(DOMAIN c.fusions)
             /\ IsOpening(c.fusions[f]) =>
                  c.fusions[f].children = <<>> /\ c.fusions[f].inputs # <<>>
  <2>1. /\ c.fusions[f].inputs \in Seq(Bindings)
        /\ c.fusions[f].children \in Seq(DOMAIN c.fusions)
        /\ c.fusions[f].inputs \o c.fusions[f].children # <<>>
    BY <1>2 DEF FusionsFit
  <2>2. IsOpening(c.fusions[f]) => c.fusions[f].children = <<>>
    BY <1>2 DEF FusionsFit
  <2>3. <<>> \o <<>> = <<>>  BY EmptySeq, ConcatEmptySeq
  <2> QED  BY <2>1, <2>2, <2>3
<1> QED  BY <1>1, <1>3, <1>4, ElemsAre

(* The function by which the leaves of the children are joined.            *)
JoinedBy(fusion, below, q) ==
  q = [i \in 0..Len(fusion.children) |->
         IF i = 0 THEN fusion.inputs ELSE q[i - 1] \o below[fusion.children[i]]]

(* Everything some sequences have.                                         *)
AllOf(keys, seqs) == UNION {Elems(seqs[k]) : k \in keys}

(* The inputs of a fusion and those below it are of a set.                 *)
Feeds(T, B, fusion, below) ==
  /\ fusion.inputs \in Seq(B) /\ fusion.children \in Seq(T)
  /\ \A k \in Elems(fusion.children) : below[k] \in Seq(B)

LEMMA JoinedAre ==
  ASSUME NEW T, NEW B, NEW fusion, NEW below, Feeds(T, B, fusion, below)
  PROVE  /\ Joined(fusion, below) \in Seq(B)
         /\ Elems(Joined(fusion, below))
              = Elems(fusion.inputs) \cup AllOf(Elems(fusion.children), below)
<1> DEFINE N == Len(fusion.children)
           more(i) == below[fusion.children[i]]
           step == [i \in 1..N |-> [p \in Seq(B) |-> p \o more(i)]]
<1>0. /\ fusion.inputs \in Seq(B) /\ fusion.children \in Seq(T)
      /\ \A k \in Elems(fusion.children) : below[k] \in Seq(B)
  BY DEF Feeds
<1>1. N \in Nat /\ \A i \in 1..N : more(i) \in Seq(B)  BY <1>0, LenProperties, ElemsAre
<1>2. step \in [1..N -> [Seq(B) -> Seq(B)]]  BY <1>1, ElemsOfConcat
<1>3. \A i \in 1..N : \A p \in Seq(B) : step[i][p] = p \o more(i)  OBVIOUS
<1> HIDE DEF step, N, more
<1>4. PICK h : Follows(N, Seq(B), fusion.inputs, step, h)  BY <1>0, <1>1, <1>2, StepByStep
<1>5. /\ h \in [0..N -> Seq(B)] /\ h[0] = fusion.inputs
      /\ \A i \in 1..N : h[i] = step[i][h[i - 1]]
  BY <1>4 DEF Follows
<1>6. \A i \in 1..N : h[i] = h[i - 1] \o more(i)
  <2> TAKE i \in 1..N
  <2>1. h[i - 1] \in Seq(B)  BY <1>1, <1>5
  <2> QED  BY <1>3, <1>5, <2>1
<1>7. h = [i \in 0..N |-> IF i = 0 THEN fusion.inputs ELSE h[i - 1] \o more(i)]
  <2>1. \A i \in 0..N : i = 0 \/ i \in 1..N  BY <1>1
  <2> QED  BY <1>5, <1>6, <2>1
<1>8. JoinedBy(fusion, below, h)  BY <1>7 DEF JoinedBy, N, more
<1> DEFINE q == CHOOSE p : JoinedBy(fusion, below, p)
<1>9. JoinedBy(fusion, below, q)  BY <1>8
<1>10. Joined(fusion, below) = q[N]  BY DEF Joined, JoinedBy, N
<1> HIDE DEF q
<1>11. q[0] = fusion.inputs /\ \A i \in 1..N : q[i] = q[i - 1] \o more(i)
  <2>1. q = [i \in 0..N |-> IF i = 0 THEN fusion.inputs ELSE q[i - 1] \o more(i)]
    BY <1>9 DEF JoinedBy, N, more
  <2>2. 0 \in 0..N /\ \A i \in 1..N : i \in 0..N /\ i # 0  BY <1>1
  <2> QED  BY <2>1, <2>2
<1> DEFINE Sofar(i) == UNION {Elems(more(j)) : j \in 1..i}
           Good == {i \in 0..N : /\ q[i] \in Seq(B)
                                 /\ Elems(q[i]) = Elems(fusion.inputs) \cup Sofar(i)}
<1>12. 0 \in Good
  <2>1. Sofar(0) = {}  OBVIOUS
  <2> HIDE DEF Sofar
  <2> QED  BY <1>0, <1>1, <1>11, <2>1
<1>13. ASSUME NEW i \in 1..N, i - 1 \in Good  PROVE i \in Good
  <2>1. q[i - 1] \in Seq(B) /\ Elems(q[i - 1]) = Elems(fusion.inputs) \cup Sofar(i - 1)
    BY <1>13
  <2>2. q[i] \in Seq(B) /\ Elems(q[i]) = Elems(q[i - 1]) \cup Elems(more(i))
    <3>1. q[i] = q[i - 1] \o more(i) /\ more(i) \in Seq(B)  BY <1>1, <1>11
    <3>2. /\ q[i - 1] \o more(i) \in Seq(B)
          /\ Elems(q[i - 1] \o more(i)) = Elems(q[i - 1]) \cup Elems(more(i))
      BY <2>1, <3>1, ElemsOfConcat
    <3> QED  BY <3>1, <3>2
  <2>3. Sofar(i) = Sofar(i - 1) \cup Elems(more(i))
    <3>1. \A j \in 1..i : j \in 1..(i - 1) \/ j = i  BY <1>1
    <3>2. i \in 1..i /\ \A j \in 1..(i - 1) : j \in 1..i  BY <1>1
    <3> QED  BY <3>1, <3>2
  <2>4. i \in 0..N  BY <1>1
  <2> HIDE DEF Sofar
  <2> QED  BY <2>1, <2>2, <2>3, <2>4
<1> HIDE DEF Good
<1>14. N \in Good
  <2>1. \A i \in 0..N : i \in Good  BY <1>1, <1>12, <1>13, UpTo
  <2> QED  BY <1>1, <2>1
<1>15. q[N] \in Seq(B) /\ Elems(q[N]) = Elems(fusion.inputs) \cup Sofar(N)
  BY <1>14 DEF Good
<1>16. Sofar(N) = AllOf(Elems(fusion.children), below)
  <2>1. Elems(fusion.children) = {fusion.children[i] : i \in 1..N}  BY DEF Elems, N
  <2>2. \A i \in 1..N : more(i) = below[fusion.children[i]]  BY DEF more
  <2> QED  BY <2>1, <2>2 DEF AllOf
<1> QED  BY <1>10, <1>15, <1>16

(* The function by which the leaves are collected.                         *)
LeavesBy(c, h) ==
  h = [f \in DOMAIN c.fusions |->
         Joined(c.fusions[f], [k \in Elems(c.fusions[f].children) |-> h[k]])]

LEMMA LeavesExist ==
  ASSUME NEW c, IsFiniteSet(DOMAIN c.fusions), Acyclic(c.fusions),
         \A f \in DOMAIN c.fusions : Elems(c.fusions[f].children) \subseteq DOMAIN c.fusions
  PROVE  \E h : LeavesBy(c, h)
<1> DEFINE D == DOMAIN c.fusions
           kids(f) == Elems(c.fusions[f].children)
           body(f, h) == Joined(c.fusions[f], [k \in Elems(c.fusions[f].children) |-> h[k]])
           Partial(G, h) == /\ h = [f \in G |-> h[f]]
                            /\ \A f \in G : kids(f) \subseteq G /\ h[f] = body(f, h)
           Good == {G \in SUBSET D : \E h : Partial(G, h)}
<1>1. {} \in Good
  <2>1. Partial({}, [f \in {} |-> f])  OBVIOUS
  <2> HIDE DEF Partial
  <2> QED  BY <2>1
<1>2. ASSUME NEW G \in SUBSET D, G \in Good, NEW f \in D \ G, kids(f) \cap (D \ G) = {}
      PROVE  G \cup {f} \in Good
  <2>1. PICK h : Partial(G, h)  BY <1>2
  <2>2. kids(f) \subseteq G  BY <1>2
  <2> DEFINE e == [x \in G \cup {f} |-> IF x = f THEN body(f, h) ELSE h[x]]
  <2>3. \A x \in G : e[x] = h[x]  OBVIOUS
  <2>4. e[f] = body(f, h) /\ e = [x \in G \cup {f} |-> e[x]]  OBVIOUS
  <2> HIDE DEF e
  <2>5. ASSUME NEW x \in G \cup {f}  PROVE kids(x) \subseteq G /\ e[x] = body(x, h)
    BY <2>1, <2>2, <2>3, <2>4
  <2>6. ASSUME NEW x \in G \cup {f}  PROVE body(x, e) = body(x, h)
    <3>1. \A k \in kids(x) : e[k] = h[k]  BY <2>3, <2>5
    <3>2. [k \in kids(x) |-> e[k]] = [k \in kids(x) |-> h[k]]  BY <3>1
    <3> QED  BY <3>2
  <2> HIDE DEF body, kids
  <2>7. Partial(G \cup {f}, e)  BY <2>4, <2>5, <2>6
  <2> HIDE DEF Partial
  <2> QED  BY <2>7
<1> HIDE DEF Good
<1>3. D \in Good  BY <1>1, <1>2, FusionByFusion
<1>4. PICK h : Partial(D, h)  BY <1>3 DEF Good
<1>5. h = [f \in D |-> body(f, h)]
  <2>1. h = [f \in D |-> h[f]] /\ \A f \in D : h[f] = body(f, h)  BY <1>4
  <2> HIDE DEF body
  <2> QED  BY <2>1
<1>6. LeavesBy(c, h)  BY <1>5 DEF LeavesBy
<1> QED  BY <1>6

(* LeavesAre: the leaves of a fusion are its inputs and the leaves of the  *)
(* fusions it reads.                                                       *)
LEMMA LeavesAre ==
  ASSUME NEW c \in Configs, Accepted(c)
  PROVE  \A f \in DOMAIN c.fusions :
           /\ Leaves(c, f) \in Seq(Bindings)
           /\ Elems(Leaves(c, f)) = Elems(c.fusions[f].inputs)
                \cup UNION {Elems(Leaves(c, k)) : k \in Elems(c.fusions[f].children)}
<1> DEFINE D == DOMAIN c.fusions
           kids(f) == Elems(c.fusions[f].children)
           h == CHOOSE p : LeavesBy(c, p)
<1>1. LeavesBy(c, h)  BY FusionsAre, LeavesExist
<1>2. \A f : Leaves(c, f) = h[f]  BY DEF Leaves, LeavesBy
<1> HIDE DEF h
<1>3. \A f \in D : h[f] = Joined(c.fusions[f], [k \in kids(f) |-> h[k]])
  BY <1>1 DEF LeavesBy
<1> DEFINE Good == {f \in D : h[f] \in Seq(Bindings)}
<1>4. ASSUME NEW f \in D, \A k \in kids(f) : h[k] \in Seq(Bindings)
      PROVE  /\ h[f] \in Seq(Bindings)
             /\ Elems(h[f]) = Elems(c.fusions[f].inputs) \cup UNION {Elems(h[k]) : k \in kids(f)}
  <2> DEFINE below == [k \in kids(f) |-> h[k]]
  <2>1. \A k \in kids(f) : below[k] = h[k]  OBVIOUS
  <2> HIDE DEF below
  <2>2. /\ c.fusions[f].inputs \in Seq(Bindings) /\ c.fusions[f].children \in Seq(D)
        /\ \A k \in kids(f) : below[k] \in Seq(Bindings)
    BY <1>4, <2>1, FusionsAre
  <2>3. /\ Joined(c.fusions[f], below) \in Seq(Bindings)
        /\ Elems(Joined(c.fusions[f], below))
             = Elems(c.fusions[f].inputs) \cup AllOf(kids(f), below)
    <3>1. Feeds(D, Bindings, c.fusions[f], below)  BY <2>2 DEF Feeds
    <3> QED  BY <3>1, JoinedAre
  <2>4. AllOf(kids(f), below) = UNION {Elems(h[k]) : k \in kids(f)}  BY <2>1 DEF AllOf
  <2> QED  BY <1>3, <2>3, <2>4 DEF below
<1>5. \A f \in D : kids(f) \subseteq D  BY FusionsAre
<1>6. \A f \in D : (\A k \in kids(f) : k \in Good) => f \in Good  BY <1>4
<1> HIDE DEF Good
<1>7. \A f \in D : f \in Good  BY <1>5, <1>6, FusionsAre, OverFusions
<1>8. \A f \in D : h[f] \in Seq(Bindings)  BY <1>7 DEF Good
<1>9. ASSUME NEW f \in D
      PROVE  /\ h[f] \in Seq(Bindings)
             /\ Elems(h[f]) = Elems(c.fusions[f].inputs) \cup UNION {Elems(h[k]) : k \in kids(f)}
  BY <1>4, <1>5, <1>8
<1> SUFFICES ASSUME NEW f \in D
             PROVE  /\ Leaves(c, f) \in Seq(Bindings)
                    /\ Elems(Leaves(c, f)) = Elems(c.fusions[f].inputs)
                         \cup UNION {Elems(Leaves(c, k)) : k \in Elems(c.fusions[f].children)}
  OBVIOUS
<1>10. UNION {Elems(Leaves(c, k)) : k \in kids(f)} = UNION {Elems(h[k]) : k \in kids(f)}
  BY <1>2
<1> QED  BY <1>2, <1>9, <1>10

(* What any strategy makes of its candidates: nothing, or one of them      *)
(* decides; whatever is active is current, unless it is only counted.      *)
Selected(candidates, strategy, field, r) ==
  /\ r.value \in Texts
  /\ r.by # NoSignal =>
       r.by \in candidates /\ r.state = "valid" /\ (r.complete => r.active # {})
  /\ \A x \in r.active : \E s \in candidates :
       s.id = x /\ (strategy = "opening_source_count" \/ IsFresh(s, field))

LEMMA ChosenIsSelected ==
  ASSUME NEW candidates, NEW strategy, NEW field, NEW r, Chosen(candidates, field, r)
  PROVE  Selected(candidates, strategy, field, r)
  BY DEF Chosen, Selected, Healthy

LEMMA OpeningIsSelected ==
  ASSUME NEW g, NEW contacts \in Seq(Candidates(g)), NEW field,
         NEW fusion, fusion.inputs \in Seq(Bindings), fusion.inputs # <<>>
  PROVE  Selected(Elems(contacts), fusion.strategy, field,
                  SelectOpening(fusion, contacts, field))
<1> DEFINE values == [i \in 1..Len(contacts) |-> contacts[i].value]
           whole  == Len(contacts) = Len(fusion.inputs)
           valid  == whole /\ Elems(values) \subseteq {"true", "false"}
           fresh  == valid /\ ContactsFresh(contacts, field)
           both   == fresh /\ Elems(values) = {"true"}
           ids    == {s.id : s \in Elems(contacts)}
           first  == contacts[1]
           counting == fusion.strategy = "opening_source_count"
           r == SelectOpening(fusion, contacts, field)
           Claim(value, complete) ==
             Decided(value, first, IF complete THEN ids ELSE {}, complete, FALSE)
           Told == {values[1], "count", "true", "open", "tilted", "closed"}
<1>1. fresh \in BOOLEAN  OBVIOUS
<1>2. \/ \E state : r = Undecided(state)
      \/ r = [Undecided("unknown") EXCEPT !.conflict = TRUE]
      \/ contacts # <<>> /\ r = [Claim("false", FALSE) EXCEPT !.conflict = TRUE]
      \/ contacts # <<>> /\ r = Claim("false", FALSE)
      \/ contacts # <<>> /\ fresh /\ r = Claim("true", TRUE)
      \/ whole /\ counting /\ r = Claim("count", TRUE)
      \/ Len(contacts) = 2 /\ fresh /\ \E value \in Told : r = Claim(value, TRUE)
  <2> HIDE DEF values, fresh, both, ids, first, valid, whole, Claim, r, Told
  <2>1. CASE fusion.strategy = "opening_source_count"
    <3>1. r = IF whole THEN Claim("count", TRUE) ELSE Undecided("unknown")
      BY <2>1 DEF SelectOpening, whole, Claim, first, ids, r
    <3> QED  BY <2>1, <3>1
  <2>2. CASE fusion.strategy = "opening_available"
    <3>1. r = CASE ~valid \/ contacts = <<>> -> Undecided("unavailable")
                [] contacts # <<>> /\ both -> [Claim("false", FALSE) EXCEPT !.conflict = TRUE]
                [] OTHER -> Claim(IF fresh THEN "true" ELSE "false", fresh)
      BY <2>2 DEF SelectOpening, whole, valid, values, fresh, both, Claim, first, ids, r
    <3>2. CASE ~valid \/ contacts = <<>>
      <4>1. r = Undecided("unavailable")
        <5>1. ~valid => ~both  BY DEF both, fresh
        <5> QED  BY <3>1, <3>2, <5>1
      <4> QED  BY <4>1
    <3>3. CASE valid /\ contacts # <<>> /\ both
      <4>1. r = [Claim("false", FALSE) EXCEPT !.conflict = TRUE]  BY <3>1, <3>3
      <4> QED  BY <3>3, <4>1
    <3>4. CASE valid /\ contacts # <<>> /\ ~both /\ fresh
      <4>1. r = Claim(IF fresh THEN "true" ELSE "false", fresh)  BY <3>1, <3>4
      <4>2. fresh = TRUE  BY <1>1, <3>4
      <4>3. r = Claim("true", TRUE)  BY <4>1, <4>2
      <4> QED  BY <3>4, <4>3
    <3>5. CASE valid /\ contacts # <<>> /\ ~both /\ ~fresh
      <4>1. r = Claim(IF fresh THEN "true" ELSE "false", fresh)  BY <3>1, <3>5
      <4>2. fresh = FALSE  BY <1>1, <3>5
      <4>3. r = Claim("false", FALSE)  BY <4>1, <4>2
      <4> QED  BY <3>5, <4>3
    <3> QED  BY <3>2, <3>3, <3>4, <3>5
  <2>3. CASE fusion.strategy \notin {"opening_source_count", "opening_available"}
    <3> DEFINE story == IF fusion.strategy = "opening_is_open" THEN values[1]
                        ELSE IF values[1] = "true" THEN "open"
                        ELSE IF values[2] = "true" THEN "tilted" ELSE "closed"
    <3>1. r = CASE ~fresh \/ Len(contacts) # 2 -> Undecided("unknown")
                [] Len(contacts) = 2 /\ both -> [Undecided("unknown") EXCEPT !.conflict = TRUE]
                [] OTHER -> Claim(story, TRUE)
      BY <2>3, Zenon DEF SelectOpening, whole, valid, values, fresh, both, Claim, first, ids, r
    <3>2. story \in Told  BY DEF Told
    <3> HIDE DEF story
    <3>3. CASE ~fresh \/ Len(contacts) # 2
      <4>1. r = Undecided("unknown")
        <5>1. ~fresh => ~both  BY DEF both
        <5> QED  BY <3>1, <3>3, <5>1
      <4> QED  BY <4>1
    <3>4. CASE fresh /\ Len(contacts) = 2 /\ both
      <4>1. r = [Undecided("unknown") EXCEPT !.conflict = TRUE]
        <5> HIDE DEF Undecided
        <5> QED  BY <3>1, <3>4
      <4> QED  BY <4>1
    <3>5. CASE fresh /\ Len(contacts) = 2 /\ ~both
      <4>1. r = Claim(story, TRUE)  BY <3>1, <3>5
      <4> QED  BY <3>2, <3>5, <4>1
    <3> QED  BY <3>3, <3>4, <3>5
  <2> QED  BY <2>1, <2>2, <2>3
<1>3. Elems(contacts) \subseteq Candidates(g)
      /\ (contacts # <<>> => first \in Elems(contacts) /\ ids # {})
  BY ElemsAre
<1>4. whole => contacts # <<>>
  BY LenProperties, EmptySeq
<1>5. Len(contacts) = 2 => contacts # <<>> /\ values[1] \in Texts
  <2> SUFFICES ASSUME Len(contacts) = 2  PROVE contacts # <<>> /\ values[1] \in Texts
    OBVIOUS
  <2>1. contacts # <<>>  BY EmptySeq
  <2>2. first \in Candidates(g)  BY <1>3, <2>1
  <2>3. first.value \in Texts  BY <2>2 DEF Candidates
  <2> QED  BY <2>1, <2>3
<1>6. fresh => \A s \in Elems(contacts) : IsFresh(s, field)  BY DEF ContactsFresh
<1>7. {"count", "true", "false", "open", "tilted", "closed"} \subseteq Texts  BY DEF Texts
<1> HIDE DEF values, whole, fresh, first, r, ids, counting
<1> SUFFICES Selected(Elems(contacts), fusion.strategy, field, r)
  BY DEF r
<1>8. ASSUME NEW value \in Texts, contacts # <<>>, counting \/ fresh, r = Claim(value, TRUE)
      PROVE  Selected(Elems(contacts), fusion.strategy, field, r)
  <2>1. /\ r.value = value /\ r.state = "valid" /\ r.by = first /\ r.complete = TRUE
        /\ r.active = ids
    BY <1>8 DEF Decided
  <2>2. \A x \in r.active : \E s \in Elems(contacts) : 
                              s.id = x /\ (fusion.strategy = "opening_source_count" \/ IsFresh(s, field))
    BY <1>6, <1>8, <2>1 DEF ids, counting
  <2> QED  BY <1>3, <1>8, <2>1, <2>2 DEF Selected
<1>9. ASSUME contacts # <<>>, r.value = "false", r.state = "valid", r.by = first,
             r.complete = FALSE, r.active = {}
      PROVE  Selected(Elems(contacts), fusion.strategy, field, r)
  BY <1>3, <1>7, <1>9 DEF Selected
<1>10. CASE \E state : r = Undecided(state)
  <2>1. PICK state : r = Undecided(state)  BY <1>10
  <2>2. Chosen(Elems(contacts), field, r)  BY <2>1, UndecidedIsChosen
  <2> QED  BY <2>2, ChosenIsSelected
<1>11. CASE r = [Undecided("unknown") EXCEPT !.conflict = TRUE]
  <2>1. r.value = "none" /\ r.by = NoSignal /\ r.active = {}  BY <1>11 DEF Undecided
  <2>2. "none" \in Texts  BY DEF Texts
  <2> QED  BY <2>1, <2>2 DEF Selected
<1>12. CASE contacts # <<>> /\ r = [Claim("false", FALSE) EXCEPT !.conflict = TRUE]
  <2>1. r.value = "false" /\ r.state = "valid" /\ r.by = first /\ r.complete = FALSE /\ r.active = {}
    BY <1>12 DEF Decided
  <2> QED  BY <1>9, <1>12, <2>1
<1>13. CASE contacts # <<>> /\ r = Claim("false", FALSE)
  <2>1. r.value = "false" /\ r.state = "valid" /\ r.by = first /\ r.complete = FALSE /\ r.active = {}
    BY <1>13 DEF Decided
  <2> QED  BY <1>9, <1>13, <2>1
<1> HIDE DEF Claim
<1>14. CASE whole /\ counting /\ r = Claim("count", TRUE)  BY <1>4, <1>7, <1>8, <1>14
<1>15. CASE contacts # <<>> /\ fresh /\ r = Claim("true", TRUE)  BY <1>7, <1>8, <1>15
<1>16. CASE Len(contacts) = 2 /\ fresh /\ \E value \in Told : r = Claim(value, TRUE)
  <2>1. PICK value \in Told : r = Claim(value, TRUE)  BY <1>16
  <2>2. value \in Texts  BY <1>5, <1>7, <1>16
  <2> QED  BY <1>5, <1>8, <1>16, <2>1, <2>2
<1> HIDE DEF Told
<1> QED  BY <1>2, <1>10, <1>11, <1>12, <1>13, <1>14, <1>15, <1>16

LEMMA SelectIsSelected ==
  ASSUME NEW g, NEW candidates \in Seq(Candidates(g)), NEW field,
         NEW fusion, fusion.inputs \in Seq(Bindings),
         IsOpening(fusion) => fusion.inputs # <<>>
  PROVE  Selected(Elems(candidates), fusion.strategy, field,
                  Select(fusion, candidates, field))
<1> DEFINE freshSet == {s \in Elems(candidates) :
                          Classify(s.value, field) = "valid" /\ IsFresh(s, field)}
           fresh == Those(candidates, freshSet)
           inputs == Len(fusion.inputs) + Len(fusion.children)
<1>1. Select(fusion, candidates, field)
        = IF IsOpening(fusion) THEN SelectOpening(fusion, candidates, field)
          ELSE IF fusion.strategy \in {"first_healthy", "latest"}
               THEN SelectOne(fusion.strategy, candidates, fresh, field)
               ELSE SelectBoolean(fusion.strategy, fresh, inputs)
  BY DEF Select
<1>2. fresh \in Seq(Candidates(g)) /\ Elems(fresh) = Elems(candidates) \cap freshSet
  <2> HIDE DEF freshSet
  <2> QED  BY ThoseAre
<1>3. Elems(fresh) = {s \in Elems(candidates) : Healthy(s, field)}
  BY <1>2 DEF Healthy
<1> HIDE DEF fresh, inputs
<1>4. CASE IsOpening(fusion)  BY <1>1, <1>4, OpeningIsSelected
<1>5. CASE ~IsOpening(fusion) /\ fusion.strategy \in {"first_healthy", "latest"}
  BY <1>1, <1>2, <1>3, <1>5, OneIsChosen, ChosenIsSelected
<1>6. CASE ~IsOpening(fusion) /\ fusion.strategy \notin {"first_healthy", "latest"}
  BY <1>1, <1>2, <1>3, <1>6, BooleanIsChosen, ChosenIsSelected
<1> QED  BY <1>4, <1>5, <1>6

-----------------------------------------------------------------------------
(* What a fusion comes to, with the fusions it reads.                      *)

(* The result of a fusion rests on sources below it; a complete one on     *)
(* some, and one that is not a count on current ones only.                 *)
Grounded(g, field, f, r) ==
  /\ r.value \in Texts
  /\ r.by # NoSignal => /\ r.by.ev \in Evidence /\ r.state = "valid"
                        /\ r.complete => r.active # {}
  /\ \A b \in r.active :
       /\ b \in Elems(Leaves(g.config, f)) \cap Shown(g)
       /\ CountsStandAlone /\ g.config.fusions[f].strategy # "opening_source_count" =>
            IsFresh(SignalOf(g, b), field)

LEMMA FusedIsGrounded ==
  ASSUME NEW g, Read(g), NEW field, field.ttl \in Nat, NEW f \in DOMAIN g.config.fusions,
         NEW below, \A k \in Elems(g.config.fusions[f].children) : Grounded(g, field, k, below[k])
  PROVE  Grounded(g, field, f, Fused(g, g.config.fusions[f], field, below))
<1> DEFINE c == g.config
           D == DOMAIN c.fusions
           fusion == c.fusions[f]
           kids == Elems(fusion.children)
           own == SignalsOf(g, fusion.inputs)
           nested == Nested(fusion.children, below, field)
           all == Elems(own \o nested)
           sel == Select(fusion, own \o nested, field)
           r == Fused(g, fusion, field, below)
           Counting == fusion.strategy = "opening_source_count"
<1>1. c \in Configs /\ Accepted(c)  BY DEF Read
<1>2. /\ fusion.inputs \in Seq(Bindings) /\ fusion.children \in Seq(D)
      /\ Elems(fusion.inputs) \subseteq Bindings /\ kids \subseteq D /\ D \cap Bindings = {}
      /\ (IsOpening(fusion) => fusion.inputs # <<>>)
  BY <1>1, FusionsAre
<1>3. \A k \in kids : Offers(below[k]) => below[k].value \in Texts /\ below[k].by.ev \in Evidence
  BY DEF Grounded, Offers
<1>4. own \in Seq(Candidates(g)) /\ Elems(own) = {SignalOf(g, b) : b \in Elems(fusion.inputs) \cap Shown(g)}
  BY <1>2, SignalsAre
<1>5. /\ nested \in Seq(Candidates(g))
      /\ Elems(nested) = {AsCandidate(k, below[k], field) : k \in {l \in kids : Offers(below[l])}}
  BY <1>2, <1>3, NestedAre
<1>6. own \o nested \in Seq(Candidates(g)) /\ all = Elems(own) \cup Elems(nested)
  <2> HIDE DEF own, nested
  <2> QED  BY <1>4, <1>5, ElemsOfConcat
<1>7. Selected(all, fusion.strategy, field, sel)
  <2> HIDE DEF own, nested
  <2> QED  BY <1>2, <1>6, SelectIsSelected
<1>8. /\ r.value = sel.value /\ r.state = sel.state
      /\ r.by = IF sel.by # NoSignal /\ sel.by.id \in kids THEN below[sel.by.id].by ELSE sel.by
      /\ r.active = UNION {IF k \in kids THEN below[k].active ELSE {k} : k \in sel.active}
      /\ r.complete = (sel.complete /\ \A k \in kids : below[k].complete)
  BY DEF Fused, Merged
<1>9. \A b \in Elems(fusion.inputs) : SignalOf(g, b).id = b /\ b \notin kids
  BY <1>2 DEF SignalOf
<1>10. \A k \in kids : AsCandidate(k, below[k], field).id = k  BY DEF AsCandidate
<1>11. Elems(Leaves(c, f)) = Elems(fusion.inputs) \cup UNION {Elems(Leaves(c, k)) : k \in kids}
  BY <1>1, LeavesAre
<1>12. CountsStandAlone => \A k \in kids : c.fusions[k].strategy # "opening_source_count"
  BY <1>1 DEF CountsStandAlone
<1> HIDE DEF own, nested, all, sel, r, kids, D, fusion, c
<1>13. ASSUME NEW s \in all
       PROVE  \/ \E b \in Elems(fusion.inputs) \cap Shown(g) : s = SignalOf(g, b) /\ s.id = b /\ b \notin kids
              \/ s.id \in kids /\ Offers(below[s.id]) /\ s = AsCandidate(s.id, below[s.id], field)
  BY <1>4, <1>5, <1>6, <1>9, <1>10
<1>14. ASSUME NEW x \in sel.active
       PROVE  \/ /\ x \in Elems(fusion.inputs) \cap Shown(g) /\ x \notin kids
                 /\ Counting \/ IsFresh(SignalOf(g, x), field)
              \/ x \in kids /\ Offers(below[x])
  BY <1>7, <1>13 DEF Selected
<1>15. r.value \in Texts  BY <1>7, <1>8 DEF Selected
<1>16. ASSUME r.by # NoSignal
       PROVE  r.by.ev \in Evidence /\ r.state = "valid" /\ (r.complete => r.active # {})
  <2>1. sel.by # NoSignal  BY <1>8, <1>16
  <2>2. sel.by \in all /\ sel.state = "valid" /\ (sel.complete => sel.active # {})
    BY <1>7, <2>1 DEF Selected
  <2>3. r.by.ev \in Evidence
    <3>1. CASE sel.by.id \in kids
      <4>1. Offers(below[sel.by.id])  BY <1>13, <2>2, <3>1
      <4>2. r.by = below[sel.by.id].by  BY <1>8, <2>1, <3>1
      <4> QED  BY <1>3, <3>1, <4>1, <4>2
    <3>2. CASE sel.by.id \notin kids
      <4>1. r.by = sel.by  BY <1>8, <3>2
      <4>2. sel.by \in Candidates(g)  BY <1>6, <2>2, ElemsAre DEF all
      <4> QED  BY <4>1, <4>2 DEF Candidates
    <3> QED  BY <3>1, <3>2
  <2>4. ASSUME r.complete  PROVE r.active # {}
    <3>1. sel.complete /\ \A k \in kids : below[k].complete  BY <1>8, <2>4
    <3>2. PICK x \in sel.active : TRUE  BY <2>2, <3>1
    <3>3. CASE x \in kids
      <4>1. Offers(below[x])  BY <1>14, <3>3
      <4>2. Grounded(g, field, x, below[x])  BY <3>3 DEF kids, fusion, c
      <4>3. below[x].active # {}  BY <3>1, <3>3, <4>1, <4>2 DEF Grounded, Offers
      <4>4. below[x].active \subseteq r.active  BY <1>8, <3>3
      <4> QED  BY <4>3, <4>4
    <3>4. CASE x \notin kids
      <4>1. x \in r.active  BY <1>8, <3>4
      <4> QED  BY <4>1
    <3> QED  BY <3>3, <3>4
  <2> QED  BY <1>8, <2>2, <2>3, <2>4
<1>17. ASSUME NEW b \in r.active
       PROVE  /\ b \in Elems(Leaves(c, f)) \cap Shown(g)
              /\ CountsStandAlone /\ ~Counting => IsFresh(SignalOf(g, b), field)
  <2>1. PICK x \in sel.active : b \in IF x \in kids THEN below[x].active ELSE {x}
    BY <1>8
  <2>2. CASE x \in kids
    <3>1. Grounded(g, field, x, below[x])  BY <2>2 DEF kids, fusion, c
    <3>2. b \in Elems(Leaves(c, x)) /\ b \in Shown(g)  BY <2>1, <2>2, <3>1 DEF Grounded, c
    <3>3. b \in Elems(Leaves(c, f))  BY <1>11, <2>2, <3>2
    <3>4. CountsStandAlone => IsFresh(SignalOf(g, b), field)
      BY <1>12, <2>1, <2>2, <3>1 DEF Grounded, c
    <3> QED  BY <3>2, <3>3, <3>4
  <2>3. CASE x \notin kids
    <3>1. b = x  BY <2>1, <2>3
    <3> QED  BY <1>11, <1>14, <2>3, <3>1
  <2> QED  BY <2>2, <2>3
<1>18. Grounded(g, field, f, r)  BY <1>15, <1>16, <1>17 DEF Grounded, c, fusion
<1> QED  BY <1>18 DEF r, fusion, c

(* The function by which the fusions are evaluated, child before parent.   *)
EvaluationBy(g, field, h) ==
  h = [f \in DOMAIN g.config.fusions |->
         Fused(g, g.config.fusions[f], field,
               [k \in Elems(g.config.fusions[f].children) |-> h[k]])]

LEMMA EvaluationExists ==
  ASSUME NEW g, NEW field, IsFiniteSet(DOMAIN g.config.fusions), Acyclic(g.config.fusions),
         \A f \in DOMAIN g.config.fusions :
           Elems(g.config.fusions[f].children) \subseteq DOMAIN g.config.fusions
  PROVE  \E h : EvaluationBy(g, field, h)
<1> DEFINE D == DOMAIN g.config.fusions
           kids(f) == Elems(g.config.fusions[f].children)
           body(f, h) == Fused(g, g.config.fusions[f], field, [k \in Elems(g.config.fusions[f].children) |-> h[k]])
           Partial(G, h) == /\ h = [f \in G |-> h[f]]
                            /\ \A f \in G : kids(f) \subseteq G /\ h[f] = body(f, h)
           Good == {G \in SUBSET D : \E h : Partial(G, h)}
<1>1. {} \in Good
  <2>1. Partial({}, [f \in {} |-> f])  OBVIOUS
  <2> HIDE DEF Partial
  <2> QED  BY <2>1
<1>2. ASSUME NEW G \in SUBSET D, G \in Good, NEW f \in D \ G, kids(f) \cap (D \ G) = {}
      PROVE  G \cup {f} \in Good
  <2>1. PICK h : Partial(G, h)  BY <1>2
  <2>2. kids(f) \subseteq G  BY <1>2
  <2> DEFINE e == [x \in G \cup {f} |-> IF x = f THEN body(f, h) ELSE h[x]]
  <2>3. \A x \in G : e[x] = h[x]  OBVIOUS
  <2>4. e[f] = body(f, h) /\ e = [x \in G \cup {f} |-> e[x]]  OBVIOUS
  <2> HIDE DEF e
  <2>5. ASSUME NEW x \in G \cup {f}  PROVE kids(x) \subseteq G /\ e[x] = body(x, h)
    BY <2>1, <2>2, <2>3, <2>4
  <2>6. ASSUME NEW x \in G \cup {f}  PROVE body(x, e) = body(x, h)
    <3>1. \A k \in kids(x) : e[k] = h[k]  BY <2>3, <2>5
    <3>2. [k \in kids(x) |-> e[k]] = [k \in kids(x) |-> h[k]]  BY <3>1
    <3> QED  BY <3>2
  <2> HIDE DEF body, kids
  <2>7. Partial(G \cup {f}, e)  BY <2>4, <2>5, <2>6
  <2> HIDE DEF Partial
  <2> QED  BY <2>7
<1> HIDE DEF Good
<1>3. D \in Good  BY <1>1, <1>2, FusionByFusion
<1>4. PICK h : Partial(D, h)  BY <1>3 DEF Good
<1>5. h = [f \in D |-> body(f, h)]
  <2>1. h = [f \in D |-> h[f]] /\ \A f \in D : h[f] = body(f, h)  BY <1>4
  <2> HIDE DEF body
  <2> QED  BY <2>1
<1>6. EvaluationBy(g, field, h)  BY <1>5 DEF EvaluationBy
<1> QED  BY <1>6

(* SelectionFollows: what a fusion comes to is what its strategy makes of  *)
(* its inputs and of what the fusions it reads come to.                    *)
LEMMA SelectionFollows ==
  ASSUME NEW g, Read(g), NEW field, NEW f \in DOMAIN g.config.fusions
  PROVE  Selection(g, f, field)
           = Fused(g, g.config.fusions[f], field,
                   [k \in Elems(g.config.fusions[f].children) |-> Selection(g, k, field)])
<1> DEFINE h == CHOOSE p : EvaluationBy(g, field, p)
           kids == Elems(g.config.fusions[f].children)
<1>1. EvaluationBy(g, field, h)
  <2>1. \E p : EvaluationBy(g, field, p)  BY FusionsAre, EvaluationExists DEF Read
  <2> QED  BY <2>1
<1>2. ASSUME NEW k  PROVE Selection(g, k, field) = h[k]  BY DEF Selection, EvaluationBy
<1> HIDE DEF h
<1>3. h[f] = Fused(g, g.config.fusions[f], field, [k \in kids |-> h[k]])
  BY <1>1 DEF EvaluationBy
<1>4. [k \in kids |-> h[k]] = [k \in kids |-> Selection(g, k, field)]  BY <1>2
<1> QED  BY <1>2, <1>3, <1>4

LEMMA SelectionIsGrounded ==
  ASSUME NEW g, Read(g), NEW field, field.ttl \in Nat
  PROVE  \A f \in DOMAIN g.config.fusions : Grounded(g, field, f, Selection(g, f, field))
<1> DEFINE fusions == g.config.fusions
           Good == {f \in DOMAIN fusions : Grounded(g, field, f, Selection(g, f, field))}
<1>1. ASSUME NEW f \in DOMAIN fusions, \A k \in Elems(fusions[f].children) : k \in Good
      PROVE  f \in Good
  <2> DEFINE below == [k \in Elems(fusions[f].children) |-> Selection(g, k, field)]
  <2>1. \A k \in Elems(fusions[f].children) : Grounded(g, field, k, below[k])  BY <1>1
  <2>2. Selection(g, f, field) = Fused(g, fusions[f], field, below)  BY SelectionFollows
  <2> HIDE DEF below
  <2>3. Grounded(g, field, f, Fused(g, fusions[f], field, below))  BY <2>1, FusedIsGrounded
  <2> QED  BY <2>2, <2>3
<1>2. Acyclic(fusions) /\ \A f \in DOMAIN fusions : Elems(fusions[f].children) \subseteq DOMAIN fusions
  BY FusionsAre DEF Read
<1> HIDE DEF Good, fusions
<1>3. \A f \in DOMAIN fusions : f \in Good  BY <1>1, <1>2, OverFusions
<1> QED  BY <1>3 DEF Good, fusions

-----------------------------------------------------------------------------
(* What becomes of a field.                                                *)

(* A policy of the inputs changes nothing of a field but its fallback.     *)
LEMMA FieldIsOfSchema ==
  ASSUME NEW g, g.config \in Configs, NEW n \in Fields(g)
  PROVE  LET field == FieldSchema(g, n)
             own   == Schemas[g.config.schema][n]
         IN  /\ own \in FieldSchemas
             /\ field.ttl = own.ttl /\ field.requirement = own.requirement
             /\ field.physical = own.physical /\ field.type = own.type
             /\ field.safeDefault = own.safeDefault
             /\ field.ttl \in Nat /\ field.safeDefault \in Texts
<1> DEFINE own == Schemas[g.config.schema][n]
           f == CHOOSE k \in FusionsFor(g, n) : TRUE
           p == CHOOSE q \in Policies(g.config, g.config.fusions[f]) : TRUE
           field == FieldSchema(g, n)
<1>1. own \in FieldSchemas  BY GraphConstants DEF Fields
<1>2. field = own \/ field = [own EXCEPT !.fallback = p]
  BY DEF FieldSchema, Overridden
<1> HIDE DEF own, p, field
<1>3. /\ field.ttl = own.ttl /\ field.requirement = own.requirement
      /\ field.physical = own.physical /\ field.type = own.type
      /\ field.safeDefault = own.safeDefault
  BY <1>1, <1>2 DEF FieldSchemas
<1>4. own.ttl \in Nat /\ own.safeDefault \in Texts  BY <1>1 DEF FieldSchemas
<1> QED  BY <1>1, <1>3, <1>4 DEF own, field

FusionOf(g, n) == CHOOSE k \in FusionsFor(g, n) : TRUE

(* What the fusion of a field, if it has one, comes to.                    *)
Decision(g, n) ==
  IF FusionsFor(g, n) # {} THEN Selection(g, FusionOf(g, n), FieldSchema(g, n))
  ELSE Undecided("unavailable")

(* The sources a fallback looks at.                                        *)
Behind(g, n) ==
  IF FusionsFor(g, n) # {} THEN SignalsOf(g, Leaves(g.config, FusionOf(g, n))) ELSE <<>>

LEMMA EvaluatedFrom ==
  ASSUME NEW g, NEW n
  PROVE  Evaluated(g, n) =
           IF Usable(Decision(g, n), FieldSchema(g, n))
           THEN Claimed(Decision(g, n), FieldSchema(g, n))
           ELSE FellBack(Decision(g, n), FieldSchema(g, n), g.held[n], Behind(g, n))
  BY DEF Evaluated, Decision, Behind, FusionOf

LEMMA FusionOfField ==
  ASSUME NEW g, NEW n, FusionsFor(g, n) # {}
  PROVE  /\ FusionOf(g, n) \in DOMAIN g.config.fusions
         /\ FusionOf(g, n) \in FusionsFor(g, n)
  BY DEF FusionOf, FusionsFor

LEMMA DecisionIsGrounded ==
  ASSUME NEW g, Read(g), NEW n \in Fields(g)
  PROVE  /\ Decision(g, n).value \in Texts
         /\ FusionsFor(g, n) = {} => Decision(g, n).by = NoSignal
         /\ FusionsFor(g, n) # {} => Grounded(g, FieldSchema(g, n), FusionOf(g, n), Decision(g, n))
<1>1. CASE FusionsFor(g, n) = {}
  <2>1. Decision(g, n).value = "none" /\ Decision(g, n).by = NoSignal
    BY <1>1 DEF Decision, Undecided
  <2> QED  BY <1>1, <2>1 DEF Texts
<1>2. CASE FusionsFor(g, n) # {}
  <2>1. FieldSchema(g, n).ttl \in Nat  BY FieldIsOfSchema DEF Read
  <2>2. Grounded(g, FieldSchema(g, n), FusionOf(g, n), Decision(g, n))
    BY <1>2, <2>1, FusionOfField, SelectionIsGrounded DEF Decision
  <2> QED  BY <1>2, <2>2 DEF Grounded
<1> QED  BY <1>1, <1>2

(* Whatever becomes of a field, its value is one a field can have.         *)
LEMMA EvaluatedIsText ==
  ASSUME NEW g, Read(g), NEW n \in Fields(g), g.held[n] \in Texts
  PROVE  Evaluated(g, n).value \in Texts
<1> DEFINE sel == Decision(g, n)
           field == FieldSchema(g, n)
           held == g.held[n]
           behind == Behind(g, n)
<1>1. sel.value \in Texts /\ field.safeDefault \in Texts
  BY DecisionIsGrounded, FieldIsOfSchema DEF Read
<1>2. Evaluated(g, n) = IF Usable(sel, field) THEN Claimed(sel, field)
                        ELSE FellBack(sel, field, held, behind)
  BY EvaluatedFrom
<1>3. held \in Texts  OBVIOUS
<1> HIDE DEF sel, field, held, behind
<1>4. Claimed(sel, field).value = sel.value  BY DEF Claimed
<1>5. FellBack(sel, field, held, behind).value \in {held, field.safeDefault, "unknown", "none"}
  BY DEF FellBack, HeldValue
<1>6. "unknown" \in Texts /\ "none" \in Texts  BY DEF Texts
<1> QED  BY <1>1, <1>2, <1>3, <1>4, <1>5, <1>6

(* A field that falls back is neither healthy nor valid.                   *)
LEMMA FallsBackUnhealthy ==
  ASSUME NEW sel, NEW field, NEW held, NEW candidates
  PROVE  /\ FellBack(sel, field, held, candidates).judged.health # "healthy"
         /\ FellBack(sel, field, held, candidates).state # "valid"
<1> DEFINE r == FellBack(sel, field, held, candidates)
           holding == field.fallback = "hold_last" /\ held # "none"
<1>1. \A freshness : Quality(field, freshness, holding, holding).health # "healthy"
  BY DEF Quality, Judged
<1>2. \A freshness : Quality(field, freshness, holding, holding)
        = [health |-> Quality(field, freshness, holding, holding).health,
           freshness |-> Quality(field, freshness, holding, holding).freshness,
           safety |-> Quality(field, freshness, holding, holding).safety,
           quality |-> Quality(field, freshness, holding, holding).quality]
  BY DEF Quality, Judged
<1>3. \E freshness : LET q == Quality(field, freshness, holding, holding)
                     IN  r.judged = q \/ r.judged = [q EXCEPT !.quality = "conflict"]
  BY DEF FellBack
<1>4. r.judged.health # "healthy"
  <2>1. PICK freshness : LET q == Quality(field, freshness, holding, holding)
                         IN  r.judged = q \/ r.judged = [q EXCEPT !.quality = "conflict"]
    BY <1>3
  <2> DEFINE q == Quality(field, freshness, holding, holding)
  <2>2. q.health # "healthy"  BY <1>1
  <2>3. q = [health |-> q.health, freshness |-> q.freshness, safety |-> q.safety, quality |-> q.quality]
    BY <1>2
  <2>4. r.judged = q \/ r.judged = [q EXCEPT !.quality = "conflict"]  BY <2>1
  <2> HIDE DEF q, r
  <2> QED  BY <2>2, <2>3, <2>4
<1>5. r.state # "valid"  BY DEF FellBack
<1> QED  BY <1>4, <1>5

(* A claim is of a valid value; a healthy one of a complete value.         *)
LEMMA ClaimedIs ==
  ASSUME NEW sel, NEW field
  PROVE  LET r == Claimed(sel, field)
         IN  /\ r.value = sel.value /\ r.state = "valid" /\ r.active = sel.active
             /\ r.complete = sel.complete
             /\ r.judged.health = "healthy" => sel.complete
<1> DEFINE q == Quality(field, Freshness(sel.by.ev, Least(field.ttl, sel.by.ttl), field.requirement),
                        TRUE, FALSE)
           r == Claimed(sel, field)
<1>1. q = [health |-> q.health, freshness |-> q.freshness, safety |-> q.safety, quality |-> q.quality]
  BY DEF Quality, Judged
<1>2. r = [value |-> sel.value, state |-> "valid", active |-> sel.active, complete |-> sel.complete,
           judged |-> IF sel.conflict THEN [q EXCEPT !.health = "degraded", !.quality = "conflict"]
                      ELSE IF ~sel.complete
                           THEN [q EXCEPT !.health = "degraded", !.quality = "degraded"]
                           ELSE q]
  BY DEF Claimed
<1> HIDE DEF q, r
<1>3. [q EXCEPT !.health = "degraded", !.quality = "conflict"].health = "degraded"
      /\ [q EXCEPT !.health = "degraded", !.quality = "degraded"].health = "degraded"
  BY <1>1
<1>4. r.judged.health = "healthy" => sel.complete  BY <1>2, <1>3
<1> QED  BY <1>2, <1>4 DEF r

(* What is current for a fusion is current for a reader.                   *)
LEMMA FreshIsProven ==
  ASSUME Read(graph), NEW b \in Shown(graph), NEW field, field.ttl \in Nat,
         IsFresh(SignalOf(graph, b), field)
  PROVE  Proven(b, field)
<1> DEFINE s == SignalOf(graph, b)
           ttl == graph.config.bindings[b].ttl
           ev == graph.signals[b].ev
<1>1. s.ev = ev /\ s.ttl = ttl  BY DEF SignalOf
<1>2. ev \in Evidence /\ ttl \in Nat /\ graph.signals[b] # NoSignal
  BY SignalIsCandidate, <1>1 DEF Candidates, Shown
<1>3. ev.age \in -1..MaxAge /\ MaxAge \in Nat  BY <1>2, GraphConstants DEF Evidence
<1>4. Freshness(ev, Least(field.ttl, ttl), field.requirement) = "fresh"  BY <1>1 DEF IsFresh
<1>5. Least(field.ttl, ttl) \in Nat /\ Least(field.ttl, ttl) <= field.ttl /\ Least(field.ttl, ttl) <= ttl
  BY <1>2 DEF Least
<1> HIDE DEF s, ttl, ev
<1>6. /\ ev.kind = "device" \/ (ev.kind = "ha_event" /\ field.requirement # "device")
      /\ ~(ev.age < 0) /\ ~Expired(ev.age, Least(field.ttl, ttl))
  BY <1>3, <1>4 DEF Freshness
<1>7. ev.age \in 0..field.ttl /\ ev.age <= ttl
  BY <1>2, <1>3, <1>5, <1>6 DEF Expired
<1> QED  BY <1>2, <1>6, <1>7 DEF Proven, ev, ttl

(* A healthy field rests on current sources.                               *)
LEMMA HealthyIsProven ==
  ASSUME Read(graph), CountsStandAlone, NEW n \in Fields(graph),
         Evaluated(graph, n).judged.health = "healthy"
  PROVE  LET e == Evaluated(graph, n)
         IN  /\ e.state = "valid" /\ e.complete /\ e.active # {}
             /\ StrategyOf(n) # "opening_source_count" =>
                  \A b \in e.active : Proven(b, FieldSchema(graph, n))
<1> DEFINE e == Evaluated(graph, n)
           sel == Decision(graph, n)
           field == FieldSchema(graph, n)
<1>1. Usable(sel, field) /\ e = Claimed(sel, field)  BY EvaluatedFrom, FallsBackUnhealthy
<1>2. e.state = "valid" /\ e.active = sel.active /\ e.complete = sel.complete /\ sel.complete
  BY <1>1, ClaimedIs
<1>3. sel.by # NoSignal  BY <1>1 DEF Usable
<1>4. FusionsFor(graph, n) # {} /\ Grounded(graph, field, FusionOf(graph, n), sel)
  BY <1>3, DecisionIsGrounded
<1>5. field.ttl \in Nat  BY FieldIsOfSchema DEF Read
<1>6. StrategyOf(n) = graph.config.fusions[FusionOf(graph, n)].strategy
  BY DEF StrategyOf, FusionOf
<1> HIDE DEF e, sel, field
<1>7. e.active # {}  BY <1>2, <1>3, <1>4 DEF Grounded
<1>8. ASSUME StrategyOf(n) # "opening_source_count", NEW b \in e.active
      PROVE  Proven(b, field)
  <2>1. b \in Shown(graph) /\ IsFresh(SignalOf(graph, b), field)
    BY <1>2, <1>4, <1>6, <1>8 DEF Grounded
  <2> QED  BY <1>5, <2>1, FreshIsProven
<1> QED  BY <1>2, <1>7, <1>8 DEF e, field

-----------------------------------------------------------------------------
(* What a Boolean fusion decides is forced.                                *)

(* A decision for true needs one such input, or all of them; and the other *)
(* way round.                                                              *)
Rests(strategy, value, some, every) ==
  \/ value = "true"  /\ IF strategy = "all_true" THEN every["true"] ELSE some["true"]
  \/ value = "false" /\ IF strategy = "all_true" THEN some["false"] ELSE every["false"]

SomeAmong(candidates, H) ==
  [v \in {"true", "false"} |-> \E s \in Elems(candidates) \cap H : s.value = v]

EveryAmong(candidates, H, inputs) ==
  [v \in {"true", "false"} |->
     Len(candidates) = inputs /\ \A s \in Elems(candidates) : s \in H /\ s.value = v]

LEMMA SumsAre ==
  ASSUME NEW a \in Nat, NEW b \in Nat, NEW m \in Nat, NEW n \in Nat, a <= m, b <= n
  PROVE  m + n \in Nat /\ a + b <= m + n /\ (a + b = m + n => a = m /\ b = n)
  OBVIOUS

LEMMA BooleanDecides ==
  ASSUME NEW g, NEW candidates \in Seq(Candidates(g)), NEW H, NEW strategy, NEW inputs \in Nat,
         Len(candidates) <= inputs,
         SelectBoolean(strategy, Those(candidates, H), inputs).by # NoSignal
  PROVE  Rests(strategy, SelectBoolean(strategy, Those(candidates, H), inputs).value,
               SomeAmong(candidates, H), EveryAmong(candidates, H, inputs))
<1> DEFINE fresh == Those(candidates, H)
           of(v) == {s \in Elems(fresh) : s.value = v}
           says(v) == Those(fresh, of(v))
           trues  == says("true")
           falses == says("false")
           uncertain == Uncertain(Len(trues) + Len(falses), inputs)
           r == SelectBoolean(strategy, fresh, inputs)
           Some(v) == \E s \in Elems(candidates) \cap H : s.value = v
           Every(v) == /\ Len(candidates) = inputs
                       /\ \A s \in Elems(candidates) : s \in H /\ s.value = v
<1>1. /\ fresh \in Seq(Candidates(g)) /\ Elems(fresh) = Elems(candidates) \cap H
      /\ Len(fresh) <= Len(candidates)
      /\ Len(fresh) = Len(candidates) => Elems(candidates) \subseteq H
  BY ThoseAre
<1> HIDE DEF fresh
<1>2. ASSUME NEW v
      PROVE  /\ says(v) \in Seq(Candidates(g)) /\ Elems(says(v)) = Elems(fresh) \cap of(v)
             /\ Len(says(v)) <= Len(fresh)
             /\ Len(says(v)) = Len(fresh) => Elems(fresh) \subseteq of(v)
  <2> HIDE DEF of
  <2> QED  BY <1>1, ThoseAre
<1>3. /\ Len(candidates) \in Nat /\ Len(fresh) \in Nat
      /\ \A v : Len(says(v)) \in Nat
  <2> HIDE DEF says
  <2> QED  BY <1>1, <1>2, LenProperties
<1>4. Len(<<>>) = 0  BY EmptySeq
<1>5. r.by # NoSignal =>
      \/ r.value = "false" /\ strategy = "all_true" /\ falses # <<>>
      \/ r.value = "true" /\ strategy = "all_true" /\ falses = <<>> /\ ~uncertain
      \/ r.value = "true" /\ strategy # "all_true" /\ trues # <<>>
      \/ r.value = "false" /\ strategy # "all_true" /\ trues = <<>> /\ ~uncertain
  BY DEF SelectBoolean, Decided, Undecided
<1> HIDE DEF says
<1>6. ASSUME NEW v, says(v) # <<>>  PROVE Some(v)
  <2>1. says(v)[1] \in Elems(says(v))  BY <1>2, <1>6, ElemsAre
  <2> QED  BY <1>1, <1>2, <2>1
<1>7. ASSUME NEW v, Len(says(v)) >= inputs  PROVE Every(v)
  <2>1. Len(candidates) = inputs /\ Len(fresh) = Len(candidates) /\ Len(says(v)) = Len(fresh)
    BY <1>1, <1>2, <1>3, <1>7
  <2> QED  BY <1>1, <1>2, <2>1
<1>8. ~uncertain /\ falses = <<>> => Len(trues) >= inputs  BY <1>3, <1>4 DEF Uncertain
<1>9. ~uncertain /\ trues = <<>> => Len(falses) >= inputs  BY <1>3, <1>4 DEF Uncertain
<1>10. r.by # NoSignal  BY DEF fresh
<1> DEFINE some == [v \in {"true", "false"} |-> Some(v)]
           every == [v \in {"true", "false"} |-> Every(v)]
<1>11. some["true"] = Some("true") /\ some["false"] = Some("false")
       /\ every["true"] = Every("true") /\ every["false"] = Every("false")
  OBVIOUS
<1> HIDE DEF Some, Every, uncertain, r
<1>12. \/ r.value = "false" /\ strategy = "all_true" /\ Some("false")
       \/ r.value = "true" /\ strategy = "all_true" /\ Every("true")
       \/ r.value = "true" /\ strategy # "all_true" /\ Some("true")
       \/ r.value = "false" /\ strategy # "all_true" /\ Every("false")
  BY <1>5, <1>6, <1>7, <1>8, <1>9, <1>10
<1> HIDE DEF some, every
<1>13. Rests(strategy, r.value, some, every)  BY <1>11, <1>12 DEF Rests
<1> QED  BY <1>13 DEF r, some, every, Some, Every, fresh, SomeAmong, EveryAmong

(* The inputs of a fusion that speak for a value: sources with a healthy   *)
(* signal, and fusions that came to it.                                    *)
SourceSays(g, field, b, v) ==
  b \in Shown(g) /\ Healthy(SignalOf(g, b), field) /\ g.signals[b].value = v

ChildSays(below, k, v) == Offers(below[k]) /\ below[k].value = v

SomeSay(g, field, fusion, below) ==
  [v \in {"true", "false"} |->
     \/ \E b \in Elems(fusion.inputs) : SourceSays(g, field, b, v)
     \/ \E k \in Elems(fusion.children) : ChildSays(below, k, v)]

EverySay(g, field, fusion, below) ==
  [v \in {"true", "false"} |->
     /\ \A b \in Elems(fusion.inputs) : SourceSays(g, field, b, v)
     /\ \A k \in Elems(fusion.children) : ChildSays(below, k, v)]

LEMMA FusedRests ==
  ASSUME NEW g, Read(g), NEW field, field.ttl \in Nat, NEW f \in DOMAIN g.config.fusions,
         NEW below, \A k \in Elems(g.config.fusions[f].children) : Grounded(g, field, k, below[k]),
         g.config.fusions[f].strategy \in {"all_true", "any_true"},
         Fused(g, g.config.fusions[f], field, below).by # NoSignal,
         NEW fusion, fusion = g.config.fusions[f]
  PROVE  Rests(fusion.strategy, Fused(g, fusion, field, below).value,
               SomeSay(g, field, fusion, below), EverySay(g, field, fusion, below))
<1> DEFINE c == g.config
           D == DOMAIN c.fusions
           kids == Elems(fusion.children)
           own == SignalsOf(g, fusion.inputs)
           nested == Nested(fusion.children, below, field)
           candidates == own \o nested
           all == Elems(candidates)
           H == {s \in all : Classify(s.value, field) = "valid" /\ IsFresh(s, field)}
           inputs == Len(fusion.inputs) + Len(fusion.children)
           r == Fused(g, fusion, field, below)
           sel == Select(fusion, candidates, field)
           decided == SelectBoolean(fusion.strategy, Those(candidates, H), inputs)
           Some(v) == \/ \E b \in Elems(fusion.inputs) : SourceSays(g, field, b, v)
                      \/ \E k \in kids : ChildSays(below, k, v)
           Every(v) == /\ \A b \in Elems(fusion.inputs) : SourceSays(g, field, b, v)
                       /\ \A k \in kids : ChildSays(below, k, v)
           SomeOf(v) == \E s \in all \cap H : s.value = v
           EveryOf(v) == Len(candidates) = inputs /\ \A s \in all : s \in H /\ s.value = v
<1>1. c \in Configs /\ Accepted(c)  BY DEF Read
<1>2. /\ fusion.inputs \in Seq(Bindings) /\ fusion.children \in Seq(D)
      /\ Elems(fusion.inputs) \subseteq Bindings /\ kids \subseteq D /\ D \cap Bindings = {}
  BY <1>1, FusionsAre
<1>3. \A k \in kids : Offers(below[k]) => below[k].value \in Texts /\ below[k].by.ev \in Evidence
  BY DEF Grounded, Offers
<1>4. /\ own \in Seq(Candidates(g))
      /\ Elems(own) = {SignalOf(g, b) : b \in Elems(fusion.inputs) \cap Shown(g)}
      /\ Len(own) <= Len(fusion.inputs)
      /\ Len(own) = Len(fusion.inputs) => Elems(fusion.inputs) \subseteq Shown(g)
  BY <1>2, SignalsAre
<1>5. /\ nested \in Seq(Candidates(g))
      /\ Elems(nested) = {AsCandidate(k, below[k], field) : k \in {l \in kids : Offers(below[l])}}
      /\ Len(nested) <= Len(fusion.children)
      /\ Len(nested) = Len(fusion.children) => \A k \in kids : Offers(below[k])
  BY <1>2, <1>3, NestedAre
<1>6. candidates \in Seq(Candidates(g)) /\ all = Elems(own) \cup Elems(nested)
      /\ Len(candidates) = Len(own) + Len(nested)
  <2> HIDE DEF own, nested
  <2> QED  BY <1>4, <1>5, ElemsOfConcat
<1>7. /\ Len(own) \in Nat /\ Len(nested) \in Nat
      /\ Len(fusion.inputs) \in Nat /\ Len(fusion.children) \in Nat
  <2> HIDE DEF own, nested
  <2>1. Len(own) \in Nat  BY <1>4, LenProperties
  <2>2. Len(nested) \in Nat  BY <1>5, LenProperties
  <2>3. Len(fusion.inputs) \in Nat  BY <1>2, LenProperties
  <2>4. Len(fusion.children) \in Nat  BY <1>2, LenProperties
  <2> QED  BY <2>1, <2>2, <2>3, <2>4
<1>8. sel = decided
  <2>1. ~IsOpening(fusion) /\ fusion.strategy \notin {"first_healthy", "latest"}
    BY DEF IsOpening
  <2> QED  BY <2>1 DEF Select
<1>9. r.value = sel.value /\ (r.by # NoSignal => sel.by # NoSignal)  BY DEF Fused, Merged
<1>10. r.by # NoSignal  OBVIOUS
<1>11. \A b : SignalOf(g, b).value = g.signals[b].value  BY DEF SignalOf
<1>12. \A k : AsCandidate(k, below[k], field).value = below[k].value  BY DEF AsCandidate
<1>13. \A s \in H : s \in all /\ Healthy(s, field)  BY DEF Healthy
<1> HIDE DEF own, nested, candidates, all, H, inputs, r, sel, decided, kids, D, c
<1>a. /\ Len(own) <= Len(fusion.inputs) /\ Len(nested) <= Len(fusion.children)
      /\ Len(candidates) = Len(own) + Len(nested)
  BY <1>4, <1>5, <1>6
<1>b. /\ Len(candidates) <= inputs /\ inputs \in Nat
      /\ Len(candidates) = inputs => /\ Len(own) = Len(fusion.inputs)
                                     /\ Len(nested) = Len(fusion.children)
  <2> DEFINE a == Len(own)
             b == Len(nested)
             m == Len(fusion.inputs)
             n == Len(fusion.children)
  <2>1. a \in Nat /\ b \in Nat /\ m \in Nat /\ n \in Nat /\ a <= m /\ b <= n
    BY <1>7, <1>a
  <2>2. Len(candidates) = a + b /\ inputs = m + n  BY <1>a DEF inputs
  <2> HIDE DEF a, b, m, n
  <2>3. inputs \in Nat /\ Len(candidates) <= inputs /\ (Len(candidates) = inputs => a = m /\ b = n)
    BY <2>1, <2>2, SumsAre
  <2> QED  BY <2>3 DEF a, b, m, n
<1>14. ASSUME NEW v, SomeOf(v)  PROVE Some(v)
  <2>1. PICK s \in all \cap H : s.value = v  BY <1>14
  <2>2. CASE s \in Elems(own)
    <3>1. PICK b \in Elems(fusion.inputs) \cap Shown(g) : s = SignalOf(g, b)  BY <1>4, <2>2
    <3>2. SourceSays(g, field, b, v)  BY <1>11, <1>13, <2>1, <3>1 DEF SourceSays
    <3> QED  BY <3>1, <3>2
  <2>3. CASE s \in Elems(nested)
    <3>1. PICK k \in kids : Offers(below[k]) /\ s = AsCandidate(k, below[k], field)  BY <1>5, <2>3
    <3>2. ChildSays(below, k, v)  BY <1>12, <2>1, <3>1 DEF ChildSays
    <3> QED  BY <3>1, <3>2
  <2> QED  BY <1>6, <2>2, <2>3
<1>15. ASSUME NEW v, EveryOf(v)  PROVE Every(v)
  <2>1. Len(own) = Len(fusion.inputs) /\ Len(nested) = Len(fusion.children)
    BY <1>15, <1>b
  <2>2. ASSUME NEW b \in Elems(fusion.inputs)  PROVE SourceSays(g, field, b, v)
    <3>1. b \in Shown(g) /\ SignalOf(g, b) \in all  BY <1>4, <1>6, <2>1
    <3> QED  BY <1>11, <1>13, <1>15, <3>1 DEF SourceSays
  <2>3. ASSUME NEW k \in kids  PROVE ChildSays(below, k, v)
    <3>1. Offers(below[k]) /\ AsCandidate(k, below[k], field) \in all  BY <1>5, <1>6, <2>1
    <3> QED  BY <1>12, <1>15, <3>1 DEF ChildSays
  <2> QED  BY <2>2, <2>3
<1> DEFINE someOf == [v \in {"true", "false"} |-> SomeOf(v)]
           everyOf == [v \in {"true", "false"} |-> EveryOf(v)]
           some == [v \in {"true", "false"} |-> Some(v)]
           every == [v \in {"true", "false"} |-> Every(v)]
<1>16. Rests(fusion.strategy, decided.value, someOf, everyOf)
  <2>1. decided.by # NoSignal /\ Len(candidates) <= inputs
    BY <1>8, <1>9, <1>10, <1>b
  <2>2. SelectBoolean(fusion.strategy, Those(candidates, H), inputs).by # NoSignal
    BY <2>1 DEF decided
  <2> HIDE DEF SomeOf, EveryOf
  <2>3. Rests(fusion.strategy, decided.value,
              SomeAmong(candidates, H), EveryAmong(candidates, H, inputs))
    BY <1>6, <1>b, <2>1, <2>2, BooleanDecides DEF decided
  <2> QED  BY <2>3 DEF all, SomeOf, EveryOf, SomeAmong, EveryAmong
<1>17. \A v \in {"true", "false"} : /\ someOf[v] = SomeOf(v) /\ everyOf[v] = EveryOf(v)
                                    /\ some[v] = Some(v) /\ every[v] = Every(v)
  OBVIOUS
<1> HIDE DEF SomeOf, EveryOf, Some, Every, someOf, everyOf, some, every
<1>18. Rests(fusion.strategy, r.value, some, every)
  BY <1>8, <1>9, <1>14, <1>15, <1>16, <1>17 DEF Rests
<1> QED  BY <1>18 DEF r, some, every, Some, Every, kids, SomeSay, EverySay

(* The function by which the truth of the fusions is found.                *)
TruthBy(fusions, assignment, h) ==
  h = [f \in DOMAIN fusions |->
         TruthOf(fusions[f], assignment, [k \in Elems(fusions[f].children) |-> h[k]])]

LEMMA TruthExists ==
  ASSUME NEW fusions, NEW assignment, IsFiniteSet(DOMAIN fusions), Acyclic(fusions),
         \A f \in DOMAIN fusions : Elems(fusions[f].children) \subseteq DOMAIN fusions
  PROVE  \E h : TruthBy(fusions, assignment, h)
<1> DEFINE D == DOMAIN fusions
           kids(f) == Elems(fusions[f].children)
           body(f, h) == TruthOf(fusions[f], assignment, [k \in Elems(fusions[f].children) |-> h[k]])
           Partial(G, h) == /\ h = [f \in G |-> h[f]]
                            /\ \A f \in G : kids(f) \subseteq G /\ h[f] = body(f, h)
           Good == {G \in SUBSET D : \E h : Partial(G, h)}
<1>1. {} \in Good
  <2>1. Partial({}, [f \in {} |-> f])  OBVIOUS
  <2> HIDE DEF Partial
  <2> QED  BY <2>1
<1>2. ASSUME NEW G \in SUBSET D, G \in Good, NEW f \in D \ G, kids(f) \cap (D \ G) = {}
      PROVE  G \cup {f} \in Good
  <2>1. PICK h : Partial(G, h)  BY <1>2
  <2>2. kids(f) \subseteq G  BY <1>2
  <2> DEFINE e == [x \in G \cup {f} |-> IF x = f THEN body(f, h) ELSE h[x]]
  <2>3. \A x \in G : e[x] = h[x]  OBVIOUS
  <2>4. e[f] = body(f, h) /\ e = [x \in G \cup {f} |-> e[x]]  OBVIOUS
  <2> HIDE DEF e
  <2>5. ASSUME NEW x \in G \cup {f}  PROVE kids(x) \subseteq G /\ e[x] = body(x, h)
    BY <2>1, <2>2, <2>3, <2>4
  <2>6. ASSUME NEW x \in G \cup {f}  PROVE body(x, e) = body(x, h)
    <3>1. \A k \in kids(x) : e[k] = h[k]  BY <2>3, <2>5
    <3>2. [k \in kids(x) |-> e[k]] = [k \in kids(x) |-> h[k]]  BY <3>1
    <3> QED  BY <3>2
  <2> HIDE DEF body, kids
  <2>7. Partial(G \cup {f}, e)  BY <2>4, <2>5, <2>6
  <2> HIDE DEF Partial
  <2> QED  BY <2>7
<1> HIDE DEF Good
<1>3. D \in Good  BY <1>1, <1>2, FusionByFusion
<1>4. PICK h : Partial(D, h)  BY <1>3 DEF Good
<1>5. h = [f \in D |-> body(f, h)]
  <2>1. h = [f \in D |-> h[f]] /\ \A f \in D : h[f] = body(f, h)  BY <1>4
  <2> HIDE DEF body
  <2> QED  BY <2>1
<1>6. TruthBy(fusions, assignment, h)  BY <1>5 DEF TruthBy
<1> QED  BY <1>6

LEMMA TruthFollows ==
  ASSUME Read(graph), NEW assignment, NEW f \in DOMAIN graph.config.fusions
  PROVE  Truth(f, assignment)
           = TruthOf(graph.config.fusions[f], assignment,
                     [k \in Elems(graph.config.fusions[f].children) |-> Truth(k, assignment)])
<1> DEFINE fusions == graph.config.fusions
           h == CHOOSE p : TruthBy(fusions, assignment, p)
           kids == Elems(fusions[f].children)
<1>1. TruthBy(fusions, assignment, h)
  <2>1. \E p : TruthBy(fusions, assignment, p)
    <3>1. /\ IsFiniteSet(DOMAIN fusions) /\ Acyclic(fusions)
          /\ \A k \in DOMAIN fusions : Elems(fusions[k].children) \subseteq DOMAIN fusions
      BY FusionsAre DEF Read
    <3> HIDE DEF fusions
    <3> QED  BY <3>1, TruthExists
  <2> QED  BY <2>1
<1>2. ASSUME NEW k  PROVE Truth(k, assignment) = h[k]  BY DEF Truth, TruthBy
<1> HIDE DEF h
<1>3. h[f] = TruthOf(fusions[f], assignment, [k \in kids |-> h[k]])
  BY <1>1 DEF TruthBy
<1>4. [k \in kids |-> h[k]] = [k \in kids |-> Truth(k, assignment)]  BY <1>2
<1> QED  BY <1>2, <1>3, <1>4

(* A reader of the graph knows these sources, and an assignment to the     *)
(* sources in L agrees with what it knows.                                 *)
Known(b, field) == Proven(b, field) /\ graph.signals[b].value \in {"true", "false"}

AgreesOn(L, field, assignment) ==
  /\ assignment \in [L -> BOOLEAN]
  /\ \A b \in L : Known(b, field) => assignment[b] = (graph.signals[b].value = "true")

(* If a fusion decides, it decides what the assignment makes true.         *)
Forced(f, field, assignment) ==
  LET r == Selection(graph, f, field)
  IN  r.by # NoSignal => Truth(f, assignment) = (r.value = "true")

LEMMA NoMember ==
  ASSUME NEW S, NEW x, x \notin S
  PROVE  (x \in S) = FALSE
  OBVIOUS

LEMMA FusedIsForced ==
  ASSUME Read(graph), NEW field, field.ttl \in Nat, NEW L, NEW assignment,
         AgreesOn(L, field, assignment),
         NEW f \in DOMAIN graph.config.fusions,
         graph.config.fusions[f].strategy \in {"all_true", "any_true"},
         Elems(Leaves(graph.config, f)) \subseteq L,
         \A k \in Elems(graph.config.fusions[f].children) : Forced(k, field, assignment)
  PROVE  Forced(f, field, assignment)
<1> DEFINE fusion == graph.config.fusions[f]
           kids == Elems(fusion.children)
           inputs == Elems(fusion.inputs)
           below == [k \in kids |-> Selection(graph, k, field)]
           truths == [k \in kids |-> Truth(k, assignment)]
           r == Selection(graph, f, field)
           told == {assignment[b] : b \in inputs} \cup {truths[k] : k \in kids}
           Some(v) == \/ \E b \in inputs : SourceSays(graph, field, b, v)
                      \/ \E k \in kids : ChildSays(below, k, v)
           Every(v) == /\ \A b \in inputs : SourceSays(graph, field, b, v)
                       /\ \A k \in kids : ChildSays(below, k, v)
           some == [v \in {"true", "false"} |-> Some(v)]
           every == [v \in {"true", "false"} |-> Every(v)]
<1>1. graph.config \in Configs /\ Accepted(graph.config)  BY DEF Read
<1>2. /\ kids \subseteq DOMAIN graph.config.fusions /\ inputs \subseteq L
      /\ inputs \subseteq Bindings
  BY <1>1, FusionsAre, LeavesAre
<1>3. r = Fused(graph, fusion, field, below)  BY SelectionFollows
<1>4. Truth(f, assignment) = IF fusion.strategy = "all_true" THEN FALSE \notin told ELSE TRUE \in told
  <2>1. Truth(f, assignment) = TruthOf(fusion, assignment, truths)  BY TruthFollows
  <2> HIDE DEF truths
  <2> QED  BY <2>1 DEF TruthOf
<1>5. \A k \in kids : below[k] = Selection(graph, k, field) /\ truths[k] = Truth(k, assignment)
  OBVIOUS
<1>6. SUFFICES ASSUME r.by # NoSignal  PROVE Truth(f, assignment) = (r.value = "true")
  BY DEF Forced
<1>7. Rests(fusion.strategy, r.value, some, every)
  <2>1. \A k \in kids : Grounded(graph, field, k, Selection(graph, k, field))
    BY <1>2, SelectionIsGrounded
  <2>2. \A k \in kids : Grounded(graph, field, k, below[k])  BY <1>5, <2>1
  <2> HIDE DEF below
  <2>3. Fused(graph, fusion, field, below).by # NoSignal  BY <1>3, <1>6
  <2>4. Rests(fusion.strategy, Fused(graph, fusion, field, below).value,
              SomeSay(graph, field, fusion, below), EverySay(graph, field, fusion, below))
    BY <2>2, <2>3, FusedRests
  <2> QED  BY <1>3, <2>4 DEF SomeSay, EverySay
<1>8. \A v \in {"true", "false"} : some[v] = Some(v) /\ every[v] = Every(v)  OBVIOUS
<1> HIDE DEF some, every, below, truths, r
<1>9. ASSUME NEW v \in {"true", "false"}, NEW b \in inputs, SourceSays(graph, field, b, v)
      PROVE  assignment[b] = (v = "true")
  <2>1. b \in Shown(graph) /\ IsFresh(SignalOf(graph, b), field) /\ graph.signals[b].value = v
    BY <1>9 DEF SourceSays, Healthy
  <2>2. Proven(b, field)  BY <2>1, FreshIsProven
  <2> QED  BY <1>2, <1>9, <2>1, <2>2 DEF AgreesOn, Known
<1>10. ASSUME NEW v \in {"true", "false"}, NEW k \in kids, ChildSays(below, k, v)
       PROVE  truths[k] = (v = "true")
  <2>1. below[k].by # NoSignal /\ below[k].value = v  BY <1>10 DEF ChildSays, Offers
  <2> QED  BY <1>5, <1>10, <2>1 DEF Forced
<1> HIDE DEF inputs, kids, told
<1>11. ASSUME NEW v \in {"true", "false"}, Some(v)  PROVE (v = "true") \in told
  <2>1. CASE \E b \in inputs : SourceSays(graph, field, b, v)
    <3>1. PICK b \in inputs : SourceSays(graph, field, b, v)  BY <2>1
    <3>2. assignment[b] = (v = "true")  BY <1>9, <3>1
    <3> QED  BY <3>2 DEF told
  <2>2. CASE \E k \in kids : ChildSays(below, k, v)
    <3>1. PICK k \in kids : ChildSays(below, k, v)  BY <2>2
    <3>2. truths[k] = (v = "true")  BY <1>10, <3>1
    <3> QED  BY <3>2 DEF told
  <2> QED  BY <1>11, <2>1, <2>2
<1>12. ASSUME NEW v \in {"true", "false"}, Every(v)  PROVE told \subseteq {v = "true"}
  BY <1>9, <1>10, <1>12 DEF told
<1> HIDE DEF Some, Every
<1>13. CASE r.value = "true"
  <2>1. IF fusion.strategy = "all_true" THEN Every("true") ELSE Some("true")
    BY <1>7, <1>8, <1>13 DEF Rests
  <2>2. fusion.strategy = "all_true" => FALSE \notin told  BY <1>12, <2>1
  <2>3. fusion.strategy # "all_true" => TRUE \in told
    <3>1. ("true" = "true") = TRUE  OBVIOUS
    <3> QED  BY <1>11, <2>1, <3>1
  <2> QED  BY <1>4, <1>13, <2>2, <2>3
<1>14. CASE r.value = "false"
  <2>1. IF fusion.strategy = "all_true" THEN Some("false") ELSE Every("false")
    BY <1>7, <1>8, <1>14 DEF Rests
  <2>2. fusion.strategy = "all_true" => FALSE \in told
    <3>1. ("false" = "true") = FALSE  OBVIOUS
    <3> QED  BY <1>11, <2>1, <3>1
  <2>3. fusion.strategy # "all_true" => TRUE \notin told
    <3>1. ("false" = "true") = FALSE  OBVIOUS
    <3> QED  BY <1>12, <2>1, <3>1
  <2>4. (r.value = "true") = FALSE  BY <1>14
  <2>5. Truth(f, assignment) = FALSE
    <3>1. CASE fusion.strategy = "all_true"
      <4>1. (FALSE \notin told) = FALSE  BY <2>2, <3>1
      <4>2. Truth(f, assignment) = (FALSE \notin told)  BY <1>4, <3>1
      <4> QED  BY <4>1, <4>2
    <3>2. CASE fusion.strategy # "all_true"
      <4>1. (TRUE \in told) = FALSE
        <5>1. TRUE \notin told  BY <2>3, <3>2
        <5> QED  BY <5>1, NoMember
      <4>2. Truth(f, assignment) = (TRUE \in told)  BY <1>4, <3>2
      <4> QED  BY <4>1, <4>2
    <3> QED  BY <3>1, <3>2
  <2> QED  BY <2>4, <2>5
<1> QED  BY <1>7, <1>13, <1>14 DEF Rests

LEMMA SelectionIsForced ==
  ASSUME Read(graph), NEW field, field.ttl \in Nat, NEW L, NEW assignment,
         AgreesOn(L, field, assignment),
         \A k \in DOMAIN graph.config.fusions :
           graph.config.fusions[k].strategy \in {"all_true", "any_true"}
  PROVE  \A f \in DOMAIN graph.config.fusions :
           Elems(Leaves(graph.config, f)) \subseteq L => Forced(f, field, assignment)
<1> DEFINE fusions == graph.config.fusions
           Below(f) == Elems(Leaves(graph.config, f))
           Good == {f \in DOMAIN fusions : Below(f) \subseteq L => Forced(f, field, assignment)}
<1>1. /\ Acyclic(fusions)
      /\ \A f \in DOMAIN fusions : Elems(fusions[f].children) \subseteq DOMAIN fusions
  BY FusionsAre DEF Read
<1>2. \A f \in DOMAIN fusions : \A k \in Elems(fusions[f].children) : Below(k) \subseteq Below(f)
  BY LeavesAre DEF Read
<1>3. ASSUME NEW f \in DOMAIN fusions, \A k \in Elems(fusions[f].children) : k \in Good
      PROVE  f \in Good
  <2> SUFFICES ASSUME Below(f) \subseteq L  PROVE Forced(f, field, assignment)
    OBVIOUS
  <2>1. \A k \in Elems(fusions[f].children) : Forced(k, field, assignment)  BY <1>2, <1>3
  <2> QED  BY <2>1, FusedIsForced
<1> HIDE DEF Good, fusions
<1>4. \A f \in DOMAIN fusions : f \in Good  BY <1>1, <1>3, OverFusions
<1> QED  BY <1>4 DEF Good, fusions

(* No two fusions serve one field.                                         *)
LEMMA OneFusionForField ==
  ASSUME NEW g, Read(g), NEW n, NEW f \in FusionsFor(g, n)
  PROVE  f = FusionOf(g, n) /\ FusionsFor(g, n) # {} /\ f \in DOMAIN g.config.fusions
<1> DEFINE h == FusionOf(g, n)
<1>1. h \in FusionsFor(g, n)  BY DEF FusionOf
<1>2. FusionsFit(g.config)  BY DEF Read, Accepted
<1> HIDE DEF h
<1>3. /\ f \in DOMAIN g.config.fusions /\ h \in DOMAIN g.config.fusions
      /\ g.config.fusions[f].contract = g.config.fusions[h].contract
      /\ g.config.fusions[f].field = g.config.fusions[h].field
  BY <1>1 DEF FusionsFor
<1>4. f = h  BY <1>2, <1>3 DEF FusionsFit
<1> QED  BY <1>3, <1>4 DEF h

(* A valid field has what its fusion decided.                              *)
LEMMA ValidIsDecided ==
  ASSUME NEW g, Read(g), NEW n \in Fields(g), Evaluated(g, n).state = "valid"
  PROVE  /\ Usable(Decision(g, n), FieldSchema(g, n)) /\ Decision(g, n).by # NoSignal
         /\ Evaluated(g, n) = Claimed(Decision(g, n), FieldSchema(g, n))
         /\ Evaluated(g, n).value = Decision(g, n).value
         /\ Evaluated(g, n).active = Decision(g, n).active
         /\ FusionsFor(g, n) # {} /\ Decision(g, n) = Selection(g, FusionOf(g, n), FieldSchema(g, n))
<1>1. /\ Usable(Decision(g, n), FieldSchema(g, n))
      /\ Evaluated(g, n) = Claimed(Decision(g, n), FieldSchema(g, n))
  BY EvaluatedFrom, FallsBackUnhealthy
<1>2. Decision(g, n).by # NoSignal  BY <1>1 DEF Usable
<1>3. FusionsFor(g, n) # {}  BY <1>2, DecisionIsGrounded
<1>4. Decision(g, n) = Selection(g, FusionOf(g, n), FieldSchema(g, n))  BY <1>3 DEF Decision
<1> QED  BY <1>1, <1>2, <1>3, <1>4, ClaimedIs

LEMMA ReadGraphForces ==
  ASSUME Read(graph)
  PROVE  DecisionsAreForced
<1> SUFFICES ASSUME NEW n \in Fields(graph), NEW f \in FusionsFor(graph, n),
                    Evaluated(graph, n).state = "valid",
                    \A k \in DOMAIN graph.config.fusions :
                      graph.config.fusions[k].strategy \in {"all_true", "any_true"},
                    NEW assignment \in [LeavesOf(n) -> BOOLEAN],
                    \A b \in LeavesOf(n) : Known(b, FieldSchema(graph, n)) =>
                      assignment[b] = (graph.signals[b].value = "true")
             PROVE  Truth(f, assignment) = (Evaluated(graph, n).value = "true")
  BY DEF DecisionsAreForced, Known
<1> DEFINE field == FieldSchema(graph, n)
           r == Selection(graph, f, field)
<1>1. f = FusionOf(graph, n) /\ f \in DOMAIN graph.config.fusions  BY OneFusionForField
<1>2. Evaluated(graph, n).value = r.value /\ r.by # NoSignal  BY <1>1, ValidIsDecided
<1>3. field.ttl \in Nat  BY FieldIsOfSchema DEF Read
<1>4. LeavesOf(n) = Elems(Leaves(graph.config, f))  BY <1>1 DEF LeavesOf, FusionOf
<1>5. AgreesOn(LeavesOf(n), field, assignment)  BY DEF AgreesOn
<1> HIDE DEF field
<1>6. Forced(f, field, assignment)  BY <1>1, <1>3, <1>4, <1>5, SelectionIsForced
<1> QED  BY <1>2, <1>6 DEF Forced

(* The policy that applies to a field, its own or that of its inputs, is   *)
(* one the schema allows.                                                  *)
LEMMA PolicyAllowed ==
  ASSUME NEW g, g.config \in Configs, Accepted(g.config), NEW n \in Fields(g)
  PROVE  FallbackAllowed(FieldSchema(g, n))
<1>1. g.config.schema \in DOMAIN Schemas  BY GraphConstants
<1>2. CASE FusionsFor(g, n) = {}
  BY <1>1, <1>2, SchemasAllowed DEF FieldSchema, Fields
<1>3. CASE FusionsFor(g, n) # {}
  <2> DEFINE f == CHOOSE k \in FusionsFor(g, n) : TRUE
  <2>1. f \in FusionsFor(g, n)  BY <1>3
  <2>2. f \in DOMAIN g.config.fusions /\ g.config.fusions[f].contract = Contract
        /\ g.config.fusions[f].field = n
    BY <2>1 DEF FusionsFor
  <2>3. FieldSchema(g, n) = Overridden(g.config, g.config.fusions[f], Schemas[g.config.schema][n])
    BY <1>3 DEF FieldSchema
  <2> HIDE DEF f
  <2>4. FallbackAllowed(Overridden(g.config, g.config.fusions[f], Schemas[g.config.schema][n]))
    BY <2>2 DEF Accepted
  <2> QED  BY <2>3, <2>4
<1> QED  BY <1>2, <1>3

-----------------------------------------------------------------------------
(* What two contacts decide.                                               *)

ValuesOf(contacts) == Elems([i \in 1..Len(contacts) |-> contacts[i].value])

(* Both contacts are there, current, and do not contradict each other.     *)
Settled(fusion, contacts, field) ==
  /\ Len(contacts) = 2 /\ Len(contacts) = Len(fusion.inputs)
  /\ ValuesOf(contacts) \subseteq {"true", "false"} /\ ValuesOf(contacts) # {"true"}
  /\ ContactsFresh(contacts, field)

OpeningOutcome(fusion, contacts, field) ==
  LET r == SelectOpening(fusion, contacts, field)
      first == contacts[1]
      ids == {s.id : s \in Elems(contacts)}
  IN  /\ fusion.strategy \in {"opening_contacts", "opening_is_open"} =>
           /\ Settled(fusion, contacts, field) =>
                \E value : /\ r = Decided(value, first, ids, TRUE, FALSE)
                           /\ fusion.strategy = "opening_is_open" => value = first.value
                           /\ fusion.strategy = "opening_contacts" =>
                                (value = "open" <=> first.value = "true")
           /\ ~Settled(fusion, contacts, field) => r.by = NoSignal
      /\ fusion.strategy = "opening_available" /\ Len(fusion.inputs) = 2 =>
           /\ Settled(fusion, contacts, field) => r = Decided("true", first, ids, TRUE, FALSE)
           /\ ~Settled(fusion, contacts, field) => r.value # "true"

LEMMA OpeningDecides ==
  ASSUME NEW contacts, NEW fusion, NEW field, Len(fusion.inputs) \in Nat
  PROVE  OpeningOutcome(fusion, contacts, field)
<1> DEFINE values == [i \in 1..Len(contacts) |-> contacts[i].value]
           whole  == Len(contacts) = Len(fusion.inputs)
           valid  == whole /\ Elems(values) \subseteq {"true", "false"}
           fresh  == valid /\ ContactsFresh(contacts, field)
           both   == fresh /\ Elems(values) = {"true"}
           ids    == {s.id : s \in Elems(contacts)}
           first  == contacts[1]
           r == SelectOpening(fusion, contacts, field)
           Claim(value, complete) ==
             Decided(value, first, IF complete THEN ids ELSE {}, complete, FALSE)
           settled == Settled(fusion, contacts, field)
<1>1. settled <=> Len(contacts) = 2 /\ fresh /\ ~both  BY DEF Settled, ValuesOf
<1>2. fresh \in BOOLEAN  OBVIOUS
<1>3. Len(contacts) = 2 => values[1] = first.value  OBVIOUS
<1>4. fusion.strategy \in {"opening_contacts", "opening_is_open"} =>
        r = CASE ~fresh \/ Len(contacts) # 2 -> Undecided("unknown")
              [] Len(contacts) = 2 /\ both -> [Undecided("unknown") EXCEPT !.conflict = TRUE]
              [] OTHER -> Claim(IF fusion.strategy = "opening_is_open" THEN values[1]
                                ELSE IF values[1] = "true" THEN "open"
                                ELSE IF values[2] = "true" THEN "tilted" ELSE "closed", TRUE)
  <2> SUFFICES ASSUME fusion.strategy \in {"opening_contacts", "opening_is_open"}
               PROVE  r = CASE ~fresh \/ Len(contacts) # 2 -> Undecided("unknown")
              [] Len(contacts) = 2 /\ both -> [Undecided("unknown") EXCEPT !.conflict = TRUE]
              [] OTHER -> Claim(IF fusion.strategy = "opening_is_open" THEN values[1]
                                ELSE IF values[1] = "true" THEN "open"
                                ELSE IF values[2] = "true" THEN "tilted" ELSE "closed", TRUE)
    OBVIOUS
  <2>1. fusion.strategy # "opening_source_count" /\ fusion.strategy # "opening_available"  OBVIOUS
  <2> QED  BY <2>1, Zenon DEF SelectOpening
<1>5. fusion.strategy = "opening_available" =>
        r = CASE ~valid \/ contacts = <<>> -> Undecided("unavailable")
              [] contacts # <<>> /\ both -> [Claim("false", FALSE) EXCEPT !.conflict = TRUE]
              [] OTHER -> Claim(IF fresh THEN "true" ELSE "false", fresh)
  <2> SUFFICES ASSUME fusion.strategy = "opening_available"
               PROVE  r = CASE ~valid \/ contacts = <<>> -> Undecided("unavailable")
              [] contacts # <<>> /\ both -> [Claim("false", FALSE) EXCEPT !.conflict = TRUE]
              [] OTHER -> Claim(IF fresh THEN "true" ELSE "false", fresh)
    OBVIOUS
  <2>1. fusion.strategy # "opening_source_count"  OBVIOUS
  <2> QED  BY <2>1, Zenon DEF SelectOpening
<1>6. /\ Undecided("unknown").by = NoSignal
      /\ [Undecided("unknown") EXCEPT !.conflict = TRUE].by = NoSignal
      /\ Undecided("unavailable").value = "none"
      /\ [Claim("false", FALSE) EXCEPT !.conflict = TRUE].value = "false"
      /\ Claim("false", FALSE).value = "false"
      /\ \A value : Claim(value, TRUE) = Decided(value, first, ids, TRUE, FALSE)
  <2> HIDE DEF ids, first
  <2> QED  BY DEF Undecided, Decided
<1>7. ~fresh => ~both  OBVIOUS
<1>8. Len(contacts) = 2 => contacts # <<>>  BY EmptySeq
<1>9. ~valid => ~fresh  OBVIOUS
<1> HIDE DEF values, whole, valid, fresh, both, first, Claim, r, settled, ids
<1>10. ASSUME fusion.strategy \in {"opening_contacts", "opening_is_open"}, settled
       PROVE  \E value : /\ r = Decided(value, first, ids, TRUE, FALSE)
                         /\ fusion.strategy = "opening_is_open" => value = first.value
                         /\ fusion.strategy = "opening_contacts" =>
                              (value = "open" <=> first.value = "true")
  <2> DEFINE value == IF fusion.strategy = "opening_is_open" THEN values[1]
                      ELSE IF values[1] = "true" THEN "open"
                      ELSE IF values[2] = "true" THEN "tilted" ELSE "closed"
  <2>1. r = Claim(value, TRUE)  BY <1>1, <1>4, <1>10
  <2>2. /\ fusion.strategy = "opening_is_open" => value = first.value
        /\ fusion.strategy = "opening_contacts" => (value = "open" <=> first.value = "true")
    BY <1>1, <1>3, <1>10
  <2> HIDE DEF value
  <2> QED  BY <1>6, <2>1, <2>2
<1>11. ASSUME fusion.strategy \in {"opening_contacts", "opening_is_open"}, ~settled
       PROVE  r.by = NoSignal
  <2>1. CASE ~fresh \/ Len(contacts) # 2
    <3>1. r = Undecided("unknown")  BY <1>4, <1>7, <1>11, <2>1
    <3> QED  BY <1>6, <3>1
  <2>2. CASE fresh /\ Len(contacts) = 2
    <3>1. r = [Undecided("unknown") EXCEPT !.conflict = TRUE]
      <4>1. both  BY <1>1, <1>11, <2>2
      <4> QED  BY <1>4, <1>11, <2>2, <4>1
    <3> QED  BY <1>6, <3>1
  <2> QED  BY <2>1, <2>2
<1>12. ASSUME fusion.strategy = "opening_available", settled
       PROVE  r = Decided("true", first, ids, TRUE, FALSE)
  <2>1. valid /\ contacts # <<>> /\ fresh /\ ~both  BY <1>1, <1>8, <1>9, <1>12
  <2>2. r = Claim(IF fresh THEN "true" ELSE "false", fresh)  BY <1>5, <1>12, <2>1
  <2>3. fresh = TRUE  BY <1>2, <2>1
  <2>4. r = Claim("true", TRUE)  BY <2>2, <2>3
  <2> QED  BY <1>6, <2>4
<1>13. ASSUME fusion.strategy = "opening_available", Len(fusion.inputs) = 2, ~settled
       PROVE  r.value # "true"
  <2>1. CASE ~valid \/ contacts = <<>>
    <3>1. r = Undecided("unavailable") \/ r = [Claim("false", FALSE) EXCEPT !.conflict = TRUE]
      BY <1>5, <1>7, <1>9, <1>13, <2>1
    <3> QED  BY <1>6, <3>1
  <2>2. CASE valid /\ contacts # <<>> /\ both
    <3>1. r = [Claim("false", FALSE) EXCEPT !.conflict = TRUE]  BY <1>5, <1>13, <2>2
    <3> QED  BY <1>6, <3>1
  <2>3. CASE valid /\ contacts # <<>> /\ ~both
    <3>1. ~fresh  BY <1>1, <1>13, <2>3 DEF valid, whole
    <3>2. r = Claim(IF fresh THEN "true" ELSE "false", fresh)  BY <1>5, <1>13, <2>3
    <3>3. fresh = FALSE  BY <1>2, <3>1
    <3>4. r = Claim("false", FALSE)  BY <3>2, <3>3
    <3> QED  BY <1>6, <3>4
  <2> QED  BY <2>1, <2>2, <2>3
<1>14. /\ fusion.strategy \in {"opening_contacts", "opening_is_open"} =>
            /\ settled =>
                 \E value : /\ r = Decided(value, first, ids, TRUE, FALSE)
                            /\ fusion.strategy = "opening_is_open" => value = first.value
                            /\ fusion.strategy = "opening_contacts" =>
                                 (value = "open" <=> first.value = "true")
            /\ ~settled => r.by = NoSignal
       /\ fusion.strategy = "opening_available" /\ Len(fusion.inputs) = 2 =>
            /\ settled => r = Decided("true", first, ids, TRUE, FALSE)
            /\ ~settled => r.value # "true"
  BY <1>10, <1>11, <1>12, <1>13
<1> QED  BY <1>14, Zenon DEF r, first, ids, settled, OpeningOutcome

(* A fusion of contacts reads nothing but its own sources.                 *)
LEMMA OpeningReads ==
  ASSUME NEW g, Read(g), NEW field, field.ttl \in Nat, NEW f \in DOMAIN g.config.fusions,
         IsOpening(g.config.fusions[f])
  PROVE  LET fusion == g.config.fusions[f]
             sel == SelectOpening(fusion, SignalsOf(g, fusion.inputs), field)
             r == Selection(g, f, field)
         IN  /\ r.value = sel.value /\ r.state = sel.state /\ r.by = sel.by
             /\ r.active = UNION {{k} : k \in sel.active}
             /\ r.conflict = (sel.conflict \/ FALSE)
             /\ r.complete = (sel.complete /\ TRUE)
             /\ Leaves(g.config, f) \in Seq(Bindings)
             /\ Elems(Leaves(g.config, f)) = Elems(fusion.inputs)
             /\ fusion.inputs \in Seq(Bindings)
<1> DEFINE c == g.config
           D == DOMAIN c.fusions
           fusion == c.fusions[f]
           kids == Elems(fusion.children)
           own == SignalsOf(g, fusion.inputs)
           below == [k \in kids |-> Selection(g, k, field)]
           nested == Nested(fusion.children, below, field)
           r == Selection(g, f, field)
<1>1. c \in Configs /\ Accepted(c)  BY DEF Read
<1>2. fusion.children = <<>> /\ fusion.inputs \in Seq(Bindings) /\ <<>> \in Seq(D) /\ Len(<<>>) = 0
  BY <1>1, FusionsAre, EmptySeq
<1>3. kids = {}  BY <1>2 DEF Elems
<1>4. nested = <<>>
  <2>1. /\ nested \in Seq(Candidates(g)) /\ Len(nested) <= Len(fusion.children)
    <3>1. \A k \in kids : Offers(below[k]) => below[k].value \in Texts /\ below[k].by.ev \in Evidence
      BY <1>3
    <3> HIDE DEF below
    <3> QED  BY <1>2, <3>1, NestedAre
  <2> HIDE DEF nested
  <2>2. Len(nested) = 0  BY <1>2, <2>1, LenProperties
  <2> QED  BY <2>1, <2>2, EmptySeq
<1>5. own \o nested = own
  <2>1. own \in Seq(Candidates(g))  BY <1>2, SignalsAre
  <2> HIDE DEF own
  <2> QED  BY <1>4, <2>1, ConcatEmptySeq
<1>6. r = Fused(g, fusion, field, below)  BY SelectionFollows
<1>7. Select(fusion, own, field) = SelectOpening(fusion, own, field)  BY DEF Select
<1> DEFINE sel == SelectOpening(fusion, own, field)
<1> HIDE DEF own, below, sel, fusion
<1>8. /\ r.value = sel.value /\ r.state = sel.state
      /\ r.by = IF sel.by # NoSignal /\ sel.by.id \in kids THEN below[sel.by.id].by ELSE sel.by
      /\ r.active = UNION {IF k \in kids THEN below[k].active ELSE {k} : k \in sel.active}
      /\ r.conflict = (sel.conflict \/ \E k \in kids : below[k].conflict)
      /\ r.complete = (sel.complete /\ \A k \in kids : below[k].complete)
  <2> DEFINE t == Select(fusion, own \o nested, field)
  <2>1. t = sel  BY <1>5, <1>7 DEF sel
  <2>2. LET u == Fused(g, fusion, field, below)
        IN  /\ u.value = t.value /\ u.state = t.state
            /\ u.by = IF t.by # NoSignal /\ t.by.id \in kids THEN below[t.by.id].by ELSE t.by
            /\ u.active = UNION {IF k \in kids THEN below[k].active ELSE {k} : k \in t.active}
            /\ u.conflict = (t.conflict \/ \E k \in kids : below[k].conflict)
            /\ u.complete = (t.complete /\ \A k \in kids : below[k].complete)
    BY DEF Fused, Merged, own
  <2> HIDE DEF r, t, kids
  <2> QED  BY <1>6, <2>1, <2>2
<1>9. Elems(Leaves(c, f)) = Elems(fusion.inputs) /\ Leaves(c, f) \in Seq(Bindings)
  <2>1. UNION {Elems(Leaves(c, k)) : k \in kids} = {}  BY <1>3
  <2>2. /\ Leaves(c, f) \in Seq(Bindings)
        /\ Elems(Leaves(c, f)) = Elems(fusion.inputs) \cup UNION {Elems(Leaves(c, k)) : k \in kids}
    BY <1>1, LeavesAre DEF fusion
  <2> QED  BY <2>1, <2>2
<1>10. UNION {IF k \in kids THEN below[k].active ELSE {k} : k \in sel.active}
         = UNION {{k} : k \in sel.active}
  BY <1>3
<1>11. /\ r.by = sel.by /\ r.conflict = (sel.conflict \/ FALSE)
       /\ r.complete = (sel.complete /\ TRUE)
  BY <1>3, <1>8
<1> QED  BY <1>2, <1>8, <1>9, <1>10, <1>11 DEF fusion, own, sel

(* The contacts of a field.                                                *)
ContactsOf(g, n) == SignalsOf(g, g.config.fusions[FusionOf(g, n)].inputs)

SettledFor(g, n) ==
  /\ Settled(g.config.fusions[FusionOf(g, n)], ContactsOf(g, n), FieldSchema(g, n))
  /\ ContactsOf(g, n)[1] # NoSignal

(* A field that contacts decide has a valid value exactly if they settle it. *)
LEMMA ContactsDecideField ==
  ASSUME NEW g, Read(g), NEW n \in Fields(g), FusionsFor(g, n) # {},
         g.config.fusions[FusionOf(g, n)].strategy \in {"opening_contacts", "opening_is_open"}
  PROVE  LET e == Evaluated(g, n)
             strategy == g.config.fusions[FusionOf(g, n)].strategy
             contacts == ContactsOf(g, n)
         IN  /\ e.state = "valid" <=> SettledFor(g, n)
             /\ e.state = "valid" =>
                  /\ e.active = {s.id : s \in Elems(contacts)}
                  /\ strategy = "opening_is_open" => e.value = contacts[1].value
                  /\ strategy = "opening_contacts" =>
                       (e.value = "open" <=> contacts[1].value = "true")
<1> DEFINE f == FusionOf(g, n)
           fusion == g.config.fusions[f]
           field == FieldSchema(g, n)
           contacts == SignalsOf(g, fusion.inputs)
           first == contacts[1]
           ids == {s.id : s \in Elems(contacts)}
           sel == SelectOpening(fusion, contacts, field)
           d == Decision(g, n)
           e == Evaluated(g, n)
           settled == Settled(fusion, contacts, field)
           Tells(value) ==
             /\ fusion.strategy = "opening_is_open" => value = first.value
             /\ fusion.strategy = "opening_contacts" => (value = "open" <=> first.value = "true")
<1>1. f \in DOMAIN g.config.fusions /\ IsOpening(fusion) /\ field.ttl \in Nat
  BY FusionOfField, FieldIsOfSchema DEF IsOpening, Read
<1>2. d = Selection(g, f, field)  BY DEF Decision
<1>3. /\ d.value = sel.value /\ d.state = sel.state /\ d.by = sel.by
      /\ d.active = UNION {{k} : k \in sel.active} /\ d.conflict = (sel.conflict \/ FALSE)
      /\ fusion.inputs \in Seq(Bindings)
  BY <1>1, <1>2, OpeningReads
<1>4. /\ settled => \E value : sel = Decided(value, first, ids, TRUE, FALSE) /\ Tells(value)
      /\ ~settled => sel.by = NoSignal
  <2>1. Len(fusion.inputs) \in Nat  BY <1>3, LenProperties
  <2> HIDE DEF contacts, fusion, field
  <2>2. OpeningOutcome(fusion, contacts, field)  BY <2>1, OpeningDecides
  <2>3. fusion.strategy \in {"opening_contacts", "opening_is_open"}  BY DEF fusion, f
  <2> QED  BY <2>2, <2>3, Zenon DEF OpeningOutcome, settled, sel, first, ids, Tells
<1>5. e.state = "valid" => /\ Usable(d, field) /\ d.by # NoSignal
                           /\ e.value = d.value /\ e.active = d.active
  BY ValidIsDecided
<1>6. Usable(d, field) => e.state = "valid"  BY EvaluatedFrom, ClaimedIs
<1>7. SettledFor(g, n) <=> settled /\ first # NoSignal  BY DEF SettledFor, ContactsOf
<1> HIDE DEF f, fusion, field, contacts, first, ids, sel, d, e, settled, Tells
<1>8. ASSUME settled
      PROVE  \E value : /\ sel.value = value /\ sel.by = first /\ sel.active = ids
                        /\ sel.state = "valid" /\ sel.conflict = FALSE /\ Tells(value)
  <2>1. PICK value : sel = Decided(value, first, ids, TRUE, FALSE) /\ Tells(value)
    BY <1>4, <1>8
  <2> QED  BY <2>1 DEF Decided
<1>9. e.state = "valid" => settled /\ first # NoSignal  BY <1>3, <1>4, <1>5, <1>8
<1>10. settled /\ first # NoSignal => e.state = "valid"
  <2> SUFFICES ASSUME settled, first # NoSignal  PROVE Usable(d, field)
    BY <1>6
  <2>1. d.by = first /\ d.state = "valid" /\ d.conflict = FALSE  BY <1>3, <1>8
  <2> QED  BY <2>1 DEF Usable
<1>11. ASSUME e.state = "valid"  PROVE e.active = ids /\ Tells(e.value)
  <2>1. settled /\ e.value = d.value /\ e.active = d.active  BY <1>5, <1>9, <1>11
  <2>2. sel.active = ids /\ Tells(sel.value)  BY <1>8, <2>1
  <2>3. UNION {{k} : k \in ids} = ids  OBVIOUS
  <2> QED  BY <1>3, <2>1, <2>2, <2>3
<1>12. (e.state = "valid") <=> SettledFor(g, n)  BY <1>7, <1>9, <1>10
<1> QED  BY <1>11, <1>12 DEF e, ids, contacts, first, fusion, f, Tells, ContactsOf

(* An opening is available exactly if its contacts settle it.              *)
LEMMA ContactsDecideAvailability ==
  ASSUME NEW g, Read(g), NEW n \in Fields(g), FusionsFor(g, n) # {},
         g.config.fusions[FusionOf(g, n)].strategy = "opening_available",
         Len(g.config.fusions[FusionOf(g, n)].inputs) = 2,
         FieldSchema(g, n).fallback # "hold_last", FieldSchema(g, n).safeDefault # "true"
  PROVE  Evaluated(g, n).value = "true" <=> SettledFor(g, n)
<1> DEFINE f == FusionOf(g, n)
           fusion == g.config.fusions[f]
           field == FieldSchema(g, n)
           contacts == SignalsOf(g, fusion.inputs)
           first == contacts[1]
           ids == {s.id : s \in Elems(contacts)}
           sel == SelectOpening(fusion, contacts, field)
           d == Decision(g, n)
           e == Evaluated(g, n)
           held == g.held[n]
           behind == Behind(g, n)
           settled == Settled(fusion, contacts, field)
<1>1. f \in DOMAIN g.config.fusions /\ IsOpening(fusion) /\ field.ttl \in Nat
  BY FusionOfField, FieldIsOfSchema DEF IsOpening, Read
<1>2. d = Selection(g, f, field)  BY DEF Decision
<1>3. /\ d.value = sel.value /\ d.state = sel.state /\ d.by = sel.by
      /\ d.conflict = (sel.conflict \/ FALSE)
      /\ fusion.inputs \in Seq(Bindings)
  BY <1>1, <1>2, OpeningReads
<1>4. /\ settled => sel = Decided("true", first, ids, TRUE, FALSE)
      /\ ~settled => sel.value # "true"
  <2>1. Len(fusion.inputs) \in Nat  BY <1>3, LenProperties
  <2> HIDE DEF contacts, fusion, field
  <2>2. OpeningOutcome(fusion, contacts, field)  BY <2>1, OpeningDecides
  <2>3. fusion.strategy = "opening_available" /\ Len(fusion.inputs) = 2  BY DEF fusion, f
  <2> QED  BY <2>2, <2>3, Zenon DEF OpeningOutcome, settled, sel, first, ids
<1>5. e = IF Usable(d, field) THEN Claimed(d, field) ELSE FellBack(d, field, held, behind)
  BY EvaluatedFrom
<1>6. SettledFor(g, n) <=> settled /\ first # NoSignal  BY DEF SettledFor, ContactsOf
<1>7. field.fallback # "hold_last" /\ field.safeDefault # "true"  OBVIOUS
<1> HIDE DEF f, fusion, field, contacts, first, ids, sel, d, e, settled, held, behind
<1>8. FellBack(d, field, held, behind).value \in {field.safeDefault, "unknown", "none"}
  BY <1>7 DEF FellBack
<1>9. Claimed(d, field).value = d.value  BY ClaimedIs
<1>10. settled => sel.by = first /\ sel.state = "valid" /\ sel.conflict = FALSE /\ sel.value = "true"
  BY <1>4 DEF Decided
<1>11. ASSUME settled, first # NoSignal  PROVE e.value = "true"
  <2>1. d.by = first /\ d.state = "valid" /\ d.conflict = FALSE /\ d.value = "true"
    BY <1>3, <1>10, <1>11
  <2>2. Usable(d, field)  BY <1>11, <2>1 DEF Usable
  <2> QED  BY <1>5, <1>9, <2>1, <2>2
<1>12. ASSUME e.value = "true"  PROVE settled /\ first # NoSignal
  <2>1. Usable(d, field)  BY <1>5, <1>7, <1>8, <1>12
  <2>2. d.value = "true" /\ d.by # NoSignal  BY <1>5, <1>9, <1>12, <2>1 DEF Usable
  <2> QED  BY <1>3, <1>4, <1>10, <2>2
<1>13. e.value = "true" <=> SettledFor(g, n)  BY <1>6, <1>11, <1>12
<1> QED  BY <1>13 DEF e

LEMMA ReadGraphAgrees ==
  ASSUME Read(graph), OpeningsAsBuilt
  PROVE  OpeningFieldsAgree
<1> SUFFICES ASSUME {"opening_state", "available", "is_open"}
                      \subseteq {n \in Fields(graph) : FusionsFor(graph, n) # {}}
             PROVE  /\ (Evaluated(graph, "available").value = "true")
                         = (Evaluated(graph, "opening_state").state = "valid")
                    /\ (Evaluated(graph, "is_open").state = "valid")
                         = (Evaluated(graph, "opening_state").state = "valid")
                    /\ Evaluated(graph, "is_open").state = "valid" =>
                         (Evaluated(graph, "is_open").value = "true")
                           = (Evaluated(graph, "opening_state").value = "open")
  BY DEF OpeningFieldsAgree
<1> DEFINE c == graph.config
           s == FusionOf(graph, "opening_state")
           a == FusionOf(graph, "available")
           o == FusionOf(graph, "is_open")
           schema == Schemas[c.schema]
           contacts == ContactsOf(graph, "opening_state")
<1>1. /\ {"opening_state", "available", "is_open"} \subseteq Fields(graph)
      /\ \A n \in {"opening_state", "available", "is_open"} : FusionsFor(graph, n) # {}
  OBVIOUS
<1>2. c \in Configs /\ Accepted(c)  BY DEF Read
<1>3. /\ s \in DOMAIN c.fusions /\ a \in DOMAIN c.fusions /\ o \in DOMAIN c.fusions
      /\ {c.fusions[s].contract, c.fusions[a].contract, c.fusions[o].contract} = {Contract}
      /\ c.fusions[s].field = "opening_state" /\ c.fusions[a].field = "available"
      /\ c.fusions[o].field = "is_open"
  BY <1>1, FusionOfField DEF FusionsFor
<1> HIDE DEF s, a, o
<1>4. /\ c.fusions[s].strategy = "opening_contacts"
      /\ c.fusions[a].strategy = "opening_available"
      /\ c.fusions[o].strategy = "opening_is_open"
      /\ c.fusions[a].inputs = c.fusions[s].inputs /\ c.fusions[o].inputs = c.fusions[s].inputs
      /\ Len(c.fusions[s].inputs) = 2
      /\ \A n \in {"available", "is_open"} :
           /\ schema[n].ttl = schema["opening_state"].ttl
           /\ schema[n].requirement = schema["opening_state"].requirement
      /\ schema["available"].fallback # "hold_last"
      /\ schema["available"].safeDefault # "true"
  BY <1>2, <1>3 DEF OpeningsAsBuilt
<1>5. /\ ContactsOf(graph, "available") = contacts /\ ContactsOf(graph, "is_open") = contacts
  BY <1>4 DEF ContactsOf, s, a, o
<1>6. \A n \in {"opening_state", "available", "is_open"} :
        /\ FieldSchema(graph, n).ttl = schema["opening_state"].ttl
        /\ FieldSchema(graph, n).requirement = schema["opening_state"].requirement
  <2>1. \A n \in {"opening_state", "available", "is_open"} :
          /\ FieldSchema(graph, n).ttl = schema[n].ttl
          /\ FieldSchema(graph, n).requirement = schema[n].requirement
    BY <1>1, <1>2, FieldIsOfSchema
  <2> QED  BY <1>4, <2>1
<1>7. FieldSchema(graph, "available") = schema["available"]
  BY <1>1, <1>4 DEF FieldSchema, Overridden, IsOpening, a, FusionOf
<1>8. \A n \in {"available", "is_open"} : SettledFor(graph, n) <=> SettledFor(graph, "opening_state")
  <2> DEFINE fs == FieldSchema(graph, "opening_state")
             fa == FieldSchema(graph, "available")
             fo == FieldSchema(graph, "is_open")
  <2>1. fa.ttl = fs.ttl /\ fo.ttl = fs.ttl
        /\ fa.requirement = fs.requirement /\ fo.requirement = fs.requirement
    BY <1>6
  <2> HIDE DEF fs, fa, fo, contacts, c
  <2>2. \A t : (IsFresh(t, fa) <=> IsFresh(t, fs)) /\ (IsFresh(t, fo) <=> IsFresh(t, fs))
    BY <2>1 DEF IsFresh
  <2>3. /\ Settled(c.fusions[a], contacts, fa) <=> Settled(c.fusions[s], contacts, fs)
        /\ Settled(c.fusions[o], contacts, fo) <=> Settled(c.fusions[s], contacts, fs)
    BY <1>4, <2>2 DEF Settled, ContactsFresh
  <2> QED  BY <1>5, <2>3 DEF SettledFor, fs, fa, fo, s, a, o, c, contacts
<1>9. Evaluated(graph, "available").value = "true" <=> SettledFor(graph, "available")
  BY <1>1, <1>4, <1>7, ContactsDecideAvailability DEF a
<1>10. /\ Evaluated(graph, "opening_state").state = "valid" <=> SettledFor(graph, "opening_state")
       /\ Evaluated(graph, "opening_state").state = "valid" =>
            (Evaluated(graph, "opening_state").value = "open" <=> contacts[1].value = "true")
  BY <1>1, <1>4, ContactsDecideField DEF s
<1>11. /\ Evaluated(graph, "is_open").state = "valid" <=> SettledFor(graph, "is_open")
       /\ Evaluated(graph, "is_open").state = "valid" =>
            Evaluated(graph, "is_open").value = contacts[1].value
  <2>1. /\ Evaluated(graph, "is_open").state = "valid" <=> SettledFor(graph, "is_open")
        /\ Evaluated(graph, "is_open").state = "valid" =>
            Evaluated(graph, "is_open").value = ContactsOf(graph, "is_open")[1].value
    BY <1>1, <1>4, ContactsDecideField DEF o
  <2> QED  BY <1>5, <2>1
<1> HIDE DEF contacts
<1>12. /\ (Evaluated(graph, "available").value = "true")
            <=> (Evaluated(graph, "opening_state").state = "valid")
       /\ (Evaluated(graph, "is_open").state = "valid")
            <=> (Evaluated(graph, "opening_state").state = "valid")
  BY <1>8, <1>9, <1>10, <1>11
<1>13. Evaluated(graph, "is_open").state = "valid" =>
         ((Evaluated(graph, "is_open").value = "true")
            <=> (Evaluated(graph, "opening_state").value = "open"))
  BY <1>10, <1>11, <1>12
<1> QED  BY <1>12, <1>13

(* A physical field without a valid value is unknown.                      *)
LEMMA UnclaimedPhysicalIsUnknown ==
  ASSUME NEW g, Read(g), NEW n \in Fields(g), Schemas[g.config.schema][n].physical,
         Evaluated(g, n).value # "unknown"
  PROVE  Evaluated(g, n).state = "valid"
<1> DEFINE field == FieldSchema(g, n)
           d == Decision(g, n)
           held == g.held[n]
           behind == Behind(g, n)
<1>1. field.physical  BY FieldIsOfSchema DEF Read
<1>2. field.fallback = "reject"  BY <1>1, PolicyAllowed DEF FallbackAllowed, Read
<1>3. Evaluated(g, n) = IF Usable(d, field) THEN Claimed(d, field)
                        ELSE FellBack(d, field, held, behind)
  BY EvaluatedFrom
<1> HIDE DEF field, d, held, behind
<1>4. FellBack(d, field, held, behind).value = "unknown"  BY <1>1, <1>2 DEF FellBack
<1>5. Claimed(d, field).state = "valid"  BY ClaimedIs
<1> QED  BY <1>3, <1>4, <1>5

(* Two contacts that settle a field are all its leaves, they are current,  *)
(* and not both of them say true.                                          *)
LEMMA SettledContacts ==
  ASSUME Read(graph), NEW n \in Fields(graph), FusionsFor(graph, n) # {},
         IsOpening(graph.config.fusions[FusionOf(graph, n)]), SettledFor(graph, n)
  PROVE  /\ {s.id : s \in Elems(ContactsOf(graph, n))} = LeavesOf(n)
         /\ LeavesOf(n) # {}
         /\ \A b \in LeavesOf(n) : Proven(b, FieldSchema(graph, n))
         /\ \E b \in LeavesOf(n) : graph.signals[b].value = "false"
<1> DEFINE f == FusionOf(graph, n)
           fusion == graph.config.fusions[f]
           field == FieldSchema(graph, n)
           ids == fusion.inputs
           contacts == ContactsOf(graph, n)
           leaves == LeavesOf(n)
<1>1. f \in DOMAIN graph.config.fusions /\ field.ttl \in Nat
  BY FusionOfField, FieldIsOfSchema DEF Read
<1>2. ids \in Seq(Bindings) /\ leaves = Elems(ids)
  BY <1>1, OpeningReads DEF LeavesOf, FusionOf
<1>3. contacts = SignalsOf(graph, ids)  BY DEF ContactsOf
<1>4. Settled(fusion, contacts, field)  BY DEF SettledFor
<1> HIDE DEF contacts, leaves, ids, f, field
<1>5. /\ contacts \in Seq(Candidates(graph))
      /\ Elems(contacts) = {SignalOf(graph, b) : b \in Elems(ids) \cap Shown(graph)}
      /\ Len(contacts) = Len(ids) => Elems(ids) \subseteq Shown(graph)
  BY <1>2, <1>3, SignalsAre
<1>6. /\ Len(contacts) = 2 /\ Len(contacts) = Len(ids)
      /\ ValuesOf(contacts) \subseteq {"true", "false"} /\ ValuesOf(contacts) # {"true"}
      /\ \A s \in Elems(contacts) : IsFresh(s, field)
  BY <1>4 DEF Settled, ContactsFresh, ids
<1>7. Elems(ids) \subseteq Shown(graph)  BY <1>5, <1>6
<1>8. Elems(contacts) = {SignalOf(graph, b) : b \in leaves}  BY <1>2, <1>5, <1>7
<1>9. \A b : SignalOf(graph, b).id = b /\ SignalOf(graph, b).value = graph.signals[b].value
  BY DEF SignalOf
<1>10. {s.id : s \in Elems(contacts)} = leaves  BY <1>8, <1>9
<1>11. ASSUME NEW b \in leaves  PROVE Proven(b, field)
  <2>1. b \in Shown(graph) /\ IsFresh(SignalOf(graph, b), field)  BY <1>2, <1>6, <1>7, <1>8
  <2> QED  BY <1>1, <2>1, FreshIsProven
<1>12. ValuesOf(contacts) = {s.value : s \in Elems(contacts)} /\ Elems(contacts) # {}
  <2> DEFINE q == [i \in 1..2 |-> contacts[i].value]
  <2>1. Len(q) = 2 /\ \A i \in 1..2 : q[i] = contacts[i].value  OBVIOUS
  <2>2. ValuesOf(contacts) = Elems(q)  BY <1>6 DEF ValuesOf
  <2> HIDE DEF q
  <2>3. Elems(q) = {contacts[i].value : i \in 1..2}  BY <2>1 DEF Elems
  <2>4. Elems(contacts) = {contacts[i] : i \in 1..2}  BY <1>6 DEF Elems
  <2> QED  BY <2>2, <2>3, <2>4
<1>13. "false" \in ValuesOf(contacts)  BY <1>6, <1>12
<1>14. \E b \in leaves : graph.signals[b].value = "false"
  <2>1. PICK s \in Elems(contacts) : s.value = "false"  BY <1>12, <1>13
  <2> QED  BY <1>8, <1>9, <2>1
<1> QED  BY <1>10, <1>11, <1>14 DEF contacts, leaves, field

-----------------------------------------------------------------------------
(* What a fusion that takes one of its sources makes of all of them.       *)

LEMMA NoSignalIsNoCandidate ==
  ASSUME NEW g, Read(g), NEW s \in Candidates(g)
  PROVE  s # NoSignal
  BY NoSignalIsNone DEF Candidates, Evidence, Read

(* Evidence that is current for a time is current for a longer one.        *)
LEMMA FreshLonger ==
  ASSUME NEW ev \in Evidence, NEW short \in Nat, NEW long \in Nat, short <= long,
         NEW requirement, Freshness(ev, short, requirement) = "fresh"
  PROVE  Freshness(ev, long, requirement) = "fresh"
<1>1. ev.age \in -1..MaxAge /\ MaxAge \in Nat  BY GraphConstants DEF Evidence
<1>2. /\ ev.kind = "device" \/ (ev.kind = "ha_event" /\ requirement # "device")
      /\ ~(ev.age < 0) /\ ~Expired(ev.age, short)
  BY <1>1 DEF Freshness
<1>3. ~Expired(ev.age, long)  BY <1>1, <1>2 DEF Expired
<1> QED  BY <1>2, <1>3 DEF Freshness

(* What a reader means by current is current for a fusion.                 *)
LEMMA ProvenIsFresh ==
  ASSUME Read(graph), NEW b \in Bindings, NEW field, field.ttl \in Nat, Proven(b, field)
  PROVE  b \in Shown(graph) /\ IsFresh(SignalOf(graph, b), field)
<1> DEFINE s == SignalOf(graph, b)
           ttl == graph.config.bindings[b].ttl
           ev == graph.signals[b].ev
<1>1. s.ev = ev /\ s.ttl = ttl  BY DEF SignalOf
<1>2. b \in Shown(graph)  BY DEF Proven, Shown
<1>3. ev \in Evidence /\ ttl \in Nat  BY SignalIsCandidate, <1>1, <1>2 DEF Candidates
<1>4. /\ ev.kind = "device" \/ (ev.kind = "ha_event" /\ field.requirement # "device")
      /\ ev.age \in 0..field.ttl /\ ev.age <= ttl
  BY DEF Proven
<1> HIDE DEF ev, ttl, s
<1>5. ~Expired(ev.age, Least(field.ttl, ttl)) /\ ~(ev.age < 0)
  BY <1>3, <1>4 DEF Expired, Least
<1>6. Freshness(ev, Least(field.ttl, ttl), field.requirement) = "fresh"
  BY <1>4, <1>5 DEF Freshness
<1>7. IsFresh(s, field)  BY <1>1, <1>6 DEF IsFresh
<1> QED  BY <1>2, <1>7 DEF s

(* One of the healthy candidates, and a mark where they differ.            *)
Taken(healthy, r) ==
  /\ healthy = {} => r.by = NoSignal
  /\ healthy # {} => /\ r.by \in healthy /\ r.value = r.by.value /\ r.active = {r.by.id}
                     /\ r.conflict = ~(\A t \in healthy : t.value = r.value)

LEMMA OneIsTaken ==
  ASSUME NEW g, NEW field, NEW strategy, NEW candidates, NEW fresh \in Seq(Candidates(g))
  PROVE  Taken(Elems(fresh), SelectOne(strategy, candidates, fresh, field))
<1> DEFINE all == Elems(fresh)
           youngest == {s \in all : \A t \in all : s.ev.age <= t.ev.age}
           s == IF strategy = "latest" THEN Those(fresh, youngest)[1] ELSE fresh[1]
           agree == \A t \in all : t.value = s.value
           r == SelectOne(strategy, candidates, fresh, field)
<1>1. CASE fresh = <<>>
  <2>1. r.by = NoSignal  BY <1>1 DEF SelectOne, Undecided
  <2>2. all = {}  BY <1>1, EmptySeq DEF Elems
  <2> QED  BY <2>1, <2>2 DEF Taken
<1>2. CASE fresh # <<>>
  <2>1. r = Decided(s.value, s, {s.id}, agree, ~agree)  BY <1>2 DEF SelectOne
  <2>2. all \in SUBSET Candidates(g) /\ all # {} /\ fresh[1] \in all  BY <1>2, ElemsAre
  <2>3. s \in all
    <3>1. PICK t \in all : \A u \in all : t.ev.age <= u.ev.age
      <4> HIDE DEF all
      <4> QED  BY <2>2, Extremes
    <3>2. t \in all \cap youngest  BY <3>1
    <3>3. Those(fresh, youngest)[1] \in all
      <4> HIDE DEF youngest
      <4> QED  BY <3>2, FirstOfThose
    <3> HIDE DEF youngest, all
    <3> QED  BY <2>2, <3>3
  <2> HIDE DEF s, r, all
  <2>4. r.value = s.value /\ r.by = s /\ r.conflict = ~agree /\ r.active = {s.id}
    BY <2>1 DEF Decided
  <2>5. Taken(all, r)  BY <2>2, <2>3, <2>4 DEF Taken
  <2> QED  BY <2>5 DEF r, all
<1> QED  BY <1>1, <1>2

(* The sources below a fusion that show a healthy signal.                  *)
HealthyBelow(g, field, f) ==
  {b \in Elems(Leaves(g.config, f)) : b \in Shown(g) /\ Healthy(SignalOf(g, b), field)}

(* A fusion that decides is as current as its field asks for, and unless   *)
(* it bears the mark all healthy sources below it show its value; one that *)
(* does not decide has none.                                               *)
Agrees(g, field, f, r) ==
  /\ r.by = NoSignal => HealthyBelow(g, field, f) = {}
  /\ r.by # NoSignal =>
       /\ r.active # {} /\ Classify(r.value, field) = "valid"
       /\ Freshness(r.by.ev, Least(field.ttl, field.ttl), field.requirement) = "fresh"
       /\ ~r.conflict => \A b \in HealthyBelow(g, field, f) : g.signals[b].value = r.value

LEMMA FusedAgrees ==
  ASSUME NEW g, Read(g), NEW field, field.ttl \in Nat, NEW f \in DOMAIN g.config.fusions,
         NEW below, \A k \in Elems(g.config.fusions[f].children) : Grounded(g, field, k, below[k]),
         \A k \in Elems(g.config.fusions[f].children) : Agrees(g, field, k, below[k]),
         g.config.fusions[f].strategy \in {"first_healthy", "latest"},
         NEW fusion, fusion = g.config.fusions[f]
  PROVE  Agrees(g, field, f, Fused(g, fusion, field, below))
<1> DEFINE c == g.config
           D == DOMAIN c.fusions
           kids == Elems(fusion.children)
           own == SignalsOf(g, fusion.inputs)
           nested == Nested(fusion.children, below, field)
           candidates == own \o nested
           all == Elems(candidates)
           H == {s \in all : Classify(s.value, field) = "valid" /\ IsFresh(s, field)}
           fresh == Those(candidates, H)
           r == Fused(g, fusion, field, below)
           sel == Select(fusion, candidates, field)
           inputs == Elems(fusion.inputs)
<1>1. c \in Configs /\ Accepted(c)  BY DEF Read
<1>2. /\ fusion.inputs \in Seq(Bindings) /\ fusion.children \in Seq(D)
      /\ inputs \subseteq Bindings /\ kids \subseteq D /\ D \cap Bindings = {}
  BY <1>1, FusionsAre
<1>3. \A k \in kids : Offers(below[k]) => below[k].value \in Texts /\ below[k].by.ev \in Evidence
  BY DEF Grounded, Offers
<1>4. /\ own \in Seq(Candidates(g))
      /\ Elems(own) = {SignalOf(g, b) : b \in inputs \cap Shown(g)}
  BY <1>2, SignalsAre
<1>5. /\ nested \in Seq(Candidates(g))
      /\ Elems(nested) = {AsCandidate(k, below[k], field) : k \in {l \in kids : Offers(below[l])}}
  BY <1>2, <1>3, NestedAre
<1>6. candidates \in Seq(Candidates(g)) /\ all = Elems(own) \cup Elems(nested)
  <2> HIDE DEF own, nested
  <2> QED  BY <1>4, <1>5, ElemsOfConcat
<1>7. fresh \in Seq(Candidates(g)) /\ Elems(fresh) = H
  <2>1. fresh \in Seq(Candidates(g)) /\ Elems(fresh) = all \cap H
    <3> HIDE DEF H, candidates
    <3> QED  BY <1>6, ThoseAre
  <2> QED  BY <2>1
<1>8. Taken(H, sel)
  <2>1. sel = SelectOne(fusion.strategy, candidates, fresh, field)
    BY DEF Select, IsOpening
  <2> HIDE DEF sel, fresh, candidates, H
  <2> QED  BY <1>7, <2>1, OneIsTaken
<1>9. /\ r.value = sel.value
      /\ r.by = IF sel.by # NoSignal /\ sel.by.id \in kids THEN below[sel.by.id].by ELSE sel.by
      /\ r.conflict = (sel.conflict \/ \E k \in kids : below[k].conflict)
      /\ r.active = UNION {IF k \in kids THEN below[k].active ELSE {k} : k \in sel.active}
  BY DEF Fused, Merged
<1>10. \A b : /\ SignalOf(g, b).id = b /\ SignalOf(g, b).value = g.signals[b].value
              /\ SignalOf(g, b).ttl = c.bindings[b].ttl
  BY DEF SignalOf
<1>11. \A k : /\ AsCandidate(k, below[k], field).value = below[k].value
              /\ AsCandidate(k, below[k], field).id = k
              /\ AsCandidate(k, below[k], field).ev = below[k].by.ev
              /\ AsCandidate(k, below[k], field).ttl = field.ttl
  BY DEF AsCandidate
<1>12. \A s : s \in H <=> s \in all /\ Healthy(s, field)  BY DEF Healthy
<1>13. \A s \in all : s # NoSignal /\ s.ev \in Evidence /\ s.ttl \in Nat
  <2>1. \A s \in all : s \in Candidates(g)
    <3> HIDE DEF candidates
    <3> QED  BY <1>6, ElemsAre
  <2> QED  BY <2>1, NoSignalIsNoCandidate DEF Candidates
<1>14. Elems(Leaves(c, f)) = inputs \cup UNION {Elems(Leaves(c, k)) : k \in kids}
  BY <1>1, LeavesAre
<1> HIDE DEF own, nested, candidates, all, H, fresh, r, sel, kids, inputs, D
<1>15. ASSUME NEW b \in HealthyBelow(g, field, f)
       PROVE  \/ b \in inputs /\ SignalOf(g, b) \in H
              \/ \E k \in kids : b \in HealthyBelow(g, field, k)
  <2>1. b \in Elems(Leaves(c, f)) /\ b \in Shown(g) /\ Healthy(SignalOf(g, b), field)
    BY DEF HealthyBelow
  <2>2. CASE b \in inputs
    <3>1. SignalOf(g, b) \in all  BY <1>4, <1>6, <2>1, <2>2
    <3> QED  BY <1>12, <2>1, <2>2, <3>1
  <2>3. CASE \E k \in kids : b \in Elems(Leaves(c, k))  BY <2>1, <2>3 DEF HealthyBelow
  <2> QED  BY <1>14, <2>1, <2>2, <2>3
<1>16. ASSUME NEW k \in kids, HealthyBelow(g, field, k) # {}
       PROVE  below[k].by # NoSignal
  BY <1>16 DEF Agrees, kids
<1>17. ASSUME NEW k \in kids, below[k].by # NoSignal
       PROVE  AsCandidate(k, below[k], field) \in H
  <2>1. AsCandidate(k, below[k], field) \in all  BY <1>5, <1>6, <1>17 DEF Offers
  <2>2. /\ Classify(below[k].value, field) = "valid"
        /\ Freshness(below[k].by.ev, Least(field.ttl, field.ttl), field.requirement) = "fresh"
    BY <1>17 DEF Agrees, kids
  <2>3. Healthy(AsCandidate(k, below[k], field), field)
    BY <1>11, <2>2 DEF Healthy, IsFresh
  <2> QED  BY <1>12, <2>1, <2>3
<1>18. CASE H = {}
  <2>1. r.by = NoSignal  BY <1>8, <1>9, <1>18 DEF Taken
  <2>2. HealthyBelow(g, field, f) = {}  BY <1>15, <1>16, <1>17, <1>18
  <2>3. Agrees(g, field, f, r)  BY <2>1, <2>2 DEF Agrees
  <2> QED  BY <2>3 DEF r
<1>19. CASE H # {}
  <2> DEFINE s == sel.by
  <2>1. /\ s \in H /\ sel.value = s.value /\ sel.active = {s.id}
        /\ sel.conflict = ~(\A t \in H : t.value = sel.value)
    BY <1>8, <1>19 DEF Taken
  <2> HIDE DEF s
  <2>2. s \in all /\ Healthy(s, field) /\ s # NoSignal /\ s.ev \in Evidence /\ s.ttl \in Nat
    BY <1>12, <1>13, <2>1
  <2>3. Least(field.ttl, s.ttl) <= Least(field.ttl, field.ttl)
        /\ Least(field.ttl, s.ttl) \in Nat /\ Least(field.ttl, field.ttl) \in Nat
    BY <2>2 DEF Least
  <2>4. Freshness(s.ev, Least(field.ttl, field.ttl), field.requirement) = "fresh"
    <3>1. Freshness(s.ev, Least(field.ttl, s.ttl), field.requirement) = "fresh"
      BY <2>2 DEF Healthy, IsFresh
    <3> QED  BY <2>2, <2>3, <3>1, FreshLonger
  <2>5. r.by # NoSignal /\ r.by.ev = s.ev /\ r.active # {}
    <3> DEFINE x == s.id
    <3>a. IF x \in kids THEN below[x].active \subseteq r.active ELSE x \in r.active
      BY <1>9, <2>1
    <3> HIDE DEF x
    <3>1. CASE s.id \in kids
      <4>1. r.by = below[s.id].by  BY <1>9, <2>2, <3>1 DEF s
      <4>2. s \notin Elems(own)  BY <1>2, <1>4, <1>10, <3>1 DEF kids, D, inputs
      <4>3. s \in Elems(nested)  BY <1>6, <2>2, <4>2
      <4>4. s = AsCandidate(s.id, below[s.id], field) /\ Offers(below[s.id])
        BY <1>5, <1>11, <4>3
      <4>5. below[s.id].active # {}  BY <3>1, <4>4 DEF Agrees, Offers, kids
      <4>6. r.active # {}  BY <3>1, <3>a, <4>5 DEF x
      <4>7. s.ev = below[s.id].by.ev  BY <1>11, <4>4
      <4> QED  BY <4>1, <4>4, <4>6, <4>7 DEF Offers
    <3>2. CASE s.id \notin kids
      <4>1. r.by = s  BY <1>9, <3>2 DEF s
      <4>2. r.active # {}  BY <3>2, <3>a DEF x
      <4> QED  BY <2>2, <4>1, <4>2
    <3> QED  BY <3>1, <3>2
  <2>6. Classify(r.value, field) = "valid"  BY <1>9, <2>1, <2>2 DEF Healthy
  <2>7. ASSUME ~r.conflict, NEW b \in HealthyBelow(g, field, f)
        PROVE  g.signals[b].value = r.value
    <3>1. /\ \A t \in H : t.value = r.value
          /\ \A k \in kids : ~below[k].conflict
      BY <1>9, <2>1, <2>7
    <3>2. CASE SignalOf(g, b) \in H  BY <1>10, <3>1, <3>2
    <3>3. CASE \E k \in kids : b \in HealthyBelow(g, field, k)
      <4>1. PICK k \in kids : b \in HealthyBelow(g, field, k)  BY <3>3
      <4>2. below[k].by # NoSignal  BY <1>16, <4>1
      <4>3. below[k].value = r.value  BY <1>11, <1>17, <3>1, <4>2
      <4>4. g.signals[b].value = below[k].value  BY <3>1, <4>1, <4>2 DEF Agrees, kids
      <4> QED  BY <4>3, <4>4
    <3> QED  BY <1>15, <3>2, <3>3
  <2>8. Freshness(r.by.ev, Least(field.ttl, field.ttl), field.requirement) = "fresh"
    BY <2>4, <2>5
  <2>9. Agrees(g, field, f, r)  BY <2>5, <2>6, <2>7, <2>8 DEF Agrees
  <2> QED  BY <2>9 DEF r
<1> QED  BY <1>18, <1>19

LEMMA SelectionAgrees ==
  ASSUME NEW g, Read(g), NEW field, field.ttl \in Nat, NEW n,
         \A f \in DOMAIN g.config.fusions : g.config.fusions[f].field = n =>
           g.config.fusions[f].strategy \in {"first_healthy", "latest"}
  PROVE  \A f \in DOMAIN g.config.fusions : g.config.fusions[f].field = n =>
           Agrees(g, field, f, Selection(g, f, field))
<1> DEFINE fusions == g.config.fusions
           Good == {f \in DOMAIN fusions : fusions[f].field = n =>
                                             Agrees(g, field, f, Selection(g, f, field))}
<1>1. /\ Acyclic(fusions)
      /\ \A f \in DOMAIN fusions : Elems(fusions[f].children) \subseteq DOMAIN fusions
  BY FusionsAre DEF Read
<1>2. ASSUME NEW f \in DOMAIN fusions, \A k \in Elems(fusions[f].children) : k \in Good
      PROVE  f \in Good
  <2> SUFFICES ASSUME fusions[f].field = n
               PROVE  Agrees(g, field, f, Selection(g, f, field))
    OBVIOUS
  <2> DEFINE kids == Elems(fusions[f].children)
             below == [k \in kids |-> Selection(g, k, field)]
  <2>1. Selection(g, f, field) = Fused(g, fusions[f], field, below)  BY SelectionFollows
  <2>2. fusions[f].strategy \in {"first_healthy", "latest"}  OBVIOUS
  <2>3. \A k \in kids : fusions[k].field = n
    <3>1. ~IsOpening(fusions[f])  BY <2>2 DEF IsOpening
    <3>2. FusionsFit(g.config)  BY DEF Read, Accepted
    <3> QED  BY <3>1, <3>2 DEF FusionsFit
  <2>4. \A k \in kids : Grounded(g, field, k, below[k])  BY <1>1, SelectionIsGrounded
  <2>5. \A k \in kids : Agrees(g, field, k, below[k])  BY <1>2, <2>3
  <2> HIDE DEF below
  <2>6. Agrees(g, field, f, Fused(g, fusions[f], field, below))  BY <2>2, <2>4, <2>5, FusedAgrees
  <2> QED  BY <2>1, <2>6
<1> HIDE DEF Good, fusions
<1>3. \A f \in DOMAIN fusions : f \in Good  BY <1>1, <1>2, OverFusions
<1> QED  BY <1>3 DEF Good, fusions

(* A decision of a fusion of contacts needs them all, one of other sources *)
(* bears a mark where they differ.                                         *)
LEMMA ReadGraphNeverGuesses ==
  ASSUME Read(graph), CountsStandAlone, PhysicalAsBuilt
  PROVE  PhysicalNeverGuessed
<1> SUFFICES ASSUME NEW n \in Fields(graph), Schemas[graph.config.schema][n].physical,
                    Evaluated(graph, n).value # "unknown",
                    NEW proven, proven = {b \in LeavesOf(n) : Proven(b, FieldSchema(graph, n))}
             PROVE  /\ Evaluated(graph, n).state = "valid" /\ Evaluated(graph, n).active # {}
                    /\ Evaluated(graph, n).active \subseteq proven
                    /\ IF IsOpening([strategy |-> StrategyOf(n)])
                       THEN /\ Evaluated(graph, n).active = LeavesOf(n)
                            /\ {b \in proven : graph.signals[b].value = "false"} # {}
                       ELSE \/ {b \in proven : graph.signals[b].value = "true"} = {}
                            \/ {b \in proven : graph.signals[b].value = "false"} = {}
  BY DEF PhysicalNeverGuessed
<1> DEFINE c == graph.config
           f == FusionOf(graph, n)
           e == Evaluated(graph, n)
           d == Decision(graph, n)
           field == FieldSchema(graph, n)
           leaves == LeavesOf(n)
<1>1. e.state = "valid"  BY UnclaimedPhysicalIsUnknown
<1>2. /\ Usable(d, field) /\ d.by # NoSignal /\ e.value = d.value /\ e.active = d.active
      /\ FusionsFor(graph, n) # {} /\ d = Selection(graph, f, field)
  BY <1>1, ValidIsDecided
<1>3. /\ f \in DOMAIN c.fusions /\ c.fusions[f].field = n
      /\ StrategyOf(n) = c.fusions[f].strategy /\ leaves = Elems(Leaves(c, f))
  BY <1>2, FusionOfField DEF FusionsFor, StrategyOf, LeavesOf, FusionOf
<1>4. /\ c.schema \in DOMAIN Schemas /\ n \in DOMAIN Schemas[c.schema] /\ c \in Configs
      /\ Schemas[c.schema][n].physical
  BY GraphConstants DEF Read, Fields
<1>5. /\ field.ttl \in Nat /\ field.type = Schemas[c.schema][n].type /\ field.physical
  BY FieldIsOfSchema DEF Read
<1>6. CASE \A k \in DOMAIN c.fusions : c.fusions[k].field = n =>
             c.fusions[k].strategy \in {"opening_contacts", "opening_is_open"}
  <2>1. c.fusions[f].strategy \in {"opening_contacts", "opening_is_open"}  BY <1>3, <1>6
  <2>2. IsOpening(c.fusions[f]) /\ IsOpening([strategy |-> StrategyOf(n)])
    BY <1>3, <2>1 DEF IsOpening
  <2>3. SettledFor(graph, n) /\ e.active = {s.id : s \in Elems(ContactsOf(graph, n))}
    BY <1>1, <1>2, <2>1, ContactsDecideField
  <2>4. /\ {s.id : s \in Elems(ContactsOf(graph, n))} = leaves /\ leaves # {}
        /\ \A b \in leaves : Proven(b, field)
        /\ \E b \in leaves : graph.signals[b].value = "false"
    BY <1>2, <2>2, <2>3, SettledContacts
  <2> HIDE DEF e, leaves, field
  <2>5. e.active = leaves /\ proven = leaves  BY <2>3, <2>4 DEF leaves, field
  <2> QED  BY <1>1, <2>2, <2>4, <2>5 DEF e, leaves
<1>7. CASE /\ Schemas[c.schema][n].type = "boolean"
           /\ \A k \in DOMAIN c.fusions : c.fusions[k].field = n =>
                c.fusions[k].strategy \in {"first_healthy", "latest"}
  <2>1. c.fusions[f].strategy \in {"first_healthy", "latest"}  BY <1>3, <1>7
  <2>2. ~IsOpening([strategy |-> StrategyOf(n)])  BY <1>3, <2>1 DEF IsOpening
  <2>3. Grounded(graph, field, f, d)  BY <1>2, DecisionIsGrounded
  <2>4. Agrees(graph, field, f, d)  BY <1>2, <1>3, <1>5, <1>7, SelectionAgrees
  <2>5. ~d.conflict /\ d.by # NoSignal  BY <1>2, <1>5 DEF Usable
  <2>6. /\ d.active # {} /\ Classify(d.value, field) = "valid"
        /\ \A b \in HealthyBelow(graph, field, f) : graph.signals[b].value = d.value
    BY <2>4, <2>5 DEF Agrees
  <2>7. leaves \subseteq Bindings
    <3>1. Leaves(c, f) \in Seq(Bindings)  BY <1>3, LeavesAre DEF Read
    <3> QED  BY <1>3, <3>1, ElemsAre
  <2> HIDE DEF e, leaves, field, d, f
  <2>8. \A b \in d.active : b \in leaves /\ Proven(b, field)
    <3> SUFFICES ASSUME NEW b \in d.active  PROVE b \in leaves /\ Proven(b, field)
      OBVIOUS
    <3>1. b \in leaves /\ b \in Shown(graph) /\ IsFresh(SignalOf(graph, b), field)
      BY <1>3, <2>1, <2>3 DEF Grounded
    <3> QED  BY <1>5, <3>1, FreshIsProven
  <2>9. ASSUME NEW b \in proven, graph.signals[b].value \in {"true", "false"}
        PROVE  graph.signals[b].value = d.value
    <3>1. b \in leaves /\ Proven(b, field)  BY DEF leaves, field
    <3>2. b \in Bindings  BY <2>7, <3>1
    <3>3. b \in Shown(graph) /\ IsFresh(SignalOf(graph, b), field)
      BY <1>5, <3>1, <3>2, ProvenIsFresh
    <3>4. field.type = "boolean"  BY <1>5, <1>7
    <3>5. SignalOf(graph, b).value = graph.signals[b].value  BY DEF SignalOf
    <3>6. Classify(SignalOf(graph, b).value, field) = "valid"
      BY <2>9, <3>4, <3>5 DEF Classify, TypeValues
    <3>7. b \in HealthyBelow(graph, field, f)
      BY <1>3, <3>1, <3>3, <3>6 DEF HealthyBelow, Healthy
    <3> QED  BY <2>6, <3>7
  <2>10. \/ {b \in proven : graph.signals[b].value = "true"} = {}
         \/ {b \in proven : graph.signals[b].value = "false"} = {}
    BY <2>9
  <2>11. e.active \subseteq proven /\ e.active # {}  BY <1>2, <2>6, <2>8 DEF leaves, field
  <2> QED  BY <1>1, <2>2, <2>10, <2>11 DEF e
<1> QED  BY <1>4, <1>6, <1>7 DEF PhysicalAsBuilt

-----------------------------------------------------------------------------
(* What is kept, and what becomes of it.                                   *)

(* What every graph keeps, running or prepared; a held value is the last   *)
(* one that was valid.                                                     *)
Whole(g) ==
  /\ g = [config |-> g.config, signals |-> g.signals, held |-> g.held, valid |-> g.valid]
  /\ g.config \in Configs /\ Accepted(g.config)
  /\ g.signals \in [Bindings -> Signals \cup {NoSignal}]
  /\ g.held = [n \in Fields(g) |-> g.held[n]]
  /\ g.valid = [n \in Fields(g) |-> g.valid[n]]
  /\ \A n \in Fields(g) : g.held[n] \in Texts /\ g.valid[n] \in Texts
  /\ \A n \in Fields(g) : g.held[n] # "none" => g.held[n] = g.valid[n]

LEMMA WholeIsRead ==
  ASSUME NEW g, Whole(g)
  PROVE  Read(g)
  BY DEF Whole, Read

(* The inductive invariant of the graph.  The prepared graph has no        *)
(* signals of its own, so the running one is all that activation can seed  *)
(* it with.                                                                *)
GInv ==
  /\ Whole(graph)
  /\ plan # NoPlan => Whole(plan) /\ \A b \in Bindings : plan.signals[b] = NoSignal

-----------------------------------------------------------------------------
(* What becomes of a field that holds its last value.                      *)

(* A field that falls back to its last value gives nothing or that value,  *)
(* and then it is degraded.                                                *)
LEMMA FallsBackToHeld ==
  ASSUME NEW sel, NEW field, NEW held, NEW candidates,
         field.fallback = "hold_last", ~field.physical
  PROVE  LET r == FellBack(sel, field, held, candidates)
         IN  r.value # "none" => r.value = held /\ r.judged.health = "degraded"
  BY DEF FellBack, HeldValue, Quality, Judged

(* The same of the whole evaluation of the field.                          *)
LEMMA UnclaimedIsHeld ==
  ASSUME NEW g, Whole(g), NEW n \in Fields(g),
         FieldSchema(g, n).fallback = "hold_last",
         Evaluated(g, n).state # "valid", Evaluated(g, n).value # "none"
  PROVE  Evaluated(g, n).value = g.held[n] /\ Evaluated(g, n).judged.health = "degraded"
<1> DEFINE field == FieldSchema(g, n)
           f     == CHOOSE k \in FusionsFor(g, n) : TRUE
           some  == FusionsFor(g, n) # {}
           sel   == IF some THEN Selection(g, f, field) ELSE Undecided("unavailable")
           below == IF some THEN SignalsOf(g, Leaves(g.config, f)) ELSE <<>>
<1>1. FallbackAllowed(field)  BY PolicyAllowed DEF Whole
<1>2. field.fallback = "hold_last" /\ ~field.physical  BY <1>1 DEF FallbackAllowed
<1>3. Evaluated(g, n) = IF Usable(sel, field) THEN Claimed(sel, field)
                        ELSE FellBack(sel, field, g.held[n], below)
  BY DEF Evaluated
<1> HIDE DEF field, f, some, sel, below
<1>4. Claimed(sel, field).state = "valid"  BY DEF Claimed
<1>5. Evaluated(g, n) = FellBack(sel, field, g.held[n], below)  BY <1>3, <1>4
<1> QED  BY <1>2, <1>5, FallsBackToHeld

-----------------------------------------------------------------------------
(* The operations on graphs.                                               *)

LEMMA EmptyIsWhole ==
  ASSUME NEW c \in Configs, Accepted(c)
  PROVE  Whole(EmptyGraph(c))
  BY DEF Whole, EmptyGraph, Fields, Texts

(* An evaluation keeps the sources and leaves only valid values held.      *)
LEMMA EvaluateKeeps ==
  ASSUME NEW g, Whole(g)
  PROVE  /\ Whole(Evaluate(g))
         /\ Evaluate(g).config = g.config
         /\ Evaluate(g).signals = g.signals
<1> DEFINE holding == {n \in Fields(g) : FieldSchema(g, n).fallback = "hold_last"}
           held  == [n \in Fields(g) |-> IF n \in holding THEN Evaluated(g, n).value ELSE "none"]
           valid == [n \in Fields(g) |-> IF n \in holding /\ Evaluated(g, n).state = "valid"
                                         THEN Evaluated(g, n).value ELSE g.valid[n]]
           h == Evaluate(g)
<1>1. g = [config |-> g.config, signals |-> g.signals, held |-> g.held, valid |-> g.valid]
  BY DEF Whole
<1>2. h = [config |-> g.config, signals |-> g.signals, held |-> held, valid |-> valid]
  <2> DEFINE now == [n \in holding |-> Evaluated(g, n)]
             newHeld  == [n \in Fields(g) |-> IF n \in holding THEN now[n].value ELSE "none"]
             newValid == [n \in Fields(g) |-> IF n \in holding /\ now[n].state = "valid"
                                              THEN now[n].value ELSE g.valid[n]]
  <2>1. newHeld = held /\ newValid = valid  OBVIOUS
  <2>2. h = [g EXCEPT !.held = newHeld, !.valid = newValid]  BY <1>1, Zenon DEF Evaluate
  <2> HIDE DEF newHeld, newValid, held, valid, h
  <2> QED  BY <1>1, <2>1, <2>2
<1>3. Fields(h) = Fields(g)  BY <1>2 DEF Fields
<1>4. \A n \in Fields(g) : held[n] # "none" => held[n] = valid[n]
  <2> SUFFICES ASSUME NEW n \in Fields(g), held[n] # "none"  PROVE held[n] = valid[n]
    OBVIOUS
  <2>1. n \in holding /\ held[n] = Evaluated(g, n).value  OBVIOUS
  <2>2. CASE Evaluated(g, n).state = "valid"  BY <2>1, <2>2
  <2>3. CASE Evaluated(g, n).state # "valid"
    <3>1. held[n] = g.held[n]  BY <2>1, <2>3, UnclaimedIsHeld
    <3>2. g.held[n] = g.valid[n]  BY <3>1 DEF Whole
    <3> QED  BY <2>3, <3>1, <3>2
  <2> QED  BY <2>2, <2>3
<1>5. \A n \in Fields(g) : held[n] \in Texts /\ valid[n] \in Texts
  <2> SUFFICES ASSUME NEW n \in Fields(g)  PROVE held[n] \in Texts /\ valid[n] \in Texts
    OBVIOUS
  <2>1. g.held[n] \in Texts /\ g.valid[n] \in Texts  BY DEF Whole
  <2>2. Evaluated(g, n).value \in Texts  BY <2>1, WholeIsRead, EvaluatedIsText
  <2>3. "none" \in Texts  BY DEF Texts
  <2> QED  BY <2>1, <2>2, <2>3
<1>6. held = [n \in Fields(g) |-> held[n]] /\ valid = [n \in Fields(g) |-> valid[n]]
  OBVIOUS
<1> HIDE DEF held, valid, holding, h
<1>7. h.config = g.config /\ h.signals = g.signals /\ h.held = held /\ h.valid = valid
  BY <1>2
<1>8. Whole(h)
  BY <1>2, <1>3, <1>4, <1>5, <1>6, <1>7 DEF Whole
<1> QED  BY <1>7, <1>8 DEF h

(* A graph that other signals of its bindings move into.                   *)
LEMMA OtherSignals ==
  ASSUME NEW g, Whole(g), NEW signals \in [Bindings -> Signals \cup {NoSignal}]
  PROVE  /\ Whole([g EXCEPT !.signals = signals])
         /\ [g EXCEPT !.signals = signals].signals = signals
         /\ [g EXCEPT !.signals = signals].config = g.config
<1> DEFINE h == [g EXCEPT !.signals = signals]
<1>1. g = [config |-> g.config, signals |-> g.signals, held |-> g.held, valid |-> g.valid]
  BY DEF Whole
<1>2. h = [config |-> g.config, signals |-> signals, held |-> g.held, valid |-> g.valid]
  BY <1>1
<1> HIDE DEF h
<1>3. h.config = g.config /\ h.signals = signals /\ h.held = g.held /\ h.valid = g.valid
  BY <1>2
<1>4. Fields(h) = Fields(g)  BY <1>3 DEF Fields
<1>5. Whole(h)  BY <1>2, <1>3, <1>4 DEF Whole
<1> QED  BY <1>3, <1>5 DEF h

(* What a graph is seeded with is evidence of the other graph, untouched,  *)
(* or what the graph has itself.                                           *)
SeededSignals(new, old) ==
  [b \in Bindings |-> IF SameSource(new.config.bindings[b], old.config.bindings[b])
                         /\ old.signals[b] # NoSignal
                      THEN Carried(old.signals[b]) ELSE new.signals[b]]

LEMMA SeededKeeps ==
  ASSUME NEW new, Whole(new), NEW old, Whole(old)
  PROVE  /\ Whole(Seeded(new, old))
         /\ Seeded(new, old).config = new.config
         /\ Seeded(new, old).signals = SeededSignals(new, old)
<1> DEFINE signals == SeededSignals(new, old)
<1>1. signals \in [Bindings -> Signals \cup {NoSignal}]
  BY DEF SeededSignals, Carried, Whole
<1>2. new = [config |-> new.config, signals |-> new.signals, held |-> new.held, valid |-> new.valid]
  BY DEF Whole
<1>3. Seeded(new, old) = [new EXCEPT !.signals = signals]
  BY <1>2 DEF Seeded, SeededSignals
<1> HIDE DEF signals
<1>4. QED  BY <1>1, <1>3, OtherSignals DEF signals

(* Time turns evidence into evidence.                                      *)
LEMMA AgedIsEvidence ==
  ASSUME NEW ev \in [kind : Kinds, age : -1..MaxAge]
  PROVE  Aged(ev) \in [kind : Kinds, age : -1..MaxAge]
  BY GraphConstants DEF Aged

LEMMA OlderKeeps ==
  ASSUME NEW g, Whole(g)
  PROVE  /\ Whole(Older(g))
         /\ Older(g).config = g.config
         /\ \A b \in Bindings : Older(g).signals[b] = Later(g.signals[b])
<1> DEFINE signals == [b \in Bindings |-> Later(g.signals[b])]
<1>1. signals \in [Bindings -> Signals \cup {NoSignal}]
  <2> SUFFICES ASSUME NEW b \in Bindings, g.signals[b] # NoSignal
               PROVE  [g.signals[b] EXCEPT !.ev = Aged(@)] \in Signals
    BY DEF Later
  <2>1. g.signals[b] \in Signals  BY DEF Whole
  <2>2. Aged(g.signals[b].ev) \in [kind : Kinds, age : -1..MaxAge]
    BY <2>1, AgedIsEvidence DEF Signals
  <2> QED  BY <2>1, <2>2 DEF Signals
<1>2. g = [config |-> g.config, signals |-> g.signals, held |-> g.held, valid |-> g.valid]
  BY DEF Whole
<1>3. Older(g) = [g EXCEPT !.signals = signals]  BY <1>2 DEF Older
<1>4. \A b \in Bindings : signals[b] = Later(g.signals[b])  OBVIOUS
<1> HIDE DEF signals
<1>5. QED  BY <1>1, <1>3, <1>4, OtherSignals

-----------------------------------------------------------------------------
(* The steps of the graph.                                                 *)

LEMMA InitGInv == Init => GInv
  BY EmptyIsWhole DEF Init, GInv

LEMMA TickKeepsGInv == GInv /\ Tick => GInv'
  BY OlderKeeps DEF GInv, Tick

LEMMA IngestKeepsGInv ==
  ASSUME GInv, NEW b \in Bindings, NEW o \in Observations, Ingest(b, o)
  PROVE  GInv'
<1> DEFINE s == [value |-> o.value, ev |-> [kind |-> o.kind, age |-> o.age]]
           signals == [graph.signals EXCEPT ![b] = s]
<1>1. s \in Signals  BY GraphConstants DEF Signals
<1>2. Whole(graph)  BY DEF GInv
<1>3. signals \in [Bindings -> Signals \cup {NoSignal}]  BY <1>1, <1>2 DEF Whole
<1>4. graph' = [graph EXCEPT !.signals = signals]  BY DEF Ingest
<1> HIDE DEF signals
<1>5. Whole(graph')  BY <1>2, <1>3, <1>4, OtherSignals
<1>6. plan' = plan  BY DEF Ingest
<1> QED  BY <1>5, <1>6 DEF GInv

LEMMA PrepareKeepsGInv ==
  ASSUME GInv, NEW c \in Configs, Prepare(c)
  PROVE  GInv'
<1> DEFINE none == [b \in Bindings |-> NoSignal]
           g == Evaluate(Seeded(EmptyGraph(c), graph))
<1>1. Whole(g)  BY EmptyIsWhole, SeededKeeps, EvaluateKeeps DEF GInv, Prepare
<1>2. none \in [Bindings -> Signals \cup {NoSignal}]  OBVIOUS
<1>3. plan' = [g EXCEPT !.signals = none] /\ graph' = graph  BY DEF Prepare
<1>4. \A b \in Bindings : none[b] = NoSignal  OBVIOUS
<1> HIDE DEF none, g
<1>5. Whole(plan') /\ plan'.signals = none  BY <1>1, <1>2, <1>3, OtherSignals
<1> QED  BY <1>3, <1>4, <1>5 DEF GInv

LEMMA StepKeepsGInv == GInv /\ [Next]_vars => GInv'
<1> SUFFICES ASSUME GInv, [Next]_vars  PROVE GInv'
  OBVIOUS
<1>1. CASE Tick  BY <1>1, TickKeepsGInv
<1>2. CASE \E b \in Bindings, o \in Observations : Ingest(b, o)  BY <1>2, IngestKeepsGInv
<1>3. CASE EvaluateContract  BY <1>3, EvaluateKeeps DEF EvaluateContract, GInv
<1>4. CASE \E c \in Configs : Prepare(c)  BY <1>4, PrepareKeepsGInv
<1>5. CASE Activate  BY <1>5, SeededKeeps DEF Activate, GInv
<1>6. CASE Abandon  BY <1>6 DEF Abandon, GInv
<1>7. CASE Restart
  <2>1. graph.config \in Configs /\ Accepted(graph.config)  BY DEF GInv, Whole
  <2> QED  BY <1>7, <2>1, EmptyIsWhole, EvaluateKeeps DEF Restart, GInv
<1>8. CASE UNCHANGED vars  BY <1>8 DEF vars, GInv
<1> QED  BY <1>1, <1>2, <1>3, <1>4, <1>5, <1>6, <1>7, <1>8 DEF Next

(* GraphInvariant: signals are evidence of known origins and ages, every   *)
(* graph runs a configuration the registry accepts and holds only values   *)
(* that were valid, and a prepared graph has no signals of its own.        *)
THEOREM GraphInvariant == Spec => []GInv
  BY InitGInv, StepKeepsGInv, PTL DEF Spec

(* GraphTypeOK: the running and the prepared graph hold values and         *)
(* evidence of their kinds, for the fields of their schema.                *)
THEOREM GraphTypeOK == Spec => []TypeOK
<1>1. GInv => TypeOK
  <2> SUFFICES ASSUME GInv, NEW g \in {graph} \cup ({plan} \ {NoPlan})
               PROVE  /\ g.config \in Configs
                      /\ \A b \in Bindings : g.signals[b] # NoSignal =>
                           /\ g.signals[b].value \in Texts
                           /\ g.signals[b].ev \in [kind : Kinds, age : -1..MaxAge]
                      /\ g.held \in [Fields(g) -> Texts] /\ g.valid \in [Fields(g) -> Texts]
    BY DEF TypeOK
  <2>1. Whole(g)  BY DEF GInv
  <2>2. \A b \in Bindings : g.signals[b] # NoSignal => g.signals[b] \in Signals
    BY <2>1 DEF Whole
  <2>3. g.held \in [Fields(g) -> Texts]  BY <2>1 DEF Whole
  <2>4. g.valid \in [Fields(g) -> Texts]  BY <2>1 DEF Whole
  <2>5. g.config \in Configs  BY <2>1 DEF Whole
  <2> QED  BY <2>2, <2>3, <2>4, <2>5 DEF Signals
<1> QED  BY <1>1, GraphInvariant, PTL

LEMMA InvariantIsRead == GInv => Read(graph)
  BY WholeIsRead DEF GInv

(* GraphClaimsAreProven: where no fusion reads a count of opening sources, *)
(* a healthy field rests on at least one source and on none whose evidence *)
(* is old, early, replayed, restored or only read, and a healthy contract  *)
(* has none but healthy fields, however its fusions nest.                  *)
THEOREM GraphClaimsAreProven ==
  ASSUME CountsStandAlone
  PROVE  Spec => []ClaimsAreProven
<1>1. GInv => ClaimsAreProven
  <2> SUFFICES ASSUME GInv  PROVE ClaimsAreProven
    OBVIOUS
  <2>1. Read(graph)  BY InvariantIsRead
  <2>2. ASSUME NEW n \in Fields(graph), Evaluated(graph, n).judged.health = "healthy"
        PROVE  /\ Evaluated(graph, n).state = "valid" /\ Evaluated(graph, n).complete
               /\ Evaluated(graph, n).active # {}
               /\ StrategyOf(n) # "opening_source_count" =>
                    \A b \in Evaluated(graph, n).active : Proven(b, FieldSchema(graph, n))
    BY <2>1, <2>2, HealthyIsProven
  <2>3. ASSUME Health(graph) = "healthy", NEW n \in Fields(graph)
        PROVE  Evaluated(graph, n).judged.health = "healthy"
    BY <2>3 DEF Health
  <2> QED  BY <2>2, <2>3 DEF ClaimsAreProven
<1> QED  BY <1>1, GraphInvariant, PTL

(* GraphDecisionsAreForced: a field that Boolean fusions decide, nested as *)
(* deep as the configuration likes, has the value that its current sources *)
(* force; no value of an absent or outdated one could turn it round.       *)
THEOREM GraphDecisionsAreForced == Spec => []DecisionsAreForced
<1>1. GInv => DecisionsAreForced  BY InvariantIsRead, ReadGraphForces
<1> QED  BY <1>1, GraphInvariant, PTL

(* GraphOpeningFieldsAgree: where the opening contract is built of the     *)
(* pilot's fusions, its state, its availability and whether it is open     *)
(* tell one story, each by its own strategy.                               *)
THEOREM GraphOpeningFieldsAgree ==
  ASSUME OpeningsAsBuilt
  PROVE  Spec => []OpeningFieldsAgree
<1>1. GInv => OpeningFieldsAgree  BY InvariantIsRead, ReadGraphAgrees
<1> QED  BY <1>1, GraphInvariant, PTL

(* GraphPhysicalNeverGuessed: where two contacts, or one of several        *)
(* Boolean sources, decide a physical state, it rests on current evidence  *)
(* that does not contradict itself, never on a held value or a default.    *)
THEOREM GraphPhysicalNeverGuessed ==
  ASSUME CountsStandAlone, PhysicalAsBuilt
  PROVE  Spec => []PhysicalNeverGuessed
<1>1. GInv => PhysicalNeverGuessed  BY InvariantIsRead, ReadGraphNeverGuesses
<1> QED  BY <1>1, GraphInvariant, PTL

(* GraphHeldWasValid: a field that falls back to its last value never      *)
(* gives out anything but the last value of this very graph that was       *)
(* valid, and marks it as degraded.                                        *)
THEOREM GraphHeldWasValid == Spec => []HeldWasValid
<1>1. GInv => HeldWasValid
  <2> SUFFICES ASSUME GInv, NEW n \in Fields(graph),
                      FieldSchema(graph, n).fallback = "hold_last",
                      Evaluated(graph, n).state # "valid", Evaluated(graph, n).value # "none"
               PROVE  /\ Evaluated(graph, n).value = graph.valid[n]
                      /\ Evaluated(graph, n).judged.health = "degraded"
    BY DEF HeldWasValid
  <2>1. Whole(graph)  BY DEF GInv
  <2>2. /\ Evaluated(graph, n).value = graph.held[n]
        /\ Evaluated(graph, n).judged.health = "degraded"
    BY <2>1, UnclaimedIsHeld
  <2>3. graph.held[n] # "none" => graph.held[n] = graph.valid[n]  BY <2>1 DEF Whole
  <2> QED  BY <2>2, <2>3
<1> QED  BY <1>1, GraphInvariant, PTL

(* GraphActivationKeepsAge: an activation carries over the evidence of     *)
(* sources that stay and are enabled, exactly as old as it is; what it     *)
(* cannot carry over is gone.                                              *)
THEOREM GraphActivationKeepsAge == Spec => ActivationKeepsAge
<1> DEFINE Kept == \A b \in Bindings : graph'.signals[b] # NoSignal =>
                     /\ graph'.signals[b] = graph.signals[b]
                     /\ graph'.config.bindings[b].source = graph.config.bindings[b].source
                     /\ graph'.config.bindings[b].enabled
           Ends == plan # NoPlan /\ plan' = NoPlan /\ graph' # graph
<1>1. GInv /\ [Next]_vars => [Ends => Kept]_vars
  <2> SUFFICES ASSUME GInv, Next, Ends  PROVE Kept
    OBVIOUS
  <2>1. Whole(graph) /\ Whole(plan) /\ \A b \in Bindings : plan.signals[b] = NoSignal
    BY DEF GInv
  <2>2. Activate \/ Restart
    BY DEF Next, Tick, Ingest, EvaluateContract, Prepare, Abandon
  <2>3. CASE Activate
    <3>1. graph'.config = plan.config /\ graph'.signals = SeededSignals(plan, graph)
      BY <2>1, <2>3, SeededKeeps DEF Activate
    <3> QED  BY <2>1, <3>1 DEF SeededSignals, SameSource, Carried
  <2>4. CASE Restart
    <3>1. graph.config \in Configs /\ Accepted(graph.config)  BY <2>1 DEF Whole
    <3>2. graph'.signals = EmptyGraph(graph.config).signals
      BY <2>4, <3>1, EmptyIsWhole, EvaluateKeeps DEF Restart
    <3>3. \A b \in Bindings : graph'.signals[b] = NoSignal  BY <3>2 DEF EmptyGraph
    <3> QED  BY <3>3
  <2> QED  BY <2>2, <2>3, <2>4
<1>2. Spec => [][Ends => Kept]_vars
  BY <1>1, GraphInvariant, PTL DEF Spec
<1> QED  BY <1>2 DEF ActivationKeepsAge

-----------------------------------------------------------------------------
(* The judges: they move with the graph and keep a contract of its schema. *)

LEMMA GatesImplementGraph == GatesSpec => Spec
<1>1. GatesInit => Init  BY DEF GatesInit
<1>2. [GatesNext]_gateVars => [Next]_vars
  BY DEF GatesNext, gateVars, vars, Next, Observe, Publish, PrepareContract,
         ActivateContract, AbandonContract, RestartContract
<1> QED  BY <1>1, <1>2, PTL DEF GatesSpec, Spec

(* The contract that is kept has the fields of the graph it belongs to.    *)
CInv ==
  /\ DOMAIN contract = Fields(graph)
  /\ plan # NoPlan => DOMAIN prepared = Fields(plan)

LEMMA PublishedFields == \A g : DOMAIN Published(g) = Fields(g)
  BY DEF Published

LEMMA SameFields ==
  ASSUME NEW g, NEW h, g.config = h.config
  PROVE  Fields(g) = Fields(h)
  BY DEF Fields

LEMMA InitCInv == GatesInit => CInv
<1> SUFFICES ASSUME GatesInit  PROVE CInv
  OBVIOUS
<1>1. plan = NoPlan /\ contract = Published(graph)  BY DEF GatesInit, Init
<1> QED  BY <1>1, PublishedFields DEF CInv

LEMMA StepKeepsCInv == GInv /\ CInv /\ [GatesNext]_gateVars => CInv'
<1> SUFFICES ASSUME GInv, CInv, [GatesNext]_gateVars  PROVE CInv'
  OBVIOUS
<1>1. CASE Observe
  <2>1. graph'.config = graph.config /\ plan' = plan
    <3>1. CASE Tick  BY <3>1, OlderKeeps DEF Tick, GInv
    <3>2. CASE \E b \in Bindings, o \in Observations : Ingest(b, o)
      BY <3>2 DEF Ingest, GInv, Whole
    <3> QED  BY <1>1, <3>1, <3>2 DEF Observe
  <2> QED  BY <1>1, <2>1, SameFields DEF Observe, CInv
<1>2. CASE Publish
  <2>1. graph'.config = graph.config /\ plan' = plan
    BY <1>2, EvaluateKeeps DEF Publish, EvaluateContract, GInv
  <2> QED  BY <1>2, <2>1, SameFields, PublishedFields DEF Publish, CInv
<1>3. CASE \E c \in Configs : PrepareContract(c)
  <2>1. PICK c \in Configs : PrepareContract(c)  BY <1>3
  <2> DEFINE g == Seeded(EmptyGraph(c), graph)
  <2>2. Whole(g) /\ Whole(Evaluate(g)) /\ Evaluate(g).config = g.config
    BY <2>1, EmptyIsWhole, SeededKeeps, EvaluateKeeps DEF GInv, PrepareContract, Prepare
  <2>3. plan' = [Evaluate(g) EXCEPT !.signals = [b \in Bindings |-> NoSignal]]
        /\ graph' = graph /\ prepared' = Published(g) /\ contract' = contract
    BY <2>1 DEF PrepareContract, Prepare
  <2> HIDE DEF g
  <2>4. plan'.config = g.config  BY <2>2, <2>3, OtherSignals
  <2> QED  BY <2>3, <2>4, SameFields, PublishedFields DEF CInv
<1>4. CASE ActivateContract
  <2>1. graph'.config = plan.config /\ plan' = NoPlan /\ plan # NoPlan
    BY <1>4, SeededKeeps DEF ActivateContract, Activate, GInv
  <2> QED  BY <1>4, <2>1, SameFields DEF ActivateContract, CInv
<1>5. CASE AbandonContract  BY <1>5 DEF AbandonContract, Abandon, CInv
<1>6. CASE RestartContract
  <2> DEFINE g == EmptyGraph(graph.config)
  <2>1. Whole(g)  BY EmptyIsWhole DEF GInv, Whole
  <2>2. graph' = Evaluate(g) /\ plan' = NoPlan /\ contract' = Published(g)
    BY <1>6 DEF RestartContract, Restart
  <2> HIDE DEF g
  <2>3. graph'.config = g.config  BY <2>1, <2>2, EvaluateKeeps
  <2> QED  BY <2>2, <2>3, SameFields, PublishedFields DEF CInv
<1>7. CASE UNCHANGED gateVars  BY <1>7 DEF gateVars, CInv
<1> QED  BY <1>1, <1>2, <1>3, <1>4, <1>5, <1>6, <1>7 DEF GatesNext

(* GatesInvariant: beside the invariant of the graph, the stored and the   *)
(* prepared contract have exactly the fields of their graph's schema.      *)
THEOREM GatesInvariant == GatesSpec => [](GInv /\ CInv)
<1>1. GatesSpec => []GInv  BY GatesImplementGraph, GraphInvariant, PTL
<1> QED  BY <1>1, InitCInv, StepKeepsCInv, PTL DEF GatesSpec

LEMMA TimeToLive ==
  ASSUME GInv, NEW n \in Fields(graph)
  PROVE  SchemaField(graph, n).ttl \in Nat
<1>1. graph.config.schema \in DOMAIN Schemas  BY GraphConstants DEF GInv, Whole
<1>2. SchemaField(graph, n) \in FieldSchemas  BY <1>1, GraphConstants DEF SchemaField, Fields
<1> QED  BY <1>2 DEF FieldSchemas

-----------------------------------------------------------------------------
(* A judge that is content has a source.                                   *)

LEMMA FreshIsCurrent ==
  ASSUME NEW ev \in [kind : Kinds, age : -1..MaxAge], NEW ttl \in Nat, NEW requirement,
         Freshness(ev, ttl, requirement) = "fresh"
  PROVE  ev.kind \in {"device", "ha_event"} /\ ev.age \in 0..ttl
  BY GraphConstants DEF Freshness, Expired, Kinds

LEMMA ValidIsReadable ==
  ASSUME NEW value, NEW field, Classify(value, field) = "valid"
  PROVE  value \notin {"none", "unknown", "unavailable", "garbage"}
  BY DEF Classify, TypeValues

LEMMA PassMeansProven ==
  ASSUME NEW field, NEW e, FieldGate(field, e) = "pass"
  PROVE  e.state = "valid" /\ e.judged.health = "healthy" /\ e.complete
  BY DEF FieldGate, NotReady, Judged

LEMMA VerifiedPasses ==
  ASSUME NEW g, NEW n, Verified(g, n).status = "pass"
  PROVE  /\ FieldGate(SchemaField(g, n), contract[n]) = "pass"
         /\ Verified(g, n).value = contract[n].value
         /\ \E b \in VerifiedBindings(g, n) \cap contract[n].active :
              Confirms(g, b, SchemaField(g, n))
  BY DEF Verified, NotReady

LEMMA VerifiedAreBindings == \A g, n : VerifiedBindings(g, n) \subseteq Bindings
  BY DEF VerifiedBindings

LEMMA OverallPasses == \A S : Overall(S) = "pass" <=> S \subseteq {"pass"}
  BY DEF Overall

(* GatesShadowClaimsHaveSources: the shadow verification claims a physical *)
(* value only where the stored contract proved it and a source that        *)
(* decided it still shows a valid value in time; and all of it passes only *)
(* where the evidence gate passes the stored contract.                     *)
THEOREM GatesShadowClaimsHaveSources == GatesSpec => []ShadowClaimsHaveSources
<1>1. GInv /\ CInv => ShadowClaimsHaveSources
  <2> SUFFICES ASSUME GInv, CInv  PROVE ShadowClaimsHaveSources
    OBVIOUS
  <2>1. ASSUME NEW n \in Fields(graph), Claims(graph, n)
        PROVE  /\ Verified(graph, n).value = contract[n].value
               /\ contract[n].judged.health = "healthy" /\ contract[n].complete
               /\ \E b \in contract[n].active :
                    /\ graph.signals[b] # NoSignal
                    /\ graph.signals[b].ev.kind \in {"device", "ha_event"}
                    /\ graph.signals[b].ev.age \in 0..SchemaField(graph, n).ttl
                    /\ graph.signals[b].value \notin {"none", "unknown", "unavailable", "garbage"}
    <3>1. Verified(graph, n).status = "pass"  BY <2>1 DEF Claims
    <3>2. PICK b \in VerifiedBindings(graph, n) \cap contract[n].active :
            Confirms(graph, b, SchemaField(graph, n))
      BY <3>1, VerifiedPasses
    <3>3. b \in Bindings  BY <3>2, VerifiedAreBindings
    <3>4. graph.signals[b] # NoSignal /\ graph.signals[b] \in Signals
      BY <3>2, <3>3 DEF Confirms, GInv, Whole
    <3>5. /\ graph.signals[b].ev.kind \in {"device", "ha_event"}
          /\ graph.signals[b].ev.age \in 0..SchemaField(graph, n).ttl
      BY <3>2, <3>4, TimeToLive, FreshIsCurrent DEF Confirms, Signals
    <3>6. graph.signals[b].value \notin {"none", "unknown", "unavailable", "garbage"}
      BY <3>2, ValidIsReadable DEF Confirms
    <3> QED  BY <3>1, <3>2, <3>4, <3>5, <3>6, VerifiedPasses, PassMeansProven
  <2>2. ASSUME ShadowStatus(graph) = "pass"
        PROVE  GateOf(graph, contract) = "pass"
    <3>1. \A n \in Fields(graph) : Verified(graph, n).status = "pass"
      BY <2>2, OverallPasses DEF ShadowStatus
    <3>2. \A n \in Fields(graph) : FieldGate(SchemaField(graph, n), contract[n]) = "pass"
      BY <3>1, VerifiedPasses
    <3> QED  BY <3>2, OverallPasses DEF GateOf, CInv
  <2> QED  BY <2>1, <2>2 DEF ShadowClaimsHaveSources
<1> QED  BY <1>1, GatesInvariant, PTL

(* LiveEvidenceSatisfiesOwner: where a probe passes for every record of a  *)
(* field with sources of its own, the owner's gate passes every value the  *)
(* schema accepts for it: the two read one matrix in the same way.         *)
THEOREM LiveEvidenceSatisfiesOwner ==
  ASSUME NEW g, NEW n, n # "available", NEW values,
         LiveProven(g, n), Classify(values[n], SchemaField(g, n)) = "valid"
  PROVE  OwnerStatus(g, n, values) = "pass"
<1>1. \A b \in RecordsOf(n) :
        /\ Records[b].disposition = "candidate"
        /\ AssessedFreshness(g, b, SchemaField(g, n).ttl) = "fresh"
  <2> SUFFICES ASSUME NEW b \in RecordsOf(n), NEW probe \in Probes,
                      LiveStatus(g, n, b, SchemaField(g, n).ttl, probe) = "pass"
               PROVE  /\ Records[b].disposition = "candidate"
                      /\ AssessedFreshness(g, b, SchemaField(g, n).ttl) = "fresh"
    BY DEF LiveProven
  <2> QED  BY DEF LiveStatus, LiveFailure, LiveFreshness
<1>2. RecordsOf(n) # {}  BY DEF LiveProven
<1> QED  BY <1>1, <1>2 DEF OwnerStatus, OwnerRaw

-----------------------------------------------------------------------------
(* What the gate lets pass of a fresh evaluation.                          *)

Passes(d, field) ==
  /\ Usable(d, field) /\ d.complete /\ ~d.conflict
  /\ Freshness(d.by.ev, Least(field.ttl, d.by.ttl), field.requirement) = "fresh"

LEMMA ClaimPasses ==
  ASSUME NEW d, NEW field, NEW F
  PROVE  FieldGate(F, Claimed(d, field)) = "pass" <=>
           /\ d.complete /\ ~d.conflict
           /\ Freshness(d.by.ev, Least(field.ttl, d.by.ttl), field.requirement) = "fresh"
<1> DEFINE freshness == Freshness(d.by.ev, Least(field.ttl, d.by.ttl), field.requirement)
           q == Quality(field, freshness, TRUE, FALSE)
           good == Judged("healthy", "fresh", "valid", "good")
           e == Claimed(d, field)
<1>1. /\ e.state = "valid" /\ e.complete = d.complete
      /\ e.judged = IF d.conflict THEN [q EXCEPT !.health = "degraded", !.quality = "conflict"]
                    ELSE IF ~d.complete THEN [q EXCEPT !.health = "degraded", !.quality = "degraded"]
                    ELSE q
  BY DEF Claimed
<1>2. q = [health |-> q.health, freshness |-> q.freshness, safety |-> q.safety, quality |-> q.quality]
  BY DEF Quality, Judged
<1>3. good.health = "healthy"  BY DEF Judged
<1>4. q = good <=> freshness = "fresh"
  <2> HIDE DEF freshness
  <2> QED  BY DEF Quality, Judged
<1> HIDE DEF q, e, freshness, good
<1>5. [q EXCEPT !.health = "degraded", !.quality = "conflict"].health = "degraded"
      /\ [q EXCEPT !.health = "degraded", !.quality = "degraded"].health = "degraded"
  BY <1>2
<1>6. e.judged = good /\ d.complete <=> ~d.conflict /\ d.complete /\ q = good
  BY <1>1, <1>3, <1>5
<1>7. FieldGate(F, e) = "pass" <=> e.state = "valid" /\ e.judged = good /\ e.complete
  BY DEF FieldGate, NotReady, good
<1> QED  BY <1>1, <1>4, <1>6, <1>7 DEF e, freshness

LEMMA GatePasses ==
  ASSUME NEW g, NEW n, NEW F
  PROVE  FieldGate(F, Evaluated(g, n)) = "pass" <=> Passes(Decision(g, n), FieldSchema(g, n))
<1> DEFINE d == Decision(g, n)
           field == FieldSchema(g, n)
           held == g.held[n]
           behind == Behind(g, n)
<1>1. Evaluated(g, n) = IF Usable(d, field) THEN Claimed(d, field)
                        ELSE FellBack(d, field, held, behind)
  BY EvaluatedFrom
<1> HIDE DEF d, field, held, behind
<1>2. FieldGate(F, FellBack(d, field, held, behind)) # "pass"
  BY FallsBackUnhealthy DEF FieldGate, NotReady
<1>3. FieldGate(F, Claimed(d, field)) = "pass" <=>
        /\ d.complete /\ ~d.conflict
        /\ Freshness(d.by.ev, Least(field.ttl, d.by.ttl), field.requirement) = "fresh"
  BY ClaimPasses
<1> QED  BY <1>1, <1>2, <1>3 DEF Passes, d, field

(* What contacts settle passes.                                            *)
LEMMA SettledPasses ==
  ASSUME NEW g, Read(g), NEW n \in Fields(g), FusionsFor(g, n) # {}, SettledFor(g, n),
         g.config.fusions[FusionOf(g, n)].strategy
           \in {"opening_contacts", "opening_is_open", "opening_available"}
  PROVE  Passes(Decision(g, n), FieldSchema(g, n))
<1> DEFINE f == FusionOf(g, n)
           fusion == g.config.fusions[f]
           field == FieldSchema(g, n)
           contacts == SignalsOf(g, fusion.inputs)
           first == contacts[1]
           ids == {s.id : s \in Elems(contacts)}
           sel == SelectOpening(fusion, contacts, field)
           d == Decision(g, n)
           settled == Settled(fusion, contacts, field)
<1>1. f \in DOMAIN g.config.fusions /\ IsOpening(fusion) /\ field.ttl \in Nat
  BY FusionOfField, FieldIsOfSchema DEF IsOpening, Read
<1>2. d = Selection(g, f, field)  BY DEF Decision
<1>3. /\ d.value = sel.value /\ d.state = sel.state /\ d.by = sel.by
      /\ d.conflict = (sel.conflict \/ FALSE) /\ d.complete = (sel.complete /\ TRUE)
      /\ fusion.inputs \in Seq(Bindings)
  BY <1>1, <1>2, OpeningReads
<1>4. settled /\ first # NoSignal  BY DEF SettledFor, ContactsOf
<1>5. \E value : sel = Decided(value, first, ids, TRUE, FALSE)
  <2>1. Len(fusion.inputs) \in Nat  BY <1>3, LenProperties
  <2>2. fusion.strategy \in {"opening_contacts", "opening_is_open", "opening_available"}
    OBVIOUS
  <2> HIDE DEF contacts, fusion, field
  <2>3. OpeningOutcome(fusion, contacts, field)  BY <2>1, OpeningDecides
  <2>4. Len(fusion.inputs) = 2  BY <1>4 DEF settled, Settled
  <2> QED  BY <1>4, <2>2, <2>3, <2>4, Zenon DEF OpeningOutcome, settled, sel, first, ids
<1>6. Freshness(first.ev, Least(field.ttl, first.ttl), field.requirement) = "fresh"
  <2> HIDE DEF contacts, fusion, field
  <2>1. Len(contacts) = 2 /\ ContactsFresh(contacts, field)  BY <1>4 DEF settled, Settled
  <2>2. first \in Elems(contacts)  BY <2>1 DEF Elems
  <2> QED  BY <2>1, <2>2 DEF ContactsFresh, IsFresh
<1> HIDE DEF f, fusion, field, contacts, first, ids, sel, d, settled
<1>7. /\ sel.by = first /\ sel.state = "valid" /\ sel.conflict = FALSE /\ sel.complete = TRUE
  BY <1>5 DEF Decided
<1>8. d.by = first /\ d.state = "valid" /\ d.conflict = FALSE /\ d.complete = TRUE
  BY <1>3, <1>7
<1> QED  BY <1>4, <1>6, <1>8 DEF Passes, Usable, d, field

(* The state that contacts decide is one of an opening.                    *)
LEMMA ContactsSayState ==
  ASSUME NEW fusion, NEW contacts, NEW field, fusion.strategy = "opening_contacts",
         SelectOpening(fusion, contacts, field).by # NoSignal
  PROVE  SelectOpening(fusion, contacts, field).value \in {"open", "tilted", "closed"}
<1> DEFINE values == [i \in 1..Len(contacts) |-> contacts[i].value]
           whole  == Len(contacts) = Len(fusion.inputs)
           valid  == whole /\ Elems(values) \subseteq {"true", "false"}
           fresh  == valid /\ ContactsFresh(contacts, field)
           both   == fresh /\ Elems(values) = {"true"}
           ids    == {s.id : s \in Elems(contacts)}
           r == SelectOpening(fusion, contacts, field)
           Claim(value, complete) ==
             Decided(value, contacts[1], IF complete THEN ids ELSE {}, complete, FALSE)
           says == IF values[1] = "true" THEN "open"
                   ELSE IF values[2] = "true" THEN "tilted" ELSE "closed"
<1>1. r = CASE ~fresh \/ Len(contacts) # 2 -> Undecided("unknown")
            [] Len(contacts) = 2 /\ both -> [Undecided("unknown") EXCEPT !.conflict = TRUE]
            [] OTHER -> Claim(says, TRUE)
  BY Zenon DEF SelectOpening
<1>2. says \in {"open", "tilted", "closed"} /\ (both => fresh)  OBVIOUS
<1> HIDE DEF fresh, both, says
<1>3. Claim(says, TRUE).value = says  BY DEF Decided
<1>4. Undecided("unknown").by = NoSignal
      /\ [Undecided("unknown") EXCEPT !.conflict = TRUE].by = NoSignal
  BY DEF Undecided
<1> HIDE DEF Claim, r
<1>5. r = Undecided("unknown") \/ r = [Undecided("unknown") EXCEPT !.conflict = TRUE]
      \/ r = Claim(says, TRUE)
  <2>1. CASE ~fresh \/ Len(contacts) # 2  BY <1>1, <1>2, <2>1
  <2>2. CASE fresh /\ Len(contacts) = 2 /\ both  BY <1>1, <1>2, <2>2
  <2>3. CASE fresh /\ Len(contacts) = 2 /\ ~both  BY <1>1, <1>2, <2>3
  <2> QED  BY <2>1, <2>2, <2>3
<1>6. r.by # NoSignal  BY DEF r
<1>7. r = Claim(says, TRUE)  BY <1>4, <1>5, <1>6
<1>8. r.value \in {"open", "tilted", "closed"}  BY <1>2, <1>3, <1>7
<1> QED  BY <1>8 DEF r

-----------------------------------------------------------------------------
(* The owner's gate and the evidence gate.                                 *)

LEMMA OwnerNeedsEveryRecord ==
  ASSUME NEW g, NEW n, NEW value, OwnerRaw(g, n, value) = "pass"
  PROVE  /\ \A b \in RecordsOf(n) : Records[b].disposition # "conflict"
         /\ Classify(value, SchemaField(g, n)) = "valid"
<1> DEFINE field == SchemaField(g, n)
           fresh == {b \in RecordsOf(n) : AssessedFreshness(g, b, field.ttl) = "fresh"}
           conflicts == {b \in fresh : Records[b].disposition = "conflict"}
           candidates == {b \in fresh : Records[b].disposition = "candidate"}
           enough == IF n = "opening_state" THEN candidates = RecordsOf(n) ELSE candidates # {}
<1>1. OwnerRaw(g, n, value)
        = CASE conflicts # {} \/ ~enough -> "blocked"
            [] conflicts = {} /\ enough /\ fresh # RecordsOf(n) ->
                 IF field.physical THEN "blocked" ELSE "degraded"
            [] OTHER -> IF Classify(value, field) = "valid" THEN "pass" ELSE "blocked"
  BY DEF OwnerRaw
<1>2. enough \in BOOLEAN  OBVIOUS
<1> HIDE DEF enough, candidates
<1>3. conflicts = {} /\ fresh = RecordsOf(n) /\ Classify(value, field) = "valid"
  <2> HIDE DEF conflicts, fresh, field
  <2>1. ~(conflicts # {} \/ ~enough)  BY <1>1
  <2>2. ~(conflicts = {} /\ enough /\ fresh # RecordsOf(n))  BY <1>1, <2>1
  <2> QED  BY <1>1, <2>1, <2>2
<1> QED  BY <1>3

(* Where a record is in conflict live evidence does not prove the field.   *)
LEMMA LiveNeedsCandidates ==
  ASSUME NEW g, NEW n, LiveProven(g, n)
  PROVE  /\ RecordsOf(n) # {}
         /\ \A b \in RecordsOf(n) : Records[b].disposition # "conflict"
<1>1. ASSUME NEW b \in RecordsOf(n)  PROVE Records[b].disposition # "conflict"
  <2>1. PICK probe \in Probes : LiveStatus(g, n, b, SchemaField(g, n).ttl, probe) = "pass"
    BY DEF LiveProven
  <2> QED  BY <2>1 DEF LiveStatus, LiveFailure
<1> QED  BY <1>1 DEF LiveProven

(* What contacts decide of an opening passes.                              *)
LEMMA StateOfContactsPasses ==
  ASSUME NEW g, Read(g), NEW n \in Fields(g), NEW F,
         \A f \in FusionsFor(g, n) : g.config.fusions[f].strategy = "opening_contacts",
         Evaluated(g, n).state = "valid"
  PROVE  /\ FieldGate(F, Evaluated(g, n)) = "pass"
         /\ Evaluated(g, n).value \in {"open", "tilted", "closed"}
<1> DEFINE f == FusionOf(g, n)
           fusion == g.config.fusions[f]
           field == FieldSchema(g, n)
           sel == SelectOpening(fusion, SignalsOf(g, fusion.inputs), field)
           d == Decision(g, n)
<1>1. /\ FusionsFor(g, n) # {} /\ d.by # NoSignal /\ d = Selection(g, f, field)
      /\ Evaluated(g, n).value = d.value
  BY ValidIsDecided
<1>2. f \in DOMAIN g.config.fusions /\ f \in FusionsFor(g, n)  BY <1>1, FusionOfField
<1>3. fusion.strategy = "opening_contacts" /\ IsOpening(fusion) /\ field.ttl \in Nat
  BY <1>2, FieldIsOfSchema DEF IsOpening, Read
<1>4. SettledFor(g, n)  BY <1>1, <1>3, ContactsDecideField
<1>5. Passes(d, field)  BY <1>1, <1>3, <1>4, SettledPasses
<1>6. d.value = sel.value /\ d.by = sel.by  BY <1>1, <1>2, <1>3, OpeningReads
<1> HIDE DEF d
<1>7. sel.value \in {"open", "tilted", "closed"}
  <2> HIDE DEF fusion, field
  <2> QED  BY <1>1, <1>3, <1>6, ContactsSayState DEF sel
<1>8. FieldGate(F, Evaluated(g, n)) = "pass"  BY <1>5, GatePasses DEF d
<1> QED  BY <1>1, <1>6, <1>7, <1>8

(* What two contacts say is available passes.                              *)
LEMMA AvailabilityPasses ==
  ASSUME NEW g, Read(g), NEW n \in Fields(g), NEW F,
         \A f \in FusionsFor(g, n) : g.config.fusions[f].strategy = "opening_available"
                                     /\ Len(g.config.fusions[f].inputs) = 2,
         FieldSchema(g, n).fallback # "hold_last", FieldSchema(g, n).safeDefault # "true",
         Evaluated(g, n).value = "true"
  PROVE  FieldGate(F, Evaluated(g, n)) = "pass"
<1> DEFINE d == Decision(g, n)
           field == FieldSchema(g, n)
           held == g.held[n]
           behind == Behind(g, n)
<1>1. FusionsFor(g, n) # {}
  <2>1. Evaluated(g, n) = IF Usable(d, field) THEN Claimed(d, field)
                          ELSE FellBack(d, field, held, behind)
    BY EvaluatedFrom
  <2>2. FusionsFor(g, n) = {} => d.by = NoSignal  BY DecisionIsGrounded
  <2>3. field.fallback # "hold_last" /\ field.safeDefault # "true"  OBVIOUS
  <2> HIDE DEF d, field, held, behind
  <2>4. FellBack(d, field, held, behind).value \in {field.safeDefault, "unknown", "none"}
    BY <2>3 DEF FellBack
  <2>5. Usable(d, field)  BY <2>1, <2>3, <2>4
  <2> QED  BY <2>2, <2>5 DEF Usable
<1>2. /\ g.config.fusions[FusionOf(g, n)].strategy = "opening_available"
      /\ Len(g.config.fusions[FusionOf(g, n)].inputs) = 2
  BY <1>1, FusionOfField
<1>3. SettledFor(g, n)  BY <1>1, <1>2, ContactsDecideAvailability
<1>4. Passes(d, field)  BY <1>1, <1>2, <1>3, SettledPasses
<1> QED  BY <1>4, GatePasses

LEMMA ReadGraphOwnsNoMore ==
  ASSUME Read(graph), MatrixAsBuilt
  PROVE  OwnerNeverOutruns
<1> DEFINE now == [n \in Fields(graph) |-> Evaluated(graph, n)]
           values == [m \in Fields(graph) |-> now[m].value]
           owner(n) == OwnerStatus(graph, n, values)
<1>1. ASSUME NEW n \in OwnerFields(graph)
      PROVE  /\ owner(n) = "pass" => FieldGate(SchemaField(graph, n), now[n]) = "pass"
             /\ LiveProven(graph, n) /\ now[n].state = "valid" => owner(n) = "pass"
  <2> DEFINE field == SchemaField(graph, n)
             e == Evaluated(graph, n)
             c == graph.config
             Serving == {f \in DOMAIN c.fusions : c.fusions[f].contract = Contract
                                                  /\ c.fusions[f].field = n}
  <2>1. /\ n \in Fields(graph) /\ field.required /\ (RecordsOf(n) # {} \/ n = "available")
        /\ now[n] = e /\ values[n] = e.value
        /\ field = Schemas[c.schema][n] /\ n \in DOMAIN Schemas[c.schema] /\ c \in Configs
        /\ Serving = FusionsFor(graph, n)
    BY DEF OwnerFields, SchemaField, Fields, FusionsFor, Read
  <2> HIDE DEF now, values
  <2>2. CASE n = "available"
    <3>1. /\ RecordsOf(n) = {} /\ field.type = "boolean"
          /\ field.fallback = "safe_default" /\ field.safeDefault # "true"
          /\ \A f \in FusionsFor(graph, n) : c.fusions[f].strategy = "opening_available"
                                             /\ Len(c.fusions[f].inputs) = 2
      BY <2>1, <2>2 DEF MatrixAsBuilt
    <3>2. ~LiveProven(graph, n)  BY <3>1 DEF LiveProven
    <3>3. FieldSchema(graph, n) = field
      <4>1. FusionsFor(graph, n) # {} => IsOpening(c.fusions[FusionOf(graph, n)])
        BY <3>1, FusionOfField DEF IsOpening
      <4> QED  BY <2>1, <4>1 DEF FieldSchema, Overridden, FusionOf
    <3>4. ASSUME owner(n) = "pass"  PROVE FieldGate(field, e) = "pass"
      <4>1. Classify(e.value, field) = "valid" /\ e.value # "false"
        BY <2>1, <2>2, <3>4 DEF OwnerStatus, OwnerDerived
      <4> HIDE DEF field, e
      <4>2. e.value = "true"  BY <3>1, <4>1 DEF Classify, TypeValues
      <4>3. FieldSchema(graph, n).fallback # "hold_last" /\ FieldSchema(graph, n).safeDefault # "true"
        BY <3>1, <3>3
      <4> QED  BY <2>1, <3>1, <4>2, <4>3, AvailabilityPasses DEF e
    <3> QED  BY <2>1, <3>2, <3>4
  <2>3. CASE n # "available"
    <3>1. \/ \E b \in RecordsOf(n) : Records[b].disposition = "conflict"
          \/ /\ field.physical /\ field.type = "enum"
             /\ \A f \in FusionsFor(graph, n) : c.fusions[f].strategy = "opening_contacts"
      BY <2>1, <2>3 DEF MatrixAsBuilt
    <3>2. owner(n) = OwnerRaw(graph, n, e.value)  BY <2>1, <2>3 DEF OwnerStatus
    <3>3. ASSUME owner(n) = "pass"  PROVE FieldGate(field, e) = "pass"
      <4>1. /\ \A b \in RecordsOf(n) : Records[b].disposition # "conflict"
            /\ Classify(e.value, field) = "valid"
        BY <3>2, <3>3, OwnerNeedsEveryRecord
      <4>2. e.value # "unknown"  BY <4>1, ValidIsReadable
      <4>3. e.state = "valid"  BY <2>1, <3>1, <4>1, <4>2, UnclaimedPhysicalIsUnknown
      <4> QED  BY <2>1, <3>1, <4>1, <4>3, StateOfContactsPasses
    <3>4. ASSUME LiveProven(graph, n), e.state = "valid"  PROVE owner(n) = "pass"
      <4>1. field.type = "enum" /\ e.value \in {"open", "tilted", "closed"}
        BY <2>1, <3>1, <3>4, LiveNeedsCandidates, StateOfContactsPasses
      <4>2. Classify(values[n], field) = "valid"
        <5> HIDE DEF e, field
        <5> QED  BY <2>1, <4>1 DEF Classify, TypeValues
      <4> QED  BY <2>3, <3>4, <4>2, LiveEvidenceSatisfiesOwner
    <3> QED  BY <2>1, <3>3, <3>4
  <2> QED  BY <2>2, <2>3
<1> QED  BY <1>1 DEF OwnerNeverOutruns

(* GatesOwnerNeverOutruns: over the pilot's matrix the owner's gate, which *)
(* weighs records and not how their values go together, passes no field of *)
(* the current evaluation that the evidence gate stops, and it stops no    *)
(* valid value for which live evidence passes every record.                *)
THEOREM GatesOwnerNeverOutruns ==
  ASSUME MatrixAsBuilt
  PROVE  GatesSpec => []OwnerNeverOutruns
<1>1. GInv => OwnerNeverOutruns  BY InvariantIsRead, ReadGraphOwnsNoMore
<1>2. GatesSpec => []GInv  BY GatesImplementGraph, GraphInvariant, PTL
<1> QED  BY <1>1, <1>2, PTL

-----------------------------------------------------------------------------
(* Waiting.                                                                *)

LEMMA AgeingFreshensNothing ==
  ASSUME NEW ev \in [kind : Kinds, age : -1..MaxAge], ev.age >= 0,
         NEW ttl \in Nat, NEW requirement,
         Freshness(Aged(ev), ttl, requirement) = "fresh"
  PROVE  Freshness(ev, ttl, requirement) = "fresh"
  BY GraphConstants DEF Freshness, Aged, Expired, Kinds

(* A signal that is shown later is shown now, with the same value and      *)
(* origin, and what is fresh of it later is fresh now.                     *)
LEMMA LaterShowsNoMore ==
  ASSUME GInv, NoneEarly, NEW b \in Bindings, Older(graph).signals[b] # NoSignal
  PROVE  LET s == graph.signals[b]
             t == Older(graph).signals[b]
         IN  /\ s # NoSignal /\ t.value = s.value /\ t.ev.kind = s.ev.kind
             /\ \A ttl \in Nat : \A r : Freshness(t.ev, ttl, r) = "fresh"
                                      => Freshness(s.ev, ttl, r) = "fresh"
<1> DEFINE s == graph.signals[b]
<1>1. Older(graph).signals[b] = Later(s)  BY OlderKeeps DEF GInv
<1>2. s # NoSignal /\ Later(s) = [s EXCEPT !.ev = Aged(@)]  BY <1>1 DEF Later
<1>3. s \in Signals  BY <1>2 DEF GInv, Whole
<1>4. s.ev.age >= 0  BY <1>2 DEF NoneEarly
<1> HIDE DEF s
<1>5. s.ev \in [kind : Kinds, age : -1..MaxAge]  BY <1>3 DEF Signals
<1>6. Later(s).value = s.value /\ Later(s).ev = Aged(s.ev)  BY <1>2, <1>3 DEF Signals
<1>7. Aged(s.ev).kind = s.ev.kind  BY <1>5 DEF Aged
<1>8. \A ttl \in Nat : \A r : Freshness(Aged(s.ev), ttl, r) = "fresh" => Freshness(s.ev, ttl, r) = "fresh"
  BY <1>4, <1>5, AgeingFreshensNothing
<1> QED  BY <1>1, <1>2, <1>6, <1>7, <1>8 DEF s

LEMMA LaterAssessesNoMore ==
  ASSUME GInv, NoneEarly, NEW b \in Bindings, NEW ttl \in Nat,
         AssessedFreshness(Older(graph), b, ttl) = "fresh"
  PROVE  AssessedFreshness(graph, b, ttl) = "fresh"
<1>1. Older(graph).signals[b] # NoSignal  BY DEF AssessedFreshness
<1> QED  BY <1>1, LaterShowsNoMore DEF AssessedFreshness

LEMMA LaterOwnsNoMore ==
  ASSUME GInv, NoneEarly, NEW n \in Fields(graph), NEW value,
         OwnerRaw(Older(graph), n, value) = "pass"
  PROVE  OwnerRaw(graph, n, value) = "pass"
<1> DEFINE later == Older(graph)
           ttl == SchemaField(graph, n).ttl
<1>1. SchemaField(later, n) = SchemaField(graph, n)  BY OlderKeeps DEF GInv, SchemaField
<1>2. ttl \in Nat  BY TimeToLive
<1> HIDE DEF later
<1>3. /\ \A b \in RecordsOf(n) : AssessedFreshness(later, b, ttl) = "fresh"
      /\ \A b \in RecordsOf(n) : Records[b].disposition # "conflict"
      /\ Classify(value, SchemaField(graph, n)) = "valid"
      /\ IF n = "opening_state"
         THEN \A b \in RecordsOf(n) : Records[b].disposition = "candidate"
         ELSE \E b \in RecordsOf(n) : Records[b].disposition = "candidate"
  BY <1>1 DEF OwnerRaw, later
<1>4. \A b \in RecordsOf(n) : AssessedFreshness(graph, b, ttl) = "fresh"
  BY <1>2, <1>3, LaterAssessesNoMore DEF RecordsOf, later
<1> QED  BY <1>3, <1>4 DEF OwnerRaw

(* TimeConvincesNoJudge: however long one waits for nothing, neither the   *)
(* owner's gate nor the live evidence of any record nor the shadow         *)
(* verification passes what it does not pass now, unless a timestamp of    *)
(* the future comes of age.                                                *)
THEOREM TimeConvincesNoJudge == GatesSpec => [](NoneEarly => NoJudgeGains(Older(graph)))
<1>1. GInv => (NoneEarly => NoJudgeGains(Older(graph)))
  <2> SUFFICES ASSUME GInv, NoneEarly  PROVE NoJudgeGains(Older(graph))
    OBVIOUS
  <2> DEFINE later == Older(graph)
  <2>1. \A n : SchemaField(later, n) = SchemaField(graph, n)
    BY OlderKeeps DEF GInv, SchemaField
  <2>2. ASSUME NEW n \in OwnerFields(graph), OwnerStatus(later, n, StoredValues) = "pass"
        PROVE  OwnerStatus(graph, n, StoredValues) = "pass"
    <3>1. n \in Fields(graph)  BY DEF OwnerFields
    <3>2. CASE n # "available"
      BY <2>2, <3>1, <3>2, LaterOwnsNoMore DEF OwnerStatus
    <3>3. CASE n = "available"
      <4>1. "opening_state" \in Fields(graph)
        BY <3>1, <3>3, GraphConstants, AvailabilityIsDerived DEF Fields, GInv, Whole
      <4> DEFINE state == StoredValues["opening_state"]
      <4> HIDE DEF state
      <4>2. OwnerRaw(later, "opening_state", state) = "pass"
            => OwnerRaw(graph, "opening_state", state) = "pass"
        BY <4>1, LaterOwnsNoMore
      <4> HIDE DEF later
      <4> QED  BY <2>1, <2>2, <3>3, <4>2 DEF OwnerStatus, OwnerDerived, state
    <3> QED  BY <3>2, <3>3
  <2>3. ASSUME NEW n \in OwnerFields(graph), NEW b \in RecordsOf(n), NEW probe \in Probes,
               LiveStatus(later, n, b, SchemaField(later, n).ttl, probe) = "pass"
        PROVE  LiveStatus(graph, n, b, SchemaField(graph, n).ttl, probe) = "pass"
    <3> DEFINE ttl == SchemaField(graph, n).ttl
    <3>1. n \in Fields(graph) /\ b \in Bindings  BY DEF OwnerFields, RecordsOf
    <3>2. ttl \in Nat  BY <3>1, TimeToLive
    <3> HIDE DEF later, ttl
    <3>3. LiveStatus(later, n, b, ttl, probe) = "pass"  BY <2>1, <2>3 DEF ttl
    <3>4. /\ later.signals[b] # NoSignal
          /\ ~probe.rivals /\ Records[b].disposition = "candidate"
          /\ later.signals[b].value \notin {"none", "unknown", "unavailable"}
          /\ probe.owned /\ ~probe.stale
          /\ AssessedFreshness(later, b, ttl) = "fresh"
      BY <3>3 DEF LiveStatus, LiveFailure, LiveFreshness, Probes
    <3>5. /\ graph.signals[b] # NoSignal
          /\ graph.signals[b].value = later.signals[b].value
      BY <3>1, <3>4, LaterShowsNoMore DEF later
    <3>6. AssessedFreshness(graph, b, ttl) = "fresh"
      BY <3>1, <3>2, <3>4, LaterAssessesNoMore DEF later
    <3>7. LiveStatus(graph, n, b, ttl, probe) = "pass"
      BY <3>4, <3>5, <3>6 DEF LiveStatus, LiveFreshness
    <3> QED  BY <3>7 DEF ttl
  <2>4. ASSUME NEW n \in Fields(graph), Verified(later, n).status = "pass"
        PROVE  Verified(graph, n).status = "pass"
    <3> DEFINE field == SchemaField(graph, n)
               e     == contract[n]
    <3>1. field.ttl \in Nat  BY TimeToLive
    <3>2. VerifiedBindings(later, n) = VerifiedBindings(graph, n)
      BY OlderKeeps DEF VerifiedBindings, GInv
    <3>3. SchemaField(later, n) = field  BY <2>1
    <3> HIDE DEF later, field, e
    <3>4. PICK b \in VerifiedBindings(graph, n) \cap e.active : Confirms(later, b, field)
      BY <2>4, <3>2, <3>3, VerifiedPasses DEF e
    <3>5. b \in Bindings  BY <3>4, VerifiedAreBindings
    <3>6. Confirms(graph, b, field)
      BY <3>1, <3>4, <3>5, LaterShowsNoMore DEF Confirms, later
    <3>7. FieldGate(field, e) = "pass"  BY <2>4, <3>3, VerifiedPasses DEF e
    <3>8. ~(n = "available" /\ e.value = "false")
      BY <2>4, <3>3 DEF Verified, NotReady, e
    <3> QED  BY <3>4, <3>6, <3>7, <3>8 DEF Verified, field, e
  <2> QED  BY <2>2, <2>3, <2>4 DEF NoJudgeGains
<1> QED  BY <1>1, GatesInvariant, PTL

-----------------------------------------------------------------------------
(* Counting the members of sets in a sequence.                             *)

LEMMA ThoseOfUnion ==
  ASSUME NEW T, NEW s \in Seq(T), NEW A, NEW B, A \cap B = {}
  PROVE  Len(Those(s, A)) + Len(Those(s, B)) = Len(Those(s, A \cup B))
<1> DEFINE N == Len(s)
           C == A \cup B
<1>1. PICK f : PickedBy(T, s, A, f)  BY ThoseByPicks
<1>2. PICK g : PickedBy(T, s, B, g)  BY ThoseByPicks
<1>3. PICK h : PickedBy(T, s, C, h)
  <2> HIDE DEF C
  <2> QED  BY ThoseByPicks
<1>4. N \in Nat /\ \A i \in 1..N : s[i] \in T  BY LenProperties, ElementOfSeq
<1>5. /\ f \in [0..N -> Seq(T)] /\ Those(s, A) = f[N] /\ f[0] = <<>>
      /\ \A i \in 1..N : f[i] = IF s[i] \in A THEN Append(f[i - 1], s[i]) ELSE f[i - 1]
  BY <1>1 DEF PickedBy
<1>6. /\ g \in [0..N -> Seq(T)] /\ Those(s, B) = g[N] /\ g[0] = <<>>
      /\ \A i \in 1..N : g[i] = IF s[i] \in B THEN Append(g[i - 1], s[i]) ELSE g[i - 1]
  BY <1>2 DEF PickedBy
<1>7. /\ h \in [0..N -> Seq(T)] /\ Those(s, C) = h[N] /\ h[0] = <<>>
      /\ \A i \in 1..N : h[i] = IF s[i] \in C THEN Append(h[i - 1], s[i]) ELSE h[i - 1]
  BY <1>3 DEF PickedBy
<1> DEFINE Good == {i \in 0..N : Len(f[i]) + Len(g[i]) = Len(h[i])}
<1>8. 0 \in Good  BY <1>4, <1>5, <1>6, <1>7, EmptySeq
<1>9. ASSUME NEW i \in 1..N, i - 1 \in Good  PROVE i \in Good
  <2>1. i \in 0..N /\ i - 1 \in 0..N  BY <1>4
  <2>2. /\ f[i - 1] \in Seq(T) /\ g[i - 1] \in Seq(T) /\ h[i - 1] \in Seq(T) /\ s[i] \in T
    BY <1>4, <1>5, <1>6, <1>7, <2>1
  <2>3. /\ Len(f[i - 1]) \in Nat /\ Len(g[i - 1]) \in Nat /\ Len(h[i - 1]) \in Nat
    BY <2>2, LenProperties
  <2>4. /\ Len(Append(f[i - 1], s[i])) = Len(f[i - 1]) + 1
        /\ Len(Append(g[i - 1], s[i])) = Len(g[i - 1]) + 1
        /\ Len(Append(h[i - 1], s[i])) = Len(h[i - 1]) + 1
    BY <2>2, ElemsOfAppend
  <2>5. Len(f[i - 1]) + Len(g[i - 1]) = Len(h[i - 1])  BY <1>9
  <2>6. CASE s[i] \in A
    <3>1. s[i] \notin B /\ s[i] \in C  BY <2>6
    <3>2. Len(f[i]) = Len(f[i - 1]) + 1 /\ Len(g[i]) = Len(g[i - 1])
          /\ Len(h[i]) = Len(h[i - 1]) + 1
      BY <1>5, <1>6, <1>7, <2>4, <2>6, <3>1
    <3>3. Len(f[i]) + Len(g[i]) = Len(h[i])
      <4> DEFINE a == Len(f[i - 1])
                 b == Len(g[i - 1])
                 c == Len(h[i - 1])
      <4>1. a \in Nat /\ b \in Nat /\ c \in Nat /\ a + b = c  BY <2>3, <2>5
      <4>2. Len(f[i]) = a + 1 /\ Len(g[i]) = b /\ Len(h[i]) = c + 1  BY <3>2
      <4> HIDE DEF a, b, c
      <4> QED  BY <4>1, <4>2
    <3> QED  BY <2>1, <3>3
  <2>7. CASE s[i] \in B
    <3>1. s[i] \notin A /\ s[i] \in C  BY <2>7
    <3>2. Len(f[i]) = Len(f[i - 1]) /\ Len(g[i]) = Len(g[i - 1]) + 1
          /\ Len(h[i]) = Len(h[i - 1]) + 1
      BY <1>5, <1>6, <1>7, <2>4, <2>7, <3>1
    <3>3. Len(f[i]) + Len(g[i]) = Len(h[i])
      <4> DEFINE a == Len(f[i - 1])
                 b == Len(g[i - 1])
                 c == Len(h[i - 1])
      <4>1. a \in Nat /\ b \in Nat /\ c \in Nat /\ a + b = c  BY <2>3, <2>5
      <4>2. Len(f[i]) = a /\ Len(g[i]) = b + 1 /\ Len(h[i]) = c + 1  BY <3>2
      <4> HIDE DEF a, b, c
      <4> QED  BY <4>1, <4>2
    <3> QED  BY <2>1, <3>3
  <2>8. CASE s[i] \notin C
    <3>1. s[i] \notin A /\ s[i] \notin B  BY <2>8
    <3>2. f[i] = f[i - 1] /\ g[i] = g[i - 1] /\ h[i] = h[i - 1]
      BY <1>5, <1>6, <1>7, <2>8, <3>1
    <3> QED  BY <2>1, <2>5, <3>2
  <2> QED  BY <2>6, <2>7, <2>8
<1> HIDE DEF Good
<1>10. N \in Good
  <2>1. \A i \in 0..N : i \in Good  BY <1>4, <1>8, <1>9, UpTo
  <2> QED  BY <1>4, <2>1
<1> QED  BY <1>5, <1>6, <1>7, <1>10 DEF Good

LEMMA ThoseOfAll ==
  ASSUME NEW T, NEW s \in Seq(T), NEW A, Elems(s) \subseteq A
  PROVE  Len(Those(s, A)) = Len(s)
<1> DEFINE N == Len(s)
<1>1. PICK f : PickedBy(T, s, A, f)  BY ThoseByPicks
<1>2. N \in Nat /\ \A i \in 1..N : s[i] \in T /\ s[i] \in A
  BY LenProperties, ElementOfSeq, ElemsAre
<1>3. /\ f \in [0..N -> Seq(T)] /\ Those(s, A) = f[N] /\ f[0] = <<>>
      /\ \A i \in 1..N : f[i] = Append(f[i - 1], s[i])
  BY <1>1, <1>2 DEF PickedBy
<1> DEFINE Good == {i \in 0..N : Len(f[i]) = i}
<1>4. 0 \in Good  BY <1>2, <1>3, EmptySeq
<1>5. ASSUME NEW i \in 1..N, i - 1 \in Good  PROVE i \in Good
  <2>0. i \in 0..N /\ i - 1 \in 0..N  BY <1>2
  <2>1. i \in 0..N /\ f[i - 1] \in Seq(T) /\ s[i] \in T
    <3> HIDE DEF N
    <3> QED  BY <1>2, <1>3, <2>0
  <2>2. Len(Append(f[i - 1], s[i])) = Len(f[i - 1]) + 1  BY <2>1, ElemsOfAppend
  <2>3. f[i] = Append(f[i - 1], s[i]) /\ Len(f[i - 1]) = i - 1  BY <1>3, <1>5
  <2>4. Len(f[i]) = i  BY <2>2, <2>3
  <2> QED  BY <2>1, <2>4
<1> HIDE DEF Good
<1>6. N \in Good
  <2>1. \A i \in 0..N : i \in Good  BY <1>2, <1>4, <1>5, UpTo
  <2> QED  BY <1>2, <2>1
<1> QED  BY <1>3, <1>6 DEF Good

-----------------------------------------------------------------------------
(* A Boolean fusion is complete where all its inputs decide.               *)

LEMMA BooleanIsWhole ==
  ASSUME NEW g, NEW fresh \in Seq(Candidates(g)), NEW strategy, NEW inputs \in Nat,
         Len(fresh) <= inputs, NEW r, r = SelectBoolean(strategy, fresh, inputs)
  PROVE  /\ r.conflict = FALSE
         /\ r.by # NoSignal => r.value \in {"true", "false"}
         /\ r.by # NoSignal /\ r.complete => Len(fresh) = inputs
         /\ (Len(fresh) = inputs /\ inputs # 0
             /\ \A s \in Elems(fresh) : s.value \in {"true", "false"}) =>
              r.complete = TRUE /\ r.by \in Elems(fresh)
<1> DEFINE of(v) == {s \in Elems(fresh) : s.value = v}
           says(v) == Those(fresh, of(v))
           trues  == says("true")
           falses == says("false")
           uncertain == Uncertain(Len(trues) + Len(falses), inputs)
           ids(s) == {t.id : t \in Elems(s)}
           oldest(s) == Those(s, {t \in Elems(s) : \A u \in Elems(s) : u.ev.age <= t.ev.age})[1]
           both == of("true") \cup of("false")
<1>1. /\ strategy = "all_true" =>
           r = CASE falses # <<>> -> Decided("false", oldest(falses), ids(falses), ~uncertain, FALSE)
                 [] falses = <<>> /\ trues # <<>> /\ ~uncertain ->
                      Decided("true", oldest(trues), ids(trues), TRUE, FALSE)
                 [] OTHER -> Undecided("unknown")
      /\ strategy # "all_true" =>
           r = CASE trues # <<>> -> Decided("true", trues[1], ids(trues), ~uncertain, FALSE)
                 [] trues = <<>> /\ falses # <<>> /\ ~uncertain ->
                      Decided("false", falses[1], ids(falses), TRUE, FALSE)
                 [] OTHER -> Undecided(IF uncertain THEN "unknown" ELSE "unavailable")
  BY Zenon DEF SelectBoolean
<1>2. ASSUME NEW v
      PROVE  /\ says(v) \in Seq(Candidates(g)) /\ Elems(says(v)) = Elems(fresh) \cap of(v)
             /\ Len(says(v)) \in Nat
  <2>1. says(v) \in Seq(Candidates(g)) /\ Elems(says(v)) = Elems(fresh) \cap of(v)
    <3> HIDE DEF of
    <3> QED  BY ThoseAre
  <2> HIDE DEF says
  <2> QED  BY <2>1, LenProperties
<1>3. Len(trues) + Len(falses) = Len(Those(fresh, both))
  <2>1. of("true") \cap of("false") = {}  OBVIOUS
  <2> HIDE DEF of
  <2> QED  BY <2>1, ThoseOfUnion
<1>4. /\ Len(Those(fresh, both)) <= Len(fresh) /\ Len(Those(fresh, both)) \in Nat
      /\ Elems(fresh) \subseteq both => Len(Those(fresh, both)) = Len(fresh)
  <2> HIDE DEF both
  <2>1. Those(fresh, both) \in Seq(Candidates(g)) /\ Len(Those(fresh, both)) <= Len(fresh)
    BY ThoseAre
  <2> QED  BY <2>1, ThoseOfAll, LenProperties
<1>5. Len(fresh) \in Nat  BY LenProperties
<1>6. uncertain <=> Len(Those(fresh, both)) < inputs  BY <1>3 DEF Uncertain
<1>7. uncertain \in BOOLEAN  BY <1>2, <1>3, <1>6 DEF Uncertain
<1>8. ASSUME NEW v, says(v) # <<>>
      PROVE  says(v)[1] \in Elems(fresh) /\ oldest(says(v)) \in Elems(fresh)
  <2> DEFINE A == Elems(says(v))
             Old == {t \in A : \A u \in A : u.ev.age <= t.ev.age}
  <2> HIDE DEF says
  <2>1. A \in SUBSET Candidates(g) /\ A # {} /\ says(v)[1] \in A  BY <1>2, <1>8, ElemsAre
  <2>2. PICK t \in A : \A u \in A : u.ev.age <= t.ev.age
    <3> HIDE DEF A
    <3> QED  BY <2>1, Extremes
  <2>3. t \in A \cap Old  BY <2>2
  <2>4. Those(says(v), Old)[1] \in A
    <3> HIDE DEF Old
    <3> QED  BY <1>2, <2>3, FirstOfThose
  <2>5. A \subseteq Elems(fresh)  BY <1>2
  <2> QED  BY <2>1, <2>4, <2>5
<1>9. Len(<<>>) = 0  BY EmptySeq
<1>10. \A value, s, active, complete :
         /\ Decided(value, s, active, complete, FALSE).value = value
         /\ Decided(value, s, active, complete, FALSE).by = s
         /\ Decided(value, s, active, complete, FALSE).complete = complete
         /\ Decided(value, s, active, complete, FALSE).conflict = FALSE
  BY DEF Decided
<1>11. \A state : Undecided(state).by = NoSignal /\ Undecided(state).conflict = FALSE
  BY DEF Undecided
<1> HIDE DEF of, both, ids, oldest
<1>12. trues \in Seq(Candidates(g)) /\ falses \in Seq(Candidates(g))
       /\ Len(trues) \in Nat /\ Len(falses) \in Nat
  BY <1>2
<1>13. /\ trues # <<>> => trues[1] \in Elems(fresh) /\ oldest(trues) \in Elems(fresh)
       /\ falses # <<>> => falses[1] \in Elems(fresh) /\ oldest(falses) \in Elems(fresh)
  BY <1>8
<1> HIDE DEF says, trues, falses, uncertain
<1> DEFINE Cases ==
             \/ \E v \in {"true", "false"}, s \in Elems(fresh) :
                  \E active : r = Decided(v, s, active, ~uncertain, FALSE)
             \/ \E state : r = Undecided(state)
<1>14. ~uncertain /\ inputs # 0 => trues # <<>> \/ falses # <<>>
  BY <1>3, <1>4, <1>6, <1>9, <1>12
<1>15. \/ \E v \in {"true", "false"}, s \in Elems(fresh) :
            \E active : r = Decided(v, s, active, ~uncertain, FALSE)
       \/ uncertain \/ inputs = 0
       \/ FALSE
  <2> SUFFICES ASSUME ~uncertain, inputs # 0
               PROVE  \E v \in {"true", "false"}, s \in Elems(fresh) :
                        \E active : r = Decided(v, s, active, ~uncertain, FALSE)
    OBVIOUS
  <2>1. (~uncertain) = TRUE  BY <1>7
  <2>2. CASE strategy = "all_true" /\ falses # <<>>  BY <1>1, <1>13, <2>2
  <2>3. CASE strategy = "all_true" /\ falses = <<>>
    <3>1. trues # <<>>  BY <1>14, <2>3
    <3> QED  BY <1>1, <1>13, <2>1, <2>3, <3>1
  <2>4. CASE strategy # "all_true" /\ trues # <<>>  BY <1>1, <1>13, <2>4
  <2>5. CASE strategy # "all_true" /\ trues = <<>>
    <3>1. falses # <<>>  BY <1>14, <2>5
    <3> QED  BY <1>1, <1>13, <2>1, <2>5, <3>1
  <2> QED  BY <2>2, <2>3, <2>4, <2>5
<1>16. Cases
  <2>1. CASE ~uncertain /\ inputs # 0  BY <1>15, <2>1
  <2>2. CASE uncertain
    <3>1. strategy = "all_true" /\ falses # <<>> => Cases  BY <1>1, <1>13
    <3>2. strategy = "all_true" /\ falses = <<>> => Cases  BY <1>1, <2>2
    <3>3. strategy # "all_true" /\ trues # <<>> => Cases  BY <1>1, <1>13
    <3>4. strategy # "all_true" /\ trues = <<>> => Cases  BY <1>1, <2>2
    <3> HIDE DEF Cases
    <3> QED  BY <3>1, <3>2, <3>3, <3>4
  <2>3. CASE inputs = 0 /\ ~uncertain
    <3>0. (~uncertain) = TRUE  BY <1>7, <2>3
    <3>1. strategy = "all_true" /\ falses # <<>> => Cases  BY <1>1, <1>13
    <3>2. strategy = "all_true" /\ falses = <<>> /\ trues # <<>> => Cases
      BY <1>1, <1>13, <2>3, <3>0
    <3>3. strategy = "all_true" /\ falses = <<>> /\ trues = <<>> => Cases  BY <1>1
    <3>4. strategy # "all_true" /\ trues # <<>> => Cases  BY <1>1, <1>13
    <3>5. strategy # "all_true" /\ trues = <<>> /\ falses # <<>> => Cases
      BY <1>1, <1>13, <2>3, <3>0
    <3>6. strategy # "all_true" /\ trues = <<>> /\ falses = <<>> => Cases  BY <1>1
    <3> HIDE DEF Cases
    <3> QED  BY <3>1, <3>2, <3>3, <3>4, <3>5, <3>6
  <2> HIDE DEF Cases
  <2> QED  BY <2>1, <2>2, <2>3
<1>17. /\ r.conflict = FALSE
       /\ r.by # NoSignal => r.value \in {"true", "false"} /\ r.complete = ~uncertain
  <2>1. CASE \E v \in {"true", "false"}, s \in Elems(fresh) :
               \E active : r = Decided(v, s, active, ~uncertain, FALSE)
    <3>1. PICK v \in {"true", "false"}, s \in Elems(fresh) :
                 \E active : r = Decided(v, s, active, ~uncertain, FALSE)
      BY <2>1
    <3>2. PICK active : r = Decided(v, s, active, ~uncertain, FALSE)  BY <3>1
    <3>3. r.value = v /\ r.complete = ~uncertain /\ r.conflict = FALSE  BY <3>2 DEF Decided
    <3> QED  BY <3>3
  <2>2. CASE \E state : r = Undecided(state)  BY <1>11, <2>2
  <2> QED  BY <1>16, <2>1, <2>2
<1>18. ASSUME r.by # NoSignal, r.complete  PROVE Len(fresh) = inputs
  <2>1. ~uncertain  BY <1>17, <1>18
  <2>2. ~(Len(Those(fresh, both)) < inputs)  BY <1>6, <2>1
  <2> QED  BY <1>4, <1>5, <2>2
<1>19. ASSUME Len(fresh) = inputs, inputs # 0,
              \A s \in Elems(fresh) : s.value \in {"true", "false"}
       PROVE  r.complete = TRUE /\ r.by \in Elems(fresh)
  <2>1. Elems(fresh) \subseteq both  BY <1>19 DEF both, of
  <2>2. ~uncertain  BY <1>4, <1>5, <1>6, <1>19, <2>1
  <2>3. (~uncertain) = TRUE  BY <1>7, <2>2
  <2>4. PICK v \in {"true", "false"}, s \in Elems(fresh) :
               \E active : r = Decided(v, s, active, ~uncertain, FALSE)
    BY <1>15, <1>19, <2>2
  <2>5. PICK active : r = Decided(v, s, active, ~uncertain, FALSE)  BY <2>4
  <2>6. r.by = s /\ r.complete = ~uncertain  BY <2>5 DEF Decided
  <2> QED  BY <2>3, <2>6
<1> QED  BY <1>17, <1>18, <1>19

LEMMA SignalsOfAll ==
  ASSUME NEW g, Read(g), NEW ids \in Seq(Bindings), Elems(ids) \subseteq Shown(g)
  PROVE  Len(SignalsOf(g, ids)) = Len(ids)
<1> DEFINE there == {b \in Elems(ids) : g.signals[b] # NoSignal}
           present == Those(ids, there)
           q == [i \in 1..Len(present) |-> SignalOf(g, present[i])]
<1>1. SignalsOf(g, ids) = q  BY DEF SignalsOf, SignalOf
<1>2. Elems(ids) \subseteq there  BY DEF Shown
<1>3. there \subseteq Bindings  BY ElemsAre
<1> HIDE DEF there
<1>4. Len(present) = Len(ids) /\ present \in Seq(Bindings) /\ Elems(present) = Elems(ids) \cap there
  BY <1>2, ThoseOfAll, ThoseAre
<1> HIDE DEF present
<1>5. Len(present) \in Nat /\ \A i \in 1..Len(present) : present[i] \in Elems(ids)
  BY <1>4, LenProperties, ElemsAre
<1>6. \A i \in 1..Len(present) : SignalOf(g, present[i]) \in Candidates(g)
  BY <1>5, SignalIsCandidate
<1>7. q \in [1..Len(present) -> Candidates(g)]  BY <1>6
<1> HIDE DEF q
<1>8. Len(q) = Len(present)  BY <1>5, <1>7, SequenceOf
<1> QED  BY <1>1, <1>4, <1>8

LEMMA NestedOfAll ==
  ASSUME NEW g, Read(g), NEW kids \in Seq(DOMAIN g.config.fusions), NEW below, NEW field,
         \A k \in Elems(kids) : Offers(below[k])
  PROVE  Len(Nested(kids, below, field)) = Len(kids)
<1> DEFINE D == DOMAIN g.config.fusions
           there == {k \in Elems(kids) : Offers(below[k])}
           offered == Those(kids, there)
           at(i) == AsCandidate(offered[i], below[offered[i]], field)
           q == [i \in 1..Len(offered) |-> at(i)]
           V == {at(i) : i \in 1..Len(offered)}
<1>1. Nested(kids, below, field) = q  BY DEF Nested
<1>2. Elems(kids) \subseteq there  OBVIOUS
<1> HIDE DEF there
<1>3. Len(offered) = Len(kids) /\ offered \in Seq(D)
  BY <1>2, ThoseOfAll, ThoseAre
<1> HIDE DEF offered
<1>4. Len(offered) \in Nat  BY <1>3, LenProperties
<1>5. q \in [1..Len(offered) -> V]  OBVIOUS
<1> HIDE DEF q, V
<1>6. Len(q) = Len(offered)  BY <1>4, <1>5, SequenceOf
<1> QED  BY <1>1, <1>3, <1>6

(* Whatever a fusion decides is a Boolean, as current as its source can be *)
(* for the field; and it is complete and without contradiction.            *)
Timely(field, r) ==
  r.by # NoSignal =>
    /\ r.value \in {"true", "false"} /\ r.by.ttl \in Nat
    /\ Freshness(r.by.ev, Least(field.ttl, r.by.ttl), field.requirement) = "fresh"

Complete(r) == r.by # NoSignal /\ r.complete /\ ~r.conflict

AllComplete(g, field, fusion, below) ==
  /\ \A b \in Elems(fusion.inputs) : b \in Shown(g) /\ Healthy(SignalOf(g, b), field)
  /\ \A k \in Elems(fusion.children) : Complete(below[k])

LEMMA ReadsSomething ==
  ASSUME NEW c \in Configs, Accepted(c), NEW f \in DOMAIN c.fusions
  PROVE  Len(c.fusions[f].inputs) + Len(c.fusions[f].children) # 0
<1> DEFINE i == c.fusions[f].inputs
           k == c.fusions[f].children
<1>1. i \in Seq(Bindings) /\ k \in Seq(DOMAIN c.fusions) /\ i \o k # <<>>
  BY DEF Accepted, FusionsFit
<1> HIDE DEF i, k
<1>2. Len(i) \in Nat /\ Len(k) \in Nat
  <2>1. Len(i) \in Nat  BY <1>1, LenProperties
  <2>2. Len(k) \in Nat  BY <1>1, LenProperties
  <2> QED  BY <2>1, <2>2
<1>3. ASSUME Len(i) = 0, Len(k) = 0  PROVE FALSE
  <2>1. i = <<>>  BY <1>1, <1>3, EmptySeq
  <2>2. k = <<>>  BY <1>1, <1>3, EmptySeq
  <2>3. <<>> \o <<>> = <<>>  BY EmptySeq, ConcatEmptySeq
  <2> QED  BY <1>1, <2>1, <2>2, <2>3
<1>4. Len(i) + Len(k) # 0
  <2> DEFINE a == Len(i)
             b == Len(k)
  <2>1. a \in Nat /\ b \in Nat /\ ~(a = 0 /\ b = 0)  BY <1>2, <1>3
  <2> HIDE DEF a, b
  <2>2. a + b # 0  BY <2>1
  <2> QED  BY <2>2 DEF a, b
<1> QED  BY <1>4 DEF i, k

LEMMA FusedIsWhole ==
  ASSUME NEW g, Read(g), NEW field, field.ttl \in Nat, field.type = "boolean",
         NEW f \in DOMAIN g.config.fusions, NEW below,
         \A k \in Elems(g.config.fusions[f].children) :
           Grounded(g, field, k, below[k]) /\ Timely(field, below[k]),
         g.config.fusions[f].strategy \in {"all_true", "any_true"},
         NEW fusion, fusion = g.config.fusions[f], NEW r, r = Fused(g, fusion, field, below)
  PROVE  /\ Timely(field, r)
         /\ Complete(r) <=> AllComplete(g, field, fusion, below)
<1> DEFINE c == g.config
           D == DOMAIN c.fusions
           kids == Elems(fusion.children)
           own == SignalsOf(g, fusion.inputs)
           nested == Nested(fusion.children, below, field)
           candidates == own \o nested
           all == Elems(candidates)
           H == {s \in all : Classify(s.value, field) = "valid" /\ IsFresh(s, field)}
           fresh == Those(candidates, H)
           inputs == Len(fusion.inputs) + Len(fusion.children)
           sel == SelectBoolean(fusion.strategy, fresh, inputs)
<1>1. c \in Configs /\ Accepted(c)  BY DEF Read
<1>2. /\ fusion.inputs \in Seq(Bindings) /\ fusion.children \in Seq(D)
      /\ Elems(fusion.inputs) \subseteq Bindings /\ kids \subseteq D /\ D \cap Bindings = {}
      /\ inputs # 0
  BY <1>1, FusionsAre, ReadsSomething
<1>3. \A k \in kids : Offers(below[k]) => below[k].value \in Texts /\ below[k].by.ev \in Evidence
  BY DEF Grounded, Offers
<1>4. /\ own \in Seq(Candidates(g))
      /\ Elems(own) = {SignalOf(g, b) : b \in Elems(fusion.inputs) \cap Shown(g)}
      /\ Len(own) <= Len(fusion.inputs)
      /\ Len(own) = Len(fusion.inputs) <=> Elems(fusion.inputs) \subseteq Shown(g)
  <2>1. /\ own \in Seq(Candidates(g))
        /\ Elems(own) = {SignalOf(g, b) : b \in Elems(fusion.inputs) \cap Shown(g)}
        /\ Len(own) <= Len(fusion.inputs)
        /\ Len(own) = Len(fusion.inputs) => Elems(fusion.inputs) \subseteq Shown(g)
    BY <1>2, SignalsAre
  <2>2. Elems(fusion.inputs) \subseteq Shown(g) => Len(own) = Len(fusion.inputs)
    BY <1>2, SignalsOfAll
  <2> QED  BY <2>1, <2>2
<1>5. /\ nested \in Seq(Candidates(g))
      /\ Elems(nested) = {AsCandidate(k, below[k], field) : k \in {l \in kids : Offers(below[l])}}
      /\ Len(nested) <= Len(fusion.children)
      /\ Len(nested) = Len(fusion.children) <=> \A k \in kids : Offers(below[k])
  <2>1. /\ nested \in Seq(Candidates(g))
        /\ Elems(nested) = {AsCandidate(k, below[k], field) : k \in {l \in kids : Offers(below[l])}}
        /\ Len(nested) <= Len(fusion.children)
        /\ Len(nested) = Len(fusion.children) => \A k \in kids : Offers(below[k])
    BY <1>2, <1>3, NestedAre
  <2>2. (\A k \in kids : Offers(below[k])) => Len(nested) = Len(fusion.children)
    BY <1>2, NestedOfAll
  <2> QED  BY <2>1, <2>2
<1>6. candidates \in Seq(Candidates(g)) /\ all = Elems(own) \cup Elems(nested)
      /\ Len(candidates) = Len(own) + Len(nested)
  <2> HIDE DEF own, nested
  <2> QED  BY <1>4, <1>5, ElemsOfConcat
<1>7. /\ Len(own) \in Nat /\ Len(nested) \in Nat
      /\ Len(fusion.inputs) \in Nat /\ Len(fusion.children) \in Nat
  <2> HIDE DEF own, nested
  <2>1. Len(own) \in Nat  BY <1>4, LenProperties
  <2>2. Len(nested) \in Nat  BY <1>5, LenProperties
  <2>3. Len(fusion.inputs) \in Nat  BY <1>2, LenProperties
  <2>4. Len(fusion.children) \in Nat  BY <1>2, LenProperties
  <2> QED  BY <2>1, <2>2, <2>3, <2>4
<1>8. Select(fusion, candidates, field) = sel
  <2>1. ~IsOpening(fusion) /\ fusion.strategy \notin {"first_healthy", "latest"}
    BY DEF IsOpening
  <2> QED  BY <2>1 DEF Select
<1>9. /\ r.value = sel.value
      /\ r.by = IF sel.by # NoSignal /\ sel.by.id \in kids THEN below[sel.by.id].by ELSE sel.by
      /\ r.complete = (sel.complete /\ \A k \in kids : below[k].complete)
      /\ r.conflict = (sel.conflict \/ \E k \in kids : below[k].conflict)
  <2> DEFINE t == Select(fusion, candidates, field)
  <2>1. /\ r.value = t.value
        /\ r.by = IF t.by # NoSignal /\ t.by.id \in kids THEN below[t.by.id].by ELSE t.by
        /\ r.complete = (t.complete /\ \A k \in kids : below[k].complete)
        /\ r.conflict = (t.conflict \/ \E k \in kids : below[k].conflict)
    BY DEF Fused, Merged
  <2>2. t = sel  BY <1>8
  <2> HIDE DEF t, sel, kids
  <2> QED  BY <2>1, <2>2
<1>10. \A b : SignalOf(g, b).id = b /\ SignalOf(g, b).value = g.signals[b].value
  BY DEF SignalOf
<1>11. \A k : /\ AsCandidate(k, below[k], field).id = k
              /\ AsCandidate(k, below[k], field).value = below[k].value
              /\ AsCandidate(k, below[k], field).ev = below[k].by.ev
              /\ AsCandidate(k, below[k], field).ttl = field.ttl
  BY DEF AsCandidate
<1>12. \A s : s \in H <=> s \in all /\ Healthy(s, field)  BY DEF Healthy
<1>13. \A s : Healthy(s, field) => s.value \in {"true", "false"}
  BY DEF Healthy, Classify, TypeValues
<1> HIDE DEF candidates, H
<1>14. /\ fresh \in Seq(Candidates(g)) /\ Elems(fresh) = all \cap H
       /\ Len(fresh) <= Len(candidates)
       /\ Len(fresh) = Len(candidates) <=> all \subseteq H
  <2>1. /\ fresh \in Seq(Candidates(g)) /\ Elems(fresh) = all \cap H
        /\ Len(fresh) <= Len(candidates)
        /\ Len(fresh) = Len(candidates) => all \subseteq H
    BY <1>6, ThoseAre
  <2>2. all \subseteq H => Len(fresh) = Len(candidates)  BY <1>6, ThoseOfAll
  <2> QED  BY <2>1, <2>2
<1> HIDE DEF fresh, all, own, nested
<1>15. Len(candidates) \in Nat /\ Len(fresh) \in Nat
  <2>1. Len(candidates) \in Nat  BY <1>6, LenProperties
  <2>2. Len(fresh) \in Nat  BY <1>14, LenProperties
  <2> QED  BY <2>1, <2>2
<1>16. /\ inputs \in Nat /\ Len(fresh) <= inputs
       /\ Len(fresh) = inputs <=> /\ all \subseteq H
                                  /\ Len(own) = Len(fusion.inputs)
                                  /\ Len(nested) = Len(fusion.children)
  <2> DEFINE a == Len(own)
             b == Len(nested)
             m == Len(fusion.inputs)
             n == Len(fusion.children)
             l == Len(candidates)
             h == Len(fresh)
  <2>1. /\ a \in Nat /\ b \in Nat /\ m \in Nat /\ n \in Nat /\ a <= m /\ b <= n
        /\ l = a + b /\ h \in Nat /\ h <= l /\ inputs = m + n
        /\ h = l <=> all \subseteq H
    BY <1>4, <1>5, <1>6, <1>7, <1>14, <1>15
  <2> HIDE DEF a, b, m, n, l, h, inputs
  <2>2. inputs \in Nat /\ h <= inputs /\ (h = inputs <=> h = l /\ a = m /\ b = n)
    BY <2>1
  <2> QED  BY <2>1, <2>2 DEF a, b, m, n, h
<1> HIDE DEF inputs, sel
<1>17. /\ sel.conflict = FALSE
       /\ sel.by # NoSignal => sel.value \in {"true", "false"}
       /\ sel.by # NoSignal /\ sel.complete => Len(fresh) = inputs
       /\ (Len(fresh) = inputs /\ inputs # 0
           /\ \A s \in Elems(fresh) : s.value \in {"true", "false"}) =>
            sel.complete = TRUE /\ sel.by \in Elems(fresh)
  BY <1>14, <1>16, BooleanIsWhole DEF sel
<1>18. sel.by # NoSignal => sel.by \in all /\ Healthy(sel.by, field)
  <2>1. Elems(fresh) = {s \in Elems(candidates) : Healthy(s, field)}
    BY <1>12, <1>14 DEF all
  <2>2. Chosen(Elems(candidates), field, sel)
    BY <1>6, <1>14, <2>1, BooleanIsChosen DEF sel
  <2> QED  BY <2>2 DEF Chosen, all
<1>19. ASSUME NEW s \in Elems(own)
       PROVE  s.id \notin kids /\ s.ttl \in Nat
  <2>1. PICK b \in Elems(fusion.inputs) \cap Shown(g) : s = SignalOf(g, b)  BY <1>4
  <2>2. s \in Candidates(g)  BY <2>1, SignalIsCandidate
  <2> QED  BY <1>2, <1>10, <2>1, <2>2 DEF Candidates
<1>20. ASSUME NEW s \in Elems(nested)
       PROVE  s.id \in kids /\ Offers(below[s.id]) /\ s = AsCandidate(s.id, below[s.id], field)
  <2>1. PICK k \in kids : Offers(below[k]) /\ s = AsCandidate(k, below[k], field)  BY <1>5
  <2> QED  BY <1>11, <2>1
<1>21. r.by # NoSignal <=> sel.by # NoSignal
  <2>1. CASE sel.by # NoSignal /\ sel.by.id \in kids
    <3>1. sel.by \in Elems(nested)  BY <1>6, <1>18, <1>19, <2>1
    <3>2. Offers(below[sel.by.id])  BY <1>20, <3>1
    <3> QED  BY <1>9, <2>1, <3>2 DEF Offers
  <2>2. CASE ~(sel.by # NoSignal /\ sel.by.id \in kids)  BY <1>9, <2>2
  <2> QED  BY <2>1, <2>2
<1>22. Timely(field, r)
  <2> SUFFICES ASSUME r.by # NoSignal
               PROVE  /\ r.value \in {"true", "false"} /\ r.by.ttl \in Nat
                      /\ Freshness(r.by.ev, Least(field.ttl, r.by.ttl), field.requirement) = "fresh"
    BY DEF Timely
  <2>1. sel.by # NoSignal /\ sel.by \in all /\ Healthy(sel.by, field)  BY <1>18, <1>21
  <2>2. r.value \in {"true", "false"}  BY <1>9, <1>17, <2>1
  <2>3. CASE sel.by \in Elems(own)
    <3>1. r.by = sel.by /\ sel.by.ttl \in Nat  BY <1>9, <1>19, <2>3
    <3> QED  BY <2>1, <2>2, <3>1 DEF Healthy, IsFresh
  <2>4. CASE sel.by \in Elems(nested)
    <3>1. sel.by.id \in kids /\ Offers(below[sel.by.id])  BY <1>20, <2>4
    <3>2. r.by = below[sel.by.id].by  BY <1>9, <2>1, <3>1
    <3>3. Timely(field, below[sel.by.id]) /\ below[sel.by.id].by # NoSignal
      BY <3>1 DEF Offers
    <3> QED  BY <2>2, <3>2, <3>3 DEF Timely
  <2> QED  BY <1>6, <2>1, <2>3, <2>4
<1>23. ASSUME Complete(r)  PROVE AllComplete(g, field, fusion, below)
  <2>1. /\ sel.by # NoSignal /\ sel.complete
        /\ \A k \in kids : below[k].complete /\ ~below[k].conflict
    BY <1>9, <1>21, <1>23 DEF Complete
  <2>2. /\ all \subseteq H /\ Elems(fusion.inputs) \subseteq Shown(g)
        /\ \A k \in kids : Offers(below[k])
    BY <1>4, <1>5, <1>16, <1>17, <2>1
  <2>3. \A b \in Elems(fusion.inputs) : b \in Shown(g) /\ Healthy(SignalOf(g, b), field)
    BY <1>4, <1>6, <1>12, <2>2
  <2>4. \A k \in kids : Complete(below[k])  BY <2>1, <2>2 DEF Complete, Offers
  <2> QED  BY <2>3, <2>4 DEF AllComplete
<1>24. ASSUME AllComplete(g, field, fusion, below)  PROVE Complete(r)
  <2>1. /\ \A b \in Elems(fusion.inputs) : b \in Shown(g) /\ Healthy(SignalOf(g, b), field)
        /\ \A k \in kids : Complete(below[k])
    BY <1>24 DEF AllComplete
  <2>2. Len(own) = Len(fusion.inputs) /\ Len(nested) = Len(fusion.children)
    BY <1>4, <1>5, <2>1 DEF Complete, Offers
  <2>3. ASSUME NEW s \in Elems(nested)  PROVE Healthy(s, field)
    <3> DEFINE k == s.id
               b == below[k]
    <3>1. k \in kids /\ s = AsCandidate(k, b, field) /\ b.by # NoSignal
      BY <1>20 DEF Offers
    <3>2. s.value = b.value /\ s.ev = b.by.ev /\ s.ttl = field.ttl
      BY <1>11, <3>1
    <3>3. b.value \in {"true", "false"} /\ b.by.ttl \in Nat /\ b.by.ev \in Evidence
          /\ Freshness(b.by.ev, Least(field.ttl, b.by.ttl), field.requirement) = "fresh"
      BY <3>1 DEF Timely, Grounded
    <3> HIDE DEF b, k
    <3>4. Least(field.ttl, b.by.ttl) \in Nat /\ Least(field.ttl, b.by.ttl) <= field.ttl
      BY <3>3 DEF Least
    <3>5. Freshness(b.by.ev, field.ttl, field.requirement) = "fresh"
      BY <3>3, <3>4, FreshLonger
    <3>6. Least(field.ttl, field.ttl) = field.ttl  BY DEF Least
    <3>7. Classify(s.value, field) = "valid"  BY <3>2, <3>3 DEF Classify, TypeValues
    <3> QED  BY <3>2, <3>5, <3>6, <3>7 DEF Healthy, IsFresh
  <2>4. all \subseteq H  BY <1>4, <1>6, <1>12, <2>1, <2>3
  <2>5. Len(fresh) = inputs  BY <1>16, <2>2, <2>4
  <2>6. \A s \in Elems(fresh) : s \in Candidates(g) /\ s.value \in {"true", "false"}
    BY <1>12, <1>13, <1>14, ElemsAre
  <2>7. sel.complete = TRUE /\ sel.by \in Elems(fresh)
    BY <1>2, <1>17, <2>5, <2>6 DEF inputs
  <2>8. sel.by # NoSignal  BY <2>6, <2>7, NoSignalIsNoCandidate
  <2> QED  BY <1>9, <1>17, <1>21, <2>1, <2>7, <2>8 DEF Complete
<1> QED  BY <1>22, <1>23, <1>24

-----------------------------------------------------------------------------
(* Graphs of one configuration, of which the second shows no more.         *)

NoFresher(g, h) ==
  /\ h.config = g.config
  /\ \A b \in Bindings : h.signals[b] # NoSignal =>
       /\ g.signals[b] # NoSignal /\ h.signals[b].value = g.signals[b].value
       /\ \A ttl \in Nat : \A requirement :
            Freshness(h.signals[b].ev, ttl, requirement) = "fresh"
              => Freshness(g.signals[b].ev, ttl, requirement) = "fresh"

LEMMA WaitingFreshensNothing ==
  ASSUME GInv, NoneEarly
  PROVE  NoFresher(graph, Older(graph)) /\ Read(graph) /\ Read(Older(graph))
<1>1. Whole(Older(graph)) /\ Older(graph).config = graph.config  BY OlderKeeps DEF GInv
<1>2. Read(graph) /\ Read(Older(graph))  BY <1>1, WholeIsRead, InvariantIsRead
<1> QED  BY <1>1, <1>2, LaterShowsNoMore DEF NoFresher

LEMMA ShownNoFresher ==
  ASSUME NEW g, NEW h, Read(g), Read(h), NoFresher(g, h), NEW field, field.ttl \in Nat,
         NEW b \in Shown(h)
  PROVE  /\ b \in Shown(g)
         /\ SignalOf(h, b).id = b /\ SignalOf(g, b).id = b
         /\ SignalOf(h, b).value = SignalOf(g, b).value
         /\ SignalOf(h, b).ttl = SignalOf(g, b).ttl
         /\ IsFresh(SignalOf(h, b), field) => IsFresh(SignalOf(g, b), field)
         /\ Healthy(SignalOf(h, b), field) => Healthy(SignalOf(g, b), field)
<1> DEFINE s == SignalOf(g, b)
           t == SignalOf(h, b)
<1>1. b \in Shown(g) /\ g.signals[b].value = h.signals[b].value /\ h.config = g.config
      /\ \A ttl \in Nat : \A requirement :
           Freshness(h.signals[b].ev, ttl, requirement) = "fresh"
             => Freshness(g.signals[b].ev, ttl, requirement) = "fresh"
  BY DEF Shown, NoFresher
<1>2. /\ s.id = b /\ t.id = b /\ s.value = t.value /\ s.ttl = t.ttl
      /\ s.ev = g.signals[b].ev /\ t.ev = h.signals[b].ev
  BY <1>1 DEF SignalOf
<1>3. s.ttl \in Nat  BY <1>1, SignalIsCandidate DEF Candidates
<1> HIDE DEF s, t
<1>4. Least(field.ttl, s.ttl) \in Nat  BY <1>3 DEF Least
<1>5. IsFresh(t, field) => IsFresh(s, field)  BY <1>1, <1>2, <1>4 DEF IsFresh
<1>6. Healthy(t, field) => Healthy(s, field)  BY <1>2, <1>5 DEF Healthy
<1> QED  BY <1>1, <1>2, <1>5, <1>6 DEF s, t

-----------------------------------------------------------------------------
(* Boolean fusions.                                                        *)

(* What a fusion comes to now and later.                                   *)
Keeps(field, now, later) ==
  /\ Timely(field, now) /\ Timely(field, later)
  /\ Complete(later) => Complete(now)

LEMMA BooleansKeep ==
  ASSUME NEW g, NEW h, Read(g), Read(h), NoFresher(g, h), BooleansReadBooleans,
         NEW field, field.ttl \in Nat, field.type = "boolean"
  PROVE  \A f \in DOMAIN g.config.fusions : IsBoolean(g.config.fusions[f]) =>
           Keeps(field, Selection(g, f, field), Selection(h, f, field))
<1> DEFINE fusions == g.config.fusions
           Good == {f \in DOMAIN fusions : IsBoolean(fusions[f]) =>
                      Keeps(field, Selection(g, f, field), Selection(h, f, field))}
<1>1. h.config = g.config  BY DEF NoFresher
<1>2. /\ Acyclic(fusions) /\ g.config \in Configs
      /\ \A f \in DOMAIN fusions : /\ Elems(fusions[f].children) \subseteq DOMAIN fusions
                                   /\ Elems(fusions[f].inputs) \subseteq Bindings
  BY FusionsAre DEF Read
<1>3. ASSUME NEW f \in DOMAIN fusions, \A k \in Elems(fusions[f].children) : k \in Good,
             IsBoolean(fusions[f])
      PROVE  Keeps(field, Selection(g, f, field), Selection(h, f, field))
  <2> DEFINE fusion == fusions[f]
             kids == Elems(fusion.children)
             now == [k \in kids |-> Selection(g, k, field)]
             later == [k \in kids |-> Selection(h, k, field)]
             r == Fused(g, fusion, field, now)
             l == Fused(h, fusion, field, later)
  <2>1. Selection(g, f, field) = r  BY SelectionFollows
  <2>2. Selection(h, f, field) = l  BY <1>1, SelectionFollows
  <2>3. \A k \in kids : k \in DOMAIN fusions /\ IsBoolean(fusions[k])
    BY <1>2, <1>3 DEF BooleansReadBooleans
  <2>4. \A k \in kids : /\ Keeps(field, now[k], later[k])
                        /\ Grounded(g, field, k, now[k])
                        /\ Grounded(h, field, k, later[k])
    BY <1>1, <1>3, <2>3, SelectionIsGrounded
  <2>5. fusion.strategy \in {"all_true", "any_true"}  BY <1>3 DEF IsBoolean
  <2> HIDE DEF now, later
  <2>6. /\ Timely(field, r)
        /\ Complete(r) <=> AllComplete(g, field, fusion, now)
    BY <2>4, <2>5, FusedIsWhole DEF Keeps
  <2>7. /\ Timely(field, l)
        /\ Complete(l) <=> AllComplete(h, field, fusion, later)
    BY <1>1, <2>4, <2>5, FusedIsWhole DEF Keeps
  <2>8. AllComplete(h, field, fusion, later) => AllComplete(g, field, fusion, now)
    <3> HIDE DEF fusion
    <3> QED  BY <2>4, ShownNoFresher DEF AllComplete, Keeps
  <2> QED  BY <2>1, <2>2, <2>6, <2>7, <2>8 DEF Keeps
<1>4. \A f \in DOMAIN fusions :
        (\A k \in Elems(fusions[f].children) : k \in Good) => f \in Good
  BY <1>3
<1> HIDE DEF Good, fusions
<1>5. \A f \in DOMAIN fusions : f \in Good  BY <1>2, <1>4, OverFusions
<1> QED  BY <1>5 DEF Good, fusions

-----------------------------------------------------------------------------
(* Fusions of contacts.                                                    *)

(* Contacts that decide without reserve.                                   *)
Convincing(fusion, contacts, field) ==
  /\ Len(contacts) = Len(fusion.inputs)
  /\ fusion.strategy # "opening_source_count" =>
       /\ ValuesOf(contacts) \subseteq {"true", "false"} /\ ValuesOf(contacts) # {"true"}
       /\ ContactsFresh(contacts, field)
       /\ IF fusion.strategy = "opening_available" THEN contacts # <<>> ELSE Len(contacts) = 2

LEMMA OpeningIsWhole ==
  ASSUME NEW fusion, NEW contacts, NEW field, IsOpening(fusion),
         NEW r, r = SelectOpening(fusion, contacts, field)
  PROVE  /\ r.by # NoSignal => r.by = contacts[1] /\ r.state = "valid"
         /\ Complete(r) <=> contacts[1] # NoSignal /\ Convincing(fusion, contacts, field)
<1> DEFINE values == [i \in 1..Len(contacts) |-> contacts[i].value]
           whole  == Len(contacts) = Len(fusion.inputs)
           valid  == whole /\ Elems(values) \subseteq {"true", "false"}
           fresh  == valid /\ ContactsFresh(contacts, field)
           both   == fresh /\ Elems(values) = {"true"}
           ids    == {s.id : s \in Elems(contacts)}
           first  == contacts[1]
           Claim(value, complete) ==
             Decided(value, first, IF complete THEN ids ELSE {}, complete, FALSE)
           says == IF fusion.strategy = "opening_is_open" THEN values[1]
                   ELSE IF values[1] = "true" THEN "open"
                   ELSE IF values[2] = "true" THEN "tilted" ELSE "closed"
           convincing == Convincing(fusion, contacts, field)
<1>1. /\ fusion.strategy = "opening_source_count" =>
           r = IF whole THEN Claim("count", TRUE) ELSE Undecided("unknown")
      /\ fusion.strategy = "opening_available" =>
           r = CASE ~valid \/ contacts = <<>> -> Undecided("unavailable")
                 [] contacts # <<>> /\ both -> [Claim("false", FALSE) EXCEPT !.conflict = TRUE]
                 [] OTHER -> Claim(IF fresh THEN "true" ELSE "false", fresh)
      /\ fusion.strategy \notin {"opening_source_count", "opening_available"} =>
           r = CASE ~fresh \/ Len(contacts) # 2 -> Undecided("unknown")
                 [] Len(contacts) = 2 /\ both -> [Undecided("unknown") EXCEPT !.conflict = TRUE]
                 [] OTHER -> Claim(says, TRUE)
  <2>1. CASE fusion.strategy = "opening_source_count"
    <3>1. fusion.strategy # "opening_available"  BY <2>1
    <3>2. r = IF whole THEN Claim("count", TRUE) ELSE Undecided("unknown")
      BY <2>1, Zenon DEF SelectOpening
    <3> QED  BY <2>1, <3>1, <3>2
  <2>2. CASE fusion.strategy = "opening_available"
    <3>1. fusion.strategy # "opening_source_count"  BY <2>2
    <3>2. r = CASE ~valid \/ contacts = <<>> -> Undecided("unavailable")
                [] contacts # <<>> /\ both -> [Claim("false", FALSE) EXCEPT !.conflict = TRUE]
                [] OTHER -> Claim(IF fresh THEN "true" ELSE "false", fresh)
      BY <2>2, <3>1, Zenon DEF SelectOpening
    <3> QED  BY <2>2, <3>1, <3>2, Zenon
  <2>3. CASE fusion.strategy \notin {"opening_source_count", "opening_available"}
    <3>1. fusion.strategy # "opening_source_count" /\ fusion.strategy # "opening_available"
      BY <2>3
    <3>2. r = CASE ~fresh \/ Len(contacts) # 2 -> Undecided("unknown")
                [] Len(contacts) = 2 /\ both -> [Undecided("unknown") EXCEPT !.conflict = TRUE]
                [] OTHER -> Claim(says, TRUE)
      BY <3>1, Zenon DEF SelectOpening
    <3> QED  BY <3>1, <3>2, Zenon
  <2> QED  BY <2>1, <2>2, <2>3, Zenon
<1>2. /\ fusion.strategy = "opening_source_count" => (convincing <=> whole)
      /\ fusion.strategy = "opening_available" =>
           (convincing <=> fresh /\ ~both /\ contacts # <<>>)
      /\ fusion.strategy \notin {"opening_source_count", "opening_available"} =>
           (convincing <=> fresh /\ ~both /\ Len(contacts) = 2)
  BY DEF Convincing, ValuesOf
<1>3. fresh \in BOOLEAN /\ both \in BOOLEAN /\ (both => fresh) /\ (fresh => valid)  OBVIOUS
<1>5. \A state : Undecided(state).by = NoSignal
                 /\ [Undecided(state) EXCEPT !.conflict = TRUE].by = NoSignal
  BY DEF Undecided
<1> DEFINE Goal == /\ r.by # NoSignal => r.by = first /\ r.state = "valid"
                   /\ Complete(r) <=> first # NoSignal /\ convincing
<1> SUFFICES Goal  OBVIOUS
<1>6. r.by = NoSignal /\ ~convincing => Goal  BY DEF Complete
<1>7. /\ r.by = first /\ r.state = "valid"
      /\ (r.complete /\ ~r.conflict) <=> convincing
      => Goal
  BY DEF Complete
<1> HIDE DEF valid, fresh, both, whole, says, Claim, convincing, first, Goal
<1>8. CASE fusion.strategy = "opening_source_count"
  <2>1. CASE whole
    <3>1. r = Claim("count", TRUE)  BY <1>1, <1>8, <2>1
    <3>2. r.by = first /\ r.state = "valid" /\ r.complete = TRUE /\ r.conflict = FALSE
      BY <3>1 DEF Claim, Decided
    <3> QED  BY <1>2, <1>7, <1>8, <2>1, <3>2
  <2>2. CASE ~whole
    <3>1. r = Undecided("unknown")  BY <1>1, <1>8, <2>2
    <3> QED  BY <1>2, <1>5, <1>6, <1>8, <2>2, <3>1
  <2> QED  BY <2>1, <2>2
<1>9. CASE fusion.strategy = "opening_available"
  <2>1. CASE ~valid \/ contacts = <<>>
    <3>1. r = Undecided("unavailable") \/ r = [Claim("false", FALSE) EXCEPT !.conflict = TRUE]
      BY <1>1, <1>3, <1>9, <2>1
    <3>2. r = Undecided("unavailable")
      <4>1. ~both \/ contacts = <<>>  BY <1>3, <2>1
      <4> QED  BY <1>1, <1>9, <2>1, <4>1
    <3> QED  BY <1>2, <1>3, <1>5, <1>6, <1>9, <2>1, <3>2
  <2>2. CASE valid /\ contacts # <<>> /\ both
    <3>1. r = [Claim("false", FALSE) EXCEPT !.conflict = TRUE]  BY <1>1, <1>9, <2>2
    <3>2. r.by = first /\ r.state = "valid" /\ r.conflict = TRUE
      BY <3>1 DEF Claim, Decided
    <3> QED  BY <1>2, <1>7, <1>9, <2>2, <3>2
  <2>3. CASE valid /\ contacts # <<>> /\ ~both
    <3>1. r = Claim(IF fresh THEN "true" ELSE "false", fresh)  BY <1>1, <1>9, <2>3
    <3>2. r.by = first /\ r.state = "valid" /\ r.complete = fresh /\ r.conflict = FALSE
      BY <3>1 DEF Claim, Decided
    <3> QED  BY <1>2, <1>7, <1>9, <2>3, <3>2
  <2> QED  BY <2>1, <2>2, <2>3
<1>10. CASE fusion.strategy \notin {"opening_source_count", "opening_available"}
  <2>1. CASE ~fresh \/ Len(contacts) # 2
    <3>1. r = Undecided("unknown")
      <4>1. ~(Len(contacts) = 2 /\ both)  BY <1>3, <2>1
      <4> QED  BY <1>1, <1>10, <2>1, <4>1
    <3> QED  BY <1>2, <1>5, <1>6, <1>10, <2>1, <3>1
  <2>2. CASE fresh /\ Len(contacts) = 2 /\ both
    <3>1. r = [Undecided("unknown") EXCEPT !.conflict = TRUE]  BY <1>1, <1>10, <2>2
    <3> QED  BY <1>2, <1>5, <1>6, <1>10, <2>2, <3>1
  <2>3. CASE fresh /\ Len(contacts) = 2 /\ ~both
    <3>1. r = Claim(says, TRUE)  BY <1>1, <1>10, <2>3
    <3>2. r.by = first /\ r.state = "valid" /\ r.complete = TRUE /\ r.conflict = FALSE
      BY <3>1 DEF Claim, Decided
    <3> QED  BY <1>2, <1>7, <1>10, <2>3, <3>2
  <2> QED  BY <2>1, <2>2, <2>3
<1> QED  BY <1>8, <1>9, <1>10

(* Where all contacts show, they are the same ones, with the same values.  *)
LEMMA ContactsKeep ==
  ASSUME NEW g, NEW h, Read(g), Read(h), NoFresher(g, h), NEW field, field.ttl \in Nat,
         NEW ids \in Seq(Bindings), ids # <<>>,
         NEW p, p = SignalsOf(h, ids), NEW q, q = SignalsOf(g, ids), Len(p) = Len(ids)
  PROVE  /\ Len(q) = Len(p) /\ (q = <<>> <=> p = <<>>) /\ ValuesOf(q) = ValuesOf(p)
         /\ ContactsFresh(p, field) => ContactsFresh(q, field)
         /\ IsFresh(p[1], field) => IsFresh(q[1], field)
         /\ q[1] # NoSignal
<1> DEFINE thereG == {b \in Elems(ids) : g.signals[b] # NoSignal}
           thereH == {b \in Elems(ids) : h.signals[b] # NoSignal}
           present == Those(ids, Elems(ids))
           N == Len(present)
<1>1. Elems(ids) \subseteq Shown(h) /\ p \in Seq(Candidates(h)) /\ q \in Seq(Candidates(g))
  BY SignalsAre
<1>2. thereH = Elems(ids) /\ thereG = Elems(ids)
  <2>1. \A b \in Elems(ids) : b \in Shown(h) /\ b \in Shown(g)  BY <1>1, ShownNoFresher
  <2> QED  BY <2>1 DEF Shown
<1>3. /\ p = [i \in 1..N |-> SignalOf(h, present[i])]
      /\ q = [i \in 1..N |-> SignalOf(g, present[i])]
  <2>1. p = [i \in 1..Len(Those(ids, thereH)) |-> SignalOf(h, Those(ids, thereH)[i])]
    BY DEF SignalsOf, SignalOf
  <2>2. q = [i \in 1..Len(Those(ids, thereG)) |-> SignalOf(g, Those(ids, thereG)[i])]
    BY DEF SignalsOf, SignalOf
  <2> HIDE DEF thereG, thereH
  <2> QED  BY <1>2, <2>1, <2>2
<1>4. present \in Seq(Bindings) /\ Elems(present) = Elems(ids) /\ N = Len(ids)
  <2> DEFINE A == Elems(ids)
  <2>1. A \subseteq A /\ A \cap A = A  OBVIOUS
  <2> HIDE DEF A
  <2>2. Those(ids, A) \in Seq(Bindings) /\ Elems(Those(ids, A)) = Elems(ids) \cap A  BY ThoseAre
  <2>3. Elems(ids) \subseteq A  BY DEF A
  <2>4. Len(Those(ids, A)) = Len(ids)  BY <2>3, ThoseOfAll
  <2> QED  BY <2>2, <2>4 DEF A
<1>5. Len(ids) \in Nat \ {0} /\ 1 \in 1..Len(ids)  BY ElemsAre
<1> HIDE DEF present, N
<1>6. N \in Nat \ {0} /\ 1 \in 1..N /\ \A i \in 1..N : present[i] \in Shown(h)
  <2>1. N = Len(present)  BY DEF N
  <2> QED  BY <1>1, <1>4, <1>5, <2>1, ElemsAre
<1>7. ASSUME NEW i \in 1..N
      PROVE  /\ q[i].value = p[i].value /\ (IsFresh(p[i], field) => IsFresh(q[i], field))
             /\ p[i] = SignalOf(h, present[i]) /\ q[i] = SignalOf(g, present[i])
  <2>1. present[i] \in Shown(h)  BY <1>6
  <2> QED  BY <1>3, <2>1, ShownNoFresher
<1>8. Len(p) = N /\ Len(q) = N
  <2>1. \A i \in 1..N : SignalOf(h, present[i]) \in Candidates(h)
                        /\ SignalOf(g, present[i]) \in Candidates(g)
    BY <1>6, ShownNoFresher, SignalIsCandidate
  <2>2. p \in [1..N -> Candidates(h)] /\ q \in [1..N -> Candidates(g)]  BY <1>3, <2>1
  <2>3. Len(p) = N  BY <1>6, <2>2, SequenceOf
  <2>4. Len(q) = N  BY <1>6, <2>2, SequenceOf
  <2> QED  BY <2>3, <2>4
<1>9. p # <<>> /\ q # <<>>
  <2>1. Len(<<>>) = 0  BY EmptySeq
  <2> QED  BY <1>6, <1>8, <2>1
<1>10. ValuesOf(q) = ValuesOf(p)
  <2>1. [i \in 1..N |-> q[i].value] = [i \in 1..N |-> p[i].value]  BY <1>7
  <2> QED  BY <1>8, <2>1 DEF ValuesOf
<1>11. ASSUME ContactsFresh(p, field)  PROVE ContactsFresh(q, field)
  <2>1. \A i \in 1..N : IsFresh(p[i], field)  BY <1>8, <1>11 DEF ContactsFresh, Elems
  <2>2. \A i \in 1..N : IsFresh(q[i], field)  BY <1>7, <2>1
  <2> QED  BY <1>8, <2>2 DEF ContactsFresh, Elems
<1>12. q[1] # NoSignal
  <2>1. q[1] \in Candidates(g)  BY <1>1, <1>9, ElemsAre
  <2> QED  BY <2>1, NoSignalIsNoCandidate
<1> QED  BY <1>6, <1>7, <1>8, <1>9, <1>10, <1>11, <1>12

(* A fusion of contacts that is complete and current later is so now.      *)
LEMMA OpeningKeeps ==
  ASSUME NEW g, NEW h, Read(g), Read(h), NoFresher(g, h), NEW field, field.ttl \in Nat,
         NEW f \in DOMAIN g.config.fusions, IsOpening(g.config.fusions[f]),
         Complete(Selection(h, f, field)), IsFresh(Selection(h, f, field).by, field)
  PROVE  /\ Complete(Selection(g, f, field)) /\ Selection(g, f, field).state = "valid"
         /\ IsFresh(Selection(g, f, field).by, field)
<1> DEFINE fusion == g.config.fusions[f]
           ids == fusion.inputs
           p == SignalsOf(h, ids)
           q == SignalsOf(g, ids)
           r == SelectOpening(fusion, q, field)
           l == SelectOpening(fusion, p, field)
           now == Selection(g, f, field)
           later == Selection(h, f, field)
<1>1. h.config = g.config  BY DEF NoFresher
<1>2. /\ now.state = r.state /\ now.by = r.by
      /\ now.conflict = (r.conflict \/ FALSE) /\ now.complete = (r.complete /\ TRUE)
      /\ ids \in Seq(Bindings)
  BY OpeningReads
<1>3. /\ later.by = l.by
      /\ later.conflict = (l.conflict \/ FALSE) /\ later.complete = (l.complete /\ TRUE)
  BY <1>1, OpeningReads
<1>4. ids # <<>>  BY FusionsAre DEF Read
<1>5. /\ r.by # NoSignal => r.by = q[1] /\ r.state = "valid"
      /\ Complete(r) <=> q[1] # NoSignal /\ Convincing(fusion, q, field)
  <2> HIDE DEF q, fusion
  <2>1. IsOpening(fusion)  BY DEF fusion
  <2> QED  BY <2>1, OpeningIsWhole
<1>6. /\ l.by # NoSignal => l.by = p[1]
      /\ Complete(l) <=> p[1] # NoSignal /\ Convincing(fusion, p, field)
  <2> HIDE DEF p, fusion
  <2>1. IsOpening(fusion)  BY DEF fusion
  <2> QED  BY <2>1, OpeningIsWhole
<1> HIDE DEF now, later, r, l, ids, fusion
<1>7. Complete(l) /\ l.by = p[1] /\ Convincing(fusion, p, field) /\ IsFresh(p[1], field)
  BY <1>3, <1>6 DEF Complete, later
<1>8. Len(p) = Len(ids)  BY <1>7 DEF Convincing, ids
<1> HIDE DEF p, q
<1>9. /\ Len(q) = Len(p) /\ (q = <<>> <=> p = <<>>) /\ ValuesOf(q) = ValuesOf(p)
      /\ ContactsFresh(p, field) => ContactsFresh(q, field)
      /\ IsFresh(p[1], field) => IsFresh(q[1], field)
      /\ q[1] # NoSignal
  BY <1>2, <1>4, <1>8, ContactsKeep DEF p, q
<1>10. Convincing(fusion, q, field)  BY <1>7, <1>9 DEF Convincing
<1>11. Complete(r) /\ r.by = q[1] /\ r.state = "valid" /\ IsFresh(q[1], field)
  BY <1>5, <1>7, <1>9, <1>10 DEF Complete
<1> QED  BY <1>2, <1>11 DEF Complete, now

-----------------------------------------------------------------------------
(* A field whose fusion knows uncertainty.                                 *)

LEMMA FreshEvaluationKeeps ==
  ASSUME GInv, NoneEarly, BooleansReadBooleans, NEW n \in ThreeValued,
         FieldGate(SchemaField(Older(graph), n), Evaluated(Older(graph), n)) = "pass"
  PROVE  FieldGate(SchemaField(graph, n), Evaluated(graph, n)) = "pass"
<1> DEFINE h == Older(graph)
           f == FusionOf(graph, n)
           fusion == graph.config.fusions[f]
           field == FieldSchema(graph, n)
           now == Decision(graph, n)
           later == Decision(h, n)
<1>1. NoFresher(graph, h) /\ Read(graph) /\ Read(h) /\ h.config = graph.config
  BY WaitingFreshensNothing DEF NoFresher
<1>2. /\ n \in Fields(graph) /\ FusionsFor(graph, n) # {}
      /\ IsOpening([strategy |-> fusion.strategy]) \/ IsBoolean(fusion)
  BY DEF ThreeValued, StrategyOf, FusionOf, IsBoolean
<1>3. IsOpening(fusion) \/ IsBoolean(fusion)  BY <1>2 DEF IsOpening
<1>4. /\ FusionsFor(h, n) = FusionsFor(graph, n) /\ FusionOf(h, n) = f
      /\ FieldSchema(h, n) = field /\ Fields(h) = Fields(graph)
  BY <1>1 DEF FusionsFor, FusionOf, FieldSchema, Fields
<1>5. now = Selection(graph, f, field) /\ later = Selection(h, f, field)
  BY <1>2, <1>4 DEF Decision
<1>6. f \in DOMAIN graph.config.fusions /\ fusion.contract = Contract /\ fusion.field = n
  BY <1>2, FusionOfField DEF FusionsFor
<1>7. field.ttl \in Nat /\ field.type = Schemas[graph.config.schema][n].type
  BY <1>1, <1>2, FieldIsOfSchema DEF Read
<1>8. Passes(later, field)  BY <1>4, GatePasses
<1>9. Grounded(graph, field, f, now)  BY <1>1, <1>5, <1>6, <1>7, SelectionIsGrounded
<1> HIDE DEF h, now, later, field
<1>10. Complete(later) /\ IsFresh(later.by, field)
  BY <1>8 DEF Passes, Usable, Complete, IsFresh
<1>11. Complete(now) /\ now.state = "valid" /\ IsFresh(now.by, field)
  <2>1. CASE IsOpening(fusion)
    BY <1>1, <1>5, <1>6, <1>7, <1>10, <2>1, OpeningKeeps
  <2>2. CASE IsBoolean(fusion)
    <3>1. field.type = "boolean"
      BY <1>1, <1>6, <1>7, <2>2 DEF Read, Accepted, IsBoolean
    <3>2. Keeps(field, now, later)
      BY <1>1, <1>5, <1>6, <1>7, <2>2, <3>1, BooleansKeep
    <3>3. Complete(now) /\ IsFresh(now.by, field)
      BY <1>10, <3>2 DEF Keeps, Timely, Complete, IsFresh
    <3> QED  BY <1>9, <3>3 DEF Grounded, Complete
  <2> QED  BY <1>3, <2>1, <2>2
<1>12. Passes(now, field)  BY <1>11 DEF Passes, Usable, Complete, IsFresh
<1> QED  BY <1>12, GatePasses DEF now, field

(* GatesTimeAloneProvesNothing: when nothing happens but that evidence     *)
(* gets older, no judge becomes content; nor does the evidence gate on a   *)
(* fresh evaluation of what contacts decide, or Boolean fusions that read  *)
(* no others than such, however deep they nest.                            *)
THEOREM GatesTimeAloneProvesNothing ==
  ASSUME BooleansReadBooleans
  PROVE  GatesSpec => []TimeAloneProvesNothing
<1>1. GInv /\ (NoneEarly => NoJudgeGains(Older(graph))) => TimeAloneProvesNothing
  BY FreshEvaluationKeeps DEF TimeAloneProvesNothing
<1>2. GatesSpec => []GInv  BY GatesImplementGraph, GraphInvariant, PTL
<1> QED  BY <1>1, <1>2, TimeConvincesNoJudge, PTL
=============================================================================
