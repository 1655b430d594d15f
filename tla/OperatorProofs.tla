---------------------------- MODULE OperatorProofs ---------------------------
(***************************************************************************)
(* What the operators of Resolve, SmiTable and Exporter compute, for any   *)
(* lists, tables and snapshots.  The folds of the community modules are    *)
(* recursive functions; the induction over them is a well-founded          *)
(* induction over sets of naturals and of subsets.                         *)
(***************************************************************************)
EXTENDS Exporter, Integers, SequenceTheorems, FiniteSetTheorems,
        WellFoundedInduction, TLAPS

-----------------------------------------------------------------------------
(* Induction.                                                              *)

(* A set of naturals has a least element.                                  *)
LEMMA LeastNat ==
  ASSUME NEW S, S \subseteq Nat, S # {}
  PROVE  \E m \in S : \A n \in S : m <= n
<1> DEFINE Below == {pair \in Nat \X Nat : pair[1] < pair[2]}
<1>1. IsWellFoundedOn(Below, Nat)
  BY NatLessThanWellFounded DEF OpToRel
<1>2. PICK m \in S : \A n \in S : <<n, m>> \notin Below
  <2> HIDE DEF Below
  <2> QED BY <1>1, WFMin
<1>3. \A n \in S : ~(n < m)
  BY <1>2
<1> QED BY <1>3

(* Induction over the naturals, of which S are those with the property.    *)
LEMMA InductionNat ==
  ASSUME NEW S, 0 \in S, \A n \in Nat : n \in S => n + 1 \in S
  PROVE  Nat \subseteq S
<1> SUFFICES ASSUME Nat \ S # {} PROVE FALSE
  OBVIOUS
<1>1. PICK m \in Nat \ S : \A n \in Nat \ S : m <= n
  BY LeastNat
<1>2. m # 0 /\ m - 1 \in Nat
  BY <1>1
<1>3. m - 1 \in S
  BY <1>1, <1>2
<1>4. (m - 1) + 1 = m
  BY <1>1
<1> QED BY <1>1, <1>2, <1>3, <1>4

(* Induction up to a bound.                                                *)
LEMMA InductionUpTo ==
  ASSUME NEW N \in Nat, NEW S, 0 \in S,
         \A n \in 1..N : n - 1 \in S => n \in S
  PROVE  0..N \subseteq S
<1> DEFINE T == {n \in Nat : n <= N => n \in S}
<1>1. 0 \in T
  OBVIOUS
<1>2. \A n \in Nat : n \in T => n + 1 \in T
  <2> SUFFICES ASSUME NEW n \in Nat, n \in T, n + 1 <= N PROVE n + 1 \in S
    OBVIOUS
  <2>1. n \in S /\ n + 1 \in 1..N /\ (n + 1) - 1 = n
    OBVIOUS
  <2> QED BY <2>1
<1>3. Nat \subseteq T
  <2> HIDE DEF T
  <2> QED BY <1>1, <1>2, InductionNat
<1> QED BY <1>3

(* Induction over the subsets of a finite set, by leaving out one element. *)
LEMMA InductionSubset ==
  ASSUME NEW S, IsFiniteSet(S), NEW Q, {} \in Q,
         \A s \in SUBSET S : s # {} /\ (\A x \in s : s \ {x} \in Q) => s \in Q
  PROVE  SUBSET S \subseteq Q
<1> DEFINE T == {n \in Nat : \A s \in SUBSET S : Cardinality(s) = n => s \in Q}
<1>1. \A s \in SUBSET S : IsFiniteSet(s) /\ Cardinality(s) \in Nat
  BY FS_Subset, FS_CardinalityType
<1>2. 0 \in T
  BY <1>1, FS_EmptySet
<1>3. ASSUME NEW n \in Nat, n \in T PROVE n + 1 \in T
  <2> SUFFICES ASSUME NEW s \in SUBSET S, Cardinality(s) = n + 1 PROVE s \in Q
    OBVIOUS
  <2>1. s # {}
    <3>1. Cardinality({}) = 0 /\ n + 1 # 0
      BY FS_EmptySet
    <3> QED BY <3>1
  <2>2. ASSUME NEW x \in s PROVE s \ {x} \in Q
    <3>1. Cardinality(s \ {x}) = n
      BY <1>1, FS_RemoveElement
    <3> QED BY <1>3, <3>1
  <2> QED BY <2>1, <2>2
<1>4. Nat \subseteq T
  <2> HIDE DEF T
  <2> QED BY <1>2, <1>3, InductionNat
<1> QED BY <1>1, <1>4

(* A function on the subsets of a finite set may be defined from its value *)
(* without one picked element: the recursion behind every fold is well     *)
(* defined.                                                                *)
Picks(pick, S) == \A s \in SUBSET S : s # {} => pick[s] \in s

FoldsBy(F, pick, base, S, it) ==
  \A s \in SUBSET S :
    it[s] = IF s = {} THEN base ELSE F[<<pick[s], it[s \ {pick[s]}]>>]

(* A function of the subsets that is computed one picked element after the *)
(* other exists.                                                           *)
LEMMA SubsetRecursion ==
  ASSUME NEW S, IsFiniteSet(S), NEW A, NEW base \in A,
         NEW pick, Picks(pick, S), NEW F \in [S \X A -> A]
  PROVE  \E it \in [SUBSET S -> A] : FoldsBy(F, pick, base, S, it)
<1> USE DEF Picks
<1> DEFINE Small(n) == {s \in SUBSET S : Cardinality(s) <= n}
           Value(it, s) == IF s = {} THEN base ELSE F[<<pick[s], it[s \ {pick[s]}]>>]
           Good(n, it) == /\ it \in [Small(n) -> A]
                          /\ \A s \in Small(n) : it[s] = Value(it, s)
           T == {n \in Nat : \E it : Good(n, it)}
<1>1. \A s \in SUBSET S : IsFiniteSet(s) /\ Cardinality(s) \in Nat
  BY FS_Subset, FS_CardinalityType
<1>2. 0 \in T
  <2>1. \A s \in Small(0) : s = {}
    BY <1>1, FS_EmptySet
  <2>2. Good(0, [s \in Small(0) |-> base])
    BY <2>1
  <2> QED BY <2>2
<1>3. ASSUME NEW n \in Nat, n \in T PROVE n + 1 \in T
  <2>1. PICK g : Good(n, g)
    BY <1>3
  <2> DEFINE h == [s \in Small(n + 1) |-> Value(g, s)]
  <2>2. ASSUME NEW s \in Small(n + 1), s # {}
        PROVE  s \ {pick[s]} \in Small(n) /\ pick[s] \in S
    <3>1. pick[s] \in s
      BY <2>2
    <3>2. Cardinality(s \ {pick[s]}) = Cardinality(s) - 1
      BY <1>1, <3>1, FS_RemoveElement
    <3> QED BY <1>1, <3>1, <3>2
  <2>3. h \in [Small(n + 1) -> A]
    BY <2>1, <2>2
  <2>4. Small(n) \subseteq Small(n + 1)
    BY <1>1
  <2>5. \A s \in Small(n) : h[s] = g[s]
    BY <2>1, <2>4
  <2>6. \A s \in Small(n + 1) : h[s] = Value(h, s)
    <3> TAKE s \in Small(n + 1)
    <3>1. CASE s = {}
      BY <3>1
    <3>2. CASE s # {}
      <4>1. h[s] = F[<<pick[s], g[s \ {pick[s]}]>>]
        BY <3>2
      <4>2. h[s \ {pick[s]}] = g[s \ {pick[s]}]
        <5> HIDE DEF h, Small
        <5> QED BY <2>2, <2>5, <3>2
      <4> HIDE DEF h
      <4> QED BY <3>2, <4>1, <4>2
    <3> QED BY <3>1, <3>2
  <2>7. Good(n + 1, h)
    BY <2>3, <2>6
  <2> QED
    <3> HIDE DEF Good, h
    <3> QED BY <2>7
<1>4. Cardinality(S) \in T
  <2>1. Nat \subseteq T
    <3> HIDE DEF T
    <3> QED BY <1>2, <1>3, InductionNat
  <2> QED BY <2>1, FS_CardinalityType
<1>5. Small(Cardinality(S)) = SUBSET S
  BY FS_Subset
<1> QED BY <1>4, <1>5 DEF FoldsBy

-----------------------------------------------------------------------------
(* The folds.                                                              *)

(* The elements of a sequence that has got another one.                    *)
LEMMA ToSetAppend ==
  ASSUME NEW T, NEW s \in Seq(T), NEW x
  PROVE  ToSet(Append(s, x)) = ToSet(s) \cup {x}
<1>1. DOMAIN s = 1..Len(s) /\ Len(s) \in Nat
  OBVIOUS
<1>2. /\ DOMAIN Append(s, x) = 1..(Len(s) + 1)
      /\ \A i \in 1..Len(s) : Append(s, x)[i] = s[i]
      /\ Append(s, x)[Len(s) + 1] = x
  BY SeqMonotonic, AppendProperties
<1> QED BY <1>1, <1>2 DEF ToSet

(* Keys lists a finite set, each element once.                             *)
LEMMA KeysList ==
  ASSUME NEW S, IsFiniteSet(S)
  PROVE  /\ Keys(S) \in Seq(S)
         /\ ToSet(Keys(S)) = S
         /\ IsInjective(Keys(S))
<1> DEFINE pick == [s \in SUBSET S |-> CHOOSE x \in s : TRUE]
           Eq(it) == it = [s \in SUBSET S |->
                             IF s = {} THEN <<>>
                             ELSE Append(it[s \ {CHOOSE x \in s : TRUE}],
                                         CHOOSE x \in s : TRUE)]
           all == CHOOSE it : Eq(it)
<1>1. Keys(S) = all[S]
  BY DEF Keys, FoldSet, MapThenFoldSet
<1>0. \A s \in SUBSET S : pick[s] = CHOOSE x \in s : TRUE
  OBVIOUS
<1>2. Picks(pick, S)
  BY DEF Picks
<1>3. \E it : Eq(it)
  <2> DEFINE A == Seq(S)
             F == [p \in S \X A |-> Append(p[2], p[1])]
  <2>1. F \in [S \X A -> A] /\ <<>> \in A
    OBVIOUS
  <2>2. PICK it \in [SUBSET S -> A] : FoldsBy(F, pick, <<>>, S, it)
    <3> HIDE DEF F, A, pick
    <3> QED BY <1>2, <2>1, SubsetRecursion
  <2>3. ASSUME NEW s \in SUBSET S, s # {}
        PROVE  it[s] = Append(it[s \ {pick[s]}], pick[s])
    <3>1. pick[s] \in S /\ it[s \ {pick[s]}] \in Seq(S)
      BY <1>2, <2>3 DEF Picks
    <3> HIDE DEF pick
    <3> QED BY <2>2, <2>3, <3>1 DEF FoldsBy
  <2>4. it = [s \in SUBSET S |-> it[s]]
    OBVIOUS
  <2>5. \A s \in SUBSET S :
          it[s] = IF s = {} THEN <<>>
                  ELSE Append(it[s \ {CHOOSE x \in s : TRUE}], CHOOSE x \in s : TRUE)
    BY <1>0, <2>2, <2>3 DEF FoldsBy
  <2> QED BY <2>4, <2>5
<1>4. Eq(all)
  <2> HIDE DEF Eq
  <2> QED BY <1>3
<1>5. /\ all[{}] = <<>>
      /\ \A s \in SUBSET S : s # {} => all[s] = Append(all[s \ {pick[s]}], pick[s])
  <2> HIDE DEF all
  <2> QED BY <1>4
<1> DEFINE Q == {s \in SUBSET S : /\ all[s] \in Seq(s)
                                  /\ ToSet(all[s]) = s
                                  /\ IsInjective(all[s])}
<1>6. {} \in Q
  <2>1. <<>> \in Seq({}) /\ ToSet(<<>>) = {} /\ IsInjective(<<>>)
    BY DEF ToSet, IsInjective
  <2> HIDE DEF all
  <2> QED BY <1>5, <2>1
<1>7. ASSUME NEW s \in SUBSET S, s # {}, \A x \in s : s \ {x} \in Q
      PROVE  s \in Q
  <2> DEFINE x == pick[s]
             k == all[s \ {x}]
  <2>1. x \in s
    BY <1>2, <1>7 DEF Picks
  <2>2. /\ k \in Seq(s \ {x}) /\ ToSet(k) = s \ {x} /\ IsInjective(k)
    BY <1>7, <2>1
  <2>3. all[s] = Append(k, x)
    BY <1>5, <1>7
  <2> HIDE DEF pick, k, x
  <2>4. k \in Seq(s)
    BY <2>2
  <2>5. Append(k, x) \in Seq(s)
    BY <2>1, <2>4
  <2>6. ToSet(Append(k, x)) = s
    <3>1. ToSet(Append(k, x)) = (s \ {x}) \cup {x}
      BY <2>2, ToSetAppend
    <3> QED BY <2>1, <3>1
  <2>7. IsInjective(Append(k, x))
    BY <2>1, <2>2, <2>4 DEF IsInjective, ToSet
  <2> QED BY <2>3, <2>5, <2>6, <2>7
<1>8. SUBSET S \subseteq Q
  <2> HIDE DEF Q
  <2> QED BY <1>6, <1>7, InductionSubset
<1> QED BY <1>1, <1>8

(* A prefix is the one before it and one more index.                       *)
LEMMA Prefix ==
  ASSUME NEW n \in Nat, NEW k \in 1..n
  PROVE  /\ 1..k # {} /\ 1..k \in SUBSET (1..n)
         /\ (1..k) \ {k} = 1..(k - 1) /\ k - 1 \in 0..n /\ k \in 0..n
<1>1. k \in 1..k
  OBVIOUS
<1>2. (1..k) \ {k} = 1..(k - 1)
  OBVIOUS
<1>3. 1..k \in SUBSET (1..n) /\ k - 1 \in 0..n /\ k \in 0..n
  OBVIOUS
<1> QED BY <1>1, <1>2, <1>3

(* The greatest index of a prefix, and of any part of one.                 *)
LEMMA MaxOfPrefix ==
  ASSUME NEW n \in Nat
  PROVE  /\ \A s \in SUBSET (1..n) : s # {} => Max(s) \in s
         /\ \A k \in 1..n : Max(1..k) = k
<1>1. ASSUME NEW s \in SUBSET (1..n), s # {}
      PROVE  \E x \in s : \A y \in s : x >= y
  <2> DEFINE T == {n - x : x \in s}
  <2>1. T \subseteq Nat /\ T # {}
    <3>1. \A x \in s : n - x \in Nat
      OBVIOUS
    <3> QED BY <1>1, <3>1
  <2>2. PICK m \in T : \A k \in T : m <= k
    <3> HIDE DEF T
    <3> QED BY <2>1, LeastNat
  <2>3. PICK x \in s : m = n - x
    OBVIOUS
  <2>4. \A y \in s : x >= y
    BY <2>2, <2>3
  <2> QED BY <2>4
<1>2. \A s \in SUBSET (1..n) : s # {} => Max(s) \in s
  BY <1>1 DEF Max
<1>3. ASSUME NEW k \in 1..n PROVE Max(1..k) = k
  <2>1. k \in 1..k /\ \A y \in 1..k : k >= y
    OBVIOUS
  <2>2. \A x \in 1..k : (\A y \in 1..k : x >= y) => x = k
    BY <2>1
  <2> QED BY <2>1, <2>2 DEF Max
<1> QED BY <1>2, <1>3
(* What is kept, from one prefix to the next.                              *)
Keeping(h, items, out) ==
  /\ h[0] = <<>>
  /\ \A k \in 1..Len(items) :
       h[k] = IF items[k] \in out THEN h[k - 1] ELSE Append(h[k - 1], items[k])
  /\ Without(items, out) = h[Len(items)]

(* The fold that keeps what is not left out, prefix by prefix.             *)
LEMMA WithoutFold ==
  ASSUME NEW T, NEW items \in Seq(T), NEW out
  PROVE  \E h \in [0..Len(items) -> Seq(T)] : Keeping(h, items, out)
<1> DEFINE n == Len(items)
           A == Seq(T)
           F == [p \in (1..n) \X A |->
                   IF items[p[1]] \in out THEN p[2] ELSE Append(p[2], items[p[1]])]
           pick == [s \in SUBSET (1..n) |-> Max(s)]
           Eq(it) == it = [s \in SUBSET (1..n) |->
                             IF s = {} THEN <<>>
                             ELSE IF items[Max(s)] \in out THEN it[s \ {Max(s)}]
                                  ELSE Append(it[s \ {Max(s)}], items[Max(s)])]
           all == CHOOSE it : Eq(it)
           h == [k \in 0..n |-> all[1..k]]
<1>1. n \in Nat /\ DOMAIN items = 1..n /\ \A k \in 1..n : items[k] \in T
  OBVIOUS
<1>2. Without(items, out) = all[1..n]
  BY <1>1 DEF Without, FoldLeft, MapThenFoldSet
<1>3. \E it : Eq(it)
  <2>1. /\ \A k \in 1..n, a \in A : (IF items[k] \in out THEN a
                                     ELSE Append(a, items[k])) \in A
        /\ <<>> \in A
    OBVIOUS
  <2>2. F \in [(1..n) \X A -> A]
    BY <2>1
  <2>3. Picks(pick, 1..n)
    BY <1>1, MaxOfPrefix DEF Picks
  <2>4. IsFiniteSet(1..n)
    BY <1>1, FS_Interval
  <2>5. PICK it \in [SUBSET (1..n) -> A] : FoldsBy(F, pick, <<>>, 1..n, it)
    <3> HIDE DEF F, A, pick, n
    <3> QED BY <2>1, <2>2, <2>3, <2>4, SubsetRecursion
  <2>6. ASSUME NEW s \in SUBSET (1..n), s # {}
        PROVE  it[s] = IF items[Max(s)] \in out THEN it[s \ {Max(s)}]
                       ELSE Append(it[s \ {Max(s)}], items[Max(s)])
    <3>1. Max(s) \in 1..n /\ it[s \ {Max(s)}] \in A /\ pick[s] = Max(s)
      BY <2>3, <2>6 DEF Picks
    <3>2. F[<<Max(s), it[s \ {Max(s)}]>>] = IF items[Max(s)] \in out THEN it[s \ {Max(s)}]
                                            ELSE Append(it[s \ {Max(s)}], items[Max(s)])
      <4> HIDE DEF pick, A
      <4> QED BY <3>1
    <3> HIDE DEF pick, F, A
    <3> QED BY <2>5, <2>6, <3>1, <3>2 DEF FoldsBy
  <2>7. it[{}] = <<>>
    BY <2>5 DEF FoldsBy
  <2>8. Eq(it)
    <3>1. it = [s \in SUBSET (1..n) |-> it[s]]
      OBVIOUS
    <3> HIDE DEF n
    <3> QED BY <2>6, <2>7, <3>1
  <2> QED BY <2>8
<1>4. Eq(all)
  <2> HIDE DEF Eq
  <2> QED BY <1>3
<1>5. h[0] = <<>>
  <2> HIDE DEF all
  <2> QED BY <1>1, <1>4
<1>6. ASSUME NEW k \in 1..n
      PROVE  h[k] = IF items[k] \in out THEN h[k - 1] ELSE Append(h[k - 1], items[k])
  <2>1. /\ Max(1..k) = k /\ 1..k # {} /\ 1..k \in SUBSET (1..n)
        /\ (1..k) \ {k} = 1..(k - 1) /\ k - 1 \in 0..n /\ k \in 0..n
    <3> HIDE DEF all, n
    <3> QED BY <1>1, MaxOfPrefix, Prefix
  <2> HIDE DEF all, n
  <2>2. all[1..k] = IF items[k] \in out THEN all[1..(k - 1)]
                    ELSE Append(all[1..(k - 1)], items[k])
    BY <1>4, <2>1
  <2> QED BY <2>1, <2>2
<1>7. ASSUME NEW a \in A, NEW k \in 1..n
      PROVE  (IF items[k] \in out THEN a ELSE Append(a, items[k])) \in A
  OBVIOUS
<1>8. <<>> \in A
  OBVIOUS
<1> DEFINE S == {k \in 0..n : h[k] \in A}
<1>9. 0 \in S
  <2>1. 0 \in 0..n
    BY <1>1
  <2> HIDE DEF h, n, A
  <2> QED BY <1>5, <1>8, <2>1
<1>10. \A k \in 1..n : k - 1 \in S => k \in S
  <2> HIDE DEF h, A
  <2> QED BY <1>1, <1>6, <1>7
<1>11. 0..n \subseteq S
  <2> HIDE DEF S, n
  <2> QED BY <1>1, <1>9, <1>10, InductionUpTo
<1>12. h \in [0..n -> A]
  BY <1>11
<1>13. h[n] = all[1..n]
  <2> HIDE DEF all
  <2> QED BY <1>1
<1> QED
  <2> HIDE DEF h, all
  <2> QED BY <1>2, <1>5, <1>6, <1>12, <1>13 DEF Keeping

(* The unique fields, from one prefix to the next.                         *)
LEMMA DuplicatesFold ==
  ASSUME NEW T, NEW fields \in Seq(T)
  PROVE  \E h \in [0..Len(fields) -> Seq(T)] :
           /\ h[0] = <<>>
           /\ \A k \in 1..Len(fields) :
                h[k] = IF fields[k] \in ToSet(h[k - 1]) THEN h[k - 1]
                       ELSE Append(h[k - 1], fields[k])
           /\ removeDuplicates(fields) = h[Len(fields)]
<1> DEFINE n == Len(fields)
           A == Seq(T)
           F == [p \in (1..n) \X A |->
                   IF fields[p[1]] \in ToSet(p[2]) THEN p[2]
                   ELSE Append(p[2], fields[p[1]])]
           pick == [s \in SUBSET (1..n) |-> Max(s)]
           Eq(it) == it = [s \in SUBSET (1..n) |->
                             IF s = {} THEN <<>>
                             ELSE IF fields[Max(s)] \in ToSet(it[s \ {Max(s)}]) THEN it[s \ {Max(s)}]
                                  ELSE Append(it[s \ {Max(s)}], fields[Max(s)])]
           all == CHOOSE it : Eq(it)
           h == [k \in 0..n |-> all[1..k]]
<1>1. n \in Nat /\ DOMAIN fields = 1..n /\ \A k \in 1..n : fields[k] \in T
  OBVIOUS
<1>2. removeDuplicates(fields) = all[1..n]
  BY <1>1 DEF removeDuplicates, FoldLeft, MapThenFoldSet
<1>3. \E it : Eq(it)
  <2>1. /\ \A k \in 1..n, a \in A : (IF fields[k] \in ToSet(a) THEN a
                                     ELSE Append(a, fields[k])) \in A
        /\ <<>> \in A
    OBVIOUS
  <2>2. F \in [(1..n) \X A -> A]
    BY <2>1
  <2>3. Picks(pick, 1..n)
    BY <1>1, MaxOfPrefix DEF Picks
  <2>4. IsFiniteSet(1..n)
    BY <1>1, FS_Interval
  <2>5. PICK it \in [SUBSET (1..n) -> A] : FoldsBy(F, pick, <<>>, 1..n, it)
    <3> HIDE DEF F, A, pick, n
    <3> QED BY <2>1, <2>2, <2>3, <2>4, SubsetRecursion
  <2>6. ASSUME NEW s \in SUBSET (1..n), s # {}
        PROVE  it[s] = IF fields[Max(s)] \in ToSet(it[s \ {Max(s)}]) THEN it[s \ {Max(s)}]
                       ELSE Append(it[s \ {Max(s)}], fields[Max(s)])
    <3>1. Max(s) \in 1..n /\ it[s \ {Max(s)}] \in A /\ pick[s] = Max(s)
      BY <2>3, <2>6 DEF Picks
    <3>2. F[<<Max(s), it[s \ {Max(s)}]>>] = IF fields[Max(s)] \in ToSet(it[s \ {Max(s)}]) THEN it[s \ {Max(s)}]
                                            ELSE Append(it[s \ {Max(s)}], fields[Max(s)])
      <4> HIDE DEF pick, A
      <4> QED BY <3>1
    <3> HIDE DEF pick, F, A
    <3> QED BY <2>5, <2>6, <3>1, <3>2 DEF FoldsBy
  <2>7. it[{}] = <<>>
    BY <2>5 DEF FoldsBy
  <2>8. Eq(it)
    <3>1. it = [s \in SUBSET (1..n) |-> it[s]]
      OBVIOUS
    <3> HIDE DEF n
    <3> QED BY <2>6, <2>7, <3>1
  <2> QED BY <2>8
<1>4. Eq(all)
  <2> HIDE DEF Eq
  <2> QED BY <1>3
<1>5. h[0] = <<>>
  <2> HIDE DEF all
  <2> QED BY <1>1, <1>4
<1>6. ASSUME NEW k \in 1..n
      PROVE  h[k] = IF fields[k] \in ToSet(h[k - 1]) THEN h[k - 1]
                    ELSE Append(h[k - 1], fields[k])
  <2>1. /\ Max(1..k) = k /\ 1..k # {} /\ 1..k \in SUBSET (1..n)
        /\ (1..k) \ {k} = 1..(k - 1) /\ k - 1 \in 0..n /\ k \in 0..n
    <3> HIDE DEF all, n
    <3> QED BY <1>1, MaxOfPrefix, Prefix
  <2> HIDE DEF all, n
  <2>2. all[1..k] = IF fields[k] \in ToSet(all[1..(k - 1)]) THEN all[1..(k - 1)]
                    ELSE Append(all[1..(k - 1)], fields[k])
    BY <1>4, <2>1
  <2> QED BY <2>1, <2>2
<1>7. ASSUME NEW a \in A, NEW k \in 1..n
      PROVE  (IF fields[k] \in ToSet(a) THEN a ELSE Append(a, fields[k])) \in A
  OBVIOUS
<1>8. <<>> \in A
  OBVIOUS
<1> DEFINE S == {k \in 0..n : h[k] \in A}
<1>9. 0 \in S
  <2>1. 0 \in 0..n
    BY <1>1
  <2> HIDE DEF h, n, A
  <2> QED BY <1>5, <1>8, <2>1
<1>10. \A k \in 1..n : k - 1 \in S => k \in S
  <2> HIDE DEF h, A
  <2> QED BY <1>1, <1>6, <1>7
<1>11. 0..n \subseteq S
  <2> HIDE DEF S, n
  <2> QED BY <1>1, <1>9, <1>10, InductionUpTo
<1>12. h \in [0..n -> A]
  BY <1>11
<1>13. h[n] = all[1..n]
  <2> HIDE DEF all
  <2> QED BY <1>1
<1> QED
  <2> HIDE DEF h, all
  <2> QED BY <1>2, <1>5, <1>6, <1>12, <1>13
(* What is left of a list are its other items, each from a place of its    *)
(* own.                                                                    *)
LEMMA WithoutList ==
  ASSUME NEW T, NEW items \in Seq(T), NEW out
  PROVE  /\ Without(items, out) \in Seq(T)
         /\ ToSet(Without(items, out)) = ToSet(items) \ out
         /\ \E at \in [DOMAIN Without(items, out) -> DOMAIN items] :
              /\ IsInjective(at)
              /\ \A i \in DOMAIN at : Without(items, out)[i] = items[at[i]]
<1> DEFINE n == Len(items)
<1>0. PICK h \in [0..Len(items) -> Seq(T)] : Keeping(h, items, out)
  BY WithoutFold, Zenon
<1>1. /\ h \in [0..n -> Seq(T)] /\ h[0] = <<>>
      /\ \A k \in 1..n :
           h[k] = IF items[k] \in out THEN h[k - 1]
                  ELSE Append(h[k - 1], items[k])
      /\ Without(items, out) = h[n]
  BY <1>0 DEF Keeping
<1> DEFINE Places(k, at) ==
             /\ at \in [1..Len(h[k]) -> 1..k]
             /\ \A i, j \in 1..Len(h[k]) : at[i] = at[j] => i = j
             /\ \A i \in 1..Len(h[k]) : h[k][i] = items[at[i]]
             /\ \A i \in 1..Len(h[k]) : items[at[i]] \notin out
             /\ \A l \in 1..k : items[l] \notin out =>
                  \E i \in 1..Len(h[k]) : at[i] = l
           S == {k \in 0..n : \E at : Places(k, at)}
<1>2. n \in Nat /\ DOMAIN items = 1..n
  OBVIOUS
<1>3. 0 \in S
  <2>1. Len(h[0]) = 0 /\ 0 \in 0..n
    BY <1>1, <1>2
  <2>2. Places(0, <<>>)
    BY <2>1
  <2> HIDE DEF n, Places
  <2> QED BY <2>1, <2>2
<1>4. \A k \in 1..n : k - 1 \in S => k \in S
  <2> SUFFICES ASSUME NEW k \in 1..n, k - 1 \in S PROVE k \in S
    OBVIOUS
  <2>0. k \in 0..n /\ k - 1 \in 0..n /\ k \in Nat /\ k - 1 \in Nat
    BY <1>2
  <2>1. PICK at : Places(k - 1, at)
    OBVIOUS
  <2> DEFINE m == Len(h[k - 1])
  <2>2. m \in Nat /\ h[k - 1] \in Seq(T) /\ items[k] \in T
    <3>1. h[k - 1] \in Seq(T)
      BY <2>0
    <3>2. items[k] \in T
      BY <1>2
    <3> QED BY <3>1, <3>2
  <2>3. CASE items[k] \in out
    <3>1. h[k] = h[k - 1]
      BY <1>1, <2>3
    <3>2. 1..(k - 1) \subseteq 1..k /\ \A l \in 1..k : l = k \/ l \in 1..(k - 1)
      BY <2>0
    <3>3. Places(k, at)
      <4>1. at \in [1..Len(h[k]) -> 1..k]
        BY <2>1, <3>1, <3>2
      <4>2. \A l \in 1..k : items[l] \notin out => \E i \in 1..Len(h[k]) : at[i] = l
        BY <2>1, <2>3, <3>1, <3>2
      <4> QED BY <2>1, <3>1, <4>1, <4>2
    <3> HIDE DEF Places, n
    <3> QED BY <2>0, <3>3
  <2>4. CASE items[k] \notin out
    <3> DEFINE to == [i \in 1..(m + 1) |-> IF i = m + 1 THEN k ELSE at[i]]
    <3>1. h[k] = Append(h[k - 1], items[k])
      BY <1>1, <2>4
    <3>2. /\ Len(h[k]) = m + 1 /\ h[k][m + 1] = items[k]
          /\ \A i \in 1..m : h[k][i] = h[k - 1][i]
      BY <2>2, <3>1
    <3>3. to \in [1..(m + 1) -> 1..k]
      BY <2>0, <2>1, <2>2
    <3>4. \A i \in 1..m : to[i] = at[i] /\ at[i] \in 1..(k - 1)
      <4>1. \A i \in 1..m : i \in 1..(m + 1) /\ i # m + 1
        BY <2>2
      <4>2. at \in [1..m -> 1..(k - 1)]
        BY <2>1
      <4> HIDE DEF m
      <4> QED BY <4>1, <4>2
    <3>5. to[m + 1] = k
      BY <2>2
    <3>6. Places(k, to)
      <4> HIDE DEF to, m
      <4>1. \A i, j \in 1..Len(h[k]) : to[i] = to[j] => i = j
        <5>1. \A i, j \in 1..m : at[i] = at[j] => i = j
          BY <2>1 DEF m
        <5>2. \A i \in 1..(m + 1) : i = m + 1 \/ i \in 1..m
          BY <2>2
        <5>3. \A i \in 1..m : to[i] # k
          BY <2>0, <3>4
        <5> QED BY <3>2, <3>4, <3>5, <5>1, <5>2, <5>3
      <4>2. \A i \in 1..Len(h[k]) : h[k][i] = items[to[i]] /\ items[to[i]] \notin out
        <5>1. \A i \in 1..m : h[k - 1][i] = items[at[i]] /\ items[at[i]] \notin out
          BY <2>1 DEF m
        <5>2. \A i \in 1..(m + 1) : i = m + 1 \/ i \in 1..m
          BY <2>2
        <5> QED BY <2>4, <3>2, <3>4, <3>5, <5>1, <5>2
      <4>3. \A l \in 1..k : items[l] \notin out => \E i \in 1..Len(h[k]) : to[i] = l
        <5>1. \A l \in 1..k : l = k \/ l \in 1..(k - 1)
          BY <2>0
        <5>2. m + 1 \in 1..(m + 1) /\ 1..m \subseteq 1..(m + 1)
          BY <2>2
        <5>3. \A l \in 1..(k - 1) : items[l] \notin out => \E i \in 1..m : at[i] = l
          BY <2>1 DEF m
        <5>4. ASSUME NEW l \in 1..(k - 1), items[l] \notin out
              PROVE  \E i \in 1..(m + 1) : to[i] = l
          <6>1. PICK i \in 1..m : at[i] = l
            BY <5>3, <5>4
          <6> QED BY <3>4, <5>2, <6>1
        <5> QED BY <3>2, <3>5, <5>1, <5>2, <5>4
      <4> QED BY <3>2, <3>3, <4>1, <4>2, <4>3
    <3> HIDE DEF Places, n
    <3> QED BY <2>0, <3>6
  <2> QED BY <2>3, <2>4
<1>5. n \in S
  <2>0. n \in Nat
    BY <1>2
  <2>1. 0..n \subseteq S
    <3> HIDE DEF S, n, Places
    <3> QED BY <2>0, <1>3, <1>4, InductionUpTo
  <2>2. n \in 0..n
    BY <2>0
  <2> HIDE DEF S, n, Places
  <2> QED BY <2>1, <2>2
<1>6. PICK at : Places(n, at)
  BY <1>5
<1> DEFINE w == Without(items, out)
<1>7. w = h[n] /\ w \in Seq(T) /\ DOMAIN w = 1..Len(w)
  BY <1>1, <1>2
<1>8. ToSet(w) = ToSet(items) \ out
  <2>1. \A i \in 1..Len(w) : w[i] = items[at[i]] /\ at[i] \in 1..n /\ items[at[i]] \notin out
    <3> HIDE DEF n, w
    <3> QED BY <1>6, <1>7
  <2>2. \A l \in 1..n : items[l] \notin out => \E i \in 1..Len(w) : at[i] = l
    <3> HIDE DEF n, w
    <3> QED BY <1>6, <1>7
  <2>3. \A x : x \in ToSet(w) <=> \E i \in 1..Len(w) : x = w[i]
    <3> HIDE DEF n, w
    <3> QED BY <1>7 DEF ToSet
  <2>4. \A x : x \in ToSet(items) <=> \E l \in 1..n : x = items[l]
    BY <1>2 DEF ToSet
  <2>5. \A x \in ToSet(w) : x \in ToSet(items) \ out
    <3> HIDE DEF n, w
    <3> QED BY <2>1, <2>3, <2>4
  <2>6. \A x \in ToSet(items) \ out : x \in ToSet(w)
    <3> SUFFICES ASSUME NEW l \in 1..n, items[l] \notin out
                 PROVE  items[l] \in ToSet(w)
      BY <2>4
    <3>1. PICK i \in 1..Len(w) : at[i] = l
      BY <2>2
    <3> HIDE DEF n, w
    <3> QED BY <2>1, <2>3, <3>1
  <2> HIDE DEF w
  <2> QED BY <2>5, <2>6
<1>9. /\ at \in [DOMAIN w -> DOMAIN items] /\ IsInjective(at)
      /\ \A i \in DOMAIN at : w[i] = items[at[i]]
  <2> HIDE DEF n, w
  <2> QED BY <1>2, <1>6, <1>7 DEF IsInjective
<1> QED BY <1>7, <1>8, <1>9

(* The unique fields are those of the list, each once.                     *)
LEMMA DuplicatesRemoved ==
  ASSUME NEW T, NEW fields \in Seq(T)
  PROVE  /\ removeDuplicates(fields) \in Seq(T)
         /\ ToSet(removeDuplicates(fields)) = ToSet(fields)
         /\ IsInjective(removeDuplicates(fields))
<1> DEFINE n == Len(fields)
<1>1. PICK h \in [0..n -> Seq(T)] :
        /\ h[0] = <<>>
        /\ \A k \in 1..n :
             h[k] = IF fields[k] \in ToSet(h[k - 1]) THEN h[k - 1]
                    ELSE Append(h[k - 1], fields[k])
        /\ removeDuplicates(fields) = h[n]
  BY DuplicatesFold
<1> DEFINE S == {k \in 0..n : /\ IsInjective(h[k])
                              /\ ToSet(h[k]) = {fields[i] : i \in 1..k}}
<1>2. n \in Nat /\ DOMAIN fields = 1..n
  OBVIOUS
<1>3. 0 \in S
  BY <1>1, <1>2 DEF ToSet, IsInjective
<1>4. \A k \in 1..n : k - 1 \in S => k \in S
  <2> SUFFICES ASSUME NEW k \in 1..n, k - 1 \in S PROVE k \in S
    OBVIOUS
  <2>1. k \in 0..n /\ k - 1 \in 0..n /\ 1..k = 1..(k - 1) \cup {k}
    BY <1>2
  <2>2. h[k - 1] \in Seq(T) /\ fields[k] \in T
    BY <1>1, <1>2, <2>1
  <2>3. {fields[i] : i \in 1..k} = {fields[i] : i \in 1..(k - 1)} \cup {fields[k]}
    BY <2>1
  <2>4. CASE fields[k] \in ToSet(h[k - 1])
    <3>1. h[k] = h[k - 1]
      BY <1>1, <2>4
    <3> QED BY <2>1, <2>3, <2>4, <3>1
  <2>5. CASE fields[k] \notin ToSet(h[k - 1])
    <3>1. h[k] = Append(h[k - 1], fields[k])
      BY <1>1, <2>5
    <3>2. ToSet(h[k]) = ToSet(h[k - 1]) \cup {fields[k]}
      BY <2>2, <3>1, ToSetAppend
    <3>3. IsInjective(h[k])
      <4>1. \A i \in 1..Len(h[k - 1]) : h[k - 1][i] # fields[k]
        BY <2>2, <2>5 DEF ToSet
      <4> QED BY <2>2, <3>1, <4>1 DEF IsInjective
    <3> QED BY <2>1, <2>3, <3>2, <3>3
  <2> QED BY <2>4, <2>5
<1>5. n \in S
  <2>1. 0..n \subseteq S
    <3> HIDE DEF S, n
    <3> QED BY <1>2, <1>3, <1>4, InductionUpTo
  <2> QED BY <1>2, <2>1
<1> QED BY <1>1, <1>2, <1>5 DEF ToSet

-----------------------------------------------------------------------------
(* Sequences of sequences, one behind the other.                           *)

(* What there is of them up to each one.                                   *)
Flattening(h, parts) ==
  /\ h[0] = <<>>
  /\ \A k \in 1..Len(parts) : h[k] = h[k - 1] \o parts[k]
  /\ FlattenSeq(parts) = h[Len(parts)]

(* The fold that joins the parts, prefix by prefix.                        *)
LEMMA FlattenFold ==
  ASSUME NEW T, NEW parts \in Seq(Seq(T))
  PROVE  \E h \in [0..Len(parts) -> Seq(T)] : Flattening(h, parts)
<1> DEFINE n == Len(parts)
           A == Seq(T)
           F == [p \in (1..n) \X A |-> p[2] \o parts[p[1]]]
           pick == [s \in SUBSET (1..n) |-> Max(s)]
           Eq(f) == f = [i \in 1..n |-> IF i = 1 THEN parts[i]
                                        ELSE f[i - 1] \o parts[i]]
           all == CHOOSE f : Eq(f)
<1>1. n \in Nat /\ DOMAIN parts = 1..n /\ \A k \in 1..n : parts[k] \in A
  OBVIOUS
<1>2. /\ \A k \in 1..n, a \in A : a \o parts[k] \in A
      /\ <<>> \in A
  OBVIOUS
<1>3. PICK it \in [SUBSET (1..n) -> A] : FoldsBy(F, pick, <<>>, 1..n, it)
  <2>1. F \in [(1..n) \X A -> A]
    BY <1>2
  <2>2. Picks(pick, 1..n)
    BY <1>1, MaxOfPrefix DEF Picks
  <2>3. IsFiniteSet(1..n)
    BY <1>1, FS_Interval
  <2> HIDE DEF F, A, pick, n
  <2> QED BY <1>2, <2>1, <2>2, <2>3, SubsetRecursion
<1> DEFINE h == [k \in 0..n |-> it[1..k]]
<1>4. h \in [0..n -> A]
  <2>1. \A k \in 0..n : 1..k \in SUBSET (1..n)
    BY <1>1
  <2> HIDE DEF n, A
  <2> QED BY <1>3, <2>1
<1>5. h[0] = <<>>
  <2>1. 1..0 = {} /\ 0 \in 0..n
    BY <1>1
  <2>2. it[{}] = <<>>
    BY <1>3 DEF FoldsBy
  <2> QED BY <2>1, <2>2
<1>6. ASSUME NEW k \in 1..n PROVE h[k] = h[k - 1] \o parts[k]
  <2>1. /\ Max(1..k) = k /\ 1..k # {} /\ 1..k \in SUBSET (1..n)
        /\ (1..k) \ {k} = 1..(k - 1) /\ k - 1 \in 0..n /\ k \in 0..n
    <3> HIDE DEF n
    <3> QED BY <1>1, MaxOfPrefix, Prefix
  <2>2. pick[1..k] = k
    BY <2>1
  <2>3. it[1..(k - 1)] \in A
    <3>1. 1..(k - 1) \in SUBSET (1..n)
      BY <2>1
    <3> HIDE DEF n, A
    <3> QED BY <1>3, <3>1
  <2>4. F[<<k, it[1..(k - 1)]>>] = it[1..(k - 1)] \o parts[k]
    <3> HIDE DEF A
    <3> QED BY <2>3
  <2>5. it[1..k] = it[1..(k - 1)] \o parts[k]
    <3> HIDE DEF F, pick, A, n
    <3> QED BY <1>3, <2>1, <2>2, <2>4 DEF FoldsBy
  <2> QED BY <2>1, <2>5
<1>7. Eq(all)
  <2> DEFINE f == [i \in 1..n |-> h[i]]
  <2>1. ASSUME NEW i \in 1..n
        PROVE  h[i] = IF i = 1 THEN parts[i] ELSE f[i - 1] \o parts[i]
    <3>1. CASE i = 1
      <4>1. h[1] = <<>> \o parts[1]
        <5> HIDE DEF h
        <5>1. h[i] = h[i - 1] \o parts[i]
          BY <1>6
        <5>2. i - 1 = 0
          BY <3>1
        <5> QED BY <1>5, <3>1, <5>1, <5>2
      <4> HIDE DEF h
      <4> QED BY <1>1, <3>1, <4>1, ConcatEmptySeq
    <3>2. CASE i # 1
      <4>1. i - 1 \in 1..n
        BY <1>1, <3>2
      <4>2. f[i - 1] = h[i - 1]
        BY <4>1
      <4> HIDE DEF f, h
      <4> QED BY <1>6, <3>2, <4>2
    <3> QED BY <3>1, <3>2
  <2>2. Eq(f)
    <3> HIDE DEF h
    <3> QED BY <2>1
  <2> HIDE DEF Eq, f
  <2> QED BY <2>2
<1>8. ASSUME n # 0 PROVE all[n] = h[n]
  <2> DEFINE S == {k \in 0..n : k # 0 => all[k] = h[k]}
  <2>1. 0 \in S
    BY <1>1
  <2>2. \A k \in 1..n : k - 1 \in S => k \in S
    <3> SUFFICES ASSUME NEW k \in 1..n, k - 1 \in S PROVE k \in S
      OBVIOUS
    <3>1. k \in 0..n
      BY <1>1
    <3>2. all[k] = IF k = 1 THEN parts[k] ELSE all[k - 1] \o parts[k]
      <4> HIDE DEF all
      <4> QED BY <1>7
    <3>3. h[k] = h[k - 1] \o parts[k]
      BY <1>6
    <3>4. CASE k = 1
      <4>1. h[1] = parts[1]
        <5>1. k - 1 = 0 /\ parts[1] \in Seq(T)
          BY <1>1, <3>4
        <5> HIDE DEF h, all
        <5> QED BY <1>5, <3>3, <3>4, <5>1, ConcatEmptySeq
      <4> HIDE DEF h, all
      <4> QED BY <3>1, <3>2, <3>4, <4>1
    <3>5. CASE k # 1
      <4>1. all[k - 1] = h[k - 1]
        <5> HIDE DEF h, all
        <5> QED BY <3>5
      <4> HIDE DEF h, all
      <4> QED BY <3>1, <3>2, <3>3, <3>5, <4>1
    <3> QED BY <3>4, <3>5
  <2>3. 0..n \subseteq S
    <3> HIDE DEF S, n
    <3> QED BY <1>1, <2>1, <2>2, InductionUpTo
  <2>4. n \in 0..n
    BY <1>1
  <2> HIDE DEF h, all, n
  <2> QED BY <1>8, <2>3, <2>4
<1>9. FlattenSeq(parts) = IF n = 0 THEN parts ELSE all[n]
  BY DEF FlattenSeq
<1>10. FlattenSeq(parts) = h[n]
  <2>1. CASE n = 0
    <3>1. parts = <<>>
      BY <2>1, EmptySeq
    <3> HIDE DEF h, all
    <3> QED BY <1>5, <1>9, <2>1, <3>1
  <2>2. CASE n # 0
    <3> HIDE DEF h, all, n
    <3> QED BY <1>8, <1>9, <2>2
  <2> QED BY <2>1, <2>2
<1> QED
  <2> HIDE DEF h
  <2> QED BY <1>4, <1>5, <1>6, <1>10 DEF Flattening

(* A sequence, of whatever it has.                                         *)
IsSeq(s) == s \in Seq(ToSet(s))

(* A sequence has the elements that stand at its places.                   *)
LEMMA SeqElements ==
  ASSUME NEW T, NEW s \in Seq(T)
  PROVE  /\ IsSeq(s) /\ ToSet(s) \subseteq T
         /\ DOMAIN s = 1..Len(s) /\ Len(s) \in Nat
         /\ \A i \in 1..Len(s) : s[i] \in ToSet(s)
         /\ \A x \in ToSet(s) : \E i \in 1..Len(s) : s[i] = x
<1>1. DOMAIN s = 1..Len(s) /\ Len(s) \in Nat
  OBVIOUS
<1>2. \A i \in 1..Len(s) : s[i] \in ToSet(s)
  BY <1>1 DEF ToSet
<1>3. s \in Seq(ToSet(s))
  BY <1>1, <1>2, IsASeq
<1> QED BY <1>1, <1>2, <1>3 DEF ToSet, IsSeq

(* One sequence behind another.                                            *)
LEMMA ConcatElements ==
  ASSUME NEW s, IsSeq(s), NEW t, IsSeq(t)
  PROVE  /\ IsSeq(s \o t)
         /\ ToSet(s \o t) = ToSet(s) \cup ToSet(t)
         /\ Len(s \o t) = Len(s) + Len(t)
         /\ \A i \in 1..Len(s) : (s \o t)[i] = s[i]
         /\ \A i \in 1..Len(t) : (s \o t)[Len(s) + i] = t[i]
<1> DEFINE T == ToSet(s) \cup ToSet(t)
           m == Len(s)
           n == Len(t)
<1>1. s \in Seq(T) /\ t \in Seq(T)
  BY DEF IsSeq
<1>2. m \in Nat /\ n \in Nat /\ DOMAIN s = 1..m /\ DOMAIN t = 1..n
  BY <1>1
<1>3. s \o t \in Seq(T) /\ Len(s \o t) = m + n
  BY <1>1
<1>4. \A i \in 1..m : (s \o t)[i] = s[i]
  BY <1>1, <1>2
<1>5. \A i \in 1..n : (s \o t)[m + i] = t[i]
  BY <1>1, <1>2
<1>6. DOMAIN (s \o t) = 1..(m + n)
  BY <1>2, <1>3
<1>7. ToSet(s \o t) = T
  <2>1. \A i \in 1..m : i \in 1..(m + n)
    BY <1>2
  <2>2. \A i \in 1..n : m + i \in 1..(m + n)
    BY <1>2
  <2>3. \A i \in 1..(m + n) : i \in 1..m \/ (i - m \in 1..n /\ i = m + (i - m))
    BY <1>2
  <2>4. \A x \in ToSet(s \o t) : x \in T
    <3> SUFFICES ASSUME NEW i \in 1..(m + n) PROVE (s \o t)[i] \in T
      BY <1>6 DEF ToSet
    <3>1. CASE i \in 1..m
      BY <1>2, <1>4, <3>1 DEF ToSet
    <3>2. CASE i - m \in 1..n /\ i = m + (i - m)
      <4>1. (s \o t)[i] = t[i - m]
        BY <1>5, <3>2
      <4> QED BY <1>2, <3>2, <4>1 DEF ToSet
    <3> QED BY <2>3, <3>1, <3>2
  <2>5. \A x \in ToSet(s) : x \in ToSet(s \o t)
    BY <1>2, <1>4, <1>6, <2>1 DEF ToSet
  <2>6. \A x \in ToSet(t) : x \in ToSet(s \o t)
    BY <1>2, <1>5, <1>6, <2>2 DEF ToSet
  <2> QED BY <2>4, <2>5, <2>6
<1> QED BY <1>3, <1>4, <1>5, <1>7 DEF IsSeq

(* Every element of a flattened sequence comes from a place of its own in  *)
(* one of the first k parts, and every place of theirs has its element.    *)
FromParts(flat, parts, k, part, off) ==
  /\ \A i \in 1..Len(flat) :
       /\ part[i] \in 1..k /\ off[i] \in 1..Len(parts[part[i]])
       /\ flat[i] = parts[part[i]][off[i]]
  /\ \A i, j \in 1..Len(flat) :
       part[i] = part[j] /\ off[i] = off[j] => i = j
  /\ \A p \in 1..k : \A j \in 1..Len(parts[p]) :
       \E i \in 1..Len(flat) : part[i] = p /\ off[i] = j

(* Each place of the joined sequence is one place of one of the parts, and *)
(* each of those is there.                                                 *)
LEMMA FlattenPlaces ==
  ASSUME NEW T, NEW parts \in Seq(Seq(T))
  PROVE  /\ FlattenSeq(parts) \in Seq(T)
         /\ \E part, off :
              FromParts(FlattenSeq(parts), parts, Len(parts), part, off)
<1> DEFINE n == Len(parts)
<1>0. PICK h \in [0..Len(parts) -> Seq(T)] : Flattening(h, parts)
  BY FlattenFold
<1>1. /\ h \in [0..n -> Seq(T)] /\ h[0] = <<>>
      /\ \A k \in 1..n : h[k] = h[k - 1] \o parts[k]
      /\ FlattenSeq(parts) = h[n]
  BY <1>0 DEF Flattening
<1>2. n \in Nat /\ \A k \in 1..n : parts[k] \in Seq(T)
  OBVIOUS
<1> DEFINE S == {k \in 0..n : \E part, off : FromParts(h[k], parts, k, part, off)}
<1>3. 0 \in S
  <2>1. FromParts(h[0], parts, 0, <<>>, <<>>)
    BY <1>1 DEF FromParts
  <2>2. 0 \in 0..n
    BY <1>2
  <2> HIDE DEF n
  <2> QED BY <2>1, <2>2
<1>4. \A k \in 1..n : k - 1 \in S => k \in S
  <2> SUFFICES ASSUME NEW k \in 1..n, k - 1 \in S PROVE k \in S
    OBVIOUS
  <2>1. PICK part, off : FromParts(h[k - 1], parts, k - 1, part, off)
    OBVIOUS
  <2> DEFINE m == Len(h[k - 1])
             l == Len(parts[k])
  <2>2. /\ k \in 0..n /\ k - 1 \in 0..n /\ k \in Nat
        /\ 1..(k - 1) \subseteq 1..k /\ k \in 1..k
        /\ \A p \in 1..k : p = k \/ p \in 1..(k - 1)
        /\ \A p \in 1..(k - 1) : p # k
    BY <1>2
  <2>3. m \in Nat /\ l \in Nat /\ h[k - 1] \in Seq(T) /\ parts[k] \in Seq(T)
    <3>1. h[k - 1] \in Seq(T) /\ parts[k] \in Seq(T)
      BY <1>2, <2>2
    <3> QED BY <3>1
  <2>4. /\ Len(h[k]) = m + l
        /\ \A i \in 1..m : h[k][i] = h[k - 1][i]
        /\ \A i \in 1..l : h[k][m + i] = parts[k][i]
    <3>1. h[k] = h[k - 1] \o parts[k]
      BY <1>1
    <3>2. IsSeq(h[k - 1]) /\ IsSeq(parts[k])
      BY <2>3, SeqElements
    <3> QED BY <3>1, <3>2, ConcatElements
  <2> DEFINE toPart == [i \in 1..(m + l) |-> IF i <= m THEN part[i] ELSE k]
             toOff == [i \in 1..(m + l) |-> IF i <= m THEN off[i] ELSE i - m]
  <2>5. /\ \A i \in 1..m : i \in 1..(m + l) /\ i <= m
        /\ \A i \in 1..l : m + i \in 1..(m + l) /\ ~(m + i <= m) /\ (m + i) - m = i
        /\ \A i \in 1..(m + l) : i \in 1..m \/ (i - m \in 1..l /\ i = m + (i - m))
    <3> HIDE DEF m, l
    <3> QED BY <2>3
  <2>6. \A i \in 1..m : toPart[i] = part[i] /\ toOff[i] = off[i]
    <3> HIDE DEF m, l
    <3> QED BY <2>5
  <2>7. \A i \in 1..l : toPart[m + i] = k /\ toOff[m + i] = i
    <3> HIDE DEF m, l
    <3> QED BY <2>5
  <2>8. /\ \A i \in 1..m :
             /\ part[i] \in 1..(k - 1) /\ off[i] \in 1..Len(parts[part[i]])
             /\ h[k - 1][i] = parts[part[i]][off[i]]
        /\ \A i, j \in 1..m : part[i] = part[j] /\ off[i] = off[j] => i = j
        /\ \A p \in 1..(k - 1) : \A j \in 1..Len(parts[p]) :
             \E i \in 1..m : part[i] = p /\ off[i] = j
    BY <2>1 DEF FromParts
  <2> HIDE DEF toPart, toOff, m
  <2>9. ASSUME NEW i \in 1..(m + l)
        PROVE  /\ toPart[i] \in 1..k /\ toOff[i] \in 1..Len(parts[toPart[i]])
               /\ h[k][i] = parts[toPart[i]][toOff[i]]
    <3>1. CASE i \in 1..m
      BY <2>2, <2>4, <2>6, <2>8, <3>1
    <3>2. CASE i - m \in 1..l /\ i = m + (i - m)
      <4>1. toPart[i] = k /\ toOff[i] = i - m /\ h[k][i] = parts[k][i - m]
        <5> HIDE DEF l
        <5> QED BY <2>4, <2>7, <3>2
      <4> QED BY <2>2, <3>2, <4>1
    <3> QED BY <2>5, <3>1, <3>2
  <2>10. ASSUME NEW i \in 1..(m + l), NEW j \in 1..(m + l),
                toPart[i] = toPart[j], toOff[i] = toOff[j]
         PROVE  i = j
    <3> HIDE DEF l
    <3>1. CASE i \in 1..m /\ j \in 1..m
      BY <2>6, <2>8, <2>10, <3>1
    <3>2. ASSUME NEW a \in 1..m, NEW b \in 1..l PROVE toPart[a] # toPart[m + b]
      BY <2>2, <2>6, <2>7, <2>8
    <3>3. CASE i \in 1..m /\ j - m \in 1..l /\ j = m + (j - m)
      BY <2>10, <3>2, <3>3
    <3>4. CASE j \in 1..m /\ i - m \in 1..l /\ i = m + (i - m)
      BY <2>10, <3>2, <3>4
    <3>5. CASE i - m \in 1..l /\ i = m + (i - m) /\ j - m \in 1..l /\ j = m + (j - m)
      <4>1. toOff[i] = i - m /\ toOff[j] = j - m
        BY <2>7, <3>5
      <4> QED BY <2>10, <3>5, <4>1
    <3> QED BY <2>5, <3>1, <3>3, <3>4, <3>5
  <2>11. ASSUME NEW p \in 1..k, NEW j \in 1..Len(parts[p])
         PROVE  \E i \in 1..(m + l) : toPart[i] = p /\ toOff[i] = j
    <3>1. CASE p = k
      <4>1. m + j \in 1..(m + l) /\ toPart[m + j] = p /\ toOff[m + j] = j
        BY <2>5, <2>7, <3>1
      <4> HIDE DEF l
      <4> QED BY <4>1
    <3>2. CASE p \in 1..(k - 1)
      <4>1. PICK i \in 1..m : part[i] = p /\ off[i] = j
        BY <2>8, <3>2
      <4> HIDE DEF l
      <4> QED BY <2>5, <2>6, <4>1
    <3> QED BY <2>2, <3>1, <3>2
  <2>12. FromParts(h[k], parts, k, toPart, toOff)
    <3> HIDE DEF l
    <3> QED BY <2>4, <2>9, <2>10, <2>11 DEF FromParts
  <2> HIDE DEF n
  <2> QED BY <2>2, <2>12
<1>5. n \in S
  <2>1. n \in 0..n
    BY <1>2
  <2> HIDE DEF S, n
  <2>2. 0..n \subseteq S
    BY <1>2, <1>3, <1>4, InductionUpTo
  <2> QED BY <2>1, <2>2
<1>6. h[n] \in Seq(T)
  BY <1>1, <1>2
<1> QED BY <1>1, <1>5, <1>6

(* A sequence of sequences is one of sequences over what they have.        *)
LEMMA PartsSeq ==
  ASSUME NEW parts, IsSeq(parts), \A i \in 1..Len(parts) : IsSeq(parts[i])
  PROVE  parts \in Seq(Seq(UNION {ToSet(parts[i]) : i \in 1..Len(parts)}))
<1> DEFINE T == UNION {ToSet(parts[i]) : i \in 1..Len(parts)}
           n == Len(parts)
<1>1. parts \in Seq(ToSet(parts)) /\ n \in Nat /\ DOMAIN parts = 1..n
  BY DEF IsSeq
<1>2. ASSUME NEW i \in 1..n PROVE parts[i] \in Seq(T)
  <2>1. parts[i] \in Seq(ToSet(parts[i])) /\ ToSet(parts[i]) \subseteq T
    BY DEF IsSeq
  <2> HIDE DEF T
  <2> QED BY <2>1, SeqMonotonic
<1> HIDE DEF T, n
<1>3. parts = [i \in 1..n |-> parts[i]]
  BY <1>1
<1>4. parts \in Seq(Seq(T))
  BY <1>1, <1>2, <1>3, IsASeq
<1> QED BY <1>4 DEF T, n

(* What a flattened sequence has is what its parts have.                   *)
LEMMA FlattenElements ==
  ASSUME NEW parts, IsSeq(parts), \A i \in 1..Len(parts) : IsSeq(parts[i])
  PROVE  /\ IsSeq(FlattenSeq(parts))
         /\ \A x : x \in ToSet(FlattenSeq(parts))
                     <=> \E i \in 1..Len(parts) : x \in ToSet(parts[i])
<1> DEFINE T == UNION {ToSet(parts[i]) : i \in 1..Len(parts)}
           flat == FlattenSeq(parts)
           n == Len(parts)
<1>1. parts \in Seq(Seq(T))
  BY PartsSeq
<1> HIDE DEF T
<1>2. flat \in Seq(T)
  BY <1>1, FlattenPlaces
<1>3. PICK part, off : FromParts(flat, parts, n, part, off)
  BY <1>1, FlattenPlaces
<1>4. IsSeq(flat)
  BY <1>2, SeqElements
<1>5. ASSUME NEW i \in 1..n
      PROVE  /\ \A j \in 1..Len(parts[i]) : parts[i][j] \in ToSet(parts[i])
             /\ \A x \in ToSet(parts[i]) : \E j \in 1..Len(parts[i]) : parts[i][j] = x
  BY SeqElements DEF IsSeq
<1>6. /\ \A i \in 1..Len(flat) : flat[i] \in ToSet(flat)
      /\ \A x \in ToSet(flat) : \E i \in 1..Len(flat) : flat[i] = x
  BY <1>2, SeqElements
<1>7. ASSUME NEW x \in ToSet(flat) PROVE \E i \in 1..n : x \in ToSet(parts[i])
  <2>1. PICK j \in 1..Len(flat) : flat[j] = x
    BY <1>6
  <2>2. /\ part[j] \in 1..n /\ off[j] \in 1..Len(parts[part[j]])
        /\ flat[j] = parts[part[j]][off[j]]
    BY <1>3, <2>1 DEF FromParts
  <2>3. parts[part[j]][off[j]] \in ToSet(parts[part[j]])
    BY <1>5, <2>2
  <2> QED BY <2>1, <2>2, <2>3
<1>8. ASSUME NEW i \in 1..n, NEW x \in ToSet(parts[i]) PROVE x \in ToSet(flat)
  <2>1. PICK j \in 1..Len(parts[i]) : parts[i][j] = x
    BY <1>5
  <2>2. PICK l \in 1..Len(flat) : part[l] = i /\ off[l] = j
    BY <1>3 DEF FromParts
  <2> HIDE DEF flat, n
  <2> QED BY <1>3, <1>6, <2>1, <2>2 DEF FromParts
<1> QED BY <1>4, <1>7, <1>8

-----------------------------------------------------------------------------
(* Series of a name and labels of their own.                               *)
SameSeries(s, t) == s.name = t.name /\ s.labels = t.labels

Unique(series) ==
  \A i, j \in 1..Len(series) : i # j => ~SameSeries(series[i], series[j])

Apart(series, others) ==
  \A s \in ToSet(series), t \in ToSet(others) : ~SameSeries(s, t)

(* Two sequences of series that are unique and apart are unique together.  *)
LEMMA ConcatUnique ==
  ASSUME NEW s, IsSeq(s), NEW t, IsSeq(t), Unique(s), Unique(t), Apart(s, t)
  PROVE  Unique(s \o t)
<1> DEFINE m == Len(s)
           n == Len(t)
<1>1. /\ m \in Nat /\ n \in Nat
      /\ \A i \in 1..m : s[i] \in ToSet(s)
      /\ \A i \in 1..n : t[i] \in ToSet(t)
  BY SeqElements DEF IsSeq
<1>2. /\ Len(s \o t) = m + n
      /\ \A i \in 1..m : (s \o t)[i] = s[i]
      /\ \A i \in 1..n : (s \o t)[m + i] = t[i]
  BY ConcatElements
<1> HIDE DEF m, n
<1>3. \A i \in 1..(m + n) : i \in 1..m \/ (i - m \in 1..n /\ i = m + (i - m))
  BY <1>1
<1> SUFFICES ASSUME NEW i \in 1..(m + n), NEW j \in 1..(m + n), i # j
             PROVE  ~SameSeries((s \o t)[i], (s \o t)[j])
  BY <1>2 DEF Unique
<1>4. CASE i \in 1..m /\ j \in 1..m
  BY <1>2, <1>4 DEF Unique, m
<1>5. CASE i \in 1..m /\ j - m \in 1..n /\ j = m + (j - m)
  <2>1. (s \o t)[i] = s[i] /\ (s \o t)[j] = t[j - m]
    BY <1>2, <1>5
  <2> QED BY <1>1, <1>5, <2>1 DEF Apart
<1>6. CASE j \in 1..m /\ i - m \in 1..n /\ i = m + (i - m)
  <2>1. (s \o t)[j] = s[j] /\ (s \o t)[i] = t[i - m]
    BY <1>2, <1>6
  <2>2. ~SameSeries(s[j], t[i - m])
    BY <1>1, <1>6 DEF Apart
  <2> QED BY <2>1, <2>2 DEF SameSeries
<1>7. CASE i - m \in 1..n /\ i = m + (i - m) /\ j - m \in 1..n /\ j = m + (j - m)
  <2>1. (s \o t)[i] = t[i - m] /\ (s \o t)[j] = t[j - m] /\ i - m # j - m
    BY <1>2, <1>7
  <2> QED BY <1>7, <2>1 DEF Unique, n
<1> QED BY <1>3, <1>4, <1>5, <1>6, <1>7

(* Parts that are unique and apart from each other are unique when joined. *)
LEMMA FlattenUnique ==
  ASSUME NEW parts, IsSeq(parts), \A i \in 1..Len(parts) : IsSeq(parts[i]),
         \A i \in 1..Len(parts) : Unique(parts[i]),
         \A i, j \in 1..Len(parts) : i # j => Apart(parts[i], parts[j])
  PROVE  Unique(FlattenSeq(parts))
<1> DEFINE flat == FlattenSeq(parts)
           n == Len(parts)
<1>1. PICK part, off : FromParts(flat, parts, n, part, off)
  <2> DEFINE T == UNION {ToSet(parts[i]) : i \in 1..Len(parts)}
  <2>1. parts \in Seq(Seq(T))
    BY PartsSeq
  <2> HIDE DEF T
  <2> QED BY <2>1, FlattenPlaces
<1>2. ASSUME NEW i \in 1..n
      PROVE  \A j \in 1..Len(parts[i]) : parts[i][j] \in ToSet(parts[i])
  BY SeqElements DEF IsSeq
<1> SUFFICES ASSUME NEW i \in 1..Len(flat), NEW j \in 1..Len(flat), i # j
             PROVE  ~SameSeries(flat[i], flat[j])
  BY DEF Unique
<1>3. /\ part[i] \in 1..n /\ off[i] \in 1..Len(parts[part[i]])
      /\ part[j] \in 1..n /\ off[j] \in 1..Len(parts[part[j]])
      /\ flat[i] = parts[part[i]][off[i]] /\ flat[j] = parts[part[j]][off[j]]
      /\ part[i] = part[j] => off[i] # off[j]
  BY <1>1 DEF FromParts
<1> HIDE DEF flat
<1>4. CASE part[i] = part[j]
  <2>1. Unique(parts[part[i]])
    BY <1>3
  <2> QED BY <1>3, <1>4, <2>1 DEF Unique
<1>5. CASE part[i] # part[j]
  <2>1. Apart(parts[part[i]], parts[part[j]])
    BY <1>3, <1>5
  <2> QED BY <1>2, <1>3, <2>1 DEF Apart
<1> QED BY <1>4, <1>5

(* What flattens to as many elements as it has parts, none of them empty,  *)
(* has parts of one element.                                               *)
LEMMA FlattenSingles ==
  ASSUME NEW T, NEW parts \in Seq(Seq(T)),
         \A i \in 1..Len(parts) : Len(parts[i]) >= 1,
         Len(FlattenSeq(parts)) = Len(parts)
  PROVE  \A i \in 1..Len(parts) : FlattenSeq(parts)[i] = parts[i][1]
<1> DEFINE n == Len(parts)
<1>0. PICK h \in [0..Len(parts) -> Seq(T)] : Flattening(h, parts)
  BY FlattenFold
<1>1. /\ h \in [0..n -> Seq(T)] /\ h[0] = <<>>
      /\ \A k \in 1..n : h[k] = h[k - 1] \o parts[k]
      /\ FlattenSeq(parts) = h[n]
  BY <1>0 DEF Flattening
<1>2. n \in Nat /\ \A k \in 1..n : parts[k] \in Seq(T) /\ Len(parts[k]) >= 1
  OBVIOUS
<1> DEFINE S == {k \in 0..n : /\ Len(h[k]) >= k
                              /\ Len(h[k]) = k => \A i \in 1..k : h[k][i] = parts[i][1]}
<1>3. 0 \in S
  <2>1. 0 \in 0..n /\ Len(h[0]) = 0
    BY <1>1, <1>2
  <2>2. \A i \in 1..0 : FALSE
    OBVIOUS
  <2> HIDE DEF n
  <2> QED BY <2>1, <2>2
<1>4. \A k \in 1..n : k - 1 \in S => k \in S
  <2> SUFFICES ASSUME NEW k \in 1..n, k - 1 \in S PROVE k \in S
    OBVIOUS
  <2> DEFINE m == Len(h[k - 1])
             l == Len(parts[k])
  <2>1. /\ k \in 0..n /\ k - 1 \in 0..n
        /\ \A i \in 1..k : i = k \/ i \in 1..(k - 1)
    BY <1>2
  <2>2. /\ m \in Nat /\ l \in Nat /\ l >= 1
        /\ IsSeq(h[k - 1]) /\ IsSeq(parts[k])
    <3>1. h[k - 1] \in Seq(T) /\ parts[k] \in Seq(T)
      BY <1>2, <2>1
    <3> QED BY <1>2, <3>1, SeqElements
  <2>3. /\ Len(h[k]) = m + l
        /\ \A i \in 1..m : h[k][i] = h[k - 1][i]
        /\ \A i \in 1..l : h[k][m + i] = parts[k][i]
    <3>1. h[k] = h[k - 1] \o parts[k]
      BY <1>1
    <3> QED BY <2>2, <3>1, ConcatElements
  <2>4. m >= k - 1 /\ (m = k - 1 => \A i \in 1..(k - 1) : h[k - 1][i] = parts[i][1])
    OBVIOUS
  <2> HIDE DEF m, l, n
  <2>5. Len(h[k]) >= k
    BY <1>2, <2>1, <2>2, <2>3, <2>4
  <2>6. ASSUME Len(h[k]) = k PROVE \A i \in 1..k : h[k][i] = parts[i][1]
    <3>1. m = k - 1 /\ l = 1
      BY <1>2, <2>1, <2>2, <2>3, <2>4, <2>6
    <3>2. h[k][m + 1] = parts[k][1] /\ m + 1 = k
      BY <2>1, <2>3, <3>1
    <3>3. \A i \in 1..(k - 1) : h[k][i] = parts[i][1]
      BY <2>3, <2>4, <3>1
    <3> QED BY <2>1, <3>2, <3>3
  <2> QED BY <2>1, <2>5, <2>6
<1>5. n \in S
  <2>1. n \in 0..n
    BY <1>2
  <2> HIDE DEF S, n
  <2>2. 0..n \subseteq S
    BY <1>2, <1>3, <1>4, InductionUpTo
  <2> QED BY <2>1, <2>2
<1> QED BY <1>1, <1>5

-----------------------------------------------------------------------------
(* The table.                                                              *)

(* In a line that fits, however the values were printed, each value stands *)
(* at the place of its field.                                              *)
LEMMA LineThatFits ==
  ASSUME NEW gpu, NEW query, IsSeq(query), Fits(Line(gpu, query), query)
  PROVE  \A i \in 1..Len(query) :
           /\ Line(gpu, query)[i].of = query[i]
           /\ Line(gpu, query)[i].uuid = gpu.uuid
<1> DEFINE parts == [i \in DOMAIN query |-> Tokens(gpu, query[i])]
           n == Len(query)
<1>1. n \in Nat /\ DOMAIN query = 1..n
  BY DEF IsSeq
<1>2. ASSUME NEW q
      PROVE  /\ IsSeq(Tokens(gpu, q)) /\ Len(Tokens(gpu, q)) >= 1
             /\ Tokens(gpu, q)[1].of = q /\ Tokens(gpu, q)[1].uuid = gpu.uuid
  <2> DEFINE A == {[uuid |-> gpu.uuid, of |-> q, kind |-> "text"],
                   [uuid |-> gpu.uuid, of |-> q, kind |-> gpu.kinds[q]]}
  <2>1. CASE gpu.kinds[q] = "comma"
    <3>1. Tokens(gpu, q) \in Seq(A)
      BY <2>1 DEF Tokens
    <3>2. Len(Tokens(gpu, q)) >= 1 /\ Tokens(gpu, q)[1] \in A
      BY <2>1 DEF Tokens
    <3>3. \A token \in A : token.of = q /\ token.uuid = gpu.uuid
      OBVIOUS
    <3> HIDE DEF A
    <3> QED BY <3>1, <3>2, <3>3, SeqElements
  <2>2. CASE gpu.kinds[q] # "comma"
    <3>1. Tokens(gpu, q) \in Seq(A)
      BY <2>2 DEF Tokens
    <3>2. Len(Tokens(gpu, q)) >= 1 /\ Tokens(gpu, q)[1] \in A
      BY <2>2 DEF Tokens
    <3>3. \A token \in A : token.of = q /\ token.uuid = gpu.uuid
      OBVIOUS
    <3> HIDE DEF A
    <3> QED BY <3>1, <3>2, <3>3, SeqElements
  <2> QED BY <2>1, <2>2
<1>3. /\ IsSeq(parts) /\ Len(parts) = n
      /\ \A i \in 1..n : parts[i] = Tokens(gpu, query[i])
  <2>1. parts \in Seq({Tokens(gpu, query[i]) : i \in 1..n}) /\ Len(parts) = n
    BY <1>1, IsASeq
  <2> QED BY <1>1, <2>1, SeqElements
<1>4. Line(gpu, query) = FlattenSeq(parts)
  BY DEF Line
<1> HIDE DEF parts
<1> DEFINE T == UNION {ToSet(parts[i]) : i \in 1..Len(parts)}
<1>5. parts \in Seq(Seq(T))
  BY <1>2, <1>3, PartsSeq
<1>6. Len(FlattenSeq(parts)) = Len(parts)
  BY <1>3, <1>4 DEF Fits
<1>7. \A i \in 1..Len(parts) : FlattenSeq(parts)[i] = parts[i][1]
  <2>1. \A i \in 1..Len(parts) : Len(parts[i]) >= 1
    BY <1>2, <1>3
  <2> HIDE DEF T
  <2> QED BY <1>5, <1>6, <2>1, FlattenSingles
<1> QED BY <1>2, <1>3, <1>4, <1>7

(* What a row of the table has.                                            *)
RowOf(row, query, uuid) ==
  /\ IsSeq(row.cells) /\ Len(row.cells) = Len(query)
  /\ \A i \in 1..Len(query) :
       /\ row.cells[i].q = query[i] /\ row.cells[i].raw.of = query[i]
       /\ row.cells[i].raw.uuid = uuid
  /\ row.byField["uuid"].uuid = uuid

(* A line that has as many values as the query has fields becomes the row  *)
(* of its GPU: each value in the cell of its own field.                    *)
LEMMA RowThatFits ==
  ASSUME NEW gpu, NEW query, IsSeq(query), "uuid" \in ToSet(query),
         Fits(Line(gpu, query), query)
  PROVE  RowOf(Row(Line(gpu, query), query), query, gpu.uuid)
<1> DEFINE line == Line(gpu, query)
           row == Row(line, query)
           n == Len(query)
<1>1. n \in Nat /\ DOMAIN query = 1..n
  BY DEF IsSeq
<1>2. \A i \in 1..n : line[i].of = query[i] /\ line[i].uuid = gpu.uuid
  BY LineThatFits
<1> HIDE DEF line
<1>3. row.cells = [i \in 1..n |-> [q |-> query[i], raw |-> line[i]]]
  BY <1>1 DEF Row
<1>4. IsSeq(row.cells) /\ Len(row.cells) = n
  <2>1. row.cells \in Seq({[q |-> query[i], raw |-> line[i]] : i \in 1..n})
    BY <1>1, <1>3, IsASeq
  <2>2. Len(row.cells) = n
    BY <1>1, <1>3, <2>1
  <2> HIDE DEF row
  <2> QED BY <2>1, <2>2, SeqElements
<1>5. row.byField["uuid"].uuid = gpu.uuid
  <2>1. row.byField["uuid"] = line[CHOOSE i \in DOMAIN query : query[i] = "uuid"]
    BY DEF Row
  <2>2. \E i \in DOMAIN query : query[i] = "uuid"
    BY DEF ToSet
  <2> HIDE DEF row
  <2> QED BY <1>1, <1>2, <2>1, <2>2
<1>6. \A i \in 1..n : row.cells[i].q = query[i] /\ row.cells[i].raw = line[i]
  BY <1>3
<1> HIDE DEF row
<1> QED BY <1>2, <1>4, <1>5, <1>6 DEF RowOf, row, line

-----------------------------------------------------------------------------
(* The series of a scrape, part by part.                                   *)

(* What is emitted is one series.                                          *)
LEMMA EmitSeries ==
  ASSUME NEW name, NEW labels, NEW value
  PROVE  /\ IsSeq(Emit(name, labels, value)) /\ Unique(Emit(name, labels, value))
         /\ ToSet(Emit(name, labels, value))
              = {[name |-> name, labels |-> labels, value |-> value]}
<1> DEFINE r == [name |-> name, labels |-> labels, value |-> value]
<1>1. Emit(name, labels, value) = <<r>>
  BY DEF Emit
<1> HIDE DEF r
<1>2. IsSeq(<<r>>) /\ ToSet(<<r>>) = {r} /\ Unique(<<r>>)
  BY DEF IsSeq, ToSet, Unique
<1> QED BY <1>1, <1>2 DEF r

(* What is not emitted has no series.                                      *)
LEMMA NoSeries == IsSeq(<<>>) /\ Unique(<<>>) /\ ToSet(<<>>) = {}
BY DEF IsSeq, ToSet, Unique

(* What is emitted under a condition is all there or not at all.           *)
LEMMA WhenSeries ==
  ASSUME NEW condition \in BOOLEAN, NEW series, IsSeq(series)
  PROVE  /\ IsSeq(When(condition, series))
         /\ \A x : x \in ToSet(When(condition, series))
                     <=> condition /\ x \in ToSet(series)
         /\ Unique(series) => Unique(When(condition, series))
BY NoSeries DEF When

(* A property of the parts is one of what they flatten to.                 *)
LEMMA EachSeries ==
  ASSUME NEW parts, IsSeq(parts),
         \A i \in 1..Len(parts) : IsSeq(parts[i]) /\ Unique(parts[i]),
         \A i, j \in 1..Len(parts) : i # j => Apart(parts[i], parts[j])
  PROVE  /\ IsSeq(FlattenSeq(parts)) /\ Unique(FlattenSeq(parts))
         /\ \A x : x \in ToSet(FlattenSeq(parts))
                     <=> \E i \in 1..Len(parts) : x \in ToSet(parts[i])
BY FlattenElements, FlattenUnique

(* Two collectors in a row serve the series of both.                       *)
LEMMA TwoSeries ==
  ASSUME NEW s, NEW t, IsSeq(s), IsSeq(t), Unique(s), Unique(t), Apart(s, t)
  PROVE  /\ IsSeq(s \o t) /\ Unique(s \o t)
         /\ \A x : x \in ToSet(s \o t) <=> x \in ToSet(s) \/ x \in ToSet(t)
BY ConcatElements, ConcatUnique

(* One part for each item.                                                 *)
LEMMA PartsOfItems ==
  ASSUME NEW items, IsSeq(items), NEW parts,
         parts = [i \in DOMAIN items |-> parts[i]]
  PROVE  /\ IsSeq(parts) /\ Len(parts) = Len(items) /\ Len(items) \in Nat
         /\ DOMAIN items = 1..Len(items)
<1> DEFINE n == Len(items)
<1>1. n \in Nat /\ DOMAIN items = 1..n
  BY DEF IsSeq
<1>2. parts = [i \in 1..n |-> parts[i]]
  BY <1>1
<1>3. parts \in Seq({parts[i] : i \in 1..n}) /\ Len(parts) = n
  <2> HIDE DEF n
  <2>1. parts \in [1..n -> {parts[i] : i \in 1..n}]
    BY <1>2
  <2>2. parts \in Seq({parts[i] : i \in 1..n})
    BY <1>1, <2>1, SeqDef
  <2> QED BY <1>1, <1>2, <2>2
<1> QED BY <1>1, <1>3, SeqElements

XidSeries(c) ==
  { [name |-> "xid_errors_total", labels |-> <<c.uuid, c.xid>>, value |-> <<c.count>>],
    [name |-> "xid_last_timestamp_seconds", labels |-> <<c.uuid, c.xid>>, value |-> <<>>] }

(* Counters of different pairs of a GPU and an event.                      *)
DistinctCounters(counters) ==
  \A i, j \in 1..Len(counters) :
    i # j => counters[i].uuid # counters[j].uuid \/ counters[i].xid # counters[j].xid

(* With the feature on, a counter has its series, and there are no others. *)
LEMMA XIDsRendered ==
  ASSUME NEW counters, IsSeq(counters), DistinctCounters(counters),
         NEW features, features.xids \in BOOLEAN
  PROVE  /\ IsSeq(RenderXIDs(counters, features))
         /\ Unique(RenderXIDs(counters, features))
         /\ \A x : x \in ToSet(RenderXIDs(counters, features))
                     <=> features.xids /\ \E i \in 1..Len(counters) :
                                            x \in XidSeries(counters[i])
<1> DEFINE errors(c) == Emit("xid_errors_total", <<c.uuid, c.xid>>, <<c.count>>)
           stamp(c) == Emit("xid_last_timestamp_seconds", <<c.uuid, c.xid>>, <<>>)
           parts == [i \in DOMAIN counters |-> errors(counters[i]) \o stamp(counters[i])]
           n == Len(counters)
<1>1. ASSUME NEW c
      PROVE  /\ IsSeq(errors(c) \o stamp(c)) /\ Unique(errors(c) \o stamp(c))
             /\ \A x : x \in ToSet(errors(c) \o stamp(c)) <=> x \in XidSeries(c)
  <2> DEFINE a == errors(c)
             b == stamp(c)
  <2>1. /\ IsSeq(a) /\ Unique(a) /\ IsSeq(b) /\ Unique(b)
        /\ ToSet(a) \cup ToSet(b) = XidSeries(c)
        /\ \A x \in ToSet(a) : x.name = "xid_errors_total"
        /\ \A x \in ToSet(b) : x.name = "xid_last_timestamp_seconds"
    BY EmitSeries DEF XidSeries
  <2> HIDE DEF a, b
  <2>2. Apart(a, b)
    BY <2>1 DEF Apart, SameSeries
  <2>3. IsSeq(a \o b) /\ Unique(a \o b)
        /\ \A x : x \in ToSet(a \o b) <=> x \in XidSeries(c)
    BY <2>1, <2>2, TwoSeries
  <2> QED BY <2>3 DEF a, b
<1>2. RenderXIDs(counters, features) = When(features.xids, FlattenSeq(parts))
  BY DEF RenderXIDs, ForEach
<1>3. /\ IsSeq(parts) /\ Len(parts) = n /\ n \in Nat
      /\ \A i \in 1..n : parts[i] = errors(counters[i]) \o stamp(counters[i])
  <2>1. parts = [i \in DOMAIN counters |-> parts[i]]
    OBVIOUS
  <2>2. IsSeq(parts) /\ Len(parts) = n /\ n \in Nat /\ DOMAIN counters = 1..n
    <3> HIDE DEF parts
    <3> QED BY <2>1, PartsOfItems
  <2> QED BY <2>2
<1> HIDE DEF parts, errors, stamp
<1>4. ASSUME NEW i \in 1..n, NEW j \in 1..n, i # j PROVE Apart(parts[i], parts[j])
  <2>1. ASSUME NEW x \in XidSeries(counters[i]), NEW y \in XidSeries(counters[j])
        PROVE  x.labels # y.labels
    <3>1. /\ x.labels = <<counters[i].uuid, counters[i].xid>>
          /\ y.labels = <<counters[j].uuid, counters[j].xid>>
      BY DEF XidSeries
    <3> QED BY <1>4, <3>1 DEF DistinctCounters
  <2>2. /\ \A x : x \in ToSet(parts[i]) => x \in XidSeries(counters[i])
        /\ \A x : x \in ToSet(parts[j]) => x \in XidSeries(counters[j])
    BY <1>1, <1>3
  <2> QED BY <2>1, <2>2 DEF Apart, SameSeries
<1>5. \A i \in 1..n : /\ IsSeq(parts[i]) /\ Unique(parts[i])
                      /\ \A x : x \in ToSet(parts[i]) <=> x \in XidSeries(counters[i])
  BY <1>1, <1>3
<1> HIDE DEF n
<1>6. /\ IsSeq(FlattenSeq(parts)) /\ Unique(FlattenSeq(parts))
      /\ \A x : x \in ToSet(FlattenSeq(parts))
                  <=> \E i \in 1..n : x \in XidSeries(counters[i])
  <2>1. /\ IsSeq(FlattenSeq(parts)) /\ Unique(FlattenSeq(parts))
        /\ \A x : x \in ToSet(FlattenSeq(parts))
                    <=> \E i \in 1..Len(parts) : x \in ToSet(parts[i])
    BY <1>3, <1>4, <1>5, EachSeries
  <2> QED BY <1>3, <1>5, <2>1
<1> QED BY <1>2, <1>6, WhenSeries DEF n

(* Series of other names.                                                  *)
OnlyNamed(series, names) == \A x \in ToSet(series) : x.name \in names

(* Series of different names are different.                                *)
LEMMA ApartByName ==
  ASSUME NEW s, NEW t, NEW A, NEW B,
         OnlyNamed(s, A), OnlyNamed(t, B), A \cap B = {}
  PROVE  Apart(s, t)
BY DEF OnlyNamed, Apart, SameSeries

(* The value of no field.                                                  *)
OfNoField(x) == Len(x.value) # 4

HealthSeries(x, s, features) ==
  /\ x.name \in HealthNames \cup {features.exitCode} /\ OfNoField(x)
  /\ x.name = "last_collect_success" => x.value = Flag(s.success)

(* The series about the collection itself: each once.                      *)
LEMMA HealthRendered ==
  ASSUME NEW s, s.attempted \in BOOLEAN, s.everSucceeded \in BOOLEAN,
         NEW features, features.exitCode \in ExitCodeNames
  PROVE  /\ IsSeq(RenderHealth(s, features)) /\ Unique(RenderHealth(s, features))
         /\ \A x \in ToSet(RenderHealth(s, features)) : HealthSeries(x, s, features)
<1> DEFINE failed == Emit("failed_scrapes_total", <<>>, <<>>)
           last == Emit("last_collect_success", <<>>, Flag(s.success))
           code == Emit(features.exitCode, <<>>, <<s.exitCode>>)
           took == Emit("last_collect_duration_seconds", <<>>, <<>>)
           when == Emit("last_collect_success_timestamp_seconds", <<>>, <<>>)
           both == When(s.attempted, code \o took)
           ever == When(s.everSucceeded, when)
<1>1. RenderHealth(s, features) = failed \o last \o both \o ever
  BY DEF RenderHealth
<1>2. /\ IsSeq(failed) /\ Unique(failed) /\ OnlyNamed(failed, {"failed_scrapes_total"})
      /\ \A x \in ToSet(failed) : HealthSeries(x, s, features)
  BY EmitSeries DEF OnlyNamed, HealthSeries, HealthNames, OfNoField
<1>3. /\ IsSeq(last) /\ Unique(last) /\ OnlyNamed(last, {"last_collect_success"})
      /\ \A x \in ToSet(last) : HealthSeries(x, s, features)
  <2>1. Len(Flag(s.success)) # 4
    BY DEF Flag
  <2> QED BY <2>1, EmitSeries DEF OnlyNamed, HealthSeries, HealthNames, OfNoField
<1>4. /\ IsSeq(code) /\ Unique(code) /\ OnlyNamed(code, {features.exitCode})
      /\ \A x \in ToSet(code) : HealthSeries(x, s, features)
  BY EmitSeries DEF OnlyNamed, HealthSeries, HealthNames, OfNoField, ExitCodeNames
<1>5. /\ IsSeq(took) /\ Unique(took)
      /\ OnlyNamed(took, {"last_collect_duration_seconds"})
      /\ \A x \in ToSet(took) : HealthSeries(x, s, features)
  BY EmitSeries DEF OnlyNamed, HealthSeries, HealthNames, OfNoField
<1>6. /\ IsSeq(when) /\ Unique(when)
      /\ OnlyNamed(when, {"last_collect_success_timestamp_seconds"})
      /\ \A x \in ToSet(when) : HealthSeries(x, s, features)
  BY EmitSeries DEF OnlyNamed, HealthSeries, HealthNames, OfNoField
<1> HIDE DEF failed, last, code, took, when
<1>7. /\ IsSeq(code \o took) /\ Unique(code \o took)
      /\ OnlyNamed(code \o took, {features.exitCode, "last_collect_duration_seconds"})
      /\ \A x \in ToSet(code \o took) : HealthSeries(x, s, features)
  <2>1. {features.exitCode} \cap {"last_collect_duration_seconds"} = {}
    BY DEF ExitCodeNames
  <2>2. Apart(code, took)
    BY <1>4, <1>5, <2>1, ApartByName
  <2> QED BY <1>4, <1>5, <2>2, TwoSeries DEF OnlyNamed
<1>8. /\ IsSeq(both) /\ Unique(both)
      /\ OnlyNamed(both, {features.exitCode, "last_collect_duration_seconds"})
      /\ \A x \in ToSet(both) : HealthSeries(x, s, features)
  <2>0. s.attempted \in BOOLEAN /\ IsSeq(code \o took)
    BY <1>7
  <2>1. /\ IsSeq(both) /\ Unique(both)
        /\ \A x \in ToSet(both) : x \in ToSet(code \o took)
    BY <1>7, <2>0, WhenSeries
  <2> HIDE DEF both
  <2> QED BY <1>7, <2>1 DEF OnlyNamed
<1>9. /\ IsSeq(ever) /\ Unique(ever)
      /\ OnlyNamed(ever, {"last_collect_success_timestamp_seconds"})
      /\ \A x \in ToSet(ever) : HealthSeries(x, s, features)
  <2>1. /\ IsSeq(ever) /\ Unique(ever)
        /\ \A x \in ToSet(ever) : x \in ToSet(when)
    BY <1>6, WhenSeries
  <2> HIDE DEF ever
  <2> QED BY <1>6, <2>1 DEF OnlyNamed
<1> HIDE DEF both, ever
<1>10. /\ IsSeq(failed \o last) /\ Unique(failed \o last)
       /\ OnlyNamed(failed \o last, {"failed_scrapes_total", "last_collect_success"})
       /\ \A x \in ToSet(failed \o last) : HealthSeries(x, s, features)
  <2>1. Apart(failed, last)
    BY <1>2, <1>3, ApartByName
  <2> QED BY <1>2, <1>3, <2>1, TwoSeries DEF OnlyNamed
<1> DEFINE three == (failed \o last) \o both
<1>11. /\ IsSeq(three) /\ Unique(three)
       /\ OnlyNamed(three, {"failed_scrapes_total", "last_collect_success",
                            features.exitCode, "last_collect_duration_seconds"})
       /\ \A x \in ToSet(three) : HealthSeries(x, s, features)
  <2>1. {"failed_scrapes_total", "last_collect_success"}
          \cap {features.exitCode, "last_collect_duration_seconds"} = {}
    BY DEF ExitCodeNames
  <2>2. Apart(failed \o last, both)
    BY <1>8, <1>10, <2>1, ApartByName
  <2> QED BY <1>8, <1>10, <2>2, TwoSeries DEF OnlyNamed
<1> HIDE DEF three
<1>12. /\ IsSeq(three \o ever) /\ Unique(three \o ever)
       /\ \A x \in ToSet(three \o ever) : HealthSeries(x, s, features)
  <2>1. {"failed_scrapes_total", "last_collect_success",
         features.exitCode, "last_collect_duration_seconds"}
          \cap {"last_collect_success_timestamp_seconds"} = {}
    BY DEF ExitCodeNames
  <2>2. Apart(three, ever)
    BY <1>9, <1>11, <2>1, ApartByName
  <2> QED BY <1>9, <1>11, <2>2, TwoSeries
<1> QED BY <1>1, <1>12 DEF three

(* No two fields have a metric name in common, and none has one of the     *)
(* exporter's own.                                                         *)
DistinctInfos(infos) ==
  /\ \A p, q \in DOMAIN infos : p # q => infos[p].name # infos[q].name
  /\ \A q \in DOMAIN infos : infos[q].name \notin reservedMetricNames

(* The series of different fields have different names, and each field is  *)
(* scaled by its own unit.                                                 *)
LEMMA InfosAreDistinct ==
  ASSUME NEW returned
  PROVE  /\ DistinctInfos(BuildQFieldToMetricInfoMap(returned))
         /\ \A q \in DOMAIN BuildQFieldToMetricInfoMap(returned) :
              /\ q \in DOMAIN returned
              /\ BuildQFieldToMetricInfoMap(returned)[q].times
                   = Multiplier(returned[q])
<1> DEFINE infos == BuildQFieldToMetricInfoMap(returned)
<1>1. \A q \in DOMAIN infos :
        /\ q \in DOMAIN returned
        /\ infos[q].name = MetricName(returned[q])
        /\ infos[q].times = Multiplier(returned[q])
        /\ MetricName(returned[q]) \notin reservedMetricNames
        /\ ~Contested(returned, q)
  BY DEF BuildQFieldToMetricInfoMap
<1> HIDE DEF infos
<1>2. ASSUME NEW p \in DOMAIN infos, NEW q \in DOMAIN infos, p # q
      PROVE  infos[p].name # infos[q].name
  <2>1. q \in DOMAIN returned \ {p}
    BY <1>1, <1>2
  <2>2. MetricName(returned[q]) # MetricName(returned[p])
    BY <1>1, <2>1 DEF Contested
  <2> QED BY <1>1, <2>2
<1>3. DistinctInfos(infos)
  BY <1>1, <1>2 DEF DistinctInfos
<1> QED BY <1>1, <1>3 DEF infos

UuidLabel == CHOOSE i \in 1..Len(InfoFields) : InfoFields[i] = "uuid"

FieldSeries(x, uuid, infos, q) ==
  /\ x.name = infos[q].name /\ x.labels = <<uuid>>
  /\ x.value = <<"field", q, uuid, infos[q].times>>

InfoSeries(x, uuid) ==
  x.name = "gpu_info" /\ x.labels[UuidLabel] = uuid /\ OfNoField(x)

RowSeries(x, uuid, infos) ==
  InfoSeries(x, uuid) \/ \E q \in DOMAIN infos : FieldSeries(x, uuid, infos, q)

(* A cell gives at most one series, the one of its field.                  *)
LEMMA CellRendered ==
  ASSUME NEW cell, NEW uuid, NEW infos,
         cell.raw.of = cell.q, cell.raw.uuid = uuid
  PROVE  /\ IsSeq(RenderCell(cell, uuid, infos))
         /\ Unique(RenderCell(cell, uuid, infos))
         /\ \A x \in ToSet(RenderCell(cell, uuid, infos)) :
              cell.q \in DOMAIN infos /\ FieldSeries(x, uuid, infos, cell.q)
<1> DEFINE c == cell.q \in DOMAIN infos /\ IsValue(cell.q, cell.raw.kind)
           e == Emit(infos[cell.q].name, <<uuid>>,
                     <<"field", cell.raw.of, cell.raw.uuid, infos[cell.q].times>>)
<1>1. RenderCell(cell, uuid, infos) = When(c, e)
  BY DEF RenderCell
<1>2. /\ IsSeq(e) /\ Unique(e)
      /\ \A x \in ToSet(e) : FieldSeries(x, uuid, infos, cell.q)
  BY EmitSeries DEF FieldSeries
<1>3. c \in BOOLEAN
  BY DEF IsValue
<1>4. c => cell.q \in DOMAIN infos
  OBVIOUS
<1> HIDE DEF c, e
<1> QED BY <1>1, <1>2, <1>3, <1>4, WhenSeries

(* The row of a GPU gives its identity and the series of its cells, each   *)
(* once and with its own uuid.                                             *)
LEMMA RowRendered ==
  ASSUME IsSeq(InfoFields), "uuid" \in ToSet(InfoFields),
         NEW query, IsSeq(query), IsInjective(query),
         NEW row, NEW uuid, RowOf(row, query, uuid),
         NEW infos, DistinctInfos(infos), NEW cuda
  PROVE  /\ IsSeq(RenderRow(row, infos, cuda))
         /\ Unique(RenderRow(row, infos, cuda))
         /\ \A x \in ToSet(RenderRow(row, infos, cuda)) : RowSeries(x, uuid, infos)
         /\ \E x \in ToSet(RenderRow(row, infos, cuda)) : InfoSeries(x, uuid)
<1> DEFINE label(q) == IF q = "uuid" THEN row.byField["uuid"].uuid
                       ELSE row.byField[q].of \o row.byField[q].uuid
           labels == [i \in DOMAIN InfoFields |-> label(InfoFields[i])]
           info == Emit("gpu_info", labels \o <<cuda>>, <<1>>)
           parts == [i \in DOMAIN row.cells |-> RenderCell(row.cells[i], uuid, infos)]
           cells == FlattenSeq(parts)
           n == Len(query)
<1>1. RenderRow(row, infos, cuda) = info \o cells
  BY DEF RenderRow, ForEach, RowOf
<1>2. /\ IsSeq(info) /\ Unique(info) /\ \A x \in ToSet(info) : InfoSeries(x, uuid)
      /\ \E x \in ToSet(info) : InfoSeries(x, uuid)
  <2>1. /\ IsSeq(labels) /\ Len(labels) = Len(InfoFields)
        /\ DOMAIN InfoFields = 1..Len(InfoFields)
    <3>1. labels = [i \in DOMAIN InfoFields |-> labels[i]]
      OBVIOUS
    <3> HIDE DEF labels
    <3> QED BY <3>1, PartsOfItems
  <2>2. UuidLabel \in 1..Len(InfoFields) /\ InfoFields[UuidLabel] = "uuid"
    BY <2>1 DEF ToSet, UuidLabel
  <2>3. labels[UuidLabel] = uuid
    BY <2>1, <2>2 DEF RowOf
  <2>4. (labels \o <<cuda>>)[UuidLabel] = labels[UuidLabel]
    <3>1. IsSeq(<<cuda>>)
      BY DEF IsSeq, ToSet
    <3> HIDE DEF labels
    <3> QED BY <2>1, <2>2, <3>1, ConcatElements
  <2> DEFINE l == labels \o <<cuda>>
             r == [name |-> "gpu_info", labels |-> l, value |-> <<1>>]
  <2>5. IsSeq(info) /\ Unique(info) /\ ToSet(info) = {r}
    <3> HIDE DEF labels
    <3> QED BY EmitSeries
  <2>6. InfoSeries(r, uuid)
    <3>1. l[UuidLabel] = uuid
      BY <2>3, <2>4
    <3> HIDE DEF l
    <3> QED BY <3>1 DEF InfoSeries, OfNoField
  <2> HIDE DEF info, r
  <2> QED BY <2>5, <2>6
<1> HIDE DEF info
<1>3. /\ IsSeq(parts) /\ Len(parts) = n /\ n \in Nat
      /\ \A i \in 1..n : parts[i] = RenderCell(row.cells[i], uuid, infos)
  <2>1. parts = [i \in DOMAIN row.cells |-> parts[i]]
    OBVIOUS
  <2>2. IsSeq(row.cells) /\ Len(row.cells) = n
    BY DEF RowOf
  <2>3. IsSeq(parts) /\ Len(parts) = n /\ n \in Nat /\ DOMAIN row.cells = 1..n
    <3> HIDE DEF parts, n
    <3> QED BY <2>1, <2>2, PartsOfItems
  <2> QED BY <2>3
<1> HIDE DEF parts
<1>4. ASSUME NEW i \in 1..n
      PROVE  /\ IsSeq(parts[i]) /\ Unique(parts[i])
             /\ \A x \in ToSet(parts[i]) :
                  query[i] \in DOMAIN infos /\ FieldSeries(x, uuid, infos, query[i])
  <2> DEFINE cell == row.cells[i]
  <2>1. cell.q = query[i] /\ cell.raw.of = cell.q /\ cell.raw.uuid = uuid
    BY DEF RowOf
  <2>2. parts[i] = RenderCell(cell, uuid, infos)
    BY <1>3
  <2> HIDE DEF cell
  <2> QED BY <2>1, <2>2, CellRendered
<1>5. ASSUME NEW i \in 1..n, NEW j \in 1..n, i # j PROVE Apart(parts[i], parts[j])
  <2>1. query[i] # query[j]
    BY <1>5 DEF IsInjective, IsSeq
  <2> SUFFICES ASSUME NEW x \in ToSet(parts[i]), NEW y \in ToSet(parts[j])
               PROVE  x.name # y.name
    BY DEF Apart, SameSeries
  <2>2. /\ query[i] \in DOMAIN infos /\ x.name = infos[query[i]].name
        /\ query[j] \in DOMAIN infos /\ y.name = infos[query[j]].name
    BY <1>4 DEF FieldSeries
  <2> QED BY <2>1, <2>2 DEF DistinctInfos
<1>6. /\ IsSeq(cells) /\ Unique(cells)
      /\ \A x \in ToSet(cells) :
           \E q \in DOMAIN infos : FieldSeries(x, uuid, infos, q)
  <2> HIDE DEF n
  <2>1. /\ IsSeq(cells) /\ Unique(cells)
        /\ \A x : x \in ToSet(cells) <=> \E i \in 1..Len(parts) : x \in ToSet(parts[i])
    BY <1>3, <1>4, <1>5, EachSeries
  <2> HIDE DEF cells
  <2> QED BY <1>3, <1>4, <2>1
<1> HIDE DEF cells
<1>7. Apart(info, cells)
  <2> SUFFICES ASSUME NEW x \in ToSet(info), NEW y \in ToSet(cells)
               PROVE  x.name # y.name
    BY DEF Apart, SameSeries
  <2>1. x.name = "gpu_info"
    BY <1>2 DEF InfoSeries
  <2>2. PICK q \in DOMAIN infos : y.name = infos[q].name
    BY <1>6 DEF FieldSeries
  <2>3. "gpu_info" \in reservedMetricNames
    BY DEF reservedMetricNames
  <2> QED BY <2>1, <2>2, <2>3 DEF DistinctInfos
<1>8. /\ IsSeq(info \o cells) /\ Unique(info \o cells)
      /\ \A x : x \in ToSet(info \o cells) <=> x \in ToSet(info) \/ x \in ToSet(cells)
  BY <1>2, <1>6, <1>7, TwoSeries
<1> QED BY <1>1, <1>2, <1>6, <1>8 DEF RowSeries

(* The table of a reading: a row for each GPU.                             *)
UuidOf(row) == row.byField["uuid"].uuid

TableOf(rows, query) ==
  /\ IsSeq(rows)
  /\ \A g \in 1..Len(rows) : RowOf(rows[g], query, UuidOf(rows[g]))
  /\ \A g, h \in 1..Len(rows) : g # h => UuidOf(rows[g]) # UuidOf(rows[h])

(* Rows of different GPUs give different series.                           *)
LEMMA RowsRendered ==
  ASSUME IsSeq(InfoFields), "uuid" \in ToSet(InfoFields),
         NEW query, IsSeq(query), IsInjective(query),
         NEW rows, TableOf(rows, query),
         NEW infos, DistinctInfos(infos), NEW cuda
  PROVE  LET series == FlattenSeq([g \in DOMAIN rows |->
                                     RenderRow(rows[g], infos, cuda)])
         IN  /\ IsSeq(series) /\ Unique(series)
             /\ \A x \in ToSet(series) :
                  \E g \in 1..Len(rows) : RowSeries(x, UuidOf(rows[g]), infos)
<1> DEFINE parts == [g \in DOMAIN rows |-> RenderRow(rows[g], infos, cuda)]
           n == Len(rows)
<1>2. /\ IsSeq(parts) /\ Len(parts) = n /\ n \in Nat
      /\ \A i \in 1..n : parts[i] = RenderRow(rows[i], infos, cuda)
  <2>1. parts = [g \in DOMAIN rows |-> parts[g]] /\ IsSeq(rows)
    BY DEF TableOf
  <2>2. IsSeq(parts) /\ Len(parts) = n /\ n \in Nat /\ DOMAIN rows = 1..n
    <3> HIDE DEF parts, n
    <3> QED BY <2>1, PartsOfItems DEF n
  <2> QED BY <2>2
<1> HIDE DEF parts
<1>3. ASSUME NEW g \in 1..n
      PROVE  /\ IsSeq(parts[g]) /\ Unique(parts[g])
             /\ \A x \in ToSet(parts[g]) : RowSeries(x, UuidOf(rows[g]), infos)
  <2> DEFINE uuid == UuidOf(rows[g])
             row == rows[g]
  <2>1. RowOf(row, query, uuid) /\ parts[g] = RenderRow(row, infos, cuda)
    BY <1>2 DEF TableOf
  <2> HIDE DEF uuid, row
  <2>2. /\ IsSeq(RenderRow(row, infos, cuda)) /\ Unique(RenderRow(row, infos, cuda))
        /\ \A x \in ToSet(RenderRow(row, infos, cuda)) : RowSeries(x, uuid, infos)
    BY <2>1, RowRendered
  <2> QED BY <2>1, <2>2 DEF uuid
<1>4. ASSUME NEW g \in 1..n, NEW h \in 1..n, g # h PROVE Apart(parts[g], parts[h])
  <2> SUFFICES ASSUME NEW x \in ToSet(parts[g]), NEW y \in ToSet(parts[h]),
                      x.name = y.name, x.labels = y.labels
               PROVE  FALSE
    BY DEF Apart, SameSeries
  <2> DEFINE u == UuidOf(rows[g])
             v == UuidOf(rows[h])
  <2>1. RowSeries(x, u, infos) /\ RowSeries(y, v, infos)
    BY <1>3
  <2>2. u # v
    BY <1>4 DEF TableOf
  <2> HIDE DEF u, v
  <2>3. ASSUME NEW a, NEW b, InfoSeries(a, u),
               NEW q \in DOMAIN infos, FieldSeries(b, v, infos, q)
        PROVE  a.name # b.name
    <3>1. "gpu_info" \in reservedMetricNames
      BY DEF reservedMetricNames
    <3> QED BY <2>3, <3>1 DEF InfoSeries, FieldSeries, DistinctInfos
  <2>4. ASSUME NEW a, NEW b, InfoSeries(a, v),
               NEW q \in DOMAIN infos, FieldSeries(b, u, infos, q)
        PROVE  a.name # b.name
    <3>1. "gpu_info" \in reservedMetricNames
      BY DEF reservedMetricNames
    <3> QED BY <2>4, <3>1 DEF InfoSeries, FieldSeries, DistinctInfos
  <2>5. CASE InfoSeries(x, u)
    <3>1. CASE InfoSeries(y, v)
      BY <2>2, <2>5, <3>1 DEF InfoSeries
    <3>2. CASE \E q \in DOMAIN infos : FieldSeries(y, v, infos, q)
      BY <2>3, <2>5, <3>2
    <3> QED BY <2>1, <3>1, <3>2 DEF RowSeries
  <2>6. CASE \E q \in DOMAIN infos : FieldSeries(x, u, infos, q)
    <3>1. CASE InfoSeries(y, v)
      BY <2>4, <2>6, <3>1
    <3>2. CASE \E q \in DOMAIN infos : FieldSeries(y, v, infos, q)
      <4>1. x.labels = <<u>> /\ y.labels = <<v>>
        BY <2>6, <3>2 DEF FieldSeries
      <4>2. <<u>>[1] = <<v>>[1]
        BY <4>1
      <4> QED BY <2>2, <4>2
    <3> QED BY <2>1, <3>1, <3>2 DEF RowSeries
  <2> QED BY <2>1, <2>5, <2>6 DEF RowSeries
<1> HIDE DEF n
<1>5. /\ IsSeq(FlattenSeq(parts)) /\ Unique(FlattenSeq(parts))
      /\ \A x : x \in ToSet(FlattenSeq(parts))
                  <=> \E g \in 1..Len(parts) : x \in ToSet(parts[g])
  BY <1>2, <1>3, <1>4, EachSeries
<1> QED BY <1>2, <1>3, <1>5 DEF n, parts

(* The processes of a reading, each under labels of its own.               *)
SameApp(a, b) == a.uuid = b.uuid /\ a.pid = b.pid /\ a.name = b.name

DistinctApps(apps) ==
  /\ IsSeq(apps)
  /\ \A i, j \in 1..Len(apps) : i # j => ~SameApp(apps[i], apps[j])

(* The labels of a process begin with what tells it from the others.       *)
LEMMA AppLabelsAre ==
  ASSUME NEW app, NEW features, features.migLabels \in BOOLEAN
  PROVE  /\ AppLabels(app, features)[1] = app.uuid
         /\ AppLabels(app, features)[2] = app.pid
         /\ AppLabels(app, features)[3] = app.name
<1> DEFINE s == <<app.uuid, app.pid, app.name>>
           t == IF features.migLabels THEN <<app.gi, app.ci>> ELSE <<>>
<1>1. IsSeq(s) /\ Len(s) = 3
  BY DEF IsSeq, ToSet
<1>2. IsSeq(t)
  <2>1. IsSeq(<<app.gi, app.ci>>)
    BY DEF IsSeq, ToSet
  <2> QED BY <2>1, NoSeries
<1>3. AppLabels(app, features) = s \o t
  BY DEF AppLabels
<1>4. 1 \in 1..3 /\ 2 \in 1..3 /\ 3 \in 1..3
  OBVIOUS
<1>5. \A i \in 1..3 : (s \o t)[i] = s[i]
  <2> HIDE DEF s, t
  <2>1. \A i \in 1..Len(s) : (s \o t)[i] = s[i]
    BY <1>1, <1>2, ConcatElements
  <2> QED BY <1>1, <2>1
<1>6. s[1] = app.uuid /\ s[2] = app.pid /\ s[3] = app.name
  OBVIOUS
<1> HIDE DEF s, t
<1> QED BY <1>3, <1>4, <1>5, <1>6

AppSeries(x, app, features) ==
  /\ x.name \in {"compute_app_info", "compute_app_used_memory_bytes"}
  /\ x.labels = AppLabels(app, features) /\ OfNoField(x)

(* A process gives its series, each once.                                  *)
LEMMA AppRendered ==
  ASSUME NEW app, NEW features
  PROVE  /\ IsSeq(RenderApp(app, features)) /\ Unique(RenderApp(app, features))
         /\ \A x \in ToSet(RenderApp(app, features)) : AppSeries(x, app, features)
<1> DEFINE info == Emit("compute_app_info", AppLabels(app, features), <<1>>)
           used == Emit("compute_app_used_memory_bytes", AppLabels(app, features), <<>>)
           c == ~KnownAbsent(app.memory) /\ app.memory = "number"
<1>1. RenderApp(app, features) = info \o When(c, used)
  BY DEF RenderApp
<1>2. /\ IsSeq(info) /\ Unique(info) /\ OnlyNamed(info, {"compute_app_info"})
      /\ \A x \in ToSet(info) : AppSeries(x, app, features)
  BY EmitSeries DEF OnlyNamed, AppSeries, OfNoField
<1>3. /\ IsSeq(used) /\ Unique(used)
      /\ OnlyNamed(used, {"compute_app_used_memory_bytes"})
      /\ \A x \in ToSet(used) : AppSeries(x, app, features)
  BY EmitSeries DEF OnlyNamed, AppSeries, OfNoField
<1>4. c \in BOOLEAN
  OBVIOUS
<1> HIDE DEF info, used, c
<1> DEFINE w == When(c, used)
<1>5. /\ IsSeq(w) /\ Unique(w) /\ OnlyNamed(w, {"compute_app_used_memory_bytes"})
      /\ \A x \in ToSet(w) : AppSeries(x, app, features)
  <2>1. IsSeq(w) /\ Unique(w) /\ \A x \in ToSet(w) : x \in ToSet(used)
    BY <1>3, <1>4, WhenSeries
  <2> HIDE DEF w
  <2> QED BY <1>3, <2>1 DEF OnlyNamed
<1> HIDE DEF w
<1>6. Apart(info, w)
  BY <1>2, <1>5, ApartByName
<1>7. /\ IsSeq(info \o w) /\ Unique(info \o w)
      /\ \A x : x \in ToSet(info \o w) <=> x \in ToSet(info) \/ x \in ToSet(w)
  BY <1>2, <1>5, <1>6, TwoSeries
<1> QED BY <1>1, <1>2, <1>5, <1>7 DEF w

(* Different processes give different series.                              *)
LEMMA EachAppRendered ==
  ASSUME NEW apps, DistinctApps(apps), NEW features, features.migLabels \in BOOLEAN
  PROVE  LET series == FlattenSeq([a \in DOMAIN apps |->
                                     RenderApp(apps[a], features)])
         IN  /\ IsSeq(series) /\ Unique(series)
             /\ \A x \in ToSet(series) :
                  \E a \in 1..Len(apps) : AppSeries(x, apps[a], features)
<1> DEFINE parts == [a \in DOMAIN apps |-> RenderApp(apps[a], features)]
           n == Len(apps)
<1>2. /\ IsSeq(parts) /\ Len(parts) = n /\ n \in Nat
      /\ \A a \in 1..n : parts[a] = RenderApp(apps[a], features)
  <2>1. parts = [a \in DOMAIN apps |-> parts[a]] /\ IsSeq(apps)
    BY DEF DistinctApps
  <2>2. IsSeq(parts) /\ Len(parts) = n /\ n \in Nat /\ DOMAIN apps = 1..n
    <3> HIDE DEF parts, n
    <3> QED BY <2>1, PartsOfItems DEF n
  <2> QED BY <2>2
<1> HIDE DEF parts
<1>3. ASSUME NEW a \in 1..n
      PROVE  /\ IsSeq(parts[a]) /\ Unique(parts[a])
             /\ \A x \in ToSet(parts[a]) : AppSeries(x, apps[a], features)
  BY <1>2, AppRendered
<1>4. ASSUME NEW a \in 1..n, NEW b \in 1..n, a # b PROVE Apart(parts[a], parts[b])
  <2>1. ASSUME NEW x \in ToSet(parts[a]), NEW y \in ToSet(parts[b]),
               x.labels = y.labels
        PROVE  FALSE
    <3>1. x.labels = AppLabels(apps[a], features) /\ y.labels = AppLabels(apps[b], features)
      BY <1>3 DEF AppSeries
    <3> DEFINE p == apps[a]
               q == apps[b]
    <3>2. SameApp(p, q)
      <4>1. AppLabels(p, features) = AppLabels(q, features)
        BY <2>1, <3>1
      <4> HIDE DEF p, q
      <4>2. /\ AppLabels(p, features)[1] = p.uuid /\ AppLabels(q, features)[1] = q.uuid
            /\ AppLabels(p, features)[2] = p.pid /\ AppLabels(q, features)[2] = q.pid
            /\ AppLabels(p, features)[3] = p.name /\ AppLabels(q, features)[3] = q.name
        BY AppLabelsAre
      <4> QED BY <4>1, <4>2 DEF SameApp
    <3> QED BY <1>4, <3>2 DEF DistinctApps
  <2> QED BY <2>1 DEF Apart, SameSeries
<1> HIDE DEF n
<1>5. /\ IsSeq(FlattenSeq(parts)) /\ Unique(FlattenSeq(parts))
      /\ \A x : x \in ToSet(FlattenSeq(parts))
                  <=> \E a \in 1..Len(parts) : x \in ToSet(parts[a])
  BY <1>2, <1>3, <1>4, EachSeries
<1> QED BY <1>2, <1>3, <1>5 DEF n, parts

(* What a sequence has is finite, and so is what is made of it.            *)
LEMMA ImageFinite ==
  ASSUME NEW s, IsSeq(s), NEW f, f = [i \in DOMAIN s |-> f[i]]
  PROVE  IsFiniteSet({f[i] : i \in DOMAIN s})
<1>1. DOMAIN s = 1..Len(s) /\ Len(s) \in Nat
  BY DEF IsSeq
<1>2. IsFiniteSet(DOMAIN s)
  <2> DEFINE n == Len(s)
  <2>1. n \in Int /\ 1 \in Int /\ DOMAIN s = 1..n
    BY <1>1
  <2> HIDE DEF n
  <2> QED BY <2>1, FS_Interval
<1>3. IsFiniteSet({f[i] : i \in DOMAIN s})
  <2> DEFINE D == DOMAIN s
             R == {f[i] : i \in D}
  <2>1. f \in [D -> R] /\ \A y \in R : \E i \in D : f[i] = y
    OBVIOUS
  <2>2. f \in Surjection(D, R)
    BY <2>1 DEF Surjection
  <2> HIDE DEF D, R
  <2>3. IsFiniteSet(R)
    BY <1>2, <2>2, FS_Surjection DEF D
  <2> QED BY <2>3 DEF R, D
<1> QED BY <1>3

AppsSeries(x, s, features) ==
  /\ features.apps /\ s.appsAttempted
  /\ x.name \in AppNames /\ OfNoField(x)
  /\ x.name = "compute_apps_last_collect_success" => x.value = Flag(s.appsSuccess)
  /\ x.name = "compute_apps" => s.appsSuccess

(* Each GPU has a number of processes, be it none.                         *)
CountsEach(series, rows) ==
  \A g \in 1..Len(rows) : \E x \in ToSet(series) :
    x.name = "compute_apps" /\ x.labels = <<UuidOf(rows[g])>>

(* The process series are each there once, and a GPU of the table has a    *)
(* count when the process query was attempted and succeeded.               *)
LEMMA AppsRendered ==
  ASSUME NEW s, IsSeq(s.rows), DistinctApps(s.apps),
         s.appsAttempted \in BOOLEAN, s.appsSuccess \in BOOLEAN,
         NEW features, features.apps \in BOOLEAN, features.migLabels \in BOOLEAN
  PROVE  /\ IsSeq(RenderApps(s, features)) /\ Unique(RenderApps(s, features))
         /\ \A x \in ToSet(RenderApps(s, features)) : AppsSeries(x, s, features)
         /\ features.apps /\ s.appsAttempted /\ s.appsSuccess =>
              CountsEach(RenderApps(s, features), s.rows)
<1> DEFINE gpus == {s.rows[g].byField["uuid"].uuid : g \in DOMAIN s.rows}
           owners == {s.apps[a].uuid : a \in DOMAIN s.apps}
           uuids == Keys(gpus \cup owners)
           count(uuid) == Cardinality({a \in DOMAIN s.apps : s.apps[a].uuid = uuid})
           ok == Emit("compute_apps_last_collect_success", <<>>, Flag(s.appsSuccess))
           each == FlattenSeq([a \in DOMAIN s.apps |->
                                 RenderApp(s.apps[a], features)])
           parts == [i \in DOMAIN uuids |->
                       Emit("compute_apps", <<uuids[i]>>, <<count(uuids[i])>>)]
           counts == FlattenSeq(parts)
           observed == When(Observed(s), each \o counts)
           c == features.apps /\ s.appsAttempted
<1>1. RenderApps(s, features) = When(c, ok \o observed)
  BY DEF RenderApps, ForEach
<1>2. /\ IsSeq(uuids) /\ IsInjective(uuids) /\ ToSet(uuids) = gpus \cup owners
  <2>1. IsFiniteSet(gpus)
    <3> DEFINE f == [g \in DOMAIN s.rows |-> s.rows[g].byField["uuid"].uuid]
    <3>1. f = [g \in DOMAIN s.rows |-> f[g]]
      OBVIOUS
    <3>2. gpus = {f[g] : g \in DOMAIN s.rows}
      OBVIOUS
    <3> HIDE DEF f, gpus
    <3> QED BY <3>1, <3>2, ImageFinite
  <2>2. IsFiniteSet(owners)
    <3> DEFINE f == [a \in DOMAIN s.apps |-> s.apps[a].uuid]
    <3>1. f = [a \in DOMAIN s.apps |-> f[a]]
      OBVIOUS
    <3>2. owners = {f[a] : a \in DOMAIN s.apps}
      OBVIOUS
    <3> HIDE DEF f, owners
    <3> QED BY <3>1, <3>2, ImageFinite DEF DistinctApps
  <2> DEFINE U == gpus \cup owners
  <2>3. IsFiniteSet(U)
    <3> HIDE DEF gpus, owners
    <3> QED BY <2>1, <2>2, FS_Union
  <2> HIDE DEF U
  <2>4. Keys(U) \in Seq(U) /\ ToSet(Keys(U)) = U /\ IsInjective(Keys(U))
    BY <2>3, KeysList
  <2>5. IsSeq(Keys(U))
    BY <2>4, SeqElements
  <2> QED BY <2>4, <2>5 DEF U
<1>3. \A g \in 1..Len(s.rows) : UuidOf(s.rows[g]) \in gpus
  <2>1. DOMAIN s.rows = 1..Len(s.rows)
    BY DEF IsSeq
  <2> QED BY <2>1 DEF UuidOf
<1> HIDE DEF uuids, gpus, owners
<1>4. /\ IsSeq(parts) /\ Len(parts) = Len(uuids) /\ DOMAIN uuids = 1..Len(uuids)
      /\ \A i \in 1..Len(uuids) :
           parts[i] = Emit("compute_apps", <<uuids[i]>>, <<count(uuids[i])>>)
  <2>1. parts = [i \in DOMAIN uuids |-> parts[i]]
    OBVIOUS
  <2>2. /\ IsSeq(parts) /\ Len(parts) = Len(uuids)
        /\ DOMAIN uuids = 1..Len(uuids)
    <3> HIDE DEF parts
    <3> QED BY <1>2, <2>1, PartsOfItems
  <2> QED BY <2>2
<1> HIDE DEF parts
<1>5. ASSUME NEW i \in 1..Len(uuids)
      PROVE  /\ IsSeq(parts[i]) /\ Unique(parts[i])
             /\ \A x \in ToSet(parts[i]) :
                  x.name = "compute_apps" /\ x.labels = <<uuids[i]>> /\ OfNoField(x)
             /\ ToSet(parts[i]) # {}
  <2> DEFINE v == <<count(uuids[i])>>
  <2>1. Len(v) # 4
    OBVIOUS
  <2> HIDE DEF v
  <2>2. parts[i] = Emit("compute_apps", <<uuids[i]>>, v)
    BY <1>4 DEF v
  <2> DEFINE r == [name |-> "compute_apps", labels |-> <<uuids[i]>>, value |-> v]
  <2>3. /\ IsSeq(parts[i]) /\ Unique(parts[i]) /\ ToSet(parts[i]) = {r}
    BY <2>2, EmitSeries
  <2>4. r.name = "compute_apps" /\ r.labels = <<uuids[i]>> /\ r.value = v
    OBVIOUS
  <2> HIDE DEF r
  <2> QED BY <2>1, <2>3, <2>4 DEF OfNoField
<1> HIDE DEF count
<1>6. ASSUME NEW i \in 1..Len(uuids), NEW j \in 1..Len(uuids), i # j
      PROVE  Apart(parts[i], parts[j])
  <2>1. uuids[i] # uuids[j]
    BY <1>2, <1>4, <1>6 DEF IsInjective
  <2>2. \A x \in ToSet(parts[i]) : x.labels = <<uuids[i]>>
    BY <1>5
  <2>3. \A y \in ToSet(parts[j]) : y.labels = <<uuids[j]>>
    BY <1>5
  <2> QED BY <2>1, <2>2, <2>3 DEF Apart, SameSeries
<1>7. /\ IsSeq(counts) /\ Unique(counts)
      /\ \A x : x \in ToSet(counts) <=> \E i \in 1..Len(parts) : x \in ToSet(parts[i])
  BY <1>4, <1>5, <1>6, EachSeries
<1> HIDE DEF counts
<1>8. /\ OnlyNamed(counts, {"compute_apps"})
      /\ \A x \in ToSet(counts) : OfNoField(x)
      /\ \A g \in 1..Len(s.rows) :
           \E x \in ToSet(counts) :
             x.name = "compute_apps" /\ x.labels = <<UuidOf(s.rows[g])>>
  <2>1. \A x \in ToSet(counts) : x.name = "compute_apps" /\ OfNoField(x)
    BY <1>4, <1>5, <1>7
  <2>2. ASSUME NEW g \in 1..Len(s.rows)
        PROVE  \E x \in ToSet(counts) :
                 x.name = "compute_apps" /\ x.labels = <<UuidOf(s.rows[g])>>
    <3>1. PICK i \in 1..Len(uuids) : uuids[i] = UuidOf(s.rows[g])
      BY <1>2, <1>3, <1>4 DEF ToSet
    <3> QED BY <1>4, <1>5, <1>7, <3>1
  <2> QED BY <2>1, <2>2 DEF OnlyNamed
<1>9. /\ IsSeq(each) /\ Unique(each)
      /\ OnlyNamed(each, {"compute_app_info", "compute_app_used_memory_bytes"})
      /\ \A x \in ToSet(each) : OfNoField(x)
  <2>1. /\ IsSeq(each) /\ Unique(each)
        /\ \A x \in ToSet(each) :
             \E a \in 1..Len(s.apps) : AppSeries(x, s.apps[a], features)
    BY EachAppRendered
  <2> HIDE DEF each
  <2> QED BY <2>1 DEF AppSeries, OnlyNamed
<1> HIDE DEF each
<1> DEFINE both == each \o counts
<1>10. /\ IsSeq(both) /\ Unique(both)
       /\ \A x : x \in ToSet(both) <=> x \in ToSet(each) \/ x \in ToSet(counts)
  <2>1. Apart(each, counts)
    BY <1>8, <1>9, ApartByName
  <2> QED BY <1>7, <1>9, <2>1, TwoSeries
<1> HIDE DEF both
<1>11. /\ IsSeq(observed) /\ Unique(observed)
       /\ \A x : x \in ToSet(observed) <=> s.appsSuccess /\ x \in ToSet(both)
  <2>1. observed = When(s.appsSuccess, both)
    BY DEF Observed, both
  <2> QED BY <1>10, <2>1, WhenSeries
<1> HIDE DEF observed
<1>12. /\ IsSeq(ok) /\ Unique(ok)
       /\ ToSet(ok) = {[name |-> "compute_apps_last_collect_success", labels |-> <<>>,
                        value |-> Flag(s.appsSuccess)]}
  BY EmitSeries
<1> HIDE DEF ok
<1> DEFINE all == ok \o observed
<1>13. /\ IsSeq(all) /\ Unique(all)
       /\ \A x : x \in ToSet(all) <=> x \in ToSet(ok) \/ x \in ToSet(observed)
  <2>1. OnlyNamed(ok, {"compute_apps_last_collect_success"})
    BY <1>12 DEF OnlyNamed
  <2>2. OnlyNamed(observed, {"compute_app_info", "compute_app_used_memory_bytes",
                             "compute_apps"})
    BY <1>8, <1>9, <1>10, <1>11 DEF OnlyNamed
  <2>3. Apart(ok, observed)
    BY <2>1, <2>2, ApartByName
  <2> QED BY <1>11, <1>12, <2>3, TwoSeries
<1> HIDE DEF all
<1>14. c \in BOOLEAN
  OBVIOUS
<1>15. /\ IsSeq(When(c, all)) /\ Unique(When(c, all))
       /\ \A x : x \in ToSet(When(c, all)) <=> c /\ x \in ToSet(all)
  <2> HIDE DEF c
  <2> QED BY <1>13, <1>14, WhenSeries
<1>16. ASSUME NEW x \in ToSet(When(c, all)) PROVE AppsSeries(x, s, features)
  <2>1. c
    BY <1>15
  <2>2. CASE x \in ToSet(ok)
    <3>1. Len(Flag(s.appsSuccess)) # 4
      BY DEF Flag
    <3> QED BY <1>12, <2>1, <2>2, <3>1 DEF AppsSeries, AppNames, OfNoField
  <2>3. CASE x \in ToSet(each) /\ s.appsSuccess
    BY <1>9, <2>1, <2>3 DEF AppsSeries, AppNames, OnlyNamed
  <2>4. CASE x \in ToSet(counts) /\ s.appsSuccess
    BY <1>8, <2>1, <2>4 DEF AppsSeries, AppNames, OnlyNamed
  <2> QED BY <1>10, <1>11, <1>13, <1>15, <2>2, <2>3, <2>4
<1>17. ASSUME c, s.appsSuccess PROVE CountsEach(When(c, all), s.rows)
  BY <1>8, <1>10, <1>11, <1>13, <1>15, <1>17 DEF CountsEach
<1> QED BY <1>1, <1>15, <1>16, <1>17 DEF all

(* One series of each name.                                                *)
LEMMA NamesRendered ==
  ASSUME NEW names, IsSeq(names), IsInjective(names), NEW labels
  PROVE  LET series == FlattenSeq([i \in DOMAIN names |->
                                     Emit(names[i], labels, <<>>)])
         IN  /\ IsSeq(series) /\ Unique(series)
             /\ \A x \in ToSet(series) :
                  x.name \in ToSet(names) /\ x.labels = labels /\ OfNoField(x)
<1> DEFINE parts == [i \in DOMAIN names |-> Emit(names[i], labels, <<>>)]
           n == Len(names)
<1>1. /\ IsSeq(parts) /\ Len(parts) = n /\ DOMAIN names = 1..n
      /\ \A i \in 1..n : parts[i] = Emit(names[i], labels, <<>>)
  <2>1. parts = [i \in DOMAIN names |-> parts[i]]
    OBVIOUS
  <2>2. IsSeq(parts) /\ Len(parts) = n /\ DOMAIN names = 1..n
    <3> HIDE DEF parts, n
    <3> QED BY <2>1, PartsOfItems DEF n
  <2> QED BY <2>2
<1> HIDE DEF parts, n
<1>2. ASSUME NEW i \in 1..n
      PROVE  /\ IsSeq(parts[i]) /\ Unique(parts[i])
             /\ \A x \in ToSet(parts[i]) :
                  x.name = names[i] /\ x.labels = labels /\ OfNoField(x)
  BY <1>1, EmitSeries DEF OfNoField
<1>3. ASSUME NEW i \in 1..n, NEW j \in 1..n, i # j PROVE Apart(parts[i], parts[j])
  <2>1. names[i] # names[j]
    BY <1>1, <1>3 DEF IsInjective
  <2> QED BY <1>2, <2>1 DEF Apart, SameSeries
<1>4. /\ IsSeq(FlattenSeq(parts)) /\ Unique(FlattenSeq(parts))
      /\ \A x : x \in ToSet(FlattenSeq(parts))
                  <=> \E i \in 1..Len(parts) : x \in ToSet(parts[i])
  BY <1>1, <1>2, <1>3, EachSeries
<1>5. \A i \in 1..n : names[i] \in ToSet(names)
  BY <1>1 DEF ToSet
<1>6. \A x \in ToSet(FlattenSeq(parts)) :
        x.name \in ToSet(names) /\ x.labels = labels /\ OfNoField(x)
  BY <1>1, <1>2, <1>4, <1>5
<1> QED BY <1>4, <1>6 DEF parts

(* The names of the MIG series are all different.                          *)
LEMMA MigNamesAre ==
  /\ IsSeq(MigMemory) /\ IsInjective(MigMemory)
  /\ IsSeq(MigActivity) /\ IsInjective(MigActivity)
  /\ ToSet(MigMemory) = {"mig_memory_total_bytes", "mig_memory_used_bytes",
                         "mig_memory_free_bytes", "mig_memory_reserved_bytes"}
  /\ ToSet(MigActivity) = {"mig_graphics_activity_ratio", "mig_sm_activity_ratio",
                           "mig_sm_occupancy_ratio", "mig_tensor_activity_ratio",
                           "mig_pcie_throughput_tx_bytes_per_second",
                           "mig_pcie_throughput_rx_bytes_per_second"}
<1> DEFINE names == {"mig_memory_total_bytes", "mig_memory_used_bytes",
                     "mig_memory_free_bytes", "mig_memory_reserved_bytes",
                     "mig_graphics_activity_ratio", "mig_sm_activity_ratio",
                     "mig_sm_occupancy_ratio", "mig_tensor_activity_ratio",
                     "mig_pcie_throughput_tx_bytes_per_second",
                     "mig_pcie_throughput_rx_bytes_per_second"}
<1>1. MigMemory \in Seq(names) /\ MigActivity \in Seq(names)
  <2>1. MigMemory \in Seq(names)
    BY DEF MigMemory
  <2>2. MigActivity \in Seq(names)
    BY DEF MigActivity
  <2> QED BY <2>1, <2>2
<1>2. DOMAIN MigMemory = 1..4 /\ DOMAIN MigActivity = 1..6
  BY DEF MigMemory, MigActivity
<1>3. 1..4 = {1, 2, 3, 4} /\ 1..6 = {1, 2, 3, 4, 5, 6}
  OBVIOUS
<1>4. /\ MigMemory[1] = "mig_memory_total_bytes" /\ MigMemory[2] = "mig_memory_used_bytes"
      /\ MigMemory[3] = "mig_memory_free_bytes" /\ MigMemory[4] = "mig_memory_reserved_bytes"
      /\ MigActivity[1] = "mig_graphics_activity_ratio"
      /\ MigActivity[2] = "mig_sm_activity_ratio"
      /\ MigActivity[3] = "mig_sm_occupancy_ratio"
      /\ MigActivity[4] = "mig_tensor_activity_ratio"
      /\ MigActivity[5] = "mig_pcie_throughput_tx_bytes_per_second"
      /\ MigActivity[6] = "mig_pcie_throughput_rx_bytes_per_second"
  BY DEF MigMemory, MigActivity
<1>5. IsSeq(MigMemory) /\ IsSeq(MigActivity)
  BY <1>1, SeqElements
<1>6. IsInjective(MigMemory) /\ IsInjective(MigActivity)
  BY <1>2, <1>3, <1>4 DEF IsInjective
<1>7. ToSet(MigMemory) = {MigMemory[i] : i \in {1, 2, 3, 4}}
  BY <1>2, <1>3 DEF ToSet
<1>8. ToSet(MigActivity) = {MigActivity[i] : i \in {1, 2, 3, 4, 5, 6}}
  BY <1>2, <1>3 DEF ToSet
<1> QED BY <1>4, <1>5, <1>6, <1>7, <1>8

InstanceInfo(x, it) ==
  x.name = "mig_info" /\ x.labels = <<it.parent, it.uuid, it.gi, it.ci>>

InstanceUse(x, it) ==
  /\ x.name \in ToSet(MigMemory) \cup ToSet(MigActivity)
  /\ x.labels = <<it.parent, it.gi>>

(* Another MIG device of the same GPU instance stands further up.          *)
Emitted(mig, i) ==
  \E j \in 1..(i - 1) : mig[j].parent = mig[i].parent /\ mig[j].gi = mig[i].gi

(* A MIG device gives its identity, and its use unless an earlier device   *)
(* of the same GPU instance gave it.                                       *)
LEMMA InstanceRendered ==
  ASSUME NEW mig, NEW i, mig[i].memory \in BOOLEAN, mig[i].utilization \in BOOLEAN
  PROVE  /\ IsSeq(RenderMIGInstance(mig, i)) /\ Unique(RenderMIGInstance(mig, i))
         /\ \A x \in ToSet(RenderMIGInstance(mig, i)) :
              /\ OfNoField(x)
              /\ \/ InstanceInfo(x, mig[i])
                 \/ ~Emitted(mig, i) /\ InstanceUse(x, mig[i])
<1> DEFINE it == mig[i]
           labels == <<it.parent, it.gi>>
           info == Emit("mig_info", <<it.parent, it.uuid, it.gi, it.ci>>, <<1>>)
           memory == FlattenSeq([k \in DOMAIN MigMemory |->
                                   Emit(MigMemory[k], labels, <<>>)])
           activity == FlattenSeq([k \in DOMAIN MigActivity |->
                                     Emit(MigActivity[k], labels, <<>>)])
           a == When(it.memory, memory)
           b == When(it.utilization, activity)
           use == When(~Emitted(mig, i), a \o b)
<1>1. RenderMIGInstance(mig, i) = info \o use
  BY DEF RenderMIGInstance, ForEach, Emitted
<1>2. it.memory \in BOOLEAN /\ it.utilization \in BOOLEAN
  OBVIOUS
<1>3. /\ IsSeq(info) /\ Unique(info)
      /\ \A x \in ToSet(info) : OfNoField(x) /\ InstanceInfo(x, it)
  BY EmitSeries DEF InstanceInfo, OfNoField
<1>4. /\ IsSeq(memory) /\ Unique(memory)
      /\ \A x \in ToSet(memory) :
           x.name \in ToSet(MigMemory) /\ x.labels = labels /\ OfNoField(x)
  <2> HIDE DEF labels
  <2> DEFINE names == MigMemory
  <2>1. IsSeq(names) /\ IsInjective(names)
    BY MigNamesAre
  <2> HIDE DEF names
  <2>2. LET series == FlattenSeq([k \in DOMAIN names |-> Emit(names[k], labels, <<>>)])
        IN  /\ IsSeq(series) /\ Unique(series)
            /\ \A x \in ToSet(series) :
                 x.name \in ToSet(names) /\ x.labels = labels /\ OfNoField(x)
    BY <2>1, NamesRendered
  <2> QED BY <2>2 DEF names
<1>5. /\ IsSeq(activity) /\ Unique(activity)
      /\ \A x \in ToSet(activity) :
           x.name \in ToSet(MigActivity) /\ x.labels = labels /\ OfNoField(x)
  <2> HIDE DEF labels
  <2> DEFINE names == MigActivity
  <2>1. IsSeq(names) /\ IsInjective(names)
    BY MigNamesAre
  <2> HIDE DEF names
  <2>2. LET series == FlattenSeq([k \in DOMAIN names |-> Emit(names[k], labels, <<>>)])
        IN  /\ IsSeq(series) /\ Unique(series)
            /\ \A x \in ToSet(series) :
                 x.name \in ToSet(names) /\ x.labels = labels /\ OfNoField(x)
    BY <2>1, NamesRendered
  <2> QED BY <2>2 DEF names
<1> HIDE DEF info, memory, activity
<1>6. /\ IsSeq(a) /\ Unique(a) /\ \A x \in ToSet(a) : x \in ToSet(memory)
      /\ IsSeq(b) /\ Unique(b) /\ \A x \in ToSet(b) : x \in ToSet(activity)
  <2> HIDE DEF it
  <2> QED BY <1>2, <1>4, <1>5, WhenSeries
<1> HIDE DEF a, b
<1>7. ToSet(MigMemory) \cap ToSet(MigActivity) = {}
  BY MigNamesAre
<1>8. /\ IsSeq(a \o b) /\ Unique(a \o b)
      /\ \A x \in ToSet(a \o b) : OfNoField(x) /\ InstanceUse(x, it)
  <2>1. OnlyNamed(a, ToSet(MigMemory)) /\ OnlyNamed(b, ToSet(MigActivity))
    BY <1>4, <1>5, <1>6 DEF OnlyNamed
  <2>2. Apart(a, b)
    BY <1>7, <2>1, ApartByName
  <2>3. /\ IsSeq(a \o b) /\ Unique(a \o b)
        /\ \A x : x \in ToSet(a \o b) <=> x \in ToSet(a) \/ x \in ToSet(b)
    BY <1>6, <2>2, TwoSeries
  <2> QED BY <1>4, <1>5, <1>6, <2>3 DEF InstanceUse
<1> DEFINE ab == a \o b
<1>9. /\ IsSeq(use) /\ Unique(use)
      /\ \A x \in ToSet(use) : ~Emitted(mig, i) /\ x \in ToSet(ab)
  <2> DEFINE c == ~Emitted(mig, i)
  <2>1. c \in BOOLEAN /\ use = When(c, ab)
    OBVIOUS
  <2> HIDE DEF c, use, ab
  <2>2. IsSeq(ab) /\ Unique(ab)
    BY <1>8 DEF ab
  <2>3. /\ IsSeq(use) /\ Unique(use)
        /\ \A x \in ToSet(use) : c /\ x \in ToSet(ab)
    BY <2>1, <2>2, WhenSeries
  <2> QED BY <2>3 DEF c
<1> HIDE DEF use
<1>10. \A x \in ToSet(use) : OfNoField(x) /\ ~Emitted(mig, i) /\ InstanceUse(x, it)
  BY <1>8, <1>9
<1>11. Apart(info, use)
  <2>1. OnlyNamed(info, {"mig_info"})
    BY <1>3 DEF OnlyNamed, InstanceInfo
  <2>2. OnlyNamed(use, ToSet(MigMemory) \cup ToSet(MigActivity))
    BY <1>10 DEF OnlyNamed, InstanceUse
  <2>3. "mig_info" \notin ToSet(MigMemory) \cup ToSet(MigActivity)
    BY MigNamesAre
  <2> QED BY <2>1, <2>2, <2>3, ApartByName
<1>12. /\ IsSeq(info \o use) /\ Unique(info \o use)
       /\ \A x : x \in ToSet(info \o use) <=> x \in ToSet(info) \/ x \in ToSet(use)
  BY <1>3, <1>9, <1>11, TwoSeries
<1> QED BY <1>1, <1>3, <1>10, <1>12

(* MIG devices, each of its own GPU, GPU instance and compute instance.    *)
DistinctMIG(mig) ==
  /\ IsSeq(mig)
  /\ \A i \in 1..Len(mig) : mig[i].memory \in BOOLEAN /\ mig[i].utilization \in BOOLEAN
  /\ \A i, j \in 1..Len(mig) : i # j =>
       ~(mig[i].parent = mig[j].parent /\ mig[i].gi = mig[j].gi /\ mig[i].ci = mig[j].ci)

(* Different MIG devices give different series.                            *)
LEMMA InstancesRendered ==
  ASSUME NEW mig, DistinctMIG(mig)
  PROVE  LET series == FlattenSeq([i \in DOMAIN mig |-> RenderMIGInstance(mig, i)])
         IN  /\ IsSeq(series) /\ Unique(series)
             /\ \A x \in ToSet(series) : x.name \in MigNames /\ OfNoField(x)
<1> DEFINE parts == [i \in DOMAIN mig |-> RenderMIGInstance(mig, i)]
           n == Len(mig)
<1>1. /\ IsSeq(parts) /\ Len(parts) = n /\ n \in Nat
      /\ \A i \in 1..n : parts[i] = RenderMIGInstance(mig, i)
  <2>1. parts = [i \in DOMAIN mig |-> parts[i]] /\ IsSeq(mig)
    BY DEF DistinctMIG
  <2>2. IsSeq(parts) /\ Len(parts) = n /\ n \in Nat /\ DOMAIN mig = 1..n
    <3> HIDE DEF parts, n
    <3> QED BY <2>1, PartsOfItems DEF n
  <2> QED BY <2>2
<1> HIDE DEF parts
<1>2. ASSUME NEW i \in 1..n
      PROVE  /\ IsSeq(parts[i]) /\ Unique(parts[i])
             /\ \A x \in ToSet(parts[i]) :
                  /\ OfNoField(x)
                  /\ \/ InstanceInfo(x, mig[i])
                     \/ ~Emitted(mig, i) /\ InstanceUse(x, mig[i])
  <2>1. mig[i].memory \in BOOLEAN /\ mig[i].utilization \in BOOLEAN
    BY DEF DistinctMIG
  <2> QED BY <1>1, <2>1, InstanceRendered
<1>3. ASSUME NEW x, NEW y, NEW i, NEW j, InstanceInfo(x, mig[i]), InstanceUse(y, mig[j])
      PROVE  x.name # y.name
  BY <1>3, MigNamesAre DEF InstanceInfo, InstanceUse
<1>4. ASSUME NEW i \in 1..n, NEW j \in 1..n, i < j PROVE Apart(parts[i], parts[j])
  <2> SUFFICES ASSUME NEW x \in ToSet(parts[i]), NEW y \in ToSet(parts[j]),
                      x.name = y.name, x.labels = y.labels
               PROVE  FALSE
    BY DEF Apart, SameSeries
  <2>1. CASE InstanceInfo(x, mig[i]) /\ InstanceInfo(y, mig[j])
    <3>1. /\ x.labels[1] = mig[i].parent /\ y.labels[1] = mig[j].parent
          /\ x.labels[3] = mig[i].gi /\ y.labels[3] = mig[j].gi
          /\ x.labels[4] = mig[i].ci /\ y.labels[4] = mig[j].ci
      <4>1. ASSUME NEW z, NEW it, InstanceInfo(z, it)
            PROVE  z.labels[1] = it.parent /\ z.labels[3] = it.gi /\ z.labels[4] = it.ci
        BY <4>1 DEF InstanceInfo
      <4> QED BY <2>1, <4>1
    <3>2. i # j
      BY <1>4
    <3> QED BY <3>1, <3>2 DEF DistinctMIG
  <2>2. CASE InstanceInfo(x, mig[i]) /\ InstanceUse(y, mig[j])
    BY <1>3, <2>2
  <2>3. CASE InstanceUse(x, mig[i]) /\ InstanceInfo(y, mig[j])
    BY <1>3, <2>3
  <2>4. CASE InstanceUse(x, mig[i]) /\ InstanceUse(y, mig[j]) /\ ~Emitted(mig, j)
    <3>1. /\ x.labels[1] = mig[i].parent /\ y.labels[1] = mig[j].parent
          /\ x.labels[2] = mig[i].gi /\ y.labels[2] = mig[j].gi
      <4>1. ASSUME NEW z, NEW it, InstanceUse(z, it)
            PROVE  z.labels[1] = it.parent /\ z.labels[2] = it.gi
        BY <4>1 DEF InstanceUse
      <4> QED BY <2>4, <4>1
    <3>2. i \in 1..(j - 1)
      BY <1>1, <1>4
    <3> QED BY <2>4, <3>1, <3>2 DEF Emitted
  <2> QED BY <1>2, <2>1, <2>2, <2>3, <2>4
<1>5. ASSUME NEW i \in 1..n, NEW j \in 1..n, i # j PROVE Apart(parts[i], parts[j])
  <2>1. i < j \/ j < i
    BY <1>1, <1>5
  <2>2. CASE i < j
    BY <1>4, <2>2
  <2>3. CASE j < i
    <3>1. Apart(parts[j], parts[i])
      BY <1>4, <2>3
    <3> QED BY <3>1 DEF Apart, SameSeries
  <2> QED BY <2>1, <2>2, <2>3
<1> HIDE DEF n
<1>6. /\ IsSeq(FlattenSeq(parts)) /\ Unique(FlattenSeq(parts))
      /\ \A x : x \in ToSet(FlattenSeq(parts))
                  <=> \E i \in 1..Len(parts) : x \in ToSet(parts[i])
  BY <1>1, <1>2, <1>5, EachSeries
<1>7. ASSUME NEW x \in ToSet(FlattenSeq(parts)) PROVE x.name \in MigNames /\ OfNoField(x)
  BY <1>1, <1>2, <1>6 DEF InstanceInfo, InstanceUse, MigNames
<1> QED BY <1>6, <1>7 DEF parts

(* The series of each GPU of a list without repetitions.                   *)
LEMMA EnergyRendered ==
  ASSUME NEW uuids, IsSeq(uuids), IsInjective(uuids)
  PROVE  LET series == FlattenSeq([i \in DOMAIN uuids |->
                                     Emit("energy_joules_total", <<uuids[i]>>, <<>>)])
         IN  /\ IsSeq(series) /\ Unique(series)
             /\ \A x \in ToSet(series) : x.name = "energy_joules_total" /\ OfNoField(x)
<1> DEFINE parts == [i \in DOMAIN uuids |->
                       Emit("energy_joules_total", <<uuids[i]>>, <<>>)]
           n == Len(uuids)
<1>1. /\ IsSeq(parts) /\ Len(parts) = n /\ DOMAIN uuids = 1..n
      /\ \A i \in 1..n : parts[i] = Emit("energy_joules_total", <<uuids[i]>>, <<>>)
  <2>1. parts = [i \in DOMAIN uuids |-> parts[i]]
    OBVIOUS
  <2>2. IsSeq(parts) /\ Len(parts) = n /\ DOMAIN uuids = 1..n
    <3> HIDE DEF parts, n
    <3> QED BY <2>1, PartsOfItems DEF n
  <2> QED BY <2>2
<1> HIDE DEF parts, n
<1>2. ASSUME NEW i \in 1..n
      PROVE  /\ IsSeq(parts[i]) /\ Unique(parts[i])
             /\ \A x \in ToSet(parts[i]) :
                  x.name = "energy_joules_total" /\ x.labels = <<uuids[i]>> /\ OfNoField(x)
  <2> DEFINE labels == <<uuids[i]>>
  <2>1. parts[i] = Emit("energy_joules_total", labels, <<>>)
    BY <1>1
  <2> HIDE DEF labels
  <2>2. /\ IsSeq(parts[i]) /\ Unique(parts[i])
        /\ \A x \in ToSet(parts[i]) :
             x.name = "energy_joules_total" /\ x.labels = labels /\ OfNoField(x)
    BY <2>1, EmitSeries DEF OfNoField
  <2> QED BY <2>2 DEF labels
<1>3. ASSUME NEW i \in 1..n, NEW j \in 1..n, i # j PROVE Apart(parts[i], parts[j])
  <2>1. uuids[i] # uuids[j]
    BY <1>1, <1>3 DEF IsInjective
  <2> QED BY <1>2, <2>1 DEF Apart, SameSeries
<1>4. /\ IsSeq(FlattenSeq(parts)) /\ Unique(FlattenSeq(parts))
      /\ \A x : x \in ToSet(FlattenSeq(parts))
                  <=> \E i \in 1..Len(parts) : x \in ToSet(parts[i])
  BY <1>1, <1>2, <1>3, EachSeries
<1>5. \A x \in ToSet(FlattenSeq(parts)) :
        x.name = "energy_joules_total" /\ OfNoField(x)
  BY <1>1, <1>2, <1>4
<1> QED BY <1>4, <1>5 DEF parts

(* Each GPU that has PCIe counters gives its two series once.              *)
LEMMA PcieRendered ==
  ASSUME NEW uuids, IsSeq(uuids), IsInjective(uuids)
  PROVE  LET series == FlattenSeq([i \in DOMAIN uuids |->
                 Emit("pcie_throughput_tx_bytes_per_second", <<uuids[i]>>, <<>>)
                 \o Emit("pcie_throughput_rx_bytes_per_second", <<uuids[i]>>, <<>>)])
         IN  /\ IsSeq(series) /\ Unique(series)
             /\ \A x \in ToSet(series) : x.name \in PcieNames /\ OfNoField(x)
<1> DEFINE tx(uuid) == Emit("pcie_throughput_tx_bytes_per_second", <<uuid>>, <<>>)
           rx(uuid) == Emit("pcie_throughput_rx_bytes_per_second", <<uuid>>, <<>>)
           parts == [i \in DOMAIN uuids |-> tx(uuids[i]) \o rx(uuids[i])]
           n == Len(uuids)
<1>1. /\ IsSeq(parts) /\ Len(parts) = n /\ DOMAIN uuids = 1..n
      /\ \A i \in 1..n : parts[i] = tx(uuids[i]) \o rx(uuids[i])
  <2>1. parts = [i \in DOMAIN uuids |-> parts[i]]
    OBVIOUS
  <2>2. IsSeq(parts) /\ Len(parts) = n /\ DOMAIN uuids = 1..n
    <3> HIDE DEF parts, n
    <3> QED BY <2>1, PartsOfItems DEF n
  <2> QED BY <2>2
<1> HIDE DEF parts, n
<1>2. ASSUME NEW i \in 1..n
      PROVE  /\ IsSeq(parts[i]) /\ Unique(parts[i])
             /\ \A x \in ToSet(parts[i]) :
                  x.name \in PcieNames /\ x.labels = <<uuids[i]>> /\ OfNoField(x)
  <2> DEFINE a == tx(uuids[i])
             b == rx(uuids[i])
  <2>1. /\ IsSeq(a) /\ Unique(a) /\ OnlyNamed(a, {"pcie_throughput_tx_bytes_per_second"})
        /\ \A x \in ToSet(a) : x.labels = <<uuids[i]>> /\ OfNoField(x)
    BY EmitSeries DEF OnlyNamed, OfNoField
  <2>2. /\ IsSeq(b) /\ Unique(b) /\ OnlyNamed(b, {"pcie_throughput_rx_bytes_per_second"})
        /\ \A x \in ToSet(b) : x.labels = <<uuids[i]>> /\ OfNoField(x)
    BY EmitSeries DEF OnlyNamed, OfNoField
  <2>3. parts[i] = a \o b
    BY <1>1
  <2> HIDE DEF a, b
  <2>4. Apart(a, b)
    BY <2>1, <2>2, ApartByName
  <2>5. /\ IsSeq(a \o b) /\ Unique(a \o b)
        /\ \A x : x \in ToSet(a \o b) <=> x \in ToSet(a) \/ x \in ToSet(b)
    BY <2>1, <2>2, <2>4, TwoSeries
  <2> QED BY <2>1, <2>2, <2>3, <2>5 DEF OnlyNamed, PcieNames
<1> HIDE DEF tx, rx
<1>3. ASSUME NEW i \in 1..n, NEW j \in 1..n, i # j PROVE Apart(parts[i], parts[j])
  <2>1. uuids[i] # uuids[j]
    BY <1>1, <1>3 DEF IsInjective
  <2> QED BY <1>2, <2>1 DEF Apart, SameSeries
<1>4. /\ IsSeq(FlattenSeq(parts)) /\ Unique(FlattenSeq(parts))
      /\ \A x : x \in ToSet(FlattenSeq(parts))
                  <=> \E i \in 1..Len(parts) : x \in ToSet(parts[i])
  BY <1>1, <1>2, <1>3, EachSeries
<1>5. \A x \in ToSet(FlattenSeq(parts)) : x.name \in PcieNames /\ OfNoField(x)
  BY <1>1, <1>2, <1>4
<1> QED BY <1>4, <1>5 DEF parts, tx, rx

(* What switches the features are.                                         *)
FeatureFlags(features) ==
  /\ features.apps \in BOOLEAN /\ features.migLabels \in BOOLEAN
  /\ features.pcie \in BOOLEAN /\ features.energy \in BOOLEAN
  /\ features.mig \in BOOLEAN /\ features.xids \in BOOLEAN
  /\ features.exitCode \in ExitCodeNames

ExtraSeries(x, features) ==
  /\ OfNoField(x)
  /\ \/ features.pcie /\ x.name \in PcieNames
     \/ features.energy /\ x.name = "energy_joules_total"
     \/ features.mig /\ x.name \in MigNames

(* The series of the extra collectors are each there once.                 *)
LEMMA ExtrasRendered ==
  ASSUME NEW s, IsSeq(s.pcie), IsInjective(s.pcie),
         IsSeq(s.energy), IsInjective(s.energy), DistinctMIG(s.mig),
         NEW features, FeatureFlags(features)
  PROVE  /\ IsSeq(RenderExtras(s, features)) /\ Unique(RenderExtras(s, features))
         /\ \A x \in ToSet(RenderExtras(s, features)) : ExtraSeries(x, features)
<1> DEFINE pcie == FlattenSeq([i \in DOMAIN s.pcie |->
                     Emit("pcie_throughput_tx_bytes_per_second", <<s.pcie[i]>>, <<>>)
                     \o Emit("pcie_throughput_rx_bytes_per_second", <<s.pcie[i]>>, <<>>)])
           energy == FlattenSeq([i \in DOMAIN s.energy |->
                     Emit("energy_joules_total", <<s.energy[i]>>, <<>>)])
           mig == FlattenSeq([i \in DOMAIN s.mig |-> RenderMIGInstance(s.mig, i)])
           a == When(features.pcie, pcie)
           b == When(features.energy, energy)
           c == When(features.mig, mig)
<1>1. RenderExtras(s, features) = a \o b \o c
  BY DEF RenderExtras, ForEach
<1>2. features.pcie \in BOOLEAN /\ features.energy \in BOOLEAN /\ features.mig \in BOOLEAN
  BY DEF FeatureFlags
<1>3. /\ IsSeq(pcie) /\ Unique(pcie)
      /\ \A x \in ToSet(pcie) : x.name \in PcieNames /\ OfNoField(x)
  <2> DEFINE l == s.pcie
  <2>1. IsSeq(l) /\ IsInjective(l)
    OBVIOUS
  <2> HIDE DEF l
  <2>2. LET series == FlattenSeq([i \in DOMAIN l |->
                     Emit("pcie_throughput_tx_bytes_per_second", <<l[i]>>, <<>>)
                     \o Emit("pcie_throughput_rx_bytes_per_second", <<l[i]>>, <<>>)])
        IN  /\ IsSeq(series) /\ Unique(series)
            /\ \A x \in ToSet(series) : x.name \in PcieNames /\ OfNoField(x)
    BY <2>1, PcieRendered
  <2> QED BY <2>2 DEF l
<1>4. /\ IsSeq(energy) /\ Unique(energy)
      /\ \A x \in ToSet(energy) : x.name = "energy_joules_total" /\ OfNoField(x)
  <2> DEFINE l == s.energy
  <2>1. IsSeq(l) /\ IsInjective(l)
    OBVIOUS
  <2> HIDE DEF l
  <2>2. LET series == FlattenSeq([i \in DOMAIN l |->
                     Emit("energy_joules_total", <<l[i]>>, <<>>)])
        IN  /\ IsSeq(series) /\ Unique(series)
            /\ \A x \in ToSet(series) : x.name = "energy_joules_total" /\ OfNoField(x)
    BY <2>1, EnergyRendered
  <2> QED BY <2>2 DEF l
<1>5. /\ IsSeq(mig) /\ Unique(mig)
      /\ \A x \in ToSet(mig) : x.name \in MigNames /\ OfNoField(x)
  <2> DEFINE l == s.mig
  <2>1. DistinctMIG(l)
    OBVIOUS
  <2> HIDE DEF l
  <2>2. LET series == FlattenSeq([i \in DOMAIN l |-> RenderMIGInstance(l, i)])
        IN  /\ IsSeq(series) /\ Unique(series)
            /\ \A x \in ToSet(series) : x.name \in MigNames /\ OfNoField(x)
    BY <2>1, InstancesRendered
  <2> QED BY <2>2 DEF l
<1> HIDE DEF pcie, energy, mig
<1>6. /\ IsSeq(a) /\ Unique(a)
      /\ \A x : x \in ToSet(a) <=> features.pcie /\ x \in ToSet(pcie)
  BY <1>2, <1>3, WhenSeries
<1>7. /\ IsSeq(b) /\ Unique(b)
      /\ \A x : x \in ToSet(b) <=> features.energy /\ x \in ToSet(energy)
  BY <1>2, <1>4, WhenSeries
<1>8. /\ IsSeq(c) /\ Unique(c)
      /\ \A x : x \in ToSet(c) <=> features.mig /\ x \in ToSet(mig)
  BY <1>2, <1>5, WhenSeries
<1> HIDE DEF a, b, c
<1>9. OnlyNamed(a, PcieNames) /\ OnlyNamed(b, {"energy_joules_total"}) /\ OnlyNamed(c, MigNames)
  BY <1>3, <1>4, <1>5, <1>6, <1>7, <1>8 DEF OnlyNamed
<1>10. /\ PcieNames \cap {"energy_joules_total"} = {}
       /\ (PcieNames \cup {"energy_joules_total"}) \cap MigNames = {}
  BY MigNamesAre DEF PcieNames, MigNames
<1> DEFINE ab == a \o b
<1>11. /\ IsSeq(ab) /\ Unique(ab)
       /\ \A x : x \in ToSet(ab) <=> x \in ToSet(a) \/ x \in ToSet(b)
  <2>1. Apart(a, b)
    BY <1>9, <1>10, ApartByName
  <2> QED BY <1>6, <1>7, <2>1, TwoSeries
<1> HIDE DEF ab
<1>12. /\ IsSeq(ab \o c) /\ Unique(ab \o c)
       /\ \A x : x \in ToSet(ab \o c) <=> x \in ToSet(ab) \/ x \in ToSet(c)
  <2>1. OnlyNamed(ab, PcieNames \cup {"energy_joules_total"})
    BY <1>9, <1>11 DEF OnlyNamed
  <2>2. Apart(ab, c)
    BY <1>9, <1>10, <2>1, ApartByName
  <2> QED BY <1>8, <1>11, <2>2, TwoSeries
<1>13. ASSUME NEW x \in ToSet(ab \o c) PROVE ExtraSeries(x, features)
  BY <1>3, <1>4, <1>5, <1>6, <1>7, <1>8, <1>11, <1>12 DEF ExtraSeries
<1> QED BY <1>1, <1>12, <1>13 DEF ab

-----------------------------------------------------------------------------
(* The scrape.                                                             *)

(* A snapshot of a table, processes, devices and GPUs that are each listed *)
(* once.                                                                   *)
SnapshotOf(s, query) ==
  /\ s.attempted \in BOOLEAN /\ s.success \in BOOLEAN /\ s.hasTable \in BOOLEAN
  /\ s.everSucceeded \in BOOLEAN
  /\ s.appsAttempted \in BOOLEAN /\ s.appsSuccess \in BOOLEAN
  /\ TableOf(s.rows, query) /\ DistinctApps(s.apps) /\ DistinctMIG(s.mig)
  /\ IsSeq(s.pcie) /\ IsInjective(s.pcie)
  /\ IsSeq(s.energy) /\ IsInjective(s.energy)

(* Whatever a scrape has is one of these.                                  *)
ScrapeSeries(x, s, counters, infos, features) ==
  \/ HealthSeries(x, s, features)
  \/ features.xids /\ \E i \in 1..Len(counters) : x \in XidSeries(counters[i])
  \/ s.hasTable /\ \E g \in 1..Len(s.rows) : RowSeries(x, UuidOf(s.rows[g]), infos)
  \/ s.hasTable /\ AppsSeries(x, s, features)
  \/ s.hasTable /\ ExtraSeries(x, features)

RowNames(infos) == {"gpu_info"} \cup {infos[q].name : q \in DOMAIN infos}

ExtraNames == PcieNames \cup {"energy_joules_total"} \cup MigNames

(* No two groups of collectors have a name in common.                      *)
LEMMA NamesApart ==
  ASSUME NEW infos, DistinctInfos(infos), NEW features, FeatureFlags(features)
  PROVE  LET health == HealthNames \cup {features.exitCode}
         IN  /\ health \cap XidNames = {}
             /\ (health \cup XidNames) \cap (RowNames(infos) \cup AppNames \cup ExtraNames) = {}
             /\ RowNames(infos) \cap AppNames = {}
             /\ (RowNames(infos) \cup AppNames) \cap ExtraNames = {}
<1> DEFINE health == HealthNames \cup {features.exitCode}
           metrics == {infos[q].name : q \in DOMAIN infos}
<1>1. \A m \in metrics : m \notin reservedMetricNames
  BY DEF DistinctInfos
<1>2. health \subseteq HealthNames \cup ExitCodeNames
  BY DEF FeatureFlags
<1>3. HealthNames \cup ExitCodeNames \cup XidNames \cup AppNames \cup ExtraNames
        \subseteq reservedMetricNames
  BY DEF reservedMetricNames, ExtraNames
<1>4. (HealthNames \cup ExitCodeNames) \cap XidNames = {}
  BY DEF HealthNames, ExitCodeNames, XidNames
<1>5. (HealthNames \cup ExitCodeNames \cup XidNames)
        \cap ({"gpu_info"} \cup AppNames \cup ExtraNames) = {}
  BY MigNamesAre DEF HealthNames, ExitCodeNames, XidNames, AppNames, ExtraNames,
                     PcieNames, MigNames
<1>6. "gpu_info" \notin AppNames /\ ({"gpu_info"} \cup AppNames) \cap ExtraNames = {}
  BY MigNamesAre DEF AppNames, ExtraNames, PcieNames, MigNames
<1> HIDE DEF health, metrics
<1>7. RowNames(infos) = {"gpu_info"} \cup metrics
  BY DEF RowNames, metrics
<1>8. health \cap XidNames = {}
  BY <1>2, <1>4
<1>9. RowNames(infos) \cap AppNames = {}
  BY <1>1, <1>3, <1>6, <1>7
<1>10. (RowNames(infos) \cup AppNames) \cap ExtraNames = {}
  BY <1>1, <1>3, <1>6, <1>7
<1>11. (health \cup XidNames) \cap (RowNames(infos) \cup AppNames \cup ExtraNames) = {}
  BY <1>1, <1>2, <1>3, <1>5, <1>7
<1> QED BY <1>8, <1>9, <1>10, <1>11 DEF health

(* A whole scrape: every series once, each described by what it came from, *)
(* every XID counter there with the feature on, and a count for each GPU   *)
(* whose processes were read.                                              *)
LEMMA ScrapeRendered ==
  ASSUME IsSeq(InfoFields), "uuid" \in ToSet(InfoFields),
         NEW query, IsSeq(query), IsInjective(query),
         NEW s, SnapshotOf(s, query),
         NEW counters, IsSeq(counters), DistinctCounters(counters),
         NEW resolved, NEW features, FeatureFlags(features)
  PROVE  LET scrape == Collect(s, counters, resolved, features)
             infos == BuildQFieldToMetricInfoMap(resolved.returned)
         IN  /\ IsSeq(scrape) /\ Unique(scrape)
             /\ \A x \in ToSet(scrape) : ScrapeSeries(x, s, counters, infos, features)
             /\ features.xids =>
                  \A i \in 1..Len(counters) : XidSeries(counters[i]) \subseteq ToSet(scrape)
             /\ s.hasTable /\ features.apps /\ s.appsAttempted /\ s.appsSuccess =>
                  CountsEach(scrape, s.rows)
<1> DEFINE infos == BuildQFieldToMetricInfoMap(resolved.returned)
           health == RenderHealth(s, features)
           xids == RenderXIDs(counters, features)
           rows == FlattenSeq([g \in DOMAIN s.rows |-> RenderRow(s.rows[g], infos, s.cuda)])
           apps == RenderApps(s, features)
           extras == RenderExtras(s, features)
           table == rows \o apps \o extras
           served == When(s.hasTable, table)
           hx == health \o xids
           hNames == HealthNames \cup {features.exitCode}
           tNames == RowNames(infos) \cup AppNames \cup ExtraNames
<1>1. Collect(s, counters, resolved, features) = hx \o served
  BY DEF Collect, ForEach
<1>2. DistinctInfos(infos)
  BY InfosAreDistinct
<1> HIDE DEF infos
<1>3. /\ hNames \cap XidNames = {}
      /\ (hNames \cup XidNames) \cap tNames = {}
      /\ RowNames(infos) \cap AppNames = {}
      /\ (RowNames(infos) \cup AppNames) \cap ExtraNames = {}
  BY <1>2, NamesApart
<1>4. /\ IsSeq(health) /\ Unique(health) /\ OnlyNamed(health, hNames)
      /\ \A x \in ToSet(health) : HealthSeries(x, s, features)
  <2>1. /\ IsSeq(health) /\ Unique(health)
        /\ \A x \in ToSet(health) : HealthSeries(x, s, features)
    BY HealthRendered DEF SnapshotOf, FeatureFlags
  <2> HIDE DEF health
  <2> QED BY <2>1 DEF HealthSeries, OnlyNamed
<1>5. /\ IsSeq(xids) /\ Unique(xids) /\ OnlyNamed(xids, XidNames)
      /\ \A x : x \in ToSet(xids)
                  <=> features.xids /\ \E i \in 1..Len(counters) : x \in XidSeries(counters[i])
  <2>1. /\ IsSeq(xids) /\ Unique(xids)
        /\ \A x : x \in ToSet(xids)
                    <=> features.xids /\ \E i \in 1..Len(counters) : x \in XidSeries(counters[i])
    BY XIDsRendered DEF FeatureFlags
  <2> HIDE DEF xids
  <2>2. ASSUME NEW c, NEW x \in XidSeries(c) PROVE x.name \in XidNames
    BY DEF XidSeries, XidNames
  <2> QED BY <2>1, <2>2 DEF OnlyNamed
<1>6. /\ IsSeq(rows) /\ Unique(rows) /\ OnlyNamed(rows, RowNames(infos))
      /\ \A x \in ToSet(rows) : \E g \in 1..Len(s.rows) : RowSeries(x, UuidOf(s.rows[g]), infos)
  <2> DEFINE t == s.rows
             cuda == s.cuda
  <2>1. TableOf(t, query)
    BY DEF SnapshotOf
  <2> HIDE DEF t, cuda
  <2>2. LET series == FlattenSeq([g \in DOMAIN t |-> RenderRow(t[g], infos, cuda)])
        IN  /\ IsSeq(series) /\ Unique(series)
            /\ \A x \in ToSet(series) :
                 \E g \in 1..Len(t) : RowSeries(x, UuidOf(t[g]), infos)
    BY <1>2, <2>1, RowsRendered
  <2>3. /\ IsSeq(rows) /\ Unique(rows)
        /\ \A x \in ToSet(rows) : \E g \in 1..Len(s.rows) : RowSeries(x, UuidOf(s.rows[g]), infos)
    BY <2>2 DEF t, cuda
  <2> HIDE DEF rows
  <2> QED BY <2>3 DEF RowSeries, InfoSeries, FieldSeries, RowNames, OnlyNamed
<1>7. /\ IsSeq(apps) /\ Unique(apps) /\ OnlyNamed(apps, AppNames)
      /\ \A x \in ToSet(apps) : AppsSeries(x, s, features)
      /\ features.apps /\ s.appsAttempted /\ s.appsSuccess =>
           CountsEach(apps, s.rows)
  <2>1. /\ IsSeq(s.rows) /\ DistinctApps(s.apps)
        /\ s.appsAttempted \in BOOLEAN /\ s.appsSuccess \in BOOLEAN
        /\ features.apps \in BOOLEAN /\ features.migLabels \in BOOLEAN
    BY DEF SnapshotOf, FeatureFlags, TableOf
  <2>2. /\ IsSeq(apps) /\ Unique(apps)
        /\ \A x \in ToSet(apps) : AppsSeries(x, s, features)
        /\ features.apps /\ s.appsAttempted /\ s.appsSuccess =>
             CountsEach(apps, s.rows)
    BY <2>1, AppsRendered
  <2> HIDE DEF apps
  <2>3. OnlyNamed(apps, AppNames)
    BY <2>2 DEF AppsSeries, OnlyNamed
  <2> QED BY <2>2, <2>3
<1>8. /\ IsSeq(extras) /\ Unique(extras) /\ OnlyNamed(extras, ExtraNames)
      /\ \A x \in ToSet(extras) : ExtraSeries(x, features)
  <2>1. /\ IsSeq(extras) /\ Unique(extras)
        /\ \A x \in ToSet(extras) : ExtraSeries(x, features)
    BY ExtrasRendered DEF SnapshotOf
  <2> HIDE DEF extras
  <2> QED BY <2>1 DEF ExtraSeries, ExtraNames, OnlyNamed
<1> HIDE DEF health, xids, rows, apps, extras
<1> DEFINE ra == rows \o apps
<1>9. /\ IsSeq(ra) /\ Unique(ra)
      /\ \A x : x \in ToSet(ra) <=> x \in ToSet(rows) \/ x \in ToSet(apps)
  <2>1. Apart(rows, apps)
    BY <1>3, <1>6, <1>7, ApartByName
  <2> QED BY <1>6, <1>7, <2>1, TwoSeries
<1>10. table = ra \o extras
  OBVIOUS
<1> HIDE DEF ra, table
<1>11. /\ IsSeq(table) /\ Unique(table)
       /\ \A x : x \in ToSet(table) <=>
            x \in ToSet(rows) \/ x \in ToSet(apps) \/ x \in ToSet(extras)
  <2>1. OnlyNamed(ra, RowNames(infos) \cup AppNames)
    BY <1>6, <1>7, <1>9 DEF OnlyNamed
  <2>2. Apart(ra, extras)
    BY <1>3, <1>8, <2>1, ApartByName
  <2>3. /\ IsSeq(ra \o extras) /\ Unique(ra \o extras)
        /\ \A x : x \in ToSet(ra \o extras) <=> x \in ToSet(ra) \/ x \in ToSet(extras)
    BY <1>8, <1>9, <2>2, TwoSeries
  <2> QED BY <1>9, <1>10, <2>3
<1>12. /\ IsSeq(served) /\ Unique(served)
       /\ \A x : x \in ToSet(served) <=> s.hasTable /\ x \in ToSet(table)
  <2>1. s.hasTable \in BOOLEAN
    BY DEF SnapshotOf
  <2> QED BY <1>11, <2>1, WhenSeries
<1>13. /\ IsSeq(hx) /\ Unique(hx)
       /\ \A x : x \in ToSet(hx) <=> x \in ToSet(health) \/ x \in ToSet(xids)
  <2>1. Apart(health, xids)
    BY <1>3, <1>4, <1>5, ApartByName
  <2> QED BY <1>4, <1>5, <2>1, TwoSeries
<1> HIDE DEF served, hx
<1> DEFINE scrape == hx \o served
<1>14. /\ IsSeq(scrape) /\ Unique(scrape)
       /\ \A x : x \in ToSet(scrape) <=> x \in ToSet(hx) \/ x \in ToSet(served)
  <2>1. OnlyNamed(hx, hNames \cup XidNames)
    BY <1>4, <1>5, <1>13 DEF OnlyNamed
  <2>2. OnlyNamed(served, tNames)
    BY <1>6, <1>7, <1>8, <1>11, <1>12 DEF OnlyNamed
  <2>3. Apart(hx, served)
    <3> HIDE DEF hNames, tNames
    <3> QED BY <1>3, <2>1, <2>2, ApartByName
  <2> QED BY <1>12, <1>13, <2>3, TwoSeries
<1> HIDE DEF scrape, hNames, tNames
<1>15. ASSUME NEW x \in ToSet(scrape)
       PROVE  ScrapeSeries(x, s, counters, infos, features)
  BY <1>4, <1>5, <1>6, <1>7, <1>8, <1>11, <1>12, <1>13, <1>14 DEF ScrapeSeries
<1>16. ASSUME features.xids, NEW i \in 1..Len(counters), NEW x \in XidSeries(counters[i])
       PROVE  x \in ToSet(scrape)
  BY <1>5, <1>13, <1>14, <1>16
<1>17. ASSUME s.hasTable, features.apps, s.appsAttempted, s.appsSuccess
       PROVE  CountsEach(scrape, s.rows)
  BY <1>7, <1>11, <1>12, <1>14, <1>17 DEF CountsEach
<1> QED BY <1>1, <1>14, <1>15, <1>16, <1>17 DEF scrape, infos
=============================================================================
