-------------------------- MODULE EdgeCacheProofs --------------------------
(***************************************************************************)
(* Theorems about EdgeCache, for every set of goroutines, keys, requests   *)
(* and responses and every limit: type correctness with the mutex, that    *)
(* the list, the map and the byte counter agree at every step, what a hit  *)
(* may serve, and that every step is one of an LRU store.                  *)
(***************************************************************************)
EXTENDS EdgeCache, FiniteSetTheorems, SequenceTheorems, WellFoundedInduction, TLAPS

(* The first half of IndexAgrees' second conjunct, and the rest of it, over *)
(* any list and map.                                                        *)
Agree(l, m) ==
    /\ \A i \in DOMAIN l : l[i].key \in DOMAIN m /\ m[l[i].key] = l[i].id
    /\ \A k \in DOMAIN m : \E i \in DOMAIN l : l[i].key = k
    /\ \A i, j \in DOMAIN l : l[i].key = l[j].key /\ l[i].id = l[j].id => i = j

LEMMA AgreeIs == IndexAgrees <=> Agree(ll, items)
BY DEF IndexAgrees, Agree

(* In lists and maps that agree a key has one element. *)
LEMMA OneElement ==
    ASSUME NEW l, NEW m, Agree(l, m), NEW i \in DOMAIN l, NEW j \in DOMAIN l,
           l[i].key = l[j].key
    PROVE  i = j
BY DEF Agree

LEMMA AtFinds ==
    ASSUME IndexAgrees, NEW k \in DOMAIN items
    PROVE  At(k) \in DOMAIN ll /\ ll[At(k)].key = k
<1>1. \E i \in DOMAIN ll : ll[i].key = k /\ ll[i].id = items[k]
  BY DEF IndexAgrees
<1> QED
  BY <1>1 DEF At

-----------------------------------------------------------------------------
(* Sums over finite sets.  The sum of a function over a set takes its       *)
(* elements in the order CHOOSE gives them; what is needed of it is that    *)
(* any element may be taken first.                                          *)

Pick(s) == CHOOSE x \in s : TRUE

(* it is the recursive function behind the sum of f over S. *)
SumsTo(it, f, D) ==
    it = [s \in D |-> IF s = {} THEN 0 ELSE f[Pick(s)] + it[s \ {Pick(s)}]]

(* A set that has 0, and with every number its successor, has them all. *)
LEMMA NatSetInduction ==
    ASSUME NEW N, 0 \in N, \A n \in Nat : n \in N => n + 1 \in N
    PROVE  Nat \subseteq N
<1> DEFINE T == {n \in Nat : n \notin N}
<1> SUFFICES ASSUME T # {}  PROVE FALSE
  OBVIOUS
<1>1. PICK n \in T : \A m \in T : ~(<<m, n>> \in OpToRel(<, Nat))
  <2>1. IsWellFoundedOn(OpToRel(<, Nat), Nat)
    BY NatLessThanWellFounded
  <2>2. T \subseteq Nat
    OBVIOUS
  <2> QED
    BY <2>1, <2>2, WFMin
<1>2. n \in Nat /\ n # 0 /\ n - 1 \in Nat
  OBVIOUS
<1>3. <<n - 1, n>> \in OpToRel(<, Nat)
  BY <1>2 DEF OpToRel
<1>4. n - 1 \in N
  BY <1>1, <1>2, <1>3
<1> QED
  BY <1>2, <1>4

(* A collection that has a subset of a finite set as soon as it has all     *)
(* subsets with one element less has all of them.                           *)
LEMMA SubsetInduction ==
    ASSUME NEW S, IsFiniteSet(S), NEW C,
           \A T \in SUBSET S : (\A x \in T : T \ {x} \in C) => T \in C
    PROVE  SUBSET S \subseteq C
<1> DEFINE N == {n \in Nat : \A T \in SUBSET S : Cardinality(T) = n => T \in C}
<1>1. 0 \in N
  <2> SUFFICES ASSUME NEW T \in SUBSET S, Cardinality(T) = 0  PROVE T \in C
    OBVIOUS
  <2>1. T = {}
    BY FS_Subset, FS_EmptySet
  <2> QED
    BY <2>1
<1>2. ASSUME NEW n \in Nat, n \in N  PROVE n + 1 \in N
  <2> SUFFICES ASSUME NEW T \in SUBSET S, Cardinality(T) = n + 1  PROVE T \in C
    OBVIOUS
  <2>1. ASSUME NEW x \in T  PROVE T \ {x} \in C
    <3>1. IsFiniteSet(T)
      BY FS_Subset
    <3>2. Cardinality(T \ {x}) = Cardinality(T) - 1
      BY <3>1, FS_RemoveElement
    <3> QED
      BY <1>2, <3>2
  <2> QED
    BY <2>1
<1>3. Nat \subseteq N
  <2> HIDE DEF N
  <2> QED
    BY <1>1, <1>2, NatSetInduction
<1> SUFFICES ASSUME NEW T \in SUBSET S  PROVE T \in C
  OBVIOUS
<1>4. Cardinality(T) \in Nat
  BY FS_Subset, FS_CardinalityType
<1> QED
  BY <1>3, <1>4

(* The recursive function over a set and the one over a part of it agree. *)
LEMMA SumsAgree ==
    ASSUME NEW S, IsFiniteSet(S), NEW f, NEW it, NEW jt,
           SumsTo(it, f, SUBSET S), NEW T \in SUBSET S, SumsTo(jt, f, SUBSET T)
    PROVE  jt[T] = it[T]
<1> DEFINE C == {s \in SUBSET T : jt[s] = it[s]}
<1>1. ASSUME NEW s \in SUBSET T, \A x \in s : s \ {x} \in C  PROVE s \in C
  <2>1. CASE s = {}
    BY <2>1 DEF SumsTo
  <2>2. CASE s # {}
    <3>1. Pick(s) \in s
      BY <2>2 DEF Pick
    <3>2. jt[s] = f[Pick(s)] + jt[s \ {Pick(s)}]
      BY <2>2 DEF SumsTo
    <3>3. it[s] = f[Pick(s)] + it[s \ {Pick(s)}]
      BY <2>2 DEF SumsTo
    <3> QED
      BY <1>1, <3>1, <3>2, <3>3
  <2> QED
    BY <2>1, <2>2
<1>2. IsFiniteSet(T)
  BY FS_Subset
<1>3. SUBSET T \subseteq C
  <2> HIDE DEF C
  <2> QED
    BY <1>1, <1>2, SubsetInduction
<1> QED
  BY <1>3

(* There is such a function: built up by the number of elements. *)
LEMMA SumsExist ==
    ASSUME NEW S, IsFiniteSet(S), NEW f
    PROVE  \E it : SumsTo(it, f, SUBSET S)
<1> DEFINE D(n) == {s \in SUBSET S : Cardinality(s) <= n}
           N == {n \in Nat : \E it : SumsTo(it, f, D(n))}
<1>0. ASSUME NEW s \in SUBSET S
      PROVE  /\ IsFiniteSet(s) /\ Cardinality(s) \in Nat
             /\ s # {} => /\ Pick(s) \in s /\ s \ {Pick(s)} \in SUBSET S
                          /\ Cardinality(s \ {Pick(s)}) = Cardinality(s) - 1
             /\ Cardinality(s) = 0 <=> s = {}
  <2>1. IsFiniteSet(s) /\ Cardinality(s) \in Nat
    BY FS_Subset, FS_CardinalityType
  <2>2. s # {} => Pick(s) \in s
    BY DEF Pick
  <2> QED
    BY <2>1, <2>2, FS_RemoveElement, FS_EmptySet
<1>1. 0 \in N
  <2>1. SumsTo([s \in D(0) |-> 0], f, D(0))
    BY <1>0 DEF SumsTo
  <2> QED
    BY <2>1
<1>2. ASSUME NEW n \in Nat, n \in N  PROVE n + 1 \in N
  <2>1. PICK it : SumsTo(it, f, D(n))
    BY <1>2
  <2> DEFINE jt == [s \in D(n + 1) |-> IF s \in D(n) THEN it[s]
                                       ELSE f[Pick(s)] + it[s \ {Pick(s)}]]
  <2>2. ASSUME NEW s \in D(n + 1)
        PROVE  jt[s] = IF s = {} THEN 0 ELSE f[Pick(s)] + jt[s \ {Pick(s)}]
    <3>1. CASE s = {}
      <4>1. {} \in SUBSET S /\ Cardinality({}) = 0
        BY FS_EmptySet
      <4>2. s \in D(n)
        BY <3>1, <4>1
      <4> QED
        BY <3>1, <4>2, <2>1 DEF SumsTo
    <3>2. CASE s # {}
      <4>1. s \ {Pick(s)} \in D(n) /\ s \ {Pick(s)} \in D(n + 1)
        BY <3>2, <1>0
      <4>2. jt[s \ {Pick(s)}] = it[s \ {Pick(s)}]
        BY <4>1
      <4>3. s \in D(n) => it[s] = f[Pick(s)] + it[s \ {Pick(s)}]
        BY <3>2, <2>1 DEF SumsTo
      <4> QED
        BY <3>2, <4>2, <4>3
    <3> QED
      BY <3>1, <3>2
  <2>3. SumsTo(jt, f, D(n + 1))
    BY <2>2 DEF SumsTo
  <2>4. \E kt : SumsTo(kt, f, D(n + 1))
    <3> HIDE DEF D, jt
    <3> QED
      BY <2>3
  <2>5. n + 1 \in Nat
    OBVIOUS
  <2> QED
    <3> HIDE DEF D
    <3> QED
      BY <2>4, <2>5
<1>3. Nat \subseteq N
  <2> HIDE DEF N
  <2> QED
    BY <1>1, <1>2, NatSetInduction
<1>4. Cardinality(S) \in Nat /\ SUBSET S = D(Cardinality(S))
  BY FS_CardinalityType, FS_Subset
<1> QED
  BY <1>3, <1>4

(* SumFunctionOnSet is its value at the whole set. *)
LEMMA SumIsSums ==
    ASSUME NEW S, IsFiniteSet(S), NEW f
    PROVE  \E it : SumsTo(it, f, SUBSET S) /\ SumFunctionOnSet(f, S) = it[S]
<1> DEFINE it == CHOOSE it : SumsTo(it, f, SUBSET S)
<1>1. SumsTo(it, f, SUBSET S)
  BY SumsExist
<1>2. SumFunctionOnSet(f, S) = it[S]
  BY DEF SumFunctionOnSet, FoldFunctionOnSet, MapThenFoldSet, SumsTo, Pick
<1> QED
  BY <1>1, <1>2

(* What the definition of SumFunctionOnSet computes: one step of it. *)
LEMMA SumStep ==
    ASSUME NEW S, IsFiniteSet(S), NEW f
    PROVE  SumFunctionOnSet(f, S) =
             IF S = {} THEN 0 ELSE f[Pick(S)] + SumFunctionOnSet(f, S \ {Pick(S)})
<1>1. PICK it : SumsTo(it, f, SUBSET S) /\ SumFunctionOnSet(f, S) = it[S]
  BY SumIsSums
<1>2. CASE S = {}
  BY <1>1, <1>2 DEF SumsTo
<1>3. CASE S # {}
  <2> DEFINE R == S \ {Pick(S)}
  <2>1. R \in SUBSET S /\ IsFiniteSet(R)
    BY FS_Subset
  <2>2. PICK jt : SumsTo(jt, f, SUBSET R) /\ SumFunctionOnSet(f, R) = jt[R]
    BY <2>1, SumIsSums
  <2>3. jt[R] = it[R]
    <3> HIDE DEF R
    <3> QED
      BY <1>1, <2>1, <2>2, SumsAgree
  <2>4. it[S] = f[Pick(S)] + it[R]
    BY <1>1, <1>3 DEF SumsTo
  <2> QED
    BY <1>1, <1>3, <2>2, <2>3, <2>4
<1> QED
  BY <1>2, <1>3

LEMMA SumType ==
    ASSUME NEW S, IsFiniteSet(S), NEW f, \A x \in S : f[x] \in Int
    PROVE  SumFunctionOnSet(f, S) \in Int
<1> DEFINE C == {s \in SUBSET S : SumFunctionOnSet(f, s) \in Int}
<1>1. ASSUME NEW s \in SUBSET S, \A x \in s : s \ {x} \in C  PROVE s \in C
  <2>1. IsFiniteSet(s)
    BY FS_Subset
  <2>2. s # {} => Pick(s) \in s
    BY DEF Pick
  <2>3. CASE s = {}
    BY <2>1, <2>3, SumStep
  <2>4. CASE s # {}
    <3>1. SumFunctionOnSet(f, s) = f[Pick(s)] + SumFunctionOnSet(f, s \ {Pick(s)})
      BY <2>1, <2>4, SumStep
    <3> QED
      BY <1>1, <2>2, <2>4, <3>1
  <2> QED
    BY <2>3, <2>4
<1>2. SUBSET S \subseteq C
  <2> HIDE DEF C
  <2> QED
    BY <1>1, SubsetInduction
<1> QED
  BY <1>2

(* Any element may be taken first. *)
LEMMA SumRemove ==
    ASSUME NEW S, IsFiniteSet(S), NEW f, \A x \in S : f[x] \in Int, NEW y \in S
    PROVE  SumFunctionOnSet(f, S) = f[y] + SumFunctionOnSet(f, S \ {y})
<1> DEFINE C == {s \in SUBSET S : \A z \in s :
                   SumFunctionOnSet(f, s) = f[z] + SumFunctionOnSet(f, s \ {z})}
<1>1. ASSUME NEW s \in SUBSET S, \A x \in s : s \ {x} \in C  PROVE s \in C
  <2> SUFFICES ASSUME NEW z \in s
               PROVE  SumFunctionOnSet(f, s) = f[z] + SumFunctionOnSet(f, s \ {z})
    OBVIOUS
  <2>0. IsFiniteSet(s)
    BY FS_Subset
  <2> DEFINE x == Pick(s)
  <2>1. x \in s
    BY DEF Pick
  <2>2. SumFunctionOnSet(f, s) = f[x] + SumFunctionOnSet(f, s \ {x})
    BY <2>0, SumStep
  <2>3. CASE x = z
    BY <2>2, <2>3
  <2>4. CASE x # z
    <3> DEFINE r == (s \ {x}) \ {z}
    <3>1. z \in s \ {x} /\ x \in s \ {z} /\ r = (s \ {z}) \ {x}
      BY <2>1, <2>4
    <3>2. SumFunctionOnSet(f, s \ {x}) = f[z] + SumFunctionOnSet(f, r)
      BY <1>1, <2>1, <3>1
    <3>3. SumFunctionOnSet(f, s \ {z}) = f[x] + SumFunctionOnSet(f, r)
      BY <1>1, <3>1
    <3>4. SumFunctionOnSet(f, r) \in Int /\ f[x] \in Int /\ f[z] \in Int
      <4>1. IsFiniteSet(r) /\ \A v \in r : f[v] \in Int
        BY FS_Subset
      <4> QED
        BY <2>1, <4>1, SumType
    <3> QED
      BY <2>2, <3>2, <3>3, <3>4
  <2> QED
    BY <2>3, <2>4
<1>2. SUBSET S \subseteq C
  <2> HIDE DEF C
  <2> QED
    BY <1>1, SubsetInduction
<1> QED
  BY <1>2

(* Two functions that agree through a one-to-one map of the indices have    *)
(* the same sum.                                                            *)
LEMMA SumReindex ==
    ASSUME NEW S, IsFiniteSet(S), NEW f, NEW g, NEW h,
           \A x \in S : f[x] \in Int /\ f[x] = g[h[x]],
           \A x, y \in S : h[x] = h[y] => x = y
    PROVE  SumFunctionOnSet(f, S) = SumFunctionOnSet(g, {h[x] : x \in S})
<1> DEFINE Image(s) == {h[x] : x \in s}
           C == {s \in SUBSET S : SumFunctionOnSet(f, s) = SumFunctionOnSet(g, Image(s))}
<1>1. ASSUME NEW s \in SUBSET S, \A x \in s : s \ {x} \in C  PROVE s \in C
  <2>0. IsFiniteSet(s) /\ IsFiniteSet(Image(s))
    <3>1. IsFiniteSet(s)
      BY FS_Subset
    <3>2. [x \in s |-> h[x]] \in Surjection(s, Image(s))
      BY DEF Surjection
    <3> HIDE DEF Image
    <3> QED
      BY <3>1, <3>2, FS_Surjection
  <2>1. CASE s = {}
    <3>1. Image(s) = {}
      BY <2>1
    <3> QED
      BY <2>0, <2>1, <3>1, SumStep
  <2>2. CASE s # {}
    <3>1. PICK x : x \in s
      BY <2>2
    <3>2. SumFunctionOnSet(f, s) = f[x] + SumFunctionOnSet(f, s \ {x})
      BY <2>0, <3>1, SumRemove
    <3>3. h[x] \in Image(s) /\ \A v \in Image(s) : g[v] \in Int
      BY <3>1
    <3>4. Image(s) \ {h[x]} = Image(s \ {x})
      BY <3>1
    <3>5. SumFunctionOnSet(g, Image(s)) = g[h[x]] + SumFunctionOnSet(g, Image(s) \ {h[x]})
      <4> HIDE DEF Image
      <4> QED
        BY <2>0, <3>3, SumRemove
    <3> QED
      BY <1>1, <3>1, <3>2, <3>4, <3>5
  <2> QED
    BY <2>1, <2>2
<1>2. SUBSET S \subseteq C
  <2> HIDE DEF C
  <2> QED
    BY <1>1, SubsetInduction
<1> QED
  BY <1>2

-----------------------------------------------------------------------------
(* Sequences: cutting one element out, and pushing one to the front. *)

LEMMA CutFacts ==
    ASSUME NEW S, NEW s \in Seq(S), NEW i \in DOMAIN s
    PROVE  /\ Cut(s, i) \in Seq(S) /\ DOMAIN Cut(s, i) = 1 .. Len(s) - 1
           /\ \A j \in 1 .. Len(s) - 1 :
                 Cut(s, i)[j] = s[IF j < i THEN j ELSE j + 1]
<1> DEFINE a == SubSeq(s, 1, i - 1)
           b == SubSeq(s, i + 1, Len(s))
<1>1. i \in 1 .. Len(s) /\ Len(s) \in Nat /\ \A j \in 1 .. Len(s) : s[j] \in S
  OBVIOUS
<1>2. /\ a \in Seq(S) /\ Len(a) = i - 1
      /\ \A j \in 1 .. i - 1 : a[j] = s[j]
  <2>1. 1 \in Int /\ i - 1 \in Int /\ \A j \in 1 .. i - 1 : s[j] \in S
    BY <1>1
  <2>2. /\ a \in Seq(S) /\ Len(a) = IF 1 <= i - 1 THEN i - 1 - 1 + 1 ELSE 0
        /\ \A j \in 1 .. i - 1 - 1 + 1 : a[j] = s[1 + j - 1]
    BY <2>1, SubSeqProperties
  <2> QED
    BY <1>1, <2>2
<1>3. /\ b \in Seq(S) /\ Len(b) = Len(s) - i
      /\ \A j \in 1 .. Len(s) - i : b[j] = s[i + j]
  <2>1. i + 1 \in Int /\ Len(s) \in Int /\ \A j \in i + 1 .. Len(s) : s[j] \in S
    BY <1>1
  <2>2. /\ b \in Seq(S)
        /\ Len(b) = IF i + 1 <= Len(s) THEN Len(s) - (i + 1) + 1 ELSE 0
        /\ \A j \in 1 .. Len(s) - (i + 1) + 1 : b[j] = s[i + 1 + j - 1]
    BY <2>1, SubSeqProperties
  <2> QED
    BY <1>1, <2>2
<1> HIDE DEF a, b
<1>4. /\ a \o b \in Seq(S) /\ Len(a \o b) = Len(s) - 1
      /\ \A j \in 1 .. Len(s) - 1 :
            (a \o b)[j] = IF j <= i - 1 THEN a[j] ELSE b[j - (i - 1)]
  <2>1. /\ a \o b \in Seq(S) /\ Len(a \o b) = Len(a) + Len(b)
        /\ \A j \in 1 .. Len(a) + Len(b) :
              (a \o b)[j] = IF j <= Len(a) THEN a[j] ELSE b[j - Len(a)]
    BY <1>2, <1>3, ConcatProperties
  <2>2. Len(a) + Len(b) = Len(s) - 1 /\ Len(a) = i - 1
    BY <1>1, <1>2, <1>3
  <2> QED
    BY <2>1, <2>2
<1>5. ASSUME NEW j \in 1 .. Len(s) - 1
      PROVE  (a \o b)[j] = s[IF j < i THEN j ELSE j + 1]
  <2>1. CASE j < i
    BY <1>1, <1>2, <1>4, <2>1
  <2>2. CASE ~(j < i)
    <3>1. j - (i - 1) \in 1 .. Len(s) - i /\ i + (j - (i - 1)) = j + 1
          /\ ~(j <= i - 1)
      BY <1>1, <2>2
    <3>2. b[j - (i - 1)] = s[j + 1]
      BY <1>3, <3>1
    <3> QED
      BY <1>4, <2>2, <3>1, <3>2
  <2> QED
    BY <2>1, <2>2
<1>6. DOMAIN (a \o b) = 1 .. Len(s) - 1
  BY <1>4, LenProperties
<1> QED
  BY <1>4, <1>5, <1>6 DEF Cut, a, b

LEMMA PushFacts ==
    ASSUME NEW S, NEW s \in Seq(S), NEW e \in S
    PROVE  /\ <<e>> \o s \in Seq(S) /\ DOMAIN (<<e>> \o s) = 1 .. Len(s) + 1
           /\ (<<e>> \o s)[1] = e
           /\ \A j \in 1 .. Len(s) : (<<e>> \o s)[j + 1] = s[j]
<1>1. <<e>> \in Seq(S) /\ Len(<<e>>) = 1 /\ <<e>>[1] = e /\ Len(s) \in Nat
  OBVIOUS
<1>2. /\ <<e>> \o s \in Seq(S) /\ Len(<<e>> \o s) = 1 + Len(s)
      /\ \A j \in 1 .. 1 + Len(s) :
            (<<e>> \o s)[j] = IF j <= 1 THEN <<e>>[j] ELSE s[j - 1]
  BY <1>1, ConcatProperties
<1>3. DOMAIN (<<e>> \o s) = 1 .. Len(s) + 1
  BY <1>1, <1>2, LenProperties
<1> QED
  BY <1>1, <1>2, <1>3

(* The elements of a list without its i-th one. *)
LEMMA CutElements ==
    ASSUME NEW S, NEW s \in Seq(S), NEW i \in DOMAIN s
    PROVE  /\ \A j \in DOMAIN Cut(s, i) : \E n \in DOMAIN s \ {i} : Cut(s, i)[j] = s[n]
           /\ \A n \in DOMAIN s \ {i} : \E j \in DOMAIN Cut(s, i) : Cut(s, i)[j] = s[n]
<1>1. DOMAIN s = 1 .. Len(s) /\ Len(s) \in Nat
  OBVIOUS
<1>2. ASSUME NEW j \in DOMAIN Cut(s, i)
      PROVE  \E n \in DOMAIN s \ {i} : Cut(s, i)[j] = s[n]
  <2> DEFINE n == IF j < i THEN j ELSE j + 1
  <2>1. n \in DOMAIN s \ {i} /\ Cut(s, i)[j] = s[n]
    BY <1>1, <1>2, CutFacts
  <2> QED
    BY <2>1
<1>3. ASSUME NEW n \in DOMAIN s \ {i}
      PROVE  \E j \in DOMAIN Cut(s, i) : Cut(s, i)[j] = s[n]
  <2> DEFINE j == IF n < i THEN n ELSE n - 1
  <2>1. j \in 1 .. Len(s) - 1 /\ n = (IF j < i THEN j ELSE j + 1)
    BY <1>1, <1>3
  <2>2. j \in DOMAIN Cut(s, i) /\ Cut(s, i)[j] = s[n]
    BY <2>1, CutFacts
  <2> QED
    BY <2>2
<1> QED
  BY <1>2, <1>3

-----------------------------------------------------------------------------
(* Lists and maps that agree, before and after. *)

LEMMA AgreeCut ==
    ASSUME NEW l \in Seq(Entry), NEW m, Agree(l, m), NEW i \in DOMAIN l
    PROVE  Agree(Cut(l, i), [j \in DOMAIN m \ {l[i].key} |-> m[j]])
<1> DEFINE c == Cut(l, i)
           d == [j \in DOMAIN m \ {l[i].key} |-> m[j]]
<1>0. DOMAIN l = 1 .. Len(l) /\ Len(l) \in Nat
  OBVIOUS
<1>1. ASSUME NEW j \in DOMAIN c
      PROVE  c[j].key \in DOMAIN d /\ d[c[j].key] = c[j].id
  <2>1. PICK n \in DOMAIN l \ {i} : c[j] = l[n]
    BY <1>1, CutElements
  <2>2. l[n].key # l[i].key
    BY <2>1, OneElement
  <2> QED
    BY <2>1, <2>2 DEF Agree
<1>2. ASSUME NEW k \in DOMAIN d
      PROVE  \E j \in DOMAIN c : c[j].key = k
  <2>1. PICK n \in DOMAIN l : l[n].key = k
    BY <1>2 DEF Agree
  <2>2. n # i
    BY <1>2, <2>1
  <2>3. PICK j \in DOMAIN c : c[j] = l[n]
    BY <2>1, <2>2, CutElements
  <2> QED
    BY <2>1, <2>3
<1>3. ASSUME NEW x \in DOMAIN c, NEW y \in DOMAIN c, c[x].key = c[y].key
      PROVE  x = y
  <2> DEFINE p == IF x < i THEN x ELSE x + 1
             q == IF y < i THEN y ELSE y + 1
  <2>1. x \in 1 .. Len(l) - 1 /\ y \in 1 .. Len(l) - 1
        /\ c[x] = l[p] /\ c[y] = l[q]
    BY <1>3, CutFacts
  <2>2. p \in DOMAIN l /\ q \in DOMAIN l
    BY <1>0, <2>1
  <2>3. p = q
    <3> HIDE DEF p, q, c
    <3> QED
      BY <1>3, <2>1, <2>2, OneElement
  <2> QED
    BY <1>0, <2>1, <2>3
<1> HIDE DEF c, d
<1>4. Agree(c, d)
  BY <1>1, <1>2, <1>3 DEF Agree
<1> QED
  BY <1>4 DEF c, d

LEMMA AgreePush ==
    ASSUME NEW l \in Seq(Entry), NEW m, Agree(l, m), NEW e \in Entry,
           e.key \notin DOMAIN m
    PROVE  Agree(<<e>> \o l, [k \in DOMAIN m \cup {e.key} |->
                                IF k = e.key THEN e.id ELSE m[k]])
<1> DEFINE c == <<e>> \o l
           d == [k \in DOMAIN m \cup {e.key} |-> IF k = e.key THEN e.id ELSE m[k]]
<1>0. DOMAIN l = 1 .. Len(l) /\ Len(l) \in Nat
  OBVIOUS
<1>1. /\ DOMAIN c = 1 .. Len(l) + 1 /\ c[1] = e
      /\ \A j \in 1 .. Len(l) : c[j + 1] = l[j]
  BY PushFacts
<1> HIDE DEF c
<1>2. \A j \in DOMAIN c : j = 1 \/ (j - 1 \in DOMAIN l /\ c[j] = l[j - 1])
  <2> SUFFICES ASSUME NEW j \in DOMAIN c, j # 1
               PROVE  j - 1 \in DOMAIN l /\ c[j] = l[j - 1]
    OBVIOUS
  <2>1. j - 1 \in 1 .. Len(l) /\ (j - 1) + 1 = j
    BY <1>0, <1>1
  <2> QED
    BY <1>0, <1>1, <2>1
<1>3. \A j \in DOMAIN l : l[j].key # e.key
  BY DEF Agree
<1>4. ASSUME NEW j \in DOMAIN c
      PROVE  c[j].key \in DOMAIN d /\ d[c[j].key] = c[j].id
  BY <1>1, <1>2, <1>3 DEF Agree
<1>5. ASSUME NEW k \in DOMAIN d
      PROVE  \E j \in DOMAIN c : c[j].key = k
  <2>1. CASE k = e.key
    BY <1>0, <1>1, <2>1
  <2>2. CASE k # e.key
    <3>1. PICK j \in DOMAIN l : l[j].key = k
      BY <1>5, <2>2 DEF Agree
    <3>2. j + 1 \in DOMAIN c /\ c[j + 1] = l[j]
      BY <1>0, <1>1
    <3> QED
      BY <3>1, <3>2
  <2> QED
    BY <2>1, <2>2
<1>6. ASSUME NEW x \in DOMAIN c, NEW y \in DOMAIN c, c[x].key = c[y].key
      PROVE  x = y
  <2>1. CASE x = 1 \/ y = 1
    BY <1>1, <1>2, <1>3, <1>6, <2>1
  <2>2. CASE x # 1 /\ y # 1
    <3>1. x - 1 = y - 1
      BY <1>2, <1>6, <2>2, OneElement
    <3> QED
      BY <1>1, <3>1
  <2> QED
    BY <2>1, <2>2
<1> HIDE DEF d
<1>7. Agree(c, d)
  BY <1>4, <1>5, <1>6 DEF Agree
<1> QED
  BY <1>7 DEF c, d

(* store: the new element takes the place of the old one of its key.        *)
LEMMA ReplaceKeeps ==
    ASSUME TypeOK, IndexAgrees, NEW e \in Entry, Replace(e)
    PROVE  /\ ll' \in Seq(Entry) /\ Agree(ll', items')
           /\ DOMAIN items' \subseteq Keys
           /\ \A k \in DOMAIN items' : items'[k] \in Nat
           /\ bytes' \in Int
           /\ \A j \in DOMAIN ll' : ll'[j] = e \/ \E i \in DOMAIN ll : ll'[j] = ll[i]
<1> DEFINE k == e.key
<1>0. /\ ll \in Seq(Entry) /\ Agree(ll, items) /\ k \in Keys /\ e.id \in Nat
      /\ e.size \in Nat /\ bytes \in Int
  BY AgreeIs DEF TypeOK, Entry
<1>1. items' = [j \in DOMAIN items \cup {k} |-> IF j = k THEN e.id ELSE items[j]]
  BY DEF Replace
<1>2. /\ DOMAIN items' \subseteq Keys
      /\ \A j \in DOMAIN items' : items'[j] \in Nat
  BY <1>0, <1>1 DEF TypeOK
<1>3. CASE k \notin DOMAIN items
  <2>1. ll' = <<e>> \o ll /\ bytes' = bytes + e.size - 0
    BY <1>3 DEF Replace
  <2>2. ll' \in Seq(Entry) /\ bytes' \in Int
    BY <1>0, <2>1, PushFacts
  <2>3. Agree(ll', items')
    BY <1>0, <1>1, <1>3, <2>1, AgreePush
  <2>4. \A j \in DOMAIN ll' : ll'[j] = e \/ \E i \in DOMAIN ll : ll'[j] = ll[i]
    <3> SUFFICES ASSUME NEW j \in DOMAIN ll', j # 1
                 PROVE  \E i \in DOMAIN ll : ll'[j] = ll[i]
      BY <1>0, <2>1, PushFacts
    <3>1. j - 1 \in 1 .. Len(ll) /\ (j - 1) + 1 = j
      BY <1>0, <2>1, PushFacts
    <3>2. ll'[j] = ll[j - 1]
      BY <1>0, <2>1, <3>1, PushFacts
    <3> QED
      BY <1>0, <3>1, <3>2
  <2> QED
    BY <1>2, <2>2, <2>3, <2>4
<1>4. CASE k \in DOMAIN items
  <2> DEFINE i == At(k)
             c == Cut(ll, i)
             d == [j \in DOMAIN items \ {k} |-> items[j]]
  <2>1. ll' = <<e>> \o c /\ bytes' = bytes + e.size - ll[i].size
    BY <1>4 DEF Replace
  <2>2. i \in DOMAIN ll /\ ll[i].key = k
    BY <1>4, AtFinds
  <2>3. ll[i] \in Entry
    BY <1>0, <2>2
  <2>4. c \in Seq(Entry)
    BY <1>0, <2>2, CutFacts
  <2>5. ll' \in Seq(Entry) /\ bytes' \in Int
    <3>1. ll[i].size \in Nat
      BY <2>3 DEF Entry
    <3> HIDE DEF c, i
    <3> QED
      BY <1>0, <2>1, <2>4, <3>1, PushFacts
  <2>6. Agree(c, d)
    BY <1>0, <2>2, AgreeCut
  <2>7. Agree(ll', items')
    <3>1. k \notin DOMAIN d
      OBVIOUS
    <3>2. items' = [j \in DOMAIN d \cup {k} |-> IF j = k THEN e.id ELSE d[j]]
      BY <1>1, <1>4
    <3> HIDE DEF c, d, i
    <3> QED
      BY <2>1, <2>4, <2>6, <3>1, <3>2, AgreePush
  <2>8. \A j \in DOMAIN c : \E n \in DOMAIN ll : c[j] = ll[n]
    BY <1>0, <2>2, CutElements
  <2>9. \A j \in DOMAIN ll' : ll'[j] = e \/ \E n \in DOMAIN ll : ll'[j] = ll[n]
    <3> HIDE DEF c, d, i
    <3> SUFFICES ASSUME NEW j \in DOMAIN ll', j # 1
                 PROVE  \E n \in DOMAIN ll : ll'[j] = ll[n]
      BY <2>1, <2>4, PushFacts
    <3>1. j - 1 \in 1 .. Len(c) /\ (j - 1) + 1 = j
      BY <2>1, <2>4, PushFacts
    <3>2. ll'[j] = c[j - 1] /\ j - 1 \in DOMAIN c
      BY <2>1, <2>4, <3>1, PushFacts
    <3> QED
      BY <2>8, <3>2
  <2> QED
    BY <1>2, <2>5, <2>7, <2>9
<1> QED
  BY <1>3, <1>4

(* get on an expired entry, and the eviction loop. *)
LEMMA RemoveKeeps ==
    ASSUME TypeOK, IndexAgrees, NEW i \in DOMAIN ll, RemoveElement(i)
    PROVE  /\ ll' \in Seq(Entry) /\ Agree(ll', items')
           /\ DOMAIN items' \subseteq Keys
           /\ \A k \in DOMAIN items' : items'[k] \in Nat
           /\ bytes' \in Int
           /\ \A j \in DOMAIN ll' : \E n \in DOMAIN ll : ll'[j] = ll[n]
<1>0. ll \in Seq(Entry) /\ Agree(ll, items) /\ bytes \in Int
  BY AgreeIs DEF TypeOK
<1>1. /\ ll' = Cut(ll, i) /\ bytes' = bytes - ll[i].size
      /\ items' = [j \in DOMAIN items \ {ll[i].key} |-> items[j]]
  BY DEF RemoveElement, Unmapped
<1>2. ll[i].size \in Nat
  <2>1. ll[i] \in Entry
    BY <1>0
  <2> QED
    BY <2>1 DEF Entry
<1>3. ll' \in Seq(Entry)
  BY <1>0, <1>1, CutFacts
<1>4. Agree(ll', items')
  BY <1>0, <1>1, AgreeCut
<1>5. \A j \in DOMAIN ll' : \E n \in DOMAIN ll : ll'[j] = ll[n]
  BY <1>0, <1>1, CutElements
<1> QED
  BY <1>0, <1>1, <1>2, <1>3, <1>4, <1>5 DEF TypeOK

(* get on a live entry. *)
LEMMA MoveKeeps ==
    ASSUME TypeOK, IndexAgrees, NEW i \in DOMAIN ll, MoveToFront(i),
           UNCHANGED items
    PROVE  /\ ll' \in Seq(Entry) /\ Agree(ll', items')
           /\ \A j \in DOMAIN ll' : \E n \in DOMAIN ll : ll'[j] = ll[n]
<1> DEFINE e == ll[i]
           c == Cut(ll, i)
           d == [j \in DOMAIN items \ {e.key} |-> items[j]]
<1>0. ll \in Seq(Entry) /\ Agree(ll, items)
  BY AgreeIs DEF TypeOK
<1>1. e \in Entry /\ e.key \in DOMAIN items /\ items[e.key] = e.id
  BY <1>0 DEF Agree
<1>2. ll' = <<e>> \o c /\ c \in Seq(Entry) /\ Agree(c, d)
  BY <1>0, AgreeCut, CutFacts DEF MoveToFront
<1>3. \A j \in DOMAIN c : \E n \in DOMAIN ll : c[j] = ll[n]
  BY <1>0, CutElements
<1>d. \A j \in DOMAIN items \ {e.key} : d[j] = items[j]
  OBVIOUS
<1>e. DOMAIN d = DOMAIN items \ {e.key}
  OBVIOUS
<1> HIDE DEF c, d, e
<1>4. ll' \in Seq(Entry)
  BY <1>1, <1>2, PushFacts
<1> DEFINE f == [k \in DOMAIN d \cup {e.key} |-> IF k = e.key THEN e.id ELSE d[k]]
<1>5. Agree(ll', f)
  <2>1. e.key \notin DOMAIN d
    BY <1>e
  <2>2. Agree(<<e>> \o c, f)
    BY <1>1, <1>2, <2>1, AgreePush
  <2> QED
    BY <1>2, <2>2
<1>6. DOMAIN f = DOMAIN items /\ \A k \in DOMAIN items : f[k] = items[k]
  BY <1>1, <1>d, <1>e
<1> HIDE DEF f
<1>7. Agree(ll', items)
  BY <1>5, <1>6 DEF Agree
<1>8. \A j \in DOMAIN ll' : \E n \in DOMAIN ll : ll'[j] = ll[n]
  <2> SUFFICES ASSUME NEW j \in DOMAIN ll', j # 1
               PROVE  \E n \in DOMAIN ll : ll'[j] = ll[n]
    BY <1>1, <1>2, PushFacts DEF e
  <2>1. j - 1 \in 1 .. Len(c) /\ (j - 1) + 1 = j
    BY <1>1, <1>2, PushFacts
  <2>2. ll'[j] = c[j - 1] /\ j - 1 \in DOMAIN c
    BY <1>1, <1>2, <2>1, PushFacts
  <2> QED
    BY <1>3, <2>2
<1> QED
  BY <1>4, <1>7, <1>8

-----------------------------------------------------------------------------
(* The handlers. *)

StoreOK == /\ ll \in Seq(Entry)
           /\ DOMAIN items \subseteq Keys /\ \A k \in DOMAIN items : items[k] \in Nat
           /\ bytes \in Int

HandlersOK ==
    /\ mutex \in Workers \cup {Nobody}
    /\ pc \in [Workers -> PCs]
    /\ want \in [Workers -> Requests \cup {NoRequest}]
    /\ resp \in [Workers -> Responses \cup {NoResponse}]
    /\ made \in [Workers -> Entry \cup {NoEntry}]
    /\ \A w \in Workers :
          /\ pc[w] = "idle" <=> want[w] = NoRequest
          /\ pc[w] \in {"reading", "storing", "evicting"} => resp[w] # NoResponse
          /\ pc[w] \in {"storing", "evicting"} => made[w] # NoEntry
          /\ pc[w] = "evicting" <=> mutex = w
    /\ clock \in [Workers -> Nat]
    /\ now \in 0 .. MaxTime

LEMMA TypeParts == TypeOK <=> StoreOK /\ HandlersOK
BY DEF TypeOK, StoreOK, HandlersOK

(* What an entry says of itself, in the list and while it is being stored.  *)
EntryOK(e) == /\ e.object = e.key
              /\ e.expiresAt = e.storedAt + TTLFromResponse(e.of)

EntriesInv ==
    /\ \A i \in DOMAIN ll : EntryOK(ll[i])
    /\ \A w \in Workers : made[w] # NoEntry => EntryOK(made[w])

CacheInv == TypeOK /\ IndexAgrees /\ EntriesInv

LEMMA NotAValue == /\ NoRequest \notin Requests /\ NoResponse \notin Responses
                   /\ NoEntry \notin Entry
BY CacheAssumption DEF NoRequest, NoResponse, NoEntry, Request, Response, Entry,
                       Methods

(* One handler moves; the others and their mutex stay.                      *)
LEMMA OneMoves ==
    ASSUME HandlersOK, NEW w \in Workers, NEW p \in PCs,
           NEW q \in Requests \cup {NoRequest}, NEW t \in Nat,
           NEW r \in Responses \cup {NoResponse}, NEW e \in Entry \cup {NoEntry},
           pc' = [pc EXCEPT ![w] = p], want' = [want EXCEPT ![w] = q],
           clock' = [clock EXCEPT ![w] = t], resp' = [resp EXCEPT ![w] = r],
           made' = [made EXCEPT ![w] = e], now' = now,
           mutex' \in Workers \cup {Nobody},
           \A v \in Workers \ {w} : mutex' = v <=> mutex = v,
           p = "idle" <=> q = NoRequest,
           p \in {"reading", "storing", "evicting"} => r # NoResponse,
           p \in {"storing", "evicting"} => e # NoEntry,
           p = "evicting" <=> mutex' = w
    PROVE  HandlersOK'
<1>1. /\ pc' \in [Workers -> PCs]
      /\ want' \in [Workers -> Requests \cup {NoRequest}]
      /\ clock' \in [Workers -> Nat]
      /\ resp' \in [Workers -> Responses \cup {NoResponse}]
      /\ made' \in [Workers -> Entry \cup {NoEntry}]
  BY DEF HandlersOK
<1>2. /\ pc'[w] = p /\ want'[w] = q /\ resp'[w] = r /\ made'[w] = e
      /\ \A v \in Workers \ {w} : /\ pc'[v] = pc[v] /\ want'[v] = want[v]
                                    /\ resp'[v] = resp[v] /\ made'[v] = made[v]
  BY DEF HandlersOK
<1>3. ASSUME NEW v \in Workers
      PROVE  /\ pc'[v] = "idle" <=> want'[v] = NoRequest
             /\ pc'[v] \in {"reading", "storing", "evicting"} => resp'[v] # NoResponse
             /\ pc'[v] \in {"storing", "evicting"} => made'[v] # NoEntry
             /\ pc'[v] = "evicting" <=> mutex' = v
  <2>1. CASE v = w
    BY <1>2, <2>1
  <2>2. CASE v # w
    BY <1>2, <2>2 DEF HandlersOK
  <2> QED
    BY <2>1, <2>2
<1> QED
  BY <1>1, <1>3 DEF HandlersOK

(* A handler that answers, and one that goes on with what it has.           *)
LEMMA DoneMoves ==
    ASSUME HandlersOK, NEW w \in Workers, NEW a, Done(w, a), now' = now,
           mutex' \in Workers \cup {Nobody}, mutex' # w,
           \A v \in Workers \ {w} : mutex' = v <=> mutex = v
    PROVE  HandlersOK'
<1>1. /\ pc' = [pc EXCEPT ![w] = "idle"] /\ want' = [want EXCEPT ![w] = NoRequest]
      /\ clock' = [clock EXCEPT ![w] = 0] /\ resp' = [resp EXCEPT ![w] = NoResponse]
      /\ made' = [made EXCEPT ![w] = NoEntry]
  BY DEF Done, Goto
<1>2. "idle" \in PCs
  BY DEF PCs
<1> QED
  BY <1>1, <1>2, OneMoves

MutexFor(w, p) ==
    /\ mutex' \in Workers \cup {Nobody}
    /\ \A v \in Workers \ {w} : mutex' = v <=> mutex = v
    /\ p = "evicting" <=> mutex' = w

(* What a handler at p must have at hand. *)
HasFor(p, r, e) ==
    /\ p \in PCs \ {"idle"}
    /\ r \in Responses \cup {NoResponse} /\ e \in Entry \cup {NoEntry}
    /\ p \in {"reading", "storing", "evicting"} => r # NoResponse
    /\ p \in {"storing", "evicting"} => e # NoEntry

LEMMA GotoMoves ==
    ASSUME HandlersOK, NEW w \in Workers, NEW p, Goto(w, p),
           pc[w] # "idle", UNCHANGED <<want, clock, now>>, NEW r, NEW e,
           resp' = [resp EXCEPT ![w] = r], made' = [made EXCEPT ![w] = e],
           MutexFor(w, p), HasFor(p, r, e)
    PROVE  HandlersOK'
<1>1. /\ pc' = [pc EXCEPT ![w] = p] /\ want' = [want EXCEPT ![w] = want[w]]
      /\ clock' = [clock EXCEPT ![w] = clock[w]]
  BY DEF Goto, HandlersOK
<1>2. /\ want[w] \in Requests \cup {NoRequest} /\ want[w] # NoRequest
      /\ clock[w] \in Nat
  BY DEF HandlersOK
<1>3. /\ p \in PCs /\ p # "idle"
      /\ r \in Responses \cup {NoResponse} /\ e \in Entry \cup {NoEntry}
      /\ p \in {"reading", "storing", "evicting"} => r # NoResponse
      /\ p \in {"storing", "evicting"} => e # NoEntry
  BY DEF HasFor
<1>4. /\ mutex' \in Workers \cup {Nobody}
      /\ \A v \in Workers \ {w} : mutex' = v <=> mutex = v
      /\ p = "evicting" <=> mutex' = w
  BY DEF MutexFor
<1>5. p = "idle" <=> want[w] = NoRequest
  BY <1>2, <1>3
<1> QED
  BY <1>1, <1>2, <1>3, <1>4, <1>5, OneMoves

(* The entries of the handlers.                                             *)
LEMMA MadeKept ==
    ASSUME HandlersOK, EntriesInv, NEW w \in Workers, NEW e,
           made' = [made EXCEPT ![w] = e], e # NoEntry => EntryOK(e),
           \A j \in DOMAIN ll' : EntryOK(ll'[j])
    PROVE  EntriesInv'
<1>1. \A v \in Workers : made'[v] = e \/ made'[v] = made[v]
  BY DEF HandlersOK
<1> QED
  BY <1>1 DEF EntriesInv, EntryOK

LEMMA SecondsPositive ==
    ASSUME NEW d \in Directive
    PROVE  Seconds(d) \in Nat /\ (Seconds(d) > 0 => d \in Nat)
BY DEF Directive, Seconds

LEMMA TTLType ==
    ASSUME NEW r \in Responses
    PROVE  TTLFromResponse(r) \in Int
<1>1. r.sMaxAge \in Directive /\ r.maxAge \in Directive
  BY CacheAssumption DEF Response
<1>2. \A n \in Nat : Duration(n) \in Int
  BY CacheAssumption DEF Duration
<1>3. CASE Seconds(r.sMaxAge) > 0
  BY <1>1, <1>2, <1>3, SecondsPositive DEF TTLFromResponse
<1>4. CASE ~(Seconds(r.sMaxAge) > 0) /\ Seconds(r.maxAge) > 0
  BY <1>1, <1>2, <1>4, SecondsPositive DEF TTLFromResponse
<1>5. CASE ~(Seconds(r.sMaxAge) > 0) /\ ~(Seconds(r.maxAge) > 0)
  BY <1>5, CacheAssumption DEF TTLFromResponse
<1> QED
  BY <1>3, <1>4, <1>5

(* The entry store makes.                                                   *)
LEMMA NewEntryOK ==
    ASSUME HandlersOK, StoreOK, NEW w \in Workers, pc[w] = "reading",
           NEW n \in FreshIds(StoreKey(w))
    PROVE  NewEntry(w, n) \in Entry /\ EntryOK(NewEntry(w, n))
<1>1. want[w] \in Requests /\ resp[w] \in Responses
  BY DEF HandlersOK
<1>2. want[w].key \in Keys /\ resp[w].size \in Nat
  BY <1>1, CacheAssumption DEF Request, Response
<1>3. StoreKey(w) \in Keys /\ Outgoing[want[w].key] = StoreKey(w)
  BY <1>2, CacheAssumption DEF StoreKey
<1>4. n \in Nat
  <2>1. Len(ll) \in Nat
    BY DEF StoreOK
  <2>2. Cardinality(Workers) \in Nat
    BY CacheAssumption, FS_CardinalityType
  <2> QED
    BY <2>1, <2>2 DEF FreshIds
<1>5. now \in Nat /\ TTLFromResponse(resp[w]) \in Int
  BY <1>1, TTLType, CacheAssumption DEF HandlersOK
<1>6. now + TTLFromResponse(resp[w]) \in Int
  BY <1>5
<1> DEFINE e == NewEntry(w, n)
<1>7. /\ e.key = StoreKey(w) /\ e.object = StoreKey(w) /\ e.storedAt = now
      /\ e.expiresAt = now + TTLFromResponse(resp[w]) /\ e.of = resp[w]
  BY <1>3 DEF NewEntry
<1>8. e \in Entry
  BY <1>1, <1>2, <1>3, <1>4, <1>5, <1>6 DEF NewEntry, Entry
<1> HIDE DEF e
<1>9. EntryOK(e)
  BY <1>7 DEF EntryOK
<1> QED
  BY <1>8, <1>9 DEF e

-----------------------------------------------------------------------------
(* The steps. *)

(* A step that leaves the cache alone. *)
LEMMA CacheKept ==
    ASSUME CacheInv, UNCHANGED cache, HandlersOK',
           NEW w \in Workers, NEW e, made' = [made EXCEPT ![w] = e],
           e # NoEntry => EntryOK(e)
    PROVE  CacheInv'
<1>1. StoreOK /\ HandlersOK
  BY TypeParts DEF CacheInv
<1>2. StoreOK'
  BY <1>1 DEF StoreOK, cache
<1>3. IndexAgrees'
  BY DEF CacheInv, IndexAgrees, cache
<1>4. \A j \in DOMAIN ll' : EntryOK(ll'[j])
  BY DEF CacheInv, EntriesInv, cache
<1>5. EntriesInv'
  BY <1>1, <1>4, MadeKept DEF CacheInv
<1>6. TypeOK'
  BY <1>2, TypeParts, PTL
<1> QED
  BY <1>3, <1>5, <1>6 DEF CacheInv

(* A step that changes it. *)
LEMMA CacheChanged ==
    ASSUME CacheInv, StoreOK', HandlersOK', Agree(ll', items'),
           NEW w \in Workers, NEW e, made' = [made EXCEPT ![w] = e],
           e # NoEntry => EntryOK(e),
           \A j \in DOMAIN ll' : EntryOK(ll'[j])
    PROVE  CacheInv'
<1>1. HandlersOK /\ EntriesInv
  BY TypeParts DEF CacheInv
<1>2. IndexAgrees'
  BY DEF IndexAgrees, Agree
<1>3. EntriesInv'
  BY <1>1, MadeKept
<1>4. TypeOK'
  BY TypeParts, PTL
<1> QED
  BY <1>2, <1>3, <1>4 DEF CacheInv

LEMMA ArriveKeeps ==
    ASSUME CacheInv, NEW w \in Workers, NEW q \in Requests, Arrive(w, q)
    PROVE  CacheInv'
<1>1. HandlersOK
  BY TypeParts DEF CacheInv
<1>2. PICK p \in {"looking", "missed"} : pc' = [pc EXCEPT ![w] = p]
  BY DEF Arrive, Goto
<1>3. /\ want' = [want EXCEPT ![w] = q] /\ clock' = [clock EXCEPT ![w] = now]
      /\ UNCHANGED <<cache, mutex, resp, made, now>> /\ pc[w] = "idle"
  BY DEF Arrive
<1>4. /\ resp' = [resp EXCEPT ![w] = resp[w]] /\ made' = [made EXCEPT ![w] = made[w]]
      /\ resp[w] \in Responses \cup {NoResponse} /\ made[w] \in Entry \cup {NoEntry}
      /\ now \in Nat /\ mutex # w /\ mutex \in Workers \cup {Nobody}
  BY <1>1, <1>3, CacheAssumption DEF HandlersOK
<1>5. /\ p \in PCs
      /\ p \in {"reading", "storing", "evicting"} => resp[w] # NoResponse
      /\ p \in {"storing", "evicting"} => made[w] # NoEntry
  BY DEF PCs
<1>6. p = "idle" <=> q = NoRequest
  BY NotAValue
<1>9. /\ mutex' \in Workers \cup {Nobody}
      /\ \A v \in Workers \ {w} : mutex' = v <=> mutex = v
      /\ p = "evicting" <=> mutex' = w
  BY <1>3, <1>4
<1>7. HandlersOK'
  BY <1>1, <1>2, <1>3, <1>4, <1>5, <1>6, <1>9, OneMoves
<1>8. made[w] # NoEntry => EntryOK(made[w])
  BY DEF CacheInv, EntriesInv
<1> QED
  BY <1>3, <1>4, <1>7, <1>8, CacheKept

LEMMA Untouched ==
    ASSUME CacheInv, NEW w \in Workers
    PROVE  /\ pc = [pc EXCEPT ![w] = pc[w]] /\ want = [want EXCEPT ![w] = want[w]]
           /\ resp = [resp EXCEPT ![w] = resp[w]]
           /\ made = [made EXCEPT ![w] = made[w]]
           /\ resp[w] \in Responses \cup {NoResponse}
           /\ made[w] \in Entry \cup {NoEntry}
           /\ made[w] # NoEntry => EntryOK(made[w])
           /\ mutex \in Workers \cup {Nobody}
<1>1. HandlersOK
  BY TypeParts DEF CacheInv
<1>2. made[w] # NoEntry => EntryOK(made[w])
  BY DEF CacheInv, EntriesInv
<1> QED
  BY <1>1, <1>2 DEF HandlersOK

LEMMA LookupKeeps ==
    ASSUME CacheInv, NEW w \in Workers, Lookup(w)
    PROVE  CacheInv'
<1>1. HandlersOK /\ StoreOK /\ TypeOK /\ IndexAgrees /\ EntriesInv
  BY TypeParts DEF CacheInv
<1>2. pc[w] = "looking" /\ mutex = Nobody /\ UNCHANGED <<mutex, now>>
      /\ mutex # w /\ "missed" \in PCs \ {"idle"}
  BY CacheAssumption DEF Lookup, PCs
<1>m. ASSUME Miss(w)  PROVE HandlersOK' /\ made' = [made EXCEPT ![w] = made[w]]
  <2>1. Goto(w, "missed") /\ UNCHANGED <<want, clock, resp, made>>
    BY <1>m DEF Miss
  <2>2. /\ resp' = [resp EXCEPT ![w] = resp[w]]
        /\ made' = [made EXCEPT ![w] = made[w]]
    BY <2>1, Untouched
  <2>3. MutexFor(w, "missed") /\ HasFor("missed", resp[w], made[w])
    BY <1>2, Untouched DEF MutexFor, HasFor
  <2>4. HandlersOK'
    BY <1>1, <1>2, <2>1, <2>2, <2>3, GotoMoves
  <2> QED
    BY <2>2, <2>4
<1>3. CASE LookupKey(w) \notin DOMAIN items
  <2>1. Miss(w) /\ UNCHANGED cache
    BY <1>3 DEF Lookup
  <2> QED
    BY <1>m, <2>1, Untouched, CacheKept
<1>4. CASE LookupKey(w) \in DOMAIN items
  <2> DEFINE i == At(LookupKey(w))
  <2>1. i \in DOMAIN ll
    BY <1>1, <1>4, AtFinds
  <2>2. \/ RemoveElement(i) /\ Miss(w)
        \/ Hit(w, i)
    BY <1>4 DEF Lookup
  <2> HIDE DEF i
  <2>3. CASE RemoveElement(i) /\ Miss(w)
    <3>1. /\ ll' \in Seq(Entry) /\ Agree(ll', items')
          /\ DOMAIN items' \subseteq Keys
          /\ \A k \in DOMAIN items' : items'[k] \in Nat
          /\ bytes' \in Int
          /\ \A j \in DOMAIN ll' : \E n \in DOMAIN ll : ll'[j] = ll[n]
      BY <1>1, <2>1, <2>3, RemoveKeeps
    <3>2. StoreOK' /\ \A j \in DOMAIN ll' : EntryOK(ll'[j])
      BY <1>1, <3>1 DEF StoreOK, EntriesInv
    <3> QED
      BY <1>m, <2>3, <3>1, <3>2, Untouched, CacheChanged
  <2>4. CASE Hit(w, i)
    <3>1. MoveToFront(i) /\ UNCHANGED <<items, bytes>>
          /\ Done(w, [from |-> "cache", key |-> LookupKey(w)])
      BY <2>4 DEF Hit
    <3>2. /\ ll' \in Seq(Entry) /\ Agree(ll', items')
          /\ \A j \in DOMAIN ll' : \E n \in DOMAIN ll : ll'[j] = ll[n]
      BY <1>1, <2>1, <3>1, MoveKeeps
    <3>3. StoreOK' /\ \A j \in DOMAIN ll' : EntryOK(ll'[j])
      BY <1>1, <3>1, <3>2 DEF StoreOK, EntriesInv
    <3>4. HandlersOK'
      BY <1>1, <1>2, <3>1, Untouched, DoneMoves
    <3>5. made' = [made EXCEPT ![w] = NoEntry]
      BY <3>1 DEF Done
    <3> QED
      BY <3>2, <3>3, <3>4, <3>5, CacheChanged
  <2> QED
    BY <2>2, <2>3, <2>4
<1> QED
  BY <1>3, <1>4

LEMMA RespondKeeps ==
    ASSUME CacheInv, NEW w \in Workers, NEW r \in Responses, Respond(w, r)
    PROVE  CacheInv'
<1>1. HandlersOK
  BY TypeParts DEF CacheInv
<1>2. /\ pc[w] = "missed" /\ UNCHANGED <<cache, mutex, now>> /\ mutex # w
      /\ "reading" \in PCs \ {"idle"} /\ r # NoResponse
  BY <1>1, NotAValue DEF Respond, HandlersOK, PCs
<1>3. CASE Done(w, FromOrigin(r, r.size))
  <2>1. HandlersOK'
    BY <1>1, <1>2, <1>3, Untouched, DoneMoves
  <2>2. made' = [made EXCEPT ![w] = NoEntry]
    BY <1>3 DEF Done
  <2> QED
    BY <1>2, <2>1, <2>2, CacheKept
<1>4. CASE /\ Goto(w, "reading") /\ resp' = [resp EXCEPT ![w] = r]
           /\ UNCHANGED <<want, clock, made>>
  <2>1. made' = [made EXCEPT ![w] = made[w]]
    BY <1>4, Untouched
  <2>2. MutexFor(w, "reading") /\ HasFor("reading", r, made[w])
    BY <1>2, Untouched DEF MutexFor, HasFor
  <2>3. HandlersOK'
    BY <1>1, <1>2, <1>4, <2>1, <2>2, GotoMoves
  <2> QED
    BY <1>2, <2>1, <2>3, Untouched, CacheKept
<1> QED
  BY <1>3, <1>4 DEF Respond

LEMMA ReadKeeps ==
    ASSUME CacheInv, NEW w \in Workers, ReadBody(w) \/ ReadFails(w)
    PROVE  CacheInv'
<1>1. HandlersOK /\ StoreOK
  BY TypeParts DEF CacheInv
<1>2. /\ pc[w] = "reading" /\ UNCHANGED <<cache, mutex, now>> /\ mutex # w
      /\ "storing" \in PCs \ {"idle"} /\ resp[w] # NoResponse
  BY <1>1 DEF ReadBody, ReadFails, HandlersOK, PCs
<1>3. ASSUME NEW a, Done(w, a)  PROVE CacheInv'
  <2>1. HandlersOK'
    BY <1>1, <1>2, <1>3, Untouched, DoneMoves
  <2>2. made' = [made EXCEPT ![w] = NoEntry]
    BY <1>3 DEF Done
  <2> QED
    BY <1>2, <2>1, <2>2, CacheKept
<1>4. ASSUME NEW n \in FreshIds(StoreKey(w)), Make(w, n), Goto(w, "storing"),
             UNCHANGED <<want, clock, resp>>
      PROVE  CacheInv'
  <2> DEFINE e == NewEntry(w, n)
  <2>1. e \in Entry /\ EntryOK(e) /\ e # NoEntry
    BY <1>1, <1>2, NewEntryOK, NotAValue
  <2>2. made' = [made EXCEPT ![w] = e]
    BY <1>4 DEF Make
  <2> HIDE DEF e
  <2>3. resp' = [resp EXCEPT ![w] = resp[w]]
    BY <1>4, Untouched
  <2>5. MutexFor(w, "storing") /\ HasFor("storing", resp[w], e)
    BY <1>2, <2>1, Untouched DEF MutexFor, HasFor
  <2>4. HandlersOK'
    BY <1>1, <1>2, <1>4, <2>2, <2>3, <2>5, GotoMoves
  <2> QED
    BY <1>2, <2>1, <2>2, <2>4, CacheKept
<1> QED
  BY <1>3, <1>4 DEF ReadBody, ReadFails

LEMMA InsertKeeps ==
    ASSUME CacheInv, NEW w \in Workers, Insert(w)
    PROVE  CacheInv'
<1>1. HandlersOK /\ StoreOK /\ TypeOK /\ IndexAgrees /\ EntriesInv
  BY TypeParts DEF CacheInv
<1>2. /\ pc[w] = "storing" /\ mutex = Nobody /\ mutex' = w /\ Replace(made[w])
      /\ Goto(w, "evicting") /\ UNCHANGED <<want, clock, resp, made, now>>
      /\ "evicting" \in PCs \ {"idle"}
  BY DEF Insert, PCs
<1>3. made[w] \in Entry /\ EntryOK(made[w]) /\ resp[w] # NoResponse
      /\ made[w] # NoEntry
  BY <1>1, <1>2 DEF HandlersOK, EntriesInv
<1>4. /\ ll' \in Seq(Entry) /\ Agree(ll', items')
      /\ DOMAIN items' \subseteq Keys
      /\ \A k \in DOMAIN items' : items'[k] \in Nat
      /\ bytes' \in Int
      /\ \A j \in DOMAIN ll' :
            ll'[j] = made[w] \/ \E i \in DOMAIN ll : ll'[j] = ll[i]
  BY <1>1, <1>2, <1>3, ReplaceKeeps
<1>5. StoreOK' /\ \A j \in DOMAIN ll' : EntryOK(ll'[j])
  BY <1>1, <1>3, <1>4 DEF StoreOK, EntriesInv
<1>6. resp' = [resp EXCEPT ![w] = resp[w]] /\ made' = [made EXCEPT ![w] = made[w]]
  BY <1>2, Untouched
<1>7. MutexFor(w, "evicting") /\ HasFor("evicting", resp[w], made[w])
  BY <1>2, <1>3, Untouched, CacheAssumption DEF MutexFor, HasFor
<1>8. HandlersOK'
  BY <1>1, <1>2, <1>6, <1>7, GotoMoves
<1> QED
  BY <1>3, <1>4, <1>5, <1>6, <1>8, CacheChanged

LEMMA LockedKeeps ==
    ASSUME CacheInv, NEW w \in Workers, Locked(w)
    PROVE  CacheInv'
<1>1. HandlersOK /\ StoreOK /\ TypeOK /\ IndexAgrees /\ EntriesInv
  BY TypeParts DEF CacheInv
<1>2. CASE EvictBack(w)
  <2>1. UNCHANGED <<mutex, pc, want, clock, resp, made, now>>
    BY <1>2 DEF EvictBack, handler
  <2>2. HandlersOK' /\ made' = [made EXCEPT ![w] = made[w]]
    BY <1>1, <2>1, Untouched DEF HandlersOK
  <2>3. CASE ll = <<>>
    <3>1. UNCHANGED cache
      BY <1>2, <2>3 DEF EvictBack
    <3> QED
      BY <2>2, <3>1, Untouched, CacheKept
  <2>4. CASE ll # <<>>
    <3>1. RemoveElement(Len(ll)) /\ Len(ll) \in DOMAIN ll
      BY <1>1, <1>2, <2>4 DEF EvictBack, StoreOK
    <3>2. /\ ll' \in Seq(Entry) /\ Agree(ll', items')
          /\ DOMAIN items' \subseteq Keys
          /\ \A k \in DOMAIN items' : items'[k] \in Nat
          /\ bytes' \in Int
          /\ \A j \in DOMAIN ll' : \E n \in DOMAIN ll : ll'[j] = ll[n]
      BY <1>1, <3>1, RemoveKeeps
    <3>3. StoreOK' /\ \A j \in DOMAIN ll' : EntryOK(ll'[j])
      BY <1>1, <3>2 DEF StoreOK, EntriesInv
    <3> QED
      BY <2>2, <3>2, <3>3, Untouched, CacheChanged
  <2> QED
    BY <2>3, <2>4
<1>3. CASE Unlock(w)
  <2>1. /\ pc[w] = "evicting" /\ mutex' = Nobody /\ UNCHANGED <<cache, now>>
        /\ Done(w, FromOrigin(resp[w], ReadUpTo(resp[w])))
    BY <1>3 DEF Unlock
  <2>2. /\ mutex' \in Workers \cup {Nobody} /\ mutex' # w
        /\ \A v \in Workers \ {w} : mutex' = v <=> mutex = v
    BY <1>1, <2>1, CacheAssumption DEF HandlersOK
  <2>3. HandlersOK'
    BY <1>1, <2>1, <2>2, DoneMoves
  <2>4. made' = [made EXCEPT ![w] = NoEntry]
    BY <2>1 DEF Done
  <2> QED
    BY <2>1, <2>3, <2>4, CacheKept
<1> QED
  BY <1>2, <1>3 DEF Locked

LEMMA TickKeeps ==
    ASSUME CacheInv, Tick \/ UNCHANGED vars
    PROVE  CacheInv'
<1>1. HandlersOK /\ StoreOK
  BY TypeParts DEF CacheInv
<1>2. UNCHANGED <<ll, items, bytes, mutex, pc, want, clock, resp, made>>
      /\ \/ now' = now
         \/ now < MaxTime /\ now' = now + 1
  BY DEF Tick, vars, cache, handler
<1>3. now' \in 0 .. MaxTime
  BY <1>1, <1>2, CacheAssumption DEF HandlersOK
<1>4. StoreOK' /\ HandlersOK'
  BY <1>1, <1>2, <1>3 DEF StoreOK, HandlersOK
<1>5. TypeOK'
  BY <1>4, TypeParts, PTL
<1>6. IndexAgrees' /\ EntriesInv'
  BY <1>2 DEF CacheInv, IndexAgrees, EntriesInv
<1> QED
  BY <1>5, <1>6 DEF CacheInv

LEMMA InitCacheInv == Init => CacheInv
<1> SUFFICES ASSUME Init  PROVE CacheInv
  OBVIOUS
<1>1. ll = <<>> /\ <<>> \in Seq(Entry) /\ DOMAIN ll = {} /\ DOMAIN items = {}
  BY DEF Init
<1>2. StoreOK
  BY <1>1 DEF Init, StoreOK
<1>3. HandlersOK
  BY CacheAssumption DEF Init, HandlersOK, PCs
<1>4. TypeOK
  BY <1>2, <1>3, TypeParts
<1>5. IndexAgrees
  BY <1>1 DEF IndexAgrees
<1>6. EntriesInv
  BY <1>1 DEF Init, EntriesInv
<1> QED
  BY <1>4, <1>5, <1>6 DEF CacheInv

LEMMA NextCacheInv == CacheInv /\ [Next]_vars => CacheInv'
<1> SUFFICES ASSUME CacheInv, [Next]_vars  PROVE CacheInv'
  OBVIOUS
<1>1. ASSUME NEW w \in Workers, NEW q \in Requests, Arrive(w, q)  PROVE CacheInv'
  BY <1>1, ArriveKeeps
<1>2. ASSUME NEW w \in Workers, Lookup(w)  PROVE CacheInv'
  BY <1>2, LookupKeeps
<1>3. ASSUME NEW w \in Workers, NEW r \in Responses, Respond(w, r)  PROVE CacheInv'
  BY <1>3, RespondKeeps
<1>4. ASSUME NEW w \in Workers, ReadBody(w) \/ ReadFails(w)  PROVE CacheInv'
  BY <1>4, ReadKeeps
<1>5. ASSUME NEW w \in Workers, Insert(w)  PROVE CacheInv'
  BY <1>5, InsertKeeps
<1>6. ASSUME NEW w \in Workers, Locked(w)  PROVE CacheInv'
  BY <1>6, LockedKeeps
<1>7. CASE Tick \/ UNCHANGED vars
  BY <1>7, TickKeeps
<1> QED
  BY <1>1, <1>2, <1>3, <1>4, <1>5, <1>6, <1>7 DEF Next

LEMMA CacheInvHolds == Spec => []CacheInv
  BY InitCacheInv, NextCacheInv, PTL DEF Spec

-----------------------------------------------------------------------------
(* The cache as an LRU store sees it. *)

(* What an LRU store sees of a list in which a key has one element: the     *)
(* keys, the size of each, the pairs in the order of the list.              *)
KeysOf(l) == {l[i].key : i \in DOMAIN l}

OneEach(l) == \A i, j \in DOMAIN l : l[i].key = l[j].key => i = j

SizeIn(l, k) == IF k \in KeysOf(l) THEN l[CHOOSE i \in DOMAIN l : l[i].key = k].size ELSE 0

Sizes(l) == [k \in Keys |-> SizeIn(l, k)]

Order(l) == {p \in Keys \X Keys :
               \E i, j \in DOMAIN l : i < j /\ p = <<l[i].key, l[j].key>>}

LoadOf(l) == SumFunctionOnSet(Sizes(l), KeysOf(l))

(* What the types say of a list of entries. *)
LEMMA ListFacts ==
    ASSUME NEW l \in Seq(Entry)
    PROVE  /\ DOMAIN l = 1 .. Len(l) /\ Len(l) \in Nat
           /\ \A i \in DOMAIN l : /\ l[i] \in Entry /\ l[i].key \in Keys
                                  /\ l[i].size \in Nat
           /\ KeysOf(l) \subseteq Keys /\ IsFiniteSet(KeysOf(l))
<1>1. DOMAIN l = 1 .. Len(l) /\ Len(l) \in Nat /\ \A i \in DOMAIN l : l[i] \in Entry
  OBVIOUS
<1>2. \A i \in DOMAIN l : l[i].key \in Keys /\ l[i].size \in Nat
  BY <1>1 DEF Entry
<1>3. KeysOf(l) \subseteq Keys
  BY <1>2 DEF KeysOf
<1>4. IsFiniteSet(DOMAIN l)
  BY <1>1, FS_Interval
<1>5. [i \in DOMAIN l |-> l[i].key] \in Surjection(DOMAIN l, KeysOf(l))
  BY DEF Surjection, KeysOf
<1>6. IsFiniteSet(KeysOf(l))
  BY <1>4, <1>5, FS_Surjection
<1> QED
  BY <1>1, <1>2, <1>3, <1>6

(* The size of a key is that of its only element. *)
LEMMA SizeOf ==
    ASSUME NEW l, OneEach(l), NEW i \in DOMAIN l
    PROVE  SizeIn(l, l[i].key) = l[i].size
<1> DEFINE c == CHOOSE j \in DOMAIN l : l[j].key = l[i].key
<1>1. c \in DOMAIN l /\ l[c].key = l[i].key
  OBVIOUS
<1>2. c = i
  BY <1>1 DEF OneEach
<1>3. l[i].key \in KeysOf(l)
  BY DEF KeysOf
<1> QED
  BY <1>2, <1>3 DEF SizeIn

LEMMA SizesType ==
    ASSUME NEW l \in Seq(Entry)
    PROVE  Sizes(l) \in [Keys -> Nat]
<1> SUFFICES ASSUME NEW k \in Keys  PROVE SizeIn(l, k) \in Nat
  BY DEF Sizes
<1>1. CASE k \in KeysOf(l)
  <2>1. (CHOOSE i \in DOMAIN l : l[i].key = k) \in DOMAIN l
    BY <1>1 DEF KeysOf
  <2> QED
    BY <1>1, <2>1, ListFacts DEF SizeIn
<1>2. CASE k \notin KeysOf(l)
  BY <1>2 DEF SizeIn
<1> QED
  BY <1>1, <1>2

(* The list of the cache. *)
(* The variables of the store, from the list alone. *)
View == /\ Held = KeysOf(ll) /\ OneEach(ll) /\ Newer = Order(ll)
        /\ WeightOf = Sizes(ll)

LEMMA ViewIs == IndexAgrees => View
<1> SUFFICES ASSUME IndexAgrees  PROVE View
  OBVIOUS
<1>1. Held = KeysOf(ll)
  BY DEF IndexAgrees, Held, KeysOf
<1>2. OneEach(ll)
  BY AgreeIs, OneElement DEF OneEach
<1>3. ASSUME NEW k \in Keys  PROVE Weight(k) = SizeIn(ll, k)
  <2>1. CASE k \in Held
    <3>1. At(k) \in DOMAIN ll /\ ll[At(k)].key = k
      BY <2>1, AtFinds DEF Held
    <3> QED
      BY <1>2, <2>1, <3>1, SizeOf DEF Weight
  <2>2. CASE k \notin Held
    BY <1>1, <2>2 DEF Weight, SizeIn
  <2> QED
    BY <2>1, <2>2
<1> QED
  BY <1>1, <1>2, <1>3 DEF View, WeightOf, Sizes, Newer, Order

(* What is seen of a list when one element is cut out. *)
LEMMA CutView ==
    ASSUME NEW l \in Seq(Entry), OneEach(l), NEW i \in DOMAIN l
    PROVE  LET c == Cut(l, i)
               k == l[i].key
           IN  /\ c \in Seq(Entry) /\ OneEach(c) /\ KeysOf(c) = KeysOf(l) \ {k}
               /\ Sizes(c) = [Sizes(l) EXCEPT ![k] = 0]
               /\ Order(c) = {p \in Order(l) : p[1] # k /\ p[2] # k}
<1> DEFINE c == Cut(l, i)
           k == l[i].key
           from(j) == IF j < i THEN j ELSE j + 1
           to(n) == IF n < i THEN n ELSE n - 1
<1>0. /\ DOMAIN l = 1 .. Len(l) /\ Len(l) \in Nat /\ i \in Int
      /\ \A n \in DOMAIN l : l[n].key \in Keys /\ l[n].size \in Nat
  BY ListFacts
<1>1. /\ c \in Seq(Entry) /\ DOMAIN c = 1 .. Len(l) - 1
      /\ \A j \in DOMAIN c : c[j] = l[from(j)]
  BY CutFacts
<1> HIDE DEF c
<1>2. \A j \in DOMAIN c : from(j) \in DOMAIN l /\ from(j) # i /\ l[from(j)].key # k
  <2>1. \A j \in DOMAIN c : from(j) \in DOMAIN l /\ from(j) # i
    BY <1>0, <1>1
  <2> HIDE DEF from
  <2> QED
    BY <2>1 DEF OneEach
<1>3. \A n \in DOMAIN l \ {i} : to(n) \in DOMAIN c /\ from(to(n)) = n
  BY <1>0, <1>1
<1>4. \A j, m \in DOMAIN c : (j < m <=> from(j) < from(m)) /\ (from(j) = from(m) => j = m)
  BY <1>0, <1>1
<1>4a. \A n, m \in DOMAIN l \ {i} : n < m => to(n) < to(m)
  BY <1>0
<1> HIDE DEF from, to
<1>5. OneEach(c)
  BY <1>1, <1>2, <1>4 DEF OneEach
<1>6. KeysOf(c) = KeysOf(l) \ {k}
  <2>1. ASSUME NEW j \in DOMAIN c  PROVE c[j].key \in KeysOf(l) \ {k}
    BY <1>1, <1>2 DEF KeysOf
  <2>2. ASSUME NEW n \in DOMAIN l, l[n].key # k  PROVE l[n].key \in KeysOf(c)
    <3>1. to(n) \in DOMAIN c /\ c[to(n)] = l[n]
      BY <1>1, <1>3, <2>2
    <3> QED
      BY <3>1 DEF KeysOf
  <2> QED
    BY <2>1, <2>2 DEF KeysOf
<1>7. ASSUME NEW h \in Keys
      PROVE  SizeIn(c, h) = IF h = k THEN 0 ELSE SizeIn(l, h)
  <2>1. CASE h \in KeysOf(c)
    <3>1. PICK j \in DOMAIN c : c[j].key = h
      BY <2>1 DEF KeysOf
    <3>2. SizeIn(c, h) = c[j].size
      BY <1>5, <3>1, SizeOf
    <3>3. SizeIn(l, h) = l[from(j)].size
      BY <1>1, <1>2, <3>1, SizeOf
    <3> QED
      BY <1>1, <1>2, <3>1, <3>2, <3>3
  <2>2. CASE h \notin KeysOf(c)
    BY <1>6, <2>2 DEF SizeIn
  <2> QED
    BY <2>1, <2>2
<1>8. Sizes(c) = [Sizes(l) EXCEPT ![k] = 0]
  BY <1>7 DEF Sizes
<1>9. Order(c) = {p \in Order(l) : p[1] # k /\ p[2] # k}
  <2>1. ASSUME NEW p \in Order(c)  PROVE p \in Order(l) /\ p[1] # k /\ p[2] # k
    <3>1. PICK j \in DOMAIN c, m \in DOMAIN c : j < m /\ p = <<c[j].key, c[m].key>>
      BY <2>1 DEF Order
    <3>2. from(j) < from(m) /\ p = <<l[from(j)].key, l[from(m)].key>>
      BY <1>1, <1>4, <3>1
    <3>3. p[1] = l[from(j)].key /\ p[2] = l[from(m)].key
      BY <3>2
    <3>4. p \in Keys \X Keys
      BY <2>1 DEF Order
    <3> QED
      BY <1>2, <3>2, <3>3, <3>4 DEF Order
  <2>2. ASSUME NEW p \in Order(l), p[1] # k, p[2] # k  PROVE p \in Order(c)
    <3>1. PICK n \in DOMAIN l, m \in DOMAIN l : n < m /\ p = <<l[n].key, l[m].key>>
      BY <2>2 DEF Order
    <3>2. n # i /\ m # i
      BY <2>2, <3>1
    <3>3. /\ to(n) \in DOMAIN c /\ to(m) \in DOMAIN c /\ to(n) < to(m)
          /\ c[to(n)] = l[n] /\ c[to(m)] = l[m]
      BY <1>1, <1>3, <1>4a, <3>1, <3>2
    <3>4. p \in Keys \X Keys
      BY <2>2 DEF Order
    <3>5. \E j, h \in DOMAIN c : j < h /\ p = <<c[j].key, c[h].key>>
      BY <3>1, <3>3
    <3> QED
      BY <3>4, <3>5 DEF Order
  <2> QED
    BY <2>1, <2>2
<1> QED
  BY <1>1, <1>5, <1>6, <1>8, <1>9 DEF c

(* And when one of another key is pushed to the front. *)
LEMMA PushView ==
    ASSUME NEW l \in Seq(Entry), OneEach(l), NEW e \in Entry, e.key \notin KeysOf(l)
    PROVE  LET c == <<e>> \o l
               k == e.key
           IN  /\ c \in Seq(Entry) /\ OneEach(c) /\ KeysOf(c) = KeysOf(l) \cup {k}
               /\ Sizes(c) = [Sizes(l) EXCEPT ![k] = e.size]
               /\ Order(c) = Order(l) \cup ({k} \X KeysOf(l))
<1> DEFINE c == <<e>> \o l
           k == e.key
<1>0. /\ DOMAIN l = 1 .. Len(l) /\ Len(l) \in Nat /\ k \in Keys
      /\ \A n \in DOMAIN l : l[n].key \in Keys /\ l[n].size \in Nat
      /\ \A n \in DOMAIN l : l[n].key # k
  BY ListFacts DEF Entry, KeysOf
<1>1. /\ c \in Seq(Entry) /\ DOMAIN c = 1 .. Len(l) + 1 /\ c[1] = e
      /\ \A j \in DOMAIN l : c[j + 1] = l[j]
  BY <1>0, PushFacts
<1> HIDE DEF c
<1>2. \A j \in DOMAIN c : j = 1 \/ (j - 1 \in DOMAIN l /\ c[j] = l[j - 1])
  <2> SUFFICES ASSUME NEW j \in DOMAIN c, j # 1
               PROVE  j - 1 \in DOMAIN l /\ c[j] = l[j - 1]
    OBVIOUS
  <2>1. j - 1 \in DOMAIN l /\ (j - 1) + 1 = j
    BY <1>0, <1>1
  <2> QED
    BY <1>1, <2>1
<1>3. 1 \in DOMAIN c /\ \A j \in DOMAIN l : j + 1 \in DOMAIN c /\ 1 < j + 1
  BY <1>0, <1>1
<1>4. OneEach(c)
  <2> SUFFICES ASSUME NEW x \in DOMAIN c, NEW y \in DOMAIN c, c[x].key = c[y].key
               PROVE  x = y
    BY DEF OneEach
  <2>1. CASE x = 1 \/ y = 1
    BY <1>0, <1>1, <1>2, <2>1
  <2>2. CASE x # 1 /\ y # 1
    <3>1. x - 1 = y - 1
      BY <1>2, <2>2 DEF OneEach
    <3> QED
      BY <1>1, <3>1
  <2> QED
    BY <2>1, <2>2
<1>5. KeysOf(c) = KeysOf(l) \cup {k}
  <2>1. \A j \in DOMAIN c : c[j].key \in KeysOf(l) \cup {k}
    BY <1>1, <1>2 DEF KeysOf
  <2>2. \A n \in DOMAIN l : l[n].key \in KeysOf(c)
    BY <1>1, <1>3 DEF KeysOf
  <2>3. k \in KeysOf(c)
    BY <1>1, <1>3 DEF KeysOf
  <2> QED
    BY <2>1, <2>2, <2>3 DEF KeysOf
<1>6. ASSUME NEW h \in Keys
      PROVE  SizeIn(c, h) = IF h = k THEN e.size ELSE SizeIn(l, h)
  <2>1. CASE h = k
    BY <1>1, <1>3, <1>4, <2>1, SizeOf
  <2>2. CASE h # k /\ h \in KeysOf(l)
    <3>1. PICK n \in DOMAIN l : l[n].key = h
      BY <2>2 DEF KeysOf
    <3>2. SizeIn(l, h) = l[n].size
      BY <3>1, SizeOf
    <3>3. SizeIn(c, h) = c[n + 1].size
      BY <1>1, <1>3, <1>4, <3>1, SizeOf
    <3> QED
      BY <1>1, <2>2, <3>2, <3>3
  <2>3. CASE h # k /\ h \notin KeysOf(l)
    BY <1>5, <2>3 DEF SizeIn
  <2> QED
    BY <2>1, <2>2, <2>3
<1>7. Sizes(c) = [Sizes(l) EXCEPT ![k] = e.size]
  BY <1>6 DEF Sizes
<1>8. Order(c) = Order(l) \cup ({k} \X KeysOf(l))
  <2>1. ASSUME NEW p \in Order(c)  PROVE p \in Order(l) \cup ({k} \X KeysOf(l))
    <3>1. PICK j \in DOMAIN c, m \in DOMAIN c : j < m /\ p = <<c[j].key, c[m].key>>
      BY <2>1 DEF Order
    <3>2. m # 1 /\ m - 1 \in DOMAIN l /\ c[m] = l[m - 1]
      BY <1>1, <1>2, <3>1
    <3>3. CASE j = 1
      BY <1>1, <3>1, <3>2, <3>3 DEF KeysOf
    <3>4. CASE j # 1
      <4>1. j - 1 \in DOMAIN l /\ c[j] = l[j - 1] /\ j - 1 < m - 1
        BY <1>1, <1>2, <3>1, <3>4
      <4>2. p \in Keys \X Keys
        BY <2>1 DEF Order
      <4> QED
        BY <3>1, <3>2, <4>1, <4>2 DEF Order
    <3> QED
      BY <3>3, <3>4
  <2>2. ASSUME NEW p \in Order(l)  PROVE p \in Order(c)
    <3>1. PICK n \in DOMAIN l, m \in DOMAIN l : n < m /\ p = <<l[n].key, l[m].key>>
      BY <2>2 DEF Order
    <3>2. n + 1 \in DOMAIN c /\ m + 1 \in DOMAIN c /\ n + 1 < m + 1
      BY <1>0, <1>3, <3>1
    <3>3. p = <<c[n + 1].key, c[m + 1].key>>
      BY <1>1, <3>1
    <3>4. p \in Keys \X Keys
      BY <2>2 DEF Order
    <3> QED
      BY <3>2, <3>3, <3>4 DEF Order
  <2>3. ASSUME NEW h \in KeysOf(l)  PROVE <<k, h>> \in Order(c)
    <3>1. PICK n \in DOMAIN l : l[n].key = h
      BY <2>3 DEF KeysOf
    <3>2. <<k, h>> = <<c[1].key, c[n + 1].key>> /\ <<k, h>> \in Keys \X Keys
      BY <1>0, <1>1, <3>1
    <3> QED
      BY <1>3, <3>2 DEF Order
  <2> QED
    BY <2>1, <2>2, <2>3
<1> QED
  BY <1>1, <1>4, <1>5, <1>7, <1>8 DEF c

(* One weight changes: a sum without it stays, and one with it gains it. *)
LEMMA LoadExcept ==
    ASSUME NEW S, IsFiniteSet(S), NEW f \in [Keys -> Nat], S \subseteq Keys,
           NEW k \in Keys, k \notin S, NEW n \in Nat
    PROVE  /\ SumFunctionOnSet([f EXCEPT ![k] = n], S) = SumFunctionOnSet(f, S)
           /\ SumFunctionOnSet([f EXCEPT ![k] = n], S \cup {k}) = n + SumFunctionOnSet(f, S)
<1> DEFINE g == [f EXCEPT ![k] = n]
           id == [x \in S |-> x]
<1>1. SumFunctionOnSet(g, S) = SumFunctionOnSet(f, {id[x] : x \in S})
  <2>1. \A x \in S : g[x] \in Int /\ g[x] = f[id[x]]
    OBVIOUS
  <2>2. \A x, y \in S : id[x] = id[y] => x = y
    OBVIOUS
  <2> HIDE DEF g, id
  <2> QED
    BY <2>1, <2>2, SumReindex
<1>2. {id[x] : x \in S} = S
  OBVIOUS
<1>3. SumFunctionOnSet(g, S \cup {k}) = g[k] + SumFunctionOnSet(g, (S \cup {k}) \ {k})
  <2>1. IsFiniteSet(S \cup {k})
    BY FS_AddElement
  <2>2. \A x \in S \cup {k} : g[x] \in Int
    OBVIOUS
  <2> HIDE DEF g
  <2> QED
    BY <2>1, <2>2, SumRemove
<1>4. (S \cup {k}) \ {k} = S /\ g[k] = n
  OBVIOUS
<1> QED
  BY <1>1, <1>2, <1>3, <1>4

LEMMA LoadType ==
    ASSUME NEW l \in Seq(Entry)
    PROVE  LoadOf(l) \in Int
<1>1. \A x \in KeysOf(l) : Sizes(l)[x] \in Int
  BY ListFacts, SizesType
<1> QED
  BY <1>1, ListFacts, SumType DEF LoadOf

(* The load of a list goes down by the size of the element cut out. *)
LEMMA CutLoad ==
    ASSUME NEW l \in Seq(Entry), OneEach(l), NEW i \in DOMAIN l
    PROVE  LoadOf(Cut(l, i)) = LoadOf(l) - l[i].size
<1> DEFINE k == l[i].key
           S == KeysOf(l) \ {k}
<1>1. /\ KeysOf(Cut(l, i)) = S /\ Sizes(Cut(l, i)) = [Sizes(l) EXCEPT ![k] = 0]
      /\ k \in KeysOf(l) /\ k \in Keys /\ l[i].size \in Nat
      /\ IsFiniteSet(KeysOf(l)) /\ KeysOf(l) \subseteq Keys /\ IsFiniteSet(S)
  <2>1. IsFiniteSet(S)
    BY ListFacts, FS_Subset
  <2> QED
    BY <2>1, CutView, ListFacts DEF KeysOf
<1>2. Sizes(l) \in [Keys -> Nat] /\ Sizes(l)[k] = l[i].size
  BY <1>1, SizesType, SizeOf DEF Sizes
<1>3. LoadOf(Cut(l, i)) = SumFunctionOnSet(Sizes(l), S)
  <2>1. S \subseteq Keys /\ k \notin S /\ 0 \in Nat
    BY <1>1
  <2> HIDE DEF S, k
  <2>2. SumFunctionOnSet([Sizes(l) EXCEPT ![k] = 0], S) = SumFunctionOnSet(Sizes(l), S)
    BY <1>1, <1>2, <2>1, LoadExcept
  <2> QED
    BY <1>1, <2>2 DEF LoadOf
<1>4. LoadOf(l) = Sizes(l)[k] + SumFunctionOnSet(Sizes(l), S)
  <2>1. \A x \in KeysOf(l) : Sizes(l)[x] \in Int
    BY <1>1, <1>2
  <2> QED
    BY <1>1, <2>1, SumRemove DEF LoadOf
<1>5. SumFunctionOnSet(Sizes(l), S) \in Int
  <2>1. \A x \in S : Sizes(l)[x] \in Int
    BY <1>1, <1>2
  <2> QED
    BY <1>1, <2>1, SumType
<1> QED
  BY <1>1, <1>2, <1>3, <1>4, <1>5

(* And up by the size of the one pushed. *)
LEMMA PushLoad ==
    ASSUME NEW l \in Seq(Entry), OneEach(l), NEW e \in Entry, e.key \notin KeysOf(l)
    PROVE  LoadOf(<<e>> \o l) = LoadOf(l) + e.size
<1>1. /\ KeysOf(<<e>> \o l) = KeysOf(l) \cup {e.key}
      /\ Sizes(<<e>> \o l) = [Sizes(l) EXCEPT ![e.key] = e.size]
  BY PushView
<1>2. /\ e.key \in Keys /\ e.size \in Nat /\ Sizes(l) \in [Keys -> Nat]
      /\ IsFiniteSet(KeysOf(l)) /\ KeysOf(l) \subseteq Keys
  BY ListFacts, SizesType DEF Entry
<1>3. LoadOf(<<e>> \o l) = e.size + LoadOf(l)
  <2>1. SumFunctionOnSet([Sizes(l) EXCEPT ![e.key] = e.size], KeysOf(l) \cup {e.key})
          = e.size + SumFunctionOnSet(Sizes(l), KeysOf(l))
    BY <1>2, LoadExcept
  <2> QED
    BY <1>1, <2>1 DEF LoadOf
<1> QED
  BY <1>2, <1>3, LoadType

(* The load of a list is the sum of the sizes of its elements. *)
LEMMA LoadIsTotal ==
    ASSUME NEW l \in Seq(Entry), OneEach(l)
    PROVE  SumFunction([i \in DOMAIN l |-> l[i].size]) = LoadOf(l)
<1> DEFINE f == [i \in DOMAIN l |-> l[i].size]
           h == [i \in DOMAIN l |-> l[i].key]
<1>1. IsFiniteSet(DOMAIN l) /\ DOMAIN f = DOMAIN l
  BY ListFacts, FS_Interval
<1>2. \A i \in DOMAIN l : f[i] \in Int /\ f[i] = Sizes(l)[h[i]]
  BY ListFacts, SizeOf DEF Sizes
<1>3. \A i, j \in DOMAIN l : h[i] = h[j] => i = j
  BY DEF OneEach
<1>4. {h[i] : i \in DOMAIN l} = KeysOf(l)
  BY DEF KeysOf
<1>5. SumFunction(f) = SumFunctionOnSet(f, DOMAIN l)
  BY <1>1 DEF SumFunction
<1>6. SumFunctionOnSet(f, DOMAIN l) = SumFunctionOnSet(Sizes(l), {h[i] : i \in DOMAIN l})
  <2> DEFINE D == DOMAIN l
             g == Sizes(l)
  <2>1. IsFiniteSet(D) /\ \A i \in D : f[i] \in Int /\ f[i] = g[h[i]]
    BY <1>1, <1>2
  <2>2. \A i, j \in D : h[i] = h[j] => i = j
    BY <1>3
  <2> HIDE DEF f, h, D, g
  <2>3. SumFunctionOnSet(f, D) = SumFunctionOnSet(g, {h[i] : i \in D})
    BY <2>1, <2>2, SumReindex
  <2> QED
    BY <2>3 DEF D, g
<1> QED
  BY <1>4, <1>5, <1>6 DEF LoadOf

-----------------------------------------------------------------------------
(* Its steps, seen that way. *)

(* The part of an order that is not about k. *)
Beside(order, k) == {p \in order : p[1] # k /\ p[2] # k}

(* removeElement, from the outside. *)
LEMMA RemoveView ==
    ASSUME CacheInv, CacheInv', NEW i \in DOMAIN ll, RemoveElement(i)
    PROVE  LET k == ll[i].key
           IN  /\ k \in Keys /\ k \in Held /\ Held' = Held \ {k}
               /\ WeightOf' = [WeightOf EXCEPT ![k] = 0]
               /\ Newer' = Beside(Newer, k)
               /\ bytes' = bytes - ll[i].size /\ ll[i].size \in Nat
               /\ LoadOf(ll') = LoadOf(ll) - ll[i].size
<1>1. ll \in Seq(Entry) /\ IndexAgrees /\ IndexAgrees'
  BY DEF CacheInv, TypeOK
<1>2. /\ Held = KeysOf(ll) /\ OneEach(ll) /\ Newer = Order(ll) /\ WeightOf = Sizes(ll)
  BY <1>1, ViewIs DEF View
<1>v. View'
  BY <1>1, ViewIs, PTL
<1>3. /\ Held' = KeysOf(ll') /\ Newer' = Order(ll') /\ WeightOf' = Sizes(ll')
  BY <1>v DEF View
<1>4. ll' = Cut(ll, i) /\ bytes' = bytes - ll[i].size
  BY DEF RemoveElement
<1>5. ll[i].key \in Keys /\ ll[i].size \in Nat /\ ll[i].key \in KeysOf(ll)
  BY <1>1, ListFacts DEF KeysOf
<1>6. LoadOf(Cut(ll, i)) = LoadOf(ll) - ll[i].size
  BY <1>1, <1>2, CutLoad
<1> QED
  BY <1>1, <1>2, <1>3, <1>4, <1>5, <1>6, CutView DEF Beside

(* list.MoveToFront, from the outside. *)
LEMMA MoveView ==
    ASSUME CacheInv, CacheInv', NEW i \in DOMAIN ll, MoveToFront(i)
    PROVE  LET k == ll[i].key
           IN  /\ k \in Keys /\ k \in Held /\ Held' = Held
               /\ WeightOf' = WeightOf
               /\ Newer' = Beside(Newer, k) \cup ({k} \X (Held \ {k}))
               /\ LoadOf(ll') = LoadOf(ll)
<1> DEFINE k == ll[i].key
           c == Cut(ll, i)
           e == ll[i]
<1>1. ll \in Seq(Entry) /\ IndexAgrees /\ IndexAgrees'
  BY DEF CacheInv, TypeOK
<1>2. /\ Held = KeysOf(ll) /\ OneEach(ll) /\ Newer = Order(ll) /\ WeightOf = Sizes(ll)
  BY <1>1, ViewIs DEF View
<1>v. View'
  BY <1>1, ViewIs, PTL
<1>3. /\ Held' = KeysOf(ll') /\ Newer' = Order(ll') /\ WeightOf' = Sizes(ll')
  BY <1>v DEF View
<1>4. ll' = <<e>> \o c
  BY DEF MoveToFront
<1>5. /\ k \in Keys /\ e.size \in Nat /\ k \in KeysOf(ll) /\ e \in Entry /\ e.key = k
      /\ Sizes(ll)[k] = e.size
  BY <1>1, <1>2, ListFacts, SizeOf DEF KeysOf, Sizes
<1>6. /\ c \in Seq(Entry) /\ OneEach(c) /\ KeysOf(c) = KeysOf(ll) \ {k}
      /\ Sizes(c) = [Sizes(ll) EXCEPT ![k] = 0]
      /\ Order(c) = Beside(Order(ll), k)
  BY <1>1, <1>2, CutView DEF Beside
<1>7. LoadOf(c) = LoadOf(ll) - e.size /\ LoadOf(ll) \in Int
  BY <1>1, <1>2, CutLoad, LoadType
<1> HIDE DEF c, e, k
<1>8. /\ KeysOf(<<e>> \o c) = KeysOf(c) \cup {k}
      /\ Sizes(<<e>> \o c) = [Sizes(c) EXCEPT ![k] = e.size]
      /\ Order(<<e>> \o c) = Order(c) \cup ({k} \X KeysOf(c))
      /\ LoadOf(<<e>> \o c) = LoadOf(c) + e.size
  BY <1>5, <1>6, PushView, PushLoad
<1>9. Sizes(<<e>> \o c) = Sizes(ll)
  BY <1>1, <1>5, <1>6, <1>8, SizesType
<1>10. LoadOf(ll') = LoadOf(ll)
  BY <1>4, <1>5, <1>7, <1>8
<1>12. Held' = Held /\ WeightOf' = WeightOf
  <2>1. KeysOf(<<e>> \o c) = KeysOf(ll)
    <3>1. (KeysOf(ll) \ {k}) \cup {k} = KeysOf(ll)
      BY <1>5
    <3> QED
      BY <1>6, <1>8, <3>1
  <2> QED
    BY <1>2, <1>3, <1>4, <1>9, <2>1
<1>11. Newer' = Beside(Newer, k) \cup ({k} \X (Held \ {k}))
  BY <1>2, <1>3, <1>4, <1>6, <1>8
<1> QED
  BY <1>2, <1>5, <1>10, <1>11, <1>12 DEF k

LEMMA OrderIn ==
    ASSUME NEW l, NEW p \in Order(l)
    PROVE  p[1] \in KeysOf(l) /\ p[2] \in KeysOf(l)
BY DEF Order, KeysOf

(* store, from the outside: whether or not the key had an element. *)
LEMMA ReplaceView ==
    ASSUME CacheInv, CacheInv', NEW e \in Entry, Replace(e)
    PROVE  LET k == e.key
           IN  /\ k \in Keys /\ Held' = Held \cup {k}
               /\ WeightOf' = [WeightOf EXCEPT ![k] = e.size]
               /\ Newer' = Beside(Newer, k) \cup ({k} \X (Held \ {k}))
               /\ bytes = LoadOf(ll) => bytes' = LoadOf(ll')
<1> DEFINE k == e.key
<1>1. ll \in Seq(Entry) /\ IndexAgrees /\ IndexAgrees' /\ bytes \in Int
  BY DEF CacheInv, TypeOK
<1>2. /\ Held = KeysOf(ll) /\ OneEach(ll) /\ Newer = Order(ll) /\ WeightOf = Sizes(ll)
  BY <1>1, ViewIs DEF View
<1>v. View'
  BY <1>1, ViewIs, PTL
<1>3. /\ Held' = KeysOf(ll') /\ Newer' = Order(ll') /\ WeightOf' = Sizes(ll')
  BY <1>v DEF View
<1>4. k \in Keys /\ e.size \in Nat
  BY DEF Entry
<1>5. LoadOf(ll) \in Int
  BY <1>1, LoadType
<1>6. CASE k \notin Held
  <2>1. ll' = <<e>> \o ll /\ bytes' = bytes + e.size - 0
    BY <1>6 DEF Replace, Held
  <2>2. /\ KeysOf(<<e>> \o ll) = KeysOf(ll) \cup {k}
        /\ Sizes(<<e>> \o ll) = [Sizes(ll) EXCEPT ![k] = e.size]
        /\ Order(<<e>> \o ll) = Order(ll) \cup ({k} \X KeysOf(ll))
        /\ LoadOf(<<e>> \o ll) = LoadOf(ll) + e.size
    BY <1>1, <1>2, <1>6, PushView, PushLoad
  <2>3. Beside(Newer, k) = Order(ll) /\ Held \ {k} = KeysOf(ll)
    BY <1>2, <1>6, OrderIn DEF Beside
  <2>4. bytes = LoadOf(ll) => bytes' = LoadOf(ll')
    BY <1>1, <1>4, <1>5, <2>1, <2>2
  <2> QED
    BY <1>2, <1>3, <1>4, <2>1, <2>2, <2>3, <2>4
<1>7. CASE k \in Held
  <2> DEFINE i == At(k)
             c == Cut(ll, i)
  <2>1. ll' = <<e>> \o c /\ bytes' = bytes + e.size - ll[i].size
    BY <1>7 DEF Replace, Held
  <2>2. i \in DOMAIN ll /\ ll[i].key = k
    BY <1>1, <1>7, AtFinds DEF Held
  <2>3. ll[i].size \in Nat
    BY <1>1, <2>2, ListFacts
  <2>4. /\ c \in Seq(Entry) /\ OneEach(c) /\ KeysOf(c) = KeysOf(ll) \ {k}
        /\ Sizes(c) = [Sizes(ll) EXCEPT ![k] = 0]
        /\ Order(c) = Beside(Order(ll), k)
    <3> HIDE DEF i
    <3> QED
      BY <1>1, <1>2, <2>2, CutView DEF Beside
  <2>5. LoadOf(c) = LoadOf(ll) - ll[i].size
    <3> HIDE DEF i
    <3> QED
      BY <1>1, <1>2, <2>2, CutLoad
  <2> HIDE DEF i, c
  <2>6. /\ KeysOf(<<e>> \o c) = KeysOf(c) \cup {k}
        /\ Sizes(<<e>> \o c) = [Sizes(c) EXCEPT ![k] = e.size]
        /\ Order(<<e>> \o c) = Order(c) \cup ({k} \X KeysOf(c))
        /\ LoadOf(<<e>> \o c) = LoadOf(c) + e.size
    BY <2>4, PushView, PushLoad
  <2>7. Sizes(<<e>> \o c) = [Sizes(ll) EXCEPT ![k] = e.size]
    BY <1>1, <1>4, <2>4, <2>6, SizesType
  <2>8. KeysOf(<<e>> \o c) = KeysOf(ll) \cup {k}
    BY <2>4, <2>6
  <2>9. bytes = LoadOf(ll) => bytes' = LoadOf(ll')
    <3>1. LoadOf(<<e>> \o c) = LoadOf(ll) - ll[i].size + e.size
      BY <2>5, <2>6
    <3> QED
      BY <1>1, <1>4, <1>5, <2>1, <2>3, <3>1
  <2>10. Newer' = Beside(Newer, k) \cup ({k} \X (Held \ {k}))
    BY <1>2, <1>3, <2>1, <2>4, <2>6
  <2> QED
    BY <1>2, <1>3, <1>4, <2>1, <2>7, <2>8, <2>9, <2>10
<1> QED
  BY <1>6, <1>7

-----------------------------------------------------------------------------

(* The counter is the load; outside the critical section the load fits; and *)
(* no entry made is over the object limit.                                  *)
StoreInv ==
    /\ bytes = LoadOf(ll)
    /\ mutex = Nobody => bytes <= MaxBytes
    /\ \A w \in Workers : made[w] # NoEntry => made[w].size <= MaxObject

(* The sum of the store and that of the cache are the same operator. *)
LEMMA SumSame ==
    ASSUME NEW f, NEW S
    PROVE  Lru!SumFunctionOnSet(f, S) = SumFunctionOnSet(f, S)
BY DEF SumFunctionOnSet, FoldFunctionOnSet, MapThenFoldSet,
       Lru!SumFunctionOnSet, Lru!FoldFunctionOnSet, Lru!MapThenFoldSet

(* The store has room exactly when the loop of the cache would end. *)
LEMMA FitsIs ==
    ASSUME CacheInv, StoreInv
    PROVE  Lru!Fits <=> ~OverLimit
<1>1. View /\ bytes \in Int
  BY ViewIs DEF CacheInv, TypeOK
<1>2. Lru!Load(Held) = bytes
  BY <1>1, SumSame DEF Lru!Load, View, LoadOf, StoreInv
<1> QED
  BY <1>1, <1>2, CacheAssumption DEF Lru!Fits, OverLimit

LEMMA SilentFinds ==
    ASSUME Silent
    PROVE  Found' = {}
BY DEF Silent, NoAnswer, Found

LEMMA RestStep ==
    ASSUME UNCHANGED cache, Found' = {}
    PROVE  Lru!Rest
<1>1. UNCHANGED <<Held, WeightOf, Newer>>
  BY DEF cache, Held, WeightOf, Weight, At, Newer
<1> QED
  BY <1>1 DEF Lru!Rest

(* The order of the others is what the store keeps of the order. *)
LEMMA BesideIs ==
    ASSUME CacheInv, NEW k
    PROVE  Beside(Newer, k) = Lru!Among(Held \ {k})
BY ViewIs, OrderIn DEF CacheInv, View, Beside, Lru!Among

LEMMA RemoveStep ==
    ASSUME CacheInv, CacheInv', NEW i \in DOMAIN ll, RemoveElement(i), Found' = {}
    PROVE  Lru!Without(ll[i].key)
<1>1. Beside(Newer, ll[i].key) = Lru!Among(Held \ {ll[i].key})
  BY BesideIs
<1> QED
  BY <1>1, RemoveView DEF Lru!Without

(* What an LRU store does in a step, and what the other invariants of the   *)
(* cache need of it.                                                        *)
Refines == StoreInv' /\ [Lru!Next]_Lru!vars

(* A step that leaves the cache alone. *)
LEMMA RestRefines ==
    ASSUME StoreInv, UNCHANGED cache, Found' = {},
           mutex' = Nobody => mutex = Nobody \/ ~OverLimit,
           \A w \in Workers : made'[w] # NoEntry =>
              made'[w] = made[w] \/ made'[w].size <= MaxObject,
           bytes \in Int
    PROVE  Refines
<1>1. Lru!Next
  BY RestStep DEF Lru!Next
<1>2. ll' = ll /\ bytes' = bytes
  BY DEF cache
<1>3. StoreInv'
  BY <1>2, CacheAssumption DEF StoreInv, OverLimit
<1> QED
  BY <1>1, <1>3 DEF Refines

LEMMA ArriveRefines ==
    ASSUME CacheInv, StoreInv, NEW w \in Workers, NEW q \in Requests, Arrive(w, q)
    PROVE  Refines
<1>1. UNCHANGED <<cache, mutex, made>> /\ bytes \in Int
  BY DEF Arrive, CacheInv, TypeOK
<1> QED
  BY <1>1, SilentFinds, RestRefines DEF Arrive


(* A handler that answers with something else than an entry. *)
LEMMA DoneRefines ==
    ASSUME CacheInv, StoreInv, NEW w \in Workers, NEW a, Done(w, a),
           a.from # "cache", UNCHANGED cache,
           mutex' = Nobody => mutex = Nobody \/ ~OverLimit
    PROVE  Refines
<1>1. Found' = {}
  BY DEF Done, Found
<1>2. \A v \in Workers : made'[v] # NoEntry => made'[v] = made[v]
  BY DEF Done, CacheInv, TypeOK
<1> QED
  BY <1>1, <1>2, RestRefines DEF CacheInv, TypeOK

LEMMA RespondRefines ==
    ASSUME CacheInv, StoreInv, NEW w \in Workers, NEW r \in Responses, Respond(w, r)
    PROVE  Refines
<1>1. UNCHANGED <<cache, mutex>>
  BY DEF Respond
<1>2. CASE Done(w, FromOrigin(r, r.size))
  BY <1>1, <1>2, DoneRefines DEF FromOrigin
<1>3. CASE Silent /\ UNCHANGED made
  BY <1>1, <1>3, SilentFinds, RestRefines DEF CacheInv, TypeOK
<1> QED
  BY <1>2, <1>3 DEF Respond

LEMMA ReadRefines ==
    ASSUME CacheInv, StoreInv, NEW w \in Workers, ReadBody(w) \/ ReadFails(w)
    PROVE  Refines
<1>1. UNCHANGED <<cache, mutex>> /\ pc[w] = "reading"
  BY DEF ReadBody, ReadFails
<1>2. CASE Done(w, [from |-> "error"])
  BY <1>1, <1>2, DoneRefines
<1>3. CASE Done(w, FromOrigin(resp[w], ReadUpTo(resp[w])))
  BY <1>1, <1>3, DoneRefines DEF FromOrigin
<1>4. CASE /\ ~(ReadUpTo(resp[w]) > MaxObject) /\ Silent
           /\ \E n \in FreshIds(StoreKey(w)) : Make(w, n)
  <2>1. resp[w] \in Responses
    BY <1>1 DEF CacheInv, TypeOK
  <2>2. resp[w].size \in Nat
    BY <2>1, CacheAssumption DEF Response
  <2>3. resp[w].size <= MaxObject
    BY <1>4, <2>2, CacheAssumption DEF ReadUpTo
  <2>4. PICK n : made' = [made EXCEPT ![w] = NewEntry(w, n)]
    BY <1>4 DEF Make
  <2>5. NewEntry(w, n).size <= MaxObject
    BY <2>3 DEF NewEntry
  <2>6. \A v \in Workers : made'[v] = made[v] \/ made'[v].size <= MaxObject
    <3> DEFINE e == NewEntry(w, n)
    <3> HIDE DEF e
    <3>1. made' = [made EXCEPT ![w] = e] /\ e.size <= MaxObject
      BY <2>4, <2>5 DEF e
    <3> QED
      BY <3>1 DEF CacheInv, TypeOK
  <2> QED
    BY <1>1, <1>4, <2>6, SilentFinds, RestRefines DEF CacheInv, TypeOK
<1> QED
  BY <1>2, <1>3, <1>4 DEF ReadBody, ReadFails

LEMMA LookupRefines ==
    ASSUME CacheInv, StoreInv, CacheInv', NEW w \in Workers, Lookup(w)
    PROVE  Refines
<1>0. mutex = Nobody /\ mutex' = mutex /\ bytes \in Int /\ IndexAgrees
      /\ Lru!Fits
  <2>1. mutex = Nobody /\ mutex' = mutex /\ bytes \in Int /\ IndexAgrees
    BY DEF Lookup, CacheInv, TypeOK
  <2>2. ~OverLimit
    BY <2>1, CacheAssumption DEF StoreInv, OverLimit
  <2> QED
    BY <2>1, <2>2, FitsIs
<1>1. CASE LookupKey(w) \notin DOMAIN items
  <2>1. Silent /\ UNCHANGED cache /\ UNCHANGED made
    BY <1>1 DEF Lookup, Miss
  <2> QED
    BY <1>0, <2>1, SilentFinds, RestRefines
<1>2. CASE LookupKey(w) \in DOMAIN items
  <2> DEFINE k == LookupKey(w)
             i == At(k)
  <2>1. i \in DOMAIN ll /\ ll[i].key = k
    BY <1>0, <1>2, AtFinds
  <2>2. \/ RemoveElement(i) /\ Miss(w)
        \/ Hit(w, i)
    BY <1>2 DEF Lookup
  <2> HIDE DEF i, k
  <2>3. CASE RemoveElement(i) /\ Miss(w)
    <3>1. Found' = {} /\ UNCHANGED made
      BY <2>3, SilentFinds DEF Miss
    <3>2. Lru!Without(k) /\ k \in Keys /\ k \in Held
      BY <2>1, <2>3, <3>1, RemoveStep, RemoveView
    <3>3. Lru!Next
      BY <1>0, <3>2 DEF Lru!Next, Lru!Expire
    <3>4. /\ bytes' = bytes - ll[i].size /\ ll[i].size \in Nat
          /\ LoadOf(ll') = LoadOf(ll) - ll[i].size
      BY <2>1, <2>3, RemoveView
    <3>5. StoreInv'
      BY <1>0, <3>1, <3>4, CacheAssumption DEF StoreInv
    <3> QED
      BY <3>3, <3>5 DEF Refines
  <2>4. CASE Hit(w, i)
    <3>1. /\ MoveToFront(i) /\ UNCHANGED <<items, bytes>>
          /\ answer' = [from |-> "cache", key |-> k]
          /\ \A v \in Workers : made'[v] # NoEntry => made'[v] = made[v]
      BY <2>4 DEF Hit, Done, CacheInv, TypeOK, k
    <3>2. Found' = {k}
      BY <3>1 DEF Found
    <3>3. /\ k \in Keys /\ k \in Held /\ Held' = Held
          /\ WeightOf' = WeightOf
          /\ Newer' = Beside(Newer, k) \cup ({k} \X (Held \ {k}))
          /\ LoadOf(ll') = LoadOf(ll)
      BY <2>1, <3>1, MoveView
    <3>4. Newer' = Lru!Used(k)
      BY <3>3, BesideIs DEF Lru!Used
    <3>5. Lru!Next
      BY <1>0, <3>2, <3>3, <3>4 DEF Lru!Next, Lru!Touch
    <3>6. StoreInv'
      BY <1>0, <3>1, <3>3 DEF StoreInv
    <3> QED
      BY <3>5, <3>6 DEF Refines
  <2> QED
    BY <2>2, <2>3, <2>4
<1> QED
  BY <1>1, <1>2

LEMMA InsertRefines ==
    ASSUME CacheInv, StoreInv, CacheInv', NEW w \in Workers, Insert(w)
    PROVE  Refines
<1>1. /\ mutex = Nobody /\ mutex' = w /\ w # Nobody /\ Replace(made[w])
      /\ UNCHANGED made /\ Found' = {} /\ bytes \in Int /\ pc[w] = "storing"
  BY SilentFinds, CacheAssumption DEF Insert, CacheInv, TypeOK
<1>2. made[w] \in Entry /\ made[w] # NoEntry
  BY <1>1 DEF CacheInv, TypeOK
<1>3. Lru!Fits
  <2>1. ~OverLimit
    BY <1>1, CacheAssumption DEF StoreInv, OverLimit
  <2> QED
    BY <2>1, FitsIs
<1> DEFINE k == made[w].key
<1>4. /\ k \in Keys /\ Held' = Held \cup {k}
      /\ WeightOf' = [WeightOf EXCEPT ![k] = made[w].size]
      /\ Newer' = Beside(Newer, k) \cup ({k} \X (Held \ {k}))
      /\ bytes = LoadOf(ll) => bytes' = LoadOf(ll')
  BY <1>1, <1>2, ReplaceView
<1>5. made[w].size \in 0 .. MaxObject
  BY <1>2, CacheAssumption DEF StoreInv, Entry
<1> HIDE DEF k
<1>6. Newer' = Lru!Used(k)
  BY <1>4, BesideIs DEF Lru!Used
<1>7. Lru!Put(k, made[w].size)
  BY <1>1, <1>3, <1>4, <1>6 DEF Lru!Put
<1>8. Lru!Next
  BY <1>4, <1>5, <1>7 DEF Lru!Next
<1>9. StoreInv'
  BY <1>1, <1>4 DEF StoreInv
<1> QED
  BY <1>8, <1>9 DEF Refines

(* The loop finds an element whenever it looks for one. *)
LEMMA SomethingToEvict ==
    ASSUME CacheInv, StoreInv, OverLimit
    PROVE  ll # <<>>
<1> SUFFICES ASSUME ll = <<>>  PROVE FALSE
  OBVIOUS
<1>1. KeysOf(ll) = {}
  BY DEF KeysOf
<1>2. LoadOf(ll) = 0
  BY <1>1, SumStep, FS_EmptySet DEF LoadOf
<1> QED
  BY <1>2, CacheAssumption DEF StoreInv, OverLimit

LEMMA EvictRefines ==
    ASSUME CacheInv, StoreInv, CacheInv', NEW w \in Workers, EvictBack(w)
    PROVE  Refines
<1> DEFINE i == Len(ll)
           k == ll[i].key
<1>1. /\ mutex' = mutex /\ mutex # Nobody /\ UNCHANGED made /\ Found' = {}
      /\ bytes \in Int /\ ll \in Seq(Entry)
  BY SilentFinds, CacheAssumption DEF EvictBack, handler, CacheInv, TypeOK
<1>2. ll # <<>> /\ OverLimit
  BY SomethingToEvict DEF EvictBack
<1>3. RemoveElement(i) /\ i \in DOMAIN ll
  BY <1>1, <1>2 DEF EvictBack
<1>4. Lru!Without(k) /\ k \in Keys /\ k \in Held
  BY <1>1, <1>3, RemoveStep, RemoveView
<1>5. \A j \in Held \ {k} : <<j, k>> \in Newer
  <2> SUFFICES ASSUME NEW j \in Held \ {k}  PROVE <<j, k>> \in Newer
    OBVIOUS
  <2>1. View
    BY ViewIs DEF CacheInv
  <2>2. PICK n \in DOMAIN ll : ll[n].key = j
    BY <2>1 DEF View, KeysOf
  <2>3. n < i /\ j \in Keys
    BY <1>1, <2>2, ListFacts
  <2> QED
    BY <1>3, <1>4, <2>2, <2>3 DEF Newer
<1>6. Lru!Next
  <2>1. ~Lru!Fits
    BY <1>2, FitsIs
  <2> HIDE DEF k
  <2> QED
    BY <1>4, <1>5, <2>1 DEF Lru!Next, Lru!Evict
<1>7. bytes' = bytes - ll[i].size /\ LoadOf(ll') = LoadOf(ll) - ll[i].size
  <2> HIDE DEF i
  <2> QED
    BY <1>3, RemoveView
<1>8. StoreInv'
  BY <1>1, <1>7 DEF StoreInv
<1> QED
  BY <1>6, <1>8 DEF Refines

LEMMA UnlockRefines ==
    ASSUME CacheInv, StoreInv, NEW w \in Workers, Unlock(w)
    PROVE  Refines
BY DoneRefines DEF Unlock, FromOrigin

LEMMA TickRefines ==
    ASSUME CacheInv, StoreInv, Tick
    PROVE  Refines
<1>1. UNCHANGED <<cache, mutex, made>> /\ Found' = {} /\ bytes \in Int
  BY SilentFinds DEF Tick, handler, CacheInv, TypeOK
<1> QED
  BY <1>1, RestRefines

LEMMA StutterRefines ==
    ASSUME StoreInv, UNCHANGED vars
    PROVE  Refines
<1>1. UNCHANGED <<ll, items, bytes, mutex, made, answer>>
  BY DEF vars, cache, handler
<1>2. UNCHANGED <<Held, WeightOf, Newer, Found>>
  BY <1>1 DEF Held, WeightOf, Weight, At, Newer, Found
<1> QED
  BY <1>1, <1>2 DEF Refines, StoreInv, Lru!vars

(* Every step of the cache is a step of the store or none. *)
LEMMA StepRefines == CacheInv /\ StoreInv /\ CacheInv' /\ [Next]_vars => Refines
<1> SUFFICES ASSUME CacheInv, StoreInv, CacheInv', [Next]_vars  PROVE Refines
  OBVIOUS
<1>1. ASSUME NEW w \in Workers, NEW q \in Requests, Arrive(w, q)  PROVE Refines
  BY <1>1, ArriveRefines
<1>2. ASSUME NEW w \in Workers, Lookup(w)  PROVE Refines
  BY <1>2, LookupRefines
<1>3. ASSUME NEW w \in Workers, NEW r \in Responses, Respond(w, r)  PROVE Refines
  BY <1>3, RespondRefines
<1>4. ASSUME NEW w \in Workers, ReadBody(w) \/ ReadFails(w)  PROVE Refines
  BY <1>4, ReadRefines
<1>5. ASSUME NEW w \in Workers, Insert(w)  PROVE Refines
  BY <1>5, InsertRefines
<1>6. ASSUME NEW w \in Workers, Locked(w)  PROVE Refines
  BY <1>6, EvictRefines, UnlockRefines DEF Locked
<1>7. CASE Tick
  BY <1>7, TickRefines
<1>8. CASE UNCHANGED vars
  BY <1>8, StutterRefines
<1> QED
  BY <1>1, <1>2, <1>3, <1>4, <1>5, <1>6, <1>7, <1>8 DEF Next

LEMMA InitRefines == Init => StoreInv /\ Lru!Init
<1> SUFFICES ASSUME Init  PROVE StoreInv /\ Lru!Init
  OBVIOUS
<1>1. ll = <<>> /\ items = [k \in {} |-> 0] /\ bytes = 0 /\ answer = NoAnswer
      /\ made = [w \in Workers |-> NoEntry]
  BY DEF Init
<1>2. DOMAIN ll = {} /\ DOMAIN items = {}
  BY <1>1
<1>3. Held = {} /\ Newer = {} /\ WeightOf = [k \in Keys |-> 0] /\ Found = {}
  BY <1>1, <1>2 DEF Held, Newer, WeightOf, Weight, Found, NoAnswer
<1>4. LoadOf(ll) = 0
  <2>1. KeysOf(ll) = {}
    BY <1>2 DEF KeysOf
  <2> QED
    BY <2>1, SumStep, FS_EmptySet DEF LoadOf
<1> QED
  BY <1>1, <1>3, <1>4, CacheAssumption DEF StoreInv, Lru!Init

LEMMA StoreInvHolds == Spec => [](CacheInv /\ StoreInv)
<1>1. Init => CacheInv /\ StoreInv
  BY InitCacheInv, InitRefines
<1>2. CacheInv /\ StoreInv /\ [Next]_vars => (CacheInv /\ StoreInv)'
  BY NextCacheInv, StepRefines DEF Refines
<1> QED
  BY <1>1, <1>2, PTL DEF Spec

-----------------------------------------------------------------------------
(* The theorems. *)

(* The cache and its handlers are always well typed, and the mutex is held  *)
(* between two steps exactly by the handler in the eviction loop.           *)
THEOREM CacheTypeCorrect == Spec => []TypeOK
<1>1. CacheInv => TypeOK
  BY DEF CacheInv
<1> QED
  BY <1>1, CacheInvHolds, PTL

(* The list and the map agree at every step, whatever is stored, replaced,  *)
(* expired and evicted by however many handlers.                            *)
THEOREM IndexAlwaysAgrees == Spec => []IndexAgrees
<1>1. CacheInv => IndexAgrees
  BY DEF CacheInv
<1> QED
  BY <1>1, CacheInvHolds, PTL

(* A hit serves the object the request names, within its lifetime; as long  *)
(* as the key of a request is not changed on its way to the origin.         *)
THEOREM HitsAlwaysFresh ==
    ASSUME \A k \in Keys : Outgoing[k] = k
    PROVE  Spec => HitsAreFresh
<1> DEFINE Fresh(w) == Hits(w) =>
              LET e == ll[At(LookupKey(w))] IN
              /\ e.object = Outgoing[want[w].key]
              /\ clock[w] <= e.storedAt + TTLFromResponse(e.of)
<1>1. CacheInv /\ [Next]_vars => [\A w \in Workers : Fresh(w)]_vars
  <2> SUFFICES ASSUME CacheInv, Next, NEW w \in Workers, Hits(w)
               PROVE  LET e == ll[At(LookupKey(w))] IN
                      /\ e.object = Outgoing[want[w].key]
                      /\ clock[w] <= e.storedAt + TTLFromResponse(e.of)
    OBVIOUS
  <2>1. HandlersOK /\ StoreOK /\ IndexAgrees /\ EntriesInv
    BY TypeParts DEF CacheInv
  <2>2. pc[w] = "looking" /\ pc'[w] = "idle"
    BY DEF Hits
  <2>3. Lookup(w)
    <3>1. ASSUME NEW v \in Workers, NEW p, Goto(v, p), v # w  PROVE FALSE
      BY <2>1, <2>2, <3>1 DEF Goto, HandlersOK
    <3>2. ~Tick
      BY <2>2 DEF Tick, handler
    <3>3. ASSUME NEW v \in Workers, NEW q \in Requests, Arrive(v, q)  PROVE FALSE
      BY <2>2, <3>1, <3>3 DEF Arrive
    <3>4. ASSUME NEW v \in Workers, v # w, Lookup(v)  PROVE FALSE
      BY <3>1, <3>4 DEF Lookup, Miss, Hit, Done
    <3>5. ASSUME NEW v \in Workers, NEW r \in Responses, Respond(v, r)  PROVE FALSE
      BY <2>2, <3>1, <3>5 DEF Respond, Done
    <3>6. ASSUME NEW v \in Workers, ReadBody(v) \/ ReadFails(v)  PROVE FALSE
      BY <2>2, <3>1, <3>6 DEF ReadBody, ReadFails, Done
    <3>7. ASSUME NEW v \in Workers, Insert(v) \/ Unlock(v)  PROVE FALSE
      BY <2>2, <3>1, <3>7 DEF Insert, Unlock, Done
    <3>8. ASSUME NEW v \in Workers, EvictBack(v)  PROVE FALSE
      BY <2>2, <3>8 DEF EvictBack, handler
    <3> QED
      BY <3>2, <3>3, <3>4, <3>5, <3>6, <3>7, <3>8 DEF Next, Locked
  <2> DEFINE i == At(LookupKey(w))
             e == ll[i]
  <2>4. LookupKey(w) \in DOMAIN items /\ ~Expired(e, clock[w])
    <3>1. ~Miss(w)
      BY <2>1, <2>2 DEF Miss, Goto, HandlersOK
    <3> QED
      BY <2>3, <3>1 DEF Lookup
  <2>5. i \in DOMAIN ll /\ e.key = LookupKey(w)
    BY <2>1, <2>4, AtFinds
  <2>6. EntryOK(e)
    BY <2>1, <2>5 DEF EntriesInv
  <2>7. want[w].key \in Keys
    <3>1. want[w] \in Requests
      BY <2>1, <2>2 DEF HandlersOK
    <3> QED
      BY <3>1, CacheAssumption DEF Request
  <2>8. e.object = Outgoing[want[w].key]
    BY <2>5, <2>6, <2>7 DEF EntryOK, LookupKey
  <2>9. clock[w] <= e.storedAt + TTLFromResponse(e.of)
    <3>1. e \in Entry /\ clock[w] \in Nat
      BY <2>1, <2>5 DEF StoreOK, HandlersOK
    <3>2. e.expiresAt \in Int /\ ~(clock[w] > e.expiresAt)
      BY <2>4, <3>1 DEF Entry, Expired
    <3> QED
      BY <2>6, <3>1, <3>2 DEF EntryOK
  <2> QED
    BY <2>8, <2>9
<1>2. Spec => [][\A w \in Workers : Fresh(w)]_vars
  BY <1>1, CacheInvHolds, PTL DEF Spec
<1> QED
  BY <1>2 DEF HitsAreFresh

(* The byte counter is the sum of the sizes of the entries at every step,   *)
(* whatever is stored, replaced, expired and evicted.                       *)
THEOREM BytesAlwaysExact == Spec => []BytesExact
<1>1. CacheInv /\ StoreInv => BytesExact
  BY ViewIs, LoadIsTotal DEF CacheInv, TypeOK, StoreInv, View, BytesExact, TotalSize
<1> QED
  BY <1>1, StoreInvHolds, PTL

(* Whenever the mutex is free, the entries together are within the limit.   *)
THEOREM AlwaysWithinLimit == Spec => [](mutex = Nobody => TotalSize <= MaxBytes)
<1>1. BytesExact /\ StoreInv => (mutex = Nobody => TotalSize <= MaxBytes)
  BY DEF BytesExact, StoreInv
<1> QED
  BY <1>1, BytesAlwaysExact, StoreInvHolds, PTL

(* The eviction loop is never run on an empty list: each turn of it makes   *)
(* the list shorter, so the mutex is held for no more turns than there are  *)
(* entries.                                                                 *)
THEOREM EvictionShrinks ==
    Spec => [][\A w \in Workers : EvictBack(w) =>
                 /\ Len(ll) \in Nat /\ Len(ll) > 0 /\ Len(ll') = Len(ll) - 1]_vars
<1>1. ASSUME CacheInv, StoreInv, NEW w \in Workers, EvictBack(w)
      PROVE  Len(ll) \in Nat /\ Len(ll) > 0 /\ Len(ll') = Len(ll) - 1
  <2>1. ll \in Seq(Entry) /\ ll # <<>>
    BY <1>1, SomethingToEvict DEF EvictBack, CacheInv, TypeOK
  <2>2. Len(ll) \in DOMAIN ll /\ Len(ll) \in Nat /\ Len(ll) > 0
    BY <2>1
  <2>3. ll' = Cut(ll, Len(ll))
    BY <1>1, <2>1 DEF EvictBack, RemoveElement
  <2>4. ll' \in Seq(Entry) /\ DOMAIN ll' = 1 .. Len(ll) - 1
    BY <2>1, <2>2, <2>3, CutFacts
  <2>5. Len(ll') = Len(ll) - 1
    BY <2>2, <2>4
  <2> QED
    BY <2>2, <2>5
<1>2. CacheInv /\ StoreInv /\ [Next]_vars =>
        [\A w \in Workers : EvictBack(w) =>
            /\ Len(ll) \in Nat /\ Len(ll) > 0 /\ Len(ll') = Len(ll) - 1]_vars
  BY <1>1
<1> QED
  BY <1>2, StoreInvHolds, PTL DEF Spec

(* Every step of the cache is a step of an LRU store or leaves it alone: a  *)
(* hit makes its object the newest, only the least recently used object is  *)
(* evicted, and only while the rest is over the limit; whatever handlers,   *)
(* keys, sizes and limits there are.                                        *)
THEOREM CacheImplementsLru == Spec => ImplementsLru
<1>1. Init => Lru!Init
  BY InitRefines
<1>2. CacheInv /\ StoreInv /\ [Next]_vars => [Lru!Next]_Lru!vars
  BY NextCacheInv, StepRefines DEF Refines
<1> QED
  BY <1>1, <1>2, StoreInvHolds, PTL DEF Spec, ImplementsLru, Lru!Spec
=============================================================================
