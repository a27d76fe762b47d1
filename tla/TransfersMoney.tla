---------------------------- MODULE TransfersMoney ----------------------------
(***************************************************************************)
(* Writing whole documents from copies is exact where uses of a copy do    *)
(* not overlap, and money is accounted for: theorems about Transfers, for  *)
(* all values of its constants.                                            *)
(***************************************************************************)
EXTENDS TransfersStages, WellFoundedInduction

-----------------------------------------------------------------------------
(* Sums over finite sets                                                   *)

\* Induction over a finite set: whatever holds of a subset when it holds of
\* the subsets with one element less holds of all of them.
LEMMA SubsetInduction ==
    ASSUME NEW S, IsFiniteSet(S), NEW G,
           \A s \in SUBSET S : (\A x \in s : s \ {x} \in G) => s \in G
    PROVE  SUBSET S \subseteq G
  <1>. DEFINE B == (SUBSET S) \ G
  <1>1. SUFFICES ASSUME B # {} PROVE FALSE
    OBVIOUS
  <1>2. B \subseteq FiniteSubsetsOf(S)
    BY FS_Subset DEF FiniteSubsetsOf
  <1>3. PICK s \in B : \A t \in B : ~ (<<t, s>> \in StrictSubsetOrdering(S))
    <2>. HIDE DEF B
    <2>. QED
      BY <1>1, <1>2, FS_StrictSubsetOrderingWellFounded, WFMin
  <1>4. ASSUME NEW x \in s
        PROVE  s \ {x} \in G
    <2>1. ASSUME s \ {x} \in B
          PROVE  <<s \ {x}, s>> \in StrictSubsetOrdering(S)
      <3>1. s \ {x} \in SUBSET S /\ s \in SUBSET S
        BY <1>3
      <3>2. s \ {x} \subseteq s /\ s \ {x} # s
        BY <1>4
      <3>. QED
        BY <3>1, <3>2 DEF StrictSubsetOrdering
    <2>. QED
      BY <1>3, <2>1
  <1>. QED
    BY <1>3, <1>4

\* The element of a set that a sum takes first, and the equation of a sum: what
\* it is on a set, where g is what it is on the smaller ones.
Pick(s) == CHOOSE x \in s : TRUE
Term(f, g, s) == IF s = {} THEN 0 ELSE f[Pick(s)] + g[s \ {Pick(s)}]
SumsUp(f, g, S) == g = [s \in SUBSET S |-> Term(f, g, s)]

\* It is an element of the set.
LEMMA PickIn == ASSUME NEW s, s # {} PROVE Pick(s) \in s
  BY DEF Pick

\* Such a function has the value the equation gives.
LEMMA SumValue ==
    ASSUME NEW S, NEW f, NEW g, SumsUp(f, g, S), NEW s \in SUBSET S
    PROVE  g[s] = Term(f, g, s)
  BY DEF SumsUp

\* There is a function that satisfies the equation.
LEMMA SumExists ==
    ASSUME NEW S, IsFiniteSet(S), NEW f
    PROVE  \E g : SumsUp(f, g, S)
  <1>. DEFINE D(n) == {t \in SUBSET S : Cardinality(t) <= n}
              G == {s \in SUBSET S :
                      \E g : g = [t \in D(Cardinality(s)) |-> Term(f, g, t)]}
  <1>1. \A s \in SUBSET S : IsFiniteSet(s) /\ Cardinality(s) \in Nat
    BY FS_Subset, FS_CardinalityType
  <1>2. {} \in G
    <2>. DEFINE g == [t \in D(Cardinality({})) |-> 0]
    <2>1. \A t \in D(Cardinality({})) : t = {}
      BY <1>1, FS_EmptySet
    <2>2. \A t \in D(Cardinality({})) : Term(f, g, t) = 0
      BY <2>1 DEF Term
    <2>3. g = [t \in D(Cardinality({})) |-> Term(f, g, t)]
      BY <2>2
    <2>. HIDE DEF g, D
    <2>. QED
      BY <2>3
  <1>3. ASSUME NEW s \in SUBSET S, NEW x \in s, s \ {x} \in G
        PROVE  s \in G
    <2>1. PICK g : g = [t \in D(Cardinality(s \ {x})) |-> Term(f, g, t)]
      BY <1>3
    <2>2. Cardinality(s \ {x}) = Cardinality(s) - 1
      BY <1>1, FS_RemoveElement
    <2>. DEFINE E == D(Cardinality(s))
                h == [t \in E |-> Term(f, g, t)]
    <2>3. ASSUME NEW t \in E, t # {}
          PROVE  /\ t \ {Pick(t)} \in D(Cardinality(s \ {x}))
                 /\ t \ {Pick(t)} \in E
      <3>1. Pick(t) \in t
        BY <2>3, PickIn
      <3>2. Cardinality(t \ {Pick(t)}) = Cardinality(t) - 1
        BY <1>1, <3>1, FS_RemoveElement
      <3>3. /\ Cardinality(t) \in Nat
            /\ Cardinality(s) \in Nat
            /\ Cardinality(t) <= Cardinality(s)
        BY <1>1
      <3>. QED
        BY <2>2, <3>2, <3>3
    <2>4. ASSUME NEW t \in E, t # {}
          PROVE  h[t \ {Pick(t)}] = g[t \ {Pick(t)}]
      <3>. DEFINE r == t \ {Pick(t)}
      <3>1. r \in D(Cardinality(s \ {x})) /\ r \in E
        BY <2>3, <2>4
      <3>. HIDE DEF r, D, E
      <3>2. h[r] = Term(f, g, r)
        BY <3>1
      <3>3. g[r] = Term(f, g, r)
        BY <2>1, <3>1
      <3>. QED
        BY <3>2, <3>3 DEF r
    <2>5. \A t \in E : Term(f, g, t) = Term(f, h, t)
      <3>. HIDE DEF h, E
      <3>. QED
        BY <2>4 DEF Term
    <2>6. h = [t \in E |-> Term(f, h, t)]
      <3>. DEFINE k == [t \in E |-> Term(f, h, t)]
      <3>1. \A t \in E : h[t] = k[t]
        <4>1. \A t \in E : h[t] = Term(f, g, t)
          OBVIOUS
        <4>2. \A t \in E : k[t] = Term(f, h, t)
          OBVIOUS
        <4>. QED
          BY <2>5, <4>1, <4>2
      <3>2. h = [t \in E |-> h[t]] /\ k = [t \in E |-> k[t]]
        OBVIOUS
      <3>. HIDE DEF h, k, E
      <3>3. h = k
        BY <3>1, <3>2
      <3>. QED
        BY <3>3 DEF k
    <2>. HIDE DEF h
    <2>. QED
      BY <2>6
  <1>4. S \in G
    <2>1. \A s \in SUBSET S : (\A x \in s : s \ {x} \in G) => s \in G
      <3>. HIDE DEF G
      <3>. QED
        BY <1>2, <1>3
    <2>. HIDE DEF G
    <2>2. SUBSET S \subseteq G
      BY <2>1, SubsetInduction
    <2>. QED
      BY <2>2
  <1>5. D(Cardinality(S)) = SUBSET S
    BY FS_Subset
  <1>. QED
    BY <1>4, <1>5 DEF SumsUp

\* Any two functions that satisfy it for the same terms agree.
LEMMA SumUnique ==
    ASSUME NEW S, IsFiniteSet(S), NEW T, S \subseteq T,
           NEW f, NEW e, \A x \in S : f[x] = e[x],
           NEW g, SumsUp(f, g, S), NEW h, SumsUp(e, h, T)
    PROVE  g[S] = h[S]
  <1>. DEFINE G == {s \in SUBSET S : g[s] = h[s]}
  <1>1. ASSUME NEW s \in SUBSET S, \A y \in s : s \ {y} \in G
        PROVE  s \in G
    <2>1. g[s] = Term(f, g, s) /\ h[s] = Term(e, h, s)
      BY SumValue
    <2>2. CASE s = {}
      BY <2>1, <2>2 DEF Term
    <2>3. CASE s # {}
      <3>1. Pick(s) \in s
        BY <2>3, PickIn
      <3>2. g[s \ {Pick(s)}] = h[s \ {Pick(s)}] /\ f[Pick(s)] = e[Pick(s)]
        BY <1>1, <3>1
      <3>. QED
        BY <2>1, <2>3, <3>2 DEF Term
    <2>. QED
      BY <2>2, <2>3
  <1>. HIDE DEF G
  <1>2. S \in G
    <2>1. SUBSET S \subseteq G
      BY <1>1, SubsetInduction
    <2>. QED
      BY <2>1
  <1>. QED
    BY <1>2 DEF G

\* The library's sum is the value of such a function.
LEMMA SumIsValue ==
    ASSUME NEW S, IsFiniteSet(S), NEW f
    PROVE  \E g : SumsUp(f, g, S) /\ SumFunctionOnSet(f, S) = g[S]
  <1>. DEFINE R(g) == [s \in SUBSET S |->
                         IF s = {} THEN 0
                         ELSE f[CHOOSE x \in s : TRUE] + g[s \ {CHOOSE x \in s : TRUE}]]
              g == CHOOSE g : g = R(g)
  <1>1. SumFunctionOnSet(f, S) = g[S]
    BY DEF SumFunctionOnSet, FoldFunctionOnSet, MapThenFoldSet
  <1>2. \A h : R(h) = [s \in SUBSET S |-> Term(f, h, s)]
    BY DEF Term, Pick
  <1>3. \E h : h = R(h)
    <2>1. PICK h : SumsUp(f, h, S)
      BY SumExists
    <2>2. h = R(h)
      <3>. HIDE DEF R
      <3>. QED
        BY <1>2, <2>1 DEF SumsUp
    <2>. QED
      BY <2>2
  <1>4. g = R(g)
    <2>. HIDE DEF R
    <2>. QED
      BY <1>3
  <1>5. SumsUp(f, g, S)
    <2>. HIDE DEF R, g
    <2>. QED
      BY <1>2, <1>4 DEF SumsUp
  <1>. HIDE DEF g
  <1>. QED
    BY <1>1, <1>5

\* A sum over a set is the value, at that set, of a function that sums up over
\* a larger one.
LEMMA SumInside ==
    ASSUME NEW S, IsFiniteSet(S), NEW f, NEW g, SumsUp(f, g, S), NEW s \in SUBSET S
    PROVE  SumFunctionOnSet(f, s) = g[s]
  <1>1. IsFiniteSet(s)
    BY FS_Subset
  <1>2. PICK h : SumsUp(f, h, s) /\ SumFunctionOnSet(f, s) = h[s]
    BY <1>1, SumIsValue
  <1>. QED
    BY <1>1, <1>2, SumUnique

\* Sums of equal terms are equal.
LEMMA SumEqual ==
    ASSUME NEW S, IsFiniteSet(S), NEW f, NEW e, \A x \in S : f[x] = e[x]
    PROVE  SumFunctionOnSet(f, S) = SumFunctionOnSet(e, S)
  <1>1. PICK g : SumsUp(f, g, S) /\ SumFunctionOnSet(f, S) = g[S]
    BY SumIsValue
  <1>2. PICK h : SumsUp(e, h, S) /\ SumFunctionOnSet(e, S) = h[S]
    BY SumIsValue
  <1>. QED
    BY <1>1, <1>2, SumUnique

\* Nothing adds up to zero.
LEMMA SumEmpty ==
    ASSUME NEW f
    PROVE  SumFunctionOnSet(f, {}) = 0
  <1>1. IsFiniteSet({})
    BY FS_EmptySet
  <1>2. PICK g : SumsUp(f, g, {}) /\ SumFunctionOnSet(f, {}) = g[{}]
    BY <1>1, SumIsValue
  <1>. QED
    BY <1>2, SumValue DEF Term

\* A sum is its first term and the sum of the others.
LEMMA SumFirst ==
    ASSUME NEW S, IsFiniteSet(S), S # {}, NEW f
    PROVE  SumFunctionOnSet(f, S) = f[Pick(S)] + SumFunctionOnSet(f, S \ {Pick(S)})
  <1>1. PICK g : SumsUp(f, g, S) /\ SumFunctionOnSet(f, S) = g[S]
    BY SumIsValue
  <1>2. SumFunctionOnSet(f, S \ {Pick(S)}) = g[S \ {Pick(S)}]
    BY <1>1, SumInside
  <1>3. g[S] = Term(f, g, S)
    BY <1>1, SumValue
  <1>. QED
    BY <1>1, <1>2, <1>3 DEF Term

\* A sum of integers is an integer.
LEMMA SumType ==
    ASSUME NEW S, IsFiniteSet(S), NEW f, \A x \in S : f[x] \in Int
    PROVE  \A s \in SUBSET S : SumFunctionOnSet(f, s) \in Int
  <1>. DEFINE G == {s \in SUBSET S : SumFunctionOnSet(f, s) \in Int}
  <1>1. ASSUME NEW s \in SUBSET S, \A y \in s : s \ {y} \in G
        PROVE  s \in G
    <2>1. CASE s = {}
      BY <2>1, SumEmpty
    <2>2. CASE s # {}
      <3>1. Pick(s) \in s /\ IsFiniteSet(s)
        BY <2>2, PickIn, FS_Subset
      <3>2. f[Pick(s)] \in Int /\ SumFunctionOnSet(f, s \ {Pick(s)}) \in Int
        BY <1>1, <3>1
      <3>3. SumFunctionOnSet(f, s) = f[Pick(s)] + SumFunctionOnSet(f, s \ {Pick(s)})
        BY <2>2, <3>1, SumFirst
      <3>. QED
        BY <3>2, <3>3
    <2>. QED
      BY <2>1, <2>2
  <1>. HIDE DEF G
  <1>2. SUBSET S \subseteq G
    BY <1>1, SubsetInduction
  <1>. QED
    BY <1>2 DEF G

\* Any term can be taken out of a sum.
LEMMA SumSplit ==
    ASSUME NEW S, IsFiniteSet(S), NEW f, \A x \in S : f[x] \in Int
    PROVE  \A s \in SUBSET S : \A a \in s :
             SumFunctionOnSet(f, s) = f[a] + SumFunctionOnSet(f, s \ {a})
  <1>. DEFINE Sum(s) == SumFunctionOnSet(f, s)
              G == {s \in SUBSET S : \A a \in s : Sum(s) = f[a] + Sum(s \ {a})}
  <1>0. \A s \in SUBSET S : Sum(s) \in Int
    BY SumType
  <1>1. ASSUME NEW s \in SUBSET S, \A y \in s : s \ {y} \in G
        PROVE  s \in G
    <2>1. ASSUME NEW a \in s
          PROVE  Sum(s) = f[a] + Sum(s \ {a})
      <3>1. Pick(s) \in s /\ IsFiniteSet(s)
        BY <2>1, PickIn, FS_Subset
      <3>2. Sum(s) = f[Pick(s)] + Sum(s \ {Pick(s)})
        BY <3>1, <2>1, SumFirst
      <3>3. CASE a = Pick(s)
        BY <3>2, <3>3
      <3>4. CASE a # Pick(s)
        <4>. DEFINE p == Pick(s)
                    r == (s \ {a}) \ {p}
        <4>1. Sum(s \ {p}) = f[a] + Sum(r)
          <5>1. s \ {p} \in G /\ a \in s \ {p} /\ (s \ {p}) \ {a} = r
            BY <1>1, <3>1, <3>4
          <5>. HIDE DEF Sum, p, r
          <5>. QED
            BY <5>1
        <4>2. Sum(s \ {a}) = f[p] + Sum(r)
          <5>1. s \ {a} \in G /\ p \in s \ {a}
            BY <1>1, <3>1, <3>4
          <5>. HIDE DEF Sum, p
          <5>. QED
            BY <5>1
        <4>3. Sum(r) \in Int /\ f[a] \in Int /\ f[p] \in Int
          BY <1>0, <3>1
        <4>. HIDE DEF Sum, r
        <4>. QED
          BY <3>2, <4>1, <4>2, <4>3
      <3>. QED
        BY <3>3, <3>4
    <2>. QED
      BY <2>1
  <1>. HIDE DEF G
  <1>2. SUBSET S \subseteq G
    BY <1>1, SubsetInduction
  <1>. QED
    BY <1>2 DEF G

\* A sum of one and the same number.
LEMMA SumConstant ==
    ASSUME NEW S, IsFiniteSet(S), NEW f, NEW c \in Int, \A x \in S : f[x] = c
    PROVE  SumFunctionOnSet(f, S) = c * Cardinality(S)
  <1>. DEFINE G == {s \in SUBSET S : SumFunctionOnSet(f, s) = c * Cardinality(s)}
  <1>1. ASSUME NEW s \in SUBSET S, \A y \in s : s \ {y} \in G
        PROVE  s \in G
    <2>1. CASE s = {}
      <3>1. c * 0 = 0
        OBVIOUS
      <3>. QED
        BY <2>1, <3>1, SumEmpty, FS_EmptySet
    <2>2. CASE s # {}
      <3>. DEFINE r == s \ {Pick(s)}
      <3>1. Pick(s) \in s /\ IsFiniteSet(s)
        BY <2>2, PickIn, FS_Subset
      <3>2. f[Pick(s)] = c /\ SumFunctionOnSet(f, r) = c * Cardinality(r)
        BY <1>1, <3>1
      <3>3. SumFunctionOnSet(f, s) = c + c * Cardinality(r)
        BY <2>2, <3>1, <3>2, SumFirst
      <3>4. Cardinality(s) \in Nat /\ Cardinality(r) = Cardinality(s) - 1
        BY <3>1, FS_CardinalityType, FS_RemoveElement
      <3>5. \A n \in Int : c + c * (n - 1) = c * n
        OBVIOUS
      <3>. HIDE DEF r
      <3>. QED
        BY <3>3, <3>4, <3>5
    <2>. QED
      BY <2>1, <2>2
  <1>. HIDE DEF G
  <1>2. SUBSET S \subseteq G
    BY <1>1, SubsetInduction
  <1>. QED
    BY <1>2 DEF G

\* What one term loses and another one gains leaves the sum alone.
LEMMA SumMove ==
    ASSUME NEW S, IsFiniteSet(S), NEW f, \A x \in S : f[x] \in Int,
           NEW e, NEW a \in S, NEW b \in S, a # b, NEW n \in Int,
           e[a] = f[a] - n, e[b] = f[b] + n,
           \A x \in S \ {a, b} : e[x] = f[x]
    PROVE  SumFunctionOnSet(e, S) = SumFunctionOnSet(f, S)
  <1>. DEFINE r == (S \ {a}) \ {b}
              Sum(h, s) == SumFunctionOnSet(h, s)
  <1>1. \A x \in S : e[x] \in Int
    OBVIOUS
  <1>2. Sum(f, S) = f[a] + Sum(f, S \ {a}) /\ Sum(f, S \ {a}) = f[b] + Sum(f, r)
    BY SumSplit
  <1>3. Sum(e, S) = e[a] + Sum(e, S \ {a}) /\ Sum(e, S \ {a}) = e[b] + Sum(e, r)
    BY <1>1, SumSplit
  <1>4. Sum(e, r) = Sum(f, r)
    <2>1. IsFiniteSet(r) /\ \A x \in r : e[x] = f[x]
      BY FS_Subset
    <2>. HIDE DEF r
    <2>. QED
      BY <2>1, SumEqual
  <1>5. Sum(f, r) \in Int
    BY SumType
  <1>. HIDE DEF Sum, r
  <1>6. Sum(e, S) = Sum(f, S)
    BY <1>2, <1>3, <1>4, <1>5
  <1>. QED
    BY <1>6 DEF Sum
\* A change of one term changes the sum by as much.
LEMMA SumChange ==
    ASSUME NEW S, IsFiniteSet(S), NEW f, \A x \in S : f[x] \in Int,
           NEW e, NEW a \in S, NEW n \in Int, e[a] = f[a] + n,
           \A x \in S \ {a} : e[x] = f[x]
    PROVE  SumFunctionOnSet(e, S) = SumFunctionOnSet(f, S) + n
  <1>. DEFINE r == S \ {a}
              Sum(h, s) == SumFunctionOnSet(h, s)
  <1>1. \A x \in S : e[x] \in Int
    OBVIOUS
  <1>2. Sum(f, S) = f[a] + Sum(f, r)
    BY SumSplit
  <1>3. Sum(e, S) = e[a] + Sum(e, r)
    BY <1>1, SumSplit
  <1>4. Sum(e, r) = Sum(f, r)
    <2>1. IsFiniteSet(r) /\ \A x \in r : e[x] = f[x]
      BY FS_Subset
    <2>. HIDE DEF r
    <2>. QED
      BY <2>1, SumEqual
  <1>5. Sum(f, r) \in Int
    BY SumType
  <1>. HIDE DEF Sum, r
  <1>6. Sum(e, S) = Sum(f, S) + n
    BY <1>2, <1>3, <1>4, <1>5
  <1>. QED
    BY <1>6 DEF Sum

\* A sum of terms that are not negative, or none of which is positive.
LEMMA SumSign ==
    ASSUME NEW S, IsFiniteSet(S), NEW f, \A x \in S : f[x] \in Int
    PROVE  /\ (\A x \in S : f[x] >= 0) => SumFunctionOnSet(f, S) >= 0
           /\ (\A x \in S : f[x] <= 0) => SumFunctionOnSet(f, S) <= 0
  <1>. DEFINE Sum(s) == SumFunctionOnSet(f, s)
              G == {s \in SUBSET S : /\ (\A x \in S : f[x] >= 0) => Sum(s) >= 0
                                     /\ (\A x \in S : f[x] <= 0) => Sum(s) <= 0}
  <1>1. ASSUME NEW s \in SUBSET S, \A y \in s : s \ {y} \in G
        PROVE  s \in G
    <2>1. CASE s = {}
      BY <2>1, SumEmpty
    <2>2. CASE s # {}
      <3>1. Pick(s) \in s /\ IsFiniteSet(s) /\ IsFiniteSet(s \ {Pick(s)})
        BY <2>2, PickIn, FS_Subset
      <3>2. s \ {Pick(s)} \in G /\ f[Pick(s)] \in Int
        BY <1>1, <3>1
      <3>3. Sum(s) = f[Pick(s)] + Sum(s \ {Pick(s)}) /\ Sum(s \ {Pick(s)}) \in Int
        BY <2>2, <3>1, SumFirst, SumType
      <3>. HIDE DEF Sum
      <3>. QED
        BY <3>1, <3>2, <3>3
    <2>. QED
      BY <2>1, <2>2
  <1>. HIDE DEF G
  <1>2. SUBSET S \subseteq G
    BY <1>1, SubsetInduction
  <1>. QED
    BY <1>2 DEF G

-----------------------------------------------------------------------------
(* What a handler that is going to write holds                             *)

\* A handler that is going to write an account holds what is stored.
CopyExact(j, a) ==
    /\ HoldsPayer(j) /\ j.src = a => j.payer = account[a]
    /\ HoldsPayee(j) /\ j.dst = a => j.payee = account[a]

CopiesExact ==
    \A a \in Accounts \ contended : Found(a) =>
      \A h \in Handlers : CopyExact(job[h], a)

ExactInv ==
    /\ TypeInv
    /\ Overlap \subseteq contended
    /\ CopiesExact
    /\ ExclusiveIsExact

-----------------------------------------------------------------------------
(* What is written                                                         *)

\* The copy that a handler writes next: the payer's, while it holds one.
CopyOf(j, a, doc) ==
    \/ HoldsPayer(j) /\ j.src = a /\ doc = j.payer
    \/ ~ HoldsPayer(j) /\ HoldsPayee(j) /\ j.dst = a /\ doc = j.payee

\* The account is written from a copy, and the book is kept alongside.
Writing(h, a, doc, new) ==
    /\ CopyOf(job[h], a, doc)
    /\ UpdateAccount(a, new)
    /\ \A b \in Accounts \ {a} : book'[b] = book[b]
    /\ new.bal - doc.bal = book'[a].bal - book[a].bal
    /\ new.spent - doc.spent = book'[a].spent - book[a].spent

\* The steps that change a stored account change its history by as much.
LEMMA WriteSteps ==
    ASSUME TypeInv, NEW h \in Handlers, Serve(h)
    PROVE  \/ UNCHANGED <<account, book>>
           \/ \E a \in Accounts, doc \in Doc, new \in Doc : Writing(h, a, doc, new)
  <1>. DEFINE i == job[h]
  <1>1. /\ JobOK(i, txn) /\ i \in Job
        /\ book \in [Accounts -> BookEntry] /\ account \in [Accounts -> Doc \cup {Nil}]
        /\ \A a \in Accounts : book[a].bal \in Int /\ book[a].spent \in Nat
    BY DEF TypeInv, TypeOK, StoreTypeOK, JobOK, BookEntry
  <1>2. CASE Debit(h)
    <2>1. /\ i.src \in Accounts /\ i.payer \in Doc /\ i.amount \in Amounts
          /\ CopyOf(i, i.src, i.payer)
      BY <1>1, <1>2 DEF Debit, At, JobOK, KnowsRequest, HasCopies, HoldsPayer,
                        Paying, CopyOf
    <2>0. CASE ~ Found(i.src)
      BY <1>1, <1>2, <2>1, <2>0 DEF Debit, Noted, UpdateAccount, Found
    <2>. SUFFICES ASSUME Found(i.src) PROVE \E a \in Accounts, doc \in Doc, new \in Doc :
                                             Writing(h, a, doc, new)
      BY <2>0
    <2>2. /\ UpdateAccount(i.src, Debited(i.payer, i.amount))
          /\ book' = [book EXCEPT ![i.src].bal = @ - i.amount,
                                  ![i.src].out = @ + i.amount]
      BY <1>2 DEF Debit, Noted
    <2>3. Debited(i.payer, i.amount) \in Doc
      BY <2>1, DocArithmetic
    <2>4. Writing(h, i.src, i.payer, Debited(i.payer, i.amount))
      BY <1>1, <2>1, <2>2, TransferAssumption DEF Writing, Debited, Doc, BookEntry
    <2>. QED
      BY <2>1, <2>3, <2>4
  <1>3. CASE Credit(h)
    <2>1. /\ i.dst \in Accounts /\ i.payee \in Doc /\ i.amount \in Amounts
          /\ CopyOf(i, i.dst, i.payee)
      BY <1>1, <1>3 DEF Credit, At, JobOK, KnowsRequest, KnowsParties, HoldsPayer,
                        HoldsPayee, Job, Paying, CopyOf
    <2>0. CASE ~ Found(i.dst)
      BY <1>1, <1>3, <2>1, <2>0 DEF Credit, Noted, UpdateAccount, Found
    <2>. SUFFICES ASSUME Found(i.dst) PROVE \E a \in Accounts, doc \in Doc, new \in Doc :
                                             Writing(h, a, doc, new)
      BY <2>0
    <2>2. /\ UpdateAccount(i.dst, Credited(i.payee, i.amount))
          /\ book' = [book EXCEPT ![i.dst].bal = @ + i.amount]
      BY <1>3 DEF Credit, Noted
    <2>3. Credited(i.payee, i.amount) \in Doc
      BY <2>1, DocArithmetic
    <2>4. Writing(h, i.dst, i.payee, Credited(i.payee, i.amount))
      BY <1>1, <2>1, <2>2, TransferAssumption DEF Writing, Credited, Doc, BookEntry
    <2>. QED
      BY <2>1, <2>3, <2>4
  <1>4. CASE GiveBack(h)
    <2>1. /\ i.src \in Accounts /\ i.payer \in Doc /\ i.amount \in Amounts
          /\ CopyOf(i, i.src, i.payer)
      BY <1>1, <1>4 DEF GiveBack, At, JobOK, KnowsRequest, HasCopies, HoldsPayer,
                        Refunding, CopyOf
    <2>0. CASE ~ Found(i.src)
      BY <1>1, <1>4, <2>1, <2>0 DEF GiveBack, Noted, UpdateAccount, Found
    <2>. SUFFICES ASSUME Found(i.src) PROVE \E a \in Accounts, doc \in Doc, new \in Doc :
                                             Writing(h, a, doc, new)
      BY <2>0
    <2>2. /\ UpdateAccount(i.src, Credited(i.payer, i.amount))
          /\ book' = [book EXCEPT ![i.src].bal = @ + i.amount]
      BY <1>4 DEF GiveBack, Noted
    <2>3. Credited(i.payer, i.amount) \in Doc
      BY <2>1, DocArithmetic
    <2>4. Writing(h, i.src, i.payer, Credited(i.payer, i.amount))
      BY <1>1, <2>1, <2>2, TransferAssumption DEF Writing, Credited, Doc, BookEntry
    <2>. QED
      BY <2>1, <2>3, <2>4
  <1>5. CASE TakeBack(h)
    <2>1. /\ i.dst \in Accounts /\ i.payee \in Doc /\ i.amount \in Amounts
          /\ CopyOf(i, i.dst, i.payee)
      BY <1>1, <1>5 DEF TakeBack, At, JobOK, KnowsRequest, KnowsParties, HasCopies,
                        HoldsPayer, HoldsPayee, Refunding, CopyOf
    <2>0. CASE ~ Found(i.dst)
      BY <1>1, <1>5, <2>1, <2>0 DEF TakeBack, Noted, UpdateAccount, Found
    <2>. SUFFICES ASSUME Found(i.dst) PROVE \E a \in Accounts, doc \in Doc, new \in Doc :
                                             Writing(h, a, doc, new)
      BY <2>0
    <2>2. /\ UpdateAccount(i.dst, Debited(i.payee, i.amount))
          /\ book' = [book EXCEPT ![i.dst].bal = @ - i.amount]
      BY <1>5 DEF TakeBack, Noted
    <2>3. Debited(i.payee, i.amount) \in Doc
      BY <2>1, DocArithmetic
    <2>4. Writing(h, i.dst, i.payee, Debited(i.payee, i.amount))
      BY <1>1, <2>1, <2>2, TransferAssumption DEF Writing, Debited, Doc, BookEntry
    <2>. QED
      BY <2>1, <2>3, <2>4
  <1>6. CASE HookWrite(h)
    <2>1. /\ i.src \in Accounts /\ i.payer \in Doc /\ i.amount \in Amounts
          /\ CopyOf(i, i.src, i.payer)
      BY <1>1, <1>6 DEF HookWrite, At, JobOK, KnowsRequest, HasCopies, HoldsPayer,
                        Saving, CopyOf
    <2>0. CASE ~ Found(i.src)
      BY <1>1, <1>6, <2>1, <2>0 DEF HookWrite, Noted, UpdateAccount, Found
    <2>. SUFFICES ASSUME Found(i.src) PROVE \E a \in Accounts, doc \in Doc, new \in Doc :
                                             Writing(h, a, doc, new)
      BY <2>0
    <2>2. /\ UpdateAccount(i.src, Charged(i.payer, i.amount))
          /\ book' = [book EXCEPT ![i.src].spent = @ + i.amount]
      BY <1>6 DEF HookWrite, Noted
    <2>3. Charged(i.payer, i.amount) \in Doc
      BY <2>1, DocArithmetic
    <2>4. Writing(h, i.src, i.payer, Charged(i.payer, i.amount))
      BY <1>1, <2>1, <2>2, TransferAssumption DEF Writing, Charged, Doc, BookEntry
    <2>. QED
      BY <2>1, <2>3, <2>4
  <1>7. CASE Submit(h)
    BY <1>7, SubmitSteps DEF storeVars
  <1>8. CASE \/ ReadPayer(h) \/ RefusePayer(h) \/ FindPayee(h) \/ ReadPayee(h)
             \/ PayeeMissing(h) \/ ReadTo(h) \/ ReadFrom(h) \/ Record(h)
             \/ HookRead(h) \/ SetDefaultAcc(h) \/ Abort(h)
    BY <1>8 DEF ReadPayer, RefusePayer, FindPayee, ReadPayee, PayeeMissing, ReadTo,
                ReadFrom, Record, HookRead, SetDefaultAcc, Abort, storeVars, Unrecorded
  <1>. QED
    BY <1>2, <1>3, <1>4, <1>5, <1>6, <1>7, <1>8 DEF Serve, Advance

-----------------------------------------------------------------------------
(* What is held                                                            *)

\* A copy is newly read, or was held before.
LEMMA CopySteps ==
    ASSUME TypeInv, NEW h \in Handlers, Serve(h)
    PROVE  LET i == job[h]  j == job'[h]
           IN  /\ HoldsPayer(j) => \/ j.payer = account[j.src] /\ UNCHANGED account
                                   \/ HoldsPayer(i) /\ j.src = i.src /\ j.payer = i.payer
               /\ HoldsPayee(j) => \/ j.payee = account[j.dst] /\ UNCHANGED account
                                   \/ HoldsPayee(i) /\ j.dst = i.dst /\ j.payee = i.payee
  <1>. DEFINE i == job[h]
              j == job'[h]
  <1>1. CASE Submit(h)
    BY <1>1, SubmitSteps DEF Loaded, HoldsPayer, HoldsPayee, storeVars
  <1>2. CASE ReadPayer(h) \/ FindPayee(h) \/ ReadPayee(h)
    <2>1. UNCHANGED account
      BY <1>2 DEF ReadPayer, FindPayee, ReadPayee, storeVars
    <2>. QED
      BY <1>2, <2>1, PaySteps DEF HoldsPayer, HoldsPayee, Kept, Route, Idle
  <1>3. CASE Debit(h) \/ Credit(h)
    BY <1>3, PaySteps DEF HoldsPayer, HoldsPayee, Kept, Route
  <1>4. CASE ReadTo(h) \/ ReadFrom(h)
    <2>1. UNCHANGED account
      BY <1>4 DEF ReadTo, ReadFrom, storeVars
    <2>. QED
      BY <1>4, <2>1, RefundSteps DEF HoldsPayer, HoldsPayee, Kept, Route, Idle
  <1>5. CASE GiveBack(h) \/ TakeBack(h)
    BY <1>5, RefundSteps DEF HoldsPayer, HoldsPayee, Kept, Route
  <1>6. CASE Record(h)
    BY <1>6, SaveSteps DEF HoldsPayer, HoldsPayee
  <1>7. CASE HookRead(h)
    <2>1. UNCHANGED account
      BY <1>7 DEF HookRead, storeVars
    <2>. QED
      BY <1>7, <2>1, SaveSteps DEF HoldsPayer, HoldsPayee, Idle
  <1>8. CASE \/ HookWrite(h) \/ RefusePayer(h) \/ PayeeMissing(h)
             \/ SetDefaultAcc(h) \/ Abort(h)
    BY <1>8, SaveSteps DEF HoldsPayer, HoldsPayee, Idle
  <1>. QED
    BY <1>1, <1>2, <1>3, <1>4, <1>5, <1>6, <1>7, <1>8 DEF Serve, Advance

\* Who writes an account that is not contended is the only one to hold it, and
\* holds it in one role.
LEMMA HeldOnce ==
    ASSUME ExactInv, NEW h \in Handlers, NEW a \in Accounts \ contended,
           NEW doc, CopyOf(job[h], a, doc)
    PROVE  /\ \A g \in Handlers \ {h} :
                ~ (HoldsPayer(job[g]) /\ job[g].src = a)
                /\ ~ (HoldsPayee(job[g]) /\ job[g].dst = a)
           /\ ~ (/\ HoldsPayer(job[h]) /\ job[h].src = a
                 /\ HoldsPayee(job[h]) /\ job[h].dst = a)
  <1>1. a \notin Overlap
    BY DEF ExactInv
  <1>2. a \in Held(h)
    BY DEF CopyOf, Held
  <1>. QED
    BY <1>1, <1>2 DEF Overlap, Held

\* A handler that writes an account lets go of the copy it has written.
LEMMA LetGo ==
    ASSUME TypeInv, NEW h \in Handlers, Serve(h), ~ UNCHANGED account
    PROVE  /\ HoldsPayer(job[h]) => ~ HoldsPayer(job'[h])
           /\ ~ HoldsPayer(job[h]) => ~ HoldsPayee(job'[h])
  <1>1. Debit(h) \/ Credit(h) \/ GiveBack(h) \/ TakeBack(h) \/ HookWrite(h)
    BY Writes
  <1>. QED
    BY <1>1, PaySteps, RefundSteps, SaveSteps DEF HoldsPayer, HoldsPayee, Idle

-----------------------------------------------------------------------------
(* The invariant                                                           *)

\* The invariant holds at the start, when no copy is held.
LEMMA InitExact == Init => ExactInv
  <1>. SUFFICES ASSUME Init PROVE ExactInv
    OBVIOUS
  <1>1. TypeInv
    BY InitType
  <1>2. \A h \in Handlers : ~ HoldsPayer(job[h]) /\ ~ HoldsPayee(job[h])
    BY DEF Init, Idle, HoldsPayer, HoldsPayee
  <1>3. Overlap = {}
    BY <1>2 DEF Overlap, Held
  <1>4. CopiesExact
    BY <1>2 DEF CopiesExact, CopyExact
  <1>5. ExclusiveIsExact
    BY DEF Init, StoreInit, ExclusiveIsExact
  <1>. QED
    BY <1>1, <1>3, <1>4, <1>5 DEF ExactInv

\* A step of a handler.
LEMMA ServeExact ==
    ASSUME ExactInv, NEW h \in Handlers, Serve(h)
    PROVE  ExactInv'
  <1>. DEFINE i == job[h]
              j == job'[h]
  <1>1. /\ TypeInv /\ CopiesExact /\ ExclusiveIsExact
        /\ account \in [Accounts -> Doc \cup {Nil}] /\ Nil \notin Doc
        /\ \A a \in Accounts : book[a] \in BookEntry
    BY StoreAssumption DEF ExactInv, TypeInv, TypeOK, StoreTypeOK
  <1>2. TypeInv'
    BY <1>1, ServeType
  <1>3. contended' = contended \cup Overlap'
    BY DEF Serve
  <1>4. \A g \in Handlers \ {h} : job'[g] = job[g]
    BY <1>1, OthersKeepJobs
  <1>. SUFFICES ASSUME NEW a \in Accounts \ contended, account'[a] # Nil
                PROVE  /\ account'[a].bal = book'[a].bal
                       /\ account'[a].spent = book'[a].spent
                       /\ \A g \in Handlers : CopyExact(job[g], a)'
    BY <1>2, <1>3 DEF ExactInv, ExclusiveIsExact, CopiesExact, Found
  <1>5. CASE UNCHANGED <<account, book>>
    <2>1. Found(a)
      BY <1>5 DEF Found
    <2>2. \A g \in Handlers : CopyExact(job[g], a)
      BY <1>1, <2>1 DEF CopiesExact
    <2>3. ASSUME NEW g \in Handlers, g # h PROVE CopyExact(job[g], a)'
      BY <1>4, <1>5, <2>2, <2>3 DEF CopyExact
    <2>4. CopyExact(job[h], a)'
      <3>1. HoldsPayer(j) /\ j.src = a => j.payer = account'[a]
        BY <1>1, <1>5, <2>2, CopySteps DEF CopyExact
      <3>2. HoldsPayee(j) /\ j.dst = a => j.payee = account'[a]
        BY <1>1, <1>5, <2>2, CopySteps DEF CopyExact
      <3>. QED
        BY <3>1, <3>2 DEF CopyExact
    <2>5. account'[a].bal = book'[a].bal /\ account'[a].spent = book'[a].spent
      BY <1>1, <1>5, <2>1 DEF ExclusiveIsExact
    <2>. QED
      BY <2>3, <2>4, <2>5
  <1>6. ASSUME ~ UNCHANGED <<account, book>>
        PROVE  /\ account'[a].bal = book'[a].bal
               /\ account'[a].spent = book'[a].spent
               /\ \A g \in Handlers : CopyExact(job[g], a)'
    <2>1. PICK b \in Accounts, doc \in Doc, new \in Doc : Writing(h, b, doc, new)
      BY <1>1, <1>6, WriteSteps
    <2>2. /\ Found(a)
          /\ a # b => account'[a] = account[a] /\ book'[a] = book[a]
          /\ a = b => account'[a] = new
      BY <1>1, <2>1 DEF Writing, UpdateAccount, Found
    <2>3. /\ \A g \in Handlers : CopyExact(job[g], a)
          /\ account[a].bal = book[a].bal /\ account[a].spent = book[a].spent
      BY <1>1, <2>2 DEF CopiesExact, ExclusiveIsExact
    <2>4. a = b => doc = account[a]
      BY <2>1, <2>3 DEF Writing, CopyOf, CopyExact
    <2>5. account'[a].bal = book'[a].bal /\ account'[a].spent = book'[a].spent
      <3>1. CASE a = b
        <4>1. /\ new.bal - account[a].bal = book'[a].bal - book[a].bal
              /\ new.spent - account[a].spent = book'[a].spent - book[a].spent
          BY <2>1, <2>4, <3>1 DEF Writing
        <4>2. /\ new.bal \in Int /\ new.spent \in Int
              /\ book[a].bal \in Int /\ book[a].spent \in Int
              /\ book'[a].bal \in Int /\ book'[a].spent \in Int
          BY <1>1, <1>2 DEF TypeInv, TypeOK, Doc, BookEntry
        <4>. QED
          BY <2>2, <2>3, <3>1, <4>1, <4>2
      <3>2. CASE a # b
        BY <2>2, <2>3, <3>2
      <3>. QED
        BY <3>1, <3>2
    <2>6. ASSUME NEW g \in Handlers, g # h PROVE CopyExact(job[g], a)'
      <3>1. CASE a = b
        <4>1. /\ ~ (HoldsPayer(job[g]) /\ job[g].src = a)
              /\ ~ (HoldsPayee(job[g]) /\ job[g].dst = a)
          BY <2>1, <2>6, <3>1, HeldOnce DEF Writing
        <4>. QED
          BY <1>4, <2>6, <4>1 DEF CopyExact
      <3>2. CASE a # b
        BY <1>4, <2>2, <2>3, <2>6, <3>2 DEF CopyExact
      <3>. QED
        BY <3>1, <3>2
    <2>7. CopyExact(job[h], a)'
      <3>1. CASE UNCHANGED account
        <4>1. HoldsPayer(j) /\ j.src = a => j.payer = account'[a]
          BY <1>1, <2>3, <3>1, CopySteps DEF CopyExact
        <4>2. HoldsPayee(j) /\ j.dst = a => j.payee = account'[a]
          BY <1>1, <2>3, <3>1, CopySteps DEF CopyExact
        <4>. QED
          BY <4>1, <4>2 DEF CopyExact
      <3>2. CASE ~ UNCHANGED account
        <4>1. ~ HoldsPayer(j)
          BY <1>1, <3>2, LetGo, CopySteps
        <4>2. ASSUME HoldsPayee(j), j.dst = a PROVE j.payee = account'[a]
          <5>1. HoldsPayer(i) /\ HoldsPayee(i) /\ i.dst = a /\ i.payee = j.payee
            BY <1>1, <3>2, <4>2, LetGo, CopySteps
          <5>2. a # b
            BY <2>1, <5>1, HeldOnce DEF Writing, CopyOf
          <5>. QED
            BY <2>2, <2>3, <5>1, <5>2 DEF CopyExact
        <4>. QED
          BY <4>1, <4>2 DEF CopyExact
      <3>. QED
        BY <3>1, <3>2
    <2>. QED
      BY <2>5, <2>6, <2>7
  <1>. QED
    BY <1>5, <1>6

\* Every step keeps the invariant.
LEMMA StepExact == ExactInv /\ [Next]_vars => ExactInv'
  <1>. SUFFICES ASSUME ExactInv, [Next]_vars PROVE ExactInv'
    OBVIOUS
  <1>1. /\ TypeInv /\ TypeInv' /\ CopiesExact /\ ExclusiveIsExact
        /\ Overlap \subseteq contended
        /\ account \in [Accounts -> Doc \cup {Nil}] /\ Nil \notin Doc
        /\ book \in [Accounts -> BookEntry]
    BY StepType, StoreAssumption DEF ExactInv, TypeInv, TypeOK, StoreTypeOK
  <1>2. ASSUME NEW h \in Handlers, Serve(h) PROVE ExactInv'
    BY <1>2, ServeExact
  <1>3. ASSUME NEW a \in Accounts, SetLimit(a) PROVE ExactInv'
    <2>1. PICK cap \in Caps : ChangeLimit(a, cap)
      BY <1>3 DEF SetLimit
    <2>2. /\ UNCHANGED job /\ Found(a)
          /\ account' = [account EXCEPT ![a] =
               [account[a] EXCEPT !.cap = cap, !.spent = 0]]
          /\ book' = [book EXCEPT ![a] = [book[a] EXCEPT !.spent = 0, !.out = 0]]
      BY <2>1 DEF ChangeLimit, UpdateLimit, handlerVars
    <2>3. contended' = contended \cup {b \in {a} : \E h \in Handlers : b \in Held(h)}
      BY <1>3 DEF SetLimit
    <2>4. Overlap' \subseteq contended'
      BY <1>1, <2>2, <2>3 DEF Overlap, Held
    <2>5. CopiesExact'
      <3>. SUFFICES ASSUME NEW b \in Accounts \ contended', account'[b] # Nil,
                           NEW h \in Handlers
                    PROVE  CopyExact(job[h], b)'
        BY DEF CopiesExact, Found
      <3>1. CASE b = a
        <4>1. b \notin Held(h)
          BY <2>3, <3>1
        <4>. QED
          BY <2>2, <4>1 DEF Held, CopyExact
      <3>2. CASE b # a
        <4>1. account'[b] = account[b] /\ b \in Accounts \ contended
          BY <1>1, <2>2, <2>3, <3>2
        <4>2. CopyExact(job[h], b)
          BY <1>1, <4>1 DEF CopiesExact, Found
        <4>. QED
          BY <2>2, <4>1, <4>2 DEF CopyExact
      <3>. QED
        BY <3>1, <3>2
    <2>6. ExclusiveIsExact'
      <3>. SUFFICES ASSUME NEW b \in Accounts \ contended', account'[b] # Nil
                    PROVE  /\ account'[b].bal = book'[b].bal
                           /\ account'[b].spent = book'[b].spent
        BY DEF ExclusiveIsExact, Found
      <3>1. CASE b = a
        <4>1. account[a] \in Doc /\ book[a] \in BookEntry
          BY <1>1, <2>2 DEF Found
        <4>2. account[a].bal = book[a].bal
          BY <1>1, <2>2, <2>3, <3>1 DEF ExclusiveIsExact
        <4>. QED
          BY <1>1, <2>2, <3>1, <4>1, <4>2 DEF Doc, BookEntry
      <3>2. CASE b # a
        BY <1>1, <2>2, <2>3, <3>2 DEF ExclusiveIsExact, Found
      <3>. QED
        BY <3>1, <3>2
    <2>. QED
      BY <1>1, <2>4, <2>5, <2>6 DEF ExactInv
  <1>4. ASSUME NEW a \in Accounts, Delete(a) PROVE ExactInv'
    <2>1. /\ account' = [account EXCEPT ![a] = Nil]
          /\ UNCHANGED <<job, book, contended>>
      BY <1>4 DEF Delete, DeleteAccount, handlerVars, historyVars
    <2>2. \A b \in Accounts : account'[b] # Nil => account'[b] = account[b]
      BY <1>1, <2>1
    <2>3. Overlap' \subseteq contended'
      BY <1>1, <2>1 DEF Overlap, Held
    <2>4. CopiesExact'
      BY <1>1, <2>1, <2>2 DEF CopiesExact, CopyExact, Found
    <2>5. ExclusiveIsExact'
      BY <1>1, <2>1, <2>2 DEF ExclusiveIsExact, Found
    <2>. QED
      BY <1>1, <2>3, <2>4, <2>5 DEF ExactInv
  <1>5. CASE UNCHANGED vars
    <2>1. UNCHANGED <<account, job, book, contended>>
      BY <1>5 DEF vars, storeVars, handlerVars, historyVars
    <2>. QED
      BY <1>1, <2>1 DEF ExactInv, Overlap, Held, CopiesExact, CopyExact,
                        ExclusiveIsExact, Found
  <1>. QED
    BY <1>2, <1>3, <1>4, <1>5 DEF Next, Rest

\* Whole documents that are written from copies are as exact as increments, on
\* every account on which no two uses of a copy have overlapped: whatever
\* happens to the other accounts, and after any crash, deletion or new limit.
THEOREM ExactWhereExclusive == Spec => []ExclusiveIsExact
  <1>1. ExactInv => ExclusiveIsExact
    BY DEF ExactInv
  <1>. QED
    BY <1>1, InitExact, StepExact, PTL DEF Spec
-----------------------------------------------------------------------------
(* Money is accounted for                                                  *)

\* The amount of each transaction, also of one that is not saved yet, or never
\* is because the handler that was to save it is gone.
Names(amt) ==
    /\ amt \in [Txns -> Nat]
    /\ \A t \in Txns : txn[t] # Nil => amt[t] = txn[t].amount
    /\ \A h \in Handlers : job[h].tx # 0 => amt[job[h].tx] = job[h].amount

\* The writes of a transaction that put money somewhere, less those that take it.
Net(e) == e.paid + e.repaid - e.drawn - e.clawed

Booked == SumFunctionOnSet([a \in Accounts |-> book[a].bal], Accounts)

Flow(amt) == SumFunctionOnSet([t \in Txns |-> amt[t] * Net(trail[t])], Txns)

\* What the increments of all accounts come to is what the transactions moved.
Balanced(amt) == Booked = Opening * Cardinality(Accounts) + Flow(amt)

\* The numbers of requests to come have not been used.
Unused ==
    /\ \A h \in Handlers : job[h].tx <= accepted
    /\ \A t \in Txns : t > accepted => Net(trail[t]) = 0

MoneyInv ==
    /\ StagesInv
    /\ ExactInv
    /\ Unused
    /\ \E amt : Names(amt) /\ Balanced(amt)

\* The set of transactions is finite, and what is added up are integers.
LEMMA Addends ==
    ASSUME TypeInv
    PROVE  /\ IsFiniteSet(Txns) /\ IsFiniteSet(Accounts)
           /\ \A a \in Accounts : book[a].bal \in Int
           /\ \A t \in Txns : Net(trail[t]) \in Int
           /\ \A amt \in [Txns -> Nat] : \A t \in Txns : amt[t] * Net(trail[t]) \in Int
  <1>1. IsFiniteSet(Txns)
    BY TransferAssumption, FS_Interval DEF Txns
  <1>2. \A a \in Accounts : book[a].bal \in Int
    BY DEF TypeInv, TypeOK, BookEntry
  <1>3. \A t \in Txns : Net(trail[t]) \in Int
    BY DEF TypeInv, TypeOK, TrailEntry, Net
  <1>4. \A n \in Nat, k \in Int : n * k \in Int
    OBVIOUS
  <1>5. ASSUME NEW amt \in [Txns -> Nat], NEW t \in Txns
        PROVE  amt[t] * Net(trail[t]) \in Int
    <2>1. amt[t] \in Nat /\ Net(trail[t]) \in Int
      BY <1>3
    <2>. HIDE DEF Net
    <2>. QED
      BY <1>4, <2>1
  <1>. QED
    BY <1>1, <1>2, <1>3, <1>5, FinitelyManyAccounts

\* One write: what the account gains the transaction gains.
LEMMA WriteBalanced ==
    ASSUME TypeInv, TypeInv', NEW amt \in [Txns -> Nat], Balanced(amt),
           NEW a \in Accounts, NEW t \in Txns, NEW k \in Int,
           book'[a].bal = book[a].bal + k,
           \A b \in Accounts \ {a} : book'[b].bal = book[b].bal,
           amt[t] * Net(trail'[t]) = amt[t] * Net(trail[t]) + k,
           \A u \in Txns \ {t} : Net(trail'[u]) = Net(trail[u])
    PROVE  Balanced(amt)'
  <1>. DEFINE f == [b \in Accounts |-> book[b].bal]
              e == [b \in Accounts |-> book'[b].bal]
              p == [u \in Txns |-> amt[u] * Net(trail[u])]
              q == [u \in Txns |-> amt[u] * Net(trail'[u])]
  <1>0. IsFiniteSet(Txns) /\ IsFiniteSet(Accounts)
    BY Addends
  <1>1. SumFunctionOnSet(e, Accounts) = SumFunctionOnSet(f, Accounts) + k
    <2>1. /\ \A b \in Accounts : f[b] \in Int
          /\ e[a] = f[a] + k
          /\ \A b \in Accounts \ {a} : e[b] = f[b]
      BY Addends
    <2>. HIDE DEF e, f
    <2>. QED
      BY <1>0, <2>1, SumChange
  <1>2. SumFunctionOnSet(q, Txns) = SumFunctionOnSet(p, Txns) + k
    <2>1. /\ \A u \in Txns : p[u] \in Int
          /\ q[t] = p[t] + k
          /\ \A u \in Txns \ {t} : q[u] = p[u]
      <3>. HIDE DEF Net
      <3>. QED
        BY Addends
    <2>. HIDE DEF p, q
    <2>. QED
      BY <1>0, <2>1, SumChange
  <1>3. SumFunctionOnSet(f, Accounts) =
          Opening * Cardinality(Accounts) + SumFunctionOnSet(p, Txns)
    BY DEF Balanced, Booked, Flow
  <1>4. /\ SumFunctionOnSet(p, Txns) \in Int
        /\ Opening * Cardinality(Accounts) \in Int
    <2>1. \A u \in Txns : p[u] \in Int
      BY Addends
    <2>2. SumFunctionOnSet(p, Txns) \in Int
      <3>. HIDE DEF p
      <3>. QED
        BY <1>0, <2>1, SumType
    <2>3. Cardinality(Accounts) \in Nat /\ Opening \in Nat
      BY <1>0, FS_CardinalityType, StoreAssumption
    <2>4. \A m, n \in Nat : m * n \in Int
      OBVIOUS
    <2>. QED
      BY <2>2, <2>3, <2>4
  <1>5. SumFunctionOnSet(e, Accounts) =
          Opening * Cardinality(Accounts) + SumFunctionOnSet(q, Txns)
    <2>. HIDE DEF e, f, p, q
    <2>. QED
      BY <1>1, <1>2, <1>3, <1>4
  <1>. QED
    BY <1>5 DEF Balanced, Booked, Flow

\* A step that writes no balance, with other amounts for unused numbers.
LEMMA StillBalanced ==
    ASSUME TypeInv, NEW amt, Balanced(amt), NEW new,
           \A a \in Accounts : book'[a].bal = book[a].bal,
           \A t \in Txns : new[t] * Net(trail'[t]) = amt[t] * Net(trail[t])
    PROVE  Balanced(new)'
  <1>. DEFINE f == [b \in Accounts |-> book[b].bal]
              e == [b \in Accounts |-> book'[b].bal]
              p == [u \in Txns |-> amt[u] * Net(trail[u])]
              q == [u \in Txns |-> new[u] * Net(trail'[u])]
  <1>1. SumFunctionOnSet(e, Accounts) = SumFunctionOnSet(f, Accounts)
    <2>1. e = f
      OBVIOUS
    <2>. QED
      BY <2>1
  <1>2. SumFunctionOnSet(q, Txns) = SumFunctionOnSet(p, Txns)
    <2>1. p = q
      OBVIOUS
    <2>. QED
      BY <2>1
  <1>. QED
    BY <1>1, <1>2 DEF Balanced, Booked, Flow

\* The distributive law, for a transaction whose writes are counted.
LEMMA OneMore ==
    ASSUME NEW n \in Int, NEW k \in Int
    PROVE  n * (k + 1) = n * k + n /\ n * (k - 1) = n * k - n
  OBVIOUS

\* What the four writes do to it.
LEMMA NetAfter ==
    ASSUME TypeInv, NEW h \in Handlers, Counts(h), job[h].tx \in Txns
    PROVE  LET old == trail[job[h].tx]  new == trail'[job[h].tx]
           IN  /\ Moves(h, "debit", "credit") /\ Found(job[h].src) => Net(new) = Net(old) - 1
               /\ Moves(h, "credit", "record") /\ Found(job[h].dst) => Net(new) = Net(old) + 1
               /\ Moves(h, "giveBack", "takeBack") /\ Found(job[h].src) => Net(new) = Net(old) + 1
               /\ Moves(h, "takeBack", "record") /\ Found(job[h].dst) => Net(new) = Net(old) - 1
  <1>. DEFINE old == trail[job[h].tx]
              new == trail'[job[h].tx]
  <1>1. /\ old.drawn \in Nat /\ old.paid \in Nat
        /\ old.repaid \in Nat /\ old.clawed \in Nat
    BY DEF TypeInv, TypeOK, TrailEntry
  <1>2. /\ new.drawn = Tick(old.drawn, Moves(h, "debit", "credit") /\ Found(job[h].src))
        /\ new.paid = Tick(old.paid, Moves(h, "credit", "record") /\ Found(job[h].dst))
        /\ new.repaid = Tick(old.repaid, Moves(h, "giveBack", "takeBack") /\ Found(job[h].src))
        /\ new.clawed = Tick(old.clawed, Moves(h, "takeBack", "record") /\ Found(job[h].dst))
    BY DEF Counts, Tick
  <1>. HIDE DEF old, new
  <1>. QED
    BY <1>1, <1>2 DEF Tick, Net, Moves, old, new

\* The four writes of a balance.
LEMMA BalanceWrites ==
    ASSUME TypeInv, TypeInv', NEW h \in Handlers, Serve(h),
           Debit(h) \/ Credit(h) \/ GiveBack(h) \/ TakeBack(h),
           NEW amt, Names(amt), Balanced(amt)
    PROVE  Balanced(amt)'
  <1>. DEFINE i == job[h]
              t == i.tx
              n == i.amount
  <1>1. /\ book \in [Accounts -> BookEntry] /\ JobOK(i, txn)
        /\ \A u \in Txns : /\ trail[u].drawn \in Nat /\ trail[u].paid \in Nat
                           /\ trail[u].repaid \in Nat /\ trail[u].clawed \in Nat
    BY DEF TypeInv, TypeOK, TrailEntry
  <1>2. t \in Txns /\ n \in Nat /\ i.src \in Accounts /\ i.dst \in Accounts
    BY <1>1, TransferAssumption
       DEF Debit, Credit, GiveBack, TakeBack, At, JobOK, KnowsRequest, KnowsParties,
           Paying, Refunding
  <1>3. amt \in [Txns -> Nat] /\ amt[t] = n
    BY <1>2 DEF Names, Txns
  <1>4. Counts(h)
    BY Counted
  <1>5. \A u \in Txns \ {t} : Net(trail'[u]) = Net(trail[u])
    BY <1>4 DEF Counts, Tick, Net
  <1>6. Net(trail[t]) \in Int
    BY <1>1, <1>2 DEF Net
  <1>7. CASE Debit(h)
    <2>0. CASE ~ Found(i.src)
      <3>1. UNCHANGED <<book, trail>>
        BY <1>7, <2>0 DEF Debit, Noted
      <3>. QED
        BY <3>1, StillBalanced
    <2>. SUFFICES ASSUME Found(i.src) PROVE Balanced(amt)'
      BY <2>0
    <2>1. /\ book' = [book EXCEPT ![i.src].bal = @ - n, ![i.src].out = @ + n]
          /\ Moves(h, "debit", "credit")
      BY <1>7, PaySteps DEF Debit, Noted, Moves
    <2>2. /\ book'[i.src].bal = book[i.src].bal - n
          /\ \A b \in Accounts \ {i.src} : book'[b].bal = book[b].bal
          /\ book[i.src].bal \in Int
      BY <1>1, <1>2, <2>1 DEF BookEntry
    <2>3. Net(trail'[t]) = Net(trail[t]) - 1
      BY <1>1, <1>2, <1>4, <2>1, NetAfter
    <2>4. amt[t] * Net(trail'[t]) = amt[t] * Net(trail[t]) - n
      <3>. HIDE DEF Net
      <3>. QED
        BY <1>2, <1>3, <1>6, <2>3, OneMore
    <2>5. amt[t] * Net(trail[t]) \in Int
      BY <1>2, <1>3, Addends
    <2>. DEFINE k == 0 - n
    <2>6. /\ k \in Int /\ book'[i.src].bal = book[i.src].bal + k
          /\ amt[t] * Net(trail'[t]) = amt[t] * Net(trail[t]) + k
      <3>. HIDE DEF Net
      <3>. QED
        BY <1>2, <2>2, <2>4, <2>5
    <2>. HIDE DEF k, Net
    <2>. QED
      BY <1>2, <1>3, <1>5, <2>2, <2>6, WriteBalanced
  <1>8. CASE Credit(h)
    <2>0. CASE ~ Found(i.dst)
      <3>1. UNCHANGED <<book, trail>>
        BY <1>8, <2>0 DEF Credit, Noted
      <3>. QED
        BY <3>1, StillBalanced
    <2>. SUFFICES ASSUME Found(i.dst) PROVE Balanced(amt)'
      BY <2>0
    <2>1. /\ book' = [book EXCEPT ![i.dst].bal = @ + n]
          /\ Moves(h, "credit", "record")
      BY <1>8, PaySteps DEF Credit, Noted, Moves
    <2>2. /\ book'[i.dst].bal = book[i.dst].bal + n
          /\ \A b \in Accounts \ {i.dst} : book'[b].bal = book[b].bal
      BY <1>1, <1>2, <2>1 DEF BookEntry
    <2>3. Net(trail'[t]) = Net(trail[t]) + 1
      BY <1>1, <1>2, <1>4, <2>1, NetAfter
    <2>4. amt[t] * Net(trail'[t]) = amt[t] * Net(trail[t]) + n
      <3>. HIDE DEF Net
      <3>. QED
        BY <1>2, <1>3, <1>6, <2>3, OneMore
    <2>. HIDE DEF Net
    <2>. QED
      BY <1>2, <1>3, <1>5, <2>2, <2>4, WriteBalanced
  <1>9. CASE GiveBack(h)
    <2>0. CASE ~ Found(i.src)
      <3>1. UNCHANGED <<book, trail>>
        BY <1>9, <2>0 DEF GiveBack, Noted
      <3>. QED
        BY <3>1, StillBalanced
    <2>. SUFFICES ASSUME Found(i.src) PROVE Balanced(amt)'
      BY <2>0
    <2>1. /\ book' = [book EXCEPT ![i.src].bal = @ + n]
          /\ Moves(h, "giveBack", "takeBack")
      BY <1>9, RefundSteps DEF GiveBack, Noted, Moves
    <2>2. /\ book'[i.src].bal = book[i.src].bal + n
          /\ \A b \in Accounts \ {i.src} : book'[b].bal = book[b].bal
      BY <1>1, <1>2, <2>1 DEF BookEntry
    <2>3. Net(trail'[t]) = Net(trail[t]) + 1
      BY <1>1, <1>2, <1>4, <2>1, NetAfter
    <2>4. amt[t] * Net(trail'[t]) = amt[t] * Net(trail[t]) + n
      <3>. HIDE DEF Net
      <3>. QED
        BY <1>2, <1>3, <1>6, <2>3, OneMore
    <2>. HIDE DEF Net
    <2>. QED
      BY <1>2, <1>3, <1>5, <2>2, <2>4, WriteBalanced
  <1>10. CASE TakeBack(h)
    <2>0. CASE ~ Found(i.dst)
      <3>1. UNCHANGED <<book, trail>>
        BY <1>10, <2>0 DEF TakeBack, Noted
      <3>. QED
        BY <3>1, StillBalanced
    <2>. SUFFICES ASSUME Found(i.dst) PROVE Balanced(amt)'
      BY <2>0
    <2>1. /\ book' = [book EXCEPT ![i.dst].bal = @ - n]
          /\ Moves(h, "takeBack", "record")
      BY <1>10, RefundSteps DEF TakeBack, Noted, Moves
    <2>2. /\ book'[i.dst].bal = book[i.dst].bal - n
          /\ \A b \in Accounts \ {i.dst} : book'[b].bal = book[b].bal
          /\ book[i.dst].bal \in Int
      BY <1>1, <1>2, <2>1 DEF BookEntry
    <2>3. Net(trail'[t]) = Net(trail[t]) - 1
      BY <1>1, <1>2, <1>4, <2>1, NetAfter
    <2>4. amt[t] * Net(trail'[t]) = amt[t] * Net(trail[t]) - n
      <3>. HIDE DEF Net
      <3>. QED
        BY <1>2, <1>3, <1>6, <2>3, OneMore
    <2>5. amt[t] * Net(trail[t]) \in Int
      BY <1>2, <1>3, Addends
    <2>. DEFINE k == 0 - n
    <2>6. /\ k \in Int /\ book'[i.dst].bal = book[i.dst].bal + k
          /\ amt[t] * Net(trail'[t]) = amt[t] * Net(trail[t]) + k
      <3>. HIDE DEF Net
      <3>. QED
        BY <1>2, <2>2, <2>4, <2>5
    <2>. HIDE DEF k, Net
    <2>. QED
      BY <1>2, <1>3, <1>5, <2>2, <2>6, WriteBalanced
  <1>. QED
    BY <1>7, <1>8, <1>9, <1>10

\* No other step of a handler writes a balance.
LEMMA OtherWrites ==
    ASSUME TypeInv, NEW h \in Handlers, Serve(h),
           ~ Debit(h), ~ Credit(h), ~ GiveBack(h), ~ TakeBack(h)
    PROVE  /\ \A a \in Accounts : book'[a].bal = book[a].bal
           /\ \A t \in Txns : Net(trail'[t]) = Net(trail[t])
  <1>1. book \in [Accounts -> BookEntry] /\ trail \in [Txns -> TrailEntry]
    BY DEF TypeInv, TypeOK
  <1>2. CASE Submit(h)
    <2>1. UNCHANGED <<book, trail>>
      BY <1>2, SubmitSteps
    <2>. QED
      BY <2>1 DEF Net
  <1>3. CASE \/ ReadPayer(h) \/ RefusePayer(h) \/ FindPayee(h) \/ ReadPayee(h)
             \/ PayeeMissing(h) \/ ReadTo(h) \/ ReadFrom(h)
             \/ HookRead(h) \/ SetDefaultAcc(h) \/ Abort(h)
    <2>1. UNCHANGED <<book, trail>>
      BY <1>3 DEF ReadPayer, RefusePayer, FindPayee, ReadPayee, PayeeMissing, ReadTo,
                  ReadFrom, HookRead, SetDefaultAcc, Abort, Unrecorded
    <2>. QED
      BY <2>1 DEF Net
  <1>4. CASE Record(h)
    <2>1. /\ UNCHANGED book
          /\ \/ UNCHANGED trail
             \/ trail' = [trail EXCEPT ![job[h].tx].disputed = @ + 1]
      BY <1>4 DEF Record
    <2>. QED
      BY <1>1, <2>1 DEF Net, TrailEntry
  <1>5. CASE HookWrite(h)
    <2>1. /\ UNCHANGED trail
          /\ \/ UNCHANGED book
             \/ book' = [book EXCEPT ![job[h].src].spent = @ + job[h].amount]
      BY <1>5 DEF HookWrite, Noted
    <2>. QED
      BY <1>1, <2>1 DEF Net, BookEntry
  <1>. QED
    BY <1>2, <1>3, <1>4, <1>5 DEF Serve, Advance

\* Only a request takes a number.
LEMMA AcceptedSteps ==
    ASSUME TypeInv, NEW h \in Handlers, Serve(h)
    PROVE  \/ Submit(h)
           \/ /\ UNCHANGED accepted
              /\ \/ job'[h] = Idle
                 \/ Kept(job[h], job'[h])
  <1>1. Advance(h) \/ Abort(h) => \/ job'[h] = Idle
                                 \/ Kept(job[h], job'[h])
    BY NextStep
  <1>3. Advance(h) \/ Abort(h) => UNCHANGED accepted
    BY DEF Advance, Abort, ReadPayer, RefusePayer, FindPayee, ReadPayee, Debit, Credit,
           PayeeMissing, ReadTo, ReadFrom, GiveBack, TakeBack, Record, HookRead,
           HookWrite, SetDefaultAcc, Unrecorded
  <1>. QED
    BY <1>1, <1>3 DEF Serve

\* A number that has not been used stays so, but for the one that a request takes.
LEMMA UnusedStep ==
    ASSUME MoneyInv, NEW h \in Handlers, Serve(h)
    PROVE  Unused'
  <1>1. /\ TypeInv /\ Unused /\ OwnSlot /\ accepted \in Nat
        /\ Counts(h) /\ job[h] \in Job
    BY Counted DEF MoneyInv, StagesInv, SafetyInv, TypeInv, TypeOK
  <1>2. \A g \in Handlers \ {h} : job'[g] = job[g]
    BY <1>1, OthersKeepJobs
  <1>3. \A t \in Txns : t # job[h].tx => Net(trail'[t]) = Net(trail[t])
    BY <1>1 DEF Counts, Tick, Net
  <1>4. job[h].tx <= accepted /\ \A g \in Handlers : job[g].tx <= accepted
    BY <1>1 DEF Unused
  <1>5. accepted' >= accepted /\ accepted' \in Nat
    BY <1>1, AcceptedSteps, SubmitSteps
  <1>6. \A t \in Txns : t > accepted' => Net(trail'[t]) = 0
    BY <1>1, <1>3, <1>4, <1>5 DEF Unused, Txns, Job
  <1>7. job'[h].tx <= accepted'
    <2>1. CASE Submit(h)
      <3>1. \A t \in Txns : txn[t] # Nil => t <= accepted
        BY <1>1 DEF OwnSlot, Txns
      <3>. DEFINE j == job'[h]
      <3>2. accepted' = accepted + 1 /\ accepted + 1 \in Txns
        BY <1>1, <2>1, SubmitSteps
      <3>3. \/ j.tx = accepted + 1
            \/ j.tx = 0
            \/ j.tx \in Txns /\ txn[j.tx] # Nil
        BY <1>1, <2>1, SubmitSteps DEF Loaded
      <3>4. CASE j.tx = accepted + 1 \/ j.tx = 0
        BY <1>1, <3>2, <3>4
      <3>5. CASE j.tx \in Txns /\ txn[j.tx] # Nil
        <4>1. j.tx <= accepted /\ j.tx \in Nat
          BY <3>1, <3>5 DEF Txns
        <4>. QED
          BY <1>1, <3>2, <4>1
      <3>. QED
        BY <3>3, <3>4, <3>5
    <2>2. CASE UNCHANGED accepted /\ job'[h] = Idle
      BY <1>1, <2>2 DEF Idle
    <2>3. CASE UNCHANGED accepted /\ Kept(job[h], job'[h])
      BY <1>4, <2>3 DEF Kept
    <2>. QED
      BY <1>1, <2>1, <2>2, <2>3, AcceptedSteps
  <1>8. \A g \in Handlers \ {h} : job'[g].tx <= accepted'
    BY <1>1, <1>2, <1>4, <1>5 DEF TypeInv, TypeOK, Job
  <1>. QED
    BY <1>6, <1>7, <1>8 DEF Unused

\* What has a name keeps it.
LEMMA NamesKept ==
    ASSUME MoneyInv, NEW h \in Handlers, Serve(h), ~ Submit(h), NEW amt, Names(amt)
    PROVE  Names(amt)'
  <1>1. /\ TypeInv /\ Phases /\ OwnSlot
        /\ \A g \in Handlers : job[g].tx # 0 => amt[job[g].tx] = job[g].amount
        /\ \A t \in Txns : txn[t] # Nil => amt[t] = txn[t].amount
        /\ amt \in [Txns -> Nat]
    BY DEF MoneyInv, StagesInv, SafetyInv, Names
  <1>2. KeepsTerms
    BY ServeSafety DEF MoneyInv, StagesInv
  <1>3. ASSUME NEW g \in Handlers, job'[g].tx # 0
        PROVE  amt[job'[g].tx] = job'[g].amount
    <2>1. CASE g # h
      BY <1>1, <1>3, <2>1, OthersKeepJobs
    <2>2. CASE g = h
      BY <1>1, <1>3, <2>2, AcceptedSteps DEF Kept, Idle
    <2>. QED
      BY <2>1, <2>2
  <1>4. ASSUME NEW t \in Txns, txn'[t] # Nil
        PROVE  amt[t] = txn'[t].amount
    <2>1. CASE txn[t] # Nil
      BY <1>1, <1>2, <2>1 DEF KeepsTerms
    <2>2. CASE txn[t] = Nil
      <3>1. /\ Record(h) /\ t = job[h].tx
            /\ \/ txn'[t] = [type |-> TypeOf[job[h].op], status |-> Outcome[job[h].op],
                             from |-> job[h].src, to |-> job[h].dst,
                             amount |-> job[h].amount]
               \/ job[h].op \notin Creating
        BY <1>1, <1>4, <2>2, TxnSteps
      <3>2. job[h].op \in Creating
        BY <1>1, <2>2, <3>1 DEF TypeInv, JobOK, WorksOn, Record, At
      <3>3. txn'[t].amount = job[h].amount
        BY <3>1, <3>2
      <3>4. job[h].tx # 0
        BY <3>1 DEF Txns
      <3>. QED
        BY <1>1, <3>1, <3>3, <3>4
    <2>. QED
      BY <2>1, <2>2
  <1>. QED
    BY <1>1, <1>3, <1>4 DEF Names

\* A request gives the number it takes the amount it is about.
LEMMA NamesGiven ==
    ASSUME MoneyInv, TypeInv', NEW h \in Handlers, Serve(h), Submit(h), NEW amt, Names(amt)
    PROVE  \E new \in [Txns -> Nat] :
             /\ Names(new)'
             /\ \A u \in Txns : u # accepted + 1 => new[u] = amt[u]
  <1>. DEFINE j == job'[h]
              t == accepted + 1
  <1>1. /\ TypeInv /\ Unused /\ OwnSlot /\ accepted \in Nat
        /\ \A g \in Handlers : job[g].tx # 0 => amt[job[g].tx] = job[g].amount
        /\ \A u \in Txns : txn[u] # Nil => amt[u] = txn[u].amount
        /\ amt \in [Txns -> Nat]
    BY DEF MoneyInv, StagesInv, SafetyInv, Names, TypeInv, TypeOK
  <1>2. UNCHANGED txn /\ t \in Txns
    <2>1. UNCHANGED <<storeVars, txn, book, trail>> /\ accepted + 1 \in Txns
      BY <1>1, SubmitSteps
    <2>. QED
      BY <2>1
  <1>3. j.amount \in Nat
    <2>1. j \in Job
      BY DEF TypeInv, TypeOK
    <2>2. j.amount \in Amounts \cup {0}
      BY <2>1 DEF Job
    <2>3. \A n \in Amounts \cup {0} : n \in Nat
      BY TransferAssumption
    <2>. QED
      BY <2>2, <2>3
  <1>4. \A g \in Handlers \ {h} : job'[g] = job[g]
    BY <1>1, OthersKeepJobs
  <1>5. \A u \in Txns : txn[u] # Nil => u <= accepted
    BY <1>1 DEF OwnSlot, Txns
  <1>6. \A u \in Txns : u <= accepted => u # t
    BY <1>1 DEF Txns
  <1>. PICK new : new = [amt EXCEPT ![t] = j.amount]
    OBVIOUS
  <1>7. /\ new \in [Txns -> Nat] /\ new[t] = j.amount
        /\ \A u \in Txns : u # t => new[u] = amt[u]
    BY <1>1, <1>2, <1>3
  <1>8. \A u \in Txns : txn'[u] # Nil => new[u] = txn'[u].amount
    <2>. HIDE DEF t
    <2>. QED
      BY <1>1, <1>2, <1>5, <1>6, <1>7
  <1>9. ASSUME NEW g \in Handlers \ {h}, job'[g].tx # 0
        PROVE  new[job'[g].tx] = job'[g].amount
    <2>1. job[g].tx \in Txns /\ job[g].tx <= accepted
      BY <1>1, <1>4, <1>9 DEF Unused, TypeInv, TypeOK, Job, Txns
    <2>. HIDE DEF t
    <2>. QED
      BY <1>1, <1>4, <1>6, <1>7, <1>9, <2>1
  <1>10. ASSUME j.tx # 0
         PROVE  new[j.tx] = j.amount
    <2>1. \/ j.tx = t
          \/ j.tx \in Txns /\ txn[j.tx] # Nil /\ j.amount = txn[j.tx].amount
      BY <1>1, <1>10, SubmitSteps DEF Loaded
    <2>. HIDE DEF t, j
    <2>. QED
      BY <1>1, <1>5, <1>6, <1>7, <2>1
  <1>11. \A g \in Handlers : job'[g].tx # 0 => new[job'[g].tx] = job'[g].amount
    BY <1>9, <1>10
  <1>12. Names(new)'
    BY <1>7, <1>8, <1>11 DEF Names
  <1>. QED
    BY <1>7, <1>12

\* A step of a handler.
LEMMA ServeMoney ==
    ASSUME MoneyInv, StagesInv', ExactInv', NEW h \in Handlers, Serve(h)
    PROVE  MoneyInv'
  <1>1. /\ TypeInv /\ TypeInv' /\ Unused /\ accepted \in Nat
    BY DEF MoneyInv, StagesInv, SafetyInv, TypeInv, TypeOK
  <1>2. Unused'
    BY UnusedStep
  <1>3. PICK amt : Names(amt) /\ Balanced(amt)
    BY DEF MoneyInv
  <1>4. CASE Submit(h)
    <2>1. PICK new \in [Txns -> Nat] :
            /\ Names(new)'
            /\ \A u \in Txns : u # accepted + 1 => new[u] = amt[u]
      BY <1>1, <1>3, <1>4, NamesGiven
    <2>2. ~ Debit(h) /\ ~ Credit(h) /\ ~ GiveBack(h) /\ ~ TakeBack(h)
      BY <1>4 DEF Submit, SendMoney, ReqReceiveMoney, ConfirmReceive, RejectReceive,
                  RequestRefund, ApproveRefund, RejectRefund, SuspiciousTransaction,
                  ChangeDefault, Load, Accept, Debit, Credit, GiveBack, TakeBack, At
    <2>3. /\ \A a \in Accounts : book'[a].bal = book[a].bal
          /\ \A t \in Txns : Net(trail'[t]) = Net(trail[t])
      BY <1>1, <2>2, OtherWrites
    <2>4. ASSUME NEW t \in Txns
          PROVE  new[t] * Net(trail'[t]) = amt[t] * Net(trail[t])
      <3>. HIDE DEF Net
      <3>1. CASE t # accepted + 1
        BY <2>1, <2>3, <3>1
      <3>2. CASE t = accepted + 1
        <4>1. t > accepted
          BY <1>1, <3>2
        <4>2. Net(trail[t]) = 0 /\ Net(trail'[t]) = 0
          BY <1>1, <2>3, <4>1 DEF Unused
        <4>3. new[t] \in Nat /\ amt[t] \in Nat
          BY <1>3 DEF Names
        <4>4. \A n \in Nat : n * 0 = 0
          OBVIOUS
        <4>. QED
          BY <4>2, <4>3, <4>4
      <3>. QED
        BY <3>1, <3>2
    <2>5. Balanced(new)'
      BY <1>1, <1>3, <2>3, <2>4, StillBalanced
    <2>. QED
      BY <1>2, <2>1, <2>5 DEF MoneyInv
  <1>5. CASE ~ Submit(h)
    <2>1. Names(amt)'
      BY <1>3, <1>5, NamesKept
    <2>2. CASE Debit(h) \/ Credit(h) \/ GiveBack(h) \/ TakeBack(h)
      <3>1. Balanced(amt)'
        BY <1>1, <1>3, <2>2, BalanceWrites
      <3>. QED
        BY <1>2, <2>1, <3>1 DEF MoneyInv
    <2>3. CASE ~ (Debit(h) \/ Credit(h) \/ GiveBack(h) \/ TakeBack(h))
      <3>1. /\ \A a \in Accounts : book'[a].bal = book[a].bal
            /\ \A t \in Txns : Net(trail'[t]) = Net(trail[t])
        BY <1>1, <2>3, OtherWrites
      <3>2. \A t \in Txns : amt[t] * Net(trail'[t]) = amt[t] * Net(trail[t])
        <4>. HIDE DEF Net
        <4>. QED
          BY <3>1
      <3>3. Balanced(amt)'
        BY <1>1, <1>3, <3>1, <3>2, StillBalanced
      <3>. QED
        BY <1>2, <2>1, <3>3 DEF MoneyInv
    <2>. QED
      BY <2>2, <2>3
  <1>. QED
    BY <1>4, <1>5

\* The steps of account-service and the stuttering ones write no balance.
LEMMA StoreMoney ==
    ASSUME MoneyInv, StagesInv', ExactInv', UNCHANGED <<txn, job, accepted, trail>>,
           \A a \in Accounts : book'[a].bal = book[a].bal
    PROVE  MoneyInv'
  <1>1. TypeInv
    BY DEF MoneyInv, StagesInv, SafetyInv
  <1>2. Unused'
    BY DEF MoneyInv, Unused
  <1>3. PICK amt : Names(amt) /\ Balanced(amt)
    BY DEF MoneyInv
  <1>4. Names(amt)'
    BY <1>3 DEF Names
  <1>5. \A t \in Txns : amt[t] * Net(trail'[t]) = amt[t] * Net(trail[t])
    OBVIOUS
  <1>6. Balanced(amt)'
    BY <1>1, <1>3, <1>5, StillBalanced
  <1>. QED
    BY <1>2, <1>4, <1>6 DEF MoneyInv

\* At the start every account holds the opening balance and nothing was moved.
LEMMA InitMoney == Init => MoneyInv
  <1>. SUFFICES ASSUME Init PROVE MoneyInv
    OBVIOUS
  <1>1. StagesInv /\ ExactInv
    BY InitStages, InitExact
  <1>2. /\ \A h \in Handlers : job[h].tx = 0
        /\ \A t \in Txns : txn[t] = Nil /\ trail[t] = NoTrail
        /\ accepted = 0
    BY DEF Init, Idle
  <1>3. \A t \in Txns : Net(trail[t]) = 0
    BY <1>2 DEF Net, NoTrail
  <1>4. Unused
    BY <1>2, <1>3 DEF Unused
  <1>5. PICK amt : amt = [t \in Txns |-> 0]
    OBVIOUS
  <1>6. Names(amt)
    BY <1>2, <1>5 DEF Names
  <1>7. IsFiniteSet(Accounts) /\ IsFiniteSet(Txns)
    BY FinitelyManyAccounts, TransferAssumption, FS_Interval DEF Txns
  <1>8. Booked = Opening * Cardinality(Accounts)
    <2>. DEFINE f == [a \in Accounts |-> book[a].bal]
    <2>1. \A a \in Accounts : f[a] = Opening
      BY DEF Init
    <2>2. Opening \in Int
      BY StoreAssumption
    <2>. HIDE DEF f
    <2>3. SumFunctionOnSet(f, Accounts) = Opening * Cardinality(Accounts)
      BY <1>7, <2>1, <2>2, SumConstant
    <2>. QED
      BY <2>3 DEF Booked, f
  <1>9. Flow(amt) = 0
    <2>. DEFINE f == [t \in Txns |-> amt[t] * Net(trail[t])]
    <2>1. 0 * 0 = 0
      OBVIOUS
    <2>2. \A t \in Txns : f[t] = 0
      <3>. HIDE DEF Net
      <3>. QED
        BY <1>3, <1>5, <2>1
    <2>. HIDE DEF f
    <2>3. SumFunctionOnSet(f, Txns) = 0 * Cardinality(Txns)
      BY <1>7, <2>2, SumConstant
    <2>4. \A n \in Nat : 0 * n = 0
      OBVIOUS
    <2>5. Cardinality(Txns) \in Nat
      BY <1>7, FS_CardinalityType
    <2>. QED
      BY <2>3, <2>4, <2>5 DEF Flow, f
  <1>10. \A m, n \in Nat : m * n = m * n + 0
    OBVIOUS
  <1>11. Cardinality(Accounts) \in Nat /\ Opening \in Nat
    BY <1>7, FS_CardinalityType, StoreAssumption
  <1>12. Balanced(amt)
    BY <1>8, <1>9, <1>10, <1>11 DEF Balanced
  <1>. QED
    BY <1>1, <1>4, <1>6, <1>12 DEF MoneyInv

\* Every step keeps the invariant.
LEMMA StepMoney == MoneyInv /\ [Next]_vars => MoneyInv'
  <1>. SUFFICES ASSUME MoneyInv, [Next]_vars PROVE MoneyInv'
    OBVIOUS
  <1>1. StagesInv' /\ ExactInv'
    BY StepStages, StepExact DEF MoneyInv
  <1>2. book \in [Accounts -> BookEntry]
    BY DEF MoneyInv, ExactInv, TypeInv, TypeOK
  <1>3. ASSUME NEW h \in Handlers, Serve(h) PROVE MoneyInv'
    BY <1>1, <1>3, ServeMoney
  <1>4. ASSUME NEW a \in Accounts, SetLimit(a) PROVE MoneyInv'
    <2>1. PICK cap \in Caps : ChangeLimit(a, cap)
      BY <1>4 DEF SetLimit
    <2>2. /\ UNCHANGED <<txn, job, accepted, trail>>
          /\ book' = [book EXCEPT ![a].spent = 0, ![a].out = 0]
      BY <2>1 DEF ChangeLimit, handlerVars
    <2>3. \A b \in Accounts : book'[b].bal = book[b].bal
      BY <1>2, <2>2 DEF BookEntry
    <2>. QED
      BY <1>1, <2>2, <2>3, StoreMoney
  <1>5. ASSUME NEW a \in Accounts, Delete(a) PROVE MoneyInv'
    <2>1. UNCHANGED <<txn, job, accepted, trail, book>>
      BY <1>5 DEF Delete, handlerVars, historyVars
    <2>. QED
      BY <1>1, <2>1, StoreMoney
  <1>6. CASE UNCHANGED vars
    <2>1. UNCHANGED <<txn, job, accepted, trail, book>>
      BY <1>6 DEF vars, handlerVars, historyVars
    <2>. QED
      BY <1>1, <2>1, StoreMoney
  <1>. QED
    BY <1>3, <1>4, <1>5, <1>6 DEF Next, Rest

\* Where the writes of each transaction are in order, so is the money.
LEMMA MoneyFollows == MoneyInv => MoneyAccounted
  <1>. DEFINE total   == SumFunction([a \in Accounts |-> account[a].bal])
              opening == Opening * Cardinality(Accounts)
  <1>. SUFFICES ASSUME MoneyInv, contended = {}, \A a \in Accounts : Found(a)
                PROVE  /\ (\A t \in Txns : trail[t].drawn = trail[t].paid) =>
                            total >= opening
                       /\ (\A t \in Txns : trail[t].repaid = trail[t].clawed) =>
                            total <= opening
    BY DEF MoneyAccounted
  <1>1. TypeInv /\ StagesInOrder /\ ExclusiveIsExact
    BY StagesFollow DEF MoneyInv, StagesInv, SafetyInv, ExactInv
  <1>2. PICK amt : Names(amt) /\ Balanced(amt)
    BY DEF MoneyInv
  <1>3. total = Booked
    <2>1. \A a \in Accounts : account[a].bal = book[a].bal
      BY <1>1 DEF ExclusiveIsExact
    <2>2. [a \in Accounts |-> account[a].bal] = [a \in Accounts |-> book[a].bal]
      BY <2>1
    <2>. QED
      BY <2>2 DEF SumFunction, Booked
  <1>4. opening \in Int
    <2>1. Cardinality(Accounts) \in Nat /\ Opening \in Nat
      BY FinitelyManyAccounts, FS_CardinalityType, StoreAssumption
    <2>2. \A m, n \in Nat : m * n \in Int
      OBVIOUS
    <2>. QED
      BY <2>1, <2>2
  <1>. DEFINE f == [t \in Txns |-> amt[t] * Net(trail[t])]
  <1>5. /\ IsFiniteSet(Txns) /\ \A t \in Txns : f[t] \in Int
    <2>. HIDE DEF Net
    <2>. QED
      BY <1>1, <1>2, Addends DEF Names
  <1>6. SumFunctionOnSet(f, Txns) \in Int /\ total = opening + SumFunctionOnSet(f, Txns)
    <2>1. total = opening + SumFunctionOnSet(f, Txns)
      BY <1>2, <1>3 DEF Balanced, Flow
    <2>. HIDE DEF f
    <2>2. SumFunctionOnSet(f, Txns) \in Int
      BY <1>5, SumType
    <2>. QED
      BY <2>1, <2>2
  <1>7. \A t \in Txns : /\ trail[t].drawn \in Nat /\ trail[t].paid \in Nat
                        /\ trail[t].repaid \in Nat /\ trail[t].clawed \in Nat
                        /\ trail[t].paid <= trail[t].drawn
                        /\ trail[t].clawed <= trail[t].repaid
    <2>1. ASSUME NEW t \in Txns
          PROVE  ~ PayerLostAccount(t) /\ (txn[t] # Nil => Found(txn[t].from))
      BY <1>1 DEF PayerLostAccount, LostAccount, TypeInv, TypeOK, Transaction
    <2>2. \A t \in Txns : ~ (trail[t].paid > trail[t].drawn)
      BY <1>1, <2>1 DEF StagesInOrder
    <2>3. \A t \in Txns : ~ (trail[t].clawed > trail[t].repaid)
      <3>. SUFFICES ASSUME NEW t \in Txns, trail[t].clawed > trail[t].repaid PROVE FALSE
        OBVIOUS
      <3>. QED
        BY <1>1, <2>1 DEF StagesInOrder
    <2>. QED
      BY <1>1, <2>2, <2>3 DEF TypeInv, TypeOK, TrailEntry
  <1>8. \A n \in Nat, k \in Int : /\ k >= 0 => n * k >= 0
                                  /\ k <= 0 => n * k <= 0
    OBVIOUS
  <1>9. \A t \in Txns : amt[t] \in Nat /\ Net(trail[t]) \in Int
    BY <1>1, <1>2, Addends DEF Names
  <1>10. ASSUME \A t \in Txns : trail[t].drawn = trail[t].paid
         PROVE  total >= opening
    <2>1. \A t \in Txns : Net(trail[t]) >= 0
      BY <1>7, <1>10 DEF Net
    <2>2. \A t \in Txns : f[t] >= 0
      <3>. HIDE DEF Net
      <3>. QED
        BY <1>8, <1>9, <2>1
    <2>3. SumFunctionOnSet(f, Txns) >= 0
      <3>. HIDE DEF f
      <3>. QED
        BY <1>5, <2>2, SumSign
    <2>. HIDE DEF f, total, opening
    <2>. QED
      BY <1>4, <1>6, <2>3
  <1>11. ASSUME \A t \in Txns : trail[t].repaid = trail[t].clawed
         PROVE  total <= opening
    <2>1. \A t \in Txns : Net(trail[t]) <= 0
      BY <1>7, <1>11 DEF Net
    <2>2. \A t \in Txns : f[t] <= 0
      <3>. HIDE DEF Net
      <3>. QED
        BY <1>8, <1>9, <2>1
    <2>3. SumFunctionOnSet(f, Txns) <= 0
      <3>. HIDE DEF f
      <3>. QED
        BY <1>5, <2>2, SumSign
    <2>. HIDE DEF f, total, opening
    <2>. QED
      BY <1>4, <1>6, <2>3
  <1>. QED
    BY <1>10, <1>11

\* While no two uses of a copy have overlapped and no account is deleted, the
\* stored balances miss money only by a payment that took it from the payer and did
\* not give it to the payee, and exceed the opening ones only by a refund that gave
\* it back to the sender and did not take it from the receiver: for any number of
\* handlers, accounts and requests, and after any crash, failed call or new limit.
THEOREM MoneyIsAccounted == Spec => []MoneyAccounted
  <1>. QED
    BY InitMoney, StepMoney, MoneyFollows, PTL DEF Spec
=============================================================================
