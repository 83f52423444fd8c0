------------------------------ MODULE FoldFacts ------------------------------
(***************************************************************************)
(* What FoldLeft computes, for any operator: an instance of this module    *)
(* with a module's own operator gives the lemmas for its folds.            *)
(***************************************************************************)
EXTENDS Integers, SequencesExt, SequenceTheorems, WellFoundedInduction, TLAPS

CONSTANTS Op(_, _), Base

Fold(s) == FoldLeft(Op, Base, s)

\* The least-number principle, for sets.
LEMMA LeastNatural ==
  ASSUME NEW T, T \subseteq Nat, T # {}
  PROVE  \E x \in T : \A y \in T : x <= y
<1>1. PICK x \in T : \A y \in T : ~(<<y, x>> \in OpToRel(<, Nat))
  BY NatLessThanWellFounded, WFMin
<1>2. \A y \in T : ~(y < x)
  BY <1>1 DEF OpToRel
<1> QED
  BY <1>2

\* Induction from a to b, for sets.
LEMMA UpTo ==
  ASSUME NEW T, NEW a \in Nat, NEW b \in Nat,
         a \in T, \A n \in a .. b - 1 : n \in T => n + 1 \in T
  PROVE  \A n \in a .. b : n \in T
<1> DEFINE Missing == {n \in a .. b : n \notin T}
<1>1. SUFFICES ASSUME Missing # {} PROVE FALSE
  OBVIOUS
<1>2. PICK n \in Missing : \A k \in Missing : n <= k
  <2>1. Missing \subseteq Nat
    OBVIOUS
  <2> HIDE DEF Missing
  <2> QED
    BY <1>1, <2>1, LeastNatural
<1>3. n \in a .. b /\ n \notin T
  BY <1>2
<1>4. n - 1 \in a .. b - 1 /\ n - 1 \in a .. b /\ (n - 1) + 1 = n /\ ~(n <= n - 1)
  BY <1>3
<1>5. n - 1 \in T
  BY <1>2, <1>4
<1> QED
  BY <1>3, <1>4, <1>5

\* f is the iteration by which FoldLeft is defined, on the first n elements.
Iterates(f, s, n) ==
    /\ f = [t \in SUBSET (1 .. n) |-> f[t]]
    /\ f[{}] = Base
    /\ \A t \in SUBSET (1 .. n) : t # {} => f[t] = Op(f[t \ {Max(t)}], s[Max(t)])

\* A subset of 1 .. n + 1 has n + 1 as its maximum or is a subset of 1 .. n.
LEMMA Maximum ==
  ASSUME NEW n \in Nat, NEW t \in SUBSET (1 .. n + 1)
  PROVE  \/ n + 1 \in t /\ Max(t) = n + 1 /\ t \ {n + 1} \in SUBSET (1 .. n)
         \/ n + 1 \notin t /\ t \in SUBSET (1 .. n)
<1>1. CASE n + 1 \in t
  <2>1. \A y \in t : n + 1 >= y
    OBVIOUS
  <2>2. \A x \in t : (\A y \in t : x >= y) => x = n + 1
    BY <1>1
  <2>3. Max(t) = n + 1
    BY <1>1, <2>1, <2>2 DEF Max
  <2> QED
    BY <1>1, <2>3
<1> QED
  BY <1>1

\* There is such an iteration for every length.
LEMMA IterationExists ==
  ASSUME NEW s, NEW n \in Nat
  PROVE  \E f : Iterates(f, s, n)
<1> DEFINE Missing == {k \in Nat : ~ \E f : Iterates(f, s, k)}
<1>1. SUFFICES ASSUME Missing # {} PROVE FALSE
  OBVIOUS
<1>2. PICK k \in Missing : \A j \in Missing : k <= j
  BY <1>1, LeastNatural
<1>3. k # 0
  <2>1. Iterates([t \in SUBSET (1 .. 0) |-> Base], s, 0)
    <3>1. SUBSET (1 .. 0) = {{}}
      OBVIOUS
    <3> QED
      BY <3>1 DEF Iterates
  <2> QED
    BY <1>2, <2>1
<1>4. PICK m \in Nat : k = m + 1
  <2>1. k - 1 \in Nat /\ k = (k - 1) + 1
    BY <1>2, <1>3
  <2> QED
    BY <2>1
<1>5. PICK f : Iterates(f, s, m)
  BY <1>2, <1>4
<1> DEFINE g == [t \in SUBSET (1 .. m + 1) |->
                    IF m + 1 \in t THEN Op(f[t \ {m + 1}], s[m + 1]) ELSE f[t]]
<1>6. Iterates(g, s, m + 1)
  <2>1. g[{}] = Base
    BY <1>5 DEF Iterates
  <2>2. ASSUME NEW t \in SUBSET (1 .. m + 1), t # {}
        PROVE  g[t] = Op(g[t \ {Max(t)}], s[Max(t)])
    <3>1. CASE m + 1 \in t /\ Max(t) = m + 1 /\ t \ {m + 1} \in SUBSET (1 .. m)
      <4>1. t \ {m + 1} \in SUBSET (1 .. m + 1) /\ m + 1 \notin t \ {m + 1}
        OBVIOUS
      <4> QED
        BY <3>1, <4>1
    <3>2. CASE m + 1 \notin t /\ t \in SUBSET (1 .. m)
      <4>1. f[t] = Op(f[t \ {Max(t)}], s[Max(t)])
        BY <1>5, <2>2, <3>2 DEF Iterates
      <4>2. t \ {Max(t)} \in SUBSET (1 .. m + 1) /\ m + 1 \notin t \ {Max(t)}
        BY <3>2
      <4> QED
        BY <3>2, <4>1, <4>2
    <3> QED
      BY <3>1, <3>2, Maximum
  <2> QED
    BY <2>1, <2>2 DEF Iterates
<1> QED
  BY <1>2, <1>4, <1>6

\* Two iterations agree where their sequences do.
LEMMA IterationsAgree ==
  ASSUME NEW s, NEW r, NEW n \in Nat, NEW f, NEW g,
         Iterates(f, s, n), Iterates(g, r, n + 1), \A i \in 1 .. n : s[i] = r[i]
  PROVE  \A t \in SUBSET (1 .. n) : f[t] = g[t]
<1> DEFINE Apart == {k \in 0 .. n : \E t \in SUBSET (1 .. k) : f[t] # g[t]}
<1>1. SUFFICES ASSUME Apart # {} PROVE FALSE
  <2>1. n \in 0 .. n
    OBVIOUS
  <2> QED
    BY <2>1
<1>2. PICK k \in Apart : \A j \in Apart : k <= j
  <2>1. Apart \subseteq Nat
    OBVIOUS
  <2> HIDE DEF Apart
  <2> QED
    BY <1>1, <2>1, LeastNatural
<1>3. PICK t \in SUBSET (1 .. k) : f[t] # g[t]
  BY <1>2
<1>4. t # {} /\ k # 0
  <2> HIDE DEF Apart
  <2>1. f[{}] = Base /\ g[{}] = Base
    BY DEF Iterates
  <2>2. t # {}
    BY <1>3, <2>1
  <2>3. ASSUME k = 0 PROVE t = {}
    BY <1>3, <2>3
  <2> QED
    BY <2>2, <2>3
<1>5. k - 1 \in 0 .. n /\ k - 1 \notin Apart /\ k \in 1 .. n
  <2>1. k \in 0 .. n /\ k - 1 \in 0 .. n
    BY <1>2, <1>4
  <2> HIDE DEF Apart
  <2>2. ~(k <= k - 1)
    BY <2>1
  <2> QED
    BY <1>2, <1>4, <2>1, <2>2
<1>6. \A u \in SUBSET (1 .. k - 1) : f[u] = g[u]
  BY <1>5
<1> HIDE DEF Apart
<1> DEFINE m1 == k - 1
<1>7. m1 \in Nat /\ k = m1 + 1
  BY <1>5
<1>8. k \in t /\ Max(t) = k /\ t \ {k} \in SUBSET (1 .. m1)
  BY <1>3, <1>6, <1>7, Maximum
<1>9. t \in SUBSET (1 .. n) /\ t \in SUBSET (1 .. n + 1)
  BY <1>3, <1>5
<1>10. f[t] = Op(f[t \ {k}], s[k]) /\ g[t] = Op(g[t \ {k}], r[k])
  BY <1>4, <1>8, <1>9 DEF Iterates
<1> QED
  BY <1>3, <1>5, <1>6, <1>8, <1>10

\* The fold is the value of an iteration.
LEMMA FoldIterates ==
  ASSUME NEW s, NEW n \in Nat, DOMAIN s = 1 .. n
  PROVE  \E f : Iterates(f, s, n) /\ Fold(s) = f[1 .. n]
<1> DEFINE Defines(f) ==
              f = [t \in SUBSET DOMAIN s |->
                      IF t = {} THEN Base ELSE Op(f[t \ {Max(t)}], s[Max(t)])]
<1>1. Fold(s) = (CHOOSE f : Defines(f))[DOMAIN s]
  BY DEF Fold, FoldLeft, MapThenFoldSet
<1>2. PICK f : Iterates(f, s, n)
  BY IterationExists
<1>3. Defines(f)
  <2>1. \A t \in SUBSET (1 .. n) :
            f[t] = IF t = {} THEN Base ELSE Op(f[t \ {Max(t)}], s[Max(t)])
    BY <1>2 DEF Iterates
  <2>2. f = [t \in SUBSET (1 .. n) |-> f[t]]
    BY <1>2 DEF Iterates
  <2> QED
    BY <2>1, <2>2
<1> DEFINE c == CHOOSE f1 : Defines(f1)
<1>4. Defines(c)
  BY <1>3
<1>5. Iterates(c, s, n)
  <2> HIDE DEF c
  <2> QED
    BY <1>4 DEF Iterates
<1> QED
  BY <1>1, <1>5

\* The fold of the empty sequence.
LEMMA FoldEmpty == Fold(<<>>) = Base
<1>1. DOMAIN <<>> = 1 .. 0 /\ 0 \in Nat
  OBVIOUS
<1>2. PICK f : Iterates(f, <<>>, 0) /\ Fold(<<>>) = f[1 .. 0]
  BY <1>1, FoldIterates, Zenon
<1>3. 1 .. 0 = {}
  OBVIOUS
<1> QED
  BY <1>2, <1>3 DEF Iterates

\* The fold of a sequence with one more element.
LEMMA FoldAppend ==
  ASSUME NEW S, NEW s \in Seq(S), NEW e \in S
  PROVE  Fold(Append(s, e)) = Op(Fold(s), e)
<1> DEFINE n == Len(s)
           r == Append(s, e)
<1>1. /\ n \in Nat
      /\ DOMAIN s = 1 .. n
      /\ DOMAIN r = 1 .. n + 1
      /\ \A i \in 1 .. n : s[i] = r[i]
      /\ r[n + 1] = e
  OBVIOUS
<1> HIDE DEF n, r
<1>2. PICK f : Iterates(f, s, n) /\ Fold(s) = f[1 .. n]
  BY <1>1, FoldIterates
<1>3. PICK g : Iterates(g, r, n + 1) /\ Fold(r) = g[1 .. n + 1]
  BY <1>1, FoldIterates
<1>4. f[1 .. n] = g[1 .. n]
  <2>1. \A t \in SUBSET (1 .. n) : f[t] = g[t]
    BY <1>1, <1>2, <1>3, IterationsAgree
  <2> QED
    BY <2>1
<1>5. g[1 .. n + 1] = Op(g[1 .. n], e)
  <2>1. n + 1 \in 1 .. n + 1 /\ 1 .. n + 1 # {} /\ (1 .. n + 1) \ {n + 1} = 1 .. n
    <3>0. n \in Nat
      BY <1>1
    <3>1. n + 1 \in 1 .. n + 1
      BY <3>0
    <3>2. (1 .. n + 1) \ {n + 1} = 1 .. n
      BY <3>0
    <3> QED
      BY <3>1, <3>2
  <2>2. Max(1 .. n + 1) = n + 1
    BY <1>1, <2>1, Maximum
  <2> QED
    BY <1>1, <1>3, <2>1, <2>2 DEF Iterates
<1> QED
  BY <1>2, <1>3, <1>4, <1>5 DEF r

\* The prefixes of a sequence.
LEMMA Prefix ==
  ASSUME NEW S, NEW s \in Seq(S), NEW n \in 0 .. Len(s)
  PROVE  /\ SubSeq(s, 1, n) \in Seq(S)
         /\ n = 0 => SubSeq(s, 1, n) = <<>>
         /\ n = Len(s) => SubSeq(s, 1, n) = s
         /\ n > 0 => SubSeq(s, 1, n) = Append(SubSeq(s, 1, n - 1), s[n])
<1> DEFINE P(k) == SubSeq(s, 1, k)
<1>1. \A k \in 0 .. Len(s) : /\ P(k) \in Seq(S) /\ Len(P(k)) = k
                             /\ \A i \in 1 .. k : P(k)[i] = s[i]
  OBVIOUS
<1>2. n = 0 => P(n) = <<>>
  BY <1>1, EmptySeq
<1>3. n = Len(s) => P(n) = s
  BY <1>1, SeqEqual
<1>4. ASSUME n > 0 PROVE P(n) = Append(P(n - 1), s[n])
  <2> DEFINE a == Append(P(n - 1), s[n])
  <2>1. n - 1 \in 0 .. Len(s) /\ s[n] \in S /\ n \in 0 .. Len(s)
    BY <1>4
  <2>2. /\ P(n) \in Seq(S) /\ Len(P(n)) = n /\ \A i \in 1 .. n : P(n)[i] = s[i]
        /\ P(n - 1) \in Seq(S) /\ Len(P(n - 1)) = n - 1
        /\ \A i \in 1 .. n - 1 : P(n - 1)[i] = s[i]
    BY <1>1, <2>1
  <2> HIDE DEF P
  <2>3. a \in Seq(S) /\ Len(a) = n /\ \A i \in 1 .. n : a[i] = IF i = n THEN s[n] ELSE s[i]
    BY <2>1, <2>2
  <2> HIDE DEF a
  <2>4. a = P(n)
    BY <2>2, <2>3, SeqEqual
  <2> QED
    BY <2>4 DEF a
<1> QED
  BY <1>1, <1>2, <1>3, <1>4

\* ... and those of a longer one.
LEMMA PrefixOfAppend ==
  ASSUME NEW S, NEW s \in Seq(S), NEW e \in S, NEW n \in 0 .. Len(s)
  PROVE  SubSeq(Append(s, e), 1, n) = SubSeq(s, 1, n)
<1> DEFINE t == Append(s, e)
<1>1. /\ t \in Seq(S) /\ Len(t) = Len(s) + 1 /\ Len(s) \in Nat
      /\ \A i \in 1 .. Len(s) : t[i] = s[i]
  OBVIOUS
<1> HIDE DEF t
<1>2. n \in 0 .. Len(t)
  BY <1>1
<1>3. /\ SubSeq(s, 1, n) \in Seq(S) /\ SubSeq(t, 1, n) \in Seq(S)
      /\ Len(SubSeq(s, 1, n)) = n /\ Len(SubSeq(t, 1, n)) = n
      /\ \A i \in 1 .. n : SubSeq(s, 1, n)[i] = s[i]
      /\ \A i \in 1 .. n : SubSeq(t, 1, n)[i] = t[i]
  BY <1>1, <1>2
<1>4. \A i \in 1 .. n : SubSeq(s, 1, n)[i] = SubSeq(t, 1, n)[i]
  BY <1>1, <1>3
<1> QED
  BY <1>3, <1>4, SeqEqual DEF t

\* The fold of a prefix, one element at a time.
LEMMA FoldPrefix ==
  ASSUME NEW S, NEW s \in Seq(S), NEW n \in 1 .. Len(s)
  PROVE  Fold(SubSeq(s, 1, n)) = Op(Fold(SubSeq(s, 1, n - 1)), s[n])
<1>1. n \in 0 .. Len(s) /\ n - 1 \in 0 .. Len(s) /\ n > 0 /\ s[n] \in S
  OBVIOUS
<1>2. SubSeq(s, 1, n) = Append(SubSeq(s, 1, n - 1), s[n]) /\ SubSeq(s, 1, n - 1) \in Seq(S)
  BY <1>1, Prefix
<1> QED
  BY <1>1, <1>2, FoldAppend

\* A fold stays in a set its operator stays in.
LEMMA FoldTyped ==
  ASSUME NEW S, NEW T, Base \in T, \A a \in T, e \in S : Op(a, e) \in T, NEW s \in Seq(S)
  PROVE  Fold(s) \in T
<1> DEFINE Stays == {n \in 0 .. Len(s) : Fold(SubSeq(s, 1, n)) \in T}
<1>1. Len(s) \in Nat /\ 0 \in 0 .. Len(s) /\ Len(s) \in 0 .. Len(s)
  OBVIOUS
<1>2. 0 \in Stays
  BY <1>1, Prefix, FoldEmpty
<1>3. ASSUME NEW n \in 0 .. Len(s) - 1, n \in Stays PROVE n + 1 \in Stays
  <2>1. n + 1 \in 1 .. Len(s) /\ n + 1 \in 0 .. Len(s) /\ (n + 1) - 1 = n /\ s[n + 1] \in S
    OBVIOUS
  <2>2. Fold(SubSeq(s, 1, n + 1)) = Op(Fold(SubSeq(s, 1, n)), s[n + 1])
    BY <2>1, FoldPrefix
  <2> QED
    BY <1>3, <2>1, <2>2
<1> HIDE DEF Stays
<1>4. Len(s) \in Stays
  BY <1>1, <1>2, <1>3, UpTo
<1> QED
  BY <1>1, <1>4, Prefix DEF Stays
=============================================================================
