---------------------------- MODULE SequenceFacts ----------------------------
(***************************************************************************)
(* Facts about naturals and sequences that the other proof modules cite:   *)
(* the operators of the community modules the models are built from.       *)
(***************************************************************************)
EXTENDS Integers, SequencesExt, WellFoundedInduction, TLAPS

\* Some well-founded relation on the naturals contains <.
LEMMA LessThanWellFounded ==
    \E R : /\ IsWellFoundedOn(R, Nat)
           /\ \A x, y \in Nat : x < y => << x, y >> \in R
<1>1. IsWellFoundedOn(OpToRel(<, Nat), Nat)
  BY NatLessThanWellFounded
<1>2. \A x, y \in Nat : x < y => << x, y >> \in OpToRel(<, Nat)
  BY Zenon DEF OpToRel
<1> QED BY Zenon, <1>1, <1>2

\* A non-empty set of naturals has a least element.
LEMMA LeastNatural ==
    ASSUME NEW S \in SUBSET Nat, S # {}
    PROVE  \E m \in S : \A n \in S : m <= n
<1>1. PICK R : /\ IsWellFoundedOn(R, Nat)
               /\ \A x, y \in Nat : x < y => << x, y >> \in R
  BY LessThanWellFounded
<1>2. S \subseteq Nat /\ S # {}
  OBVIOUS
<1>3. \A T : T \subseteq Nat /\ T # {} =>
            \E x \in T : \A y \in T : ~(<< y, x >> \in R)
  <2> SUFFICES ASSUME NEW T, T \subseteq Nat, T # {}
               PROVE  \E x \in T : \A y \in T : ~(<< y, x >> \in R)
    OBVIOUS
  <2>1. IsWellFoundedOn(R, Nat)
    BY <1>1
  <2> QED BY <2>1, WFMin, Zenon
<1>4. \E m \in S : \A n \in S : ~(<< n, m >> \in R)
  BY <1>2, <1>3, Zenon
<1>5. PICK m \in S : \A n \in S : ~(<< n, m >> \in R)
  BY <1>4
<1>6. ASSUME NEW n \in S PROVE m <= n
  <2>1. ~(n < m)
    BY <1>1, <1>5
  <2> QED BY <2>1
<1> QED BY <1>6

\* Min of the community modules is the least element.
LEMMA MinFacts ==
    ASSUME NEW S \in SUBSET Nat, S # {}
    PROVE  Min(S) \in S /\ \A n \in S : Min(S) <= n
BY LeastNatural DEF Min

-----------------------------------------------------------------------------
\* A prefix agrees with what it is a prefix of; appending extends a sequence,
\* and being a prefix is transitive.
LEMMA PrefixFacts ==
    ASSUME NEW S, NEW r \in Seq(S), NEW s \in Seq(S)
    PROVE  /\ IsPrefix(r, r)
           /\ \A x \in S : IsPrefix(r, s) => IsPrefix(r, Append(s, x))
           /\ \A u \in Seq(S) : IsPrefix(r, s) /\ IsPrefix(s, u) => IsPrefix(r, u)
           /\ IsPrefix(r, s) <=> /\ Len(r) <= Len(s)
                                /\ \A i \in 1..Len(r) : r[i] = s[i]
<1>1. ASSUME NEW x \in Seq(S), NEW y \in Seq(S)
      PROVE  IsPrefix(x, y) <=> /\ Len(x) <= Len(y)
                                /\ \A i \in 1..Len(x) : x[i] = y[i]
  <2>1. CASE Len(x) <= Len(y)
    <3>1. /\ SubSeq(x, 1, Len(x)) \in Seq(S) /\ SubSeq(y, 1, Len(x)) \in Seq(S)
          /\ Len(SubSeq(x, 1, Len(x))) = Len(x)
          /\ Len(SubSeq(y, 1, Len(x))) = Len(x)
          /\ \A i \in 1..Len(x) : /\ SubSeq(x, 1, Len(x))[i] = x[i]
                                  /\ SubSeq(y, 1, Len(x))[i] = y[i]
      BY <2>1
    <3> QED BY <2>1, <3>1 DEF IsPrefix
  <2>2. CASE ~(Len(x) <= Len(y))
    BY <2>2 DEF IsPrefix
  <2> QED BY <2>1, <2>2
<1>2. IsPrefix(r, r)
  BY <1>1
<1>3. ASSUME NEW x \in S, IsPrefix(r, s) PROVE IsPrefix(r, Append(s, x))
  <2>1. Len(r) <= Len(s) /\ \A i \in 1..Len(r) : r[i] = s[i]
    BY <1>1, <1>3
  <2>2. /\ Append(s, x) \in Seq(S) /\ Len(Append(s, x)) = Len(s) + 1
        /\ \A i \in 1..Len(s) : Append(s, x)[i] = s[i]
    OBVIOUS
  <2>3. Len(r) <= Len(Append(s, x)) /\ \A i \in 1..Len(r) : r[i] = Append(s, x)[i]
    BY <2>1, <2>2
  <2> QED BY <1>1, <2>2, <2>3
<1>4. \A u \in Seq(S) : IsPrefix(r, s) /\ IsPrefix(s, u) => IsPrefix(r, u)
  BY <1>1
<1> QED BY <1>1, <1>2, <1>3, <1>4

\* A concatenation.
LEMMA ConcatFacts ==
    ASSUME NEW S, NEW a \in Seq(S), NEW b \in Seq(S)
    PROVE  a \o b \in Seq(S) /\ Len(a \o b) = Len(a) + Len(b)
OBVIOUS

\* Appending an element lengthens a sequence by one, at its end.
LEMMA AppendFacts ==
    ASSUME NEW S, NEW s \in Seq(S), NEW x \in S
    PROVE  /\ Append(s, x) \in Seq(S) /\ Append(s, x) # << >>
           /\ Len(Append(s, x)) = Len(s) + 1 /\ Append(s, x)[Len(s) + 1] = x
           /\ \A i \in DOMAIN Append(s, x) :
                (i \in DOMAIN s /\ Append(s, x)[i] = s[i]) \/ i = Len(s) + 1
           /\ \A i \in DOMAIN s : i \in DOMAIN Append(s, x) /\ Append(s, x)[i] = s[i]
           /\ s # << >> => /\ Head(Append(s, x)) = Head(s)
                           /\ Tail(Append(s, x)) = Append(Tail(s), x)
OBVIOUS

\* A sequence without its head.
LEMMA TailFacts ==
    ASSUME NEW S, NEW s \in Seq(S), s # << >>
    PROVE  /\ Tail(s) \in Seq(S) /\ Head(s) \in S /\ 1 \in DOMAIN s /\ Head(s) = s[1]
           /\ \A i \in DOMAIN Tail(s) :
                i \in Nat \ {0} /\ i + 1 \in DOMAIN s /\ Tail(s)[i] = s[i + 1]
           /\ ToSet(s) = {Head(s)} \union ToSet(Tail(s))
<1>1. /\ Tail(s) \in Seq(S) /\ Head(s) \in S /\ 1 \in DOMAIN s /\ Head(s) = s[1]
      /\ \A i \in DOMAIN Tail(s) :
            i \in Nat \ {0} /\ i + 1 \in DOMAIN s /\ Tail(s)[i] = s[i + 1]
  OBVIOUS
<1>2. ASSUME NEW i \in DOMAIN s, i # 1
      PROVE  i - 1 \in DOMAIN Tail(s) /\ Tail(s)[i - 1] = s[i]
  <2>1. PICK j \in Int : j = i - 1
    OBVIOUS
  <2>2. j \in 1..(Len(s) - 1) /\ i = j + 1
    BY <1>2, <2>1
  <2>3. DOMAIN Tail(s) = 1..(Len(s) - 1)
    OBVIOUS
  <2>4. j \in DOMAIN Tail(s)
    BY <2>2, <2>3
  <2> QED BY <1>1, <2>1, <2>2, <2>4
<1>3. \A i \in DOMAIN s : s[i] = s[1] \/ \E j \in DOMAIN Tail(s) : Tail(s)[j] = s[i]
  BY <1>2
<1>4. ToSet(s) = {s[1]} \union ToSet(Tail(s))
  BY <1>1, <1>3 DEF ToSet
<1> QED BY <1>1, <1>4

\* The head of a sequence may go to the end of the one before it.
LEMMA HeadMoves ==
    ASSUME NEW S, NEW a \in Seq(S), NEW b \in Seq(S), b # << >>
    PROVE  Append(a, Head(b)) \o Tail(b) = a \o b
OBVIOUS

\* What is appended to the second of two sequences is appended to both.
LEMMA AppendConcat ==
    ASSUME NEW S, NEW a \in Seq(S), NEW b \in Seq(S), NEW x \in S
    PROVE  a \o Append(b, x) = Append(a \o b, x)
OBVIOUS

\* Appending is concatenating a sequence of one.
LEMMA AppendIsConcat ==
    ASSUME NEW S, NEW a \in Seq(S), NEW x \in S
    PROVE  Append(a, x) = a \o << x >>
OBVIOUS

LEMMA ConcatAssociative ==
    ASSUME NEW S, NEW a \in Seq(S), NEW b \in Seq(S), NEW c \in Seq(S)
    PROVE  (a \o b) \o c = a \o (b \o c)
<1>1. /\ (a \o b) \o c \in Seq(S) /\ a \o (b \o c) \in Seq(S)
      /\ Len((a \o b) \o c) = Len(a) + Len(b) + Len(c)
      /\ Len(a \o (b \o c)) = Len(a) + Len(b) + Len(c)
  BY ConcatFacts
<1>2. ASSUME NEW i \in 1..(Len(a) + Len(b) + Len(c))
      PROVE  ((a \o b) \o c)[i] = (a \o (b \o c))[i]
  OBVIOUS
<1> QED BY <1>1, <1>2

\* What a part of a sequence holds.
LEMMA PartFacts ==
    ASSUME NEW S, NEW s \in Seq(S), NEW a \in Nat \ {0}, NEW b \in 0..Len(s)
    PROVE  ToSet(SubSeq(s, a, b)) = {s[i] : i \in a..b}
<1> DEFINE u == SubSeq(s, a, b)
<1>1. DOMAIN u = 1..(IF a <= b THEN b - a + 1 ELSE 0) /\ Len(s) \in Nat
  OBVIOUS
<1>2. \A i \in DOMAIN u : i + a - 1 \in a..b /\ u[i] = s[i + a - 1]
  OBVIOUS
<1>3. \A i \in a..b : i - a + 1 \in DOMAIN u /\ u[i - a + 1] = s[i]
  OBVIOUS
<1>4. ToSet(u) = {u[i] : i \in DOMAIN u}
  BY DEF ToSet
<1> HIDE DEF u
<1>5. {u[i] : i \in DOMAIN u} \subseteq {s[i] : i \in a..b}
  BY <1>2
<1>6. {s[i] : i \in a..b} \subseteq {u[i] : i \in DOMAIN u}
  BY <1>3
<1> QED BY <1>4, <1>5, <1>6 DEF u

\* The two parts of a sequence make the sequence.
LEMMA PartsJoin ==
    ASSUME NEW S, NEW s \in Seq(S), NEW k \in 0..Len(s)
    PROVE  SubSeq(s, 1, k) \o SubSeq(s, k + 1, Len(s)) = s
<1> DEFINE a == SubSeq(s, 1, k)
           b == SubSeq(s, k + 1, Len(s))
<1>1. /\ a \in Seq(S) /\ b \in Seq(S) /\ Len(a) = k /\ Len(b) = Len(s) - k
      /\ \A i \in 1..k : a[i] = s[i]
      /\ \A i \in 1..(Len(s) - k) : b[i] = s[k + i]
  OBVIOUS
<1> HIDE DEF a, b
<1>2. Len(a \o b) = Len(s) /\ a \o b \in Seq(S)
  <2>1. Len(a \o b) = Len(a) + Len(b) /\ a \o b \in Seq(S)
    BY <1>1, ConcatFacts
  <2>2. Len(a) + Len(b) = Len(s)
    <3>1. PICK n \in Nat : n = Len(s)
      OBVIOUS
    <3> QED BY <1>1, <3>1
  <2> QED BY <2>1, <2>2
<1>3. ASSUME NEW i \in 1..Len(s)
      PROVE  (a \o b)[i] = s[i]
  <2>1. CASE i <= k
    BY <1>1, <2>1
  <2>2. CASE ~(i <= k)
    <3>1. PICK j \in 1..(Len(s) - k) : i = k + j
      <4>1. i - k \in 1..(Len(s) - k) /\ i = k + (i - k)
        BY <2>2
      <4> QED BY <4>1
    <3>2. i \in 1..(Len(a) + Len(b)) /\ ~(i <= Len(a)) /\ i - Len(a) = j
      BY <1>1, <2>2, <3>1
    <3>3. (a \o b)[i] = b[j]
      BY <1>1, <3>2
    <3> QED BY <1>1, <3>1, <3>3
  <2> QED BY <2>1, <2>2
<1>4. a \o b = s
  <2>1. PICK u \in Seq(S) : u = a \o b
    BY <1>2
  <2>2. Len(u) = Len(s) /\ \A i \in 1..Len(s) : u[i] = s[i]
    BY <1>2, <1>3, <2>1
  <2>3. u = s
    BY <2>2
  <2> QED BY <2>1, <2>3
<1> QED BY <1>4 DEF a, b

\* Removing an element shortens a sequence by one and moves up what follows.
LEMMA RemoveAtFacts ==
    ASSUME NEW S, NEW s \in Seq(S), NEW i \in 1..Len(s)
    PROVE  /\ RemoveAt(s, i) \in Seq(S)
           /\ Len(RemoveAt(s, i)) = Len(s) - 1
           /\ \A j \in 1..(Len(s) - 1) :
                RemoveAt(s, i)[j] = IF j < i THEN s[j] ELSE s[j + 1]
<1> DEFINE a == SubSeq(s, 1, i - 1)
           b == SubSeq(s, i + 1, Len(s))
<1>1. a \in Seq(S) /\ Len(a) = i - 1 /\ \A j \in 1..(i - 1) : a[j] = s[j]
  OBVIOUS
<1>2. b \in Seq(S) /\ Len(b) = Len(s) - i /\ \A j \in 1..(Len(s) - i) : b[j] = s[i + j]
  OBVIOUS
<1>3. RemoveAt(s, i) = a \o b
  BY DEF RemoveAt
<1>4. Len(s) \in Nat /\ i \in Nat /\ i <= Len(s) /\ i >= 1
  OBVIOUS
<1> HIDE DEF a, b
<1>5. a \o b \in Seq(S) /\ Len(a \o b) = Len(s) - 1
  <2>1. a \o b \in Seq(S) /\ Len(a \o b) = Len(a) + Len(b)
    BY <1>1, <1>2, ConcatFacts
  <2> QED BY <1>1, <1>2, <1>4, <2>1
<1>6. ASSUME NEW j \in 1..(Len(s) - 1)
      PROVE  (a \o b)[j] = IF j < i THEN s[j] ELSE s[j + 1]
  <2>1. CASE j < i
    <3>1. (a \o b)[j] = a[j] /\ j \in 1..(i - 1)
      BY <1>1, <1>2, <1>4, <2>1
    <3> QED BY <1>1, <2>1, <3>1
  <2>2. CASE ~(j < i)
    <3> DEFINE k == j - (i - 1)
    <3>1. k \in 1..(Len(s) - i) /\ i + k = j + 1
      BY <1>4, <2>2
    <3>2. (a \o b)[j] = b[k]
      BY <1>1, <1>2, <1>4, <2>2
    <3>3. b[k] = s[j + 1]
      BY <1>2, <3>1
    <3> QED BY <2>2, <3>2, <3>3
  <2> QED BY <2>1, <2>2
<1> QED BY <1>3, <1>5, <1>6

-----------------------------------------------------------------------------
(***************************************************************************)
(* A sequence of sequences, read one after the other.                      *)
(***************************************************************************)

\* f[i] is what the first i sequences of s make, for i up to n.
Joins(f, s, n) == f = [i \in 1..n |-> IF i = 1 THEN s[i] ELSE f[i - 1] \o s[i]]

LEMMA JoinsExist ==
    ASSUME NEW s, NEW n \in Nat
    PROVE  \E f : Joins(f, s, n)
<1> DEFINE B == {k \in Nat : ~\E f : Joins(f, s, k)}
<1> SUFFICES ASSUME B # {} PROVE FALSE
  OBVIOUS
<1>1. PICK k \in B : \A j \in B : k <= j
  <2> HIDE DEF B
  <2>1. B \in SUBSET Nat
    BY DEF B
  <2> QED BY <2>1, LeastNatural
<1>2. k # 0
  <2>1. Joins([i \in 1..0 |-> << >>], s, 0)
    BY DEF Joins
  <2> QED BY <1>1, <2>1
<1>3. k - 1 \in Nat /\ k - 1 \notin B
  BY <1>1, <1>2
<1>4. PICK f : Joins(f, s, k - 1)
  BY <1>3
<1> DEFINE g == [i \in 1..k |-> IF i = 1 THEN s[i] ELSE f[i - 1] \o s[i]]
<1>5. ASSUME NEW i \in 1..k, i # 1
      PROVE  g[i - 1] = f[i - 1]
  <2>1. PICK j \in 1..(k - 1) : j = i - 1
    BY <1>1, <1>5
  <2>2. g[j] = IF j = 1 THEN s[j] ELSE f[j - 1] \o s[j]
    BY <1>1, <2>1
  <2>3. f[j] = IF j = 1 THEN s[j] ELSE f[j - 1] \o s[j]
    BY <1>4, <2>1 DEF Joins
  <2> QED BY <2>1, <2>2, <2>3
<1>6. Joins(g, s, k)
  <2>1. \A i \in 1..k : g[i] = IF i = 1 THEN s[i] ELSE g[i - 1] \o s[i]
    BY <1>5
  <2> QED BY <2>1 DEF Joins
<1> QED BY <1>1, <1>6

LEMMA JoinsAgree ==
    ASSUME NEW f, NEW g, NEW s, NEW t, NEW n \in Nat, NEW m \in Nat, n <= m,
           Joins(f, s, n), Joins(g, t, m), \A i \in 1..n : s[i] = t[i]
    PROVE  \A i \in 1..n : f[i] = g[i]
<1> DEFINE B == {k \in 1..n : f[k] # g[k]}
<1> SUFFICES ASSUME B # {} PROVE FALSE
  OBVIOUS
<1>1. PICK k \in B : \A j \in B : k <= j
  <2> HIDE DEF B
  <2>1. B \in SUBSET Nat
    BY DEF B
  <2> QED BY <2>1, LeastNatural
<1>2. /\ f[k] = IF k = 1 THEN s[k] ELSE f[k - 1] \o s[k]
      /\ g[k] = IF k = 1 THEN t[k] ELSE g[k - 1] \o t[k]
  <2>1. k \in 1..n /\ k \in 1..m
    BY <1>1
  <2> QED BY <2>1 DEF Joins
<1>3. k # 1 => f[k - 1] = g[k - 1]
  <2> SUFFICES ASSUME k # 1 PROVE f[k - 1] = g[k - 1]
    OBVIOUS
  <2>1. k - 1 \in 1..n /\ ~(k <= k - 1)
    BY <1>1
  <2> QED BY <1>1, <2>1
<1> QED BY <1>1, <1>2, <1>3

LEMMA FlattenJoins ==
    ASSUME NEW S, NEW s \in Seq(S), s # << >>
    PROVE  \E f : Joins(f, s, Len(s)) /\ FlattenSeq(s) = f[Len(s)]
<1> DEFINE F == CHOOSE f : Joins(f, s, Len(s))
<1>1. Len(s) \in Nat /\ Len(s) # 0
  OBVIOUS
<1>2. Joins(F, s, Len(s))
  BY <1>1, JoinsExist
<1>3. FlattenSeq(s) = F[Len(s)]
  BY <1>1, Zenon DEF FlattenSeq, Joins
<1> QED BY <1>2, <1>3

\* A sequence that is appended comes last.
LEMMA FlattenAppend ==
    ASSUME NEW S, NEW s \in Seq(Seq(S)), NEW x \in Seq(S)
    PROVE  FlattenSeq(Append(s, x)) = FlattenSeq(s) \o x
<1>1. PICK n \in Nat : n = Len(s)
  OBVIOUS
<1>0. PICK Z : Z = Seq(S)
  OBVIOUS
<1>2. PICK t \in Seq(Z) : t = Append(s, x)
  <2>1. s \in Seq(Z) /\ x \in Z
    BY <1>0
  <2> QED BY <2>1, AppendFacts
<1>3. Len(t) = n + 1 /\ t[n + 1] = x /\ \A i \in 1..n : t[i] = s[i]
  <2>1. s \in Seq(Z) /\ x \in Z
    BY <1>0
  <2>2. Len(t) = n + 1 /\ t[n + 1] = x
    BY <1>1, <1>2, <2>1, AppendFacts
  <2>3. \A i \in 1..n : t[i] = s[i]
    BY <1>1, <1>2, <2>1
  <2> QED BY <2>2, <2>3
<1>4. PICK f : Joins(f, t, n + 1) /\ FlattenSeq(t) = f[n + 1]
  <2>1. t # << >>
    BY <1>3
  <2> QED BY <1>3, <2>1, FlattenJoins
<1>5. f[n + 1] = IF n + 1 = 1 THEN t[n + 1] ELSE f[(n + 1) - 1] \o t[n + 1]
  <2>1. n + 1 \in 1..(n + 1)
    OBVIOUS
  <2> QED BY <1>4, <2>1 DEF Joins
<1>6. CASE n = 0
  <2>0. << >> \o x = x
    OBVIOUS
  <2>1. s = << >> /\ << >> \o x = x
    <3>1. s \in Seq(Z) /\ Len(s) = 0
      BY <1>0, <1>1, <1>6
    <3> QED BY <2>0, <3>1
  <2>2. FlattenSeq(s) = << >>
    BY <1>1, <1>6, <2>1 DEF FlattenSeq
  <2> QED BY <1>2, <1>3, <1>4, <1>5, <1>6, <2>1, <2>2
<1>7. CASE n # 0
  <2>1. s # << >>
    BY <1>1, <1>7
  <2>2. PICK g : Joins(g, s, n) /\ FlattenSeq(s) = g[n]
    BY <1>1, <2>1, FlattenJoins
  <2>3. f[n] = g[n]
    <3>1. PICK m \in Nat : m = n + 1
      OBVIOUS
    <3>2. n <= m /\ Joins(f, t, m)
      BY <1>4, <3>1
    <3>3. \A i \in 1..n : g[i] = f[i]
      <4>1. \A i \in 1..n : s[i] = t[i]
        BY <1>3
      <4> QED BY <2>2, <3>2, <4>1, JoinsAgree
    <3> QED BY <1>7, <3>3
  <2>4. (n + 1) - 1 = n /\ n + 1 # 1
    BY <1>7
  <2> QED BY <1>2, <1>3, <1>4, <1>5, <2>2, <2>3, <2>4
<1> QED BY <1>6, <1>7

LEMMA FlattenEmpty == FlattenSeq(<< >>) = << >>
<1>1. Len(<< >>) = 0
  OBVIOUS
<1> QED BY <1>1 DEF FlattenSeq

\* Every non-empty sequence is another with an element appended.
LEMMA FrontFacts ==
    ASSUME NEW S, NEW s \in Seq(S), s # << >>
    PROVE  \E r \in Seq(S), x \in S : s = Append(r, x) /\ Len(s) = Len(r) + 1
<1>1. PICK n \in Nat : n + 1 = Len(s)
  <2>1. Len(s) \in Nat /\ Len(s) # 0
    OBVIOUS
  <2> QED BY <2>1
<1> DEFINE r == [i \in 1..n |-> s[i]]
<1>2. r \in Seq(S) /\ Len(r) = n /\ s[n + 1] \in S
  BY <1>1
<1>3. s = Append(r, s[n + 1])
  BY <1>1
<1> QED BY <1>1, <1>2, <1>3

LEMMA FlattenType ==
    ASSUME NEW S, NEW s \in Seq(Seq(S))
    PROVE  FlattenSeq(s) \in Seq(S)
<1> DEFINE B == {k \in Nat : \E t \in Seq(Seq(S)) : Len(t) = k /\ FlattenSeq(t) \notin Seq(S)}
<1>1. ASSUME B # {} PROVE FALSE
  <2>1. PICK k \in B : \A j \in B : k <= j
    <3> HIDE DEF B
    <3>1. B \in SUBSET Nat
      BY DEF B
    <3> QED BY <1>1, <3>1, LeastNatural
  <2>2. PICK t \in Seq(Seq(S)) : Len(t) = k /\ FlattenSeq(t) \notin Seq(S)
    BY <2>1
  <2>3. << >> \in Seq(S)
    OBVIOUS
  <2>4. t # << >>
    BY <2>2, <2>3, FlattenEmpty
  <2>5. PICK r \in Seq(Seq(S)), x \in Seq(S) : t = Append(r, x) /\ Len(t) = Len(r) + 1
    BY <2>4, FrontFacts
  <2>6. Len(r) \in Nat /\ ~(k <= Len(r))
    BY <2>2, <2>5
  <2>7. FlattenSeq(r) \in Seq(S)
    BY <2>1, <2>6
  <2>8. FlattenSeq(t) = FlattenSeq(r) \o x
    BY <2>5, FlattenAppend
  <2> QED BY <2>2, <2>7, <2>8
<1>2. Len(s) \in Nat
  OBVIOUS
<1> QED BY <1>1, <1>2

\* What one of the sequences holds, the whole holds.
LEMMA FlattenHolds ==
    ASSUME NEW S, NEW s \in Seq(Seq(S)), NEW i \in DOMAIN s, NEW j \in DOMAIN s[i]
    PROVE  \E k \in DOMAIN FlattenSeq(s) : FlattenSeq(s)[k] = s[i][j]
<1> DEFINE Holds(t) == \A o \in DOMAIN t : \A l \in DOMAIN t[o] :
                            \E k \in DOMAIN FlattenSeq(t) : FlattenSeq(t)[k] = t[o][l]
           B == {k \in Nat : \E t \in Seq(Seq(S)) : Len(t) = k /\ ~Holds(t)}
<1>1. ASSUME B # {} PROVE FALSE
  <2>1. PICK k \in B : \A o \in B : k <= o
    <3> HIDE DEF B
    <3>1. B \in SUBSET Nat
      BY DEF B
    <3> QED BY <1>1, <3>1, LeastNatural
  <2>2. PICK t \in Seq(Seq(S)) : Len(t) = k /\ ~Holds(t)
    BY <2>1
  <2>3. t # << >>
    <3>1. DOMAIN << >> = {}
      OBVIOUS
    <3> QED BY <2>2, <3>1
  <2>4. PICK r \in Seq(Seq(S)), x \in Seq(S) : t = Append(r, x) /\ Len(t) = Len(r) + 1
    BY <2>3, FrontFacts
  <2>5. Len(r) \in Nat /\ ~(k <= Len(r))
    BY <2>2, <2>4
  <2>6. Holds(r)
    BY <2>1, <2>5
  <2> HIDE DEF B
  <2>7. FlattenSeq(t) = FlattenSeq(r) \o x /\ FlattenSeq(r) \in Seq(S)
    BY <2>4, FlattenAppend, FlattenType
  <2>8. PICK a \in Seq(S) : a = FlattenSeq(r)
    BY <2>7
  <2>9. /\ \A l \in DOMAIN a : l \in DOMAIN (a \o x) /\ (a \o x)[l] = a[l]
        /\ \A l \in DOMAIN x : Len(a) + l \in DOMAIN (a \o x) /\ (a \o x)[Len(a) + l] = x[l]
    OBVIOUS
  <2>10. PICK Z : Z = Seq(S)
    OBVIOUS
  <2>11. \A o \in DOMAIN t : (o \in DOMAIN r /\ t[o] = r[o]) \/ t[o] = x
    <3>1. r \in Seq(Z) /\ x \in Z
      BY <2>10
    <3> QED BY <2>4, <3>1, AppendFacts
  <2>12. ASSUME NEW o \in DOMAIN t, NEW l \in DOMAIN t[o]
         PROVE  \E m \in DOMAIN FlattenSeq(t) : FlattenSeq(t)[m] = t[o][l]
    <3>1. CASE o \in DOMAIN r /\ t[o] = r[o]
      <4>1. PICK m \in DOMAIN a : a[m] = t[o][l]
        BY <2>6, <2>8, <3>1
      <4> QED BY <2>7, <2>8, <2>9, <4>1
    <3>2. CASE t[o] = x
      BY <2>7, <2>8, <2>9, <3>2
    <3> QED BY <2>11, <3>1, <3>2
  <2> QED BY <2>2, <2>12
<1>2. Len(s) \in Nat
  OBVIOUS
<1>3. Holds(s)
  BY <1>1, <1>2
<1> QED BY <1>3

\* \o and Append, for proofs that use their laws only.
Cat(a, b) == a \o b
Add(s, x) == Append(s, x)

LEMMA CatFacts ==
    ASSUME NEW S, NEW a \in Seq(S), NEW b \in Seq(S), NEW c \in Seq(S), NEW x \in S
    PROVE  /\ Cat(a, b) \in Seq(S) /\ Cat(Cat(a, b), c) = Cat(a, Cat(b, c))
           /\ Cat(a, Add(b, x)) = Add(Cat(a, b), x)
           /\ Cat(a, << >>) = a
BY ConcatAssociative, AppendConcat, ConcatFacts DEF Cat, Add

\* What two sequences make together is what they make, one after the other.
LEMMA FlattenConcat ==
    ASSUME NEW S, NEW a \in Seq(Seq(S)), NEW b \in Seq(Seq(S))
    PROVE  FlattenSeq(a \o b) = FlattenSeq(a) \o FlattenSeq(b)
<1> DEFINE T == Seq(S)
           Good(t) == FlattenSeq(Cat(a, t)) = Cat(FlattenSeq(a), FlattenSeq(t))
           B == {k \in Nat : \E t \in Seq(T) : Len(t) = k /\ ~Good(t)}
<1>1. << >> \in Seq(T) /\ << >> \in T
  OBVIOUS
<1>2. Good(<< >>)
  <2>1. FlattenSeq(a) \in T
    BY FlattenType
  <2>2. Cat(a, << >>) = a /\ Cat(FlattenSeq(a), << >>) = FlattenSeq(a)
    BY <2>1 DEF Cat
  <2> QED BY <2>2, FlattenEmpty
<1>3. ASSUME NEW r \in Seq(T), NEW x \in T, Good(r)
      PROVE  Good(Add(r, x))
  <2>1. FlattenSeq(a) \in Seq(S) /\ FlattenSeq(r) \in Seq(S)
    BY FlattenType
  <2>2. FlattenSeq(Add(r, x)) = Cat(FlattenSeq(r), x)
    BY FlattenAppend DEF Cat, Add
  <2>3. Cat(a, Add(r, x)) = Add(Cat(a, r), x) /\ Cat(a, r) \in Seq(T)
    BY CatFacts
  <2>4. FlattenSeq(Add(Cat(a, r), x)) = Cat(FlattenSeq(Cat(a, r)), x)
    BY <2>3, FlattenAppend DEF Cat, Add
  <2>5. Cat(Cat(FlattenSeq(a), FlattenSeq(r)), x) = Cat(FlattenSeq(a), Cat(FlattenSeq(r), x))
    BY <2>1, ConcatAssociative DEF Cat
  <2> QED BY <1>3, <2>2, <2>3, <2>4, <2>5
<1> HIDE DEF Good
<1>4. B = {}
  <2> SUFFICES ASSUME B # {} PROVE FALSE
    OBVIOUS
  <2>1. PICK k \in B : \A j \in B : k <= j
    <3> HIDE DEF B
    <3>1. B \in SUBSET Nat
      BY DEF B
    <3> QED BY <3>1, LeastNatural
  <2>2. PICK t \in Seq(T) : Len(t) = k /\ ~Good(t)
    BY <2>1
  <2>3. t # << >>
    BY <1>2, <2>2
  <2> HIDE DEF T
  <2>4. PICK r \in Seq(T), x \in T : t = Append(r, x) /\ Len(t) = Len(r) + 1
    BY <2>3, FrontFacts
  <2>5. Len(r) \in Nat /\ ~(k <= Len(r))
    BY <2>2, <2>4
  <2>6. Good(r)
    BY <2>1, <2>5
  <2> QED BY <1>3, <2>2, <2>4, <2>6 DEF Add
<1>5. Len(b) \in Nat
  OBVIOUS
<1>6. Good(b)
  BY <1>4, <1>5
<1> QED BY <1>6 DEF Good, Cat
=============================================================================
