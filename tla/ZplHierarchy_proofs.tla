------------------------- MODULE ZplHierarchy_proofs -------------------------
(***************************************************************************)
(* Theorems about ZplCompile that rest on the hierarchy of classes: what   *)
(* the ancestors of a class are, for any number of classes, and what is    *)
(* inferred from them.                                                     *)
(*                                                                         *)
(* Line follows the parents of a class for as many steps as there are      *)
(* classes.  LineIsClosed says that this is enough, and the least; all     *)
(* else about ancestors follows from that.  Where one would do induction   *)
(* there is a least counterexample.                                        *)
(***************************************************************************)
EXTENDS ZplCompile_proofs

-----------------------------------------------------------------------------
(* Ancestors.                                                               *)

Step(parent, S) == S \cup ({parent[d] : d \in S} \ {None})

\* The lines of a class, by 0, 1, 2, ... steps.
Chain(parent, c, n, g) ==
    /\ g = [i \in 0..n |-> g[i]]
    /\ g[0] = {c}
    /\ \A i \in 1..n : g[i] = Step(parent, g[i - 1])

LEMMA ChainExists ==
    ASSUME NEW parent, NEW c, NEW n \in Nat PROVE \E g : Chain(parent, c, n, g)
<1> DEFINE bad == {m \in Nat : ~ \E g : Chain(parent, c, m, g)}
<1> SUFFICES ASSUME bad # {} PROVE FALSE
  OBVIOUS
<1>1. PICK m \in bad : \A k \in bad : m <= k
  BY Least
<1>2. CASE m = 0
  <2> DEFINE g == [i \in 0..0 |-> {c}]
  <2>1. Chain(parent, c, 0, g)
    BY DEF Chain
  <2> QED
    BY <1>2, <2>1
<1>3. CASE m # 0
  <2>1. m - 1 \in Nat /\ m - 1 \notin bad /\ m \in Nat
    BY <1>1, <1>3
  <2>2. PICK g : Chain(parent, c, m - 1, g)
    BY <2>1
  <2> DEFINE h == [i \in 0..m |-> IF i = m THEN Step(parent, g[m - 1]) ELSE g[i]]
  <2>3. Chain(parent, c, m, h)
    <3>1. h = [i \in 0..m |-> h[i]] /\ h[0] = {c}
      BY <1>3, <2>1, <2>2 DEF Chain
    <3>2. ASSUME NEW i \in 1..m PROVE h[i] = Step(parent, h[i - 1])
      <4>1. i - 1 \in 0..m /\ i \in 0..m /\ i - 1 # m
        BY <2>1
      <4>2. h[i - 1] = g[i - 1]
        BY <4>1
      <4>3. CASE i = m
        BY <4>1, <4>2, <4>3
      <4>4. CASE i # m
        <5>1. i \in 1..(m - 1) /\ h[i] = g[i]
          BY <2>1, <4>1, <4>4
        <5> QED
          BY <2>2, <4>2, <5>1 DEF Chain
      <4> QED
        BY <4>3, <4>4
    <3> QED
      BY <3>1, <3>2 DEF Chain
  <2> QED
    BY <1>1, <2>3
<1> QED
  BY <1>2, <1>3

LEMMA ChainsAgree ==
    ASSUME NEW parent, NEW c, NEW n \in Nat, NEW m \in Nat, NEW g, NEW h,
           Chain(parent, c, n, g), Chain(parent, c, m, h),
           NEW i \in 0..n, i \in 0..m
    PROVE  g[i] = h[i]
<1> DEFINE bad == {j \in Nat : j <= n /\ j <= m /\ g[j] # h[j]}
<1> SUFFICES ASSUME bad # {} PROVE FALSE
  OBVIOUS
<1>1. PICK j \in bad : \A k \in bad : j <= k
  BY Least
<1>2. j # 0
  BY <1>1 DEF Chain
<1>3. j - 1 \in Nat /\ j - 1 \notin bad /\ j \in 1..n /\ j \in 1..m
  BY <1>1, <1>2
<1>4. g[j - 1] = h[j - 1]
  BY <1>3
<1>5. g[j] = Step(parent, g[j - 1]) /\ h[j] = Step(parent, h[j - 1])
  BY <1>3 DEF Chain
<1> QED
  BY <1>1, <1>4, <1>5

LEMMA LineForm ==
    ASSUME NEW parent, NEW c
    PROVE  \E up : /\ up = [n \in Nat |-> up[n]]
                   /\ up[0] = {c}
                   /\ \A n \in Nat : up[n + 1] = Step(parent, up[n])
                   /\ Line(parent, c) = up[Cardinality(DOMAIN parent)]
<1> DEFINE chain(n) == CHOOSE g : Chain(parent, c, n, g)
           f == [n \in Nat |-> chain(n)[n]]
<1>1. \A n \in Nat : Chain(parent, c, n, chain(n))
  BY ChainExists
<1> HIDE DEF chain
<1>2. f[0] = {c}
  BY <1>1 DEF Chain
<1>3. ASSUME NEW n \in Nat \ {0} PROVE f[n] = Step(parent, f[n - 1])
  <2>1. n - 1 \in Nat /\ n \in 1..n /\ n - 1 \in 0..n /\ n - 1 \in 0..(n - 1)
    OBVIOUS
  <2>2. chain(n)[n] = Step(parent, chain(n)[n - 1])
    BY <1>1, <2>1 DEF Chain
  <2>3. chain(n)[n - 1] = chain(n - 1)[n - 1]
    BY <1>1, <2>1, ChainsAgree
  <2> QED
    BY <2>1, <2>2, <2>3
<1>4. f = [n \in Nat |-> IF n = 0 THEN {c} ELSE Step(parent, f[n - 1])]
  <2>1. \A n \in Nat : f[n] = IF n = 0 THEN {c} ELSE Step(parent, f[n - 1])
    BY <1>2, <1>3
  <2>2. f = [n \in Nat |-> f[n]]
    OBVIOUS
  <2> HIDE DEF f
  <2> QED
    BY <2>1, <2>2
<1> HIDE DEF f
<1> DEFINE up[n \in Nat] == IF n = 0 THEN {c}
                         ELSE LET below == up[n - 1] IN
                              below \cup ({parent[d] : d \in below} \ {None})
<1>5. Line(parent, c) = up[Cardinality(DOMAIN parent)]
  BY DEF Line
<1>6. f = [n \in Nat |-> IF n = 0 THEN {c}
                         ELSE LET below == f[n - 1] IN
                              below \cup ({parent[d] : d \in below} \ {None})]
  BY <1>4, Zenon DEF Step
<1>7. up = [n \in Nat |-> IF n = 0 THEN {c}
                         ELSE LET below == up[n - 1] IN
                              below \cup ({parent[d] : d \in below} \ {None})]
  BY <1>6, Zenon
<1> HIDE DEF up
<1>8. up = [n \in Nat |-> up[n]] /\ up[0] = {c}
  BY <1>7
<1>9. ASSUME NEW n \in Nat PROVE up[n + 1] = Step(parent, up[n])
  <2>1. n + 1 \in Nat /\ n + 1 # 0 /\ (n + 1) - 1 = n
    OBVIOUS
  <2>2. up[n + 1] = LET below == up[(n + 1) - 1] IN
                              below \cup ({parent[d] : d \in below} \ {None})
    BY <1>7, <2>1
  <2> QED
    BY <2>1, <2>2, Zenon DEF Step
<1> QED
  BY <1>5, <1>8, <1>9
-----------------------------------------------------------------------------
\* A map from each of finitely many classes to its parent.
Hierarchy(parent) ==
    /\ IsFiniteSet(DOMAIN parent) /\ None \notin DOMAIN parent
    /\ \A d \in DOMAIN parent : parent[d] \in DOMAIN parent \cup {None}

Closed(parent, S) == \A d \in S : parent[d] # None => parent[d] \in S

\* A growing set of classes that does not grow in a step is closed for good.
LEMMA LineIsClosed ==
    ASSUME NEW parent, Hierarchy(parent), NEW c \in DOMAIN parent
    PROVE  /\ Line(parent, c) \subseteq DOMAIN parent /\ c \in Line(parent, c)
           /\ Closed(parent, Line(parent, c))
           /\ \A S : c \in S /\ Closed(parent, S) => Line(parent, c) \subseteq S
<1> DEFINE U == DOMAIN parent
           N == Cardinality(U)
<1>1. PICK up : /\ up = [n \in Nat |-> up[n]]
                /\ up[0] = {c}
                /\ \A n \in Nat : up[n + 1] = Step(parent, up[n])
                /\ Line(parent, c) = up[N]
  BY LineForm
<1>2. N \in Nat /\ IsFiniteSet(U)
  BY FS_CardinalityType DEF Hierarchy
<1>3. \A n \in Nat : up[n] \subseteq up[n + 1]
  BY <1>1 DEF Step
<1> DEFINE Good(n) == up[n] \subseteq U /\ c \in up[n]
           bad == {n \in Nat : ~Good(n)}
<1>4. bad = {}
  <2> SUFFICES ASSUME bad # {} PROVE FALSE
    OBVIOUS
  <2>1. PICK m \in bad : \A k \in bad : m <= k
    BY Least
  <2>2. m # 0
    BY <1>1, <2>1
  <2>3. m - 1 \in Nat /\ m - 1 \notin bad /\ (m - 1) + 1 = m
    BY <2>1, <2>2
  <2>4. Good(m - 1) /\ up[m] = Step(parent, up[m - 1])
    BY <1>1, <2>3
  <2>5. Good(m)
    BY <2>4 DEF Step, Hierarchy
  <2> QED
    BY <2>1, <2>5
<1>5. \A n \in Nat : up[n] \subseteq U /\ c \in up[n]
  BY <1>4
<1> HIDE DEF Good, bad
\* All the steps up to one that adds something add something.
<1>6. ASSUME up[N + 1] # up[N] PROVE FALSE
  <2> DEFINE short == {n \in Nat : n <= N + 1 /\ Cardinality(up[n]) < n + 1}
  <2>1. \A n \in Nat : IsFiniteSet(up[n]) /\ Cardinality(up[n]) \in Nat
                        /\ Cardinality(up[n]) <= N
    BY <1>2, <1>5, FS_Subset, FS_CardinalityType
  <2>2. short # {}
    <3>1. N + 1 \in Nat /\ Cardinality(up[N + 1]) <= N /\ Cardinality(up[N + 1]) \in Nat
      BY <1>2, <2>1
    <3> QED
      BY <1>2, <3>1
  <2>3. PICK m \in short : \A k \in short : m <= k
    BY <2>2, Least
  <2>4. m # 0
    <3>1. Cardinality({c}) = 1
      BY FS_Singleton
    <3>2. Cardinality(up[m]) < m + 1 /\ m \in Nat
      BY <2>3
    <3> SUFFICES ASSUME m = 0 PROVE FALSE
      OBVIOUS
    <3>3. up[m] = {c}
      BY <1>1
    <3> QED
      BY <3>1, <3>2, <3>3
  <2>5. m - 1 \in Nat /\ m - 1 \notin short /\ (m - 1) + 1 = m /\ m - 1 <= N
    BY <1>2, <2>3, <2>4
  <2>6. Cardinality(up[m - 1]) >= m
    BY <1>2, <2>1, <2>3, <2>5
  <2>7. up[m] = up[m - 1]
    <3>1. up[m - 1] \subseteq up[m]
      BY <1>3, <2>5
    <3>2. Cardinality(up[m]) < m + 1 /\ m \in Nat
      BY <2>3
    <3>3. Cardinality(up[m]) = Cardinality(up[m - 1])
      <4>1. Cardinality(up[m - 1]) <= Cardinality(up[m])
        BY <2>1, <2>3, <3>1, FS_Subset
      <4> QED
        BY <2>1, <2>3, <2>5, <2>6, <3>2, <4>1
    <3> QED
      BY <2>1, <3>1, <3>3, FS_Subset
  <2> DEFINE moved == {n \in Nat : n >= m /\ up[n] # up[m - 1]}
  <2>8. moved # {}
    <3>1. m <= N + 1 /\ m \in Nat
      BY <2>3
    <3>2. CASE m = N + 1
      BY <1>2, <1>6, <2>7, <3>2
    <3>3. CASE m <= N
      <4>1. up[N + 1] # up[m - 1] \/ up[N] # up[m - 1]
        BY <1>6
      <4> QED
        BY <1>2, <3>1, <3>3, <4>1
    <3> QED
      BY <1>2, <3>1, <3>2, <3>3
  <2>9. PICK k \in moved : \A j \in moved : k <= j
    BY <2>8, Least
  <2>10. k # m /\ m \in Nat
    BY <2>3, <2>7, <2>9
  <2>11. k - 1 \in Nat /\ k - 1 \notin moved /\ k - 1 >= m /\ (k - 1) + 1 = k
    BY <2>9, <2>10
  <2>12. up[k - 1] = up[m - 1]
    BY <2>11
  <2>13. up[k] = Step(parent, up[k - 1]) /\ up[m] = Step(parent, up[m - 1])
    BY <1>1, <2>5, <2>11
  <2> QED
    BY <2>7, <2>9, <2>12, <2>13
<1>7. Closed(parent, up[N])
  BY <1>1, <1>2, <1>6 DEF Closed, Step
<1>8. ASSUME NEW S, c \in S, Closed(parent, S) PROVE up[N] \subseteq S
  <2> DEFINE out == {n \in Nat : ~(up[n] \subseteq S)}
  <2> SUFFICES ASSUME out # {} PROVE FALSE
    BY <1>2
  <2>1. PICK m \in out : \A k \in out : m <= k
    BY Least
  <2>2. m # 0
    BY <1>1, <1>8, <2>1
  <2>3. m - 1 \in Nat /\ m - 1 \notin out /\ (m - 1) + 1 = m
    BY <2>1, <2>2
  <2>4. up[m] = Step(parent, up[m - 1]) /\ up[m - 1] \subseteq S
    BY <1>1, <2>3
  <2>5. up[m] \subseteq S
    BY <1>8, <2>4 DEF Closed, Step
  <2> QED
    BY <2>1, <2>5
<1> QED
  BY <1>1, <1>2, <1>5, <1>7, <1>8
\* The line of a class is itself and the line of its parent.
LEMMA LineUp ==
    ASSUME NEW parent, Hierarchy(parent), NEW c \in DOMAIN parent
    PROVE  /\ parent[c] = None => Line(parent, c) = {c}
           /\ parent[c] # None => Line(parent, c) = {c} \cup Line(parent, parent[c])
<1>1. CASE parent[c] = None
  <2>1. Closed(parent, {c})
    BY <1>1 DEF Closed
  <2>2. Line(parent, c) \subseteq {c} /\ c \in Line(parent, c)
    BY <2>1, LineIsClosed
  <2> QED
    BY <1>1, <2>2
<1>2. CASE parent[c] # None
  <2> DEFINE p == parent[c]
  <2>1. p \in DOMAIN parent
    BY <1>2 DEF Hierarchy
  <2>2. p \in Line(parent, p) /\ Closed(parent, Line(parent, p))
    BY <2>1, LineIsClosed
  <2>3. c \in Line(parent, c) /\ Closed(parent, Line(parent, c))
    BY LineIsClosed
  <2>4. Line(parent, c) \subseteq {c} \cup Line(parent, p)
    <3>1. Closed(parent, {c} \cup Line(parent, p))
      BY <2>2 DEF Closed
    <3> QED
      BY <3>1, LineIsClosed
  <2>5. Line(parent, p) \subseteq Line(parent, c)
    <3>1. p \in Line(parent, c)
      BY <1>2, <2>3 DEF Closed
    <3> QED
      BY <2>1, <2>3, <3>1, LineIsClosed
  <2> QED
    BY <1>2, <2>3, <2>4, <2>5
<1> QED
  BY <1>1, <1>2

\* Ancestors of ancestors are ancestors.
LEMMA LineIsTransitive ==
    ASSUME NEW parent, Hierarchy(parent), NEW c \in DOMAIN parent, NEW a \in Line(parent, c)
    PROVE  a \in DOMAIN parent /\ Line(parent, a) \subseteq Line(parent, c)
<1>1. a \in DOMAIN parent /\ Closed(parent, Line(parent, c))
  BY LineIsClosed
<1> QED
  BY <1>1, LineIsClosed

\* What ClassSchema._validate checks (class_schema.py 126-151).
Acyclic(parent) ==
    \A c \in DOMAIN parent : parent[c] # None => c \notin Line(parent, parent[c])

\* No two classes are each other's ancestors.
LEMMA LineIsOneWay ==
    ASSUME NEW parent, Hierarchy(parent), Acyclic(parent),
           NEW c \in DOMAIN parent, NEW a \in Line(parent, c), c \in Line(parent, a)
    PROVE  a = c
<1> SUFFICES ASSUME a # c PROVE FALSE
  OBVIOUS
<1>1. parent[c] # None /\ parent[c] \in DOMAIN parent /\ a \in Line(parent, parent[c])
  BY LineUp DEF Hierarchy
<1>2. c \in Line(parent, parent[c])
  BY <1>1, LineIsTransitive
<1> QED
  BY <1>1, <1>2 DEF Acyclic

\* An ancestor has fewer ancestors.
LEMMA LineShrinks ==
    ASSUME NEW parent, Hierarchy(parent), Acyclic(parent),
           NEW c \in DOMAIN parent, NEW a \in Line(parent, c), a # c
    PROVE  /\ Cardinality(Line(parent, a)) \in Nat /\ Cardinality(Line(parent, c)) \in Nat
           /\ Cardinality(Line(parent, a)) < Cardinality(Line(parent, c))
<1>1. a \in DOMAIN parent /\ Line(parent, a) \subseteq Line(parent, c)
  BY LineIsTransitive
<1>2. IsFiniteSet(Line(parent, c))
  BY LineIsClosed, FS_Subset DEF Hierarchy
<1>3. c \notin Line(parent, a) /\ c \in Line(parent, c)
  BY LineIsOneWay, LineIsClosed
<1>4. /\ IsFiniteSet(Line(parent, a))
      /\ Cardinality(Line(parent, a)) <= Cardinality(Line(parent, c))
      /\ Cardinality(Line(parent, a)) = Cardinality(Line(parent, c))
            => Line(parent, a) = Line(parent, c)
  BY <1>1, <1>2, FS_Subset
<1>5. Cardinality(Line(parent, a)) \in Nat /\ Cardinality(Line(parent, c)) \in Nat
  BY <1>2, <1>4, FS_CardinalityType
<1> QED
  BY <1>3, <1>4, <1>5

\* Each class has one ancestor without a parent.
LEMMA LineHasOneRoot ==
    ASSUME NEW parent, Hierarchy(parent), Acyclic(parent), NEW c \in DOMAIN parent
    PROVE  \E r \in DOMAIN parent :
              {a \in Line(parent, c) : parent[a] = None} = {r}
<1> DEFINE L == Line(parent, c)
           size(a) == Cardinality(Line(parent, a))
           sizes == {size(a) : a \in L}
<1>1. L \subseteq DOMAIN parent /\ c \in L /\ Closed(parent, L)
  BY LineIsClosed
<1>2. \A a \in L : size(a) \in Nat
  BY <1>1, LineIsClosed, FS_Subset, FS_CardinalityType DEF Hierarchy
<1>3. PICK s \in sizes : \A t \in sizes : s <= t
  <2>1. sizes \in SUBSET Nat /\ sizes # {}
    BY <1>1, <1>2
  <2> HIDE DEF sizes
  <2> QED
    BY <2>1, Least
<1>4. PICK r \in L : \A a \in L : size(r) <= size(a)
  BY <1>3
<1> HIDE DEF sizes
<1>5. parent[r] = None
  <2> SUFFICES ASSUME parent[r] # None PROVE FALSE
    OBVIOUS
  <2>1. parent[r] \in L /\ parent[r] \in DOMAIN parent /\ r \in DOMAIN parent
    BY <1>1, <1>4 DEF Closed
  <2>2. parent[r] \in Line(parent, r) /\ parent[r] # r
    <3>1. r \in Line(parent, r) /\ Closed(parent, Line(parent, r))
      BY <2>1, LineIsClosed
    <3>2. parent[r] \in Line(parent, parent[r])
      BY <2>1, LineIsClosed
    <3> QED
      BY <2>1, <3>1, <3>2 DEF Closed, Acyclic
  <2>3. size(parent[r]) < size(r) /\ size(parent[r]) \in Nat /\ size(r) \in Nat
    BY <2>1, <2>2, LineShrinks
  <2> QED
    BY <1>4, <2>1, <2>3
\* Whatever is in L has r above it.
<1>6. L \subseteq {a \in L : r \in Line(parent, a)}
  <2> DEFINE below == {a \in L : r \in Line(parent, a)}
  <2>1. c \in below
    BY <1>1, <1>4
  <2>2. ASSUME NEW a \in below, parent[a] # None PROVE parent[a] \in below
    <3>1. a \in DOMAIN parent /\ parent[a] \in L /\ a # r /\ r \in Line(parent, a)
      BY <1>1, <1>5, <2>2 DEF Closed
    <3>2. r \in Line(parent, parent[a])
      BY <2>2, <3>1, LineUp
    <3> QED
      BY <3>1, <3>2
  <2>3. Closed(parent, below)
    BY <2>2 DEF Closed
  <2> HIDE DEF below
  <2>4. L \subseteq below
    BY <2>1, <2>3, LineIsClosed
  <2> QED
    BY <2>4 DEF below
<1>7. ASSUME NEW a \in L, parent[a] = None PROVE a = r
  <2>1. a \in DOMAIN parent /\ r \in Line(parent, a)
    BY <1>1, <1>6
  <2> QED
    BY <1>7, <2>1, LineUp
<1> QED
  BY <1>1, <1>4, <1>5, <1>7

-----------------------------------------------------------------------------
(* Finite sets.                                                             *)

\* Of the images of a finite set there are no more than of its elements.
LEMMA Images ==
    ASSUME NEW S, IsFiniteSet(S), NEW f, DOMAIN f = S, NEW T,
           T \subseteq {f[x] : x \in S}
    PROVE  IsFiniteSet(T) /\ Cardinality(T) \in Nat /\ Cardinality(T) <= Cardinality(S)
<1> DEFINE U == {f[x] : x \in S}
           g == [x \in S |-> f[x]]
<1>1. g \in Surjection(S, U)
  BY DEF Surjection
<1> HIDE DEF g
<1>2. IsFiniteSet(U) /\ Cardinality(U) <= Cardinality(S)
  BY <1>1, FS_Surjection
<1>3. IsFiniteSet(T) /\ Cardinality(T) <= Cardinality(U)
  BY <1>2, FS_Subset
<1>4. Cardinality(T) \in Nat /\ Cardinality(U) \in Nat /\ Cardinality(S) \in Nat
  BY <1>2, <1>3, FS_CardinalityType
<1> QED
  BY <1>2, <1>3, <1>4

-----------------------------------------------------------------------------
(* The classes of a text.                                                   *)

DefinesOK(defines) ==
    /\ IsFiniteSet(DOMAIN defines)
    /\ \E n \in Nat : DOMAIN defines \subseteq 1..n
    /\ \A i \in DOMAIN defines : defines[i] \in Readings /\ defines[i].kind = "define"

LEMMA KeptDefines ==
    ASSUME NEW s \in Seq(Statement) PROVE DefinesOK(Kept(s, {"define"}))
<1>1. DOMAIN Kept(s, {"define"}) \subseteq 1..Len(s) /\ Len(s) \in Nat
  BY KeptOf
<1>2. IsFiniteSet(DOMAIN Kept(s, {"define"}))
  <2> DEFINE n == Len(s)
             D == DOMAIN Kept(s, {"define"})
  <2>1. n \in Nat /\ D \subseteq 1..n
    BY <1>1
  <2> HIDE DEF n, D
  <2>2. IsFiniteSet(1..n)
    BY <2>1, FS_Interval
  <2>3. IsFiniteSet(D)
    BY <2>1, <2>2, FS_Subset
  <2> QED
    BY <2>3 DEF D
<1> QED
  BY <1>1, <1>2, KeptOf DEF DefinesOK

LEMMA ClassesAreFinite ==
    ASSUME NEW defines, DefinesOK(defines)
    PROVE  IsFiniteSet(Classes(defines)) /\ None \notin Classes(defines)
<1> DEFINE f == [i \in DOMAIN defines |-> Lower(defines[i].name)]
           named == {f[i] : i \in DOMAIN defines}
<1>1. Classes(defines) = Builtin \cup named
  BY DEF Classes, Names
<1>2. None \notin Classes(defines)
  BY <1>1, StatementAssumption DEF DefinesOK
<1>3. IsFiniteSet(named)
  <2>1. DOMAIN f = DOMAIN defines /\ IsFiniteSet(DOMAIN defines)
    BY DEF DefinesOK
  <2> HIDE DEF f
  <2> QED
    BY <2>1, Images
<1>4. IsFiniteSet(Builtin)
  <2>1. IsFiniteSet({}) /\ Builtin = (((({} \cup {"users"}) \cup {"endpoints"}) \cup {"services"}) \cup {"servers"})
    BY FS_EmptySet DEF Builtin, Roots
  <2> QED
    BY <2>1, FS_AddElement
<1> HIDE DEF named
<1> QED
  BY <1>1, <1>2, <1>3, <1>4, FS_Union

\* What compiles is a hierarchy with the three roots.
LEMMA ParentIsHierarchy ==
    ASSUME NEW defines, DefinesOK(defines), Valid(defines)
    PROVE  LET parent == Parent(defines) IN
           /\ DOMAIN parent = Classes(defines)
           /\ Hierarchy(parent) /\ Acyclic(parent)
           /\ \A c \in Classes(defines) : parent[c] = None <=> c \in Roots
<1> DEFINE parent == Parent(defines)
<1>1. DOMAIN parent = Classes(defines)
  BY DEF Parent
<1>2. IsFiniteSet(Classes(defines)) /\ None \notin Classes(defines)
  BY ClassesAreFinite
<1>3. \A c \in Classes(defines) \cap Roots : parent[c] = None
  BY DEF Parent
<1>4. /\ \A c \in Classes(defines) \ Roots : parent[c] \in Classes(defines)
      /\ \A c \in Classes(defines) \ Roots : c \notin Line(parent, parent[c])
  BY DEF Valid
<1> HIDE DEF parent
<1>5. \A c \in Classes(defines) : parent[c] = None <=> c \in Roots
  BY <1>2, <1>3, <1>4
<1>6. Hierarchy(parent)
  BY <1>1, <1>2, <1>3, <1>4 DEF Hierarchy
<1>7. Acyclic(parent)
  BY <1>1, <1>4, <1>5 DEF Acyclic
<1> QED
  BY <1>1, <1>5, <1>6, <1>7 DEF parent
LEMMA MakerIs ==
    ASSUME NEW defines, DefinesOK(defines), NEW n \in Names(defines)
    PROVE  /\ Place(defines, n) \in DOMAIN defines
           /\ defines[Place(defines, n)].name = n
<1> DEFINE S == {i \in DOMAIN defines : defines[i].name = n}
<1>1. S \in SUBSET Nat /\ S # {}
  BY DEF DefinesOK, Names
<1>2. Min(S) \in S
  BY <1>1, MinIsIn
<1> QED
  BY <1>2 DEF Place

\* No alias is a class, and each stands for a class that was written.
LEMMA AkaIs ==
    ASSUME NEW defines, DefinesOK(defines), NoDuplicate(defines), NEW a \in DOMAIN Aka(defines)
    PROVE  a \notin Classes(defines) /\ Aka(defines)[a] \in Classes(defines) \ Builtin
<1> DEFINE alias(n) == Lower(Maker(defines, n).aka)
           given == {n \in Names(defines) : /\ Maker(defines, n).aka # None
                                            /\ alias(n) \notin Classes(defines)}
           places == {Place(defines, n) : n \in {m \in given : alias(m) = a}}
<1>1. Aka(defines) = [b \in {alias(n) : n \in given} |->
          Lower(defines[Max({Place(defines, n) : n \in {m \in given : alias(m) = b}})].name)]
  BY DEF Aka
<1>2. PICK n \in given : alias(n) = a
  BY <1>1
<1>3. Aka(defines)[a] = Lower(defines[Max(places)].name)
  BY <1>1
<1>4. places \subseteq DOMAIN defines /\ places # {}
  <2>1. \A m \in given : Place(defines, m) \in DOMAIN defines
    BY MakerIs
  <2> QED
    BY <1>2, <2>1
<1>5. PICK k \in Nat : DOMAIN defines \subseteq 1..k
  BY DEF DefinesOK
<1> HIDE DEF places
<1>6. Max(places) \in DOMAIN defines
  <2>1. places \in SUBSET (0..k)
    BY <1>4, <1>5
  <2> QED
    BY <1>4, <2>1, MaxIsIn
<1>7. defines[Max(places)].name \in Names(defines)
  BY <1>6 DEF Names
<1>8. Lower(defines[Max(places)].name) \in Classes(defines) \ Builtin
  BY <1>7 DEF NoDuplicate, Classes
<1> QED
  BY <1>2, <1>3, <1>8

\* The classes that were written have their fixed attributes.
LEMMA FixedIs ==
    ASSUME NEW defines, NEW line
    PROVE  DOMAIN Fixed(defines, line) = Classes(defines) \ Builtin
  BY DEF Fixed

\* What is known of a rule set that compiles.
LEMMA Sound ==
    ASSUME CompiledText, Ok
    PROVE  LET defines == Kept(text, {"define"}) IN
           /\ DefinesOK(defines) /\ Valid(defines) /\ NoDuplicate(defines)
           /\ crs.defs.line = [c \in Classes(defines) |-> Line(Parent(defines), c)]
           /\ crs.defs.aka = Aka(defines)
           /\ crs.defs.fixed = Fixed(defines, crs.defs.line)
           /\ crs.rules = FoldRules(Kept(text, {"allow", "never"}))
<1> DEFINE defines == Kept(text, {"define"})
           declares == Kept(text, {"declare"})
<1>1. crs = [defs |-> Definitions(defines, declares),
             rules |-> FoldRules(Kept(text, {"allow", "never"}))]
  BY CompiledForm DEF CompiledText, Ok
<1>2. DefinesOK(defines)
  BY KeptDefines DEF CompiledText
<1>3. Valid(defines) /\ NoDuplicate(defines)
  BY DEF CompiledText, Ok, compile_rules, Compiled, Valid
<1> HIDE DEF defines, declares
<1>4. /\ crs.defs.line = [c \in Classes(defines) |-> Line(Parent(defines), c)]
      /\ crs.defs.aka = Aka(defines)
      /\ crs.defs.fixed = Fixed(defines, crs.defs.line)
  BY <1>1 DEF Definitions
<1> QED
  BY <1>1, <1>2, <1>3, <1>4 DEF defines

\* The lines of a rule set.
LEMMA Lines ==
    ASSUME CompiledText, Ok
    PROVE  LET line == crs.defs.line IN
           /\ Builtin \subseteq DOMAIN line
           /\ \A c \in DOMAIN line :
                 /\ c \in line[c] /\ line[c] \subseteq DOMAIN line
                 /\ IsFiniteSet(line[c]) /\ Cardinality(line[c] \cap Roots) = 1
                 /\ c \in Roots => line[c] = {c}
                 /\ \A a \in line[c] :
                       /\ line[a] \subseteq line[c]
                       /\ a # c => Cardinality(line[a]) < Cardinality(line[c])
<1> DEFINE defines == Kept(text, {"define"})
           parent == Parent(defines)
           line == crs.defs.line
<1>1. /\ DefinesOK(defines) /\ Valid(defines)
      /\ line = [c \in Classes(defines) |-> Line(parent, c)]
  BY Sound
<1>2. /\ DOMAIN parent = Classes(defines) /\ Hierarchy(parent) /\ Acyclic(parent)
      /\ \A c \in Classes(defines) : parent[c] = None <=> c \in Roots
  BY <1>1, ParentIsHierarchy
<1>3. Builtin \subseteq Classes(defines)
  BY DEF Classes
<1> HIDE DEF defines, parent, line
<1>4. ASSUME NEW c \in Classes(defines)
      PROVE  /\ c \in line[c] /\ line[c] \subseteq DOMAIN line
             /\ IsFiniteSet(line[c]) /\ Cardinality(line[c] \cap Roots) = 1
             /\ c \in Roots => line[c] = {c}
             /\ \A a \in line[c] :
                   /\ line[a] \subseteq line[c]
                   /\ a # c => Cardinality(line[a]) < Cardinality(line[c])
  <2>1. c \in DOMAIN parent /\ line[c] = Line(parent, c) /\ DOMAIN line = DOMAIN parent
    BY <1>1, <1>2
  <2>2. c \in line[c] /\ line[c] \subseteq DOMAIN line
    BY <1>2, <2>1, LineIsClosed
  <2>3. IsFiniteSet(line[c])
    BY <1>2, <2>1, <2>2, FS_Subset DEF Hierarchy
  <2>4. Cardinality(line[c] \cap Roots) = 1
    <3>1. PICK r \in DOMAIN parent : {a \in line[c] : parent[a] = None} = {r}
      BY <1>2, <2>1, LineHasOneRoot
    <3>2. line[c] \cap Roots = {r}
      BY <1>2, <2>1, <2>2, <3>1
    <3> QED
      BY <3>2, FS_Singleton
  <2>5. c \in Roots => line[c] = {c}
    BY <1>2, <2>1, LineUp
  <2>6. ASSUME NEW a \in line[c]
        PROVE  /\ line[a] \subseteq line[c]
               /\ a # c => Cardinality(line[a]) < Cardinality(line[c])
    <3>1. line[a] = Line(parent, a)
      BY <1>1, <1>2, <2>1, <2>2
    <3> QED
      BY <1>2, <2>1, <3>1, LineIsTransitive, LineShrinks
  <2> QED
    BY <2>2, <2>3, <2>4, <2>5, <2>6
<1>5. DOMAIN line = Classes(defines)
  BY <1>1
<1> QED
  BY <1>3, <1>4, <1>5 DEF line

LEMMA TextIsShort == Spec => [](text \in Seq(Statement) /\ Len(text) <= MaxStatements)
<1> DEFINE Short == text \in Seq(Statement) /\ Len(text) <= MaxStatements
<1>1. Init => Short
  BY TextAssumption DEF Init
<1>2. Short /\ [Next]_vars => Short'
  BY TextAssumption DEF Next, Write, vars
<1> QED
  BY <1>1, <1>2, PTL DEF Spec

\* Whatever compiles has a sound hierarchy (class_schema.py 101-151), sound
\* aliases and fixed attributes, and no Never rule with a condition.
THEOREM CompiledCorrect == Spec => []CompiledOK
<1>1. CompiledText /\ text \in Seq(Statement) /\ Len(text) <= MaxStatements => CompiledOK
  <2> SUFFICES ASSUME CompiledText, Ok
               PROVE  /\ \A c \in DOMAIN crs.defs.line :
                            /\ c \in crs.defs.line[c]
                            /\ Cardinality(crs.defs.line[c] \cap Roots) = 1
                            /\ \A a \in crs.defs.line[c] :
                                  crs.defs.line[a] \subseteq crs.defs.line[c]
                      /\ \A a \in DOMAIN crs.defs.aka :
                            /\ a \notin DOMAIN crs.defs.line
                            /\ crs.defs.aka[a] \in DOMAIN crs.defs.line \ Builtin
                      /\ DOMAIN crs.defs.fixed = DOMAIN crs.defs.line \ Builtin
                      /\ \A i \in DOMAIN crs.rules : crs.rules[i].condition = None
                                                     \/ crs.rules[i].result = "allow"
    BY DEF CompiledOK
  <2> DEFINE defines == Kept(text, {"define"})
             rules == Kept(text, {"allow", "never"})
  <2>1. /\ DefinesOK(defines) /\ NoDuplicate(defines)
        /\ DOMAIN crs.defs.line = Classes(defines)
        /\ crs.defs.aka = Aka(defines)
        /\ crs.defs.fixed = Fixed(defines, crs.defs.line)
        /\ crs.rules = FoldRules(rules)
    BY Sound
  <2>2. \A i \in DOMAIN rules : /\ rules[i].kind \in {"allow", "never"}
                                /\ rules[i].kind = "never" => rules[i].condition = None
    BY CompiledForm, KeptOf DEF CompiledText, Ok
  <2> HIDE DEF defines, rules
  <2>3. DOMAIN crs.defs.fixed = DOMAIN crs.defs.line \ Builtin
    BY <2>1, FixedIs
  <2>4. \A a \in DOMAIN crs.defs.aka :
            /\ a \notin DOMAIN crs.defs.line
            /\ crs.defs.aka[a] \in DOMAIN crs.defs.line \ Builtin
    BY <2>1, AkaIs
  <2>5. \A i \in DOMAIN crs.rules : crs.rules[i].condition = None
                                    \/ crs.rules[i].result = "allow"
    <3>1. /\ DOMAIN crs.rules = DOMAIN rules
          /\ \A i \in DOMAIN rules : /\ crs.rules[i].result = rules[i].kind
                                     /\ crs.rules[i].condition = rules[i].condition
      BY <2>1, FoldedRule
    <3> QED
      BY <2>2, <3>1
  <2> QED
    BY <2>3, <2>4, <2>5, Lines
<1> QED
  BY <1>1, CompiledTextHolds, TextIsShort, PTL
-----------------------------------------------------------------------------
(* Resolution.                                                              *)

\* A class has one name of its own; only written classes have another.
LEMMA CanonicalIs ==
    ASSUME CompiledText, Ok, NEW c, has(crs.defs, c)
    PROVE  /\ canonical(crs.defs, c) \in DOMAIN crs.defs.line
           /\ c \in DOMAIN crs.defs.line => canonical(crs.defs, c) = c
           /\ canonical(crs.defs, c) \in Builtin => canonical(crs.defs, c) = c
<1> DEFINE defines == Kept(text, {"define"})
<1>1. /\ DefinesOK(defines) /\ NoDuplicate(defines)
      /\ DOMAIN crs.defs.line = Classes(defines) /\ crs.defs.aka = Aka(defines)
  BY Sound
<1> HIDE DEF defines
<1>2. CASE c \in DOMAIN crs.defs.line
  BY <1>2 DEF canonical
<1>3. CASE c \notin DOMAIN crs.defs.line
  <2>1. c \in DOMAIN crs.defs.aka /\ canonical(crs.defs, c) = crs.defs.aka[c]
    BY <1>3 DEF has, canonical
  <2>2. crs.defs.aka[c] \in Classes(defines) \ Builtin
    BY <1>1, <2>1, AkaIs
  <2> QED
    BY <1>1, <1>3, <2>1, <2>2
<1> QED
  BY <1>2, <1>3

\* A root matches no class but itself.
LEMMA RootMatches ==
    ASSUME CompiledText, Ok, NEW r \in Roots, NEW c, ClassMatches(crs.defs, c, r)
    PROVE  c = r
<1>1. r \in DOMAIN crs.defs.line /\ crs.defs.line[r] = {r} /\ r \in Builtin
  BY Lines DEF Builtin
<1>2. has(crs.defs, r) /\ canonical(crs.defs, r) = r
  BY <1>1 DEF has, canonical
<1>3. has(crs.defs, c) /\ canonical(crs.defs, c) \in crs.defs.line[r]
  BY <1>2 DEF ClassMatches, is_subclass
<1> QED
  BY <1>1, <1>3, CanonicalIs

\* The attributes of a name that nobody declared, without roles.
LEMMA OnlyName ==
    ASSUME NEW w
    PROVE  LET named == [k \in {"name"} |-> One(w)] IN Over(<<>>, named) = named
<1>1. DOMAIN <<>> = {}
  OBVIOUS
<1> QED
  BY <1>1 DEF Over

\* An identity of which nothing is known is a mere user.
LEMMA UnknownIsUser ==
    ASSUME CompiledText, Ok, NEW call, Unknown(call)
    PROVE  Subject(crs.defs, call).class = "users"
<1> DEFINE w == Name(call.user)
           named == [k \in {"name"} |-> One(w)]
           defs == crs.defs
<1>1. Subject(defs, call).class = InferClass(defs, "users", named, None)
  <2>1. RoleAttrs(call) = <<>> /\ w \notin DOMAIN defs.entities
    BY DEF Unknown, RoleAttrs
  <2> QED
    BY <2>1, OnlyName DEF Subject, Resolve
<1>2. ASSUME NEW c \in Candidates(defs, "users", named, None) PROVE FALSE
  <2>1. c \in DOMAIN defs.fixed /\ is_subclass(defs, c, "users") /\ FixedMatch(defs.fixed[c], named)
    BY <1>2 DEF Candidates
  <2>2. c \in DOMAIN defs.line /\ "users" \in DOMAIN defs.line
    <3>1. DOMAIN defs.fixed = Classes(Kept(text, {"define"})) \ Builtin
      BY Sound, FixedIs
    <3>2. DOMAIN defs.line = Classes(Kept(text, {"define"}))
      BY Sound
    <3>3. "users" \in Builtin
      BY DEF Builtin, Roots
    <3> QED
      BY <2>1, <3>1, <3>2, <3>3, Lines
  <2>3. "users" \in defs.line[c]
    BY <2>1, <2>2 DEF is_subclass, canonical
  <2>4. PICK k \in DOMAIN defs.fixed[c] : k = "name" => w \notin defs.fixed[c][k].of
    BY <2>1, <2>3 DEF Unknown
  <2>5. k \in DOMAIN named /\ named[k].of \subseteq defs.fixed[c][k].of
    BY <2>1 DEF FixedMatch
  <2>6. k = "name" /\ named[k].of = {w}
    BY <2>5 DEF One
  <2> QED
    BY <2>4, <2>5, <2>6
<1>3. Candidates(defs, "users", named, None) = {}
  BY <1>2
<1> HIDE DEF named
<1> QED
  BY <1>1, <1>3 DEF InferClass

\* An unknown identity gets nothing from rules that constrain their subject
\* (checker.py 20-21), whatever the classes.
THEOREM UnknownIdentityDeniedHolds == Spec => []UnknownIdentityDenied
<1>1. CompiledText => UnknownIdentityDenied
  <2> SUFFICES ASSUME CompiledText, Ok,
                      \A i \in Rules(crs, "allow") : crs.rules[i].subject.class # "users",
                      NEW call \in Call, Unknown(call), allowed(crs, call)
               PROVE  FALSE
    BY DEF UnknownIdentityDenied
  <2>1. PICK i \in Rules(crs, "allow") : MatchRule(crs.defs, crs.rules[i], Request(crs.defs, call))
    BY Verdict DEF Fires
  <2> DEFINE spec == crs.rules[i].subject
  <2>2. spec # None
    <3> DEFINE rules == Kept(text, {"allow", "never"})
    <3>1. /\ i \in DOMAIN crs.rules /\ crs.rules[i].result = "allow"
          /\ crs.rules = FoldRules(rules)
      BY Sound DEF Rules
    <3>2. i \in DOMAIN rules /\ crs.rules[i] = FoldRule(rules[i]) /\ rules[i].kind = "allow"
      BY <3>1, FoldedRule
    <3>3. rules[i] \in Readings
      BY <3>2, KeptOf DEF CompiledText
    <3> HIDE DEF rules
    <3>4. spec = FoldSpec(rules[i].subject)
      BY <3>2 DEF FoldRule
    <3> QED
      BY <3>2, <3>3, <3>4, StatementAssumption
  <2>3. MatchSpec(crs.defs, "subject", spec, Subject(crs.defs, call))
    BY <2>1 DEF MatchRule, SpecsMatch, Slot, Request
  <2>4. ClassMatches(crs.defs, spec.class, "users")
    BY <2>2, <2>3, UnknownIsUser DEF MatchSpec
  <2>5. "users" \in Roots
    BY DEF Roots
  <2> QED
    BY <2>1, <2>4, <2>5, RootMatches
<1> QED
  BY <1>1, CompiledTextHolds, PTL
-----------------------------------------------------------------------------
(* Roles.                                                                   *)

Roles == {"role", "roles"}

ListOfRoles(call) == call.roles # None /\ call.roles.list

\* None stands for no entity of a request, and is none itself.
NoneIsNoEntity == \A class, attrs : [class |-> class, attrs |-> attrs] # None

\* Nothing but the roles tells the attributes of a call from those without.
LEMMA RolesApart ==
    ASSUME NEW call \in Call, ListOfRoles(call), NEW named, DOMAIN named \cap Roles = {}
    PROVE  LET attrs == Over(RoleAttrs(call), named) IN
           /\ DOMAIN attrs \ Roles = DOMAIN named
           /\ \A k \in DOMAIN named : attrs[k] = named[k]
           /\ \A k \in DOMAIN attrs \cap Roles : attrs[k].list
<1> DEFINE role == RoleAttrs(call)
           attrs == Over(role, named)
<1>1. DOMAIN role \subseteq Roles /\ \A k \in DOMAIN role : role[k].list
  <2>1. call.roles = [list |-> call.roles.list, of |-> call.roles.of] /\ call.roles.list
    BY RolesAssumption DEF ListOfRoles
  <2> DEFINE given == [k \in {"role", "roles"} |-> call.roles]
  <2>2. role = FoldAttrs(given)
    BY DEF RoleAttrs, ListOfRoles
  <2>3. DOMAIN role = Roles /\ \A k \in Roles : role[k] = FoldValue(k, call.roles)
    BY <2>2 DEF FoldAttrs, Roles
  <2>4. \A k \in Roles : FoldValue(k, call.roles)
                           = [call.roles EXCEPT !.of = {Lower(w) : w \in @}]
    BY DEF FoldValue, Roles
  <2>5. [call.roles EXCEPT !.of = {Lower(w) : w \in @}].list
    BY <2>1
  <2> QED
    BY <2>3, <2>4, <2>5
<1> HIDE DEF role
<1>2. /\ DOMAIN attrs = DOMAIN role \cup DOMAIN named
      /\ \A k \in DOMAIN attrs : attrs[k] = IF k \in DOMAIN role THEN role[k] ELSE named[k]
  BY DEF Over
<1> HIDE DEF attrs
<1> QED
  BY <1>1, <1>2 DEF role, attrs

\* A class has the same members with roles as without.
LEMMA SameClass ==
    ASSUME NEW defs, NEW call \in Call, ListOfRoles(call), NEW named, DOMAIN named \cap Roles = {}
    PROVE  InferClass(defs, "users", Over(RoleAttrs(call), named), None)
              = InferClass(defs, "users", named, None)
<1> DEFINE attrs == Over(RoleAttrs(call), named)
<1>1. /\ DOMAIN attrs \ Roles = DOMAIN named
      /\ \A k \in DOMAIN named : attrs[k] = named[k]
      /\ \A k \in DOMAIN attrs \cap Roles : attrs[k].list
  BY RolesApart
<1> HIDE DEF attrs
<1>2. \A fixed : FixedMatch(fixed, attrs) <=> FixedMatch(fixed, named)
  <2> SUFFICES ASSUME NEW fixed
               PROVE  FixedMatch(fixed, attrs) <=> FixedMatch(fixed, named)
    OBVIOUS
  <2>1. ASSUME FixedMatch(fixed, attrs) PROVE FixedMatch(fixed, named)
    <3>1. \A k \in DOMAIN fixed : k \in DOMAIN attrs /\ ~attrs[k].list
                                  /\ attrs[k].of \subseteq fixed[k].of
      BY <2>1 DEF FixedMatch
    <3>2. \A k \in DOMAIN fixed : k \in DOMAIN named
      BY <1>1, <3>1
    <3> QED
      BY <1>1, <3>1, <3>2 DEF FixedMatch
  <2>2. ASSUME FixedMatch(fixed, named) PROVE FixedMatch(fixed, attrs)
    BY <1>1, <2>2 DEF FixedMatch
  <2> QED
    BY <2>1, <2>2
<1>3. Candidates(defs, "users", attrs, None) = Candidates(defs, "users", named, None)
  BY <1>2 DEF Candidates
<1>4. InferClass(defs, "users", attrs, None) = InferClass(defs, "users", named, None)
  <2> DEFINE best(found) == IF found = {} THEN "users"
                            ELSE CHOOSE c \in found : \A d \in found : Outranks(defs, c, d)
  <2>1. \A a : InferClass(defs, "users", a, None) = best(Candidates(defs, "users", a, None))
    BY DEF InferClass
  <2> HIDE DEF best
  <2> QED
    BY <1>3, <2>1
<1> QED
  BY <1>4 DEF attrs

\* The subject of a call without its roles is of the same class, and has the
\* same attributes but for the roles.
LEMMA SameSubject ==
    ASSUME NEW defs, NEW call \in Call, ListOfRoles(call),
           NEW bare, bare.user = call.user, bare.roles = None
    PROVE  /\ Subject(defs, bare).class = Subject(defs, call).class
           /\ \A k : k \notin Roles =>
                /\ k \in DOMAIN Subject(defs, bare).attrs <=> k \in DOMAIN Subject(defs, call).attrs
                /\ k \in DOMAIN Subject(defs, call).attrs =>
                      Subject(defs, bare).attrs[k] = Subject(defs, call).attrs[k]
<1> DEFINE w == Name(call.user)
           named == [k \in {"name"} |-> One(w)]
<1>1. RoleAttrs(bare) = <<>> /\ Name(bare.user) = w
  BY DEF RoleAttrs
<1>2. DOMAIN RoleAttrs(call) \subseteq Roles
  <2>1. call.roles = None => RoleAttrs(call) = <<>>
    BY DEF RoleAttrs
  <2>2. call.roles # None => DOMAIN RoleAttrs(call) = Roles
    BY DEF RoleAttrs, FoldAttrs, Roles
  <2> QED
    BY <2>1, <2>2
<1>3. \A f : DOMAIN Over(<<>>, f) = DOMAIN f /\ \A k \in DOMAIN f : Over(<<>>, f)[k] = f[k]
  BY DEF Over
<1>4. \A f : \A k : k \notin Roles =>
         /\ k \in DOMAIN Over(RoleAttrs(call), f) <=> k \in DOMAIN f
         /\ k \in DOMAIN f => Over(RoleAttrs(call), f)[k] = f[k]
  BY <1>2 DEF Over
<1>5. CASE w \in DOMAIN defs.entities
  <2> DEFINE own == Over(defs.entities[w].attrs, named)
  <2>1. /\ Subject(defs, call).class = defs.entities[w].class
        /\ Subject(defs, call).attrs = Over(RoleAttrs(call), own)
        /\ Subject(defs, bare).class = defs.entities[w].class
        /\ Subject(defs, bare).attrs = Over(<<>>, own)
    BY <1>1, <1>5 DEF Subject, Resolve
  <2> HIDE DEF own
  <2> QED
    BY <1>3, <1>4, <2>1
<1>6. CASE w \notin DOMAIN defs.entities
  <2>1. /\ Subject(defs, call).class = InferClass(defs, "users", Over(RoleAttrs(call), named), None)
        /\ Subject(defs, call).attrs = Over(RoleAttrs(call), named)
        /\ Subject(defs, bare).class = InferClass(defs, "users", Over(<<>>, named), None)
        /\ Subject(defs, bare).attrs = Over(<<>>, named)
    BY <1>1, <1>6 DEF Subject, Resolve
  <2>2. Over(<<>>, named) = named
    BY OnlyName
  <2>3. DOMAIN named \cap Roles = {}
    BY DEF Roles
  <2> HIDE DEF named
  <2>4. Subject(defs, call).class = Subject(defs, bare).class
    BY <2>1, <2>2, <2>3, SameClass
  <2> QED
    BY <1>3, <1>4, <2>1, <2>4
<1> QED
  BY <1>5, <1>6

\* A rule that names no role matches with roles and without.
LEMMA SameMatch ==
    ASSUME NoneIsNoEntity, NEW defs, NEW call \in Call, ListOfRoles(call), NEW rule,
           rule.subject # None => Roles \cap DOMAIN rule.subject.attrs = {}
    PROVE  MatchRule(defs, rule, Request(defs, [call EXCEPT !.roles = None]))
              <=> MatchRule(defs, rule, Request(defs, call))
<1> DEFINE bare == [call EXCEPT !.roles = None]
<1>1. /\ bare.roles = None /\ bare.user = call.user /\ bare.agent = call.agent
      /\ bare.service = call.service /\ bare.verb = call.verb /\ bare.tool = call.tool
      /\ bare.args = call.args /\ bare.context = call.context
  BY FoldingAssumption
<1> HIDE DEF bare
<1>2. /\ Accessor(defs, bare) = Accessor(defs, call) /\ Server(defs, bare) = Server(defs, call)
      /\ CallAttrs(bare) = CallAttrs(call)
  BY <1>1 DEF Accessor, Server, CallAttrs
<1> DEFINE with == Request(defs, call)
           without == Request(defs, bare)
<1>3. /\ without.accessor = with.accessor /\ without.object = with.object
      /\ without.server = with.server /\ without.verb = with.verb
      /\ without.context = with.context
      /\ without.subject = Subject(defs, bare) /\ with.subject = Subject(defs, call)
  BY <1>1, <1>2 DEF Request
<1> HIDE DEF with, without
<1>4. MatchSpec(defs, "subject", rule.subject, without.subject)
         <=> MatchSpec(defs, "subject", rule.subject, with.subject)
  <2>1. CASE rule.subject = None
    BY <2>1 DEF MatchSpec
  <2>2. CASE rule.subject # None
    <3> DEFINE spec == rule.subject
    <3>1. \A k \in DOMAIN spec.attrs : k \notin Roles
      BY <2>2
    <3>2. with.subject.class = without.subject.class
      BY <1>1, <1>3, SameSubject
    <3>3. \A k \in DOMAIN spec.attrs : AttrMatches(spec.attrs[k], with.subject.attrs, k)
                                   <=> AttrMatches(spec.attrs[k], without.subject.attrs, k)
      BY <1>1, <1>3, <3>1, SameSubject DEF AttrMatches
    <3>4. with.subject # None /\ without.subject # None
      BY <1>3 DEF Subject, Resolve, NoneIsNoEntity
    <3> QED
      BY <2>2, <3>2, <3>3, <3>4 DEF MatchSpec
  <2> QED
    BY <2>1, <2>2
<1>5. \A slot \in Slot \ {"subject"} : without[slot] = with[slot]
  BY <1>3 DEF Slot
<1>6. (\A slot \in Slot : MatchSpec(defs, slot, rule[slot], without[slot]))
         <=> \A slot \in Slot : MatchSpec(defs, slot, rule[slot], with[slot])
  BY <1>4, <1>5 DEF Slot
<1> QED
  BY <1>3, <1>6 DEF MatchRule, SpecsMatch, with, without, bare

\* Roles count where a rule names them and nowhere else, whatever the classes
\* fix and whoever is declared (checker.py 197-206, 231-238).
THEOREM RolesOnlyFilterHolds ==
    ASSUME NoneIsNoEntity PROVE Spec => []RolesOnlyFilter
<1>1. RolesOnlyFilter
  <2> SUFFICES ASSUME NEW call \in Call, ListOfRoles(call),
                      \A i \in DOMAIN crs.rules :
                         crs.rules[i].subject # None =>
                             Roles \cap DOMAIN crs.rules[i].subject.attrs = {}
               PROVE  allowed(crs, call) <=> allowed(crs, [call EXCEPT !.roles = None])
    BY DEF RolesOnlyFilter, Roles, ListOfRoles
  <2>1. \A result : Fires(crs, call, result) <=> Fires(crs, [call EXCEPT !.roles = None], result)
    BY SameMatch DEF Fires, Rules
  <2> QED
    BY <2>1, Verdict
<1> QED
  BY <1>1, PTL
-----------------------------------------------------------------------------
(* Inference.                                                               *)

\* A finite set that is ordered has a first element.
LEMMA Topmost ==
    ASSUME NEW S, IsFiniteSet(S), S # {}, NEW R,
           \A x, y \in S : <<x, y>> \in R \/ <<y, x>> \in R,
           \A x, y, z \in S : <<x, y>> \in R /\ <<y, z>> \in R => <<x, z>> \in R
    PROVE  \E x \in S : \A y \in S : <<x, y>> \in R
<1> DEFINE bad == {T \in SUBSET S : T # {} /\ \A x \in T : \E y \in T : <<x, y>> \notin R}
           size == [T \in SUBSET S |-> Cardinality(T)]
           sizes == {size[T] : T \in bad}
<1> SUFFICES ASSUME S \in bad PROVE FALSE
  OBVIOUS
<1>1. \A T \in SUBSET S : IsFiniteSet(T) /\ size[T] = Cardinality(T) /\ size[T] \in Nat
  BY FS_Subset, FS_CardinalityType
<1> HIDE DEF size
<1>2. PICK T \in bad : \A U \in bad : size[T] <= size[U]
  <2>1. sizes \in SUBSET Nat /\ sizes # {}
    BY <1>1
  <2>2. PICK n \in sizes : \A m \in sizes : n <= m
    <3> HIDE DEF sizes
    <3> QED
      BY <2>1, Least
  <2>3. PICK T \in bad : size[T] = n
    BY <2>2
  <2>4. \A U \in bad : size[T] <= size[U]
    BY <2>2, <2>3
  <2> QED
    BY <2>4
<1>3. T \in SUBSET S /\ T # {} /\ \A x \in T : \E y \in T : <<x, y>> \notin R
  BY <1>2
<1>4. PICK x \in T : TRUE
  BY <1>3
<1> DEFINE U == T \ {x}
<1>5. U \in SUBSET S /\ x \in S
  BY <1>3
<1>6. U \notin bad
  <2>1. Cardinality(U) = Cardinality(T) - 1
    BY <1>1, <1>3, FS_RemoveElement
  <2>2. size[U] = size[T] - 1 /\ size[T] \in Nat
    BY <1>1, <1>3, <1>5, <2>1
  <2> HIDE DEF U, bad
  <2> QED
    BY <1>2, <2>2
<1>7. <<x, x>> \in R
  BY <1>5
<1>8. U # {}
  <2>1. PICK y \in T : <<x, y>> \notin R
    BY <1>3
  <2> QED
    BY <1>7, <2>1
<1>9. PICK y \in U : \A z \in U : <<y, z>> \in R
  BY <1>5, <1>6, <1>8
<1>10. CASE <<y, x>> \in R
  BY <1>3, <1>9, <1>10
<1>11. CASE <<x, y>> \in R
  <2>1. \A z \in U : <<x, z>> \in R
    BY <1>5, <1>9, <1>11
  <2> QED
    BY <1>3, <1>7, <2>1
<1> QED
  BY <1>5, <1>9, <1>10, <1>11

\* A class has finitely many attributes.
LEMMA FixedIsFinite ==
    ASSUME NEW defines, DefinesOK(defines), NEW line, NEW c \in Classes(defines) \ Builtin,
           line[c] \subseteq Classes(defines)
    PROVE  IsFiniteSet(DOMAIN Fixed(defines, line)[c])
<1> DEFINE own == [d \in Classes(defines) |->
                     IF d \in Builtin THEN <<>>
                     ELSE FoldAttrs(MergedAttrs(defines, Written(defines, d)))]
           having(d, k) == {e \in line[d] : k \in DOMAIN own[e]}
           nearest(d, k) == CHOOSE e \in having(d, k) :
                              \A f \in having(d, k) : f \in line[e]
           keys(d) == UNION {DOMAIN own[e] : e \in line[d]}
           fixed == [d \in Classes(defines) \ Builtin |->
                       [k \in {j \in keys(d) : None \notin own[nearest(d, j)][j].of} |->
                           own[nearest(d, k)][k]]]
           attrs == [i \in DOMAIN defines |-> DOMAIN defines[i].attrs]
           all == UNION {attrs[i] : i \in DOMAIN defines}
<1>1. Fixed(defines, line) = fixed
  BY DEF Fixed
<1>2. ASSUME NEW d \in Classes(defines) PROVE DOMAIN own[d] \subseteq all
  <2>1. CASE d \in Builtin
    <3>1. DOMAIN own[d] = {}
      BY <2>1
    <3> QED
      BY <3>1
  <2>2. CASE d \notin Builtin
    <3>1. \A n : DOMAIN MergedAttrs(defines, n) \subseteq all
      BY DEF MergedAttrs
    <3> DEFINE merged == MergedAttrs(defines, Written(defines, d))
    <3>2. own[d] = FoldAttrs(merged)
      BY <2>2
    <3> HIDE DEF own, merged
    <3>3. DOMAIN own[d] = DOMAIN merged
      BY <3>2 DEF FoldAttrs
    <3> QED
      BY <3>1, <3>3 DEF merged
  <2> QED
    BY <2>1, <2>2
<1>3. IsFiniteSet(all)
  <2>1. DOMAIN attrs = DOMAIN defines /\ IsFiniteSet(DOMAIN defines)
    BY DEF DefinesOK
  <2>2. \A i \in DOMAIN defines : IsFiniteSet(attrs[i])
    BY StatementAssumption DEF DefinesOK
  <2> DEFINE sets == {attrs[i] : i \in DOMAIN defines}
  <2> HIDE DEF attrs
  <2>3. IsFiniteSet(sets)
    BY <2>1, Images
  <2>4. \A T \in sets : IsFiniteSet(T)
    BY <2>2
  <2> HIDE DEF sets
  <2>5. IsFiniteSet(UNION sets)
    BY <2>3, <2>4, FS_UNION
  <2> QED
    BY <2>5 DEF sets
<1> HIDE DEF own, nearest, all, attrs
<1>4. DOMAIN fixed[c] \subseteq all
  <2>1. DOMAIN fixed[c] \subseteq keys(c)
    OBVIOUS
  <2>2. keys(c) \subseteq all
    BY <1>2
  <2> QED
    BY <2>1, <2>2
<1> HIDE DEF fixed, keys
<1> QED
  BY <1>1, <1>3, <1>4, FS_Subset

\* The class that is inferred is one of the candidates, and outranks the others.
LEMMA InferredIs ==
    ASSUME CompiledText, Ok, NEW root, NEW attrs, NEW excluded,
           Candidates(crs.defs, root, attrs, excluded) # {}
    PROVE  LET found == Candidates(crs.defs, root, attrs, excluded)
               class == InferClass(crs.defs, root, attrs, excluded)
           IN class \in found /\ \A d \in found : Outranks(crs.defs, class, d)
<1> DEFINE defines == Kept(text, {"define"})
           defs == crs.defs
           found == Candidates(defs, root, attrs, excluded)
           depth == [c \in found |-> Depth(defs, c)]
           width == [c \in found |-> Cardinality(DOMAIN defs.fixed[c])]
           place == [c \in found |-> alphabetical[c]]
           R == {p \in found \X found : Outranks(defs, p[1], p[2])}
<1>1. /\ DefinesOK(defines) /\ DOMAIN defs.line = Classes(defines)
      /\ defs.fixed = Fixed(defines, defs.line)
      /\ DOMAIN defs.fixed = Classes(defines) \ Builtin
  BY Sound, FixedIs
<1>2. found \subseteq Classes(defines) \ Builtin
  BY <1>1 DEF Candidates
<1>3. IsFiniteSet(found)
  BY <1>1, <1>2, ClassesAreFinite, FS_Subset
<1>4. ASSUME NEW c \in found PROVE depth[c] \in Int /\ width[c] \in Int /\ place[c] \in Int
  <2>1. c \in DOMAIN defs.line /\ c \in Classes(defines) \ Builtin
    BY <1>1, <1>2
  <2> DEFINE line == defs.line
  <2>2. line[c] \subseteq DOMAIN line /\ IsFiniteSet(line[c]) /\ Cardinality(line[c]) \in Nat
    BY <2>1, Lines, FS_CardinalityType
  <2>3. depth[c] \in Int
    BY <2>2 DEF Depth
  <2>4. width[c] \in Int
    <3> HIDE DEF line
    <3>1. IsFiniteSet(DOMAIN Fixed(defines, line)[c])
      BY <1>1, <2>1, <2>2, FixedIsFinite DEF line
    <3>2. IsFiniteSet(DOMAIN defs.fixed[c])
      BY <1>1, <3>1 DEF line
    <3> QED
      BY <3>2, FS_CardinalityType
  <2>5. place[c] \in Int
    <3>1. PICK i \in DOMAIN defines : c = Lower(defines[i].name)
      BY <2>1 DEF Classes, Names
    <3> QED
      BY <1>1, <3>1, StatementAssumption DEF DefinesOK
  <2> QED
    BY <2>3, <2>4, <2>5
<1>5. \A c, d \in found : Outranks(defs, c, d) <=>
          \/ depth[c] > depth[d]
          \/ /\ depth[c] = depth[d]
             /\ width[c] > width[d] \/ (width[c] = width[d] /\ place[c] >= place[d])
  BY DEF Outranks
<1> HIDE DEF found, depth, width, place, defs
<1>6. \A x, y \in found : <<x, y>> \in R \/ <<y, x>> \in R
  BY <1>4, <1>5
<1>7. \A x, y, z \in found : <<x, y>> \in R /\ <<y, z>> \in R => <<x, z>> \in R
  BY <1>4, <1>5
<1>8. \E x \in found : \A y \in found : Outranks(defs, x, y)
  <2>1. found # {}
    BY DEF found, defs
  <2> HIDE DEF R
  <2>2. PICK x \in found : \A y \in found : <<x, y>> \in R
    BY <1>3, <1>6, <1>7, <2>1, Topmost
  <2> QED
    BY <2>2 DEF R
<1>9. InferClass(defs, root, attrs, excluded) =
          CHOOSE c \in found : \A d \in found : Outranks(defs, c, d)
  BY DEF InferClass, found, defs
<1> QED
  BY <1>8, <1>9 DEF found, defs

\* Depth wins (checker.py 16-17), for any classes and any call.
THEOREM MostSpecificHolds == Spec => []MostSpecific
<1>1. CompiledText => MostSpecific
  <2> DEFINE defs == crs.defs
             found(call) == Candidates(defs, "services", CallAttrs(call), None)
             class(call) == InferClass(defs, "services", CallAttrs(call), None)
  <2> SUFFICES ASSUME CompiledText, Ok, NEW call \in Call, NEW c \in found(call),
                      is_subclass(defs, c, class(call)), c # class(call)
               PROVE  FALSE
    BY DEF MostSpecific, Request
  <2>1. class(call) \in found(call) /\ Outranks(defs, class(call), c)
    BY InferredIs
  <2>2. c \in DOMAIN defs.line /\ class(call) \in DOMAIN defs.line
    BY <2>1, Sound, FixedIs DEF Candidates
  <2>3. class(call) \in defs.line[c]
    BY <2>2 DEF is_subclass, canonical
  <2>4. /\ Cardinality(defs.line[class(call)]) < Cardinality(defs.line[c])
        /\ Cardinality(defs.line[class(call)]) \in Nat /\ Cardinality(defs.line[c]) \in Nat
    BY <2>2, <2>3, Lines, FS_CardinalityType
  <2> QED
    BY <2>1, <2>4 DEF Outranks, Depth
<1> QED
  BY <1>1, CompiledTextHolds, PTL
=============================================================================
