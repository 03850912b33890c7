------------------------------ MODULE Folding ------------------------------
(***************************************************************************)
(* Induction over the naturals and over FoldLeft, for the proofs of this   *)
(* project.  The library states induction for an operator P(_), which the  *)
(* provers cannot choose; here it is stated for a set, which they can, and *)
(* follows from the naturals being well founded.  FoldLeft takes an        *)
(* operator all the same: the module is instantiated with it, and so it is *)
(* with the step of a walk.                                                *)
(***************************************************************************)
EXTENDS Integers, Sequences, SequencesExt, WellFoundedInduction, TLAPS

CONSTANT Op(_, _)

(* A set that has 0, and n + 1 whenever it has n, has every natural.       *)
LEMMA NatSetInduction ==
    ASSUME NEW T, 0 \in T, \A n \in Nat : n \in T => n + 1 \in T
    PROVE  \A n \in Nat : n \in T
<1>. DEFINE Bad == Nat \ T
<1>. SUFFICES ASSUME Bad # {} PROVE FALSE
  OBVIOUS
<1>1. PICK x \in Bad : \A y \in Bad : ~ (<<y, x>> \in OpToRel(<, Nat))
  <2>. HIDE DEF Bad
  <2>1. Bad \subseteq Nat
    BY DEF Bad
  <2>2. IsWellFoundedOn(OpToRel(<, Nat), Nat)
    BY NatLessThanWellFounded
  <2>. QED
    BY <2>1, <2>2, WFMin
<1>2. \A y \in Bad : ~ (y < x)
  BY <1>1 DEF OpToRel
<1>3. x \in Nat /\ x \notin T
  OBVIOUS
<1>4. x # 0 /\ x - 1 \in Nat
  BY <1>3
<1>5. x - 1 \in T
  BY <1>2, <1>4
<1>. QED
  BY <1>3, <1>4, <1>5

(* The same up to a bound.                                                 *)
LEMMA UpTo ==
    ASSUME NEW m \in Nat, NEW T, 0 \in T, \A n \in 0 .. m - 1 : n \in T => n + 1 \in T
    PROVE  \A n \in 0 .. m : n \in T
<1>. DEFINE U == {n \in Nat : n <= m => n \in T}
<1>1. 0 \in U
  OBVIOUS
<1>2. \A n \in Nat : n \in U => n + 1 \in U
  OBVIOUS
<1>3. \A n \in Nat : n \in U
  <2>. HIDE DEF U
  <2>. QED
    BY <1>1, <1>2, NatSetInduction
<1>. QED
  BY <1>3

-----------------------------------------------------------------------------
(* A walk of m steps, one after the other, exists.                         *)
IsWalk(w, base, m) ==
    w = [n \in 0 .. m |-> IF n = 0 THEN base ELSE Op(w[n - 1], n)]

LEMMA WalkExists ==
    ASSUME NEW base, NEW m \in Nat
    PROVE  \E w : IsWalk(w, base, m)
<1>. DEFINE T == {k \in Nat : \E w : IsWalk(w, base, k)}
<1>1. 0 \in T
  <2>. DEFINE w == [n \in 0 .. 0 |-> base]
  <2>1. w = [n \in 0 .. 0 |-> IF n = 0 THEN base ELSE Op(w[n - 1], n)]
    OBVIOUS
  <2>. QED
    BY <2>1 DEF IsWalk
<1>2. ASSUME NEW k \in Nat, k \in T
      PROVE  k + 1 \in T
  <2>1. PICK w : IsWalk(w, base, k)
    BY <1>2
  <2>. DEFINE next == [n \in 0 .. k + 1 |-> IF n = k + 1 THEN Op(w[k], k + 1) ELSE w[n]]
  <2>2. \A n \in 0 .. k : w[n] = IF n = 0 THEN base ELSE Op(w[n - 1], n)
    BY <2>1 DEF IsWalk
  <2>3. ASSUME NEW n \in 0 .. k + 1
        PROVE  next[n] = IF n = 0 THEN base ELSE Op(next[n - 1], n)
    <3>1. CASE n = k + 1
      BY <3>1
    <3>2. CASE n # k + 1
      <4>1. n \in 0 .. k /\ (n # 0 => n - 1 \in 0 .. k)
        BY <3>2
      <4>. QED
        BY <2>2, <3>2, <4>1
    <3>. QED
      BY <3>1, <3>2
  <2>4. IsWalk(next, base, k + 1)
    <3>1. next = [n \in 0 .. k + 1 |-> next[n]]
      OBVIOUS
    <3>. HIDE DEF next
    <3>. QED
      BY <2>3, <3>1 DEF IsWalk
  <2>. QED
    BY <2>4
<1>3. \A k \in Nat : k \in T
  <2>. HIDE DEF T
  <2>. QED
    BY <1>1, <1>2, NatSetInduction
<1>. QED
  BY <1>3

-----------------------------------------------------------------------------
(* A function on the naturals that recurs to smaller ones exists: down     *)
(* says where to, and start what it is where it stops.                     *)
Recurs(f, Stop, start, down, D) ==
    f = [m \in D |-> IF m \in Stop THEN start[m] ELSE Op(f[down[m]], m)]

LEMMA RecursionExists ==
    ASSUME NEW Stop, NEW start, NEW down,
           \A m \in Nat : m \notin Stop => down[m] \in Nat /\ down[m] < m
    PROVE  \E f : Recurs(f, Stop, start, down, Nat)
<1>. DEFINE Up(f, n) == Recurs(f, Stop, start, down, 0 .. n)
            T == {n \in Nat : \E f : Up(f, n)}
<1>1. ASSUME NEW n \in Nat, NEW f, Up(f, n), NEW m \in 0 .. n
      PROVE  /\ f[m] = IF m \in Stop THEN start[m] ELSE Op(f[down[m]], m)
             /\ m \notin Stop => down[m] \in 0 .. m - 1
  <2>1. f[m] = IF m \in Stop THEN start[m] ELSE Op(f[down[m]], m)
    BY <1>1 DEF Recurs
  <2>2. m \notin Stop => down[m] \in 0 .. m - 1
    OBVIOUS
  <2>. QED
    BY <2>1, <2>2
<1>2. 0 \in T
  <2>. DEFINE f == [m \in 0 .. 0 |-> start[m]]
  <2>1. f = [m \in 0 .. 0 |-> IF m \in Stop THEN start[m] ELSE Op(f[down[m]], m)]
    <3>1. \A m \in 0 .. 0 : m \in Stop
      OBVIOUS
    <3>. QED
      BY <3>1
  <2>. QED
    BY <2>1 DEF Recurs
<1>3. ASSUME NEW n \in Nat, n \in T
      PROVE  n + 1 \in T
  <2>1. PICK f : Up(f, n)
    BY <1>3
  <2>. DEFINE g == [m \in 0 .. n + 1 |->
                      IF m \in 0 .. n THEN f[m]
                      ELSE IF m \in Stop THEN start[m] ELSE Op(f[down[m]], m)]
  <2>2. ASSUME NEW m \in 0 .. n + 1
        PROVE  g[m] = IF m \in Stop THEN start[m] ELSE Op(g[down[m]], m)
    <3>1. m \notin Stop => down[m] \in 0 .. n
      OBVIOUS
    <3>2. m \notin Stop => g[down[m]] = f[down[m]]
      BY <3>1
    <3>3. CASE m \in 0 .. n
      <4>1. f[m] = IF m \in Stop THEN start[m] ELSE Op(f[down[m]], m)
        BY <1>1, <2>1, <3>3
      <4>. QED
        BY <3>2, <3>3, <4>1
    <3>4. CASE m \notin 0 .. n
      BY <3>2, <3>4
    <3>. QED
      BY <3>3, <3>4
  <2>3. Up(g, n + 1)
    <3>1. g = [m \in 0 .. n + 1 |-> g[m]]
      OBVIOUS
    <3>. HIDE DEF g
    <3>. QED
      BY <2>2, <3>1 DEF Recurs
  <2>. QED
    BY <2>3
<1>4. \A n \in Nat : n \in T
  <2>. HIDE DEF T
  <2>. QED
    BY <1>2, <1>3, NatSetInduction
<1>. DEFINE pick == [n \in Nat |-> CHOOSE f : Up(f, n)]
<1>5. ASSUME NEW n \in Nat
      PROVE  Up(pick[n], n)
  BY <1>4
<1>. HIDE DEF pick
<1>. DEFINE U == {m \in Nat : \A k \in 0 .. m : \A n \in Nat : k <= n => pick[n][k] = pick[k][k]}
<1>6. 0 \in U
  <2>. SUFFICES ASSUME NEW n \in Nat PROVE pick[n][0] = pick[0][0]
    OBVIOUS
  <2>1. 0 \in Stop
    OBVIOUS
  <2>2. pick[n][0] = start[0]
    <3>1. 0 \in 0 .. n
      OBVIOUS
    <3>. QED
      BY <1>1, <1>5, <2>1, <3>1
  <2>3. pick[0][0] = start[0]
    <3>1. 0 \in 0 .. 0
      OBVIOUS
    <3>. QED
      BY <1>1, <1>5, <2>1, <3>1
  <2>. QED
    BY <2>2, <2>3
<1>7. ASSUME NEW m \in Nat, m \in U
      PROVE  m + 1 \in U
  <2>. SUFFICES ASSUME NEW n \in Nat, m + 1 <= n
                PROVE  pick[n][m + 1] = pick[m + 1][m + 1]
    BY <1>7
  <2>1. m + 1 \in 0 .. n /\ m + 1 \in 0 .. m + 1
    OBVIOUS
  <2>2. CASE m + 1 \in Stop
    BY <1>1, <1>5, <2>1, <2>2
  <2>3. CASE m + 1 \notin Stop
    <3>. DEFINE d == down[m + 1]
    <3>1. d \in 0 .. m
      BY <2>3
    <3>. HIDE DEF d
    <3>2. pick[n][d] = pick[d][d] /\ pick[m + 1][d] = pick[d][d]
      BY <1>7, <3>1
    <3>3. pick[n][m + 1] = Op(pick[n][d], m + 1)
      BY <1>1, <1>5, <2>1, <2>3 DEF d
    <3>4. pick[m + 1][m + 1] = Op(pick[m + 1][d], m + 1)
      BY <1>1, <1>5, <2>1, <2>3 DEF d
    <3>. QED
      BY <3>2, <3>3, <3>4
  <2>. QED
    BY <2>2, <2>3
<1>8. \A m \in Nat : m \in U
  <2>. HIDE DEF U
  <2>. QED
    BY <1>6, <1>7, NatSetInduction
<1>. DEFINE f == [m \in Nat |-> pick[m][m]]
<1>9. ASSUME NEW m \in Nat
      PROVE  f[m] = IF m \in Stop THEN start[m] ELSE Op(f[down[m]], m)
  <2>1. m \in 0 .. m
    OBVIOUS
  <2>2. pick[m][m] = IF m \in Stop THEN start[m] ELSE Op(pick[m][down[m]], m)
    BY <1>1, <1>5, <2>1
  <2>3. CASE m \notin Stop
    <3>. DEFINE d == down[m]
    <3>1. d \in Nat /\ d <= m /\ d \in 0 .. d
      BY <2>3
    <3>. HIDE DEF d
    <3>2. pick[m][d] = pick[d][d]
      BY <1>8, <3>1
    <3>. QED
      BY <2>2, <2>3, <3>1, <3>2 DEF d
  <2>. QED
    BY <2>2, <2>3
<1>10. f = [m \in Nat |-> f[m]]
  OBVIOUS
<1>. HIDE DEF f
<1>. QED
  BY <1>9, <1>10 DEF Recurs

-----------------------------------------------------------------------------
(* The greatest element is the one that is.                                *)
LEMMA MaxIs ==
    ASSUME NEW S \in SUBSET Int, NEW m \in S, \A y \in S : m >= y
    PROVE  Max(S) = m
<1>. DEFINE Greatest(x) == x \in S /\ \A y \in S : x >= y
<1>1. Max(S) = CHOOSE x : Greatest(x)
  BY DEF Max
<1>2. Greatest(m)
  OBVIOUS
<1>3. Greatest(CHOOSE x : Greatest(x))
  <2>. HIDE DEF Greatest
  <2>. QED
    BY <1>2
<1>. DEFINE c == CHOOSE x : Greatest(x)
<1>4. c \in S /\ c >= m /\ m >= c
  BY <1>3
<1>. HIDE DEF c
<1>5. c = m
  BY <1>4
<1>. QED
  BY <1>1, <1>5 DEF c

(* The function FoldLeft iterates over the subsets of D.                    *)
Iterates(g, D, base, seq) ==
    g = [s \in SUBSET D |-> IF s = {} THEN base
                            ELSE Op(g[s \ {Max(s)}], seq[Max(s)])]

(* It exists: a subset with a new greatest element comes after the rest.   *)
LEMMA IterationExists ==
    ASSUME NEW base, NEW seq, NEW n \in Nat
    PROVE  \E g : Iterates(g, 1 .. n, base, seq)
<1>. DEFINE T == {m \in Nat : \E g : Iterates(g, 1 .. m, base, seq)}
<1>1. 0 \in T
  <2>. DEFINE g == [s \in SUBSET (1 .. 0) |-> base]
  <2>1. g = [s \in SUBSET (1 .. 0) |-> IF s = {} THEN base
                                      ELSE Op(g[s \ {Max(s)}], seq[Max(s)])]
    <3>1. \A s \in SUBSET (1 .. 0) : s = {}
      OBVIOUS
    <3>. QED
      BY <3>1
  <2>. QED
    BY <2>1 DEF Iterates
<1>2. ASSUME NEW m \in Nat, m \in T
      PROVE  m + 1 \in T
  <2>. DEFINE D == 1 .. m
              E == 1 .. m + 1
  <2>1. PICK g : Iterates(g, D, base, seq)
    BY <1>2
  <2>. DEFINE next == [s \in SUBSET E |->
                         IF m + 1 \in s THEN Op(g[s \ {m + 1}], seq[m + 1]) ELSE g[s]]
  <2>2. ASSUME NEW s \in SUBSET E
        PROVE  next[s] = IF s = {} THEN base ELSE Op(next[s \ {Max(s)}], seq[Max(s)])
    <3>1. CASE m + 1 \in s
      <4>1. Max(s) = m + 1
        <5>1. s \in SUBSET Int /\ \A y \in s : m + 1 >= y
          OBVIOUS
        <5>. QED
          BY <3>1, <5>1, MaxIs
      <4>2. s \ {m + 1} \in SUBSET E /\ m + 1 \notin s \ {m + 1} /\ s # {}
        BY <3>1
      <4>3. next[s \ {m + 1}] = g[s \ {m + 1}]
        BY <4>2
      <4>. QED
        BY <3>1, <4>1, <4>2, <4>3
    <3>2. CASE m + 1 \notin s
      <4>1. s \in SUBSET D /\ s \ {Max(s)} \in SUBSET E /\ m + 1 \notin s \ {Max(s)}
        <5>1. \A y \in s : y \in 1 .. m
          BY <3>2
        <5>. QED
          BY <3>2, <5>1
      <4>2. next[s] = g[s] /\ next[s \ {Max(s)}] = g[s \ {Max(s)}]
        BY <3>2, <4>1
      <4>3. g[s] = IF s = {} THEN base ELSE Op(g[s \ {Max(s)}], seq[Max(s)])
        BY <2>1, <4>1 DEF Iterates
      <4>. QED
        BY <4>2, <4>3
    <3>. QED
      BY <3>1, <3>2
  <2>3. Iterates(next, E, base, seq)
    <3>1. next = [s \in SUBSET E |-> next[s]]
      OBVIOUS
    <3>. HIDE DEF next
    <3>. QED
      BY <2>2, <3>1 DEF Iterates
  <2>. QED
    BY <2>3
<1>3. \A m \in Nat : m \in T
  <2>. HIDE DEF T
  <2>. QED
    BY <1>1, <1>2, NatSetInduction
<1>. QED
  BY <1>3

(* FoldLeft step by step: what holds of the base and is handed on by every *)
(* step, of k elements in I[k], holds of the result.                       *)
LEMMA FoldLeftInduction ==
    ASSUME NEW base, NEW seq, NEW n \in Nat, DOMAIN seq = 1 .. n,
           NEW I, base \in I[0],
           \A k \in 1 .. n : \A x \in I[k - 1] : Op(x, seq[k]) \in I[k]
    PROVE  FoldLeft(Op, base, seq) \in I[n]
<1>. DEFINE iter == CHOOSE g : Iterates(g, DOMAIN seq, base, seq)
<1>1. Iterates(iter, DOMAIN seq, base, seq)
  BY IterationExists
<1>2. FoldLeft(Op, base, seq) = iter[DOMAIN seq]
  BY DEF FoldLeft, MapThenFoldSet, Iterates
<1>. HIDE DEF iter
<1>. DEFINE T == {k \in 0 .. n : iter[1 .. k] \in I[k]}
<1>3. 0 \in T
  BY <1>1 DEF Iterates
<1>4. ASSUME NEW k \in 0 .. n - 1, k \in T
      PROVE  k + 1 \in T
  <2>. DEFINE s == 1 .. k + 1
  <2>1. Max(s) = k + 1
    <3>1. s \in SUBSET Int /\ k + 1 \in s /\ \A y \in s : k + 1 >= y
      OBVIOUS
    <3>. QED
      BY <3>1, MaxIs
  <2>2. s \in SUBSET (DOMAIN seq) /\ s # {} /\ s \ {k + 1} = 1 .. k
    <3>1. \A y : y \in s \ {k + 1} <=> y \in 1 .. k
      OBVIOUS
    <3>2. k + 1 \in s /\ \A y \in s : y \in 1 .. n
      OBVIOUS
    <3>. QED
      BY <3>1, <3>2
  <2>3. iter[s] = Op(iter[1 .. k], seq[k + 1])
    <3>. HIDE DEF s
    <3>. QED
      BY <1>1, <2>1, <2>2 DEF Iterates
  <2>4. k + 1 \in 1 .. n /\ k = (k + 1) - 1 /\ iter[1 .. k] \in I[k]
    BY <1>4
  <2>. QED
    BY <2>3, <2>4
<1>5. \A k \in 0 .. n : k \in T
  <2>. HIDE DEF T
  <2>. QED
    BY <1>3, <1>4, UpTo
<1>. QED
  BY <1>2, <1>5

(* Nothing to fold.                                                        *)
LEMMA FoldLeftEmpty ==
    ASSUME NEW base
    PROVE  FoldLeft(Op, base, << >>) = base
<1>. DEFINE I == [k \in 0 .. 0 |-> {base}]
<1>1. base \in I[0] /\ I[0] = {base}
  OBVIOUS
<1>2. DOMAIN << >> = 1 .. 0
  OBVIOUS
<1>. HIDE DEF I
<1>3. FoldLeft(Op, base, << >>) \in I[0]
  <2>1. \A k \in 1 .. 0 : \A x \in I[k - 1] : Op(x, << >>[k]) \in I[k]
    OBVIOUS
  <2>. QED
    BY <1>1, <1>2, <2>1, FoldLeftInduction
<1>. QED
  BY <1>1, <1>3

(* Any function that iterates is the one of the fold.                      *)
LEMMA FoldLeftIs ==
    ASSUME NEW base, NEW seq, NEW n \in Nat, DOMAIN seq = 1 .. n,
           NEW g, Iterates(g, 1 .. n, base, seq)
    PROVE  FoldLeft(Op, base, seq) = g[1 .. n]
<1>. DEFINE I == [k \in 0 .. n |-> {g[1 .. k]}]
<1>1. base \in I[0]
  <2>1. 1 .. 0 \in SUBSET (1 .. n) /\ 1 .. 0 = {}
    OBVIOUS
  <2>. QED
    BY <2>1 DEF Iterates
<1>2. ASSUME NEW k \in 1 .. n, NEW x \in I[k - 1]
      PROVE  Op(x, seq[k]) \in I[k]
  <2>1. x = g[1 .. k - 1] /\ I[k] = {g[1 .. k]}
    OBVIOUS
  <2>. HIDE DEF I
  <2>. DEFINE s == 1 .. k
  <2>2. Max(s) = k
    <3>1. s \in SUBSET Int /\ k \in s /\ \A y \in s : k >= y
      OBVIOUS
    <3>. QED
      BY <3>1, MaxIs
  <2>3. s \in SUBSET (1 .. n) /\ s # {} /\ s \ {k} = 1 .. k - 1
    <3>1. \A y : y \in s \ {k} <=> y \in 1 .. k - 1
      OBVIOUS
    <3>2. k \in s /\ \A y \in s : y \in 1 .. n
      OBVIOUS
    <3>. QED
      BY <3>1, <3>2
  <2>4. g[s] = Op(g[s \ {k}], seq[k])
    <3>. HIDE DEF s
    <3>. QED
      BY <2>2, <2>3 DEF Iterates
  <2>. QED
    BY <2>1, <2>3, <2>4
<1>3. I[n] = {g[1 .. n]}
  OBVIOUS
<1>. HIDE DEF I
<1>4. FoldLeft(Op, base, seq) \in I[n]
  BY <1>1, <1>2, FoldLeftInduction
<1>. QED
  BY <1>3, <1>4

(* One element more.                                                       *)
LEMMA FoldLeftAppend ==
    ASSUME NEW base, NEW S, NEW seq \in Seq(S), NEW x \in S
    PROVE  FoldLeft(Op, base, Append(seq, x)) = Op(FoldLeft(Op, base, seq), x)
<1>. DEFINE n == Len(seq)
            longer == Append(seq, x)
<1>1. /\ n \in Nat /\ DOMAIN seq = 1 .. n /\ DOMAIN longer = 1 .. n + 1
      /\ longer[n + 1] = x
      /\ \A i \in 1 .. n : longer[i] = seq[i]
  OBVIOUS
<1>. HIDE DEF n, longer
<1>2. PICK g : Iterates(g, 1 .. n + 1, base, longer)
  <2>1. n + 1 \in Nat
    BY <1>1
  <2>. QED
    BY <2>1, IterationExists
<1>. DEFINE D == SUBSET (1 .. n)
            h == [s \in D |-> g[s]]
<1>3. ASSUME NEW s \in D
      PROVE  h[s] = IF s = {} THEN base ELSE Op(h[s \ {Max(s)}], seq[Max(s)])
  <2>1. CASE s = {}
    BY <1>1, <1>2, <2>1 DEF Iterates
  <2>2. CASE s # {}
    <3>1. s \in SUBSET (1 .. n + 1)
      BY <1>1
    <3>2. g[s] = Op(g[s \ {Max(s)}], longer[Max(s)])
      BY <1>2, <2>2, <3>1 DEF Iterates
    <3>3. Max(s) \in 1 .. n
      <4>. DEFINE T == {k \in Nat : \A t \in SUBSET (1 .. k) : t # {} => \E m \in t : \A y \in t : m >= y}
      <4>1. 0 \in T
        <5>1. 1 .. 0 = {}
          OBVIOUS
        <5>. QED
          BY <5>1
      <4>2. ASSUME NEW k \in Nat, k \in T
            PROVE  k + 1 \in T
        <5>. SUFFICES ASSUME NEW t \in SUBSET (1 .. k + 1), t # {}
                      PROVE  \E m \in t : \A y \in t : m >= y
          OBVIOUS
        <5>1. CASE k + 1 \in t
          BY <5>1
        <5>2. CASE k + 1 \notin t
          <6>1. \A y \in t : y \in 1 .. k
            BY <5>2
          <6>. QED
            BY <4>2, <6>1
        <5>. QED
          BY <5>1, <5>2
      <4>3. n \in T
        <5>. HIDE DEF T
        <5>. QED
          BY <1>1, <4>1, <4>2, NatSetInduction
      <4>4. PICK m \in s : \A y \in s : m >= y
        BY <2>2, <4>3
      <4>5. s \in SUBSET Int
        OBVIOUS
      <4>6. Max(s) = m
        BY <4>4, <4>5, MaxIs
      <4>. QED
        BY <4>6
    <3>4. s \ {Max(s)} \in D
      OBVIOUS
    <3>. QED
      BY <1>1, <2>2, <3>2, <3>3, <3>4
  <2>. QED
    BY <2>1, <2>2
<1>4. Iterates(h, 1 .. n, base, seq)
  <2>1. h = [s \in D |-> h[s]]
    OBVIOUS
  <2>. HIDE DEF h
  <2>. QED
    BY <1>3, <2>1 DEF Iterates
<1>5. FoldLeft(Op, base, seq) = g[1 .. n]
  <2>1. FoldLeft(Op, base, seq) = h[1 .. n]
    BY <1>1, <1>4, FoldLeftIs
  <2>. QED
    BY <2>1
<1>6. FoldLeft(Op, base, longer) = g[1 .. n + 1]
  <2>1. n + 1 \in Nat
    BY <1>1
  <2>. QED
    BY <1>1, <1>2, <2>1, FoldLeftIs
<1>. DEFINE s == 1 .. n + 1
<1>7. g[s] = Op(g[1 .. n], x)
  <2>1. Max(s) = n + 1
    <3>1. s \in SUBSET Int /\ n + 1 \in s /\ \A y \in s : n + 1 >= y
      BY <1>1
    <3>. QED
      BY <3>1, MaxIs
  <2>2. s # {} /\ s \ {n + 1} = 1 .. n
    <3>1. \A y : y \in s \ {n + 1} <=> y \in 1 .. n
      BY <1>1
    <3>2. n + 1 \in s
      BY <1>1
    <3>. QED
      BY <3>1, <3>2
  <2>3. s \in SUBSET (1 .. n + 1)
    OBVIOUS
  <2>. HIDE DEF s
  <2>. QED
    BY <1>1, <1>2, <2>1, <2>2, <2>3 DEF Iterates
<1>. QED
  BY <1>5, <1>6, <1>7 DEF longer

-----------------------------------------------------------------------------
(* A fold that appends an item to a list, and goes on with the rest of     *)
(* what it reads: it lists the items that are there ...                    *)
Reads(L, S, steps, items, rests, n) ==
    \A k \in 1 .. n : \A list \in L :
        list.item \in Seq(S) /\ list.rest = rests[k - 1] =>
            /\ Op(list, steps[k]) \in L
            /\ Op(list, steps[k]).item = Append(list.item, items[k])
            /\ Op(list, steps[k]).rest = rests[k]

LEMMA FoldLeftReads ==
    ASSUME NEW n \in Nat, NEW steps, DOMAIN steps = 1 .. n,
           NEW S, NEW items \in Seq(S), Len(items) = n, NEW rests,
           NEW L, NEW base \in L, base.item = << >>, base.rest = rests[0],
           Reads(L, S, steps, items, rests, n)
    PROVE  /\ FoldLeft(Op, base, steps).item = items
           /\ FoldLeft(Op, base, steps).rest = rests[n]
<1>. DEFINE Start(k) == [i \in 1 .. k |-> items[i]]
            I == [k \in 0 .. n |-> {list \in L : list.item = Start(k) /\ list.rest = rests[k]}]
<1>1. base \in I[0]
  <2>1. Start(0) = << >>
    OBVIOUS
  <2>. QED
    BY <2>1
<1>2. ASSUME NEW k \in 1 .. n
      PROVE  Start(k - 1) \in Seq(S) /\ Append(Start(k - 1), items[k]) = Start(k)
  <2>1. \A i \in 1 .. n : items[i] \in S
    OBVIOUS
  <2>2. k - 1 \in Nat /\ Start(k - 1) \in [1 .. k - 1 -> S]
    BY <2>1
  <2>3. Start(k - 1) \in Seq(S) /\ Len(Start(k - 1)) = k - 1
    BY <2>2
  <2>. DEFINE start == Start(k - 1)
              longer == Append(start, items[k])
  <2>4. \A i \in 1 .. k - 1 : start[i] = items[i]
    OBVIOUS
  <2>. HIDE DEF start
  <2>5. items[k] \in S /\ k \in Nat /\ start \in Seq(S) /\ Len(start) + 1 = k
    BY <2>1, <2>3 DEF start
  <2>6. longer \in Seq(S) /\ Len(longer) = k
    BY <2>5
  <2>7. longer[k] = items[k]
    BY <2>5
  <2>8. \A i \in 1 .. k - 1 : longer[i] = start[i]
    BY <2>5
  <2>. HIDE DEF longer
  <2>9. longer \in [1 .. k -> S]
    BY <2>6
  <2>10. \A i \in 1 .. k : longer[i] = items[i]
    <3>1. \A i \in 1 .. k : i = k \/ i \in 1 .. k - 1
      BY <2>5
    <3>. QED
      BY <2>4, <2>7, <2>8, <3>1
  <2>11. longer = Start(k)
    BY <2>9, <2>10
  <2>. QED
    BY <2>3, <2>11 DEF longer, start
<1>3. ASSUME NEW k \in 1 .. n, NEW list \in I[k - 1]
      PROVE  Op(list, steps[k]) \in I[k]
  <2>1. k - 1 \in 0 .. n /\ k \in 0 .. n
    OBVIOUS
  <2>. HIDE DEF Start
  <2>2. list \in L /\ list.item = Start(k - 1) /\ list.rest = rests[k - 1]
    BY <2>1
  <2>3. /\ Op(list, steps[k]) \in L
        /\ Op(list, steps[k]).item = Start(k)
        /\ Op(list, steps[k]).rest = rests[k]
    <3>1. Start(k - 1) \in Seq(S) /\ Append(Start(k - 1), items[k]) = Start(k)
      BY <1>2
    <3>2. /\ Op(list, steps[k]) \in L
          /\ Op(list, steps[k]).item = Append(list.item, items[k])
          /\ Op(list, steps[k]).rest = rests[k]
      <4>1. list.item \in Seq(S)
        BY <2>2, <3>1
      <4>. QED
        BY <2>2, <4>1 DEF Reads
    <3>. QED
      BY <2>2, <3>1, <3>2
  <2>. QED
    BY <2>1, <2>3
<1>4. FoldLeft(Op, base, steps) \in I[n]
  <2>. HIDE DEF I
  <2>. QED
    BY <1>1, <1>3, FoldLeftInduction
<1>5. Start(n) = items
  OBVIOUS
<1>. HIDE DEF Start
<1>. QED
  BY <1>4, <1>5

(* ... and as many as it is asked for, of whatever is there.               *)
LEMMA FoldLeftLists ==
    ASSUME NEW n \in Nat, NEW steps, DOMAIN steps = 1 .. n,
           NEW L, NEW base \in L, base.item = << >>,
           \A k \in 1 .. n : \A list \in L :
               /\ Op(list, steps[k]) \in L
               /\ Len(Op(list, steps[k]).item) = Len(list.item) + 1
    PROVE  /\ FoldLeft(Op, base, steps) \in L
           /\ Len(FoldLeft(Op, base, steps).item) = n
<1>. DEFINE I == [k \in 0 .. n |-> {list \in L : Len(list.item) = k}]
<1>1. base \in I[0]
  OBVIOUS
<1>2. ASSUME NEW k \in 1 .. n, NEW list \in I[k - 1]
      PROVE  Op(list, steps[k]) \in I[k]
  <2>1. k - 1 \in 0 .. n /\ k \in 0 .. n
    OBVIOUS
  <2>2. list \in L /\ Len(list.item) = k - 1
    BY <2>1
  <2>3. Op(list, steps[k]) \in L /\ Len(Op(list, steps[k]).item) = k
    BY <2>2
  <2>. QED
    BY <2>1, <2>3
<1>3. FoldLeft(Op, base, steps) \in I[n]
  <2>. HIDE DEF I
  <2>. QED
    BY <1>1, <1>2, FoldLeftInduction
<1>. QED
  BY <1>3

=============================================================================
