-------------------------- MODULE BlockFileProofs --------------------------
(***************************************************************************)
(* Proofs about BlockFile, for every set of blocks that peers send.        *)
(*                                                                         *)
(* Passes over a list of hashes end in the root of the tree over it, and   *)
(* lists of one length under one root are the same.  What is serialized,   *)
(* from a count to a block, is parsed as it was, whatever lies behind it;  *)
(* of a list of transactions that was cut short either as many are read    *)
(* as were written, with zeros where there is nothing, and then the root   *)
(* tells them apart, or what is read is not legal.                         *)
(***************************************************************************)
EXTENDS BlockFile, FiniteSetTheorems, SequenceTheorems, TLAPS

-----------------------------------------------------------------------------
(* The merkle tree: the passes of compute_merkle_root are its levels.      *)

(* A level of the tree, and what a pass makes of a list of hashes.         *)
Above(level, d) == LevelAbove(level)
Pass(hashes, n) == IF Len(hashes) <= 1 THEN hashes ELSE HashPairs(hashes)

Levels == INSTANCE Folding WITH Op <- Above
Passes == INSTANCE Folding WITH Op <- Pass

Leaves(txs) == [k \in DOMAIN txs |-> HashTx(txs[k])]

AreLevels(level, leaves) ==
    level = [d \in Nat |->
        IF d = 0 THEN [width |-> Len(leaves), node |-> [k \in Nat |-> leaves[k + 1]]]
        ELSE LevelAbove(level[d - 1])]

ArePasses(pass, txs) ==
    pass = [n \in Nat |->
        IF n = 0 THEN Leaves(txs)
        ELSE LET hashes == pass[n - 1]
             IN  IF Len(hashes) <= 1 THEN hashes ELSE HashPairs(hashes)]

LEMMA LevelsExist ==
    ASSUME NEW leaves
    PROVE  \E level : AreLevels(level, leaves)
<1>. DEFINE first == [width |-> Len(leaves), node |-> [k \in Nat |-> leaves[k + 1]]]
            start == [n \in Nat |-> first]
            down == [n \in Nat |-> n - 1]
<1>1. PICK f : Levels!Recurs(f, {0}, start, down, Nat)
  <2>1. \A m \in Nat : m \notin {0} => down[m] \in Nat /\ down[m] < m
    OBVIOUS
  <2>. HIDE DEF start, down
  <2>. QED
    BY <2>1, Levels!RecursionExists
<1>2. f = [m \in Nat |-> IF m \in {0} THEN start[m] ELSE LevelAbove(f[down[m]])]
  BY <1>1 DEF Levels!Recurs, Above
<1>3. \A m \in Nat : f[m] = IF m = 0 THEN first ELSE LevelAbove(f[m - 1])
  <2>. HIDE DEF first
  <2>. QED
    BY <1>2
<1>4. f = [m \in Nat |-> IF m = 0 THEN first ELSE LevelAbove(f[m - 1])]
  <2>. HIDE DEF first, start, down
  <2>. QED
    BY <1>2, <1>3
<1>. QED
  BY <1>4 DEF AreLevels

LEMMA PassesExist ==
    ASSUME NEW txs
    PROVE  \E pass : ArePasses(pass, txs)
<1>. DEFINE start == [n \in Nat |-> Leaves(txs)]
            down == [n \in Nat |-> n - 1]
<1>1. PICK f : Passes!Recurs(f, {0}, start, down, Nat)
  <2>1. \A m \in Nat : m \notin {0} => down[m] \in Nat /\ down[m] < m
    OBVIOUS
  <2>. HIDE DEF start, down
  <2>. QED
    BY <2>1, Passes!RecursionExists
<1>2. f = [m \in Nat |-> IF m \in {0} THEN start[m] ELSE Pass(f[down[m]], m)]
  BY <1>1 DEF Passes!Recurs
<1>3. \A m \in Nat : f[m] = IF m = 0 THEN Leaves(txs)
                            ELSE LET hashes == f[m - 1]
                                 IN  IF Len(hashes) <= 1 THEN hashes ELSE HashPairs(hashes)
  BY <1>2 DEF Pass
<1>4. f = [m \in Nat |-> IF m = 0 THEN Leaves(txs)
                            ELSE LET hashes == f[m - 1]
                                 IN  IF Len(hashes) <= 1 THEN hashes ELSE HashPairs(hashes)]
  <2>. HIDE DEF start, down
  <2>. QED
    BY <1>2, <1>3
<1>. QED
  BY <1>4 DEF ArePasses

(* The root of either, by a name for the function it recurs on.            *)
LEMMA TreeRootIs ==
    ASSUME NEW leaves
    PROVE  \E level :
              /\ AreLevels(level, leaves)
              /\ TreeRoot(leaves) =
                   level[CHOOSE d \in 0 .. Len(leaves) :
                            level[d].width = 1 /\ \A c \in 0 .. d - 1 : level[c].width > 1].node[0]
<1>. DEFINE level == CHOOSE f : AreLevels(f, leaves)
<1>1. AreLevels(level, leaves)
  BY LevelsExist
<1>2. TreeRoot(leaves) =
        level[CHOOSE d \in 0 .. Len(leaves) :
                 level[d].width = 1 /\ \A c \in 0 .. d - 1 : level[c].width > 1].node[0]
  BY DEF TreeRoot, AreLevels
<1>. HIDE DEF level
<1>. QED
  BY <1>1, <1>2

LEMMA MerkleRootIs ==
    ASSUME NEW txs
    PROVE  \E pass :
              /\ ArePasses(pass, txs)
              /\ ComputeMerkleRoot(txs) =
                   IF pass[Len(txs)] = << >> THEN EmptyHash ELSE pass[Len(txs)][1]
<1>. DEFINE pass == CHOOSE f : ArePasses(f, txs)
<1>1. ArePasses(pass, txs)
  BY PassesExist
<1>2. ComputeMerkleRoot(txs) =
        IF pass[Len(txs)] = << >> THEN EmptyHash ELSE pass[Len(txs)][1]
  BY DEF ComputeMerkleRoot, ArePasses, Leaves
<1>. HIDE DEF pass
<1>. QED
  BY <1>1, <1>2

LEMMA LenIs ==
    ASSUME NEW s, NEW n \in Nat, DOMAIN s = 1 .. n
    PROVE  Len(s) = n
  OBVIOUS

LEMMA SeqIs ==
    ASSUME NEW S, NEW s, NEW n \in Nat, s \in [1 .. n -> S]
    PROVE  s \in Seq(S) /\ Len(s) = n
  BY SeqDef, LenIs

LEMMA LevelIs ==
    ASSUME NEW level, NEW leaves, AreLevels(level, leaves)
    PROVE  /\ level[0].width = Len(leaves)
           /\ \A k \in Nat : level[0].node[k] = leaves[k + 1]
           /\ \A d \in Nat : level[d + 1] = LevelAbove(level[d])
<1>1. level[0] = [width |-> Len(leaves), node |-> [k \in Nat |-> leaves[k + 1]]]
  BY DEF AreLevels
<1>2. \A d \in Nat : level[d + 1] = LevelAbove(level[d])
  BY DEF AreLevels
<1>. QED
  BY <1>1, <1>2

LEMMA PassIs ==
    ASSUME NEW pass, NEW txs, ArePasses(pass, txs)
    PROVE  /\ pass[0] = Leaves(txs)
           /\ \A n \in Nat : pass[n + 1] = IF Len(pass[n]) <= 1 THEN pass[n] ELSE HashPairs(pass[n])
  BY DEF ArePasses

(* A level has half the nodes of the one below, so a high one has one.     *)
LEMMA WidthsFall ==
    ASSUME NEW level, NEW leaves, AreLevels(level, leaves),
           NEW size \in Nat \ {0}, Len(leaves) = size
    PROVE  \A d \in Nat : /\ level[d].width \in Nat \ {0}
                          /\ level[d].width = 1 \/ level[d].width <= size - d
<1>. DEFINE T == {d \in Nat : /\ level[d].width \in Nat \ {0}
                              /\ level[d].width = 1 \/ level[d].width <= size - d}
<1>1. 0 \in T
  <2>1. level[0].width = size
    BY LevelIs
  <2>. QED
    BY <2>1
<1>2. ASSUME NEW d \in Nat, d \in T
      PROVE  d + 1 \in T
  <2>. DEFINE w == level[d].width
  <2>1. level[d + 1].width = (w + 1) \div 2
    <3>1. level[d + 1] = LevelAbove(level[d])
      BY LevelIs
    <3>2. LevelAbove(level[d]).width = (w + 1) \div 2
      BY DEF LevelAbove
    <3>. QED
      BY <3>1, <3>2
  <2>2. w \in Nat \ {0} /\ (w = 1 \/ w <= size - d)
    BY <1>2
  <2>. HIDE DEF w
  <2>3. /\ (w + 1) \div 2 \in Nat \ {0}
        /\ (w + 1) \div 2 = 1 \/ (w + 1) \div 2 <= size - (d + 1)
    BY <2>2
  <2>. QED
    BY <2>1, <2>3
<1>3. \A d \in Nat : d \in T
  <2>. HIDE DEF T
  <2>. QED
    BY <1>1, <1>2, Levels!NatSetInduction
<1>. QED
  BY <1>3

LEMMA HeightExists ==
    ASSUME NEW level, NEW leaves, AreLevels(level, leaves),
           NEW size \in Nat \ {0}, Len(leaves) = size
    PROVE  \E d \in 0 .. size : level[d].width = 1 /\ \A c \in 0 .. d - 1 : level[c].width > 1
<1>. DEFINE IsHeight(d) == level[d].width = 1 /\ \A c \in 0 .. d - 1 : level[c].width > 1
            T == {n \in Nat : \/ \E d \in 0 .. n : IsHeight(d)
                              \/ \A c \in 0 .. n : level[c].width > 1}
<1>1. \A d \in Nat : level[d].width = 1 \/ level[d].width > 1
  BY WidthsFall
<1>2. 0 \in T
  BY <1>1
<1>3. ASSUME NEW n \in Nat, n \in T
      PROVE  n + 1 \in T
  BY <1>1, <1>3
<1>4. \A n \in Nat : n \in T
  <2>. HIDE DEF T
  <2>. QED
    BY <1>2, <1>3, Levels!NatSetInduction
<1>5. size \in T
  BY <1>4
<1>6. level[size].width = 1
  BY WidthsFall
<1>7. \E d \in 0 .. size : IsHeight(d)
  BY <1>5, <1>6
<1>. QED
  BY <1>7

(* A list of hashes that has the nodes of a level.                         *)
Lists(hashes, level) ==
    /\ DOMAIN hashes = 1 .. level.width
    /\ Len(hashes) = level.width
    /\ \A k \in 0 .. level.width - 1 : hashes[k + 1] = level.node[k]

LEMMA PairsAbove ==
    ASSUME NEW hashes, NEW level, Lists(hashes, level), level.width \in Nat, level.width > 1
    PROVE  Lists(HashPairs(hashes), LevelAbove(level))
<1>. DEFINE w == level.width
            v == (w + 1) \div 2
            pairs == HashPairs(hashes)
            above == LevelAbove(level)
<1>1. w \in Nat /\ v \in Nat /\ above.width = v
  BY DEF LevelAbove
<1>2. pairs = [k \in 1 .. v |->
                 <<hashes[2 * k - 1], hashes[IF 2 * k <= w THEN 2 * k ELSE 2 * k - 1]>>]
  BY DEF HashPairs, Lists
<1>3. DOMAIN pairs = 1 .. v /\ Len(pairs) = v
  <2>. HIDE DEF v, pairs
  <2>1. DOMAIN pairs = 1 .. v
    BY <1>2
  <2>. QED
    BY <1>1, <2>1, LenIs
<1>4. ASSUME NEW k \in 0 .. v - 1
      PROVE  pairs[k + 1] = above.node[k]
  <2>1. k \in Nat /\ k + 1 \in 1 .. v /\ 2 * k + 1 \in 1 .. w
    <3>. HIDE DEF w
    <3>. QED
      BY <1>1
  <2>2. pairs[k + 1] =
          <<hashes[2 * k + 1], hashes[IF 2 * k + 2 <= w THEN 2 * k + 2 ELSE 2 * k + 1]>>
    <3>1. 2 * (k + 1) - 1 = 2 * k + 1 /\ 2 * (k + 1) = 2 * k + 2
      OBVIOUS
    <3>. HIDE DEF v, pairs, w
    <3>. QED
      BY <1>2, <2>1, <3>1
  <2>3. above.node[k] =
          <<level.node[2 * k], level.node[IF 2 * k + 1 < w THEN 2 * k + 1 ELSE 2 * k]>>
    BY <2>1 DEF LevelAbove
  <2>4. hashes[2 * k + 1] = level.node[2 * k]
    <3>1. 2 * k \in 0 .. w - 1
      BY <1>1, <2>1
    <3>. QED
      BY <3>1 DEF Lists
  <2>5. CASE 2 * k + 2 <= w
    <3>1. 2 * k + 1 \in 0 .. w - 1 /\ (2 * k + 1) + 1 = 2 * k + 2
      BY <1>1, <2>1, <2>5
    <3>2. hashes[2 * k + 2] = level.node[2 * k + 1]
      BY <3>1 DEF Lists
    <3>. QED
      BY <2>2, <2>3, <2>4, <2>5, <3>1, <3>2
  <2>6. CASE ~ (2 * k + 2 <= w)
    <3>1. ~ (2 * k + 1 < w)
      BY <1>1, <2>1, <2>6
    <3>. HIDE DEF pairs, above, w
    <3>. QED
      BY <2>2, <2>3, <2>4, <2>6, <3>1
  <2>. QED
    BY <2>5, <2>6
<1>5. Lists(pairs, above)
  <2>. HIDE DEF pairs, above, v
  <2>. QED
    BY <1>1, <1>3, <1>4 DEF Lists
<1>. QED
  BY <1>5

LEMMA PassListsLevel ==
    ASSUME NEW level, NEW pass, NEW txs, NEW size \in Nat \ {0},
           DOMAIN txs = 1 .. size,
           ArePasses(pass, txs), AreLevels(level, Leaves(txs))
    PROVE  \A n \in Nat : (\A c \in 0 .. n - 1 : level[c].width > 1) => Lists(pass[n], level[n])
<1>. DEFINE T == {n \in Nat : (\A c \in 0 .. n - 1 : level[c].width > 1) => Lists(pass[n], level[n])}
<1>0. DOMAIN Leaves(txs) = 1 .. size /\ Len(Leaves(txs)) = size
  <2>1. DOMAIN Leaves(txs) = 1 .. size
    BY DEF Leaves
  <2>. QED
    BY <2>1, LenIs
<1>1. 0 \in T
  <2>1. pass[0] = Leaves(txs)
    BY PassIs
  <2>2. level[0].width = size /\ \A k \in Nat : level[0].node[k] = Leaves(txs)[k + 1]
    BY <1>0, LevelIs
  <2>3. Lists(pass[0], level[0])
    BY <1>0, <2>1, <2>2 DEF Lists
  <2>. QED
    BY <2>3
<1>2. ASSUME NEW n \in Nat, n \in T
      PROVE  n + 1 \in T
  <2>. SUFFICES ASSUME \A c \in 0 .. n : level[c].width > 1
                PROVE  Lists(pass[n + 1], level[n + 1])
    OBVIOUS
  <2>1. Lists(pass[n], level[n]) /\ level[n].width > 1
    BY <1>2
  <2>2. level[n].width \in Nat
    BY <1>0, WidthsFall
  <2>3. pass[n + 1] = HashPairs(pass[n])
    <3>1. ~ (Len(pass[n]) <= 1)
      BY <2>1, <2>2 DEF Lists
    <3>. QED
      BY <3>1, PassIs
  <2>4. level[n + 1] = LevelAbove(level[n])
    BY LevelIs
  <2>. QED
    BY <2>1, <2>2, <2>3, <2>4, PairsAbove
<1>3. \A n \in Nat : n \in T
  <2>. HIDE DEF T
  <2>. QED
    BY <1>1, <1>2, Levels!NatSetInduction
<1>. QED
  BY <1>3

(* Once one hash remains the passes leave it.                              *)
LEMMA PassStays ==
    ASSUME NEW pass, NEW txs, ArePasses(pass, txs), NEW n \in Nat, Len(pass[n]) = 1
    PROVE  \A m \in Nat : pass[n + m] = pass[n]
<1>. DEFINE T == {m \in Nat : pass[n + m] = pass[n]}
<1>1. 0 \in T
  OBVIOUS
<1>2. ASSUME NEW m \in Nat, m \in T
      PROVE  m + 1 \in T
  <2>. DEFINE last == n + m
  <2>1. last \in Nat /\ n + (m + 1) = last + 1
    OBVIOUS
  <2>2. pass[last] = pass[n]
    BY <1>2
  <2>. HIDE DEF last
  <2>3. pass[last + 1] = IF Len(pass[last]) <= 1 THEN pass[last] ELSE HashPairs(pass[last])
    BY <2>1, PassIs
  <2>4. Len(pass[last]) = 1
    BY <2>2
  <2>5. pass[last + 1] = pass[last]
    BY <2>3, <2>4
  <2>6. pass[n + (m + 1)] = pass[n]
    BY <2>1, <2>2, <2>5
  <2>. QED
    BY <2>6
<1>3. \A m \in Nat : m \in T
  <2>. HIDE DEF T
  <2>. QED
    BY <1>1, <1>2, Levels!NatSetInduction
<1>. QED
  BY <1>3

LEMMA RootOfTree ==
    ASSUME NEW txs, NEW size \in Nat \ {0}, DOMAIN txs = 1 .. size
    PROVE  /\ ComputeMerkleRoot(txs) = TreeRoot(Leaves(txs))
           /\ \A pass : ArePasses(pass, txs) =>
                /\ Len(pass[size]) = 1 /\ DOMAIN pass[size] = {1}
                /\ ComputeMerkleRoot(txs) = pass[size][1]
<1>1. Len(txs) = size /\ Len(Leaves(txs)) = size
  BY LenIs DEF Leaves
<1>2. PICK level : /\ AreLevels(level, Leaves(txs))
                   /\ TreeRoot(Leaves(txs)) =
                        level[CHOOSE d \in 0 .. size :
                          level[d].width = 1 /\ \A c \in 0 .. d - 1 : level[c].width > 1].node[0]
  BY <1>1, TreeRootIs
<1>. DEFINE height == CHOOSE d \in 0 .. size :
                          level[d].width = 1 /\ \A c \in 0 .. d - 1 : level[c].width > 1
<1>3. height \in 0 .. size /\ level[height].width = 1 /\ \A c \in 0 .. height - 1 : level[c].width > 1
  BY <1>1, <1>2, HeightExists
<1>4. TreeRoot(Leaves(txs)) = level[height].node[0]
  BY <1>2
<1>. HIDE DEF height
<1>5. ASSUME NEW pass, ArePasses(pass, txs)
      PROVE  /\ Len(pass[size]) = 1 /\ DOMAIN pass[size] = {1}
             /\ pass[size][1] = level[height].node[0]
  <2>1. Lists(pass[height], level[height])
    BY <1>2, <1>3, <1>5, PassListsLevel
  <2>2. Len(pass[height]) = 1 /\ DOMAIN pass[height] = {1} /\ pass[height][1] = level[height].node[0]
    BY <1>3, <2>1 DEF Lists
  <2>3. pass[size] = pass[height]
    <3>1. size - height \in Nat /\ height \in Nat /\ height + (size - height) = size
      BY <1>3
    <3>. QED
      BY <1>5, <2>2, <3>1, PassStays
  <2>. QED
    BY <2>2, <2>3
<1>6. ASSUME NEW pass, ArePasses(pass, txs),
             ComputeMerkleRoot(txs) = IF pass[size] = << >> THEN EmptyHash ELSE pass[size][1]
      PROVE  ComputeMerkleRoot(txs) = pass[size][1] /\ ComputeMerkleRoot(txs) = level[height].node[0]
  <2>1. pass[size] # << >>
    <3>1. DOMAIN pass[size] = {1} /\ DOMAIN << >> = {}
      BY <1>5, <1>6
    <3>. QED
      BY <3>1
  <2>. QED
    BY <1>5, <1>6, <2>1
<1>7. ComputeMerkleRoot(txs) = level[height].node[0]
  BY <1>1, <1>6, MerkleRootIs
<1>. QED
  BY <1>4, <1>5, <1>7

-----------------------------------------------------------------------------
(* Lists of as many transactions with one root have the same leaves.       *)

Sized(list, len) == DOMAIN list = 1 .. len /\ Len(list) = len

LEMMA PassesAlike ==
    ASSUME NEW p, NEW q, NEW xs, NEW ys, ArePasses(p, xs), ArePasses(q, ys),
           NEW size \in Nat, Sized(xs, size), Sized(ys, size)
    PROVE  \A n \in Nat : \E len \in Nat : Sized(p[n], len) /\ Sized(q[n], len)
<1>. DEFINE T == {n \in Nat : \E len \in Nat : Sized(p[n], len) /\ Sized(q[n], len)}
<1>1. 0 \in T
  <2>1. p[0] = Leaves(xs) /\ q[0] = Leaves(ys)
    BY PassIs
  <2>2. DOMAIN Leaves(xs) = 1 .. size /\ DOMAIN Leaves(ys) = 1 .. size
    BY DEF Leaves, Sized
  <2>3. Sized(Leaves(xs), size) /\ Sized(Leaves(ys), size)
    BY <2>2, LenIs DEF Sized
  <2>. QED
    BY <2>1, <2>3
<1>2. ASSUME NEW n \in Nat, n \in T
      PROVE  n + 1 \in T
  <2>1. PICK len \in Nat : Sized(p[n], len) /\ Sized(q[n], len)
    BY <1>2
  <2>2. /\ p[n + 1] = IF Len(p[n]) <= 1 THEN p[n] ELSE HashPairs(p[n])
        /\ q[n + 1] = IF Len(q[n]) <= 1 THEN q[n] ELSE HashPairs(q[n])
    BY PassIs
  <2>3. CASE len <= 1
    <3>1. p[n + 1] = p[n] /\ q[n + 1] = q[n]
      BY <2>1, <2>2, <2>3 DEF Sized
    <3>. QED
      BY <2>1, <3>1
  <2>4. CASE len > 1
    <3>. DEFINE half == (len + 1) \div 2
    <3>1. half \in Nat
      OBVIOUS
    <3>2. p[n + 1] = HashPairs(p[n]) /\ q[n + 1] = HashPairs(q[n])
      BY <2>1, <2>2, <2>4 DEF Sized
    <3>3. DOMAIN HashPairs(p[n]) = 1 .. half /\ DOMAIN HashPairs(q[n]) = 1 .. half
      BY <2>1 DEF HashPairs, Sized
    <3>. HIDE DEF half
    <3>4. Sized(HashPairs(p[n]), half) /\ Sized(HashPairs(q[n]), half)
      BY <3>1, <3>3, LenIs DEF Sized
    <3>. QED
      BY <3>1, <3>2, <3>4
  <2>. QED
    BY <2>3, <2>4
<1>3. \A n \in Nat : n \in T
  <2>. HIDE DEF T
  <2>. QED
    BY <1>1, <1>2, Levels!NatSetInduction
<1>. QED
  BY <1>3

LEMMA PairsApart ==
    ASSUME NEW x, NEW y, NEW len \in Nat,
           Sized(x, len), Sized(y, len), HashPairs(x) = HashPairs(y)
    PROVE  \A i \in 1 .. len : x[i] = y[i]
<1>. TAKE i \in 1 .. len
<1>. DEFINE half == (len + 1) \div 2
            k == (i + 1) \div 2
            Pair(s, j) == <<s[2 * j - 1], s[IF 2 * j <= len THEN 2 * j ELSE 2 * j - 1]>>
<1>1. k \in 1 .. half /\ (i = 2 * k - 1 \/ (i = 2 * k /\ 2 * k <= len))
  OBVIOUS
<1>2. /\ HashPairs(x) = [j \in 1 .. half |-> Pair(x, j)]
      /\ HashPairs(y) = [j \in 1 .. half |-> Pair(y, j)]
  BY DEF HashPairs, Sized
<1>3. HashPairs(x)[k] = Pair(x, k) /\ HashPairs(y)[k] = Pair(y, k)
  <2>. HIDE DEF half, k, Pair
  <2>. QED
    BY <1>1, <1>2
<1>. HIDE DEF k, half
<1>4. Pair(x, k)[1] = Pair(y, k)[1] /\ Pair(x, k)[2] = Pair(y, k)[2]
  BY <1>3
<1>5. x[2 * k - 1] = y[2 * k - 1]
  BY <1>4
<1>6. ASSUME 2 * k <= len PROVE x[2 * k] = y[2 * k]
  BY <1>4, <1>6
<1>. QED
  BY <1>1, <1>5, <1>6

LEMMA RootsApart ==
    ASSUME NEW xs, NEW ys, NEW size \in Nat \ {0},
           DOMAIN xs = 1 .. size, DOMAIN ys = 1 .. size,
           ComputeMerkleRoot(xs) = ComputeMerkleRoot(ys)
    PROVE  \A k \in 1 .. size : HashTx(xs[k]) = HashTx(ys[k])
<1>1. PICK p : ArePasses(p, xs)
  BY PassesExist
<1>2. PICK q : ArePasses(q, ys)
  BY PassesExist
<1>8. \A n \in Nat : \E len \in Nat : Sized(p[n], len) /\ Sized(q[n], len)
  <2>1. size \in Nat /\ Sized(xs, size) /\ Sized(ys, size)
    BY LenIs DEF Sized
  <2>. QED
    BY <1>1, <1>2, <2>1, PassesAlike
<1>. DEFINE Same(n) == \A i \in DOMAIN p[n] : p[n][i] = q[n][i]
            T == {n \in Nat : n <= size => Same(size - n)}
<1>3. 0 \in T
  <2>1. DOMAIN p[size] = {1} /\ ComputeMerkleRoot(xs) = p[size][1]
    BY <1>1, RootOfTree
  <2>2. ComputeMerkleRoot(ys) = q[size][1]
    BY <1>2, RootOfTree
  <2>3. Same(size)
    BY <2>1, <2>2
  <2>4. size - 0 = size
    OBVIOUS
  <2>. QED
    BY <2>3, <2>4
<1>4. ASSUME NEW n \in Nat, n \in T
      PROVE  n + 1 \in T
  <2>. SUFFICES ASSUME n + 1 <= size PROVE Same(size - (n + 1))
    OBVIOUS
  <2>. DEFINE m == size - (n + 1)
  <2>1. m \in Nat /\ m + 1 = size - n
    OBVIOUS
  <2>2. Same(m + 1)
    BY <1>4, <2>1
  <2>. HIDE DEF m
  <2>3. PICK len \in Nat : Sized(p[m], len) /\ Sized(q[m], len)
    BY <2>1, <1>8
  <2>4. /\ p[m + 1] = IF Len(p[m]) <= 1 THEN p[m] ELSE HashPairs(p[m])
        /\ q[m + 1] = IF Len(q[m]) <= 1 THEN q[m] ELSE HashPairs(q[m])
    BY <1>1, <1>2, <2>1, PassIs
  <2>5. CASE len <= 1
    <3>1. p[m + 1] = p[m] /\ q[m + 1] = q[m]
      BY <2>3, <2>4, <2>5 DEF Sized
    <3>. QED
      BY <2>2, <3>1 DEF m
  <2>6. CASE len > 1
    <3>1. p[m + 1] = HashPairs(p[m]) /\ q[m + 1] = HashPairs(q[m])
      BY <2>3, <2>4, <2>6 DEF Sized
    <3>2. HashPairs(p[m]) = HashPairs(q[m])
      <4>. DEFINE half == (len + 1) \div 2
      <4>1. /\ HashPairs(p[m]) = [i \in 1 .. half |-> HashPairs(p[m])[i]]
            /\ HashPairs(q[m]) = [i \in 1 .. half |-> HashPairs(q[m])[i]]
        BY <2>3 DEF HashPairs, Sized
      <4>. HIDE DEF half
      <4>2. \A i \in 1 .. half : HashPairs(p[m])[i] = HashPairs(q[m])[i]
        BY <2>2, <3>1, <4>1
      <4>. QED
        BY <4>1, <4>2
    <3>3. \A i \in 1 .. len : p[m][i] = q[m][i]
      BY <2>3, <3>2, PairsApart
    <3>. QED
      BY <2>3, <3>3 DEF m, Sized
  <2>. QED
    BY <2>5, <2>6
<1>5. \A n \in Nat : n \in T
  <2>. HIDE DEF T
  <2>. QED
    BY <1>3, <1>4, Levels!NatSetInduction
<1>6. Same(0)
  <2>1. size \in T /\ size - size = 0
    BY <1>5
  <2>. QED
    BY <2>1
<1>7. p[0] = Leaves(xs) /\ q[0] = Leaves(ys)
  BY <1>1, <1>2, PassIs
<1>. QED
  BY <1>6, <1>7 DEF Leaves

-----------------------------------------------------------------------------
(* Bytes of a number.                                                      *)

TimesRadix(weight, k) == Radix * weight
Plus(sum, part) == sum + part

Places == INSTANCE Folding WITH Op <- TimesRadix
Sums   == INSTANCE Folding WITH Op <- Plus

LEMMA PlaceIs ==
    \A k \in Nat : Place[k] = IF k = 0 THEN 1 ELSE Radix * Place[k - 1]
<1>. DEFINE Is(f) == f = [k \in Nat |-> IF k = 0 THEN 1 ELSE Radix * f[k - 1]]
            one == [n \in Nat |-> 1]
            down == [n \in Nat |-> n - 1]
<1>1. PICK f : Places!Recurs(f, {0}, one, down, Nat)
  <2>1. \A m \in Nat : m \notin {0} => down[m] \in Nat /\ down[m] < m
    OBVIOUS
  <2>. HIDE DEF one, down
  <2>. QED
    BY <2>1, Places!RecursionExists
<1>2. Is(f)
  BY <1>1 DEF Places!Recurs, TimesRadix
<1>3. Is(Place)
  <2>1. Place = CHOOSE g : Is(g)
    BY DEF Place
  <2>. HIDE DEF Is
  <2>. QED
    BY <1>2, <2>1
<1>. QED
  BY <1>3

LEMMA PlaceType == \A k \in Nat : Place[k] \in Nat \ {0}
<1>. DEFINE T == {k \in Nat : Place[k] \in Nat \ {0}}
<1>1. 0 \in T
  BY PlaceIs
<1>2. ASSUME NEW k \in Nat, k \in T
      PROVE  k + 1 \in T
  <2>. DEFINE weight == Place[k]
  <2>1. Place[k + 1] = Radix * weight
    BY PlaceIs
  <2>2. weight \in Nat \ {0}
    BY <1>2
  <2>. HIDE DEF weight
  <2>3. Radix * weight \in Nat \ {0}
    BY <2>2, TransactionAssumption
  <2>. QED
    BY <2>1, <2>3
<1>3. \A k \in Nat : k \in T
  <2>. HIDE DEF T
  <2>. QED
    BY <1>1, <1>2, Levels!NatSetInduction
<1>. QED
  BY <1>3

LEMMA PlacesGrow ==
    /\ Place[1] = Radix
    /\ Radix <= Place[2] /\ Place[2] <= Place[4] /\ Place[4] <= Place[8]
<1>1. Place[0] = 1 /\ Place[1] = Radix * Place[0]
  BY PlaceIs
<1>2. Place[1] = Radix
  BY <1>1, TransactionAssumption
<1>3. ASSUME NEW k \in Nat PROVE Place[k] <= Place[k + 1]
  <2>1. Place[k] \in Nat /\ Place[k + 1] = Radix * Place[k]
    BY PlaceIs, PlaceType
  <2>. DEFINE weight == Place[k]
  <2>2. weight \in Nat
    BY <2>1
  <2>. HIDE DEF weight
  <2>3. weight <= Radix * weight
    BY <2>2, TransactionAssumption
  <2>. QED
    BY <2>1, <2>3 DEF weight
<1>4. /\ Place[1] <= Place[2] /\ Place[2] <= Place[3] /\ Place[3] <= Place[4]
      /\ Place[4] <= Place[5] /\ Place[5] <= Place[6] /\ Place[6] <= Place[7]
      /\ Place[7] <= Place[8]
  BY <1>3
<1>5. \A k \in {1, 2, 3, 4, 5, 6, 7, 8} : Place[k] \in Nat
  BY PlaceType
<1>. QED
  BY <1>2, <1>4, <1>5

(* A number up to a place, and the byte there.                             *)
LEMMA NextByte ==
    ASSUME NEW n \in Nat, NEW k \in Nat
    PROVE  n % Place[k + 1] = (n % Place[k]) + ((n \div Place[k]) % Radix) * Place[k]
<1>. DEFINE w == Place[k]
            q == n \div w
            r == n % w
            p == q \div Radix
            b == q % Radix
<1>1. w \in Nat \ {0} /\ Radix \in Nat \ {0} /\ Place[k + 1] = Radix * w
  BY PlaceIs, PlaceType, TransactionAssumption
<1>. HIDE DEF w
<1>2. q \in Nat /\ r \in 0 .. w - 1 /\ n = w * q + r
  BY <1>1
<1>. HIDE DEF q, r
<1>3. p \in Nat /\ b \in 0 .. Radix - 1 /\ q = Radix * p + b
  BY <1>1, <1>2
<1>. HIDE DEF p, b
<1>. DEFINE low == r + b * w
            next == Radix * w
<1>4. next \in Nat \ {0}
  BY <1>1
<1>5. low \in 0 .. next - 1
  <2>1. b * w + w <= Radix * w
    <3>1. b + 1 <= Radix /\ b \in Nat
      BY <1>1, <1>3
    <3>2. (b + 1) * w <= Radix * w
      BY <1>1, <3>1
    <3>3. (b + 1) * w = b * w + w
      BY <1>1, <3>1
    <3>. QED
      BY <3>2, <3>3
  <2>2. b * w \in Nat /\ Radix * w \in Nat
    BY <1>1, <1>3
  <2>. DEFINE bw == b * w
  <2>. HIDE DEF bw
  <2>. QED
    BY <1>1, <1>2, <2>1, <2>2 DEF bw
<1>6. n = next * p + low
  <2>1. w * (Radix * p + b) = (Radix * w) * p + b * w
    BY <1>1, <1>3
  <2>2. (Radix * w) * p \in Nat /\ b * w \in Nat
    BY <1>1, <1>3
  <2>3. n = w * (Radix * p + b) + r
    BY <1>2, <1>3
  <2>. QED
    BY <1>2, <2>1, <2>2, <2>3
<1>. HIDE DEF low, next
<1>7. n % next = low
  BY <1>3, <1>4, <1>5, <1>6
<1>. QED
  BY <1>1, <1>7 DEF next, low, r, b, q, w

Parts(bytes) == [k \in DOMAIN bytes |-> bytes[k] * Place[k - 1]]

LEMMA CombineIs ==
    ASSUME NEW bytes
    PROVE  Combine(bytes) = Sums!FoldLeft(Plus, 0, Parts(bytes))
  BY DEF Combine, Parts, Plus, FoldLeft, MapThenFoldSet, Max,
         Sums!FoldLeft, Sums!MapThenFoldSet, Sums!Max

LEMMA CombineType ==
    ASSUME NEW n \in Nat, NEW bytes \in [1 .. n -> Nat]
    PROVE  Combine(bytes) \in Nat
<1>. DEFINE I == [k \in 0 .. n |-> Nat]
            parts == Parts(bytes)
<1>1. DOMAIN parts = 1 .. n /\ \A k \in 1 .. n : parts[k] \in Nat
  <2>1. \A k \in 1 .. n : bytes[k] \in Nat /\ Place[k - 1] \in Nat
    BY PlaceType
  <2>2. \A k \in 1 .. n : parts[k] = bytes[k] * Place[k - 1]
    BY DEF Parts
  <2>3. \A a, b \in Nat : a * b \in Nat
    OBVIOUS
  <2>4. DOMAIN parts = 1 .. n
    BY DEF Parts
  <2>. HIDE DEF parts
  <2>. QED
    BY <2>1, <2>2, <2>3, <2>4
<1>. HIDE DEF parts
<1>2. Sums!FoldLeft(Plus, 0, parts) \in I[n]
  <2>1. 0 \in I[0]
    OBVIOUS
  <2>2. \A k \in 1 .. n : \A x \in I[k - 1] : Plus(x, parts[k]) \in I[k]
    BY <1>1 DEF Plus
  <2>. HIDE DEF I
  <2>. QED
    BY <1>1, <2>1, <2>2, Sums!FoldLeftInduction
<1>. QED
  BY <1>2, CombineIs DEF parts

LEMMA CombinedBytes ==
    ASSUME NEW n \in Nat, NEW width \in Nat, n < Place[width]
    PROVE  Combine(LittleEndian(n, width)) = n
<1>. DEFINE bytes == LittleEndian(n, width)
            parts == Parts(bytes)
            I == [k \in 0 .. width |-> {n % Place[k]}]
<1>1. DOMAIN bytes = 1 .. width
  BY DEF LittleEndian
<1>2. DOMAIN parts = 1 .. width
  BY <1>1 DEF Parts
<1>3. ASSUME NEW k \in 1 .. width
      PROVE  parts[k] = ((n \div Place[k - 1]) % Radix) * Place[k - 1]
  BY <1>1 DEF Parts, LittleEndian
<1>. HIDE DEF parts
<1>4. 0 \in I[0]
  <2>1. Place[0] = 1 /\ n % 1 = 0
    BY PlaceIs
  <2>. QED
    BY <2>1
<1>5. ASSUME NEW k \in 1 .. width, NEW x \in I[k - 1]
      PROVE  Plus(x, parts[k]) \in I[k]
  <2>1. k - 1 \in Nat /\ (k - 1) + 1 = k /\ k - 1 \in 0 .. width /\ k \in 0 .. width
    OBVIOUS
  <2>2. x = n % Place[k - 1]
    BY <2>1
  <2>3. n % Place[k] = x + parts[k]
    BY <1>3, <2>1, <2>2, NextByte
  <2>. QED
    BY <2>1, <2>3 DEF Plus
<1>6. Sums!FoldLeft(Plus, 0, parts) \in I[width]
  <2>. HIDE DEF I
  <2>. QED
    BY <1>2, <1>4, <1>5, Sums!FoldLeftInduction
<1>7. Combine(bytes) = n % Place[width]
  BY <1>6, CombineIs DEF parts
<1>8. n % Place[width] = n
  BY PlaceType
<1>. QED
  BY <1>7, <1>8

-----------------------------------------------------------------------------
(* Reading what was written: a cell, a number, a script.                   *)

Buffers == Seq(Nat)

(* Cells of a buffer are numbers, with zeros behind its end.               *)
LEMMA CellsType ==
    ASSUME NEW p \in Buffers, NEW n \in Nat
    PROVE  /\ Cells(p, n) \in [1 .. n -> Nat] /\ Cells(p, n) \in Buffers /\ Len(Cells(p, n)) = n
           /\ Rest(p, n) \in Buffers
           /\ Cell(p) \in Nat
<1>1. \A k \in 1 .. Len(p) : p[k] \in Nat
  BY DEF Buffers
<1>2. ASSUME NEW m \in Nat PROVE Cells(p, m) \in [1 .. m -> Nat]
  BY <1>1 DEF Cells, Buffers
<1>3. Cells(p, n) \in Buffers /\ Len(Cells(p, n)) = n
  BY <1>2, SeqIs DEF Buffers
<1>4. Rest(p, n) \in Buffers
  <2>1. Len(p) \in Nat /\ \A i \in n + 1 .. Len(p) : p[i] \in Nat
    BY <1>1 DEF Buffers
  <2>2. Len(p) \in Int /\ n + 1 \in Int
    BY <2>1
  <2>. QED
    BY <2>1, <2>2, SubSeqProperties DEF Rest, Buffers
<1>5. Cell(p) \in Nat
  BY <1>2 DEF Cell
<1>. QED
  BY <1>2, <1>3, <1>4, <1>5

LEMMA ConcatType ==
    ASSUME NEW p \in Buffers, NEW q \in Buffers
    PROVE  p \o q \in Buffers /\ Len(p \o q) = Len(p) + Len(q) /\ Len(p) \in Nat
  BY ConcatProperties, LenProperties DEF Buffers

LEMMA ConcatMoves ==
    ASSUME NEW p \in Buffers, NEW q \in Buffers, NEW r \in Buffers
    PROVE  (p \o q) \o r = p \o (q \o r)
<1>1. p \in Seq(Nat) /\ q \in Seq(Nat) /\ r \in Seq(Nat)
  BY DEF Buffers
<1>. QED
  BY <1>1, ConcatAssociative, SMTT(60)

(* What is written comes back, and what lies behind it is left.            *)
LEMMA Cut ==
    ASSUME NEW p \in Buffers, NEW q \in Buffers
    PROVE  /\ Cells(p \o q, Len(p)) = p
           /\ Rest(p \o q, Len(p)) = q
<1>. DEFINE n == Len(p)  m == Len(q)  both == p \o q
<1>1. /\ n \in Nat /\ m \in Nat /\ both \in Buffers /\ Len(both) = n + m
      /\ \A i \in 1 .. n + m : both[i] = IF i <= n THEN p[i] ELSE q[i - n]
  BY ConcatProperties, LenProperties DEF Buffers
<1>2. p \in [1 .. n -> Nat] /\ q \in [1 .. m -> Nat]
  BY LenProperties DEF Buffers
<1>. HIDE DEF both
<1>3. Cells(both, n) = p
  <2>1. Cells(both, n) = [k \in 1 .. n |-> IF k <= Len(both) THEN both[k] ELSE 0]
    BY DEF Cells
  <2>. HIDE DEF n, m
  <2>2. \A k \in 1 .. n : (IF k <= Len(both) THEN both[k] ELSE 0) = p[k]
    BY <1>1
  <2>3. Cells(both, n) = [k \in 1 .. n |-> p[k]]
    BY <2>1, <2>2
  <2>. QED
    BY <1>2, <2>3
<1>4. Rest(both, n) = q
  <2>1. Rest(both, n) \in Seq(Nat)
    BY <1>1, CellsType DEF Buffers
  <2>. DEFINE rest == SubSeq(both, n + 1, n + m)
  <2>2. Rest(both, n) = rest
    BY <1>1 DEF Rest
  <2>3. \A i \in n + 1 .. n + m : both[i] \in Nat
    BY <1>1, ElementOfSeq, SMTT(60) DEF Buffers
  <2>4. n + 1 \in Int /\ n + m \in Int
    BY <1>1
  <2>5. /\ Len(rest) = IF n + 1 <= n + m THEN (n + m) - (n + 1) + 1 ELSE 0
        /\ \A i \in 1 .. (n + m) - (n + 1) + 1 : rest[i] = both[(n + 1) + i - 1]
    BY <2>3, <2>4, SubSeqProperties
  <2>6. Len(rest) = m
    BY <1>1, <2>5
  <2>7. \A i \in 1 .. m : rest[i] = q[i]
    <3>. TAKE i \in 1 .. m
    <3>1. i \in 1 .. (n + m) - (n + 1) + 1 /\ (n + 1) + i - 1 = n + i
      BY <1>1
    <3>2. rest[i] = both[n + i]
      BY <2>5, <3>1
    <3>3. n + i \in 1 .. n + m /\ ~ (n + i <= n) /\ (n + i) - n = i
      BY <1>1
    <3>. QED
      BY <1>1, <3>2, <3>3
  <2>8. rest \in Seq(Nat) /\ q \in Seq(Nat)
    BY <2>1, <2>2 DEF Buffers
  <2>. HIDE DEF rest
  <2>. QED
    BY <2>2, <2>6, <2>7, <2>8, SeqEqual
<1>. QED
  BY <1>3, <1>4 DEF both

LEMMA CutOne ==
    ASSUME NEW c \in Nat, NEW q \in Buffers
    PROVE  /\ Cell(<<c>> \o q) = c
           /\ Rest(<<c>> \o q, 1) = q
<1>1. <<c>> \in Buffers /\ Len(<<c>>) = 1
  BY DEF Buffers
<1>2. Cells(<<c>> \o q, 1) = <<c>>
  BY <1>1, Cut
<1>3. Rest(<<c>> \o q, 1) = q
  BY <1>1, Cut
<1>. QED
  BY <1>2, <1>3 DEF Cell

LEMMA BytesType ==
    ASSUME NEW n \in Nat, NEW width \in Nat
    PROVE  LittleEndian(n, width) \in Buffers /\ Len(LittleEndian(n, width)) = width
<1>1. \A k \in 1 .. width : (n \div Place[k - 1]) % Radix \in Nat
  <2>. TAKE k \in 1 .. width
  <2>1. Place[k - 1] \in Nat \ {0}
    BY PlaceType
  <2>. DEFINE weight == Place[k - 1]
              q == n \div weight
  <2>. HIDE DEF weight
  <2>2. q \in Nat
    BY <2>1 DEF weight
  <2>. HIDE DEF q
  <2>3. q % Radix \in Nat
    BY <2>2, TransactionAssumption
  <2>. QED
    BY <2>3 DEF q, weight
<1>2. LittleEndian(n, width) \in [1 .. width -> Nat]
  BY <1>1 DEF LittleEndian
<1>. QED
  BY <1>2, SeqIs DEF Buffers

LEMMA PrefixesApart ==
    /\ Prefix16 \in Nat /\ Prefix32 \in Nat /\ Prefix64 \in Nat
    /\ 0 < Prefix16 /\ Prefix16 < Prefix32 /\ Prefix32 < Prefix64
    /\ Prefix16 < Place[2] /\ Place[2] \in Nat /\ Place[4] \in Nat
    /\ Place[2] <= Place[4]
<1>1. Place[2] \in Nat /\ Place[4] \in Nat
  BY PlaceType
<1>2. Radix \in Nat /\ Radix >= 4
  BY TransactionAssumption
<1>. QED
  BY <1>1, <1>2, PlacesGrow DEF Prefix16, Prefix32, Prefix64

(* A number of any size is some byte, which is not zero unless the number  *)
(* is, and further bytes.                                                  *)
IsVarint(n, first, bytes) ==
    /\ SerializeToVarint(n) = <<first>> \o bytes
    /\ n # 0 => first # 0
    /\ n < Place[4] =>
         \/ /\ n < Prefix16 /\ first = n /\ bytes = << >>
         \/ /\ first = Prefix16 /\ bytes = LittleEndian(n, 2) /\ n < Place[2]
         \/ /\ first = Prefix32 /\ bytes = LittleEndian(n, 4)

(* A number is its first byte and the bytes of its value, if it has any.   *)
LEMMA VarintType ==
    ASSUME NEW n \in Nat
    PROVE  \E first \in Nat, bytes \in Buffers : IsVarint(n, first, bytes)
<1>1. CASE n < Prefix16
  <2>1. SerializeToVarint(n) = <<n>>
    BY <1>1, PrefixesApart DEF SerializeToVarint
  <2>2. <<n>> \in Seq(Nat) /\ << >> \in Seq(Nat)
    OBVIOUS
  <2>3. <<n>> = <<n>> \o << >>
    BY <2>2, ConcatEmptySeq
  <2>4. IsVarint(n, n, << >>)
    BY <1>1, <2>1, <2>3 DEF IsVarint
  <2>5. << >> \in Buffers
    BY <2>2 DEF Buffers
  <2>. QED
    BY <2>4, <2>5
<1>2. CASE n >= Prefix16 /\ n < Place[2]
  <2>1. SerializeToVarint(n) = <<Prefix16>> \o LittleEndian(n, 2)
    BY <1>2, PrefixesApart DEF SerializeToVarint
  <2>2. IsVarint(n, Prefix16, LittleEndian(n, 2))
    BY <1>2, <2>1, PrefixesApart DEF IsVarint
  <2>. QED
    BY <2>2, BytesType, PrefixesApart
<1>3. CASE n >= Place[2] /\ n < Place[4]
  <2>1. SerializeToVarint(n) = <<Prefix32>> \o LittleEndian(n, 4)
    BY <1>3, PrefixesApart DEF SerializeToVarint
  <2>2. IsVarint(n, Prefix32, LittleEndian(n, 4))
    BY <1>3, <2>1, PrefixesApart DEF IsVarint
  <2>. QED
    BY <2>2, BytesType, PrefixesApart
<1>4. CASE n >= Place[4]
  <2>1. SerializeToVarint(n) = <<Prefix64>> \o LittleEndian(n, 8)
    BY <1>4, PrefixesApart DEF SerializeToVarint
  <2>2. IsVarint(n, Prefix64, LittleEndian(n, 8))
    BY <1>4, <2>1, PrefixesApart DEF IsVarint
  <2>. QED
    BY <2>2, BytesType, PrefixesApart
<1>. QED
  BY <1>1, <1>2, <1>3, <1>4, PrefixesApart

LEMMA VarintBuffer ==
    ASSUME NEW n \in Nat
    PROVE  SerializeToVarint(n) \in Buffers /\ Len(SerializeToVarint(n)) \in Nat \ {0}
<1>1. PICK first \in Nat, bytes \in Buffers : SerializeToVarint(n) = <<first>> \o bytes
  BY VarintType DEF IsVarint
<1>2. <<first>> \in Buffers /\ Len(<<first>>) = 1
  BY DEF Buffers
<1>3. <<first>> \o bytes \in Buffers /\ Len(<<first>> \o bytes) = 1 + Len(bytes) /\ Len(bytes) \in Nat
  BY <1>2, ConcatType
<1>. QED
  BY <1>1, <1>3

LEMMA VarintWidthIs ==
    /\ VarintWidth(Prefix16) = 2
    /\ VarintWidth(Prefix32) = 4
    /\ VarintWidth(Prefix64) = 8
    /\ \A n \in Nat : n \notin {Prefix16, Prefix32, Prefix64} => VarintWidth(n) = 0
  BY PrefixesApart DEF VarintWidth

LEMMA ParseVarintType ==
    ASSUME NEW p \in Buffers
    PROVE  ParseVarint(p).item \in Nat /\ ParseVarint(p).rest \in Buffers
<1>. DEFINE width == VarintWidth(Cell(p))
            bytes == Cells(Rest(p, 1), width)
<1>1. Cell(p) \in Nat /\ Rest(p, 1) \in Buffers
  BY CellsType
<1>2. width \in {0, 2, 4, 8}
  BY <1>1, VarintWidthIs
<1>3. width \in Nat /\ 1 + width \in Nat
  BY <1>2
<1>. HIDE DEF width
<1>4. bytes \in [1 .. width -> Nat] /\ Rest(p, 1 + width) \in Buffers
  BY <1>1, <1>3, CellsType
<1>5. Combine(bytes) \in Nat
  BY <1>3, <1>4, CombineType
<1>. HIDE DEF bytes
<1>6. width = 8 => Combine64(bytes) \in Nat
  <2>1. Place[4] \in Nat /\ Place[8] \in Nat \ {0}
    BY PlaceType
  <2>. DEFINE less == Combine(bytes) - (IF bytes[4] >= Radix \div 2 THEN Place[4] ELSE 0)
  <2>2. less \in Int
    BY <1>5, <2>1
  <2>. HIDE DEF less
  <2>3. less % Place[8] \in Nat
    BY <2>1, <2>2
  <2>. QED
    BY <2>3 DEF Combine64, less
<1>7. /\ ParseVarint(p).item = CASE width = 0 -> Cell(p)
                                 [] width = 8 -> Combine64(bytes)
                                 [] OTHER     -> Combine(bytes)
      /\ ParseVarint(p).rest = Rest(p, 1 + width)
  BY DEF ParseVarint, width, bytes
<1>. QED
  BY <1>1, <1>2, <1>4, <1>5, <1>6, <1>7

LEMMA BytesReadBack ==
    ASSUME NEW n \in Nat, NEW width \in {2, 4}, n < Place[width], NEW first \in Nat,
           VarintWidth(first) = width, NEW q \in Buffers
    PROVE  ParseVarint((<<first>> \o LittleEndian(n, width)) \o q) = [item |-> n, rest |-> q]
<1>. DEFINE bytes == LittleEndian(n, width)
            p == (<<first>> \o bytes) \o q
<1>1. /\ <<first>> \in Buffers /\ Len(<<first>>) = 1
      /\ bytes \in Buffers /\ Len(bytes) = width
  BY BytesType DEF Buffers
<1>. HIDE DEF bytes
<1>2. p = <<first>> \o (bytes \o q) /\ bytes \o q \in Buffers
  BY <1>1, ConcatMoves, ConcatType
<1>3. Cell(p) = first /\ Rest(p, 1) = bytes \o q
  BY <1>2, CutOne
<1>4. Cells(Rest(p, 1), width) = bytes
  BY <1>1, <1>3, Cut
<1>5. Rest(p, 1 + width) = q
  <2>1. <<first>> \o bytes \in Buffers /\ Len(<<first>> \o bytes) = 1 + width
    BY <1>1, ConcatType
  <2>. QED
    BY <2>1, Cut
<1>6. Combine(bytes) = n
  BY CombinedBytes DEF bytes
<1>. HIDE DEF p
<1>7. ParseVarint(p) = [item |-> Combine(bytes), rest |-> Rest(p, 1 + width)]
  BY <1>3, <1>4 DEF ParseVarint
<1>. QED
  BY <1>5, <1>6, <1>7 DEF p, bytes

(* A count is parsed as it was written, up to a length of four bytes.      *)
LEMMA VarintReadBack ==
    ASSUME NEW n \in Nat, n < Place[4], NEW q \in Buffers
    PROVE  ParseVarint(SerializeToVarint(n) \o q) = [item |-> n, rest |-> q]
<1>1. PICK first \in Nat, bytes \in Buffers :
         /\ SerializeToVarint(n) = <<first>> \o bytes
         /\ \/ /\ n < Prefix16 /\ first = n /\ bytes = << >>
            \/ /\ first = Prefix16 /\ bytes = LittleEndian(n, 2) /\ n < Place[2]
            \/ /\ first = Prefix32 /\ bytes = LittleEndian(n, 4)
  BY VarintType DEF IsVarint
<1>2. CASE n < Prefix16 /\ first = n /\ bytes = << >>
  <2>. DEFINE p == <<n>> \o q
  <2>1. SerializeToVarint(n) = <<n>>
    <3>1. <<n>> \in Seq(Nat)
      OBVIOUS
    <3>. QED
      BY <1>1, <1>2, <3>1, ConcatEmptySeq
  <2>2. Cell(p) = n /\ Rest(p, 1) = q
    BY CutOne
  <2>3. VarintWidth(n) = 0
    BY <1>2, VarintWidthIs, PrefixesApart
  <2>. HIDE DEF p
  <2>4. ParseVarint(p) = [item |-> n, rest |-> Rest(p, 1 + 0)]
    BY <2>2, <2>3 DEF ParseVarint
  <2>. QED
    BY <2>1, <2>2, <2>4 DEF p
<1>3. CASE first = Prefix16 /\ bytes = LittleEndian(n, 2) /\ n < Place[2]
  <2>1. VarintWidth(first) = 2
    BY <1>3, VarintWidthIs
  <2>. QED
    BY <1>1, <1>3, <2>1, BytesReadBack
<1>4. CASE first = Prefix32 /\ bytes = LittleEndian(n, 4)
  <2>1. VarintWidth(first) = 4
    BY <1>4, VarintWidthIs
  <2>. QED
    BY <1>1, <1>4, <2>1, BytesReadBack
<1>. QED
  BY <1>1, <1>2, <1>3, <1>4

(* A number that is cut short leaves nothing behind it.                    *)
LEMMA VarintCutShort ==
    ASSUME NEW n \in Nat, n < Place[4], NEW m \in Nat, m < Len(SerializeToVarint(n))
    PROVE  ParseVarint(SubSeq(SerializeToVarint(n), 1, m)).rest = << >>
<1>. DEFINE v == SerializeToVarint(n)
            p == SubSeq(v, 1, m)
<1>1. v \in Seq(Nat) /\ Len(v) \in Nat
  BY VarintBuffer DEF Buffers
<1>2. PICK first \in Nat, bytes \in Buffers :
         /\ v = <<first>> \o bytes
         /\ \/ /\ n < Prefix16 /\ first = n /\ bytes = << >>
            \/ /\ first = Prefix16 /\ bytes = LittleEndian(n, 2) /\ n < Place[2]
            \/ /\ first = Prefix32 /\ bytes = LittleEndian(n, 4)
  BY VarintType DEF IsVarint
<1>3. v[1] = first /\ Len(v) = 1 + VarintWidth(first)
  <2>1. <<first>> \in Buffers /\ Len(<<first>>) = 1
    BY DEF Buffers
  <2>2. Len(v) = 1 + Len(bytes) /\ v[1] = first
    <3>1. <<first>> \in Seq(Nat) /\ bytes \in Seq(Nat)
      BY DEF Buffers
    <3>2. Len(v) = 1 + Len(bytes) /\ Len(bytes) \in Nat
      BY <1>2, <2>1, ConcatType
    <3>3. 1 \in 1 .. Len(<<first>>) + Len(bytes)
      BY <2>1, <3>2
    <3>4. v[1] = <<first>>[1]
      BY <1>2, <2>1, <3>1, <3>3, ConcatProperties
    <3>. QED
      BY <3>2, <3>4
  <2>3. Len(bytes) = VarintWidth(first)
    BY <1>2, BytesType, VarintWidthIs, PrefixesApart, SMTT(60)
  <2>. QED
    BY <2>2, <2>3
<1>. HIDE DEF v
<1>4. p \in Seq(Nat) /\ Len(p) = m /\ (m > 0 => p[1] = v[1])
  <2>1. m \in Int /\ 1 \in Int /\ \A i \in 1 .. m : v[i] \in Nat
    BY <1>1, ElementOfSeq DEF v
  <2>2. /\ p \in Seq(Nat) /\ Len(p) = IF 1 <= m THEN m - 1 + 1 ELSE 0
        /\ \A i \in 1 .. m - 1 + 1 : p[i] = v[1 + i - 1]
    BY <2>1, SubSeqProperties
  <2>3. m > 0 => p[1] = v[1]
    BY <2>2
  <2>. QED
    BY <2>2, <2>3
<1>. HIDE DEF p
<1>5. \A k \in Nat : k >= Len(p) => Rest(p, k) = << >>
  BY <1>4, SubSeqEmpty DEF Rest
<1>6. ParseVarint(p).rest = Rest(p, 1 + VarintWidth(Cell(p)))
  BY DEF ParseVarint
<1>7. CASE m = 0
  <2>1. Cell(p) \in Nat
    BY <1>4, CellsType DEF Buffers
  <2>2. 1 + VarintWidth(Cell(p)) \in Nat
    BY <2>1, VarintWidthIs
  <2>. QED
    BY <1>4, <1>5, <1>6, <1>7, <2>2 DEF p, v
<1>8. CASE m > 0
  <2>1. Cell(p) = first
    BY <1>3, <1>4, <1>8 DEF Cell, Cells
  <2>2. 1 + VarintWidth(first) \in Nat /\ 1 + VarintWidth(first) >= m
    BY <1>1, <1>3 DEF v
  <2>. QED
    BY <1>4, <1>5, <1>6, <2>1, <2>2 DEF p, v
<1>. QED
  BY <1>7, <1>8

LEMMA ScriptBuffer ==
    ASSUME NEW script \in Buffers
    PROVE  /\ SerializeScript(script) \in Buffers
           /\ Len(SerializeScript(script)) \in Nat \ {0}
           /\ Len(script) <= Len(SerializeScript(script))
<1>1. Len(script) \in Nat
  BY LenProperties DEF Buffers
<1>2. /\ SerializeToVarint(Len(script)) \in Buffers
      /\ Len(SerializeToVarint(Len(script))) \in Nat \ {0}
  BY <1>1, VarintBuffer
<1>3. /\ SerializeScript(script) \in Buffers
      /\ Len(SerializeScript(script)) = Len(SerializeToVarint(Len(script))) + Len(script)
  BY <1>2, ConcatType DEF SerializeScript
<1>. QED
  BY <1>1, <1>2, <1>3

LEMMA ParseScriptType ==
    ASSUME NEW p \in Buffers
    PROVE  ParseScript(p).item \in Buffers /\ ParseScript(p).rest \in Buffers
<1>. DEFINE length == ParseVarint(p)
<1>1. length.item \in Nat /\ length.rest \in Buffers
  BY ParseVarintType
<1>2. /\ ParseScript(p).item = Cells(length.rest, length.item)
      /\ ParseScript(p).rest = Rest(length.rest, length.item)
  BY DEF ParseScript
<1>. HIDE DEF length
<1>. QED
  BY <1>1, <1>2, CellsType

(* A script is parsed as it was written.                                   *)
LEMMA ScriptReadBack ==
    ASSUME NEW script \in Buffers, Len(script) < Place[4], NEW q \in Buffers
    PROVE  ParseScript(SerializeScript(script) \o q) = [item |-> script, rest |-> q]
<1>. DEFINE v == SerializeToVarint(Len(script))
            p == SerializeScript(script) \o q
<1>1. Len(script) \in Nat /\ v \in Buffers
  BY VarintBuffer, LenProperties DEF Buffers
<1>2. p = v \o (script \o q) /\ script \o q \in Buffers
  BY <1>1, ConcatMoves, ConcatType DEF SerializeScript
<1>3. ParseVarint(p) = [item |-> Len(script), rest |-> script \o q]
  BY <1>1, <1>2, VarintReadBack
<1>. HIDE DEF p
<1>4. ParseScript(p) = [item |-> Cells(script \o q, Len(script)), rest |-> Rest(script \o q, Len(script))]
  BY <1>3 DEF ParseScript
<1>. QED
  BY <1>4, Cut DEF p

-----------------------------------------------------------------------------
(* Buffers one behind the other.                                           *)

Joins(f, pieces, n) ==
    /\ f \in [0 .. n -> Buffers]
    /\ f[0] = << >>
    /\ \A i \in 1 .. n : f[i] = f[i - 1] \o pieces[i]

LEMMA JoinsExist ==
    ASSUME NEW n \in Nat, NEW pieces, \A i \in 1 .. n : pieces[i] \in Buffers
    PROVE  \E f : Joins(f, pieces, n)
<1>. DEFINE T == {m \in Nat : m <= n => \E f : Joins(f, pieces, m)}
<1>1. 0 \in T
  <2>. DEFINE f == [i \in 0 .. 0 |-> << >>]
  <2>1. << >> \in Buffers
    BY DEF Buffers
  <2>2. Joins(f, pieces, 0)
    BY <2>1 DEF Joins
  <2>. QED
    BY <2>2
<1>2. ASSUME NEW m \in Nat, m \in T
      PROVE  m + 1 \in T
  <2>. SUFFICES ASSUME m + 1 <= n PROVE \E f : Joins(f, pieces, m + 1)
    OBVIOUS
  <2>1. PICK f : Joins(f, pieces, m)
    BY <1>2
  <2>. DEFINE g == [i \in 0 .. m + 1 |-> IF i = m + 1 THEN f[m] \o pieces[m + 1] ELSE f[i]]
  <2>2. f[m] \o pieces[m + 1] \in Buffers
    <3>1. f[m] \in Buffers /\ pieces[m + 1] \in Buffers
      BY <2>1 DEF Joins
    <3>. QED
      BY <3>1, ConcatType
  <2>3. g \in [0 .. m + 1 -> Buffers]
    BY <2>1, <2>2 DEF Joins
  <2>4. g[0] = << >>
    BY <2>1 DEF Joins
  <2>5. ASSUME NEW i \in 1 .. m + 1 PROVE g[i] = g[i - 1] \o pieces[i]
    <3>1. CASE i = m + 1
      <4>1. m \in 0 .. m + 1 /\ m # m + 1 /\ i - 1 = m
        BY <3>1
      <4>2. g[m + 1] = f[m] \o pieces[m + 1] /\ g[m] = f[m]
        BY <4>1
      <4>. HIDE DEF g
      <4>. QED
        BY <3>1, <4>1, <4>2
    <3>2. CASE i # m + 1
      <4>1. i \in 1 .. m /\ g[i] = f[i] /\ g[i - 1] = f[i - 1]
        BY <3>2
      <4>. QED
        BY <2>1, <4>1 DEF Joins
    <3>. QED
      BY <3>1, <3>2
  <2>. HIDE DEF g
  <2>6. Joins(g, pieces, m + 1)
    BY <2>3, <2>4, <2>5 DEF Joins
  <2>. QED
    BY <2>6
<1>3. \A m \in Nat : m \in T
  <2>. HIDE DEF T
  <2>. QED
    BY <1>1, <1>2, Levels!NatSetInduction
<1>. QED
  BY <1>3

(* FlattenSeq, which folds from the left, is the last of the joins.        *)
LEMMA FlattenJoins ==
    ASSUME NEW n \in Nat, NEW pieces \in [1 .. n -> Buffers], NEW f, Joins(f, pieces, n)
    PROVE  FlattenSeq(pieces) = f[n]
<1>1. Len(pieces) = n /\ pieces \in Seq(Buffers)
  BY SeqIs
<1>2. CASE n = 0
  <2>1. pieces = << >>
    BY <1>1, <1>2, EmptySeq
  <2>2. FlattenSeq(pieces) = pieces
    BY <1>1, <1>2 DEF FlattenSeq
  <2>. QED
    BY <1>2, <2>1, <2>2 DEF Joins
<1>3. CASE n # 0
  <2>. DEFINE Is(g) == g = [i \in 1 .. Len(pieces) |->
                              IF i = 1 THEN pieces[i] ELSE g[i - 1] \o pieces[i]]
              flat == CHOOSE g : Is(g)
              g0 == [i \in 1 .. n |-> f[i]]
  <2>1. ASSUME NEW i \in 1 .. n
        PROVE  f[i] = IF i = 1 THEN pieces[i] ELSE f[i - 1] \o pieces[i]
    <3>1. f[i] = f[i - 1] \o pieces[i]
      BY DEF Joins
    <3>2. << >> \o pieces[i] = pieces[i]
      <4>1. pieces[i] \in Seq(Nat)
        BY DEF Buffers
      <4>. QED
        BY <4>1, ConcatEmptySeq
    <3>3. i = 1 => f[i - 1] = << >>
      BY DEF Joins
    <3>. QED
      BY <3>1, <3>2, <3>3
  <2>2. Is(g0)
    <3>1. g0 = [i \in 1 .. n |-> IF i = 1 THEN pieces[i] ELSE g0[i - 1] \o pieces[i]]
      <4>1. \A i \in 1 .. n : g0[i] = IF i = 1 THEN pieces[i] ELSE g0[i - 1] \o pieces[i]
        <5>1. \A i \in 1 .. n : i # 1 => i - 1 \in 1 .. n
          OBVIOUS
        <5>2. \A i \in 1 .. n : g0[i] = f[i]
          OBVIOUS
        <5>. HIDE DEF g0
        <5>. QED
          BY <2>1, <5>1, <5>2
      <4>2. g0 = [i \in 1 .. n |-> g0[i]]
        OBVIOUS
      <4>. HIDE DEF g0
      <4>. QED
        BY <4>1, <4>2
    <3>. HIDE DEF g0
    <3>. QED
      BY <1>1, <3>1
  <2>3. Is(flat)
    <3>. HIDE DEF Is
    <3>. QED
      BY <2>2
  <2>4. FlattenSeq(pieces) = flat[n]
    BY <1>1, <1>3 DEF FlattenSeq
  <2>. HIDE DEF flat
  <2>5. flat = [i \in 1 .. n |-> IF i = 1 THEN pieces[i] ELSE flat[i - 1] \o pieces[i]]
    BY <1>1, <2>3
  <2>. DEFINE T == {i \in Nat : i + 1 \in 1 .. n => flat[i + 1] = f[i + 1]}
  <2>6. 0 \in T
    BY <2>1, <2>5
  <2>7. ASSUME NEW i \in Nat, i \in T
        PROVE  i + 1 \in T
    <3>. SUFFICES ASSUME (i + 1) + 1 \in 1 .. n PROVE flat[(i + 1) + 1] = f[(i + 1) + 1]
      OBVIOUS
    <3>. DEFINE j == (i + 1) + 1
    <3>1. j \in 1 .. n /\ j # 1 /\ j - 1 = i + 1 /\ i + 1 \in 1 .. n
      OBVIOUS
    <3>2. flat[i + 1] = f[i + 1]
      BY <2>7, <3>1
    <3>. HIDE DEF j
    <3>3. flat[j] = flat[j - 1] \o pieces[j]
      BY <2>5, <3>1
    <3>4. f[j] = f[j - 1] \o pieces[j]
      BY <2>1, <3>1
    <3>5. flat[j] = f[j]
      BY <3>1, <3>2, <3>3, <3>4
    <3>. QED
      BY <3>5 DEF j
  <2>8. \A i \in Nat : i \in T
    <3>. HIDE DEF T
    <3>. QED
      BY <2>6, <2>7, Levels!NatSetInduction
  <2>9. flat[n] = f[n]
    <3>1. n - 1 \in T /\ (n - 1) + 1 = n /\ n \in 1 .. n
      BY <1>3, <2>8
    <3>. QED
      BY <3>1
  <2>. QED
    BY <2>4, <2>9
<1>. QED
  BY <1>2, <1>3

(* What is left of them, with more behind, after each.                     *)
Tails(rests, pieces, n) ==
    /\ rests \in [0 .. n -> Buffers]
    /\ \A k \in 1 .. n : rests[k - 1] = pieces[k] \o rests[k]

LEMMA FlattenTails ==
    ASSUME NEW n \in Nat, NEW pieces \in [1 .. n -> Buffers], NEW q \in Buffers
    PROVE  \E rests : /\ Tails(rests, pieces, n)
                      /\ rests[0] = FlattenSeq(pieces) \o q /\ rests[n] = q
<1>1. PICK f : Joins(f, pieces, n)
  BY JoinsExist
<1>. DEFINE HasTails(m) ==
              \A r \in Buffers : \E rests : /\ Tails(rests, pieces, m)
                                           /\ rests[0] = f[m] \o r /\ rests[m] = r
            T == {m \in Nat : m <= n => HasTails(m)}
<1>2. 0 \in T
  <2>. SUFFICES ASSUME NEW r \in Buffers
                PROVE  \E rests : /\ Tails(rests, pieces, 0)
                                  /\ rests[0] = f[0] \o r /\ rests[0] = r
    OBVIOUS
  <2>. DEFINE rests == [k \in 0 .. 0 |-> r]
  <2>1. f[0] \o r = r
    BY <1>1, ConcatEmptySeq DEF Joins, Buffers
  <2>2. rests[0] = r
    OBVIOUS
  <2>3. Tails(rests, pieces, 0)
    BY DEF Tails
  <2>. QED
    BY <2>1, <2>2, <2>3
<1>3. ASSUME NEW m \in Nat, m \in T
      PROVE  m + 1 \in T
  <2>. SUFFICES ASSUME m + 1 <= n PROVE HasTails(m + 1)
    <3>. HIDE DEF HasTails
    <3>. QED
      OBVIOUS
  <2>. TAKE r \in Buffers
  <2>0. \A t \in Buffers : \E rests : /\ Tails(rests, pieces, m)
                                      /\ rests[0] = f[m] \o t /\ rests[m] = t
    <3>1. m <= n
      OBVIOUS
    <3>. QED
      BY <1>3, <3>1
  <2>. DEFINE s == pieces[m + 1] \o r
  <2>1. f[m] \in Buffers /\ pieces[m + 1] \in Buffers /\ f[m + 1] = f[m] \o pieces[m + 1]
    <3>1. m \in 0 .. n /\ m + 1 \in 1 .. n /\ (m + 1) - 1 = m
      OBVIOUS
    <3>. QED
      BY <1>1, <3>1 DEF Joins
  <2>2. s \in Buffers /\ f[m + 1] \o r = f[m] \o s
    <3>1. (f[m] \o pieces[m + 1]) \o r = f[m] \o s
      BY <2>1, ConcatMoves
    <3>2. s \in Buffers
      BY <2>1, ConcatType
    <3>. QED
      BY <2>1, <3>1, <3>2
  <2>. HIDE DEF s
  <2>3. PICK old : Tails(old, pieces, m) /\ old[0] = f[m] \o s /\ old[m] = s
    BY <2>0, <2>2
  <2>. DEFINE rests == [k \in 0 .. m + 1 |-> IF k = m + 1 THEN r ELSE old[k]]
  <2>4. rests[0] = old[0] /\ rests[m + 1] = r /\ rests \in [0 .. m + 1 -> Buffers]
    BY <2>3 DEF Tails
  <2>5. ASSUME NEW k \in 1 .. m + 1 PROVE rests[k - 1] = pieces[k] \o rests[k]
    <3>1. CASE k = m + 1
      <4>1. rests[k - 1] = s /\ rests[k] = r
        BY <2>3, <3>1
      <4>. QED
        BY <3>1, <4>1 DEF s
    <3>2. CASE k # m + 1
      <4>1. k \in 1 .. m /\ rests[k - 1] = old[k - 1] /\ rests[k] = old[k]
        BY <3>2
      <4>. QED
        BY <2>3, <4>1 DEF Tails
    <3>. QED
      BY <3>1, <3>2
  <2>. HIDE DEF rests
  <2>6. Tails(rests, pieces, m + 1)
    BY <2>4, <2>5 DEF Tails
  <2>. QED
    BY <2>2, <2>3, <2>4, <2>6
<1>4. \A m \in Nat : m \in T
  <2>. HIDE DEF T
  <2>. QED
    BY <1>2, <1>3, Levels!NatSetInduction
<1>5. n \in T
  BY <1>4
<1>6. FlattenSeq(pieces) = f[n]
  BY <1>1, FlattenJoins
<1>. QED
  BY <1>5, <1>6

(* No piece is longer than all of them, nor are there more than cells.     *)
LEMMA FlattenType ==
    ASSUME NEW n \in Nat, NEW pieces \in [1 .. n -> Buffers]
    PROVE  /\ FlattenSeq(pieces) \in Buffers
           /\ \A k \in 1 .. n : Len(pieces[k]) <= Len(FlattenSeq(pieces))
           /\ (\A k \in 1 .. n : Len(pieces[k]) > 0) => n <= Len(FlattenSeq(pieces))
<1>1. PICK f : Joins(f, pieces, n)
  BY JoinsExist
<1>. DEFINE T == {m \in Nat : m <= n =>
                     /\ \A k \in 1 .. m : Len(pieces[k]) <= Len(f[m])
                     /\ (\A k \in 1 .. n : Len(pieces[k]) > 0) => m <= Len(f[m])}
<1>2. 0 \in T
  <2>1. f[0] = << >> /\ Len(<< >>) = 0
    BY <1>1 DEF Joins
  <2>2. 0 <= Len(f[0])
    BY <2>1
  <2>. QED
    BY <2>2
<1>3. ASSUME NEW m \in Nat, m \in T
      PROVE  m + 1 \in T
  <2>. SUFFICES ASSUME m + 1 <= n
                PROVE  /\ \A k \in 1 .. m + 1 : Len(pieces[k]) <= Len(f[m + 1])
                       /\ (\A k \in 1 .. n : Len(pieces[k]) > 0) => m + 1 <= Len(f[m + 1])
    OBVIOUS
  <2>1. f[m] \in Buffers /\ pieces[m + 1] \in Buffers /\ f[m + 1] = f[m] \o pieces[m + 1]
    <3>1. m \in 0 .. n /\ m + 1 \in 1 .. n /\ (m + 1) - 1 = m
      OBVIOUS
    <3>. QED
      BY <1>1, <3>1 DEF Joins
  <2>2. /\ Len(f[m + 1]) = Len(f[m]) + Len(pieces[m + 1])
        /\ Len(f[m]) \in Nat /\ Len(pieces[m + 1]) \in Nat
    BY <2>1, ConcatType
  <2>3. /\ \A k \in 1 .. m : Len(pieces[k]) <= Len(f[m])
        /\ (\A k \in 1 .. n : Len(pieces[k]) > 0) => m <= Len(f[m])
    BY <1>3
  <2>4. \A k \in 1 .. m : Len(pieces[k]) \in Nat
    <3>1. \A k \in 1 .. m : pieces[k] \in Buffers
      OBVIOUS
    <3>. QED
      BY <3>1, ConcatType
  <2>. DEFINE a == Len(f[m])
              b == Len(pieces[m + 1])
  <2>5. \A k \in 1 .. m + 1 : Len(pieces[k]) <= a + b
    <3>1. \A k \in 1 .. m + 1 : k = m + 1 \/ k \in 1 .. m
      OBVIOUS
    <3>2. \A k \in 1 .. m : Len(pieces[k]) <= a
      BY <2>3
    <3>3. a \in Nat /\ b \in Nat /\ Len(pieces[m + 1]) = b
      BY <2>2
    <3>. HIDE DEF a, b
    <3>. QED
      BY <2>4, <3>1, <3>2, <3>3
  <2>6. (\A k \in 1 .. n : Len(pieces[k]) > 0) => m + 1 <= a + b
    <3>. SUFFICES ASSUME \A k \in 1 .. n : Len(pieces[k]) > 0 PROVE m + 1 <= a + b
      OBVIOUS
    <3>1. m + 1 \in 1 .. n
      OBVIOUS
    <3>2. m <= a
      BY <2>3
    <3>3. b > 0
      BY <3>1
    <3>4. a \in Nat /\ b \in Nat
      BY <2>2
    <3>. HIDE DEF a, b
    <3>. QED
      BY <3>2, <3>3, <3>4
  <2>7. Len(f[m + 1]) = a + b
    BY <2>2
  <2>. HIDE DEF a, b
  <2>. QED
    BY <2>5, <2>6, <2>7
<1>4. \A m \in Nat : m \in T
  <2>. HIDE DEF T
  <2>. QED
    BY <1>2, <1>3, Levels!NatSetInduction
<1>5. n \in T /\ f[n] \in Buffers
  BY <1>1, <1>4 DEF Joins
<1>6. FlattenSeq(pieces) = f[n]
  BY <1>1, FlattenJoins
<1>. QED
  BY <1>5, <1>6

-----------------------------------------------------------------------------
(* Inputs and outputs.                                                     *)

InType  == [previous_output : Nat \X Nat, signature_script : Buffers, sequence : Nat]
OutType == [value : Nat, public_key_script : Buffers]

LEMMA PairIs ==
    ASSUME NEW f \in Buffers, Len(f) = 2
    PROVE  f \in Nat \X Nat
<1>1. f[1] \in Nat /\ f[2] \in Nat
  BY DEF Buffers
<1>2. <<f[1], f[2]>> \in Seq(Nat) /\ Len(<<f[1], f[2]>>) = 2
  BY <1>1
<1>3. f = <<f[1], f[2]>>
  <2>. DEFINE g == <<f[1], f[2]>>
  <2>1. g[1] = f[1] /\ g[2] = f[2] /\ g \in Seq(Nat) /\ Len(g) = 2
    BY <1>2
  <2>. HIDE DEF g
  <2>2. \A i \in 1 .. Len(f) : f[i] = g[i]
    BY <2>1
  <2>3. f = g
    BY <2>1, <2>2, SeqEqual DEF Buffers
  <2>. QED
    BY <2>3 DEF g
<1>. QED
  BY <1>1, <1>3

LEMMA OutpointBuffer ==
    ASSUME NEW o \in Nat \X Nat
    PROVE  o \in Buffers /\ Len(o) = 2
<1>1. o = <<o[1], o[2]>> /\ o[1] \in Nat /\ o[2] \in Nat
  OBVIOUS
<1>2. <<o[1], o[2]>> \in Seq(Nat) /\ Len(<<o[1], o[2]>>) = 2
  BY <1>1
<1>. QED
  BY <1>1, <1>2 DEF Buffers

LEMMA CellBuffer == \A c \in Nat : <<c>> \in Buffers /\ Len(<<c>>) = 1
  BY DEF Buffers

LEMMA TxInBuffer ==
    ASSUME NEW in \in InType
    PROVE  /\ SerializeTxIn(in) \in Buffers
           /\ Len(SerializeTxIn(in)) \in Nat \ {0}
           /\ Len(in.signature_script) <= Len(SerializeTxIn(in))
<1>. DEFINE o == in.previous_output
            s == SerializeScript(in.signature_script)
            c == <<in.sequence>>
<1>1. o \in Buffers /\ Len(o) = 2
  BY OutpointBuffer DEF InType
<1>2. in.signature_script \in Buffers /\ in.sequence \in Nat
  BY DEF InType
<1>3. s \in Buffers /\ Len(s) \in Nat /\ Len(in.signature_script) <= Len(s)
  BY <1>2, ScriptBuffer
<1>4. c \in Buffers /\ Len(c) = 1
  BY <1>2, CellBuffer
<1>. HIDE DEF o, s, c
<1>5. o \o s \in Buffers /\ Len(o \o s) = 2 + Len(s)
  BY <1>1, <1>3, ConcatType
<1>6. (o \o s) \o c \in Buffers /\ Len((o \o s) \o c) = Len(o \o s) + 1
  BY <1>4, <1>5, ConcatType
<1>7. SerializeTxIn(in) = (o \o s) \o c
  BY DEF SerializeTxIn, o, s, c
<1>8. Len(in.signature_script) \in Nat
  BY <1>2, ConcatType
<1>. QED
  BY <1>3, <1>5, <1>6, <1>7, <1>8

(* Whatever is there is parsed as an input.                                *)
LEMMA ParseTxInType ==
    ASSUME NEW p \in Buffers
    PROVE  ParseTxIn(p).item \in InType /\ ParseTxIn(p).rest \in Buffers
<1>. DEFINE script == ParseScript(Rest(p, 2))
<1>1. Cells(p, 2) \in Buffers /\ Len(Cells(p, 2)) = 2 /\ Rest(p, 2) \in Buffers
  BY CellsType
<1>2. Cells(p, 2) \in Nat \X Nat
  BY <1>1, PairIs
<1>3. script.item \in Buffers /\ script.rest \in Buffers
  BY <1>1, ParseScriptType
<1>. HIDE DEF script
<1>4. Cell(script.rest) \in Nat /\ Rest(script.rest, 1) \in Buffers
  BY <1>3, CellsType
<1>5. /\ ParseTxIn(p).item = [previous_output  |-> Cells(p, 2),
                             signature_script |-> script.item,
                             sequence         |-> Cell(script.rest)]
      /\ ParseTxIn(p).rest = Rest(script.rest, 1)
  BY DEF ParseTxIn, script
<1>. QED
  BY <1>2, <1>3, <1>4, <1>5 DEF InType

(* An input is parsed as it was written, and so is an output below.        *)
LEMMA TxInReadBack ==
    ASSUME NEW in \in InType, Len(in.signature_script) < Place[4], NEW q \in Buffers
    PROVE  ParseTxIn(SerializeTxIn(in) \o q) = [item |-> in, rest |-> q]
<1>. DEFINE o == in.previous_output
            s == SerializeScript(in.signature_script)
            c == <<in.sequence>>
            p == SerializeTxIn(in) \o q
<1>1. o \in Buffers /\ Len(o) = 2
  BY OutpointBuffer DEF InType
<1>2. in.signature_script \in Buffers /\ in.sequence \in Nat
  BY DEF InType
<1>3. s \in Buffers /\ c \in Buffers /\ c \o q \in Buffers
  BY <1>2, ScriptBuffer, CellBuffer, ConcatType
<1>4. p = o \o (s \o (c \o q))
  <2>1. p = ((o \o s) \o c) \o q
    BY DEF SerializeTxIn
  <2>. HIDE DEF o, s, c, p
  <2>2. o \o s \in Buffers
    BY <1>1, <1>3, ConcatType
  <2>3. ((o \o s) \o c) \o q = (o \o s) \o (c \o q)
    BY <1>3, <2>2, ConcatMoves
  <2>4. (o \o s) \o (c \o q) = o \o (s \o (c \o q))
    BY <1>1, <1>3, ConcatMoves
  <2>. QED
    BY <2>1, <2>3, <2>4
<1>5. s \o (c \o q) \in Buffers
  BY <1>3, ConcatType
<1>6. Cells(p, 2) = o /\ Rest(p, 2) = s \o (c \o q)
  <2>. HIDE DEF o, s, c, p
  <2>. QED
    BY <1>1, <1>4, <1>5, Cut
<1>7. ParseScript(s \o (c \o q)) = [item |-> in.signature_script, rest |-> c \o q]
  BY <1>2, <1>3, ScriptReadBack
<1>8. Cell(c \o q) = in.sequence /\ Rest(c \o q, 1) = q
  BY <1>2, CutOne
<1>. HIDE DEF o, s, c, p
<1>9. ParseTxIn(p) = [item |-> [previous_output  |-> o,
                                signature_script |-> in.signature_script,
                                sequence         |-> in.sequence],
                      rest |-> q]
  <2>. DEFINE script == ParseScript(Rest(p, 2))
  <2>1. ParseTxIn(p) = [item |-> [previous_output  |-> Cells(p, 2),
                                  signature_script |-> script.item,
                                  sequence         |-> Cell(script.rest)],
                        rest |-> Rest(script.rest, 1)]
    BY DEF ParseTxIn
  <2>3. script = ParseScript(s \o (c \o q))
    BY <1>6, Zenon
  <2>2. script.item = in.signature_script /\ script.rest = c \o q
    BY <1>7, <2>3
  <2>. HIDE DEF script
  <2>. QED
    BY <1>6, <1>8, <2>1, <2>2
<1>10. in = [previous_output  |-> in.previous_output,
             signature_script |-> in.signature_script,
             sequence         |-> in.sequence]
  BY DEF InType
<1>. QED
  BY <1>9, <1>10 DEF p, o

LEMMA TxOutBuffer ==
    ASSUME NEW out \in OutType
    PROVE  /\ SerializeTxOut(out) \in Buffers
           /\ Len(SerializeTxOut(out)) \in Nat \ {0}
           /\ Len(out.public_key_script) <= Len(SerializeTxOut(out))
<1>. DEFINE s == SerializeScript(out.public_key_script)
            c == <<out.value>>
<1>1. out.public_key_script \in Buffers /\ out.value \in Nat
  BY DEF OutType
<1>2. /\ s \in Buffers /\ Len(s) \in Nat /\ Len(out.public_key_script) <= Len(s)
      /\ Len(out.public_key_script) \in Nat
  BY <1>1, ScriptBuffer, ConcatType
<1>3. c \in Buffers /\ Len(c) = 1
  BY <1>1, CellBuffer
<1>. HIDE DEF s, c
<1>4. c \o s \in Buffers /\ Len(c \o s) = 1 + Len(s)
  BY <1>2, <1>3, ConcatType
<1>5. SerializeTxOut(out) = c \o s
  BY DEF SerializeTxOut, s, c
<1>. QED
  BY <1>2, <1>4, <1>5

LEMMA ParseTxOutType ==
    ASSUME NEW p \in Buffers
    PROVE  ParseTxOut(p).item \in OutType /\ ParseTxOut(p).rest \in Buffers
<1>. DEFINE script == ParseScript(Rest(p, 1))
<1>1. Cell(p) \in Nat /\ Rest(p, 1) \in Buffers
  BY CellsType
<1>2. script.item \in Buffers /\ script.rest \in Buffers
  BY <1>1, ParseScriptType
<1>. HIDE DEF script
<1>3. /\ ParseTxOut(p).item = [value |-> Cell(p), public_key_script |-> script.item]
      /\ ParseTxOut(p).rest = script.rest
  BY DEF ParseTxOut, script
<1>. QED
  BY <1>1, <1>2, <1>3 DEF OutType

LEMMA TxOutReadBack ==
    ASSUME NEW out \in OutType, Len(out.public_key_script) < Place[4], NEW q \in Buffers
    PROVE  ParseTxOut(SerializeTxOut(out) \o q) = [item |-> out, rest |-> q]
<1>. DEFINE s == SerializeScript(out.public_key_script)
            c == <<out.value>>
            p == SerializeTxOut(out) \o q
<1>1. out.public_key_script \in Buffers /\ out.value \in Nat
  BY DEF OutType
<1>2. s \in Buffers /\ c \in Buffers /\ s \o q \in Buffers
  BY <1>1, ScriptBuffer, CellBuffer, ConcatType
<1>3. p = c \o (s \o q)
  BY <1>2, ConcatMoves DEF SerializeTxOut
<1>4. Cell(c \o (s \o q)) = out.value /\ Rest(c \o (s \o q), 1) = s \o q
  BY <1>1, <1>2, CutOne
<1>5. ParseScript(s \o q) = [item |-> out.public_key_script, rest |-> q]
  BY <1>1, ScriptReadBack
<1>. HIDE DEF s, c, p
<1>6. ParseTxOut(p) = [item |-> [value |-> out.value, public_key_script |-> out.public_key_script],
                       rest |-> q]
  <2>1. Cell(p) = out.value /\ Rest(p, 1) = s \o q
    BY <1>3, <1>4
  <2>2. ParseTxOut(p) = [item |-> [value |-> Cell(p), public_key_script |-> ParseScript(Rest(p, 1)).item],
                         rest |-> ParseScript(Rest(p, 1)).rest]
    BY DEF ParseTxOut
  <2>3. ParseScript(Rest(p, 1)) = ParseScript(s \o q)
    BY <2>1, Zenon
  <2>4. ParseScript(Rest(p, 1)).item = out.public_key_script /\ ParseScript(Rest(p, 1)).rest = q
    BY <1>5, <2>3
  <2>. QED
    BY <2>1, <2>2, <2>4
<1>7. out = [value |-> out.value, public_key_script |-> out.public_key_script]
  BY DEF OutType
<1>. QED
  BY <1>6, <1>7 DEF p

-----------------------------------------------------------------------------
(* Lists: of inputs, of outputs, of witnesses and of transactions.         *)

Nothing(p) == [item |-> << >>, rest |-> p]
Steps(n)   == [k \in 1 .. n |-> k]
ListsOf(S) == [item : Seq(S), rest : Buffers]

NextTxIn(list, k) ==
    LET next == ParseTxIn(list.rest)
    IN  [item |-> Append(list.item, next.item), rest |-> next.rest]
NextTxOut(list, k) ==
    LET next == ParseTxOut(list.rest)
    IN  [item |-> Append(list.item, next.item), rest |-> next.rest]
NextScript(list, k) ==
    LET next == ParseScript(list.rest)
    IN  [item |-> Append(list.item, next.item), rest |-> next.rest]
NextTx(list, k) ==
    LET next == ParseTx(list.rest)
    IN  [item |-> Append(list.item, next.item), rest |-> next.rest]

TxIns == INSTANCE Folding WITH Op <- NextTxIn
TxOuts == INSTANCE Folding WITH Op <- NextTxOut
Scripts == INSTANCE Folding WITH Op <- NextScript
Txs == INSTANCE Folding WITH Op <- NextTx

LEMMA TxInsFold ==
    \A p, n : ParseItems(ParseTxIn, p, n) = TxIns!FoldLeft(NextTxIn, Nothing(p), Steps(n))
  BY DEF ParseItems, Nothing, Steps, NextTxIn, FoldLeft, MapThenFoldSet, Max,
         TxIns!FoldLeft, TxIns!MapThenFoldSet, TxIns!Max

BackTxIns(items, pieces, n) ==
    \A k \in 1 .. n : \A r \in Buffers :
        ParseTxIn(pieces[k] \o r) = [item |-> items[k], rest |-> r]

LEMMA TxInsReadBack ==
    ASSUME NEW n \in Nat, NEW S, NEW items \in Seq(S), Len(items) = n,
           NEW pieces \in [1 .. n -> Buffers], NEW q \in Buffers,
           BackTxIns(items, pieces, n)
    PROVE  /\ ParseItems(ParseTxIn, FlattenSeq(pieces) \o q, n).item = items
           /\ ParseItems(ParseTxIn, FlattenSeq(pieces) \o q, n).rest = q
<1>1. PICK rests : /\ Tails(rests, pieces, n)
                   /\ rests[0] = FlattenSeq(pieces) \o q /\ rests[n] = q
  BY FlattenTails, SMTT(60)
<1>. DEFINE L == ListsOf(S)
            base == Nothing(rests[0])
            steps == Steps(n)
<1>2. ASSUME NEW k \in 1 .. n, NEW list \in L, list.item \in Seq(S), list.rest = rests[k - 1]
      PROVE  /\ NextTxIn(list, steps[k]) \in L
             /\ NextTxIn(list, steps[k]).item = Append(list.item, items[k])
             /\ NextTxIn(list, steps[k]).rest = rests[k]
  <2>1. rests[k - 1] = pieces[k] \o rests[k] /\ rests[k] \in Buffers /\ items[k] \in S
    BY <1>1 DEF Tails
  <2>2. ParseTxIn(rests[k - 1]) = [item |-> items[k], rest |-> rests[k]]
    BY <2>1 DEF BackTxIns
  <2>3. ParseTxIn(list.rest).item = items[k] /\ ParseTxIn(list.rest).rest = rests[k]
    BY <1>2, <2>2
  <2>4. NextTxIn(list, steps[k]) = [item |-> Append(list.item, ParseTxIn(list.rest).item),
                                rest |-> ParseTxIn(list.rest).rest]
    BY DEF NextTxIn
  <2>5. Append(list.item, items[k]) \in Seq(S)
    BY <1>2, <2>1
  <2>. HIDE DEF steps
  <2>6. NextTxIn(list, steps[k]) = [item |-> Append(list.item, items[k]), rest |-> rests[k]]
    BY <2>3, <2>4
  <2>. QED
    BY <2>1, <2>5, <2>6 DEF ListsOf
<1>6. TxIns!Reads(L, S, steps, items, rests, n)
  <2>. HIDE DEF L, steps
  <2>. QED
    BY <1>2 DEF TxIns!Reads
<1>3. base \in L /\ base.item = << >> /\ base.rest = rests[0]
  <2>1. rests[0] \in Buffers /\ << >> \in Seq(S)
    <3>1. 0 \in 0 .. n
      OBVIOUS
    <3>2. rests[0] \in Buffers
      BY <1>1, <3>1 DEF Tails
    <3>. QED
      BY <3>2
  <2>. DEFINE r == rests[0]
  <2>. HIDE DEF r
  <2>2. [item |-> << >>, rest |-> r] \in ListsOf(S)
    BY <2>1 DEF ListsOf, r
  <2>. QED
    BY <2>2 DEF Nothing, r
<1>4. DOMAIN steps = 1 .. n
  BY DEF Steps
<1>. HIDE DEF L, base, steps
<1>5. /\ TxIns!FoldLeft(NextTxIn, base, steps).item = items
      /\ TxIns!FoldLeft(NextTxIn, base, steps).rest = rests[n]
  BY <1>3, <1>4, <1>6, TxIns!FoldLeftReads
<1>. QED
  BY <1>1, <1>5, TxInsFold DEF base, steps

LEMMA TxInsType ==
    ASSUME NEW n \in Nat, NEW S, NEW p \in Buffers,
           \A r \in Buffers : ParseTxIn(r).item \in S /\ ParseTxIn(r).rest \in Buffers
    PROVE  /\ ParseItems(ParseTxIn, p, n).item \in Seq(S)
           /\ Len(ParseItems(ParseTxIn, p, n).item) = n
           /\ ParseItems(ParseTxIn, p, n).rest \in Buffers
<1>. DEFINE L == ListsOf(S)
            base == Nothing(p)
            steps == Steps(n)
<1>1. ASSUME NEW k \in 1 .. n, NEW list \in L
      PROVE  /\ NextTxIn(list, steps[k]) \in L
             /\ Len(NextTxIn(list, steps[k]).item) = Len(list.item) + 1
  <2>1. list.item \in Seq(S) /\ list.rest \in Buffers
    BY DEF ListsOf
  <2>2. ParseTxIn(list.rest).item \in S /\ ParseTxIn(list.rest).rest \in Buffers
    BY <2>1
  <2>3. /\ Append(list.item, ParseTxIn(list.rest).item) \in Seq(S)
        /\ Len(Append(list.item, ParseTxIn(list.rest).item)) = Len(list.item) + 1
    BY <2>1, <2>2
  <2>4. NextTxIn(list, steps[k]) = [item |-> Append(list.item, ParseTxIn(list.rest).item),
                                rest |-> ParseTxIn(list.rest).rest]
    BY DEF NextTxIn
  <2>. HIDE DEF steps
  <2>. QED
    BY <2>2, <2>3, <2>4 DEF ListsOf
<1>2. base \in L /\ base.item = << >>
  BY DEF Nothing, ListsOf
<1>3. DOMAIN steps = 1 .. n
  BY DEF Steps
<1>. HIDE DEF L, base, steps
<1>4. /\ TxIns!FoldLeft(NextTxIn, base, steps) \in L
      /\ Len(TxIns!FoldLeft(NextTxIn, base, steps).item) = n
  BY <1>1, <1>2, <1>3, TxIns!FoldLeftLists, ZenonT(60)
<1>5. ParseItems(ParseTxIn, p, n) \in ListsOf(S) /\ Len(ParseItems(ParseTxIn, p, n).item) = n
  BY <1>4, TxInsFold DEF base, steps, L
<1>. QED
  BY <1>5 DEF ListsOf

LEMMA TxOutsFold ==
    \A p, n : ParseItems(ParseTxOut, p, n) = TxOuts!FoldLeft(NextTxOut, Nothing(p), Steps(n))
  BY DEF ParseItems, Nothing, Steps, NextTxOut, FoldLeft, MapThenFoldSet, Max,
         TxOuts!FoldLeft, TxOuts!MapThenFoldSet, TxOuts!Max

BackTxOuts(items, pieces, n) ==
    \A k \in 1 .. n : \A r \in Buffers :
        ParseTxOut(pieces[k] \o r) = [item |-> items[k], rest |-> r]

LEMMA TxOutsReadBack ==
    ASSUME NEW n \in Nat, NEW S, NEW items \in Seq(S), Len(items) = n,
           NEW pieces \in [1 .. n -> Buffers], NEW q \in Buffers,
           BackTxOuts(items, pieces, n)
    PROVE  /\ ParseItems(ParseTxOut, FlattenSeq(pieces) \o q, n).item = items
           /\ ParseItems(ParseTxOut, FlattenSeq(pieces) \o q, n).rest = q
<1>1. PICK rests : /\ Tails(rests, pieces, n)
                   /\ rests[0] = FlattenSeq(pieces) \o q /\ rests[n] = q
  BY FlattenTails, SMTT(60)
<1>. DEFINE L == ListsOf(S)
            base == Nothing(rests[0])
            steps == Steps(n)
<1>2. ASSUME NEW k \in 1 .. n, NEW list \in L, list.item \in Seq(S), list.rest = rests[k - 1]
      PROVE  /\ NextTxOut(list, steps[k]) \in L
             /\ NextTxOut(list, steps[k]).item = Append(list.item, items[k])
             /\ NextTxOut(list, steps[k]).rest = rests[k]
  <2>1. rests[k - 1] = pieces[k] \o rests[k] /\ rests[k] \in Buffers /\ items[k] \in S
    BY <1>1 DEF Tails
  <2>2. ParseTxOut(rests[k - 1]) = [item |-> items[k], rest |-> rests[k]]
    BY <2>1 DEF BackTxOuts
  <2>3. ParseTxOut(list.rest).item = items[k] /\ ParseTxOut(list.rest).rest = rests[k]
    BY <1>2, <2>2
  <2>4. NextTxOut(list, steps[k]) = [item |-> Append(list.item, ParseTxOut(list.rest).item),
                                rest |-> ParseTxOut(list.rest).rest]
    BY DEF NextTxOut
  <2>5. Append(list.item, items[k]) \in Seq(S)
    BY <1>2, <2>1
  <2>. HIDE DEF steps
  <2>6. NextTxOut(list, steps[k]) = [item |-> Append(list.item, items[k]), rest |-> rests[k]]
    BY <2>3, <2>4
  <2>. QED
    BY <2>1, <2>5, <2>6 DEF ListsOf
<1>6. TxOuts!Reads(L, S, steps, items, rests, n)
  <2>. HIDE DEF L, steps
  <2>. QED
    BY <1>2 DEF TxOuts!Reads
<1>3. base \in L /\ base.item = << >> /\ base.rest = rests[0]
  <2>1. rests[0] \in Buffers /\ << >> \in Seq(S)
    <3>1. 0 \in 0 .. n
      OBVIOUS
    <3>2. rests[0] \in Buffers
      BY <1>1, <3>1 DEF Tails
    <3>. QED
      BY <3>2
  <2>. DEFINE r == rests[0]
  <2>. HIDE DEF r
  <2>2. [item |-> << >>, rest |-> r] \in ListsOf(S)
    BY <2>1 DEF ListsOf, r
  <2>. QED
    BY <2>2 DEF Nothing, r
<1>4. DOMAIN steps = 1 .. n
  BY DEF Steps
<1>. HIDE DEF L, base, steps
<1>5. /\ TxOuts!FoldLeft(NextTxOut, base, steps).item = items
      /\ TxOuts!FoldLeft(NextTxOut, base, steps).rest = rests[n]
  BY <1>3, <1>4, <1>6, TxOuts!FoldLeftReads
<1>. QED
  BY <1>1, <1>5, TxOutsFold DEF base, steps

LEMMA TxOutsType ==
    ASSUME NEW n \in Nat, NEW S, NEW p \in Buffers,
           \A r \in Buffers : ParseTxOut(r).item \in S /\ ParseTxOut(r).rest \in Buffers
    PROVE  /\ ParseItems(ParseTxOut, p, n).item \in Seq(S)
           /\ Len(ParseItems(ParseTxOut, p, n).item) = n
           /\ ParseItems(ParseTxOut, p, n).rest \in Buffers
<1>. DEFINE L == ListsOf(S)
            base == Nothing(p)
            steps == Steps(n)
<1>1. ASSUME NEW k \in 1 .. n, NEW list \in L
      PROVE  /\ NextTxOut(list, steps[k]) \in L
             /\ Len(NextTxOut(list, steps[k]).item) = Len(list.item) + 1
  <2>1. list.item \in Seq(S) /\ list.rest \in Buffers
    BY DEF ListsOf
  <2>2. ParseTxOut(list.rest).item \in S /\ ParseTxOut(list.rest).rest \in Buffers
    BY <2>1
  <2>3. /\ Append(list.item, ParseTxOut(list.rest).item) \in Seq(S)
        /\ Len(Append(list.item, ParseTxOut(list.rest).item)) = Len(list.item) + 1
    BY <2>1, <2>2
  <2>4. NextTxOut(list, steps[k]) = [item |-> Append(list.item, ParseTxOut(list.rest).item),
                                rest |-> ParseTxOut(list.rest).rest]
    BY DEF NextTxOut
  <2>. HIDE DEF steps
  <2>. QED
    BY <2>2, <2>3, <2>4 DEF ListsOf
<1>2. base \in L /\ base.item = << >>
  BY DEF Nothing, ListsOf
<1>3. DOMAIN steps = 1 .. n
  BY DEF Steps
<1>. HIDE DEF L, base, steps
<1>4. /\ TxOuts!FoldLeft(NextTxOut, base, steps) \in L
      /\ Len(TxOuts!FoldLeft(NextTxOut, base, steps).item) = n
  BY <1>1, <1>2, <1>3, TxOuts!FoldLeftLists, ZenonT(60)
<1>5. ParseItems(ParseTxOut, p, n) \in ListsOf(S) /\ Len(ParseItems(ParseTxOut, p, n).item) = n
  BY <1>4, TxOutsFold DEF base, steps, L
<1>. QED
  BY <1>5 DEF ListsOf

LEMMA ScriptsFold ==
    \A p, n : ParseItems(ParseScript, p, n) = Scripts!FoldLeft(NextScript, Nothing(p), Steps(n))
  BY DEF ParseItems, Nothing, Steps, NextScript, FoldLeft, MapThenFoldSet, Max,
         Scripts!FoldLeft, Scripts!MapThenFoldSet, Scripts!Max

BackScripts(items, pieces, n) ==
    \A k \in 1 .. n : \A r \in Buffers :
        ParseScript(pieces[k] \o r) = [item |-> items[k], rest |-> r]

LEMMA ScriptsReadBack ==
    ASSUME NEW n \in Nat, NEW S, NEW items \in Seq(S), Len(items) = n,
           NEW pieces \in [1 .. n -> Buffers], NEW q \in Buffers,
           BackScripts(items, pieces, n)
    PROVE  /\ ParseItems(ParseScript, FlattenSeq(pieces) \o q, n).item = items
           /\ ParseItems(ParseScript, FlattenSeq(pieces) \o q, n).rest = q
<1>1. PICK rests : /\ Tails(rests, pieces, n)
                   /\ rests[0] = FlattenSeq(pieces) \o q /\ rests[n] = q
  BY FlattenTails, SMTT(60)
<1>. DEFINE L == ListsOf(S)
            base == Nothing(rests[0])
            steps == Steps(n)
<1>2. ASSUME NEW k \in 1 .. n, NEW list \in L, list.item \in Seq(S), list.rest = rests[k - 1]
      PROVE  /\ NextScript(list, steps[k]) \in L
             /\ NextScript(list, steps[k]).item = Append(list.item, items[k])
             /\ NextScript(list, steps[k]).rest = rests[k]
  <2>1. rests[k - 1] = pieces[k] \o rests[k] /\ rests[k] \in Buffers /\ items[k] \in S
    BY <1>1 DEF Tails
  <2>2. ParseScript(rests[k - 1]) = [item |-> items[k], rest |-> rests[k]]
    BY <2>1 DEF BackScripts
  <2>3. ParseScript(list.rest).item = items[k] /\ ParseScript(list.rest).rest = rests[k]
    BY <1>2, <2>2
  <2>4. NextScript(list, steps[k]) = [item |-> Append(list.item, ParseScript(list.rest).item),
                                rest |-> ParseScript(list.rest).rest]
    BY DEF NextScript
  <2>5. Append(list.item, items[k]) \in Seq(S)
    BY <1>2, <2>1
  <2>. HIDE DEF steps
  <2>6. NextScript(list, steps[k]) = [item |-> Append(list.item, items[k]), rest |-> rests[k]]
    BY <2>3, <2>4
  <2>. QED
    BY <2>1, <2>5, <2>6 DEF ListsOf
<1>6. Scripts!Reads(L, S, steps, items, rests, n)
  <2>. HIDE DEF L, steps
  <2>. QED
    BY <1>2 DEF Scripts!Reads
<1>3. base \in L /\ base.item = << >> /\ base.rest = rests[0]
  <2>1. rests[0] \in Buffers /\ << >> \in Seq(S)
    <3>1. 0 \in 0 .. n
      OBVIOUS
    <3>2. rests[0] \in Buffers
      BY <1>1, <3>1 DEF Tails
    <3>. QED
      BY <3>2
  <2>. DEFINE r == rests[0]
  <2>. HIDE DEF r
  <2>2. [item |-> << >>, rest |-> r] \in ListsOf(S)
    BY <2>1 DEF ListsOf, r
  <2>. QED
    BY <2>2 DEF Nothing, r
<1>4. DOMAIN steps = 1 .. n
  BY DEF Steps
<1>. HIDE DEF L, base, steps
<1>5. /\ Scripts!FoldLeft(NextScript, base, steps).item = items
      /\ Scripts!FoldLeft(NextScript, base, steps).rest = rests[n]
  BY <1>3, <1>4, <1>6, Scripts!FoldLeftReads
<1>. QED
  BY <1>1, <1>5, ScriptsFold DEF base, steps

LEMMA ScriptsType ==
    ASSUME NEW n \in Nat, NEW S, NEW p \in Buffers,
           \A r \in Buffers : ParseScript(r).item \in S /\ ParseScript(r).rest \in Buffers
    PROVE  /\ ParseItems(ParseScript, p, n).item \in Seq(S)
           /\ Len(ParseItems(ParseScript, p, n).item) = n
           /\ ParseItems(ParseScript, p, n).rest \in Buffers
<1>. DEFINE L == ListsOf(S)
            base == Nothing(p)
            steps == Steps(n)
<1>1. ASSUME NEW k \in 1 .. n, NEW list \in L
      PROVE  /\ NextScript(list, steps[k]) \in L
             /\ Len(NextScript(list, steps[k]).item) = Len(list.item) + 1
  <2>1. list.item \in Seq(S) /\ list.rest \in Buffers
    BY DEF ListsOf
  <2>2. ParseScript(list.rest).item \in S /\ ParseScript(list.rest).rest \in Buffers
    BY <2>1
  <2>3. /\ Append(list.item, ParseScript(list.rest).item) \in Seq(S)
        /\ Len(Append(list.item, ParseScript(list.rest).item)) = Len(list.item) + 1
    BY <2>1, <2>2
  <2>4. NextScript(list, steps[k]) = [item |-> Append(list.item, ParseScript(list.rest).item),
                                rest |-> ParseScript(list.rest).rest]
    BY DEF NextScript
  <2>. HIDE DEF steps
  <2>. QED
    BY <2>2, <2>3, <2>4 DEF ListsOf
<1>2. base \in L /\ base.item = << >>
  BY DEF Nothing, ListsOf
<1>3. DOMAIN steps = 1 .. n
  BY DEF Steps
<1>. HIDE DEF L, base, steps
<1>4. /\ Scripts!FoldLeft(NextScript, base, steps) \in L
      /\ Len(Scripts!FoldLeft(NextScript, base, steps).item) = n
  BY <1>1, <1>2, <1>3, Scripts!FoldLeftLists, ZenonT(60)
<1>5. ParseItems(ParseScript, p, n) \in ListsOf(S) /\ Len(ParseItems(ParseScript, p, n).item) = n
  BY <1>4, ScriptsFold DEF base, steps, L
<1>. QED
  BY <1>5 DEF ListsOf

LEMMA TxsFold ==
    \A p, n : ParseItems(ParseTx, p, n) = Txs!FoldLeft(NextTx, Nothing(p), Steps(n))
  BY DEF ParseItems, Nothing, Steps, NextTx, FoldLeft, MapThenFoldSet, Max,
         Txs!FoldLeft, Txs!MapThenFoldSet, Txs!Max

BackTxs(items, pieces, n) ==
    \A k \in 1 .. n : \A r \in Buffers :
        ParseTx(pieces[k] \o r) = [item |-> items[k], rest |-> r]

LEMMA TxsReadBack ==
    ASSUME NEW n \in Nat, NEW S, NEW items \in Seq(S), Len(items) = n,
           NEW pieces \in [1 .. n -> Buffers], NEW q \in Buffers,
           BackTxs(items, pieces, n)
    PROVE  /\ ParseItems(ParseTx, FlattenSeq(pieces) \o q, n).item = items
           /\ ParseItems(ParseTx, FlattenSeq(pieces) \o q, n).rest = q
<1>1. PICK rests : /\ Tails(rests, pieces, n)
                   /\ rests[0] = FlattenSeq(pieces) \o q /\ rests[n] = q
  BY FlattenTails, SMTT(60)
<1>. DEFINE L == ListsOf(S)
            base == Nothing(rests[0])
            steps == Steps(n)
<1>2. ASSUME NEW k \in 1 .. n, NEW list \in L, list.item \in Seq(S), list.rest = rests[k - 1]
      PROVE  /\ NextTx(list, steps[k]) \in L
             /\ NextTx(list, steps[k]).item = Append(list.item, items[k])
             /\ NextTx(list, steps[k]).rest = rests[k]
  <2>1. rests[k - 1] = pieces[k] \o rests[k] /\ rests[k] \in Buffers /\ items[k] \in S
    BY <1>1 DEF Tails
  <2>2. ParseTx(rests[k - 1]) = [item |-> items[k], rest |-> rests[k]]
    BY <2>1 DEF BackTxs
  <2>3. ParseTx(list.rest).item = items[k] /\ ParseTx(list.rest).rest = rests[k]
    BY <1>2, <2>2
  <2>4. NextTx(list, steps[k]) = [item |-> Append(list.item, ParseTx(list.rest).item),
                                rest |-> ParseTx(list.rest).rest]
    BY DEF NextTx
  <2>5. Append(list.item, items[k]) \in Seq(S)
    BY <1>2, <2>1
  <2>. HIDE DEF steps
  <2>6. NextTx(list, steps[k]) = [item |-> Append(list.item, items[k]), rest |-> rests[k]]
    BY <2>3, <2>4
  <2>. QED
    BY <2>1, <2>5, <2>6 DEF ListsOf
<1>6. Txs!Reads(L, S, steps, items, rests, n)
  <2>. HIDE DEF L, steps
  <2>. QED
    BY <1>2 DEF Txs!Reads
<1>3. base \in L /\ base.item = << >> /\ base.rest = rests[0]
  <2>1. rests[0] \in Buffers /\ << >> \in Seq(S)
    <3>1. 0 \in 0 .. n
      OBVIOUS
    <3>2. rests[0] \in Buffers
      BY <1>1, <3>1 DEF Tails
    <3>. QED
      BY <3>2
  <2>. DEFINE r == rests[0]
  <2>. HIDE DEF r
  <2>2. [item |-> << >>, rest |-> r] \in ListsOf(S)
    BY <2>1 DEF ListsOf, r
  <2>. QED
    BY <2>2 DEF Nothing, r
<1>4. DOMAIN steps = 1 .. n
  BY DEF Steps
<1>. HIDE DEF L, base, steps
<1>5. /\ Txs!FoldLeft(NextTx, base, steps).item = items
      /\ Txs!FoldLeft(NextTx, base, steps).rest = rests[n]
  BY <1>3, <1>4, <1>6, Txs!FoldLeftReads
<1>. QED
  BY <1>1, <1>5, TxsFold DEF base, steps

LEMMA TxsType ==
    ASSUME NEW n \in Nat, NEW S, NEW p \in Buffers,
           \A r \in Buffers : ParseTx(r).item \in S /\ ParseTx(r).rest \in Buffers
    PROVE  /\ ParseItems(ParseTx, p, n).item \in Seq(S)
           /\ Len(ParseItems(ParseTx, p, n).item) = n
           /\ ParseItems(ParseTx, p, n).rest \in Buffers
<1>. DEFINE L == ListsOf(S)
            base == Nothing(p)
            steps == Steps(n)
<1>1. ASSUME NEW k \in 1 .. n, NEW list \in L
      PROVE  /\ NextTx(list, steps[k]) \in L
             /\ Len(NextTx(list, steps[k]).item) = Len(list.item) + 1
  <2>1. list.item \in Seq(S) /\ list.rest \in Buffers
    BY DEF ListsOf
  <2>2. ParseTx(list.rest).item \in S /\ ParseTx(list.rest).rest \in Buffers
    BY <2>1
  <2>3. /\ Append(list.item, ParseTx(list.rest).item) \in Seq(S)
        /\ Len(Append(list.item, ParseTx(list.rest).item)) = Len(list.item) + 1
    BY <2>1, <2>2
  <2>4. NextTx(list, steps[k]) = [item |-> Append(list.item, ParseTx(list.rest).item),
                                rest |-> ParseTx(list.rest).rest]
    BY DEF NextTx
  <2>. HIDE DEF steps
  <2>. QED
    BY <2>2, <2>3, <2>4 DEF ListsOf
<1>2. base \in L /\ base.item = << >>
  BY DEF Nothing, ListsOf
<1>3. DOMAIN steps = 1 .. n
  BY DEF Steps
<1>. HIDE DEF L, base, steps
<1>4. /\ Txs!FoldLeft(NextTx, base, steps) \in L
      /\ Len(Txs!FoldLeft(NextTx, base, steps).item) = n
  BY <1>1, <1>2, <1>3, Txs!FoldLeftLists, ZenonT(60)
<1>5. ParseItems(ParseTx, p, n) \in ListsOf(S) /\ Len(ParseItems(ParseTx, p, n).item) = n
  BY <1>4, TxsFold DEF base, steps, L
<1>. QED
  BY <1>5 DEF ListsOf

(* The count of a list, and its items.                                     *)
LEMMA ListBuffer ==
    ASSUME NEW n \in Nat, NEW pieces \in [1 .. n -> Buffers],
           \A k \in 1 .. n : Len(pieces[k]) > 0
    PROVE  /\ SerializeToVarint(n) \o FlattenSeq(pieces) \in Buffers
           /\ Len(SerializeToVarint(n) \o FlattenSeq(pieces)) \in Nat \ {0}
           /\ n <= Len(SerializeToVarint(n) \o FlattenSeq(pieces))
           /\ \A k \in 1 .. n :
                 Len(pieces[k]) <= Len(SerializeToVarint(n) \o FlattenSeq(pieces))
<1>. DEFINE v == SerializeToVarint(n)
            f == FlattenSeq(pieces)
<1>1. v \in Buffers /\ Len(v) \in Nat \ {0}
  BY VarintBuffer
<1>2. /\ f \in Buffers /\ Len(f) \in Nat
      /\ n <= Len(f)
      /\ \A k \in 1 .. n : Len(pieces[k]) <= Len(f)
  BY FlattenType, ConcatType
<1>3. \A k \in 1 .. n : Len(pieces[k]) \in Nat
  BY ConcatType
<1>. HIDE DEF v, f
<1>4. v \o f \in Buffers /\ Len(v \o f) = Len(v) + Len(f)
  BY <1>1, <1>2, ConcatType
<1>. QED
  BY <1>1, <1>2, <1>3, <1>4 DEF v, f

LEMMA TxInListReadBack ==
    ASSUME NEW n \in Nat, n < Place[4], NEW S, NEW items \in Seq(S), Len(items) = n,
           NEW pieces \in [1 .. n -> Buffers], NEW q \in Buffers,
           BackTxIns(items, pieces, n)
    PROVE  /\ ParseList(ParseTxIn, (SerializeToVarint(n) \o FlattenSeq(pieces)) \o q).item = items
           /\ ParseList(ParseTxIn, (SerializeToVarint(n) \o FlattenSeq(pieces)) \o q).rest = q
<1>. DEFINE v == SerializeToVarint(n)
            f == FlattenSeq(pieces)
            p == (v \o f) \o q
<1>1. v \in Buffers /\ f \in Buffers /\ f \o q \in Buffers
  BY VarintBuffer, FlattenType, ConcatType
<1>2. p = v \o (f \o q)
  <2>. HIDE DEF v, f
  <2>. QED
    BY <1>1, ConcatMoves
<1>3. ParseVarint(v \o (f \o q)) = [item |-> n, rest |-> f \o q]
  BY <1>1, VarintReadBack
<1>4. /\ ParseItems(ParseTxIn, f \o q, n).item = items
      /\ ParseItems(ParseTxIn, f \o q, n).rest = q
  <2>. HIDE DEF v, f, p
  <2>1. /\ ParseItems(ParseTxIn, FlattenSeq(pieces) \o q, n).item = items
        /\ ParseItems(ParseTxIn, FlattenSeq(pieces) \o q, n).rest = q
    BY TxInsReadBack
  <2>. QED
    BY <2>1 DEF f
<1>. DEFINE count == ParseVarint(p)
<1>5. ParseList(ParseTxIn, p) = ParseItems(ParseTxIn, count.rest, count.item)
  BY DEF ParseList
<1>. HIDE DEF v, f, p
<1>6. count = [item |-> n, rest |-> f \o q]
  BY <1>2, <1>3
<1>7. count.item = n /\ count.rest = f \o q
  BY <1>6
<1>. HIDE DEF count
<1>8. ParseList(ParseTxIn, p) = ParseItems(ParseTxIn, f \o q, n)
  BY <1>5, <1>7
<1>. QED
  BY <1>4, <1>8 DEF p, v, f

LEMMA TxInListType ==
    ASSUME NEW S, NEW p \in Buffers,
           \A r \in Buffers : ParseTxIn(r).item \in S /\ ParseTxIn(r).rest \in Buffers
    PROVE  /\ ParseList(ParseTxIn, p).item \in Seq(S)
           /\ ParseList(ParseTxIn, p).rest \in Buffers
<1>. DEFINE count == ParseVarint(p)
<1>1. count.item \in Nat /\ count.rest \in Buffers
  BY ParseVarintType
<1>2. ParseList(ParseTxIn, p) = ParseItems(ParseTxIn, count.rest, count.item)
  BY DEF ParseList
<1>. HIDE DEF count
<1>3. /\ ParseItems(ParseTxIn, count.rest, count.item).item \in Seq(S)
      /\ ParseItems(ParseTxIn, count.rest, count.item).rest \in Buffers
  BY <1>1, TxInsType
<1>. QED
  BY <1>2, <1>3

LEMMA TxOutListReadBack ==
    ASSUME NEW n \in Nat, n < Place[4], NEW S, NEW items \in Seq(S), Len(items) = n,
           NEW pieces \in [1 .. n -> Buffers], NEW q \in Buffers,
           BackTxOuts(items, pieces, n)
    PROVE  /\ ParseList(ParseTxOut, (SerializeToVarint(n) \o FlattenSeq(pieces)) \o q).item = items
           /\ ParseList(ParseTxOut, (SerializeToVarint(n) \o FlattenSeq(pieces)) \o q).rest = q
<1>. DEFINE v == SerializeToVarint(n)
            f == FlattenSeq(pieces)
            p == (v \o f) \o q
<1>1. v \in Buffers /\ f \in Buffers /\ f \o q \in Buffers
  BY VarintBuffer, FlattenType, ConcatType
<1>2. p = v \o (f \o q)
  <2>. HIDE DEF v, f
  <2>. QED
    BY <1>1, ConcatMoves
<1>3. ParseVarint(v \o (f \o q)) = [item |-> n, rest |-> f \o q]
  BY <1>1, VarintReadBack
<1>4. /\ ParseItems(ParseTxOut, f \o q, n).item = items
      /\ ParseItems(ParseTxOut, f \o q, n).rest = q
  <2>. HIDE DEF v, f, p
  <2>1. /\ ParseItems(ParseTxOut, FlattenSeq(pieces) \o q, n).item = items
        /\ ParseItems(ParseTxOut, FlattenSeq(pieces) \o q, n).rest = q
    BY TxOutsReadBack
  <2>. QED
    BY <2>1 DEF f
<1>. DEFINE count == ParseVarint(p)
<1>5. ParseList(ParseTxOut, p) = ParseItems(ParseTxOut, count.rest, count.item)
  BY DEF ParseList
<1>. HIDE DEF v, f, p
<1>6. count = [item |-> n, rest |-> f \o q]
  BY <1>2, <1>3
<1>7. count.item = n /\ count.rest = f \o q
  BY <1>6
<1>. HIDE DEF count
<1>8. ParseList(ParseTxOut, p) = ParseItems(ParseTxOut, f \o q, n)
  BY <1>5, <1>7
<1>. QED
  BY <1>4, <1>8 DEF p, v, f

LEMMA TxOutListType ==
    ASSUME NEW S, NEW p \in Buffers,
           \A r \in Buffers : ParseTxOut(r).item \in S /\ ParseTxOut(r).rest \in Buffers
    PROVE  /\ ParseList(ParseTxOut, p).item \in Seq(S)
           /\ ParseList(ParseTxOut, p).rest \in Buffers
<1>. DEFINE count == ParseVarint(p)
<1>1. count.item \in Nat /\ count.rest \in Buffers
  BY ParseVarintType
<1>2. ParseList(ParseTxOut, p) = ParseItems(ParseTxOut, count.rest, count.item)
  BY DEF ParseList
<1>. HIDE DEF count
<1>3. /\ ParseItems(ParseTxOut, count.rest, count.item).item \in Seq(S)
      /\ ParseItems(ParseTxOut, count.rest, count.item).rest \in Buffers
  BY <1>1, TxOutsType
<1>. QED
  BY <1>2, <1>3

LEMMA TxListReadBack ==
    ASSUME NEW n \in Nat, n < Place[4], NEW S, NEW items \in Seq(S), Len(items) = n,
           NEW pieces \in [1 .. n -> Buffers], NEW q \in Buffers,
           BackTxs(items, pieces, n)
    PROVE  /\ ParseList(ParseTx, (SerializeToVarint(n) \o FlattenSeq(pieces)) \o q).item = items
           /\ ParseList(ParseTx, (SerializeToVarint(n) \o FlattenSeq(pieces)) \o q).rest = q
<1>. DEFINE v == SerializeToVarint(n)
            f == FlattenSeq(pieces)
            p == (v \o f) \o q
<1>1. v \in Buffers /\ f \in Buffers /\ f \o q \in Buffers
  BY VarintBuffer, FlattenType, ConcatType
<1>2. p = v \o (f \o q)
  <2>. HIDE DEF v, f
  <2>. QED
    BY <1>1, ConcatMoves
<1>3. ParseVarint(v \o (f \o q)) = [item |-> n, rest |-> f \o q]
  BY <1>1, VarintReadBack
<1>4. /\ ParseItems(ParseTx, f \o q, n).item = items
      /\ ParseItems(ParseTx, f \o q, n).rest = q
  <2>. HIDE DEF v, f, p
  <2>1. /\ ParseItems(ParseTx, FlattenSeq(pieces) \o q, n).item = items
        /\ ParseItems(ParseTx, FlattenSeq(pieces) \o q, n).rest = q
    BY TxsReadBack
  <2>. QED
    BY <2>1 DEF f
<1>. DEFINE count == ParseVarint(p)
<1>5. ParseList(ParseTx, p) = ParseItems(ParseTx, count.rest, count.item)
  BY DEF ParseList
<1>. HIDE DEF v, f, p
<1>6. count = [item |-> n, rest |-> f \o q]
  BY <1>2, <1>3
<1>7. count.item = n /\ count.rest = f \o q
  BY <1>6
<1>. HIDE DEF count
<1>8. ParseList(ParseTx, p) = ParseItems(ParseTx, f \o q, n)
  BY <1>5, <1>7
<1>. QED
  BY <1>4, <1>8 DEF p, v, f

LEMMA TxListType ==
    ASSUME NEW S, NEW p \in Buffers,
           \A r \in Buffers : ParseTx(r).item \in S /\ ParseTx(r).rest \in Buffers
    PROVE  /\ ParseList(ParseTx, p).item \in Seq(S)
           /\ ParseList(ParseTx, p).rest \in Buffers
<1>. DEFINE count == ParseVarint(p)
<1>1. count.item \in Nat /\ count.rest \in Buffers
  BY ParseVarintType
<1>2. ParseList(ParseTx, p) = ParseItems(ParseTx, count.rest, count.item)
  BY DEF ParseList
<1>. HIDE DEF count
<1>3. /\ ParseItems(ParseTx, count.rest, count.item).item \in Seq(S)
      /\ ParseItems(ParseTx, count.rest, count.item).rest \in Buffers
  BY <1>1, TxsType
<1>. QED
  BY <1>2, <1>3

LEMMA TxInList ==
    ASSUME NEW items \in Seq(InType)
    PROVE  /\ SerializeList(SerializeTxIn, items) \in Buffers
           /\ Len(SerializeList(SerializeTxIn, items)) \in Nat \ {0}
           /\ \A q \in Buffers :
                Len(SerializeList(SerializeTxIn, items)) < Place[4] =>
                    /\ ParseList(ParseTxIn, SerializeList(SerializeTxIn, items) \o q).item = items
                    /\ ParseList(ParseTxIn, SerializeList(SerializeTxIn, items) \o q).rest = q
<1>. DEFINE n == Len(items)
            pieces == [k \in DOMAIN items |-> SerializeTxIn(items[k])]
            list == SerializeToVarint(n) \o FlattenSeq(pieces)
<1>1. /\ n \in Nat /\ DOMAIN items = 1 .. n
      /\ \A k \in 1 .. n : items[k] \in InType
  BY LenProperties
<1>2. SerializeList(SerializeTxIn, items) = list
  BY DEF SerializeList
<1>3. ASSUME NEW k \in 1 .. n
      PROVE  /\ pieces[k] = SerializeTxIn(items[k])
             /\ pieces[k] \in Buffers
             /\ Len(pieces[k]) \in Nat \ {0}
             /\ Len(items[k].signature_script) <= Len(pieces[k])
             /\ Len(items[k].signature_script) \in Nat
  <2>1. items[k] \in InType /\ k \in DOMAIN items
    BY <1>1
  <2>2. pieces[k] = SerializeTxIn(items[k])
    BY <2>1
  <2>3. items[k].signature_script \in Buffers
    BY <2>1 DEF InType
  <2>. QED
    BY <2>1, <2>2, <2>3, TxInBuffer, ConcatType
<1>4. pieces \in [1 .. n -> Buffers]
  <2>1. DOMAIN pieces = 1 .. n /\ pieces = [k \in 1 .. n |-> pieces[k]]
    BY <1>1
  <2>. HIDE DEF pieces, n
  <2>. QED
    BY <1>3, <2>1
<1>. HIDE DEF pieces
<1>5. /\ list \in Buffers /\ Len(list) \in Nat \ {0} /\ n <= Len(list)
      /\ \A k \in 1 .. n : Len(pieces[k]) <= Len(list)
  <2>1. \A k \in 1 .. n : Len(pieces[k]) > 0
    BY <1>3
  <2>. HIDE DEF n
  <2>. QED
    BY <1>1, <1>4, <2>1, ListBuffer
<1>6. ASSUME NEW q \in Buffers, Len(list) < Place[4]
      PROVE  ParseList(ParseTxIn, list \o q).item = items /\ ParseList(ParseTxIn, list \o q).rest = q
  <2>1. Place[4] \in Nat /\ n < Place[4]
    <3>1. Place[4] \in Nat
      BY PrefixesApart
    <3>. HIDE DEF list, n
    <3>. QED
      BY <1>1, <1>5, <1>6, <3>1
  <2>2. ASSUME NEW k \in 1 .. n, NEW r \in Buffers
        PROVE  ParseTxIn(pieces[k] \o r) = [item |-> items[k], rest |-> r]
    <3>1. Len(items[k].signature_script) < Place[4]
      <4>. HIDE DEF list, n
      <4>. QED
        BY <1>3, <1>5, <1>6, <2>1
    <3>2. items[k] \in InType /\ pieces[k] = SerializeTxIn(items[k])
      BY <1>1, <1>3
    <3>. QED
      BY <3>1, <3>2, TxInReadBack
  <2>3. BackTxIns(items, pieces, n)
    BY <2>2 DEF BackTxIns
  <2>4. Len(items) = n
    OBVIOUS
  <2>. HIDE DEF n
  <2>. QED
    BY <1>1, <1>4, <2>1, <2>3, <2>4, TxInListReadBack DEF list
<1>. HIDE DEF list, n
<1>. QED
  BY <1>2, <1>5, <1>6

LEMMA TxOutList ==
    ASSUME NEW items \in Seq(OutType)
    PROVE  /\ SerializeList(SerializeTxOut, items) \in Buffers
           /\ Len(SerializeList(SerializeTxOut, items)) \in Nat \ {0}
           /\ \A q \in Buffers :
                Len(SerializeList(SerializeTxOut, items)) < Place[4] =>
                    /\ ParseList(ParseTxOut, SerializeList(SerializeTxOut, items) \o q).item = items
                    /\ ParseList(ParseTxOut, SerializeList(SerializeTxOut, items) \o q).rest = q
<1>. DEFINE n == Len(items)
            pieces == [k \in DOMAIN items |-> SerializeTxOut(items[k])]
            list == SerializeToVarint(n) \o FlattenSeq(pieces)
<1>1. /\ n \in Nat /\ DOMAIN items = 1 .. n
      /\ \A k \in 1 .. n : items[k] \in OutType
  BY LenProperties
<1>2. SerializeList(SerializeTxOut, items) = list
  BY DEF SerializeList
<1>3. ASSUME NEW k \in 1 .. n
      PROVE  /\ pieces[k] = SerializeTxOut(items[k])
             /\ pieces[k] \in Buffers
             /\ Len(pieces[k]) \in Nat \ {0}
             /\ Len(items[k].public_key_script) <= Len(pieces[k])
             /\ Len(items[k].public_key_script) \in Nat
  <2>1. items[k] \in OutType /\ k \in DOMAIN items
    BY <1>1
  <2>2. pieces[k] = SerializeTxOut(items[k])
    BY <2>1
  <2>3. items[k].public_key_script \in Buffers
    BY <2>1 DEF OutType
  <2>. QED
    BY <2>1, <2>2, <2>3, TxOutBuffer, ConcatType
<1>4. pieces \in [1 .. n -> Buffers]
  <2>1. DOMAIN pieces = 1 .. n /\ pieces = [k \in 1 .. n |-> pieces[k]]
    BY <1>1
  <2>. HIDE DEF pieces, n
  <2>. QED
    BY <1>3, <2>1
<1>. HIDE DEF pieces
<1>5. /\ list \in Buffers /\ Len(list) \in Nat \ {0} /\ n <= Len(list)
      /\ \A k \in 1 .. n : Len(pieces[k]) <= Len(list)
  <2>1. \A k \in 1 .. n : Len(pieces[k]) > 0
    BY <1>3
  <2>. HIDE DEF n
  <2>. QED
    BY <1>1, <1>4, <2>1, ListBuffer
<1>6. ASSUME NEW q \in Buffers, Len(list) < Place[4]
      PROVE  ParseList(ParseTxOut, list \o q).item = items /\ ParseList(ParseTxOut, list \o q).rest = q
  <2>1. Place[4] \in Nat /\ n < Place[4]
    <3>1. Place[4] \in Nat
      BY PrefixesApart
    <3>. HIDE DEF list, n
    <3>. QED
      BY <1>1, <1>5, <1>6, <3>1
  <2>2. ASSUME NEW k \in 1 .. n, NEW r \in Buffers
        PROVE  ParseTxOut(pieces[k] \o r) = [item |-> items[k], rest |-> r]
    <3>1. Len(items[k].public_key_script) < Place[4]
      <4>. HIDE DEF list, n
      <4>. QED
        BY <1>3, <1>5, <1>6, <2>1
    <3>2. items[k] \in OutType /\ pieces[k] = SerializeTxOut(items[k])
      BY <1>1, <1>3
    <3>. QED
      BY <3>1, <3>2, TxOutReadBack
  <2>3. BackTxOuts(items, pieces, n)
    BY <2>2 DEF BackTxOuts
  <2>4. Len(items) = n
    OBVIOUS
  <2>. HIDE DEF n
  <2>. QED
    BY <1>1, <1>4, <2>1, <2>3, <2>4, TxOutListReadBack DEF list
<1>. HIDE DEF list, n
<1>. QED
  BY <1>2, <1>5, <1>6

-----------------------------------------------------------------------------
(* Transactions.                                                           *)

(* What is read: no value is negative.                                     *)
ReadType ==
    [version : Nat, flag : {0, 1}, txInputs : Seq(InType), txOutputs : Seq(OutType),
     txWitnesses : Seq(Buffers), lockTime : Nat]

Read == {tx \in ReadType : WitnessesFit(tx)}

Ins(tx)       == SerializeList(SerializeTxIn, tx.txInputs)
Outs(tx)      == SerializeList(SerializeTxOut, tx.txOutputs)
Marker(tx)    == IF HasWitness(tx) THEN <<0, 1>> ELSE << >>
Witnesses(tx) ==
    IF HasWitness(tx)
    THEN FlattenSeq([k \in DOMAIN tx.txInputs |-> SerializeScript(tx.txWitnesses[k])])
    ELSE << >>

LEMMA EmptyBuffer ==
    /\ << >> \in Buffers /\ Len(<< >>) = 0
    /\ \A q \in Buffers : << >> \o q = q
  BY ConcatEmptySeq DEF Buffers

LEMMA ReadHas ==
    ASSUME NEW tx \in Read
    PROVE  /\ tx.version \in Nat /\ tx.lockTime \in Nat /\ tx.flag \in {0, 1}
           /\ tx.txInputs \in Seq(InType) /\ tx.txOutputs \in Seq(OutType)
           /\ tx.txWitnesses \in Seq(Buffers) /\ WitnessesFit(tx)
           /\ tx = [version |-> tx.version, flag |-> tx.flag, txInputs |-> tx.txInputs,
                    txOutputs |-> tx.txOutputs, txWitnesses |-> tx.txWitnesses,
                    lockTime |-> tx.lockTime]
  BY DEF Read, ReadType

(* The witnesses: one for each input, or none.                             *)
LEMMA WitnessesAre ==
    ASSUME NEW tx \in Read
    PROVE  /\ Witnesses(tx) \in Buffers /\ Len(Witnesses(tx)) \in Nat
           /\ Len(Witnesses(tx)) < Place[4] =>
                \A q \in Buffers :
                  LET n == IF HasWitness(tx) THEN Len(tx.txInputs) ELSE 0
                  IN  /\ ParseItems(ParseScript, Witnesses(tx) \o q, n).item = tx.txWitnesses
                      /\ ParseItems(ParseScript, Witnesses(tx) \o q, n).rest = q
<1>. DEFINE n == IF HasWitness(tx) THEN Len(tx.txInputs) ELSE 0
            items == tx.txWitnesses
            pieces == [k \in 1 .. n |-> SerializeScript(items[k])]
            list == FlattenSeq(pieces)
<1>1. /\ n \in Nat /\ items \in Seq(Buffers) /\ Len(items) = n
      /\ \A k \in 1 .. n : items[k] \in Buffers
      /\ DOMAIN tx.txInputs = 1 .. Len(tx.txInputs)
  <2>1. tx.txInputs \in Seq(InType) /\ items \in Seq(Buffers) /\ Len(items) = n
    BY ReadHas DEF WitnessesFit
  <2>. QED
    BY <2>1, LenProperties
<1>2. Witnesses(tx) = list
  <2>1. CASE HasWitness(tx)
    BY <1>1, <2>1 DEF Witnesses
  <2>2. CASE ~ HasWitness(tx)
    <3>1. n = 0
      BY <2>2
    <3>2. pieces = << >> /\ \A k \in 1 .. 0 : pieces[k] \in Buffers
      BY <3>1
    <3>3. FlattenSeq(<< >>) = << >>
      BY DEF FlattenSeq
    <3>. QED
      BY <2>2, <3>2, <3>3 DEF Witnesses
  <2>. QED
    BY <2>1, <2>2
<1>3. \A k \in 1 .. n : /\ pieces[k] = SerializeScript(items[k])
                        /\ pieces[k] \in Buffers /\ Len(pieces[k]) \in Nat \ {0}
                        /\ Len(items[k]) <= Len(pieces[k]) /\ Len(items[k]) \in Nat
  BY <1>1, ScriptBuffer, ConcatType
<1>4. pieces \in [1 .. n -> Buffers]
  BY <1>3
<1>. HIDE DEF pieces
<1>5. list \in Buffers /\ Len(list) \in Nat /\ \A k \in 1 .. n : Len(pieces[k]) <= Len(list)
  <2>. HIDE DEF n
  <2>. QED
    BY <1>1, <1>4, FlattenType, ConcatType
<1>6. ASSUME NEW q \in Buffers, Len(list) < Place[4]
      PROVE  /\ ParseItems(ParseScript, list \o q, n).item = items
             /\ ParseItems(ParseScript, list \o q, n).rest = q
  <2>1. Place[4] \in Nat
    BY PrefixesApart
  <2>2. ASSUME NEW k \in 1 .. n, NEW r \in Buffers
        PROVE  ParseScript(pieces[k] \o r) = [item |-> items[k], rest |-> r]
    <3>. HIDE DEF list, n
    <3>1. Len(items[k]) < Place[4]
      BY <1>3, <1>5, <1>6, <2>1
    <3>. QED
      BY <1>1, <1>3, <3>1, ScriptReadBack
  <2>3. BackScripts(items, pieces, n)
    BY <2>2 DEF BackScripts
  <2>. HIDE DEF n, items
  <2>. QED
    BY <1>1, <1>4, <2>3, ScriptsReadBack DEF list
<1>. HIDE DEF list
<1>. QED
  BY <1>2, <1>5, <1>6

(* The parts of a transaction, in the order they are written.              *)
LEMMA TxParts ==
    ASSUME NEW tx \in Read
    PROVE  /\ <<tx.version>> \in Buffers /\ Len(<<tx.version>>) = 1
           /\ Marker(tx) \in Buffers /\ Len(Marker(tx)) \in Nat
           /\ Ins(tx) \in Buffers /\ Len(Ins(tx)) \in Nat \ {0}
           /\ Outs(tx) \in Buffers /\ Len(Outs(tx)) \in Nat \ {0}
           /\ Witnesses(tx) \in Buffers /\ Len(Witnesses(tx)) \in Nat
           /\ <<tx.lockTime>> \in Buffers /\ Len(<<tx.lockTime>>) = 1
<1>1. /\ tx.version \in Nat /\ tx.lockTime \in Nat
      /\ tx.txInputs \in Seq(InType) /\ tx.txOutputs \in Seq(OutType)
  BY ReadHas
<1>2. Ins(tx) \in Buffers /\ Len(Ins(tx)) \in Nat \ {0}
  BY <1>1, TxInList DEF Ins
<1>3. Outs(tx) \in Buffers /\ Len(Outs(tx)) \in Nat \ {0}
  BY <1>1, TxOutList DEF Outs
<1>4. <<0, 1>> \in Buffers /\ Len(<<0, 1>>) = 2
  BY DEF Buffers
<1>5. Marker(tx) \in Buffers /\ Len(Marker(tx)) \in Nat
  BY <1>4, EmptyBuffer DEF Marker
<1>. QED
  BY <1>1, <1>2, <1>3, <1>5, WitnessesAre, CellBuffer

LEMMA SerializeTxIs ==
    \A tx : SerializeTx(tx) =
        ((((<<tx.version>> \o Marker(tx)) \o Ins(tx)) \o Outs(tx)) \o Witnesses(tx)) \o <<tx.lockTime>>
  BY DEF SerializeTx, Marker, Ins, Outs, Witnesses

(* No part is longer than the transaction.                                 *)
LEMMA TxBuffer ==
    ASSUME NEW tx \in Read
    PROVE  /\ SerializeTx(tx) \in Buffers /\ Len(SerializeTx(tx)) \in Nat \ {0}
           /\ Len(Ins(tx)) <= Len(SerializeTx(tx))
           /\ Len(Outs(tx)) <= Len(SerializeTx(tx))
           /\ Len(Witnesses(tx)) <= Len(SerializeTx(tx))
<1>. DEFINE v == <<tx.version>>
            m == Marker(tx)
            i == Ins(tx)
            o == Outs(tx)
            w == Witnesses(tx)
            l == <<tx.lockTime>>
<1>1. /\ v \in Buffers /\ Len(v) = 1
      /\ m \in Buffers /\ Len(m) \in Nat
      /\ i \in Buffers /\ Len(i) \in Nat
      /\ o \in Buffers /\ Len(o) \in Nat
      /\ w \in Buffers /\ Len(w) \in Nat
      /\ l \in Buffers /\ Len(l) = 1
  BY TxParts
<1>2. SerializeTx(tx) = ((((v \o m) \o i) \o o) \o w) \o l
  BY SerializeTxIs
<1>. HIDE DEF v, m, i, o, w, l
<1>. DEFINE a == v \o m
<1>3. a \in Buffers /\ Len(a) = 1 + Len(m)
  <2>1. v \in Buffers /\ m \in Buffers
    BY <1>1
  <2>2. v \o m \in Buffers /\ Len(v \o m) = Len(v) + Len(m)
    BY <2>1, ConcatType
  <2>. QED
    BY <1>1, <2>2
<1>. HIDE DEF a
<1>. DEFINE b == a \o i
<1>4. b \in Buffers /\ Len(b) = Len(a) + Len(i)
  BY <1>1, <1>3, ConcatType
<1>. HIDE DEF b
<1>. DEFINE c == b \o o
<1>5. c \in Buffers /\ Len(c) = Len(b) + Len(o)
  BY <1>1, <1>4, ConcatType
<1>. HIDE DEF c
<1>. DEFINE d == c \o w
<1>6. d \in Buffers /\ Len(d) = Len(c) + Len(w)
  BY <1>1, <1>5, ConcatType
<1>. HIDE DEF d
<1>7. d \o l \in Buffers /\ Len(d \o l) = Len(d) + 1
  BY <1>1, <1>6, ConcatType, ZenonT(60)
<1>8. SerializeTx(tx) = d \o l
  BY <1>2 DEF a, b, c, d
<1>9. /\ SerializeTx(tx) \in Buffers /\ Len(SerializeTx(tx)) \in Nat \ {0}
      /\ Len(i) <= Len(SerializeTx(tx)) /\ Len(o) <= Len(SerializeTx(tx))
      /\ Len(w) <= Len(SerializeTx(tx))
  BY <1>1, <1>3, <1>4, <1>5, <1>6, <1>7, <1>8
<1>. QED
  BY <1>9 DEF i, o, w

(* The parts of a parse, by name.                                          *)
Segwit(p)     == Cells(Rest(p, 1), 2) = <<0, 1>>
InsOf(p)      == ParseList(ParseTxIn, Rest(p, IF Segwit(p) THEN 3 ELSE 1))
OutsOf(p)     == ParseList(ParseTxOut, InsOf(p).rest)
WitnessesOf(p) ==
    ParseItems(ParseScript, OutsOf(p).rest, IF Segwit(p) THEN Len(InsOf(p).item) ELSE 0)

LEMMA ParseTxIs ==
    \A p : ParseTx(p) =
        [item |-> [version     |-> Cell(p),
                   flag        |-> IF Segwit(p) THEN 1 ELSE 0,
                   txInputs    |-> InsOf(p).item,
                   txOutputs   |-> OutsOf(p).item,
                   txWitnesses |-> WitnessesOf(p).item,
                   lockTime    |-> Cell(WitnessesOf(p).rest)],
         rest |-> Rest(WitnessesOf(p).rest, 1)]
  BY DEF ParseTx, Segwit, InsOf, OutsOf, WitnessesOf

(* Whatever is there is parsed as a transaction.                           *)
LEMMA ParseTxType ==
    ASSUME NEW p \in Buffers
    PROVE  ParseTx(p).item \in Read /\ ParseTx(p).rest \in Buffers
<1>1. Cell(p) \in Nat /\ Rest(p, IF Segwit(p) THEN 3 ELSE 1) \in Buffers
  BY CellsType
<1>2. InsOf(p).item \in Seq(InType) /\ InsOf(p).rest \in Buffers
  BY <1>1, ParseTxInType, TxInListType DEF InsOf
<1>3. OutsOf(p).item \in Seq(OutType) /\ OutsOf(p).rest \in Buffers
  BY <1>2, ParseTxOutType, TxOutListType DEF OutsOf
<1>. DEFINE n == IF Segwit(p) THEN Len(InsOf(p).item) ELSE 0
<1>4. n \in Nat
  BY <1>2, LenProperties
<1>5. /\ WitnessesOf(p).item \in Seq(Buffers) /\ WitnessesOf(p).rest \in Buffers
      /\ Len(WitnessesOf(p).item) = n
  <2>1. WitnessesOf(p) = ParseItems(ParseScript, OutsOf(p).rest, n)
    BY DEF WitnessesOf
  <2>. HIDE DEF n
  <2>2. /\ ParseItems(ParseScript, OutsOf(p).rest, n).item \in Seq(Buffers)
        /\ Len(ParseItems(ParseScript, OutsOf(p).rest, n).item) = n
        /\ ParseItems(ParseScript, OutsOf(p).rest, n).rest \in Buffers
    BY <1>3, <1>4, ParseScriptType, ScriptsType
  <2>. QED
    BY <2>1, <2>2
<1>6. Cell(WitnessesOf(p).rest) \in Nat /\ Rest(WitnessesOf(p).rest, 1) \in Buffers
  BY <1>5, CellsType
<1>. DEFINE tx == [version     |-> Cell(p),
                   flag        |-> IF Segwit(p) THEN 1 ELSE 0,
                   txInputs    |-> InsOf(p).item,
                   txOutputs   |-> OutsOf(p).item,
                   txWitnesses |-> WitnessesOf(p).item,
                   lockTime    |-> Cell(WitnessesOf(p).rest)]
<1>7. tx \in ReadType
  BY <1>1, <1>2, <1>3, <1>5, <1>6 DEF ReadType
<1>8. WitnessesFit(tx)
  BY <1>5 DEF WitnessesFit, HasWitness
<1>9. ParseTx(p) = [item |-> tx, rest |-> Rest(WitnessesOf(p).rest, 1)]
  BY ParseTxIs
<1>. HIDE DEF tx
<1>. QED
  BY <1>6, <1>7, <1>8, <1>9 DEF Read

(* The marker is not mistaken for a count of inputs.                       *)
LEMMA CountIsNoMarker ==
    ASSUME NEW n \in Nat \ {0}, NEW f \in Buffers, NEW q \in Buffers
    PROVE  Cells((SerializeToVarint(n) \o f) \o q, 2) # <<0, 1>>
<1>1. PICK first \in Nat, bytes \in Buffers : IsVarint(n, first, bytes)
  BY VarintType
<1>2. SerializeToVarint(n) = <<first>> \o bytes /\ first # 0
  BY <1>1 DEF IsVarint
<1>. DEFINE p == (SerializeToVarint(n) \o f) \o q
            tail == (bytes \o f) \o q
<1>3. p = <<first>> \o tail /\ tail \in Buffers
  <2>1. <<first>> \in Buffers /\ bytes \o f \in Buffers
    BY CellBuffer, ConcatType
  <2>2. SerializeToVarint(n) \o f = <<first>> \o (bytes \o f)
    BY <1>2, <2>1, ConcatMoves
  <2>3. (<<first>> \o (bytes \o f)) \o q = <<first>> \o tail
    BY <2>1, ConcatMoves
  <2>4. tail \in Buffers
    BY <2>1, ConcatType
  <2>. HIDE DEF tail
  <2>. QED
    BY <2>2, <2>3, <2>4
<1>. HIDE DEF tail
<1>4. Cell(p) = first
  <2>1. Cell(<<first>> \o tail) = first
    BY <1>3, CutOne
  <2>. HIDE DEF p
  <2>. QED
    BY <1>3, <2>1
<1>. HIDE DEF p
<1>5. Cells(p, 1)[1] = Cells(p, 2)[1]
  BY DEF Cells
<1>6. Cells(p, 2)[1] # 0
  BY <1>2, <1>4, <1>5 DEF Cell
<1>7. <<0, 1>>[1] = 0
  OBVIOUS
<1>. QED
  BY <1>6, <1>7 DEF p

(* A transaction with inputs is parsed as it was written.                  *)
LEMMA TxReadBack ==
    ASSUME NEW tx \in Read, tx.txInputs # << >>, Len(SerializeTx(tx)) < Place[4],
           NEW q \in Buffers
    PROVE  ParseTx(SerializeTx(tx) \o q) = [item |-> tx, rest |-> q]
<1>. DEFINE v == <<tx.version>>
            m == Marker(tx)
            i == Ins(tx)
            o == Outs(tx)
            w == Witnesses(tx)
            l == <<tx.lockTime>>
            p == SerializeTx(tx) \o q
            a == l \o q
            b == w \o a
            c == o \o b
            d == i \o c
            e == m \o d
<1>1. /\ v \in Buffers /\ Len(v) = 1
      /\ m \in Buffers /\ Len(m) \in Nat
      /\ i \in Buffers /\ Len(i) \in Nat
      /\ o \in Buffers /\ Len(o) \in Nat
      /\ w \in Buffers /\ Len(w) \in Nat
      /\ l \in Buffers /\ Len(l) = 1
  BY TxParts
<1>2. Len(i) < Place[4] /\ Len(o) < Place[4] /\ Len(w) < Place[4]
  <2>1. Place[4] \in Nat
    BY PrefixesApart
  <2>2. /\ Len(SerializeTx(tx)) \in Nat
        /\ Len(i) <= Len(SerializeTx(tx))
        /\ Len(o) <= Len(SerializeTx(tx))
        /\ Len(w) <= Len(SerializeTx(tx))
    BY TxBuffer
  <2>. HIDE DEF i, o, w
  <2>. QED
    BY <1>1, <2>1, <2>2
<1>3. /\ a \in Buffers /\ b \in Buffers /\ c \in Buffers /\ d \in Buffers /\ e \in Buffers
  <2>. HIDE DEF v, m, i, o, w, l
  <2>1. a \in Buffers
    BY <1>1, ConcatType
  <2>. HIDE DEF a
  <2>2. b \in Buffers
    BY <1>1, <2>1, ConcatType
  <2>. HIDE DEF b
  <2>3. c \in Buffers
    BY <1>1, <2>2, ConcatType
  <2>. HIDE DEF c
  <2>4. d \in Buffers
    BY <1>1, <2>3, ConcatType
  <2>. HIDE DEF d
  <2>5. e \in Buffers
    BY <1>1, <2>4, ConcatType
  <2>. QED
    BY <2>1, <2>2, <2>3, <2>4, <2>5
<1>4. p = v \o e
  <2>1. p = (((((v \o m) \o i) \o o) \o w) \o l) \o q
    BY SerializeTxIs
  <2>. HIDE DEF v, m, i, o, w, l, p
  <2>. DEFINE r == v \o m
  <2>2. r \in Buffers /\ r \o d = v \o e
    <3>. HIDE DEF d
    <3>1. v \in Buffers /\ m \in Buffers /\ d \in Buffers
      BY <1>1, <1>3
    <3>2. (v \o m) \o d = v \o (m \o d)
      BY <3>1, ConcatMoves
    <3>3. v \o m \in Buffers
      BY <3>1, ConcatType
    <3>. QED
      BY <3>2, <3>3
  <2>. HIDE DEF r
  <2>. DEFINE s == r \o i
  <2>3. s \in Buffers /\ s \o c = r \o d
    <3>. HIDE DEF c
    <3>1. r \in Buffers /\ i \in Buffers /\ c \in Buffers
      BY <1>1, <1>3, <2>2
    <3>2. (r \o i) \o c = r \o (i \o c)
      BY <3>1, ConcatMoves
    <3>3. r \o i \in Buffers
      BY <3>1, ConcatType
    <3>. QED
      BY <3>2, <3>3
  <2>. HIDE DEF s
  <2>. DEFINE t == s \o o
  <2>4. t \in Buffers /\ t \o b = s \o c
    <3>. HIDE DEF b
    <3>1. s \in Buffers /\ o \in Buffers /\ b \in Buffers
      BY <1>1, <1>3, <2>3
    <3>2. (s \o o) \o b = s \o (o \o b)
      BY <3>1, ConcatMoves
    <3>3. s \o o \in Buffers
      BY <3>1, ConcatType
    <3>. QED
      BY <3>2, <3>3
  <2>. HIDE DEF t
  <2>. DEFINE u == t \o w
  <2>5. u \in Buffers /\ u \o a = t \o b
    <3>. HIDE DEF a
    <3>1. t \in Buffers /\ w \in Buffers /\ a \in Buffers
      BY <1>1, <1>3, <2>4
    <3>2. (t \o w) \o a = t \o (w \o a)
      BY <3>1, ConcatMoves
    <3>3. t \o w \in Buffers
      BY <3>1, ConcatType
    <3>. QED
      BY <3>2, <3>3
  <2>. HIDE DEF u
  <2>6. (u \o l) \o q = u \o a
    BY <1>1, <2>5, ConcatMoves, ZenonT(60)
  <2>7. p = (u \o l) \o q
    BY <2>1 DEF r, s, t, u
  <2>. HIDE DEF a, b, c, d, e
  <2>. QED
    BY <2>2, <2>3, <2>4, <2>5, <2>6, <2>7
<1>5. Cell(p) = tx.version /\ Rest(p, 1) = e
  <2>1. tx.version \in Nat
    BY ReadHas
  <2>2. Cell(<<tx.version>> \o e) = tx.version /\ Rest(<<tx.version>> \o e, 1) = e
    <3>. HIDE DEF e
    <3>. QED
      BY <1>3, <2>1, CutOne
  <2>. HIDE DEF p, e
  <2>. QED
    BY <1>4, <2>2
<1>6. /\ Segwit(p) <=> HasWitness(tx)
      /\ Rest(p, IF Segwit(p) THEN 3 ELSE 1) = d
  <2>1. CASE HasWitness(tx)
    <3>1. m = <<0, 1>> /\ Len(m) = 2
      BY <2>1 DEF Marker
    <3>2. Cells(m \o d, Len(m)) = m
      <4>. HIDE DEF m, d
      <4>. QED
        BY <1>1, <1>3, Cut
    <3>3. Cells(e, 2) = <<0, 1>>
      BY <3>1, <3>2
    <3>4. Segwit(p)
      <4>. HIDE DEF p, e
      <4>. QED
        BY <1>5, <3>3 DEF Segwit
    <3>5. v \o m \in Buffers /\ Len(v \o m) = 3
      <4>. HIDE DEF v, m
      <4>1. v \in Buffers /\ m \in Buffers
        BY <1>1
      <4>2. v \o m \in Buffers /\ Len(v \o m) = Len(v) + Len(m)
        BY <4>1, ConcatType
      <4>. QED
        BY <1>1, <3>1, <4>2
    <3>6. p = (v \o m) \o d
      <4>1. (v \o m) \o d = v \o (m \o d)
        <5>. HIDE DEF v, m, d
        <5>1. v \in Buffers /\ m \in Buffers /\ d \in Buffers
          BY <1>1, <1>3
        <5>. QED
          BY <5>1, ConcatMoves
      <4>. HIDE DEF p
      <4>. QED
        BY <1>4, <4>1
    <3>7. Rest((v \o m) \o d, Len(v \o m)) = d
      <4>. HIDE DEF v, m, d
      <4>. QED
        BY <1>3, <3>5, Cut
    <3>. HIDE DEF p, v, m, d
    <3>. QED
      BY <2>1, <3>4, <3>5, <3>6, <3>7
  <2>2. CASE ~ HasWitness(tx)
    <3>1. m = << >>
      BY <2>2 DEF Marker
    <3>2. e = d
      <4>. HIDE DEF d
      <4>. QED
        BY <1>3, <3>1, EmptyBuffer
    <3>3. Cells(d, 2) # <<0, 1>>
      <4>. DEFINE n == Len(tx.txInputs)
                  f == FlattenSeq([k \in DOMAIN tx.txInputs |-> SerializeTxIn(tx.txInputs[k])])
      <4>1. n \in Nat \ {0}
        <5>1. tx.txInputs \in Seq(InType)
          BY ReadHas
        <5>. QED
          BY <5>1, LenProperties, EmptySeq
      <4>2. f \in Buffers
        <5>. DEFINE pieces == [k \in DOMAIN tx.txInputs |-> SerializeTxIn(tx.txInputs[k])]
        <5>1. tx.txInputs \in Seq(InType)
          BY ReadHas
        <5>2. DOMAIN tx.txInputs = 1 .. n /\ \A k \in 1 .. n : tx.txInputs[k] \in InType
          BY <5>1, LenProperties
        <5>3. pieces \in [1 .. n -> Buffers]
          BY <5>2, TxInBuffer
        <5>. HIDE DEF pieces, n
        <5>4. FlattenSeq(pieces) \in Buffers
          BY <4>1, <5>3, FlattenType
        <5>. QED
          BY <5>4 DEF pieces
      <4>3. i = SerializeToVarint(n) \o f
        BY DEF Ins, SerializeList
      <4>. HIDE DEF n, f, c, i
      <4>. QED
        BY <1>3, <4>1, <4>2, <4>3, CountIsNoMarker
    <3>4. ~ Segwit(p)
      <4>. HIDE DEF p, e, d
      <4>. QED
        BY <1>5, <3>2, <3>3 DEF Segwit
    <3>. HIDE DEF p, e, d
    <3>. QED
      BY <1>5, <2>2, <3>2, <3>4
  <2>. QED
    BY <2>1, <2>2
<1>7. InsOf(p).item = tx.txInputs /\ InsOf(p).rest = c
  <2>1. tx.txInputs \in Seq(InType)
    BY ReadHas
  <2>2. ParseList(ParseTxIn, i \o c).item = tx.txInputs /\ ParseList(ParseTxIn, i \o c).rest = c
    <3>. HIDE DEF c
    <3>. QED
      BY <1>2, <1>3, <2>1, TxInList DEF Ins
  <2>3. InsOf(p) = ParseList(ParseTxIn, Rest(p, IF Segwit(p) THEN 3 ELSE 1))
    BY DEF InsOf
  <2>. HIDE DEF p, i, c
  <2>4. InsOf(p) = ParseList(ParseTxIn, i \o c)
    BY <1>6, <2>3
  <2>. QED
    BY <2>2, <2>4
<1>8. OutsOf(p).item = tx.txOutputs /\ OutsOf(p).rest = b
  <2>1. tx.txOutputs \in Seq(OutType)
    BY ReadHas
  <2>2. ParseList(ParseTxOut, o \o b).item = tx.txOutputs /\ ParseList(ParseTxOut, o \o b).rest = b
    <3>. HIDE DEF b
    <3>. QED
      BY <1>2, <1>3, <2>1, TxOutList DEF Outs
  <2>3. OutsOf(p) = ParseList(ParseTxOut, InsOf(p).rest)
    BY DEF OutsOf
  <2>. HIDE DEF p, o, b
  <2>4. OutsOf(p) = ParseList(ParseTxOut, o \o b)
    BY <1>7, <2>3
  <2>. QED
    BY <2>2, <2>4
<1>9. WitnessesOf(p).item = tx.txWitnesses /\ WitnessesOf(p).rest = a
  <2>. DEFINE n == IF HasWitness(tx) THEN Len(tx.txInputs) ELSE 0
  <2>1. /\ ParseItems(ParseScript, w \o a, n).item = tx.txWitnesses
        /\ ParseItems(ParseScript, w \o a, n).rest = a
    <3>. HIDE DEF a
    <3>. QED
      BY <1>2, <1>3, WitnessesAre
  <2>2. WitnessesOf(p) =
          ParseItems(ParseScript, OutsOf(p).rest, IF Segwit(p) THEN Len(InsOf(p).item) ELSE 0)
    BY DEF WitnessesOf
  <2>. HIDE DEF p, w, a
  <2>3. (IF Segwit(p) THEN Len(InsOf(p).item) ELSE 0) = n
    BY <1>6, <1>7
  <2>. HIDE DEF n
  <2>4. WitnessesOf(p) = ParseItems(ParseScript, w \o a, n)
    BY <1>8, <2>2, <2>3
  <2>. QED
    BY <2>1, <2>4
<1>10. Cell(a) = tx.lockTime /\ Rest(a, 1) = q
  <2>1. tx.lockTime \in Nat
    BY ReadHas
  <2>. QED
    BY <2>1, CutOne
<1>11. (IF Segwit(p) THEN 1 ELSE 0) = tx.flag
  <2>1. tx.flag \in {0, 1}
    BY ReadHas
  <2>. HIDE DEF p
  <2>. QED
    BY <1>6, <2>1 DEF HasWitness
<1>. HIDE DEF p, a
<1>12. ParseTx(p) =
         [item |-> [version |-> tx.version, flag |-> tx.flag, txInputs |-> tx.txInputs,
                    txOutputs |-> tx.txOutputs, txWitnesses |-> tx.txWitnesses,
                    lockTime |-> tx.lockTime],
          rest |-> q]
  BY <1>5, <1>7, <1>8, <1>9, <1>10, <1>11, ParseTxIs
<1>13. ParseTx(p) = [item |-> tx, rest |-> q]
  BY <1>12, ReadHas
<1>. QED
  BY <1>13 DEF p

-----------------------------------------------------------------------------
(* What is left of a file that was cut short.                              *)

(* A file that was cut within its first part, and behind it.               *)
LEMMA CutBefore ==
    ASSUME NEW S, NEW s \in Seq(S), NEW t \in Seq(S), NEW n \in Nat, n <= Len(s)
    PROVE  SubSeq(s \o t, 1, n) = SubSeq(s, 1, n)
<1>. DEFINE p == SubSeq(s \o t, 1, n)
            q == SubSeq(s, 1, n)
<1>1. /\ Len(s) \in Nat /\ Len(t) \in Nat /\ n \in Int /\ 1 \in Int
      /\ \A i \in 1 .. n : s[i] \in S /\ (s \o t)[i] = s[i]
  BY LenProperties, ConcatProperties, ElementOfSeq
<1>2. /\ p \in Seq(S) /\ Len(p) = IF 1 <= n THEN n - 1 + 1 ELSE 0
      /\ \A i \in 1 .. n - 1 + 1 : p[i] = (s \o t)[1 + i - 1]
  <2>. DEFINE both == s \o t
  <2>1. \A i \in 1 .. n : both[i] \in S
    BY <1>1
  <2>. HIDE DEF both
  <2>2. /\ SubSeq(both, 1, n) \in Seq(S)
        /\ Len(SubSeq(both, 1, n)) = IF 1 <= n THEN n - 1 + 1 ELSE 0
        /\ \A i \in 1 .. n - 1 + 1 : SubSeq(both, 1, n)[i] = both[1 + i - 1]
    BY <1>1, <2>1, SubSeqProperties
  <2>. QED
    BY <2>2 DEF both
<1>3. /\ q \in Seq(S) /\ Len(q) = IF 1 <= n THEN n - 1 + 1 ELSE 0
      /\ \A i \in 1 .. n - 1 + 1 : q[i] = s[1 + i - 1]
  BY <1>1, SubSeqProperties
<1>. HIDE DEF p, q
<1>4. Len(p) = n /\ Len(q) = n /\ \A i \in 1 .. n : p[i] = q[i]
  BY <1>1, <1>2, <1>3
<1>5. p = q
  BY <1>2, <1>3, <1>4, SeqEqual
<1>. QED
  BY <1>5 DEF p, q

LEMMA CutBehind ==
    ASSUME NEW S, NEW s \in Seq(S), NEW t \in Seq(S), NEW n \in Nat, n <= Len(t)
    PROVE  SubSeq(s \o t, 1, Len(s) + n) = s \o SubSeq(t, 1, n)
<1>. DEFINE l == Len(s)
            both == s \o t
            start == SubSeq(t, 1, n)
            p == SubSeq(both, 1, l + n)
            q == s \o start
<1>1. /\ l \in Nat /\ Len(t) \in Nat /\ l + n \in Int /\ n \in Int /\ 1 \in Int
      /\ Len(both) = l + Len(t) /\ both \in Seq(S)
      /\ \A i \in 1 .. l + Len(t) : both[i] = IF i <= l THEN s[i] ELSE t[i - l]
  BY LenProperties, ConcatProperties
<1>2. /\ start \in Seq(S) /\ Len(start) = n
      /\ \A i \in 1 .. n : start[i] = t[i]
  <2>1. \A i \in 1 .. n : t[i] \in S
    BY <1>1, ElementOfSeq
  <2>2. /\ start \in Seq(S) /\ Len(start) = IF 1 <= n THEN n - 1 + 1 ELSE 0
        /\ \A i \in 1 .. n - 1 + 1 : start[i] = t[1 + i - 1]
    BY <1>1, <2>1, SubSeqProperties
  <2>. HIDE DEF start
  <2>. QED
    BY <2>2
<1>. HIDE DEF both, start
<1>3. /\ p \in Seq(S) /\ Len(p) = l + n
      /\ \A i \in 1 .. l + n : p[i] = both[i]
  <2>. HIDE DEF l
  <2>1. \A i \in 1 .. l + n : both[i] \in S
    <3>1. \A i \in 1 .. l + n : i \in 1 .. Len(both)
      BY <1>1
    <3>. QED
      BY <1>1, <3>1, ElementOfSeq
  <2>2. /\ p \in Seq(S) /\ Len(p) = IF 1 <= l + n THEN (l + n) - 1 + 1 ELSE 0
        /\ \A i \in 1 .. (l + n) - 1 + 1 : p[i] = both[1 + i - 1]
    BY <1>1, <2>1, SubSeqProperties
  <2>. HIDE DEF p
  <2>. QED
    BY <1>1, <2>2
<1>4. /\ q \in Seq(S) /\ Len(q) = l + n
      /\ \A i \in 1 .. l + n : q[i] = IF i <= l THEN s[i] ELSE start[i - l]
  <2>1. start \in Seq(S) /\ Len(start) = n
    BY <1>2
  <2>2. /\ q \in Seq(S) /\ Len(q) = Len(s) + Len(start)
        /\ \A i \in 1 .. Len(s) + Len(start) :
              q[i] = IF i <= Len(s) THEN s[i] ELSE start[i - Len(s)]
    BY <2>1, ConcatProperties
  <2>. HIDE DEF q
  <2>. QED
    BY <2>1, <2>2
<1>. HIDE DEF p, q, l
<1>5. \A i \in 1 .. l + n : p[i] = q[i]
  <2>. TAKE i \in 1 .. l + n
  <2>1. i \in 1 .. l + Len(t) /\ (i > l => i - l \in 1 .. n)
    BY <1>1
  <2>2. p[i] = IF i <= l THEN s[i] ELSE t[i - l]
    BY <1>1, <1>3, <2>1
  <2>3. i > l => start[i - l] = t[i - l]
    BY <1>2, <2>1
  <2>. QED
    BY <1>1, <1>4, <2>1, <2>2, <2>3
<1>6. p = q
  BY <1>3, <1>4, <1>5, SeqEqual
<1>. QED
  BY <1>6 DEF p, q, l, both, start

LEMMA RestBehind ==
    ASSUME NEW S, NEW s \in Seq(S), NEW t \in Seq(S)
    PROVE  Rest(s \o t, Len(s)) = t
<1>. DEFINE l == Len(s)
            both == s \o t
            p == Rest(both, l)
<1>1. /\ l \in Nat /\ Len(t) \in Nat
      /\ Len(both) = l + Len(t) /\ both \in Seq(S)
      /\ \A i \in 1 .. l + Len(t) : both[i] = IF i <= l THEN s[i] ELSE t[i - l]
  BY LenProperties, ConcatProperties
<1>. HIDE DEF both, l
<1>2. /\ p \in Seq(S) /\ Len(p) = Len(t)
      /\ \A i \in 1 .. Len(t) : p[i] = both[l + i]
  <2>1. l + 1 \in Int /\ Len(both) \in Int
    BY <1>1
  <2>2. \A i \in l + 1 .. Len(both) : both[i] \in S
    <3>1. \A i \in l + 1 .. Len(both) : i \in 1 .. Len(both)
      BY <1>1
    <3>. QED
      BY <1>1, <3>1, ElementOfSeq
  <2>3. p = SubSeq(both, l + 1, Len(both))
    BY DEF Rest
  <2>4. /\ SubSeq(both, l + 1, Len(both)) \in Seq(S)
        /\ Len(SubSeq(both, l + 1, Len(both))) =
             IF l + 1 <= Len(both) THEN Len(both) - (l + 1) + 1 ELSE 0
        /\ \A i \in 1 .. Len(both) - (l + 1) + 1 :
             SubSeq(both, l + 1, Len(both))[i] = both[l + 1 + i - 1]
    BY <2>1, <2>2, SubSeqProperties
  <2>. HIDE DEF p
  <2>5. Len(p) = Len(t)
    BY <1>1, <2>3, <2>4
  <2>6. \A i \in 1 .. Len(t) : i \in 1 .. Len(both) - (l + 1) + 1 /\ l + 1 + i - 1 = l + i
    BY <1>1
  <2>7. \A i \in 1 .. Len(t) : p[i] = both[l + i]
    BY <2>3, <2>4, <2>6
  <2>. QED
    BY <2>3, <2>4, <2>5, <2>7
<1>. HIDE DEF p
<1>3. \A i \in 1 .. Len(t) : p[i] = t[i]
  <2>. TAKE i \in 1 .. Len(t)
  <2>1. l + i \in 1 .. l + Len(t) /\ ~ (l + i <= l) /\ (l + i) - l = i
    BY <1>1
  <2>2. both[l + i] = t[i]
    BY <1>1, <2>1
  <2>. QED
    BY <1>2, <2>2
<1>4. p = t
  BY <1>2, <1>3, SeqEqual
<1>. QED
  BY <1>4 DEF p, both, l

(* Behind the header of a file that was cut short: the start of its list.  *)
LEMMA HeaderCut ==
    ASSUME NEW S, NEW s \in Seq(S), NEW t \in Seq(S), NEW n \in 0 .. Len(s) + Len(t)
    PROVE  \E m \in 0 .. Len(t) : Rest(SubSeq(s \o t, 1, n), Len(s)) = SubSeq(t, 1, m)
<1>1. Len(s) \in Nat /\ Len(t) \in Nat /\ n \in Nat
  BY LenProperties
<1>2. CASE n <= Len(s)
  <2>. DEFINE p == SubSeq(s, 1, n)
  <2>1. SubSeq(s \o t, 1, n) = p
    BY <1>1, <1>2, CutBefore
  <2>2. Len(p) = n
    <3>1. 1 \in Int /\ n \in Int /\ \A i \in 1 .. n : s[i] \in S
      BY <1>1, <1>2, ElementOfSeq
    <3>2. Len(p) = IF 1 <= n THEN n - 1 + 1 ELSE 0
      BY <3>1, SubSeqProperties
    <3>. QED
      BY <1>1, <3>2
  <2>. HIDE DEF p
  <2>3. Rest(p, Len(s)) = << >>
    <3>1. Len(s) + 1 \in Int /\ Len(p) \in Int /\ Len(p) < Len(s) + 1
      BY <1>1, <1>2, <2>2
    <3>. QED
      BY <3>1, SubSeqEmpty DEF Rest
  <2>4. SubSeq(t, 1, 0) = << >>
    BY SubSeqEmpty
  <2>5. 0 \in 0 .. Len(t)
    BY <1>1
  <2>. QED
    BY <2>1, <2>3, <2>4, <2>5
<1>3. CASE n > Len(s)
  <2>. DEFINE m == n - Len(s)
  <2>1. m \in Nat /\ m <= Len(t) /\ Len(s) + m = n /\ m \in 0 .. Len(t)
    BY <1>1, <1>3
  <2>. HIDE DEF m
  <2>2. SubSeq(s \o t, 1, n) = s \o SubSeq(t, 1, m)
    BY <2>1, CutBehind
  <2>3. SubSeq(t, 1, m) \in Seq(S)
    <3>1. 1 \in Int /\ m \in Int /\ \A i \in 1 .. m : t[i] \in S
      BY <1>1, <2>1, ElementOfSeq
    <3>. QED
      BY <3>1, SubSeqProperties
  <2>4. Rest(s \o SubSeq(t, 1, m), Len(s)) = SubSeq(t, 1, m)
    BY <2>3, RestBehind
  <2>. QED
    BY <2>1, <2>2, <2>4
<1>. QED
  BY <1>1, <1>2, <1>3

-----------------------------------------------------------------------------
(* Lists of transactions.                                                  *)

(* A transaction read where nothing is left has no inputs.                 *)
LEMMA NothingReadsAsNoInputs ==
    ParseTx(<< >>).item.txInputs = << >>
<1>1. \A k \in Nat : Cells(<< >>, k) = [i \in 1 .. k |-> 0]
  BY EmptyBuffer DEF Cells
<1>2. \A k \in Nat : Rest(<< >>, k) = << >>
  <2>. TAKE k \in Nat
  <2>1. k + 1 \in Int /\ Len(<< >>) \in Int /\ Len(<< >>) < k + 1
    BY EmptyBuffer
  <2>. QED
    BY <2>1, SubSeqEmpty DEF Rest
<1>3. Cell(<< >>) = 0
  BY <1>1 DEF Cell
<1>4. ~ Segwit(<< >>)
  <2>1. Cells(<< >>, 2)[2] = 0
    BY <1>1
  <2>2. <<0, 1>>[2] = 1
    OBVIOUS
  <2>3. Rest(<< >>, 1) = << >>
    BY <1>2
  <2>. QED
    BY <2>1, <2>2, <2>3 DEF Segwit
<1>5. ParseVarint(<< >>).item = 0 /\ ParseVarint(<< >>).rest \in Buffers
  <2>1. VarintWidth(Cell(<< >>)) = 0
    BY <1>3, VarintWidthIs, PrefixesApart DEF VarintWidth
  <2>2. ParseVarint(<< >>).item = 0
    BY <1>3, <2>1 DEF ParseVarint
  <2>. QED
    BY <2>2, EmptyBuffer, ParseVarintType
<1>6. InsOf(<< >>).item = << >>
  <2>. DEFINE count == ParseVarint(<< >>)
  <2>1. InsOf(<< >>) = ParseList(ParseTxIn, << >>)
    <3>1. Rest(<< >>, 1) = << >>
      BY <1>2
    <3>. QED
      BY <1>4, <3>1 DEF InsOf
  <2>2. ParseList(ParseTxIn, << >>) = ParseItems(ParseTxIn, count.rest, count.item)
    BY DEF ParseList
  <2>. HIDE DEF count
  <2>3. count.item = 0 /\ count.rest \in Buffers /\ 0 \in Nat
    BY <1>5 DEF count
  <2>4. /\ ParseItems(ParseTxIn, count.rest, 0).item \in Seq(InType)
        /\ Len(ParseItems(ParseTxIn, count.rest, 0).item) = 0
    BY <2>3, ParseTxInType, TxInsType
  <2>5. ParseItems(ParseTxIn, count.rest, 0).item = << >>
    BY <2>4, EmptySeq
  <2>. QED
    BY <2>1, <2>2, <2>3, <2>5
<1>. QED
  BY <1>6, ParseTxIs

(* The first of the transactions that are read is the one read first.      *)
LEMMA FirstRead ==
    ASSUME NEW n \in Nat \ {0}, NEW p \in Buffers
    PROVE  ParseItems(ParseTx, p, n).item[1] = ParseTx(p).item
<1>. DEFINE first == ParseTx(p).item
            base == Nothing(p)
            steps == Steps(n)
            L == ListsOf(Read)
            Good(list, k) == /\ Len(list.item) = k
                             /\ k = 0 => list = base
                             /\ k > 0 => list.item[1] = first
            I == [k \in 0 .. n |-> {list \in L : Good(list, k)}]
<1>1. base \in L /\ base.item = << >> /\ base.rest = p
  BY DEF Nothing, ListsOf
<1>2. DOMAIN steps = 1 .. n
  BY DEF Steps
<1>. HIDE DEF base, first, steps
<1>3. base \in I[0]
  BY <1>1
<1>4. ASSUME NEW k \in 1 .. n, NEW list \in I[k - 1]
      PROVE  NextTx(list, steps[k]) \in I[k]
  <2>. DEFINE next == NextTx(list, steps[k])
              tx == ParseTx(list.rest).item
  <2>1. k - 1 \in 0 .. n /\ k \in 0 .. n /\ k > 0 /\ k - 1 \in Nat
    OBVIOUS
  <2>2. /\ list \in L /\ Len(list.item) = k - 1
        /\ k - 1 = 0 => list = base
        /\ k - 1 > 0 => list.item[1] = first
    <3>1. list \in L /\ Good(list, k - 1)
      <4>. HIDE DEF Good, L
      <4>. QED
        BY <2>1
    <3>. HIDE DEF L
    <3>. QED
      BY <3>1
  <2>3. list.item \in Seq(Read) /\ list.rest \in Buffers
    BY <2>2 DEF ListsOf
  <2>4. tx \in Read /\ ParseTx(list.rest).rest \in Buffers
    BY <2>3, ParseTxType
  <2>5. next = [item |-> Append(list.item, tx), rest |-> ParseTx(list.rest).rest]
    BY DEF NextTx
  <2>6. k - 1 = 0 => tx = first
    BY <1>1, <2>2 DEF first
  <2>. HIDE DEF tx, next, I
  <2>7. /\ Append(list.item, tx) \in Seq(Read)
        /\ Len(Append(list.item, tx)) = k
        /\ k - 1 > 0 => Append(list.item, tx)[1] = list.item[1]
        /\ k - 1 = 0 => Append(list.item, tx)[1] = tx
    BY <2>1, <2>2, <2>3, <2>4
  <2>8. Append(list.item, tx)[1] = first
    BY <2>1, <2>2, <2>6, <2>7
  <2>9. next \in L /\ Len(next.item) = k /\ next.item[1] = first
    BY <2>4, <2>5, <2>7, <2>8 DEF ListsOf
  <2>. QED
    <3>1. next \in L /\ Good(next, k)
      BY <2>1, <2>9
    <3>. HIDE DEF Good, L
    <3>. QED
      BY <2>1, <3>1 DEF I, next
<1>5. Txs!FoldLeft(NextTx, base, steps) \in I[n]
  <2>. HIDE DEF I
  <2>. QED
    BY <1>2, <1>3, <1>4, Txs!FoldLeftInduction
<1>6. Txs!FoldLeft(NextTx, base, steps).item[1] = first
  <2>. DEFINE x == Txs!FoldLeft(NextTx, base, steps)
  <2>1. x \in L /\ Good(x, n)
    <3>1. n \in 0 .. n
      OBVIOUS
    <3>. HIDE DEF Good, L, x
    <3>. QED
      BY <1>5, <3>1 DEF x
  <2>. HIDE DEF x
  <2>2. x.item[1] = first
    BY <2>1
  <2>. QED
    BY <2>2 DEF x
<1>. QED
  BY <1>6, TxsFold DEF first, base, steps

-----------------------------------------------------------------------------
(* Blocks that are saved.                                                  *)

Body(b) == SerializeList(SerializeTx, b.txs)

(* What is legal of what is received can be written and read.              *)
LEMMA LegalBlock ==
    ASSUME NEW b \in BlocksReceived, IsBlockLegal(b)
    PROVE  /\ b = [header |-> b.header, txs |-> b.txs]
           /\ b.header = [prev_block |-> b.header.prev_block, merkle_root |-> b.header.merkle_root,
                          timestamp |-> b.header.timestamp, nonce |-> b.header.nonce]
           /\ b.txs \in Seq(Read) /\ b.txs # << >>
           /\ \A k \in DOMAIN b.txs : b.txs[k].txInputs # << >>
           /\ Len(SerializeBlock(b)) < Place[4]
<1>1. /\ b = [header |-> b.header, txs |-> b.txs]
      /\ b.header = [prev_block |-> b.header.prev_block, merkle_root |-> b.header.merkle_root,
                     timestamp |-> b.header.timestamp, nonce |-> b.header.nonce]
      /\ b.txs \in Seq(TxType)
      /\ \A k \in DOMAIN b.txs : WitnessesFit(b.txs[k])
      /\ Len(SerializeBlock(b)) < Place[4]
  BY BlockFileAssumption
<1>2. b.txs # << >> /\ \A k \in DOMAIN b.txs : IsTxLegal(b.txs[k])
  BY DEF IsBlockLegal
<1>3. ASSUME NEW k \in DOMAIN b.txs PROVE b.txs[k] \in Read /\ b.txs[k].txInputs # << >>
  <2>. DEFINE tx == b.txs[k]
  <2>1. k \in 1 .. Len(b.txs)
    BY <1>1, LenProperties
  <2>2. tx \in TxType /\ WitnessesFit(tx) /\ IsTxLegal(tx)
    BY <1>1, <1>2, <2>1, ElementOfSeq
  <2>. HIDE DEF tx
  <2>3. /\ tx.version \in Nat /\ tx.flag \in {0, 1} /\ tx.lockTime \in Nat
        /\ tx.txInputs \in Seq(InType)
        /\ tx.txOutputs \in Seq([value : Int, public_key_script : Seq(Nat)])
        /\ tx.txWitnesses \in Seq(Buffers)
        /\ tx = [version |-> tx.version, flag |-> tx.flag, txInputs |-> tx.txInputs,
                 txOutputs |-> tx.txOutputs, txWitnesses |-> tx.txWitnesses,
                 lockTime |-> tx.lockTime]
    BY <2>2 DEF TxType, InType, Buffers
  <2>4. tx.txOutputs \in Seq(OutType)
    <3>. DEFINE outs == tx.txOutputs
                n == Len(outs)
    <3>1. n \in Nat /\ DOMAIN outs = 1 .. n /\ outs \in [1 .. n -> [value : Int, public_key_script : Seq(Nat)]]
      BY <2>3, LenProperties
    <3>2. ASSUME NEW i \in 1 .. n PROVE outs[i] \in OutType
      <4>1. outs[i].value >= 0 /\ outs[i] \in [value : Int, public_key_script : Seq(Nat)]
        BY <2>2, <3>1 DEF IsTxLegal
      <4>. QED
        BY <4>1 DEF OutType, Buffers
    <3>. HIDE DEF outs, n
    <3>3. outs \in [1 .. n -> OutType]
      BY <3>1, <3>2
    <3>4. outs \in Seq(OutType)
      BY <3>1, <3>3, SeqIs
    <3>. QED
      BY <3>4 DEF outs
  <2>5. tx \in ReadType
    BY <2>3, <2>4 DEF ReadType
  <2>6. tx.txInputs # << >>
    BY <2>2 DEF IsTxLegal
  <2>. QED
    BY <2>2, <2>5, <2>6 DEF Read, tx
<1>4. b.txs \in Seq(Read)
  <2>. DEFINE txs == b.txs
              n == Len(txs)
  <2>1. n \in Nat /\ DOMAIN txs = 1 .. n /\ txs \in [1 .. n -> TxType]
    BY <1>1, LenProperties
  <2>2. \A k \in 1 .. n : txs[k] \in Read
    BY <1>3, <2>1
  <2>. HIDE DEF txs, n
  <2>3. txs \in [1 .. n -> Read]
    BY <2>1, <2>2
  <2>4. txs \in Seq(Read)
    BY <2>1, <2>3, SeqIs
  <2>. QED
    BY <2>4 DEF txs
<1>. QED
  BY <1>1, <1>2, <1>3, <1>4

(* The parts of the file of a block, and what its cells are.               *)
Pieces(b) == [k \in DOMAIN b.txs |-> SerializeTx(b.txs[k])]
Header(b) == SerializeHeader(b.header)
CellOf(b) ==
    Nat \cup {b.header.prev_block, b.header.merkle_root, b.header.timestamp, b.header.nonce}

(* The list of transactions, behind the header.                            *)
LEMMA BodyIs ==
    ASSUME NEW b \in BlocksReceived, IsBlockLegal(b)
    PROVE  LET n == Len(b.txs)
           IN  /\ n \in Nat \ {0} /\ n < Place[4] /\ DOMAIN b.txs = 1 .. n
               /\ \A k \in 1 .. n : /\ b.txs[k] \in Read
                                    /\ b.txs[k].txInputs # << >>
                                    /\ Len(SerializeTx(b.txs[k])) < Place[4]
                                    /\ Pieces(b)[k] = SerializeTx(b.txs[k])
               /\ Pieces(b) \in [1 .. n -> Buffers]
               /\ Body(b) = SerializeToVarint(n) \o FlattenSeq(Pieces(b))
               /\ Body(b) \in Buffers
               /\ FlattenSeq(Pieces(b)) \in Buffers
               /\ Header(b) \in Seq(CellOf(b)) /\ Len(Header(b)) = 4
               /\ Body(b) \in Seq(CellOf(b))
               /\ SerializeBlock(b) = Header(b) \o Body(b)
               /\ Len(SerializeBlock(b)) = 4 + Len(Body(b))
<1>. DEFINE n == Len(b.txs)
            pieces == Pieces(b)
            S == CellOf(b)
<1>1. /\ b.txs \in Seq(Read) /\ b.txs # << >>
      /\ \A k \in DOMAIN b.txs : b.txs[k].txInputs # << >>
      /\ Len(SerializeBlock(b)) < Place[4]
  BY LegalBlock
<1>2. n \in Nat \ {0} /\ DOMAIN b.txs = 1 .. n
  BY <1>1, LenProperties, EmptySeq
<1>3. \A k \in 1 .. n : b.txs[k] \in Read /\ pieces[k] = SerializeTx(b.txs[k])
  BY <1>1, <1>2, ElementOfSeq DEF Pieces
<1>4. \A k \in 1 .. n : pieces[k] \in Buffers /\ Len(pieces[k]) \in Nat \ {0}
  BY <1>3, TxBuffer
<1>5. pieces \in [1 .. n -> Buffers]
  <2>1. DOMAIN pieces = 1 .. n /\ pieces = [k \in 1 .. n |-> pieces[k]]
    BY <1>2 DEF Pieces
  <2>. HIDE DEF pieces, n
  <2>. QED
    BY <1>4, <2>1
<1>6. Body(b) = SerializeToVarint(n) \o FlattenSeq(pieces)
  BY DEF Body, SerializeList, Pieces
<1>. HIDE DEF pieces, n
<1>7. /\ Body(b) \in Buffers /\ Len(Body(b)) \in Nat /\ n <= Len(Body(b))
      /\ \A k \in 1 .. n : Len(pieces[k]) <= Len(Body(b))
  <2>1. \A k \in 1 .. n : Len(pieces[k]) > 0
    BY <1>4
  <2>2. /\ SerializeToVarint(n) \o FlattenSeq(pieces) \in Buffers
        /\ Len(SerializeToVarint(n) \o FlattenSeq(pieces)) \in Nat \ {0}
        /\ n <= Len(SerializeToVarint(n) \o FlattenSeq(pieces))
        /\ \A k \in 1 .. n :
              Len(pieces[k]) <= Len(SerializeToVarint(n) \o FlattenSeq(pieces))
    BY <1>2, <1>5, <2>1, ListBuffer
  <2>. QED
    BY <1>6, <2>2
<1>8. Header(b) \in Seq(S) /\ Len(Header(b)) = 4
  <2>. DEFINE p == b.header.prev_block
              m == b.header.merkle_root
              t == b.header.timestamp
              o == b.header.nonce
  <2>1. p \in S /\ m \in S /\ t \in S /\ o \in S
    BY DEF CellOf
  <2>2. Header(b) = <<p, m, t, o>>
    BY DEF Header, SerializeHeader
  <2>. HIDE DEF p, m, t, o, S
  <2>. QED
    BY <2>1, <2>2
<1>9. Body(b) \in Seq(S)
  <2>1. Body(b) \in Seq(Nat) /\ Nat \subseteq S
    BY <1>7 DEF Buffers, CellOf
  <2>2. Body(b) \in [1 .. Len(Body(b)) -> S]
    <3>1. Body(b) \in [1 .. Len(Body(b)) -> Nat]
      BY <2>1, LenProperties
    <3>. HIDE DEF S
    <3>. QED
      BY <2>1, <3>1
  <2>. HIDE DEF S
  <2>. QED
    BY <1>7, <2>2, SeqIs
<1>10. SerializeBlock(b) = Header(b) \o Body(b)
  BY DEF SerializeBlock, Header, Body
<1>11. Len(SerializeBlock(b)) = 4 + Len(Body(b))
  <2>. HIDE DEF S
  <2>1. Len(Header(b) \o Body(b)) = Len(Header(b)) + Len(Body(b))
    BY <1>8, <1>9, ConcatProperties
  <2>. QED
    BY <1>8, <1>10, <2>1
<1>12. /\ n < Place[4]
       /\ \A k \in 1 .. n : Len(SerializeTx(b.txs[k])) < Place[4]
  <2>1. Place[4] \in Nat
    BY PrefixesApart
  <2>2. Len(Body(b)) < Place[4]
    BY <1>1, <1>7, <1>11, <2>1
  <2>. QED
    BY <1>2, <1>3, <1>4, <1>7, <2>1, <2>2
<1>13. FlattenSeq(pieces) \in Buffers
  BY <1>2, <1>5, FlattenType
<1>. QED
  BY <1>1, <1>2, <1>3, <1>5, <1>6, <1>7, <1>8, <1>9, <1>10, <1>11, <1>12, <1>13 DEF n, pieces

(* Of a list that was cut short as many transactions are read as were      *)
(* written, or none, or a first one without inputs.                        *)
LEMMA BodyCut ==
    ASSUME NEW b \in BlocksReceived, IsBlockLegal(b), NEW m \in 0 .. Len(Body(b))
    PROVE  LET txs == ParseList(ParseTx, SubSeq(Body(b), 1, m)).item
           IN  /\ txs \in Seq(Read)
               /\ \/ Len(txs) = Len(b.txs)
                  \/ txs = << >>
                  \/ txs[1].txInputs = << >>
<1>. DEFINE n == Len(b.txs)
            v == SerializeToVarint(n)
            f == FlattenSeq(Pieces(b))
            body == Body(b)
            p == SubSeq(body, 1, m)
            txs == ParseList(ParseTx, p).item
            count == ParseVarint(p)
<1>1. /\ n \in Nat \ {0} /\ n < Place[4]
      /\ body = v \o f /\ body \in Buffers /\ f \in Buffers
  BY BodyIs
<1>. HIDE DEF n
<1>2. v \in Buffers /\ Len(v) \in Nat /\ Len(f) \in Nat /\ Len(body) = Len(v) + Len(f)
  <2>1. v \in Buffers
    BY <1>1, VarintBuffer
  <2>. HIDE DEF v, f, body
  <2>. QED
    BY <1>1, <2>1, ConcatType
<1>3. m \in Nat /\ m <= Len(v) + Len(f)
  <2>. HIDE DEF v, f
  <2>1. m \in 0 .. Len(body)
    OBVIOUS
  <2>. HIDE DEF body
  <2>. QED
    BY <1>2, <2>1
<1>4. p \in Buffers
  <2>1. \A i \in 1 .. m : body[i] \in Nat
    <3>. HIDE DEF v, f, body
    <3>1. \A i \in 1 .. m : i \in 1 .. Len(body)
      BY <1>2, <1>3
    <3>. QED
      BY <1>1, <3>1, ElementOfSeq DEF Buffers
  <2>. HIDE DEF body
  <2>2. 1 \in Int /\ m \in Int
    BY <1>3
  <2>. QED
    BY <2>1, <2>2, SubSeqProperties DEF Buffers
<1>5. txs \in Seq(Read) /\ count.item \in Nat /\ count.rest \in Buffers
  <2>. HIDE DEF p
  <2>. QED
    BY <1>4, ParseTxType, TxListType, ParseVarintType
<1>6. ParseList(ParseTx, p) = ParseItems(ParseTx, count.rest, count.item)
  BY DEF ParseList
<1>7. CASE m >= Len(v)
  <2>. DEFINE k == m - Len(v)
              t == SubSeq(f, 1, k)
  <2>1. k \in Nat /\ k <= Len(f) /\ Len(v) + k = m
    <3>. HIDE DEF v, f
    <3>. QED
      BY <1>2, <1>3, <1>7
  <2>. HIDE DEF k
  <2>2. t \in Buffers
    <3>1. \A i \in 1 .. k : f[i] \in Nat
      <4>. HIDE DEF f
      <4>1. \A i \in 1 .. k : i \in 1 .. Len(f)
        BY <1>2, <2>1
      <4>. QED
        BY <1>1, <4>1, ElementOfSeq DEF Buffers
    <3>2. 1 \in Int /\ k \in Int
      BY <2>1
    <3>. HIDE DEF f
    <3>. QED
      BY <3>1, <3>2, SubSeqProperties DEF Buffers
  <2>3. p = v \o t
    <3>. HIDE DEF v, f, body
    <3>1. SubSeq(v \o f, 1, Len(v) + k) = v \o SubSeq(f, 1, k)
      BY <1>1, <1>2, <2>1, CutBehind, SMTT(60) DEF Buffers
    <3>. QED
      BY <1>1, <2>1, <3>1
  <2>4. ParseVarint(v \o t) = [item |-> n, rest |-> t]
    <3>. HIDE DEF t
    <3>. QED
      BY <1>1, <2>2, VarintReadBack
  <2>. HIDE DEF p, v, t
  <2>5. count.item = n /\ count.rest = t
    BY <2>3, <2>4
  <2>. HIDE DEF count
  <2>6. Len(ParseItems(ParseTx, t, n).item) = n
    BY <1>1, <2>2, ParseTxType, TxsType
  <2>7. Len(txs) = n
    BY <1>6, <2>5, <2>6
  <2>. QED
    BY <1>5, <2>7 DEF n, p, count
<1>8. CASE m < Len(v)
  <2>1. p = SubSeq(v, 1, m)
    <3>. HIDE DEF v, f, body
    <3>1. SubSeq(v \o f, 1, m) = SubSeq(v, 1, m)
      BY <1>1, <1>2, <1>3, <1>8, CutBefore DEF Buffers
    <3>. QED
      BY <1>1, <3>1
  <2>2. ParseVarint(SubSeq(v, 1, m)).rest = << >>
    BY <1>1, <1>3, <1>8, VarintCutShort
  <2>. HIDE DEF v, p
  <2>3. count.rest = << >>
    BY <2>1, <2>2
  <2>. HIDE DEF count
  <2>4. txs = ParseItems(ParseTx, << >>, count.item).item
    BY <1>6, <2>3
  <2>5. CASE count.item = 0
    <3>1. Len(ParseItems(ParseTx, << >>, 0).item) = 0
      BY EmptyBuffer, ParseTxType, TxsType
    <3>2. Len(txs) = 0
      BY <2>4, <2>5, <3>1
    <3>3. txs = << >>
      <4>. HIDE DEF txs
      <4>. QED
        BY <1>5, <3>2, EmptySeq
    <3>. QED
      BY <1>5, <3>3 DEF p
  <2>6. CASE count.item # 0
    <3>1. ParseItems(ParseTx, << >>, count.item).item[1] = ParseTx(<< >>).item
      BY <1>5, <2>6, EmptyBuffer, FirstRead
    <3>2. txs[1].txInputs = << >>
      BY <2>4, <3>1, NothingReadsAsNoInputs
    <3>. QED
      BY <1>5, <3>2 DEF p
  <2>. QED
    BY <2>5, <2>6
<1>9. m >= Len(v) \/ m < Len(v)
  <2>. HIDE DEF v
  <2>. QED
    BY <1>2, <1>3
<1>. QED
  BY <1>7, <1>8, <1>9

(* Transactions that serialize alike are alike.                            *)
LEMMA SerializedApart ==
    ASSUME NEW tx \in Read, NEW other \in Read,
           tx.txInputs # << >>, other.txInputs # << >>,
           SerializeTx(tx) = SerializeTx(other), Len(SerializeTx(tx)) < Place[4]
    PROVE  tx = other
<1>1. << >> \in Buffers
  BY EmptyBuffer
<1>2. ParseTx(SerializeTx(tx) \o << >>) = [item |-> tx, rest |-> << >>]
  BY <1>1, TxReadBack
<1>3. Len(SerializeTx(other)) < Place[4]
  OBVIOUS
<1>4. ParseTx(SerializeTx(other) \o << >>) = [item |-> other, rest |-> << >>]
  BY <1>1, <1>3, TxReadBack
<1>. QED
  BY <1>2, <1>4

(* Where as many are read as were written, under the same root, they are   *)
(* the ones that were written.                                             *)
LEMMA SameRootSameTxs ==
    ASSUME NEW b \in BlocksReceived, IsBlockLegal(b),
           NEW txs \in Seq(Read), Len(txs) = Len(b.txs),
           \A k \in DOMAIN txs : txs[k].txInputs # << >>,
           ComputeMerkleRoot(txs) = ComputeMerkleRoot(b.txs)
    PROVE  txs = b.txs
<1>. DEFINE n == Len(b.txs)
<1>1. /\ n \in Nat \ {0} /\ DOMAIN b.txs = 1 .. n
      /\ \A k \in 1 .. n : /\ b.txs[k] \in Read
                           /\ b.txs[k].txInputs # << >>
                           /\ Len(SerializeTx(b.txs[k])) < Place[4]
  BY BodyIs
<1>2. DOMAIN txs = 1 .. n /\ Len(txs) = n /\ \A k \in 1 .. n : txs[k] \in Read
  BY LenProperties, ElementOfSeq
<1>. HIDE DEF n
<1>3. \A k \in 1 .. n : HashTx(txs[k]) = HashTx(b.txs[k])
  BY <1>1, <1>2, RootsApart
<1>4. ASSUME NEW k \in 1 .. n PROVE b.txs[k] = txs[k]
  <2>1. SerializeTx(b.txs[k]) = SerializeTx(txs[k])
    BY <1>3 DEF HashTx
  <2>2. txs[k].txInputs # << >>
    BY <1>2
  <2>. QED
    BY <1>1, <1>2, <2>1, <2>2, SerializedApart
<1>5. b.txs \in Seq(Read)
  BY LegalBlock
<1>6. Len(b.txs) = n /\ \A k \in 1 .. Len(txs) : txs[k] = b.txs[k]
  <2>1. \A k \in 1 .. n : txs[k] = b.txs[k]
    BY <1>4
  <2>. QED
    BY <1>2, <2>1 DEF n
<1>. QED
  BY <1>2, <1>5, <1>6, SeqEqual

(* What is read of the start of a saved block, and is legal, is the block. *)
LEMMA StartReadsAsBlock ==
    ASSUME NEW b \in BlocksReceived, IsBlockLegal(b), NEW n \in 0 .. Len(SerializeBlock(b)),
           NEW found, found = ParseBlock(SubSeq(SerializeBlock(b), 1, n)),
           found.header = b.header, found.txs # << >>, IsBlockLegal(found)
    PROVE  found = b
<1>. DEFINE h == Header(b)
            body == Body(b)
            S == CellOf(b)
<1>1. /\ h \in Seq(S) /\ Len(h) = 4 /\ body \in Seq(S)
      /\ SerializeBlock(b) = h \o body
      /\ Len(SerializeBlock(b)) = 4 + Len(body)
  BY BodyIs
<1>. HIDE DEF h, body, S
<1>2. PICK m \in 0 .. Len(body) : Rest(SubSeq(h \o body, 1, n), 4) = SubSeq(body, 1, m)
  <2>1. n \in 0 .. Len(h) + Len(body)
    BY <1>1
  <2>2. \E m \in 0 .. Len(body) : Rest(SubSeq(h \o body, 1, n), Len(h)) = SubSeq(body, 1, m)
    BY <1>1, <2>1, HeaderCut
  <2>. QED
    BY <1>1, <2>2
<1>3. found = [header |-> found.header, txs |-> found.txs]
  BY DEF ParseBlock
<1>4. found.txs = ParseList(ParseTx, SubSeq(body, 1, m)).item
  <2>1. ParseBlock(SubSeq(h \o body, 1, n)).txs =
          ParseList(ParseTx, Rest(SubSeq(h \o body, 1, n), 4)).item
    BY DEF ParseBlock
  <2>2. found.txs = ParseBlock(SubSeq(h \o body, 1, n)).txs
    BY <1>1
  <2>. QED
    BY <1>2, <2>1, <2>2
<1>5. /\ found.txs \in Seq(Read)
      /\ \/ Len(found.txs) = Len(b.txs)
         \/ found.txs = << >>
         \/ found.txs[1].txInputs = << >>
  <2>1. m \in 0 .. Len(Body(b))
    BY DEF body
  <2>2. found.txs = ParseList(ParseTx, SubSeq(Body(b), 1, m)).item
    BY <1>4 DEF body
  <2>. QED
    BY <2>1, <2>2, BodyCut
<1>6. /\ found.txs[1].txInputs # << >>
      /\ \A k \in DOMAIN found.txs : found.txs[k].txInputs # << >>
      /\ ComputeMerkleRoot(found.txs) = found.header.merkle_root
  BY DEF IsBlockLegal, IsTxLegal
<1>7. ComputeMerkleRoot(b.txs) = b.header.merkle_root
  BY DEF IsBlockLegal
<1>8. found.txs = b.txs
  <2>1. ComputeMerkleRoot(found.txs) = ComputeMerkleRoot(b.txs)
    BY <1>6, <1>7
  <2>2. Len(found.txs) = Len(b.txs)
    BY <1>5, <1>6
  <2>. QED
    BY <1>5, <1>6, <2>1, <2>2, SameRootSameTxs
<1>9. b = [header |-> b.header, txs |-> b.txs]
  BY LegalBlock
<1>. QED
  BY <1>3, <1>8, <1>9

(* The header is parsed as it was written.                                 *)
LEMMA HeaderReadBack ==
    ASSUME NEW b \in BlocksReceived, IsBlockLegal(b)
    PROVE  ParseHeader(SerializeBlock(b)) = b.header
<1>. DEFINE h == Header(b)
            body == Body(b)
            S == CellOf(b)
            p == SerializeBlock(b)
<1>1. /\ h \in Seq(S) /\ Len(h) = 4 /\ body \in Seq(S) /\ Len(body) \in Nat
      /\ p = h \o body
      /\ Len(p) = 4 + Len(body)
  BY BodyIs, LenProperties
<1>2. /\ h[1] = b.header.prev_block /\ h[2] = b.header.merkle_root
      /\ h[3] = b.header.timestamp /\ h[4] = b.header.nonce
  BY DEF Header, SerializeHeader
<1>. HIDE DEF h, body, S, p
<1>3. /\ p \in Seq(S)
      /\ p[1] = h[1] /\ p[2] = h[2] /\ p[3] = h[3] /\ p[4] = h[4]
  <2>1. /\ h \o body \in Seq(S)
        /\ \A i \in 1 .. Len(h) + Len(body) :
              (h \o body)[i] = IF i <= Len(h) THEN h[i] ELSE body[i - Len(h)]
    BY <1>1, ConcatProperties
  <2>2. \A i \in {1, 2, 3, 4} : i \in 1 .. Len(h) + Len(body) /\ i <= Len(h)
    BY <1>1
  <2>. QED
    BY <1>1, <2>1, <2>2
<1>4. ASSUME NEW k \in {2, 3}
      PROVE  Cell(Rest(p, k)) = p[k + 1]
  <2>. DEFINE r == Rest(p, k)
  <2>1. k + 1 \in Int /\ Len(p) \in Int /\ \A i \in k + 1 .. Len(p) : p[i] \in S
    <3>1. \A i \in k + 1 .. Len(p) : i \in 1 .. Len(p)
      BY <1>1
    <3>. QED
      BY <1>1, <1>3, <3>1, ElementOfSeq
  <2>2. /\ Len(r) = IF k + 1 <= Len(p) THEN Len(p) - (k + 1) + 1 ELSE 0
        /\ \A i \in 1 .. Len(p) - (k + 1) + 1 : r[i] = p[k + 1 + i - 1]
    BY <2>1, SubSeqProperties DEF Rest
  <2>. HIDE DEF r
  <2>3. Len(r) >= 1 /\ r[1] = p[k + 1]
    <3>1. 1 \in 1 .. Len(p) - (k + 1) + 1 /\ k + 1 + 1 - 1 = k + 1
      BY <1>1
    <3>2. r[1] = p[k + 1]
      BY <2>2, <3>1
    <3>3. Len(r) >= 1
      BY <1>1, <2>2
    <3>. QED
      BY <3>2, <3>3
  <2>4. Cell(r) = r[1]
    BY <2>3 DEF Cell, Cells
  <2>. QED
    BY <2>3, <2>4 DEF r
<1>5. Cell(p) = p[1]
  BY <1>1 DEF Cell, Cells
<1>6. Cell(Rest(p, 2)) = p[3] /\ Cell(Rest(p, 3)) = p[4]
  <2>1. Cell(Rest(p, 2)) = p[2 + 1] /\ Cell(Rest(p, 3)) = p[3 + 1]
    BY <1>4
  <2>. QED
    BY <2>1
<1>7. ParseHeader(p) = [prev_block |-> b.header.prev_block, merkle_root |-> b.header.merkle_root,
                        timestamp |-> b.header.timestamp, nonce |-> b.header.nonce]
  <2>1. Len(p) >= 2
    BY <1>1
  <2>. QED
    BY <1>2, <1>3, <1>5, <1>6, <2>1 DEF ParseHeader
<1>. QED
  BY <1>7, LegalBlock DEF p

(* What was saved to its end is read as it was.                            *)
LEMMA BlockReadBack ==
    ASSUME NEW b \in BlocksReceived, IsBlockLegal(b)
    PROVE  ParseBlock(SerializeBlock(b)) = b
<1>. DEFINE n == Len(b.txs)
            h == Header(b)
            body == Body(b)
            pieces == Pieces(b)
            S == CellOf(b)
<1>1. /\ n \in Nat \ {0} /\ n < Place[4] /\ b.txs \in Seq(Read)
      /\ \A k \in 1 .. n : /\ b.txs[k] \in Read
                           /\ b.txs[k].txInputs # << >>
                           /\ Len(SerializeTx(b.txs[k])) < Place[4]
                           /\ pieces[k] = SerializeTx(b.txs[k])
      /\ pieces \in [1 .. n -> Buffers]
      /\ body = SerializeToVarint(n) \o FlattenSeq(pieces) /\ body \in Buffers
      /\ h \in Seq(S) /\ Len(h) = 4 /\ body \in Seq(S)
      /\ SerializeBlock(b) = h \o body
  BY BodyIs, LegalBlock
<1>. HIDE DEF h, body, S, pieces
<1>2. Rest(SerializeBlock(b), 4) = body
  BY <1>1, RestBehind
<1>3. BackTxs(b.txs, pieces, n)
  <2>1. ASSUME NEW k \in 1 .. n, NEW r \in Buffers
        PROVE  ParseTx(pieces[k] \o r) = [item |-> b.txs[k], rest |-> r]
    <3>. HIDE DEF n
    <3>. QED
      BY <1>1, TxReadBack
  <2>. QED
    BY <2>1 DEF BackTxs
<1>4. ParseList(ParseTx, body).item = b.txs
  <2>1. Len(b.txs) = n
    OBVIOUS
  <2>. HIDE DEF n
  <2>. DEFINE list == SerializeToVarint(n) \o FlattenSeq(pieces)
              txs == b.txs
  <2>2. ParseList(ParseTx, list \o << >>).item = txs
    <3>1. /\ n \in Nat /\ n < Place[4] /\ txs \in Seq(Read) /\ Len(txs) = n
          /\ pieces \in [1 .. n -> Buffers] /\ BackTxs(txs, pieces, n)
      BY <1>1, <1>3, <2>1
    <3>2. << >> \in Buffers
      BY EmptyBuffer
    <3>. HIDE DEF txs
    <3>. QED
      BY <3>1, <3>2, TxListReadBack
  <2>. HIDE DEF list
  <2>3. body \o << >> = body
    BY <1>1, ConcatEmptySeq DEF Buffers
  <2>4. body = list
    BY <1>1 DEF list
  <2>. QED
    BY <2>2, <2>3, <2>4
<1>5. ParseBlock(SerializeBlock(b)) =
        [header |-> ParseHeader(SerializeBlock(b)),
         txs |-> ParseList(ParseTx, Rest(SerializeBlock(b), 4)).item]
  BY DEF ParseBlock
<1>6. ParseBlock(SerializeBlock(b)) = [header |-> b.header, txs |-> b.txs]
  BY <1>2, <1>4, <1>5, HeaderReadBack
<1>. QED
  BY <1>6, LegalBlock

-----------------------------------------------------------------------------
(* The file.                                                               *)

(* A file is there only of a legal block, and holds the start of it.       *)
FileIsStart ==
    /\ block \in BlocksReceived
    /\ file # {} =>
         /\ IsBlockLegal(block)
         /\ \E n \in 0 .. Len(SerializeBlock(block)) :
               file = {SubSeq(SerializeBlock(block), 1, n)}

BlockFileInv == FileIsStart /\ LoadedIsSaved

LEMMA SerializedLength ==
    ASSUME NEW b \in BlocksReceived, IsBlockLegal(b)
    PROVE  /\ Len(SerializeBlock(b)) \in Nat
           /\ SubSeq(SerializeBlock(b), 1, Len(SerializeBlock(b))) = SerializeBlock(b)
<1>1. /\ Header(b) \in Seq(CellOf(b)) /\ Body(b) \in Seq(CellOf(b))
      /\ SerializeBlock(b) = Header(b) \o Body(b)
  BY BodyIs
<1>2. SerializeBlock(b) \in Seq(CellOf(b))
  BY <1>1, ConcatProperties
<1>. QED
  BY <1>2, LenProperties, SubSeqFull

LEMMA BlockFileInvHolds == BlockFileSpec => []BlockFileInv
<1>1. BlockFileInit => BlockFileInv
  BY DEF BlockFileInit, BlockFileInv, FileIsStart, LoadedIsSaved, NothingLoaded
<1>2. BlockFileInv /\ [BlockFileNext]_fileVars => BlockFileInv'
  <2>. SUFFICES ASSUME BlockFileInv, [BlockFileNext]_fileVars
                PROVE  BlockFileInv'
    OBVIOUS
  <2>. USE DEF BlockFileInv
  <2>1. CASE SaveBlock
    <3>. DEFINE b == block
                cells == SerializeBlock(b)
    <3>1. /\ b \in BlocksReceived /\ IsBlockLegal(b) /\ block' = b
          /\ file' = {cells} /\ loaded' = NothingLoaded
      BY <2>1 DEF SaveBlock, FileIsStart
    <3>2. Len(cells) \in 0 .. Len(cells) /\ cells = SubSeq(cells, 1, Len(cells))
      BY <3>1, SerializedLength
    <3>3. FileIsStart'
      <4>. HIDE DEF cells
      <4>1. \E n \in 0 .. Len(cells) : file' = {SubSeq(cells, 1, n)}
        BY <3>1, <3>2
      <4>. QED
        BY <3>1, <4>1 DEF FileIsStart, cells
    <3>4. loaded'.status = "none"
      BY <3>1 DEF NothingLoaded
    <3>. QED
      BY <3>3, <3>4 DEF LoadedIsSaved
  <2>2. ASSUME NEW n \in 0 .. Len(SerializeBlock(block)), SaveBlockTorn(n)
        PROVE  BlockFileInv'
    <3>1. /\ block \in BlocksReceived /\ IsBlockLegal(block) /\ block' = block
          /\ file' = {SubSeq(SerializeBlock(block), 1, n)} /\ loaded' = NothingLoaded
      BY <2>2 DEF SaveBlockTorn, FileIsStart
    <3>2. FileIsStart'
      BY <3>1 DEF FileIsStart
    <3>3. loaded'.status = "none"
      BY <3>1 DEF NothingLoaded
    <3>. QED
      BY <3>2, <3>3 DEF LoadedIsSaved
  <2>3. CASE LoadBlock
    <3>1. PICK cells \in file : \E status \in LoadStatus(ParseBlock(cells)) :
             loaded' = [status |-> status, block |-> ParseBlock(cells)]
      BY <2>3 DEF LoadBlock
    <3>. DEFINE found == ParseBlock(cells)
    <3>2. PICK status \in LoadStatus(found) : loaded' = [status |-> status, block |-> found]
      BY <3>1
    <3>3. block' = block /\ file' = file
      BY <2>3 DEF LoadBlock
    <3>4. /\ block \in BlocksReceived /\ IsBlockLegal(block)
          /\ \E n \in 0 .. Len(SerializeBlock(block)) :
                file = {SubSeq(SerializeBlock(block), 1, n)}
      BY <3>1 DEF FileIsStart
    <3>5. FileIsStart'
      BY <3>3, <3>4 DEF FileIsStart
    <3>6. status = "OK" => found = block
      <4>. SUFFICES ASSUME status = "OK" PROVE found = block
        OBVIOUS
      <4>1. PICK n \in 0 .. Len(SerializeBlock(block)) :
               file = {SubSeq(SerializeBlock(block), 1, n)}
        BY <3>4
      <4>2. found = ParseBlock(SubSeq(SerializeBlock(block), 1, n))
        BY <4>1
      <4>. HIDE DEF found
      <4>3. found.header = block.header /\ found.txs # << >> /\ IsBlockLegal(found)
        BY <3>2 DEF LoadStatus
      <4>. QED
        BY <3>4, <4>2, <4>3, StartReadsAsBlock
    <3>7. file = {SerializeBlock(block)} => status = "OK"
      <4>. SUFFICES ASSUME file = {SerializeBlock(block)} PROVE status = "OK"
        OBVIOUS
      <4>1. found = block
        BY <3>4, BlockReadBack
      <4>2. block.txs # << >>
        BY <3>4 DEF IsBlockLegal
      <4>. HIDE DEF found
      <4>. QED
        BY <3>2, <3>4, <4>1, <4>2 DEF LoadStatus
    <3>. HIDE DEF found
    <3>. QED
      BY <3>2, <3>3, <3>5, <3>6, <3>7 DEF LoadedIsSaved
  <2>4. CASE UNCHANGED fileVars
    BY <2>4 DEF fileVars, FileIsStart, LoadedIsSaved
  <2>. QED
    BY <2>1, <2>2, <2>3, <2>4 DEF BlockFileNext
<1>. QED
  BY <1>1, <1>2, PTL DEF BlockFileSpec

(* What save_block has written under a header is what the header commits   *)
(* to, whatever the blocks are that are received and whenever the node is  *)
(* killed.                                                                 *)
THEOREM SavedStaysCommitted == BlockFileSpec => []SavedIsCommitted
<1>1. BlockFileInv => SavedIsCommitted
  <2>. SUFFICES ASSUME FileIsStart, file # {}
                PROVE  /\ block.header.merkle_root =
                            TreeRoot([k \in DOMAIN block.txs |-> HashTx(block.txs[k])])
                       /\ \A k \in DOMAIN block.txs : \A i \in DOMAIN block.txs[k].txInputs :
                            block.txs[k].txInputs[i].previous_output = <<0, NoIndex>>
                              <=> <<k, i>> = <<1, 1>>
    BY DEF BlockFileInv, SavedIsCommitted
  <2>1. block \in BlocksReceived /\ IsBlockLegal(block)
    BY DEF FileIsStart
  <2>2. Len(block.txs) \in Nat \ {0} /\ DOMAIN block.txs = 1 .. Len(block.txs)
    BY <2>1, BodyIs
  <2>3. ComputeMerkleRoot(block.txs) = TreeRoot(Leaves(block.txs))
    BY <2>2, RootOfTree
  <2>4. block.header.merkle_root = TreeRoot([k \in DOMAIN block.txs |-> HashTx(block.txs[k])])
    BY <2>1, <2>3 DEF IsBlockLegal, Leaves
  <2>5. /\ IsCoinbase(block.txs[1].txInputs[1])
        /\ \A k \in DOMAIN block.txs : \A i \in DOMAIN block.txs[k].txInputs :
              <<k, i>> # <<1, 1>> => ~ IsCoinbase(block.txs[k].txInputs[i])
    BY <2>1 DEF IsBlockLegal, OnlyOneCoinbase
  <2>6. ASSUME NEW k \in DOMAIN block.txs, NEW i \in DOMAIN block.txs[k].txInputs
        PROVE  block.txs[k].txInputs[i].previous_output = <<0, NoIndex>> <=> <<k, i>> = <<1, 1>>
    BY <2>5 DEF IsCoinbase, IsOutpointEmpty
  <2>. QED
    BY <2>4, <2>6
<1>. QED
  BY <1>1, BlockFileInvHolds, PTL

(* What load_block takes for a block is the one that was saved, and a file *)
(* that was written to its end is taken for it; one that was cut short,    *)
(* wherever, never reads as another legal block.                           *)
THEOREM LoadedStaysSaved == BlockFileSpec => []LoadedIsSaved
  BY BlockFileInvHolds, PTL DEF BlockFileInv

=============================================================================
