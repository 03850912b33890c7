--------------------------- MODULE HashmapProofs ---------------------------
(***************************************************************************)
(* Proofs about Hashmap, for any keys, any number of buckets and any hash  *)
(* function.  The chains are shown to represent a map, and the file a copy *)
(* of it, and each use of hashmap_set by the code to do to that map what   *)
(* IndexMap says.  Setting a key that is present does so in one case only: *)
(* genesis, alone in its bucket.  So loading the file is right because     *)
(* genesis comes before the rest of its bucket in it, which is so because  *)
(* it heads its bucket in memory, which is so because it is loaded first.  *)
(***************************************************************************)
EXTENDS Hashmap, TLAPS

SetFold   == INSTANCE Folding WITH Op <- Set
WriteFold == INSTANCE Folding WITH Op <- WriteChain

Home == BucketOf[Genesis]

(* What the buckets, and the file, are a representation of.                *)
MapOf(buckets) == [k \in {x \in Keys : Found(buckets, x)} |-> Get(buckets, k)]

CopyOf(entries) ==
    [k \in {entries[i].key : i \in DOMAIN entries} |->
        entries[CHOOSE i \in DOMAIN entries : entries[i].key = k].value]

With(m, k, v) == [x \in DOMAIN m \cup {k} |-> IF x = k THEN v ELSE m[x]]

(* The chains hold the keys of m, each once and in its bucket, with the    *)
(* values m gives them.                                                    *)
Represents(buckets, m) ==
    /\ buckets \in [Buckets -> Seq(Node)]
    /\ \A b \in Buckets : \A i \in DOMAIN buckets[b] :
          /\ BucketOf[buckets[b][i].key] = b
          /\ buckets[b][i].key \in DOMAIN m
          /\ buckets[b][i].value = m[buckets[b][i].key]
          /\ \A j \in DOMAIN buckets[b] : buckets[b][i].key = buckets[b][j].key => i = j
    /\ m = [k \in DOMAIN m |-> m[k]]
    /\ \A k \in DOMAIN m :
          /\ k \in Keys
          /\ \E i \in DOMAIN buckets[BucketOf[k]] : buckets[BucketOf[k]][i].key = k

GenesisHeads(buckets) ==
    /\ 1 \in DOMAIN buckets[Home]
    /\ buckets[Home][1].key = Genesis

(* The entries are those of m whose bucket is one of the first n, each     *)
(* once, and genesis comes before the rest of its bucket.                  *)
Lists(entries, m, n) ==
    /\ entries \in Seq(Node)
    /\ \A i \in DOMAIN entries :
          /\ BucketOf[entries[i].key] < n
          /\ entries[i].key \in DOMAIN m
          /\ entries[i].value = m[entries[i].key]
          /\ \A j \in DOMAIN entries :
                /\ entries[i].key = entries[j].key => i = j
                /\ BucketOf[entries[i].key] = Home /\ entries[j].key = Genesis => j <= i
    /\ m = [k \in DOMAIN m |-> m[k]]
    /\ \A k \in DOMAIN m : BucketOf[k] < n => \E i \in DOMAIN entries : entries[i].key = k

HInv ==
    /\ ChainsSound
    /\ data[Home] # << >>
    /\ \E i \in DOMAIN file : file[i].key = Genesis

-----------------------------------------------------------------------------
(* Chains and maps.                                                        *)

LEMMA SetFoldIs ==
    \A base, seq : FoldLeft(Set, base, seq) = SetFold!FoldLeft(Set, base, seq)
  BY DEF FoldLeft, MapThenFoldSet, Max, SetFold!FoldLeft, SetFold!MapThenFoldSet, SetFold!Max

LEMMA WriteFoldIs ==
    \A base, seq : FoldLeft(WriteChain, base, seq) = WriteFold!FoldLeft(WriteChain, base, seq)
  BY DEF FoldLeft, MapThenFoldSet, Max, WriteFold!FoldLeft, WriteFold!MapThenFoldSet,
         WriteFold!Max

(* A lookup finds what the chains represent.                               *)
LEMMA PositionsIs ==
    ASSUME NEW buckets, NEW m, Represents(buckets, m), NEW k \in Keys
    PROVE  /\ Found(buckets, k) <=> k \in DOMAIN m
           /\ \A i \in DOMAIN buckets[BucketOf[k]] :
                 buckets[BucketOf[k]][i].key = k => Positions(buckets, k) = {i}
           /\ k \in DOMAIN m => Get(buckets, k) = m[k]
<1>. DEFINE chain == buckets[BucketOf[k]]
<1>1. BucketOf[k] \in Buckets /\ chain \in Seq(Node)
  BY HashmapAssumption DEF Represents
<1>2. Positions(buckets, k) = {i \in DOMAIN chain : chain[i].key = k}
  BY DEF Positions
<1>3. \A i \in DOMAIN chain : chain[i].key = k => Positions(buckets, k) = {i}
  BY <1>1, <1>2 DEF Represents
<1>4. Found(buckets, k) <=> k \in DOMAIN m
  BY <1>1, <1>2 DEF Found, Represents
<1>5. ASSUME k \in DOMAIN m
      PROVE  Get(buckets, k) = m[k]
  <2>1. PICK i \in DOMAIN chain : chain[i].key = k
    BY <1>5 DEF Represents
  <2>2. Positions(buckets, k) = {i} /\ i \in Nat
    BY <1>1, <1>3, <2>1
  <2>3. First({i}) = i
    BY <2>2 DEF First
  <2>. QED
    BY <1>1, <2>1, <2>2, <2>3 DEF Get, Represents
<1>. QED
  BY <1>3, <1>4, <1>5

LEMMA MapIs ==
    ASSUME NEW buckets, NEW m, Represents(buckets, m)
    PROVE  MapOf(buckets) = m
<1>1. \A k \in Keys :
         /\ Found(buckets, k) <=> k \in DOMAIN m
         /\ k \in DOMAIN m => Get(buckets, k) = m[k]
  BY PositionsIs
<1>2. \A k \in DOMAIN m : k \in Keys
  BY DEF Represents
<1>3. {x \in Keys : Found(buckets, x)} = DOMAIN m
  BY <1>1, <1>2
<1>4. \A k \in DOMAIN m : Get(buckets, k) = m[k]
  BY <1>1, <1>2
<1>5. m = [k \in DOMAIN m |-> m[k]]
  BY DEF Represents
<1>. QED
  BY <1>3, <1>4, <1>5, Zenon DEF MapOf

LEMMA CopyIs ==
    ASSUME NEW entries, NEW m, Lists(entries, m, BucketCount),
           \A k \in DOMAIN m : k \in Keys
    PROVE  CopyOf(entries) = m
<1>1. {entries[i].key : i \in DOMAIN entries} = DOMAIN m
  <2>1. \A k \in DOMAIN m : BucketOf[k] < BucketCount
    BY HashmapAssumption DEF Buckets
  <2>2. \A k \in DOMAIN m : \E i \in DOMAIN entries : entries[i].key = k
    BY <2>1 DEF Lists
  <2>3. \A i \in DOMAIN entries : entries[i].key \in DOMAIN m
    BY DEF Lists
  <2>. QED
    BY <2>2, <2>3
<1>2. ASSUME NEW k \in DOMAIN m
      PROVE  entries[CHOOSE i \in DOMAIN entries : entries[i].key = k].value = m[k]
  <2>1. \E i \in DOMAIN entries : entries[i].key = k
    BY <1>1
  <2>. QED
    BY <2>1 DEF Lists
<1>3. m = [k \in DOMAIN m |-> m[k]]
  BY DEF Lists
<1>. QED
  BY <1>1, <1>2, <1>3, Zenon DEF CopyOf

(* Sound chains represent what a lookup finds in them.                     *)
LEMMA SoundRepresents ==
    ASSUME HInv
    PROVE  /\ Represents(data, MapOf(data))
           /\ GenesisHeads(data)
           /\ Lists(file, CopyOf(file), BucketCount)
           /\ \A k \in DOMAIN CopyOf(file) : k \in Keys
           /\ Genesis \in DOMAIN CopyOf(file)
<1>. DEFINE m == MapOf(data)
            c == CopyOf(file)
<1>1. data \in [Buckets -> Seq(Node)] /\ file \in Seq(Node)
  BY DEF HInv, ChainsSound, TypeOK
<1>2. \A b \in Buckets : \A i \in DOMAIN data[b] :
         /\ data[b][i] \in Node
         /\ data[b][i].key \in Keys
         /\ BucketOf[data[b][i].key] = b
         /\ \A j \in DOMAIN data[b] : data[b][i].key = data[b][j].key => i = j
  <2>1. \A b \in Buckets : \A i \in DOMAIN data[b] : data[b][i] \in Node
    BY <1>1
  <2>2. \A node \in Node : node.key \in Keys
    BY DEF Node
  <2>. QED
    BY <2>1, <2>2 DEF HInv, ChainsSound
<1>3. \A k \in Keys : BucketOf[k] \in Buckets
  BY HashmapAssumption
<1>4. DOMAIN m = {x \in Keys : Found(data, x)}
  BY DEF MapOf
<1>5. ASSUME NEW b \in Buckets, NEW i \in DOMAIN data[b]
      PROVE  data[b][i].key \in DOMAIN m /\ data[b][i].value = m[data[b][i].key]
  <2>. DEFINE k == data[b][i].key
  <2>1. Positions(data, k) = {i}
    BY <1>2 DEF Positions
  <2>2. i \in Nat
    BY <1>1
  <2>3. First({i}) = i
    BY <2>2 DEF First
  <2>4. k \in DOMAIN m
    BY <1>2, <1>4, <2>1 DEF Found
  <2>5. m[k] = Get(data, k)
    BY <1>4, <2>4 DEF MapOf
  <2>. QED
    BY <1>2, <2>1, <2>3, <2>4, <2>5 DEF Get
<1>6. \A k \in DOMAIN m :
         k \in Keys /\ \E i \in DOMAIN data[BucketOf[k]] : data[BucketOf[k]][i].key = k
  BY <1>4 DEF Found, Positions
<1>7. m = [k \in DOMAIN m |-> m[k]]
  BY DEF MapOf
<1>8. Represents(data, m)
  <2>. HIDE DEF m
  <2>. QED
    BY <1>1, <1>2, <1>5, <1>6, <1>7 DEF Represents
<1>9. GenesisHeads(data)
  <2>1. Home \in Buckets
    BY HashmapAssumption DEF Home
  <2>2. data[Home] \in Seq(Node) /\ data[Home] # << >>
    BY <1>1, <2>1 DEF HInv
  <2>3. 1 \in DOMAIN data[Home]
    BY <2>2
  <2>. QED
    BY <2>3 DEF HInv, ChainsSound, GenesisHeads, Home
<1>10. \A i \in DOMAIN file :
         /\ file[i].key \in Keys
         /\ \A j \in DOMAIN file :
               /\ file[i].key = file[j].key => i = j
               /\ BucketOf[file[i].key] = Home /\ file[j].key = Genesis => j <= i
  <2>1. \A i \in DOMAIN file : file[i] \in Node
    BY <1>1
  <2>2. \A node \in Node : node.key \in Keys
    BY DEF Node
  <2>. QED
    BY <2>1, <2>2 DEF HInv, ChainsSound, Home
<1>11. DOMAIN c = {file[i].key : i \in DOMAIN file} /\ c = [k \in DOMAIN c |-> c[k]]
  BY DEF CopyOf
<1>12. ASSUME NEW i \in DOMAIN file
       PROVE  file[i].key \in DOMAIN c /\ file[i].value = c[file[i].key]
  <2>1. file[i].key \in DOMAIN c
    BY <1>11
  <2>2. c[file[i].key] = file[CHOOSE j \in DOMAIN file : file[j].key = file[i].key].value
    BY <1>11, <2>1 DEF CopyOf
  <2>3. (CHOOSE j \in DOMAIN file : file[j].key = file[i].key) = i
    BY <1>10
  <2>. QED
    BY <2>1, <2>2, <2>3
<1>13. \A k \in DOMAIN c : k \in Keys /\ \E i \in DOMAIN file : file[i].key = k
  BY <1>10, <1>11
<1>14. \A k \in Keys : BucketOf[k] < BucketCount
  BY <1>3, HashmapAssumption DEF Buckets
<1>15. Lists(file, c, BucketCount)
  <2>. HIDE DEF c
  <2>. QED
    BY <1>1, <1>10, <1>11, <1>12, <1>13, <1>14 DEF Lists
<1>16. Genesis \in DOMAIN c
  BY <1>11 DEF HInv
<1>. QED
  BY <1>8, <1>9, <1>13, <1>15, <1>16

(* And chains and a file that represent maps with genesis are sound.       *)
LEMMA RepresentsSound ==
    ASSUME NEW buckets, NEW m, Represents(buckets, m), GenesisHeads(buckets),
           NEW entries, NEW c, Lists(entries, c, BucketCount), Genesis \in DOMAIN c
    PROVE  /\ buckets \in [Buckets -> Seq(Node)] /\ entries \in Seq(Node)
           /\ \A b \in Buckets : \A i, j \in DOMAIN buckets[b] :
                 /\ BucketOf[buckets[b][i].key] = b
                 /\ buckets[b][i].key = buckets[b][j].key => i = j
           /\ buckets[Home] # << >> /\ buckets[Home][1].key = Genesis
           /\ \A i, j \in DOMAIN entries :
                 /\ entries[i].key = entries[j].key => i = j
                 /\ BucketOf[entries[i].key] = Home /\ entries[j].key = Genesis => j <= i
           /\ \E i \in DOMAIN entries : entries[i].key = Genesis
<1>1. buckets \in [Buckets -> Seq(Node)] /\ entries \in Seq(Node)
  BY DEF Represents, Lists
<1>2. \A b \in Buckets : \A i, j \in DOMAIN buckets[b] :
         /\ BucketOf[buckets[b][i].key] = b
         /\ buckets[b][i].key = buckets[b][j].key => i = j
  BY DEF Represents
<1>3. \A i, j \in DOMAIN entries :
         /\ entries[i].key = entries[j].key => i = j
         /\ BucketOf[entries[i].key] = Home /\ entries[j].key = Genesis => j <= i
  BY DEF Lists
<1>4. buckets[Home] # << >> /\ buckets[Home][1].key = Genesis
  BY DEF GenesisHeads
<1>5. \E i \in DOMAIN entries : entries[i].key = Genesis
  BY HashmapAssumption DEF Lists, Buckets
<1>. QED
  BY <1>1, <1>2, <1>3, <1>4, <1>5

-----------------------------------------------------------------------------
(* The operations.                                                         *)

(* A key that is not there is appended to its chain.                       *)
LEMMA SetNew ==
    ASSUME NEW buckets, NEW m, Represents(buckets, m),
           NEW k \in Keys, k \notin DOMAIN m, NEW v \in Values
    PROVE  /\ Represents(Set(buckets, NodeOf(k, v)), With(m, k, v))
           /\ GenesisHeads(buckets) => GenesisHeads(Set(buckets, NodeOf(k, v)))
           /\ BucketOf[k] # Home => Set(buckets, NodeOf(k, v))[Home] = buckets[Home]
<1>. DEFINE node == NodeOf(k, v)
            b == BucketOf[k]
            chain == buckets[b]
            next == Set(buckets, node)
            n == With(m, k, v)
<1>1. /\ b \in Buckets /\ Home \in Buckets /\ buckets \in [Buckets -> Seq(Node)]
      /\ chain \in Seq(Node)
      /\ node \in Node /\ node.key = k /\ node.value = v
  BY HashmapAssumption DEF Represents, NodeOf, Node, Home
<1>2. \A i \in DOMAIN chain : chain[i].key # k
  BY <1>1 DEF Represents
<1>3. SetInChain(chain, node) = Append(chain, node)
  BY <1>1, <1>2 DEF SetInChain
<1>4. next = [buckets EXCEPT ![b] = Append(chain, node)]
  BY <1>1, <1>3 DEF Set
<1>. HIDE DEF node, next
<1>5. /\ DOMAIN next = Buckets
      /\ next[b] = Append(chain, node)
      /\ \A c \in Buckets \ {b} : next[c] = buckets[c]
  BY <1>1, <1>4
<1>6. /\ Append(chain, node) \in Seq(Node)
      /\ DOMAIN Append(chain, node) = DOMAIN chain \cup {Len(chain) + 1}
      /\ \A i \in DOMAIN chain : Append(chain, node)[i] = chain[i]
      /\ Append(chain, node)[Len(chain) + 1] = node
      /\ Len(chain) + 1 \notin DOMAIN chain
  BY <1>1
<1>7. next \in [Buckets -> Seq(Node)]
  BY <1>1, <1>4, <1>6
<1>8. /\ DOMAIN n = DOMAIN m \cup {k}
      /\ n[k] = v
      /\ \A x \in DOMAIN m : n[x] = m[x]
      /\ n = [x \in DOMAIN n |-> n[x]]
  BY DEF With
<1>. HIDE DEF n
<1>9. ASSUME NEW c \in Buckets, NEW i \in DOMAIN next[c]
      PROVE  /\ BucketOf[next[c][i].key] = c
             /\ next[c][i].key \in DOMAIN n
             /\ next[c][i].value = n[next[c][i].key]
             /\ \A j \in DOMAIN next[c] : next[c][i].key = next[c][j].key => i = j
  <2>1. \A j \in DOMAIN buckets[c] :
           /\ BucketOf[buckets[c][j].key] = c
           /\ buckets[c][j].key \in DOMAIN m
           /\ buckets[c][j].value = m[buckets[c][j].key]
           /\ \A h \in DOMAIN buckets[c] : buckets[c][j].key = buckets[c][h].key => j = h
    BY DEF Represents
  <2>2. CASE c # b
    BY <1>5, <1>8, <1>9, <2>1, <2>2
  <2>3. CASE c = b
    <3>1. DOMAIN next[c] = DOMAIN chain \cup {Len(chain) + 1}
      BY <1>5, <1>6, <2>3
    <3>2. CASE i \in DOMAIN chain
      <4>1. next[c][i] = chain[i] /\ chain[i].key \in DOMAIN m /\ chain[i].key # k
        BY <1>2, <1>5, <1>6, <2>1, <2>3, <3>2
      <4>2. /\ BucketOf[chain[i].key] = c
            /\ chain[i].value = n[chain[i].key]
            /\ chain[i].key \in DOMAIN n
        BY <1>8, <2>1, <2>3, <3>2, <4>1
      <4>3. \A j \in DOMAIN next[c] : chain[i].key = next[c][j].key => i = j
        BY <1>1, <1>5, <1>6, <2>1, <2>3, <3>1, <3>2, <4>1
      <4>. QED
        BY <4>1, <4>2, <4>3
    <3>3. CASE i = Len(chain) + 1
      <4>1. next[c][i] = node /\ BucketOf[k] = c
        BY <1>5, <1>6, <2>3, <3>3
      <4>2. /\ BucketOf[next[c][i].key] = c
            /\ next[c][i].key \in DOMAIN n
            /\ next[c][i].value = n[next[c][i].key]
        BY <1>1, <1>8, <4>1
      <4>3. ASSUME NEW j \in DOMAIN next[c], next[c][i].key = next[c][j].key
            PROVE  i = j
        <5>1. j \notin DOMAIN chain
          <6>. SUFFICES ASSUME j \in DOMAIN chain PROVE FALSE
            OBVIOUS
          <6>1. next[c][j] = chain[j] /\ chain[j].key # k
            BY <1>2, <1>5, <1>6, <2>3
          <6>2. next[c][i].key = k
            BY <1>1, <4>1
          <6>. QED
            BY <4>3, <6>1, <6>2
        <5>. QED
          BY <3>1, <3>3, <5>1
      <4>. QED
        BY <4>2, <4>3
    <3>. QED
      BY <1>9, <3>1, <3>2, <3>3
  <2>. QED
    BY <2>2, <2>3
<1>10. ASSUME NEW x \in DOMAIN n
       PROVE  /\ x \in Keys
              /\ \E i \in DOMAIN next[BucketOf[x]] : next[BucketOf[x]][i].key = x
  <2>1. CASE x = k
    BY <1>1, <1>5, <1>6, <2>1
  <2>2. CASE x \in DOMAIN m
    <3>1. /\ x \in Keys
          /\ \E i \in DOMAIN buckets[BucketOf[x]] : buckets[BucketOf[x]][i].key = x
      BY <2>2 DEF Represents
    <3>2. BucketOf[x] \in Buckets
      BY <3>1, HashmapAssumption
    <3>. QED
      BY <1>5, <1>6, <3>1, <3>2
  <2>. QED
    BY <1>8, <2>1, <2>2
<1>11. Represents(next, n)
  BY <1>7, <1>8, <1>9, <1>10 DEF Represents
<1>12. GenesisHeads(buckets) => GenesisHeads(next)
  BY <1>1, <1>5, <1>6 DEF GenesisHeads
<1>13. b # Home => next[Home] = buckets[Home]
  BY <1>1, <1>5
<1>. QED
  BY <1>11, <1>12, <1>13 DEF n, next, node

(* Genesis, alone in its bucket, is replaced.                              *)
LEMMA SetAlone ==
    ASSUME NEW buckets, NEW m, Represents(buckets, m),
           NEW u, buckets[Home] = <<NodeOf(Genesis, u)>>, NEW v \in Values
    PROVE  /\ Represents(Set(buckets, NodeOf(Genesis, v)), With(m, Genesis, v))
           /\ GenesisHeads(Set(buckets, NodeOf(Genesis, v)))
           /\ Set(buckets, NodeOf(Genesis, v))[Home] = <<NodeOf(Genesis, v)>>
<1>. DEFINE node == NodeOf(Genesis, v)
            next == Set(buckets, node)
            n == With(m, Genesis, v)
<1>1. /\ Home \in Buckets /\ buckets \in [Buckets -> Seq(Node)]
      /\ node \in Node /\ node.key = Genesis /\ node.value = v
  BY HashmapAssumption DEF Represents, NodeOf, Node, Home
<1>2. SetInChain(buckets[Home], node) = <<node>>
  <2>1. 1 \in DOMAIN <<NodeOf(Genesis, u)>> /\ <<NodeOf(Genesis, u)>>[1].key = node.key
    BY <1>1 DEF NodeOf
  <2>. QED
    BY <2>1 DEF SetInChain
<1>3. next = [buckets EXCEPT ![Home] = <<node>>]
  BY <1>1, <1>2 DEF Set, Home
<1>. HIDE DEF node, next
<1>4. /\ DOMAIN next = Buckets
      /\ next[Home] = <<node>>
      /\ \A c \in Buckets \ {Home} : next[c] = buckets[c]
      /\ next \in [Buckets -> Seq(Node)]
      /\ DOMAIN next[Home] = {1} /\ next[Home][1] = node
  BY <1>1, <1>3
<1>5. /\ DOMAIN n = DOMAIN m \cup {Genesis}
      /\ n[Genesis] = v
      /\ \A x \in DOMAIN m \ {Genesis} : n[x] = m[x]
      /\ n = [x \in DOMAIN n |-> n[x]]
  BY DEF With
<1>. HIDE DEF n
<1>6. ASSUME NEW c \in Buckets, NEW i \in DOMAIN next[c]
      PROVE  /\ BucketOf[next[c][i].key] = c
             /\ next[c][i].key \in DOMAIN n
             /\ next[c][i].value = n[next[c][i].key]
             /\ \A j \in DOMAIN next[c] : next[c][i].key = next[c][j].key => i = j
  <2>1. CASE c = Home
    BY <1>1, <1>4, <1>5, <1>6, <2>1 DEF Home
  <2>2. CASE c # Home
    <3>1. next[c] = buckets[c]
      BY <1>4, <2>2
    <3>2. \A j \in DOMAIN buckets[c] :
             /\ BucketOf[buckets[c][j].key] = c
             /\ buckets[c][j].key \in DOMAIN m
             /\ buckets[c][j].value = m[buckets[c][j].key]
             /\ \A h \in DOMAIN buckets[c] : buckets[c][j].key = buckets[c][h].key => j = h
      BY DEF Represents
    <3>. QED
      BY <1>5, <1>6, <2>2, <3>1, <3>2 DEF Home
  <2>. QED
    BY <2>1, <2>2
<1>7. ASSUME NEW x \in DOMAIN n
      PROVE  /\ x \in Keys
             /\ \E i \in DOMAIN next[BucketOf[x]] : next[BucketOf[x]][i].key = x
  <2>1. CASE x = Genesis
    BY <1>1, <1>4, <2>1, HashmapAssumption DEF Home
  <2>2. CASE x \in DOMAIN m \ {Genesis}
    <3>1. /\ x \in Keys
          /\ \E i \in DOMAIN buckets[BucketOf[x]] : buckets[BucketOf[x]][i].key = x
      BY <2>2 DEF Represents
    <3>2. BucketOf[x] \in Buckets
      BY <3>1, HashmapAssumption
    <3>3. BucketOf[x] # Home
      BY <2>2, <3>1 DEF NodeOf
    <3>. QED
      BY <1>4, <3>1, <3>2, <3>3
  <2>. QED
    BY <1>5, <2>1, <2>2
<1>8. Represents(next, n)
  BY <1>4, <1>5, <1>6, <1>7 DEF Represents
<1>9. GenesisHeads(next)
  BY <1>1, <1>4 DEF GenesisHeads
<1>. QED
  BY <1>4, <1>8, <1>9 DEF n, next, node

(* Chains with the same keys and other values.                             *)
LEMMA SameKeys ==
    ASSUME NEW buckets, NEW m, Represents(buckets, m),
           NEW next \in [Buckets -> Seq(Node)], NEW n,
           \A c \in Buckets :
              /\ DOMAIN next[c] = DOMAIN buckets[c]
              /\ \A j \in DOMAIN buckets[c] : next[c][j].key = buckets[c][j].key,
           DOMAIN n = DOMAIN m,
           n = [x \in DOMAIN n |-> n[x]],
           \A c \in Buckets : \A j \in DOMAIN next[c] : next[c][j].value = n[next[c][j].key]
    PROVE  Represents(next, n)
<1>1. \A c \in Buckets : \A j \in DOMAIN next[c] :
         /\ BucketOf[next[c][j].key] = c
         /\ next[c][j].key \in DOMAIN n
         /\ \A h \in DOMAIN next[c] : next[c][j].key = next[c][h].key => j = h
  BY DEF Represents
<1>2. \A x \in DOMAIN n :
         /\ x \in Keys
         /\ \E j \in DOMAIN next[BucketOf[x]] : next[BucketOf[x]][j].key = x
  BY HashmapAssumption DEF Represents
<1>. QED
  BY <1>1, <1>2 DEF Represents

(* A value written through the pointer that a lookup returned.             *)
LEMMA ChangeInPlace ==
    ASSUME NEW buckets, NEW m, Represents(buckets, m),
           NEW k \in DOMAIN m, NEW v \in Values
    PROVE  LET next == [buckets EXCEPT
                          ![BucketOf[k]][First(Positions(buckets, k))].value = v]
           IN  /\ Represents(next, [m EXCEPT ![k] = v])
               /\ GenesisHeads(buckets) => GenesisHeads(next)
<1>. DEFINE b == BucketOf[k]
            chain == buckets[b]
            n == [m EXCEPT ![k] = v]
            next == [buckets EXCEPT ![BucketOf[k]][First(Positions(buckets, k))].value = v]
<1>1. k \in Keys /\ b \in Buckets /\ buckets \in [Buckets -> Seq(Node)] /\ chain \in Seq(Node)
  BY HashmapAssumption DEF Represents
<1>2. PICK i \in DOMAIN chain : chain[i].key = k
  BY DEF Represents
<1>3. First(Positions(buckets, k)) = i
  <2>1. Positions(buckets, k) = {i} /\ i \in Nat
    BY <1>1, <1>2, PositionsIs
  <2>2. First({i}) = i
    BY <2>1 DEF First
  <2>. QED
    BY <2>1, <2>2
<1>4. next = [buckets EXCEPT ![b] = [chain EXCEPT ![i] = [chain[i] EXCEPT !.value = v]]]
  BY <1>3
<1>5. /\ chain[i] \in Node
      /\ [chain[i] EXCEPT !.value = v] \in Node
      /\ [chain[i] EXCEPT !.value = v].key = k
      /\ [chain[i] EXCEPT !.value = v].value = v
  <2>1. chain[i] \in Node
    BY <1>1
  <2>2. \A u \in Node : /\ [u EXCEPT !.value = v] \in Node
                       /\ [u EXCEPT !.value = v].key = u.key
                       /\ [u EXCEPT !.value = v].value = v
    BY DEF Node
  <2>. HIDE DEF chain
  <2>. QED
    BY <1>2, <2>1, <2>2
<1>. DEFINE node == [chain[i] EXCEPT !.value = v]
            after == [chain EXCEPT ![i] = node]
<1>. HIDE DEF node
<1>6. /\ after \in Seq(Node) /\ DOMAIN after = DOMAIN chain
      /\ after[i] = node
      /\ \A j \in DOMAIN chain \ {i} : after[j] = chain[j]
  BY <1>1, <1>5 DEF node
<1>7. /\ next \in [Buckets -> Seq(Node)]
      /\ next[b] = after
      /\ \A c \in Buckets \ {b} : next[c] = buckets[c]
  <2>1. next = [buckets EXCEPT ![b] = after]
    BY <1>4 DEF node
  <2>. HIDE DEF after, next
  <2>. QED
    BY <1>1, <1>6, <2>1
<1>. HIDE DEF after, next
<1>8. \A c \in Buckets : /\ DOMAIN next[c] = DOMAIN buckets[c]
                         /\ \A j \in DOMAIN buckets[c] : next[c][j].key = buckets[c][j].key
  BY <1>1, <1>2, <1>5, <1>6, <1>7 DEF node
<1>9. m = [x \in DOMAIN m |-> m[x]]
  BY DEF Represents
<1>10. /\ DOMAIN n = DOMAIN m
       /\ n[k] = v
       /\ \A x \in DOMAIN m \ {k} : n[x] = m[x]
       /\ n = [x \in DOMAIN n |-> n[x]]
  BY <1>9
<1>. HIDE DEF n
<1>11. ASSUME NEW c \in Buckets, NEW j \in DOMAIN next[c]
       PROVE  next[c][j].value = n[next[c][j].key]
  <2>1. /\ buckets[c][j].value = m[buckets[c][j].key]
        /\ BucketOf[buckets[c][j].key] = c
        /\ buckets[c][j].key \in DOMAIN m
        /\ \A h \in DOMAIN buckets[c] : buckets[c][j].key = buckets[c][h].key => j = h
    BY <1>8, <1>11 DEF Represents
  <2>2. CASE c = b /\ j = i
    BY <1>5, <1>6, <1>7, <1>10, <2>2 DEF node
  <2>3. CASE c = b /\ j # i
    <3>1. j \in DOMAIN chain \ {i} /\ next[c][j] = chain[j]
      BY <1>1, <1>6, <1>7, <1>8, <1>11, <2>3
    <3>2. chain[j].key \in DOMAIN m \ {k} /\ chain[j].value = m[chain[j].key]
      BY <1>2, <2>1, <2>3
    <3>. QED
      BY <1>10, <3>1, <3>2
  <2>4. CASE c # b
    BY <1>7, <1>10, <2>1, <2>4
  <2>. QED
    BY <2>2, <2>3, <2>4
<1>12. Represents(next, n)
  <2>1. next \in [Buckets -> Seq(Node)]
    BY <1>7
  <2>2. \A c \in Buckets : \A j \in DOMAIN next[c] : next[c][j].value = n[next[c][j].key]
    BY <1>11
  <2>3. DOMAIN n = DOMAIN m /\ n = [x \in DOMAIN n |-> n[x]]
    BY <1>10
  <2>. QED
    BY <1>8, <2>1, <2>2, <2>3, SameKeys
<1>13. GenesisHeads(buckets) => GenesisHeads(next)
  BY <1>8, HashmapAssumption DEF GenesisHeads, Home
<1>. QED
  BY <1>12, <1>13 DEF n, next

(* The entries written, bucket after bucket.                               *)
LEMMA EntriesList ==
    ASSUME NEW buckets, NEW m, Represents(buckets, m), GenesisHeads(buckets)
    PROVE  Lists(Entries(buckets), m, BucketCount)
<1>. DEFINE n == BucketCount
            seq == [i \in 1 .. n |-> buckets[i - 1]]
            I == [k \in 0 .. n |-> {f \in Seq(Node) : Lists(f, m, k)}]
<1>1. n \in Nat \ {0} /\ Buckets = 0 .. n - 1
  BY HashmapAssumption DEF Buckets
<1>2. buckets \in [Buckets -> Seq(Node)] /\ \A x \in DOMAIN m : BucketOf[x] \in Buckets
  BY HashmapAssumption DEF Represents
<1>3. << >> \in I[0]
  <2>1. Lists(<< >>, m, 0)
    BY <1>1, <1>2 DEF Lists, Represents
  <2>. QED
    BY <1>1, <2>1
<1>4. ASSUME NEW k \in 1 .. n, NEW f \in I[k - 1]
      PROVE  WriteChain(f, seq[k]) \in I[k]
  <2>. DEFINE c == k - 1
              chain == buckets[c]
              g == f \o chain
  <2>1. /\ c \in Buckets /\ c \in Nat /\ seq[k] = chain /\ chain \in Seq(Node)
        /\ f \in Seq(Node) /\ Lists(f, m, c)
    BY <1>1, <1>2
  <2>2. g \in Seq(Node) /\ Len(g) = Len(f) + Len(chain) /\ Len(f) \in Nat /\ Len(chain) \in Nat
    BY <2>1
  <2>3. \A i \in 1 .. Len(f) : i \in DOMAIN f /\ g[i] = f[i]
    BY <2>1
  <2>4. \A i \in 1 .. Len(chain) : i \in DOMAIN chain /\ g[Len(f) + i] = chain[i]
    BY <2>1
  <2>5. \A i \in DOMAIN g : i \in 1 .. Len(f) \/ i - Len(f) \in 1 .. Len(chain)
    BY <2>2
  <2>6. \A i \in 1 .. Len(f) :
           /\ BucketOf[f[i].key] < c
           /\ f[i].key \in DOMAIN m
           /\ f[i].value = m[f[i].key]
           /\ \A j \in 1 .. Len(f) :
                 /\ f[i].key = f[j].key => i = j
                 /\ BucketOf[f[i].key] = Home /\ f[j].key = Genesis => j <= i
    BY <2>1, <2>3 DEF Lists
  <2>7. \A i \in 1 .. Len(chain) :
           /\ BucketOf[chain[i].key] = c
           /\ chain[i].key \in DOMAIN m
           /\ chain[i].value = m[chain[i].key]
           /\ \A j \in 1 .. Len(chain) : chain[i].key = chain[j].key => i = j
    BY <2>1, <2>4 DEF Represents
  <2>8. c = Home => \A j \in 1 .. Len(chain) : chain[j].key = Genesis => j = 1
    <3>1. c = Home => 1 \in 1 .. Len(chain) /\ chain[1].key = Genesis
      BY <2>1 DEF GenesisHeads
    <3>. QED
      BY <2>7, <3>1
  <2>. HIDE DEF g, chain, c
  <2>9. \A x \in DOMAIN m : BucketOf[x] \in Int
    BY <1>1, <1>2
  <2>10. ASSUME NEW i \in DOMAIN g
         PROVE  /\ BucketOf[g[i].key] < k
                /\ g[i].key \in DOMAIN m
                /\ g[i].value = m[g[i].key]
    <3>1. CASE i \in 1 .. Len(f)
      <4>1. g[i] = f[i] /\ BucketOf[f[i].key] < c /\ f[i].key \in DOMAIN m
            /\ f[i].value = m[f[i].key]
        BY <2>3, <2>6, <3>1
      <4>2. BucketOf[f[i].key] < k
        BY <2>1, <2>9, <4>1 DEF c
      <4>. QED
        BY <4>1, <4>2
    <3>2. CASE i - Len(f) \in 1 .. Len(chain)
      <4>. DEFINE h == i - Len(f)
      <4>1. g[i] = chain[h]
        <5>1. i = Len(f) + h /\ i \in Nat
          BY <2>2, <2>10
        <5>. QED
          BY <2>4, <3>2, <5>1
      <4>2. BucketOf[chain[h].key] = c /\ chain[h].key \in DOMAIN m
            /\ chain[h].value = m[chain[h].key]
        BY <2>7, <3>2
      <4>3. c < k
        BY DEF c
      <4>. QED
        BY <4>1, <4>2, <4>3
    <3>. QED
      BY <2>5, <3>1, <3>2
  <2>11. ASSUME NEW i \in DOMAIN g, NEW j \in DOMAIN g
         PROVE  /\ g[i].key = g[j].key => i = j
                /\ BucketOf[g[i].key] = Home /\ g[j].key = Genesis => j <= i
    <3>. DEFINE p == i - Len(f)
                q == j - Len(f)
    <3>0. i \in Nat /\ j \in Nat /\ i = Len(f) + p /\ j = Len(f) + q /\ p \in Int /\ q \in Int
      BY <2>2
    <3>1. \/ /\ i \in 1 .. Len(f) /\ g[i] = f[i]
             /\ BucketOf[f[i].key] < c /\ BucketOf[f[i].key] \in Int
          \/ p \in 1 .. Len(chain) /\ g[i] = chain[p] /\ BucketOf[chain[p].key] = c
      BY <2>3, <2>4, <2>5, <2>6, <2>7, <2>9, <3>0
    <3>2. \/ /\ j \in 1 .. Len(f) /\ g[j] = f[j]
             /\ BucketOf[f[j].key] < c /\ BucketOf[f[j].key] \in Int
          \/ q \in 1 .. Len(chain) /\ g[j] = chain[q] /\ BucketOf[chain[q].key] = c
      BY <2>3, <2>4, <2>5, <2>6, <2>7, <2>9, <3>0
    <3>3. c \in Int
      BY <2>1
    <3>. HIDE DEF p, q
    <3>4. CASE i \in 1 .. Len(f) /\ g[i] = f[i] /\ j \in 1 .. Len(f) /\ g[j] = f[j]
      BY <2>6, <3>4
    <3>5. CASE p \in 1 .. Len(chain) /\ g[i] = chain[p] /\ q \in 1 .. Len(chain) /\ g[j] = chain[q]
      <4>1. g[i].key = g[j].key => i = j
        BY <2>7, <3>0, <3>5
      <4>2. ASSUME BucketOf[g[i].key] = Home, g[j].key = Genesis
            PROVE  j <= i
        <5>1. c = Home
          BY <2>7, <3>5, <4>2
        <5>2. q = 1
          BY <2>8, <3>5, <4>2, <5>1
        <5>. QED
          BY <2>2, <3>0, <3>5, <5>2
      <4>. QED
        BY <4>1, <4>2
    <3>6. CASE /\ i \in 1 .. Len(f) /\ g[i] = f[i] /\ BucketOf[f[i].key] < c
               /\ BucketOf[f[i].key] \in Int
               /\ q \in 1 .. Len(chain) /\ g[j] = chain[q] /\ BucketOf[chain[q].key] = c
      BY <3>3, <3>6 DEF Home
    <3>7. CASE /\ p \in 1 .. Len(chain) /\ g[i] = chain[p] /\ BucketOf[chain[p].key] = c
               /\ j \in 1 .. Len(f) /\ g[j] = f[j] /\ BucketOf[f[j].key] < c
               /\ BucketOf[f[j].key] \in Int
      BY <2>2, <3>0, <3>3, <3>7
    <3>. QED
      BY <3>1, <3>2, <3>4, <3>5, <3>6, <3>7
  <2>12. ASSUME NEW x \in DOMAIN m, BucketOf[x] < k
         PROVE  \E i \in DOMAIN g : g[i].key = x
    <3>1. CASE BucketOf[x] < c
      <4>1. PICK i \in DOMAIN f : f[i].key = x
        BY <2>1, <3>1 DEF Lists
      <4>2. i \in 1 .. Len(f)
        BY <2>1
      <4>3. g[i].key = x /\ i \in DOMAIN g
        BY <2>2, <2>3, <4>1, <4>2
      <4>. QED
        BY <4>3
    <3>2. CASE BucketOf[x] = c
      <4>1. PICK i \in DOMAIN chain : chain[i].key = x
        BY <3>2 DEF Represents, chain
      <4>2. i \in 1 .. Len(chain)
        BY <2>1, <4>1
      <4>3. g[Len(f) + i].key = x /\ Len(f) + i \in DOMAIN g
        BY <2>2, <2>4, <4>1, <4>2
      <4>. QED
        BY <4>3
    <3>3. BucketOf[x] < c \/ BucketOf[x] = c
      BY <2>1, <2>9, <2>12 DEF c
    <3>. QED
      BY <3>1, <3>2, <3>3
  <2>13. m = [x \in DOMAIN m |-> m[x]]
    BY DEF Represents
  <2>14. Lists(g, m, k)
    BY <2>2, <2>10, <2>11, <2>12, <2>13 DEF Lists
  <2>15. WriteChain(f, seq[k]) = g
    BY <2>1 DEF WriteChain, g
  <2>. QED
    BY <1>1, <2>2, <2>14, <2>15
<1>5. Entries(buckets) \in I[n]
  <2>1. DOMAIN seq = 1 .. n
    OBVIOUS
  <2>2. \A k \in 1 .. n : \A f \in I[k - 1] : WriteChain(f, seq[k]) \in I[k]
    BY <1>4
  <2>3. Entries(buckets) = FoldLeft(WriteChain, << >>, seq)
    BY DEF Entries
  <2>. HIDE DEF I, seq, n
  <2>4. n \in Nat
    BY <1>1
  <2>5. WriteFold!FoldLeft(WriteChain, << >>, seq) \in I[n]
    BY <1>3, <2>1, <2>2, <2>4, WriteFold!FoldLeftInduction
  <2>. QED
    BY <2>3, <2>5, WriteFoldIs
<1>. QED
  BY <1>1, <1>5

(* The map a start begins with.                                            *)
LEMMA FirstMap ==
    LET buckets == Set(Empty, NodeOf(Genesis, FreshGenesis))
    IN  /\ Represents(buckets, [k \in {Genesis} |-> FreshGenesis])
        /\ GenesisHeads(buckets)
        /\ buckets[Home] = <<NodeOf(Genesis, FreshGenesis)>>
<1>. DEFINE buckets == Set(Empty, NodeOf(Genesis, FreshGenesis))
            none == [k \in {} |-> FreshGenesis]
            node == NodeOf(Genesis, FreshGenesis)
<1>1. Home \in Buckets /\ Genesis \in Keys /\ FreshGenesis \in Values
  BY HashmapAssumption DEF Home
<1>2. Empty \in [Buckets -> Seq(Node)] /\ \A b \in Buckets : Empty[b] = << >>
  BY DEF Empty
<1>3. Represents(Empty, none)
  BY <1>2 DEF Represents
<1>4. Represents(buckets, With(none, Genesis, FreshGenesis))
  BY <1>1, <1>3, SetNew
<1>5. With(none, Genesis, FreshGenesis) = [k \in {Genesis} |-> FreshGenesis]
  BY DEF With
<1>6. buckets[Home] = <<node>>
  <2>1. SetInChain(Empty[Home], node) = Append(<< >>, node)
    <3>1. \A i : i \notin DOMAIN << >>
      OBVIOUS
    <3>. QED
      BY <1>1, <1>2, <3>1 DEF SetInChain
  <2>2. buckets = [Empty EXCEPT ![Home] = Append(<< >>, node)]
    BY <2>1 DEF Set, NodeOf, Home
  <2>3. Append(<< >>, node) = <<node>>
    OBVIOUS
  <2>. QED
    BY <1>1, <1>2, <2>2, <2>3
<1>7. GenesisHeads(buckets)
  BY <1>6 DEF GenesisHeads, NodeOf
<1>. QED
  BY <1>4, <1>5, <1>6, <1>7

(* Loading the file over it makes the map the file is a copy of.           *)
LEMMA LoadRestores ==
    ASSUME NEW entries, NEW c, Lists(entries, c, BucketCount),
           Genesis \in DOMAIN c, \A k \in DOMAIN c : k \in Keys
    PROVE  LET buckets == FoldLeft(Set, Set(Empty, NodeOf(Genesis, FreshGenesis)), entries)
           IN  Represents(buckets, c) /\ GenesisHeads(buckets)
<1>. DEFINE n == Len(entries)
            base == Set(Empty, NodeOf(Genesis, FreshGenesis))
            Read(k) == {entries[i].key : i \in 1 .. k}
            M(k) == [x \in {Genesis} \cup Read(k) |->
                        IF x \in Read(k) THEN c[x] ELSE FreshGenesis]
            Good(B, k) == /\ Represents(B, M(k))
                          /\ GenesisHeads(B)
                          /\ Genesis \notin Read(k)
                                => B[Home] = <<NodeOf(Genesis, FreshGenesis)>>
            I == [k \in 0 .. n |-> {B \in [Buckets -> Seq(Node)] : Good(B, k)}]
<1>1. /\ entries \in Seq(Node) /\ n \in Nat /\ DOMAIN entries = 1 .. n
      /\ \A i \in 1 .. n : entries[i] \in Node
  BY DEF Lists
<1>2. \A node \in Node : /\ node.key \in Keys /\ node.value \in Values
                         /\ node = NodeOf(node.key, node.value)
  BY DEF Node, NodeOf
<1>3. base \in I[0]
  <2>1. Read(0) = {}
    OBVIOUS
  <2>2. M(0) = [k \in {Genesis} |-> FreshGenesis]
    BY <2>1
  <2>3. Good(base, 0)
    BY <2>2, FirstMap
  <2>4. base \in [Buckets -> Seq(Node)]
    BY <2>3 DEF Represents
  <2>. QED
    BY <1>1, <2>3, <2>4
<1>4. ASSUME NEW k \in 1 .. n, NEW B \in I[k - 1]
      PROVE  Set(B, entries[k]) \in I[k]
  <2>. DEFINE x == entries[k].key
              v == entries[k].value
              next == Set(B, NodeOf(x, v))
  <2>1. Good(B, k - 1) /\ k - 1 \in 0 .. n
    BY <1>1
  <2>2. /\ x \in Keys /\ v \in Values /\ entries[k] = NodeOf(x, v)
        /\ x \in DOMAIN c /\ v = c[x]
    BY <1>1, <1>2 DEF Lists
  <2>3. Read(k) = Read(k - 1) \cup {x}
    <3>1. \A i : i \in 1 .. k <=> i \in 1 .. k - 1 \/ i = k
      BY <1>1
    <3>. QED
      BY <3>1
  <2>4. x \notin Read(k - 1)
    BY <1>1 DEF Lists
  <2>. HIDE DEF Read
  <2>5. M(k) = With(M(k - 1), x, v)
    <3>1. DOMAIN M(k - 1) = {Genesis} \cup Read(k - 1)
      OBVIOUS
    <3>2. {Genesis} \cup Read(k) = DOMAIN M(k - 1) \cup {x}
      BY <2>3
    <3>3. \A y \in {Genesis} \cup Read(k) :
             (IF y \in Read(k) THEN c[y] ELSE FreshGenesis)
                = (IF y = x THEN v ELSE M(k - 1)[y])
      BY <2>2, <2>3, <2>4
    <3>. QED
      BY <3>2, <3>3, Zenon DEF With
  <2>6. DOMAIN M(k - 1) = {Genesis} \cup Read(k - 1)
    OBVIOUS
  <2>. HIDE DEF M
  <2>7. ASSUME x = Genesis PROVE Good(next, k)
    <3>1. B[Home] = <<NodeOf(Genesis, FreshGenesis)>>
      BY <2>1, <2>4, <2>7
    <3>2. Represents(next, M(k)) /\ GenesisHeads(next)
      BY <2>1, <2>2, <2>5, <2>7, <3>1, SetAlone
    <3>3. Genesis \in Read(k)
      BY <2>3, <2>7
    <3>. QED
      BY <3>2, <3>3
  <2>8. ASSUME x # Genesis PROVE Good(next, k)
    <3>1. x \notin DOMAIN M(k - 1)
      BY <2>4, <2>6, <2>8
    <3>2. /\ Represents(next, M(k))
          /\ GenesisHeads(next)
          /\ BucketOf[x] # Home => next[Home] = B[Home]
      BY <2>1, <2>2, <2>5, <3>1, SetNew
    <3>3. Genesis \notin Read(k) => BucketOf[x] # Home
      <4>. SUFFICES ASSUME BucketOf[x] = Home, Genesis \notin Read(k)
                    PROVE  FALSE
        OBVIOUS
      <4>1. PICK j \in 1 .. n : entries[j].key = Genesis
        <5>1. BucketOf[Genesis] < BucketCount
          BY HashmapAssumption DEF Buckets
        <5>. QED
          BY <1>1, <5>1 DEF Lists
      <4>2. j <= k
        BY <1>1, <4>1 DEF Lists
      <4>. QED
        BY <4>1, <4>2 DEF Read
    <3>4. Genesis \notin Read(k) => next[Home] = <<NodeOf(Genesis, FreshGenesis)>>
      BY <2>1, <2>3, <3>2, <3>3
    <3>. QED
      BY <3>2, <3>4
  <2>9. Good(next, k)
    BY <2>7, <2>8
  <2>10. next \in [Buckets -> Seq(Node)]
    BY <2>9 DEF Represents
  <2>. HIDE DEF Good, next
  <2>11. Set(B, entries[k]) = next
    BY <2>2 DEF next
  <2>. QED
    BY <1>1, <2>9, <2>10, <2>11
<1>5. FoldLeft(Set, base, entries) \in I[n]
  <2>. HIDE DEF I, base, n
  <2>1. \A k \in 1 .. n : \A B \in I[k - 1] : Set(B, entries[k]) \in I[k]
    BY <1>4
  <2>2. SetFold!FoldLeft(Set, base, entries) \in I[n]
    BY <1>1, <1>3, <2>1, SetFold!FoldLeftInduction
  <2>. QED
    BY <2>2, SetFoldIs
<1>6. M(n) = c
  <2>1. Read(n) = DOMAIN c
    <3>1. \A x \in DOMAIN c : BucketOf[x] < BucketCount
      BY HashmapAssumption DEF Buckets
    <3>2. \A x \in DOMAIN c : \E i \in 1 .. n : entries[i].key = x
      BY <1>1, <3>1 DEF Lists
    <3>3. \A i \in 1 .. n : entries[i].key \in DOMAIN c
      BY <1>1 DEF Lists
    <3>. QED
      BY <3>2, <3>3
  <2>2. c = [x \in DOMAIN c |-> c[x]]
    BY DEF Lists
  <2>. HIDE DEF Read, n
  <2>3. {Genesis} \cup Read(n) = DOMAIN c
    BY <2>1
  <2>. QED
    BY <2>1, <2>2, <2>3
<1>. HIDE DEF M, Read
<1>. QED
  BY <1>1, <1>5, <1>6

-----------------------------------------------------------------------------
(* The steps.                                                              *)

LEMMA InitSound ==
    ASSUME Init
    PROVE  HInv /\ Abstract!Init
<1>. DEFINE m == [k \in {Genesis} |-> FreshGenesis]
<1>1. Represents(data, m) /\ GenesisHeads(data)
  BY FirstMap DEF Init
<1>2. /\ file = <<NodeOf(Genesis, FreshGenesis)>>
      /\ DOMAIN file = {1} /\ file[1].key = Genesis /\ file[1].value = FreshGenesis
      /\ file \in Seq(Node)
  BY HashmapAssumption DEF Init, NodeOf, Node
<1>3. BucketOf[Genesis] < BucketCount
  BY HashmapAssumption DEF Buckets
<1>4. Lists(file, m, BucketCount)
  BY <1>2, <1>3 DEF Lists
<1>5. Genesis \in DOMAIN m /\ \A k \in DOMAIN m : k \in Keys
  BY HashmapAssumption
<1>6. MapOf(data) = m /\ CopyOf(file) = m
  BY <1>1, <1>4, <1>5, MapIs, CopyIs
<1>7. HInv
  BY <1>1, <1>4, <1>5, RepresentsSound DEF HInv, ChainsSound, TypeOK, Home
<1>. QED
  BY <1>6, <1>7 DEF Abstract!Init, MapOf, CopyOf

LEMMA StepSound ==
    ASSUME HInv, [Next]_vars
    PROVE  HInv' /\ [Abstract!Next]_Abstract!vars
<1>. DEFINE m == MapOf(data)
            c == CopyOf(file)
<1>1. /\ Represents(data, m) /\ GenesisHeads(data)
      /\ Lists(file, c, BucketCount)
      /\ Genesis \in DOMAIN c /\ \A k \in DOMAIN c : k \in Keys
  BY SoundRepresents
<1>2. Abstract!vars = <<m, c>> /\ Abstract!vars' = <<MapOf(data'), CopyOf(file')>>
  BY DEF Abstract!vars, MapOf, CopyOf
<1>3. DOMAIN m = {k \in Keys : Found(data, k)}
  BY DEF MapOf
<1>. HIDE DEF m, c
<1>4. ASSUME NEW n, NEW d, Represents(data', n), GenesisHeads(data'),
             Lists(file', d, BucketCount), Genesis \in DOMAIN d,
             \A k \in DOMAIN d : k \in Keys
      PROVE  HInv' /\ MapOf(data') = n /\ CopyOf(file') = d
  <2>1. MapOf(data') = n /\ CopyOf(file') = d
    BY <1>4, MapIs, CopyIs
  <2>2. HInv'
    BY <1>4, RepresentsSound DEF HInv, ChainsSound, TypeOK, Home
  <2>. QED
    BY <2>1, <2>2
<1>5. ASSUME NEW k \in Keys, NEW v \in Values, Enter(k, v)
      PROVE  HInv' /\ Abstract!Enter(k, v)
  <2>1. k \notin DOMAIN m /\ data' = Set(data, NodeOf(k, v)) /\ file' = file
    BY <1>3, <1>5 DEF Enter
  <2>2. Represents(data', With(m, k, v)) /\ GenesisHeads(data')
    BY <1>1, <2>1, SetNew
  <2>3. HInv' /\ MapOf(data') = With(m, k, v) /\ CopyOf(file') = c
    BY <1>1, <1>4, <2>1, <2>2
  <2>. QED
    BY <2>1, <2>3 DEF Abstract!Enter, With, m, c, MapOf, CopyOf
<1>6. ASSUME NEW k \in Keys, NEW v \in Values, Change(k, v)
      PROVE  HInv' /\ Abstract!Change(k, v)
  <2>1. k \in DOMAIN m /\ file' = file
    BY <1>3, <1>6 DEF Change
  <2>2. data' = [data EXCEPT ![BucketOf[k]][First(Positions(data, k))].value = v]
    BY <1>6 DEF Change
  <2>3. Represents(data', [m EXCEPT ![k] = v]) /\ GenesisHeads(data')
    BY <1>1, <2>1, <2>2, ChangeInPlace
  <2>4. HInv' /\ MapOf(data') = [m EXCEPT ![k] = v] /\ CopyOf(file') = c
    BY <1>1, <1>4, <2>1, <2>3
  <2>. QED
    BY <2>1, <2>4 DEF Abstract!Change, m, c, MapOf, CopyOf
<1>7. ASSUME Save
      PROVE  HInv' /\ Abstract!Save
  <2>1. Lists(file', m, BucketCount) /\ data' = data
    BY <1>1, <1>7, EntriesList DEF Save
  <2>2. Genesis \in DOMAIN m /\ \A k \in DOMAIN m : k \in Keys
    BY <1>1, HashmapAssumption DEF GenesisHeads, Represents, Home
  <2>3. HInv' /\ MapOf(data') = m /\ CopyOf(file') = m
    BY <1>1, <1>4, <2>1, <2>2
  <2>. QED
    BY <2>3 DEF Abstract!Save, m, MapOf, CopyOf
<1>8. ASSUME Restart
      PROVE  HInv' /\ Abstract!Restart
  <2>1. Represents(data', c) /\ GenesisHeads(data') /\ file' = file
    BY <1>1, <1>8, LoadRestores DEF Restart
  <2>2. HInv' /\ MapOf(data') = c /\ CopyOf(file') = c
    BY <1>1, <1>4, <2>1
  <2>. QED
    BY <2>2 DEF Abstract!Restart, c, MapOf, CopyOf
<1>9. CASE UNCHANGED vars
  <2>1. data' = data /\ file' = file
    BY <1>9 DEF vars
  <2>2. HInv'
    BY <2>1 DEF HInv, ChainsSound, TypeOK
  <2>3. UNCHANGED Abstract!vars
    BY <1>2, <2>1 DEF m, c
  <2>. QED
    BY <2>2, <2>3
<1>. QED
  BY <1>5, <1>6, <1>7, <1>8, <1>9 DEF Next, Abstract!Next

(* The inductive invariant of the map holds in every reachable state.      *)
THEOREM HInvCorrect == Spec => []HInv
<1>. QED
  BY InitSound, StepSound, PTL DEF Spec

(* The chains stay sound, and genesis heads its bucket and comes before    *)
(* the rest of it in the file: that is why setting genesis, which is       *)
(* present, twice at every start loses nothing, whatever keys share its    *)
(* bucket (hashmap_set, hashmap_getkeys, load_block_indices).              *)
THEOREM ChainsSoundCorrect == Spec => []ChainsSound
<1>1. HInv => ChainsSound
  BY DEF HInv
<1>. QED
  BY <1>1, HInvCorrect, PTL

(* The hash map and its file implement a map and a saved copy of it: every *)
(* key entered is found with its last value, and a start brings back what  *)
(* was saved.                                                              *)
THEOREM ImplementsIndexMapCorrect == Spec => ImplementsIndexMap
<1>1. Init => Abstract!Init
  BY InitSound
<1>2. HInv /\ [Next]_vars => [Abstract!Next]_Abstract!vars
  BY StepSound
<1>. QED
  BY <1>1, <1>2, HInvCorrect, PTL DEF Spec, ImplementsIndexMap, Abstract!Spec

=============================================================================
