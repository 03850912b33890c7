------------------------------ MODULE Hashmap ------------------------------
(***************************************************************************)
(* The hash map that holds the block index (hashmap.c): an array of        *)
(* buckets, each a singly linked chain, here a sequence of nodes.  Its     *)
(* users (blockchain.c, persistent.c) enter a key only after a lookup      *)
(* missed it, change values in place, write the entries out in the order   *)
(* of hashmap_getkeys, and at the next start set genesis and then every    *)
(* saved entry.                                                            *)
(*                                                                         *)
(* hashmap_set is a map only under that use: setting a key that is present *)
(* drops the whole chain of its bucket or appends a second node (see       *)
(* SetInChain).  Setting genesis twice at every start is the one exception *)
(* and is harmless, since genesis was entered first and so heads its       *)
(* bucket, in memory and in the file.                                      *)
(***************************************************************************)
EXTENDS Integers, Sequences, SequencesExt

CONSTANTS
    Keys,          \* block hashes
    Values,        \* what an index may say
    BucketCount,   \* bucketCount
    BucketOf,      \* calculate_index
    Genesis,       \* global.genesisHash
    FreshGenesis   \* the index of genesis that load_genesis makes

Buckets == 0 .. BucketCount - 1

ASSUME HashmapAssumption ==
    /\ Genesis \in Keys
    /\ FreshGenesis \in Values
    /\ BucketCount \in Nat \ {0}
    /\ BucketOf \in [Keys -> Buckets]

VARIABLES
    data,   \* ptrHashmap->data
    file    \* the entries in block_indices.dat, in order

vars == <<data, file>>

Node == [key : Keys, value : Values]

NodeOf(k, v) == [key |-> k, value |-> v]

Empty == [b \in Buckets |-> << >>]

-----------------------------------------------------------------------------
(* Mutant of SetInChain: a new node becomes the head of its chain.         *)
SetAtHead(chain, node) ==
    IF \E i \in DOMAIN chain : chain[i].key = node.key /\ (i = 1 \/ i < Len(chain))
    THEN <<node>> ELSE <<node>> \o chain

(* hashmap_set on one chain.  A node with the same key that heads the      *)
(* chain is replaced by the new node, whose next is NULL; one further on,  *)
(* unless it is the last, which is not looked at, makes the new node       *)
(* replace the head.  Otherwise the node is appended.                      *)
SetInChain(chain, node) ==
    IF \E i \in DOMAIN chain : chain[i].key = node.key /\ (i = 1 \/ i < Len(chain))
    THEN <<node>> ELSE Append(chain, node)

Set(buckets, node) ==
    [buckets EXCEPT ![BucketOf[node.key]] = SetInChain(@, node)]

(* hashmap_get walks the chain to the first node with the key.             *)
Positions(buckets, k) ==
    {i \in DOMAIN buckets[BucketOf[k]] : buckets[BucketOf[k]][i].key = k}

Found(buckets, k) == Positions(buckets, k) # {}

First(positions) == CHOOSE i \in positions : \A j \in positions : i <= j

Get(buckets, k) == buckets[BucketOf[k]][First(Positions(buckets, k))].value

WriteChain(entries, chain) == entries \o chain

(* Mutant of Entries: chains are written from their last node.             *)
EntriesFromTail(buckets) ==
    FoldLeft(WriteChain, << >>, [i \in 1 .. BucketCount |-> Reverse(buckets[i - 1])])

(* hashmap_getkeys: bucket after bucket, each chain from its head.         *)
Entries(buckets) ==
    FoldLeft(WriteChain, << >>, [i \in 1 .. BucketCount |-> buckets[i - 1]])

-----------------------------------------------------------------------------
(* The users.                                                              *)

(* SET_BLOCK_INDEX in process_incoming_block_header, after a lookup.       *)
Enter(k, v) ==
    /\ ~ Found(data, k)
    /\ data' = Set(data, NodeOf(k, v))
    /\ UNCHANGED file

(* A write through the pointer hashmap_get returned.                       *)
Change(k, v) ==
    /\ Found(data, k)
    /\ data' = [data EXCEPT
                  ![BucketOf[k]][First(Positions(data, k))].value = v]
    /\ UNCHANGED file

(* save_block_indices.                                                     *)
Save ==
    /\ file' = Entries(data)
    /\ UNCHANGED data

(* init: an empty map, genesis from load_genesis, then the saved entries   *)
(* in their order (load_block_indices).                                    *)
Restart ==
    /\ data' = FoldLeft(Set, Set(Empty, NodeOf(Genesis, FreshGenesis)), file)
    /\ UNCHANGED file

Init ==
    /\ data = Set(Empty, NodeOf(Genesis, FreshGenesis))
    /\ file = <<NodeOf(Genesis, FreshGenesis)>>

Next ==
    \/ \E k \in Keys, v \in Values : Enter(k, v) \/ Change(k, v)
    \/ Save
    \/ Restart

Spec == Init /\ [][Next]_vars

-----------------------------------------------------------------------------
(* Properties.                                                             *)

TypeOK ==
    /\ data \in [Buckets -> Seq(Node)]
    /\ file \in Seq(Node)

(* Nodes are typed and in the bucket of their key, no key has two, and     *)
(* genesis heads its bucket and comes before the rest of it in the file:   *)
(* what makes setting genesis again at every start harmless (hashmap.c:    *)
(* 54-69, persistent.c:162-169).                                           *)
ChainsSound ==
    /\ TypeOK
    /\ \A b \in Buckets : \A i, j \in DOMAIN data[b] :
          /\ BucketOf[data[b][i].key] = b
          /\ data[b][i].key = data[b][j].key => i = j
    /\ data[BucketOf[Genesis]][1].key = Genesis
    /\ \A i, j \in DOMAIN file :
          /\ file[i].key = file[j].key => i = j
          /\ BucketOf[file[i].key] = BucketOf[Genesis] /\ file[j].key = Genesis
                => j <= i

(* The buckets and the file implement a map and its saved copy.            *)
Abstract == INSTANCE IndexMap WITH
    map  <- [k \in {x \in Keys : Found(data, x)} |-> Get(data, k)],
    copy <- [k \in {file[i].key : i \in DOMAIN file} |->
                file[CHOOSE i \in DOMAIN file : file[i].key = k].value]

ImplementsIndexMap == Abstract!Spec

=============================================================================
