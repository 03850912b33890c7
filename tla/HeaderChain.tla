---------------------------- MODULE HeaderChain ----------------------------
(***************************************************************************)
(* The block index of the node: every header it has accepted, the tree     *)
(* those headers form, the orphanage, and the tip of the header chain      *)
(* (blockchain.c, process_incoming_block_header and get_maximal_target).   *)
(*                                                                         *)
(* A header is known by its hash, so a block is a member of Blocks and     *)
(* what its header says is a constant function of it: Prev is prev_block,  *)
(* Work is calc_block_pow(target).  A hash the node cannot know (the       *)
(* zeroed prev_block of the genesis block) is NoHash.                      *)
(*                                                                         *)
(* Work is a double, and the work of a chain is a sum of doubles, rounded  *)
(* at every block.  The header path never compares the claimed target with *)
(* anything, so a block may have little work or none (calc_block_pow of    *)
(* target 0 is 0), and its chain then no more work than its parent's.      *)
(***************************************************************************)
EXTENDS Integers, FiniteSets, Sequences

CONSTANTS
    Blocks,         \* hashes of all the headers a peer may send
    Genesis,        \* global.genesisHash
    NoHash,         \* a hash of no block; also an empty slot of an array
    Prev,           \* header.prev_block
    Work,           \* calc_block_pow(header.target)
    PowValues,      \* the doubles not below 0, as multiples of the smallest
    RoundPow(_),    \* an exact sum of two of them, rounded
    MaxChildren,    \* MAX_CHILDREN_PER_BLOCK
    MaxOrphans,     \* MAX_ORPHAN_COUNT
    RetargetPeriod  \* mainnet.retargetPeriod

ChildrenOf(p) == {b \in Blocks : Prev[b] = p}

(* Genesis carries work, so that the first run makes it the header tip.    *)
ASSUME HeaderAssumption ==
    /\ IsFiniteSet(Blocks)
    /\ Genesis \in Blocks
    /\ NoHash \notin Blocks
    /\ Prev \in [Blocks -> Blocks \cup {NoHash}]
    /\ Prev[Genesis] = NoHash

Distance(m, n) == IF m < n THEN n - m ELSE m - n

(* A sum is rounded to a double that is nearest.                           *)
ASSUME PowAssumption ==
    /\ PowValues \subseteq Nat
    /\ Work \in [Blocks -> PowValues]
    /\ Work[Genesis] > 0
    /\ \A x, w \in PowValues :
          /\ RoundPow(x + w) \in PowValues
          /\ \A v \in PowValues :
                Distance(RoundPow(x + w), x + w) <= Distance(v, x + w)

(* The children array of an index has MAX_CHILDREN_PER_BLOCK slots and the *)
(* append at blockchain.c:350 does not check it: the model stays with the  *)
(* trees in which no block has more children than that.                    *)
ASSUME ChildrenAssumption ==
    /\ MaxChildren \in Nat
    /\ \A p \in Blocks : Cardinality(ChildrenOf(p)) <= MaxChildren

ASSUME ParameterAssumption ==
    /\ MaxOrphans \in Nat \ {0}
    /\ RetargetPeriod \in Nat \ {0, 1}

VARIABLES
    blockIndices,   \* global.blockIndices: hash -> context of the header
    mainHeaderTip,  \* global.mainHeaderTip, a copy and not a pointer
    orphans,        \* global.orphans, a ring of hashes
    orphanCount     \* global.orphanCount, the next slot of the ring

headerVars == <<blockIndices, mainHeaderTip, orphans, orphanCount>>

-----------------------------------------------------------------------------
(* State.                                                                  *)

MAINCHAIN == "MAINCHAIN"
SIDECHAIN == "SIDECHAIN"
ORPHAN    == "ORPHAN"

Context == [chainStatus : {MAINCHAIN, SIDECHAIN, ORPHAN},
            height      : Nat,
            chainPOW    : PowValues,
            children    : Seq(Blocks)]

Tip == [hash : Blocks, height : Nat, chainPOW : PowValues]

Slots == 0 .. MaxOrphans - 1

Indexed == DOMAIN blockIndices

(* The index knows b's parent and lists b among its children.              *)
IsLinked(b) ==
    /\ Prev[b] \in Indexed
    /\ \E i \in DOMAIN blockIndices[Prev[b]].children :
          blockIndices[Prev[b]].children[i] = b

Unlinked == {b \in Indexed : ~ IsLinked(b)}

OnMainchain(b) == blockIndices[b].chainStatus = MAINCHAIN

-----------------------------------------------------------------------------
(* process_incoming_block_header.                                          *)

(* Mutant of ChildStatus: the test for an earlier child is dropped.        *)
ChildStatusNoFork(parent) == parent.chainStatus

(* The status a child takes from its parent's context: the first child of  *)
(* a main chain block continues the main chain, every later one and every  *)
(* descendant of a side chain is a side chain.                             *)
ChildStatus(parent) ==
    IF parent.chainStatus = MAINCHAIN
    THEN IF parent.children = << >> THEN MAINCHAIN ELSE SIDECHAIN
    ELSE parent.chainStatus

(* parent->context.chainPOW + calc_block_pow(index.header.target).         *)
AddPow(x, w) == RoundPow(x + w)

(* Mutant of NewContext: a header without a parent goes on the tip.        *)
NewContextOnTip(b) ==
    LET parent == IF Prev[b] \in Indexed THEN blockIndices[Prev[b]]
                  ELSE blockIndices[mainHeaderTip.hash]
    IN  [chainStatus |-> ChildStatus(parent),
         height      |-> parent.height + 1,
         chainPOW    |-> AddPow(parent.chainPOW, Work[b]),
         children    |-> << >>]

(* The context of a new header.  One whose parent is not indexed keeps the *)
(* zeroes of the memset: height 0 and status 0, which is MAINCHAIN.        *)
NewContext(b) ==
    IF Prev[b] \in Indexed
    THEN LET parent == blockIndices[Prev[b]]
         IN  [chainStatus |-> ChildStatus(parent),
              height      |-> parent.height + 1,
              chainPOW    |-> AddPow(parent.chainPOW, Work[b]),
              children    |-> << >>]
    ELSE [chainStatus |-> MAINCHAIN,
          height      |-> 0,
          chainPOW    |-> Work[b],
          children    |-> << >>]

(* Append b to the children of its parent, if the parent is indexed, and   *)
(* enter b with its new context.                                           *)
LinkAndSet(b) ==
    [h \in Indexed \cup {b} |->
        IF h = b THEN NewContext(b)
        ELSE IF h = Prev[b]
        THEN [blockIndices[h] EXCEPT !.children = Append(@, b)]
        ELSE blockIndices[h]]

(* Mutants of IsNewTip: each drops one of its two conjuncts.               *)
IsNewTipAnyChain(context) == context.chainPOW > mainHeaderTip.chainPOW
IsNewTip(context) ==
    /\ context.chainStatus = MAINCHAIN
    /\ context.chainPOW > mainHeaderTip.chainPOW

(* Mutant of AddOrphan: the ring never wraps.                              *)
AddOrphanUnwrapped(b) ==
    /\ orphans' = [orphans EXCEPT ![orphanCount % MaxOrphans] = b]
    /\ orphanCount' = orphanCount + 1

(* Mutant of AddOrphan: the count is not raised.                           *)
AddOrphanInPlace(b) ==
    LET slot == IF orphanCount >= MaxOrphans THEN 0 ELSE orphanCount
    IN  /\ orphans' = [orphans EXCEPT ![slot] = b]
        /\ UNCHANGED orphanCount

(* add_orphan: the ring wraps when the last slot has been used.            *)
AddOrphan(b) ==
    LET slot == IF orphanCount >= MaxOrphans THEN 0 ELSE orphanCount
    IN  /\ orphans' = [orphans EXCEPT ![slot] = b]
        /\ orphanCount' = slot + 1

(* Mutant of AcceptHeader: the lookup that answers HEADER_EXISTED is gone. *)
AcceptHeaderAgain(b) ==
    LET context == NewContext(b)
    IN  /\ IF Prev[b] \in Indexed
           THEN UNCHANGED <<orphans, orphanCount>>
           ELSE AddOrphan(b)
        /\ blockIndices' = LinkAndSet(b)
        /\ mainHeaderTip' = IF IsNewTip(context)
                            THEN [hash     |-> b,
                                  height   |-> context.height,
                                  chainPOW |-> context.chainPOW]
                            ELSE mainHeaderTip

(* A header that is not indexed yet.  is_block_header_valid is true of     *)
(* every header (it compares a zeroed hash with the target), so a legal    *)
(* header is always entered.                                               *)
AcceptHeader(b) ==
    LET context == NewContext(b)
    IN  /\ b \notin Indexed
        /\ IF Prev[b] \in Indexed
           THEN UNCHANGED <<orphans, orphanCount>>
           ELSE AddOrphan(b)
        /\ blockIndices' = LinkAndSet(b)
        /\ mainHeaderTip' = IF IsNewTip(context)
                            THEN [hash     |-> b,
                                  height   |-> context.height,
                                  chainPOW |-> context.chainPOW]
                            ELSE mainHeaderTip

(* HEADER_EXISTED, or a timestamp more than two hours ahead of the clock   *)
(* (-2): no state changes, and the header may be sent again.               *)
RejectHeader(b, legal) ==
    /\ ~ legal \/ b \in Indexed
    /\ UNCHANGED headerVars

ReceiveHeader(b, legal) ==
    \/ legal /\ AcceptHeader(b)
    \/ RejectHeader(b, legal)

-----------------------------------------------------------------------------
(* The state load_genesis leaves on a first run, when nothing is indexed:  *)
(* genesis has no parent, so it goes through the orphanage like any other  *)
(* header without one.                                                     *)
Init ==
    /\ blockIndices = [h \in {Genesis} |->
                          [chainStatus |-> MAINCHAIN,
                           height      |-> 0,
                           chainPOW    |-> Work[Genesis],
                           children    |-> << >>]]
    /\ mainHeaderTip = [hash |-> Genesis, height |-> 0,
                        chainPOW |-> Work[Genesis]]
    /\ orphans = [s \in Slots |-> IF s = 0 THEN Genesis ELSE NoHash]
    /\ orphanCount = 1

Next == \E b \in Blocks, legal \in BOOLEAN : ReceiveHeader(b, legal)

Spec == Init /\ [][Next]_headerVars

-----------------------------------------------------------------------------
(* Walks over the index.                                                   *)

(* Mutant of LookBack: the walk starts at the block itself.                *)
LookBackFromSelf(b) ==
    LET walk[n \in 0 .. RetargetPeriod - 1] ==
          IF n = 0 THEN b
          ELSE IF walk[n - 1] \in Indexed THEN Prev[walk[n - 1]] ELSE NoHash
    IN  walk

(* get_maximal_target: from the parent of b back along prev_block, one     *)
(* hash for each of the retargetLookBackPeriod steps.  The walk of the     *)
(* code fails (-2) at a hash that is not indexed; here it stays at NoHash. *)
LookBack(b) ==
    LET walk[n \in 0 .. RetargetPeriod - 1] ==
          IF n = 0 THEN Prev[b]
          ELSE IF walk[n - 1] \in Indexed THEN Prev[walk[n - 1]] ELSE NoHash
    IN  walk

(* The path children.hashes[0] leads along, from a given block: what       *)
(* find_missing_blocks, max_full_block_height_from_genesis and             *)
(* validate_blocks follow.                                                 *)
FirstChild(h) ==
    IF h \in Indexed /\ blockIndices[h].children # << >>
    THEN blockIndices[h].children[1] ELSE NoHash

FirstChildWalk(root) ==
    LET walk[n \in 0 .. Cardinality(Blocks)] ==
          IF n = 0 THEN root ELSE FirstChild(walk[n - 1])
    IN  walk

FirstChildPath(root) ==
    LET walk == FirstChildWalk(root)
    IN  {walk[n] : n \in DOMAIN walk} \ {NoHash}

-----------------------------------------------------------------------------
(* Properties.                                                             *)

TypeOK ==
    /\ Indexed \subseteq Blocks
    /\ Genesis \in Indexed
    /\ blockIndices \in [Indexed -> Context]
    /\ mainHeaderTip \in Tip
    /\ orphans \in [Slots -> Blocks \cup {NoHash}]
    /\ orphanCount \in 1 .. MaxOrphans

(* The children of an indexed block are indexed, name it as their          *)
(* prev_block, stand one higher and have its work and their own, rounded;  *)
(* the first one continues its chain and every other one starts a side     *)
(* chain.                                                                  *)
(* (process_incoming_block_header, blockchain.c:300-351.)                  *)
ChildLinks ==
    \A p \in Indexed : \A i \in DOMAIN blockIndices[p].children :
        LET c == blockIndices[p].children[i]
        IN  /\ c \in Indexed
            /\ Prev[c] = p
            /\ blockIndices[c].height = blockIndices[p].height + 1
            /\ blockIndices[c].chainPOW = AddPow(blockIndices[p].chainPOW, Work[c])
            /\ OnMainchain(c) <=> (OnMainchain(p) /\ i = 1)

(* A header takes one slot of its parent's children, and only if it is a   *)
(* child of that parent, whatever is delivered again and in whatever       *)
(* order: no more slots are in use than there are different headers that   *)
(* name the parent.  (What the code does not do is to look whether there   *)
(* are that many slots, blockchain.c:350.)                                 *)
SlotPerChild ==
    \A p \in Indexed :
        /\ \A i, j \in DOMAIN blockIndices[p].children :
              blockIndices[p].children[i] = blockIndices[p].children[j] => i = j
        /\ Len(blockIndices[p].children)
              <= Cardinality({b \in Indexed : Prev[b] = p})

(* Above height 0 the chain of prev_block is complete: the parent is       *)
(* indexed, one lower, and lists the block.  A block no parent lists is at *)
(* height 0 and carries its own work only, however high it really is.      *)
AncestryComplete ==
    \A b \in Indexed :
        IF IsLinked(b)
        THEN blockIndices[b].height = blockIndices[Prev[b]].height + 1
        ELSE /\ blockIndices[b].height = 0
             /\ blockIndices[b].chainPOW = Work[b]
             /\ OnMainchain(b)

(* What get_maximal_target relies on when it dereferences the first and    *)
(* the last index of a retarget period without a check (blockchain.c:      *)
(* 399-401): the whole period before a retarget height is indexed, and its *)
(* first block is exactly one period lower.                                *)
RetargetPeriodIndexed ==
    \A b \in Indexed :
        LET height == blockIndices[b].height
            walk   == LookBack(b)
        IN  height >= RetargetPeriod /\ height % RetargetPeriod = 0 =>
              /\ \A n \in DOMAIN walk : walk[n] \in Indexed
              /\ blockIndices[walk[RetargetPeriod - 1]].height
                    = height - RetargetPeriod

(* The header tip is an indexed main chain block, copied as it is in the   *)
(* index, and no main chain block has more work.                           *)
TipIsBest ==
    LET tip == mainHeaderTip
    IN  /\ tip.hash \in Indexed
        /\ OnMainchain(tip.hash)
        /\ tip.height = blockIndices[tip.hash].height
        /\ tip.chainPOW = blockIndices[tip.hash].chainPOW
        /\ \A b \in Indexed :
              OnMainchain(b) => blockIndices[b].chainPOW <= tip.chainPOW

(* The main chain blocks are exactly those that children.hashes[0] reaches *)
(* from a block without an indexed parent.  So as long as no orphan was    *)
(* accepted the walk from genesis, which plans every download and every    *)
(* validation, visits the whole main chain and its tip.                    *)
MainchainIsFirstChildPaths ==
    {b \in Indexed : OnMainchain(b)}
        = UNION {FirstChildPath(r) : r \in Unlinked}

GenesisWalkReachesTip ==
    Unlinked = {Genesis} => mainHeaderTip.hash \in FirstChildPath(Genesis)

(* The orphanage holds distinct hashes of blocks without an indexed link,  *)
(* all of them until it wraps and never fewer than it has room for.        *)
OrphanageExact ==
    LET held == {orphans[s] : s \in Slots} \ {NoHash}
        size == Cardinality(Unlinked)
    IN  /\ held \subseteq Unlinked
        /\ Cardinality(held) = IF size < MaxOrphans THEN size ELSE MaxOrphans

(* The index only grows: no header is forgotten, what its context says     *)
(* never changes, children are only appended, and a header that was        *)
(* entered without a parent is not adopted when the parent arrives.        *)
IndexOnlyGrows ==
    [][\A b \in Indexed :
         /\ b \in Indexed'
         /\ \A f \in {"chainStatus", "height", "chainPOW"} :
               blockIndices'[b][f] = blockIndices[b][f]
         /\ LET n == Len(blockIndices[b].children)
            IN  SubSeq(blockIndices'[b].children, 1, n)
                   = blockIndices[b].children
         /\ IsLinked(b)' = IsLinked(b)]_headerVars

(* The work of the header tip never goes down, and a step that moves the   *)
(* tip moves it to the header that just arrived.                           *)
TipOnlyClimbs ==
    [][mainHeaderTip' # mainHeaderTip =>
         /\ mainHeaderTip'.chainPOW > mainHeaderTip.chainPOW
         /\ mainHeaderTip'.hash \in Indexed' \ Indexed]_headerVars

=============================================================================
