------------------------- MODULE HeaderChainProofs -------------------------
(***************************************************************************)
(* Proofs about HeaderChain, for every header tree and every order of      *)
(* delivery.  The inductive invariant IInv joins the type invariant to     *)
(* four facts that need one another: a new child can only take the right   *)
(* status, height and work (ChildLinks) because its parent's are right; an *)
(* entry without a link stays at height 0 (AncestryComplete) because no    *)
(* child list mentions a header before it is indexed; and that in turn     *)
(* keeps the children of a block distinct (DistinctChildren).              *)
(***************************************************************************)
EXTENDS HeaderChain, FiniteSetTheorems, SequenceTheorems, TLAPS

(* The steps of the two walks over the index.                              *)
StepBack(h, n) == IF h \in Indexed THEN Prev[h] ELSE NoHash
StepOn(h, n)   == FirstChild(h)

BackWalk  == INSTANCE Folding WITH Op <- StepBack
ChildWalk == INSTANCE Folding WITH Op <- StepOn

(* No header is listed twice among the children of a block.                *)
DistinctChildren ==
    \A p \in Indexed : \A i, j \in DOMAIN blockIndices[p].children :
        blockIndices[p].children[i] = blockIndices[p].children[j] => i = j

IInv == TypeOK /\ ChildLinks /\ DistinctChildren /\ AncestryComplete /\ TipIsBest

-----------------------------------------------------------------------------
(* One accepted header.                                                    *)

(* A rounded sum is a double again and not below its first term, which is  *)
(* nearer to the exact sum than anything lower.                            *)
LEMMA SumNotBelow ==
    ASSUME NEW x \in PowValues, NEW w \in PowValues
    PROVE  AddPow(x, w) \in PowValues /\ AddPow(x, w) >= x
<1>1. x \in Nat /\ w \in Nat
  BY PowAssumption
<1>2. RoundPow(x + w) \in PowValues
  BY PowAssumption
<1>3. RoundPow(x + w) \in Nat
  BY <1>2, PowAssumption
<1>4. Distance(RoundPow(x + w), x + w) <= Distance(x, x + w)
  BY PowAssumption
<1>5. RoundPow(x + w) >= x
  BY <1>1, <1>3, <1>4 DEF Distance
<1>. QED
  BY <1>2, <1>5 DEF AddPow

(* The context of a header that is not indexed yet is well formed.         *)
LEMMA NewContextType ==
    ASSUME TypeOK, NEW b \in Blocks
    PROVE  NewContext(b) \in Context /\ NewContext(b).children = << >>
<1>. USE HeaderAssumption
<1>1. Work[b] \in PowValues
  BY PowAssumption
<1>2. << >> \in Seq(Blocks)
  OBVIOUS
<1>3. CASE Prev[b] \in Indexed
  <2>. DEFINE parent == blockIndices[Prev[b]]
  <2>1. parent \in Context
    BY <1>3 DEF TypeOK, Indexed
  <2>2. /\ parent.chainStatus \in {MAINCHAIN, SIDECHAIN, ORPHAN}
        /\ parent.height \in Nat
        /\ parent.chainPOW \in PowValues
    BY <2>1 DEF Context
  <2>3. ChildStatus(parent) \in {MAINCHAIN, SIDECHAIN, ORPHAN}
    BY <2>2 DEF ChildStatus
  <2>4. AddPow(parent.chainPOW, Work[b]) \in PowValues
    BY <1>1, <2>2, SumNotBelow
  <2>. QED
    BY <1>2, <1>3, <2>2, <2>3, <2>4 DEF NewContext, Context
<1>4. CASE Prev[b] \notin Indexed
  BY <1>1, <1>2, <1>4 DEF NewContext, Context
<1>. QED
  BY <1>3, <1>4

(* What accepting a header does to the index: b is added with its new      *)
(* context, the parent's children grow by b, the rest is as it was.        *)
LEMMA AcceptFacts ==
    ASSUME TypeOK, NEW b \in Blocks, AcceptHeader(b)
    PROVE  /\ b \notin Indexed
           /\ Indexed' = Indexed \cup {b}
           /\ blockIndices' \in [Indexed' -> Context]
           /\ blockIndices'[b] = NewContext(b)
           /\ \A h \in Indexed :
                 /\ blockIndices'[h].chainStatus = blockIndices[h].chainStatus
                 /\ blockIndices'[h].height = blockIndices[h].height
                 /\ blockIndices'[h].chainPOW = blockIndices[h].chainPOW
                 /\ blockIndices'[h].children =
                       IF h = Prev[b] THEN Append(blockIndices[h].children, b)
                       ELSE blockIndices[h].children
<1>1. b \notin Indexed /\ blockIndices' = LinkAndSet(b)
  BY DEF AcceptHeader
<1>2. Indexed' = Indexed \cup {b}
  BY <1>1 DEF LinkAndSet, Indexed
<1>3. blockIndices'[b] = NewContext(b) /\ NewContext(b) \in Context
  BY <1>1, NewContextType DEF LinkAndSet
<1>4. ASSUME NEW h \in Indexed
      PROVE  /\ blockIndices'[h] \in Context
             /\ blockIndices'[h].chainStatus = blockIndices[h].chainStatus
             /\ blockIndices'[h].height = blockIndices[h].height
             /\ blockIndices'[h].chainPOW = blockIndices[h].chainPOW
             /\ blockIndices'[h].children =
                   IF h = Prev[b] THEN Append(blockIndices[h].children, b)
                   ELSE blockIndices[h].children
  <2>1. blockIndices[h] \in Context
    BY DEF TypeOK, Indexed
  <2>2. Append(blockIndices[h].children, b) \in Seq(Blocks)
    BY <2>1 DEF Context
  <2>3. blockIndices'[h] =
           IF h = Prev[b]
           THEN [blockIndices[h] EXCEPT
                    !.children = Append(blockIndices[h].children, b)]
           ELSE blockIndices[h]
    BY <1>1 DEF LinkAndSet
  <2>. QED
    BY <2>1, <2>2, <2>3 DEF Context
<1>5. blockIndices' \in [Indexed' -> Context]
  BY <1>1, <1>2, <1>3, <1>4 DEF LinkAndSet
<1>. QED
  BY <1>1, <1>2, <1>3, <1>4, <1>5

-----------------------------------------------------------------------------
(* Type correctness.                                                       *)

(* The state load_genesis leaves is well typed.                            *)
LEMMA InitType == Init => TypeOK
<1>. SUFFICES ASSUME Init PROVE TypeOK
  OBVIOUS
<1>. USE HeaderAssumption, ParameterAssumption
<1>1. Indexed = {Genesis}
  BY DEF Init, Indexed
<1>2. << >> \in Seq(Blocks) /\ Work[Genesis] \in PowValues
  BY PowAssumption
<1>3. blockIndices \in [Indexed -> Context]
  BY <1>1, <1>2 DEF Init, Context
<1>4. mainHeaderTip \in Tip
  BY <1>2 DEF Init, Tip
<1>5. orphans \in [Slots -> Blocks \cup {NoHash}] /\ orphanCount \in 1 .. MaxOrphans
  BY DEF Init, Slots
<1>. QED
  BY <1>1, <1>3, <1>4, <1>5 DEF TypeOK

(* Accepting a header keeps the state well typed.                          *)
LEMMA AcceptType ==
    ASSUME TypeOK, NEW b \in Blocks, AcceptHeader(b)
    PROVE  TypeOK'
<1>1. /\ Indexed' = Indexed \cup {b}
      /\ blockIndices' \in [Indexed' -> Context]
  BY AcceptFacts
<1>2. NewContext(b) \in Context
  BY NewContextType
<1>3. mainHeaderTip' \in Tip
  BY <1>2 DEF AcceptHeader, TypeOK, Tip, Context
<1>4. orphans' \in [Slots -> Blocks \cup {NoHash}] /\ orphanCount' \in 1 .. MaxOrphans
  BY ParameterAssumption DEF AcceptHeader, AddOrphan, TypeOK, Slots
<1>. QED
  BY <1>1, <1>3, <1>4 DEF TypeOK

(* The type invariant: whatever is delivered, the index holds only headers *)
(* that exist, each with a well-formed context, and the orphanage stays in *)
(* its bounds.                                                             *)
THEOREM TypeCorrect == Spec => []TypeOK
<1>1. TypeOK /\ [Next]_headerVars => TypeOK'
  <2>. SUFFICES ASSUME TypeOK, [Next]_headerVars PROVE TypeOK'
    OBVIOUS
  <2>1. CASE UNCHANGED headerVars
    BY <2>1 DEF headerVars, TypeOK, Indexed
  <2>2. ASSUME NEW b \in Blocks, NEW legal \in BOOLEAN, ReceiveHeader(b, legal)
        PROVE  TypeOK'
    <3>1. CASE AcceptHeader(b)
      BY <3>1, AcceptType
    <3>2. CASE RejectHeader(b, legal)
      BY <2>1, <3>2 DEF RejectHeader
    <3>. QED
      BY <2>2, <3>1, <3>2 DEF ReceiveHeader
  <2>. QED
    BY <2>1, <2>2 DEF Next
<1>. QED
  BY InitType, <1>1, PTL DEF Spec

-----------------------------------------------------------------------------
(* The inductive invariant.                                                *)

(* Whether an indexed header is linked does not change when another one is *)
(* accepted, and a header that arrives is linked exactly if its parent is  *)
(* indexed.                                                                *)
LEMMA AcceptKeepsLinks ==
    ASSUME TypeOK, NEW b \in Blocks, AcceptHeader(b)
    PROVE  /\ \A h \in Indexed : IsLinked(h)' <=> IsLinked(h)
           /\ IsLinked(b)' <=> Prev[b] \in Indexed
<1>. USE HeaderAssumption
<1>1. /\ b \notin Indexed
      /\ Indexed' = Indexed \cup {b}
      /\ blockIndices'[b].children = << >>
      /\ \A h \in Indexed :
            blockIndices'[h].children =
               IF h = Prev[b] THEN Append(blockIndices[h].children, b)
               ELSE blockIndices[h].children
  BY AcceptFacts, NewContextType
<1>2. \A h \in Indexed : blockIndices[h].children \in Seq(Blocks)
  BY DEF TypeOK, Context, Indexed
<1>3. ASSUME NEW h \in Indexed
      PROVE  IsLinked(h)' <=> IsLinked(h)
  <2>1. CASE Prev[h] \in Indexed /\ Prev[h] = Prev[b]
    <3>. DEFINE s == blockIndices[Prev[h]].children
    <3>1. s \in Seq(Blocks) /\ blockIndices'[Prev[h]].children = Append(s, b)
      BY <1>1, <1>2, <2>1
    <3>2. /\ DOMAIN s = 1 .. Len(s)
          /\ DOMAIN Append(s, b) = 1 .. Len(s) + 1
          /\ \A i \in 1 .. Len(s) : Append(s, b)[i] = s[i]
          /\ Append(s, b)[Len(s) + 1] = b
          /\ Len(s) \in Nat
      <4>1. \A q \in Seq(Blocks) :
               /\ DOMAIN q = 1 .. Len(q) /\ Len(q) \in Nat
               /\ DOMAIN Append(q, b) = 1 .. Len(q) + 1
               /\ \A i \in 1 .. Len(q) : Append(q, b)[i] = q[i]
               /\ Append(q, b)[Len(q) + 1] = b
        OBVIOUS
      <4>. HIDE DEF s
      <4>. QED
        BY <3>1, <4>1
    <3>. HIDE DEF s
    <3>3. h # b
      BY <1>1
    <3>4. (\E i \in DOMAIN Append(s, b) : Append(s, b)[i] = h)
             <=> (\E i \in DOMAIN s : s[i] = h)
      <4>1. ASSUME NEW i \in DOMAIN Append(s, b), Append(s, b)[i] = h
            PROVE  \E k \in DOMAIN s : s[k] = h
        <5>1. i \in 1 .. Len(s)
          BY <3>2, <3>3, <4>1
        <5>. QED
          BY <3>2, <4>1, <5>1
      <4>2. ASSUME NEW i \in DOMAIN s, s[i] = h
            PROVE  \E k \in DOMAIN Append(s, b) : Append(s, b)[k] = h
        <5>1. i \in DOMAIN Append(s, b) /\ Append(s, b)[i] = h
          BY <3>2, <4>2
        <5>. QED
          BY <5>1
      <4>. QED
        BY <4>1, <4>2
    <3>. QED
      BY <1>1, <2>1, <3>1, <3>4 DEF IsLinked, s
  <2>2. CASE Prev[h] \in Indexed /\ Prev[h] # Prev[b]
    BY <1>1, <2>2 DEF IsLinked
  <2>3. CASE Prev[h] \notin Indexed
    BY <1>1, <2>3 DEF IsLinked
  <2>. QED
    BY <2>1, <2>2, <2>3
<1>4. CASE Prev[b] \in Indexed
  <2>. DEFINE s == blockIndices[Prev[b]].children
  <2>1. s \in Seq(Blocks) /\ blockIndices'[Prev[b]].children = Append(s, b)
    BY <1>1, <1>2, <1>4
  <2>2. /\ Len(s) + 1 \in DOMAIN Append(s, b)
        /\ Append(s, b)[Len(s) + 1] = b
    BY <2>1
  <2>. QED
    BY <1>1, <1>3, <1>4, <2>1, <2>2 DEF IsLinked
<1>5. CASE Prev[b] \notin Indexed
  BY <1>1, <1>3, <1>5 DEF IsLinked
<1>. QED
  BY <1>4, <1>5

(* Accepting a header keeps the links right: the only new link is the one  *)
(* from the parent of the new header to it, at the end of the children.    *)
LEMMA AcceptChildLinks ==
    ASSUME TypeOK, ChildLinks, NEW b \in Blocks, AcceptHeader(b)
    PROVE  ChildLinks'
<1>. USE HeaderAssumption
<1>1. /\ b \notin Indexed
      /\ Indexed' = Indexed \cup {b}
      /\ blockIndices'[b] = NewContext(b)
      /\ blockIndices'[b].children = << >>
      /\ \A h \in Indexed :
            /\ blockIndices'[h].chainStatus = blockIndices[h].chainStatus
            /\ blockIndices'[h].height = blockIndices[h].height
            /\ blockIndices'[h].chainPOW = blockIndices[h].chainPOW
            /\ blockIndices'[h].children =
                  IF h = Prev[b] THEN Append(blockIndices[h].children, b)
                  ELSE blockIndices[h].children
  BY AcceptFacts, NewContextType
<1>2. \A h \in Indexed : blockIndices[h].children \in Seq(Blocks)
  BY DEF TypeOK, Context, Indexed
<1>. DEFINE Good(p, i) ==
       LET c == blockIndices[p].children[i]
       IN  /\ c \in Indexed
           /\ Prev[c] = p
           /\ blockIndices[c].height = blockIndices[p].height + 1
           /\ blockIndices[c].chainPOW = AddPow(blockIndices[p].chainPOW, Work[c])
           /\ OnMainchain(c) <=> (OnMainchain(p) /\ i = 1)
<1>3. SUFFICES ASSUME NEW p \in Indexed', NEW i \in DOMAIN blockIndices'[p].children
               PROVE  Good(p, i)'
  BY DEF ChildLinks
<1>4. p # b /\ p \in Indexed
  BY <1>1
<1>5. CASE i \in DOMAIN blockIndices[p].children
  <2>1. Good(p, i)
    BY <1>4, <1>5 DEF ChildLinks
  <2>. DEFINE s == blockIndices[p].children
  <2>2. s \in Seq(Blocks) /\ i \in 1 .. Len(s)
    BY <1>2, <1>4, <1>5
  <2>3. Append(s, b)[i] = s[i]
    BY <2>2
  <2>4. blockIndices'[p].children[i] = blockIndices[p].children[i]
    BY <1>1, <1>4, <2>3
  <2>. QED
    BY <1>1, <1>4, <2>1, <2>4 DEF OnMainchain
<1>6. CASE i \notin DOMAIN blockIndices[p].children
  <2>. DEFINE s == blockIndices[p].children
  <2>1. p = Prev[b] /\ blockIndices'[p].children = Append(s, b)
    BY <1>1, <1>4, <1>6
  <2>2. s \in Seq(Blocks)
    BY <1>2, <1>4
  <2>3. i = Len(s) + 1 /\ Append(s, b)[i] = b /\ Len(s) \in Nat
    BY <1>6, <2>1, <2>2
  <2>4. s = << >> <=> i = 1
    BY <2>2, <2>3
  <2>5. blockIndices'[p].children[i] = b
    BY <2>1, <2>3
  <2>6. /\ NewContext(b).height = blockIndices[p].height + 1
        /\ NewContext(b).chainPOW = AddPow(blockIndices[p].chainPOW, Work[b])
        /\ NewContext(b).chainStatus = ChildStatus(blockIndices[p])
    BY <1>4, <2>1 DEF NewContext
  <2>7. ChildStatus(blockIndices[p]) = MAINCHAIN
           <=> OnMainchain(p) /\ i = 1
    BY <2>4 DEF ChildStatus, OnMainchain, MAINCHAIN, SIDECHAIN
  <2>. QED
    BY <1>1, <1>4, <2>1, <2>5, <2>6, <2>7 DEF OnMainchain
<1>. QED
  BY <1>5, <1>6

(* Accepting a header keeps children distinct: the new one was not indexed *)
(* and every child is.                                                     *)
LEMMA AcceptDistinctChildren ==
    ASSUME TypeOK, ChildLinks, DistinctChildren, NEW b \in Blocks, AcceptHeader(b)
    PROVE  DistinctChildren'
<1>1. /\ b \notin Indexed
      /\ Indexed' = Indexed \cup {b}
      /\ blockIndices'[b].children = << >>
      /\ \A h \in Indexed :
            blockIndices'[h].children =
               IF h = Prev[b] THEN Append(blockIndices[h].children, b)
               ELSE blockIndices[h].children
  BY AcceptFacts, NewContextType
<1>2. SUFFICES ASSUME NEW p \in Indexed',
                      NEW i \in DOMAIN blockIndices'[p].children,
                      NEW j \in DOMAIN blockIndices'[p].children,
                      blockIndices'[p].children[i] = blockIndices'[p].children[j]
               PROVE  i = j
  BY DEF DistinctChildren
<1>3. p \in Indexed
  BY <1>1
<1>. DEFINE s == blockIndices[p].children
<1>4. /\ s \in Seq(Blocks)
      /\ \A k, l \in DOMAIN s : s[k] = s[l] => k = l
      /\ \A k \in DOMAIN s : s[k] # b
  BY <1>1, <1>3 DEF TypeOK, Context, Indexed, ChildLinks, DistinctChildren
<1>5. CASE p # Prev[b]
  BY <1>1, <1>2, <1>3, <1>4, <1>5
<1>6. CASE p = Prev[b]
  <2>1. blockIndices'[p].children = Append(s, b)
    BY <1>1, <1>3, <1>6
  <2>2. /\ DOMAIN s = 1 .. Len(s)
        /\ DOMAIN Append(s, b) = 1 .. Len(s) + 1
        /\ \A k \in 1 .. Len(s) : Append(s, b)[k] = s[k]
        /\ Append(s, b)[Len(s) + 1] = b
        /\ Len(s) \in Nat
    BY <1>4
  <2>. HIDE DEF s
  <2>. QED
    BY <1>2, <1>4, <2>1, <2>2
<1>. QED
  BY <1>5, <1>6

(* Accepting a header keeps the ancestry complete above height 0.          *)
LEMMA AcceptAncestry ==
    ASSUME TypeOK, AncestryComplete, NEW b \in Blocks, AcceptHeader(b)
    PROVE  AncestryComplete'
<1>1. /\ b \notin Indexed
      /\ Indexed' = Indexed \cup {b}
      /\ blockIndices'[b] = NewContext(b)
      /\ \A h \in Indexed :
            /\ blockIndices'[h].chainStatus = blockIndices[h].chainStatus
            /\ blockIndices'[h].height = blockIndices[h].height
            /\ blockIndices'[h].chainPOW = blockIndices[h].chainPOW
  BY AcceptFacts
<1>2. /\ \A h \in Indexed : IsLinked(h)' <=> IsLinked(h)
      /\ IsLinked(b)' <=> Prev[b] \in Indexed
  BY AcceptKeepsLinks
<1>3. SUFFICES ASSUME NEW c \in Indexed'
               PROVE  IF IsLinked(c)'
                      THEN blockIndices'[c].height = blockIndices'[Prev[c]].height + 1
                      ELSE /\ blockIndices'[c].height = 0
                           /\ blockIndices'[c].chainPOW = Work[c]
                           /\ blockIndices'[c].chainStatus = MAINCHAIN
  BY DEF AncestryComplete, OnMainchain
<1>4. CASE c \in Indexed
  <2>1. IsLinked(c) => Prev[c] \in Indexed
    BY DEF IsLinked
  <2>. QED
    BY <1>1, <1>2, <1>4, <2>1 DEF AncestryComplete, OnMainchain
<1>5. CASE c = b
  <2>1. CASE Prev[b] \in Indexed
    BY <1>1, <1>2, <1>5, <2>1 DEF NewContext
  <2>2. CASE Prev[b] \notin Indexed
    BY <1>1, <1>2, <1>5, <2>2 DEF NewContext
  <2>. QED
    BY <2>1, <2>2
<1>. QED
  BY <1>1, <1>4, <1>5

(* Accepting a header keeps the tip the main chain header with most work.  *)
LEMMA AcceptTip ==
    ASSUME TypeOK, TipIsBest, NEW b \in Blocks, AcceptHeader(b)
    PROVE  TipIsBest'
<1>1. /\ b \notin Indexed
      /\ Indexed' = Indexed \cup {b}
      /\ blockIndices'[b] = NewContext(b)
      /\ \A h \in Indexed :
            /\ blockIndices'[h].chainStatus = blockIndices[h].chainStatus
            /\ blockIndices'[h].height = blockIndices[h].height
            /\ blockIndices'[h].chainPOW = blockIndices[h].chainPOW
  BY AcceptFacts
<1>2. NewContext(b).chainPOW \in Nat
  BY NewContextType, PowAssumption DEF Context
<1>3. /\ mainHeaderTip.chainPOW \in Nat
      /\ \A h \in Indexed : blockIndices[h].chainPOW \in Nat
  BY PowAssumption DEF TypeOK, Tip, Context, Indexed
<1>4. CASE IsNewTip(NewContext(b))
  <2>1. mainHeaderTip' = [hash     |-> b,
                          height   |-> NewContext(b).height,
                          chainPOW |-> NewContext(b).chainPOW]
    BY <1>4 DEF AcceptHeader
  <2>2. /\ NewContext(b).chainStatus = MAINCHAIN
        /\ NewContext(b).chainPOW > mainHeaderTip.chainPOW
    BY <1>4 DEF IsNewTip
  <2>. QED
    BY <1>1, <1>2, <1>3, <2>1, <2>2 DEF TipIsBest, OnMainchain
<1>5. CASE ~ IsNewTip(NewContext(b))
  <2>1. mainHeaderTip' = mainHeaderTip
    BY <1>5 DEF AcceptHeader
  <2>2. NewContext(b).chainStatus = MAINCHAIN
           => NewContext(b).chainPOW <= mainHeaderTip.chainPOW
    BY <1>2, <1>3, <1>5 DEF IsNewTip
  <2>. QED
    BY <1>1, <1>3, <2>1, <2>2 DEF TipIsBest, OnMainchain
<1>. QED
  BY <1>4, <1>5

(* The inductive invariant holds in the state load_genesis leaves.         *)
LEMMA InitInv == Init => IInv
<1>. SUFFICES ASSUME Init PROVE IInv
  OBVIOUS
<1>. USE HeaderAssumption
<1>1. TypeOK
  BY InitType
<1>2. /\ Indexed = {Genesis}
      /\ blockIndices[Genesis] = [chainStatus |-> MAINCHAIN, height |-> 0,
                                  chainPOW |-> Work[Genesis], children |-> << >>]
      /\ mainHeaderTip = [hash |-> Genesis, height |-> 0, chainPOW |-> Work[Genesis]]
  BY DEF Init, Indexed
<1>3. ChildLinks /\ DistinctChildren
  BY <1>2 DEF ChildLinks, DistinctChildren
<1>4. AncestryComplete
  BY <1>2 DEF AncestryComplete, IsLinked, OnMainchain
<1>5. Work[Genesis] <= Work[Genesis]
  <2>1. Work[Genesis] \in Nat
    BY PowAssumption
  <2>. QED
    BY <2>1, SMT
<1>6. TipIsBest
  BY <1>2, <1>5 DEF TipIsBest, OnMainchain
<1>. QED
  BY <1>1, <1>3, <1>4, <1>6 DEF IInv

(* Every step keeps the inductive invariant: a rejected header changes     *)
(* nothing, an accepted one is the subject of the lemmas above.            *)
LEMMA StepInv == IInv /\ [Next]_headerVars => IInv'
<1>. SUFFICES ASSUME IInv, [Next]_headerVars PROVE IInv'
  OBVIOUS
<1>1. CASE UNCHANGED headerVars
  BY <1>1 DEF headerVars, IInv, TypeOK, ChildLinks, DistinctChildren,
              AncestryComplete, TipIsBest, Indexed, IsLinked, OnMainchain
<1>2. ASSUME NEW b \in Blocks, AcceptHeader(b)
      PROVE  IInv'
  BY <1>2, AcceptType, AcceptChildLinks, AcceptDistinctChildren, AcceptAncestry,
     AcceptTip DEF IInv
<1>3. ASSUME NEW b \in Blocks, NEW legal \in BOOLEAN, RejectHeader(b, legal)
      PROVE  IInv'
  BY <1>1, <1>3 DEF RejectHeader
<1>. QED
  BY <1>1, <1>2, <1>3 DEF Next, ReceiveHeader

(* The inductive invariant holds in every reachable state of the index.    *)
THEOREM IInvCorrect == Spec => []IInv
  BY InitInv, StepInv, PTL DEF Spec

(* The header tree is sound: every link between two indexed headers agrees *)
(* with prev_block, height, work and the status rule of the code.          *)
THEOREM ChildLinksCorrect == Spec => []ChildLinks
<1>1. IInv => ChildLinks
  BY DEF IInv
<1>. QED
  BY <1>1, IInvCorrect, PTL

(* Every header above height 0 has its parent indexed one lower, so no     *)
(* walk along prev_block from it can miss before it has gone down to 0.    *)
THEOREM AncestryCorrect == Spec => []AncestryComplete
<1>1. IInv => AncestryComplete
  BY DEF IInv
<1>. QED
  BY <1>1, IInvCorrect, PTL

(* The header tip is the main chain header with the most work.             *)
THEOREM TipCorrect == Spec => []TipIsBest
<1>1. IInv => TipIsBest
  BY DEF IInv
<1>. QED
  BY <1>1, IInvCorrect, PTL

(* No block uses more slots than there are headers that name it: the       *)
(* children of p are distinct, indexed, and name p as their prev_block.    *)
THEOREM SlotPerChildCorrect == Spec => []SlotPerChild
<1>1. ASSUME IInv, NEW p \in Indexed
      PROVE  Len(blockIndices[p].children)
                <= Cardinality({b \in Indexed : Prev[b] = p})
  <2>. DEFINE s == blockIndices[p].children
              named == {b \in Indexed : Prev[b] = p}
  <2>1. p \in Blocks /\ s \in Seq(Blocks)
    BY <1>1 DEF IInv, TypeOK, Context, Indexed
  <2>2. \A i \in DOMAIN s : s[i] \in named
    BY <1>1 DEF IInv, ChildLinks
  <2>3. \A i, j \in DOMAIN s : s[i] = s[j] => i = j
    BY <1>1 DEF IInv, DistinctChildren
  <2>4. s \in Injection(1 .. Len(s), named) /\ Len(s) \in Nat
    BY <2>1, <2>2, <2>3 DEF Injection, IsInjective
  <2>5. IsFiniteSet(named)
    BY <1>1, HeaderAssumption, FS_Subset DEF IInv, TypeOK
  <2>6. Cardinality(1 .. Len(s)) <= Cardinality(named)
    BY <2>4, <2>5, FS_Injection
  <2>7. Cardinality(1 .. Len(s)) = Len(s)
    BY <2>4, FS_Interval
  <2>. QED
    BY <2>6, <2>7
<1>2. IInv => SlotPerChild
  BY <1>1 DEF IInv, DistinctChildren, SlotPerChild
<1>. QED
  BY <1>2, IInvCorrect, PTL

-----------------------------------------------------------------------------
(* Action properties.                                                      *)

(* No step forgets a header, rewrites its context or its children, or      *)
(* adopts a header that was entered without a parent.                      *)
THEOREM IndexGrowsCorrect == Spec => IndexOnlyGrows
<1>. DEFINE Kept(h) ==
       /\ h \in Indexed'
       /\ \A f \in {"chainStatus", "height", "chainPOW"} :
             blockIndices'[h][f] = blockIndices[h][f]
       /\ LET n == Len(blockIndices[h].children)
          IN  SubSeq(blockIndices'[h].children, 1, n) = blockIndices[h].children
       /\ IsLinked(h)' = IsLinked(h)
<1>1. ASSUME TypeOK, NEW b \in Blocks, AcceptHeader(b), NEW h \in Indexed
      PROVE  Kept(h)
  <2>. DEFINE s == blockIndices[h].children
  <2>1. s \in Seq(Blocks)
    BY <1>1 DEF TypeOK, Context, Indexed
  <2>2. /\ h \in Indexed'
        /\ blockIndices'[h].chainStatus = blockIndices[h].chainStatus
        /\ blockIndices'[h].height = blockIndices[h].height
        /\ blockIndices'[h].chainPOW = blockIndices[h].chainPOW
        /\ blockIndices'[h].children = s \/ blockIndices'[h].children = Append(s, b)
    BY <1>1, AcceptFacts
  <2>3. SubSeq(s, 1, Len(s)) = s
    BY <2>1, SubSeqFull
  <2>4. SubSeq(Append(s, b), 1, Len(s)) = s
    <3>. HIDE DEF s
    <3>1. /\ Append(s, b) \in Seq(Blocks)
          /\ Len(s) \in Nat
          /\ \A i \in 1 .. Len(s) : Append(s, b)[i] = s[i] /\ s[i] \in Blocks
      BY <1>1, <2>1
    <3>2. /\ SubSeq(Append(s, b), 1, Len(s)) \in Seq(Blocks)
          /\ Len(SubSeq(Append(s, b), 1, Len(s))) = Len(s)
          /\ \A i \in 1 .. Len(s) : SubSeq(Append(s, b), 1, Len(s))[i] = s[i]
      BY <3>1, SubSeqProperties
    <3>. QED
      BY <2>1, <3>2, SeqEqual
  <2>5. IsLinked(h)' = IsLinked(h)
    <3>1. IsLinked(h)' <=> IsLinked(h)
      BY <1>1, AcceptKeepsLinks
    <3>2. IsLinked(h)' \in BOOLEAN /\ IsLinked(h) \in BOOLEAN
      BY DEF IsLinked
    <3>. QED
      BY <3>1, <3>2
  <2>6. \A f \in {"chainStatus", "height", "chainPOW"} :
           blockIndices'[h][f] = blockIndices[h][f]
    BY <2>2
  <2>. QED
    BY <2>2, <2>3, <2>4, <2>5, <2>6
<1>2. TypeOK /\ [Next]_headerVars => [\A h \in Indexed : Kept(h)]_headerVars
  BY <1>1 DEF Next, ReceiveHeader, RejectHeader
<1>3. TypeOK /\ [Next]_headerVars
        => [\A b \in Indexed :
              /\ b \in Indexed'
              /\ \A f \in {"chainStatus", "height", "chainPOW"} :
                    blockIndices'[b][f] = blockIndices[b][f]
              /\ LET n == Len(blockIndices[b].children)
                 IN  SubSeq(blockIndices'[b].children, 1, n)
                        = blockIndices[b].children
              /\ IsLinked(b)' = IsLinked(b)]_headerVars
  BY <1>2
<1>. QED
  BY <1>3, TypeCorrect, PTL DEF Spec, IndexOnlyGrows

(* The header tip only moves to a header that just arrived with more work. *)
THEOREM TipClimbsCorrect == Spec => TipOnlyClimbs
<1>1. ASSUME TypeOK, NEW b \in Blocks, AcceptHeader(b), mainHeaderTip' # mainHeaderTip
      PROVE  /\ mainHeaderTip'.chainPOW > mainHeaderTip.chainPOW
             /\ mainHeaderTip'.hash \in Indexed' \ Indexed
  <2>1. b \in Indexed' \ Indexed
    BY <1>1, AcceptFacts
  <2>. QED
    BY <1>1, <2>1 DEF AcceptHeader, IsNewTip
<1>2. TypeOK /\ [Next]_headerVars
        => [mainHeaderTip' # mainHeaderTip =>
              /\ mainHeaderTip'.chainPOW > mainHeaderTip.chainPOW
              /\ mainHeaderTip'.hash \in Indexed' \ Indexed]_headerVars
  BY <1>1 DEF Next, ReceiveHeader, RejectHeader
<1>. QED
  BY <1>2, TypeCorrect, PTL DEF Spec, TipOnlyClimbs

-----------------------------------------------------------------------------
(* Walks.                                                                  *)

(* The walk of get_maximal_target, step by step.                           *)
LEMMA LookBackIs ==
    ASSUME NEW b \in Blocks
    PROVE  LET w == LookBack(b)
           IN  w = [n \in 0 .. RetargetPeriod - 1 |->
                      IF n = 0 THEN Prev[b]
                      ELSE IF w[n - 1] \in Indexed THEN Prev[w[n - 1]] ELSE NoHash]
<1>. DEFINE Is(w) == w = [n \in 0 .. RetargetPeriod - 1 |->
                            IF n = 0 THEN Prev[b]
                            ELSE IF w[n - 1] \in Indexed THEN Prev[w[n - 1]] ELSE NoHash]
<1>1. RetargetPeriod - 1 \in Nat
  BY ParameterAssumption
<1>2. \E w : Is(w)
  <2>1. \E w : BackWalk!IsWalk(w, Prev[b], RetargetPeriod - 1)
    BY <1>1, BackWalk!WalkExists
  <2>. QED
    BY <2>1 DEF BackWalk!IsWalk, StepBack
<1>3. LookBack(b) = CHOOSE w : Is(w)
  BY DEF LookBack
<1>. HIDE DEF Is
<1>4. Is(LookBack(b))
  BY <1>2, <1>3
<1>. QED
  BY <1>4 DEF Is

(* The walk along first children, step by step.                            *)
LEMMA FirstChildWalkIs ==
    ASSUME NEW root
    PROVE  LET w == FirstChildWalk(root)
           IN  w = [n \in 0 .. Cardinality(Blocks) |->
                      IF n = 0 THEN root ELSE FirstChild(w[n - 1])]
<1>. DEFINE Is(w) == w = [n \in 0 .. Cardinality(Blocks) |->
                            IF n = 0 THEN root ELSE FirstChild(w[n - 1])]
<1>1. Cardinality(Blocks) \in Nat
  BY HeaderAssumption, FS_CardinalityType
<1>2. \E w : Is(w)
  <2>1. \E w : ChildWalk!IsWalk(w, root, Cardinality(Blocks))
    BY <1>1, ChildWalk!WalkExists
  <2>. QED
    BY <2>1 DEF ChildWalk!IsWalk, StepOn
<1>3. FirstChildWalk(root) = CHOOSE w : Is(w)
  BY DEF FirstChildWalk
<1>. HIDE DEF Is
<1>4. Is(FirstChildWalk(root))
  BY <1>2, <1>3
<1>. QED
  BY <1>4 DEF Is

(* From a header at height n the walk back finds n headers, each one lower *)
(* than the one before.                                                    *)
LEMMA LookBackDescends ==
    ASSUME IInv, NEW b \in Indexed, blockIndices[b].height >= RetargetPeriod
    PROVE  \A n \in 0 .. RetargetPeriod - 1 :
              /\ LookBack(b)[n] \in Indexed
              /\ blockIndices[LookBack(b)[n]].height = blockIndices[b].height - 1 - n
<1>. DEFINE m == RetargetPeriod - 1
            w == LookBack(b)
            T == {n \in 0 .. m : /\ w[n] \in Indexed
                                 /\ blockIndices[w[n]].height = blockIndices[b].height - 1 - n}
<1>1. m \in Nat /\ RetargetPeriod \in Nat \ {0} /\ b \in Blocks
  BY ParameterAssumption DEF IInv, TypeOK
<1>2. w = [n \in 0 .. m |-> IF n = 0 THEN Prev[b]
                            ELSE IF w[n - 1] \in Indexed THEN Prev[w[n - 1]] ELSE NoHash]
  BY <1>1, LookBackIs
<1>. HIDE DEF w
<1>3. \A h \in Indexed : blockIndices[h].height > 0 =>
         /\ Prev[h] \in Indexed
         /\ blockIndices[Prev[h]].height = blockIndices[h].height - 1
  <2>1. \A h \in Indexed : blockIndices[h].height \in Nat
    BY DEF IInv, TypeOK, Context
  <2>2. \A h \in Indexed : blockIndices[h].height > 0 => IsLinked(h)
    BY DEF IInv, AncestryComplete
  <2>3. \A h \in Indexed : IsLinked(h) =>
           /\ Prev[h] \in Indexed
           /\ blockIndices[h].height = blockIndices[Prev[h]].height + 1
    BY DEF IInv, AncestryComplete, IsLinked
  <2>. QED
    BY <2>1, <2>2, <2>3
<1>4. blockIndices[b].height \in Nat
  BY DEF IInv, TypeOK, Context
<1>5. 0 \in T
  <2>1. w[0] = Prev[b]
    BY <1>1, <1>2
  <2>. QED
    BY <1>1, <1>3, <1>4, <2>1
<1>6. ASSUME NEW n \in 0 .. m - 1, n \in T
      PROVE  n + 1 \in T
  <2>1. w[n + 1] = Prev[w[n]]
    BY <1>1, <1>2, <1>6
  <2>2. blockIndices[w[n]].height > 0
    BY <1>1, <1>4, <1>6
  <2>3. /\ Prev[w[n]] \in Indexed
        /\ blockIndices[Prev[w[n]]].height = blockIndices[w[n]].height - 1
    BY <1>3, <1>6, <2>2
  <2>. QED
    BY <1>1, <1>4, <1>6, <2>1, <2>3
<1>7. \A n \in 0 .. m : n \in T
  <2>. HIDE DEF T, m
  <2>. QED
    BY <1>1, <1>5, <1>6, BackWalk!UpTo
<1>. QED
  BY <1>7 DEF w

(* get_maximal_target finds every header of the period it looks at.        *)
THEOREM RetargetPeriodCorrect == Spec => []RetargetPeriodIndexed
<1>1. IInv => RetargetPeriodIndexed
  <2>. SUFFICES ASSUME IInv, NEW b \in Indexed, blockIndices[b].height >= RetargetPeriod
                PROVE  /\ \A n \in DOMAIN LookBack(b) : LookBack(b)[n] \in Indexed
                       /\ blockIndices[LookBack(b)[RetargetPeriod - 1]].height
                             = blockIndices[b].height - RetargetPeriod
    BY DEF RetargetPeriodIndexed
  <2>1. RetargetPeriod - 1 \in 0 .. RetargetPeriod - 1 /\ RetargetPeriod \in Nat
    BY ParameterAssumption
  <2>2. b \in Blocks /\ blockIndices[b].height \in Nat
    BY DEF IInv, TypeOK, Context
  <2>3. DOMAIN LookBack(b) = 0 .. RetargetPeriod - 1
    BY <2>2, LookBackIs
  <2>. QED
    BY <2>1, <2>2, <2>3, LookBackDescends
<1>. QED
  BY <1>1, IInvCorrect, PTL

(* The first child of a header: indexed, one higher, with its own work on  *)
(* top, and on the main chain exactly if its parent is.                    *)
LEMMA FirstChildIs ==
    ASSUME IInv, NEW h \in Indexed, FirstChild(h) # NoHash
    PROVE  /\ FirstChild(h) \in Indexed
           /\ Prev[FirstChild(h)] = h
           /\ blockIndices[FirstChild(h)].height = blockIndices[h].height + 1
           /\ blockIndices[FirstChild(h)].chainPOW
                 = AddPow(blockIndices[h].chainPOW, Work[FirstChild(h)])
           /\ OnMainchain(FirstChild(h)) <=> OnMainchain(h)
<1>. DEFINE s == blockIndices[h].children
<1>1. s \in Seq(Blocks) /\ s # << >> /\ FirstChild(h) = s[1]
  BY DEF IInv, TypeOK, Context, FirstChild
<1>2. 1 \in DOMAIN s
  BY <1>1
<1>. QED
  BY <1>1, <1>2 DEF IInv, ChildLinks

Main == {b \in Indexed : OnMainchain(b)}

(* From a header without a link, n steps along first children lead to a    *)
(* main chain header of height n, or the walk has ended.                   *)
LEMMA WalkClimbs ==
    ASSUME IInv, NEW r \in Unlinked
    PROVE  \A n \in 0 .. Cardinality(Blocks) :
              FirstChildWalk(r)[n] # NoHash =>
                 \A k \in 0 .. n : /\ FirstChildWalk(r)[k] \in Main
                                   /\ blockIndices[FirstChildWalk(r)[k]].height = k
<1>. DEFINE m == Cardinality(Blocks)
            w == FirstChildWalk(r)
            On(n) == \A k \in 0 .. n : w[k] \in Main /\ blockIndices[w[k]].height = k
            T == {n \in 0 .. m : w[n] # NoHash => On(n)}
<1>1. m \in Nat
  BY HeaderAssumption, FS_CardinalityType
<1>2. w = [n \in 0 .. m |-> IF n = 0 THEN r ELSE FirstChild(w[n - 1])]
  BY FirstChildWalkIs
<1>. HIDE DEF w
<1>3. r \in Main /\ blockIndices[r].height = 0
  BY DEF IInv, AncestryComplete, Unlinked, Main
<1>4. NoHash \notin Indexed
  BY HeaderAssumption DEF IInv, TypeOK
<1>5. 0 \in T
  <2>1. w[0] = r
    BY <1>1, <1>2
  <2>. QED
    BY <1>1, <1>3, <2>1
<1>6. ASSUME NEW n \in 0 .. m - 1, n \in T
      PROVE  n + 1 \in T
  <2>1. w[n + 1] = FirstChild(w[n])
    BY <1>1, <1>2
  <2>2. SUFFICES ASSUME w[n + 1] # NoHash PROVE On(n + 1)
    BY <1>1
  <2>3. w[n] \in Indexed
    BY <2>1, <2>2 DEF FirstChild
  <2>4. On(n)
    BY <1>4, <1>6, <2>3
  <2>5. w[n] \in Main /\ blockIndices[w[n]].height = n
    BY <2>4
  <2>6. w[n + 1] \in Main /\ blockIndices[w[n + 1]].height = n + 1
    BY FirstChildIs, <2>1, <2>2, <2>3, <2>5 DEF Main
  <2>. QED
    BY <2>4, <2>6
<1>7. \A n \in 0 .. m : n \in T
  <2>. HIDE DEF T, m
  <2>. QED
    BY <1>1, <1>5, <1>6, ChildWalk!UpTo
<1>. QED
  BY <1>7 DEF w

(* A walk has no more steps than there are headers: each is higher than    *)
(* the one before.                                                         *)
LEMMA WalkIsShort ==
    ASSUME IInv, NEW r \in Unlinked, NEW n \in 0 .. Cardinality(Blocks),
           FirstChildWalk(r)[n] # NoHash
    PROVE  n < Cardinality(Blocks)
<1>. DEFINE w == FirstChildWalk(r)
            f == [k \in 0 .. n |-> w[k]]
<1>1. \A k \in 0 .. n : w[k] \in Main /\ blockIndices[w[k]].height = k
  BY WalkClimbs
<1>2. Main \subseteq Blocks
  BY DEF IInv, TypeOK, Main
<1>. HIDE DEF w
<1>3. f \in Injection(0 .. n, Blocks)
  BY <1>1, <1>2 DEF Injection, IsInjective
<1>4. Cardinality(0 .. n) <= Cardinality(Blocks)
  <2>. HIDE DEF f
  <2>. QED
    BY <1>3, HeaderAssumption, FS_Injection
<1>5. Cardinality(0 .. n) = n + 1 /\ Cardinality(Blocks) \in Nat
  BY HeaderAssumption, FS_Interval, FS_CardinalityType
<1>. QED
  BY <1>4, <1>5

(* Every main chain header is on the walk from a header without a link.    *)
LEMMA MainIsReached ==
    ASSUME IInv
    PROVE  \A b \in Main : \E r \in Unlinked : \E n \in 0 .. Cardinality(Blocks) :
              FirstChildWalk(r)[n] = b
<1>. DEFINE m == Cardinality(Blocks)
            Reached(b) == \E r \in Unlinked : \E n \in 0 .. m : FirstChildWalk(r)[n] = b
            T == {k \in Nat : \A b \in Main : blockIndices[b].height = k => Reached(b)}
<1>1. m \in Nat
  BY HeaderAssumption, FS_CardinalityType
<1>2. ASSUME NEW b \in Main, ~ IsLinked(b)
      PROVE  Reached(b)
  <2>1. b \in Unlinked
    BY <1>2 DEF Main, Unlinked
  <2>2. FirstChildWalk(b)[0] = b
    BY <1>1, FirstChildWalkIs
  <2>. QED
    BY <1>1, <2>1, <2>2
<1>3. \A b \in Indexed : blockIndices[b].height \in Nat
  BY DEF IInv, TypeOK, Context
<1>4. \A b \in Main : IsLinked(b) =>
         /\ Prev[b] \in Main
         /\ blockIndices[b].height = blockIndices[Prev[b]].height + 1
         /\ FirstChild(Prev[b]) = b
  <2>. SUFFICES ASSUME NEW b \in Main, IsLinked(b)
                PROVE  /\ Prev[b] \in Main
                       /\ blockIndices[b].height = blockIndices[Prev[b]].height + 1
                       /\ FirstChild(Prev[b]) = b
    OBVIOUS
  <2>. DEFINE p == Prev[b]
  <2>1. p \in Indexed /\ blockIndices[p].children \in Seq(Blocks)
    BY DEF IsLinked, IInv, TypeOK, Context
  <2>2. PICK i \in DOMAIN blockIndices[p].children : blockIndices[p].children[i] = b
    BY DEF IsLinked
  <2>3. /\ blockIndices[b].height = blockIndices[p].height + 1
        /\ OnMainchain(p) /\ i = 1
    BY <2>1, <2>2 DEF IInv, ChildLinks, Main
  <2>4. blockIndices[p].children # << >>
    BY <2>2
  <2>. QED
    BY <2>1, <2>2, <2>3, <2>4 DEF Main, FirstChild
<1>5. 0 \in T
  <2>1. \A b \in Main : blockIndices[b].height = 0 => ~ IsLinked(b)
    BY <1>3, <1>4 DEF Main
  <2>. QED
    BY <1>2, <2>1
<1>6. ASSUME NEW k \in Nat, k \in T
      PROVE  k + 1 \in T
  <2>. SUFFICES ASSUME NEW b \in Main, blockIndices[b].height = k + 1, IsLinked(b)
                PROVE  Reached(b)
    BY <1>2
  <2>1. Prev[b] \in Main /\ blockIndices[Prev[b]].height = k /\ FirstChild(Prev[b]) = b
    BY <1>3, <1>4 DEF Main
  <2>2. PICK r \in Unlinked, n \in 0 .. m : FirstChildWalk(r)[n] = Prev[b]
    BY <1>6, <2>1
  <2>3. Prev[b] # NoHash
    BY <2>1, HeaderAssumption DEF Main, IInv, TypeOK
  <2>4. n + 1 \in 0 .. m
    BY <1>1, <2>2, <2>3, WalkIsShort
  <2>5. FirstChildWalk(r)[n + 1] = FirstChild(FirstChildWalk(r)[n])
    BY <1>1, <2>4, FirstChildWalkIs
  <2>. QED
    BY <2>1, <2>2, <2>4, <2>5
<1>7. \A k \in Nat : k \in T
  <2>. HIDE DEF T
  <2>. QED
    BY <1>5, <1>6, ChildWalk!NatSetInduction
<1>. QED
  BY <1>3, <1>7 DEF Main

LEMMA MainIsPaths == IInv => MainchainIsFirstChildPaths
<1>. SUFFICES ASSUME IInv PROVE Main = UNION {FirstChildPath(r) : r \in Unlinked}
  BY DEF MainchainIsFirstChildPaths, Main
<1>. DEFINE m == Cardinality(Blocks)
<1>1. \A r : FirstChildPath(r) = {FirstChildWalk(r)[n] : n \in 0 .. m} \ {NoHash}
  BY FirstChildWalkIs DEF FirstChildPath
<1>2. ASSUME NEW b \in Main
      PROVE  \E r \in Unlinked : b \in FirstChildPath(r)
  <2>1. b # NoHash
    BY HeaderAssumption DEF Main, IInv, TypeOK
  <2>. QED
    BY <1>1, <2>1, MainIsReached
<1>3. ASSUME NEW r \in Unlinked, NEW b \in FirstChildPath(r)
      PROVE  b \in Main
  <2>1. PICK n \in 0 .. m : FirstChildWalk(r)[n] = b /\ b # NoHash
    BY <1>1
  <2>2. m \in Nat /\ n \in 0 .. n
    BY HeaderAssumption, FS_CardinalityType
  <2>. QED
    BY <2>1, <2>2, WalkClimbs
<1>. QED
  BY <1>2, <1>3

(* The main chain is what children.hashes[0] leads along from the headers  *)
(* without an indexed parent, whatever forks and orphans arrive            *)
(* (process_incoming_block_header).                                        *)
THEOREM MainchainCorrect == Spec => []MainchainIsFirstChildPaths
<1>. QED
  BY MainIsPaths, IInvCorrect, PTL

(* Without orphans the walk from genesis leads over the header tip         *)
(* (find_missing_blocks, max_full_block_height_from_genesis).              *)
THEOREM GenesisWalkCorrect == Spec => []GenesisWalkReachesTip
<1>1. IInv => GenesisWalkReachesTip
  BY MainIsPaths DEF IInv, TipIsBest, MainchainIsFirstChildPaths, GenesisWalkReachesTip
<1>. QED
  BY <1>1, IInvCorrect, PTL

-----------------------------------------------------------------------------
(* The orphanage.                                                          *)

Held == {orphans[s] : s \in Slots} \ {NoHash}

(* The slots in use come first, as many as there are headers without a     *)
(* link until there are more of these than slots; no hash is in two.       *)
RingExact ==
    /\ Held \subseteq Unlinked
    /\ \A s, t \in Slots : orphans[s] = orphans[t] /\ orphans[s] # NoHash => s = t
    /\ IF Cardinality(Unlinked) < MaxOrphans
       THEN /\ orphanCount = Cardinality(Unlinked)
            /\ \A s \in Slots : orphans[s] # NoHash <=> s < orphanCount
       ELSE \A s \in Slots : orphans[s] # NoHash

LEMMA UnlinkedFinite ==
    ASSUME TypeOK
    PROVE  IsFiniteSet(Unlinked) /\ Cardinality(Unlinked) \in Nat
<1>1. Unlinked \subseteq Blocks
  BY DEF TypeOK, Unlinked
<1>2. IsFiniteSet(Unlinked)
  BY <1>1, HeaderAssumption, FS_Subset
<1>. QED
  BY <1>2, FS_CardinalityType

(* As many hashes are held as slots are in use.                            *)
LEMMA RingProperty ==
    ASSUME TypeOK, RingExact
    PROVE  OrphanageExact
<1>. DEFINE size == Cardinality(Unlinked)
            k == IF size < MaxOrphans THEN size ELSE MaxOrphans
            f == [s \in 0 .. k - 1 |-> orphans[s]]
<1>1. size \in Nat /\ MaxOrphans \in Nat \ {0} /\ k \in Nat /\ k <= MaxOrphans
  BY UnlinkedFinite, ParameterAssumption
<1>2. \A s \in Slots : orphans[s] # NoHash <=> s \in 0 .. k - 1
  BY <1>1 DEF RingExact, Slots
<1>3. 0 .. k - 1 \subseteq Slots
  BY <1>1 DEF Slots
<1>. HIDE DEF size, k
<1>4. f \in Bijection(0 .. k - 1, Held)
  <2>1. \A s \in 0 .. k - 1 : f[s] \in Held
    BY <1>2, <1>3 DEF Held
  <2>2. \A s, t \in 0 .. k - 1 : f[s] = f[t] => s = t
    BY <1>2, <1>3 DEF RingExact
  <2>3. \A h \in Held : \E s \in 0 .. k - 1 : f[s] = h
    BY <1>2, <1>3 DEF Held
  <2>. HIDE DEF f
  <2>4. f \in [0 .. k - 1 -> Held]
    BY <2>1 DEF f
  <2>. QED
    BY <2>2, <2>3, <2>4 DEF Bijection, Injection, Surjection, IsInjective
<1>5. IsFiniteSet(0 .. k - 1) /\ Cardinality(0 .. k - 1) = k
  BY <1>1, FS_Interval
<1>6. Cardinality(Held) = k
  <2>. HIDE DEF f
  <2>. QED
    BY <1>4, <1>5, FS_Bijection DEF ExistsBijection
<1>. QED
  BY <1>6 DEF RingExact, OrphanageExact, Held, k, size

(* A header with a parent leaves the orphanage alone, one without takes    *)
(* the next slot.                                                          *)
LEMMA AcceptRing ==
    ASSUME TypeOK, RingExact, NEW b \in Blocks, AcceptHeader(b)
    PROVE  RingExact'
<1>1. /\ b \notin Indexed /\ Indexed' = Indexed \cup {b}
      /\ \A h \in Indexed : IsLinked(h)' <=> IsLinked(h)
      /\ IsLinked(b)' <=> Prev[b] \in Indexed
  BY AcceptFacts, AcceptKeepsLinks
<1>2. b # NoHash /\ MaxOrphans \in Nat \ {0}
  BY HeaderAssumption, ParameterAssumption
<1>3. CASE Prev[b] \in Indexed
  <2>1. Unlinked' = Unlinked
    BY <1>1, <1>3 DEF Unlinked
  <2>2. UNCHANGED <<orphans, orphanCount>>
    BY <1>3 DEF AcceptHeader
  <2>. QED
    BY <2>1, <2>2 DEF RingExact, Held
<1>4. CASE Prev[b] \notin Indexed
  <2>. DEFINE size == Cardinality(Unlinked)
              slot == IF orphanCount >= MaxOrphans THEN 0 ELSE orphanCount
  <2>1. Unlinked' = Unlinked \cup {b} /\ b \notin Unlinked
    BY <1>1, <1>4 DEF Unlinked
  <2>2. Cardinality(Unlinked)' = size + 1 /\ size \in Nat
    BY <2>1, UnlinkedFinite, FS_AddElement
  <2>3. /\ orphans' = [orphans EXCEPT ![slot] = b]
        /\ orphanCount' = slot + 1
    BY <1>4 DEF AcceptHeader, AddOrphan
  <2>4. slot \in Slots /\ orphans \in [Slots -> Blocks \cup {NoHash}]
    BY <1>2 DEF TypeOK, Slots
  <2>5. \A s \in Slots : orphans'[s] = IF s = slot THEN b ELSE orphans[s]
    BY <2>3, <2>4
  <2>6. \A s \in Slots : orphans[s] # b
    BY <1>2, <2>1 DEF RingExact, Held
  <2>7. Held' \subseteq Unlinked'
    BY <2>1, <2>5 DEF RingExact, Held
  <2>8. \A s, t \in Slots : orphans'[s] = orphans'[t] /\ orphans'[s] # NoHash => s = t
    <3>1. \A s, t \in Slots : orphans[s] = orphans[t] /\ orphans[s] # NoHash => s = t
      BY DEF RingExact
    <3>. HIDE DEF slot
    <3>. QED
      BY <2>5, <2>6, <3>1
  <2>9. CASE size < MaxOrphans
    <3>1. slot = size /\ \A s \in Slots : orphans[s] # NoHash <=> s < size
      BY <1>2, <2>2, <2>9 DEF RingExact
    <3>2. \A s \in Slots : orphans'[s] # NoHash <=> s < size + 1
      <4>. HIDE DEF slot, size
      <4>. QED
        BY <1>2, <2>2, <2>5, <3>1 DEF Slots
    <3>3. size + 1 >= MaxOrphans => \A s \in Slots : orphans'[s] # NoHash
      BY <1>2, <2>2, <2>9, <3>2 DEF Slots
    <3>. HIDE DEF size, slot
    <3>. QED
      BY <1>2, <2>2, <2>3, <2>7, <2>8, <3>1, <3>2, <3>3 DEF RingExact
  <2>10. CASE size >= MaxOrphans
    <3>1. \A s \in Slots : orphans'[s] # NoHash
      BY <1>2, <2>2, <2>5, <2>10 DEF RingExact
    <3>2. ~ (size + 1 < MaxOrphans)
      BY <1>2, <2>2, <2>10
    <3>. HIDE DEF size, slot
    <3>. QED
      BY <2>2, <2>7, <2>8, <3>1, <3>2 DEF RingExact
  <2>. QED
    BY <1>2, <2>2, <2>9, <2>10
<1>. QED
  BY <1>3, <1>4

(* The orphanage holds distinct hashes of headers without a link: all of   *)
(* them, or as many as it has room for, however often the ring has wrapped *)
(* (add_orphan).                                                           *)
THEOREM OrphanageCorrect == Spec => []OrphanageExact
<1>1. Init => RingExact
  <2>. SUFFICES ASSUME Init PROVE RingExact
    OBVIOUS
  <2>1. TypeOK /\ Indexed = {Genesis} /\ Genesis # NoHash
    BY InitType, HeaderAssumption DEF Init, Indexed
  <2>2. Unlinked = {Genesis}
    BY <2>1, HeaderAssumption DEF Unlinked, IsLinked
  <2>3. Cardinality(Unlinked) = 1
    BY <2>2, FS_Singleton
  <2>4. \A s \in Slots : orphans[s] = IF s = 0 THEN Genesis ELSE NoHash
    BY DEF Init
  <2>5. orphanCount = 1 /\ MaxOrphans \in Nat \ {0} /\ Slots = 0 .. MaxOrphans - 1
    BY ParameterAssumption DEF Init, Slots
  <2>6. Held \subseteq Unlinked
    BY <2>2, <2>4 DEF Held
  <2>7. \A s, t \in Slots : orphans[s] = orphans[t] /\ orphans[s] # NoHash => s = t
    BY <2>1, <2>4
  <2>8. \A s \in Slots : orphans[s] # NoHash <=> s < 1
    BY <2>1, <2>4, <2>5
  <2>9. MaxOrphans <= 1 => \A s \in Slots : orphans[s] # NoHash
    BY <2>5, <2>8
  <2>. QED
    BY <2>3, <2>5, <2>6, <2>7, <2>8, <2>9 DEF RingExact
<1>2. TypeOK /\ RingExact /\ [Next]_headerVars => RingExact'
  <2>. SUFFICES ASSUME TypeOK, RingExact, [Next]_headerVars PROVE RingExact'
    OBVIOUS
  <2>1. CASE UNCHANGED headerVars
    BY <2>1 DEF headerVars, RingExact, Held, Unlinked, IsLinked, Indexed
  <2>2. ASSUME NEW b \in Blocks, AcceptHeader(b)
        PROVE  RingExact'
    BY <2>2, AcceptRing
  <2>. QED
    BY <2>1, <2>2 DEF Next, ReceiveHeader, RejectHeader
<1>3. TypeOK /\ RingExact => OrphanageExact
  BY RingProperty
<1>. QED
  BY <1>1, <1>2, <1>3, TypeCorrect, PTL DEF Spec

=============================================================================
