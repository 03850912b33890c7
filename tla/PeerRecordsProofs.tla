------------------------- MODULE PeerRecordsProofs -------------------------
(***************************************************************************)
(* Proofs about what the node keeps of its peers.                          *)
(*                                                                         *)
(* The ring of latencies holds the last three pings, for every clock and   *)
(* any number of pings.  The ring says nothing of what a ping that ends is *)
(* timed by, so the inductive invariant adds that pingSent is the time the *)
(* last ping was written, as long as nothing odd happened.                 *)
(*                                                                         *)
(* The addresses of the candidates do not move, for every size of the      *)
(* array.  That needs to know that the count stays within what was ever    *)
(* written, which a save cuts and an addr message goes over again.         *)
(*                                                                         *)
(* The stream of a connection is cut into its messages, for every cut TCP  *)
(* may choose.  The inductive invariant is a position in the stream: what  *)
(* is before it has been handled, the cache is what has arrived behind it, *)
(* and no message behind it is complete.  A turn of the loop moves the     *)
(* position over one message.                                              *)
(***************************************************************************)
EXTENDS Ping, PeerCandidates, MessageStream, FiniteSetTheorems, SequenceTheorems, TLAPS

-----------------------------------------------------------------------------
(* Pings.                                                                  *)

(* The slot of the j-th ping that ended.                                   *)
SlotOf(j) == ((j - 1) % Latest) + 1

(* The ring holds the last three of timed, and zeros where there were      *)
(* none.                                                                   *)
RingHolds(ring, ended) ==
    /\ \A j \in 1 .. Len(ended) :
          j + Latest > Len(ended) => ring[SlotOf(j)] = ended[j]
    /\ \A k \in 1 .. Latest : k > Len(ended) => ring[k] = 0

(* What is known of a peer nothing odd happened to.                        *)
Regular ==
    /\ nonce \in Nat
    /\ pingSent \in Nat
    /\ latencies \in [1 .. Latest -> Int]
    /\ written \in Seq(Nat)
    /\ timed \in Seq(Int)
    /\ Len(written) = nonce
    /\ latencyIndex = SlotOf(Len(timed) + 1)
    /\ RingHolds(latencies, timed)
    /\ \/ /\ nonce = 0
          /\ pingSent = 0
          /\ writing = << >>
       \/ /\ nonce # 0
          /\ writing = << >>
          /\ pingSent # 0
          /\ pingSent = written[nonce]
       \/ /\ nonce # 0
          /\ writing = <<nonce>>
          /\ written[nonce] = 0

PingInv ==
    /\ now \in Nat \ {0}
    /\ odd \in BOOLEAN
    /\ odd \/ Regular

-----------------------------------------------------------------------------
(* The ring.                                                               *)

(* The ring takes the latency of a ping that ended in the slot behind the  *)
(* last one, over the oldest of three.                                     *)
LEMMA RingTakes ==
    ASSUME NEW ring \in [1 .. Latest -> Int], NEW ended \in Seq(Int),
           RingHolds(ring, ended), NEW latency \in Int
    PROVE  LET slot == SlotOf(Len(ended) + 1)
               next == [ring EXCEPT ![slot] = latency]
           IN  /\ next \in [1 .. Latest -> Int]
               /\ RingHolds(next, Append(ended, latency))
               /\ (slot % Latest) + 1 = SlotOf(Len(Append(ended, latency)) + 1)
<1>. DEFINE n == Len(ended)
            slot == SlotOf(n + 1)
            next == [ring EXCEPT ![slot] = latency]
            more == Append(ended, latency)
<1>1. /\ n \in Nat
      /\ Len(more) = n + 1
      /\ more[n + 1] = latency
      /\ \A j \in 1 .. n : more[j] = ended[j]
  OBVIOUS
<1>2. slot \in 1 .. Latest /\ slot = (n % 3) + 1
  BY <1>1 DEF SlotOf, Latest
<1>3. /\ next \in [1 .. Latest -> Int]
      /\ next[slot] = latency
      /\ \A k \in 1 .. Latest : k # slot => next[k] = ring[k]
  BY <1>2
<1>. HIDE DEF n, more, next, slot
<1>4. ASSUME NEW j \in 1 .. Len(more), j + Latest > Len(more)
      PROVE  next[SlotOf(j)] = more[j]
  <2>1. CASE j = n + 1
    BY <1>1, <1>3, <2>1 DEF slot
  <2>2. CASE j # n + 1
    <3>1. j \in 1 .. n /\ j + 3 > n + 1
      BY <1>1, <1>4, <2>2 DEF Latest
    <3>2. SlotOf(j) \in 1 .. Latest /\ SlotOf(j) # slot
      BY <1>1, <1>2, <3>1 DEF SlotOf, Latest
    <3>3. ring[SlotOf(j)] = ended[j]
      BY <1>1, <3>1 DEF RingHolds, Latest, n
    <3>. QED
      BY <1>1, <1>3, <3>1, <3>2, <3>3
  <2>. QED
    BY <2>1, <2>2
<1>5. ASSUME NEW k \in 1 .. Latest, k > Len(more)
      PROVE  next[k] = 0
  <2>1. k > n /\ k # slot
    BY <1>1, <1>2, <1>5 DEF Latest
  <2>. QED
    BY <1>3, <2>1 DEF RingHolds, n
<1>6. (slot % Latest) + 1 = SlotOf(Len(more) + 1)
  BY <1>1, <1>2 DEF SlotOf, Latest
<1>. QED
  BY <1>3, <1>4, <1>5, <1>6 DEF RingHolds, n, slot, next, more

-----------------------------------------------------------------------------
(* Init and the actions.                                                   *)

(* A new record is regular.                                                *)
LEMMA NewPeerRegular == NewPeer => Regular'
<1>. SUFFICES ASSUME NewPeer PROVE Regular'
  OBVIOUS
<1>1. /\ latencies' \in [1 .. Latest -> Int]
      /\ \A k \in 1 .. Latest : latencies'[k] = 0
  BY DEF NewPeer, Latest
<1>2. /\ timed' \in Seq(Int) /\ Len(timed') = 0
      /\ written' \in Seq(Nat) /\ Len(written') = 0
  BY DEF NewPeer
<1>. QED
  BY <1>1, <1>2 DEF NewPeer, Regular, RingHolds, SlotOf, Latest

LEMMA PingInitInv == PingInit => PingInv
<1>. SUFFICES ASSUME PingInit PROVE PingInv
  OBVIOUS
<1>1. /\ latencies \in [1 .. Latest -> Int]
      /\ \A k \in 1 .. Latest : latencies[k] = 0
  BY DEF PingInit, Latest
<1>2. /\ timed \in Seq(Int) /\ Len(timed) = 0
      /\ written \in Seq(Nat) /\ Len(written) = 0
  BY DEF PingInit
<1>3. RingHolds(latencies, timed) /\ SlotOf(Len(timed) + 1) = 1
  BY <1>1, <1>2 DEF RingHolds, SlotOf, Latest
<1>4. Regular
  BY <1>1, <1>2, <1>3 DEF PingInit, Regular
<1>5. now \in Nat \ {0}
  BY DEF PingInit
<1>6. odd \in BOOLEAN
  BY DEF PingInit
<1>. QED
  BY <1>4, <1>5, <1>6 DEF PingInv

(* A ping that ends: by the next one or by its pong, it is recorded with   *)
(* the time since it was written.                                          *)
LEMMA PingEnds ==
    ASSUME PingInv, Regular, nonce # 0, writing = << >>,
           RecordLatency(now - pingSent),
           timed' = Append(timed, now - Last(written))
    PROVE  /\ latencies' \in [1 .. Latest -> Int]
           /\ timed' \in Seq(Int)
           /\ latencyIndex' = SlotOf(Len(timed') + 1)
           /\ RingHolds(latencies', timed')
<1>1. nonce \in Nat /\ written \in Seq(Nat) /\ Len(written) = nonce
  BY DEF Regular
<1>2. writing # <<nonce>>
  OBVIOUS
<1>3. pingSent = written[nonce] /\ pingSent \in Nat
  BY <1>2 DEF Regular
<1>4. Last(written) = pingSent
  BY <1>1, <1>3 DEF Last
<1>5. now - pingSent \in Int
  BY <1>3 DEF PingInv
<1>6. /\ latencies \in [1 .. Latest -> Int]
      /\ timed \in Seq(Int)
      /\ RingHolds(latencies, timed)
      /\ latencyIndex = SlotOf(Len(timed) + 1)
  BY DEF Regular
<1>7. /\ latencies' = [latencies EXCEPT ![SlotOf(Len(timed) + 1)] = now - pingSent]
      /\ latencyIndex' = (SlotOf(Len(timed) + 1) % Latest) + 1
      /\ timed' = Append(timed, now - pingSent)
  <2>1. /\ latencies' = [latencies EXCEPT ![latencyIndex] = now - pingSent]
        /\ latencyIndex' = (latencyIndex % Latest) + 1
    BY DEF RecordLatency
  <2>. QED
    BY <1>4, <1>6, <2>1
<1>8. /\ latencies' \in [1 .. Latest -> Int]
      /\ RingHolds(latencies', Append(timed, now - pingSent))
      /\ latencyIndex' = SlotOf(Len(Append(timed, now - pingSent)) + 1)
  <2>. DEFINE latency == now - pingSent
              slot == SlotOf(Len(timed) + 1)
              ring == [latencies EXCEPT ![slot] = latency]
              more == Append(timed, latency)
  <2>1. latency \in Int
    BY <1>5
  <2>. HIDE DEF latency
  <2>2. /\ ring \in [1 .. Latest -> Int]
        /\ RingHolds(ring, more)
        /\ (slot % Latest) + 1 = SlotOf(Len(more) + 1)
    BY <1>6, <2>1, RingTakes
  <2>3. latencies' = ring /\ latencyIndex' = (slot % Latest) + 1
    BY <1>7 DEF latency
  <2>. HIDE DEF ring, slot, more
  <2>4. /\ latencies' \in [1 .. Latest -> Int]
        /\ RingHolds(latencies', more)
        /\ latencyIndex' = SlotOf(Len(more) + 1)
    BY <2>2, <2>3
  <2>. QED
    BY <2>4 DEF more, latency
<1>9. timed' \in Seq(Int)
  BY <1>5, <1>6, <1>7
<1>. QED
  BY <1>7, <1>8, <1>9

LEMMA PingPeerInv ==
    ASSUME PingInv, PingPeer
    PROVE  PingInv'
<1>1. now' \in Nat \ {0} /\ odd' \in BOOLEAN
  BY DEF PingInv, PingPeer
<1>2. ASSUME ~ odd, writing = << >>
      PROVE  Regular'
  <2>1. Regular
    BY <1>2 DEF PingInv
  <2>2. /\ nonce' = nonce + 1 /\ nonce \in Nat
        /\ written' = Append(written, 0) /\ written \in Seq(Nat)
        /\ Len(written) = nonce
        /\ writing' = Append(<< >>, nonce + 1)
        /\ pingSent' = pingSent /\ pingSent \in Nat
    BY <1>2, <2>1 DEF Regular, PingPeer
  <2>3. /\ written' \in Seq(Nat)
        /\ Len(written') = nonce'
        /\ written'[nonce'] = 0
        /\ writing' = <<nonce'>>
        /\ nonce' \in Nat /\ nonce' # 0
        /\ pingSent' \in Nat
    BY <2>2
  <2>4. nonce # 0 <=> pingSent # 0
    BY <1>2, <2>1 DEF Regular
  <2>5. /\ latencies' \in [1 .. Latest -> Int]
        /\ timed' \in Seq(Int)
        /\ latencyIndex' = SlotOf(Len(timed') + 1)
        /\ RingHolds(latencies', timed')
    <3>1. CASE nonce # 0 /\ pongReceived = 0
      <4>1. /\ RecordLatency(now - pingSent)
            /\ timed' = Append(timed, now - Last(written))
        BY <2>4, <3>1 DEF PingPeer
      <4>. QED
        BY <1>2, <2>1, <3>1, <4>1, PingEnds
    <3>2. CASE ~ (nonce # 0 /\ pongReceived = 0)
      <4>1. UNCHANGED <<latencies, latencyIndex, timed>>
        BY <2>4, <3>2 DEF PingPeer
      <4>. QED
        BY <2>1, <4>1 DEF Regular
    <3>. QED
      BY <3>1, <3>2
  <2>. QED
    BY <2>3, <2>5 DEF Regular
<1>3. odd' \/ (~ odd /\ writing = << >>)
  BY DEF PingPeer, PingInv
<1>. QED
  BY <1>1, <1>2, <1>3 DEF PingInv

LEMMA OnMessageAttemptedInv ==
    ASSUME PingInv, NEW failed \in BOOLEAN, OnMessageAttempted(failed)
    PROVE  PingInv'
<1>1. now' \in Nat \ {0} /\ odd' \in BOOLEAN
  BY DEF PingInv, OnMessageAttempted
<1>2. ASSUME ~ odd, ~ failed
      PROVE  Regular'
  <2>1. Regular /\ writing = <<nonce>>
    BY <1>2 DEF PingInv, Regular, OnMessageAttempted
  <2>2. /\ nonce \in Nat /\ nonce # 0
        /\ written \in Seq(Nat) /\ Len(written) = nonce
    BY <2>1 DEF Regular
  <2>3. /\ Head(writing) = nonce
        /\ writing' = << >>
    BY <2>1 DEF OnMessageAttempted
  <2>4. /\ pingSent' = now /\ now \in Nat /\ now # 0
        /\ written' = [written EXCEPT ![nonce] = now]
        /\ UNCHANGED <<nonce, latencies, latencyIndex, timed>>
    BY <1>2, <2>3 DEF OnMessageAttempted, PingInv
  <2>5. /\ written' \in Seq(Nat)
        /\ Len(written') = nonce
        /\ written'[nonce] = now
    BY <2>2, <2>4
  <2>. QED
    BY <2>1, <2>2, <2>3, <2>4, <2>5 DEF Regular
<1>3. odd' \/ (~ odd /\ ~ failed)
  BY DEF OnMessageAttempted, PingInv
<1>. QED
  BY <1>1, <1>2, <1>3 DEF PingInv

LEMMA PongInv ==
    ASSUME PingInv, Pong
    PROVE  PingInv'
<1>1. now' \in Nat \ {0} /\ odd' \in BOOLEAN
  BY DEF PingInv, Pong
<1>2. ASSUME ~ odd, nonce # 0, pongReceived = 0
      PROVE  Regular'
  <2>1. Regular
    BY <1>2 DEF PingInv
  <2>2. written[nonce] # 0
    BY <1>2 DEF Pong, KnownNonces
  <2>3. writing = << >>
    BY <1>2, <2>1, <2>2 DEF Regular
  <2>4. /\ RecordLatency(now - pingSent)
        /\ timed' = Append(timed, now - Last(written))
        /\ UNCHANGED <<nonce, pingSent, writing, written>>
    BY <1>2 DEF Pong
  <2>5. /\ latencies' \in [1 .. Latest -> Int]
        /\ timed' \in Seq(Int)
        /\ latencyIndex' = SlotOf(Len(timed') + 1)
        /\ RingHolds(latencies', timed')
    BY <1>2, <2>1, <2>3, <2>4, PingEnds
  <2>. QED
    BY <2>1, <2>4, <2>5 DEF Regular
<1>3. odd' \/ (~ odd /\ nonce # 0 /\ pongReceived = 0)
  BY DEF Pong, PingInv
<1>. QED
  BY <1>1, <1>2, <1>3 DEF PingInv

LEMMA PingStepInv == PingInv /\ [PingNext]_pingVars => PingInv'
<1>. SUFFICES ASSUME PingInv, [PingNext]_pingVars PROVE PingInv'
  OBVIOUS
<1>1. CASE Tick
  BY <1>1 DEF Tick, PingInv, Regular, RingHolds
<1>2. CASE PingPeer
  BY <1>2, PingPeerInv
<1>3. ASSUME NEW failed \in BOOLEAN, OnMessageAttempted(failed) PROVE PingInv'
  BY <1>3, OnMessageAttemptedInv
<1>4. CASE Pong
  BY <1>4, PongInv
<1>5. CASE CheckPing
  BY <1>5, NewPeerRegular DEF CheckPing, NewPeer, PingInv
<1>6. CASE UNCHANGED pingVars
  BY <1>6 DEF pingVars, PingInv, Regular, RingHolds
<1>. QED
  BY <1>1, <1>2, <1>3, <1>4, <1>5, <1>6 DEF PingNext

-----------------------------------------------------------------------------
(* A ring that holds the last three holds them where the property looks.   *)
LEMMA RingIsTimed == PingInv => PingsTimedOnce
<1>. SUFFICES ASSUME PingInv, ~ odd, NEW k \in 1 .. Latest
              PROVE  latencies[k] =
                        (IF k > Len(timed) THEN 0
                         ELSE timed[CHOOSE j \in 1 .. Len(timed) :
                                       /\ j % Latest = k % Latest
                                       /\ j + Latest > Len(timed)])
  BY DEF PingsTimedOnce
<1>1. /\ timed \in Seq(Int)
      /\ RingHolds(latencies, timed)
  BY DEF PingInv, Regular
<1>2. CASE k > Len(timed)
  BY <1>1, <1>2 DEF RingHolds
<1>3. CASE ~ (k > Len(timed))
  <2>. DEFINE n == Len(timed)
              P(j) == j % Latest = k % Latest /\ j + Latest > n
              last == CHOOSE j \in 1 .. n : P(j)
  <2>1. n \in Nat /\ k <= n
    BY <1>1, <1>3 DEF Latest
  <2>2. \E j \in 1 .. n : P(j)
    <3>1. /\ n - ((n - k) % 3) \in 1 .. n
          /\ P(n - ((n - k) % 3))
      BY <2>1 DEF Latest
    <3>. QED
      BY <3>1
  <2>3. last \in 1 .. n /\ P(last)
    <3>. HIDE DEF P
    <3>. QED
      BY <2>2
  <2>4. SlotOf(last) = k
    <3>. HIDE DEF last
    <3>. QED
      BY <2>1, <2>3 DEF SlotOf, Latest
  <2>5. latencies[SlotOf(last)] = timed[last]
    <3>. HIDE DEF last
    <3>. QED
      BY <1>1, <2>3 DEF RingHolds
  <2>. QED
    BY <1>3, <2>4, <2>5
<1>. QED
  BY <1>2, <1>3

(* The ring holds how long the last three pings took, each once, whatever  *)
(* the clock does between them and however often the peer is replaced      *)
(* (ping_peer, on_message_attempted and handle_pong).                      *)
THEOREM PingsTimedOnceCorrect == PingSpec => []PingsTimedOnce
<1>. QED
  BY PingInitInv, PingStepInv, RingIsTimed, PTL DEF PingSpec

-----------------------------------------------------------------------------
(* Candidates.                                                             *)

Entry == [ip: Addresses, recent: BOOLEAN]

CInv ==
    /\ memory \in Seq(Entry)
    /\ memory # << >>
    /\ count \in 0 .. Len(memory)
    /\ file \in Seq(Entry)
    /\ candidacy \in [Slots -> {NoPeer} \cup [entry: DOMAIN memory, ip: Addresses]]

(* The filter keeps no more than there is.                                 *)
LEMMA KeptFits ==
    ASSUME count \in Nat
    PROVE  Len(Kept) \in 0 .. count
<1>. DEFINE keep == {i \in 1 .. count :
                       /\ memory[i].recent
                       /\ \A j \in i + 1 .. count : memory[j].ip # memory[i].ip}
<1>1. \A n \in Nat : IsFiniteSet(1 .. n) /\ Cardinality(1 .. n) = n
  BY FS_Interval
<1>2. keep \subseteq 1 .. count
  OBVIOUS
<1>. HIDE DEF keep
<1>3. Cardinality(keep) \in Nat /\ Cardinality(keep) <= count
  <2>1. IsFiniteSet(1 .. count) /\ Cardinality(1 .. count) = count
    BY <1>1
  <2>2. IsFiniteSet(keep) /\ Cardinality(keep) <= Cardinality(1 .. count)
    BY <1>2, <2>1, FS_Subset
  <2>. QED
    BY <2>1, <2>2, FS_CardinalityType
<1>4. Len(Kept) = Cardinality(keep)
  <2>1. Kept = [k \in 1 .. Cardinality(keep) |->
                  memory[CHOOSE i \in keep : Cardinality({j \in keep : j <= i}) = k]]
    BY DEF Kept, keep
  <2>. QED
    BY <1>3, <2>1
<1>. QED
  BY <1>3, <1>4

(* The time stamp of one entry changes, and no address.                    *)
LEMMA StampKeeps ==
    ASSUME memory \in Seq(Entry), NEW i \in DOMAIN memory, NEW recent \in BOOLEAN
    PROVE  LET stamped == [memory EXCEPT ![i].recent = recent]
           IN  /\ stamped \in Seq(Entry)
               /\ Len(stamped) = Len(memory)
               /\ \A k \in DOMAIN memory : stamped[k].ip = memory[k].ip
<1>. DEFINE new == [memory[i] EXCEPT !.recent = recent]
            stamped == [memory EXCEPT ![i] = new]
<1>1. memory[i] \in Entry
  OBVIOUS
<1>2. new \in Entry /\ new.ip = memory[i].ip
  BY <1>1 DEF Entry
<1>. HIDE DEF new
<1>3. /\ stamped \in Seq(Entry)
      /\ Len(stamped) = Len(memory)
      /\ \A k \in DOMAIN memory : stamped[k].ip = memory[k].ip
  BY <1>2
<1>. QED
  BY <1>3 DEF new

LEMMA BootstrappedIs == Bootstrapped \in Seq(Entry) /\ Bootstrapped # << >>
<1>1. Seeds \in Seq(Addresses) /\ Len(Seeds) \in Nat \ {0}
  BY CandidatesAssumption
<1>2. \A i \in 1 .. Len(Seeds) : [ip |-> Seeds[i], recent |-> FALSE] \in Entry
  BY <1>1 DEF Entry
<1>3. Bootstrapped = [i \in 1 .. Len(Seeds) |-> [ip |-> Seeds[i], recent |-> FALSE]]
  BY <1>1 DEF Bootstrapped
<1>. QED
  BY <1>1, <1>2, <1>3

LEMMA CandidatesInit == Init => CInv
<1>. SUFFICES ASSUME Init PROVE CInv
  OBVIOUS
<1>1. Len(Bootstrapped) = Len(Seeds)
  BY CandidatesAssumption DEF Bootstrapped
<1>. QED
  BY <1>1, BootstrappedIs, CandidatesAssumption DEF Init, CInv

(* What a step keeps of the list.                                          *)
StaysPut == \A i \in 1 .. count : i <= count' => memory'[i].ip = memory[i].ip

LEMMA AddKeeps ==
    ASSUME CInv, NEW ip \in Addresses, NEW recent \in BOOLEAN, AddAddress(ip, recent)
    PROVE  CInv' /\ StaysPut
<1>. DEFINE entry == [ip |-> ip, recent |-> recent]
<1>1. entry \in Entry
  BY DEF Entry
<1>2. UNCHANGED <<candidacy, file>> /\ count' = count + 1
  BY DEF AddAddress
<1>3. memory' = IF count < Len(memory) THEN [memory EXCEPT ![count + 1] = entry]
                ELSE Append(memory, entry)
  BY DEF AddAddress
<1>. HIDE DEF entry
<1>4. /\ memory' \in Seq(Entry)
      /\ Len(memory') >= Len(memory)
      /\ count + 1 \in 1 .. Len(memory')
      /\ \A i \in 1 .. count : memory'[i] = memory[i]
  <2>1. CASE count < Len(memory)
    BY <1>1, <1>3, <2>1 DEF CInv
  <2>2. CASE count = Len(memory)
    BY <1>1, <1>3, <2>2 DEF CInv
  <2>. QED
    BY <2>1, <2>2 DEF CInv
<1>5. DOMAIN memory \subseteq DOMAIN memory' /\ memory' # << >>
  BY <1>4 DEF CInv
<1>6. candidacy' \in [Slots -> {NoPeer} \cup [entry: DOMAIN memory', ip: Addresses]]
  BY <1>2, <1>5 DEF CInv
<1>. QED
  BY <1>2, <1>4, <1>5, <1>6 DEF CInv, StaysPut

LEMMA SaveKeeps ==
    ASSUME CInv, SaveCandidates
    PROVE  CInv' /\ StaysPut
<1>1. PICK recent \in BOOLEAN :
         /\ memory' = Filtered(recent)
         /\ file' = SubSeq(Filtered(recent), 1, Len(Kept))
  BY DEF SaveCandidates
<1>2. UNCHANGED candidacy /\ count' = Len(Kept)
  BY DEF SaveCandidates
<1>3. Len(Kept) \in 0 .. count
  BY KeptFits DEF CInv
<1>4. 1 \in DOMAIN memory
  BY DEF CInv
<1>5. /\ memory' \in Seq(Entry)
      /\ Len(memory') = Len(memory)
      /\ \A k \in DOMAIN memory : memory'[k].ip = memory[k].ip
  BY <1>1, <1>4, StampKeeps DEF Filtered, CInv
<1>6. file' \in Seq(Entry)
  <2>1. file' = SubSeq(memory', 1, Len(Kept))
    BY <1>1
  <2>. QED
    BY <2>1, <1>3, <1>5 DEF CInv
<1>7. DOMAIN memory' = DOMAIN memory /\ memory' # << >>
  BY <1>5 DEF CInv
<1>8. count' \in 0 .. Len(memory')
  BY <1>2, <1>3, <1>5 DEF CInv
<1>9. CInv'
  BY <1>2, <1>5, <1>6, <1>7, <1>8 DEF CInv
<1>10. StaysPut
  BY <1>5 DEF CInv, StaysPut
<1>. QED
  BY <1>9, <1>10

LEMMA ConnectToKeeps ==
    ASSUME CInv, NEW slot \in Slots, ConnectTo(slot)
    PROVE  CInv' /\ StaysPut
<1>1. PICK i \in Picks :
         candidacy' = [candidacy EXCEPT ![slot] = [entry |-> i, ip |-> memory[i].ip]]
  BY DEF ConnectTo
<1>2. UNCHANGED <<memory, count, file>>
  BY DEF ConnectTo
<1>3. i \in DOMAIN memory
  BY DEF Picks, CInv
<1>4. memory[i] \in Entry
  BY <1>3 DEF CInv
<1>5. [entry |-> i, ip |-> memory[i].ip] \in [entry: DOMAIN memory, ip: Addresses]
  BY <1>3, <1>4 DEF Entry
<1>6. candidacy' \in [Slots -> {NoPeer} \cup [entry: DOMAIN memory, ip: Addresses]]
  BY <1>1, <1>5 DEF CInv
<1>. QED
  BY <1>2, <1>6 DEF CInv, StaysPut

LEMMA StampStep ==
    ASSUME CInv, NEW i \in DOMAIN memory, NEW recent \in BOOLEAN,
           memory' = [memory EXCEPT ![i].recent = recent],
           UNCHANGED <<count, candidacy, file>>
    PROVE  CInv' /\ StaysPut
<1>1. /\ memory' \in Seq(Entry)
      /\ Len(memory') = Len(memory)
      /\ \A k \in DOMAIN memory : memory'[k].ip = memory[k].ip
  BY StampKeeps DEF CInv
<1>2. DOMAIN memory' = DOMAIN memory /\ memory' # << >>
  BY <1>1 DEF CInv
<1>. QED
  BY <1>1, <1>2 DEF CInv, StaysPut

LEMMA RestartKeeps ==
    ASSUME CInv, Restart
    PROVE  CInv' /\ \A slot \in Slots : candidacy'[slot] = NoPeer
<1>1. Loaded(file) \in Seq(Entry) /\ Loaded(file) # << >>
  BY BootstrappedIs DEF Loaded, CInv
<1>2. /\ memory' = Loaded(file)
      /\ count' = Len(Loaded(file))
      /\ candidacy' = [slot \in Slots |-> NoPeer]
      /\ file' = file
  BY DEF Restart
<1>3. Len(Loaded(file)) \in 0 .. Len(Loaded(file))
  BY <1>1
<1>. QED
  BY <1>1, <1>2, <1>3 DEF CInv

(* Every step keeps the invariant, and the addresses if peers go on.       *)
LEMMA CandidatesStep ==
    ASSUME CInv, [Next]_vars
    PROVE  CInv' /\ (StaysPut \/ \A slot \in Slots : candidacy'[slot] = NoPeer)
<1>1. ASSUME NEW slot \in Slots, Hear(slot)
      PROVE  CInv' /\ StaysPut
  <2>1. candidacy[slot].entry \in DOMAIN memory
    BY <1>1 DEF Hear, CInv
  <2>2. /\ memory' = [memory EXCEPT ![candidacy[slot].entry].recent = TRUE]
        /\ UNCHANGED <<count, candidacy, file>>
    BY <1>1 DEF Hear
  <2>. QED
    BY <2>1, <2>2, StampStep
<1>2. ASSUME NEW i \in 1 .. MaxCandidates, Grow(i)
      PROVE  CInv' /\ StaysPut
  BY <1>2, StampStep DEF Grow
<1>3. CASE UNCHANGED vars
  BY <1>3 DEF vars, CInv, StaysPut
<1>. QED
  BY <1>1, <1>2, <1>3, AddKeeps, SaveKeeps, ConnectToKeeps, RestartKeeps DEF Next

(* The invariant of the candidates holds in every reachable state: the     *)
(* count never exceeds what was written, and peers point into that.        *)
THEOREM CInvCorrect == Spec => []CInv
<1>1. CInv /\ [Next]_vars => CInv'
  BY CandidatesStep
<1>. QED
  BY <1>1, CandidatesInit, PTL DEF Spec

(* No address moves within the list while peers point into it, whatever is *)
(* added, cut by a save and added again (filter_peer_candidates,           *)
(* add_address_as_candidate).                                              *)
THEOREM AddressesStayPutCorrect == Spec => AddressesStayPut
<1>1. CInv /\ [Next]_vars
        => [(\E slot \in Slots : candidacy'[slot] # NoPeer)
              => \A i \in 1 .. count : i <= count' => memory'[i].ip = memory[i].ip]_vars
  BY CandidatesStep DEF StaysPut
<1>. QED
  BY <1>1, CInvCorrect, PTL DEF Spec, AddressesStayPut

-----------------------------------------------------------------------------
(* The stream of messages.                                                 *)

Item == Messages \cup {Noise}
Cell == Messages \cup {Magic, Filler, Noise}

WireFold  == INSTANCE Folding WITH Op <- AppendWire
SoundFold == INSTANCE Folding WITH Op <- KeepSound
TurnFold  == INSTANCE Folding WITH Op <- ExtractNext

LEMMA SameWireFold ==
    \A items : WireOf(items) = WireFold!FoldLeft(AppendWire, << >>, items)
  BY DEF WireOf, FoldLeft, MapThenFoldSet, Max, WireFold!FoldLeft,
         WireFold!MapThenFoldSet, WireFold!Max

LEMMA SameSoundFold ==
    \A items : SoundOf(items) = SoundFold!FoldLeft(KeepSound, << >>, items)
  BY DEF SoundOf, FoldLeft, MapThenFoldSet, Max, SoundFold!FoldLeft,
         SoundFold!MapThenFoldSet, SoundFold!Max

LEMMA SameTurnFold ==
    \A cache, turns : FoldLeft(ExtractNext, cache, turns)
                        = TurnFold!FoldLeft(ExtractNext, cache, turns)
  BY DEF FoldLeft, MapThenFoldSet, Max, TurnFold!FoldLeft,
         TurnFold!MapThenFoldSet, TurnFold!Max

(* Pieces of a sequence: their cells, the rest of one, two that join.      *)
LEMMA CutIs ==
    ASSUME NEW S, NEW w \in Seq(S), NEW p \in Nat, NEW a \in 0 .. Len(w), p <= a
    PROVE  /\ SubSeq(w, p + 1, a) \in Seq(S)
           /\ Len(SubSeq(w, p + 1, a)) = a - p
           /\ \A i \in 1 .. a - p : SubSeq(w, p + 1, a)[i] = w[p + i]
<1>1. Len(w) \in Nat /\ \A i \in p + 1 .. a : w[i] \in S
  OBVIOUS
<1>2. p + 1 \in Int /\ a \in Int /\ a - (p + 1) + 1 = a - p
  BY <1>1
<1>3. /\ SubSeq(w, p + 1, a) \in Seq(S)
      /\ Len(SubSeq(w, p + 1, a)) = IF p + 1 <= a THEN a - (p + 1) + 1 ELSE 0
      /\ \A i \in 1 .. a - (p + 1) + 1 : SubSeq(w, p + 1, a)[i] = w[(p + 1) + i - 1]
  BY <1>1, <1>2, SubSeqProperties
<1>4. \A i \in 1 .. a - p : (p + 1) + i - 1 = p + i
  OBVIOUS
<1>5. (IF p + 1 <= a THEN a - (p + 1) + 1 ELSE 0) = a - p
  BY <1>1
<1>. QED
  BY <1>2, <1>3, <1>4, <1>5

LEMMA CutRest ==
    ASSUME NEW S, NEW w \in Seq(S), NEW p \in Nat, NEW q \in Nat,
           NEW a \in 0 .. Len(w), p <= q, q <= a
    PROVE  Rest(SubSeq(w, p + 1, a), q - p) = SubSeq(w, q + 1, a)
<1>. DEFINE s == SubSeq(w, p + 1, a)
            t == SubSeq(s, (q - p) + 1, a - p)
            u == SubSeq(w, q + 1, a)
<1>1. Len(w) \in Nat /\ q - p \in Nat /\ a - p \in Nat /\ q - p <= a - p
  OBVIOUS
<1>2. s \in Seq(S) /\ Len(s) = a - p /\ \A i \in 1 .. a - p : s[i] = w[p + i]
  BY <1>1, CutIs
<1>3. u \in Seq(S) /\ Len(u) = a - q /\ \A i \in 1 .. a - q : u[i] = w[q + i]
  BY <1>1, CutIs
<1>4. Rest(s, q - p) = t
  BY <1>2 DEF Rest
<1>. HIDE DEF s, u
<1>5. /\ t \in Seq(S) /\ Len(t) = (a - p) - (q - p)
      /\ \A i \in 1 .. (a - p) - (q - p) : t[i] = s[(q - p) + i]
  <2>1. a - p \in 0 .. Len(s)
    BY <1>1, <1>2
  <2>. QED
    BY <1>1, <1>2, <2>1, CutIs
<1>. HIDE DEF t
<1>6. Len(t) = Len(u) /\ \A i \in 1 .. Len(t) : t[i] = u[i]
  BY <1>1, <1>2, <1>3, <1>5
<1>7. t = u
  BY <1>3, <1>5, <1>6, SeqEqual
<1>. QED
  BY <1>4, <1>7 DEF s, u

LEMMA CutJoin ==
    ASSUME NEW S, NEW w \in Seq(S), NEW p \in Nat, NEW q \in Nat,
           NEW a \in 0 .. Len(w), p <= q, q <= a
    PROVE  SubSeq(w, p + 1, q) \o SubSeq(w, q + 1, a) = SubSeq(w, p + 1, a)
<1>1. p + 1 \in 1 .. Len(w) + 1 /\ q \in (p + 1) - 1 .. Len(w) /\ a \in q .. Len(w)
  OBVIOUS
<1>. QED
  BY <1>1, ConcatAdjacentSubSeq

LEMMA PrefixLonger ==
    ASSUME NEW S, NEW items \in Seq(S), NEW k \in 0 .. Len(items) - 1
    PROVE  /\ SubSeq(items, 1, k) \in Seq(S)
           /\ Len(SubSeq(items, 1, k)) = k
           /\ items[k + 1] \in S
           /\ SubSeq(items, 1, k + 1) = Append(SubSeq(items, 1, k), items[k + 1])
<1>. DEFINE s == SubSeq(items, 1, k)
            t == SubSeq(items, 1, k + 1)
            u == Append(s, items[k + 1])
<1>1. Len(items) \in Nat /\ k \in 0 .. Len(items) /\ k + 1 \in 0 .. Len(items) /\ 0 + 1 = 1
      /\ items[k + 1] \in S
  OBVIOUS
<1>2. s \in Seq(S) /\ Len(s) = k /\ \A i \in 1 .. k : s[i] = items[i]
  <2>1. SubSeq(items, 0 + 1, k) \in Seq(S) /\ Len(SubSeq(items, 0 + 1, k)) = k - 0
        /\ \A i \in 1 .. k - 0 : SubSeq(items, 0 + 1, k)[i] = items[0 + i]
    BY <1>1, CutIs
  <2>. QED
    BY <1>1, <2>1
<1>3. t \in Seq(S) /\ Len(t) = k + 1 /\ \A i \in 1 .. k + 1 : t[i] = items[i]
  <2>1. SubSeq(items, 0 + 1, k + 1) \in Seq(S) /\ Len(SubSeq(items, 0 + 1, k + 1)) = (k + 1) - 0
        /\ \A i \in 1 .. (k + 1) - 0 : SubSeq(items, 0 + 1, k + 1)[i] = items[0 + i]
    BY <1>1, CutIs
  <2>. QED
    BY <1>1, <2>1
<1>. HIDE DEF s, t
<1>4. u \in Seq(S) /\ Len(u) = k + 1
      /\ \A i \in 1 .. k : u[i] = s[i] /\ u[k + 1] = items[k + 1]
  BY <1>1, <1>2, AppendProperties
<1>5. u[k + 1] = items[k + 1]
  BY <1>1, <1>2, AppendProperties
<1>. HIDE DEF u
<1>6. \A i \in 1 .. Len(t) : t[i] = u[i]
  BY <1>1, <1>2, <1>3, <1>4, <1>5
<1>7. t = u
  BY <1>3, <1>4, <1>6, SeqEqual
<1>. QED
  BY <1>1, <1>2, <1>7 DEF s, t, u

(* What the peer writes for an item.                                       *)
LEMMA WireIs ==
    /\ Wire(Noise) = <<Noise>>
    /\ \A m \in Messages :
          /\ Len(Wire(m)) = HeaderSize + Len(Payload[m])
          /\ Len(Payload[m]) \in Nat
          /\ Wire(m)[1] = Magic /\ Wire(m)[HeaderSize] = m
    /\ \A item \in Item : Wire(item) \in Seq(Cell) /\ Len(Wire(item)) \in Nat \ {0}
<1>1. Noise \notin Messages
  BY StreamAssumption
<1>2. Wire(Noise) = <<Noise>>
  BY DEF Wire
<1>5. Wire(Noise) \in Seq(Cell) /\ Len(Wire(Noise)) \in Nat \ {0}
  BY <1>2 DEF Cell
<1>3. ASSUME NEW m \in Messages
      PROVE  /\ Len(Wire(m)) = HeaderSize + Len(Payload[m])
             /\ Len(Payload[m]) \in Nat
             /\ Wire(m)[1] = Magic /\ Wire(m)[HeaderSize] = m
             /\ Wire(m) \in Seq(Cell)
  <2>. DEFINE h == Header(m)
              p == Payload[m]
  <2>1. h \in Seq(Cell) /\ Len(h) = 3 /\ h[1] = Magic /\ h[3] = m
    BY DEF Header, Cell
  <2>2. p \in Seq(Cell) /\ Len(p) \in Nat
    <3>1. p \in Seq({Magic, Filler})
      BY StreamAssumption
    <3>2. {Magic, Filler} \subseteq Cell
      BY DEF Cell
    <3>. HIDE DEF p
    <3>3. p \in Seq(Cell)
      BY <3>1, <3>2
    <3>. QED
      BY <3>3
  <2>3. Wire(m) = h \o p
    BY <1>1 DEF Wire
  <2>. HIDE DEF h, p
  <2>4. /\ h \o p \in Seq(Cell)
        /\ Len(h \o p) = Len(h) + Len(p)
        /\ \A i \in 1 .. Len(h) + Len(p) :
              (h \o p)[i] = IF i <= Len(h) THEN h[i] ELSE p[i - Len(h)]
    <3>1. h \in Seq(Cell) /\ p \in Seq(Cell)
      BY <2>1, <2>2
    <3>. QED
      BY <3>1, ConcatProperties
  <2>5. (h \o p)[1] = h[1] /\ (h \o p)[3] = h[3]
    BY <2>1, <2>2, <2>4
  <2>. QED
    BY <2>1, <2>2, <2>3, <2>4, <2>5 DEF HeaderSize, p
<1>4. \A item \in Item : Wire(item) \in Seq(Cell) /\ Len(Wire(item)) \in Nat \ {0}
  <2>. SUFFICES ASSUME NEW item \in Item
                PROVE  Wire(item) \in Seq(Cell) /\ Len(Wire(item)) \in Nat \ {0}
    OBVIOUS
  <2>1. CASE item = Noise
    BY <1>5, <2>1
  <2>2. CASE item \in Messages
    BY <1>3, <2>2 DEF HeaderSize
  <2>. QED
    BY <2>1, <2>2 DEF Item
<1>. QED
  BY <1>2, <1>3, <1>4

(* Where each item ends.                                                   *)
Ends(items) == [k \in 0 .. Len(items) |-> Len(WireOf(SubSeq(items, 1, k)))]

LEMMA WireOfEmpty == WireOf(<< >>) = << >>
  BY SameWireFold, WireFold!FoldLeftEmpty

LEMMA WireOfAppend ==
    ASSUME NEW items \in Seq(Item), NEW item \in Item
    PROVE  WireOf(Append(items, item)) = WireOf(items) \o Wire(item)
<1>1. WireFold!FoldLeft(AppendWire, << >>, Append(items, item))
        = AppendWire(WireFold!FoldLeft(AppendWire, << >>, items), item)
  BY WireFold!FoldLeftAppend
<1>. QED
  BY <1>1, SameWireFold DEF AppendWire

LEMMA WireOfPrefix ==
    ASSUME NEW items \in Seq(Item)
    PROVE  /\ \A k \in 0 .. Len(items) - 1 :
                 WireOf(SubSeq(items, 1, k + 1))
                   = WireOf(SubSeq(items, 1, k)) \o Wire(items[k + 1])
           /\ \A k \in 0 .. Len(items) : WireOf(SubSeq(items, 1, k)) \in Seq(Cell)
           /\ WireOf(SubSeq(items, 1, 0)) = << >>
           /\ WireOf(SubSeq(items, 1, Len(items))) = WireOf(items)
<1>1. \A k \in 0 .. Len(items) - 1 :
         WireOf(SubSeq(items, 1, k + 1)) = WireOf(SubSeq(items, 1, k)) \o Wire(items[k + 1])
  BY PrefixLonger, WireOfAppend
<1>2. WireOf(SubSeq(items, 1, 0)) = << >>
  <2>1. SubSeq(items, 1, 0) = << >>
    BY SubSeqEmpty
  <2>. QED
    BY <2>1, WireOfEmpty
<1>3. WireOf(SubSeq(items, 1, Len(items))) = WireOf(items)
  BY SubSeqFull
<1>. DEFINE T == {k \in 0 .. Len(items) : WireOf(SubSeq(items, 1, k)) \in Seq(Cell)}
<1>4. 0 \in T
  <2>. DEFINE cells == WireOf(SubSeq(items, 1, 0))
  <2>1. << >> \in Seq(Cell) /\ 0 \in 0 .. Len(items)
    OBVIOUS
  <2>2. cells \in Seq(Cell)
    <3>. HIDE DEF cells
    <3>. QED
      BY <1>2, <2>1 DEF cells
  <2>. QED
    BY <2>1, <2>2, Zenon
<1>5. ASSUME NEW k \in 0 .. Len(items) - 1, k \in T
      PROVE  k + 1 \in T
  <2>1. items[k + 1] \in Item
    OBVIOUS
  <2>2. Wire(items[k + 1]) \in Seq(Cell)
    BY <2>1, WireIs
  <2>3. WireOf(SubSeq(items, 1, k)) \o Wire(items[k + 1]) \in Seq(Cell)
    BY <1>5, <2>2, ConcatProperties
  <2>4. WireOf(SubSeq(items, 1, k + 1)) \in Seq(Cell)
    BY <1>1, <2>3
  <2>5. k + 1 \in 0 .. Len(items)
    OBVIOUS
  <2>. QED
    BY <2>4, <2>5
<1>6. \A k \in 0 .. Len(items) : k \in T
  <2>1. Len(items) \in Nat
    OBVIOUS
  <2>. HIDE DEF T
  <2>. QED
    BY <1>4, <1>5, <2>1, WireFold!UpTo
<1>. QED
  BY <1>1, <1>2, <1>3, <1>6

(* The stream, item by item.                                               *)
Layout(items, e, w) ==
    /\ items \in Seq(Item)
    /\ w \in Seq(Cell)
    /\ e \in [0 .. Len(items) -> Nat]
    /\ e[0] = 0
    /\ e[Len(items)] = Len(w)
    /\ \A k \in 1 .. Len(items) :
          /\ e[k] = e[k - 1] + Len(Wire(items[k]))
          /\ \A i \in 1 .. Len(Wire(items[k])) : w[e[k - 1] + i] = Wire(items[k])[i]

(* Ends climb.                                                             *)
LEMMA EndsClimb ==
    ASSUME NEW items \in Seq(Item), NEW e \in [0 .. Len(items) -> Nat],
           \A k \in 1 .. Len(items) : e[k] = e[k - 1] + Len(Wire(items[k]))
    PROVE  \A j, k \in 0 .. Len(items) : j < k => e[j] < e[k]
<1>. DEFINE T == {k \in 0 .. Len(items) : \A j \in 0 .. k - 1 : e[j] < e[k]}
<1>1. 0 \in T
  OBVIOUS
<1>2. ASSUME NEW k \in 0 .. Len(items) - 1, k \in T
      PROVE  k + 1 \in T
  <2>1. e[k + 1] = e[k] + Len(Wire(items[k + 1])) /\ items[k + 1] \in Item
    <3>1. k + 1 \in 1 .. Len(items) /\ (k + 1) - 1 = k
      OBVIOUS
    <3>. QED
      BY <3>1
  <2>2. e[k] < e[k + 1]
    <3>1. Len(Wire(items[k + 1])) \in Nat \ {0}
      BY <2>1, WireIs
    <3>2. e[k] \in Nat
      OBVIOUS
    <3>. QED
      BY <2>1, <3>1, <3>2
  <2>3. ASSUME NEW j \in 0 .. (k + 1) - 1
        PROVE  e[j] < e[k + 1]
    <3>1. CASE j = k
      BY <2>2, <3>1
    <3>2. CASE j \in 0 .. k - 1
      <4>1. e[j] < e[k]
        BY <1>2, <3>2
      <4>2. j \in 0 .. Len(items) /\ k \in 0 .. Len(items) /\ k + 1 \in 0 .. Len(items)
        BY <3>2
      <4>3. e[j] \in Nat /\ e[k] \in Nat /\ e[k + 1] \in Nat
        BY <4>2
      <4>. QED
        BY <2>2, <4>1, <4>3
    <3>. QED
      BY <3>1, <3>2
  <2>. QED
    BY <2>3
<1>3. \A k \in 0 .. Len(items) : k \in T
  <2>1. Len(items) \in Nat
    OBVIOUS
  <2>. HIDE DEF T
  <2>. QED
    BY <1>1, <1>2, <2>1, WireFold!UpTo
<1>. QED
  BY <1>3

LEMMA LayoutIs ==
    ASSUME NEW items \in Seq(Item)
    PROVE  Layout(items, Ends(items), WireOf(items))
<1>. DEFINE n == Len(items)
            e == Ends(items)
            W(k) == WireOf(SubSeq(items, 1, k))
<1>1. /\ n \in Nat
      /\ \A k \in 0 .. n : W(k) \in Seq(Cell) /\ e[k] = Len(W(k)) /\ e[k] \in Nat
      /\ \A k \in 0 .. n - 1 : W(k + 1) = W(k) \o Wire(items[k + 1])
      /\ W(0) = << >> /\ W(n) = WireOf(items)
      /\ e \in [0 .. n -> Nat]
  <2>1. \A k \in 0 .. n : W(k) \in Seq(Cell) /\ Len(W(k)) \in Nat
    BY WireOfPrefix
  <2>. HIDE DEF W
  <2>2. e = [k \in 0 .. n |-> Len(W(k))]
    BY DEF Ends, W
  <2>. QED
    BY <2>1, <2>2, WireOfPrefix DEF W
<1>2. \A k \in 0 .. n - 1 : items[k + 1] \in Item /\ Wire(items[k + 1]) \in Seq(Cell)
                            /\ Len(Wire(items[k + 1])) \in Nat
  <2>1. \A k \in 0 .. n - 1 : items[k + 1] \in Item
    OBVIOUS
  <2>. QED
    BY <2>1, WireIs
<1>. HIDE DEF n, e, W
<1>3. ASSUME NEW k \in 0 .. n - 1
      PROVE  /\ Len(W(k + 1)) = Len(W(k)) + Len(Wire(items[k + 1]))
             /\ \A i \in 1 .. Len(W(k)) : W(k + 1)[i] = W(k)[i]
             /\ \A i \in 1 .. Len(Wire(items[k + 1])) :
                   W(k + 1)[Len(W(k)) + i] = Wire(items[k + 1])[i]
  <2>. DEFINE s == W(k)
              t == Wire(items[k + 1])
  <2>1. s \in Seq(Cell) /\ t \in Seq(Cell) /\ W(k + 1) = s \o t /\ Len(s) \in Nat /\ Len(t) \in Nat
    <3>1. k \in 0 .. n
      BY <1>1
    <3>2. W(k) \in Seq(Cell) /\ Len(W(k)) \in Nat
      BY <1>1, <3>1
    <3>. QED
      BY <1>1, <1>2, <3>2
  <2>. HIDE DEF s, t
  <2>2. /\ Len(s \o t) = Len(s) + Len(t)
        /\ \A i \in 1 .. Len(s) + Len(t) :
              (s \o t)[i] = IF i <= Len(s) THEN s[i] ELSE t[i - Len(s)]
    BY <2>1, ConcatProperties
  <2>3. \A i \in 1 .. Len(s) : (s \o t)[i] = s[i]
    BY <2>1, <2>2
  <2>4. \A i \in 1 .. Len(t) : (s \o t)[Len(s) + i] = t[i]
    <3>. SUFFICES ASSUME NEW i \in 1 .. Len(t) PROVE (s \o t)[Len(s) + i] = t[i]
      OBVIOUS
    <3>1. Len(s) + i \in 1 .. Len(s) + Len(t) /\ ~ (Len(s) + i <= Len(s))
          /\ (Len(s) + i) - Len(s) = i
      BY <2>1
    <3>. QED
      BY <2>2, <3>1
  <2>. QED
    BY <2>1, <2>2, <2>3, <2>4 DEF s, t
<1>4. \A k \in 1 .. n : e[k] = e[k - 1] + Len(Wire(items[k]))
  <2>. SUFFICES ASSUME NEW k \in 1 .. n PROVE e[k] = e[k - 1] + Len(Wire(items[k]))
    OBVIOUS
  <2>1. k - 1 \in 0 .. n - 1 /\ (k - 1) + 1 = k /\ k \in 0 .. n /\ k - 1 \in 0 .. n
    BY <1>1
  <2>2. Len(W((k - 1) + 1)) = Len(W(k - 1)) + Len(Wire(items[(k - 1) + 1]))
    BY <1>3, <2>1
  <2>. QED
    BY <1>1, <2>1, <2>2
<1>5. \A j, k \in 0 .. n : j < k => e[j] < e[k]
  BY <1>1, <1>4, EndsClimb DEF n
<1>. DEFINE At(m) == \A k \in 1 .. m : \A i \in 1 .. Len(Wire(items[k])) :
                        W(m)[e[k - 1] + i] = Wire(items[k])[i]
            T == {m \in 0 .. n : At(m)}
<1>6. 0 \in T
  BY <1>1
<1>7. ASSUME NEW m \in 0 .. n - 1, m \in T
      PROVE  m + 1 \in T
  <2>1. ASSUME NEW k \in 1 .. m + 1, NEW i \in 1 .. Len(Wire(items[k]))
        PROVE  W(m + 1)[e[k - 1] + i] = Wire(items[k])[i]
    <3>1. CASE k = m + 1
      <4>1. k - 1 = m /\ m \in 0 .. n /\ e[m] = Len(W(m))
        <5>1. m \in 0 .. n
          BY <1>1
        <5>2. k - 1 = m
          BY <3>1, <5>1
        <5>. QED
          BY <1>1, <5>1, <5>2
      <4>2. W(m + 1)[Len(W(m)) + i] = Wire(items[m + 1])[i]
        BY <1>3, <3>1
      <4>. QED
        BY <3>1, <4>1, <4>2
    <3>2. CASE k \in 1 .. m
      <4>1. /\ m \in 0 .. n /\ k \in 0 .. n /\ k - 1 \in 0 .. n /\ k \in 1 .. n
            /\ k - 1 \in 0 .. n - 1 /\ (k - 1) + 1 = k
        BY <1>1, <3>2
      <4>2. e[k] <= e[m] /\ e[k] \in Nat /\ e[m] \in Nat /\ e[k - 1] \in Nat
        <5>1. k = m \/ k < m
          BY <3>2
        <5>2. e[k] \in Nat /\ e[m] \in Nat /\ e[k - 1] \in Nat
          BY <1>1, <4>1
        <5>. QED
          BY <1>5, <4>1, <5>1, <5>2
      <4>3. e[k] = e[k - 1] + Len(Wire(items[k])) /\ Len(Wire(items[k])) \in Nat
        BY <1>2, <1>4, <4>1
      <4>4. e[k - 1] + i \in 1 .. Len(W(m))
        <5>1. e[m] = Len(W(m))
          BY <1>1, <4>1
        <5>. DEFINE x == e[k - 1]
                    y == e[k]
                    z == Len(W(m))
                    l == Len(Wire(items[k]))
        <5>2. x \in Nat /\ l \in Nat /\ z \in Nat /\ y = x + l /\ y <= z /\ i \in 1 .. l
          BY <4>2, <4>3, <5>1
        <5>. HIDE DEF x, y, z, l
        <5>3. x + i \in 1 .. z
          BY <5>2
        <5>. QED
          BY <5>3 DEF x, z
      <4>5. W(m + 1)[e[k - 1] + i] = W(m)[e[k - 1] + i]
        BY <1>3, <4>4
      <4>. QED
        BY <1>7, <3>2, <4>5
    <3>. QED
      BY <3>1, <3>2
  <2>2. At(m + 1)
    BY <2>1
  <2>. HIDE DEF At
  <2>. QED
    BY <1>1, <2>2
<1>8. \A m \in 0 .. n : m \in T
  <2>. HIDE DEF T
  <2>. QED
    BY <1>1, <1>6, <1>7, WireFold!UpTo
<1>9. At(n)
  <2>1. n \in T
    <3>1. n \in 0 .. n
      BY <1>1
    <3>. HIDE DEF T
    <3>. QED
      BY <1>8, <3>1
  <2>. HIDE DEF At
  <2>. QED
    BY <2>1
<1>10. e[0] = 0 /\ e[n] = Len(WireOf(items)) /\ WireOf(items) \in Seq(Cell)
  BY <1>1
<1>. QED
  BY <1>1, <1>4, <1>9, <1>10 DEF Layout, n, e

(* Every cell of the stream belongs to an item.                            *)
LEMMA CellsCovered ==
    ASSUME NEW items, NEW e, NEW w, Layout(items, e, w), NEW p \in 1 .. Len(w)
    PROVE  \E k \in 1 .. Len(items) : e[k - 1] < p /\ p <= e[k]
<1>. DEFINE n == Len(items)
            T == {m \in 0 .. n : \A q \in 1 .. e[m] :
                                    \E k \in 1 .. m : e[k - 1] < q /\ q <= e[k]}
<1>1. n \in Nat /\ e \in [0 .. n -> Nat] /\ e[0] = 0 /\ e[n] = Len(w)
  BY DEF Layout
<1>2. 0 \in T
  BY <1>1
<1>3. ASSUME NEW m \in 0 .. n - 1, m \in T
      PROVE  m + 1 \in T
  <2>1. m + 1 \in 0 .. n /\ m \in 0 .. n /\ e[m + 1] \in Nat /\ e[m] \in Nat
        /\ (m + 1) - 1 = m
    BY <1>1
  <2>2. ASSUME NEW q \in 1 .. e[m + 1]
        PROVE  \E k \in 1 .. m + 1 : e[k - 1] < q /\ q <= e[k]
    <3>1. CASE q <= e[m]
      <4>1. q \in 1 .. e[m]
        BY <2>1, <3>1
      <4>2. PICK k \in 1 .. m : e[k - 1] < q /\ q <= e[k]
        BY <1>3, <4>1
      <4>3. k \in 1 .. m + 1
        OBVIOUS
      <4>. QED
        BY <4>2, <4>3
    <3>2. CASE q > e[m]
      <4>1. m + 1 \in 1 .. m + 1
        OBVIOUS
      <4>. QED
        BY <2>1, <3>2, <4>1
    <3>. QED
      BY <2>1, <3>1, <3>2
  <2>. QED
    BY <2>1, <2>2
<1>4. n \in T
  <2>1. n \in 0 .. n
    BY <1>1
  <2>. HIDE DEF T, n
  <2>. QED
    BY <1>1, <1>2, <1>3, <2>1, WireFold!UpTo
<1>. QED
  BY <1>1, <1>4

(* What is sound among the items.                                          *)
LEMMA SoundOfEmpty == SoundOf(<< >>) = << >>
  BY SameSoundFold, SoundFold!FoldLeftEmpty

LEMMA SoundOfAppend ==
    ASSUME NEW items \in Seq(Item), NEW item \in Item
    PROVE  SoundOf(Append(items, item)) = KeepSound(SoundOf(items), item)
<1>1. SoundFold!FoldLeft(KeepSound, << >>, Append(items, item))
        = KeepSound(SoundFold!FoldLeft(KeepSound, << >>, items), item)
  BY SoundFold!FoldLeftAppend
<1>. QED
  BY <1>1, SameSoundFold

Sounds(items, k) == SoundOf(SubSeq(items, 1, k))

LEMMA SoundOfPrefix ==
    ASSUME NEW items \in Seq(Item)
    PROVE  /\ \A k \in 0 .. Len(items) - 1 :
                 Sounds(items, k + 1) = KeepSound(Sounds(items, k), items[k + 1])
           /\ \A k \in 0 .. Len(items) : Sounds(items, k) \in Seq(Sound)
           /\ Sounds(items, 0) = << >>
           /\ Sounds(items, Len(items)) = SoundOf(items)
<1>1. \A k \in 0 .. Len(items) - 1 :
         Sounds(items, k + 1) = KeepSound(Sounds(items, k), items[k + 1])
  BY PrefixLonger, SoundOfAppend DEF Sounds
<1>2. Sounds(items, 0) = << >>
  <2>1. SubSeq(items, 1, 0) = << >>
    BY SubSeqEmpty
  <2>. QED
    BY <2>1, SoundOfEmpty DEF Sounds
<1>3. Sounds(items, Len(items)) = SoundOf(items)
  BY SubSeqFull DEF Sounds
<1>. DEFINE T == {k \in 0 .. Len(items) : Sounds(items, k) \in Seq(Sound)}
<1>4. 0 \in T
  <2>1. << >> \in Seq(Sound) /\ 0 \in 0 .. Len(items)
    OBVIOUS
  <2>. QED
    BY <1>2, <2>1
<1>5. ASSUME NEW k \in 0 .. Len(items) - 1, k \in T
      PROVE  k + 1 \in T
  <2>. DEFINE s == Sounds(items, k)
              item == items[k + 1]
  <2>1. s \in Seq(Sound) /\ k + 1 \in 0 .. Len(items)
    BY <1>5
  <2>2. KeepSound(s, item) \in Seq(Sound)
    <3>. HIDE DEF s, item
    <3>1. CASE item \in Sound
      <4>1. <<item>> \in Seq(Sound)
        BY <3>1
      <4>2. s \o <<item>> \in Seq(Sound)
        BY <2>1, <4>1, ConcatProperties
      <4>. QED
        BY <3>1, <4>2 DEF KeepSound
    <3>2. CASE item \notin Sound
      BY <2>1, <3>2 DEF KeepSound
    <3>. QED
      BY <3>1, <3>2
  <2>3. Sounds(items, k + 1) \in Seq(Sound)
    BY <1>1, <2>2
  <2>. QED
    BY <2>1, <2>3
<1>6. \A k \in 0 .. Len(items) : k \in T
  <2>1. Len(items) \in Nat
    OBVIOUS
  <2>. HIDE DEF T
  <2>. QED
    BY <1>4, <1>5, <2>1, SoundFold!UpTo
<1>. QED
  BY <1>1, <1>2, <1>3, <1>6

(* Noise adds nothing.                                                     *)
LEMMA NoiseAddsNothing ==
    ASSUME NEW items \in Seq(Item), NEW b \in 0 .. Len(items), NEW c \in b .. Len(items),
           \A k \in b + 1 .. c : items[k] = Noise
    PROVE  Sounds(items, c) = Sounds(items, b)
<1>. DEFINE T == {m \in 0 .. c - b : Sounds(items, b + m) = Sounds(items, b)}
<1>1. 0 \in T /\ Len(items) \in Nat
  OBVIOUS
<1>2. ASSUME NEW m \in 0 .. (c - b) - 1, m \in T
      PROVE  m + 1 \in T
  <2>1. b + m \in 0 .. Len(items) - 1 /\ (b + m) + 1 = b + (m + 1) /\ (b + m) + 1 \in b + 1 .. c
        /\ m + 1 \in 0 .. c - b
    OBVIOUS
  <2>2. Sounds(items, (b + m) + 1) = KeepSound(Sounds(items, b + m), items[(b + m) + 1])
    BY <2>1, SoundOfPrefix
  <2>3. items[(b + m) + 1] \notin Sound
    BY <2>1, StreamAssumption
  <2>4. Sounds(items, (b + m) + 1) = Sounds(items, b + m)
    BY <2>2, <2>3 DEF KeepSound
  <2>5. Sounds(items, b + m) = Sounds(items, b)
    BY <1>2
  <2>6. Sounds(items, b + (m + 1)) = Sounds(items, b)
    BY <2>1, <2>4, <2>5
  <2>. QED
    BY <2>1, <2>6
<1>3. c - b \in T
  <2>1. c - b \in Nat /\ c - b \in 0 .. c - b
    OBVIOUS
  <2>2. 0 \in T
    BY <1>1
  <2>. HIDE DEF T
  <2>. QED
    BY <1>2, <2>1, <2>2, SoundFold!UpTo
<1>4. b + (c - b) = c
  OBVIOUS
<1>. QED
  BY <1>3, <1>4

(* More items only add.                                                    *)
LEMMA SoundsGrow ==
    ASSUME NEW items \in Seq(Item), NEW b \in 0 .. Len(items), NEW c \in b .. Len(items)
    PROVE  /\ Len(Sounds(items, b)) <= Len(Sounds(items, c))
           /\ Sounds(items, b) = SubSeq(Sounds(items, c), 1, Len(Sounds(items, b)))
<1>. DEFINE s == Sounds(items, b)
            Begins(t) == /\ Len(s) <= Len(t)
                         /\ \A i \in 1 .. Len(s) : t[i] = s[i]
            T == {m \in 0 .. c - b : Begins(Sounds(items, b + m))}
<1>1. Len(items) \in Nat /\ b \in Nat /\ c \in Nat /\ c - b \in Nat
      /\ b + 0 = b
  OBVIOUS
<1>2. \A k \in 0 .. Len(items) : Sounds(items, k) \in Seq(Sound)
  BY SoundOfPrefix
<1>3. s \in Seq(Sound) /\ Len(s) \in Nat
  BY <1>2
<1>4. 0 \in T
  <2>1. Begins(Sounds(items, b + 0))
    BY <1>1, <1>3
  <2>. HIDE DEF Begins
  <2>. QED
    BY <1>1, <2>1
<1>5. ASSUME NEW m \in 0 .. (c - b) - 1, m \in T
      PROVE  m + 1 \in T
  <2>. DEFINE t == Sounds(items, b + m)
              u == Sounds(items, b + (m + 1))
              item == items[(b + m) + 1]
  <2>1. b + m \in 0 .. Len(items) - 1 /\ (b + m) + 1 = b + (m + 1) /\ b + m \in 0 .. Len(items)
        /\ m + 1 \in 0 .. c - b
    BY <1>1
  <2>2. u = KeepSound(t, item) /\ t \in Seq(Sound)
    BY <1>2, <2>1, SoundOfPrefix
  <2>3. Begins(t)
    BY <1>5
  <2>4. Begins(u)
    <3>. HIDE DEF t, u, item, s
    <3>1. CASE item \in Sound
      <4>1. <<item>> \in Seq(Sound) /\ Len(<<item>>) = 1
        BY <3>1
      <4>2. u = t \o <<item>>
        BY <2>2, <3>1 DEF KeepSound
      <4>3. /\ Len(t \o <<item>>) = Len(t) + Len(<<item>>)
            /\ \A i \in 1 .. Len(t) + Len(<<item>>) :
                  (t \o <<item>>)[i] = IF i <= Len(t) THEN t[i] ELSE <<item>>[i - Len(t)]
        BY <2>2, <4>1, ConcatProperties
      <4>4. Len(t) \in Nat
        BY <2>2
      <4>5. \A i \in 1 .. Len(t) : u[i] = t[i]
        BY <4>1, <4>2, <4>3, <4>4
      <4>6. Len(u) = Len(t) + 1
        BY <4>1, <4>2, <4>3
      <4>. QED
        BY <1>3, <2>3, <4>4, <4>5, <4>6
    <3>2. CASE item \notin Sound
      BY <2>2, <2>3, <3>2 DEF KeepSound
    <3>. QED
      BY <3>1, <3>2
  <2>. HIDE DEF Begins
  <2>. QED
    BY <2>1, <2>4
<1>6. c - b \in T
  <2>1. c - b \in 0 .. c - b
    BY <1>1
  <2>. HIDE DEF T
  <2>. QED
    BY <1>1, <1>4, <1>5, <2>1, SoundFold!UpTo
<1>. DEFINE t == Sounds(items, c)
<1>7. Begins(t) /\ t \in Seq(Sound)
  <2>1. b + (c - b) = c /\ c \in 0 .. Len(items)
    BY <1>1
  <2>. HIDE DEF Begins
  <2>2. Begins(Sounds(items, b + (c - b)))
    BY <1>6
  <2>. QED
    BY <1>2, <2>1, <2>2
<1>8. s = SubSeq(t, 1, Len(s))
  <2>. HIDE DEF s, t
  <2>. DEFINE r == SubSeq(t, 0 + 1, Len(s))
  <2>1. Len(s) \in 0 .. Len(t)
    BY <1>3, <1>7
  <2>2. r \in Seq(Sound) /\ Len(r) = Len(s) - 0 /\ \A i \in 1 .. Len(s) - 0 : r[i] = t[0 + i]
    BY <1>7, <2>1, CutIs
  <2>3. r = SubSeq(t, 1, Len(s))
    OBVIOUS
  <2>. HIDE DEF r
  <2>4. Len(r) = Len(s) /\ \A i \in 1 .. Len(r) : r[i] = s[i]
    BY <1>3, <1>7, <2>2
  <2>5. r = s
    BY <1>3, <2>2, <2>4, SeqEqual
  <2>. QED
    BY <2>3, <2>5
<1>. QED
  BY <1>7, <1>8

-----------------------------------------------------------------------------
(* Cutting messages.                                                       *)

(* A cache that got as far as the first b items, of a cells that arrived.  *)
CutAt(items, e, w, a, b, cache) ==
    /\ b \in 0 .. Len(items)
    /\ e[b] <= a
    /\ cache = [buffer |-> SubSeq(w, e[b] + 1, a), handled |-> Sounds(items, b)]

(* No message behind them is complete.                                     *)
Waiting(items, e, a, b) == \A k \in b + 1 .. Len(items) : e[k] <= a => items[k] = Noise

(* The first message behind b, if there is any.                            *)
LEMMA FirstMessage ==
    ASSUME NEW items \in Seq(Item), NEW b \in 0 .. Len(items),
           \E k \in b + 1 .. Len(items) : items[k] # Noise
    PROVE  \E c \in b + 1 .. Len(items) :
              /\ items[c] # Noise
              /\ \A k \in b + 1 .. c - 1 : items[k] = Noise
<1>. DEFINE n == Len(items)
            T == {m \in 0 .. n - b :
                    (\E k \in b + 1 .. b + m : items[k] # Noise)
                      => \E c \in b + 1 .. b + m :
                            /\ items[c] # Noise
                            /\ \A k \in b + 1 .. c - 1 : items[k] = Noise}
<1>1. n \in Nat /\ b \in Nat /\ n - b \in Nat /\ b + (n - b) = n
  OBVIOUS
<1>2. 0 \in T
  <2>1. b + 1 .. b + 0 = {} /\ 0 \in 0 .. n - b
    BY <1>1
  <2>. QED
    BY <2>1
<1>3. ASSUME NEW m \in 0 .. (n - b) - 1, m \in T
      PROVE  m + 1 \in T
  <2>1. m + 1 \in 0 .. n - b /\ b + m \in Nat
    BY <1>1
  <2>2. ASSUME \E k \in b + 1 .. b + (m + 1) : items[k] # Noise
        PROVE  \E c \in b + 1 .. b + (m + 1) :
                  /\ items[c] # Noise
                  /\ \A k \in b + 1 .. c - 1 : items[k] = Noise
    <3>1. CASE \E k \in b + 1 .. b + m : items[k] # Noise
      <4>1. PICK c \in b + 1 .. b + m : /\ items[c] # Noise
                                        /\ \A k \in b + 1 .. c - 1 : items[k] = Noise
        BY <1>3, <3>1
      <4>2. c \in b + 1 .. b + (m + 1)
        BY <1>1
      <4>. QED
        BY <4>1, <4>2
    <3>2. CASE ~ \E k \in b + 1 .. b + m : items[k] # Noise
      <4>. DEFINE c == b + (m + 1)
      <4>1. c \in b + 1 .. b + (m + 1) /\ b + 1 .. c - 1 = b + 1 .. b + m
        BY <1>1
      <4>2. PICK k \in b + 1 .. b + (m + 1) : items[k] # Noise
        BY <2>2
      <4>3. k \notin b + 1 .. b + m
        BY <3>2, <4>2
      <4>4. k = c
        BY <1>1, <4>3
      <4>. HIDE DEF c
      <4>. QED
        BY <3>2, <4>1, <4>2, <4>4
    <3>. QED
      BY <3>1, <3>2
  <2>. QED
    BY <2>1, <2>2
<1>4. n - b \in T
  <2>1. n - b \in 0 .. n - b
    BY <1>1
  <2>. HIDE DEF T, n
  <2>. QED
    BY <1>1, <1>2, <1>3, <2>1, WireFold!UpTo
<1>. QED
  BY <1>1, <1>4

(* The magic offsets of a cache before the message c.                      *)
LEMMA MagicIs ==
    ASSUME NEW items, NEW e, NEW w, Layout(items, e, w),
           NEW a \in 0 .. Len(w), NEW b \in 0 .. Len(items), e[b] <= a,
           NEW cells, cells = SubSeq(w, e[b] + 1, a)
    PROVE  /\ (\A k \in b + 1 .. Len(items) : items[k] = Noise) => MagicOffsets(cells) = {}
           /\ \A c \in b + 1 .. Len(items) :
                 /\ items[c] # Noise
                 /\ \A k \in b + 1 .. c - 1 : items[k] = Noise
                 => /\ a < e[c - 1] + 2 => MagicOffsets(cells) = {}
                    /\ a >= e[c - 1] + 2 => /\ MagicOffsets(cells) # {}
                                            /\ Min(MagicOffsets(cells)) = e[c - 1] - e[b]
<1>. DEFINE n == Len(items)
<1>1. /\ n \in Nat /\ items \in Seq(Item) /\ w \in Seq(Cell) /\ Len(w) \in Nat
      /\ \A k \in 0 .. n : e[k] \in Nat
      /\ \A k \in 1 .. n : e[k] = e[k - 1] + Len(Wire(items[k]))
  <2>1. n \in Nat /\ items \in Seq(Item) /\ w \in Seq(Cell) /\ Len(w) \in Nat
    BY DEF Layout
  <2>2. /\ \A k \in 0 .. n : e[k] \in Nat
        /\ \A k \in 1 .. n : e[k] = e[k - 1] + Len(Wire(items[k]))
    BY DEF Layout
  <2>. QED
    BY <2>1, <2>2
<1>2. \A j, k \in 0 .. n : j < k => e[j] < e[k]
  BY <1>1, EndsClimb DEF Layout
<1>. DEFINE y == e[b]
<1>3. y \in Nat /\ a \in Nat /\ y <= a /\ a <= Len(w) /\ cells = SubSeq(w, y + 1, a)
  BY <1>1
<1>. HIDE DEF y
<1>4. Len(cells) = a - y /\ \A i \in 1 .. a - y : cells[i] = w[y + i]
  <2>. DEFINE cut == SubSeq(w, y + 1, a)
  <2>1. a \in 0 .. Len(w)
    OBVIOUS
  <2>2. Len(cut) = a - y /\ \A i \in 1 .. a - y : cut[i] = w[y + i]
    BY <1>1, <1>3, <2>1, CutIs
  <2>3. cells = cut
    BY <1>3
  <2>. HIDE DEF cut
  <2>. QED
    BY <2>2, <2>3
<1>5. MagicOffsets(cells) = {i \in 0 .. (a - y) - 2 : w[y + (i + 1)] = Magic}
  <2>1. \A i \in 0 .. (a - y) - 2 : i + 1 \in 1 .. a - y
    BY <1>3
  <2>2. Len(cells) - MagicSize - 1 = (a - y) - 2
    <3>1. Len(cells) = a - y
      BY <1>4
    <3>2. (a - y) - 1 - 1 = (a - y) - 2
      BY <1>3
    <3>. QED
      BY <3>1, <3>2 DEF MagicSize
  <2>3. MagicOffsets(cells) = {i \in 0 .. (a - y) - 2 : cells[i + 1] = Magic}
    BY <2>2 DEF MagicOffsets
  <2>. QED
    BY <1>4, <2>1, <2>3
<1>. HIDE DEF n
<1>6. ASSUME NEW p \in 1 .. Len(w), NEW c \in b .. n, y < p, p <= e[c],
             \A k \in b + 1 .. c : items[k] = Noise
      PROVE  w[p] # Magic
  <2>1. PICK k \in 1 .. n : e[k - 1] < p /\ p <= e[k]
    BY CellsCovered DEF n
  <2>2. k \in 0 .. n /\ k - 1 \in 0 .. n /\ b \in 0 .. n /\ c \in 0 .. n
    BY <1>1 DEF n
  <2>3. e[k] \in Nat /\ e[k - 1] \in Nat /\ y \in Nat /\ e[c] \in Nat
    BY <1>1, <1>3, <2>2
  <2>4. b < k
    <3>. SUFFICES ASSUME k <= b PROVE FALSE
      BY <2>2
    <3>1. k = b \/ k < b
      BY <2>2
    <3>. DEFINE z == e[k]
    <3>2. z = y \/ z < y
      BY <1>2, <2>2, <3>1 DEF y
    <3>3. y < p /\ p <= z /\ z \in Nat /\ p \in Nat
      BY <1>6, <2>1, <2>3
    <3>. HIDE DEF z
    <3>. QED
      BY <2>3, <3>2, <3>3
  <2>5. k <= c
    <3>. SUFFICES ASSUME c < k PROVE FALSE
      BY <2>2
    <3>1. c = k - 1 \/ c < k - 1
      BY <2>2
    <3>. DEFINE z == e[k - 1]
                v == e[c]
    <3>2. v = z \/ v < z
      BY <1>2, <2>2, <3>1
    <3>3. z < p /\ p <= v /\ z \in Nat /\ v \in Nat /\ p \in Nat
      BY <1>6, <2>1, <2>3
    <3>. HIDE DEF z, v
    <3>. QED
      BY <3>2, <3>3
  <2>6. items[k] = Noise
    <3>1. k \in b + 1 .. c
      BY <2>2, <2>4, <2>5
    <3>. QED
      BY <1>6, <3>1
  <2>7. e[k] = e[k - 1] + 1 /\ Wire(items[k])[1] = Noise /\ Len(Wire(items[k])) = 1
    <3>1. Wire(items[k]) = <<Noise>>
      BY <2>6, WireIs
    <3>2. Len(<<Noise>>) = 1 /\ <<Noise>>[1] = Noise
      OBVIOUS
    <3>3. e[k] = e[k - 1] + Len(Wire(items[k]))
      BY <1>1
    <3>. QED
      BY <3>1, <3>2, <3>3
  <2>8. p = e[k - 1] + 1
    BY <2>1, <2>3, <2>7
  <2>9. w[e[k - 1] + 1] = Wire(items[k])[1]
    <3>1. 1 \in 1 .. Len(Wire(items[k]))
      BY <2>7
    <3>. QED
      BY <3>1 DEF Layout, n
  <2>. QED
    BY <2>7, <2>8, <2>9, StreamAssumption
<1>7. ASSUME \A k \in b + 1 .. n : items[k] = Noise
      PROVE  MagicOffsets(cells) = {}
  <2>. SUFFICES \A i \in 0 .. (a - y) - 2 : w[y + (i + 1)] # Magic
    BY <1>5
  <2>. TAKE i \in 0 .. (a - y) - 2
  <2>1. y + (i + 1) \in 1 .. Len(w) /\ y < y + (i + 1)
    BY <1>1, <1>3
  <2>2. n \in b .. n /\ e[n] = Len(w)
    BY <1>1 DEF Layout, n
  <2>. QED
    BY <1>6, <1>7, <2>1, <2>2 DEF y
<1>8. ASSUME NEW c \in b + 1 .. n, items[c] # Noise,
             \A k \in b + 1 .. c - 1 : items[k] = Noise
      PROVE  /\ a < e[c - 1] + 2 => MagicOffsets(cells) = {}
             /\ a >= e[c - 1] + 2 => /\ MagicOffsets(cells) # {}
                                     /\ Min(MagicOffsets(cells)) = e[c - 1] - y
  <2>. DEFINE x == e[c - 1]
  <2>1. c \in 1 .. n /\ c - 1 \in 0 .. n /\ c - 1 \in b .. n /\ b \in 0 .. n
    BY <1>1 DEF n
  <2>2. x \in Nat /\ y <= x
    <3>1. x \in Nat /\ y \in Nat /\ (b = c - 1 \/ b < c - 1)
      BY <1>1, <1>3, <2>1
    <3>2. y = x \/ y < x
      BY <1>2, <2>1, <3>1 DEF y
    <3>. QED
      BY <3>1, <3>2
  <2>. HIDE DEF x
  <2>3. ASSUME NEW i \in MagicOffsets(cells)
        PROVE  i >= x - y /\ i \in 0 .. (a - y) - 2
    <3>1. i \in 0 .. (a - y) - 2 /\ w[y + (i + 1)] = Magic
      BY <1>5
    <3>2. y + (i + 1) \in 1 .. Len(w) /\ y < y + (i + 1)
      BY <1>1, <1>3, <3>1
    <3>3. ~ (y + (i + 1) <= x)
      <4>. DEFINE q == y + (i + 1)
      <4>1. q \in 1 .. Len(w) /\ y < q /\ w[q] = Magic
        BY <3>1, <3>2
      <4>. HIDE DEF q
      <4>2. ~ (q <= e[c - 1])
        BY <1>6, <1>8, <2>1, <4>1 DEF y
      <4>. QED
        BY <4>2 DEF q, x
    <3>. HIDE DEF n
    <3>4. i >= x - y
      BY <1>3, <2>2, <3>1, <3>3
    <3>. QED
      BY <3>1, <3>4
  <2>4. CASE a < x + 2
    <3>1. MagicOffsets(cells) = {}
      <4>. SUFFICES ASSUME NEW i \in MagicOffsets(cells) PROVE FALSE
        OBVIOUS
      <4>1. i >= x - y /\ i \in 0 .. (a - y) - 2
        BY <2>3
      <4>. QED
        BY <1>3, <2>2, <2>4, <4>1
    <3>2. ~ (a >= x + 2)
      BY <1>3, <2>2, <2>4
    <3>. QED
      BY <3>1, <3>2 DEF x
  <2>5. CASE a >= x + 2
    <3>. DEFINE d == x - y
    <3>1. d \in 0 .. (a - y) - 2 /\ y + (d + 1) = x + 1
      BY <1>3, <2>2, <2>5
    <3>2. items[c] \in Messages
      BY <1>1, <1>8, <2>1 DEF Item, n
    <3>3. Len(Wire(items[c])) \in Nat /\ 1 \in 1 .. Len(Wire(items[c])) /\ Wire(items[c])[1] = Magic
      BY <3>2, WireIs DEF HeaderSize
    <3>4. w[x + 1] = Magic
      BY <2>1, <3>3 DEF Layout, n, x
    <3>5. d \in MagicOffsets(cells)
      BY <1>5, <3>1, <3>4
    <3>6. \A i \in MagicOffsets(cells) : d <= i /\ i \in Int
      BY <1>3, <2>2, <2>3
    <3>7. d \in Int
      BY <3>1
    <3>. HIDE DEF d
    <3>8. Min(MagicOffsets(cells)) = d
      <4>. DEFINE M == MagicOffsets(cells)
                  Least(z) == z \in M /\ \A i \in M : z <= i
      <4>1. Min(M) = CHOOSE z : Least(z)
        BY DEF Min
      <4>2. Least(d)
        BY <3>5, <3>6
      <4>3. Least(CHOOSE z : Least(z))
        <5>. HIDE DEF Least
        <5>. QED
          BY <4>2
      <4>. DEFINE m == CHOOSE z : Least(z)
      <4>4. m \in M /\ m <= d /\ d <= m /\ m \in Int
        BY <3>5, <3>6, <4>3
      <4>. HIDE DEF m
      <4>5. m = d
        BY <3>7, <4>4
      <4>. QED
        BY <4>1, <4>5 DEF m
    <3>. QED
      <4>1. ~ (a < x + 2) /\ MagicOffsets(cells) # {}
        BY <1>3, <2>2, <2>5, <3>5
      <4>. QED
        BY <3>8, <4>1 DEF d, x
  <2>6. a < x + 2 \/ a >= x + 2
    BY <1>3, <2>2
  <2>. QED
    BY <2>4, <2>5, <2>6
<1>. QED
  BY <1>7, <1>8 DEF n, y

(* One turn of the loop: it takes the first message off, if that is        *)
(* complete; if not, nothing is complete.                                  *)
LEMMA TurnIs ==
    ASSUME NEW items, NEW e, NEW w, NEW a, NEW b, NEW cache, NEW turn, NEW next
    PROVE  /\ Layout(items, e, w)
           /\ a \in 0 .. Len(w)
           /\ CutAt(items, e, w, a, b, cache)
           /\ next = ExtractNext(cache, turn)
           => \E c \in b .. Len(items) :
                 /\ CutAt(items, e, w, a, c, next)
                 /\ Waiting(items, e, a, c) \/ e[c] >= e[b] + HeaderSize
                 /\ Waiting(items, e, a, b) => Waiting(items, e, a, c)
<1>. DEFINE n == Len(items)
            cells == cache.buffer
            out == cache.handled
<1>0. SUFFICES ASSUME Layout(items, e, w), a \in 0 .. Len(w),
                      CutAt(items, e, w, a, b, cache), next = ExtractNext(cache, turn)
               PROVE  \E c \in b .. n :
                         /\ CutAt(items, e, w, a, c, next)
                         /\ Waiting(items, e, a, c) \/ e[c] >= e[b] + HeaderSize
                         /\ Waiting(items, e, a, b) => Waiting(items, e, a, c)
  OBVIOUS
<1>1. /\ n \in Nat /\ items \in Seq(Item) /\ w \in Seq(Cell) /\ Len(w) \in Nat
      /\ \A k \in 0 .. n : e[k] \in Nat
      /\ \A k \in 1 .. n : e[k] = e[k - 1] + Len(Wire(items[k]))
      /\ b \in 0 .. n /\ e[b] <= a /\ a \in 0 .. Len(w)
  <2>1. /\ n \in Nat /\ items \in Seq(Item) /\ w \in Seq(Cell) /\ Len(w) \in Nat
    BY <1>0 DEF Layout
  <2>2. /\ \A k \in 0 .. n : e[k] \in Nat
        /\ \A k \in 1 .. n : e[k] = e[k - 1] + Len(Wire(items[k]))
    BY <1>0 DEF Layout
  <2>. QED
    BY <1>0, <2>1, <2>2 DEF CutAt
<1>2. \A j, k \in 0 .. n : j < k => e[j] < e[k]
  BY <1>0, <1>1, EndsClimb DEF Layout
<1>3. cells = SubSeq(w, e[b] + 1, a) /\ out = Sounds(items, b)
      /\ cache = [buffer |-> cells, handled |-> out]
  BY <1>0 DEF CutAt
<1>4. b \in b .. n
  BY <1>1
<1>5. MagicOffsets(cells) = {} => next = cache
  BY <1>0 DEF ExtractNext
<1>m. /\ (\A k \in b + 1 .. n : items[k] = Noise) => MagicOffsets(cells) = {}
      /\ \A c \in b + 1 .. n :
            /\ items[c] # Noise
            /\ \A k \in b + 1 .. c - 1 : items[k] = Noise
            => /\ a < e[c - 1] + 2 => MagicOffsets(cells) = {}
               /\ a >= e[c - 1] + 2 => /\ MagicOffsets(cells) # {}
                                       /\ Min(MagicOffsets(cells)) = e[c - 1] - e[b]
  <2>. HIDE DEF cells
  <2>1. b \in 0 .. Len(items) /\ e[b] <= a /\ a \in 0 .. Len(w) /\ cells = SubSeq(w, e[b] + 1, a)
    BY <1>1, <1>3
  <2>2. Layout(items, e, w)
    BY <1>0
  <2>. QED
    BY <2>1, <2>2, MagicIs, ZenonT(40)
<1>. HIDE DEF cells, out, n
<1>6. CASE \A k \in b + 1 .. n : items[k] = Noise
  <2>1. MagicOffsets(cells) = {}
    BY <1>6, <1>m
  <2>3. next = cache
    BY <1>5, <2>1
  <2>2. Waiting(items, e, a, b)
    BY <1>6 DEF Waiting, n
  <2>. QED
    BY <1>0, <1>4, <2>2, <2>3
<1>7. CASE \E k \in b + 1 .. n : items[k] # Noise
  <2>1. PICK c \in b + 1 .. n : /\ items[c] # Noise
                                /\ \A k \in b + 1 .. c - 1 : items[k] = Noise
    BY <1>1, <1>7, FirstMessage DEF n
  <2>. DEFINE x == e[c - 1]
              m == items[c]
              size == Len(Wire(m))
  <2>2. c \in 1 .. n /\ c \in 0 .. n /\ c - 1 \in 0 .. n /\ c - 1 \in b .. n /\ c \in b .. n
    BY <1>1
  <2>3. m \in Messages
    BY <1>1, <2>1, <2>2 DEF Item, n
  <2>4. size = HeaderSize + Len(Payload[m]) /\ Len(Payload[m]) \in Nat
        /\ Wire(m)[HeaderSize] = m
    BY <2>3, WireIs
  <2>5. x \in Nat /\ e[b] \in Nat /\ e[b] <= x /\ a \in Nat
    <3>1. x \in Nat /\ e[b] \in Nat /\ (b = c - 1 \/ b < c - 1)
      BY <1>1, <2>2
    <3>. QED
      BY <1>1, <1>2, <2>2, <3>1
  <2>6. e[c] = x + size /\ e[c] \in Nat
    BY <1>1, <2>2
  <2>. HIDE DEF x, size
  <2>7. \A k \in c .. n : e[c] <= e[k] /\ e[k] \in Nat
    <3>. SUFFICES ASSUME NEW k \in c .. n PROVE e[c] <= e[k] /\ e[k] \in Nat
      OBVIOUS
    <3>1. k \in 0 .. n /\ (k = c \/ c < k)
      BY <1>1, <2>2
    <3>. QED
      BY <1>1, <1>2, <2>2, <2>6, <3>1
  <2>8. CASE a < x + 2
    <3>1. next = cache
      <4>1. MagicOffsets(cells) = {}
        BY <2>1, <2>8, <1>m DEF x
      <4>. QED
        BY <1>5, <4>1
    <3>2. Waiting(items, e, a, b)
      <4>. SUFFICES ASSUME NEW k \in b + 1 .. n, e[k] <= a PROVE items[k] = Noise
        BY DEF Waiting, n
      <4>1. CASE k \in b + 1 .. c - 1
        BY <2>1, <4>1
      <4>2. CASE k \in c .. n
        BY <2>4, <2>5, <2>6, <2>7, <2>8, <4>2 DEF HeaderSize
      <4>. QED
        BY <1>1, <2>2, <4>1, <4>2
    <3>. QED
      BY <1>0, <1>4, <3>1, <3>2
  <2>9. CASE a >= x + 2
    <3>. DEFINE trimmed == Rest(cells, x - e[b])
    <3>1. MagicOffsets(cells) # {} /\ Min(MagicOffsets(cells)) = x - e[b]
      BY <2>1, <2>9, <1>m DEF x
    <3>2. trimmed = SubSeq(w, x + 1, a)
      <4>. DEFINE y == e[b]
      <4>1. y \in Nat /\ y <= x /\ x <= a
        BY <2>5, <2>9
      <4>2. cells = SubSeq(w, y + 1, a)
        BY <1>3
      <4>. HIDE DEF y
      <4>3. Rest(SubSeq(w, y + 1, a), x - y) = SubSeq(w, x + 1, a)
        BY <1>1, <2>5, <4>1, CutRest
      <4>. QED
        BY <4>2, <4>3 DEF y
    <3>. HIDE DEF trimmed
    <3>3. Len(trimmed) = a - x /\ \A i \in 1 .. a - x : trimmed[i] = w[x + i]
      <4>1. x <= a
        BY <2>5, <2>9
      <4>. QED
        BY <1>1, <2>5, <3>2, <4>1, CutIs
    <3>4. next = IF ~ HasMessage(trimmed) THEN [cache EXCEPT !.buffer = trimmed]
                 ELSE [buffer  |-> Rest(trimmed, MessageSize(trimmed)),
                       handled |-> Handle(trimmed[HeaderSize], out)]
      BY <1>0, <1>3, <3>1 DEF ExtractNext, trimmed
    <3>5. a >= x + HeaderSize => trimmed[HeaderSize] = m /\ MessageSize(trimmed) = size
      <4>. SUFFICES ASSUME a >= x + HeaderSize
                    PROVE  trimmed[HeaderSize] = m /\ MessageSize(trimmed) = size
        OBVIOUS
      <4>1. HeaderSize \in 1 .. a - x
        BY <2>5 DEF HeaderSize
      <4>2. HeaderSize \in 1 .. Len(Wire(items[c]))
        BY <2>4 DEF HeaderSize, size
      <4>3. w[x + HeaderSize] = Wire(items[c])[HeaderSize]
        BY <2>2, <4>2, <1>0 DEF Layout, x, n
      <4>4. trimmed[HeaderSize] = m
        BY <2>4, <3>3, <4>1, <4>3
      <4>. QED
        BY <2>4, <4>4 DEF MessageSize
    <3>6. HasMessage(trimmed) <=> a >= e[c]
      <4>1. Len(trimmed) = a - x
        BY <3>3
      <4>2. HasMessage(trimmed) <=> a - x >= 3 /\ a - x >= MessageSize(trimmed)
        BY <4>1 DEF HasMessage, HeaderSize
      <4>3. a >= x + 3 => MessageSize(trimmed) = size
        BY <3>5 DEF HeaderSize
      <4>4. size \in Nat /\ size >= 3
        BY <2>4 DEF HeaderSize
      <4>5. a - x >= 3 <=> a >= x + 3
        BY <2>5
      <4>6. a >= x + size => a >= x + 3
        BY <2>5, <4>4
      <4>7. a - x >= size <=> a >= x + size
        BY <2>5, <4>4
      <4>. QED
        BY <2>6, <4>2, <4>3, <4>5, <4>6, <4>7
    <3>7. Sounds(items, c - 1) = Sounds(items, b)
      BY <1>1, <2>1, <2>2, NoiseAddsNothing DEF n
    <3>8. CASE a >= e[c]
      <4>1. a >= x + HeaderSize
        BY <2>4, <2>5, <2>6, <3>8 DEF HeaderSize
      <4>2. Rest(trimmed, size) = SubSeq(w, e[c] + 1, a)
        <5>1. size = e[c] - x /\ x <= e[c] /\ e[c] <= a
          BY <2>4, <2>5, <2>6, <3>8 DEF HeaderSize
        <5>. DEFINE z == e[c]
        <5>2. z \in Nat /\ x <= z /\ z <= a /\ size = z - x
          BY <2>6, <5>1
        <5>. HIDE DEF z
        <5>3. Rest(SubSeq(w, x + 1, a), z - x) = SubSeq(w, z + 1, a)
          BY <1>1, <2>5, <5>2, CutRest
        <5>. QED
          BY <3>2, <5>2, <5>3 DEF z
      <4>3. Handle(m, out) = Sounds(items, c)
        <5>1. c - 1 \in 0 .. n - 1 /\ (c - 1) + 1 = c
          BY <1>1, <2>2
        <5>2. Sounds(items, (c - 1) + 1) = KeepSound(Sounds(items, c - 1), items[(c - 1) + 1])
          BY <1>1, <5>1, SoundOfPrefix DEF n
        <5>3. Sounds(items, c) = KeepSound(out, m)
          BY <1>3, <3>7, <5>1, <5>2
        <5>4. out \in Seq(Sound)
          BY <1>1, <1>3, SoundOfPrefix DEF n
        <5>5. m \in Sound => Append(out, m) = out \o <<m>>
          BY <5>4, AppendIsConcat
        <5>. QED
          BY <5>3, <5>5 DEF Handle, KeepSound
      <4>4. next = [buffer |-> SubSeq(w, e[c] + 1, a), handled |-> Sounds(items, c)]
        BY <3>4, <3>5, <3>6, <3>8, <4>1, <4>2, <4>3
      <4>5. CutAt(items, e, w, a, c, next)
        BY <2>2, <3>8, <4>4 DEF CutAt, n
      <4>6. e[c] >= e[b] + HeaderSize
        BY <2>4, <2>5, <2>6 DEF HeaderSize
      <4>7. ~ Waiting(items, e, a, b)
        BY <2>1, <3>8 DEF Waiting, n
      <4>. HIDE DEF m
      <4>. QED
        BY <2>2, <4>5, <4>6, <4>7
    <3>9. CASE ~ (a >= e[c])
      <4>1. next = [buffer |-> trimmed, handled |-> out]
        BY <1>3, <3>4, <3>6, <3>9
      <4>2. CutAt(items, e, w, a, c - 1, next)
        <5>1. c - 1 \in 0 .. Len(items) /\ e[c - 1] <= a
          BY <2>2, <2>5, <2>9 DEF x, n
        <5>2. next = [buffer  |-> SubSeq(w, e[c - 1] + 1, a), handled |-> Sounds(items, c - 1)]
          BY <1>3, <3>2, <3>7, <4>1 DEF x
        <5>. QED
          BY <5>1, <5>2 DEF CutAt
      <4>3. Waiting(items, e, a, c - 1)
        <5>. SUFFICES ASSUME NEW k \in (c - 1) + 1 .. n PROVE ~ (e[k] <= a)
          BY DEF Waiting, n
        <5>1. k \in c .. n
          BY <2>2
        <5>. QED
          BY <2>5, <2>6, <2>7, <3>9, <5>1
      <4>4. c - 1 \in b .. Len(items)
        BY <2>2 DEF n
      <4>. QED
        BY <2>2, <4>2, <4>3
    <3>. QED
      BY <3>8, <3>9
  <2>. QED
    BY <2>5, <2>8, <2>9
<1>. QED
  BY <1>6, <1>7

(* All turns: afterwards nothing complete is left.                         *)
LEMMA ExtractIs ==
    ASSUME NEW items, NEW e, NEW w, Layout(items, e, w),
           NEW a \in 0 .. Len(w), NEW b, NEW cells, NEW out,
           CutAt(items, e, w, a, b, [buffer |-> cells, handled |-> out])
    PROVE  \E c \in b .. Len(items) :
              /\ CutAt(items, e, w, a, c, Extract(cells, out))
              /\ Waiting(items, e, a, c)
<1>. DEFINE n == Len(items)
            cache == [buffer |-> cells, handled |-> out]
            m == Len(cells) \div HeaderSize
            turns == [turn \in 1 .. m |-> turn]
            Caches == [buffer: Seq(Cell), handled: Seq(Sound)]
            Good(s, k) == \E c \in b .. n :
                             /\ CutAt(items, e, w, a, c, s)
                             /\ Waiting(items, e, a, c) \/ e[c] >= e[b] + HeaderSize * k
            I == [k \in 0 .. m |-> {s \in Caches : Good(s, k)}]
<1>1. /\ n \in Nat /\ items \in Seq(Item) /\ w \in Seq(Cell) /\ Len(w) \in Nat
      /\ \A k \in 0 .. n : e[k] \in Nat
      /\ \A k \in 1 .. n : e[k] = e[k - 1] + Len(Wire(items[k]))
      /\ b \in 0 .. n /\ e[b] <= a /\ a \in Nat
  <2>1. n \in Nat /\ items \in Seq(Item) /\ w \in Seq(Cell) /\ Len(w) \in Nat
    BY DEF Layout
  <2>2. /\ \A k \in 0 .. n : e[k] \in Nat
        /\ \A k \in 1 .. n : e[k] = e[k - 1] + Len(Wire(items[k]))
    BY DEF Layout
  <2>3. b \in 0 .. n /\ e[b] <= a
    BY DEF CutAt
  <2>. QED
    BY <2>1, <2>2, <2>3
<1>2. \A j, k \in 0 .. n : j < k => e[j] < e[k]
  BY <1>1, EndsClimb DEF Layout
<1>3. Len(cells) = a - e[b] /\ e[b] \in Nat
  <2>1. cells = SubSeq(w, e[b] + 1, a) /\ e[b] \in Nat
    BY <1>1 DEF CutAt
  <2>. QED
    BY <1>1, <2>1, CutIs
<1>4. m \in Nat /\ a < e[b] + HeaderSize * (m + 1) /\ DOMAIN turns = 1 .. m
      /\ \A k \in 1 .. m : turns[k] = k
  <2>. DEFINE l == a - e[b]
  <2>1. l \in Nat
    BY <1>1, <1>3
  <2>. HIDE DEF l
  <2>2. l \div 3 \in Nat /\ l < 3 * (l \div 3 + 1)
    BY <2>1
  <2>3. m = l \div 3
    BY <1>3 DEF l, HeaderSize
  <2>4. m \in Nat /\ l < 3 * (m + 1)
    BY <2>2, <2>3
  <2>. HIDE DEF m
  <2>. QED
    BY <1>1, <1>3, <2>4 DEF l, HeaderSize
<1>. HIDE DEF n
<1>5. \A c \in 0 .. n : \A s : CutAt(items, e, w, a, c, s) => s \in Caches
  <2>. SUFFICES ASSUME NEW c \in 0 .. n, NEW s, CutAt(items, e, w, a, c, s)
                PROVE  s \in Caches
    OBVIOUS
  <2>1. e[c] \in Nat /\ e[c] <= a
    BY <1>1 DEF CutAt
  <2>2. SubSeq(w, e[c] + 1, a) \in Seq(Cell)
    BY <1>1, <2>1, CutIs
  <2>3. Sounds(items, c) \in Seq(Sound)
    BY <1>1, SoundOfPrefix DEF n
  <2>. QED
    BY <2>2, <2>3 DEF CutAt
<1>6. \A c \in b .. n : c \in 0 .. n
  BY <1>1
<1>7. cache \in I[0]
  <2>. HIDE DEF m, Caches, cache
  <2>1. b \in b .. n /\ cache \in Caches /\ 0 \in 0 .. m
    <3>1. b \in b .. n /\ 0 \in 0 .. m
      BY <1>1, <1>4
    <3>2. CutAt(items, e, w, a, b, cache)
      BY DEF cache
    <3>. QED
      BY <1>1, <1>5, <3>1, <3>2
  <2>2. Good(cache, 0)
    <3>1. e[b] >= e[b] + HeaderSize * 0
      BY <1>3 DEF HeaderSize
    <3>2. CutAt(items, e, w, a, b, cache)
      BY DEF cache
    <3>. QED
      BY <2>1, <3>1, <3>2
  <2>. HIDE DEF Good
  <2>. QED
    BY <2>1, <2>2
<1>8. ASSUME NEW k \in 1 .. m, NEW s \in I[k - 1]
      PROVE  ExtractNext(s, turns[k]) \in I[k]
  <2>. DEFINE next == ExtractNext(s, turns[k])
  <2>1. k - 1 \in 0 .. m /\ k \in 0 .. m /\ k \in Nat
    BY <1>4
  <2>2. Good(s, k - 1)
    BY <2>1
  <2>3. PICK c \in b .. n : /\ CutAt(items, e, w, a, c, s)
                            /\ Waiting(items, e, a, c) \/ e[c] >= e[b] + HeaderSize * (k - 1)
    BY <2>2
  <2>4. PICK d \in c .. n :
           /\ CutAt(items, e, w, a, d, next)
           /\ Waiting(items, e, a, d) \/ e[d] >= e[c] + HeaderSize
           /\ Waiting(items, e, a, c) => Waiting(items, e, a, d)
    BY <2>3, TurnIs DEF n, next
  <2>. HIDE DEF next, m
  <2>5. d \in b .. n /\ d \in 0 .. n /\ c \in 0 .. n
    BY <1>1, <2>3, <2>4
  <2>6. Waiting(items, e, a, d) \/ e[d] >= e[b] + HeaderSize * k
    <3>1. e[d] \in Nat /\ e[c] \in Nat
      BY <1>1, <2>5
    <3>2. CASE Waiting(items, e, a, d)
      BY <3>2
    <3>3. CASE ~ Waiting(items, e, a, d)
      <4>1. e[c] >= e[b] + HeaderSize * (k - 1) /\ e[d] >= e[c] + HeaderSize
        BY <2>3, <2>4, <3>3
      <4>. DEFINE y == e[b]
                  u == e[c]
                  v == e[d]
      <4>2. y \in Nat /\ u \in Nat /\ v \in Nat /\ u >= y + 3 * (k - 1) /\ v >= u + 3
        BY <1>3, <3>1, <4>1 DEF HeaderSize
      <4>. HIDE DEF y, u, v
      <4>3. v >= y + 3 * k
        BY <2>1, <4>2
      <4>. QED
        BY <4>3 DEF y, v, HeaderSize
    <3>. QED
      BY <3>2, <3>3
  <2>7. next \in Caches
    BY <1>5, <2>4, <2>5
  <2>8. Good(next, k)
    BY <2>4, <2>5, <2>6
  <2>. HIDE DEF Good, Caches
  <2>. QED
    BY <2>1, <2>7, <2>8 DEF next
<1>9. FoldLeft(ExtractNext, cache, turns) \in I[m]
  <2>. HIDE DEF I, cache, turns, m
  <2>1. TurnFold!FoldLeft(ExtractNext, cache, turns) \in I[m]
    BY <1>4, <1>7, <1>8, TurnFold!FoldLeftInduction
  <2>. QED
    BY <2>1, SameTurnFold
<1>. DEFINE result == FoldLeft(ExtractNext, cache, turns)
<1>10. result = Extract(cells, out)
  BY DEF Extract
<1>. HIDE DEF result, cache, turns, m
<1>11. Good(result, m)
  <2>1. m \in 0 .. m /\ result \in I[m]
    BY <1>4, <1>9 DEF result
  <2>. HIDE DEF Good
  <2>. QED
    BY <2>1
<1>12. PICK c \in b .. n : /\ CutAt(items, e, w, a, c, result)
                           /\ Waiting(items, e, a, c) \/ e[c] >= e[b] + HeaderSize * m
  BY <1>11
<1>13. ASSUME e[c] >= e[b] + HeaderSize * m
       PROVE  Waiting(items, e, a, c)
  <2>. SUFFICES ASSUME NEW k \in c + 1 .. n, e[k] <= a, items[k] # Noise PROVE FALSE
    BY DEF Waiting, n
  <2>1. k \in 1 .. n /\ k \in 0 .. n /\ k - 1 \in 0 .. n /\ c \in 0 .. n
    BY <1>1, <1>6
  <2>2. e[k] \in Nat /\ e[k - 1] \in Nat /\ e[c] \in Nat /\ e[c] <= e[k - 1]
    <3>1. e[k] \in Nat /\ e[k - 1] \in Nat /\ e[c] \in Nat /\ (c = k - 1 \/ c < k - 1)
      BY <1>1, <2>1
    <3>. QED
      BY <1>2, <2>1, <3>1
  <2>3. items[k] \in Messages
    BY <1>1, <2>1 DEF Item, n
  <2>4. e[k] >= e[k - 1] + HeaderSize
    <3>1. e[k] = e[k - 1] + Len(Wire(items[k]))
      BY <1>1, <2>1
    <3>2. Len(Wire(items[k])) = HeaderSize + Len(Payload[items[k]]) /\ Len(Payload[items[k]]) \in Nat
      BY <2>3, WireIs
    <3>. DEFINE x == e[k - 1]
                l == Len(Wire(items[k]))
                q == Len(Payload[items[k]])
    <3>3. x \in Nat /\ q \in Nat /\ l = 3 + q /\ e[k] = x + l
      BY <2>2, <3>1, <3>2 DEF HeaderSize
    <3>. HIDE DEF x, l, q
    <3>4. x + l >= x + 3
      BY <3>3
    <3>. QED
      BY <3>3, <3>4 DEF x, HeaderSize
  <2>. DEFINE y == e[b]
              u == e[c]
              v == e[k - 1]
              z == e[k]
  <2>5. /\ y \in Nat /\ u \in Nat /\ v \in Nat /\ z \in Nat /\ m \in Nat /\ a \in Nat
        /\ u >= y + 3 * m /\ u <= v /\ z >= v + 3 /\ z <= a /\ a < y + 3 * (m + 1)
    BY <1>1, <1>3, <1>4, <1>13, <2>2, <2>4 DEF HeaderSize
  <2>. HIDE DEF y, u, v, z
  <2>. QED
    BY <2>5
<1>. QED
  BY <1>10, <1>12, <1>13 DEF n

(* The last item that has arrived in full.                                 *)
LEMMA LastEnd ==
    ASSUME NEW n \in Nat, NEW e \in [0 .. n -> Nat], NEW a \in Nat, e[0] <= a
    PROVE  \E m \in 0 .. n : e[m] <= a /\ (m = n \/ e[m + 1] > a)
<1>. SUFFICES ASSUME \A m \in 0 .. n - 1 : e[m] <= a => e[m + 1] <= a
              PROVE  e[n] <= a
  <2>1. (\A m \in 0 .. n - 1 : e[m] <= a => e[m + 1] <= a) \/
        (\E m \in 0 .. n - 1 : e[m] <= a /\ e[m + 1] > a)
    OBVIOUS
  <2>2. n \in 0 .. n /\ \A m \in 0 .. n - 1 : m \in 0 .. n
    OBVIOUS
  <2>. QED
    BY <2>1, <2>2
<1>. DEFINE T == {k \in 0 .. n : e[k] <= a}
<1>1. 0 \in T /\ n \in 0 .. n
  OBVIOUS
<1>2. \A k \in 0 .. n - 1 : k \in T => k + 1 \in T
  OBVIOUS
<1>3. n \in T
  <2>. HIDE DEF T
  <2>. QED
    BY <1>1, <1>2, WireFold!UpTo
<1>. QED
  BY <1>3

(* The end of a sequence is a suffix of its beginning.                     *)
LEMMA CutIsSuffix ==
    ASSUME NEW S, NEW w \in Seq(S), NEW p \in Nat, NEW a \in 0 .. Len(w), p <= a
    PROVE  IsSuffix(SubSeq(w, p + 1, a), SubSeq(w, 1, a))
<1>. DEFINE s == SubSeq(w, p + 1, a)
            t == SubSeq(w, 1, a)
            r == Reverse(s)
            u == Reverse(t)
            l == a - p
<1>1. l \in 0 .. a /\ a \in Nat /\ Len(w) \in Nat /\ 0 + 1 = 1
  OBVIOUS
<1>2. s \in Seq(S) /\ Len(s) = l /\ \A i \in 1 .. l : s[i] = w[p + i]
  BY CutIs
<1>3. t \in Seq(S) /\ Len(t) = a /\ \A i \in 1 .. a : t[i] = w[i]
  <2>1. /\ SubSeq(w, 0 + 1, a) \in Seq(S)
        /\ Len(SubSeq(w, 0 + 1, a)) = a - 0
        /\ \A i \in 1 .. a - 0 : SubSeq(w, 0 + 1, a)[i] = w[0 + i]
    BY <1>1, CutIs
  <2>2. a - 0 = a /\ \A i \in 1 .. a : 0 + i = i
    BY <1>1
  <2>. QED
    BY <1>1, <2>1, <2>2
<1>. HIDE DEF s, t
<1>r. \A seq \in Seq(S) :
         /\ Reverse(seq) \in Seq(S)
         /\ Len(Reverse(seq)) = Len(seq)
         /\ \A i \in 1 .. Len(seq) : Reverse(seq)[i] = seq[(Len(seq) - i) + 1]
  <2>. TAKE seq \in Seq(S)
  <2>. DEFINE k == Len(seq)
  <2>1. k \in Nat /\ \A i \in 1 .. k : seq[i] \in S
    OBVIOUS
  <2>2. Reverse(seq) = [i \in 1 .. k |-> seq[(k - i) + 1]]
    BY DEF Reverse
  <2>. HIDE DEF k
  <2>3. \A i \in 1 .. k : (k - i) + 1 \in 1 .. k
    BY <2>1
  <2>4. [i \in 1 .. k |-> seq[(k - i) + 1]] \in [1 .. k -> S]
    BY <2>1, <2>3
  <2>. QED
    BY <2>1, <2>2, <2>4 DEF k
<1>4. r \in Seq(S) /\ Len(r) = l /\ \A i \in 1 .. l : r[i] = s[(l - i) + 1]
  <2>1. /\ r \in Seq(S) /\ Len(r) = Len(s)
        /\ \A i \in 1 .. Len(s) : r[i] = s[(Len(s) - i) + 1]
    BY <1>2, <1>r
  <2>2. Len(s) = l
    BY <1>2
  <2>. HIDE DEF r, u, l
  <2>. QED
    BY <2>1, <2>2
<1>5. u \in Seq(S) /\ Len(u) = a /\ \A i \in 1 .. a : u[i] = t[(a - i) + 1]
  <2>1. /\ u \in Seq(S) /\ Len(u) = Len(t)
        /\ \A i \in 1 .. Len(t) : u[i] = t[(Len(t) - i) + 1]
    BY <1>3, <1>r
  <2>2. Len(t) = a
    BY <1>3
  <2>. HIDE DEF r, u, l
  <2>. QED
    BY <2>1, <2>2
<1>. HIDE DEF r, u
<1>6. \A i \in 1 .. l : r[i] = u[i]
  <2>. SUFFICES ASSUME NEW i \in 1 .. l PROVE r[i] = u[i]
    OBVIOUS
  <2>1. (l - i) + 1 \in 1 .. l /\ p + ((l - i) + 1) = (a - i) + 1 /\ i \in 1 .. a
        /\ (a - i) + 1 \in 1 .. a
    BY <1>1
  <2>. DEFINE j == (l - i) + 1
              k == (a - i) + 1
  <2>2. r[i] = s[j] /\ s[j] = w[p + j]
    BY <1>2, <1>4, <2>1
  <2>3. u[i] = t[k] /\ t[k] = w[k]
    BY <1>3, <1>5, <2>1
  <2>4. p + j = k
    BY <2>1
  <2>. HIDE DEF j, k
  <2>. QED
    BY <2>2, <2>3, <2>4
<1>. HIDE DEF l
<1>7. /\ SubSeq(r, 1, l) \in Seq(S) /\ Len(SubSeq(r, 1, l)) = l
      /\ \A i \in 1 .. l : SubSeq(r, 1, l)[i] = r[i]
  <2>1. /\ SubSeq(r, 0 + 1, l) \in Seq(S)
        /\ Len(SubSeq(r, 0 + 1, l)) = l - 0
        /\ \A i \in 1 .. l - 0 : SubSeq(r, 0 + 1, l)[i] = r[0 + i]
    BY <1>1, <1>4, CutIs
  <2>2. l - 0 = l /\ \A i \in 1 .. l : 0 + i = i
    BY <1>1
  <2>. QED
    BY <1>1, <2>1, <2>2
<1>8. /\ SubSeq(u, 1, l) \in Seq(S) /\ Len(SubSeq(u, 1, l)) = l
      /\ \A i \in 1 .. l : SubSeq(u, 1, l)[i] = u[i]
  <2>1. /\ SubSeq(u, 0 + 1, l) \in Seq(S)
        /\ Len(SubSeq(u, 0 + 1, l)) = l - 0
        /\ \A i \in 1 .. l - 0 : SubSeq(u, 0 + 1, l)[i] = u[0 + i]
    BY <1>1, <1>5, CutIs
  <2>2. l - 0 = l /\ \A i \in 1 .. l : 0 + i = i
    BY <1>1
  <2>. QED
    BY <1>1, <2>1, <2>2
<1>9. SubSeq(r, 1, l) = SubSeq(u, 1, l)
  BY <1>6, <1>7, <1>8, SeqEqual
<1>10. IsPrefix(r, u)
  BY <1>1, <1>4, <1>5, <1>9 DEF IsPrefix
<1>. QED
  BY <1>10 DEF IsSuffix, r, u, s, t

(* A sequence that begins like another and is not longer is its prefix.    *)
LEMMA BeginsIsPrefix ==
    ASSUME NEW S, NEW s \in Seq(S), NEW t \in Seq(S), Len(s) <= Len(t),
           \A i \in 1 .. Len(s) : s[i] = t[i]
    PROVE  IsPrefix(s, t)
<1>. DEFINE l == Len(s)
<1>1. l \in Nat /\ l \in 0 .. Len(s) /\ l \in 0 .. Len(t) /\ 0 + 1 = 1 /\ l - 0 = l
      /\ 0 <= l /\ \A i \in 1 .. l : 0 + i = i
  OBVIOUS
<1>. HIDE DEF l
<1>2. /\ SubSeq(s, 0 + 1, l) \in Seq(S)
      /\ Len(SubSeq(s, 0 + 1, l)) = l - 0
      /\ \A i \in 1 .. l - 0 : SubSeq(s, 0 + 1, l)[i] = s[0 + i]
  BY <1>1, CutIs
<1>3. /\ SubSeq(t, 0 + 1, l) \in Seq(S)
      /\ Len(SubSeq(t, 0 + 1, l)) = l - 0
      /\ \A i \in 1 .. l - 0 : SubSeq(t, 0 + 1, l)[i] = t[0 + i]
  BY <1>1, CutIs
<1>4. SubSeq(s, 1, l) \in Seq(S) /\ Len(SubSeq(s, 1, l)) = l
      /\ \A i \in 1 .. l : SubSeq(s, 1, l)[i] = s[i]
  BY <1>1, <1>2
<1>5. SubSeq(t, 1, l) \in Seq(S) /\ Len(SubSeq(t, 1, l)) = l
      /\ \A i \in 1 .. l : SubSeq(t, 1, l)[i] = t[i]
  BY <1>1, <1>3
<1>6. \A i \in 1 .. l : s[i] = t[i]
  BY DEF l
<1>7. SubSeq(s, 1, l) = SubSeq(t, 1, l)
  BY <1>4, <1>5, <1>6, SeqEqual
<1>. QED
  BY <1>7 DEF IsPrefix, l

(* What the position in the stream says of the handled messages.           *)
LEMMA HandledIs ==
    ASSUME NEW items, NEW e, NEW w, Layout(items, e, w),
           NEW a \in 0 .. Len(w), NEW b, NEW cache,
           CutAt(items, e, w, a, b, cache), Waiting(items, e, a, b)
    PROVE  cache.handled
             = SoundOf(SubSeq(items, 1, Cardinality({i \in 1 .. Len(items) : e[i] <= a})))
<1>. DEFINE n == Len(items)
            done == {i \in 1 .. n : e[i] <= a}
<1>1. /\ n \in Nat /\ items \in Seq(Item) /\ a \in Nat
      /\ e \in [0 .. n -> Nat] /\ e[0] = 0
  BY DEF Layout
<1>2. b \in 0 .. n /\ e[b] <= a /\ cache.handled = Sounds(items, b)
  BY DEF CutAt
<1>3. \A j, k \in 0 .. n : j < k => e[j] < e[k]
  BY <1>1, EndsClimb DEF Layout
<1>4. PICK m \in 0 .. n : e[m] <= a /\ (m = n \/ e[m + 1] > a)
  <2>1. e[0] <= a
    BY <1>1
  <2>. HIDE DEF n
  <2>. QED
    BY <1>1, <2>1, LastEnd
<1>5. \A k \in 0 .. n : e[k] <= a <=> k <= m
  <2>. SUFFICES ASSUME NEW k \in 0 .. n PROVE e[k] <= a <=> k <= m
    OBVIOUS
  <2>1. e[k] \in Nat /\ e[m] \in Nat
    BY <1>1
  <2>2. CASE k <= m
    <3>1. k = m \/ e[k] < e[m]
      BY <1>3, <2>2
    <3>. QED
      BY <1>1, <1>4, <2>1, <2>2, <3>1
  <2>3. CASE k > m
    <3>1. m + 1 \in 0 .. n /\ e[m + 1] > a /\ (k = m + 1 \/ m + 1 < k)
      BY <1>1, <1>4, <2>3
    <3>2. e[m + 1] \in Nat /\ (k = m + 1 \/ e[m + 1] < e[k])
      BY <1>1, <1>3, <3>1
    <3>3. e[k] > a
      BY <1>1, <2>1, <3>1, <3>2
    <3>. QED
      BY <1>1, <2>1, <2>3, <3>3
  <2>. QED
    BY <2>2, <2>3
<1>6. m \in b .. n /\ m \in Nat
  BY <1>1, <1>2, <1>5
<1>7. Cardinality(done) = m
  <2>1. done = 1 .. m
    <3>1. \A k \in 1 .. n : k \in 0 .. n
      OBVIOUS
    <3>. QED
      BY <1>1, <1>5, <1>6, <3>1
  <2>2. \A l \in Nat : Cardinality(1 .. l) = l
    <3>. TAKE l \in Nat
    <3>1. Cardinality(1 .. l) = IF 1 > l THEN 0 ELSE l - 1 + 1
      BY FS_Interval
    <3>. QED
      BY <3>1
  <2>. QED
    BY <1>6, <2>1, <2>2
<1>8. \A k \in b + 1 .. m : items[k] = Noise
  <2>. TAKE k \in b + 1 .. m
  <2>1. k \in b + 1 .. n /\ k \in 0 .. n /\ k <= m
    BY <1>1, <1>2
  <2>2. e[k] <= a
    BY <1>5, <2>1
  <2>. QED
    BY <2>1, <2>2 DEF Waiting
<1>9. Sounds(items, m) = Sounds(items, b)
  BY <1>1, <1>2, <1>6, <1>8, NoiseAddsNothing
<1>. QED
  BY <1>2, <1>7, <1>9 DEF Sounds

(* And of the cache, when the peer writes nothing but messages.            *)
LEMMA CacheIs ==
    ASSUME NEW items, NEW e, NEW w, Layout(items, e, w),
           NEW a \in 0 .. Len(w), NEW b, NEW cache,
           CutAt(items, e, w, a, b, cache), Waiting(items, e, a, b),
           \A i \in 1 .. Len(items) : items[i] # Noise
    PROVE  \/ cache.buffer = << >>
           \/ \E m \in Messages : /\ IsPrefix(cache.buffer, Wire(m))
                                  /\ Len(cache.buffer) < Len(Wire(m))
<1>. DEFINE n == Len(items)
            p == e[b]
            cells == cache.buffer
<1>1. /\ n \in Nat /\ items \in Seq(Item) /\ a \in Nat /\ w \in Seq(Cell) /\ Len(w) \in Nat
      /\ e \in [0 .. n -> Nat] /\ e[n] = Len(w)
  BY DEF Layout
<1>2. b \in 0 .. n /\ p <= a /\ p \in Nat /\ cells = SubSeq(w, p + 1, a)
  BY <1>1 DEF CutAt
<1>3. cells \in Seq(Cell) /\ Len(cells) = a - p /\ \A i \in 1 .. a - p : cells[i] = w[p + i]
  <2>. HIDE DEF p, cells
  <2>. QED
    BY <1>1, <1>2, CutIs
<1>4. CASE b = n
  <2>1. Len(cells) = 0
    BY <1>1, <1>2, <1>3, <1>4
  <2>. HIDE DEF cells
  <2>2. cells = << >>
    BY <1>3, <2>1, EmptySeq
  <2>. QED
    BY <2>2 DEF cells
<1>5. CASE b # n
  <2>. DEFINE c == b + 1
              m == items[c]
  <2>1. c \in 1 .. n /\ c \in b + 1 .. n /\ c - 1 = b /\ c \in 0 .. n
    BY <1>1, <1>2, <1>5
  <2>. HIDE DEF c
  <2>2. m \in Messages
    BY <1>1, <2>1 DEF Item
  <2>3. ~ (e[c] <= a)
    BY <2>1 DEF Waiting
  <2>4. /\ e[c] = p + Len(Wire(m))
        /\ \A i \in 1 .. Len(Wire(m)) : w[p + i] = Wire(m)[i]
    BY <2>1 DEF Layout
  <2>5. Wire(m) \in Seq(Cell) /\ Len(Wire(m)) \in Nat
    BY <2>2, WireIs DEF Item
  <2>6. Len(cells) < Len(Wire(m)) /\ Len(cells) \in Nat
    BY <1>1, <1>2, <1>3, <2>3, <2>4, <2>5
  <2>7. \A i \in 1 .. Len(cells) : cells[i] = Wire(m)[i]
    <3>. TAKE i \in 1 .. Len(cells)
    <3>1. i \in 1 .. a - p /\ i \in 1 .. Len(Wire(m))
      BY <1>3, <2>5, <2>6
    <3>. QED
      BY <1>3, <2>4, <3>1
  <2>8. Len(cells) <= Len(Wire(m))
    BY <2>5, <2>6
  <2>. HIDE DEF cells, m
  <2>9. IsPrefix(cells, Wire(m))
    BY <1>3, <2>5, <2>7, <2>8, BeginsIsPrefix
  <2>. QED
    BY <2>2, <2>6, <2>9 DEF cells
<1>. QED
  BY <1>4, <1>5

(* Writing behind the position changes nothing before it.                  *)
LEMMA PrefixOfAppend ==
    ASSUME NEW S, NEW items \in Seq(S), NEW item \in S, NEW k \in 0 .. Len(items)
    PROVE  SubSeq(Append(items, item), 1, k) = SubSeq(items, 1, k)
<1>. DEFINE longer == Append(items, item)
            s == SubSeq(longer, 1, k)
            t == SubSeq(items, 1, k)
<1>1. /\ Len(items) \in Nat /\ 0 \in Nat /\ 0 + 1 = 1 /\ k - 0 = k /\ 0 <= k
      /\ \A i \in 1 .. k : 0 + i = i /\ i \in 1 .. Len(items)
  OBVIOUS
<1>2. longer \in Seq(S) /\ Len(longer) = Len(items) + 1
      /\ \A i \in 1 .. Len(items) : longer[i] = items[i]
  BY AppendProperties
<1>. HIDE DEF longer
<1>3. k \in 0 .. Len(longer)
  BY <1>1, <1>2
<1>4. s \in Seq(S) /\ Len(s) = k /\ \A i \in 1 .. k : s[i] = longer[i]
  <2>1. /\ SubSeq(longer, 0 + 1, k) \in Seq(S)
        /\ Len(SubSeq(longer, 0 + 1, k)) = k - 0
        /\ \A i \in 1 .. k - 0 : SubSeq(longer, 0 + 1, k)[i] = longer[0 + i]
    BY <1>1, <1>2, <1>3, CutIs
  <2>. QED
    BY <1>1, <2>1
<1>5. t \in Seq(S) /\ Len(t) = k /\ \A i \in 1 .. k : t[i] = items[i]
  <2>1. /\ SubSeq(items, 0 + 1, k) \in Seq(S)
        /\ Len(SubSeq(items, 0 + 1, k)) = k - 0
        /\ \A i \in 1 .. k - 0 : SubSeq(items, 0 + 1, k)[i] = items[0 + i]
    BY <1>1, CutIs
  <2>. QED
    BY <1>1, <2>1
<1>. HIDE DEF s, t
<1>6. Len(s) = Len(t) /\ \A i \in 1 .. Len(s) : s[i] = t[i]
  BY <1>1, <1>2, <1>4, <1>5
<1>7. s = t
  BY <1>4, <1>5, <1>6, SeqEqual
<1>. QED
  BY <1>7 DEF s, t, longer

LEMMA CutOfConcat ==
    ASSUME NEW S, NEW w \in Seq(S), NEW v \in Seq(S), NEW p \in Nat,
           NEW a \in 0 .. Len(w), p <= a
    PROVE  SubSeq(w \o v, p + 1, a) = SubSeq(w, p + 1, a)
<1>. DEFINE longer == w \o v
            s == SubSeq(longer, p + 1, a)
            t == SubSeq(w, p + 1, a)
<1>1. Len(w) \in Nat /\ Len(v) \in Nat /\ \A i \in 1 .. a - p : p + i \in 1 .. Len(w)
  OBVIOUS
<1>2. longer \in Seq(S) /\ Len(longer) = Len(w) + Len(v)
      /\ \A i \in 1 .. Len(w) : longer[i] = w[i]
  BY ConcatProperties
<1>. HIDE DEF longer
<1>3. a \in 0 .. Len(longer)
  BY <1>1, <1>2
<1>4. s \in Seq(S) /\ Len(s) = a - p /\ \A i \in 1 .. a - p : s[i] = longer[p + i]
  BY <1>2, <1>3, CutIs
<1>5. t \in Seq(S) /\ Len(t) = a - p /\ \A i \in 1 .. a - p : t[i] = w[p + i]
  BY CutIs
<1>. HIDE DEF s, t
<1>6. Len(s) = Len(t) /\ \A i \in 1 .. Len(s) : s[i] = t[i]
  BY <1>1, <1>2, <1>4, <1>5
<1>7. s = t
  BY <1>4, <1>5, <1>6, SeqEqual
<1>. QED
  BY <1>7 DEF s, t, longer

LEMMA WriteKeepsPosition ==
    ASSUME NEW items \in Seq(Item), NEW item \in Item, NEW longer,
           longer = Append(items, item),
           NEW a \in 0 .. Len(WireOf(items)), NEW b, NEW cache,
           CutAt(items, Ends(items), WireOf(items), a, b, cache),
           Waiting(items, Ends(items), a, b)
    PROVE  /\ a \in 0 .. Len(WireOf(longer))
           /\ CutAt(longer, Ends(longer), WireOf(longer), a, b, cache)
           /\ Waiting(longer, Ends(longer), a, b)
<1>. DEFINE n == Len(items)
            w == WireOf(items)
            v == WireOf(longer)
            cells == Wire(item)
            d == Ends(items)
            e == Ends(longer)
<1>1. /\ n \in Nat /\ longer \in Seq(Item) /\ Len(longer) = n + 1
      /\ \A k \in 1 .. n : longer[k] = items[k]
      /\ longer[n + 1] = item
  BY AppendProperties
<1>2. /\ v = w \o cells /\ w \in Seq(Cell) /\ cells \in Seq(Cell)
      /\ Len(cells) \in Nat \ {0}
  <2>1. w \in Seq(Cell)
    BY LayoutIs DEF Layout
  <2>. QED
    BY <2>1, WireOfAppend, WireIs
<1>3. Len(w) \in Nat /\ Len(v) = Len(w) + Len(cells)
  BY <1>2, ConcatProperties
<1>4. \A k \in 0 .. n : SubSeq(longer, 1, k) = SubSeq(items, 1, k)
  BY PrefixOfAppend
<1>5. \A k \in 0 .. n : e[k] = d[k]
  <2>. SUFFICES ASSUME NEW k \in 0 .. n PROVE e[k] = d[k]
    OBVIOUS
  <2>1. k \in 0 .. Len(longer) /\ k \in 0 .. Len(items)
    BY <1>1
  <2>2. e[k] = Len(WireOf(SubSeq(longer, 1, k))) /\ d[k] = Len(WireOf(SubSeq(items, 1, k)))
    BY <2>1 DEF Ends
  <2>. QED
    BY <1>4, <2>2
<1>6. e[n + 1] = Len(v)
  BY <1>1, LayoutIs DEF Layout
<1>7. b \in 0 .. n /\ d[b] <= a /\ d[b] \in Nat
      /\ cache = [buffer |-> SubSeq(w, d[b] + 1, a), handled |-> Sounds(items, b)]
  BY LayoutIs DEF CutAt, Layout
<1>. HIDE DEF w, v, cells, d, e
<1>8. SubSeq(v, d[b] + 1, a) = SubSeq(w, d[b] + 1, a)
  <2>. DEFINE p == d[b]
  <2>1. p \in Nat /\ p <= a /\ a \in 0 .. Len(w)
    BY <1>7 DEF w
  <2>. HIDE DEF p
  <2>2. SubSeq(v, p + 1, a) = SubSeq(w, p + 1, a)
    BY <1>2, <2>1, CutOfConcat
  <2>. QED
    BY <2>2 DEF p
<1>9. Sounds(longer, b) = Sounds(items, b)
  BY <1>4, <1>7 DEF Sounds
<1>10. b \in 0 .. Len(longer)
  BY <1>1, <1>7
<1>11. CutAt(longer, e, v, a, b, cache)
  BY <1>5, <1>7, <1>8, <1>9, <1>10 DEF CutAt
<1>12. a \in 0 .. Len(v) /\ a < e[n + 1]
  BY <1>2, <1>3, <1>6 DEF w
<1>13. Waiting(longer, e, a, b)
  <2>. SUFFICES ASSUME NEW k \in b + 1 .. Len(longer), e[k] <= a
                PROVE  longer[k] = Noise
    BY DEF Waiting
  <2>1. k # n + 1
    <3>1. e[n + 1] \in Nat
      BY <1>2, <1>3, <1>6
    <3>. QED
      BY <1>12, <3>1
  <2>2. k \in b + 1 .. n /\ k \in 0 .. n /\ k \in 1 .. n
    BY <1>1, <1>7, <2>1
  <2>3. d[k] <= a
    BY <1>5, <2>2
  <2>4. items[k] = Noise
    BY <2>2, <2>3 DEF Waiting, d
  <2>. QED
    BY <1>1, <2>2, <2>4
<1>. QED
  BY <1>11, <1>12, <1>13 DEF e, v

(* A segment moves the position on.                                        *)
LEMMA SegmentMovesPosition ==
    ASSUME NEW items, NEW e, NEW w, Layout(items, e, w),
           NEW a \in 0 .. Len(w), NEW n \in Nat, a + n <= Len(w),
           NEW b, NEW cells, NEW out,
           CutAt(items, e, w, a, b, [buffer |-> cells, handled |-> out])
    PROVE  \E c \in b .. Len(items) :
              /\ CutAt(items, e, w, a + n, c, Extract(cells \o SubSeq(w, a + 1, a + n), out))
              /\ Waiting(items, e, a + n, c)
<1>. DEFINE p == e[b]
            all == cells \o SubSeq(w, a + 1, a + n)
            z == a + n
<1>1. /\ b \in 0 .. Len(items) /\ p \in Nat /\ p <= a /\ w \in Seq(Cell) /\ Len(w) \in Nat
      /\ cells = SubSeq(w, p + 1, a) /\ out = Sounds(items, b)
  <2>1. /\ b \in 0 .. Len(items) /\ p <= a
        /\ cells = SubSeq(w, p + 1, a) /\ out = Sounds(items, b)
    BY DEF CutAt
  <2>2. w \in Seq(Cell) /\ e \in [0 .. Len(items) -> Nat]
    BY DEF Layout
  <2>3. Len(w) \in Nat /\ e[b] \in Nat
    BY <2>1, <2>2
  <2>. QED
    BY <2>1, <2>2, <2>3
<1>2. z \in 0 .. Len(w) /\ a <= z /\ p <= z /\ a \in Nat
  BY <1>1
<1>. HIDE DEF p, z
<1>3. SubSeq(w, p + 1, a) \o SubSeq(w, a + 1, z) = SubSeq(w, p + 1, z)
  BY <1>1, <1>2, CutJoin
<1>4. all = SubSeq(w, p + 1, z)
  BY <1>1, <1>3 DEF z
<1>. HIDE DEF all
<1>5. CutAt(items, e, w, z, b, [buffer |-> all, handled |-> out])
  BY <1>1, <1>2, <1>4 DEF CutAt, p
<1>6. \E c \in b .. Len(items) :
         /\ CutAt(items, e, w, z, c, Extract(all, out))
         /\ Waiting(items, e, z, c)
  BY <1>2, <1>5, ExtractIs
<1>. QED
  BY <1>6 DEF all, z

-----------------------------------------------------------------------------
(* The cut: where in the stream the loop stands.  Everything before it has *)
(* been handled, the cache is what has arrived behind it, and no message   *)
(* behind it is complete.                                                  *)
Position(b) ==
    /\ CutAt(sent, Ends(sent), WireOf(sent), arrived, b,
             [buffer |-> buffer, handled |-> handled])
    /\ Waiting(sent, Ends(sent), arrived, b)

StreamInv ==
    /\ sent \in Seq(Item)
    /\ arrived \in 0 .. Len(WireOf(sent))
    /\ \E b \in 0 .. Len(sent) : Position(b)

LEMMA StreamInvInit == StreamInit => StreamInv
<1>. SUFFICES ASSUME StreamInit PROVE StreamInv
  OBVIOUS
<1>1. sent = << >> /\ arrived = 0 /\ buffer = << >> /\ handled = << >>
  BY DEF StreamInit
<1>2. sent \in Seq(Item) /\ Len(sent) = 0
  BY <1>1
<1>3. WireOf(sent) = << >> /\ Len(WireOf(sent)) = 0
  BY <1>1, WireOfEmpty
<1>4. Ends(sent)[0] = 0
  BY <1>2, LayoutIs DEF Layout
<1>5. SubSeq(WireOf(sent), 0 + 1, 0) = << >>
  BY SubSeqEmpty
<1>6. Sounds(sent, 0) = << >>
  BY <1>2, SoundOfPrefix
<1>7. CutAt(sent, Ends(sent), WireOf(sent), arrived, 0, [buffer |-> buffer, handled |-> handled])
  BY <1>1, <1>2, <1>4, <1>5, <1>6 DEF CutAt
<1>8. Waiting(sent, Ends(sent), arrived, 0)
  BY <1>2 DEF Waiting
<1>. QED
  BY <1>1, <1>2, <1>3, <1>7, <1>8 DEF StreamInv, Position

LEMMA StreamInvStep == StreamInv /\ [StreamNext]_streamVars => StreamInv'
<1>. SUFFICES ASSUME StreamInv, [StreamNext]_streamVars PROVE StreamInv'
  OBVIOUS
<1>1. sent \in Seq(Item) /\ arrived \in 0 .. Len(WireOf(sent))
  BY DEF StreamInv
<1>2. PICK b \in 0 .. Len(sent) : Position(b)
  BY DEF StreamInv
<1>3. ASSUME NEW item \in Messages \cup {Noise}, Write(item)
      PROVE  StreamInv'
  <2>1. item \in Item /\ sent' = Append(sent, item)
        /\ arrived' = arrived /\ buffer' = buffer /\ handled' = handled
    BY <1>3 DEF Write, Item
  <2>. DEFINE longer == sent'
              cache == [buffer |-> buffer, handled |-> handled]
  <2>2. longer \in Seq(Item) /\ Len(longer) = Len(sent) + 1
    BY <1>1, <2>1, AppendProperties
  <2>3. CutAt(sent, Ends(sent), WireOf(sent), arrived, b, cache)
        /\ Waiting(sent, Ends(sent), arrived, b)
    BY <1>2 DEF Position
  <2>. HIDE DEF longer, cache
  <2>4. longer = Append(sent, item)
    BY <2>1 DEF longer
  <2>5. /\ arrived \in 0 .. Len(WireOf(longer))
        /\ CutAt(longer, Ends(longer), WireOf(longer), arrived, b, cache)
        /\ Waiting(longer, Ends(longer), arrived, b)
    BY <1>1, <2>1, <2>3, <2>4, WriteKeepsPosition
  <2>6. b \in 0 .. Len(sent')
    BY <1>1, <2>2 DEF longer
  <2>. QED
    BY <2>1, <2>2, <2>5, <2>6 DEF StreamInv, Position, longer, cache
<1>4. ASSUME NEW n \in 1 .. Len(WireOf(sent)) - arrived, IncomingSegment(n)
      PROVE  StreamInv'
  <2>. DEFINE w == WireOf(sent)
              all == buffer \o SubSeq(w, arrived + 1, arrived + n)
              result == Extract(all, handled)
  <2>1. /\ arrived + n <= Len(w) /\ arrived' = arrived + n /\ sent' = sent
        /\ buffer' = result.buffer /\ handled' = result.handled
    BY <1>4 DEF IncomingSegment
  <2>2. n \in Nat /\ Layout(sent, Ends(sent), w) /\ Len(w) \in Nat
    <3>1. Layout(sent, Ends(sent), w)
      BY <1>1, LayoutIs
    <3>2. w \in Seq(Cell)
      BY <3>1 DEF Layout
    <3>. QED
      BY <1>1, <3>1, <3>2
  <2>3. CutAt(sent, Ends(sent), w, arrived, b, [buffer |-> buffer, handled |-> handled])
    BY <1>2 DEF Position
  <2>4. PICK c \in b .. Len(sent) :
           /\ CutAt(sent, Ends(sent), w, arrived + n, c, result)
           /\ Waiting(sent, Ends(sent), arrived + n, c)
    <3>. HIDE DEF w
    <3>1. arrived \in 0 .. Len(w)
      BY <1>1 DEF w
    <3>. QED
      BY <2>1, <2>2, <2>3, <3>1, SegmentMovesPosition
  <2>. HIDE DEF result, w
  <2>5. [buffer |-> result.buffer, handled |-> result.handled] = result
    BY <2>4 DEF CutAt
  <2>6. CutAt(sent', Ends(sent'), WireOf(sent'), arrived', c,
              [buffer |-> buffer', handled |-> handled'])
    BY <2>1, <2>4, <2>5 DEF w
  <2>7. Waiting(sent', Ends(sent'), arrived', c)
    BY <2>1, <2>4
  <2>8. arrived' \in 0 .. Len(WireOf(sent'))
    BY <1>1, <2>1, <2>2 DEF w
  <2>9. sent' \in Seq(Item) /\ c \in 0 .. Len(sent')
    BY <1>1, <2>1
  <2>. QED
    BY <2>6, <2>7, <2>8, <2>9 DEF StreamInv, Position
<1>5. CASE UNCHANGED streamVars
  <2>1. sent' = sent /\ arrived' = arrived /\ buffer' = buffer /\ handled' = handled
    BY <1>5 DEF streamVars
  <2>. QED
    BY <1>1, <1>2, <2>1 DEF StreamInv, Position
<1>. QED
  BY <1>3, <1>4, <1>5 DEF StreamNext, Segment

LEMMA StreamInvAlways == StreamSpec => []StreamInv
<1>. QED
  BY StreamInvInit, StreamInvStep, PTL DEF StreamSpec

LEMMA StreamInvImplies == StreamInv => HandledExactly
<1>. SUFFICES ASSUME StreamInv PROVE HandledExactly
  OBVIOUS
<1>. DEFINE e == Ends(sent)
            w == WireOf(sent)
            cache == [buffer |-> buffer, handled |-> handled]
<1>1. sent \in Seq(Item) /\ arrived \in 0 .. Len(w) /\ Len(sent) \in Nat
      /\ DOMAIN sent = 1 .. Len(sent)
  BY DEF StreamInv
<1>2. PICK b \in 0 .. Len(sent) : Position(b)
  BY DEF StreamInv
<1>3. /\ Layout(sent, e, w) /\ w \in Seq(Cell) /\ Len(w) \in Nat
      /\ \A k \in 0 .. Len(sent) : e[k] \in Nat
      /\ \A i \in 1 .. Len(sent) : e[i] = Len(WireOf(SubSeq(sent, 1, i)))
  <2>1. Layout(sent, e, w)
    BY <1>1, LayoutIs
  <2>2. \A i \in 1 .. Len(sent) : e[i] = Len(WireOf(SubSeq(sent, 1, i)))
    <3>1. \A i \in 1 .. Len(sent) : i \in 0 .. Len(sent)
      OBVIOUS
    <3>. QED
      BY <3>1 DEF Ends
  <2>. HIDE DEF e, w
  <2>3. w \in Seq(Cell) /\ \A k \in 0 .. Len(sent) : e[k] \in Nat
    BY <2>1 DEF Layout
  <2>. QED
    BY <2>1, <2>2, <2>3
<1>4. CutAt(sent, e, w, arrived, b, cache) /\ Waiting(sent, e, arrived, b)
  BY <1>2 DEF Position
<1>. HIDE DEF e, w
<1>5. /\ e[b] <= arrived /\ e[b] \in Nat
      /\ buffer = SubSeq(w, e[b] + 1, arrived) /\ handled = Sounds(sent, b)
  BY <1>3, <1>4 DEF CutAt
<1>6. buffer \in Seq(Cell) /\ IsSuffix(buffer, SubSeq(w, 1, arrived))
  <2>. DEFINE p == e[b]
  <2>1. p \in Nat /\ p <= arrived /\ buffer = SubSeq(w, p + 1, arrived)
    BY <1>5
  <2>. HIDE DEF p
  <2>. QED
    BY <1>1, <1>3, <2>1, CutIs, CutIsSuffix
<1>7. handled \in Seq(Sound)
  BY <1>1, <1>5, SoundOfPrefix
<1>8. TypeOK
  BY <1>1, <1>6, <1>7 DEF TypeOK, Item, Cell, w
<1>. HIDE DEF cache
<1>9. handled = SoundOf(SubSeq(sent, 1, Cardinality(Complete)))
  <2>1. Complete = {i \in 1 .. Len(sent) : e[i] <= arrived}
    BY <1>1, <1>3 DEF Complete
  <2>2. cache.handled
          = SoundOf(SubSeq(sent, 1, Cardinality({i \in 1 .. Len(sent) : e[i] <= arrived})))
    BY <1>1, <1>3, <1>4, HandledIs
  <2>. QED
    BY <2>1, <2>2 DEF cache
<1>10. (\A i \in DOMAIN sent : sent[i] # Noise) =>
          \/ buffer = << >>
          \/ \E m \in Messages : IsPrefix(buffer, Wire(m)) /\ Len(buffer) < Len(Wire(m))
  <2>. SUFFICES ASSUME \A i \in 1 .. Len(sent) : sent[i] # Noise
                PROVE  \/ buffer = << >>
                       \/ \E m \in Messages : /\ IsPrefix(buffer, Wire(m))
                                              /\ Len(buffer) < Len(Wire(m))
    BY <1>1
  <2>1. \/ cache.buffer = << >>
        \/ \E m \in Messages : /\ IsPrefix(cache.buffer, Wire(m))
                               /\ Len(cache.buffer) < Len(Wire(m))
    BY <1>1, <1>3, <1>4, CacheIs
  <2>. QED
    BY <2>1 DEF cache
<1>. QED
  BY <1>6, <1>8, <1>9, <1>10 DEF HandledExactly, w

(* However TCP cuts the stream, exactly the sound messages whose last byte *)
(* has arrived have been handled, in order, and the cache is the end of    *)
(* what arrived: for every set of messages, every payload, even one full   *)
(* of magics, and any number of segments (communication.c:669-760).        *)
THEOREM HandledExactlyCorrect == StreamSpec => []HandledExactly
<1>. QED
  BY StreamInvAlways, StreamInvImplies, PTL

(* The message channel without its fairness.                               *)
ChannelSafe == Channel!Init /\ [][Channel!Next]_<<SoundOf(sent), handled>>

(* A write of a sound message is a Send; a segment delivers the messages   *)
(* the position moves over, or none.                                       *)
LEMMA StreamStepIsChannelStep ==
    StreamInv /\ StreamInv' /\ [StreamNext]_streamVars
      => [Channel!Next]_<<SoundOf(sent), handled>>
<1>. SUFFICES ASSUME StreamInv, StreamInv', [StreamNext]_streamVars
              PROVE  [Channel!Next]_<<SoundOf(sent), handled>>
  OBVIOUS
<1>1. sent \in Seq(Item)
  BY DEF StreamInv
<1>2. PICK b \in 0 .. Len(sent) : Position(b)
  BY DEF StreamInv
<1>3. ASSUME NEW item \in Messages \cup {Noise}, Write(item)
      PROVE  [Channel!Next]_<<SoundOf(sent), handled>>
  <2>1. SoundOf(sent') = KeepSound(SoundOf(sent), item) /\ handled' = handled
    BY <1>1, <1>3, SoundOfAppend DEF Write, Item
  <2>2. SoundOf(sent) \in Seq(Sound)
    <3>1. Len(sent) \in 0 .. Len(sent)
      BY <1>1
    <3>. QED
      BY <1>1, <3>1, SoundOfPrefix
  <2>3. CASE item \in Sound
    <3>1. SoundOf(sent') = Append(SoundOf(sent), item)
      BY <2>1, <2>2, <2>3, AppendIsConcat DEF KeepSound
    <3>. QED
      BY <2>1, <2>3, <3>1 DEF Channel!Next, Channel!Send
  <2>4. CASE item \notin Sound
    BY <2>1, <2>4 DEF KeepSound
  <2>. QED
    BY <2>3, <2>4
<1>4. ASSUME NEW n \in 1 .. Len(WireOf(sent)) - arrived, IncomingSegment(n)
      PROVE  [Channel!Next]_<<SoundOf(sent), handled>>
  <2>. DEFINE w == WireOf(sent)
              all == buffer \o SubSeq(w, arrived + 1, arrived + n)
              result == Extract(all, handled)
              l == Len(sent)
  <2>1. /\ arrived + n <= Len(w) /\ sent' = sent /\ handled' = result.handled
    BY <1>4 DEF IncomingSegment
  <2>2. /\ n \in Nat /\ Layout(sent, Ends(sent), w) /\ arrived \in 0 .. Len(w)
        /\ Len(w) \in Nat
    BY <1>1, LayoutIs DEF Layout, StreamInv
  <2>3. CutAt(sent, Ends(sent), w, arrived, b, [buffer |-> buffer, handled |-> handled])
    BY <1>2 DEF Position
  <2>4. PICK c \in b .. Len(sent) :
           CutAt(sent, Ends(sent), w, arrived + n, c, result)
    <3>. HIDE DEF w
    <3>. QED
      BY <2>1, <2>2, <2>3, SegmentMovesPosition
  <2>. HIDE DEF result, w
  <2>5. handled = Sounds(sent, b) /\ handled' = Sounds(sent, c)
    BY <2>1, <2>3, <2>4 DEF CutAt
  <2>6. l \in Nat /\ b \in 0 .. l /\ c \in 0 .. l /\ c \in b .. l /\ l \in c .. l
        /\ Sounds(sent, l) = SoundOf(sent)
    BY <1>1, SoundOfPrefix
  <2>7. /\ Len(handled) <= Len(handled')
        /\ handled = SubSeq(handled', 1, Len(handled))
    BY <1>1, <2>5, <2>6, SoundsGrow
  <2>8. /\ Len(handled') <= Len(SoundOf(sent))
        /\ handled' = SubSeq(SoundOf(sent), 1, Len(handled'))
    <3>1. /\ Len(Sounds(sent, c)) <= Len(Sounds(sent, l))
          /\ Sounds(sent, c) = SubSeq(Sounds(sent, l), 1, Len(Sounds(sent, c)))
      BY <1>1, <2>6, SoundsGrow
    <3>. QED
      BY <2>5, <2>6, <3>1
  <2>9. handled \in Seq(Sound) /\ handled' \in Seq(Sound) /\ SoundOf(sent) \in Seq(Sound)
    <3>1. \A k \in 0 .. l : Sounds(sent, k) \in Seq(Sound)
      BY <1>1, SoundOfPrefix
    <3>2. l \in 0 .. l
      BY <2>6
    <3>. QED
      BY <2>5, <2>6, <3>1, <3>2
  <2>. DEFINE i == Len(handled)
              j == Len(handled')
              all2 == SoundOf(sent)
  <2>10. i \in Nat /\ j \in Nat /\ Len(all2) \in Nat /\ SoundOf(sent') = all2
    BY <2>1, <2>9
  <2>11. CASE i = j
    <3>1. SubSeq(handled', 1, Len(handled')) = handled'
      BY <2>9, SubSeqFull
    <3>. QED
      BY <2>7, <2>10, <2>11, <3>1
  <2>12. CASE i # j
    <3>1. j \in i + 1 .. Len(all2)
      <4>. DEFINE last == Len(all2)
      <4>1. i <= j /\ j <= last /\ last \in Nat
        BY <2>7, <2>8, <2>10
      <4>. HIDE DEF i, j, last
      <4>2. j \in i + 1 .. last
        BY <2>10, <2>12, <4>1
      <4>. QED
        BY <4>2 DEF last
    <3>2. \E k \in Len(handled) + 1 .. Len(SoundOf(sent)) :
             handled' = SubSeq(SoundOf(sent), 1, k)
      BY <2>8, <3>1
    <3>. QED
      BY <2>10, <3>2 DEF Channel!Next, Channel!Deliver
  <2>. QED
    BY <2>11, <2>12
<1>5. CASE UNCHANGED streamVars
  BY <1>5 DEF streamVars
<1>. QED
  BY <1>3, <1>4, <1>5 DEF StreamNext, Segment

(* Every step of the connection is a step of the channel or a stutter:     *)
(* nothing is lost, doubled or put in another order on the way from the    *)
(* socket to handle_incoming_message.                                      *)
THEOREM StreamImplementsChannel == StreamSpec => ChannelSafe
<1>1. StreamInit => Channel!Init
  BY SoundOfEmpty DEF StreamInit, Channel!Init
<1>. QED
  BY <1>1, StreamInvAlways, StreamStepIsChannelStep, PTL DEF StreamSpec, ChannelSafe

=============================================================================
