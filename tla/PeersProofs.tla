---------------------------- MODULE PeersProofs ----------------------------
(***************************************************************************)
(* Proofs about Peers, for any number of slots, addresses and Peers.       *)
(*                                                                         *)
(* A handler passes through states that no other handler sees.  What makes *)
(* the system correct holds in all of them: Sound says it of a state, and  *)
(* everything a handler does comes down to Connect, which keeps it.  The   *)
(* loops of the code are FoldLefts, for which Folding has the induction.   *)
(***************************************************************************)
EXTENDS Peers, FiniteSetTheorems, TLAPS

FillFold    == INSTANCE Folding WITH Op <- FillNext
CheckFold   == INSTANCE Folding WITH Op <- CheckNext
HandleFold  == INSTANCE Folding WITH Op <- HandleNext
ReleaseFold == INSTANCE Folding WITH Op <- Release

(* The FoldLeft of the model is that of Folding.                           *)
LEMMA SameFolds ==
    \A base, seq :
       /\ FoldLeft(FillNext, base, seq) = FillFold!FoldLeft(FillNext, base, seq)
       /\ FoldLeft(CheckNext, base, seq) = CheckFold!FoldLeft(CheckNext, base, seq)
       /\ FoldLeft(HandleNext, base, seq) = HandleFold!FoldLeft(HandleNext, base, seq)
       /\ FoldLeft(Release, base, seq) = ReleaseFold!FoldLeft(Release, base, seq)
<1>1. \A base, seq :
         FoldLeft(FillNext, base, seq) = FillFold!FoldLeft(FillNext, base, seq)
  BY DEF FoldLeft, MapThenFoldSet, Max, FillFold!FoldLeft,
         FillFold!MapThenFoldSet, FillFold!Max
<1>2. \A base, seq :
         FoldLeft(CheckNext, base, seq) = CheckFold!FoldLeft(CheckNext, base, seq)
  BY DEF FoldLeft, MapThenFoldSet, Max, CheckFold!FoldLeft,
         CheckFold!MapThenFoldSet, CheckFold!Max
<1>3. \A base, seq :
         FoldLeft(HandleNext, base, seq) = HandleFold!FoldLeft(HandleNext, base, seq)
  BY DEF FoldLeft, MapThenFoldSet, Max, HandleFold!FoldLeft,
         HandleFold!MapThenFoldSet, HandleFold!Max
<1>4. \A base, seq :
         FoldLeft(Release, base, seq) = ReleaseFold!FoldLeft(Release, base, seq)
  BY DEF FoldLeft, MapThenFoldSet, Max, ReleaseFold!FoldLeft,
         ReleaseFold!MapThenFoldSet, ReleaseFold!Max
<1>. QED
  BY <1>1, <1>2, <1>3, <1>4

-----------------------------------------------------------------------------
(* States of slots and heap.                                               *)

States == [slots: [Slots -> Ids \cup {Null}], heap: [Ids -> Peer \cup {Free}]]

LiveSockets == {"connecting", "open", "silent"}

(* A slot is empty or has a Peer of its own that is not about to be freed. *)
SlotSound(s, slot) ==
    s.slots[slot] # Null =>
        /\ s.heap[s.slots[slot]] \in Peer
        /\ s.heap[s.slots[slot]].slot = slot
        /\ s.heap[s.slots[slot]].socket # "closing"

Strayless(s) ==
    \A id \in Ids : s.heap[id].socket \in LiveSockets
                       => \E slot \in Slots : s.slots[slot] = id

(* A connected address is that of one slot, or the first.                  *)
Distinct(s) ==
    \A s1, s2 \in Slots :
        (s1 # s2 /\ s.slots[s1] # Null /\ s.slots[s2] # Null)
            => \/ s.heap[s.slots[s1]].candidacy # s.heap[s.slots[s2]].candidacy
               \/ s.heap[s.slots[s1]].candidacy = First

Sound(s) ==
    /\ s \in States
    /\ \A slot \in Slots : SlotSound(s, slot)
    /\ Strayless(s)
    /\ Distinct(s)

ClosedPeers(s) == {id \in Ids : s.heap[id].socket = "closed"}

(* What became of a Peer that is allocated: of all it was, only its socket *)
(* has changed.                                                            *)
SamePeer(p, q) ==
    /\ q \in Peer
    /\ q.slot = p.slot /\ q.candidacy = p.candidacy /\ q.age = p.age
    /\ q.acceptThem = p.acceptThem /\ q.acceptUs = p.acceptUs
    /\ q.latencyTested = p.latencyTested

(* t comes from s by a new Peer in one slot.                               *)
Replaced(s, t, slot) ==
    /\ Sound(t)
    /\ ClosedPeers(t) = ClosedPeers(s)
    /\ t.slots[slot] \in Ids
    /\ s.heap[t.slots[slot]] = Free
    /\ \A other \in Slots : other # slot => t.slots[other] = s.slots[other]
    /\ \A id \in Ids : s.heap[id] # Free =>
          /\ SamePeer(s.heap[id], t.heap[id])
          /\ id # s.slots[slot] => t.heap[id] = s.heap[id]

(* A Peer that changes, but not its slot or its address.                   *)
LEMMA ChangeSound ==
    ASSUME NEW s, Sound(s), NEW id \in Ids, s.heap[id] \in Peer, NEW p \in Peer,
           p.slot = s.heap[id].slot, p.candidacy = s.heap[id].candidacy,
           p.socket = "closing" => s.heap[id].socket = "closing",
           p.socket \in LiveSockets => s.heap[id].socket \in LiveSockets
    PROVE  Sound([slots |-> s.slots, heap |-> [s.heap EXCEPT ![id] = p]])
<1>. DEFINE t == [slots |-> s.slots, heap |-> [s.heap EXCEPT ![id] = p]]
<1>1. /\ s.slots \in [Slots -> Ids \cup {Null}]
      /\ s.heap \in [Ids -> Peer \cup {Free}]
      /\ Free \notin Peer
  BY DEF Sound, States, Free, Peer, Sockets
<1>2. /\ t.slots = s.slots
      /\ t.heap \in [Ids -> Peer \cup {Free}]
      /\ t.heap[id] = p
      /\ \A other \in Ids : other # id => t.heap[other] = s.heap[other]
      /\ t \in States
  BY <1>1 DEF States
<1>. HIDE DEF t
<1>3. \A slot \in Slots : s.slots[slot] # Null =>
         s.slots[slot] \in Ids /\ s.heap[s.slots[slot]] \in Peer
  BY <1>1 DEF Sound, SlotSound
<1>4. \A slot \in Slots : SlotSound(t, slot)
  BY <1>2, <1>3 DEF Sound, SlotSound
<1>5. Strayless(t)
  BY <1>2 DEF Sound, Strayless
<1>6. Distinct(t)
  BY <1>2, <1>3 DEF Sound, Distinct
<1>. QED
  BY <1>2, <1>4, <1>5, <1>6 DEF Sound, t

(* What release_peer does to a heap.                                       *)
LEMMA ReleaseIs ==
    ASSUME NEW h \in [Ids -> Peer \cup {Free}], NEW id \in Ids, h[id] \in Peer
    PROVE  /\ Release(h, id) \in [Ids -> Peer \cup {Free}]
           /\ \A other \in Ids : other # id => Release(h, id)[other] = h[other]
           /\ SamePeer(h[id], Release(h, id)[id])
           /\ Release(h, id)[id].socket
                 = IF h[id].socket = "closed" THEN "closed" ELSE "closing"
<1>1. id # Null
  BY PeersAssumption
<1>2. CASE h[id].socket \in {"closing", "closed"}
  BY <1>1, <1>2 DEF Release, SamePeer, Peer
<1>3. CASE h[id].socket \notin {"closing", "closed"}
  <2>1. Release(h, id) = [h EXCEPT ![id] = [h[id] EXCEPT !.socket = "closing"]]
    BY <1>1, <1>3 DEF Release
  <2>2. [h[id] EXCEPT !.socket = "closing"] \in Peer
    BY DEF Peer, Sockets
  <2>. QED
    BY <1>3, <2>1, <2>2 DEF SamePeer, Peer
<1>. QED
  BY <1>2, <1>3

(* swap_slot_with_candidate with an address that pick_best_nonpeer_        *)
(* candidate may pick.                                                     *)
LEMMA ConnectReplaces ==
    ASSUME NEW s, Sound(s), NEW slot \in Slots, NEW c \in Picks(s),
           NEW t \in Connect(s, slot, c)
    PROVE  Replaced(s, t, slot)
<1>. DEFINE old == s.slots[slot]
<1>1. /\ s.slots \in [Slots -> Ids \cup {Null}]
      /\ s.heap \in [Ids -> Peer \cup {Free}]
      /\ s = [slots |-> s.slots, heap |-> s.heap]
  BY DEF Sound, States
<1>2. FreeIds(s.heap) # {}
  BY DEF Connect
<1>3. PICK id \in FreeIds(s.heap), socket \in {"connecting", "silent"} :
         t = [slots |-> [s.slots EXCEPT ![slot] = id],
              heap  |-> Release([s.heap EXCEPT ![id] = NewPeer(slot, c, socket)], old)]
  <2>. DEFINE new == CHOOSE free \in FreeIds(s.heap) : TRUE
  <2>1. new \in FreeIds(s.heap)
    BY <1>2
  <2>2. \E socket \in {"connecting", "silent"} :
           t = [slots |-> [s.slots EXCEPT ![slot] = new],
                heap  |-> Release([s.heap EXCEPT ![new] = NewPeer(slot, c, socket)], old)]
    BY <1>2 DEF Connect
  <2>. HIDE DEF new
  <2>. QED
    BY <2>1, <2>2
<1>. DEFINE new == NewPeer(slot, c, socket)
            h   == [s.heap EXCEPT ![id] = new]
<1>4. id \in Ids /\ s.heap[id] = Free /\ id # Null
  BY PeersAssumption DEF FreeIds
<1>5. c \in Candidates
  BY PeersAssumption DEF Picks
<1>6. /\ new \in Peer
      /\ new.slot = slot /\ new.candidacy = c /\ new.socket = socket
  BY <1>5 DEF NewPeer, Peer, Sockets, Ages
<1>7. Free \notin Peer /\ Free.socket = "none"
  BY DEF Free, Peer, Sockets
<1>. HIDE DEF new
<1>8. /\ h \in [Ids -> Peer \cup {Free}]
      /\ h[id] = new
      /\ \A other \in Ids : other # id => h[other] = s.heap[other]
  BY <1>1, <1>4, <1>6
<1>9. old \in Ids \cup {Null} /\ old # id
  BY <1>1, <1>4, <1>7 DEF Sound, SlotSound
<1>10. old # Null => old \in Ids /\ s.heap[old] \in Peer /\ h[old] = s.heap[old]
                     /\ s.heap[old].socket # "closing" /\ s.heap[old].slot = slot
  BY <1>8, <1>9 DEF Sound, SlotSound
<1>. HIDE DEF h, old
<1>11. /\ t.slots = [s.slots EXCEPT ![slot] = id]
       /\ t.heap = Release(h, old)
       /\ t = [slots |-> t.slots, heap |-> t.heap]
  BY <1>3 DEF h, new
<1>12. /\ t.heap \in [Ids -> Peer \cup {Free}]
       /\ t.heap[id] = new
       /\ \A other \in Ids \ {id, old} : t.heap[other] = s.heap[other]
       /\ old # Null =>
             /\ SamePeer(s.heap[old], t.heap[old])
             /\ t.heap[old].socket
                   = IF s.heap[old].socket = "closed" THEN "closed" ELSE "closing"
  <2>1. CASE old = Null
    BY <1>4, <1>8, <1>11, <2>1 DEF Release
  <2>2. CASE old # Null
    BY <1>4, <1>8, <1>9, <1>10, <1>11, <2>2, ReleaseIs
  <2>. QED
    BY <2>1, <2>2
<1>13. /\ t.slots \in [Slots -> Ids \cup {Null}]
       /\ t.slots[slot] = id
       /\ \A other \in Slots : other # slot => t.slots[other] = s.slots[other]
  BY <1>1, <1>4, <1>11
<1>14. \A other \in Slots : other # slot /\ s.slots[other] # Null =>
          /\ s.slots[other] \in Ids
          /\ s.slots[other] # id
          /\ s.slots[other] # old
          /\ t.heap[s.slots[other]] = s.heap[s.slots[other]]
  BY <1>1, <1>4, <1>7, <1>10, <1>12 DEF Sound, SlotSound
<1>15. t \in States
  BY <1>11, <1>12, <1>13 DEF States
<1>16. \A other \in Slots : SlotSound(t, other)
  <2>1. SlotSound(t, slot)
    BY <1>3, <1>6, <1>12, <1>13 DEF SlotSound
  <2>2. \A other \in Slots : other # slot => SlotSound(t, other)
    BY <1>13, <1>14 DEF SlotSound, Sound
  <2>. QED
    BY <2>1, <2>2
<1>17. Strayless(t)
  <2>. SUFFICES ASSUME NEW other \in Ids, t.heap[other].socket \in LiveSockets
                PROVE  \E sl \in Slots : t.slots[sl] = other
    BY DEF Strayless
  <2>1. CASE other = id
    BY <1>13, <2>1
  <2>2. CASE other # id
    <3>1. other # old
      <4>. SUFFICES ASSUME other = old PROVE FALSE
        OBVIOUS
      <4>1. old # Null
        BY PeersAssumption
      <4>. QED
        BY <1>12, <4>1 DEF LiveSockets
    <3>2. s.heap[other].socket \in LiveSockets
      BY <1>12, <2>2, <3>1
    <3>3. PICK sl \in Slots : s.slots[sl] = other
      BY <3>2 DEF Sound, Strayless
    <3>4. sl # slot
      BY <3>1, <3>3 DEF old
    <3>. QED
      BY <1>13, <3>3, <3>4
  <2>. QED
    BY <2>1, <2>2
<1>18. Distinct(t)
  <2>1. \A other \in Slots : other # slot /\ t.slots[other] # Null =>
           /\ t.heap[t.slots[other]] = s.heap[s.slots[other]]
           /\ t.heap[t.slots[other]].candidacy # c \/ c = First
    BY <1>13, <1>14 DEF Picks, IsPeer
  <2>2. t.heap[t.slots[slot]].candidacy = c
    BY <1>6, <1>12, <1>13
  <2>. QED
    BY <1>13, <2>1, <2>2 DEF Distinct, Sound
<1>19. ClosedPeers(t) = ClosedPeers(s)
  <2>1. ASSUME NEW other \in Ids
        PROVE  t.heap[other].socket = "closed" <=> s.heap[other].socket = "closed"
    <3>1. CASE other = id
      BY <1>3, <1>4, <1>6, <1>7, <1>12, <3>1
    <3>2. CASE other = old
      BY <1>12, <3>2, PeersAssumption
    <3>3. CASE other \notin {id, old}
      BY <1>12, <3>3
    <3>. QED
      BY <3>1, <3>2, <3>3
  <2>. QED
    BY <2>1 DEF ClosedPeers
<1>20. \A other \in Ids : s.heap[other] # Free =>
          /\ SamePeer(s.heap[other], t.heap[other])
          /\ other # s.slots[slot] => t.heap[other] = s.heap[other]
  <2>. SUFFICES ASSUME NEW other \in Ids, s.heap[other] # Free
                PROVE  /\ SamePeer(s.heap[other], t.heap[other])
                       /\ other # s.slots[slot] => t.heap[other] = s.heap[other]
    OBVIOUS
  <2>1. other # id /\ s.heap[other] \in Peer
    BY <1>1, <1>4
  <2>2. CASE other = old
    BY <1>12, <2>2, PeersAssumption DEF old
  <2>3. CASE other # old
    BY <1>12, <2>1, <2>3 DEF SamePeer
  <2>. QED
    BY <2>2, <2>3
<1>. QED
  BY <1>4, <1>13, <1>15, <1>16, <1>17, <1>18, <1>19, <1>20 DEF Sound, Replaced

(* replace_peer.                                                           *)
LEMMA ReplaceReplaces ==
    ASSUME NEW s, Sound(s), NEW slot \in Slots, NEW t \in Replace(s, slot)
    PROVE  Replaced(s, t, slot)
<1>1. PICK c \in Picks(s) : t \in Connect(s, slot, c)
  BY DEF Replace
<1>. QED
  BY <1>1, ConnectReplaces

-----------------------------------------------------------------------------
(* Handlers.  Kept is the relation between the state a handler finds and   *)
(* the states it passes through: nobody becomes closed or is forgotten.    *)

Kept(s, t) ==
    /\ Sound(t)
    /\ ClosedPeers(t) = ClosedPeers(s)
    /\ \A slot \in Slots : s.slots[slot] # Null => t.slots[slot] # Null
    /\ \A id \in Ids : s.heap[id] # Free => t.heap[id] \in Peer

LEMMA ReplacedIsKept ==
    ASSUME NEW s, NEW t, NEW slot \in Slots, Replaced(s, t, slot)
    PROVE  Kept(s, t)
BY PeersAssumption DEF Replaced, Kept, SamePeer

LEMMA KeptTransitive ==
    ASSUME NEW s, NEW t, NEW u, Kept(s, t), Kept(t, u)
    PROVE  Kept(s, u)
<1>1. Free \notin Peer
  BY DEF Free, Peer, Sockets
<1>. QED
  BY <1>1 DEF Kept

LEMMA KeptReflexive ==
    ASSUME NEW s, Sound(s)
    PROVE  Kept(s, s)
BY DEF Kept, Sound, States

(* check_peer and check_peer_life replace the peer of the slot they look   *)
(* at, and only for a reason of its own.                                   *)
LEMMA CheckSlotIs ==
    ASSUME NEW s, Sound(s), NEW slot \in Slots, s.slots[slot] # Null,
           NEW u \in CheckSlot(s, slot)
    PROVE  \/ u = s
           \/ /\ Kept(s, u)
              /\ \A other \in Slots : other # slot => u.slots[other] = s.slots[other]
              /\ \A id \in Ids : s.heap[id] # Free /\ id # s.slots[slot]
                                    => u.heap[id] = s.heap[id]
              /\ Blameable(s.heap[s.slots[slot]])
<1>. DEFINE id == s.slots[slot]
<1>1. id \in Ids /\ s.heap[id] \in Peer /\ s.heap[id].slot = slot /\ s.heap[id] # Free
  <2>1. s.slots[slot] \in Ids \cup {Null}
    BY DEF Sound, States
  <2>2. Free \notin Peer
    BY DEF Free, Peer, Sockets
  <2>. QED
    BY <2>1, <2>2 DEF Sound, SlotSound
<1>. HIDE DEF id
<1>2. PICK t \in CheckPeer(s, id) : u \in CheckPeerLife(t, id)
  BY DEF CheckSlot, id
<1>3. \/ t = s
      \/ Replaced(s, t, slot) /\ Blameable(s.heap[id])
  <2>1. t = s \/ (t \in Replace(s, slot) /\ Blameable(s.heap[id]))
    BY <1>1, <1>2 DEF CheckPeer, Blameable
  <2>. QED
    BY <2>1, ReplaceReplaces
<1>4. /\ Sound(t)
      /\ SamePeer(s.heap[id], t.heap[id])
  BY <1>1, <1>3 DEF Replaced, SamePeer
<1>5. \/ u = t
      \/ Replaced(t, u, slot) /\ Blameable(s.heap[id])
  <2>1. u = t \/ (u \in Replace(t, slot) /\ t.heap[id].age = 2)
    BY <1>1, <1>2, <1>4 DEF CheckPeerLife, SamePeer
  <2>2. CASE u \in Replace(t, slot) /\ t.heap[id].age = 2
    <3>1. Replaced(t, u, slot)
      BY <1>4, <2>2, ReplaceReplaces
    <3>2. Blameable(s.heap[id])
      BY <1>4, <2>2 DEF SamePeer, Blameable
    <3>. QED
      BY <3>1, <3>2
  <2>. QED
    BY <2>1, <2>2
<1>6. CASE Replaced(s, t, slot) /\ u = t
  BY <1>3, <1>6, ReplacedIsKept DEF Replaced, id
<1>7. CASE t = s /\ Replaced(t, u, slot)
  BY <1>5, <1>7, ReplacedIsKept DEF Replaced, id
<1>8. CASE Replaced(s, t, slot) /\ Replaced(t, u, slot)
  <2>1. Kept(s, u)
    BY <1>8, ReplacedIsKept, KeptTransitive
  <2>2. \A other \in Slots : other # slot => u.slots[other] = s.slots[other]
    BY <1>8 DEF Replaced
  <2>3. ASSUME NEW other \in Ids, s.heap[other] # Free, other # id
        PROVE  u.heap[other] = s.heap[other]
    <3>1. t.heap[other] = s.heap[other]
      BY <1>8, <2>3 DEF Replaced, id
    <3>2. other # t.slots[slot]
      BY <1>8, <2>3 DEF Replaced
    <3>. QED
      BY <1>8, <2>3, <3>1, <3>2 DEF Replaced
  <2>. QED
    BY <1>3, <1>5, <2>1, <2>2, <2>3 DEF id
<1>. QED
  BY <1>3, <1>5, <1>6, <1>7, <1>8

(* on_handshake_success and the messages before it: only the slot of the   *)
(* peer that speaks changes.                                               *)
LEMMA HandleMessageIs ==
    ASSUME NEW s, Sound(s), NEW id \in Ids, s.heap[id] \in Peer, NEW m \in Messages,
           NEW u \in HandleIncomingMessage(s, id, m)
    PROVE  /\ Kept(s, u)
           /\ u.heap[id].slot = s.heap[id].slot
           /\ \A other \in Slots : other # s.heap[id].slot => u.slots[other] = s.slots[other]
<1>. DEFINE heard ==
              CASE m = "verack"    -> [s EXCEPT !.heap[id].acceptUs = TRUE]
                [] m = "version"   -> [s EXCEPT !.heap[id].acceptThem = TRUE]
                [] m = "last pong" -> [s EXCEPT !.heap[id].latencyTested = TRUE]
<1>1. /\ s.slots \in [Slots -> Ids \cup {Null}]
      /\ s.heap \in [Ids -> Peer \cup {Free}]
      /\ s = [slots |-> s.slots, heap |-> s.heap]
  BY DEF Sound, States
<1>2. PICK p \in Peer :
        /\ heard = [slots |-> s.slots, heap |-> [s.heap EXCEPT ![id] = p]]
        /\ p.slot = s.heap[id].slot
        /\ p.candidacy = s.heap[id].candidacy
        /\ p.socket = s.heap[id].socket
  <2>1. CASE m = "verack"
    <3>. DEFINE p == [s.heap[id] EXCEPT !.acceptUs = TRUE]
    <3>1. p \in Peer
      BY DEF Peer
    <3>2. heard = [slots |-> s.slots, heap |-> [s.heap EXCEPT ![id] = p]]
      BY <1>1, <2>1
    <3>. QED
      BY <3>1, <3>2 DEF Peer
  <2>2. CASE m = "version"
    <3>. DEFINE p == [s.heap[id] EXCEPT !.acceptThem = TRUE]
    <3>1. p \in Peer
      BY DEF Peer
    <3>2. heard = [slots |-> s.slots, heap |-> [s.heap EXCEPT ![id] = p]]
      BY <1>1, <2>2
    <3>. QED
      BY <3>1, <3>2 DEF Peer
  <2>3. CASE m = "last pong"
    <3>. DEFINE p == [s.heap[id] EXCEPT !.latencyTested = TRUE]
    <3>1. p \in Peer
      BY DEF Peer
    <3>2. heard = [slots |-> s.slots, heap |-> [s.heap EXCEPT ![id] = p]]
      BY <1>1, <2>3
    <3>. QED
      BY <3>1, <3>2 DEF Peer
  <2>. QED
    BY <2>1, <2>2, <2>3 DEF Messages
<1>3. u = heard \/ u \in Replace(heard, heard.heap[id].slot)
  BY DEF HandleIncomingMessage, OnHandshakeSuccess
<1>. HIDE DEF heard
<1>4. /\ heard.slots = s.slots
      /\ heard.heap \in [Ids -> Peer \cup {Free}]
      /\ heard.heap[id] = p
      /\ \A other \in Ids : other # id => heard.heap[other] = s.heap[other]
      /\ heard \in States
  BY <1>1, <1>2 DEF States
<1>5. Free \notin Peer
  BY DEF Free, Peer, Sockets
<1>6. \A other \in Ids : /\ heard.heap[other].socket = s.heap[other].socket
                         /\ heard.heap[other] \in Peer <=> s.heap[other] \in Peer
                         /\ s.heap[other] \in Peer =>
                               /\ heard.heap[other].slot = s.heap[other].slot
                               /\ heard.heap[other].candidacy = s.heap[other].candidacy
  BY <1>2, <1>4
<1>8. Sound(heard)
  BY <1>2, ChangeSound
<1>9. Kept(s, heard)
  <2>1. ClosedPeers(heard) = ClosedPeers(s)
    BY <1>6 DEF ClosedPeers
  <2>. QED
    BY <1>1, <1>4, <1>6, <1>8, <2>1 DEF Kept
<1>10. p.slot \in Slots
  BY DEF Peer
<1>11. CASE u = heard
  BY <1>2, <1>4, <1>9, <1>11
<1>12. CASE u \in Replace(heard, p.slot)
  <2>1. Replaced(heard, u, p.slot)
    BY <1>8, <1>10, <1>12, ReplaceReplaces
  <2>2. Kept(s, u)
    BY <1>9, <1>10, <2>1, ReplacedIsKept, KeptTransitive
  <2>. QED
    BY <1>2, <1>4, <1>5, <2>1, <2>2 DEF Replaced, SamePeer
<1>. QED
  BY <1>3, <1>4, <1>11, <1>12

-----------------------------------------------------------------------------
(* The loops.                                                              *)

(* A segment of messages of one peer.                                      *)
LEMMA SegmentIs ==
    ASSUME NEW s0, Sound(s0), NEW id \in Ids, s0.heap[id] \in Peer,
           NEW n \in Nat, NEW messages \in [1 .. n -> Said(id)],
           NEW s \in FoldLeft(HandleNext, {s0}, messages)
    PROVE  /\ Kept(s0, s)
           /\ \A slot \in Slots : slot # s0.heap[id].slot => s.slots[slot] = s0.slots[slot]
<1>. DEFINE Good(t) == /\ Kept(s0, t)
                       /\ t.heap[id].slot = s0.heap[id].slot
                       /\ \A slot \in Slots : slot # s0.heap[id].slot
                                                 => t.slots[slot] = s0.slots[slot]
            Goods == {t \in States : Good(t)}
            I == [k \in 0 .. n |-> SUBSET Goods]
<1>1. Free \notin Peer
  BY DEF Free, Peer, Sockets
<1>2. {s0} \in I[0]
  BY KeptReflexive DEF Sound
<1>3. ASSUME NEW k \in 1 .. n, NEW S \in I[k - 1]
      PROVE  HandleNext(S, messages[k]) \in I[k]
  <2>1. I[k] = SUBSET Goods /\ I[k - 1] = SUBSET Goods
    OBVIOUS
  <2>. HIDE DEF I
  <2>2. messages[k].by = id /\ messages[k].message \in Messages
    BY DEF Said
  <2>3. ASSUME NEW t \in S, NEW u \in HandleIncomingMessage(t, id, messages[k].message)
        PROVE  u \in Goods
    <3>1. Good(t) /\ Sound(t) /\ t.heap[id] \in Peer
      BY <1>1, <1>3, <2>1 DEF Kept
    <3>2. /\ Kept(t, u)
          /\ u.heap[id].slot = t.heap[id].slot
          /\ \A other \in Slots : other # t.heap[id].slot
                                     => u.slots[other] = t.slots[other]
      <4>. HIDE DEF Good
      <4>. QED
        BY <2>2, <3>1, HandleMessageIs
    <3>. QED
      BY <3>1, <3>2, KeptTransitive DEF Kept, Sound
  <2>. HIDE DEF Goods
  <2>4. HandleNext(S, messages[k]) \subseteq Goods
    BY <2>2, <2>3 DEF HandleNext
  <2>. QED
    BY <2>1, <2>4
<1>4. FoldLeft(HandleNext, {s0}, messages) \in I[n]
  <2>. HIDE DEF I
  <2>1. \A k \in 1 .. n : \A S \in I[k - 1] : HandleNext(S, messages[k]) \in I[k]
    BY <1>3
  <2>2. HandleFold!FoldLeft(HandleNext, {s0}, messages) \in I[n]
    BY <1>2, <2>1, HandleFold!FoldLeftInduction
  <2>. QED
    BY <2>2, SameFolds
<1>5. s \in Goods
  <2>1. I[n] = SUBSET Goods
    OBVIOUS
  <2>. HIDE DEF I, Goods
  <2>. QED
    BY <1>4, <2>1
<1>. QED
  BY <1>5

(* check_peers_connectivity: when the loop comes to a slot, nothing has    *)
(* happened to it yet, whatever happened to the slots before.              *)
LEMMA CheckLoopIs ==
    ASSUME NEW s0, Sound(s0), \A slot \in Slots : s0.slots[slot] # Null,
           NEW s \in FoldLeft(CheckNext, {s0}, SlotOrder)
    PROVE  /\ Kept(s0, s)
           /\ \A slot \in Slots : s.slots[slot] # s0.slots[slot]
                                     => Blameable(s0.heap[s0.slots[slot]])
<1>. DEFINE Untouched(t, slot) ==
                /\ t.slots[slot] = s0.slots[slot]
                /\ t.heap[s0.slots[slot]] = s0.heap[s0.slots[slot]]
            Changed(t, slot) ==
                t.slots[slot] # s0.slots[slot] => Blameable(s0.heap[s0.slots[slot]])
            Good(t, k) == /\ Kept(s0, t)
                          /\ \A slot \in Slots : IF slot > k THEN Untouched(t, slot)
                                                 ELSE Changed(t, slot)
            I == [k \in 0 .. SlotCount |-> SUBSET {t \in States : Good(t, k)}]
<1>1. SlotCount \in Nat /\ Slots = 1 .. SlotCount /\ DOMAIN SlotOrder = 1 .. SlotCount
  BY PeersAssumption DEF Slots, SlotOrder
<1>2. \A slot \in Slots : s0.slots[slot] \in Ids /\ s0.heap[s0.slots[slot]] \in Peer
                          /\ s0.heap[s0.slots[slot]].slot = slot
  BY DEF Sound, States, SlotSound
<1>3. Free \notin Peer
  BY DEF Free, Peer, Sockets
<1>4. {s0} \in I[0]
  BY <1>1, KeptReflexive DEF Sound
<1>5. ASSUME NEW k \in 1 .. SlotCount, NEW S \in I[k - 1]
      PROVE  CheckNext(S, SlotOrder[k]) \in I[k]
  <2>1. /\ I[k] = SUBSET {t \in States : Good(t, k)}
        /\ I[k - 1] = SUBSET {t \in States : Good(t, k - 1)}
        /\ k \in Slots /\ SlotOrder[k] = k
    BY <1>1 DEF SlotOrder
  <2>. HIDE DEF I
  <2>. DEFINE Goods == {t \in States : Good(t, k)}
  <2>2. ASSUME NEW t \in S, NEW u \in CheckSlot(t, k)
        PROVE  u \in Goods
    <3>1. Good(t, k - 1)
      BY <2>1
    <3>2. Sound(t) /\ Kept(s0, t) /\ Untouched(t, k) /\ t.slots[k] # Null
      BY <1>1, <2>1, <3>1 DEF Kept
    <3>3. CASE u = t
      BY <1>1, <2>1, <3>1, <3>2, <3>3 DEF Sound, States
    <3>4. CASE /\ Kept(t, u)
               /\ \A other \in Slots : other # k => u.slots[other] = t.slots[other]
               /\ \A id \in Ids : t.heap[id] # Free /\ id # t.slots[k]
                                     => u.heap[id] = t.heap[id]
               /\ Blameable(t.heap[t.slots[k]])
      <4>1. Kept(s0, u) /\ u \in States
        BY <3>2, <3>4, KeptTransitive DEF Kept, Sound
      <4>2. ASSUME NEW slot \in Slots, slot > k
            PROVE  Untouched(u, slot)
        <5>1. Untouched(t, slot)
          BY <1>1, <2>1, <3>1, <4>2
        <5>2. s0.slots[slot] # s0.slots[k]
          BY <1>1, <1>2, <2>1, <4>2
        <5>3. t.slots[slot] = s0.slots[slot] /\ t.slots[k] = s0.slots[k]
          BY <3>2, <5>1
        <5>4. u.slots[slot] = s0.slots[slot]
          BY <2>1, <3>4, <4>2, <5>3
        <5>5. s0.slots[slot] \in Ids /\ t.heap[s0.slots[slot]] \in Peer
          BY <1>2, <5>1
        <5>6. u.heap[s0.slots[slot]] = t.heap[s0.slots[slot]]
          BY <1>3, <3>4, <5>2, <5>3, <5>5
        <5>. QED
          BY <5>1, <5>4, <5>6
      <4>3. ASSUME NEW slot \in Slots, slot <= k
            PROVE  Changed(u, slot)
        <5>1. CASE slot = k
          BY <3>2, <3>4, <5>1
        <5>2. CASE slot # k
          BY <1>1, <2>1, <3>1, <3>4, <4>3, <5>2
        <5>. QED
          BY <5>1, <5>2
      <4>. QED
        BY <1>1, <4>1, <4>2, <4>3
    <3>. QED
      BY <2>1, <3>2, <3>3, <3>4, CheckSlotIs
  <2>3. SlotOrder[k] = k
    BY <2>1
  <2>. HIDE DEF Goods
  <2>4. CheckNext(S, SlotOrder[k]) \subseteq Goods
    BY <2>2, <2>3 DEF CheckNext
  <2>. QED
    BY <2>1, <2>4 DEF Goods
<1>6. FoldLeft(CheckNext, {s0}, SlotOrder) \in I[SlotCount]
  <2>. HIDE DEF I
  <2>1. \A k \in 1 .. SlotCount : \A S \in I[k - 1] : CheckNext(S, SlotOrder[k]) \in I[k]
    BY <1>5
  <2>2. CheckFold!FoldLeft(CheckNext, {s0}, SlotOrder) \in I[SlotCount]
    BY <1>1, <1>4, <2>1, CheckFold!FoldLeftInduction
  <2>. QED
    BY <2>2, SameFolds
<1>7. Good(s, SlotCount)
  <2>. DEFINE Goods == {t \in States : Good(t, SlotCount)}
  <2>1. I[SlotCount] = SUBSET Goods
    BY <1>1
  <2>2. s \in Goods
    <3>. HIDE DEF I, Goods
    <3>. QED
      BY <1>6, <2>1
  <2>. HIDE DEF Good
  <2>. QED
    BY <2>2
<1>. QED
  BY <1>1, <1>7

(* connect_to_initial_peers.                                               *)
LEMMA InitialStatesAre ==
    ASSUME NEW s \in InitialStates
    PROVE  Sound(s) /\ ClosedPeers(s) = {} /\ \A slot \in Slots : s.slots[slot] # Null
<1>. DEFINE s0 == [slots |-> [slot \in Slots |-> Null], heap |-> [id \in Ids |-> Free]]
            Good(t, k) == /\ Sound(t)
                          /\ ClosedPeers(t) = {}
                          /\ \A slot \in Slots : slot <= k => t.slots[slot] # Null
            I == [k \in 0 .. SlotCount |-> SUBSET {t \in States : Good(t, k)}]
<1>1. SlotCount \in Nat /\ Slots = 1 .. SlotCount /\ DOMAIN SlotOrder = 1 .. SlotCount
  BY PeersAssumption DEF Slots, SlotOrder
<1>2. Sound(s0) /\ ClosedPeers(s0) = {}
  BY DEF Sound, States, SlotSound, Strayless, Distinct, LiveSockets, ClosedPeers, Free
<1>3. {s0} \in I[0]
  BY <1>1, <1>2 DEF Sound
<1>4. ASSUME NEW k \in 1 .. SlotCount, NEW S \in I[k - 1]
      PROVE  FillNext(S, SlotOrder[k]) \in I[k]
  <2>1. /\ I[k] = SUBSET {t \in States : Good(t, k)}
        /\ I[k - 1] = SUBSET {t \in States : Good(t, k - 1)}
    BY <1>1
  <2>. HIDE DEF I
  <2>2. k \in Slots /\ SlotOrder[k] = k
    BY <1>1 DEF SlotOrder
  <2>. DEFINE Goods == {t \in States : Good(t, k)}
  <2>3. ASSUME NEW t \in S, NEW u \in Replace(t, k)
        PROVE  u \in Goods
    <3>1. Good(t, k - 1)
      BY <2>1
    <3>2. Replaced(t, u, k)
      BY <2>2, <3>1, ReplaceReplaces
    <3>. QED
      BY <1>1, <2>2, <3>1, <3>2, PeersAssumption DEF Replaced, Sound
  <2>. HIDE DEF Goods
  <2>4. FillNext(S, SlotOrder[k]) \subseteq Goods
    BY <2>2, <2>3 DEF FillNext
  <2>. QED
    BY <2>1, <2>4 DEF Goods
<1>5. InitialStates \in I[SlotCount]
  <2>1. InitialStates = FoldLeft(FillNext, {s0}, SlotOrder)
    BY DEF InitialStates
  <2>. HIDE DEF I, s0
  <2>2. \A k \in 1 .. SlotCount : \A S \in I[k - 1] : FillNext(S, SlotOrder[k]) \in I[k]
    BY <1>4
  <2>3. FillFold!FoldLeft(FillNext, {s0}, SlotOrder) \in I[SlotCount]
    BY <1>1, <1>3, <2>2, FillFold!FoldLeftInduction
  <2>. QED
    BY <2>1, <2>3, SameFolds
<1>. QED
  BY <1>1, <1>5

(* terminate_peers.                                                        *)
LEMMA TerminatePeersIs ==
    ASSUME NEW s, Sound(s)
    PROVE  /\ Sound(TerminatePeers(s))
           /\ ClosedPeers(TerminatePeers(s)) = ClosedPeers(s)
           /\ TerminatePeers(s).slots = [slot \in Slots |-> Null]
<1>. DEFINE Heaps == [Ids -> Peer \cup {Free}]
            Good(h, k) ==
                /\ \A id \in Ids :
                      \/ h[id] = s.heap[id]
                      \/ h[id] \in Peer /\ h[id].socket = "closing"
                         /\ s.heap[id].socket # "closed"
                /\ \A slot \in Slots : slot <= k /\ s.slots[slot] # Null =>
                      h[s.slots[slot]].socket \notin LiveSockets
            I == [k \in 0 .. SlotCount |-> {h \in Heaps : Good(h, k)}]
            last == FoldLeft(Release, s.heap, s.slots)
<1>1. /\ SlotCount \in Nat /\ Slots = 1 .. SlotCount /\ Null \notin Ids
      /\ s.slots \in [Slots -> Ids \cup {Null}]
      /\ s.heap \in Heaps
      /\ DOMAIN s.slots = 1 .. SlotCount
      /\ Free \notin Peer
  BY PeersAssumption DEF Slots, Sound, States, Free, Peer, Sockets
<1>2. s.heap \in I[0]
  BY <1>1
<1>3. ASSUME NEW k \in 1 .. SlotCount, NEW h \in I[k - 1]
      PROVE  Release(h, s.slots[k]) \in I[k]
  <2>1. h \in Heaps /\ Good(h, k - 1) /\ k \in Slots
    BY <1>1
  <2>. DEFINE id == s.slots[k]
              g == Release(h, id)
  <2>2. CASE id = Null
    <3>1. g = h
      BY <2>2 DEF Release
    <3>2. Good(h, k)
      BY <1>1, <2>1, <2>2
    <3>. QED
      BY <1>1, <2>1, <3>1, <3>2
  <2>3. CASE id # Null
    <3>1. id \in Ids /\ h[id] \in Peer
      BY <1>1, <2>1, <2>3 DEF Sound, SlotSound
    <3>. HIDE DEF id, Good
    <3>2. /\ g \in Heaps
          /\ \A other \in Ids : other # id => g[other] = h[other]
          /\ g[id] \in Peer
          /\ g[id].socket = IF h[id].socket = "closed" THEN "closed" ELSE "closing"
      BY <2>1, <3>1, ReleaseIs DEF SamePeer
    <3>3. h[id].socket = "closed" => g[id] = h[id]
      BY <2>3, <3>1 DEF Release
    <3>. HIDE DEF g
    <3>4. ASSUME NEW other \in Ids
          PROVE  \/ g[other] = s.heap[other]
                 \/ g[other] \in Peer /\ g[other].socket = "closing"
                    /\ s.heap[other].socket # "closed"
      BY <2>1, <3>2, <3>3 DEF Good
    <3>5. ASSUME NEW slot \in Slots, slot <= k, s.slots[slot] # Null
          PROVE  g[s.slots[slot]].socket \notin LiveSockets
      <4>1. CASE s.slots[slot] = id
        BY <3>2, <4>1 DEF LiveSockets
      <4>2. CASE s.slots[slot] # id
        <5>1. slot <= k - 1
          BY <1>1, <3>5, <4>2 DEF id
        <5>2. h[s.slots[slot]].socket \notin LiveSockets
          BY <2>1, <3>5, <5>1 DEF Good
        <5>. QED
          BY <1>1, <3>2, <3>5, <4>2, <5>2
      <4>. QED
        BY <4>1, <4>2
    <3>6. g \in Heaps /\ Good(g, k)
      BY <3>2, <3>4, <3>5 DEF Good
    <3>. QED
      BY <1>1, <3>6 DEF g, id
  <2>. QED
    BY <2>2, <2>3
<1>4. last \in I[SlotCount]
  <2>. HIDE DEF I
  <2>1. \A k \in 1 .. SlotCount : \A h \in I[k - 1] : Release(h, s.slots[k]) \in I[k]
    BY <1>3
  <2>2. ReleaseFold!FoldLeft(Release, s.heap, s.slots) \in I[SlotCount]
    BY <1>1, <1>2, <2>1, ReleaseFold!FoldLeftInduction
  <2>. QED
    BY <2>2, SameFolds
<1>5. last \in Heaps /\ Good(last, SlotCount)
  BY <1>1, <1>4
<1>. HIDE DEF last
<1>. DEFINE t == TerminatePeers(s)
<1>6. /\ t.slots = [slot \in Slots |-> Null]
      /\ t.heap = last
      /\ t \in States
  BY <1>5 DEF TerminatePeers, States, last
<1>. HIDE DEF t
<1>7. ASSUME NEW id \in Ids
      PROVE  last[id].socket \notin LiveSockets
  <2>1. CASE last[id] = s.heap[id] /\ s.heap[id].socket \in LiveSockets
    <3>1. PICK slot \in Slots : s.slots[slot] = id
      BY <2>1 DEF Sound, Strayless
    <3>. QED
      BY <1>1, <1>5, <3>1
  <2>2. CASE last[id].socket = "closing"
    BY <2>2 DEF LiveSockets
  <2>. QED
    BY <1>5, <2>1, <2>2
<1>8. Sound(t)
  BY <1>6, <1>7 DEF Sound, SlotSound, Strayless, Distinct
<1>9. ClosedPeers(t) = ClosedPeers(s)
  <2>1. \A id \in Ids : last[id].socket = "closed" <=> s.heap[id].socket = "closed"
    BY <1>5
  <2>. QED
    BY <1>6, <2>1 DEF ClosedPeers
<1>. QED
  BY <1>6, <1>8, <1>9 DEF t

-----------------------------------------------------------------------------
(* The invariant.                                                          *)

Running == phase \in {"running", "asked"}

(* No slot is empty before termination, and none is in use afterwards.     *)
SlotsFilled ==
    \A slot \in Slots : IF Running THEN slots[slot] # Null ELSE slots[slot] = Null

ClosedAreReadErrors ==
    /\ IsFiniteSet(ClosedPeers(State))
    /\ Cardinality(ClosedPeers(State)) <= readErrors

PInv ==
    /\ Sound(State)
    /\ phase \in {"running", "asked", "terminating", "stopped"}
    /\ readErrors \in 0 .. MaxReadErrors
    /\ checked \in BOOLEAN
    /\ SlotsFilled
    /\ ClosedAreReadErrors

(* At the end of a handler a Peer on its way out is forgotten, but for its *)
(* slot and its socket; one that stays keeps its address too.              *)
LEMMA BecomeIs ==
    ASSUME NEW s, Sound(s), Become(s)
    PROVE  /\ Sound(State')
           /\ slots' = s.slots
           /\ ClosedPeers(State') = ClosedPeers(s)
<1>1. /\ s.slots \in [Slots -> Ids \cup {Null}]
      /\ s.heap \in [Ids -> Peer \cup {Free}]
      /\ Free \notin Peer /\ Free.socket = "none"
      /\ 1 \in Slots /\ First \in Candidates
  BY PeersAssumption DEF Sound, States, Free, Peer, Sockets, Slots
<1>2. slots' = s.slots /\ heap' = [id \in Ids |-> Forget(s, id)]
  BY DEF Become
<1>3. ASSUME NEW id \in Ids
      PROVE  /\ Forget(s, id) \in Peer \cup {Free}
             /\ Forget(s, id).socket = s.heap[id].socket
             /\ (s.heap[id].socket # "closing" /\ \E slot \in Slots : s.slots[slot] = id)
                   => /\ Forget(s, id) \in Peer <=> s.heap[id] \in Peer
                      /\ s.heap[id] \in Peer =>
                            /\ Forget(s, id).slot = s.heap[id].slot
                            /\ Forget(s, id).candidacy = s.heap[id].candidacy
  <2>1. CASE s.heap[id].socket = "closing"
    <3>1. s.heap[id] \in Peer
      BY <1>1, <2>1
    <3>2. Forget(s, id) = NewPeer(s.heap[id].slot, First, "closing")
      BY <2>1 DEF Forget
    <3>. QED
      BY <1>1, <2>1, <3>1, <3>2 DEF NewPeer, Peer, Ages, Sockets
  <2>2. CASE s.heap[id].socket = "closed" /\ \A slot \in Slots : s.slots[slot] # id
    <3>1. Forget(s, id) = NewPeer(1, First, "closed")
      BY <2>2 DEF Forget
    <3>. QED
      BY <1>1, <2>2, <3>1 DEF NewPeer, Peer, Ages, Sockets
  <2>3. CASE /\ s.heap[id].socket # "closing"
             /\ ~ (s.heap[id].socket = "closed" /\ \A slot \in Slots : s.slots[slot] # id)
    <3>1. CASE s.heap[id] # Free /\ (s.heap[id].age > 0 \/ HandShaken(s.heap[id]))
      <4>1. Forget(s, id) = [s.heap[id] EXCEPT !.latencyTested = FALSE]
        BY <2>3, <3>1 DEF Forget
      <4>2. s.heap[id] \in Peer
        BY <1>1, <3>1
      <4>. QED
        BY <4>1, <4>2 DEF Peer
    <3>2. CASE ~ (s.heap[id] # Free /\ (s.heap[id].age > 0 \/ HandShaken(s.heap[id])))
      <4>1. Forget(s, id) = s.heap[id]
        BY <2>3, <3>2 DEF Forget
      <4>. QED
        BY <1>1, <4>1
    <3>. QED
      BY <3>1, <3>2
  <2>. QED
    BY <2>1, <2>2, <2>3
<1>4. /\ heap' \in [Ids -> Peer \cup {Free}]
      /\ \A id \in Ids : heap'[id].socket = s.heap[id].socket
      /\ State' = [slots |-> slots', heap |-> heap']
  BY <1>2, <1>3 DEF State
<1>5. ASSUME NEW slot \in Slots, s.slots[slot] # Null
      PROVE  /\ s.slots[slot] \in Ids
             /\ heap'[s.slots[slot]] \in Peer
             /\ heap'[s.slots[slot]].slot = s.heap[s.slots[slot]].slot
             /\ heap'[s.slots[slot]].candidacy = s.heap[s.slots[slot]].candidacy
  BY <1>1, <1>2, <1>3, <1>5 DEF Sound, SlotSound
<1>6. State' \in States
  BY <1>1, <1>2, <1>4 DEF States
<1>7. \A slot \in Slots : SlotSound(State', slot)
  BY <1>2, <1>4, <1>5 DEF Sound, SlotSound
<1>8. Strayless(State')
  BY <1>2, <1>4 DEF Sound, Strayless
<1>9. Distinct(State')
  BY <1>2, <1>4, <1>5 DEF Sound, Distinct
<1>10. ClosedPeers(State') = ClosedPeers(s)
  BY <1>4 DEF ClosedPeers
<1>. QED
  BY <1>2, <1>6, <1>7, <1>8, <1>9, <1>10 DEF Sound

(* The invariant says what the properties say.                             *)
LEMMA PeersProperties ==
    PInv => /\ SlotsPointToLivePeers
            /\ NoStrayConnections
            /\ LeaksAreReadErrors
            /\ NoDuplicatePeers
<1>. SUFFICES ASSUME PInv
              PROVE  /\ SlotsPointToLivePeers
                     /\ NoStrayConnections
                     /\ LeaksAreReadErrors
                     /\ NoDuplicatePeers
  OBVIOUS
<1>1. /\ State.slots = slots /\ State.heap = heap
      /\ slots \in [Slots -> Ids \cup {Null}]
      /\ heap \in [Ids -> Peer \cup {Free}]
      /\ Free \notin Peer /\ Free.socket = "none"
  BY DEF PInv, Sound, State, States, Free, Peer, Sockets
<1>2. TypeOK
  BY <1>1 DEF PInv, TypeOK
<1>3. SlotsPointToLivePeers
  BY <1>1, <1>2 DEF PInv, SlotsPointToLivePeers, SlotsFilled, Running, Sound, SlotSound
<1>4. NoStrayConnections
  BY <1>1 DEF PInv, NoStrayConnections, Sound, Strayless, LiveSockets, InSlot
<1>5. LeaksAreReadErrors
  <2>. DEFINE Leaks == {id \in Ids : heap[id] # Free /\ ~ InSlot(id)
                                       /\ heap[id].socket # "closing"}
  <2>1. ASSUME NEW id \in Leaks
        PROVE  heap[id].socket = "closed"
    <3>1. heap[id] \in Peer
      BY <1>1
    <3>2. heap[id].socket \in Sockets /\ heap[id].socket \notin LiveSockets
      BY <1>4, <3>1 DEF NoStrayConnections, LiveSockets, Peer
    <3>. QED
      BY <3>2 DEF Sockets, LiveSockets
  <2>2. Leaks \subseteq ClosedPeers(State)
    BY <1>1, <2>1 DEF ClosedPeers
  <2>. HIDE DEF Leaks
  <2>3. Cardinality(Leaks) <= Cardinality(ClosedPeers(State))
    BY <2>2, FS_Subset DEF PInv, ClosedAreReadErrors
  <2>4. Cardinality(Leaks) \in Nat /\ Cardinality(ClosedPeers(State)) \in Nat
    BY <2>2, FS_Subset, FS_CardinalityType DEF PInv, ClosedAreReadErrors
  <2>. QED
    BY <2>3, <2>4, PeersAssumption DEF PInv, ClosedAreReadErrors, LeaksAreReadErrors, Leaks
<1>6. NoDuplicatePeers
  BY <1>1 DEF PInv, NoDuplicatePeers, Sound, Distinct
<1>. QED
  BY <1>3, <1>4, <1>5, <1>6

(* The slots are filled before anything else happens.                      *)
LEMMA PeersInit == Init => PInv
<1>. SUFFICES ASSUME Init PROVE PInv
  OBVIOUS
<1>1. PICK s \in InitialStates : slots = s.slots /\ heap = s.heap
  BY DEF Init
<1>2. Sound(s) /\ ClosedPeers(s) = {} /\ \A slot \in Slots : s.slots[slot] # Null
  BY InitialStatesAre
<1>3. s = State
  BY <1>1, <1>2 DEF Sound, States, State
<1>4. IsFiniteSet({}) /\ Cardinality({}) = 0
  BY FS_EmptySet
<1>5. ClosedAreReadErrors
  BY <1>2, <1>3, <1>4 DEF Init, ClosedAreReadErrors
<1>6. Sound(State) /\ SlotsFilled
  BY <1>1, <1>2, <1>3 DEF Init, SlotsFilled, Running
<1>7. readErrors \in 0 .. MaxReadErrors
  BY PeersAssumption DEF Init
<1>8. phase \in {"running", "asked", "terminating", "stopped"} /\ checked \in BOOLEAN
  BY DEF Init
<1>. QED
  BY <1>5, <1>6, <1>7, <1>8 DEF PInv

(* A step that counts no read error and does not change the phase.         *)
LEMMA StepKeeps ==
    ASSUME PInv, Sound(State'), ClosedPeers(State') = ClosedPeers(State),
           UNCHANGED <<phase, readErrors>>, checked' \in BOOLEAN,
           Running \/ slots' = slots,
           \A slot \in Slots : slots[slot] # Null => slots'[slot] # Null
    PROVE  PInv'
<1>1. SlotsFilled'
  BY DEF PInv, SlotsFilled, Running
<1>2. ClosedAreReadErrors'
  BY DEF PInv, ClosedAreReadErrors
<1>3. Sound(State)'
  OBVIOUS
<1>. QED
  BY <1>1, <1>2, <1>3 DEF PInv

(* A socket that is not closing yet belongs to a slot; so the node runs.   *)
LEMMA LiveIsRunning ==
    ASSUME PInv, NEW id \in Ids, heap[id].socket \in LiveSockets
    PROVE  /\ Running
           /\ heap[id] \in Peer
           /\ heap[id].slot \in Slots
           /\ slots[heap[id].slot] = id
<1>1. /\ State.slots = slots /\ State.heap = heap
      /\ slots \in [Slots -> Ids \cup {Null}]
      /\ heap \in [Ids -> Peer \cup {Free}]
  BY DEF PInv, Sound, State, States
<1>2. PICK slot \in Slots : slots[slot] = id
  BY <1>1 DEF PInv, Sound, Strayless
<1>3. id # Null
  BY PeersAssumption
<1>. QED
  BY <1>1, <1>2, <1>3 DEF PInv, SlotsFilled, Sound, SlotSound

(* A step in which one Peer changes, and neither its slot nor its address. *)
LEMMA PeerChanges ==
    ASSUME PInv, NEW id \in Ids, heap[id] \in Peer, NEW p \in Peer,
           p.slot = heap[id].slot, p.candidacy = heap[id].candidacy,
           p.socket = "closing" => heap[id].socket = "closing",
           p.socket \in LiveSockets => heap[id].socket \in LiveSockets,
           heap' = [heap EXCEPT ![id] = p], slots' = slots
    PROVE  /\ Sound(State')
           /\ (p.socket = "closed" <=> heap[id].socket = "closed")
                 => ClosedPeers(State') = ClosedPeers(State)
           /\ p.socket = "closed"
                 => ClosedPeers(State') = ClosedPeers(State) \cup {id}
<1>1. /\ State.slots = slots /\ State.heap = heap
      /\ heap \in [Ids -> Peer \cup {Free}]
      /\ State' = [slots |-> slots, heap |-> heap']
      /\ State'.heap = heap'
  BY DEF PInv, Sound, State, States
<1>2. Sound(State')
  <2>1. Sound(State)
    BY DEF PInv
  <2>2. Sound([slots |-> slots, heap |-> [heap EXCEPT ![id] = p]])
    <3>1. \A s : Sound(s) /\ s.heap = heap /\ s.slots = slots =>
             Sound([slots |-> slots, heap |-> [heap EXCEPT ![id] = p]])
      BY ChangeSound
    <3>. QED
      BY <1>1, <2>1, <3>1
  <2>. QED
    BY <1>1, <2>2
<1>3. \A other \in Ids : heap'[other] = IF other = id THEN p ELSE heap[other]
  BY <1>1
<1>. QED
  BY <1>1, <1>2, <1>3 DEF ClosedPeers

-----------------------------------------------------------------------------
(* The actions keep the invariant.                                         *)

LEMMA ConnectedKeeps ==
    ASSUME PInv, NEW id \in Ids, Connected(id)
    PROVE  PInv'
<1>1. PICK age \in {0, heap[id].age} :
         heap' = [heap EXCEPT ![id].socket = "open", ![id].age = age]
  BY DEF Connected
<1>2. Running /\ heap[id] \in Peer
  BY LiveIsRunning DEF Connected, LiveSockets
<1>. DEFINE p == [heap[id] EXCEPT !.socket = "open", !.age = age]
<1>3. /\ p \in Peer
      /\ p.slot = heap[id].slot /\ p.candidacy = heap[id].candidacy
      /\ p.socket = "open"
  <2>1. age \in Ages
    BY <1>2 DEF Peer, Ages
  <2>. QED
    BY <1>2, <2>1 DEF Peer, Sockets
<1>4. heap' = [heap EXCEPT ![id] = p]
  BY <1>1, <1>2
<1>. HIDE DEF p
<1>5. Sound(State') /\ ClosedPeers(State') = ClosedPeers(State)
  BY <1>2, <1>3, <1>4, PeerChanges DEF Connected, LiveSockets
<1>. QED
  BY <1>2, <1>5, StepKeeps DEF Connected, PInv

LEMMA ConnectFailedKeeps ==
    ASSUME PInv, NEW id \in Ids, ConnectFailed(id)
    PROVE  PInv' /\ slots' = slots
<1>1. heap[id].socket = "connecting"
  BY DEF ConnectFailed
<1>2. Running /\ heap[id] \in Peer
  BY <1>1, LiveIsRunning DEF LiveSockets
<1>. DEFINE p == [heap[id] EXCEPT !.socket = "silent"]
<1>3. PICK s : s = [slots |-> slots, heap |-> [heap EXCEPT ![id] = p]] /\ Become(s)
  BY <1>2 DEF ConnectFailed, CancelConnect, State
<1>4. /\ p \in Peer
      /\ p.slot = heap[id].slot /\ p.candidacy = heap[id].candidacy
      /\ p.socket = "silent"
  BY <1>2 DEF Peer, Sockets
<1>. HIDE DEF p
<1>5. /\ State.slots = slots /\ State.heap = heap /\ Sound(State)
      /\ heap \in [Ids -> Peer \cup {Free}]
  BY DEF PInv, Sound, State, States
<1>6. Sound(s)
  <2>1. \A t : Sound(t) /\ t.heap = heap /\ t.slots = slots =>
           Sound([slots |-> slots, heap |-> [heap EXCEPT ![id] = p]])
    BY <1>1, <1>2, <1>4, ChangeSound DEF LiveSockets
  <2>. QED
    BY <1>3, <1>5, <2>1
<1>7. ClosedPeers(s) = ClosedPeers(State)
  <2>1. \A other \in Ids : s.heap[other] = IF other = id THEN p ELSE heap[other]
    BY <1>3, <1>5
  <2>. QED
    BY <1>1, <1>4, <1>5, <2>1 DEF ClosedPeers
<1>8. /\ Sound(State') /\ slots' = slots
      /\ ClosedPeers(State') = ClosedPeers(State)
  BY <1>3, <1>6, <1>7, BecomeIs
<1>. QED
  BY <1>2, <1>8, StepKeeps DEF ConnectFailed, PInv

LEMMA ReadErrorKeeps ==
    ASSUME PInv, NEW id \in Ids, ReadError(id)
    PROVE  PInv'
<1>1. Running /\ heap[id] \in Peer
  BY LiveIsRunning DEF ReadError, LiveSockets
<1>. DEFINE p == [heap[id] EXCEPT !.socket = "closed"]
<1>2. /\ p \in Peer
      /\ p.slot = heap[id].slot /\ p.candidacy = heap[id].candidacy
      /\ p.socket = "closed"
  BY <1>1 DEF Peer, Sockets
<1>3. heap' = [heap EXCEPT ![id] = p]
  BY <1>1 DEF ReadError
<1>. HIDE DEF p
<1>4. Sound(State') /\ ClosedPeers(State') = ClosedPeers(State) \cup {id}
  BY <1>1, <1>2, <1>3, PeerChanges DEF ReadError, LiveSockets
<1>5. ClosedAreReadErrors'
  <2>1. /\ IsFiniteSet(ClosedPeers(State)) /\ Cardinality(ClosedPeers(State)) \in Nat
        /\ Cardinality(ClosedPeers(State)) <= readErrors /\ readErrors \in Nat
    BY FS_CardinalityType, PeersAssumption DEF PInv, ClosedAreReadErrors
  <2>2. /\ IsFiniteSet(ClosedPeers(State) \cup {id})
        /\ \/ Cardinality(ClosedPeers(State) \cup {id}) = Cardinality(ClosedPeers(State))
           \/ Cardinality(ClosedPeers(State) \cup {id}) = Cardinality(ClosedPeers(State)) + 1
    BY <2>1, FS_AddElement
  <2>3. Cardinality(ClosedPeers(State) \cup {id}) <= readErrors + 1
    BY <2>1, <2>2
  <2>. QED
    BY <1>4, <2>2, <2>3 DEF ReadError, ClosedAreReadErrors
<1>6. SlotsFilled'
  BY DEF PInv, SlotsFilled, Running, ReadError
<1>7. Sound(State)'
  BY <1>4
<1>8. readErrors' \in 0 .. MaxReadErrors
  BY PeersAssumption DEF PInv, ReadError
<1>. QED
  BY <1>5, <1>6, <1>7, <1>8 DEF PInv, ReadError

LEMMA EndOfStreamKeeps ==
    ASSUME PInv, NEW id \in Ids, EndOfStream(id)
    PROVE  PInv'
<1>1. Running /\ heap[id] \in Peer
  BY LiveIsRunning DEF EndOfStream, LiveSockets
<1>. DEFINE p == [heap[id] EXCEPT !.socket = "silent"]
<1>2. /\ p \in Peer
      /\ p.slot = heap[id].slot /\ p.candidacy = heap[id].candidacy
      /\ p.socket = "silent"
  BY <1>1 DEF Peer, Sockets
<1>3. heap' = [heap EXCEPT ![id] = p]
  BY <1>1 DEF EndOfStream
<1>. HIDE DEF p
<1>4. Sound(State') /\ ClosedPeers(State') = ClosedPeers(State)
  BY <1>1, <1>2, <1>3, PeerChanges DEF EndOfStream, LiveSockets
<1>. QED
  BY <1>1, <1>4, StepKeeps DEF EndOfStream, PInv

(* The memory that is given back is that of a Peer in no slot.             *)
LEMMA SocketClosedKeeps ==
    ASSUME PInv, NEW id \in Ids, SocketClosed(id)
    PROVE  PInv' /\ slots' = slots
<1>1. heap[id].socket = "closing"
  BY DEF SocketClosed
<1>2. PICK s : s = [slots |-> slots, heap |-> [heap EXCEPT ![id] = Free]] /\ Become(s)
  BY DEF SocketClosed, CancelConnect, State
<1>3. /\ State.slots = slots /\ State.heap = heap /\ Sound(State)
      /\ slots \in [Slots -> Ids \cup {Null}]
      /\ heap \in [Ids -> Peer \cup {Free}]
      /\ Free.socket = "none"
  BY DEF PInv, Sound, State, States, Free
<1>4. /\ s.slots = slots
      /\ s.heap \in [Ids -> Peer \cup {Free}]
      /\ \A other \in Ids : s.heap[other] = IF other = id THEN Free ELSE heap[other]
      /\ s \in States
  BY <1>2, <1>3 DEF States
<1>5. \A slot \in Slots : slots[slot] # Null =>
         slots[slot] \in Ids /\ slots[slot] # id
  BY <1>1, <1>3 DEF Sound, SlotSound
<1>6. \A slot \in Slots : SlotSound(s, slot)
  BY <1>3, <1>4, <1>5 DEF Sound, SlotSound
<1>7. Strayless(s)
  BY <1>3, <1>4 DEF Sound, Strayless, LiveSockets
<1>8. Distinct(s)
  BY <1>3, <1>4, <1>5 DEF Sound, Distinct
<1>9. ClosedPeers(s) = ClosedPeers(State)
  BY <1>1, <1>3, <1>4 DEF ClosedPeers
<1>10. Sound(s)
  BY <1>4, <1>6, <1>7, <1>8 DEF Sound
<1>11. /\ Sound(State') /\ slots' = slots
       /\ ClosedPeers(State') = ClosedPeers(State)
  BY <1>2, <1>4, <1>9, <1>10, BecomeIs
<1>. QED
  BY <1>11, StepKeeps DEF SocketClosed, PInv

LEMMA GrowKeeps ==
    ASSUME PInv, NEW id \in Ids, Grow(id)
    PROVE  PInv' /\ slots' = slots
<1>1. /\ slots \in [Slots -> Ids \cup {Null}]
      /\ heap \in [Ids -> Peer \cup {Free}]
      /\ State.slots = slots /\ State.heap = heap
  BY DEF PInv, Sound, State, States
<1>2. Running /\ heap[id] \in Peer
  BY <1>1, PeersAssumption DEF Grow, InSlot, PInv, SlotsFilled, Sound, SlotSound
<1>. DEFINE p == [heap[id] EXCEPT !.age = @ + 1]
<1>3. PICK s : s = [slots |-> slots, heap |-> [heap EXCEPT ![id] = p]] /\ Become(s)
  BY <1>2 DEF Grow, State
<1>4. /\ p \in Peer
      /\ p.slot = heap[id].slot /\ p.candidacy = heap[id].candidacy
      /\ p.socket = heap[id].socket
  BY <1>2 DEF Grow, Peer, Ages
<1>. HIDE DEF p
<1>5. Sound(s)
  <2>1. \A t : Sound(t) /\ t.heap = heap /\ t.slots = slots =>
           Sound([slots |-> slots, heap |-> [heap EXCEPT ![id] = p]])
    BY <1>2, <1>4, ChangeSound
  <2>. QED
    BY <1>1, <1>3, <2>1 DEF PInv
<1>6. ClosedPeers(s) = ClosedPeers(State)
  <2>1. \A other \in Ids : s.heap[other] = IF other = id THEN p ELSE heap[other]
    BY <1>1, <1>3
  <2>. QED
    BY <1>1, <1>4, <2>1 DEF ClosedPeers
<1>7. /\ Sound(State') /\ slots' = slots
      /\ ClosedPeers(State') = ClosedPeers(State)
  BY <1>3, <1>5, <1>6, BecomeIs
<1>. QED
  BY <1>2, <1>7, StepKeeps DEF Grow, PInv

(* A handler that went through sound states.                               *)
LEMMA HandlerKeeps ==
    ASSUME PInv, Running, NEW s, Kept(State, s), Become(s),
           UNCHANGED <<phase, readErrors>>, checked' \in BOOLEAN
    PROVE  PInv' /\ slots' = s.slots
<1>1. /\ Sound(s) /\ ClosedPeers(s) = ClosedPeers(State)
      /\ \A slot \in Slots : slots[slot] # Null => s.slots[slot] # Null
  BY DEF Kept, State
<1>2. /\ Sound(State') /\ slots' = s.slots
      /\ ClosedPeers(State') = ClosedPeers(State)
  BY <1>1, BecomeIs
<1>. QED
  BY <1>1, <1>2, StepKeeps

(* The rest of a segment is handled for a peer that may have left its slot.*)
LEMMA HearKeeps ==
    ASSUME PInv, NEW id \in Ids, Hear(id)
    PROVE  /\ PInv'
           /\ \A slot \in Slots : slot # heap[id].slot => slots'[slot] = slots[slot]
<1>1. PICK n \in Nat : \E messages \in [1 .. n -> Said(id)] : Segment(id, messages)
  <2>1. PICK first \in Said(id) :
           \/ Segment(id, <<first>>)
           \/ \E second \in Said(id) : Segment(id, <<first, second>>)
    BY DEF Hear
  <2>2. CASE Segment(id, <<first>>)
    <3>1. <<first>> \in [1 .. 1 -> Said(id)]
      OBVIOUS
    <3>. QED
      BY <2>2, <3>1
  <2>3. ASSUME NEW second \in Said(id), Segment(id, <<first, second>>)
        PROVE  \E n \in Nat : \E messages \in [1 .. n -> Said(id)] : Segment(id, messages)
    <3>1. <<first, second>> \in [1 .. 2 -> Said(id)]
      OBVIOUS
    <3>. QED
      BY <2>3, <3>1
  <2>. QED
    BY <2>1, <2>2, <2>3
<1>. PICK messages \in [1 .. n -> Said(id)] : Segment(id, messages)
  BY <1>1
<1>2. PICK s \in FoldLeft(HandleNext, {State}, messages) : Become(s)
  BY DEF Segment
<1>3. Running /\ heap[id] \in Peer
  BY LiveIsRunning DEF Segment, LiveSockets
<1>4. Sound(State) /\ State.slots = slots /\ State.heap = heap
  BY DEF PInv, State
<1>5. /\ Kept(State, s)
      /\ \A slot \in Slots : slot # heap[id].slot => s.slots[slot] = slots[slot]
  <2>1. \A s0 : Sound(s0) /\ s0.heap[id] \in Peer /\ s \in FoldLeft(HandleNext, {s0}, messages) =>
           /\ Kept(s0, s)
           /\ \A slot \in Slots : slot # s0.heap[id].slot => s.slots[slot] = s0.slots[slot]
    BY SegmentIs
  <2>. QED
    BY <1>2, <1>3, <1>4, <2>1
<1>6. PInv' /\ slots' = s.slots
  BY <1>2, <1>3, <1>5, HandlerKeeps DEF Segment, PInv
<1>. QED
  BY <1>5, <1>6

LEMMA CheckKeeps ==
    ASSUME PInv, CheckPeersConnectivity
    PROVE  /\ PInv'
           /\ \A slot \in Slots : slots'[slot] # slots[slot]
                                     => Blameable(heap[slots[slot]])
<1>1. PICK s \in FoldLeft(CheckNext, {State}, SlotOrder) : Become(s)
  BY DEF CheckPeersConnectivity
<1>2. Running /\ checked' \in BOOLEAN
  BY DEF CheckPeersConnectivity, Running
<1>3. /\ Sound(State) /\ State.slots = slots /\ State.heap = heap
      /\ \A slot \in Slots : slots[slot] # Null
  BY <1>2 DEF PInv, State, SlotsFilled
<1>4. /\ Kept(State, s)
      /\ \A slot \in Slots : s.slots[slot] # slots[slot] => Blameable(heap[slots[slot]])
  <2>1. \A s0 : Sound(s0) /\ (\A slot \in Slots : s0.slots[slot] # Null)
                  /\ s \in FoldLeft(CheckNext, {s0}, SlotOrder) =>
           /\ Kept(s0, s)
           /\ \A slot \in Slots : s.slots[slot] # s0.slots[slot]
                                     => Blameable(s0.heap[s0.slots[slot]])
    BY CheckLoopIs
  <2>. QED
    BY <1>1, <1>3, <2>1
<1>5. PInv' /\ slots' = s.slots
  BY <1>1, <1>2, <1>4, HandlerKeeps DEF CheckPeersConnectivity
<1>. QED
  BY <1>4, <1>5

(* What terminate_peers leaves is sound for every later phase.             *)
LEMMA TerminationKeeps ==
    ASSUME PInv, Become(TerminatePeers(State)), phase' \in {"terminating", "stopped"},
           UNCHANGED <<readErrors, checked>>
    PROVE  PInv' /\ slots' = [slot \in Slots |-> Null]
<1>1. PICK s : s = TerminatePeers(State)
  OBVIOUS
<1>2. /\ Sound(s) /\ ClosedPeers(s) = ClosedPeers(State)
      /\ s.slots = [slot \in Slots |-> Null]
  <2>1. \A s0 : Sound(s0) =>
           /\ Sound(TerminatePeers(s0))
           /\ ClosedPeers(TerminatePeers(s0)) = ClosedPeers(s0)
           /\ TerminatePeers(s0).slots = [slot \in Slots |-> Null]
    BY TerminatePeersIs
  <2>. QED
    BY <1>1, <2>1 DEF PInv
<1>3. /\ Sound(State') /\ slots' = s.slots
      /\ ClosedPeers(State') = ClosedPeers(State)
  BY <1>1, <1>2, BecomeIs
<1>4. SlotsFilled'
  BY <1>2, <1>3 DEF SlotsFilled, Running
<1>5. ClosedAreReadErrors'
  BY <1>3 DEF PInv, ClosedAreReadErrors
<1>6. Sound(State)'
  BY <1>3
<1>7. phase' \in {"running", "asked", "terminating", "stopped"}
  OBVIOUS
<1>. QED
  BY <1>2, <1>3, <1>4, <1>5, <1>6, <1>7 DEF PInv

LEMMA TerminationPhases ==
    ASSUME PInv, InitiateTermination \/ TerminateExecution \/ CheckToCleanup
    PROVE  PInv' /\ (phase' = phase => slots' = slots)
<1>0. /\ State.slots = slots /\ Sound(State)
      /\ slots \in [Slots -> Ids \cup {Null}]
  BY DEF PInv, Sound, State, States
<1>1. CASE InitiateTermination
  <2>1. State' = State /\ slots' = slots
    BY <1>1 DEF InitiateTermination, State
  <2>2. SlotsFilled' /\ ClosedAreReadErrors'
    BY <1>1, <2>1 DEF InitiateTermination, PInv, SlotsFilled, Running, ClosedAreReadErrors
  <2>3. Sound(State)'
    BY <1>0, <2>1
  <2>. QED
    BY <1>1, <2>1, <2>2, <2>3 DEF InitiateTermination, PInv
<1>2. CASE TerminateExecution
  BY <1>2, TerminationKeeps DEF TerminateExecution
<1>3. CASE CheckToCleanup /\ AllPeersTerminated
  <2>1. PICK s : s = State
    OBVIOUS
  <2>2. Become(s)
    BY <1>3, <2>1 DEF CheckToCleanup
  <2>3. /\ Sound(State') /\ slots' = slots
        /\ ClosedPeers(State') = ClosedPeers(State)
    BY <1>0, <2>1, <2>2, BecomeIs
  <2>4. SlotsFilled'
    BY <1>3, <2>3 DEF CheckToCleanup, AllPeersTerminated, SlotsFilled, Running
  <2>5. ClosedAreReadErrors'
    BY <1>3, <2>3 DEF CheckToCleanup, PInv, ClosedAreReadErrors
  <2>6. Sound(State)'
    BY <2>3
  <2>. QED
    BY <1>3, <2>3, <2>4, <2>5, <2>6 DEF CheckToCleanup, PInv
<1>4. CASE CheckToCleanup /\ ~ AllPeersTerminated
  BY <1>4 DEF CheckToCleanup, AllPeersTerminated, PInv, SlotsFilled, Running
<1>. QED
  BY <1>1, <1>2, <1>3, <1>4

(* Every step keeps the invariant, and takes nobody's slot for nothing.    *)
Innocent(slot) ==
    (slots'[slot] # slots[slot] /\ phase' = phase)
       => \/ Blameable(heap[slots[slot]])
          \/ heap[slots[slot]].socket = "open"
               /\ UNCHANGED [other \in Slots \ {slot} |-> slots[other]]

LEMMA PeersStep ==
    ASSUME PInv, [Next]_vars
    PROVE  PInv' /\ \A slot \in Slots : Innocent(slot)
<1>1. ASSUME NEW id \in Ids, Hear(id)
      PROVE  PInv' /\ \A slot \in Slots : Innocent(slot)
  <2>1. /\ PInv'
        /\ \A slot \in Slots : slot # heap[id].slot => slots'[slot] = slots[slot]
    BY <1>1, HearKeeps
  <2>2. heap[id].socket = "open" /\ slots[heap[id].slot] = id
    BY <1>1, LiveIsRunning DEF Hear, Segment, LiveSockets
  <2>. QED
    BY <2>1, <2>2 DEF Innocent
<1>2. ASSUME NEW id \in Ids,
             Connected(id) \/ ConnectFailed(id) \/ ReadError(id) \/ EndOfStream(id)
               \/ SocketClosed(id) \/ Grow(id)
      PROVE  PInv' /\ slots' = slots
  BY <1>2, ConnectedKeeps, ConnectFailedKeeps, ReadErrorKeeps, EndOfStreamKeeps,
     SocketClosedKeeps, GrowKeeps DEF Connected, ReadError, EndOfStream, Grow
<1>3. CASE CheckPeersConnectivity
  BY <1>3, CheckKeeps DEF Innocent
<1>4. CASE InitiateTermination \/ TerminateExecution \/ CheckToCleanup
  BY <1>4, TerminationPhases DEF Innocent
<1>5. CASE UNCHANGED vars
  <2>1. State' = State
    BY <1>5 DEF vars, State
  <2>2. PInv'
    BY <1>5, <2>1 DEF vars, PInv, SlotsFilled, Running, ClosedAreReadErrors
  <2>. QED
    BY <1>5, <2>2 DEF vars, Innocent
<1>. QED
  BY <1>1, <1>2, <1>3, <1>4, <1>5 DEF Next, SocketEvent, Innocent

-----------------------------------------------------------------------------
(* The theorems.                                                           *)

(* The invariant holds in every reachable state.                           *)
THEOREM PInvCorrect == Spec => []PInv
<1>1. PInv /\ [Next]_vars => PInv'
  BY PeersStep
<1>. QED
  BY <1>1, PeersInit, PTL DEF Spec

(* As long as the node runs every slot has an allocated Peer of its own    *)
(* that no pending callback will free, whatever handlers replace, and none *)
(* has one afterwards (check_peers_connectivity, replace_peer,             *)
(* terminate_peers).                                                       *)
THEOREM SlotsPointToLivePeersCorrect == Spec => []SlotsPointToLivePeers
<1>. QED
  BY PInvCorrect, PeersProperties, PTL

(* There is no connection outside the slots: whoever replaces a peer has   *)
(* its socket closed, also when the replacement fails at once              *)
(* (swap_slot_with_candidate, release_peer).                               *)
THEOREM NoStrayConnectionsCorrect == Spec => []NoStrayConnections
<1>. QED
  BY PInvCorrect, PeersProperties, PTL

(* A Peer that is in no slot and will not be freed had a read error; each  *)
(* read error costs one at most (on_incoming_segment, release_peer).       *)
THEOREM LeaksAreReadErrorsCorrect == Spec => []LeaksAreReadErrors
<1>. QED
  BY PInvCorrect, PeersProperties, PTL

(* Two slots are connected to one address only if it is that of the first  *)
(* candidate (pick_best_nonpeer_candidate, is_peer).                       *)
THEOREM NoDuplicatePeersCorrect == Spec => []NoDuplicatePeers
<1>. QED
  BY PInvCorrect, PeersProperties, PTL

(* A step takes a peer's slot only because of that peer: its age, its      *)
(* handshake, or what it said itself (check_peer, check_peer_life,         *)
(* on_handshake_success).                                                  *)
THEOREM InnocentPeersStayCorrect == Spec => InnocentPeersStay
<1>1. PInv /\ [Next]_vars => [\A slot \in Slots : Innocent(slot)]_vars
  BY PeersStep
<1>. QED
  BY <1>1, PInvCorrect, PTL DEF Spec, InnocentPeersStay, Innocent

=============================================================================
