------------------------------- MODULE Peers -------------------------------
(***************************************************************************)
(* The connections to peers (communication.c): slots, the handshake, the   *)
(* periodic check, replacement, and termination.                           *)
(*                                                                         *)
(* A Peer is allocated with its socket and lives until the socket's close  *)
(* callback frees it; global.peers points at one per slot.  Between the    *)
(* two the event loop may call back for a socket whose peer has left its   *)
(* slot, and a handler that replaces a peer goes on with the old one.      *)
(*                                                                         *)
(* A handler is an operator from a state to the set of states it may end   *)
(* in: which candidate is picked depends on random scores, and whether a   *)
(* shaken peer is good enough on its latencies and on the height of the    *)
(* two chains.  A state is a record of slots and heap; an action sets the  *)
(* variables to a member of the set.                                       *)
(*                                                                         *)
(* Left out: messages that neither shake hands nor make a difference to    *)
(* whether the peer is replaced, and writes, whose failure is only logged, *)
(* except that of the version message.                                     *)
(***************************************************************************)
EXTENDS Integers, Sequences, SequencesExt, FiniteSets

CONSTANTS
    SlotCount,      \* global.peerCount once the initial peers are connected
    Candidates,     \* addresses in global.peerCandidates
    First,          \* the first of them in the array
    Ids,            \* bound: Peers allocated at a time
    Null,           \* no Peer
    MaxReadErrors   \* bound: connections that fail while read

Slots == 1 .. SlotCount

(* connect_to_initial_peers takes the smaller of the configured number and *)
(* the number of candidates.                                               *)
ASSUME PeersAssumption ==
    /\ SlotCount \in Nat \ {0}
    /\ First \in Candidates
    /\ IsFiniteSet(Candidates)
    /\ SlotCount <= Cardinality(Candidates)
    /\ Null \notin Ids
    /\ MaxReadErrors \in Nat

VARIABLES
    slots,       \* global.peers: an id, or Null
    heap,        \* the allocated Peers by id; Free is none
    phase,       \* global.shouldTerminate, global.terminating, uv_stop
    readErrors,  \* read errors so far
    checked      \* flips with every check, so that one that finds nothing to
                 \* do is a step that fairness can speak of

vars == <<slots, heap, phase, readErrors, checked>>

Free == [socket |-> "none"]

(* "connecting": a connect request is pending.  "open": connected and      *)
(* read.  "silent": not connected, or the peer has ended the stream, but   *)
(* never closed here.  "closing": uv_close with a callback that frees the  *)
(* peer.  "closed": uv_close without a callback.                           *)
Sockets == {"connecting", "open", "silent", "closing", "closed"}

(* How long ago the handshake started: 1 is over tolerances.handshake.     *)
(* 2 is a connection over tolerances.peerLife.                             *)
Ages == 0 .. 2

(* latencyTested: is_latency_fully_tested, before the handshake.           *)
Peer == [slot: Slots, candidacy: Candidates, socket: Sockets,
         acceptThem: BOOLEAN, acceptUs: BOOLEAN, age: Ages,
         latencyTested: BOOLEAN]

HandShaken(p) == p.acceptThem /\ p.acceptUs

(* create_peer, in a slot.                                                 *)
NewPeer(slot, c, socket) ==
    [slot |-> slot, candidacy |-> c, socket |-> socket,
     acceptThem |-> FALSE, acceptUs |-> FALSE, age |-> 0,
     latencyTested |-> FALSE]

State == [slots |-> slots, heap |-> heap]

(* When the handler is over nothing but the slot is looked at in a closing *)
(* peer, and nothing at all in a closed one that has left its slot.  After *)
(* the handshake, and when it is late, latencyTested makes no difference.  *)
Forget(s, id) ==
    LET p == s.heap[id]
    IN  IF p.socket = "closing" THEN NewPeer(p.slot, First, p.socket)
        ELSE IF p.socket = "closed" /\ (\A slot \in Slots : s.slots[slot] # id)
        THEN NewPeer(1, First, p.socket)
        ELSE IF p # Free /\ (p.age > 0 \/ HandShaken(p))
        THEN [p EXCEPT !.latencyTested = FALSE]
        ELSE p

Become(s) == slots' = s.slots /\ heap' = [id \in Ids |-> Forget(s, id)]

-----------------------------------------------------------------------------
(* is_peer: an address in use by a slot.                                   *)
IsPeer(s, c) ==
    \E slot \in Slots :
        s.slots[slot] # Null /\ s.heap[s.slots[slot]].candidacy = c

(* Mutant of Picks: any candidate may be picked.                           *)
PicksAny(s) == Candidates

(* pick_best_nonpeer_candidate: the search starts from the first candidate *)
(* without asking whether it is a peer; of the others, the best rated that *)
(* is not.  Scores are random within the rating, so any may be the best.   *)
Picks(s) == {First} \cup {c \in Candidates : ~ IsPeer(s, c)}

(* Mutant of Release: the socket is not closed.                            *)
ReleaseOpen(h, id) == h

(* release_peer: close the socket, with a callback.  A socket already      *)
(* closing is copied to the zombies; its Peer stays allocated for ever.    *)
Release(h, id) ==
    IF id = Null \/ h[id].socket \in {"closing", "closed"} THEN h
    ELSE [h EXCEPT ![id].socket = "closing"]

FreeIds(h) == {id \in Ids : h[id] = Free}

(* swap_slot_with_candidate and connect_peer_candidate: allocate, put into *)
(* the slot, release the old, and request a connection, which may fail at  *)
(* once: the error is returned, and nobody looks at it.  A handler that    *)
(* would allocate beyond the bound is not followed.                        *)
Connect(s, slot, c) ==
    IF FreeIds(s.heap) = {} THEN {}
    ELSE LET id == CHOOSE free \in FreeIds(s.heap) : TRUE
         IN  {[slots |-> [s.slots EXCEPT ![slot] = id],
               heap  |-> Release([s.heap EXCEPT ![id] = NewPeer(slot, c, socket)],
                                 s.slots[slot])] : socket \in {"connecting", "silent"}}

(* replace_peer, connect_to_best_candidate_as_peer.                        *)
Replace(s, slot) == UNION {Connect(s, slot, c) : c \in Picks(s)}

(* Mutant of CancelConnect: the relationship is set to OUR_SERVER, as      *)
(* on_peer_connect seems to expect.                                        *)
CancelAndReplace(s, id) == Replace(s, s.heap[id].slot)

(* on_peer_connect with an error, ECANCELED or another: the peer would be  *)
(* replaced if its relationship were OUR_SERVER, but nothing ever sets it. *)
CancelConnect(s, id) == {s}

-----------------------------------------------------------------------------
(* Events of sockets.                                                      *)

(* on_peer_connect without an error: the version message is sent and       *)
(* reading starts.  When the message has been written, handshakeStart is   *)
(* now (on_message_attempted); the write may fail.                         *)
Connected(id) ==
    /\ heap[id].socket = "connecting"
    /\ \E age \in {0, heap[id].age} :
          heap' = [heap EXCEPT ![id].socket = "open", ![id].age = age]
    /\ UNCHANGED <<slots, phase, readErrors, checked>>

ConnectFailed(id) ==
    /\ heap[id].socket = "connecting"
    /\ \E s \in CancelConnect(State, id) :
          Become([s EXCEPT !.heap[id].socket = "silent"])
    /\ UNCHANGED <<phase, readErrors, checked>>

(* What matters here of what a peer says: version, verack, and the pong    *)
(* that fills the last of the latencies.  A version below the minimal one  *)
(* does nothing before the handshake, and what another does after it.  A   *)
(* peer that was not pinged yet, as it has not shaken hands, has nonce 0   *)
(* and pingSent 0, so that it may send such pongs without being asked.     *)
Messages == {"version", "verack", "last pong"}

(* on_handshake_success: in catchup mode a peer with fewer blocks than we  *)
(* have is replaced; any other is pinged.                                  *)
OnHandshakeSuccess(s, id) == {s} \cup Replace(s, s.heap[id].slot)

(* handle_incoming_message for the messages above.                         *)
HandleIncomingMessage(s, id, m) ==
    LET heard == CASE m = "verack"    -> [s EXCEPT !.heap[id].acceptUs = TRUE]
                   [] m = "version"   -> [s EXCEPT !.heap[id].acceptThem = TRUE]
                   [] m = "last pong" -> [s EXCEPT !.heap[id].latencyTested = TRUE]
    IN  IF m # "last pong" /\ HandShaken(heard.heap[id])
        THEN OnHandshakeSuccess(heard, id) ELSE {heard}

(* A message, in whatever state the ones before it have led to.            *)
HandleNext(S, said) ==
    UNION {HandleIncomingMessage(s, said.by, said.message) : s \in S}

(* on_incoming_segment, extract_message_from_stream_buffer: the messages   *)
(* are handled one after the other, also when the first of them has made   *)
(* the peer leave its slot.                                                *)
Segment(id, messages) ==
    /\ heap[id].socket = "open"
    /\ \E s \in FoldLeft(HandleNext, {State}, messages) : Become(s)
    /\ UNCHANGED <<phase, readErrors, checked>>

Said(id) == [by: {id}, message: Messages]

Hear(id) == \E first \in Said(id) :
    \/ Segment(id, <<first>>)
    \/ \E second \in Said(id) : Segment(id, <<first, second>>)

(* on_incoming_segment with an error: the socket is closed without a       *)
(* callback and the peer keeps its slot.                                   *)
ReadError(id) ==
    /\ heap[id].socket = "open"
    /\ readErrors < MaxReadErrors
    /\ readErrors' = readErrors + 1
    /\ heap' = [heap EXCEPT ![id].socket = "closed"]
    /\ UNCHANGED <<slots, phase, checked>>

(* Mutant of EndOfStream: the socket is closed, as after an error.         *)
EndOfStreamCloses(id) ==
    /\ heap[id].socket = "open"
    /\ heap' = [heap EXCEPT ![id].socket = "closed"]
    /\ UNCHANGED <<slots, phase, readErrors, checked>>

(* on_incoming_segment with UV_EOF: nothing is done; nothing more comes.   *)
EndOfStream(id) ==
    /\ heap[id].socket = "open"
    /\ heap' = [heap EXCEPT ![id].socket = "silent"]
    /\ UNCHANGED <<slots, phase, readErrors, checked>>

(* on_socket_closed frees the peer.  A connect request that was pending is *)
(* called back first, with ECANCELED.                                      *)
SocketClosed(id) ==
    /\ heap[id].socket = "closing"
    /\ \E s \in {State} \cup CancelConnect(State, id) :
          Become([s EXCEPT !.heap[id] = Free])
    /\ UNCHANGED <<phase, readErrors, checked>>

-----------------------------------------------------------------------------
(* Time.                                                                   *)

InSlot(id) == \E slot \in Slots : slots[slot] = id

Grow(id) ==
    /\ phase # "stopped"
    /\ InSlot(id)
    /\ heap[id].age < 2
    /\ Become([State EXCEPT !.heap[id].age = @ + 1])
    /\ UNCHANGED <<phase, readErrors, checked>>

(* Mutant of CheckPeerLife: a peer may stay as long as it likes.           *)
NoPeerLife(s, id) == {s}

(* check_peer_life replaces whatever is in the peer's slot by now.         *)
CheckPeerLife(s, id) ==
    IF s.heap[id].age = 2 THEN Replace(s, s.heap[id].slot) ELSE {s}

(* check_peer: replaced if there is no handshake in time, or if the        *)
(* average latency is bad.  Before the handshake each of the latencies is  *)
(* the time since 1970.                                                    *)
CheckPeer(s, id) ==
    LET p == s.heap[id]
    IN  IF HandShaken(p) THEN {s} \cup Replace(s, p.slot)
        ELSE IF p.age > 0 \/ p.latencyTested THEN Replace(s, p.slot)
        ELSE {s}

(* The body of the loop; what check_peer says is not looked at.            *)
CheckSlot(s, slot) ==
    LET id == s.slots[slot]
    IN  UNION {CheckPeerLife(t, id) : t \in CheckPeer(s, id)}

CheckNext(S, slot) == UNION {CheckSlot(s, slot) : s \in S}

SlotOrder == [slot \in Slots |-> slot]

(* check_peers_connectivity, a timer that runs until termination.          *)
CheckPeersConnectivity ==
    /\ phase \in {"running", "asked"}
    /\ checked' = ~ checked
    /\ \E s \in FoldLeft(CheckNext, {State}, SlotOrder) : Become(s)
    /\ UNCHANGED <<phase, readErrors>>

-----------------------------------------------------------------------------
(* Termination.                                                            *)

(* initiate_termination: a signal, or the API socket.                      *)
InitiateTermination ==
    /\ phase = "running"
    /\ phase' = "asked"
    /\ UNCHANGED <<slots, heap, readErrors, checked>>

(* Mutant of TerminatePeers: the slots keep their pointers.                *)
ReleaseAll(s) ==
    [s EXCEPT !.heap = FoldLeft(Release, s.heap, s.slots)]

(* Mutant of TerminatePeers: a closed peer is left alone.                  *)
TerminateOpenPeers(s) ==
    [slots |-> [slot \in Slots |->
                  IF s.slots[slot] # Null /\ s.heap[s.slots[slot]].socket = "closed"
                  THEN s.slots[slot] ELSE Null],
     heap  |-> FoldLeft(Release, s.heap, s.slots)]

(* terminate_peers: empty every slot and release its peer.                 *)
TerminatePeers(s) ==
    [slots |-> [slot \in Slots |-> Null],
     heap  |-> FoldLeft(Release, s.heap, s.slots)]

(* termination_check, terminate_execution: the timers stop.                *)
TerminateExecution ==
    /\ phase = "asked"
    /\ phase' = "terminating"
    /\ Become(TerminatePeers(State))
    /\ UNCHANGED <<readErrors, checked>>

AllPeersTerminated == \A slot \in Slots : slots[slot] = Null

(* check_to_cleanup, every 500 ms.                                         *)
CheckToCleanup ==
    /\ phase = "terminating"
    /\ phase' = IF AllPeersTerminated THEN "stopped" ELSE phase
    /\ Become(IF AllPeersTerminated THEN State ELSE TerminatePeers(State))
    /\ UNCHANGED <<readErrors, checked>>

-----------------------------------------------------------------------------
(* connect_to_initial_peers fills the slots in order; those beyond         *)
(* global.peerCount are not looked at yet.                                 *)
FillNext(S, slot) == UNION {Replace(s, slot) : s \in S}

InitialStates ==
    FoldLeft(FillNext,
             {[slots |-> [slot \in Slots |-> Null], heap |-> [id \in Ids |-> Free]]},
             SlotOrder)

Init ==
    /\ \E s \in InitialStates : slots = s.slots /\ heap = s.heap
    /\ phase = "running"
    /\ readErrors = 0
    /\ checked = FALSE

SocketEvent(id) ==
    /\ phase # "stopped"
    /\ heap[id] # Free
    /\ \/ Connected(id)
       \/ ConnectFailed(id)
       \/ Hear(id)
       \/ ReadError(id)
       \/ EndOfStream(id)
       \/ SocketClosed(id)

Next ==
    \/ \E id \in Ids : SocketEvent(id) \/ Grow(id)
    \/ CheckPeersConnectivity
    \/ InitiateTermination
    \/ TerminateExecution
    \/ CheckToCleanup

(* libuv runs the timers that are due and the close callbacks; time        *)
(* passes.                                                                 *)
Fairness ==
    /\ WF_vars(CheckPeersConnectivity)
    /\ WF_vars(TerminateExecution)
    /\ WF_vars(CheckToCleanup)
    /\ WF_vars(phase # "stopped" /\ \E id \in Ids : SocketClosed(id))
    /\ \A slot \in Slots : WF_vars(\E id \in Ids : slots[slot] = id /\ Grow(id))

Spec == Init /\ [][Next]_vars /\ Fairness

-----------------------------------------------------------------------------
(* Properties.                                                             *)

TypeOK ==
    /\ slots \in [Slots -> Ids \cup {Null}]
    /\ heap \in [Ids -> Peer \cup {Free}]
    /\ phase \in {"running", "asked", "terminating", "stopped"}
    /\ readErrors \in 0 .. MaxReadErrors
    /\ checked \in BOOLEAN

(* The timers, is_peer and the node status dereference global.peers[i]     *)
(* without a check.  They find a Peer of that slot, no two slots the same, *)
(* and never one whose memory a pending close callback will free           *)
(* (communication.c:792-843, 1004-1012).                                   *)
SlotsPointToLivePeers ==
    /\ TypeOK
    /\ \A slot \in Slots :
          IF phase \in {"running", "asked"}
          THEN /\ slots[slot] # Null
               /\ heap[slots[slot]] # Free
               /\ heap[slots[slot]].slot = slot
               /\ heap[slots[slot]].socket # "closing"
          ELSE slots[slot] = Null

(* A connection that is in no slot is checked, pinged and closed by nobody *)
(* and would add to the configured number of connections: there is none,   *)
(* and when the loop stops nothing is left open                            *)
(* (communication.c:835-842, 1004-1012).                                   *)
NoStrayConnections ==
    \A id \in Ids :
        heap[id].socket \in {"connecting", "open", "silent"} => InSlot(id)

(* Memory is only lost to sockets whose reading failed: any other Peer is  *)
(* in a slot or will be freed by its close callback                        *)
(* (communication.c:716, 796-821).                                         *)
LeaksAreReadErrors ==
    Cardinality({id \in Ids : heap[id] # Free /\ ~ InSlot(id)
                              /\ heap[id].socket # "closing"})
        <= readErrors

(* No address is connected to in two slots, except that of the first       *)
(* candidate in the array (communication.c:950-975, globalstate.c:63-70).  *)
NoDuplicatePeers ==
    \A s1, s2 \in Slots :
        (s1 # s2 /\ slots[s1] # Null /\ slots[s2] # Null)
            => \/ heap[slots[s1]].candidacy # heap[slots[s2]].candidacy
               \/ heap[slots[s1]].candidacy = First

(* A peer loses its slot for a reason of its own: a late handshake, its    *)
(* age, pongs it was not asked for, or what was measured or heard of it    *)
(* once it had shaken hands.  What happens to other peers, and to earlier  *)
(* ones of its slot, takes nobody's slot                                   *)
(* (communication.c:74-112, 567-572, 609-618, 769-772).                    *)
Blameable(p) == p.age > 0 \/ HandShaken(p) \/ p.latencyTested

InnocentPeersStay ==
    [][\A slot \in Slots :
          (slots'[slot] # slots[slot] /\ phase' = phase)
            => \/ Blameable(heap[slots[slot]])
               \/ heap[slots[slot]].socket = "open"
                    /\ UNCHANGED [other \in Slots \ {slot} |-> slots[other]]]_vars

(* A peer that will not say anything any more - the connection failed,     *)
(* ended or broke - does not hold its slot for ever, whatever state its    *)
(* handshake and pings are in (communication.c:100-131).                   *)
SilentPeersLeave ==
    \A slot \in Slots : \A id \in Ids :
        (slots[slot] = id /\ heap[id].socket \in {"silent", "closed"})
            ~> slots[slot] # id

(* Once asked to stop the node stops, whatever the peers do, and by then   *)
(* every peer has been released (communication.c:1020-1069).               *)
TerminationCompletes ==
    (phase = "asked") ~> (phase = "stopped" /\ AllPeersTerminated)

=============================================================================
