-------------------------------- MODULE Ping --------------------------------
(***************************************************************************)
(* How a peer is timed (communication.c and peer.c): a timer pings it, its *)
(* pong or the next ping ends the measurement, and a ring of three         *)
(* latencies decides whether it is replaced.                               *)
(*                                                                         *)
(* One peer, from its handshake on; what follows a replacement is a new    *)
(* one, with a record of zeros.  libuv calls back for a ping that is       *)
(* written before it reads what comes after it, so that nobody answers a   *)
(* ping before on_message_attempted has its time.  Left out: the average   *)
(* copied to the candidate, a part of its rating.                          *)
(***************************************************************************)
EXTENDS Integers, Sequences, SequencesExt

CONSTANTS
    Tolerance,   \* config.tolerances.latency
    MaxTime,     \* bound: the clock
    MaxPings     \* bound: pings to one peer

ASSUME PingAssumption == Tolerance \in Nat /\ MaxTime \in Nat /\ MaxPings \in Nat

VARIABLES
    now,             \* get_now(), never 0
    nonce,           \* of the last ping: its number; 0 before the first
    pingSent,        \* 0: never
    pongReceived,    \* 0: not since the last ping
    latencies,       \* ring of PEER_LATENCY_SLOT, 0: not yet
    latencyIndex,
    writing,         \* pings that are not written yet, oldest first
    written,         \* history: when each ping was written, 0 before
    timed,           \* history: how long each ping that has ended took
    odd              \* history: a pong nobody asked for, or a ping that was
                     \* not written when the next one came

pingVars == <<now, nonce, pingSent, pongReceived, latencies, latencyIndex,
              writing, written, timed, odd>>

Latest == 3   \* PEER_LATENCY_SLOT

-----------------------------------------------------------------------------
(* peer.c.                                                                 *)

IsLatencyFullyTested == \A k \in DOMAIN latencies : latencies[k] # 0

TotalLatency(ring) == FoldLeft(LAMBDA sum, latency : sum + latency, 0, ring)

(* average_peer_latency of a full ring.                                    *)
TooSlow == IsLatencyFullyTested /\ TotalLatency(latencies) > Latest * Tolerance

RecordLatency(latency) ==
    /\ latencies' = [latencies EXCEPT ![latencyIndex] = latency]
    /\ latencyIndex' = (latencyIndex % Latest) + 1

-----------------------------------------------------------------------------
NewPeer ==
    /\ nonce' = 0
    /\ pingSent' = 0
    /\ pongReceived' = 0
    /\ latencies' = <<0, 0, 0>>
    /\ latencyIndex' = 1
    /\ writing' = << >>
    /\ written' = << >>
    /\ timed' = << >>
    /\ odd' = FALSE

PingInit ==
    /\ now = 1
    /\ nonce = 0
    /\ pingSent = 0
    /\ pongReceived = 0
    /\ latencies = <<0, 0, 0>>
    /\ latencyIndex = 1
    /\ writing = << >>
    /\ written = << >>
    /\ timed = << >>
    /\ odd = FALSE

Tick ==
    /\ now < MaxTime
    /\ now' = now + 1
    /\ UNCHANGED <<nonce, pingSent, pongReceived, latencies, latencyIndex,
                   writing, written, timed, odd>>

(* Mutant of PingPeer: an answered ping is timed again.                    *)
PingPeerAnswered ==
    /\ nonce < MaxPings
    /\ IF pingSent # 0 THEN RecordLatency(now - pingSent)
       ELSE UNCHANGED <<latencies, latencyIndex>>
    /\ nonce' = nonce + 1
    /\ pongReceived' = 0
    /\ writing' = Append(writing, nonce + 1)
    /\ written' = Append(written, 0)
    /\ timed' = IF pingSent # 0 /\ pongReceived = 0 THEN Append(timed, now - Last(written))
                ELSE timed
    /\ odd' = (odd \/ writing # << >>)
    /\ UNCHANGED <<now, pingSent>>

(* ping_peer, on its timer: a ping without an answer ends.                 *)
PingPeer ==
    /\ nonce < MaxPings
    /\ IF pingSent # 0 /\ pongReceived = 0 THEN RecordLatency(now - pingSent)
       ELSE UNCHANGED <<latencies, latencyIndex>>
    /\ nonce' = nonce + 1
    /\ pongReceived' = 0
    /\ writing' = Append(writing, nonce + 1)
    /\ written' = Append(written, 0)
    /\ timed' = IF nonce # 0 /\ pongReceived = 0 THEN Append(timed, now - Last(written))
                ELSE timed
    /\ odd' = (odd \/ writing # << >>)
    /\ UNCHANGED <<now, pingSent>>

(* on_message_attempted: the write may also have failed.                   *)
OnMessageAttempted(failed) ==
    /\ writing # << >>
    /\ writing' = Tail(writing)
    /\ IF failed THEN UNCHANGED <<pingSent, written>>
       ELSE /\ pingSent' = now
            /\ written' = [written EXCEPT ![Head(writing)] = now]
    /\ odd' = (odd \/ failed)
    /\ UNCHANGED <<now, nonce, pongReceived, latencies, latencyIndex, timed>>

(* Nonces the peer can know: those of pings it got, and the 0 of a record  *)
(* without a ping.                                                         *)
KnownNonces == {0} \cup {n \in DOMAIN written : written[n] # 0}

(* A pong of the last nonce, the first one or another; of any other nonce  *)
(* it is only printed.                                                     *)
Pong ==
    /\ nonce \in KnownNonces
    /\ pongReceived' = now
    /\ RecordLatency(now - pingSent)
    /\ timed' = IF nonce # 0 /\ pongReceived = 0 THEN Append(timed, now - Last(written)) ELSE timed
    /\ odd' = (odd \/ nonce = 0 \/ pongReceived # 0)
    /\ UNCHANGED <<now, nonce, pingSent, writing, written>>

(* check_peer, of a peer that has shaken hands: replace_peer makes a new   *)
(* record.  (That it may be called and connect to nobody is module Peers.) *)
CheckPing ==
    /\ TooSlow
    /\ NewPeer
    /\ UNCHANGED now

PingNext ==
    \/ Tick
    \/ PingPeer
    \/ \E failed \in BOOLEAN : OnMessageAttempted(failed)
    \/ Pong
    \/ CheckPing

PingSpec == PingInit /\ [][PingNext]_pingVars

-----------------------------------------------------------------------------
(* Properties.                                                             *)

(* The ring holds how long the last three pings took, each once: from the  *)
(* time it was written to its answer, or to the next ping; a late answer   *)
(* does not count for the next ping, and an answered ping does not count   *)
(* again.  So it is as long as each ping is written before the next and no *)
(* pong comes twice or unasked; a ping that is answered in no time leaves  *)
(* the ring as good as empty (communication.c:59-70, 609-620).             *)
PingsTimedOnce ==
    odd \/ \A k \in 1 .. Latest :
              latencies[k] =
                 (IF k > Len(timed) THEN 0
                  ELSE timed[CHOOSE j \in 1 .. Len(timed) :
                                /\ j % Latest = k % Latest
                                /\ j + Latest > Len(timed)])

=============================================================================
