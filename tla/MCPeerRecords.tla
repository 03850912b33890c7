--------------------------- MODULE MCPeerRecords ---------------------------
(* What the node keeps of its peers: the candidates they came from, or the *)
(* times of their pings.  Which one is chosen at the start.                *)
EXTENDS MCPeerCandidates, Ping

VARIABLE question

MCInit ==
    /\ question \in {"candidates", "ping"}
    /\ Init
    /\ PingInit

Listing ==
    /\ question = "candidates"
    /\ Next
    /\ UNCHANGED <<question, pingVars>>

(* Once PingsTimedOnce has nothing to say of a peer it is not followed any *)
(* more.                                                                   *)
Timing ==
    /\ question = "ping"
    /\ ~ odd
    /\ PingNext
    /\ UNCHANGED <<question, vars>>

MCNext == Listing \/ Timing

MCSpec == MCInit /\ [][MCNext]_<<question, vars, pingVars>>

=============================================================================
