--------------------------- MODULE PeerCandidates ---------------------------
(***************************************************************************)
(* The list of addresses a node may connect to (globalstate.c,             *)
(* persistent.c): an array with a count, appended to by addr messages and  *)
(* the DNS seeds, filtered and saved with the chain every five minutes,    *)
(* loaded at a start.  A connected peer keeps a pointer into the array,    *)
(* through which its record is refreshed whenever it is heard of.          *)
(*                                                                         *)
(* A time stamp is recent or over peerCandidateLife; ratings and the       *)
(* disabled status, which only order the choice, are left out.             *)
(***************************************************************************)
EXTENDS Integers, Sequences, SequencesExt, FiniteSets

CONSTANTS
    Addresses,     \* IP addresses
    Seeds,         \* those the DNS seeds name, in order
    Slots,         \* slots of peers
    NoPeer,
    MaxCandidates  \* size of the array (the code does not check it: a bound)

ASSUME CandidatesAssumption ==
    /\ IsFiniteSet(Addresses)
    /\ Seeds \in Seq(Addresses)
    /\ MaxCandidates \in Nat
    /\ Len(Seeds) \in 1 .. MaxCandidates

VARIABLES
    memory,    \* global.peerCandidates, as far as it was ever written
    count,     \* global.peerCandidateCount
    candidacy, \* of each slot: the entry its peer points at, and the address
    file       \* archive/peers.dat: the entries up to the count

vars == <<memory, count, candidacy, file>>

-----------------------------------------------------------------------------
(* add_address_as_candidate appends without looking for the address, over  *)
(* what a save may have left behind the count.  An addr message names an   *)
(* address; its time stamp is up to its sender.                            *)
AddAddress(ip, recent) ==
    LET entry == [ip |-> ip, recent |-> recent]
    IN  /\ count < MaxCandidates
        /\ memory' = IF count < Len(memory) THEN [memory EXCEPT ![count + 1] = entry]
                     ELSE Append(memory, entry)
        /\ count' = count + 1
        /\ UNCHANGED <<candidacy, file>>

(* What filter_peer_candidates puts into its buffer: entries that are      *)
(* recent and the last of their address.                                   *)
Kept ==
    LET keep == {i \in 1 .. count :
                   /\ memory[i].recent
                   /\ \A j \in i + 1 .. count : memory[j].ip # memory[i].ip}
    IN  [k \in 1 .. Cardinality(keep) |->
           memory[CHOOSE i \in keep : Cardinality({j \in keep : j <= i}) = k]]

(* Mutant of Filtered: the buffer is copied back.                          *)
FilteredByBuffer(recent) ==
    [i \in DOMAIN memory |-> IF i \in DOMAIN Kept THEN Kept[i] ELSE memory[i]]

(* memcpy(&global.peerCandidates, &buffer, sizeof(buffer)) copies the      *)
(* pointer to the buffer over the first eight bytes of the array, which    *)
(* are the time stamp of the first entry; it may read as any time.         *)
Filtered(recent) == [memory EXCEPT ![1].recent = recent]

(* save_chain_data: filter_peer_candidates cuts the list to as many        *)
(* entries as its buffer holds, and what is left in front is written.      *)
SaveCandidates ==
    \E recent \in BOOLEAN :
        /\ memory' = Filtered(recent)
        /\ count' = Len(Kept)
        /\ file' = SubSeq(Filtered(recent), 1, Len(Kept))
        /\ UNCHANGED candidacy

-----------------------------------------------------------------------------
(* is_peer.                                                                *)
IsPeer(ip) == \E slot \in Slots : candidacy[slot] # NoPeer /\ candidacy[slot].ip = ip

(* pick_best_nonpeer_candidate, as an index: the first of the array, or a  *)
(* listed candidate that is no peer.                                       *)
Picks == {1} \cup {i \in 1 .. count : ~ IsPeer(memory[i].ip)}

(* create_peer.                                                            *)
ConnectTo(slot) ==
    \E i \in Picks :
        /\ candidacy' = [candidacy EXCEPT ![slot] = [entry |-> i, ip |-> memory[i].ip]]
        /\ UNCHANGED <<memory, count, file>>

(* A message of a peer: its entry gets the present time.                   *)
Hear(slot) ==
    /\ candidacy[slot] # NoPeer
    /\ memory' = [memory EXCEPT ![candidacy[slot].entry].recent = TRUE]
    /\ UNCHANGED <<count, candidacy, file>>

Grow(i) ==
    /\ i \in DOMAIN memory
    /\ memory' = [memory EXCEPT ![i].recent = FALSE]
    /\ UNCHANGED <<count, candidacy, file>>

(* dns_bootstrap stamps addresses with DNS_BOOTSTRAP_PEER_TIMESTAMP, which *)
(* is long ago.                                                            *)
Bootstrapped == [i \in DOMAIN Seeds |-> [ip |-> Seeds[i], recent |-> FALSE]]

(* init: load_peer_candidates, and the seeds if there are none.            *)
Loaded(saved) == IF saved = << >> THEN Bootstrapped ELSE saved

(* A stop, which saves, or a kill, which does not, and a start.            *)
Restart ==
    /\ memory' = Loaded(file)
    /\ count' = Len(Loaded(file))
    /\ candidacy' = [slot \in Slots |-> NoPeer]
    /\ UNCHANGED file

Init ==
    /\ memory = Bootstrapped
    /\ count = Len(Seeds)
    /\ candidacy = [slot \in Slots |-> NoPeer]
    /\ file = << >>

Next ==
    \/ \E ip \in Addresses, recent \in BOOLEAN : AddAddress(ip, recent)
    \/ SaveCandidates
    \/ \E slot \in Slots : ConnectTo(slot) \/ Hear(slot)
    \/ \E i \in 1 .. MaxCandidates : Grow(i)
    \/ Restart

Spec == Init /\ [][Next]_vars

-----------------------------------------------------------------------------
(* Properties.                                                             *)

(* While the process runs no address moves within the list.  Peers point   *)
(* at their entries, so their time stamps and their status would go to     *)
(* other addresses otherwise.  It is so because filter_peer_candidates     *)
(* does not copy back what it kept (globalstate.c:57).                     *)
AddressesStayPut ==
    [][(\E slot \in Slots : candidacy'[slot] # NoPeer)
          => \A i \in 1 .. count : i <= count' => memory'[i].ip = memory[i].ip]_vars

(* What filter_peer_candidates prints that it has done: the invalid        *)
(* candidates - too old, or of an address that comes again - are removed,  *)
(* so that what is written next holds none (globalstate.c:30, 55).         *)
FilterRemovesInvalid ==
    \A i \in DOMAIN file :
        file[i].recent /\ \A j \in i + 1 .. Len(file) : file[j].ip # file[i].ip

=============================================================================
