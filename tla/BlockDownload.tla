--------------------------- MODULE BlockDownload ---------------------------
(***************************************************************************)
(* How the node gets the blocks it has headers of: once a second it asks   *)
(* the peers that have shaken hands for headers, if they claim a longer    *)
(* chain, and each for one of the first blocks that are missing            *)
(* (communication.c, exchange_data_with_peers; globalstate.c,              *)
(* find_missing_blocks).  Requests and answers get lost; files go bad; the *)
(* peers send other headers and blocks as they like.                       *)
(*                                                                         *)
(* A getheaders carries one hash as its locator, that of the header tip    *)
(* (send_getheaders), so that a peer that does not know it can only start  *)
(* from genesis.                                                           *)
(*                                                                         *)
(* networking.requesting is compared and cleared but never set, so every   *)
(* shaken peer is idle and no block counts as being requested.             *)
(***************************************************************************)
EXTENDS BlockStore

CONSTANTS
    PeerChain,     \* the chain of the peers, from the block after genesis
    MaxHeaders,    \* headers in an answer: MAX_HEAD_PER_PAYLOAD, 2000
    MaxIdle,       \* peers that have shaken hands at a time
    MaxBadFiles    \* bound: files found bad

(* The work of the peers' chain up to its i-th block, as the node sums it. *)
PeerPow[i \in 0 .. Len(PeerChain)] ==
    IF i = 0 THEN Work[Genesis] ELSE AddPow(PeerPow[i - 1], Work[PeerChain[i]])

(* Headers of blocks that are not legal are outside: such a block would be *)
(* asked for and thrown away for ever.  The blocks of the peers' chain,    *)
(* which other nodes accept, all add work.                                 *)
ASSUME DownloadAssumption ==
    /\ LegalBlocks = Blocks
    /\ PeerChain \in Seq(Blocks \ {Genesis})
    /\ \A i \in DOMAIN PeerChain :
          /\ Prev[PeerChain[i]] = IF i = 1 THEN Genesis ELSE PeerChain[i - 1]
          /\ PeerPow[i] > PeerPow[i - 1]
    /\ MaxHeaders \in Nat \ {0}
    /\ MaxIdle \in Nat \ {0}
    /\ MaxBadFiles \in Nat

VARIABLES
    requests,      \* blocks asked for with getdata and not answered
    headersAsked,  \* the locators of getheaders that are not answered
    incoming,      \* headers of an answer not yet handled
    badFiles       \* files found bad so far

downloadVars == <<requests, headersAsked, incoming, badFiles>>
allVars      == <<vars, downloadVars>>

-----------------------------------------------------------------------------
AddMissing(found, h) ==
    IF h \in Indexed \ fullBlockAvailable THEN Append(found, h) ELSE found

(* Along first children, until the index has none: the blocks without a    *)
(* file.                                                                   *)
MissingFrom(root) ==
    LET walk == FirstChildWalk(root)
    IN  FoldLeft(AddMissing, << >>, [i \in 1 .. Cardinality(Blocks) |-> walk[i - 1]])

UpToCount(found, desiredCount) ==
    SubSeq(found, 1, IF Len(found) < desiredCount THEN Len(found) ELSE desiredCount)

(* Mutant of FindMissingBlocks: the walk ends at a missing block.          *)
FindMissingBlocksFirst(desiredCount) == UpToCount(MissingFrom(Genesis), 1)

(* Mutant of FindMissingBlocks: the walk starts at the validated tip.      *)
FindMissingBlocksAboveTip(desiredCount) ==
    UpToCount(MissingFrom(mainValidatedTip.hash), desiredCount)

(* find_missing_blocks: from genesis, the first desiredCount of them.      *)
FindMissingBlocks(desiredCount) == UpToCount(MissingFrom(Genesis), desiredCount)


(* chain_height, as the peers gave it in their version messages.           *)
ShouldAskHeaders == Len(PeerChain) > mainHeaderTip.height

(* exchange_data_with_peers with so many peers that have shaken hands: the *)
(* i-th of them is asked for the i-th missing block.                       *)
ExchangeDataWithPeers(idlePeers) ==
    /\ Idle
    /\ requests' = requests \cup ToSet(FindMissingBlocks(idlePeers))
    /\ headersAsked' = IF ShouldAskHeaders
                       THEN headersAsked \cup {mainHeaderTip.hash}
                       ELSE headersAsked
    /\ UNCHANGED <<vars, incoming, badFiles>>

(* The headers a peer sends for a locator: those that follow it in its     *)
(* chain, which begins with genesis, or those that follow genesis if the   *)
(* locator is not in it, no more than fit into a message.                  *)
HeadersAfter(locator) ==
    LET known == {i \in DOMAIN PeerChain : PeerChain[i] = locator}
        start == IF known = {} THEN 0 ELSE CHOOSE i \in known : TRUE
    IN  UpToCount(SubSeq(PeerChain, start + 1, Len(PeerChain)), MaxHeaders)

(* A peer answers a getheaders.                                            *)
SendHeaders ==
    /\ incoming = << >>
    /\ \E locator \in headersAsked :
          /\ headersAsked' = headersAsked \ {locator}
          /\ incoming' = HeadersAfter(locator)
    /\ UNCHANGED <<vars, requests, badFiles>>

(* The loop over a headers message.  (In the code no other callback comes  *)
(* in between.)                                                            *)
HandleHeader ==
    /\ incoming # << >>
    /\ ReceiveHeaders(Head(incoming), TRUE)
    /\ incoming' = Tail(incoming)
    /\ UNCHANGED <<requests, headersAsked, badFiles>>

(* A peer answers a getdata, and the block is stored.  Some peer has every *)
(* block there is a header of.                                             *)
AnswerBlock(b) ==
    /\ b \in requests
    /\ ReceiveBlock(b, TRUE)
    /\ requests' = requests \ {b}
    /\ UNCHANGED <<headersAsked, incoming, badFiles>>

(* Connections break, and blocks cannot be saved.                          *)
Lose ==
    \/ \E b \in requests :
          /\ requests' = requests \ {b}
          /\ UNCHANGED <<vars, headersAsked, incoming, badFiles>>
    \/ \E locator \in headersAsked :
          /\ headersAsked' = headersAsked \ {locator}
          /\ UNCHANGED <<vars, requests, incoming, badFiles>>

LoseFile ==
    /\ badFiles < MaxBadFiles
    /\ badFiles' = badFiles + 1
    /\ LoadBadBlock
    /\ UNCHANGED <<requests, headersAsked, incoming>>

(* Headers and blocks nobody asked for, and the other timers.              *)
Unasked ==
    /\ \/ \E b \in Blocks : ReceiveHeaders(b, TRUE)
       \/ \E b \in Blocks, saved \in BOOLEAN : ReceiveBlock(b, saved)
       \/ ValidateNext
       \/ EndValidation
       \/ ResetIbdMode
    /\ UNCHANGED downloadVars

DownloadInit ==
    /\ StoreInit
    /\ requests = {}
    /\ headersAsked = {}
    /\ incoming = << >>
    /\ badFiles = 0

DownloadNext ==
    \/ \E n \in 1 .. MaxIdle : ExchangeDataWithPeers(n)
    \/ SendHeaders
    \/ HandleHeader
    \/ \E b \in Blocks : AnswerBlock(b)
    \/ Lose
    \/ LoseFile
    \/ Unasked

(* The loop of validate_blocks ends, and the timer runs and messages are   *)
(* handled between its runs, with a peer to ask (replacement keeps looking *)
(* for one).  A request repeated for ever is answered at some time.        *)
Fairness ==
    /\ WF_allVars(EndValidation /\ UNCHANGED downloadVars)
    /\ SF_allVars(\E n \in 1 .. MaxIdle : ExchangeDataWithPeers(n))
    /\ SF_allVars(SendHeaders)
    /\ SF_allVars(HandleHeader)
    /\ \A b \in Blocks : SF_allVars(AnswerBlock(b))

DownloadSpec == DownloadInit /\ [][DownloadNext]_allVars /\ Fairness

-----------------------------------------------------------------------------
(* Properties.                                                             *)

(* What find_missing_blocks finds is the lowest blocks of the main chain   *)
(* without a file, each once, as many as there are up to the number        *)
(* wanted: a gap in the middle is filled before blocks above it            *)
(* (globalstate.c:72-92).                                                  *)
RequestsLowestGaps ==
    \A n \in 1 .. MaxIdle :
        LET found == ToSet(FindMissingBlocks(n))
            gaps  == FirstChildPath(Genesis) \ fullBlockAvailable
        IN  /\ found \subseteq gaps
            /\ Len(FindMissingBlocks(n)) = Cardinality(found)
            /\ Cardinality(found) = n \/ found = gaps
            /\ \A b \in found, c \in gaps \ found :
                  blockIndices[b].height < blockIndices[c].height

(* Every block of the main chain is stored in the end and stays so, with   *)
(* lost answers, failed saves, bad files, changes of mode, and forks whose *)
(* headers come in any order                                               *)
(* (communication.c:148-173, 639-643).                                     *)
MainchainDownloaded ==
    <>[](FirstChildPath(Genesis) \subseteq fullBlockAvailable)


=============================================================================
