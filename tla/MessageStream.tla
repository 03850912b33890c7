---------------------------- MODULE MessageStream ----------------------------
(***************************************************************************)
(* How the messages of a peer are cut out of the bytes TCP delivers        *)
(* (communication.c, on_incoming_segment and                               *)
(* extract_message_from_stream_buffer).  TCP hands over the stream in      *)
(* segments of any length; the cache of the connection collects them.      *)
(*                                                                         *)
(* A byte is a cell and the sizes are scaled down: the magic number is one *)
(* cell and a header is three, the magic, a filler and the message itself, *)
(* which stands for the command, length and checksum fields.  A payload    *)
(* may hold the magic by chance.                                           *)
(***************************************************************************)
EXTENDS Integers, Sequences, SequencesExt, FiniteSetsExt

CONSTANTS
    Messages,     \* what a peer may send
    Sound,        \* those with a right checksum and a known command
    Payload,      \* the cells after the header of each message
    Magic,        \* mainnet.magic
    Filler,       \* any other cell of a header or payload
    Noise,        \* a cell between messages that is not the magic
    MaxItems      \* bound: messages and noise cells a peer sends

ASSUME StreamAssumption ==
    /\ Sound \subseteq Messages
    /\ Payload \in [Messages -> Seq({Magic, Filler})]
    /\ {Magic, Filler, Noise} \cap Messages = {}
    /\ Magic \notin {Filler, Noise}
    /\ MaxItems \in Nat

VARIABLES
    sent,     \* the messages and noise cells the peer has written
    arrived,  \* how many cells of them TCP has delivered
    buffer,   \* ptrCache->buffer up to ptrCache->bufferIndex
    handled   \* messages passed to handle_incoming_message

streamVars == <<sent, arrived, buffer, handled>>

MagicSize  == 1
HeaderSize == 3

Header(m) == <<Magic, Filler, m>>

Wire(item) == IF item = Noise THEN <<Noise>> ELSE Header(item) \o Payload[item]

AppendWire(cells, item) == cells \o Wire(item)

WireOf(items) == FoldLeft(AppendWire, << >>, items)

Rest(cells, n) == SubSeq(cells, n + 1, Len(cells))

-----------------------------------------------------------------------------
(* find_first_magic: the offsets whose magic is followed by at least one   *)
(* more cell.                                                              *)
MagicOffsets(cells) ==
    {i \in 0 .. Len(cells) - MagicSize - 1 : cells[i + 1] = Magic}

(* Mutant of HasMessage: the message is taken when its header is complete. *)
HasMessageHeader(cells) == Len(cells) >= HeaderSize

(* sizeof(Header) + header.length, of cells that begin with a header.      *)
MessageSize(cells) == HeaderSize + Len(Payload[cells[HeaderSize]])

(* The length field of a header that has not arrived in full is whatever   *)
(* the buffer held; the sum is at least sizeof(Header) and so more than    *)
(* what has arrived.                                                       *)
HasMessage(cells) ==
    /\ Len(cells) >= HeaderSize
    /\ Len(cells) >= MessageSize(cells)

(* A message goes to its handler if its checksum is right and its command  *)
(* known; otherwise it is dropped.                                         *)
Handle(m, out) == IF m \in Sound THEN Append(out, m) ELSE out

(* One turn of the loop: trim what precedes the first magic, take a        *)
(* complete message off the front.  Nothing more happens after the turn    *)
(* that ends the loop.                                                     *)
ExtractNext(cache, turn) ==
    IF MagicOffsets(cache.buffer) = {} THEN cache
    ELSE LET trimmed == Rest(cache.buffer, Min(MagicOffsets(cache.buffer)))
         IN  IF ~ HasMessage(trimmed) THEN [cache EXCEPT !.buffer = trimmed]
             ELSE [buffer  |-> Rest(trimmed, MessageSize(trimmed)),
                   handled |-> Handle(trimmed[HeaderSize], cache.handled)]

(* Mutant of Extract: one message is taken, the next waits for a segment.  *)
ExtractOne(cells, out) == ExtractNext([buffer |-> cells, handled |-> out], 1)

(* The loop of extract_message_from_stream_buffer goes on until a message  *)
(* is incomplete or there is no magic: for every message a turn, and there *)
(* are no more messages than headers fit.                                  *)
Extract(cells, out) ==
    FoldLeft(ExtractNext, [buffer |-> cells, handled |-> out],
             [turn \in 1 .. Len(cells) \div HeaderSize |-> turn])

-----------------------------------------------------------------------------
(* The peer writes a message, or a byte that belongs to none.              *)
Write(item) ==
    /\ Len(sent) < MaxItems
    /\ sent' = Append(sent, item)
    /\ UNCHANGED <<arrived, buffer, handled>>

(* on_incoming_segment: the next n cells of the stream arrive.             *)
IncomingSegment(n) ==
    LET stream == WireOf(sent)
        result == Extract(buffer \o SubSeq(stream, arrived + 1, arrived + n), handled)
    IN  /\ arrived + n <= Len(stream)
        /\ arrived' = arrived + n
        /\ buffer' = result.buffer
        /\ handled' = result.handled
        /\ UNCHANGED sent

Segment == \E n \in 1 .. Len(WireOf(sent)) - arrived : IncomingSegment(n)

StreamInit ==
    /\ sent = << >>
    /\ arrived = 0
    /\ buffer = << >>
    /\ handled = << >>

StreamNext ==
    \/ \E item \in Messages \cup {Noise} : Write(item)
    \/ Segment

(* TCP delivers what was written as long as the connection stands, and the *)
(* event loop reads it.                                                    *)
StreamSpec == StreamInit /\ [][StreamNext]_streamVars /\ WF_streamVars(Segment)

-----------------------------------------------------------------------------
(* Properties.                                                             *)

TypeOK ==
    /\ sent \in Seq(Messages \cup {Noise})
    /\ arrived \in 0 .. Len(WireOf(sent))
    /\ buffer \in Seq(Messages \cup {Magic, Filler, Noise})
    /\ handled \in Seq(Sound)

(* The sound ones among what was written.                                  *)
KeepSound(out, item) == IF item \in Sound THEN out \o <<item>> ELSE out

SoundOf(items) == FoldLeft(KeepSound, << >>, items)

(* The items whose last cell has arrived.                                  *)
Complete == {i \in DOMAIN sent : Len(WireOf(SubSeq(sent, 1, i))) <= arrived}

(* However the stream is cut, what has been handled is exactly the sound   *)
(* messages whose last byte has arrived: none is lost, doubled, reordered  *)
(* or kept waiting, and no magic inside a payload is taken for a message.  *)
(* The cache holds the end of what has arrived and, with no noise, less    *)
(* than a message (communication.c:669-710).                               *)
HandledExactly ==
    /\ TypeOK
    /\ handled = SoundOf(SubSeq(sent, 1, Cardinality(Complete)))
    /\ IsSuffix(buffer, SubSeq(WireOf(sent), 1, arrived))
    /\ (\A i \in DOMAIN sent : sent[i] # Noise) =>
          \/ buffer = << >>
          \/ \E m \in Messages :
                /\ IsPrefix(buffer, Wire(m))
                /\ Len(buffer) < Len(Wire(m))

(* The stream implements the message channel: order, no loss, and every    *)
(* sound message handled in the end.                                       *)
Channel == INSTANCE MessageChannel WITH
    Messages <- Sound,
    sent     <- SoundOf(sent)

ImplementsChannel == Channel!Spec

=============================================================================
