--------------------------- MODULE MessageChannel ---------------------------
(***************************************************************************)
(* What a connection promises the message handlers: every message the peer *)
(* sends is handled once, in the order it was sent, and eventually.        *)
(***************************************************************************)
EXTENDS Naturals, Sequences

CONSTANT Messages

VARIABLES sent, handled

Init == sent = << >> /\ handled = << >>

Send ==
    /\ \E m \in Messages : sent' = Append(sent, m)
    /\ UNCHANGED handled

Deliver ==
    /\ \E n \in Len(handled) + 1 .. Len(sent) : handled' = SubSeq(sent, 1, n)
    /\ UNCHANGED sent

Next == Send \/ Deliver

Spec == Init /\ [][Next]_<<sent, handled>> /\ WF_<<sent, handled>>(Deliver)

=============================================================================
