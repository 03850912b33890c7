-------------------------- MODULE MCMessageStream --------------------------
(* Three messages for MessageStream: one without a payload, one whose      *)
(* payload holds the magic, and one with a wrong checksum.                 *)
EXTENDS MessageStream

CONSTANTS verack, ping, bad, magic, filler

MCPayload ==
    [m \in {verack, ping, bad} |->
        CASE m = verack -> << >>
          [] m = ping   -> <<filler, magic>>
          [] m = bad    -> <<magic, filler>>]

=============================================================================
