\* Four messages or noise cells, cut into segments in every way.
CONSTANTS
    verack = verack
    ping = ping
    bad = bad
    magic = magic
    filler = filler
    Messages = {verack, ping, bad}
    Sound = {verack, ping}
    Payload <- MCPayload
    Magic = magic
    Filler = filler
    Noise = noise
    MaxItems = 4
SPECIFICATION StreamSpec
INVARIANTS
    HandledExactly
PROPERTIES
    ImplementsChannel
\* The peer may stop writing.
CHECK_DEADLOCK FALSE
