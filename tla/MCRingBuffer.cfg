CONSTANTS
    Size = 8
    Writers = {w1}
    Msgs <- MCMsgs
    RdBuf = 2
SPECIFICATION Spec
INVARIANTS
    CursorsSound
PROPERTIES
    ByteStream
    MessageFifo
