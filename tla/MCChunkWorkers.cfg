SPECIFICATION FairSpec
CONSTANTS
    r1 = r1
    r2 = r2
    r3 = r3
    c1 = c1
    c2 = c2
    w1 = w1
    w2 = w2
    w3 = w3
    Requests = {r1, r2, r3}
    Chunks = {c1}
    Workers = {w1, w2}
    ChunkOf <- OneChunk
    QueueSize = 1
    NoWorker = NoWorker
    NoChunk = NoChunk
    NoRequest = NoRequest
INVARIANTS
    Serialized
    NoStrandedOperation
    ReplyNeverBlocks
PROPERTIES
    CallsReturn
    WorkersRetire
    ImplementsSerial
