\* Writes of one byte, each of which goes out in one segment, and buffers of
\* one byte, so that what is sent before the other end has read does not fit.
SPECIFICATION TcpFairSpec
CONSTANTS
    Client = client
    Server = server
    SeqSpace = 16
    Iss <- MCIss
    IssStep = 3
    TCP_BUFFER_SIZE = 1
    ChunkSize = 1
    TCP_MAX_RETRIES = 1
    WriteLens = {1}
    ReadLens = {1}
    MaxBytes <- MCMaxBytes
    MaxConns <- MCMaxConns
    MaxRepeats = 1
    WireRoom = 2
INVARIANTS
    KeptUntilDelivered
PROPERTIES
    IsStream
    ClientBytesSettle
CHECK_DEADLOCK FALSE
