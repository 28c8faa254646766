\* A write that does not go out whole.
SPECIFICATION TcpFairSpec
CONSTANTS
    Client = client
    Server = server
    SeqSpace = 16
    Iss <- MCIss
    IssStep = 3
    TCP_BUFFER_SIZE = 2
    ChunkSize = 1
    TCP_MAX_RETRIES = 1
    WriteLens = {1, 2}
    ReadLens = {1}
    MaxBytes <- MCMaxBytes
    MaxConns <- MCMaxConns
    MaxRepeats = 1
    WireRoom = 2
PROPERTIES
    IsStream
CHECK_DEADLOCK FALSE
