\* A SYN that is lost.
SPECIFICATION TcpFairSpec
CONSTANTS
    Client = client
    Server = server
    SeqSpace = 16
    Iss <- MCIss
    IssStep = 3
    TCP_BUFFER_SIZE = 2
    ChunkSize = 2
    TCP_MAX_RETRIES = 1
    WriteLens = {1}
    ReadLens = {1}
    MaxBytes <- MCMaxBytes
    MaxConns <- MCMaxConns
    MaxRepeats = 1
    WireRoom = 2
PROPERTIES
    OpenSettles
CHECK_DEADLOCK FALSE
