SPECIFICATION Spec
CONSTANTS
    NULL = NULL
    None = None
    Blks = 2
    WordBytes = 2
    ByteBits = 1
    CAP_BITS = 3
    Kernels = {0, 2, 4, 5}
    Versions = {1, 3}
    Paths = {"a"}
    Nodes <- Files
    KindOf <- Kinds
    LinkTarget <- Reg
    Readable = {"file", "dir"}
    Attributes <- SomeAttributes
    Roles = {"setcap", "getcap", "caps", "iabs"}
    CapValues <- AllCaps
    IabValues <- AllIabs
    Texts <- SomeTexts
    RootIds = {1}
    MaxFiles = 2
    MaxOps = 2
    MaxRenames = 1
INVARIANTS
    TypeOK
    MaxBitsExact
    ConversionsPreserve
    FileHolds
    SetcapDid
PROPERTIES
    OnlyTheFileOpened
CHECK_DEADLOCK FALSE
