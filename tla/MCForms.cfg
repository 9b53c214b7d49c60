SPECIFICATION Spec
CONSTANTS
    Uploads <- MCUploads
    Cards <- MCCards
    ChunkSizes = {1, 3, 8, 13}
    PrefixLen = 12
    MaxUpload = 14
    MaxOther = 3
    NameMax = 2
    NoteMax = 3
    None = None
CHECK_DEADLOCK FALSE
INVARIANTS VerdictOfContent WriterStaysInLimit StoredFitsSchema
