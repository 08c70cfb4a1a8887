SPECIFICATION Spec
CONSTANTS
    Calls = {c1, c2}
    PlayerFiles = {save1, save2}
    TitleFiles = {title}
    Sizes = {0, 1, 2, 3}
    TitleSizes = {1, 3}
    NoBlob = NoBlob
    MaxFileSize = 2
    MaxBytesPerPlayer = 1
    MaxFilesPerPlayer = 1
    Word = 16
PROPERTIES BytesBehindRows QuotaKept
SYMMETRY MCSymmetry
CONSTRAINT OneKind
CHECK_DEADLOCK FALSE
