SPECIFICATION Spec
CONSTANTS
    ChunkChars = 2
    MaxLines = 4
INVARIANTS TypeOK NumberedOnce TextPreserved ThinkingFolded SessionFreed NoSilentDrop
PROPERTY MeetsContract
