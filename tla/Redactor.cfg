CONSTANTS
    Byte = {"a", "b"}
    Patterns <- MCPatterns
    Redaction <- MCRedaction
    Limit = 5
    MaxInput = 8
SPECIFICATION Spec
INVARIANTS NoSecretInOutput PendingBounded ChunkingInvisible
CHECK_DEADLOCK FALSE
