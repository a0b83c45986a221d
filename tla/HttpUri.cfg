SPECIFICATION Spec
CONSTANTS
    Texts <- MCTexts
    ByteOf <- MCByteOf
    Garbage = {0, 255}
INVARIANTS
    PartsAsInGrammar
    ServerSeesUri
    CredentialsCarried
CHECK_DEADLOCK FALSE
