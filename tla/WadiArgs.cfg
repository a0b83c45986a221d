SPECIFICATION ArgsSpec
CONSTANTS
    Names <- MCNames
    Words <- MCWords
    True = "true"
    nullopt = nullopt
    atoi <- MCatoi
    toupper <- MCtoupper
    substr <- MCsubstr
    MaxTokens = 4
INVARIANTS
    ParsesArgs
    DeviceAsNamed
CHECK_DEADLOCK FALSE
