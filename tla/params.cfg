SPECIFICATION Spec
CONSTANTS
    Chars <- Alphabet
    Inputs <- Params
INVARIANTS TypeOK DecodedIff UndefinedOnlyIf
CHECK_DEADLOCK FALSE
