\* The exception of stream_reader.cc.
SPECIFICATION MCSpec
CONSTANTS
    Bytes <- MCBytes
    CR = "cr"
    LF = "lf"
    Dash = "-"
    Delimiter <- MCDelimiter
    Inputs <- MCInputs
    BUFSIZE = 8
    Lengths = {3}
    COPY = 3
    Garbage = {0, 7}
INVARIANTS
    NeverThrows
CHECK_DEADLOCK FALSE
