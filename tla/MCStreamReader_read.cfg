\* Messages of up to three pieces and answers of a host, cut by the network at any
\* place; the buffer is one byte larger than what get_pchar needs to recognize a
\* boundary, and a copy is shorter than the longest body.
SPECIFICATION MCSpec
CONSTANTS
    Bytes <- MCBytes
    CR = "cr"
    LF = "lf"
    Dash = "-"
    Delimiter <- MCDelimiter
    Inputs <- MCInputs
    BUFSIZE = 8
    Lengths = {3}
    COPY = 3
    Garbage = {0, 7}
INVARIANTS
    InsideBuffer
    InOrder
    
    CutForAReason
PROPERTIES
    CallReturns
    
\* An exception ends the process, and the transfer ends.
CHECK_DEADLOCK FALSE
