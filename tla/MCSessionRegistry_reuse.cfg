\* Three sessions, two addresses: a peer may reconnect from an address whose
\* session is still listed.
SPECIFICATION Spec
CONSTANTS
    Sessions = {s1, s2, s3}
    IPs = {ip1, ip2}
    Ports = {p1}
    NoIp = NoIp
    None = None
    MaxReq = 1
    PromptReuse = TRUE
SYMMETRY Symmetry
INVARIANTS
    NoUseAfterDelete
    BookedOnce
    AloneIsBooked
    LedgerNotInflated
\* The sessions of the instance run out; accept() then waits for ever.
CHECK_DEADLOCK FALSE
