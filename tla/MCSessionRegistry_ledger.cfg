\* Addresses are reused only after their session has left the manager.
SPECIFICATION Spec
CONSTANTS
    Sessions = {s1, s2, s3}
    IPs = {ip1}
    Ports = {p1, p2}
    NoIp = NoIp
    None = None
    MaxReq = 1
    PromptReuse = FALSE
PROPERTIES
    ImplementsLedger
\* The sessions of the instance run out; accept() then waits for ever.
CHECK_DEADLOCK FALSE
