\* Liveness, without symmetry; the requests of a session are left to the other runs.
SPECIFICATION FairSpec
CONSTANTS
    Sessions = {s1, s2, s3}
    IPs = {ip1}
    Ports = {p1}
    NoIp = NoIp
    None = None
    MaxReq = 0
    PromptReuse = TRUE
PROPERTIES
    ThreadsGoOn
\* The sessions of the instance run out; accept() then waits for ever.
CHECK_DEADLOCK FALSE
