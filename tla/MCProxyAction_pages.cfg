\* All actions on two connections, two hosts to go to, a block for each session or
\* for the icon and one session.
SPECIFICATION Spec
CONSTANTS
    Sessions = {s1, s2}
    Blocks = {b1, b2}
    Hosts = {h1, h2}
    None = None
CONSTRAINT Defined
SYMMETRY Symmetry
INVARIANTS
    OwnBody
    LostAreKnown
    ProxyLeftClean
    AloneIsServed
\* The process may end, and the blocks of the instance run out.
CHECK_DEADLOCK FALSE
