\* The exception of proxy_page.cc:122.
SPECIFICATION Spec
CONSTANTS
    Sessions = {s1, s2}
    Blocks = {b1}
    Hosts = {h1, h2}
    None = None
INVARIANTS
    NeverDefined
\* The process may end.
CHECK_DEADLOCK FALSE
