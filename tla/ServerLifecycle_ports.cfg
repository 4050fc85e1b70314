\* README.md against configure() and redirector_thread().
SPECIFICATION Spec
CONSTANTS
    EnvPorts = {0, 443, 4433, 8080, 70000}
INVARIANTS
    PortsOpenBeforeDrop
\* The process ends.
CHECK_DEADLOCK FALSE
