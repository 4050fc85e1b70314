\* The comment on ignored attachments.
SPECIFICATION Spec
CONSTANTS
    Forms <- MCPairs
INVARIANTS
    AttachmentsIgnored
CHECK_DEADLOCK FALSE
