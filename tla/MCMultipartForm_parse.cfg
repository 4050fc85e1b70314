\* All forms of up to three parts, and all contents in all encodings; the
\* connection may end or fail at any symbol.
SPECIFICATION FairSpec
CONSTANTS
    Forms <- MCForms
INVARIANTS
    
    FilesHaveOwner
PROPERTIES
    FormReturns
\* The call returns.
CHECK_DEADLOCK FALSE
