SPECIFICATION Spec
CONSTANTS
    Scripts <- MCScripts
INVARIANTS
    OutcomesHold
    SafeThroughout
PROPERTIES
    ScriptsEnd
CHECK_DEADLOCK FALSE
