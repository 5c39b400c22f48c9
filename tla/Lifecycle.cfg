CONSTANT MaxLives = 3
SPECIFICATION Spec
INVARIANTS LeftOpenOnlyByFault FlushedAtExit
CHECK_DEADLOCK FALSE
