SPECIFICATION ShellSpec
CONSTANT ErrorLimit = 1
INVARIANT MissedPongDisconnects
