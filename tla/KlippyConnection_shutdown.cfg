SPECIFICATION Spec
INVARIANTS ShutdownTold
