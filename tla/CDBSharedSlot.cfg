SPECIFICATION Spec
INVARIANT NoSharedSlot
CONSTANT StartOrder <- TwoSystems
CHECK_DEADLOCK FALSE
