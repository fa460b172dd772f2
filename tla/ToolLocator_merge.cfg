CONSTANT Variant = "merge"
SPECIFICATION Spec
INVARIANT LocatesInSpecOrder
CHECK_DEADLOCK FALSE
