CONSTANT Variant = "gcovr"
SPECIFICATION Spec
INVARIANT LocatesInSpecOrder
CHECK_DEADLOCK FALSE
