SPECIFICATION ConfigSpec
CONSTANT Sections = {"server", "logging"}
INVARIANT SavedLoads
CHECK_DEADLOCK FALSE
