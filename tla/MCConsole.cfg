SPECIFICATION Spec
CONSTANT Requests = {"r1", "r2"}
INVARIANTS OneRestorePending
PROPERTIES ViewSettles
