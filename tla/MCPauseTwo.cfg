SPECIFICATION Spec
CONSTANTS
    Requests = {"c1", "c2"}
    DatabaseFails = FALSE
INVARIANT PauseSurvivesAlways
