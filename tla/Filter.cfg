SPECIFICATION Spec
CONSTANTS
    Tests = {"known", "other"}
    Tags = {"x", "y"}
    Outcomes = {"error", "success"}
    Updates <- Changes
    Times = {1, 2}
    Options <- Setups
    MaxTests = 2
    MaxOther = 3
INVARIANTS WantedTestsPass TagsArrive OutcomesAreTimed
CHECK_DEADLOCK FALSE
