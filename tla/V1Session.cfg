SPECIFICATION SessionSpec
CONSTANTS
    Inputs <- Nothing
    Suite <- Tests
    Reports <- SuiteReports
    Events <- Calls
    Outputs <- Printed
    MaxOther = 1
INVARIANTS Isolated 
CHECK_DEADLOCK FALSE
