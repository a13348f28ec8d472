SPECIFICATION Spec
CONSTANTS
    MaxLines = 4
    MaxTest = 3
INVARIANTS NumberedInOrder NumbersAsGiven 
CHECK_DEADLOCK FALSE
