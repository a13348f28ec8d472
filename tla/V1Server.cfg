SPECIFICATION Spec
CONSTANT Inputs <- Streams
INVARIANTS TypeOK RoutedOnce ResultsAsWritten 
PROPERTY IsTestRun
CHECK_DEADLOCK FALSE
