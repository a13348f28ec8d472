SPECIFICATION ExchangeSpec
CONSTANTS
    Crc <- ToyCrc
    Strings <- Texts
    Bodies <- Files
    Times <- Moment
    Given <- Made
    Altered <- ChangedCalls
    ForeignBytes <- Foreign
INVARIANTS RoundTrip FieldsStayInBody LengthIsThePackets
CHECK_DEADLOCK FALSE
