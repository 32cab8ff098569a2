SPECIFICATION Spec
CONSTANTS
    w1 = w1
    w2 = w2
    w3 = w3
    fine = fine
    better = better
    Writers = {w1, w2, w3}
    Readers = {r1, r2}
    Old = Old
    NoFile = NoFile
    Refused = Refused
    ReportOf <- MCReportOf
INVARIANTS
    AlwaysWhole
    SaysWhatItDid
PROPERTIES
    BaselineStays
CHECK_DEADLOCK FALSE
