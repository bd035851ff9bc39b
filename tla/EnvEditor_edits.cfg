\* Two pages, two saves, failing reads and writes and stops at any point.
SPECIFICATION Spec
CONSTANTS
    Page <- TwoPages
    Secret <- OneSecret
    PrinterName <- OnePrinter
    Port <- OnePort
    Taken <- OnePort
    Gone = Gone
    MaxSaves = 2
INVARIANTS
    TypeOK
    RestKept
PROPERTIES
    ChangesOneSetting
