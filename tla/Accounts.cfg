SPECIFICATION Spec
CONSTANTS
    Emails = {e1}
    Rows = 2
    Amounts <- SomeAmounts
    Plus <- RoundedSum
    Minus <- RoundedDifference
    Cells <- SomeCells
    Entries <- SomeEntries
    Party = 2
    Jobs = {j1, j2}
    MaxIds = 4
INVARIANTS AccountsTypeOK OneFilePerRow PassportsStored RemainderInRange
PROPERTIES CleanImportIsWhole
SYMMETRY JobSymmetry
