SPECIFICATION Spec
CONSTANTS
    KeyMod = 8
    Mod32 = 4
    Hash <- MCHash
    Schemas <- MCSchemas
    Entries <- MCEntries
    Texts = {3, 4}
    ChangeWheres <- MCChangeWheres
    Reads <- MCReads
    MaxRows = 3
    MaxBulk = 2
    MaxChanges = 2
INVARIANT AnswersRight
PROPERTY ChangesAreExact
