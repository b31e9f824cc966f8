SPECIFICATION FairSpec
CONSTANTS
    Rows = {1, 2, 3, 4}
    Fields = {"email", "display_name"}
    Editable = {"display_name"}
    Contents <- MCContents
    Limits = {1, 2}
    Batch = 3
    MaxChanges = 1
    None = None
INVARIANTS TypeOK Forward NoneMissing
PROPERTIES EventuallyDone
