SPECIFICATION MCSpec
CONSTANTS
    Batches = {1, 2}
    Items = {1, 2, 3}
    Owner <- MCOwner
    Path <- MCPath
    Drafts = {a}
    Edits = {b}
    None = None
    Torn = Torn
    Clients = {c1, c2}
    MaxRequests = 3
PROPERTIES FinishedIsReviewed
CHECK_DEADLOCK FALSE
