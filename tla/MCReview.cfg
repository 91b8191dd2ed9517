SPECIFICATION MCSpec
CONSTANTS
    Batches = {1, 2}
    Items = {1, 2, 3}
    Owner <- MCOwner
    Path <- MCPath
    Seen <- MCSeen
    Classified <- MCClassified
    Drafts = {a}
    Edits = {b}
    None = None
    Torn = Torn
    Clients = {c1, c2}
    MaxRequests = 2
INVARIANTS TypeOK ExportedWasAccepted DoneFilesCurrent ApprovalLocksCaption FiguresAddUp CardTellsExportable ProjectCardAgrees DatasetAddsUp
SYMMETRY MCSymmetry
CHECK_DEADLOCK FALSE
