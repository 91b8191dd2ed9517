SPECIFICATION SettingsSpec
CONSTANTS
    Profiles = {1, 2, 3}
    Clients = {c1, c2}
    Readers = {r1}
    SingleWriter = TRUE
    MaxRequests = 5
INVARIANTS SettingsTypeOK AtMostOneActive ActiveIsApplied OneProfileRead
CHECK_DEADLOCK FALSE
