SPECIFICATION QRSpec
CONSTANTS
    Admins = {a1, a2}
    MaxCodes = 3
INVARIANTS
    OneRotatingCode
CHECK_DEADLOCK FALSE
