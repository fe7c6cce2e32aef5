CONSTANTS
    None = None
    Channel = {c1, c2, c3}
    Request = {r1}
    Profile = {}
    Number = {2, 4, 5}
    Wants <- MCWants
    MaxOps = 3
SPECIFICATION Spec
PROPERTIES
    ShiftKeepsApart
CHECK_DEADLOCK FALSE
