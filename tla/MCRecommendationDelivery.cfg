SPECIFICATION Spec
CONSTANTS
    Sessions = {s, t}
    Accepts = {d, e}
    None = None
    MaxRev = 2
    MaxGen = 1
    MaxOpens = 1
SYMMETRY Symmetry
CONSTRAINT FewIncidents
INVARIANT TypeOK
INVARIANT AcceptedWasDelivered
INVARIANT ReservationIsHeld
INVARIANT PromptedOnce
