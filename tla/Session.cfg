\* Two processes, two calls at a time, two sign-ins and two bearers, one fault or turn of events.
SPECIFICATION Spec
CONSTANTS
    Procs = {p1, p2}
    Width = 2
    MaxActive = 2
    MaxLogins = 2
    MaxBearers = 2
    MaxEvents = 1
INVARIANTS GoneStaysGone ExchangeNeeded
PROPERTY LiveSessionKept
SYMMETRY Symmetry
