\* Two cards, two spaces, two runs of every kind, one slot and one link.
CONSTANTS
    c1 = c1
    c2 = c2
    c3 = c3
    work = work
    home = home
    ask = ask
    tell = tell
    r1 = r1
    r2 = r2
    r3 = r3
    None = None
    Cards = {c1,c2}
    Spaces = {work,home}
    HomeSpace = work
    Queries = {ask}
    Runs = {r1,r2}
    Limit = 1
    MaxNodes = 2
    MaxLinks = 1
SYMMETRY MCSymmetry
SPECIFICATION Spec
CHECK_DEADLOCK FALSE
INVARIANTS TypeOK BoardKept SlotsCounted BlockedByRun BusyCardHasRun
