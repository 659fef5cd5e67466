SPECIFICATION Spec
CONSTANTS
    Callers = {c1, c2}
    Main = Main
    NoOne = NoOne
    core = core
    small = small
    other = other
    third = third
    large = large
    Experts <- MCExperts
    CoreBlocks <- MCCore
    BlockLength <- MCLength
    Capacity = 4
    MaxExperts = 2
    Requests <- MCFewRequests
CHECK_DEADLOCK FALSE
INVARIANTS HeldUntilRelease
