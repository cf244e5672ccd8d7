CONSTANTS
    Slots = {init, a, b}
    InitSlot = init
    Cpus = {c0, c1}
    Events = {tick}
    Killable = {tick}
    Recurring = {}
    Machines <- AllMachines
    None = None
    MaxPid = 4
SPECIFICATION Spec
SYMMETRY Symmetry
INVARIANTS NoMissedZombie ParentAlive SlotOwned
