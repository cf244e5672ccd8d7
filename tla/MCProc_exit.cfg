CONSTANTS
    Slots = {init, a, b}
    InitSlot = init
    Cpus = {c0}
    Events = {tick}
    Killable = {tick}
    Recurring = {}
    Machines <- StrideMachines
    None = None
    MaxPid = 4
SPECIFICATION Spec
INVARIANT ExitDoesNotReturn
