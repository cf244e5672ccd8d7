CONSTANTS
    Slots = {init, a}
    InitSlot = init
    Cpus = {c0, c1}
    Events = {tick, line, disk}
    Killable = {tick, line}
    Recurring = {tick, disk}
    Machines <- LiveMachines
    None = None
    MaxPid = 3
SPECIFICATION FairSpec
PROPERTIES WaitReturns KilledExits
