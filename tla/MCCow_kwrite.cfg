CONSTANTS
    Procs = {init, a}
    InitProc = init
    Frames = {f1, f2, f3, f4, f5, f6}
    NPages = 2
    KvmPages = 2
    ImagePages = 1
    CPUS = {1}
    MaxVal = 1
    PhysZero = PhysZero
    Absent = Absent
    None = None
SPECIFICATION Spec
PROPERTY Isolation
