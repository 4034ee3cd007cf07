\* Modules of two defined functions, the entry function any of its groups of
\* instructions.
SPECIFICATION Spec
CONSTANTS
    I32 = I32
    ExceptRef = ExceptRef
    AnyType = AnyType
    Void = Void
    ValueTypes = {I32}
    Funcs <- MCFuncs
    Table <- MCTable
    Args <- MCArgs
    Groups <- MCGroups
    Bodies <- MCBodies
    HostResults = {"Ok"}
    Entry = 2
    HostValue = 2
    Modulus = 8
    value_stack_size = 7
    call_stack_size = 3
    MaxPages = 3
    Pages = 2
    MaxInstrs <- MCMaxInstrs
    MaxLabels = 3
    MaxSteps = 40
    MaxRun = 40
    MaxCallDepth = 4
INVARIANTS
    StacksInBounds
    FixupsApplied
    Agrees
    CAgrees
