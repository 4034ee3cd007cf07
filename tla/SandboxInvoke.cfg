\* Two sandboxes from one library and one from another, entered in every
\* nesting.
SPECIFICATION Spec
CONSTANTS
    sb1 = sb1
    sb2 = sb2
    sb3 = sb3
    l1 = l1
    l2 = l2
    NULL = NULL
    Sandboxes = {sb1, sb2, sb3}
    Libs = {l1, l2}
    Lib <- MCLib
    WASM_RT_MAX_CALL_STACK_DEPTH = 2
    MaxFrames = 8
INVARIANTS
    DepthCounts
    RightSandbox
    OverflowNoticed
    TrapCaughtByCaller
