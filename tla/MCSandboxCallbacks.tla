-------------------------- MODULE MCSandboxCallbacks --------------------------
(* Small instances of SandboxCallbacks for TLC.                             *)
EXTENDS SandboxCallbacks, TLC

CONSTANTS t1, t2, c1, c2, sInt, sPtr, sLong, tyI32, tyI64

(* Two C++ signatures with one wasm type: int and a pointer are both i32.   *)
MCWasmType == (sInt :> tyI32) @@ (sPtr :> tyI32) @@ (sLong :> tyI64)

(* The table has the reserved slot 0, one module element and fewer slots    *)
(* than there are registrations, so that slots are reused and run out.      *)
MCSig == (c1 :> sInt) @@ (c2 :> sLong)
MCModuleTypes == <<tyI32>>
MCModuleTypes2 == <<tyI32, tyI64>>
MCModuleTable == (0 :> NULL) @@ (1 :> tyI32) @@ (2 :> NULL)

=============================================================================
