--------------------------- MODULE MCSandboxInvoke ----------------------------
(* Small instances of SandboxInvoke for TLC.                                *)
EXTENDS SandboxInvoke, TLC

CONSTANTS sb1, sb2, sb3, l1, l2

(* The first two sandboxes share a library.                                 *)
MCLib == (sb1 :> l1) @@ (sb2 :> l1) @@ (sb3 :> l2)

=============================================================================
