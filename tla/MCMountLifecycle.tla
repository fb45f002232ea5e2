------------------------- MODULE MCMountLifecycle -------------------------
(* Three attribute files: the first declares nothing, the scan stops at the   *)
(* second, and only the third converts a tracked file.                        *)
EXTENDS MountLifecycle, TLC
MCAttrs == <<"root", "sub", "last">>
MCDeclares == ("root" :> {} @@ "sub" :> {"fresh"} @@ "last" :> {"lfs"})
=============================================================================
