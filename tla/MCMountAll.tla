----------------------------- MODULE MCMountAll -----------------------------
(* MountAll with the fstab that partinit.mk makes, for TLC.                *)
EXTENDS MountAll, TLC

CONSTANTS root, oem, userdata

MCPart == {root, oem, userdata}
MCFstab == <<root, oem, userdata>>
\* RK_OEM_FS_TYPE is one of the types without a label, RK_USERDATA_FS_TYPE is ext.
MCFsTypes ==
    {root :> "ext" @@ oem :> t @@ userdata :> "ext" : t \in {"fat", "ntfs"}}
=============================================================================
