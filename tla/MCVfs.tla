------------------------------- MODULE MCVfs -------------------------------
(* The file system with two sessions on RAM files and an ext2 file, or on  *)
(* devices.                                                                *)
EXTENDS Vfs

\* Session 1 may read and write, session 2 may only read.
MCGranted == [s \in Sessions |-> IF s = 1 THEN {"FS_READ", "FS_WRITE"} ELSE {"FS_READ"}]
MCNoDevices == [p \in {} |-> "none"]
MCDevices == [fb0 |-> "fb0", hda |-> "hda", null |-> "null"]
MCExt2 == [ext |-> [at |-> 1, len |-> 2]]
MCNoExt2 == [p \in {} |-> [at |-> 0, len |-> 0]]
MCInitramfs == [motd |-> <<1>>]
MCNoFiles == [p \in {} |-> <<>>]
MCFileChunks == {<<1>>, <<1, 1>>}
MCDisk == <<1, 1, 1, 1, 1, 1>>
MCDeviceChunks == {<<2>>, <<2, 2>>}

=============================================================================
