------------------------------- MODULE MCLsm -------------------------------
(* Instances of Lsm for TLC. *)
EXTENDS Lsm, TLC

\* A crash there leaves the inputs of an all-tombstone compaction half gone.
DropWindow == {"DropUnlink", "DropFinish"}
AllButDrop == Steps \ DropWindow

\* I/O whose failure leaves no table file that the engine does not know of,
\* nor a wal.log half replaced; and three of them that end a call early.
CleanFails == {"WalSync", "FlushSync", "SstWrite", "SstRename", "WalRemove",
               "CmpWrite", "CmpRename", "CmpFinish"}
WriteFails == {"WalSync", "SstWrite", "CmpWrite"}

\* Together with the failures that leave a stray L0 table or input: harmless
\* as long as no compaction comes out empty.
StrayFails == CleanFails \cup {"SstSyncDir", "SstOpen", "CmpUnlink", "Discover"}
AllFails == Steps \cup {"Append", "Discover", "Close"}

KeySymmetry == Permutations(Keys)
=============================================================================
