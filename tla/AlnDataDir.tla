----------------------------- MODULE AlnDataDir ------------------------------
(***************************************************************************)
(* What the node CLI promises of its data directory, whatever commands    *)
(* run, fail or are killed: the directory is absent until a command       *)
(* creates it, is partial while the genesis accounts are not all in the   *)
(* store, and once initialized it stays initialized.  Nothing removes a   *)
(* directory or an account: a partial directory is never made absent     *)
(* again, and an initialized one never partial.                           *)
(***************************************************************************)
VARIABLE dir   \* "absent", "partial" or "initialized"

Init == dir = "absent"

\* a command creates the directory (init's mkdir, or start's store open)
Create ==
    /\ dir = "absent"
    /\ dir' \in {"partial", "initialized"}

\* the last missing genesis account (or directory) is written
Complete ==
    /\ dir = "partial"
    /\ dir' = "initialized"

Next == Create \/ Complete

Spec == Init /\ [][Next]_dir
=============================================================================
