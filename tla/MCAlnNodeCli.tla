---------------------------- MODULE MCAlnNodeCli ----------------------------
(* The CLI as main() runs it: one genesis account with a balance string.  *)
(* Every collaborator outcome the CLI reacts to is possible, and up to   *)
(* two processes are killed midway.                                       *)
EXTENDS AlnNodeCli

MCGenesisAccounts ==
    << [address |-> "aln1qpzry9x8gf2tvdw0s3jn54khce6mua7l5tgj3e",
        balance |-> "1000000000000000000000"] >>
=============================================================================
