---------------------------- MODULE MCUpgradeTree ----------------------------
(* UpgradeTree over two tracked files. *)
EXTENDS UpgradeTree
CONSTANTS a, b
=============================================================================
