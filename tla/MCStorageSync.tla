--------------------------- MODULE MCStorageSync ---------------------------
(* A small instance of StorageSync for TLC. *)
EXTENDS StorageSync

MCTagIds == {0, 1, 2}
MCQtys == {0, 5}
=============================================================================
