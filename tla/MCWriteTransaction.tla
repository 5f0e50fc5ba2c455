------------------------ MODULE MCWriteTransaction ------------------------
(* Replies carry up to three details: enough for an error after an OK,  *)
(* an undecodable item after an error, and two errors in one batch.     *)
EXTENDS WriteTransaction

MCMaxBatch == 3
=============================================================================
