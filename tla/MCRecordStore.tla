-------------------------- MODULE MCRecordStore ---------------------------
(* Two processes at one record: the fewest of which one can wait on the    *)
(* inode the other unlinks.                                                *)
EXTENDS RecordStore
=============================================================================
