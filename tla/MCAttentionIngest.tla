------------------------- MODULE MCAttentionIngest -------------------------
(* Two records, and one with the record_id of the first and other bytes. *)
EXTENDS AttentionIngest
MCRecords == {"r1", "r2", "r1x"}
MCId == [r \in MCRecords |-> IF r = "r2" THEN 2 ELSE 1]
=============================================================================
