----------------------------- MODULE MCKmalloc -----------------------------
(* Two pools, of two blocks and of one block at a time.                    *)
EXTENDS Kmalloc
MCBlockSizes == <<4, 8>>
=============================================================================
