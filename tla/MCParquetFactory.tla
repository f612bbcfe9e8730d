--------------------------- MODULE MCParquetFactory ---------------------------
(* ParquetFactory for TLC. Two scenarios of up to four steps: the second one    *)
(* meets the topic, the bucket and the offsets of the first, and each can fill  *)
(* the topic, run the program twice and check.                                  *)
EXTENDS ParquetFactory
================================================================================
