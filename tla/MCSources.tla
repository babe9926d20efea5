----------------------------- MODULE MCSources -----------------------------
(* A small instance of Sources: 4-bit keys, some of them near the ends  *)
(* of the range.                                                            *)
EXTENDS Sources

MCConnectors == AllConnectors
MCKeys == {-5, 0, 6}
MCEstimates == {1, 4}
MCPages == {0, 1}
MCPartitions == {0, 1}
MCFormats == {"ndjson", "parquet"}
=============================================================================
