-------------------------- MODULE MCPopulatedRanges --------------------------
(* PopulatedRanges over a file of 7 bytes: every set of bytes is reachable, *)
(* so every split, trim, drop and merge of up to four intervals occurs.     *)
EXTENDS PopulatedRanges

=============================================================================
