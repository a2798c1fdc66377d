----------------------------- MODULE MCBatchQueue -----------------------------
(* Three requests that fill a batch, two of them for the same data, and    *)
(* one that exceeds the weight of a batch, for BatchServices.              *)
EXTENDS BatchServices

MCCaller == 1..4
MCWeight == <<1, 2, 1, 5>>
MCTransaction == <<<<7>>, <<7, 0>>, <<7>>, <<9, 9, 9, 9, 9>>>>
=============================================================================
