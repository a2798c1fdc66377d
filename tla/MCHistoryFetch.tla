---------------------------- MODULE MCHistoryFetch ----------------------------
(* Logs at four of six heights for HistoryFetch. *)
EXTENDS HistoryFetch

MCEventBlocks == {1, 2, 3, 5}
=============================================================================
