------------------------------ MODULE MCApiFetch ------------------------------
(***************************************************************************)
(* Instances of ApiFetch for TLC. Another search does what a page does,    *)
(* except for StopBetweenQueries.                                          *)
(***************************************************************************)
EXTENDS ApiFetch

MCKinds == Draining \cup {"page"}
=============================================================================
