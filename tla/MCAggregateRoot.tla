--------------------------- MODULE MCAggregateRoot ---------------------------
(***************************************************************************)
(* Instances of AggregateRoot for TLC.                                     *)
(***************************************************************************)
EXTENDS AggregateRoot

AllHandlers == {"void", "task", "async", "nested"}
AsyncHandlers == {"async"}
=============================================================================
