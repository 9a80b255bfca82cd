------------------------ MODULE MCEventStoreProvider ------------------------
(***************************************************************************)
(* An instance of EventStoreProvider for TLC.  Task identities are not     *)
(* symmetric here, because the run checks liveness.                        *)
(***************************************************************************)
EXTENDS EventStoreProvider

(* Nothing, one more than a page, and more than there can be, which stands *)
(* for long.MaxValue.                                                      *)
MCCounts == {0, 3, 9}
MCStarts == {-1, 1}
=============================================================================
