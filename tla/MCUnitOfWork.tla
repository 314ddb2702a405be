---------------------------- MODULE MCUnitOfWork ----------------------------
(***************************************************************************)
(* Small instances of UnitOfWork for TLC.                                  *)
(***************************************************************************)
EXTENDS UnitOfWork, TLC

CONSTANTS i1, i2, c1, c2

\* A connection for each isolate, or one that both share.
OwnConnections   == i1 :> c1 @@ i2 :> c2
SharedConnection == i1 :> c1 @@ i2 :> c1
=============================================================================
