---------------------------- MODULE MCReactive ----------------------------
(***************************************************************************)
(* Small instances of Reactive for TLC.                                    *)
(***************************************************************************)
EXTENDS Reactive, TLC

CONSTANTS c1, c2, t1, t2, w1, w2

\* One watch per connection, on different tables or on the same one.
OwnConnections == w1 :> c1 @@ w2 :> c2
OneConnection  == w1 :> c1 @@ w2 :> c1
TwoTables      == w1 :> t1 @@ w2 :> t2
SameTable      == w1 :> t1 @@ w2 :> t1

\* SQLite with live repositories; Postgres where every writer is a live
\* repository, or where a trigger announces every write.
Announced == {[publishes |-> "atWrite", live |-> Conns],
              [publishes |-> "never", live |-> Conns],
              [publishes |-> "atCommit", live |-> {c2}]}
SqliteLive == {[publishes |-> "atWrite", live |-> Conns]}
=============================================================================
