----------------------------- MODULE BookReplica -----------------------------
(***************************************************************************)
(* What one captured symbol promises to whoever reads its rows: each row   *)
(* is the exchange's book, cut to the row's depth, at some id the exchange *)
(* has published, and ids only grow.  Rows may be skipped (a resync loses  *)
(* what happened meanwhile) but never made up, repeated or reordered.      *)
(***************************************************************************)
EXTENDS Integers

CONSTANTS
    None,
    MaxId,
    Views       \* functions from 0..MaxId to what a row shows at that id

VARIABLES
    view,       \* one of them, chosen once
    now,        \* the last id published
    row         \* the last row

replicaVars == <<view, now, row>>

LastId == IF row = None THEN -1 ELSE row.id

ReplicaInit == view \in Views /\ now = 0 /\ row = None

Publish ==
    /\ now < MaxId
    /\ now' = now + 1
    /\ UNCHANGED <<view, row>>

Emit ==
    /\ \E id \in (LastId + 1)..now : row' = [id |-> id, lv |-> view[id]]
    /\ UNCHANGED <<view, now>>

ReplicaSpec == ReplicaInit /\ [][Publish \/ Emit]_replicaVars
=============================================================================
