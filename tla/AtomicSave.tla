----------------------------- MODULE AtomicSave -----------------------------
(***************************************************************************)
(* What a caller of DbObject::insert, update and delete relies on: a save  *)
(* takes effect at one point, when it returns true, and one that fails or  *)
(* is killed leaves the database as it was.                                *)
(***************************************************************************)
EXTENDS Naturals

CONSTANTS Obj, MaxSaves

VARIABLES db, call, result

NoRow == 0
Rows == [Obj -> 0 .. MaxSaves]

Init == db = [o \in Obj |-> NoRow] /\ call = {} /\ result = "none"

Begin(op, o) ==
    /\ call = {}
    /\ call' = {<<op, o>>}
    /\ result' = "none"
    /\ UNCHANGED db

\* A new version of the object's row (or none, for delete), with those of the objects its
\* listeners and aspects saved.
Succeed(op, o) ==
    /\ <<op, o>> \in call
    /\ call' = {}
    /\ result' = "true"
    /\ db' \in Rows
    /\ op = "insert" => db'[o] # NoRow
    /\ op = "update" => (db'[o] = NoRow) = (db[o] = NoRow)
    /\ db'[o] # db[o] \/ db'[o] = NoRow

Fail ==
    /\ call # {}
    /\ call' = {}
    /\ result' \in {"thrown", "errors"}
    /\ UNCHANGED db

Die ==
    /\ call' = {} /\ result' = "none"
    /\ UNCHANGED db

Next ==
    \/ \E op \in {"insert", "update", "delete"}, o \in Obj : Begin(op, o) \/ Succeed(op, o)
    \/ Fail \/ Die

Spec == Init /\ [][Next]_<<db, call, result>>
=============================================================================
