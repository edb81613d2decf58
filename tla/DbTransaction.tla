---------------------------- MODULE DbTransaction ----------------------------
(***************************************************************************)
(* The active record of Cosine: DbObject::insert, update and delete of one *)
(* PHP process, on the counted transaction of DbPDO.                       *)
(*                                                                         *)
(* Every save opens a level of the transaction (trx_token counts levels,   *)
(* only the first one begins a transaction of the connection), validates,  *)
(* runs the "before" listeners, executes its SQL, writes the bookkeeping   *)
(* rows of its aspects, runs the "after" listeners and commits its level.  *)
(* A listener saves objects of its own, so saves nest; Web::callHook       *)
(* swallows whatever a listener throws.  One level's rollback ends the     *)
(* whole transaction and sets the counter to zero.                         *)
(*                                                                         *)
(* A row holds the number of the save that wrote it last, NoRow when there *)
(* is none; "work" is what this connection reads, "durable" what survives  *)
(* it.  The call stack is frame[1] .. frame[depth].                        *)
(***************************************************************************)
EXTENDS Naturals, FiniteSets

CONSTANTS
    Obj,        \* the objects (one row each)
    MaxDepth,   \* bound: saves active at once
    MaxSaves,   \* bound: saves in a behaviour
    Ops,        \* the operations in use, a subset of Op
    Faults      \* what may go wrong, a subset of AllFaults

AllFaults == {"sql",       \* a statement fails with a PDOException
              "hook",      \* ... also below a listener
              "invalid",   \* a validated object breaks its rules
              "statement", \* raw SQL leaves a PDOStatement in the query slot
              "error"}     \* a frame's code raises a PHP \Error

Op == {"insert", "update", "delete",
       "unit"}      \* an override that saves several objects in one transaction

ASSUME ObjAssumption == Obj # {}
ASSUME BoundAssumption == MaxDepth \in Nat \ {0} /\ MaxSaves \in Nat
ASSUME FaultAssumption == Faults \subseteq AllFaults
ASSUME OpsAssumption == Ops \subseteq Op

VARIABLES
    token,      \* DbPDO::$trx_token
    inTrx,      \* PDO::inTransaction()
    durable,    \* committed rows
    work,       \* rows as this connection reads them
    depth,      \* number of active saves
    frame,      \* the active saves, innermost last
    hasId,      \* objects of this process whose id is set
    saves,      \* number of saves begun so far
    statement,  \* DbPDO::$query holds a PDOStatement
    rolled,     \* history: a transaction was rolled back since the outermost save began
    last        \* history: how the last outermost save ended

vars == <<token, inTrx, durable, work, depth, frame, hasId, saves, statement,
          rolled, last>>
trx == <<token, inTrx, durable, work, rolled, statement>>

NoRow == 0
Stamp == 0 .. MaxSaves
Phase == {"validate", "before", "write", "aspect", "after", "index", "body", "commit", "catch"}
Frame == [op: Op, obj: Obj, at: Phase, via: {"caller", "hook", "inner"},
          n: Stamp, valid: BOOLEAN]
Result == {"none", "true", "errors", "thrown", "void"}
SomeObj == CHOOSE o \in Obj : TRUE
NoFrame == [op |-> "unit", obj |-> SomeObj, at |-> "catch", via |-> "caller",
            n |-> 0, valid |-> TRUE]
NoCall == [op |-> "unit", obj |-> SomeObj, n |-> 0, valid |-> TRUE, res |-> "none"]

Top == frame[depth]

TypeOK ==
    /\ token \in Nat
    /\ inTrx \in BOOLEAN
    /\ durable \in [Obj -> Stamp]
    /\ work \in [Obj -> Stamp]
    /\ depth \in 0 .. MaxDepth
    /\ frame \in [1 .. MaxDepth -> Frame]
    /\ hasId \in [Obj -> BOOLEAN]
    /\ saves \in Stamp
    /\ statement \in BOOLEAN
    /\ rolled \in BOOLEAN
    /\ last \in [op: Op, obj: Obj, n: Stamp, valid: BOOLEAN, res: Result]

Init ==
    /\ token = 0
    /\ inTrx = FALSE
    /\ durable = [o \in Obj |-> NoRow]
    /\ work = durable
    /\ depth = 0
    /\ frame = [i \in 1 .. MaxDepth |-> NoFrame]
    /\ hasId = [o \in Obj |-> FALSE]
    /\ saves = 0
    /\ statement = FALSE
    /\ rolled = FALSE
    /\ last = NoCall

-----------------------------------------------------------------------------
(* DbPDO: the counted transaction.                                         *)

\* Mutants of the operations below: what a slip in DbPDO or DbObject would do.
CommitWithoutGuard ==
    /\ token' = token - 1
    /\ inTrx' = IF token = 1 THEN FALSE ELSE inTrx
    /\ durable' = IF token = 1 /\ inTrx THEN work ELSE durable
    /\ UNCHANGED <<work, rolled, statement>>
CommitAnyLevel ==
    /\ token' = IF token = 0 THEN 0 ELSE token - 1
    /\ inTrx' = IF token = 1 THEN FALSE ELSE inTrx
    /\ durable' = IF inTrx THEN work ELSE durable
    /\ UNCHANGED <<work, rolled, statement>>
CommitLosesLevel ==
    /\ token' = IF token = 1 THEN 0 ELSE token
    /\ inTrx' = IF token = 1 THEN FALSE ELSE inTrx
    /\ durable' = IF token = 1 /\ inTrx THEN work ELSE durable
    /\ UNCHANGED <<work, rolled, statement>>
CommitAtSecondLevel ==
    /\ token' = IF token = 0 THEN 0 ELSE token - 1
    /\ inTrx' = IF token = 1 THEN FALSE ELSE inTrx
    /\ durable' = IF token = 2 /\ inTrx THEN work ELSE durable
    /\ work' = IF token = 1 THEN durable' ELSE work
    /\ UNCHANGED <<rolled, statement>>
RollbackKeepsToken ==
    /\ inTrx' = IF token > 0 THEN FALSE ELSE inTrx
    /\ work' = IF token > 0 /\ inTrx THEN durable ELSE work
    /\ rolled' = IF token > 0 THEN TRUE ELSE rolled
    /\ UNCHANGED <<durable, token, statement>>

startTransaction ==
    /\ token' = token + 1
    /\ inTrx' = TRUE
    /\ UNCHANGED <<durable, work>>

commitTransaction ==
    /\ token' = IF token = 0 THEN 0 ELSE token - 1
    /\ inTrx' = IF token = 1 THEN FALSE ELSE inTrx
    /\ durable' = IF token = 1 /\ inTrx THEN work ELSE durable
    /\ UNCHANGED <<work, rolled, statement>>

\* clearSql calls a method PDOStatement does not have: an \Error before the rollback.
ClearSqlRaises == token > 0 /\ statement

rollbackTransaction ==
    /\ ~ClearSqlRaises
    /\ token' = 0
    /\ inTrx' = IF token > 0 THEN FALSE ELSE inTrx
    /\ work' = IF token > 0 /\ inTrx THEN durable ELSE work
    /\ rolled' = IF token > 0 THEN TRUE ELSE rolled
    /\ UNCHANGED <<durable, statement>>

\* Outside a transaction the connection autocommits each statement.
Execute(o, stamp) ==
    /\ work' = [work EXCEPT ![o] = stamp]
    /\ durable' = IF inTrx THEN durable ELSE work'
    /\ statement' = FALSE
    /\ UNCHANGED <<token, inTrx, rolled>>

-----------------------------------------------------------------------------
(* The call stack.                                                         *)

FirstPhase(op, validated) ==
    CASE op = "unit" -> "body"
      [] op \in {"insert", "update"} /\ validated -> "validate"
      [] OTHER -> "before"

\* insert runs its aspects before the "after" listeners, update and delete after them; the
\* listeners of indexChange follow the "after" ones, in update behind the aspects ("index").
NextPhase(op, at) ==
    CASE at = "validate" -> "before"
      [] at = "before" -> "write"
      [] at = "write" -> IF op = "insert" THEN "aspect" ELSE "after"
      [] at = "aspect" -> CASE op = "insert" -> "after"
                            [] op = "update" -> "index"
                            [] OTHER -> "commit"
      [] at = "after" -> IF op = "insert" THEN "commit" ELSE "aspect"
      [] OTHER -> "commit"

Enter(op, o, via, validated, valid, stack) ==
    /\ depth < MaxDepth /\ saves < MaxSaves
    /\ saves' = saves + 1
    /\ depth' = depth + 1
    /\ frame' = [stack EXCEPT ![depth + 1] =
           [op |-> op, obj |-> o, at |-> FirstPhase(op, validated), via |-> via,
            n |-> saves + 1, valid |-> valid]]
    /\ startTransaction

\* insertOrUpdate: an object without an id is inserted, any other one is updated.
Callable(op, o) == op # "unit" => hasId[o] = (op # "insert")

\* A listener or an aspect saves other objects than the ones being saved; a unit may save
\* its own.
Related(o) == \A i \in 1 .. depth : frame[i].obj = o => i = depth /\ Top.op = "unit"

Validity == IF "invalid" \in Faults THEN BOOLEAN ELSE {TRUE}

GoTo(at) == frame' = [frame EXCEPT ![depth].at = at]

\* The innermost save returns res; an exception reaches the caller's catch block
\* unless a listener made the call.
Return(res) ==
    /\ depth' = depth - 1
    /\ frame' = [i \in 1 .. MaxDepth |->
           IF i = depth THEN NoFrame
           ELSE IF res = "thrown" /\ i = depth - 1 /\ Top.via = "inner"
                THEN [frame[i] EXCEPT !.at = "catch"]
                ELSE frame[i]]
    /\ last' = IF depth = 1
               THEN [op |-> Top.op, obj |-> Top.obj, n |-> Top.n,
                     valid |-> Top.valid, res |-> res]
               ELSE last

-----------------------------------------------------------------------------
(* The operations.                                                         *)

\* A request saves an object, or opens a unit of several saves (Task::insert, User::delete).
Call(op, o, valid) ==
    /\ depth = 0
    /\ Callable(op, o)
    /\ Enter(op, o, "caller", TRUE, valid, frame)
    /\ rolled' = FALSE
    /\ last' = NoCall
    /\ UNCHANGED <<hasId, statement>>

\* A listener of the innermost save saves a related object.
HookCall(op, o, valid) ==
    /\ depth > 0 /\ Top.at \in {"before", "after", "index"}
    /\ Related(o) /\ Callable(op, o)
    /\ Enter(op, o, "hook", TRUE, valid, frame)
    /\ UNCHANGED <<hasId, statement, rolled, last>>

\* An aspect writes its bookkeeping row (ObjectModification, ObjectIndex): no rules to break.
AspectCall(op, o) ==
    /\ depth > 0 /\ Top.at = "aspect" /\ op # "unit"
    /\ Related(o) /\ Callable(op, o)
    /\ Enter(op, o, "inner", FALSE, TRUE, frame)
    /\ UNCHANGED <<hasId, statement, rolled, last>>

\* The body of a unit saves its object and further ones.
BodyCall(op, o, valid) ==
    /\ depth > 0 /\ Top.at = "body"
    /\ Related(o) /\ Callable(op, o)
    /\ Enter(op, o, "inner", TRUE, valid, frame)
    /\ UNCHANGED <<hasId, statement, rolled, last>>

\* insert tests isset($response['success']), which is set to false on failure: the object
\* passes.  update tests the value, rolls back and returns the errors.
Validate ==
    /\ depth > 0 /\ Top.at = "validate"
    /\ \/ /\ Top.op = "insert" \/ Top.valid
          /\ GoTo("before")
          /\ UNCHANGED <<trx, depth, last>>
       \/ /\ Top.op = "update" /\ ~Top.valid
          /\ rollbackTransaction
          /\ Return("errors")
    /\ UNCHANGED <<hasId, saves>>

\* No further listener, aspect or statement of this phase.
Proceed ==
    /\ depth > 0 /\ Top.at \in {"before", "aspect", "after", "index", "body"}
    /\ GoTo(NextPhase(Top.op, Top.at))
    /\ UNCHANGED <<trx, depth, hasId, saves, last>>

\* The SQL of the innermost save.  insert sets the id; an update of a missing row matches nothing.
Write ==
    /\ depth > 0 /\ Top.at = "write"
    /\ Execute(Top.obj, CASE Top.op = "insert" -> Top.n
                          [] Top.op = "update" -> IF work[Top.obj] = NoRow THEN NoRow ELSE Top.n
                          [] OTHER -> NoRow)
    /\ hasId' = [hasId EXCEPT ![Top.obj] = TRUE]
    /\ GoTo(NextPhase(Top.op, Top.at))
    /\ UNCHANGED <<depth, saves, last>>

\* delete of a class with is_deleted: an unvalidated update of the same object.
SoftDelete ==
    /\ depth > 0 /\ Top.at = "write" /\ Top.op = "delete"
    /\ Enter("update", Top.obj, "inner", FALSE, TRUE,
             [frame EXCEPT ![depth].at = "after"])
    /\ UNCHANGED <<hasId, statement, rolled, last>>

\* The statement fails: control goes to the catch block.
SqlFails ==
    /\ depth > 0 /\ Top.at = "write"
    /\ "sql" \in Faults
    /\ "hook" \in Faults \/ \A i \in 1 .. depth : frame[i].via # "hook"
    /\ GoTo("catch")
    /\ statement' = FALSE
    /\ UNCHANGED <<token, inTrx, durable, work, rolled, depth, hasId, saves, last>>

\* Mutant: the exception is swallowed.
CatchSwallows ==
    /\ depth > 0 /\ Top.at = "catch"
    /\ rollbackTransaction
    /\ Return("true")
    /\ UNCHANGED <<hasId, saves>>

\* catch (Exception): roll back and rethrow; a unit swallows the exception.
Catch ==
    /\ depth > 0 /\ Top.at = "catch"
    /\ rollbackTransaction
    /\ Return(IF Top.op = "unit" THEN "void" ELSE "thrown")
    /\ UNCHANGED <<hasId, saves>>

\* The innermost save is done.
Commit ==
    /\ depth > 0 /\ Top.at = "commit"
    /\ commitTransaction
    /\ Return(IF Top.op = "unit" THEN "void" ELSE "true")
    /\ UNCHANGED <<hasId, saves>>

\* No catch (Exception) stops an \Error: it unwinds to the listener call that catches
\* Throwable, or out of the outermost save, and no level is rolled back on the way.
Unwind(d) ==
    /\ d > 0 => frame[d + 1].via = "hook"
    /\ \A i \in d + 2 .. depth : frame[i].via # "hook"
    /\ d = 0 => frame[1].via # "hook"
    /\ depth' = d
    /\ frame' = [i \in 1 .. MaxDepth |-> IF i > d THEN NoFrame ELSE frame[i]]
    /\ last' = IF d = 0
               THEN [op |-> frame[1].op, obj |-> frame[1].obj, n |-> frame[1].n,
                     valid |-> frame[1].valid, res |-> "thrown"]
               ELSE last

PhpError ==
    /\ depth > 0
    /\ \/ "error" \in Faults /\ Top.at \in {"validate", "write", "aspect", "body"}
       \/ ClearSqlRaises /\ Top.at = "validate" /\ Top.op = "update" /\ ~Top.valid
    /\ \E d \in 0 .. depth - 1 : Unwind(d)
    /\ UNCHANGED <<trx, hasId, saves>>

\* Code around or between the saves runs DbPDO::sql.
RawQuery ==
    /\ "statement" \in Faults
    /\ depth > 0 => Top.at \in {"before", "after", "index", "body"}
    /\ statement' = TRUE
    /\ UNCHANGED <<token, inTrx, durable, work, rolled, depth, frame, hasId, saves, last>>

\* The process ends, at rest or killed in the middle: the server discards an open
\* transaction, the next process starts with a counter of zero and loads what is there.
EndProcess ==
    /\ saves > 0
    /\ token' = 0 /\ inTrx' = FALSE
    /\ work' = durable
    /\ depth' = 0
    /\ frame' = [i \in 1 .. MaxDepth |-> NoFrame]
    /\ hasId' = [o \in Obj |-> durable[o] # NoRow]
    /\ rolled' = FALSE /\ statement' = FALSE
    /\ last' = NoCall
    /\ UNCHANGED <<durable, saves>>

Next ==
    \/ \E op \in Ops, o \in Obj, valid \in Validity :
          Call(op, o, valid) \/ HookCall(op, o, valid) \/ BodyCall(op, o, valid)
    \/ \E op \in Ops, o \in Obj : AspectCall(op, o)
    \/ Validate \/ Proceed \/ Write \/ SoftDelete \/ SqlFails \/ Catch \/ Commit
    \/ PhpError \/ RawQuery \/ EndProcess

Spec == Init /\ [][Next]_vars

-----------------------------------------------------------------------------
(* Properties.                                                             *)

\* The counter and the connection agree: a level is open exactly while the connection
\* has a transaction, whatever failed or was swallowed in between (DbPDO).
TokenOwnsTransaction == token > 0 <=> inTrx

\* A save that ends, however it ends, leaves no transaction open behind it, unless an
\* \Error escaped the catch blocks of DbObject.
Escapes == {"error", "statement"}
NothingOpenAtRest ==
    depth = 0 /\ Faults \cap Escapes = {} => ~inTrx /\ work = durable

\* An outermost save that returns true and that no rollback below it undid has its row
\* in the database for good - or, where an \Error before or within it left a level of the
\* counter open (DbObject.php:730, DbPDO.php:610), as saved in the transaction that is
\* open still, where it waits for a commit that may not come (DbObject::insert, update,
\* delete returning true).
Outcome(op, n) == CASE op = "insert" -> {n}
                    [] op = "update" -> {NoRow, n}
                    [] OTHER -> {NoRow} \cup (n + 1 .. MaxSaves)
AsSaved(rows, c) == rows[c.obj] \in Outcome(c.op, c.n)
Stored(c) == AsSaved(durable, c)
Pending(c) == token > 0 /\ inTrx /\ AsSaved(work, c)
ReportedSaveIsKept ==
    depth = 0 /\ ~rolled /\ last.res = "true" =>
        \/ Stored(last)
        \/ Faults \cap Escapes # {} /\ Pending(last)

\* Atomicity of a nest of saves: until some level of it is rolled back, nothing of it is
\* durable before the outermost save returns (DbPDO commits the first level only).
DurableOnlyAtTheEnd == [][durable' # durable => depth' = 0 \/ rolled]_vars

\* The same promises as one abstract specification: see AtomicSave.
Atomic == INSTANCE AtomicSave WITH
    db <- durable,
    call <- IF depth = 0 THEN {} ELSE {<<frame[1].op, frame[1].obj>>},
    result <- last.res
ImplementsAtomicSave == Atomic!Spec

\* "@return boolean|array true or Array of validation errors" (DbObject.php:647, 748):
\* true is said of a save whose row is in the database.
TrueMeansStored == depth = 0 /\ last.res = "true" => Stored(last)
=============================================================================
