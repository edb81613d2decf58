------------------------------- MODULE Migration -------------------------------
(***************************************************************************)
(* MigrationService: running, rolling back and rolling back by batch the   *)
(* migrations of the modules, by one process at a time.                    *)
(*                                                                         *)
(* runMigrations takes each module's migrations by timestamp, each in a    *)
(* transaction of its own: begin, up(), the migration's row, commit.  If   *)
(* there are no rows it first installs two migrations of the module admin, *)
(* the one that makes the table of rows and a later one, in no transaction.*)
(* rollback takes all its migrations in one transaction.  MySQL commits    *)
(* implicitly when it changes a table, so a migration that does ("Ddl")    *)
(* ends the transaction it runs in, and what follows it is autocommitted.  *)
(*                                                                         *)
(* The process may die, a migration may throw.  "applied" is what up() and *)
(* down() have done to the schema, "rows" the table migration.             *)
(***************************************************************************)
EXTENDS Naturals, FiniteSets, FiniteSetsExt

CONSTANTS
    Module,
    Mig,        \* the migrations on disk
    Mod,        \* the module of each
    Time,       \* the timestamp in its file name
    Ddl,        \* those that change tables
    HasMessage, \* those with a text to confirm before they run
    AdminInitialMigration, \* the one that makes the table migration
    AdminMigrationSeed,    \* the other one of a fresh install
    None,       \* stands for no migration, no module
    MaxCalls,   \* bound: calls of the service
    MaxFaults   \* bound: exceptions and deaths

ASSUME MigAssumption == IsFiniteSet(Mig)
ASSUME ModAssumption == Mod \in [Mig -> Module] /\ None \notin Mig \cup Module
ASSUME TimeAssumption ==
    /\ Time \in [Mig -> Nat]
    /\ \A m, n \in Mig : Mod[m] = Mod[n] /\ Time[m] = Time[n] => m = n
ASSUME SubsetAssumption == Ddl \subseteq Mig /\ HasMessage \subseteq Mig
ASSUME InitialAssumption ==
    /\ {AdminInitialMigration, AdminMigrationSeed} \subseteq Ddl \ HasMessage
    /\ Mod[AdminInitialMigration] = Mod[AdminMigrationSeed]
    /\ AdminInitialMigration # AdminMigrationSeed
    /\ \A m \in Mig : Mod[m] = Mod[AdminInitialMigration] =>
                         Time[AdminInitialMigration] <= Time[m]
ASSUME BoundAssumption == MaxCalls \in Nat /\ MaxFaults \in Nat

VARIABLES
    applied,    \* the state of each migration's schema change
    rows,       \* the table migration
    nextId,     \* its auto increment
    inTrx,      \* the connection has a transaction
    saved,      \* what a rollback of that transaction restores
    proc,       \* the call in progress
    calls, faults,
    cut,        \* history: something failed outside a transaction, or the table was dropped
    last        \* history: the rollback that ended last, and the rows it began with

vars == <<applied, rows, nextId, inTrx, saved, proc, calls, faults, cut, last>>

Id == 1 .. (MaxCalls * Cardinality(Mig))
Batch == 1 .. (MaxCalls + 1)
RowType == [id: Id, mig: Mig, batch: Batch]
Resting == [pc |-> "idle", todo |-> {}, cur |-> None, batch |-> 0, ignore |-> TRUE,
            continuing |-> FALSE, list |-> {}, first |-> None, start |-> {}, ok |-> TRUE]
NoRollback == [op |-> "none", mig |-> None, start |-> {}]

TypeOK ==
    /\ applied \in [Mig -> {"down", "half", "up"}]
    /\ rows \subseteq RowType
    /\ \A r, s \in rows : r.mig = s.mig \/ r.id = s.id => r = s
    /\ nextId \in Nat
    /\ inTrx \in BOOLEAN
    /\ proc.pc \in {"idle", "install", "register", "next", "up", "record",
                    "back", "down", "delete", "list"}
    /\ proc.todo \subseteq Mig /\ proc.list \subseteq Mig
    /\ proc.cur \in Mig \cup {None}
    /\ calls \in 0 .. MaxCalls /\ faults \in 0 .. MaxFaults
    /\ cut \in {"no", "failed", "dropped"}

Init ==
    /\ applied = [m \in Mig |-> "down"]
    /\ rows = {} /\ nextId = 1
    /\ inTrx = FALSE
    /\ saved = [applied |-> applied, rows |-> {}]
    /\ proc = Resting
    /\ calls = 0 /\ faults = 0 /\ cut = "no"
    /\ last = NoRollback

Recorded == {r.mig : r \in rows}
RowOf(m) == CHOOSE r \in rows : r.mig = m
\* Mutant: the sort of the migrations turned round.
Latest(ms) == CHOOSE m \in ms : \A n \in ms : Time[m] >= Time[n]
Earliest(ms) == CHOOSE m \in ms : \A n \in ms : Time[m] <= Time[n]
InitialMigrations == {AdminInitialMigration, AdminMigrationSeed}
OfModule(ms, m) == {n \in ms : Mod[n] = Mod[m]}
NextBatch == 1 + Max({0} \cup {r.batch : r \in rows})
Begin == inTrx' = TRUE /\ saved' = [applied |-> applied, rows |-> rows]

-----------------------------------------------------------------------------
(* runMigrations.                                                          *)

\* Mutant: what is recorded is not left out.
RunAgain(todo, ignore, continuing) ==
    /\ proc.pc = "idle" /\ calls < MaxCalls
    /\ calls' = calls + 1
    /\ last' = NoRollback
    /\ proc' = [Resting EXCEPT !.pc = "next", !.todo = todo, !.ignore = ignore,
                               !.continuing = continuing]
    /\ UNCHANGED <<applied, rows, nextId, inTrx, saved, faults, cut>>

\* All modules, or one, or one up to the timestamp of a file.  Without rows the initial
\* migrations are installed first; what has a row by then is left out.
RunMigrations(todo, ignore, continuing) ==
    /\ proc.pc = "idle" /\ calls < MaxCalls
    /\ calls' = calls + 1
    /\ last' = NoRollback
    /\ LET run == [Resting EXCEPT !.ignore = ignore, !.continuing = continuing]
       IN  proc' = IF rows = {}
                   THEN [run EXCEPT !.pc = "install", !.cur = AdminInitialMigration,
                                    !.todo = todo \ InitialMigrations]
                   ELSE [run EXCEPT !.pc = "next", !.todo = todo \ Recorded]
    /\ UNCHANGED <<applied, rows, nextId, inTrx, saved, faults, cut>>

\* installInitialMigration: up() and the row of each, the batch written as 1.
Install ==
    /\ proc.pc = "install"
    /\ applied' = [applied EXCEPT ![proc.cur] = "up"]
    /\ proc' = [proc EXCEPT !.pc = "register"]
    /\ UNCHANGED <<rows, nextId, inTrx, saved, calls, faults, cut, last>>

Register ==
    /\ proc.pc = "register"
    /\ rows' = rows \cup {[id |-> nextId, mig |-> proc.cur, batch |-> 1]}
    /\ nextId' = nextId + 1
    /\ proc' = IF proc.cur = AdminInitialMigration
               THEN [proc EXCEPT !.pc = "install", !.cur = AdminMigrationSeed]
               ELSE [proc EXCEPT !.pc = "next", !.cur = None]
    /\ UNCHANGED <<applied, inTrx, saved, calls, faults, cut, last>>

UpTo(f) == {m \in Mig : Mod[m] = Mod[f] /\ Time[m] <= Time[f]}

\* What is left of the module whose migrations are being run.
AtHand == IF proc.cur = None THEN {} ELSE OfModule(proc.todo, proc.cur)

\* The next migration of the module at hand, or of another one.  A text to confirm ends
\* the request with a redirect, unless texts are ignored; going on ignores one of them.
StartMigration(m) ==
    /\ proc.pc = "next"
    /\ m \in proc.todo
    /\ m = Earliest(OfModule(proc.todo, m))
    /\ AtHand # {} => m \in AtHand
    /\ IF m \in HasMessage /\ ~proc.ignore /\ ~proc.continuing
       THEN proc' = Resting /\ UNCHANGED <<inTrx, saved>>
       ELSE /\ proc' = [proc EXCEPT !.pc = "up", !.cur = m, !.todo = @ \ {m},
                                    !.ignore = IF proc.continuing THEN FALSE ELSE @,
                                    !.continuing = FALSE]
            /\ Begin
    /\ UNCHANGED <<applied, rows, nextId, calls, faults, cut, last>>

Up ==
    /\ proc.pc = "up"
    /\ applied' = [applied EXCEPT ![proc.cur] = "up"]
    /\ inTrx' = (inTrx /\ proc.cur \notin Ddl)
    /\ proc' = [proc EXCEPT !.pc = "record"]
    /\ UNCHANGED <<rows, nextId, saved, calls, faults, cut, last>>

\* The row of the migration, and the commit.  One number for all of a request.
Record ==
    /\ proc.pc = "record"
    /\ LET batch == IF proc.batch = 0 THEN NextBatch ELSE proc.batch
       IN  /\ rows' = rows \cup {[id |-> nextId, mig |-> proc.cur, batch |-> batch]}
           /\ proc' = [proc EXCEPT !.pc = "next", !.batch = batch]
    /\ nextId' = nextId + 1
    /\ inTrx' = FALSE
    /\ UNCHANGED <<applied, saved, calls, faults, cut, last>>

EndRun ==
    /\ proc.pc = "next" /\ proc.todo = {}
    /\ proc' = Resting
    /\ UNCHANGED <<applied, rows, nextId, inTrx, saved, calls, faults, cut, last>>

-----------------------------------------------------------------------------
(* rollback and batchRollback.                                             *)

\* Mutant: without the migration of the file itself.
SuffixAfter(m) == {r.mig : r \in {q \in rows : Mod[q.mig] = Mod[m] /\ q.id > RowOf(m).id}}

\* The migration of the file and those of its module with a larger id.
Suffix(m) == {r.mig : r \in {q \in rows : Mod[q.mig] = Mod[m] /\ q.id >= RowOf(m).id}}

StartRollback(m, from) ==
    /\ proc' = [from EXCEPT !.pc = "back", !.todo = Suffix(m), !.cur = m]
    /\ Begin

Rollback(m) ==
    /\ proc.pc = "idle" /\ calls < MaxCalls
    /\ m \in Recorded
    /\ calls' = calls + 1
    /\ last' = NoRollback
    /\ StartRollback(m, [Resting EXCEPT !.first = m, !.start = rows])
    /\ UNCHANGED <<applied, rows, nextId, faults, cut>>

\* Every migration of the newest batch in turn; one that is gone by then is passed over.
BatchRollback ==
    /\ proc.pc = "idle" /\ calls < MaxCalls
    /\ calls' = calls + 1
    /\ last' = NoRollback
    /\ proc' = [Resting EXCEPT !.pc = "list", !.start = rows,
                  !.list = {r.mig : r \in {q \in rows : q.batch = NextBatch - 1}}]
    /\ UNCHANGED <<applied, rows, nextId, inTrx, saved, faults, cut>>

BatchNext(m) ==
    /\ proc.pc = "list"
    /\ m \in proc.list
    /\ IF m \in Recorded
       THEN StartRollback(m, [proc EXCEPT !.list = @ \ {m}])
       ELSE proc' = [proc EXCEPT !.list = @ \ {m}] /\ UNCHANGED <<inTrx, saved>>
    /\ UNCHANGED <<applied, rows, nextId, calls, faults, cut, last>>

BatchEnd ==
    /\ proc.pc = "list" /\ proc.list = {}
    /\ proc' = Resting
    /\ last' = IF proc.ok THEN [op |-> "batch", mig |-> None, start |-> proc.start] ELSE last
    /\ UNCHANGED <<applied, rows, nextId, inTrx, saved, calls, faults, cut>>

\* The smallest id first.
NextDown(m) ==
    /\ proc.pc = "back"
    /\ m \in proc.todo
    /\ \A n \in proc.todo : RowOf(m).id <= RowOf(n).id
    /\ proc' = [proc EXCEPT !.pc = "down", !.cur = m, !.todo = @ \ {m}]
    /\ UNCHANGED <<applied, rows, nextId, inTrx, saved, calls, faults, cut, last>>

\* AdminInitialMigration takes the table with it.
TakesTable == proc.pc = "down" /\ proc.cur = AdminInitialMigration
TableDropped == rows' = {} /\ nextId' = 1 /\ cut' = "dropped"

Down ==
    /\ proc.pc = "down"
    /\ applied' = [applied EXCEPT ![proc.cur] = "down"]
    /\ inTrx' = (inTrx /\ proc.cur \notin Ddl)
    /\ proc' = [proc EXCEPT !.pc = "delete"]
    /\ IF TakesTable THEN TableDropped ELSE UNCHANGED <<rows, nextId, cut>>
    /\ UNCHANGED <<saved, calls, faults, last>>

\* Mutant: the rows only when all are down.
DeleteTogether ==
    /\ proc.pc = "delete"
    /\ proc.cur # AdminInitialMigration
    /\ rows' = IF proc.todo = {} THEN {r \in rows : applied[r.mig] = "up"} ELSE rows
    /\ proc' = [proc EXCEPT !.pc = "back"]
    /\ UNCHANGED <<applied, nextId, inTrx, saved, calls, faults, cut, last>>

DeleteRow ==
    /\ proc.pc = "delete"
    /\ proc.cur # AdminInitialMigration
    /\ rows' = rows \ {RowOf(proc.cur)}
    /\ proc' = [proc EXCEPT !.pc = "back"]
    /\ UNCHANGED <<applied, nextId, inTrx, saved, calls, faults, cut, last>>

\* There is no table left to delete the row from: an exception in the middle, after which
\* a rollback by batch fails as well.
TableGone ==
    /\ proc.pc = "delete"
    /\ proc.cur = AdminInitialMigration
    /\ proc' = Resting
    /\ last' = IF proc.first = None THEN last
               ELSE [op |-> "rollback", mig |-> proc.first, start |-> proc.start]
    /\ UNCHANGED <<applied, rows, nextId, inTrx, saved, calls, faults, cut>>

\* All are down: commit.
EndRollback ==
    /\ proc.pc = "back" /\ proc.todo = {}
    /\ inTrx' = FALSE
    /\ IF proc.first = None
       THEN proc' = [proc EXCEPT !.pc = "list"] /\ UNCHANGED last
       ELSE /\ proc' = Resting
            /\ last' = [op |-> "rollback", mig |-> proc.first, start |-> proc.start]
    /\ UNCHANGED <<applied, rows, nextId, saved, calls, faults, cut>>

-----------------------------------------------------------------------------
(* What goes wrong.                                                        *)

Failed == cut' = IF cut = "no" THEN "failed" ELSE cut

\* Mutant: the catch block without the rollback, the next commit keeps what was done.
UndoNothing ==
    /\ inTrx' = FALSE
    /\ UNCHANGED <<applied, rows, nextId>>
    /\ IF inTrx THEN UNCHANGED cut ELSE Failed

\* Everything since the begin is undone, if the transaction is still there.
Undo ==
    /\ inTrx' = FALSE
    /\ IF inTrx
       THEN applied' = saved.applied /\ rows' = saved.rows /\ UNCHANGED cut
       ELSE UNCHANGED <<applied, rows>> /\ Failed
    /\ UNCHANGED nextId

\* What a migration has changed before it fails stays, if it changes tables or there is no
\* transaction; the table of rows is the first that goes with AdminInitialMigration.
Half ==
    /\ proc.pc \in {"install", "up", "down"}
    /\ proc.cur \in Ddl \/ ~inTrx
    /\ applied' = [applied EXCEPT ![proc.cur] = "half"]
    /\ inTrx' = FALSE
    /\ IF TakesTable THEN TableDropped ELSE UNCHANGED <<rows, nextId>> /\ Failed

\* A statement throws.  runMigrations goes on with the next module, batchRollback with
\* the next migration; an initial migration takes the whole call with it.
Throws ==
    /\ faults < MaxFaults
    /\ faults' = faults + 1
    /\ proc.pc \in {"install", "register", "up", "record", "down", "delete"}
    /\ Undo \/ Half
    /\ proc' = CASE proc.pc \in {"up", "record"} ->
                      [proc EXCEPT !.pc = "next", !.todo = @ \ OfModule(@, proc.cur)]
                 [] proc.pc \in {"down", "delete"} /\ proc.first = None ->
                      [proc EXCEPT !.pc = "list", !.ok = FALSE]
                 [] OTHER -> Resting
    /\ UNCHANGED <<saved, calls, last>>

\* The process dies; the server rolls an open transaction back.
Dies ==
    /\ faults < MaxFaults
    /\ faults' = faults + 1
    /\ proc.pc \in {"install", "register", "up", "record", "back", "down", "delete"}
    /\ Undo \/ Half
    /\ proc' = Resting
    /\ UNCHANGED <<saved, calls, last>>

Next ==
    \/ \E ignore, continuing \in BOOLEAN :
          \/ RunMigrations(Mig, ignore, continuing)
          \/ \E m \in Mig : RunMigrations(UpTo(m), ignore, continuing)
    \/ \E m \in Mig : StartMigration(m) \/ Rollback(m) \/ BatchNext(m) \/ NextDown(m)
    \/ Install \/ Register \/ Up \/ Record \/ EndRun
    \/ BatchRollback \/ BatchEnd \/ Down \/ DeleteRow \/ TableGone \/ EndRollback
    \/ Throws \/ Dies

Spec == Init /\ [][Next]_vars

-----------------------------------------------------------------------------
(* Properties.                                                             *)

AtRest == proc.pc = "idle"
Off == {m \in Mig : applied[m] # IF m \in Recorded THEN "up" ELSE "down"}

\* Whatever fails while the transaction of a migration is open leaves no trace: between
\* calls a migration is applied exactly when it has a row (the transactions of
\* runMigrations and rollback).
RowsMatchSchema == AtRest /\ cut = "no" => Off = {}

\* A failure outside a transaction, after a migration has changed a table or while the
\* initial ones are installed, leaves one migration at most whose row does not tell whether
\* it is applied, however many a run or a rollback was about to take.
OneOffPerFailure == AtRest /\ cut # "dropped" => Cardinality(Off) <= faults

\* The rows that installInitialMigration writes have the batch 1, all others a later one.
Initial(r) == r.batch = 1

\* But for the rows of a fresh install, those of a module are its first migrations by
\* timestamp: one that throws keeps the later ones of its module from running.
NoGap ==
    AtRest /\ cut = "no" =>
        \A r \in rows, m \in Mig :
            ~Initial(r) /\ Mod[m] = Mod[r.mig] /\ Time[m] < Time[r.mig] => m \in Recorded

\* The migrations of a fresh install come before all others, which follow by timestamp.
Before(r, q) ==
    IF Initial(r) = Initial(q) THEN Time[r.mig] < Time[q.mig] ELSE Initial(r)

\* Of the rows R, those that a rollback of the module up to migration m takes.
Named(R, m) ==
    {r \in R : Mod[r.mig] = Mod[m] /\ \A q \in R : q.mig = m => ~Before(r, q)}

\* rollback "for a given module up to (and including) the given filename": the rows that
\* go are those of the module from that one on, although the code compares ids.
\* batchRollback takes back the newest batch and nothing else, although it rolls back
\* every later migration of each module it meets.
RollbackIsExact ==
    AtRest /\ cut = "no" =>
        CASE last.op = "rollback" -> rows = last.start \ Named(last.start, last.mig)
          [] last.op = "batch" ->
               rows = {r \in last.start : \E q \in last.start : q.batch > r.batch}
          [] OTHER -> TRUE
=============================================================================
