--------------------------- MODULE MigrationProofs ---------------------------
(***************************************************************************)
(* For any modules, migrations and timestamps and any number of calls: as  *)
(* long as nothing fails outside a transaction, the table of migrations    *)
(* says what is applied, has no gaps, and loses exactly the rows it should *)
(* in a rollback.                                                          *)
(***************************************************************************)
EXTENDS Migration, FiniteSetTheorems, WellFoundedInduction, TLAPS

Rows == [id : Nat, mig : Mig, batch : Nat]
Schema == [Mig -> {"down", "half", "up"}]
InInstall == {"install", "register"}
InRun == {"next", "up", "record"}
InRollback == {"back", "down", "delete"}

SavedType == [applied : Schema, rows : SUBSET Rows]
ProcType ==
    [pc : {"idle", "list"} \cup InInstall \cup InRun \cup InRollback, todo : SUBSET Mig,
     cur : Mig \cup {None}, batch : Nat, ignore : BOOLEAN, continuing : BOOLEAN,
     list : SUBSET Mig, first : Mig \cup {None}, start : SUBSET Rows, ok : BOOLEAN]
LastType ==
    [op : {"none", "rollback", "batch"}, mig : Mig \cup {None}, start : SUBSET Rows]

Types ==
    /\ applied \in Schema
    /\ rows \in SUBSET Rows
    /\ nextId \in Nat \ {0}
    /\ inTrx \in BOOLEAN
    /\ saved \in SavedType
    /\ proc \in ProcType
    /\ last \in LastType

Migs(R) == {r.mig : r \in R}

\* One row for a migration; ids below k follow the order of a module, and the batches.
Sorted(R, k) ==
    \A r \in R :
        /\ r.id < k /\ 1 <= r.batch /\ r.batch <= r.id
        /\ \A s \in R :
              /\ r.mig = s.mig \/ r.id = s.id => r = s
              /\ r.id < s.id => r.batch <= s.batch
              /\ r.id < s.id /\ Mod[r.mig] = Mod[s.mig] => Before(r, s)

Gapless(R) ==
    \A r \in R, m \in Mig :
        ~Initial(r) /\ Mod[m] = Mod[r.mig] /\ Time[m] < Time[r.mig] => m \in Migs(R)

Agrees(A, S) == \A m \in Mig : A[m] = IF m \in S THEN "up" ELSE "down"

\* What is up although it has no row yet, or has a row although it is down.
Done == CASE proc.pc \in {"register", "record"} -> Recorded \cup {proc.cur}
          [] proc.pc = "delete" -> Recorded \ {proc.cur}
          [] OTHER -> Recorded

\* What a rollback has still to take down.
Left == CASE proc.pc = "back" -> proc.todo
          [] proc.pc \in {"down", "delete"} -> proc.todo \cup {proc.cur}
          [] OTHER -> {}

\* The rows that a rollback leaves.
Staying == {r \in rows : r.mig \notin Left}

TableInv == Sorted(rows, nextId) /\ Gapless(Staying) /\ Agrees(applied, Done)

\* A transaction can be rolled back to a table that says what is applied.
SavedInv ==
    inTrx => /\ Sorted(saved.rows, nextId)
             /\ Gapless(saved.rows)
             /\ Agrees(saved.applied, Migs(saved.rows))

Hand == IF proc.pc = "next" THEN {} ELSE {proc.cur}

\* A fresh install begins without rows and leaves out no earlier migration.
InstallInv ==
    proc.pc \in InInstall =>
        /\ proc.cur \in InitialMigrations
        /\ proc.cur = AdminInitialMigration => rows = {}
        /\ \A r \in rows : r.mig = AdminInitialMigration /\ r.batch = 1
        /\ proc.cur = AdminMigrationSeed => rows # {}
        /\ proc.todo \cap InitialMigrations = {}
        /\ \A m \in proc.todo, n \in Mig : Mod[m] = Mod[n] /\ Time[n] < Time[m] =>
               n \in proc.todo \cup InitialMigrations
        /\ proc.batch = 0

\* Nothing is run before the earlier migrations of its module, nor before the first row.
RunInv ==
    proc.pc \in InRun =>
        /\ proc.todo \cap Recorded = {}
        /\ \A m \in proc.todo, n \in Mig : Mod[m] = Mod[n] /\ Time[n] < Time[m] =>
               n \in proc.todo \cup Recorded \cup Hand
        /\ rows # {}
        /\ proc.batch < nextId
        /\ proc.batch # 0 => proc.batch # 1 /\ \A r \in rows : r.batch <= proc.batch
        /\ proc.pc # "next" =>
               /\ proc.cur \in Mig \ (proc.todo \cup Recorded)
               /\ \A n \in Mig : Mod[n] = Mod[proc.cur] /\ Time[n] < Time[proc.cur] =>
                      n \in Recorded
               /\ inTrx => saved.rows = rows

\* A rollback has taken down what it should, but for what is left.
BackInv ==
    proc.pc \in InRollback =>
        /\ proc.todo \subseteq Recorded
        /\ proc.pc # "back" => proc.cur \in Recorded \ proc.todo
        /\ proc.pc = "delete" => proc.cur # AdminInitialMigration
        /\ proc.first # None =>
               /\ rows = {r \in proc.start : \/ r \notin Named(proc.start, proc.first)
                                             \/ r.mig \in Left}
               /\ \A r \in proc.start : r.mig \in Left => r \in Named(proc.start, proc.first)

\* The rows of the newest batch of the table R.
Newest(R) == {r \in R : \A q \in R : q.batch <= r.batch}

\* A rollback of the newest batch has left the other rows alone, and will meet the rest
\* of the batch.
BatchInv ==
    /\ proc.pc = "list" => proc.first = None
    /\ proc.pc \in {"list"} \cup InRollback /\ proc.first = None /\ proc.ok =>
           /\ Sorted(proc.start, nextId) /\ rows \subseteq proc.start
           /\ proc.list \cup Left \subseteq Migs(Newest(proc.start))
           /\ proc.start \ Newest(proc.start) \subseteq rows
           /\ \A r \in rows \cap Newest(proc.start) : r.mig \in proc.list \cup Left

LastInv ==
    last.op # "none" =>
        /\ proc.pc = "idle"
        /\ rows = CASE last.op = "rollback" -> last.start \ Named(last.start, last.mig)
                    [] OTHER -> last.start \ Newest(last.start)

Shape == TableInv /\ SavedInv /\ InstallInv /\ RunInv /\ BackInv /\ BatchInv /\ LastInv

Inv == Types /\ Shape

IInv == cut \in {"no", "failed", "dropped"} /\ (cut = "no" => Inv)

------------------------------------------------------------------------------
(* Timestamps, ids and batches are numbers.                                 *)

LEMMA Least ==
    ASSUME NEW S \in SUBSET Nat, S # {}
    PROVE  \E x \in S : \A y \in S : x <= y
  <1> DEFINE T == {0 .. x : x \in S}
             Less == StrictSubsetOrdering(Nat)
  <1>1. T \subseteq FiniteSubsetsOf(Nat) /\ T # {}
    <2>1. \A x \in S : IsFiniteSet(0 .. x) /\ 0 .. x \in SUBSET Nat
      BY FS_Interval
    <2> QED
      BY <2>1 DEF FiniteSubsetsOf
  <1>2. PICK t \in T : \A s \in T : <<s, t>> \notin Less
    BY <1>1, FS_StrictSubsetOrderingWellFounded, WFMin
  <1>3. PICK x \in S : t = 0 .. x
    OBVIOUS
  <1>4. ASSUME NEW y \in S, y < x PROVE FALSE
    <2>1. 0 .. y \in T /\ 0 .. y \subseteq t /\ 0 .. y # t
      BY <1>3, <1>4
    <2>2. 0 .. y \in SUBSET Nat /\ t \in SUBSET Nat
      BY <1>3
    <2> QED
      BY <1>2, <2>1, <2>2 DEF StrictSubsetOrdering
  <1> QED
    BY <1>4

LEMMA Greatest ==
    ASSUME NEW S \in SUBSET Nat, S # {}, NEW k \in Nat, \A x \in S : x <= k
    PROVE  Max(S) \in S /\ \A y \in S : y <= Max(S)
  <1> DEFINE D == {k - x : x \in S}
  <1>1. D \in SUBSET Nat /\ D # {}
    <2>1. \A x \in S : k - x \in Nat
      OBVIOUS
    <2> QED
      BY <2>1
  <1>2. PICK d \in D : \A e \in D : d <= e
    BY <1>1, Least
  <1>3. PICK x \in S : d = k - x
    OBVIOUS
  <1>4. ASSUME NEW y \in S PROVE x >= y
    BY <1>2, <1>3, <1>4, k - y \in D
  <1> QED
    BY <1>4 DEF Max

LEMMA EarliestIsFirst ==
    ASSUME NEW S \in SUBSET Mig, NEW m \in S, m = Earliest(S)
    PROVE  \A n \in S : Time[m] <= Time[n]
  <1> DEFINE T == {Time[n] : n \in S}
  <1>1. T \in SUBSET Nat /\ T # {}
    BY TimeAssumption
  <1>2. PICK t \in T : \A u \in T : t <= u
    BY <1>1, Least
  <1>3. \E p \in S : \A n \in S : Time[p] <= Time[n]
    BY <1>2
  <1> QED
    BY <1>3 DEF Earliest

\* The number of the next batch is beyond all, and the last one is that of the newest rows.
LEMMA BatchesGrow ==
    ASSUME Types, Sorted(rows, nextId)
    PROVE  /\ NextBatch \in 1 .. nextId
           /\ \A r \in rows : r.batch < NextBatch
           /\ rows # {} => NextBatch # 1
           /\ Newest(rows) = {r \in rows : r.batch = NextBatch - 1}
  <1> DEFINE S == {0} \cup {r.batch : r \in rows}
  <1>1. /\ S \in SUBSET Nat /\ S # {} /\ nextId - 1 \in Nat
        /\ \A x \in S : x <= nextId - 1
    BY DEF Types, Rows, Sorted
  <1>2. Max(S) \in S /\ \A x \in S : x <= Max(S)
    BY <1>1, Greatest
  <1>3. Max(S) \in Nat /\ Max(S) <= nextId - 1 /\ NextBatch = 1 + Max(S)
    BY <1>1, <1>2 DEF NextBatch
  <1>4. \A r \in rows : r.batch \in Nat /\ r.batch \in S
    BY DEF Types, Rows
  <1>5. \A r \in rows : r.batch <= Max(S)
    BY <1>2, <1>4
  <1>6. ASSUME NEW r \in Newest(rows) PROVE r.batch = Max(S)
    <2>1. Max(S) = 0 \/ \E q \in rows : q.batch = Max(S)
      BY <1>2
    <2> HIDE DEF S
    <2> QED
      BY <2>1, <1>3, <1>4, <1>5, <1>6 DEF Newest
  <1>7. \A r \in rows : r.batch = Max(S) => r \in Newest(rows)
    BY <1>5 DEF Newest
  <1> HIDE DEF S
  <1>9. ASSUME rows # {} PROVE NextBatch # 1
    <2>1. PICK r \in rows : TRUE
      BY <1>9
    <2> QED
      BY <1>3, <1>4, <1>5, <2>1 DEF Sorted
  <1>8. Newest(rows) \subseteq rows /\ \A r \in rows : r.batch = NextBatch - 1 <=> r.batch = Max(S)
    BY <1>3, <1>4 DEF Newest
  <1> QED
    BY <1>3, <1>4, <1>5, <1>6, <1>7, <1>8, <1>9 DEF Types

LEMMA RowOfMig ==
    ASSUME Sorted(rows, nextId), NEW m \in Recorded
    PROVE  /\ RowOf(m) \in rows /\ RowOf(m).mig = m
           /\ \A r \in rows : r.mig = m => r = RowOf(m)
  <1>1. \E r \in rows : r.mig = m
    BY DEF Recorded
  <1>2. RowOf(m) \in rows /\ RowOf(m).mig = m
    BY <1>1 DEF RowOf
  <1> QED
    BY <1>2 DEF Sorted

------------------------------------------------------------------------------
(* Types.                                                                   *)

\* The migrations of a fresh install, one after the other.
LEMMA InitialMigs ==
    /\ AdminInitialMigration \in Mig /\ AdminMigrationSeed \in Mig
    /\ InitialMigrations = {AdminInitialMigration, AdminMigrationSeed}
    /\ AdminInitialMigration # AdminMigrationSeed
    /\ InitialMigrations \subseteq Ddl
    /\ Mod[AdminInitialMigration] = Mod[AdminMigrationSeed]
    /\ Time[AdminInitialMigration] < Time[AdminMigrationSeed]
  <1>1. /\ AdminInitialMigration \in Mig /\ AdminMigrationSeed \in Mig
        /\ AdminInitialMigration # AdminMigrationSeed
        /\ InitialMigrations \subseteq Ddl
        /\ Mod[AdminInitialMigration] = Mod[AdminMigrationSeed]
    BY InitialAssumption, SubsetAssumption DEF InitialMigrations
  <1>2. Time[AdminInitialMigration] <= Time[AdminMigrationSeed]
    BY <1>1, InitialAssumption
  <1>3. Time[AdminInitialMigration] # Time[AdminMigrationSeed]
    BY <1>1, TimeAssumption
  <1> QED
    BY <1>1, <1>2, <1>3, TimeAssumption DEF InitialMigrations

LEMMA Rests == Resting \in ProcType /\ NoRollback \in LastType
  BY DEF Resting, NoRollback, ProcType, LastType, InRun, InRollback

LEMMA Begins == ASSUME Types, Begin PROVE inTrx' \in BOOLEAN /\ saved' \in SavedType
  BY DEF Types, Begin, SavedType

LEMMA RowsOfMigs ==
    ASSUME Types
    PROVE  /\ \A R \in SUBSET rows : {r.mig : r \in R} \in SUBSET Mig
           /\ \A m \in Mig : Suffix(m) \in SUBSET Mig /\ Suffix(m) \subseteq Recorded
           /\ Recorded \subseteq Mig
  BY DEF Types, Rows, Suffix, Recorded

LEMMA CutStays ==
    ASSUME cut \in {"no", "failed", "dropped"}, [Next]_vars
    PROVE  cut' \in {"no", "failed", "dropped"} /\ (cut' = "no" => cut = "no")
  BY DEF vars, Next, RunMigrations, Install, Register, StartMigration, Up, Record, EndRun,
         Rollback, BatchRollback, BatchNext, BatchEnd, NextDown, Down, DeleteRow, TableGone,
         EndRollback, Throws, Undo, Half, TableDropped, Failed, Dies

LEMMA UndoTypes ==
    ASSUME Types, Undo \/ Half
    PROVE  /\ applied' \in Schema /\ rows' \in SUBSET Rows /\ inTrx' \in BOOLEAN
           /\ nextId' \in Nat \ {0}
  <1>1. CASE Undo
    BY <1>1 DEF Undo, Types, SavedType
  <1>2. CASE Half
    <2>1. /\ applied' = [applied EXCEPT ![proc.cur] = "half"] /\ inTrx' = FALSE
          /\ rows' \in {rows, {}} /\ nextId' \in {nextId, 1}
      BY <1>2 DEF Half, TableDropped
    <2>2. applied' \in Schema
      BY <2>1 DEF Types, Schema
    <2>3. rows' \in SUBSET Rows
      BY <2>1 DEF Types
    <2>4. nextId' \in Nat \ {0}
      BY <2>1 DEF Types
    <2> QED
      BY <2>1, <2>2, <2>3, <2>4
  <1> QED
    BY <1>1, <1>2

LEMMA TypesKept ==
    ASSUME Types, [Next]_vars,
           proc.pc \in {"register", "record"} => NextBatch \in Nat /\ proc.cur \in Mig
    PROVE  Types'
  <1> DEFINE Goal == Types'
  <1>1. CASE UNCHANGED vars
    BY <1>1 DEF vars, Types
  <1>2. ASSUME NEW todo \in SUBSET Mig, NEW ignore \in BOOLEAN, NEW continuing \in BOOLEAN,
               RunMigrations(todo, ignore, continuing)
        PROVE  Goal
    <2>1. todo \ Recorded \in SUBSET Mig /\ todo \ InitialMigrations \in SUBSET Mig
      OBVIOUS
    <2>2. proc' \in ProcType
      BY <1>2, <2>1, Rests, InitialMigs DEF RunMigrations, ProcType, InRun, InInstall
    <2> QED
      BY <1>2, <2>2, Rests DEF RunMigrations, Types
  <1>3. ASSUME NEW m \in Mig, StartMigration(m) PROVE Goal
    <2>1. proc' \in ProcType
      <3>1. proc.todo \ {m} \in SUBSET Mig
        BY DEF Types, ProcType
      <3>2. \A b \in BOOLEAN : [proc EXCEPT !.pc = "up", !.cur = m, !.todo = proc.todo \ {m},
                                  !.ignore = b, !.continuing = FALSE] \in ProcType
        BY <3>1 DEF Types, ProcType, InRun
      <3>3. (IF proc.continuing THEN FALSE ELSE proc.ignore) \in BOOLEAN
        BY DEF Types, ProcType
      <3> QED
        BY <1>3, <3>2, <3>3, Rests DEF StartMigration
    <2> QED
      BY <1>3, <2>1, Begins DEF StartMigration, Types
  <1>4. CASE Up
    BY <1>4 DEF Up, Types, Schema, ProcType, InRun
  <1>5. CASE Record
    <2> DEFINE batch == IF proc.batch = 0 THEN NextBatch ELSE proc.batch
               row == [id |-> nextId, mig |-> proc.cur, batch |-> batch]
    <2>1. batch \in Nat /\ proc.cur \in Mig
      BY <1>5 DEF Record, Types, ProcType
    <2>2. row \in Rows
      BY <2>1 DEF Rows, Types
    <2> HIDE DEF row, batch
    <2>3. [proc EXCEPT !.pc = "next", !.batch = batch] \in ProcType
      BY <2>1 DEF Types, ProcType, InRun
    <2>4. proc' = [proc EXCEPT !.pc = "next", !.batch = batch] /\ rows' = rows \cup {row}
      BY <1>5 DEF Record, row, batch
    <2>5. /\ nextId' = nextId + 1 /\ inTrx' = FALSE
          /\ applied' = applied /\ saved' = saved /\ last' = last
      BY <1>5 DEF Record
    <2>6. rows' \in SUBSET Rows
      BY <2>2, <2>4 DEF Types
    <2>7. proc' \in ProcType
      BY <2>3, <2>4
    <2>8. nextId' \in Nat \ {0} /\ applied' \in Schema /\ saved' \in SavedType /\ last' \in LastType
      BY <2>5 DEF Types
    <2> QED
      BY <2>5, <2>6, <2>7, <2>8 DEF Types
  <1>6. CASE EndRun
    BY <1>6, Rests DEF EndRun, Types
  <1>7. ASSUME NEW m \in Mig, Rollback(m) PROVE Goal
    <2>1. proc' \in ProcType
      BY <1>7, RowsOfMigs, Rests DEF Rollback, StartRollback, ProcType, InRollback, Types
    <2> QED
      BY <1>7, <2>1, Begins, Rests DEF Rollback, StartRollback, Types
  <1>8. CASE BatchRollback
    <2>1. proc' \in ProcType
      BY <1>8, RowsOfMigs, Rests DEF BatchRollback, ProcType, Types
    <2> QED
      BY <1>8, <2>1, Rests DEF BatchRollback, Types
  <1>9. ASSUME NEW m \in Mig, BatchNext(m) PROVE Goal
    <2>1. proc.list \ {m} \in SUBSET Mig
      BY DEF Types, ProcType
    <2>2. [proc EXCEPT !.list = @ \ {m}] \in ProcType
      BY <2>1 DEF Types, ProcType
    <2>3. proc' \in ProcType
      <3>1. CASE m \in Recorded
        <4> DEFINE from == [proc EXCEPT !.list = @ \ {m}]
        <4>1. from \in ProcType /\ proc' = [from EXCEPT !.pc = "back", !.todo = Suffix(m),
                                                        !.cur = m]
          BY <1>9, <2>2, <3>1 DEF BatchNext, StartRollback
        <4>2. Suffix(m) \in SUBSET Mig
          BY RowsOfMigs
        <4> HIDE DEF from
        <4> QED
          BY <4>1, <4>2 DEF ProcType, InRollback
      <3> QED
        BY <1>9, <2>2, <3>1 DEF BatchNext
    <2> QED
      BY <1>9, <2>3, Begins DEF BatchNext, StartRollback, Types
  <1>10. CASE BatchEnd
    <2>1. last' \in LastType
      BY <1>10 DEF BatchEnd, LastType, Types, ProcType
    <2> QED
      BY <1>10, <2>1, Rests DEF BatchEnd, Types
  <1>11. ASSUME NEW m \in Mig, NextDown(m) PROVE Goal
    <2>1. proc.todo \ {m} \in SUBSET Mig
      BY DEF Types, ProcType
    <2> QED
      BY <1>11, <2>1 DEF NextDown, Types, ProcType, InRollback
  <1>12. CASE Down
    <2>1. /\ rows' \in {rows, {}} /\ nextId' \in {nextId, 1}
          /\ applied' = [applied EXCEPT ![proc.cur] = "down"]
          /\ inTrx' = (inTrx /\ proc.cur \notin Ddl)
          /\ proc' = [proc EXCEPT !.pc = "delete"] /\ saved' = saved /\ last' = last
      BY <1>12 DEF Down, TableDropped
    <2>2. applied' \in Schema
      BY <2>1 DEF Types, Schema
    <2>3. proc' \in ProcType
      BY <2>1 DEF Types, ProcType, InRollback
    <2> QED
      BY <2>1, <2>2, <2>3 DEF Types
  <1>13. CASE DeleteRow
    BY <1>13 DEF DeleteRow, Types, ProcType, InRollback
  <1>14. CASE EndRollback
    <2>1. last' \in LastType
      BY <1>14 DEF EndRollback, LastType, Types, ProcType
    <2>2. proc' \in ProcType
      BY <1>14, Rests DEF EndRollback, ProcType, Types
    <2> QED
      BY <1>14, <2>1, <2>2 DEF EndRollback, Types
  <1>15. CASE Throws
    <2>2. proc' \in ProcType
      <3>1. proc.todo \ OfModule(proc.todo, proc.cur) \in SUBSET Mig
        BY DEF Types, ProcType
      <3> QED
        BY <1>15, <3>1, Rests DEF Throws, Types, ProcType, InRun
    <2> QED
      BY <1>15, <2>2, UndoTypes DEF Throws, Types
  <1>16. CASE Dies
    BY <1>16, Rests, UndoTypes DEF Dies, Types
  <1>17. CASE Install
    BY <1>17 DEF Install, Types, Schema, ProcType, InInstall
  <1>18. CASE Register
    <2> DEFINE row == [id |-> nextId, mig |-> proc.cur, batch |-> 1]
    <2>1. proc.cur \in Mig /\ nextId' = nextId + 1 /\ rows' = rows \cup {row}
          /\ UNCHANGED <<applied, inTrx, saved, last>>
      BY <1>18 DEF Register
    <2>2. row \in Rows /\ nextId' \in Nat \ {0}
      BY <2>1 DEF Rows, Types
    <2>3. proc' \in ProcType
      BY <1>18, InitialMigs DEF Register, Types, ProcType, InInstall, InRun
    <2> HIDE DEF row
    <2> QED
      BY <2>1, <2>2, <2>3 DEF Types
  <1>19. CASE TableGone
    <2>1. last' \in LastType
      BY <1>19 DEF TableGone, LastType, Types, ProcType
    <2> QED
      BY <1>19, <2>1, Rests DEF TableGone, Types
  <1> QED
    BY <1>1, <1>2, <1>3, <1>4, <1>5, <1>6, <1>7, <1>8, <1>9, <1>10, <1>11, <1>12, <1>13,
       <1>14, <1>15, <1>16, <1>17, <1>18, <1>19 DEF Next, UpTo

------------------------------------------------------------------------------
(* Tables.                                                                  *)

LEMMA SortedSub ==
    ASSUME NEW R \in SUBSET Rows, NEW k \in Nat, Sorted(R, k),
           NEW S \in SUBSET R, NEW j \in Nat, k <= j
    PROVE  Sorted(S, j)
  BY DEF Sorted, Rows

LEMMA SortedAdd ==
    ASSUME NEW R \in SUBSET Rows, NEW k \in Nat, Sorted(R, k),
           NEW q \in Rows, q.id = k, 1 <= q.batch, q.batch <= k,
           \A r \in R : /\ r.batch <= q.batch /\ r.mig # q.mig
                        /\ Mod[r.mig] = Mod[q.mig] => Before(r, q)
    PROVE  Sorted(R \cup {q}, k + 1)
  <1>1. \A r \in R : /\ r.id < k + 1 /\ r.batch <= r.id
                     /\ ~(q.id < r.id) /\ r.id # q.id
    BY DEF Sorted, Rows
  <1>2. q.id < k + 1 /\ ~(q.id < q.id)
    OBVIOUS
  <1> QED
    BY <1>1, <1>2 DEF Sorted

LEMMA BeforeIsStrict ==
    ASSUME NEW r \in Rows, NEW q \in Rows, Before(r, q)
    PROVE  ~Before(q, r)
  <1>1. Time[r.mig] \in Nat /\ Time[q.mig] \in Nat
    BY TimeAssumption DEF Rows
  <1> QED
    BY <1>1 DEF Before, Initial

\* What a rollback of m takes down: the rows of its module from its own on.
LEMMA SuffixIsLater ==
    ASSUME Types, Sorted(rows, nextId), NEW m \in Recorded
    PROVE  /\ m \in Suffix(m)
           /\ \A r \in rows : r.mig \in Suffix(m) <=> r \in Named(rows, m)
           /\ \A n \in Suffix(m) : RowOf(n).batch >= RowOf(m).batch
  <1> DEFINE first == RowOf(m)
  <1>1. first \in rows /\ first.mig = m /\ \A q \in rows : q.mig = m => q = first
    BY RowOfMig
  <1>2. \A r \in rows : r.id \in Nat /\ r.mig \in Mig /\ r.batch \in Nat /\ r \in Rows
    BY DEF Types, Rows
  <1>3. \A r \in rows : r.mig \in Suffix(m) <=> Mod[r.mig] = Mod[m] /\ r.id >= first.id
    BY DEF Suffix, Sorted
  <1>4. \A r \in rows : r \in Named(rows, m) <=> Mod[r.mig] = Mod[m] /\ ~Before(r, first)
    BY <1>1 DEF Named
  <1> HIDE DEF first
  <1>5. ASSUME NEW r \in rows, Mod[r.mig] = Mod[m]
        PROVE  /\ r.id >= first.id <=> ~Before(r, first)
               /\ r.id >= first.id => r.batch >= first.batch
    <2>1. CASE r.id < first.id
      BY <2>1, <1>1, <1>2, <1>5 DEF Sorted
    <2>2. CASE first.id < r.id
      <3>1. Before(first, r) /\ first.batch <= r.batch
        BY <2>2, <1>1, <1>5 DEF Sorted
      <3> QED
        BY <2>2, <3>1, <1>1, <1>2, BeforeIsStrict
    <2>3. CASE first.id = r.id
      <3>1. r = first
        BY <2>3, <1>1 DEF Sorted
      <3>2. ~Before(r, first)
        BY <3>1, <1>2, BeforeIsStrict
      <3> QED
        BY <3>1, <3>2, <1>1, <1>2
    <2> QED
      BY <2>1, <2>2, <2>3, <1>1, <1>2
  <1>6. \A n \in Recorded : RowOf(n) \in rows /\ RowOf(n).mig = n
    BY RowOfMig
  <1>7. Suffix(m) \subseteq Recorded
    BY <1>1, <1>2, RowsOfMigs
  <1>8. ASSUME NEW n \in Suffix(m) PROVE RowOf(n).batch >= first.batch
    BY <1>3, <1>5, <1>6, <1>7, <1>8
  <1>9. m \in Suffix(m)
    BY <1>1, <1>2, <1>3
  <1> QED
    BY <1>3, <1>4, <1>5, <1>8, <1>9 DEF first

------------------------------------------------------------------------------
(* runMigrations.                                                           *)

\* The call is over, and the table is as it should be between calls.
LEMMA Ends ==
    ASSUME Inv, Types', proc' = Resting, LastInv', SavedInv',
           Sorted(rows', nextId'), Gapless(rows'), Agrees(applied', Recorded')
    PROVE  Shape'
  <1>1. Staying' = rows'
    BY DEF Staying, Left, Resting
  <1> QED
    BY <1>1 DEF Shape, TableInv, InstallInv, RunInv, BackInv, BatchInv, Done, InInstall, InRun,
                InRollback, Resting

\* Nothing that a transaction could be rolled back to changes.
LEMMA SavedKept ==
    ASSUME Inv, nextId' \in Nat, nextId' >= nextId, inTrx' => inTrx, saved' = saved
    PROVE  SavedInv'
  <1>1. ASSUME inTrx' PROVE Sorted(saved.rows, nextId')
    BY <1>1, SortedSub DEF Inv, Shape, SavedInv, Types, SavedType
  <1> QED
    BY <1>1 DEF Inv, Shape, SavedInv

\* A transaction begins on a table that says what is applied.
LEMMA SavedNow ==
    ASSUME Inv, Begin, nextId' = nextId, Done = Recorded, Left = {}
    PROVE  SavedInv'
  <1>1. Staying = rows
    BY DEF Staying
  <1> QED
    BY <1>1 DEF Inv, Shape, TableInv, SavedInv, Begin, Recorded, Migs

LEMMA RunMigrationsKeeps ==
    ASSUME Inv, Types', NEW todo \in SUBSET Mig, NEW ignore, NEW continuing,
           \A m \in todo, n \in Mig : Mod[m] = Mod[n] /\ Time[n] < Time[m] => n \in todo,
           RunMigrations(todo, ignore, continuing)
    PROVE  Shape'
  <1>1. /\ proc.pc = "idle" /\ proc'.batch = 0 /\ proc'.first = None
        /\ UNCHANGED <<applied, rows, nextId, inTrx, saved>> /\ last'.op = "none"
        /\ IF rows = {}
           THEN /\ proc'.pc = "install" /\ proc'.cur = AdminInitialMigration
                /\ proc'.todo = todo \ InitialMigrations
           ELSE proc'.pc = "next" /\ proc'.todo = todo \ Recorded
    BY DEF RunMigrations, Resting, NoRollback
  <1>2. /\ Recorded' = Recorded /\ nextId \in Nat /\ nextId > 0
        /\ Staying' = rows /\ Staying = rows
    BY <1>1 DEF Recorded, Inv, Types, Staying, Left
  <1>3. TableInv'
    BY <1>1, <1>2 DEF Inv, Shape, TableInv, Done
  <1>4. SavedInv'
    BY <1>1, <1>2, SavedKept
  <1>5. InstallInv' /\ RunInv'
    BY <1>1, <1>2, InitialMigs DEF InstallInv, RunInv, InInstall, InRun
  <1> QED
    BY <1>1, <1>3, <1>4, <1>5 DEF Shape, BackInv, BatchInv, LastInv, InRollback

LEMMA InstallKeeps == ASSUME Inv, Types', Install PROVE Shape'
  <1>1. /\ proc.pc = "install" /\ proc'.pc = "register" /\ proc'.cur = proc.cur
        /\ proc'.todo = proc.todo /\ proc'.batch = proc.batch
        /\ UNCHANGED <<rows, nextId, inTrx, saved, last>> /\ nextId \in Nat
        /\ Recorded' = Recorded /\ Staying = rows /\ Staying' = rows
        /\ applied' = [applied EXCEPT ![proc.cur] = "up"]
    BY DEF Install, Inv, Types, ProcType, Recorded, Staying, Left
  <1>2. TableInv'
    <2>1. proc.cur \in Mig
      BY <1>1, InitialMigs DEF Inv, Shape, InstallInv, InInstall
    <2>2. Agrees(applied', Recorded \cup {proc.cur})
      BY <1>1, <2>1 DEF Inv, Shape, TableInv, Done, Agrees, Types, Schema
    <2> QED
      BY <1>1, <2>2 DEF Inv, Shape, TableInv, Done
  <1>3. SavedInv'
    BY <1>1, SavedKept
  <1>4. InstallInv'
    BY <1>1 DEF Inv, Shape, InstallInv, InInstall
  <1> QED
    BY <1>1, <1>2, <1>3, <1>4
       DEF Inv, Shape, RunInv, BackInv, BatchInv, LastInv, InRun, InRollback

LEMMA RegisterKeeps == ASSUME Inv, Types', Register PROVE Shape'
  <1> DEFINE row == [id |-> nextId, mig |-> proc.cur, batch |-> 1]
  <1>1. /\ proc.pc = "register" /\ proc'.todo = proc.todo /\ proc'.batch = proc.batch
        /\ rows' = rows \cup {row} /\ nextId' = nextId + 1 /\ nextId \in Nat \ {0}
        /\ UNCHANGED <<applied, inTrx, saved, last>> /\ rows \in SUBSET Rows
        /\ IF proc.cur = AdminInitialMigration
           THEN proc'.pc = "install" /\ proc'.cur = AdminMigrationSeed
           ELSE proc'.pc = "next" /\ proc'.cur = None
    BY DEF Register, Inv, Types, ProcType
  <1>2. /\ proc.cur \in InitialMigrations
        /\ proc.cur = AdminInitialMigration => rows = {}
        /\ proc.cur = AdminMigrationSeed => rows # {}
        /\ \A r \in rows : r.mig = AdminInitialMigration /\ r.batch = 1
        /\ proc.todo \cap InitialMigrations = {}
        /\ \A m \in proc.todo, n \in Mig : Mod[m] = Mod[n] /\ Time[n] < Time[m] =>
               n \in proc.todo \cup InitialMigrations
        /\ proc.batch = 0
    BY <1>1 DEF Inv, Shape, InstallInv, InInstall
  <1>3. row \in Rows /\ row.id = nextId /\ row.mig = proc.cur /\ row.batch = 1
    BY <1>1, <1>2, InitialMigs DEF Rows
  <1> HIDE DEF row
  <1>4. \A r \in rows : Before(r, row) /\ r.mig # proc.cur
    BY <1>2, <1>3, InitialMigs DEF Before, Initial
  <1>5. /\ Recorded' = Recorded \cup {proc.cur}
        /\ proc.cur = AdminMigrationSeed => Recorded' = InitialMigrations
    BY <1>1, <1>2, <1>3, InitialMigs DEF Recorded
  <1>6. TableInv'
    <2>1. Sorted(rows', nextId')
      BY <1>1, <1>2, <1>3, <1>4, SortedAdd DEF Inv, Shape, TableInv
    <2>2. Staying' = rows'
      BY <1>1 DEF Staying, Left
    <2>3. Gapless(rows')
      BY <1>1, <1>2, <1>3 DEF Gapless, Initial
    <2>4. Agrees(applied', Recorded') /\ Done' = Recorded'
      BY <1>1, <1>5 DEF Inv, Shape, TableInv, Done
    <2> QED
      BY <2>1, <2>2, <2>3, <2>4 DEF TableInv
  <1>7. SavedInv'
    BY <1>1, SavedKept
  <1>8. CASE proc.cur = AdminInitialMigration
    <2>1. InstallInv'
      BY <1>1, <1>2, <1>3, <1>8, InitialMigs DEF InstallInv, InInstall
    <2> QED
      BY <1>1, <1>6, <1>7, <1>8, <2>1
         DEF Inv, Shape, RunInv, BackInv, BatchInv, LastInv, InRun, InRollback
  <1>9. CASE proc.cur = AdminMigrationSeed
    <2>1. RunInv'
      BY <1>1, <1>2, <1>5, <1>9, InitialMigs DEF RunInv, InRun
    <2> QED
      BY <1>1, <1>6, <1>7, <1>9, <2>1, InitialMigs
         DEF Inv, Shape, InstallInv, BackInv, BatchInv, LastInv, InInstall, InRollback
  <1> QED
    BY <1>2, <1>8, <1>9, InitialMigs

LEMMA StartMigrationKeeps ==
    ASSUME Inv, Types', NEW m \in Mig, StartMigration(m)
    PROVE  Shape'
  <1>1. /\ proc.pc = "next" /\ last.op = "none" /\ last' = last
        /\ Done = Recorded /\ Left = {} /\ UNCHANGED <<applied, rows, nextId>>
        /\ Recorded' = Recorded /\ nextId \in Nat /\ Staying = rows
    BY DEF StartMigration, Inv, Shape, LastInv, Done, Left, Types, Recorded, Staying
  <1>2. LastInv'
    BY <1>1 DEF LastInv
  <1>3. CASE proc' = Resting /\ UNCHANGED <<inTrx, saved>>
    BY <1>1, <1>2, <1>3, SavedKept, Ends DEF Inv, Shape, TableInv
  <1>4. CASE /\ proc'.pc = "up" /\ proc'.cur = m /\ proc'.todo = proc.todo \ {m}
             /\ proc'.batch = proc.batch
             /\ Begin
    <2>1. SavedInv'
      BY <1>1, <1>4, SavedNow
    <2>2. TableInv'
      <3>1. Staying' = rows /\ Done' = Recorded
        BY <1>1, <1>4 DEF Staying, Left, Done
      <3> QED
        BY <1>1, <3>1 DEF Inv, Shape, TableInv
    <2>3. ASSUME NEW n \in Mig, Mod[n] = Mod[m], Time[n] < Time[m] PROVE n \in Recorded
      <3>1. n \in proc.todo \cup Recorded
        BY <1>1, <2>3 DEF StartMigration, Inv, Shape, RunInv, InRun, Hand
      <3>2. \A p \in OfModule(proc.todo, m) : Time[m] <= Time[p]
        <4>1. OfModule(proc.todo, m) \in SUBSET Mig /\ m \in OfModule(proc.todo, m)
          BY DEF OfModule, StartMigration, Inv, Types, ProcType
        <4> QED
          BY <4>1, EarliestIsFirst DEF StartMigration
      <3> QED
        BY <2>3, <3>1, <3>2, TimeAssumption DEF OfModule
    <2>4. RunInv'
      <3>1. m \in proc.todo /\ saved'.rows = rows
        BY <1>4 DEF StartMigration, Begin
      <3> QED
        BY <1>1, <1>4, <2>3, <3>1 DEF Inv, Shape, RunInv, InRun, Hand
    <2> QED
      BY <1>2, <1>4, <2>1, <2>2, <2>4
         DEF Shape, InstallInv, BackInv, BatchInv, InInstall, InRollback
  <1> QED
    BY <1>3, <1>4 DEF StartMigration, Inv, Types, ProcType

LEMMA UpKeeps == ASSUME Inv, Types', Up PROVE Shape'
  <1>1. /\ proc.pc = "up" /\ proc'.pc = "record" /\ proc'.cur = proc.cur
        /\ proc'.todo = proc.todo /\ proc'.batch = proc.batch
        /\ rows' = rows /\ nextId' = nextId /\ saved' = saved /\ last' = last
        /\ (inTrx' => inTrx) /\ nextId \in Nat /\ Recorded' = Recorded
        /\ applied' = [applied EXCEPT ![proc.cur] = "up"]
        /\ Staying = rows /\ Staying' = rows
    BY DEF Up, Inv, Types, ProcType, Recorded, Staying, Left
  <1>2. TableInv'
    BY <1>1 DEF Inv, Shape, TableInv, RunInv, InRun, Done, Left, Agrees, Types, Schema
  <1>3. SavedInv'
    BY <1>1, SavedKept
  <1>4. RunInv'
    BY <1>1 DEF Inv, Shape, RunInv, InRun, Hand
  <1> QED
    BY <1>1, <1>2, <1>3, <1>4
       DEF Inv, Shape, InstallInv, BackInv, BatchInv, LastInv, InInstall, InRollback

LEMMA RecordKeeps == ASSUME Inv, Types', Record PROVE Shape'
  <1> DEFINE batch == IF proc.batch = 0 THEN NextBatch ELSE proc.batch
             row == [id |-> nextId, mig |-> proc.cur, batch |-> batch]
  <1>1. /\ proc.pc = "record" /\ proc'.pc = "next" /\ proc'.cur = proc.cur
        /\ proc'.todo = proc.todo /\ proc'.batch = batch
        /\ rows' = rows \cup {row} /\ nextId' = nextId + 1 /\ inTrx' = FALSE
        /\ applied' = applied /\ saved' = saved /\ last' = last
    BY DEF Record, Inv, Types, ProcType
  <1>2. /\ proc.cur \in Mig \ (proc.todo \cup Recorded)
        /\ \A n \in Mig : Mod[n] = Mod[proc.cur] /\ Time[n] < Time[proc.cur] => n \in Recorded
        /\ nextId \in Nat /\ Sorted(rows, nextId) /\ Gapless(rows) /\ rows # {}
    <2>1. Staying = rows
      BY <1>1 DEF Staying, Left
    <2> QED
      BY <1>1, <2>1 DEF Inv, Shape, RunInv, InRun, TableInv, Types
  <1>3. batch \in 1 .. nextId /\ batch # 1 /\ \A r \in rows : r.batch <= batch /\ r.batch \in Nat
    BY <1>1, <1>2, BatchesGrow DEF Inv, Shape, RunInv, InRun, Types, ProcType, Rows
  <1> HIDE DEF batch
  <1>4. row \in Rows /\ row.id = nextId /\ row.mig = proc.cur /\ row.batch = batch
    BY <1>2, <1>3 DEF Rows
  <1> HIDE DEF row
  <1>5. Recorded' = Recorded \cup {proc.cur}
    BY <1>1, <1>4 DEF Recorded
  <1>6. ASSUME NEW r \in rows
        PROVE  /\ r.mig # proc.cur
               /\ Mod[r.mig] = Mod[proc.cur] => Before(r, row)
    <2>1. r.mig \in Recorded /\ r.mig \in Mig /\ Recorded = Migs(rows)
      BY DEF Recorded, Migs, Inv, Types, Rows
    <2>2. CASE Initial(r)
      BY <1>2, <1>3, <1>4, <2>1, <2>2 DEF Before, Initial
    <2>3. CASE ~Initial(r)
      BY <1>2, <1>3, <1>4, <2>1, <2>3, TimeAssumption DEF Before, Initial, Gapless
    <2> QED
      BY <2>2, <2>3
  <1>7. Sorted(rows', nextId')
    BY <1>1, <1>2, <1>3, <1>4, <1>6, SortedAdd DEF Inv, Types
  <1>8. TableInv'
    <2>1. Gapless(rows')
      <3>1. Migs(rows) = Recorded /\ Migs(rows') = Recorded'
        BY DEF Migs, Recorded
      <3> QED
        BY <1>1, <1>2, <1>4, <1>5, <3>1 DEF Gapless
    <2>2. Agrees(applied', Recorded')
      BY <1>1, <1>5 DEF Inv, Shape, TableInv, Done
    <2>3. Staying' = rows' /\ Done' = Recorded'
      BY <1>1 DEF Staying, Left, Done
    <2> QED
      BY <1>1, <1>7, <2>1, <2>2, <2>3 DEF TableInv
  <1>9. RunInv'
    <2>1. \A r \in rows' : r.batch <= batch
      BY <1>1, <1>3, <1>4
    <2> QED
      BY <1>1, <1>2, <1>3, <1>5, <2>1 DEF Inv, Shape, RunInv, InRun, Hand
  <1> QED
    BY <1>1, <1>8, <1>9
       DEF Inv, Shape, SavedInv, InstallInv, BackInv, BatchInv, LastInv, InInstall, InRollback

LEMMA EndRunKeeps == ASSUME Inv, Types', EndRun PROVE Shape'
  <1>1. /\ proc.pc = "next" /\ proc' = Resting /\ last' = last
        /\ UNCHANGED <<applied, rows, nextId, inTrx, saved>> /\ nextId \in Nat
    BY DEF EndRun, Inv, Types
  <1>2. LastInv' /\ Recorded' = Recorded /\ Staying = rows
    BY <1>1 DEF Inv, Shape, LastInv, Recorded, Staying, Left
  <1> QED
    BY <1>1, <1>2, SavedKept, Ends DEF Inv, Shape, TableInv, Done

------------------------------------------------------------------------------
(* rollback and batchRollback.                                              *)

LEMMA RollbackStarts ==
    ASSUME Inv, Types', NEW m \in Recorded, proc.pc \in {"idle", "list"},
           proc'.pc = "back", proc'.todo = Suffix(m), Begin,
           UNCHANGED <<applied, rows, nextId>>, last'.op = "none",
           proc'.first # None => proc'.first = m /\ proc'.start = rows,
           BatchInv'
    PROVE  Shape'
  <1>1. /\ Done = Recorded /\ Left = {} /\ Left' = Suffix(m) /\ Recorded' = Recorded
        /\ Staying = rows /\ Staying' = {r \in rows : r.mig \notin Suffix(m)}
        /\ Sorted(rows, nextId) /\ Gapless(rows) /\ Agrees(applied, Recorded)
    <2>1. Left = {} /\ Left' = Suffix(m) /\ Done = Recorded
      BY DEF Left, Done
    <2>2. Staying = rows /\ Staying' = {r \in rows : r.mig \notin Suffix(m)}
      BY <2>1 DEF Staying
    <2> QED
      BY <2>1, <2>2 DEF Inv, Shape, TableInv, Recorded
  <1>2. /\ m \in Mig /\ Suffix(m) \subseteq Recorded
        /\ \A r \in rows : r.mig \in Suffix(m) <=> r \in Named(rows, m)
        /\ \A r \in rows : r \in Rows /\ r.mig \in Recorded
        /\ RowOf(m) \in rows /\ RowOf(m).mig = m
        /\ \A r \in rows : r.mig = m => r = RowOf(m)
    <2>1. Recorded \subseteq Mig
      BY RowsOfMigs DEF Inv
    <2>2. m \in Mig /\ Suffix(m) \subseteq Recorded
      BY <2>1, RowsOfMigs DEF Inv
    <2>3. \A r \in rows : r \in Rows /\ r.mig \in Recorded
      BY DEF Inv, Types, Recorded
    <2> QED
      BY <1>1, <2>2, <2>3, RowOfMig, SuffixIsLater DEF Inv
  <1>3. TableInv'
    <2>1. Gapless(Staying')
      <3>1. ASSUME NEW r \in Staying', NEW n \in Mig, ~Initial(r), Mod[n] = Mod[r.mig],
                   Time[n] < Time[r.mig]
            PROVE  n \in Migs(Staying')
        <4>1. n \in Migs(rows)
          BY <1>1, <3>1 DEF Gapless
        <4>2. PICK q \in rows : q.mig = n
          BY <4>1 DEF Migs
        <4>3. q \notin Named(rows, m)
          <5>1. r \in rows /\ r \notin Named(rows, m)
            BY <1>1, <1>2, <3>1
          <5>2. CASE Mod[n] # Mod[m]
            BY <4>2, <5>2 DEF Named
          <5>3. CASE Mod[n] = Mod[m]
            <6>1. Before(r, RowOf(m))
              BY <1>2, <3>1, <5>1, <5>3 DEF Named
            <6>2. ~Initial(RowOf(m)) /\ Time[r.mig] < Time[m]
              BY <1>2, <3>1, <6>1 DEF Before
            <6>3. Time[n] < Time[m]
              BY <1>2, <3>1, <5>1, <6>2, TimeAssumption DEF Rows
            <6>4. Before(q, RowOf(m))
              <7>1. CASE Initial(q)
                BY <6>2, <7>1 DEF Before
              <7>2. CASE ~Initial(q)
                BY <1>2, <4>2, <6>2, <6>3, <7>2 DEF Before, Initial
              <7> QED
                BY <7>1, <7>2
            <6> QED
              BY <1>2, <6>4 DEF Named
          <5> QED
            BY <5>2, <5>3
        <4> QED
          BY <1>1, <1>2, <4>2, <4>3 DEF Migs
      <3> QED
        BY <3>1 DEF Gapless
    <2> QED
      BY <1>1, <2>1 DEF TableInv, Done
  <1>4. SavedInv'
    BY <1>1, SavedNow
  <1>5. BackInv'
    <2>1. ASSUME proc'.first # None
          PROVE  /\ rows = {r \in rows : r \notin Named(rows, m) \/ r.mig \in Suffix(m)}
                 /\ \A r \in rows : r.mig \in Suffix(m) => r \in Named(rows, m)
      BY <1>2
    <2> QED
      BY <1>1, <1>2, <2>1 DEF BackInv
  <1> QED
    BY <1>3, <1>4, <1>5 DEF Shape, InstallInv, RunInv, InInstall, InRun, LastInv

LEMMA RollbackKeeps == ASSUME Inv, Types', NEW m \in Mig, Rollback(m) PROVE Shape'
  <1>1. /\ proc.pc = "idle" /\ proc'.pc = "back" /\ proc'.todo = Suffix(m)
        /\ proc'.first = m /\ proc'.start = rows /\ Begin /\ last'.op = "none"
        /\ m \in Recorded /\ UNCHANGED <<applied, rows, nextId>>
    BY DEF Rollback, StartRollback, Resting, NoRollback
  <1>2. BatchInv'
    BY <1>1, ModAssumption DEF BatchInv
  <1> QED
    BY <1>1, <1>2, RollbackStarts

LEMMA BatchRollbackKeeps == ASSUME Inv, Types', BatchRollback PROVE Shape'
  <1>1. /\ proc.pc = "idle" /\ proc'.pc = "list" /\ proc'.first = None
        /\ proc'.start = rows
        /\ proc'.list = {r.mig : r \in {q \in rows : q.batch = NextBatch - 1}}
        /\ last'.op = "none" /\ nextId \in Nat
        /\ UNCHANGED <<applied, rows, nextId, inTrx, saved>>
    BY DEF BatchRollback, Resting, NoRollback, Inv, Types
  <1>2. Sorted(rows, nextId) /\ Recorded' = Recorded /\ Left' = {}
    BY <1>1 DEF Inv, Shape, TableInv, Recorded, Left
  <1>3. proc'.list = Migs(Newest(rows))
    BY <1>1, <1>2, BatchesGrow DEF Inv, Migs
  <1>4. TableInv'
    <2>1. Staying = rows /\ Staying' = rows
      BY <1>1 DEF Staying, Left
    <2> QED
      BY <1>1, <1>2, <2>1 DEF Inv, Shape, TableInv, Done
  <1>5. BatchInv'
    <2>1. \A r \in Newest(rows) : r.mig \in Migs(Newest(rows))
      BY DEF Migs
    <2>2. rows \ Newest(rows) \subseteq rows
      OBVIOUS
    <2> QED
      BY <1>1, <1>2, <1>3, <2>1, <2>2 DEF BatchInv
  <1> QED
    BY <1>1, <1>4, <1>5, SavedKept
       DEF Shape, InstallInv, RunInv, BackInv, LastInv, InInstall, InRun, InRollback

\* A row of a migration that belongs to the newest batch belongs to it.
LEMMA InNewest ==
    ASSUME NEW S, NEW k, Sorted(S, k), NEW r \in S, r.mig \in Migs(Newest(S))
    PROVE  r \in Newest(S)
  BY DEF Migs, Newest, Sorted

LEMMA BatchNextKeeps == ASSUME Inv, Types', NEW m \in Mig, BatchNext(m) PROVE Shape'
  <1>1. /\ proc.pc = "list" /\ m \in proc.list /\ proc'.list = proc.list \ {m}
        /\ proc'.first = proc.first /\ proc'.start = proc.start /\ proc'.ok = proc.ok
        /\ UNCHANGED <<applied, rows, nextId>> /\ last' = last /\ last.op = "none"
        /\ proc.first = None /\ nextId \in Nat
        /\ Recorded' = Recorded /\ Left = {}
    BY DEF BatchNext, StartRollback, Inv, Shape, LastInv, BatchInv, Types, ProcType,
           Recorded, Left
  <1>2. proc.ok =>
           /\ Sorted(proc.start, nextId) /\ rows \subseteq proc.start
           /\ proc.list \subseteq Migs(Newest(proc.start))
           /\ proc.start \ Newest(proc.start) \subseteq rows
           /\ \A r \in rows \cap Newest(proc.start) : r.mig \in proc.list
    BY <1>1 DEF Inv, Shape, BatchInv
  <1>3. CASE m \in Recorded
    <2>1. proc'.pc = "back" /\ proc'.todo = Suffix(m) /\ Begin
      BY <1>3 DEF BatchNext, StartRollback, Inv, Types, ProcType
    <2>2. Sorted(rows, nextId)
      BY DEF Inv, Shape, TableInv
    <2>3. m \in Suffix(m) /\ Suffix(m) \subseteq Recorded
      BY <1>3, <2>2, SuffixIsLater, RowsOfMigs DEF Inv
    <2>4. ASSUME proc.ok, NEW n \in Suffix(m) PROVE n \in Migs(Newest(proc.start))
      <3>1. /\ RowOf(m) \in rows /\ RowOf(m).mig = m
            /\ RowOf(n) \in rows /\ RowOf(n).mig = n
            /\ RowOf(n).batch >= RowOf(m).batch
        BY <1>3, <2>2, <2>3, <2>4, RowOfMig, SuffixIsLater DEF Inv
      <3>2. RowOf(m) \in Newest(proc.start)
        BY <1>1, <1>2, <2>4, <3>1, InNewest
      <3>3. \A q \in proc.start : q.batch \in Nat
        BY DEF Inv, Types, ProcType, Rows
      <3>4. RowOf(n) \in Newest(proc.start)
        <4>1. RowOf(m) \in proc.start /\ RowOf(n) \in proc.start
          BY <1>2, <2>4, <3>1
        <4> QED
          BY <4>1, <3>1, <3>2, <3>3 DEF Newest
      <3> QED
        BY <3>1, <3>4 DEF Migs
    <2>5. BatchInv'
      <3>1. Left' = Suffix(m)
        BY <2>1 DEF Left
      <3> QED
        BY <1>1, <1>2, <2>1, <2>3, <2>4, <3>1 DEF BatchInv
    <2> QED
      BY <1>1, <1>3, <2>1, <2>5, RollbackStarts
  <1>4. CASE m \notin Recorded
    <2>1. proc'.pc = "list" /\ UNCHANGED <<inTrx, saved>>
      BY <1>1, <1>4 DEF BatchNext, Inv, Types, ProcType
    <2>2. TableInv'
      <3>1. Staying = rows /\ Staying' = rows
        BY <1>1, <2>1 DEF Staying, Left
      <3> QED
        BY <1>1, <2>1, <3>1 DEF Inv, Shape, TableInv, Done
    <2>3. BatchInv'
      <3>1. \A r \in rows : r.mig # m
        BY <1>4 DEF Recorded
      <3>2. Left' = {}
        BY <2>1 DEF Left
      <3> QED
        BY <1>1, <1>2, <2>1, <3>1, <3>2 DEF BatchInv
    <2> QED
      BY <1>1, <2>1, <2>2, <2>3, SavedKept
         DEF Shape, InstallInv, RunInv, BackInv, LastInv, InInstall, InRun, InRollback
  <1> QED
    BY <1>3, <1>4

LEMMA BatchEndKeeps == ASSUME Inv, Types', BatchEnd PROVE Shape'
  <1>1. /\ proc.pc = "list" /\ proc.list = {} /\ proc' = Resting
        /\ UNCHANGED <<applied, rows, nextId, inTrx, saved>> /\ nextId \in Nat
        /\ last.op = "none" /\ Recorded' = Recorded /\ Left = {} /\ Done = Recorded
        /\ proc.first = None /\ Staying = rows
        /\ IF proc.ok THEN last'.op = "batch" /\ last'.start = proc.start
                      ELSE last' = last
    BY DEF BatchEnd, Inv, Shape, LastInv, BatchInv, Types, Recorded, Left, Done, Staying
  <1>2. ASSUME proc.ok PROVE rows = proc.start \ Newest(proc.start)
    BY <1>1, <1>2 DEF Inv, Shape, BatchInv
  <1>3. LastInv'
    BY <1>1, <1>2 DEF LastInv, Resting
  <1> QED
    BY <1>1, <1>3, SavedKept, Ends DEF Inv, Shape, TableInv

LEMMA NextDownKeeps == ASSUME Inv, Types', NEW m \in Mig, NextDown(m) PROVE Shape'
  <1>1. /\ proc.pc = "back" /\ proc'.pc = "down" /\ proc'.cur = m
        /\ m \in proc.todo /\ proc'.todo = proc.todo \ {m}
        /\ proc'.list = proc.list /\ proc'.first = proc.first
        /\ proc'.start = proc.start /\ proc'.ok = proc.ok
        /\ UNCHANGED <<applied, rows, nextId, inTrx, saved, last>> /\ nextId \in Nat
        /\ Recorded' = Recorded
    BY DEF NextDown, Inv, Types, ProcType, Recorded
  <1>2. Left' = Left /\ Done' = Done /\ Staying' = Staying
    BY <1>1 DEF Left, Done, Staying
  <1>3. TableInv' /\ SavedInv'
    BY <1>1, <1>2, SavedKept DEF Inv, Shape, TableInv
  <1>4. BackInv'
    BY <1>1, <1>2 DEF Inv, Shape, BackInv, InRollback
  <1>5. BatchInv'
    BY <1>1, <1>2 DEF Inv, Shape, BatchInv, InRollback
  <1> QED
    BY <1>1, <1>3, <1>4, <1>5 DEF Inv, Shape, InstallInv, RunInv, LastInv, InInstall, InRun

\* Unless the table goes with the migration.
LEMMA DownKeeps == ASSUME Inv, Types', Down, cut' = "no" PROVE Shape'
  <1>1. /\ proc.pc = "down" /\ proc'.pc = "delete" /\ proc'.cur = proc.cur
        /\ proc'.todo = proc.todo
        /\ proc'.list = proc.list /\ proc'.first = proc.first
        /\ proc'.start = proc.start /\ proc'.ok = proc.ok
        /\ rows' = rows /\ nextId' = nextId /\ saved' = saved /\ last' = last
        /\ (inTrx' => inTrx) /\ nextId \in Nat /\ Recorded' = Recorded
        /\ applied' = [applied EXCEPT ![proc.cur] = "down"]
        /\ proc.cur # AdminInitialMigration
    BY DEF Down, TakesTable, TableDropped, Inv, Types, ProcType, Recorded
  <1>2. /\ Left' = Left /\ Done = Recorded /\ Done' = Recorded \ {proc.cur}
        /\ Staying' = Staying
    BY <1>1 DEF Left, Done, Staying
  <1>3. TableInv'
    <2>1. Agrees(applied', Done')
      BY <1>1, <1>2 DEF Inv, Shape, TableInv, Agrees, Types, Schema
    <2> QED
      BY <1>1, <1>2, <2>1 DEF Inv, Shape, TableInv
  <1>4. SavedInv'
    BY <1>1, SavedKept
  <1>5. BackInv'
    BY <1>1, <1>2 DEF Inv, Shape, BackInv, InRollback
  <1>6. BatchInv'
    BY <1>1, <1>2 DEF Inv, Shape, BatchInv, InRollback
  <1> QED
    BY <1>1, <1>3, <1>4, <1>5, <1>6
       DEF Inv, Shape, InstallInv, RunInv, LastInv, InInstall, InRun

LEMMA DeleteRowKeeps == ASSUME Inv, Types', DeleteRow PROVE Shape'
  <1>1. /\ proc.pc = "delete" /\ proc'.pc = "back" /\ proc'.cur = proc.cur
        /\ proc'.todo = proc.todo
        /\ proc'.list = proc.list /\ proc'.first = proc.first
        /\ proc'.start = proc.start /\ proc'.ok = proc.ok
        /\ rows' = rows \ {RowOf(proc.cur)}
        /\ UNCHANGED <<applied, nextId, inTrx, saved, last>> /\ nextId \in Nat
    BY DEF DeleteRow, Inv, Types, ProcType
  <1>2. /\ proc.cur \in Recorded \ proc.todo /\ proc.todo \subseteq Recorded
        /\ Sorted(rows, nextId)
    BY <1>1 DEF Inv, Shape, BackInv, InRollback, TableInv
  <1>3. /\ RowOf(proc.cur) \in rows /\ RowOf(proc.cur).mig = proc.cur
        /\ \A r \in rows : r.mig = proc.cur => r = RowOf(proc.cur)
    BY <1>2, RowOfMig
  <1>4. Recorded' = Recorded \ {proc.cur}
    BY <1>1, <1>3 DEF Recorded
  <1>5. /\ Left = proc.todo \cup {proc.cur} /\ Left' = proc.todo
        /\ Done = Recorded \ {proc.cur} /\ Done' = Recorded'
    BY <1>1 DEF Left, Done
  <1>6. TableInv'
    <2>1. Sorted(rows', nextId')
      BY <1>1, <1>2, SortedSub DEF Inv, Types
    <2>2. Staying' = Staying
      BY <1>1, <1>3, <1>5 DEF Staying
    <2> QED
      BY <1>1, <1>4, <1>5, <2>1, <2>2 DEF Inv, Shape, TableInv
  <1>7. BackInv'
    <2>1. ASSUME proc.first # None
          PROVE  rows' = {r \in proc.start : \/ r \notin Named(proc.start, proc.first)
                                             \/ r.mig \in Left'}
      <3>1. /\ rows = {r \in proc.start : \/ r \notin Named(proc.start, proc.first)
                                          \/ r.mig \in Left}
            /\ \A r \in proc.start : r.mig \in Left => r \in Named(proc.start, proc.first)
        BY <1>1, <1>5, <2>1 DEF Inv, Shape, BackInv, InRollback
      <3>2. rows' = {r \in rows : r.mig # proc.cur}
        BY <1>1, <1>3
      <3> QED
        BY <1>2, <1>5, <3>1, <3>2
    <2>2. proc.first # None =>
             \A r \in proc.start : r.mig \in Left' => r \in Named(proc.start, proc.first)
      BY <1>1, <1>5 DEF Inv, Shape, BackInv, InRollback
    <2> QED
      BY <1>1, <1>2, <1>4, <2>1, <2>2 DEF BackInv
  <1>8. BatchInv'
    <2>1. CASE proc.first = None /\ proc.ok
      <3>1. /\ Sorted(proc.start, nextId) /\ rows \subseteq proc.start
            /\ proc.list \cup Left \subseteq Migs(Newest(proc.start))
            /\ proc.start \ Newest(proc.start) \subseteq rows
            /\ \A r \in rows \cap Newest(proc.start) : r.mig \in proc.list \cup Left
        BY <1>1, <2>1 DEF Inv, Shape, BatchInv, InRollback
      <3>2. RowOf(proc.cur) \in Newest(proc.start)
        BY <1>3, <1>5, <3>1, InNewest
      <3>3. \A r \in rows' : r.mig # proc.cur
        BY <1>1, <1>3
      <3> QED
        BY <1>1, <1>5, <3>1, <3>2, <3>3 DEF BatchInv
    <2> QED
      BY <1>1, <2>1 DEF BatchInv
  <1> QED
    BY <1>1, <1>6, <1>7, <1>8, SavedKept
       DEF Inv, Shape, InstallInv, RunInv, LastInv, InInstall, InRun

LEMMA EndRollbackKeeps == ASSUME Inv, Types', EndRollback PROVE Shape'
  <1>1. /\ proc.pc = "back" /\ proc.todo = {} /\ inTrx' = FALSE
        /\ UNCHANGED <<applied, rows, nextId, saved>> /\ nextId \in Nat
        /\ Recorded' = Recorded /\ Left = {} /\ Done = Recorded /\ last.op = "none"
        /\ Staying = rows
    BY DEF EndRollback, Inv, Shape, LastInv, Types, Recorded, Left, Done, Staying
  <1>2. SavedInv'
    BY <1>1, SavedKept
  <1>3. CASE proc.first = None
    <2>1. /\ proc'.pc = "list" /\ proc'.first = None /\ proc'.start = proc.start
          /\ proc'.list = proc.list /\ proc'.ok = proc.ok /\ last' = last
      BY <1>3 DEF EndRollback, Inv, Types, ProcType
    <2>2. Left' = {} /\ Done' = Recorded /\ Staying' = rows
      BY <1>1, <2>1 DEF Left, Done, Staying
    <2>3. TableInv'
      BY <1>1, <2>1, <2>2 DEF Inv, Shape, TableInv
    <2>4. BatchInv'
      BY <1>1, <1>3, <2>1, <2>2 DEF Inv, Shape, BatchInv, InRollback
    <2> QED
      BY <1>1, <1>2, <2>1, <2>3, <2>4
         DEF Shape, InstallInv, RunInv, BackInv, LastInv, InInstall, InRun, InRollback
  <1>4. CASE proc.first # None
    <2>1. /\ proc' = Resting
          /\ last' = [op |-> "rollback", mig |-> proc.first, start |-> proc.start]
      BY <1>4 DEF EndRollback
    <2>2. LastInv'
      BY <1>1, <1>4, <2>1 DEF Inv, Shape, BackInv, LastInv, InRollback, Resting
    <2> QED
      BY <1>1, <1>2, <2>1, <2>2, Ends DEF Inv, Shape, TableInv
  <1> QED
    BY <1>3, <1>4

------------------------------------------------------------------------------
(* What goes wrong within a transaction.                                    *)

LEMMA Undoes ==
    ASSUME Inv, cut' = "no", cut \in {"no", "failed", "dropped"}, Undo \/ Half,
           saved' = saved
    PROVE  /\ inTrx /\ SavedInv' /\ nextId' = nextId
           /\ rows' = saved.rows
           /\ Sorted(rows', nextId') /\ Gapless(rows') /\ Agrees(applied', Recorded')
  <1>1. /\ inTrx /\ ~inTrx' /\ applied' = saved.applied /\ rows' = saved.rows
        /\ nextId' = nextId
    BY DEF Undo, Half, Failed, TableDropped
  <1>2. Recorded' = Migs(saved.rows)
    BY <1>1 DEF Recorded, Migs
  <1> QED
    BY <1>1, <1>2 DEF Inv, Shape, SavedInv

LEMMA ThrowsKeeps ==
    ASSUME Inv, Types', Throws, cut' = "no", cut \in {"no", "failed", "dropped"}
    PROVE  Shape'
  <1>1. /\ proc.pc \in {"install", "register", "up", "record", "down", "delete"}
        /\ Undo \/ Half
        /\ saved' = saved /\ last' = last /\ last.op = "none"
    BY DEF Throws, Inv, Shape, LastInv
  <1>2. /\ inTrx /\ SavedInv' /\ rows' = saved.rows /\ nextId' = nextId
        /\ Sorted(rows', nextId') /\ Gapless(rows') /\ Agrees(applied', Recorded')
    BY <1>1, Undoes
  <1>3. CASE proc.pc \in {"up", "record"}
    <2>1. /\ proc'.pc = "next" /\ proc'.todo = proc.todo \ OfModule(proc.todo, proc.cur)
          /\ proc'.batch = proc.batch
      <3>1. proc' = [proc EXCEPT !.pc = "next",
                                 !.todo = @ \ OfModule(@, proc.cur)]
        BY <1>3 DEF Throws
      <3> QED
        BY <3>1 DEF Inv, Types, ProcType
    <2>2. rows' = rows /\ Recorded' = Recorded
      BY <1>2, <1>3 DEF Inv, Shape, RunInv, InRun, Recorded
    <2>3. RunInv'
      BY <1>1, <1>2, <1>3, <2>1, <2>2
         DEF Inv, Shape, RunInv, InRun, Hand, OfModule, Types, ProcType
    <2>4. TableInv'
      <3>1. Staying' = rows' /\ Done' = Recorded'
        BY <2>1 DEF Staying, Left, Done
      <3> QED
        BY <1>2, <3>1 DEF TableInv
    <2> QED
      BY <1>1, <1>2, <2>1, <2>3, <2>4
         DEF Shape, InstallInv, BackInv, BatchInv, LastInv, InInstall, InRollback
  <1>4. CASE proc.pc \in {"down", "delete"} /\ proc.first = None
    <2>1. proc'.pc = "list" /\ proc'.ok = FALSE /\ proc'.first = None
      BY <1>4 DEF Throws, Inv, Types, ProcType
    <2>2. TableInv'
      <3>1. Staying' = rows' /\ Done' = Recorded'
        BY <2>1 DEF Staying, Left, Done
      <3> QED
        BY <1>2, <3>1 DEF TableInv
    <2> QED
      BY <1>1, <1>2, <2>1, <2>2
         DEF Shape, InstallInv, RunInv, BackInv, BatchInv, LastInv, InInstall, InRun, InRollback
  <1>5. CASE \/ proc.pc \in InInstall
             \/ proc.pc \in {"down", "delete"} /\ proc.first # None
    <2>1. proc' = Resting
      BY <1>5 DEF Throws, InInstall
    <2> QED
      BY <1>1, <1>2, <2>1, Ends DEF LastInv
  <1> QED
    BY <1>1, <1>3, <1>4, <1>5 DEF InInstall

LEMMA DiesKeeps ==
    ASSUME Inv, Types', Dies, cut' = "no", cut \in {"no", "failed", "dropped"}
    PROVE  Shape'
  <1>1. /\ Undo \/ Half
        /\ saved' = saved /\ last' = last /\ last.op = "none" /\ proc' = Resting
    BY DEF Dies, Inv, Shape, LastInv
  <1> QED
    BY <1>1, Undoes, Ends DEF LastInv

------------------------------------------------------------------------------
(* The properties.                                                          *)

LEMMA Starts == Init => IInv
  <1> SUFFICES ASSUME Init PROVE IInv
    OBVIOUS
  <1>1. Types
    <2>1. applied \in Schema
      BY DEF Init, Schema
    <2>2. saved \in SavedType
      BY <2>1 DEF Init, SavedType
    <2>3. /\ rows = {} /\ nextId = 1 /\ inTrx = FALSE /\ proc = Resting
          /\ last = NoRollback
      BY DEF Init
    <2>4. nextId \in Nat \ {0}
      BY <2>3
    <2> QED
      BY <2>1, <2>2, <2>3, <2>4, Rests DEF Types
  <1>2. Recorded = {} /\ rows = {}
    BY DEF Init, Recorded
  <1>3. TableInv
    BY <1>2 DEF Init, TableInv, Sorted, Gapless, Agrees, Done, Staying, Resting
  <1> QED
    BY <1>1, <1>3 DEF Init, IInv, Inv, Shape, SavedInv, InstallInv, RunInv, BackInv, BatchInv,
                      LastInv, InInstall, InRun, InRollback, Resting, NoRollback

\* The table does not go unnoticed.
LEMMA TableGoneEnds == ASSUME Inv, TableGone PROVE FALSE
  BY DEF TableGone, Inv, Shape, BackInv, InRollback

LEMMA Steps == IInv /\ [Next]_vars => IInv'
  <1> SUFFICES ASSUME IInv, [Next]_vars, cut' = "no" PROVE Inv'
    BY CutStays DEF IInv
  <1>1. Inv /\ Types' /\ cut = "no"
    <2>1. Inv /\ cut = "no"
      BY CutStays DEF IInv
    <2>2. proc.pc \in {"register", "record"} => NextBatch \in Nat /\ proc.cur \in Mig
      BY <2>1, BatchesGrow, InitialMigs
         DEF Inv, Shape, TableInv, InstallInv, RunInv, InInstall, InRun, Types
    <2> QED
      BY <2>1, <2>2, TypesKept DEF Inv
  <1>2. CASE UNCHANGED vars
    BY <1>1, <1>2 DEF vars, Inv, Shape, TableInv, SavedInv, InstallInv, RunInv, BackInv,
                      BatchInv, LastInv, Recorded, Done, Left, Staying, Hand
  <1>3. ASSUME NEW ignore, NEW continuing, RunMigrations(Mig, ignore, continuing)
        PROVE  Shape'
    BY <1>1, <1>3, RunMigrationsKeeps
  <1>4. ASSUME NEW m \in Mig, NEW ignore, NEW continuing,
               RunMigrations(UpTo(m), ignore, continuing)
        PROVE  Shape'
    <2>1. \A k, n \in Mig : Mod[k] = Mod[n] /\ Time[n] < Time[k] /\ k \in UpTo(m)
                                => n \in UpTo(m)
      BY TimeAssumption DEF UpTo
    <2>2. UpTo(m) \in SUBSET Mig
      BY DEF UpTo
    <2> QED
      BY <1>1, <1>4, <2>1, <2>2, RunMigrationsKeeps
  <1>5. ASSUME NEW m \in Mig, StartMigration(m) \/ Rollback(m) \/ BatchNext(m) \/ NextDown(m)
        PROVE  Shape'
    BY <1>1, <1>5, StartMigrationKeeps, RollbackKeeps, BatchNextKeeps, NextDownKeeps
  <1>6. CASE Up
    BY <1>1, <1>6, UpKeeps DEF Inv
  <1>7. CASE Record
    BY <1>1, <1>7, RecordKeeps DEF Inv
  <1>8. CASE EndRun
    BY <1>1, <1>8, EndRunKeeps DEF Inv
  <1>9. CASE BatchRollback
    BY <1>1, <1>9, BatchRollbackKeeps DEF Inv
  <1>10. CASE BatchEnd
    BY <1>1, <1>10, BatchEndKeeps DEF Inv
  <1>11. CASE Down
    BY <1>1, <1>11, DownKeeps DEF Inv
  <1>12. CASE DeleteRow
    BY <1>1, <1>12, DeleteRowKeeps DEF Inv
  <1>13. CASE EndRollback
    BY <1>1, <1>13, EndRollbackKeeps DEF Inv
  <1>14. CASE Throws
    BY <1>1, <1>14, ThrowsKeeps DEF Inv
  <1>15. CASE Dies
    BY <1>1, <1>15, DiesKeeps DEF Inv
  <1>16. CASE Install
    BY <1>1, <1>16, InstallKeeps DEF Inv
  <1>17. CASE Register
    BY <1>1, <1>17, RegisterKeeps DEF Inv
  <1>18. CASE TableGone
    BY <1>1, <1>18, TableGoneEnds
  <1> QED
    BY <1>1, <1>2, <1>3, <1>4, <1>5, <1>6, <1>7, <1>8, <1>9, <1>10, <1>11, <1>12, <1>13,
       <1>14, <1>15, <1>16, <1>17, <1>18 DEF Next, Inv

LEMMA Inductive == Spec => []IInv
  BY Starts, Steps, PTL DEF Spec

\* Between calls a migration is applied exactly if it has a row, as long as nothing failed
\* outside a transaction: for any number of calls, exceptions and deaths.
THEOREM RowsAreTrue == Spec => []RowsMatchSchema
  <1>1. IInv => RowsMatchSchema
    BY DEF IInv, Inv, Shape, TableInv, Done, Agrees, RowsMatchSchema, AtRest, Off
  <1> QED
    BY <1>1, Inductive, PTL

\* Between calls the rows of a module but for those of a fresh install are its first
\* migrations by timestamp.
THEOREM RowsHaveNoGap == Spec => []NoGap
  <1>1. IInv => NoGap
    <2> SUFFICES ASSUME Inv, AtRest PROVE NoGap
      BY DEF IInv, NoGap
    <2>1. Staying = rows
      BY DEF Staying, Left, AtRest
    <2> QED
      BY <2>1 DEF Inv, Shape, TableInv, Gapless, NoGap, Migs, Recorded
  <1> QED
    BY <1>1, Inductive, PTL

\* A rollback takes back the migrations of the module from the named one on, and one of
\* the newest batch all of the batch and nothing else.
THEOREM RollbacksAreExact == Spec => []RollbackIsExact
  <1>1. IInv => RollbackIsExact
    <2> SUFFICES ASSUME IInv, AtRest, cut = "no", last.op \in {"rollback", "batch"}
                 PROVE  RollbackIsExact
      BY DEF RollbackIsExact
    <2>1. LastInv /\ last \in LastType
      BY DEF IInv, Inv, Shape, Types
    <2>2. last.start \ Newest(last.start)
            = {r \in last.start : \E q \in last.start : q.batch > r.batch}
      BY <2>1 DEF LastType, Rows, Newest
    <2> QED
      BY <2>1, <2>2 DEF LastInv, RollbackIsExact
  <1> QED
    BY <1>1, Inductive, PTL

------------------------------------------------------------------------------
(* Types, also after a failure outside a transaction: a migration has one  *)
(* row at most, no call gives out more than one batch besides the first,   *)
(* nor more ids than there are migrations.                                 *)

Bounded(R, k, c) ==
    \A r \in R :
        /\ 0 < r.id /\ r.id < k /\ 0 < r.batch /\ r.batch <= c + 1
        /\ \A s \in R : r.mig = s.mig \/ r.id = s.id => r = s

CallsInv ==
    /\ calls \in 0 .. MaxCalls /\ faults \in 0 .. MaxFaults
    /\ cut \in {"no", "failed", "dropped"}
    /\ proc.pc # "idle" => calls > 0

RowsInv ==
    /\ Bounded(rows, nextId, calls)
    /\ inTrx => Bounded(saved.rows, nextId, calls)

\* A run has its number among the batches still to give out, a fresh install has no rows.
HandInv ==
    /\ proc.pc \in {"up", "record", "down", "delete"} => proc.cur \in Mig
    /\ proc.pc \in InInstall =>
           /\ proc.cur \in InitialMigrations /\ proc.todo \cap InitialMigrations = {}
           /\ proc.cur = AdminInitialMigration => rows = {}
           /\ \A r \in rows : r.mig = AdminInitialMigration /\ r.batch = 1
           /\ proc.batch = 0
    /\ proc.pc \in InRun =>
           /\ proc.todo \cap Recorded = {}
           /\ proc.batch <= calls + 1
           /\ proc.batch = 0 => \A r \in rows : r.batch <= calls
           /\ proc.pc # "next" =>
                  /\ proc.cur \notin proc.todo \cup Recorded
                  /\ inTrx => saved.rows = rows

\* The rows a run may still write.
Ahead == CASE proc.pc \in InInstall /\ proc.cur = AdminInitialMigration ->
                    Cardinality(proc.todo) + 2
           [] proc.pc \in InInstall /\ proc.cur # AdminInitialMigration ->
                    Cardinality(proc.todo) + 1
           [] proc.pc \in {"up", "record"} -> Cardinality(proc.todo) + 1
           [] proc.pc = "next" -> Cardinality(proc.todo)
           [] OTHER -> 0
IdsInv == nextId + Ahead <= calls * Cardinality(Mig) + 1

TInv == Types /\ CallsInv /\ RowsInv /\ HandInv /\ IdsInv

LEMMA Fewer ==
    ASSUME NEW S \in SUBSET Mig, NEW T \in SUBSET S
    PROVE  /\ Cardinality(S) \in Nat /\ Cardinality(T) \in Nat
           /\ Cardinality(T) <= Cardinality(S)
           /\ Cardinality(Mig) \in Nat /\ Cardinality(S) <= Cardinality(Mig)
           /\ \A m \in S : Cardinality(S \ {m}) = Cardinality(S) - 1
  <1>1. IsFiniteSet(S) /\ IsFiniteSet(T)
    BY MigAssumption, FS_Subset
  <1> QED
    BY <1>1, MigAssumption, FS_Subset, FS_CardinalityType, FS_RemoveElement

LEMMA Products ==
    ASSUME NEW i \in Nat, NEW j \in Nat, i <= j, NEW n \in Nat
    PROVE  /\ i * n \in Nat /\ j * n \in Nat /\ i * n <= j * n
           /\ (i + 1) * n = i * n + n
  <1>1. PICK d \in Nat : j = i + d
    <2>1. j - i \in Nat /\ j = i + (j - i)
      OBVIOUS
    <2> QED
      BY <2>1
  <1>2. (i + d) * n = i * n + d * n /\ d * n \in Nat /\ i * n \in Nat
    OBVIOUS
  <1>3. (i + 1) * n = i * n + n
    OBVIOUS
  <1> QED
    BY <1>1, <1>2, <1>3

LEMMA Wider ==
    ASSUME NEW R \in SUBSET Rows, NEW k \in Nat, NEW c \in Nat, Bounded(R, k, c),
           NEW S \in SUBSET R, NEW j \in Nat, NEW d \in Nat, k <= j, c <= d
    PROVE  Bounded(S, j, d)
  BY DEF Bounded, Rows

LEMMA NextBatchBound ==
    ASSUME TInv
    PROVE  /\ NextBatch \in Nat \ {0}
           /\ proc.pc = "record" /\ proc.batch = 0 => NextBatch <= calls + 1
  <1> DEFINE S == {0} \cup {r.batch : r \in rows}
  <1>1. S \in SUBSET Nat /\ S # {} /\ calls + 1 \in Nat /\ \A x \in S : x <= calls + 1
    BY BoundAssumption DEF TInv, Types, Rows, CallsInv, RowsInv, Bounded
  <1>2. Max(S) \in S
    BY <1>1, Greatest
  <1>3. proc.pc = "record" /\ proc.batch = 0 => \A x \in S : x <= calls
    BY <1>1, BoundAssumption DEF TInv, CallsInv, HandInv, InRun
  <1>4. NextBatch = 1 + Max(S)
    BY DEF NextBatch
  <1>5. Max(S) \in Nat /\ calls \in Nat
    BY <1>1, <1>2, BoundAssumption DEF TInv, CallsInv
  <1> HIDE DEF S
  <1>6. proc.pc = "record" /\ proc.batch = 0 => Max(S) <= calls
    BY <1>2, <1>3
  <1> QED
    BY <1>4, <1>5, <1>6

LEMMA CallsKept ==
    ASSUME TInv, [Next]_vars
    PROVE  /\ CallsInv' /\ calls \in Nat /\ calls' \in Nat /\ calls <= calls'
           /\ proc.pc # "idle" => calls' = calls
  <1>1. /\ calls \in Nat /\ calls <= MaxCalls /\ faults \in Nat /\ faults <= MaxFaults
        /\ cut' \in {"no", "failed", "dropped"} /\ (proc.pc # "idle" => calls > 0)
    BY CutStays, BoundAssumption DEF TInv, CallsInv
  <1>2. \/ proc.pc # "idle" /\ calls' = calls
        \/ calls' = calls /\ proc'.pc = "idle"
        \/ proc.pc = "idle" /\ calls < MaxCalls /\ calls' = calls + 1
        \/ UNCHANGED <<calls, proc>>
    BY DEF vars, Next, RunMigrations, Install, Register, StartMigration, Up, Record, EndRun,
           Rollback, BatchRollback, BatchNext, BatchEnd, NextDown, Down, DeleteRow, TableGone,
           EndRollback, Throws, Dies
  <1>3. faults' = faults \/ (faults < MaxFaults /\ faults' = faults + 1)
    BY DEF vars, Next, RunMigrations, Install, Register, StartMigration, Up, Record, EndRun,
           Rollback, BatchRollback, BatchNext, BatchEnd, NextDown, Down, DeleteRow, TableGone,
           EndRollback, Throws, Dies
  <1>4. proc.pc # "idle" => calls' = calls
    BY <1>2 DEF vars, Next, RunMigrations, Install, Register, StartMigration, Up, Record, EndRun,
           Rollback, BatchRollback, BatchNext, BatchEnd, NextDown, Down, DeleteRow, TableGone,
           EndRollback, Throws, Dies
  <1>5. proc'.pc # "idle" => calls' > 0
    BY <1>1, <1>2
  <1>6. calls' \in 0 .. MaxCalls /\ faults' \in 0 .. MaxFaults /\ calls <= calls'
    BY <1>1, <1>2, <1>3, BoundAssumption
  <1> QED
    BY <1>1, <1>4, <1>5, <1>6 DEF CallsInv

\* A step after which no run is in progress.
LEMMA Settled ==
    ASSUME TInv, Types', CallsInv', calls <= calls',
           nextId' = nextId \/ (nextId' = 1 /\ rows' = {} /\ ~inTrx'),
           proc'.pc \notin InRun \cup InInstall,
           proc'.pc \in {"down", "delete"} => proc'.cur \in Mig,
           rows' \subseteq rows \/ (inTrx /\ rows' = saved.rows),
           inTrx' => (inTrx /\ saved' = saved) \/ saved'.rows = rows
    PROVE  TInv'
  <1>1. /\ calls \in Nat /\ calls' \in Nat /\ nextId \in Nat /\ rows \in SUBSET Rows
        /\ nextId' \in Nat /\ nextId' <= nextId
    BY BoundAssumption DEF TInv, CallsInv, Types
  <1>2. inTrx => saved.rows \in SUBSET Rows
    BY DEF TInv, Types, SavedType
  <1>3. RowsInv'
    <2>1. CASE nextId' = nextId
      BY <1>1, <1>2, <2>1, Wider DEF TInv, RowsInv
    <2>2. CASE rows' = {} /\ ~inTrx'
      BY <2>2 DEF RowsInv, Bounded
    <2> QED
      BY <2>1, <2>2
  <1>4. HandInv'
    BY DEF HandInv, InRun, InInstall
  <1>5. Ahead \in Nat
    BY Fewer DEF Ahead, TInv, Types, ProcType
  <1>6. IdsInv'
    <2>1. Ahead' = 0
      BY DEF Ahead, InRun, InInstall
    <2> QED
      BY <1>1, <1>5, <2>1, Fewer, Products DEF TInv, IdsInv
  <1> QED
    BY <1>3, <1>4, <1>6 DEF TInv

LEMMA RunsBegin ==
    ASSUME TInv, Types', CallsInv', NEW todo \in SUBSET Mig, NEW ignore \in BOOLEAN,
           NEW continuing \in BOOLEAN, RunMigrations(todo, ignore, continuing)
    PROVE  TInv'
  <1>1. /\ calls \in Nat /\ calls' = calls + 1 /\ nextId \in Nat /\ nextId' = nextId
        /\ rows' = rows /\ inTrx' = inTrx /\ saved' = saved
    BY BoundAssumption DEF TInv, CallsInv, Types, RunMigrations
  <1>2. /\ proc.pc = "idle" /\ proc'.batch = 0
        /\ IF rows = {}
           THEN /\ proc'.pc = "install" /\ proc'.cur = AdminInitialMigration
                /\ proc'.todo = todo \ InitialMigrations
           ELSE proc'.pc = "next" /\ proc'.todo = todo \ Recorded
    BY DEF RunMigrations, Resting
  <1>3. RowsInv'
    BY <1>1, Wider DEF TInv, RowsInv, Types, SavedType
  <1>4. \A r \in rows : r.batch <= calls'
    BY <1>1 DEF TInv, RowsInv, Bounded, Types, Rows
  <1>5. HandInv'
    BY <1>1, <1>2, <1>4, InitialMigs DEF HandInv, InRun, InInstall, Recorded
  <1>6. Ahead = 0 /\ Ahead' \in Nat /\ Ahead' <= Cardinality(Mig)
    <2>1. Ahead = 0
      BY <1>2 DEF Ahead, InInstall
    <2>2. CASE rows = {}
      <3>1. /\ Cardinality(Mig \ {AdminInitialMigration}) = Cardinality(Mig) - 1
            /\ Cardinality((Mig \ {AdminInitialMigration}) \ {AdminMigrationSeed})
                 = Cardinality(Mig \ {AdminInitialMigration}) - 1
            /\ Cardinality(Mig) \in Nat
        BY Fewer, InitialMigs
      <3>2. /\ todo \ InitialMigrations
                  \subseteq (Mig \ {AdminInitialMigration}) \ {AdminMigrationSeed}
            /\ (Mig \ {AdminInitialMigration}) \ {AdminMigrationSeed} \in SUBSET Mig
        BY InitialMigs
      <3>3. /\ Cardinality(todo \ InitialMigrations)
                  <= Cardinality((Mig \ {AdminInitialMigration}) \ {AdminMigrationSeed})
            /\ Cardinality(todo \ InitialMigrations) \in Nat
        BY <3>2, Fewer
      <3>4. Ahead' = Cardinality(todo \ InitialMigrations) + 2
        BY <1>2, <2>2 DEF Ahead, InInstall
      <3> QED
        BY <2>1, <3>1, <3>3, <3>4
    <2>3. CASE rows # {}
      <3>1. Ahead' = Cardinality(todo \ Recorded)
        BY <1>2, <2>3 DEF Ahead, InInstall
      <3> QED
        BY <2>1, <3>1, Fewer
    <2> QED
      BY <2>2, <2>3
  <1>7. IdsInv'
    <2>1. /\ calls' * Cardinality(Mig) = calls * Cardinality(Mig) + Cardinality(Mig)
          /\ calls * Cardinality(Mig) \in Nat /\ Cardinality(Mig) \in Nat
      BY <1>1, Fewer, Products
    <2> QED
      BY <1>1, <1>6, <2>1 DEF TInv, IdsInv
  <1> QED
    BY <1>3, <1>5, <1>7 DEF TInv

\* A step of a run that writes no row.
LEMMA RunsOn ==
    ASSUME TInv, Types', CallsInv', UNCHANGED <<calls, nextId, rows>>,
           proc.pc \in InRun, proc'.pc \in InRun, proc'.batch = proc.batch,
           proc'.todo \subseteq proc.todo,
           proc'.pc # "next" =>
               \/ /\ proc.pc # "next" /\ proc'.cur = proc.cur
                  /\ inTrx' => inTrx /\ saved' = saved
               \/ /\ proc.pc = "next" /\ proc'.cur \in proc.todo
                  /\ proc'.todo = proc.todo \ {proc'.cur} /\ saved'.rows = rows,
           inTrx' => (inTrx /\ saved' = saved) \/ saved'.rows = rows
    PROVE  TInv'
  <1>1. calls \in Nat /\ nextId \in Nat /\ proc.todo \in SUBSET Mig
    BY BoundAssumption DEF TInv, CallsInv, Types, ProcType
  <1>2. Recorded' = Recorded
    BY DEF Recorded
  <1>3. RowsInv'
    BY DEF TInv, RowsInv
  <1>4. HandInv'
    <2>1. /\ proc.todo \cap Recorded = {} /\ proc.batch <= calls + 1
          /\ proc.batch = 0 => \A r \in rows : r.batch <= calls
          /\ proc.pc # "next" => /\ proc.cur \in Mig \ (proc.todo \cup Recorded)
                                 /\ inTrx => saved.rows = rows
      BY DEF TInv, HandInv, InRun
    <2>2. proc'.pc # "next" => /\ proc'.cur \in Mig \ (proc'.todo \cup Recorded)
                               /\ inTrx' => saved'.rows = rows
      BY <1>1, <2>1
    <2> QED
      BY <1>2, <2>1, <2>2 DEF HandInv, InRun, InInstall
  <1>5. Ahead' <= Ahead /\ Ahead \in Nat /\ Ahead' \in Nat
    <2>1. /\ Cardinality(proc.todo) \in Nat /\ Cardinality(proc'.todo) \in Nat
          /\ Cardinality(proc'.todo) <= Cardinality(proc.todo)
          /\ \A m \in proc.todo : Cardinality(proc.todo \ {m}) = Cardinality(proc.todo) - 1
      BY <1>1, Fewer
    <2>2. proc'.pc # "next" => \/ proc.pc # "next"
                               \/ Cardinality(proc'.todo) = Cardinality(proc.todo) - 1
      BY <2>1
    <2>3. /\ Ahead = Cardinality(proc.todo) + (IF proc.pc = "next" THEN 0 ELSE 1)
          /\ Ahead' = Cardinality(proc'.todo) + (IF proc'.pc = "next" THEN 0 ELSE 1)
      BY <2>1 DEF Ahead, InRun, InInstall
    <2> QED
      BY <2>1, <2>2, <2>3
  <1>6. calls * Cardinality(Mig) \in Nat
    BY <1>1, Fewer, Products
  <1>7. IdsInv'
    BY <1>1, <1>5, <1>6 DEF TInv, IdsInv
  <1> QED
    BY <1>3, <1>4, <1>7 DEF TInv

LEMMA Records ==
    ASSUME TInv, Types', CallsInv', Record
    PROVE  TInv'
  <1> DEFINE batch == IF proc.batch = 0 THEN NextBatch ELSE proc.batch
             row == [id |-> nextId, mig |-> proc.cur, batch |-> batch]
  <1>1. /\ proc.pc = "record" /\ rows' = rows \cup {row} /\ nextId' = nextId + 1
        /\ proc' = [proc EXCEPT !.pc = "next", !.batch = batch]
        /\ ~inTrx' /\ calls' = calls
    BY DEF Record
  <1>2. /\ calls \in Nat /\ calls > 0 /\ nextId \in Nat \ {0} /\ rows \in SUBSET Rows
        /\ proc.todo \in SUBSET Mig /\ proc.batch \in Nat /\ proc.pc # "idle"
    BY <1>1, BoundAssumption DEF TInv, CallsInv, Types, ProcType
  <1>3. /\ proc.cur \in Mig \ (proc.todo \cup Recorded) /\ proc.todo \cap Recorded = {}
        /\ proc.batch <= calls + 1
    BY <1>1 DEF TInv, HandInv, InRun
  <1>4. batch \in Nat /\ batch # 0 /\ batch <= calls + 1
    BY <1>1, <1>2, <1>3, NextBatchBound
  <1>5. row.id = nextId /\ row.mig = proc.cur /\ row.batch = batch
    OBVIOUS
  <1> HIDE DEF batch, row
  <1>6. proc'.pc = "next" /\ proc'.batch = batch /\ proc'.todo = proc.todo
    BY <1>1 DEF TInv, Types, ProcType
  <1>7. \A r \in rows : r.mig # row.mig /\ r.id < row.id /\ r.id \in Nat
    BY <1>2, <1>3, <1>5 DEF Recorded, TInv, RowsInv, Bounded, Rows
  <1>8. Bounded(rows', nextId', calls')
    <2>1. Bounded(rows, nextId, calls)
      BY DEF TInv, RowsInv
    <2>2. ASSUME NEW r \in rows'
          PROVE  /\ 0 < r.id /\ r.id < nextId'
                 /\ 0 < r.batch /\ r.batch <= calls' + 1
      BY <1>1, <1>2, <1>4, <1>5, <1>7, <2>1 DEF Bounded
    <2>3. ASSUME NEW r \in rows', NEW s \in rows', r.mig = s.mig \/ r.id = s.id
          PROVE  r = s
      BY <1>1, <1>2, <1>5, <1>7, <2>1, <2>3 DEF Bounded
    <2> QED
      BY <2>2, <2>3 DEF Bounded
  <1>9. HandInv'
    <2>1. Recorded' = Recorded \cup {proc.cur}
      BY <1>1, <1>5 DEF Recorded
    <2> QED
      BY <1>1, <1>3, <1>4, <1>6, <2>1 DEF HandInv, InInstall
  <1>10. IdsInv'
    <2>1. Cardinality(proc.todo) \in Nat /\ calls * Cardinality(Mig) \in Nat
      BY <1>2, Fewer, Products
    <2>2. Ahead = Cardinality(proc.todo) + 1 /\ Ahead' = Cardinality(proc.todo)
      BY <1>1, <1>6, <2>1 DEF Ahead, InInstall
    <2> QED
      BY <1>1, <1>2, <2>1, <2>2 DEF TInv, IdsInv
  <1> QED
    BY <1>1, <1>8, <1>9, <1>10 DEF TInv, RowsInv

LEMMA Registers ==
    ASSUME TInv, Types', CallsInv', Register
    PROVE  TInv'
  <1> DEFINE row == [id |-> nextId, mig |-> proc.cur, batch |-> 1]
  <1>1. /\ proc.pc = "register" /\ rows' = rows \cup {row} /\ nextId' = nextId + 1
        /\ proc'.todo = proc.todo /\ proc'.batch = proc.batch
        /\ UNCHANGED <<inTrx, saved, calls>>
        /\ IF proc.cur = AdminInitialMigration
           THEN proc'.pc = "install" /\ proc'.cur = AdminMigrationSeed
           ELSE proc'.pc = "next" /\ proc'.cur = None
    BY DEF Register, TInv, Types, ProcType
  <1>2. /\ calls \in Nat /\ calls > 0 /\ nextId \in Nat \ {0} /\ rows \in SUBSET Rows
        /\ proc.todo \in SUBSET Mig
        /\ inTrx => saved.rows \in SUBSET Rows
    BY <1>1, BoundAssumption DEF TInv, CallsInv, Types, ProcType, SavedType
  <1>3. /\ proc.cur \in InitialMigrations /\ proc.todo \cap InitialMigrations = {}
        /\ proc.cur = AdminInitialMigration => rows = {}
        /\ \A r \in rows : r.mig = AdminInitialMigration /\ r.batch = 1
        /\ proc.batch = 0
    BY <1>1 DEF TInv, HandInv, InInstall
  <1>4. row.id = nextId /\ row.mig = proc.cur /\ row.batch = 1
    OBVIOUS
  <1> HIDE DEF row
  <1>5. \A r \in rows : r.mig # row.mig /\ r.id < row.id /\ r.id \in Nat /\ 0 < r.id
    BY <1>2, <1>3, <1>4, InitialMigs DEF TInv, RowsInv, Bounded, Rows
  <1>6. RowsInv'
    <2>1. Bounded(rows', nextId', calls')
      <3>1. Bounded(rows, nextId, calls)
        BY DEF TInv, RowsInv
      <3>2. ASSUME NEW r \in rows'
            PROVE  /\ 0 < r.id /\ r.id < nextId'
                   /\ 0 < r.batch /\ r.batch <= calls' + 1
        BY <1>1, <1>2, <1>3, <1>4, <1>5
      <3>3. ASSUME NEW r \in rows', NEW s \in rows', r.mig = s.mig \/ r.id = s.id
            PROVE  r = s
        BY <1>1, <1>2, <1>4, <1>5, <3>1, <3>3 DEF Bounded
      <3> QED
        BY <3>2, <3>3 DEF Bounded
    <2>2. inTrx => Bounded(saved.rows, nextId', calls')
      BY <1>1, <1>2, Wider DEF TInv, RowsInv
    <2> QED
      BY <1>1, <2>1, <2>2 DEF RowsInv
  <1>7. HandInv'
    <2>1. Recorded' \subseteq InitialMigrations
      BY <1>1, <1>3, <1>4, InitialMigs DEF Recorded
    <2>2. \A r \in rows' : r.batch = 1
      BY <1>1, <1>3, <1>4
    <2>3. proc.cur = AdminInitialMigration => \A r \in rows' : r.mig = AdminInitialMigration
      BY <1>1, <1>3, <1>4
    <2> QED
      BY <1>1, <1>2, <1>3, <2>1, <2>2, <2>3, InitialMigs DEF HandInv, InRun, InInstall
  <1>8. IdsInv'
    <2>1. Cardinality(proc.todo) \in Nat /\ calls * Cardinality(Mig) \in Nat
      BY <1>2, Fewer, Products
    <2>2. Ahead \in Nat /\ Ahead' \in Nat /\ Ahead' = Ahead - 1
      BY <1>1, <1>3, <2>1, InitialMigs DEF Ahead, InInstall
    <2> QED
      BY <1>1, <1>2, <2>1, <2>2 DEF TInv, IdsInv
  <1> QED
    BY <1>6, <1>7, <1>8 DEF TInv

LEMMA TypesStart == Init => TInv
  <1> SUFFICES ASSUME Init PROVE TInv
    OBVIOUS
  <1>1. Types
    BY Starts DEF IInv, Inv, Init
  <1>2. rows = {} /\ nextId = 1 /\ inTrx = FALSE /\ proc.pc = "idle" /\ calls = 0
    BY DEF Init, Resting
  <1>3. CallsInv
    <2>1. faults = 0 /\ cut \in {"no", "failed", "dropped"}
      BY DEF Init
    <2>2. calls \in 0 .. MaxCalls /\ faults \in 0 .. MaxFaults
      BY <1>2, <2>1, BoundAssumption
    <2> QED
      BY <1>2, <2>1, <2>2 DEF CallsInv
  <1>4. IdsInv
    BY <1>2, Fewer, Products DEF IdsInv, Ahead, InInstall
  <1> QED
    BY <1>1, <1>2, <1>3, <1>4 DEF TInv, RowsInv, Bounded, HandInv, InRun, InInstall

LEMMA TypesStep == TInv /\ [Next]_vars => TInv'
  <1> SUFFICES ASSUME TInv, [Next]_vars PROVE TInv'
    OBVIOUS
  <1>1. Types'
    BY TypesKept, NextBatchBound, InitialMigs DEF TInv, HandInv, InInstall
  <1>2. CallsInv' /\ calls <= calls' /\ (proc.pc # "idle" => calls' = calls)
    BY CallsKept
  <1>3. Types
    BY DEF TInv
  <1>4. CASE UNCHANGED vars
    BY <1>4 DEF vars, TInv, Types, CallsInv, RowsInv, HandInv, IdsInv, Ahead, Recorded
  <1>5. ASSUME NEW ignore \in BOOLEAN, NEW continuing \in BOOLEAN,
               \/ RunMigrations(Mig, ignore, continuing)
               \/ \E m \in Mig : RunMigrations(UpTo(m), ignore, continuing)
        PROVE  TInv'
    <2>1. \A m \in Mig : UpTo(m) \in SUBSET Mig
      BY DEF UpTo
    <2> QED
      BY <1>1, <1>2, <1>5, <2>1, RunsBegin
  <1>6. ASSUME NEW m \in Mig, StartMigration(m) PROVE TInv'
    <2>1. /\ proc.pc = "next" /\ m \in proc.todo
          /\ UNCHANGED <<rows, nextId, calls>>
      BY <1>6 DEF StartMigration
    <2>2. CASE proc' = Resting /\ UNCHANGED <<inTrx, saved>>
      BY <1>1, <1>2, <2>1, <2>2, Settled DEF Resting, InRun, InInstall
    <2>3. CASE Begin /\ proc' = [proc EXCEPT !.pc = "up", !.cur = m, !.todo = @ \ {m},
                                    !.ignore = IF proc.continuing THEN FALSE ELSE @,
                                    !.continuing = FALSE]
      <3>1. /\ proc'.pc = "up" /\ proc'.cur = m /\ proc'.todo = proc.todo \ {m}
            /\ proc'.batch = proc.batch
        BY <1>3, <2>3 DEF Types, ProcType
      <3>2. saved'.rows = rows
        BY <2>3 DEF Begin
      <3> QED
        BY <1>1, <1>2, <2>1, <3>1, <3>2, RunsOn DEF InRun
    <2> QED
      BY <1>6, <2>2, <2>3 DEF StartMigration
  <1>7. CASE Up
    <2>1. /\ proc'.pc = "record" /\ proc'.cur = proc.cur /\ proc'.todo = proc.todo
          /\ proc'.batch = proc.batch /\ proc.pc = "up"
      BY <1>3, <1>7 DEF Up, Types, ProcType
    <2>2. UNCHANGED <<rows, nextId, calls, saved>> /\ (inTrx' => inTrx)
      BY <1>7 DEF Up
    <2> QED
      BY <1>1, <1>2, <2>1, <2>2, RunsOn DEF InRun
  <1>8. CASE Record
    BY <1>1, <1>2, <1>8, Records
  <1>9. CASE EndRun
    BY <1>1, <1>2, <1>9, Settled DEF EndRun, Resting, InRun, InInstall
  <1>10. ASSUME NEW m \in Mig, Rollback(m) PROVE TInv'
    <2>1. proc'.pc = "back"
      BY <1>10 DEF Rollback, StartRollback, Resting
    <2> QED
      BY <1>1, <1>2, <1>10, <2>1, Settled DEF Rollback, StartRollback, Begin, InRun, InInstall
  <1>11. CASE BatchRollback
    BY <1>1, <1>2, <1>11, Settled DEF BatchRollback, Resting, InRun, InInstall
  <1>12. ASSUME NEW m \in Mig, BatchNext(m) PROVE TInv'
    <2>1. proc'.pc \in {"back", "list"}
      BY <1>3, <1>12 DEF BatchNext, StartRollback, Types, ProcType
    <2> QED
      BY <1>1, <1>2, <1>12, <2>1, Settled DEF BatchNext, StartRollback, Begin, InRun, InInstall
  <1>13. CASE BatchEnd
    BY <1>1, <1>2, <1>13, Settled DEF BatchEnd, Resting, InRun, InInstall
  <1>14. ASSUME NEW m \in Mig, NextDown(m) PROVE TInv'
    <2>1. proc'.pc = "down" /\ proc'.cur = m
      BY <1>3, <1>14 DEF NextDown, Types, ProcType
    <2> QED
      BY <1>1, <1>2, <1>14, <2>1, Settled DEF NextDown, InRun, InInstall
  <1>15. CASE Down
    <2>1. proc'.pc = "delete" /\ proc'.cur = proc.cur /\ proc.cur \in Mig
      BY <1>3, <1>15 DEF Down, Types, ProcType, TInv, HandInv
    <2>2. inTrx' => inTrx /\ saved' = saved
      BY <1>15 DEF Down
    <2>3. \/ nextId' = nextId /\ rows' = rows
          \/ nextId' = 1 /\ rows' = {} /\ ~inTrx'
      BY <1>15, InitialMigs DEF Down, TakesTable, TableDropped
    <2> QED
      BY <1>1, <1>2, <2>1, <2>2, <2>3, Settled DEF InRun, InInstall
  <1>16. CASE DeleteRow
    <2>1. proc'.pc = "back"
      BY <1>3, <1>16 DEF DeleteRow, Types, ProcType
    <2> QED
      BY <1>1, <1>2, <1>16, <2>1, Settled DEF DeleteRow, InRun, InInstall
  <1>17. CASE EndRollback
    <2>1. proc'.pc \in {"list", "idle"}
      BY <1>3, <1>17 DEF EndRollback, Types, ProcType, Resting
    <2> QED
      BY <1>1, <1>2, <1>17, <2>1, Settled DEF EndRollback, InRun, InInstall
  <1>18. CASE Throws
    <2>1. /\ UNCHANGED <<saved, calls>> /\ ~inTrx'
          /\ \/ nextId' = nextId /\ (rows' = rows \/ (inTrx /\ rows' = saved.rows))
             \/ nextId' = 1 /\ rows' = {} /\ proc.pc = "down"
      BY <1>18 DEF Throws, Undo, Half, TakesTable, TableDropped
    <2>2. CASE proc.pc \in {"up", "record"}
      <3>1. /\ proc'.pc = "next" /\ proc'.todo \subseteq proc.todo
            /\ proc'.batch = proc.batch
        <4>1. proc' = [proc EXCEPT !.pc = "next",
                                   !.todo = proc.todo \ OfModule(proc.todo, proc.cur)]
          BY <1>18, <2>2 DEF Throws
        <4> QED
          BY <1>3, <4>1 DEF Types, ProcType
      <3>2. rows' = rows /\ nextId' = nextId
        BY <2>1, <2>2 DEF TInv, HandInv, InRun
      <3> QED
        BY <1>1, <1>2, <2>1, <2>2, <3>1, <3>2, RunsOn DEF InRun
    <2>3. CASE proc.pc \in {"install", "register", "down", "delete"}
      <3>1. proc'.pc \in {"list", "idle"}
        BY <1>3, <1>18, <2>3 DEF Throws, Types, ProcType, Resting
      <3> QED
        BY <1>1, <1>2, <2>1, <3>1, Settled DEF InRun, InInstall
    <2> QED
      BY <1>18, <2>2, <2>3 DEF Throws
  <1>19. CASE Dies
    <2>1. /\ UNCHANGED <<saved, calls>> /\ ~inTrx' /\ proc'.pc = "idle"
          /\ \/ nextId' = nextId /\ (rows' = rows \/ (inTrx /\ rows' = saved.rows))
             \/ nextId' = 1 /\ rows' = {}
      BY <1>19 DEF Dies, Undo, Half, TakesTable, TableDropped, Resting
    <2> QED
      BY <1>1, <1>2, <2>1, Settled DEF InRun, InInstall
  <1>20. CASE Install
    <2>1. /\ UNCHANGED <<rows, nextId, inTrx, saved, calls>>
          /\ proc.pc = "install" /\ proc' = [proc EXCEPT !.pc = "register"]
      BY <1>20 DEF Install
    <2>2. /\ proc'.pc = "register" /\ proc'.cur = proc.cur /\ proc'.todo = proc.todo
          /\ proc'.batch = proc.batch
      BY <1>3, <2>1 DEF Types, ProcType
    <2>3. RowsInv' /\ HandInv' /\ IdsInv'
      BY <2>1, <2>2 DEF TInv, RowsInv, HandInv, IdsInv, Ahead, InInstall, InRun
    <2> QED
      BY <1>1, <1>2, <2>3 DEF TInv
  <1>21. CASE Register
    BY <1>1, <1>2, <1>21, Registers
  <1>22. CASE TableGone
    BY <1>1, <1>2, <1>22, Settled DEF TableGone, Resting, InRun, InInstall
  <1> QED
    BY <1>4, <1>5, <1>6, <1>7, <1>8, <1>9, <1>10, <1>11, <1>12, <1>13, <1>14, <1>15, <1>16,
       <1>17, <1>18, <1>19, <1>20, <1>21, <1>22 DEF Next

\* The types of schema, table and call, whatever fails: one row for a migration and ids
\* that differ, even after a failure that no transaction undoes.
THEOREM TypeCorrect == Spec => []TypeOK
  <1>1. TInv => TypeOK
    <2> SUFFICES ASSUME TInv PROVE TypeOK
      OBVIOUS
    <2>1. /\ calls \in Nat /\ calls <= MaxCalls /\ MaxCalls \in Nat /\ nextId \in Nat
          /\ Cardinality(Mig) \in Nat /\ Ahead \in Nat
      BY Fewer, BoundAssumption DEF TInv, CallsInv, Types, ProcType, Ahead
    <2>2. /\ calls * Cardinality(Mig) \in Nat /\ MaxCalls * Cardinality(Mig) \in Nat
          /\ calls * Cardinality(Mig) <= MaxCalls * Cardinality(Mig)
      BY <2>1, Products
    <2>3. nextId <= MaxCalls * Cardinality(Mig) + 1
      BY <2>1, <2>2 DEF TInv, IdsInv
    <2>4. ASSUME NEW r \in rows PROVE r \in RowType
      <3>1. r \in Rows /\ 0 < r.id /\ r.id < nextId /\ 0 < r.batch /\ r.batch <= calls + 1
        BY DEF TInv, Types, RowsInv, Bounded
      <3>2. r.id \in Id /\ r.batch \in Batch /\ r.mig \in Mig
        BY <2>1, <2>2, <2>3, <3>1 DEF Rows, Id, Batch
      <3> QED
        BY <3>1, <3>2 DEF Rows, RowType
    <2>5. \A r, s \in rows : r.mig = s.mig \/ r.id = s.id => r = s
      BY DEF TInv, RowsInv, Bounded
    <2> QED
      BY <2>4, <2>5 DEF TypeOK, TInv, Types, Schema, ProcType, InInstall, InRun, InRollback,
                               CallsInv
  <1> QED
    BY <1>1, TypesStart, TypesStep, PTL DEF Spec
================================================================================
