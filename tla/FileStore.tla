-------------------------------- MODULE FileStore -------------------------------
(***************************************************************************)
(* The file module: attachments, which are rows of the table attachment    *)
(* and files in the stores of the adapters ("local", "s3"), kept in step   *)
(* by PHP processes that write a store and the database one after the      *)
(* other, in no transaction.                                               *)
(*                                                                         *)
(* The path of a file is made of the table and id of its parent object,    *)
(* the day and the file name, so two attachments can have the same path.   *)
(* A row is updated from an object read before, all of its attributes at   *)
(* once.                                                                   *)
(***************************************************************************)
EXTENDS Naturals, FiniteSets

CONSTANTS
    Worker,       \* PHP processes
    Adapter,      \* the active adapters
    Active,       \* the one new files go to
    Path,
    Content,
    Empty,        \* the content ""
    None,         \* stands for no file, no path, no content
    Ways,         \* how attachments are made: "upload", "post", "save"
    MaxRows,      \* bound: attachments made
    MaxOps,       \* bound: other operations
    MaxCrashes    \* bound: processes that die halfway

ASSUME AdapterAssumption == Active \in Adapter
ASSUME ContentAssumption == Empty \notin Content /\ None \notin Content \cup {Empty} \cup Path
ASSUME WaysAssumption == Ways \subseteq {"upload", "post", "save"}
ASSUME BoundAssumption == MaxRows \in Nat /\ MaxOps \in Nat /\ MaxCrashes \in Nat

VARIABLES
    files,      \* the content of a path in the store of an adapter
    made,       \* number of attachments inserted; their ids are 1 .. made
    row,        \* the row of an attachment
    run,        \* what each worker is doing
    ops,        \* number of operations begun on attachments
    crashes,    \* number of processes that died
    own,        \* history: the content each attachment was made for
    cut,        \* history: attachments whose making or erasing was cut off,
                \* or that were read while they were being made
    placed,     \* history: how many new attachments were given a path, up to two
    posted      \* history: attachments whose content came in a field of the form

vars == <<files, made, row, run, ops, crashes, own, cut, placed, posted>>

Id == 1 .. MaxRows
Data == Content \cup {Empty, None}
Row == [exists: BOOLEAN, path: Path \cup {None}, adapter: Adapter, is_deleted: BOOLEAN]
NoRow == [exists |-> FALSE, path |-> None, adapter |-> Active, is_deleted |-> FALSE]

\* pc, the attachment worked on, the object read, the content held
Run == [pc: {"idle", "insert", "post", "write", "point", "copy", "moved", "delete",
             "restore", "unlink", "erase"},
        id: 0 .. MaxRows, obj: Row, data: Data]
Resting == [pc |-> "idle", id |-> 0, obj |-> NoRow, data |-> None]

TypeOK ==
    /\ files \in [Adapter -> [Path -> Data]]
    /\ made \in 0 .. MaxRows
    /\ row \in [Id -> Row]
    /\ run \in [Worker -> Run]
    /\ ops \in 0 .. MaxOps
    /\ crashes \in 0 .. MaxCrashes
    /\ own \in [Id -> Content \cup {None}]
    /\ cut \subseteq 1 .. made
    /\ placed \in [Path -> 0 .. 2]
    /\ posted \subseteq 1 .. made
    /\ \A a \in Id : row[a].exists => a <= made

Init ==
    /\ files = [a \in Adapter |-> [p \in Path |-> None]]
    /\ made = 0
    /\ row = [a \in Id |-> NoRow]
    /\ run = [w \in Worker |-> Resting]
    /\ ops = 0 /\ crashes = 0
    /\ own = [a \in Id |-> None]
    /\ cut = {}
    /\ placed = [p \in Path |-> 0]
    /\ posted = {}

-----------------------------------------------------------------------------
Existing == {a \in Id : row[a].exists}
Working == {w \in Worker : run[w].pc # "idle"}
Becomes(w, pc, id, obj, data) ==
    run' = [run EXCEPT ![w] = [pc |-> pc, id |-> id, obj |-> obj, data |-> data]]
End(w) == run' = [run EXCEPT ![w] = Resting]

Write(adapter, path, data) == files' = [files EXCEPT ![adapter][path] = data]

Give(path) == placed' = [placed EXCEPT ![path] = IF @ < 2 THEN @ + 1 ELSE 2]

\* A new file is written, over the one that may be there.
Place(path, data) == Write(Active, path, data) /\ Give(path)

\* Mutant: the id is given again.
InsertUncounted(obj, data) ==
    /\ made < MaxRows
    /\ made' = made
    /\ row' = [row EXCEPT ![made + 1] = obj]
    /\ own' = [own EXCEPT ![made + 1] = data]

\* DbObject::insert, of a new row.
Insert(obj, data) ==
    /\ made < MaxRows
    /\ made' = made + 1
    /\ row' = [row EXCEPT ![made + 1] = obj]
    /\ own' = [own EXCEPT ![made + 1] = data]

\* Mutant: the row is made anew when it has been erased.
Upsert(a, obj) == row' = [row EXCEPT ![a] = obj]

\* DbObject::update: the statement matches no row when it has been erased.
Update(a, obj) == row' = IF row[a].exists THEN [row EXCEPT ![a] = obj] ELSE row

-----------------------------------------------------------------------------
(* Making an attachment.                                                   *)

Room == made + Cardinality({v \in Working : run[v].pc \in {"insert", "post"}}) < MaxRows
Attached(p) == [exists |-> TRUE, path |-> p, adapter |-> Active, is_deleted |-> FALSE]

\* FileService::uploadAttachment and uploadMultiAttachment: the file first.
uploadAttachment(w, p, c) ==
    /\ "upload" \in Ways
    /\ run[w].pc = "idle"
    /\ Room
    /\ Place(p, c)
    /\ Becomes(w, "insert", 0, Attached(p), c)
    /\ UNCHANGED <<made, row, ops, crashes, own, cut, posted>>

\* FileService::uploadAttachment of a field of the form: the content goes to
\* /uploads/<path> below the directory of the parent, where no attachment
\* leads to. (No step when the name, made of the content, is too long a name.)
uploadPosted(w, p, c) ==
    /\ "post" \in Ways
    /\ run[w].pc = "idle"
    /\ Room
    /\ Give(p)
    /\ Becomes(w, "post", 0, Attached(p), c)
    /\ UNCHANGED <<files, made, row, ops, crashes, own, cut, posted>>

InsertUploaded(w) ==
    /\ run[w].pc \in {"insert", "post"}
    /\ Insert(run[w].obj, run[w].data)
    /\ posted' = IF run[w].pc = "post" THEN posted \cup {made + 1} ELSE posted
    /\ End(w)
    /\ UNCHANGED <<files, ops, crashes, cut, placed>>

\* FileService::saveFileContent: the row first, without a path and with the
\* default adapter of the column.
saveFileContent(w, p, c) ==
    /\ "save" \in Ways
    /\ run[w].pc = "idle"
    /\ Room
    /\ \E local \in Adapter :
           Insert([exists |-> TRUE, path |-> None, adapter |-> local, is_deleted |-> FALSE], c)
    /\ Becomes(w, "write", made + 1, Attached(p), c)
    /\ UNCHANGED <<files, ops, crashes, cut, placed, posted>>

WriteSaved(w) ==
    /\ run[w].pc = "write"
    /\ Place(run[w].obj.path, run[w].data)
    /\ Becomes(w, "point", run[w].id, run[w].obj, None)
    /\ UNCHANGED <<made, row, ops, crashes, own, cut, posted>>

PointToSaved(w) ==
    /\ run[w].pc = "point"
    /\ Update(run[w].id, run[w].obj)
    /\ End(w)
    /\ UNCHANGED <<files, made, ops, crashes, own, cut, placed, posted>>

-----------------------------------------------------------------------------
(* Operations on an attachment: the row is read, then stores are changed   *)
(* and the row is written.                                                 *)

Reads(w, a) ==
    /\ run[w].pc = "idle"
    /\ a \in Existing
    /\ ops < MaxOps
    /\ ops' = ops + 1
    /\ cut' = IF \E v \in Worker : run[v].id = a /\ run[v].pc \in {"write", "point"}
              THEN cut \cup {a} ELSE cut
    /\ UNCHANGED <<files, made, row, crashes, own, placed, posted>>

\* Attachment::getContent: "" when there is no file.
getContent(obj) ==
    IF obj.path = None \/ files[obj.adapter][obj.path] = None THEN Empty
    ELSE files[obj.adapter][obj.path]

\* Attachment::moveToAdapter of an attachment that is not deleted; the old file stays.
moveToAdapter(w, a, target) ==
    /\ ~row[a].is_deleted
    /\ Reads(w, a)
    /\ Becomes(w, "copy", a, [row[a] EXCEPT !.adapter = target], getContent(row[a]))

WriteCopy(w) ==
    /\ run[w].pc = "copy"
    /\ IF run[w].obj.path = None THEN UNCHANGED files
       ELSE Write(run[w].obj.adapter, run[w].obj.path, run[w].data)
    /\ Becomes(w, "moved", run[w].id, run[w].obj, None)
    /\ UNCHANGED <<made, row, ops, crashes, own, cut, placed, posted>>

UpdateMoved(w) ==
    /\ run[w].pc = "moved"
    /\ Update(run[w].id, run[w].obj)
    /\ End(w)
    /\ UNCHANGED <<files, made, ops, crashes, own, cut, placed, posted>>

\* The actions delete and atdel: the row is marked, the file stays.
atdel(w, a) ==
    /\ Reads(w, a)
    /\ Becomes(w, "delete", a, [row[a] EXCEPT !.is_deleted = TRUE], None)

SoftDelete(w) ==
    /\ run[w].pc = "delete"
    /\ Update(run[w].id, run[w].obj)
    /\ End(w)
    /\ UNCHANGED <<files, made, ops, crashes, own, cut, placed, posted>>

restore(w, a) ==
    /\ Reads(w, a)
    /\ Becomes(w, "restore", a, [row[a] EXCEPT !.is_deleted = FALSE], None)

Restore(w) ==
    /\ run[w].pc = "restore"
    /\ Update(run[w].id, run[w].obj)
    /\ End(w)
    /\ UNCHANGED <<files, made, ops, crashes, own, cut, placed, posted>>

\* The actions attachment/delete and ajaxDeleteAttachment: file, then row.
delete(w, a) ==
    /\ Reads(w, a)
    /\ Becomes(w, "unlink", a, row[a], None)

Unlink(w) ==
    /\ run[w].pc = "unlink"
    /\ IF run[w].obj.path = None THEN UNCHANGED files
       ELSE Write(run[w].obj.adapter, run[w].obj.path, None)
    /\ Becomes(w, "erase", run[w].id, run[w].obj, None)
    /\ UNCHANGED <<made, row, ops, crashes, own, cut, placed, posted>>

Erase(w) ==
    /\ run[w].pc = "erase"
    /\ row' = [row EXCEPT ![run[w].id] = NoRow]
    /\ End(w)
    /\ UNCHANGED <<files, made, ops, crashes, own, cut, placed, posted>>

\* A process dies between two of its steps.
Crash(w) ==
    /\ run[w].pc # "idle"
    /\ crashes < MaxCrashes
    /\ crashes' = crashes + 1
    /\ cut' = IF run[w].pc \in {"write", "point", "erase"} THEN cut \cup {run[w].id} ELSE cut
    /\ End(w)
    /\ UNCHANGED <<files, made, row, ops, own, placed, posted>>

Next ==
    \E w \in Worker :
        \/ \E p \in Path, c \in Content :
               uploadAttachment(w, p, c) \/ uploadPosted(w, p, c) \/ saveFileContent(w, p, c)
        \/ \E a \in Id : \/ \E target \in Adapter : moveToAdapter(w, a, target)
                         \/ atdel(w, a) \/ restore(w, a) \/ delete(w, a)
        \/ InsertUploaded(w) \/ WriteSaved(w) \/ PointToSaved(w)
        \/ WriteCopy(w) \/ UpdateMoved(w) \/ SoftDelete(w) \/ Restore(w)
        \/ Unlink(w) \/ Erase(w) \/ Crash(w)

Spec == Init /\ [][Next]_vars

-----------------------------------------------------------------------------
\* An attachment that is neither being made nor being erased, nor was left so.
Settled(a) ==
    /\ a \in Existing \ cut
    /\ \A w \in Worker : run[w].id = a => run[w].pc \notin {"write", "point", "erase"}

Shared(a) == row[a].path # None /\ placed[row[a].path] = 2

Kept(a) == Settled(a) /\ a \notin posted

(* An attachment whose path no other one was given has the content it was  *)
(* made for, whatever moves, deletions and restorations overlap or are cut *)
(* off, and also a deleted one, so that restoring it brings it back; one   *)
(* that was cut off, or whose content came in a field of the form, has that*)
(* content or none (Attachment::moveToAdapter and the actions atdel,       *)
(* restore and delete).                                                    *)
OwnContent ==
    \A a \in Existing :
        ~Shared(a) => \/ getContent(row[a]) = own[a]
                      \/ getContent(row[a]) = Empty /\ ~Kept(a)

(* "Stores in /uploads/attachments/<ObjectTableName>/<year>/<month>/<day>/ *)
(* <attachId>/<filename>" (FileService.php:620): every attachment has a    *)
(* file of its own, and so the content it was made for; and what is        *)
(* uploaded is moved there (FileService.php:524), whichever way it came.   *)
KeepsContent == \A a \in Id : Settled(a) => getContent(row[a]) = own[a]
=============================================================================
