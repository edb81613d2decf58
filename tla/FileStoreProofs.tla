----------------------------- MODULE FileStoreProofs ----------------------------
(***************************************************************************)
(* Proofs about FileStore: an attachment keeps its content, for any number *)
(* of processes, adapters, attachments, operations and deaths.             *)
(*                                                                         *)
(* A path that one attachment was given belongs to one attachment: its row  *)
(* and the objects read from it are all that lead there.  So nobody else   *)
(* writes that path, and what the processes working on the attachment write*)
(* is what they read there.                                                *)
(***************************************************************************)
EXTENDS FileStore, TLAPS

\* The object a process holds leads to the path, where it has been stored.
Holds(w, p) == run[w].pc # "write" /\ run[w].obj.path = p

\* What the attachment a process works on was made for.
Wanted(w) == IF run[w].id = 0 THEN run[w].data ELSE own[run[w].id]

Lone(p) == placed[p] # 2

RunsInv ==
    \A w \in Worker :
        /\ run[w].id <= made
        /\ run[w].id = 0 <=> run[w].pc \in {"idle", "insert", "post"}
        /\ run[w].pc # "idle" => run[w].obj.exists
        /\ run[w].pc = "idle" => run[w].obj.path = None
        /\ run[w].pc \in {"insert", "post", "write", "point"} => run[w].obj.path # None
        /\ run[w].pc \in {"insert", "post"} => run[w].data \in Content
        /\ run[w].pc = "write" =>
               run[w].obj.adapter = Active /\ run[w].data = own[run[w].id]

OwnInv == \A a \in Id : a <= made => own[a] # None

\* Only paths that were given to an attachment have files and are held.
PlacedInv ==
    /\ \A p \in Path, x \in Adapter : placed[p] = 0 => files[x][p] = None
    /\ \A p \in Path, w \in Worker : Holds(w, p) => placed[p] # 0
    /\ \A p \in Path, a \in Id : row[a].path = p => placed[p] # 0

\* A lone path belongs to one attachment.
LoneInv ==
    \A p \in Path : Lone(p) =>
        /\ \A w, v \in Worker : Holds(w, p) /\ Holds(v, p) =>
               run[w].id = run[v].id /\ (run[w].id = 0 => w = v)
        /\ \A w \in Worker, a \in Id : Holds(w, p) /\ row[a].path = p => run[w].id = a
        /\ \A a, b \in Id : row[a].path = p /\ row[b].path = p => a = b

\* An attachment has one path, once it has one.
PathInv ==
    /\ \A w, v \in Worker : run[w].id = run[v].id /\ run[w].id # 0 =>
           \/ run[w].obj.path = None \/ run[v].obj.path = None
           \/ run[w].obj.path = run[v].obj.path
    /\ \A w \in Worker, a \in Id : run[w].id = a =>
           run[w].obj.path = None \/ row[a].path \in {None, run[w].obj.path}

\* Nothing else is at a lone path than what its attachment was made for.
ContentInv ==
    /\ \A p \in Path, x \in Adapter : Lone(p) =>
           /\ \A a \in Id : row[a].path = p => files[x][p] \in {None, Empty, own[a]}
           /\ \A w \in Worker : Holds(w, p) => files[x][p] \in {None, Empty, Wanted(w)}
    /\ \A w \in Worker : run[w].pc = "copy" =>
           \/ run[w].data \in {Empty, own[run[w].id]}
           \/ run[w].obj.path # None /\ ~Lone(run[w].obj.path)

\* A process that makes an attachment is the only one to hold it, or its
\* attachment counts as cut, and it leads to what it has written.
MakingInv ==
    /\ \A w, v \in Worker :
           run[w].pc \in {"write", "point"} /\ run[v].id = run[w].id /\ v # w =>
               run[w].id \in cut
    /\ \A w \in Worker :
           /\ run[w].pc = "insert" \/ (run[w].pc = "point" /\ run[w].id \notin cut)
           /\ Lone(run[w].obj.path)
           => files[run[w].obj.adapter][run[w].obj.path] = Wanted(w)

\* The row of a settled attachment that was not posted, and whatever its row may become, leads to
\* the content it was made for.
LeadsToOwn(a, w) ==
    /\ run[w].obj.path # None
    /\ Lone(run[w].obj.path) =>
           IF run[w].pc = "copy" THEN run[w].data = own[a]
           ELSE files[run[w].obj.adapter][run[w].obj.path] = own[a]
SettledInv ==
    \A a \in Id : Kept(a) =>
        /\ row[a].path # None
        /\ Lone(row[a].path) => files[row[a].adapter][row[a].path] = own[a]
        /\ \A w \in Worker : run[w].id = a => LeadsToOwn(a, w)

IInv ==
    /\ TypeOK /\ RunsInv /\ OwnInv /\ PlacedInv /\ LoneInv /\ PathInv
    /\ ContentInv /\ MakingInv /\ SettledInv

-----------------------------------------------------------------------------
(* The shapes of steps.                                                    *)

LEMMA ContentType ==
    ASSUME TypeOK, NEW obj \in Row
    PROVE  getContent(obj) \in Content \cup {Empty}
  BY ContentAssumption DEF TypeOK, Row, getContent, Data

\* An object is read from a row, for an operation on an attachment.
LEMMA Taken ==
    ASSUME IInv, NEW w \in Worker, NEW a \in Id, Reads(w, a),
           NEW pc \in {"copy", "delete", "restore", "unlink"},
           NEW obj \in Row, NEW data \in Data, Becomes(w, pc, a, obj, data),
           obj.path = row[a].path, obj.exists,
           pc # "copy" => obj.adapter = row[a].adapter,
           pc = "copy" => data = getContent(row[a])
    PROVE  IInv'
  <1> USE DEF IInv
  <1>1. /\ run[w].pc = "idle" /\ row[a].exists /\ a <= made /\ a # 0
        /\ ops' \in 0 .. MaxOps
        /\ UNCHANGED <<files, made, row, crashes, own, placed, posted>>
    BY BoundAssumption DEF Reads, Existing, TypeOK, Id
  <1>2. run' = [run EXCEPT ![w] = [pc |-> pc, id |-> a, obj |-> obj, data |-> data]]
    BY DEF Becomes
  <1>3. /\ run'[w] = [pc |-> pc, id |-> a, obj |-> obj, data |-> data]
        /\ \A v \in Worker \ {w} : run'[v] = run[v]
    BY <1>2 DEF TypeOK
  <1>4. cut \subseteq cut' /\ cut' \subseteq cut \cup {a}
        /\ ((\E v \in Worker : run[v].id = a /\ run[v].pc \in {"write", "point"})
              => a \in cut')
    BY DEF Reads
  <1>5. \A b \in Id : Kept(b)' => Kept(b)
    BY <1>1, <1>3, <1>4 DEF Kept, Settled, Existing
  <1>10. TypeOK'
    <2>1. run' \in [Worker -> Run]
      BY <1>2 DEF TypeOK, Run, Id
    <2>2. cut' \subseteq 1 .. made
      BY <1>1, <1>4 DEF TypeOK, Id
    <2> QED
      BY <1>1, <2>1, <2>2 DEF TypeOK, Row
  <1>11. RunsInv' /\ OwnInv'
    BY <1>1, <1>3 DEF RunsInv, OwnInv
  <1>12. PlacedInv'
    BY <1>1, <1>3 DEF PlacedInv, Holds
  <1>13. LoneInv'
    BY <1>1, <1>3 DEF LoneInv, Holds, Lone
  <1>14. PathInv'
    BY <1>1, <1>3 DEF PathInv
  <1>15. ContentInv'
    <2>1. /\ row[a].path \in Path \cup {None} /\ row[a].adapter \in Adapter
          /\ None \notin Path
      BY ContentAssumption DEF TypeOK, Row
    <2>2. \A p \in Path, x \in Adapter : Lone(p)' =>
             /\ \A b \in Id : row'[b].path = p => files'[x][p] \in {None, Empty, own'[b]}
             /\ \A v \in Worker : Holds(v, p)' => files'[x][p] \in {None, Empty, Wanted(v)'}
      BY <1>1, <1>3 DEF ContentInv, Holds, Lone, Wanted
    <2>3. pc = "copy" =>
              \/ data \in {Empty, own[a]}
              \/ row[a].path # None /\ ~Lone(row[a].path)
      BY <2>1 DEF ContentInv, getContent
    <2>4. \A v \in Worker : run'[v].pc = "copy" =>
              \/ run'[v].data \in {Empty, own'[run'[v].id]}
              \/ run'[v].obj.path # None /\ ~Lone(run[v].obj.path)'
      BY <1>1, <1>3, <2>3 DEF ContentInv, Lone
    <2> QED
      BY <2>2, <2>4 DEF ContentInv
  <1>16. MakingInv'
    BY <1>1, <1>3, <1>4 DEF MakingInv, Lone, Wanted
  <1>17. SettledInv'
    BY <1>1, <1>3, <1>5 DEF SettledInv, LeadsToOwn, Lone, OwnInv, getContent
  <1> QED
    BY <1>10, <1>11, <1>12, <1>13, <1>14, <1>15, <1>16, <1>17

\* A row is written as the process holds it, and the process is done.
LEMMA Updated ==
    ASSUME IInv, NEW w \in Worker, NEW a, a = run[w].id,
           run[w].pc \in {"point", "moved", "delete", "restore"},
           Update(a, run[w].obj), End(w),
           UNCHANGED <<files, made, ops, crashes, own, cut, placed, posted>>
    PROVE  IInv'
  <1> USE DEF IInv
  <1>1. /\ run[w] \in Run /\ a \in Id /\ a <= made /\ run[w].obj \in Row
        /\ run[w].obj.exists
    BY DEF TypeOK, RunsInv, Run, Id
  <1>2. /\ row' \in [Id -> Row]
        /\ \A b \in Id \ {a} : row'[b] = row[b]
        /\ row'[a] = IF row[a].exists THEN run[w].obj ELSE row[a]
    BY <1>1 DEF Update, TypeOK
  <1>3. /\ run' \in [Worker -> Run] /\ run'[w] = Resting
        /\ \A v \in Worker \ {w} : run'[v] = run[v]
    BY AdapterAssumption, BoundAssumption DEF End, TypeOK, Run, Resting, NoRow, Row, Data
  <1>4. \A b \in Id : row'[b].exists <=> row[b].exists
    BY <1>1, <1>2
  <1>5. Resting.pc = "idle" /\ Resting.id = 0 /\ Resting.obj.path = None
    BY DEF Resting, NoRow
  <1>6. ASSUME NEW b \in Id, Kept(b)', b # a PROVE Kept(b)
    BY <1>1, <1>3, <1>4, <1>6 DEF Kept, Settled, Existing
  <1>7. ASSUME Kept(a)', run[w].pc # "point" PROVE Kept(a)
    BY <1>1, <1>3, <1>4, <1>7 DEF Kept, Settled, Existing
  <1>10. TypeOK'
    BY <1>2, <1>3, <1>4 DEF TypeOK
  <1>11. RunsInv' /\ OwnInv'
    BY <1>1, <1>3, <1>5, BoundAssumption DEF RunsInv, OwnInv, TypeOK
  <1>12. PlacedInv'
    <2>1. \A q \in Path : run[w].obj.path = q => placed[q] # 0
      BY DEF PlacedInv, Holds
    <2>2. \A q \in Path, b \in Id : row'[b].path = q => placed'[q] # 0
      BY <1>2, <2>1 DEF PlacedInv
    <2>3. \A q \in Path, v \in Worker : Holds(v, q)' => placed'[q] # 0
      BY <1>3, <1>5, ContentAssumption DEF PlacedInv, Holds
    <2> QED
      BY <2>2, <2>3 DEF PlacedInv
  <1>13. LoneInv'
    BY <1>1, <1>2, <1>3, <1>5, ContentAssumption DEF LoneInv, Holds, Lone
  <1>14. PathInv'
    BY <1>1, <1>2, <1>3, <1>5 DEF PathInv, Id
  <1>15. ContentInv'
    BY <1>1, <1>2, <1>3, <1>5, ContentAssumption DEF ContentInv, Holds, Lone, Wanted, Id
  <1>16. MakingInv'
    BY <1>1, <1>2, <1>3, <1>5 DEF MakingInv, Lone, Wanted, RunsInv
  <1>17. SettledInv'
    <2>1. ASSUME NEW b \in Id, Kept(b)', b # a
          PROVE  /\ row'[b].path # None
                 /\ Lone(row[b].path)' => files'[row'[b].adapter][row'[b].path] = own'[b]
                 /\ \A v \in Worker : run'[v].id = b => LeadsToOwn(b, v)'
      BY <1>1, <1>2, <1>3, <1>5, <1>6, <2>1 DEF SettledInv, LeadsToOwn, Lone, Id
    <2>2. ASSUME Kept(a)', run[w].pc # "point"
          PROVE  /\ row'[a].path # None
                 /\ Lone(row[a].path)' => files'[row'[a].adapter][row'[a].path] = own'[a]
                 /\ \A v \in Worker : run'[v].id = a => LeadsToOwn(a, v)'
      BY <1>1, <1>2, <1>3, <1>5, <1>7, <2>2 DEF SettledInv, LeadsToOwn, Lone, Id
    <2>3. ASSUME Kept(a)', run[w].pc = "point"
          PROVE  /\ row'[a].path # None
                 /\ Lone(row[a].path)' => files'[row'[a].adapter][row'[a].path] = own'[a]
                 /\ \A v \in Worker : run'[v].id = a => LeadsToOwn(a, v)'
      <3>1. row[a].exists /\ a \notin cut
        BY <1>4, <2>3 DEF Kept, Settled, Existing
      <3>2. \A v \in Worker : run'[v].id # a
        BY <1>1, <1>3, <1>5, <2>3, <3>1 DEF MakingInv, Id
      <3>3. row'[a].path # None
        BY <1>2, <2>3, <3>1 DEF RunsInv
      <3>4. Lone(run[w].obj.path) =>
                files[run[w].obj.adapter][run[w].obj.path] = own[a]
        BY <1>1, <2>3, <3>1 DEF MakingInv, Wanted, Id
      <3> QED
        BY <1>2, <3>1, <3>2, <3>3, <3>4 DEF Lone
    <2> QED
      BY <2>1, <2>2, <2>3 DEF SettledInv
  <1> QED
    BY <1>10, <1>11, <1>12, <1>13, <1>14, <1>15, <1>16, <1>17

\* A process writes or removes the file its object leads to.
LEMMA Stored ==
    ASSUME IInv, NEW w \in Worker,
           NEW a, a = run[w].id, NEW p, p = run[w].obj.path,
           NEW at, at = run[w].obj.adapter,
           NEW data \in Data, NEW pc \in {"moved", "erase"},
           \/ run[w].pc = "copy" /\ pc = "moved" /\ data = run[w].data
           \/ run[w].pc = "unlink" /\ pc = "erase" /\ data = None,
           IF p = None THEN UNCHANGED files ELSE Write(at, p, data),
           Becomes(w, pc, a, run[w].obj, None),
           UNCHANGED <<made, row, ops, crashes, own, cut, placed, posted>>
    PROVE  IInv'
  <1> USE DEF IInv
  <1>1. /\ run[w] \in Run /\ a \in Id /\ a <= made /\ run[w].obj \in Row
        /\ run[w].obj.exists /\ p \in Path \cup {None} /\ at \in Adapter
        /\ a # 0 /\ None \notin Path
    BY ContentAssumption DEF TypeOK, RunsInv, Run, Id, Row
  <1>2. /\ run' \in [Worker -> Run]
        /\ run'[w] = [pc |-> pc, id |-> a, obj |-> run[w].obj, data |-> None]
        /\ \A v \in Worker \ {w} : run'[v] = run[v]
    BY <1>1 DEF Becomes, TypeOK, Run, Data
  <1>3. /\ files' \in [Adapter -> [Path -> Data]]
        /\ p # None => files'[at][p] = data
        /\ \A x \in Adapter, q \in Path :
               q # p \/ x # at \/ p = None => files'[x][q] = files[x][q]
    <2>1. CASE p = None
      BY <2>1 DEF TypeOK
    <2>2. CASE p # None
      <3>1. files' = [files EXCEPT ![at][p] = data]
        BY <2>2 DEF Write
      <3> QED
        BY <1>1, <2>2, <3>1 DEF TypeOK
    <2> QED
      BY <2>1, <2>2
  <1>4. \A b \in Id : Kept(b)' => Kept(b) /\ (b = a => pc = "moved")
    BY <1>1, <1>2 DEF Kept, Settled, Existing
  <1>5. Holds(w, p)
    BY DEF Holds
  <1>10. TypeOK'
    BY <1>2, <1>3 DEF TypeOK
  <1>11. RunsInv' /\ OwnInv'
    BY <1>1, <1>2 DEF RunsInv, OwnInv
  <1>12. PlacedInv'
    BY <1>1, <1>2, <1>3, <1>5 DEF PlacedInv, Holds
  <1>13. LoneInv'
    BY <1>1, <1>2 DEF LoneInv, Holds, Lone
  <1>14. PathInv'
    BY <1>1, <1>2 DEF PathInv
  <1>15. ContentInv'
    <2>1. p # None /\ Lone(p) => data \in {None, Empty, own[a]}
      BY DEF ContentInv
    <2>2. ASSUME NEW q \in Path, NEW x \in Adapter, Lone(q)', NEW b \in Id, row'[b].path = q
          PROVE  files'[x][q] \in {None, Empty, own'[b]}
      <3>1. p = q => b = a
        BY <1>1, <1>5, <2>2 DEF LoneInv, Lone
      <3> QED
        BY <1>1, <1>3, <2>1, <2>2, <3>1 DEF ContentInv, Lone
    <2>3. ASSUME NEW q \in Path, NEW x \in Adapter, Lone(q)', NEW v \in Worker, Holds(v, q)'
          PROVE  files'[x][q] \in {None, Empty, Wanted(v)'}
      <3>1. /\ Holds(v, q) /\ run'[v].id = run[v].id
            /\ Wanted(v)' = Wanted(v)
        BY <1>1, <1>2, <2>3 DEF Holds, Wanted
      <3>2. p = q => Wanted(v) = own[a]
        BY <1>1, <1>5, <2>3, <3>1 DEF LoneInv, Lone, Wanted
      <3> QED
        BY <1>1, <1>3, <2>1, <2>3, <3>1, <3>2 DEF ContentInv, Lone
    <2>4. \A v \in Worker : run'[v].pc = "copy" =>
              \/ run'[v].data \in {Empty, own'[run'[v].id]}
              \/ run'[v].obj.path # None /\ ~Lone(run[v].obj.path)'
      BY <1>2 DEF ContentInv, Lone
    <2> QED
      BY <2>2, <2>3, <2>4 DEF ContentInv
  <1>16. MakingInv'
    <2>1. \A u, v \in Worker :
              run'[u].pc \in {"write", "point"} /\ run'[v].id = run'[u].id /\ v # u =>
                  run'[u].id \in cut'
      BY <1>2 DEF MakingInv
    <2>2. ASSUME NEW v \in Worker,
                 run'[v].pc = "insert" \/ (run'[v].pc = "point" /\ run'[v].id \notin cut'),
                 Lone(run[v].obj.path)'
          PROVE  files'[run'[v].obj.adapter][run'[v].obj.path] = Wanted(v)'
      <3>1. v # w /\ run'[v] = run[v] /\ Wanted(v)' = Wanted(v)
        BY <1>2, <2>2 DEF Wanted
      <3>2. /\ run[v].obj.path \in Path /\ run[v].obj.adapter \in Adapter
            /\ Holds(v, run[v].obj.path)
        BY <2>2, <3>1 DEF RunsInv, TypeOK, Run, Row, Holds
      <3>3. run[v].obj.path # p
        BY <1>1, <1>5, <2>2, <3>1, <3>2 DEF LoneInv, Lone, MakingInv, RunsInv
      <3> QED
        BY <1>3, <2>2, <3>1, <3>2, <3>3 DEF MakingInv, Lone
    <2> QED
      BY <2>1, <2>2 DEF MakingInv
  <1>17. SettledInv'
    <2> SUFFICES ASSUME NEW b \in Id, Kept(b)'
                 PROVE  /\ row'[b].path # None
                        /\ Lone(row[b].path)' =>
                               files'[row'[b].adapter][row'[b].path] = own'[b]
                        /\ \A v \in Worker : run'[v].id = b => LeadsToOwn(b, v)'
      BY DEF SettledInv
    <2>1. Kept(b) /\ (b = a => pc = "moved")
      BY <1>4
    <2>2. row[b].path \in Path \cup {None} /\ row[b].adapter \in Adapter
      BY DEF TypeOK, Row
    <2>3. p # None /\ Lone(p) /\ b = a => data = own[b]
      BY <2>1 DEF SettledInv, LeadsToOwn
    <2>4. row'[b].path # None
      BY <2>1 DEF SettledInv
    <2>5. ASSUME Lone(row[b].path)'
          PROVE  files'[row'[b].adapter][row'[b].path] = own'[b]
      <3>1. p = row[b].path => b = a
        BY <1>1, <1>5, <2>2, <2>4, <2>5 DEF LoneInv, Lone
      <3>2. files[row[b].adapter][row[b].path] = own[b]
        BY <2>1, <2>5 DEF SettledInv, Lone
      <3>3. CASE row[b].path = p /\ row[b].adapter = at
        BY <1>3, <2>3, <2>4, <2>5, <3>1, <3>3 DEF Lone
      <3>4. CASE ~(row[b].path = p /\ row[b].adapter = at)
        BY <1>3, <2>2, <2>4, <3>2, <3>4
      <3> QED
        BY <3>3, <3>4
    <2>6. ASSUME NEW v \in Worker, run'[v].id = b PROVE LeadsToOwn(b, v)'
      <3>1. /\ run'[v].id = run[v].id /\ run'[v].obj = run[v].obj
            /\ run[v].obj.path \in Path \cup {None} /\ run[v].obj.adapter \in Adapter
            /\ LeadsToOwn(b, v)
        <4>1. run'[v].id = run[v].id /\ run'[v].obj = run[v].obj
          BY <1>1, <1>2
        <4>2. run[v].obj \in Row
          BY DEF TypeOK, Run
        <4>3. LeadsToOwn(b, v)
          BY <2>1, <2>6, <4>1 DEF SettledInv
        <4> QED
          BY <4>1, <4>2, <4>3 DEF Row
      <3>2. v = w => LeadsToOwn(b, v)'
        BY <1>1, <1>2, <1>3, <2>1, <2>3, <2>6, <3>1 DEF LeadsToOwn, Lone
      <3>3. v # w /\ run[v].obj.path # p => LeadsToOwn(b, v)'
        BY <1>2, <1>3, <2>6, <3>1 DEF LeadsToOwn, Lone
      <3>4. run[v].pc # "write"
        BY <2>1, <2>6, <3>1 DEF Kept, Settled
      <3>5. v # w /\ run[v].obj.path = p /\ Lone(p) => b = a
        BY <1>1, <1>5, <2>6, <3>1, <3>4 DEF LoneInv, Holds, LeadsToOwn
      <3>6. v # w /\ run[v].obj.path = p => LeadsToOwn(b, v)'
        BY <1>1, <1>2, <1>3, <2>3, <2>6, <3>1, <3>5 DEF LeadsToOwn, Lone
      <3> QED
        BY <3>2, <3>3, <3>6
    <2> QED
      BY <2>4, <2>5, <2>6
  <1> QED
    BY <1>10, <1>11, <1>12, <1>13, <1>14, <1>15, <1>16, <1>17

\* A path is given, and a new file is put there by an upload or for saved
\* content, or nothing for posted content.
LEMMA Placed ==
    ASSUME IInv, NEW w \in Worker, NEW p \in Path, NEW c \in Content, Give(p),
           NEW pc, NEW id, NEW obj \in Row, NEW data \in Data,
           Becomes(w, pc, id, obj, data),
           \/ /\ run[w].pc = "idle" /\ pc = "insert" /\ id = 0 /\ data = c
              /\ Write(Active, p, c)
           \/ /\ run[w].pc = "idle" /\ pc = "post" /\ id = 0 /\ data = c
              /\ UNCHANGED files
           \/ /\ run[w].pc = "write" /\ run[w].obj = obj /\ run[w].id = id
              /\ pc = "point" /\ own[id] = c
              /\ Write(Active, p, c),
           obj.path = p, obj.exists, obj.adapter = Active,
           UNCHANGED <<made, row, ops, crashes, own, cut, posted>>
    PROVE  IInv'
  <1> USE DEF IInv
  <1>1. /\ run[w].pc \in {"idle", "write"} /\ pc \in {"insert", "post", "point"}
        /\ (pc = "point" <=> run[w].pc = "write")
        /\ p # None /\ c # None /\ run[w] \in Run /\ id \in 0 .. made
        /\ (pc \in {"insert", "post"} <=> id = 0)
        /\ (pc = "point" => id = run[w].id /\ obj = run[w].obj)
    BY ContentAssumption, BoundAssumption DEF TypeOK, RunsInv, Run
  <1>2. ~Holds(w, p)
    BY <1>1 DEF Holds, RunsInv
  <1>3. /\ run' \in [Worker -> Run]
        /\ run'[w] = [pc |-> pc, id |-> id, obj |-> obj, data |-> data]
        /\ \A v \in Worker \ {w} : run'[v] = run[v]
        /\ Wanted(w)' = c
    BY <1>1, BoundAssumption DEF Becomes, TypeOK, Run, Wanted
  <1>4. /\ files' \in [Adapter -> [Path -> Data]]
        /\ pc # "post" => files'[Active][p] = c
        /\ files'[Active][p] \in {c, files[Active][p]}
        /\ \A x \in Adapter, q \in Path :
               q # p \/ x # Active => files'[x][q] = files[x][q]
    BY AdapterAssumption DEF Write, TypeOK, Data
  <1>5. /\ placed' \in [Path -> 0 .. 2] /\ placed'[p] # 0
        /\ (placed'[p] # 2 => placed[p] = 0)
        /\ \A q \in Path \ {p} : placed'[q] = placed[q]
    BY DEF Give, TypeOK
  <1>6. Lone(p)' => /\ \A v \in Worker : ~Holds(v, p)
                    /\ \A b \in Id : row[b].path # p
                    /\ \A x \in Adapter : files[x][p] = None
    BY <1>5 DEF Lone, PlacedInv
  <1>7. \A b \in Id : Kept(b)' => Kept(b)
    BY <1>1, <1>3 DEF Kept, Settled, Existing, Id
  <1>8. \A q \in Path \ {p} : Lone(q)' => Lone(q)
    BY <1>5 DEF Lone
  <1>10. TypeOK'
    BY <1>1, <1>3, <1>4, <1>5 DEF TypeOK
  <1>11. RunsInv' /\ OwnInv'
    BY <1>1, <1>3, BoundAssumption DEF RunsInv, OwnInv, TypeOK
  <1>12. PlacedInv'
    <2>1. \A q \in Path, x \in Adapter : placed'[q] = 0 => files'[x][q] = None
      BY <1>4, <1>5 DEF PlacedInv
    <2>2. \A q \in Path, v \in Worker : Holds(v, q)' => q = p \/ Holds(v, q)
      BY <1>3 DEF Holds
    <2>3. \A q \in Path, v \in Worker : Holds(v, q)' => placed'[q] # 0
      BY <1>5, <2>2 DEF PlacedInv
    <2>4. \A q \in Path, b \in Id : row'[b].path = q => placed'[q] # 0
      BY <1>5 DEF PlacedInv
    <2> QED
      BY <2>1, <2>3, <2>4 DEF PlacedInv
  <1>13. LoneInv'
    <2>1. \A q \in Path \ {p}, v \in Worker : Holds(v, q)' => Holds(v, q)
      BY <1>1, <1>3 DEF Holds
    <2>2. \A v \in Worker : Holds(v, p)' /\ Lone(p)' => v = w
      BY <1>3, <1>6 DEF Holds
    <2>3. \A q \in Path \ {p}, v \in Worker : Holds(v, q)' => run'[v].id = run[v].id
      BY <1>1, <1>3 DEF Holds
    <2> SUFFICES ASSUME NEW q \in Path, Lone(q)'
                 PROVE  /\ \A u, v \in Worker : Holds(u, q)' /\ Holds(v, q)' =>
                               run'[u].id = run'[v].id /\ (run'[u].id = 0 => u = v)
                        /\ \A u \in Worker, b \in Id :
                               Holds(u, q)' /\ row'[b].path = q => run'[u].id = b
                        /\ \A b, d \in Id : row'[b].path = q /\ row'[d].path = q => b = d
      BY DEF LoneInv
    <2>5. CASE q = p
      BY <1>1, <1>6, <2>2, <2>5
    <2>6. CASE q # p
      BY <1>1, <1>8, <2>1, <2>3, <2>6 DEF LoneInv
    <2> QED
      BY <2>5, <2>6
  <1>14. PathInv'
    BY <1>1, <1>3 DEF PathInv, Id, RunsInv
  <1>15. ContentInv'
    <2>1. \A q \in Path, x \in Adapter, b \in Id : Lone(q)' /\ row'[b].path = q =>
              files'[x][q] \in {None, Empty, own'[b]}
      BY <1>1, <1>4, <1>6, <1>8 DEF ContentInv
    <2>2. \A v \in Worker \ {w} : Wanted(v)' = Wanted(v) /\ \A q : Holds(v, q)' = Holds(v, q)
      BY <1>1, <1>3 DEF Wanted, Holds
    <2>3. \A q \in Path, x \in Adapter, v \in Worker \ {w} : Lone(q)' /\ Holds(v, q)' =>
              files'[x][q] \in {None, Empty, Wanted(v)'}
      BY <1>4, <1>6, <1>8, <2>2 DEF ContentInv
    <2>4. \A q \in Path, x \in Adapter : Lone(q)' /\ Holds(w, q)' =>
              files'[x][q] \in {None, Empty, Wanted(w)'}
      BY <1>3, <1>4, <1>6 DEF Holds
    <2>5. \A v \in Worker : run'[v].pc = "copy" =>
              \/ run'[v].data \in {Empty, own'[run'[v].id]}
              \/ run'[v].obj.path # None /\ ~Lone(run[v].obj.path)'
      <3> SUFFICES ASSUME NEW v \in Worker, run'[v].pc = "copy"
                   PROVE  \/ run'[v].data \in {Empty, own'[run'[v].id]}
                          \/ run'[v].obj.path # None /\ ~Lone(run[v].obj.path)'
        OBVIOUS
      <3>1. run'[v] = run[v] /\ run[v].obj.path \in Path \cup {None}
        BY <1>3 DEF TypeOK, Run, Row
      <3> QED
        BY <1>1, <1>5, <3>1 DEF ContentInv, Lone
    <2> QED
      BY <2>1, <2>3, <2>4, <2>5 DEF ContentInv
  <1>16. MakingInv'
    <2>1. \A u, v \in Worker :
              run'[u].pc \in {"write", "point"} /\ run'[v].id = run'[u].id /\ v # u =>
                  run'[u].id \in cut'
      BY <1>1, <1>3 DEF MakingInv, RunsInv
    <2>2. ASSUME NEW v \in Worker,
                 run'[v].pc = "insert" \/ (run'[v].pc = "point" /\ run'[v].id \notin cut'),
                 Lone(run[v].obj.path)'
          PROVE  files'[run'[v].obj.adapter][run'[v].obj.path] = Wanted(v)'
      <3>1. CASE v = w
        BY <1>3, <1>4, <2>2, <3>1
      <3>2. CASE v # w
        <4>1. run'[v] = run[v] /\ Wanted(v)' = Wanted(v)
          BY <1>1, <1>3, <3>2 DEF Wanted
        <4>2. /\ run[v].obj.path \in Path /\ run[v].obj.adapter \in Adapter
              /\ Holds(v, run[v].obj.path)
          BY <2>2, <4>1 DEF RunsInv, TypeOK, Run, Row, Holds
        <4>3. run[v].obj.path # p
          BY <1>6, <2>2, <4>1, <4>2
        <4> QED
          BY <1>1, <1>4, <1>8, <2>2, <4>1, <4>2, <4>3 DEF MakingInv
      <3> QED
        BY <3>1, <3>2
    <2> QED
      BY <2>1, <2>2 DEF MakingInv
  <1>17. SettledInv'
    <2> SUFFICES ASSUME NEW b \in Id, Kept(b)'
                 PROVE  /\ row'[b].path # None
                        /\ Lone(row[b].path)' =>
                               files'[row'[b].adapter][row'[b].path] = own'[b]
                        /\ \A v \in Worker : run'[v].id = b => LeadsToOwn(b, v)'
      BY DEF SettledInv
    <2>1. Kept(b) /\ row[b].path \in Path /\ row[b].adapter \in Adapter
      BY <1>7 DEF SettledInv, TypeOK, Row
    <2>2. Lone(row[b].path)' => files'[row'[b].adapter][row'[b].path] = own'[b]
      BY <1>1, <1>4, <1>6, <1>8, <2>1 DEF SettledInv
    <2>3. ASSUME NEW v \in Worker, run'[v].id = b PROVE LeadsToOwn(b, v)'
      <3>1. run'[v] = run[v] /\ run[v].pc # "write"
        BY <1>1, <1>3, <2>3 DEF Kept, Settled, Id
      <3>2. LeadsToOwn(b, v) /\ run[v].obj.path \in Path /\ run[v].obj.adapter \in Adapter
        BY <2>1, <2>3, <3>1 DEF SettledInv, LeadsToOwn, TypeOK, Run, Row
      <3>3. Lone(run[v].obj.path)' => Lone(run[v].obj.path) /\ run[v].obj.path # p
        BY <1>1, <1>6, <1>8, <3>1, <3>2 DEF Holds
      <3> QED
        BY <1>1, <1>4, <3>1, <3>2, <3>3 DEF LeadsToOwn
    <2> QED
      BY <1>1, <2>1, <2>2, <2>3, ContentAssumption
  <1> QED
    BY <1>10, <1>11, <1>12, <1>13, <1>14, <1>15, <1>16, <1>17

\* FileService::saveFileContent inserts a row that leads nowhere yet.
LEMMA Reserved ==
    ASSUME IInv, NEW w \in Worker, NEW p \in Path, NEW c \in Content,
           saveFileContent(w, p, c)
    PROVE  IInv'
  <1> USE DEF IInv
  <1> DEFINE obj == Attached(p)
  <1>1. PICK local \in Adapter :
            Insert([exists |-> TRUE, path |-> None, adapter |-> local, is_deleted |-> FALSE], c)
    BY DEF saveFileContent
  <1>2. PICK a \in Id : a = made + 1
    BY <1>1, BoundAssumption DEF Insert, TypeOK, Id
  <1>3. /\ run[w].pc = "idle" /\ p # None /\ c # None /\ a \notin 0 .. made /\ made' = a
        /\ made \in Nat
        /\ UNCHANGED <<files, ops, crashes, cut, placed, posted>>
    BY <1>1, <1>2, ContentAssumption, BoundAssumption
       DEF saveFileContent, Insert, TypeOK
  <1>4. /\ row' \in [Id -> Row] /\ row'[a].path = None /\ row'[a].exists
        /\ \A b \in Id \ {a} : row'[b] = row[b]
    BY <1>1, <1>2 DEF Insert, TypeOK, Row
  <1>5. /\ own' \in [Id -> Content \cup {None}] /\ own'[a] = c
        /\ \A b \in Id \ {a} : own'[b] = own[b]
    BY <1>1, <1>2 DEF Insert, TypeOK
  <1>6. obj \in Row /\ obj.path = p /\ obj.exists /\ obj.adapter = Active
    BY AdapterAssumption DEF Row, Attached
  <1>7. /\ run' \in [Worker -> Run]
        /\ run'[w] = [pc |-> "write", id |-> a, obj |-> obj, data |-> c]
        /\ \A v \in Worker \ {w} : run'[v] = run[v]
    BY <1>2, <1>6, BoundAssumption DEF saveFileContent, Becomes, TypeOK, Run, Data, Id
  <1> HIDE DEF obj
  <1>8. \A v \in Worker : run[v].id # a
    BY <1>3 DEF RunsInv, TypeOK, Run
  <1>9. \A v \in Worker \ {w} : Wanted(v)' = Wanted(v) /\ (\A q : Holds(v, q)' = Holds(v, q))
    <2>1. \A v \in Worker : run[v].id = 0 \/ run[v].id \in Id \ {a}
      BY <1>8 DEF TypeOK, Run, Id
    <2> QED
      BY <1>5, <1>7, <2>1 DEF Wanted, Holds
  <1>20. \A q : ~Holds(w, q)'
    BY <1>7 DEF Holds
  <1>21. \A b \in Id : Kept(b)' => Kept(b) /\ b # a
    BY <1>3, <1>4, <1>7 DEF Kept, Settled, Existing, Id
  <1>10. TypeOK'
    BY <1>2, <1>3, <1>4, <1>5, <1>7, BoundAssumption DEF TypeOK, Id
  <1>11. RunsInv' /\ OwnInv'
    <2>1. RunsInv'
      BY <1>2, <1>3, <1>5, <1>6, <1>7, <1>8 DEF RunsInv, TypeOK, Run, Id
    <2>2. OwnInv'
      BY <1>2, <1>3, <1>5 DEF OwnInv, Id
    <2> QED
      BY <2>1, <2>2
  <1>12. PlacedInv'
    BY <1>3, <1>4, <1>9, <1>20, ContentAssumption DEF PlacedInv
  <1>13. LoneInv'
    BY <1>3, <1>4, <1>7, <1>9, <1>20, ContentAssumption DEF LoneInv, Lone
  <1>14. PathInv'
    BY <1>3, <1>4, <1>7, <1>8 DEF PathInv
  <1>15. ContentInv'
    <2>1. \A q \in Path, x \in Adapter : Lone(q)' =>
              /\ \A b \in Id : row'[b].path = q => files'[x][q] \in {None, Empty, own'[b]}
              /\ \A v \in Worker : Holds(v, q)' => files'[x][q] \in {None, Empty, Wanted(v)'}
      BY <1>3, <1>4, <1>5, <1>9, <1>20, ContentAssumption DEF ContentInv, Lone
    <2>2. \A v \in Worker : run'[v].pc = "copy" =>
              \/ run'[v].data \in {Empty, own'[run'[v].id]}
              \/ run'[v].obj.path # None /\ ~Lone(run[v].obj.path)'
      <3>1. \A v \in Worker : run[v].pc = "copy" => run[v].id \in Id \ {a}
        BY <1>8 DEF RunsInv, TypeOK, Run, Id
      <3> QED
        BY <1>3, <1>5, <1>7, <3>1 DEF ContentInv, Lone
    <2> QED
      BY <2>1, <2>2 DEF ContentInv
  <1>16. MakingInv'
    BY <1>3, <1>7, <1>8, <1>9 DEF MakingInv, Lone
  <1>17. SettledInv'
    BY <1>3, <1>4, <1>5, <1>7, <1>21 DEF SettledInv, LeadsToOwn, Lone
  <1> QED
    BY <1>10, <1>11, <1>12, <1>13, <1>14, <1>15, <1>16, <1>17

\* The row of an uploaded file is inserted.
LEMMA Inserted ==
    ASSUME IInv, NEW w \in Worker, InsertUploaded(w)
    PROVE  IInv'
  <1> USE DEF IInv
  <1>1. PICK a \in Id : a = made + 1
    BY BoundAssumption DEF InsertUploaded, Insert, TypeOK, Id
  <1>2. /\ run[w].pc \in {"insert", "post"} /\ a \notin 0 .. made /\ made' = a
        /\ made \in Nat
        /\ run[w].id = 0 /\ run[w].obj \in Row /\ run[w].obj.exists
        /\ run[w].obj.path \in Path /\ run[w].obj.adapter \in Adapter
        /\ run[w].data \in Content /\ None \notin Path /\ None \notin Content
        /\ UNCHANGED <<files, ops, crashes, cut, placed>>
        /\ posted' = IF run[w].pc = "post" THEN posted \cup {a} ELSE posted
    BY <1>1, BoundAssumption, ContentAssumption
       DEF InsertUploaded, Insert, TypeOK, RunsInv, Run, Row
  <1>3. /\ row' \in [Id -> Row] /\ row'[a] = run[w].obj
        /\ \A b \in Id \ {a} : row'[b] = row[b]
    BY <1>1, <1>2 DEF InsertUploaded, Insert, TypeOK
  <1>4. /\ own' \in [Id -> Content \cup {None}] /\ own'[a] = run[w].data
        /\ \A b \in Id \ {a} : own'[b] = own[b]
    BY <1>1, <1>2 DEF InsertUploaded, Insert, TypeOK
  <1>5. /\ run' \in [Worker -> Run] /\ run'[w] = Resting
        /\ \A v \in Worker \ {w} : run'[v] = run[v]
    BY AdapterAssumption, BoundAssumption
       DEF InsertUploaded, End, TypeOK, Run, Resting, NoRow, Row, Data
  <1>6. Resting.pc = "idle" /\ Resting.id = 0 /\ Resting.obj.path = None
    BY DEF Resting, NoRow
  <1>7. \A v \in Worker : run[v].id # a /\ run[v].id \in Id \cup {0}
    BY <1>2 DEF RunsInv, TypeOK, Run, Id
  <1>8. \A v \in Worker \ {w} : Wanted(v)' = Wanted(v) /\ (\A q : Holds(v, q)' = Holds(v, q))
    BY <1>4, <1>5, <1>7 DEF Wanted, Holds
  <1>9. \A q \in Path : ~Holds(w, q)'
    BY <1>2, <1>5, <1>6 DEF Holds
  <1>20. ASSUME Lone(run[w].obj.path)
         PROVE  /\ \A v \in Worker \ {w} : ~Holds(v, run[w].obj.path)
                /\ \A b \in Id : row[b].path # run[w].obj.path
                /\ \A x \in Adapter : files[x][run[w].obj.path] \in {None, Empty, own'[a]}
                /\ run[w].pc = "insert" =>
                       files[run[w].obj.adapter][run[w].obj.path] = own'[a]
    <2>1. Holds(w, run[w].obj.path) /\ Wanted(w) = own'[a]
      BY <1>2, <1>4 DEF Holds, Wanted
    <2>2. \A b \in Id : b # 0
      BY DEF Id
    <2>3. /\ \A v \in Worker \ {w} : ~Holds(v, run[w].obj.path)
          /\ \A b \in Id : row[b].path # run[w].obj.path
      BY <1>2, <1>20, <2>1, <2>2 DEF LoneInv
    <2> QED
      BY <1>2, <1>20, <2>1, <2>3 DEF ContentInv, MakingInv
  <1>21. \A b \in Id : Kept(b)' /\ b # a => Kept(b)
    BY <1>2, <1>3, <1>5 DEF Kept, Settled, Existing, Id
  <1>10. TypeOK'
    BY <1>1, <1>2, <1>3, <1>4, <1>5, BoundAssumption DEF TypeOK, Id
  <1>11. RunsInv' /\ OwnInv'
    <2>1. RunsInv'
      <3>1. \A v \in Worker : run[v].id <= a
        BY <1>1, <1>2 DEF RunsInv, TypeOK, Run
      <3>2. \A v \in Worker : run[v].pc = "write" => own'[run[v].id] = own[run[v].id]
        BY <1>4, <1>7 DEF RunsInv
      <3> QED
        BY <1>1, <1>2, <1>5, <1>6, <3>1, <3>2 DEF RunsInv
    <2>2. OwnInv'
      BY <1>1, <1>2, <1>4 DEF OwnInv, Id
    <2> QED
      BY <2>1, <2>2
  <1>12. PlacedInv'
    <2>1. placed[run[w].obj.path] # 0
      BY <1>2 DEF PlacedInv, Holds
    <2> QED
      BY <1>2, <1>3, <1>8, <1>9, <2>1 DEF PlacedInv
  <1>13. LoneInv'
    BY <1>2, <1>3, <1>5, <1>8, <1>9, <1>20 DEF LoneInv, Lone
  <1>14. PathInv'
    BY <1>2, <1>3, <1>5, <1>6, <1>7 DEF PathInv
  <1>15. ContentInv'
    <2>1. \A q \in Path, x \in Adapter : Lone(q)' =>
              /\ \A b \in Id : row'[b].path = q => files'[x][q] \in {None, Empty, own'[b]}
              /\ \A v \in Worker : Holds(v, q)' => files'[x][q] \in {None, Empty, Wanted(v)'}
      BY <1>2, <1>3, <1>4, <1>8, <1>9, <1>20 DEF ContentInv, Lone
    <2>2. \A v \in Worker : run'[v].pc = "copy" =>
              \/ run'[v].data \in {Empty, own'[run'[v].id]}
              \/ run'[v].obj.path # None /\ ~Lone(run[v].obj.path)'
      <3>1. \A v \in Worker : run[v].pc = "copy" => run[v].id \in Id \ {a}
        BY <1>7 DEF RunsInv
      <3> QED
        BY <1>2, <1>4, <1>5, <1>6, <3>1 DEF ContentInv, Lone
    <2> QED
      BY <2>1, <2>2 DEF ContentInv
  <1>16. MakingInv'
    BY <1>2, <1>5, <1>6, <1>8 DEF MakingInv, Lone, RunsInv
  <1>17. SettledInv'
    <2>1. ASSUME NEW b \in Id, Kept(b)', b # a
          PROVE  /\ row'[b].path # None
                 /\ Lone(row[b].path)' => files'[row'[b].adapter][row'[b].path] = own'[b]
                 /\ \A v \in Worker : run'[v].id = b => LeadsToOwn(b, v)'
      BY <1>2, <1>3, <1>4, <1>5, <1>6, <1>21, <2>1 DEF SettledInv, LeadsToOwn, Lone, Id
    <2>2. ASSUME Kept(a)'
          PROVE  /\ row'[a].path # None
                 /\ Lone(row[a].path)' => files'[row'[a].adapter][row'[a].path] = own'[a]
                 /\ \A v \in Worker : run'[v].id # a
      <3>1. run[w].pc = "insert"
        BY <1>2, <2>2 DEF Kept
      <3> QED
        BY <1>2, <1>3, <1>5, <1>6, <1>7, <1>20, <3>1 DEF Lone
    <2> QED
      BY <2>1, <2>2 DEF SettledInv
  <1> QED
    BY <1>10, <1>11, <1>12, <1>13, <1>14, <1>15, <1>16, <1>17

\* A process is done or dies, and its attachment may be gone.
LEMMA Ended ==
    ASSUME IInv, NEW w \in Worker, run[w].pc # "idle", End(w),
           NEW a, a = run[w].id,
           \/ /\ run[w].pc = "erase" /\ row' = [row EXCEPT ![a] = NoRow]
              /\ UNCHANGED <<cut, crashes>>
           \/ /\ crashes < MaxCrashes /\ crashes' = crashes + 1 /\ row' = row
              /\ cut' = IF run[w].pc \in {"write", "point", "erase"}
                        THEN cut \cup {a} ELSE cut,
           UNCHANGED <<files, made, ops, own, placed, posted>>
    PROVE  IInv'
  <1> USE DEF IInv
  <1>1. /\ run[w] \in Run /\ a \in 0 .. made /\ (a = 0 <=> run[w].pc \in {"insert", "post"})
        /\ (run[w].pc \notin {"insert", "post"} => a \in 1 .. made /\ a \in Id)
        /\ NoRow \in Row /\ ~NoRow.exists /\ NoRow.path = None
    BY BoundAssumption, AdapterAssumption DEF TypeOK, RunsInv, Run, Row, NoRow, Id
  <1>2. /\ row' \in [Id -> Row]
        /\ \A b \in Id : row'[b] = row[b] \/ (row'[b] = NoRow /\ b = a)
        /\ run[w].pc = "erase" => a \in cut' \/ row'[a] = NoRow
    BY <1>1 DEF TypeOK
  <1>3. /\ run' \in [Worker -> Run] /\ run'[w] = Resting
        /\ \A v \in Worker \ {w} : run'[v] = run[v]
    BY AdapterAssumption, BoundAssumption DEF End, TypeOK, Run, Resting, NoRow, Row, Data
  <1>4. Resting.pc = "idle" /\ Resting.id = 0 /\ Resting.obj.path = None
    BY DEF Resting, NoRow
  <1>5. /\ cut \subseteq cut' /\ cut' \subseteq 1 .. made
        /\ run[w].pc \in {"write", "point"} => a \in cut'
    BY <1>1, BoundAssumption DEF TypeOK
  <1>6. crashes' \in 0 .. MaxCrashes
    BY BoundAssumption DEF TypeOK
  <1>7. \A b \in Id : Kept(b)' => Kept(b) /\ row'[b] = row[b]
    BY <1>1, <1>2, <1>3, <1>5 DEF Kept, Settled, Existing
  <1>10. TypeOK'
    BY <1>1, <1>2, <1>3, <1>5, <1>6 DEF TypeOK
  <1>11. RunsInv' /\ OwnInv'
    <2>1. RunsInv'
      <3>1. made \in Nat /\ 0 <= made
        BY BoundAssumption DEF TypeOK
      <3> QED
        BY <1>3, <1>4, <3>1 DEF RunsInv
    <2>2. OwnInv'
      BY DEF OwnInv
    <2> QED
      BY <2>1, <2>2
  <1>12. PlacedInv'
    BY <1>1, <1>2, <1>3, <1>4, ContentAssumption DEF PlacedInv, Holds
  <1>13. LoneInv'
    BY <1>1, <1>2, <1>3, <1>4, ContentAssumption DEF LoneInv, Holds, Lone
  <1>14. PathInv'
    BY <1>1, <1>2, <1>3, <1>4 DEF PathInv, Id
  <1>15. ContentInv'
    BY <1>1, <1>2, <1>3, <1>4, ContentAssumption DEF ContentInv, Holds, Lone, Wanted
  <1>16. MakingInv'
    BY <1>3, <1>4, <1>5 DEF MakingInv, Lone, Wanted, RunsInv
  <1>17. SettledInv'
    BY <1>3, <1>4, <1>7 DEF SettledInv, LeadsToOwn, Lone, Id
  <1> QED
    BY <1>10, <1>11, <1>12, <1>13, <1>14, <1>15, <1>16, <1>17

-----------------------------------------------------------------------------
(* The theorems.                                                           *)

LEMMA Starts == Init => IInv
  <1> SUFFICES ASSUME Init PROVE IInv
    OBVIOUS
  <1>1. Resting \in Run /\ NoRow \in Row
    BY AdapterAssumption, BoundAssumption DEF Run, Resting, NoRow, Row, Data
  <1>2. /\ \A w \in Worker : run[w] = Resting
        /\ \A a \in Id : row[a] = NoRow /\ own[a] = None
    BY DEF Init
  <1>3. /\ Resting.pc = "idle" /\ Resting.id = 0 /\ Resting.obj.path = None
        /\ NoRow.path = None /\ ~NoRow.exists
    BY DEF Resting, NoRow
  <1>4. TypeOK
    BY <1>1, <1>3, BoundAssumption DEF Init, TypeOK, Data
  <1>5. RunsInv /\ OwnInv
    BY <1>2, <1>3 DEF Init, RunsInv, OwnInv, Id
  <1>6. PlacedInv
    BY <1>2, <1>3, ContentAssumption DEF Init, PlacedInv, Holds
  <1>7. LoneInv /\ PathInv
    BY <1>2, <1>3, ContentAssumption DEF LoneInv, PathInv, Holds
  <1>8. ContentInv
    BY <1>2, <1>3, ContentAssumption DEF Init, ContentInv, Holds
  <1>9. MakingInv /\ SettledInv
    BY <1>2, <1>3 DEF MakingInv, SettledInv, Kept, Settled, Existing
  <1> QED
    BY <1>4, <1>5, <1>6, <1>7, <1>8, <1>9 DEF IInv

LEMMA Steps == IInv /\ [Next]_vars => IInv'
  <1> SUFFICES ASSUME IInv, [Next]_vars PROVE IInv'
    OBVIOUS
  <1>1. CASE UNCHANGED vars
    BY <1>1
       DEF vars, IInv, TypeOK, RunsInv, OwnInv, PlacedInv, LoneInv, PathInv, ContentInv,
           MakingInv, SettledInv, Kept, Settled, Existing, LeadsToOwn, Holds, Lone, Wanted
  <1>2. ASSUME NEW w \in Worker, NEW p \in Path, NEW c \in Content,
               uploadAttachment(w, p, c) \/ uploadPosted(w, p, c)
        PROVE  IInv'
    <2>1. /\ Attached(p) \in Row /\ Attached(p).exists /\ Attached(p).path = p
          /\ Attached(p).adapter = Active
      BY AdapterAssumption DEF Row, Attached
    <2>2. run[w].pc = "idle" /\ Give(p) /\ c \in Data
      BY <1>2 DEF uploadAttachment, uploadPosted, Place, Data
    <2>3. UNCHANGED <<made, row, ops, crashes, own, cut, posted>>
      BY <1>2 DEF uploadAttachment, uploadPosted
    <2>4. CASE uploadAttachment(w, p, c)
      <3>1. Write(Active, p, c) /\ Becomes(w, "insert", 0, Attached(p), c)
        BY <2>4 DEF uploadAttachment, Place
      <3> QED
        BY <2>1, <2>2, <2>3, <3>1, Placed
    <2>5. CASE uploadPosted(w, p, c)
      <3>1. Becomes(w, "post", 0, Attached(p), c) /\ UNCHANGED files
        BY <2>5 DEF uploadPosted
      <3> QED
        BY <2>1, <2>2, <2>3, <3>1, Placed
    <2> QED
      BY <1>2, <2>4, <2>5
  <1>3. ASSUME NEW w \in Worker, NEW p \in Path, NEW c \in Content,
               saveFileContent(w, p, c)
        PROVE  IInv'
    BY <1>3, Reserved
  <1>4. ASSUME NEW w \in Worker, InsertUploaded(w) PROVE IInv'
    BY <1>4, Inserted
  <1>5. ASSUME NEW w \in Worker, WriteSaved(w) PROVE IInv'
    <2>1. /\ run[w].pc = "write" /\ Give(run[w].obj.path)
          /\ Write(Active, run[w].obj.path, run[w].data)
          /\ Becomes(w, "point", run[w].id, run[w].obj, None)
          /\ UNCHANGED <<made, row, ops, crashes, own, cut, posted>>
      BY <1>5 DEF WriteSaved, Place
    <2>2. /\ run[w].obj \in Row /\ run[w].obj.exists /\ run[w].obj.path \in Path
          /\ run[w].obj.adapter = Active /\ own[run[w].id] = run[w].data
          /\ run[w].id \in Id /\ run[w].id <= made
      BY <2>1 DEF IInv, TypeOK, RunsInv, Run, Row, Id
    <2>3. run[w].data \in Content /\ None \in Data
      BY <2>2 DEF IInv, TypeOK, OwnInv, Data
    <2> QED
      BY <2>1, <2>2, <2>3, Placed
  <1>6. ASSUME NEW w \in Worker, NEW a \in Id, NEW target \in Adapter,
               moveToAdapter(w, a, target)
        PROVE  IInv'
    <2> DEFINE obj == [row[a] EXCEPT !.adapter = target]
    <2>1. /\ Reads(w, a) /\ Becomes(w, "copy", a, obj, getContent(row[a]))
      BY <1>6 DEF moveToAdapter
    <2>2. /\ row[a] \in Row /\ row[a].exists
      BY <2>1 DEF Reads, Existing, IInv, TypeOK
    <2>3. obj \in Row /\ obj.exists /\ obj.path = row[a].path
      BY <2>2 DEF Row
    <2>4. getContent(row[a]) \in Data
      BY <2>2, ContentType DEF IInv, Data
    <2> HIDE DEF obj
    <2> QED
      BY <2>1, <2>3, <2>4, Taken
  <1>7. ASSUME NEW w \in Worker, NEW a \in Id, NEW pc \in {"delete", "restore", "unlink"},
               NEW obj, Reads(w, a), Becomes(w, pc, a, obj, None),
               \/ obj = row[a]
               \/ \E b \in BOOLEAN : obj = [row[a] EXCEPT !.is_deleted = b]
        PROVE  IInv'
    <2>1. row[a] \in Row /\ row[a].exists
      BY <1>7 DEF Reads, Existing, IInv, TypeOK
    <2>2. /\ obj \in Row /\ obj.exists /\ obj.path = row[a].path
          /\ obj.adapter = row[a].adapter
      BY <1>7, <2>1 DEF Row
    <2>3. None \in Data
      BY DEF Data
    <2> QED
      BY <1>7, <2>2, <2>3, Taken
  <1>8. ASSUME NEW w \in Worker, NEW a \in Id, atdel(w, a) \/ restore(w, a) \/ delete(w, a)
        PROVE  IInv'
    <2>1. CASE atdel(w, a)
      BY <1>7, <2>1 DEF atdel
    <2>2. CASE restore(w, a)
      BY <1>7, <2>2 DEF restore
    <2>3. CASE delete(w, a)
      BY <1>7, <2>3 DEF delete
    <2> QED
      BY <1>8, <2>1, <2>2, <2>3
  <1>9. ASSUME NEW w \in Worker,
               PointToSaved(w) \/ UpdateMoved(w) \/ SoftDelete(w) \/ Restore(w)
        PROVE  IInv'
    BY <1>9, Updated DEF PointToSaved, UpdateMoved, SoftDelete, Restore
  <1>10. ASSUME NEW w \in Worker, WriteCopy(w) PROVE IInv'
    <2>1. run[w].data \in Data
      BY DEF IInv, TypeOK, Run
    <2> QED
      BY <1>10, <2>1, Stored DEF WriteCopy
  <1>11. ASSUME NEW w \in Worker, Unlink(w) PROVE IInv'
    <2>1. None \in Data
      BY DEF Data
    <2> QED
      BY <1>11, <2>1, Stored DEF Unlink
  <1>12. ASSUME NEW w \in Worker, Erase(w) \/ Crash(w) PROVE IInv'
    <2>1. CASE Erase(w)
      BY <2>1, Ended DEF Erase
    <2>2. CASE Crash(w)
      BY <2>2, Ended DEF Crash
    <2> QED
      BY <1>12, <2>1, <2>2
  <1> QED
    BY <1>1, <1>2, <1>3, <1>4, <1>5, <1>6, <1>8, <1>9, <1>10, <1>11, <1>12 DEF Next

LEMMA Inductive == Spec => []IInv
  BY Starts, Steps, PTL DEF Spec

\* Files, rows and processes keep their types, and ids are never given again.
THEOREM TypeCorrect == Spec => []TypeOK
  <1>1. IInv => TypeOK
    BY DEF IInv
  <1> QED
    BY <1>1, Inductive, PTL

\* An attachment whose path no other one was given leads to the content it was
\* made for, or to none when that was posted in a field, while it is made or
\* erased or after that was cut off: for any number of processes, stores,
\* attachments and deaths.
THEOREM ContentKept == Spec => []OwnContent
  <1>1. IInv => OwnContent
    <2> SUFFICES ASSUME IInv, NEW a \in Existing, ~Shared(a)
                 PROVE  \/ getContent(row[a]) = own[a]
                        \/ getContent(row[a]) = Empty /\ ~Kept(a)
      BY DEF OwnContent
    <2>1. /\ a \in Id /\ row[a].path \in Path \cup {None} /\ row[a].adapter \in Adapter
          /\ a <= made /\ own[a] # None
      BY DEF IInv, TypeOK, Row, Existing, OwnInv
    <2>2. row[a].path # None => Lone(row[a].path)
      BY DEF Shared, Lone
    <2>3. getContent(row[a]) \in {Empty, own[a]}
      BY <2>1, <2>2 DEF IInv, ContentInv, getContent
    <2>4. Kept(a) => getContent(row[a]) = own[a]
      BY <2>1, <2>2 DEF IInv, SettledInv, getContent
    <2> QED
      BY <2>3, <2>4
  <1> QED
    BY <1>1, Inductive, PTL
=============================================================================
