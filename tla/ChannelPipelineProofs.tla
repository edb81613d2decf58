------------------------ MODULE ChannelPipelineProofs ------------------------
(***************************************************************************)
(* For any channels, mails, processors, number of overlapping runs and     *)
(* crashes: no mail is lost between the mailbox and the database, the      *)
(* ticket processor's status is never ahead of the comment it reports, and *)
(* a mail that nothing disturbed becomes one comment at most.              *)
(***************************************************************************)
EXTENDS ChannelPipeline, TLAPS

\* What a worker holds in memory is in the database, each part from the step that put it
\* there on: a listed row, the row it stores attachments for, the mail it marks as seen,
\* the comment it writes a status for.
HoldsStored(w) ==
    /\ run[w].list \subseteq Stored
    /\ run[w].mails \subseteq arrived
    /\ run[w].pc \in {"attach", "seen", "commented"} => run[w].row \in Stored
    /\ run[w].pc \in {"handling", "commented"} => run[w].proc \in Processor
    /\ run[w].pc \in {"attach", "seen"} /\ run[w].ch \notin WebChannels =>
         mail[run[w].row] \in run[w].mails
    /\ run[w].pc = "seen" => run[w].row \in raw /\ run[w].ch \notin WebChannels
    /\ run[w].pc = "commented" =>
         mail[run[w].row] \in Mail /\ comments[mail[run[w].row]] > 0

\* A status belongs to a stored row; the ticket processor's to a mail with its comment.
StatusInv ==
    \A r \in Row, p \in Processor :
        /\ status[r][p] # "none" => r \in Stored
        /\ Kind[p] = "ticket" /\ status[r][p] = "ok" =>
             mail[r] \in Mail /\ comments[mail[r]] > 0

\* The inductive invariant.
IInv == TypeOK /\ SeenIsStored /\ StatusInv /\ \A w \in Worker : HoldsStored(w)

\* What no step takes back.
Grows ==
    /\ rows <= rows'
    /\ \A r \in Stored : mail'[r] = mail[r]
    /\ raw \subseteq raw'
    /\ arrived \subseteq arrived'
    /\ \A m \in Mail : comments[m] <= comments'[m]

-----------------------------------------------------------------------------
(* Each part of the invariant under a step that disturbs another one.      *)

LEMMA RunStep ==
  ASSUME run \in [Worker -> Run], NEW w \in Worker, NEW r \in Run, Becomes(w, r)
  PROVE  /\ run' \in [Worker -> Run]
         /\ run'[w] = r
         /\ \A v \in Worker \ {w} : run'[v] = run[v]
BY DEF Becomes

LEMMA StoredRows ==
  ASSUME TypeOK
  PROVE  Stored \subseteq Row
BY BoundAssumption DEF TypeOK, Stored, Row

LEMMA RestingType == Resting \in Run
BY BoundAssumption DEF Resting, Run

LEMMA RestingHolds ==
  ASSUME NEW w \in Worker, run'[w] = Resting
  PROVE  HoldsStored(w)'
BY DEF HoldsStored, Resting

LEMMA OtherHolds ==
  ASSUME TypeOK, TypeOK', Grows, NEW v \in Worker, run'[v] = run[v], HoldsStored(v)
  PROVE  HoldsStored(v)'
<1>1. Stored \subseteq Stored'
  BY DEF TypeOK, Grows, Stored
<1>2. run[v].row \in Stored => mail'[run[v].row] = mail[run[v].row]
  BY DEF Grows
<1>3. /\ (run[v].list \subseteq Stored)'
      /\ (run[v].mails \subseteq arrived)'
      /\ (run[v].pc \in {"attach", "seen", "commented"} => run[v].row \in Stored)'
      /\ (run[v].pc \in {"handling", "commented"} => run[v].proc \in Processor)'
  BY <1>1 DEF HoldsStored, Grows
<1>4. (run[v].pc \in {"attach", "seen"} /\ run[v].ch \notin WebChannels =>
         mail[run[v].row] \in run[v].mails)'
  BY <1>2 DEF HoldsStored
<1>5. (run[v].pc = "seen" => run[v].row \in raw /\ run[v].ch \notin WebChannels)'
  BY DEF HoldsStored, Grows
<1>6. (run[v].pc = "commented" =>
         mail[run[v].row] \in Mail /\ comments[mail[run[v].row]] > 0)'
  <2> SUFFICES ASSUME run[v].pc = "commented"
               PROVE  mail'[run[v].row] \in Mail /\ comments'[mail'[run[v].row]] > 0
    OBVIOUS
  <2>1. mail'[run[v].row] = mail[run[v].row] /\ mail[run[v].row] \in Mail
        /\ comments[mail[run[v].row]] > 0
    BY <1>2 DEF HoldsStored
  <2>2. QED
    BY <2>1 DEF Grows, TypeOK
<1>7. QED
  BY <1>3, <1>4, <1>5, <1>6 DEF HoldsStored

LEMMA SeenStays ==
  ASSUME TypeOK, SeenIsStored, Grows, seen' = seen
  PROVE  SeenIsStored'
BY DEF TypeOK, SeenIsStored, Grows, Stored

LEMMA StatusStays ==
  ASSUME TypeOK, TypeOK', StatusInv, Grows, status' = status
  PROVE  StatusInv'
<1> SUFFICES ASSUME NEW r \in Row, NEW p \in Processor
             PROVE  /\ status[r][p] # "none" => r \in Stored'
                    /\ Kind[p] = "ticket" /\ status[r][p] = "ok" =>
                         mail'[r] \in Mail /\ comments'[mail'[r]] > 0
  BY DEF StatusInv, Row
<1>1. Stored \subseteq Stored'
  BY DEF TypeOK, Grows, Stored
<1>2. CASE Kind[p] = "ticket" /\ status[r][p] = "ok"
  <2>1. r \in Stored /\ mail[r] \in Mail /\ comments[mail[r]] > 0
    BY <1>2 DEF StatusInv
  <2>2. mail'[r] = mail[r] /\ comments[mail[r]] <= comments'[mail[r]]
    BY <2>1 DEF Grows
  <2>3. comments[mail[r]] \in Nat /\ comments'[mail[r]] \in Nat
    BY <2>1 DEF TypeOK
  <2>4. QED
    BY <1>1, <2>1, <2>2, <2>3
<1>3. CASE ~(Kind[p] = "ticket" /\ status[r][p] = "ok")
  BY <1>1, <1>3 DEF StatusInv
<1>4. QED
  BY <1>2, <1>3

\* A step of one worker.
LEMMA WorkerStep ==
  ASSUME IInv, TypeOK', Grows, NEW w \in Worker,
         \A v \in Worker \ {w} : run'[v] = run[v],
         HoldsStored(w)', SeenIsStored', StatusInv'
  PROVE  IInv'
<1>1. ASSUME NEW v \in Worker PROVE HoldsStored(v)'
  <2>1. CASE v = w
    BY <2>1
  <2>2. CASE v # w
    BY <2>2, OtherHolds DEF IInv
  <2>3. QED
    BY <2>1, <2>2
<1>2. QED
  BY <1>1 DEF IInv

\* One that changes neither mails, rows, statuses nor comments.
LEMMA MemoryStep ==
  ASSUME IInv, TypeOK', NEW w \in Worker,
         \A v \in Worker \ {w} : run'[v] = run[v],
         HoldsStored(w)', UNCHANGED <<box, table, status, comments>>
  PROVE  IInv'
<1>1. Grows
  BY DEF IInv, TypeOK, Grows, box, table
<1>2. seen' = seen /\ status' = status
  BY DEF box
<1>3. SeenIsStored' /\ StatusInv'
  BY <1>1, <1>2, SeenStays, StatusStays DEF IInv
<1>4. QED
  BY <1>1, <1>3, WorkerStep

-----------------------------------------------------------------------------
(* The inductive invariant.                                                *)

LEMMA InitInv == Init => IInv
<1> SUFFICES ASSUME Init PROVE IInv
  OBVIOUS
<1>1. Stored = {}
  BY DEF Init, Stored
<1>2. TypeOK
  BY <1>1, BoundAssumption, RestingType DEF Init, TypeOK, Row, Status
<1>3. SeenIsStored /\ StatusInv
  BY DEF Init, SeenIsStored, StatusInv
<1>4. ASSUME NEW w \in Worker PROVE HoldsStored(w)
  BY DEF Init, HoldsStored, Resting
<1>5. QED
  BY <1>2, <1>3, <1>4 DEF IInv

\* A row is inserted, behind the stored ones.
LEMMA NewRowStep ==
  ASSUME TypeOK, NEW w \in Worker, NEW m \in Mail \cup {Page}, NewRow(w, m),
         UNCHANGED <<arrived, raw, comments>>
  PROVE  /\ rows' = rows + 1 /\ rows' \in 0 .. MaxRows
         /\ rows + 1 \in Row /\ rows + 1 \in Stored' /\ Stored \subseteq Stored'
         /\ chan' \in [Row -> Channel \cup {Idle}]
         /\ mail' \in [Row -> Mail \cup {Page}]
         /\ mail'[rows + 1] = m
         /\ Grows
<1>1. /\ rows' = rows + 1 /\ rows' \in 0 .. MaxRows
      /\ rows + 1 \in Row /\ rows + 1 \in Stored' /\ Stored \subseteq Stored'
  BY BoundAssumption DEF NewRow, TypeOK, Row, Stored
<1>2. run[w].ch \in Channel \cup {Idle}
  BY DEF TypeOK, Run
<1>3. chan' \in [Row -> Channel \cup {Idle}] /\ mail' \in [Row -> Mail \cup {Page}]
  BY <1>1, <1>2 DEF NewRow, TypeOK
<1>4. mail'[rows + 1] = m
  BY <1>1 DEF NewRow, TypeOK
<1>5. \A r \in Stored : mail'[r] = mail[r]
  BY DEF NewRow, TypeOK, Stored
<1>6. Grows
  BY <1>1, <1>5 DEF Grows, TypeOK
<1>7. QED
  BY <1>1, <1>3, <1>4, <1>6

\* The steps that read a channel, up to the seen flag.
LEMMA ReadingInv ==
  ASSUME IInv, NEW w \in Worker,
         \/ \E m \in Mail : InsertMessage(w, m)
         \/ ReadPage(w) \/ SaveAttachments(w) \/ MarkAsSeen(w) \/ EndReading(w)
  PROVE  IInv'
<1> USE DEF IInv
<1>t. run[w] \in Run /\ run \in [Worker -> Run] /\ rows \in Nat
  BY BoundAssumption DEF TypeOK
<1>h. HoldsStored(w)
  OBVIOUS
<1>1. ASSUME NEW m \in Mail \cup {Page}, NewRow(w, m),
             Becomes(w, [run[w] EXCEPT !.pc = "attach", !.row = rows + 1]),
             run[w].ch \notin WebChannels => m \in run[w].mails,
             UNCHANGED <<box, raw, processed, status, comments, crashes, history>>
      PROVE  IInv'
  <2> DEFINE r == [run[w] EXCEPT !.pc = "attach", !.row = rows + 1]
  <2>1. /\ rows' = rows + 1 /\ rows' \in 0 .. MaxRows
        /\ rows + 1 \in Row /\ rows + 1 \in Stored' /\ Stored \subseteq Stored'
        /\ chan' \in [Row -> Channel \cup {Idle}]
        /\ mail' \in [Row -> Mail \cup {Page}]
        /\ mail'[rows + 1] = m
        /\ Grows
    BY <1>1, NewRowStep DEF box
  <2>2. r \in Run
    BY <1>t, <2>1 DEF Run
  <2>3. run' \in [Worker -> Run] /\ run'[w] = r /\ \A v \in Worker \ {w} : run'[v] = run[v]
    BY <1>1, <1>t, <2>2, RunStep
  <2>4. TypeOK'
    BY <1>1, <2>1, <2>3 DEF TypeOK, box, history
  <2>5. HoldsStored(w)'
    BY <1>1, <1>h, <1>t, <2>1, <2>3 DEF HoldsStored, box, Run
  <2>6. SeenIsStored' /\ StatusInv'
    BY <1>1, <2>1, <2>4, SeenStays, StatusStays DEF box
  <2>7. QED
    BY <2>1, <2>3, <2>4, <2>5, <2>6, WorkerStep
<1>2. ASSUME NEW m \in Mail, InsertMessage(w, m) PROVE IInv'
  BY <1>1, <1>2 DEF InsertMessage
<1>3. ASSUME ReadPage(w) PROVE IInv'
  BY <1>1, <1>3 DEF ReadPage
<1>4. ASSUME SaveAttachments(w) PROVE IInv'
  <2> DEFINE r == [run[w] EXCEPT !.pc = IF run[w].ch \in WebChannels THEN "reading" ELSE "seen"]
  <2>1. r \in Run
    BY <1>t DEF Run
  <2>2. run' \in [Worker -> Run] /\ run'[w] = r /\ \A v \in Worker \ {w} : run'[v] = run[v]
    BY <1>4, <1>t, <2>1, RunStep DEF SaveAttachments
  <2>3. run[w].row \in Stored /\ raw' = raw \cup {run[w].row}
    BY <1>4, <1>h DEF SaveAttachments, HoldsStored
  <2>4. TypeOK'
    BY <1>4, <2>2, <2>3 DEF SaveAttachments, TypeOK, Stored, box, history
  <2>5. Grows
    BY <1>4, <2>3 DEF SaveAttachments, TypeOK, Grows, box
  <2>6. HoldsStored(w)'
    BY <1>4, <1>h, <1>t, <2>2, <2>3 DEF SaveAttachments, HoldsStored, box, Run, Stored
  <2>7. SeenIsStored' /\ StatusInv'
    BY <1>4, <2>4, <2>5, SeenStays, StatusStays DEF SaveAttachments, box
  <2>8. QED
    BY <2>2, <2>4, <2>5, <2>6, <2>7, WorkerStep
<1>5. ASSUME MarkAsSeen(w) PROVE IInv'
  <2> DEFINE x == mail[run[w].row]
             r == [run[w] EXCEPT !.pc = "reading", !.mails = @ \ {x}, !.row = 0]
  <2>1. run[w].row \in raw /\ x \in run[w].mails /\ x \in arrived /\ x \in Mail
    BY <1>5, <1>h DEF MarkAsSeen, HoldsStored, TypeOK
  <2>2. r \in Run
    <3>1. run[w].mails \ {x} \in SUBSET Mail /\ 0 \in 0 .. MaxRows
      BY <1>t, BoundAssumption DEF Run
    <3>2. \A ms \in SUBSET Mail, n \in 0 .. MaxRows :
            [run[w] EXCEPT !.pc = "reading", !.mails = ms, !.row = n] \in Run
      BY <1>t DEF Run
    <3>3. QED
      BY <3>1, <3>2
  <2>3. run' \in [Worker -> Run] /\ run'[w] = r /\ \A v \in Worker \ {w} : run'[v] = run[v]
    BY <1>5, <1>t, <2>2, RunStep DEF MarkAsSeen
  <2>4. TypeOK'
    BY <1>5, <2>1, <2>3 DEF MarkAsSeen, TypeOK, Stored, table, history
  <2>5. Grows
    BY <1>5 DEF MarkAsSeen, TypeOK, Grows, table
  <2>6. HoldsStored(w)'
    BY <1>5, <1>h, <1>t, <2>3 DEF MarkAsSeen, HoldsStored, table, Run, Stored
  <2>7. SeenIsStored'
    BY <1>5, <2>1 DEF MarkAsSeen, SeenIsStored, table
  <2>8. StatusInv'
    BY <1>5, <2>4, <2>5, StatusStays DEF MarkAsSeen
  <2>9. QED
    BY <2>3, <2>4, <2>5, <2>6, <2>7, <2>8, WorkerStep
<1>6. ASSUME EndReading(w) PROVE IInv'
  <2>1. PICK r \in Run : /\ Becomes(w, r)
                         /\ r = Resting \/ \E ps \in SUBSET Processor :
                              r = [Resting EXCEPT !.pc = "processing", !.ch = run[w].ch,
                                                  !.procs = ps]
    <3>1. getProcessors(run[w].ch) \in SUBSET Processor
      BY DEF getProcessors
    <3>2. \A ps \in SUBSET Processor :
            [Resting EXCEPT !.pc = "processing", !.ch = run[w].ch, !.procs = ps] \in Run
      BY <1>t, RestingType DEF Run
    <3>3. QED
      BY <1>6, <3>1, <3>2, RestingType DEF EndReading
  <2>2. run' \in [Worker -> Run] /\ run'[w] = r /\ \A v \in Worker \ {w} : run'[v] = run[v]
    BY <1>t, <2>1, RunStep
  <2>3. TypeOK'
    BY <1>6, <2>2 DEF EndReading, TypeOK, Stored, box, table, history
  <2>4. HoldsStored(w)'
    <3>1. r.list = {} /\ r.mails = {} /\ r.pc \in {"idle", "processing"}
      <4>1. CASE r = Resting
        BY <4>1 DEF Resting
      <4>2. ASSUME NEW ps \in SUBSET Processor,
                   r = [Resting EXCEPT !.pc = "processing", !.ch = run[w].ch, !.procs = ps]
            PROVE  r.list = {} /\ r.mails = {} /\ r.pc = "processing"
        BY <4>2 DEF Resting
      <4>3. QED
        BY <2>1, <4>1, <4>2
    <3>2. QED
      BY <2>2, <3>1 DEF HoldsStored
  <2>5. QED
    BY <1>6, <2>2, <2>3, <2>4, MemoryStep DEF EndReading
<1>7. QED
  BY <1>2, <1>3, <1>4, <1>5, <1>6

LEMMA ListStored ==
  ASSUME NEW p \in Processor
  PROVE  List(p) \subseteq Stored
BY DEF List, AnyNewOrFailed, getUnprocessedMessages, getNewOrFailedMessages

\* A worker drops a row from its list.
LEMMA DropStep ==
  ASSUME TypeOK, NEW w \in Worker, HoldsStored(w), NEW r \in Row,
         Handling(w, r), Drop(w, r), UNCHANGED <<box, table, comments>>
  PROVE  /\ run' \in [Worker -> Run] /\ \A v \in Worker \ {w} : run'[v] = run[v]
         /\ HoldsStored(w)'
         /\ r \in Stored /\ run[w].proc \in Processor
<1> DEFINE x == [run[w] EXCEPT !.list = @ \ {r}]
<1>1. run[w] \in Run /\ run \in [Worker -> Run]
  BY DEF TypeOK
<1>2. x \in Run
  <2>1. run[w].list \ {r} \in SUBSET Row
    BY <1>1 DEF Run
  <2>2. \A l \in SUBSET Row : [run[w] EXCEPT !.list = l] \in Run
    BY <1>1 DEF Run
  <2>3. QED
    BY <2>1, <2>2
<1>3. run' \in [Worker -> Run] /\ run'[w] = x /\ \A v \in Worker \ {w} : run'[v] = run[v]
  BY <1>1, <1>2, RunStep DEF Drop
<1>4. HoldsStored(w)'
  BY <1>1, <1>3 DEF Handling, HoldsStored, Run, Stored, box, table
<1>5. r \in Stored /\ run[w].proc \in Processor
  BY DEF Handling, HoldsStored
<1>6. QED
  BY <1>3, <1>4, <1>5

\* The steps that work on listed rows.
LEMMA HandlingInv ==
  ASSUME IInv, NEW w \in Worker, NEW r \in Row,
         \/ SkipMessage(w, r) \/ AddComment(w, r) \/ CreateTaskRaises(w, r)
         \/ TestMessage(w, r) \/ ExternalProcessor(w, r)
  PROVE  IInv'
<1> USE DEF IInv
<1>t. run[w] \in Run /\ run \in [Worker -> Run] /\ rows \in Nat
  BY BoundAssumption DEF TypeOK
<1>h. HoldsStored(w)
  OBVIOUS
<1>1. ASSUME SkipMessage(w, r) PROVE IInv'
  <2>1. /\ run' \in [Worker -> Run] /\ \A v \in Worker \ {w} : run'[v] = run[v]
        /\ HoldsStored(w)'
    BY <1>1, <1>h, DropStep DEF SkipMessage
  <2>2. TypeOK'
    BY <1>1, <2>1 DEF SkipMessage, TypeOK, Stored, box, table, history
  <2>3. QED
    BY <1>1, <2>1, <2>2, MemoryStep DEF SkipMessage
<1>2. ASSUME TestMessage(w, r) PROVE IInv'
  <2>1. /\ run' \in [Worker -> Run] /\ \A v \in Worker \ {w} : run'[v] = run[v]
        /\ HoldsStored(w)' /\ r \in Stored
    BY <1>2, <1>h, DropStep DEF TestMessage
  <2>2. TypeOK'
    BY <1>2, <2>1 DEF TestMessage, TypeOK, Stored, box, table
  <2>3. QED
    BY <1>2, <2>1, <2>2, MemoryStep DEF TestMessage
<1>3. ASSUME ExternalProcessor(w, r) PROVE IInv'
  <2>1. /\ run' \in [Worker -> Run] /\ \A v \in Worker \ {w} : run'[v] = run[v]
        /\ HoldsStored(w)' /\ r \in Stored /\ run[w].proc \in Processor
    BY <1>3, <1>h, DropStep DEF ExternalProcessor
  <2>2. PICK s \in {"failed", "ok"} :
          /\ status' = [status EXCEPT ![r][run[w].proc] = s]
          /\ disturbed' = IF s = "failed" THEN disturbed \cup ({mail[r]} \cap Mail)
                          ELSE disturbed
    BY <1>3 DEF ExternalProcessor
  <2>3. status' \in [Row -> [Processor -> Status]] /\ disturbed' \subseteq Mail
    BY <2>1, <2>2 DEF TypeOK, Status
  <2>4. TypeOK'
    BY <1>3, <2>1, <2>3 DEF ExternalProcessor, TypeOK, Stored, box, table
  <2>5. Grows
    BY <1>3 DEF ExternalProcessor, TypeOK, Grows, box, table
  <2>6. SeenIsStored'
    BY <1>3, <2>5, SeenStays DEF ExternalProcessor, box
  <2>7. StatusInv'
    <3>1. Kind[run[w].proc] # "ticket"
      BY <1>3 DEF ExternalProcessor, IsKind
    <3>2. ASSUME NEW q \in Row, NEW p \in Processor, status'[q][p] # status[q][p]
          PROVE  q = r /\ p = run[w].proc
      BY <2>1, <2>2, <3>2 DEF TypeOK
    <3>3. QED
      BY <1>3, <2>1, <3>1, <3>2 DEF ExternalProcessor, StatusInv, Stored, Row, table
  <2>8. QED
    BY <2>1, <2>4, <2>5, <2>6, <2>7, WorkerStep
<1>4. ASSUME CreateTaskRaises(w, r) PROVE IInv'
  <2>1. run' \in [Worker -> Run] /\ run'[w] = Resting
        /\ \A v \in Worker \ {w} : run'[v] = run[v]
    BY <1>4, <1>t, RestingType, RunStep DEF CreateTaskRaises
  <2>2. r \in Stored /\ run[w].proc \in Processor
    BY <1>4, <1>h DEF CreateTaskRaises, Handling, HoldsStored
  <2>3. TypeOK'
    BY <1>4, <2>1, <2>2 DEF CreateTaskRaises, TypeOK, Stored, box, table
  <2>4. QED
    BY <1>4, <2>1, <2>3, RestingHolds, MemoryStep DEF CreateTaskRaises
<1>5. ASSUME AddComment(w, r) PROVE IInv'
  <2> DEFINE x == [run[w] EXCEPT !.pc = "commented", !.list = @ \ {r}, !.row = r]
             m == mail[r]
  <2>1. r \in Stored /\ run[w].proc \in Processor
    BY <1>5, <1>h DEF AddComment, Handling, HoldsStored
  <2>2. m \in Mail
    BY <1>5 DEF AddComment, Skipped, TypeOK
  <2>3. x \in Run
    <3>1. run[w].list \ {r} \in SUBSET Row /\ r \in 0 .. MaxRows
      BY <1>t, BoundAssumption DEF Run, Row
    <3>2. \A l \in SUBSET Row, n \in 0 .. MaxRows :
            [run[w] EXCEPT !.pc = "commented", !.list = l, !.row = n] \in Run
      BY <1>t DEF Run
    <3>3. QED
      BY <3>1, <3>2
  <2>4. run' \in [Worker -> Run] /\ run'[w] = x /\ \A v \in Worker \ {w} : run'[v] = run[v]
    BY <1>5, <1>t, <2>3, RunStep DEF AddComment
  <2>5. /\ comments' \in [Mail -> Nat] /\ comments'[m] > 0
        /\ \A n \in Mail : comments[n] <= comments'[n]
    BY <1>5, <2>2, BoundAssumption DEF AddComment, TypeOK
  <2>6. TypeOK'
    BY <1>5, <2>1, <2>4, <2>5 DEF AddComment, TypeOK, Stored, box, table
  <2>7. Grows
    BY <1>5, <2>5 DEF AddComment, TypeOK, Grows, box, table
  <2>8. HoldsStored(w)'
    BY <1>5, <1>h, <1>t, <2>1, <2>2, <2>4, <2>5
    DEF AddComment, HoldsStored, Run, Stored, box, table
  <2>9. SeenIsStored' /\ StatusInv'
    BY <1>5, <2>6, <2>7, SeenStays, StatusStays DEF AddComment, box
  <2>10. QED
    BY <2>4, <2>6, <2>7, <2>8, <2>9, WorkerStep
<1>6. QED
  BY <1>1, <1>2, <1>3, <1>4, <1>5

\* The other steps of a run.
LEMMA ProcessingInv ==
  ASSUME IInv, NEW w \in Worker,
         \/ \E p \in Processor : StartProcessor(w, p)
         \/ InsertStatus(w) \/ UserRaises(w) \/ EndProcessor(w)
         \/ markMessagesAsProcessed(w)
  PROVE  IInv'
<1> USE DEF IInv
<1>t. run[w] \in Run /\ run \in [Worker -> Run] /\ rows \in Nat
  BY BoundAssumption DEF TypeOK
<1>h. HoldsStored(w)
  OBVIOUS
<1>1. ASSUME NEW p \in Processor, StartProcessor(w, p) PROVE IInv'
  <2> DEFINE r == [run[w] EXCEPT !.pc = "handling", !.procs = @ \ {p}, !.proc = p,
                                 !.list = List(p)]
  <2>1. List(p) \subseteq Stored /\ List(p) \in SUBSET Row
    BY ListStored, StoredRows
  <2>2. r \in Run
    <3>1. run[w].procs \ {p} \in SUBSET Processor
      BY <1>t DEF Run
    <3>2. \A ps \in SUBSET Processor, l \in SUBSET Row :
            [run[w] EXCEPT !.pc = "handling", !.procs = ps, !.proc = p, !.list = l] \in Run
      BY <1>t DEF Run
    <3>3. QED
      BY <2>1, <3>1, <3>2
  <2>3. run' \in [Worker -> Run] /\ run'[w] = r /\ \A v \in Worker \ {w} : run'[v] = run[v]
    BY <1>1, <1>t, <2>2, RunStep DEF StartProcessor
  <2>4. disturbed' \subseteq Mail
    BY <1>1 DEF StartProcessor, TypeOK
  <2>5. TypeOK'
    BY <1>1, <2>3, <2>4 DEF StartProcessor, TypeOK, Stored, box, table
  <2>6. HoldsStored(w)'
    BY <1>1, <1>h, <1>t, <2>1, <2>3 DEF StartProcessor, HoldsStored, Run, Stored, box, table
  <2>7. QED
    BY <1>1, <2>3, <2>5, <2>6, MemoryStep DEF StartProcessor
<1>2. ASSUME InsertStatus(w) PROVE IInv'
  <2> DEFINE r == [run[w] EXCEPT !.pc = "handling", !.row = 0]
             q == run[w].row
             p == run[w].proc
  <2>1. q \in Stored /\ q \in Row /\ p \in Processor /\ mail[q] \in Mail
        /\ comments[mail[q]] > 0
    BY <1>2, <1>h, StoredRows DEF InsertStatus, HoldsStored
  <2>2. r \in Run
    <3>1. 0 \in 0 .. MaxRows
      BY BoundAssumption
    <3>2. QED
      BY <1>t, <3>1 DEF Run
  <2>3. run' \in [Worker -> Run] /\ run'[w] = r /\ \A v \in Worker \ {w} : run'[v] = run[v]
    BY <1>2, <1>t, <2>2, RunStep DEF InsertStatus
  <2>4. status' \in [Row -> [Processor -> Status]]
    BY <1>2, <2>1 DEF InsertStatus, TypeOK, Status
  <2>5. TypeOK'
    BY <1>2, <2>3, <2>4 DEF InsertStatus, TypeOK, Stored, box, table, history
  <2>6. Grows
    BY <1>2 DEF InsertStatus, TypeOK, Grows, box, table
  <2>7. HoldsStored(w)'
    BY <1>2, <1>h, <1>t, <2>1, <2>3 DEF InsertStatus, HoldsStored, Run, Stored, box, table
  <2>8. SeenIsStored'
    BY <1>2, <2>6, SeenStays DEF InsertStatus, box
  <2>9. StatusInv'
    <3>1. ASSUME NEW a \in Row, NEW b \in Processor, status'[a][b] # status[a][b]
          PROVE  a = q /\ b = p
      BY <1>2, <2>1, <3>1 DEF InsertStatus, TypeOK
    <3>2. QED
      BY <1>2, <2>1, <3>1 DEF InsertStatus, StatusInv, Stored, Row, table
  <2>10. QED
    BY <2>3, <2>5, <2>6, <2>7, <2>8, <2>9, WorkerStep
<1>3. ASSUME UserRaises(w) PROVE IInv'
  <2>1. run' \in [Worker -> Run] /\ run'[w] = Resting
        /\ \A v \in Worker \ {w} : run'[v] = run[v]
    BY <1>3, <1>t, RestingType, RunStep DEF UserRaises
  <2>2. run[w].row \in Stored /\ run[w].proc \in Processor /\ mail[run[w].row] \in Mail
    BY <1>3, <1>h DEF UserRaises, HoldsStored
  <2>3. TypeOK'
    BY <1>3, <2>1, <2>2 DEF UserRaises, TypeOK, Stored, box, table
  <2>4. QED
    BY <1>3, <2>1, <2>3, RestingHolds, MemoryStep DEF UserRaises
<1>4. ASSUME EndProcessor(w) PROVE IInv'
  <2> DEFINE r == [run[w] EXCEPT !.pc = "processing", !.proc = Idle]
  <2>1. r \in Run
    BY <1>t DEF Run
  <2>2. run' \in [Worker -> Run] /\ run'[w] = r /\ \A v \in Worker \ {w} : run'[v] = run[v]
    BY <1>4, <1>t, <2>1, RunStep DEF EndProcessor
  <2>3. TypeOK'
    BY <1>4, <2>2 DEF EndProcessor, TypeOK, Stored, box, table, history
  <2>4. HoldsStored(w)'
    BY <1>4, <1>h, <1>t, <2>2 DEF EndProcessor, HoldsStored, Run, Stored, box, table
  <2>5. QED
    BY <1>4, <2>2, <2>3, <2>4, MemoryStep DEF EndProcessor
<1>5. ASSUME markMessagesAsProcessed(w) PROVE IInv'
  <2>1. run' \in [Worker -> Run] /\ run'[w] = Resting
        /\ \A v \in Worker \ {w} : run'[v] = run[v]
    BY <1>5, <1>t, RestingType, RunStep DEF markMessagesAsProcessed
  <2>2. TypeOK'
    BY <1>5, <2>1 DEF markMessagesAsProcessed, TypeOK, Stored, box, table, history
  <2>3. QED
    BY <1>5, <2>1, <2>2, RestingHolds, MemoryStep DEF markMessagesAsProcessed
<1>6. QED
  BY <1>1, <1>2, <1>3, <1>4, <1>5

\* The beginning and the death of a run.
LEMMA BeginInv ==
  ASSUME IInv, NEW w \in Worker,
         Crash(w) \/ \E c \in Channel : StartRead(w, c) \/ StartProcess(w, c)
  PROVE  IInv'
<1> USE DEF IInv
<1>t. run[w] \in Run /\ run \in [Worker -> Run]
  BY DEF TypeOK
<1>1. ASSUME NEW c \in Channel, StartRead(w, c) PROVE IInv'
  <2> DEFINE found == {m \in arrived \ seen : Box[m] = c}
             r == [Resting EXCEPT !.pc = "reading", !.ch = c, !.mails = found]
  <2>1. found \in SUBSET Mail /\ found \subseteq arrived
    BY DEF TypeOK
  <2>2. r \in Run
    <3>1. \A ms \in SUBSET Mail :
            [Resting EXCEPT !.pc = "reading", !.ch = c, !.mails = ms] \in Run
      BY RestingType DEF Run
    <3>2. QED
      BY <2>1, <3>1
  <2>3. run' \in [Worker -> Run] /\ run'[w] = r /\ \A v \in Worker \ {w} : run'[v] = run[v]
    BY <1>1, <1>t, <2>2, RunStep DEF StartRead
  <2>4. disturbed' \subseteq Mail
    BY <1>1, <2>1 DEF StartRead, TypeOK
  <2>5. TypeOK'
    BY <1>1, <2>3, <2>4 DEF StartRead, TypeOK, Stored, box, table
  <2>6. HoldsStored(w)'
    <3>1. r.list = {} /\ r.mails = found /\ r.pc = "reading"
      BY DEF Resting
    <3>2. QED
      BY <1>1, <2>1, <2>3, <3>1 DEF StartRead, HoldsStored, box
  <2>7. QED
    BY <1>1, <2>3, <2>5, <2>6, MemoryStep DEF StartRead
<1>2. ASSUME NEW c \in Channel, StartProcess(w, c) PROVE IInv'
  <2> DEFINE r == [Resting EXCEPT !.pc = "processing", !.ch = c, !.procs = getProcessors(c)]
  <2>1. r \in Run
    <3>1. getProcessors(c) \in SUBSET Processor
      BY DEF getProcessors
    <3>2. \A ps \in SUBSET Processor :
            [Resting EXCEPT !.pc = "processing", !.ch = c, !.procs = ps] \in Run
      BY RestingType DEF Run
    <3>3. QED
      BY <3>1, <3>2
  <2>2. run' \in [Worker -> Run] /\ run'[w] = r /\ \A v \in Worker \ {w} : run'[v] = run[v]
    BY <1>2, <1>t, <2>1, RunStep DEF StartProcess
  <2>3. TypeOK'
    BY <1>2, <2>2 DEF StartProcess, TypeOK, Stored, box, table, history
  <2>4. HoldsStored(w)'
    <3>1. r.list = {} /\ r.mails = {} /\ r.pc = "processing"
      BY DEF Resting
    <3>2. QED
      BY <2>2, <3>1 DEF HoldsStored
  <2>5. QED
    BY <1>2, <2>2, <2>3, <2>4, MemoryStep DEF StartProcess
<1>3. ASSUME Crash(w) PROVE IInv'
  <2>1. run' \in [Worker -> Run] /\ run'[w] = Resting
        /\ \A v \in Worker \ {w} : run'[v] = run[v]
    BY <1>3, <1>t, RestingType, RunStep DEF Crash
  <2>2. crashes' \in 0 .. MaxCrashes /\ disturbed' \subseteq Mail
    BY <1>3, BoundAssumption DEF Crash, TypeOK
  <2>3. TypeOK'
    BY <1>3, <2>1, <2>2 DEF Crash, TypeOK, Stored, box, table
  <2>4. QED
    BY <1>3, <2>1, <2>3, RestingHolds, MemoryStep DEF Crash
<1>4. QED
  BY <1>1, <1>2, <1>3

LEMMA NextInv == IInv /\ [Next]_vars => IInv'
<1> SUFFICES ASSUME IInv, [Next]_vars PROVE IInv'
  OBVIOUS
<1>1. ASSUME NEW m \in Mail, Arrive(m) PROVE IInv'
  <2>1. TypeOK'
    BY <1>1 DEF IInv, Arrive, TypeOK, Stored, table, history
  <2>2. Grows
    BY <1>1 DEF IInv, Arrive, TypeOK, Grows, table
  <2>3. SeenIsStored' /\ StatusInv'
    BY <1>1, <2>1, <2>2, SeenStays, StatusStays DEF IInv, Arrive
  <2>4. ASSUME NEW v \in Worker PROVE HoldsStored(v)'
    BY <1>1, <2>1, <2>2, OtherHolds DEF IInv, Arrive
  <2>5. QED
    BY <2>1, <2>3, <2>4 DEF IInv
<1>2. ASSUME NEW w \in Worker, Step(w) PROVE IInv'
  BY <1>2, ReadingInv, HandlingInv, ProcessingInv DEF Step
<1>3. ASSUME NEW w \in Worker,
             Crash(w) \/ \E c \in Channel : StartRead(w, c) \/ StartProcess(w, c)
      PROVE  IInv'
  BY <1>3, BeginInv
<1>4. CASE UNCHANGED vars
  BY <1>4 DEF vars, IInv, TypeOK, SeenIsStored, StatusInv, HoldsStored, Stored, box, table
<1>5. QED
  BY <1>1, <1>2, <1>3, <1>4 DEF Next

-----------------------------------------------------------------------------
\* The types of mailbox, tables and runs (TypeOK), for any number of overlapping runs.
THEOREM TypeCorrect == Spec => []TypeOK
<1>1. IInv => TypeOK
  BY DEF IInv
<1>2. QED
  BY InitInv, NextInv, <1>1, PTL DEF Spec

\* No mail is lost: one that is flagged as seen has a row with its raw text, whichever
\* runs overlap or die (EmailChannelOption::read).
THEOREM NoMailLost == Spec => []SeenIsStored
<1>1. IInv => SeenIsStored
  BY DEF IInv
<1>2. QED
  BY InitInv, NextInv, <1>1, PTL DEF Spec

\* Where the ticket processor's status says ok, the comment has been written
\* (TicketEmailProcessor::process).
THEOREM StatusIsTrue == Spec => []StatusMeansComment
<1>1. IInv => StatusMeansComment
  BY StoredRows DEF IInv, StatusInv, StatusMeansComment
<1>2. QED
  BY InitInv, NextInv, <1>1, PTL DEF Spec

-----------------------------------------------------------------------------
(* A mail becomes one comment.                                             *)

Undisturbed == Mail \ disturbed

At(w, pcs) == run[w].pc \in pcs

\* What a worker holds is its own.  A mail it is about to insert has no row, a row the
\* ticket processor has listed no comment.
Memory(w) ==
    /\ At(w, {"idle"}) => run[w].mails = {} /\ run[w].list = {} /\ run[w].row = 0
    /\ run[w].row \in Stored \cup {0}
    /\ run[w].ch \in WebChannels =>
         run[w].mails = {} /\ (At(w, {"attach"}) => mail[run[w].row] = Page)
    /\ \A m \in run[w].mails \cap Undisturbed :
         /\ At(w, {"reading", "attach", "seen"})
         /\ \A r \in Stored : mail[r] = m => At(w, {"attach", "seen"}) /\ r = run[w].row
    /\ At(w, {"handling", "commented"}) /\ IsKind(w, "ticket") =>
         \A r \in run[w].list : mail[r] \in Undisturbed => comments[mail[r]] = 0

Unshared ==
    \A v, w \in Worker : v # w => Holds(v) \cap Holds(w) \cap Undisturbed = {}

\* Nobody needs to insert a mail again that has a row.
OneRow ==
    \A r \in Stored : mail[r] \in Undisturbed =>
        /\ \A s \in Stored : mail[s] = mail[r] => s = r
        /\ mail[r] \notin seen =>
             \E w \in Worker : At(w, {"attach", "seen"}) /\ run[w].row = r

\* A mail with a comment has a row that says so, or soon will.
Reported ==
    /\ \A r \in Stored : mail[r] \in Undisturbed =>
         /\ \A p \in Processor : status[r][p] # "failed"
         /\ comments[mail[r]] > 0 =>
              \/ \E p \in Processor : status[r][p] = "ok"
              \/ \E w \in Worker : At(w, {"commented"}) /\ run[w].row = r
    /\ \A m \in Undisturbed : comments[m] > 0 => \E r \in Stored : mail[r] = m

OInv == Unshared /\ OneRow /\ Reported /\ OneComment /\ \A w \in Worker : Memory(w)

\* What another worker holds stays its own.
LEMMA OthersKeep ==
  ASSUME IInv, OInv, TypeOK', NEW w \in Worker,
         \A v \in Worker \ {w} : run'[v] = run[v],
         disturbed \subseteq disturbed', rows <= rows',
         \A r \in Stored : mail'[r] = mail[r],
         \A r \in Stored' \ Stored : mail'[r] \in Undisturbed' => mail'[r] \in Holds(w),
         \A m \in Mail : comments'[m] # comments[m] => m \in Holds(w)
  PROVE  \A v \in Worker \ {w} : Memory(v)' /\ Holds(v)' = Holds(v)
<1> SUFFICES ASSUME NEW v \in Worker \ {w} PROVE Memory(v)' /\ Holds(v)' = Holds(v)
  OBVIOUS
<1>1. /\ run'[v] = run[v] /\ Memory(v) /\ run[v].list \subseteq Stored
      /\ run[v].row \in Stored \cup {0} /\ 0 \notin Stored /\ Stored \subseteq Stored'
      /\ Undisturbed' \subseteq Undisturbed
      /\ \A m \in Undisturbed' : ~(m \in Holds(v) /\ m \in Holds(w))
  BY DEF IInv, OInv, HoldsStored, Memory, TypeOK, Stored, Undisturbed, Unshared
<1>2. Holds(v)' = Holds(v)
  BY <1>1 DEF Holds
<1>3. ASSUME NEW m \in (run[v].mails \cap Undisturbed)', NEW r \in Stored', mail'[r] = m
      PROVE  r \in Stored /\ mail[r] = m
  <2>1. m \in Holds(v)
    BY <1>1 DEF Holds
  <2>2. QED
    BY <1>1, <1>3, <2>1
<1>4. ASSUME (At(v, {"handling", "commented"}) /\ IsKind(v, "ticket"))', NEW r \in run'[v].list,
             mail'[r] \in Undisturbed'
      PROVE  comments'[mail'[r]] = 0
  <2>1. r \in Stored /\ mail'[r] = mail[r] /\ mail[r] \in Holds(v) /\ mail[r] \in Mail
    BY <1>1, <1>4 DEF Holds, Undisturbed
  <2>2. comments[mail[r]] = 0
    BY <1>1, <1>4, <2>1 DEF Memory, At, IsKind
  <2>3. QED
    BY <1>1, <1>4, <2>1, <2>2
<1>5. (/\ At(v, {"idle"}) => run[v].mails = {} /\ run[v].list = {} /\ run[v].row = 0
       /\ run[v].row \in Stored \cup {0}
       /\ run[v].ch \in WebChannels =>
            run[v].mails = {} /\ (At(v, {"attach"}) => mail[run[v].row] = Page))'
  <2>1. At(v, {"attach"}) => mail'[run[v].row] = mail[run[v].row]
    BY <1>1 DEF IInv, HoldsStored, At
  <2>2. QED
    BY <1>1, <2>1 DEF Memory, At
<1>6. (\A m \in run[v].mails \cap Undisturbed :
         /\ At(v, {"reading", "attach", "seen"})
         /\ \A r \in Stored : mail[r] = m => At(v, {"attach", "seen"}) /\ r = run[v].row)'
  BY <1>1, <1>3 DEF Memory, At
<1>7. QED
  BY <1>2, <1>4, <1>5, <1>6 DEF Memory

\* A worker takes up nothing that another one holds.
LEMMA UnsharedKept ==
  ASSUME OInv, NEW w \in Worker, disturbed \subseteq disturbed',
         \A v \in Worker \ {w} : Holds(v)' = Holds(v),
         \A m \in Holds(w)' \cap Undisturbed' :
            m \in Holds(w) \/ \A v \in Worker \ {w} : m \notin Holds(v)
  PROVE  Unshared'
<1> SUFFICES ASSUME NEW v \in Worker, NEW u \in Worker, v # u,
                    NEW m \in Undisturbed', m \in Holds(v)', m \in Holds(u)'
             PROVE  FALSE
  BY DEF Unshared
<1>1. \A x, y \in Worker : x # y => ~(m \in Holds(x) /\ m \in Holds(y))
  BY DEF OInv, Unshared, Undisturbed
<1>2. CASE v # w /\ u # w
  BY <1>1, <1>2
<1>3. CASE v = w
  BY <1>1, <1>3
<1>4. CASE u = w
  BY <1>1, <1>4
<1>5. QED
  BY <1>2, <1>3, <1>4

\* A step that adds neither row nor comment, and leaves off nothing halfway.
LEMMA TablesKept ==
  ASSUME IInv, OInv, TypeOK', NEW w \in Worker,
         \A v \in Worker \ {w} : run'[v] = run[v],
         UNCHANGED <<rows, mail, comments>>, seen \subseteq seen',
         disturbed \subseteq disturbed',
         \A r \in Stored, p \in Processor :
            mail[r] \in Undisturbed' => /\ status'[r][p] # "failed" \/ status[r][p] = "failed"
                                        /\ status[r][p] = "ok" => status'[r][p] = "ok",
         At(w, {"attach", "seen"}) /\ mail[run[w].row] \in Undisturbed' \ seen' =>
            At(w, {"attach", "seen"})' /\ run'[w].row = run[w].row,
         At(w, {"commented"}) /\ mail[run[w].row] \in Undisturbed' =>
            \E p \in Processor : status'[run[w].row][p] = "ok"
  PROVE  OneRow' /\ Reported' /\ OneComment'
<1>1. /\ Stored' = Stored /\ Undisturbed' \subseteq Undisturbed
      /\ mail' = mail /\ comments' = comments
  BY DEF Stored, Undisturbed
<1>2. ASSUME NEW r \in Stored, mail[r] \in Undisturbed', mail[r] \notin seen'
      PROVE  \E v \in Worker : At(v, {"attach", "seen"})' /\ run'[v].row = r
  <2>1. PICK v \in Worker : At(v, {"attach", "seen"}) /\ run[v].row = r
    BY <1>1, <1>2 DEF OInv, OneRow
  <2>2. CASE v = w
    BY <1>2, <2>1, <2>2
  <2>3. CASE v # w
    BY <2>1, <2>3 DEF At
  <2>4. QED
    BY <2>2, <2>3
<1>3. ASSUME NEW r \in Stored, mail[r] \in Undisturbed', comments[mail[r]] > 0
      PROVE  \/ \E p \in Processor : status'[r][p] = "ok"
             \/ \E v \in Worker : At(v, {"commented"})' /\ run'[v].row = r
  <2>1. \/ \E p \in Processor : status[r][p] = "ok"
        \/ \E v \in Worker : At(v, {"commented"}) /\ run[v].row = r
    BY <1>1, <1>3 DEF OInv, Reported
  <2>2. CASE \E p \in Processor : status[r][p] = "ok"
    BY <1>3, <2>2
  <2>3. ASSUME NEW v \in Worker, At(v, {"commented"}), run[v].row = r
        PROVE  \/ \E p \in Processor : status'[r][p] = "ok"
               \/ \E u \in Worker : At(u, {"commented"})' /\ run'[u].row = r
    <3>1. CASE v = w
      BY <1>3, <2>3, <3>1
    <3>2. CASE v # w
      BY <2>3, <3>2 DEF At
    <3>3. QED
      BY <3>1, <3>2
  <2>4. QED
    BY <2>1, <2>2, <2>3
<1>4. OneRow'
  BY <1>1, <1>2 DEF OInv, OneRow
<1>5. ASSUME NEW r \in Stored, mail[r] \in Undisturbed', NEW p \in Processor
      PROVE  status'[r][p] # "failed"
  BY <1>1, <1>5 DEF OInv, Reported
<1>6. Reported'
  <2>1. \A m \in Undisturbed' : comments[m] > 0 => \E r \in Stored : mail[r] = m
    BY <1>1 DEF OInv, Reported
  <2>2. QED
    BY <1>1, <1>3, <1>5, <2>1 DEF Reported
<1>7. OneComment'
  BY <1>1 DEF OInv, OneComment, Undisturbed
<1>8. QED
  BY <1>4, <1>6, <1>7

\* Both, for the worker whose step it is.
LEMMA OStep ==
  ASSUME IInv, OInv, TypeOK', NEW w \in Worker,
         \A v \in Worker \ {w} : run'[v] = run[v],
         UNCHANGED <<rows, mail, comments>>, seen \subseteq seen',
         disturbed \subseteq disturbed',
         \A r \in Stored, p \in Processor :
            mail[r] \in Undisturbed' => /\ status'[r][p] # "failed" \/ status[r][p] = "failed"
                                        /\ status[r][p] = "ok" => status'[r][p] = "ok",
         At(w, {"attach", "seen"}) /\ mail[run[w].row] \in Undisturbed' \ seen' =>
            At(w, {"attach", "seen"})' /\ run'[w].row = run[w].row,
         At(w, {"commented"}) /\ mail[run[w].row] \in Undisturbed' =>
            \E p \in Processor : status'[run[w].row][p] = "ok",
         \A m \in Holds(w)' \cap Undisturbed' :
            m \in Holds(w) \/ \A v \in Worker \ {w} : m \notin Holds(v),
         Memory(w)'
  PROVE  OInv'
<1>1. OneRow' /\ Reported' /\ OneComment'
  BY TablesKept
<1>2. \A v \in Worker \ {w} : Memory(v)' /\ Holds(v)' = Holds(v)
  <2>1. Stored' = Stored /\ rows <= rows' /\ mail' = mail
    BY DEF Stored, IInv, TypeOK
  <2>2. QED
    BY <2>1, OthersKeep
<1>3. Unshared'
  BY <1>2, UnsharedKept
<1>4. \A v \in Worker : Memory(v)'
  BY <1>2
<1>5. QED
  BY <1>1, <1>3, <1>4 DEF OInv

LEMMA RestingIsFree ==
  ASSUME NEW w \in Worker, run'[w] = Resting
  PROVE  Memory(w)' /\ Holds(w)' = {}
BY DEF Memory, Holds, Resting, At

\* A run ends; if it was halfway with a mail, that mail is disturbed.
LEMMA EndStep ==
  ASSUME IInv, OInv, TypeOK', NEW w \in Worker,
         run'[w] = Resting, \A v \in Worker \ {w} : run'[v] = run[v],
         UNCHANGED <<rows, mail, comments, seen, status>>,
         disturbed \subseteq disturbed',
         At(w, {"attach", "seen", "commented"}) => mail[run[w].row] \notin Undisturbed'
  PROVE  OInv'
<1>1. Memory(w)' /\ Holds(w)' = {}
  BY RestingIsFree
<1>2. \A r \in Stored, p \in Processor :
        mail[r] \in Undisturbed' => /\ status'[r][p] # "failed" \/ status[r][p] = "failed"
                                    /\ status[r][p] = "ok" => status'[r][p] = "ok"
  OBVIOUS
<1>3. /\ At(w, {"attach", "seen"}) /\ mail[run[w].row] \in Undisturbed' \ seen' =>
            At(w, {"attach", "seen"})' /\ run'[w].row = run[w].row
      /\ At(w, {"commented"}) /\ mail[run[w].row] \in Undisturbed' =>
            \E p \in Processor : status'[run[w].row][p] = "ok"
  BY DEF At
<1>4. QED
  BY <1>1, <1>2, <1>3, OStep

\* A step in memory: a run that is at none of the places where it is halfway with a mail
\* goes on to another such place.
LEMMA InMemoryStep ==
  ASSUME IInv, OInv, TypeOK', NEW w \in Worker,
         \A v \in Worker \ {w} : run'[v] = run[v],
         UNCHANGED <<rows, mail, comments, seen, status>>,
         disturbed \subseteq disturbed',
         ~At(w, {"attach", "seen", "commented"}), Memory(w)',
         \A m \in Holds(w)' \cap Undisturbed' :
            m \in Holds(w) \/ \A v \in Worker \ {w} : m \notin Holds(v)
  PROVE  OInv'
<1>1. \A r \in Stored, p \in Processor :
        mail[r] \in Undisturbed' => /\ status'[r][p] # "failed" \/ status[r][p] = "failed"
                                    /\ status[r][p] = "ok" => status'[r][p] = "ok"
  OBVIOUS
<1>2. /\ At(w, {"attach", "seen"}) /\ mail[run[w].row] \in Undisturbed' \ seen' =>
            At(w, {"attach", "seen"})' /\ run'[w].row = run[w].row
      /\ At(w, {"commented"}) /\ mail[run[w].row] \in Undisturbed' =>
            \E p \in Processor : status'[run[w].row][p] = "ok"
  BY DEF At
<1>3. QED
  BY <1>1, <1>2, OStep

\* The fields of a run that a step sets.
LEMMA Fields ==
  ASSUME TypeOK, NEW w \in Worker, NEW r \in Run, Becomes(w, r)
  PROVE  run'[w] = r /\ \A v \in Worker \ {w} : run'[v] = run[v]
BY RunStep DEF TypeOK

LEMMA BusyHolders ==
  ASSUME OInv, NEW v \in Worker, NEW m \in Holds(v)
  PROVE  v \in Busy
<1>1. run[v].pc = "idle" => Holds(v) = {}
  BY DEF OInv, Memory, At, Holds
<1>2. QED
  BY <1>1 DEF Busy

LEMMA StartReadKeeps ==
  ASSUME IInv, OInv, TypeOK', NEW w \in Worker, NEW c \in Channel, StartRead(w, c)
  PROVE  OInv'
<1> DEFINE found == {m \in arrived \ seen : Box[m] = c}
           r == [Resting EXCEPT !.pc = "reading", !.ch = c, !.mails = found]
<1>1. /\ run' = [run EXCEPT ![w] = r] /\ run[w].pc = "idle"
      /\ disturbed' = disturbed \cup {m \in found : \E v \in Busy : m \in Holds(v)}
      /\ UNCHANGED <<rows, mail, comments, seen, status>>
      /\ found \subseteq Mail
  BY DEF StartRead, Becomes, box, table, IInv, TypeOK
<1>2. /\ r.pc = "reading" /\ r.ch = c /\ r.mails = found /\ r.list = {} /\ r.row = 0
  BY DEF Resting
<1>3. run'[w] = r /\ \A v \in Worker \ {w} : run'[v] = run[v]
  BY <1>1 DEF IInv, TypeOK
<1>4. ASSUME NEW m \in found, m \in Undisturbed', NEW v \in Worker PROVE m \notin Holds(v)
  <2>1. v \in Busy => m \notin Holds(v)
    BY <1>1, <1>4 DEF Undisturbed
  <2>2. QED
    BY <2>1, BusyHolders
<1>5. Holds(w)' = found
  BY <1>2, <1>3 DEF Holds
<1>6. ASSUME NEW m \in found, m \in Undisturbed' PROVE \A s \in Stored : mail[s] # m
  <2>1. ASSUME NEW s \in Stored, mail[s] = m PROVE FALSE
    <3>1. PICK v \in Worker : At(v, {"attach", "seen"}) /\ run[v].row = s
      BY <1>1, <1>6, <2>1 DEF OInv, OneRow, Undisturbed
    <3>2. s # 0
      BY DEF Stored
    <3>3. m \in Holds(v)
      BY <2>1, <3>1, <3>2 DEF Holds
    <3>4. QED
      BY <1>4, <1>6, <3>3
  <2>2. QED
    BY <2>1
<1>7. Stored' = Stored /\ mail' = mail
  BY <1>1 DEF Stored
<1>8. c \in WebChannels => found = {}
  BY <1>1, MailAssumption
<1> HIDE DEF r, found
<1>9. Memory(w)'
  BY <1>2, <1>3, <1>6, <1>7, <1>8 DEF Memory, At
<1>10. ~At(w, {"attach", "seen", "commented"}) /\ disturbed \subseteq disturbed'
  BY <1>1 DEF At
<1>11. \A m \in Holds(w)' \cap Undisturbed' :
         m \in Holds(w) \/ \A v \in Worker \ {w} : m \notin Holds(v)
  BY <1>4, <1>5
<1>12. QED
  BY <1>1, <1>3, <1>9, <1>10, <1>11, InMemoryStep

\* A run goes to its processors, and holds nothing.
LEMMA ToProcessors ==
  ASSUME IInv, OInv, TypeOK', NEW w \in Worker, NEW c \in Channel \cup {Idle},
         NEW ps \in SUBSET Processor,
         Becomes(w, [Resting EXCEPT !.pc = "processing", !.ch = c, !.procs = ps]),
         UNCHANGED <<rows, mail, comments, seen, status, disturbed>>,
         At(w, {"idle", "reading"})
  PROVE  OInv'
<1> DEFINE r == [Resting EXCEPT !.pc = "processing", !.ch = c, !.procs = ps]
<1>1. r \in Run
  BY RestingType DEF Run
<1>2. run'[w] = r /\ \A v \in Worker \ {w} : run'[v] = run[v]
  BY <1>1, Fields DEF IInv
<1>3. r.pc = "processing" /\ r.mails = {} /\ r.list = {} /\ r.row = 0
  BY DEF Resting
<1> HIDE DEF r
<1>4. Memory(w)' /\ Holds(w)' = {}
  BY <1>2, <1>3 DEF Memory, At, Holds
<1>5. ~At(w, {"attach", "seen", "commented"})
  BY DEF At
<1>6. QED
  BY <1>2, <1>4, <1>5, InMemoryStep

LEMMA EndReadingKeeps ==
  ASSUME IInv, OInv, TypeOK', NEW w \in Worker, EndReading(w)
  PROVE  OInv'
<1>1. /\ run[w].pc = "reading" /\ UNCHANGED <<rows, mail, comments, seen, status, disturbed>>
      /\ run[w].ch \in Channel \cup {Idle}
  BY DEF EndReading, box, table, history, IInv, TypeOK, Run
<1>2. CASE Becomes(w, Resting)
  BY <1>1, <1>2, Fields, RestingType, EndStep DEF IInv, At
<1>3. ASSUME NEW ps \in SUBSET Processor,
             Becomes(w, [Resting EXCEPT !.pc = "processing", !.ch = run[w].ch, !.procs = ps])
      PROVE  OInv'
  BY <1>1, <1>3, ToProcessors DEF At
<1>4. getProcessors(run[w].ch) \in SUBSET Processor /\ {} \in SUBSET Processor
  BY DEF getProcessors
<1>5. QED
  BY <1>2, <1>3, <1>4 DEF EndReading

LEMMA StartProcessKeeps ==
  ASSUME IInv, OInv, TypeOK', NEW w \in Worker, NEW c \in Channel, StartProcess(w, c)
  PROVE  OInv'
<1>1. getProcessors(c) \in SUBSET Processor
  BY DEF getProcessors
<1>2. QED
  BY <1>1, ToProcessors DEF StartProcess, box, table, history, At

LEMMA SaveAttachmentsKeeps ==
  ASSUME IInv, OInv, TypeOK', NEW w \in Worker, SaveAttachments(w)
  PROVE  OInv'
<1> DEFINE pc == IF run[w].ch \in WebChannels THEN "reading" ELSE "seen"
           r == [run[w] EXCEPT !.pc = pc]
<1>1. /\ run[w] \in Run /\ run[w].pc = "attach" /\ Becomes(w, r)
      /\ UNCHANGED <<rows, mail, comments, seen, status, disturbed>>
      /\ run[w].row \in Stored
  BY DEF SaveAttachments, box, history, IInv, TypeOK, HoldsStored
<1>2. r \in Run
  BY <1>1 DEF Run
<1>3. /\ run'[w] = r /\ \A v \in Worker \ {w} : run'[v] = run[v]
      /\ r.pc = pc /\ r.ch = run[w].ch /\ r.mails = run[w].mails /\ r.list = run[w].list
      /\ r.row = run[w].row
  BY <1>1, <1>2, Fields DEF IInv, Run
<1> HIDE DEF r
<1>4. Holds(w)' = Holds(w) /\ Stored' = Stored /\ Undisturbed' = Undisturbed
  BY <1>1, <1>3 DEF Holds, Stored, Undisturbed
<1>5. run[w].ch \in WebChannels => run[w].mails = {} /\ mail[run[w].row] = Page
  BY <1>1 DEF OInv, Memory, At
<1>6. Memory(w)'
  BY <1>1, <1>3, <1>4, <1>5 DEF OInv, Memory, At
<1>7. At(w, {"attach", "seen"}) /\ mail[run[w].row] \in Undisturbed' \ seen' =>
            At(w, {"attach", "seen"})' /\ run'[w].row = run[w].row
  BY <1>3, <1>5, MailAssumption DEF At, Undisturbed
<1>8. ~At(w, {"commented"})
  BY <1>1 DEF At
<1>9. QED
  BY <1>1, <1>3, <1>4, <1>6, <1>7, <1>8, OStep

LEMMA MarkAsSeenKeeps ==
  ASSUME IInv, OInv, TypeOK', NEW w \in Worker, MarkAsSeen(w)
  PROVE  OInv'
<1> DEFINE m == mail[run[w].row]
           r == [run[w] EXCEPT !.pc = "reading", !.mails = @ \ {m}, !.row = 0]
<1>1. /\ run[w] \in Run /\ run \in [Worker -> Run] /\ run[w].pc = "seen" /\ Becomes(w, r)
      /\ UNCHANGED <<rows, mail, comments, status, disturbed>>
      /\ seen' = seen \cup {m} /\ run[w].row \in Stored
  BY DEF MarkAsSeen, table, history, IInv, TypeOK, HoldsStored
<1>2. /\ run'[w] = r /\ \A v \in Worker \ {w} : run'[v] = run[v]
      /\ r.pc = "reading" /\ r.ch = run[w].ch /\ r.mails = run[w].mails \ {m}
      /\ r.list = run[w].list /\ r.row = 0
  BY <1>1 DEF Becomes, Run
<1> HIDE DEF r
<1>3. Holds(w)' \subseteq Holds(w) /\ Stored' = Stored /\ Undisturbed' = Undisturbed
  BY <1>1, <1>2 DEF Holds, Stored, Undisturbed
<1>4. Memory(w)'
  <2>1. \A n \in run[w].mails \cap Undisturbed : \A s \in Stored :
           mail[s] = n => n = m
    BY <1>1 DEF OInv, Memory
  <2>2. QED
    BY <1>1, <1>2, <1>3, <2>1 DEF OInv, Memory, At
<1>5. mail[run[w].row] \in seen' /\ ~At(w, {"commented"})
  BY <1>1 DEF At
<1>6. QED
  BY <1>1, <1>2, <1>3, <1>4, <1>5, OStep

\* The row of a mail that has none, or of a page.
LEMMA NewRowKeeps ==
  ASSUME IInv, OInv, TypeOK', NEW w \in Worker, NEW m \in Mail \cup {Page}, NewRow(w, m),
         run[w].pc = "reading",
         Becomes(w, [run[w] EXCEPT !.pc = "attach", !.row = rows + 1]),
         UNCHANGED <<box, raw, processed, status, comments, crashes, history>>,
         IF run[w].ch \in WebChannels THEN m = Page ELSE m \in run[w].mails
  PROVE  OInv'
<1> DEFINE r == [run[w] EXCEPT !.pc = "attach", !.row = rows + 1]
           new == rows + 1
<1>1. /\ new \in Row /\ Stored' = Stored \cup {new} /\ new \notin Stored
      /\ rows <= rows' /\ mail'[new] = m /\ \A s \in Stored : mail'[s] = mail[s]
  <2>1. /\ rows' = rows + 1 /\ new \in Row /\ mail'[new] = m
        /\ \A s \in Stored : mail'[s] = mail[s]
    BY NewRowStep DEF IInv, Grows, box
  <2>2. rows \in Nat /\ Stored = 1 .. rows /\ Stored' = 1 .. rows + 1
    BY <2>1, BoundAssumption DEF Stored, IInv, TypeOK
  <2>3. 1 .. rows + 1 = (1 .. rows) \cup {rows + 1} /\ rows + 1 \notin 1 .. rows
    BY <2>2
  <2>4. QED
    BY <2>1, <2>2, <2>3
<1>2. /\ run[w] \in Run /\ run \in [Worker -> Run] /\ rows \in Nat /\ rows + 1 # 0
      /\ UNCHANGED <<seen, status, comments, disturbed>>
  BY BoundAssumption DEF box, history, IInv, TypeOK
<1>3. /\ run'[w] = r /\ \A v \in Worker \ {w} : run'[v] = run[v]
      /\ r.pc = "attach" /\ r.ch = run[w].ch /\ r.mails = run[w].mails
      /\ r.list = run[w].list /\ r.row = new
  BY <1>2 DEF Becomes, Run
<1>4. Undisturbed' = Undisturbed /\ Page \notin Undisturbed
  BY <1>2, MailAssumption DEF Undisturbed
<1>5. m \in Undisturbed => /\ m \in Holds(w) /\ \A s \in Stored : mail[s] # m
                           /\ comments[m] = 0
  <2>1. m \in Undisturbed => m \in run[w].mails
    BY <1>4
  <2>2. m \in Undisturbed => \A s \in Stored : mail[s] # m
    BY <2>1 DEF OInv, Memory, At
  <2>3. m \in Undisturbed => comments[m] \in Nat
    BY DEF IInv, TypeOK, Undisturbed
  <2>4. QED
    BY <2>1, <2>2, <2>3 DEF OInv, Reported, Holds
<1> HIDE DEF r, new
<1>6. run[w].list \subseteq Stored /\ 0 # new /\ 0 \notin Stored
  BY <1>2 DEF IInv, HoldsStored, Stored, new
<1>7. \A n \in Holds(w)' \cap Undisturbed' : n \in Holds(w)
  BY <1>1, <1>3, <1>4, <1>5, <1>6 DEF Holds
<1>8. \A v \in Worker \ {w} : Memory(v)' /\ Holds(v)' = Holds(v)
  BY <1>1, <1>2, <1>3, <1>4, <1>5, OthersKeep
<1>9. Unshared'
  BY <1>2, <1>7, <1>8, UnsharedKept
<1>10. Memory(w)'
  <2>1. \A n \in run[w].mails \cap Undisturbed : \A s \in Stored : mail[s] # n
    BY DEF OInv, Memory, At
  <2>2. run[w].ch \in WebChannels => run[w].mails = {}
    BY DEF OInv, Memory
  <2>3. (run[w].ch \in WebChannels =>
           run[w].mails = {} /\ (At(w, {"attach"}) => mail[run[w].row] = Page))'
    BY <1>1, <1>3, <2>2
  <2>4. (\A n \in run[w].mails \cap Undisturbed :
           /\ At(w, {"reading", "attach", "seen"})
           /\ \A s \in Stored : mail[s] = n => At(w, {"attach", "seen"}) /\ s = run[w].row)'
    BY <1>1, <1>3, <1>4, <2>1 DEF At
  <2>5. QED
    BY <1>1, <1>3, <2>3, <2>4 DEF Memory, At
<1>11. OneRow'
  <2>1. ASSUME NEW s \in Stored', NEW t \in Stored', mail'[s] \in Undisturbed,
               mail'[t] = mail'[s]
        PROVE  s = t
    BY <1>1, <1>5, <2>1 DEF OInv, OneRow
  <2>2. ASSUME NEW s \in Stored, mail[s] \in Undisturbed, mail[s] \notin seen
        PROVE  \E v \in Worker : At(v, {"attach", "seen"})' /\ run'[v].row = s
    <3>1. PICK v \in Worker : At(v, {"attach", "seen"}) /\ run[v].row = s
      BY <2>2 DEF OInv, OneRow
    <3>2. v # w
      BY <3>1 DEF At
    <3>3. QED
      BY <1>3, <3>1, <3>2 DEF At
  <2>3. At(w, {"attach", "seen"})' /\ run'[w].row = new
    BY <1>3 DEF At
  <2>4. QED
    BY <1>1, <1>2, <1>4, <2>1, <2>2, <2>3 DEF OneRow
<1>12. Reported'
  <2>1. ASSUME NEW s \in Stored', mail'[s] \in Undisturbed, NEW p \in Processor
        PROVE  status[s][p] # "failed"
    <3>1. CASE s \in Stored
      BY <1>1, <2>1, <3>1 DEF OInv, Reported
    <3>2. CASE s = new
      BY <1>1, <3>2 DEF IInv, StatusInv, new
    <3>3. QED
      BY <1>1, <3>1, <3>2
  <2>2. ASSUME NEW s \in Stored', mail'[s] \in Undisturbed, comments[mail'[s]] > 0
        PROVE  \/ \E p \in Processor : status[s][p] = "ok"
               \/ \E v \in Worker : At(v, {"commented"})' /\ run'[v].row = s
    <3>1. s \in Stored /\ mail'[s] = mail[s]
      BY <1>1, <1>5, <2>2
    <3>2. \/ \E p \in Processor : status[s][p] = "ok"
          \/ \E v \in Worker : At(v, {"commented"}) /\ run[v].row = s
      BY <2>2, <3>1 DEF OInv, Reported
    <3>3. \A v \in Worker : At(v, {"commented"}) => v # w
      BY DEF At
    <3>4. QED
      BY <1>3, <3>2, <3>3 DEF At
  <2>3. \A n \in Undisturbed : comments[n] > 0 => \E s \in Stored' : mail'[s] = n
    BY <1>1 DEF OInv, Reported
  <2>4. QED
    BY <1>2, <1>4, <2>1, <2>2, <2>3 DEF Reported
<1>13. OneComment'
  BY <1>2, <1>4 DEF OInv, OneComment, Undisturbed
<1>14. QED
  BY <1>8, <1>9, <1>10, <1>11, <1>12, <1>13 DEF OInv

LEMMA ReadKeeps ==
  ASSUME IInv, OInv, TypeOK', NEW w \in Worker,
         (\E m \in Mail : InsertMessage(w, m)) \/ ReadPage(w)
  PROVE  OInv'
<1>1. ASSUME NEW m \in Mail, InsertMessage(w, m) PROVE OInv'
  <2>1. run[w].ch \notin WebChannels
    BY <1>1 DEF InsertMessage, OInv, Memory
  <2>2. QED
    BY <1>1, <2>1, NewRowKeeps DEF InsertMessage
<1>2. CASE ReadPage(w)
  BY <1>2, NewRowKeeps DEF ReadPage
<1>3. QED
  BY <1>1, <1>2

LEMMA StartProcessorKeeps ==
  ASSUME IInv, OInv, TypeOK', NEW w \in Worker, NEW p \in Processor, StartProcessor(w, p)
  PROVE  OInv'
<1> DEFINE r == [run[w] EXCEPT !.pc = "handling", !.procs = @ \ {p}, !.proc = p,
                               !.list = List(p)]
<1>1. /\ run[w] \in Run /\ run \in [Worker -> Run] /\ run[w].pc = "processing"
      /\ UNCHANGED <<rows, mail, comments, seen, status>> /\ Becomes(w, r)
      /\ disturbed' = disturbed \cup
           {m \in Mail : /\ \E s \in List(p) : mail[s] = m
                         /\ \E v \in Busy \ {w} : m \in Holds(v)}
  BY DEF StartProcessor, box, table, IInv, TypeOK
<1>2. List(p) \subseteq Stored
  BY ListStored
<1>3. /\ run'[w] = r /\ \A v \in Worker \ {w} : run'[v] = run[v]
      /\ r.pc = "handling" /\ r.proc = p /\ r.list = List(p) /\ r.ch = run[w].ch
      /\ r.mails = run[w].mails /\ r.row = run[w].row
  BY <1>1 DEF Becomes, Run
<1> HIDE DEF r
<1>4. Undisturbed' \subseteq Undisturbed /\ Stored' = Stored /\ mail' = mail
  BY <1>1 DEF Undisturbed, Stored
<1>5. ASSUME NEW s \in List(p), mail[s] \in Undisturbed', NEW v \in Worker \ {w}
      PROVE  mail[s] \notin Holds(v)
  <2>1. v \in Busy => mail[s] \notin Holds(v)
    BY <1>1, <1>5 DEF Undisturbed
  <2>2. QED
    BY <2>1, BusyHolders
<1>6. ASSUME NEW s \in List(p), mail[s] \in Undisturbed', Kind[p] = "ticket"
      PROVE  comments[mail[s]] = 0
  <2>1. s \in Stored /\ mail[s] \in Undisturbed
    BY <1>2, <1>4, <1>6
  <2>2. \A q \in Processor : status[s][q] # "failed"
    BY <2>1 DEF OInv, Reported
  <2>3. \A q \in Processor : status[s][q] = "none"
    BY <1>6, <2>2 DEF List, AnyNewOrFailed
  <2>4. ASSUME NEW v \in Worker, At(v, {"commented"}), run[v].row = s PROVE FALSE
    <3>1. v # w
      BY <1>1, <2>4 DEF At
    <3>2. s # 0
      BY <2>1 DEF Stored
    <3>3. mail[s] \in Holds(v)
      BY <2>4, <3>2 DEF Holds
    <3>4. QED
      BY <1>5, <1>6, <3>1, <3>3
  <2>5. ~(comments[mail[s]] > 0)
    BY <2>1, <2>3, <2>4 DEF OInv, Reported
  <2>6. comments[mail[s]] \in Nat
    BY <2>1 DEF IInv, TypeOK, Undisturbed
  <2>7. QED
    BY <2>5, <2>6
<1>7. Memory(w)'
  <2>1. run[w].mails \cap Undisturbed = {}
    BY <1>1 DEF OInv, Memory, At
  <2>2. (At(w, {"handling", "commented"}) /\ IsKind(w, "ticket") =>
           \A s \in run[w].list : mail[s] \in Undisturbed => comments[mail[s]] = 0)'
    BY <1>1, <1>3, <1>4, <1>6 DEF IsKind
  <2>3. QED
    BY <1>1, <1>3, <1>4, <2>1, <2>2 DEF OInv, Memory, At
<1>8. \A m \in Holds(w)' \cap Undisturbed' :
         m \in Holds(w) \/ \A v \in Worker \ {w} : m \notin Holds(v)
  <2>1. Holds(w)' \subseteq Holds(w) \cup {mail[s] : s \in List(p)}
    BY <1>3, <1>4 DEF Holds
  <2>2. QED
    BY <1>5, <2>1
<1>9. ~At(w, {"attach", "seen", "commented"}) /\ disturbed \subseteq disturbed'
  BY <1>1 DEF At
<1>10. QED
  BY <1>1, <1>3, <1>7, <1>8, <1>9, InMemoryStep

LEMMA EndProcessorKeeps ==
  ASSUME IInv, OInv, TypeOK', NEW w \in Worker, EndProcessor(w)
  PROVE  OInv'
<1> DEFINE r == [run[w] EXCEPT !.pc = "processing", !.proc = Idle]
<1>1. /\ run[w] \in Run /\ run \in [Worker -> Run] /\ run[w].pc = "handling"
      /\ UNCHANGED <<rows, mail, comments, seen, status, disturbed>> /\ Becomes(w, r)
  BY DEF EndProcessor, box, table, history, IInv, TypeOK
<1>2. /\ run'[w] = r /\ \A v \in Worker \ {w} : run'[v] = run[v]
      /\ r.pc = "processing" /\ r.list = run[w].list /\ r.ch = run[w].ch
      /\ r.mails = run[w].mails /\ r.row = run[w].row
  BY <1>1 DEF Becomes, Run
<1> HIDE DEF r
<1>3. Undisturbed' = Undisturbed /\ Stored' = Stored /\ Holds(w)' = Holds(w)
  BY <1>1, <1>2 DEF Undisturbed, Stored, Holds
<1>4. run[w].mails \cap Undisturbed = {}
  BY <1>1 DEF OInv, Memory, At
<1>5. Memory(w)' /\ ~At(w, {"attach", "seen", "commented"})
  BY <1>1, <1>2, <1>3, <1>4 DEF OInv, Memory, At
<1>6. QED
  BY <1>1, <1>2, <1>3, <1>5, InMemoryStep

\* A row is left out of the list.
LEMMA DropKeeps ==
  ASSUME IInv, OInv, TypeOK', NEW w \in Worker, NEW r \in Row, Handling(w, r), Drop(w, r),
         UNCHANGED <<rows, mail, comments, seen>>, disturbed \subseteq disturbed',
         \A s \in Stored, p \in Processor :
            mail[s] \in Undisturbed' => /\ status'[s][p] # "failed" \/ status[s][p] = "failed"
                                        /\ status[s][p] = "ok" => status'[s][p] = "ok"
  PROVE  OInv'
<1> DEFINE x == [run[w] EXCEPT !.list = @ \ {r}]
<1>1. run[w] \in Run /\ run \in [Worker -> Run] /\ run[w].pc = "handling"
  BY DEF Handling, IInv, TypeOK
<1>2. /\ run'[w] = x /\ \A v \in Worker \ {w} : run'[v] = run[v]
      /\ x.pc = "handling" /\ x.proc = run[w].proc /\ x.list = run[w].list \ {r}
      /\ x.ch = run[w].ch /\ x.mails = run[w].mails /\ x.row = run[w].row
  BY <1>1 DEF Drop, Becomes, Run
<1> HIDE DEF x
<1>3. /\ Undisturbed' \subseteq Undisturbed /\ Stored' = Stored
      /\ Holds(w)' \subseteq Holds(w)
  BY <1>2 DEF Undisturbed, Stored, Holds
<1>4. run[w].mails \cap Undisturbed = {}
  BY <1>1 DEF OInv, Memory, At
<1>5. Memory(w)'
  BY <1>1, <1>2, <1>3, <1>4 DEF OInv, Memory, At, IsKind
<1>6. ~At(w, {"attach", "seen"}) /\ ~At(w, {"commented"})
  BY <1>1 DEF At
<1>7. QED
  BY <1>2, <1>3, <1>5, <1>6, OStep

LEMMA AddCommentKeeps ==
  ASSUME IInv, OInv, TypeOK', NEW w \in Worker, NEW r \in Row, AddComment(w, r)
  PROVE  OInv'
<1> DEFINE x == [run[w] EXCEPT !.pc = "commented", !.list = @ \ {r}, !.row = r]
           m == mail[r]
<1>1. /\ run[w] \in Run /\ run \in [Worker -> Run] /\ run[w].pc = "handling"
      /\ IsKind(w, "ticket") /\ r \in run[w].list /\ Becomes(w, x)
      /\ UNCHANGED <<rows, mail, seen, status, disturbed>>
      /\ comments' = [comments EXCEPT ![m] = IF @ < MaxComments THEN @ + 1 ELSE @]
      /\ comments \in [Mail -> Nat]
  BY DEF AddComment, Handling, box, table, IInv, TypeOK
<1>2. m \in Mail /\ r \in Stored
  BY <1>1 DEF AddComment, Skipped, IInv, TypeOK, HoldsStored
<1>3. /\ run'[w] = x /\ \A v \in Worker \ {w} : run'[v] = run[v]
      /\ x.pc = "commented" /\ x.list = run[w].list \ {r} /\ x.row = r
      /\ x.ch = run[w].ch /\ x.mails = run[w].mails
  BY <1>1 DEF Becomes, Run
<1> HIDE DEF x
<1>4. /\ Undisturbed' = Undisturbed /\ Stored' = Stored /\ rows <= rows'
      /\ m \in Holds(w)
  BY <1>1 DEF Undisturbed, Stored, Holds, IInv, TypeOK
<1>5. \A n \in Mail : n # m => comments'[n] = comments[n]
  BY <1>1
<1>6. m \in Undisturbed => comments[m] = 0 /\ comments'[m] <= 1
  <2>1. m \in Undisturbed => comments[m] = 0
    BY <1>1 DEF OInv, Memory, At
  <2>2. QED
    BY <1>1, <1>2, <2>1
<1>7. \A v \in Worker \ {w} : Memory(v)' /\ Holds(v)' = Holds(v)
  <2>1. /\ \A s \in Stored : mail'[s] = mail[s]
        /\ \A s \in Stored' \ Stored : mail'[s] \in Undisturbed' => mail'[s] \in Holds(w)
        /\ \A n \in Mail : comments'[n] # comments[n] => n \in Holds(w)
        /\ disturbed \subseteq disturbed'
    BY <1>1, <1>4, <1>5
  <2>2. QED
    BY <1>3, <1>4, <2>1, OthersKeep
<1>8. Holds(w)' \subseteq Holds(w)
  BY <1>1, <1>3 DEF Holds
<1>9. Unshared'
  <2>1. disturbed \subseteq disturbed'
    BY <1>1
  <2>2. QED
    BY <1>7, <1>8, <2>1, UnsharedKept
<1>10. Memory(w)'
  <2>1. run[w].mails \cap Undisturbed = {}
    BY <1>1 DEF OInv, Memory, At
  <2>2. ASSUME NEW s \in run[w].list \ {r}, mail[s] \in Undisturbed
        PROVE  comments'[mail[s]] = 0
    <3>1. s \in Stored /\ comments[mail[s]] = 0
      BY <1>1, <2>2 DEF OInv, Memory, At, IInv, HoldsStored
    <3>2. mail[s] # m
      BY <1>2, <2>2, <3>1 DEF OInv, OneRow
    <3>3. QED
      BY <1>5, <2>2, <3>1, <3>2 DEF Undisturbed
  <2>3. QED
    BY <1>1, <1>2, <1>3, <1>4, <2>1, <2>2 DEF OInv, Memory, At
<1>11. OneRow'
  <2>1. \A v \in Worker : At(v, {"attach", "seen"}) =>
            At(v, {"attach", "seen"})' /\ run'[v].row = run[v].row
    BY <1>1, <1>3 DEF At
  <2>2. QED
    BY <1>1, <1>4, <2>1 DEF OInv, OneRow
<1>12. Reported'
  <2>1. ASSUME NEW s \in Stored, mail[s] \in Undisturbed, comments'[mail[s]] > 0
        PROVE  \/ \E p \in Processor : status[s][p] = "ok"
               \/ \E v \in Worker : At(v, {"commented"})' /\ run'[v].row = s
    <3>1. CASE mail[s] = m
      <4>1. s = r
        BY <1>2, <2>1, <3>1 DEF OInv, OneRow
      <4>2. QED
        BY <1>3, <4>1 DEF At
    <3>2. CASE mail[s] # m
      <4>1. comments[mail[s]] > 0
        BY <1>5, <2>1, <3>2 DEF Undisturbed
      <4>2. \/ \E p \in Processor : status[s][p] = "ok"
            \/ \E v \in Worker : At(v, {"commented"}) /\ run[v].row = s
        BY <2>1, <4>1 DEF OInv, Reported
      <4>3. \A v \in Worker : At(v, {"commented"}) => v # w
        BY <1>1 DEF At
      <4>4. QED
        BY <1>3, <4>2, <4>3 DEF At
    <3>3. QED
      BY <3>1, <3>2
  <2>2. \A n \in Undisturbed : comments'[n] > 0 => \E s \in Stored : mail[s] = n
    BY <1>2, <1>5 DEF OInv, Reported, Undisturbed
  <2>3. \A s \in Stored : mail[s] \in Undisturbed =>
            \A p \in Processor : status[s][p] # "failed"
    BY DEF OInv, Reported
  <2>4. QED
    BY <1>1, <1>4, <2>1, <2>2, <2>3 DEF Reported
<1>13. OneComment'
  BY <1>1, <1>5, <1>6 DEF OInv, OneComment, Undisturbed
<1>14. QED
  BY <1>7, <1>9, <1>10, <1>11, <1>12, <1>13 DEF OInv

LEMMA InsertStatusKeeps ==
  ASSUME IInv, OInv, TypeOK', NEW w \in Worker, InsertStatus(w)
  PROVE  OInv'
<1> DEFINE x == [run[w] EXCEPT !.pc = "handling", !.row = 0]
           q == run[w].row
<1>1. /\ run[w] \in Run /\ run \in [Worker -> Run] /\ run[w].pc = "commented"
      /\ Becomes(w, x) /\ UNCHANGED <<rows, mail, comments, seen, disturbed>>
      /\ status' = [status EXCEPT ![q][run[w].proc] = "ok"]
      /\ status \in [Row -> [Processor -> Status]]
      /\ run[w].proc \in Processor /\ q \in Stored /\ q \in Row
  BY StoredRows DEF InsertStatus, box, table, history, IInv, TypeOK, HoldsStored
<1>2. /\ run'[w] = x /\ \A v \in Worker \ {w} : run'[v] = run[v]
      /\ x.pc = "handling" /\ x.list = run[w].list /\ x.row = 0
      /\ x.ch = run[w].ch /\ x.mails = run[w].mails /\ x.proc = run[w].proc
  BY <1>1 DEF Becomes, Run
<1> HIDE DEF x
<1>3. /\ Undisturbed' = Undisturbed /\ Stored' = Stored /\ 0 \notin Stored
      /\ Holds(w)' \subseteq Holds(w)
  BY <1>1, <1>2 DEF Undisturbed, Stored, Holds
<1>4. run[w].list \subseteq Stored
  BY DEF IInv, HoldsStored
<1>5. Memory(w)'
  <2>1. run[w].mails \cap Undisturbed = {}
    BY <1>1 DEF OInv, Memory, At
  <2>2. ASSUME NEW s \in run[w].list, mail[s] \in Undisturbed, IsKind(w, "ticket")
        PROVE  comments[mail[s]] = 0
    BY <1>1, <2>2 DEF OInv, Memory, At
  <2>3. QED
    BY <1>1, <1>2, <1>3, <2>1, <2>2 DEF OInv, Memory, At, IsKind
<1>6. \A s \in Stored, p \in Processor :
        mail[s] \in Undisturbed' => /\ status'[s][p] # "failed" \/ status[s][p] = "failed"
                                    /\ status[s][p] = "ok" => status'[s][p] = "ok"
  BY <1>1, StoredRows DEF IInv
<1>7. status'[q][run[w].proc] = "ok"
  BY <1>1
<1>8. ~At(w, {"attach", "seen"})
  BY <1>1 DEF At
<1>9. QED
  BY <1>1, <1>2, <1>3, <1>5, <1>6, <1>7, <1>8, OStep

LEMMA HandlingKeeps ==
  ASSUME IInv, OInv, TypeOK', NEW w \in Worker, NEW r \in Row,
         \/ SkipMessage(w, r) \/ AddComment(w, r) \/ CreateTaskRaises(w, r)
         \/ TestMessage(w, r) \/ ExternalProcessor(w, r)
  PROVE  OInv'
<1>1. CASE SkipMessage(w, r)
  BY <1>1, DropKeeps DEF SkipMessage, box, table, history
<1>2. CASE TestMessage(w, r)
  BY <1>2, DropKeeps DEF TestMessage, box, table
<1>3. CASE AddComment(w, r)
  BY <1>3, AddCommentKeeps
<1>4. CASE CreateTaskRaises(w, r)
  <2>1. /\ Becomes(w, Resting) /\ run[w].pc = "handling"
        /\ UNCHANGED <<rows, mail, comments, seen, status, disturbed>>
    BY <1>4 DEF CreateTaskRaises, Handling, box, table
  <2>2. QED
    BY <2>1, Fields, RestingType, EndStep DEF IInv, At
<1>5. CASE ExternalProcessor(w, r)
  <2>1. PICK s \in {"failed", "ok"} :
          /\ status' = [status EXCEPT ![r][run[w].proc] = s]
          /\ disturbed' = IF s = "failed" THEN disturbed \cup ({mail[r]} \cap Mail)
                          ELSE disturbed
    BY <1>5 DEF ExternalProcessor
  <2>2. /\ Handling(w, r) /\ Drop(w, r) /\ UNCHANGED <<rows, mail, comments, seen>>
        /\ run[w].proc \in Processor /\ status \in [Row -> [Processor -> Status]]
    BY <1>5 DEF ExternalProcessor, box, table, IInv, TypeOK, HoldsStored, Handling
  <2>3. ASSUME NEW t \in Stored, NEW p \in Processor, mail[t] \in Undisturbed'
        PROVE  /\ status'[t][p] # "failed" \/ status[t][p] = "failed"
               /\ status[t][p] = "ok" => status'[t][p] = "ok"
    <3>1. t \in Row
      BY StoredRows DEF IInv
    <3>2. CASE s = "ok"
      BY <2>1, <2>2, <3>1, <3>2
    <3>3. CASE s = "failed"
      <4>1. t # r
        BY <2>1, <2>3, <3>3 DEF Undisturbed
      <4>2. QED
        BY <2>1, <2>2, <3>1, <4>1
    <3>4. QED
      BY <3>2, <3>3
  <2>4. disturbed \subseteq disturbed'
    BY <2>1
  <2>5. QED
    BY <2>2, <2>3, <2>4, DropKeeps
<1>6. QED
  BY <1>1, <1>2, <1>3, <1>4, <1>5

LEMMA OtherEndsKeep ==
  ASSUME IInv, OInv, TypeOK', NEW w \in Worker,
         UserRaises(w) \/ markMessagesAsProcessed(w) \/ Crash(w)
  PROVE  OInv'
<1>1. /\ Becomes(w, Resting) /\ UNCHANGED <<rows, mail, comments, seen, status>>
      /\ disturbed \subseteq disturbed'
  BY DEF UserRaises, markMessagesAsProcessed, Crash, box, table, history
<1>2. At(w, {"attach", "seen", "commented"}) => mail[run[w].row] \notin Undisturbed'
  <2>1. CASE UserRaises(w)
    BY <2>1 DEF UserRaises, Undisturbed
  <2>2. CASE markMessagesAsProcessed(w)
    BY <2>2 DEF markMessagesAsProcessed, At
  <2>3. CASE Crash(w) /\ At(w, {"attach", "seen", "commented"})
    <3>1. run[w].row # 0
      BY <2>3 DEF IInv, HoldsStored, At, Stored
    <3>2. QED
      BY <2>3, <3>1 DEF Crash, Undisturbed
  <2>4. QED
    BY <2>1, <2>2, <2>3
<1>3. QED
  BY <1>1, <1>2, Fields, RestingType, EndStep DEF IInv

LEMMA InitOInv == Init => OInv
<1> SUFFICES ASSUME Init PROVE OInv
  OBVIOUS
<1>1. Stored = {} /\ \A w \in Worker : run[w] = Resting /\ Holds(w) = {}
  BY DEF Init, Stored, Holds, Resting
<1>2. \A w \in Worker : Memory(w)
  BY <1>1 DEF Memory, Resting, At
<1>3. Unshared /\ OneRow /\ Reported /\ OneComment
  BY <1>1 DEF Init, Unshared, OneRow, Reported, OneComment, Undisturbed
<1>4. QED
  BY <1>2, <1>3 DEF OInv

LEMMA NextOInv == IInv /\ OInv /\ [Next]_vars => OInv'
<1> SUFFICES ASSUME IInv, OInv, [Next]_vars PROVE OInv'
  OBVIOUS
<1>1. TypeOK'
  BY NextInv DEF IInv
<1>2. ASSUME UNCHANGED <<rows, mail, comments, seen, status, run, disturbed>> PROVE OInv'
  BY <1>2 DEF OInv, Unshared, OneRow, Reported, OneComment, Memory, Holds, Stored,
              Undisturbed, At, IsKind
<1>3. ASSUME NEW m \in Mail, Arrive(m) PROVE OInv'
  BY <1>2, <1>3 DEF Arrive, table, history
<1>4. ASSUME NEW w \in Worker, Step(w) PROVE OInv'
  <2>1. CASE (\E m \in Mail : InsertMessage(w, m)) \/ ReadPage(w)
    BY <1>1, <2>1, ReadKeeps
  <2>2. CASE SaveAttachments(w) \/ MarkAsSeen(w) \/ EndReading(w)
    BY <1>1, <2>2, SaveAttachmentsKeeps, MarkAsSeenKeeps, EndReadingKeeps
  <2>3. CASE \E r \in Row : \/ SkipMessage(w, r) \/ AddComment(w, r)
                            \/ CreateTaskRaises(w, r) \/ TestMessage(w, r)
                            \/ ExternalProcessor(w, r)
    BY <1>1, <2>3, HandlingKeeps
  <2>4. CASE (\E p \in Processor : StartProcessor(w, p)) \/ InsertStatus(w) \/ EndProcessor(w)
    BY <1>1, <2>4, StartProcessorKeeps, InsertStatusKeeps, EndProcessorKeeps
  <2>5. CASE UserRaises(w) \/ markMessagesAsProcessed(w)
    BY <1>1, <2>5, OtherEndsKeep
  <2>6. QED
    BY <1>4, <2>1, <2>2, <2>3, <2>4, <2>5 DEF Step
<1>5. ASSUME NEW w \in Worker,
             Crash(w) \/ \E c \in Channel : StartRead(w, c) \/ StartProcess(w, c)
      PROVE  OInv'
  BY <1>1, <1>5, OtherEndsKeep, StartReadKeeps, StartProcessKeeps
<1>6. CASE UNCHANGED vars
  BY <1>2, <1>6 DEF vars
<1>7. QED
  BY <1>3, <1>4, <1>5, <1>6 DEF Next

\* A mail becomes at most one comment, for any number of overlapping runs and deaths:
\* unless a run was cut off while it handled the mail, two held it, or a processor failed.
THEOREM OneCommentEach == Spec => []OneComment
<1>1. OInv => OneComment
  BY DEF OInv
<1>2. QED
  BY InitInv, NextInv, InitOInv, NextOInv, <1>1, PTL DEF Spec
=============================================================================
