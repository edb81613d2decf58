----------------------------- MODULE BrowserProofs -----------------------------
(***************************************************************************)
(* Theorems about the pages of Browser, for any number of files, tabs,     *)
(* pages, sessions and requests.                                           *)
(***************************************************************************)
EXTENDS Browser, FiniteSetTheorems, SequenceTheorems, WellFoundedInduction, TLAPS

------------------------------------------------------------------------------
(* Uploads: a file that failed leaves nothing behind.  An invariant must    *)
(* say whose step may touch the upload of a file: only the tab whose first  *)
(* file it is, for no file is chosen twice and none is taken up again.      *)

Working == phases \ {"idle", "done", "left"}

\* While the parts are dealt with the upload at S3 is open.
OpenFor(t) ==
    /\ phase[t] \in Working => files[t] # <<>>
    /\ phase[t] \in {"read", "wait", "join", "complete", "abort"} =>
           This(t) \in troubled \/ uploads[This(t)].state = "open"

UploadInv ==
    /\ files \in [Tab -> Seq(File)]
    /\ phase \in [Tab -> phases]
    /\ DOMAIN counted = File
    /\ DOMAIN tracked = File
    /\ DOMAIN uploads = File
    /\ \A f \in File : uploads[f] = [state |-> uploads[f].state,
                                     parts |-> uploads[f].parts]
    /\ ChosenOnce(files)
    /\ \A t \in Tab : \A i \in DOMAIN files[t] : counted[files[t][i]] = "no"
    /\ \A t \in Tab : OpenFor(t)
    /\ FailureCleansUp

LEMMA UploadStarts == UploadInit => UploadInv
  <1> SUFFICES ASSUME UploadInit PROVE UploadInv
    OBVIOUS
  <1>1. files \in [Tab -> Seq(File)] /\ ChosenOnce(files)
    BY SelectionIsSound DEF UploadInit
  <1>2. phase \in [Tab -> phases] /\ \A t \in Tab : OpenFor(t)
    BY DEF UploadInit, OpenFor, Working, phases, serverPhases
  <1>3. /\ DOMAIN counted = File /\ DOMAIN tracked = File /\ DOMAIN uploads = File
        /\ \A f \in File : uploads[f] = [state |-> uploads[f].state,
                                         parts |-> uploads[f].parts]
        /\ FailureCleansUp
    BY DEF UploadInit, NoUpload, FailureCleansUp
  <1>4. \A t \in Tab : \A i \in DOMAIN files[t] : counted[files[t][i]] = "no"
    BY <1>1 DEF UploadInit
  <1> QED
    BY <1>1, <1>2, <1>3, <1>4 DEF UploadInv

\* What a step of tab t leaves alone: all uploads but that of its first file.
OthersAlone(t) ==
    /\ DOMAIN uploads' = File
    /\ DOMAIN tracked' = File
    /\ \A f \in File : uploads'[f] = [state |-> uploads'[f].state,
                                      parts |-> uploads'[f].parts]
    /\ \A f \in File \ {This(t)} : /\ uploads'[f] = uploads[f]
                                   /\ tracked'[f] = tracked[f]
    /\ troubled \subseteq troubled'

\* Two tabs have different first files.
LEMMA FirstFilesDiffer ==
    ASSUME UploadInv, NEW t \in Tab, files[t] # <<>>,
           NEW u \in Tab, u # t, files[u] # <<>>
    PROVE  /\ This(t) \in File /\ This(u) \in File
           /\ This(u) # This(t)
           /\ counted[This(t)] = "no"
  <1>1. files[t] \in Seq(File) /\ files[u] \in Seq(File)
    BY DEF UploadInv
  <1>2. /\ 1 \in DOMAIN files[t] /\ 1 \in DOMAIN files[u]
        /\ This(t) = files[t][1] /\ This(u) = files[u][1]
        /\ This(t) \in File /\ This(u) \in File
    BY <1>1 DEF This
  <1> QED
    BY <1>2 DEF UploadInv, ChosenOnce

LEMMA FirstFile ==
    ASSUME UploadInv, NEW t \in Tab, files[t] # <<>>
    PROVE  This(t) \in File /\ counted[This(t)] = "no"
  <1>1. files[t] \in Seq(File)
    BY DEF UploadInv
  <1>2. 1 \in DOMAIN files[t] /\ This(t) = files[t][1] /\ This(t) \in File
    BY <1>1 DEF This
  <1> QED
    BY <1>2 DEF UploadInv

\* A step that goes on with the same file.
LEMMA SameFile ==
    ASSUME UploadInv, NEW t \in Tab, files[t] # <<>>, NEW p \in phases,
           Goto(t, p), OthersAlone(t), UNCHANGED <<files, counted>>,
           p \in {"read", "wait", "join", "complete", "abort"} =>
               This(t) \in troubled' \/ uploads'[This(t)].state = "open"
    PROVE  UploadInv'
  <1>1. phase' \in [Tab -> phases]
    BY DEF UploadInv, Goto
  <1>2. ASSUME NEW u \in Tab PROVE OpenFor(u)'
    <2>1. CASE u = t
      <3>1. phase'[t] = p /\ This(t)' = This(t)
        BY DEF UploadInv, Goto, This
      <3> QED
        BY <2>1, <3>1 DEF OpenFor
    <2>2. CASE u # t
      <3>1. phase'[u] = phase[u] /\ This(u)' = This(u) /\ OpenFor(u)
        BY <2>2 DEF UploadInv, Goto, This
      <3>2. CASE phase[u] \in Working
        <4>1. files[u] # <<>> /\ This(u) \in File /\ This(u) # This(t)
          BY <2>2, <3>1, <3>2, FirstFilesDiffer DEF OpenFor
        <4> QED
          BY <3>1, <4>1 DEF OpenFor, OthersAlone
      <3>3. CASE phase[u] \notin Working
        BY <3>1, <3>3 DEF OpenFor, Working, phases, serverPhases
      <3> QED
        BY <3>2, <3>3
    <2> QED
      BY <2>1, <2>2
  <1>3. FailureCleansUp'
    <2>1. counted[This(t)] = "no"
      BY FirstFile
    <2> QED
      BY <2>1 DEF FailureCleansUp, OthersAlone, UploadInv
  <1> QED
    BY <1>1, <1>2, <1>3 DEF UploadInv, ChosenOnce, OthersAlone

\* A step that counts the file, and goes on with the next one.
LEMMA NextFile ==
    ASSUME UploadInv, NEW t \in Tab, phase[t] \in Working,
           NEW verdict \in {"success", "failed"},
           Count(t, verdict), OthersAlone(t),
           verdict = "failed" /\ This(t) \notin troubled' =>
               uploads'[This(t)].state = "aborted"
               /\ tracked'[This(t)] = "deleted"
    PROVE  UploadInv'
  <1>0. files[t] # <<>> /\ files[t] \in Seq(File)
    BY DEF UploadInv, OpenFor
  <1>1. /\ Tail(files[t]) \in Seq(File)
        /\ Len(Tail(files[t])) = Len(files[t]) - 1
        /\ \A i \in DOMAIN Tail(files[t]) :
               i + 1 \in DOMAIN files[t] /\ Tail(files[t])[i] = files[t][i + 1]
    BY <1>0
  <1>2. /\ files' = [files EXCEPT ![t] = Tail(@)]
        /\ files' \in [Tab -> Seq(File)]
        /\ files'[t] = Tail(files[t])
        /\ \A u \in Tab \ {t} : files'[u] = files[u]
    BY <1>1 DEF Count, UploadInv
  <1>3. This(t) = files[t][1] /\ This(t) \in File /\ 1 \in DOMAIN files[t]
    BY <1>0 DEF This
  <1>4. /\ DOMAIN counted' = File
        /\ counted'[This(t)] = verdict
        /\ \A f \in File \ {This(t)} : counted'[f] = counted[f]
    BY <1>3 DEF Count, UploadInv
  <1>5. phase' \in [Tab -> phases]
    BY DEF UploadInv, Count, Goto, phases
  <1>6. ChosenOnce(files')
    <2> SUFFICES ASSUME NEW u \in Tab, NEW v \in Tab,
                        NEW i \in DOMAIN files'[u], NEW j \in DOMAIN files'[v],
                        files'[u][i] = files'[v][j]
                 PROVE  u = v /\ i = j
      BY DEF ChosenOnce
    <2>0. ChosenOnce(files)
      BY DEF UploadInv
    <2>1. i \in Int /\ j \in Int
      BY <1>2
    <2>2. CASE u = t /\ v = t
      BY <1>1, <1>2, <2>0, <2>1, <2>2 DEF ChosenOnce
    <2>3. CASE u = t /\ v # t
      BY <1>1, <1>2, <2>0, <2>1, <2>3 DEF ChosenOnce
    <2>4. CASE u # t /\ v = t
      BY <1>1, <1>2, <2>0, <2>1, <2>4 DEF ChosenOnce
    <2>5. CASE u # t /\ v # t
      BY <1>1, <1>2, <2>0, <2>1, <2>5 DEF ChosenOnce
    <2> QED
      BY <2>2, <2>3, <2>4, <2>5
  <1>7. ASSUME NEW u \in Tab, NEW i \in DOMAIN files'[u]
        PROVE  counted'[files'[u][i]] = "no"
    <2>0. \A v \in Tab : \A k \in DOMAIN files[v] :
              /\ counted[files[v][k]] = "no"
              /\ files[v][k] = files[t][1] => v = t /\ k = 1
      BY <1>3 DEF UploadInv, ChosenOnce
    <2>1. \E k \in DOMAIN files[u] : files'[u][i] = files[u][k]
                                     /\ (u = t => k # 1)
      BY <1>1, <1>2
    <2>2. PICK k \in DOMAIN files[u] : files'[u][i] = files[u][k]
                                       /\ (u = t => k # 1)
      BY <2>1
    <2>3. files[u][k] \in File /\ files[u][k] # This(t)
      BY <1>3, <2>0, <2>2 DEF UploadInv
    <2> QED
      BY <1>4, <2>0, <2>2, <2>3
  <1>8. ASSUME NEW u \in Tab PROVE OpenFor(u)'
    <2>1. CASE u = t
      <3>1. CASE Len(files[t]) = 1
        <4>1. phase'[t] = "done"
          BY <3>1 DEF Count, Goto, UploadInv
        <4> QED
          BY <2>1, <4>1 DEF OpenFor, Working
      <3>2. CASE Len(files[t]) # 1
        <4>1. phase'[t] = "begin"
          BY <3>2 DEF Count, Goto, UploadInv
        <4>2. files'[t] # <<>>
          <5>1. Len(files[t]) \in Nat /\ Len(files[t]) # 0
            BY <1>0
          <5>2. Len(files'[t]) # 0
            BY <1>1, <1>2, <3>2, <5>1
          <5> QED
            BY <5>2
        <4> QED
          BY <2>1, <4>1, <4>2 DEF OpenFor
      <3> QED
        BY <3>1, <3>2
    <2>2. CASE u # t
      <3>1. /\ phase'[u] = phase[u] /\ files'[u] = files[u]
            /\ This(u)' = This(u) /\ OpenFor(u)
        BY <1>2, <2>2 DEF UploadInv, Count, Goto, This
      <3>2. CASE phase[u] \in Working
        <4>1. files[u] # <<>> /\ This(u) \in File /\ This(u) # This(t)
          BY <1>0, <2>2, <3>1, <3>2, FirstFilesDiffer DEF OpenFor
        <4> QED
          BY <3>1, <4>1 DEF OpenFor, OthersAlone
      <3>3. CASE phase[u] \notin Working
        BY <3>1, <3>3 DEF OpenFor, Working, phases, serverPhases
      <3> QED
        BY <3>2, <3>3
    <2> QED
      BY <2>1, <2>2
  <1>9. FailureCleansUp'
    <2> SUFFICES ASSUME NEW f \in File, counted'[f] = "failed",
                        f \notin troubled'
                 PROVE  uploads'[f].state = "aborted" /\ tracked'[f] = "deleted"
      BY DEF FailureCleansUp
    <2>1. CASE f = This(t)
      BY <1>4, <2>1
    <2>2. CASE f # This(t)
      BY <1>4, <2>2 DEF FailureCleansUp, OthersAlone, UploadInv
    <2> QED
      BY <2>1, <2>2
  <1> QED
    BY <1>2, <1>4, <1>5, <1>6, <1>7, <1>8, <1>9 DEF UploadInv, OthersAlone

\* A step that ends what the tab does.
LEMMA StopsHere ==
    ASSUME UploadInv, NEW t \in Tab, NEW p \in {"done", "left"}, Goto(t, p),
           UNCHANGED <<files, counted, uploads, tracked, troubled>>
    PROVE  UploadInv'
  <1>1. phase' \in [Tab -> phases]
    BY DEF UploadInv, Goto, phases
  <1>2. ASSUME NEW u \in Tab PROVE OpenFor(u)'
    BY DEF UploadInv, OpenFor, Goto, Working, This
  <1> QED
    BY <1>1, <1>2 DEF UploadInv, ChosenOnce, FailureCleansUp

\* Steps around the parts.
LEMMA StepAroundParts ==
    ASSUME UploadInv, NEW t \in Tab,
           \/ upload(t) \/ Leave(t) \/ beginMultipartUpload(t) \/ BeginFails(t)
    PROVE  UploadInv'
  <1>0. phase[t] \in Working => files[t] # <<>> /\ This(t) \in File
    BY FirstFile DEF UploadInv, OpenFor
  <1>1. CASE upload(t)
    <2>1. CASE files[t] = <<>>
      BY <1>1, <2>1, StopsHere DEF upload
    <2>2. CASE files[t] # <<>>
      <3>1. Goto(t, "begin") /\ "begin" \in phases
        BY <1>1, <2>2 DEF upload, phases
      <3>2. OthersAlone(t) /\ UNCHANGED <<files, counted>>
        BY <1>1 DEF upload, OthersAlone, UploadInv
      <3> QED
        BY <2>2, <3>1, <3>2, SameFile
    <2> QED
      BY <2>1, <2>2
  <1>2. CASE Leave(t)
    BY <1>2, StopsHere DEF Leave
  <1>3. CASE beginMultipartUpload(t)
    <2>1. files[t] # <<>> /\ This(t) \in File
      BY <1>0, <1>3 DEF beginMultipartUpload, Working, phases
    <2>2. OthersAlone(t) /\ uploads'[This(t)].state = "open"
      BY <1>3, <2>1 DEF beginMultipartUpload, OthersAlone, UploadInv
    <2>3. Goto(t, "read") /\ "read" \in phases /\ UNCHANGED <<files, counted>>
      BY <1>3 DEF beginMultipartUpload, phases
    <2> QED
      BY <2>1, <2>2, <2>3, SameFile
  <1>4. CASE BeginFails(t)
    <2>1. phase[t] \in Working /\ This(t) \in File
      BY <1>0, <1>4 DEF BeginFails, Working, phases
    <2>2. OthersAlone(t)
      BY <1>4, <2>1 DEF BeginFails, OthersAlone, UploadInv
    <2>3. Count(t, "failed") /\ This(t) \in troubled'
      BY <1>4 DEF BeginFails
    <2> QED
      BY <2>1, <2>2, <2>3, NextFile
  <1> QED
    BY <1>1, <1>2, <1>3, <1>4

\* Steps of uploadParts: the upload stays open.
LEMMA StepOfParts ==
    ASSUME UploadInv, NEW t \in Tab,
           \/ ReadChunk(t) \/ ReadAborted(t) \/ WaitForParts(t) \/ LastPart(t)
           \/ JoinParts(t) \/ SendParts(t)
    PROVE  UploadInv'
  <1>1. phase[t] \in {"read", "wait", "join"}
    BY DEF ReadChunk, ReadAborted, WaitForParts, LastPart, JoinParts,
           SendParts, UploadPart, PartFails, Sending
  <1>2. /\ files[t] # <<>> /\ This(t) \in File
        /\ This(t) \in troubled \/ uploads[This(t)].state = "open"
    BY <1>1, FirstFile DEF UploadInv, OpenFor, Working, phases, serverPhases
  <1>3. UNCHANGED <<files, counted, tracked, troubled>>
    BY DEF ReadChunk, ReadAborted, WaitForParts, LastPart, JoinParts,
           SendParts, UploadPart, PartFails
  <1>4. \E p \in {"read", "wait", "join", "abort", "complete"} : Goto(t, p)
    <2>0. phase' = phase => Goto(t, phase[t])
      BY DEF Goto, UploadInv
    <2>1. CASE ReadChunk(t)
      BY <1>1, <2>0, <2>1 DEF ReadChunk
    <2>2. CASE ReadAborted(t) \/ WaitForParts(t) \/ LastPart(t)
      BY <2>2 DEF ReadAborted, WaitForParts, LastPart
    <2>3. CASE JoinParts(t)
      BY <2>3 DEF JoinParts
    <2>4. CASE SendParts(t)
      BY <1>1, <2>0, <2>4 DEF SendParts, UploadPart, PartFails
    <2> QED
      BY <2>1, <2>2, <2>3, <2>4
  <1>5. OthersAlone(t) /\ uploads'[This(t)].state = uploads[This(t)].state
    <2>1. CASE UNCHANGED uploads
      BY <1>3, <2>1 DEF OthersAlone, UploadInv
    <2>2. CASE \E n \in DOMAIN parts[t] : Store(t, n)
      BY <1>2, <1>3, <2>2 DEF Store, OthersAlone, UploadInv
    <2> QED
      BY <2>1, <2>2 DEF ReadChunk, ReadAborted, WaitForParts, LastPart,
           JoinParts, SendParts, UploadPart, PartFails
  <1>6. PICK p \in {"read", "wait", "join", "abort", "complete"} : Goto(t, p)
    BY <1>4
  <1>7. p \in phases
    BY DEF phases, serverPhases
  <1> QED
    BY <1>2, <1>3, <1>5, <1>6, <1>7, SameFile DEF OthersAlone

\* Steps of the completion: it succeeds, or the file is troubled.
LEMMA StepOfCompletion ==
    ASSUME UploadInv, NEW t \in Tab,
           \/ CompleteMultipart(t) \/ LookUpAttachment(t)
           \/ InsertAttachment(t) \/ DeleteTracked(t)
           \/ CompleteAnswered(t) \/ CompleteFails(t)
    PROVE  UploadInv'
  <1>1. phase[t] \in serverPhases /\ phase[t] \in Working
    BY DEF CompleteMultipart, LookUpAttachment, InsertAttachment,
           DeleteTracked, CompleteAnswered, CompleteFails, serverPhases,
           Working, phases
  <1>2. files[t] # <<>> /\ This(t) \in File
    BY <1>1, FirstFile DEF UploadInv, OpenFor
  <1>3. OthersAlone(t)
    <2>1. CASE CompleteMultipart(t)
      BY <1>2, <2>1 DEF CompleteMultipart, OthersAlone, UploadInv
    <2>2. CASE DeleteTracked(t)
      BY <1>2, <2>2 DEF DeleteTracked, OthersAlone, UploadInv
    <2>3. CASE LookUpAttachment(t) \/ InsertAttachment(t)
               \/ CompleteAnswered(t) \/ CompleteFails(t)
      BY <2>3 DEF LookUpAttachment, InsertAttachment, CompleteAnswered,
                  CompleteFails, OthersAlone, UploadInv
    <2> QED
      BY <2>1, <2>2, <2>3
  <1>4. CASE CompleteAnswered(t)
    BY <1>1, <1>3, <1>4, NextFile DEF CompleteAnswered
  <1>5. CASE CompleteFails(t)
    <2>1. /\ Goto(t, "abort") /\ "abort" \in phases
          /\ This(t) \in troubled' /\ UNCHANGED <<files, counted>>
      BY <1>5 DEF CompleteFails, phases
    <2> QED
      BY <1>2, <1>3, <2>1, SameFile
  <1>6. CASE CompleteMultipart(t) \/ LookUpAttachment(t)
             \/ InsertAttachment(t) \/ DeleteTracked(t)
    <2>1. \E p \in {"lookup", "insert", "delete", "answer"} : Goto(t, p)
      BY <1>6 DEF CompleteMultipart, LookUpAttachment, InsertAttachment,
                  DeleteTracked
    <2>2. PICK p \in {"lookup", "insert", "delete", "answer"} : Goto(t, p)
      BY <2>1
    <2>3. p \in phases /\ p \notin {"read", "wait", "join", "complete", "abort"}
      BY DEF phases, serverPhases
    <2>4. UNCHANGED <<files, counted>>
      BY <1>6 DEF CompleteMultipart, LookUpAttachment, InsertAttachment,
                  DeleteTracked
    <2> QED
      BY <1>2, <1>3, <2>2, <2>3, <2>4, SameFile
  <1> QED
    BY <1>4, <1>5, <1>6

\* Steps of the abort: the upload is open, so it is cleaned up.
LEMMA StepOfAbort ==
    ASSUME UploadInv, NEW t \in Tab, abortUpload(t) \/ AbortFails(t)
    PROVE  UploadInv'
  <1>1. phase[t] = "abort" /\ phase[t] \in Working
    BY DEF abortUpload, AbortFails, Working, phases
  <1>2. /\ files[t] # <<>> /\ This(t) \in File
        /\ This(t) \in troubled \/ uploads[This(t)].state = "open"
    BY <1>1, FirstFile DEF UploadInv, OpenFor
  <1>3. CASE abortUpload(t)
    <2>1. OthersAlone(t) /\ troubled' = troubled /\ Count(t, "failed")
      BY <1>2, <1>3 DEF abortUpload, OthersAlone, UploadInv
    <2>2. uploads[This(t)].state = "open" =>
              uploads'[This(t)].state = "aborted"
              /\ tracked'[This(t)] = "deleted"
      BY <1>2, <1>3 DEF abortUpload, UploadInv
    <2> QED
      BY <1>1, <1>2, <2>1, <2>2, NextFile
  <1>4. CASE AbortFails(t)
    <2>1. OthersAlone(t)
      BY <1>2, <1>4 DEF AbortFails, OthersAlone, UploadInv
    <2>2. Count(t, "failed") /\ This(t) \in troubled'
      BY <1>4 DEF AbortFails
    <2> QED
      BY <1>1, <2>1, <2>2, NextFile
  <1> QED
    BY <1>3, <1>4

LEMMA UploadSteps == UploadInv /\ [UploadNext]_uploadVars => UploadInv'
  <1> SUFFICES ASSUME UploadInv, [UploadNext]_uploadVars PROVE UploadInv'
    OBVIOUS
  <1>1. CASE UploadNext
    BY <1>1, StepAroundParts, StepOfParts, StepOfCompletion, StepOfAbort
       DEF UploadNext, UploadStep
  <1>2. CASE UNCHANGED uploadVars
    BY <1>2 DEF uploadVars, UploadInv, OpenFor, This, ChosenOnce,
                FailureCleansUp
  <1> QED
    BY <1>1, <1>2

\* A file the page counts as failed leaves no upload at S3 and no row behind,
\* unless one of the calls around its parts failed: for any files, stream,
\* chunks, attempts and tabs, and whatever else they do at the same time.
THEOREM FailedIsCleanedUp == Spec => []FailureCleansUp
  <1>1. Init => UploadInv
    BY UploadStarts DEF Init
  <1>2. UploadInv /\ [Next]_browserVars => UploadInv'
    <2> SUFFICES ASSUME UploadInv, [Next]_browserVars PROVE UploadInv'
      OBVIOUS
    <2>1. [UploadNext]_uploadVars
      BY DEF Next, browserVars, NextUpload, NextSecurity, NextTags,
             NextFavourite, NextTimelog, NextPasskeys
    <2> QED
      BY <2>1, UploadSteps
  <1>3. UploadInv => FailureCleansUp
    BY DEF UploadInv
  <1> QED
    BY <1>1, <1>2, <1>3, PTL DEF Spec

------------------------------------------------------------------------------
(* Uploads: a file that counts as uploaded is attached.  No attachment is   *)
(* taken away again, so it is enough that the handler has found or made one *)
(* before it goes on to delete its row.                                     *)

Attached(f) == ParentOf[f] # "none" => AttachmentsOf(Content[f]) # {}

AttachedInv ==
    /\ \A t \in Tab : phase[t] \in {"delete", "answer"} => Attached(This(t))
    /\ CountedIsAttached

\* Some file is attached to what it is for.
LEMMA Attaching ==
    ASSUME attachments \subseteq attachments', NEW f, Attached(f)
    PROVE  Attached(f)'
  BY DEF Attached, AttachmentsOf

\* What a step does to the place and the first file of other tabs.
LEMMA OtherTabs ==
    ASSUME UploadInv, NEW t \in Tab, upload(t) \/ UploadStep(t) \/ Leave(t),
           NEW u \in Tab, u # t
    PROVE  phase'[u] = phase[u] /\ This(u)' = This(u)
  <1>1. \/ UNCHANGED phase
        \/ \E p : Goto(t, p)
    BY DEF upload, Leave, UploadStep, beginMultipartUpload, BeginFails,
           ReadChunk, ReadAborted, WaitForParts, LastPart, JoinParts,
           SendParts, UploadPart, PartFails, CompleteMultipart,
           LookUpAttachment, InsertAttachment, DeleteTracked,
           CompleteAnswered, CompleteFails, abortUpload, AbortFails, Count
  <1>2. UNCHANGED files \/ files' = [files EXCEPT ![t] = Tail(@)]
    BY DEF upload, Leave, UploadStep, beginMultipartUpload, BeginFails,
           ReadChunk, ReadAborted, WaitForParts, LastPart, JoinParts,
           SendParts, UploadPart, PartFails, CompleteMultipart,
           LookUpAttachment, InsertAttachment, DeleteTracked,
           CompleteAnswered, CompleteFails, abortUpload, AbortFails, Count
  <1>3. phase'[u] = phase[u]
    BY <1>1 DEF Goto, UploadInv
  <1>4. files'[u] = files[u]
    BY <1>2 DEF UploadInv
  <1> QED
    BY <1>3, <1>4 DEF This

LEMMA AttachedSteps ==
    ASSUME UploadInv, AttachedInv, NEW t \in Tab,
           upload(t) \/ UploadStep(t) \/ Leave(t)
    PROVE  AttachedInv'
  <1>1. attachments \subseteq attachments'
    BY DEF upload, Leave, UploadStep, beginMultipartUpload, BeginFails,
           ReadChunk, ReadAborted, WaitForParts, LastPart, JoinParts,
           SendParts, UploadPart, PartFails, CompleteMultipart,
           LookUpAttachment, InsertAttachment, DeleteTracked,
           CompleteAnswered, CompleteFails, abortUpload, AbortFails
  <1>2. ASSUME NEW f, Attached(f) PROVE Attached(f)'
    BY <1>1, <1>2, Attaching
  <1>3. ASSUME NEW u \in Tab, u # t, phase'[u] \in {"delete", "answer"}
        PROVE  Attached(This(u))'
    <2>1. phase'[u] = phase[u] /\ This(u)' = This(u)
      BY <1>3, OtherTabs
    <2>2. PICK f : f = This(u)
      OBVIOUS
    <2>3. Attached(f)'
      BY <1>2, <1>3, <2>1, <2>2 DEF AttachedInv
    <2> QED
      BY <2>1, <2>2, <2>3 DEF Attached, AttachmentsOf
  <1>4. ASSUME phase'[t] \in {"delete", "answer"} PROVE Attached(This(t))'
    <2>1. phase[t] \in serverPhases /\ UNCHANGED files
      BY <1>4 DEF upload, Leave, UploadStep, beginMultipartUpload, BeginFails,
           ReadChunk, ReadAborted, WaitForParts, LastPart, JoinParts,
           SendParts, UploadPart, PartFails, CompleteMultipart, Sending,
           LookUpAttachment, InsertAttachment, DeleteTracked,
           CompleteAnswered, CompleteFails, abortUpload, AbortFails, Count,
           Goto, UploadInv, serverPhases
    <2>2. This(t)' = This(t)
      BY <2>1 DEF This
    <2>3. PICK f : f = This(t)
      OBVIOUS
    <2>4. Attached(f)'
      <3>1. CASE CompleteMultipart(t)
        <4>1. ParentOf[f] = "none"
          BY <1>4, <2>3, <3>1 DEF CompleteMultipart, Goto, UploadInv
        <4> QED
          BY <4>1 DEF Attached
      <3>2. CASE LookUpAttachment(t)
        <4>1. AttachmentsOf(Content[f]) # {}
          BY <1>4, <2>3, <3>2 DEF LookUpAttachment, Goto, UploadInv
        <4> QED
          BY <1>2, <4>1 DEF Attached
      <3>3. CASE InsertAttachment(t)
        <4>1. [file |-> f, parent |-> ParentOf[f]] \in attachments'
          BY <2>3, <3>3 DEF InsertAttachment
        <4> QED
          BY <4>1 DEF Attached, AttachmentsOf
      <3>4. CASE DeleteTracked(t)
        BY <1>2, <2>3, <3>4 DEF DeleteTracked, AttachedInv
      <3> QED
        BY <1>4, <2>1, <3>1, <3>2, <3>3, <3>4
           DEF upload, Leave, UploadStep, beginMultipartUpload, BeginFails,
               ReadChunk, ReadAborted, WaitForParts, LastPart, JoinParts,
               SendParts, UploadPart, PartFails, Sending, CompleteAnswered,
               CompleteFails, abortUpload, AbortFails, Count, Goto, UploadInv,
               serverPhases
    <2> QED
      BY <2>2, <2>3, <2>4 DEF Attached, AttachmentsOf
  <1>5. ASSUME NEW f \in File, counted'[f] = "success" PROVE Attached(f)'
    <2>1. CASE counted[f] = "success"
      BY <1>2, <2>1 DEF AttachedInv, CountedIsAttached, Attached
    <2>2. CASE counted[f] # "success"
      <3>1. CompleteAnswered(t) /\ f = This(t)
        BY <1>5, <2>2
           DEF upload, Leave, UploadStep, beginMultipartUpload, BeginFails,
               ReadChunk, ReadAborted, WaitForParts, LastPart, JoinParts,
               SendParts, UploadPart, PartFails, CompleteMultipart,
               LookUpAttachment, InsertAttachment, DeleteTracked,
               CompleteAnswered, CompleteFails, abortUpload, AbortFails,
               Count, UploadInv
      <3> QED
        BY <1>2, <3>1 DEF CompleteAnswered, AttachedInv
    <2> QED
      BY <2>1, <2>2
  <1> QED
    BY <1>3, <1>4, <1>5 DEF AttachedInv, CountedIsAttached, Attached

\* A file for an object that the page counts as uploaded has an attachment:
\* for any files, contents, tabs and failures.
THEOREM CountedIsAlwaysAttached == Spec => []CountedIsAttached
  <1> DEFINE Inv == UploadInv /\ AttachedInv
  <1>1. Init => Inv
    <2> SUFFICES ASSUME Init PROVE Inv
      OBVIOUS
    <2>1. UploadInit
      BY DEF Init
    <2> QED
      BY <2>1, UploadStarts DEF UploadInit, AttachedInv, CountedIsAttached
  <1>2. Inv /\ [Next]_browserVars => Inv'
    <2> SUFFICES ASSUME Inv, [Next]_browserVars PROVE Inv'
      OBVIOUS
    <2>1. [UploadNext]_uploadVars
      BY DEF Next, browserVars, NextUpload, NextSecurity, NextTags,
             NextFavourite, NextTimelog, NextPasskeys
    <2>2. CASE UploadNext
      BY <2>2, UploadSteps, AttachedSteps DEF UploadNext
    <2>3. CASE UNCHANGED uploadVars
      <3>1. UploadInv'
        BY <2>3, UploadSteps
      <3>2. AttachedInv'
        BY <2>3 DEF uploadVars, AttachedInv, Attached, AttachmentsOf,
                    CountedIsAttached, This
      <3> QED
        BY <3>1, <3>2
    <2> QED
      BY <2>1, <2>2, <2>3
  <1>3. Inv => CountedIsAttached
    BY DEF AttachedInv
  <1> HIDE DEF Inv
  <1> QED
    BY <1>1, <1>2, <1>3, PTL DEF Spec

------------------------------------------------------------------------------
(* Uploads: one attachment for each tab at most.  A tab that is about to    *)
(* insert one counts like the one it inserts: once there is one, no further *)
(* tab gets that far.                                                       *)

Inserting(c) == {t \in Tab : phase[t] = "insert" /\ Content[This(t)] = c}

AttachmentsInv ==
    /\ IsFiniteSet(attachments)
    /\ \A c : Cardinality(AttachmentsOf(c)) + Cardinality(Inserting(c))
                  <= Cardinality(Tab)

\* Both sets are finite, and have no more elements than any they are part of.
LEMMA Counting ==
    ASSUME IsFiniteSet(attachments), NEW c
    PROVE  /\ IsFiniteSet(AttachmentsOf(c)) /\ IsFiniteSet(Inserting(c))
           /\ Cardinality(AttachmentsOf(c)) \in Nat
           /\ Cardinality(Inserting(c)) \in Nat
           /\ Cardinality(Inserting(c)) <= Cardinality(Tab)
           /\ Cardinality(Tab) \in Nat
  <1>1. AttachmentsOf(c) \subseteq attachments /\ Inserting(c) \subseteq Tab
    BY DEF AttachmentsOf, Inserting
  <1> QED
    BY <1>1, TabsAreFinite, FS_Subset, FS_CardinalityType

\* No tab comes to insert one.
LEMMA NoneInserts ==
    ASSUME AttachmentsInv, UNCHANGED attachments,
           \A c : Inserting(c)' \subseteq Inserting(c)
    PROVE  AttachmentsInv'
  <1> SUFFICES ASSUME NEW c
               PROVE  Cardinality(AttachmentsOf(c)) + Cardinality(Inserting(c)')
                          <= Cardinality(Tab)
    BY DEF AttachmentsInv, AttachmentsOf
  <1>1. IsFiniteSet(attachments)
    BY DEF AttachmentsInv
  <1>2. Cardinality(Inserting(c)') \in Nat
        /\ Cardinality(Inserting(c)') <= Cardinality(Inserting(c))
    BY <1>1, Counting, FS_Subset, FS_CardinalityType
  <1> QED
    BY <1>1, <1>2, Counting DEF AttachmentsInv

LEMMA AttachmentSteps ==
    ASSUME UploadInv, AttachmentsInv, NEW t \in Tab,
           upload(t) \/ UploadStep(t) \/ Leave(t)
    PROVE  AttachmentsInv'
  <1>0. ASSUME NEW c, NEW u \in Tab, u # t, u \in Inserting(c)'
        PROVE  u \in Inserting(c)
    BY <1>0, OtherTabs DEF Inserting
  <1>1. CASE LookUpAttachment(t)
    <2>1. UNCHANGED <<attachments, files>> /\ This(t)' = This(t)
          /\ phase'[t] = IF AttachmentsOf(Content[This(t)]) # {}
                         THEN "delete" ELSE "insert"
      BY <1>1 DEF LookUpAttachment, Goto, UploadInv, This
    <2> SUFFICES ASSUME NEW c
                 PROVE  Cardinality(AttachmentsOf(c))
                            + Cardinality(Inserting(c)') <= Cardinality(Tab)
      BY <2>1 DEF AttachmentsInv, AttachmentsOf
    <2>2. IsFiniteSet(attachments)
      BY DEF AttachmentsInv
    <2>3. Inserting(c)' \subseteq Tab
      BY DEF Inserting
    <2>4. CASE AttachmentsOf(c) = {}
      <3>1. Cardinality(AttachmentsOf(c)) = 0
        BY <2>4, FS_EmptySet
      <3>2. Cardinality(Inserting(c)') \in Nat
            /\ Cardinality(Inserting(c)') <= Cardinality(Tab)
        BY <2>3, TabsAreFinite, FS_Subset, FS_CardinalityType
      <3> QED
        BY <3>1, <3>2
    <2>5. CASE AttachmentsOf(c) # {}
      <3>1. t \notin Inserting(c)'
        BY <2>1, <2>5 DEF Inserting
      <3>2. Inserting(c)' \subseteq Inserting(c)
        BY <1>0, <2>3, <3>1
      <3>3. Cardinality(Inserting(c)') \in Nat
            /\ Cardinality(Inserting(c)') <= Cardinality(Inserting(c))
        BY <2>2, <3>2, Counting, FS_Subset, FS_CardinalityType
      <3> QED
        BY <2>2, <3>3, Counting DEF AttachmentsInv
    <2> QED
      BY <2>4, <2>5
  <1>2. CASE InsertAttachment(t)
    <2> DEFINE new == [file |-> This(t), parent |-> ParentOf[This(t)]]
    <2>1. /\ attachments' = attachments \cup {new} /\ new.file = This(t)
          /\ phase[t] = "insert" /\ phase'[t] = "delete"
      BY <1>2 DEF InsertAttachment, Goto, UploadInv
    <2> HIDE DEF new
    <2>2. IsFiniteSet(attachments) /\ IsFiniteSet(attachments')
      BY <2>1, FS_AddElement DEF AttachmentsInv
    <2> SUFFICES ASSUME NEW c
                 PROVE  Cardinality(AttachmentsOf(c)')
                            + Cardinality(Inserting(c)') <= Cardinality(Tab)
      BY <2>2 DEF AttachmentsInv
    <2>3. Inserting(c)' \subseteq Inserting(c) \ {t}
      BY <1>0, <2>1 DEF Inserting
    <2>4. CASE Content[This(t)] = c
      <3>1. t \in Inserting(c)
        BY <2>1, <2>4 DEF Inserting
      <3>2. AttachmentsOf(c)' = AttachmentsOf(c) \cup {new}
        BY <2>1, <2>4 DEF AttachmentsOf
      <3>3. Cardinality(AttachmentsOf(c)') \in Nat
            /\ Cardinality(AttachmentsOf(c)') <=
                   Cardinality(AttachmentsOf(c)) + 1
        <4>1. IsFiniteSet(AttachmentsOf(c))
              /\ Cardinality(AttachmentsOf(c)) \in Nat
          BY <2>2, Counting
        <4>2. Cardinality(AttachmentsOf(c) \cup {new}) \in
                  {Cardinality(AttachmentsOf(c)),
                   Cardinality(AttachmentsOf(c)) + 1}
          BY <4>1, FS_AddElement
        <4> QED
          BY <3>2, <4>1, <4>2
      <3>4. /\ IsFiniteSet(Inserting(c) \ {t})
            /\ Cardinality(Inserting(c) \ {t}) = Cardinality(Inserting(c)) - 1
        BY <2>2, <3>1, Counting, FS_RemoveElement
      <3>5. Cardinality(Inserting(c)') \in Nat
            /\ Cardinality(Inserting(c)') <= Cardinality(Inserting(c)) - 1
        BY <2>3, <3>4, FS_Subset, FS_CardinalityType
      <3> QED
        BY <2>2, <3>3, <3>5, Counting DEF AttachmentsInv
    <2>5. CASE Content[This(t)] # c
      <3>1. AttachmentsOf(c)' = AttachmentsOf(c)
        BY <2>1, <2>5 DEF AttachmentsOf
      <3>2. Cardinality(Inserting(c)') \in Nat
            /\ Cardinality(Inserting(c)') <= Cardinality(Inserting(c))
        BY <2>2, <2>3, Counting, FS_Subset, FS_CardinalityType
      <3> QED
        BY <2>2, <3>1, <3>2, Counting DEF AttachmentsInv
    <2> QED
      BY <2>4, <2>5
  <1>3. CASE ~LookUpAttachment(t) /\ ~InsertAttachment(t)
    <2>1. UNCHANGED attachments /\ phase'[t] # "insert"
      BY <1>3 DEF upload, Leave, UploadStep, beginMultipartUpload, BeginFails,
           ReadChunk, ReadAborted, WaitForParts, LastPart, JoinParts,
           SendParts, UploadPart, PartFails, CompleteMultipart, Sending,
           DeleteTracked, CompleteAnswered, CompleteFails, abortUpload,
           AbortFails, Count, Goto, UploadInv
    <2>2. \A c : Inserting(c)' \subseteq Inserting(c)
      BY <1>0, <2>1 DEF Inserting
    <2> QED
      BY <2>1, <2>2, NoneInserts
  <1> QED
    BY <1>1, <1>2, <1>3

\* Files with one content get no more attachments than there are tabs: for any
\* files and contents, and whatever fails.
THEOREM AttachmentsAreFew == Spec => []OneAttachmentPerTab
  <1> DEFINE Inv == UploadInv /\ AttachmentsInv
  <1>1. Init => Inv
    <2> SUFFICES ASSUME Init PROVE Inv
      OBVIOUS
    <2>1. UploadInit
      BY DEF Init
    <2>2. attachments = {} /\ \A t \in Tab : phase[t] = "idle"
      BY <2>1 DEF UploadInit
    <2>3. \A c : AttachmentsOf(c) = {} /\ Inserting(c) = {}
      BY <2>2 DEF AttachmentsOf, Inserting
    <2>4. IsFiniteSet(attachments) /\ Cardinality({}) = 0
          /\ Cardinality(Tab) \in Nat
      BY <2>2, FS_EmptySet, TabsAreFinite, FS_CardinalityType
    <2>5. AttachmentsInv
      BY <2>3, <2>4 DEF AttachmentsInv
    <2> QED
      BY <2>1, <2>5, UploadStarts
  <1>2. Inv /\ [Next]_browserVars => Inv'
    <2> SUFFICES ASSUME Inv, [Next]_browserVars PROVE Inv'
      OBVIOUS
    <2>1. [UploadNext]_uploadVars
      BY DEF Next, browserVars, NextUpload, NextSecurity, NextTags,
             NextFavourite, NextTimelog, NextPasskeys
    <2>2. CASE UploadNext
      BY <2>2, UploadSteps, AttachmentSteps DEF UploadNext
    <2>3. CASE UNCHANGED uploadVars
      <3>1. UploadInv'
        BY <2>3, UploadSteps
      <3>2. UNCHANGED attachments /\ \A c : Inserting(c)' = Inserting(c)
        BY <2>3 DEF uploadVars, Inserting, This
      <3> QED
        BY <3>1, <3>2, NoneInserts
    <2> QED
      BY <2>1, <2>2, <2>3
  <1>3. Inv => OneAttachmentPerTab
    <2> SUFFICES ASSUME Inv, NEW c
                 PROVE  Cardinality(AttachmentsOf(c)) <= Cardinality(Tab)
      BY DEF OneAttachmentPerTab
    <2> QED
      BY Counting DEF AttachmentsInv
  <1> HIDE DEF Inv
  <1> QED
    BY <1>1, <1>2, <1>3, PTL DEF Spec

------------------------------------------------------------------------------
(* Uploads: what counts as uploaded is whole.  The parts of a file follow   *)
(* one another as far as its stream was cut, S3 has only such parts, and    *)
(* all of them once none is under way and nothing gave up.                  *)

LEMMA Least ==
    ASSUME NEW S \in SUBSET Nat, S # {}
    PROVE  \E x \in S : \A y \in S : x <= y
  <1> DEFINE T == {0 .. x : x \in S}
             Less == StrictSubsetOrdering(Nat)
  <1>1. T \subseteq FiniteSubsetsOf(Nat) /\ T # {}
    <2>1. \A x \in S : IsFiniteSet(0 .. x) /\ 0 .. x \in SUBSET Nat
      BY FS_Interval
    <2> QED
      BY <2>1 DEF FiniteSubsetsOf
  <1>2. PICK t \in T : \A s \in T : <<s, t>> \notin Less
    BY <1>1, FS_StrictSubsetOrderingWellFounded, WFMin
  <1>3. PICK x \in S : t = 0 .. x
    OBVIOUS
  <1>4. ASSUME NEW y \in S, y < x PROVE FALSE
    <2>1. /\ 0 .. y \subseteq t /\ 0 .. y # t
          /\ 0 .. y \in SUBSET Nat /\ t \in SUBSET Nat
      BY <1>3, <1>4
    <2> QED
      BY <1>2, <2>1 DEF StrictSubsetOrdering
  <1> QED
    BY <1>4

Upto(m) == [u \in 1 .. m |-> u]
Chain(ps, k) ==
    \A i \in 1 .. k :
        /\ ps[i].from \in Nat /\ ps[i].to \in Nat
        /\ ps[i].from = (IF i = 1 THEN 1 ELSE ps[i - 1].to + 1)
        /\ ps[i].from <= ps[i].to

LEMMA Grown ==
    ASSUME NEW a \in Nat, NEW p, p.from = a + 1, p.to \in Nat, p.from <= p.to
    PROVE  Upto(a) \o Units(p) = Upto(p.to)
  <1> DEFINE u == Units(p)
  <1>1. Upto(a) \in Seq(Nat) /\ Len(Upto(a)) = a
    BY DEF Upto
  <1>2. u \in Seq(Nat) /\ Len(u) = p.to - a /\ \A i \in 1 .. p.to - a : u[i] = a + i
    BY DEF Units
  <1>3. \A i \in 1 .. a : Upto(a)[i] = i
    BY DEF Upto
  <1> DEFINE w == Upto(a) \o u
  <1> HIDE DEF u
  <1>4. w \in Seq(Nat) /\ Len(w) = a + (p.to - a)
    <2>1. w \in Seq(Nat) /\ Len(w) = Len(Upto(a)) + Len(u)
      BY <1>1, <1>2, ConcatProperties
    <2> QED
      BY <1>1, <1>2, <2>1
  <1>5. ASSUME NEW i \in 1 .. p.to PROVE w[i] = i
    <2>1. w[i] = IF i <= a THEN Upto(a)[i] ELSE u[i - a]
      BY <1>1, <1>2, ConcatProperties
    <2> QED
      BY <1>2, <1>3, <2>1
  <1> HIDE DEF w
  <1>6. Len(w) = p.to
    BY <1>4
  <1>7. w = [i \in 1 .. p.to |-> w[i]]
    BY <1>4, <1>6
  <1>8. w = Upto(p.to)
    BY <1>5, <1>7 DEF Upto
  <1> QED
    BY <1>8 DEF u, w

\* The concatenation of parts that follow one another.
LEMMA PutTogether ==
    ASSUME NEW k \in Nat \ {0}, NEW ps, Chain(ps, k)
    PROVE  FlattenSeq([i \in 1 .. k |-> Units(ps[i])]) = Upto(ps[k].to)
  <1> DEFINE s == [i \in 1 .. k |-> Units(ps[i])]
             eq(f) == [i \in 1 .. Len(s) |-> IF i = 1 THEN s[i] ELSE f[i - 1] \o s[i]]
             g == [i \in 1 .. k |-> Upto(ps[i].to)]
             flatten == CHOOSE f : f = eq(f)
  <1>1. Len(s) = k
    OBVIOUS
  <1>2. \A i \in 1 .. k : i # 1 => i - 1 \in 1 .. k
    OBVIOUS
  <1>3. ASSUME NEW i \in 1 .. k
        PROVE  Upto(ps[i].to) = IF i = 1 THEN s[i] ELSE Upto(ps[i - 1].to) \o s[i]
    <2>1. s[i] = Units(ps[i])
      OBVIOUS
    <2>2. CASE i = 1
      <3>1. ps[i].from = 0 + 1 /\ ps[i].to \in Nat /\ ps[i].from <= ps[i].to
        BY <2>2 DEF Chain
      <3>2. Units(ps[i]) = Upto(ps[i].to)
        BY <3>1 DEF Units, Upto
      <3> QED
        BY <2>1, <2>2, <3>2
    <2>3. CASE i # 1
      <3>1. /\ ps[i].from = ps[i - 1].to + 1 /\ ps[i].to \in Nat
            /\ ps[i].from <= ps[i].to /\ ps[i - 1].to \in Nat
        BY <1>2, <2>3 DEF Chain
      <3> QED
        BY <2>1, <2>3, <3>1, Grown
    <2> QED
      BY <2>2, <2>3
  <1>4. g = eq(g)
    BY <1>1, <1>2, <1>3
  <1>5. flatten = eq(flatten)
    BY <1>4
  <1>6. FlattenSeq(s) = flatten[k]
    BY <1>1 DEF FlattenSeq
  <1> HIDE DEF s
  <1>7. ASSUME NEW i \in 1 .. k
        PROVE  flatten[i] = IF i = 1 THEN s[i] ELSE flatten[i - 1] \o s[i]
    BY <1>1, <1>5
  <1> HIDE DEF flatten, g
  <1> DEFINE Wrong == {i \in 1 .. k : flatten[i] # Upto(ps[i].to)}
  <1>8. Wrong = {}
    <2> SUFFICES ASSUME Wrong # {} PROVE FALSE
      OBVIOUS
    <2>1. PICK i \in Wrong : \A j \in Wrong : i <= j
      <3>1. Wrong \in SUBSET Nat
        OBVIOUS
      <3> QED
        BY <3>1, Least
    <2>2. i \in 1 .. k /\ flatten[i] # Upto(ps[i].to)
      OBVIOUS
    <2>3. i # 1 => flatten[i - 1] = Upto(ps[i - 1].to)
      <3>1. i # 1 => i - 1 \in 1 .. k /\ i - 1 \notin Wrong
        BY <2>1, <2>2, <1>2
      <3> QED
        BY <3>1
    <2> QED
      BY <1>3, <1>7, <2>2, <2>3
  <1> QED
    BY <1>6, <1>8 DEF s

------------------------------------------------------------------------------
(* What the parts of a file are at every step of uploadParts.               *)

Cutting == {"read", "wait", "join", "complete"}
After == {"lookup", "insert", "delete", "answer"}

Part == [from : Nat, to : Nat, attempts : 1 .. MaxRetries, ended : BOOLEAN]
StoredPart == [n : Nat, from : Nat, to : Nat]
Piece(t, n) == [n |-> n, from |-> parts[t][n].from, to |-> parts[t][n].to]

\* The parts follow one another as far as the stream was cut, and S3 has only
\* such, among them those that have ended.
CutInv(t) ==
    /\ Chain(parts[t], Len(parts[t]))
    /\ taken[t] <= Size[This(t)]
    /\ phase[t] \in {"read", "wait"} => parts[t] = <<>> \/ CutTo(t) < taken[t]
    /\ phase[t] \in {"join", "complete"} =>
           parts[t] # <<>> /\ CutTo(t) = Size[This(t)]
    /\ phase[t] = "complete" => ~aborted[t] /\ AllEnded(t)
    /\ uploads[This(t)].state # "completed"
    /\ \A q \in uploads[This(t)].parts :
           q.n \in DOMAIN parts[t] /\ q = Piece(t, q.n)
    /\ ~aborted[t] => \A n \in DOMAIN parts[t] :
           parts[t][n].ended => Piece(t, n) \in uploads[This(t)].parts

\* S3 has no part of a file that is not begun.
Untouched(t) ==
    \A i \in DOMAIN files[t] :
        i > 1 \/ phase[t] \in {"idle", "begin"} => uploads[files[t][i]] = NoUpload

Whole(f) ==
    \/ objects[Content[f]] = Upto(Size[f])
    \/ \E g \in File : /\ Content[g] = Content[f]
                       /\ uploads[g].state = "completed" /\ TooManyParts(g)

UploadTypes ==
    /\ parts \in [Tab -> Seq(Part)]
    /\ taken \in [Tab -> Nat]
    /\ aborted \in [Tab -> BOOLEAN]
    /\ DOMAIN objects = Range(Content)
    /\ \A f \in File : uploads[f].parts \subseteq StoredPart
    /\ \A f \in File : objects[Content[f]] \in {Upto(m) : m \in 0 .. Size[f]}

WholeInv ==
    /\ UploadTypes
    /\ \A t \in Tab : phase[t] \in Cutting => CutInv(t)
    /\ \A t \in Tab : Untouched(t)
    /\ \A t \in Tab : phase[t] \in After => Whole(This(t))
    /\ \A f \in File : counted[f] = "success" => Whole(f)

Pieces(ps, k) == {ps[j] : j \in 1 .. k}
PageOf(ps, k) == [i \in 1 .. (IF k < PageSize THEN k ELSE PageSize) |-> ps[i]]

\* A page of the parts S3 has, when these are numbered from 1.
LEMMA PartsByNumber ==
    ASSUME NEW k \in Nat, NEW ps, NEW i \in 1 .. k + 1,
           \A j \in 1 .. k : ps[j].n = j
    PROVE  Cardinality({q \in Pieces(ps, k) : q.n < i}) = i - 1
  <1> USE DEF Pieces
  <1> DEFINE B == {q \in Pieces(ps, k) : q.n < i}
             b == [j \in 1 .. i - 1 |-> ps[j]]
  <1>1. i - 1 \in Nat /\ i - 1 <= k
    OBVIOUS
  <1>2. \A j \in 1 .. i - 1 : j \in 1 .. k /\ b[j] \in B /\ b[j].n = j
    BY <1>1
  <1>3. ASSUME NEW q \in B PROVE \E j \in 1 .. i - 1 : b[j] = q
    <2>1. PICK j \in 1 .. k : q = ps[j]
      OBVIOUS
    <2>2. j < i
      BY <2>1
    <2> QED
      BY <1>1, <2>1, <2>2
  <1>4. b \in Injection(1 .. i - 1, B)
    <2>1. b \in [1 .. i - 1 -> B]
      BY <1>2
    <2>2. \A x, y \in 1 .. i - 1 : b[x] = b[y] => x = y
      BY <1>2
    <2> QED
      BY <2>1, <2>2 DEF Injection, IsInjective
  <1>5. b \in Surjection(1 .. i - 1, B)
    BY <1>2, <1>3 DEF Surjection
  <1>6. b \in Bijection(1 .. i - 1, B)
    BY <1>4, <1>5 DEF Bijection
  <1>7. ASSUME NEW c \in Nat PROVE IsFiniteSet(1 .. c) /\ Cardinality(1 .. c) = c
    <2>1. IsFiniteSet(1 .. c) /\ Cardinality(1 .. c) = IF 1 > c THEN 0 ELSE c - 1 + 1
      BY FS_Interval
    <2> QED
      BY <2>1
  <1> HIDE DEF b, B
  <1>8. IsFiniteSet(B) /\ Cardinality(B) = i - 1
    <2>1. IsFiniteSet(1 .. i - 1) /\ Cardinality(1 .. i - 1) = i - 1
      BY <1>1, <1>7
    <2> QED
      BY <1>6, <2>1, FS_Bijection DEF ExistsBijection
  <1> QED
    BY <1>8 DEF B

LEMMA Listed ==
    ASSUME NEW f, NEW k \in Nat, NEW ps,
           \A j \in 1 .. k : ps[j].n = j,
           uploads[f].parts = Pieces(ps, k)
    PROVE  Cardinality(uploads[f].parts) = k /\ listParts(f) = PageOf(ps, k)
  <1> DEFINE S == uploads[f].parts
             m == IF k < PageSize THEN k ELSE PageSize
             Nth(i) == CHOOSE p \in S : Cardinality({q \in S : q.n < p.n}) = i - 1
  <1>0. S = {ps[j] : j \in 1 .. k}
    BY DEF Pieces
  <1>00. \A i \in 1 .. k + 1 : Cardinality({q \in Pieces(ps, k) : q.n < i}) = i - 1
    BY PartsByNumber
  <1> HIDE DEF S
  <1>1. ASSUME NEW i \in 1 .. k + 1 PROVE Cardinality({q \in S : q.n < i}) = i - 1
    BY <1>0, <1>00 DEF Pieces
  <1>2. {q \in S : q.n < k + 1} = S
    BY <1>0
  <1>3. Cardinality(S) = k
    <2>1. k + 1 \in 1 .. k + 1
      OBVIOUS
    <2> QED
      BY <1>1, <1>2, <2>1
  <1>4. \A i \in 1 .. m : i \in 1 .. k
    <2>1. PageSize \in Nat
      BY UploadSizes
    <2> QED
      BY <2>1
  <1>5. ASSUME NEW i \in 1 .. k PROVE Nth(i) = ps[i]
    <2>1. ps[i] \in S /\ ps[i].n = i
      BY <1>0
    <2>2. Cardinality({q \in S : q.n < ps[i].n}) = i - 1
      BY <1>1, <2>1
    <2>3. ASSUME NEW p \in S, Cardinality({q \in S : q.n < p.n}) = i - 1
          PROVE  p = ps[i]
      <3>1. PICK j \in 1 .. k : p = ps[j]
        BY <1>0, <2>3
      <3>2. p.n = j /\ Cardinality({q \in S : q.n < j}) = j - 1
        BY <1>1, <3>1
      <3>3. i - 1 = j - 1
        BY <2>3, <3>2
      <3>4. i = j
        BY <3>3
      <3> QED
        BY <3>1, <3>4
    <2> QED
      BY <2>1, <2>2, <2>3
  <1>6. listParts(f) = [i \in 1 .. m |-> Nth(i)]
    BY <1>3 DEF listParts, S
  <1> HIDE DEF Nth
  <1>7. [i \in 1 .. m |-> Nth(i)] = [i \in 1 .. m |-> ps[i]]
    BY <1>4, <1>5
  <1> QED
    BY <1>3, <1>6, <1>7 DEF S, PageOf

\* What S3 makes of them.
LEMMA Completed ==
    ASSUME NEW f, NEW k \in Nat \ {0}, NEW ps, Chain(ps, k),
           \A j \in 1 .. k : ps[j].n = j,
           uploads[f].parts = Pieces(ps, k)
    PROVE  LET m == IF k < PageSize THEN k ELSE PageSize
           IN  /\ m \in 1 .. k
               /\ FlattenSeq([i \in DOMAIN listParts(f) |-> Units(listParts(f)[i])])
                      = Upto(ps[m].to)
               /\ k <= PageSize => m = k
               /\ k > PageSize => TooManyParts(f)
  <1> DEFINE m == IF k < PageSize THEN k ELSE PageSize
  <1>0. Cardinality(uploads[f].parts) = k /\ listParts(f) = PageOf(ps, k)
    BY Listed
  <1>1. /\ Cardinality(uploads[f].parts) = k
        /\ listParts(f) = [i \in 1 .. m |-> ps[i]]
    BY <1>0 DEF PageOf
  <1>2. PageSize \in Nat \ {0}
    BY UploadSizes
  <1>3. m \in 1 .. k /\ m \in Nat \ {0}
    BY <1>2
  <1>4. Chain(ps, m)
    BY <1>3 DEF Chain
  <1>5. k > PageSize => TooManyParts(f)
    BY <1>1 DEF TooManyParts
  <1>6. k <= PageSize => m = k
    BY <1>2
  <1>7. [i \in DOMAIN listParts(f) |-> Units(listParts(f)[i])]
            = [i \in 1 .. m |-> Units(ps[i])]
    BY <1>1
  <1> HIDE DEF m
  <1>8. FlattenSeq([i \in 1 .. m |-> Units(ps[i])]) = Upto(ps[m].to)
    BY <1>3, <1>4, PutTogether
  <1>9. FlattenSeq([i \in DOMAIN listParts(f) |-> Units(listParts(f)[i])])
            = Upto(ps[m].to)
    BY <1>7, <1>8
  <1> QED
    BY <1>3, <1>5, <1>6, <1>9 DEF m

LEMMA WholeStays ==
    ASSUME NEW f, Whole(f), objects'[Content[f]] = objects[Content[f]],
           \A g \in File : uploads[g].state = "completed" => uploads'[g] = uploads[g]
    PROVE  Whole(f)'
  BY DEF Whole, TooManyParts

\* What a step of tab t does to the uploads, and to the other tabs.
Apart(t) ==
    /\ \A u \in Tab \ {t} :
           /\ files'[u] = files[u] /\ phase'[u] = phase[u] /\ taken'[u] = taken[u]
           /\ parts'[u] = parts[u] /\ aborted'[u] = aborted[u]
    /\ \/ uploads' = uploads
       \/ files[t] # <<>> /\ \A f \in File \ {This(t)} : uploads'[f] = uploads[f]
    /\ \A f \in File : uploads[f].state = "completed" => uploads'[f] = uploads[f]

LEMMA OthersCut ==
    ASSUME UploadInv, WholeInv, NEW t \in Tab, Apart(t), NEW u \in Tab, u # t
    PROVE  /\ This(u)' = This(u) /\ phase'[u] = phase[u]
           /\ (phase[u] \in Cutting => CutInv(u))' /\ Untouched(u)'
  <1>1. /\ files'[u] = files[u] /\ phase'[u] = phase[u] /\ taken'[u] = taken[u]
        /\ parts'[u] = parts[u] /\ aborted'[u] = aborted[u]
    BY DEF Apart
  <1>2. This(u)' = This(u)
    BY <1>1 DEF This
  <1>3. ASSUME phase[u] \in Cutting PROVE CutInv(u)'
    <2>1. CutInv(u)
      BY <1>3 DEF WholeInv
    <2>2. files[u] # <<>>
      BY <1>3 DEF UploadInv, OpenFor, Cutting, Working, phases, serverPhases
    <2>3. uploads'[This(u)] = uploads[This(u)]
      <3>1. CASE files[t] # <<>>
        <4>1. This(u) \in File /\ This(u) # This(t)
          BY <2>2, <3>1, FirstFilesDiffer
        <4> QED
          BY <4>1 DEF Apart
      <3>2. CASE files[t] = <<>>
        BY <3>2 DEF Apart
      <3> QED
        BY <3>1, <3>2
    <2>4. CutTo(u)' = CutTo(u) /\ AllEnded(u)' = AllEnded(u)
          /\ \A n : Piece(u, n)' = Piece(u, n)
      BY <1>1 DEF CutTo, AllEnded, Piece
    <2> QED
      BY <1>1, <1>2, <2>1, <2>3, <2>4 DEF CutInv
  <1>4. Untouched(u)'
    <2> SUFFICES ASSUME NEW i \in DOMAIN files[u],
                        i > 1 \/ phase[u] \in {"idle", "begin"}
                 PROVE  uploads'[files[u][i]] = NoUpload
      BY <1>1 DEF Untouched
    <2>1. uploads[files[u][i]] = NoUpload
      BY DEF WholeInv, Untouched
    <2>2. files[u][i] \in File
      BY DEF UploadInv
    <2>3. files[t] # <<>> => files[u][i] # This(t)
      <3>1. files[t] \in Seq(File)
        BY DEF UploadInv
      <3>2. files[t] # <<>> => 1 \in DOMAIN files[t] /\ This(t) = files[t][1]
        BY <3>1 DEF This
      <3> QED
        BY <3>2 DEF UploadInv, ChosenOnce
    <2> QED
      BY <2>1, <2>2, <2>3 DEF Apart
  <1> QED
    BY <1>1, <1>2, <1>3, <1>4

\* A step with the file at hand, which may put it together.
LEMMA WholeGoesOn ==
    ASSUME UploadInv, WholeInv, NEW t \in Tab, Apart(t), UploadTypes',
           UNCHANGED <<files, counted>>,
           phase'[t] \in Cutting => CutInv(t)', Untouched(t)',
           \A f \in File : Whole(f) => Whole(f)',
           phase'[t] \in After => files[t] # <<>> /\ Whole(This(t))'
    PROVE  WholeInv'
  <1>1. ASSUME NEW u \in Tab
        PROVE  /\ (phase[u] \in Cutting => CutInv(u))' /\ Untouched(u)'
               /\ (phase[u] \in After => Whole(This(u)))'
    <2>1. CASE u = t
      BY <2>1
    <2>2. CASE u # t
      <3>1. /\ This(u)' = This(u) /\ phase'[u] = phase[u]
            /\ (phase[u] \in Cutting => CutInv(u))' /\ Untouched(u)'
        BY <2>2, OthersCut
      <3>2. ASSUME phase[u] \in After PROVE Whole(This(u))'
        <4>1. Whole(This(u))
          BY <3>2 DEF WholeInv
        <4>2. files[u] # <<>>
          BY <3>2 DEF UploadInv, OpenFor, After, Working, phases, serverPhases
        <4>3. This(u) \in File
          BY <4>2, FirstFile
        <4>4. PICK f \in File : f = This(u)
          BY <4>3
        <4>5. Whole(f)'
          BY <4>1, <4>4
        <4> QED
          BY <3>1, <4>4, <4>5 DEF Whole
      <3> QED
        BY <3>1, <3>2
    <2> QED
      BY <2>1, <2>2
  <1>2. \A f \in File : counted'[f] = "success" => Whole(f)'
    BY DEF WholeInv
  <1> QED
    BY <1>1, <1>2 DEF WholeInv

\* A step that counts the file.
LEMMA WholeCounts ==
    ASSUME UploadInv, WholeInv, NEW t \in Tab, phase[t] \in Working, Apart(t),
           NEW verdict, Count(t, verdict), UploadTypes', UNCHANGED objects,
           verdict = "success" => Whole(This(t))
    PROVE  WholeInv'
  <1>0. files[t] # <<>> /\ files[t] \in Seq(File)
    BY DEF UploadInv, OpenFor
  <1>a. This(t) \in File /\ This(t) = files[t][1]
    BY <1>0, FirstFile DEF This
  <1>1. /\ phase'[t] \in {"done", "begin"}
        /\ files'[t] = Tail(files[t])
        /\ counted' = [counted EXCEPT ![This(t)] = verdict]
    BY DEF Count, Goto, UploadInv
  <1>2. Untouched(t)'
    <2> SUFFICES ASSUME NEW i \in DOMAIN files'[t]
                 PROVE  uploads'[files'[t][i]] = NoUpload
      BY DEF Untouched
    <2>1. /\ i \in Nat /\ i + 1 \in DOMAIN files[t] /\ i + 1 > 1
          /\ files'[t][i] = files[t][i + 1]
      BY <1>0, <1>1
    <2>2. uploads[files[t][i + 1]] = NoUpload
      BY <2>1 DEF WholeInv, Untouched
    <2>3. 1 \in DOMAIN files[t] /\ i + 1 # 1
      BY <1>0, <2>1
    <2>4. files[t][i + 1] # This(t) /\ files[t][i + 1] \in File
      BY <1>0, <1>a, <2>1, <2>3 DEF UploadInv, ChosenOnce
    <2> QED
      BY <2>1, <2>2, <2>4 DEF Apart
  <1>3. ASSUME NEW f, Whole(f) PROVE Whole(f)'
    BY <1>3, WholeStays DEF Apart
  <1>4. ASSUME NEW u \in Tab
        PROVE  /\ (phase[u] \in Cutting => CutInv(u))' /\ Untouched(u)'
               /\ (phase[u] \in After => Whole(This(u)))'
    <2>1. CASE u = t
      BY <1>1, <1>2, <2>1 DEF Cutting, After
    <2>2. CASE u # t
      <3>1. /\ This(u)' = This(u) /\ phase'[u] = phase[u]
            /\ (phase[u] \in Cutting => CutInv(u))' /\ Untouched(u)'
        BY <2>2, OthersCut
      <3>2. ASSUME phase[u] \in After PROVE Whole(This(u))'
        <4>1. Whole(This(u))
          BY <3>2 DEF WholeInv
        <4>2. PICK f : f = This(u)
          OBVIOUS
        <4>3. Whole(f)'
          BY <1>3, <4>1, <4>2
        <4> QED
          BY <3>1, <4>2, <4>3 DEF Whole
      <3> QED
        BY <3>1, <3>2
    <2> QED
      BY <2>1, <2>2
  <1>5. ASSUME NEW f \in File, counted'[f] = "success" PROVE Whole(f)'
    <2>1. CASE f = This(t)
      <3>1. verdict = "success"
        BY <1>1, <1>5, <2>1 DEF UploadInv
      <3> QED
        BY <1>3, <2>1, <3>1
    <2>2. CASE f # This(t)
      <3>1. counted[f] = "success"
        BY <1>1, <1>5, <2>2 DEF UploadInv
      <3> QED
        BY <1>3, <3>1 DEF WholeInv
    <2> QED
      BY <2>1, <2>2
  <1> QED
    BY <1>4, <1>5 DEF WholeInv

LEMMA Appended ==
    ASSUME NEW ps \in Seq(Part), Chain(ps, Len(ps)), NEW x \in Part,
           x.from = (IF ps = <<>> THEN 0 ELSE Last(ps).to) + 1, x.from <= x.to
    PROVE  /\ Append(ps, x) \in Seq(Part) /\ Append(ps, x) # <<>>
           /\ Chain(Append(ps, x), Len(Append(ps, x)))
           /\ Last(Append(ps, x)) = x
           /\ Len(Append(ps, x)) = Len(ps) + 1
           /\ \A n \in DOMAIN ps : n \in DOMAIN Append(ps, x) /\ Append(ps, x)[n] = ps[n]
           /\ \A n \in DOMAIN Append(ps, x) : n \in DOMAIN ps \/ n = Len(ps) + 1
           /\ Append(ps, x)[Len(ps) + 1] = x
  <1> DEFINE k == Len(ps)
             qs == Append(ps, x)
  <1>1. /\ qs \in Seq(Part) /\ Len(qs) = k + 1 /\ qs[k + 1] = x
        /\ k \in Nat
        /\ DOMAIN qs = 1 .. k + 1 /\ DOMAIN ps = 1 .. k
        /\ \A i \in 1 .. k : qs[i] = ps[i]
    BY AppendProperties
  <1>2. qs # <<>>
    BY <1>1
  <1>3. Last(qs) = x
    BY <1>1 DEF Last
  <1> HIDE DEF qs
  <1>4. ps # <<>> => k > 0 /\ Last(ps) = ps[k]
    BY DEF Last
  <1>5. ps = <<>> => k = 0
    OBVIOUS
  <1>6. ASSUME NEW i \in 1 .. k + 1
        PROVE  /\ qs[i].from \in Nat /\ qs[i].to \in Nat
               /\ qs[i].from = (IF i = 1 THEN 1 ELSE qs[i - 1].to + 1)
               /\ qs[i].from <= qs[i].to
    <2>1. CASE i \in 1 .. k
      <3>1. i # 1 => i - 1 \in 1 .. k
        BY <2>1
      <3> QED
        BY <1>1, <2>1, <3>1 DEF Chain
    <2>2. CASE i = k + 1
      <3>1. x.from \in Nat /\ x.to \in Nat
        BY DEF Part
      <3>2. ps = <<>> => i = 1
        BY <1>5, <2>2
      <3>3. ps # <<>> => i # 1 /\ i - 1 = k /\ k \in 1 .. k
        BY <1>1, <1>4, <2>2
      <3> QED
        BY <1>1, <1>4, <2>2, <3>1, <3>2, <3>3
    <2> QED
      BY <1>1, <2>1, <2>2
  <1>7. Chain(qs, Len(qs))
    BY <1>1, <1>6 DEF Chain
  <1> QED
    BY <1>1, <1>2, <1>3, <1>7 DEF qs

\* Tab t has its file, and only touches that.
LEMMA AtWork ==
    ASSUME UploadInv, WholeInv, NEW t \in Tab,
           phase[t] \in Working
    PROVE  /\ files[t] # <<>> /\ This(t) \in File
           /\ \A i \in DOMAIN files[t] : i > 1 => files[t][i] # This(t)
  <1>1. files[t] # <<>> /\ files[t] \in Seq(File)
    BY DEF UploadInv, OpenFor
  <1>2. This(t) \in File /\ This(t) = files[t][1] /\ 1 \in DOMAIN files[t]
    BY <1>1, FirstFile DEF This
  <1> QED
    BY <1>1, <1>2 DEF UploadInv, ChosenOnce

LEMMA RestUntouched ==
    ASSUME UploadInv, WholeInv, NEW t \in Tab, phase[t] \in Working,
           Apart(t), UNCHANGED files, phase'[t] \notin {"idle", "begin"}
    PROVE  Untouched(t)'
  <1>1. \A i \in DOMAIN files[t] : i > 1 =>
            /\ files[t][i] \in File /\ files[t][i] # This(t)
            /\ uploads[files[t][i]] = NoUpload
    BY AtWork DEF UploadInv, WholeInv, Untouched
  <1> QED
    BY <1>1 DEF Untouched, Apart

LEMMA CutToIs ==
    ASSUME NEW t \in Tab, parts[t] \in Seq(Part), Chain(parts[t], Len(parts[t]))
    PROVE  CutTo(t) \in Nat
  <1>1. parts[t] # <<>> => Len(parts[t]) \in 1 .. Len(parts[t])
    OBVIOUS
  <1> QED
    BY <1>1 DEF CutTo, Last, Chain

LEMMA NewParts ==
    ASSUME UploadTypes, NEW t \in Tab, CutInv(t), NEW to \in Nat, CutTo(t) < to,
           parts' = [parts EXCEPT ![t] = Append(@, NewPart(t, to))],
           UNCHANGED <<files, aborted, uploads>>
    PROVE  /\ parts' \in [Tab -> Seq(Part)]
           /\ \A u \in Tab \ {t} : parts'[u] = parts[u]
           /\ Chain(parts[t], Len(parts[t]))' /\ parts'[t] # <<>> /\ CutTo(t)' = to
           /\ uploads'[This(t)'].state # "completed"
           /\ \A q \in uploads'[This(t)'].parts :
                  q.n \in DOMAIN parts'[t] /\ q = Piece(t, q.n)'
           /\ ~aborted'[t] => \A n \in DOMAIN parts'[t] :
                  parts'[t][n].ended => Piece(t, n)' \in uploads'[This(t)'].parts
  <1> DEFINE x == NewPart(t, to)
             ps == parts[t]
  <1>1. ps \in Seq(Part) /\ Chain(ps, Len(ps)) /\ CutTo(t) \in Nat
    BY CutToIs DEF UploadTypes, CutInv
  <1>2. /\ x \in Part /\ x.from = (IF ps = <<>> THEN 0 ELSE Last(ps).to) + 1
        /\ x.from <= x.to /\ x.to = to /\ x.ended = aborted[t]
    <2>1. 1 \in 1 .. MaxRetries /\ aborted[t] \in BOOLEAN
      BY UploadSizes DEF UploadTypes
    <2> QED
      BY <1>1, <2>1 DEF NewPart, Part, CutTo
  <1>3. parts'[t] = Append(ps, x)
    BY DEF UploadTypes
  <1> HIDE DEF x
  <1>4. /\ parts'[t] \in Seq(Part) /\ parts'[t] # <<>>
        /\ Chain(parts'[t], Len(parts'[t]))
        /\ Last(parts'[t]) = x
        /\ \A n \in DOMAIN ps : n \in DOMAIN parts'[t] /\ parts'[t][n] = ps[n]
        /\ \A n \in DOMAIN parts'[t] : n \in DOMAIN ps \/ parts'[t][n] = x
    BY <1>1, <1>2, <1>3, Appended
  <1>5. This(t)' = This(t)
    BY DEF This
  <1>6. CutTo(t)' = to
    BY <1>2, <1>4 DEF CutTo
  <1>7. \A n \in DOMAIN ps : Piece(t, n)' = Piece(t, n)
    BY <1>4 DEF Piece
  <1>8. parts' \in [Tab -> Seq(Part)] /\ \A u \in Tab \ {t} : parts'[u] = parts[u]
    BY <1>3, <1>4 DEF UploadTypes
  <1>9. ASSUME ~aborted'[t], NEW n \in DOMAIN parts'[t], parts'[t][n].ended
        PROVE  Piece(t, n)' \in uploads'[This(t)'].parts
    <2>1. n \in DOMAIN ps
      BY <1>2, <1>4, <1>9
    <2> QED
      BY <1>4, <1>5, <1>7, <1>9, <2>1 DEF CutInv
  <1>10. \A q \in uploads'[This(t)'].parts :
             q.n \in DOMAIN parts'[t] /\ q = Piece(t, q.n)'
    BY <1>4, <1>5, <1>7 DEF CutInv
  <1>11. Chain(parts[t], Len(parts[t]))'
    BY <1>4 DEF Chain
  <1> QED
    BY <1>4, <1>5, <1>6, <1>8, <1>9, <1>10, <1>11 DEF CutInv

\* Reading the stream, cutting it and waiting for the parts.
LEMMA ReadingKeepsWhole ==
    ASSUME UploadInv, WholeInv, NEW t \in Tab,
           \/ ReadChunk(t) \/ ReadAborted(t) \/ WaitForParts(t) \/ LastPart(t)
           \/ JoinParts(t)
    PROVE  WholeInv'
  <1>1. phase[t] \in {"read", "wait", "join"} /\ phase[t] \in Working
    BY DEF ReadChunk, ReadAborted, WaitForParts, LastPart, JoinParts, Working,
           phases, serverPhases
  <1>2. files[t] # <<>> /\ This(t) \in File /\ CutInv(t)
    BY <1>1, AtWork DEF WholeInv, Cutting
  <1>3. UNCHANGED <<files, aborted, counted, uploads, objects>>
    BY DEF ReadChunk, ReadAborted, WaitForParts, LastPart, JoinParts
  <1>4. This(t)' = This(t) /\ Size[This(t)] \in Nat \ {0}
    BY <1>2, <1>3, UploadSizes DEF This
  <1>5. /\ \E p \in {"read", "wait", "join", "abort", "complete"} : phase'[t] = p
        /\ \A u \in Tab \ {t} : phase'[u] = phase[u]
    BY DEF ReadChunk, ReadAborted, WaitForParts, LastPart, JoinParts, Goto, UploadInv
  <1>6. UploadTypes
    BY DEF WholeInv
  <1>7. /\ taken[t] \in Nat /\ CutTo(t) \in Nat
        /\ parts[t] = <<>> => CutTo(t) = 0
    BY <1>2, <1>6, CutToIs DEF UploadTypes, CutInv, CutTo
  <1>8. /\ parts' \in [Tab -> Seq(Part)] /\ taken' \in [Tab -> Nat]
        /\ \A u \in Tab \ {t} : parts'[u] = parts[u] /\ taken'[u] = taken[u]
        /\ phase'[t] \in Cutting => CutInv(t)'
    <2>1. CASE ReadChunk(t)
      <3>0. PICK k \in 1 .. MaxRead : /\ taken[t] + k <= Size[This(t)]
                                      /\ taken' = [taken EXCEPT ![t] = @ + k]
        BY <2>1 DEF ReadChunk
      <3>1. /\ k \in Nat /\ k >= 1 /\ Chunk \in Nat /\ Chunk >= 1
        BY UploadSizes
      <3>2. /\ taken' \in [Tab -> Nat] /\ \A u \in Tab \ {t} : taken'[u] = taken[u]
            /\ taken'[t] = taken[t] + k
        BY <1>6, <3>0, <3>1 DEF UploadTypes
      <3>3. CASE taken[t] - CutTo(t) > Chunk
        <4>1. /\ parts' = [parts EXCEPT ![t] =
                               Append(@, NewPart(t, CutTo(t) + Chunk))]
              /\ phase'[t] \in {"read", "wait"}
          BY <2>1, <3>3 DEF ReadChunk, Goto, UploadInv
        <4>2. /\ CutTo(t) + Chunk \in Nat /\ CutTo(t) < CutTo(t) + Chunk
              /\ CutTo(t) + Chunk < taken'[t]
          BY <1>7, <3>1, <3>2, <3>3
        <4>3. /\ parts' \in [Tab -> Seq(Part)]
              /\ \A u \in Tab \ {t} : parts'[u] = parts[u]
              /\ Chain(parts[t], Len(parts[t]))' /\ parts'[t] # <<>>
              /\ CutTo(t)' = CutTo(t) + Chunk
              /\ uploads'[This(t)'].state # "completed"
              /\ \A q \in uploads'[This(t)'].parts :
                     q.n \in DOMAIN parts'[t] /\ q = Piece(t, q.n)'
              /\ ~aborted'[t] => \A n \in DOMAIN parts'[t] :
                     parts'[t][n].ended => Piece(t, n)' \in uploads'[This(t)'].parts
          BY <1>2, <1>3, <1>6, <4>1, <4>2, NewParts
        <4> QED
          BY <1>4, <3>0, <3>2, <4>1, <4>2, <4>3 DEF CutInv
      <3>4. CASE ~(taken[t] - CutTo(t) > Chunk)
        <4>1. UNCHANGED <<parts, phase>> /\ phase[t] = "read"
          BY <2>1, <3>4 DEF ReadChunk
        <4>2. CutTo(t)' = CutTo(t) /\ AllEnded(t)' = AllEnded(t)
              /\ \A n : Piece(t, n)' = Piece(t, n)
          BY <4>1 DEF CutTo, AllEnded, Piece
        <4>3. parts[t] = <<>> \/ CutTo(t) < taken'[t]
          BY <1>2, <1>7, <3>1, <3>2, <4>1 DEF CutInv
        <4>4. CutInv(t)'
          BY <1>2, <1>3, <1>4, <3>0, <3>2, <4>1, <4>2, <4>3 DEF CutInv
        <4> QED
          BY <1>6, <3>2, <4>1, <4>4 DEF UploadTypes
      <3> QED
        BY <3>3, <3>4
    <2>2. CASE LastPart(t)
      <3>1. /\ parts' = [parts EXCEPT ![t] = Append(@, NewPart(t, taken[t]))]
            /\ phase'[t] = "join" /\ taken[t] = Size[This(t)] /\ taken' = taken
            /\ phase[t] = "read"
        BY <2>2 DEF LastPart, Goto, UploadInv
      <3>2. CutTo(t) < taken[t]
        BY <1>2, <1>4, <1>7, <3>1 DEF CutInv
      <3>3. /\ parts' \in [Tab -> Seq(Part)]
            /\ \A u \in Tab \ {t} : parts'[u] = parts[u]
            /\ Chain(parts[t], Len(parts[t]))' /\ parts'[t] # <<>>
            /\ CutTo(t)' = taken[t]
            /\ uploads'[This(t)'].state # "completed"
            /\ \A q \in uploads'[This(t)'].parts :
                   q.n \in DOMAIN parts'[t] /\ q = Piece(t, q.n)'
            /\ ~aborted'[t] => \A n \in DOMAIN parts'[t] :
                   parts'[t][n].ended => Piece(t, n)' \in uploads'[This(t)'].parts
        BY <1>2, <1>3, <1>6, <1>7, <3>1, <3>2, NewParts
      <3>4. CutInv(t)'
        BY <1>4, <3>1, <3>3 DEF CutInv
      <3> QED
        BY <1>6, <3>1, <3>3, <3>4 DEF UploadTypes
    <2>3. CASE ReadAborted(t) \/ WaitForParts(t) \/ JoinParts(t)
      <3>1. UNCHANGED <<parts, taken>>
        BY <2>3 DEF ReadAborted, WaitForParts, JoinParts
      <3>2. /\ CutTo(t)' = CutTo(t) /\ AllEnded(t)' = AllEnded(t)
            /\ \A n : Piece(t, n)' = Piece(t, n)
        BY <3>1 DEF CutTo, AllEnded, Piece
      <3>3. \/ phase'[t] = "abort"
            \/ phase[t] = "wait" /\ phase'[t] = "read"
            \/ /\ phase[t] = "join" /\ phase'[t] = "complete"
               /\ AllEnded(t) /\ ~aborted[t]
        BY <2>3 DEF ReadAborted, WaitForParts, JoinParts, Goto, UploadInv
      <3>4. phase'[t] \in Cutting => CutInv(t)'
        BY <1>2, <1>3, <1>4, <3>1, <3>2, <3>3 DEF CutInv, Cutting
      <3> QED
        BY <1>6, <3>1, <3>4 DEF UploadTypes
    <2> QED
      BY <2>1, <2>2, <2>3
  <1>9. Apart(t) /\ UploadTypes'
    BY <1>3, <1>5, <1>6, <1>8 DEF Apart, UploadTypes
  <1>10. Untouched(t)'
    BY <1>1, <1>3, <1>5, <1>9, RestUntouched
  <1>11. \A f \in File : Whole(f) => Whole(f)'
    BY <1>3 DEF Whole, TooManyParts
  <1>12. phase'[t] \notin After
    BY <1>5 DEF After
  <1> QED
    BY <1>3, <1>8, <1>9, <1>10, <1>11, <1>12, WholeGoesOn

\* Sending a part, or failing to.
LEMMA SendingKeepsWhole ==
    ASSUME UploadInv, WholeInv, NEW t \in Tab, SendParts(t)
    PROVE  WholeInv'
  <1>0. PICK n \in DOMAIN parts[t] : UploadPart(t, n) \/ PartFails(t, n)
    BY DEF SendParts
  <1>1. /\ phase[t] \in {"read", "wait", "join"} /\ phase[t] \in Working
        /\ ~parts[t][n].ended
    BY <1>0 DEF UploadPart, PartFails, Sending, Working, phases, serverPhases
  <1>2. files[t] # <<>> /\ This(t) \in File /\ CutInv(t)
    BY <1>1, AtWork DEF WholeInv, Cutting
  <1>3. UNCHANGED <<files, phase, taken, counted, objects>>
    BY <1>0 DEF UploadPart, PartFails
  <1>4. This(t)' = This(t)
    BY <1>3 DEF This
  <1>5. UploadTypes /\ parts[t] \in Seq(Part) /\ n \in 1 .. Len(parts[t])
    BY DEF WholeInv, UploadTypes
  <1>6. parts[t][n] \in Part
    BY <1>5
  <1>7. \E x \in Part : /\ parts' = [parts EXCEPT ![t] = [parts[t] EXCEPT ![n] = x]]
                        /\ x.from = parts[t][n].from /\ x.to = parts[t][n].to
                        /\ x.ended => \/ aborted'[t]
                                      \/ ~aborted[t] /\ Store(t, n)
    <2>1. CASE UploadPart(t, n)
      <3> DEFINE x == [parts[t][n] EXCEPT !.ended = TRUE]
      <3>1. parts' = [parts EXCEPT ![t] = [parts[t] EXCEPT ![n] = x]]
        BY <2>1 DEF UploadPart
      <3>2. x \in Part /\ x.from = parts[t][n].from /\ x.to = parts[t][n].to
        BY <1>6 DEF Part
      <3> QED
        BY <2>1, <3>1, <3>2 DEF UploadPart
    <2>2. CASE PartFails(t, n) /\ GiveUp(t, n)
      <3> DEFINE x == [parts[t][n] EXCEPT !.ended = TRUE]
      <3>1. /\ parts' = [parts EXCEPT ![t] = [parts[t] EXCEPT ![n] = x]]
            /\ aborted'[t]
        BY <1>5, <2>2 DEF GiveUp, UploadTypes
      <3>2. x \in Part /\ x.from = parts[t][n].from /\ x.to = parts[t][n].to
        BY <1>6 DEF Part
      <3> QED
        BY <3>1, <3>2
    <2>3. CASE PartFails(t, n) /\ TryAgain(t, n)
      <3> DEFINE x == [parts[t][n] EXCEPT !.attempts = @ + 1]
      <3>1. /\ parts' = [parts EXCEPT ![t] = [parts[t] EXCEPT ![n] = x]]
            /\ parts[t][n].attempts < MaxRetries
        BY <2>3 DEF TryAgain
      <3>2. /\ x.attempts \in 1 .. MaxRetries /\ x.ended = parts[t][n].ended
            /\ x.from = parts[t][n].from /\ x.to = parts[t][n].to
        BY <1>6, <3>1, UploadSizes DEF Part
      <3>3. x \in Part
        BY <1>6, <3>2 DEF Part
      <3> QED
        BY <1>1, <3>1, <3>2, <3>3
    <2> QED
      BY <1>0, <2>1, <2>2, <2>3 DEF PartFails
  <1>8. PICK x \in Part : /\ parts' = [parts EXCEPT ![t] = [parts[t] EXCEPT ![n] = x]]
                          /\ x.from = parts[t][n].from /\ x.to = parts[t][n].to
                          /\ x.ended => \/ aborted'[t]
                                        \/ ~aborted[t] /\ Store(t, n)
    BY <1>7
  <1>9. /\ parts' \in [Tab -> Seq(Part)]
        /\ \A u \in Tab \ {t} : parts'[u] = parts[u]
        /\ DOMAIN parts'[t] = DOMAIN parts[t] /\ Len(parts'[t]) = Len(parts[t])
        /\ \A m \in DOMAIN parts[t] \ {n} : parts'[t][m] = parts[t][m]
        /\ parts'[t][n] = x
    <2>1. [parts[t] EXCEPT ![n] = x] \in Seq(Part)
      BY <1>5
    <2> QED
      BY <1>5, <1>8, <2>1 DEF UploadTypes
  <1>10. /\ \A m \in DOMAIN parts[t] : /\ Piece(t, m)' = Piece(t, m)
                                       /\ parts'[t][m].from = parts[t][m].from
                                       /\ parts'[t][m].to = parts[t][m].to
         /\ CutTo(t)' = CutTo(t) /\ (parts'[t] = <<>> <=> parts[t] = <<>>)
    <2>1. \A m \in DOMAIN parts[t] : /\ parts'[t][m].from = parts[t][m].from
                                     /\ parts'[t][m].to = parts[t][m].to
      BY <1>8, <1>9
    <2>2. parts[t] # <<>> => Len(parts[t]) \in DOMAIN parts[t]
      BY <1>5
    <2>3. parts'[t] = <<>> <=> parts[t] = <<>>
      BY <1>9
    <2>4. CutTo(t)' = CutTo(t)
      BY <1>9, <2>1, <2>2, <2>3 DEF CutTo, Last
    <2> QED
      BY <2>1, <2>3, <2>4 DEF Piece
  <1>11. /\ aborted' \in [Tab -> BOOLEAN]
         /\ \A u \in Tab \ {t} : aborted'[u] = aborted[u]
         /\ aborted[t] => aborted'[t]
    BY <1>0, <1>5 DEF UploadPart, PartFails, GiveUp, TryAgain, UploadTypes
  <1>12. /\ \A f \in File \ {This(t)} : uploads'[f] = uploads[f]
         /\ uploads'[This(t)].state = uploads[This(t)].state
         /\ \/ uploads' = uploads
            \/ uploads'[This(t)].parts =
                   {q \in uploads[This(t)].parts : q.n # n} \cup {Piece(t, n)}
         /\ Store(t, n) => uploads'[This(t)].parts =
                   {q \in uploads[This(t)].parts : q.n # n} \cup {Piece(t, n)}
         /\ uploads' = uploads \/ Store(t, n)
    <2>0. uploads' = uploads \/ Store(t, n)
      BY <1>0 DEF UploadPart, PartFails
    <2>1. CASE uploads' = uploads /\ ~Store(t, n)
      BY <2>1
    <2>2. CASE Store(t, n)
      BY <1>2, <2>2 DEF Store, Piece, UploadInv
    <2> QED
      BY <2>0, <2>1, <2>2
  <1>13. Piece(t, n) \in StoredPart
    BY <1>5, <1>6 DEF Piece, StoredPart, Part
  <1>14. Chain(parts[t], Len(parts[t]))'
    <2>1. \A i \in 1 .. Len(parts[t]) : i # 1 => i - 1 \in 1 .. Len(parts[t])
      BY <1>5
    <2>2. DOMAIN parts[t] = 1 .. Len(parts[t])
      BY <1>5
    <2>3. Chain(parts[t], Len(parts[t]))
      BY <1>2 DEF CutInv
    <2>4. \A i \in 1 .. Len(parts[t]) :
              /\ parts'[t][i].from = parts[t][i].from
              /\ parts'[t][i].to = parts[t][i].to
      BY <1>10, <2>2
    <2> QED
      BY <1>9, <2>1, <2>3, <2>4 DEF Chain
  <1>15. ASSUME NEW q \in uploads'[This(t)].parts
         PROVE  q.n \in DOMAIN parts'[t] /\ q = Piece(t, q.n)'
    <2>1. q \in uploads[This(t)].parts \/ q = Piece(t, n)
      BY <1>12
    <2>2. CASE q \in uploads[This(t)].parts
      BY <1>2, <1>9, <1>10, <2>2 DEF CutInv
    <2>3. CASE q = Piece(t, n)
      BY <1>9, <1>10, <2>3 DEF Piece
    <2> QED
      BY <2>1, <2>2, <2>3
  <1>16. ASSUME ~aborted'[t], NEW m \in DOMAIN parts'[t], parts'[t][m].ended
         PROVE  Piece(t, m)' \in uploads'[This(t)].parts
    <2>1. CASE m = n
      <3>1. Store(t, n)
        BY <1>8, <1>9, <1>16, <2>1
      <3> QED
        BY <1>10, <1>12, <2>1, <3>1
    <2>2. CASE m # n
      <3>1. Piece(t, m) \in uploads[This(t)].parts
        BY <1>2, <1>9, <1>11, <1>16, <2>2 DEF CutInv
      <3>2. Piece(t, m).n = m
        BY DEF Piece
      <3> QED
        BY <1>9, <1>10, <1>12, <1>16, <2>2, <3>1, <3>2
    <2> QED
      BY <2>1, <2>2
  <1>17. CutInv(t)'
    <2>1. phase[t] # "complete"
      BY <1>1
    <2> QED
      BY <1>2, <1>3, <1>4, <1>10, <1>12, <1>14, <1>15, <1>16, <2>1 DEF CutInv
  <1>18. Apart(t)
    <2>1. uploads[This(t)].state # "completed"
      BY <1>2 DEF CutInv
    <2> QED
      BY <1>2, <1>3, <1>9, <1>11, <1>12, <2>1 DEF Apart
  <1>19. UploadTypes'
    <2>1. ASSUME NEW f \in File PROVE uploads'[f].parts \subseteq StoredPart
      <3>1. CASE f = This(t)
        BY <1>5, <1>12, <1>13, <3>1 DEF UploadTypes
      <3>2. CASE f # This(t)
        BY <1>5, <1>12, <3>2 DEF UploadTypes
      <3> QED
        BY <3>1, <3>2
    <2> QED
      BY <1>3, <1>5, <1>9, <1>11, <2>1 DEF UploadTypes
  <1>20. Untouched(t)'
    BY <1>1, <1>3, <1>18, RestUntouched
  <1>21. ASSUME NEW f \in File, Whole(f) PROVE Whole(f)'
    BY <1>3, <1>18, <1>21, WholeStays DEF Apart
  <1>22. phase'[t] \notin After
    BY <1>1, <1>3 DEF After
  <1> QED
    BY <1>3, <1>17, <1>18, <1>19, <1>20, <1>21, <1>22, WholeGoesOn

\* No part of a chain ends after the last one.
LEMMA ChainGrows ==
    ASSUME NEW k \in Nat, NEW ps, Chain(ps, k), NEW m \in 1 .. k
    PROVE  ps[m].to <= ps[k].to
  <1> DEFINE Wrong == {i \in m .. k : ps[i].to < ps[m].to}
  <1>1. Wrong = {}
    <2> SUFFICES ASSUME Wrong # {} PROVE FALSE
      OBVIOUS
    <2>1. PICK i \in Wrong : \A j \in Wrong : i <= j
      <3>1. Wrong \in SUBSET Nat
        OBVIOUS
      <3> QED
        BY <3>1, Least
    <2>2. i \in m .. k /\ ps[i].to < ps[m].to
      OBVIOUS
    <2>3. ps[m].to \in Nat /\ i \in 1 .. k
      BY <2>2 DEF Chain
    <2>4. i # m
      BY <2>2, <2>3
    <2>5. i # 1 /\ i - 1 \in m .. k /\ i - 1 \in 1 .. k
      BY <2>2, <2>3, <2>4
    <2>6. i - 1 \notin Wrong
      BY <2>1, <2>2
    <2>7. ~(ps[i - 1].to < ps[m].to)
      BY <2>5, <2>6
    <2> QED
      BY <2>2, <2>3, <2>5, <2>7 DEF Chain
  <1>2. k \in m .. k
    OBVIOUS
  <1>3. ~(ps[k].to < ps[m].to)
    BY <1>1, <1>2
  <1>4. k \in 1 .. k /\ ps[k].to \in Nat /\ ps[m].to \in Nat
    BY DEF Chain
  <1> QED
    BY <1>3, <1>4

LEMMA CompletingKeepsWhole ==
    ASSUME UploadInv, WholeInv, NEW t \in Tab, CompleteMultipart(t)
    PROVE  WholeInv'
  <1> DEFINE f == This(t)
             k == Len(parts[t])
             ps == [n \in 1 .. k |-> Piece(t, n)]
  <1>1. /\ phase[t] = "complete" /\ phase[t] \in Working
        /\ uploads' = [uploads EXCEPT ![f].state = "completed"]
        /\ objects' = [objects EXCEPT ![Content[f]] =
                          FlattenSeq([i \in DOMAIN listParts(f) |->
                                          Units(listParts(f)[i])])]
        /\ UNCHANGED <<files, taken, parts, aborted, counted>>
    BY DEF CompleteMultipart, Working, phases, serverPhases
  <1>2. files[t] # <<>> /\ f \in File /\ CutInv(t)
    BY <1>1, AtWork DEF WholeInv, Cutting
  <1>3. f' = f
    BY <1>1 DEF This
  <1>4. /\ phase'[t] \in {"lookup", "delete"}
        /\ \A u \in Tab \ {t} : phase'[u] = phase[u]
    BY DEF CompleteMultipart, Goto, UploadInv
  <1>5. UploadTypes
    BY DEF WholeInv
  <1>6. /\ parts[t] \in Seq(Part) /\ k \in Nat \ {0} /\ DOMAIN parts[t] = 1 .. k
        /\ Chain(parts[t], k) /\ CutTo(t) = parts[t][k].to
        /\ parts[t][k].to = Size[f]
    <2>1. parts[t] \in Seq(Part) /\ parts[t] # <<>>
      BY <1>1, <1>2, <1>5 DEF CutInv, UploadTypes
    <2> QED
      BY <1>1, <1>2, <2>1 DEF CutInv, CutTo, Last
  <1>7. ~aborted[t] /\ \A n \in 1 .. k : parts[t][n].ended
    BY <1>1, <1>2, <1>6 DEF CutInv, AllEnded
  <1> HIDE DEF f, k
  <1>8. /\ \A n \in 1 .. k : ps[n].n = n /\ ps[n].from = parts[t][n].from
                             /\ ps[n].to = parts[t][n].to
        /\ \A n \in 1 .. k : ps[n] = Piece(t, n)
    BY DEF Piece
  <1> HIDE DEF ps
  <1>9. uploads[f].parts = Pieces(ps, k)
    <2>1. ASSUME NEW q \in uploads[f].parts PROVE q \in Pieces(ps, k)
      BY <1>2, <1>6, <1>8 DEF CutInv, Pieces, f
    <2>2. ASSUME NEW q \in Pieces(ps, k) PROVE q \in uploads[f].parts
      BY <1>2, <1>6, <1>7, <1>8 DEF CutInv, Pieces, f
    <2> QED
      BY <2>1, <2>2
  <1>10. Chain(ps, k)
    <2>1. \A i \in 1 .. k : i # 1 => i - 1 \in 1 .. k
      BY <1>6
    <2> QED
      BY <1>6, <1>8, <2>1 DEF Chain
  <1>11. PICK m \in 1 .. k :
            /\ FlattenSeq([i \in DOMAIN listParts(f) |-> Units(listParts(f)[i])])
                   = Upto(ps[m].to)
            /\ k <= PageSize => m = k
            /\ k > PageSize => TooManyParts(f)
    BY <1>6, <1>8, <1>9, <1>10, Completed
  <1>12. /\ ps[m].to = parts[t][m].to /\ parts[t][m].to \in Nat
         /\ parts[t][m].to <= Size[f] /\ Size[f] \in Nat
         /\ m = k => ps[m].to = Size[f]
    BY <1>2, <1>6, <1>8, ChainGrows, UploadSizes DEF Chain
  <1>13. /\ DOMAIN objects' = Range(Content) /\ Content[f] \in Range(Content)
         /\ objects'[Content[f]] = Upto(ps[m].to)
         /\ \A c \in Range(Content) \ {Content[f]} : objects'[c] = objects[c]
    <2>1. Content[f] \in Range(Content) /\ DOMAIN objects = Range(Content)
      BY <1>2, <1>5, UploadSizes DEF UploadTypes, Range
    <2> QED
      BY <1>1, <1>11, <2>1
  <1>14. /\ uploads'[f].state = "completed" /\ uploads'[f].parts = uploads[f].parts
         /\ \A g \in File \ {f} : uploads'[g] = uploads[g]
    BY <1>1, <1>2 DEF UploadInv
  <1>15. Apart(t)
    <2>1. uploads[f].state # "completed"
      BY <1>2 DEF CutInv, f
    <2> QED
      BY <1>1, <1>2, <1>4, <1>14, <2>1 DEF Apart, f
  <1>16. Whole(f)'
    <2>1. CASE k <= PageSize
      BY <1>3, <1>11, <1>12, <1>13, <2>1 DEF Whole
    <2>2. CASE ~(k <= PageSize)
      <3>1. TooManyParts(f)
        BY <1>6, <1>11, <2>2, UploadSizes
      <3>2. TooManyParts(f)'
        BY <1>3, <1>14, <3>1 DEF TooManyParts
      <3> QED
        BY <1>2, <1>3, <1>14, <3>2 DEF Whole
    <2> QED
      BY <2>1, <2>2
  <1>17. ASSUME NEW g \in File, Whole(g) PROVE Whole(g)'
    <2>1. CASE Content[g] = Content[f]
      BY <1>2, <1>3, <1>16, <2>1, UploadSizes DEF Whole
    <2>2. CASE Content[g] # Content[f]
      <3>1. Content[g] \in Range(Content)
        BY UploadSizes DEF Range
      <3> QED
        BY <1>13, <1>15, <1>17, <2>2, <3>1, WholeStays DEF Apart
    <2> QED
      BY <2>1, <2>2
  <1>18. UploadTypes'
    <2>1. ASSUME NEW g \in File PROVE uploads'[g].parts \subseteq StoredPart
      BY <1>5, <1>14 DEF UploadTypes
    <2>2. ASSUME NEW g \in File
          PROVE  objects'[Content[g]] \in {Upto(i) : i \in 0 .. Size[g]}
      <3>1. CASE Content[g] = Content[f]
        <4>1. Size[g] = Size[f]
          BY <1>2, <3>1, UploadSizes
        <4>2. ps[m].to \in 0 .. Size[g]
          BY <1>12, <4>1
        <4> QED
          BY <1>13, <3>1, <4>2
      <3>2. CASE Content[g] # Content[f]
        <4>1. Content[g] \in Range(Content)
          BY UploadSizes DEF Range
        <4> QED
          BY <1>5, <1>13, <3>2, <4>1 DEF UploadTypes
      <3> QED
        BY <3>1, <3>2
    <2> QED
      BY <1>1, <1>5, <1>13, <2>1, <2>2 DEF UploadTypes
  <1>19. Untouched(t)'
    BY <1>1, <1>4, <1>15, RestUntouched
  <1>20. phase'[t] \notin Cutting
    BY <1>4 DEF Cutting
  <1> QED
    BY <1>1, <1>2, <1>15, <1>16, <1>17, <1>18, <1>19, <1>20, WholeGoesOn DEF f

\* The other steps of the completion, and leaving the page.
LEMMA EndingKeepsWhole ==
    ASSUME UploadInv, WholeInv, NEW t \in Tab,
           \/ LookUpAttachment(t) \/ InsertAttachment(t) \/ DeleteTracked(t)
           \/ CompleteFails(t) \/ Leave(t)
    PROVE  WholeInv'
  <1>1. /\ phase[t] \in Working
        /\ phase'[t] \in After => phase[t] \in After
        /\ phase'[t] \notin Cutting \cup {"idle", "begin"}
        /\ \A u \in Tab \ {t} : phase'[u] = phase[u]
    BY DEF LookUpAttachment, InsertAttachment, DeleteTracked, CompleteFails,
           Leave, Goto, UploadInv, Working, After, Cutting, phases, serverPhases
  <1>2. UNCHANGED <<files, taken, parts, aborted, counted, uploads, objects>>
    BY DEF LookUpAttachment, InsertAttachment, DeleteTracked, CompleteFails, Leave
  <1>3. Apart(t) /\ UploadTypes'
    BY <1>1, <1>2 DEF Apart, WholeInv, UploadTypes
  <1>4. Untouched(t)'
    BY <1>1, <1>2, <1>3, RestUntouched
  <1>5. \A f : Whole(f) => Whole(f)'
    BY <1>2 DEF Whole, TooManyParts
  <1>6. phase'[t] \in After => files[t] # <<>> /\ Whole(This(t))'
    BY <1>1, <1>2, AtWork DEF WholeInv, Whole, TooManyParts, This
  <1> QED
    BY <1>1, <1>2, <1>3, <1>4, <1>5, <1>6, WholeGoesOn

\* Submitting the form, and beginning an upload.
LEMMA BeginningKeepsWhole ==
    ASSUME UploadInv, WholeInv, NEW t \in Tab, upload(t) \/ beginMultipartUpload(t)
    PROVE  WholeInv'
  <1>1. CASE upload(t)
    <2>1. /\ phase[t] = "idle" /\ phase'[t] \in {"begin", "done"}
          /\ \A u \in Tab \ {t} : phase'[u] = phase[u]
          /\ UNCHANGED <<files, taken, parts, aborted, counted, uploads, objects>>
      BY <1>1 DEF upload, Goto, UploadInv
    <2>2. Apart(t) /\ UploadTypes'
      BY <2>1 DEF Apart, WholeInv, UploadTypes
    <2>3. Untouched(t)'
      BY <2>1 DEF WholeInv, Untouched
    <2>4. \A f : Whole(f) => Whole(f)'
      BY <2>1 DEF Whole, TooManyParts
    <2> QED
      BY <2>1, <2>2, <2>3, <2>4, WholeGoesOn DEF Cutting, After
  <1>2. CASE beginMultipartUpload(t)
    <2>1. /\ phase[t] = "begin" /\ phase[t] \in Working /\ phase'[t] = "read"
          /\ \A u \in Tab \ {t} : phase'[u] = phase[u]
          /\ UNCHANGED <<files, counted, objects>>
      BY <1>2 DEF beginMultipartUpload, Goto, UploadInv, Working, phases
    <2>2. files[t] # <<>> /\ This(t) \in File /\ This(t)' = This(t)
          /\ This(t) = files[t][1] /\ 1 \in DOMAIN files[t]
      <3>1. files[t] # <<>> /\ This(t) \in File /\ files[t] \in Seq(File)
        BY <2>1, AtWork DEF UploadInv
      <3> QED
        BY <2>1, <3>1 DEF This
    <2>3. uploads[This(t)] = NoUpload
      BY <2>1, <2>2 DEF WholeInv, Untouched
    <2>4. /\ uploads'[This(t)].state = "open" /\ uploads'[This(t)].parts = {}
          /\ \A f \in File \ {This(t)} : uploads'[f] = uploads[f]
      BY <1>2, <2>2, <2>3 DEF beginMultipartUpload, UploadInv, NoUpload
    <2>5. UploadTypes
      BY DEF WholeInv
    <2>6. /\ parts' = [parts EXCEPT ![t] = <<>>] /\ taken' = [taken EXCEPT ![t] = 0]
          /\ aborted' = [aborted EXCEPT ![t] = FALSE]
      BY <1>2 DEF beginMultipartUpload
    <2>7. UploadTypes'
      <3>1. <<>> \in Seq(Part) /\ 0 \in Nat /\ FALSE \in BOOLEAN
        OBVIOUS
      <3>2. \A f \in File : uploads'[f].parts \subseteq StoredPart
        BY <2>4, <2>5 DEF UploadTypes
      <3> QED
        BY <2>1, <2>5, <2>6, <3>1, <3>2 DEF UploadTypes
    <2>8. Apart(t)
      <3>1. uploads[This(t)].state # "completed"
        BY <2>3 DEF NoUpload
      <3>2. \A u \in Tab \ {t} : parts'[u] = parts[u] /\ taken'[u] = taken[u]
                                 /\ aborted'[u] = aborted[u]
        BY <2>5, <2>6 DEF UploadTypes
      <3> QED
        BY <2>1, <2>2, <2>4, <3>1, <3>2 DEF Apart
    <2>9. CutInv(t)'
      <3>1. parts'[t] = <<>> /\ taken'[t] = 0
        BY <2>5, <2>6 DEF UploadTypes
      <3>2. Chain(parts[t], Len(parts[t]))'
        BY <3>1 DEF Chain
      <3>3. Size[This(t)] \in Nat
        BY <2>2, UploadSizes
      <3> QED
        BY <2>1, <2>2, <2>4, <3>1, <3>2, <3>3 DEF CutInv
    <2>10. Untouched(t)'
      BY <2>1, <2>8, RestUntouched
    <2>11. ASSUME NEW f \in File, Whole(f) PROVE Whole(f)'
      BY <2>1, <2>8, <2>11, WholeStays DEF Apart
    <2>12. phase'[t] \notin After
      BY <2>1 DEF After
    <2> QED
      BY <2>1, <2>7, <2>8, <2>9, <2>10, <2>11, <2>12, WholeGoesOn
  <1> QED
    BY <1>1, <1>2

\* Steps that count the file at hand.
LEMMA CountingKeepsWhole ==
    ASSUME UploadInv, WholeInv, NEW t \in Tab,
           \/ BeginFails(t) \/ CompleteAnswered(t)
           \/ abortUpload(t) \/ AbortFails(t)
    PROVE  WholeInv'
  <1>1. phase[t] \in Working
    BY DEF BeginFails, CompleteAnswered, abortUpload, AbortFails, Working,
           phases, serverPhases
  <1>2. /\ files[t] # <<>> /\ This(t) \in File
        /\ This(t) = files[t][1] /\ 1 \in DOMAIN files[t]
    <2>1. files[t] # <<>> /\ This(t) \in File /\ files[t] \in Seq(File)
      BY <1>1, AtWork DEF UploadInv
    <2> QED
      BY <2>1 DEF This
  <1>3. UNCHANGED <<taken, parts, aborted, objects>>
    BY DEF BeginFails, CompleteAnswered, abortUpload, AbortFails
  <1>4. \E verdict \in {"success", "failed"} :
            Count(t, verdict) /\ (verdict = "success" => Whole(This(t)))
    BY DEF BeginFails, CompleteAnswered, abortUpload, AbortFails, WholeInv, After
  <1>5. PICK verdict \in {"success", "failed"} :
            Count(t, verdict) /\ (verdict = "success" => Whole(This(t)))
    BY <1>4
  <1>6. /\ \A u \in Tab \ {t} : files'[u] = files[u] /\ phase'[u] = phase[u]
    BY <1>5 DEF Count, Goto, UploadInv
  <1>7. /\ \A f \in File \ {This(t)} : uploads'[f] = uploads[f]
        /\ uploads[This(t)].state = "completed" =>
               uploads'[This(t)] = uploads[This(t)]
        /\ uploads'[This(t)].parts \subseteq uploads[This(t)].parts
    <2>1. CASE BeginFails(t)
      <3>1. uploads[This(t)] = NoUpload
        BY <1>2, <2>1 DEF BeginFails, WholeInv, Untouched
      <3> QED
        BY <1>2, <2>1, <3>1 DEF BeginFails, UploadInv, NoUpload
    <2>2. CASE CompleteAnswered(t)
      BY <2>2 DEF CompleteAnswered
    <2>3. CASE abortUpload(t)
      BY <1>2, <2>3 DEF abortUpload, UploadInv
    <2>4. CASE AbortFails(t)
      BY <1>2, <2>4 DEF AbortFails, UploadInv
    <2> QED
      BY <2>1, <2>2, <2>3, <2>4
  <1>8. Apart(t)
    BY <1>2, <1>3, <1>6, <1>7 DEF Apart
  <1>9. UploadTypes'
    <2>1. UploadTypes
      BY DEF WholeInv
    <2>2. \A f \in File : uploads'[f].parts \subseteq StoredPart
      BY <1>7, <2>1 DEF UploadTypes
    <2> QED
      BY <1>3, <2>1, <2>2 DEF UploadTypes
  <1> QED
    BY <1>1, <1>3, <1>5, <1>8, <1>9, WholeCounts

LEMMA WholeSteps == UploadInv /\ WholeInv /\ [UploadNext]_uploadVars => WholeInv'
  <1> SUFFICES ASSUME UploadInv, WholeInv, [UploadNext]_uploadVars PROVE WholeInv'
    OBVIOUS
  <1>1. CASE UploadNext
    BY <1>1, ReadingKeepsWhole, SendingKeepsWhole, CompletingKeepsWhole,
       EndingKeepsWhole, BeginningKeepsWhole, CountingKeepsWhole
       DEF UploadNext, UploadStep
  <1>2. CASE UNCHANGED uploadVars
    <2>1. UNCHANGED <<files, phase, taken, parts, aborted, counted, uploads, objects>>
      BY <1>2 DEF uploadVars
    <2>2. \A f : Whole(f) => Whole(f)'
      BY <2>1 DEF Whole, TooManyParts
    <2>3. UploadTypes'
      BY <2>1 DEF UploadTypes, WholeInv
    <2>4. \A t \in Tab : /\ Untouched(t)'
                         /\ (phase[t] \in After => Whole(This(t)))'
      BY <2>1, <2>2 DEF Untouched, WholeInv, This, Whole, TooManyParts
    <2>5. ASSUME NEW t \in Tab, phase'[t] \in Cutting PROVE CutInv(t)'
      <3>1. CutInv(t)
        BY <2>1, <2>5 DEF WholeInv
      <3>2. This(t)' = This(t) /\ CutTo(t)' = CutTo(t) /\ AllEnded(t)' = AllEnded(t)
            /\ \A n : Piece(t, n)' = Piece(t, n)
        BY <2>1 DEF This, CutTo, AllEnded, Piece
      <3> QED
        BY <2>1, <3>1, <3>2 DEF CutInv
    <2> QED
      BY <2>1, <2>2, <2>3, <2>4, <2>5 DEF WholeInv
  <1> QED
    BY <1>1, <1>2

LEMMA WholeStarts == UploadInit => WholeInv
  <1> SUFFICES ASSUME UploadInit PROVE WholeInv
    OBVIOUS
  <1>1. UploadTypes
    <2>1. parts \in [Tab -> Seq(Part)] /\ taken \in [Tab -> Nat]
          /\ aborted \in [Tab -> BOOLEAN] /\ DOMAIN objects = Range(Content)
      BY DEF UploadInit
    <2>2. \A f \in File : uploads[f].parts \subseteq StoredPart
      BY DEF UploadInit, NoUpload
    <2>3. ASSUME NEW f \in File
          PROVE  objects[Content[f]] \in {Upto(m) : m \in 0 .. Size[f]}
      <3>1. Content[f] \in Range(Content)
        BY UploadSizes DEF Range
      <3>2. objects[Content[f]] = <<>>
        BY <3>1 DEF UploadInit
      <3>3. <<>> = Upto(0)
        BY DEF Upto
      <3>4. 0 \in 0 .. Size[f]
        BY UploadSizes
      <3> QED
        BY <3>2, <3>3, <3>4
    <2> QED
      BY <2>1, <2>2, <2>3 DEF UploadTypes
  <1>2. \A t \in Tab : phase[t] = "idle"
    BY DEF UploadInit
  <1>3. ASSUME NEW t \in Tab PROVE Untouched(t)
    <2>1. \A i \in DOMAIN files[t] : files[t][i] \in File
      BY SelectionIsSound DEF UploadInit
    <2> QED
      BY <2>1 DEF Untouched, UploadInit
  <1>4. \A f \in File : counted[f] = "no"
    BY DEF UploadInit
  <1> QED
    BY <1>1, <1>2, <1>3, <1>4 DEF WholeInv, Cutting, After

\* A file the page counts as uploaded is complete at S3: its object is all of
\* the file in order, unless it has more parts than one answer of ListParts.
THEOREM CountedFilesAreWhole == Spec => []CountedIsWhole
  <1>1. Init => UploadInv /\ WholeInv
    BY UploadStarts, WholeStarts DEF Init
  <1>2. UploadInv /\ WholeInv /\ [Next]_browserVars => (UploadInv /\ WholeInv)'
    <2> SUFFICES ASSUME UploadInv, WholeInv, [Next]_browserVars
                 PROVE  UploadInv' /\ WholeInv'
      OBVIOUS
    <2>1. [UploadNext]_uploadVars
      BY DEF Next, browserVars, NextUpload, NextSecurity, NextTags,
             NextFavourite, NextTimelog, NextPasskeys
    <2> QED
      BY <2>1, UploadSteps, WholeSteps
  <1>3. UploadInv /\ WholeInv => CountedIsWhole
    BY DEF WholeInv, Whole, Upto, CountedIsWhole
  <1> QED
    BY <1>1, <1>2, <1>3, PTL DEF Spec

------------------------------------------------------------------------------
(* The second factor: the stored secret is on the phone.  What a handler    *)
(* writes it has read before, so the rows that handlers hold have to be as  *)
(* usable as the stored one.                                                *)

SecurityOps == {"qr", "confirm", "disable", "save"}
Row == [is_mfa_enabled : BOOLEAN, mfa_secret : Nat]
SecurityRequest ==
    [id : Nat \ {0}, page : Page, op : SecurityOps, arg : Nat,
     at : {"sent", "loaded", "done", "failed"}, seen : SUBSET Row]

Usable(row) == row.is_mfa_enabled => row.mfa_secret \in phone \/ renewed

SecurityInv ==
    /\ left \in Nat
    /\ phone \subseteq Nat \ {0}
    /\ renewed \in BOOLEAN
    /\ user \in Row
    /\ mfaPage \in [Page -> [mfa_enabled : BOOLEAN, qr : Nat]]
    /\ requests \subseteq SecurityRequest
    /\ \A r \in requests : r.op = "confirm" => r.arg \in phone
    /\ \A r \in requests : r.at = "loaded" =>
           \E row \in Row : r.seen = {row} /\ Usable(row)
    /\ Usable(user)

LEMMA RowOfLoaded ==
    ASSUME SecurityInv, NEW r \in requests, r.at = "loaded"
    PROVE  RowOf(r) \in Row /\ Usable(RowOf(r))
  <1>1. PICK row \in Row : r.seen = {row} /\ Usable(row)
    BY DEF SecurityInv
  <1>2. RowOf(r) = row
    BY <1>1 DEF RowOf
  <1> QED
    BY <1>1, <1>2

\* A request goes on, and a usable row may have been written.
LEMMA RequestGoesOn ==
    ASSUME SecurityInv, NEW r \in requests,
           NEW at \in {"sent", "done", "failed"}, Move(r, at, {}),
           user' \in Row, Usable(user)', phone' = phone,
           renewed' \in BOOLEAN, renewed => renewed', UNCHANGED mfaPage
    PROVE  SecurityInv'
  <1> DEFINE new == [r EXCEPT !.at = at, !.seen = {}]
  <1>1. r \in SecurityRequest
    BY DEF SecurityInv
  <1>2. new \in SecurityRequest /\ new.at = at /\ new.op = r.op
        /\ new.arg = r.arg
    BY <1>1 DEF SecurityRequest
  <1>3. requests' = (requests \ {r}) \cup {new} /\ left' = left
    BY DEF Move
  <1>4. ASSUME NEW row, Usable(row) PROVE Usable(row)'
    BY <1>4 DEF Usable
  <1>5. ASSUME NEW q \in requests', q.at = "loaded"
        PROVE  \E row \in Row : q.seen = {row} /\ Usable(row)'
    <2>1. q \in requests
      BY <1>2, <1>3, <1>5
    <2>2. PICK row \in Row : q.seen = {row} /\ Usable(row)
      BY <1>5, <2>1 DEF SecurityInv
    <2> QED
      BY <1>4, <2>2
  <1>6. ASSUME NEW q \in requests', q.op = "confirm" PROVE q.arg \in phone'
    BY <1>2, <1>3, <1>6 DEF SecurityInv
  <1> HIDE DEF new
  <1> QED
    BY <1>2, <1>3, <1>5, <1>6 DEF SecurityInv

LEMMA HandlersKeepUsable ==
    ASSUME SecurityInv, NEW r \in requests,
           \/ ajax_get_mfa_qr_code(r) \/ ajax_confirm_mfa_code(r)
           \/ ajax_disable_mfa(r) \/ WriteOtherColumns(r)
    PROVE  SecurityInv'
  <1>1. /\ r \in SecurityRequest /\ r.at = "loaded" /\ r.id \in Nat \ {0}
        /\ user \in Row /\ Usable(user) /\ renewed \in BOOLEAN
        /\ phone \subseteq Nat \ {0}
    BY DEF SecurityInv, SecurityRequest, Writing, ajax_get_mfa_qr_code,
           ajax_confirm_mfa_code, ajax_disable_mfa, WriteOtherColumns
  <1>2. RowOf(r) \in Row /\ Usable(RowOf(r))
    BY <1>1, RowOfLoaded
  <1>3. CASE ajax_get_mfa_qr_code(r)
    <2>1. /\ user' = [RowOf(r) EXCEPT !.mfa_secret = r.id]
          /\ renewed' = (renewed \/ user.is_mfa_enabled
                                 \/ RowOf(r).is_mfa_enabled)
          /\ phone' = phone /\ UNCHANGED mfaPage /\ Move(r, "done", {})
      BY <1>3 DEF ajax_get_mfa_qr_code, WriteUser, Secret
    <2>2. /\ user' \in Row
          /\ user'.is_mfa_enabled = RowOf(r).is_mfa_enabled
      BY <1>1, <1>2, <2>1 DEF Row
    <2>3. renewed' \in BOOLEAN /\ (renewed => renewed') /\ Usable(user)'
      BY <1>1, <1>2, <2>1, <2>2 DEF Row, Usable
    <2> QED
      BY <2>1, <2>2, <2>3, RequestGoesOn
  <1>4. CASE ajax_confirm_mfa_code(r)
    <2>0. UNCHANGED <<mfaPage, phone, renewed>>
      BY <1>4 DEF ajax_confirm_mfa_code
    <2>1. CASE r.arg = RowOf(r).mfa_secret
      <3>1. /\ r.op = "confirm" /\ Move(r, "done", {})
            /\ user' = [RowOf(r) EXCEPT !.is_mfa_enabled = TRUE]
        BY <1>4, <2>1 DEF ajax_confirm_mfa_code, WriteUser, Writing
      <3>2. r.arg \in phone
        BY <3>1 DEF SecurityInv
      <3>3. user' \in Row /\ user'.mfa_secret = r.arg
        BY <1>2, <2>1, <3>1 DEF Row
      <3>4. Usable(user)'
        BY <2>0, <3>2, <3>3 DEF Usable
      <3> QED
        BY <1>1, <2>0, <3>1, <3>3, <3>4, RequestGoesOn
    <2>2. CASE r.arg # RowOf(r).mfa_secret
      <3>1. Move(r, "failed", {}) /\ UNCHANGED user
        BY <1>4, <2>2 DEF ajax_confirm_mfa_code
      <3>2. user' \in Row /\ Usable(user)'
        BY <1>1, <2>0, <3>1 DEF Usable
      <3> QED
        BY <1>1, <2>0, <3>1, <3>2, RequestGoesOn
    <2> QED
      BY <2>1, <2>2
  <1>5. CASE ajax_disable_mfa(r)
    <2>1. /\ user' = [is_mfa_enabled |-> FALSE, mfa_secret |-> 0]
          /\ UNCHANGED <<mfaPage, phone, renewed>> /\ Move(r, "done", {})
      BY <1>5 DEF ajax_disable_mfa, WriteUser
    <2>2. user' \in Row /\ Usable(user)'
      BY <2>1 DEF Row, Usable
    <2> QED
      BY <1>1, <2>1, <2>2, RequestGoesOn
  <1>6. CASE WriteOtherColumns(r)
    <2>1. /\ user' = SaveRow(RowOf(r))
          /\ UNCHANGED <<mfaPage, phone, renewed>> /\ Move(r, "done", {})
      BY <1>6 DEF WriteOtherColumns, WriteUser
    <2>2. /\ user' \in Row
          /\ user'.is_mfa_enabled = RowOf(r).is_mfa_enabled
          /\ RowOf(r).mfa_secret # 0 =>
                 user'.mfa_secret = RowOf(r).mfa_secret
      BY <1>1, <1>2, <2>1 DEF SaveRow, Row
    <2>3. Usable(user)'
      BY <1>1, <1>2, <2>1, <2>2 DEF Usable
    <2> QED
      BY <1>1, <2>1, <2>2, <2>3, RequestGoesOn
  <1> QED
    BY <1>3, <1>4, <1>5, <1>6

\* The row as it is when a handler reads it is as usable as the stored one.
LEMMA LoadKeepsUsable ==
    ASSUME SecurityInv, NEW r \in requests, LoadUser(r)
    PROVE  SecurityInv'
  <1> DEFINE new == [r EXCEPT !.at = "loaded", !.seen = {user}]
  <1>1. r \in SecurityRequest /\ user \in Row /\ Usable(user)
    BY DEF SecurityInv
  <1>2. new \in SecurityRequest /\ new.op = r.op /\ new.arg = r.arg
        /\ new.seen = {user}
    BY <1>1 DEF SecurityRequest
  <1>3. /\ requests' = (requests \ {r}) \cup {new}
        /\ left' = left /\ UNCHANGED securityVars
    BY DEF LoadUser, Load, Move
  <1> HIDE DEF new
  <1>4. ASSUME NEW row, Usable(row) PROVE Usable(row)'
    BY <1>3, <1>4 DEF Usable, securityVars
  <1>5. ASSUME NEW q \in requests', q.at = "loaded"
        PROVE  \E row \in Row : q.seen = {row} /\ Usable(row)'
    <2>1. CASE q = new
      BY <1>1, <1>2, <1>4, <2>1
    <2>2. CASE q \in requests
      <3>1. PICK row \in Row : q.seen = {row} /\ Usable(row)
        BY <1>5, <2>2 DEF SecurityInv
      <3> QED
        BY <1>4, <3>1
    <2> QED
      BY <1>3, <2>1, <2>2
  <1>6. ASSUME NEW q \in requests', q.op = "confirm" PROVE q.arg \in phone'
    BY <1>2, <1>3, <1>6 DEF SecurityInv, securityVars
  <1>7. Usable(user)'
    BY <1>1, <1>3 DEF Usable, securityVars
  <1> QED
    BY <1>2, <1>3, <1>5, <1>6, <1>7 DEF SecurityInv, securityVars

\* A page sends a request; what it confirms the phone says.
LEMMA SendKeepsUsable ==
    ASSUME SecurityInv, NEW p \in Page, NEW op \in SecurityOps,
           NEW arg \in Nat, Send(p, op, arg), UNCHANGED <<user, mfaPage, renewed>>,
           phone \subseteq phone', phone' \subseteq Nat \ {0},
           op = "confirm" => arg \in phone'
    PROVE  SecurityInv'
  <1> DEFINE new == Request(left, p, op, arg)
  <1>1. left \in Nat /\ left > 0 /\ left' = left - 1
        /\ requests' = requests \cup {new}
    BY DEF Send, SecurityInv
  <1>2. /\ new \in SecurityRequest /\ new.at = "sent"
        /\ new.op = op /\ new.arg = arg
    BY <1>1 DEF Request, SecurityRequest, Row
  <1> HIDE DEF new
  <1>3. ASSUME NEW row, Usable(row) PROVE Usable(row)'
    BY <1>3 DEF Usable
  <1>4. ASSUME NEW q \in requests', q.at = "loaded"
        PROVE  \E row \in Row : q.seen = {row} /\ Usable(row)'
    <2>1. q \in requests
      BY <1>1, <1>2, <1>4
    <2>2. PICK row \in Row : q.seen = {row} /\ Usable(row)
      BY <1>4, <2>1 DEF SecurityInv
    <2> QED
      BY <1>3, <2>2
  <1>5. ASSUME NEW q \in requests', q.op = "confirm" PROVE q.arg \in phone'
    <2>1. CASE q = new
      BY <1>2, <1>5, <2>1
    <2>2. CASE q \in requests
      BY <1>5, <2>2 DEF SecurityInv
    <2> QED
      BY <1>1, <2>1, <2>2
  <1>6. Usable(user)'
    BY DEF SecurityInv, Usable
  <1> QED
    BY <1>1, <1>2, <1>4, <1>5, <1>6 DEF SecurityInv

LEMMA PageStepsKeepUsable ==
    ASSUME SecurityInv, NEW p \in Page,
           \/ getMfaCode(p) \/ confirmMfaCode(p) \/ disableMfa(p)
           \/ saveUser(p) \/ openSecurityPage(p)
    PROVE  SecurityInv'
  <1>1. phone \subseteq Nat \ {0} /\ user \in Row
        /\ mfaPage \in [Page -> [mfa_enabled : BOOLEAN, qr : Nat]]
    BY DEF SecurityInv
  <1>2. CASE getMfaCode(p)
    BY <1>1, <1>2, SendKeepsUsable DEF getMfaCode, securityVars, SecurityOps
  <1>3. CASE saveUser(p)
    BY <1>1, <1>3, SendKeepsUsable DEF saveUser, securityVars, SecurityOps
  <1>4. CASE disableMfa(p)
    BY <1>1, <1>4, SendKeepsUsable DEF disableMfa, Decide, SecurityOps
  <1>5. CASE confirmMfaCode(p)
    <2>1. mfaPage[p].qr \in Nat \ {0} /\ phone' = phone \cup {mfaPage[p].qr}
      BY <1>1, <1>5 DEF confirmMfaCode
    <2>2. PICK code \in phone' : Decide(p, "confirm", code)
      BY <1>5 DEF confirmMfaCode
    <2> QED
      BY <1>1, <2>1, <2>2, SendKeepsUsable DEF Decide, SecurityOps
  <1>6. CASE openSecurityPage(p)
    <2>1. /\ UNCHANGED <<user, phone, renewed, requests, left>>
          /\ mfaPage' = [mfaPage EXCEPT ![p] =
                            [mfa_enabled |-> user.is_mfa_enabled, qr |-> 0]]
      BY <1>6 DEF openSecurityPage, Reload
    <2>2. mfaPage' \in [Page -> [mfa_enabled : BOOLEAN, qr : Nat]]
      BY <1>1, <2>1 DEF Row
    <2> QED
      BY <2>1, <2>2 DEF SecurityInv, Usable
  <1> QED
    BY <1>2, <1>3, <1>4, <1>5, <1>6

\* An answer arrives or is lost.
LEMMA AnswersKeepUsable ==
    ASSUME SecurityInv, NEW r \in requests, MfaAnswered(r) \/ MfaLost(r)
    PROVE  SecurityInv'
  <1>1. /\ requests' = requests \ {r}
        /\ UNCHANGED <<user, phone, renewed, left>>
    BY DEF MfaAnswered, MfaLost, Answered, Lose, securityVars
  <1>2. r \in SecurityRequest /\ r.page \in Page
        /\ mfaPage \in [Page -> [mfa_enabled : BOOLEAN, qr : Nat]]
    BY DEF SecurityInv, SecurityRequest
  <1>3. AfterAnswer(r) \in [mfa_enabled : BOOLEAN, qr : Nat]
    <2>1. mfaPage[r.page] \in [mfa_enabled : BOOLEAN, qr : Nat]
          /\ r.id \in Nat
      BY <1>2 DEF SecurityRequest
    <2> QED
      BY <2>1 DEF AfterAnswer, Secret
  <1>4. mfaPage' \in [Page -> [mfa_enabled : BOOLEAN, qr : Nat]]
    BY <1>2, <1>3 DEF MfaAnswered, MfaLost, securityVars
  <1> QED
    BY <1>1, <1>4 DEF SecurityInv, Usable

LEMMA SecuritySteps == SecurityInv /\ SecurityNext => SecurityInv'
  BY PageStepsKeepUsable, LoadKeepsUsable, HandlersKeepUsable,
     AnswersKeepUsable DEF SecurityNext

\* On the pages of other kinds the row of the user rests.
FactorInv == IF kind = "security" THEN SecurityInv
             ELSE user.is_mfa_enabled = FALSE

\* While MFA is on, the phone holds the stored secret, unless that was renewed
\* while MFA was on: for any pages, sessions and requests, whichever handlers
\* of theirs read and write the row between one another.
THEOREM SecretIsOnPhone == Spec => []StoredSecretIsOnPhone
  <1>1. Init => FactorInv
    <2> SUFFICES ASSUME Init PROVE FactorInv
      OBVIOUS
    <2>1. PICK o \in Openings : kind = o.kind /\ RequestsInit(o.pages, o.requests)
      BY DEF Init
    <2>2. o.requests \in Nat
      BY OpeningsAreKinds, RequestBound
    <2>3. left \in Nat /\ requests = {}
      BY <2>1, <2>2 DEF RequestsInit
    <2> QED
      BY <2>3 DEF Init, SecurityInit, FactorInv, SecurityInv, Row, Usable
  <1>2. FactorInv /\ [Next]_browserVars => FactorInv'
    <2> SUFFICES ASSUME FactorInv, [Next]_browserVars PROVE FactorInv'
      OBVIOUS
    <2>1. UNCHANGED kind
      BY DEF Next, browserVars, NextUpload, NextSecurity, NextTags,
             NextFavourite, NextTimelog, NextPasskeys
    <2>2. CASE NextSecurity
      BY <2>1, <2>2, SecuritySteps DEF NextSecurity, FactorInv
    <2>3. CASE kind # "security" /\ UNCHANGED user
      BY <2>1, <2>3 DEF FactorInv
    <2>4. CASE UNCHANGED browserVars
      BY <2>1, <2>4 DEF FactorInv, SecurityInv, Usable, browserVars,
                        requestVars, securityVars
    <2> QED
      BY <2>2, <2>3, <2>4
         DEF Next, NextUpload, NextTags, NextFavourite, NextTimelog,
             NextPasskeys, securityVars
  <1>3. FactorInv => StoredSecretIsOnPhone
    BY DEF FactorInv, SecurityInv, Usable, StoredSecretIsOnPhone
  <1> QED
    BY <1>1, <1>2, <1>3, PTL DEF Spec
==============================================================================
