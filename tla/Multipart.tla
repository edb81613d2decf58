------------------------------ MODULE Multipart ------------------------------
(***************************************************************************)
(* The page that uploads large files to S3 in parts (multipart.ts and      *)
(* MultipartUploaderComponent.vue) and the handlers behind it              *)
(* (ajax_multipart, ajax_part, ajax_done, FileMultipartUploadService).     *)
(*                                                                         *)
(* A tab uploads its files one after the other: it begins an upload, cuts  *)
(* the stream of the file into parts, sends the parts with retries, a few  *)
(* at a time, and completes the upload, or aborts it when something        *)
(* failed.  A file is a number of units (bytes), a part an interval of     *)
(* them.  Files with the same content have the same MD5, which is their    *)
(* key at S3.  Tabs are of different sessions; the requests of one tab     *)
(* that a handler could mix up follow one another anyway.                  *)
(***************************************************************************)
EXTENDS Integers, Sequences, FiniteSets, SequencesExt, FiniteSetsExt

CONSTANTS
    Tab,        \* pages that upload
    File,       \* files chosen on them; a file is chosen once
    Size,       \* [File -> units]
    Content,    \* [File -> content]
    ParentOf,   \* [File -> object the file is for, or "none"]
    Selection,  \* what may be chosen: a set of [Tab -> Seq(File)]
    Chunk,      \* CHUNK_SIZE, in units
    MaxRead,    \* the most units the stream of a file yields at once
    Parallel,   \* parts sent before the page first waits for them
    MaxRetries, \* MAX_RETRIES
    PageSize    \* parts in one answer of ListParts

\* No file is chosen twice, on one page or on two.
ChosenOnce(s) ==
    \A t, u \in Tab : \A i \in DOMAIN s[t], j \in DOMAIN s[u] :
        s[t][i] = s[u][j] => t = u /\ i = j

ASSUME TabsAreFinite == IsFiniteSet(Tab)
ASSUME UploadSizes ==
    /\ Size \in [File -> Nat \ {0}]
    /\ DOMAIN Content = File /\ DOMAIN ParentOf = File
    /\ \A f, g \in File : Content[f] = Content[g] => Size[f] = Size[g]
    /\ {Chunk, MaxRead, Parallel, MaxRetries, PageSize} \subseteq Nat \ {0}
ASSUME SelectionIsSound ==
    /\ Selection \subseteq [Tab -> Seq(File)]
    /\ \A s \in Selection : ChosenOnce(s)

VARIABLES
    files,       \* [Tab -> Seq(File)]: chosen and not yet counted
    phase,       \* [Tab -> where upload() is with the first of them]
    taken,       \* [Tab -> units the stream has yielded]
    parts,       \* [Tab -> sequence of parts handed to doPartWithRetry]
    aborted,     \* [Tab -> abortController.signal.aborted]
    counted,     \* [File -> "no", "success" or "failed"]
    uploads,     \* [File -> the upload at S3: its state and its parts]
    tracked,     \* [File -> its row FileS3Object: "none", "there", "deleted"]
    objects,     \* [content -> units of the object at S3]
    attachments, \* rows Attachment, each [file, parent]
    troubled     \* history: files for which a call around the parts failed

uploadVars == <<files, phase, taken, parts, aborted, counted, uploads,
                tracked, objects, attachments, troubled>>

serverPhases == {"complete", "lookup", "insert", "delete", "answer"}
phases == {"idle", "begin", "read", "wait", "join", "abort", "done", "left"}
              \cup serverPhases

NoUpload == [state |-> "none", parts |-> {}]

UploadTypeOK ==
    /\ files \in [Tab -> Seq(File)]
    /\ phase \in [Tab -> phases]
    /\ taken \in [Tab -> Nat]
    /\ \A t \in Tab : \A n \in DOMAIN parts[t] :
           parts[t][n] \in [from : Nat, to : Nat, attempts : 1 .. MaxRetries,
                            ended : BOOLEAN]
    /\ aborted \in [Tab -> BOOLEAN]
    /\ counted \in [File -> {"no", "success", "failed"}]
    /\ \A f \in File :
           /\ uploads[f].state \in {"none", "open", "completed", "aborted"}
           /\ \A p \in uploads[f].parts : p \in [n : Nat, from : Nat, to : Nat]
    /\ tracked \in [File -> {"none", "there", "deleted"}]
    /\ \A f \in File : objects[Content[f]] \in Seq(1 .. Size[f])
    /\ attachments \subseteq [file : File, parent : Range(ParentOf)]
    /\ troubled \subseteq File

UploadInit ==
    /\ files \in Selection
    /\ phase = [t \in Tab |-> "idle"]
    /\ taken = [t \in Tab |-> 0]
    /\ parts = [t \in Tab |-> <<>>]
    /\ aborted = [t \in Tab |-> FALSE]
    /\ counted = [f \in File |-> "no"]
    /\ uploads = [f \in File |-> NoUpload]
    /\ tracked = [f \in File |-> "none"]
    /\ objects = [c \in Range(Content) |-> <<>>]
    /\ attachments = {}
    /\ troubled = {}

\* The file upload() is working on.
This(t) == Head(files[t])

Goto(t, p) == phase' = [phase EXCEPT ![t] = p]

\* All promises of doPartWithRetry are resolved; none is ever rejected.
AllEnded(t) == \A n \in DOMAIN parts[t] : parts[t][n].ended

------------------------------------------------------------------------------
(* The loop over the files. *)

\* Submitting the form; files without content are filtered out before.
upload(t) ==
    /\ phase[t] = "idle"
    /\ Goto(t, IF files[t] = <<>> THEN "done" ELSE "begin")
    /\ UNCHANGED <<files, taken, parts, aborted, counted, uploads, tracked,
                   objects, attachments, troubled>>

\* The end of one round of the loop, and with no file left of upload().
Count(t, verdict) ==
    /\ counted' = [counted EXCEPT ![This(t)] = verdict]
    /\ files' = [files EXCEPT ![t] = Tail(@)]
    /\ Goto(t, IF Len(files[t]) = 1 THEN "done" ELSE "begin")

\* The page is closed or reloaded.  Nothing at the server notices.
Leave(t) ==
    /\ phase[t] \notin {"idle", "done", "left"}
    /\ Goto(t, "left")
    /\ UNCHANGED <<files, taken, parts, aborted, counted, uploads, tracked,
                   objects, attachments, troubled>>

------------------------------------------------------------------------------
(* beginMultipartUpload and ajax_multipart_POST. *)

beginMultipartUpload(t) ==
    /\ phase[t] = "begin"
    /\ uploads' = [uploads EXCEPT ![This(t)].state = "open"]
    /\ tracked' = [tracked EXCEPT ![This(t)] = "there"]
    /\ taken' = [taken EXCEPT ![t] = 0]
    /\ parts' = [parts EXCEPT ![t] = <<>>]
    /\ aborted' = [aborted EXCEPT ![t] = FALSE]
    /\ Goto(t, "read")
    /\ UNCHANGED <<files, counted, objects, attachments, troubled>>

\* No id comes back: S3 refuses, or the row is not inserted, or the answer is
\* lost.  Without an id the page has nothing to abort.  (After an answer that
\* has no id it first tries to send the parts, which fails just the same.)
BeginFails(t) ==
    /\ phase[t] = "begin"
    /\ \/ UNCHANGED <<uploads, tracked>>
       \/ /\ uploads' = [uploads EXCEPT ![This(t)].state = "open"]
          /\ UNCHANGED tracked
       \/ /\ uploads' = [uploads EXCEPT ![This(t)].state = "open"]
          /\ tracked' = [tracked EXCEPT ![This(t)] = "there"]
    /\ troubled' = troubled \cup {This(t)}
    /\ Count(t, "failed")
    /\ UNCHANGED <<taken, parts, aborted, objects, attachments>>

------------------------------------------------------------------------------
(* uploadParts. *)

\* The unit up to which the file is cut into parts.
CutTo(t) == IF parts[t] = <<>> THEN 0 ELSE Last(parts[t]).to

\* doPartWithRetry returns at once when the upload is aborted.
NewPart(t, to) == [from |-> CutTo(t) + 1, to |-> to, attempts |-> 1,
                   ended |-> aborted[t]]

\* The stream yields k more units.  What was buffered before them is cut if
\* it is longer than a chunk, and after enough parts the page waits for all.
ReadChunk(t) ==
    /\ phase[t] = "read"
    /\ ~aborted[t]
    /\ \E k \in 1 .. MaxRead :
           /\ taken[t] + k <= Size[This(t)]
           /\ taken' = [taken EXCEPT ![t] = @ + k]
    /\ IF taken[t] - CutTo(t) > Chunk
       THEN /\ parts' = [parts EXCEPT ![t] =
                            Append(@, NewPart(t, CutTo(t) + Chunk))]
            /\ Goto(t, IF Len(parts[t]) + 1 > Parallel THEN "wait" ELSE "read")
       ELSE UNCHANGED <<parts, phase>>
    /\ UNCHANGED <<files, aborted, counted, uploads, tracked, objects,
                   attachments, troubled>>

\* The loop is left by the throw for an aborted upload, or because the file
\* cannot be read on.  Parts that are under way then go on by themselves, but
\* only until the upload they are for is aborted.
ReadAborted(t) ==
    /\ phase[t] = "read"
    /\ Goto(t, "abort")
    /\ UNCHANGED <<files, taken, parts, aborted, counted, uploads, tracked,
                   objects, attachments, troubled>>

\* await Promise.all(promises) in the loop.
WaitForParts(t) ==
    /\ phase[t] = "wait"
    /\ AllEnded(t)
    /\ Goto(t, "read")
    /\ UNCHANGED <<files, taken, parts, aborted, counted, uploads, tracked,
                   objects, attachments, troubled>>

\* The stream is at its end, and the rest is the last part.
LastPart(t) ==
    /\ phase[t] = "read"
    /\ taken[t] = Size[This(t)]
    /\ parts' = [parts EXCEPT ![t] = Append(@, NewPart(t, taken[t]))]
    /\ Goto(t, "join")
    /\ UNCHANGED <<files, taken, aborted, counted, uploads, tracked, objects,
                   attachments, troubled>>

\* All parts have ended: the throw after them, or completeUpload.
JoinParts(t) ==
    /\ phase[t] = "join"
    /\ AllEnded(t)
    /\ Goto(t, IF aborted[t] THEN "abort" ELSE "complete")
    /\ UNCHANGED <<files, taken, parts, aborted, counted, uploads, tracked,
                   objects, attachments, troubled>>

\* A part is being sent by the promise that doPartWithRetry returned.  Those
\* an abort leaves behind only fail, and are forgotten when the page goes on.
Sending(t, n) ==
    /\ phase[t] \in {"read", "wait", "join"}
    /\ n \in DOMAIN parts[t]
    /\ ~parts[t][n].ended

\* S3 takes a part; one of the same number is replaced.
Store(t, n) ==
    LET f == This(t)
        p == [n |-> n, from |-> parts[t][n].from, to |-> parts[t][n].to]
    IN uploads' = [uploads EXCEPT ![f].parts = {q \in @ : q.n # n} \cup {p}]

\* upload_part succeeds: the presigned address is fetched, the part is put.
UploadPart(t, n) ==
    /\ Sending(t, n)
    /\ ~aborted[t]
    /\ Store(t, n)
    /\ parts' = [parts EXCEPT ![t][n].ended = TRUE]
    /\ UNCHANGED <<files, phase, taken, aborted, counted, tracked, objects,
                   attachments, troubled>>

\* Mutant: after the last attempt the other parts are not stopped.
GiveUpQuietly(t, n) ==
    /\ parts[t][n].attempts = MaxRetries
    /\ parts' = [parts EXCEPT ![t][n].ended = TRUE]
    /\ UNCHANGED aborted

\* Mutant: the loop of the attempts is not left after the last one.
GiveUpAndGoOn(t, n) ==
    /\ parts[t][n].attempts = MaxRetries
    /\ aborted' = [aborted EXCEPT ![t] = TRUE]
    /\ UNCHANGED parts

\* After the last attempt doPartWithRetry aborts all of the upload.
GiveUp(t, n) ==
    /\ parts[t][n].attempts = MaxRetries
    /\ parts' = [parts EXCEPT ![t][n].ended = TRUE]
    /\ aborted' = [aborted EXCEPT ![t] = TRUE]

\* Mutant: one attempt too many.
TryOnceMore(t, n) ==
    /\ parts[t][n].attempts <= MaxRetries
    /\ parts' = [parts EXCEPT ![t][n].attempts = @ + 1]
    /\ UNCHANGED aborted

\* It waits, and tries again.
TryAgain(t, n) ==
    /\ parts[t][n].attempts < MaxRetries
    /\ parts' = [parts EXCEPT ![t][n].attempts = @ + 1]
    /\ UNCHANGED aborted

\* upload_part throws: a call failed, perhaps after S3 took the part, or the
\* upload is aborted.
PartFails(t, n) ==
    /\ Sending(t, n)
    /\ \/ UNCHANGED uploads
       \/ ~aborted[t] /\ Store(t, n)
    /\ GiveUp(t, n) \/ TryAgain(t, n)
    /\ UNCHANGED <<files, phase, taken, counted, tracked, objects,
                   attachments, troubled>>

------------------------------------------------------------------------------
(* completeUpload, ajax_done_POST and finishMultipart. *)

\* The parts ListParts answers with: one page of them, by number.
listParts(f) ==
    LET stored == uploads[f].parts
    IN [i \in 1 .. (IF Cardinality(stored) < PageSize
                    THEN Cardinality(stored) ELSE PageSize) |->
           CHOOSE p \in stored : Cardinality({q \in stored : q.n < p.n}) = i - 1]

Units(p) == [i \in 1 .. p.to - p.from + 1 |-> p.from + i - 1]

\* S3 puts the listed parts together.
CompleteMultipart(t) ==
    LET f == This(t) IN
    /\ phase[t] = "complete"
    /\ uploads[f].state = "open"
    /\ uploads' = [uploads EXCEPT ![f].state = "completed"]
    /\ objects' = [objects EXCEPT ![Content[f]] =
                      FlattenSeq([i \in DOMAIN listParts(f) |->
                                     Units(listParts(f)[i])])]
    /\ Goto(t, IF ParentOf[f] = "none" THEN "delete" ELSE "lookup")
    /\ UNCHANGED <<files, taken, parts, aborted, counted, tracked,
                   attachments, troubled>>

AttachmentsOf(c) == {a \in attachments : Content[a.file] = c}

\* Mutant: the handler does not look for an attachment with the same path.
LookUpNothing(t) ==
    /\ phase[t] = "lookup"
    /\ Goto(t, "insert")
    /\ UNCHANGED <<files, taken, parts, aborted, counted, uploads, tracked,
                   objects, attachments, troubled>>

\* An attachment with the same path will do, whatever it is attached to.
LookUpAttachment(t) ==
    /\ phase[t] = "lookup"
    /\ Goto(t, IF AttachmentsOf(Content[This(t)]) # {}
               THEN "delete" ELSE "insert")
    /\ UNCHANGED <<files, taken, parts, aborted, counted, uploads, tracked,
                   objects, attachments, troubled>>

\* Mutant: the handler answers without inserting.
InsertNothing(t) ==
    /\ phase[t] = "insert"
    /\ Goto(t, "delete")
    /\ UNCHANGED <<files, taken, parts, aborted, counted, uploads, tracked,
                   objects, attachments, troubled>>

InsertAttachment(t) ==
    /\ phase[t] = "insert"
    /\ attachments' = attachments \cup
           {[file |-> This(t), parent |-> ParentOf[This(t)]]}
    /\ Goto(t, "delete")
    /\ UNCHANGED <<files, taken, parts, aborted, counted, uploads, tracked,
                   objects, troubled>>

DeleteTracked(t) ==
    /\ phase[t] = "delete"
    /\ tracked' = [tracked EXCEPT ![This(t)] = "deleted"]
    /\ Goto(t, "answer")
    /\ UNCHANGED <<files, taken, parts, aborted, counted, uploads, objects,
                   attachments, troubled>>

\* The answer arrives, and completeUpload returns.
CompleteAnswered(t) ==
    /\ phase[t] = "answer"
    /\ Count(t, "success")
    /\ UNCHANGED <<taken, parts, aborted, uploads, tracked, objects,
                   attachments, troubled>>

\* The handler dies at any point or its answer is lost, and completeUpload
\* throws.
CompleteFails(t) ==
    /\ phase[t] \in serverPhases
    /\ troubled' = troubled \cup {This(t)}
    /\ Goto(t, "abort")
    /\ UNCHANGED <<files, taken, parts, aborted, counted, uploads, tracked,
                   objects, attachments>>

------------------------------------------------------------------------------
(* abortUpload and ajax_multipart_DELETE, whose errors the page swallows. *)

\* Mutant: the row is deleted, but the upload at S3 is forgotten.
AbortRowOnly(t) ==
    /\ phase[t] = "abort"
    /\ tracked' = [tracked EXCEPT ![This(t)] = "deleted"]
    /\ Count(t, "failed")
    /\ UNCHANGED <<taken, parts, aborted, uploads, objects, attachments,
                   troubled>>

\* S3 does not know a completed upload any more: the handler then raises
\* before it deletes the row.
abortUpload(t) ==
    LET f == This(t) IN
    /\ phase[t] = "abort"
    /\ IF uploads[f].state = "open"
       THEN /\ uploads' = [uploads EXCEPT ![f] =
                              [state |-> "aborted", parts |-> {}]]
            /\ tracked' = [tracked EXCEPT ![f] = "deleted"]
       ELSE UNCHANGED <<uploads, tracked>>
    /\ Count(t, "failed")
    /\ UNCHANGED <<taken, parts, aborted, objects, attachments, troubled>>

\* The call is lost, or the handler dies between S3 and the row.
AbortFails(t) ==
    LET f == This(t) IN
    /\ phase[t] = "abort"
    /\ \/ UNCHANGED uploads
       \/ /\ uploads[f].state = "open"
          /\ uploads' = [uploads EXCEPT ![f] =
                            [state |-> "aborted", parts |-> {}]]
    /\ troubled' = troubled \cup {f}
    /\ Count(t, "failed")
    /\ UNCHANGED <<taken, parts, aborted, tracked, objects, attachments>>

------------------------------------------------------------------------------
SendParts(t) ==
    \E n \in DOMAIN parts[t] : UploadPart(t, n) \/ PartFails(t, n)

\* What goes on by itself once the form is submitted.
UploadStep(t) ==
    \/ beginMultipartUpload(t) \/ BeginFails(t)
    \/ ReadChunk(t) \/ ReadAborted(t) \/ WaitForParts(t) \/ LastPart(t)
    \/ JoinParts(t) \/ SendParts(t)
    \/ CompleteMultipart(t) \/ LookUpAttachment(t) \/ InsertAttachment(t)
    \/ DeleteTracked(t) \/ CompleteAnswered(t) \/ CompleteFails(t)
    \/ abortUpload(t) \/ AbortFails(t)

UploadNext == \E t \in Tab : upload(t) \/ UploadStep(t) \/ Leave(t)

------------------------------------------------------------------------------
(* Properties. *)

\* A file that has more parts than one answer of ListParts.
TooManyParts(f) == Cardinality(uploads[f].parts) > PageSize

\* A file the page counts as uploaded is complete at S3: its object is all of
\* the file in order, however the stream was cut, whatever attempts failed
\* and whichever parts S3 had taken before the page knew.  The exception is
\* files with more parts than ListParts answers with, for it is asked once.
CountedIsWhole ==
    \A f \in File :
        counted[f] = "success" =>
            \/ objects[Content[f]] = [i \in 1 .. Size[f] |-> i]
            \/ \E g \in File : Content[g] = Content[f] /\ TooManyParts(g)

\* A file the page counts as failed leaves no upload at S3 and no row behind,
\* whatever happened to its parts, unless one of the three calls around the
\* parts failed.
FailureCleansUp ==
    \A f \in File :
        counted[f] = "failed" /\ f \notin troubled =>
            /\ uploads[f].state = "aborted"
            /\ tracked[f] = "deleted"

\* A file for an object that counts as uploaded has an attachment: its own,
\* or one that another file with the same content has got.
CountedIsAttached ==
    \A f \in File :
        counted[f] = "success" /\ ParentOf[f] # "none" =>
            AttachmentsOf(Content[f]) # {}

\* Files with one content get one attachment, and tabs that complete them at
\* once one each at most: the handler looks before it inserts.
OneAttachmentPerTab ==
    \A f \in File : Cardinality(AttachmentsOf(Content[f])) <= Cardinality(Tab)

\* No submitted form goes on for ever: the page counts every file, so its
\* buttons are enabled again, unless the user leaves.
SubmissionEnds == <>[](\A t \in Tab : phase[t] \in {"idle", "done", "left"})
==============================================================================
