---------------------------- MODULE ChannelPipeline ----------------------------
(***************************************************************************)
(* The channels module: runs of Channel::read and of the action process,   *)
(* started from outside (a scheduler calls the action's URL, nothing stops *)
(* two runs from overlapping), on one database and one mailbox.            *)
(*                                                                         *)
(* A run copies every unseen mail into a message row (the row, then its    *)
(* attachments, then the seen flag, no transaction around them), hands the *)
(* rows to the channel's processors and at the end sets is_processed on    *)
(* every row of the channel.  Processors differ in what they list and what *)
(* they write:                                                             *)
(*   "ticket"    TicketEmailProcessor: rows without a status, of any       *)
(*               channel; a status once the mail is a comment of its task  *)
(*   "test"      TestProcessor: rows of its channel not yet processed;     *)
(*               sets is_processed itself                                  *)
(*   "external"  a processor of another module that uses the methods of    *)
(*               ChannelProcessor and writes a status for every row        *)
(***************************************************************************)
EXTENDS Naturals, FiniteSets

CONSTANTS
    Channel,
    WebChannels,    \* the channels that poll a page, a subset of Channel
    DoProcessing,   \* the channels whose do_processing is set
    Mail,           \* mails that may arrive
    Class,          \* the class of each mail
    Box,            \* the channel whose mailbox a mail arrives in
    Page,           \* stands for the content of a polled page
    Processor,
    Kind,           \* the kind of each processor
    Owner,          \* the channel of each processor
    Worker,         \* PHP processes that run the actions
    Idle,           \* stands for no channel, no processor
    MaxRows,        \* bound: message rows
    MaxPages,       \* bound: rows made from a page
    MaxComments,    \* bound: comments of a mail that are counted
    MaxCrashes      \* bound: runs that die halfway

MailClass == {"reply",   \* its subject names a task, its sender has a user
              "orphan",  \* the same, but no user can be made for its sender
              "fresh",   \* it names no task
              "named"}   \* its sender gives no name, or one without an @

ASSUME ChannelAssumption == WebChannels \subseteq Channel /\ DoProcessing \subseteq Channel
ASSUME MailAssumption == /\ Class \in [Mail -> MailClass]
                         /\ Box \in [Mail -> Channel \ WebChannels]
                         /\ Page \notin Mail
ASSUME ProcessorAssumption == /\ Kind \in [Processor -> {"ticket", "test", "external"}]
                              /\ Owner \in [Processor -> Channel]
ASSUME BoundAssumption == MaxRows \in Nat /\ MaxPages \in Nat /\ MaxCrashes \in Nat
                          /\ MaxComments \in Nat \ {0}
ASSUME IdleAssumption == Idle \notin Channel \cup Processor

VARIABLES
    arrived,    \* mails in the mailboxes
    seen,       \* mails flagged as seen
    rows,       \* number of message rows; row r is the r-th inserted
    chan,       \* the channel of a row
    mail,       \* the mail, or Page, a row was made from
    raw,        \* rows whose attachments are stored
    processed,  \* rows with is_processed = 1
    status,     \* the status of a row for a processor
    comments,   \* comments each mail has become
    run,        \* what each worker is doing
    crashes,    \* number of runs that died
    handled,    \* history: rows a processor has worked on
    raised,     \* history: row and processor pairs whose handling raised an \Error
    disturbed   \* history: mails a run was cut off at, two runs held at once,
                \* or another processor failed on

vars == <<arrived, seen, rows, chan, mail, raw, processed, status, comments, run,
          crashes, handled, raised, disturbed>>
box == <<arrived, seen>>
table == <<rows, chan, mail, raw>>
history == <<handled, raised, disturbed>>

Row == 1 .. MaxRows
Stored == 1 .. rows
Status == {"none", "failed", "ok"}
Resting == [pc |-> "idle", ch |-> Idle, mails |-> {}, procs |-> {}, proc |-> Idle,
            list |-> {}, row |-> 0]
Run == [pc: {"idle", "reading", "attach", "seen", "processing", "handling", "commented"},
        ch: Channel \cup {Idle}, mails: SUBSET Mail, procs: SUBSET Processor,
        proc: Processor \cup {Idle}, list: SUBSET Row, row: 0 .. MaxRows]

TypeOK ==
    /\ arrived \subseteq Mail
    /\ seen \subseteq arrived
    /\ rows \in 0 .. MaxRows
    /\ chan \in [Row -> Channel \cup {Idle}]
    /\ mail \in [Row -> Mail \cup {Page}]
    /\ raw \subseteq Stored
    /\ processed \subseteq Stored
    /\ status \in [Row -> [Processor -> Status]]
    /\ comments \in [Mail -> Nat]
    /\ run \in [Worker -> Run]
    /\ crashes \in 0 .. MaxCrashes
    /\ handled \subseteq Stored
    /\ raised \subseteq Stored \X Processor
    /\ disturbed \subseteq Mail

Init ==
    /\ arrived = {} /\ seen = {}
    /\ rows = 0 /\ raw = {} /\ processed = {}
    /\ chan = [r \in Row |-> Idle]
    /\ mail = [r \in Row |-> Page]
    /\ status = [r \in Row |-> [p \in Processor |-> "none"]]
    /\ comments = [m \in Mail |-> 0]
    /\ run = [w \in Worker |-> Resting]
    /\ crashes = 0
    /\ handled = {} /\ raised = {} /\ disturbed = {}

-----------------------------------------------------------------------------
(* What the services return.                                               *)

getProcessors(c) == {p \in Processor : Owner[p] = c}

getUnprocessedMessages(p) == {r \in Stored : chan[r] = Owner[p] /\ r \notin processed}

getNewMessages(p) == {r \in getUnprocessedMessages(p) : status[r][p] = "none"}

getNewOrFailedMessages(p) == {r \in getUnprocessedMessages(p) : status[r][p] # "ok"}

\* ChannelService::getNewOrFailedMessages uses neither of its arguments.
AnyNewOrFailed ==
    {r \in Stored : \/ \A p \in Processor : status[r][p] = "none"
                    \/ \E p \in Processor : status[r][p] = "failed"}

List(p) == CASE Kind[p] = "ticket" -> AnyNewOrFailed
             [] Kind[p] = "test" -> getUnprocessedMessages(p)
             [] OTHER -> getNewOrFailedMessages(p)

Busy == {w \in Worker : run[w].pc # "idle"}
\* The mails a worker holds in memory, and those of the rows it has listed.
Holds(w) == run[w].mails \cup {mail[r] : r \in run[w].list \cup ({run[w].row} \ {0})}
Becomes(w, r) == run' = [run EXCEPT ![w] = r]

-----------------------------------------------------------------------------
(* Channel::read: copy the unseen mails.                                   *)

Arrive(m) ==
    /\ m \notin arrived
    /\ arrived' = arrived \cup {m}
    /\ UNCHANGED <<seen, table, processed, status, comments, run, crashes, history>>

\* The search for unseen mails of the mailbox, when the run starts.
StartRead(w, c) ==
    /\ run[w].pc = "idle"
    /\ LET found == {m \in arrived \ seen : Box[m] = c}
       IN  /\ Becomes(w, [Resting EXCEPT !.pc = "reading", !.ch = c, !.mails = found])
           /\ disturbed' = disturbed \cup {m \in found : \E v \in Busy : m \in Holds(v)}
    /\ UNCHANGED <<box, table, processed, status, comments, crashes, handled, raised>>

\* The action channels/process: the processors alone, whatever do_processing says.
StartProcess(w, c) ==
    /\ run[w].pc = "idle"
    /\ getProcessors(c) # {}
    /\ Becomes(w, [Resting EXCEPT !.pc = "processing", !.ch = c, !.procs = getProcessors(c)])
    /\ UNCHANGED <<box, table, processed, status, comments, crashes, history>>

NewRow(w, m) ==
    /\ rows < MaxRows
    /\ rows' = rows + 1
    /\ chan' = [chan EXCEPT ![rows + 1] = run[w].ch]
    /\ mail' = [mail EXCEPT ![rows + 1] = m]

\* Mutant: the seen flag before the attachments.
SeenFirst(w, m) ==
    /\ run[w].pc = "reading"
    /\ m \in run[w].mails
    /\ NewRow(w, m)
    /\ seen' = seen \cup {m}
    /\ Becomes(w, [run[w] EXCEPT !.pc = "attach", !.row = rows + 1])
    /\ UNCHANGED <<arrived, raw, processed, status, comments, crashes, history>>

\* Mutant: the attachments saved for an object that has no id yet.
AttachFirst(w, m) ==
    /\ run[w].pc = "reading"
    /\ m \in run[w].mails
    /\ NewRow(w, m)
    /\ raw' = raw \cup {run[w].row}
    /\ Becomes(w, [run[w] EXCEPT !.pc = "seen", !.row = rows + 1])
    /\ UNCHANGED <<box, processed, status, comments, crashes, history>>

InsertMessage(w, m) ==
    /\ run[w].pc = "reading"
    /\ m \in run[w].mails
    /\ NewRow(w, m)
    /\ Becomes(w, [run[w] EXCEPT !.pc = "attach", !.row = rows + 1])
    /\ UNCHANGED <<box, raw, processed, status, comments, crashes, history>>

\* A polled page is one message each time; a page that is empty is none.
ReadPage(w) ==
    /\ run[w].pc = "reading"
    /\ run[w].ch \in WebChannels
    /\ run[w].row = 0
    /\ Cardinality({r \in Stored : mail[r] = Page}) < MaxPages
    /\ NewRow(w, Page)
    /\ Becomes(w, [run[w] EXCEPT !.pc = "attach", !.row = rows + 1])
    /\ UNCHANGED <<box, raw, processed, status, comments, crashes, history>>

SaveAttachments(w) ==
    /\ run[w].pc = "attach"
    /\ raw' = raw \cup {run[w].row}
    /\ Becomes(w, [run[w] EXCEPT !.pc = IF run[w].ch \in WebChannels THEN "reading" ELSE "seen"])
    /\ UNCHANGED <<box, rows, chan, mail, processed, status, comments, crashes, history>>

MarkAsSeen(w) ==
    /\ run[w].pc = "seen"
    /\ seen' = seen \cup {mail[run[w].row]}
    /\ Becomes(w, [run[w] EXCEPT !.pc = "reading", !.mails = @ \ {mail[run[w].row]},
                                 !.row = 0])
    /\ UNCHANGED <<arrived, table, processed, status, comments, crashes, history>>

\* All mails are copied: on to the processors, if the channel runs any.
EndReading(w) ==
    /\ run[w].pc = "reading"
    /\ run[w].mails = {}
    /\ LET procs == IF run[w].ch \in DoProcessing THEN getProcessors(run[w].ch) ELSE {}
       IN  Becomes(w, IF procs = {} THEN Resting
                      ELSE [Resting EXCEPT !.pc = "processing", !.ch = run[w].ch,
                                           !.procs = procs])
    /\ UNCHANGED <<box, table, processed, status, comments, crashes, history>>

-----------------------------------------------------------------------------
(* The processors.                                                         *)

StartProcessor(w, p) ==
    /\ run[w].pc = "processing"
    /\ p \in run[w].procs
    /\ Becomes(w, [run[w] EXCEPT !.pc = "handling", !.procs = @ \ {p}, !.proc = p,
                                 !.list = List(p)])
    /\ disturbed' = disturbed \cup
         {m \in Mail : /\ \E r \in List(p) : mail[r] = m
                       /\ \E v \in Busy \ {w} : m \in Holds(v)}
    /\ UNCHANGED <<box, table, processed, status, comments, crashes, handled, raised>>

Drop(w, r) == Becomes(w, [run[w] EXCEPT !.list = @ \ {r}])
Handling(w, r) == run[w].pc = "handling" /\ r \in run[w].list
IsKind(w, k) == Kind[run[w].proc] = k
Blank(r) == r \notin raw
\* A row the ticket processor passes over: no raw mail, or no @ in what the row has as its
\* sender, which is the name that goes with the address and not the address.
Skipped(r) == Blank(r) \/ mail[r] = Page \/ (mail[r] \in Mail /\ Class[mail[r]] = "named")

\* No status is written for a row passed over: the next run lists it again.
SkipMessage(w, r) ==
    /\ Handling(w, r)
    /\ (IsKind(w, "ticket") /\ Skipped(r)) \/ (IsKind(w, "test") /\ Blank(r))
    /\ Drop(w, r)
    /\ UNCHANGED <<box, table, processed, status, comments, crashes, history>>

\* Mutant: the status before the comment, as if inserting it had come first.
StatusFirst(w, r) ==
    /\ Handling(w, r) /\ IsKind(w, "ticket") /\ ~Skipped(r)
    /\ Class[mail[r]] \in {"reply", "orphan"}
    /\ status' = [status EXCEPT ![r][run[w].proc] = "ok"]
    /\ handled' = handled \cup {r}
    /\ Becomes(w, [run[w] EXCEPT !.pc = "commented", !.list = @ \ {r}, !.row = r])
    /\ UNCHANGED <<box, table, processed, comments, crashes, raised, disturbed>>

\* The answer to a task becomes a comment, in a transaction of its own.
AddComment(w, r) ==
    /\ Handling(w, r) /\ IsKind(w, "ticket") /\ ~Skipped(r)
    /\ Class[mail[r]] \in {"reply", "orphan"}
    /\ comments' = [comments EXCEPT ![mail[r]] = IF @ < MaxComments THEN @ + 1 ELSE @]
    /\ handled' = handled \cup {r}
    /\ Becomes(w, [run[w] EXCEPT !.pc = "commented", !.list = @ \ {r}, !.row = r])
    /\ UNCHANGED <<box, table, processed, status, crashes, raised, disturbed>>

\* Mutant: the end of process() without the status.
NoStatus(w) ==
    /\ run[w].pc = "commented"
    /\ Class[mail[run[w].row]] = "reply"
    /\ Becomes(w, [run[w] EXCEPT !.pc = "handling", !.row = 0])
    /\ UNCHANGED <<box, table, processed, status, comments, crashes, history>>

InsertStatus(w) ==
    /\ run[w].pc = "commented"
    /\ Class[mail[run[w].row]] = "reply"
    /\ status' = [status EXCEPT ![run[w].row][run[w].proc] = "ok"]
    /\ Becomes(w, [run[w] EXCEPT !.pc = "handling", !.row = 0])
    /\ UNCHANGED <<box, table, processed, comments, crashes, history>>

\* createExternalUserForContact is no method of AuthService: the run ends.
UserRaises(w) ==
    /\ run[w].pc = "commented"
    /\ Class[mail[run[w].row]] = "orphan"
    /\ raised' = raised \cup {<<run[w].row, run[w].proc>>}
    /\ disturbed' = disturbed \cup {mail[run[w].row]}
    /\ Becomes(w, Resting)
    /\ UNCHANGED <<box, table, processed, status, comments, crashes, handled>>

\* createTask takes a string for dt_due and is called with null: the run ends.
CreateTaskRaises(w, r) ==
    /\ Handling(w, r) /\ IsKind(w, "ticket") /\ ~Skipped(r)
    /\ Class[mail[r]] = "fresh"
    /\ raised' = raised \cup {<<r, run[w].proc>>}
    /\ handled' = handled \cup {r}
    /\ Becomes(w, Resting)
    /\ UNCHANGED <<box, table, processed, status, comments, crashes, disturbed>>

TestMessage(w, r) ==
    /\ Handling(w, r) /\ IsKind(w, "test") /\ ~Blank(r)
    /\ processed' = processed \cup {r}
    /\ handled' = handled \cup {r}
    /\ Drop(w, r)
    /\ UNCHANGED <<box, table, status, comments, crashes, raised, disturbed>>

ExternalProcessor(w, r) ==
    /\ Handling(w, r) /\ IsKind(w, "external")
    /\ \E s \in {"failed", "ok"} :
         /\ status' = [status EXCEPT ![r][run[w].proc] = s]
         /\ disturbed' = IF s = "failed" THEN disturbed \cup ({mail[r]} \cap Mail) ELSE disturbed
    /\ handled' = handled \cup {r}
    /\ Drop(w, r)
    /\ UNCHANGED <<box, table, processed, comments, crashes, raised>>

EndProcessor(w) ==
    /\ run[w].pc = "handling"
    /\ run[w].list = {}
    /\ Becomes(w, [run[w] EXCEPT !.pc = "processing", !.proc = Idle])
    /\ UNCHANGED <<box, table, processed, status, comments, crashes, history>>

\* Every row of the channel as it is now, not only the ones that were listed.
markMessagesAsProcessed(w) ==
    /\ run[w].pc = "processing"
    /\ run[w].procs = {}
    /\ processed' = processed \cup {r \in Stored : chan[r] = run[w].ch}
    /\ Becomes(w, Resting)
    /\ UNCHANGED <<box, table, status, comments, crashes, history>>

\* The process dies; what it has written stays.
Crash(w) ==
    /\ crashes < MaxCrashes
    /\ w \in Busy
    /\ crashes' = crashes + 1
    /\ disturbed' = disturbed \cup ({mail[r] : r \in {run[w].row} \ {0}} \cap Mail)
    /\ Becomes(w, Resting)
    /\ UNCHANGED <<box, table, processed, status, comments, handled, raised>>

Step(w) ==
    \/ \E m \in Mail : InsertMessage(w, m)
    \/ ReadPage(w) \/ SaveAttachments(w) \/ MarkAsSeen(w) \/ EndReading(w)
    \/ \E p \in Processor : StartProcessor(w, p)
    \/ \E r \in Row : \/ SkipMessage(w, r) \/ AddComment(w, r) \/ CreateTaskRaises(w, r)
                      \/ TestMessage(w, r) \/ ExternalProcessor(w, r)
    \/ InsertStatus(w) \/ UserRaises(w) \/ EndProcessor(w) \/ markMessagesAsProcessed(w)

Next ==
    \/ \E m \in Mail : Arrive(m)
    \/ \E w \in Worker : \/ Step(w) \/ Crash(w)
                         \/ \E c \in Channel : StartRead(w, c) \/ StartProcess(w, c)

Spec == Init /\ [][Next]_vars

(* A run that is not cut off goes on, and each channel is read again and    *)
(* again by the scheduler outside of this code.                            *)
FairSpec ==
    /\ Spec
    /\ \A w \in Worker : WF_vars(Step(w))
    /\ \A w \in Worker, c \in Channel : SF_vars(StartRead(w, c))

-----------------------------------------------------------------------------
(* Properties.                                                             *)

\* No mail is lost between the mailbox and the database: a mail is seen (and so never
\* read again) only once a row with its raw text exists, whoever dies or runs at once.
SeenIsStored == \A m \in seen : \E r \in raw : mail[r] = m

\* A status that says a mail was handled is never ahead of the comment it reports.
StatusMeansComment ==
    \A r \in Stored, p \in Processor :
        Kind[p] = "ticket" /\ status[r][p] = "ok" => comments[mail[r]] > 0

\* A mail becomes a comment at most once, however often it is listed again, unless a run
\* was cut off while it handled the mail, two runs held it at the same time, or another
\* processor failed on it (the ticket processor then lists it again, its own or not).
OneComment == \A m \in Mail \ disturbed : comments[m] <= 1

\* Every answer to a task becomes a comment of it, across crashes, as long as the channel
\* is read again and no mail arrives whose handling raises an \Error (it could be listed
\* before the answer in every run).
AnswersArrive ==
    [](\A m \in arrived : Class[m] \in {"reply", "named"}) =>
        \A m \in Mail : Class[m] = "reply" => (m \in arrived ~> comments[m] > 0)

\* The doc of ChannelProcessor::getNewMessages: "Gets new messages that have not been
\* processed at all".  A row that no processor has worked on is new for its processors.
UntouchedIsNew ==
    \A p \in Processor, r \in Stored :
        Kind[p] = "external" /\ chan[r] = Owner[p] /\ r \notin handled => r \in getNewMessages(p)
=============================================================================
