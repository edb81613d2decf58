----------------------------- MODULE TimelogWidget ----------------------------
(***************************************************************************)
(* The timer of a user (timelogwidget.tpl.php) and the handlers that start *)
(* and stop it (ajaxStart, ajaxStop), with the form that makes and changes *)
(* timelogs (edit.php) and their deletion.  A timelog without an end is    *)
(* running.  A running one is started only if none is, but that is asked   *)
(* before the insertion, and the form does not ask at all.  Forms leave    *)
(* the page, so they are sent when none of its requests is under way.      *)
(*                                                                         *)
(* update() leaves out nulls, so an end is never taken back, and a timelog *)
(* that has one has no further part here.  But update() writes is_deleted  *)
(* as it was read.                                                         *)
(***************************************************************************)
EXTENDS Requests

VARIABLES
    timelogs,  \* rows of one user without an end: [id, byTimer, is_deleted]
    widget,    \* [Page -> does it show the Stop button, not Start]
    strayed,   \* history: a row had changed between a read and its write
               \* back, or two timelogs were running
    changedBy, \* history: page of the last change, or of a Stop that found
               \* nothing to stop
    astray     \* history: pages that did not wait for an answer, or whose
               \* Stop failed

timelogVars == <<timelogs, widget, strayed, changedBy, astray>>

TimelogTypeOK ==
    /\ timelogs \subseteq [id : 1 .. MaxRequests, byTimer : BOOLEAN,
                           is_deleted : BOOLEAN]
    /\ \A l, m \in timelogs : l.id = m.id => l = m
    /\ widget \in [Page -> BOOLEAN]
    /\ strayed \in BOOLEAN
    /\ changedBy \in Page \cup {"nobody"}
    /\ astray \subseteq Page

TimelogInit ==
    /\ timelogs = {}
    /\ widget = [p \in Page |-> FALSE]
    /\ strayed = FALSE
    /\ changedBy = "nobody"
    /\ astray = {}

getActiveTimeLogForUser == {l \in timelogs : ~l.is_deleted}

------------------------------------------------------------------------------
(* The page. *)

\* Every load of a page asks whether a timelog is running.
openTimelogPage(p) ==
    /\ Reload(p)
    /\ widget' = [widget EXCEPT ![p] = getActiveTimeLogForUser # {}]
    /\ astray' = astray \ {p}
    /\ UNCHANGED <<timelogs, strayed, changedBy>>

Filled(p) == \E r \in Of(p) : r.op = "form"

\* The buttons do not wait for an answer.
Click(p, op) ==
    /\ ~Filled(p)
    /\ Send(p, op, [id |-> 0, what |-> "click"])
    /\ astray' = IF Quiet(p) THEN astray ELSE astray \cup {p}
    /\ UNCHANGED <<timelogs, widget, strayed, changedBy>>

timelog_startTimer(p) == ~widget[p] /\ Click(p, "start")
clickStop(p) == widget[p] /\ Click(p, "stop")

\* The form, for a new timelog without an end (id 0), or for one that had
\* none, deleted or not, and the button that deletes one.
submitForm(p) ==
    /\ Quiet(p)
    /\ \E id \in {0} \cup {l.id : l \in timelogs},
          what \in {"end", "no end", "delete"} :
           /\ id = 0 => what = "no end"
           /\ Send(p, "form", [id |-> id, what |-> what])
    /\ UNCHANGED timelogVars

------------------------------------------------------------------------------
(* The handlers. *)

\* Mutant: the handler does not ask whether a timelog is running.
StartUnasked(r) ==
    /\ Load(r, "start", {})
    /\ UNCHANGED timelogVars

\* ajaxStart answers nothing if a timelog is running, ...
hasActiveLog(r) ==
    /\ r.op = "start"
    /\ MayStart(r)
    /\ Move(r, IF getActiveTimeLogForUser = {} THEN "loaded" ELSE "failed", {})
    /\ UNCHANGED timelogVars

\* What has been written is the last change.
Changed(r) ==
    /\ changedBy' = r.page
    /\ strayed' = (strayed \/ ~(r.seen \subseteq timelogs)
                   \/ Cardinality(getActiveTimeLogForUser') > 1)

Insert(r, byTimer) ==
    /\ timelogs' = timelogs \cup {[id |-> r.id, byTimer |-> byTimer,
                                   is_deleted |-> FALSE]}
    /\ Changed(r)
    /\ Move(r, "done", {})
    /\ UNCHANGED <<widget, astray>>

\* ... and else inserts one.
Start(r) == Writing(r, "start") /\ Insert(r, TRUE)

\* ajaxStop looks for a running timelog, one if there are several.
getActive(r) ==
    /\ r.op = "stop"
    /\ MayStart(r)
    /\ IF getActiveTimeLogForUser = {}
       THEN Move(r, "done", {}) /\ changedBy' = r.page
       ELSE /\ \E l \in getActiveTimeLogForUser : Move(r, "loaded", {l})
            /\ UNCHANGED changedBy
    /\ UNCHANGED <<timelogs, widget, strayed, astray>>

\* The rows after `new' is written, if its timelog has not been ended.
Written(new) == {IF l.id = new.id THEN new ELSE l : l \in timelogs}

\* The handler writes the row that it has read.
Update(r, rows) ==
    /\ timelogs' = rows
    /\ Changed(r)
    /\ Move(r, "done", {})
    /\ UNCHANGED <<widget, astray>>

RowRead(r) == CHOOSE l \in r.seen : TRUE
Ended(r) == {l \in timelogs : l.id # RowRead(r).id}

\* Mutant: the end is not stored.
StopNot(r) ==
    /\ Writing(r, "stop")
    /\ Update(r, Written(RowRead(r)))

Stop(r) ==
    /\ Writing(r, "stop")
    /\ Update(r, Ended(r))

\* edit.php and delete.php load the timelog by its id, deleted or not.
getTimelog(r) ==
    /\ Load(r, "form", {l \in timelogs : l.id = r.arg.id})
    /\ UNCHANGED timelogVars

edit_POST(r) ==
    /\ Writing(r, "form")
    /\ r.arg.what # "delete"
    /\ IF r.arg.id = 0
       THEN Insert(r, FALSE)
       ELSE Update(r, IF r.seen = {} THEN timelogs
                      ELSE IF r.arg.what = "end" THEN Ended(r)
                      ELSE Written(RowRead(r)))

delete_GET(r) ==
    /\ Writing(r, "form")
    /\ r.arg.what = "delete"
    /\ Update(r, IF r.seen = {} THEN timelogs
                 ELSE Written([RowRead(r) EXCEPT !.is_deleted = TRUE]))

\* A handler fails, or refuses what was filled in, and changes nothing.
TimelogFails(r) ==
    /\ r.at = "loaded"
    /\ Move(r, "failed", {})
    /\ astray' = IF r.op = "stop" THEN astray \cup {r.page} ELSE astray
    /\ UNCHANGED <<timelogs, widget, strayed, changedBy>>

------------------------------------------------------------------------------
(* The answers. *)

\* A start shows the Stop button, unless its answer is empty, which is no
\* JSON.  A stop shows Start whatever its answer is.  A form is answered with
\* a page.
TimelogAnswered(r) ==
    /\ r.at \in {"done", "failed"}
    /\ Answered(r)
    /\ widget' = [widget EXCEPT ![r.page] =
                     CASE r.op = "start" -> @ \/ r.at = "done"
                       [] r.op = "stop"  -> FALSE
                       [] r.op = "form"  -> getActiveTimeLogForUser # {}]
    /\ UNCHANGED <<timelogs, strayed, changedBy, astray>>

TimelogLost(r) == Lose(r) /\ UNCHANGED timelogVars

TimelogNext ==
    \/ \E p \in Page : \/ openTimelogPage(p) \/ timelog_startTimer(p)
                       \/ clickStop(p) \/ submitForm(p)
    \/ \E r \in requests :
           \/ hasActiveLog(r) \/ Start(r) \/ getActive(r) \/ Stop(r)
           \/ getTimelog(r) \/ edit_POST(r) \/ delete_GET(r)
           \/ TimelogFails(r) \/ TimelogAnswered(r) \/ TimelogLost(r)

------------------------------------------------------------------------------
(* Properties. *)

\* No more timelogs that the timer started run than there are sessions: a
\* session starts one only when none runs, and one more comes only from a
\* handler of another session that was between its read and its write, which
\* starts one too or writes back a deleted one.
RunningPerSession ==
    OnePerSession({l \in getActiveTimeLogForUser : l.byTimer})

\* The page that made the last change tells the user whether the timer runs,
\* as long as rows were not written back over changes and no two timelogs ran
\* at once: a Stop ends one of several, and shows Start.  (For a page that
\* heard every answer and waited for it.)
WidgetTruth ==
    \A p \in Page \ (unaware \cup astray) :
        Quiet(p) /\ changedBy = p /\ ~strayed =>
            (widget[p] <=> getActiveTimeLogForUser # {})
==============================================================================
