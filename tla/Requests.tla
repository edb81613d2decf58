------------------------------- MODULE Requests ------------------------------
(***************************************************************************)
(* What the pages of a browser and the PHP processes that serve them have  *)
(* in common: requests under way.  A page sends a request (fetch) and goes *)
(* on; several may be under way, and nothing keeps them in order.  The     *)
(* process that serves one first starts the session, whose file PHP locks  *)
(* until the request ends (session_start in web.php; it is nowhere closed  *)
(* before), so two handlers overlap only when they serve two sessions.     *)
(* Between what a handler reads and what it writes the requests of other   *)
(* sessions may write.                                                     *)
(*                                                                         *)
(* Each page module extends this one.  A request names an operation, and   *)
(* `arg' and `seen' hold what that operation carries and has read.         *)
(***************************************************************************)
EXTENDS Integers, FiniteSets, FiniteSetsExt

CONSTANTS
    Page,        \* pages of this kind
    Session,     \* sessions: browsers that are logged in
    SessionOf,   \* [Page -> Session]
    MaxRequests  \* bound: requests in a behaviour, at most

ASSUME PagesHaveSessions == SessionOf \in [Page -> Session]
ASSUME RequestBound == MaxRequests \in Nat
ASSUME PagesAreFinite == IsFiniteSet(Page)

VARIABLES
    open,      \* the pages that are open, the same throughout a behaviour
    requests,  \* the requests under way
    left,      \* bound: how many may still be sent; it numbers them
    unaware    \* history: pages that missed an answer since they were loaded

requestVars == <<open, requests, left, unaware>>

RequestsTypeOK ==
    /\ open \subseteq Page
    /\ left \in 0 .. MaxRequests
    /\ unaware \subseteq open
    /\ \A r \in requests :
           /\ r.id \in left + 1 .. MaxRequests
           /\ r.page \in open
           /\ r.at \in {"sent", "loaded", "done", "failed"}

RequestsInit(pages, n) ==
    /\ open = pages
    /\ requests = {}
    /\ left = n
    /\ unaware = {}

\* The pages of one browser share its session.
SameSession(p, q) == SessionOf[p] = SessionOf[q]

\* At most one, or one for each session that has a page open.
OnePerSession(S) ==
    \/ Cardinality(S) <= 1
    \/ Cardinality(S) <= Cardinality({SessionOf[p] : p \in open})

Of(p) == {r \in requests : r.page = p}
Quiet(p) == Of(p) = {}
InHandler(r) == r.at = "loaded"

Request(n, p, op, arg) ==
    [id |-> n, page |-> p, op |-> op, arg |-> arg, at |-> "sent", seen |-> {}]

\* p sends one request.
Send(p, op, arg) ==
    /\ p \in open
    /\ left > 0
    /\ left' = left - 1
    /\ requests' = requests \cup {Request(left, p, op, arg)}
    /\ UNCHANGED <<open, unaware>>

\* p sends two requests.
SendBoth(p, op1, arg1, op2, arg2) ==
    /\ p \in open
    /\ left >= 2
    /\ left' = left - 2
    /\ requests' = requests \cup {Request(left, p, op1, arg1),
                                  Request(left - 1, p, op2, arg2)}
    /\ UNCHANGED <<open, unaware>>

\* The session lock: no handler of p's session is running.
SessionFree(p) == \A q \in requests : InHandler(q) => ~SameSession(q.page, p)
MayStart(r) == r.at = "sent" /\ SessionFree(r.page)

\* The request moves on, with what its handler has read or will answer.
Move(r, at, seen) ==
    /\ requests' = (requests \ {r}) \cup {[r EXCEPT !.at = at, !.seen = seen]}
    /\ UNCHANGED <<open, left, unaware>>

\* Its handler reads, and will write later.
Load(r, op, seen) == r.op = op /\ MayStart(r) /\ Move(r, "loaded", seen)

\* Its handler is about to write what it has prepared.
Writing(r, op) == r.op = op /\ r.at = "loaded"

\* The answer reaches the page.
Answered(r) ==
    /\ requests' = requests \ {r}
    /\ UNCHANGED <<open, left, unaware>>

\* A request or its answer is lost, or its handler dies before it writes: the
\* page, if it is still there, does not learn what became of it.
Lose(r) ==
    /\ requests' = requests \ {r}
    /\ unaware' = unaware \cup {r.page}
    /\ UNCHANGED <<open, left>>

\* A page is loaded again when none of its requests is under way.
Reload(p) ==
    /\ p \in open
    /\ Quiet(p)
    /\ unaware' = unaware \ {p}
    /\ UNCHANGED <<open, requests, left>>
==============================================================================
