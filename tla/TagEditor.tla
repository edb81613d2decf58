------------------------------ MODULE TagEditor ------------------------------
(***************************************************************************)
(* The tags of one object: the modal with the list of them (a TomSelect    *)
(* set up by Autocomplete.ts), the container on the page that shows them   *)
(* (Tags.ts), and the handlers ajaxAddTag, ajaxCreateTag, ajaxRemoveTag    *)
(* and ajaxGetTags.                                                        *)
(*                                                                         *)
(* The modal has no save button: each change sends a request at once and   *)
(* does not look at the answer.  An option of the list has the id of its   *)
(* tag as its value; one the user has just made has its text, which the    *)
(* handlers read as a number all the same (Request::int, intval).  And a   *)
(* text is looked up without its markup, but stored with it.               *)
(***************************************************************************)
EXTENDS Requests

CONSTANTS
    TagText,    \* names of tags
    MaxTagId,   \* bound: ids of tags
    FirstTags,  \* the tags there are at first: a function on 1 .. n
    LeadingInt, \* [TagText -> number a text begins with, or 0]
    Finds       \* [TagText -> names that are found when a text is looked up]

ASSUME TagConstants ==
    /\ MaxTagId \in Nat
    /\ \E n \in 0 .. MaxTagId : FirstTags \in [1 .. n -> TagText]
    /\ LeadingInt \in [TagText -> Nat]
    /\ Finds \in [TagText -> SUBSET TagText]

TagId == 1 .. MaxTagId
Unnamed == "no tag"
ASSUME UnnamedIsNoName == Unnamed \notin TagText
ASSUME TextIsNoId == TagText \cap TagId = {}  \* values of two sorts

VARIABLES
    tagName,    \* table tag: [TagId -> TagText or Unnamed]
    assigned,   \* table tag_assign, without deleted rows: each [row, tag]
    assignRow,  \* the last id given in tag_assign
    items,      \* [Page -> values selected in the modal], ids and texts
    choices,    \* [Page -> ids of the tags it offers]
    made,       \* [Page -> options the user made in it], texts
    editing,    \* pages whose modal is open
    container,  \* [Page -> tags the container shows]
    bound,      \* pages that have the listener bound when they were loaded
    disturbed,  \* history: [Page -> tags that others, a lost request, or two
                \* of its own at once dealt with since it opened the modal]
    missed      \* history: [Page -> tags that were dealt with since the
                \* container was fetched]

tagVars == <<tagName, assigned, assignRow, items, choices, made, editing,
             container, bound, disturbed, missed>>

TagTypeOK ==
    /\ tagName \in [TagId -> TagText \cup {Unnamed}]
    /\ assigned \subseteq [row : 1 .. assignRow, tag : TagId]
    /\ assignRow \in 0 .. MaxTagId + 2 * MaxRequests
    /\ items \in [Page -> SUBSET (TagId \cup TagText)]
    /\ choices \in [Page -> SUBSET TagId]
    /\ made \in [Page -> SUBSET TagText]
    /\ editing \subseteq Page
    /\ container \in [Page -> SUBSET TagId]
    /\ bound \subseteq Page
    /\ disturbed \in [Page -> SUBSET TagText]
    /\ missed \in [Page -> SUBSET TagText]

TagInit ==
    /\ tagName = [i \in TagId |-> IF i \in DOMAIN FirstTags
                                  THEN FirstTags[i] ELSE Unnamed]
    /\ assigned \in {{}, {[row |-> i, tag |-> i] : i \in DOMAIN FirstTags}}
    /\ assignRow = Cardinality(assigned)
    /\ items = [p \in Page |-> {}]
    /\ choices = [p \in Page |-> {}]
    /\ made = [p \in Page |-> {}]
    /\ editing = {}
    /\ container = [p \in Page |-> {a.tag : a \in assigned}]
    /\ bound = Page
    /\ disturbed = [p \in Page |-> {}]
    /\ missed = [p \in Page |-> {}]

------------------------------------------------------------------------------
(* What a request is about. *)

\* The id a handler takes a value for; 0 is refused as empty.
IdOf(v) == IF v \in TagText THEN LeadingInt[v] ELSE v

\* The name of the tag that adding or removing v changes.
NamesOf(v) == {tagName[i] : i \in {IdOf(v)} \cap TagId} \cap TagText

\* The names a request deals with.
Subjects(op, v) ==
    CASE op = "create" -> {v} \cup Finds[v]
      [] op \in {"add", "remove", "assign"} -> NamesOf(v)
      [] OTHER -> {}

\* Those of a request that is not carried out yet.
SubjectsOf(r) == IF r.at = "done" THEN {} ELSE Subjects(r.op, r.arg)
AllSubjects == UNION {SubjectsOf(r) : r \in requests}

\* p has a request about this name under way.
Twice(p, n) == \E r \in Of(p) : n \in SubjectsOf(r)

\* The tags of p's container are being fetched.
Getting(p) == \E r \in Of(p) : r.op = "get"

\* p sends requests about these names: other pages are disturbed by them, and
\* p itself by those of `again'.  What is being fetched may not show them.
Disturb(p, names, again) ==
    /\ disturbed' = [q \in Page |-> disturbed[q] \cup
                         IF q # p THEN names ELSE again]
    /\ missed' = [q \in Page |-> missed[q] \cup
                      IF q # p \/ Getting(p) THEN names ELSE {}]
DisturbTwice(p, names) == Disturb(p, names, {n \in names : Twice(p, n)})

Rows(i) == {a.row : a \in {b \in assigned : b.tag = i}}
AssignedTags == {a.tag : a \in assigned}

\* Names of tags that are assigned more than once, or share their name.
Doubled == TagText \cap {tagName[i] : i \in {j \in TagId :
              \/ Cardinality(Rows(j)) > 1
              \/ \E k \in TagId \ {j} : tagName[k] = tagName[j]}}

------------------------------------------------------------------------------
(* The page. *)

\* The modal is loaded with the tags there are as its options and those that
\* are assigned as its items, beside the requests that are under way.
openTags(p) ==
    /\ p \in open \ editing
    /\ SessionFree(p)
    /\ editing' = editing \cup {p}
    /\ items' = [items EXCEPT ![p] = AssignedTags]
    /\ choices' = [choices EXCEPT ![p] =
                      {i \in TagId : tagName[i] # Unnamed}]
    /\ made' = [made EXCEPT ![p] = {}]
    /\ disturbed' = [disturbed EXCEPT ![p] =
           Doubled \cup AllSubjects]
    /\ UNCHANGED <<requestVars, tagName, assigned, assignRow, container, bound,
                   missed>>

\* Choosing an option, one that was loaded or one made on this page.
onItemAdd(p) ==
    /\ p \in editing
    /\ \E v \in choices[p] \cup made[p] :
           /\ v \notin items[p]
           /\ items' = [items EXCEPT ![p] = @ \cup {v}]
           /\ Send(p, "add", v)
           /\ DisturbTwice(p, Subjects("add", v))
    /\ UNCHANGED <<tagName, assigned, assignRow, choices, made, editing,
                   container, bound>>

onItemRemove(p) ==
    /\ p \in editing
    /\ \E v \in items[p] :
           /\ items' = [items EXCEPT ![p] = @ \ {v}]
           /\ Send(p, "remove", v)
           /\ DisturbTwice(p, Subjects("remove", v))
    /\ UNCHANGED <<tagName, assigned, assignRow, choices, made, editing,
                   container, bound>>

\* Typing a text that is no option makes one and selects it, which sends two
\* requests: ajaxCreateTag for the option and ajaxAddTag for the item.  It
\* may be the name of a tag there is, which then stands in the list twice.
onItemCreate(p) ==
    /\ p \in editing
    /\ \E t \in TagText \ made[p] :
           LET names == {t} \cup Finds[t] \cup NamesOf(t) IN
           /\ items' = [items EXCEPT ![p] = @ \cup {t}]
           /\ made' = [made EXCEPT ![p] = @ \cup {t}]
           /\ SendBoth(p, "create", t, "add", t)
           /\ Disturb(p, names,
                      {n \in names : \/ Twice(p, n)
                                     \/ \E i \in TagId : tagName[i] = t})
    /\ UNCHANGED <<tagName, assigned, assignRow, choices, editing, container,
                   bound>>

\* Tags.bind: when the modal is hidden the container is emptied and fetched
\* again, by the listener that was bound at its opening and, the first time,
\* also by that of the load of the page.  What is under way then may be
\* served after it, and what is still being fetched be answered later.
closeTags(p) ==
    /\ p \in editing
    /\ editing' = editing \ {p}
    /\ IF p \in bound THEN SendBoth(p, "get", 0, "get", 0) ELSE Send(p, "get", 0)
    /\ bound' = bound \ {p}
    /\ container' = [container EXCEPT ![p] = {}]
    /\ missed' = [missed EXCEPT ![p] =
                      AllSubjects \cup IF Getting(p) THEN @ ELSE {}]
    /\ UNCHANGED <<tagName, assigned, assignRow, items, choices, made,
                   disturbed>>

------------------------------------------------------------------------------
(* The handlers. *)

\* ajaxAddTag and ajaxRemoveTag give up on an empty id or an unknown tag, and
\* else look for the assignment.
LookUpAssign(r) ==
    /\ r.op \in {"add", "remove"}
    /\ IF IdOf(r.arg) \in TagId /\ tagName[IdOf(r.arg)] # Unnamed
       THEN Load(r, r.op, Rows(IdOf(r.arg)))
       ELSE MayStart(r) /\ Move(r, "done", {})
    /\ UNCHANGED tagVars

\* Mutant: the row has no id of its own.
AssignWithoutId(i) ==
    /\ assigned' = assigned \cup {[row |-> assignRow, tag |-> i]}
    /\ UNCHANGED assignRow

\* A new row of tag_assign.
Assign(i) ==
    /\ assignRow' = assignRow + 1
    /\ assigned' = assigned \cup {[row |-> assignRow + 1, tag |-> i]}

\* Mutant: the handler inserts without having looked.
AddTagAgain(r) ==
    /\ Writing(r, "add")
    /\ Assign(IdOf(r.arg))
    /\ Move(r, "done", {})
    /\ UNCHANGED <<tagName, items, choices, made, editing, container, bound,
                   disturbed, missed>>

ajaxAddTag(r) ==
    /\ Writing(r, "add")
    /\ IF r.seen = {} THEN Assign(IdOf(r.arg))
                      ELSE UNCHANGED <<assigned, assignRow>>
    /\ Move(r, "done", {})
    /\ UNCHANGED <<tagName, items, choices, made, editing, container, bound,
                   disturbed, missed>>

\* Mutant: the handler does not delete.
RemoveNothing(r) ==
    /\ Writing(r, "remove")
    /\ Move(r, "done", {})
    /\ UNCHANGED tagVars

\* One row of those it found is deleted, the first.
ajaxRemoveTag(r) ==
    /\ Writing(r, "remove")
    /\ assigned' = {a \in assigned :
                       ~(a.row \in r.seen /\ a.row = Min(r.seen))}
    /\ Move(r, "done", {})
    /\ UNCHANGED <<tagName, assignRow, items, choices, made, editing,
                   container, bound, disturbed, missed>>

\* ajaxCreateTag looks for a tag with the name without its markup ...
LookUpTag(r) ==
    /\ Load(r, "create", {i \in TagId : tagName[i] \in Finds[r.arg]})
    /\ UNCHANGED tagVars

NextTagId == CHOOSE i \in TagId : /\ tagName[i] = Unnamed
                                  /\ \A j \in 1 .. i - 1 : tagName[j] # Unnamed

\* A request is under way that will take its text for id i, and that text
\* was not made in p's modal as it is open.
Misdirected(p, i) ==
    \E q \in requests : /\ q.op \in {"add", "remove"}
                        /\ q.at = "sent"
                        /\ IdOf(q.arg) = i
                        /\ ~(q.page = p /\ q.arg \in made[p])

\* ... inserts one with the text as it is if there is none, looks for its
\* assignment ...
NameTag(r) ==
    LET i == IF r.seen = {} THEN NextTagId ELSE Min(r.seen) IN
    /\ Writing(r, "create")
    /\ r.seen = {} => \E j \in TagId : tagName[j] = Unnamed
    /\ tagName' = IF r.seen = {} THEN [tagName EXCEPT ![i] = r.arg] ELSE tagName
    /\ requests' = (requests \ {r}) \cup
           {[r EXCEPT !.op = "assign", !.arg = i, !.seen = Rows(i)]}
    /\ UNCHANGED <<open, left, unaware>>
    /\ disturbed' = [p \in Page |-> disturbed[p] \cup
           IF r.seen = {} /\ (\/ \E j \in TagId : tagName[j] = r.arg
                             \/ Misdirected(p, i))
           THEN {r.arg} ELSE {}]
    /\ UNCHANGED <<assigned, assignRow, items, choices, made, editing,
                   container, bound, missed>>

\* ... and inserts that if there is none.
ajaxCreateTag(r) ==
    /\ Writing(r, "assign")
    /\ IF r.seen = {} THEN Assign(r.arg) ELSE UNCHANGED <<assigned, assignRow>>
    /\ Move(r, "done", {})
    /\ UNCHANGED <<tagName, items, choices, made, editing, container, bound,
                   disturbed, missed>>

\* Mutant: the tags of all objects.
GetAllTags(r) ==
    /\ r.op = "get"
    /\ MayStart(r)
    /\ Move(r, "done", {i \in TagId : tagName[i] # Unnamed})
    /\ UNCHANGED tagVars

ajaxGetTags(r) ==
    /\ r.op = "get"
    /\ MayStart(r)
    /\ Move(r, "done", AssignedTags)
    /\ UNCHANGED tagVars

------------------------------------------------------------------------------
(* The answers: only that of ajaxGetTags is looked at. *)

\* Tags.update empties the container before it fills it.
ShowTags(r) ==
    container' = [container EXCEPT ![r.page] = r.seen]

TagAnswered(r) ==
    /\ r.at = "done"
    /\ Answered(r)
    /\ IF r.op = "get" THEN ShowTags(r) ELSE UNCHANGED container
    /\ UNCHANGED <<tagName, assigned, assignRow, items, choices, made,
                   editing, bound, disturbed, missed>>

\* The modal and the container do not learn of it.
TagLost(r) ==
    /\ Lose(r)
    /\ disturbed' = [disturbed EXCEPT ![r.page] = @ \cup SubjectsOf(r)]
    /\ missed' = [missed EXCEPT ![r.page] =
                      @ \cup IF r.op = "get" THEN TagText ELSE {}]
    /\ UNCHANGED <<tagName, assigned, assignRow, items, choices, made, editing,
                   container, bound>>

TagNext ==
    \/ \E p \in Page : \/ openTags(p) \/ onItemAdd(p) \/ onItemRemove(p)
                       \/ onItemCreate(p) \/ closeTags(p)
    \/ \E r \in requests :
           \/ LookUpAssign(r) \/ ajaxAddTag(r) \/ ajaxRemoveTag(r)
           \/ LookUpTag(r) \/ NameTag(r) \/ ajaxCreateTag(r)
           \/ ajaxGetTags(r) \/ TagAnswered(r) \/ TagLost(r)

------------------------------------------------------------------------------
(* Properties. *)

\* The names the page has selected.
SelectedNames(p) ==
    {IF v \in TagText THEN v ELSE tagName[v] : v \in items[p]}

AssignedNames == {tagName[i] : i \in AssignedTags}

\* Names that texts made in the modal are taken for: those of the tags whose
\* ids they begin with, and those they are looked up as.
Misread(p) ==
    UNION {NamesOf(t) \cup IF Finds[t] = {t} THEN {} ELSE {t} \cup Finds[t] :
               t \in made[p]}

\* Once its requests are through, the modal shows the tags that are assigned,
\* as far as nobody else dealt with them, no request about them was lost or
\* still under way when the modal was opened, and the user did not change one
\* again before the first change was through.  There are three exceptions:
\* a tag made in the modal stays assigned when it is removed there, for its
\* text is taken for an id; a text that begins with a number adds and removes
\* the tag with that id; and a text with markup assigns the tag that is named
\* without it.
ModalIsStored ==
    \A p \in editing :
        Quiet(p) => \A n \in TagText \ (disturbed[p] \cup Misread(p)) :
            /\ n \in SelectedNames(p) => n \in AssignedNames
            /\ n \in AssignedNames => n \in SelectedNames(p) \cup made[p]

\* After the modal is closed the container shows what is assigned, however
\* often the modal was opened and closed and in whatever order the answers
\* come, but for the tags that were dealt with by others, that were still
\* being dealt with at the closing, or that were changed while the tags of an
\* earlier closing were being fetched, and if no answer was lost.
ContainerIsStored ==
    \A p \in Page \ editing :
        ~Getting(p) => \A i \in TagId :
            tagName[i] \in TagText \ missed[p] =>
                (i \in container[p] <=> i \in AssignedTags)

\* Tabs of one session cannot assign a tag twice, nor make two with one name
\* that is found by itself (one without markup), for the handlers look before
\* they insert and the session is locked; each further session that does the
\* same at the same time can add one.
OneTagPerSession ==
    \A i \in TagId :
        /\ OnePerSession(Rows(i))
        /\ tagName[i] # Unnamed /\ tagName[i] \in Finds[tagName[i]] =>
              OnePerSession({j \in TagId : tagName[j] = tagName[i]})
==============================================================================
