------------------------------ MODULE PageProofs ------------------------------
(***************************************************************************)
(* Theorems about the favourites, the timer, the tags and the second       *)
(* factor of Browser, for any number of pages, sessions and requests.      *)
(* Those about rows are about handlers that look before they insert: such  *)
(* as found nothing, and may still insert, count like rows.  One that      *)
(* looks and finds nothing has only others of that sort beside it, and a   *)
(* session has one handler.  Those about what a page shows say what it     *)
(* will show once its requests are through, as they stand.  The types of   *)
(* all of Browser follow from these and from the invariants of uploads and *)
(* passkeys.                                                               *)
(***************************************************************************)
EXTENDS BrowserProofs, PasskeyProofs

------------------------------------------------------------------------------
(* Requests. *)

Handling == {r \in requests : InHandler(r)}

FlowInv ==
    /\ RequestsInv
    /\ IsFiniteSet(requests)
    /\ open \subseteq Page
    /\ \A r \in requests : r.page \in open
    /\ \A r, q \in Handling : SameSession(r.page, q.page) => r = q

LEMMA FlowSent ==
    ASSUME FlowInv, NEW p \in Page, NEW op, NEW arg, Send(p, op, arg)
    PROVE  /\ FlowInv'
           /\ open' = open /\ unaware' = unaware /\ Handling' = Handling
           /\ left > 0 /\ left' = left - 1
           /\ \E new : /\ requests' = requests \cup {new}
                       /\ new.id = left /\ new.page = p /\ new.op = op
                       /\ new.arg = arg /\ new.at = "sent" /\ new.seen = {}
  <1>1. PICK new : /\ requests' = requests \cup {new}
                   /\ new.id = left /\ new.page = p /\ new.op = op
                   /\ new.arg = arg /\ new.at = "sent" /\ new.seen = {}
    BY Sent DEF FlowInv
  <1>2. /\ p \in open /\ open' = open /\ unaware' = unaware
        /\ left > 0 /\ left' = left - 1
    BY DEF Send
  <1>3. Handling' = Handling
    BY <1>1 DEF Handling, InHandler
  <1>4. RequestsInv'
    BY Sent DEF FlowInv
  <1>5. IsFiniteSet(requests')
    BY <1>1, FS_AddElement DEF FlowInv
  <1>6. \A r \in requests' : r.page \in open'
    BY <1>1, <1>2 DEF FlowInv
  <1>7. FlowInv'
    BY <1>2, <1>3, <1>4, <1>5, <1>6 DEF FlowInv, SameSession
  <1> QED
    BY <1>1, <1>2, <1>3, <1>7

LEMMA FlowMoved ==
    ASSUME FlowInv, NEW r \in requests, NEW at, NEW seen, at # r.at,
           Move(r, at, seen), at = "loaded" => MayStart(r)
    PROVE  /\ FlowInv'
           /\ open' = open /\ unaware' = unaware /\ left' = left
           /\ \E new : /\ requests' = (requests \ {r}) \cup {new}
                       /\ new \notin requests
                       /\ new.id = r.id /\ new.page = r.page /\ new.op = r.op
                       /\ new.arg = r.arg /\ new.at = at /\ new.seen = seen
  <1>1. PICK new : /\ requests' = (requests \ {r}) \cup {new}
                   /\ new.id = r.id /\ new.page = r.page /\ new.op = r.op
                   /\ new.arg = r.arg /\ new.at = at /\ new.seen = seen
    BY Moved DEF FlowInv
  <1>2. RequestsInv' /\ left' = left
    BY Moved DEF FlowInv
  <1>3. open' = open /\ unaware' = unaware
    BY DEF Move
  <1>4. new \notin requests
    BY <1>1 DEF FlowInv, RequestsInv
  <1>5. IsFiniteSet(requests')
    BY <1>1, FS_AddElement, FS_RemoveElement DEF FlowInv
  <1>6. \A q \in requests' : q.page \in open'
    BY <1>1, <1>3 DEF FlowInv
  <1>7. \A q, s \in Handling' : SameSession(q.page, s.page) => q = s
    <2>1. CASE at = "loaded"
      <3>1. \A q \in requests : InHandler(q) => ~SameSession(q.page, r.page)
        BY <2>1 DEF MayStart, SessionFree
      <3>2. \A q \in Handling' : q = new \/ (q \in Handling /\ q # r)
        BY <1>1 DEF Handling, InHandler
      <3>3. \A q \in Handling : ~SameSession(q.page, new.page)
                                /\ ~SameSession(new.page, q.page)
        BY <1>1, <3>1 DEF Handling, SameSession
      <3> QED
        BY <3>2, <3>3 DEF FlowInv
    <2>2. CASE at # "loaded"
      <3>1. Handling' \subseteq Handling
        BY <1>1, <2>2 DEF Handling, InHandler
      <3> QED
        BY <3>1 DEF FlowInv
    <2> QED
      BY <2>1, <2>2
  <1>8. FlowInv'
    BY <1>2, <1>3, <1>5, <1>6, <1>7 DEF FlowInv, SameSession
  <1> QED
    BY <1>1, <1>2, <1>3, <1>4, <1>8

LEMMA FlowGone ==
    ASSUME FlowInv, NEW r \in requests, Answered(r) \/ Lose(r)
    PROVE  /\ FlowInv'
           /\ open' = open /\ left' = left /\ requests' = requests \ {r}
           /\ Handling' \subseteq Handling
  <1>1. open' = open /\ left' = left /\ requests' = requests \ {r}
    BY DEF Answered, Lose
  <1>2. RequestsInv'
    BY Gone DEF FlowInv
  <1>3. IsFiniteSet(requests')
    BY <1>1, FS_RemoveElement DEF FlowInv
  <1>4. Handling' \subseteq Handling
    BY <1>1 DEF Handling, InHandler
  <1>5. FlowInv'
    BY <1>1, <1>2, <1>3, <1>4 DEF FlowInv, SameSession
  <1> QED
    BY <1>1, <1>4, <1>5

\* A handler ends or fails, ...
LEMMA HandlerEnds ==
    ASSUME FlowInv, NEW r \in requests, r.at \in {"sent", "loaded"},
           NEW at \in {"done", "failed"}, NEW seen, Move(r, at, seen)
    PROVE  /\ FlowInv' /\ open' = open /\ left' = left
           /\ Handling' \subseteq Handling \ {r}
  <1>1. PICK new : /\ requests' = (requests \ {r}) \cup {new}
                   /\ new.at = at
    BY FlowMoved
  <1>2. r \notin requests'
    BY <1>1
  <1>3. Handling' \subseteq Handling \ {r}
    BY <1>1, <1>2 DEF Handling, InHandler
  <1> QED
    BY <1>3, FlowMoved

\* ... or begins.
LEMMA HandlerBegins ==
    ASSUME FlowInv, NEW r \in requests, NEW seen, MayStart(r),
           Move(r, "loaded", seen)
    PROVE  /\ FlowInv' /\ open' = open /\ left' = left
           /\ \E new : /\ Handling' = Handling \cup {new}
                       /\ new.id = r.id /\ new.page = r.page /\ new.op = r.op
                       /\ new.arg = r.arg /\ new.seen = seen
  <1>1. r.at = "sent"
    BY DEF MayStart
  <1>2. PICK new : /\ requests' = (requests \ {r}) \cup {new}
                   /\ new.id = r.id /\ new.page = r.page /\ new.op = r.op
                   /\ new.arg = r.arg /\ new.at = "loaded" /\ new.seen = seen
    BY <1>1, FlowMoved
  <1>3. Handling' = Handling \cup {new}
    BY <1>1, <1>2 DEF Handling, InHandler
  <1> QED
    BY <1>1, <1>2, <1>3, FlowMoved

\* There are no more handlers than sessions.
Sessions == {SessionOf[p] : p \in open}

LEMMA NoTwoOfASession ==
    ASSUME NEW O \in SUBSET Page, NEW H, \A r \in H : r.page \in O,
           \A r, q \in H : SameSession(r.page, q.page) => r = q
    PROVE  LET S == {SessionOf[p] : p \in O}
           IN  /\ IsFiniteSet(H)
               /\ Cardinality(H) \in Nat /\ Cardinality(S) \in Nat
               /\ Cardinality(H) <= Cardinality(S)
  <1> DEFINE S == {SessionOf[p] : p \in O}
             f == [r \in H |-> SessionOf[r.page]]
  <1>1. IsFiniteSet(O)
    BY PagesAreFinite, FS_Subset
  <1>2. [p \in O |-> SessionOf[p]] \in Surjection(O, S)
    BY DEF Surjection
  <1>3. IsFiniteSet(S)
    BY <1>1, <1>2, FS_Surjection
  <1>4. f \in [H -> S]
    OBVIOUS
  <1>5. IsInjective(f)
    BY DEF IsInjective, SameSession
  <1>6. f \in Injection(H, S)
    BY <1>4, <1>5 DEF Injection
  <1> HIDE DEF S, f
  <1>7. /\ IsFiniteSet(H)
        /\ Cardinality(H) \in Nat /\ Cardinality(S) \in Nat
        /\ Cardinality(H) <= Cardinality(S)
    BY <1>3, <1>6, FS_Injection, FS_CardinalityType
  <1> QED
    BY <1>7 DEF S

LEMMA OneEach ==
    ASSUME FlowInv, NEW H \in SUBSET Handling
    PROVE  /\ IsFiniteSet(H)
           /\ Cardinality(H) \in Nat /\ Cardinality(Sessions) \in Nat
           /\ Cardinality(H) <= Cardinality(Sessions)
  <1>1. /\ open \in SUBSET Page /\ \A r \in H : r.page \in open
        /\ \A r, q \in H : SameSession(r.page, q.page) => r = q
    BY DEF FlowInv, Handling
  <1> QED
    BY <1>1, NoTwoOfASession DEF Sessions

LEMMA OneEachThen ==
    ASSUME FlowInv', NEW H \in SUBSET (Handling')
    PROVE  /\ IsFiniteSet(H)
           /\ Cardinality(H) \in Nat /\ Cardinality(Sessions') \in Nat
           /\ Cardinality(H) <= Cardinality(Sessions')
  <1>1. /\ open' \in SUBSET Page /\ \A r \in H : r.page \in open'
        /\ \A r, q \in H : SameSession(r.page, q.page) => r = q
    BY DEF FlowInv, Handling, SameSession
  <1> QED
    BY <1>1, NoTwoOfASession DEF Sessions

LEMMA FlowRests ==
    ASSUME FlowInv, UNCHANGED <<open, requests, left>>
    PROVE  FlowInv' /\ Handling' = Handling
  BY DEF FlowInv, RequestsInv, WellFormed, Handling, InHandler, SameSession

LEMMA FlowStarts == Init => FlowInv
  <1> SUFFICES ASSUME Init PROVE FlowInv
    OBVIOUS
  <1>1. PICK o \in Openings : RequestsInit(o.pages, o.requests)
    BY DEF Init
  <1>2. requests = {} /\ left \in Nat /\ open \subseteq Page
    BY <1>1, OpeningsAreKinds, RequestBound DEF RequestsInit
  <1> QED
    BY <1>2, FS_EmptySet DEF FlowInv, RequestsInv, Handling

------------------------------------------------------------------------------
(* Favourites: what a page misses of the row's turns is what others turned  *)
(* and answers under way.                                                   *)

Pending(p) == {r \in requests : r.page = p /\ r.at \in {"done", "failed"}}
IsOdd(n) == n % 2 = 1
OddPending(p) == IsOdd(Cardinality(Pending(p)))

Stored == favorites # {}

FavouriteInv ==
    /\ FlowInv
    /\ star \in [Page -> BOOLEAN]
    /\ favorites \subseteq Nat
    /\ ~raced => favorites = {} \/ \E k : favorites = {k}
    /\ ~raced => \A p \in Page \ unaware :
           (star[p] <=> Stored) <=> (p \in odd <=> OddPending(p))

LEMMA OneMore ==
    ASSUME NEW S, NEW x, IsFiniteSet(S), x \notin S
    PROVE  IsOdd(Cardinality(S \cup {x})) <=> ~IsOdd(Cardinality(S))
  <1>1. /\ Cardinality(S) \in Nat
        /\ Cardinality(S \cup {x}) = Cardinality(S) + 1
    BY FS_AddElement, FS_CardinalityType
  <1>2. \A n \in Nat : IsOdd(n + 1) <=> ~IsOdd(n)
    BY DEF IsOdd
  <1> QED
    BY <1>1, <1>2

LEMMA OneLess ==
    ASSUME NEW S, NEW x \in S, IsFiniteSet(S)
    PROVE  IsOdd(Cardinality(S \ {x})) <=> ~IsOdd(Cardinality(S))
  <1>1. IsFiniteSet(S \ {x})
    BY FS_RemoveElement
  <1>2. S = (S \ {x}) \cup {x} /\ x \notin S \ {x}
    OBVIOUS
  <1> QED
    BY <1>1, <1>2, OneMore

LEMMA PendingIsFinite ==
    ASSUME FlowInv, NEW p
    PROVE  IsFiniteSet(Pending(p))
  <1>1. Pending(p) \subseteq requests
    BY DEF Pending
  <1> QED
    BY <1>1, FS_Subset DEF FlowInv

\* An answer comes under way.
LEMMA AnswerMade ==
    ASSUME FlowInv, NEW r \in requests, r.at = "loaded",
           NEW at \in {"done", "failed"}, Move(r, at, {})
    PROVE  /\ FlowInv' /\ unaware' = unaware
           /\ \A p : OddPending(p)' <=> IF p = r.page THEN ~OddPending(p)
                                        ELSE OddPending(p)
  <1>1. FlowInv' /\ unaware' = unaware
    BY FlowMoved
  <1>2. PICK new : /\ requests' = (requests \ {r}) \cup {new}
                   /\ new \notin requests
                   /\ new.page = r.page /\ new.at = at
    BY FlowMoved
  <1>3. ASSUME NEW p, p # r.page PROVE Pending(p)' = Pending(p)
    BY <1>2, <1>3 DEF Pending
  <1>4. /\ Pending(r.page)' = Pending(r.page) \cup {new}
        /\ new \notin Pending(r.page)
    BY <1>2 DEF Pending
  <1>5. OddPending(r.page)' <=> ~OddPending(r.page)
    BY <1>4, OneMore, PendingIsFinite DEF OddPending
  <1> QED
    BY <1>1, <1>3, <1>5 DEF OddPending

LEMMA FavouriteSteps ==
    ASSUME FavouriteInv, FavouriteNext
    PROVE  FavouriteInv'
  <1> USE DEF FavouriteInv, Stored
  <1>1. ASSUME NEW p \in Page, openStar(p) PROVE FavouriteInv'
    <2>1. /\ UNCHANGED <<open, requests, left, favorites, raced>>
          /\ star' = [star EXCEPT ![p] = favorites # {}]
          /\ odd' = odd \ {p} /\ unaware' = unaware \ {p}
          /\ Quiet(p)
      BY <1>1 DEF openStar, Reload
    <2>2. FlowInv'
      BY <2>1, FlowRests
    <2>3. star' \in [Page -> BOOLEAN]
      BY <2>1
    <2>4. Pending(p)' = {} /\ \A q : Pending(q)' = Pending(q)
      BY <2>1 DEF Quiet, Of, Pending
    <2>5. ~OddPending(p)'
      BY <2>4, FS_EmptySet DEF OddPending, IsOdd
    <2>6. \A q : OddPending(q)' <=> OddPending(q)
      BY <2>4 DEF OddPending
    <2>7. ASSUME ~raced', NEW q \in Page \ unaware'
          PROVE  (star'[q] <=> Stored') <=> (q \in odd' <=> OddPending(q)')
      <3>1. CASE q = p
        BY <2>1, <2>5, <3>1
      <3>2. CASE q # p
        BY <2>1, <2>6, <2>7, <3>2
      <3> QED
        BY <3>1, <3>2
    <2> QED
      BY <2>1, <2>2, <2>3, <2>7
  <1>2. ASSUME NEW p \in Page, clickEvent(p) PROVE FavouriteInv'
    <2>1. UNCHANGED <<favorites, star, odd, raced>>
      BY <1>2 DEF clickEvent, favouriteVars
    <2>2. FlowInv' /\ unaware' = unaware
      BY <1>2, FlowSent DEF clickEvent
    <2>3. PICK new : requests' = requests \cup {new} /\ new.at = "sent"
      BY <1>2, FlowSent DEF clickEvent
    <2>4. \A q : Pending(q)' = Pending(q)
      BY <2>3 DEF Pending
    <2> QED
      BY <2>1, <2>2, <2>4 DEF OddPending
  <1>3. ASSUME NEW r \in requests, getFavorite(r) PROVE FavouriteInv'
    <2>1. UNCHANGED <<favorites, star, odd, raced>>
      BY <1>3 DEF getFavorite, favouriteVars
    <2>2. r.at = "sent" /\ MayStart(r) /\ Move(r, "loaded", favorites)
      BY <1>3 DEF getFavorite, Load, MayStart
    <2>3. FlowInv' /\ unaware' = unaware
      BY <2>2, FlowMoved
    <2>4. PICK new : /\ requests' = (requests \ {r}) \cup {new}
                     /\ new.at = "loaded"
      BY <2>2, FlowMoved
    <2>5. \A q : Pending(q)' = Pending(q)
      BY <2>2, <2>4 DEF Pending
    <2> QED
      BY <2>1, <2>3, <2>5 DEF OddPending
  <1>4. ASSUME NEW r \in requests, ajaxEditFavorites(r) PROVE FavouriteInv'
    <2>1. /\ r.at = "loaded" /\ Move(r, "done", {}) /\ star' = star
          /\ favorites' = IF r.seen = {} THEN favorites \cup {r.id}
                          ELSE favorites \ {Min(r.seen)}
          /\ raced' = (raced \/ favorites # r.seen)
          /\ Flip(Page \ {r.page})
      BY <1>4 DEF ajaxEditFavorites, Writing, TurnFavorite
    <2>2. /\ FlowInv' /\ unaware' = unaware
          /\ \A p : OddPending(p)' <=> IF p = r.page THEN ~OddPending(p)
                                       ELSE OddPending(p)
      BY <2>1, AnswerMade
    <2>3. favorites' \subseteq Nat
      BY <2>1 DEF FlowInv, RequestsInv
    <2>4. ASSUME ~raced'
          PROVE  /\ ~raced
                 /\ favorites' = {} \/ \E k : favorites' = {k}
                 /\ favorites' = {} <=> favorites # {}
      <3>1. ~raced /\ favorites = r.seen
        BY <2>1, <2>4
      <3>2. CASE favorites = {}
        BY <2>1, <3>1, <3>2
      <3>3. CASE \E k : favorites = {k}
        <4>1. PICK k : favorites = {k}
          BY <3>3
        <4>2. Min(r.seen) = k
          BY <3>1, <4>1 DEF Min
        <4> QED
          BY <2>1, <3>1, <4>1, <4>2
      <3> QED
        BY <3>1, <3>2, <3>3
    <2>5. \A p \in Page : p \in odd' <=> IF p = r.page THEN p \in odd
                                         ELSE p \notin odd
      BY <2>1 DEF Flip
    <2>6. ASSUME ~raced', NEW p \in Page \ unaware'
          PROVE  (star'[p] <=> Stored') <=> (p \in odd' <=> OddPending(p)')
      <3>1. (star[p] <=> Stored) <=> (p \in odd <=> OddPending(p))
        BY <2>2, <2>4, <2>6
      <3>2. Stored' <=> ~Stored
        BY <2>4, <2>6
      <3>3. star[p] \in BOOLEAN /\ star'[p] = star[p]
        BY <2>1
      <3>4. CASE p = r.page
        BY <2>2, <2>5, <3>1, <3>2, <3>3, <3>4
      <3>5. CASE p # r.page
        BY <2>2, <2>5, <3>1, <3>2, <3>3, <3>5
      <3> QED
        BY <3>4, <3>5
    <2> QED
      BY <2>1, <2>2, <2>3, <2>4, <2>6
  <1>5. ASSUME NEW r \in requests, EditFails(r) PROVE FavouriteInv'
    <2>1. /\ r.at = "loaded" /\ Move(r, "failed", {}) /\ Flip({r.page})
          /\ UNCHANGED <<favorites, star, raced>>
      BY <1>5 DEF EditFails, Writing
    <2>2. /\ FlowInv' /\ unaware' = unaware
          /\ \A p : OddPending(p)' <=> IF p = r.page THEN ~OddPending(p)
                                       ELSE OddPending(p)
      BY <2>1, AnswerMade
    <2>3. \A p \in Page : p \in odd' <=> IF p = r.page THEN p \notin odd
                                         ELSE p \in odd
      BY <2>1 DEF Flip
    <2>4. ASSUME ~raced', NEW p \in Page \ unaware'
          PROVE  (star'[p] <=> Stored') <=> (p \in odd' <=> OddPending(p)')
      <3>1. (star[p] <=> Stored) <=> (p \in odd <=> OddPending(p))
        BY <2>1, <2>2, <2>4
      <3>2. CASE p = r.page
        BY <2>1, <2>2, <2>3, <3>1, <3>2
      <3>3. CASE p # r.page
        BY <2>1, <2>2, <2>3, <3>1, <3>3
      <3> QED
        BY <3>2, <3>3
    <2> QED
      BY <2>1, <2>2, <2>4
  <1>6. ASSUME NEW r \in requests, StarAnswered(r) PROVE FavouriteInv'
    <2>1. /\ r.at \in {"done", "failed"} /\ Answered(r)
          /\ star' = [star EXCEPT ![r.page] = ~@]
          /\ UNCHANGED <<favorites, odd, raced>>
      BY <1>6 DEF StarAnswered
    <2>2. FlowInv' /\ requests' = requests \ {r} /\ unaware' = unaware
      BY <2>1, FlowGone DEF Answered
    <2>3. Pending(r.page)' = Pending(r.page) \ {r} /\ r \in Pending(r.page)
      BY <2>1, <2>2 DEF Pending
    <2>4. OddPending(r.page)' <=> ~OddPending(r.page)
      BY <2>3, OneLess, PendingIsFinite DEF OddPending
    <2>5. ASSUME NEW p, p # r.page PROVE OddPending(p)' <=> OddPending(p)
      <3>1. Pending(p)' = Pending(p)
        BY <2>2, <2>5 DEF Pending
      <3> QED
        BY <3>1 DEF OddPending
    <2>6. star' \in [Page -> BOOLEAN]
      BY <2>1
    <2>7. ASSUME ~raced', NEW p \in Page \ unaware'
          PROVE  (star'[p] <=> Stored') <=> (p \in odd' <=> OddPending(p)')
      <3>1. (star[p] <=> Stored) <=> (p \in odd <=> OddPending(p))
        BY <2>1, <2>2, <2>7
      <3>2. CASE p = r.page
        <4>1. star[p] \in BOOLEAN /\ star'[p] = ~star[p]
          BY <2>1, <3>2
        <4> QED
          BY <2>1, <2>4, <3>1, <3>2, <4>1
      <3>3. CASE p # r.page
        <4>1. star'[p] = star[p]
          BY <2>1, <3>3
        <4> QED
          BY <2>1, <2>5, <3>1, <3>3, <4>1
      <3> QED
        BY <3>2, <3>3
    <2> QED
      BY <2>1, <2>2, <2>6, <2>7
  <1>7. ASSUME NEW r \in requests, StarLost(r) PROVE FavouriteInv'
    <2>1. Lose(r) /\ UNCHANGED <<favorites, star, odd, raced>>
      BY <1>7 DEF StarLost, favouriteVars
    <2>2. /\ FlowInv' /\ requests' = requests \ {r}
          /\ unaware' = unaware \cup {r.page}
      BY <2>1, FlowGone DEF Lose
    <2>3. ASSUME NEW p, p # r.page PROVE OddPending(p)' <=> OddPending(p)
      <3>1. Pending(p)' = Pending(p)
        BY <2>2, <2>3 DEF Pending
      <3> QED
        BY <3>1 DEF OddPending
    <2> QED
      BY <2>1, <2>2, <2>3
  <1> QED
    BY <1>1, <1>2, <1>3, <1>4, <1>5, <1>6, <1>7 DEF FavouriteNext

FavouriteRest ==
    kind # "favourite" => /\ favorites = {} /\ odd = {}
                          /\ star = [p \in Page |-> FALSE]
FavouriteKind == FavouriteRest /\ (kind = "favourite" => FavouriteInv)

LEMMA FavouriteStarts == Init => FavouriteKind
  <1> SUFFICES ASSUME Init PROVE FavouriteKind
    OBVIOUS
  <1>1. FlowInv /\ requests = {}
    BY FlowStarts DEF Init, RequestsInit
  <1>2. /\ favorites = {} /\ odd = {} /\ star = [p \in Page |-> FALSE]
    BY DEF Init, FavouriteInit
  <1>3. \A p : ~OddPending(p)
    <2>1. \A p : Pending(p) = {}
      BY <1>1 DEF Pending
    <2> QED
      BY <2>1, FS_EmptySet DEF OddPending, IsOdd
  <1>4. \A p \in Page : star[p] = FALSE
    BY <1>2
  <1> QED
    BY <1>1, <1>2, <1>3, <1>4
       DEF FavouriteKind, FavouriteRest, FavouriteInv, Stored

LEMMA FavouriteKept == FavouriteKind /\ [Next]_browserVars => FavouriteKind'
  <1> SUFFICES ASSUME FavouriteKind, [Next]_browserVars PROVE FavouriteKind'
    OBVIOUS
  <1>1. UNCHANGED kind
    BY DEF Next, browserVars, NextUpload, NextSecurity, NextTags,
           NextFavourite, NextTimelog, NextPasskeys
  <1>2. CASE NextFavourite
    <2>1. FavouriteInv'
      BY <1>2, FavouriteSteps DEF NextFavourite, FavouriteKind
    <2> QED
      BY <1>1, <1>2, <2>1 DEF NextFavourite, FavouriteKind, FavouriteRest
  <1>3. CASE kind # "favourite" /\ UNCHANGED favouriteVars
    BY <1>1, <1>3 DEF FavouriteKind, FavouriteRest, favouriteVars
  <1>4. CASE UNCHANGED browserVars
    <2>1. UNCHANGED <<open, requests, left, unaware, favorites, star, odd, raced>>
      BY <1>4 DEF browserVars, requestVars, favouriteVars
    <2>2. \A p : OddPending(p)' <=> OddPending(p)
      BY <2>1 DEF OddPending, Pending
    <2>3. FavouriteInv => FavouriteInv'
      BY <2>1, <2>2, FlowRests DEF FavouriteInv, Stored
    <2> QED
      BY <1>1, <2>1, <2>3 DEF FavouriteKind, FavouriteRest
  <1> QED
    BY <1>2, <1>3, <1>4
       DEF Next, NextUpload, NextSecurity, NextTags, NextTimelog,
           NextPasskeys

\* A star is wrong exactly after an odd number of turns that passed its page
\* by: for any pages and sessions and any number of clicks under way.
THEOREM StarsFollowParity == Spec => []StarIsWrongWhenOdd
  <1>1. FavouriteKind => StarIsWrongWhenOdd
    <2> SUFFICES ASSUME FavouriteKind, NEW p \in Page \ unaware, Quiet(p), ~raced
                 PROVE  star[p] # (favorites # {}) <=> p \in odd
      BY DEF StarIsWrongWhenOdd
    <2>1. CASE kind = "favourite"
      <3>1. Pending(p) = {}
        BY DEF Quiet, Of, Pending
      <3>2. ~OddPending(p)
        BY <3>1, FS_EmptySet DEF OddPending, IsOdd
      <3>3. (star[p] <=> Stored) <=> (p \in odd <=> OddPending(p))
        BY <2>1 DEF FavouriteKind, FavouriteInv
      <3>4. star[p] \in BOOLEAN
        BY <2>1 DEF FavouriteKind, FavouriteInv
      <3>5. (star[p] <=> Stored) <=> p \notin odd
        BY <3>2, <3>3
      <3> QED
        BY <3>4, <3>5 DEF Stored
    <2>2. CASE kind # "favourite"
      <3>1. favorites = {} /\ odd = {} /\ star[p] = FALSE
        BY <2>2 DEF FavouriteKind, FavouriteRest
      <3> QED
        BY <3>1
    <2> QED
      BY <2>1, <2>2
  <1> QED
    BY <1>1, FavouriteStarts, FavouriteKept, PTL DEF Spec
------------------------------------------------------------------------------
(* The timer: the timelogs that it started and that run, and those that     *)
(* handlers may still start or write back.                                  *)

LogRow == [id : Nat, byTimer : BOOLEAN, is_deleted : BOOLEAN]
ByTimer(l) == l.byTimer /\ ~l.is_deleted
Running == {l \in timelogs : ByTimer(l)}

Brings(r) == r.op = "start"
             \/ (r.op = "form" /\ r.seen # {} /\ ByTimer(RowRead(r)))
Brought(r) == IF r.op = "start"
              THEN [id |-> r.id, byTimer |-> TRUE, is_deleted |-> FALSE]
              ELSE RowRead(r)
Bringers == {r \in Handling : Brings(r)}
MayRun == Running \cup {Brought(r) : r \in Bringers}

FewRun ==
    /\ IsFiniteSet(MayRun)
    /\ Cardinality(MayRun) <= 1 \/ Cardinality(MayRun) <= Cardinality(Sessions)

TimerInv ==
    /\ FlowInv
    /\ timelogs \subseteq LogRow
    /\ \A r \in Handling : r.seen \subseteq LogRow
    /\ FewRun

LEMMA NoMoreRun ==
    ASSUME FlowInv, FewRun, open' = open, MayRun' \subseteq MayRun
    PROVE  FewRun'
  <1>1. IsFiniteSet(MayRun') /\ Cardinality(MayRun') <= Cardinality(MayRun)
        /\ Cardinality(MayRun') \in Nat /\ Cardinality(MayRun) \in Nat
    BY FS_Subset, FS_CardinalityType DEF FewRun
  <1>2. Sessions' = Sessions
    BY DEF Sessions
  <1>3. CASE Cardinality(MayRun) <= 1
    BY <1>1, <1>3 DEF FewRun
  <1>4. CASE Cardinality(MayRun) <= Cardinality(Sessions)
    <2>1. Cardinality(Sessions) \in Nat
      BY OneEach
    <2> QED
      BY <1>1, <1>2, <1>4, <2>1 DEF FewRun
  <1> QED
    BY <1>3, <1>4 DEF FewRun

\* What is written back is a row of the handler, or one that is there.
LEMMA WrittenRows ==
    ASSUME NEW new, NEW l \in Written(new)
    PROVE  l = new \/ l \in timelogs
  BY DEF Written

\* A handler that writes ends, and runs nothing but what it brought.
LEMMA Wrote ==
    ASSUME TimerInv, NEW r \in requests, r.at = "loaded", Move(r, "done", {}),
           timelogs' \subseteq LogRow,
           \A l \in timelogs' : ByTimer(l) =>
               l \in timelogs \/ (Brings(r) /\ l = Brought(r))
    PROVE  TimerInv'
  <1>1. FlowInv' /\ open' = open /\ Handling' \subseteq Handling \ {r}
    BY HandlerEnds DEF TimerInv
  <1>2. r \in Handling
    BY DEF Handling, InHandler
  <1>3. Running' \subseteq MayRun
    BY <1>2 DEF Running, MayRun, Bringers
  <1>4. Bringers' \subseteq Bringers
    BY <1>1 DEF Bringers
  <1>5. MayRun' \subseteq MayRun
    BY <1>3, <1>4 DEF MayRun
  <1>6. FewRun'
    BY <1>1, <1>5, NoMoreRun DEF TimerInv
  <1> QED
    BY <1>1, <1>6 DEF TimerInv

\* Nothing is written, and no handler begins that may write.
LEMMA WroteNothing ==
    ASSUME TimerInv, FlowInv', timelogs' = timelogs, open' = open,
           Handling' \subseteq Handling
    PROVE  TimerInv'
  <1>1. Bringers' \subseteq Bringers /\ Running' = Running
    BY DEF Bringers, Running
  <1>2. MayRun' \subseteq MayRun
    BY <1>1 DEF MayRun
  <1> QED
    BY <1>2, NoMoreRun DEF TimerInv

LEMMA TimerPages ==
    ASSUME TimerInv, NEW p \in Page,
           \/ openTimelogPage(p) \/ timelog_startTimer(p)
           \/ clickStop(p) \/ submitForm(p)
    PROVE  TimerInv'
  <1>1. CASE openTimelogPage(p)
    <2>1. UNCHANGED <<open, requests, left, timelogs>>
      BY <1>1 DEF openTimelogPage, Reload
    <2> QED
      BY <2>1, FlowRests, WroteNothing DEF TimerInv
  <1>2. ASSUME NEW op, Click(p, op) PROVE TimerInv'
    <2>1. timelogs' = timelogs /\ Send(p, op, [id |-> 0, what |-> "click"])
      BY <1>2 DEF Click
    <2>2. FlowInv' /\ open' = open /\ Handling' = Handling
      BY <2>1, FlowSent DEF TimerInv
    <2> QED
      BY <2>1, <2>2, WroteNothing
  <1>3. CASE submitForm(p)
    <2>1. PICK id, what : Send(p, "form", [id |-> id, what |-> what])
      BY <1>3 DEF submitForm
    <2>2. FlowInv' /\ open' = open /\ Handling' = Handling
      BY <2>1, FlowSent DEF TimerInv
    <2>3. timelogs' = timelogs
      BY <1>3 DEF submitForm, timelogVars
    <2> QED
      BY <2>2, <2>3, WroteNothing
  <1> QED
    BY <1>1, <1>2, <1>3 DEF timelog_startTimer, clickStop

\* A handler looked, found no timelog running, and will start one.
LEMMA LookedForRunning ==
    ASSUME TimerInv, NEW r \in requests, hasActiveLog(r)
    PROVE  TimerInv'
  <1>1. timelogs' = timelogs /\ MayStart(r) /\ r.op = "start"
    BY DEF hasActiveLog, timelogVars
  <1>2. CASE getActiveTimeLogForUser # {}
    <2>1. Move(r, "failed", {})
      BY <1>2 DEF hasActiveLog
    <2> QED
      BY <1>1, <2>1, HandlerEnds, WroteNothing DEF TimerInv, MayStart
  <1>3. CASE getActiveTimeLogForUser = {}
    <2>1. Move(r, "loaded", {})
      BY <1>3 DEF hasActiveLog
    <2>2. /\ FlowInv' /\ open' = open
          /\ \E new : Handling' = Handling \cup {new} /\ new.seen = {}
      BY <1>1, <2>1, HandlerBegins DEF TimerInv
    <2>3. Running' = {}
      BY <1>1, <1>3 DEF Running, ByTimer, getActiveTimeLogForUser
    <2>4. MayRun' = {Brought(q) : q \in Bringers'}
      BY <2>3 DEF MayRun
    <2>5. IsFiniteSet(Bringers') /\ Cardinality(Bringers') <= Cardinality(Sessions')
          /\ Cardinality(Bringers') \in Nat /\ Cardinality(Sessions') \in Nat
      <3>1. Bringers' \in SUBSET Handling'
        BY DEF Bringers
      <3> QED
        BY <2>2, <3>1, OneEachThen
    <2>6. [q \in Bringers' |-> Brought(q)] \in Surjection(Bringers', MayRun')
      BY <2>4 DEF Surjection
    <2>7. /\ IsFiniteSet(MayRun')
          /\ Cardinality(MayRun') <= Cardinality(Bringers')
          /\ Cardinality(MayRun') \in Nat
      BY <2>5, <2>6, FS_Surjection, FS_CardinalityType
    <2>8. FewRun'
      BY <2>5, <2>7 DEF FewRun
    <2>9. \A q \in Handling' : q.seen \subseteq LogRow
      BY <2>2 DEF TimerInv
    <2> QED
      BY <1>1, <2>2, <2>8, <2>9 DEF TimerInv
  <1> QED
    BY <1>2, <1>3

LEMMA TimerHandlers ==
    ASSUME TimerInv, NEW r \in requests,
           \/ Start(r) \/ getActive(r) \/ Stop(r)
           \/ getTimelog(r) \/ edit_POST(r) \/ delete_GET(r)
           \/ TimelogFails(r) \/ TimelogAnswered(r) \/ TimelogLost(r)
    PROVE  TimerInv'
  <1>a. r.at = "loaded" => r \in Handling /\ r.seen \subseteq LogRow
    BY DEF Handling, InHandler, TimerInv
  <1>b. r.id \in Nat
    BY DEF TimerInv, FlowInv, RequestsInv
  <1>c. r.seen # {} => RowRead(r) \in r.seen
    BY DEF RowRead
  <1>1. ASSUME NEW byTimer \in BOOLEAN, r.at = "loaded", Insert(r, byTimer),
               byTimer => r.op = "start"
        PROVE  TimerInv'
    <2> DEFINE new == [id |-> r.id, byTimer |-> byTimer, is_deleted |-> FALSE]
    <2>1. timelogs' = timelogs \cup {new} /\ Move(r, "done", {})
      BY <1>1 DEF Insert
    <2>2. new \in LogRow /\ new.byTimer = byTimer
      BY <1>b DEF LogRow
    <2>3. byTimer => Brings(r) /\ new = Brought(r)
      BY <1>1 DEF Brings, Brought
    <2> HIDE DEF new
    <2>4. timelogs' \subseteq LogRow
      BY <2>1, <2>2 DEF TimerInv
    <2>5. \A l \in timelogs' : ByTimer(l) =>
              l \in timelogs \/ (Brings(r) /\ l = Brought(r))
      BY <2>1, <2>2, <2>3 DEF ByTimer
    <2> QED
      BY <1>1, <2>1, <2>4, <2>5, Wrote
  <1>2. ASSUME NEW rows, Update(r, rows), r.at = "loaded",
               rows \subseteq LogRow,
               \A l \in rows : ByTimer(l) =>
                   l \in timelogs \/ (Brings(r) /\ l = Brought(r))
        PROVE  TimerInv'
    <2>1. timelogs' = rows /\ Move(r, "done", {})
      BY <1>2 DEF Update
    <2> QED
      BY <1>2, <2>1, Wrote
  <1>3. CASE Start(r)
    BY <1>3, <1>1 DEF Start, Writing
  <1>4. Ended(r) \subseteq timelogs /\ timelogs \subseteq LogRow
    BY DEF Ended, TimerInv
  <1>5. CASE Stop(r)
    <2>1. r.at = "loaded" /\ Update(r, Ended(r))
      BY <1>5 DEF Stop, Writing
    <2> QED
      BY <1>2, <1>4, <2>1
  <1>6. CASE edit_POST(r)
    <2>1. r.at = "loaded" /\ r.op = "form"
      BY <1>6 DEF edit_POST, Writing
    <2>2. CASE r.arg.id = 0
      BY <1>1, <1>6, <2>1, <2>2 DEF edit_POST
    <2>3. CASE r.arg.id # 0 /\ r.seen = {}
      BY <1>2, <1>4, <1>6, <2>1, <2>3 DEF edit_POST
    <2>4. CASE r.arg.id # 0 /\ r.seen # {} /\ r.arg.what = "end"
      BY <1>2, <1>4, <1>6, <2>1, <2>4 DEF edit_POST
    <2>5. CASE r.arg.id # 0 /\ r.seen # {} /\ r.arg.what # "end"
      <3>1. Update(r, Written(RowRead(r)))
        BY <1>6, <2>5 DEF edit_POST
      <3>2. Written(RowRead(r)) \subseteq LogRow
        BY <1>4, <1>a, <1>c, <2>1, <2>5, WrittenRows
      <3>3. \A l \in Written(RowRead(r)) : ByTimer(l) =>
                l \in timelogs \/ (Brings(r) /\ l = Brought(r))
        BY <2>1, <2>5, WrittenRows DEF Brings, Brought
      <3> QED
        BY <1>2, <2>1, <3>1, <3>2, <3>3
    <2> QED
      BY <2>2, <2>3, <2>4, <2>5
  <1>7. CASE delete_GET(r)
    <2>1. r.at = "loaded" /\ r.op = "form"
      BY <1>7 DEF delete_GET, Writing
    <2>2. CASE r.seen = {}
      BY <1>2, <1>4, <1>7, <2>1, <2>2 DEF delete_GET
    <2>3. CASE r.seen # {}
      <3> DEFINE new == [RowRead(r) EXCEPT !.is_deleted = TRUE]
      <3>1. Update(r, Written(new))
        BY <1>7, <2>3 DEF delete_GET
      <3>2. RowRead(r) \in LogRow
        BY <1>a, <1>c, <2>1, <2>3
      <3>3. new \in LogRow /\ new.is_deleted = TRUE
        BY <3>2 DEF LogRow
      <3> HIDE DEF new
      <3>4. Written(new) \subseteq LogRow
        BY <1>4, <3>3, WrittenRows
      <3>5. \A l \in Written(new) : ByTimer(l) => l \in timelogs
        BY <3>3, WrittenRows DEF ByTimer
      <3> QED
        BY <1>2, <2>1, <3>1, <3>4, <3>5
    <2> QED
      BY <2>2, <2>3
  <1>8. ASSUME NEW seen \in SUBSET timelogs, MayStart(r), Move(r, "loaded", seen),
               timelogs' = timelogs, r.op # "start"
        PROVE  TimerInv'
    <2>1. FlowInv' /\ open' = open
      BY <1>8, HandlerBegins DEF TimerInv
    <2>2. PICK new : /\ Handling' = Handling \cup {new}
                     /\ new.op = r.op /\ new.seen = seen
      BY <1>8, HandlerBegins DEF TimerInv
    <2>3. Brings(new) => Brought(new) \in Running
      BY <1>8, <2>2 DEF Brings, Brought, RowRead, Running
    <2>4. Running' = Running
      BY <1>8 DEF Running
    <2>5. Bringers' = Bringers \cup {q \in {new} : Brings(q)}
      BY <2>2 DEF Bringers
    <2>6. MayRun' \subseteq MayRun
      BY <2>3, <2>4, <2>5 DEF MayRun
    <2>7. FewRun'
      BY <2>1, <2>6, NoMoreRun DEF TimerInv
    <2>8. \A q \in Handling' : q.seen \subseteq LogRow
      BY <1>4, <1>8, <2>2 DEF TimerInv
    <2> QED
      BY <1>4, <1>8, <2>1, <2>7, <2>8 DEF TimerInv
  <1>9. CASE getTimelog(r)
    BY <1>8, <1>9 DEF getTimelog, Load, timelogVars
  <1>10. CASE getActive(r)
    <2>1. /\ MayStart(r) /\ r.op = "stop" /\ timelogs' = timelogs
          /\ \/ Move(r, "done", {})
             \/ \E l \in getActiveTimeLogForUser : Move(r, "loaded", {l})
      BY <1>10 DEF getActive
    <2>2. CASE Move(r, "done", {})
      BY <2>1, <2>2, HandlerEnds, WroteNothing DEF TimerInv, MayStart
    <2>3. ASSUME NEW l \in getActiveTimeLogForUser, Move(r, "loaded", {l})
          PROVE  TimerInv'
      <3>1. {l} \subseteq timelogs
        BY DEF getActiveTimeLogForUser
      <3> QED
        BY <1>8, <2>1, <2>3, <3>1
    <2> QED
      BY <2>1, <2>2, <2>3
  <1>11. CASE TimelogFails(r)
    BY <1>11, HandlerEnds, WroteNothing DEF TimelogFails, TimerInv
  <1>12. CASE TimelogAnswered(r) \/ TimelogLost(r)
    BY <1>12, FlowGone, WroteNothing
       DEF TimelogAnswered, TimelogLost, timelogVars, TimerInv
  <1> QED
    BY <1>3, <1>5, <1>6, <1>7, <1>9, <1>10, <1>11, <1>12

TimerKind == IF kind = "timelog" THEN TimerInv ELSE timelogs = {}

LEMMA TimerStarts == Init => TimerKind
  <1> SUFFICES ASSUME Init PROVE TimerKind
    OBVIOUS
  <1>1. FlowInv /\ requests = {} /\ timelogs = {}
    BY FlowStarts DEF Init, RequestsInit, TimelogInit
  <1>2. MayRun = {}
    BY <1>1 DEF MayRun, Running, Bringers, Handling
  <1>3. FewRun
    BY <1>2, FS_EmptySet DEF FewRun
  <1> QED
    BY <1>1, <1>3 DEF TimerKind, TimerInv, Handling

LEMMA TimerKept == TimerKind /\ [Next]_browserVars => TimerKind'
  <1> SUFFICES ASSUME TimerKind, [Next]_browserVars PROVE TimerKind'
    OBVIOUS
  <1>1. UNCHANGED kind
    BY DEF Next, browserVars, NextUpload, NextSecurity, NextTags,
           NextFavourite, NextTimelog, NextPasskeys
  <1>2. CASE NextTimelog
    BY <1>1, <1>2, TimerPages, LookedForRunning, TimerHandlers
       DEF NextTimelog, TimelogNext, TimerKind
  <1>3. CASE kind # "timelog" /\ UNCHANGED timelogVars
    BY <1>1, <1>3 DEF TimerKind, timelogVars
  <1>4. CASE UNCHANGED browserVars
    <2>1. UNCHANGED <<open, requests, left, timelogs>>
      BY <1>4 DEF browserVars, requestVars, timelogVars
    <2>2. TimerInv => TimerInv'
      BY <2>1, FlowRests, WroteNothing DEF TimerInv
    <2> QED
      BY <1>1, <2>1, <2>2 DEF TimerKind
  <1> QED
    BY <1>2, <1>3, <1>4
       DEF Next, NextUpload, NextSecurity, NextTags, NextFavourite,
           NextPasskeys

\* No more timelogs run that the timer started than there are sessions: for
\* any pages and sessions and however many starts, stops and forms overlap.
THEOREM OneTimerPerSession == Spec => []RunningPerSession
  <1>1. TimerKind => RunningPerSession
    <2> SUFFICES ASSUME TimerKind PROVE OnePerSession(Running)
      BY DEF RunningPerSession, Running, ByTimer, getActiveTimeLogForUser
    <2>1. CASE kind = "timelog"
      <3>1. TimerInv
        BY <2>1 DEF TimerKind
      <3>2. Running \subseteq MayRun
        BY DEF MayRun
      <3>3. /\ Cardinality(Running) <= Cardinality(MayRun)
            /\ Cardinality(Running) \in Nat /\ Cardinality(MayRun) \in Nat
            /\ Cardinality(Sessions) \in Nat
        BY <3>1, <3>2, FS_Subset, FS_CardinalityType, OneEach
           DEF TimerInv, FewRun
      <3> QED
        BY <3>1, <3>3 DEF TimerInv, FewRun, OnePerSession, Sessions
    <2>2. CASE kind # "timelog"
      <3>1. Running = {}
        BY <2>2 DEF TimerKind, Running
      <3> QED
        BY <3>1, FS_EmptySet DEF OnePerSession
    <2> QED
      BY <2>1, <2>2
  <1> QED
    BY <1>1, TimerStarts, TimerKept, PTL DEF Spec
------------------------------------------------------------------------------
(* The timer: the page that made the last change shows the truth.  A page   *)
(* that waits has one request under way.                                    *)

Active == getActiveTimeLogForUser

\* What p shows, or will once the answer that is under way has reached it.
Shows(p) ==
    /\ \A r \in Of(p) : r.at = "done" =>
           /\ r.op = "start" => Active # {}
           /\ r.op = "stop" => Active = {}
    /\ (\A r \in Of(p) : r.at # "done") => (widget[p] <=> Active # {})

\* What a Stop is about to end.
Stopping(r) == \E l : r.seen = {l} /\ ~l.is_deleted

WidgetInv ==
    /\ FlowInv
    /\ IsFiniteSet(timelogs)
    /\ widget \in [Page -> BOOLEAN]
    /\ \A r \in requests : r.op \in {"start", "stop", "form"}
    /\ \A r \in Handling : r.op = "stop" => Stopping(r)
    /\ \A p \in Page \ astray :
           /\ \A r, q \in Of(p) : r = q
           /\ \A r \in Of(p) : r.at = "failed" => r.op # "stop"
    /\ ~strayed => \A l, m \in Active : l = m
    /\ ~strayed => \A p \in Page \ (unaware \cup astray) :
                       changedBy = p => Shows(p)

LEMMA WidgetPages ==
    ASSUME WidgetInv, NEW p \in Page,
           \/ openTimelogPage(p) \/ timelog_startTimer(p)
           \/ clickStop(p) \/ submitForm(p)
    PROVE  WidgetInv'
  <1>1. CASE openTimelogPage(p)
    <2>1. /\ UNCHANGED <<open, requests, left, timelogs, strayed, changedBy>>
          /\ widget' = [widget EXCEPT ![p] = Active # {}]
          /\ astray' = astray \ {p} /\ unaware' = unaware \ {p} /\ Of(p) = {}
      BY <1>1 DEF openTimelogPage, Reload, Quiet, Active
    <2>2. FlowInv' /\ Handling' = Handling
      BY <2>1, FlowRests DEF WidgetInv
    <2>3. Active' = Active /\ \A q : Of(q)' = Of(q)
      BY <2>1 DEF Active, getActiveTimeLogForUser, Of
    <2>4. widget' \in [Page -> BOOLEAN]
      BY <2>1 DEF WidgetInv
    <2>5. \A q \in Page \ (unaware' \cup astray') :
              q = p \/ (q \notin unaware \cup astray /\ widget'[q] = widget[q])
      BY <2>1 DEF WidgetInv
    <2>6. ASSUME ~strayed', NEW q \in Page \ (unaware' \cup astray'), changedBy' = q
          PROVE  Shows(q)'
      <3>1. CASE q = p
        BY <2>1, <2>3, <3>1 DEF Shows, WidgetInv
      <3>2. CASE q # p
        BY <2>1, <2>3, <2>5, <2>6, <3>2 DEF Shows, WidgetInv
      <3> QED
        BY <3>1, <3>2
    <2>7. \A q \in Page \ astray' : /\ \A r, s \in Of(q)' : r = s
                                    /\ \A r \in Of(q)' : r.at = "failed" => r.op # "stop"
      BY <2>1, <2>3 DEF WidgetInv
    <2> QED
      BY <2>1, <2>2, <2>3, <2>4, <2>6, <2>7 DEF WidgetInv
  <1>2. ASSUME NEW op \in {"start", "stop", "form"}, NEW arg, Send(p, op, arg),
               UNCHANGED <<timelogs, widget, strayed, changedBy>>,
               astray' = IF Quiet(p) THEN astray ELSE astray \cup {p}
        PROVE  WidgetInv'
    <2>1. FlowInv' /\ unaware' = unaware /\ Handling' = Handling
      BY <1>2, FlowSent DEF WidgetInv
    <2>2. PICK new : /\ requests' = requests \cup {new}
                     /\ new.page = p /\ new.op = op /\ new.at = "sent"
      BY <1>2, FlowSent DEF WidgetInv
    <2>3. /\ Active' = Active
          /\ \A q : Of(q)' = IF q = p THEN Of(q) \cup {new} ELSE Of(q)
      BY <1>2, <2>2 DEF Active, getActiveTimeLogForUser, Of
    <2>4. astray \subseteq astray' /\ (p \notin astray' => Of(p)' = {new})
      BY <1>2, <2>3 DEF Quiet
    <2>5. \A q \in Page \ astray' : /\ \A r, s \in Of(q)' : r = s
                                    /\ \A r \in Of(q)' : r.at = "failed" => r.op # "stop"
      BY <2>2, <2>3, <2>4 DEF WidgetInv
    <2>6. ASSUME ~strayed', NEW q \in Page \ (unaware' \cup astray'), changedBy' = q
          PROVE  Shows(q)'
      <3>1. Shows(q)
        BY <1>2, <2>1, <2>4, <2>6 DEF WidgetInv
      <3>2. q = p => Of(p) = {}
        BY <1>2, <2>4, <2>6 DEF Quiet
      <3> QED
        BY <1>2, <2>2, <2>3, <3>1, <3>2 DEF Shows
    <2>7. \A r \in requests' : r.op \in {"start", "stop", "form"}
      BY <2>2 DEF WidgetInv
    <2> QED
      BY <1>2, <2>1, <2>3, <2>5, <2>6, <2>7 DEF WidgetInv
  <1>3. CASE timelog_startTimer(p)
    BY <1>2, <1>3 DEF timelog_startTimer, Click
  <1>4. CASE clickStop(p)
    BY <1>2, <1>4 DEF clickStop, Click
  <1>5. CASE submitForm(p)
    <2>1. Quiet(p) /\ UNCHANGED timelogVars
      BY <1>5 DEF submitForm
    <2>2. PICK arg : Send(p, "form", arg)
      BY <1>5 DEF submitForm
    <2> QED
      BY <1>2, <2>1, <2>2 DEF timelogVars
  <1> QED
    BY <1>1, <1>3, <1>4, <1>5

\* A handler begins to read, or refuses or fails.
LEMMA NothingChanged ==
    ASSUME WidgetInv, NEW r \in requests, r.at \in {"sent", "loaded"},
           NEW at \in {"loaded", "failed"}, at # r.at, NEW seen,
           Move(r, at, seen), at = "loaded" => MayStart(r),
           at = "loaded" /\ r.op = "stop" => \E l : seen = {l} /\ ~l.is_deleted,
           UNCHANGED <<timelogs, widget, strayed, changedBy>>,
           astray' = IF at = "failed" /\ r.op = "stop" THEN astray \cup {r.page}
                     ELSE astray
    PROVE  WidgetInv'
  <1>1. FlowInv' /\ unaware' = unaware
    BY FlowMoved DEF WidgetInv
  <1>2. PICK new : /\ requests' = (requests \ {r}) \cup {new}
                   /\ new \notin requests
                   /\ new.id = r.id /\ new.page = r.page /\ new.op = r.op
                   /\ new.arg = r.arg /\ new.at = at /\ new.seen = seen
    BY FlowMoved DEF WidgetInv
  <1>3. r \in Of(r.page) /\ r.page \in Page
    BY DEF Of, WidgetInv, FlowInv, RequestsInv
  <1>4. /\ Active' = Active
        /\ \A q : Of(q)' = IF q = r.page THEN (Of(q) \ {r}) \cup {new} ELSE Of(q)
    BY <1>2 DEF Active, getActiveTimeLogForUser, Of
  <1>5. \A q \in Page \ astray' : /\ \A s, u \in Of(q)' : s = u
                                  /\ \A s \in Of(q)' : s.at = "failed" => s.op # "stop"
    BY <1>2, <1>3, <1>4 DEF WidgetInv
  <1>6. ASSUME ~strayed', NEW q \in Page \ (unaware' \cup astray'), changedBy' = q
        PROVE  Shows(q)'
    <2>1. Shows(q) /\ q \notin astray
      BY <1>1, <1>6 DEF WidgetInv
    <2>2. CASE q = r.page
      <3>1. Of(q) = {r} /\ Of(q)' = {new}
        BY <1>3, <1>4, <2>1, <2>2 DEF WidgetInv
      <3> QED
        BY <1>2, <1>4, <2>1, <3>1 DEF Shows
    <2>3. CASE q # r.page
      BY <1>4, <2>1, <2>3 DEF Shows
    <2> QED
      BY <2>2, <2>3
  <1>7. \A s \in requests' : s.op \in {"start", "stop", "form"}
    BY <1>2 DEF WidgetInv
  <1>8. \A s \in Handling' : s.op = "stop" => Stopping(s)
    <2>1. \A s \in Handling' : s \in Handling \/ (s = new /\ at = "loaded")
      BY <1>2 DEF Handling, InHandler
    <2> QED
      BY <1>2, <2>1 DEF WidgetInv, Stopping
  <1> QED
    BY <1>1, <1>4, <1>5, <1>6, <1>7, <1>8 DEF WidgetInv

\* A handler is through, and its page made the last change.
LEMMA LastChange ==
    ASSUME WidgetInv, NEW r \in requests, r.at \in {"sent", "loaded"},
           Move(r, "done", {}), changedBy' = r.page, UNCHANGED <<widget, astray>>,
           IsFiniteSet(timelogs'),
           ~strayed' => \A l, m \in Active' : l = m,
           ~strayed' /\ r.op = "start" => Active' # {},
           ~strayed' /\ r.op = "stop" => Active' = {}
    PROVE  WidgetInv'
  <1>1. FlowInv' /\ unaware' = unaware
    BY FlowMoved DEF WidgetInv
  <1>2. PICK new : /\ requests' = (requests \ {r}) \cup {new}
                   /\ new \notin requests
                   /\ new.id = r.id /\ new.page = r.page /\ new.op = r.op
                   /\ new.arg = r.arg /\ new.at = "done" /\ new.seen = {}
    BY FlowMoved DEF WidgetInv
  <1>3. r \in Of(r.page) /\ r.page \in Page
    BY DEF Of, WidgetInv, FlowInv, RequestsInv
  <1>4. \A q : Of(q)' = IF q = r.page THEN (Of(q) \ {r}) \cup {new} ELSE Of(q)
    BY <1>2 DEF Of
  <1>5. \A q \in Page \ astray' : /\ \A s, u \in Of(q)' : s = u
                                  /\ \A s \in Of(q)' : s.at = "failed" => s.op # "stop"
    BY <1>2, <1>3, <1>4 DEF WidgetInv
  <1>6. ASSUME ~strayed', NEW q \in Page \ (unaware' \cup astray'), changedBy' = q
        PROVE  Shows(q)'
    <2>1. q = r.page /\ Of(q)' = {new}
      BY <1>3, <1>4, <1>6 DEF WidgetInv
    <2> QED
      BY <1>2, <1>6, <2>1 DEF Shows
  <1>7. \A s \in requests' : s.op \in {"start", "stop", "form"}
    BY <1>2 DEF WidgetInv
  <1>8. \A s \in Handling' : s.op = "stop" => Stopping(s)
    <2>1. \A s \in Handling' : s \in Handling
      BY <1>2 DEF Handling, InHandler
    <2> QED
      BY <2>1 DEF WidgetInv, Stopping
  <1> QED
    BY <1>1, <1>5, <1>6, <1>7, <1>8 DEF WidgetInv

LEMMA OneActive ==
    ASSUME NEW r, Changed(r), IsFiniteSet(timelogs'), ~strayed'
    PROVE  /\ ~strayed /\ r.seen \subseteq timelogs
           /\ \A l, m \in Active' : l = m
  <1> DEFINE A == Active'
  <1>1. ~strayed /\ r.seen \subseteq timelogs /\ ~(Cardinality(A) > 1)
    BY DEF Changed, Active
  <1>2. IsFiniteSet(A)
    BY FS_Subset DEF Active, getActiveTimeLogForUser
  <1> HIDE DEF A
  <1>3. ASSUME NEW l \in A, NEW m \in A, l # m PROVE FALSE
    <2>1. /\ IsFiniteSet(A \ {l}) /\ Cardinality(A \ {l}) = Cardinality(A) - 1
          /\ Cardinality(A) \in Nat
      BY <1>2, FS_RemoveElement, FS_CardinalityType
    <2>2. Cardinality(A \ {l}) # 0
      BY <1>3, <2>1, FS_EmptySet
    <2>3. Cardinality(A \ {l}) \in Nat
      BY <2>1, FS_CardinalityType
    <2> QED
      BY <1>1, <2>1, <2>2, <2>3
  <1> QED
    BY <1>1, <1>3 DEF A

LEMMA WrittenIsFinite ==
    ASSUME IsFiniteSet(timelogs), NEW new
    PROVE  IsFiniteSet(Written(new))
  <1> DEFINE f == [l \in timelogs |-> IF l.id = new.id THEN new ELSE l]
  <1>1. f \in Surjection(timelogs, Written(new))
    BY DEF Written, Surjection
  <1> QED
    BY <1>1, FS_Surjection

LEMMA WidgetHandlers ==
    ASSUME WidgetInv, NEW r \in requests,
           \/ hasActiveLog(r) \/ Start(r) \/ getActive(r) \/ Stop(r)
           \/ getTimelog(r) \/ edit_POST(r) \/ delete_GET(r) \/ TimelogFails(r)
    PROVE  WidgetInv'
  <1>1. CASE hasActiveLog(r)
    <2>1. /\ MayStart(r) /\ r.at = "sent" /\ r.op = "start"
          /\ UNCHANGED <<timelogs, widget, strayed, changedBy, astray>>
          /\ Move(r, "loaded", {}) \/ Move(r, "failed", {})
      BY <1>1 DEF hasActiveLog, MayStart, timelogVars
    <2> QED
      BY <2>1, NothingChanged
  <1>2. CASE getTimelog(r)
    <2>1. /\ MayStart(r) /\ r.at = "sent" /\ r.op = "form"
          /\ UNCHANGED <<timelogs, widget, strayed, changedBy, astray>>
          /\ Move(r, "loaded", {l \in timelogs : l.id = r.arg.id})
      BY <1>2 DEF getTimelog, Load, MayStart, timelogVars
    <2> QED
      BY <2>1, NothingChanged
  <1>3. CASE TimelogFails(r)
    <2>1. /\ r.at = "loaded" /\ Move(r, "failed", {})
          /\ UNCHANGED <<timelogs, widget, strayed, changedBy>>
          /\ astray' = IF r.op = "stop" THEN astray \cup {r.page} ELSE astray
      BY <1>3 DEF TimelogFails
    <2> QED
      BY <2>1, NothingChanged
  <1>4. CASE getActive(r)
    <2>1. /\ MayStart(r) /\ r.at = "sent" /\ r.op = "stop"
          /\ UNCHANGED <<timelogs, widget, strayed, astray>>
      BY <1>4 DEF getActive, MayStart
    <2>2. CASE Active = {}
      <3>1. Move(r, "done", {}) /\ changedBy' = r.page
        BY <1>4, <2>2 DEF getActive, Active
      <3>2. Active' = {} /\ IsFiniteSet(timelogs')
        BY <2>1, <2>2 DEF Active, getActiveTimeLogForUser, WidgetInv
      <3> QED
        BY <2>1, <3>1, <3>2, LastChange
    <2>3. CASE Active # {}
      <3>1. PICK l \in Active : Move(r, "loaded", {l})
        BY <1>4, <2>3 DEF getActive, Active
      <3>2. changedBy' = changedBy /\ ~l.is_deleted
        BY <1>4, <2>3 DEF getActive, Active, getActiveTimeLogForUser
      <3> QED
        BY <2>1, <3>1, <3>2, NothingChanged
    <2> QED
      BY <2>2, <2>3
  <1>5. ASSUME NEW byTimer, r.at = "loaded", r.op \in {"start", "form"},
               Insert(r, byTimer)
        PROVE  WidgetInv'
    <2> DEFINE new == [id |-> r.id, byTimer |-> byTimer, is_deleted |-> FALSE]
    <2>1. /\ timelogs' = timelogs \cup {new} /\ Changed(r) /\ Move(r, "done", {})
          /\ UNCHANGED <<widget, astray>> /\ changedBy' = r.page
      BY <1>5 DEF Insert, Changed
    <2>2. ~new.is_deleted
      OBVIOUS
    <2> HIDE DEF new
    <2>3. IsFiniteSet(timelogs') /\ new \in Active'
      BY <2>1, <2>2, FS_AddElement DEF WidgetInv, Active, getActiveTimeLogForUser
    <2>4. ~strayed' => \A l, m \in Active' : l = m
      BY <2>1, <2>3, OneActive
    <2> QED
      BY <1>5, <2>1, <2>3, <2>4, LastChange
  <1>6. ASSUME NEW rows, r.at = "loaded", r.op = "form", Update(r, rows),
               IsFiniteSet(rows)
        PROVE  WidgetInv'
    <2>1. /\ timelogs' = rows /\ Changed(r) /\ Move(r, "done", {})
          /\ UNCHANGED <<widget, astray>> /\ changedBy' = r.page
      BY <1>6 DEF Update, Changed
    <2>2. ~strayed' => \A l, m \in Active' : l = m
      BY <1>6, <2>1, OneActive
    <2> QED
      BY <1>6, <2>1, <2>2, LastChange
  <1>7. IsFiniteSet(timelogs) /\ IsFiniteSet(Ended(r))
    BY FS_Subset DEF WidgetInv, Ended
  <1>8. \A new : IsFiniteSet(Written(new))
    BY <1>7, WrittenIsFinite
  <1>9. CASE Start(r)
    BY <1>5, <1>9 DEF Start, Writing
  <1>10. CASE edit_POST(r)
    BY <1>5, <1>6, <1>7, <1>8, <1>10 DEF edit_POST, Writing
  <1>11. CASE delete_GET(r)
    BY <1>6, <1>7, <1>8, <1>11 DEF delete_GET, Writing
  <1>12. CASE Stop(r)
    <2>1. /\ r.at = "loaded" /\ r.op = "stop" /\ timelogs' = Ended(r)
          /\ Changed(r) /\ Move(r, "done", {})
          /\ UNCHANGED <<widget, astray>> /\ changedBy' = r.page
      BY <1>12 DEF Stop, Writing, Update, Changed
    <2>2. PICK l : r.seen = {l} /\ ~l.is_deleted
      BY <2>1 DEF WidgetInv, Handling, InHandler, Stopping
    <2>3. RowRead(r) = l
      BY <2>2 DEF RowRead
    <2>4. ASSUME ~strayed' PROVE Active' = {}
      <3>1. ~strayed /\ l \in timelogs
        BY <1>7, <2>1, <2>2, <2>4, OneActive
      <3>2. Active = {l}
        BY <2>2, <3>1 DEF WidgetInv, Active, getActiveTimeLogForUser
      <3>3. Active' \subseteq Active /\ l \notin Active'
        BY <2>1, <2>3 DEF Active, getActiveTimeLogForUser, Ended
      <3> QED
        BY <3>2, <3>3
    <2> QED
      BY <1>7, <2>1, <2>4, LastChange
  <1> QED
    BY <1>1, <1>2, <1>3, <1>4, <1>9, <1>10, <1>11, <1>12

LEMMA WidgetAnswers ==
    ASSUME WidgetInv, NEW r \in requests, TimelogAnswered(r) \/ TimelogLost(r)
    PROVE  WidgetInv'
  <1>1. /\ FlowInv' /\ requests' = requests \ {r} /\ Handling' \subseteq Handling
        /\ UNCHANGED <<timelogs, strayed, changedBy, astray>>
    BY FlowGone DEF WidgetInv, TimelogAnswered, TimelogLost, timelogVars
  <1>2. /\ Active' = Active
        /\ \A q : Of(q)' = Of(q) \ {r}
    BY <1>1 DEF Active, getActiveTimeLogForUser, Of
  <1>3. r \in Of(r.page) /\ r.page \in Page /\ r.op \in {"start", "stop", "form"}
    BY DEF Of, WidgetInv, FlowInv, RequestsInv
  <1>4. \A q \in Page \ astray' : /\ \A s, u \in Of(q)' : s = u
                                  /\ \A s \in Of(q)' : s.at = "failed" => s.op # "stop"
    BY <1>1, <1>2 DEF WidgetInv
  <1>5. \A q : q # r.page => Of(q)' = Of(q)
    BY <1>2 DEF Of
  <1>6. CASE TimelogLost(r)
    <2>1. unaware' = unaware \cup {r.page} /\ widget' = widget
      BY <1>6 DEF TimelogLost, Lose, timelogVars
    <2>2. ASSUME ~strayed', NEW q \in Page \ (unaware' \cup astray'), changedBy' = q
          PROVE  Shows(q)'
      <3>1. Shows(q) /\ q # r.page
        BY <1>1, <2>1, <2>2 DEF WidgetInv
      <3> QED
        BY <1>2, <1>5, <2>1, <3>1 DEF Shows
    <2> QED
      BY <1>1, <1>2, <1>4, <2>1, <2>2 DEF WidgetInv
  <1>7. CASE TimelogAnswered(r)
    <2> DEFINE showing == CASE r.op = "start" -> widget[r.page] \/ r.at = "done"
                            [] r.op = "stop"  -> FALSE
                            [] r.op = "form"  -> Active # {}
    <2>1. /\ r.at \in {"done", "failed"} /\ unaware' = unaware
          /\ widget' = [widget EXCEPT ![r.page] = showing]
      BY <1>7 DEF TimelogAnswered, Answered, Active
    <2>2. /\ r.op = "start" => showing = (widget[r.page] \/ r.at = "done")
          /\ r.op = "stop" => showing = FALSE
          /\ r.op = "form" => showing = (Active # {})
      OBVIOUS
    <2> HIDE DEF showing
    <2>3. showing \in BOOLEAN
      BY <1>3, <2>2
    <2>4. /\ widget' \in [Page -> BOOLEAN] /\ widget'[r.page] = showing
          /\ \A q \in Page \ {r.page} : widget'[q] = widget[q]
      BY <1>3, <2>1, <2>3 DEF WidgetInv
    <2>5. ASSUME ~strayed', NEW q \in Page \ (unaware' \cup astray'), changedBy' = q
          PROVE  Shows(q)'
      <3>1. Shows(q)
        BY <1>1, <2>1, <2>5 DEF WidgetInv
      <3>2. CASE q # r.page
        BY <1>2, <1>5, <2>4, <3>1, <3>2 DEF Shows
      <3>3. CASE q = r.page
        <4>1. Of(q) = {r} /\ (r.at = "failed" => r.op # "stop")
          BY <1>1, <1>3, <2>5, <3>3 DEF WidgetInv
        <4>2. showing <=> Active # {}
          <5>1. CASE r.at = "done"
            BY <1>3, <2>2, <3>1, <4>1, <5>1 DEF Shows
          <5>2. CASE r.at = "failed"
            <6>1. widget[q] <=> Active # {}
              BY <3>1, <4>1, <5>2 DEF Shows
            <6> QED
              BY <1>3, <2>2, <3>3, <4>1, <5>2, <6>1
          <5> QED
            BY <2>1, <5>1, <5>2
        <4>3. Of(q)' = {}
          BY <1>2, <4>1
        <4> QED
          BY <1>2, <2>4, <3>3, <4>2, <4>3 DEF Shows
      <3> QED
        BY <3>2, <3>3
    <2> QED
      BY <1>1, <1>2, <1>4, <2>4, <2>5 DEF WidgetInv
  <1> QED
    BY <1>6, <1>7

\* Pages of other kinds leave the timer as it is at first.
WidgetAtRest == timelogs = {} /\ \A p \in Page : widget[p] = FALSE
WidgetKind == IF kind = "timelog" THEN WidgetInv ELSE WidgetAtRest

LEMMA WidgetStarts == Init => WidgetKind
  <1> SUFFICES ASSUME Init PROVE WidgetKind
    OBVIOUS
  <1>1. FlowInv /\ requests = {} /\ TimelogInit
    BY FlowStarts DEF Init, RequestsInit
  <1>2. Active = {} /\ \A p : Of(p) = {}
    BY <1>1 DEF TimelogInit, Active, getActiveTimeLogForUser, Of
  <1> QED
    BY <1>1, <1>2, FS_EmptySet
       DEF TimelogInit, WidgetKind, WidgetInv, WidgetAtRest, Shows, Handling

LEMMA WidgetKept == WidgetKind /\ [Next]_browserVars => WidgetKind'
  <1> SUFFICES ASSUME WidgetKind, [Next]_browserVars PROVE WidgetKind'
    OBVIOUS
  <1>1. UNCHANGED kind
    BY DEF Next, browserVars, NextUpload, NextSecurity, NextTags,
           NextFavourite, NextTimelog, NextPasskeys
  <1>2. CASE NextTimelog
    BY <1>1, <1>2, WidgetPages, WidgetHandlers, WidgetAnswers
       DEF NextTimelog, TimelogNext, WidgetKind
  <1>3. CASE kind # "timelog" /\ UNCHANGED timelogVars
    BY <1>1, <1>3 DEF WidgetKind, WidgetAtRest, timelogVars
  <1>4. CASE UNCHANGED browserVars
    <2>1. /\ UNCHANGED <<open, requests, left, unaware>>
          /\ UNCHANGED <<timelogs, widget, strayed, changedBy, astray>>
      BY <1>4 DEF browserVars, requestVars, timelogVars
    <2>2. FlowInv => FlowInv' /\ Handling' = Handling
      BY <2>1, FlowRests
    <2>3. Active' = Active /\ \A p : Of(p)' = Of(p)
      BY <2>1 DEF Active, getActiveTimeLogForUser, Of
    <2>4. \A p : Shows(p)' <=> Shows(p)
      BY <2>1, <2>3 DEF Shows
    <2>5. WidgetInv => WidgetInv'
      BY <2>1, <2>2, <2>3, <2>4 DEF WidgetInv
    <2> QED
      BY <1>1, <2>1, <2>5 DEF WidgetKind, WidgetAtRest
  <1> QED
    BY <1>2, <1>3, <1>4
       DEF Next, NextUpload, NextSecurity, NextTags, NextFavourite, NextPasskeys

\* The page that made the last change of the timelogs shows whether the timer
\* runs: for any pages and sessions and any starts, stops and forms meanwhile.
THEOREM ShownTimerIsTrue == Spec => []WidgetTruth
  <1>1. WidgetKind => WidgetTruth
    <2> SUFFICES ASSUME WidgetKind, NEW p \in Page \ (unaware \cup astray),
                        Quiet(p), changedBy = p, ~strayed
                 PROVE  widget[p] <=> Active # {}
      BY DEF WidgetTruth, Active
    <2>1. CASE kind = "timelog"
      BY <2>1 DEF WidgetKind, WidgetInv, Shows, Quiet
    <2>2. CASE kind # "timelog"
      BY <2>2 DEF WidgetKind, WidgetAtRest, Active, getActiveTimeLogForUser
    <2> QED
      BY <2>1, <2>2
  <1> QED
    BY <1>1, WidgetStarts, WidgetKept, PTL DEF Spec

------------------------------------------------------------------------------
(* Tags: the rows there are and the handlers that will add one.             *)

\* These rows and these handlers are one together, or no more than n.
Fit(R, H, n) ==
    /\ IsFiniteSet(R) /\ IsFiniteSet(H)
    /\ \/ Cardinality(R) + Cardinality(H) <= 1
       \/ Cardinality(R) + Cardinality(H) <= n

LEMMA FewerFit ==
    ASSUME NEW n \in Nat, NEW R, NEW H, Fit(R, H, n),
           NEW S \in SUBSET R, NEW G \in SUBSET H
    PROVE  Fit(S, G, n)
  <1>1. /\ IsFiniteSet(S) /\ Cardinality(S) <= Cardinality(R)
        /\ IsFiniteSet(G) /\ Cardinality(G) <= Cardinality(H)
    BY FS_Subset DEF Fit
  <1>2. /\ Cardinality(S) \in Nat /\ Cardinality(R) \in Nat
        /\ Cardinality(G) \in Nat /\ Cardinality(H) \in Nat
    BY <1>1, FS_CardinalityType DEF Fit
  <1> QED
    BY <1>1, <1>2 DEF Fit

\* A handler adds its row.
LEMMA AddedFit ==
    ASSUME NEW n \in Nat, NEW R, NEW H, Fit(R, H, n),
           NEW h \in H, NEW x, NEW S \in SUBSET (R \cup {x}),
           NEW G \in SUBSET (H \ {h})
    PROVE  Fit(S, G, n)
  <1>1. /\ IsFiniteSet(R \cup {x}) /\ IsFiniteSet(H \ {h})
        /\ Cardinality(R \cup {x}) <= Cardinality(R) + 1
        /\ Cardinality(H \ {h}) = Cardinality(H) - 1
        /\ Cardinality(R) \in Nat /\ Cardinality(H) \in Nat
        /\ Cardinality(R \cup {x}) \in Nat /\ Cardinality(H \ {h}) \in Nat
    BY FS_AddElement, FS_RemoveElement, FS_CardinalityType DEF Fit
  <1>2. Fit(R \cup {x}, H \ {h}, n)
    BY <1>1 DEF Fit
  <1> QED
    BY <1>2, FewerFit

\* A handler finds no row: all that will add one are handlers.
LEMMA NoRowFit ==
    ASSUME FlowInv', NEW H \in SUBSET (Handling')
    PROVE  Fit({}, H, Cardinality(Sessions'))
  <1>1. /\ IsFiniteSet(H) /\ Cardinality(H) \in Nat
        /\ Cardinality(H) <= Cardinality(Sessions')
        /\ Cardinality(Sessions') \in Nat
    BY OneEachThen
  <1> QED
    BY <1>1, FS_EmptySet DEF Fit

Adding(i) ==
    {r \in Handling : /\ r.seen = {}
                      /\ \/ r.op = "add" /\ IdOf(r.arg) = i
                         \/ r.op = "assign" /\ r.arg = i}
Named(t) == {j \in TagId : tagName[j] = t}
Found(t) == {j \in TagId : tagName[j] \in Finds[t]}
Naming(t) == {r \in Handling : r.op = "create" /\ r.arg = t /\ r.seen = {}}

AssignFit(i) == Fit(Rows(i), Adding(i), Cardinality(Sessions))
NameFit(t) == Fit(Named(t), Naming(t), Cardinality(Sessions))

\* What the table of tags, and the requests to name one, look like.
TagTable ==
    /\ FlowInv
    /\ editing \subseteq open
    /\ tagName \in [TagId -> TagText \cup {Unnamed}]
    /\ \A r \in requests : r.op = "create" =>
           r.arg \in TagText /\ (r.at = "loaded" => r.seen \subseteq Found(r.arg))

\* A name that is found when it is looked up.
Plain(t) == t \in TagText /\ t \in Finds[t]

TagsInv ==
    /\ TagTable
    /\ \A i \in TagId : AssignFit(i)
    /\ \A t \in TagText : Plain(t) => NameFit(t)

\* No row is added, nor a handler that will add one.
LEMMA NoneAdded ==
    ASSUME TagsInv, open' = open, NEW i, AssignFit(i),
           Rows(i)' \subseteq Rows(i), Adding(i)' \subseteq Adding(i)
    PROVE  AssignFit(i)'
  <1>1. Cardinality(Sessions) \in Nat /\ Sessions' = Sessions
    BY OneEach DEF TagsInv, TagTable, Sessions
  <1> QED
    BY <1>1, FewerFit DEF AssignFit

LEMMA NoneNamed ==
    ASSUME TagsInv, open' = open, NEW t, NameFit(t),
           Named(t)' \subseteq Named(t), Naming(t)' \subseteq Naming(t)
    PROVE  NameFit(t)'
  <1>1. Cardinality(Sessions) \in Nat /\ Sessions' = Sessions
    BY OneEach DEF TagsInv, TagTable, Sessions
  <1> QED
    BY <1>1, FewerFit DEF NameFit

\* No row is added and no handler begins.
LEMMA TagsRest ==
    ASSUME TagsInv, FlowInv', open' = open, tagName' = tagName,
           assigned' \subseteq assigned, editing' \subseteq open,
           Handling' \subseteq Handling,
           \A r \in requests' : r.op = "create" =>
               r.arg \in TagText /\ (r.at = "loaded" => r \in requests)
    PROVE  TagsInv'
  <1>1. ASSUME NEW i \in TagId PROVE AssignFit(i)'
    <2>1. Rows(i)' \subseteq Rows(i) /\ Adding(i)' \subseteq Adding(i)
      BY DEF Rows, Adding
    <2> QED
      BY <2>1, NoneAdded DEF TagsInv, TagTable
  <1>2. \A t : Named(t)' = Named(t) /\ Naming(t)' \subseteq Naming(t)
    BY DEF Named, Naming
  <1>3. ASSUME NEW t \in TagText, Plain(t) PROVE NameFit(t)'
    BY <1>2, <1>3, NoneNamed DEF TagsInv, TagTable
  <1>4. \A r \in requests' : r.op = "create" =>
            r.arg \in TagText
            /\ (r.at = "loaded" =>
                    r.seen \subseteq {j \in TagId : tagName'[j] \in Finds[r.arg]})
    BY DEF TagsInv, TagTable, Found
  <1> QED
    BY <1>1, <1>3, <1>4 DEF TagsInv, TagTable, Found, Plain

\* A page sends two requests at once.
LEMMA PairSent ==
    ASSUME FlowInv, NEW p \in Page, NEW op1, NEW v1, NEW op2, NEW v2,
           SendBoth(p, op1, v1, op2, v2)
    PROVE  /\ FlowInv'
           /\ open' = open /\ unaware' = unaware /\ Handling' = Handling
           /\ left \in Nat /\ left >= 2 /\ left' = left - 2 /\ p \in open
           /\ \E a, b : /\ requests' = requests \cup {a, b}
                        /\ a.id = left /\ a.page = p /\ a.op = op1
                        /\ a.arg = v1 /\ a.at = "sent" /\ a.seen = {}
                        /\ b.id = left - 1 /\ b.page = p /\ b.op = op2
                        /\ b.arg = v2 /\ b.at = "sent" /\ b.seen = {}
  <1> DEFINE a == Request(left, p, op1, v1)
             b == Request(left - 1, p, op2, v2)
  <1>1. /\ left \in Nat /\ left >= 2 /\ left' = left - 2 /\ open' = open
        /\ requests' = requests \cup {a, b} /\ unaware' = unaware /\ p \in open
    BY DEF SendBoth, FlowInv, RequestsInv
  <1>2. /\ WellFormed(a) /\ a.id = left /\ a.page = p /\ a.op = op1
        /\ a.arg = v1 /\ a.at = "sent" /\ a.seen = {}
        /\ WellFormed(b) /\ b.id = left - 1 /\ b.page = p /\ b.op = op2
        /\ b.arg = v2 /\ b.at = "sent" /\ b.seen = {}
    BY DEF Request, WellFormed
  <1> HIDE DEF a, b
  <1>4. Handling' = Handling
    BY <1>1, <1>2 DEF Handling, InHandler
  <1>5. RequestsInv'
    <2>1. \A r \in requests' :
              WellFormed(r) /\ r.page \in Page /\ r.id \in Nat /\ r.id > left'
      BY <1>1, <1>2 DEF FlowInv, RequestsInv
    <2>2. \A r, q \in requests' : r.id = q.id => r = q
      BY <1>1, <1>2 DEF FlowInv, RequestsInv
    <2> QED
      BY <1>1, <2>1, <2>2 DEF RequestsInv, WellFormed
  <1>6. IsFiniteSet(requests')
    <2>1. requests' = (requests \cup {a}) \cup {b}
      BY <1>1
    <2>2. IsFiniteSet(requests \cup {a})
      BY FS_AddElement DEF FlowInv
    <2>3. IsFiniteSet((requests \cup {a}) \cup {b})
      BY <2>2, FS_AddElement
    <2> QED
      BY <2>1, <2>3
  <1>7. \A r \in requests' : r.page \in open'
    BY <1>1, <1>2 DEF FlowInv
  <1>8. FlowInv'
    BY <1>1, <1>4, <1>5, <1>6, <1>7 DEF FlowInv, SameSession
  <1> QED
    BY <1>1, <1>2, <1>4, <1>8

LEMMA TwoSent ==
    ASSUME TagsInv, NEW p \in Page, NEW op1, NEW v1, NEW op2, NEW v2,
           SendBoth(p, op1, v1, op2, v2), op1 = "create" => v1 \in TagText,
           op2 # "create", UNCHANGED <<tagName, assigned>>,
           editing' \subseteq editing
    PROVE  TagsInv'
  <1>1. FlowInv
    BY DEF TagsInv, TagTable
  <1>2. FlowInv' /\ open' = open /\ Handling' = Handling
    BY <1>1, PairSent
  <1>3. PICK a, b : /\ requests' = requests \cup {a, b}
                    /\ a.op = op1 /\ a.arg = v1 /\ a.at = "sent" /\ b.op = op2
    BY <1>1, PairSent
  <1>4. \A r \in requests' : r.op = "create" =>
            r.arg \in TagText /\ (r.at = "loaded" => r \in requests)
    BY <1>3 DEF TagsInv, TagTable
  <1> QED
    BY <1>1, <1>2, <1>4, TagsRest DEF TagsInv, TagTable

LEMMA TagPages ==
    ASSUME TagsInv, NEW p \in Page,
           \/ openTags(p) \/ onItemAdd(p) \/ onItemRemove(p)
           \/ onItemCreate(p) \/ closeTags(p)
    PROVE  TagsInv'
  <1>1. CASE openTags(p)
    <2>1. /\ UNCHANGED <<open, requests, left, tagName, assigned>>
          /\ editing' = editing \cup {p} /\ p \in open
      BY <1>1 DEF openTags, requestVars
    <2>2. FlowInv' /\ Handling' = Handling
      BY <2>1, FlowRests DEF TagsInv, TagTable
    <2> QED
      BY <2>1, <2>2, TagsRest DEF TagsInv, TagTable
  <1>2. ASSUME NEW op, op # "create", NEW v, Send(p, op, v),
               UNCHANGED <<tagName, assigned>>, editing' \subseteq editing
        PROVE  TagsInv'
    <2>1. FlowInv' /\ open' = open /\ Handling' = Handling
      BY <1>2, FlowSent DEF TagsInv, TagTable
    <2>2. PICK new : requests' = requests \cup {new} /\ new.op = op
      BY <1>2, FlowSent DEF TagsInv, TagTable
    <2> QED
      BY <1>2, <2>1, <2>2, TagsRest DEF TagsInv, TagTable
  <1>3. CASE onItemAdd(p)
    BY <1>2, <1>3 DEF onItemAdd
  <1>4. CASE onItemRemove(p)
    BY <1>2, <1>4 DEF onItemRemove
  <1>5. CASE onItemCreate(p)
    BY <1>5, TwoSent DEF onItemCreate
  <1>6. CASE closeTags(p)
    <2>1. /\ SendBoth(p, "get", 0, "get", 0) \/ Send(p, "get", 0)
          /\ UNCHANGED <<tagName, assigned>> /\ editing' \subseteq editing
      BY <1>6 DEF closeTags
    <2>2. CASE SendBoth(p, "get", 0, "get", 0)
      BY <2>1, <2>2, TwoSent
    <2>3. CASE Send(p, "get", 0)
      BY <1>2, <2>1, <2>3
    <2> QED
      BY <2>1, <2>2, <2>3
  <1> QED
    BY <1>1, <1>3, <1>4, <1>5, <1>6

\* What a handler that begins with this look-up will find.
LEMMA TagLookUps ==
    ASSUME TagsInv, NEW r \in requests, LookUpAssign(r) \/ LookUpTag(r)
    PROVE  TagsInv'
  <1>1. UNCHANGED <<tagName, assigned, editing>> /\ MayStart(r)
    BY DEF LookUpAssign, LookUpTag, Load, tagVars
  <1>2. CASE Move(r, "done", {})
    <2>1. /\ FlowInv' /\ open' = open /\ Handling' \subseteq Handling
      BY <1>1, <1>2, HandlerEnds DEF TagsInv, TagTable, MayStart
    <2>2. PICK new : /\ requests' = (requests \ {r}) \cup {new}
                     /\ new.op = r.op /\ new.arg = r.arg /\ new.at = "done"
      BY <1>1, <1>2, FlowMoved DEF TagsInv, TagTable, MayStart
    <2>3. \A q \in requests' : q.op = "create" =>
              q.arg \in TagText /\ (q.at = "loaded" => q \in requests)
      BY <2>2 DEF TagsInv, TagTable
    <2> QED
      BY <1>1, <2>1, <2>3, TagsRest DEF TagsInv, TagTable
  <1>3. ASSUME NEW seen, Move(r, "loaded", seen),
               r.op \in {"add", "remove"} => seen = Rows(IdOf(r.arg)),
               r.op = "create" => seen = Found(r.arg),
               r.op \in {"add", "remove", "create"}
        PROVE  TagsInv'
    <2>1. FlowInv' /\ open' = open
      BY <1>1, <1>3, HandlerBegins DEF TagsInv, TagTable
    <2>2. PICK new : /\ requests' = (requests \ {r}) \cup {new}
                     /\ new.op = r.op /\ new.arg = r.arg /\ new.at = "loaded"
                     /\ new.seen = seen
      BY <1>1, <1>3, FlowMoved DEF TagsInv, TagTable, MayStart
    <2>3. Handling' = Handling \cup {new}
      BY <1>1, <2>2 DEF Handling, InHandler, MayStart
    <2>4. \A i : Rows(i)' = Rows(i) /\ Named(i)' = Named(i)
      BY <1>1 DEF Rows, Named
    <2>5. ASSUME NEW i \in TagId PROVE AssignFit(i)'
      <3>1. CASE new \in Adding(i)'
        <4>1. Rows(i)' = {}
          BY <1>3, <2>2, <2>4, <3>1 DEF Adding
        <4>2. Adding(i)' \in SUBSET (Handling')
          BY DEF Adding
        <4> QED
          BY <2>1, <4>1, <4>2, NoRowFit DEF AssignFit
      <3>2. CASE new \notin Adding(i)'
        <4>1. Adding(i)' \subseteq Adding(i)
          BY <2>3, <3>2 DEF Adding
        <4> QED
          BY <2>1, <2>4, <4>1, NoneAdded DEF TagsInv, TagTable
      <3> QED
        BY <3>1, <3>2
    <2>6. ASSUME NEW t \in TagText, Plain(t) PROVE NameFit(t)'
      <3>1. CASE new \in Naming(t)'
        <4>0. Found(t) = {}
          BY <1>3, <2>2, <3>1 DEF Naming
        <4>1. Named(t)' = {}
          BY <2>4, <2>6, <4>0 DEF Plain, Named, Found
        <4>2. Naming(t)' \in SUBSET (Handling')
          BY DEF Naming
        <4> QED
          BY <2>1, <4>1, <4>2, NoRowFit DEF NameFit
      <3>2. CASE new \notin Naming(t)'
        <4>1. Naming(t)' \subseteq Naming(t)
          BY <2>3, <3>2 DEF Naming
        <4> QED
          BY <2>1, <2>4, <2>6, <4>1, NoneNamed DEF TagsInv, TagTable
      <3> QED
        BY <3>1, <3>2
    <2>7. \A q \in requests' : q.op = "create" =>
              q.arg \in TagText
              /\ (q.at = "loaded" => q.seen \subseteq Found(q.arg))
      BY <1>3, <2>2 DEF TagsInv, TagTable
    <2>8. \A q \in requests' : q.op = "create" =>
              q.arg \in TagText
              /\ (q.at = "loaded" =>
                      q.seen \subseteq {j \in TagId : tagName'[j] \in Finds[q.arg]})
      BY <1>1, <2>7 DEF Found
    <2> QED
      BY <1>1, <2>1, <2>5, <2>6, <2>8 DEF TagsInv, TagTable, Found, Plain
  <1>4. CASE LookUpTag(r)
    <2>1. Move(r, "loaded", Found(r.arg)) /\ r.op = "create"
      BY <1>4 DEF LookUpTag, Load, Found
    <2> QED
      BY <1>3, <2>1
  <1>5. CASE LookUpAssign(r)
    <2>1. /\ r.op \in {"add", "remove"}
          /\ \/ Move(r, "loaded", Rows(IdOf(r.arg)))
             \/ Move(r, "done", {})
      BY <1>5 DEF LookUpAssign, Load
    <2> QED
      BY <1>2, <1>3, <2>1
  <1> QED
    BY <1>4, <1>5

\* A handler that writes or only answers.
LEMMA TagHandlers ==
    ASSUME TagsInv, NEW r \in requests,
           \/ ajaxAddTag(r) \/ ajaxRemoveTag(r) \/ ajaxCreateTag(r)
           \/ ajaxGetTags(r) \/ TagAnswered(r) \/ TagLost(r)
    PROVE  TagsInv'
  <1>1. UNCHANGED <<tagName, editing>>
    BY DEF ajaxAddTag, ajaxRemoveTag, ajaxCreateTag, ajaxGetTags,
           TagAnswered, TagLost, tagVars
  <1>2. ASSUME NEW seen, Move(r, "done", seen), r.at \in {"sent", "loaded"}
        PROVE  /\ FlowInv' /\ open' = open /\ Handling' \subseteq Handling \ {r}
               /\ \A q \in requests' : q.op = "create" =>
                      q.arg \in TagText /\ (q.at = "loaded" => q \in requests)
    <2>1. PICK new : /\ requests' = (requests \ {r}) \cup {new}
                     /\ new.op = r.op /\ new.arg = r.arg /\ new.at = "done"
      BY <1>2, FlowMoved DEF TagsInv, TagTable
    <2> QED
      BY <1>2, <2>1, HandlerEnds DEF TagsInv, TagTable
  <1>3. CASE ajaxGetTags(r)
    <2>1. r.at = "sent" /\ Move(r, "done", AssignedTags) /\ assigned' = assigned
      BY <1>3 DEF ajaxGetTags, MayStart, tagVars
    <2> QED
      BY <1>1, <1>2, <2>1, TagsRest DEF TagsInv, TagTable
  <1>4. CASE ajaxRemoveTag(r)
    <2>1. /\ r.at = "loaded" /\ Move(r, "done", {})
          /\ assigned' \subseteq assigned
      BY <1>4 DEF ajaxRemoveTag, Writing
    <2> QED
      BY <1>1, <1>2, <2>1, TagsRest DEF TagsInv, TagTable
  <1>5. CASE TagAnswered(r) \/ TagLost(r)
    <2>1. (Answered(r) \/ Lose(r)) /\ assigned' = assigned
      BY <1>5 DEF TagAnswered, TagLost, tagVars
    <2>2. FlowInv' /\ open' = open /\ requests' = requests \ {r}
          /\ Handling' \subseteq Handling
      BY <2>1, FlowGone DEF TagsInv, TagTable
    <2> QED
      BY <1>1, <2>1, <2>2, TagsRest DEF TagsInv, TagTable
  <1>6. ASSUME NEW k, r.at = "loaded", Move(r, "done", {}), r.seen = {},
               r \in Adding(k), Assign(k)
        PROVE  TagsInv'
    <2>1. /\ FlowInv' /\ open' = open /\ Handling' \subseteq Handling \ {r}
          /\ \A q \in requests' : q.op = "create" =>
                 q.arg \in TagText /\ (q.at = "loaded" => q \in requests)
      BY <1>2, <1>6
    <2>2. assigned' = assigned \cup {[row |-> assignRow + 1, tag |-> k]}
      BY <1>6 DEF Assign
    <2>3. ASSUME NEW i \in TagId PROVE AssignFit(i)'
      <3>1. Adding(i)' \subseteq Adding(i) \ {r}
        BY <2>1 DEF Adding
      <3>2. CASE i = k
        <4>1. Rows(i)' \subseteq Rows(i) \cup {assignRow + 1}
          BY <2>2 DEF Rows
        <4>2. Cardinality(Sessions) \in Nat /\ Sessions' = Sessions
          BY <2>1, OneEach DEF TagsInv, TagTable, Sessions
        <4>3. AssignFit(i) /\ r \in Adding(i)
          BY <1>6, <3>2 DEF TagsInv, TagTable
        <4> QED
          BY <3>1, <4>1, <4>2, <4>3, AddedFit DEF AssignFit
      <3>3. CASE i # k
        <4>1. Rows(i)' \subseteq Rows(i)
          BY <2>2, <3>3 DEF Rows
        <4> QED
          BY <2>1, <3>1, <4>1, NoneAdded DEF TagsInv, TagTable
      <3> QED
        BY <3>2, <3>3
    <2>4. \A t : Named(t)' = Named(t) /\ Naming(t)' \subseteq Naming(t)
      BY <1>1, <2>1 DEF Named, Naming
    <2>5. ASSUME NEW t \in TagText, Plain(t) PROVE NameFit(t)'
      BY <2>1, <2>4, <2>5, NoneNamed DEF TagsInv, TagTable
    <2>6. \A q \in requests' : q.op = "create" =>
              q.arg \in TagText
              /\ (q.at = "loaded" =>
                      q.seen \subseteq {j \in TagId : tagName'[j] \in Finds[q.arg]})
      BY <1>1, <2>1 DEF TagsInv, TagTable, Found
    <2> QED
      BY <1>1, <2>1, <2>3, <2>5, <2>6 DEF TagsInv, TagTable, Found, Plain
  <1>7. CASE ajaxAddTag(r)
    <2>1. r.at = "loaded" /\ r.op = "add" /\ Move(r, "done", {})
      BY <1>7 DEF ajaxAddTag, Writing
    <2>2. CASE r.seen = {}
      <3>1. Assign(IdOf(r.arg)) /\ r \in Adding(IdOf(r.arg))
        BY <1>7, <2>1, <2>2 DEF ajaxAddTag, Adding, Handling, InHandler
      <3> QED
        BY <1>6, <2>1, <2>2, <3>1
    <2>3. CASE r.seen # {}
      BY <1>1, <1>2, <1>7, <2>1, <2>3, TagsRest DEF ajaxAddTag, TagsInv, TagTable
    <2> QED
      BY <2>2, <2>3
  <1>8. CASE ajaxCreateTag(r)
    <2>1. r.at = "loaded" /\ r.op = "assign" /\ Move(r, "done", {})
      BY <1>8 DEF ajaxCreateTag, Writing
    <2>2. CASE r.seen = {}
      <3>1. Assign(r.arg) /\ r \in Adding(r.arg)
        BY <1>8, <2>1, <2>2 DEF ajaxCreateTag, Adding, Handling, InHandler
      <3> QED
        BY <1>6, <2>1, <2>2, <3>1
    <2>3. CASE r.seen # {}
      BY <1>1, <1>2, <1>8, <2>1, <2>3, TagsRest DEF ajaxCreateTag, TagsInv, TagTable
    <2> QED
      BY <2>2, <2>3
  <1> QED
    BY <1>3, <1>4, <1>5, <1>7, <1>8

\* ajaxCreateTag names a tag, if it found none with the name, and goes on to
\* look for the assignment.
\* The tag a request to make one finds, or names.
LEMMA TagFound ==
    ASSUME TagTable, NEW r \in requests, NameTag(r)
    PROVE  /\ FlowInv'
           /\ r.op = "create" /\ r.at = "loaded" /\ r \in Handling
           /\ r.arg \in TagText
           /\ UNCHANGED <<open, left, unaware, assigned, assignRow, items,
                          choices, made, editing, container, bound, missed>>
           /\ \E i, new :
                  /\ i \in TagId
                  /\ r.seen = {} => tagName[i] = Unnamed /\ tagName'[i] = r.arg
                  /\ r.seen # {} => /\ tagName[i] \in Finds[r.arg]
                                    /\ tagName' = tagName
                  /\ tagName' \in [TagId -> TagText \cup {Unnamed}]
                  /\ tagName'[i] \in TagText
                  /\ \A j \in TagId \ {i} : tagName'[j] = tagName[j]
                  /\ disturbed' = [p \in Page |-> disturbed[p] \cup
                         IF r.seen = {} /\ (\/ \E j \in TagId : tagName[j] = r.arg
                                           \/ Misdirected(p, i))
                         THEN {r.arg} ELSE {}]
                  /\ requests' = (requests \ {r}) \cup {new}
                  /\ Handling' = (Handling \ {r}) \cup {new}
                  /\ r # new /\ r \notin requests'
                  /\ new.id = r.id /\ new.page = r.page /\ new.op = "assign"
                  /\ new.arg = i /\ new.at = "loaded" /\ new.seen = Rows(i)
  <1> DEFINE i == IF r.seen = {} THEN NextTagId ELSE Min(r.seen)
             new == [r EXCEPT !.op = "assign", !.arg = i, !.seen = Rows(i)]
  <1>1. /\ r.op = "create" /\ r.at = "loaded"
        /\ r.seen = {} => \E j \in TagId : tagName[j] = Unnamed
        /\ tagName' = IF r.seen = {} THEN [tagName EXCEPT ![i] = r.arg]
                                     ELSE tagName
        /\ requests' = (requests \ {r}) \cup {new}
        /\ UNCHANGED <<open, left, unaware, assigned, assignRow, items,
                       choices, made, editing, container, bound, missed>>
        /\ disturbed' = [p \in Page |-> disturbed[p] \cup
               IF r.seen = {} /\ (\/ \E j \in TagId : tagName[j] = r.arg
                                 \/ Misdirected(p, i))
               THEN {r.arg} ELSE {}]
    BY DEF NameTag, Writing
  <1>2. r.arg \in TagText /\ r.seen \subseteq Found(r.arg) /\ r \in Handling
    BY <1>1 DEF TagTable, Handling, InHandler
  <1>3. TagId \subseteq Nat
    BY TagConstants DEF TagId
  <1>4. /\ i \in TagId
        /\ r.seen = {} => tagName[i] = Unnamed
        /\ r.seen # {} => tagName[i] \in Finds[r.arg]
    <2>1. CASE r.seen = {}
      <3> DEFINE free == {j \in TagId : tagName[j] = Unnamed}
      <3>1. free \in SUBSET Nat /\ free # {}
        BY <1>1, <1>3, <2>1
      <3>2. PICK x \in free : \A y \in free : x <= y
        BY <3>1, Least
      <3>3. \A j \in 1 .. x - 1 : j \in TagId /\ tagName[j] # Unnamed
        BY <3>2, TagConstants DEF TagId
      <3>4. /\ NextTagId \in TagId /\ tagName[NextTagId] = Unnamed
        BY <3>2, <3>3 DEF NextTagId
      <3> QED
        BY <2>1, <3>4
    <2>2. CASE r.seen # {}
      <3>1. r.seen \in SUBSET Nat /\ r.seen \subseteq TagId
        BY <1>2, <1>3 DEF Found
      <3>2. \E x \in r.seen : \A y \in r.seen : x <= y
        BY <2>2, <3>1, Least
      <3>3. Min(r.seen) \in r.seen
        BY <3>2 DEF Min
      <3> QED
        BY <1>2, <2>2, <3>1, <3>3 DEF Found
    <2> QED
      BY <2>1, <2>2
  <1> HIDE DEF i
  <1>5. /\ WellFormed(new) /\ new.id = r.id /\ new.page = r.page
        /\ new.op = "assign" /\ new.arg = i /\ new.at = r.at
        /\ new.seen = Rows(i)
    <2>1. WellFormed(r)
      BY DEF TagTable, FlowInv, RequestsInv
    <2>2. r \in [id : {r.id}, page : {r.page}, op : {r.op}, arg : {r.arg},
                 at : {r.at}, seen : {r.seen}]
      BY <2>1 DEF WellFormed
    <2>3. new \in [id : {r.id}, page : {r.page}, op : {"assign"}, arg : {i},
                   at : {r.at}, seen : {Rows(i)}]
      BY <2>2
    <2> HIDE DEF new
    <2>4. new = [id |-> r.id, page |-> r.page, op |-> "assign", arg |-> i,
                 at |-> r.at, seen |-> Rows(i)]
      BY <2>3
    <2> QED
      BY <2>4 DEF WellFormed
  <1> HIDE DEF new
  <1>6. Handling' = (Handling \ {r}) \cup {new} /\ r # new /\ r \notin requests'
    BY <1>1, <1>2, <1>5 DEF Handling, InHandler
  <1>7. FlowInv'
    <2>1. RequestsInv'
      <3>1. \A q \in requests' :
                WellFormed(q) /\ q.page \in Page /\ q.id \in Nat /\ q.id > left'
        BY <1>1, <1>5 DEF TagTable, FlowInv, RequestsInv
      <3>2. \A q, s \in requests' : q.id = s.id => q = s
        BY <1>1, <1>5 DEF TagTable, FlowInv, RequestsInv
      <3> QED
        BY <1>1, <3>1, <3>2 DEF TagTable, FlowInv, RequestsInv, WellFormed
    <2>2. IsFiniteSet(requests')
      <3>1. IsFiniteSet(requests \ {r})
        BY FS_RemoveElement DEF TagTable, FlowInv
      <3> QED
        BY <1>1, <3>1, FS_AddElement
    <2>3. \A q \in requests' : q.page \in open'
      BY <1>1, <1>5 DEF TagTable, FlowInv
    <2>4. \A q, s \in Handling' : SameSession(q.page, s.page) => q = s
      BY <1>2, <1>5, <1>6 DEF TagTable, FlowInv, SameSession
    <2> QED
      BY <1>1, <2>1, <2>2, <2>3, <2>4 DEF TagTable, FlowInv, SameSession
  <1>8. /\ tagName' \in [TagId -> TagText \cup {Unnamed}]
        /\ r.seen = {} => tagName'[i] = r.arg
        /\ r.seen # {} => tagName' = tagName
        /\ tagName'[i] \in TagText
        /\ \A j \in TagId \ {i} : tagName'[j] = tagName[j]
    BY <1>1, <1>2, <1>4, TagConstants DEF TagTable
  <1> QED
    BY <1>1, <1>2, <1>4, <1>5, <1>6, <1>7, <1>8

LEMMA TableNamed ==
    ASSUME TagTable, NEW r \in requests, NameTag(r)
    PROVE  TagTable'
  <1>1. FlowInv' /\ UNCHANGED <<open, editing>>
    BY TagFound
  <1>2. PICK i, new :
            /\ r.seen = {} => tagName[i] = Unnamed
            /\ r.seen # {} => tagName' = tagName
            /\ tagName' \in [TagId -> TagText \cup {Unnamed}]
            /\ \A j \in TagId \ {i} : tagName'[j] = tagName[j]
            /\ requests' = (requests \ {r}) \cup {new} /\ new.op = "assign"
    BY TagFound
  <1>3. \A t \in TagText : Found(t) \subseteq Found(t)'
    <2>1. \A t \in TagText : Unnamed \notin Finds[t]
      BY TagConstants, UnnamedIsNoName
    <2> QED
      BY <1>2, <2>1 DEF Found
  <1>4. \A q \in requests' : q.op = "create" =>
            q.arg \in TagText /\ (q.at = "loaded" => q.seen \subseteq Found(q.arg)')
    BY <1>2, <1>3 DEF TagTable
  <1> QED
    BY <1>1, <1>2, <1>4 DEF TagTable, Found

LEMMA TagNamed ==
    ASSUME TagsInv, NEW r \in requests, NameTag(r)
    PROVE  TagsInv'
  <1> TagTable
    BY DEF TagsInv
  <1>1. /\ r.op = "create" /\ UNCHANGED <<open, left, assigned, editing>>
    BY TagFound
  <1>2. r.arg \in TagText /\ r \in Handling
    BY TagFound
  <1>3. PICK i, new :
            /\ i \in TagId
            /\ r.seen = {} => tagName[i] = Unnamed /\ tagName'[i] = r.arg
            /\ r.seen # {} => tagName' = tagName
            /\ tagName' \in [TagId -> TagText \cup {Unnamed}]
            /\ \A j \in TagId \ {i} : tagName'[j] = tagName[j]
            /\ requests' = (requests \ {r}) \cup {new}
            /\ Handling' = (Handling \ {r}) \cup {new}
            /\ new.op = "assign" /\ new.arg = i /\ new.seen = Rows(i)
    BY TagFound
  <1>4. FlowInv'
    BY TagFound
  <1>5. \A k : Rows(k)' = Rows(k)
    BY <1>1 DEF Rows
  <1>6. ASSUME NEW k \in TagId PROVE AssignFit(k)'
    <2>1. CASE new \in Adding(k)'
      <3>1. k = i /\ Rows(i) = {}
        BY <1>3, <2>1 DEF Adding
      <3>2. Rows(k)' = {} /\ Adding(k)' \in SUBSET (Handling')
        BY <1>5, <3>1 DEF Adding
      <3> QED
        BY <1>4, <3>2, NoRowFit DEF AssignFit
    <2>2. CASE new \notin Adding(k)'
      <3>1. Adding(k)' \subseteq Adding(k)
        BY <1>3, <2>2 DEF Adding
      <3> QED
        BY <1>1, <1>5, <3>1, NoneAdded DEF TagsInv, TagTable
    <2> QED
      BY <2>1, <2>2
  <1>7. \A t : Naming(t)' \subseteq Naming(t) \ {r}
    BY <1>3 DEF Naming
  <1>8. ASSUME NEW t \in TagText, Plain(t) PROVE NameFit(t)'
    <2>1. t # Unnamed
      BY UnnamedIsNoName
    <2>2. CASE t = r.arg /\ r.seen = {}
      <3>1. r \in Naming(t)
        BY <1>1, <1>2, <2>2 DEF Naming
      <3>2. Named(t)' \subseteq Named(t) \cup {i}
        BY <1>3 DEF Named
      <3>3. Cardinality(Sessions) \in Nat /\ Sessions' = Sessions
        BY <1>1, OneEach DEF TagsInv, TagTable, Sessions
      <3>4. NameFit(t) /\ Naming(t)' \subseteq Naming(t) \ {r}
        BY <1>7, <1>8 DEF TagsInv, TagTable
      <3>5. Fit(Named(t), Naming(t), Cardinality(Sessions))
        BY <3>4 DEF NameFit
      <3>6. Fit(Named(t)', Naming(t)', Cardinality(Sessions))
        <4>1. \A S \in SUBSET (Named(t) \cup {i}), G \in SUBSET (Naming(t) \ {r}) :
                  Fit(S, G, Cardinality(Sessions))
          BY <3>1, <3>3, <3>5, AddedFit
        <4>2. /\ Named(t)' \in SUBSET (Named(t) \cup {i})
              /\ Naming(t)' \in SUBSET (Naming(t) \ {r})
          BY <3>2, <3>4
        <4> QED
          BY <4>1, <4>2
      <3>7. Cardinality(Sessions)' = Cardinality(Sessions)
        BY <3>3
      <3> QED
        BY <3>6, <3>7 DEF NameFit
    <2>3. CASE ~(t = r.arg /\ r.seen = {})
      <3>1. Named(t)' \subseteq Named(t)
        BY <1>3, <2>1, <2>3 DEF Named
      <3>2. NameFit(t) /\ Naming(t)' \subseteq Naming(t)
        BY <1>7, <1>8 DEF TagsInv, TagTable
      <3> QED
        BY <1>1, <3>1, <3>2, NoneNamed
    <2> QED
      BY <2>2, <2>3
  <1>9. TagTable'
    BY TableNamed
  <1> QED
    BY <1>6, <1>9, <1>8 DEF TagsInv, Plain

------------------------------------------------------------------------------
(* Tags in Browser. *)

FirstTagsDiffer ==
    \A i, j \in DOMAIN FirstTags : FirstTags[i] = FirstTags[j] => i = j

TagsAtRest ==
    \A i \in TagId :
        /\ Cardinality(Rows(i)) <= 1
        /\ tagName[i] # Unnamed => Cardinality(Named(tagName[i])) <= 1
TagsKind == IF kind = "tags" THEN TagsInv ELSE TagsAtRest

LEMMA AtMostOne ==
    ASSUME NEW S, NEW x, S \subseteq {x}
    PROVE  IsFiniteSet(S) /\ Cardinality(S) \in Nat /\ Cardinality(S) <= 1
  BY FS_Singleton, FS_EmptySet

LEMMA FitAlone ==
    ASSUME NEW S, NEW x, S \subseteq {x}, NEW n
    PROVE  Fit(S, {}, n)
  <1>1. IsFiniteSet({}) /\ Cardinality({}) = 0
    BY FS_EmptySet
  <1>2. IsFiniteSet(S) /\ Cardinality(S) \in Nat /\ Cardinality(S) <= 1
    BY AtMostOne
  <1> QED
    BY <1>1, <1>2 DEF Fit

LEMMA TagsStart ==
    ASSUME FirstTagsDiffer
    PROVE  Init => TagsKind
  <1> SUFFICES ASSUME Init PROVE TagsKind
    OBVIOUS
  <1>1. FlowInv /\ requests = {}
    BY FlowStarts DEF Init, RequestsInit
  <1>2. /\ tagName = [j \in TagId |-> IF j \in DOMAIN FirstTags
                                      THEN FirstTags[j] ELSE Unnamed]
        /\ assigned \in {{}, {[row |-> j, tag |-> j] : j \in DOMAIN FirstTags}}
        /\ editing = {}
    BY DEF Init, TagInit
  <1>3. ASSUME NEW i \in TagId PROVE Rows(i) \subseteq {i}
    BY <1>2 DEF Rows
  <1>4. ASSUME NEW t, t # Unnamed PROVE \E j : Named(t) \subseteq {j}
    BY <1>2, <1>4 DEF Named, FirstTagsDiffer
  <1>5. \A j : Adding(j) = {} /\ Naming(j) = {}
    BY <1>1 DEF Adding, Naming, Handling
  <1>6. tagName \in [TagId -> TagText \cup {Unnamed}]
    BY <1>2, TagConstants
  <1>7. ASSUME NEW i \in TagId PROVE AssignFit(i)
    <2>1. Rows(i) \subseteq {i} /\ Adding(i) = {}
      BY <1>3, <1>5
    <2> QED
      BY <2>1, FitAlone DEF AssignFit
  <1>8. ASSUME NEW t \in TagText PROVE NameFit(t)
    <2>1. PICK j : Named(t) \subseteq {j}
      BY <1>4, UnnamedIsNoName
    <2>2. Naming(t) = {}
      BY <1>5
    <2> QED
      BY <2>1, <2>2, FitAlone DEF NameFit
  <1>9. TagsInv
    BY <1>1, <1>2, <1>6, <1>7, <1>8 DEF TagsInv, TagTable
  <1>10. TagsAtRest
    BY <1>3, <1>4, AtMostOne DEF TagsAtRest
  <1> QED
    BY <1>9, <1>10 DEF TagsKind

LEMMA TagsKept == TagsKind /\ [Next]_browserVars => TagsKind'
  <1> SUFFICES ASSUME TagsKind, [Next]_browserVars PROVE TagsKind'
    OBVIOUS
  <1>1. UNCHANGED kind
    BY DEF Next, browserVars, NextUpload, NextSecurity, NextTags,
           NextFavourite, NextTimelog, NextPasskeys
  <1>2. CASE NextTags
    BY <1>1, <1>2, TagPages, TagLookUps, TagHandlers, TagNamed
       DEF NextTags, TagNext, TagsKind
  <1>3. CASE kind # "tags" /\ UNCHANGED tagVars
    BY <1>1, <1>3 DEF TagsKind, TagsAtRest, Rows, Named, tagVars
  <1>4. CASE UNCHANGED browserVars
    <2>1. UNCHANGED <<open, requests, left, tagName, assigned, editing>>
      BY <1>4 DEF browserVars, requestVars, tagVars
    <2>2. TagsInv => TagsInv'
      BY <2>1, FlowRests, TagsRest DEF TagsInv, TagTable
    <2>3. TagsAtRest => TagsAtRest'
      BY <2>1 DEF TagsAtRest, Rows, Named
    <2> QED
      BY <1>1, <2>2, <2>3 DEF TagsKind
  <1> QED
    BY <1>2, <1>3, <1>4
       DEF Next, NextUpload, NextSecurity, NextTimelog, NextFavourite,
           NextPasskeys

\* No tag is assigned more than once, and no name that is found by itself is
\* given twice, but by handlers of different sessions, one each: for any
\* pages, sessions, requests and texts, if no two of the tags there are at
\* first share a name.  A name with markup is not found by itself.
THEOREM OneTagForEachSession ==
    ASSUME FirstTagsDiffer
    PROVE  Spec => []OneTagPerSession
  <1>1. TagsKind => OneTagPerSession
    <2> SUFFICES ASSUME TagsKind, NEW i \in TagId
                 PROVE  /\ OnePerSession(Rows(i))
                        /\ tagName[i] # Unnamed /\ tagName[i] \in Finds[tagName[i]]
                               => OnePerSession(Named(tagName[i]))
      BY DEF OneTagPerSession, Named
    <2>1. ASSUME NEW R, NEW H, Fit(R, H, Cardinality(Sessions)), FlowInv
          PROVE  OnePerSession(R)
      <3>1. Cardinality(R) \in Nat /\ Cardinality(H) \in Nat
        BY <2>1, FS_CardinalityType DEF Fit
      <3>2. Cardinality(Sessions) \in Nat
        BY <2>1, OneEach
      <3> QED
        BY <2>1, <3>1, <3>2 DEF Fit, OnePerSession, Sessions
    <2>2. CASE kind = "tags"
      <3>1. TagsInv
        BY <2>2 DEF TagsKind
      <3>2. OnePerSession(Rows(i))
        BY <2>1, <3>1 DEF TagsInv, TagTable, AssignFit
      <3>3. tagName[i] # Unnamed /\ tagName[i] \in Finds[tagName[i]] =>
                OnePerSession(Named(tagName[i]))
        BY <2>1, <3>1 DEF TagsInv, TagTable, NameFit, Plain
      <3> QED
        BY <3>2, <3>3
    <2>3. CASE kind # "tags"
      BY <2>3 DEF TagsKind, TagsAtRest, OnePerSession
    <2> QED
      BY <2>2, <2>3
  <1> QED
    BY <1>1, TagsStart, TagsKept, PTL DEF Spec

------------------------------------------------------------------------------
(* Tags: what the pages show.                                               *)

\* A tag there is.
Known(i) == i \in TagId /\ tagName[i] # Unnamed

\* A request that may still change something.
Due(r) == r.at \in {"sent", "loaded"}

LEMMA TagOpened ==
    ASSUME TagTable, NEW p \in Page, openTags(p)
    PROVE  /\ TagTable' /\ Handling' = Handling
           /\ p \in open /\ p \notin editing /\ editing' = editing \cup {p}
           /\ UNCHANGED <<open, requests, left, tagName, assigned, assignRow,
                          container, missed>>
  <1>1. /\ UNCHANGED <<open, requests, left, tagName, assigned, assignRow,
                       container, missed>>
        /\ p \in open /\ p \notin editing
        /\ editing' = editing \cup {p}
    BY DEF openTags, requestVars
  <1>2. FlowInv' /\ Handling' = Handling
    BY <1>1, FlowRests DEF TagTable
  <1>3. TagTable'
    BY <1>1, <1>2 DEF TagTable, Found
  <1> QED
    BY <1>1, <1>2, <1>3

LEMMA TagSent ==
    ASSUME TagTable, NEW p \in Page, NEW op, op # "create", NEW v,
           Send(p, op, v), tagName' = tagName, editing' \subseteq editing
    PROVE  /\ TagTable' /\ Handling' = Handling /\ open' = open
           /\ \E new : /\ requests' = requests \cup {new}
                       /\ new.page = p /\ new.op = op /\ new.arg = v
                       /\ new.at = "sent" /\ new.seen = {}
  <1>1. FlowInv' /\ Handling' = Handling /\ open' = open
    BY FlowSent DEF TagTable
  <1>2. PICK new : /\ requests' = requests \cup {new}
                   /\ new.page = p /\ new.op = op /\ new.arg = v
                   /\ new.at = "sent" /\ new.seen = {}
    BY FlowSent DEF TagTable
  <1>3. \A q \in requests' : q.op = "create" => q \in requests
    BY <1>2
  <1>4. TagTable'
    BY <1>1, <1>3 DEF TagTable, Found
  <1> QED
    BY <1>1, <1>2, <1>4

LEMMA TagPair ==
    ASSUME TagTable, NEW p \in Page, NEW op1, NEW v1, NEW op2, NEW v2,
           SendBoth(p, op1, v1, op2, v2), op1 = "create" => v1 \in TagText,
           op2 # "create", tagName' = tagName, editing' \subseteq editing
    PROVE  /\ TagTable' /\ Handling' = Handling /\ open' = open
           /\ \E a, b : /\ requests' = requests \cup {a, b}
                        /\ a.page = p /\ a.op = op1 /\ a.arg = v1
                        /\ a.at = "sent" /\ a.seen = {}
                        /\ b.page = p /\ b.op = op2 /\ b.arg = v2
                        /\ b.at = "sent" /\ b.seen = {}
  <1>1. FlowInv
    BY DEF TagTable
  <1>2. FlowInv' /\ open' = open /\ Handling' = Handling
    BY <1>1, PairSent
  <1>3. PICK a, b : /\ requests' = requests \cup {a, b}
                    /\ a.page = p /\ a.op = op1 /\ a.arg = v1
                    /\ a.at = "sent" /\ a.seen = {}
                    /\ b.page = p /\ b.op = op2 /\ b.arg = v2
                    /\ b.at = "sent" /\ b.seen = {}
    BY <1>1, PairSent
  <1>4. \A q \in requests' : q.op = "create" =>
            q \in requests \/ (q.arg \in TagText /\ q.at # "loaded")
    BY <1>3
  <1>5. TagTable'
    BY <1>2, <1>4 DEF TagTable, Found
  <1> QED
    BY <1>2, <1>3, <1>5

\* Closing a modal sends one request for the tags, or two.
LEMMA TagClosed ==
    ASSUME TagTable, NEW p \in Page, closeTags(p)
    PROVE  /\ TagTable' /\ Handling' = Handling
           /\ p \in editing /\ editing' = editing \ {p}
           /\ UNCHANGED <<open, tagName, assigned, assignRow, items, choices,
                          made, disturbed>>
           /\ \E a, b : /\ requests' = requests \cup {a, b}
                        /\ a.page = p /\ a.op = "get" /\ a.at = "sent"
                        /\ b.page = p /\ b.op = "get" /\ b.at = "sent"
  <1>1. /\ p \in editing /\ editing' = editing \ {p}
        /\ UNCHANGED <<tagName, assigned, assignRow, items, choices, made,
                       disturbed>>
        /\ SendBoth(p, "get", 0, "get", 0) \/ Send(p, "get", 0)
    BY DEF closeTags
  <1>2. "get" # "create" /\ editing' \subseteq editing /\ tagName' = tagName
    BY <1>1
  <1>3. CASE SendBoth(p, "get", 0, "get", 0)
    <2>1. TagTable' /\ Handling' = Handling /\ open' = open
      BY <1>2, <1>3, TagPair
    <2>2. PICK a, b : /\ requests' = requests \cup {a, b}
                      /\ a.page = p /\ a.op = "get" /\ a.at = "sent"
                      /\ b.page = p /\ b.op = "get" /\ b.at = "sent"
      BY <1>2, <1>3, TagPair
    <2> QED
      BY <1>1, <2>1, <2>2
  <1>4. CASE Send(p, "get", 0)
    <2>1. TagTable' /\ Handling' = Handling /\ open' = open
      BY <1>2, <1>4, TagSent
    <2>2. PICK a : /\ requests' = requests \cup {a}
                   /\ a.page = p /\ a.op = "get" /\ a.at = "sent"
      BY <1>2, <1>4, TagSent
    <2>3. requests' = requests \cup {a, a}
      BY <2>2
    <2> QED
      BY <1>1, <2>1, <2>2, <2>3
  <1> QED
    BY <1>1, <1>3, <1>4

LEMMA TagMoved ==
    ASSUME TagTable, NEW r \in requests, NEW at, NEW seen, at # r.at,
           Move(r, at, seen), at = "loaded" => MayStart(r),
           r.op = "create" => at = "loaded" /\ seen = Found(r.arg),
           tagName' = tagName, editing' = editing
    PROVE  /\ TagTable' /\ open' = open
           /\ \E new : /\ requests' = (requests \ {r}) \cup {new}
                       /\ new \notin requests
                       /\ new.page = r.page /\ new.op = r.op
                       /\ new.arg = r.arg /\ new.at = at /\ new.seen = seen
  <1>1. FlowInv' /\ open' = open
    BY FlowMoved DEF TagTable
  <1>2. PICK new : /\ requests' = (requests \ {r}) \cup {new}
                   /\ new \notin requests
                   /\ new.page = r.page /\ new.op = r.op
                   /\ new.arg = r.arg /\ new.at = at /\ new.seen = seen
    BY FlowMoved DEF TagTable
  <1>3. \A q \in requests' : q.op = "create" =>
            q \in requests
            \/ (q.arg \in TagText /\ q.at = "loaded" /\ q.seen = Found(q.arg))
    BY <1>2 DEF TagTable
  <1>4. TagTable'
    BY <1>1, <1>3 DEF TagTable, Found
  <1> QED
    BY <1>1, <1>2, <1>4

LEMMA TagGone ==
    ASSUME TagTable, NEW r \in requests, Answered(r) \/ Lose(r),
           tagName' = tagName, editing' = editing
    PROVE  /\ TagTable' /\ open' = open /\ requests' = requests \ {r}
           /\ Handling' \subseteq Handling
  <1>1. /\ FlowInv' /\ open' = open /\ requests' = requests \ {r}
        /\ Handling' \subseteq Handling
    BY FlowGone DEF TagTable
  <1> QED
    BY <1>1 DEF TagTable, Found

LEMMA IdIsItself ==
    ASSUME NEW i \in TagId
    PROVE  IdOf(i) = i
  BY TextIsNoId DEF IdOf

\* The row a handler adds.
Inserts(r, k) ==
    /\ r.at = "loaded" /\ r.seen = {}
    /\ \/ r.op = "add" /\ k = IdOf(r.arg)
       \/ r.op = "assign" /\ k = r.arg
    /\ Assign(k)

\* What a handler does: of the request r is left `new'.
Handled(r, new) ==
    \/ /\ r.at = "sent" /\ UNCHANGED <<assigned, assignRow>>
       /\ \/ /\ r.op \in {"add", "remove"} /\ Known(IdOf(r.arg))
             /\ new.at = "loaded" /\ new.seen = Rows(IdOf(r.arg))
          \/ r.op \in {"add", "remove"} /\ ~Known(IdOf(r.arg)) /\ new.at = "done"
          \/ r.op = "create" /\ new.at = "loaded" /\ new.seen = Found(r.arg)
          \/ r.op = "get" /\ new.at = "done" /\ new.seen = AssignedTags
    \/ (\E k : Inserts(r, k)) /\ new.at = "done"
    \/ /\ r.at = "loaded" /\ r.op \in {"add", "assign"} /\ r.seen # {}
       /\ new.at = "done" /\ UNCHANGED <<assigned, assignRow>>
    \/ /\ r.at = "loaded" /\ r.op = "remove" /\ new.at = "done"
       /\ assigned' = {w \in assigned : ~(w.row \in r.seen /\ w.row = Min(r.seen))}
       /\ assignRow' = assignRow

Handles(r) ==
    \/ LookUpAssign(r) \/ ajaxAddTag(r) \/ ajaxRemoveTag(r)
    \/ LookUpTag(r) \/ ajaxCreateTag(r) \/ ajaxGetTags(r)

LEMMA TagHandled ==
    ASSUME TagTable, NEW r \in requests, Handles(r)
    PROVE  /\ TagTable' /\ Due(r)
           /\ UNCHANGED <<open, tagName, items, choices, made, editing,
                          container, disturbed, missed>>
           /\ \E new : /\ requests' = (requests \ {r}) \cup {new}
                       /\ new \notin requests
                       /\ new.page = r.page /\ new.op = r.op /\ new.arg = r.arg
                       /\ Handled(r, new)
  <1>1. UNCHANGED <<tagName, items, choices, made, editing, container,
                    disturbed, missed>>
    BY DEF Handles, LookUpAssign, ajaxAddTag, ajaxRemoveTag, LookUpTag,
           ajaxCreateTag, ajaxGetTags, tagVars
  <1>2. ASSUME NEW at, NEW seen, Move(r, at, seen), Due(r), at # r.at,
               at = "loaded" => MayStart(r),
               r.op = "create" => at = "loaded" /\ seen = Found(r.arg),
               \A new : new.at = at /\ new.seen = seen => Handled(r, new)
        PROVE  /\ TagTable' /\ Due(r) /\ open' = open
               /\ \E new : /\ requests' = (requests \ {r}) \cup {new}
                           /\ new \notin requests
                           /\ new.page = r.page /\ new.op = r.op
                           /\ new.arg = r.arg /\ Handled(r, new)
    <2>1. TagTable' /\ open' = open
      BY <1>1, <1>2, TagMoved
    <2>2. PICK new : /\ requests' = (requests \ {r}) \cup {new}
                     /\ new \notin requests
                     /\ new.page = r.page /\ new.op = r.op
                     /\ new.arg = r.arg /\ new.at = at /\ new.seen = seen
      BY <1>1, <1>2, TagMoved
    <2> QED
      BY <1>2, <2>1, <2>2
  <1>3. CASE LookUpAssign(r)
    <2>1. /\ r.op \in {"add", "remove"} /\ MayStart(r) /\ r.at = "sent"
          /\ UNCHANGED <<assigned, assignRow>>
      BY <1>3 DEF LookUpAssign, Load, MayStart, tagVars
    <2>2. CASE Known(IdOf(r.arg))
      <3>1. Move(r, "loaded", Rows(IdOf(r.arg)))
        BY <1>3, <2>2 DEF LookUpAssign, Load, Known
      <3>2. \A new : new.at = "loaded" /\ new.seen = Rows(IdOf(r.arg))
                         => Handled(r, new)
        BY <2>1, <2>2 DEF Handled
      <3> QED
        BY <1>1, <1>2, <2>1, <3>1, <3>2 DEF Due
    <2>3. CASE ~Known(IdOf(r.arg))
      <3>1. Move(r, "done", {})
        BY <1>3, <2>3 DEF LookUpAssign, Load, Known
      <3>2. \A new : new.at = "done" => Handled(r, new)
        BY <2>1, <2>3 DEF Handled
      <3> QED
        BY <1>1, <1>2, <2>1, <3>1, <3>2 DEF Due
    <2> QED
      BY <2>2, <2>3
  <1>4. CASE LookUpTag(r)
    <2>1. /\ r.op = "create" /\ MayStart(r) /\ r.at = "sent"
          /\ UNCHANGED <<assigned, assignRow>>
          /\ Move(r, "loaded", Found(r.arg))
      BY <1>4 DEF LookUpTag, Load, MayStart, tagVars, Found
    <2>2. \A new : new.at = "loaded" /\ new.seen = Found(r.arg) => Handled(r, new)
      BY <2>1 DEF Handled
    <2> QED
      BY <1>1, <1>2, <2>1, <2>2 DEF Due
  <1>5. CASE ajaxGetTags(r)
    <2>1. /\ r.op = "get" /\ r.at = "sent" /\ UNCHANGED <<assigned, assignRow>>
          /\ Move(r, "done", AssignedTags)
      BY <1>5 DEF ajaxGetTags, MayStart, tagVars
    <2>2. \A new : new.at = "done" /\ new.seen = AssignedTags => Handled(r, new)
      BY <2>1 DEF Handled
    <2> QED
      BY <1>1, <1>2, <2>1, <2>2 DEF Due
  <1>6. CASE ajaxAddTag(r) \/ ajaxRemoveTag(r) \/ ajaxCreateTag(r)
    <2>1. /\ r.op \in {"add", "remove", "assign"} /\ r.at = "loaded"
          /\ Move(r, "done", {})
      BY <1>6 DEF ajaxAddTag, ajaxRemoveTag, ajaxCreateTag, Writing
    <2>2. \A new : new.at = "done" => Handled(r, new)
      <3>1. CASE ajaxAddTag(r)
        <4>1. /\ r.op = "add"
              /\ IF r.seen = {} THEN Inserts(r, IdOf(r.arg))
                                ELSE UNCHANGED <<assigned, assignRow>>
          BY <2>1, <3>1 DEF ajaxAddTag, Writing, Inserts
        <4> QED
          BY <2>1, <4>1 DEF Handled
      <3>2. CASE ajaxCreateTag(r)
        <4>1. /\ r.op = "assign"
              /\ IF r.seen = {} THEN Inserts(r, r.arg)
                                ELSE UNCHANGED <<assigned, assignRow>>
          BY <2>1, <3>2 DEF ajaxCreateTag, Writing, Inserts
        <4> QED
          BY <2>1, <4>1 DEF Handled
      <3>3. CASE ajaxRemoveTag(r)
        BY <2>1, <3>3 DEF ajaxRemoveTag, Writing, Handled
      <3> QED
        BY <1>6, <3>1, <3>2, <3>3
    <2> QED
      BY <1>1, <1>2, <2>1, <2>2 DEF Due
  <1> QED
    BY <1>1, <1>3, <1>4, <1>5, <1>6 DEF Handles

\* Rows have numbers given, and handlers hold only such, of the tag they are
\* about.
RowsInv ==
    /\ assignRow \in Nat
    /\ \A w \in assigned :
           /\ w \in [row : Nat, tag : TagId]
           /\ w.row > 0 /\ w.row <= assignRow /\ Known(w.tag)
    /\ \A w, u \in assigned : w.row = u.row => w = u
    /\ \A r \in Handling :
           /\ r.op \in {"add", "remove"} =>
                  /\ Known(IdOf(r.arg))
                  /\ \A x \in r.seen : x \in Nat /\ x <= assignRow
                  /\ \A w \in assigned : w.row \in r.seen => w.tag = IdOf(r.arg)
           /\ r.op = "assign" => Known(r.arg)
           /\ r.op # "get"
    /\ \A r \in requests :
           /\ r.at \in {"sent", "loaded", "done"}
           /\ r.op = "get" /\ r.at # "sent" => \A i \in r.seen : Known(i)
           /\ r.at = "sent" => r.op # "assign"

LEMMA RowsRest ==
    ASSUME RowsInv, tagName' = tagName, assignRow' = assignRow,
           assigned' \subseteq assigned, Handling' \subseteq Handling,
           \A r \in requests' :
               r \in requests
               \/ /\ r.op # "assign" /\ r.at \in {"sent", "loaded", "done"}
                  /\ r.op = "get" /\ r.at # "sent" => \A i \in r.seen : Known(i)
    PROVE  RowsInv'
  BY DEF RowsInv, Known, IdOf

LEMMA RowsOfHandlers ==
    ASSUME TagTable, RowsInv, NEW r \in requests, Handles(r)
    PROVE  RowsInv'
  <1>1. tagName' = tagName /\ Due(r)
    BY TagHandled
  <1>2. PICK new : /\ requests' = (requests \ {r}) \cup {new}
                   /\ new \notin requests
                   /\ new.page = r.page /\ new.op = r.op /\ new.arg = r.arg
                   /\ Handled(r, new)
    BY TagHandled
  <1>3. \A i : Known(i)' = Known(i)
    BY <1>1 DEF Known
  <1>4. CASE new.at = "loaded"
    <2>1. r.at = "sent" /\ UNCHANGED <<assigned, assignRow>>
      BY <1>2, <1>4 DEF Handled
    <2>2. r.op \in {"add", "remove"} =>
              Known(IdOf(r.arg)) /\ new.seen = Rows(IdOf(r.arg))
      BY <1>2, <1>4 DEF Handled
    <2>3. r.op \in {"add", "remove", "create"}
      BY <1>2, <1>4 DEF Handled
    <2>4. Handling' = Handling \cup {new}
      BY <1>2, <1>4, <2>1 DEF Handling, InHandler
    <2>5. new.op \in {"add", "remove"} =>
              /\ Known(IdOf(new.arg))
              /\ \A x \in new.seen : x \in Nat /\ x <= assignRow
              /\ \A w \in assigned : w.row \in new.seen => w.tag = IdOf(new.arg)
      <3>1. \A i, x : x \in Rows(i) => \E w \in assigned : w.row = x /\ w.tag = i
        BY DEF Rows
      <3>2. \A x : x \in Rows(IdOf(r.arg)) => x \in Nat /\ x <= assignRow
        BY <3>1 DEF RowsInv
      <3>3. \A w, u \in assigned : w.row = u.row => w.tag = u.tag
        BY DEF RowsInv
      <3> QED
        BY <1>2, <2>2, <3>1, <3>2, <3>3
    <2>6. \A q \in Handling' :
              /\ q.op \in {"add", "remove"} =>
                  /\ Known(IdOf(q.arg))
                  /\ \A x \in q.seen : x \in Nat /\ x <= assignRow
                  /\ \A w \in assigned : w.row \in q.seen => w.tag = IdOf(q.arg)
              /\ q.op = "assign" => Known(q.arg)
              /\ q.op # "get"
      BY <1>2, <2>3, <2>4, <2>5 DEF RowsInv
    <2> QED
      BY <1>1, <1>2, <1>3, <1>4, <2>1, <2>3, <2>6 DEF RowsInv, IdOf
  <1>5. CASE new.at = "done"
    <2>1. Handling' \subseteq Handling \ {r}
      <3>1. r # new
        BY <1>2
      <3> QED
        BY <1>2, <1>5, <3>1 DEF Handling, InHandler
    <2>2. r.op = "get" => \A i \in new.seen : Known(i)
      BY <1>2, <1>5 DEF Handled, AssignedTags, RowsInv, Inserts, Handling, InHandler
    <2>3. CASE \E k : Inserts(r, k)
      <3>1. PICK k : Inserts(r, k)
        BY <2>3
      <3>2. Known(k) /\ r \in Handling
        BY <3>1 DEF Inserts, RowsInv, Handling, InHandler
      <3>3. /\ assignRow' = assignRow + 1
            /\ assigned' = assigned \cup {[row |-> assignRow + 1, tag |-> k]}
        BY <3>1 DEF Inserts, Assign
      <3>4. k \in TagId
        BY <3>2 DEF Known
      <3> QED
        BY <1>1, <1>2, <1>3, <1>5, <2>1, <2>2, <3>1, <3>2, <3>3, <3>4
           DEF RowsInv, IdOf, Inserts
    <2>4. CASE assigned' \subseteq assigned /\ assignRow' = assignRow
      <3>1. \A q \in requests' :
               /\ q.at \in {"sent", "loaded", "done"}
               /\ q.op = "get" /\ q.at # "sent" => \A i \in q.seen : Known(i)
               /\ q.at = "sent" => q.op # "assign"
        BY <1>2, <1>5, <2>2 DEF RowsInv
      <3> QED
        BY <1>1, <1>3, <2>1, <2>4, <3>1 DEF RowsInv, IdOf
    <2>5. \/ assigned' \subseteq assigned /\ assignRow' = assignRow
          \/ \E k : Inserts(r, k)
      BY <1>2 DEF Handled
    <2> QED
      BY <2>3, <2>4, <2>5
  <1> QED
    BY <1>2, <1>4, <1>5 DEF Handled

\* What pages show and send names tags there are, or what the user typed.
PagesInv ==
    /\ items \in [Page -> SUBSET (TagId \cup TagText)]
    /\ choices \in [Page -> SUBSET TagId]
    /\ made \in [Page -> SUBSET TagText]
    /\ container \in [Page -> SUBSET TagId]
    /\ disturbed \in [Page -> SUBSET TagText]
    /\ missed \in [Page -> SUBSET TagText]
    /\ \A p \in Page :
           /\ \A i \in choices[p] \cup container[p] : Known(i)
           /\ items[p] \subseteq choices[p] \cup made[p]
           /\ \A r \in Of(p) : r.op \in {"add", "remove"} =>
                  r.arg \in choices[p] \cup TagText

\* What a request deals with are names.
LEMMA SubjectIs ==
    ASSUME NEW r, NEW n
    PROVE  n \in SubjectsOf(r) <=>
               /\ r.at # "done"
               /\ \/ r.op = "create" /\ n \in {r.arg} \cup Finds[r.arg]
                  \/ /\ r.op \in {"add", "remove", "assign"}
                     /\ n \in TagText /\ IdOf(r.arg) \in TagId
                     /\ tagName[IdOf(r.arg)] = n
  BY DEF SubjectsOf, Subjects, NamesOf

LEMMA SubjectThen ==
    ASSUME NEW r, NEW n
    PROVE  n \in SubjectsOf(r)' <=>
               /\ r.at # "done"
               /\ \/ r.op = "create" /\ n \in {r.arg} \cup Finds[r.arg]
                  \/ /\ r.op \in {"add", "remove", "assign"}
                     /\ n \in TagText /\ IdOf(r.arg) \in TagId
                     /\ tagName'[IdOf(r.arg)] = n
  BY DEF SubjectsOf, Subjects, NamesOf, IdOf

LEMMA SubjectsAreNames ==
    ASSUME TagTable
    PROVE  AllSubjects \subseteq TagText
  <1>1. ASSUME NEW r \in requests, NEW n \in SubjectsOf(r) PROVE n \in TagText
    BY <1>1, SubjectIs, TagConstants DEF TagTable
  <1> QED
    BY <1>1 DEF AllSubjects

LEMMA SubjectsStay ==
    ASSUME tagName' = tagName, NEW r
    PROVE  SubjectsOf(r)' = SubjectsOf(r)
  BY SubjectIs, SubjectThen

\* The user chooses, removes or makes an option: what p deals with then is
\* noted for the others.
Chooses(p) == onItemAdd(p) \/ onItemRemove(p) \/ onItemCreate(p)

LEMMA TagChosen ==
    ASSUME TagTable, PagesInv, NEW p \in Page, Chooses(p)
    PROVE  /\ TagTable' /\ Handling' = Handling /\ p \in editing
           /\ UNCHANGED <<open, tagName, assigned, assignRow, choices, editing,
                          container>>
           /\ \E a, b, names, again :
                  /\ requests' = requests \cup {a, b}
                  /\ \A r \in {a, b} :
                         /\ r.page = p /\ r.at = "sent"
                         /\ r.op \in {"add", "remove", "create"}
                         /\ r.op # "create" => r.arg \in choices[p] \cup TagText
                         /\ SubjectsOf(r) \subseteq names
                  /\ names \subseteq TagText /\ again \subseteq names
                  /\ Disturb(p, names, again)
  <1>1. /\ UNCHANGED <<tagName, assigned, assignRow, choices, editing, container>>
        /\ p \in editing
    BY DEF Chooses, onItemAdd, onItemRemove, onItemCreate
  <1>2. /\ choices[p] \cup made[p] \subseteq choices[p] \cup TagText
        /\ items[p] \subseteq choices[p] \cup TagText
    BY DEF PagesInv
  <1>3. ASSUME NEW op \in {"add", "remove"}, NEW v \in choices[p] \cup TagText,
               Send(p, op, v), DisturbTwice(p, Subjects(op, v))
        PROVE  /\ TagTable' /\ Handling' = Handling /\ open' = open
               /\ \E a, b, names, again :
                  /\ requests' = requests \cup {a, b}
                  /\ \A r \in {a, b} :
                         /\ r.page = p /\ r.at = "sent"
                         /\ r.op \in {"add", "remove", "create"}
                         /\ r.op # "create" => r.arg \in choices[p] \cup TagText
                         /\ SubjectsOf(r) \subseteq names
                  /\ names \subseteq TagText /\ again \subseteq names
                  /\ Disturb(p, names, again)
    <2>1. op # "create" /\ editing' \subseteq editing
      BY <1>1
    <2>2. PICK a : /\ requests' = requests \cup {a}
                   /\ a.page = p /\ a.op = op /\ a.arg = v
                   /\ a.at = "sent"
      BY <1>1, <1>3, <2>1, TagSent
    <2>3. requests' = requests \cup {a, a}
      BY <2>2
    <2> DEFINE names == Subjects(op, v)
               again == {n \in names : Twice(p, n)}
    <2>4. SubjectsOf(a) \subseteq names /\ names \subseteq TagText
      BY <2>2 DEF SubjectsOf, Subjects, NamesOf
    <2>5. again \subseteq names /\ Disturb(p, names, again)
      BY <1>3 DEF DisturbTwice
    <2> HIDE DEF names, again
    <2>6. TagTable' /\ Handling' = Handling /\ open' = open
      BY <1>1, <1>3, <2>1, TagSent
    <2> QED
      BY <1>3, <2>2, <2>3, <2>4, <2>5, <2>6
  <1>4. CASE onItemAdd(p)
    <2>1. PICK v \in choices[p] \cup made[p] :
              Send(p, "add", v) /\ DisturbTwice(p, Subjects("add", v))
      BY <1>4 DEF onItemAdd
    <2> QED
      BY <1>1, <1>2, <1>3, <2>1
  <1>5. CASE onItemRemove(p)
    <2>1. PICK v \in items[p] :
              Send(p, "remove", v) /\ DisturbTwice(p, Subjects("remove", v))
      BY <1>5 DEF onItemRemove
    <2> QED
      BY <1>1, <1>2, <1>3, <2>1
  <1>6. CASE onItemCreate(p)
    <2>1. PICK t \in TagText :
              /\ SendBoth(p, "create", t, "add", t)
              /\ Disturb(p, {t} \cup Finds[t] \cup NamesOf(t),
                         {n \in {t} \cup Finds[t] \cup NamesOf(t) :
                              \/ Twice(p, n)
                              \/ \E i \in TagId : tagName[i] = t})
      BY <1>6 DEF onItemCreate
    <2>2. /\ TagTable' /\ Handling' = Handling /\ open' = open
          /\ \E a, b : /\ requests' = requests \cup {a, b}
                       /\ a.page = p /\ a.op = "create" /\ a.arg = t
                       /\ a.at = "sent" /\ a.seen = {}
                       /\ b.page = p /\ b.op = "add" /\ b.arg = t
                       /\ b.at = "sent" /\ b.seen = {}
      <3>1. "add" # "create" /\ editing' \subseteq editing /\ tagName' = tagName
        BY <1>1
      <3> QED
        BY <2>1, <3>1, TagPair
    <2>3. PICK a, b : /\ requests' = requests \cup {a, b}
                      /\ a.page = p /\ a.op = "create" /\ a.arg = t
                      /\ a.at = "sent"
                      /\ b.page = p /\ b.op = "add" /\ b.arg = t
                      /\ b.at = "sent"
      BY <2>2
    <2> DEFINE names == {t} \cup Finds[t] \cup NamesOf(t)
               again == {n \in names : \/ Twice(p, n)
                                       \/ \E i \in TagId : tagName[i] = t}
    <2>4. SubjectsOf(a) = {t} \cup Finds[t] /\ SubjectsOf(b) = NamesOf(t)
      BY <2>3 DEF SubjectsOf, Subjects
    <2>5. names \subseteq TagText
      BY TagConstants DEF NamesOf
    <2>6. again \subseteq names /\ Disturb(p, names, again)
      BY <2>1
    <2>7. \A r \in {a, b} : /\ r.page = p /\ r.at = "sent"
                            /\ r.op \in {"add", "remove", "create"}
                            /\ r.op # "create" => r.arg \in choices[p] \cup TagText
                            /\ SubjectsOf(r) \subseteq names
      BY <2>3, <2>4
    <2> HIDE DEF names, again
    <2> QED
      BY <1>1, <2>2, <2>3, <2>5, <2>6, <2>7
  <1> QED
    BY <1>4, <1>5, <1>6 DEF Chooses

LEMMA Noted ==
    ASSUME PagesInv, NEW p, NEW names \in SUBSET TagText,
           NEW again \in SUBSET names, Disturb(p, names, again)
    PROVE  /\ disturbed' \in [Page -> SUBSET TagText]
           /\ missed' \in [Page -> SUBSET TagText]
           /\ \A q \in Page : disturbed[q] \subseteq disturbed'[q]
           /\ \A q \in Page : missed[q] \subseteq missed'[q]
           /\ \A q \in Page \ {p} : names \subseteq disturbed'[q]
           /\ \A q \in Page : q # p \/ Getting(p) => names \subseteq missed'[q]
           /\ p \in Page => again \subseteq disturbed'[p]
  BY DEF PagesInv, Disturb

LEMMA RowsOfPages ==
    ASSUME TagTable, RowsInv, PagesInv, NEW p \in Page,
           openTags(p) \/ Chooses(p) \/ closeTags(p)
    PROVE  RowsInv'
  <1>1. CASE openTags(p)
    <2>1. /\ UNCHANGED <<requests, tagName, assigned, assignRow>>
          /\ Handling' = Handling
      BY <1>1, TagOpened
    <2> QED
      BY <2>1, RowsRest
  <1>2. CASE Chooses(p)
    <2>1. /\ UNCHANGED <<tagName, assigned, assignRow>>
          /\ Handling' = Handling
      BY <1>2, TagChosen
    <2>2. PICK a, b : /\ requests' = requests \cup {a, b}
                      /\ \A r \in {a, b} : /\ r.at = "sent"
                                           /\ r.op \in {"add", "remove", "create"}
      BY <1>2, TagChosen
    <2> QED
      BY <2>1, <2>2, RowsRest
  <1>3. CASE closeTags(p)
    <2>1. /\ UNCHANGED <<tagName, assigned, assignRow>>
          /\ Handling' = Handling
      BY <1>3, TagClosed
    <2>2. PICK a, b : /\ requests' = requests \cup {a, b}
                      /\ a.op = "get" /\ a.at = "sent"
                      /\ b.op = "get" /\ b.at = "sent"
      BY <1>3, TagClosed
    <2> QED
      BY <2>1, <2>2, RowsRest
  <1> QED
    BY <1>1, <1>2, <1>3

LEMMA RowsOfOthers ==
    ASSUME TagTable, RowsInv, PagesInv, NEW r \in requests,
           NameTag(r) \/ TagAnswered(r) \/ TagLost(r)
    PROVE  RowsInv'
  <1>1. CASE NameTag(r)
    <2>1. /\ UNCHANGED <<assigned, assignRow>>
          /\ r.op = "create" /\ r \in Handling
      BY <1>1, TagFound
    <2>2. PICK i, new :
              /\ i \in TagId
              /\ r.seen = {} => tagName[i] = Unnamed /\ tagName'[i] = r.arg
              /\ r.seen # {} => /\ tagName[i] \in Finds[r.arg]
                                /\ tagName' = tagName
              /\ tagName'[i] \in TagText
              /\ \A j \in TagId \ {i} : tagName'[j] = tagName[j]
              /\ requests' = (requests \ {r}) \cup {new}
              /\ Handling' = (Handling \ {r}) \cup {new}
              /\ new.op = "assign" /\ new.arg = i /\ new.at = "loaded"
      BY <1>1, TagFound
    <2>3. (\A k : Known(k) => Known(k)') /\ Known(i)'
      BY <2>2, UnnamedIsNoName DEF Known
    <2>4. \A q \in Handling' :
              /\ q.op \in {"add", "remove"} =>
                     /\ Known(IdOf(q.arg))'
                     /\ \A x \in q.seen : x \in Nat /\ x <= assignRow
                     /\ \A w \in assigned :
                            w.row \in q.seen => w.tag = IdOf(q.arg)
              /\ q.op = "assign" => Known(q.arg)'
              /\ q.op # "get"
      BY <2>1, <2>2, <2>3 DEF RowsInv, IdOf
    <2>5. \A q \in requests' :
             /\ q.at \in {"sent", "loaded", "done"}
             /\ q.op = "get" /\ q.at # "sent" => \A j \in q.seen : Known(j)'
             /\ q.at = "sent" => q.op # "assign"
      BY <2>2, <2>3 DEF RowsInv
    <2> QED
      BY <2>1, <2>3, <2>4, <2>5 DEF RowsInv, IdOf
  <1>2. CASE TagAnswered(r) \/ TagLost(r)
    <2>1. /\ UNCHANGED <<tagName, assigned, assignRow, editing>>
          /\ Answered(r) \/ Lose(r)
      BY <1>2 DEF TagAnswered, TagLost, tagVars
    <2>2. requests' = requests \ {r} /\ Handling' \subseteq Handling
      BY <2>1, TagGone
    <2> QED
      BY <2>1, <2>2, RowsRest
  <1> QED
    BY <1>1, <1>2

LEMMA PagesRest ==
    ASSUME PagesInv, UNCHANGED <<items, choices, made>>,
           disturbed' \in [Page -> SUBSET TagText],
           missed' \in [Page -> SUBSET TagText],
           container' \in [Page -> SUBSET TagId],
           \A i : Known(i) => Known(i)',
           \A p \in Page : \A i \in container'[p] : Known(i),
           \A r \in requests' :
               \/ r.op \notin {"add", "remove"}
               \/ \E q \in requests :
                      r.page = q.page /\ r.op = q.op /\ r.arg = q.arg
    PROVE  PagesInv'
  BY DEF PagesInv, Of

LEMMA PagesOfPages ==
    ASSUME TagTable, RowsInv, PagesInv, NEW p \in Page,
           openTags(p) \/ Chooses(p) \/ closeTags(p)
    PROVE  PagesInv'
  <1>1. CASE openTags(p)
    <2>1. UNCHANGED <<requests, tagName, assigned, container, missed>>
      BY <1>1, TagOpened
    <2>2. /\ items' = [items EXCEPT ![p] = AssignedTags]
          /\ choices' = [choices EXCEPT ![p] = {i \in TagId : tagName[i] # Unnamed}]
          /\ made' = [made EXCEPT ![p] = {}]
          /\ disturbed' = [disturbed EXCEPT ![p] = Doubled \cup AllSubjects]
      BY <1>1 DEF openTags
    <2>3. AssignedTags \subseteq {i \in TagId : tagName[i] # Unnamed}
      BY DEF AssignedTags, RowsInv, Known
    <2>4. Doubled \cup AllSubjects \subseteq TagText
      BY SubjectsAreNames DEF Doubled
    <2> HIDE DEF Doubled
    <2>5. /\ items' \in [Page -> SUBSET (TagId \cup TagText)]
          /\ choices' \in [Page -> SUBSET TagId]
          /\ made' \in [Page -> SUBSET TagText]
          /\ disturbed' \in [Page -> SUBSET TagText]
      BY <2>2, <2>3, <2>4 DEF PagesInv
    <2>6. /\ \A i : Known(i)' = Known(i)
          /\ \A q : Of(q)' = Of(q)
      BY <2>1 DEF Known, Of
    <2>7. \A q \in Page \ {p} :
              choices'[q] = choices[q] /\ made'[q] = made[q] /\ items'[q] = items[q]
      BY <2>2 DEF PagesInv
    <2>8. /\ \A i \in choices'[p] : Known(i)
          /\ items'[p] \subseteq choices'[p]
          /\ choices[p] \subseteq choices'[p]
      BY <2>2, <2>3 DEF PagesInv, Known
    <2> QED
      BY <2>1, <2>5, <2>6, <2>7, <2>8 DEF PagesInv
  <1>2. CASE Chooses(p)
    <2>1. UNCHANGED <<tagName, choices, container>>
      BY <1>2, TagChosen
    <2>2. PICK a, b, names, again :
              /\ requests' = requests \cup {a, b}
              /\ \A r \in {a, b} :
                     /\ r.page = p
                     /\ r.op \in {"add", "remove", "create"}
                     /\ r.op # "create" => r.arg \in choices[p] \cup TagText
              /\ names \subseteq TagText /\ again \subseteq names
              /\ Disturb(p, names, again)
      BY <1>2, TagChosen
    <2>3. /\ disturbed' \in [Page -> SUBSET TagText]
          /\ missed' \in [Page -> SUBSET TagText]
      BY <2>2, Noted
    <2>4. \A q : Of(q)' = Of(q) \cup (IF q = p THEN {a, b} ELSE {})
      BY <2>2 DEF Of
    <2>5. \A i : Known(i)' = Known(i)
      BY <2>1 DEF Known
    <2>6. /\ items' \in [Page -> SUBSET (TagId \cup TagText)]
          /\ made' \in [Page -> SUBSET TagText]
          /\ \A q \in Page : items'[q] \subseteq choices[q] \cup made'[q]
      <3>1. CASE onItemAdd(p)
        <4>1. PICK v \in choices[p] \cup made[p] :
                  items' = [items EXCEPT ![p] = items[p] \cup {v}]
          BY <3>1 DEF onItemAdd
        <4>2. made' = made
          BY <3>1 DEF onItemAdd
        <4> QED
          BY <4>1, <4>2 DEF PagesInv
      <3>2. CASE onItemRemove(p)
        <4>1. PICK v \in items[p] :
                  items' = [items EXCEPT ![p] = items[p] \ {v}]
          BY <3>2 DEF onItemRemove
        <4>2. made' = made
          BY <3>2 DEF onItemRemove
        <4> QED
          BY <4>1, <4>2 DEF PagesInv
      <3>3. CASE onItemCreate(p)
        <4>1. PICK t \in TagText :
                  /\ items' = [items EXCEPT ![p] = items[p] \cup {t}]
                  /\ made' = [made EXCEPT ![p] = made[p] \cup {t}]
          BY <3>3 DEF onItemCreate
        <4> QED
          BY <4>1 DEF PagesInv
      <3> QED
        BY <1>2, <3>1, <3>2, <3>3 DEF Chooses
    <2> QED
      BY <2>1, <2>2, <2>3, <2>4, <2>5, <2>6 DEF PagesInv
  <1>3. CASE closeTags(p)
    <2>1. UNCHANGED <<tagName, items, choices, made, disturbed>>
      BY <1>3, TagClosed
    <2>2. PICK a, b : /\ requests' = requests \cup {a, b}
                      /\ a.op = "get" /\ b.op = "get"
      BY <1>3, TagClosed
    <2>3. /\ container' = [container EXCEPT ![p] = {}]
          /\ missed' = [missed EXCEPT ![p] =
                 AllSubjects \cup IF Getting(p) THEN missed[p] ELSE {}]
      BY <1>3 DEF closeTags
    <2>4. AllSubjects \subseteq TagText
      BY SubjectsAreNames
    <2>5. /\ container' \in [Page -> SUBSET TagId]
          /\ missed' \in [Page -> SUBSET TagText]
          /\ disturbed' \in [Page -> SUBSET TagText]
          /\ \A q \in Page : \A i \in container'[q] : Known(i)
      BY <2>1, <2>3, <2>4 DEF PagesInv
    <2>6. \A i : Known(i) => Known(i)'
      BY <2>1 DEF Known
    <2>7. \A r \in requests' : r.op \notin {"add", "remove"} \/ r \in requests
      BY <2>2
    <2> QED
      BY <2>1, <2>5, <2>6, <2>7, PagesRest
  <1> QED
    BY <1>1, <1>2, <1>3

LEMMA PagesOfRequests ==
    ASSUME TagTable, RowsInv, PagesInv, NEW r \in requests,
           Handles(r) \/ NameTag(r) \/ TagAnswered(r) \/ TagLost(r)
    PROVE  PagesInv'
  <1>1. CASE Handles(r)
    <2>1. UNCHANGED <<tagName, items, choices, made, container, disturbed, missed>>
      BY <1>1, TagHandled
    <2>2. PICK new : /\ requests' = (requests \ {r}) \cup {new}
                     /\ new.page = r.page /\ new.op = r.op /\ new.arg = r.arg
      BY <1>1, TagHandled
    <2>3. /\ disturbed' \in [Page -> SUBSET TagText]
          /\ missed' \in [Page -> SUBSET TagText]
          /\ container' \in [Page -> SUBSET TagId]
          /\ \A p \in Page : \A i \in container'[p] : Known(i)
      BY <2>1 DEF PagesInv
    <2> QED
      BY <2>1, <2>2, <2>3, PagesRest DEF Known
  <1>2. CASE NameTag(r)
    <2>1. /\ UNCHANGED <<items, choices, made, container, missed>>
          /\ r.arg \in TagText
      BY <1>2, TagFound
    <2>2. PICK i, new :
              /\ i \in TagId
              /\ tagName'[i] \in TagText
              /\ \A j \in TagId \ {i} : tagName'[j] = tagName[j]
              /\ disturbed' = [p \in Page |-> disturbed[p] \cup
                     IF r.seen = {} /\ (\/ \E j \in TagId : tagName[j] = r.arg
                                       \/ Misdirected(p, i))
                     THEN {r.arg} ELSE {}]
              /\ requests' = (requests \ {r}) \cup {new} /\ new.op = "assign"
      BY <1>2, TagFound
    <2>3. /\ disturbed' \in [Page -> SUBSET TagText]
          /\ missed' \in [Page -> SUBSET TagText]
          /\ container' \in [Page -> SUBSET TagId]
          /\ \A p \in Page : \A j \in container'[p] : Known(j)
      BY <2>1, <2>2 DEF PagesInv
    <2>4. \A k : Known(k) => Known(k)'
      BY <2>2, UnnamedIsNoName DEF Known
    <2> QED
      BY <2>1, <2>2, <2>3, <2>4, PagesRest
  <1>3. CASE TagAnswered(r) \/ TagLost(r)
    <2>1. /\ UNCHANGED <<tagName, editing, items, choices, made>>
          /\ Answered(r) \/ Lose(r)
      BY <1>3 DEF TagAnswered, TagLost, tagVars
    <2>2. requests' = requests \ {r}
      BY <2>1, TagGone
    <2>3. /\ disturbed' \in [Page -> SUBSET TagText]
          /\ missed' \in [Page -> SUBSET TagText]
      <3>1. SubjectsOf(r) \subseteq TagText
        BY SubjectsAreNames DEF AllSubjects
      <3>2. CASE TagLost(r)
        <4>1. /\ disturbed' = [disturbed EXCEPT ![r.page] =
                                   disturbed[r.page] \cup SubjectsOf(r)]
              /\ missed' = [missed EXCEPT ![r.page] = missed[r.page] \cup
                                IF r.op = "get" THEN TagText ELSE {}]
          BY <3>2 DEF TagLost
        <4> QED
          BY <3>1, <4>1 DEF PagesInv
      <3>3. CASE TagAnswered(r)
        BY <3>3 DEF TagAnswered, PagesInv
      <3> QED
        BY <1>3, <3>2, <3>3
    <2>4. \A i : Known(i) => Known(i)'
      BY <2>1 DEF Known
    <2>5. /\ container' \in [Page -> SUBSET TagId]
          /\ \A p \in Page : \A i \in container'[p] : Known(i)
      <3>1. CASE container' = container
        BY <3>1 DEF PagesInv
      <3>2. CASE container' # container
        <4>1. r.op = "get" /\ r.at = "done" /\ ShowTags(r)
          BY <1>3, <3>2 DEF TagAnswered, TagLost
        <4>2. \A i \in r.seen : Known(i)
          BY <4>1 DEF RowsInv
        <4> QED
          BY <4>1, <4>2 DEF ShowTags, PagesInv, Known
      <3> QED
        BY <3>1, <3>2
    <2> QED
      BY <2>1, <2>2, <2>3, <2>4, <2>5, PagesRest
  <1> QED
    BY <1>1, <1>2, <1>3

\* What is dealt with once a request has named its tag was dealt with before,
\* but for a text that is taken for the id of the tag.
LEMMA NamedSubjects ==
    ASSUME TagTable, RowsInv, PagesInv, NEW r \in requests, NameTag(r),
           NEW q \in requests', NEW n \in SubjectsOf(q)'
    PROVE  \/ q \in requests /\ n \in SubjectsOf(q)
           \/ q.page = r.page /\ q.op = "assign" /\ n \in SubjectsOf(r)
           \/ /\ q \in requests /\ q.op \in {"add", "remove"}
              /\ q.arg \in TagText /\ IdOf(q.arg) \in TagId
              /\ tagName'[IdOf(q.arg)] = n /\ n \in SubjectsOf(r)
              /\ \A p \in Page : (q.page = p /\ q.arg \in made[p])
                                 \/ n \in disturbed'[p]
  <1>1. r.op = "create" /\ r.at = "loaded" /\ r.arg \in TagText
    BY TagFound
  <1>2. PICK i, new :
            /\ i \in TagId
            /\ r.seen = {} => tagName[i] = Unnamed /\ tagName'[i] = r.arg
            /\ r.seen # {} => /\ tagName[i] \in Finds[r.arg]
                              /\ tagName' = tagName
            /\ \A j \in TagId \ {i} : tagName'[j] = tagName[j]
            /\ disturbed' = [p \in Page |-> disturbed[p] \cup
                   IF r.seen = {} /\ (\/ \E j \in TagId : tagName[j] = r.arg
                                     \/ Misdirected(p, i))
                   THEN {r.arg} ELSE {}]
            /\ requests' = (requests \ {r}) \cup {new}
            /\ new.page = r.page /\ new.op = "assign" /\ new.arg = i
    BY TagFound
  <1>3. /\ q.at # "done"
        /\ \/ q.op = "create" /\ n \in {q.arg} \cup Finds[q.arg]
           \/ /\ q.op \in {"add", "remove", "assign"}
              /\ n \in TagText /\ IdOf(q.arg) \in TagId
              /\ tagName'[IdOf(q.arg)] = n
    BY SubjectThen
  <1>4. {r.arg} \cup Finds[r.arg] \subseteq SubjectsOf(r)
    BY <1>1, SubjectIs
  <1>5. CASE q = new
    <2>1. tagName'[i] = n
      BY <1>2, <1>3, <1>5, IdIsItself
    <2> QED
      BY <1>2, <1>4, <1>5, <2>1
  <1>6. CASE q # new /\ n \notin SubjectsOf(q)
    <2>1. /\ q \in requests /\ q.op \in {"add", "remove", "assign"}
          /\ n \in TagText /\ tagName[IdOf(q.arg)] # n
      BY <1>2, <1>3, <1>6, SubjectIs
    <2>2. IdOf(q.arg) = i /\ r.seen = {} /\ n = r.arg /\ ~Known(i)
      BY <1>2, <1>3, <2>1 DEF Known
    <2>3. q.at = "loaded" => q \in Handling
      BY <2>1 DEF Handling, InHandler
    <2>4. q.at = "sent" /\ q.op # "assign"
      <3>1. q.op = "assign" => q.at = "loaded"
        BY <1>3, <2>1 DEF RowsInv
      <3>2. q.op = "assign" => Known(q.arg)
        BY <2>3, <3>1 DEF RowsInv
      <3>3. q.op # "assign"
        BY <2>2, <3>2, IdIsItself DEF Known
      <3>4. q.at # "loaded"
        BY <2>1, <2>2, <2>3, <3>3 DEF RowsInv
      <3> QED
        BY <1>3, <2>1, <3>3, <3>4 DEF RowsInv
    <2>5. q.arg \in TagText
      <3>1. q \in Of(q.page) /\ q.page \in Page
        BY <2>1 DEF Of, TagTable, FlowInv
      <3>2. q.arg \in choices[q.page] \/ q.arg \in TagText
        BY <2>1, <2>4, <3>1 DEF PagesInv
      <3>3. q.arg \in choices[q.page] => Known(q.arg)
        BY <3>1 DEF PagesInv
      <3> QED
        BY <2>2, <3>2, <3>3, IdIsItself DEF Known
    <2>6. ASSUME NEW p \in Page, ~(q.page = p /\ q.arg \in made[p])
          PROVE  n \in disturbed'[p]
      <3>1. Misdirected(p, i)
        BY <2>1, <2>2, <2>4, <2>6 DEF Misdirected
      <3> QED
        BY <1>2, <2>2, <3>1
    <2> QED
      BY <1>2, <1>3, <1>4, <2>1, <2>2, <2>4, <2>5, <2>6
  <1> QED
    BY <1>2, <1>5, <1>6

\* A handler deals with what its request is about.
LEMMA HandledSubjects ==
    ASSUME NEW r, Due(r), NEW new, new.op = r.op, new.arg = r.arg
    PROVE  SubjectsOf(new) \subseteq SubjectsOf(r)
  BY SubjectIs DEF Due

\* Others know of each name a page deals with.
DealtInv ==
    \A r \in requests, p \in Page :
        p # r.page => SubjectsOf(r) \subseteq disturbed[p]

LEMMA DealtOfPages ==
    ASSUME TagTable, RowsInv, PagesInv, DealtInv, NEW p \in Page,
           openTags(p) \/ Chooses(p) \/ closeTags(p)
    PROVE  DealtInv'
  <1>1. tagName' = tagName
    BY TagOpened, TagChosen, TagClosed
  <1>2. SUFFICES ASSUME NEW r \in requests', NEW q \in Page, q # r.page
                 PROVE  SubjectsOf(r) \subseteq disturbed'[q]
    BY <1>1, SubjectsStay DEF DealtInv
  <1>3. CASE openTags(p)
    <2>1. r \in requests
      BY <1>3, TagOpened
    <2>2. disturbed' = [disturbed EXCEPT ![p] = Doubled \cup AllSubjects]
      BY <1>3 DEF openTags
    <2>3. SubjectsOf(r) \subseteq AllSubjects
      BY <2>1 DEF AllSubjects
    <2> HIDE DEF Doubled
    <2>4. AllSubjects \subseteq disturbed'[p] /\ (q # p => disturbed'[q] = disturbed[q])
      BY <2>2 DEF PagesInv
    <2> QED
      BY <1>2, <2>1, <2>3, <2>4 DEF DealtInv
  <1>4. CASE Chooses(p)
    <2>1. PICK a, b, names, again :
              /\ requests' = requests \cup {a, b}
              /\ \A x \in {a, b} : x.page = p /\ SubjectsOf(x) \subseteq names
              /\ names \subseteq TagText /\ again \subseteq names
              /\ Disturb(p, names, again)
      BY <1>4, TagChosen
    <2>2. /\ disturbed[q] \subseteq disturbed'[q]
          /\ q # p => names \subseteq disturbed'[q]
      BY <2>1, Noted
    <2> QED
      BY <1>2, <2>1, <2>2 DEF DealtInv
  <1>5. CASE closeTags(p)
    <2>1. disturbed' = disturbed
      BY <1>5, TagClosed
    <2>2. PICK a, b : /\ requests' = requests \cup {a, b}
                      /\ a.op = "get" /\ b.op = "get"
      BY <1>5, TagClosed
    <2>3. SubjectsOf(a) = {} /\ SubjectsOf(b) = {}
      BY <2>2, SubjectIs
    <2> QED
      BY <1>2, <2>1, <2>2, <2>3 DEF DealtInv
  <1> QED
    BY <1>3, <1>4, <1>5

LEMMA DealtOfRequests ==
    ASSUME TagTable, RowsInv, PagesInv, DealtInv, NEW r \in requests,
           Handles(r) \/ NameTag(r) \/ TagAnswered(r) \/ TagLost(r)
    PROVE  DealtInv'
  <1>1. CASE Handles(r)
    <2>1. UNCHANGED <<tagName, disturbed>> /\ Due(r)
      BY <1>1, TagHandled
    <2>2. PICK new : /\ requests' = (requests \ {r}) \cup {new}
                     /\ new.page = r.page /\ new.op = r.op /\ new.arg = r.arg
      BY <1>1, TagHandled
    <2>3. SubjectsOf(new) \subseteq SubjectsOf(r)
      BY <2>1, <2>2, HandledSubjects
    <2> QED
      BY <2>1, <2>2, <2>3, SubjectsStay DEF DealtInv
  <1>2. CASE NameTag(r)
    <2>1. \A p \in Page : disturbed[p] \subseteq disturbed'[p]
      BY <1>2, TagFound
    <2>2. ASSUME NEW q \in requests', NEW p \in Page, p # q.page,
                 NEW n \in SubjectsOf(q)'
          PROVE  n \in disturbed'[p]
      <3>1. CASE q \in requests /\ n \in SubjectsOf(q)
        BY <2>1, <2>2, <3>1 DEF DealtInv
      <3>2. CASE q.page = r.page /\ n \in SubjectsOf(r)
        BY <2>1, <2>2, <3>2 DEF DealtInv
      <3> QED
        BY <1>2, <2>2, <3>1, <3>2, NamedSubjects
    <2> QED
      BY <2>2 DEF DealtInv
  <1>3. CASE TagAnswered(r) \/ TagLost(r)
    <2>1. /\ UNCHANGED <<tagName, editing>>
          /\ Answered(r) \/ Lose(r)
      BY <1>3 DEF TagAnswered, TagLost, tagVars
    <2>2. requests' = requests \ {r}
      BY <2>1, TagGone
    <2>3. \A p \in Page : disturbed[p] \subseteq disturbed'[p]
      BY <1>3 DEF TagAnswered, TagLost, PagesInv
    <2> QED
      BY <2>1, <2>2, <2>3, SubjectsStay DEF DealtInv
  <1> QED
    BY <1>1, <1>2, <1>3

\* A handler changes rows only of the tags it deals with.
LEMMA OtherRowsStay ==
    ASSUME TagTable, RowsInv, NEW r \in requests, Handles(r), NEW i \in TagId,
           tagName[i] \in TagText, tagName[i] \notin SubjectsOf(r)
    PROVE  Rows(i)' = Rows(i)
  <1>1. PICK new : Handled(r, new)
    BY TagHandled
  <1>2. \A x : x \in Rows(i) <=> \E w \in assigned : w.tag = i /\ w.row = x
    BY DEF Rows
  <1>3. \A x : x \in Rows(i)' <=> \E w \in assigned' : w.tag = i /\ w.row = x
    BY DEF Rows
  <1>4. r.op \in {"add", "remove", "assign"} => IdOf(r.arg) # i
    BY TagHandled, SubjectIs DEF Due
  <1>5. CASE assigned' = assigned
    BY <1>2, <1>3, <1>5
  <1>6. CASE \E k : Inserts(r, k)
    <2>1. PICK k : Inserts(r, k)
      BY <1>6
    <2>2. assigned' = assigned \cup {[row |-> assignRow + 1, tag |-> k]}
      BY <2>1 DEF Inserts, Assign
    <2>3. r.op = "assign" => IdOf(r.arg) = r.arg
      BY <2>1, IdIsItself DEF Inserts, RowsInv, Known, Handling, InHandler
    <2>4. k # i
      BY <1>4, <2>1, <2>3 DEF Inserts
    <2>5. \A w : w \in assigned' /\ w.tag = i <=> w \in assigned /\ w.tag = i
      BY <2>2, <2>4
    <2> QED
      BY <1>2, <1>3, <2>5
  <1>7. CASE /\ r.at = "loaded" /\ r.op = "remove"
             /\ assigned' = {w \in assigned :
                               ~(w.row \in r.seen /\ w.row = Min(r.seen))}
    <2>1. r \in Handling
      BY <1>7 DEF Handling, InHandler
    <2>2. \A w \in assigned : w.tag = i => w.row \notin r.seen
      BY <1>4, <1>7, <2>1 DEF RowsInv
    <2> QED
      BY <1>2, <1>3, <1>7, <2>2
  <1> QED
    BY <1>1, <1>5, <1>6, <1>7 DEF Handled

LEMMA AssignedHasRow ==
    ASSUME NEW i
    PROVE  i \in AssignedTags <=> Rows(i) # {}
  BY DEF AssignedTags, Rows

\* These tags are what the container of p is to show.
AreShown(S, p) ==
    \A i \in TagId : tagName[i] \in TagText \ missed[p] =>
        (i \in S <=> i \in AssignedTags)

\* What has been fetched for a container, and what it shows when nothing is
\* being fetched, is what is assigned; and all that is dealt with meanwhile
\* is noted.
ContainerInv ==
    \A p \in Page :
        /\ \A r \in Of(p) : r.op = "get" /\ r.at = "done" => AreShown(r.seen, p)
        /\ p \notin editing /\ ~Getting(p) => AreShown(container[p], p)
        /\ p \notin editing \/ Getting(p) => AllSubjects \subseteq missed[p]

TagData == TagTable /\ RowsInv /\ PagesInv /\ DealtInv

\* No tag is assigned or named that the page would have to show.
LEMMA StillShown ==
    ASSUME NEW p, NEW S, AreShown(S, p), missed[p] \subseteq missed'[p],
           \A i \in TagId : tagName'[i] \in TagText \ missed'[p] =>
               tagName[i] = tagName'[i] /\ Rows(i)' = Rows(i)
    PROVE  AreShown(S, p)'
  <1>1. \A i : i \in AssignedTags <=> Rows(i) # {}
    BY AssignedHasRow
  <1>2. \A i : i \in AssignedTags' <=> Rows(i)' # {}
    BY DEF AssignedTags, Rows
  <1> QED
    BY <1>1, <1>2 DEF AreShown

LEMMA ContainerOfPages ==
    ASSUME TagData, ContainerInv, NEW p \in Page,
           openTags(p) \/ Chooses(p) \/ closeTags(p)
    PROVE  ContainerInv'
  <1> TagTable /\ RowsInv /\ PagesInv /\ DealtInv
    BY DEF TagData
  <1>1. tagName' = tagName /\ assigned' = assigned
    BY TagOpened, TagChosen, TagClosed
  <1>2. \A i : Rows(i)' = Rows(i)
    BY <1>1 DEF Rows
  <1>3. ASSUME NEW q \in Page, missed[q] \subseteq missed'[q], NEW S, AreShown(S, q)
        PROVE  AreShown(S, q)'
    BY <1>1, <1>2, <1>3, StillShown
  <1>4. CASE openTags(p)
    <2>1. /\ UNCHANGED <<requests, container, missed>>
          /\ editing \subseteq editing' /\ p \notin editing
          /\ editing' = editing \cup {p}
      BY <1>4, TagOpened
    <2>2. /\ \A q : Of(q)' = Of(q) /\ Getting(q)' = Getting(q)
          /\ AllSubjects' = AllSubjects
      BY <1>1, <2>1, SubjectsStay DEF Of, Getting, AllSubjects
    <2> QED
      BY <1>3, <2>1, <2>2 DEF ContainerInv
  <1>5. CASE Chooses(p)
    <2>1. p \in editing /\ UNCHANGED <<editing, container>>
      BY <1>5, TagChosen
    <2>2. PICK a, b, names, again :
              /\ requests' = requests \cup {a, b}
              /\ \A r \in {a, b} :
                     /\ r.page = p /\ r.at = "sent"
                     /\ r.op \in {"add", "remove", "create"}
                     /\ SubjectsOf(r) \subseteq names
              /\ names \subseteq TagText /\ again \subseteq names
              /\ Disturb(p, names, again)
      BY <1>5, TagChosen
    <2>3. /\ \A q \in Page : missed[q] \subseteq missed'[q]
          /\ \A q \in Page : q # p \/ Getting(p) => names \subseteq missed'[q]
      BY <2>2, Noted
    <2>4. \A q : Getting(q)' = Getting(q)
      BY <2>2 DEF Getting, Of
    <2>5. \A q : \A r \in Of(q)' : r.op = "get" => r \in Of(q)
      BY <2>2 DEF Of
    <2>6. AllSubjects' \subseteq AllSubjects \cup names
      BY <1>1, <2>2, SubjectsStay DEF AllSubjects
    <2> QED
      BY <1>3, <2>1, <2>3, <2>4, <2>5, <2>6 DEF ContainerInv
  <1>6. CASE closeTags(p)
    <2>1. p \in editing /\ editing' = editing \ {p}
      BY <1>6, TagClosed
    <2>2. PICK a, b : /\ requests' = requests \cup {a, b}
                      /\ a.page = p /\ a.op = "get" /\ a.at = "sent"
                      /\ b.page = p /\ b.op = "get" /\ b.at = "sent"
      BY <1>6, TagClosed
    <2>3. /\ \A q \in Page \ {p} :
                 container'[q] = container[q] /\ missed'[q] = missed[q]
          /\ AllSubjects \subseteq missed'[p]
          /\ Getting(p) => missed[p] \subseteq missed'[p]
      BY <1>6 DEF closeTags, PagesInv
    <2>4. /\ \A q \in Page \ {p} : Of(q)' = Of(q) /\ Getting(q)' = Getting(q)
          /\ Getting(p)'
          /\ \A r \in Of(p)' : r.at = "done" => r \in Of(p)
      BY <2>2 DEF Of, Getting
    <2>5. AllSubjects' = AllSubjects
      <3>1. SubjectsOf(a) = {} /\ SubjectsOf(b) = {}
        BY <2>2, SubjectIs
      <3> QED
        BY <1>1, <2>2, <3>1, SubjectsStay DEF AllSubjects
    <2>6. ASSUME NEW q \in Page, q # p
          PROVE  /\ \A r \in Of(q)' : r.op = "get" /\ r.at = "done" =>
                        AreShown(r.seen, q)'
                 /\ q \notin editing' /\ ~Getting(q)' => AreShown(container[q], q)'
                 /\ q \notin editing' \/ Getting(q)' =>
                        AllSubjects' \subseteq missed'[q]
      BY <1>3, <2>1, <2>3, <2>4, <2>5, <2>6 DEF ContainerInv
    <2>7. \A r \in Of(p)' : r.op = "get" /\ r.at = "done" => AreShown(r.seen, p)'
      <3>1. \A r \in Of(p) : r.op = "get" => Getting(p)
        BY DEF Getting
      <3> QED
        BY <1>3, <2>3, <2>4, <3>1 DEF ContainerInv
    <2> QED
      BY <2>3, <2>4, <2>5, <2>6, <2>7 DEF ContainerInv
  <1> QED
    BY <1>4, <1>5, <1>6

LEMMA ContainerOfRequests ==
    ASSUME TagData, ContainerInv, NEW r \in requests,
           Handles(r) \/ NameTag(r) \/ TagAnswered(r) \/ TagLost(r)
    PROVE  ContainerInv'
  <1> TagTable /\ RowsInv /\ PagesInv /\ DealtInv
    BY DEF TagData
  <1>0. r.page \in Page /\ r \in Of(r.page)
    BY DEF TagTable, FlowInv, Of
  <1>1. CASE Handles(r)
    <2>1. UNCHANGED <<tagName, editing, container, missed>> /\ Due(r)
      BY <1>1, TagHandled
    <2>2. PICK new : /\ requests' = (requests \ {r}) \cup {new}
                     /\ new.page = r.page /\ new.op = r.op /\ new.arg = r.arg
                     /\ Handled(r, new)
      BY <1>1, TagHandled
    <2>3. AllSubjects' \subseteq AllSubjects
      <3>1. SubjectsOf(new) \subseteq SubjectsOf(r)
        BY <2>1, <2>2, HandledSubjects
      <3> QED
        BY <2>1, <2>2, <3>1, SubjectsStay DEF AllSubjects
    <2>4. \A p : Getting(p)' = Getting(p)
      BY <2>2 DEF Getting, Of
    <2>5. ASSUME NEW p \in Page, AllSubjects \subseteq missed[p],
                 NEW S, AreShown(S, p)
          PROVE  AreShown(S, p)'
      <3>1. SubjectsOf(r) \subseteq missed[p]
        BY <2>5 DEF AllSubjects
      <3>2. \A i \in TagId : tagName[i] \in TagText \ missed[p] =>
                Rows(i)' = Rows(i)
        BY <1>1, <3>1, OtherRowsStay
      <3> QED
        BY <2>1, <2>5, <3>2, StillShown
    <2>6. ASSUME NEW p \in Page, NEW q \in Of(p)', q.op = "get", q.at = "done"
          PROVE  AreShown(q.seen, p)'
      <3>1. CASE q \in requests
        <4>1. q \in Of(p) /\ Getting(p)
          BY <2>6, <3>1 DEF Of, Getting
        <4> QED
          BY <2>5, <2>6, <4>1 DEF ContainerInv
      <3>2. CASE q = new
        <4>1. r.op = "get" /\ r.at = "sent"
          BY <2>1, <2>2, <2>6, <3>2 DEF Due, RowsInv, Handling, InHandler
        <4>2. new.seen = AssignedTags /\ assigned' = assigned
          BY <2>2, <4>1 DEF Handled, Inserts
        <4> QED
          BY <3>2, <4>2 DEF AreShown, AssignedTags
      <3> QED
        BY <2>2, <2>6, <3>1, <3>2 DEF Of
    <2> QED
      BY <2>1, <2>3, <2>4, <2>5, <2>6 DEF ContainerInv
  <1>2. CASE NameTag(r)
    <2>1. /\ UNCHANGED <<assigned, editing, container, missed>>
          /\ r.op = "create" /\ r.at = "loaded"
      BY <1>2, TagFound
    <2>2. PICK k, new :
              /\ k \in TagId
              /\ r.seen = {} => tagName[k] = Unnamed /\ tagName'[k] = r.arg
              /\ r.seen # {} => tagName' = tagName
              /\ \A j \in TagId \ {k} : tagName'[j] = tagName[j]
              /\ requests' = (requests \ {r}) \cup {new} /\ new.op = "assign"
      BY <1>2, TagFound
    <2>3. SubjectsOf(r) \subseteq AllSubjects /\ r.arg \in SubjectsOf(r)
      BY <2>1, SubjectIs DEF AllSubjects
    <2>4. AllSubjects' \subseteq AllSubjects
      <3>1. ASSUME NEW q \in requests', NEW n \in SubjectsOf(q)'
            PROVE  n \in AllSubjects
        <4>1. n \in SubjectsOf(r) \/ (q \in requests /\ n \in SubjectsOf(q))
          BY <1>2, <3>1, NamedSubjects
        <4> QED
          BY <2>3, <4>1 DEF AllSubjects
      <3> QED
        BY <3>1 DEF AllSubjects
    <2>5. /\ \A q : q.op = "get" => (q \in requests' <=> q \in requests)
          /\ \A i : Rows(i)' = Rows(i)
      BY <2>1, <2>2 DEF Rows
    <2>6. \A p : Getting(p)' = Getting(p)
      BY <2>5 DEF Getting, Of
    <2>7. ASSUME NEW p \in Page, AllSubjects \subseteq missed[p],
                 NEW S, AreShown(S, p)
          PROVE  AreShown(S, p)'
      <3>1. \A i \in TagId : tagName'[i] \in TagText \ missed'[p] =>
                tagName[i] = tagName'[i] /\ Rows(i)' = Rows(i)
        BY <2>1, <2>2, <2>3, <2>5, <2>7
      <3> QED
        BY <2>1, <2>7, <3>1, StillShown
    <2>8. ASSUME NEW p \in Page, NEW q \in Of(p)', q.op = "get", q.at = "done"
          PROVE  AreShown(q.seen, p)'
      <3>1. q \in Of(p) /\ Getting(p)
        BY <2>5, <2>8 DEF Of, Getting
      <3> QED
        BY <2>7, <2>8, <3>1 DEF ContainerInv
    <2> QED
      BY <2>1, <2>4, <2>6, <2>7, <2>8 DEF ContainerInv
  <1>3. CASE TagAnswered(r) \/ TagLost(r)
    <2>1. /\ UNCHANGED <<tagName, assigned, editing>>
          /\ Answered(r) \/ Lose(r)
      BY <1>3 DEF TagAnswered, TagLost, tagVars
    <2>2. requests' = requests \ {r}
      BY <2>1, TagGone
    <2>3. \A q : Of(q)' \subseteq Of(q) /\ (Getting(q)' => Getting(q))
      BY <2>2 DEF Of, Getting
    <2>4. \A q : q # r.page \/ r.op # "get" => Getting(q)' = Getting(q)
      BY <2>2 DEF Of, Getting
    <2>5. AllSubjects' \subseteq AllSubjects
      BY <2>1, <2>2, SubjectsStay DEF AllSubjects
    <2>6. \A q \in Page : missed[q] \subseteq missed'[q]
      BY <1>3 DEF TagAnswered, TagLost, PagesInv
    <2>7. ASSUME NEW q \in Page, NEW S, AreShown(S, q)
          PROVE  AreShown(S, q)'
      <3>1. \A i : Rows(i)' = Rows(i)
        BY <2>1 DEF Rows
      <3> QED
        BY <2>1, <2>6, <2>7, <3>1, StillShown
    <2>8. ASSUME NEW q \in Page, q \notin editing, ~Getting(q)'
          PROVE  AreShown(container[q], q)'
      <3>1. CASE q # r.page \/ r.op # "get"
        <4>1. container'[q] = container[q]
          BY <1>3, <2>8, <3>1 DEF TagAnswered, TagLost, ShowTags, PagesInv
        <4>2. AreShown(container[q], q)
          BY <2>4, <2>8, <3>1 DEF ContainerInv
        <4> QED
          BY <2>7, <4>1, <4>2
      <3>2. CASE q = r.page /\ r.op = "get" /\ TagAnswered(r)
        <4>1. container'[q] = r.seen /\ r.at = "done"
          BY <3>2 DEF TagAnswered, ShowTags, PagesInv
        <4>2. AreShown(r.seen, q)
          BY <1>0, <3>2, <4>1 DEF ContainerInv
        <4> QED
          BY <2>7, <4>1, <4>2
      <3>3. CASE q = r.page /\ r.op = "get" /\ TagLost(r)
        <4>1. TagText \subseteq missed'[q]
          BY <3>3 DEF TagLost, PagesInv
        <4> QED
          BY <4>1 DEF AreShown
      <3> QED
        BY <1>3, <3>1, <3>2, <3>3
    <2> QED
      BY <2>1, <2>3, <2>5, <2>6, <2>7, <2>8 DEF ContainerInv
  <1> QED
    BY <1>1, <1>2, <1>3

\* Names the modal of p is not asked about.
Strange(p) == disturbed[p] \cup Misread(p)

\* What an open modal has under way about other names came from its list: an
\* option that was loaded, or one made in it.
SentInv ==
    \A p \in editing : \A r \in Of(p) : \A n \in SubjectsOf(r) \ Strange(p) :
        /\ r.op \in {"add", "remove"} => r.arg \in choices[p]
        /\ r.op \notin {"add", "remove"} => n \in made[p]
        /\ r.op = "create" => r.arg = n

\* What a page has under way about a name.
Mine(p, n) == {r \in Of(p) : Due(r) /\ n \in SubjectsOf(r)}

\* A change of the tag i that is under way, and what it has found.
Changes(p, i, r) ==
    \/ /\ r.op = "add" /\ i \in items[p] /\ Rows(i) = {}
       /\ r.at = "loaded" => r.seen = {}
    \/ /\ r.op = "remove" /\ i \notin items[p]
       /\ \E x : Rows(i) = {x} /\ (r.at = "loaded" => r.seen = {x})

\* A tag that the list of the modal has had from the first.
ListedInv(p, n) ==
    \A i \in TagId : tagName[i] = n =>
        /\ \A j \in TagId : tagName[j] = n => j = i
        /\ \A x, y \in Rows(i) : x = y
        /\ \A r, q \in Mine(p, n) : r = q
        /\ Mine(p, n) = {} => (i \in items[p] <=> Rows(i) # {})
        /\ \A r \in Mine(p, n) : Changes(p, i, r)

\* A tag made in the modal, which is there or about to be.
Making(p, n) ==
    \E r \in Mine(p, n) :
        \/ /\ r.op = "create" /\ \A i \in TagId : tagName[i] # n
           /\ r.at = "loaded" => r.seen = {}
           /\ \A q \in Mine(p, n) : q.op = "create" => q = r
        \/ r.op = "assign" /\ r.at = "loaded" /\ r.seen = {}

IsAssigned(n) == \E i \in TagId : tagName[i] = n /\ Rows(i) # {}

MadeInv(p, n) ==
    /\ \A i \in choices[p] : tagName[i] # n
    /\ IsAssigned(n) \/ Making(p, n)

PartInv(p, n) == IF n \in made[p] THEN MadeInv(p, n) ELSE ListedInv(p, n)

ModalInv == \A p \in editing : \A n \in TagText \ Strange(p) : PartInv(p, n)

LEMMA AssignedIs ==
    ASSUME TagTable, RowsInv, NEW n
    PROVE  n \in AssignedNames <=> IsAssigned(n)
  BY DEF AssignedNames, AssignedTags, IsAssigned, Rows, RowsInv

LEMMA MisreadIs ==
    ASSUME NEW p, NEW n
    PROVE  n \in Misread(p) <=>
               \E t \in made[p] :
                   \/ /\ n \in TagText /\ IdOf(t) \in TagId
                      /\ tagName[IdOf(t)] = n
                   \/ Finds[t] # {t} /\ n \in {t} \cup Finds[t]
  BY DEF Misread, NamesOf

LEMMA MisreadThen ==
    ASSUME NEW p, NEW n
    PROVE  n \in Misread(p)' <=>
               \E t \in made'[p] :
                   \/ /\ n \in TagText /\ IdOf(t) \in TagId
                      /\ tagName'[IdOf(t)] = n
                   \/ Finds[t] # {t} /\ n \in {t} \cup Finds[t]
  BY DEF Misread, NamesOf, IdOf

\* While a modal is open the names it is not asked about grow in number.
LEMMA StrangeGrows ==
    ASSUME NEW p, made[p] \subseteq made'[p], disturbed[p] \subseteq disturbed'[p],
           \A j \in TagId : tagName[j] \in TagText => tagName'[j] = tagName[j]
    PROVE  Strange(p) \subseteq Strange(p)'
  <1>1. \A n : n \in Misread(p) => n \in Misread(p)'
    BY MisreadIs, MisreadThen
  <1> QED
    BY <1>1 DEF Strange

LEMMA MineIs ==
    ASSUME NEW p, NEW n, NEW r
    PROVE  r \in Mine(p, n) <=>
               /\ r \in requests /\ r.page = p /\ Due(r)
               /\ \/ r.op = "create" /\ n \in {r.arg} \cup Finds[r.arg]
                  \/ /\ r.op \in {"add", "remove", "assign"}
                     /\ n \in TagText /\ IdOf(r.arg) \in TagId
                     /\ tagName[IdOf(r.arg)] = n
  BY SubjectIs DEF Mine, Of, Due

LEMMA MineThen ==
    ASSUME NEW p, NEW n, NEW r
    PROVE  r \in Mine(p, n)' <=>
               /\ r \in requests' /\ r.page = p /\ Due(r)
               /\ \/ r.op = "create" /\ n \in {r.arg} \cup Finds[r.arg]
                  \/ /\ r.op \in {"add", "remove", "assign"}
                     /\ n \in TagText /\ IdOf(r.arg) \in TagId
                     /\ tagName'[IdOf(r.arg)] = n
  <1>1. r \in Mine(p, n)' <=>
            r \in requests' /\ r.page = p /\ Due(r) /\ n \in SubjectsOf(r)'
    BY DEF Mine, Of, Due
  <1> QED
    BY <1>1, SubjectThen DEF Due

\* What the user sends comes from the list.
LEMMA SentFromList ==
    ASSUME TagTable, PagesInv, NEW p \in Page, Chooses(p)
    PROVE  /\ tagName' = tagName /\ p \in editing
           /\ UNCHANGED <<choices, editing>>
           /\ \A q \in Page : /\ disturbed[q] \subseteq disturbed'[q]
                             /\ made[q] \subseteq made'[q]
           /\ \A r \in requests' :
                  \/ r \in requests
                  \/ /\ r.page = p /\ r.op \in {"add", "remove", "create"}
                     /\ r.arg \in choices[p] \cup made'[p]
                     /\ r.op = "create" => r.arg \in made'[p]
  <1>1. tagName' = tagName /\ p \in editing /\ UNCHANGED <<choices, editing>>
    BY TagChosen
  <1>2. \A q \in Page : disturbed[q] \subseteq disturbed'[q]
    <2>1. PICK names, again : /\ names \subseteq TagText /\ again \subseteq names
                              /\ Disturb(p, names, again)
      BY TagChosen
    <2> QED
      BY <2>1, Noted
  <1>3. items[p] \subseteq choices[p] \cup made[p]
    BY DEF PagesInv
  <1>4. ASSUME NEW op, op \in {"add", "remove"}, NEW v, Send(p, op, v)
        PROVE  \E new : /\ requests' = requests \cup {new}
                        /\ new.page = p /\ new.op = op /\ new.arg = v
    <2>1. op # "create" /\ editing' \subseteq editing /\ tagName' = tagName
      BY <1>1, <1>4
    <2>2. PICK new : /\ requests' = requests \cup {new}
                     /\ new.page = p /\ new.op = op /\ new.arg = v
                     /\ new.at = "sent" /\ new.seen = {}
      BY <1>4, <2>1, TagSent, SMTT(60)
    <2> QED
      BY <2>2
  <1>5. CASE onItemAdd(p) \/ onItemRemove(p)
    <2>1. made' = made
      BY <1>5 DEF onItemAdd, onItemRemove
    <2>2. \E op \in {"add", "remove"}, v \in choices[p] \cup made[p] :
              Send(p, op, v)
      BY <1>3, <1>5 DEF onItemAdd, onItemRemove
    <2> QED
      BY <1>1, <1>2, <1>4, <2>1, <2>2
  <1>6. CASE onItemCreate(p)
    <2>1. PICK t \in TagText :
              /\ SendBoth(p, "create", t, "add", t)
              /\ made' = [made EXCEPT ![p] = made[p] \cup {t}]
      BY <1>6 DEF onItemCreate
    <2>2. \A q \in Page : made[q] \subseteq made'[q]
      BY <2>1 DEF PagesInv
    <2>3. t \in made'[p]
      BY <2>1 DEF PagesInv
    <2>4. PICK x, y : /\ requests' = requests \cup {x, y}
                      /\ x.page = p /\ x.op = "create" /\ x.arg = t
                      /\ y.page = p /\ y.op = "add" /\ y.arg = t
      <3>1. "add" # "create" /\ editing' \subseteq editing
        BY <1>1
      <3> QED
        BY <1>1, <2>1, <3>1, TagPair
    <2> QED
      BY <1>1, <1>2, <2>2, <2>3, <2>4
  <1> QED
    BY <1>5, <1>6 DEF Chooses

LEMMA SentOfPages ==
    ASSUME TagData, SentInv, NEW p \in Page,
           openTags(p) \/ Chooses(p) \/ closeTags(p)
    PROVE  SentInv'
  <1> TagTable /\ RowsInv /\ PagesInv /\ DealtInv
    BY DEF TagData
  <1>1. tagName' = tagName
    BY TagOpened, TagChosen, TagClosed
  <1>2. \A r : SubjectsOf(r)' = SubjectsOf(r)
    BY <1>1, SubjectsStay
  <1>3. CASE openTags(p)
    <2>1. requests' = requests /\ editing' = editing \cup {p}
      BY <1>3, TagOpened
    <2>2. /\ AllSubjects \subseteq disturbed'[p]
          /\ \A q \in Page \ {p} : /\ disturbed'[q] = disturbed[q]
                                  /\ made'[q] = made[q] /\ choices'[q] = choices[q]
      <3>1. /\ choices' = [choices EXCEPT ![p] = {i \in TagId : tagName[i] # Unnamed}]
            /\ made' = [made EXCEPT ![p] = {}]
            /\ disturbed' = [disturbed EXCEPT ![p] = Doubled \cup AllSubjects]
        BY <1>3 DEF openTags
      <3> HIDE DEF Doubled
      <3> QED
        BY <3>1 DEF PagesInv
    <2>3. \A r \in requests : SubjectsOf(r) \subseteq Strange(p)'
      BY <2>2 DEF AllSubjects, Strange
    <2>4. \A q \in Page \ {p} : Strange(q) \subseteq Strange(q)'
      BY <1>1, <2>2, StrangeGrows
    <2>5. ASSUME NEW q \in editing', NEW r \in Of(q)',
                 NEW n \in SubjectsOf(r), n \notin Strange(q)'
          PROVE  /\ q \in Page \ {p} /\ q \in editing /\ r \in Of(q)
                 /\ n \notin Strange(q)
      <3>1. r \in requests /\ r \in Of(q) /\ q \in Page
        BY <2>1, <2>5 DEF Of, TagTable, FlowInv
      <3> QED
        BY <2>1, <2>3, <2>4, <2>5, <3>1
    <2> QED
      BY <1>2, <2>2, <2>5 DEF SentInv
  <1>4. CASE Chooses(p)
    <2>1. /\ p \in editing /\ UNCHANGED <<choices, editing>>
          /\ \A q \in Page : /\ disturbed[q] \subseteq disturbed'[q]
                            /\ made[q] \subseteq made'[q]
      BY <1>4, SentFromList
    <2>2. ASSUME NEW q \in editing, NEW r \in Of(q)',
                 NEW n \in SubjectsOf(r), n \notin Strange(q)'
          PROVE  /\ r.op \in {"add", "remove"} => r.arg \in choices[q]
                 /\ r.op \notin {"add", "remove"} => n \in made'[q]
                 /\ r.op = "create" => r.arg = n
      <3>1. q \in Page /\ r \in requests' /\ r.page = q
        BY <2>2 DEF TagTable, FlowInv, Of
      <3>2. CASE r \in requests
        <4>1. r \in Of(q) /\ n \notin Strange(q)
          BY <1>1, <2>1, <2>2, <3>1, <3>2, StrangeGrows DEF Of
        <4> QED
          BY <2>1, <2>2, <3>1, <4>1 DEF SentInv
      <3>3. CASE r \notin requests
        <4>1. /\ q = p /\ r.op \in {"add", "remove", "create"}
              /\ r.arg \in choices[p] \cup made'[p]
              /\ r.op = "create" => r.arg \in made'[p]
          BY <1>4, <3>1, <3>3, SentFromList
        <4>2. n \notin Misread(p)'
          BY <2>2, <4>1 DEF Strange
        <4>3. CASE r.op = "create"
          <5>1. n \in {r.arg} \cup Finds[r.arg] /\ r.arg \in made'[p]
            BY <2>2, <4>1, <4>3, SubjectIs
          <5>2. n = r.arg
            BY <4>2, <5>1, MisreadThen
          <5> QED
            BY <4>1, <4>3, <5>1, <5>2
        <4>4. CASE r.op \in {"add", "remove"}
          <5>1. n \in TagText /\ IdOf(r.arg) \in TagId /\ tagName'[IdOf(r.arg)] = n
            BY <1>1, <2>2, <4>4, SubjectIs
          <5>2. r.arg \notin made'[p]
            BY <4>2, <5>1, MisreadThen
          <5> QED
            BY <4>1, <4>4, <5>2
        <4> QED
          BY <4>1, <4>3, <4>4
      <3> QED
        BY <3>2, <3>3
    <2> QED
      BY <1>2, <2>1, <2>2 DEF SentInv
  <1>5. CASE closeTags(p)
    <2>1. UNCHANGED <<choices, made, disturbed>> /\ editing' = editing \ {p}
      BY <1>5, TagClosed
    <2>2. PICK x, y : /\ requests' = requests \cup {x, y}
                      /\ x.page = p /\ y.page = p
      BY <1>5, TagClosed
    <2>3. \A q : Strange(q)' = Strange(q)
      BY <1>1, <2>1 DEF Strange, Misread, NamesOf, IdOf
    <2>4. \A q \in editing' : q \in editing /\ Of(q)' = Of(q)
      BY <2>1, <2>2 DEF Of
    <2> QED
      BY <1>2, <2>1, <2>3, <2>4 DEF SentInv
  <1> QED
    BY <1>3, <1>4, <1>5

LEMMA SentOfRequests ==
    ASSUME TagData, SentInv, NEW r \in requests,
           Handles(r) \/ NameTag(r) \/ TagAnswered(r) \/ TagLost(r)
    PROVE  SentInv'
  <1> TagTable /\ RowsInv /\ PagesInv /\ DealtInv
    BY DEF TagData
  <1>0. editing \subseteq Page
    BY DEF TagTable, FlowInv
  <1>1. CASE Handles(r)
    <2>1. UNCHANGED <<tagName, choices, made, editing, disturbed>> /\ Due(r)
      BY <1>1, TagHandled
    <2>2. PICK new : /\ requests' = (requests \ {r}) \cup {new}
                     /\ new.page = r.page /\ new.op = r.op /\ new.arg = r.arg
      BY <1>1, TagHandled
    <2>3. SubjectsOf(new) \subseteq SubjectsOf(r)
      BY <2>1, <2>2, HandledSubjects
    <2>4. \A q : Strange(q)' = Strange(q) /\ SubjectsOf(q)' = SubjectsOf(q)
      BY <2>1, SubjectsStay DEF Strange, Misread, NamesOf, IdOf
    <2>5. \A p : \A q \in Of(p)' : q \in Of(p) \/ (q = new /\ r \in Of(p))
      BY <2>2 DEF Of
    <2> QED
      BY <2>1, <2>2, <2>3, <2>4, <2>5 DEF SentInv
  <1>2. CASE NameTag(r)
    <2>1. /\ UNCHANGED <<choices, made, editing>> /\ r.op = "create"
          /\ \A p \in Page : disturbed[p] \subseteq disturbed'[p]
      BY <1>2, TagFound
    <2>2. \A j \in TagId : tagName[j] \in TagText => tagName'[j] = tagName[j]
      BY <1>2, UnnamedIsNoName, TagFound
    <2>3. ASSUME NEW p \in editing, NEW q \in requests', q.page = p,
                 NEW n \in SubjectsOf(q)', n \notin Strange(p)'
          PROVE  /\ q.op \in {"add", "remove"} => q.arg \in choices[p]
                 /\ q.op \notin {"add", "remove"} => n \in made[p]
                 /\ q.op = "create" => q.arg = n
      <3>1. p \in Page /\ n \notin Strange(p)
        BY <1>0, <2>1, <2>2, <2>3, StrangeGrows
      <3>2. CASE q \in requests /\ n \in SubjectsOf(q)
        BY <2>3, <3>1, <3>2 DEF SentInv, Of
      <3>3. CASE q.page = r.page /\ q.op = "assign" /\ n \in SubjectsOf(r)
        BY <2>1, <2>3, <3>1, <3>3 DEF SentInv, Of
      <3>4. CASE /\ q.arg \in TagText /\ IdOf(q.arg) \in TagId
                 /\ tagName'[IdOf(q.arg)] = n /\ n \in SubjectsOf(r)
                 /\ q.arg \in made[p] \/ n \in disturbed'[p]
        <4>1. n \in TagText
          BY <3>4, SubjectsAreNames DEF AllSubjects
        <4> QED
          BY <2>1, <2>3, <3>4, <4>1, MisreadThen DEF Strange
      <3> QED
        BY <1>2, <2>3, <3>1, <3>2, <3>3, <3>4, NamedSubjects
    <2> QED
      BY <2>1, <2>3 DEF SentInv, Of
  <1>3. CASE TagAnswered(r) \/ TagLost(r)
    <2>1. /\ UNCHANGED <<tagName, choices, made, editing>>
          /\ Answered(r) \/ Lose(r)
      BY <1>3 DEF TagAnswered, TagLost, tagVars
    <2>2. requests' = requests \ {r}
      BY <2>1, TagGone
    <2>3. \A p \in Page : disturbed[p] \subseteq disturbed'[p]
      BY <1>3 DEF TagAnswered, TagLost, PagesInv
    <2>4. \A p \in editing : Strange(p) \subseteq Strange(p)'
      BY <1>0, <2>1, <2>3, StrangeGrows
    <2>5. \A p : Of(p)' \subseteq Of(p)
      BY <2>2 DEF Of
    <2>6. \A q : SubjectsOf(q)' = SubjectsOf(q)
      BY <2>1, SubjectsStay
    <2> QED
      BY <2>1, <2>4, <2>5, <2>6 DEF SentInv
  <1> QED
    BY <1>1, <1>2, <1>3

\* Nothing changes for the page and the name.
LEMMA PartStays ==
    ASSUME NEW p \in Page, NEW n \in TagText, PartInv(p, n),
           choices[p] \subseteq TagId, choices'[p] = choices[p],
           n \in made'[p] <=> n \in made[p],
           \A i \in TagId : tagName'[i] = n <=> tagName[i] = n,
           \A i \in TagId : tagName[i] = n =>
               /\ Rows(i)' = Rows(i)
               /\ i \in items'[p] <=> i \in items[p],
           \A r : r \in Mine(p, n)' <=> r \in Mine(p, n)
    PROVE  PartInv(p, n)'
  <1>1. Mine(p, n)' = Mine(p, n)
    OBVIOUS
  <1>2. CASE n \in made[p]
    <2>1. MadeInv(p, n)
      BY <1>2 DEF PartInv
    <2>2. \A i \in choices'[p] : tagName'[i] # n
      BY <2>1 DEF MadeInv
    <2>3. IsAssigned(n) => IsAssigned(n)'
      BY DEF IsAssigned
    <2>4. Making(p, n) => Making(p, n)'
      BY <1>1 DEF Making
    <2> QED
      BY <1>2, <2>1, <2>2, <2>3, <2>4 DEF PartInv, MadeInv
  <1>3. CASE n \notin made[p]
    <2>1. ListedInv(p, n)
      BY <1>3 DEF PartInv
    <2>2. ASSUME NEW i \in TagId, tagName'[i] = n
          PROVE  /\ \A j \in TagId : tagName'[j] = n => j = i
                 /\ \A x, y \in Rows(i)' : x = y
                 /\ \A r, q \in Mine(p, n)' : r = q
                 /\ Mine(p, n)' = {} => (i \in items'[p] <=> Rows(i)' # {})
                 /\ \A r \in Mine(p, n)' : Changes(p, i, r)'
      <3>1. tagName[i] = n /\ Rows(i)' = Rows(i) /\ (i \in items'[p] <=> i \in items[p])
        BY <2>2
      <3>2. \A r : Changes(p, i, r)' <=> Changes(p, i, r)
        BY <3>1 DEF Changes
      <3> QED
        BY <1>1, <2>1, <3>1, <3>2 DEF ListedInv
    <2> QED
      BY <1>3, <2>2 DEF PartInv, ListedInv
  <1> QED
    BY <1>2, <1>3

\* A modal that is opened has what is stored, but for what is under way.
LEMMA PartOpened ==
    ASSUME TagData, NEW p \in Page, openTags(p), NEW n \in TagText,
           n \notin disturbed'[p]
    PROVE  PartInv(p, n)'
  <1> TagTable /\ RowsInv /\ PagesInv /\ DealtInv
    BY DEF TagData
  <1>1. UNCHANGED <<requests, tagName, assigned>>
    BY TagOpened
  <1>2. /\ items'[p] = AssignedTags /\ made'[p] = {}
        /\ disturbed'[p] = Doubled \cup AllSubjects
    BY DEF openTags, PagesInv
  <1>3. Mine(p, n)' = {}
    <2>1. ASSUME NEW r \in Mine(p, n)' PROVE FALSE
      <3>1. r \in Mine(p, n)
        BY <1>1, <2>1, MineThen, MineIs
      <3>2. n \in AllSubjects
        BY <3>1 DEF Mine, Of, AllSubjects
      <3> QED
        BY <1>2, <3>2
    <2> QED
      BY <2>1
  <1>4. ASSUME NEW i \in TagId, tagName[i] = n
        PROVE  /\ \A j \in TagId : tagName[j] = n => j = i
               /\ \A x, y \in Rows(i) : x = y
    <2>1. ~(\/ Cardinality(Rows(i)) > 1
            \/ \E k \in TagId \ {i} : tagName[k] = tagName[i])
      BY <1>2, <1>4 DEF Doubled
    <2>2. IsFiniteSet(Rows(i))
      <3>1. \A x \in Rows(i) : x \in 1 .. assignRow
        BY DEF Rows, RowsInv
      <3>2. IsFiniteSet(1 .. assignRow)
        BY FS_Interval DEF RowsInv
      <3> QED
        BY <3>1, <3>2, FS_Subset
    <2>3. ASSUME NEW x \in Rows(i), NEW y \in Rows(i), x # y PROVE FALSE
      <3>1. {x, y} \subseteq Rows(i)
        BY <2>3
      <3>2. Cardinality({x, y}) = 2
        <4>1. IsFiniteSet({x}) /\ Cardinality({x}) = 1
          BY FS_Singleton
        <4>2. y \notin {x}
          BY <2>3
        <4>3. Cardinality({x} \cup {y}) = Cardinality({x}) + 1
          BY <4>1, <4>2, FS_AddElement
        <4>4. {x, y} = {x} \cup {y}
          OBVIOUS
        <4> QED
          BY <4>1, <4>3, <4>4
      <3>3. Cardinality({x, y}) <= Cardinality(Rows(i))
        BY <2>2, <3>1, FS_Subset
      <3>4. Cardinality(Rows(i)) \in Nat
        BY <2>2, FS_CardinalityType
      <3> QED
        BY <2>1, <3>2, <3>3, <3>4
    <2> QED
      BY <1>4, <2>1, <2>3
  <1>5. \A i : Rows(i)' = Rows(i)
    BY <1>1 DEF Rows
  <1>6. \A i : i \in items'[p] <=> Rows(i) # {}
    BY <1>2, AssignedHasRow
  <1>7. ListedInv(p, n)'
    BY <1>1, <1>3, <1>4, <1>5, <1>6 DEF ListedInv
  <1> QED
    BY <1>2, <1>7 DEF PartInv

\* The user adds or removes the value v.
LEMMA PartSent ==
    ASSUME TagData, NEW p \in Page, NEW n \in TagText, PartInv(p, n),
           NEW v \in choices[p] \cup made[p], NEW op \in {"add", "remove"},
           Send(p, op, v), UNCHANGED <<tagName, assigned, choices, made, editing>>,
           items'[p] = IF op = "add" THEN items[p] \cup {v} ELSE items[p] \ {v},
           v \in items[p] <=> op = "remove",
           DisturbTwice(p, Subjects(op, v)),
           n \notin disturbed'[p], n \notin Misread(p)
    PROVE  PartInv(p, n)'
  <1> TagTable /\ RowsInv /\ PagesInv /\ DealtInv
    BY DEF TagData
  <1>1. PICK new : /\ requests' = requests \cup {new}
                   /\ new.page = p /\ new.op = op /\ new.arg = v
                   /\ new.at = "sent"
    <2>1. op # "create" /\ tagName' = tagName /\ editing' \subseteq editing
      OBVIOUS
    <2> QED
      BY <2>1, TagSent
  <1>2. \A i : Rows(i)' = Rows(i)
    BY DEF Rows
  <1>3. choices[p] \subseteq TagId /\ made[p] \subseteq TagText
    BY DEF PagesInv
  <1>4. Subjects(op, v) = NamesOf(v) /\ NamesOf(v) \in SUBSET TagText
    BY DEF Subjects, NamesOf
  <1>5. \A r \in Mine(p, n)' : r = new \/ r \in Mine(p, n)
    BY <1>1, MineThen, MineIs
  <1>6. \A r \in Mine(p, n) : r \in Mine(p, n)'
    BY <1>1, MineThen, MineIs
  <1>7. CASE n \notin NamesOf(v)
    <2>1. ~(IdOf(v) \in TagId /\ tagName[IdOf(v)] = n)
      BY <1>7 DEF NamesOf
    <2>2. \A r : r \in Mine(p, n)' <=> r \in Mine(p, n)
      <3>1. new \in Mine(p, n)' => new \in Mine(p, n)
        BY <1>1, <2>1, MineThen
      <3> QED
        BY <1>5, <1>6, <3>1
    <2>3. \A i \in TagId : tagName[i] = n => v # i
      BY <2>1, IdIsItself
    <2>4. \A i \in TagId : tagName[i] = n =>
              Rows(i)' = Rows(i) /\ (i \in items'[p] <=> i \in items[p])
      BY <1>2, <2>3
    <2> QED
      BY <1>3, <2>2, <2>4, PartStays
  <1>8. CASE n \in NamesOf(v)
    <2>1. v \in choices[p] /\ tagName[v] = n /\ v \in TagId
      <3>1. IdOf(v) \in TagId /\ tagName[IdOf(v)] = n
        BY <1>8 DEF NamesOf
      <3>2. v \notin made[p]
        BY <3>1, MisreadIs
      <3> QED
        BY <1>3, <3>1, <3>2, IdIsItself
    <2>2. n \notin made[p]
      BY <2>1 DEF PartInv, MadeInv
    <2>3. ListedInv(p, n)
      BY <2>2 DEF PartInv
    <2>4. Mine(p, n) = {}
      <3> DEFINE again == {m \in Subjects(op, v) : Twice(p, m)}
      <3>1. Disturb(p, Subjects(op, v), again) /\ again \in SUBSET Subjects(op, v)
        BY DEF DisturbTwice
      <3>2. Twice(p, n) => n \in again
        BY <1>4, <1>8
      <3> HIDE DEF again
      <3>3. again \subseteq disturbed'[p]
        BY <1>4, <3>1, Noted
      <3> QED
        BY <3>2, <3>3 DEF Twice, Mine
    <2>5. Mine(p, n)' = {new}
      <3>1. new \in Mine(p, n)'
        BY <1>1, <2>1, IdIsItself, MineThen DEF Due
      <3> QED
        BY <1>5, <2>4, <3>1
    <2>6. /\ \A j \in TagId : tagName[j] = n => j = v
          /\ \A x, y \in Rows(v) : x = y
          /\ v \in items[p] <=> Rows(v) # {}
      BY <2>1, <2>3, <2>4 DEF ListedInv
    <2>7. Changes(p, v, new)'
      <3>1. CASE op = "add"
        BY <1>1, <1>2, <2>6, <3>1 DEF Changes
      <3>2. CASE op = "remove"
        <4>1. \E x : Rows(v) = {x}
          BY <2>6, <3>2
        <4> QED
          BY <1>1, <1>2, <3>2, <4>1 DEF Changes
      <3> QED
        BY <3>1, <3>2
    <2>8. ASSUME NEW i \in TagId, tagName'[i] = n
          PROVE  /\ \A j \in TagId : tagName'[j] = n => j = i
                 /\ \A x, y \in Rows(i)' : x = y
                 /\ \A r, q \in Mine(p, n)' : r = q
                 /\ Mine(p, n)' = {} => (i \in items'[p] <=> Rows(i)' # {})
                 /\ \A r \in Mine(p, n)' : Changes(p, i, r)'
      <3>1. i = v
        BY <2>6, <2>8
      <3> QED
        BY <1>2, <2>5, <2>6, <2>7, <3>1
    <2>9. ListedInv(p, n)'
      BY <2>8 DEF ListedInv
    <2> QED
      BY <2>2, <2>9 DEF PartInv
  <1> QED
    BY <1>7, <1>8

\* The user makes the option t.
LEMMA PartMade ==
    ASSUME TagData, NEW p \in Page, NEW n \in TagText, PartInv(p, n),
           onItemCreate(p), NEW t \in TagText \ made[p],
           items' = [items EXCEPT ![p] = items[p] \cup {t}],
           made' = [made EXCEPT ![p] = made[p] \cup {t}],
           SendBoth(p, "create", t, "add", t),
           n = t => ~(Twice(p, n) \/ \E i \in TagId : tagName[i] = t),
           n \notin Misread(p)'
    PROVE  PartInv(p, n)'
  <1> TagTable /\ RowsInv /\ PagesInv /\ DealtInv
    BY DEF TagData
  <1>1. PICK a, b : /\ requests' = requests \cup {a, b}
                    /\ a.page = p /\ a.op = "create" /\ a.arg = t
                    /\ a.at = "sent" /\ a.seen = {}
                    /\ b.page = p /\ b.op = "add" /\ b.arg = t
    <2>1. "add" # "create" /\ editing' \subseteq editing /\ tagName' = tagName
      BY DEF onItemCreate
    <2> QED
      BY <2>1, TagPair
  <1>2. UNCHANGED <<tagName, assigned, choices>>
    BY DEF onItemCreate
  <1>3. \A i : Rows(i)' = Rows(i)
    BY <1>2 DEF Rows
  <1>4. /\ choices[p] \subseteq TagId
        /\ items'[p] = items[p] \cup {t} /\ made'[p] = made[p] \cup {t}
    BY DEF PagesInv
  <1>5. /\ ~(IdOf(t) \in TagId /\ tagName[IdOf(t)] = n)
        /\ n \in {t} \cup Finds[t] => n = t
    <2>1. t \in made'[p]
      BY <1>4
    <2> QED
      BY <1>2, <2>1, MisreadThen
  <1>6. b \notin Mine(p, n)'
    BY <1>1, <1>2, <1>5, MineThen
  <1>7. \A r : r \in Mine(p, n) => r \in Mine(p, n)'
    BY <1>1, <1>2, MineThen, MineIs
  <1>8. \A r : r \in Mine(p, n)' => r \in Mine(p, n) \/ r = a
    BY <1>1, <1>2, <1>6, MineThen, MineIs
  <1>9. CASE n # t
    <2>1. a \notin Mine(p, n)'
      BY <1>1, <1>5, <1>9, MineThen
    <2>2. \A r : r \in Mine(p, n)' <=> r \in Mine(p, n)
      BY <1>7, <1>8, <2>1
    <2>3. \A i \in TagId : tagName[i] = n =>
              Rows(i)' = Rows(i) /\ (i \in items'[p] <=> i \in items[p])
      BY <1>3, <1>4, TextIsNoId
    <2> QED
      BY <1>2, <1>4, <1>9, <2>2, <2>3, PartStays
  <1>10. CASE n = t
    <2>1. ~Twice(p, n) /\ \A i \in TagId : tagName[i] # n
      BY <1>10
    <2>2. Mine(p, n) = {}
      BY <2>1 DEF Twice, Mine
    <2>3. a \in Mine(p, n)'
      BY <1>1, <1>10, MineThen DEF Due
    <2>4. Making(p, n)'
      BY <1>1, <1>2, <1>8, <2>1, <2>2, <2>3 DEF Making
    <2>5. \A i \in choices'[p] : tagName'[i] # n
      BY <1>2, <1>4, <2>1
    <2> QED
      BY <1>4, <1>10, <2>4, <2>5 DEF PartInv, MadeInv
  <1> QED
    BY <1>9, <1>10

\* A page does something, and p is another one.
LEMMA PartOfOther ==
    ASSUME TagData, NEW p \in Page, NEW n \in TagText, PartInv(p, n),
           UNCHANGED <<tagName, assigned>>,
           items'[p] = items[p], choices'[p] = choices[p], made'[p] = made[p],
           Of(p)' = Of(p)
    PROVE  PartInv(p, n)'
  <1>1. \A r : r \in Mine(p, n)' <=> r \in Mine(p, n)
    BY MineThen, MineIs DEF Of
  <1>2. \A i : Rows(i)' = Rows(i)
    BY DEF Rows
  <1>3. choices[p] \subseteq TagId
    BY DEF TagData, PagesInv
  <1> QED
    BY <1>1, <1>2, <1>3, PartStays

LEMMA ModalOfPages ==
    ASSUME TagData, ModalInv, NEW p \in Page,
           openTags(p) \/ Chooses(p) \/ closeTags(p)
    PROVE  ModalInv'
  <1> TagTable /\ RowsInv /\ PagesInv /\ DealtInv
    BY DEF TagData
  <1> SUFFICES ASSUME NEW q \in editing', NEW n \in TagText,
                      n \notin disturbed'[q], n \notin Misread(q)'
               PROVE  PartInv(q, n)'
    BY DEF ModalInv, Strange
  <1>1. /\ UNCHANGED <<tagName, assigned>>
        /\ editing' \subseteq editing \cup {p} /\ q \in Page
    <2>1. /\ UNCHANGED <<tagName, assigned>>
          /\ editing' \subseteq editing \cup {p}
      BY TagOpened, TagChosen, TagClosed
    <2> QED
      BY <2>1 DEF TagTable, FlowInv
  <1>2. ASSUME q \in editing, disturbed[q] \subseteq disturbed'[q],
               made[q] \subseteq made'[q]
        PROVE  PartInv(q, n) /\ n \notin Misread(q)
    <2>1. n \notin Misread(q)
      BY <1>1, <1>2, MisreadIs, MisreadThen
    <2> QED
      BY <1>2, <2>1 DEF ModalInv, Strange
  <1>3. CASE openTags(p)
    <2>1. CASE q = p
      BY <1>3, <2>1, PartOpened
    <2>2. CASE q # p
      <3>1. q \in editing /\ Of(q)' = Of(q)
        BY <1>1, <1>3, <2>2, TagOpened DEF Of
      <3>2. /\ disturbed'[q] = disturbed[q] /\ made'[q] = made[q]
            /\ items'[q] = items[q] /\ choices'[q] = choices[q]
        BY <1>1, <1>3, <2>2 DEF openTags, PagesInv
      <3> QED
        BY <1>1, <1>2, <3>1, <3>2, PartOfOther
    <2> QED
      BY <2>1, <2>2
  <1>4. ASSUME NEW op \in {"add", "remove"}, NEW v \in choices[p] \cup made[p],
               Send(p, op, v), UNCHANGED <<choices, made, editing>>,
               p \in editing,
               items' = [items EXCEPT ![p] =
                             IF op = "add" THEN items[p] \cup {v} ELSE items[p] \ {v}],
               v \in items[p] <=> op = "remove",
               DisturbTwice(p, Subjects(op, v))
        PROVE  PartInv(q, n)'
    <2>1. Subjects(op, v) \in SUBSET TagText
      BY DEF Subjects, NamesOf
    <2>2. disturbed[q] \subseteq disturbed'[q]
      <3>1. Disturb(p, Subjects(op, v), {m \in Subjects(op, v) : Twice(p, m)})
        BY <1>4 DEF DisturbTwice
      <3> QED
        BY <1>1, <2>1, <3>1, Noted
    <2>3. PartInv(q, n) /\ n \notin Misread(q)
      BY <1>1, <1>2, <1>4, <2>2
    <2>4. CASE q = p
      <3>1. items'[p] = IF op = "add" THEN items[p] \cup {v} ELSE items[p] \ {v}
        BY <1>4 DEF PagesInv
      <3> QED
        BY <1>1, <1>4, <2>3, <2>4, <3>1, PartSent
    <2>5. CASE q # p
      <3>1. items'[q] = items[q]
        BY <1>1, <1>4, <2>5 DEF PagesInv
      <3>2. Of(q)' = Of(q)
        BY <1>4, <2>5 DEF Of, Send, Request
      <3> QED
        BY <1>1, <1>4, <2>3, <3>1, <3>2, PartOfOther
    <2> QED
      BY <2>4, <2>5
  <1>5. CASE onItemAdd(p)
    <2>1. PICK v \in choices[p] \cup made[p] :
              /\ v \notin items[p]
              /\ items' = [items EXCEPT ![p] = items[p] \cup {v}]
              /\ Send(p, "add", v)
              /\ DisturbTwice(p, Subjects("add", v))
      BY <1>5 DEF onItemAdd
    <2>2. UNCHANGED <<choices, made, editing>> /\ p \in editing
      BY <1>5 DEF onItemAdd
    <2> QED
      BY <1>4, <2>1, <2>2
  <1>6. CASE onItemRemove(p)
    <2>1. PICK v \in items[p] :
              /\ items' = [items EXCEPT ![p] = items[p] \ {v}]
              /\ Send(p, "remove", v)
              /\ DisturbTwice(p, Subjects("remove", v))
      BY <1>6 DEF onItemRemove
    <2>2. /\ UNCHANGED <<choices, made, editing>> /\ p \in editing
          /\ v \in choices[p] \cup made[p]
      BY <1>6 DEF onItemRemove, PagesInv
    <2> QED
      BY <1>4, <2>1, <2>2
  <1>7. CASE onItemCreate(p)
    <2>1. PICK t \in TagText \ made[p] :
              /\ items' = [items EXCEPT ![p] = items[p] \cup {t}]
              /\ made' = [made EXCEPT ![p] = made[p] \cup {t}]
              /\ SendBoth(p, "create", t, "add", t)
              /\ Disturb(p, {t} \cup Finds[t] \cup NamesOf(t),
                         {m \in {t} \cup Finds[t] \cup NamesOf(t) :
                              Twice(p, m) \/ \E i \in TagId : tagName[i] = t})
      BY <1>7 DEF onItemCreate
    <2>2. UNCHANGED <<choices, editing>> /\ p \in editing
      BY <1>7 DEF onItemCreate
    <2> DEFINE names == {t} \cup Finds[t] \cup NamesOf(t)
               again == {m \in names : Twice(p, m) \/ \E i \in TagId : tagName[i] = t}
    <2>3. names \subseteq TagText /\ again \subseteq names /\ Disturb(p, names, again)
      BY <2>1, TagConstants DEF NamesOf
    <2>4. n = t => n \in again \/ ~(Twice(p, n) \/ \E i \in TagId : tagName[i] = t)
      OBVIOUS
    <2> HIDE DEF names, again
    <2>5. /\ disturbed[q] \subseteq disturbed'[q] /\ again \subseteq disturbed'[p]
          /\ made[q] \subseteq made'[q]
      BY <1>1, <2>1, <2>3, Noted DEF PagesInv
    <2>6. PartInv(q, n) /\ n \notin Misread(q)
      BY <1>1, <1>2, <2>2, <2>5
    <2>7. CASE q = p
      <3>1. n = t => ~(Twice(p, n) \/ \E i \in TagId : tagName[i] = t)
        BY <2>4, <2>5, <2>7
      <3> QED
        BY <1>7, <2>1, <2>6, <2>7, <3>1, PartMade
    <2>8. CASE q # p
      <3>1. items'[q] = items[q] /\ made'[q] = made[q]
        BY <1>1, <2>1, <2>8 DEF PagesInv
      <3>2. Of(q)' = Of(q)
        BY <2>1, <2>8 DEF Of, SendBoth, Request
      <3> QED
        BY <1>1, <2>2, <2>6, <3>1, <3>2, PartOfOther
    <2> QED
      BY <2>7, <2>8
  <1>8. CASE closeTags(p)
    <2>1. /\ UNCHANGED <<items, choices, made, disturbed>>
          /\ q # p /\ q \in editing
      BY <1>8, TagClosed
    <2>2. PICK x, y : /\ requests' = requests \cup {x, y}
                      /\ x.page = p /\ y.page = p
      BY <1>8, TagClosed
    <2>3. Of(q)' = Of(q)
      BY <2>1, <2>2 DEF Of
    <2> QED
      BY <1>1, <1>2, <2>1, <2>3, PartOfOther
  <1> QED
    BY <1>3, <1>5, <1>6, <1>7, <1>8 DEF Chooses

\* A handler of the page is at work on the name.
LEMMA PartHandled ==
    ASSUME TagData, SentInv, NEW p \in editing, p \in Page, NEW n \in TagText,
           PartInv(p, n), n \notin Strange(p), NEW r \in Mine(p, n), Handles(r)
    PROVE  PartInv(p, n)'
  <1> TagTable /\ RowsInv /\ PagesInv /\ DealtInv
    BY DEF TagData
  <1>1. /\ r \in requests /\ r.page = p /\ Due(r) /\ r \in Of(p)
        /\ \/ r.op = "create" /\ n \in {r.arg} \cup Finds[r.arg]
           \/ /\ r.op \in {"add", "remove", "assign"}
              /\ IdOf(r.arg) \in TagId /\ tagName[IdOf(r.arg)] = n
        /\ n \in SubjectsOf(r)
    BY MineIs DEF Of, Mine
  <1>2. UNCHANGED <<tagName, items, choices, made>>
    BY <1>1, TagHandled
  <1>3. PICK new : /\ requests' = (requests \ {r}) \cup {new}
                   /\ new \notin requests
                   /\ new.page = r.page /\ new.op = r.op /\ new.arg = r.arg
                   /\ Handled(r, new)
    BY <1>1, TagHandled
  <1>4. /\ \A q : q \in Mine(p, n)' => q = new \/ (q \in Mine(p, n) /\ q # r)
        /\ \A q : q \in Mine(p, n) /\ q # r => q \in Mine(p, n)'
        /\ Due(new) => new \in Mine(p, n)'
        /\ ~Due(new) => new \notin Mine(p, n)'
    BY <1>1, <1>2, <1>3, MineIs, MineThen
  <1>5. choices[p] \subseteq TagId /\ made[p] \subseteq TagText
    BY DEF PagesInv
  <1>6. n # Unnamed
    BY UnnamedIsNoName
  <1>7. r.at = "loaded" => r \in Handling
    BY <1>1 DEF Handling, InHandler
  <1>8. r.op = "assign" => /\ r.at = "loaded" /\ r.arg \in TagId
                           /\ tagName[r.arg] = n /\ n \in made[p]
    <2>1. r.op = "assign" => r.at = "loaded"
      BY <1>1 DEF RowsInv, Due
    <2>2. r.op = "assign" => r.arg \in TagId
      BY <1>1, <1>7, <2>1 DEF RowsInv, Known
    <2>3. r.op = "assign" => n \in made[p]
      BY <1>1 DEF SentInv
    <2> QED
      BY <1>1, <2>1, <2>2, <2>3, IdIsItself
  <1>9. r.op \in {"add", "remove"} => r.arg \in choices[p] /\ tagName[r.arg] = n
    <2>1. r.op \in {"add", "remove"} => r.arg \in choices[p]
      BY <1>1 DEF SentInv
    <2> QED
      BY <1>1, <1>5, <2>1, IdIsItself
  <1>10. r.op = "create" => r.arg = n /\ n \in made[p]
    BY <1>1 DEF SentInv
  <1>11. CASE n \notin made[p]
    <2> DEFINE i == IdOf(r.arg)
    <2>1. r.op \in {"add", "remove"} /\ i \in TagId /\ tagName[i] = n
      BY <1>1, <1>8, <1>10, <1>11
    <2>2. ListedInv(p, n)
      BY <1>11 DEF PartInv
    <2>3. /\ \A j \in TagId : tagName[j] = n => j = i
          /\ \A x, y \in Rows(i) : x = y
          /\ \A q, s \in Mine(p, n) : q = s
          /\ Changes(p, i, r)
      BY <2>1, <2>2 DEF ListedInv
    <2>4. Known(i)
      BY <1>6, <2>1 DEF Known
    <2>5. SUFFICES /\ \A x, y \in Rows(i)' : x = y
                   /\ \A q, s \in Mine(p, n)' : q = s
                   /\ Mine(p, n)' = {} => (i \in items'[p] <=> Rows(i)' # {})
                   /\ \A q \in Mine(p, n)' : Changes(p, i, q)'
      BY <1>2, <1>11, <2>3 DEF PartInv, ListedInv
    <2> HIDE DEF i
    <2>6. CASE r.at = "sent"
      <3>1. new.at = "loaded" /\ new.seen = Rows(i) /\ assigned' = assigned
        BY <1>3, <2>1, <2>4, <2>6 DEF Handled, Inserts, i
      <3>2. Mine(p, n)' = {new}
        BY <1>4, <2>3, <3>1 DEF Due
      <3>3. Rows(i)' = Rows(i)
        BY <3>1 DEF Rows
      <3>4. Changes(p, i, new)'
        BY <1>2, <1>3, <2>3, <3>1, <3>3 DEF Changes
      <3> QED
        BY <2>3, <3>2, <3>3, <3>4
    <2>7. CASE r.at = "loaded"
      <3>1. new.at = "done"
        BY <1>3, <2>7 DEF Handled
      <3>2. Mine(p, n)' = {}
        BY <1>4, <2>3, <3>1 DEF Due
      <3>3. CASE r.op = "add"
        <4>1. Rows(i) = {} /\ i \in items[p] /\ r.seen = {}
          BY <2>3, <2>7, <3>3 DEF Changes
        <4>2. PICK k : Inserts(r, k)
          BY <1>3, <2>7, <3>3, <4>1 DEF Handled
        <4>3. assigned' = assigned \cup {[row |-> assignRow + 1, tag |-> i]}
          BY <3>3, <4>2 DEF Inserts, Assign, i
        <4>4. Rows(i)' = {assignRow + 1}
          <5>1. \A x : x \in Rows(i)' <=> \E w \in assigned' : w.tag = i /\ w.row = x
            BY DEF Rows
          <5>2. \A w \in assigned : w.tag # i
            BY <4>1 DEF Rows
          <5> DEFINE row == [row |-> assignRow + 1, tag |-> i]
          <5>3. row.row = assignRow + 1 /\ row.tag = i
            OBVIOUS
          <5> HIDE DEF row
          <5>4. \A w : w \in assigned' /\ w.tag = i <=> w = row
            BY <4>3, <5>2, <5>3 DEF row
          <5>5. \A x : x \in Rows(i)' <=> x = assignRow + 1
            BY <5>1, <5>3, <5>4
          <5> QED
            BY <5>5
        <4> QED
          BY <1>2, <3>2, <4>1, <4>4
      <3>4. CASE r.op = "remove"
        <4>1. PICK x : Rows(i) = {x} /\ r.seen = {x} /\ i \notin items[p]
          BY <2>3, <2>7, <3>4 DEF Changes
        <4>2. assigned' = {w \in assigned : ~(w.row \in r.seen /\ w.row = Min(r.seen))}
          BY <1>3, <2>7, <3>4 DEF Handled, Inserts
        <4>3. Min({x}) = x
          <5>1. x \in Nat
            BY <4>1 DEF Rows, RowsInv
          <5> QED
            BY <5>1 DEF Min
        <4>4. Rows(i)' = {}
          <5>1. \A y : y \in Rows(i)' <=> \E w \in assigned' : w.tag = i /\ w.row = y
            BY DEF Rows
          <5>2. \A w \in assigned : w.tag = i => w.row = x
            BY <4>1 DEF Rows
          <5> QED
            BY <4>1, <4>2, <4>3, <5>1, <5>2
        <4> QED
          BY <1>2, <3>2, <4>1, <4>4
      <3> QED
        BY <2>1, <3>3, <3>4
    <2> QED
      BY <1>1, <2>6, <2>7 DEF Due
  <1>12. CASE n \in made[p]
    <2>1. MadeInv(p, n)
      BY <1>12 DEF PartInv
    <2>2. r.op \in {"create", "assign"}
      BY <1>1, <1>9, <2>1 DEF MadeInv
    <2>3. /\ \A i \in choices'[p] : tagName'[i] # n
          /\ n \in made'[p]
      BY <1>2, <1>12, <2>1 DEF MadeInv
    <2>4. SUFFICES IsAssigned(n)' \/ Making(p, n)'
      BY <2>3 DEF PartInv, MadeInv
    <2>5. assigned \subseteq assigned'
      <3>1. CASE \E k : Inserts(r, k)
        BY <3>1 DEF Inserts, Assign
      <3>2. CASE ~\E k : Inserts(r, k)
        BY <1>3, <2>2, <3>2 DEF Handled
      <3> QED
        BY <3>1, <3>2
    <2>6. IsAssigned(n) => IsAssigned(n)'
      BY <1>2, <2>5 DEF IsAssigned, Rows
    <2>7. CASE IsAssigned(n)
      BY <2>6, <2>7
    <2>8. CASE ~IsAssigned(n)
      <3>1. PICK q \in Mine(p, n) :
                \/ /\ q.op = "create" /\ \A i \in TagId : tagName[i] # n
                   /\ q.at = "loaded" => q.seen = {}
                   /\ \A s \in Mine(p, n) : s.op = "create" => s = q
                \/ q.op = "assign" /\ q.at = "loaded" /\ q.seen = {}
        BY <2>1, <2>8 DEF MadeInv, Making
      <3>2. CASE q # r
        <4>1. q \in Mine(p, n)'
          BY <1>4, <3>2
        <4>2. CASE q.op = "assign"
          BY <3>1, <4>1, <4>2 DEF Making
        <4>3. CASE q.op = "create"
          <5>1. \A i \in TagId : tagName[i] # n
            BY <3>1, <4>3
          <5>2. r.op = "create"
            BY <1>8, <2>2, <5>1
          <5> QED
            BY <3>1, <3>2, <4>3, <5>2
        <4> QED
          BY <3>1, <4>2, <4>3
      <3>3. CASE q = r /\ r.op = "create"
        <4>1. /\ n = r.arg /\ \A i \in TagId : tagName[i] # n
              /\ \A s \in Mine(p, n) : s.op = "create" => s = r
          BY <1>10, <3>1, <3>3
        <4>2. new.at = "loaded" /\ new.seen = {} /\ new.op = "create"
          <5>1. n \notin Misread(p)
            BY DEF Strange
          <5>2. Finds[n] = {n}
            BY <1>12, <5>1, MisreadIs
          <5>3. Found(n) = {}
            BY <4>1, <5>2 DEF Found
          <5> QED
            BY <1>3, <3>3, <4>1, <5>3 DEF Handled, Inserts
        <4>3. new \in Mine(p, n)' /\ \A s \in Mine(p, n)' : s.op = "create" => s = new
          BY <1>4, <4>1, <4>2 DEF Due
        <4>4. Making(p, n)'
          BY <1>2, <4>1, <4>2, <4>3 DEF Making
        <4> QED
          BY <4>4
      <3>4. CASE q = r /\ r.op = "assign"
        <4>1. r.at = "loaded" /\ r.seen = {} /\ r.arg \in TagId /\ tagName[r.arg] = n
          BY <1>8, <3>1, <3>4
        <4>2. PICK k : Inserts(r, k)
          BY <1>3, <3>4, <4>1 DEF Handled
        <4>3. [row |-> assignRow + 1, tag |-> r.arg] \in assigned'
          BY <3>4, <4>2 DEF Inserts, Assign
        <4>4. assignRow + 1 \in Rows(r.arg)'
          BY <4>3 DEF Rows
        <4> QED
          BY <1>2, <4>1, <4>4 DEF IsAssigned
      <3> QED
        BY <2>2, <3>2, <3>3, <3>4
    <2> QED
      BY <2>7, <2>8
  <1> QED
    BY <1>11, <1>12

\* A request of the page names a tag, or finds one.
LEMMA PartNamed ==
    ASSUME TagData, SentInv, NEW p \in editing, p \in Page, NEW n \in TagText,
           PartInv(p, n), n \notin Strange(p), NEW r \in Of(p), NameTag(r)
    PROVE  PartInv(p, n)'
  <1> TagTable /\ RowsInv /\ PagesInv /\ DealtInv
    BY DEF TagData
  <1>1. r \in requests /\ r.page = p
    BY DEF Of
  <1>2. /\ UNCHANGED <<assigned, items, choices, made>>
        /\ r.op = "create" /\ r.at = "loaded" /\ r.arg \in TagText
    BY <1>1, TagFound
  <1>3. PICK k, new :
            /\ k \in TagId
            /\ r.seen = {} => tagName[k] = Unnamed /\ tagName'[k] = r.arg
            /\ r.seen # {} => /\ tagName[k] \in Finds[r.arg]
                              /\ tagName' = tagName
            /\ \A j \in TagId \ {k} : tagName'[j] = tagName[j]
            /\ requests' = (requests \ {r}) \cup {new}
            /\ r \notin requests'
            /\ new.page = r.page /\ new.op = "assign" /\ new.arg = k
            /\ new.at = "loaded" /\ new.seen = Rows(k)
    BY <1>1, TagFound
  <1>4. \A i : Rows(i)' = Rows(i)
    BY <1>2 DEF Rows
  <1>5. choices[p] \subseteq TagId /\ IdOf(k) = k
    BY <1>3, IdIsItself DEF PagesInv
  <1>6. n # Unnamed
    BY UnnamedIsNoName
  <1>7. n \in SubjectsOf(r) <=> n \in {r.arg} \cup Finds[r.arg]
    BY <1>2, SubjectIs
  <1>8. CASE n \notin SubjectsOf(r)
    <2>1. \A j \in TagId : tagName'[j] = n <=> tagName[j] = n
      BY <1>3, <1>6, <1>7, <1>8
    <2>2. r \notin Mine(p, n)
      BY <1>8 DEF Mine
    <2>3. new \notin Mine(p, n)'
      BY <1>3, <1>5, <1>7, <1>8, MineThen
    <2>4. \A q : q \in Mine(p, n)' <=> q \in Mine(p, n)
      BY <1>3, <2>1, <2>2, <2>3, MineThen, MineIs
    <2> QED
      BY <1>2, <1>4, <1>5, <2>1, <2>4, PartStays
  <1>9. CASE n \in SubjectsOf(r)
    <2>1. n = r.arg /\ n \in made[p]
      BY <1>2, <1>9 DEF SentInv
    <2>2. MadeInv(p, n)
      BY <2>1 DEF PartInv
    <2>3. Finds[n] = {n}
      <3>1. n \notin Misread(p)
        BY DEF Strange
      <3> QED
        BY <2>1, <3>1, MisreadIs
    <2>4. tagName'[k] = n
      BY <1>3, <2>1, <2>3
    <2>5. new \in Mine(p, n)'
      BY <1>1, <1>3, <1>5, <2>4, MineThen DEF Due
    <2>6. CASE r.seen = {}
      <3>1. k \notin choices[p] /\ Rows(k) = {}
        <4>1. ~Known(k)
          BY <1>3, <2>6 DEF Known
        <4> QED
          BY <4>1 DEF PagesInv, RowsInv, Rows
      <3>2. \A i \in choices'[p] : tagName'[i] # n
        BY <1>2, <1>3, <1>5, <2>2, <3>1 DEF MadeInv
      <3>3. Making(p, n)'
        BY <1>3, <2>5, <3>1 DEF Making
      <3> QED
        BY <1>2, <2>1, <3>2, <3>3 DEF PartInv, MadeInv
    <2>7. CASE r.seen # {}
      <3>1. tagName' = tagName /\ tagName[k] = n
        BY <1>3, <2>4, <2>7
      <3>2. \A i \in choices'[p] : tagName'[i] # n
        BY <1>2, <2>2, <3>1 DEF MadeInv
      <3>3. IsAssigned(n) => IsAssigned(n)'
        BY <1>4, <3>1 DEF IsAssigned
      <3>4. ASSUME Making(p, n) PROVE Making(p, n)'
        <4>1. PICK q \in Mine(p, n) :
                  q.op = "assign" /\ q.at = "loaded" /\ q.seen = {}
          BY <1>3, <3>1, <3>4 DEF Making
        <4>2. q \in requests' /\ q # r
          BY <1>2, <1>3, <4>1, MineIs
        <4>3. q \in Mine(p, n)'
          BY <3>1, <4>1, <4>2, MineIs, MineThen
        <4> QED
          BY <4>1, <4>3 DEF Making
      <3> QED
        BY <1>2, <2>1, <2>2, <3>2, <3>3, <3>4 DEF PartInv, MadeInv
    <2> QED
      BY <2>6, <2>7
  <1> QED
    BY <1>8, <1>9

LEMMA ModalOfRequests ==
    ASSUME TagData, SentInv, ModalInv, NEW r \in requests,
           Handles(r) \/ NameTag(r) \/ TagAnswered(r) \/ TagLost(r)
    PROVE  ModalInv'
  <1> TagTable /\ RowsInv /\ PagesInv /\ DealtInv
    BY DEF TagData
  <1>1. /\ UNCHANGED <<items, choices, made, editing>>
        /\ \A q \in Page : disturbed[q] \subseteq disturbed'[q]
        /\ \A j \in TagId : tagName[j] \in TagText => tagName'[j] = tagName[j]
    <2>1. CASE Handles(r)
      BY <2>1, TagHandled
    <2>2. CASE NameTag(r)
      BY <2>2, UnnamedIsNoName, TagFound
    <2>3. CASE TagAnswered(r) \/ TagLost(r)
      BY <2>3 DEF TagAnswered, TagLost, PagesInv
    <2> QED
      BY <2>1, <2>2, <2>3
  <1> SUFFICES ASSUME NEW p \in editing, NEW n \in TagText, n \notin Strange(p)'
               PROVE  PartInv(p, n)'
    BY <1>1 DEF ModalInv
  <1>2. p \in Page /\ choices[p] \subseteq TagId /\ r \in Of(r.page)
    BY DEF TagTable, FlowInv, PagesInv, Of
  <1>3. n \notin Strange(p) /\ n \notin disturbed'[p] /\ n \notin disturbed[p]
    BY <1>1, <1>2, StrangeGrows DEF Strange
  <1>4. PartInv(p, n)
    BY <1>3 DEF ModalInv
  <1>5. n \in SubjectsOf(r) => r.page = p
    BY <1>2, <1>3 DEF DealtInv
  <1>6. CASE Handles(r)
    <2>1. tagName' = tagName /\ Due(r)
      BY <1>6, TagHandled
    <2>2. PICK new : /\ requests' = (requests \ {r}) \cup {new}
                     /\ new.page = r.page /\ new.op = r.op /\ new.arg = r.arg
      BY <1>6, TagHandled
    <2>3. CASE n \in SubjectsOf(r)
      <3>1. r \in Mine(p, n)
        BY <1>2, <1>5, <2>1, <2>3 DEF Mine
      <3> QED
        BY <1>2, <1>3, <1>4, <1>6, <3>1, PartHandled
    <2>4. CASE n \notin SubjectsOf(r)
      <3>1. \A i \in TagId : tagName[i] = n => Rows(i)' = Rows(i)
        BY <1>6, <2>4, OtherRowsStay
      <3>2. n \notin SubjectsOf(new)
        BY <2>1, <2>2, <2>4, HandledSubjects
      <3>3. r \notin Mine(p, n) /\ new \notin Mine(p, n)'
        BY <2>1, <2>4, <3>2, SubjectsStay DEF Mine
      <3>4. \A q : q \in Mine(p, n)' <=> q \in Mine(p, n)
        BY <2>1, <2>2, <3>3, MineThen, MineIs
      <3> QED
        BY <1>1, <1>2, <1>4, <2>1, <3>1, <3>4, PartStays
    <2> QED
      BY <2>3, <2>4
  <1>7. CASE NameTag(r)
    <2>1. CASE r.page = p
      BY <1>2, <1>3, <1>4, <1>7, <2>1, PartNamed
    <2>2. CASE r.page # p
      <3>1. assigned' = assigned /\ r.op = "create" /\ r.at = "loaded"
        BY <1>7, TagFound
      <3>2. PICK k, new :
                /\ k \in TagId
                /\ r.seen = {} => tagName'[k] = r.arg
                /\ r.seen # {} => tagName' = tagName
                /\ \A j \in TagId \ {k} : tagName'[j] = tagName[j]
                /\ requests' = (requests \ {r}) \cup {new}
                /\ new.page = r.page
        BY <1>7, TagFound
      <3>3. n # r.arg
        BY <1>5, <2>2, <3>1, SubjectIs
      <3>4. \A j \in TagId : tagName'[j] = n <=> tagName[j] = n
        BY <1>1, <3>2, <3>3
      <3>5. \A q : q \in Mine(p, n)' <=> q \in Mine(p, n)
        BY <2>2, <3>2, <3>4, MineThen, MineIs
      <3>6. \A i : Rows(i)' = Rows(i)
        BY <3>1 DEF Rows
      <3> QED
        BY <1>1, <1>2, <1>4, <3>4, <3>5, <3>6, PartStays
    <2> QED
      BY <2>1, <2>2
  <1>8. CASE TagAnswered(r) \/ TagLost(r)
    <2>1. /\ UNCHANGED <<tagName, assigned>>
          /\ Answered(r) \/ Lose(r)
      BY <1>8 DEF TagAnswered, TagLost, tagVars
    <2>2. requests' = requests \ {r}
      BY <1>1, <2>1, TagGone
    <2>3. r \notin Mine(p, n)
      <3>1. CASE TagAnswered(r)
        BY <3>1 DEF TagAnswered, Mine, Due
      <3>2. CASE TagLost(r)
        <4>1. SubjectsOf(r) \subseteq disturbed'[r.page]
          <5>1. r.page \in Page
            BY DEF TagTable, FlowInv
          <5> QED
            BY <3>2, <5>1 DEF TagLost, PagesInv
        <4> QED
          BY <1>3, <4>1 DEF Mine, Of
      <3> QED
        BY <1>8, <3>1, <3>2
    <2>4. \A q : q \in Mine(p, n)' <=> q \in Mine(p, n)
      BY <2>1, <2>2, <2>3, MineThen, MineIs
    <2>5. \A i : Rows(i)' = Rows(i)
      BY <2>1 DEF Rows
    <2> QED
      BY <1>1, <1>2, <1>4, <2>1, <2>4, <2>5, PartStays
  <1> QED
    BY <1>6, <1>7, <1>8

PagesOfTags == TagData /\ ContainerInv /\ SentInv /\ ModalInv

PagesAtRest ==
    editing = {} /\ assigned = {} /\ \A p \in Page : container[p] = {}

PagesKind == IF kind = "tags" THEN PagesOfTags ELSE PagesAtRest

LEMMA FirstRows ==
    ASSUME TagInit
    PROVE  /\ assignRow \in Nat /\ assignRow <= MaxTagId
           /\ \A w \in assigned : w.row \in Nat /\ w.row > 0 /\ w.row <= assignRow
  <1>1. PICK m \in 0 .. MaxTagId : FirstTags \in [1 .. m -> TagText]
    BY TagConstants
  <1>2. DOMAIN FirstTags = 1 .. m /\ m \in Nat /\ m <= MaxTagId
    BY <1>1, TagConstants
  <1>3. CASE assigned = {}
    BY <1>3, FS_EmptySet, TagConstants DEF TagInit
  <1>4. CASE assigned = {[row |-> i, tag |-> i] : i \in 1 .. m}
    <2> DEFINE f == [i \in 1 .. m |-> [row |-> i, tag |-> i]]
    <2>1. f \in Surjection(1 .. m, assigned) /\ f \in Injection(1 .. m, assigned)
      BY <1>4 DEF Surjection, Injection, IsInjective
    <2> HIDE DEF f
    <2>3. IsFiniteSet(1 .. m) /\ Cardinality(1 .. m) = m
      BY <1>2, FS_Interval
    <2>4. Cardinality(assigned) = m
      BY <2>1, <2>3, FS_Surjection
    <2>5. \A w \in assigned : \E i \in 1 .. m : w = [row |-> i, tag |-> i]
      BY <1>4
    <2>6. assignRow = m
      BY <2>4 DEF TagInit
    <2> QED
      BY <1>2, <2>5, <2>6
  <1> QED
    BY <1>2, <1>3, <1>4 DEF TagInit

LEMMA PagesStart == Init => PagesKind
  <1> SUFFICES ASSUME Init PROVE PagesKind
    OBVIOUS
  <1>1. FlowInv /\ requests = {}
    BY FlowStarts DEF Init, RequestsInit
  <1>2. /\ TagInit /\ editing = {}
        /\ tagName = [i \in TagId |-> IF i \in DOMAIN FirstTags
                                      THEN FirstTags[i] ELSE Unnamed]
        /\ assigned \in {{}, {[row |-> i, tag |-> i] : i \in DOMAIN FirstTags}}
        /\ items = [p \in Page |-> {}] /\ choices = [p \in Page |-> {}]
        /\ made = [p \in Page |-> {}] /\ disturbed = [p \in Page |-> {}]
        /\ container = [p \in Page |-> {a.tag : a \in assigned}]
        /\ missed = [p \in Page |-> {}]
        /\ kind = "tags" \/ assigned = {}
    BY DEF Init, TagInit
  <1>3. PICK m \in 0 .. MaxTagId : FirstTags \in [1 .. m -> TagText]
    BY TagConstants
  <1>4. /\ DOMAIN FirstTags \subseteq TagId
        /\ \A i \in DOMAIN FirstTags : tagName[i] \in TagText /\ tagName[i] # Unnamed
    BY <1>2, <1>3, TagConstants, UnnamedIsNoName DEF TagId
  <1>5. TagTable
    <2>1. tagName \in [TagId -> TagText \cup {Unnamed}]
      BY <1>2, <1>4
    <2> QED
      BY <1>1, <1>2, <2>1 DEF TagTable
  <1>6. RowsInv
    <2>1. \A w \in assigned : \E i \in DOMAIN FirstTags : w = [row |-> i, tag |-> i]
      BY <1>2
    <2>2. \A w \in assigned :
              /\ w \in [row : Nat, tag : TagId] /\ Known(w.tag)
              /\ \A u \in assigned : w.row = u.row => w = u
      BY <1>3, <1>4, <2>1 DEF Known
    <2> QED
      BY <1>1, <1>2, <2>2, FirstRows DEF RowsInv, Handling
  <1>7. {a.tag : a \in assigned} \in SUBSET TagId
    BY <1>6 DEF RowsInv
  <1>8. PagesInv
    BY <1>1, <1>2, <1>6, <1>7 DEF PagesInv, Of, RowsInv
  <1>9. DealtInv /\ SentInv /\ ModalInv
    BY <1>1, <1>2 DEF DealtInv, SentInv, ModalInv
  <1>10. ContainerInv
    BY <1>1, <1>2 DEF ContainerInv, AreShown, Of, Getting, AssignedTags, AllSubjects
  <1>11. kind # "tags" => PagesAtRest
    BY <1>2 DEF PagesAtRest
  <1> QED
    BY <1>5, <1>6, <1>8, <1>9, <1>10, <1>11 DEF PagesKind, PagesOfTags, TagData

LEMMA PagesOfTagsKept ==
    ASSUME PagesOfTags, TagNext
    PROVE  PagesOfTags'
  <1> TagData /\ ContainerInv /\ SentInv /\ ModalInv
    BY DEF PagesOfTags
  <1> TagTable /\ RowsInv /\ PagesInv /\ DealtInv
    BY DEF TagData
  <1>1. ASSUME NEW p \in Page, openTags(p) \/ Chooses(p) \/ closeTags(p)
        PROVE  PagesOfTags'
    <2>1. TagTable'
      BY <1>1, TagOpened, TagChosen, TagClosed
    <2>2. RowsInv' /\ PagesInv' /\ DealtInv'
      BY <1>1, RowsOfPages, PagesOfPages, DealtOfPages
    <2>3. ContainerInv' /\ SentInv' /\ ModalInv'
      BY <1>1, ContainerOfPages, SentOfPages, ModalOfPages
    <2> QED
      BY <2>1, <2>2, <2>3 DEF PagesOfTags, TagData
  <1>2. ASSUME NEW r \in requests,
               Handles(r) \/ NameTag(r) \/ TagAnswered(r) \/ TagLost(r)
        PROVE  PagesOfTags'
    <2>1. TagTable'
      <3>1. CASE Handles(r)
        BY <3>1, TagHandled
      <3>2. CASE NameTag(r)
        BY <3>2, TableNamed
      <3>3. CASE TagAnswered(r) \/ TagLost(r)
        BY <3>3, TagGone DEF TagAnswered, TagLost, tagVars
      <3> QED
        BY <1>2, <3>1, <3>2, <3>3
    <2>2. RowsInv' /\ PagesInv' /\ DealtInv'
      BY <1>2, RowsOfHandlers, RowsOfOthers, PagesOfRequests, DealtOfRequests
    <2>3. ContainerInv' /\ SentInv' /\ ModalInv'
      BY <1>2, ContainerOfRequests, SentOfRequests, ModalOfRequests
    <2> QED
      BY <2>1, <2>2, <2>3 DEF PagesOfTags, TagData
  <1> QED
    BY <1>1, <1>2 DEF TagNext, Handles, Chooses

LEMMA PagesKept == PagesKind /\ [Next]_browserVars => PagesKind'
  <1> SUFFICES ASSUME PagesKind, [Next]_browserVars PROVE PagesKind'
    OBVIOUS
  <1>1. UNCHANGED kind
    BY DEF Next, browserVars, NextUpload, NextSecurity, NextTags,
           NextFavourite, NextTimelog, NextPasskeys
  <1>2. CASE NextTags
    BY <1>1, <1>2, PagesOfTagsKept DEF NextTags, PagesKind
  <1>3. CASE kind # "tags" /\ UNCHANGED tagVars
    BY <1>1, <1>3 DEF PagesKind, PagesAtRest, tagVars
  <1>4. CASE kind = "tags" /\ UNCHANGED browserVars
    <2>1. UNCHANGED <<open, requests, left>> /\ UNCHANGED tagVars
      BY <1>4 DEF browserVars, requestVars
    <2>2. UNCHANGED <<tagName, assigned, assignRow, items, choices, made,
                      editing, container, disturbed, missed>>
      BY <2>1 DEF tagVars
    <2> PagesOfTags
      BY <1>4 DEF PagesKind
    <2>3. TagTable'
      BY <2>1, <2>2, FlowRests DEF PagesOfTags, TagData, TagTable, Found
    <2>4. RowsInv' /\ PagesInv'
      BY <2>1, <2>2 DEF PagesOfTags, TagData, RowsInv, PagesInv, Handling,
                        InHandler, Known, IdOf, Of
    <2>5. /\ \A q : SubjectsOf(q)' = SubjectsOf(q)
          /\ \A p : Of(p)' = Of(p) /\ Strange(p)' = Strange(p)
      BY <2>1, <2>2, SubjectsStay DEF Of, Strange, Misread, NamesOf, IdOf
    <2>6. DealtInv' /\ SentInv'
      BY <2>1, <2>2, <2>5 DEF PagesOfTags, TagData, DealtInv, SentInv
    <2>7. ContainerInv'
      <3>1. AllSubjects' = AllSubjects /\ \A p : Getting(p)' = Getting(p)
        BY <2>1, <2>5 DEF AllSubjects, Getting
      <3> QED
        BY <2>1, <2>2, <2>5, <3>1
           DEF PagesOfTags, ContainerInv, AreShown, AssignedTags
    <2>8. ModalInv'
      <3>1. ModalInv /\ TagData /\ editing \subseteq Page
        BY DEF PagesOfTags, TagData, TagTable, FlowInv
      <3>2. \A p \in editing : \A n \in TagText \ Strange(p) : PartInv(p, n)'
        BY <2>1, <2>2, <2>5, <3>1, PartOfOther DEF ModalInv
      <3> QED
        BY <2>2, <2>5, <3>2 DEF ModalInv
    <2> QED
      BY <1>1, <1>4, <2>3, <2>4, <2>6, <2>7, <2>8
         DEF PagesKind, PagesOfTags, TagData
  <1>5. CASE kind # "tags" /\ UNCHANGED browserVars
    BY <1>1, <1>5 DEF PagesKind, PagesAtRest, browserVars, tagVars
  <1> QED
    BY <1>2, <1>3, <1>4, <1>5
       DEF Next, NextUpload, NextSecurity, NextTimelog, NextFavourite,
           NextPasskeys

\* The container of a page whose modal is closed shows the tags that are
\* assigned, however often the modal was opened and closed and in whatever
\* order the answers came, but for the tags that were dealt with since: for
\* any pages, sessions, tags and requests.
THEOREM ContainerShowsStored == Spec => []ContainerIsStored
  <1>1. PagesKind => ContainerIsStored
    <2> SUFFICES ASSUME PagesKind, NEW p \in Page \ editing, ~Getting(p),
                        NEW i \in TagId, tagName[i] \in TagText \ missed[p]
                 PROVE  i \in container[p] <=> i \in AssignedTags
      BY DEF ContainerIsStored
    <2>1. CASE kind = "tags"
      <3>1. AreShown(container[p], p)
        BY <2>1 DEF PagesKind, PagesOfTags, ContainerInv
      <3> QED
        BY <3>1 DEF AreShown
    <2>2. CASE kind # "tags"
      BY <2>2 DEF PagesKind, PagesAtRest, AssignedTags
    <2> QED
      BY <2>1, <2>2
  <1> QED
    BY <1>1, PagesStart, PagesKept, PTL DEF Spec

\* Once its requests are through, the modal shows the tags that are assigned,
\* but for those others dealt with and the three exceptions of ModalIsStored:
\* for any pages, sessions, tags and requests, and whatever markup names have.
THEOREM ModalShowsStored == Spec => []ModalIsStored
  <1>1. PagesKind => ModalIsStored
    <2> SUFFICES ASSUME PagesKind, NEW p \in editing, Quiet(p),
                        NEW n \in TagText \ (disturbed[p] \cup Misread(p))
                 PROVE  /\ n \in SelectedNames(p) => n \in AssignedNames
                        /\ n \in AssignedNames => n \in SelectedNames(p) \cup made[p]
      BY DEF ModalIsStored
    <2>1. kind = "tags"
      BY DEF PagesKind, PagesAtRest
    <2>2. /\ TagTable /\ RowsInv /\ PagesInv /\ PartInv(p, n)
          /\ p \in Page /\ n \in TagText
      BY <2>1 DEF PagesKind, PagesOfTags, TagData, ModalInv, Strange, TagTable,
                  FlowInv
    <2>3. Mine(p, n) = {}
      BY DEF Quiet, Mine
    <2>4. n \in AssignedNames <=> IsAssigned(n)
      BY <2>2, AssignedIs
    <2>5. CASE n \in made[p]
      <3>1. IsAssigned(n)
        BY <2>2, <2>3, <2>5 DEF PartInv, MadeInv, Making
      <3> QED
        BY <2>4, <2>5, <3>1
    <2>6. CASE n \notin made[p]
      <3>1. \A i \in TagId : tagName[i] = n => (i \in items[p] <=> Rows(i) # {})
        BY <2>2, <2>3, <2>6 DEF PartInv, ListedInv
      <3>2. n \in SelectedNames(p) <=> \E i \in items[p] : i \in TagId /\ tagName[i] = n
        <4>1. n \in SelectedNames(p) <=>
                  \E v \in items[p] : n = IF v \in TagText THEN v ELSE tagName[v]
          BY DEF SelectedNames
        <4>2. \A v \in items[p] : IF v \in TagText THEN v \in made[p] ELSE v \in TagId
          BY <2>2, TextIsNoId DEF PagesInv
        <4> QED
          BY <2>6, <4>1, <4>2, TextIsNoId
      <3> QED
        BY <2>4, <3>1, <3>2 DEF IsAssigned
    <2> QED
      BY <2>5, <2>6
  <1> QED
    BY <1>1, PagesStart, PagesKept, PTL DEF Spec

------------------------------------------------------------------------------
(* The second factor: the page that decided last shows the truth.  A page   *)
(* whose user waits has one decision under way, which the handler carries   *)
(* out and then the page shows.                                             *)

Decides(r) == r.op \in {"confirm", "disable"}
Decisions(p) == {r \in requests : r.page = p /\ Decides(r)}
CarriedOut(p) == {r \in Decisions(p) : r.at = "done"}

\* What p shows, once it has heard of the decision that is carried out.
Told(p) ==
    /\ \A r \in CarriedOut(p) : user.is_mfa_enabled <=> r.op = "confirm"
    /\ CarriedOut(p) = {} => mfaPage[p].mfa_enabled = user.is_mfa_enabled

UserRow == [is_mfa_enabled : BOOLEAN, mfa_secret : Nat]

HasRead(r) == \E row \in UserRow : r.seen = {row}

MfaInv ==
    /\ FlowInv
    /\ user \in UserRow
    /\ \A r \in Handling : HasRead(r)
    /\ mfaPage \in [Page -> [mfa_enabled : BOOLEAN, qr : Nat]]
    /\ \A p \in Page \ hasty : \A r, q \in Decisions(p) : r = q
    /\ \A p \in Page \ (unaware \cup hasty) :
           decidedBy = p /\ ~overlapped => Told(p)

Reads(r, seen) == MayStart(r) /\ seen = {user}

\* A request moves on, and with it at most one decision.
LEMMA DecisionMoves ==
    ASSUME MfaInv, NEW r \in requests, NEW at, NEW seen, at # r.at,
           Move(r, at, seen), at = "loaded" => Reads(r, seen),
           UNCHANGED <<mfaPage, hasty>>
    PROVE  /\ FlowInv' /\ unaware' = unaware
           /\ \A q \in Handling' : HasRead(q)
           /\ \A p \in Page \ hasty' : \A s, q \in Decisions(p)' : s = q
           /\ \A p : p # r.page \/ ~Decides(r) => CarriedOut(p)' = CarriedOut(p)
           /\ Decides(r) /\ r.page \notin hasty /\ r.at # "done" =>
                  /\ CarriedOut(r.page) = {}
                  /\ at # "done" => CarriedOut(r.page)' = {}
                  /\ \A q \in CarriedOut(r.page)' : q.op = r.op
                  /\ at = "done" => CarriedOut(r.page)' # {}
  <1>1. FlowInv' /\ unaware' = unaware
    BY FlowMoved DEF MfaInv, Reads
  <1>2. PICK new : /\ requests' = (requests \ {r}) \cup {new}
                   /\ new \notin requests
                   /\ new.id = r.id /\ new.page = r.page /\ new.op = r.op
                   /\ new.arg = r.arg /\ new.at = at /\ new.seen = seen
    BY FlowMoved DEF MfaInv, Reads
  <1>a. \A q \in Handling' : HasRead(q)
    <2>1. \A q \in Handling' : q \in Handling \/ (q = new /\ at = "loaded")
      BY <1>2 DEF Handling, InHandler
    <2> QED
      BY <1>2, <2>1 DEF MfaInv, HasRead, Reads
  <1>3. \A p : Decisions(p)' = IF p = r.page /\ Decides(r)
                               THEN (Decisions(p) \ {r}) \cup {new}
                               ELSE Decisions(p)
    BY <1>2 DEF Decisions, Decides
  <1>4. r.page \in Page
    BY DEF MfaInv, FlowInv, RequestsInv
  <1>5. Decides(r) => r \in Decisions(r.page)
    BY DEF Decisions
  <1>6. \A p \in Page \ hasty' : \A s, q \in Decisions(p)' : s = q
    BY <1>3, <1>5 DEF MfaInv
  <1>7. \A p : p # r.page \/ ~Decides(r) => CarriedOut(p)' = CarriedOut(p)
    BY <1>2, <1>3 DEF CarriedOut
  <1>8. ASSUME Decides(r), r.page \notin hasty, r.at # "done"
        PROVE  /\ CarriedOut(r.page) = {}
               /\ at # "done" => CarriedOut(r.page)' = {}
               /\ \A q \in CarriedOut(r.page)' : q.op = r.op
               /\ at = "done" => CarriedOut(r.page)' # {}
    <2>1. \A q \in Decisions(r.page) : q = r
      BY <1>4, <1>5, <1>8 DEF MfaInv
    <2>2. Decisions(r.page)' = {new}
      BY <1>3, <1>8, <2>1
    <2> QED
      BY <1>2, <1>8, <2>1, <2>2 DEF CarriedOut
  <1> QED
    BY <1>1, <1>a, <1>6, <1>7, <1>8

LEMMA MfaPages ==
    ASSUME MfaInv, NEW p \in Page,
           \/ getMfaCode(p) \/ confirmMfaCode(p) \/ disableMfa(p)
           \/ saveUser(p) \/ openSecurityPage(p)
    PROVE  MfaInv'
  <1>1. CASE openSecurityPage(p)
    <2>1. /\ UNCHANGED <<open, requests, left, user, overlapped, decidedBy>>
          /\ mfaPage' = [mfaPage EXCEPT ![p] =
                            [mfa_enabled |-> user.is_mfa_enabled, qr |-> 0]]
          /\ hasty' = hasty \ {p} /\ unaware' = unaware \ {p}
          /\ Quiet(p)
      BY <1>1 DEF openSecurityPage, Reload
    <2>2. FlowInv' /\ Handling' = Handling
      BY <2>1, FlowRests DEF MfaInv
    <2>a. mfaPage' \in [Page -> [mfa_enabled : BOOLEAN, qr : Nat]]
      BY <2>1 DEF MfaInv, UserRow
    <2>b. \A q \in Page \ (unaware' \cup hasty') :
              q = p \/ (q \notin unaware \cup hasty /\ mfaPage'[q] = mfaPage[q])
      BY <2>1 DEF MfaInv
    <2>c. mfaPage'[p].mfa_enabled = user'.is_mfa_enabled
      BY <2>1 DEF MfaInv
    <2>3. \A q : Decisions(q)' = Decisions(q) /\ CarriedOut(q)' = CarriedOut(q)
      BY <2>1 DEF Decisions, CarriedOut
    <2>4. Decisions(p) = {} /\ CarriedOut(p) = {}
      BY <2>1 DEF Quiet, Of, Decisions, CarriedOut
    <2> QED
      BY <2>1, <2>2, <2>a, <2>b, <2>c, <2>3, <2>4 DEF MfaInv, Told
  <1>2. ASSUME NEW op, NEW arg, Send(p, op, arg),
               UNCHANGED <<user, mfaPage, overlapped, decidedBy>>,
               \/ op \notin {"confirm", "disable"} /\ hasty' = hasty
               \/ hasty' = IF Decisions(p) # {} THEN hasty \cup {p} ELSE hasty
        PROVE  MfaInv'
    <2>1. FlowInv' /\ unaware' = unaware /\ Handling' = Handling
      BY <1>2, FlowSent DEF MfaInv
    <2>2. PICK new : /\ requests' = requests \cup {new}
                     /\ new.page = p /\ new.op = op /\ new.at = "sent"
      BY <1>2, FlowSent DEF MfaInv
    <2>3. \A q : /\ CarriedOut(q)' = CarriedOut(q)
                 /\ Decisions(q)' = IF q = p /\ op \in {"confirm", "disable"}
                                    THEN Decisions(q) \cup {new} ELSE Decisions(q)
      BY <2>2 DEF Decisions, CarriedOut, Decides
    <2>4. \A q \in Page \ hasty' : \A r, s \in Decisions(q)' : r = s
      BY <1>2, <2>3 DEF MfaInv
    <2>5. hasty \subseteq hasty'
      BY <1>2
    <2> QED
      BY <1>2, <2>1, <2>3, <2>4, <2>5 DEF MfaInv, Told
  <1>3. CASE getMfaCode(p)
    BY <1>2, <1>3 DEF getMfaCode, securityVars
  <1>4. CASE saveUser(p)
    BY <1>2, <1>4 DEF saveUser, securityVars
  <1>5. ASSUME NEW op, NEW code, Decide(p, op, code) PROVE MfaInv'
    <2>1. (\E r \in Of(p) : r.op \in {"confirm", "disable"}) <=> Decisions(p) # {}
      BY DEF Of, Decisions, Decides
    <2> QED
      BY <1>2, <1>5, <2>1 DEF Decide
  <1>6. CASE confirmMfaCode(p)
    BY <1>5, <1>6 DEF confirmMfaCode
  <1>7. CASE disableMfa(p)
    BY <1>5, <1>7 DEF disableMfa
  <1> QED
    BY <1>1, <1>3, <1>4, <1>6, <1>7

LEMMA MfaHandlers ==
    ASSUME MfaInv, NEW r \in requests,
           \/ LoadUser(r) \/ ajax_get_mfa_qr_code(r) \/ ajax_confirm_mfa_code(r)
           \/ ajax_disable_mfa(r) \/ WriteOtherColumns(r)
    PROVE  MfaInv'
  <1>0. r.id \in Nat /\ r.page \in Page
    BY DEF MfaInv, FlowInv, RequestsInv
  <1>1. CASE LoadUser(r)
    <2>1. /\ Reads(r, {user}) /\ Move(r, "loaded", {user}) /\ r.at = "sent"
          /\ UNCHANGED securityVars
      BY <1>1 DEF LoadUser, Load, MayStart, Reads
    <2>2. UNCHANGED <<user, mfaPage, overlapped, decidedBy, hasty>>
      BY <2>1 DEF securityVars
    <2>3. /\ FlowInv' /\ unaware' = unaware
          /\ \A q \in Handling' : HasRead(q)
          /\ \A p \in Page \ hasty' : \A s, q \in Decisions(p)' : s = q
          /\ \A p : p # r.page \/ ~Decides(r) => CarriedOut(p)' = CarriedOut(p)
          /\ Decides(r) /\ r.page \notin hasty =>
                 CarriedOut(r.page) = {} /\ CarriedOut(r.page)' = {}
      BY <2>1, <2>2, DecisionMoves
    <2>4. ASSUME NEW p \in Page \ (unaware \cup hasty)
          PROVE  CarriedOut(p)' = CarriedOut(p)
      BY <2>3, <2>4
    <2> QED
      BY <2>2, <2>3, <2>4 DEF MfaInv, Told
  <1>2. ASSUME ~Decides(r), r.at = "loaded", NEW row \in UserRow, WriteUser(r, row, "done"),
               UNCHANGED <<mfaPage, decidedBy, hasty>>,
               ~overlapped' => (row.is_mfa_enabled = user.is_mfa_enabled)
        PROVE  MfaInv'
    <2>1. Move(r, "done", {}) /\ user' = row /\ (~overlapped' => ~overlapped)
      BY <1>2 DEF WriteUser
    <2>2. /\ FlowInv' /\ unaware' = unaware
          /\ \A q \in Handling' : HasRead(q)
          /\ \A p \in Page \ hasty' : \A s, q \in Decisions(p)' : s = q
          /\ \A p : CarriedOut(p)' = CarriedOut(p)
      BY <1>2, <2>1, DecisionMoves
    <2> QED
      BY <1>2, <2>1, <2>2 DEF MfaInv, Told
  <1>3. r.at = "loaded" => RowOf(r) \in UserRow
    <2>1. r.at = "loaded" => \E row \in UserRow : r.seen = {row}
      BY DEF MfaInv, Handling, InHandler, HasRead
    <2> QED
      BY <2>1 DEF RowOf
  <1>4. CASE ajax_get_mfa_qr_code(r)
    <2>1. ~Decides(r) /\ r.at = "loaded"
      BY <1>4 DEF ajax_get_mfa_qr_code, Writing, Decides
    <2> DEFINE row == [RowOf(r) EXCEPT !.mfa_secret = Secret(r)]
    <2>2. /\ WriteUser(r, row, "done") /\ UNCHANGED <<mfaPage, decidedBy, hasty>>
          /\ ~overlapped' => user = RowOf(r)
      BY <1>4 DEF ajax_get_mfa_qr_code, WriteUser
    <2>3. row \in UserRow /\ row.is_mfa_enabled = RowOf(r).is_mfa_enabled
      BY <1>0, <1>3, <2>1 DEF UserRow, Secret
    <2> HIDE DEF row
    <2> QED
      BY <1>2, <2>1, <2>2, <2>3
  <1>5. CASE WriteOtherColumns(r)
    <2>1. ~Decides(r) /\ r.at = "loaded"
      BY <1>5 DEF WriteOtherColumns, Writing, Decides
    <2> DEFINE row == SaveRow(RowOf(r))
    <2>2. /\ WriteUser(r, row, "done") /\ UNCHANGED <<mfaPage, decidedBy, hasty>>
          /\ ~overlapped' => user = RowOf(r)
      BY <1>5 DEF WriteOtherColumns, WriteUser
    <2>3. row \in UserRow /\ row.is_mfa_enabled = RowOf(r).is_mfa_enabled
      BY <1>3, <2>1 DEF UserRow, SaveRow, MfaInv
    <2> HIDE DEF row
    <2> QED
      BY <1>2, <2>1, <2>2, <2>3
  <1>6. ASSUME Decides(r), r.at = "loaded", NEW row \in UserRow, WriteUser(r, row, "done"),
               decidedBy' = r.page, UNCHANGED <<mfaPage, hasty>>,
               ~overlapped' => (row.is_mfa_enabled <=> r.op = "confirm")
        PROVE  MfaInv'
    <2>1. Move(r, "done", {}) /\ user' = row
      BY <1>6 DEF WriteUser
    <2>2. /\ FlowInv' /\ unaware' = unaware
          /\ \A q \in Handling' : HasRead(q)
          /\ \A p \in Page \ hasty' : \A s, q \in Decisions(p)' : s = q
          /\ r.page \notin hasty => /\ \A q \in CarriedOut(r.page)' : q.op = r.op
                                    /\ CarriedOut(r.page)' # {}
      BY <1>6, <2>1, DecisionMoves
    <2>3. ASSUME NEW p \in Page \ (unaware' \cup hasty'), decidedBy' = p, ~overlapped'
          PROVE  Told(p)'
      BY <1>6, <2>1, <2>2, <2>3 DEF Told
    <2> QED
      BY <1>6, <2>1, <2>2, <2>3 DEF MfaInv
  <1>7. CASE ajax_disable_mfa(r)
    <2>1. Decides(r) /\ r.at = "loaded" /\ r.op = "disable"
      BY <1>7 DEF ajax_disable_mfa, Writing, Decides
    <2> DEFINE row == [is_mfa_enabled |-> FALSE, mfa_secret |-> 0]
    <2>2. row \in UserRow /\ ~row.is_mfa_enabled
      BY DEF UserRow
    <2>3. /\ WriteUser(r, row, "done") /\ decidedBy' = r.page
          /\ UNCHANGED <<mfaPage, hasty>>
      BY <1>7 DEF ajax_disable_mfa
    <2> HIDE DEF row
    <2> QED
      BY <1>6, <2>1, <2>2, <2>3
  <1>8. CASE ajax_confirm_mfa_code(r)
    <2>1. Decides(r) /\ r.at = "loaded" /\ r.op = "confirm"
      BY <1>8 DEF ajax_confirm_mfa_code, Writing, Decides
    <2>2. CASE r.arg = RowOf(r).mfa_secret
      <3> DEFINE row == [RowOf(r) EXCEPT !.is_mfa_enabled = TRUE]
      <3>1. /\ WriteUser(r, row, "done") /\ decidedBy' = r.page
            /\ UNCHANGED <<mfaPage, hasty>>
        BY <1>8, <2>2 DEF ajax_confirm_mfa_code
      <3>2. row \in UserRow /\ row.is_mfa_enabled
        BY <1>3, <2>1 DEF UserRow
      <3> HIDE DEF row
      <3> QED
        BY <1>6, <2>1, <3>1, <3>2
    <2>3. CASE r.arg # RowOf(r).mfa_secret
      <3>1. /\ Move(r, "failed", {})
            /\ UNCHANGED <<user, overlapped, decidedBy, mfaPage, hasty>>
        BY <1>8, <2>3 DEF ajax_confirm_mfa_code
      <3>2. /\ FlowInv' /\ unaware' = unaware
            /\ \A q \in Handling' : HasRead(q)
            /\ \A p \in Page \ hasty' : \A s, q \in Decisions(p)' : s = q
            /\ \A p : p # r.page => CarriedOut(p)' = CarriedOut(p)
            /\ r.page \notin hasty =>
                   CarriedOut(r.page) = {} /\ CarriedOut(r.page)' = {}
        BY <2>1, <3>1, DecisionMoves
      <3>3. ASSUME NEW p \in Page \ (unaware \cup hasty)
            PROVE  CarriedOut(p)' = CarriedOut(p)
        BY <3>2, <3>3
      <3> QED
        BY <3>1, <3>2, <3>3 DEF MfaInv, Told
    <2> QED
      BY <2>2, <2>3
  <1> QED
    BY <1>1, <1>4, <1>5, <1>7, <1>8

LEMMA MfaAnswers ==
    ASSUME MfaInv, NEW r \in requests, MfaAnswered(r) \/ MfaLost(r)
    PROVE  MfaInv'
  <1>0. r.id \in Nat /\ r.page \in Page
    BY DEF MfaInv, FlowInv, RequestsInv
  <1>1. /\ FlowInv' /\ requests' = requests \ {r}
        /\ Handling' \subseteq Handling
        /\ UNCHANGED <<user, overlapped, decidedBy, hasty>>
    BY FlowGone DEF MfaInv, MfaAnswered, MfaLost, securityVars
  <1>2. \A p : /\ Decisions(p)' = Decisions(p) \ {r}
               /\ CarriedOut(p)' = CarriedOut(p) \ {r}
    BY <1>1 DEF Decisions, CarriedOut
  <1>3. \A p \in Page \ hasty' : \A s, q \in Decisions(p)' : s = q
    BY <1>1, <1>2 DEF MfaInv
  <1>4. \A p : p # r.page => r \notin CarriedOut(p)
    BY DEF CarriedOut, Decisions
  <1>5. CASE MfaLost(r)
    <2>1. unaware' = unaware \cup {r.page} /\ mfaPage' = mfaPage
      BY <1>5 DEF MfaLost, Lose, securityVars
    <2>2. \A p \in Page \ (unaware' \cup hasty') :
              p \notin unaware \cup hasty /\ CarriedOut(p)' = CarriedOut(p)
      BY <1>1, <1>2, <1>4, <2>1
    <2> QED
      BY <1>1, <1>3, <2>1, <2>2 DEF MfaInv, Told
  <1>6. CASE MfaAnswered(r)
    <2>1. /\ unaware' = unaware
          /\ mfaPage' = IF r.at = "done"
                        THEN [mfaPage EXCEPT ![r.page] = AfterAnswer(r)]
                        ELSE mfaPage
      BY <1>6 DEF MfaAnswered, Answered
    <2>2. mfaPage[r.page] \in [mfa_enabled : BOOLEAN, qr : Nat]
      BY <1>0 DEF MfaInv
    <2>3. /\ AfterAnswer(r) \in [mfa_enabled : BOOLEAN, qr : Nat]
          /\ AfterAnswer(r).mfa_enabled =
                 IF r.op = "confirm" THEN TRUE
                 ELSE IF r.op = "disable" THEN FALSE
                 ELSE mfaPage[r.page].mfa_enabled
      <3>1. CASE r.op = "qr"
        BY <1>0, <2>2, <3>1 DEF AfterAnswer, Secret
      <3>2. CASE r.op = "confirm"
        BY <3>2 DEF AfterAnswer
      <3>3. CASE r.op = "disable"
        BY <2>2, <3>3 DEF AfterAnswer
      <3>4. CASE r.op \notin {"qr", "confirm", "disable"}
        BY <2>2, <3>4 DEF AfterAnswer
      <3> QED
        BY <3>1, <3>2, <3>3, <3>4
    <2>4. mfaPage' \in [Page -> [mfa_enabled : BOOLEAN, qr : Nat]]
      BY <2>1, <2>3 DEF MfaInv
    <2>5. ASSUME NEW p \in Page \ (unaware' \cup hasty'), decidedBy' = p, ~overlapped'
          PROVE  Told(p)'
      <3>1. Told(p) /\ user.is_mfa_enabled \in BOOLEAN
        BY <1>1, <2>1, <2>5 DEF MfaInv, UserRow
      <3>2. CASE p # r.page
        BY <1>1, <1>2, <1>4, <2>1, <3>1, <3>2 DEF Told, MfaInv
      <3>3. CASE p = r.page /\ r \in CarriedOut(p)
        <4>1. CarriedOut(p) = {r} /\ r.at = "done" /\ Decides(r)
          BY <1>1, <2>5, <3>3 DEF MfaInv, CarriedOut, Decisions
        <4>2. user.is_mfa_enabled <=> r.op = "confirm"
          BY <3>1, <4>1 DEF Told
        <4>3. mfaPage'[p].mfa_enabled = (r.op = "confirm")
          BY <1>0, <2>1, <2>3, <3>3, <4>1 DEF MfaInv, Decides
        <4>4. CarriedOut(p)' = {}
          BY <1>2, <4>1
        <4>5. mfaPage'[p].mfa_enabled = user'.is_mfa_enabled
          BY <1>1, <3>1, <4>2, <4>3
        <4> QED
          BY <4>4, <4>5 DEF Told
      <3>4. CASE p = r.page /\ r \notin CarriedOut(p)
        <4>1. r.at = "done" => ~Decides(r)
          BY <3>4 DEF CarriedOut, Decisions
        <4>2. mfaPage'[p].mfa_enabled = mfaPage[p].mfa_enabled
          BY <1>0, <2>1, <2>3, <3>4, <4>1 DEF MfaInv, Decides
        <4>3. CarriedOut(p)' = CarriedOut(p)
          BY <1>2, <3>4
        <4> QED
          BY <1>1, <3>1, <4>2, <4>3 DEF Told
      <3> QED
        BY <3>2, <3>3, <3>4
    <2> QED
      BY <1>1, <1>3, <2>4, <2>5 DEF MfaInv
  <1> QED
    BY <1>5, <1>6

\* Pages of other kinds leave the security pages as they are at first.
MfaAtRest ==
    user.is_mfa_enabled = FALSE /\ \A p \in Page : mfaPage[p].mfa_enabled = FALSE
MfaKind == IF kind = "security" THEN MfaInv ELSE MfaAtRest

LEMMA MfaStarts == Init => MfaKind
  <1> SUFFICES ASSUME Init PROVE MfaKind
    OBVIOUS
  <1>1. FlowInv /\ requests = {} /\ SecurityInit
    BY FlowStarts DEF Init, RequestsInit
  <1>2. \A p : Decisions(p) = {} /\ CarriedOut(p) = {}
    BY <1>1 DEF Decisions, CarriedOut
  <1> QED
    BY <1>1, <1>2 DEF SecurityInit, MfaKind, MfaInv, MfaAtRest, Told, UserRow,
                         Handling

LEMMA MfaKept == MfaKind /\ [Next]_browserVars => MfaKind'
  <1> SUFFICES ASSUME MfaKind, [Next]_browserVars PROVE MfaKind'
    OBVIOUS
  <1>1. UNCHANGED kind
    BY DEF Next, browserVars, NextUpload, NextSecurity, NextTags,
           NextFavourite, NextTimelog, NextPasskeys
  <1>2. CASE NextSecurity
    BY <1>1, <1>2, MfaPages, MfaHandlers, MfaAnswers
       DEF NextSecurity, SecurityNext, MfaKind
  <1>3. CASE kind # "security" /\ UNCHANGED securityVars
    BY <1>1, <1>3 DEF MfaKind, MfaAtRest, securityVars
  <1>4. CASE UNCHANGED browserVars
    <2>1. UNCHANGED <<open, requests, left, unaware>>
          /\ UNCHANGED <<user, mfaPage, overlapped, decidedBy, hasty>>
      BY <1>4 DEF browserVars, requestVars, securityVars
    <2>2. FlowInv => FlowInv' /\ Handling' = Handling
      BY <2>1, FlowRests
    <2>3. \A p : Decisions(p)' = Decisions(p) /\ CarriedOut(p)' = CarriedOut(p)
      BY <2>1 DEF Decisions, CarriedOut
    <2>4. MfaInv => MfaInv'
      BY <2>1, <2>2, <2>3 DEF MfaInv, Told
    <2> QED
      BY <1>1, <2>1, <2>4 DEF MfaKind, MfaAtRest
  <1> QED
    BY <1>2, <1>3, <1>4
       DEF Next, NextUpload, NextTags, NextFavourite, NextTimelog, NextPasskeys

\* The page that decided last about the second factor shows whether it is on:
\* for any pages and sessions and any requests that save the user meanwhile.
THEOREM ShownFactorIsTrue == Spec => []MfaIsAsTold
  <1>1. MfaKind => MfaIsAsTold
    <2> SUFFICES ASSUME MfaKind, NEW p \in Page \ (unaware \cup hasty),
                        Quiet(p), decidedBy = p, ~overlapped
                 PROVE  mfaPage[p].mfa_enabled = user.is_mfa_enabled
      BY DEF MfaIsAsTold
    <2>1. CASE kind = "security"
      <3>1. CarriedOut(p) = {}
        BY DEF Quiet, Of, CarriedOut, Decisions
      <3>2. Told(p)
        BY <2>1 DEF MfaKind, MfaInv
      <3> QED
        BY <3>1, <3>2 DEF Told
    <2>2. CASE kind # "security"
      BY <2>2 DEF MfaKind, MfaAtRest
    <2> QED
      BY <2>1, <2>2
  <1> QED
    BY <1>1, MfaStarts, MfaKept, PTL DEF Spec

------------------------------------------------------------------------------
(* Types.  The invariants above say most of it; what is left are bounds:   *)
(* ids are numbers of requests, a request adds one row at most, and a key  *)
(* counts the requests that were sent with it.                             *)

States == {"sent", "loaded", "done", "failed"}

LEMMA TypesSent ==
    ASSUME RequestsInv, RequestsTypeOK, NEW p \in Page, NEW op, NEW arg,
           Send(p, op, arg)
    PROVE  RequestsTypeOK'
  <1>1. PICK new : /\ requests' = requests \cup {new}
                   /\ new.id = left /\ new.page = p /\ new.at = "sent"
    BY Sent
  <1>2. /\ p \in open /\ UNCHANGED <<open, unaware>>
        /\ left \in Nat /\ left > 0 /\ left' = left - 1
    BY DEF Send, RequestsInv
  <1>3. left' \in 0 .. MaxRequests /\ left \in left' + 1 .. MaxRequests
    BY <1>2, RequestBound DEF RequestsTypeOK
  <1>4. \A n \in left + 1 .. MaxRequests : n \in left' + 1 .. MaxRequests
    BY <1>2
  <1> QED
    BY <1>1, <1>2, <1>3, <1>4 DEF RequestsTypeOK

LEMMA TypesMoved ==
    ASSUME RequestsInv, RequestsTypeOK, NEW r \in requests,
           NEW at \in States, NEW seen, at # r.at, Move(r, at, seen)
    PROVE  RequestsTypeOK'
  <1>1. PICK new : /\ requests' = (requests \ {r}) \cup {new}
                   /\ new.id = r.id /\ new.page = r.page /\ new.at = at
    BY Moved
  <1>2. UNCHANGED <<open, left, unaware>>
    BY DEF Move
  <1> QED
    BY <1>1, <1>2 DEF RequestsTypeOK, States

LEMMA TypesGone ==
    ASSUME RequestsTypeOK, NEW r \in requests, Answered(r) \/ Lose(r)
    PROVE  RequestsTypeOK'
  BY DEF RequestsTypeOK, Answered, Lose

LEMMA TypesReloaded ==
    ASSUME RequestsTypeOK, NEW p, Reload(p)
    PROVE  RequestsTypeOK'
  BY DEF RequestsTypeOK, Reload

LEMMA TypesRest ==
    ASSUME RequestsTypeOK, UNCHANGED requestVars
    PROVE  RequestsTypeOK'
  BY DEF RequestsTypeOK, requestVars

------------------------------------------------------------------------------
LEMMA FavouriteTypes ==
    ASSUME FavouriteInv, RequestsTypeOK, FavouriteTypeOK, FavouriteNext
    PROVE  (RequestsTypeOK /\ FavouriteTypeOK)'
  <1> FlowInv /\ RequestsInv
    BY DEF FavouriteInv, FlowInv
  <1>1. ASSUME NEW p \in Page, openStar(p) \/ clickEvent(p)
        PROVE  (RequestsTypeOK /\ FavouriteTypeOK)'
    <2>1. CASE openStar(p)
      <3>1. RequestsTypeOK'
        BY <2>1, TypesReloaded DEF openStar
      <3>2. (favorites # {}) \in BOOLEAN
        OBVIOUS
      <3> QED
        BY <2>1, <3>1, <3>2 DEF openStar, FavouriteTypeOK
    <2>2. CASE clickEvent(p)
      BY <2>2, TypesSent DEF clickEvent, favouriteVars, FavouriteTypeOK
    <2> QED
      BY <1>1, <2>1, <2>2
  <1>2. ASSUME NEW r \in requests,
               \/ getFavorite(r) \/ ajaxEditFavorites(r) \/ EditFails(r)
               \/ StarAnswered(r) \/ StarLost(r)
        PROVE  (RequestsTypeOK /\ FavouriteTypeOK)'
    <2>0. r.page \in Page /\ r.id \in 1 .. MaxRequests
      BY RequestBound DEF RequestsTypeOK, FlowInv
    <2>1. CASE getFavorite(r)
      <3>1. RequestsTypeOK'
        BY <2>1, TypesMoved DEF getFavorite, Load, MayStart, States
      <3> QED
        BY <2>1, <3>1 DEF getFavorite, favouriteVars, FavouriteTypeOK
    <2>2. CASE ajaxEditFavorites(r)
      <3>1. RequestsTypeOK'
        BY <2>2, TypesMoved DEF ajaxEditFavorites, Writing, States
      <3>2. favorites' \subseteq 1 .. MaxRequests
        BY <2>0, <2>2 DEF ajaxEditFavorites, TurnFavorite, FavouriteTypeOK
      <3>3. raced' \in BOOLEAN
        BY <2>2 DEF ajaxEditFavorites, FavouriteTypeOK
      <3> QED
        BY <2>0, <2>2, <3>1, <3>2, <3>3 DEF ajaxEditFavorites, Flip, FavouriteTypeOK
    <2>3. CASE EditFails(r)
      <3>1. RequestsTypeOK'
        BY <2>3, TypesMoved DEF EditFails, Writing, States
      <3> QED
        BY <2>0, <2>3, <3>1 DEF EditFails, Flip, FavouriteTypeOK
    <2>4. CASE StarAnswered(r)
      <3>1. RequestsTypeOK'
        BY <2>4, TypesGone DEF StarAnswered
      <3> QED
        BY <2>0, <2>4, <3>1 DEF StarAnswered, FavouriteTypeOK
    <2>5. CASE StarLost(r)
      BY <2>5, TypesGone DEF StarLost, favouriteVars, FavouriteTypeOK
    <2> QED
      BY <1>2, <2>1, <2>2, <2>3, <2>4, <2>5
  <1> QED
    BY <1>1, <1>2 DEF FavouriteNext

------------------------------------------------------------------------------
BoundedRow == [is_mfa_enabled : BOOLEAN, mfa_secret : 0 .. MaxRequests]

SecurityTypes ==
    /\ RequestsTypeOK
    /\ SecurityTypeOK
    /\ \A r \in Handling : r.seen \subseteq BoundedRow

\* What a handler has read is a row.
LEMMA RowIsTyped ==
    ASSUME MfaInv, SecurityTypes, NEW r \in requests, r.at = "loaded"
    PROVE  RowOf(r) \in BoundedRow
  <1>1. r \in Handling
    BY DEF Handling, InHandler
  <1>2. PICK row : r.seen = {row}
    BY <1>1 DEF MfaInv, HasRead
  <1>3. RowOf(r) = row
    BY <1>2 DEF RowOf
  <1> QED
    BY <1>1, <1>2, <1>3 DEF SecurityTypes

LEMMA SecurityMoved ==
    ASSUME MfaInv, SecurityTypes, NEW r \in requests,
           NEW at \in States, NEW seen, at # r.at, Move(r, at, seen),
           at = "loaded" => seen \subseteq BoundedRow,
           SecurityTypeOK'
    PROVE  SecurityTypes'
  <1>0. RequestsInv
    BY DEF MfaInv, FlowInv
  <1>1. PICK new : /\ requests' = (requests \ {r}) \cup {new}
                   /\ new.at = at /\ new.seen = seen
    BY <1>0, Moved
  <1>2. RequestsTypeOK'
    BY <1>0, TypesMoved DEF SecurityTypes
  <1>3. \A q \in Handling' : q \in Handling \/ (q = new /\ at = "loaded")
    BY <1>1 DEF Handling, InHandler
  <1> QED
    BY <1>1, <1>2, <1>3 DEF SecurityTypes, BoundedRow

LEMMA SecurityPageTypes ==
    ASSUME MfaInv, SecurityTypes, NEW p \in Page,
           \/ getMfaCode(p) \/ confirmMfaCode(p) \/ disableMfa(p)
           \/ saveUser(p) \/ openSecurityPage(p)
    PROVE  SecurityTypes'
  <1>0. RequestsInv
    BY DEF MfaInv, FlowInv
  <1>1. ASSUME NEW op, NEW arg, Send(p, op, arg), SecurityTypeOK'
        PROVE  SecurityTypes'
    <2>1. RequestsTypeOK'
      BY <1>0, <1>1, TypesSent DEF SecurityTypes
    <2>2. Handling' = Handling
      BY <1>1, FlowSent DEF MfaInv
    <2> QED
      BY <1>1, <2>1, <2>2 DEF SecurityTypes, BoundedRow
  <1>2. CASE getMfaCode(p) \/ saveUser(p)
    BY <1>1, <1>2 DEF getMfaCode, saveUser, securityVars, SecurityTypes,
                      SecurityTypeOK
  <1>3. ASSUME NEW op, NEW arg, Decide(p, op, arg),
               \/ UNCHANGED phone
               \/ phone' = phone \cup {mfaPage[p].qr} /\ mfaPage[p].qr # 0
        PROVE  SecurityTypes'
    <2>1. Send(p, op, arg)
      BY <1>3 DEF Decide
    <2>2. phone' \subseteq 1 .. MaxRequests
      BY <1>3, RequestBound DEF SecurityTypes, SecurityTypeOK
    <2>3. hasty' \subseteq Page
      BY <1>3 DEF Decide, SecurityTypes, SecurityTypeOK
    <2>4. SecurityTypeOK'
      BY <1>3, <2>2, <2>3 DEF Decide, SecurityTypes, SecurityTypeOK
    <2> QED
      BY <1>1, <2>1, <2>4
  <1>4. CASE confirmMfaCode(p)
    <2>1. PICK code : Decide(p, "confirm", code)
      BY <1>4 DEF confirmMfaCode
    <2> QED
      BY <1>3, <1>4, <2>1 DEF confirmMfaCode
  <1>5. CASE disableMfa(p)
    <2>1. Decide(p, "disable", 0) /\ UNCHANGED phone
      BY <1>5 DEF disableMfa
    <2> QED
      BY <1>3, <2>1
  <1>6. CASE openSecurityPage(p)
    <2>1. RequestsTypeOK'
      BY <1>6, TypesReloaded DEF openSecurityPage, SecurityTypes
    <2>2. Handling' = Handling
      BY <1>6 DEF openSecurityPage, Reload, Handling
    <2>3. SecurityTypeOK'
      BY <1>6, RequestBound DEF openSecurityPage, SecurityTypes, SecurityTypeOK
    <2> QED
      BY <2>1, <2>2, <2>3 DEF SecurityTypes, BoundedRow
  <1> QED
    BY <1>2, <1>4, <1>5, <1>6

LEMMA SecurityHandlerTypes ==
    ASSUME MfaInv, SecurityTypes, NEW r \in requests,
           \/ LoadUser(r) \/ ajax_get_mfa_qr_code(r) \/ ajax_confirm_mfa_code(r)
           \/ ajax_disable_mfa(r) \/ WriteOtherColumns(r)
    PROVE  SecurityTypes'
  <1>0. /\ RequestsInv /\ r.page \in Page /\ r.id \in 1 .. MaxRequests
        /\ user \in BoundedRow
    BY RequestBound DEF MfaInv, FlowInv, SecurityTypes, RequestsTypeOK,
                        SecurityTypeOK, BoundedRow
  <1>1. ASSUME NEW row \in BoundedRow, r.at = "loaded", WriteUser(r, row, "done"),
               UNCHANGED <<mfaPage, phone, hasty>>, renewed' \in BOOLEAN,
               decidedBy' \in {decidedBy, r.page}
        PROVE  SecurityTypes'
    <2>1. user' \in BoundedRow /\ overlapped' \in BOOLEAN /\ Move(r, "done", {})
      BY <1>1 DEF WriteUser, SecurityTypes, SecurityTypeOK
    <2>2. SecurityTypeOK'
      BY <1>0, <1>1, <2>1 DEF SecurityTypes, SecurityTypeOK, BoundedRow
    <2> QED
      BY <1>1, <2>1, <2>2, SecurityMoved DEF States
  <1>2. CASE LoadUser(r)
    <2>1. Move(r, "loaded", {user}) /\ r.at = "sent" /\ UNCHANGED securityVars
      BY <1>2 DEF LoadUser, Load, MayStart
    <2>2. SecurityTypeOK'
      BY <2>1 DEF securityVars, SecurityTypes, SecurityTypeOK
    <2> QED
      BY <1>0, <2>1, <2>2, SecurityMoved DEF States
  <1>3. r.at = "loaded" => RowOf(r) \in BoundedRow
    BY RowIsTyped
  <1>4. r.at = "loaded" => SaveRow(RowOf(r)) \in BoundedRow
    BY <1>0, <1>3 DEF SaveRow, BoundedRow
  <1>5. renewed \in BOOLEAN
    BY DEF SecurityTypes, SecurityTypeOK
  <1>6. CASE ajax_get_mfa_qr_code(r)
    <2>1. [RowOf(r) EXCEPT !.mfa_secret = Secret(r)] \in BoundedRow
      BY <1>0, <1>3, <1>6 DEF ajax_get_mfa_qr_code, Writing, BoundedRow, Secret
    <2>2. (renewed \/ user.is_mfa_enabled \/ RowOf(r).is_mfa_enabled) \in BOOLEAN
      OBVIOUS
    <2> QED
      BY <1>1, <1>6, <2>1, <2>2 DEF ajax_get_mfa_qr_code, Writing
  <1>7. CASE ajax_confirm_mfa_code(r)
    <2>1. CASE r.arg = RowOf(r).mfa_secret
      <3>1. [RowOf(r) EXCEPT !.is_mfa_enabled = TRUE] \in BoundedRow
        BY <1>3, <1>7 DEF ajax_confirm_mfa_code, Writing, BoundedRow
      <3> QED
        BY <1>1, <1>5, <1>7, <2>1, <3>1 DEF ajax_confirm_mfa_code, Writing
    <2>2. CASE r.arg # RowOf(r).mfa_secret
      <3>1. /\ Move(r, "failed", {}) /\ r.at = "loaded"
            /\ UNCHANGED <<user, overlapped, decidedBy, mfaPage, phone, renewed, hasty>>
        BY <1>7, <2>2 DEF ajax_confirm_mfa_code, Writing
      <3>2. SecurityTypeOK'
        BY <3>1 DEF SecurityTypes, SecurityTypeOK
      <3> QED
        BY <3>1, <3>2, SecurityMoved DEF States
    <2> QED
      BY <2>1, <2>2
  <1>8. CASE ajax_disable_mfa(r)
    <2>1. [is_mfa_enabled |-> FALSE, mfa_secret |-> 0] \in BoundedRow
      BY RequestBound DEF BoundedRow
    <2> QED
      BY <1>1, <1>5, <1>8, <2>1 DEF ajax_disable_mfa, Writing
  <1>9. CASE WriteOtherColumns(r)
    BY <1>1, <1>4, <1>5, <1>9 DEF WriteOtherColumns, Writing
  <1> QED
    BY <1>2, <1>6, <1>7, <1>8, <1>9

LEMMA SecurityAnswerTypes ==
    ASSUME MfaInv, SecurityTypes, NEW r \in requests, MfaAnswered(r) \/ MfaLost(r)
    PROVE  SecurityTypes'
  <1>0. r.page \in Page /\ r.id \in 1 .. MaxRequests
    BY RequestBound DEF MfaInv, FlowInv, SecurityTypes, RequestsTypeOK
  <1>1. RequestsTypeOK'
    BY TypesGone DEF MfaAnswered, MfaLost, SecurityTypes
  <1>2. Handling' \subseteq Handling
    BY DEF MfaAnswered, MfaLost, Answered, Lose, Handling
  <1>3. SecurityTypeOK'
    <2>1. CASE MfaAnswered(r)
      <3> DEFINE Shown == [mfa_enabled : BOOLEAN, qr : 0 .. MaxRequests]
      <3>1. mfaPage[r.page] \in Shown /\ mfaPage \in [Page -> Shown]
        BY <1>0 DEF SecurityTypes, SecurityTypeOK
      <3>2. AfterAnswer(r) \in Shown
        <4>1. \A m \in 0 .. MaxRequests :
                  /\ [mfaPage[r.page] EXCEPT !.qr = m] \in Shown
                  /\ [mfa_enabled |-> TRUE, qr |-> m] \in Shown
          BY <3>1
        <4>2. [mfaPage[r.page] EXCEPT !.mfa_enabled = FALSE] \in Shown
          BY <3>1
        <4>3. r.id \in 0 .. MaxRequests /\ 0 \in 0 .. MaxRequests
          BY <1>0, RequestBound
        <4> QED
          BY <3>1, <4>1, <4>2, <4>3 DEF AfterAnswer, Secret
      <3>3. mfaPage' \in [Page -> Shown]
        BY <1>0, <2>1, <3>1, <3>2 DEF MfaAnswered
      <3> QED
        BY <2>1, <3>3 DEF MfaAnswered, SecurityTypes, SecurityTypeOK
    <2>2. CASE MfaLost(r)
      BY <2>2 DEF MfaLost, securityVars, SecurityTypes, SecurityTypeOK
    <2> QED
      BY <2>1, <2>2
  <1> QED
    BY <1>1, <1>2, <1>3 DEF SecurityTypes, BoundedRow

------------------------------------------------------------------------------
BoundedLog == [id : 1 .. MaxRequests, byTimer : BOOLEAN, is_deleted : BOOLEAN]

\* A request that may insert a timelog has not done so yet.
TimelogTypes ==
    /\ RequestsTypeOK
    /\ TimelogTypeOK
    /\ \A r \in Handling : r.seen \subseteq BoundedLog
    /\ \A l \in timelogs : l.id > left
    /\ \A r \in requests, l \in timelogs : Due(r) => l.id # r.id

\* What a handler has read is a row.
LEMMA LogIsTyped ==
    ASSUME TimelogTypes, NEW r \in requests, r.at = "loaded", r.seen # {}
    PROVE  RowRead(r) \in BoundedLog
  <1>1. r.seen \subseteq BoundedLog
    BY DEF TimelogTypes, TimelogTypeOK, BoundedLog, Handling, InHandler
  <1> QED
    BY <1>1 DEF RowRead

\* A request moves on, and its handler may write rows, none of them new.
LEMMA TimelogMoved ==
    ASSUME FlowInv, TimelogTypes, NEW r \in requests,
           NEW at \in States \ {"sent"}, NEW seen, at # r.at,
           Move(r, at, seen),
           at = "loaded" => r.at = "sent" /\ seen \subseteq BoundedLog,
           TimelogTypeOK',
           \A l \in timelogs' : \/ l.id \in {k.id : k \in timelogs}
                                \/ l.id = r.id /\ at # "loaded" /\ Due(r)
    PROVE  TimelogTypes'
  <1>0. RequestsInv
    BY DEF FlowInv
  <1>1. PICK new : /\ requests' = (requests \ {r}) \cup {new}
                   /\ new.id = r.id /\ new.at = at /\ new.seen = seen
    BY <1>0, Moved
  <1>2. RequestsTypeOK' /\ left' = left
    BY <1>0, TypesMoved DEF TimelogTypes, Move
  <1>3. \A q \in Handling' : q \in Handling \/ (q = new /\ at = "loaded")
    BY <1>1 DEF Handling, InHandler
  <1>4. \A q \in Handling' : q.seen \subseteq BoundedLog
    BY <1>1, <1>3 DEF TimelogTypes, TimelogTypeOK, BoundedLog
  <1>5. \A q \in requests' : Due(q) =>
            \/ q \in requests /\ q # r
            \/ q = new /\ at = "loaded" /\ Due(r)
    BY <1>1 DEF Due, States
  <1>6. \A q \in requests : q # r => q.id # r.id
    BY <1>0 DEF RequestsInv
  <1>7. \A q \in requests', l \in timelogs' : Due(q) => l.id # q.id
    BY <1>1, <1>5, <1>6 DEF TimelogTypes
  <1>8. \A l \in timelogs' : l.id > left'
    BY <1>0, <1>2 DEF TimelogTypes, RequestsInv
  <1> QED
    BY <1>2, <1>4, <1>7, <1>8 DEF TimelogTypes, BoundedLog

LEMMA TimelogPageTypes ==
    ASSUME FlowInv, TimelogTypes, NEW p \in Page,
           \/ openTimelogPage(p) \/ timelog_startTimer(p) \/ clickStop(p)
           \/ submitForm(p)
    PROVE  TimelogTypes'
  <1>0. RequestsInv
    BY DEF FlowInv
  <1>1. CASE openTimelogPage(p)
    <2>1. RequestsTypeOK'
      BY <1>1, TypesReloaded DEF openTimelogPage, TimelogTypes
    <2>2. UNCHANGED <<requests, left, timelogs, changedBy, strayed>>
      BY <1>1 DEF openTimelogPage, Reload
    <2>3. (getActiveTimeLogForUser # {}) \in BOOLEAN
      OBVIOUS
    <2>4. TimelogTypeOK'
      BY <1>1, <2>2, <2>3 DEF openTimelogPage, TimelogTypes, TimelogTypeOK
    <2> QED
      BY <2>1, <2>2, <2>4 DEF TimelogTypes, Handling, InHandler, BoundedLog, Due
  <1>2. ASSUME NEW op, NEW arg, Send(p, op, arg),
               UNCHANGED <<timelogs, widget, strayed, changedBy>>,
               astray' \subseteq Page
        PROVE  TimelogTypes'
    <2>1. RequestsTypeOK'
      BY <1>0, <1>2, TypesSent DEF TimelogTypes
    <2>2. PICK new : requests' = requests \cup {new} /\ new.id = left
      BY <1>2, FlowSent
    <2>3. Handling' = Handling /\ left \in Nat /\ left' = left - 1
      BY <1>0, <1>2, FlowSent DEF RequestsInv
    <2>4. TimelogTypeOK'
      BY <1>2 DEF TimelogTypes, TimelogTypeOK
    <2>5. \A l \in timelogs : l.id \in Int /\ l.id > left
      BY DEF TimelogTypes, TimelogTypeOK
    <2>6. \A l \in timelogs' : l.id > left'
      BY <1>2, <2>3, <2>5
    <2>7. \A r \in requests', l \in timelogs' : Due(r) => l.id # r.id
      BY <1>2, <2>2, <2>3, <2>5 DEF TimelogTypes
    <2> QED
      BY <1>2, <2>1, <2>3, <2>4, <2>6, <2>7 DEF TimelogTypes, BoundedLog
  <1>3. ASSUME NEW op, Click(p, op) PROVE TimelogTypes'
    <2>1. astray' \subseteq Page
      BY <1>3 DEF Click, TimelogTypes, TimelogTypeOK
    <2> QED
      BY <1>2, <1>3, <2>1 DEF Click
  <1>4. CASE submitForm(p)
    <2>1. astray' \subseteq Page /\ UNCHANGED <<timelogs, widget, strayed, changedBy>>
      BY <1>4 DEF submitForm, timelogVars, TimelogTypes, TimelogTypeOK
    <2> QED
      BY <1>2, <1>4, <2>1 DEF submitForm
  <1> QED
    BY <1>1, <1>3, <1>4 DEF timelog_startTimer, clickStop

LEMMA TimelogHandlerTypes ==
    ASSUME FlowInv, TimelogTypes, NEW r \in requests,
           \/ hasActiveLog(r) \/ Start(r) \/ getActive(r) \/ Stop(r)
           \/ getTimelog(r) \/ edit_POST(r) \/ delete_GET(r)
           \/ TimelogFails(r)
    PROVE  TimelogTypes'
  <1>0. /\ RequestsInv /\ r.page \in Page /\ r.id \in 1 .. MaxRequests
        /\ timelogs \subseteq BoundedLog /\ TimelogTypeOK
    BY RequestBound DEF FlowInv, TimelogTypes, RequestsTypeOK, TimelogTypeOK,
                        BoundedLog
  <1>1. ASSUME NEW at \in {"loaded", "failed", "done"}, NEW seen, Move(r, at, seen),
               at # r.at, at = "loaded" => r.at = "sent" /\ seen \subseteq BoundedLog,
               UNCHANGED <<timelogs, widget, strayed>>,
               changedBy' \in {changedBy, r.page}, astray' \subseteq Page
        PROVE  TimelogTypes'
    <2>1. TimelogTypeOK'
      BY <1>0, <1>1 DEF TimelogTypeOK
    <2> QED
      BY <1>1, <2>1, TimelogMoved DEF States
  <1>2. CASE hasActiveLog(r)
    BY <1>0, <1>1, <1>2 DEF hasActiveLog, MayStart, timelogVars, TimelogTypeOK
  <1>3. CASE getTimelog(r)
    BY <1>0, <1>1, <1>3 DEF getTimelog, Load, MayStart, timelogVars, TimelogTypeOK
  <1>4. CASE getActive(r)
    <2>1. /\ r.at = "sent" /\ astray' \subseteq Page
          /\ UNCHANGED <<timelogs, widget, strayed>>
      BY <1>0, <1>4 DEF getActive, MayStart, TimelogTypeOK
    <2>2. CASE getActiveTimeLogForUser = {}
      BY <1>1, <1>4, <2>1, <2>2 DEF getActive
    <2>3. CASE getActiveTimeLogForUser # {}
      <3>1. PICK l \in getActiveTimeLogForUser : Move(r, "loaded", {l})
        BY <1>4, <2>3 DEF getActive
      <3>2. {l} \subseteq BoundedLog
        BY <1>0 DEF getActiveTimeLogForUser
      <3> QED
        BY <1>1, <1>4, <2>1, <2>3, <3>1, <3>2 DEF getActive
    <2> QED
      BY <2>2, <2>3
  <1>5. CASE TimelogFails(r)
    <2>1. astray' \subseteq Page
      BY <1>0, <1>5 DEF TimelogFails, TimelogTypeOK
    <2> QED
      BY <1>1, <1>5, <2>1 DEF TimelogFails
  <1>6. ASSUME Changed(r), Move(r, "done", {}), r.at = "loaded",
               UNCHANGED <<widget, astray>>, timelogs' \subseteq BoundedLog,
               \A l, m \in timelogs' : l.id = m.id => l = m,
               \A l \in timelogs' : l.id \in {k.id : k \in timelogs} \/ l.id = r.id
        PROVE  TimelogTypes'
    <2>1. changedBy' \in Page /\ strayed' \in BOOLEAN
      BY <1>0, <1>6 DEF Changed
    <2>2. TimelogTypeOK'
      BY <1>0, <1>6, <2>1 DEF TimelogTypeOK, BoundedLog
    <2> QED
      BY <1>6, <2>2, TimelogMoved DEF States, Due
  <1>7. ASSUME NEW byTimer \in BOOLEAN, Insert(r, byTimer), r.at = "loaded"
        PROVE  TimelogTypes'
    <2> DEFINE new == [id |-> r.id, byTimer |-> byTimer, is_deleted |-> FALSE]
    <2>1. timelogs' = timelogs \cup {new} /\ new \in BoundedLog /\ new.id = r.id
      BY <1>0, <1>7 DEF Insert, BoundedLog
    <2>2. \A l \in timelogs : l.id # r.id
      BY <1>7 DEF TimelogTypes, Due
    <2> HIDE DEF new
    <2>3. \A l, m \in timelogs' : l.id = m.id => l = m
      BY <1>0, <2>1, <2>2 DEF TimelogTypeOK
    <2> QED
      BY <1>0, <1>6, <1>7, <2>1, <2>3 DEF Insert
  <1>8. ASSUME NEW rows \in SUBSET BoundedLog, Update(r, rows), r.at = "loaded",
               \A l, m \in rows : l.id = m.id => l = m,
               \A l \in rows : l.id \in {k.id : k \in timelogs}
        PROVE  TimelogTypes'
    BY <1>6, <1>8 DEF Update
  <1>9. /\ Ended(r) \subseteq BoundedLog
        /\ \A l, m \in Ended(r) : l.id = m.id => l = m
        /\ \A l \in Ended(r) : l.id \in {k.id : k \in timelogs}
    BY <1>0 DEF Ended, TimelogTypeOK
  <1>10. ASSUME NEW new \in BoundedLog
         PROVE  /\ Written(new) \subseteq BoundedLog
                /\ \A l, m \in Written(new) : l.id = m.id => l = m
                /\ \A l \in Written(new) : l.id \in {k.id : k \in timelogs}
    <2>1. \A l \in Written(new) : \E k \in timelogs :
              k.id = l.id /\ l = IF k.id = new.id THEN new ELSE k
      BY DEF Written
    <2>2. \A l \in Written(new) : l.id = new.id => l = new
      BY <2>1
    <2>3. \A l \in Written(new) : l.id # new.id => l \in timelogs
      BY <2>1
    <2>4. \A l, m \in Written(new) : l.id = m.id => l = m
      BY <1>0, <2>2, <2>3 DEF TimelogTypeOK
    <2> QED
      BY <1>0, <2>1, <2>4
  <1>11. CASE Start(r)
    BY <1>7, <1>11 DEF Start, Writing
  <1>12. CASE Stop(r)
    BY <1>8, <1>9, <1>12 DEF Stop, Writing
  <1>13. ASSUME r.at = "loaded", r.seen # {}
         PROVE  /\ RowRead(r) \in BoundedLog
                /\ [RowRead(r) EXCEPT !.is_deleted = TRUE] \in BoundedLog
    <2>1. RowRead(r) \in BoundedLog
      BY <1>13, LogIsTyped
    <2> QED
      BY <2>1 DEF BoundedLog
  <1>14. /\ \A l, m \in timelogs : l.id = m.id => l = m
         /\ \A l \in timelogs : l.id \in {k.id : k \in timelogs}
    BY <1>0 DEF TimelogTypeOK
  <1>15. CASE edit_POST(r)
    <2>1. r.at = "loaded"
      BY <1>15 DEF edit_POST, Writing
    <2>2. CASE r.arg.id = 0
      BY <1>7, <1>15, <2>1, <2>2 DEF edit_POST
    <2>3. CASE r.arg.id # 0 /\ r.seen = {}
      BY <1>0, <1>8, <1>14, <1>15, <2>1, <2>3 DEF edit_POST
    <2>4. CASE r.arg.id # 0 /\ r.seen # {} /\ r.arg.what = "end"
      BY <1>8, <1>9, <1>15, <2>1, <2>4 DEF edit_POST
    <2>5. CASE r.arg.id # 0 /\ r.seen # {} /\ r.arg.what # "end"
      <3>1. Update(r, Written(RowRead(r)))
        BY <1>15, <2>5 DEF edit_POST
      <3> QED
        BY <1>8, <1>10, <1>13, <2>1, <2>5, <3>1
    <2> QED
      BY <2>2, <2>3, <2>4, <2>5
  <1>16. CASE delete_GET(r)
    <2>1. r.at = "loaded"
      BY <1>16 DEF delete_GET, Writing
    <2>2. CASE r.seen = {}
      BY <1>0, <1>8, <1>14, <1>16, <2>1, <2>2 DEF delete_GET
    <2>3. CASE r.seen # {}
      <3>1. Update(r, Written([RowRead(r) EXCEPT !.is_deleted = TRUE]))
        BY <1>16, <2>3 DEF delete_GET
      <3> QED
        BY <1>8, <1>10, <1>13, <2>1, <2>3, <3>1
    <2> QED
      BY <2>2, <2>3
  <1> QED
    BY <1>2, <1>3, <1>4, <1>5, <1>11, <1>12, <1>15, <1>16

LEMMA TimelogAnswerTypes ==
    ASSUME WidgetInv, TimelogTypes, NEW r \in requests,
           TimelogAnswered(r) \/ TimelogLost(r)
    PROVE  TimelogTypes'
  <1>0. r.page \in Page /\ r.op \in {"start", "stop", "form"}
    BY DEF WidgetInv, FlowInv, RequestsInv
  <1>1. RequestsTypeOK'
    BY TypesGone DEF TimelogAnswered, TimelogLost, TimelogTypes
  <1>2. requests' = requests \ {r} /\ left' = left
    BY DEF TimelogAnswered, TimelogLost, Answered, Lose
  <1>3. UNCHANGED <<timelogs, strayed, changedBy, astray>>
    BY DEF TimelogAnswered, TimelogLost, timelogVars
  <1>4. widget' \in [Page -> BOOLEAN]
    <2>1. CASE TimelogAnswered(r)
      <3> DEFINE told == CASE r.op = "start" -> widget[r.page] \/ r.at = "done"
                           [] r.op = "stop"  -> FALSE
                           [] r.op = "form"  -> getActiveTimeLogForUser # {}
      <3>1. widget' = [widget EXCEPT ![r.page] = told]
        BY <2>1 DEF TimelogAnswered
      <3>2. (widget[r.page] \/ r.at = "done") \in BOOLEAN
            /\ (getActiveTimeLogForUser # {}) \in BOOLEAN
        OBVIOUS
      <3>3. told \in BOOLEAN
        BY <1>0, <3>2
      <3> QED
        BY <3>1, <3>3 DEF TimelogTypes, TimelogTypeOK
    <2>2. CASE TimelogLost(r)
      BY <2>2 DEF TimelogLost, timelogVars, TimelogTypes, TimelogTypeOK
    <2> QED
      BY <2>1, <2>2
  <1>5. TimelogTypeOK'
    BY <1>3, <1>4 DEF TimelogTypes, TimelogTypeOK
  <1>6. Handling' \subseteq Handling
    BY <1>2 DEF Handling, InHandler
  <1> QED
    BY <1>1, <1>2, <1>3, <1>5, <1>6 DEF TimelogTypes, BoundedLog

------------------------------------------------------------------------------
\* A request that is due, or may still be sent, inserts one row at most.
DueNow == {r \in requests : Due(r)}

RowsLeft ==
    /\ RequestsTypeOK
    /\ assignRow + Cardinality(DueNow) + left <= MaxTagId + MaxRequests

LEMMA DueIsFinite ==
    ASSUME FlowInv
    PROVE  IsFiniteSet(DueNow) /\ Cardinality(DueNow) \in Nat
  BY FS_Subset, FS_CardinalityType DEF FlowInv, DueNow

LEMMA TagTypesFollow ==
    ASSUME TagData, RowsLeft, bound \subseteq Page
    PROVE  TagTypeOK
  <1>1. FlowInv /\ Cardinality(DueNow) \in Nat /\ left \in Nat /\ assignRow \in Nat
    BY DueIsFinite DEF TagData, TagTable, FlowInv, RequestsInv, RowsInv
  <1>2. assignRow <= MaxTagId + 2 * MaxRequests
    BY <1>1, RequestBound, TagConstants DEF RowsLeft
  <1>3. assignRow \in 0 .. MaxTagId + 2 * MaxRequests
    BY <1>1, <1>2, RequestBound, TagConstants
  <1>4. \A w \in assigned : w \in [row : 1 .. assignRow, tag : TagId]
    <2> SUFFICES ASSUME NEW w \in assigned
                 PROVE  w \in [row : 1 .. assignRow, tag : TagId]
      OBVIOUS
    <2>1. w \in [row : Nat, tag : TagId] /\ w.row > 0 /\ w.row <= assignRow
      BY DEF TagData, RowsInv
    <2>2. w.row \in 1 .. assignRow
      BY <1>1, <2>1
    <2> QED
      BY <2>1, <2>2
  <1>5. editing \subseteq Page
    BY <1>1 DEF TagData, TagTable, FlowInv
  <1> QED
    BY <1>3, <1>4, <1>5 DEF TagTypeOK, TagData, TagTable, PagesInv

\* One more request is due, and one fewer may be sent.
LEMMA RowsLeftSent ==
    ASSUME FlowInv, assignRow \in Nat, RowsLeft, NEW p \in Page, NEW op, NEW arg,
           Send(p, op, arg), UNCHANGED assignRow
    PROVE  RowsLeft'
  <1>1. PICK new : requests' = requests \cup {new} /\ new.id = left /\ new.at = "sent"
    BY FlowSent
  <1>2. left \in Nat /\ left > 0 /\ left' = left - 1
    BY FlowSent DEF FlowInv, RequestsInv
  <1>3. DueNow' = DueNow \cup {new}
    BY <1>1 DEF DueNow, Due
  <1>4. /\ Cardinality(DueNow) \in Nat /\ Cardinality(DueNow') \in Nat
        /\ Cardinality(DueNow') <= Cardinality(DueNow) + 1
    <2>1. IsFiniteSet(DueNow) /\ Cardinality(DueNow) \in Nat
      BY DueIsFinite
    <2> DEFINE D == DueNow \cup {new}
    <2>2. Cardinality(D) = IF new \in DueNow THEN Cardinality(DueNow)
                           ELSE Cardinality(DueNow) + 1
      BY <2>1, FS_AddElement
    <2> HIDE DEF D
    <2>3. Cardinality(D) \in Nat /\ Cardinality(D) <= Cardinality(DueNow) + 1
      BY <2>1, <2>2
    <2> QED
      BY <1>3, <2>1, <2>3 DEF D
  <1>5. RequestsTypeOK'
    BY TypesSent DEF FlowInv, RowsLeft
  <1>6. assignRow' + Cardinality(DueNow') + left' <= MaxTagId + MaxRequests
    BY <1>2, <1>4, RequestBound, TagConstants DEF RowsLeft
  <1> QED
    BY <1>5, <1>6 DEF RowsLeft

\* A request leaves those that are due, and may insert a row.
LEMMA RowsLeftDone ==
    ASSUME FlowInv, assignRow \in Nat, RowsLeft, NEW r \in requests,
           Due(r), NEW seen, Move(r, "done", seen),
           assignRow' \in {assignRow, assignRow + 1}
    PROVE  RowsLeft'
  <1>1. Move(r, "done", seen)
    OBVIOUS
  <1>2. "done" # r.at /\ RequestsInv
    BY DEF Due, FlowInv
  <1>3. PICK new : requests' = (requests \ {r}) \cup {new} /\ new.at = "done"
    BY <1>1, <1>2, Moved
  <1>4. r \in DueNow /\ DueNow' = DueNow \ {r}
    BY <1>3 DEF DueNow, Due
  <1>5. /\ Cardinality(DueNow) \in Nat /\ Cardinality(DueNow') \in Nat
        /\ Cardinality(DueNow') = Cardinality(DueNow) - 1
    BY <1>4, DueIsFinite, FS_RemoveElement, FS_CardinalityType
  <1>6. RequestsTypeOK' /\ left' = left /\ left \in Nat
    BY <1>1, <1>2, TypesMoved DEF RowsLeft, States, Move, RequestsInv
  <1>7. assignRow' + Cardinality(DueNow') + left' <= MaxTagId + MaxRequests
    BY <1>5, <1>6, RequestBound, TagConstants DEF RowsLeft
  <1> QED
    BY <1>6, <1>7 DEF RowsLeft

\* A handler begins, or goes on to its second look.
LEMMA RowsLeftStay ==
    ASSUME FlowInv, FlowInv', assignRow \in Nat, RowsLeft, RequestsTypeOK',
           UNCHANGED <<assignRow, left>>,
           \/ DueNow' \subseteq DueNow
           \/ \E r \in DueNow : \E new : DueNow' = (DueNow \ {r}) \cup {new}
    PROVE  RowsLeft'
  <1>1. /\ IsFiniteSet(DueNow) /\ Cardinality(DueNow) \in Nat
        /\ Cardinality(DueNow') \in Nat
    <2>1. IsFiniteSet(DueNow')
      BY FS_Subset DEF FlowInv, DueNow
    <2> QED
      BY <2>1, DueIsFinite, FS_CardinalityType
  <1>2. Cardinality(DueNow') <= Cardinality(DueNow)
    <2>1. CASE DueNow' \subseteq DueNow
      BY <1>1, <2>1, FS_Subset
    <2>2. ASSUME NEW r \in DueNow, NEW new, DueNow' = (DueNow \ {r}) \cup {new}
          PROVE  Cardinality(DueNow') <= Cardinality(DueNow)
      <3>1. /\ IsFiniteSet(DueNow \ {r})
            /\ Cardinality(DueNow \ {r}) = Cardinality(DueNow) - 1
        BY <1>1, FS_RemoveElement
      <3>2. \/ Cardinality(DueNow') = Cardinality(DueNow \ {r})
            \/ Cardinality(DueNow') = Cardinality(DueNow \ {r}) + 1
        BY <2>2, <3>1, FS_AddElement
      <3> QED
        BY <1>1, <3>1, <3>2
    <2> QED
      BY <2>1, <2>2
  <1>3. left \in Nat
    BY DEF FlowInv, RequestsInv
  <1>4. assignRow' + Cardinality(DueNow') + left' <= MaxTagId + MaxRequests
    BY <1>1, <1>2, <1>3, RequestBound, TagConstants DEF RowsLeft
  <1> QED
    BY <1>4 DEF RowsLeft

LEMMA RowsLeftPair ==
    ASSUME FlowInv, assignRow \in Nat, RowsLeft, NEW p \in Page, NEW op1, NEW v1,
           NEW op2, NEW v2, SendBoth(p, op1, v1, op2, v2), UNCHANGED assignRow
    PROVE  RowsLeft'
  <1>0. RequestsInv /\ left \in Nat
    BY DEF FlowInv, RequestsInv
  <1> DEFINE one == Request(left, p, op1, v1)
             two == Request(left - 1, p, op2, v2)
  <1>1. /\ requests' = requests \cup {one, two}
        /\ one.id = left /\ one.page = p /\ one.at = "sent"
        /\ two.id = left - 1 /\ two.page = p /\ two.at = "sent"
    BY DEF SendBoth, Request
  <1> HIDE DEF one, two
  <1>2. p \in open /\ left >= 2 /\ left' = left - 2 /\ UNCHANGED <<open, unaware>>
    BY DEF SendBoth
  <1>3. RequestsTypeOK'
    <2>1. left \in 0 .. MaxRequests /\ unaware \subseteq open
          /\ \A r \in requests : /\ r.id \in left + 1 .. MaxRequests
                                 /\ r.page \in open /\ r.at \in States
      BY DEF RowsLeft, RequestsTypeOK, States
    <2>2. /\ left' \in 0 .. MaxRequests
          /\ left \in left' + 1 .. MaxRequests
          /\ left - 1 \in left' + 1 .. MaxRequests
          /\ \A n \in left + 1 .. MaxRequests : n \in left' + 1 .. MaxRequests
      BY <1>0, <1>2, <2>1, RequestBound
    <2>3. open' \subseteq Page
      BY <1>2 DEF FlowInv
    <2> QED
      BY <1>1, <1>2, <2>1, <2>2, <2>3 DEF RequestsTypeOK, States
  <1>4. DueNow' = DueNow \cup {one} \cup {two}
    BY <1>1 DEF DueNow, Due
  <1>5. /\ Cardinality(DueNow) \in Nat /\ Cardinality(DueNow') \in Nat
        /\ Cardinality(DueNow') <= Cardinality(DueNow) + 2
    <2>1. IsFiniteSet(DueNow) /\ Cardinality(DueNow) \in Nat
      BY DueIsFinite
    <2>2. /\ IsFiniteSet(DueNow \cup {one})
          /\ \/ Cardinality(DueNow \cup {one}) = Cardinality(DueNow)
             \/ Cardinality(DueNow \cup {one}) = Cardinality(DueNow) + 1
      BY <2>1, FS_AddElement
    <2>3. \/ Cardinality(DueNow') = Cardinality(DueNow \cup {one})
          \/ Cardinality(DueNow') = Cardinality(DueNow \cup {one}) + 1
      BY <1>4, <2>2, FS_AddElement
    <2> QED
      BY <2>1, <2>2, <2>3
  <1>6. assignRow' + Cardinality(DueNow') + left' <= MaxTagId + MaxRequests
    BY <1>0, <1>2, <1>5, RequestBound, TagConstants DEF RowsLeft
  <1> QED
    BY <1>3, <1>6 DEF RowsLeft

LEMMA RowsLeftOnPages ==
    ASSUME TagTable, FlowInv', assignRow \in Nat, RowsLeft, NEW p \in Page,
           \/ openTags(p) \/ onItemAdd(p) \/ onItemRemove(p)
           \/ onItemCreate(p) \/ closeTags(p)
    PROVE  RowsLeft'
  <1>0. FlowInv
    BY DEF TagTable
  <1>1. CASE openTags(p)
    <2>1. RequestsTypeOK'
      BY <1>1, TypesRest DEF openTags, RowsLeft
    <2>2. UNCHANGED <<requests, left, assignRow>>
      BY <1>1, TagOpened
    <2> QED
      BY <2>1, <2>2 DEF RowsLeft, DueNow, Due
  <1>2. ASSUME ~openTags(p) PROVE UNCHANGED assignRow
    BY <1>2 DEF onItemAdd, onItemRemove, onItemCreate, closeTags
  <1>3. ASSUME ~openTags(p)
        PROVE  \/ \E op, v : Send(p, op, v)
               \/ \E op1, v1, op2, v2 : SendBoth(p, op1, v1, op2, v2)
    BY <1>3 DEF onItemAdd, onItemRemove, onItemCreate, closeTags
  <1> QED
    BY <1>0, <1>1, <1>2, <1>3, RowsLeftSent, RowsLeftPair

LEMMA RowsLeftForRequests ==
    ASSUME TagTable, FlowInv', assignRow \in Nat, RowsLeft, NEW r \in requests,
           \/ LookUpAssign(r) \/ ajaxAddTag(r) \/ ajaxRemoveTag(r)
           \/ LookUpTag(r) \/ NameTag(r) \/ ajaxCreateTag(r)
           \/ ajaxGetTags(r) \/ TagAnswered(r) \/ TagLost(r)
    PROVE  RowsLeft'
  <1>0. FlowInv /\ RequestsInv /\ left \in Nat
    BY DEF TagTable, FlowInv, RequestsInv
  <1>1. ASSUME NEW seen, Move(r, "loaded", seen), r.at = "sent", UNCHANGED assignRow
        PROVE  RowsLeft'
    <2>1. PICK new : requests' = (requests \ {r}) \cup {new} /\ new.at = "loaded"
      BY <1>0, <1>1, Moved
    <2>2. RequestsTypeOK' /\ left' = left
      BY <1>0, <1>1, TypesMoved DEF RowsLeft, States, Move
    <2>3. r \in DueNow /\ DueNow' = (DueNow \ {r}) \cup {new}
      BY <1>1, <2>1 DEF DueNow, Due
    <2> QED
      BY <1>0, <1>1, <2>2, <2>3, RowsLeftStay
  <1>2. CASE LookUpAssign(r)
    <2>1. r.at = "sent" /\ UNCHANGED assignRow
          /\ \/ \E seen : Move(r, "loaded", seen)
             \/ Move(r, "done", {})
      BY <1>2 DEF LookUpAssign, Load, MayStart, tagVars
    <2> QED
      BY <1>0, <1>1, <2>1, RowsLeftDone DEF Due
  <1>3. CASE LookUpTag(r)
    BY <1>1, <1>3 DEF LookUpTag, Load, MayStart, tagVars
  <1>4. CASE ajaxAddTag(r) \/ ajaxRemoveTag(r) \/ ajaxCreateTag(r) \/ ajaxGetTags(r)
    <2>1. Due(r) /\ \E seen : Move(r, "done", seen)
      BY <1>4 DEF ajaxAddTag, ajaxRemoveTag, ajaxCreateTag, ajaxGetTags, Writing,
                  MayStart, Due
    <2>2. assignRow' \in {assignRow, assignRow + 1}
      BY <1>4 DEF ajaxAddTag, ajaxRemoveTag, ajaxCreateTag, ajaxGetTags, Assign,
                  tagVars
    <2> QED
      BY <1>0, <2>1, <2>2, RowsLeftDone
  <1>5. CASE NameTag(r)
    <2>1. PICK i, rows : requests' = (requests \ {r}) \cup
              {[r EXCEPT !.op = "assign", !.arg = i, !.seen = rows]}
      BY <1>5 DEF NameTag
    <2> DEFINE new == [r EXCEPT !.op = "assign", !.arg = i, !.seen = rows]
    <2>2. r.at = "loaded" /\ UNCHANGED <<open, left, unaware, assignRow>>
      BY <1>5 DEF NameTag, Writing
    <2>3. new.at = r.at /\ new.id = r.id /\ new.page = r.page
      BY <1>0 DEF RequestsInv, WellFormed
    <2> HIDE DEF new
    <2>4. RequestsTypeOK'
      BY <2>1, <2>2, <2>3 DEF RowsLeft, RequestsTypeOK, new
    <2>5. r \in DueNow /\ DueNow' = (DueNow \ {r}) \cup {new}
      BY <2>1, <2>2, <2>3 DEF DueNow, Due, new
    <2> QED
      BY <1>0, <2>2, <2>4, <2>5, RowsLeftStay
  <1>6. CASE TagAnswered(r) \/ TagLost(r)
    <2>1. RequestsTypeOK'
      BY <1>6, TypesGone DEF TagAnswered, TagLost, RowsLeft
    <2>2. UNCHANGED <<left, assignRow>> /\ DueNow' \subseteq DueNow
      BY <1>6 DEF TagAnswered, TagLost, Answered, Lose, tagVars, DueNow, Due
    <2> QED
      BY <1>0, <2>1, <2>2, RowsLeftStay
  <1> QED
    BY <1>2, <1>3, <1>4, <1>5, <1>6

------------------------------------------------------------------------------
KeyRow == [id : 0 .. MaxRequests, user : User, counter : 0 .. MaxRequests,
           is_deleted : BOOLEAN]

\* A key has counted no more than the requests that were sent.
PasskeyTypes ==
    /\ RequestsTypeOK
    /\ PasskeyTypeOK
    /\ \A a \in authenticator : a.counter <= MaxRequests - left
    /\ \A r \in requests :
           /\ r.op = "login" => r.arg.counter \in 0 .. MaxRequests
           /\ r.op = "init_register" => r.arg.key \in User \cup {Login}
           /\ r.op \in Inits => r.seen \subseteq Challenge
           /\ r.at = "loaded" => r.seen \subseteq KeyRow

LEMMA PasskeySent ==
    ASSUME RequestsInv, PasskeyTypes, NEW p \in Page, NEW op, NEW arg,
           Send(p, op, arg), PasskeyTypeOK',
           \A a \in authenticator' : a.counter <= MaxRequests - left + 1,
           op = "login" => arg.counter \in 0 .. MaxRequests,
           op = "init_register" => arg.key \in User \cup {Login}
    PROVE  PasskeyTypes'
  <1>1. PICK new : /\ requests' = requests \cup {new} /\ new.op = op
                   /\ new.arg = arg /\ new.at = "sent" /\ new.seen = {}
    BY Sent
  <1>2. RequestsTypeOK'
    BY TypesSent DEF PasskeyTypes
  <1>3. left' = left - 1 /\ left \in Nat
    BY DEF Send, RequestsInv
  <1>4. \A a \in authenticator' : a.counter \in Int
    BY DEF PasskeyTypeOK
  <1>5. \A a \in authenticator' : a.counter <= MaxRequests - left'
    BY <1>3, <1>4, RequestBound
  <1> QED
    BY <1>1, <1>2, <1>5 DEF PasskeyTypes, KeyRow, Challenge

LEMMA PasskeyMoved ==
    ASSUME RequestsInv, PasskeyTypes, NEW r \in requests,
           NEW at \in States, NEW seen, at # r.at, Move(r, at, seen),
           at = "loaded" => seen \subseteq KeyRow,
           r.op \in Inits => seen \subseteq Challenge,
           UNCHANGED authenticator, PasskeyTypeOK'
    PROVE  PasskeyTypes'
  <1>1. PICK new : /\ requests' = (requests \ {r}) \cup {new}
                   /\ new.op = r.op /\ new.arg = r.arg
                   /\ new.at = at /\ new.seen = seen
    BY Moved
  <1>2. RequestsTypeOK' /\ left' = left
    BY TypesMoved DEF PasskeyTypes, Move
  <1> QED
    BY <1>1, <1>2 DEF PasskeyTypes, KeyRow, Challenge

LEMMA PasskeyPageTypes ==
    ASSUME PasskeyInv, PasskeyTypes, NEW p \in Page,
           \/ openPasskeys(p) \/ registerPasskey(p) \/ loginPasskey(p)
           \/ startRegistration(p) \/ startAuthentication(p)
           \/ savePasskeyName(p) \/ removePasskey(p)
    PROVE  PasskeyTypes'
  <1>0. /\ RequestsInv /\ PasskeyTypeOK /\ left \in 0 .. MaxRequests
        /\ Nothing \in Challenge
    BY RequestBound DEF PasskeyInv, PasskeyTypes, RequestsTypeOK, Challenge, Nothing
  <1>1. \A a \in authenticator : a.counter \in Nat /\ a.counter <= MaxRequests - left
    BY <1>0 DEF PasskeyTypes, PasskeyTypeOK
  <1>2. \A a \in authenticator : a.counter <= MaxRequests - left + 1
    BY <1>0, <1>1, RequestBound
  <1>3. offer' = [offer EXCEPT ![p] = Nothing] => offer' \in [Page -> Challenge]
    BY <1>0 DEF PasskeyTypeOK
  <1>4. CASE openPasskeys(p)
    <2>1. RequestsTypeOK' /\ UNCHANGED <<requests, left>>
      BY <1>4, TypesReloaded DEF openPasskeys, Reload, PasskeyTypes
    <2>2. shown' \in [Page -> User \cup {Login}]
      <3>1. PICK u \in User \cup {Login} : shown' = [shown EXCEPT ![p] = u]
        BY <1>4 DEF openPasskeys
      <3> QED
        BY <1>0, <3>1 DEF PasskeyTypeOK
    <2>3. PasskeyTypeOK'
      BY <1>0, <1>3, <1>4, <2>2 DEF openPasskeys, PasskeyTypeOK, Challenge
    <2> QED
      BY <1>4, <2>1, <2>3 DEF openPasskeys, PasskeyTypes, KeyRow, Challenge
  <1>5. UNCHANGED passkeyVars => PasskeyTypeOK'
    BY <1>0 DEF passkeyVars, PasskeyTypeOK, Challenge
  <1>6. CASE registerPasskey(p)
    <2>1. [NoKey EXCEPT !.key = shown[p]].key \in User \cup {Login}
      BY <1>0 DEF NoKey, PasskeyTypeOK
    <2> QED
      BY <1>0, <1>2, <1>5, <1>6, <2>1, PasskeySent DEF registerPasskey, passkeyVars
  <1>7. CASE loginPasskey(p) \/ savePasskeyName(p) \/ removePasskey(p)
    <2>1. PICK op \in {"init_login", "nick", "remove"} : \E arg : Send(p, op, arg)
      BY <1>7 DEF loginPasskey, savePasskeyName, removePasskey
    <2>2. UNCHANGED passkeyVars
      BY <1>7 DEF loginPasskey, savePasskeyName, removePasskey
    <2> QED
      BY <1>0, <1>2, <1>5, <2>1, <2>2, PasskeySent DEF passkeyVars
  <1>8. CASE startRegistration(p)
    <2> DEFINE a == [id |-> left, user |-> offer[p].user, counter |-> 0]
    <2>1. /\ a \in [id : 0 .. MaxRequests, user : User, counter : 0 .. MaxRequests]
          /\ a.counter <= MaxRequests - left + 1
      BY <1>0, <1>8, RequestBound DEF startRegistration
    <2>2. authenticator' = authenticator \cup {a}
          /\ UNCHANGED <<keys, options, loggedIn, shown>>
      BY <1>8 DEF startRegistration
    <2> HIDE DEF a
    <2>3. PasskeyTypeOK'
      BY <1>0, <1>3, <1>8, <2>1, <2>2 DEF startRegistration, PasskeyTypeOK, Challenge
    <2>4. PICK arg : Send(p, "register", arg)
      BY <1>8 DEF startRegistration
    <2> QED
      BY <1>0, <1>2, <2>1, <2>2, <2>3, <2>4, PasskeySent
  <1>9. CASE startAuthentication(p)
    <2>1. PICK a \in authenticator :
              /\ authenticator' = (authenticator \ {a}) \cup
                                      {[a EXCEPT !.counter = a.counter + 1]}
              /\ Send(p, "login", [n |-> offer[p].n, key |-> a.id,
                     counter |-> [a EXCEPT !.counter = a.counter + 1].counter])
      BY <1>9 DEF startAuthentication
    <2> DEFINE signed == [a EXCEPT !.counter = a.counter + 1]
    <2>2. a \in [id : 0 .. MaxRequests, user : User, counter : 0 .. MaxRequests]
      BY <1>0 DEF PasskeyTypeOK
    <2>3. left > 0
      BY <2>1 DEF Send
    <2>4. /\ a.counter + 1 \in 0 .. MaxRequests
          /\ a.counter + 1 <= MaxRequests - left + 1
      BY <1>0, <1>1, <2>3, RequestBound
    <2>5. /\ signed \in [id : 0 .. MaxRequests, user : User, counter : 0 .. MaxRequests]
          /\ signed.counter = a.counter + 1
      BY <2>2, <2>4
    <2> HIDE DEF signed
    <2>6. authenticator' = (authenticator \ {a}) \cup {signed}
      BY <2>1 DEF signed
    <2>7. PasskeyTypeOK'
      BY <1>0, <1>3, <1>9, <2>5, <2>6 DEF startAuthentication, PasskeyTypeOK, Challenge
    <2> DEFINE arg == [n |-> offer[p].n, key |-> a.id, counter |-> signed.counter]
    <2>8. Send(p, "login", arg) /\ arg.counter \in 0 .. MaxRequests
      BY <2>1, <2>4, <2>5 DEF signed
    <2> HIDE DEF arg
    <2> QED
      BY <1>0, <1>2, <2>4, <2>5, <2>6, <2>7, <2>8, PasskeySent
  <1> QED
    BY <1>4, <1>6, <1>7, <1>8, <1>9

LEMMA PasskeyHandlerTypes ==
    ASSUME PasskeyInv, PasskeyInv', PasskeyTypes, NEW r \in requests,
           \/ beginRegistration(r) \/ beginAuthenticate(r)
           \/ completeRegistration(r) \/ LookUpCredential(r)
           \/ completeAuthenticate(r) \/ GetKey(r)
           \/ ajax_nick(r) \/ ajax_remove_key(r)
    PROVE  PasskeyTypes'
  <1>0. /\ RequestsInv /\ PasskeyTypeOK /\ r.page \in Page
        /\ r.id \in 0 .. MaxRequests
        /\ Nothing \in Challenge /\ keys \subseteq KeyRow
    BY RequestBound DEF PasskeyInv, RequestsInv, PasskeyTypes, RequestsTypeOK,
                        PasskeyTypeOK, Challenge, Nothing, KeyRow
  <1>1. SessionOf[r.page] \in Session
    BY <1>0, PagesHaveSessions
  <1>2. \A o \in Challenge : Keep(r, o) => options' \in [Session -> Challenge]
    BY <1>0 DEF Keep, PasskeyTypeOK
  <1>3. \A k, l \in keys' : k.id = l.id => k = l
    BY DEF PasskeyInv, KeysInv
  <1>4. ASSUME NEW at \in States, NEW seen, at # r.at, Move(r, at, seen),
               at = "loaded" => seen \subseteq KeyRow,
               r.op \in Inits => seen \subseteq Challenge,
               keys' \subseteq KeyRow, options' \in [Session -> Challenge],
               loggedIn' \in [Session -> User], UNCHANGED <<authenticator, shown, offer>>
        PROVE  PasskeyTypes'
    <2>1. PasskeyTypeOK'
      BY <1>0, <1>3, <1>4 DEF PasskeyTypeOK, KeyRow, Challenge
    <2> QED
      BY <1>0, <1>4, <2>1, PasskeyMoved
  <1>5. /\ options \in [Session -> Challenge] /\ loggedIn \in [Session -> User]
    BY <1>0 DEF PasskeyTypeOK
  <1>6. ASSUME NEW u \in User \cup {Login}, Keep(r, [n |-> r.id, user |-> u]),
               Move(r, "done", {[n |-> r.id, user |-> u]}), r.at = "sent",
               UNCHANGED <<keys, authenticator, loggedIn, shown, offer>>
        PROVE  PasskeyTypes'
    <2> DEFINE o == [n |-> r.id, user |-> u]
    <2>1. o \in Challenge
      BY <1>0 DEF Challenge
    <2> HIDE DEF o
    <2>2. Keep(r, o) /\ Move(r, "done", {o})
      BY <1>6 DEF o
    <2> QED
      BY <1>0, <1>2, <1>4, <1>5, <1>6, <2>1, <2>2 DEF States
  <1>7. CASE beginRegistration(r)
    <2> DEFINE u == IF Me(r) \in Admin THEN r.arg.key ELSE Me(r)
    <2>1. u \in User \cup {Login}
      BY <1>1, <1>5, <1>7 DEF Me, beginRegistration, PasskeyTypes
    <2> HIDE DEF u
    <2>2. Keep(r, [n |-> r.id, user |-> u]) /\ Move(r, "done", {[n |-> r.id, user |-> u]})
      BY <1>7 DEF beginRegistration, u
    <2> QED
      BY <1>6, <1>7, <2>1, <2>2 DEF beginRegistration, MayStart
  <1>8. CASE beginAuthenticate(r)
    BY <1>6, <1>8 DEF beginAuthenticate, MayStart
  <1>9. CASE completeRegistration(r)
    <2>1. /\ r.at = "sent" /\ r.op = "register" /\ Move(r, "done", {})
          /\ UNCHANGED <<authenticator, loggedIn, shown, offer>>
      BY <1>9 DEF completeRegistration, MayStart
    <2>2. CASE Answers(r)
      <3> DEFINE new == [id |-> r.arg.key, user |-> Kept(r).user,
                         counter |-> 0, is_deleted |-> FALSE]
      <3>1. Kept(r) \in Held /\ r.arg.n = Kept(r).n
        BY <1>1, <2>2 DEF Kept, Held, Answers
      <3>2. PICK u : /\ Made(r.arg.key, u)
                     /\ \A c \in Held : c.n = r.arg.n => c.user = u
        BY <2>1 DEF PasskeyInv, ChallengeInv
      <3>3. Kept(r).user \in User
        BY <1>0, <3>1, <3>2 DEF Made, PasskeyTypeOK
      <3>4. r.arg.key = r.id
        BY <2>1 DEF PasskeyInv, KeysInv
      <3>5. new \in KeyRow
        BY <1>0, <3>3, <3>4, RequestBound DEF KeyRow
      <3> HIDE DEF new
      <3>6. keys' = keys \cup {new} /\ Keep(r, Nothing)
        BY <1>9, <2>2 DEF completeRegistration, new
      <3> QED
        BY <1>0, <1>2, <1>4, <1>5, <2>1, <3>5, <3>6 DEF States, Inits
    <2>3. CASE ~Answers(r)
      <3>1. UNCHANGED <<keys, options>>
        BY <1>9, <2>3 DEF completeRegistration
      <3> QED
        BY <1>0, <1>4, <1>5, <2>1, <3>1 DEF States, Inits
    <2> QED
      BY <2>2, <2>3
  <1>10. ASSUME NEW at \in {"loaded", "failed", "done"}, NEW seen \in SUBSET keys,
                Move(r, at, seen), r.at = "sent", r.op \notin Inits,
                UNCHANGED passkeyVars
         PROVE  PasskeyTypes'
    BY <1>0, <1>4, <1>5, <1>10 DEF passkeyVars, States
  <1>11. CASE LookUpCredential(r)
    <2>1. r.at = "sent" /\ r.op \notin Inits /\ UNCHANGED passkeyVars
      BY <1>11 DEF LookUpCredential, MayStart, Inits
    <2>2. Move(r, "loaded", KeyOf(r)) \/ Move(r, "failed", {})
      BY <1>11 DEF LookUpCredential
    <2>3. KeyOf(r) \in SUBSET keys /\ {} \in SUBSET keys
      BY DEF KeyOf
    <2> QED
      BY <1>10, <2>1, <2>2, <2>3
  <1>12. CASE GetKey(r)
    <2>1. r.at = "sent" /\ r.op \notin Inits /\ UNCHANGED passkeyVars
      BY <1>12 DEF GetKey, MayStart, Inits
    <2>2. Move(r, "loaded", FindKey(r)) \/ Move(r, "done", FindKey(r))
      BY <1>12 DEF GetKey
    <2>3. FindKey(r) \in SUBSET keys
      BY DEF FindKey, KeyOf
    <2> QED
      BY <1>10, <2>1, <2>2, <2>3
  <1>13. r.at = "loaded" => RowSeen(r) \in KeyRow
    BY DEF PasskeyInv, KeysInv, PasskeyTypes, RowSeen
  <1>14. ASSUME NEW row \in KeyRow, UpdateKey(row)
         PROVE  keys' \subseteq KeyRow
    BY <1>0, <1>14 DEF UpdateKey
  <1>15. CASE completeAuthenticate(r)
    <2>1. /\ r.at = "loaded" /\ r.op \notin Inits /\ r.op = "login"
          /\ Move(r, "done", {}) /\ Keep(r, Nothing)
          /\ UNCHANGED <<authenticator, shown, offer>>
      BY <1>15 DEF completeAuthenticate, Writing, Inits
    <2>2. r.arg.counter \in 0 .. MaxRequests
      BY <2>1 DEF PasskeyTypes
    <2>3. [RowSeen(r) EXCEPT !.counter = r.arg.counter] \in KeyRow
      BY <1>13, <2>1, <2>2 DEF KeyRow
    <2>4. keys' \subseteq KeyRow
      BY <1>14, <1>15, <2>3 DEF completeAuthenticate
    <2>5. RowSeen(r).user \in User
      BY <1>13, <2>1 DEF KeyRow
    <2>6. loggedIn' \in [Session -> User]
      BY <1>5, <1>15, <2>5 DEF completeAuthenticate
    <2> QED
      BY <1>0, <1>2, <1>4, <2>1, <2>4, <2>6 DEF States
  <1>16. CASE ajax_nick(r) \/ ajax_remove_key(r)
    <2>1. /\ r.at = "loaded" /\ r.op \notin Inits /\ Move(r, "done", {})
          /\ UNCHANGED <<authenticator, options, loggedIn, shown, offer>>
      BY <1>16 DEF ajax_nick, ajax_remove_key, Writing, Inits
    <2>2. \A b \in BOOLEAN : [RowSeen(r) EXCEPT !.is_deleted = b] \in KeyRow
      BY <1>13, <2>1 DEF KeyRow
    <2>3. keys' \subseteq KeyRow
      BY <1>14, <1>16, <2>2 DEF ajax_nick, ajax_remove_key
    <2> QED
      BY <1>4, <1>5, <2>1, <2>3 DEF States
  <1> QED
    BY <1>7, <1>8, <1>9, <1>11, <1>12, <1>15, <1>16

LEMMA PasskeyAnswerTypes ==
    ASSUME PasskeyInv, PasskeyTypes, NEW r \in requests,
           PasskeyAnswered(r) \/ PasskeyLost(r)
    PROVE  PasskeyTypes'
  <1>1. RequestsTypeOK'
    BY TypesGone DEF PasskeyAnswered, PasskeyLost, PasskeyTypes
  <1>2. requests' = requests \ {r} /\ left' = left
    BY DEF PasskeyAnswered, PasskeyLost, Answered, Lose
  <1>3. UNCHANGED <<keys, authenticator, options, loggedIn, shown>>
    BY DEF PasskeyAnswered, PasskeyLost, passkeyVars
  <1>4. PasskeyTypeOK /\ r.page \in Page /\ Nothing \in Challenge
    BY RequestBound DEF PasskeyTypes, PasskeyInv, RequestsInv, Challenge, Nothing
  <1>5. offer' \in [Page -> Challenge]
    <2>1. CASE PasskeyAnswered(r)
      <3> DEFINE o == IF r.op \in {"init_register", "init_login"}
                      THEN CHOOSE c \in r.seen : TRUE ELSE Nothing
      <3>1. r.op \in Inits => r.seen # {} /\ r.seen \subseteq Challenge
        BY <2>1 DEF PasskeyAnswered, PasskeyInv, ChallengeInv, PasskeyTypes
      <3>2. o \in Challenge
        BY <1>4, <3>1 DEF Inits
      <3>3. offer' = [offer EXCEPT ![r.page] = o]
        BY <2>1 DEF PasskeyAnswered
      <3> QED
        BY <1>4, <3>2, <3>3 DEF PasskeyTypeOK
    <2>2. CASE PasskeyLost(r)
      BY <1>4, <2>2 DEF PasskeyLost, passkeyVars, PasskeyTypeOK
    <2> QED
      BY <2>1, <2>2
  <1>6. PasskeyTypeOK'
    BY <1>3, <1>4, <1>5 DEF PasskeyTypeOK, Challenge
  <1> QED
    BY <1>1, <1>2, <1>3, <1>6 DEF PasskeyTypes, KeyRow, Challenge

------------------------------------------------------------------------------
\* What the invariants of the uploads do not say of types.
UploadRest ==
    /\ counted \in [File -> {"no", "success", "failed"}]
    /\ \A f \in File : uploads[f].state \in {"none", "open", "completed", "aborted"}
    /\ tracked \in [File -> {"none", "there", "deleted"}]
    /\ attachments \subseteq [file : File, parent : Range(ParentOf)]
    /\ troubled \subseteq File

LEMMA UploadTypesFollow ==
    ASSUME UploadInv, WholeInv, UploadRest
    PROVE  UploadTypeOK
  <1>1. UploadTypes
    BY DEF WholeInv
  <1>2. ASSUME NEW t \in Tab, NEW n \in DOMAIN parts[t]
        PROVE  parts[t][n] \in Part
    <2>1. parts[t] \in Seq(Part)
      BY <1>1 DEF UploadTypes
    <2> QED
      BY <2>1
  <1>3. ASSUME NEW f \in File PROVE objects[Content[f]] \in Seq(1 .. Size[f])
    <2>1. PICK m \in 0 .. Size[f] : objects[Content[f]] = Upto(m)
      BY <1>1 DEF UploadTypes
    <2>2. m \in Nat /\ m <= Size[f] /\ Size[f] \in Nat
      BY UploadSizes
    <2>3. Upto(m) \in [1 .. m -> 1 .. Size[f]]
      BY <2>2 DEF Upto
    <2> QED
      BY <2>1, <2>2, <2>3
  <1>4. \A f \in File : \A p \in uploads[f].parts : p \in [n : Nat, from : Nat, to : Nat]
    BY <1>1 DEF UploadTypes, StoredPart
  <1> QED
    BY <1>1, <1>2, <1>3, <1>4 DEF UploadTypeOK, UploadInv, UploadRest, UploadTypes, Part

LEMMA UploadRestKept ==
    ASSUME UploadInv, UploadRest, UploadNext
    PROVE  UploadRest'
  <1> PICK t \in Tab : upload(t) \/ UploadStep(t) \/ Leave(t)
    BY DEF UploadNext
  <1>0. ASSUME phase[t] \in Working
        PROVE  This(t) \in File /\ UploadInv
    BY <1>0, FirstFile DEF UploadInv, OpenFor
  <1>1. ASSUME NEW f \in File, NEW s,
               \/ uploads' = [uploads EXCEPT ![f].state = s]
               \/ uploads' = [uploads EXCEPT ![f] = [state |-> s, parts |-> {}]],
               NEW g \in File
        PROVE  uploads'[g].state \in {s, uploads[g].state}
    <2>1. DOMAIN uploads = File
          /\ \A h \in File : uploads[h] = [state |-> uploads[h].state,
                                            parts |-> uploads[h].parts]
      BY DEF UploadInv
    <2>2. CASE g # f
      BY <1>1, <2>1, <2>2
    <2>3. CASE g = f
      <3>1. CASE uploads' = [uploads EXCEPT ![f] = [state |-> s, parts |-> {}]]
        BY <2>1, <2>3, <3>1
      <3>2. CASE uploads' = [uploads EXCEPT ![f].state = s]
        <4>1. uploads'[f] = [uploads[f] EXCEPT !.state = s]
          BY <2>1, <3>2
        <4>2. uploads'[f].state = s
          BY <2>1, <4>1
        <4> QED
          BY <2>3, <4>2
      <3> QED
        BY <1>1, <3>1, <3>2
    <2> QED
      BY <2>2, <2>3
  <1>2. CASE upload(t) \/ Leave(t) \/ ReadChunk(t) \/ ReadAborted(t)
             \/ WaitForParts(t) \/ LastPart(t) \/ JoinParts(t) \/ LookUpAttachment(t)
    BY <1>2 DEF upload, Leave, ReadChunk, ReadAborted, WaitForParts, LastPart,
                JoinParts, LookUpAttachment, UploadRest
  <1>3. CASE beginMultipartUpload(t)
    <2>1. This(t) \in File
      BY <1>0, <1>3 DEF beginMultipartUpload, Working, phases
    <2> QED
      BY <1>1, <1>3, <2>1 DEF beginMultipartUpload, UploadRest
  <1>4. CASE BeginFails(t)
    <2>1. This(t) \in File
      BY <1>0, <1>4 DEF BeginFails, Working, phases
    <2>2. \/ UNCHANGED uploads
          \/ uploads' = [uploads EXCEPT ![This(t)].state = "open"]
      BY <1>4 DEF BeginFails
    <2>3. \A g \in File : uploads'[g].state \in {"none", "open", "completed", "aborted"}
      <3>1. CASE UNCHANGED uploads
        BY <3>1 DEF UploadRest
      <3>2. CASE uploads' = [uploads EXCEPT ![This(t)].state = "open"]
        <4>1. \A g \in File : uploads'[g].state \in {"open", uploads[g].state}
          BY <1>1, <2>1, <3>2
        <4> QED
          BY <4>1 DEF UploadRest
      <3> QED
        BY <2>2, <3>1, <3>2
    <2> QED
      BY <1>4, <2>1, <2>3 DEF BeginFails, Count, UploadRest
  <1>5. CASE SendParts(t)
    <2>1. phase[t] \in Working
      BY <1>5 DEF SendParts, UploadPart, PartFails, Sending, Working, phases
    <2>2. UNCHANGED <<counted, tracked, attachments, troubled>>
      BY <1>5 DEF SendParts, UploadPart, PartFails
    <2>3. UNCHANGED uploads \/ \E n \in DOMAIN parts[t] : Store(t, n)
      BY <1>5 DEF SendParts, UploadPart, PartFails
    <2>4. \A g \in File : uploads'[g].state = uploads[g].state
      BY <1>0, <2>1, <2>3 DEF Store, UploadInv
    <2> QED
      BY <2>2, <2>4 DEF UploadRest
  <1>6. CASE CompleteMultipart(t)
    <2>1. This(t) \in File
      BY <1>0, <1>6 DEF CompleteMultipart, Working, phases, serverPhases
    <2>2. /\ uploads' = [uploads EXCEPT ![This(t)].state = "completed"]
          /\ UNCHANGED <<counted, tracked, attachments, troubled>>
      BY <1>6 DEF CompleteMultipart
    <2> QED
      BY <1>1, <2>1, <2>2 DEF UploadRest
  <1>7. CASE InsertAttachment(t)
    <2>1. This(t) \in File
      BY <1>0, <1>7 DEF InsertAttachment, Working, phases, serverPhases
    <2>2. ParentOf[This(t)] \in Range(ParentOf)
      BY <2>1, UploadSizes DEF Range
    <2> QED
      BY <1>7, <2>1, <2>2 DEF InsertAttachment, UploadRest
  <1>8. CASE DeleteTracked(t)
    BY <1>8 DEF DeleteTracked, UploadRest
  <1>9. CASE CompleteAnswered(t)
    BY <1>9 DEF CompleteAnswered, Count, UploadRest
  <1>10. CASE CompleteFails(t)
    <2>1. This(t) \in File
      BY <1>0, <1>10 DEF CompleteFails, Working, phases, serverPhases
    <2> QED
      BY <1>10, <2>1 DEF CompleteFails, UploadRest
  <1>11. CASE abortUpload(t) \/ AbortFails(t)
    <2>1. This(t) \in File
      BY <1>0, <1>11 DEF abortUpload, AbortFails, Working, phases
    <2>2. \/ UNCHANGED uploads
          \/ uploads' = [uploads EXCEPT ![This(t)] = [state |-> "aborted", parts |-> {}]]
      BY <1>11 DEF abortUpload, AbortFails
    <2>3. \A g \in File : uploads'[g].state \in {"none", "open", "completed", "aborted"}
      <3>1. CASE UNCHANGED uploads
        BY <3>1 DEF UploadRest
      <3>2. CASE uploads' = [uploads EXCEPT ![This(t)] = [state |-> "aborted", parts |-> {}]]
        <4>1. \A g \in File : uploads'[g].state \in {"aborted", uploads[g].state}
          BY <1>1, <2>1, <3>2
        <4> QED
          BY <4>1 DEF UploadRest
      <3> QED
        BY <2>2, <3>1, <3>2
    <2>4. tracked' \in [File -> {"none", "there", "deleted"}]
      BY <1>11 DEF abortUpload, AbortFails, UploadRest
    <2>5. troubled' \subseteq File /\ UNCHANGED attachments
      BY <1>11, <2>1 DEF abortUpload, AbortFails, UploadRest
    <2>6. counted' \in [File -> {"no", "success", "failed"}]
      BY <1>11 DEF abortUpload, AbortFails, Count, UploadRest
    <2> QED
      BY <2>3, <2>4, <2>5, <2>6 DEF UploadRest
  <1> QED
    BY <1>2, <1>3, <1>4, <1>5, <1>6, <1>7, <1>8, <1>9, <1>10, <1>11 DEF UploadStep

------------------------------------------------------------------------------
\* The invariants of the kinds, and what types need beside them.
KindsInv ==
    /\ UploadInv /\ WholeInv
    /\ MfaKind /\ FavouriteKind /\ WidgetKind /\ PagesKind /\ KindInv

RestTypes ==
    /\ kind \in Kind
    /\ UploadRest /\ RequestsTypeOK /\ SecurityTypeOK
    /\ FavouriteTypeOK /\ TimelogTypeOK /\ PasskeyTypeOK
    /\ kind # "tags" => TagTypeOK

TypesInv ==
    /\ RestTypes
    /\ kind = "security" => SecurityTypes
    /\ kind = "tags" => RowsLeft /\ bound \subseteq Page
    /\ kind = "timelog" => TimelogTypes
    /\ kind = "passkeys" => PasskeyTypes

LEMMA KindsStart == Init => KindsInv
  <1>1. Init => UploadInv /\ WholeInv
    BY UploadStarts, WholeStarts DEF Init
  <1> QED
    BY <1>1, MfaStarts, FavouriteStarts, WidgetStarts, PagesStart, KindInvStarts
       DEF KindsInv

LEMMA KindsKept == KindsInv /\ [Next]_browserVars => KindsInv'
  <1> SUFFICES ASSUME KindsInv, [Next]_browserVars PROVE KindsInv'
    OBVIOUS
  <1>1. [UploadNext]_uploadVars
    BY DEF Next, browserVars, NextUpload, NextSecurity, NextTags,
           NextFavourite, NextTimelog, NextPasskeys
  <1>2. UploadInv' /\ WholeInv'
    BY <1>1, UploadSteps, WholeSteps DEF KindsInv
  <1> QED
    BY <1>2, MfaKept, FavouriteKept, WidgetKept, PagesKept, AllSteps DEF KindsInv

LEMMA FirstTagTypes ==
    ASSUME TagInit
    PROVE  TagTypeOK /\ assignRow \in Nat /\ assignRow <= MaxTagId
  <1>1. /\ assignRow \in Nat /\ assignRow <= MaxTagId
        /\ \A w \in assigned : w.row \in Nat /\ w.row > 0 /\ w.row <= assignRow
    BY FirstRows
  <1>2. DOMAIN FirstTags \subseteq TagId
    BY TagConstants DEF TagId
  <1>3. \A w \in assigned : \E i \in DOMAIN FirstTags : w = [row |-> i, tag |-> i]
    BY DEF TagInit
  <1>4. ASSUME NEW w \in assigned PROVE w \in [row : 1 .. assignRow, tag : TagId]
    <2>1. PICK i \in DOMAIN FirstTags : w = [row |-> i, tag |-> i]
      BY <1>3
    <2>2. w.row = i /\ i \in 1 .. assignRow /\ i \in TagId
      BY <1>1, <1>2, <2>1
    <2> QED
      BY <2>1, <2>2
  <1>5. assignRow \in 0 .. MaxTagId + 2 * MaxRequests
    BY <1>1, TagConstants, RequestBound
  <1>6. {a.tag : a \in assigned} \in SUBSET TagId
    BY <1>4
  <1>7. tagName \in [TagId -> TagText \cup {Unnamed}]
    BY TagConstants DEF TagInit
  <1> QED
    BY <1>1, <1>4, <1>5, <1>6, <1>7 DEF TagInit, TagTypeOK

LEMMA TypesStart == Init => TypesInv
  <1> SUFFICES ASSUME Init PROVE TypesInv
    OBVIOUS
  <1>1. PICK o \in Openings : kind = o.kind /\ RequestsInit(o.pages, o.requests)
    BY DEF Init
  <1>2. /\ kind \in Kind /\ requests = {} /\ unaware = {} /\ open \subseteq Page
        /\ left \in 0 .. MaxRequests
    BY <1>1, OpeningsAreKinds DEF RequestsInit
  <1>3. RequestsTypeOK /\ Handling = {} /\ DueNow = {}
    BY <1>2 DEF RequestsTypeOK, Handling, DueNow
  <1>4. UploadRest
    BY DEF Init, UploadInit, UploadRest, NoUpload
  <1>5. SecurityTypeOK
    <2>1. 0 \in 0 .. MaxRequests
      BY RequestBound
    <2>2. SecurityInit
      BY DEF Init
    <2>3. user \in [is_mfa_enabled : BOOLEAN, mfa_secret : 0 .. MaxRequests]
      BY <2>1, <2>2 DEF SecurityInit
    <2>4. mfaPage \in [Page -> [mfa_enabled : BOOLEAN, qr : 0 .. MaxRequests]]
      BY <2>1, <2>2 DEF SecurityInit
    <2> QED
      BY <2>2, <2>3, <2>4 DEF SecurityInit, SecurityTypeOK
  <1>6. TagTypeOK /\ RowsLeft /\ bound \subseteq Page
    <2>1. TagTypeOK /\ assignRow \in Nat /\ assignRow <= MaxTagId
      BY FirstTagTypes DEF Init
    <2>2. Cardinality(DueNow) = 0
      BY <1>3, FS_EmptySet
    <2>3. assignRow + Cardinality(DueNow) + left <= MaxTagId + MaxRequests
      BY <1>2, <2>1, <2>2, RequestBound, TagConstants
    <2> QED
      BY <1>3, <2>1, <2>3 DEF RowsLeft, TagTypeOK
  <1>7. FavouriteTypeOK
    BY DEF Init, FavouriteInit, FavouriteTypeOK
  <1>8. TimelogTypeOK /\ timelogs = {}
    BY DEF Init, TimelogInit, TimelogTypeOK
  <1>9. PasskeyTypeOK /\ \A a \in authenticator : a.counter = 0
    <2>1. PICK u \in User :
              /\ keys = {[id |-> 0, user |-> u, counter |-> 0, is_deleted |-> FALSE]}
              /\ authenticator = {[id |-> 0, user |-> u, counter |-> 0]}
      BY DEF Init, PasskeyInit
    <2>2. /\ options = [s \in Session |-> Nothing] /\ loggedIn \in [Session -> User]
          /\ shown = [p \in Page |-> Login] /\ offer = [p \in Page |-> Nothing]
      BY DEF Init, PasskeyInit
    <2>3. Nothing \in Challenge /\ 0 \in 0 .. MaxRequests
      BY RequestBound DEF Nothing, Challenge
    <2>4. PasskeyTypeOK
      BY <2>1, <2>2, <2>3 DEF PasskeyTypeOK, Challenge
    <2> QED
      BY <2>1, <2>4
  <1>10. SecurityTypes /\ TimelogTypes /\ PasskeyTypes
    BY <1>2, <1>3, <1>5, <1>8, <1>9, RequestBound
       DEF SecurityTypes, TimelogTypes, PasskeyTypes, BoundedRow
  <1> QED
    BY <1>2, <1>3, <1>4, <1>5, <1>6, <1>7, <1>8, <1>9, <1>10
       DEF TypesInv, RestTypes

LEMMA TypesKept ==
    ASSUME KindsInv, KindsInv', TypesInv, [Next]_browserVars
    PROVE  TypesInv'
  <1>0. UNCHANGED kind /\ kind \in Kind
    BY DEF Next, browserVars, NextUpload, NextSecurity, NextTags,
           NextFavourite, NextTimelog, NextPasskeys, TypesInv, RestTypes
  <1>1. /\ UNCHANGED uploadVars => UploadRest'
        /\ UNCHANGED securityVars => SecurityTypeOK'
        /\ UNCHANGED tagVars => (kind # "tags" => TagTypeOK)'
        /\ UNCHANGED favouriteVars => FavouriteTypeOK'
        /\ UNCHANGED timelogVars => TimelogTypeOK'
        /\ UNCHANGED passkeyVars => PasskeyTypeOK'
    <2>1. UNCHANGED uploadVars => UploadRest'
      BY DEF TypesInv, RestTypes, uploadVars, UploadRest
    <2>2. UNCHANGED securityVars => SecurityTypeOK'
      BY DEF TypesInv, RestTypes, securityVars, SecurityTypeOK
    <2>3. UNCHANGED tagVars => (kind # "tags" => TagTypeOK)'
      BY <1>0 DEF TypesInv, RestTypes, tagVars, TagTypeOK
    <2>4. UNCHANGED favouriteVars => FavouriteTypeOK'
      BY DEF TypesInv, RestTypes, favouriteVars, FavouriteTypeOK
    <2>5. UNCHANGED timelogVars => TimelogTypeOK'
      BY DEF TypesInv, RestTypes, timelogVars, TimelogTypeOK
    <2>6. UNCHANGED passkeyVars => PasskeyTypeOK'
      BY DEF TypesInv, RestTypes, passkeyVars, PasskeyTypeOK, Challenge
    <2> QED
      BY <2>1, <2>2, <2>3, <2>4, <2>5, <2>6
  <1>2. CASE NextUpload
    <2>1. UploadRest'
      BY <1>2, UploadRestKept DEF NextUpload, KindsInv, TypesInv, RestTypes
    <2>2. RequestsTypeOK'
      BY <1>2, TypesRest DEF NextUpload, TypesInv, RestTypes
    <2> QED
      BY <1>0, <1>1, <1>2, <2>1, <2>2 DEF NextUpload, TypesInv, RestTypes
  <1>3. CASE NextSecurity
    <2>1. SecurityTypes'
      BY <1>3, SecurityPageTypes, SecurityHandlerTypes, SecurityAnswerTypes
         DEF NextSecurity, SecurityNext, TypesInv, KindsInv, MfaKind
    <2> QED
      BY <1>0, <1>1, <1>3, <2>1
         DEF NextSecurity, SecurityTypes, TypesInv, RestTypes
  <1>4. CASE NextTags
    <2>1. TagData /\ TagData' /\ RowsLeft /\ kind = "tags"
      BY <1>0, <1>4 DEF NextTags, TypesInv, KindsInv, PagesKind, PagesOfTags
    <2>2. TagTable /\ FlowInv' /\ assignRow \in Nat
      BY <2>1 DEF TagData, TagTable, RowsInv
    <2>3. RowsLeft'
      BY <1>4, <2>1, <2>2, RowsLeftOnPages, RowsLeftForRequests DEF NextTags, TagNext
    <2>4. bound \subseteq Page /\ TagNext
      BY <1>4, <2>1 DEF NextTags, TypesInv
    <2>5. bound' \subseteq Page
      BY <2>4 DEF TagNext, openTags, onItemAdd, onItemRemove, onItemCreate,
                  closeTags, LookUpAssign, ajaxAddTag, ajaxRemoveTag, LookUpTag,
                  NameTag, ajaxCreateTag, ajaxGetTags, TagAnswered, TagLost, tagVars
    <2> QED
      BY <1>0, <1>1, <1>4, <2>1, <2>3, <2>5
         DEF NextTags, RowsLeft, TypesInv, RestTypes
  <1>5. CASE NextFavourite
    <2>1. (RequestsTypeOK /\ FavouriteTypeOK)'
      BY <1>5, FavouriteTypes
         DEF NextFavourite, TypesInv, RestTypes, KindsInv, FavouriteKind
    <2> QED
      BY <1>0, <1>1, <1>5, <2>1 DEF NextFavourite, TypesInv, RestTypes
  <1>6. CASE NextTimelog
    <2>1. WidgetInv /\ FlowInv /\ TimelogTypes
      BY <1>6 DEF NextTimelog, TypesInv, KindsInv, WidgetKind, WidgetInv
    <2>2. TimelogTypes'
      BY <1>6, <2>1, TimelogPageTypes, TimelogHandlerTypes, TimelogAnswerTypes
         DEF NextTimelog, TimelogNext
    <2> QED
      BY <1>0, <1>1, <1>6, <2>2
         DEF NextTimelog, TimelogTypes, TypesInv, RestTypes
  <1>7. CASE NextPasskeys
    <2>1. PasskeyInv /\ PasskeyInv' /\ PasskeyTypes
      BY <1>0, <1>7 DEF NextPasskeys, TypesInv, KindsInv, KindInv
    <2>2. PasskeyTypes'
      BY <1>7, <2>1, PasskeyPageTypes, PasskeyHandlerTypes, PasskeyAnswerTypes
         DEF NextPasskeys, PasskeyNext
    <2> QED
      BY <1>0, <1>1, <1>7, <2>2
         DEF NextPasskeys, PasskeyTypes, TypesInv, RestTypes
  <1>8. CASE UNCHANGED browserVars
    <2>1. RequestsTypeOK'
      BY <1>8, TypesRest DEF browserVars, TypesInv, RestTypes
    <2>2. RestTypes'
      BY <1>0, <1>1, <1>8, <2>1 DEF browserVars, RestTypes
    <2>3. /\ UNCHANGED <<requests, left>>
          /\ UNCHANGED <<assignRow, bound, timelogs, authenticator>>
      BY <1>8 DEF browserVars, requestVars, tagVars, timelogVars, passkeyVars
    <2>4. Handling' = Handling /\ DueNow' = DueNow
      BY <2>3 DEF Handling, DueNow
    <2>5. SecurityTypes => SecurityTypes'
      BY <2>2, <2>4 DEF RestTypes, SecurityTypes, BoundedRow
    <2>6. RowsLeft => RowsLeft'
      BY <2>1, <2>3, <2>4 DEF RowsLeft
    <2>7. TimelogTypes => TimelogTypes'
      BY <2>2, <2>3, <2>4 DEF RestTypes, TimelogTypes, BoundedLog, Due
    <2>8. PasskeyTypes => PasskeyTypes'
      BY <2>2, <2>3 DEF RestTypes, PasskeyTypes, KeyRow, Challenge
    <2> QED
      BY <1>0, <2>2, <2>3, <2>5, <2>6, <2>7, <2>8 DEF TypesInv
  <1> QED
    BY <1>2, <1>3, <1>4, <1>5, <1>6, <1>7, <1>8 DEF Next

\* All pages, requests, tables and uploads keep their types, and numbers stay
\* within what the requests of a behaviour allow: for any constants.
THEOREM TypeCorrect == Spec => []BrowserTypeOK
  <1>1. KindsInv /\ TypesInv /\ [Next]_browserVars => (KindsInv /\ TypesInv)'
    BY KindsKept, TypesKept
  <1>2. KindsInv /\ TypesInv => BrowserTypeOK
    <2> SUFFICES ASSUME KindsInv, TypesInv PROVE BrowserTypeOK
      OBVIOUS
    <2>1. UploadTypeOK
      BY UploadTypesFollow DEF KindsInv, TypesInv, RestTypes
    <2>2. TagTypeOK
      BY TagTypesFollow DEF KindsInv, TypesInv, RestTypes, PagesKind, PagesOfTags
    <2> QED
      BY <2>1, <2>2 DEF TypesInv, RestTypes, BrowserTypeOK
  <1> QED
    BY <1>1, <1>2, KindsStart, TypesStart, PTL DEF Spec
==============================================================================
