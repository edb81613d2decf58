------------------------------ MODULE Favourite ------------------------------
(***************************************************************************)
(* The star that makes an object a favourite of the user (favourites.ts)   *)
(* and ajaxEditFavorites, which deletes the row if it finds one and        *)
(* inserts one if not.  The page does not say which of the two it wants,   *)
(* and turns its star over whatever the answer is.                         *)
(***************************************************************************)
EXTENDS Requests

VARIABLES
    favorites,  \* rows of the object and the user that are not deleted
    star,       \* [Page -> does it show bi-star-fill]
    odd,        \* history: pages that some turn of the row or the star passed
                \* by: other pages' clicks and clicks that failed
    raced       \* history: the row changed between a look at it and the turn

favouriteVars == <<favorites, star, odd, raced>>

FavouriteTypeOK ==
    /\ favorites \subseteq 1 .. MaxRequests
    /\ star \in [Page -> BOOLEAN]
    /\ odd \subseteq Page
    /\ raced \in BOOLEAN

FavouriteInit ==
    /\ favorites = {}
    /\ star = [p \in Page |-> FALSE]
    /\ odd = {}
    /\ raced = FALSE

\* p's standing against the row is turned over.
Flip(ps) == odd' = (odd \ ps) \cup (ps \ odd)

\* getBootstrapButton.
openStar(p) ==
    /\ Reload(p)
    /\ star' = [star EXCEPT ![p] = favorites # {}]
    /\ odd' = odd \ {p}
    /\ UNCHANGED <<favorites, raced>>

clickEvent(p) == Send(p, "edit", 0) /\ UNCHANGED favouriteVars

getFavorite(r) == Load(r, "edit", favorites) /\ UNCHANGED favouriteVars

\* Mutant: a row that is found is kept.
KeepFavorite(r) ==
    favorites' = IF r.seen = {} THEN favorites \cup {r.id} ELSE favorites

\* The row found is deleted, or one inserted.
TurnFavorite(r) ==
    favorites' = IF r.seen = {} THEN favorites \cup {r.id}
                 ELSE favorites \ {Min(r.seen)}

ajaxEditFavorites(r) ==
    /\ Writing(r, "edit")
    /\ TurnFavorite(r)
    /\ raced' = (raced \/ favorites # r.seen)
    /\ Move(r, "done", {})
    /\ Flip(Page \ {r.page})
    /\ UNCHANGED star

\* The handler fails and changes nothing; an answer comes all the same.
EditFails(r) ==
    /\ Writing(r, "edit")
    /\ Move(r, "failed", {})
    /\ Flip({r.page})
    /\ UNCHANGED <<favorites, star, raced>>

\* The star turns after any answer.
StarAnswered(r) ==
    /\ r.at \in {"done", "failed"}
    /\ Answered(r)
    /\ star' = [star EXCEPT ![r.page] = ~@]
    /\ UNCHANGED <<favorites, odd, raced>>

\* fetch rejects: the star stays, and the row may have turned.
StarLost(r) == Lose(r) /\ UNCHANGED favouriteVars

FavouriteNext ==
    \/ \E p \in Page : openStar(p) \/ clickEvent(p)
    \/ \E r \in requests :
           \/ getFavorite(r) \/ ajaxEditFavorites(r) \/ EditFails(r)
           \/ StarAnswered(r) \/ StarLost(r)

\* The star of a page says the opposite of the truth exactly when the turns
\* that passed it by are odd in number: those other pages made after it was
\* opened, and its own whose handler failed.  So a double click is harmless,
\* and once a page is wrong each click keeps it wrong.  (As long as nothing
\* was lost and no other session turned the row between a handler's look at
\* it and its write.)
StarIsWrongWhenOdd ==
    \A p \in Page \ unaware :
        Quiet(p) /\ ~raced => (star[p] # (favorites # {}) <=> p \in odd)
==============================================================================
