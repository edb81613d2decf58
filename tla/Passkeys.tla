------------------------------- MODULE Passkeys -------------------------------
(***************************************************************************)
(* Passkeys: registering one on the security page of a user                *)
(* (UserSecurityComponent.vue), naming and removing it there, logging in   *)
(* with it (WebAuthnLogin.ts), and the handlers behind them                *)
(* (WebAuthnService and the actions webauthn/ajax_...).                    *)
(*                                                                         *)
(* A ceremony has two requests.  The first makes a challenge and keeps it  *)
(* in the session, under one name for both ceremonies and for all pages of *)
(* the session; the second must answer the challenge kept then.  Challenges*)
(* and keys are numbered by requests.  The class of the row does not       *)
(* declare is_deleted, so update() always writes FALSE for it.             *)
(***************************************************************************)
EXTENDS Requests

CONSTANTS User, Admin

ASSUME AdminsAreUsers == Admin \subseteq User

VARIABLES
    keys,          \* rows WebAuthnCredential
    authenticator, \* the keys in the users' authenticators
    options,       \* [Session -> webauthn__options: challenge and user]
    loggedIn,      \* [Session -> User]
    shown,         \* [Page -> user of the security page, or the login page]
    offer          \* [Page -> options the page answers next]

passkeyVars == <<keys, authenticator, options, loggedIn, shown, offer>>

Login == "login page"
Nothing == [n |-> 0, user |-> Login]
Challenge == [n : 0 .. MaxRequests, user : User \cup {Login}]

PasskeyTypeOK ==
    /\ keys \subseteq [id : 0 .. MaxRequests, user : User,
                       counter : 0 .. MaxRequests, is_deleted : BOOLEAN]
    /\ authenticator \subseteq [id : 0 .. MaxRequests, user : User,
                                counter : 0 .. MaxRequests]
    /\ \A k, l \in keys : k.id = l.id => k = l
    /\ options \in [Session -> Challenge]
    /\ loggedIn \in [Session -> User]
    /\ shown \in [Page -> User \cup {Login}]
    /\ offer \in [Page -> Challenge]

\* One user has a key.
PasskeyInit ==
    /\ \E u \in User :
           /\ keys = {[id |-> 0, user |-> u, counter |-> 0,
                       is_deleted |-> FALSE]}
           /\ authenticator = {[id |-> 0, user |-> u, counter |-> 0]}
    /\ options = [s \in Session |-> Nothing]
    /\ loggedIn \in [Session -> User]
    /\ shown = [p \in Page |-> Login]
    /\ offer = [p \in Page |-> Nothing]

------------------------------------------------------------------------------
(* The pages. *)

\* A user may look at the security page of others as an administrator.
openPasskeys(p) ==
    /\ Reload(p)
    /\ \E u \in User \cup {Login} :
           /\ u = Login \/ u = loggedIn[SessionOf[p]]
                        \/ loggedIn[SessionOf[p]] \in Admin
           /\ shown' = [shown EXCEPT ![p] = u]
    /\ offer' = [offer EXCEPT ![p] = Nothing]
    /\ UNCHANGED <<keys, authenticator, options, loggedIn>>

NoKey == [n |-> 0, key |-> 0, counter |-> 0]

\* The first request of either ceremony.
registerPasskey(p) ==
    /\ shown[p] # Login
    /\ Send(p, "init_register", [NoKey EXCEPT !.key = shown[p]])
    /\ UNCHANGED passkeyVars

loginPasskey(p) ==
    /\ shown[p] = Login
    /\ Send(p, "init_login", NoKey)
    /\ UNCHANGED passkeyVars

\* The authenticator makes a key for the user the options name, ...
startRegistration(p) ==
    /\ offer[p].user \in User
    /\ authenticator' = authenticator \cup
           {[id |-> left, user |-> offer[p].user, counter |-> 0]}
    /\ Send(p, "register", [n |-> offer[p].n, key |-> left, counter |-> 0])
    /\ offer' = [offer EXCEPT ![p] = Nothing]
    /\ UNCHANGED <<keys, options, loggedIn, shown>>

\* ... or signs with one it has, and counts that.
startAuthentication(p) ==
    /\ offer[p].n # 0
    /\ offer[p].user = Login
    /\ \E a \in authenticator :
           LET signed == [a EXCEPT !.counter = @ + 1] IN
           /\ authenticator' = (authenticator \ {a}) \cup {signed}
           /\ Send(p, "login", [n |-> offer[p].n, key |-> a.id,
                                counter |-> signed.counter])
    /\ offer' = [offer EXCEPT ![p] = Nothing]
    /\ UNCHANGED <<keys, options, loggedIn, shown>>

\* Naming or removing a key of the list, which may be gone by now.
savePasskeyName(p) ==
    /\ \E k \in keys : /\ k.user = shown[p]
                       /\ Send(p, "nick", [NoKey EXCEPT !.key = k.id])
    /\ UNCHANGED passkeyVars

removePasskey(p) ==
    /\ \E k \in keys : /\ k.user = shown[p]
                       /\ Send(p, "remove", [NoKey EXCEPT !.key = k.id])
    /\ UNCHANGED passkeyVars

------------------------------------------------------------------------------
(* The handlers. *)

Me(r) == loggedIn[SessionOf[r.page]]
Kept(r) == options[SessionOf[r.page]]

\* w->session("webauthn__options", ...)
Keep(r, o) == options' = [options EXCEPT ![SessionOf[r.page]] = o]

\* The user of the page if an administrator asks, else whoever is logged in.
beginRegistration(r) ==
    /\ r.op = "init_register"
    /\ MayStart(r)
    /\ Keep(r, [n |-> r.id,
                user |-> IF Me(r) \in Admin THEN r.arg.key ELSE Me(r)])
    /\ Move(r, "done", {[n |-> r.id,
                         user |-> IF Me(r) \in Admin THEN r.arg.key
                                  ELSE Me(r)]})
    /\ UNCHANGED <<keys, authenticator, loggedIn, shown, offer>>

beginAuthenticate(r) ==
    /\ r.op = "init_login"
    /\ MayStart(r)
    /\ Keep(r, [n |-> r.id, user |-> Login])
    /\ Move(r, "done", {[n |-> r.id, user |-> Login]})
    /\ UNCHANGED <<keys, authenticator, loggedIn, shown, offer>>

\* The response answers the challenge that is kept.
Answers(r) == r.arg.n = Kept(r).n

\* Mutant: any response will do while a registration is under way.
completeAnyRegistration(r) ==
    /\ r.op = "register"
    /\ MayStart(r)
    /\ Kept(r).user # Login
    /\ keys' = keys \cup {[id |-> r.arg.key, user |-> Kept(r).user,
                           counter |-> 0, is_deleted |-> FALSE]}
    /\ Keep(r, Nothing)
    /\ Move(r, "done", {})
    /\ UNCHANGED <<authenticator, loggedIn, shown, offer>>

\* Whatever comes of it, the answer is 204.
completeRegistration(r) ==
    /\ r.op = "register"
    /\ MayStart(r)
    /\ IF Answers(r)
       THEN /\ keys' = keys \cup {[id |-> r.arg.key, user |-> Kept(r).user,
                                   counter |-> 0, is_deleted |-> FALSE]}
            /\ Keep(r, Nothing)
       ELSE UNCHANGED <<keys, options>>
    /\ Move(r, "done", {})
    /\ UNCHANGED <<authenticator, loggedIn, shown, offer>>

KeyOf(r) == {k \in keys : k.id = r.arg.key /\ ~k.is_deleted}

\* The library refuses a counter that has not grown.
LookUpCredential(r) ==
    /\ r.op = "login"
    /\ MayStart(r)
    /\ IF Answers(r) /\ \E k \in KeyOf(r) : k.counter < r.arg.counter
       THEN Move(r, "loaded", KeyOf(r))
       ELSE Move(r, "failed", {})
    /\ UNCHANGED passkeyVars

\* The row is written back as it was read, with other columns in `row'.
UpdateKey(row) == keys' = {IF k.id = row.id THEN row ELSE k : k \in keys}

RowSeen(r) == CHOOSE k \in r.seen : TRUE

\* The counter is stored, and the owner of the key logged in.
completeAuthenticate(r) ==
    /\ Writing(r, "login")
    /\ UpdateKey([RowSeen(r) EXCEPT !.counter = r.arg.counter])
    /\ Keep(r, Nothing)
    /\ loggedIn' = [loggedIn EXCEPT ![SessionOf[r.page]] = RowSeen(r).user]
    /\ Move(r, "done", {})
    /\ UNCHANGED <<authenticator, shown, offer>>

\* Mutant: a removed key is found, too.
FindAnyKey(r) ==
    {k \in keys : k.id = r.arg.key /\ (Me(r) \in Admin \/ k.user = Me(r))}

\* Users who are no administrators find only their own keys.
FindKey(r) == {k \in KeyOf(r) : Me(r) \in Admin \/ k.user = Me(r)}

GetKey(r) ==
    /\ r.op \in {"nick", "remove"}
    /\ MayStart(r)
    /\ Move(r, IF FindKey(r) = {} THEN "done" ELSE "loaded", FindKey(r))
    /\ UNCHANGED passkeyVars

ajax_nick(r) ==
    /\ Writing(r, "nick")
    /\ UpdateKey([RowSeen(r) EXCEPT !.is_deleted = FALSE])
    /\ Move(r, "done", {})
    /\ UNCHANGED <<authenticator, options, loggedIn, shown, offer>>

ajax_remove_key(r) ==
    /\ Writing(r, "remove")
    /\ UpdateKey([RowSeen(r) EXCEPT !.is_deleted = TRUE])
    /\ Move(r, "done", {})
    /\ UNCHANGED <<authenticator, options, loggedIn, shown, offer>>

------------------------------------------------------------------------------
(* The answers. *)

\* Options go to the authenticator; after anything else the page is loaded
\* again or left.  (The answer to a request that was sent before is taken all
\* the same, which a page that is loaded again would not do.)
PasskeyAnswered(r) ==
    /\ r.at \in {"done", "failed"}
    /\ Answered(r)
    /\ offer' = [offer EXCEPT ![r.page] =
                    IF r.op \in {"init_register", "init_login"}
                    THEN CHOOSE o \in r.seen : TRUE ELSE Nothing]
    /\ UNCHANGED <<keys, authenticator, options, loggedIn, shown>>

PasskeyLost(r) == Lose(r) /\ UNCHANGED passkeyVars

PasskeyNext ==
    \/ \E p \in Page :
           \/ openPasskeys(p) \/ registerPasskey(p) \/ loginPasskey(p)
           \/ startRegistration(p) \/ startAuthentication(p)
           \/ savePasskeyName(p) \/ removePasskey(p)
    \/ \E r \in requests :
           \/ beginRegistration(r) \/ beginAuthenticate(r)
           \/ completeRegistration(r) \/ LookUpCredential(r)
           \/ completeAuthenticate(r) \/ GetKey(r)
           \/ ajax_nick(r) \/ ajax_remove_key(r)
           \/ PasskeyAnswered(r) \/ PasskeyLost(r)

------------------------------------------------------------------------------
(* Properties. *)

\* A stored key belongs to the user for whom the authenticator made it,
\* although the pages of a session share one place for the options, an
\* administrator registers keys for others, and a login in another tab
\* changes whom the session belongs to.
KeyIsForItsUser ==
    \A k \in keys : \E a \in authenticator : a.id = k.id /\ a.user = k.user

GoesBack(k, l) == (k.is_deleted /\ ~l.is_deleted) \/ l.counter < k.counter

\* A removed key does not come back, nor does a counter fall (by which a
\* copied authenticator is told), except by a handler of another session that
\* had read the row before it changed.
KeysGoForward ==
    [][\A k \in keys : \A l \in keys' :
           l.id = k.id /\ GoesBack(k, l) =>
               \E r \in requests \ requests' :
                   InHandler(r) /\ \E old \in r.seen : old.id = k.id /\ old # k
      ]_<<requestVars, passkeyVars>>
==============================================================================
