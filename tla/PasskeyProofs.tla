----------------------------- MODULE PasskeyProofs -----------------------------
(***************************************************************************)
(* Theorems about the passkeys of Browser, for any number of pages,        *)
(* sessions, users and requests.  Three invariants, each about the next:   *)
(* requests are told apart by their numbers, challenges by the requests    *)
(* that made them, and a key is stored only by a request that answers the  *)
(* challenge for which the authenticator made it.                          *)
(***************************************************************************)
EXTENDS Browser, TLAPS

WellFormed(r) ==
    r = [id |-> r.id, page |-> r.page, op |-> r.op, arg |-> r.arg,
         at |-> r.at, seen |-> r.seen]

RequestsInv ==
    /\ left \in Nat
    /\ \A r \in requests :
           WellFormed(r) /\ r.page \in Page /\ r.id \in Nat /\ r.id > left
    /\ \A r, q \in requests : r.id = q.id => r = q

LEMMA Sent ==
    ASSUME RequestsInv, NEW p \in Page, NEW op, NEW arg, Send(p, op, arg)
    PROVE  /\ RequestsInv'
           /\ left > 0 /\ left' = left - 1
           /\ \E new : /\ requests' = requests \cup {new}
                       /\ new.id = left /\ new.page = p /\ new.op = op
                       /\ new.arg = arg /\ new.at = "sent" /\ new.seen = {}
  <1> DEFINE new == Request(left, p, op, arg)
  <1>1. /\ left \in Nat /\ left > 0 /\ left' = left - 1
        /\ requests' = requests \cup {new}
    BY DEF Send, RequestsInv
  <1>2. /\ WellFormed(new) /\ new.id = left /\ new.page = p /\ new.op = op
        /\ new.arg = arg /\ new.at = "sent" /\ new.seen = {}
    BY DEF Request, WellFormed
  <1> HIDE DEF new
  <1>3. \A r \in requests' :
            WellFormed(r) /\ r.page \in Page /\ r.id \in Nat /\ r.id > left'
    BY <1>1, <1>2 DEF RequestsInv
  <1>4. \A r, q \in requests' : r.id = q.id => r = q
    BY <1>1, <1>2 DEF RequestsInv
  <1>5. RequestsInv'
    BY <1>1, <1>3, <1>4 DEF RequestsInv, WellFormed
  <1> QED
    BY <1>1, <1>2, <1>5

LEMMA Moved ==
    ASSUME RequestsInv, NEW r \in requests, NEW at, NEW seen, at # r.at,
           Move(r, at, seen)
    PROVE  /\ RequestsInv'
           /\ left' = left
           /\ r \notin requests'
           /\ \E new : /\ requests' = (requests \ {r}) \cup {new}
                       /\ new.id = r.id /\ new.page = r.page /\ new.op = r.op
                       /\ new.arg = r.arg /\ new.at = at /\ new.seen = seen
  <1> DEFINE new == [r EXCEPT !.at = at, !.seen = seen]
  <1>1. requests' = (requests \ {r}) \cup {new} /\ left' = left
    BY DEF Move
  <1>2. WellFormed(r)
    BY DEF RequestsInv
  <1>3. new = [id |-> r.id, page |-> r.page, op |-> r.op, arg |-> r.arg,
               at |-> at, seen |-> seen]
    <2>1. r \in [id : {r.id}, page : {r.page}, op : {r.op}, arg : {r.arg},
                 at : {r.at}, seen : {r.seen}]
      BY <1>2 DEF WellFormed
    <2>2. new \in [id : {r.id}, page : {r.page}, op : {r.op}, arg : {r.arg},
                   at : {at}, seen : {seen}]
      BY <2>1
    <2> HIDE DEF new
    <2> QED
      BY <2>2
  <1> HIDE DEF new
  <1>4. /\ WellFormed(new) /\ new.id = r.id /\ new.page = r.page
        /\ new.op = r.op /\ new.arg = r.arg /\ new.at = at /\ new.seen = seen
    BY <1>3 DEF WellFormed
  <1>5. \A q \in requests' :
            WellFormed(q) /\ q.page \in Page /\ q.id \in Nat /\ q.id > left'
    BY <1>1, <1>4 DEF RequestsInv
  <1>6. \A q, s \in requests' : q.id = s.id => q = s
    BY <1>1, <1>4 DEF RequestsInv
  <1>7. RequestsInv'
    BY <1>1, <1>5, <1>6 DEF RequestsInv, WellFormed
  <1> QED
    BY <1>1, <1>4, <1>7

LEMMA Gone ==
    ASSUME RequestsInv, NEW r \in requests, Answered(r) \/ Lose(r)
    PROVE  RequestsInv' /\ left' = left /\ requests' = requests \ {r}
  BY DEF RequestsInv, WellFormed, Answered, Lose

------------------------------------------------------------------------------
(* The challenges that pages, sessions and answers hold. *)

Inits == {"init_register", "init_login"}

Held == {Nothing} \cup {options[s] : s \in Session}
        \cup {offer[p] : p \in Page}
        \cup UNION {r.seen : r \in {q \in requests : q.op \in Inits}}

\* The authenticator has made this key for this user.
Made(id, u) == \E a \in authenticator : a.id = id /\ a.user = u

Unused(n) ==
    /\ \A c \in Held : c.n # n
    /\ \A q \in requests : q.op = "register" => q.arg.n # n

ChallengeInv ==
    /\ DOMAIN options = Session
    /\ DOMAIN offer = Page
    /\ \A c \in Held : c.n \in Nat /\ (c.n = 0 \/ c.n > left)
    /\ \A c, d \in Held : c.n = d.n => c = d
    /\ \A r \in requests : r.op \in Inits =>
           IF r.at = "sent" THEN r.seen = {} /\ Unused(r.id) ELSE r.seen # {}
    /\ \A q \in requests : q.op = "register" =>
           /\ q.arg.n \in Nat /\ (q.arg.n = 0 \/ q.arg.n > left)
           /\ \E u : /\ Made(q.arg.key, u)
                     /\ \A c \in Held : c.n = q.arg.n => c.user = u

\* No challenge is made, and no registration sent.
LEMMA NothingNew ==
    ASSUME RequestsInv, ChallengeInv,
           DOMAIN options' = Session, DOMAIN offer' = Page,
           Held' \subseteq Held, left' \in Nat, left' <= left,
           \A id, u : Made(id, u) => Made(id, u)',
           \A r \in requests' :
               \/ r \in requests
               \/ r.op \notin Inits \cup {"register"}
               \/ r.op = "register" /\ \E q \in requests :
                      q.op = "register" /\ q.arg = r.arg
               \/ /\ r.op \in Inits /\ r.at = "sent" /\ r.seen = {}
                  /\ r.id = left /\ left > 0
    PROVE  ChallengeInv'
  <1>1. \A c \in Held' : c.n \in Nat /\ (c.n = 0 \/ c.n > left')
    BY DEF ChallengeInv, RequestsInv
  <1>2. \A c, d \in Held' : c.n = d.n => c = d
    BY DEF ChallengeInv
  <1>3. ASSUME NEW q \in requests', q.op = "register"
        PROVE  \E o \in requests : o.op = "register" /\ o.arg = q.arg
    BY <1>3 DEF Inits
  <1>4. ASSUME NEW n, Unused(n) PROVE Unused(n)'
    BY <1>3, <1>4 DEF Unused
  <1>5. ASSUME left > 0 PROVE Unused(left)
    BY <1>5 DEF Unused, ChallengeInv, RequestsInv
  <1>6. ASSUME NEW r \in requests', r.op \in Inits
        PROVE  IF r.at = "sent" THEN r.seen = {} /\ Unused(r.id)'
               ELSE r.seen # {}
    BY <1>4, <1>5, <1>6 DEF ChallengeInv, Inits
  <1>7. ASSUME NEW q \in requests', q.op = "register"
        PROVE  /\ q.arg.n \in Nat /\ (q.arg.n = 0 \/ q.arg.n > left')
               /\ \E u : /\ Made(q.arg.key, u)'
                         /\ \A c \in Held' : c.n = q.arg.n => c.user = u
    <2>1. PICK o \in requests : o.op = "register" /\ o.arg = q.arg
      BY <1>3, <1>7
    <2>2. PICK u : /\ Made(q.arg.key, u)
                   /\ \A c \in Held : c.n = q.arg.n => c.user = u
      BY <2>1 DEF ChallengeInv
    <2>3. q.arg.n \in Nat /\ (q.arg.n = 0 \/ q.arg.n > left')
      BY <2>1 DEF ChallengeInv, RequestsInv
    <2> QED
      BY <2>2, <2>3
  <1> QED
    BY <1>1, <1>2, <1>6, <1>7 DEF ChallengeInv

\* A handler makes a challenge, of the number of its request.
LEMMA NewChallenge ==
    ASSUME RequestsInv, ChallengeInv, NEW r \in requests, r.op \in Inits,
           r.at = "sent", NEW u,
           Move(r, "done", {[n |-> r.id, user |-> u]}),
           Keep(r, [n |-> r.id, user |-> u]), UNCHANGED <<offer, authenticator>>
    PROVE  ChallengeInv'
  <1> DEFINE c == [n |-> r.id, user |-> u]
  <1>1. /\ left' = left /\ RequestsInv' /\ r \notin requests'
        /\ r.page \in Page /\ r.id \in Nat /\ r.id > left /\ left \in Nat
    BY Moved DEF RequestsInv
  <1>2. PICK new : /\ requests' = (requests \ {r}) \cup {new}
                   /\ new.id = r.id /\ new.op = r.op /\ new.at = "done"
                   /\ new.seen = {c}
    BY Moved
  <1>3. c.n = r.id
    OBVIOUS
  <1>4. options' = [options EXCEPT ![SessionOf[r.page]] = c]
    BY DEF Keep
  <1> HIDE DEF c
  <1>5. DOMAIN options' = Session /\ DOMAIN offer' = Page
    BY <1>4 DEF ChallengeInv
  <1>6. Held' \subseteq Held \cup {c}
    <2>1. \A s \in Session : options'[s] \in {c, options[s]}
      BY <1>4 DEF ChallengeInv
    <2>2. \A q \in requests' : q.seen = {c} \/ q \in requests
      BY <1>2
    <2>3. ASSUME NEW d \in Held' PROVE d \in Held \cup {c}
      <3>1. CASE d = Nothing
        BY <3>1 DEF Held
      <3>2. CASE \E s \in Session : d = options'[s]
        BY <3>2, <2>1 DEF Held
      <3>3. CASE \E p \in Page : d = offer[p]
        BY <3>3 DEF Held
      <3>4. CASE \E q \in requests' : q.op \in Inits /\ d \in q.seen
        BY <3>4, <2>2 DEF Held
      <3> QED
        BY <3>1, <3>2, <3>3, <3>4 DEF Held
    <2> QED
      BY <2>3
  <1>7. Unused(r.id)
    BY DEF ChallengeInv
  <1>8. \A d \in Held' : d.n \in Nat /\ (d.n = 0 \/ d.n > left')
    BY <1>1, <1>3, <1>6 DEF ChallengeInv
  <1>9. \A d, e \in Held' : d.n = e.n => d = e
    BY <1>3, <1>6, <1>7 DEF ChallengeInv, Unused
  <1>10. \A q \in requests' : q.op = "register" => q \in requests
    BY <1>2 DEF Inits
  <1>11. ASSUME NEW q \in requests', q.op \in Inits
         PROVE  IF q.at = "sent" THEN q.seen = {} /\ Unused(q.id)'
                ELSE q.seen # {}
    <2>1. CASE q = new
      BY <1>2, <2>1
    <2>2. CASE q \in requests /\ q # r
      <3>1. q.id # r.id
        BY <2>2 DEF RequestsInv
      <3>2. CASE q.at = "sent"
        <4>1. q.seen = {} /\ Unused(q.id)
          BY <1>11, <2>2, <3>2 DEF ChallengeInv
        <4>2. Unused(q.id)'
          BY <1>3, <1>6, <1>10, <3>1, <4>1 DEF Unused
        <4> QED
          BY <3>2, <4>1, <4>2
      <3>3. CASE q.at # "sent"
        BY <1>11, <2>2, <3>3 DEF ChallengeInv
      <3> QED
        BY <3>2, <3>3
    <2> QED
      BY <1>1, <1>2, <2>1, <2>2
  <1>12. ASSUME NEW q \in requests', q.op = "register"
         PROVE  /\ q.arg.n \in Nat /\ (q.arg.n = 0 \/ q.arg.n > left')
                /\ \E v : /\ Made(q.arg.key, v)'
                          /\ \A d \in Held' : d.n = q.arg.n => d.user = v
    <2>1. q \in requests
      BY <1>10, <1>12
    <2>2. PICK v : /\ Made(q.arg.key, v)
                   /\ \A d \in Held : d.n = q.arg.n => d.user = v
      BY <1>12, <2>1 DEF ChallengeInv
    <2>3. q.arg.n # c.n
      BY <1>3, <1>7, <1>12, <2>1 DEF Unused
    <2>4. q.arg.n \in Nat /\ (q.arg.n = 0 \/ q.arg.n > left')
      BY <1>1, <1>12, <2>1 DEF ChallengeInv
    <2>5. Made(q.arg.key, v)'
      BY <2>2 DEF Made
    <2> QED
      BY <1>6, <2>2, <2>3, <2>4, <2>5
  <1> QED
    BY <1>5, <1>8, <1>9, <1>11, <1>12 DEF ChallengeInv

\* The authenticator makes a key and the page asks to store it.
LEMMA NewRegistration ==
    ASSUME RequestsInv, ChallengeInv, NEW p \in Page, startRegistration(p)
    PROVE  ChallengeInv'
  <1> DEFINE o == offer[p]
  <1>1. PICK new : /\ requests' = requests \cup {new} /\ new.id = left
                   /\ new.op = "register" /\ new.arg.n = o.n
                   /\ new.arg.key = left
    BY Sent DEF startRegistration
  <1>2. left' = left - 1 /\ left > 0 /\ left \in Nat
    BY Sent DEF startRegistration, RequestsInv
  <1>3. /\ offer' = [offer EXCEPT ![p] = Nothing] /\ UNCHANGED options
        /\ authenticator' = authenticator \cup
               {[id |-> left, user |-> o.user, counter |-> 0]}
    BY DEF startRegistration
  <1>4. o \in Held
    BY DEF Held
  <1> HIDE DEF o
  <1>5. Held' \subseteq Held
    <2>1. \A q \in Page : offer'[q] \in {Nothing, offer[q]}
      BY <1>3 DEF ChallengeInv
    <2>2. \A q \in requests' : q.op \in Inits => q \in requests
      BY <1>1 DEF Inits
    <2>3. ASSUME NEW d \in Held' PROVE d \in Held
      <3>1. CASE d = Nothing
        BY <3>1 DEF Held
      <3>2. CASE \E s \in Session : d = options[s]
        BY <3>2 DEF Held
      <3>3. CASE \E q \in Page : d = offer'[q]
        BY <3>3, <2>1 DEF Held
      <3>4. CASE \E q \in requests' : q.op \in Inits /\ d \in q.seen
        BY <3>4, <2>2 DEF Held
      <3> QED
        BY <1>3, <3>1, <3>2, <3>3, <3>4 DEF Held
    <2> QED
      BY <2>3
  <1>6. DOMAIN options' = Session /\ DOMAIN offer' = Page
    BY <1>3 DEF ChallengeInv
  <1>7. \A c \in Held' : c.n \in Nat /\ (c.n = 0 \/ c.n > left')
    BY <1>2, <1>5 DEF ChallengeInv
  <1>8. \A c, d \in Held' : c.n = d.n => c = d
    BY <1>5 DEF ChallengeInv
  <1>9. ASSUME NEW q \in requests', q.op \in Inits
        PROVE  IF q.at = "sent" THEN q.seen = {} /\ Unused(q.id)'
               ELSE q.seen # {}
    <2>1. q \in requests
      BY <1>1, <1>9 DEF Inits
    <2>2. CASE q.at = "sent"
      <3>1. q.seen = {} /\ Unused(q.id)
        BY <1>9, <2>1, <2>2 DEF ChallengeInv
      <3>2. o.n # q.id
        BY <1>4, <3>1 DEF Unused
      <3>3. Unused(q.id)'
        BY <1>1, <1>5, <3>1, <3>2 DEF Unused
      <3> QED
        BY <2>2, <3>1, <3>3
    <2>3. CASE q.at # "sent"
      BY <1>9, <2>1, <2>3 DEF ChallengeInv
    <2> QED
      BY <2>2, <2>3
  <1>10. ASSUME NEW q \in requests', q.op = "register"
         PROVE  /\ q.arg.n \in Nat /\ (q.arg.n = 0 \/ q.arg.n > left')
                /\ \E u : /\ Made(q.arg.key, u)'
                          /\ \A c \in Held' : c.n = q.arg.n => c.user = u
    <2>1. CASE q = new
      <3>0. PICK u : u = o.user
        OBVIOUS
      <3>1. Made(q.arg.key, u)'
        <4>1. q.arg.key = left
          BY <1>1, <2>1
        <4>2. [id |-> left, user |-> u, counter |-> 0] \in authenticator'
          BY <1>3, <3>0
        <4> QED
          BY <4>1, <4>2 DEF Made
      <3>2. \A c \in Held' : c.n = o.n => c.user = u
        BY <1>4, <1>5, <3>0 DEF ChallengeInv
      <3>3. o.n \in Nat /\ (o.n = 0 \/ o.n > left')
        BY <1>2, <1>4 DEF ChallengeInv
      <3> QED
        BY <1>1, <2>1, <3>1, <3>2, <3>3
    <2>2. CASE q \in requests
      <3>1. PICK u : /\ Made(q.arg.key, u)
                     /\ \A c \in Held : c.n = q.arg.n => c.user = u
        BY <1>10, <2>2 DEF ChallengeInv
      <3>2. q.arg.n \in Nat /\ (q.arg.n = 0 \/ q.arg.n > left')
        BY <1>2, <1>10, <2>2 DEF ChallengeInv
      <3>3. Made(q.arg.key, u)'
        BY <1>3, <3>1 DEF Made
      <3> QED
        BY <1>5, <3>1, <3>2, <3>3
    <2> QED
      BY <1>1, <2>1, <2>2
  <1> QED
    BY <1>6, <1>7, <1>8, <1>9, <1>10 DEF ChallengeInv

\* Challenges go only where a handler or a page puts them.
LEMMA HeldKept ==
    ASSUME ChallengeInv,
           \A s \in Session : options'[s] \in {Nothing, options[s]},
           \A p \in Page : offer'[p] \in Held,
           \A r \in requests' :
               r.op \in Inits => r \in requests \/ r.seen = {}
    PROVE  Held' \subseteq Held
  <1>1. ASSUME NEW d \in Held' PROVE d \in Held
    <2>1. CASE d = Nothing
      BY <2>1 DEF Held
    <2>2. CASE \E s \in Session : d = options'[s]
      BY <2>2 DEF Held
    <2>3. CASE \E q \in Page : d = offer'[q]
      BY <2>3
    <2>4. CASE \E q \in requests' : q.op \in Inits /\ d \in q.seen
      BY <2>4 DEF Held
    <2> QED
      BY <2>1, <2>2, <2>3, <2>4 DEF Held
  <1> QED
    BY <1>1

LEMMA ChallengesOfPages ==
    ASSUME RequestsInv, ChallengeInv, NEW p \in Page,
           \/ openPasskeys(p) \/ registerPasskey(p) \/ loginPasskey(p)
           \/ startAuthentication(p) \/ savePasskeyName(p) \/ removePasskey(p),
           \A a \in authenticator : a = [id |-> a.id, user |-> a.user,
                                         counter |-> a.counter]
    PROVE  RequestsInv' /\ ChallengeInv'
  <1>1. UNCHANGED options
    BY DEF openPasskeys, registerPasskey, loginPasskey, startAuthentication,
           savePasskeyName, removePasskey, passkeyVars
  <1>2. offer' \in {offer, [offer EXCEPT ![p] = Nothing]}
    BY DEF openPasskeys, registerPasskey, loginPasskey, startAuthentication,
           savePasskeyName, removePasskey, passkeyVars
  <1>3. /\ DOMAIN options' = Session /\ DOMAIN offer' = Page
        /\ \A s \in Session : options'[s] \in {Nothing, options[s]}
        /\ \A q \in Page : offer'[q] \in Held
    BY <1>1, <1>2 DEF ChallengeInv, Held
  <1>4. ASSUME NEW id, NEW u, Made(id, u) PROVE Made(id, u)'
    <2>1. CASE UNCHANGED authenticator
      BY <1>4, <2>1 DEF Made
    <2>2. CASE startAuthentication(p)
      <3>1. PICK a \in authenticator :
                authenticator' = (authenticator \ {a}) \cup
                                     {[a EXCEPT !.counter = @ + 1]}
        BY <2>2 DEF startAuthentication
      <3>2. a = [id |-> a.id, user |-> a.user, counter |-> a.counter]
        OBVIOUS
      <3>3. [a EXCEPT !.counter = @ + 1].id = a.id
            /\ [a EXCEPT !.counter = @ + 1].user = a.user
        BY <3>2
      <3> QED
        BY <1>4, <3>1, <3>3 DEF Made
    <2> QED
      BY <2>1, <2>2 DEF openPasskeys, registerPasskey, loginPasskey,
                        savePasskeyName, removePasskey, passkeyVars
  <1>5. CASE openPasskeys(p)
    <2>1. UNCHANGED <<requests, left>> /\ left \in Nat
      BY <1>5 DEF openPasskeys, Reload, RequestsInv
    <2>2. RequestsInv'
      BY <2>1 DEF RequestsInv, WellFormed
    <2>3. Held' \subseteq Held
      BY <1>3, <2>1, HeldKept
    <2> QED
      BY <1>3, <1>4, <2>1, <2>2, <2>3, NothingNew
  <1>6. CASE ~openPasskeys(p)
    <2>1. PICK op \in {"init_register", "init_login", "login", "nick",
                       "remove"} : \E arg : Send(p, op, arg)
      BY <1>6 DEF registerPasskey, loginPasskey, startAuthentication,
                  savePasskeyName, removePasskey
    <2>2. PICK arg : Send(p, op, arg)
      BY <2>1
    <2>3. RequestsInv' /\ left > 0 /\ left' = left - 1 /\ left \in Nat
      BY <2>2, Sent DEF RequestsInv
    <2>4. PICK new : /\ requests' = requests \cup {new} /\ new.id = left
                     /\ new.op = op /\ new.at = "sent" /\ new.seen = {}
      BY <2>2, Sent
    <2>5. Held' \subseteq Held
      BY <1>3, <2>4, HeldKept
    <2>6. left' \in Nat /\ left' <= left
      BY <2>3
    <2>7. \A r \in requests' :
              \/ r \in requests
              \/ r.op \notin Inits \cup {"register"}
              \/ /\ r.op \in Inits /\ r.at = "sent" /\ r.seen = {}
                 /\ r.id = left /\ left > 0
      BY <2>1, <2>3, <2>4 DEF Inits
    <2> QED
      BY <1>3, <1>4, <2>3, <2>5, <2>6, <2>7, NothingNew
  <1> QED
    BY <1>5, <1>6

\* Handlers other than those that make challenges, and answers.
LEMMA ChallengesOfHandlers ==
    ASSUME RequestsInv, ChallengeInv, NEW r \in requests,
           \/ completeRegistration(r) \/ LookUpCredential(r)
           \/ completeAuthenticate(r) \/ GetKey(r)
           \/ ajax_nick(r) \/ ajax_remove_key(r)
           \/ PasskeyAnswered(r) \/ PasskeyLost(r)
    PROVE  RequestsInv' /\ ChallengeInv'
  <1>1. UNCHANGED authenticator
    BY DEF completeRegistration, LookUpCredential, completeAuthenticate,
           GetKey, ajax_nick, ajax_remove_key, PasskeyAnswered, PasskeyLost,
           passkeyVars
  <1>2. options' \in {options, [options EXCEPT ![SessionOf[r.page]] = Nothing]}
    BY DEF completeRegistration, LookUpCredential, completeAuthenticate,
           GetKey, ajax_nick, ajax_remove_key, PasskeyAnswered, PasskeyLost,
           passkeyVars, Keep
  <1>3. /\ DOMAIN options' = Session
        /\ \A s \in Session : options'[s] \in {Nothing, options[s]}
    BY <1>2 DEF ChallengeInv
  <1>4. \A id, u : Made(id, u) => Made(id, u)'
    BY <1>1 DEF Made
  <1>5. CASE PasskeyAnswered(r) \/ PasskeyLost(r)
    <2>1. RequestsInv' /\ left' = left /\ left \in Nat
          /\ requests' = requests \ {r}
      BY <1>5, Gone DEF PasskeyAnswered, PasskeyLost, RequestsInv
    <2>2. DOMAIN offer' = Page /\ \A q \in Page : offer'[q] \in Held
      <3>1. CASE PasskeyLost(r)
        BY <3>1 DEF PasskeyLost, passkeyVars, ChallengeInv, Held
      <3>2. CASE PasskeyAnswered(r) /\ r.op \in Inits
        <4>1. r.at # "sent"
          BY <3>2 DEF PasskeyAnswered
        <4>2. r.seen # {}
          BY <3>2, <4>1 DEF ChallengeInv
        <4>3. (CHOOSE o \in r.seen : TRUE) \in r.seen
          BY <4>2
        <4>4. offer' = [offer EXCEPT ![r.page] = CHOOSE o \in r.seen : TRUE]
          BY <3>2 DEF PasskeyAnswered, Inits
        <4>5. (CHOOSE o \in r.seen : TRUE) \in Held
          BY <3>2, <4>3 DEF Held
        <4> QED
          BY <4>4, <4>5 DEF ChallengeInv, Held
      <3>3. CASE PasskeyAnswered(r) /\ r.op \notin Inits
        <4>1. offer' = [offer EXCEPT ![r.page] = Nothing]
          BY <3>3 DEF PasskeyAnswered, Inits
        <4> QED
          BY <4>1 DEF ChallengeInv, Held
      <3> QED
        BY <1>5, <3>1, <3>2, <3>3
    <2>3. Held' \subseteq Held
      BY <1>3, <2>1, <2>2, HeldKept
    <2> QED
      BY <1>3, <1>4, <2>1, <2>2, <2>3, NothingNew
  <1>6. CASE ~(PasskeyAnswered(r) \/ PasskeyLost(r))
    <2>1. PICK at, seen : at # r.at /\ Move(r, at, seen)
      BY <1>6 DEF completeRegistration, LookUpCredential,
                  completeAuthenticate, GetKey, ajax_nick, ajax_remove_key,
                  MayStart, Writing
    <2>2. UNCHANGED offer /\ r.op \notin Inits
      BY <1>6 DEF completeRegistration, LookUpCredential,
                  completeAuthenticate, GetKey, ajax_nick, ajax_remove_key,
                  passkeyVars, Writing, Inits
    <2>3. RequestsInv' /\ left' = left /\ left \in Nat
      BY <2>1, Moved DEF RequestsInv
    <2>4. PICK new : /\ requests' = (requests \ {r}) \cup {new}
                     /\ new.op = r.op /\ new.arg = r.arg
      BY <2>1, Moved
    <2>5. DOMAIN offer' = Page /\ \A q \in Page : offer'[q] \in Held
      BY <2>2 DEF ChallengeInv, Held
    <2>6. Held' \subseteq Held
      BY <1>3, <2>2, <2>4, <2>5, HeldKept
    <2>7. \A q \in requests' :
              \/ q \in requests
              \/ q.op \notin Inits \cup {"register"}
              \/ q.op = "register" /\ \E o \in requests :
                     o.op = "register" /\ o.arg = q.arg
      BY <2>2, <2>4
    <2> QED
      BY <1>3, <1>4, <2>3, <2>5, <2>6, <2>7, NothingNew
  <1> QED
    BY <1>5, <1>6

------------------------------------------------------------------------------
(* The stored keys, and the rows that handlers hold. *)

IsKey(k) ==
    /\ k = [id |-> k.id, user |-> k.user, counter |-> k.counter,
            is_deleted |-> k.is_deleted]
    /\ k.counter \in Nat
    /\ Made(k.id, k.user)

\* The keys of an authenticator are numbered by the requests that store them.
Numbered(n) == n \in Nat /\ (n = 0 \/ n > left)

KeysInv ==
    /\ \A a \in authenticator :
           /\ a = [id |-> a.id, user |-> a.user, counter |-> a.counter]
           /\ a.counter \in Nat
    /\ \A k \in keys : IsKey(k) /\ Numbered(k.id)
    /\ \A k, l \in keys : k.id = l.id => k = l
    /\ \A q \in requests :
           /\ q.op = "register" =>
                  /\ q.arg.key = q.id
                  /\ q.at = "sent" => \A k \in keys : k.id # q.id
           /\ q.op = "login" => q.arg.counter \in Nat
           /\ q.at = "loaded" =>
                  /\ q.seen # {}
                  /\ \A k \in q.seen :
                         /\ IsKey(k) /\ Numbered(k.id) /\ ~k.is_deleted
                         /\ q.op = "login" => k.counter < q.arg.counter

PasskeyInv == RequestsInv /\ ChallengeInv /\ KeysInv

\* What a step may do to a row unless a handler held another version of it.
Forward ==
    \A k \in keys : \A l \in keys' :
        l.id = k.id /\ GoesBack(k, l) =>
            \E r \in requests \ requests' :
                InHandler(r) /\ \E old \in r.seen : old.id = k.id /\ old # k

LEMMA KeysRest ==
    ASSUME KeysInv, UNCHANGED keys
    PROVE  Forward
  BY DEF KeysInv, Forward, GoesBack, IsKey

\* A handler writes the row it holds, changed.
LEMMA RowWritten ==
    ASSUME RequestsInv, KeysInv, NEW r \in requests, r.at = "loaded",
           NEW row, row = RowSeen(r), NEW new,
           new = [id |-> row.id, user |-> row.user, counter |-> new.counter,
                  is_deleted |-> new.is_deleted],
           new.counter \in Nat, new.counter >= row.counter,
           UpdateKey(new), Move(r, "done", {}), UNCHANGED authenticator
    PROVE  KeysInv' /\ Forward
  <1>1. /\ row \in r.seen /\ IsKey(row) /\ Numbered(row.id) /\ ~row.is_deleted
    BY DEF RowSeen, KeysInv
  <1>2. PICK q : /\ requests' = (requests \ {r}) \cup {q}
                 /\ q.id = r.id /\ q.op = r.op /\ q.arg = r.arg /\ q.at = "done"
    BY Moved
  <1>3. r \notin requests' /\ left' = left
    BY Moved
  <1>4. new.id = row.id /\ new.user = row.user
    OBVIOUS
  <1>5. /\ keys' = {IF k.id = new.id THEN new ELSE k : k \in keys}
    BY DEF UpdateKey
  <1>6. ASSUME NEW k, IsKey(k) PROVE IsKey(k)'
    BY <1>6 DEF IsKey, Made
  <1>7. IsKey(new)'
    BY <1>1, <1>4 DEF IsKey, Made
  <1>8. \A k \in keys' : IsKey(k)' /\ Numbered(k.id)'
    BY <1>1, <1>3, <1>4, <1>5, <1>6, <1>7 DEF KeysInv, Numbered
  <1>9. \A k, l \in keys' : k.id = l.id => k = l
    BY <1>5 DEF KeysInv
  <1>10. \A k \in keys' : \E l \in keys : k.id = l.id
    BY <1>5
  <1>11. ASSUME NEW s \in requests'
         PROVE  /\ s.op = "register" =>
                       /\ s.arg.key = s.id
                       /\ s.at = "sent" => \A k \in keys' : k.id # s.id
                /\ s.op = "login" => s.arg.counter \in Nat
    BY <1>2, <1>10 DEF KeysInv
  <1>12. ASSUME NEW s \in requests', s.at = "loaded"
         PROVE  /\ s.seen # {}
                /\ \A k \in s.seen :
                       /\ IsKey(k)' /\ Numbered(k.id)' /\ ~k.is_deleted
                       /\ s.op = "login" => k.counter < s.arg.counter
    BY <1>2, <1>3, <1>6, <1>12 DEF KeysInv, Numbered
  <1>13. KeysInv'
    <2>1. \A a \in authenticator' :
              /\ a = [id |-> a.id, user |-> a.user, counter |-> a.counter]
              /\ a.counter \in Nat
      BY DEF KeysInv
    <2> QED
      BY <1>8, <1>9, <1>11, <1>12, <2>1 DEF KeysInv
  <1>14. Forward
    <2> SUFFICES ASSUME NEW k \in keys, NEW l \in keys', l.id = k.id,
                        GoesBack(k, l)
                 PROVE  row.id = k.id /\ row # k
      BY <1>1, <1>3 DEF Forward, InHandler
    <2>1. IsKey(k)
      BY DEF KeysInv
    <2>2. l # k
      BY <2>1 DEF GoesBack, IsKey
    <2>3. l = new /\ row.id = k.id
      BY <1>4, <1>5, <2>2 DEF KeysInv
    <2>4. row # k
      BY <1>1, <2>1, <2>3 DEF GoesBack, IsKey
    <2> QED
      BY <2>3, <2>4
  <1> QED
    BY <1>13, <1>14

\* Nothing is written to the keys, and no handler has read one.
LEMMA KeysOfPages ==
    ASSUME RequestsInv, RequestsInv', KeysInv, UNCHANGED keys,
           left' <= left,
           \A a \in authenticator' :
               /\ a = [id |-> a.id, user |-> a.user, counter |-> a.counter]
               /\ a.counter \in Nat,
           \A id, u : Made(id, u) => Made(id, u)',
           \A q \in requests' :
               \/ q \in requests
               \/ q.at # "loaded" /\ q.op \notin {"register", "login"}
               \/ /\ q.at = "sent" /\ q.op = "register"
                  /\ q.arg.key = q.id /\ q.id = left /\ left > 0
               \/ q.at = "sent" /\ q.op = "login" /\ q.arg.counter \in Nat
               \/ q.at # "loaded" /\ \E r \in requests :
                      /\ q.op = r.op /\ q.arg = r.arg /\ q.id = r.id
                      /\ q.at = "sent" => r.at = "sent"
    PROVE  KeysInv' /\ Forward
  <1>1. ASSUME NEW k, IsKey(k) PROVE IsKey(k)'
    BY <1>1 DEF IsKey
  <1>2. ASSUME NEW n, Numbered(n) PROVE Numbered(n)'
    BY <1>2 DEF Numbered, RequestsInv
  <1>3. \A k \in keys' : IsKey(k)' /\ Numbered(k.id)'
    BY <1>1, <1>2 DEF KeysInv
  <1>4. ASSUME left > 0 PROVE \A k \in keys : k.id # left
    BY <1>4 DEF KeysInv, Numbered, RequestsInv
  <1>5. ASSUME NEW q \in requests'
        PROVE  /\ q.op = "register" =>
                      /\ q.arg.key = q.id
                      /\ q.at = "sent" => \A k \in keys' : k.id # q.id
               /\ q.op = "login" => q.arg.counter \in Nat
    BY <1>4 DEF KeysInv
  <1>6. ASSUME NEW q \in requests', q.at = "loaded"
        PROVE  /\ q.seen # {}
               /\ \A k \in q.seen :
                      /\ IsKey(k)' /\ Numbered(k.id)' /\ ~k.is_deleted
                      /\ q.op = "login" => k.counter < q.arg.counter
    BY <1>1, <1>2, <1>6 DEF KeysInv
  <1>7. \A k, l \in keys' : k.id = l.id => k = l
    BY DEF KeysInv
  <1>8. KeysInv'
    BY <1>3, <1>5, <1>6, <1>7 DEF KeysInv
  <1> QED
    BY <1>8, KeysRest

\* The steps of a page.
LEMMA PageSteps ==
    ASSUME PasskeyInv, NEW p \in Page,
           \/ openPasskeys(p) \/ registerPasskey(p) \/ loginPasskey(p)
           \/ startRegistration(p) \/ startAuthentication(p)
           \/ savePasskeyName(p) \/ removePasskey(p)
    PROVE  PasskeyInv' /\ Forward
  <1>1. RequestsInv /\ ChallengeInv /\ KeysInv
    BY DEF PasskeyInv
  <1>2. \A a \in authenticator :
            /\ a = [id |-> a.id, user |-> a.user, counter |-> a.counter]
            /\ a.counter \in Nat
    BY <1>1 DEF KeysInv
  <1>3. UNCHANGED keys
    BY DEF openPasskeys, registerPasskey, loginPasskey, startRegistration,
           startAuthentication, savePasskeyName, removePasskey, passkeyVars
  <1>4. CASE startRegistration(p)
    <2>1. ChallengeInv'
      BY <1>1, <1>4, NewRegistration
    <2>2. RequestsInv' /\ left' = left - 1 /\ left > 0 /\ left \in Nat
      BY <1>1, <1>4, Sent DEF startRegistration, RequestsInv
    <2>3. PICK new : /\ requests' = requests \cup {new} /\ new.id = left
                     /\ new.op = "register" /\ new.at = "sent"
                     /\ new.arg.key = left
      BY <1>1, <1>4, Sent DEF startRegistration
    <2>4. authenticator' = authenticator \cup
              {[id |-> left, user |-> offer[p].user, counter |-> 0]}
      BY <1>4 DEF startRegistration
    <2>5. \A a \in authenticator' :
              /\ a = [id |-> a.id, user |-> a.user, counter |-> a.counter]
              /\ a.counter \in Nat
      BY <1>2, <2>4
    <2>6. \A id, u : Made(id, u) => Made(id, u)'
      BY <2>4 DEF Made
    <2>7. KeysInv' /\ Forward
      BY <1>1, <1>3, <2>2, <2>3, <2>5, <2>6, KeysOfPages
    <2> QED
      BY <2>1, <2>2, <2>7 DEF PasskeyInv
  <1>5. CASE startAuthentication(p)
    <2>1. RequestsInv' /\ ChallengeInv'
      BY <1>1, <1>2, <1>5, ChallengesOfPages
    <2>2. PICK a \in authenticator :
              /\ authenticator' = (authenticator \ {a}) \cup
                                      {[a EXCEPT !.counter = @ + 1]}
              /\ Send(p, "login", [n |-> offer[p].n, key |-> a.id, counter |->
                                   [a EXCEPT !.counter = @ + 1].counter])
      BY <1>5 DEF startAuthentication
    <2>3. [a EXCEPT !.counter = @ + 1] =
              [id |-> a.id, user |-> a.user, counter |-> a.counter + 1]
      <3>1. a \in [id : {a.id}, user : {a.user}, counter : Nat]
        BY <1>2
      <3> QED
        BY <3>1
    <2>4. PICK new : /\ requests' = requests \cup {new} /\ new.at = "sent"
                     /\ new.op = "login" /\ new.arg.counter = a.counter + 1
      BY <1>1, <2>2, <2>3, Sent
    <2>5. new.arg.counter \in Nat
      BY <1>2, <2>4
    <2>6. \A b \in authenticator' :
              /\ b = [id |-> b.id, user |-> b.user, counter |-> b.counter]
              /\ b.counter \in Nat
      BY <1>2, <2>2, <2>3
    <2>7. \A id, u : Made(id, u) => Made(id, u)'
      BY <2>2, <2>3 DEF Made
    <2>8. left' <= left
      BY <1>1, <2>2, Sent DEF RequestsInv
    <2>9. KeysInv' /\ Forward
      BY <1>1, <1>3, <2>1, <2>4, <2>5, <2>6, <2>7, <2>8, KeysOfPages
    <2> QED
      BY <2>1, <2>9 DEF PasskeyInv
  <1>6. CASE openPasskeys(p)
    <2>1. RequestsInv' /\ ChallengeInv'
      BY <1>1, <1>2, <1>6, ChallengesOfPages
    <2>2. UNCHANGED <<requests, left, authenticator>>
      BY <1>6 DEF openPasskeys, Reload
    <2>3. left' <= left
      BY <1>1, <2>2 DEF RequestsInv
    <2>4. KeysInv' /\ Forward
      BY <1>1, <1>2, <1>3, <2>1, <2>2, <2>3, KeysOfPages DEF Made
    <2> QED
      BY <2>1, <2>4 DEF PasskeyInv
  <1>7. CASE \/ registerPasskey(p) \/ loginPasskey(p)
             \/ savePasskeyName(p) \/ removePasskey(p)
    <2>1. RequestsInv' /\ ChallengeInv'
      BY <1>1, <1>2, <1>7, ChallengesOfPages
    <2>2. PICK op, arg : /\ op \notin {"register", "login"}
                         /\ Send(p, op, arg)
      BY <1>7 DEF registerPasskey, loginPasskey, savePasskeyName,
                  removePasskey
    <2>3. UNCHANGED authenticator
      BY <1>7 DEF registerPasskey, loginPasskey, savePasskeyName,
                  removePasskey, passkeyVars
    <2>4. left' <= left
      BY <1>1, <2>2, Sent DEF RequestsInv
    <2>5. PICK new : /\ requests' = requests \cup {new}
                     /\ new.op = op /\ new.at = "sent"
      BY <1>1, <2>2, Sent
    <2>6. KeysInv' /\ Forward
      BY <1>1, <1>2, <1>3, <2>1, <2>2, <2>3, <2>4, <2>5, KeysOfPages DEF Made
    <2> QED
      BY <2>1, <2>6 DEF PasskeyInv
  <1> QED
    BY <1>4, <1>5, <1>6, <1>7

\* The handlers that read before they write: the rows found are as they are.
LEMMA RowsFound ==
    ASSUME PasskeyInv, NEW r \in requests,
           LookUpCredential(r) \/ GetKey(r)
    PROVE  KeysInv' /\ Forward
  <1>1. RequestsInv /\ KeysInv /\ UNCHANGED passkeyVars
    BY DEF PasskeyInv, LookUpCredential, GetKey
  <1>2. PICK at, seen :
            /\ at # r.at /\ Move(r, at, seen)
            /\ r.op # "register"
            /\ at = "loaded" =>
                   /\ seen \subseteq KeyOf(r) /\ seen # {}
                   /\ r.op = "login" =>
                          \E k \in seen : k.counter < r.arg.counter
    <2>1. CASE LookUpCredential(r)
      BY <2>1 DEF LookUpCredential, MayStart
    <2>2. CASE GetKey(r)
      BY <2>2 DEF GetKey, MayStart, FindKey
    <2> QED
      BY <2>1, <2>2
  <1>3. left' = left
    BY <1>1, <1>2, Moved
  <1>4. PICK new : /\ requests' = (requests \ {r}) \cup {new}
                   /\ new.id = r.id /\ new.op = r.op /\ new.arg = r.arg
                   /\ new.at = at /\ new.seen = seen
    BY <1>1, <1>2, Moved
  <1>5. ASSUME NEW k, IsKey(k) PROVE IsKey(k)'
    BY <1>1, <1>5 DEF IsKey, Made, passkeyVars
  <1>6. ASSUME NEW n, Numbered(n) PROVE Numbered(n)'
    BY <1>3, <1>6 DEF Numbered
  <1>7. ASSUME NEW q \in requests', q.at = "loaded"
        PROVE  /\ q.seen # {}
               /\ \A k \in q.seen :
                      /\ IsKey(k)' /\ Numbered(k.id)' /\ ~k.is_deleted
                      /\ q.op = "login" => k.counter < q.arg.counter
    <2>1. CASE q = new
      <3>1. seen \subseteq KeyOf(r) /\ seen # {}
        BY <1>2, <1>4, <1>7, <2>1
      <3>2. \A k \in seen : k \in keys /\ k.id = r.arg.key /\ ~k.is_deleted
        BY <3>1 DEF KeyOf
      <3>3. \A k, l \in seen : k = l
        BY <1>1, <3>2 DEF KeysInv
      <3>4. r.op = "login" => \A k \in seen : k.counter < r.arg.counter
        BY <1>2, <1>4, <1>7, <2>1, <3>3
      <3>5. \A k \in seen : IsKey(k)' /\ Numbered(k.id)'
        BY <1>1, <1>5, <1>6, <3>2 DEF KeysInv
      <3> QED
        BY <1>4, <2>1, <3>1, <3>2, <3>4, <3>5
    <2>2. CASE q \in requests
      BY <1>1, <1>5, <1>6, <1>7, <2>2 DEF KeysInv
    <2> QED
      BY <1>4, <2>1, <2>2
  <1>8. ASSUME NEW q \in requests'
        PROVE  /\ q.op = "register" =>
                      /\ q.arg.key = q.id
                      /\ q.at = "sent" => \A k \in keys' : k.id # q.id
               /\ q.op = "login" => q.arg.counter \in Nat
    BY <1>1, <1>2, <1>4 DEF KeysInv, passkeyVars
  <1>9. \A k \in keys' : IsKey(k)' /\ Numbered(k.id)'
    BY <1>1, <1>5, <1>6 DEF KeysInv, passkeyVars
  <1>10. KeysInv'
    BY <1>1, <1>7, <1>8, <1>9 DEF KeysInv, passkeyVars
  <1> QED
    BY <1>1, <1>10, KeysRest DEF passkeyVars

\* The key that is stored answers the challenge that names its user.
LEMMA KeyStored ==
    ASSUME PasskeyInv, NEW r \in requests, completeRegistration(r)
    PROVE  KeysInv' /\ Forward
  <1>1. RequestsInv /\ ChallengeInv /\ KeysInv
    BY DEF PasskeyInv
  <1>2. /\ r.op = "register" /\ r.at = "sent" /\ Move(r, "done", {})
        /\ UNCHANGED authenticator /\ r.page \in Page /\ r.arg.key = r.id
    BY <1>1 DEF completeRegistration, MayStart, RequestsInv, KeysInv
  <1>3. /\ left' = left /\ RequestsInv'
        /\ r \notin requests' /\ r.id \in Nat /\ r.id > left
    BY <1>1, <1>2, Moved DEF RequestsInv
  <1>4. PICK new : /\ requests' = (requests \ {r}) \cup {new}
                   /\ new.id = r.id /\ new.op = r.op /\ new.arg = r.arg
                   /\ new.at = "done"
    BY <1>1, <1>2, Moved
  <1>5. CASE UNCHANGED keys
    BY <1>1, <1>2, <1>3, <1>4, <1>5, KeysOfPages DEF KeysInv, Made, RequestsInv
  <1>6. CASE Answers(r)
    <2> DEFINE k == [id |-> r.arg.key, user |-> Kept(r).user, counter |-> 0,
                     is_deleted |-> FALSE]
    <2>1. keys' = keys \cup {k}
      BY <1>6 DEF completeRegistration
    <2>2. Kept(r) \in Held
      BY <1>2, PagesHaveSessions DEF Kept, Held
    <2>3. Made(r.arg.key, Kept(r).user)
      BY <1>1, <1>2, <1>6, <2>2 DEF ChallengeInv, Answers
    <2>4. k.id = r.id /\ k.user = Kept(r).user /\ k.counter = 0
          /\ k = [id |-> k.id, user |-> k.user, counter |-> k.counter,
                  is_deleted |-> k.is_deleted]
      BY <1>2
    <2>5. k.id = r.arg.key
      OBVIOUS
    <2> HIDE DEF k
    <2>6. IsKey(k)
      BY <2>3, <2>4, <2>5 DEF IsKey
    <2>7. ASSUME NEW l, IsKey(l) PROVE IsKey(l)'
      BY <1>2, <2>7 DEF IsKey, Made
    <2>8. \A l \in keys' : IsKey(l)' /\ Numbered(l.id)'
      <3>1. ASSUME NEW l \in keys' PROVE IsKey(l) /\ Numbered(l.id)
        BY <1>1, <1>3, <2>1, <2>4, <2>6, <3>1 DEF KeysInv, Numbered
      <3> QED
        BY <1>3, <2>7, <3>1 DEF Numbered
    <2>9. \A l \in keys : l.id # r.id
      BY <1>1, <1>2 DEF KeysInv
    <2>10. \A l, m \in keys' : l.id = m.id => l = m
      BY <1>1, <2>1, <2>4, <2>9 DEF KeysInv
    <2>11. ASSUME NEW q \in requests'
           PROVE  /\ q.op = "register" =>
                         /\ q.arg.key = q.id
                         /\ q.at = "sent" => \A l \in keys' : l.id # q.id
                  /\ q.op = "login" => q.arg.counter \in Nat
      <3>1. CASE q = new
        BY <1>2, <1>4, <3>1
      <3>2. CASE q \in requests /\ q # r
        <4>1. q.id # r.id
          BY <1>1, <3>2 DEF RequestsInv
        <4> QED
          BY <1>1, <2>1, <2>4, <3>2, <4>1 DEF KeysInv
      <3> QED
        BY <1>4, <3>1, <3>2
    <2>12. ASSUME NEW q \in requests', q.at = "loaded"
           PROVE  /\ q.seen # {}
                  /\ \A l \in q.seen :
                         /\ IsKey(l)' /\ Numbered(l.id)' /\ ~l.is_deleted
                         /\ q.op = "login" => l.counter < q.arg.counter
      BY <1>1, <1>3, <1>4, <2>7, <2>12 DEF KeysInv, Numbered
    <2>13. KeysInv'
      BY <1>1, <1>2, <2>8, <2>10, <2>11, <2>12 DEF KeysInv
    <2>14. Forward
      <3> SUFFICES ASSUME NEW l \in keys, NEW m \in keys', m.id = l.id,
                          GoesBack(l, m)
                   PROVE  FALSE
        BY DEF Forward
      <3>1. m = l
        BY <1>1, <2>1, <2>4, <2>9 DEF KeysInv
      <3> QED
        BY <1>1, <3>1 DEF KeysInv, IsKey, GoesBack
    <2> QED
      BY <2>13, <2>14
  <1> QED
    BY <1>5, <1>6 DEF completeRegistration

LEMMA HandlerSteps ==
    ASSUME PasskeyInv, NEW r \in requests,
           \/ beginRegistration(r) \/ beginAuthenticate(r)
           \/ completeRegistration(r) \/ LookUpCredential(r)
           \/ completeAuthenticate(r) \/ GetKey(r)
           \/ ajax_nick(r) \/ ajax_remove_key(r)
           \/ PasskeyAnswered(r) \/ PasskeyLost(r)
    PROVE  PasskeyInv' /\ Forward
  <1>1. RequestsInv /\ ChallengeInv /\ KeysInv
    BY DEF PasskeyInv
  <1>2. ASSUME UNCHANGED authenticator
        PROVE  /\ \A a \in authenticator' :
                      /\ a = [id |-> a.id, user |-> a.user,
                              counter |-> a.counter]
                      /\ a.counter \in Nat
               /\ \A id, u : Made(id, u) => Made(id, u)'
    BY <1>1, <1>2 DEF KeysInv, Made
  <1>3. CASE beginRegistration(r) \/ beginAuthenticate(r)
    <2>1. PICK u : /\ Keep(r, [n |-> r.id, user |-> u])
                   /\ Move(r, "done", {[n |-> r.id, user |-> u]})
      BY <1>3 DEF beginRegistration, beginAuthenticate
    <2>2. /\ r.op \in Inits /\ r.at = "sent"
          /\ UNCHANGED <<keys, authenticator, offer>>
      BY <1>3 DEF beginRegistration, beginAuthenticate, Inits, MayStart
    <2>3. ChallengeInv'
      BY <1>1, <2>1, <2>2, NewChallenge
    <2>4. RequestsInv' /\ left' <= left
      BY <1>1, <2>1, <2>2, Moved DEF RequestsInv
    <2>5. PICK new : /\ requests' = (requests \ {r}) \cup {new}
                     /\ new.op = r.op /\ new.at = "done"
      BY <1>1, <2>1, <2>2, Moved
    <2>6. new.op \notin {"register", "login"}
      BY <2>2, <2>5 DEF Inits
    <2>7. KeysInv' /\ Forward
      BY <1>1, <1>2, <2>2, <2>4, <2>5, <2>6, KeysOfPages
    <2> QED
      BY <2>3, <2>4, <2>7 DEF PasskeyInv
  <1>4. CASE ~(beginRegistration(r) \/ beginAuthenticate(r))
    <2>1. RequestsInv' /\ ChallengeInv'
      BY <1>1, <1>4, ChallengesOfHandlers
    <2>2. KeysInv' /\ Forward
      <3>1. CASE completeRegistration(r)
        BY <3>1, KeyStored
      <3>2. CASE LookUpCredential(r) \/ GetKey(r)
        BY <3>2, RowsFound
      <3>3. CASE \/ completeAuthenticate(r) \/ ajax_nick(r)
                 \/ ajax_remove_key(r)
        <4>1. /\ r.at = "loaded" /\ Move(r, "done", {})
              /\ UNCHANGED authenticator
          BY <3>3 DEF completeAuthenticate, ajax_nick, ajax_remove_key, Writing
        <4>2. PICK row : row = RowSeen(r)
          OBVIOUS
        <4>3. row \in r.seen
          BY <1>1, <4>1, <4>2 DEF KeysInv, RowSeen
        <4>4. IsKey(row) /\ (r.op = "login" => row.counter < r.arg.counter
                                               /\ r.arg.counter \in Nat)
          BY <1>1, <4>1, <4>3 DEF KeysInv
        <4>5. row.counter \in Nat
              /\ row = [id |-> row.id, user |-> row.user,
                        counter |-> row.counter,
                        is_deleted |-> row.is_deleted]
          BY <4>4 DEF IsKey
        <4>6. row \in [id : {row.id}, user : {row.user}, counter : Nat,
                       is_deleted : {row.is_deleted}]
          BY <4>5
        <4>7. CASE completeAuthenticate(r)
          <5>1. PICK c : c = r.arg.counter
            OBVIOUS
          <5>2. r.op = "login" /\ UpdateKey([row EXCEPT !.counter = c])
            BY <4>2, <4>7, <5>1 DEF completeAuthenticate, Writing
          <5>3. c \in Nat /\ c >= row.counter
            BY <4>4, <4>5, <5>1, <5>2
          <5>4. [row EXCEPT !.counter = c] =
                    [id |-> row.id, user |-> row.user, counter |-> c,
                     is_deleted |-> row.is_deleted]
            BY <4>6, <5>3
          <5>5. PICK new : new = [id |-> row.id, user |-> row.user,
                                  counter |-> c,
                                  is_deleted |-> row.is_deleted]
            OBVIOUS
          <5>6. new.counter = c /\ new.is_deleted = row.is_deleted
            BY <5>5
          <5> QED
            BY <1>1, <4>1, <4>2, <5>2, <5>3, <5>4, <5>5, <5>6, RowWritten
        <4>8. CASE ajax_nick(r) \/ ajax_remove_key(r)
          <5>1. PICK b : UpdateKey([row EXCEPT !.is_deleted = b])
            BY <4>2, <4>8 DEF ajax_nick, ajax_remove_key
          <5>2. [row EXCEPT !.is_deleted = b] =
                    [id |-> row.id, user |-> row.user,
                     counter |-> row.counter, is_deleted |-> b]
            BY <4>6
          <5>3. PICK new : new = [id |-> row.id, user |-> row.user,
                                  counter |-> row.counter, is_deleted |-> b]
            OBVIOUS
          <5>4. new.counter = row.counter /\ new.is_deleted = b
            BY <5>3
          <5> QED
            BY <1>1, <4>1, <4>2, <4>5, <5>1, <5>2, <5>3, <5>4, RowWritten
        <4> QED
          BY <3>3, <4>7, <4>8
      <3>4. CASE PasskeyAnswered(r) \/ PasskeyLost(r)
        <4>1. UNCHANGED <<keys, authenticator>>
          BY <3>4 DEF PasskeyAnswered, PasskeyLost, passkeyVars
        <4>2. requests' = requests \ {r} /\ left' <= left
          BY <1>1, <3>4, Gone DEF PasskeyAnswered, PasskeyLost, RequestsInv
        <4> QED
          BY <1>1, <1>2, <2>1, <4>1, <4>2, KeysOfPages
      <3> QED
        BY <1>4, <3>1, <3>2, <3>3, <3>4
    <2> QED
      BY <2>1, <2>2 DEF PasskeyInv
  <1> QED
    BY <1>3, <1>4

------------------------------------------------------------------------------
(* On the pages of other kinds the keys rest. *)

KeysAtRest ==
    \A k, l \in keys : /\ k.id = l.id => k = l
                       /\ k.counter \in Nat
                       /\ Made(k.id, k.user)

KindInv == IF kind = "passkeys" THEN PasskeyInv ELSE KeysAtRest

LEMMA KindInvStarts == Init => KindInv
  <1> SUFFICES ASSUME Init PROVE KindInv
    OBVIOUS
  <1>1. PICK o \in Openings : RequestsInit(o.pages, o.requests)
    BY DEF Init
  <1>2. o.requests \in Nat
    BY OpeningsAreKinds, RequestBound
  <1>3. left \in Nat /\ requests = {}
    BY <1>1, <1>2 DEF RequestsInit
  <1>4. PICK u \in User :
            /\ keys = {[id |-> 0, user |-> u, counter |-> 0,
                        is_deleted |-> FALSE]}
            /\ authenticator = {[id |-> 0, user |-> u, counter |-> 0]}
    BY DEF Init, PasskeyInit
  <1>5. /\ options = [s \in Session |-> Nothing]
        /\ offer = [p \in Page |-> Nothing]
    BY DEF Init, PasskeyInit
  <1>6. Held = {Nothing} /\ Nothing.n = 0
    BY <1>3, <1>5 DEF Held, Nothing
  <1>7. RequestsInv /\ ChallengeInv
    BY <1>3, <1>5, <1>6 DEF RequestsInv, ChallengeInv
  <1>8. Made(0, u)
    BY <1>4 DEF Made
  <1>9. \A k \in keys : /\ IsKey(k) /\ Numbered(k.id) /\ k.counter = 0
                        /\ k.id = 0 /\ k.user = u
    BY <1>3, <1>4, <1>8 DEF IsKey, Numbered
  <1>10. KeysInv
    BY <1>3, <1>4, <1>9 DEF KeysInv
  <1>11. KeysAtRest
    <2>1. \A k, l \in keys : k = l
      BY <1>4
    <2>2. \A k \in keys : k.counter \in Nat /\ Made(k.id, k.user)
      BY <1>8, <1>9
    <2> QED
      BY <2>1, <2>2 DEF KeysAtRest
  <1> QED
    BY <1>7, <1>10, <1>11 DEF KindInv, PasskeyInv

LEMMA AllSteps == KindInv /\ [Next]_browserVars => KindInv' /\ Forward
  <1> SUFFICES ASSUME KindInv, [Next]_browserVars PROVE KindInv' /\ Forward
    OBVIOUS
  <1>1. UNCHANGED kind
    BY DEF Next, browserVars, NextUpload, NextSecurity, NextTags,
           NextFavourite, NextTimelog, NextPasskeys
  <1>2. CASE NextPasskeys
    <2>1. PasskeyInv /\ kind = "passkeys"
      BY <1>2 DEF NextPasskeys, KindInv
    <2>2. PasskeyInv' /\ Forward
      BY <1>2, <2>1, PageSteps, HandlerSteps DEF NextPasskeys, PasskeyNext
    <2> QED
      BY <1>1, <2>1, <2>2 DEF KindInv
  <1>3. CASE kind # "passkeys" /\ UNCHANGED <<keys, authenticator>>
    <2>1. KeysAtRest
      BY <1>3 DEF KindInv
    <2>2. KeysAtRest'
      BY <1>3, <2>1 DEF KeysAtRest, Made
    <2>3. Forward
      BY <1>3, <2>1 DEF KeysAtRest, Forward, GoesBack
    <2> QED
      BY <1>1, <1>3, <2>2, <2>3 DEF KindInv
  <1>4. CASE UNCHANGED browserVars
    <2>1. UNCHANGED <<requests, left, keys, authenticator, options, offer>>
      BY <1>4 DEF browserVars, requestVars, passkeyVars
    <2>2. UNCHANGED Held /\ \A id, u : Made(id, u)' <=> Made(id, u)
      BY <2>1 DEF Held, Made
    <2>3. PasskeyInv => PasskeyInv' /\ Forward
      <3> SUFFICES ASSUME PasskeyInv PROVE PasskeyInv' /\ Forward
        OBVIOUS
      <3>1. RequestsInv'
        BY <2>1 DEF PasskeyInv, RequestsInv, WellFormed
      <3>2. ChallengeInv'
        BY <2>1, <2>2 DEF PasskeyInv, ChallengeInv, Unused
      <3>3. KeysInv'
        BY <2>1, <2>2 DEF PasskeyInv, KeysInv, IsKey, Numbered
      <3>4. Forward
        BY <2>1, KeysRest DEF PasskeyInv
      <3> QED
        BY <3>1, <3>2, <3>3, <3>4 DEF PasskeyInv
    <2>4. KeysAtRest => KeysAtRest' /\ Forward
      BY <2>1, <2>2 DEF KeysAtRest, Forward, GoesBack
    <2> QED
      BY <1>1, <2>3, <2>4 DEF KindInv
  <1> QED
    BY <1>2, <1>3, <1>4
       DEF Next, NextUpload, NextSecurity, NextTags, NextFavourite,
           NextTimelog, passkeyVars

\* Every stored key belongs to the user for whom it was made: for any pages,
\* sessions, users and requests, whichever ceremonies overlap.
THEOREM KeysOfTheirUsers == Spec => []KeyIsForItsUser
  <1>1. KindInv => KeyIsForItsUser
    BY DEF KindInv, PasskeyInv, KeysInv, IsKey, KeysAtRest, Made,
           KeyIsForItsUser
  <1> QED
    BY <1>1, KindInvStarts, AllSteps, PTL DEF Spec

\* No removed key comes back and no counter falls, unless a handler writes
\* back a row that has changed since it was read.
THEOREM KeysOnlyGoForward == Spec => KeysGoForward
  <1>1. KindInv /\ [Next]_browserVars =>
            KindInv' /\ [Forward]_<<requestVars, passkeyVars>>
    BY AllSteps
  <1>2. KeysGoForward <=> [][Forward]_<<requestVars, passkeyVars>>
    BY DEF KeysGoForward, Forward
  <1> QED
    BY <1>1, <1>2, KindInvStarts, PTL DEF Spec
==============================================================================
