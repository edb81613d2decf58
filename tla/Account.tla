--------------------------------- MODULE Account --------------------------------
(***************************************************************************)
(* The auth module: what logins, wrong answers, unlocking, password        *)
(* changes and password resets do to one row of the table user.            *)
(*                                                                         *)
(* Every operation reads the whole row into an object, changes some        *)
(* attributes and writes the object back with DbObject::update, in another *)
(* transaction than the read: the write puts back every attribute that is  *)
(* not null, also those the operation never touched (with                  *)
(* $force_null_values the null ones too).  PHP processes serve requests at *)
(* the same time, so a write may be based on a row that has changed since. *)
(*                                                                         *)
(* A password is kept as a hash of one of two schemes: sha1 with the salt  *)
(* of the column password_salt (deprecated), or password_hash, whose salt  *)
(* is part of the hash; then password_salt is null.                        *)
(***************************************************************************)
EXTENDS Naturals

CONSTANTS
    Worker,        \* PHP processes
    Password,
    First,         \* the password the account begins with
    Token,         \* password reset tokens
    None,          \* stands for NULL
    Limits,        \* the values auth.login.attempts.max_attempts may be configured to
    MaxChanges,    \* bound: password changes, resets and unlocks
    MaxCrashes     \* bound: processes that die halfway

ASSUME PasswordAssumption == First \in Password
ASSUME TokenAssumption == None \notin Token
ASSUME LimitsAssumption == Limits \subseteq Nat \ {0}
ASSUME BoundAssumption == MaxChanges \in Nat /\ MaxCrashes \in Nat

VARIABLES
    max_attempts,  \* as configured; track_attempts is on
    row,        \* the row of the account
    run,        \* what each worker is doing, with the object it holds
    changes,    \* number of operations other than logins begun
    crashes,    \* number of processes that died
    issued,     \* tokens sent by mail
    current,    \* history: the password its user chose last
    used,       \* history: tokens a password was reset with
    wrong,      \* history: wrong answers counted since the account was last cleared
    alone       \* history: no two operations were ever in progress at once

vars == <<max_attempts, row, run, changes, crashes, issued, current, used, wrong, alone>>

\* The count has no bound: processes that began before the lock count on, and of
\* three one can keep the locked row in its object while another undoes the lock
\* with an older copy, so that new logins begin, and write it back before they count.
Row == [attempts: Nat, locked: BOOLEAN, salt: BOOLEAN, token: Token \cup {None},
        password: [of: Password, scheme: {"sha1", "password_hash"}]]

Hashed(p, salt) == [of |-> p, scheme |-> IF salt THEN "sha1" ELSE "password_hash"]

Resting == [pc |-> "idle", answer |-> First,
            user |-> [attempts |-> 0, locked |-> FALSE, salt |-> FALSE, token |-> None,
                      password |-> Hashed(First, FALSE)]]
Pc == {"idle", "login", "rehash", "lastlogin", "reset", "failed", "count", "countone",
       "unlock", "password", "token", "nulltoken", "force"}
Run == [pc: Pc, answer: Password, user: Row]

TypeOK ==
    /\ max_attempts \in Limits
    /\ row \in Row
    /\ run \in [Worker -> Run]
    /\ changes \in 0 .. MaxChanges
    /\ crashes \in 0 .. MaxCrashes
    /\ issued \subseteq Token
    /\ current \in Password
    /\ used \subseteq issued
    /\ wrong \in 0 .. max_attempts
    /\ alone \in BOOLEAN

\* An account whose password is still hashed with sha1.
Init ==
    /\ max_attempts \in Limits
    /\ row = [attempts |-> 0, locked |-> FALSE, salt |-> TRUE, token |-> None,
              password |-> Hashed(First, TRUE)]
    /\ run = [w \in Worker |-> Resting]
    /\ changes = 0 /\ crashes = 0
    /\ issued = {} /\ used = {}
    /\ current = First
    /\ wrong = 0
    /\ alone = TRUE

-----------------------------------------------------------------------------
(* User and DbObject.                                                      *)

\* User::encryptPassword of the object.
encryptPassword(user, p) == Hashed(p, user.salt)

\* What login() asks of the object it has read.
Fits(user, p) == user.password = encryptPassword(user, p)

\* DbObject::update writes the attributes that are not null.
update(user) ==
    row' = [user EXCEPT !.salt = user.salt \/ row.salt,
                        !.token = IF user.token = None THEN row.token ELSE user.token]

\* DbObject::update with $force_null_values.
updateNulls(user) == row' = user

Others(w) == {v \in Worker \ {w} : run[v].pc # "idle"}
Becomes(w, pc, answer, user) ==
    run' = [run EXCEPT ![w] = [pc |-> pc, answer |-> answer, user |-> user]]
Continue(w, pc, user) == Becomes(w, pc, run[w].answer, user)
End(w) == run' = [run EXCEPT ![w] = Resting]

\* A worker begins an operation on the row.
Begins(w) ==
    /\ run[w].pc = "idle"
    /\ alone' = (alone /\ Others(w) = {})

-----------------------------------------------------------------------------
(* login_POST and AuthService::login.                                      *)

\* The first read.
login_POST(w, p) ==
    /\ Begins(w)
    /\ ~row.locked
    /\ Becomes(w, "login", p, Resting.user)
    /\ UNCHANGED <<max_attempts, row, changes, crashes, issued, current, used, wrong>>

Refuse(w) ==
    /\ run[w].pc = "idle"
    /\ row.locked
    /\ UNCHANGED vars

\* The second read, in login(), which checks the answer.
Login(w) ==
    /\ run[w].pc = "login"
    /\ IF ~Fits(row, run[w].answer) THEN Becomes(w, "failed", First, Resting.user)
       ELSE IF row.salt THEN Continue(w, "rehash", row)
       ELSE Becomes(w, "lastlogin", First, row)
    /\ UNCHANGED <<max_attempts, row, changes, crashes, issued, current, used, wrong, alone>>

\* Mutant: the null salt is not written.
RehashKeepsSalt(w) ==
    /\ run[w].pc = "rehash"
    /\ LET unsalted == [run[w].user EXCEPT !.salt = FALSE]
           user == [unsalted EXCEPT !.password = encryptPassword(unsalted, run[w].answer)]
       IN  update(user) /\ Becomes(w, "lastlogin", First, user)
    /\ UNCHANGED <<max_attempts, changes, crashes, issued, current, used, wrong, alone>>

\* User::updatePasswordHash: the salt is dropped, the password hashed anew.
updatePasswordHash(w) ==
    /\ run[w].pc = "rehash"
    /\ LET unsalted == [run[w].user EXCEPT !.salt = FALSE]
           user == [unsalted EXCEPT !.password = encryptPassword(unsalted, run[w].answer)]
       IN  updateNulls(user) /\ Becomes(w, "lastlogin", First, user)
    /\ UNCHANGED <<max_attempts, changes, crashes, issued, current, used, wrong, alone>>

updateLastLogin(w) ==
    /\ run[w].pc = "lastlogin"
    /\ update(run[w].user)
    /\ Continue(w, "reset", run[w].user)
    /\ UNCHANGED <<max_attempts, changes, crashes, issued, current, used, wrong, alone>>

\* The count begins anew when no other worker holds an older one.
Cleared(w) == wrong' = IF Others(w) = {} /\ ~row'.locked THEN 0 ELSE wrong

resetAttempts(w) ==
    /\ run[w].pc = "reset"
    /\ update([run[w].user EXCEPT !.attempts = 0])
    /\ Cleared(w)
    /\ End(w)
    /\ UNCHANGED <<max_attempts, changes, crashes, issued, current, used, alone>>

-----------------------------------------------------------------------------
(* AuthService::recordLoginAttempt.                                        *)

\* The third read of the row in the request.
recordLoginAttempt(w) ==
    /\ run[w].pc = "failed"
    /\ Continue(w, "count", row)
    /\ UNCHANGED <<max_attempts, row, changes, crashes, issued, current, used, wrong, alone>>

\* Mutants: the comparison is one off, and the incremented count is not saved.
LocksEarly(user) == max_attempts <= user.attempts + 2

Locks(user) == max_attempts <= user.attempts + 1

CountUnsaved(w) ==
    /\ run[w].pc = "count"
    /\ LET user == run[w].user
       IN  IF user.attempts = 0 THEN update([user EXCEPT !.attempts = 1])
           ELSE update([user EXCEPT !.locked = Locks(user)])
    /\ End(w)
    /\ wrong' = IF wrong < max_attempts THEN wrong + 1 ELSE wrong
    /\ UNCHANGED <<max_attempts, changes, crashes, issued, current, used, alone>>

Count(w) ==
    /\ run[w].pc = "count"
    /\ LET user == run[w].user
           counted == [user EXCEPT !.attempts = user.attempts + 1]
           locked == [counted EXCEPT !.locked = TRUE]
       IN  \* lock() first, the count in a second update
           \/ /\ user.attempts = 0 /\ max_attempts = 1
              /\ update([user EXCEPT !.locked = TRUE])
              /\ Continue(w, "countone", locked)
           \/ /\ user.attempts = 0 /\ max_attempts # 1
              /\ update(counted)
              /\ End(w)
           \/ /\ user.attempts # 0
              /\ update(IF Locks(user) THEN locked ELSE counted)
              /\ End(w)
    /\ wrong' = IF wrong < max_attempts THEN wrong + 1 ELSE wrong
    /\ UNCHANGED <<max_attempts, changes, crashes, issued, current, used, alone>>

CountOne(w) ==
    /\ run[w].pc = "countone"
    /\ update(run[w].user)
    /\ End(w)
    /\ UNCHANGED <<max_attempts, changes, crashes, issued, current, used, wrong, alone>>

-----------------------------------------------------------------------------
(* The other operations: the row is read, then written.                    *)

Change(w) == Begins(w) /\ changes < MaxChanges /\ changes' = changes + 1

\* forceLogin, which passkeys and the ticket processor use, checks neither lock nor password.
forceLogin(w) ==
    /\ Change(w)
    /\ Becomes(w, "force", First, row)
    /\ UNCHANGED <<max_attempts, row, crashes, issued, current, used, wrong>>

UpdateForced(w) ==
    /\ run[w].pc = "force"
    /\ update(run[w].user)
    /\ End(w)
    /\ UNCHANGED <<max_attempts, changes, crashes, issued, current, used, wrong, alone>>

ReadForUnlock(w) ==
    /\ Change(w)
    /\ row.locked
    /\ Becomes(w, "unlock", First, row)
    /\ UNCHANGED <<max_attempts, row, crashes, issued, current, used, wrong>>

unlock(w) ==
    /\ run[w].pc = "unlock"
    /\ update([run[w].user EXCEPT !.locked = FALSE, !.attempts = 0])
    /\ Cleared(w)
    /\ End(w)
    /\ UNCHANGED <<max_attempts, changes, crashes, issued, current, used, alone>>

\* ajax_update_password: the new password is hashed in the scheme of the row.
ReadForPassword(w, p) ==
    /\ Change(w)
    /\ Becomes(w, "password", p, [row EXCEPT !.password = encryptPassword(row, p)])
    /\ UNCHANGED <<max_attempts, row, crashes, issued, current, used, wrong>>

ajax_update_password(w) ==
    /\ run[w].pc = "password"
    /\ update(run[w].user)
    /\ current' = run[w].answer
    /\ End(w)
    /\ UNCHANGED <<max_attempts, changes, crashes, issued, used, wrong, alone>>

\* forgotpassword_POST: a new token, mailed once it is stored.
ReadForToken(w, t) ==
    /\ Change(w)
    /\ t \notin issued
    /\ \A v \in Worker : run[v].user.token # t
    /\ Becomes(w, "token", First, [row EXCEPT !.token = t])
    /\ UNCHANGED <<max_attempts, row, crashes, issued, current, used, wrong>>

forgotpassword_POST(w) ==
    /\ run[w].pc = "token"
    /\ update(run[w].user)
    /\ issued' = issued \cup {run[w].user.token}
    /\ End(w)
    /\ UNCHANGED <<max_attempts, changes, crashes, current, used, wrong, alone>>

\* Mutant: no matter whether the row has the token.
ResetUnasked(w, t, p) ==
    /\ Change(w)
    /\ Becomes(w, "nulltoken", p,
               [row EXCEPT !.password = encryptPassword(row, p)])
    /\ UNCHANGED <<max_attempts, row, crashes, issued, current, used, wrong>>

\* resetpassword_POST with the token of a mail; getUserForToken looks for a row that has it.
ReadForReset(w, t, p) ==
    /\ Change(w)
    /\ t \in issued /\ row.token = t
    /\ Becomes(w, "nulltoken", p,
               [row EXCEPT !.password = encryptPassword(row, p)])
    /\ UNCHANGED <<max_attempts, row, crashes, issued, current, used, wrong>>

\* Mutant: the null token is not written.
ResetKeepsToken(w) ==
    /\ run[w].pc = "nulltoken"
    /\ update([run[w].user EXCEPT !.token = None])
    /\ used' = used \cup {run[w].user.token}
    /\ current' = run[w].answer
    /\ End(w)
    /\ UNCHANGED <<max_attempts, changes, crashes, issued, wrong, alone>>

resetpassword_POST(w) ==
    /\ run[w].pc = "nulltoken"
    /\ updateNulls([run[w].user EXCEPT !.token = None])
    /\ used' = used \cup {run[w].user.token}
    /\ current' = run[w].answer
    /\ End(w)
    /\ UNCHANGED <<max_attempts, changes, crashes, issued, wrong, alone>>

\* A process dies between two of its statements.
Crash(w) ==
    /\ run[w].pc # "idle"
    /\ crashes < MaxCrashes
    /\ crashes' = crashes + 1
    /\ End(w)
    /\ UNCHANGED <<max_attempts, row, changes, issued, current, used, wrong, alone>>

Step(w) ==
    \/ Login(w) \/ updatePasswordHash(w) \/ updateLastLogin(w) \/ resetAttempts(w)
    \/ recordLoginAttempt(w) \/ Count(w) \/ CountOne(w)
    \/ UpdateForced(w) \/ unlock(w) \/ ajax_update_password(w)
    \/ forgotpassword_POST(w) \/ resetpassword_POST(w)

Begin(w) ==
    \/ \E p \in Password : login_POST(w, p) \/ ReadForPassword(w, p)
    \/ Refuse(w) \/ forceLogin(w) \/ ReadForUnlock(w)
    \/ \E t \in Token : ReadForToken(w, t) \/ \E p \in Password : ReadForReset(w, t, p)

Next == \E w \in Worker : Begin(w) \/ Step(w) \/ Crash(w)

Spec == Init /\ [][Next]_vars

\* A PHP process that has begun a request goes on with it.
FairSpec == Spec /\ \A w \in Worker : WF_vars(Step(w))

-----------------------------------------------------------------------------
Quiet == \A w \in Worker : run[w].pc = "idle"

(* An account is locked only after max_attempts wrong answers since it was  *)
(* last cleared, whatever overlaps; and when operations never overlapped,  *)
(* an account with that many is locked, whatever process died at whatever  *)
(* step (recordLoginAttempt, lock, resetAttempts, unlock).  An account that *)
(* is open to logins never holds a count at the limit or above it.         *)
LockCounts ==
    /\ row.locked => wrong = max_attempts
    /\ row.locked \/ row.attempts < max_attempts
    /\ alone /\ Quiet /\ wrong = max_attempts => row.locked

(* Wrong answers cannot be counted for ever without a right one in between:*)
(* overlapping processes lose increments and even undo a lock with an old  *)
(* copy of the row, but in the end the account stays locked.               *)
LockedInTheEnd ==
    []<>(\E w \in Worker : run[w].pc = "count")
        => []<>(\E w \in Worker : run[w].pc = "lastlogin")

(* When operations never overlapped, the password its user chose last fits *)
(* the stored hash and salt, also between any two updates of a login that  *)
(* rehashes it and after a process died there.                             *)
ChosenPasswordFits == alone => Fits(row, current)

(* When operations never overlapped, a token that has reset a password is  *)
(* no longer the token of the row.                                         *)
TokenUsedOnce == alone => row.token \notin used

(* "If the User's password hash is deprecated and the $password parameter  *)
(* matches the User's password, update the User's password to use the      *)
(* latest Hash" (User.php:467): some password fits the stored hash.        *)
SomePasswordFits == \E p \in Password : Fits(row, p)
=============================================================================
