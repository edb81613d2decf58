------------------------------ MODULE AccountProofs -----------------------------
(***************************************************************************)
(* Proofs about Account, for any number of processes, passwords, tokens,   *)
(* changes and deaths: no lock comes before the limit and no account at it *)
(* is open, whatever overlaps; and without overlap the lock, the chosen    *)
(* password and the single use of a token survive a process that dies at   *)
(* any step.                                                               *)
(***************************************************************************)
EXTENDS Account, TLAPS

Types ==
    /\ max_attempts \in Limits
    /\ row \in Row
    /\ run \in [Worker -> [pc: Pc, answer: Password, user: Row]]
    /\ issued \subseteq Token /\ used \subseteq issued
    /\ current \in Password
    /\ wrong \in 0 .. max_attempts
    /\ alone \in BOOLEAN
    /\ \A w \in Worker : run[w].pc \in {"idle", "login", "failed"} =>
           run[w].user = Resting.user
    /\ \A w \in Worker : run[w].pc = "token" => run[w].user.token \in Token
    /\ \A w \in Worker : run[w].pc = "nulltoken" => run[w].user.token \in issued

\* No count runs ahead of the answers, and no lock ahead of the limit, in the
\* row or in any copy that may be written back.
Counted(user) ==
    /\ user.attempts <= wrong \/ wrong = max_attempts
    /\ user.locked => wrong = max_attempts
    /\ user.locked \/ user.attempts < max_attempts
CountInv == Counted(row) /\ \A w \in Worker : Counted(run[w].user)

Same(user, other) ==
    /\ user.attempts = other.attempts /\ user.locked = other.locked
    /\ user.salt = other.salt /\ user.token = other.token
SamePassword(user, other) == user.password = other.password

\* What the one process at work holds, as long as no two overlapped.
HoldsRow(w) ==
    LET pc == run[w].pc
        user == run[w].user
    IN  /\ pc \in {"rehash", "lastlogin", "reset", "count", "unlock", "force"} =>
               Same(user, row) /\ SamePassword(user, row)
        /\ pc \in {"login", "failed", "rehash", "lastlogin", "reset", "count"} => ~row.locked
        /\ pc = "rehash" => row.salt /\ run[w].answer = current
        /\ pc = "countone" =>
               /\ row.locked /\ user.locked /\ wrong = max_attempts
               /\ user.salt = row.salt /\ user.token = row.token /\ SamePassword(user, row)
        /\ pc \in {"password", "nulltoken"} =>
               Same(user, row) /\ Fits(user, run[w].answer)
        /\ pc = "token" =>
               /\ user.attempts = row.attempts /\ user.locked = row.locked
               /\ user.salt = row.salt /\ SamePassword(user, row)
               /\ user.token \notin used

\* The row itself.
RowIsRight ==
    /\ Fits(row, current)
    /\ row.token \notin used
    /\ wrong = max_attempts => row.locked
    /\ wrong < max_attempts => row.attempts = wrong

AloneInv ==
    alone => /\ \A w, v \in Worker : run[w].pc # "idle" /\ run[v].pc # "idle" => w = v
             /\ \A w \in Worker : HoldsRow(w)
             /\ RowIsRight

IInv == Types /\ CountInv /\ AloneInv

-----------------------------------------------------------------------------
(* Facts about the operators.                                              *)

LEMMA RestingFacts ==
    /\ Resting.pc = "idle" /\ Resting.answer = First /\ Resting.user \in Row
    /\ Resting.user.attempts = 0 /\ ~Resting.user.locked
    /\ Resting = [pc |-> "idle", answer |-> First, user |-> Resting.user]
  <1>1. [attempts |-> 0, locked |-> FALSE, salt |-> FALSE, token |-> None,
         password |-> Hashed(First, FALSE)] \in Row
    BY PasswordAssumption DEF Row, Hashed
  <1> QED
    BY <1>1 DEF Resting

LEMMA LimitFacts ==
    ASSUME Types
    PROVE  max_attempts \in Nat /\ max_attempts > 0 /\ wrong \in Nat /\ wrong <= max_attempts
  <1>1. max_attempts \in Nat /\ max_attempts # 0
    BY LimitsAssumption DEF Types
  <1>2. wrong \in 0 .. max_attempts
    BY DEF Types
  <1> QED
    BY <1>1, <1>2

LEMMA HashedFits ==
    ASSUME NEW user \in Row, NEW p \in Password
    PROVE  LET hashed == [user EXCEPT !.password = encryptPassword(user, p)]
           IN  /\ hashed \in Row /\ Fits(hashed, p)
               /\ hashed.attempts = user.attempts /\ hashed.locked = user.locked
               /\ hashed.salt = user.salt /\ hashed.token = user.token
  <1>1. encryptPassword(user, p) \in
            [of: Password, scheme: {"sha1", "password_hash"}]
    BY DEF encryptPassword, Hashed
  <1> DEFINE hashed == [user EXCEPT !.password = encryptPassword(user, p)]
  <1>2. /\ hashed \in Row /\ hashed.password = encryptPassword(user, p)
        /\ hashed.attempts = user.attempts /\ hashed.locked = user.locked
        /\ hashed.salt = user.salt /\ hashed.token = user.token
    BY <1>1 DEF Row
  <1> HIDE DEF hashed
  <1>3. Fits(hashed, p)
    BY <1>2 DEF Fits, encryptPassword
  <1> QED
    BY <1>2, <1>3 DEF hashed

LEMMA UpdateFacts ==
    ASSUME row \in Row, NEW user \in Row, update(user)
    PROVE  /\ row' \in Row
           /\ row'.attempts = user.attempts /\ row'.locked = user.locked
           /\ row'.password = user.password
           /\ row'.salt = (user.salt \/ row.salt)
           /\ row'.token = IF user.token = None THEN row.token ELSE user.token
  BY DEF update, Row

\* Without overlap the others are idle, and so are those a step leaves alone.
LEMMA NoOthers ==
    ASSUME AloneInv, alone, NEW w \in Worker, run[w].pc # "idle"
    PROVE  Others(w) = {}
  BY DEF AloneInv, Others

LEMMA IdleHolds ==
    ASSUME NEW w \in Worker, run[w].pc = "idle"
    PROVE  HoldsRow(w)
  BY DEF HoldsRow

\* Every step gives one process something to hold, and may write the row.
LEMMA Kept ==
    ASSUME IInv, NEW w \in Worker, NEW pc \in Pc, NEW answer \in Password,
           NEW user \in Row, Becomes(w, pc, answer, user),
           max_attempts' = max_attempts, row' \in Row,
           issued \subseteq issued', issued' \subseteq Token, used' \subseteq issued',
           current' \in Password, wrong' \in 0 .. max_attempts, alone' \in BOOLEAN,
           wrong <= wrong' \/ Others(w) = {},
           alone' => alone /\ Others(w) = {},
           Counted(row)', user.attempts <= wrong' \/ wrong' = max_attempts,
           user.locked => wrong' = max_attempts,
           user.locked \/ user.attempts < max_attempts,
           pc \in {"idle", "login", "failed"} => user = Resting.user,
           pc = "token" => user.token \in Token,
           pc = "nulltoken" => user.token \in issued',
           alone' => RowIsRight' /\ HoldsRow(w)'
    PROVE  IInv'
  <1>1. /\ run' \in [Worker -> [pc: Pc, answer: Password, user: Row]]
        /\ run'[w] = [pc |-> pc, answer |-> answer, user |-> user]
        /\ \A v \in Worker \ {w} : run'[v] = run[v]
    BY DEF Becomes, IInv, Types
  <1>2. Types'
    <2>1. /\ max_attempts' \in Limits /\ row' \in Row /\ issued' \subseteq Token
          /\ used' \subseteq issued' /\ current' \in Password
          /\ wrong' \in 0 .. max_attempts' /\ alone' \in BOOLEAN
      BY DEF IInv, Types
    <2>2. \A v \in Worker :
              /\ run'[v].pc \in {"idle", "login", "failed"} => run'[v].user = Resting.user
              /\ run'[v].pc = "token" => run'[v].user.token \in Token
              /\ run'[v].pc = "nulltoken" => run'[v].user.token \in issued'
      BY <1>1 DEF IInv, Types
    <2>3. Resting.user' = Resting.user
      BY DEF Resting, Hashed
    <2> QED
      BY <1>1, <2>1, <2>2, <2>3 DEF Types
  <1>3. CountInv'
    <2>1. ASSUME NEW v \in Worker PROVE Counted(run[v].user)'
      <3>1. CASE v = w
        <4>1. run'[v].user = user
          BY <1>1, <3>1
        <4> QED
          BY <4>1 DEF Counted
      <3>2. CASE v # w /\ wrong <= wrong'
        <4>1. Counted(run[v].user) /\ run'[v] = run[v]
          BY <1>1, <3>2 DEF IInv, CountInv
        <4>2. run[v].user \in Row
          BY DEF IInv, Types
        <4>3. /\ wrong \in Nat /\ wrong' \in Nat /\ max_attempts \in Nat
              /\ wrong <= max_attempts /\ wrong' <= max_attempts
              /\ run[v].user.attempts \in Nat
          BY <4>2, LimitFacts DEF IInv, Row
        <4>4. /\ run[v].user.attempts <= wrong' \/ wrong' = max_attempts
              /\ run[v].user.locked => wrong' = max_attempts
          BY <3>2, <4>1, <4>3 DEF Counted
        <4> QED
          BY <4>1, <4>4 DEF Counted
      <3>3. CASE v # w /\ Others(w) = {}
        <4>1. run'[v].user = Resting.user
          BY <1>1, <3>3 DEF Others, IInv, Types
        <4> QED
          BY <4>1, RestingFacts, LimitFacts DEF Counted, IInv
      <3> QED
        BY <3>1, <3>2, <3>3
    <2> QED
      BY <2>1 DEF CountInv
  <1>4. AloneInv'
    <2> SUFFICES ASSUME alone'
                 PROVE  /\ \A u, v \in Worker :
                               run'[u].pc # "idle" /\ run'[v].pc # "idle" => u = v
                        /\ \A v \in Worker : HoldsRow(v)'
                        /\ RowIsRight'
      BY DEF AloneInv
    <2>1. \A v \in Worker \ {w} : run'[v].pc = "idle"
      BY <1>1 DEF Others
    <2>2. \A v \in Worker \ {w} : HoldsRow(v)'
      BY <2>1, IdleHolds DEF HoldsRow
    <2> QED
      BY <2>1, <2>2
  <1> QED
    BY <1>2, <1>3, <1>4 DEF IInv

\* A process reads the row, or goes back to rest, and writes nothing.
LEMMA Reading ==
    ASSUME IInv, NEW w \in Worker, NEW pc \in Pc, NEW answer \in Password,
           NEW user \in Row, Becomes(w, pc, answer, user),
           UNCHANGED <<max_attempts, row, issued, current, used, wrong>>,
           \/ Begins(w)
           \/ run[w].pc # "idle" /\ alone' = alone,
           Counted(user),
           pc \in {"idle", "login", "failed"} => user = Resting.user,
           pc = "token" => user.token \in Token,
           pc = "nulltoken" => user.token \in issued,
           alone => HoldsRow(w)'
    PROVE  IInv'
  <1>1. alone' \in BOOLEAN /\ (alone' => alone /\ Others(w) = {})
    <2>1. CASE Begins(w)
      BY <2>1 DEF Begins
    <2>2. CASE run[w].pc # "idle" /\ alone' = alone
      <3>1. alone \in BOOLEAN
        BY DEF IInv, Types
      <3>2. alone => Others(w) = {}
        BY <2>2, NoOthers DEF IInv
      <3> QED
        BY <2>2, <3>1, <3>2
    <2> QED
      BY <2>1, <2>2
  <1>2. /\ max_attempts' = max_attempts /\ row' \in Row /\ row' = row
        /\ issued' = issued /\ issued' \subseteq Token /\ used' = used
        /\ used' \subseteq issued' /\ current' = current /\ current' \in Password
        /\ wrong' = wrong /\ wrong' \in 0 .. max_attempts /\ wrong \in Nat
    BY LimitFacts DEF IInv, Types
  <1>3. Counted(row)'
    BY <1>2 DEF Counted, IInv, CountInv
  <1>4. alone' => RowIsRight'
    BY <1>1, <1>2 DEF IInv, AloneInv, RowIsRight, Fits, encryptPassword
  <1>5. /\ user.attempts <= wrong' \/ wrong' = max_attempts
        /\ user.locked => wrong' = max_attempts
        /\ user.locked \/ user.attempts < max_attempts
    BY <1>2 DEF Counted
  <1>6. wrong <= wrong'
    BY <1>2
  <1>7. pc = "nulltoken" => user.token \in issued'
    BY <1>2
  <1> QED
    BY <1>1, <1>2, <1>3, <1>4, <1>5, <1>6, <1>7, Kept

LEMMA RestingCounted == ASSUME Types PROVE Counted(Resting.user)
  BY RestingFacts, LimitFacts DEF Counted

\* What a step that begins or reads gives the process.
LEMMA RunOf ==
    ASSUME Types, NEW w \in Worker, NEW pc, NEW answer, NEW user, Becomes(w, pc, answer, user)
    PROVE  run'[w].pc = pc /\ run'[w].answer = answer /\ run'[w].user = user
  BY DEF Types, Becomes

LEMMA Ending ==
    ASSUME Types, NEW w \in Worker, End(w)
    PROVE  /\ Becomes(w, "idle", First, Resting.user)
           /\ HoldsRow(w)'
           /\ "idle" \in Pc /\ First \in Password /\ Resting.user \in Row
  <1>1. Becomes(w, "idle", First, Resting.user)
    BY RestingFacts DEF End, Becomes
  <1>2. run'[w].pc = "idle"
    BY <1>1, RunOf
  <1> QED
    BY <1>1, <1>2, RestingFacts, PasswordAssumption DEF HoldsRow, Pc

LEMMA Begun ==
    ASSUME IInv, NEW w \in Worker,
           \/ \E p \in Password : login_POST(w, p) \/ ReadForPassword(w, p)
           \/ forceLogin(w) \/ ReadForUnlock(w)
           \/ \E t \in Token : ReadForToken(w, t) \/ \E p \in Password : ReadForReset(w, t, p)
    PROVE  IInv'
  <1> USE DEF Change
  <1>1. Types /\ row \in Row /\ Counted(row)
    BY DEF IInv, Types, CountInv
  <1>2. ASSUME NEW p \in Password, login_POST(w, p) PROVE IInv'
    <2>1. alone => HoldsRow(w)'
      BY <1>1, <1>2, RunOf DEF login_POST, HoldsRow
    <2> QED
      BY <1>1, <1>2, <2>1, RestingFacts, RestingCounted, Reading DEF login_POST, Pc
  <1>3. ASSUME forceLogin(w) \/ ReadForUnlock(w) PROVE IInv'
    <2>1. PICK pc \in {"force", "unlock"} : Becomes(w, pc, First, row)
      BY <1>3 DEF forceLogin, ReadForUnlock
    <2>2. UNCHANGED <<max_attempts, row, issued, current, used, wrong>> /\ Begins(w)
      BY <1>3 DEF forceLogin, ReadForUnlock
    <2>3. alone => HoldsRow(w)'
      BY <1>1, <2>1, <2>2, RunOf DEF HoldsRow, Same, SamePassword
    <2> QED
      BY <1>1, <2>1, <2>2, <2>3, PasswordAssumption, Reading DEF Pc
  <1>4. ASSUME NEW p \in Password, ReadForPassword(w, p) PROVE IInv'
    <2> DEFINE user == [row EXCEPT !.password = encryptPassword(row, p)]
    <2>1. /\ Becomes(w, "password", p, user) /\ Begins(w)
          /\ UNCHANGED <<max_attempts, row, issued, current, used, wrong>>
      BY <1>4 DEF ReadForPassword
    <2>2. /\ user \in Row /\ Fits(user, p) /\ Same(user, row)
      BY <1>1, HashedFits DEF Same
    <2> HIDE DEF user
    <2>3. Counted(user)
      BY <1>1, <2>2 DEF Counted, Same
    <2>4. alone => HoldsRow(w)'
      <3>1. run'[w].pc = "password" /\ run'[w].answer = p /\ run'[w].user = user
        BY <1>1, <2>1, RunOf
      <3>2. Same(user, row') /\ Fits(user, p)
        BY <2>1, <2>2
      <3> QED
        BY <3>1, <3>2 DEF HoldsRow, Same, Fits, encryptPassword
    <2> QED
      BY <2>1, <2>2, <2>3, <2>4, Reading DEF Pc
  <1>5. ASSUME NEW t \in Token, ReadForToken(w, t) PROVE IInv'
    <2> DEFINE user == [row EXCEPT !.token = t]
    <2>1. /\ Becomes(w, "token", First, user) /\ Begins(w) /\ t \notin issued
          /\ UNCHANGED <<max_attempts, row, issued, current, used, wrong>>
      BY <1>5 DEF ReadForToken
    <2>2. /\ user \in Row /\ user.token = t
          /\ user.attempts = row.attempts /\ user.locked = row.locked
          /\ user.salt = row.salt /\ user.password = row.password
      BY <1>1 DEF Row
    <2> HIDE DEF user
    <2>3. Counted(user)
      BY <1>1, <2>2 DEF Counted
    <2>4. alone => HoldsRow(w)'
      <3>1. run'[w].pc = "token" /\ run'[w].user = user
        BY <1>1, <2>1, RunOf
      <3>2. t \notin used'
        BY <2>1 DEF IInv, Types
      <3> QED
        BY <2>1, <2>2, <3>1, <3>2 DEF HoldsRow, SamePassword
    <2> QED
      BY <2>1, <2>2, <2>3, <2>4, PasswordAssumption, Reading DEF Pc
  <1>6. ASSUME NEW t \in Token, NEW p \in Password, ReadForReset(w, t, p) PROVE IInv'
    <2> DEFINE user == [row EXCEPT !.password = encryptPassword(row, p)]
    <2>1. /\ Becomes(w, "nulltoken", p, user) /\ Begins(w) /\ t \in issued /\ row.token = t
          /\ UNCHANGED <<max_attempts, row, issued, current, used, wrong>>
      BY <1>6 DEF ReadForReset
    <2>2. /\ user \in Row /\ Fits(user, p) /\ Same(user, row)
      BY <1>1, HashedFits DEF Same
    <2> HIDE DEF user
    <2>3. Counted(user) /\ user.token \in issued
      BY <1>1, <2>1, <2>2 DEF Counted, Same
    <2>4. alone => HoldsRow(w)'
      <3>1. run'[w].pc = "nulltoken" /\ run'[w].answer = p /\ run'[w].user = user
        BY <1>1, <2>1, RunOf
      <3>2. Same(user, row') /\ Fits(user, p)
        BY <2>1, <2>2
      <3> QED
        BY <3>1, <3>2 DEF HoldsRow, Same, Fits, encryptPassword
    <2> QED
      BY <2>1, <2>2, <2>3, <2>4, Reading DEF Pc
  <1> QED
    BY <1>2, <1>3, <1>4, <1>5, <1>6

LEMMA ReadAgain ==
    ASSUME IInv, NEW w \in Worker, Login(w) \/ recordLoginAttempt(w) \/ Crash(w)
    PROVE  IInv'
  <1>1. Types /\ row \in Row /\ Counted(row) /\ run[w].answer \in Password
    BY DEF IInv, Types, CountInv
  <1>2. /\ UNCHANGED <<max_attempts, row, issued, current, used, wrong>>
        /\ run[w].pc # "idle" /\ alone' = alone
    BY DEF Login, recordLoginAttempt, Crash
  <1>3. CASE Crash(w)
    BY <1>1, <1>2, <1>3, Ending, RestingCounted, Reading DEF Crash
  <1>4. CASE recordLoginAttempt(w)
    <2>1. Becomes(w, "count", run[w].answer, row) /\ run[w].pc = "failed"
      BY <1>4 DEF recordLoginAttempt, Continue
    <2>2. alone => ~row.locked
      BY <2>1 DEF IInv, AloneInv, HoldsRow
    <2>3. alone => HoldsRow(w)'
      BY <1>1, <1>2, <2>1, <2>2, RunOf DEF HoldsRow, Same, SamePassword
    <2> QED
      BY <1>1, <1>2, <2>1, <2>3, Reading DEF Pc
  <1>5. CASE Login(w)
    <2>1. run[w].pc = "login" /\ (alone => ~row.locked /\ Fits(row, current))
      BY <1>5 DEF Login, IInv, AloneInv, HoldsRow, RowIsRight
    <2>2. CASE Becomes(w, "failed", First, Resting.user)
      <3>1. alone => HoldsRow(w)'
        BY <1>1, <1>2, <2>1, <2>2, RunOf DEF HoldsRow
      <3> QED
        BY <1>1, <1>2, <2>2, <3>1, RestingFacts, RestingCounted, PasswordAssumption,
           Reading DEF Pc
    <2>3. CASE Fits(row, run[w].answer) /\ row.salt /\ Becomes(w, "rehash", run[w].answer, row)
      <3>1. alone => run[w].answer = current
        BY <2>1, <2>3 DEF Fits, encryptPassword, Hashed
      <3>2. alone => HoldsRow(w)'
        BY <1>1, <1>2, <2>1, <2>3, <3>1, RunOf DEF HoldsRow, Same, SamePassword
      <3> QED
        BY <1>1, <1>2, <2>3, <3>2, Reading DEF Pc
    <2>4. CASE Becomes(w, "lastlogin", First, row)
      <3>1. alone => HoldsRow(w)'
        BY <1>1, <1>2, <2>1, <2>4, RunOf DEF HoldsRow, Same, SamePassword
      <3> QED
        BY <1>1, <1>2, <2>4, <3>1, PasswordAssumption, Reading DEF Pc
    <2> QED
      BY <1>5, <2>2, <2>3, <2>4 DEF Login, Continue
  <1> QED
    BY <1>3, <1>4, <1>5

\* A process writes the row as it holds it, or with attributes of its own.
LEMMA Writing ==
    ASSUME IInv, NEW w \in Worker, run[w].pc # "idle",
           NEW pc \in Pc, NEW answer \in Password, NEW user \in Row,
           Becomes(w, pc, answer, user), row' \in Row,
           UNCHANGED <<max_attempts, alone>>,
           issued \subseteq issued', issued' \subseteq Token, used' \subseteq issued',
           current' \in Password, wrong' \in 0 .. max_attempts,
           wrong <= wrong' \/ Others(w) = {},
           Counted(row)', user.attempts <= wrong' \/ wrong' = max_attempts,
           user.locked => wrong' = max_attempts,
           user.locked \/ user.attempts < max_attempts,
           pc = "idle" => user = Resting.user,
           pc \in {"idle", "lastlogin", "reset", "countone"},
           alone => RowIsRight' /\ HoldsRow(w)'
    PROVE  IInv'
  <1>1. alone' \in BOOLEAN /\ (alone' <=> alone)
    BY DEF IInv, Types
  <1>2. alone => Others(w) = {}
    BY NoOthers DEF IInv
  <1>3. alone' => alone /\ Others(w) = {}
    BY <1>1, <1>2
  <1>4. alone' => RowIsRight' /\ HoldsRow(w)'
    BY <1>1
  <1> QED
    BY <1>1, <1>3, <1>4, Kept

\* What a process holds that may write it, and what the row is without overlap.
LEMMA Held ==
    ASSUME IInv, NEW w \in Worker
    PROVE  /\ Types /\ run[w].user \in Row /\ Counted(run[w].user) /\ row \in Row
           /\ run[w].answer \in Password
           /\ (alone => HoldsRow(w) /\ RowIsRight)
  BY DEF IInv, Types, CountInv, AloneInv

\* The object is written as it is.
LEMMA WrittenBack ==
    ASSUME IInv, NEW w \in Worker,
           \/ updateLastLogin(w) \/ UpdateForced(w) \/ CountOne(w)
    PROVE  IInv'
  <1>1. /\ update(run[w].user) /\ run[w].pc \in {"lastlogin", "force", "countone"}
        /\ UNCHANGED <<max_attempts, issued, current, used, wrong, alone>>
    BY DEF updateLastLogin, UpdateForced, CountOne
  <1>2. /\ row' \in Row
        /\ row'.attempts = run[w].user.attempts /\ row'.locked = run[w].user.locked
        /\ row'.password = run[w].user.password
        /\ row'.salt = (run[w].user.salt \/ row.salt)
        /\ row'.token = IF run[w].user.token = None THEN row.token ELSE run[w].user.token
    BY <1>1, Held, UpdateFacts
  <1>3. Counted(row)'
    BY <1>1, <1>2, Held DEF Counted
  <1>4. ASSUME alone
        PROVE  /\ row'.salt = row.salt /\ row'.token = row.token
               /\ row'.password = row.password /\ RowIsRight'
    <2>1. /\ run[w].user.salt = row.salt /\ run[w].user.token = row.token
          /\ run[w].user.password = row.password /\ RowIsRight
          /\ run[w].pc # "countone" =>
                 run[w].user.attempts = row.attempts /\ run[w].user.locked = row.locked
          /\ run[w].pc = "countone" => run[w].user.locked /\ wrong = max_attempts
      BY <1>1, <1>4, Held DEF HoldsRow, Same, SamePassword
    <2>2. /\ row'.salt = row.salt /\ row'.token = row.token
          /\ row'.password = row.password
      BY <1>2, <2>1, Held DEF Row
    <2>3. /\ wrong' = max_attempts' => row'.locked
          /\ wrong' < max_attempts' => row'.attempts = wrong'
      BY <1>1, <1>2, <2>1, LimitFacts, Held DEF RowIsRight
    <2>4. Fits(row, current)' /\ row'.token \notin used'
      BY <1>1, <2>1, <2>2 DEF RowIsRight, Fits, encryptPassword, Hashed
    <2> QED
      BY <2>2, <2>3, <2>4 DEF RowIsRight
  <1>5. /\ issued' = issued /\ issued' \subseteq Token /\ used' \subseteq issued'
        /\ current' \in Password /\ wrong' = wrong /\ wrong' \in 0 .. max_attempts
        /\ wrong <= wrong'
    BY <1>1, Held, LimitFacts DEF Types
  <1>6. CASE updateLastLogin(w)
    <2>1. Becomes(w, "reset", run[w].answer, run[w].user) /\ run[w].pc = "lastlogin"
      BY <1>6 DEF updateLastLogin, Continue
    <2>2. ASSUME alone PROVE HoldsRow(w)'
      <3>1. run'[w].pc = "reset" /\ run'[w].user = run[w].user
        BY <2>1, Held, RunOf
      <3>2. Same(run[w].user, row) /\ SamePassword(run[w].user, row) /\ ~row.locked
        BY <2>1, <2>2, Held DEF HoldsRow
      <3>3. Same(run[w].user, row') /\ SamePassword(run[w].user, row') /\ ~row'.locked
        BY <1>2, <1>4, <2>2, <3>2 DEF Same, SamePassword
      <3> QED
        BY <3>1, <3>3 DEF HoldsRow, Same, SamePassword
    <2>3. /\ run[w].user.attempts <= wrong' \/ wrong' = max_attempts
          /\ run[w].user.locked => wrong' = max_attempts
          /\ run[w].user.locked \/ run[w].user.attempts < max_attempts
      BY <1>1, Held DEF Counted
    <2> QED
      BY <1>1, <1>2, <1>3, <1>4, <1>5, <2>1, <2>2, <2>3, Held, Writing DEF Pc
  <1>7. CASE End(w)
    <2>1. /\ Resting.user.attempts <= wrong' /\ ~Resting.user.locked
          /\ Resting.user.attempts < max_attempts
      BY <1>5, RestingFacts, LimitFacts, Held
    <2> QED
      BY <1>1, <1>2, <1>3, <1>4, <1>5, <1>7, <2>1, Held, Ending, Writing
  <1> QED
    BY <1>6, <1>7 DEF UpdateForced, CountOne

\* User::updatePasswordHash writes the object, its nulls too, and keeps it.
LEMMA Rehashed ==
    ASSUME IInv, NEW w \in Worker, updatePasswordHash(w)
    PROVE  IInv'
  <1> DEFINE unsalted == [run[w].user EXCEPT !.salt = FALSE]
             user == [unsalted EXCEPT !.password = encryptPassword(unsalted, run[w].answer)]
  <1>1. /\ unsalted \in Row /\ ~unsalted.salt
        /\ unsalted.attempts = run[w].user.attempts
        /\ unsalted.locked = run[w].user.locked /\ unsalted.token = run[w].user.token
    BY Held DEF Row
  <1>2. /\ run[w].pc = "rehash" /\ row' = user
        /\ Becomes(w, "lastlogin", First, user)
        /\ UNCHANGED <<max_attempts, issued, current, used, wrong, alone>>
    BY DEF updatePasswordHash, updateNulls
  <1> HIDE DEF unsalted
  <1>3. /\ user \in Row /\ Fits(user, run[w].answer)
        /\ user.attempts = run[w].user.attempts
        /\ user.locked = run[w].user.locked /\ user.token = run[w].user.token
    BY <1>1, Held, HashedFits
  <1> HIDE DEF user
  <1>4. Counted(row)' /\ (user.attempts <= wrong' \/ wrong' = max_attempts)
    BY <1>2, <1>3, Held DEF Counted
  <1>5. /\ user.locked => wrong' = max_attempts
        /\ user.locked \/ user.attempts < max_attempts
    BY <1>2, <1>3, Held DEF Counted
  <1>6. /\ issued' = issued /\ issued' \subseteq Token /\ used' \subseteq issued'
        /\ current' \in Password /\ wrong' = wrong /\ wrong' \in 0 .. max_attempts
        /\ wrong <= wrong'
    BY <1>2, Held, LimitFacts DEF Types
  <1>7. ASSUME alone PROVE RowIsRight' /\ HoldsRow(w)'
    <2>1. /\ RowIsRight /\ Same(run[w].user, row) /\ ~row.locked /\ run[w].answer = current
      BY <1>2, <1>7, Held DEF HoldsRow
    <2>2. RowIsRight'
      BY <1>2, <1>3, <2>1 DEF RowIsRight, Same, Fits, encryptPassword
    <2>3. HoldsRow(w)'
      <3>1. run'[w].pc = "lastlogin" /\ run'[w].user = user
        BY <1>2, Held, RunOf
      <3>2. ~row'.locked
        BY <1>2, <1>3, <2>1 DEF Same
      <3> QED
        BY <1>2, <3>1, <3>2 DEF HoldsRow, Same, SamePassword
    <2> QED
      BY <2>2, <2>3
  <1> QED
    BY <1>2, <1>3, <1>4, <1>5, <1>6, <1>7, PasswordAssumption, Writing DEF Pc

\* The row is written, and the process is done.
LEMMA Done ==
    ASSUME IInv, NEW w \in Worker, run[w].pc # "idle", End(w), row' \in Row,
           UNCHANGED <<max_attempts, alone>>,
           issued \subseteq issued', issued' \subseteq Token, used' \subseteq issued',
           current' \in Password, wrong' \in 0 .. max_attempts,
           wrong <= wrong' \/ Others(w) = {},
           Counted(row)',
           alone => RowIsRight'
    PROVE  IInv'
  <1>1. /\ Resting.user.attempts <= wrong' /\ ~Resting.user.locked
        /\ Resting.user.attempts < max_attempts
    BY RestingFacts, LimitFacts, Held
  <1> QED
    BY <1>1, Held, Ending, Writing DEF Pc

\* The count begins anew: the row of the object, but for the attempts and the lock.
LEMMA Reset ==
    ASSUME IInv, NEW w \in Worker, resetAttempts(w) \/ unlock(w)
    PROVE  IInv'
  <1>1. PICK user \in Row :
            /\ update(user) /\ user.attempts = 0 /\ run[w].pc \in {"reset", "unlock"}
            /\ user.locked => run[w].user.locked
            /\ run[w].pc = "unlock" => ~user.locked
            /\ user.salt = run[w].user.salt /\ user.token = run[w].user.token
            /\ user.password = run[w].user.password
    <2>1. CASE resetAttempts(w)
      <3> DEFINE user == [run[w].user EXCEPT !.attempts = 0]
      <3>1. /\ user \in Row /\ user.attempts = 0 /\ user.locked = run[w].user.locked
            /\ user.salt = run[w].user.salt /\ user.token = run[w].user.token
            /\ user.password = run[w].user.password
        BY Held DEF Row
      <3>2. update(user) /\ run[w].pc = "reset"
        BY <2>1 DEF resetAttempts
      <3> HIDE DEF user
      <3> QED
        BY <3>1, <3>2
    <2>2. CASE unlock(w)
      <3> DEFINE user == [run[w].user EXCEPT !.locked = FALSE, !.attempts = 0]
      <3>1. /\ user \in Row /\ user.attempts = 0 /\ ~user.locked
            /\ user.salt = run[w].user.salt /\ user.token = run[w].user.token
            /\ user.password = run[w].user.password
        BY Held DEF Row
      <3>2. update(user) /\ run[w].pc = "unlock"
        BY <2>2 DEF unlock
      <3> HIDE DEF user
      <3> QED
        BY <3>1, <3>2
    <2> QED
      BY <2>1, <2>2
  <1>2. /\ Cleared(w) /\ End(w) /\ UNCHANGED <<max_attempts, issued, current, used, alone>>
    BY DEF resetAttempts, unlock
  <1>3. /\ row' \in Row /\ row'.attempts = 0 /\ row'.locked = user.locked
        /\ row'.password = user.password /\ row'.salt = (user.salt \/ row.salt)
        /\ row'.token = IF user.token = None THEN row.token ELSE user.token
    BY <1>1, Held, UpdateFacts
  <1>4. /\ wrong' \in 0 .. max_attempts /\ (wrong <= wrong' \/ Others(w) = {})
        /\ (row'.locked => wrong' = wrong)
        /\ (Others(w) = {} /\ ~row'.locked => wrong' = 0)
    BY <1>2, Held, LimitFacts DEF Cleared
  <1>5. Counted(row)'
    <2>1. row'.locked => wrong = max_attempts
      BY <1>1, <1>3, Held DEF Counted
    <2> QED
      BY <1>2, <1>3, <1>4, <2>1, Held, LimitFacts DEF Counted
  <1>6. ASSUME alone PROVE RowIsRight'
    <2>1. /\ Others(w) = {} /\ RowIsRight /\ Same(run[w].user, row)
          /\ SamePassword(run[w].user, row)
          /\ run[w].pc = "reset" => ~run[w].user.locked
      BY <1>1, <1>6, Held, NoOthers DEF HoldsRow, IInv, Same
    <2>2. wrong' = 0 /\ max_attempts > 0
      BY <1>1, <1>3, <1>4, <2>1, LimitFacts, Held
    <2>3. row'.salt = row.salt /\ row'.token = row.token /\ row'.password = row.password
      BY <1>1, <1>3, <2>1, Held DEF Same, SamePassword, Row
    <2>4. Fits(row, current)' /\ row'.token \notin used'
      BY <1>2, <2>1, <2>3 DEF RowIsRight, Fits, encryptPassword, Hashed
    <2>5. /\ wrong' = max_attempts' => row'.locked
          /\ wrong' < max_attempts' => row'.attempts = wrong'
      BY <1>2, <1>3, <2>2, LimitFacts, Held
    <2> QED
      BY <2>4, <2>5 DEF RowIsRight
  <1>7. issued' \subseteq Token /\ used' \subseteq issued' /\ current' \in Password
    BY <1>2, Held DEF Types
  <1> QED
    BY <1>1, <1>2, <1>3, <1>4, <1>5, <1>6, <1>7, Done

\* AuthService::recordLoginAttempt counts the answer, and locks at the limit.
LEMMA CountedOnce ==
    ASSUME IInv, NEW w \in Worker, Count(w)
    PROVE  IInv'
  <1> DEFINE held == run[w].user
             counted == [held EXCEPT !.attempts = held.attempts + 1]
             locked == [counted EXCEPT !.locked = TRUE]
             lockedOnly == [held EXCEPT !.locked = TRUE]
  <1>1. /\ held \in Row /\ held.attempts \in Nat
        /\ held.attempts <= wrong \/ wrong = max_attempts
        /\ held.locked => wrong = max_attempts
    BY Held DEF Row, Counted
  <1>2. /\ counted \in Row /\ counted.attempts = held.attempts + 1
        /\ counted.locked = held.locked /\ counted.salt = held.salt
        /\ counted.token = held.token /\ counted.password = held.password
    BY <1>1 DEF Row
  <1>3. /\ locked \in Row /\ locked.attempts = held.attempts + 1
        /\ locked.locked /\ locked.salt = held.salt
        /\ locked.token = held.token /\ locked.password = held.password
    <2> HIDE DEF counted
    <2> QED
      BY <1>2 DEF Row
  <1>4. /\ lockedOnly \in Row /\ lockedOnly.attempts = held.attempts
        /\ lockedOnly.locked /\ lockedOnly.salt = held.salt
        /\ lockedOnly.token = held.token /\ lockedOnly.password = held.password
    BY <1>1 DEF Row
  <1>5. /\ run[w].pc = "count"
        /\ wrong' = IF wrong < max_attempts THEN wrong + 1 ELSE wrong
        /\ UNCHANGED <<max_attempts, issued, current, used, alone>>
        /\ \/ /\ held.attempts = 0 /\ max_attempts = 1 /\ update(lockedOnly)
              /\ Becomes(w, "countone", run[w].answer, locked)
           \/ held.attempts = 0 /\ max_attempts # 1 /\ update(counted) /\ End(w)
           \/ /\ held.attempts # 0 /\ End(w)
              /\ update(IF Locks(held) THEN locked ELSE counted)
    BY DEF Count, Continue
  <1> HIDE DEF counted, locked, lockedOnly
  <1>6. /\ max_attempts \in Nat /\ max_attempts > 0 /\ wrong \in Nat /\ wrong <= max_attempts
        /\ wrong' \in 0 .. max_attempts /\ wrong <= wrong'
    BY <1>5, Held, LimitFacts
  <1>7. /\ issued' = issued /\ issued' \subseteq Token /\ used' \subseteq issued'
        /\ current' \in Password
    BY <1>5, Held DEF Types
  <1>8. ASSUME NEW user \in Row, update(user), user.salt = held.salt,
               user.token = held.token, user.password = held.password
        PROVE  /\ row' \in Row /\ row'.attempts = user.attempts
               /\ row'.locked = user.locked
               /\ alone => /\ Fits(row, current)' /\ row'.token \notin used'
                           /\ row'.salt = held.salt /\ row'.token = held.token
                           /\ row'.password = held.password
                           /\ held.attempts = row.attempts /\ ~row.locked
    <2>1. /\ row' \in Row
          /\ row'.attempts = user.attempts /\ row'.locked = user.locked
          /\ row'.password = user.password
          /\ row'.salt = (user.salt \/ row.salt)
          /\ row'.token = IF user.token = None THEN row.token ELSE user.token
      BY <1>8, Held, UpdateFacts
    <2>2. ASSUME alone
          PROVE  /\ RowIsRight /\ ~row.locked /\ held.attempts = row.attempts
                 /\ held.salt = row.salt /\ held.token = row.token
                 /\ held.password = row.password
      BY <1>5, <2>2, Held DEF HoldsRow, Same, SamePassword
    <2>3. ASSUME alone
          PROVE  /\ row'.salt = row.salt /\ row'.token = row.token
                 /\ row'.password = row.password
      BY <1>1, <1>8, <2>1, <2>2, <2>3, Held DEF Row
    <2>4. ASSUME alone PROVE Fits(row, current)' /\ row'.token \notin used'
      BY <1>5, <2>2, <2>3, <2>4 DEF RowIsRight, Fits, encryptPassword, Hashed
    <2> QED
      BY <1>8, <2>1, <2>2, <2>3, <2>4
  <1>9. CASE /\ held.attempts = 0 /\ max_attempts = 1 /\ update(lockedOnly)
             /\ Becomes(w, "countone", run[w].answer, locked)
    <2>1. wrong' = max_attempts
      BY <1>5, <1>6, <1>9
    <2>2. /\ row' \in Row /\ row'.locked
          /\ alone => /\ Fits(row, current)' /\ row'.token \notin used'
                      /\ row'.salt = held.salt /\ row'.token = held.token
                      /\ row'.password = held.password
      BY <1>4, <1>8, <1>9
    <2>3. Counted(row)'
      BY <1>5, <2>1, <2>2 DEF Counted
    <2>4. alone => RowIsRight'
      BY <1>5, <1>6, <2>1, <2>2 DEF RowIsRight
    <2>5. alone => HoldsRow(w)'
      <3>1. run'[w].pc = "countone" /\ run'[w].user = locked
        BY <1>9, Held, RunOf
      <3> QED
        BY <1>3, <1>5, <2>1, <2>2, <3>1 DEF HoldsRow, SamePassword
    <2> QED
      BY <1>3, <1>5, <1>6, <1>7, <1>9, <2>1, <2>2, <2>3, <2>4, <2>5, Held, Writing DEF Pc
  <1>10. CASE update(counted) /\ End(w) /\ held.attempts + 1 < max_attempts
    <2>1. /\ row' \in Row /\ row'.attempts = held.attempts + 1
          /\ row'.locked = held.locked
          /\ alone => /\ Fits(row, current)' /\ row'.token \notin used'
                      /\ held.attempts = row.attempts /\ ~row.locked
      BY <1>2, <1>8, <1>10
    <2>2. Counted(row)'
      BY <1>1, <1>5, <1>6, <1>10, <2>1 DEF Counted
    <2>3. ASSUME alone PROVE RowIsRight'
      <3>1. wrong < max_attempts /\ row.attempts = wrong
        BY <1>6, <2>1, <2>3, Held DEF RowIsRight
      <3>2. wrong' = wrong + 1 /\ wrong' < max_attempts /\ row'.attempts = wrong'
        BY <1>5, <1>6, <1>10, <2>1, <2>3, <3>1
      <3> QED
        BY <1>5, <1>6, <2>1, <2>3, <3>2 DEF RowIsRight
    <2> QED
      BY <1>5, <1>6, <1>7, <1>10, <2>1, <2>2, <2>3, Done
  <1>11. CASE update(locked) /\ End(w) /\ max_attempts <= held.attempts + 1
    <2>1. wrong' = max_attempts
      BY <1>1, <1>5, <1>6, <1>11
    <2>2. /\ row' \in Row /\ row'.locked
          /\ alone => Fits(row, current)' /\ row'.token \notin used'
      BY <1>3, <1>8, <1>11
    <2>3. Counted(row)'
      BY <1>5, <2>1, <2>2 DEF Counted
    <2>4. alone => RowIsRight'
      BY <1>5, <1>6, <2>1, <2>2 DEF RowIsRight
    <2> QED
      BY <1>5, <1>6, <1>7, <1>11, <2>1, <2>2, <2>3, <2>4, Done
  <1>12. \/ /\ held.attempts = 0 /\ max_attempts = 1 /\ update(lockedOnly)
            /\ Becomes(w, "countone", run[w].answer, locked)
         \/ update(counted) /\ End(w) /\ held.attempts + 1 < max_attempts
         \/ update(locked) /\ End(w) /\ max_attempts <= held.attempts + 1
    <2>1. CASE held.attempts = 0 /\ max_attempts # 1 /\ update(counted) /\ End(w)
      BY <1>1, <1>6, <2>1
    <2>2. CASE /\ held.attempts # 0 /\ End(w)
               /\ update(IF Locks(held) THEN locked ELSE counted)
      <3>1. CASE Locks(held)
        BY <2>2, <3>1 DEF Locks
      <3>2. CASE ~Locks(held)
        BY <1>1, <1>6, <2>2, <3>2 DEF Locks
      <3> QED
        BY <3>1, <3>2
    <2> QED
      BY <1>5, <2>1, <2>2
  <1> QED
    BY <1>9, <1>10, <1>11, <1>12

\* The user chooses a password, or has a token sent, or uses it.
LEMMA Changed ==
    ASSUME IInv, NEW w \in Worker,
           ajax_update_password(w) \/ forgotpassword_POST(w) \/ resetpassword_POST(w)
    PROVE  IInv'
  <1> DEFINE held == run[w].user
  <1>1. /\ held \in Row /\ Counted(held) /\ run[w].answer \in Password
        /\ issued \subseteq Token /\ used \subseteq issued /\ current \in Password
        /\ wrong \in 0 .. max_attempts /\ wrong <= wrong /\ row \in Row
    BY Held, LimitFacts DEF Types
  <1>2. CASE ajax_update_password(w)
    <2>1. /\ run[w].pc = "password" /\ update(held) /\ current' = run[w].answer /\ End(w)
          /\ UNCHANGED <<max_attempts, issued, used, wrong, alone>>
      BY <1>2 DEF ajax_update_password
    <2>2. /\ row' \in Row
          /\ row'.attempts = held.attempts /\ row'.locked = held.locked
          /\ row'.password = held.password /\ row'.salt = (held.salt \/ row.salt)
          /\ row'.token = IF held.token = None THEN row.token ELSE held.token
      BY <1>1, <2>1, UpdateFacts
    <2>3. Counted(row)'
      BY <1>1, <2>1, <2>2 DEF Counted
    <2>4. ASSUME alone PROVE RowIsRight'
      <3>1. RowIsRight /\ Same(held, row) /\ Fits(held, run[w].answer)
        BY <2>1, <2>4, Held DEF HoldsRow
      <3>2. row'.salt = held.salt /\ row'.token = row.token
        BY <1>1, <2>2, <3>1 DEF Same, Row
      <3> QED
        BY <2>1, <2>2, <3>1, <3>2 DEF RowIsRight, Same, Fits, encryptPassword, Hashed
    <2> QED
      BY <1>1, <2>1, <2>2, <2>3, <2>4, Done
  <1>3. CASE forgotpassword_POST(w)
    <2>1. /\ run[w].pc = "token" /\ update(held) /\ End(w)
          /\ issued' = issued \cup {held.token}
          /\ UNCHANGED <<max_attempts, current, used, wrong, alone>>
      BY <1>3 DEF forgotpassword_POST
    <2>2. /\ row' \in Row
          /\ row'.attempts = held.attempts /\ row'.locked = held.locked
          /\ row'.password = held.password /\ row'.salt = (held.salt \/ row.salt)
          /\ row'.token = IF held.token = None THEN row.token ELSE held.token
      BY <1>1, <2>1, UpdateFacts
    <2>3. Counted(row)'
      BY <1>1, <2>1, <2>2 DEF Counted
    <2>4. held.token \in Token /\ held.token # None
      BY <2>1, Held, TokenAssumption DEF Types
    <2>5. ASSUME alone PROVE RowIsRight'
      <3>1. /\ RowIsRight /\ held.attempts = row.attempts /\ held.locked = row.locked
            /\ held.salt = row.salt /\ held.password = row.password
            /\ held.token \notin used
        BY <2>1, <2>5, Held DEF HoldsRow, SamePassword
      <3>2. row'.salt = row.salt /\ row'.token = held.token
        BY <1>1, <2>2, <2>4, <3>1 DEF Row
      <3> QED
        BY <2>1, <2>2, <3>1, <3>2 DEF RowIsRight, Fits, encryptPassword, Hashed
    <2>6. issued \subseteq issued' /\ issued' \subseteq Token /\ used' \subseteq issued'
      BY <1>1, <2>1, <2>4
    <2> QED
      BY <1>1, <2>1, <2>2, <2>3, <2>5, <2>6, Done
  <1>4. CASE resetpassword_POST(w)
    <2>1. /\ run[w].pc = "nulltoken" /\ End(w) /\ row' = [held EXCEPT !.token = None]
          /\ current' = run[w].answer /\ used' = used \cup {held.token}
          /\ UNCHANGED <<max_attempts, issued, wrong, alone>>
      BY <1>4 DEF resetpassword_POST, updateNulls
    <2>2. /\ row' \in Row
          /\ row'.attempts = held.attempts /\ row'.locked = held.locked
          /\ row'.password = held.password /\ row'.salt = held.salt
          /\ row'.token = None
      BY <1>1, <2>1 DEF Row
    <2>3. Counted(row)'
      BY <1>1, <2>1, <2>2 DEF Counted
    <2>4. held.token \in issued
      BY <2>1, Held DEF Types
    <2>5. used' \subseteq issued' /\ None \notin used'
      BY <1>1, <2>1, <2>4, TokenAssumption
    <2>6. ASSUME alone PROVE RowIsRight'
      <3>1. RowIsRight /\ Same(held, row) /\ Fits(held, run[w].answer)
        BY <2>1, <2>6, Held DEF HoldsRow
      <3> QED
        BY <2>1, <2>2, <2>5, <3>1 DEF RowIsRight, Same, Fits, encryptPassword, Hashed
    <2> QED
      BY <1>1, <2>1, <2>2, <2>3, <2>5, <2>6, Done
  <1> QED
    BY <1>2, <1>3, <1>4

-----------------------------------------------------------------------------
(* The theorems.                                                           *)

LEMMA Starts == Init => IInv
  <1> SUFFICES ASSUME Init PROVE IInv
    OBVIOUS
  <1>1. \A w \in Worker : run[w] = Resting
    BY DEF Init
  <1>2. row \in Row /\ Fits(row, current) /\ row.attempts = 0 /\ ~row.locked
    <2>1. Hashed(First, TRUE) \in [of: Password, scheme: {"sha1", "password_hash"}]
      BY PasswordAssumption DEF Hashed
    <2> QED
      BY <2>1 DEF Init, Row, Fits, encryptPassword
  <1>3. max_attempts \in Limits /\ max_attempts \in Nat /\ max_attempts > 0 /\ wrong = 0
    BY LimitsAssumption DEF Init
  <1>4. Types
    <2>1. run \in [Worker -> [pc: Pc, answer: Password, user: Row]]
      BY RestingFacts, PasswordAssumption DEF Init, Pc
    <2> QED
      BY <1>1, <1>2, <1>3, <2>1, RestingFacts, PasswordAssumption DEF Init, Types
  <1>5. CountInv
    BY <1>1, <1>2, <1>4, RestingCounted, <1>3 DEF CountInv, Counted
  <1>6. AloneInv
    BY <1>1, <1>2, <1>3, RestingFacts, IdleHolds DEF AloneInv, RowIsRight, Init
  <1> QED
    BY <1>4, <1>5, <1>6 DEF IInv

LEMMA Steps == IInv /\ [Next]_vars => IInv'
  <1> SUFFICES ASSUME IInv, [Next]_vars PROVE IInv'
    OBVIOUS
  <1>1. CASE UNCHANGED vars
    BY <1>1 DEF vars, IInv, Types, CountInv, AloneInv, Counted, HoldsRow, RowIsRight,
                Same, SamePassword, Fits, encryptPassword
  <1>2. ASSUME NEW w \in Worker, Begin(w) PROVE IInv'
    <2>1. CASE Refuse(w)
      BY <1>1, <2>1 DEF Refuse
    <2> QED
      BY <1>2, <2>1, Begun DEF Begin
  <1>3. ASSUME NEW w \in Worker, Step(w) PROVE IInv'
    BY <1>3, ReadAgain, WrittenBack, Rehashed, Reset, CountedOnce, Changed DEF Step
  <1>4. ASSUME NEW w \in Worker, Crash(w) PROVE IInv'
    BY <1>4, ReadAgain
  <1> QED
    BY <1>1, <1>2, <1>3, <1>4 DEF Next

LEMMA Inductive == Spec => []IInv
  BY Starts, Steps, PTL DEF Spec

\* The bounds on the operations and deaths of an instance.
CountsInv == changes \in 0 .. MaxChanges /\ crashes \in 0 .. MaxCrashes

LEMMA Counts == Spec => []CountsInv
  <1>1. Init => CountsInv
    BY BoundAssumption DEF Init, CountsInv
  <1>2. CountsInv /\ [Next]_vars => CountsInv'
    <2> SUFFICES ASSUME CountsInv, [Next]_vars PROVE CountsInv'
      OBVIOUS
    <2>1. CASE UNCHANGED <<changes, crashes>>
      BY <2>1 DEF CountsInv
    <2>2. CASE crashes' = crashes /\ changes < MaxChanges /\ changes' = changes + 1
      BY <2>2, BoundAssumption DEF CountsInv
    <2>3. CASE changes' = changes /\ crashes < MaxCrashes /\ crashes' = crashes + 1
      BY <2>3, BoundAssumption DEF CountsInv
    <2>4. ASSUME NEW w \in Worker, Step(w) PROVE UNCHANGED <<changes, crashes>>
      BY <2>4 DEF Step, Login, updatePasswordHash, updateLastLogin, resetAttempts,
            recordLoginAttempt, Count, CountOne, UpdateForced, unlock, ajax_update_password,
            forgotpassword_POST, resetpassword_POST
    <2>5. ASSUME NEW w \in Worker, Begin(w)
          PROVE  \/ UNCHANGED <<changes, crashes>>
                 \/ crashes' = crashes /\ changes < MaxChanges /\ changes' = changes + 1
      BY <2>5 DEF Begin, login_POST, Refuse, vars, Change, forceLogin, ReadForUnlock,
            ReadForPassword, ReadForToken, ReadForReset
    <2> QED
      BY <2>1, <2>2, <2>3, <2>4, <2>5 DEF Next, Crash, vars
  <1> QED
    BY <1>1, <1>2, PTL DEF Spec

\* The types of the row, of the objects the processes hold and of the histories.
THEOREM TypeCorrect == Spec => []TypeOK
  <1>1. IInv /\ CountsInv => TypeOK
    BY DEF IInv, Types, CountsInv, TypeOK, Run
  <1> QED
    BY <1>1, Inductive, Counts, PTL

\* The lock comes only after as many wrong answers as the limit and no account at
\* the limit is open, whatever overlaps; and without overlap the lock does come,
\* whatever process dies.
THEOREM LocksAtTheLimit == Spec => []LockCounts
  <1>1. IInv => LockCounts
    BY DEF IInv, CountInv, Counted, AloneInv, RowIsRight, LockCounts
  <1> QED
    BY <1>1, Inductive, PTL

\* Without overlap the password chosen last fits the stored hash and salt.
THEOREM PasswordFits == Spec => []ChosenPasswordFits
  <1>1. IInv => ChosenPasswordFits
    BY DEF IInv, AloneInv, RowIsRight, ChosenPasswordFits
  <1> QED
    BY <1>1, Inductive, PTL

\* Without overlap a token that has reset a password resets no other.
THEOREM TokensAreUsedOnce == Spec => []TokenUsedOnce
  <1>1. IInv => TokenUsedOnce
    BY DEF IInv, AloneInv, RowIsRight, TokenUsedOnce
  <1> QED
    BY <1>1, Inductive, PTL
================================================================================
