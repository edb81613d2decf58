----------------------------- MODULE SecurityPage ----------------------------
(***************************************************************************)
(* Multi-factor authentication on the security page of a user              *)
(* (UserSecurityComponent.vue) and the handlers behind it.  The user's row *)
(* has a flag and a secret.  "Enable MFA" stores a fresh secret at once    *)
(* and shows it as a QR code, the user's phone takes it over, and a code   *)
(* from the phone confirms it.  All handlers read the row, change an       *)
(* attribute or two and write the whole row back without its nulls, as do  *)
(* the other requests that save a user: a login, a new password, an        *)
(* unlock, the form of the account.                                        *)
(***************************************************************************)
EXTENDS Requests

VARIABLES
    user,       \* the row: is_mfa_enabled and mfa_secret, 0 for null
    mfaPage,    \* [Page -> what the page shows]
    phone,      \* secrets the user's authenticator holds
    renewed,    \* history: a secret was replaced while MFA was on
    overlapped, \* history: a row was written that had changed since read
    decidedBy,  \* history: page of the last confirmation or disabling
    hasty       \* history: pages that sent one before the last was answered

securityVars ==
    <<user, mfaPage, phone, renewed, overlapped, decidedBy, hasty>>

NoPage == "no page"

SecurityTypeOK ==
    /\ user \in [is_mfa_enabled : BOOLEAN, mfa_secret : 0 .. MaxRequests]
    /\ mfaPage \in [Page -> [mfa_enabled : BOOLEAN, qr : 0 .. MaxRequests]]
    /\ phone \subseteq 1 .. MaxRequests
    /\ {renewed, overlapped} \subseteq BOOLEAN
    /\ decidedBy \in Page \cup {NoPage}
    /\ hasty \subseteq Page

SecurityInit ==
    /\ user = [is_mfa_enabled |-> FALSE, mfa_secret |-> 0]
    /\ mfaPage = [p \in Page |-> [mfa_enabled |-> FALSE, qr |-> 0]]
    /\ phone = {}
    /\ renewed = FALSE
    /\ overlapped = FALSE
    /\ decidedBy = NoPage
    /\ hasty = {}

------------------------------------------------------------------------------
(* The page.  Its MFA buttons stay enabled while requests are under way.   *)

getMfaCode(p) ==
    /\ ~mfaPage[p].mfa_enabled
    /\ mfaPage[p].qr = 0
    /\ Send(p, "qr", 0)
    /\ UNCHANGED securityVars

\* The page sends a confirmation or a disabling.
Decide(p, op, code) ==
    /\ Send(p, op, code)
    /\ hasty' = IF \E r \in Of(p) : r.op \in {"confirm", "disable"}
                THEN hasty \cup {p} ELSE hasty
    /\ UNCHANGED <<user, mfaPage, renewed, overlapped, decidedBy>>

\* The user scans the code that is shown, and types what the phone says for
\* it or for a secret it took over before.
confirmMfaCode(p) ==
    /\ mfaPage[p].qr # 0
    /\ phone' = phone \cup {mfaPage[p].qr}
    /\ \E code \in phone' : Decide(p, "confirm", code)

disableMfa(p) ==
    /\ mfaPage[p].mfa_enabled
    /\ Decide(p, "disable", 0)
    /\ UNCHANGED phone

\* Any other request that saves the user, such as "Update Password".
saveUser(p) ==
    /\ Send(p, "save", 0)
    /\ UNCHANGED securityVars

openSecurityPage(p) ==
    /\ Reload(p)
    /\ mfaPage' = [mfaPage EXCEPT ![p] =
                      [mfa_enabled |-> user.is_mfa_enabled, qr |-> 0]]
    /\ hasty' = hasty \ {p}
    /\ UNCHANGED <<user, phone, renewed, overlapped, decidedBy>>

------------------------------------------------------------------------------
(* The handlers. *)

\* The secrets are numbered by the requests that make them.
Secret(r) == r.id

\* update() leaves out null attributes.
SaveRow(row) ==
    [is_mfa_enabled |-> row.is_mfa_enabled,
     mfa_secret |-> IF row.mfa_secret # 0 THEN row.mfa_secret
                    ELSE user.mfa_secret]

RowOf(r) == CHOOSE row \in r.seen : TRUE

\* The handler writes `row', which it made from the row it had read.
WriteUser(r, row, answer) ==
    /\ user' = row
    /\ overlapped' = (overlapped \/ user # RowOf(r))
    /\ Move(r, answer, {})

\* getUser, by every handler.
LoadUser(r) ==
    /\ \E op \in {"qr", "confirm", "disable", "save"} : Load(r, op, {user})
    /\ UNCHANGED securityVars

ajax_get_mfa_qr_code(r) ==
    /\ Writing(r, "qr")
    /\ WriteUser(r, [RowOf(r) EXCEPT !.mfa_secret = Secret(r)], "done")
    /\ renewed' = (renewed \/ user.is_mfa_enabled \/ RowOf(r).is_mfa_enabled)
    /\ UNCHANGED <<mfaPage, phone, decidedBy, hasty>>

\* Mutant: the code is not checked against the secret that was read.
ConfirmAnyCode(r) ==
    /\ Writing(r, "confirm")
    /\ WriteUser(r, SaveRow([RowOf(r) EXCEPT !.is_mfa_enabled = TRUE]),
                 "done")
    /\ decidedBy' = r.page
    /\ UNCHANGED <<mfaPage, phone, renewed, hasty>>

ajax_confirm_mfa_code(r) ==
    /\ Writing(r, "confirm")
    /\ IF r.arg = RowOf(r).mfa_secret
       THEN /\ WriteUser(r, [RowOf(r) EXCEPT !.is_mfa_enabled = TRUE], "done")
            /\ decidedBy' = r.page
       ELSE /\ Move(r, "failed", {})
            /\ UNCHANGED <<user, overlapped, decidedBy>>
    /\ UNCHANGED <<mfaPage, phone, renewed, hasty>>

\* Here update(true) writes the null secret.
ajax_disable_mfa(r) ==
    /\ Writing(r, "disable")
    /\ WriteUser(r, [is_mfa_enabled |-> FALSE, mfa_secret |-> 0], "done")
    /\ decidedBy' = r.page
    /\ UNCHANGED <<mfaPage, phone, renewed, hasty>>

WriteOtherColumns(r) ==
    /\ Writing(r, "save")
    /\ WriteUser(r, SaveRow(RowOf(r)), "done")
    /\ UNCHANGED <<mfaPage, phone, renewed, decidedBy, hasty>>

------------------------------------------------------------------------------
(* The answers.  One that is not ok only shows a message. *)

\* Mutant: the page does not note that MFA is on.
AfterAnswerKeptOff(r) ==
    LET shown == mfaPage[r.page] IN
    CASE r.op = "qr"      -> [shown EXCEPT !.qr = Secret(r)]
      [] r.op = "confirm" -> [shown EXCEPT !.qr = 0]
      [] r.op = "disable" -> [shown EXCEPT !.mfa_enabled = FALSE]
      [] OTHER            -> shown

AfterAnswer(r) ==
    LET shown == mfaPage[r.page] IN
    CASE r.op = "qr"      -> [shown EXCEPT !.qr = Secret(r)]
      [] r.op = "confirm" -> [mfa_enabled |-> TRUE, qr |-> 0]
      [] r.op = "disable" -> [shown EXCEPT !.mfa_enabled = FALSE]
      [] OTHER            -> shown

MfaAnswered(r) ==
    /\ r.at \in {"done", "failed"}
    /\ Answered(r)
    /\ IF r.at = "done"
       THEN mfaPage' = [mfaPage EXCEPT ![r.page] = AfterAnswer(r)]
       ELSE UNCHANGED mfaPage
    /\ UNCHANGED <<user, phone, renewed, overlapped, decidedBy, hasty>>

MfaLost(r) == Lose(r) /\ UNCHANGED securityVars

SecurityNext ==
    \/ \E p \in Page : \/ getMfaCode(p) \/ confirmMfaCode(p) \/ disableMfa(p)
                       \/ saveUser(p) \/ openSecurityPage(p)
    \/ \E r \in requests :
           \/ LoadUser(r) \/ ajax_get_mfa_qr_code(r) \/ ajax_confirm_mfa_code(r)
           \/ ajax_disable_mfa(r) \/ WriteOtherColumns(r)
           \/ MfaAnswered(r) \/ MfaLost(r)

------------------------------------------------------------------------------
(* Properties. *)

\* The user can always pass the second factor: while MFA is on, the stored
\* secret is one that the phone holds.  The code a page confirms is checked
\* against the row as it was read, and that row is written, so this holds
\* whatever other pages and saves do in between, unless a page that did not
\* know MFA was on asked for a new secret, which is stored before anybody
\* has scanned it.
StoredSecretIsOnPhone ==
    user.is_mfa_enabled => user.mfa_secret \in phone \/ renewed

\* The page that decided last, and heard every answer, shows whether MFA is
\* on, unless a request wrote back a row it had read before another changed
\* it: then MFA may be off, or on again, against what the user was told.  A
\* page whose user is hasty may hear two answers in the wrong order: the
\* buttons do not wait for the answer.
MfaIsAsTold ==
    \A p \in Page \ (unaware \cup hasty) :
        Quiet(p) /\ decidedBy = p /\ ~overlapped =>
            mfaPage[p].mfa_enabled = user.is_mfa_enabled
==============================================================================
