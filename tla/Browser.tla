------------------------------- MODULE Browser -------------------------------
(***************************************************************************)
(* The pages that go on after they are loaded, side by side.  A behaviour  *)
(* has pages of one kind: those of different kinds share neither rows nor  *)
(* what a session keeps.                                                   *)
(***************************************************************************)
EXTENDS Multipart, SecurityPage, TagEditor, Favourite, TimelogWidget, Passkeys

CONSTANT Openings  \* the kinds of pages, which of them are open, and how many
                   \* requests they send: a set of [kind, pages, requests]

Kind == {"upload", "security", "tags", "favourite", "timelog", "passkeys"}

ASSUME OpeningsAreKinds ==
    Openings \subseteq [kind : Kind, pages : SUBSET Page,
                        requests : 0 .. MaxRequests]

VARIABLE kind

browserVars == <<kind, requestVars, uploadVars, securityVars, tagVars,
                 favouriteVars, timelogVars, passkeyVars>>

AnyUser == CHOOSE u \in User : TRUE

\* What is not of the kind stays in one of its initial states, always the same.
Init ==
    /\ \E o \in Openings : kind = o.kind /\ RequestsInit(o.pages, o.requests)
    /\ UploadInit /\ SecurityInit /\ TagInit
    /\ FavouriteInit /\ TimelogInit /\ PasskeyInit
    /\ kind = "upload" \/ \A t \in Tab : files[t] = <<>>
    /\ kind = "tags" \/ assigned = {}
    /\ kind = "passkeys" \/ \A k \in keys : k.user = AnyUser
    /\ \A s \in Session :
           \/ kind = "passkeys" /\ \E p \in open : SessionOf[p] = s
           \/ loggedIn[s] = AnyUser

NextUpload ==
    /\ kind = "upload"
    /\ UploadNext
    /\ UNCHANGED <<kind, requestVars, securityVars, tagVars, favouriteVars,
                   timelogVars, passkeyVars>>

NextSecurity ==
    /\ kind = "security"
    /\ SecurityNext
    /\ UNCHANGED <<kind, uploadVars, tagVars, favouriteVars, timelogVars,
                   passkeyVars>>

NextTags ==
    /\ kind = "tags"
    /\ TagNext
    /\ UNCHANGED <<kind, uploadVars, securityVars, favouriteVars, timelogVars,
                   passkeyVars>>

NextFavourite ==
    /\ kind = "favourite"
    /\ FavouriteNext
    /\ UNCHANGED <<kind, uploadVars, securityVars, tagVars, timelogVars,
                   passkeyVars>>

NextTimelog ==
    /\ kind = "timelog"
    /\ TimelogNext
    /\ UNCHANGED <<kind, uploadVars, securityVars, tagVars, favouriteVars,
                   passkeyVars>>

NextPasskeys ==
    /\ kind = "passkeys"
    /\ PasskeyNext
    /\ UNCHANGED <<kind, uploadVars, securityVars, tagVars, favouriteVars,
                   timelogVars>>

Next ==
    \/ NextUpload \/ NextSecurity \/ NextTags
    \/ NextFavourite \/ NextTimelog \/ NextPasskeys

\* The script of a tab that uploads goes on, as promises are resolved and
\* calls answered or failed.  Nothing makes a user act, or a request of the
\* other pages arrive.
Spec ==
    /\ Init
    /\ [][Next]_browserVars
    /\ \A t \in Tab :
           WF_browserVars(kind = "upload" /\ UploadStep(t)
                          /\ UNCHANGED <<kind, requestVars, securityVars, tagVars,
                                         favouriteVars, timelogVars, passkeyVars>>)

\* Types, and what the sorts of pages and requests allow.
BrowserTypeOK ==
    /\ kind \in Kind
    /\ UploadTypeOK /\ RequestsTypeOK /\ SecurityTypeOK /\ TagTypeOK
    /\ FavouriteTypeOK /\ TimelogTypeOK /\ PasskeyTypeOK
==============================================================================
