------------------------------ MODULE MCBrowser ------------------------------
(* The instance of Browser.cfg. *)
EXTENDS Browser, TLC

CONSTANTS p1, p2, p3, s1, s2,               \* pages and sessions
          a, b, big, f1, f2, f3, c1, c2, o1, o2,  \* tabs, files, ...
          plain, numbered, marked, admin, other

\* Two pages of one session, and one of another.
MCSessionOf == p1 :> s1 @@ p2 :> s1 @@ p3 :> s2
Opening(k, ps, n) == [kind |-> k, pages |-> ps, requests |-> n]
MCOpenings ==
    {Opening("upload", {}, 0),
     Opening("security", {p1, p3}, 4),
     Opening("tags", {p1}, 4), Opening("tags", {p1, p2}, 3),
     Opening("tags", {p1, p3}, 3),
     Opening("favourite", {p1, p3}, 4),
     Opening("timelog", {p1, p2}, 3), Opening("timelog", {p1, p3}, 3),
     Opening("passkeys", {p1, p2}, 3), Opening("passkeys", {p1, p3}, 3)}

\* One file of several parts, and three of one content for two objects.
MCSize == [f \in File |-> IF f = big THEN 4 ELSE 1]
MCContent == [f \in File |-> IF f = big THEN c2 ELSE c1]
MCParentOf == big :> "none" @@ f1 :> o1 @@ f2 :> o2 @@ f3 :> o1
MCSelection == {a :> <<>> @@ b :> <<>>, a :> <<big>> @@ b :> <<>>,
                a :> <<f1, f3>> @@ b :> <<f2>>}

MCFirstTags == <<plain>>
MCLeadingInt == numbered :> 1 @@ plain :> 0 @@ marked :> 0
MCFinds == [t \in TagText |-> IF t = marked THEN {numbered} ELSE {t}]
==============================================================================
