------------------------ MODULE MCUpdateNotification ------------------------
\* An import owned by a session, an update announced by a page, and a deletion.
EXTENDS UpdateNotification, TLC
CONSTANTS i, u, m, s
MCKind == i :> "import" @@ u :> "update" @@ m :> "mutation"
MCBy == i :> s @@ u :> None @@ m :> None
=============================================================================
