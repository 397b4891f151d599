----------------------------- MODULE MCClientCalls -----------------------------
(* A listener with two callbacks; a widget and the desktop. *)
EXTENDS ClientCalls

AskedOfDesktop ==
    Members(Kept \cup AccessibleChildren \cup AccessibleRelations \cup AccessibleRoleName
            \cup ApplicationId \cup ComponentPlace \cup ComponentMove)

\* Of the interfaces the desktop says it has, and of an application, registryd
\* leaves these questions of a client to libdbus, which refuses them.
ASSUME AskedOfDesktop \ DesktopAnswers =
    {"Application.Id", "Application.Version", "Application.AtspiVersion",
     "Component.SetPosition", "Component.SetSize", "Component.SetExtents"}

\* Every function has one row; those that keep nothing ask what is not kept.
ASSUME Cardinality(Rows) = Cardinality(Members(Rows))
ASSUME Wrappers \cap Members(Kept) = {}
=============================================================================
