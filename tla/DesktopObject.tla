---------------------------- MODULE DesktopObject -----------------------------
(***************************************************************************)
(* The desktop as an accessible: what handle_method_root answers in        *)
(* registryd (registryd/registry.c).  Its children and Embed are in module *)
(* Registry; everything else never changes.  Members are named as in       *)
(* module Interfaces.                                                      *)
(***************************************************************************)

DesktopProperties ==
    {"Accessible.Name", "Accessible.Description", "Accessible.Parent",
     "Accessible.ChildCount", "Application.ToolkitName", "Application.ToolkitVersion"}

DesktopAccessible ==
    {"Accessible.GetChildAtIndex", "Accessible.GetChildren",
     "Accessible.GetIndexInParent", "Accessible.GetRelationSet", "Accessible.GetRole",
     "Accessible.GetRoleName", "Accessible.GetLocalizedRoleName",
     "Accessible.GetState", "Accessible.GetAttributes", "Accessible.GetApplication",
     "Accessible.GetInterfaces"}

DesktopComponent ==
    {"Component.Contains", "Component.GetAccessibleAtPoint", "Component.GetExtents",
     "Component.GetPosition", "Component.GetSize", "Component.GetLayer",
     "Component.GetMDIZOrder", "Component.GrabFocus", "Component.GetAlpha"}

\* What GetInterfaces says it has.
DesktopInterfaces == {"Accessible", "Component"}

\* handle_method_root: any other property is an error, any other member is left
\* to libdbus, which makes an error of it.
DesktopAnswers == DesktopProperties \cup DesktopAccessible \cup DesktopComponent

DesktopBacks(m) == IF m \in DesktopAnswers THEN {"answer", "nothing"}
                   ELSE {"refusal", "nothing"}
=============================================================================
