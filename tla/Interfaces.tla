------------------------------ MODULE Interfaces ------------------------------
(***************************************************************************)
(* What a client's functions return (atspi/atspi-*.c).                     *)
(*                                                                         *)
(* Most of them ask an application one thing and return what it answered.  *)
(* They differ in the way they ask, and so in who tells the program that   *)
(* there was no answer, and in what they return then: the value a variable *)
(* had to begin with, if it had one.  A function is named here after what  *)
(* it asks for, <interface>.<member>.                                      *)
(***************************************************************************)
(***************************************************************************)
(* Values, as far as they differ here.  "answer" is what was asked for,    *)
(* "other" the answer to another question and "partly" an answer of which  *)
(* something is missing.  A null pointer, an index, count or extent of -1, *)
(* a request that failed, a role or state that says so are seen for what   *)
(* they are.  MadeUp values may as well be answers, and "garbage" was      *)
(* never written.                                                          *)
(***************************************************************************)
MadeUp == {"zero", "one", "empty", "no", "done", "garbage"}

Row(how, start, members) == [of : members, how : {how}, start : {start}]
Call(start, members) == Row("call", start, members)
Property(start, members) == Row("property", start, members)
Reference(members) == Row("partial", "null", members)

\* What the rows of a table ask for.
Members(table) == {row.of : row \in table}

-----------------------------------------------------------------------------
(* The interfaces: how each function asks, and what it begins with.        *)

TextContents ==
    Property("zero", {"Text.CharacterCount"}) \cup Call("empty", {"Text.GetText"})
    \cup Property("minus one", {"Text.CaretOffset"})

TextAttributes ==
    Row("checked", "null", {"Text.GetAttributes", "Text.GetAttributeRun"})
    \cup Call("null", {"Text.GetAttributeValue"})
    \cup Reference({"Text.GetDefaultAttributes"})

TextAround ==
    Call("failed", {"Text.SetCaretOffset"})
    \cup Call("nowhere", {"Text.GetTextBeforeOffset", "Text.GetTextAtOffset",
                        "Text.GetTextAfterOffset"})

TextPlaces ==
    Call("minus one", {"Text.GetCharacterAtOffset", "Text.GetOffsetAtPoint"})
    \cup Call("garbage", {"Text.GetCharacterExtents", "Text.GetRangeExtents"})

TextSelections ==
    Call("garbage", {"Text.GetBoundedRanges", "Text.GetSelection"})
    \cup Call("zero", {"Text.GetNSelections"})
    \cup Call("failed", {"Text.AddSelection", "Text.RemoveSelection",
                       "Text.SetSelection"})

TableShape ==
    Property("null", {"Table.Caption"}) \cup Property("garbage", {"Table.Summary"})
    \cup Property("minus one", {"Table.NRows", "Table.NColumns"})
    \cup Reference({"Table.GetAccessibleAt"}) \cup Call("minus one", {"Table.GetIndexAt"})

TableIndices ==
    Call("minus one", {"Table.GetRowAtIndex", "Table.GetColumnAtIndex",
                       "Table.GetRowExtentAt", "Table.GetColumnExtentAt"})
    \cup Call("null", {"Table.GetRowDescription", "Table.GetColumnDescription"})

TableSelected ==
    Reference({"Table.GetRowHeader", "Table.GetColumnHeader"})
    \cup Property("minus one", {"Table.NSelectedRows", "Table.NSelectedColumns"})
    \cup Call("null", {"Table.GetSelectedRows", "Table.GetSelectedColumns"})
    \cup Call("no", {"Table.IsRowSelected", "Table.IsColumnSelected"})

TableSelect ==
    Call("failed", {"Table.AddRowSelection", "Table.AddColumnSelection",
                    "Table.RemoveRowSelection", "Table.RemoveColumnSelection",
                    "Table.GetRowColumnExtentsAtIndex"})
    \cup Call("no", {"Table.IsSelected"})

ComponentPlace ==
    Call("no", {"Component.Contains"}) \cup Reference({"Component.GetAccessibleAtPoint"})
    \cup Call("nowhere", {"Component.GetExtents"}) \cup Call("one", {"Component.GetAlpha"})
    \cup Call("garbage", {"Component.GetPosition", "Component.GetSize"})
    \cup Call("minus one", {"Component.GetLayer", "Component.GetMDIZOrder"})

ComponentMove ==
    Call("failed", {"Component.GrabFocus", "Component.SetPosition", "Component.SetSize"})
    \cup Row("set", "failed", {"Component.SetExtents"})

CollectionMatches ==
    Row("message", "null", {"Collection.GetMatches", "Collection.GetMatchesTo",
                            "Collection.GetMatchesFrom"})

\* The functions that say TODO ask nobody.
CollectionUnfinished ==
    Row("nothing", "no", {"Collection.IsAncestorOf"})
    \cup Row("nothing", "null", {"Collection.GetActiveDescendant"})

SelectionCalls ==
    Property("minus one", {"Selection.NSelectedChildren"})
    \cup Reference({"Selection.GetSelectedChild"})
    \cup Call("failed", {"Selection.SelectChild", "Selection.DeselectSelectedChild",
                       "Selection.DeselectChild"})
    \cup Call("no", {"Selection.IsChildSelected"})

SelectionAll == Call("failed", {"Selection.SelectAll", "Selection.ClearSelection"})

EditableText ==
    Call("failed", {"EditableText.SetTextContents", "EditableText.InsertText",
                    "EditableText.CutText", "EditableText.DeleteText"})
    \cup Call("done", {"EditableText.CopyText"})

EditableTextPaste == Call("failed", {"EditableText.PasteText"})

HyperlinkAnchors ==
    Property("minus one", {"Hyperlink.NAnchors"}) \cup Call("empty", {"Hyperlink.GetURI"})
    \cup Reference({"Hyperlink.GetObject"}) \cup Call("garbage", {"Hyperlink.GetIndexRange"})

HyperlinkIndices ==
    Property("minus one", {"Hyperlink.StartIndex", "Hyperlink.EndIndex"})
    \cup Call("no", {"Hyperlink.IsValid"})

ValueNumbers ==
    Property("garbage", {"Value.MinimumValue", "Value.CurrentValue",
                         "Value.MaximumValue", "Value.MinimumIncrement"})
    \cup Row("set", "failed", {"Value.SetCurrentValue"})

ImageCalls ==
    Property("null", {"Image.ImageDescription", "Image.ImageLocale"})
    \cup Call("garbage", {"Image.GetImageSize", "Image.GetImagePosition"})
    \cup Call("nowhere", {"Image.GetImageExtents"})

ActionCalls ==
    Property("zero", {"Action.NActions"})
    \cup Call("null", {"Action.GetDescription", "Action.GetKeyBinding", "Action.GetName"})
    \cup Call("failed", {"Action.DoAction"})

DocumentCalls ==
    Call("null", {"Document.GetLocale"}) \cup Call("empty", {"Document.GetAttributevaluee"})
    \cup Reference({"Document.GetAttributes"})

HypertextCalls ==
    Call("zero", {"Hypertext.GetNLinks"}) \cup Call("minus one", {"Hypertext.GetLinkIndex"})
    \cup Row("link", "null", {"Hypertext.GetLink"})

\* What accessibles do not keep, or not yet.  The index in the parent, the states
\* and the interfaces are asked for without a place for an error.
AccessibleChildren ==
    Property("minus one", {"Accessible.ChildCount"})
    \cup Reference({"Accessible.GetChildAtIndex"})
    \cup Row("unheard", "minus one", {"Accessible.GetIndexInParent"})

AccessibleRelations == Row("checked", "null", {"Accessible.GetRelationSet"})
AccessibleRoleName ==
    Call("empty", {"Accessible.GetRoleName", "Accessible.GetLocalizedRoleName"})
ApplicationId == Property("minus one", {"Application.Id"})

\* The bus is asked, which knows an application by its name.
AccessibleProcess == Row("driver", "minus one", {"Accessible.GetProcessId"})

\* What accessibles and applications keep, see ClientCalls.
KeptNames == Property("empty", {"Accessible.Name", "Accessible.Description"})
KeptParent == Row("message", "null", {"Accessible.Parent"})
KeptRole == Call("invalid", {"Accessible.GetRole"})
KeptState == Row("unheard", "defunct", {"Accessible.GetState"})
KeptAttributes == Reference({"Accessible.GetAttributes"})
KeptInterfaces == Row("unheard", "no", {"Accessible.GetInterfaces"})
KeptByApplication ==
    Property("null", {"Application.ToolkitName", "Application.Version",
                      "Application.AtspiVersion"})

Kept == KeptNames \cup KeptParent \cup KeptRole \cup KeptState \cup KeptAttributes
        \cup KeptInterfaces \cup KeptByApplication

AskedAnew ==
    TextContents \cup TextAttributes \cup TextAround \cup TextPlaces \cup TextSelections
    \cup TableShape \cup TableIndices \cup TableSelected \cup TableSelect
    \cup ComponentPlace \cup ComponentMove \cup CollectionMatches \cup CollectionUnfinished
    \cup SelectionCalls \cup SelectionAll \cup EditableText \cup EditableTextPaste
    \cup HyperlinkAnchors \cup HyperlinkIndices \cup ValueNumbers \cup ImageCalls
    \cup ActionCalls \cup DocumentCalls \cup HypertextCalls
    \cup AccessibleChildren \cup AccessibleRelations \cup AccessibleRoleName \cup ApplicationId
    \cup AccessibleProcess

Wrappers == Members(AskedAnew)
Rows == AskedAnew \cup Kept
RowOf(m) == CHOOSE row \in Rows : row.of = m

-----------------------------------------------------------------------------
(***************************************************************************)
(* What the questions say, and what becomes of an answer: the interfaces,  *)
(* in xml/, say what applications understand and answer.                   *)
(***************************************************************************)

\* The address of the index is sent where the index is meant; or the answer is read
\* as if what it begins with came last: the row is taken for the column, and the
\* column's extent for whether the cell is selected (xml/Table.xml:124-132).
AsksOther == {"Selection.SelectChild", "Selection.DeselectChild",
              "Selection.IsChildSelected", "Table.GetRowColumnExtentsAtIndex"}

\* The end of an attribute is that of its beginning.
ReadsPartly == {"Text.GetAttributes"}

\* An application that goes by its interface refuses: it has no such member
\* (xml/Hyperlink.xml, xml/Document.xml:9), or wants another type of coordinates,
\* the name of the attribute, or a rule made otherwise (xml/Component.xml:8,
\* xml/Text.xml:51, xml/Collection.xml).  registryd, which looks at no argument,
\* answers the first of them.
MisAsked == {"Component.Contains", "Hyperlink.GetIndexRange", "Text.GetAttributeValue",
             "Document.GetAttributevaluee"} \cup Members(CollectionMatches)

\* A number read as another type than applications send (xml/Hyperlink.xml:5), and
\* nobody asked.
NeverAnswered == {"Hyperlink.NAnchors"} \cup Members(CollectionUnfinished)

\* Ranges end with a variant, which dbind reads without ever getting past it; an
\* answer without ranges is read.
NeverRead == {"Text.GetBoundedRanges"}

AnswerTo(m) == CASE m \in AsksOther -> "other"
                 [] m \in ReadsPartly -> "partly"
                 [] OTHER -> "answer"

-----------------------------------------------------------------------------
(***************************************************************************)
(* What comes back.  "link" is the connection to the application: the      *)
(* accessibility bus, a connection of its own, "none" while the application*)
(* is disposed and its accessibles are not yet, and "gone" afterwards.     *)
(* "back" is an answer, a refusal (an error message) or nothing in time.   *)
(* On the bus libdbus makes NULL and an error of the last two; on a        *)
(* connection of its own, dbind waits itself, returns the refusal as if it *)
(* were the answer, and NULL without an error after the time.              *)
(***************************************************************************)
Links == {"bus", "own", "none", "gone"}
Backs == {"answer", "refusal", "nothing"}
ApplicationBacks(m) == IF m \in MisAsked THEN Backs \ {"answer"} ELSE Backs

Result(value, error) == [value |-> value, error |-> error]
Aborts == [value |-> "abort", error |-> FALSE]
Hangs == [value |-> "loop", error |-> FALSE]
Ends == {Aborts, Hangs}   \* the program does nothing more

Connected(link) == link \in {"bus", "own"}
AsksBus(m) == RowOf(m).how = "driver"
Reaches(m, link) == Connected(link) \/ (AsksBus(m) /\ link = "none")
Refused(link, back) == link = "own" /\ back = "refusal"   \* an error message is read
Null(link, back) == ~Connected(link) \/ (back # "answer" /\ ~Refused(link, back))

\* Mutant: libdbus's error is dropped, as call_partial drops it.
MutantCallFails(start, link) == Result(start, ~Connected(link))

\* _atspi_dbus_call and dbind_method_call_reentrant_va: the application no longer
\* exists, or libdbus's error is handed on.
CallFails(start, link) == Result(start, link # "own")

\* _atspi_dbus_get_property: an error is handed on for an application that is
\* gone.  Of a refusal the text is looked for in the message that was sent, which
\* is freed.
PropertyFails(start, link, back) ==
    {Result(start, e) : e \in IF Refused(link, back) THEN BOOLEAN ELSE {~Connected(link)}}

\* _atspi_dbus_call_partial: what libdbus says is not handed on.
PartialFails(start, link) == Result(start, ~Connected(link))

\* _atspi_dbus_send_with_reply_and_block, and functions that make their message
\* themselves: nothing is said of an application without a connection.
MessageFails(start, link) == Result(start, link = "bus")

\* A NULL is read as if it were a message: libdbus aborts.
SetFails(m, link, back) ==
    IF link = "gone" THEN Result("failed", TRUE)
    ELSE IF Null(link, back) THEN Aborts
    ELSE Result(IF m = "Value.SetCurrentValue" THEN "done" ELSE "failed", FALSE)

DriverFails(start, link) == IF link = "gone" THEN Result(start, FALSE) ELSE Aborts
LinkFails(link, back) == IF Null(link, back) THEN Aborts ELSE Result("null", FALSE)

\* The outcomes of a question that has no answer.
Failures(m, link, back) ==
    LET start == RowOf(m).start
        how == RowOf(m).how
    IN  CASE how = "call" -> {CallFails(start, link)}
          [] how = "property" -> PropertyFails(start, link, back)
          [] how = "partial" -> {PartialFails(start, link)}
          [] how = "checked" -> {Result(start, Refused(link, back) \/ ~Connected(link))}
          [] how = "message" -> {MessageFails(start, link)}
          [] how \in {"unheard", "nothing"} -> {Result(start, FALSE)}
          [] how = "set" -> {SetFails(m, link, back)}
          [] how = "link" -> {LinkFails(link, back)}
          [] how = "driver" -> {DriverFails(start, link)}

Answered(m) ==
    {Result(AnswerTo(m), FALSE)} \cup {r \in {Hangs} : m \in NeverRead}

Outcomes(m, link, back) ==
    IF Reaches(m, link) /\ back = "answer" /\ m \notin NeverAnswered
    THEN Answered(m)
    ELSE Failures(m, link, IF back = "answer" THEN "nothing" ELSE back)
=============================================================================
