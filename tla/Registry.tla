------------------------------- MODULE Registry -------------------------------
(***************************************************************************)
(* The registry of registryd (registryd/registry.c): the applications      *)
(* embedded in the desktop, which are its accessible children, and the     *)
(* events clients have registered for.                                     *)
(*                                                                         *)
(* registryd handles one D-Bus message after another in the order the bus  *)
(* delivers them, so a handler is one step here, with one exception: the   *)
(* cleanup after a client left the bus is one step per turn of its loop    *)
(* over reg->apps, and nothing else happens between those.  That loop      *)
(* reads the name of an application it has just freed; what it finds there *)
(* depends on the allocator.                                               *)
(***************************************************************************)
EXTENDS Integers, Sequences

CONSTANTS
    Names,      \* bus names of the clients
    Paths,      \* object paths of the applications they embed
    EventNames, \* events registered for: sequences of at most three strings
    Removals,   \* events deregistered; one is removed with all its subtypes
    Reembeds,   \* may an application be embedded when it already is?
    Unembeds,   \* do applications call Unembed?
    OwnsNames,  \* the clients that also own a well-known name and give it up
    Rereads,    \* may a freed name still read as it did, or crash (TRUE), or not?
    MaxEmbeds   \* bound: calls of Embed

Refs == [name: Names, path: Paths]

ASSUME RegistryAssumption ==
    /\ \A event \in EventNames \cup Removals : Len(event) \in 0..3
    /\ <<>> \in Removals
    /\ Reembeds \in BOOLEAN
    /\ Unembeds \in BOOLEAN
    /\ OwnsNames \subseteq Names
    /\ Rereads \subseteq BOOLEAN /\ Rereads # {}
    /\ MaxEmbeds \in Nat

VARIABLES
    apps,      \* reg->apps
    id,        \* reg->id: the next application's
    events,    \* reg->events; equal entries come and go together
    polling,   \* have_mouse_event_listener, which the registry sets
    view,      \* what the ChildrenChanged signals add up to for an observer
    cleanup,   \* handle_disconnection at work, if it is
    connected, \* the clients on the bus
    crashed,
    strayed    \* history: has a client done what only few do, see Next?

appVars == <<apps, view>>
eventVars == <<events, polling>>
vars == <<appVars, eventVars, id, cleanup, connected, crashed, strayed>>

Cleanups == [name: Names, at: Nat, again: BOOLEAN]
NoCleanup == [at |-> 0]
Cleaning == cleanup # NoCleanup

\* registryd runs and takes the next message.
Ready == ~crashed /\ ~Cleaning

(***************************************************************************)
(* Sequences with indexes from 0, as in a GPtrArray and in the signals.    *)
(***************************************************************************)
InsertedAt(s, i, x) == SubSeq(s, 1, i) \o <<x>> \o SubSeq(s, i + 1, Len(s))

\* Mutant: the next one is removed.
MutantRemovedAfter(s, i) == SubSeq(s, 1, i + 1) \o SubSeq(s, i + 3, Len(s))

RemovedAt(s, i) == SubSeq(s, 1, i) \o SubSeq(s, i + 2, Len(s))

\* children_added_listener and children_removed_listener.  The observer adds and
\* removes at the index of the signal; an index out of range, or one that has
\* another child, tells it nothing.
ChildAdded(index, ref) == view' = InsertedAt(view, index, ref)
ChildRemoved(index, ref) ==
    IF index < Len(view) /\ view[index + 1] = ref
    THEN view' = RemovedAt(view, index)
    ELSE UNCHANGED view

(***************************************************************************)
(* The desktop's children.                                                 *)
(***************************************************************************)
Embed(ref) ==
    /\ apps' = Append(apps, ref)
    /\ ChildAdded(Len(apps), ref)
    /\ id' = id + 1

\* Mutant: g_ptr_array_remove_index_fast, which moves the last into the gap.
MutantRemoveApplication(index) ==
    /\ apps' = [i \in 1..(Len(apps) - 1) |->
                  IF i = index + 1 THEN apps[Len(apps)] ELSE apps[i]]
    /\ ChildRemoved(index, apps[index + 1])

\* remove_application, but for the device listeners it removes as well.
RemoveApplication(index) ==
    /\ apps' = RemovedAt(apps, index)
    /\ ChildRemoved(index, apps[index + 1])

\* find_index_of_reference compares nothing ("if (...);"): in a list that is not
\* empty it finds whatever it looks for, at index 1.
FindIndexOfReference == IF apps = <<>> THEN 0 ELSE 1

\* With one application the index is that of a slot of the array not in use:
\* reading it crashes, or yields an application that was there before, which is
\* signalled as removed and is not.
Unembed(ref) ==
    LET index == FindIndexOfReference
    IN  \/ index = 0 /\ UNCHANGED <<appVars, crashed>>
        \/ 0 < index /\ index < Len(apps) /\ RemoveApplication(index)
              /\ UNCHANGED crashed
        \/ 0 < index /\ index >= Len(apps)
              /\ crashed' = TRUE /\ UNCHANGED appVars
        \/ 0 < index /\ index >= Len(apps)
              /\ \E old \in Refs : ChildRemoved(index, old)
              /\ UNCHANGED <<apps, crashed>>

(***************************************************************************)
(* Events.  An entry names an event as "class:major:minor" split at the    *)
(* colons; trailing parts may be missing or empty.                         *)
(***************************************************************************)
Part(event, i) == IF i <= Len(event) THEN event[i] ELSE ""

\* event_is_subtype compares up to the first part of the general event that is
\* missing or empty.
EventIsSubtype(event, general) ==
    \A i \in DOMAIN general :
        (\A j \in 1..i : general[j] # "") => /\ i <= Len(event)
                                             /\ event[i] = general[i]

NeedsMousePoll(event) ==
    /\ Part(event, 1) = "Mouse"
    /\ Part(event, 2) \in {"", "Abs"}

RegisterEvent(c, event) ==
    /\ events' = events \cup {[bus |-> c, data |-> event]}
    /\ polling' = (polling \/ NeedsMousePoll(event))

\* Mutant: polling stops whatever events are left.
MutantRemoveEvents(c, general) ==
    /\ events' = {e \in events : ~(e.bus = c /\ EventIsSubtype(e.data, general))}
    /\ polling' = FALSE

RemoveEvents(c, general) ==
    /\ events' = {e \in events : ~(e.bus = c /\ EventIsSubtype(e.data, general))}
    /\ polling' = (polling /\ \E e \in events' : NeedsMousePoll(e.data))

\* Mutant: the loop begins with the second application.
MutantNameOwnerChanged(c) ==
    /\ cleanup' = [name |-> c, at |-> 1, again |-> FALSE]
    /\ UNCHANGED <<appVars, eventVars, crashed>>

(***************************************************************************)
(* handle_disconnection: some name that client c owned has no owner now.   *)
(* Each turn of the loop looks at one index; a matching application is     *)
(* removed, and its freed name then decides whether the application now at *)
(* that index goes too.                                                    *)
(***************************************************************************)
NameOwnerChanged(c) ==
    /\ cleanup' = [name |-> c, at |-> 0, again |-> FALSE]
    /\ UNCHANGED <<appVars, eventVars, crashed>>

CleanupSkips ==
    /\ cleanup.at < Len(apps)
    /\ ~cleanup.again
    /\ apps[cleanup.at + 1].name # cleanup.name
    /\ cleanup' = [cleanup EXCEPT !.at = @ + 1]
    /\ UNCHANGED <<appVars, eventVars, crashed, strayed>>

CleanupRemoves ==
    /\ cleanup.at < Len(apps)
    /\ cleanup.again \/ apps[cleanup.at + 1].name = cleanup.name
    /\ RemoveApplication(cleanup.at)
    /\ \E again \in Rereads :
          /\ cleanup' = [cleanup EXCEPT !.again = again,
                                        !.at = IF again THEN @ ELSE @ + 1]
          /\ strayed' = (strayed \/ again)
    /\ UNCHANGED <<eventVars, crashed>>

\* The freed name led out of the heap, or still matched after the last
\* application was removed.
CleanupCrashes ==
    /\ cleanup.again
    /\ crashed' = TRUE
    /\ UNCHANGED <<appVars, eventVars, cleanup, strayed>>

CleanupEnds ==
    /\ cleanup.at >= Len(apps)
    /\ ~cleanup.again
    /\ RemoveEvents(cleanup.name, <<>>)
    /\ cleanup' = NoCleanup
    /\ UNCHANGED <<appVars, crashed, strayed>>

CleanupProceeds ==
    /\ Cleaning /\ ~crashed
    /\ CleanupSkips \/ CleanupRemoves \/ CleanupCrashes \/ CleanupEnds
    /\ UNCHANGED <<id, connected>>

-----------------------------------------------------------------------------

\* The messages of a client are handled before the bus reports it gone, and a
\* unique name is never used again.
ClientEmbeds(c) ==
    /\ Ready /\ c \in connected
    /\ id < MaxEmbeds
    /\ \E path \in Paths :
          LET ref == [name |-> c, path |-> path]
          IN  /\ Reembeds \/ \A i \in DOMAIN apps : apps[i] # ref
              /\ Embed(ref)
    /\ strayed' = (strayed \/ \E i \in DOMAIN apps : apps[i].name = c)
    /\ UNCHANGED <<eventVars, cleanup, connected, crashed>>

ClientUnembeds(c) ==
    /\ Ready /\ c \in connected
    /\ Unembeds
    /\ \E i \in DOMAIN apps : apps[i].name = c /\ Unembed(apps[i])
    /\ strayed' = TRUE
    /\ UNCHANGED <<eventVars, id, cleanup, connected>>

ClientRegistersEvent(c) ==
    /\ Ready /\ c \in connected
    /\ \E event \in EventNames : RegisterEvent(c, event)
    /\ UNCHANGED <<appVars, id, cleanup, connected, crashed, strayed>>

ClientDeregistersEvent(c) ==
    /\ Ready /\ c \in connected
    /\ \E general \in Removals : RemoveEvents(c, general)
    /\ UNCHANGED <<appVars, id, cleanup, connected, crashed, strayed>>

ClientLeaves(c) ==
    /\ Ready /\ c \in connected
    /\ connected' = connected \ {c}
    /\ NameOwnerChanged(c)
    /\ UNCHANGED <<id, strayed>>

\* The handler looks at the old and the new owner, not at which name it is: a
\* client that gives up a well-known name is taken for gone.
ClientReleasesName(c) ==
    /\ Ready /\ c \in connected \cap OwnsNames
    /\ NameOwnerChanged(c)
    /\ strayed' = TRUE
    /\ UNCHANGED <<id, connected>>

Init ==
    /\ apps = <<>>
    /\ id = 0
    /\ events = {}
    /\ polling = FALSE
    /\ view = <<>>
    /\ cleanup = NoCleanup
    /\ connected = Names
    /\ crashed = FALSE
    /\ strayed = FALSE

\* Most clients are applications that embed one root once and stay embedded until
\* they leave.  A client strays that embeds another, unembeds or gives up a
\* well-known name, and so does an allocator that leaves freed names as they were.
Next ==
    \/ \E c \in Names :
          \/ ClientEmbeds(c)
          \/ ClientUnembeds(c)
          \/ ClientRegistersEvent(c)
          \/ ClientDeregistersEvent(c)
          \/ ClientLeaves(c)
          \/ ClientReleasesName(c)
    \/ CleanupProceeds

Spec == Init /\ [][Next]_vars

-----------------------------------------------------------------------------

Entries == [bus: Names, data: EventNames]

TypeOK ==
    /\ apps \in Seq(Refs)
    /\ id \in 0..MaxEmbeds
    /\ events \subseteq Entries
    /\ polling \in BOOLEAN
    /\ view \in Seq(Refs)
    /\ cleanup \in Cleanups \cup {NoCleanup}
    /\ connected \subseteq Names
    /\ crashed \in BOOLEAN
    /\ strayed \in BOOLEAN

\* The pointer is polled for events exactly while somebody is registered for an
\* event that needs it, whoever deregisters or leaves, with what supertype.
PollFollowsEvents == polling = (\E e \in events : NeedsMousePoll(e.data))

\* A client that has left is in no event registration once its departure has
\* been handled, so no event is ever addressed to it.
EventsOfConnected ==
    Ready => \A e \in events : e.bus \in connected

\* Whoever follows the ChildrenChanged signals knows the desktop's children, in
\* their order: each signal has the index and child of the change it is about,
\* the spurious one of an Unembed with a single application excepted, whose
\* index no child has.
ViewFollowsApps == view = apps

\* When a departure has been handled, the desktop has none of the client's
\* children, provided that nobody has strayed.
DesktopOfConnected ==
    Ready /\ ~strayed => \A i \in DOMAIN apps : apps[i].name \in connected

\* The values the variables take, and what a departure that has been handled leaves.
Consistent == TypeOK /\ EventsOfConnected /\ DesktopOfConnected

\* An application leaves the desktop only because it left the bus: as long as
\* nobody strays, no departure takes away the children of somebody still there.
ConnectedStay ==
    [][~strayed' =>
          \A i \in DOMAIN apps :
             apps[i].name \in connected => \E j \in DOMAIN apps' : apps'[j] = apps[i]]_vars

\* Unembed takes one plug away, that of the caller.
UnembedTakesPlug ==
    [][\A c \in Names : ClientUnembeds(c) =>
          \A i \in DOMAIN apps :
              apps[i].name # c => \E j \in DOMAIN apps' : apps'[j] = apps[i]]_vars
=============================================================================
