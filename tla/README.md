# at-spi2-core in TLA+

at-spi2-core is the accessibility plumbing of a desktop: applications show
trees of accessible objects on a D-Bus bus of their own, assistive technologies
(screen readers, on-screen keyboards) look at them, and a daemon, `registryd`,
sits between. This directory models the parts of it that hold state and react
to several parties at once, checks them with TLC, and proves what matters most
with TLAPS. Source paths below are relative to the repository.

    tlc -workers 2 -config Registryd.cfg MCRegistryd.tla   # one run
    tlapm MousePoll_proofs.tla                           # one module of proofs

`PROJECT.json` says which lines every definition stands for (`map`), what every
run checks (`runs`), which change of the code breaks every property
(`mutants`), where the code and its documentation part (`findings`), and what
is hard to test in this code (`hazards`).

## The system

| Part | State | Operations | Talks to |
|---|---|---|---|
| registry, `registryd/registry.c` | `apps` (the desktop's children), `events` (who registered for which), `id` | Embed, Unembed, RegisterEvent, DeregisterEvent, NameOwnerChanged | signals ChildrenChanged and EventListener(De)registered to all; calls the device event controller |
| device event controller, `registryd/deviceeventcontroller.c` | listeners of keys and of the pointer, `keygrabs_list`, two flags, GLib timers, last pointer state, `message_queue`, keys being synthesized | (De)RegisterKeystrokeListener, (De)RegisterDeviceEventListener, NotifyListenersSync/Async, GenerateKeyboardEvent, GenerateMouseEvent, X events, timers | X server (grabs, polling, XTest), calls NotifyEvent of clients and waits |
| re-entrant lists, `registryd/reentrant-list.c` | the walk in progress | foreach, delete_link | used by the controller |
| symbols and Unicode, `registryd/ucs2keysym.c` | a table | ucs2keysym, keysym2ucs | used by the controller |
| registryd's main program, `registryd/registry-main.c` | — | start, exit | session manager |
| bus launcher, `bus/at-spi-bus-launcher.c` | pid, address and state of the bus, the X root property | GetAddress, name lost, SIGTERM, bus exit | session bus, X server |
| client library: cache, `atspi/atspi-misc.c`, `atspi-accessible.c` | a hash of accessibles per application, cached fields, the desktop | calls of every interface, GetItems replies, Add/RemoveAccessible, events | applications, registryd |
| client library: messages, `atspi/atspi-misc.c`, `atspi-gmain.c` | `deferred_messages`, an idle callback | defer, process before and after calls | the GLib main loop |
| client library: events, `atspi/atspi-event-listener.c` | `event_listeners` | register, deregister, deliver | registryd |
| client library: devices, `atspi/atspi-device-listener.c`, `atspi-registry.c` | listeners, their ids and callbacks | register, deregister, NotifyEvent | registryd |
| accessibles, `atspi/atspi-accessible.c` | what was kept, by flags | get_name and the like, clear_cache, dispose | applications, registryd's desktop |
| interfaces of accessibles, `atspi/atspi-*.c` | — | a remote call each | applications |
| state sets, `atspi/atspi-stateset.c` | 64 bits | set algebra | the cache |
| marshalling, `dbind/` | — | C data to messages and back | everything |

What makes this code hard:

* registryd is single-threaded and nevertheless interleaved. Calling a client's
  listener waits for the answer and dispatches the bus meanwhile
  (`send_and_allow_reentry`), so registry calls and departures are handled in
  the middle of a mouse check or of another client's call.
* Calls to the controller are queued for an idle callback for that very reason,
  and so arrive in another order than calls to the registry and departures.
* Clients leave at any time and leave things behind; the clean-up walks lists
  that shrink under it.
* Reference counts stand for grabs in another program, the X server, which may
  refuse them, and whose grabs of one key and of all keys overlap; and what key a
  symbol has is looked up anew each time, in a keymap that changes.
* Timers start, die and replace one another as flags rise and fall.
* A symbol that no key has is typed by lending it a key of the user's own and
  taking it back later, while the user types on.
* Clients put signals off while they wait for an answer, so that what they have
  cached and what they are told need not be of the same moment.
* Callbacks of a client change the lists they are called from, and call back into
  the library, which handles what it had put off in the middle of them.
* registryd waits for a client's listener and the client for registryd, neither
  answering meanwhile.
* Dozens of functions of the client fail in their own way when an application
  refuses, is silent or goes away.
* Two launchers may start the bus at once, and programs find the address of one
  that is no more.

What makes the parts correct: nobody listens unpolled and nobody is polled for
in vain; everything seen is reported; grabs exist exactly for the listeners
that need them; the desktop has the connected applications, and whoever follows
the signals knows them; every queued call is handled once, in order, and
answered; a departure leaves nothing behind; symbols are read as they were meant
and the keymap comes back; a client's cache ends up as the application is, its
listeners are told of everything once, and it can tell an answer from a failure;
one accessibility bus lasts.

## Modules

| Module | What | Proofs |
|---|---|---|
| `MousePoll` | how registryd watches the pointer | `MousePoll_proofs` |
| `KeyGrabs` | keystroke listeners and their key grabs | `GrabsAndSynth_proofs` |
| `KeyEvents` | key events on their way past the listeners to the application | `EventsAndCalls_proofs` |
| `KeySynth` | keyboard and mouse events clients ask for, XKB latches | `GrabsAndSynth_proofs` |
| `Ucs2Keysym`, `Keysymtab` | characters to symbols and back, the table | `GrabsAndSynth_proofs` |
| `Registry` | the desktop's children and the event registrations | `Registry_proofs` |
| `Registryd` | bus, main loop and queue, composing `Registry` and `MousePoll` | `Registryd_proofs` |
| `DesktopObject` | which questions about the desktop registryd answers | |
| `BusLauncher` | launchers of the accessibility bus and programs that look for it | `BusLauncher_proofs` |
| `ClientCache` | a client's copy of an application, deferred messages, calls | `ClientCache_proofs` |
| `EventListeners` | a client's event listeners | `EventListeners_proofs` |
| `Interfaces` | how every function of a client asks, and what it returns without an answer | |
| `ClientCalls` | device listeners, timeouts, and what accessibles keep, on top of `Interfaces` and `DesktopObject` | `EventsAndCalls_proofs` |
| `Lists` | what is left of a list | `EventsAndCalls_proofs` |
| `MC*` | values of constants for TLC | |

Every module with variables has a `Consistent`, the conjunction of its type
invariant and of the named parts that hold at any moment; what relates moments
or actors stands by itself. In `KeySynth` and `ClientCalls` the specification and its
parts bear the component's name (`SynthSpec`, `ClientSpec`, `SynthConsistent`,
`ClientConsistent` and so on): they are proved about in one module with `KeyGrabs` and
`KeyEvents`, whose names are the plain ones.

**MousePoll.** `mouseListeners`, `haveMouseListener`, `haveMouseEventListener`,
`lastMousePos` and `mouseMaskState` are the variables of those names in the C
code. Timers are counted, since GLib sources of one function differ in nothing.
A mouse check (`spi_dec_mouse_check`, and the button report of the XKB handler)
is a little process: `BeginCheck` takes what XQueryPointer answers,
`ReportButton` tells of one button and may wait for a listener,
`ListenerAnswers` goes on, `EndCheck` reports motion and modifiers and decides
which timer goes on. While it waits, requests that the bus delivers are
handled (`BusDispatch`), and nothing else (`MainLoop`). `told` is an
observer's: where the signals said the pointer is.

**KeyGrabs.** One action per request. `keygrabs[g]` is the reference count of the
entry for modifier mask and keycode `g`, 0 for none; `xGrabs` and `taken` are
the X server's side: keys grabbed for registryd and for others. A request's whole
effect, `spi_controller_update_key_grabs` included, is one step, because
nothing is dispatched in it; a departure is one step per listener
removed, because each reads the list the one before left. `ref_count` is an
unsigned bit field, so counting below 0 fails an assertion (`ended`).
`trapped` says which X error handler is installed, and with it whether a
refused grab is noticed. `keycodes` is the keymap: `handle_keygrab` looks a
symbol's key up at the registration and again at the deregistration (`GrabsFor`),
and the user (`UserRemaps`) and registryd itself (`Lend`, `ResetReservedKey`)
change it between; a symbol without a key becomes keycode 0, which is AnyKey. A key
event whose symbol has lost its key has registryd lend the reserved one and write
through NULL (`ForwardUnmapped`). `scenario` chooses for one behaviour what
clients send, the keys other X clients want, the keymaps the user sets and whether
clients are `careless`: these register twice or for their own window, and deregister
with other keys or another mask than they registered with, as this repository's
client library does, which sends the address of the caller's array. What is true
is true of the grabs that none of three things has happened to, which history
variables record grab by grab: `refused` by the X server; `cut`, when a release of
all keys has met one of them, or the other way round; `spoilt`, when a
deregistration gave back other grabs than its listener took (`took`). No client has
to behave for the rest: a listener that spoils its own grabs leaves the others alone.

**KeyEvents.** The X server, the user and the focused application are external
and modelled by what the code relies on: a press of a grabbed key activates its
grab (`grab`) and freezes the keyboard (`frozen`, the number of the press), the
events wait in the connection (`unread`), and XAllowEvents acts on whatever has
frozen the keyboard when it arrives. `event_dispatch` reads one event after
another (`dispatching`, `ReadEvent`), `task` is the one
`spi_controller_notify_keylisteners` at work, whoever called it: a key event
("x"), a release that the timer saw ("release") or NotifyListeners ("sync").
`SwallowPending` and `AllowConsumed` are the two halves of what follows a
consumed event; the server may send more between them. `pressed` is
`pressed_event`, `timers` counts the timers that look at it. Every press ends in
`consumed`, `relayed` (the application has it) or `swallowed` (thrown away
unread); `raced` is a history variable: it tells whether a key event came
while the one before it was being handled. Presses are those of a user with no modifier
held and no autorepeat; refused grabs are `KeyGrabs`' subject; the types of a
listener are those it sent as a number, as the client library does (from a
list of types, registryd starts with an uninitialized one).

**Registry.** One action per D-Bus method. The clean-up after a departure is a
step per turn of its loop, which reads a name it may just have freed: `Rereads`
says what may be read. `strayed` is a history variable: it tells whether a
client has embedded a second application, called Unembed or given up a
well-known name, or a freed name was read as it had been. Each of these breaks
the promise that the desktop has the connected applications and keeps them
(`registry_unembed` shows one), and `DesktopOfConnected` and
`ConnectedStay` say that nothing else does. `view` is an observer that applies ChildrenChanged
signals as they come. Events are sequences of their parts ("Mouse:Abs" is
`<<"Mouse", "Abs">>`), since subtypes are about the parts and where they are
empty.

**Registryd.** `inbox` is what the bus has yet to deliver, in one order for calls and
departures; `queue` is `message_queue`, `idle` is `message_queue_idle`,
`draining` that `message_queue_dispatch` runs, `notifying` a
NotifyListenersSync that waits. Each handler is the action of `Registry` or
`MousePoll` with the calls it makes into the other: RegisterEvent starts
polling, a removed application takes its device listeners along.

**KeySynth.** A handler of registryd runs to its end, but the user and the
application act between its requests to the X server; the model tells apart the
press of a symbol (`PressKeysym`, with the modifiers locked for it and the key
lent) and its release (`ReleaseKeysym`). `base` is what the reserved key types
now, `loans` are the timers that give it back, each with its age. `session`
bounds what clients and the user do in one behaviour. `meant`, `mods` and `calm`
of a key the application has not read say what was asked for, under which modifiers
it was pressed, and whether the conditions of `CalmFor` held before that:
registryd knows the modifiers the server has; the search has found those the symbol
needs; no other modifiers are set that change the key, since the code unlocks none; no
timer of an older loan ends within the application's patience. They are about what
is there before the symbol is typed; that the locks made for it are right, and the
loan lasts, is what `TypedAsMeant` checks. The run reaches the other cases too, and the
symbol is then read as another (see "Where code and documentation part").

**BusLauncher.** `phase` follows `main`; `Launch` is `ensure_a11y_bus` up to the
address that the child prints, `BusAcquired` and `NameAnswered` are the callbacks
of `g_bus_own_name`, and `KillBus` and `Exit` what follows the main loop. `Crash`
ends a launcher at any point. Behaviours are about buses or about the setting
(`world`), since neither touches the other's state.

**ClientCache.** One accessible with a name and children stands for what is cached.
`inbox`, `deferred` and `calls` are the three places where a message can be:
dispatched or not, put off, or overtaken by the answer to a blocking call.
`process` and `handler` say who runs `_atspi_process_deferred_messages` and what
its callback does. Values of the name are versions, so that older and newer can
be told apart. `overtaken` and `replayed` are history variables: a cached answer
can be older than a signal handled before it, and then nothing promises that the
cache is right.

**EventListeners.** The walk of `_atspi_send_event` and that of the deregistration
are frames of `stack`, since callbacks of the one start the other. Nodes are
numbered, so that a walk on a freed node can be told (`stray`): a callback that
removes the very listener it is called for does that. Messages are handled one after
another, but an accessible whose last reference goes tells the listeners itself
(`DisposeTells`), whoever drops it, so walks may lie on one another; such an event
has no number.

**Interfaces, DesktopObject.** The functions of the twelve interfaces differ in how
they ask and in what a variable of theirs holds before the answer. The tables are
sets of rows, a row says both (`RowOf`); `Outcomes` gives what the program is
returned for each kind of connection and of answer. What a question says is held
against the interface it is sent to: `MisAsked` are those an application refuses that
goes by `xml/`, since it has no such member (`Hyperlink.GetIndexRange`,
`Document.GetAttributevaluee`) or the types are others (`Component.Contains`, whose
coordinate type is sent as `n` where `xml/Component.xml:8` has `u`;
`Text.GetAttributeValue`, sent without the name `xml/Text.xml:51` asks for; the three
`Collection.GetMatches*`); they are refused or unanswered. `AsksOther` sends the
wrong argument, or reads the answer shifted by one (`Table.GetRowColumnExtentsAtIndex`,
`xml/Table.xml:124-132`). `NeverRead` is `Text.GetBoundedRanges`: its answer holds
variants, for which `dbind_any_demarshal` has no case and never moves on, so that an
answer with a range in it is read for ever (`Hangs`). `DesktopAnswers` is what
registryd's own object answers.

**ClientCalls.** The world of devices has one client and registryd, as far as that
client sees it (module `Registryd` and `KeyEvents` have the rest): the callbacks
of a device listener and their walk, NotifyEvent calls that are put off and
replied to, registrations that are queued in registryd and given up by the client
after a second. The program may drop a listener whose callbacks are being called
(`Finalize`), after which the walk reads a freed list. Taking a keystroke listener back
passes `&key_set` for the array, which ends the client (`DeregistrationCrashes`) or
has registryd called with other keys, of which `KeyGrabs` has the consequences
(careless clients). The world of objects calls every function of a widget and of the
desktop, with any answer the connection lets through; the widget is kept,
disposed with its application or alone, and moves to a connection of its own.

## Runs

Bounds are constants of the modules, named in their cfg.

| Run | Shows | Bounds and why they are enough |
|---|---|---|
| `mouse_poll` | a flag never disagrees with the list it stands for; a timer is alive while somebody listens; a check tells of all it saw; motion and presses are reported, timers die | two clients and three listeners, so that one client's departure takes two listeners and leaves one; a button and a modifier, so that two things change in one tick (that a check reports several buttons is proved, `EveryChangeTold`); three timers at once |
| `key_grabs` | counts, grabs and answers are true of every grab that was not refused, cut or spoilt; nothing is forgotten; the assertion fails only after a refusal or a deregistration that does not match | a listener of each of two clients, two keys, three scenarios: a list of a key and a symbol that loses and regains its key, also by the reserved one; lists of one key, two, one key named twice, and every key, with other X clients that may hold any key; careless clients, three registrations at once |
| `key_grabs_assertion` | see "Where code and documentation part" | the first of these scenarios |
| `key_events` | the keyboard always thaws; presses handled one by one are consumed or relayed, never both; whoever has deregistered is called no more; releases are told | three presses of two keys, so that the second can come while the first is handled and the third after both; a listener of all keys of one client and one of a single key's presses of another, both able to consume, and one that is asked only by NotifyListeners, which is called once |
| `key_synth` | the application reads the symbols that were meant, under the conditions named; locks, keys and latches come back | three keys: one with three levels, one of which needs a modifier the search does not try, the one of `#`, a spare one; symbols on every level, on none, strings of two, so that two loans follow one another; four sessions of clients and users; three loans at once, each of three ticks, so that a loan may be made early or late in another |
| `registry` | polling follows the registrations; an observer of the signals knows the desktop; departures take along what they should and no more | three clients and three calls of Embed, so that two applications can be neighbours and a third follow; three events and four ways to deregister them |
| `registry_unembed` | see "Where code and documentation part" | |
| `registryd` | the whole daemon drains its queue, answers in order and always, cleans up, and still implements `Registry` and `MousePoll` | one client with three calls, so that two can be device calls, and one with one; two messages on the way; as many timers as calls can start, so that the bound holds up no device call |
| `bus_launcher` | the root window's address has a launcher, one bus lasts, IsEnabled follows the setting | two launchers, each of which may start again, two buses and a program |
| `client_cache` | no signal is lost or overtaken by another; the cache settles to what the application is; nothing is left of objects destroyed | three changes, so that one can be in GetItems' answer, one before and one after; two objects; two calls, so that one can be made in the callback of another |
| `event_listeners` | each listener is told of each event, those of applications one after another, accessibles that go in between; match rules and references follow the list | three registrations of two callbacks for two types, so that the walk has a node before and one after the one that goes; three deregistrations, also with a broader type, so that the list can empty within a walk; two events, each an application's or an accessible's that goes |
| `client_calls` | events are answered though both sides wait; what a client was told is held is held; walks are whole; failures are seen; what is kept was answered | one listener, three callbacks added, so that one can go from the middle; three calls, so that a given-up one can be followed by its opposite and another; one event; two functions called one after another of any kind |

All safety runs check every state reachable within the bounds. `MaxTimers` cuts
off something real: a flag that falls and rises again within a tick starts a
second timer, and the code has no limit; `MaxEmbeds`, `MaxEntries`, `MaxRefs`,
`MaxCalls`, `MaxAsks`, `MaxWaiting`, `MaxNodes`, `MaxListeners`, `MaxDeregs`,
`MaxEvents`, `MaxChanges`, `MaxLoans`, `MaxResets`, `MaxUnread`, `MaxNotes` and
`MaxBuses` bound what clients send, applications do and users type. Deadlock is not checked where
clients may leave for good and bounded calls run out, as the system then has
nothing to do.

`Registryd` is checked against `Registry` and `MousePoll` as properties
(`RegistryAsSpecified`, `PollerAsSpecified`): its steps, seen through the
mapping `haveMouseEventListener <- polling`, `connected <- known`, are theirs.
So what is proved of the two components holds in the composition.

`MCKeySynth` and `MCClientCalls` also have assumptions that TLC evaluates: the two
searches of `ucs2keysym.c` never answer with another character or symbol, over the
whole table, whose rows agree (`RowsAgree`), but miss 110 characters and 541 symbols
of it, since it is not sorted; each function has one row; and registryd's desktop
leaves six of the questions that its interfaces imply unanswered.

### Fairness

`MousePoll`: a timer that is due again and again fires (SF, as a check that
waits keeps timers from running for a while); a check goes on (WF), because
the wait in it ends with an answer or with the D-Bus timeout. No fairness is
assumed of clients, of the user or of XKB notifications. `Registryd`: the bus is
dispatched and the idle callback runs again and again (SF: both are kept
waiting by checks and each other), a clean-up and a check go on (WF). The idle
callback has a lower priority than timers. That it runs nevertheless assumes
that handling the timers takes less time than their interval, which the code's
20 ms and 100 ms are meant to leave; a listener that always takes longer to
answer would starve the queue.
`KeyEvents`: what registryd has begun goes on (WF of `Handles`): it reads the
connection, and a call of a listener ends with its answer or the D-Bus timeout.
The timer that looks for a release runs again and again (SF, since event
handling keeps it waiting). Nothing is assumed of the user, who may hold a
key for good, nor of clients.
`KeySynth`: the main loop serves requests, timers (SF: they wait while a string is
typed) and XKB notifications (SF likewise); the application reads its keys; time
passes. `BusLauncher`: a launcher that is not killed goes on, and a bus that was
told to end ends. `ClientCalls`: the client's main loop and registryd go on,
callbacks return, and a call of the client's ends, at the latest with its timeout.
That registryd itself gives up (`GiveUp`) is not assumed: the client's timeout
alone makes `EventsAnswered` true.

## Proofs

Each holds for every value of the constants that satisfies the named assumption of
the module. TLC has checked the same formulas, and the inductive invariants
behind them, on the instances of the runs.

* `MousePoll_proofs`: `TypeCorrect`, `FlagCorrect`, `PollerNeverLost`,
  `CheckKeepsItsTimer`. Neither of the last two is inductive: that a check's own
  timer is counted has to be known to see that handing over (`Rearm`) never
  counts below zero, and that the flag stands for the list to see that a timer
  may die only when nobody listens. `IInv` is the conjunction, and
  `InductiveInvariant` proves it; `AlwaysConsistent` states all of it.
  `EveryChangeTold` is an action property and needs `MInv` besides: what clients
  were told of buttons is what `mouseMaskState` says.
* `Registry_proofs`: `PollCorrect`, which is inductive as it stands;
  `SignalsCorrect`, which needs that the index of the clean-up stays within the
  list (`DesktopInv`); `DesktopCorrect` and `ConnectedCorrect`, which need to
  know how far the clean-up has come: the only application of a client that
  is not connected is the one that left, ahead of the loop (`Orderly`). That
  holds until somebody has strayed, and `OrderlyInv` says so. `RegistryConsistent`
  adds the registrations: those of a client that has left are of the one whose
  clean-up is under way (`EventsInv`).
* `Registryd_proofs`: the composition, from the messages inwards. A departure is the
  last message of its client, and registryd knows of a client until it has handled
  that (`MessageInv`). With that, the invariants of the registry hold of registryd as a
  whole (`RegistryInvariant`), and each of its steps is a step of `Registry` or
  leaves the registry alone: `RegistryRefined`. The callbacks exclude each other
  (`OneAtATime`: a check, a notification and the draining of the queue wait for
  one another), so the poller's invariant holds too (`PollerInvariant`) and
  `PollerRefined` follows. Both bring in the proof modules of the components with
  INSTANCE, under the mapping of the refinement, so their lemmas are proved
  once. `RegistrydConsistent`: a queue that is not empty has an idle callback or
  one that is draining it. `AnswersOrdered`: in the inbox, in the queue and where a
  notification waits, a client's device calls are in the order it made them
  (`CallsInOrder`). `DepartureCleans` is about clients that embed before they
  register device listeners (`EmbedFirst`, which the run's instance satisfies and
  what happens otherwise is among the hazards): whoever has a device listener, or a
  call that asks for one on its way, has its application in the desktop, or an
  Embed ahead of that call, until its departure has been handled
  (`ListenersEmbedded`), and the clean-up, which takes the listeners along with
  the application, reaches it.
* `GrabsAndSynth_proofs`, of `KeyGrabs`: `NoGrabForgotten`, for clients that send anything: `KInv` adds
  to the property that no key is given to registryd and to another client at
  once. Without it a grab issued again could fail for a key that is held, and its
  entry would be dropped with the key grabbed. `RepliesHonest` adds that the keys of
  an entry are grabbed as long as refusals are noticed and no release has cut into
  another grab (`HeldInvariant`: an entry neither refused nor cut is held).
  `GrabsConsistent` asks nothing of clients or of the keymap: it says of each grab
  what is true of it until it is spoilt. A grab that is not has at most as many
  references as there are places in the lists that live listeners `took` (`Places`),
  and exactly as many unless it was refused (`CountedInvariant`). A registration adds a
  place for each reference. A deregistration that gives back what its listener took
  removes as many of both (`MatchKeepsCounted`); any other spoils what it gives back
  and what its listener took, and those are all that it changes
  (`MismatchKeepsCounted`). Places are counted as the elements of a set, since entries
  are taken from the middle of a list.
* `GrabsAndSynth_proofs`, of `Ucs2Keysym`: `SymbolsAreTheTables` and `NoOtherCharacter`.
  The search is a recursive function, so it has to be shown
  first that there is one: a function that answers for stretches of up to `n` rows is
  made into one for `n + 1`, and the least `n` without one leads nowhere
  (`SearchExists`). What is true of a stretch if it is true of the smaller ones is true
  of all for the same reason (`BySize`), and both halves are smaller (`Halves`). That
  the search finds nothing wrong needs no order in the table, so this is true of the
  code's, which has none; what it misses for that reason TLC counts.
* `GrabsAndSynth_proofs`, of `KeySynth`: `KeysNeverStick`, `LocksAreRestored` and
  `SymbolsReadAsMeant`, from `SynthInv`. Of the keys (`KeysInv`): what is down was
  asked for, but for the one key between a press and its release, which is the one
  pressed last, so slow keys are waited for; what the bounce keys wait for is the key
  released last or one of the user's. Of the modifiers (`ModsInv`): those locked for a
  symbol were not locked before, so unlocking them leaves those that were. Of
  what is not read yet (`UnreadInv`): under the keymap of now it is read as
  it was meant, and a key that is the reserved one is not younger than any timer
  (`ReadAsMeant`), so none runs out before it is read. `CalmFor` says of an older loan
  only that it has more time left than the application takes (`Patience`), so loans may
  follow one another; nothing is said of the locks that are made. That those and
  the modifiers there are give what the symbol needs, as far as they matter for its key, is
  shown where the key is pressed: the locks add what is missing, and what is there that
  changes the key is needed. A handler that types a string
  needs room for the rest of its loans (`LoanInv`).
* `EventsAndCalls_proofs`, of `KeyEvents`: `FrozenKeyboardAccounted`: whenever
  the keyboard is frozen, the press that froze it is unread or being handled,
  so an XAllowEvents is to come. `FInv` adds the little that the steps need to
  know of types. `KeyEventsConsistent`: the listeners a notification has yet to
  ask are registered or their clients have left, with what it rests on: one active
  grab, numbers given once, the press that a timer looks at (`CInv`).
  `EveryPressOnce`: while no event came in the middle of another (`raced`), at most one
  is unread, and the presses that are consumed, relayed and at hand divide all
  presses between them (`PInv`).
* `EventsAndCalls_proofs`, of `ClientCalls`: `ClientKeepsAnswers`, `RegistrationsHeld`,
  `FailuresTold` and `WalkCallsAll`, from `ClientInv`. A listener's nodes have descending
  numbers and its callbacks are those that were added and not removed (`ListInv`).
  What is told to be registered is held, and no deregistration of it is still queued
  (`CallInv`), so that giving up a call, which says nothing of what registryd does
  with it later, breaks no promise. A callback that stood when a walk began was called or
  is behind the node the walk is on (`WalkInv`), unless a callback has removed itself or
  dropped its listener.
  Events are answered once (`MessageInv`). What an object is marked to keep was
  answered, and what was no answer is reported, for each row of the tables
  (`ObjectInv`): the argument is by cases over the ways a function asks, and over the
  functions that are mis-asked, read otherwise, or never get on. What it rests on is what
  the tables say of each function, so it is as good as they are.
* `ClientCache_proofs`: `DrainAlwaysScheduled`: a message that was put off has
  somebody coming for it. The id of the idle callback is cleared only by that
  callback, which empties the queue first; a call that empties it leaves the
  callback to find nothing. `SignalsInOrder`: the signals that are put off,
  followed by those not yet dispatched, are those not yet handled, in order.
  `CacheFollows` is the invariant behind the rest (`CInv`). What is on its way
  (`Coming`) is a set of signals that bear the numbers between the last handled and
  the last sent. A name, or whether an object is a child, that was true after signal
  `n` is *fresh*: if no signal on its way about it is later than `n`, it is
  true now. Answers are fresh as of the number they carry, and the cache as of the
  signals handled, unless it was overtaken; whoever is destroyed has a
  RemoveAccessible on its way that is the last about it. Handling an old signal
  again, after GetItems' answer told of it, keeps the children fresh but may
  reorder them. Without such a replay the signals on their way lead from the cached
  list to the application's, one after another (`Leads`, which has the lists in
  between as a witness). `CacheConsistent` and `CacheRight` read that off when
  nothing is on its way; two lists of the same children, each once, then have one
  length too (`SameLength`).
* `EventListeners_proofs`: the nodes of the list have descending numbers, since nodes
  are put in front. Whomever a walk has yet to tell is still in the list and not
  behind the node the walk is on, whatever callbacks have put in and taken out
  meanwhile (`AllAhead`), so a walk that ends has nobody left: `NobodyLeftOut`.
  Frames of the stack have a shape (`Shape`): messages are processed once at a
  time, and a walk for an application's event is called by that; walks for the end of an
  accessible may lie anywhere above (`TellKept`). `ListenersConsistent`: references are those of
  the list's entries and of entries taken out by deregistrations in progress, counted as
  cardinalities. `RulesSuffice`: a type has at least as many match rules as
  listeners; deregistering with a broader type takes back only that type's.
* `BusLauncher_proofs`: `BusesLookedAfter`. That the address on the root window has
  a launcher is not inductive: a bus that is launched later must not be one
  that somebody knows already (`BornBuses`), a launcher that has not begun
  must have no child (`FreshLaunchers`), and a child must be told to end before
  its launcher forgets it (`BusToldFirst`). `IsEnabledFollows` needs that a
  launcher that is not up has heard of no change (`FreshHistory`).

Assumptions on constants: `RegistrydAssumption` has finitely many names, as a bus has.
`ClientCacheAssumption` has the first children each once: an application's children
are different objects. `EventListenersAssumption` says of event types what the
comparison in `atspi-event-listener.c` makes true of those the model calls wanted
and broader. `KeySynthAssumption` has one symbol for a key under the same modifiers,
and one at the first level of the keys that may be reserved, as an X keymap has;
and an application that reads its keys sooner than a loan runs out, without which
`spi_dec_reset_reserved` promises nothing. `SessionsAssumption` has strings of
characters, none empty. `NoOtherCharacter` asks that the rows of a symbol agree, which
TLC finds of the code's table (`RowsAgree`). Of clients a theorem assumes something in
one place: `DepartureCleans`, that they embed first.

In the modules that are proved about, what removes an element of a list says which
one it takes (`PlaceOf`, the first or the one with that node), as `g_list_remove` and
`g_list_delete_link` do, and what keeps some of a list is a set or a function, not
`SelectSeq`: the provers cannot unfold a definition by recursion.

Only model-checked:

* liveness, which is out of the prover's reach: `DeviceCallsAnswered`, `KeyboardThaws`,
  `ReleaseTold`, `OneBusLasts`, `EventsAnswered`, `RelatchHappens`, `GivenBack`, and
  `ChangesReported`, `PollersDie`;
* what depends on the code's tables: how much of the table of symbols the searches
  miss, and which questions about the desktop go unanswered (the assumptions of
  `MCKeySynth` and `MCClientCalls`).

Every other property of a run that passes is a theorem.

## Where code and documentation part

* `registry_unembed`, a run that TLC finds violated: Unembed removes the second
  application, whoever calls (`registryd/registry.c:150`).
* `key_grabs_assertion`: a symbol is turned into a key when a listener is registered
  and again when it is deregistered (`deviceeventcontroller.c:951`). If the keymap has
  changed between, by the user or by a lent key, the second gives back a grab the
  first did not take; counted below zero, `ref_count` is unsigned, and the assertion of
  line 1851 ends the daemon. The client here is not careless and nothing is refused.

Met while modelling, without a run of their own. In registryd:

* A symbol without a key makes a listener for one key grab the whole keyboard, since its
  keycode 0 is AnyKey; the documentation has a NULL list stand for all keys.
* A symbol in the keymap is typed as another one when modifiers are set that are too
  many (the "TODO" of line 2398), or when it needs one that `keysym_mod_mask` does not
  try, whose 0xFFFF line 2396 compares with 0xFF.
* Each loan has a timer of its own, so that of an earlier one ends a later one, maybe
  before the application has read the symbol (line 334).
* Deregistering a key listener with no keys, which the code means to support,
  gives back nothing (`deviceeventcontroller.c:2081`).
* A count below zero (line 1851) is also reached when a listener gives back references
  that were lost with a refused grab, after another has made the entry anew.
* A key event for a listener whose symbol has lost its key has the reserved key lent
  and the modifiers written through NULL (lines 336 and 1785; `ForwardUnmapped`).
* A release that is not consumed replays the next press before its listener is
  asked, so a press that is then consumed has reached the application too (line
  1272; `raced`).
* The clean-up after a departure skips the second of two neighbours of one name
  (`registry.c:290`; `strayed`).
* A departure overtakes the client's last device call, whose listener stays (line
  2962).
* Releasing one key takes it from a listener for all keys (`cut`); once a key event
  was synthesized, another X error handler stays installed, and TRUE is
  answered for a key that was refused (`trapped`); a registration for several keys is
  answered TRUE when the key visited last was granted and another refused (why
  `OneKeyReplyHonest` is about one key); deregistering for one modifier mask
  removes the listener's registrations for all (`DropEntries`); a client that only
  gives up a well-known name is taken for gone (`ClientReleasesName`).
* RegisterDeviceEventListener answers FALSE for listeners it has registered (line
  1000), of which the documentation says TRUE.
* The table of symbols is searched by halves, for which its comment asks that it be
  sorted (`ucs2keysym.c:10`); it is not.
* When no keycode is spare, `#` is reserved, and the key is given back as `#` on its
  first level, where `3` was.

In the bus launcher: a killed launcher leaves its address on the root window, and
programs that read it do not ask for another; `sscanf (...) == 2` is never true for
a format with one conversion; PropertiesChanged names another interface than the
properties'; IsEnabled does not start as the setting.

In the client:

* A callback that removes its own event listener, or device callback, frees the
  node the walk goes on from (`stray`, `strayed`; for devices the source says
  "FIXME: re-enterancy hazard on this list").
* Finalized device listeners stay in the list that every event searches.
* DeregisterEvent of one listener drops all registrations of that type the client
  has in registryd, those of its other listeners included.
* A cached answer may be older than a signal handled before it (`overtaken`).
* No reference is held while a device listener's callbacks are called: one that drops
  the last frees the list it is called from (`Finalize`).
* Deregistering a keystroke listener sends the address of the caller's array for the
  array itself (`atspi-registry.c:223`; `DeregistrationCrashes`).
* An application that does not answer, or is gone, ends the program in four functions,
  and one is ended by its own answer being read for ever (`Fatal`, `Hangs`); others take
  it for one that answers (`Unnoticed`), on a connection of the application's own most:
  dbind then reports no error.
* Questions that do not fit the interface and are refused by an application that
  goes by `xml/` (`MisAsked`): Contains, GetIndexRange, GetAttributeValue, the attribute of a
  Document and the three matches of a Collection.
* Functions that answer something else than was asked: SelectChild, DeselectChild
  and IsChildSelected send an address in place of the index; the extents of a table's
  cell are read shifted by one; NAnchors is read as a type applications do not send.

## Not modelled

`registry-main.c` (sequential), generated code (`introspection.c`), marshalling
(`dbind-any.c`, `de-marshaller.c`: data only, but for the variants that are read for
ever and the array that is not one), the list of
`reentrant-list.c`, whose walks nothing interrupts in registryd, match rules,
relations and state sets of clients (copies of data), the X library, descriptions
and translations. In `MousePoll`, which listener wants which event and whether
one consumes a button; in `KeyGrabs`, the XEvIE build, which grabs no keys; in
`KeySynth`, locking of modifiers without XKB; in `ClientCache`, fields other than
the name, which are kept and dropped the same way; in `ClientCalls`,
`atspi_accessible_get_application`, which asks for parents until one has none, and
main loops that callbacks run.

## Plan

1. `EventListeners` composed with `Registry`, whose DeregisterEvent drops more than
   the client means.
2. Main loops in callbacks of `ClientCalls`, as `ClientCache` has them.
3. Timers that two ticks of one flag start (`MaxTimers`), and device listeners of
   clients that never embed, which are among the hazards without a property.
