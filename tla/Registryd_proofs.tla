--------------------------- MODULE Registryd_proofs ---------------------------
(***************************************************************************)
(* registryd as a whole, for any clients, calls and bounds.                *)
(***************************************************************************)
EXTENDS Registryd, FiniteSetTheorems, SequenceTheorems, TLAPS

\* The registry and the poller with what is proved of them by themselves; the
\* constants and variables are those of Reg and Mouse.
RP == INSTANCE Registry_proofs
         WITH Paths <- {"root"}, EventNames <- {<<"Mouse", "Abs">>},
              Removals <- {<<>>}, Reembeds <- FALSE, Unembeds <- FALSE,
              OwnsNames <- {}, Rereads <- {FALSE},
              MaxEmbeds <- Cardinality(Names), connected <- known

MP == INSTANCE MousePoll_proofs
         WITH Listeners <- Names, Owner <- [c \in Names |-> c],
              Modifiers <- {}, Positions <- {"home"}, Home <- "home",
              haveMouseEventListener <- polling

-----------------------------------------------------------------------------

(***************************************************************************)
(* The parts by themselves.                                                *)
(***************************************************************************)

\* What the registry and the poller assume of their constants is so here.
LEMMA PartsAssumptions == RP!RegistryAssumption /\ MP!MousePollAssumption
<1>1. Cardinality(Names) \in Nat
  BY FS_CardinalityType, RegistrydAssumption
<1>2. Len(<<"Mouse", "Abs">>) \in 0..3 /\ Len(<<>>) \in 0..3
  OBVIOUS
<1>3. RP!RegistryAssumption
  BY <1>1, <1>2 DEF RP!RegistryAssumption
<1>4. MP!MousePollAssumption
  BY RegistrydAssumption DEF MP!MousePollAssumption, MP!Buttons
<1> QED
  BY <1>3, <1>4

\* Registry_proofs is about the same registry.
LEMMA SameRegistry ==
    /\ Reg!Init = RP!Init
    /\ Reg!Next = RP!Next
    /\ Reg!vars = RP!vars
    /\ Reg!CleanupProceeds = RP!CleanupProceeds
    /\ Reg!Cleaning = RP!Cleaning
    /\ Reg!Ready = RP!Ready
    /\ Reg!NoCleanup = RP!NoCleanup
    /\ Reg!TypeOK = RP!TypeOK
BY DEF Reg!Init, RP!Init, Reg!vars, RP!vars, Reg!appVars, RP!appVars,
       Reg!eventVars, RP!eventVars, Reg!NoCleanup, RP!NoCleanup,
       Reg!Cleaning, RP!Cleaning, Reg!Ready, RP!Ready,
       Reg!TypeOK, RP!TypeOK, Reg!Refs, RP!Refs, Reg!Entries, RP!Entries,
       Reg!Cleanups, RP!Cleanups,
       Reg!Next, RP!Next, Reg!CleanupProceeds, RP!CleanupProceeds,
       Reg!CleanupSkips, RP!CleanupSkips, Reg!CleanupRemoves, RP!CleanupRemoves,
       Reg!CleanupCrashes, RP!CleanupCrashes, Reg!CleanupEnds, RP!CleanupEnds,
       Reg!RemoveApplication, RP!RemoveApplication, Reg!RemovedAt, RP!RemovedAt,
       Reg!ChildRemoved, RP!ChildRemoved, Reg!RemoveEvents, RP!RemoveEvents,
       Reg!EventIsSubtype, RP!EventIsSubtype, Reg!NeedsMousePoll,
       RP!NeedsMousePoll, Reg!Part, RP!Part,
       Reg!ClientEmbeds, RP!ClientEmbeds, Reg!Embed, RP!Embed,
       Reg!ChildAdded, RP!ChildAdded, Reg!InsertedAt, RP!InsertedAt,
       Reg!ClientUnembeds, RP!ClientUnembeds, Reg!Unembed, RP!Unembed,
       Reg!FindIndexOfReference, RP!FindIndexOfReference,
       Reg!ClientRegistersEvent, RP!ClientRegistersEvent,
       Reg!RegisterEvent, RP!RegisterEvent,
       Reg!ClientDeregistersEvent, RP!ClientDeregistersEvent,
       Reg!ClientLeaves, RP!ClientLeaves, Reg!ClientReleasesName,
       RP!ClientReleasesName, Reg!NameOwnerChanged, RP!NameOwnerChanged


-----------------------------------------------------------------------------

(***************************************************************************)
(* Messages: what is sent and what is left to be delivered and handled.    *)
(***************************************************************************)

\* A queue after a message has been put at its end.
LEMMA Appended ==
    ASSUME NEW S, NEW s \in Seq(S), NEW x \in S
    PROVE  /\ Append(s, x) \in Seq(S)
           /\ Len(s) \in Nat /\ DOMAIN s = 1..Len(s)
           /\ DOMAIN Append(s, x) = 1..(Len(s) + 1)
           /\ \A i \in DOMAIN s : Append(s, x)[i] = s[i]
           /\ Append(s, x)[Len(s) + 1] = x
BY AppendProperties, LenProperties

\* A queue after its first message has been taken.
LEMMA Beheaded ==
    ASSUME NEW S, NEW s \in Seq(S), s # <<>>
    PROVE  /\ Tail(s) \in Seq(S)
           /\ Len(s) \in Nat /\ DOMAIN s = 1..Len(s)
           /\ DOMAIN Tail(s) = 1..(Len(s) - 1)
           /\ 1 \in DOMAIN s /\ Head(s) = s[1] /\ Head(s) \in S
           /\ \A i \in DOMAIN Tail(s) : i + 1 \in DOMAIN s /\ Tail(s)[i] = s[i + 1]
<1>1. /\ Tail(s) \in Seq(S) /\ Head(s) \in S
      /\ Len(Tail(s)) = Len(s) - 1
      /\ \A i \in 1..Len(Tail(s)) : Tail(s)[i] = s[i + 1]
  BY HeadTailProperties
<1>2. /\ Len(s) \in Nat /\ DOMAIN s = 1..Len(s)
      /\ DOMAIN Tail(s) = 1..(Len(s) - 1)
  BY <1>1, LenProperties
<1>3. Len(s) > 0 /\ Head(s) = s[1]
  BY EmptySeq, LenProperties
<1> QED
  BY <1>1, <1>2, <1>3

\* The clients and the messages, the variables of the parts left out.
MessageTypes ==
    /\ online \subseteq known /\ known \subseteq Names
    /\ embedded \subseteq Names
    /\ made \in [Names -> Nat] /\ \A c \in Names : made[c] <= MaxCalls[c]
    /\ answered \in [Names -> Nat]
    /\ inbox \in Seq(Messages)
    /\ queue \in Seq(Messages)
    /\ \A i \in DOMAIN queue : queue[i].call \in DeviceCalls
    /\ idle \in BOOLEAN /\ draining \in BOOLEAN
    /\ notifying \in Messages \cup {NoCall}

\* The bus delivers a client's departure after all that it sent, and registryd
\* knows of it until then.
DeparturesLast ==
    /\ \A i \in DOMAIN inbox : inbox[i].from \in known
    /\ \A i \in DOMAIN inbox : inbox[i].call = "NameOwnerChanged"
          => /\ inbox[i].from \notin online
             /\ \A j \in DOMAIN inbox : j > i => inbox[j].from # inbox[i].from

MessageInv == MessageTypes /\ DeparturesLast

\* What a message is.
LEMMA MessageFields ==
    ASSUME NEW m \in Messages
    PROVE  /\ m.from \in Names /\ m.number \in Nat
           /\ m.call \in Calls \cup {"NameOwnerChanged"}
BY DEF Messages

\* A client's call is put last in the inbox, and it is not gone.
LEMMA SendKeepsMessages ==
    ASSUME MessageInv, NEW c \in Names, NEW call \in Calls, Send(c, call)
    PROVE  MessageInv'
<1> DEFINE message == [from |-> c, call |-> call, number |-> made'[c]]
<1>1. /\ c \in online /\ made[c] < MaxCalls[c]
      /\ made' = [made EXCEPT ![c] = @ + 1]
      /\ inbox' = Append(inbox, message)
      /\ embedded' \subseteq embedded \cup {c}
      /\ UNCHANGED <<online, known, queueVars>>
  BY DEF Send, registryVars
<1>2. /\ made' \in [Names -> Nat] /\ \A d \in Names : made'[d] <= MaxCalls[d]
      /\ made'[c] = made[c] + 1
  <2>1. made \in [Names -> Nat] /\ \A d \in Names : made[d] <= MaxCalls[d]
    BY DEF MessageInv, MessageTypes
  <2>2. MaxCalls[c] \in Nat
    BY RegistrydAssumption
  <2>3. \A d \in Names : made'[d] = IF d = c THEN made[d] + 1 ELSE made[d]
    BY <1>1, <2>1
  <2>4. made' \in [Names -> Nat]
    BY <1>1, <2>1
  <2> QED
    BY <1>1, <2>1, <2>2, <2>3, <2>4
<1>3. message \in Messages /\ message.from = c /\ message.call = call
  BY <1>2 DEF Messages
<1>4. call # "NameOwnerChanged"
  BY RegistrydAssumption
<1> HIDE DEF message
<1>5. /\ inbox' \in Seq(Messages)
      /\ Len(inbox) \in Nat /\ DOMAIN inbox = 1..Len(inbox)
      /\ DOMAIN inbox' = 1..(Len(inbox) + 1)
      /\ \A i \in DOMAIN inbox : inbox'[i] = inbox[i]
      /\ inbox'[Len(inbox) + 1] = message
  BY <1>1, <1>3, Appended DEF MessageInv, MessageTypes
<1>6. MessageTypes'
  BY <1>1, <1>2, <1>5 DEF MessageInv, MessageTypes, queueVars
<1>7. DeparturesLast'
  BY <1>1, <1>3, <1>4, <1>5 DEF MessageInv, MessageTypes, DeparturesLast
<1> QED
  BY <1>6, <1>7 DEF MessageInv

\* So is a client's departure; from now on it sends nothing.
LEMMA LeaveKeepsMessages ==
    ASSUME MessageInv, NEW c \in Names, Leave(c)
    PROVE  MessageInv'
<1> DEFINE message == [from |-> c, call |-> "NameOwnerChanged", number |-> made[c]]
<1>1. /\ c \in online /\ online' = online \ {c}
      /\ inbox' = Append(inbox, message)
      /\ UNCHANGED <<made, embedded, known, queueVars>>
  BY DEF Leave, registryVars
<1>2. message \in Messages /\ message.from = c
  BY DEF Messages, MessageInv, MessageTypes
<1> HIDE DEF message
<1>3. /\ inbox' \in Seq(Messages)
      /\ Len(inbox) \in Nat /\ DOMAIN inbox = 1..Len(inbox)
      /\ DOMAIN inbox' = 1..(Len(inbox) + 1)
      /\ \A i \in DOMAIN inbox : inbox'[i] = inbox[i]
      /\ inbox'[Len(inbox) + 1] = message
  BY <1>1, <1>2, Appended DEF MessageInv, MessageTypes
<1>4. MessageTypes'
  BY <1>1, <1>3 DEF MessageInv, MessageTypes, queueVars
<1>5. DeparturesLast'
  BY <1>1, <1>2, <1>3 DEF MessageInv, MessageTypes, DeparturesLast
<1> QED
  BY <1>4, <1>5 DEF MessageInv

\* A message dispatched is taken from the front; a departure takes the client's
\* name with it, and nothing that waits is from that client.
LEMMA DispatchKeepsMessages ==
    ASSUME MessageInv, Dispatch
    PROVE  MessageInv'
<1> DEFINE message == Head(inbox)
<1>1. /\ inbox # <<>> /\ inbox' = Tail(inbox) /\ Handle(message)
      /\ UNCHANGED <<online, made, embedded>>
  BY DEF Dispatch, clientVars
<1>2. /\ inbox' \in Seq(Messages)
      /\ Len(inbox) \in Nat /\ DOMAIN inbox = 1..Len(inbox)
      /\ DOMAIN inbox' = 1..(Len(inbox) - 1)
      /\ 1 \in DOMAIN inbox /\ message = inbox[1] /\ message \in Messages
      /\ \A i \in DOMAIN inbox' : i + 1 \in DOMAIN inbox /\ inbox'[i] = inbox[i + 1]
  BY <1>1, Beheaded DEF MessageInv, MessageTypes
<1> HIDE DEF message
<1>3. CASE message.call = "NameOwnerChanged" /\ HandleNameOwnerChanged(message.from)
  <2>1. known' = known \ {message.from} /\ UNCHANGED queueVars
    BY <1>3 DEF HandleNameOwnerChanged
  <2>2. /\ message.from \notin online
        /\ \A i \in DOMAIN inbox' : inbox'[i].from # message.from
    BY <1>2, <1>3 DEF MessageInv, DeparturesLast
  <2>3. MessageTypes'
    BY <1>1, <1>2, <2>1, <2>2 DEF MessageInv, MessageTypes, queueVars
  <2>4. DeparturesLast'
    BY <1>1, <1>2, <2>1, <2>2 DEF MessageInv, DeparturesLast
  <2> QED
    BY <2>3, <2>4 DEF MessageInv
<1>4. ASSUME UNCHANGED known
      PROVE  DeparturesLast'
  BY <1>1, <1>2, <1>4 DEF MessageInv, DeparturesLast
<1>5. CASE message.call \in DeviceCalls /\ HandleDecMethod(message)
  <2>1. /\ queue' = Append(queue, message) /\ idle' = TRUE
        /\ UNCHANGED <<known, draining, notifying, answered>>
    BY <1>5 DEF HandleDecMethod, registryVars
  <2>2. /\ queue' \in Seq(Messages)
        /\ Len(queue) \in Nat /\ DOMAIN queue = 1..Len(queue)
        /\ DOMAIN queue' = 1..(Len(queue) + 1)
        /\ \A i \in DOMAIN queue : queue'[i] = queue[i]
        /\ queue'[Len(queue) + 1] = message
    BY <1>2, <2>1, Appended DEF MessageInv, MessageTypes
  <2>3. MessageTypes'
    BY <1>1, <1>2, <1>5, <2>1, <2>2 DEF MessageInv, MessageTypes
  <2> QED
    BY <1>4, <2>1, <2>3 DEF MessageInv
<1>6. CASE \/ HandleEmbed(message.from) \/ HandleRegisterEvent(message.from)
           \/ HandleDeregisterEvent(message.from)
  <2>1. UNCHANGED <<known, queueVars>>
    BY <1>6 DEF HandleEmbed, HandleRegisterEvent, HandleDeregisterEvent
  <2>2. MessageTypes'
    BY <1>1, <1>2, <2>1 DEF MessageInv, MessageTypes, queueVars
  <2> QED
    BY <1>4, <2>1, <2>2 DEF MessageInv
<1> QED
  BY <1>1, <1>3, <1>5, <1>6 DEF Handle

\* The idle callback takes messages from the front of the queue.
LEMMA IdleKeepsMessages ==
    ASSUME MessageInv, IdleProceeds
    PROVE  MessageInv'
<1>1. UNCHANGED <<clientVars, inbox, known>>
  BY DEF IdleProceeds, IdleBegins, IdleHandles, NotifyEnds, IdleEnds, registryVars
<1>2. ASSUME NEW m \in Messages, Answer(m)
      PROVE  answered' \in [Names -> Nat]
  BY <1>2, MessageFields DEF Answer, MessageInv, MessageTypes
<1>3. CASE IdleBegins \/ IdleEnds
  <2>1. UNCHANGED <<queue, notifying, answered>> /\ idle' \in BOOLEAN
        /\ draining' \in BOOLEAN
    BY <1>3 DEF IdleBegins, IdleEnds, MessageInv, MessageTypes
  <2> QED
    BY <1>1, <2>1 DEF MessageInv, MessageTypes, DeparturesLast, clientVars
<1>4. CASE IdleHandles
  <2>1. /\ queue # <<>> /\ queue' = Tail(queue)
        /\ UNCHANGED <<idle, draining>>
    BY <1>4 DEF IdleHandles
  <2>2. /\ queue' \in Seq(Messages)
        /\ Head(queue) \in Messages
        /\ \A i \in DOMAIN queue' : i + 1 \in DOMAIN queue /\ queue'[i] = queue[i + 1]
    BY <2>1, Beheaded DEF MessageInv, MessageTypes
  <2>3. /\ Answer(Head(queue)) \/ UNCHANGED answered
        /\ notifying' \in {notifying, Head(queue)}
    BY <1>4 DEF IdleHandles, HandleRegisterDevice, HandleDeregisterDevice, HandleNotify
  <2>4. answered' \in [Names -> Nat]
    BY <1>2, <2>2, <2>3 DEF MessageInv, MessageTypes
  <2> QED
    BY <1>1, <2>1, <2>2, <2>3, <2>4
       DEF MessageInv, MessageTypes, DeparturesLast, clientVars
<1>5. CASE NotifyEnds
  <2>1. /\ notifying # NoCall /\ notifying' = NoCall /\ Answer(notifying)
        /\ UNCHANGED <<queue, idle, draining>>
    BY <1>5 DEF NotifyEnds
  <2>2. answered' \in [Names -> Nat]
    BY <1>2, <2>1 DEF MessageInv, MessageTypes
  <2> QED
    BY <1>1, <2>1, <2>2 DEF MessageInv, MessageTypes, DeparturesLast, clientVars
<1> QED
  BY <1>3, <1>4, <1>5 DEF IdleProceeds

\* The steps that move no message and know of no departure.
LEMMA OthersKeepMessages ==
    ASSUME \/ Cleanup \/ TimerFires \/ CheckProceeds \/ XkbStateNotify
           \/ PointerChanges \/ UNCHANGED vars
    PROVE  UNCHANGED <<clientVars, inbox, queueVars, known>>
BY DEF Cleanup, Reg!CleanupProceeds, TimerFires, CheckProceeds, XkbStateNotify,
       PointerChanges, vars, otherVars, registryVars

\* The messages are what they should be in every reachable state.
THEOREM MessageInvariant == Spec => []MessageInv
<1>1. Init => MessageInv
  <2> SUFFICES ASSUME Init PROVE MessageInv
    OBVIOUS
  <2>1. /\ online = Names /\ known = Names /\ embedded = {}
        /\ made = [c \in Names |-> 0] /\ answered = [c \in Names |-> 0]
        /\ inbox = <<>> /\ queue = <<>> /\ idle = FALSE /\ draining = FALSE
        /\ notifying = NoCall
    BY DEF Init, Reg!Init
  <2>2. \A c \in Names : 0 <= MaxCalls[c]
    BY RegistrydAssumption
  <2>3. made \in [Names -> Nat] /\ answered \in [Names -> Nat]
        /\ \A c \in Names : made[c] <= MaxCalls[c]
    BY <2>1, <2>2
  <2>4. inbox \in Seq(Messages) /\ queue \in Seq(Messages)
        /\ DOMAIN inbox = {} /\ DOMAIN queue = {}
    BY <2>1, EmptySeq
  <2> QED
    BY <2>1, <2>3, <2>4 DEF MessageInv, MessageTypes, DeparturesLast
<1>2. ASSUME MessageInv, [Next]_vars
      PROVE  MessageInv'
  <2>1. ASSUME UNCHANGED <<clientVars, inbox, queueVars, known>>
        PROVE  MessageInv'
    BY <1>2, <2>1 DEF MessageInv, MessageTypes, DeparturesLast, clientVars, queueVars
  <2> QED
    BY <1>2, <2>1, SendKeepsMessages, LeaveKeepsMessages, DispatchKeepsMessages,
       IdleKeepsMessages, OthersKeepMessages DEF Next
<1> QED
  BY <1>1, <1>2, PTL DEF Spec

-----------------------------------------------------------------------------

(***************************************************************************)
(* The registry: what comes in over the bus is what Registry expects.      *)
(***************************************************************************)

\* The clients whose Embed has been handled.
Present ==
    {c \in embedded : \A i \in DOMAIN inbox :
                          inbox[i].call = "Embed" => inbox[i].from # c}

\* A client embeds once, so its application is the only one of its name, and the
\* numbers given to applications count those clients.
EmbedsOnce ==
    /\ ~strayed
    /\ \A i, j \in DOMAIN inbox :
          (inbox[i].call = "Embed" /\ inbox[j].call = "Embed"
            /\ inbox[i].from = inbox[j].from) => i = j
    /\ \A i \in DOMAIN inbox : inbox[i].call = "Embed" => inbox[i].from \in embedded
    /\ id = Cardinality(Present)
    /\ \A k \in DOMAIN apps : apps[k].name \in Present

RegistryInv == EmbedsOnce /\ RP!DesktopInv /\ RP!EventsInv /\ RP!OrderlyInv

\* The first message, and those left.
LEMMA FirstMessage ==
    ASSUME MessageInv, Dispatch
    PROVE  /\ inbox # <<>> /\ inbox' = Tail(inbox) /\ Handle(inbox[1])
           /\ Len(inbox) \in Nat /\ DOMAIN inbox = 1..Len(inbox)
           /\ DOMAIN inbox' = 1..(Len(inbox) - 1)
           /\ 1 \in DOMAIN inbox /\ inbox[1] \in Messages
           /\ inbox[1].from \in known /\ inbox[1].from \in Names
           /\ \A i \in DOMAIN inbox' :
                 i + 1 \in DOMAIN inbox /\ inbox'[i] = inbox[i + 1]
           /\ UNCHANGED <<online, made, embedded>>
<1>1. inbox # <<>> /\ inbox' = Tail(inbox) /\ Handle(Head(inbox))
      /\ UNCHANGED <<online, made, embedded>>
  BY DEF Dispatch, clientVars
<1>2. inbox \in Seq(Messages)
  BY DEF MessageInv, MessageTypes
<1>3. /\ Len(inbox) \in Nat /\ DOMAIN inbox = 1..Len(inbox)
      /\ DOMAIN Tail(inbox) = 1..(Len(inbox) - 1)
      /\ 1 \in DOMAIN inbox /\ Head(inbox) = inbox[1] /\ inbox[1] \in Messages
      /\ \A i \in DOMAIN Tail(inbox) :
            i + 1 \in DOMAIN inbox /\ Tail(inbox)[i] = inbox[i + 1]
  BY <1>1, <1>2, Beheaded, Zenon
<1>4. inbox[1].from \in known /\ inbox[1].from \in Names
  BY <1>3 DEF MessageInv, DeparturesLast, Messages
<1> QED
  BY <1>1, <1>3, <1>4, Zenon

\* A client that embeds is not yet present, so there is a number left for it.
LEMMA EmbedIsFirst ==
    ASSUME MessageInv, EmbedsOnce, Dispatch, inbox[1].call = "Embed"
    PROVE  /\ id \in Nat /\ id < Cardinality(Names)
           /\ inbox[1].from \notin Present
           /\ \A k \in DOMAIN apps : apps[k].name # inbox[1].from
           /\ Present' = Present \cup {inbox[1].from}
           /\ Cardinality(Present') = id + 1
<1> DEFINE c == inbox[1].from
<1>1. c \in Names /\ 1 \in DOMAIN inbox /\ c \in embedded
  BY FirstMessage DEF EmbedsOnce
<1>2. c \notin Present
  BY <1>1 DEF Present
<1>3. IsFiniteSet(Names) /\ Present \subseteq Names
  BY RegistrydAssumption DEF Present, MessageInv, MessageTypes
<1>4. IsFiniteSet(Present) /\ Cardinality(Present) \in Nat
      /\ Cardinality(Present) <= Cardinality(Names)
      /\ Cardinality(Names) \in Nat
      /\ (Cardinality(Present) = Cardinality(Names) => Present = Names)
  BY <1>3, FS_Subset, FS_CardinalityType
<1>5. Present' = Present \cup {c}
  <2>1. ASSUME NEW i \in DOMAIN inbox'
        PROVE  i + 1 \in DOMAIN inbox /\ i + 1 # 1 /\ inbox'[i] = inbox[i + 1]
    BY <2>1, FirstMessage
  <2>2. ASSUME NEW d \in embedded, d # c
        PROVE  d \in Present' <=> d \in Present
    <3>1. ASSUME NEW i \in DOMAIN inbox, inbox[i].from = d
          PROVE  i - 1 \in DOMAIN inbox' /\ inbox'[i - 1] = inbox[i]
      <4>1. i # 1 /\ i \in 1..Len(inbox) /\ Len(inbox) \in Nat
        BY <2>2, <3>1, FirstMessage
      <4>2. i - 1 \in DOMAIN inbox' /\ i - 1 + 1 = i
        BY <4>1, FirstMessage
      <4> QED
        BY <4>2, <2>1
    <3>2. embedded' = embedded
      BY FirstMessage
    <3> QED
      BY <2>1, <2>2, <3>1, <3>2 DEF Present
  <2>3. c \in Present'
    <3>1. ASSUME NEW i \in DOMAIN inbox', inbox'[i].call = "Embed"
          PROVE  inbox'[i].from # c
      BY <1>1, <2>1, <3>1 DEF EmbedsOnce
    <3> QED
      BY <1>1, <3>1, FirstMessage DEF Present
  <2> QED
    BY <1>1, <2>2, <2>3, FirstMessage DEF Present
<1>6. Cardinality(Present \cup {c}) = Cardinality(Present) + 1
  BY <1>2, <1>4, FS_AddElement
<1>7. \A k \in DOMAIN apps : apps[k].name # c
  BY <1>2 DEF EmbedsOnce
<1>8. id = Cardinality(Present) /\ Cardinality(Present) # Cardinality(Names)
  BY <1>1, <1>2, <1>4 DEF EmbedsOnce
<1> QED
  BY <1>2, <1>4, <1>5, <1>6, <1>7, <1>8

\* Each handler does what the registry's own specification lets it.
LEMMA DispatchIsRegistryStep ==
    ASSUME MessageInv, RegistryInv, Dispatch
    PROVE  [RP!Next]_RP!vars
<1> DEFINE c == inbox[1].from
<1>1. c \in known /\ c \in Names /\ Handle(inbox[1]) /\ RP!Ready
  BY FirstMessage, SameRegistry DEF Dispatch, BusDispatch
<1>2. CASE inbox[1].call = "Embed" /\ HandleEmbed(c)
  <2> DEFINE ref == [name |-> c, path |-> "root"]
  <2>1. /\ id < Cardinality(Names)
        /\ \A k \in DOMAIN apps : apps[k].name # c
    BY <1>2, EmbedIsFirst DEF RegistryInv
  <2>2. /\ RP!Embed(ref)
        /\ UNCHANGED <<events, polling, cleanup, known, crashed, strayed>>
    BY <1>2 DEF HandleEmbed, Reg!Embed, RP!Embed, Reg!ChildAdded, RP!ChildAdded,
                Reg!InsertedAt, RP!InsertedAt
  <2>3. \A k \in DOMAIN apps : apps[k] # ref
    BY <2>1
  <2>4. strayed \in BOOLEAN
    BY DEF RegistryInv, RP!EventsInv
  <2>5. strayed' = (strayed \/ \E k \in DOMAIN apps : apps[k].name = c)
    BY <2>1, <2>2, <2>4, Zenon
  <2>6. RP!ClientEmbeds(c)
    BY <1>1, <2>1, <2>2, <2>3, <2>5, Zenon DEF RP!ClientEmbeds, RP!eventVars
  <2> QED
    BY <1>1, <2>6 DEF RP!Next
<1>3. CASE HandleRegisterEvent(c)
  <2>1. RP!ClientRegistersEvent(c)
    BY <1>1, <1>3, Zenon
       DEF HandleRegisterEvent, RP!ClientRegistersEvent, Reg!RegisterEvent,
           RP!RegisterEvent, Reg!NeedsMousePoll, RP!NeedsMousePoll, Reg!Part,
           RP!Part, RP!appVars
  <2> QED
    BY <1>1, <2>1 DEF RP!Next
<1>4. CASE HandleDeregisterEvent(c)
  <2>1. RP!ClientDeregistersEvent(c)
    BY <1>1, <1>4, Zenon
       DEF HandleDeregisterEvent, RP!ClientDeregistersEvent, Reg!RemoveEvents,
           RP!RemoveEvents, Reg!NeedsMousePoll, RP!NeedsMousePoll, Reg!Part,
           RP!Part, Reg!EventIsSubtype, RP!EventIsSubtype, RP!appVars
  <2> QED
    BY <1>1, <2>1 DEF RP!Next
<1>5. CASE HandleNameOwnerChanged(c)
  <2>1. RP!ClientLeaves(c)
    BY <1>1, <1>5
       DEF HandleNameOwnerChanged, RP!ClientLeaves, Reg!NameOwnerChanged,
           RP!NameOwnerChanged, Reg!appVars, RP!appVars, Reg!eventVars, RP!eventVars
  <2> QED
    BY <1>1, <2>1 DEF RP!Next
<1>6. CASE HandleDecMethod(inbox[1])
  BY <1>6 DEF HandleDecMethod, registryVars, RP!vars, RP!appVars, RP!eventVars
<1> QED
  BY <1>1, <1>2, <1>3, <1>4, <1>5, <1>6 DEF Handle

\* Nothing but a dispatched message and the cleanup touches the registry.
LEMMA StepIsRegistryStep ==
    ASSUME MessageInv, RegistryInv, [Next]_vars
    PROVE  [RP!Next]_RP!vars
<1>1. CASE Cleanup
  BY <1>1, SameRegistry DEF Cleanup, RP!Next
<1>2. ASSUME NEW c \in Names, Leave(c) \/ \E call \in Calls : Send(c, call)
      PROVE  UNCHANGED <<registryVars, polling>>
  BY <1>2 DEF Leave, Send
<1>3. CASE IdleProceeds
  BY <1>3 DEF IdleProceeds, IdleBegins, IdleHandles, NotifyEnds, IdleEnds,
              registryVars, HandleRegisterDevice, HandleDeregisterDevice,
              HandleNotify, Mouse!RegisterMouseListener, Mouse!DeregisterMouseListener,
              RP!vars, RP!appVars, RP!eventVars
<1>4. CASE TimerFires \/ CheckProceeds \/ XkbStateNotify \/ PointerChanges
  <2>1. UNCHANGED registryVars
    BY <1>4 DEF TimerFires, CheckProceeds, XkbStateNotify, PointerChanges, otherVars
  <2>2. UNCHANGED polling
    BY <1>4 DEF TimerFires, CheckProceeds, XkbStateNotify, PointerChanges,
                Mouse!TimerFires, Mouse!TimerTicks, Mouse!TimerDies,
                Mouse!BeginCheck, Mouse!XkbStateNotify, Mouse!PointerChanges,
                Mouse!CheckProceeds, Mouse!ReportButton, Mouse!ListenerAnswers,
                Mouse!EndCheck, Mouse!pollVars
  <2> QED
    BY <2>1, <2>2 DEF registryVars, RP!vars, RP!appVars, RP!eventVars
<1>5. UNCHANGED <<registryVars, polling>> => UNCHANGED RP!vars
  BY DEF registryVars, RP!vars, RP!appVars, RP!eventVars
<1>6. UNCHANGED vars => UNCHANGED RP!vars
  BY DEF vars, registryVars, RP!vars, RP!appVars, RP!eventVars
<1> QED
  BY <1>1, <1>2, <1>3, <1>4, <1>5, <1>6, DispatchIsRegistryStep DEF Next

\* A client that sends Embed is not present before its message is handled.
LEMMA SendKeepsEmbeds ==
    ASSUME MessageInv, EmbedsOnce, NEW c \in Names, NEW call \in Calls, Send(c, call)
    PROVE  EmbedsOnce'
<1> DEFINE message == [from |-> c, call |-> call, number |-> made'[c]]
<1>1. /\ inbox' = Append(inbox, message)
      /\ embedded' = IF call = "Embed" THEN embedded \cup {c} ELSE embedded
      /\ call = "Embed" => c \notin embedded
      /\ UNCHANGED <<strayed, id, apps>>
  BY DEF Send, registryVars
<1>2. MessageInv'
  BY SendKeepsMessages
<1>3. message.from = c /\ message.call = call
  OBVIOUS
<1> HIDE DEF message
<1>4. /\ Len(inbox) \in Nat /\ DOMAIN inbox = 1..Len(inbox)
      /\ DOMAIN inbox' = 1..(Len(inbox) + 1)
      /\ \A i \in DOMAIN inbox : inbox'[i] = inbox[i]
      /\ inbox'[Len(inbox) + 1] = message
  <2>1. message \in Messages
    BY <1>3 DEF message, Messages, MessageInv, MessageTypes, Send
  <2> QED
    BY <1>1, <2>1, Appended DEF MessageInv, MessageTypes
<1>5. Present' = Present
  <2>1. CASE call = "Embed"
    <3>1. c \notin Present' /\ c \notin Present
      BY <1>1, <1>3, <1>4, <2>1 DEF Present
    <3>2. ASSUME NEW d \in embedded, d # c
          PROVE  d \in Present' <=> d \in Present
      BY <1>1, <1>3, <1>4, <2>1, <3>2 DEF Present
    <3> QED
      BY <1>1, <2>1, <3>1, <3>2 DEF Present
  <2>2. CASE call # "Embed"
    BY <1>1, <1>3, <1>4, <2>2 DEF Present
  <2> QED
    BY <2>1, <2>2
<1>6. \A i \in DOMAIN inbox' :
         inbox'[i].call = "Embed" => inbox'[i].from \in embedded'
  BY <1>1, <1>3, <1>4 DEF EmbedsOnce
<1>7. \A i, j \in DOMAIN inbox' :
         (inbox'[i].call = "Embed" /\ inbox'[j].call = "Embed"
           /\ inbox'[i].from = inbox'[j].from) => i = j
  <2>1. ASSUME NEW i \in DOMAIN inbox, inbox[i].call = "Embed"
        PROVE  inbox[i].from \in embedded /\ (call = "Embed" => inbox[i].from # c)
    BY <1>1, <2>1 DEF EmbedsOnce
  <2>2. ASSUME NEW i \in DOMAIN inbox'
        PROVE  i \in DOMAIN inbox \/ (i = Len(inbox) + 1 /\ inbox'[i] = message)
    BY <1>4, <2>2
  <2> SUFFICES ASSUME NEW i \in DOMAIN inbox', NEW j \in DOMAIN inbox',
                      inbox'[i].call = "Embed", inbox'[j].call = "Embed",
                      inbox'[i].from = inbox'[j].from
               PROVE  i = j
    OBVIOUS
  <2>3. CASE i \in DOMAIN inbox /\ j \in DOMAIN inbox
    BY <1>4, <2>3 DEF EmbedsOnce
  <2>4. CASE i \notin DOMAIN inbox \/ j \notin DOMAIN inbox
    BY <1>3, <1>4, <2>1, <2>2, <2>4
  <2> QED
    BY <2>3, <2>4
<1> QED
  BY <1>1, <1>5, <1>6, <1>7 DEF EmbedsOnce

\* A departure is no Embed.
LEMMA LeaveKeepsEmbeds ==
    ASSUME MessageInv, EmbedsOnce, NEW c \in Names, Leave(c)
    PROVE  EmbedsOnce'
<1> DEFINE message == [from |-> c, call |-> "NameOwnerChanged", number |-> made[c]]
<1>1. /\ inbox' = Append(inbox, message)
      /\ UNCHANGED <<embedded, strayed, id, apps>>
  BY DEF Leave, registryVars
<1>2. message.call # "Embed" /\ message \in Messages
  BY DEF Messages, MessageInv, MessageTypes
<1> HIDE DEF message
<1>3. /\ Len(inbox) \in Nat /\ DOMAIN inbox = 1..Len(inbox)
      /\ DOMAIN inbox' = 1..(Len(inbox) + 1)
      /\ \A i \in DOMAIN inbox : inbox'[i] = inbox[i]
      /\ inbox'[Len(inbox) + 1] = message
  BY <1>1, <1>2, Appended DEF MessageInv, MessageTypes
<1>4. Present' = Present
  BY <1>1, <1>2, <1>3 DEF Present
<1>5. \A i \in DOMAIN inbox' : inbox'[i].call = "Embed"
         => i \in DOMAIN inbox /\ inbox'[i] = inbox[i]
  BY <1>2, <1>3
<1>6. /\ \A i, j \in DOMAIN inbox' :
            (inbox'[i].call = "Embed" /\ inbox'[j].call = "Embed"
              /\ inbox'[i].from = inbox'[j].from) => i = j
      /\ \A i \in DOMAIN inbox' :
            inbox'[i].call = "Embed" => inbox'[i].from \in embedded'
  BY <1>1, <1>5 DEF EmbedsOnce
<1> QED
  BY <1>1, <1>4, <1>6 DEF EmbedsOnce

\* The names in the desktop after a step of the cleanup were there before.
LEMMA CleanupAddsNobody ==
    ASSUME RP!DesktopInv, Cleanup
    PROVE  /\ \A k \in DOMAIN apps' : \E l \in DOMAIN apps : apps'[k] = apps[l]
           /\ ~strayed => ~strayed'
           /\ UNCHANGED <<clientVars, inbox, queueVars, id, known>>
<1>1. RP!CleanupProceeds /\ UNCHANGED <<clientVars, inbox, queueVars>>
  BY SameRegistry DEF Cleanup
<1>2. UNCHANGED <<id, known>>
  BY <1>1 DEF RP!CleanupProceeds
<1>3. CASE UNCHANGED <<apps, strayed>>
  BY <1>1, <1>2, <1>3
<1>4. CASE RP!CleanupRemoves
  <2>1. /\ cleanup.at < Len(apps) /\ apps' = RP!RemovedAt(apps, cleanup.at)
        /\ ~strayed => ~strayed'
    BY <1>4 DEF RP!CleanupRemoves, RP!RemoveApplication
  <2>2. cleanup \in RP!Cleanups /\ apps \in Seq(RP!Refs)
    BY <1>1 DEF RP!CleanupProceeds, RP!DesktopInv, RP!Cleaning
  <2>3. cleanup.at \in 0..(Len(apps) - 1) /\ Len(apps) \in Nat
        /\ DOMAIN apps = 1..Len(apps)
    BY <2>1, <2>2, LenProperties DEF RP!Cleanups
  <2>4. /\ apps' \in Seq(RP!Refs)
        /\ Len(apps') = Len(apps) - 1
        /\ \A k \in 1..(Len(apps) - 1) :
              apps'[k] = IF k <= cleanup.at THEN apps[k] ELSE apps[k + 1]
    BY <2>1, <2>2, <2>3, PartsAssumptions, RP!RemovedAtProperties
  <2>5. DOMAIN apps' = 1..(Len(apps) - 1)
    BY <2>4, LenProperties
  <2>6. ASSUME NEW k \in DOMAIN apps'
        PROVE  \E l \in DOMAIN apps : apps'[k] = apps[l]
    BY <2>3, <2>4, <2>5
  <2> QED
    BY <1>1, <1>2, <2>1, <2>6
<1> QED
  BY <1>1, <1>3, <1>4 DEF RP!CleanupProceeds, RP!CleanupSkips, RP!CleanupCrashes,
                          RP!CleanupEnds, RP!appVars

\* The application of a client that embeds is the only one of its name.
LEMMA DispatchKeepsEmbeds ==
    ASSUME MessageInv, RegistryInv, Dispatch
    PROVE  EmbedsOnce'
<1>1. \A i \in DOMAIN inbox' : i + 1 \in DOMAIN inbox /\ inbox'[i] = inbox[i + 1]
  BY FirstMessage
<1>2. DOMAIN inbox' \subseteq Nat
  BY FirstMessage
<1>3. UNCHANGED embedded
  BY FirstMessage
<1>4. /\ \A i, j \in DOMAIN inbox' :
            (inbox'[i].call = "Embed" /\ inbox'[j].call = "Embed"
              /\ inbox'[i].from = inbox'[j].from) => i = j
      /\ \A i \in DOMAIN inbox' :
            inbox'[i].call = "Embed" => inbox'[i].from \in embedded'
  <2>1. \A i, j \in DOMAIN inbox' : i + 1 = j + 1 => i = j
    BY <1>2
  <2> QED
    BY <1>1, <1>3, <2>1 DEF RegistryInv, EmbedsOnce
<1>5. CASE inbox[1].call = "Embed" /\ HandleEmbed(inbox[1].from)
  <2> DEFINE c == inbox[1].from
             ref == [name |-> c, path |-> "root"]
  <2>1. Present' = Present \cup {c} /\ Cardinality(Present') = id + 1
    BY <1>5, EmbedIsFirst DEF RegistryInv
  <2>2. apps' = Append(apps, ref) /\ id' = id + 1 /\ UNCHANGED strayed
    BY <1>5 DEF HandleEmbed, Reg!Embed
  <2>3. apps \in Seq(RP!Refs) /\ ref \in RP!Refs /\ ref.name = c
    BY FirstMessage DEF RegistryInv, RP!DesktopInv, RP!Refs
  <2> HIDE DEF c, ref
  <2>4. \A k \in DOMAIN apps' :
           apps'[k] = ref \/ (k \in DOMAIN apps /\ apps'[k] = apps[k])
    <3>1. /\ DOMAIN apps' = 1..(Len(apps) + 1) /\ Len(apps) \in Nat
          /\ DOMAIN apps = 1..Len(apps)
          /\ \A k \in DOMAIN apps : apps'[k] = apps[k]
          /\ apps'[Len(apps) + 1] = ref
      BY <2>2, <2>3, Appended
    <3> QED
      BY <3>1
  <2>5. \A k \in DOMAIN apps' : apps'[k].name \in Present'
    BY <2>1, <2>3, <2>4 DEF RegistryInv, EmbedsOnce
  <2> QED
    BY <1>4, <2>1, <2>2, <2>5 DEF RegistryInv, EmbedsOnce
<1>6. CASE inbox[1].call # "Embed"
  <2>1. Present' = Present
    <3>1. ASSUME NEW i \in DOMAIN inbox, inbox[i].call = "Embed"
          PROVE  \E j \in DOMAIN inbox' : inbox'[j] = inbox[i]
      <4>1. i # 1 /\ i \in 1..Len(inbox) /\ Len(inbox) \in Nat
        BY <1>6, <3>1, FirstMessage
      <4>2. i - 1 \in DOMAIN inbox' /\ i - 1 + 1 = i
        BY <4>1, FirstMessage
      <4> QED
        BY <1>1, <4>2
    <3> QED
      BY <1>1, <1>3, <3>1 DEF Present
  <2>2. UNCHANGED <<apps, id, strayed>>
    <3>1. \/ HandleRegisterEvent(inbox[1].from) \/ HandleDeregisterEvent(inbox[1].from)
          \/ HandleNameOwnerChanged(inbox[1].from) \/ HandleDecMethod(inbox[1])
      BY <1>6, FirstMessage DEF Handle
    <3> QED
      BY <3>1 DEF HandleRegisterEvent, HandleDeregisterEvent, HandleNameOwnerChanged,
                  HandleDecMethod, registryVars, Reg!NameOwnerChanged, Reg!appVars
  <2> QED
    BY <1>4, <2>1, <2>2 DEF RegistryInv, EmbedsOnce
<1> QED
  BY <1>5, <1>6, FirstMessage DEF Handle, DeviceCalls

\* What comes in over the bus, in any order with the departures, is what the
\* registry by itself takes clients to do; so its own invariants hold.
LEMMA RegistryInductive ==
    /\ Init => RegistryInv
    /\ MessageInv /\ RegistryInv /\ [Next]_vars => RegistryInv'
<1>1. ASSUME Init
      PROVE  RegistryInv
  <2>1. RP!Init
    BY <1>1, SameRegistry DEF Init
  <2>2. RP!DesktopInv /\ RP!EventsInv /\ RP!OrderlyInv
    BY <2>1, PartsAssumptions, RP!DesktopInductive, RP!EventsInductive,
       RP!OrderlyInductive
  <2>3. Present = {} /\ DOMAIN inbox = {} /\ DOMAIN apps = {} /\ ~strayed /\ id = 0
    BY <1>1, <2>1 DEF Init, RP!Init, Present
  <2>4. EmbedsOnce
    BY <2>3, FS_EmptySet DEF EmbedsOnce
  <2> QED
    BY <2>2, <2>4 DEF RegistryInv
<1>2. ASSUME MessageInv, RegistryInv, [Next]_vars
      PROVE  RegistryInv'
  <2>1. RP!DesktopInv' /\ RP!EventsInv' /\ RP!OrderlyInv'
    BY <1>2, StepIsRegistryStep, PartsAssumptions, RP!DesktopInductive,
       RP!EventsInductive, RP!OrderlyInductive DEF RegistryInv
  <2>2. ASSUME UNCHANGED <<embedded, inbox, strayed, id, apps>>
        PROVE  EmbedsOnce'
    BY <1>2, <2>2 DEF RegistryInv, EmbedsOnce, Present
  <2>3. ASSUME Cleanup
        PROVE  EmbedsOnce'
    <3>1. /\ \A k \in DOMAIN apps' : \E l \in DOMAIN apps : apps'[k] = apps[l]
          /\ ~strayed' /\ UNCHANGED <<embedded, inbox, id>>
      BY <1>2, <2>3, CleanupAddsNobody DEF RegistryInv, EmbedsOnce, clientVars
    <3> QED
      BY <1>2, <3>1 DEF RegistryInv, EmbedsOnce, Present
  <2>4. IdleProceeds => UNCHANGED <<embedded, inbox, strayed, id, apps>>
    BY DEF IdleProceeds, IdleBegins, IdleHandles, NotifyEnds, IdleEnds, registryVars,
           clientVars
  <2>5. ASSUME \/ TimerFires \/ CheckProceeds \/ XkbStateNotify \/ PointerChanges
               \/ UNCHANGED vars
        PROVE  UNCHANGED <<embedded, inbox, strayed, id, apps>>
    BY <2>5 DEF TimerFires, CheckProceeds, XkbStateNotify, PointerChanges, otherVars, vars,
           registryVars, clientVars
  <2>6. ASSUME NEW c \in Names, Leave(c) \/ \E call \in Calls : Send(c, call)
        PROVE  EmbedsOnce'
    BY <1>2, <2>6, SendKeepsEmbeds, LeaveKeepsEmbeds DEF RegistryInv
  <2>7. Dispatch => EmbedsOnce'
    BY <1>2, DispatchKeepsEmbeds
  <2>8. EmbedsOnce'
    BY <1>2, <2>2, <2>3, <2>4, <2>5, <2>6, <2>7 DEF Next
  <2> QED
    BY <2>1, <2>8 DEF RegistryInv
<1> QED
  BY <1>1, <1>2

\* The invariants of the registry hold in registryd as a whole.
THEOREM RegistryInvariant == Spec => []RegistryInv
<1> QED
  BY RegistryInductive, MessageInvariant, PTL DEF Spec

\* registryd's registry is the one specified in Registry: whatever the bus,
\* the queue and the poller do, each of its steps is a step of that one or none.
THEOREM RegistryRefined == Spec => RegistryAsSpecified
<1>1. Init => Reg!Init
  BY DEF Init
<1>2. MessageInv /\ RegistryInv /\ [Next]_vars => [Reg!Next]_Reg!vars
  <2>1. UNCHANGED RP!vars => UNCHANGED Reg!vars
    BY DEF RP!vars, RP!appVars, RP!eventVars, Reg!vars, Reg!appVars, Reg!eventVars
  <2> QED
    BY <2>1, StepIsRegistryStep, SameRegistry
<1> QED
  BY <1>1, <1>2, MessageInvariant, RegistryInvariant, PTL
     DEF Spec, RegistryAsSpecified, Reg!Spec

-----------------------------------------------------------------------------

(***************************************************************************)
(* The poller: one callback at a time, but for the bus.                    *)
(***************************************************************************)

\* MousePoll_proofs is about the same poller.
LEMMA SamePoller ==
    /\ Mouse!Init = MP!Init
    /\ Mouse!Next = MP!Next
    /\ Mouse!CheckProceeds = MP!CheckProceeds
    /\ Mouse!XkbStateNotify = MP!XkbStateNotify
    /\ Mouse!PointerChanges = MP!PointerChanges
    /\ \A kind : Mouse!TimerFires(kind) = MP!TimerFires(kind)
    /\ \A c : /\ Mouse!RegisterMouseListener(c) = MP!RegisterMouseListener(c)
              /\ Mouse!DeregisterMouseListener(c) = MP!DeregisterMouseListener(c)
              /\ Mouse!RemoveMouseListenersOf(c) = MP!RemoveMouseListenersOf(c)
    /\ Mouse!StartPollMouse = MP!StartPollMouse
    /\ Mouse!TypeOK = MP!TypeOK
BY DEF Mouse!Init, MP!Init, Mouse!Next, MP!Next, Mouse!CheckProceeds,
       MP!CheckProceeds, Mouse!XkbStateNotify, MP!XkbStateNotify,
       Mouse!PointerChanges, MP!PointerChanges, Mouse!TimerFires, MP!TimerFires,
       Mouse!TimerTicks, MP!TimerTicks, Mouse!TimerDies, MP!TimerDies,
       Mouse!TimersOf, MP!TimersOf, Mouse!BeginCheck, MP!BeginCheck,
       Mouse!MainLoop, MP!MainLoop, Mouse!BusDispatch, MP!BusDispatch,
       Mouse!Listening, MP!Listening, Mouse!Timers, MP!Timers,
       Mouse!ReportButton, MP!ReportButton, Mouse!ListenerAnswers,
       MP!ListenerAnswers, Mouse!EndCheck, MP!EndCheck, Mouse!Rearm, MP!Rearm,
       Mouse!Moved, MP!Moved, Mouse!ReportsModifiers, MP!ReportsModifiers,
       Mouse!ChangedButtons, MP!ChangedButtons, Mouse!ButtonsOf, MP!ButtonsOf,
       Mouse!ModifiersOf, MP!ModifiersOf, Mouse!Flip, MP!Flip,
       Mouse!Requests, MP!Requests, Mouse!RegisterMouseListener,
       MP!RegisterMouseListener, Mouse!DeregisterMouseListener,
       MP!DeregisterMouseListener, Mouse!DropListeners, MP!DropListeners,
       Mouse!RemoveMouseListenersOf, MP!RemoveMouseListenersOf,
       Mouse!ClientLeaves, MP!ClientLeaves, Mouse!Clients, MP!Clients,
       Mouse!RegisterMouseEvent, MP!RegisterMouseEvent, Mouse!DeregisterMouseEvent,
       MP!DeregisterMouseEvent, Mouse!StartPollMouse, MP!StartPollMouse,
       Mouse!StopPollMouse, MP!StopPollMouse, Mouse!StartTimerUnless,
       MP!StartTimerUnless, Mouse!Pointer, MP!Pointer, Mouse!Bits, MP!Bits,
       Mouse!Buttons, MP!Buttons, Mouse!NoCheck, MP!NoCheck, Mouse!AtHome,
       MP!AtHome, Mouse!Checks, MP!Checks, Mouse!TypeOK, MP!TypeOK,
       Mouse!pollVars, MP!pollVars, Mouse!pointerVars, MP!pointerVars

\* The queue's callback and a mouse check exclude each other; a departure is
\* handled between callbacks or while one waits.
OneAtATime ==
    /\ DrainScheduled
    /\ OneCallback
    /\ notifying # NoCall => draining
    /\ Reg!Cleaning => Between \/ Waiting

PollerInv == OneAtATime /\ MP!IInv

\* A message is dispatched, and a departure handled, when the poller's own
\* specification lets the bus in.
LEMMA BusIsIn ==
    ASSUME OneAtATime, BusDispatch \/ Reg!Cleaning
    PROVE  MP!BusDispatch
<1>1. Between \/ Waiting
  BY DEF OneAtATime, BusDispatch
<1>2. notifying # NoCall => check.kind = "none"
  BY DEF OneAtATime, OneCallback
<1> QED
  BY <1>1, <1>2 DEF Between, Waiting, MP!BusDispatch, MP!MainLoop

\* The registry reaches the poller by starting and stopping the poll.
LEMMA DispatchIsPollerStep ==
    ASSUME MessageInv, RegistryInv, PollerInv, Dispatch
    PROVE  [MP!Next]_MP!vars
<1>1. MP!BusDispatch
  BY BusIsIn DEF PollerInv, Dispatch
<1>2. ASSUME NEW c, HandleRegisterEvent(c)
      PROVE  MP!RegisterMouseEvent
  BY <1>1, <1>2, SamePoller DEF HandleRegisterEvent, MP!RegisterMouseEvent, MP!pointerVars
<1>3. ASSUME NEW c, HandleDeregisterEvent(c)
      PROVE  MP!DeregisterMouseEvent \/ UNCHANGED MP!vars
  <2>1. polling' \in {FALSE, polling} /\ UNCHANGED mouseVars
    <3>1. polling \in BOOLEAN
      BY DEF PollerInv, MP!IInv, MP!TypeOK
    <3> QED
      BY <1>3, <3>1 DEF HandleDeregisterEvent, Reg!RemoveEvents
  <2> QED
    BY <1>1, <2>1 DEF MP!DeregisterMouseEvent, MP!StopPollMouse, mouseVars, MP!vars,
                      MP!pollVars, MP!pointerVars
<1>4. ASSUME NEW c, HandleEmbed(c) \/ HandleNameOwnerChanged(c)
      PROVE  UNCHANGED MP!vars
  BY <1>4 DEF HandleEmbed, HandleNameOwnerChanged, Reg!NameOwnerChanged,
              Reg!eventVars, mouseVars, MP!vars, MP!pollVars, MP!pointerVars
<1>5. ASSUME NEW m, HandleDecMethod(m)
      PROVE  UNCHANGED MP!vars
  BY <1>5 DEF HandleDecMethod, mouseVars, MP!vars, MP!pollVars, MP!pointerVars
<1> QED
  BY <1>2, <1>3, <1>4, <1>5, FirstMessage DEF Handle, MP!Next, MP!Requests

\* A departure takes away the device listeners of the application it removes,
\* and in the end it may stop the poll.
LEMMA CleanupIsPollerStep ==
    ASSUME RegistryInv, PollerInv, Cleanup
    PROVE  [MP!Next]_MP!vars
<1>1. /\ RP!CleanupProceeds /\ MP!BusDispatch
      /\ UNCHANGED <<idleTimers, movingTimers, pointer, lastMousePos,
                     mouseMaskState, check, told>>
  <2>1. Reg!Cleaning
    BY DEF Cleanup, Reg!CleanupProceeds
  <2> QED
    BY <2>1, BusIsIn, SameRegistry DEF Cleanup, PollerInv
<1>2. CASE RP!CleanupRemoves
  <2> DEFINE c == apps[cleanup.at + 1].name
  <2>1. UNCHANGED polling
    BY <1>2 DEF RP!CleanupRemoves, RP!eventVars
  <2>2. c \in MP!Clients
    <3>1. cleanup \in RP!Cleanups /\ apps \in Seq(RP!Refs)
      BY <1>1 DEF RP!CleanupProceeds, RP!Cleaning, RegistryInv, RP!DesktopInv
    <3>2. cleanup.at + 1 \in 1..Len(apps)
      BY <1>2, <3>1, LenProperties DEF RP!CleanupRemoves, RP!Cleanups
    <3>3. apps[cleanup.at + 1] \in RP!Refs
      BY <3>1, <3>2, ElementOfSeq
    <3>4. c \in Names
      BY <3>3 DEF RP!Refs
    <3> QED
      BY <3>4 DEF MP!Clients
  <2>3. MP!RemoveMouseListenersOf(c) \/ UNCHANGED <<mouseListeners, haveMouseListener>>
    BY SamePoller DEF Cleanup
  <2>4. MP!ClientLeaves(c) \/ UNCHANGED MP!vars
    BY <1>1, <2>1, <2>3 DEF MP!ClientLeaves, MP!vars, MP!pollVars, MP!pointerVars
  <2> QED
    BY <2>2, <2>4 DEF MP!Next, MP!Requests
<1>3. CASE ~RP!CleanupRemoves
  <2>1. apps' = apps
    BY <1>1, <1>3 DEF RP!CleanupProceeds, RP!CleanupSkips, RP!CleanupCrashes,
                      RP!CleanupEnds, RP!appVars
  <2>2. UNCHANGED <<mouseListeners, haveMouseListener>>
    BY <2>1 DEF Cleanup
  <2>3. polling' \in {FALSE, polling}
    <3>1. polling \in BOOLEAN
      BY DEF PollerInv, MP!IInv, MP!TypeOK
    <3> QED
      BY <1>1, <1>3, <3>1
         DEF RP!CleanupProceeds, RP!CleanupSkips, RP!CleanupCrashes, RP!CleanupEnds,
             RP!eventVars, RP!RemoveEvents
  <2>4. MP!DeregisterMouseEvent \/ UNCHANGED MP!vars
    BY <1>1, <2>2, <2>3 DEF MP!DeregisterMouseEvent, MP!StopPollMouse, MP!vars,
                            MP!pollVars, MP!pointerVars
  <2> QED
    BY <2>4 DEF MP!Next, MP!Requests
<1> QED
  BY <1>2, <1>3

\* The idle callback registers and deregisters device listeners.
LEMMA IdleIsPollerStep ==
    ASSUME MessageInv, IdleProceeds
    PROVE  [MP!Next]_MP!vars
<1>1. CASE IdleHandles
  <2>1. Head(queue) \in Messages
    BY <1>1, Beheaded DEF IdleHandles, MessageInv, MessageTypes
  <2>2. \/ MP!RegisterMouseListener(Head(queue).from)
        \/ MP!DeregisterMouseListener(Head(queue).from)
        \/ UNCHANGED <<polling, mouseVars>>
    BY <1>1, SamePoller DEF IdleHandles, HandleRegisterDevice, HandleDeregisterDevice,
                            HandleNotify
  <2>3. Head(queue).from \in Names
    BY <2>1, MessageFields
  <2>4. UNCHANGED <<polling, mouseVars>> => UNCHANGED MP!vars
    BY DEF mouseVars, MP!vars, MP!pollVars, MP!pointerVars
  <2> QED
    BY <2>2, <2>3, <2>4 DEF MP!Next, MP!Requests
<1>2. CASE IdleBegins \/ NotifyEnds \/ IdleEnds
  BY <1>2 DEF IdleBegins, NotifyEnds, IdleEnds, mouseVars, MP!vars, MP!pollVars,
              MP!pointerVars
<1> QED
  BY <1>1, <1>2 DEF IdleProceeds

\* Every step of registryd is one of the poller's specification, or none.
LEMMA StepIsPollerStep ==
    ASSUME MessageInv, RegistryInv, PollerInv, [Next]_vars
    PROVE  [MP!Next]_MP!vars
<1>1. ASSUME NEW c \in Names, Leave(c) \/ \E call \in Calls : Send(c, call)
      PROVE  UNCHANGED MP!vars
  BY <1>1 DEF Leave, Send, mouseVars, MP!vars, MP!pollVars, MP!pointerVars
<1>2. CASE TimerFires
  <2>1. PICK kind \in {"idle", "moving"} : MP!TimerFires(kind)
    BY <1>2, SamePoller DEF TimerFires
  <2> QED
    BY <2>1 DEF MP!Next
<1>3. CASE CheckProceeds \/ XkbStateNotify \/ PointerChanges
  BY <1>3, SamePoller DEF CheckProceeds, XkbStateNotify, PointerChanges, MP!Next
<1>4. CASE UNCHANGED vars
  BY <1>4 DEF vars, mouseVars, MP!vars, MP!pollVars, MP!pointerVars
<1> QED
  BY <1>1, <1>2, <1>3, <1>4, DispatchIsPollerStep, CleanupIsPollerStep,
     IdleIsPollerStep DEF Next

\* A step that leaves the callbacks and the cleanup alone.
LEMMA StillOneAtATime ==
    ASSUME OneAtATime,
           UNCHANGED <<queue, idle, draining, notifying, check, cleanup>>
    PROVE  OneAtATime'
BY DEF OneAtATime, DrainScheduled, OneCallback, Between, Waiting, Reg!Cleaning,
       Reg!NoCleanup

\* A device call that arrives has its callback scheduled; a departure begins to be
\* handled where messages are dispatched.
LEMMA DispatchKeepsOneAtATime ==
    ASSUME MessageInv, OneAtATime, Dispatch
    PROVE  OneAtATime'
<1>1. Between \/ Waiting
  BY DEF Dispatch, BusDispatch
<1>2. UNCHANGED <<draining, notifying, check>>
  BY FirstMessage
     DEF Handle, HandleEmbed, HandleRegisterEvent, HandleDeregisterEvent,
         HandleNameOwnerChanged, HandleDecMethod, queueVars, mouseVars
<1>3. idle' = TRUE \/ UNCHANGED <<queue, idle>>
  BY FirstMessage
     DEF Handle, HandleEmbed, HandleRegisterEvent, HandleDeregisterEvent,
         HandleNameOwnerChanged, HandleDecMethod, queueVars
<1> QED
  BY <1>1, <1>2, <1>3
     DEF OneAtATime, DrainScheduled, OneCallback, Between, Waiting

\* Callbacks begin when none runs.
LEMMA StepKeepsOneAtATime ==
    ASSUME MessageInv, PollerInv, [Next]_vars
    PROVE  OneAtATime'
<1>1. OneAtATime /\ check \in MP!Checks
  BY DEF PollerInv, MP!IInv, MP!TypeOK
<1>2. ASSUME NEW c \in Names, Leave(c) \/ \E call \in Calls : Send(c, call)
      PROVE  OneAtATime'
  BY <1>1, <1>2, StillOneAtATime DEF Leave, Send, queueVars, registryVars, mouseVars
<1>3. CASE Cleanup
  <2>1. Between \/ Waiting
    BY <1>1, <1>3 DEF Cleanup, Reg!CleanupProceeds, OneAtATime
  <2>2. UNCHANGED <<queue, idle, draining, notifying, check>>
    BY <1>3 DEF Cleanup, queueVars
  <2> QED
    BY <1>1, <2>1, <2>2 DEF OneAtATime, DrainScheduled, OneCallback, Between, Waiting
<1>4. ASSUME IdleProceeds
      PROVE  OneAtATime'
  <2>1. ~Reg!Cleaning' /\ UNCHANGED check
    BY <1>4 DEF IdleProceeds, IdleBegins, IdleHandles, NotifyEnds, IdleEnds, MainLoop,
                HandleRegisterDevice, HandleDeregisterDevice, HandleNotify,
                Mouse!RegisterMouseListener, Mouse!DeregisterMouseListener,
                Mouse!pointerVars, mouseVars, registryVars, Reg!Ready,
                Reg!Cleaning, Reg!NoCleanup
  <2>2. \/ draining' = TRUE /\ UNCHANGED <<check, notifying>> /\ check.kind = "none"
        \/ draining /\ UNCHANGED draining
        \/ queue' = <<>> /\ draining' = FALSE /\ notifying' = NoCall
    <3>1. IdleBegins => /\ draining' = TRUE /\ UNCHANGED <<check, notifying>>
                        /\ check.kind = "none"
      BY DEF IdleBegins, MainLoop, Between, mouseVars
    <3>2. IdleHandles \/ NotifyEnds => draining /\ UNCHANGED draining
      BY <1>1 DEF IdleHandles, NotifyEnds, OneAtATime
    <3>3. IdleEnds => queue' = <<>> /\ draining' = FALSE /\ notifying' = NoCall
      BY DEF IdleEnds
    <3> QED
      BY <1>4, <3>1, <3>2, <3>3 DEF IdleProceeds
  <2> QED
    BY <1>1, <2>1, <2>2 DEF OneAtATime, DrainScheduled, OneCallback, Between, Waiting
<1>5. ASSUME TimerFires \/ CheckProceeds \/ XkbStateNotify
      PROVE  OneAtATime'
  <2>1. UNCHANGED <<queue, idle, draining, notifying>> /\ ~Reg!Cleaning'
    BY <1>5 DEF TimerFires, CheckProceeds, XkbStateNotify, MainLoop, Reg!Ready,
                otherVars, queueVars, registryVars, Reg!Cleaning, Reg!NoCleanup
  <2>2. draining => check'.kind = "none"
    <3>1. TimerFires \/ XkbStateNotify => ~draining
      BY DEF TimerFires, XkbStateNotify, MainLoop, Between
    <3>2. ASSUME CheckProceeds, draining
          PROVE  check'.kind = "none"
      <4>1. check.kind = "none"
        BY <1>1, <3>2 DEF OneAtATime, OneCallback
      <4>2. MP!CheckProceeds
        BY <3>2, SamePoller DEF CheckProceeds
      <4>3. MP!ListenerAnswers
        BY <4>1, <4>2 DEF MP!CheckProceeds, MP!ReportButton, MP!EndCheck
      <4> QED
        BY <1>1, <4>1, <4>3 DEF MP!ListenerAnswers, MP!Checks
    <3> QED
      BY <1>5, <3>1, <3>2
  <2> QED
    BY <1>1, <2>1, <2>2 DEF OneAtATime, DrainScheduled, OneCallback
<1>6. ASSUME PointerChanges \/ UNCHANGED vars
      PROVE  OneAtATime'
  BY <1>1, <1>6, StillOneAtATime
     DEF PointerChanges, Mouse!PointerChanges, Mouse!pointerVars, otherVars, vars,
         queueVars, registryVars, mouseVars
<1> QED
  BY <1>1, <1>2, <1>3, <1>4, <1>5, <1>6, DispatchKeepsOneAtATime DEF Next

\* The callbacks exclude each other, and the poller's invariant holds, with the
\* registry and the queue driving it.
THEOREM PollerInvariant == Spec => []PollerInv
<1>1. Init => PollerInv
  <2> SUFFICES ASSUME Init PROVE PollerInv
    OBVIOUS
  <2>1. MP!IInv
    BY SamePoller, PartsAssumptions, MP!InitIInv DEF Init
  <2>2. queue = <<>> /\ ~draining /\ notifying = NoCall /\ ~Reg!Cleaning
    BY DEF Init, Reg!Init, Reg!Cleaning
  <2>3. OneAtATime
    BY <2>2 DEF OneAtATime, DrainScheduled, OneCallback
  <2> QED
    BY <2>1, <2>3 DEF PollerInv
<1>2. MessageInv /\ RegistryInv /\ PollerInv /\ [Next]_vars => PollerInv'
  <2> SUFFICES ASSUME MessageInv, RegistryInv, PollerInv, [Next]_vars
               PROVE  PollerInv'
    OBVIOUS
  <2>1. MP!IInv'
    BY StepIsPollerStep, PartsAssumptions, MP!StepKeepsIInv DEF PollerInv
  <2> QED
    BY <2>1, StepKeepsOneAtATime DEF PollerInv
<1> QED
  BY <1>1, <1>2, MessageInvariant, RegistryInvariant, PTL DEF Spec

\* registryd's poller is the one specified in MousePoll, although the bus starts
\* and stops it and takes its listeners away in the middle of its checks.
THEOREM PollerRefined == Spec => PollerAsSpecified
<1>1. Init => Mouse!Init
  BY DEF Init
<1>2. MessageInv /\ RegistryInv /\ PollerInv /\ [Next]_vars
        => [Mouse!Next]_Mouse!vars
  <2>1. UNCHANGED MP!vars => UNCHANGED Mouse!vars
    BY DEF MP!vars, MP!pollVars, MP!pointerVars, Mouse!vars, Mouse!pollVars,
           Mouse!pointerVars
  <2> QED
    BY <2>1, StepIsPollerStep, SamePoller
<1> QED
  BY <1>1, <1>2, MessageInvariant, RegistryInvariant, PollerInvariant, PTL
     DEF Spec, PollerAsSpecified, Mouse!Spec

-----------------------------------------------------------------------------

(***************************************************************************)
(* The device calls: in the bus, in the queue, in the hands of a listener. *)
(***************************************************************************)

Device(message) == message.call \in DeviceCalls

\* A call made and not yet answered, nor any later one of the same client.
Waits(message) ==
    /\ answered[message.from] < message.number
    /\ message.number <= made[message.from]

\* Of two calls of one client the first was made first.
Before(first, second) == first.from = second.from => first.number < second.number

\* The calls of a client wait in the order it made them: one may wait for a
\* listener, others in the queue, others still in the bus.
CallsInOrder ==
    /\ \A c \in Names : answered[c] <= made[c]
    /\ notifying # NoCall => Waits(notifying)
    /\ \A i \in DOMAIN queue : Waits(queue[i])
    /\ \A i \in DOMAIN inbox : Device(inbox[i]) => Waits(inbox[i])
    /\ notifying # NoCall => \A i \in DOMAIN queue : Before(notifying, queue[i])
    /\ notifying # NoCall =>
          \A i \in DOMAIN inbox : Device(inbox[i]) => Before(notifying, inbox[i])
    /\ \A i, j \in DOMAIN queue : i < j => Before(queue[i], queue[j])
    /\ \A i \in DOMAIN queue, j \in DOMAIN inbox :
          Device(inbox[j]) => Before(queue[i], inbox[j])
    /\ \A i, j \in DOMAIN inbox :
          i < j /\ Device(inbox[i]) /\ Device(inbox[j]) => Before(inbox[i], inbox[j])

\* A call sent is later than those its client made before.
LEMMA SendKeepsCalls ==
    ASSUME MessageInv, CallsInOrder, NEW c \in Names, NEW call \in Calls, Send(c, call)
    PROVE  CallsInOrder'
<1>1. /\ inbox' = Append(inbox, [from |-> c, call |-> call, number |-> made'[c]])
      /\ made' = [made EXCEPT ![c] = @ + 1]
      /\ UNCHANGED <<queue, notifying, answered>>
  BY DEF Send, queueVars
<1>2. /\ made \in [Names -> Nat] /\ answered \in [Names -> Nat]
      /\ inbox \in Seq(Messages) /\ queue \in Seq(Messages)
      /\ notifying \in Messages \cup {NoCall}
  BY DEF MessageInv, MessageTypes
<1>3. /\ made'[c] = made[c] + 1 /\ made'[c] \in Nat
      /\ \A d \in Names : made[d] <= made'[d] /\ made'[d] \in Nat
  BY <1>1, <1>2
<1>4. PICK message \in Messages : /\ message.from = c /\ message.number = made[c] + 1
                                  /\ inbox' = Append(inbox, message)
  <2>1. [from |-> c, call |-> call, number |-> made'[c]] \in Messages
    BY <1>3 DEF Messages
  <2> QED
    BY <1>1, <1>3, <2>1
<1>5. /\ Len(inbox) \in Nat /\ DOMAIN inbox = 1..Len(inbox)
      /\ DOMAIN inbox' = 1..(Len(inbox) + 1)
      /\ \A i \in DOMAIN inbox : inbox'[i] = inbox[i]
      /\ inbox'[Len(inbox) + 1] = message
  BY <1>1, <1>2, <1>4, Appended
<1>6. ASSUME NEW m \in Messages, Waits(m)
      PROVE  Waits(m)' /\ Before(m, message)
  <2>1. m.from \in Names /\ m.number \in Nat
    BY <1>6, MessageFields
  <2> QED
    BY <1>1, <1>2, <1>3, <1>4, <1>6, <2>1 DEF Waits, Before
<1>7. Waits(message)' /\ answered[c] < made'[c]
  BY <1>1, <1>2, <1>3, <1>4 DEF Waits, CallsInOrder
<1>8. /\ \A i \in DOMAIN inbox : inbox[i] \in Messages
      /\ \A i \in DOMAIN queue : queue[i] \in Messages
      /\ notifying # NoCall => notifying \in Messages
  BY <1>2, ElementOfSeq
<1>9. ASSUME NEW i \in DOMAIN inbox'
      PROVE  \/ i \in DOMAIN inbox /\ inbox'[i] = inbox[i]
             \/ i = Len(inbox) + 1 /\ inbox'[i] = message
  BY <1>5
<1>10. \A d \in Names : answered'[d] <= made'[d]
  BY <1>1, <1>2, <1>3 DEF CallsInOrder
<1>11. /\ notifying' # NoCall => Waits(notifying)'
       /\ \A i \in DOMAIN queue' : Waits(queue[i])'
       /\ \A i \in DOMAIN inbox' : Device(inbox'[i]) => Waits(inbox[i])'
  <2>1. notifying' # NoCall => Waits(notifying)'
    BY <1>1, <1>6, <1>8 DEF CallsInOrder
  <2>2. ASSUME NEW i \in DOMAIN queue'
        PROVE  Waits(queue[i])'
    <3>1. Waits(queue[i])
      BY <1>1 DEF CallsInOrder
    <3> QED
      BY <1>1, <1>6, <1>8, <3>1 DEF Waits
  <2>3. ASSUME NEW i \in DOMAIN inbox', Device(inbox'[i])
        PROVE  Waits(inbox[i])'
    <3>1. CASE i \in DOMAIN inbox /\ inbox'[i] = inbox[i]
      <4>1. Waits(inbox[i])
        BY <2>3, <3>1 DEF CallsInOrder
      <4> QED
        BY <3>1, <4>1, <1>6, <1>8 DEF Waits
    <3>2. CASE i = Len(inbox) + 1 /\ inbox'[i] = message
      BY <1>7, <3>2, <1>4 DEF Waits
    <3> QED
      BY <1>9, <3>1, <3>2
  <2> QED
    BY <2>1, <2>2, <2>3
<1>12. /\ notifying' # NoCall =>
             \A i \in DOMAIN inbox' : Device(inbox'[i]) => Before(notifying', inbox'[i])
       /\ \A i \in DOMAIN queue', j \in DOMAIN inbox' :
             Device(inbox'[j]) => Before(queue'[i], inbox'[j])
       /\ \A i, j \in DOMAIN inbox' :
             i < j /\ Device(inbox'[i]) /\ Device(inbox'[j])
                => Before(inbox'[i], inbox'[j])
  <2>1. notifying # NoCall => Before(notifying, message)
    BY <1>6, <1>8 DEF CallsInOrder
  <2>2. \A i \in DOMAIN queue : Before(queue[i], message)
    BY <1>6, <1>8 DEF CallsInOrder
  <2>3. \A i \in DOMAIN inbox : Device(inbox[i]) => Before(inbox[i], message)
    BY <1>6, <1>8 DEF CallsInOrder
  <2>4. ASSUME NEW i \in DOMAIN inbox', NEW j \in DOMAIN inbox', i < j,
               Device(inbox'[i]), Device(inbox'[j])
        PROVE  Before(inbox'[i], inbox'[j])
    <3>1. i \in DOMAIN inbox /\ inbox'[i] = inbox[i]
      BY <1>5, <2>4
    <3> QED
      BY <1>9, <2>3, <2>4, <3>1 DEF CallsInOrder
  <2> QED
    BY <1>1, <1>9, <2>1, <2>2, <2>4 DEF CallsInOrder
<1> QED
  BY <1>1, <1>10, <1>11, <1>12 DEF CallsInOrder

\* A departure is no device call.
LEMMA LeaveKeepsCalls ==
    ASSUME MessageInv, CallsInOrder, NEW c \in Names, Leave(c)
    PROVE  CallsInOrder'
<1> DEFINE message == [from |-> c, call |-> "NameOwnerChanged", number |-> made[c]]
<1>1. /\ inbox' = Append(inbox, message)
      /\ UNCHANGED <<made, queue, notifying, answered>>
  BY DEF Leave, queueVars
<1>2. ~Device(message) /\ message \in Messages
  BY DEF Device, DeviceCalls, Messages, MessageInv, MessageTypes
<1> HIDE DEF message
<1>3. /\ Len(inbox) \in Nat /\ DOMAIN inbox = 1..Len(inbox)
      /\ DOMAIN inbox' = 1..(Len(inbox) + 1)
      /\ \A i \in DOMAIN inbox : inbox'[i] = inbox[i]
      /\ inbox'[Len(inbox) + 1] = message
  BY <1>1, <1>2, Appended DEF MessageInv, MessageTypes
<1>4. \A i \in DOMAIN inbox' : Device(inbox'[i]) => i \in DOMAIN inbox /\ inbox'[i] = inbox[i]
  BY <1>2, <1>3
<1> QED
  BY <1>1, <1>4 DEF CallsInOrder, Waits

\* A device call goes from the front of the bus to the end of the queue.
LEMMA DispatchKeepsCalls ==
    ASSUME MessageInv, CallsInOrder, Dispatch
    PROVE  CallsInOrder'
<1>1. UNCHANGED <<made, notifying, answered>>
  BY FirstMessage
     DEF Handle, HandleEmbed, HandleRegisterEvent, HandleDeregisterEvent,
         HandleNameOwnerChanged, HandleDecMethod, queueVars
<1>2. /\ 1 \in DOMAIN inbox /\ inbox[1] \in Messages
      /\ DOMAIN inbox' \subseteq Nat \ {0}
      /\ \A i \in DOMAIN inbox' : i + 1 \in DOMAIN inbox /\ inbox'[i] = inbox[i + 1]
  BY FirstMessage
<1>3. CASE UNCHANGED queue
  BY <1>1, <1>2, <1>3 DEF CallsInOrder, Waits
<1>4. CASE Device(inbox[1]) /\ HandleDecMethod(inbox[1])
  <2>1. queue' = Append(queue, inbox[1])
    BY <1>4 DEF HandleDecMethod
  <2>2. /\ Len(queue) \in Nat /\ DOMAIN queue = 1..Len(queue)
        /\ DOMAIN queue' = 1..(Len(queue) + 1)
        /\ \A i \in DOMAIN queue : queue'[i] = queue[i]
        /\ queue'[Len(queue) + 1] = inbox[1]
    BY <1>2, <2>1, Appended DEF MessageInv, MessageTypes
  <2>3. ASSUME NEW i \in DOMAIN queue'
        PROVE  \/ i \in DOMAIN queue /\ queue'[i] = queue[i]
               \/ i = Len(queue) + 1 /\ queue'[i] = inbox[1]
    BY <2>2
  <2>4. \A i \in DOMAIN queue' : Waits(queue[i])'
    BY <1>1, <1>2, <1>4, <2>3 DEF CallsInOrder, Waits
  <2>5. notifying' # NoCall => \A i \in DOMAIN queue' : Before(notifying', queue'[i])
    BY <1>1, <1>2, <1>4, <2>3 DEF CallsInOrder
  <2>6. \A i, j \in DOMAIN queue' : i < j => Before(queue'[i], queue'[j])
    <3> SUFFICES ASSUME NEW i \in DOMAIN queue', NEW j \in DOMAIN queue', i < j
                 PROVE  Before(queue'[i], queue'[j])
      OBVIOUS
    <3>1. i \in DOMAIN queue /\ queue'[i] = queue[i]
      BY <2>2
    <3> QED
      BY <1>2, <1>4, <2>3, <3>1 DEF CallsInOrder
  <2>7. \A i \in DOMAIN queue', j \in DOMAIN inbox' :
           Device(inbox'[j]) => Before(queue'[i], inbox'[j])
    <3> SUFFICES ASSUME NEW i \in DOMAIN queue', NEW j \in DOMAIN inbox', Device(inbox'[j])
                 PROVE  Before(queue'[i], inbox'[j])
      OBVIOUS
    <3>1. j + 1 \in DOMAIN inbox /\ 1 < j + 1 /\ inbox'[j] = inbox[j + 1]
      BY <1>2
    <3> QED
      BY <1>2, <1>4, <2>3, <3>1 DEF CallsInOrder
  <2>8. /\ \A i \in DOMAIN inbox' : Device(inbox'[i]) => Waits(inbox[i])'
        /\ notifying' # NoCall =>
              \A i \in DOMAIN inbox' : Device(inbox'[i]) => Before(notifying', inbox'[i])
        /\ \A i, j \in DOMAIN inbox' :
              i < j /\ Device(inbox'[i]) /\ Device(inbox'[j])
                 => Before(inbox'[i], inbox'[j])
    BY <1>1, <1>2 DEF CallsInOrder, Waits
  <2>9. /\ \A c \in Names : answered'[c] <= made'[c]
        /\ notifying' # NoCall => Waits(notifying)'
    BY <1>1 DEF CallsInOrder, Waits
  <2> QED
    BY <2>4, <2>5, <2>6, <2>7, <2>8, <2>9 DEF CallsInOrder
<1> QED
  BY <1>3, <1>4, FirstMessage
     DEF Handle, HandleEmbed, HandleRegisterEvent, HandleDeregisterEvent,
         HandleNameOwnerChanged, queueVars, Device

\* An answer leaves those waiting that were made after the call answered.
LEMMA AnswerLeavesLater ==
    ASSUME MessageInv, NEW m \in Messages, Answer(m), UNCHANGED made,
           NEW n \in Messages, Waits(n), Before(m, n)
    PROVE  Waits(n)'
<1>1. /\ answered \in [Names -> Nat] /\ m.from \in Names /\ n.from \in Names
      /\ answered' = [answered EXCEPT ![m.from] = m.number]
  BY MessageFields DEF MessageInv, MessageTypes, Answer
<1>2. CASE m.from = n.from
  BY <1>1, <1>2 DEF Waits, Before
<1>3. CASE m.from # n.from
  BY <1>1, <1>3 DEF Waits
<1> QED
  BY <1>2, <1>3

\* It is the answer to the client's oldest call.
LEMMA AnswerIsNext ==
    ASSUME MessageInv, CallsInOrder, NEW m \in Messages, Waits(m), Answer(m), UNCHANGED made
    PROVE  \A c \in Names : /\ answered'[c] # answered[c] => answered'[c] > answered[c]
                            /\ answered'[c] <= made'[c]
<1>1. /\ answered \in [Names -> Nat] /\ m.from \in Names /\ m.number \in Nat
      /\ answered' = [answered EXCEPT ![m.from] = m.number]
  BY MessageFields DEF MessageInv, MessageTypes, Answer
<1>2. ASSUME NEW c \in Names, c = m.from
      PROVE  answered'[c] > answered[c] /\ answered'[c] <= made'[c]
  BY <1>1, <1>2 DEF Waits
<1>3. ASSUME NEW c \in Names, c # m.from
      PROVE  answered'[c] = answered[c] /\ answered'[c] <= made'[c]
  BY <1>1, <1>3 DEF CallsInOrder
<1> QED
  BY <1>2, <1>3

\* What the idle callback does to the calls.
LEMMA IdleChanges ==
    ASSUME MessageInv, IdleProceeds
    PROVE  /\ UNCHANGED <<inbox, made>>
           /\ \/ UNCHANGED <<queue, notifying, answered>>
              \/ /\ notifying = NoCall /\ queue # <<>> /\ queue' = Tail(queue)
                 /\ queue[1] \in Messages /\ 1 \in DOMAIN queue
                 /\ DOMAIN queue' \subseteq Nat \ {0}
                 /\ \A i \in DOMAIN queue' :
                       i + 1 \in DOMAIN queue /\ queue'[i] = queue[i + 1]
                 /\ \/ Answer(queue[1]) /\ notifying' = NoCall
                    \/ UNCHANGED answered /\ notifying' = queue[1]
              \/ /\ notifying # NoCall /\ notifying \in Messages
                 /\ Answer(notifying) /\ notifying' = NoCall /\ UNCHANGED queue
<1>1. UNCHANGED <<inbox, made>>
  BY DEF IdleProceeds, IdleBegins, IdleHandles, NotifyEnds, IdleEnds, clientVars
<1>2. CASE IdleHandles
  <2>1. queue # <<>> /\ queue' = Tail(queue) /\ notifying = NoCall
    BY <1>2 DEF IdleHandles
  <2>2. /\ Head(queue) = queue[1] /\ queue[1] \in Messages /\ 1 \in DOMAIN queue
        /\ DOMAIN queue' \subseteq Nat \ {0}
        /\ \A i \in DOMAIN queue' :
              i + 1 \in DOMAIN queue /\ queue'[i] = queue[i + 1]
    BY <2>1, Beheaded DEF MessageInv, MessageTypes
  <2>3. \/ Answer(queue[1]) /\ notifying' = NoCall
        \/ UNCHANGED answered /\ notifying' = queue[1]
    BY <1>2, <2>1, <2>2 DEF IdleHandles, HandleRegisterDevice, HandleDeregisterDevice,
                            HandleNotify
  <2> QED
    BY <1>1, <2>1, <2>2, <2>3
<1>3. CASE NotifyEnds
  BY <1>1, <1>3 DEF NotifyEnds, MessageInv, MessageTypes
<1>4. CASE IdleBegins \/ IdleEnds
  BY <1>1, <1>4 DEF IdleBegins, IdleEnds
<1> QED
  BY <1>2, <1>3, <1>4 DEF IdleProceeds

\* The call at the front of the queue is answered, or waits for a listener; the one
\* that waited is answered.
LEMMA IdleKeepsCalls ==
    ASSUME MessageInv, CallsInOrder, IdleProceeds
    PROVE  /\ CallsInOrder'
           /\ \A c \in Names : answered'[c] # answered[c] => answered'[c] > answered[c]
<1>1. UNCHANGED <<inbox, made>>
  BY IdleChanges
<1>2. /\ \A i \in DOMAIN inbox : inbox[i] \in Messages
      /\ \A i \in DOMAIN queue : queue[i] \in Messages
  BY ElementOfSeq DEF MessageInv, MessageTypes
<1>3. /\ \A i, j \in DOMAIN inbox' :
            i < j /\ Device(inbox'[i]) /\ Device(inbox'[j])
               => Before(inbox'[i], inbox'[j])
  BY <1>1 DEF CallsInOrder
<1>4. CASE UNCHANGED <<queue, notifying, answered>>
  BY <1>1, <1>4 DEF CallsInOrder, Waits
<1>5. ASSUME notifying = NoCall, queue' = Tail(queue),
             queue[1] \in Messages, 1 \in DOMAIN queue,
             DOMAIN queue' \subseteq Nat \ {0},
             \A i \in DOMAIN queue' : i + 1 \in DOMAIN queue /\ queue'[i] = queue[i + 1]
      PROVE  /\ Answer(queue[1]) /\ notifying' = NoCall =>
                   /\ CallsInOrder'
                   /\ \A c \in Names :
                         answered'[c] # answered[c] => answered'[c] > answered[c]
             /\ UNCHANGED answered /\ notifying' = queue[1] => CallsInOrder'
  <2>1. \A i \in DOMAIN queue' : 1 < i + 1
    BY <1>5
  <2>2. /\ \A i, j \in DOMAIN queue' : i < j => Before(queue'[i], queue'[j])
        /\ \A i \in DOMAIN queue', j \in DOMAIN inbox' :
              Device(inbox'[j]) => Before(queue'[i], inbox'[j])
    BY <1>1, <1>5 DEF CallsInOrder
  <2>3. /\ Waits(queue[1])
        /\ \A i \in DOMAIN queue' : Before(queue[1], queue'[i])
        /\ \A i \in DOMAIN inbox : Device(inbox[i]) => Before(queue[1], inbox[i])
    BY <1>5, <2>1 DEF CallsInOrder
  <2>4. ASSUME Answer(queue[1]), notifying' = NoCall
        PROVE  /\ CallsInOrder'
               /\ \A c \in Names :
                     answered'[c] # answered[c] => answered'[c] > answered[c]
    <3>1. /\ \A c \in Names : answered'[c] <= made'[c]
          /\ \A c \in Names : answered'[c] # answered[c] => answered'[c] > answered[c]
      BY <1>1, <1>5, <2>3, <2>4, AnswerIsNext
    <3>2. ASSUME NEW n \in Messages, Waits(n), Before(queue[1], n)
          PROVE  Waits(n)'
      BY <1>1, <1>5, <2>4, <3>2, AnswerLeavesLater
    <3>3. \A i \in DOMAIN queue' : Waits(queue[i])'
      <4> SUFFICES ASSUME NEW i \in DOMAIN queue'
                   PROVE  Waits(queue[i])'
        OBVIOUS
      <4>1. PICK n \in Messages : n = queue'[i] /\ Waits(n) /\ Before(queue[1], n)
        BY <1>2, <1>5, <2>3 DEF CallsInOrder
      <4>2. Waits(n)'
        BY <3>2, <4>1
      <4> QED
        BY <4>1, <4>2 DEF Waits
    <3>4. \A i \in DOMAIN inbox' : Device(inbox'[i]) => Waits(inbox[i])'
      <4> SUFFICES ASSUME NEW i \in DOMAIN inbox', Device(inbox'[i])
                   PROVE  Waits(inbox[i])'
        OBVIOUS
      <4>1. PICK n \in Messages : n = inbox'[i] /\ Waits(n) /\ Before(queue[1], n)
        BY <1>1, <1>2, <2>3 DEF CallsInOrder
      <4>2. Waits(n)'
        BY <3>2, <4>1
      <4> QED
        BY <4>1, <4>2 DEF Waits
    <3> QED
      BY <1>3, <2>2, <2>4, <3>1, <3>3, <3>4 DEF CallsInOrder
  <2>5. ASSUME UNCHANGED answered, notifying' = queue[1]
        PROVE  CallsInOrder'
    <3>1. Waits(notifying)'
      BY <1>1, <2>3, <2>5 DEF Waits
    <3>2. /\ \A i \in DOMAIN queue' : Waits(queue[i])'
          /\ \A i \in DOMAIN inbox' : Device(inbox'[i]) => Waits(inbox[i])'
          /\ \A c \in Names : answered'[c] <= made'[c]
      BY <1>1, <1>5, <2>5 DEF CallsInOrder, Waits
    <3> QED
      BY <1>1, <1>3, <2>2, <2>3, <2>5, <3>1, <3>2 DEF CallsInOrder
  <2> QED
    BY <2>4, <2>5
<1>6. ASSUME notifying # NoCall, notifying \in Messages, Answer(notifying),
             notifying' = NoCall, UNCHANGED queue
      PROVE  /\ CallsInOrder'
             /\ \A c \in Names : answered'[c] # answered[c] => answered'[c] > answered[c]
  <2>1. Waits(notifying)
    BY <1>6 DEF CallsInOrder
  <2>2. /\ \A c \in Names : answered'[c] <= made'[c]
        /\ \A c \in Names : answered'[c] # answered[c] => answered'[c] > answered[c]
    BY <1>1, <1>6, <2>1, AnswerIsNext
  <2>3. ASSUME NEW n \in Messages, Waits(n), Before(notifying, n)
        PROVE  Waits(n)'
    BY <1>1, <1>6, <2>3, AnswerLeavesLater
  <2>4. \A i \in DOMAIN queue' : Waits(queue[i])'
    <3> SUFFICES ASSUME NEW i \in DOMAIN queue'
                 PROVE  Waits(queue[i])'
      OBVIOUS
    <3>1. PICK n \in Messages : n = queue'[i] /\ Waits(n) /\ Before(notifying, n)
      BY <1>2, <1>6 DEF CallsInOrder
    <3>2. Waits(n)'
      BY <2>3, <3>1
    <3> QED
      BY <3>1, <3>2 DEF Waits
  <2>5. \A i \in DOMAIN inbox' : Device(inbox'[i]) => Waits(inbox[i])'
    <3> SUFFICES ASSUME NEW i \in DOMAIN inbox', Device(inbox'[i])
                 PROVE  Waits(inbox[i])'
      OBVIOUS
    <3>1. PICK n \in Messages : n = inbox'[i] /\ Waits(n) /\ Before(notifying, n)
      BY <1>1, <1>2, <1>6 DEF CallsInOrder
    <3>2. Waits(n)'
      BY <2>3, <3>1
    <3> QED
      BY <3>1, <3>2 DEF Waits
  <2> QED
    BY <1>1, <1>3, <1>6, <2>2, <2>4, <2>5 DEF CallsInOrder
<1> QED
  BY <1>4, <1>5, <1>6, IdleChanges

\* The order holds in every reachable state.
LEMMA StepKeepsCalls ==
    ASSUME MessageInv, CallsInOrder, [Next]_vars
    PROVE  /\ CallsInOrder'
           /\ \A c \in Names : answered'[c] # answered[c] => answered'[c] > answered[c]
<1>1. ASSUME UNCHANGED <<made, answered, notifying, queue, inbox>>
      PROVE  CallsInOrder'
  BY <1>1 DEF CallsInOrder, Waits
<1>2. ASSUME \/ Cleanup \/ TimerFires \/ CheckProceeds \/ XkbStateNotify
             \/ PointerChanges \/ UNCHANGED vars
      PROVE  UNCHANGED <<made, answered, notifying, queue, inbox>>
  BY <1>2, OthersKeepMessages DEF clientVars, queueVars
<1>3. ASSUME NEW c \in Names, Leave(c) \/ \E call \in Calls : Send(c, call)
      PROVE  CallsInOrder' /\ UNCHANGED answered
  BY <1>3, SendKeepsCalls, LeaveKeepsCalls DEF Send, Leave, queueVars
<1>4. ASSUME Dispatch
      PROVE  CallsInOrder' /\ UNCHANGED answered
  <2>1. UNCHANGED answered
    BY <1>4, FirstMessage
       DEF Handle, HandleEmbed, HandleRegisterEvent, HandleDeregisterEvent,
           HandleNameOwnerChanged, HandleDecMethod, queueVars
  <2> QED
    BY <1>4, <2>1, DispatchKeepsCalls
<1> QED
  BY <1>1, <1>2, <1>3, <1>4, IdleKeepsCalls DEF Next

\* No call is answered before one its client made earlier.
THEOREM CallsInvariant == Spec => []CallsInOrder
<1>1. Init => CallsInOrder
  <2> SUFFICES ASSUME Init PROVE CallsInOrder
    OBVIOUS
  <2>1. /\ made = [c \in Names |-> 0] /\ answered = [c \in Names |-> 0]
        /\ DOMAIN inbox = {} /\ DOMAIN queue = {} /\ notifying = NoCall
    BY DEF Init
  <2> QED
    BY <2>1 DEF CallsInOrder
<1>2. MessageInv /\ CallsInOrder /\ [Next]_vars => CallsInOrder'
  BY StepKeepsCalls
<1> QED
  BY <1>1, <1>2, MessageInvariant, PTL DEF Spec

\* The device calls of a client are answered in the order it made them: in the bus,
\* in the queue and while a listener holds up an answer, none overtakes another.
THEOREM AnswersOrdered == Spec => AnswersInOrder
<1>1. MessageInv /\ CallsInOrder /\ [Next]_vars
        => [\A c \in Names : answered'[c] # answered[c] => answered'[c] > answered[c]]_vars
  BY StepKeepsCalls
<1> QED
  BY <1>1, MessageInvariant, CallsInvariant, PTL DEF Spec, AnswersInOrder

\* Every variable has its type, a device call that waits has a callback coming for
\* it, and no callback runs in the middle of another.
THEOREM RegistrydConsistent == Spec => []Consistent
<1>1. MessageInv /\ RegistryInv /\ PollerInv /\ CallsInOrder => Consistent
  <2> SUFFICES ASSUME MessageInv, RegistryInv, PollerInv, CallsInOrder
               PROVE  Consistent
    OBVIOUS
  <2>1. Mouse!TypeOK
    BY SamePoller DEF PollerInv, MP!IInv
  <2>2. Reg!TypeOK
    BY SameRegistry DEF RegistryInv, RP!DesktopInv, RP!EventsInv, RP!TypeOK
  <2>3. ASSUME NEW c \in Names
        PROVE  made[c] \in 0..MaxCalls[c] /\ answered[c] \in 0..made[c]
    BY RegistrydAssumption DEF MessageInv, MessageTypes, CallsInOrder
  <2>4. TypeOK
    BY <2>1, <2>2, <2>3 DEF TypeOK, MessageInv, MessageTypes
  <2> QED
    BY <2>4 DEF Consistent, PollerInv, OneAtATime
<1> QED
  BY <1>1, MessageInvariant, RegistryInvariant, PollerInvariant, CallsInvariant, PTL

-----------------------------------------------------------------------------

(***************************************************************************)
(* The device listeners of those that left, when clients embed first.      *)
(***************************************************************************)

Embedded(c) == \E k \in DOMAIN apps : apps[k].name = c

\* Message j of the bus embeds client c.
EmbedsAt(j, c) == inbox[j].call = "Embed" /\ inbox[j].from = c

\* A client with a device listener, or a device call in the queue, is embedded until
\* its departure has been handled; one with a call in the bus is, or has its Embed
\* before that call.
ListenersEmbedded ==
    /\ \A c \in mouseListeners :
          c \in known \/ (Reg!Cleaning /\ c = cleanup.name) => Embedded(c)
    /\ \A i \in DOMAIN queue : queue[i].from \in known => Embedded(queue[i].from)
    /\ \A i \in DOMAIN inbox : Device(inbox[i]) =>
          \/ Embedded(inbox[i].from)
          \/ \E j \in DOMAIN inbox : j < i /\ EmbedsAt(j, inbox[i].from)
    /\ \A c \in online \cap embedded :
          Embedded(c) \/ \E j \in DOMAIN inbox : EmbedsAt(j, c)

\* No step takes away the application of a client that registryd still knows.
LEMMA KnownStayEmbedded ==
    ASSUME MessageInv, RegistryInv, RegistryInv', [Next]_vars,
           NEW c \in known, Embedded(c)
    PROVE  Embedded(c)'
<1>1. RP!DesktopInv /\ RP!Orderly /\ ~strayed'
  BY DEF RegistryInv, EmbedsOnce, RP!OrderlyInv
<1>2. \A k \in DOMAIN apps :
         apps[k].name \in known => \E l \in DOMAIN apps' : apps'[l] = apps[k]
  BY <1>1, StepIsRegistryStep, PartsAssumptions, RP!StepKeepsOrder
<1> QED
  BY <1>2 DEF Embedded

\* A client makes a device call only with its Embed on the way or handled.
LEMMA SendKeepsListeners ==
    ASSUME EmbedFirst, MessageInv, ListenersEmbedded,
           NEW c \in Names, NEW call \in Calls, Send(c, call)
    PROVE  ListenersEmbedded'
<1>1. /\ inbox' = Append(inbox, [from |-> c, call |-> call, number |-> made'[c]])
      /\ embedded' = IF call = "Embed" THEN embedded \cup {c} ELSE embedded
      /\ call \in DeviceCalls => c \in embedded /\ c \in online
      /\ UNCHANGED <<apps, cleanup, known, online, mouseListeners, queue>>
  BY DEF Send, queueVars, registryVars, mouseVars
<1>2. PICK message \in Messages : /\ message.from = c /\ message.call = call
                                  /\ inbox' = Append(inbox, message)
  <2>1. [from |-> c, call |-> call, number |-> made'[c]] \in Messages
    BY DEF Send, Messages, MessageInv, MessageTypes
  <2> QED
    BY <1>1, <2>1
<1>3. /\ Len(inbox) \in Nat /\ DOMAIN inbox = 1..Len(inbox)
      /\ DOMAIN inbox' = 1..(Len(inbox) + 1)
      /\ \A i \in DOMAIN inbox : inbox'[i] = inbox[i]
      /\ inbox'[Len(inbox) + 1] = message
  BY <1>2, Appended DEF MessageInv, MessageTypes
<1>4. \A d : Embedded(d)' <=> Embedded(d)
  BY <1>1 DEF Embedded
<1>5. \A d, j : j \in DOMAIN inbox => j \in DOMAIN inbox' /\ (EmbedsAt(j, d)' <=> EmbedsAt(j, d))
  BY <1>3 DEF EmbedsAt
<1>6. ASSUME NEW d \in online' \cap embedded'
      PROVE  Embedded(d)' \/ \E j \in DOMAIN inbox' : EmbedsAt(j, d)'
  <2>1. CASE d \in embedded
    BY <1>1, <1>4, <1>5, <1>6, <2>1 DEF ListenersEmbedded
  <2>2. CASE d \notin embedded
    <3>1. d = c /\ call = "Embed"
      BY <1>1, <1>6, <2>2
    <3>2. PICK last \in DOMAIN inbox' : inbox'[last] = message
      BY <1>3
    <3>3. EmbedsAt(last, d)'
      BY <1>2, <3>1, <3>2 DEF EmbedsAt
    <3> QED
      BY <3>3
  <2> QED
    BY <2>1, <2>2
<1>7. ASSUME NEW i \in DOMAIN inbox', Device(inbox'[i])
      PROVE  \/ Embedded(inbox[i].from)'
             \/ \E j \in DOMAIN inbox' : j < i /\ EmbedsAt(j, inbox[i].from)'
  <2>1. CASE i \in DOMAIN inbox
    <3>1. inbox'[i] = inbox[i]
      BY <1>3, <2>1
    <3>2. \/ Embedded(inbox[i].from)
          \/ \E j \in DOMAIN inbox : j < i /\ EmbedsAt(j, inbox[i].from)
      BY <1>7, <2>1, <3>1 DEF ListenersEmbedded
    <3>3. Embedded(inbox[i].from) => Embedded(inbox[i].from)'
      BY <1>1, <3>1 DEF Embedded
    <3>4. \A j \in DOMAIN inbox : EmbedsAt(j, inbox[i].from)
             => j \in DOMAIN inbox' /\ EmbedsAt(j, inbox[i].from)'
      BY <1>3, <3>1 DEF EmbedsAt
    <3> QED
      BY <3>2, <3>3, <3>4
  <2>2. CASE i \notin DOMAIN inbox
    <3>1. i = Len(inbox) + 1 /\ inbox'[i] = message
      BY <1>3, <1>7, <2>2
    <3>2. c \in online \cap embedded
      BY <1>1, <1>2, <1>7, <3>1 DEF Device
    <3>3. Embedded(c) \/ \E j \in DOMAIN inbox : EmbedsAt(j, c)
      BY <3>2 DEF ListenersEmbedded
    <3>4. Embedded(c) => Embedded(inbox[i].from)'
      BY <1>1, <1>2, <3>1 DEF Embedded
    <3>5. \A j \in DOMAIN inbox : EmbedsAt(j, c)
             => j \in DOMAIN inbox' /\ j < i /\ EmbedsAt(j, inbox[i].from)'
      BY <1>2, <1>3, <3>1 DEF EmbedsAt
    <3> QED
      BY <3>3, <3>4, <3>5
  <2> QED
    BY <2>1, <2>2
<1>8. /\ \A d \in mouseListeners' :
            d \in known' \/ (Reg!Cleaning' /\ d = cleanup'.name) => Embedded(d)'
      /\ \A i \in DOMAIN queue' : queue'[i].from \in known' => Embedded(queue[i].from)'
  BY <1>1 DEF ListenersEmbedded, Embedded, Reg!Cleaning, Reg!NoCleanup
<1> QED
  BY <1>6, <1>7, <1>8 DEF ListenersEmbedded

\* A client that leaves makes no further call.
LEMMA LeaveKeepsListeners ==
    ASSUME MessageInv, ListenersEmbedded, NEW c \in Names, Leave(c)
    PROVE  ListenersEmbedded'
<1>1. /\ inbox' = Append(inbox, [from |-> c, call |-> "NameOwnerChanged",
                                 number |-> made[c]])
      /\ online' \subseteq online
      /\ UNCHANGED <<apps, cleanup, known, embedded, mouseListeners, queue>>
  BY DEF Leave, queueVars, registryVars, mouseVars
<1>2. PICK message \in Messages : /\ ~Device(message)
                                  /\ inbox' = Append(inbox, message)
  <2>1. [from |-> c, call |-> "NameOwnerChanged", number |-> made[c]] \in Messages
    BY DEF Messages, MessageInv, MessageTypes
  <2> QED
    BY <1>1, <2>1 DEF Device, DeviceCalls
<1>3. /\ Len(inbox) \in Nat /\ DOMAIN inbox = 1..Len(inbox)
      /\ DOMAIN inbox' = 1..(Len(inbox) + 1)
      /\ \A i \in DOMAIN inbox : inbox'[i] = inbox[i]
      /\ inbox'[Len(inbox) + 1] = message
  BY <1>2, Appended DEF MessageInv, MessageTypes
<1>4. ASSUME NEW i \in DOMAIN inbox', Device(inbox'[i])
      PROVE  i \in DOMAIN inbox /\ inbox'[i] = inbox[i]
  BY <1>2, <1>3, <1>4
<1> QED
  BY <1>1, <1>3, <1>4
     DEF ListenersEmbedded, Embedded, EmbedsAt, Reg!Cleaning, Reg!NoCleanup

\* A device call comes into the queue after its client was embedded; an Embed that
\* leaves the bus has embedded its client.
LEMMA DispatchKeepsListeners ==
    ASSUME MessageInv, RegistryInv, RegistryInv', ListenersEmbedded, Dispatch
    PROVE  ListenersEmbedded'
<1>1. /\ inbox' = Tail(inbox) /\ Handle(inbox[1])
      /\ 1 \in DOMAIN inbox /\ inbox[1] \in Messages /\ inbox[1].from \in known
      /\ DOMAIN inbox' = 1..(Len(inbox) - 1) /\ DOMAIN inbox = 1..Len(inbox)
      /\ Len(inbox) \in Nat
      /\ \A i \in DOMAIN inbox' : i + 1 \in DOMAIN inbox /\ inbox'[i] = inbox[i + 1]
      /\ UNCHANGED <<online, embedded>>
  BY FirstMessage
<1>2. UNCHANGED mouseListeners /\ ~Reg!Cleaning
  BY <1>1 DEF Handle, HandleEmbed, HandleRegisterEvent, HandleDeregisterEvent,
              HandleNameOwnerChanged, HandleDecMethod, mouseVars, Dispatch,
              BusDispatch, Reg!Ready
<1>3. ASSUME NEW c \in known, Embedded(c)
      PROVE  Embedded(c)'
  <2>1. [Next]_vars
    BY DEF Next
  <2> QED
    BY <1>3, <2>1, KnownStayEmbedded
<1>4. ASSUME NEW c, EmbedsAt(1, c)
      PROVE  Embedded(c)'
  <2>1. HandleEmbed(c)
    BY <1>1, <1>4 DEF Handle, EmbedsAt, DeviceCalls
  <2>2. apps' = Append(apps, [name |-> c, path |-> "root"])
    BY <2>1 DEF HandleEmbed, Reg!Embed
  <2>3. apps \in Seq(RP!Refs) /\ [name |-> c, path |-> "root"] \in RP!Refs
    BY <1>1, <1>4, MessageFields DEF RegistryInv, RP!DesktopInv, RP!Refs, EmbedsAt
  <2>4. Len(apps) + 1 \in DOMAIN apps' /\ apps'[Len(apps) + 1].name = c
    BY <2>2, <2>3, Appended
  <2> QED
    BY <2>4 DEF Embedded
<1>5. ASSUME NEW c \in known, NEW j \in DOMAIN inbox, EmbedsAt(j, c)
      PROVE  \/ Embedded(c)'
             \/ j - 1 \in DOMAIN inbox' /\ inbox'[j - 1].call = "Embed"
                  /\ inbox'[j - 1].from = c
  <2>1. CASE j = 1
    BY <1>4, <1>5, <2>1
  <2>2. CASE j # 1
    <3>1. j - 1 \in DOMAIN inbox' /\ j - 1 + 1 = j
      BY <1>1, <2>2
    <3> QED
      BY <1>1, <1>5, <3>1 DEF EmbedsAt
  <2> QED
    BY <2>1, <2>2
<1>6. known' \subseteq known /\ \A c \in known : c \in known' \/ c = inbox[1].from
  BY <1>1 DEF Handle, HandleEmbed, HandleRegisterEvent, HandleDeregisterEvent,
              HandleNameOwnerChanged, HandleDecMethod, registryVars
<1>7. Reg!Cleaning' => cleanup'.name \in known
  <2>1. ASSUME NEW c, HandleNameOwnerChanged(c)
        PROVE  cleanup'.name = c
    BY <2>1 DEF HandleNameOwnerChanged, Reg!NameOwnerChanged
  <2>2. HandleNameOwnerChanged(inbox[1].from) \/ UNCHANGED cleanup
    BY <1>1 DEF Handle, HandleEmbed, HandleRegisterEvent, HandleDeregisterEvent,
                HandleDecMethod, registryVars
  <2> QED
    BY <1>1, <1>2, <2>1, <2>2 DEF Reg!Cleaning, Reg!NoCleanup
<1>8. \A c \in mouseListeners' :
         c \in known' \/ (Reg!Cleaning' /\ c = cleanup'.name) => Embedded(c)'
  BY <1>2, <1>3, <1>6, <1>7 DEF ListenersEmbedded
<1>9. \A i \in DOMAIN queue' : queue'[i].from \in known' => Embedded(queue[i].from)'
  <2> SUFFICES ASSUME NEW i \in DOMAIN queue', queue'[i].from \in known'
               PROVE  \E c \in known : c = queue'[i].from /\ Embedded(c)
    BY <1>3 DEF Embedded
  <2>1. CASE UNCHANGED queue
    BY <1>6, <2>1 DEF ListenersEmbedded
  <2>2. CASE HandleDecMethod(inbox[1]) /\ Device(inbox[1])
    <3>1. queue' = Append(queue, inbox[1])
      BY <2>2 DEF HandleDecMethod
    <3>2. (i \in DOMAIN queue /\ queue'[i] = queue[i]) \/ queue'[i] = inbox[1]
      BY <1>1, <3>1, Appended DEF MessageInv, MessageTypes
    <3>3. Embedded(inbox[1].from)
      <4>1. \A j \in DOMAIN inbox : ~(j < 1)
        BY <1>1
      <4> QED
        BY <1>1, <2>2, <4>1 DEF ListenersEmbedded
    <3> QED
      BY <1>1, <1>6, <3>2, <3>3 DEF ListenersEmbedded
  <2> QED
    BY <1>1, <2>1, <2>2
       DEF Handle, HandleEmbed, HandleRegisterEvent, HandleDeregisterEvent,
           HandleNameOwnerChanged, queueVars, Device
<1>10. \A i \in DOMAIN inbox' : Device(inbox'[i]) =>
          \/ Embedded(inbox[i].from)'
          \/ \E j \in DOMAIN inbox' : j < i /\ EmbedsAt(j, inbox[i].from)'
  <2> SUFFICES ASSUME NEW i \in DOMAIN inbox', Device(inbox'[i])
               PROVE  \E c : /\ c = inbox'[i].from
                             /\ \/ Embedded(c)'
                                \/ \E j \in DOMAIN inbox' :
                                      j < i /\ inbox'[j].call = "Embed"
                                        /\ inbox'[j].from = c
    BY DEF Embedded, EmbedsAt
  <2>1. i + 1 \in DOMAIN inbox /\ inbox'[i] = inbox[i + 1] /\ i \in Nat
    BY <1>1
  <2>2. PICK c \in known : c = inbox'[i].from
    BY <2>1 DEF MessageInv, DeparturesLast
  <2>3. \/ Embedded(c)
        \/ \E j \in DOMAIN inbox : j < i + 1 /\ EmbedsAt(j, c)
    BY <2>1, <2>2 DEF ListenersEmbedded
  <2>4. CASE Embedded(c)
    BY <1>3, <2>2, <2>4
  <2>5. ASSUME NEW j \in DOMAIN inbox, j < i + 1, EmbedsAt(j, c)
        PROVE  \/ Embedded(c)'
               \/ \E k \in DOMAIN inbox' : k < i /\ inbox'[k].call = "Embed"
                                             /\ inbox'[k].from = c
    <3>1. j - 1 < i
      BY <1>1, <2>1, <2>5
    <3> QED
      BY <1>5, <2>5, <3>1
  <2> QED
    BY <2>2, <2>3, <2>4, <2>5
<1>11. \A c \in online' \cap embedded' :
          Embedded(c)' \/ \E j \in DOMAIN inbox' : EmbedsAt(j, c)'
  <2> SUFFICES ASSUME NEW c \in online \cap embedded
               PROVE  Embedded(c)' \/ \E j \in DOMAIN inbox' : EmbedsAt(j, c)'
    BY <1>1
  <2>1. c \in known
    BY DEF MessageInv, MessageTypes
  <2>2. CASE Embedded(c)
    BY <1>3, <2>1, <2>2
  <2>3. ASSUME NEW j \in DOMAIN inbox, EmbedsAt(j, c)
        PROVE  Embedded(c)' \/ \E k \in DOMAIN inbox' : EmbedsAt(k, c)'
    <3>1. \/ Embedded(c)'
          \/ \E k \in DOMAIN inbox' : inbox'[k].call = "Embed" /\ inbox'[k].from = c
      BY <1>5, <2>1, <2>3
    <3> QED
      BY <3>1 DEF EmbedsAt
  <2> QED
    BY <2>2, <2>3 DEF ListenersEmbedded
<1> QED
  BY <1>8, <1>9, <1>10, <1>11 DEF ListenersEmbedded

\* What a step of the cleanup is about.
LEMMA CleanupOrder ==
    ASSUME RegistryInv, Cleanup
    PROVE  /\ cleanup \in RP!Cleanups /\ ~cleanup.again /\ Reg!Cleaning
           /\ \A k \in DOMAIN apps : apps[k].name = cleanup.name => k > cleanup.at
           /\ RP!CleanupSkips \/ RP!CleanupRemoves \/ RP!CleanupEnds
<1>1. RP!CleanupProceeds /\ RP!Cleaning /\ Reg!Cleaning
  BY SameRegistry DEF Cleanup, RP!CleanupProceeds
<1>2. RP!Orderly /\ RP!DesktopInv
  BY DEF RegistryInv, EmbedsOnce, RP!OrderlyInv
<1>3. /\ cleanup \in RP!Cleanups /\ ~cleanup.again
      /\ \A k \in DOMAIN apps : apps[k].name = cleanup.name => k > cleanup.at
  BY <1>1, <1>2 DEF RP!Orderly, RP!DesktopInv, RP!Cleaning
<1>4. ~RP!CleanupCrashes
  BY <1>3 DEF RP!CleanupCrashes
<1> QED
  BY <1>1, <1>3, <1>4 DEF RP!CleanupProceeds

\* The device listeners go with the application.
LEMMA CleanupKeepsListeners ==
    ASSUME MessageInv, RegistryInv, RegistryInv', ListenersEmbedded, Cleanup
    PROVE  ListenersEmbedded'
<1>1. /\ UNCHANGED <<online, embedded, inbox, queue, known>>
  BY OthersKeepMessages DEF clientVars, queueVars
<1>2. ASSUME NEW c \in known, Embedded(c)
      PROVE  Embedded(c)'
  <2>1. [Next]_vars
    BY DEF Next
  <2> QED
    BY <1>2, <2>1, KnownStayEmbedded
<1>3. \A c \in mouseListeners' :
         c \in known' \/ (Reg!Cleaning' /\ c = cleanup'.name) => Embedded(c)'
  <2> SUFFICES ASSUME NEW c \in mouseListeners', Reg!Cleaning', c = cleanup'.name
               PROVE  Embedded(c)'
    <3>1. mouseListeners' \subseteq mouseListeners
      BY DEF Cleanup, Mouse!RemoveMouseListenersOf, Mouse!DropListeners
    <3> QED
      BY <1>1, <1>2, <3>1 DEF ListenersEmbedded
  <2>1. CASE RP!CleanupEnds
    BY <2>1 DEF RP!CleanupEnds, RP!NoCleanup, Reg!Cleaning, Reg!NoCleanup
  <2>2. CASE RP!CleanupSkips
    <3>1. UNCHANGED apps /\ cleanup'.name = cleanup.name
      BY <2>2, CleanupOrder DEF RP!CleanupSkips, RP!appVars, RP!Cleanups
    <3>2. UNCHANGED mouseListeners
      BY <3>1 DEF Cleanup
    <3>3. Embedded(c)
      BY <3>1, <3>2, CleanupOrder DEF ListenersEmbedded
    <3> QED
      BY <3>1, <3>3 DEF Embedded
  <2>3. CASE RP!CleanupRemoves
    <3>1. /\ cleanup.at < Len(apps) /\ apps[cleanup.at + 1].name = cleanup.name
          /\ apps' = RP!RemovedAt(apps, cleanup.at)
      BY <2>3, CleanupOrder DEF RP!CleanupRemoves, RP!RemoveApplication
    <3>2. /\ cleanup.at \in 0..(Len(apps) - 1) /\ Len(apps) \in Nat
          /\ apps \in Seq(RP!Refs)
      BY <3>1, CleanupOrder, LenProperties DEF RegistryInv, RP!DesktopInv, RP!Cleanups
    <3>3. apps' # apps
      <4>1. Len(apps') = Len(apps) - 1
        BY <3>1, <3>2, PartsAssumptions, RP!RemovedAtProperties
      <4> QED
        BY <3>2, <4>1
    <3>4. cleanup.name \notin mouseListeners'
      <4>1. Mouse!RemoveMouseListenersOf(cleanup.name)
        BY <3>1, <3>3 DEF Cleanup
      <4>2. mouseListeners \subseteq Names \/ cleanup.name \in Names
        BY CleanupOrder DEF RP!Cleanups
      <4>3. cleanup.name \in mouseListeners =>
               cleanup.name \in {l \in mouseListeners : [d \in Names |-> d][l] = cleanup.name}
        BY <4>2, CleanupOrder DEF RP!Cleanups
      <4> QED
        BY <4>1, <4>3 DEF Mouse!RemoveMouseListenersOf, Mouse!DropListeners
    <3>5. cleanup'.name = cleanup.name
      BY <2>3, CleanupOrder DEF RP!CleanupRemoves, RP!Cleanups
    <3> QED
      BY <3>4, <3>5
  <2> QED
    BY <2>1, <2>2, <2>3, CleanupOrder
<1>4. \A i \in DOMAIN queue' : queue'[i].from \in known' => Embedded(queue[i].from)'
  <2> SUFFICES ASSUME NEW i \in DOMAIN queue, queue[i].from \in known
               PROVE  \E c : c = queue'[i].from /\ Embedded(c)'
    BY <1>1 DEF Embedded
  <2>1. Embedded(queue[i].from)
    BY DEF ListenersEmbedded
  <2>2. PICK c \in known : c = queue[i].from
    OBVIOUS
  <2> QED
    BY <1>1, <1>2, <2>1, <2>2
<1>5. \A i \in DOMAIN inbox' : Device(inbox'[i]) =>
         \/ Embedded(inbox[i].from)'
         \/ \E j \in DOMAIN inbox' : j < i /\ EmbedsAt(j, inbox[i].from)'
  <2> SUFFICES ASSUME NEW i \in DOMAIN inbox, Device(inbox[i])
               PROVE  \E c : /\ c = inbox[i].from
                             /\ \/ Embedded(c)'
                                \/ \E j \in DOMAIN inbox : j < i /\ EmbedsAt(j, c)
    BY <1>1 DEF Embedded, EmbedsAt
  <2>1. PICK c \in known : c = inbox[i].from
    BY DEF MessageInv, DeparturesLast
  <2> QED
    BY <1>2, <2>1 DEF ListenersEmbedded
<1>6. \A c \in online' \cap embedded' :
         Embedded(c)' \/ \E j \in DOMAIN inbox' : EmbedsAt(j, c)'
  <2> SUFFICES ASSUME NEW c \in online \cap embedded
               PROVE  Embedded(c)' \/ \E j \in DOMAIN inbox : EmbedsAt(j, c)
    BY <1>1 DEF EmbedsAt
  <2>1. c \in known
    BY DEF MessageInv, MessageTypes
  <2> QED
    BY <1>2, <2>1 DEF ListenersEmbedded
<1> QED
  BY <1>3, <1>4, <1>5, <1>6 DEF ListenersEmbedded

\* A device listener registered from the queue is that of an embedded client, or of
\* one whose departure has been handled.
LEMMA IdleKeepsListeners ==
    ASSUME MessageInv, ListenersEmbedded, IdleProceeds
    PROVE  ListenersEmbedded'
<1>1. /\ UNCHANGED <<online, embedded, inbox, known, apps, cleanup>>
      /\ ~Reg!Cleaning
  BY DEF IdleProceeds, IdleBegins, IdleHandles, NotifyEnds, IdleEnds, MainLoop,
         clientVars, registryVars, Reg!Ready
<1>2. \A c : Embedded(c)' <=> Embedded(c)
  BY <1>1 DEF Embedded
<1>3. \A i \in DOMAIN queue' :
         \E j \in DOMAIN queue : queue'[i] = queue[j]
  <2>1. UNCHANGED queue \/ (queue # <<>> /\ queue' = Tail(queue))
    BY IdleChanges
  <2>2. CASE queue # <<>> /\ queue' = Tail(queue)
    <3>1. \A i \in DOMAIN Tail(queue) : i + 1 \in DOMAIN queue /\ Tail(queue)[i] = queue[i + 1]
      BY <2>2, Beheaded, Zenon DEF MessageInv, MessageTypes
    <3> QED
      BY <2>2, <3>1, Zenon
  <2> QED
    BY <2>1, <2>2
<1>4. ASSUME NEW c \in mouseListeners', c \in known
      PROVE  Embedded(c)
  <2>1. CASE c \in mouseListeners
    BY <1>4, <2>1 DEF ListenersEmbedded
  <2>2. CASE c \notin mouseListeners
    <3>1. IdleHandles /\ c = Head(queue).from
      BY <1>4, <2>2
         DEF IdleProceeds, IdleBegins, IdleHandles, NotifyEnds, IdleEnds, mouseVars,
             HandleRegisterDevice, HandleDeregisterDevice, HandleNotify,
             Mouse!RegisterMouseListener, Mouse!DeregisterMouseListener,
             Mouse!DropListeners
    <3>2. 1 \in DOMAIN queue /\ Head(queue) = queue[1]
      BY <3>1, Beheaded DEF IdleHandles, MessageInv, MessageTypes
    <3> QED
      BY <1>4, <3>1, <3>2 DEF ListenersEmbedded
  <2> QED
    BY <2>1, <2>2
<1>5. ~Reg!Cleaning'
  BY <1>1 DEF Reg!Cleaning, Reg!NoCleanup
<1>6. \A i \in DOMAIN queue' : queue'[i].from \in known' => Embedded(queue[i].from)'
  <2> SUFFICES ASSUME NEW i \in DOMAIN queue', queue'[i].from \in known
               PROVE  Embedded(queue[i].from)'
    BY <1>1
  <2>1. PICK j \in DOMAIN queue : queue'[i] = queue[j]
    BY <1>3
  <2>2. Embedded(queue[j].from)
    BY <2>1 DEF ListenersEmbedded
  <2> QED
    BY <1>1, <2>1, <2>2 DEF Embedded
<1>7. /\ \A i \in DOMAIN inbox' : Device(inbox'[i]) =>
            \/ Embedded(inbox[i].from)'
            \/ \E j \in DOMAIN inbox' : j < i /\ EmbedsAt(j, inbox[i].from)'
      /\ \A c \in online' \cap embedded' :
            Embedded(c)' \/ \E j \in DOMAIN inbox' : EmbedsAt(j, c)'
  BY <1>1 DEF ListenersEmbedded, Embedded, EmbedsAt
<1> QED
  BY <1>1, <1>2, <1>4, <1>5, <1>6, <1>7 DEF ListenersEmbedded

\* With clients that embed first, only they have device listeners.
LEMMA StepKeepsListeners ==
    ASSUME EmbedFirst, MessageInv, RegistryInv, RegistryInv', ListenersEmbedded,
           [Next]_vars
    PROVE  ListenersEmbedded'
<1>1. ASSUME UNCHANGED <<online, embedded, inbox, queue, known, apps, cleanup,
                         mouseListeners>>
      PROVE  ListenersEmbedded'
  BY <1>1 DEF ListenersEmbedded, Embedded, EmbedsAt, Reg!Cleaning, Reg!NoCleanup
<1>2. ASSUME TimerFires \/ CheckProceeds \/ XkbStateNotify \/ PointerChanges
      PROVE  ListenersEmbedded'
  <2>1. UNCHANGED <<online, embedded, inbox, queue, known, apps, cleanup>>
    BY <1>2 DEF TimerFires, CheckProceeds, XkbStateNotify, PointerChanges, otherVars,
                clientVars, queueVars, registryVars
  <2>2. UNCHANGED mouseListeners
    BY <1>2 DEF TimerFires, CheckProceeds, XkbStateNotify, PointerChanges,
                Mouse!TimerFires, Mouse!TimerTicks, Mouse!TimerDies,
                Mouse!BeginCheck, Mouse!XkbStateNotify, Mouse!PointerChanges,
                Mouse!CheckProceeds, Mouse!ReportButton, Mouse!ListenerAnswers,
                Mouse!EndCheck, Mouse!pollVars
  <2> QED
    BY <1>1, <2>1, <2>2
<1>3. UNCHANGED vars => ListenersEmbedded'
  BY <1>1 DEF vars, clientVars, queueVars, registryVars, mouseVars
<1>4. ASSUME NEW c \in Names, Leave(c) \/ \E call \in Calls : Send(c, call)
      PROVE  ListenersEmbedded'
  BY <1>4, SendKeepsListeners, LeaveKeepsListeners
<1> QED
  BY <1>2, <1>3, <1>4, DispatchKeepsListeners, CleanupKeepsListeners,
     IdleKeepsListeners DEF Next

\* When the departure of an application has been handled, in the middle of whatever
\* it was, none of its device listeners is left.
THEOREM DepartureCleans == EmbedFirst => (Spec => DepartureCleansListeners)
<1> SUFFICES ASSUME EmbedFirst
             PROVE  Spec => DepartureCleansListeners
  OBVIOUS
<1>1. Init => ListenersEmbedded
  <2> SUFFICES ASSUME Init PROVE ListenersEmbedded
    OBVIOUS
  <2>1. mouseListeners = {} /\ DOMAIN inbox = {} /\ DOMAIN queue = {} /\ embedded = {}
    BY DEF Init, Mouse!Init
  <2> QED
    BY <2>1 DEF ListenersEmbedded
<1>2. MessageInv /\ RegistryInv /\ RegistryInv' /\ ListenersEmbedded /\ [Next]_vars
         => ListenersEmbedded'
  BY StepKeepsListeners
<1>3. MessageInv /\ RegistryInv /\ ListenersEmbedded /\ [Next]_vars
         => [cleanup # Reg!NoCleanup /\ cleanup' = Reg!NoCleanup
                => cleanup.name \notin mouseListeners']_vars
  <2> SUFFICES ASSUME MessageInv, RegistryInv, ListenersEmbedded, Next,
                      cleanup # Reg!NoCleanup, cleanup' = Reg!NoCleanup
               PROVE  cleanup.name \notin mouseListeners'
    OBVIOUS
  <2>1. Cleanup
    <3>1. Reg!Cleaning
      BY DEF Reg!Cleaning
    <3>2. ~Dispatch /\ ~IdleProceeds /\ ~TimerFires /\ ~CheckProceeds /\ ~XkbStateNotify
      BY <3>1 DEF Dispatch, BusDispatch, IdleProceeds, IdleBegins, IdleHandles,
                  NotifyEnds, IdleEnds, TimerFires, CheckProceeds, XkbStateNotify,
                  MainLoop, Reg!Ready
    <3>3. ASSUME NEW c \in Names, Leave(c) \/ \E call \in Calls : Send(c, call)
          PROVE  UNCHANGED cleanup
      BY <3>3 DEF Leave, Send, registryVars
    <3>4. PointerChanges => UNCHANGED cleanup
      BY DEF PointerChanges, otherVars, registryVars
    <3> QED
      BY <3>2, <3>3, <3>4 DEF Next
  <2>2. RP!CleanupEnds
    <3>1. RP!CleanupSkips => cleanup'.at = cleanup.at + 1 /\ cleanup'.name = cleanup.name
      BY <2>1, CleanupOrder DEF RP!CleanupSkips, RP!Cleanups
    <3>2. RP!CleanupSkips \/ RP!CleanupRemoves => cleanup' \in RP!Cleanups
      <4>1. RP!CleanupSkips => cleanup' \in RP!Cleanups
        BY <2>1, CleanupOrder DEF RP!CleanupSkips, RP!Cleanups
      <4>2. ASSUME RP!CleanupRemoves
            PROVE  cleanup' \in RP!Cleanups
        <5>1. cleanup' = [cleanup EXCEPT !.again = FALSE, !.at = cleanup.at + 1]
          BY <4>2 DEF RP!CleanupRemoves
        <5>2. cleanup \in RP!Cleanups /\ cleanup.at + 1 \in Nat
          BY <2>1, CleanupOrder DEF RP!Cleanups
        <5> QED
          BY <5>1, <5>2 DEF RP!Cleanups
      <4> QED
        BY <4>1, <4>2
    <3>3. Reg!NoCleanup \notin RP!Cleanups
      BY DEF Reg!NoCleanup, RP!Cleanups
    <3> QED
      BY <2>1, <3>2, <3>3, CleanupOrder
  <2>3. UNCHANGED apps /\ cleanup.at >= Len(apps)
    BY <2>2 DEF RP!CleanupEnds, RP!appVars
  <2>4. UNCHANGED mouseListeners
    BY <2>1, <2>3 DEF Cleanup
  <2>5. ASSUME cleanup.name \in mouseListeners
        PROVE  FALSE
    <3>1. PICK k \in DOMAIN apps : apps[k].name = cleanup.name
      BY <2>1, <2>5, CleanupOrder DEF ListenersEmbedded, Embedded
    <3>2. k > cleanup.at /\ k <= Len(apps) /\ k \in Nat /\ Len(apps) \in Nat
      BY <2>1, <3>1, CleanupOrder, LenProperties DEF RegistryInv, RP!DesktopInv
    <3> QED
      BY <2>1, <2>3, <3>2, CleanupOrder DEF RP!Cleanups
  <2> QED
    BY <2>4, <2>5
<1> QED
  BY <1>1, <1>2, <1>3, MessageInvariant, RegistryInvariant, PTL
     DEF Spec, DepartureCleansListeners
=============================================================================
