------------------------------ MODULE Clipboard ------------------------------
(***************************************************************************)
(* The X selection CLIPBOARD and Android's clipboard kept in step          *)
(* (clipboard.c, the clipboard events of cmdentrypoint.c and activity.c,   *)
(* LorieView.java).                                                        *)
(*                                                                         *)
(* A copy on Android is announced; the server then owns CLIPBOARD and asks *)
(* for the text only when an X client pastes.  A copy in X makes the       *)
(* server ask the owner for its targets and then for its text, which goes  *)
(* to Android at once.  Texts are numbered by copy.  The conversions       *)
(* between UTF-8 and Latin-1 are in TextConversion.                        *)
(***************************************************************************)
EXTENDS Integers, Sequences, FiniteSets

CONSTANTS
  Clients,      \* X clients
  Kinds,        \* what an X owner may offer: see Convertible
  MaxCopies,    \* bound on copies, on both sides together
  MaxPastes,    \* bound on conversion requests of X clients
  MaxFocus,     \* bound on focus changes
  MaxToggles,   \* bound on changes of the preference
  MaxDrops      \* bound on lost connections

\* What an owner offers is UTF-8 text, Latin-1 text, an image, or broken UTF-8.
AllKinds == {"UTF8", "STRING", "IMAGE", "BROKEN"}

ASSUME ClipboardAssumption ==
  /\ {MaxCopies, MaxPastes, MaxFocus, MaxToggles, MaxDrops} \subseteq Nat
  /\ Kinds \subseteq AllKinds
  /\ "server" \notin Clients /\ "nobody" \notin Clients

NoText == 0     \* a clipboard without text, cachedData = NULL
Empty == -1     \* the empty answer of an activity whose synchronisation is off
Texts == 1..MaxCopies

VARIABLES
  made, pastes, focused, toggled, drops,
  conn,                     \* are both processes connected?
  clip, fresh,              \* Android's text; is it newer than lastClipboardTimestamp?
  sync, listening,          \* clipboardSyncEnabled; is clipboardListener registered?
  history,                  \* the texts Android has had
  up, down,                 \* events on the socket, to the server and to the activity
  enabled, work,            \* clipboardEnabled; work queue
  owner, cached, targets,   \* CLIPBOARD's owner, cachedData, lorieDataTargetHead
  announced,                \* Len(history) when the last announcement handled was sent
  own, asked, replying,     \* X clients: their text, requests to them, reply under way
  prop,                     \* properties of the root window, by target
  got,                      \* X clients: the outcome of their last paste
  calm                      \* history: no copy met another one, no connection or switch changed

bounds == <<made, pastes, focused, toggled, drops>>
android == <<clip, fresh, history>>
settings == <<sync, listening, conn, calm>>
server == <<owner, cached, targets, announced>>
xclients == <<own, asked, replying, prop>>
vars == <<bounds, android, settings, up, down, enabled, work, server, xclients, got>>

Blank == [text |-> NoText, kind |-> "IMAGE"]
Selection == [text : Texts \cup {NoText}, kind : AllKinds]

Init ==
  /\ made = 0 /\ pastes = 0 /\ focused = 0 /\ toggled = 0 /\ drops = 0
  /\ conn = TRUE /\ sync = TRUE /\ listening = TRUE /\ enabled = TRUE
  /\ clip = NoText /\ fresh = FALSE /\ history = <<>>
  /\ up = <<>> /\ down = <<>> /\ work = <<>>
  /\ owner = "nobody" /\ cached = NoText /\ targets = <<>> /\ announced = 0
  /\ own = [c \in Clients |-> Blank]
  /\ asked = [c \in Clients |-> <<>>] /\ replying = [c \in Clients |-> "no"]
  /\ prop = [t \in {"TARGETS", "UTF8", "STRING"} |-> Blank]
  /\ got = [c \in Clients |-> "none"] /\ calm = TRUE

\* Nothing of an earlier copy is under way.
Quiet ==
  /\ up = <<>> /\ down = <<>> /\ work = <<>> /\ targets = <<>>
  /\ \A c \in Clients : asked[c] = <<>> /\ replying[c] = "no"

\* An event written to the socket is lost with the connection, or not written without one.
Written(q, e) == IF conn THEN Append(q, e) ELSE q
-----------------------------------------------------------------------------
(* Activity *)

\* The user copies a text, or something else, in an Android application.
CopyOnAndroid(isText) ==
  /\ made < MaxCopies /\ made' = made + 1
  /\ clip' = IF isText THEN made + 1 ELSE NoText
  /\ history' = Append(history, clip')
  /\ fresh' = TRUE
  /\ calm' = (calm /\ Quiet)
  /\ UNCHANGED <<pastes, focused, toggled, drops, sync, listening, conn, up, down, enabled, work, server, xclients, got>>

\* checkForClipboardChange
Announce ==
  IF sync /\ fresh /\ clip # NoText
  THEN /\ fresh' = FALSE
       /\ up' = Written(up, [type |-> "ANNOUNCE", stamp |-> Len(history)])
  ELSE UNCHANGED <<fresh, up>>

\* The listener's callback.
handleClipboardChange ==
  /\ listening /\ sync /\ fresh /\ clip # NoText
  /\ Announce
  /\ UNCHANGED <<bounds, clip, history, settings, down, enabled, work, server, xclients, got>>

onWindowFocusChanged(hasFocus) ==
  /\ focused < MaxFocus /\ focused' = focused + 1
  /\ listening' = (sync /\ hasFocus)
  /\ IF listening' THEN Announce ELSE UNCHANGED <<fresh, up>>
  /\ UNCHANGED <<made, pastes, toggled, drops, clip, history, sync, conn, calm, down, enabled, work, server, xclients,
                 got>>

\* The preference for clipboard synchronisation changes.
reloadPreferences ==
  /\ toggled < MaxToggles /\ toggled' = toggled + 1
  /\ sync' = ~sync
  /\ up' = Written(up, [type |-> "ENABLE", on |-> sync'])
  /\ calm' = FALSE
  /\ UNCHANGED <<made, pastes, focused, drops, android, listening, conn, down, enabled, work, server, xclients, got>>

\* Mutant: the activity does not test whether there is a text.
RequestUnchecked ==
  /\ down # <<>> /\ Head(down).type = "REQUEST"
  /\ down' = Tail(down)
  /\ up' = Written(up, [type |-> "SEND", text |-> IF sync THEN clip ELSE Empty])
  /\ UNCHANGED <<bounds, android, settings, enabled, work, server, xclients, got>>

requestClipboard ==
  /\ down # <<>> /\ Head(down).type = "REQUEST"
  /\ down' = Tail(down)
  /\ up' = IF sync => clip # NoText
           THEN Written(up, [type |-> "SEND", text |-> IF sync THEN clip ELSE Empty])
           ELSE up
  /\ UNCHANGED <<bounds, android, settings, enabled, work, server, xclients, got>>

\* A text of X arrives.  Its own copy is no news to the activity: lastClipboardTimestamp is
\* later than its timestamp.
setClipboardText ==
  /\ down # <<>> /\ Head(down).type = "SEND"
  /\ down' = Tail(down)
  /\ clip' = Head(down).text
  /\ history' = Append(history, clip')
  /\ fresh' = FALSE
  /\ UNCHANGED <<bounds, settings, up, enabled, work, server, xclients, got>>
-----------------------------------------------------------------------------
(* X server, input thread *)

\* The clipboard events of handleLorieEvents; the switch does not go through the work queue.
handleLorieEvents ==
  /\ up # <<>>
  /\ up' = Tail(up)
  /\ IF Head(up).type = "ENABLE"
     THEN enabled' = Head(up).on /\ UNCHANGED work
     ELSE work' = Append(work, Head(up)) /\ UNCHANGED enabled
  /\ UNCHANGED <<bounds, android, settings, down, server, xclients, got>>

\* The connection is lost; Connection has the steps.
Hangup ==
  /\ conn /\ drops < MaxDrops
  /\ conn' = FALSE /\ drops' = drops + 1
  /\ up' = <<>> /\ down' = <<>>
  /\ enabled' = FALSE /\ calm' = FALSE
  /\ UNCHANGED <<made, pastes, focused, toggled, android, sync, listening, work, server, xclients, got>>

\* tryConnect tells the new session the preference.
Reconnect ==
  /\ ~conn
  /\ conn' = TRUE
  /\ up' = <<[type |-> "ENABLE", on |-> sync]>>
  /\ UNCHANGED <<bounds, android, sync, listening, calm, down, enabled, work, server, xclients, got>>
-----------------------------------------------------------------------------
(* X server, main thread *)

\* lorieSelectionRequest: a SelectionRequest to whoever owns CLIPBOARD now.
SelectionRequest(who, target) ==
  asked' = IF enabled /\ who \in Clients
           THEN [asked EXCEPT ![who] = Append(@, target)]
           ELSE asked

\* Mutant: the cache survives the announcement.
AnnounceKeepsCache ==
  /\ work # <<>> /\ Head(work).type = "ANNOUNCE"
  /\ work' = Tail(work)
  /\ owner' = "server"
  /\ announced' = Head(work).stamp
  /\ UNCHANGED <<bounds, android, settings, up, down, enabled, cached, targets, xclients, got>>

\* Mutant: a server that owns CLIPBOARD already ignores the announcement.
AnnounceIfNotOwner ==
  /\ work # <<>> /\ Head(work).type = "ANNOUNCE"
  /\ work' = Tail(work)
  /\ IF owner = "server"
     THEN UNCHANGED <<cached, owner, announced>>
     ELSE cached' = NoText /\ owner' = "server" /\ announced' = Head(work).stamp
  /\ UNCHANGED <<bounds, android, settings, up, down, enabled, targets, xclients, got>>

\* With lorieOwnSelection.  The callback's request for targets goes to the server itself and
\* is dropped.
lorieHandleClipboardAnnounce ==
  /\ work # <<>> /\ Head(work).type = "ANNOUNCE"
  /\ work' = Tail(work)
  /\ cached' = NoText
  /\ owner' = "server"
  /\ announced' = Head(work).stamp
  /\ UNCHANGED <<bounds, android, settings, up, down, enabled, targets, xclients, got>>

\* Everyone who waits gets the text.
lorieHandleClipboardData ==
  /\ work # <<>> /\ Head(work).type = "SEND"
  /\ work' = Tail(work)
  /\ cached' = Head(work).text
  /\ got' = [c \in Clients |-> IF \E i \in DOMAIN targets : targets[i] = c THEN "text" ELSE got[c]]
  /\ targets' = <<>>
  /\ UNCHANGED <<bounds, android, settings, up, down, enabled, owner, announced, xclients>>

\* Mutant: the data is not asked for.
ConvertSilently(c, target) ==
  /\ pastes < MaxPastes /\ pastes' = pastes + 1
  /\ owner = "server" /\ got[c] # "waiting"
  /\ IF target = "TEXT" /\ cached = NoText
     THEN targets' = <<c>> \o targets /\ got' = [got EXCEPT ![c] = "waiting"]
     ELSE got' = [got EXCEPT ![c] = "refused"] /\ UNCHANGED targets
  /\ UNCHANGED <<made, focused, toggled, drops, android, settings, up, down, enabled, work, owner, cached,
                 announced, xclients>>

\* lorieProcConvertSelection and lorieConvertSelection for a selection that the server owns.
\* TEXT stands for STRING, TEXT and UTF8_STRING, INFO for TARGETS and TIMESTAMP.
lorieProcConvertSelection(c, target) ==
  /\ pastes < MaxPastes /\ pastes' = pastes + 1
  /\ owner = "server" /\ got[c] # "waiting"
  /\ IF target = "TEXT" /\ cached = NoText
     THEN /\ targets' = <<c>> \o targets
          /\ down' = Written(down, [type |-> "REQUEST"])
          /\ got' = [got EXCEPT ![c] = "waiting"]
     ELSE /\ got' = [got EXCEPT ![c] = IF target = "OTHER" THEN "refused" ELSE "text"]
          /\ UNCHANGED <<targets, down>>
  /\ UNCHANGED <<made, focused, toggled, drops, android, settings, up, enabled, work, owner, cached, announced,
                 xclients>>

\* An X client copies: it takes CLIPBOARD, and lorieSelectionCallback asks for its targets.
SetSelectionOwner(c, kind) ==
  /\ made < MaxCopies /\ made' = made + 1
  /\ calm' = (calm /\ Quiet /\ ~(fresh /\ clip # NoText))
  /\ owner' = c
  /\ own' = [own EXCEPT ![c] = [text |-> made + 1, kind |-> kind]]
  /\ SelectionRequest(c, "TARGETS")
  /\ UNCHANGED <<pastes, focused, toggled, drops, android, sync, listening, conn, up, down, enabled, work,
                 cached, targets, announced, replying, prop, got>>

\* The client puts what was asked for into a property of the root window ...
ChangeProperty(c) ==
  /\ asked[c] # <<>> /\ replying[c] = "no"
  /\ asked' = [asked EXCEPT ![c] = Tail(@)]
  /\ replying' = [replying EXCEPT ![c] = Head(asked[c])]
  /\ prop' = [prop EXCEPT ![Head(asked[c])] = own[c]]
  /\ UNCHANGED <<bounds, android, settings, up, down, enabled, work, server, own, got>>

\* ... or refuses, because it no longer owns CLIPBOARD.
Refuse(c) ==
  /\ asked[c] # <<>> /\ replying[c] = "no" /\ owner # c
  /\ asked' = [asked EXCEPT ![c] = Tail(@)]
  /\ UNCHANGED <<bounds, android, settings, up, down, enabled, work, server, own, replying, prop, got>>

\* lorieHandleSelection, for the list of targets: UTF-8 is preferred.
WantedTarget(kind) == IF kind \in {"UTF8", "BROKEN"} THEN "UTF8" ELSE "STRING"

\* Mutant: only UTF-8 is taken.
UTF8Only(sel, target) == sel.kind = target /\ target = "UTF8"

\* lorieHandleSelection, for a text: its type and encoding are right.
Convertible(sel, target) == sel.kind = target

\* ... and sends the SelectionNotify: lorieProcSendEvent and lorieHandleSelection.
lorieProcSendEvent(c) ==
  LET target == replying[c]
      sel == prop[target]
  IN  /\ target # "no"
      /\ replying' = [replying EXCEPT ![c] = "no"]
      /\ IF enabled /\ target = "TARGETS" /\ sel.kind # "IMAGE"
         THEN SelectionRequest(owner, WantedTarget(sel.kind))
         ELSE UNCHANGED asked
      /\ down' = IF enabled /\ target # "TARGETS" /\ Convertible(sel, target)
                 THEN Written(down, [type |-> "SEND", text |-> sel.text])
                 ELSE down
      /\ UNCHANGED <<bounds, android, settings, up, enabled, work, server, own, prop, got>>
-----------------------------------------------------------------------------
ServerStep == lorieHandleClipboardAnnounce \/ lorieHandleClipboardData
ActivityStep == handleClipboardChange \/ requestClipboard \/ setClipboardText
ClientStep(c) == ChangeProperty(c) \/ lorieProcSendEvent(c)

Next ==
  \/ \E b \in BOOLEAN : CopyOnAndroid(b) \/ onWindowFocusChanged(b)
  \/ reloadPreferences
  \/ ActivityStep
  \/ handleLorieEvents \/ Hangup \/ Reconnect
  \/ ServerStep
  \/ \E c \in Clients :
       \/ \E k \in Kinds : SetSelectionOwner(c, k)
       \/ \E t \in {"TEXT", "INFO", "OTHER"} : lorieProcConvertSelection(c, t)
       \/ ClientStep(c) \/ Refuse(c)

Spec == Init /\ [][Next]_vars

\* The activity's UI thread and both threads of the server run; the activity connects again
\* (Connection).  X clients may do nothing.
FairSpec ==
  /\ Spec
  /\ WF_vars(ActivityStep) /\ WF_vars(handleLorieEvents) /\ WF_vars(ServerStep)
-----------------------------------------------------------------------------
(* Properties *)

Events ==
  [type : {"ANNOUNCE"}, stamp : Nat] \cup [type : {"SEND"}, text : Texts \cup {Empty}]
    \cup [type : {"ENABLE"}, on : BOOLEAN]

TypeOK ==
  /\ made \in 0..MaxCopies /\ pastes \in 0..MaxPastes
  /\ focused \in 0..MaxFocus /\ toggled \in 0..MaxToggles /\ drops \in 0..MaxDrops
  /\ {conn, fresh, sync, listening, enabled, calm} \subseteq BOOLEAN
  /\ clip \in Texts \cup {NoText} /\ history \in Seq(Texts \cup {NoText})
  /\ up \in Seq(Events) /\ work \in Seq(Events)
  /\ down \in Seq([type : {"REQUEST"}] \cup [type : {"SEND"}, text : Texts])
  /\ owner \in Clients \cup {"server", "nobody"}
  /\ cached \in Texts \cup {NoText, Empty} /\ targets \in Seq(Clients) /\ announced \in Nat
  /\ own \in [Clients -> Selection] /\ asked \in [Clients -> Seq({"TARGETS", "UTF8", "STRING"})]
  /\ replying \in [Clients -> {"no", "TARGETS", "UTF8", "STRING"}]
  /\ prop \in [{"TARGETS", "UTF8", "STRING"} -> Selection]
  /\ got \in [Clients -> {"none", "waiting", "refused", "text"}]

(* "whatever is in our cache is now stale": the text that the server hands  *)
(* to X clients is one that Android has had since the last announcement the *)
(* server handled, across races, lost connections and changes of the        *)
(* preference.                                                              *)
CacheFresh ==
  cached \in Texts => \E i \in announced..Len(history) : i > 0 /\ history[i] = cached

\* Every copy so far has waited for the one before, the last one is not under way any more, and
\* if it was a text copied on Android it has been announced.
Settled ==
  /\ calm /\ Quiet
  /\ fresh => clip = NoText

(* "cachedData will be NULL for the first request, but can then be reused   *)
(* once we've gotten the data once from the client": when copies wait for   *)
(* each other and nothing is under way, the text that the server would hand *)
(* out again is Android's.                                                  *)
CacheCurrent ==
  Settled /\ owner = "server" /\ clip # NoText => cached \in {NoText, clip}

(* When copies wait for each other and nothing is under way, a text copied  *)
(* in X is on Android's clipboard, in whichever encoding its owner offers   *)
(* it; something that is not text may have replaced it there.               *)
OwnerShown ==
  Settled /\ owner \in Clients /\ own[owner].kind \in {"UTF8", "STRING"}
    => clip \in {own[owner].text, NoText}

(* A client that pastes gets its answer although the request, the answer    *)
(* and announcements cross each other, if Android has a text to give and    *)
(* nothing disturbs the exchange.                                           *)
PasteAnswered ==
  \A c \in Clients : calm /\ got[c] = "waiting" /\ clip # NoText ~> ~calm \/ got[c] # "waiting"
=============================================================================
