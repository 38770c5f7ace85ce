-------------------------- MODULE Clipboard_proofs --------------------------
(* What holds of Clipboard for any set of clients and any number of copies, *)
(* pastes, focus changes, switches and lost connections, and of the text    *)
(* conversions in TextConversion for texts of any length and characters.    *)
EXTENDS Clipboard, TextConversion, SequenceTheorems, WellFoundedInduction, TLAPS

\* What is offered as text is a text.
Offered(sel) == sel.kind # "IMAGE" => sel.text # NoText

TextOffered ==
  /\ \A c \in Clients : Offered(own[c])
  /\ \A t \in {"TARGETS", "UTF8", "STRING"} : Offered(prop[t])

TypeInv == TypeOK /\ TextOffered
-----------------------------------------------------------------------------
(* The inductive invariant of CacheFresh *)

\* Android has had the text t since its n-th.
Had(t, n) == \E i \in n..Len(history) : i > 0 /\ history[i] = t

ClipIsLast == IF history = <<>> THEN clip = NoText ELSE clip = history[Len(history)]

\* No announcement is about a text still to come.
StampsPast ==
  /\ announced <= Len(history)
  /\ \A j \in DOMAIN up : up[j].type = "ANNOUNCE" => up[j].stamp <= Len(history)
  /\ \A j \in DOMAIN work : work[j].type = "ANNOUNCE" => work[j].stamp <= Len(history)

IsText(e) == e.type = "SEND" /\ e.text \in Texts

\* A text is not older than the announcements handled before it.
FreshFrom(t, q, n) == \A k \in 1..n : q[k].type = "ANNOUNCE" => Had(t, q[k].stamp)

WorkFresh ==
  \A j \in DOMAIN work : IsText(work[j]) =>
    Had(work[j].text, announced) /\ FreshFrom(work[j].text, work, j - 1)

UpFresh ==
  \A j \in DOMAIN up : IsText(up[j]) =>
    /\ Had(up[j].text, announced)
    /\ FreshFrom(up[j].text, work, Len(work))
    /\ FreshFrom(up[j].text, up, j - 1)

FreshInv == ClipIsLast /\ StampsPast /\ WorkFresh /\ UpFresh /\ CacheFresh
-----------------------------------------------------------------------------
(* The inductive invariant of CacheCurrent and OwnerShown *)

\* A queue with an event of some type; a queue whose answers all have the text x
Has(q, type) == \E i \in DOMAIN q : q[i].type = type
Answers(q, x) == \A i \in DOMAIN q : q[i].type = "SEND" => q[i].text = x

\* Events of one type on the way to the main thread
OnTheWay(type) == Has(up, type) \/ Has(work, type)

\* Android has a text that X does not know of yet.
News == (fresh /\ clip # NoText) \/ OnTheWay("ANNOUNCE")

\* While calm, the switches and the connection are as at the start.
CalmSettings == conn /\ sync /\ enabled /\ ~OnTheWay("ENABLE")

\* An exchange with an X owner is under way.
Exchange ==
  \/ \E c \in Clients : asked[c] # <<>> \/ replying[c] # "no"
  \/ Has(down, "SEND")

\* A paste of Android's text is under way.
Pasting == OnTheWay("SEND") \/ Has(down, "REQUEST")

ExchangeAlone == Exchange => owner \in Clients /\ ~News
OnlyOwner == \A c \in Clients : c # owner => asked[c] = <<>> /\ replying[c] = "no"
PasteAlone == Pasting \/ targets # <<>> => owner = "server"

\* An answer on its way to the main thread is Android's text still.
AnswerCurrent == Answers(up, clip) /\ Answers(work, clip)

CachedCurrent == owner = "server" /\ clip # NoText /\ ~News => cached \in {NoText, clip}

\* The steps in which the text of owner c goes to Android, one after the other
Offering(c) ==
  \/ asked[c] = <<"TARGETS">> /\ replying[c] = "no" /\ down = <<>>
  \/ asked[c] = <<>> /\ replying[c] = "TARGETS" /\ prop["TARGETS"] = own[c] /\ down = <<>>
  \/ asked[c] = <<own[c].kind>> /\ replying[c] = "no" /\ down = <<>>
  \/ asked[c] = <<>> /\ replying[c] = own[c].kind /\ prop[own[c].kind] = own[c] /\ down = <<>>
  \/ asked[c] = <<>> /\ replying[c] = "no" /\ down = <<[type |-> "SEND", text |-> own[c].text]>>

TextShown ==
  owner \in Clients /\ own[owner].kind \in {"UTF8", "STRING"} =>
    IF Exchange THEN Offering(owner) ELSE News \/ clip \in {own[owner].text, NoText}

CalmParts ==
  /\ CalmSettings /\ ExchangeAlone /\ OnlyOwner /\ PasteAlone /\ AnswerCurrent
  /\ CachedCurrent /\ TextShown

CalmInv == calm => CalmParts
-----------------------------------------------------------------------------
(* Types *)

TargetNames == {"TARGETS", "UTF8", "STRING"}
Downward == [type : {"REQUEST"}] \cup [type : {"SEND"}, text : Texts]

LEMMA BoundsAreNat ==
  /\ MaxCopies \in Nat /\ MaxPastes \in Nat /\ MaxFocus \in Nat /\ MaxToggles \in Nat /\ MaxDrops \in Nat
  /\ Kinds \subseteq AllKinds /\ "server" \notin Clients /\ "nobody" \notin Clients
  BY ClipboardAssumption

LEMMA TypeInit == Init => TypeInv
<1> SUFFICES ASSUME Init PROVE TypeInv
  OBVIOUS
<1>1. Blank \in Selection /\ Offered(Blank)
  BY DEF Blank, Selection, AllKinds, Offered
<1>2. /\ own \in [Clients -> Selection] /\ asked \in [Clients -> Seq(TargetNames)]
      /\ prop \in [TargetNames -> Selection] /\ TextOffered
  BY <1>1 DEF Init, TextOffered, TargetNames
<1>3. /\ replying \in [Clients -> {"no", "TARGETS", "UTF8", "STRING"}]
      /\ got \in [Clients -> {"none", "waiting", "refused", "text"}]
  BY DEF Init
<1>4. {conn, fresh, sync, listening, enabled, calm} \subseteq BOOLEAN
  BY DEF Init
<1> QED BY <1>2, <1>3, <1>4, BoundsAreNat DEF Init, TypeInv, TypeOK, TargetNames

LEMMA EventShape ==
  ASSUME NEW e \in Events
  PROVE  /\ e.type \in {"ANNOUNCE", "SEND", "ENABLE"}
         /\ e.type = "ANNOUNCE" => e.stamp \in Nat
         /\ e.type = "SEND" => e.text \in Texts \cup {Empty}
         /\ e.type = "ENABLE" => e.on \in BOOLEAN
  BY DEF Events

\* A write keeps the type of the queue.
LEMMA WrittenType ==
  ASSUME NEW S, NEW q \in Seq(S), NEW e \in S PROVE Written(q, e) \in Seq(S)
  BY AppendProperties DEF Written

LEMMA TypeNext == TypeInv /\ [Next]_vars => TypeInv'
<1> SUFFICES ASSUME TypeInv, [Next]_vars PROVE TypeInv'
  OBVIOUS
<1> USE DEF TypeInv, TypeOK, TextOffered
<1>1. ASSUME NEW b \in BOOLEAN, CopyOnAndroid(b) PROVE TypeInv'
  <2>1. clip' \in Texts \cup {NoText}
    BY <1>1, BoundsAreNat DEF CopyOnAndroid, Texts
  <2>2. history' \in Seq(Texts \cup {NoText})
    BY <1>1, <2>1, AppendProperties DEF CopyOnAndroid
  <2>3. {conn, fresh, sync, listening, enabled, calm}' \subseteq BOOLEAN
    BY <1>1 DEF CopyOnAndroid
  <2> QED BY <1>1, <2>1, <2>2, <2>3, BoundsAreNat DEF CopyOnAndroid, server, xclients
<1>2. ASSUME Announce PROVE fresh' \in BOOLEAN /\ up' \in Seq(Events)
  <2>1. [type |-> "ANNOUNCE", stamp |-> Len(history)] \in Events
    BY DEF Events
  <2>2. Written(up, [type |-> "ANNOUNCE", stamp |-> Len(history)]) \in Seq(Events)
    BY <2>1, WrittenType
  <2> QED BY <1>2, <2>2 DEF Announce
<1>3. CASE handleClipboardChange
  BY <1>3, <1>2 DEF handleClipboardChange, bounds, settings, server, xclients
<1>4. ASSUME NEW b \in BOOLEAN, onWindowFocusChanged(b) PROVE TypeInv'
  BY <1>4, <1>2, BoundsAreNat DEF onWindowFocusChanged, server, xclients
<1>5. CASE reloadPreferences
  <2>1. [type |-> "ENABLE", on |-> sync'] \in Events
    BY <1>5 DEF reloadPreferences, Events
  <2>2. up' \in Seq(Events)
    BY <1>5, <2>1, WrittenType DEF reloadPreferences
  <2>3. {conn, fresh, sync, listening, enabled, calm}' \subseteq BOOLEAN
    BY <1>5 DEF reloadPreferences, android
  <2> QED BY <1>5, <2>2, <2>3, BoundsAreNat DEF reloadPreferences, android, server, xclients
<1>6. CASE requestClipboard
  <2>1. down' \in Seq(Downward)
    BY <1>6, HeadTailProperties DEF requestClipboard, Downward
  <2>2. (sync => clip # NoText) => [type |-> "SEND", text |-> IF sync THEN clip ELSE Empty] \in Events
    BY DEF Events
  <2>3. up' \in Seq(Events)
    BY <1>6, <2>2, WrittenType DEF requestClipboard
  <2> QED BY <1>6, <2>1, <2>3 DEF requestClipboard, bounds, android, settings, server, xclients, Downward
<1>7. CASE setClipboardText
  <2>1. Head(down) \in Downward /\ down' \in Seq(Downward)
    BY <1>7, HeadTailProperties DEF setClipboardText, Downward
  <2>2. clip' \in Texts
    BY <1>7, <2>1 DEF setClipboardText, Downward
  <2>3. history' \in Seq(Texts \cup {NoText})
    BY <1>7, <2>2, AppendProperties DEF setClipboardText
  <2> QED BY <1>7, <2>1, <2>2, <2>3 DEF setClipboardText, bounds, settings, server, xclients, Downward
<1>8. CASE handleLorieEvents
  <2>1. Head(up) \in Events /\ up' \in Seq(Events)
    BY <1>8, HeadTailProperties DEF handleLorieEvents
  <2>2. work' \in Seq(Events)
    <3>1. Append(work, Head(up)) \in Seq(Events)
      BY <2>1, AppendProperties
    <3> QED BY <1>8, <3>1 DEF handleLorieEvents
  <2>3. enabled' \in BOOLEAN
    BY <1>8, <2>1, EventShape DEF handleLorieEvents
  <2> QED BY <1>8, <2>1, <2>2, <2>3 DEF handleLorieEvents, bounds, android, settings, server, xclients
<1>9. CASE Hangup
  <2>1. {conn, fresh, sync, listening, enabled, calm}' \subseteq BOOLEAN
    BY <1>9 DEF Hangup, android
  <2> QED BY <1>9, <2>1, BoundsAreNat DEF Hangup, android, server, xclients
<1>10. CASE Reconnect
  <2>1. up' \in Seq(Events)
    BY <1>10 DEF Reconnect, Events
  <2> QED BY <1>10, <2>1 DEF Reconnect, bounds, android, server, xclients
<1>11. CASE lorieHandleClipboardAnnounce
  <2>1. Head(work) \in Events /\ work' \in Seq(Events)
    BY <1>11, HeadTailProperties DEF lorieHandleClipboardAnnounce
  <2> QED BY <1>11, <2>1, EventShape DEF lorieHandleClipboardAnnounce, bounds, android, settings, xclients
<1>12. CASE lorieHandleClipboardData
  <2>1. Head(work) \in Events /\ work' \in Seq(Events)
    BY <1>12, HeadTailProperties DEF lorieHandleClipboardData
  <2>2. cached' \in Texts \cup {NoText, Empty}
    BY <1>12, <2>1, EventShape DEF lorieHandleClipboardData
  <2>3. got' \in [Clients -> {"none", "waiting", "refused", "text"}]
    BY <1>12 DEF lorieHandleClipboardData
  <2> QED BY <1>12, <2>1, <2>2, <2>3 DEF lorieHandleClipboardData, bounds, android, settings, xclients
<1>13. ASSUME NEW c \in Clients, NEW k \in Kinds, SetSelectionOwner(c, k) PROVE TypeInv'
  <2>1. asked' \in [Clients -> Seq(TargetNames)]
    BY <1>13, AppendProperties DEF SetSelectionOwner, SelectionRequest, TargetNames
  <2>2. own' \in [Clients -> Selection] /\ own'[c].text # NoText
    <3>1. [text |-> made + 1, kind |-> k] \in Selection
      BY <1>13, BoundsAreNat DEF SetSelectionOwner, Selection, Texts
    <3> QED BY <1>13, <3>1 DEF SetSelectionOwner, NoText
  <2>3. \A x \in Clients : Offered(own'[x])
    BY <1>13, <2>2 DEF SetSelectionOwner, Offered
  <2>4. {conn, fresh, sync, listening, enabled, calm}' \subseteq BOOLEAN
    BY <1>13 DEF SetSelectionOwner, android
  <2> QED BY <1>13, <2>1, <2>2, <2>3, <2>4, BoundsAreNat DEF SetSelectionOwner, android, TargetNames
<1>14. ASSUME NEW c \in Clients, NEW t \in {"TEXT", "INFO", "OTHER"}, lorieProcConvertSelection(c, t) PROVE TypeInv'
  <2>1. down' \in Seq(Downward)
    BY <1>14, WrittenType DEF lorieProcConvertSelection, Downward
  <2>2. targets' \in Seq(Clients)
    <3>1. <<c>> \o targets \in Seq(Clients)
      BY ConcatProperties
    <3> QED BY <1>14, <3>1 DEF lorieProcConvertSelection
  <2>3. got' \in [Clients -> {"none", "waiting", "refused", "text"}]
    BY <1>14 DEF lorieProcConvertSelection
  <2>4. pastes' \in 0..MaxPastes
    BY <1>14, BoundsAreNat DEF lorieProcConvertSelection
  <2>5. UNCHANGED <<made, focused, toggled, drops, android, settings, up, enabled, work, owner, cached, announced, xclients>>
    BY <1>14 DEF lorieProcConvertSelection
  <2> QED BY <2>1, <2>2, <2>3, <2>4, <2>5 DEF android, settings, xclients, Downward
<1>15. ASSUME NEW c \in Clients, ChangeProperty(c) PROVE TypeInv'
  <2>1. Head(asked[c]) \in TargetNames /\ Tail(asked[c]) \in Seq(TargetNames)
    BY <1>15, HeadTailProperties DEF ChangeProperty, TargetNames
  <2> QED BY <1>15, <2>1 DEF ChangeProperty, bounds, android, settings, server, TargetNames
<1>16. ASSUME NEW c \in Clients, Refuse(c) PROVE TypeInv'
  <2>1. Tail(asked[c]) \in Seq(TargetNames)
    BY <1>16, HeadTailProperties DEF Refuse, TargetNames
  <2> QED BY <1>16, <2>1 DEF Refuse, bounds, android, settings, server, TargetNames
<1>17. ASSUME NEW c \in Clients, lorieProcSendEvent(c) PROVE TypeInv'
  <2>1. asked' \in [Clients -> Seq(TargetNames)]
    <3>1. ASSUME NEW w \in Clients, NEW k PROVE Append(asked[w], WantedTarget(k)) \in Seq(TargetNames)
      BY AppendProperties DEF WantedTarget, TargetNames
    <3>2. asked' = asked \/ \E w \in Clients, k \in AllKinds : asked' = [asked EXCEPT ![w] = Append(@, WantedTarget(k))]
      BY <1>17 DEF lorieProcSendEvent, SelectionRequest, Selection
    <3>3. CASE asked' = asked
      BY <3>3 DEF TargetNames
    <3>4. ASSUME NEW w \in Clients, NEW k \in AllKinds, asked' = [asked EXCEPT ![w] = Append(@, WantedTarget(k))]
          PROVE  asked' \in [Clients -> Seq(TargetNames)]
      BY <3>4, <3>1 DEF TargetNames
    <3> QED BY <3>2, <3>3, <3>4
  <2>2. replying[c] \in TargetNames /\ prop[replying[c]] \in Selection /\ Offered(prop[replying[c]])
    BY <1>17 DEF lorieProcSendEvent, TargetNames
  <2>3. replying[c] # "TARGETS" /\ Convertible(prop[replying[c]], replying[c]) =>
          [type |-> "SEND", text |-> prop[replying[c]].text] \in Downward
    BY <2>2 DEF Convertible, Offered, Downward, Selection, TargetNames
  <2>4. down' \in Seq(Downward)
    BY <1>17, <2>3, WrittenType DEF lorieProcSendEvent, Downward
  <2> QED BY <1>17, <2>1, <2>4 DEF lorieProcSendEvent, bounds, android, settings, server, TargetNames, Downward
<1>18. CASE UNCHANGED vars
  BY <1>18 DEF vars, bounds, android, settings, server, xclients
<1> QED
  BY <1>1, <1>3, <1>4, <1>5, <1>6, <1>7, <1>8, <1>9, <1>10, <1>11, <1>12, <1>13, <1>14, <1>15, <1>16, <1>17, <1>18
  DEF Next, ServerStep, ActivityStep, ClientStep

(***************************************************************************)
(* Every variable of both processes keeps its type; in particular what X   *)
(* sends to Android is a text, and an answer of the activity is a text or  *)
(* the empty one.                                                          *)
(***************************************************************************)
THEOREM TypeCorrect == Spec => []TypeOK
<1>1. TypeInv => TypeOK
  BY DEF TypeInv
<1> QED BY TypeInit, TypeNext, <1>1, PTL DEF Spec
-----------------------------------------------------------------------------
(* CacheFresh *)

freshVars == <<history, clip, up, work, announced, cached>>

LEMMA FreshInit == Init => FreshInv
  BY DEF Init, FreshInv, ClipIsLast, StampsPast, WorkFresh, UpFresh, CacheFresh, Texts, NoText

LEMMA FreshUntouched ==
  ASSUME FreshInv, UNCHANGED freshVars PROVE FreshInv'
  BY DEF freshVars, FreshInv, ClipIsLast, StampsPast, WorkFresh, UpFresh, CacheFresh, FreshFrom, Had

\* Android gets a text, or loses it.
LEMMA HistoryGrows ==
  ASSUME TypeInv, FreshInv, NEW x \in Texts \cup {NoText}, clip' = x, history' = Append(history, x),
         UNCHANGED <<up, work, announced, cached>>
  PROVE  FreshInv'
<1>1. /\ history' \in Seq(Texts \cup {NoText}) /\ Len(history') = Len(history) + 1 /\ Len(history) \in Nat
      /\ \A i \in 1..Len(history) : history'[i] = history[i]
      /\ history'[Len(history) + 1] = x
  BY AppendProperties, LenProperties DEF TypeInv, TypeOK
<1>2. ASSUME NEW t, NEW n \in Nat, Had(t, n) PROVE Had(t, n)'
  BY <1>1, <1>2 DEF Had
<1>3. ClipIsLast'
  BY <1>1 DEF ClipIsLast
<1>4. StampsPast'
  <2>1. /\ announced \in Nat
        /\ \A j \in DOMAIN up : up[j].type = "ANNOUNCE" => up[j].stamp \in Nat
        /\ \A j \in DOMAIN work : work[j].type = "ANNOUNCE" => work[j].stamp \in Nat
    BY EventShape, LenProperties DEF TypeInv, TypeOK
  <2> QED BY <1>1, <2>1 DEF StampsPast, FreshInv
<1>5. ASSUME NEW t, NEW q \in Seq(Events), NEW n \in 0..Len(q), FreshFrom(t, q, n)
      PROVE  \A k \in 1..n : q[k].type = "ANNOUNCE" => Had(t, q[k].stamp)'
  <2>1. \A k \in 1..n : q[k] \in Events
    BY LenProperties
  <2> QED BY <1>2, <1>5, <2>1, EventShape DEF FreshFrom
<1>6. WorkFresh'
  <2> SUFFICES ASSUME NEW j \in DOMAIN work, IsText(work[j])
               PROVE  Had(work[j].text, announced)' /\ FreshFrom(work[j].text, work, j - 1)'
    BY DEF WorkFresh, IsText
  <2>1. work \in Seq(Events) /\ j \in 1..Len(work) /\ j - 1 \in 0..Len(work) /\ announced \in Nat
    BY LenProperties DEF TypeInv, TypeOK
  <2>2. Had(work[j].text, announced) /\ FreshFrom(work[j].text, work, j - 1)
    BY DEF FreshInv, WorkFresh
  <2>3. \A k \in 1..j-1 : work[k].type = "ANNOUNCE" => Had(work[j].text, work[k].stamp)'
    BY <1>5, <2>1, <2>2
  <2>4. Had(work[j].text, announced)'
    BY <1>2, <2>1, <2>2
  <2> QED BY <2>3, <2>4 DEF FreshFrom, Had
<1>7. UpFresh'
  <2> SUFFICES ASSUME NEW j \in DOMAIN up, IsText(up[j])
               PROVE  /\ Had(up[j].text, announced)'
                      /\ FreshFrom(up[j].text, work, Len(work))'
                      /\ FreshFrom(up[j].text, up, j - 1)'
    BY DEF UpFresh, IsText
  <2>1. /\ up \in Seq(Events) /\ j \in 1..Len(up) /\ j - 1 \in 0..Len(up) /\ announced \in Nat
        /\ work \in Seq(Events) /\ Len(work) \in 0..Len(work)
    BY LenProperties DEF TypeInv, TypeOK
  <2>2. /\ Had(up[j].text, announced) /\ FreshFrom(up[j].text, up, j - 1)
        /\ FreshFrom(up[j].text, work, Len(work))
    BY DEF FreshInv, UpFresh
  <2>3. /\ \A k \in 1..j-1 : up[k].type = "ANNOUNCE" => Had(up[j].text, up[k].stamp)'
        /\ \A k \in 1..Len(work) : work[k].type = "ANNOUNCE" => Had(up[j].text, work[k].stamp)'
    BY <1>5, <2>1, <2>2
  <2>4. Had(up[j].text, announced)'
    BY <1>2, <2>1, <2>2
  <2> QED BY <2>3, <2>4 DEF FreshFrom, Had
<1>8. CacheFresh'
  <2>1. announced \in Nat /\ (cached \in Texts => Had(cached, announced))
    BY DEF TypeInv, TypeOK, FreshInv, CacheFresh, Had
  <2>2. cached \in Texts => Had(cached, announced)'
    BY <1>2, <2>1
  <2> QED BY <2>2 DEF CacheFresh, Had
<1> QED BY <1>3, <1>4, <1>6, <1>7, <1>8 DEF FreshInv

\* The activity writes an event.
LEMMA UpGrows ==
  ASSUME TypeInv, FreshInv, NEW e \in Events,
         e.type = "ANNOUNCE" => e.stamp = Len(history),
         IsText(e) => e.text = clip,
         up' = Written(up, e), UNCHANGED <<history, clip, work, announced, cached>>
  PROVE  FreshInv'
<1>1. CASE up' = up
  BY <1>1, FreshUntouched DEF freshVars
<1>2. CASE up' = Append(up, e)
  <2>1. /\ up' \in Seq(Events) /\ Len(up') = Len(up) + 1 /\ Len(up) \in Nat /\ DOMAIN up = 1..Len(up)
        /\ \A i \in 1..Len(up) : up'[i] = up[i]
        /\ up'[Len(up) + 1] = e /\ DOMAIN up' = 1..Len(up')
    BY <1>2, AppendProperties, LenProperties DEF TypeInv, TypeOK
  <2>2. StampsPast'
    <3>1. Len(history) \in Nat
      BY LenProperties DEF TypeInv, TypeOK
    <3>2. ASSUME NEW j \in DOMAIN up', up'[j].type = "ANNOUNCE" PROVE up'[j].stamp <= Len(history)
      <4>1. CASE j \in DOMAIN up
        BY <2>1, <3>2, <4>1 DEF StampsPast, FreshInv
      <4>2. CASE j = Len(up) + 1
        BY <2>1, <3>1, <3>2, <4>2
      <4> QED BY <2>1, <4>1, <4>2
    <3> QED BY <3>2 DEF StampsPast, FreshInv
  <2>3. ASSUME IsText(e), NEW n \in Nat, n <= Len(history) PROVE Had(e.text, n)
    <3>1. e.text = clip /\ clip # NoText
      BY <2>3 DEF IsText, Texts, NoText
    <3>2. history # <<>> /\ history[Len(history)] = e.text
      BY <3>1 DEF FreshInv, ClipIsLast
    <3>3. Len(history) \in Nat \ {0}
      BY <3>2, EmptySeq DEF TypeInv, TypeOK
    <3> QED BY <2>3, <3>2, <3>3 DEF Had
  <2>4. ASSUME NEW j \in DOMAIN up', IsText(up'[j])
        PROVE  /\ Had(up'[j].text, announced)
               /\ FreshFrom(up'[j].text, work, Len(work))
               /\ FreshFrom(up'[j].text, up', j - 1)
    <3>1. CASE j \in DOMAIN up
      BY <2>1, <2>4, <3>1 DEF FreshInv, UpFresh, FreshFrom
    <3>2. CASE j = Len(up) + 1
      <4>1. IsText(e) /\ up'[j] = e
        BY <2>1, <2>4, <3>2
      <4>2. Had(e.text, announced)
        BY <2>3, <4>1 DEF FreshInv, StampsPast, TypeInv, TypeOK
      <4>3. FreshFrom(e.text, work, Len(work))
        <5>1. \A k \in 1..Len(work) : work[k] \in Events /\ (work[k].type = "ANNOUNCE" => work[k].stamp <= Len(history))
          BY LenProperties DEF FreshInv, StampsPast, TypeInv, TypeOK
        <5> QED BY <2>3, <4>1, <5>1, EventShape DEF FreshFrom
      <4>4. FreshFrom(e.text, up', Len(up))
        <5>1. \A k \in 1..Len(up) : up'[k] \in Events /\ (up'[k].type = "ANNOUNCE" => up'[k].stamp <= Len(history))
          BY <2>1, LenProperties, ElementOfSeq DEF FreshInv, StampsPast, TypeInv, TypeOK
        <5> QED BY <2>3, <4>1, <5>1, EventShape DEF FreshFrom
      <4> QED BY <2>1, <3>2, <4>1, <4>2, <4>3, <4>4
    <3> QED BY <2>1, <3>1, <3>2
  <2>5. UpFresh'
    BY <2>4 DEF UpFresh, FreshFrom, Had, IsText
  <2> QED BY <2>2, <2>5 DEF FreshInv, ClipIsLast, WorkFresh, CacheFresh, FreshFrom, Had
<1> QED BY <1>1, <1>2 DEF Written

\* The connection loses everything on the socket.
LEMMA UpLost ==
  ASSUME FreshInv, up' = <<>> \/ \E b \in BOOLEAN : up' = <<[type |-> "ENABLE", on |-> b]>>,
         UNCHANGED <<history, clip, work, announced, cached>>
  PROVE  FreshInv'
<1>1. \A i \in DOMAIN up' : up'[i].type = "ENABLE"
  OBVIOUS
<1>2. UpFresh' /\ StampsPast'
  BY <1>1 DEF UpFresh, StampsPast, IsText, FreshInv
<1> QED BY <1>2 DEF FreshInv, ClipIsLast, WorkFresh, CacheFresh, FreshFrom, Had

\* An event goes from the socket to the work queue, or no further.
LEMMA EventQueued ==
  ASSUME TypeInv, FreshInv, handleLorieEvents PROVE FreshInv'
<1>1. /\ up \in Seq(Events) /\ up # <<>> /\ Head(up) = up[1] /\ Head(up) \in Events
      /\ up' \in Seq(Events) /\ Len(up') = Len(up) - 1 /\ Len(up) \in Nat /\ DOMAIN up = 1..Len(up)
      /\ \A i \in 1..Len(up') : up'[i] = up[i + 1]
      /\ DOMAIN up' = 1..Len(up') /\ 1 \in DOMAIN up
  BY HeadTailProperties, LenProperties, EmptySeq DEF TypeInv, TypeOK, handleLorieEvents
<1>2. UNCHANGED <<history, clip, announced, cached>>
  BY DEF handleLorieEvents, android, server
<1>3. CASE Head(up).type = "ENABLE"
  <2>1. work' = work
    BY <1>3 DEF handleLorieEvents
  <2>2. StampsPast'
    BY <1>1, <1>2, <2>1 DEF StampsPast, FreshInv
  <2>3. ASSUME NEW j \in DOMAIN up', IsText(up'[j])
        PROVE  /\ Had(up'[j].text, announced)
               /\ FreshFrom(up'[j].text, work, Len(work))
               /\ FreshFrom(up'[j].text, up', j - 1)
    <3>1. /\ j + 1 \in DOMAIN up /\ up'[j] = up[j + 1] /\ j \in Nat
          /\ \A k \in 1..j-1 : up'[k] = up[k + 1] /\ k + 1 \in 1..j
      BY <1>1, <2>3
    <3>2. /\ Had(up[j + 1].text, announced) /\ FreshFrom(up[j + 1].text, work, Len(work))
          /\ FreshFrom(up[j + 1].text, up, (j + 1) - 1)
      BY <2>3, <3>1 DEF FreshInv, UpFresh
    <3> QED BY <3>1, <3>2 DEF FreshFrom
  <2>4. UpFresh'
    BY <1>2, <2>1, <2>3 DEF UpFresh, FreshFrom, Had, IsText
  <2> QED BY <1>2, <2>1, <2>2, <2>4 DEF FreshInv, ClipIsLast, WorkFresh, CacheFresh, FreshFrom, Had
<1>4. CASE Head(up).type # "ENABLE"
  <2>1. /\ work \in Seq(Events) /\ Len(work) \in Nat /\ DOMAIN work = 1..Len(work)
        /\ work' \in Seq(Events) /\ Len(work') = Len(work) + 1
        /\ \A i \in 1..Len(work) : work'[i] = work[i]
        /\ work'[Len(work) + 1] = up[1] /\ DOMAIN work' = 1..Len(work')
    <3>1. work' = Append(work, up[1]) /\ work \in Seq(Events) /\ up[1] \in Events
      BY <1>1, <1>4 DEF handleLorieEvents, TypeInv, TypeOK
    <3> QED BY <3>1, AppendProperties, LenProperties
  <2>2. StampsPast'
    <3>1. ASSUME NEW j \in DOMAIN work', work'[j].type = "ANNOUNCE" PROVE work'[j].stamp <= Len(history)
      <4>1. CASE j \in DOMAIN work
        BY <2>1, <3>1, <4>1 DEF StampsPast, FreshInv
      <4>2. CASE j = Len(work) + 1
        BY <1>1, <2>1, <3>1, <4>2 DEF StampsPast, FreshInv
      <4> QED BY <2>1, <4>1, <4>2
    <3>2. ASSUME NEW j \in DOMAIN up', up'[j].type = "ANNOUNCE" PROVE up'[j].stamp <= Len(history)
      <4>1. j + 1 \in DOMAIN up /\ up'[j] = up[j + 1]
        BY <1>1, <3>2
      <4> QED BY <3>2, <4>1 DEF StampsPast, FreshInv
    <3> QED BY <1>2, <3>1, <3>2 DEF StampsPast, FreshInv
  <2>3. ASSUME NEW j \in DOMAIN up', IsText(up'[j])
        PROVE  /\ Had(up'[j].text, announced)
               /\ FreshFrom(up'[j].text, work', Len(work'))
               /\ FreshFrom(up'[j].text, up', j - 1)
    <3>1. /\ j + 1 \in DOMAIN up /\ up'[j] = up[j + 1] /\ j \in Nat /\ 1 \in 1..j
          /\ \A k \in 1..j-1 : up'[k] = up[k + 1] /\ k + 1 \in 1..j
      BY <1>1, <2>3
    <3>2. /\ Had(up[j + 1].text, announced) /\ FreshFrom(up[j + 1].text, work, Len(work))
          /\ FreshFrom(up[j + 1].text, up, (j + 1) - 1)
      BY <2>3, <3>1 DEF FreshInv, UpFresh
    <3>3. FreshFrom(up'[j].text, up', j - 1)
      BY <3>1, <3>2 DEF FreshFrom
    <3>4. FreshFrom(up'[j].text, work', Len(work'))
      BY <2>1, <3>1, <3>2 DEF FreshFrom
    <3> QED BY <3>1, <3>2, <3>3, <3>4
  <2>4. UpFresh'
    BY <1>2, <2>3 DEF UpFresh, FreshFrom, Had, IsText
  <2>5. ASSUME NEW j \in DOMAIN work', IsText(work'[j])
        PROVE  Had(work'[j].text, announced) /\ FreshFrom(work'[j].text, work', j - 1)
    <3>1. CASE j \in DOMAIN work
      BY <2>1, <2>5, <3>1 DEF FreshInv, WorkFresh, FreshFrom
    <3>2. CASE j = Len(work) + 1
      BY <1>1, <2>1, <2>5, <3>2 DEF FreshInv, UpFresh, FreshFrom
    <3> QED BY <2>1, <3>1, <3>2
  <2>6. WorkFresh'
    BY <1>2, <2>5 DEF WorkFresh, FreshFrom, Had, IsText
  <2> QED BY <1>2, <2>2, <2>4, <2>6 DEF FreshInv, ClipIsLast, CacheFresh, Had
<1> QED BY <1>3, <1>4

\* The main thread takes the first event of the work queue: what is left of the invariant
LEMMA WorkTaken ==
  ASSUME TypeInv, FreshInv, work # <<>>, work' = Tail(work), UNCHANGED <<history, clip, up>>,
         announced' = IF Head(work).type = "ANNOUNCE" THEN Head(work).stamp ELSE announced
  PROVE  ClipIsLast' /\ StampsPast' /\ WorkFresh' /\ UpFresh'
<1>1. /\ work \in Seq(Events) /\ Head(work) = work[1] /\ Head(work) \in Events
      /\ work' \in Seq(Events) /\ Len(work') = Len(work) - 1 /\ Len(work) \in Nat /\ DOMAIN work = 1..Len(work)
      /\ \A i \in 1..Len(work') : work'[i] = work[i + 1]
      /\ DOMAIN work' = 1..Len(work') /\ 1 \in DOMAIN work
  BY HeadTailProperties, LenProperties, EmptySeq DEF TypeInv, TypeOK
<1>2. StampsPast'
  BY <1>1 DEF StampsPast, FreshInv
<1>3. ASSUME NEW j \in DOMAIN work', IsText(work'[j])
      PROVE  Had(work'[j].text, announced') /\ FreshFrom(work'[j].text, work', j - 1)
  <2>1. /\ j + 1 \in DOMAIN work /\ work'[j] = work[j + 1] /\ j \in Nat /\ 1 \in 1..j
        /\ \A k \in 1..j-1 : work'[k] = work[k + 1] /\ k + 1 \in 1..j
    BY <1>1, <1>3
  <2>2. Had(work[j + 1].text, announced) /\ FreshFrom(work[j + 1].text, work, (j + 1) - 1)
    BY <1>3, <2>1 DEF FreshInv, WorkFresh
  <2> QED BY <1>1, <2>1, <2>2 DEF FreshFrom
<1>4. WorkFresh'
  BY <1>3 DEF WorkFresh, FreshFrom, Had, IsText
<1>5. ASSUME NEW j \in DOMAIN up, IsText(up[j])
      PROVE  /\ Had(up[j].text, announced') /\ FreshFrom(up[j].text, work', Len(work'))
             /\ FreshFrom(up[j].text, up, j - 1)
  <2>1. /\ Had(up[j].text, announced) /\ FreshFrom(up[j].text, work, Len(work))
        /\ FreshFrom(up[j].text, up, j - 1)
    BY <1>5 DEF FreshInv, UpFresh
  <2>2. \A k \in 1..Len(work') : work'[k] = work[k + 1] /\ k + 1 \in 1..Len(work)
    BY <1>1
  <2> QED BY <1>1, <2>1, <2>2 DEF FreshFrom
<1>6. UpFresh'
  BY <1>5 DEF UpFresh, FreshFrom, Had, IsText
<1> QED BY <1>2, <1>4, <1>6 DEF FreshInv, ClipIsLast

LEMMA FreshNext == TypeInv /\ FreshInv /\ [Next]_vars => FreshInv'
<1> SUFFICES ASSUME TypeInv, FreshInv, [Next]_vars PROVE FreshInv'
  OBVIOUS
<1>1. ASSUME NEW b \in BOOLEAN, CopyOnAndroid(b) PROVE FreshInv'
  <2>1. clip' \in Texts \cup {NoText}
    BY <1>1, BoundsAreNat DEF CopyOnAndroid, Texts, TypeInv, TypeOK
  <2> QED BY <1>1, <2>1, HistoryGrows DEF CopyOnAndroid, server
<1>2. ASSUME Announce, UNCHANGED <<history, clip, work, announced, cached>> PROVE FreshInv'
  <2>1. CASE sync /\ fresh /\ clip # NoText
    <3> DEFINE e == [type |-> "ANNOUNCE", stamp |-> Len(history)]
    <3>1. e \in Events /\ e.type = "ANNOUNCE" /\ e.stamp = Len(history) /\ ~IsText(e)
      BY LenProperties DEF Events, IsText, TypeInv, TypeOK
    <3>2. up' = Written(up, e)
      BY <1>2, <2>1 DEF Announce
    <3> HIDE DEF e
    <3> QED BY <1>2, <3>1, <3>2, UpGrows
  <2>2. CASE ~(sync /\ fresh /\ clip # NoText)
    BY <1>2, <2>2, FreshUntouched DEF Announce, freshVars
  <2> QED BY <2>1, <2>2
<1>3. CASE handleClipboardChange
  BY <1>3, <1>2 DEF handleClipboardChange, server
<1>4. ASSUME NEW b \in BOOLEAN, onWindowFocusChanged(b) PROVE FreshInv'
  BY <1>4, <1>2, FreshUntouched DEF onWindowFocusChanged, server, freshVars
<1>5. CASE reloadPreferences
  <2> DEFINE e == [type |-> "ENABLE", on |-> sync']
  <2>1. e \in Events /\ e.type # "ANNOUNCE" /\ ~IsText(e)
    BY <1>5 DEF reloadPreferences, Events, IsText
  <2>2. up' = Written(up, e)
    BY <1>5 DEF reloadPreferences
  <2> HIDE DEF e
  <2> QED BY <1>5, <2>1, <2>2, UpGrows DEF reloadPreferences, android, server
<1>6. CASE requestClipboard
  <2>1. CASE sync => clip # NoText
    <3> DEFINE e == [type |-> "SEND", text |-> IF sync THEN clip ELSE Empty]
    <3>1. e \in Events /\ e.type # "ANNOUNCE" /\ (IsText(e) => e.text = clip)
      BY <2>1 DEF Events, IsText, TypeInv, TypeOK, Empty, Texts
    <3>2. up' = Written(up, e)
      BY <1>6, <2>1 DEF requestClipboard
    <3> HIDE DEF e
    <3> QED BY <1>6, <3>1, <3>2, UpGrows DEF requestClipboard, android, server
  <2>2. CASE ~(sync => clip # NoText)
    BY <1>6, <2>2, FreshUntouched DEF requestClipboard, android, server, freshVars
  <2> QED BY <2>1, <2>2
<1>7. CASE setClipboardText
  <2>1. clip' \in Texts \cup {NoText}
    BY <1>7, HeadTailProperties DEF setClipboardText, TypeInv, TypeOK
  <2> QED BY <1>7, <2>1, HistoryGrows DEF setClipboardText, server
<1>8. CASE Hangup \/ Reconnect
  BY <1>8, UpLost DEF Hangup, Reconnect, android, server, TypeInv, TypeOK
<1>9. CASE lorieHandleClipboardAnnounce
  <2>1. ClipIsLast' /\ StampsPast' /\ WorkFresh' /\ UpFresh'
    BY <1>9, WorkTaken DEF lorieHandleClipboardAnnounce, android
  <2>2. CacheFresh'
    BY <1>9 DEF lorieHandleClipboardAnnounce, CacheFresh, Texts, NoText
  <2> QED BY <2>1, <2>2 DEF FreshInv
<1>10. CASE lorieHandleClipboardData
  <2>1. ClipIsLast' /\ StampsPast' /\ WorkFresh' /\ UpFresh'
    BY <1>10, WorkTaken DEF lorieHandleClipboardData, android
  <2>2. 1 \in DOMAIN work /\ Head(work) = work[1]
    BY <1>10, EmptySeq, LenProperties DEF lorieHandleClipboardData, TypeInv, TypeOK
  <2>3. cached' \in Texts => Had(cached', announced)
    BY <1>10, <2>2 DEF lorieHandleClipboardData, FreshInv, WorkFresh, IsText
  <2>4. CacheFresh'
    BY <1>10, <2>3 DEF lorieHandleClipboardData, CacheFresh, Had, android
  <2> QED BY <2>1, <2>4 DEF FreshInv
<1>11. CASE handleLorieEvents
  BY <1>11, EventQueued
<1>12. ASSUME NEW c \in Clients,
              \/ \E k \in Kinds : SetSelectionOwner(c, k)
              \/ \E t \in {"TEXT", "INFO", "OTHER"} : lorieProcConvertSelection(c, t)
              \/ ChangeProperty(c) \/ lorieProcSendEvent(c) \/ Refuse(c)
       PROVE  FreshInv'
  BY <1>12, FreshUntouched DEF SetSelectionOwner, lorieProcConvertSelection, ChangeProperty, lorieProcSendEvent,
     Refuse, freshVars, android, server
<1>13. CASE UNCHANGED vars
  BY <1>13, FreshUntouched DEF vars, android, server, freshVars
<1> QED
  BY <1>1, <1>3, <1>4, <1>5, <1>6, <1>7, <1>8, <1>9, <1>10, <1>11, <1>12, <1>13
  DEF Next, ServerStep, ActivityStep, ClientStep

(***************************************************************************)
(* "whatever is in our cache is now stale", for any number of copies and   *)
(* pastes: across races, lost connections and changes of the preference,   *)
(* the text in cachedData is one that Android has had since the last       *)
(* announcement that lorieHandleClipboardAnnounce has handled.             *)
(***************************************************************************)
THEOREM CacheIsFresh == Spec => []CacheFresh
<1>1. FreshInv => CacheFresh
  BY DEF FreshInv
<1> QED BY TypeInit, TypeNext, FreshInit, FreshNext, <1>1, PTL DEF Spec
-----------------------------------------------------------------------------
(* CacheCurrent and OwnerShown *)

LEMMA EmptyHas == \A t : ~Has(<<>>, t) /\ Answers(<<>>, t)
  BY DEF Has, Answers

LEMMA AppendHas ==
  ASSUME NEW S, NEW q \in Seq(S), NEW e \in S
  PROVE  /\ \A t : Has(Append(q, e), t) <=> Has(q, t) \/ e.type = t
         /\ \A x : Answers(Append(q, e), x) <=> Answers(q, x) /\ (e.type = "SEND" => e.text = x)
<1>1. /\ Append(q, e) \in Seq(S) /\ Len(Append(q, e)) = Len(q) + 1 /\ Len(q) \in Nat
      /\ DOMAIN q = 1..Len(q) /\ DOMAIN Append(q, e) = 1..Len(q)+1
      /\ \A i \in 1..Len(q) : Append(q, e)[i] = q[i]
      /\ Append(q, e)[Len(q) + 1] = e
  BY AppendProperties, LenProperties
<1> QED BY <1>1 DEF Has, Answers

LEMMA TailHas ==
  ASSUME NEW S, NEW q \in Seq(S), q # <<>>
  PROVE  /\ \A t : Has(q, t) <=> Head(q).type = t \/ Has(Tail(q), t)
         /\ \A x : Answers(q, x) <=> (Head(q).type = "SEND" => Head(q).text = x) /\ Answers(Tail(q), x)
<1>1. /\ Tail(q) \in Seq(S) /\ Len(Tail(q)) = Len(q) - 1 /\ Len(q) \in Nat \ {0}
      /\ DOMAIN q = 1..Len(q) /\ DOMAIN Tail(q) = 1..Len(q)-1
      /\ \A i \in 1..Len(q)-1 : Tail(q)[i] = q[i + 1]
      /\ Head(q) = q[1]
  BY HeadTailProperties, LenProperties, EmptySeq
<1>2. \A i \in DOMAIN q : q[i] = Head(q) \/ \E j \in DOMAIN Tail(q) : q[i] = Tail(q)[j]
  <2> TAKE i \in DOMAIN q
  <2>1. i = 1 \/ (i - 1 \in DOMAIN Tail(q) /\ q[i] = Tail(q)[i - 1])
    BY <1>1
  <2> QED BY <1>1, <2>1
<1>3. /\ \A j \in DOMAIN Tail(q) : j + 1 \in DOMAIN q /\ Tail(q)[j] = q[j + 1]
      /\ 1 \in DOMAIN q /\ Head(q) = q[1]
  BY <1>1
<1> QED BY <1>2, <1>3 DEF Has, Answers

LEMMA CalmInit == Init => CalmInv
<1> SUFFICES ASSUME Init PROVE CalmParts
  BY DEF CalmInv
<1>1. ~Has(up, "ENABLE") /\ ~Has(work, "ENABLE") /\ ~Exchange /\ ~Pasting /\ AnswerCurrent
  BY EmptyHas DEF Init, Exchange, Pasting, OnTheWay, AnswerCurrent
<1> QED BY <1>1, BoundsAreNat DEF Init, CalmParts, CalmSettings, ExchangeAlone, OnlyOwner, PasteAlone, CachedCurrent,
           TextShown, OnTheWay

\* What a step in a calm state knows
LEMMA CalmMeaning ==
  ASSUME TypeInv, CalmInv, calm
  PROVE  /\ conn /\ sync /\ enabled /\ ~Has(up, "ENABLE") /\ ~Has(work, "ENABLE")
         /\ Exchange => owner \in Clients /\ ~News
         /\ Pasting \/ targets # <<>> => owner = "server"
         /\ "server" \notin Clients
         /\ Exchange => ~Pasting
  BY BoundsAreNat DEF CalmInv, CalmParts, CalmSettings, ExchangeAlone, PasteAlone, OnTheWay

\* When nothing is under way, nobody exchanges or pastes anything.
LEMMA QuietMeaning ==
  ASSUME Quiet
  PROVE  ~Exchange /\ ~Pasting /\ AnswerCurrent /\ (\A t : ~OnTheWay(t)) /\ targets = <<>>
  BY EmptyHas DEF Quiet, Exchange, Pasting, AnswerCurrent, OnTheWay

calmVars == <<conn, sync, enabled, fresh, clip, up, work, down, owner, targets, cached, asked, replying, own, prop>>

LEMMA CalmUntouched ==
  ASSUME CalmInv, calm, UNCHANGED calmVars PROVE CalmParts'
  BY DEF calmVars, CalmInv, CalmParts, CalmSettings, ExchangeAlone, OnlyOwner, PasteAlone, AnswerCurrent,
     CachedCurrent, TextShown, Exchange, Pasting, News, OnTheWay, Has, Answers, Offering

LEMMA CalmCopyOnAndroid ==
  ASSUME TypeInv, CalmInv, calm, calm', NEW b \in BOOLEAN, CopyOnAndroid(b) PROVE CalmParts'
<1>1. Quiet
  BY DEF CopyOnAndroid
<1>2. Quiet' /\ UNCHANGED <<conn, sync, enabled, up, work, down, owner, targets, cached, asked, replying>>
  BY <1>1 DEF CopyOnAndroid, Quiet, server, xclients
<1>3. ~Exchange' /\ ~Pasting' /\ AnswerCurrent' /\ targets' = <<>>
  BY <1>2, EmptyHas DEF Quiet, Exchange, Pasting, AnswerCurrent, OnTheWay
<1>4. CalmSettings'
  BY <1>2, CalmMeaning DEF CalmSettings, OnTheWay
<1>5. clip' = NoText \/ News'
  BY DEF CopyOnAndroid, News
<1>6. OnlyOwner'
  BY <1>2 DEF OnlyOwner, Quiet
<1> QED BY <1>3, <1>4, <1>5, <1>6 DEF CalmParts, ExchangeAlone, PasteAlone, CachedCurrent, TextShown

LEMMA CalmAnnounce ==
  ASSUME TypeInv, CalmInv, calm, Announce,
         UNCHANGED <<conn, sync, enabled, clip, work, down, owner, targets, cached, asked, replying, own, prop>>
  PROVE  CalmParts'
<1>1. CASE sync /\ fresh /\ clip # NoText
  <2> DEFINE e == [type |-> "ANNOUNCE", stamp |-> Len(history)]
  <2>1. e \in Events /\ e.type = "ANNOUNCE"
    BY LenProperties DEF Events, TypeInv, TypeOK
  <2>2. up' = Append(up, e)
    BY <1>1, CalmMeaning DEF Announce, Written
  <2> HIDE DEF e
  <2>3. /\ \A t : Has(up', t) <=> Has(up, t) \/ t = "ANNOUNCE"
        /\ \A x : Answers(up', x) <=> Answers(up, x)
    BY <2>1, <2>2, AppendHas DEF TypeInv, TypeOK
  <2>4. News /\ News'
    BY <1>1, <2>3 DEF News, OnTheWay
  <2>5. ~Exchange /\ ~Exchange' /\ (Pasting' <=> Pasting) /\ AnswerCurrent'
    BY <2>3, <2>4, CalmMeaning DEF Exchange, Pasting, OnTheWay, AnswerCurrent, CalmInv, CalmParts
  <2>6. CalmSettings'
    BY <2>3 DEF CalmInv, CalmParts, CalmSettings, OnTheWay
  <2> QED BY <2>4, <2>5, <2>6 DEF CalmInv, CalmParts, ExchangeAlone, OnlyOwner, PasteAlone, CachedCurrent, TextShown
<1>2. CASE ~(sync /\ fresh /\ clip # NoText)
  BY <1>2, CalmUntouched DEF Announce, calmVars
<1> QED BY <1>1, <1>2

LEMMA CalmRequest ==
  ASSUME TypeInv, CalmInv, calm, requestClipboard PROVE CalmParts'
<1>1. /\ \A t : Has(down, t) <=> t = "REQUEST" \/ Has(down', t)
  <2>1. down \in Seq(Downward)
    BY DEF TypeInv, TypeOK, Downward
  <2> QED BY <2>1, TailHas DEF requestClipboard
<1>2. Pasting /\ owner = "server" /\ owner \notin Clients
  BY <1>1, CalmMeaning DEF Pasting
<1>3. UNCHANGED <<conn, sync, enabled, fresh, clip, work, owner, targets, cached, asked, replying, own, prop>>
  BY DEF requestClipboard, android, settings, server, xclients
<1>4. /\ \A t : Has(up', t) => Has(up, t) \/ t = "SEND"
      /\ \A t : Has(up, t) => Has(up', t)
      /\ Answers(up, clip) => Answers(up', clip)
  <2>1. CASE clip # NoText
    <3> DEFINE e == [type |-> "SEND", text |-> clip]
    <3>1. e \in Events /\ e.type = "SEND" /\ e.text = clip
      BY <2>1 DEF Events, TypeInv, TypeOK
    <3>2. up' = Append(up, e)
      BY <2>1, CalmMeaning DEF requestClipboard, Written
    <3> HIDE DEF e
    <3> QED BY <3>1, <3>2, AppendHas DEF TypeInv, TypeOK
  <2>2. CASE clip = NoText
    BY <2>2, CalmMeaning DEF requestClipboard
  <2> QED BY <2>1, <2>2
<1>5. News' <=> News
  BY <1>3, <1>4 DEF News, OnTheWay
<1>6. ~Exchange'
  BY <1>1, <1>2, <1>3, CalmMeaning DEF Exchange
<1>7. CalmSettings' /\ AnswerCurrent'
  BY <1>3, <1>4 DEF CalmInv, CalmParts, CalmSettings, AnswerCurrent, OnTheWay
<1> QED BY <1>2, <1>3, <1>5, <1>6, <1>7 DEF CalmInv, CalmParts, ExchangeAlone, OnlyOwner, PasteAlone, CachedCurrent, TextShown

LEMMA CalmSetText ==
  ASSUME TypeInv, CalmInv, calm, setClipboardText PROVE CalmParts'
<1>1. down \in Seq(Downward) /\ down # <<>> /\ Head(down).type = "SEND"
  BY DEF TypeInv, TypeOK, Downward, setClipboardText
<1>2. \A t : Has(down, t) <=> Head(down).type = t \/ Has(down', t)
  BY <1>1, TailHas DEF setClipboardText
<1>3. Exchange /\ owner \in Clients /\ ~News /\ ~Pasting /\ owner # "server" /\ targets = <<>>
  BY <1>1, <1>2, CalmMeaning DEF Exchange
<1>4. UNCHANGED <<conn, sync, enabled, up, work, owner, targets, cached, asked, replying, own, prop>> /\ ~fresh'
  BY DEF setClipboardText, settings, server, xclients
<1>5. ~News' /\ ~Pasting' /\ CalmSettings'
  BY <1>2, <1>3, <1>4, CalmMeaning DEF News, Pasting, CalmSettings, OnTheWay
<1>6. AnswerCurrent'
  BY <1>3, <1>4 DEF AnswerCurrent, Answers, Pasting, OnTheWay, Has
<1>7. ASSUME own[owner].kind \in {"UTF8", "STRING"} PROVE ~Exchange' /\ clip' = own[owner].text
  <2>1. Offering(owner)
    BY <1>3, <1>7 DEF CalmInv, CalmParts, TextShown
  <2>2. asked[owner] = <<>> /\ replying[owner] = "no" /\ down = <<[type |-> "SEND", text |-> own[owner].text]>>
    BY <1>1, <2>1 DEF Offering
  <2>3. down' = <<>> /\ clip' = own[owner].text
    BY <2>2 DEF setClipboardText
  <2>4. \A c \in Clients : asked[c] = <<>> /\ replying[c] = "no"
    BY <2>2 DEF CalmInv, CalmParts, OnlyOwner
  <2> QED BY <1>4, <2>3, <2>4, EmptyHas DEF Exchange
<1> QED BY <1>3, <1>4, <1>5, <1>6, <1>7 DEF CalmInv, CalmParts, ExchangeAlone, OnlyOwner, PasteAlone, CachedCurrent, TextShown

LEMMA CalmQueued ==
  ASSUME TypeInv, CalmInv, calm, handleLorieEvents PROVE CalmParts'
<1>1. up \in Seq(Events) /\ up # <<>> /\ work \in Seq(Events) /\ Head(up) \in Events
  BY HeadTailProperties DEF TypeInv, TypeOK, handleLorieEvents
<1>2. /\ \A t : Has(up, t) <=> Head(up).type = t \/ Has(up', t)
      /\ \A x : Answers(up, x) <=> (Head(up).type = "SEND" => Head(up).text = x) /\ Answers(up', x)
  BY <1>1, TailHas DEF handleLorieEvents
<1>3. Head(up).type # "ENABLE"
  BY <1>2, CalmMeaning
<1>4. work' = Append(work, Head(up)) /\ enabled' = enabled
  BY <1>3 DEF handleLorieEvents
<1>5. /\ \A t : Has(work', t) <=> Has(work, t) \/ Head(up).type = t
      /\ \A x : Answers(work', x) <=> Answers(work, x) /\ (Head(up).type = "SEND" => Head(up).text = x)
  BY <1>1, <1>4, AppendHas
<1>6. UNCHANGED <<conn, sync, fresh, clip, down, owner, targets, cached, asked, replying, own, prop>>
  BY DEF handleLorieEvents, android, settings, server, xclients
<1>7. \A t : (Has(up', t) \/ Has(work', t)) <=> (Has(up, t) \/ Has(work, t))
  BY <1>2, <1>5
<1>8. (News' <=> News) /\ (Pasting' <=> Pasting) /\ (Exchange' <=> Exchange) /\ CalmSettings'
  BY <1>4, <1>6, <1>7 DEF News, Pasting, Exchange, OnTheWay, CalmSettings, CalmInv, CalmParts
<1>9. AnswerCurrent'
  BY <1>2, <1>5, <1>6 DEF AnswerCurrent, CalmInv, CalmParts
<1> QED BY <1>6, <1>8, <1>9 DEF CalmInv, CalmParts, ExchangeAlone, OnlyOwner, PasteAlone, CachedCurrent, TextShown, Offering

LEMMA CalmAnnounced ==
  ASSUME TypeInv, CalmInv, calm, lorieHandleClipboardAnnounce PROVE CalmParts'
<1>1. /\ \A t : Has(work, t) <=> t = "ANNOUNCE" \/ Has(work', t)
      /\ \A x : Answers(work, x) => Answers(work', x)
  BY TailHas DEF lorieHandleClipboardAnnounce, TypeInv, TypeOK
<1>2. News /\ ~Exchange
  BY <1>1, CalmMeaning DEF News, OnTheWay
<1>3. UNCHANGED <<conn, sync, enabled, fresh, clip, up, down, targets, asked, replying, own, prop>>
      /\ owner' = "server" /\ cached' = NoText
  BY DEF lorieHandleClipboardAnnounce, android, settings, xclients
<1>4. ~Exchange' /\ \A c \in Clients : asked[c] = <<>> /\ replying[c] = "no"
  BY <1>2, <1>3 DEF Exchange
<1>5. CalmSettings' /\ AnswerCurrent'
  BY <1>1, <1>3 DEF CalmInv, CalmParts, CalmSettings, AnswerCurrent, OnTheWay
<1> QED BY <1>3, <1>4, <1>5, BoundsAreNat DEF CalmParts, ExchangeAlone, OnlyOwner, PasteAlone, CachedCurrent, TextShown

LEMMA CalmAnswered ==
  ASSUME TypeInv, CalmInv, calm, lorieHandleClipboardData PROVE CalmParts'
<1>1. /\ \A t : Has(work, t) <=> t = "SEND" \/ Has(work', t)
      /\ \A x : Answers(work, x) => Head(work).text = x /\ Answers(work', x)
  BY TailHas DEF lorieHandleClipboardData, TypeInv, TypeOK
<1>2. owner = "server" /\ owner \notin Clients /\ ~Exchange
  BY <1>1, CalmMeaning DEF Pasting, OnTheWay
<1>3. UNCHANGED <<conn, sync, enabled, fresh, clip, up, down, owner, asked, replying, own, prop>> /\ cached' = clip
  BY <1>1 DEF lorieHandleClipboardData, android, settings, xclients, CalmInv, CalmParts, AnswerCurrent
<1>4. ~Exchange'
  BY <1>2, <1>3 DEF Exchange
<1>5. CalmSettings' /\ AnswerCurrent'
  BY <1>1, <1>3 DEF CalmInv, CalmParts, CalmSettings, AnswerCurrent, OnTheWay
<1> QED BY <1>2, <1>3, <1>4, <1>5 DEF CalmInv, CalmParts, ExchangeAlone, OnlyOwner, PasteAlone, CachedCurrent, TextShown

LEMMA CalmConvert ==
  ASSUME TypeInv, CalmInv, calm, NEW c \in Clients, NEW t \in {"TEXT", "INFO", "OTHER"},
         lorieProcConvertSelection(c, t)
  PROVE  CalmParts'
<1>1. Has(down', "SEND") <=> Has(down, "SEND")
  <2>1. down \in Seq(Downward) /\ [type |-> "REQUEST"] \in Downward
    BY DEF TypeInv, TypeOK, Downward
  <2>2. Has(Append(down, [type |-> "REQUEST"]), "SEND") <=> Has(down, "SEND")
    BY <2>1, AppendHas
  <2>3. down' \in {down, Append(down, [type |-> "REQUEST"])}
    BY DEF lorieProcConvertSelection, Written
  <2> QED BY <2>2, <2>3
<1>2. UNCHANGED <<conn, sync, enabled, fresh, clip, up, work, owner, cached, asked, replying, own, prop>>
      /\ owner = "server" /\ owner \notin Clients
  BY BoundsAreNat DEF lorieProcConvertSelection, android, settings, xclients
<1>3. (Exchange' <=> Exchange) /\ (News' <=> News) /\ CalmSettings' /\ AnswerCurrent'
  BY <1>1, <1>2 DEF Exchange, News, OnTheWay, CalmInv, CalmParts, CalmSettings, AnswerCurrent
<1> QED BY <1>2, <1>3 DEF CalmInv, CalmParts, ExchangeAlone, OnlyOwner, PasteAlone, CachedCurrent, TextShown

LEMMA CalmCopyInX ==
  ASSUME TypeInv, CalmInv, calm, calm', NEW c \in Clients, NEW k \in Kinds, SetSelectionOwner(c, k)
  PROVE  CalmParts'
<1>1. Quiet /\ ~(fresh /\ clip # NoText)
  BY DEF SetSelectionOwner
<1>2. UNCHANGED <<conn, sync, enabled, fresh, clip, up, work, down, targets, cached, replying, prop>> /\ owner' = c
  BY DEF SetSelectionOwner, android
<1>3. asked' = [asked EXCEPT ![c] = <<"TARGETS">>]
  <2>1. asked' = [asked EXCEPT ![c] = Append(@, "TARGETS")] /\ asked[c] = <<>>
    BY <1>1, CalmMeaning DEF SetSelectionOwner, SelectionRequest, Quiet
  <2>2. Append(<<>>, "TARGETS") = <<"TARGETS">>
    OBVIOUS
  <2> QED BY <2>1, <2>2
<1>4. ~News' /\ ~Pasting' /\ AnswerCurrent' /\ targets' = <<>> /\ CalmSettings'
  BY <1>1, <1>2, EmptyHas, CalmMeaning DEF News, Pasting, AnswerCurrent, OnTheWay, Quiet, CalmSettings
<1>5. asked'[c] = <<"TARGETS">> /\ \A d \in Clients : replying[d] = "no" /\ (d # c => asked'[d] = <<>>)
  BY <1>1, <1>3 DEF Quiet, TypeInv, TypeOK
<1>6. OnlyOwner' /\ Offering(owner)' /\ Exchange'
  BY <1>1, <1>2, <1>5 DEF OnlyOwner, Offering, Exchange, Quiet
<1> QED BY <1>2, <1>4, <1>6, BoundsAreNat DEF CalmParts, ExchangeAlone, PasteAlone, CachedCurrent, TextShown

LEMMA CalmProperty ==
  ASSUME TypeInv, CalmInv, calm, NEW c \in Clients, ChangeProperty(c) PROVE CalmParts'
<1>1. c = owner /\ Exchange /\ ~News /\ ~Pasting /\ targets = <<>> /\ owner # "server"
  BY CalmMeaning DEF ChangeProperty, Exchange, CalmInv, CalmParts, OnlyOwner
<1>2. UNCHANGED <<conn, sync, enabled, fresh, clip, up, work, down, owner, targets, cached, own>>
  BY DEF ChangeProperty, android, settings, server
<1>3. ~News' /\ ~Pasting' /\ CalmSettings' /\ AnswerCurrent'
  BY <1>1, <1>2 DEF News, Pasting, OnTheWay, CalmInv, CalmParts, CalmSettings, AnswerCurrent
<1>4. /\ Head(asked[c]) \in TargetNames
      /\ asked' = [asked EXCEPT ![c] = Tail(asked[c])]
      /\ replying' = [replying EXCEPT ![c] = Head(asked[c])]
      /\ prop' = [prop EXCEPT ![Head(asked[c])] = own[c]]
  BY HeadTailProperties DEF ChangeProperty, TypeInv, TypeOK, TargetNames
<1>5. OnlyOwner'
  BY <1>1, <1>2, <1>4 DEF OnlyOwner, CalmInv, CalmParts, TypeInv, TypeOK
<1>6. Exchange'
  BY <1>4 DEF Exchange, TargetNames, TypeInv, TypeOK
<1>7. ASSUME own[owner].kind \in {"UTF8", "STRING"} PROVE Offering(owner)'
  <2>1. Offering(c)
    BY <1>1, <1>7 DEF CalmInv, CalmParts, TextShown
  <2>2. asked[c] # <<>>
    BY DEF ChangeProperty
  <2>3. PICK t \in {"TARGETS", own[c].kind} : asked[c] = <<t>> /\ down = <<>>
    BY <2>1, <2>2 DEF Offering
  <2>4. Tail(asked[c]) = <<>> /\ Head(asked[c]) = t
    BY <2>3
  <2>5. asked'[c] = <<>> /\ replying'[c] = t /\ prop'[t] = own[c] /\ t \in TargetNames
    BY <1>4, <2>4 DEF TypeInv, TypeOK, TargetNames
  <2> QED BY <1>1, <1>2, <2>3, <2>5 DEF Offering
<1> QED BY <1>1, <1>2, <1>3, <1>5, <1>6, <1>7 DEF CalmParts, ExchangeAlone, PasteAlone, CachedCurrent, TextShown

LEMMA CalmNotified ==
  ASSUME TypeInv, CalmInv, calm, NEW c \in Clients, lorieProcSendEvent(c) PROVE CalmParts'
<1>1. c = owner /\ Exchange /\ ~News /\ ~Pasting /\ targets = <<>> /\ owner # "server"
  BY CalmMeaning DEF lorieProcSendEvent, Exchange, CalmInv, CalmParts, OnlyOwner
<1>2. UNCHANGED <<conn, sync, enabled, fresh, clip, up, work, owner, targets, cached, own, prop>>
      /\ replying' = [replying EXCEPT ![c] = "no"]
  BY DEF lorieProcSendEvent, android, settings, server
<1>3. Has(down', "REQUEST") <=> Has(down, "REQUEST")
  <2>1. replying[c] \in TargetNames /\ prop[replying[c]] \in Selection /\ Offered(prop[replying[c]])
    BY DEF lorieProcSendEvent, TargetNames, TypeInv, TypeOK, TextOffered
  <2> DEFINE e == [type |-> "SEND", text |-> prop[replying[c]].text]
  <2>2. replying[c] # "TARGETS" /\ Convertible(prop[replying[c]], replying[c]) => e \in Downward
    BY <2>1 DEF Convertible, Offered, Downward, Selection, TargetNames
  <2>3. e.type = "SEND"
    OBVIOUS
  <2>4. down' = down \/ (e \in Downward /\ down' = Append(down, e))
    BY <2>2, CalmMeaning DEF lorieProcSendEvent, Written
  <2> HIDE DEF e
  <2>5. down \in Seq(Downward)
    BY DEF TypeInv, TypeOK, Downward
  <2>6. e \in Downward => (Has(Append(down, e), "REQUEST") <=> Has(down, "REQUEST"))
    BY <2>3, <2>5, AppendHas
  <2> QED BY <2>4, <2>6
<1>4. ~News' /\ ~Pasting' /\ CalmSettings' /\ AnswerCurrent'
  BY <1>1, <1>2, <1>3 DEF News, Pasting, OnTheWay, CalmInv, CalmParts, CalmSettings, AnswerCurrent
<1>5. \A d \in Clients : d # c => asked'[d] = asked[d] /\ replying'[d] = replying[d]
  BY <1>1, <1>2 DEF lorieProcSendEvent, SelectionRequest, TypeInv, TypeOK
<1>6. OnlyOwner'
  BY <1>1, <1>2, <1>5 DEF OnlyOwner, CalmInv, CalmParts
<1>7. ASSUME own[owner].kind \in {"UTF8", "STRING"} PROVE Offering(owner)' /\ Exchange'
  <2>1. Offering(c) /\ replying[c] # "no" /\ replying'[c] = "no"
    BY <1>1, <1>2, <1>7 DEF CalmInv, CalmParts, TextShown, lorieProcSendEvent, TypeInv, TypeOK
  <2>2. CASE replying[c] = "TARGETS"
    <3>1. asked[c] = <<>> /\ prop["TARGETS"] = own[c] /\ down = <<>>
      BY <1>1, <1>7, <2>1, <2>2 DEF Offering
    <3>2. /\ WantedTarget(own[c].kind) = own[c].kind
          /\ down' = down
          /\ asked' = [asked EXCEPT ![c] = Append(@, own[c].kind)]
      BY <1>1, <1>7, <2>2, <3>1, CalmMeaning DEF lorieProcSendEvent, SelectionRequest, WantedTarget
    <3>3. Append(<<>>, own[c].kind) = <<own[c].kind>>
      OBVIOUS
    <3>4. asked'[c] = <<own[c].kind>>
      BY <3>1, <3>2, <3>3 DEF TypeInv, TypeOK
    <3> QED BY <1>1, <1>2, <2>1, <3>1, <3>2, <3>4 DEF Offering, Exchange
  <2>3. CASE replying[c] # "TARGETS"
    <3>1. asked[c] = <<>> /\ replying[c] = own[c].kind /\ prop[own[c].kind] = own[c] /\ down = <<>>
      BY <1>1, <1>7, <2>1, <2>3 DEF Offering
    <3>2. asked' = asked /\ down' = Append(<<>>, [type |-> "SEND", text |-> own[c].text])
      BY <2>3, <3>1, CalmMeaning DEF lorieProcSendEvent, Convertible, Written
    <3>3. down' = <<[type |-> "SEND", text |-> own[c].text]>>
      BY <3>2
    <3>4. Has(down', "SEND")
      BY <3>3 DEF Has
    <3> QED BY <1>1, <1>2, <2>1, <3>1, <3>2, <3>3, <3>4 DEF Offering, Exchange
  <2> QED BY <2>2, <2>3
<1> QED BY <1>1, <1>2, <1>4, <1>6, <1>7 DEF CalmParts, ExchangeAlone, PasteAlone, CachedCurrent, TextShown

LEMMA CalmNext == TypeInv /\ CalmInv /\ [Next]_vars => CalmInv'
<1> SUFFICES ASSUME TypeInv, CalmInv, [Next]_vars, calm' PROVE CalmParts'
  BY DEF CalmInv
<1>1. ASSUME NEW b \in BOOLEAN, CopyOnAndroid(b) PROVE CalmParts'
  <2>1. calm
    BY <1>1 DEF CopyOnAndroid
  <2> QED BY <1>1, <2>1, CalmCopyOnAndroid
<1>2. ASSUME NEW b \in BOOLEAN, onWindowFocusChanged(b) PROVE CalmParts'
  <2>1. calm /\ UNCHANGED <<conn, sync, enabled, clip, work, down, owner, targets, cached, asked, replying, own, prop>>
    BY <1>2 DEF onWindowFocusChanged, server, xclients
  <2>2. Announce \/ UNCHANGED <<fresh, up>>
    BY <1>2 DEF onWindowFocusChanged
  <2> QED BY <2>1, <2>2, CalmAnnounce, CalmUntouched DEF calmVars
<1>3. CASE handleClipboardChange
  <2>1. calm /\ UNCHANGED <<conn, sync, enabled, clip, work, down, owner, targets, cached, asked, replying, own, prop>>
    BY <1>3 DEF handleClipboardChange, settings, server, xclients
  <2> QED BY <1>3, <2>1, CalmAnnounce DEF handleClipboardChange
<1>4. CASE requestClipboard
  BY <1>4, CalmRequest DEF requestClipboard, settings
<1>5. CASE setClipboardText
  BY <1>5, CalmSetText DEF setClipboardText, settings
<1>6. CASE handleLorieEvents
  BY <1>6, CalmQueued DEF handleLorieEvents, settings
<1>7. CASE reloadPreferences \/ Hangup
  BY <1>7 DEF reloadPreferences, Hangup
<1>8. CASE Reconnect
  BY <1>8, CalmMeaning DEF Reconnect
<1>9. CASE lorieHandleClipboardAnnounce
  BY <1>9, CalmAnnounced DEF lorieHandleClipboardAnnounce, settings
<1>10. CASE lorieHandleClipboardData
  BY <1>10, CalmAnswered DEF lorieHandleClipboardData, settings
<1>11. ASSUME NEW c \in Clients, NEW k \in Kinds, SetSelectionOwner(c, k) PROVE CalmParts'
  <2>1. calm
    BY <1>11 DEF SetSelectionOwner
  <2> QED BY <1>11, <2>1, CalmCopyInX
<1>12. ASSUME NEW c \in Clients, NEW t \in {"TEXT", "INFO", "OTHER"}, lorieProcConvertSelection(c, t)
       PROVE  CalmParts'
  BY <1>12, CalmConvert DEF lorieProcConvertSelection, settings
<1>13. ASSUME NEW c \in Clients, ChangeProperty(c) PROVE CalmParts'
  BY <1>13, CalmProperty DEF ChangeProperty, settings
<1>14. ASSUME NEW c \in Clients, lorieProcSendEvent(c) PROVE CalmParts'
  BY <1>14, CalmNotified DEF lorieProcSendEvent, settings
<1>15. ASSUME NEW c \in Clients, Refuse(c) PROVE CalmParts'
  BY <1>15 DEF Refuse, settings, CalmInv, CalmParts, OnlyOwner
<1>16. CASE UNCHANGED vars
  BY <1>16, CalmUntouched DEF vars, android, settings, server, xclients, calmVars
<1> QED
  BY <1>1, <1>2, <1>3, <1>4, <1>5, <1>6, <1>7, <1>8, <1>9, <1>10, <1>11, <1>12, <1>13, <1>14, <1>15, <1>16
  DEF Next, ServerStep, ActivityStep, ClientStep

\* When everything has settled nothing is news.
LEMMA SettledMeaning ==
  ASSUME CalmInv, Settled PROVE CalmParts /\ ~News /\ ~Exchange
  BY QuietMeaning DEF Settled, CalmInv, News

(***************************************************************************)
(* "cachedData will be NULL for the first request, but can then be reused  *)
(* once we've gotten the data once from the client": once copies that      *)
(* waited for each other have settled, a server that owns CLIPBOARD hands  *)
(* out Android's text from cachedData, or asks for it.                     *)
(***************************************************************************)
THEOREM CacheIsCurrent == Spec => []CacheCurrent
<1>1. CalmInv => CacheCurrent
  BY SettledMeaning DEF CacheCurrent, CalmParts, CachedCurrent
<1> QED BY TypeInit, TypeNext, CalmInit, CalmNext, <1>1, PTL DEF Spec

(***************************************************************************)
(* A text copied in X has reached Android once the copies have settled:    *)
(* the exchange of lorieSelectionCallback, lorieProcSendEvent and          *)
(* lorieHandleSelection with the owner ends with setClipboardText, for any *)
(* number of clients.                                                      *)
(***************************************************************************)
THEOREM OwnerIsShown == Spec => []OwnerShown
<1>1. CalmInv => OwnerShown
  BY SettledMeaning DEF OwnerShown, CalmParts, TextShown
<1> QED BY TypeInit, TypeNext, CalmInit, CalmNext, <1>1, PTL DEF Spec
-----------------------------------------------------------------------------
(* The text conversions: the codes of single characters *)

\* A division by 4096 or 262144 is one by 64, repeated.
LEMMA Divided ==
  ASSUME NEW x \in Nat
  PROVE /\ x \div 64 \in Nat /\ x % 64 \in 0..63 /\ x = 64 * (x \div 64) + (x % 64)
        /\ x \div 4096 = (x \div 64) \div 64 /\ x \div 262144 = (x \div 4096) \div 64
<1>1. x \div 64 \in Nat /\ x % 64 \in 0..63 /\ x = 64 * (x \div 64) + (x % 64)
  OBVIOUS
<1>2. x \div 4096 = (x \div 64) \div 64
  OBVIOUS
<1>3. x \div 262144 = (x \div 4096) \div 64
  OBVIOUS
<1> QED BY <1>1, <1>2, <1>3

\* Byte b leads a code of n bytes, for both decoders.
Leads(b, n) == b \in Nat \ {0} /\ CodeLength(b) = n /\ Continuations(b) = n - 1

\* Byte b follows a lead byte.
Continues(b) == b \in Nat /\ IsContinuation(b)

\* What the bytes of a code tell, and the bits they carry.
LEMMA LowSix ==
  ASSUME NEW r \in Nat, r < 64
  PROVE Continues(128 + r) /\ (128 + r) % 64 = r
BY DEF Continues, IsContinuation

LEMMA LeadingBits ==
  ASSUME NEW r \in Nat
  PROVE /\ r # 0 /\ r < 128 => Leads(r, 1)
        /\ r < 32 => Leads(192 + r, 2) /\ (192 + r) % 32 = r
        /\ r < 16 => Leads(224 + r, 3) /\ (224 + r) % 16 = r
        /\ r < 8 => Leads(240 + r, 4) /\ (240 + r) % 8 = r
<1>1. r # 0 /\ r < 128 => Leads(r, 1)
  BY DEF Leads, CodeLength, Continuations
<1>2. r < 32 => Leads(192 + r, 2)
  BY DEF Leads, CodeLength, Continuations
<1>3. r < 16 => Leads(224 + r, 3)
  BY DEF Leads, CodeLength, Continuations
<1>4. r < 8 => Leads(240 + r, 4)
  BY DEF Leads, CodeLength, Continuations
<1>5. /\ r < 32 => (192 + r) % 32 = r
      /\ r < 16 => (224 + r) % 16 = r
      /\ r < 8 => (240 + r) % 8 = r
  OBVIOUS
<1> QED BY <1>1, <1>2, <1>3, <1>4, <1>5

\* A code of each length and the code point in its bits.
LEMMA OneByte ==
  ASSUME NEW c \in Nat, c > 0, c < 128
  PROVE Code(c) = <<c>> /\ Leads(c, 1)
BY LeadingBits DEF Code

LEMMA TwoBytes ==
  ASSUME NEW c \in Nat, c >= 128, c < 2048
  PROVE \E a, b \in Nat :
          /\ Code(c) = <<a, b>> /\ Leads(a, 2) /\ Continues(b)
          /\ c = 64 * (a % 32) + (b % 64)
<1> DEFINE p == c \div 64
           w == c % 64
<1>1. p \in Nat /\ w \in Nat /\ w < 64 /\ c = 64 * p + w
  BY Divided
<1>2. Code(c) = <<192 + p, 128 + w>>
  BY DEF Code
<1> HIDE DEF p, w
<1>3. p < 32
  BY <1>1
<1> DEFINE a == 192 + p
           b == 128 + w
<1>4. Leads(a, 2) /\ a % 32 = p /\ Continues(b) /\ b % 64 = w
  <2>1. Leads(192 + p, 2) /\ (192 + p) % 32 = p
    BY <1>1, <1>3, LeadingBits
  <2>2. Continues(128 + w) /\ (128 + w) % 64 = w
    BY <1>1, LowSix
  <2> QED BY <2>1, <2>2
<1>5. a \in Nat /\ b \in Nat /\ Code(c) = <<a, b>>
  BY <1>1, <1>2
<1> HIDE DEF a, b
<1>6. c = 64 * (a % 32) + (b % 64)
  BY <1>1, <1>4
<1> QED BY <1>4, <1>5, <1>6

OfThree(c, a, b, d) ==
  /\ Code(c) = <<a, b, d>> /\ Leads(a, 3) /\ Continues(b) /\ Continues(d)
  /\ c = 64 * (64 * (a % 16) + (b % 64)) + (d % 64)

LEMMA ThreeBytes ==
  ASSUME NEW c \in Nat, c >= 2048, c < 65536
  PROVE \E a, b, d \in Nat : OfThree(c, a, b, d)
<1> DEFINE q == c \div 64
           p == c \div 4096
           u == q % 64
           w == c % 64
<1>1. q \in Nat /\ w \in Nat /\ w < 64 /\ c = 64 * q + w /\ p = q \div 64
  BY Divided
<1>2. p \in Nat /\ u \in Nat /\ u < 64 /\ q = 64 * p + u
  <2> HIDE DEF q, p
  <2> QED BY <1>1, Divided
<1>3. Code(c) = <<224 + p, 128 + u, 128 + w>>
  BY DEF Code
<1> HIDE DEF p, q, u, w
<1>4. p < 16
  BY <1>1, <1>2
<1> DEFINE a == 224 + p
           b == 128 + u
           d == 128 + w
<1>5. /\ Leads(a, 3) /\ a % 16 = p
      /\ Continues(b) /\ b % 64 = u /\ Continues(d) /\ d % 64 = w
  BY <1>1, <1>2, <1>4, LowSix, LeadingBits
<1>6. a \in Nat /\ b \in Nat /\ d \in Nat /\ Code(c) = <<a, b, d>>
  BY <1>1, <1>2, <1>3
<1> HIDE DEF a, b, d
<1>7. c = 64 * (64 * (a % 16) + (b % 64)) + (d % 64)
  BY <1>1, <1>2, <1>5
<1>8. OfThree(c, a, b, d)
  BY <1>5, <1>6, <1>7 DEF OfThree
<1> QED BY <1>6, <1>8

OfFour(c, a, b, d, e) ==
  /\ Code(c) = <<a, b, d, e>>
  /\ Leads(a, 4) /\ Continues(b) /\ Continues(d) /\ Continues(e)
  /\ c = 64 * (64 * (64 * (a % 8) + (b % 64)) + (d % 64)) + (e % 64)

LEMMA FourBytes ==
  ASSUME NEW c \in Nat, c >= 65536, c <= 1114111
  PROVE \E a, b, d, e \in Nat : OfFour(c, a, b, d, e)
<1> DEFINE q == c \div 64
           r == c \div 4096
           p == c \div 262144
           t == r % 64
           u == q % 64
           w == c % 64
<1>1. q \in Nat /\ w \in Nat /\ w < 64 /\ c = 64 * q + w /\ r = q \div 64 /\ p = r \div 64
  BY Divided
<1>2. r \in Nat /\ u \in Nat /\ u < 64 /\ q = 64 * r + u
  <2> HIDE DEF q, r
  <2> QED BY <1>1, Divided
<1>3. p \in Nat /\ t \in Nat /\ t < 64 /\ r = 64 * p + t
  <2> HIDE DEF r, p
  <2> QED BY <1>1, <1>2, Divided
<1>4. Code(c) = <<240 + p, 128 + t, 128 + u, 128 + w>>
  BY DEF Code
<1> HIDE DEF p, q, r, t, u, w
<1>5. p < 8
  BY <1>1, <1>2, <1>3
<1> DEFINE a == 240 + p
           b == 128 + t
           d == 128 + u
           e == 128 + w
<1>6. /\ Leads(a, 4) /\ a % 8 = p
      /\ Continues(b) /\ b % 64 = t
      /\ Continues(d) /\ d % 64 = u
      /\ Continues(e) /\ e % 64 = w
  BY <1>1, <1>2, <1>3, <1>5, LowSix, LeadingBits
<1>7. a \in Nat /\ b \in Nat /\ d \in Nat /\ e \in Nat /\ Code(c) = <<a, b, d, e>>
  BY <1>1, <1>2, <1>3, <1>4
<1> HIDE DEF a, b, d, e
<1>8. c = 64 * (64 * (64 * (a % 8) + (b % 64)) + (d % 64)) + (e % 64)
  BY <1>1, <1>2, <1>3, <1>6
<1>9. OfFour(c, a, b, d, e)
  BY <1>6, <1>7, <1>8 DEF OfFour
<1> QED BY <1>7, <1>9

\* What both decoders need of the code of c in place i of s.
Stands(s, i, c) == \A k \in 1..Len(Code(c)) : s[i + k - 1] = Code(c)[k]

\* A code is one to four bytes: a lead byte that tells how many, and continuations.
LEMMA CodeShape ==
  ASSUME NEW c, IsCharacter(c)
  PROVE /\ Code(c) \in Seq(Nat) /\ Len(Code(c)) \in 1..4 /\ Leads(Code(c)[1], Len(Code(c)))
        /\ \A k \in 2..Len(Code(c)) : Continues(Code(c)[k])
<1>0. c \in Nat /\ c > 0 /\ c <= 1114111
  BY DEF IsCharacter
<1>1. CASE c < 128
  <2>1. Code(c) = <<c>> /\ Leads(c, 1)
    BY <1>0, <1>1, OneByte
  <2> QED BY <1>0, <2>1
<1>2. CASE c >= 128 /\ c < 2048
  <2>1. PICK a, b \in Nat : Code(c) = <<a, b>> /\ Leads(a, 2) /\ Continues(b)
    BY <1>0, <1>2, TwoBytes
  <2> QED BY <2>1
<1>3. CASE c >= 2048 /\ c < 65536
  <2>1. PICK a, b, d \in Nat : OfThree(c, a, b, d)
    BY <1>0, <1>3, ThreeBytes
  <2> QED BY <2>1 DEF OfThree
<1>4. CASE c >= 65536
  <2>1. PICK a, b, d, e \in Nat : OfFour(c, a, b, d, e)
    BY <1>0, <1>4, FourBytes
  <2> QED BY <2>1 DEF OfFour
<1> QED BY <1>0, <1>1, <1>2, <1>3, <1>4

\* What the bits read so far amount to.
Bits(s, i, n, g) ==
  g = [k \in 0..n |-> IF k = 0 THEN LeadBits(s[i], n) ELSE 64 * g[k - 1] + (s[i + k] % 64)]

LEMMA BitsRead ==
  ASSUME NEW s, NEW i, NEW n \in 0..3
  PROVE \E g : Bits(s, i, n, g)
<1> DEFINE v == LeadBits(s[i], n)
           x == 64 * v + (s[i + 1] % 64)
           y == 64 * x + (s[i + 2] % 64)
           z == 64 * y + (s[i + 3] % 64)
           g == [k \in 0..n |-> CASE k = 0 -> v [] k = 1 -> x [] k = 2 -> y [] OTHER -> z]
<1>1. x = 64 * v + (s[i + 1] % 64) /\ y = 64 * x + (s[i + 2] % 64) /\ z = 64 * y + (s[i + 3] % 64)
  OBVIOUS
<1>2. v = LeadBits(s[i], n)
  OBVIOUS
<1> HIDE DEF v, x, y, z
<1>3. ASSUME NEW k \in 0..n
      PROVE g[k] = IF k = 0 THEN LeadBits(s[i], n) ELSE 64 * g[k - 1] + (s[i + k] % 64)
  <2>1. CASE k = 0
    BY <1>2, <2>1
  <2>2. CASE k = 1
    BY <1>1, <2>2
  <2>3. CASE k = 2
    BY <1>1, <2>3
  <2>4. CASE k = 3
    BY <1>1, <2>4
  <2> QED BY <2>1, <2>2, <2>3, <2>4
<1>4. g = [k \in 0..n |-> g[k]]
  OBVIOUS
<1> HIDE DEF g
<1>5. Bits(s, i, n, g)
  BY <1>3, <1>4 DEF Bits
<1> QED BY <1>5

\* lorieUtf8ToUCS4 finds the character whose code stands in place i, and its length.
LEMMA Decoded ==
  ASSUME NEW s, NEW i \in Nat, i > 0, Len(s) \in Nat,
         NEW c, IsCharacter(c),
         Stands(s, i, c), i + Len(Code(c)) - 1 <= Len(s)
  PROVE lorieUtf8ToUCS4(s, i) = [ucs |-> c, len |-> Len(Code(c))]
<1> DEFINE m == Len(Code(c))
           n == Continuations(s[i])
           f == CHOOSE g : Bits(s, i, n, g)
<1>1. m \in 1..4 /\ Leads(Code(c)[1], m) /\ \A k \in 2..m : Continues(Code(c)[k])
  BY CodeShape
<1>2. s[i] = Code(c)[1] /\ \A k \in 1..m : s[i + k - 1] = Code(c)[k]
  <2>1. s[i + 1 - 1] = Code(c)[1]
    BY <1>1 DEF Stands
  <2> QED BY <2>1 DEF Stands
<1>3. n = m - 1 /\ n \in 0..3
  <2>1. n = m - 1
    BY <1>1, <1>2, Zenon DEF Leads
  <2> QED BY <1>1, <2>1
<1>4. Bits(s, i, n, f)
  <2> HIDE DEF n
  <2> QED BY <1>3, BitsRead, Zenon
<1>5. \A k \in 0..n : f[k] = IF k = 0 THEN LeadBits(s[i], n) ELSE 64 * f[k - 1] + (s[i + k] % 64)
  BY <1>4, Zenon DEF Bits
<1>6. \A k \in 1..n : s[i + k] = Code(c)[k + 1] /\ IsContinuation(ByteAt(s, i + k))
  <2> SUFFICES ASSUME NEW k \in 1..n PROVE s[i + k] = Code(c)[k + 1] /\ IsContinuation(ByteAt(s, i + k))
    OBVIOUS
  <2>1. k + 1 \in 2..m /\ i + (k + 1) - 1 = i + k /\ i + k <= Len(s)
    BY <1>1, <1>3
  <2>2. s[i + k] = Code(c)[k + 1] /\ Continues(s[i + k])
    BY <1>1, <1>2, <2>1
  <2> QED BY <2>1, <2>2 DEF ByteAt, Continues
<1>7. f[n] = c
  <2> HIDE DEF f, n
  <2> USE DEF IsCharacter
  <2>0. f[0] = LeadBits(s[i], n)
    BY <1>3, <1>5
  <2>5. \A k \in 1..n : f[k] = 64 * f[k - 1] + (s[i + k] % 64)
    <3> SUFFICES ASSUME NEW k \in 1..n PROVE f[k] = 64 * f[k - 1] + (s[i + k] % 64)
      OBVIOUS
    <3>1. k \in 0..n /\ k # 0
      BY <1>3
    <3> QED BY <1>5, <3>1
  <2>1. CASE c < 128
    <3>1. Code(c) = <<c>>
      BY <2>1, OneByte
    <3>2. m = 1 /\ Code(c)[1] = c
      BY <3>1
    <3> QED BY <1>2, <1>3, <2>0, <3>2 DEF LeadBits
  <2>2. CASE c >= 128 /\ c < 2048
    <3>1. PICK a, b \in Nat :
            /\ Code(c) = <<a, b>> /\ Leads(a, 2) /\ Continues(b)
            /\ c = 64 * (a % 32) + (b % 64)
      BY <2>2, TwoBytes
    <3>2. m = 2 /\ Code(c)[1] = a /\ Code(c)[2] = b
      BY <3>1
    <3>3. n = 1 /\ s[i + 1] = b /\ f[0] = a % 32
      BY <1>2, <1>3, <1>6, <2>0, <3>2 DEF LeadBits
    <3>4. f[1] = 64 * f[0] + (s[i + 1] % 64)
      BY <2>5, <3>3
    <3> QED BY <3>1, <3>3, <3>4
  <2>3. CASE c >= 2048 /\ c < 65536
    <3>1. PICK a, b, d \in Nat : OfThree(c, a, b, d)
      BY <2>3, ThreeBytes
    <3>2. m = 3 /\ Code(c)[1] = a /\ Code(c)[2] = b /\ Code(c)[3] = d
      BY <3>1 DEF OfThree
    <3>3. n = 2 /\ s[i + 1] = b /\ s[i + 2] = d /\ f[0] = a % 16
      BY <1>2, <1>3, <1>6, <2>0, <3>2 DEF LeadBits
    <3>4. f[1] = 64 * f[0] + (s[i + 1] % 64) /\ f[2] = 64 * f[1] + (s[i + 2] % 64)
      <4>1. 1 \in 1..n /\ 2 \in 1..n
        BY <3>3
      <4>2. f[1] = 64 * f[1 - 1] + (s[i + 1] % 64) /\ f[2] = 64 * f[2 - 1] + (s[i + 2] % 64)
        BY <2>5, <4>1
      <4> QED BY <4>2
    <3> QED BY <3>1, <3>3, <3>4 DEF OfThree
  <2>4. CASE c >= 65536
    <3>1. PICK a, b, d, e \in Nat : OfFour(c, a, b, d, e)
      BY <2>4, FourBytes
    <3>2. m = 4 /\ Code(c)[1] = a /\ Code(c)[2] = b /\ Code(c)[3] = d /\ Code(c)[4] = e
      BY <3>1 DEF OfFour
    <3>3. n = 3 /\ s[i + 1] = b /\ s[i + 2] = d /\ s[i + 3] = e /\ f[0] = a % 8
      BY <1>2, <1>3, <1>6, <2>0, <3>2 DEF LeadBits
    <3>4. /\ f[1] = 64 * f[0] + (s[i + 1] % 64) /\ f[2] = 64 * f[1] + (s[i + 2] % 64)
          /\ f[3] = 64 * f[2] + (s[i + 3] % 64)
      <4>1. 1 \in 1..n /\ 2 \in 1..n /\ 3 \in 1..n
        BY <3>3
      <4>2. /\ f[1] = 64 * f[1 - 1] + (s[i + 1] % 64) /\ f[2] = 64 * f[2 - 1] + (s[i + 2] % 64)
            /\ f[3] = 64 * f[3 - 1] + (s[i + 3] % 64)
        BY <2>5, <4>1
      <4> QED BY <4>2
    <3> QED BY <3>1, <3>3, <3>4 DEF OfFour
  <2> QED BY <2>1, <2>2, <2>3, <2>4
<1>8. {k \in 1..n : ~IsContinuation(ByteAt(s, i + k))} = {}
  BY <1>6
<1>9. lorieUtf8ToUCS4(s, i) =
        IF n = -1 THEN [ucs |-> Unknown,
                        len |-> Min({k \in 1..Len(s) + 1 : i + k > Len(s) \/ ~IsContinuation(ByteAt(s, i + k))})]
        ELSE IF {k \in 1..n : ~IsContinuation(ByteAt(s, i + k))} # {}
        THEN [ucs |-> Unknown, len |-> Min({k \in 1..n : ~IsContinuation(ByteAt(s, i + k))}) + 1]
        ELSE IF IsSurrogate(f[n]) THEN [ucs |-> Unknown, len |-> n + 1]
        ELSE [ucs |-> f[n], len |-> n + 1]
  BY Zenon DEF lorieUtf8ToUCS4, Bits
<1> HIDE DEF f, n
<1> QED BY <1>1, <1>3, <1>7, <1>8, <1>9 DEF IsCharacter

-----------------------------------------------------------------------------
(* Induction by the least counterexample *)

LEMMA Least == ASSUME NEW S \in SUBSET Nat, S # {} PROVE \E x \in S : \A y \in S : x <= y
<1>1. IsWellFoundedOn(OpToRel(<, Nat), Nat)
  BY NatLessThanWellFounded
<1>2. PICK x \in S : \A y \in S : ~(<<y, x>> \in OpToRel(<, Nat))
  BY <1>1, WFMin
<1>3. OpToRel(<, Nat) = {p \in Nat \X Nat : p[1] < p[2]}
  BY Zenon DEF OpToRel
<1>4. ASSUME NEW y \in S, y < x PROVE <<y, x>> \in OpToRel(<, Nat)
  <2>1. <<y, x>> \in Nat \X Nat /\ <<y, x>>[1] < <<y, x>>[2]
    BY <1>4
  <2> QED BY <1>3, <2>1, Zenon
<1>5. \A y \in S : ~(y < x)
  BY <1>2, <1>4, Zenon
<1> QED BY <1>5


\* Induction up to n, and down from n, on the members of a set.
LEMMA Upwards ==
  ASSUME NEW n \in Nat, NEW S, 0 \in S, \A i \in 1..n : i - 1 \in S => i \in S
  PROVE \A i \in 0..n : i \in S
<1> DEFINE B == {i \in 0..n : i \notin S}
<1> SUFFICES ASSUME B # {} PROVE FALSE
  OBVIOUS
<1>1. PICK j \in B : \A i \in B : j <= i
  <2>1. B \in SUBSET Nat
    OBVIOUS
  <2> QED BY <2>1, Least
<1>2. j \in 1..n /\ j - 1 \in 0..n /\ j - 1 \notin B
  BY <1>1
<1> QED BY <1>1, <1>2

LEMMA Downwards ==
  ASSUME NEW n \in Nat, NEW S, n \in S, \A i \in 1..n : i \in S => i - 1 \in S
  PROVE \A i \in 0..n : i \in S
<1> DEFINE T == {i \in 0..n : n - i \in S}
<1>1. 0 \in T
  OBVIOUS
<1>2. ASSUME NEW i \in 1..n, i - 1 \in T PROVE i \in T
  <2>1. n - (i - 1) \in 1..n /\ n - (i - 1) \in S /\ (n - (i - 1)) - 1 = n - i
    BY <1>2
  <2>2. n - i \in S
    BY <2>1
  <2> QED BY <2>2
<1>3. \A i \in 0..n : i \in T
  <2> HIDE DEF T
  <2> QED BY <1>1, <1>2, Upwards
<1>4. ASSUME NEW i \in 0..n PROVE i \in S
  <2>1. n - i \in 0..n /\ n - (n - i) = i
    OBVIOUS
  <2> QED BY <1>3, <2>1
<1> QED BY <1>4

-----------------------------------------------------------------------------
(* Sequences put together from pieces *)

\* The beginnings that FlattenSeq builds of the first n pieces.
Flattens(seqs, n, g) == g = [i \in 1..n |-> IF i = 1 THEN seqs[i] ELSE g[i-1] \o seqs[i]]

LEMMA FlattensExists == ASSUME NEW seqs, NEW n \in Nat PROVE \E g : Flattens(seqs, n, g)
<1> DEFINE S == {j \in Nat : \E g : Flattens(seqs, j, g)}
<1>1. 0 \in S
  <2> DEFINE g == [i \in 1..0 |-> seqs[i]]
  <2>1. g = [i \in 1..0 |-> IF i = 1 THEN seqs[i] ELSE g[i-1] \o seqs[i]]
    OBVIOUS
  <2> QED BY <2>1 DEF Flattens
<1>2. ASSUME NEW j \in 1..n, j - 1 \in S PROVE j \in S
  <2>1. PICK g : Flattens(seqs, j - 1, g)
    BY <1>2
  <2> DEFINE h == [i \in 1..j |-> IF i # j THEN g[i] ELSE IF i = 1 THEN seqs[i] ELSE g[i-1] \o seqs[i]]
  <2>2. \A i \in 1..(j - 1) : g[i] = IF i = 1 THEN seqs[i] ELSE g[i-1] \o seqs[i]
    BY <2>1, Zenon DEF Flattens
  <2>3. ASSUME NEW i \in 1..j PROVE h[i] = IF i = 1 THEN seqs[i] ELSE h[i-1] \o seqs[i]
    <3>1. i # 1 => i - 1 \in 1..j /\ i - 1 # j /\ h[i - 1] = g[i - 1]
      OBVIOUS
    <3>2. h[i] = IF i = 1 THEN seqs[i] ELSE g[i-1] \o seqs[i]
      <4>1. CASE i = j
        BY <4>1
      <4>2. CASE i # j
        <5>1. i \in 1..(j - 1) /\ h[i] = g[i]
          BY <4>2
        <5> QED BY <2>2, <5>1
      <4> QED BY <4>1, <4>2
    <3> HIDE DEF h
    <3> QED BY <3>1, <3>2
  <2>4. h = [i \in 1..j |-> h[i]]
    OBVIOUS
  <2> HIDE DEF h
  <2>5. Flattens(seqs, j, h)
    BY <2>3, <2>4 DEF Flattens
  <2> QED BY <2>5
<1> HIDE DEF S
<1>3. n \in S
  BY <1>1, <1>2, Upwards
<1> QED BY <1>3 DEF S

LEMMA EmptyBefore == ASSUME NEW S, NEW a \in Seq(S) PROVE <<>> \o a = a
OBVIOUS

\* What FlattenSeq has built after each piece.
Builds(seqs, f) == f[0] = <<>> /\ \A i \in 1..Len(seqs) : f[i] = f[i - 1] \o seqs[i]

LEMMA Flattened ==
  ASSUME NEW S, NEW seqs \in Seq(Seq(S))
  PROVE \E f \in [0..Len(seqs) -> Seq(S)] : Builds(seqs, f) /\ FlattenSeq(seqs) = f[Len(seqs)]
<1> DEFINE n == Len(seqs)
           g == CHOOSE h : Flattens(seqs, n, h)
           f == [i \in 0..n |-> IF i = 0 THEN <<>> ELSE g[i]]
<1>1. n \in Nat /\ \A i \in 1..n : seqs[i] \in Seq(S)
  OBVIOUS
<1>2. Flattens(seqs, n, g)
  BY <1>1, FlattensExists, Zenon
<1>3. \A i \in 1..n : g[i] = IF i = 1 THEN seqs[i] ELSE g[i-1] \o seqs[i]
  BY <1>2, Zenon DEF Flattens
<1>4. FlattenSeq(seqs) = IF n = 0 THEN seqs ELSE g[n]
  BY Zenon DEF FlattenSeq, Flattens
<1> HIDE DEF g, n
<1>5. f[0] = <<>>
  BY <1>1
<1>6. ASSUME NEW i \in 1..n PROVE f[i] = f[i - 1] \o seqs[i]
  <2>1. f[i] = g[i] /\ i - 1 \in 0..n
    BY <1>1
  <2>2. CASE i = 1
    <3>1. f[i - 1] = <<>> /\ f[i] = seqs[i] /\ seqs[i] \in Seq(S)
      BY <1>1, <1>3, <1>5, <2>1, <2>2
    <3> HIDE DEF f
    <3> QED BY <3>1, EmptyBefore
  <2>3. CASE i # 1
    <3>1. f[i - 1] = g[i - 1]
      BY <1>1, <2>3
    <3> HIDE DEF f
    <3> QED BY <1>3, <2>1, <2>3, <3>1
  <2> QED BY <2>2, <2>3
<1>7. f = [i \in 0..n |-> f[i]]
  OBVIOUS
<1>8. FlattenSeq(seqs) = f[n]
  <2>1. CASE n = 0
    <3>1. seqs = <<>>
      BY <2>1 DEF n
    <3> QED BY <1>4, <1>5, <2>1, <3>1
  <2>2. CASE n # 0
    <3>1. f[n] = g[n]
      BY <1>1, <2>2
    <3> QED BY <1>4, <2>2, <3>1
  <2> QED BY <2>1, <2>2
<1> HIDE DEF f
<1> DEFINE T == {i \in 0..n : f[i] \in Seq(S)}
<1>9. 0 \in T
  <2>1. 0 \in 0..n /\ <<>> \in Seq(S)
    BY <1>1
  <2> QED BY <1>5, <2>1, Zenon
<1>10. ASSUME NEW i \in 1..n, i - 1 \in T PROVE i \in T
  <2>1. f[i - 1] \in Seq(S) /\ seqs[i] \in Seq(S)
    BY <1>1, <1>10
  <2>2. f[i - 1] \o seqs[i] \in Seq(S)
    BY <2>1
  <2>3. f[i] = f[i - 1] \o seqs[i]
    BY <1>6, Zenon
  <2>4. i \in 0..n
    BY <1>1
  <2> QED BY <2>2, <2>3, <2>4, Zenon
<1>11. \A i \in 0..n : i \in T
  <2> HIDE DEF T
  <2> QED BY <1>1, <1>9, <1>10, Upwards
<1>12. f \in [0..n -> Seq(S)]
  BY <1>7, <1>11
<1> QED BY <1>5, <1>6, <1>8, <1>12 DEF Builds, n

\* The sequences built grow at their ends, so each piece is found in the whole.
Begins(a, b) == Len(a) <= Len(b) /\ \A i \in 1..Len(a) : b[i] = a[i]

LEMMA BeginsMore ==
  ASSUME NEW S, NEW a \in Seq(S), NEW b \in Seq(S), NEW d \in Seq(S), Begins(a, b)
  PROVE Begins(a, b \o d)
<1>1. Len(b \o d) = Len(b) + Len(d) /\ \A i \in 1..Len(b) : (b \o d)[i] = b[i]
  OBVIOUS
<1>2. Len(a) \in Nat /\ Len(b) \in Nat /\ Len(d) \in Nat
  OBVIOUS
<1> QED BY <1>1, <1>2 DEF Begins

LEMMA BuildStep ==
  ASSUME NEW S, NEW seqs \in Seq(Seq(S)), NEW f \in [0..Len(seqs) -> Seq(S)], Builds(seqs, f),
         NEW j \in 1..Len(seqs)
  PROVE f[j] = f[j - 1] \o seqs[j] /\ f[j - 1] \in Seq(S) /\ seqs[j] \in Seq(S) /\ f[j] \in Seq(S)
<1>1. f[j] = f[j - 1] \o seqs[j]
  BY Zenon DEF Builds
<1>2. Len(seqs) \in Nat
  OBVIOUS
<1>3. j - 1 \in 0..Len(seqs) /\ j \in 0..Len(seqs)
  BY <1>2
<1>4. f[j - 1] \in Seq(S) /\ f[j] \in Seq(S)
  BY <1>3, Zenon
<1>5. seqs[j] \in Seq(S)
  OBVIOUS
<1> QED BY <1>1, <1>4, <1>5

LEMMA Grows ==
  ASSUME NEW S, NEW seqs \in Seq(Seq(S)), NEW f \in [0..Len(seqs) -> Seq(S)], Builds(seqs, f),
         NEW m \in 0..Len(seqs)
  PROVE Begins(f[m], f[Len(seqs)])
<1> DEFINE N == Len(seqs)
           T == {n \in 0..N : n >= m => Begins(f[m], f[n])}
<1>1. N \in Nat /\ f[m] \in Seq(S)
  OBVIOUS
<1>2. Begins(f[m], f[m])
  BY <1>1 DEF Begins
<1>3. 0 \in T
  BY <1>1, <1>2
<1>4. ASSUME NEW n \in 1..N, n - 1 \in T PROVE n \in T
  <2>1. CASE n - 1 < m
    <3>1. n >= m => n = m
      BY <1>1, <2>1
    <3> QED BY <1>1, <1>2, <3>1
  <2>2. CASE ~(n - 1 < m)
    <3>1. Begins(f[m], f[n - 1])
      BY <1>4, <2>2
    <3>2. f[n] = f[n - 1] \o seqs[n] /\ f[n - 1] \in Seq(S) /\ seqs[n] \in Seq(S)
      BY BuildStep
    <3>3. Begins(f[m], f[n])
      BY <1>1, <3>1, <3>2, BeginsMore, Zenon
    <3> QED BY <3>3
  <2> QED BY <2>1, <2>2
<1>5. \A n \in 0..N : n \in T
  <2> HIDE DEF T
  <2> QED BY <1>1, <1>3, <1>4, Upwards
<1>6. N \in 0..N /\ N >= m
  BY <1>1
<1> QED BY <1>5, <1>6

Found(seqs, f, j) ==
  /\ Len(f[j]) = Len(f[j - 1]) + Len(seqs[j]) /\ Len(f[j]) <= Len(f[Len(seqs)])
  /\ \A k \in 1..Len(seqs[j]) : f[Len(seqs)][Len(f[j - 1]) + k] = seqs[j][k]

LEMMA PieceFound ==
  ASSUME NEW S, NEW seqs \in Seq(Seq(S)), NEW f \in [0..Len(seqs) -> Seq(S)], Builds(seqs, f),
         NEW j \in 1..Len(seqs)
  PROVE Found(seqs, f, j)
<1> DEFINE a == f[j - 1]
           b == seqs[j]
           z == f[Len(seqs)]
<1>1. f[j] = a \o b /\ a \in Seq(S) /\ b \in Seq(S)
  <2>1. f[j] = f[j - 1] \o seqs[j] /\ f[j - 1] \in Seq(S) /\ seqs[j] \in Seq(S) /\ f[j] \in Seq(S)
    BY BuildStep
  <2> QED BY <2>1
<1>2. Begins(f[j], z)
  <2>1. j \in 0..Len(seqs)
    OBVIOUS
  <2> QED BY <2>1, Grows
<1> HIDE DEF a, b, z
<1>3. Len(a) \in Nat /\ Len(b) \in Nat /\ Len(f[j]) = Len(a) + Len(b)
  BY <1>1
<1>4. ASSUME NEW k \in 1..Len(b) PROVE z[Len(a) + k] = b[k]
  <2>1. Len(a) + k \in 1..Len(f[j]) /\ Len(a) + k \in 1..(Len(a) + Len(b)) /\ ~(Len(a) + k <= Len(a))
    BY <1>3
  <2>2. (a \o b)[Len(a) + k] = b[(Len(a) + k) - Len(a)]
    BY <1>1, <2>1
  <2>3. (Len(a) + k) - Len(a) = k
    BY <1>3
  <2>4. z[Len(a) + k] = f[j][Len(a) + k]
    BY <1>2, <2>1, Zenon DEF Begins
  <2> QED BY <1>1, <2>2, <2>3, <2>4
<1>5. Len(f[j]) <= Len(z)
  BY <1>2 DEF Begins
<1> QED BY <1>3, <1>4, <1>5 DEF a, b, z, Found

\* The length of the whole, when no piece is longer than w.
LEMMA LengthBound ==
  ASSUME NEW S, NEW seqs \in Seq(Seq(S)), NEW w \in Nat, \A i \in 1..Len(seqs) : Len(seqs[i]) <= w
  PROVE FlattenSeq(seqs) \in Seq(S) /\ Len(FlattenSeq(seqs)) <= w * Len(seqs)
<1> DEFINE N == Len(seqs)
<1>1. PICK f \in [0..N -> Seq(S)] : Builds(seqs, f) /\ FlattenSeq(seqs) = f[N]
  BY Flattened
<1>2. N \in Nat /\ \A n \in 0..N : f[n] \in Seq(S) /\ Len(f[n]) \in Nat
  OBVIOUS
<1> DEFINE T == {n \in 0..N : Len(f[n]) <= w * n}
<1>3. 0 \in T
  BY <1>1, <1>2 DEF Builds
<1>4. ASSUME NEW n \in 1..N, n - 1 \in T PROVE n \in T
  <2>1. Len(f[n]) = Len(f[n - 1]) + Len(seqs[n]) /\ Len(seqs[n]) <= w /\ Len(seqs[n]) \in Int
    <3>1. Len(f[n]) = Len(f[n - 1]) + Len(seqs[n])
      BY <1>1, PieceFound, Zenon DEF Found
    <3> QED BY <3>1
  <2>2. Len(f[n - 1]) <= w * (n - 1) /\ Len(f[n - 1]) \in Int
    BY <1>2, <1>4
  <2>3. w * (n - 1) + w = w * n
    OBVIOUS
  <2>4. w * (n - 1) \in Int /\ w * n \in Int
    OBVIOUS
  <2>5. Len(f[n]) <= w * n
    <3> DEFINE x == w * (n - 1)
               y == w * n
    <3> HIDE DEF x, y
    <3>1. x \in Int /\ y \in Int /\ x + w = y /\ Len(f[n - 1]) <= x
      BY <2>2, <2>3, <2>4 DEF x, y
    <3>2. ASSUME NEW p, NEW q \in Int, NEW r \in Int, q <= x, r <= w, p = q + r PROVE p <= y
      BY <3>1, <3>2
    <3>3. Len(f[n]) <= y
      BY <2>1, <2>2, <3>1, <3>2, Zenon
    <3> QED BY <3>3 DEF y
  <2> QED BY <1>2, <2>5
<1>5. \A n \in 0..N : n \in T
  <2> HIDE DEF T
  <2> QED BY <1>2, <1>3, <1>4, Upwards
<1>6. N \in 0..N
  BY <1>2
<1> QED BY <1>1, <1>2, <1>5, <1>6

-----------------------------------------------------------------------------
(* Texts in UTF-8 *)

\* The places where the codes of t begin, and the end of the last.
Places(t, p) ==
  /\ p[0] = 1 /\ p[Len(t)] = Len(Encoded(t)) + 1
  /\ \A j \in 1..Len(t) : /\ p[j] = p[j - 1] + Len(Code(t[j])) /\ p[j] <= Len(Encoded(t)) + 1
                          /\ Stands(Encoded(t), p[j - 1], t[j])

\* Encoded puts the code of each character where the last one ends.
LEMMA EncodedPlaces ==
  ASSUME NEW t \in Seq(CodePoints)
  PROVE Encoded(t) \in Seq(Nat) /\ \E p \in [0..Len(t) -> Nat \ {0}] : Places(t, p)
<1> DEFINE seqs == [i \in DOMAIN t |-> Code(t[i])]
           N == Len(t)
<1>1. N \in Nat /\ DOMAIN t = 1..N /\ \A i \in 1..N : IsCharacter(t[i])
  BY TextAssumption
<1>2. \A i \in 1..N : Code(t[i]) \in Seq(Nat)
  BY <1>1, CodeShape
<1>3. seqs \in [1..N -> Seq(Nat)]
  BY <1>1, <1>2
<1>4. seqs \in Seq(Seq(Nat)) /\ Len(seqs) = N
  <2> HIDE DEF seqs, N
  <2> QED BY <1>1, <1>3
<1>5. \A i \in 1..N : seqs[i] = Code(t[i])
  BY <1>1
<1>6. Encoded(t) = FlattenSeq(seqs)
  BY DEF Encoded
<1> HIDE DEF seqs, N
<1>7. PICK f \in [0..N -> Seq(Nat)] : Builds(seqs, f) /\ FlattenSeq(seqs) = f[N]
  <2>1. \E f \in [0..Len(seqs) -> Seq(Nat)] : Builds(seqs, f) /\ FlattenSeq(seqs) = f[Len(seqs)]
    BY <1>4, Flattened, Zenon
  <2> QED BY <1>4, <2>1, Zenon
<1>8. Encoded(t) = f[N] /\ \A j \in 0..N : f[j] \in Seq(Nat) /\ Len(f[j]) \in Nat
  BY <1>6, <1>7
<1> DEFINE p == [j \in 0..N |-> Len(f[j]) + 1]
<1>9. p \in [0..N -> Nat \ {0}]
  BY <1>8
<1>10. p[0] = 1 /\ p[N] = Len(Encoded(t)) + 1
  <2>1. 0 \in 0..N /\ N \in 0..N
    BY <1>1
  <2>2. Len(f[0]) = 0
    BY <1>7 DEF Builds
  <2> QED BY <1>8, <2>1, <2>2
<1>11. ASSUME NEW j \in 1..N
       PROVE /\ p[j] = p[j - 1] + Len(Code(t[j])) /\ p[j] <= Len(Encoded(t)) + 1
             /\ Stands(Encoded(t), p[j - 1], t[j])
  <2>1. j \in 0..N /\ j - 1 \in 0..N /\ N \in 0..N
    BY <1>1
  <2>2. /\ Len(f[j]) = Len(f[j - 1]) + Len(seqs[j]) /\ Len(f[j]) <= Len(f[N])
        /\ \A k \in 1..Len(seqs[j]) : f[N][Len(f[j - 1]) + k] = seqs[j][k]
    <3>1. f \in [0..Len(seqs) -> Seq(Nat)] /\ j \in 1..Len(seqs)
      BY <1>4
    <3>2. Found(seqs, f, j)
      BY <1>4, <1>7, <3>1, PieceFound, Zenon
    <3> QED BY <1>4, <3>2 DEF Found
  <2>3. seqs[j] = Code(t[j]) /\ Len(seqs[j]) \in Nat
    BY <1>1, <1>2, <1>5
  <2>4. p[j] = Len(f[j]) + 1 /\ p[j - 1] = Len(f[j - 1]) + 1
    BY <2>1
  <2>5. Len(f[j]) \in Nat /\ Len(f[j - 1]) \in Nat /\ Len(f[N]) \in Nat
    BY <1>8, <2>1
  <2> HIDE DEF p
  <2>6. p[j] = p[j - 1] + Len(Code(t[j])) /\ p[j] <= Len(Encoded(t)) + 1
    <3>1. Len(Encoded(t)) = Len(f[N]) /\ Len(seqs[j]) = Len(Code(t[j]))
      BY <1>8, <2>3, Zenon
    <3>2. ASSUME NEW x \in Nat, NEW y \in Nat, NEW z \in Nat, NEW w \in Nat, x = y + w, x <= z
          PROVE x + 1 = y + 1 + w /\ x + 1 <= z + 1
      BY <3>2
    <3>3. /\ Len(f[j]) + 1 = Len(f[j - 1]) + 1 + Len(seqs[j])
          /\ Len(f[j]) + 1 <= Len(f[N]) + 1
      BY <2>2, <2>3, <2>5, <3>2, Zenon
    <3> QED BY <2>4, <3>1, <3>3, Zenon
  <2>7. ASSUME NEW k \in 1..Len(Code(t[j])) PROVE Encoded(t)[p[j - 1] + k - 1] = Code(t[j])[k]
    <3>1. p[j - 1] + k - 1 = Len(f[j - 1]) + k
      BY <2>4, <2>5
    <3> QED BY <1>8, <2>2, <2>3, <3>1
  <2> QED BY <2>6, <2>7 DEF Stands
<1> HIDE DEF p
<1>12. Places(t, p)
  BY <1>10, <1>11 DEF Places, N
<1>13. Encoded(t) \in Seq(Nat)
  BY <1>1, <1>8
<1> QED BY <1>9, <1>12, <1>13 DEF N

-----------------------------------------------------------------------------
(* Decoding to the end *)

LEMMA MinIsIn == ASSUME NEW S \in SUBSET Nat, S # {} PROVE Min(S) \in S
<1>1. PICK x \in S : \A y \in S : x <= y
  BY Least
<1> QED BY <1>1 DEF Min

\* Wherever it starts, the decoder moves forward and not far beyond the end.
LEMMA Advances ==
  ASSUME NEW s \in Seq(Nat), NEW i \in 1..Len(s)
  PROVE LET len == lorieUtf8ToUCS4(s, i).len
        IN  len \in Nat /\ len >= 1 /\ i + len <= Len(s) + 4
<1> DEFINE n == Continuations(s[i])
           missing == {k \in 1..n : ~IsContinuation(ByteAt(s, i + k))}
           free == {k \in 1..Len(s) + 1 : i + k > Len(s) \/ ~IsContinuation(ByteAt(s, i + k))}
           inside == {k \in free : i + k <= Len(s) + 1}
           len == lorieUtf8ToUCS4(s, i).len
<1>1. Len(s) \in Nat /\ s[i] \in Nat
  OBVIOUS
<1>2. n \in -1..3
  BY <1>1 DEF Continuations
<1>3. len = IF n = -1 THEN Min(free) ELSE IF missing # {} THEN Min(missing) + 1 ELSE n + 1
  <2> HIDE DEF n, missing, free
  <2> QED BY DEF lorieUtf8ToUCS4, n, missing, free
<1>4. free \in SUBSET Nat /\ (Len(s) + 1) - i \in free
  BY <1>1
<1>5. PICK x \in free : \A y \in free : x <= y
  BY <1>4, Least
<1>6. Min(free) \in free /\ \A y \in free : Min(free) <= y
  BY <1>5 DEF Min
<1>7. missing # {} => Min(missing) \in missing
  <2>1. missing \in SUBSET Nat
    BY <1>2
  <2> HIDE DEF missing
  <2> QED BY <2>1, MinIsIn
<1>8. CASE n = -1
  <2>1. Min(free) \in 1..(Len(s) + 1) /\ Min(free) <= (Len(s) + 1) - i
    BY <1>4, <1>6
  <2> HIDE DEF n, free, missing, len
  <2>2. len = Min(free)
    BY <1>3, <1>8
  <2>3. len \in Nat /\ len >= 1 /\ i + len <= Len(s) + 4
    BY <1>1, <2>1, <2>2
  <2> QED BY <2>3 DEF len
<1>9. CASE n # -1
  <2>1. missing # {} => Min(missing) \in 1..n
    BY <1>7
  <2> HIDE DEF n, free, missing, len
  <2>2. len = IF missing # {} THEN Min(missing) + 1 ELSE n + 1
    BY <1>3, <1>9
  <2>3. len \in Nat /\ len >= 1 /\ i + len <= Len(s) + 4
    BY <1>1, <1>2, <1>9, <2>1, <2>2
  <2> QED BY <2>3 DEF len
<1> QED BY <1>8, <1>9

\* What lorieUtf8ToLatin1 makes of s from place i on, given what it makes of the rest.
RestStep(s, g, i) ==
  IF i > Len(s) THEN <<>>
  ELSE LET code == lorieUtf8ToUCS4(s, i) IN <<Latin1Of(code.ucs)>> \o g[i + code.len]

Rests(s, m, g) == g = [i \in m..Len(s) + 4 |-> RestStep(s, g, i)]

\* It looks at later places only, so the recursion has a value for every sequence of bytes.
LEMMA RestStepAgrees ==
  ASSUME NEW s \in Seq(Nat), NEW m \in 1..Len(s) + 4, NEW g, NEW h,
         \A i \in m + 1..Len(s) + 4 : h[i] = g[i], NEW i \in m..Len(s) + 4
  PROVE RestStep(s, g, i) = RestStep(s, h, i)
<1>1. CASE i > Len(s)
  BY <1>1 DEF RestStep
<1>2. CASE ~(i > Len(s))
  <2> DEFINE len == lorieUtf8ToUCS4(s, i).len
  <2>1. Len(s) \in Nat /\ i \in 1..Len(s)
    BY <1>2
  <2>2. len \in Nat /\ len >= 1 /\ i + len <= Len(s) + 4
    BY <2>1, Advances
  <2> HIDE DEF len
  <2>3. i + len \in m + 1..Len(s) + 4
    BY <2>1, <2>2
  <2>4. h[i + len] = g[i + len]
    BY <2>3
  <2> QED BY <2>4 DEF RestStep, len
<1> QED BY <1>1, <1>2

LEMMA RestsExist == ASSUME NEW s \in Seq(Nat) PROVE \E g : Rests(s, 1, g)
<1> DEFINE N == Len(s) + 4
           T == {j \in 0..N : \E g : Rests(s, N + 1 - j, g)}
<1>1. N \in Nat /\ N >= 4 /\ N = Len(s) + 4
  OBVIOUS
<1> HIDE DEF N
<1>2. 0 \in T
  <2> DEFINE g == [i \in (N + 1)..N |-> <<>>]
  <2>1. g = [i \in (N + 1)..N |-> RestStep(s, g, i)]
    BY <1>1
  <2>2. Rests(s, N + 1, g)
    BY <1>1, <2>1 DEF Rests
  <2> HIDE DEF g
  <2>3. N + 1 - 0 = N + 1 /\ 0 \in 0..N
    BY <1>1
  <2> QED BY <2>2, <2>3
<1>3. ASSUME NEW j \in 1..N, j - 1 \in T PROVE j \in T
  <2> DEFINE m == N + 1 - j
  <2>1. m \in 1..N /\ N + 1 - (j - 1) = m + 1
    BY <1>1
  <2>2. PICK g : Rests(s, m + 1, g)
    BY <1>3, <2>1
  <2> HIDE DEF m
  <2> DEFINE h == [i \in m..N |-> IF i = m THEN RestStep(s, g, m) ELSE g[i]]
  <2>3. \A i \in m + 1..N : g[i] = RestStep(s, g, i)
    BY <1>1, <2>2, Zenon DEF Rests
  <2>4. \A i \in m + 1..N : h[i] = g[i]
    BY <2>1
  <2>5. \A i \in m..N : h[i] = RestStep(s, g, i)
    <3> SUFFICES ASSUME NEW i \in m..N PROVE h[i] = RestStep(s, g, i)
      OBVIOUS
    <3>1. CASE i = m
      BY <3>1
    <3>2. CASE i # m
      <4>1. i \in m + 1..N
        BY <2>1, <3>2
      <4> HIDE DEF h
      <4> QED BY <2>3, <2>4, <4>1
    <3> QED BY <3>1, <3>2
  <2>6. h = [i \in m..N |-> h[i]]
    OBVIOUS
  <2> HIDE DEF h
  <2>7. \A i \in m..N : RestStep(s, g, i) = RestStep(s, h, i)
    BY <1>1, <2>1, <2>4, RestStepAgrees
  <2>8. \A i \in m..N : h[i] = RestStep(s, h, i)
    BY <2>5, <2>7, Zenon
  <2>9. Rests(s, m, h)
    BY <1>1, <2>6, <2>8 DEF Rests
  <2>10. j \in 0..N
    BY <1>1
  <2> QED BY <2>9, <2>10 DEF m
<1>4. N \in T
  <2>1. N \in 0..N
    BY <1>1
  <2> HIDE DEF T
  <2>2. \A j \in 0..N : j \in T
    BY <1>1, <1>2, <1>3, Upwards
  <2> QED BY <2>1, <2>2
<1>5. N + 1 - N = 1
  BY <1>1
<1> QED BY <1>4, <1>5

LEMMA RestsOf ==
  ASSUME NEW s \in Seq(Nat)
  PROVE \E g : lorieUtf8ToLatin1(s) = g[1] /\ \A i \in 1..Len(s) + 4 : g[i] = RestStep(s, g, i)
<1> DEFINE g == CHOOSE h : Rests(s, 1, h)
<1>1. Rests(s, 1, g)
  BY RestsExist, Zenon
<1>2. lorieUtf8ToLatin1(s) = g[1]
  BY Zenon DEF lorieUtf8ToLatin1, Rests, RestStep
<1>3. \A i \in 1..Len(s) + 4 : g[i] = RestStep(s, g, i)
  BY <1>1, Zenon DEF Rests
<1> HIDE DEF g
<1> QED BY <1>2, <1>3

\* Latin-1 from place to place: each character, or a question mark for it.
LEMMA SuffixStep ==
  ASSUME NEW S, NEW e \in Seq(S), NEW j \in 1..Len(e)
  PROVE <<e[j]>> \o SubSeq(e, j + 1, Len(e)) = SubSeq(e, j, Len(e))
<1> DEFINE a == <<e[j]>>
           b == SubSeq(e, j + 1, Len(e))
           z == SubSeq(e, j, Len(e))
<1>1. Len(e) \in Nat /\ e[j] \in S
  OBVIOUS
<1>2. a \in Seq(S) /\ Len(a) = 1 /\ a[1] = e[j]
  BY <1>1
<1>3. b \in Seq(S) /\ Len(b) = Len(e) - j /\ \A i \in 1..Len(e) - j : b[i] = e[j + i]
  BY <1>1
<1>4. z \in Seq(S) /\ Len(z) = Len(e) - j + 1 /\ \A i \in 1..Len(e) - j + 1 : z[i] = e[j + i - 1]
  BY <1>1
<1> HIDE DEF a, b, z
<1>5. a \o b \in Seq(S) /\ Len(a \o b) = Len(z)
  <2>1. a \o b \in Seq(S) /\ Len(a \o b) = Len(a) + Len(b)
    BY <1>2, <1>3, ConcatProperties, Zenon
  <2> QED BY <1>1, <1>2, <1>3, <1>4, <2>1
<1>7. \A i \in 1..Len(a) + Len(b) : (a \o b)[i] = IF i <= Len(a) THEN a[i] ELSE b[i - Len(a)]
  BY <1>2, <1>3, ConcatProperties, Zenon
<1>6. ASSUME NEW i \in 1..Len(z) PROVE (a \o b)[i] = z[i]
  <2>1. CASE i = 1
    <3>1. (a \o b)[1] = a[1]
      <4>1. 1 \in 1..Len(a) + Len(b) /\ 1 <= Len(a)
        BY <1>1, <1>2, <1>3
      <4> QED BY <1>7, <4>1, Zenon
    <3>2. z[1] = e[j + 1 - 1]
      BY <1>1, <1>4
    <3> QED BY <1>1, <1>2, <2>1, <3>1, <3>2
  <2>2. CASE i # 1
    <3>1. i \in 1..(Len(a) + Len(b)) /\ ~(i <= Len(a)) /\ i - Len(a) = i - 1 /\ i - 1 \in 1..Len(e) - j
      BY <1>1, <1>2, <1>3, <1>4, <2>2
    <3>2. (a \o b)[i] = b[i - 1]
      BY <1>7, <3>1
    <3>3. b[i - 1] = e[j + (i - 1)] /\ z[i] = e[j + i - 1]
      BY <1>3, <1>4, <3>1
    <3>4. j + (i - 1) = j + i - 1
      BY <1>4
    <3> QED BY <3>2, <3>3, <3>4
  <2> QED BY <2>1, <2>2
<1> QED BY <1>4, <1>5, <1>6, SeqEqual DEF a, b, z

\* A text in Latin-1, with a question mark for each other character.
Expected(t) == [i \in DOMAIN t |-> IF t[i] < 256 THEN t[i] ELSE 63]

\* From the last code back to the first, lorieUtf8ToLatin1 finds each character.
LEMMA Pasted ==
  ASSUME NEW t \in Seq(CodePoints)
  PROVE lorieUtf8ToLatin1(Encoded(t)) = Expected(t)
<1> DEFINE s == Encoded(t)
           e == Expected(t)
           N == Len(t)
<1>1. N \in Nat /\ DOMAIN t = 1..N /\ \A i \in 1..N : IsCharacter(t[i]) /\ t[i] \in Nat
  BY TextAssumption DEF IsCharacter
<1>2. e \in [1..N -> Nat] /\ \A i \in 1..N : e[i] = Latin1Of(t[i])
  BY <1>1 DEF Expected, Latin1Of
<1>3. e \in Seq(Nat) /\ Len(e) = N
  <2> HIDE DEF e, N
  <2> QED BY <1>1, <1>2
<1>4. s \in Seq(Nat) /\ Len(s) \in Nat
  BY EncodedPlaces
<1>5. PICK p \in [0..N -> Nat \ {0}] : Places(t, p)
  BY EncodedPlaces
<1>6. PICK g : lorieUtf8ToLatin1(s) = g[1] /\ \A i \in 1..Len(s) + 4 : g[i] = RestStep(s, g, i)
  BY <1>4, RestsOf
<1>7. p[0] = 1 /\ p[N] = Len(s) + 1
  BY <1>5 DEF Places
<1>8. \A j \in 1..N : p[j] = p[j - 1] + Len(Code(t[j])) /\ p[j] <= Len(s) + 1 /\ Stands(s, p[j - 1], t[j])
  BY <1>5 DEF Places
<1> HIDE DEF s, e, N
<1> DEFINE T == {j \in 0..N : g[p[j]] = SubSeq(e, j + 1, N)}
<1>9. N \in T
  <2>1. N \in 0..N /\ p[N] \in 1..Len(s) + 4 /\ p[N] > Len(s)
    BY <1>1, <1>4, <1>7
  <2>2. g[p[N]] = <<>>
    BY <1>6, <2>1 DEF RestStep
  <2>3. SubSeq(e, N + 1, N) = <<>>
    BY <1>1, <1>3
  <2> QED BY <2>1, <2>2, <2>3
<1>10. ASSUME NEW j \in 1..N, j \in T PROVE j - 1 \in T
  <2> DEFINE i == p[j - 1]
             c == t[j]
             code == lorieUtf8ToUCS4(s, i)
  <2>1. j - 1 \in 0..N /\ i \in Nat /\ i > 0
    BY <1>1
  <2>2. p[j] = i + Len(Code(c)) /\ p[j] <= Len(s) + 1 /\ Stands(s, i, c)
    BY <1>8
  <2>3. IsCharacter(c) /\ Len(Code(c)) \in 1..4
    BY <1>1, CodeShape
  <2> HIDE DEF i, c
  <2>4. i + Len(Code(c)) - 1 <= Len(s) /\ ~(i > Len(s)) /\ i \in 1..Len(s) + 4
    <3>1. ASSUME NEW m \in 1..4, i + m <= Len(s) + 1
          PROVE i + m - 1 <= Len(s) /\ ~(i > Len(s)) /\ i \in 1..Len(s) + 4
      BY <1>4, <2>1, <3>1
    <3> QED BY <2>2, <2>3, <3>1
  <2>5. code = [ucs |-> c, len |-> Len(Code(c))]
    BY <1>4, <2>1, <2>2, <2>3, <2>4, Decoded
  <2>6. code.ucs = c /\ code.len = Len(Code(c))
    BY <2>5
  <2> HIDE DEF code
  <2>7. g[i] = <<Latin1Of(c)>> \o g[p[j]]
    <3>1. g[i] = <<Latin1Of(code.ucs)>> \o g[i + code.len]
      BY <1>6, <2>4 DEF RestStep, code
    <3> QED BY <2>2, <2>6, <3>1
  <2>8. g[p[j]] = SubSeq(e, j + 1, N) /\ Latin1Of(c) = e[j]
    BY <1>2, <1>10 DEF c
  <2>9. <<e[j]>> \o SubSeq(e, j + 1, N) = SubSeq(e, j, N)
    BY <1>3, SuffixStep
  <2>10. (j - 1) + 1 = j
    OBVIOUS
  <2>11. g[p[j - 1]] = SubSeq(e, (j - 1) + 1, N)
    BY <2>7, <2>8, <2>9, <2>10 DEF i
  <2> QED BY <2>1, <2>11
<1>11. 0 \in T
  <2>1. 0 \in 0..N
    BY <1>1
  <2> HIDE DEF T
  <2>2. \A j \in 0..N : j \in T
    BY <1>1, <1>9, <1>10, Downwards
  <2> QED BY <2>1, <2>2
<1>12. SubSeq(e, 1, N) = e
  BY <1>3
<1>13. g[p[0]] = SubSeq(e, 0 + 1, N)
  BY <1>11
<1> QED BY <1>6, <1>7, <1>12, <1>13 DEF s, e

-----------------------------------------------------------------------------
(* The check of a text *)

\* What lorieCheckUTF8 says of s from place ix on, given what it says of the rest.
OkStep(s, size, g, ix) ==
  \/ ix > size
  \/ ByteAt(s, ix) = 0
  \/ LET n == CodeLength(ByteAt(s, ix))
     IN  /\ n > 0
         /\ \A k \in 1..n - 1 : IsContinuation(ByteAt(s, ix + k))
         /\ g[ix + n]

Oks(s, size, m, g) == g = [ix \in m..Len(s) + 4 |-> OkStep(s, size, g, ix)]

LEMMA CodeLengthType == ASSUME NEW b \in Nat PROVE CodeLength(b) \in 0..4
BY DEF CodeLength

\* It looks at later places only, so the recursion has a value for every sequence of bytes.
LEMMA OkStepAgrees ==
  ASSUME NEW s \in Seq(Nat), NEW size \in 0..Len(s), NEW m \in 1..Len(s) + 4, NEW g, NEW h,
         \A ix \in m + 1..Len(s) + 4 : h[ix] = g[ix], NEW ix \in m..Len(s) + 4
  PROVE OkStep(s, size, g, ix) = OkStep(s, size, h, ix)
<1>1. CASE ix > size
  BY <1>1 DEF OkStep
<1>2. CASE ~(ix > size)
  <2> DEFINE n == CodeLength(ByteAt(s, ix))
  <2>1. Len(s) \in Nat /\ ix \in 1..Len(s)
    BY <1>2
  <2>2. ByteAt(s, ix) \in Nat
    BY <2>1 DEF ByteAt
  <2>3. n \in 0..4
    BY <2>2, CodeLengthType
  <2> HIDE DEF n
  <2>4. CASE n = 0
    <3>1. ~(n > 0)
      BY <2>4
    <3> QED BY <3>1, Zenon DEF OkStep, n
  <2>5. CASE n # 0
    <3>1. ix + n \in m + 1..Len(s) + 4
      BY <2>1, <2>3, <2>5
    <3>2. h[ix + n] = g[ix + n]
      BY <3>1
    <3> QED BY <3>2, Zenon DEF OkStep, n
  <2> QED BY <2>4, <2>5
<1> QED BY <1>1, <1>2

LEMMA OksExist == ASSUME NEW s \in Seq(Nat), NEW size \in 0..Len(s) PROVE \E g : Oks(s, size, 1, g)
<1> DEFINE N == Len(s) + 4
           T == {j \in 0..N : \E g : Oks(s, size, N + 1 - j, g)}
<1>1. N \in Nat /\ N >= 4 /\ N = Len(s) + 4
  OBVIOUS
<1> HIDE DEF N
<1>2. 0 \in T
  <2> DEFINE g == [i \in (N + 1)..N |-> TRUE]
  <2>1. g = [i \in (N + 1)..N |-> OkStep(s, size, g, i)]
    <3>1. \A i \in (N + 1)..N : g[i] = OkStep(s, size, g, i)
      BY <1>1
    <3> QED BY <3>1, Zenon
  <2>2. Oks(s, size, N + 1, g)
    BY <1>1, <2>1 DEF Oks
  <2> HIDE DEF g
  <2>3. N + 1 - 0 = N + 1 /\ 0 \in 0..N
    BY <1>1
  <2> QED BY <2>2, <2>3
<1>3. ASSUME NEW j \in 1..N, j - 1 \in T PROVE j \in T
  <2> DEFINE m == N + 1 - j
  <2>1. m \in 1..N /\ N + 1 - (j - 1) = m + 1
    BY <1>1
  <2>2. PICK g : Oks(s, size, m + 1, g)
    BY <1>3, <2>1
  <2> HIDE DEF m
  <2> DEFINE h == [i \in m..N |-> IF i = m THEN OkStep(s, size, g, m) ELSE g[i]]
  <2>3. \A i \in m + 1..N : g[i] = OkStep(s, size, g, i)
    BY <1>1, <2>2, Zenon DEF Oks
  <2>4. \A i \in m + 1..N : h[i] = g[i]
    BY <2>1
  <2>5. \A i \in m..N : h[i] = OkStep(s, size, g, i)
    <3> SUFFICES ASSUME NEW i \in m..N PROVE h[i] = OkStep(s, size, g, i)
      OBVIOUS
    <3>1. CASE i = m
      BY <3>1
    <3>2. CASE i # m
      <4>1. i \in m + 1..N
        BY <2>1, <3>2
      <4> HIDE DEF h
      <4> QED BY <2>3, <2>4, <4>1, Zenon
    <3> QED BY <3>1, <3>2
  <2>6. h = [i \in m..N |-> h[i]]
    OBVIOUS
  <2> HIDE DEF h
  <2>7. \A i \in m..N : OkStep(s, size, g, i) = OkStep(s, size, h, i)
    BY <1>1, <2>1, <2>4, OkStepAgrees
  <2>8. \A i \in m..N : h[i] = OkStep(s, size, h, i)
    BY <2>5, <2>7, Zenon
  <2>9. Oks(s, size, m, h)
    BY <1>1, <2>6, <2>8 DEF Oks
  <2>10. j \in 0..N
    BY <1>1
  <2> QED BY <2>9, <2>10 DEF m
<1>4. N \in T
  <2>1. N \in 0..N
    BY <1>1
  <2> HIDE DEF T
  <2>2. \A j \in 0..N : j \in T
    BY <1>1, <1>2, <1>3, Upwards
  <2> QED BY <2>1, <2>2
<1>5. N + 1 - N = 1
  BY <1>1
<1> QED BY <1>4, <1>5

LEMMA OksOf ==
  ASSUME NEW s \in Seq(Nat), NEW size \in 0..Len(s)
  PROVE \E g : /\ lorieCheckUTF8(s, size) = g[1]
               /\ \A i \in 1..Len(s) + 4 : g[i] = OkStep(s, size, g, i)
<1> DEFINE g == CHOOSE h : Oks(s, size, 1, h)
<1>1. Oks(s, size, 1, g)
  BY OksExist, Zenon
<1>2. lorieCheckUTF8(s, size) = g[1]
  BY Zenon DEF lorieCheckUTF8, Oks, OkStep
<1>3. \A i \in 1..Len(s) + 4 : g[i] = OkStep(s, size, g, i)
  BY <1>1, Zenon DEF Oks
<1> HIDE DEF g
<1> QED BY <1>2, <1>3, Zenon

\* From the last code back to the first, lorieCheckUTF8 accepts a text in UTF-8.
LEMMA Accepted ==
  ASSUME NEW t \in Seq(CodePoints), NEW beyond \in Nat
  PROVE lorieCheckUTF8(Encoded(t) \o <<beyond>>, Len(Encoded(t)))
<1> DEFINE a == Encoded(t)
           size == Len(a)
           s == a \o <<beyond>>
           N == Len(t)
<1>1. N \in Nat /\ \A i \in 1..N : IsCharacter(t[i])
  BY TextAssumption
<1>2. a \in Seq(Nat)
  BY EncodedPlaces
<1>3. PICK p \in [0..N -> Nat \ {0}] : Places(t, p)
  BY EncodedPlaces
<1>4. p[0] = 1 /\ p[N] = size + 1
  BY <1>3 DEF Places
<1>5. \A j \in 1..N : p[j] = p[j - 1] + Len(Code(t[j])) /\ p[j] <= size + 1 /\ Stands(a, p[j - 1], t[j])
  BY <1>3 DEF Places
<1> HIDE DEF a, N
<1>6. size \in Nat /\ s \in Seq(Nat) /\ Len(s) = size + 1 /\ \A i \in 1..size : s[i] = a[i]
  BY <1>2
<1> HIDE DEF s, size
<1>7. PICK g : lorieCheckUTF8(s, size) = g[1] /\ \A i \in 1..Len(s) + 4 : g[i] = OkStep(s, size, g, i)
  <2>1. size \in 0..Len(s)
    BY <1>6
  <2> QED BY <1>6, <2>1, OksOf, Zenon
<1> DEFINE T == {j \in 0..N : g[p[j]]}
<1>8. N \in T
  <2>1. N \in 0..N /\ p[N] \in 1..Len(s) + 4 /\ p[N] > size
    BY <1>1, <1>4, <1>6
  <2>2. g[p[N]] = OkStep(s, size, g, p[N]) /\ OkStep(s, size, g, p[N])
    BY <1>7, <2>1, Zenon DEF OkStep
  <2> QED BY <2>1, <2>2, Zenon
<1>9. ASSUME NEW j \in 1..N, j \in T PROVE j - 1 \in T
  <2> DEFINE i == p[j - 1]
             c == t[j]
             m == Len(Code(c))
  <2>1. j - 1 \in 0..N /\ i \in Nat /\ i > 0 /\ g[p[j]]
    BY <1>1, <1>9
  <2>2. p[j] = i + m /\ p[j] <= size + 1 /\ Stands(a, i, c)
    BY <1>5
  <2>3. m \in 1..4 /\ Leads(Code(c)[1], m) /\ \A k \in 2..m : Continues(Code(c)[k])
    BY <1>1, CodeShape
  <2>4. \A k \in 1..m : a[i + k - 1] = Code(c)[k]
    BY <2>2 DEF Stands
  <2> HIDE DEF i, c, m
  <2>5. ASSUME NEW k \in 1..m PROVE ByteAt(s, i + k - 1) = Code(c)[k]
    <3>1. i + k - 1 \in 1..size /\ i + k - 1 <= Len(s)
      BY <1>6, <2>1, <2>2, <2>3
    <3>2. s[i + k - 1] = a[i + k - 1]
      BY <1>6, <3>1
    <3> QED BY <2>4, <3>1, <3>2 DEF ByteAt
  <2>6. ByteAt(s, i) = Code(c)[1]
    <3>1. 1 \in 1..m /\ i + 1 - 1 = i
      BY <2>1, <2>3
    <3> QED BY <2>5, <3>1
  <2>7. CodeLength(ByteAt(s, i)) = m
    BY <2>3, <2>6, Zenon DEF Leads
  <2>8. ASSUME NEW k \in 1..m - 1 PROVE IsContinuation(ByteAt(s, i + k))
    <3>1. k + 1 \in 2..m /\ k + 1 \in 1..m /\ i + (k + 1) - 1 = i + k
      BY <2>1, <2>3
    <3>2. ByteAt(s, i + k) = Code(c)[k + 1] /\ Continues(Code(c)[k + 1])
      BY <2>3, <2>5, <3>1
    <3> QED BY <3>2 DEF Continues
  <2>9. m > 0 /\ g[i + m] /\ i \in 1..Len(s) + 4
    BY <1>6, <2>1, <2>2, <2>3
  <2>10. OkStep(s, size, g, i)
    BY <2>7, <2>8, <2>9, Zenon DEF OkStep
  <2>11. g[i]
    BY <1>7, <2>9, <2>10, Zenon
  <2> QED BY <2>1, <2>11, Zenon DEF i
<1>10. g[p[0]]
  <2>1. 0 \in 0..N
    BY <1>1
  <2>2. \A j \in 0..N : j \in T
    <3> HIDE DEF T
    <3> QED BY <1>1, <1>8, <1>9, Downwards
  <2> QED BY <2>1, <2>2, Zenon
<1> QED BY <1>4, <1>7, <1>10, Zenon DEF s, size, a

-----------------------------------------------------------------------------
(* The results *)

\* A text without its carriage returns is not longer.
LEMMA ConvertedLF ==
  ASSUME NEW S, NEW t \in Seq(S)
  PROVE lorieConvertLF(t) \in Seq(S) /\ Len(lorieConvertLF(t)) <= Len(t)
<1> DEFINE seqs == [i \in DOMAIN t |-> IF t[i] = CR THEN <<>> ELSE <<t[i]>>]
<1>1. Len(t) \in Nat /\ DOMAIN t = 1..Len(t)
  OBVIOUS
<1>2. ASSUME NEW i \in 1..Len(t) PROVE seqs[i] \in Seq(S) /\ Len(seqs[i]) <= 1
  <2>1. t[i] \in S
    OBVIOUS
  <2> QED BY <1>1, <2>1
<1>3. seqs = [i \in 1..Len(t) |-> seqs[i]]
  BY <1>1
<1>4. lorieConvertLF(t) = FlattenSeq(seqs)
  BY DEF lorieConvertLF
<1> HIDE DEF seqs
<1>5. seqs \in Seq(Seq(S)) /\ Len(seqs) = Len(t)
  BY <1>1, <1>2, <1>3
<1>6. FlattenSeq(seqs) \in Seq(S) /\ Len(FlattenSeq(seqs)) <= 1 * Len(seqs)
  BY <1>2, <1>5, LengthBound
<1> QED BY <1>1, <1>4, <1>5, <1>6

\* No character of Latin-1 takes more than two bytes.
LEMMA Widened ==
  ASSUME NEW t \in Seq(Nat)
  PROVE Len(lorieLatin1ToUTF8(t)) \in Nat /\ Len(lorieLatin1ToUTF8(t)) <= 2 * Len(t)
<1> DEFINE seqs == [i \in DOMAIN t |->
                      IF t[i] < 128 THEN <<t[i]>>
                      ELSE <<194 + (IF t[i] > 191 THEN 1 ELSE 0), (t[i] % 64) + 128>>]
<1>1. Len(t) \in Nat /\ DOMAIN t = 1..Len(t)
  OBVIOUS
<1>2. ASSUME NEW i \in 1..Len(t) PROVE seqs[i] \in Seq(Nat) /\ Len(seqs[i]) <= 2
  <2> DEFINE x == 194 + (IF t[i] > 191 THEN 1 ELSE 0)
             y == (t[i] % 64) + 128
  <2>1. t[i] \in Nat
    OBVIOUS
  <2>2. x \in Nat /\ y \in Nat
    BY <2>1
  <2>3. seqs[i] = IF t[i] < 128 THEN <<t[i]>> ELSE <<x, y>>
    BY <1>1
  <2> HIDE DEF seqs, x, y
  <2> QED BY <2>1, <2>2, <2>3
<1>3. seqs = [i \in 1..Len(t) |-> seqs[i]]
  BY <1>1
<1>4. lorieLatin1ToUTF8(t) = FlattenSeq(seqs)
  BY DEF lorieLatin1ToUTF8
<1> HIDE DEF seqs
<1>5. seqs \in Seq(Seq(Nat)) /\ Len(seqs) = Len(t)
  BY <1>1, <1>2, <1>3
<1>6. FlattenSeq(seqs) \in Seq(Nat) /\ Len(FlattenSeq(seqs)) <= 2 * Len(seqs)
  BY <1>2, <1>5, LengthBound
<1> QED BY <1>1, <1>4, <1>5, <1>6

\* One piece more, one byte more, one character more.
LEMMA FlattenAppend ==
  ASSUME NEW S, NEW seqs \in Seq(Seq(S)), NEW q \in Seq(S)
  PROVE FlattenSeq(Append(seqs, q)) = FlattenSeq(seqs) \o q
<1> DEFINE more == Append(seqs, q)
           N == Len(seqs)
<1>1. /\ more \in Seq(Seq(S)) /\ Len(more) = N + 1 /\ N \in Nat
      /\ more[N + 1] = q /\ \A i \in 1..N : more[i] = seqs[i]
  OBVIOUS
<1>2. PICK f \in [0..N -> Seq(S)] : Builds(seqs, f) /\ FlattenSeq(seqs) = f[N]
  BY Flattened
<1> HIDE DEF more
<1>3. PICK h \in [0..Len(more) -> Seq(S)] : Builds(more, h) /\ FlattenSeq(more) = h[Len(more)]
  BY <1>1, Flattened, Zenon
<1> DEFINE T == {i \in 0..N : h[i] = f[i]}
<1>4. 0 \in T
  BY <1>1, <1>2, <1>3 DEF Builds
<1>5. \A i \in 1..N + 1 : h[i] = h[i - 1] \o more[i]
  BY <1>1, <1>3, Zenon DEF Builds
<1>6. ASSUME NEW i \in 1..N, i - 1 \in T PROVE i \in T
  <2>1. i \in 0..N /\ i \in 1..N + 1
    BY <1>1
  <2>2. h[i] = h[i - 1] \o more[i] /\ f[i] = f[i - 1] \o seqs[i] /\ more[i] = seqs[i]
    BY <1>1, <1>2, <1>5, <2>1, Zenon DEF Builds
  <2> QED BY <1>6, <2>1, <2>2, Zenon
<1>7. h[N] = f[N]
  <2>1. N \in 0..N
    BY <1>1
  <2> HIDE DEF T
  <2>2. \A i \in 0..N : i \in T
    BY <1>1, <1>4, <1>6, Upwards
  <2> QED BY <2>1, <2>2 DEF T
<1>8. h[N + 1] = h[N] \o q
  <2>1. N + 1 \in 1..N + 1 /\ (N + 1) - 1 = N
    BY <1>1
  <2>2. h[N + 1] = h[(N + 1) - 1] \o more[N + 1]
    BY <1>5, <2>1, Zenon
  <2> QED BY <1>1, <2>1, <2>2
<1> QED BY <1>1, <1>2, <1>3, <1>7, <1>8 DEF more

\* Appending and sequences given by their elements
LEMMA AppendLast ==
  ASSUME NEW a \in Seq(Nat), NEW b \in Seq(Nat), NEW x \in Nat
  PROVE (a \o b) \o <<x>> = a \o Append(b, x)
<1>1. <<x>> \in Seq(Nat)
  OBVIOUS
<1>2. (a \o b) \o <<x>> = a \o (b \o <<x>>)
  BY <1>1, ConcatAssociative
<1>3. Append(b, x) = b \o <<x>>
  BY AppendIsConcat
<1> QED BY <1>2, <1>3

LEMMA Appended ==
  ASSUME NEW S, NEW s \in Seq(S), NEW x \in S, NEW z,
         z = [i \in 1..Len(s) + 1 |-> z[i]], z[Len(s) + 1] = x, \A i \in 1..Len(s) : z[i] = s[i]
  PROVE Append(s, x) = z
<1> DEFINE y == Append(s, x)
<1>1. /\ y \in Seq(S) /\ Len(y) = Len(s) + 1 /\ Len(s) \in Nat
      /\ y[Len(s) + 1] = x /\ \A i \in 1..Len(s) : y[i] = s[i]
  BY AppendProperties
<1> HIDE DEF y
<1>2. y = [i \in 1..Len(s) + 1 |-> y[i]]
  BY <1>1
<1>3. ASSUME NEW i \in 1..Len(s) + 1 PROVE y[i] = z[i]
  <2>1. i \in 1..Len(s) \/ i = Len(s) + 1
    BY <1>1
  <2> QED BY <1>1, <2>1
<1>4. y = z
  BY <1>2, <1>3
<1> QED BY <1>4 DEF y

LEMMA EncodedAppend ==
  ASSUME NEW t \in Seq(CodePoints), NEW c \in CodePoints
  PROVE Encoded(Append(t, c)) = Encoded(t) \o Code(c)
<1> DEFINE u == Append(t, c)
           seqs == [i \in DOMAIN t |-> Code(t[i])]
           more == [i \in DOMAIN u |-> Code(u[i])]
           N == Len(t)
<1>1. /\ N \in Nat /\ DOMAIN t = 1..N /\ DOMAIN u = 1..N + 1
      /\ u[N + 1] = c /\ \A i \in 1..N : u[i] = t[i] /\ t[i] \in CodePoints
  OBVIOUS
<1>2. \A x \in CodePoints : Code(x) \in Seq(Nat)
  BY TextAssumption, CodeShape
<1>3. \A i \in 1..N : seqs[i] = Code(t[i]) /\ seqs[i] \in Seq(Nat)
  BY <1>1, <1>2
<1>4. more[N + 1] = Code(c) /\ \A i \in 1..N : more[i] = seqs[i]
  BY <1>1
<1>5. seqs = [i \in 1..N |-> seqs[i]] /\ more = [i \in 1..N + 1 |-> more[i]]
  BY <1>1
<1>6. Encoded(t) = FlattenSeq(seqs) /\ Encoded(u) = FlattenSeq(more)
  BY DEF Encoded
<1> HIDE DEF seqs, more, u, N
<1>7. seqs \in Seq(Seq(Nat)) /\ Len(seqs) = N
  BY <1>1, <1>3, <1>5
<1>8. Append(seqs, Code(c)) = more
  <2>1. /\ more = [i \in 1..Len(seqs) + 1 |-> more[i]] /\ more[Len(seqs) + 1] = Code(c)
        /\ \A i \in 1..Len(seqs) : more[i] = seqs[i]
    BY <1>4, <1>5, <1>7
  <2>2. Code(c) \in Seq(Nat)
    BY <1>2
  <2> DEFINE Pieces == Seq(Nat)
             last == Code(c)
  <2>3. seqs \in Seq(Pieces) /\ last \in Pieces /\ more[Len(seqs) + 1] = last
    BY <1>7, <2>1, <2>2
  <2> HIDE DEF Pieces, last
  <2>4. Append(seqs, last) = more
    BY <2>1, <2>3, Appended
  <2> QED BY <2>4 DEF last
<1> QED BY <1>2, <1>6, <1>7, <1>8, FlattenAppend, Zenon DEF u

\* What lorieConvertLF leaves of one byte.
Kept(x) == IF x = CR THEN <<>> ELSE <<x>>

LEMMA ConvertAppend ==
  ASSUME NEW S, NEW s \in Seq(S), NEW x \in S
  PROVE lorieConvertLF(Append(s, x)) = lorieConvertLF(s) \o Kept(x)
<1> DEFINE u == Append(s, x)
           seqs == [i \in DOMAIN s |-> Kept(s[i])]
           more == [i \in DOMAIN u |-> Kept(u[i])]
           N == Len(s)
<1>1. /\ N \in Nat /\ DOMAIN s = 1..N /\ DOMAIN u = 1..N + 1
      /\ u[N + 1] = x /\ \A i \in 1..N : u[i] = s[i] /\ s[i] \in S
  OBVIOUS
<1>2. \A y \in S : Kept(y) \in Seq(S)
  BY DEF Kept
<1>3. \A i \in 1..N : seqs[i] = Kept(s[i]) /\ seqs[i] \in Seq(S)
  BY <1>1, <1>2
<1>4. more[N + 1] = Kept(x) /\ \A i \in 1..N : more[i] = seqs[i]
  BY <1>1
<1>5. seqs = [i \in 1..N |-> seqs[i]] /\ more = [i \in 1..N + 1 |-> more[i]]
  BY <1>1
<1>6. lorieConvertLF(s) = FlattenSeq(seqs) /\ lorieConvertLF(u) = FlattenSeq(more)
  BY DEF lorieConvertLF, Kept
<1> HIDE DEF seqs, more, u, N
<1>7. seqs \in Seq(Seq(S)) /\ Len(seqs) = N
  BY <1>1, <1>3, <1>5
<1>8. Append(seqs, Kept(x)) = more
  <2>1. /\ more = [i \in 1..Len(seqs) + 1 |-> more[i]] /\ more[Len(seqs) + 1] = Kept(x)
        /\ \A i \in 1..Len(seqs) : more[i] = seqs[i]
    BY <1>4, <1>5, <1>7
  <2>2. Kept(x) \in Seq(S)
    BY <1>2
  <2> DEFINE Pieces == Seq(S)
             last == Kept(x)
  <2>3. seqs \in Seq(Pieces) /\ last \in Pieces /\ more[Len(seqs) + 1] = last
    BY <1>7, <2>1, <2>2
  <2> HIDE DEF Pieces, last
  <2>4. Append(seqs, last) = more
    BY <2>1, <2>3, Appended
  <2> QED BY <2>4 DEF last
<1> QED BY <1>2, <1>6, <1>7, <1>8, FlattenAppend, Zenon DEF u

LEMMA EmptyTexts == lorieConvertLF(<<>>) = <<>> /\ Encoded(<<>>) = <<>>
<1> DEFINE a == [i \in DOMAIN <<>> |-> IF <<>>[i] = CR THEN <<>> ELSE <<<<>>[i]>>]
           b == [i \in DOMAIN <<>> |-> Code(<<>>[i])]
<1>1. a = <<>> /\ b = <<>>
  OBVIOUS
<1>2. lorieConvertLF(<<>>) = FlattenSeq(a) /\ Encoded(<<>>) = FlattenSeq(b)
  BY DEF lorieConvertLF, Encoded
<1>3. FlattenSeq(<<>>) = <<>>
  BY DEF FlattenSeq
<1> HIDE DEF a, b
<1> QED BY <1>1, <1>2, <1>3

\* Taking out carriage returns leaves bytes alone that are none.
LEMMA WithoutCR ==
  ASSUME NEW a \in Seq(Nat), NEW b \in Seq(Nat), \A k \in 1..Len(b) : b[k] # CR
  PROVE lorieConvertLF(a \o b) = lorieConvertLF(a) \o b
<1> DEFINE L == lorieConvertLF(a)
           B(k) == SubSeq(b, 1, k)
           T == {k \in 0..Len(b) : lorieConvertLF(a \o B(k)) = L \o B(k)}
<1>1. L \in Seq(Nat) /\ Len(b) \in Nat
  BY ConvertedLF
<1> HIDE DEF L
<1>2. 0 \in T
  <2>1. B(0) = <<>> /\ a \o <<>> = a /\ L \o <<>> = L /\ 0 \in 0..Len(b)
    BY <1>1
  <2> QED BY <2>1 DEF L
<1>3. ASSUME NEW k \in 1..Len(b), k - 1 \in T PROVE k \in T
  <2> DEFINE u == B(k - 1)
             x == b[k]
  <2>1. u \in Seq(Nat) /\ x \in Nat /\ x # CR /\ B(k) = Append(u, x) /\ k \in 0..Len(b)
    BY <1>1
  <2>2. lorieConvertLF(a \o u) = L \o u
    BY <1>3
  <2> HIDE DEF u, x, B
  <2>3. a \o Append(u, x) = Append(a \o u, x) /\ a \o u \in Seq(Nat)
    BY <2>1
  <2>4. lorieConvertLF(Append(a \o u, x)) = lorieConvertLF(a \o u) \o Kept(x)
    BY <2>1, <2>3, ConvertAppend
  <2>5. Kept(x) = <<x>>
    BY <2>1 DEF Kept
  <2>6. (L \o u) \o <<x>> = L \o Append(u, x)
    BY <1>1, <2>1, AppendLast
  <2>7. lorieConvertLF(a \o B(k)) = L \o B(k)
    BY <2>1, <2>2, <2>3, <2>4, <2>5, <2>6, Zenon
  <2> QED BY <2>1, <2>7
<1>4. Len(b) \in T
  <2>1. Len(b) \in 0..Len(b)
    BY <1>1
  <2> HIDE DEF T
  <2>2. \A k \in 0..Len(b) : k \in T
    BY <1>1, <1>2, <1>3, Upwards
  <2> QED BY <2>1, <2>2
<1>5. B(Len(b)) = b
  OBVIOUS
<1> QED BY <1>4, <1>5 DEF L

\* A carriage return is a code of one byte, and no byte of another.
LEMMA CodeWithoutCR ==
  ASSUME NEW a \in Seq(Nat), NEW c, IsCharacter(c)
  PROVE lorieConvertLF(a \o Code(c)) = lorieConvertLF(a) \o (IF c = CR THEN <<>> ELSE Code(c))
<1>1. c \in Nat /\ c > 0
  BY DEF IsCharacter
<1>2. Code(c) \in Seq(Nat) /\ Len(Code(c)) \in 1..4 /\ \A k \in 2..Len(Code(c)) : Continues(Code(c)[k])
  BY CodeShape
<1>3. lorieConvertLF(a) \in Seq(Nat)
  BY ConvertedLF
<1>4. CASE c = CR
  <2>1. Code(c) = <<c>>
    BY <1>1, <1>4, OneByte DEF CR
  <2>2. a \o <<c>> = Append(a, c)
    BY <1>1
  <2>3. lorieConvertLF(Append(a, c)) = lorieConvertLF(a) \o Kept(c)
    BY <1>1, ConvertAppend
  <2> QED BY <1>4, <2>1, <2>2, <2>3 DEF Kept
<1>5. CASE c # CR
  <2>1. Code(c)[1] # CR
    BY <1>1, <1>5 DEF Code, CR
  <2>2. \A k \in 2..Len(Code(c)) : Code(c)[k] # CR
    <3>1. \A x : Continues(x) => x # CR
      BY DEF Continues, IsContinuation, CR
    <3> QED BY <1>2, <3>1, Zenon
  <2>3. \A k \in 1..Len(Code(c)) : Code(c)[k] # CR
    BY <1>2, <2>1, <2>2
  <2> QED BY <1>2, <1>5, <2>3, WithoutCR
<1> QED BY <1>4, <1>5

\* Taking the bytes out of the code is taking the characters out of the text.
LEMMA ConvertedCodes ==
  ASSUME NEW t \in Seq(CodePoints)
  PROVE lorieConvertLF(Encoded(t)) = Encoded(lorieConvertLF(t))
<1> DEFINE B(k) == SubSeq(t, 1, k)
           N == Len(t)
           T == {k \in 0..N : lorieConvertLF(Encoded(B(k))) = Encoded(lorieConvertLF(B(k)))}
<1>1. N \in Nat
  OBVIOUS
<1>2. 0 \in T
  <2>1. B(0) = <<>> /\ 0 \in 0..N
    BY <1>1
  <2> QED BY <2>1, EmptyTexts
<1>3. ASSUME NEW k \in 1..N, k - 1 \in T PROVE k \in T
  <2> DEFINE u == B(k - 1)
             c == t[k]
             v == lorieConvertLF(u)
  <2>1. u \in Seq(CodePoints) /\ c \in CodePoints /\ B(k) = Append(u, c) /\ k \in 0..N
    BY <1>1
  <2>2. lorieConvertLF(Encoded(u)) = Encoded(v)
    BY <1>3
  <2> HIDE DEF u, c, B
  <2>3. v \in Seq(CodePoints)
    BY <2>1, ConvertedLF
  <2>4. lorieConvertLF(Append(u, c)) = v \o Kept(c)
    BY <2>1, ConvertAppend
  <2>5. Encoded(Append(u, c)) = Encoded(u) \o Code(c) /\ Encoded(Append(v, c)) = Encoded(v) \o Code(c)
    BY <2>1, <2>3, EncodedAppend
  <2>6. Encoded(u) \in Seq(Nat) /\ Encoded(v) \in Seq(Nat) /\ IsCharacter(c)
    BY <2>1, <2>3, EncodedPlaces, TextAssumption
  <2> HIDE DEF v
  <2>7. lorieConvertLF(Encoded(B(k))) = Encoded(v) \o (IF c = CR THEN <<>> ELSE Code(c))
    BY <2>1, <2>2, <2>5, <2>6, CodeWithoutCR, Zenon
  <2>8. CASE c = CR
    <3>1. v \o <<>> = v /\ Encoded(v) \o <<>> = Encoded(v)
      BY <2>3, <2>6
    <3> QED BY <2>1, <2>4, <2>7, <2>8, <3>1 DEF Kept
  <2>9. CASE c # CR
    <3>1. v \o <<c>> = Append(v, c)
      BY <2>1, <2>3
    <3> QED BY <2>1, <2>4, <2>5, <2>7, <2>9, <3>1 DEF Kept
  <2> QED BY <2>8, <2>9
<1>4. N \in T
  <2>1. N \in 0..N
    BY <1>1
  <2> HIDE DEF T
  <2>2. \A k \in 0..N : k \in T
    BY <1>1, <1>2, <1>3, Upwards
  <2> QED BY <2>1, <2>2
<1>5. B(N) = t
  OBVIOUS
<1> QED BY <1>4, <1>5

LEMMA Latin1Code ==
  ASSUME NEW c \in Nat, c < 256
  PROVE Code(c) = IF c < 128 THEN <<c>> ELSE <<194 + (IF c > 191 THEN 1 ELSE 0), (c % 64) + 128>>
<1>1. c >= 128 => 192 + (c \div 64) = 194 + (IF c > 191 THEN 1 ELSE 0)
  OBVIOUS
<1>2. 128 + (c % 64) = (c % 64) + 128
  OBVIOUS
<1> QED BY <1>1, <1>2 DEF Code

\* The two bytes that lorieLatin1ToUTF8 writes are the code of the character.
LEMMA Latin1IsUTF8 ==
  ASSUME NEW t \in Seq(CodePoints), IsLatin1(t)
  PROVE lorieLatin1ToUTF8(t) = Encoded(t)
<1>1. ASSUME NEW i \in DOMAIN t
      PROVE Code(t[i]) = IF t[i] < 128 THEN <<t[i]>>
                         ELSE <<194 + (IF t[i] > 191 THEN 1 ELSE 0), (t[i] % 64) + 128>>
  <2>1. t[i] \in Nat /\ t[i] < 256
    BY TextAssumption DEF IsLatin1, IsCharacter
  <2> QED BY <2>1, Latin1Code
<1>2. [i \in DOMAIN t |-> Code(t[i])] =
        [i \in DOMAIN t |-> IF t[i] < 128 THEN <<t[i]>>
                            ELSE <<194 + (IF t[i] > 191 THEN 1 ELSE 0), (t[i] % 64) + 128>>]
  BY <1>1
<1> QED BY <1>2, Zenon DEF lorieLatin1ToUTF8, Encoded

\* The text under test is one of the given characters.
TextTyped == text \in Seq(CodePoints)

(* The texts under test, of any length, have the given characters only.    *)
THEOREM TextIsTyped == TextSpec => []TextTyped
<1>1. TextInit => TextTyped
  BY DEF TextInit, TextTyped
<1>2. TextTyped /\ [TextNext]_text => TextTyped'
  BY DEF TextTyped, TextNext
<1> QED BY <1>1, <1>2, PTL DEF TextSpec

(* lorieUtf8ToLatin1 keeps the characters of Latin-1 in a text of any       *)
(* length and any characters, and has one '?' for each other: it starts at  *)
(* every code once, whatever the lengths of those before it.                *)
THEOREM PasteKeepsLatin1 == TextSpec => []PastedAsLatin1
<1>1. TextTyped => PastedAsLatin1
  BY Pasted DEF TextTyped, PastedAsLatin1, Expected
<1> QED BY <1>1, TextIsTyped, PTL

(* lorieCheckUTF8 accepts every text in UTF-8, whatever byte lies behind    *)
(* the property, and lorieConvertLF, which works on the bytes, takes out    *)
(* the carriage returns of the text and no part of another character.       *)
THEOREM TextIsAccepted == TextSpec => []TextAccepted
<1>1. ASSUME TextTyped, NEW beyond \in {0, 65, 128, 255}
      PROVE lorieCheckUTF8(Encoded(text) \o <<beyond>>, Len(Encoded(text)))
  <2>1. text \in Seq(CodePoints) /\ beyond \in Nat
    BY <1>1 DEF TextTyped
  <2> QED BY <2>1, Accepted
<1>2. TextTyped => lorieConvertLF(Encoded(text)) = Encoded(lorieConvertLF(text))
  BY ConvertedCodes DEF TextTyped
<1>3. TextTyped => TextAccepted
  BY <1>1, <1>2 DEF TextAccepted
<1> QED BY <1>3, TextIsTyped, PTL

(* Every Latin-1 text becomes the same text in UTF-8 in lorieLatin1ToUTF8,  *)
(* not longer than the buffer of twice its size also when lorieConvertLF    *)
(* came first, and lorieUtf8ToLatin1 gives it back unchanged.               *)
THEOREM Latin1Survives == TextSpec => []Latin1RoundTrip
<1>1. ASSUME TextTyped, IsLatin1(text)
      PROVE /\ lorieLatin1ToUTF8(text) = Encoded(text)
            /\ Len(lorieLatin1ToUTF8(lorieConvertLF(text))) <= 2 * Len(text)
            /\ lorieUtf8ToLatin1(lorieLatin1ToUTF8(text)) = text
  <2>1. text \in Seq(CodePoints) /\ text \in Seq(Nat) /\ Len(text) \in Nat
    BY <1>1, TextAssumption DEF TextTyped, IsCharacter
  <2>2. lorieLatin1ToUTF8(text) = Encoded(text)
    BY <1>1, <2>1, Latin1IsUTF8
  <2>3. Len(lorieLatin1ToUTF8(lorieConvertLF(text))) <= 2 * Len(text)
    <3> DEFINE u == lorieConvertLF(text)
    <3>1. u \in Seq(Nat) /\ Len(u) <= Len(text)
      BY <2>1, ConvertedLF
    <3> HIDE DEF u
    <3>2. Len(lorieLatin1ToUTF8(u)) \in Nat /\ Len(lorieLatin1ToUTF8(u)) <= 2 * Len(u) /\ Len(u) \in Nat
      BY <3>1, Widened
    <3> QED BY <2>1, <3>1, <3>2 DEF u
  <2>4. Expected(text) = text
    <3>1. \A i \in DOMAIN text : Expected(text)[i] = text[i]
      BY <1>1 DEF Expected, IsLatin1
    <3>2. Expected(text) = [i \in DOMAIN text |-> Expected(text)[i]]
      BY DEF Expected
    <3>3. text = [i \in DOMAIN text |-> text[i]]
      BY <2>1
    <3> QED BY <3>1, <3>2, <3>3
  <2>5. lorieUtf8ToLatin1(Encoded(text)) = text
    BY <2>1, <2>4, Pasted
  <2> QED BY <2>2, <2>3, <2>5
<1>2. TextTyped => Latin1RoundTrip
  BY <1>1 DEF Latin1RoundTrip
<1> QED BY <1>2, TextIsTyped, PTL
=============================================================================
