------------------------- MODULE Connection_proofs -------------------------
(* What holds of Connection for any number of failures and buffers.         *)
EXTENDS Connection, SequenceTheorems, TLAPS

\* The buffers that the server tells the activity about are numbered from 1.
AddsBuffers == \A j \in DOMAIN inbox : inbox[j].type = "ADD" => inbox[j].id # 0

TypeInv == TypeOK /\ AddsBuffers

\* addFd has its work item until it has stored the descriptor.
QueueKept == mpc = "assign" => workQueue # <<>>
-----------------------------------------------------------------------------
(* The inductive invariant of InStep *)

\* The activity knows nothing of its session yet.
Fresh == inbox = <<>> /\ ~mapped /\ aBuffers = {} /\ ~broken

\* The activity has the last session or none, and keeps nothing without one.
OneSession == aConnFd \in {None, sessions} /\ (aConnFd = None => Fresh)

\* The activity will have buffer b once it has read what is in its socket.
WillHave(b) ==
  \/ \E i \in DOMAIN inbox : inbox[i] = AddBuffer(b) /\ \A j \in DOMAIN inbox : j > i => inbox[j] # RemoveBuffer(b)
  \/ b \in aBuffers /\ \A j \in DOMAIN inbox : inbox[j] # RemoveBuffer(b)

\* The socket of a session that both processes have
Delivering ==
  /\ ~broken
  /\ mpc \notin {"assign", "state"} => mapped \/ \E i \in DOMAIN inbox : inbox[i] = SharedState
  /\ registeredBuffers = IF mpc = "idle" THEN {root} ELSE {}
  /\ \A b \in 1..MaxBuffers : WillHave(b) <=> b \in registeredBuffers \/ (mpc = "list" /\ b = root)

\* The phases that the last session goes through in the server
Absent ==
  /\ workQueue = <<>> /\ watched = {} /\ ipc = "poll" /\ connFd = None /\ registeredBuffers = {}
  /\ mpc # "assign" /\ (aConnFd # None => broken)
Queued ==
  /\ up /\ workQueue = <<sessions>> /\ watched = {} /\ ipc = "poll" /\ connFd = None /\ registeredBuffers = {}
  /\ mpc \in {"idle", "register"} /\ Fresh /\ sessions # None
\* between the two lines of addFd, during which the hangup may come and go
Assigning ==
  /\ up /\ workQueue = <<sessions>> /\ mpc = "assign" /\ connFd = None /\ registeredBuffers = {}
  /\ Fresh /\ sessions # None
  /\ (watched = {sessions} /\ ipc = "poll") \/ (watched = {} /\ aConnFd = None)
Active ==
  /\ up /\ workQueue = <<>> /\ watched = {sessions} /\ ipc = "poll" /\ connFd = sessions /\ sessions # None
  /\ mpc # "assign" /\ (aConnFd # None => Delivering)
Closed == up /\ workQueue = <<>> /\ watched = {} /\ ipc = "closed" /\ mpc # "assign" /\ aConnFd = None
Forgotten ==
  /\ up /\ workQueue = <<>> /\ watched = {} /\ ipc = "forgotten" /\ mpc # "assign"
  /\ connFd = None /\ aConnFd = None

Phases == Absent \/ Queued \/ Assigning \/ Active \/ Closed \/ Forgotten

\* Neither overlapping sessions nor a hangup between two accesses, in this server process
InTurn == ~overlapped /\ torn = {}

SessionInv == OneSession /\ (InTurn => Phases)
-----------------------------------------------------------------------------
(* Types *)

LEMMA EmptyInbox == inbox = <<>> => inbox \in Seq(Messages) /\ AddsBuffers
  BY DEF AddsBuffers

LEMMA TypeInit == Init => TypeInv
<1> SUFFICES ASSUME Init PROVE TypeInv
  OBVIOUS
<1>1. inbox \in Seq(Messages) /\ AddsBuffers
  BY EmptyInbox DEF Init
<1>2. /\ up \in BOOLEAN /\ broken \in BOOLEAN /\ mapped \in BOOLEAN /\ posted \in BOOLEAN /\ retry \in BOOLEAN
      /\ overlapped \in BOOLEAN
  BY DEF Init
<1>3. /\ mpc \in {"idle", "assign", "state", "register", "write", "list"} /\ ipc \in {"poll", "closed", "forgotten"}
  BY DEF Init
<1>4. workQueue \in Seq(Nat)
  BY DEF Init
<1> QED BY <1>1, <1>2, <1>3, <1>4, ConnectionAssumption DEF Init, TypeInv, TypeOK, None

\* What the server writes
LEMMA WrittenType ==
  ASSUME TypeInv, NEW m \in Messages, m.type = "ADD" => m.id # 0, inbox' \in {inbox, Written(<<m>>)}
  PROVE  inbox' \in Seq(Messages) /\ AddsBuffers'
<1>1. CASE inbox' = inbox
  BY <1>1 DEF TypeInv, TypeOK, AddsBuffers
<1>2. CASE inbox' = inbox \o <<m>>
  <2>1. /\ inbox' \in Seq(Messages) /\ Len(inbox') = Len(inbox) + 1 /\ Len(inbox) \in Nat
        /\ DOMAIN inbox = 1..Len(inbox) /\ DOMAIN inbox' = 1..Len(inbox')
        /\ \A i \in 1..Len(inbox) : inbox'[i] = inbox[i]
        /\ inbox'[Len(inbox) + 1] = m
    BY <1>2, ConcatProperties, LenProperties DEF TypeInv, TypeOK
  <2> QED BY <2>1 DEF TypeInv, AddsBuffers
<1> QED BY <1>1, <1>2 DEF Written

\* A step of the server that does not write
LEMMA InboxUntouched ==
  ASSUME AddsBuffers, UNCHANGED inbox PROVE AddsBuffers'
  BY DEF AddsBuffers

LEMMA OpenType ==
  ASSUME TypeInv, OpenSession
  PROVE  /\ overlapped' \in BOOLEAN /\ sessions' \in Nat /\ aConnFd' \in 0..sessions' /\ workQueue' \in Seq(Nat)
         /\ sessions' = sessions + 1 /\ torn' = torn
  BY AppendProperties DEF TypeInv, TypeOK, OpenSession

LEMMA DisconnectedType ==
  ASSUME Disconnected
  PROVE  broken' \in BOOLEAN /\ inbox' \in Seq(Messages) /\ mapped' \in BOOLEAN /\ aBuffers' \subseteq 1..MaxBuffers /\ AddsBuffers'
<1>1. inbox' = <<>> /\ broken' = FALSE /\ mapped' = FALSE /\ aBuffers' = {}
  BY DEF Disconnected
<1>2. DOMAIN inbox' = {}
  BY <1>1
<1>3. inbox' \in Seq(Messages) /\ aBuffers' \subseteq 1..MaxBuffers
  BY <1>1
<1>4. broken' \in BOOLEAN /\ mapped' \in BOOLEAN
  BY <1>1
<1>5. AddsBuffers'
  BY <1>2 DEF AddsBuffers
<1> QED BY <1>3, <1>4, <1>5

LEMMA RequestType ==
  ASSUME TypeInv, requestConnection PROVE broadcasts' \subseteq Nat
  BY DEF TypeInv, TypeOK, requestConnection

LEMMA TryConnectType ==
  ASSUME TypeInv, NEW i \in Nat, NEW again \in BOOLEAN, tryConnect(i, again)
  PROVE  /\ overlapped' \in BOOLEAN /\ sessions' \in Nat /\ aConnFd' \in 0..sessions' /\ workQueue' \in Seq(Nat)
         /\ service' \in Nat /\ retry' \in BOOLEAN /\ broadcasts' \subseteq Nat /\ torn' = torn
<1>1. OpenSession
        => overlapped' \in BOOLEAN /\ sessions' \in Nat /\ aConnFd' \in 0..sessions' /\ workQueue' \in Seq(Nat)
  BY OpenType
<1>2. aConnFd' = None /\ UNCHANGED <<opened, workQueue>>
        => overlapped' \in BOOLEAN /\ sessions' \in Nat /\ aConnFd' \in 0..sessions' /\ workQueue' \in Seq(Nat)
  BY DEF TypeInv, TypeOK, None, opened
<1>3. service' \in {None, i} /\ retry' \in {TRUE, again}
  BY DEF tryConnect
<1>4. requestConnection \/ UNCHANGED broadcasts
  BY DEF tryConnect
<1>5. broadcasts' \subseteq Nat
  BY <1>4, RequestType DEF TypeInv, TypeOK
<1>6. service' \in Nat
  BY <1>3 DEF None
<1>8. retry' \in BOOLEAN
  BY <1>3
<1>7. OpenSession \/ (aConnFd' = None /\ UNCHANGED <<opened, workQueue>>)
  BY DEF tryConnect
<1>9. torn' = torn
  BY <1>7 DEF OpenSession, opened
<1> QED BY <1>1, <1>2, <1>5, <1>6, <1>7, <1>8, <1>9

LEMMA QueueNext == TypeInv /\ QueueKept /\ [Next]_vars => QueueKept'
<1> SUFFICES ASSUME TypeInv, QueueKept, [Next]_vars, mpc' = "assign" PROVE workQueue' # <<>>
  BY DEF QueueKept
<1>1. OpenSession => workQueue' # <<>>
  BY AppendProperties DEF OpenSession, TypeInv, TypeOK
<1>2. UNCHANGED <<mpc, workQueue>> => workQueue' # <<>>
  BY DEF QueueKept
<1>3. CASE MainStep \/ lorieRRScreenSetSize
  BY <1>3 DEF MainStep, addFd, AssignConnFd, lorieSendSharedServerState, lorieRegisterBuffer, SendBuffer, ListBuffer,
              lorieRRScreenSetSize
<1>4. CASE InputStep \/ sendBroadcastDelayed \/ ServerDies \/ ServerStarts
  BY <1>2, <1>4 DEF InputStep, HangupClose, HangupForget, HangupUnlist, sendBroadcastDelayed, ServerDies, ServerStarts,
                    srv
<1>5. CASE UIStep \/ Recreate \/ Relaunch \/ \E i \in linked : binderDied(i)
  BY <1>1, <1>2, <1>5
  DEF UIStep, Retry, PostedDisconnect, xcallbackHangup, xcallback, onReceiveConnection, Recreate, Relaunch, binderDied,
      tryConnect, serverIdle, srv
<1>6. CASE UNCHANGED vars
  BY <1>2, <1>6 DEF vars, srv
<1> QED BY <1>3, <1>4, <1>5, <1>6 DEF Next

LEMMA TypeNext == TypeInv /\ QueueKept /\ [Next]_vars => TypeInv'
<1> SUFFICES ASSUME TypeInv, QueueKept, [Next]_vars PROVE TypeInv'
  OBVIOUS
<1>1. CASE addFd \/ AssignConnFd
  <2>1. Head(workQueue) \in Nat /\ Tail(workQueue) \in Seq(Nat)
    BY <1>1, HeadTailProperties DEF addFd, AssignConnFd, QueueKept, TypeInv, TypeOK
  <2>2. CASE addFd
    BY <2>1, <2>2, InboxUntouched DEF addFd, TypeInv, TypeOK, act, opened
  <2>3. CASE AssignConnFd
    <3>1. torn' \subseteq {"conn_fd", "registeredBuffers"}
      BY <2>3 DEF AssignConnFd, TypeInv, TypeOK
    <3> QED BY <2>1, <2>3, <3>1, InboxUntouched DEF AssignConnFd, TypeInv, TypeOK, act
  <2> QED BY <1>1, <2>2, <2>3
<1>2. CASE lorieSendSharedServerState
  <2>1. SharedState \in Messages /\ SharedState.type # "ADD"
    BY ConnectionAssumption DEF SharedState, Messages
  <2>2. inbox' \in Seq(Messages) /\ AddsBuffers'
    BY <1>2, <2>1, WrittenType DEF lorieSendSharedServerState
  <2> QED BY <1>2, <2>2 DEF lorieSendSharedServerState, TypeInv, TypeOK, opened
<1>3. CASE lorieRegisterBuffer \/ SendBuffer \/ ListBuffer
  <2>1. CASE lorieRegisterBuffer
    BY <2>1, InboxUntouched DEF lorieRegisterBuffer, TypeInv, TypeOK, act, opened
  <2>2. CASE SendBuffer
    <3>1. AddBuffer(root) \in Messages /\ AddBuffer(root).id # 0
      BY DEF AddBuffer, Messages, TypeInv, TypeOK
    <3>2. inbox' \in Seq(Messages) /\ AddsBuffers'
      BY <2>2, <3>1, WrittenType DEF SendBuffer
    <3> QED BY <2>2, <3>2 DEF SendBuffer, TypeInv, TypeOK, opened
  <2>3. CASE ListBuffer
    <3>1. torn' \subseteq {"conn_fd", "registeredBuffers"}
      BY <2>3 DEF ListBuffer, TypeInv, TypeOK
    <3> QED BY <2>3, <3>1, InboxUntouched DEF ListBuffer, TypeInv, TypeOK, act
  <2> QED BY <1>3, <2>1, <2>2, <2>3
<1>4. CASE lorieRRScreenSetSize
  <2>1. RemoveBuffer(root) \in Messages /\ RemoveBuffer(root).type # "ADD"
    BY DEF RemoveBuffer, Messages, TypeInv, TypeOK
  <2>2. inbox' \in Seq(Messages) /\ AddsBuffers'
    BY <1>4, <2>1, WrittenType DEF lorieRRScreenSetSize
  <2> QED BY <1>4, <2>2, ConnectionAssumption DEF lorieRRScreenSetSize, TypeInv, TypeOK, opened
<1>5. CASE InputStep
  <2>1. CASE HangupClose
    BY <2>1, InboxUntouched DEF HangupClose, TypeInv, TypeOK, act, opened
  <2>2. CASE HangupForget
    BY <2>2, InboxUntouched DEF HangupForget, TypeInv, TypeOK, None, act, opened
  <2>3. CASE HangupUnlist
    BY <2>3, InboxUntouched DEF HangupUnlist, TypeInv, TypeOK, act, opened
  <2> QED BY <1>5, <2>1, <2>2, <2>3 DEF InputStep
<1>6. CASE sendBroadcastDelayed
  BY <1>6, InboxUntouched DEF sendBroadcastDelayed, TypeInv, TypeOK, srv, act, opened
<1>7. CASE ServerDies \/ ServerStarts
  <2>1. CASE ServerDies
    <3>1. broken' \in BOOLEAN /\ up' \in BOOLEAN /\ overlapped' \in BOOLEAN
      BY <2>1 DEF ServerDies
    <3>3. workQueue' \in Seq(Nat)
      BY <2>1 DEF ServerDies
    <3>2. faults' \in 0..MaxFaults
      BY <2>1, ConnectionAssumption DEF ServerDies, TypeInv, TypeOK
    <3> QED BY <2>1, <3>1, <3>2, <3>3, InboxUntouched DEF ServerDies, TypeInv, TypeOK, None, opened
  <2>2. CASE ServerStarts
    BY <2>2, InboxUntouched, ConnectionAssumption DEF ServerStarts, TypeInv, TypeOK, act, opened
  <2> QED BY <1>7, <2>1, <2>2
<1>8. CASE Retry
  <2>1. CASE aConnFd # None
    BY <1>8, <2>1, InboxUntouched DEF Retry, TypeInv, TypeOK, serverIdle, opened
  <2>2. CASE aConnFd = None
    <3>1. tryConnect(service, FALSE)
      BY <1>8, <2>2 DEF Retry
    <3> QED BY <1>8, <3>1, TryConnectType, InboxUntouched DEF Retry, TypeInv, TypeOK, serverIdle
  <2> QED BY <2>1, <2>2
<1>9. CASE PostedDisconnect
  BY <1>9, TryConnectType, DisconnectedType DEF PostedDisconnect, TypeInv, TypeOK, serverIdle
<1>10. CASE xcallbackHangup
  BY <1>10, DisconnectedType DEF xcallbackHangup, TypeInv, TypeOK, None, srv, opened
<1>11. CASE xcallback
  <2>1. /\ Head(inbox) = inbox[1] /\ inbox[1] \in Messages /\ 1 \in DOMAIN inbox
        /\ inbox' \in Seq(Messages) /\ Len(inbox') = Len(inbox) - 1 /\ Len(inbox) \in Nat /\ DOMAIN inbox = 1..Len(inbox)
        /\ \A j \in 1..Len(inbox') : inbox'[j] = inbox[j + 1]
        /\ DOMAIN inbox' = 1..Len(inbox')
    BY <1>11, HeadTailProperties, LenProperties, EmptySeq DEF xcallback, TypeInv, TypeOK
  <2>2. AddsBuffers'
    <3> SUFFICES ASSUME NEW j \in DOMAIN inbox' PROVE inbox'[j].type = "ADD" => inbox'[j].id # 0
      BY DEF AddsBuffers
    <3>1. j + 1 \in DOMAIN inbox /\ inbox'[j] = inbox[j + 1]
      BY <2>1
    <3> QED BY <3>1 DEF TypeInv, AddsBuffers
  <2>3. aBuffers' \subseteq 1..MaxBuffers
    <3>1. inbox[1].type = "ADD" => inbox[1].id \in 1..MaxBuffers
      BY <2>1, ConnectionAssumption DEF TypeInv, AddsBuffers, Messages
    <3> QED BY <1>11, <2>1, <3>1 DEF xcallback, TypeInv, TypeOK
  <2>4. mapped' \in BOOLEAN
    BY <1>11 DEF xcallback, TypeInv, TypeOK
  <2> QED BY <1>11, <2>1, <2>2, <2>3, <2>4 DEF xcallback, TypeInv, TypeOK, srv, opened
<1>12. ASSUME NEW i \in broadcasts, onReceiveConnection(i) PROVE TypeInv'
  <2>0. i \in Nat
    BY DEF TypeInv, TypeOK
  <2>1. CASE OpenSession
    BY <1>12, <2>0, <2>1, OpenType, InboxUntouched DEF onReceiveConnection, TypeInv, TypeOK, serverIdle
  <2>2. CASE UNCHANGED <<aConnFd, opened, workQueue>>
    BY <1>12, <2>0, <2>2, InboxUntouched DEF onReceiveConnection, TypeInv, TypeOK, serverIdle, opened
  <2> QED BY <1>12, <2>1, <2>2 DEF onReceiveConnection
<1>13. ASSUME NEW i \in linked, binderDied(i) PROVE TypeInv'
  BY <1>13, InboxUntouched DEF binderDied, TypeInv, TypeOK, None, srv, opened
<1>14. CASE Recreate
  <2>1. CASE OpenSession /\ linked' = linked \cup {saved}
    <3>1. faults' \in 0..MaxFaults
      BY <1>14, ConnectionAssumption DEF Recreate, TypeInv, TypeOK
    <3>2. linked' \subseteq Nat /\ service' \in Nat /\ retry' \in BOOLEAN
      BY <1>14, <2>1 DEF Recreate, TypeInv, TypeOK
    <3> QED BY <1>14, <2>1, <3>1, <3>2, OpenType, DisconnectedType, RequestType DEF Recreate, TypeInv, TypeOK, serverIdle
  <2>2. CASE aConnFd' = None /\ UNCHANGED <<opened, workQueue, linked>>
    BY <1>14, <2>2, DisconnectedType, RequestType, ConnectionAssumption DEF Recreate, TypeInv, TypeOK, serverIdle, opened, None
  <2> QED BY <1>14, <2>1, <2>2 DEF Recreate
<1>15. CASE Relaunch
  <2>1. faults' \in 0..MaxFaults
    BY <1>15, ConnectionAssumption DEF Relaunch, TypeInv, TypeOK
  <2>4. posted' \in BOOLEAN /\ retry' \in BOOLEAN
    BY <1>15 DEF Relaunch
  <2>2. service' \in Nat /\ saved' \in Nat /\ linked' \subseteq Nat
        /\ aConnFd' \in 0..sessions'
    BY <1>15 DEF Relaunch, None, TypeInv, TypeOK, opened
  <2>3. broadcasts' \subseteq Nat
    BY <1>15, RequestType DEF Relaunch
  <2> QED BY <1>15, <2>1, <2>2, <2>3, <2>4, DisconnectedType DEF Relaunch, TypeInv, TypeOK, srv, opened
<1>16. CASE UNCHANGED vars
  BY <1>16, InboxUntouched DEF vars, srv, act, opened, TypeInv, TypeOK
<1> QED
  BY <1>1, <1>2, <1>3, <1>4, <1>5, <1>6, <1>7, <1>8, <1>9, <1>10, <1>11, <1>12, <1>13, <1>14, <1>15, <1>16
  DEF Next, MainStep, UIStep

(***************************************************************************)
(* Every variable of the server and of the activity keeps its type, for    *)
(* any number of failures and buffers; the activity only ever holds        *)
(* buffers that the server has made.                                       *)
(***************************************************************************)
THEOREM TypeCorrect == Spec => []TypeOK
<1>1. TypeInv => TypeOK
  BY DEF TypeInv
<1>2. Init => QueueKept
  BY DEF Init, QueueKept
<1> QED BY TypeInit, TypeNext, QueueNext, <1>1, <1>2, PTL DEF Spec
-----------------------------------------------------------------------------
(* InStep *)

sessVars == <<up, connFd, workQueue, watched, mpc, ipc, registeredBuffers, root, aConnFd, broken, inbox, mapped,
              aBuffers, sessions, overlapped, torn>>

LEMMA SessionInit == Init => SessionInv
  BY DEF Init, SessionInv, InTurn, OneSession, Fresh, Phases, Absent, None

LEMMA SessionUntouched ==
  ASSUME SessionInv, UNCHANGED sessVars PROVE SessionInv'
  BY DEF sessVars, SessionInv, InTurn, OneSession, Fresh, Phases, Absent, Queued, Assigning, Active, Closed, Forgotten, Delivering, WillHave

\* The activity opens a session.
LEMMA Opens ==
  ASSUME TypeInv, SessionInv, OpenSession, up, Fresh', UNCHANGED serverIdle
  PROVE  SessionInv'
<1>1. OneSession' /\ sessions' # None
  BY DEF OpenSession, OneSession, TypeInv, TypeOK, None
<1>2. ASSUME InTurn' PROVE Queued'
  <2>1. Quiet /\ Absent
    <3>1. Quiet /\ Phases
      BY <1>2 DEF OpenSession, SessionInv, InTurn
    <3>2. workQueue # <<sessions>>
      BY <3>1 DEF Quiet
    <3> QED BY <3>1, <3>2 DEF Phases, Absent, Queued, Assigning, Active, Closed, Forgotten, Quiet
  <2>2. workQueue' = <<sessions'>>
    BY <2>1 DEF OpenSession, Quiet
  <2> QED BY <1>1, <2>1, <2>2 DEF Absent, Queued, Quiet, serverIdle
<1> QED BY <1>1, <1>2 DEF SessionInv, Phases

\* The activity gives its session up.
LEMMA Closes ==
  ASSUME SessionInv, aConnFd' = None, Fresh', UNCHANGED <<serverIdle, opened, workQueue>>
  PROVE  SessionInv'
  BY DEF SessionInv, InTurn, OneSession, Phases, Absent, Queued, Assigning, Active, Closed, Forgotten, serverIdle, opened, Fresh

LEMMA DisconnectedFresh == Disconnected => Fresh'
  BY DEF Disconnected, Fresh

\* The server writes messages to the activity's socket.
LEMMA InboxGrows ==
  ASSUME TypeInv, NEW m \in Messages, inbox' = inbox \o <<m>>, UNCHANGED aBuffers
  PROVE  /\ \A i \in DOMAIN inbox : i \in DOMAIN inbox' /\ inbox'[i] = inbox[i]
         /\ \E i \in DOMAIN inbox' : inbox'[i] = m
         /\ \A b : WillHave(b)' <=> (m = AddBuffer(b) \/ (WillHave(b) /\ m # RemoveBuffer(b)))
<1>1. /\ inbox' \in Seq(Messages) /\ Len(inbox') = Len(inbox) + 1 /\ Len(inbox) \in Nat
      /\ DOMAIN inbox = 1..Len(inbox) /\ DOMAIN inbox' = 1..Len(inbox)+1
      /\ \A i \in 1..Len(inbox) : inbox'[i] = inbox[i]
      /\ inbox'[Len(inbox) + 1] = m
  BY ConcatProperties, LenProperties DEF TypeInv, TypeOK
<1>2. \A b : AddBuffer(b) # RemoveBuffer(b)
  BY DEF AddBuffer, RemoveBuffer
<1>3. ASSUME NEW b, WillHave(b)' PROVE m = AddBuffer(b) \/ (WillHave(b) /\ m # RemoveBuffer(b))
  BY <1>1, <1>3 DEF WillHave
<1>4. ASSUME NEW b, m = AddBuffer(b) PROVE WillHave(b)'
  BY <1>1, <1>4 DEF WillHave
<1>5. ASSUME NEW b, WillHave(b), m # RemoveBuffer(b) PROVE WillHave(b)'
  BY <1>1, <1>5 DEF WillHave
<1> QED BY <1>1, <1>3, <1>4, <1>5

\* The activity reads a message.
LEMMA InboxRead ==
  ASSUME TypeInv, xcallback
  PROVE  /\ mapped \/ (\E i \in DOMAIN inbox : inbox[i] = SharedState)
              => mapped' \/ (\E i \in DOMAIN inbox' : inbox'[i] = SharedState)
         /\ \A b \in 1..MaxBuffers : WillHave(b)' <=> WillHave(b)
<1>1. /\ Head(inbox) = inbox[1] /\ inbox[1] \in Messages /\ Len(inbox) \in Nat \ {0}
      /\ DOMAIN inbox = 1..Len(inbox) /\ DOMAIN inbox' = 1..Len(inbox)-1
      /\ \A j \in 1..Len(inbox)-1 : inbox'[j] = inbox[j + 1]
  BY HeadTailProperties, LenProperties, EmptySeq DEF xcallback, TypeInv, TypeOK
<1>2. \A j \in DOMAIN inbox : j = 1 \/ (j - 1 \in DOMAIN inbox' /\ inbox'[j - 1] = inbox[j])
  BY <1>1
<1>3. mapped \/ (\E i \in DOMAIN inbox : inbox[i] = SharedState)
        => mapped' \/ (\E i \in DOMAIN inbox' : inbox'[i] = SharedState)
  <2>1. CASE mapped
    BY <2>1 DEF xcallback
  <2>2. ASSUME NEW i \in DOMAIN inbox, inbox[i] = SharedState
        PROVE  mapped' \/ (\E k \in DOMAIN inbox' : inbox'[k] = SharedState)
    <3>1. CASE i = 1
      <4>1. Head(inbox).type = "STATE"
        BY <1>1, <2>2, <3>1 DEF SharedState
      <4> QED BY <4>1 DEF xcallback
    <3>2. CASE i # 1
      BY <1>2, <2>2, <3>2
    <3> QED BY <3>1, <3>2
  <2> QED BY <2>1, <2>2
<1>4. ASSUME NEW b \in 1..MaxBuffers
      PROVE  b \in aBuffers' <=> (inbox[1] = AddBuffer(b) \/ (b \in aBuffers /\ inbox[1] # RemoveBuffer(b)))
  <2>1. inbox[1] = [type |-> inbox[1].type, id |-> inbox[1].id]
    BY <1>1 DEF Messages
  <2> QED BY <1>1, <2>1 DEF xcallback, AddBuffer, RemoveBuffer, Messages
<1>5. ASSUME NEW b \in 1..MaxBuffers, WillHave(b)' PROVE WillHave(b)
  <2>1. CASE b \in aBuffers' /\ \A j \in DOMAIN inbox' : inbox'[j] # RemoveBuffer(b)
    <3>1. \A j \in DOMAIN inbox : j # 1 => inbox[j] # RemoveBuffer(b)
      BY <1>2, <2>1
    <3>2. CASE inbox[1] = AddBuffer(b)
      <4>1. 1 \in DOMAIN inbox /\ \A j \in DOMAIN inbox : j > 1 => j # 1
        BY <1>1
      <4> QED BY <3>1, <3>2, <4>1 DEF WillHave
    <3>3. CASE b \in aBuffers /\ inbox[1] # RemoveBuffer(b)
      BY <3>1, <3>3 DEF WillHave
    <3> QED BY <1>4, <2>1, <3>2, <3>3
  <2>2. CASE \E i \in DOMAIN inbox' : inbox'[i] = AddBuffer(b)
                 /\ \A j \in DOMAIN inbox' : j > i => inbox'[j] # RemoveBuffer(b)
    <3>1. PICK i \in DOMAIN inbox' : inbox'[i] = AddBuffer(b)
                 /\ \A j \in DOMAIN inbox' : j > i => inbox'[j] # RemoveBuffer(b)
      BY <2>2
    <3>2. i + 1 \in DOMAIN inbox /\ inbox[i + 1] = AddBuffer(b)
      BY <1>1, <3>1
    <3>3. ASSUME NEW j \in DOMAIN inbox, j > i + 1 PROVE inbox[j] # RemoveBuffer(b)
      <4>1. j - 1 \in DOMAIN inbox' /\ inbox'[j - 1] = inbox[j] /\ j - 1 > i
        BY <1>1, <3>3
      <4> QED BY <3>1, <4>1
    <3> QED BY <3>2, <3>3 DEF WillHave
  <2> QED BY <1>5, <2>1, <2>2 DEF WillHave
<1>6. ASSUME NEW b \in 1..MaxBuffers, WillHave(b) PROVE WillHave(b)'
  <2>1. CASE b \in aBuffers /\ \A j \in DOMAIN inbox : inbox[j] # RemoveBuffer(b)
    BY <1>1, <1>4, <2>1 DEF WillHave
  <2>2. CASE \E i \in DOMAIN inbox : inbox[i] = AddBuffer(b)
                 /\ \A j \in DOMAIN inbox : j > i => inbox[j] # RemoveBuffer(b)
    <3>1. PICK i \in DOMAIN inbox : inbox[i] = AddBuffer(b)
                 /\ \A j \in DOMAIN inbox : j > i => inbox[j] # RemoveBuffer(b)
      BY <2>2
    <3>2. CASE i = 1
      BY <1>1, <1>4, <3>1, <3>2 DEF WillHave
    <3>3. CASE i # 1
      <4>1. i - 1 \in DOMAIN inbox' /\ inbox'[i - 1] = AddBuffer(b)
        BY <1>2, <3>1, <3>3
      <4>2. ASSUME NEW j \in DOMAIN inbox', j > i - 1 PROVE inbox'[j] # RemoveBuffer(b)
        BY <1>1, <3>1, <4>2
      <4> QED BY <4>1, <4>2 DEF WillHave
    <3> QED BY <3>2, <3>3
  <2> QED BY <1>6, <2>1, <2>2 DEF WillHave
<1> QED BY <1>3, <1>5, <1>6

LEMMA SessionAddFd ==
  ASSUME TypeInv, SessionInv, addFd PROVE SessionInv'
<1>1. UNCHANGED <<up, workQueue, connFd, ipc, registeredBuffers, root, aConnFd, broken, inbox, mapped, aBuffers,
                  sessions, overlapped, torn>>
  BY DEF addFd, act, opened
<1>2. OneSession'
  BY <1>1 DEF SessionInv, OneSession, Fresh
<1>3. ASSUME InTurn PROVE Assigning'
  <2>1. Queued
    BY <1>3 DEF addFd, SessionInv, Phases, Absent, Assigning, Active, Closed, Forgotten
  <2>2. Head(workQueue) = sessions
    BY <2>1 DEF Queued
  <2> QED BY <1>1, <2>1, <2>2 DEF Assigning, Queued, addFd, Fresh
<1> QED BY <1>1, <1>2, <1>3 DEF SessionInv, InTurn, Phases

LEMMA SessionAssign ==
  ASSUME TypeInv, SessionInv, AssignConnFd PROVE SessionInv'
<1>1. UNCHANGED <<up, watched, ipc, registeredBuffers, root, aConnFd, broken, inbox, mapped, aBuffers, sessions,
                  overlapped>> /\ mpc = "assign" /\ mpc' = "state" /\ torn \subseteq torn'
  BY DEF AssignConnFd, act
<1>2. OneSession'
  BY <1>1 DEF SessionInv, OneSession, Fresh
<1>3. ASSUME InTurn' PROVE Active' \/ Closed'
  <2>1. Assigning
    BY <1>1, <1>3 DEF SessionInv, InTurn, Phases, Absent, Queued, Active, Closed, Forgotten
  <2>2. Head(workQueue) = sessions /\ Tail(workQueue) = <<>>
    BY <2>1 DEF Assigning
  <2>3. Head(workQueue) \in watched \/ ipc = "closed"
    BY <1>3 DEF AssignConnFd, InTurn
  <2>4. inbox = <<>> /\ aBuffers = {} /\ ~broken /\ registeredBuffers = {} /\ DOMAIN inbox = {}
    BY <2>1 DEF Assigning, Fresh
  <2>5. \A b \in 1..MaxBuffers : ~WillHave(b)'
    BY <1>1, <2>4 DEF WillHave
  <2>6. Delivering'
    BY <1>1, <2>4, <2>5 DEF Delivering
  <2>7. CASE watched = {sessions} /\ ipc = "poll"
    BY <1>1, <2>1, <2>2, <2>6, <2>7 DEF Active, Assigning, AssignConnFd
  <2>8. CASE watched = {} /\ aConnFd = None
    BY <1>1, <2>1, <2>2, <2>3, <2>8 DEF Closed, Assigning, AssignConnFd
  <2> QED BY <2>1, <2>7, <2>8 DEF Assigning
<1> QED BY <1>2, <1>3 DEF SessionInv, Phases

LEMMA SessionSendState ==
  ASSUME TypeInv, SessionInv, lorieSendSharedServerState PROVE SessionInv'
<1>1. UNCHANGED <<up, connFd, workQueue, watched, ipc, registeredBuffers, root, aConnFd, broken, mapped, aBuffers,
                  sessions, overlapped, torn>> /\ mpc = "state" /\ mpc' = "register" /\ up
  BY DEF lorieSendSharedServerState, opened
<1>2. aConnFd = None => inbox' = inbox
  BY DEF lorieSendSharedServerState, Written
<1>3. OneSession'
  BY <1>1, <1>2 DEF SessionInv, OneSession, Fresh
<1>4. ASSUME Active PROVE Active'
  <2>1. CASE aConnFd = None
    BY <1>1, <1>4, <2>1 DEF Active
  <2>2. CASE aConnFd # None
    <3>1. Delivering /\ connFd = aConnFd /\ connFd # None
      BY <1>4, <2>2 DEF Active, SessionInv, OneSession
    <3>2. inbox' = inbox \o <<SharedState>>
      BY <3>1 DEF lorieSendSharedServerState, Written
    <3>3. SharedState \in Messages /\ \A b : SharedState # AddBuffer(b) /\ SharedState # RemoveBuffer(b)
      BY ConnectionAssumption DEF SharedState, Messages, AddBuffer, RemoveBuffer
    <3>4. (\E i \in DOMAIN inbox' : inbox'[i] = SharedState) /\ \A b : WillHave(b)' <=> WillHave(b)
      BY <1>1, <3>2, <3>3, InboxGrows
    <3>5. Delivering'
      BY <1>1, <3>1, <3>4 DEF Delivering
    <3> QED BY <1>1, <1>4, <3>5 DEF Active
  <2> QED BY <2>1, <2>2
<1>5. ASSUME Absent \/ Closed \/ Forgotten PROVE (Absent \/ Closed \/ Forgotten)'
  BY <1>1, <1>5 DEF Absent, Closed, Forgotten
<1>6. ~Queued /\ ~Assigning
  BY <1>1 DEF Queued, Assigning
<1> QED BY <1>1, <1>3, <1>4, <1>5, <1>6 DEF SessionInv, InTurn, Phases

LEMMA SessionRegister ==
  ASSUME TypeInv, SessionInv, lorieRegisterBuffer PROVE SessionInv'
<1>1. UNCHANGED <<up, connFd, workQueue, watched, ipc, registeredBuffers, root, aConnFd, broken, inbox, mapped,
                  aBuffers, sessions, overlapped, torn>>
      /\ mpc = "register" /\ mpc' \in {"idle", "write"} /\ (connFd = None => mpc' = "idle")
  BY DEF lorieRegisterBuffer, act, opened
<1>2. OneSession'
  BY <1>1 DEF SessionInv, OneSession, Fresh
<1>3. ASSUME Active PROVE Active'
  <2>1. CASE aConnFd = None
    BY <1>1, <1>3, <2>1 DEF Active
  <2>2. CASE aConnFd # None
    <3>1. Delivering /\ connFd # None /\ registeredBuffers = {}
      BY <1>1, <1>3, <2>2 DEF Active, Delivering
    <3>2. mpc' = "write"
      BY <3>1 DEF lorieRegisterBuffer
    <3>3. \A b : WillHave(b)' <=> WillHave(b)
      BY <1>1 DEF WillHave
    <3>4. Delivering'
      BY <1>1, <3>1, <3>2, <3>3 DEF Delivering
    <3> QED BY <1>1, <1>3, <3>4 DEF Active
  <2> QED BY <2>1, <2>2
<1>4. ASSUME Absent \/ Queued \/ Closed \/ Forgotten PROVE (Absent \/ Queued \/ Closed \/ Forgotten)'
  BY <1>1, <1>4 DEF Absent, Queued, Closed, Forgotten, Fresh
<1>5. ~Assigning
  BY <1>1 DEF Assigning
<1> QED BY <1>1, <1>2, <1>3, <1>4, <1>5 DEF SessionInv, InTurn, Phases

LEMMA SessionSendBuffer ==
  ASSUME TypeInv, SessionInv, SendBuffer PROVE SessionInv'
<1>1. UNCHANGED <<up, connFd, workQueue, watched, ipc, registeredBuffers, root, aConnFd, broken, mapped, aBuffers,
                  sessions, overlapped, torn>> /\ mpc = "write" /\ mpc' = "list"
  BY DEF SendBuffer, opened
<1>2. aConnFd = None => inbox' = inbox
  BY DEF SendBuffer, Written
<1>3. OneSession'
  BY <1>1, <1>2 DEF SessionInv, OneSession, Fresh
<1>4. ASSUME Active PROVE Active'
  <2>1. CASE aConnFd = None
    BY <1>1, <1>4, <2>1 DEF Active
  <2>2. CASE aConnFd # None
    <3>1. Delivering /\ connFd = aConnFd /\ connFd # None /\ registeredBuffers = {}
      BY <1>1, <1>4, <2>2 DEF Active, SessionInv, OneSession, Delivering
    <3>2. inbox' = inbox \o <<AddBuffer(root)>>
      BY <3>1 DEF SendBuffer, Written
    <3>3. /\ AddBuffer(root) \in Messages
          /\ \A b : (AddBuffer(root) = AddBuffer(b) <=> b = root) /\ AddBuffer(root) # RemoveBuffer(b)
      BY DEF Messages, AddBuffer, RemoveBuffer, TypeInv, TypeOK
    <3>4. /\ \A i \in DOMAIN inbox : i \in DOMAIN inbox' /\ inbox'[i] = inbox[i]
          /\ \A b : WillHave(b)' <=> b = root \/ WillHave(b)
      BY <1>1, <3>2, <3>3, InboxGrows
    <3>5. Delivering'
      BY <1>1, <3>1, <3>4 DEF Delivering
    <3> QED BY <1>1, <1>4, <3>5 DEF Active
  <2> QED BY <2>1, <2>2
<1>5. ASSUME Absent \/ Closed \/ Forgotten PROVE (Absent \/ Closed \/ Forgotten)'
  BY <1>1, <1>5 DEF Absent, Closed, Forgotten
<1>6. ~Queued /\ ~Assigning
  BY <1>1 DEF Queued, Assigning
<1> QED BY <1>1, <1>3, <1>4, <1>5, <1>6 DEF SessionInv, InTurn, Phases

LEMMA SessionList ==
  ASSUME TypeInv, SessionInv, ListBuffer PROVE SessionInv'
<1>1. UNCHANGED <<up, connFd, workQueue, watched, ipc, root, aConnFd, broken, inbox, mapped, aBuffers, sessions,
                  overlapped>> /\ mpc = "list" /\ mpc' = "idle" /\ torn \subseteq torn'
  BY DEF ListBuffer, act
<1>2. OneSession'
  BY <1>1 DEF SessionInv, OneSession, Fresh
<1>3. ASSUME Active PROVE Active'
  <2>1. CASE aConnFd = None
    BY <1>1, <1>3, <2>1 DEF Active
  <2>2. CASE aConnFd # None
    <3>1. Delivering /\ registeredBuffers = {} /\ registeredBuffers' = {root}
      BY <1>1, <1>3, <2>2 DEF Active, Delivering, ListBuffer
    <3>2. \A b : WillHave(b)' <=> WillHave(b)
      BY <1>1 DEF WillHave
    <3>3. Delivering'
      BY <1>1, <3>1, <3>2 DEF Delivering
    <3> QED BY <1>1, <1>3, <3>3 DEF Active
  <2> QED BY <2>1, <2>2
<1>4. ASSUME Closed \/ Forgotten PROVE (Closed \/ Forgotten)'
  BY <1>1, <1>4 DEF Closed, Forgotten
<1>5. ~Queued /\ ~Assigning
  BY <1>1 DEF Queued, Assigning
<1>6. InTurn' => ~Absent
  BY DEF InTurn, ListBuffer, Absent
<1> QED BY <1>1, <1>2, <1>3, <1>4, <1>5, <1>6 DEF SessionInv, InTurn, Phases

LEMMA SessionResize ==
  ASSUME TypeInv, SessionInv, lorieRRScreenSetSize PROVE SessionInv'
<1>1. UNCHANGED <<up, connFd, workQueue, watched, ipc, aConnFd, broken, mapped, aBuffers, sessions, overlapped, torn>>
      /\ mpc = "idle" /\ mpc' = "register" /\ up /\ registeredBuffers' = registeredBuffers \ {root}
  BY DEF lorieRRScreenSetSize, opened
<1>2. /\ connFd = None => UNCHANGED inbox
      /\ aConnFd = None => inbox' = inbox
  BY DEF lorieRRScreenSetSize, Written
<1>3. OneSession'
  BY <1>1, <1>2 DEF SessionInv, OneSession, Fresh
<1>4. ASSUME Active PROVE Active'
  <2>1. CASE aConnFd = None
    BY <1>1, <1>4, <2>1 DEF Active
  <2>2. CASE aConnFd # None
    <3>1. Delivering /\ connFd = aConnFd /\ connFd # None /\ registeredBuffers = {root}
      BY <1>1, <1>4, <2>2 DEF Active, SessionInv, OneSession, Delivering
    <3>2. inbox' = inbox \o <<RemoveBuffer(root)>> /\ registeredBuffers' = {}
      BY <1>1, <3>1 DEF lorieRRScreenSetSize, Written
    <3>3. /\ RemoveBuffer(root) \in Messages
          /\ \A b : RemoveBuffer(root) # AddBuffer(b) /\ (RemoveBuffer(root) = RemoveBuffer(b) <=> b = root)
      BY DEF Messages, AddBuffer, RemoveBuffer, TypeInv, TypeOK
    <3>4. /\ \A i \in DOMAIN inbox : i \in DOMAIN inbox' /\ inbox'[i] = inbox[i]
          /\ \A b : WillHave(b)' <=> WillHave(b) /\ b # root
      BY <1>1, <3>2, <3>3, InboxGrows
    <3>5. Delivering'
      BY <1>1, <3>1, <3>2, <3>4 DEF Delivering
    <3> QED BY <1>1, <1>4, <3>5 DEF Active
  <2> QED BY <2>1, <2>2
<1>5. ASSUME Absent \/ Queued \/ Closed \/ Forgotten PROVE (Absent \/ Queued \/ Closed \/ Forgotten)'
  BY <1>1, <1>2, <1>5 DEF Absent, Queued, Closed, Forgotten, Fresh
<1>6. ~Assigning
  BY <1>1 DEF Assigning
<1> QED BY <1>1, <1>3, <1>4, <1>5, <1>6 DEF SessionInv, InTurn, Phases

LEMMA SessionHangup ==
  ASSUME TypeInv, SessionInv, InputStep PROVE SessionInv'
<1>1. UNCHANGED <<up, workQueue, mpc, root, aConnFd, broken, inbox, mapped, aBuffers, sessions, overlapped, torn>> /\ up
  BY DEF InputStep, HangupClose, HangupForget, HangupUnlist, act, opened
<1>2. OneSession'
  BY <1>1 DEF SessionInv, OneSession, Fresh
<1>3. ASSUME InTurn, HangupClose PROVE Closed' \/ Assigning'
  <2>1. (Active \/ Assigning) /\ watched = {sessions} /\ aConnFd = None
    BY <1>3 DEF HangupClose, SessionInv, OneSession, Phases, Absent, Queued, Assigning, Active, Closed, Forgotten
  <2>2. watched' = {} /\ ipc' = "closed" /\ UNCHANGED <<connFd, registeredBuffers>>
    BY <1>3, <2>1 DEF HangupClose
  <2> QED BY <1>1, <2>1, <2>2 DEF Active, Assigning, Closed, Fresh
<1>4. ASSUME InTurn, HangupForget PROVE Forgotten' \/ Assigning'
  BY <1>1, <1>4 DEF HangupForget, SessionInv, Phases, Absent, Queued, Assigning, Active, Closed, Forgotten, Fresh
<1>5. ASSUME InTurn, HangupUnlist PROVE Absent' \/ Assigning'
  BY <1>1, <1>5 DEF HangupUnlist, SessionInv, Phases, Absent, Queued, Assigning, Active, Closed, Forgotten, Fresh
<1> QED BY <1>1, <1>2, <1>3, <1>4, <1>5 DEF SessionInv, InTurn, Phases, InputStep

LEMMA SessionTryConnect ==
  ASSUME TypeInv, SessionInv, NEW i, NEW again, tryConnect(i, again), Fresh', UNCHANGED serverIdle
  PROVE  SessionInv'
<1>1. (OpenSession /\ up) \/ (aConnFd' = None /\ UNCHANGED <<opened, workQueue>>)
  BY DEF tryConnect, Alive
<1> QED BY <1>1, Opens, Closes

LEMMA SessionNext == TypeInv /\ SessionInv /\ [Next]_vars => SessionInv'
<1> SUFFICES ASSUME TypeInv, SessionInv, [Next]_vars PROVE SessionInv'
  OBVIOUS
<1>1. CASE MainStep
  BY <1>1, SessionAddFd, SessionAssign, SessionSendState, SessionRegister, SessionSendBuffer, SessionList DEF MainStep
<1>2. CASE lorieRRScreenSetSize
  BY <1>2, SessionResize
<1>3. CASE InputStep
  BY <1>3, SessionHangup
<1>4. CASE sendBroadcastDelayed
  BY <1>4, SessionUntouched DEF sendBroadcastDelayed, srv, act, opened, sessVars
<1>5. CASE ServerDies
  <2>1. OneSession'
    BY <1>5 DEF ServerDies, SessionInv, OneSession, Fresh
  <2>2. Absent'
    BY <1>5 DEF ServerDies, Absent
  <2> QED BY <2>1, <2>2 DEF SessionInv, Phases
<1>6. CASE ServerStarts
  <2>1. OneSession'
    BY <1>6 DEF ServerStarts, SessionInv, OneSession, Fresh, act, opened
  <2>2. InTurn => Absent'
    BY <1>6 DEF ServerStarts, SessionInv, Phases, Absent, Queued, Assigning, Active, Closed, Forgotten, act
  <2>3. UNCHANGED <<overlapped, torn>>
    BY <1>6 DEF ServerStarts, opened
  <2> QED BY <2>1, <2>2, <2>3 DEF SessionInv, InTurn, Phases
<1>7. CASE Retry
  <2>1. CASE aConnFd # None
    BY <1>7, <2>1, SessionUntouched DEF Retry, serverIdle, opened, sessVars
  <2>2. CASE aConnFd = None
    <3>1. Fresh'
      BY <1>7, <2>2 DEF Retry, SessionInv, OneSession, Fresh
    <3> QED BY <1>7, <2>2, <3>1, SessionTryConnect DEF Retry
  <2> QED BY <2>1, <2>2
<1>8. CASE PostedDisconnect
  BY <1>8, SessionTryConnect, DisconnectedFresh DEF PostedDisconnect
<1>9. CASE xcallbackHangup
  BY <1>9, Closes, DisconnectedFresh DEF xcallbackHangup, srv, serverIdle
<1>10. CASE xcallback
  <2>1. UNCHANGED <<up, connFd, workQueue, watched, mpc, ipc, registeredBuffers, root, aConnFd, broken, sessions,
                    overlapped, torn>> /\ ~broken /\ inbox # <<>>
    BY <1>10 DEF xcallback, srv, opened
  <2>2. aConnFd # None /\ OneSession'
    BY <2>1 DEF SessionInv, OneSession, Fresh
  <2>3. ASSUME InTurn PROVE Active'
    <3>1. Active /\ Delivering
      BY <2>1, <2>2, <2>3 DEF SessionInv, Phases, Absent, Queued, Assigning, Active, Closed, Forgotten, Fresh
    <3>2. Delivering'
      BY <1>10, <2>1, <3>1, InboxRead DEF Delivering
    <3> QED BY <2>1, <3>1, <3>2 DEF Active
  <2> QED BY <2>1, <2>2, <2>3 DEF SessionInv, InTurn, Phases
<1>11. ASSUME NEW i \in broadcasts, onReceiveConnection(i) PROVE SessionInv'
  <2>1. CASE UNCHANGED <<aConnFd, opened, workQueue>>
    BY <1>11, <2>1, SessionUntouched DEF onReceiveConnection, serverIdle, opened, sessVars
  <2>2. CASE ~UNCHANGED <<aConnFd, opened, workQueue>>
    <3>1. OpenSession /\ up /\ aConnFd = None
      BY <1>11, <2>2 DEF onReceiveConnection, Alive
    <3>2. Fresh' /\ UNCHANGED serverIdle
      BY <1>11, <3>1 DEF onReceiveConnection, SessionInv, OneSession, Fresh
    <3> QED BY <3>1, <3>2, Opens
  <2> QED BY <2>1, <2>2
<1>12. ASSUME NEW i \in linked, binderDied(i) PROVE SessionInv'
  BY <1>12, SessionUntouched DEF binderDied, srv, opened, sessVars
<1>13. CASE Recreate
  <2>1. Fresh' /\ UNCHANGED serverIdle
    BY <1>13, DisconnectedFresh DEF Recreate
  <2>2. (OpenSession /\ up) \/ (aConnFd' = None /\ UNCHANGED <<opened, workQueue>>)
    BY <1>13 DEF Recreate, Alive
  <2> QED BY <2>1, <2>2, Opens, Closes
<1>14. CASE Relaunch
  BY <1>14, Closes, DisconnectedFresh DEF Relaunch, srv, serverIdle
<1>15. CASE UNCHANGED vars
  BY <1>15, SessionUntouched DEF vars, srv, act, opened, sessVars
<1> QED
  BY <1>1, <1>2, <1>3, <1>4, <1>5, <1>6, <1>7, <1>8, <1>9, <1>10, <1>11, <1>12, <1>13, <1>14, <1>15
  DEF Next, UIStep

(***************************************************************************)
(* Both processes agree on a session once its messages are delivered, for  *)
(* any number of server deaths, activity restarts and resizes, as long as  *)
(* in the life of the server process sessions do not overlap and no hangup *)
(* falls between the lines of addFd or of lorieRegisterBuffer: then addFd, *)
(* the hangup of handleLorieEvents and xcallback leave conn_fd,            *)
(* registeredBuffers and the renderer's buffers in step although the       *)
(* server's threads share them without a lock.                             *)
(***************************************************************************)
THEOREM SessionsInStep == Spec => []InStep
<1>1. ASSUME TypeInv, SessionInv, SessionSettled, InTurn
      PROVE  connFd = aConnFd /\ mapped /\ aBuffers = registeredBuffers /\ root \in aBuffers
  <2>1. workQueue # <<sessions>>
    BY <1>1 DEF SessionSettled
  <2>2. Active /\ Delivering /\ aConnFd = sessions
    BY <1>1, <2>1 DEF SessionSettled, SessionInv, OneSession, Phases, Absent, Queued, Assigning, Active, Closed, Forgotten
  <2>3. DOMAIN inbox = {} /\ \A b : WillHave(b) <=> b \in aBuffers
    BY <1>1 DEF SessionSettled, WillHave
  <2>4. registeredBuffers = {root} /\ root \in 1..MaxBuffers /\ aBuffers \subseteq 1..MaxBuffers
    BY <1>1, <2>2 DEF SessionSettled, Delivering, TypeInv, TypeOK
  <2>5. aBuffers = registeredBuffers
    BY <2>2, <2>3, <2>4 DEF Delivering
  <2> QED BY <1>1, <2>2, <2>3, <2>4, <2>5 DEF Active, Delivering, SessionSettled
<1>2. TypeInv /\ SessionInv => InStep
  BY <1>1 DEF InStep, InTurn
<1>3. Init => QueueKept
  BY DEF Init, QueueKept
<1> QED BY TypeInit, TypeNext, QueueNext, SessionInit, SessionNext, <1>2, <1>3, PTL DEF Spec
=============================================================================
