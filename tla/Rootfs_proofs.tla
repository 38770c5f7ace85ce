---------------------------- MODULE Rootfs_proofs ----------------------------
(* What holds of Rootfs for any number of containers, names, users and operations. *)
EXTENDS Rootfs, WellFoundedInduction, TLAPS

\* The container in use is renamed: the link is wrong until it is selected again.
Renaming == screen = "settings" /\ op.kind \in {"then select", "select"}

Shapes ==
  /\ dirs \in [Names -> Bodies \cup {NoBody}]
  /\ op = [kind |-> op.kind, name |-> op.name, link |-> op.link, body |-> op.body]
  /\ fresh = [name |-> fresh.name, body |-> fresh.body, renamed |-> fresh.renamed]

\* While a container runs, the link leads to it or it is being renamed, and the container
\* that the preparation screen installed is another, as is one that is being deleted.
IInv ==
  /\ Shapes
  /\ screen \in {"off", "starting"} => fresh = NoFresh /\ running = NoBody /\ op = NoOp
  /\ screen = "starting" => link \in Listed
  /\ op.kind = "delete" => screen = "settings" /\ op.name \in Listed /\ op.name # link
  /\ running # NoBody =>
       /\ link \in Names /\ fresh.name # link
       /\ dirs[link] = running \/ (Renaming /\ op.body = running)

Selecting == op.kind \in {"then select", "select", "selected"}

\* What a start finds: unless it is mislaid, the stored name stands for the container that was
\* selected last, and so do the names that are about to be selected or that were just installed.
Selected ==
  /\ ~mislaid /\ wish # NoBody =>
       /\ stored \in Listed /\ dirs[stored] = wish
       /\ screen = "starting" => dirs[link] = wish
  /\ running # NoBody => stored = link /\ wish # NoBody /\ (mislaid \/ running = wish)
  /\ Selecting /\ op.link # Path /\ ~fresh.renamed => op.name \in Listed /\ dirs[op.name] = op.body
  /\ fresh # NoFresh =>
       /\ screen = "prepare"
       /\ ~fresh.renamed => fresh.name \in Listed /\ dirs[fresh.name] = fresh.body

\* Where nothing runs: after a selection, and where no container is found
Idle ==
  /\ screen \in {"main", "settings"} => running # NoBody \/ op.kind = "selected"
  /\ screen = "prepare" => running # NoBody \/ op.kind = "selected" \/ mislaid \/ wish = NoBody
  /\ screen = "prepare" /\ Selecting => fresh # NoFresh

SInv == IInv /\ Selected /\ Idle

LEMMA NoneIsNothing == /\ NoBody \notin Bodies /\ NoName \notin Names /\ Path \notin Names \cup {NoName}
                       /\ NoOp.kind = "none" /\ NoFresh.name = NoName /\ NoFresh.renamed = FALSE
  BY BoundsAssumption DEF NoBody, Bodies, NoName, Names, NoOp, NoFresh, Path

LEMMA KeptInit == Init => IInv
  BY NoneIsNothing DEF Init, IInv, Shapes, Listed, NoOp, NoFresh

\* When the process is gone, nothing runs.
LEMMA GoneKeeps ==
  ASSUME IInv, ProcessGone, UNCHANGED dirs PROVE IInv'
  BY NoneIsNothing DEF IInv, Shapes, ProcessGone, Listed, NoOp, NoFresh

\* Nothing that the invariant speaks of changes.
LEMMA OthersKeep ==
  ASSUME IInv, UNCHANGED <<dirs, link, running, screen, fresh, op>> PROVE IInv'
  BY DEF IInv, Shapes, Listed, Renaming

\* Renaming: what is left where it was, and what is under the new name.
LEMMA RenameIs ==
  ASSUME IInv, NEW old \in Names, NEW new \in Names, NEW way \in Ways, Rename(old, new, way)
  PROVE /\ op = NoOp /\ jobs["call"].pc = "none" /\ ops < MaxOps /\ ops' = ops + 1
        /\ UNCHANGED <<passwd, link, stored, map, screen, running, view, options, wish, raced, removed>>
        /\ \/ screen = "settings" /\ old \in Listed
           \/ screen = "prepare" /\ old = fresh.name
        /\ op' = [kind |-> op'.kind, name |-> new, link |-> op'.link, body |-> dirs[old]]
        /\ op'.name = new /\ op'.body = dirs[old]
        /\ op'.kind = (IF screen = "settings" /\ old = Current THEN "then select" ELSE "wait")
        /\ op'.link = (IF way \in {"plain", "respelled"} THEN new ELSE Path)
        /\ fresh' = (IF old \in Listed /\ way # "nowhere" /\ screen = "prepare"
                     THEN [fresh EXCEPT !.renamed = TRUE] ELSE fresh)
        /\ ~(old \in Listed /\ way # "nowhere") => UNCHANGED <<dirs, chosen>>
        /\ old \in Listed /\ way # "nowhere" =>
             /\ chosen' = [chosen EXCEPT ![dirs[old]] = NoUser]
             /\ dirs'[old] = NoBody /\ \A n \in Names \ {old, new} : dirs'[n] = dirs[n]
             /\ new # old => dirs'[new] = IF way = "away" THEN dirs[new] ELSE dirs[old]
        /\ way \in {"plain", "respelled"} => new \notin Listed
        /\ dirs' \in [Names -> Bodies \cup {NoBody}]
<1>1. dirs \in [Names -> Bodies \cup {NoBody}]
  BY DEF IInv, Shapes
<1> DEFINE moved == old \in Listed /\ way # "nowhere"
           inUse == screen = "settings" /\ old = Current
<1>2. /\ op = NoOp /\ jobs["call"].pc = "none" /\ ops < MaxOps /\ ops' = ops + 1
      /\ UNCHANGED <<passwd, link, stored, map, screen, running, view, options, wish, raced, removed>>
      /\ \/ screen = "settings" /\ old \in Listed
         \/ screen = "prepare" /\ old = fresh.name
      /\ way \in {"plain", "respelled"} => new \notin Listed
  BY DEF Rename, Ready, Shown
<1>3. op' = [kind |-> IF inUse THEN "then select" ELSE "wait", name |-> new,
             link |-> IF way \in {"plain", "respelled"} THEN new ELSE Path, body |-> dirs[old]]
  BY DEF Rename
<1>4. fresh' = IF moved /\ screen = "prepare" THEN [fresh EXCEPT !.renamed = TRUE] ELSE fresh
  BY DEF Rename
<1>5. ~moved => UNCHANGED <<dirs, chosen>>
  BY DEF Rename
<1>6. moved => /\ chosen' = [chosen EXCEPT ![dirs[old]] = NoUser]
               /\ dirs' = [n \in Names |-> IF n = old THEN NoBody
                                           ELSE IF n = new /\ way # "away" THEN dirs[old] ELSE dirs[n]]
  BY DEF Rename
<1>7. /\ op'.kind = (IF inUse THEN "then select" ELSE "wait")
      /\ op'.link = (IF way \in {"plain", "respelled"} THEN new ELSE Path)
      /\ op' = [kind |-> op'.kind, name |-> new, link |-> op'.link, body |-> dirs[old]]
      /\ op'.name = new /\ op'.body = dirs[old]
  BY <1>3
<1>8. moved => /\ dirs'[old] = NoBody /\ \A n \in Names \ {old, new} : dirs'[n] = dirs[n]
               /\ new # old => dirs'[new] = IF way = "away" THEN dirs[new] ELSE dirs[old]
  BY <1>6
<1>9. dirs' \in [Names -> Bodies \cup {NoBody}]
  BY <1>1, <1>5, <1>6
<1> QED BY <1>2, <1>4, <1>5, <1>6, <1>7, <1>8, <1>9

LEMMA RenameKeeps ==
  ASSUME IInv, NEW old \in Names, NEW new \in Names, NEW way \in Ways, Rename(old, new, way) PROVE IInv'
<1>1. /\ op = NoOp /\ UNCHANGED <<link, running, screen>> /\ screen \in {"settings", "prepare"}
      /\ dirs' \in [Names -> Bodies \cup {NoBody}]
      /\ op' = [kind |-> op'.kind, name |-> new, link |-> op'.link, body |-> dirs[old]]
      /\ op'.kind \in {"then select", "wait"} /\ op'.body = dirs[old]
  BY RenameIs
<1>2. fresh'.name = fresh.name /\ fresh' = [name |-> fresh'.name, body |-> fresh'.body, renamed |-> fresh'.renamed]
  <2>1. fresh' = fresh \/ fresh' = [fresh EXCEPT !.renamed = TRUE]
    BY RenameIs
  <2>2. fresh = [name |-> fresh.name, body |-> fresh.body, renamed |-> fresh.renamed]
    BY DEF IInv, Shapes
  <2> QED BY <2>1, <2>2
<1>3. Shapes'
  BY <1>1, <1>2 DEF Shapes
<1>4. SUFFICES ASSUME running # NoBody
               PROVE dirs'[link] = running \/ (Renaming' /\ op'.body = running)
  BY <1>1, <1>2, <1>3 DEF IInv, Listed
<1>5. link \in Names /\ fresh.name # link /\ dirs[link] = running
  BY <1>1, <1>4, NoneIsNothing DEF IInv, Renaming
<1>8. link \in Listed
  BY <1>4, <1>5 DEF Listed
<1>9. /\ \/ screen = "settings" /\ old \in Listed
         \/ screen = "prepare" /\ old = fresh.name
      /\ op'.kind = (IF screen = "settings" /\ old = Current THEN "then select" ELSE "wait")
  BY RenameIs
<1>10. /\ ~(old \in Listed /\ way # "nowhere") => dirs' = dirs
       /\ old \in Listed /\ way # "nowhere" =>
            /\ dirs'[old] = NoBody /\ \A n \in Names \ {old, new} : dirs'[n] = dirs[n]
            /\ new # old => dirs'[new] = IF way = "away" THEN dirs[new] ELSE dirs[old]
       /\ way \in {"plain", "respelled"} => new \notin Listed
  <2>1. ~(old \in Listed /\ way # "nowhere") => dirs' = dirs
    BY RenameIs
  <2>2. way \in {"plain", "respelled"} => new \notin Listed
    BY RenameIs
  <2>3. old \in Listed /\ way # "nowhere" =>
          /\ dirs'[old] = NoBody /\ \A n \in Names \ {old, new} : dirs'[n] = dirs[n]
          /\ new # old => dirs'[new] = IF way = "away" THEN dirs[new] ELSE dirs[old]
    <3> SUFFICES ASSUME old \in Listed /\ way # "nowhere"
                 PROVE  /\ dirs'[old] = NoBody /\ \A n \in Names \ {old, new} : dirs'[n] = dirs[n]
                        /\ new # old => dirs'[new] = IF way = "away" THEN dirs[new] ELSE dirs[old]
      OBVIOUS
    <3>1. dirs' = [n \in Names |-> IF n = old THEN NoBody
                                  ELSE IF n = new /\ way # "away" THEN dirs[old] ELSE dirs[n]]
      BY DEF Rename
    <3> QED BY <3>1
  <2> QED BY <2>1, <2>2, <2>3, Zenon
<1>6. CASE old = link
  <2>1. screen = "settings" /\ Current = old
    BY <1>5, <1>6, <1>8, <1>9 DEF Current
  <2>2. op'.kind = "then select" /\ op'.body = running
    BY <1>1, <1>5, <1>6, <1>9, <2>1
  <2> QED BY <1>1, <2>1, <2>2 DEF Renaming
<1>7. CASE old # link
  <2>1. CASE old \in Listed /\ way # "nowhere"
    <3>1. link = new => way = "away"
      BY <1>8, <1>10, <2>1 DEF Ways
    <3> QED BY <1>5, <1>7, <1>10, <2>1, <3>1
  <2>2. CASE ~(old \in Listed /\ way # "nowhere")
    BY <1>5, <1>10, <2>2
  <2> QED BY <2>1, <2>2
<1> QED BY <1>6, <1>7

LEMMA DeleteKeeps ==
  ASSUME IInv, \/ \E n \in Names : Delete(n)
               \/ DeleteDone \/ DeleteFails
  PROVE IInv'
<1>1. ASSUME NEW n \in Names, Delete(n) PROVE IInv'
  <2>1. /\ UNCHANGED <<dirs, link, running, screen, fresh>> /\ op = NoOp /\ n # Current /\ n \in Listed
        /\ screen = "settings" /\ op' = [kind |-> "delete", name |-> n, link |-> NoName, body |-> NoBody]
    BY <1>1 DEF Delete, Ready, NoOp, Shown, disk
  <2>2. n # link
    BY <2>1 DEF Current
  <2> QED BY <2>1, <2>2, NoneIsNothing DEF IInv, Shapes, Listed, Renaming
<1>2. CASE DeleteFails
  BY <1>2, NoneIsNothing DEF DeleteFails, IInv, Shapes, Listed, Renaming, disk, NoOp
<1>3. CASE DeleteDone
  <2>1. /\ UNCHANGED <<link, running, screen, fresh>> /\ op.kind = "delete"
        /\ dirs' = [dirs EXCEPT ![op.name] = NoBody]
        /\ op' = [kind |-> "wait", name |-> NoName, link |-> NoName, body |-> NoBody]
    BY <1>3 DEF DeleteDone, NoOp
  <2>2. op.name # link /\ screen = "settings" /\ Shapes'
    BY <2>1 DEF IInv, Shapes
  <2>3. running # NoBody => dirs'[link] = running
    BY <2>1, <2>2 DEF IInv, Shapes, Renaming
  <2> QED BY <2>1, <2>2, <2>3 DEF IInv, Listed
<1> QED BY <1>1, <1>2, <1>3

LEMMA InstallKeeps ==
  ASSUME IInv, NEW us \in SUBSET Users, installRootfsArchive(us) PROVE IInv'
<1>1. PICK n \in Names, b \in Bodies :
        /\ FreeName(n)
        /\ dirs' = [dirs EXCEPT ![n] = b] /\ fresh' = [name |-> n, body |-> b, renamed |-> FALSE]
  BY DEF installRootfsArchive
<1>2. screen = "prepare" /\ UNCHANGED <<link, running, screen, op>>
  BY DEF installRootfsArchive
<1>3. Shapes'
  BY <1>1, <1>2 DEF IInv, Shapes
<1>4. SUFFICES ASSUME running # NoBody PROVE n # link /\ dirs'[link] = running
  BY <1>1, <1>2, <1>3 DEF IInv, Listed
<1>5. link \in Names /\ dirs[link] = running
  BY <1>2, <1>4 DEF IInv, Renaming
<1>6. n # link
  BY <1>1, <1>4, <1>5 DEF FreeName, Listed
<1> QED
  BY <1>1, <1>5, <1>6 DEF IInv, Shapes

LEMMA KeptNext == IInv /\ [Next]_vars => IInv'
<1> SUFFICES ASSUME IInv, [Next]_vars PROVE IInv'
  OBVIOUS
<1>1. CASE Die \/ SelectStore \/ \E c \in BOOLEAN : FinishPrepare(c)
  <2>1. CASE ProcessGone
    <3>1. UNCHANGED dirs
      BY <1>1 DEF Die, SelectStore, FinishPrepare, disk
    <3> QED BY <2>1, <3>1, GoneKeeps
  <2>2. CASE ~ProcessGone
    <3>1. /\ screen = "prepare"
          /\ op' = [kind |-> "select", name |-> fresh.name, link |-> fresh.name, body |-> fresh.body]
          /\ UNCHANGED <<dirs, link, screen, running, fresh>>
      BY <1>1, <2>2 DEF Die, SelectStore, FinishPrepare, disk
    <3> QED BY <3>1 DEF IInv, Shapes, Listed, Renaming
  <2> QED BY <2>1, <2>2
<1>2. CASE ShowPrepare
  BY <1>2 DEF ShowPrepare, IInv, Shapes, Listed, Renaming, disk
<1>3. CASE startEmu
  BY <1>3, NoneIsNothing DEF startEmu, getSelectedRootfs, IInv, Shapes, Listed, Renaming
<1>4. CASE startTerminal
  <2>1. link \in Names /\ fresh = NoFresh /\ dirs[link] = running' /\ screen' = "main"
        /\ UNCHANGED <<dirs, link, fresh, op>> /\ op = NoOp
    BY <1>4 DEF startTerminal, IInv, Listed
  <2> QED BY <2>1, NoneIsNothing DEF IInv, Shapes, Listed
<1>5. CASE \/ \E u \in Users : ChangePasswd(u)
           \/ DeleteUsers
           \/ \E j \in Jobs : ListUsers(j) \/ MergeUsers(j) \/ WriteUsers(j)
           \/ EmitMap
           \/ \E n \in Names, u \in Users \cup {Root} : ChooseUser(n, u)
           \/ UNCHANGED vars
  BY <1>5, OthersKeep DEF ChangePasswd, DeleteUsers, ListUsers, MergeUsers, WriteUsers, EmitMap, ChooseUser,
                          process, disk, vars
<1>6. CASE ShowSettings
  BY <1>6 DEF ShowSettings, IInv, Shapes, Listed, Renaming, disk
<1>7. CASE \E to \in {"main", "prepare"} : LeaveSettings(to)
  BY <1>7, NoneIsNothing DEF LeaveSettings, IInv, Shapes, Listed, Renaming, disk
<1>8. CASE \E old, new \in Names, way \in Ways : Rename(old, new, way)
  BY <1>8, RenameKeeps
<1>9. CASE \/ \E n \in Names : Delete(n)
           \/ DeleteDone \/ DeleteFails
  BY <1>9, DeleteKeeps
<1>10. CASE \E n \in Names : Select(n)
  BY <1>10, NoneIsNothing DEF Select, Ready, Shown, IInv, Shapes, Listed, Renaming, disk
<1>11. CASE RenameDone
  <2>1. /\ UNCHANGED <<dirs, link, screen, running, fresh>>
        /\ op' = IF op.kind = "wait" THEN NoOp ELSE [op EXCEPT !.kind = "select"]
        /\ op.kind \in {"wait", "then select"}
    BY <1>11 DEF RenameDone, disk
  <2>2. Shapes' /\ (Renaming => Renaming' /\ op'.body = op.body) /\ op'.kind # "delete"
    BY <2>1 DEF IInv, Shapes, Renaming, NoOp
  <2>3. screen \notin {"off", "starting"}
    BY <2>1, NoneIsNothing DEF IInv
  <2> QED BY <2>1, <2>2, <2>3 DEF IInv, Listed
<1>12. CASE SelectLink
  BY <1>12, NoneIsNothing DEF SelectLink, IInv, Shapes, Listed
<1>13. CASE \E us \in SUBSET Users : installRootfsArchive(us)
  BY <1>13, InstallKeeps
<1> QED
  BY <1>1, <1>2, <1>3, <1>4, <1>5, <1>6, <1>7, <1>8, <1>9, <1>10, <1>11, <1>12, <1>13 DEF Next

(***************************************************************************)
(* The container that proot runs is never deleted: onChangeRootfsName      *)
(* refuses the target of the link, and between two operations of the user  *)
(* the link leads to what runs; a deletion that is under way is of another *)
(* container until it ends, whether it fails or not.                       *)
(***************************************************************************)
THEOREM RunningIsKept == Spec => []RunningKept
<1>1. IInv => RunningKept
  <2> SUFFICES ASSUME IInv, running # NoBody PROVE running \in {dirs[n] : n \in Listed} \cup {op.body}
    BY DEF RunningKept
  <2>1. CASE dirs[link] = running
    <3>1. link \in Listed
      BY <2>1 DEF IInv, Listed
    <3> QED BY <2>1, <3>1
  <2>2. CASE dirs[link] # running
    BY <2>2 DEF IInv
  <2> QED BY <2>1, <2>2
<1> QED
  BY KeptInit, KeptNext, <1>1, PTL DEF Spec
-----------------------------------------------------------------------------
LEMMA SelectedInit == Init => Selected /\ Idle
  BY NoneIsNothing DEF Init, Selected, Idle, Selecting

LEMMA GoneSelected ==
  ASSUME SInv, ProcessGone, UNCHANGED <<dirs, stored, wish, mislaid>> PROVE Selected' /\ Idle'
  BY NoneIsNothing DEF SInv, Selected, Idle, Selecting, ProcessGone, Listed

LEMMA OthersSelected ==
  ASSUME SInv, UNCHANGED <<dirs, link, stored, running, screen, fresh, op, wish, mislaid>>
  PROVE Selected' /\ Idle'
  BY DEF SInv, Selected, Idle, Selecting, Listed

\* While the settings or the preparation wait for the user, the stored name is in use.
LEMMA StoredIsLink ==
  ASSUME SInv, running # NoBody, op.kind \in {"none", "wait", "delete"}
  PROVE stored = link /\ link \in Listed /\ dirs[link] = running
<1>1. dirs[link] = running /\ link \in Names
  BY DEF SInv, IInv, Renaming
<1> QED BY <1>1 DEF SInv, Selected, Listed

\* Renaming frees the old name; unless it is mislaid by that, the stored name is another.
LEMMA RenameSelected ==
  ASSUME SInv, NEW old \in Names, NEW new \in Names, NEW way \in Ways, Rename(old, new, way)
  PROVE Selected' /\ Idle'
<1> DEFINE moved == old \in Listed /\ way # "nowhere"
<1>1. IInv
  BY DEF SInv
<1>20. /\ UNCHANGED <<link, stored, running, screen, wish>> /\ op = NoOp
       /\ op'.name = new /\ op'.body = dirs[old]
       /\ op'.kind = (IF screen = "settings" /\ old = Current THEN "then select" ELSE "wait")
       /\ \/ screen = "settings" /\ old \in Listed
          \/ screen = "prepare" /\ old = fresh.name
  BY <1>1, RenameIs
<1>2. /\ UNCHANGED <<link, stored, running, screen, wish>> /\ op = NoOp /\ op.kind = "none"
      /\ op'.name = new /\ op'.body = dirs[old] /\ op'.kind \in {"wait", "then select"}
      /\ \/ screen = "settings" /\ old \in Listed
         \/ screen = "prepare" /\ old = fresh.name
  BY <1>20, NoneIsNothing
<1>21. /\ ~(old \in Listed /\ way # "nowhere") => dirs' = dirs
       /\ old \in Listed /\ way # "nowhere" =>
            /\ dirs'[old] = NoBody /\ \A n \in Names \ {old, new} : dirs'[n] = dirs[n]
            /\ new # old => dirs'[new] = IF way = "away" THEN dirs[new] ELSE dirs[old]
       /\ way \in {"plain", "respelled"} => new \notin Listed
  <2>1. ~(old \in Listed /\ way # "nowhere") => dirs' = dirs
    BY <1>1, RenameIs
  <2>2. way \in {"plain", "respelled"} => new \notin Listed
    BY <1>1, RenameIs
  <2>3. old \in Listed /\ way # "nowhere" =>
          /\ dirs'[old] = NoBody /\ \A n \in Names \ {old, new} : dirs'[n] = dirs[n]
          /\ new # old => dirs'[new] = IF way = "away" THEN dirs[new] ELSE dirs[old]
    <3> SUFFICES ASSUME old \in Listed /\ way # "nowhere"
                 PROVE  /\ dirs'[old] = NoBody /\ \A n \in Names \ {old, new} : dirs'[n] = dirs[n]
                        /\ new # old => dirs'[new] = IF way = "away" THEN dirs[new] ELSE dirs[old]
      OBVIOUS
    <3>1. dirs' = [n \in Names |-> IF n = old THEN NoBody
                                  ELSE IF n = new /\ way # "away" THEN dirs[old] ELSE dirs[n]]
      BY DEF Rename
    <3> QED BY <3>1
  <2> QED BY <2>1, <2>2, <2>3, Zenon
<1>3. ~mislaid' => ~mislaid
  BY Zenon DEF Rename
<1>4. ~mislaid' /\ moved => ~(screen = "settings" /\ old = Current)
  BY Zenon DEF Rename
<1>5. screen = "prepare" => fresh # NoFresh
  BY <1>2, NoneIsNothing
<1>6. screen = "settings" => fresh = NoFresh /\ running # NoBody
  BY <1>2 DEF SInv, Selected, Idle
<1>7. fresh' = (IF moved /\ screen = "prepare" THEN [fresh EXCEPT !.renamed = TRUE] ELSE fresh)
  BY <1>1, RenameIs
<1>8. fresh' # NoFresh => screen = "prepare"
  BY <1>2, <1>6, <1>7
<1>9. screen = "prepare" => fresh' # NoFresh
  <2>1. fresh = [name |-> fresh.name, body |-> fresh.body, renamed |-> fresh.renamed]
    BY <1>1 DEF IInv, Shapes
  <2>2. fresh'.name = fresh.name
    BY <1>7, <2>1
  <2> QED BY <1>2, <2>2, NoneIsNothing
<1>10. \A n \in Listed : n # old => n \in Listed' /\ dirs'[n] = dirs[n]
  <2> SUFFICES ASSUME NEW n \in Listed, n # old PROVE dirs'[n] = dirs[n]
    BY DEF Listed
  <2>1. n \in Names
    BY DEF Listed
  <2>2. CASE moved
    <3>1. n = new => way = "away"
      BY <1>21, <2>2 DEF Ways
    <3> QED BY <1>21, <2>1, <2>2, <3>1
  <2>3. CASE ~moved
    BY <1>1, <2>3, RenameIs
  <2> QED BY <2>2, <2>3
<1>11. ~moved => dirs' = dirs
  BY <1>1, RenameIs
<1>12. running # NoBody => stored = link /\ link \in Listed /\ dirs[link] = running
  BY <1>2, StoredIsLink
<1>13. ~mislaid' /\ wish # NoBody => stored \in Listed' /\ dirs'[stored] = wish
  <2> SUFFICES ASSUME ~mislaid', wish # NoBody PROVE stored \in Listed' /\ dirs'[stored] = wish
    OBVIOUS
  <2>1. ~mislaid /\ stored \in Listed /\ dirs[stored] = wish
    BY <1>3 DEF SInv, Selected
  <2>2. running # NoBody
    BY <1>2, <1>6, <2>1 DEF SInv, Idle
  <2>3. CASE moved
    <3>1. stored # old
      <4>1. CASE screen = "settings"
        BY <1>4, <1>12, <2>2, <2>3, <4>1 DEF Current
      <4>2. CASE screen = "prepare"
        BY <1>1, <1>2, <1>12, <2>2, <4>2 DEF IInv
      <4> QED BY <1>2, <4>1, <4>2
    <3> QED BY <1>10, <2>1, <3>1
  <2>4. CASE ~moved
    BY <1>11, <2>1, <2>4 DEF Listed
  <2> QED BY <2>3, <2>4
<1>14. op'.kind = "then select" /\ op'.link # Path => new \in Listed' /\ dirs'[new] = dirs[old]
  <2> SUFFICES ASSUME op'.kind = "then select", op'.link # Path PROVE new \in Listed' /\ dirs'[new] = dirs[old]
    OBVIOUS
  <2>1. screen = "settings" /\ old \in Listed /\ way \in {"plain", "respelled"} /\ new \notin Listed
    BY <1>1, <1>2, RenameIs
  <2>2. dirs'[new] = dirs[old] /\ dirs[old] # NoBody
    BY <1>1, <2>1, RenameIs DEF Listed
  <2> QED BY <2>2 DEF Listed
<1>15. fresh' # NoFresh /\ ~fresh'.renamed => fresh'.name \in Listed' /\ dirs'[fresh'.name] = fresh'.body
  <2> SUFFICES ASSUME fresh' # NoFresh, ~fresh'.renamed PROVE fresh' = fresh /\ dirs' = dirs
    BY <1>5, <1>8 DEF SInv, Selected, Listed
  <2>1. fresh = [name |-> fresh.name, body |-> fresh.body, renamed |-> fresh.renamed]
    BY <1>1 DEF IInv, Shapes
  <2>2. ~moved
    BY <1>7, <1>8, <2>1
  <2> QED BY <1>7, <1>11, <2>2
<1>16. running # NoBody => (mislaid' \/ running = wish)
  BY <1>3 DEF SInv, Selected
<1>17. Selected'
  BY <1>2, <1>8, <1>12, <1>13, <1>14, <1>15, <1>16 DEF SInv, Selected, Selecting
<1>18. Idle'
  BY <1>2, <1>3, <1>5, <1>6, <1>9 DEF SInv, Idle
<1> QED BY <1>17, <1>18

LEMMA DeleteSelected ==
  ASSUME SInv, DeleteDone PROVE Selected' /\ Idle'
<1>1. /\ UNCHANGED <<link, stored, running, screen, fresh, wish, mislaid>> /\ op.kind = "delete"
      /\ dirs' = [dirs EXCEPT ![op.name] = NoBody] /\ op'.kind = "wait"
  BY DEF DeleteDone, NoOp, history
<1>2. screen = "settings" /\ op.name # link
  BY <1>1 DEF SInv, IInv
<1>3. running # NoBody /\ fresh = NoFresh
  BY <1>1, <1>2 DEF SInv, Idle, Selected
<1>4. stored = link /\ link \in Listed
  BY <1>1, <1>3, StoredIsLink
<1>5. link \in Listed' /\ dirs'[link] = dirs[link]
  BY <1>1, <1>2, <1>4 DEF SInv, IInv, Shapes, Listed
<1> QED
  BY <1>1, <1>2, <1>3, <1>4, <1>5 DEF SInv, Selected, Idle, Selecting

LEMMA InstallSelected ==
  ASSUME SInv, NEW us \in SUBSET Users, installRootfsArchive(us) PROVE Selected' /\ Idle'
<1>1. PICK n \in Names, b \in Bodies :
        /\ FreeName(n)
        /\ dirs' = [dirs EXCEPT ![n] = b] /\ fresh' = [name |-> n, body |-> b, renamed |-> FALSE]
  BY DEF installRootfsArchive
<1>2. screen = "prepare" /\ fresh = NoFresh /\ UNCHANGED <<link, stored, running, screen, op, wish, mislaid>>
  BY DEF installRootfsArchive
<1>3. Listed' = Listed \cup {n} /\ dirs'[n] = b /\ \A k \in Listed : k # n /\ dirs'[k] = dirs[k]
  BY <1>1, NoneIsNothing DEF SInv, IInv, Shapes, Listed, FreeName
<1>4. ~Selecting /\ ~Selecting'
  BY <1>2 DEF SInv, Idle, Selecting
<1>5. fresh' # NoFresh /\ fresh'.name = n /\ fresh'.body = b
  BY <1>1, NoneIsNothing DEF NoFresh
<1> QED
  BY <1>2, <1>3, <1>4, <1>5 DEF SInv, Selected, Idle

LEMMA SelectedNext == SInv /\ [Next]_vars => Selected' /\ Idle'
<1> SUFFICES ASSUME SInv, [Next]_vars PROVE Selected' /\ Idle'
  OBVIOUS
<1>1. CASE Die \/ \E c \in BOOLEAN : FinishPrepare(c)
  <2>1. CASE ProcessGone
    <3>1. UNCHANGED <<dirs, stored, wish, mislaid>>
      BY <1>1 DEF Die, FinishPrepare, disk
    <3> QED BY <2>1, <3>1, GoneSelected
  <2>2. CASE ~ProcessGone
    <3>1. /\ screen = "prepare" /\ fresh # NoFresh /\ op = NoOp
          /\ op' = [kind |-> "select", name |-> fresh.name, link |-> fresh.name, body |-> fresh.body]
          /\ UNCHANGED <<dirs, link, stored, screen, running, fresh, wish, mislaid>>
      BY <1>1, <2>2 DEF Die, FinishPrepare, disk
    <3> QED BY <3>1, NoneIsNothing DEF SInv, Selected, Idle, Selecting, Listed
  <2> QED BY <2>1, <2>2
<1>2. CASE SelectStore
  <2>1. /\ op.kind = "selected" /\ stored' = op.name /\ wish' = op.body /\ dirs' = dirs
        /\ screen' = "off" /\ running' = NoBody /\ fresh' = NoFresh /\ op' = NoOp
    BY <1>2 DEF SelectStore, ProcessGone
  <2>2. ~mislaid' => op.link # Path /\ ~fresh.renamed
    BY <1>2, Zenon DEF SelectStore
  <2>3. ~mislaid' => op.name \in Listed' /\ dirs'[op.name] = op.body
    BY <2>1, <2>2 DEF SInv, Selected, Selecting, Listed
  <2> QED BY <2>1, <2>3, NoneIsNothing DEF Selected, Idle, Selecting
<1>3. CASE ShowPrepare
  <2>1. /\ Listed = {} /\ screen = "off" /\ screen' = "prepare" /\ Listed' = Listed
        /\ UNCHANGED <<dirs, link, stored, running, fresh, op, wish, mislaid>>
    BY <1>3 DEF ShowPrepare, disk, history, Listed
  <2>2. fresh = NoFresh /\ running = NoBody /\ op = NoOp
    BY <2>1 DEF SInv, IInv
  <2> QED BY <2>1, <2>2, NoneIsNothing DEF SInv, Selected, Idle, Selecting
<1>4. CASE startEmu
  <2>1. /\ screen = "off" /\ screen' = "starting" /\ Listed' = Listed /\ link' \in getSelectedRootfs
        /\ UNCHANGED <<dirs, stored, running, fresh, op, wish, mislaid>>
    BY <1>4 DEF startEmu, history, Listed
  <2>2. fresh = NoFresh /\ running = NoBody /\ op = NoOp
    BY <2>1 DEF SInv, IInv
  <2> QED BY <2>1, <2>2, NoneIsNothing DEF SInv, Selected, Idle, Selecting, getSelectedRootfs
<1>5. CASE startTerminal
  <2>1. /\ screen = "starting" /\ screen' = "main" /\ stored' = link /\ running' = dirs[link]
        /\ wish' = (IF wish = NoBody THEN dirs[link] ELSE wish) /\ Listed' = Listed
        /\ UNCHANGED <<dirs, link, fresh, op, mislaid>>
    BY <1>5 DEF startTerminal, Listed
  <2>2. fresh = NoFresh /\ running = NoBody /\ op = NoOp /\ link \in Listed
    BY <2>1 DEF SInv, IInv
  <2>3. dirs[link] # NoBody
    BY <2>2 DEF Listed
  <2> QED BY <2>1, <2>2, <2>3, NoneIsNothing DEF SInv, Selected, Idle, Selecting
<1>6. CASE \/ \E u \in Users : ChangePasswd(u)
           \/ DeleteUsers
           \/ \E j \in Jobs : ListUsers(j) \/ MergeUsers(j) \/ WriteUsers(j)
           \/ EmitMap
           \/ \E n \in Names, u \in Users \cup {Root} : ChooseUser(n, u)
           \/ UNCHANGED vars
  BY <1>6, OthersSelected DEF ChangePasswd, DeleteUsers, ListUsers, MergeUsers, WriteUsers, EmitMap,
                              ChooseUser, process, disk, history, vars
<1>7. CASE ShowSettings
  BY <1>7 DEF ShowSettings, SInv, Selected, Idle, Selecting, Listed, disk, history
<1>8. CASE \E to \in {"main", "prepare"} : LeaveSettings(to)
  BY <1>8, NoneIsNothing DEF LeaveSettings, SInv, Selected, Idle, Selecting, Listed, disk
<1>9. CASE \E old, new \in Names, way \in Ways : Rename(old, new, way)
  BY <1>9, RenameSelected
<1>10. CASE DeleteDone
  BY <1>10, DeleteSelected
<1>11. CASE DeleteFails \/ \E n \in Names : Delete(n)
  <2>1. /\ UNCHANGED <<dirs, link, stored, screen, running, fresh, wish, mislaid>>
        /\ screen = "settings" /\ op.kind # "selected" /\ op'.kind \in {"none", "delete"}
    BY <1>11, NoneIsNothing DEF DeleteFails, Delete, Ready, Shown, NoOp, SInv, IInv, disk, history
  <2> QED BY <2>1 DEF SInv, Selected, Idle, Selecting, Listed
<1>12. CASE \E n \in Names : Select(n)
  <2>1. PICK n \in Names : Select(n)
    BY <1>12
  <2>2. /\ UNCHANGED <<dirs, link, stored, screen, running, fresh, wish, mislaid>> /\ op = NoOp
        /\ screen = "settings" /\ n \in Listed
        /\ op' = [kind |-> "select", name |-> n, link |-> n, body |-> dirs[n]]
    BY <2>1 DEF Select, Ready, Shown, disk
  <2> QED BY <2>2, NoneIsNothing DEF SInv, Selected, Idle, Selecting, Listed
<1>13. CASE RenameDone
  <2>1. /\ UNCHANGED <<dirs, link, stored, screen, running, fresh, wish, mislaid>>
        /\ op' = IF op.kind = "wait" THEN NoOp ELSE [op EXCEPT !.kind = "select"]
        /\ op.kind \in {"wait", "then select"}
    BY <1>13 DEF RenameDone, disk, history
  <2>2. op'.kind = "select" => /\ op.kind = "then select" /\ op'.name = op.name /\ op'.link = op.link
                               /\ op'.body = op.body
    BY <2>1, NoneIsNothing DEF SInv, IInv, Shapes
  <2>3. op'.kind \in {"none", "select"}
    BY <2>1, NoneIsNothing DEF SInv, IInv, Shapes
  <2> QED BY <2>1, <2>2, <2>3 DEF SInv, Selected, Idle, Selecting, Listed
<1>14. CASE SelectLink
  <2>1. /\ op.kind = "select" /\ running' = NoBody /\ op' = [op EXCEPT !.kind = "selected"]
        /\ UNCHANGED <<dirs, stored, screen, fresh, wish, mislaid>>
    BY <1>14 DEF SelectLink, history
  <2>2. op'.kind = "selected" /\ op'.name = op.name /\ op'.link = op.link /\ op'.body = op.body
    BY <2>1 DEF SInv, IInv, Shapes
  <2>3. screen # "starting"
    BY <2>1, NoneIsNothing DEF SInv, IInv
  <2> QED BY <2>1, <2>2, <2>3 DEF SInv, Selected, Idle, Selecting, Listed
<1>15. CASE \E us \in SUBSET Users : installRootfsArchive(us)
  BY <1>15, InstallSelected
<1> QED
  BY <1>1, <1>2, <1>3, <1>4, <1>5, <1>6, <1>7, <1>8, <1>9, <1>10, <1>11, <1>12, <1>13, <1>14, <1>15 DEF Next

(***************************************************************************)
(* Unless its name was mislaid, what proot runs is the container that was  *)
(* selected last, for any number of containers and names, wherever the     *)
(* process died between the steps of a start or a selection and whatever   *)
(* was installed, renamed and deleted since: the name in the DataStore     *)
(* stays the name of that container.  It is mislaid only by a rename of    *)
(* the container in use that ends before the new name is stored or whose   *)
(* new name is a path, and by a rename on the preparation screen.          *)
(***************************************************************************)
THEOREM SelectedIsStarted == Spec => []StartsSelected
<1>1. Init => SInv
  BY KeptInit, SelectedInit DEF SInv
<1>2. SInv /\ [Next]_vars => SInv'
  BY KeptNext, SelectedNext DEF SInv
<1>3. SInv => StartsSelected
  BY DEF SInv, Selected, StartsSelected
<1> QED
  BY <1>1, <1>2, <1>3, PTL DEF Spec
-----------------------------------------------------------------------------
(* Types *)

Accounts == Users \cup {Root, NoUser}
Maps == [Names -> Accounts]
JobRecords ==
  [pc : {"none", "list", "merge", "write"}, name : Names \cup {NoName, Path},
   user : Accounts \cup {Stub}, merged : Maps]
OpRecords ==
  [kind : {"none", "wait", "then select", "select", "selected", "delete"}, name : Names \cup {NoName},
   link : Names \cup {NoName, Path}, body : Bodies \cup {NoBody}]

\* What the type invariant needs of the records.
Records ==
  /\ jobs \in [Jobs -> JobRecords]
  /\ op \in OpRecords
  /\ fresh.name \in Names \cup {NoName} /\ fresh.body \in Bodies \cup {NoBody}
  /\ {raced, removed} \subseteq BOOLEAN

TypeInv == IInv /\ TypeOK /\ Records

\* Min finds one, as any set of numbers has a least.
LEMMA LeastIsIn == ASSUME NEW S \in SUBSET Nat, S # {} PROVE Min(S) \in S
<1>1. IsWellFoundedOn(OpToRel(<, Nat), Nat)
  BY NatLessThanWellFounded
<1>2. PICK x \in S : \A y \in S : ~(<<y, x>> \in OpToRel(<, Nat))
  BY <1>1, WFMin
<1>3. OpToRel(<, Nat) = {p \in Nat \X Nat : p[1] < p[2]}
  BY Zenon DEF OpToRel
<1>4. ASSUME NEW y \in S, y < x PROVE <<y, x>> \in OpToRel(<, Nat)
  <2>1. <<y, x>> \in Nat \X Nat /\ <<y, x>>[1] < <<y, x>>[2]
    BY <1>4
  <2> QED BY <1>3, <2>1, Zenon
<1>5. \A y \in S : ~(y < x)
  BY <1>2, <1>4, Zenon
<1>6. \A y \in S : x =< y
  BY <1>5
<1> QED
  BY <1>6 DEF Min

LEMMA NobodyIsNoUser == /\ NoUser \notin Users \cup {Root} /\ Root \notin Users
                        /\ Users \cup {Root} \subseteq Nat
  BY BoundsAssumption DEF NoUser, Root, Users

\* getPreferredUser keeps the last user if there still is one, and finds one otherwise.
LEMMA PreferredIsIn ==
  ASSUME NEW all \in SUBSET (Users \cup {Root}), all # {}, NEW last
  PROVE /\ getPreferredUser(last, all) \in all
        /\ last \in all => getPreferredUser(last, all) = last
<1>1. CASE last \in all \/ all = {Root}
  BY <1>1 DEF getPreferredUser
<1>2. CASE ~(last \in all \/ all = {Root})
  <2>1. Min(all \ {Root}) \in all \ {Root}
    BY <1>2, LeastIsIn, NobodyIsNoUser
  <2> QED BY <1>2, <2>1 DEF getPreferredUser
<1> QED BY <1>1, <1>2

LEMMA InfosTyped ==
  ASSUME TypeOK, NEW n \in Names
  PROVE getUserInfos(n) \in SUBSET (Users \cup {Root}) /\ Root \in getUserInfos(n)
<1>1. n \in Listed => dirs[n] \in Bodies
  BY DEF TypeOK, Listed
<1>2. n \in Listed => passwd[dirs[n]] \subseteq Users
  BY <1>1 DEF TypeOK
<1> QED
  BY <1>2 DEF getUserInfos

\* What a coroutine merges: nothing for a name that is not listed, a user of the others.
LEMMA MergedTyped ==
  ASSUME TypeOK, NEW j \in Jobs
  PROVE /\ Merged(j) \in Maps
        /\ \A n \in Names : Merged(j)[n] = NoUser \/ Merged(j)[n] \in options[n]
        /\ \A n \in Names : options[n] = {} => Merged(j)[n] = NoUser
        /\ \A n \in Names :
             LET last == IF n = jobs[j].name THEN jobs[j].user ELSE view[n] IN
               last \in options[n] => Merged(j)[n] = last
<1> DEFINE last(n) == IF n = jobs[j].name THEN jobs[j].user ELSE view[n]
<1>1. \A n \in Names : options[n] \in SUBSET (Users \cup {Root})
  BY DEF TypeOK
<1>2. ASSUME NEW n \in Names, options[n] # {}
      PROVE /\ getPreferredUser(last(n), options[n]) \in options[n]
            /\ last(n) \in options[n] => getPreferredUser(last(n), options[n]) = last(n)
  <2> HIDE DEF last
  <2> QED BY <1>1, <1>2, PreferredIsIn
<1>3. \A n \in Names : Merged(j)[n] = IF options[n] = {} THEN NoUser ELSE getPreferredUser(last(n), options[n])
  BY DEF Merged
<1>4. Merged(j) = [n \in Names |-> Merged(j)[n]]
  BY DEF Merged
<1> HIDE DEF last
<1>5. \A n \in Names : Merged(j)[n] = NoUser \/ Merged(j)[n] \in options[n]
  BY <1>2, <1>3
<1>6. \A n \in Names : options[n] = {} => Merged(j)[n] = NoUser
  BY <1>3
<1>7. \A n \in Names : last(n) \in options[n] => Merged(j)[n] = last(n)
  BY <1>2, <1>3
<1>8. \A n \in Names : Merged(j)[n] \in Accounts
  BY <1>1, <1>5 DEF Accounts
<1>9. Merged(j) \in Maps
  BY <1>4, <1>8 DEF Maps
<1> QED
  BY <1>5, <1>6, <1>7, <1>9 DEF last

LEMMA JobStarts ==
  ASSUME Records, NEW j \in Jobs, NEW n \in Names \cup {NoName, Path},
         NEW u \in Accounts \cup {Stub}, StartJob(j, n, u)
  PROVE /\ jobs' \in [Jobs -> JobRecords]
        /\ jobs'[j].pc = "list" /\ jobs'[j].name = n /\ jobs'[j].user = u
        /\ \A k \in Jobs \ {j} : jobs'[k] = jobs[k]
<1>1. NoMap \in Maps
  BY DEF NoMap, Maps, Accounts
<1>2. NoJob \in JobRecords
  BY <1>1 DEF NoJob, JobRecords, Accounts
<1>3. /\ [NoJob EXCEPT !.pc = "list", !.name = n, !.user = u] \in JobRecords
      /\ [NoJob EXCEPT !.pc = "list", !.name = n, !.user = u].pc = "list"
      /\ [NoJob EXCEPT !.pc = "list", !.name = n, !.user = u].name = n
      /\ [NoJob EXCEPT !.pc = "list", !.name = n, !.user = u].user = u
  BY <1>2 DEF JobRecords
<1> QED
  BY <1>3 DEF StartJob, Records

LEMMA NoneTyped ==
  /\ NoMap \in Maps /\ NoJob \in JobRecords
  /\ NoJob.pc = "none" /\ NoJob.name = NoName /\ NoJob.merged = NoMap
<1>1. NoMap \in Maps
  BY DEF NoMap, Maps, Accounts
<1> QED
  BY <1>1 DEF NoJob, JobRecords, Accounts

LEMMA TypedInit == Init => TypeOK /\ Records
<1> SUFFICES ASSUME Init PROVE TypeOK /\ Records
  OBVIOUS
<1>1. TypeOK
  BY NoneTyped, BoundsAssumption DEF Init, TypeOK, Maps, Accounts, JobRecords, NoOp
<1>2. jobs \in [Jobs -> JobRecords] /\ {raced, removed} \subseteq BOOLEAN
  BY NoneTyped, Zenon DEF Init
<1>3. Records
  BY <1>2 DEF Init, Records, OpRecords, NoOp, NoFresh
<1> QED BY <1>1, <1>3

LEMMA GoneTyped ==
  ASSUME TypeOK, Records, ProcessGone, UNCHANGED <<dirs, passwd, map, chosen, removed, ops>>,
         link' \in Names \cup {NoName, Path}, stored' \in Names \cup {NoName}, wish' \in Bodies \cup {NoBody}
  PROVE TypeOK' /\ Records'
<1>1. jobs' \in [Jobs -> JobRecords] /\ \A j \in Jobs : jobs'[j] = NoJob
  BY NoneTyped DEF ProcessGone
<1>2. {raced', removed'} \subseteq BOOLEAN
  BY Zenon DEF ProcessGone, Records
<1>3. op' = NoOp /\ fresh' = NoFresh /\ screen' = "off" /\ running' = NoBody
      /\ view' = NoMap /\ options' \in [Names -> SUBSET (Users \cup {Root})]
  BY DEF ProcessGone
<1>4. Records'
  BY <1>1, <1>2, <1>3 DEF Records, OpRecords, NoOp, NoFresh
<1> QED
  BY <1>1, <1>3, <1>4, NoneTyped DEF TypeOK, Maps, Accounts, NoOp

LEMMA OneMore == ASSUME TypeOK, ops < MaxOps, ops' = ops + 1 PROVE ops' \in 0..MaxOps
<1>1. MaxOps \in Nat /\ ops \in 0..MaxOps
  BY BoundsAssumption DEF TypeOK
<1> QED BY <1>1

\* What a coroutine does leaves the disk but for the map.
LEMMA JobTyped ==
  ASSUME TypeOK, Records, NEW j \in Jobs, ListUsers(j) \/ MergeUsers(j) \/ WriteUsers(j)
  PROVE TypeOK' /\ Records'
<1>1. \A k \in Jobs : jobs[k] \in JobRecords
  BY DEF Records
<1>2. {raced', removed'} \subseteq BOOLEAN
  BY Zenon DEF ListUsers, MergeUsers, WriteUsers, Records
<1>3. jobs' \in [Jobs -> JobRecords]
  <2>1. CASE ListUsers(j)
    BY <1>1, <2>1 DEF ListUsers, JobRecords, Records
  <2>2. CASE MergeUsers(j)
    <3>1. Merged(j) \in Maps
      BY MergedTyped
    <3>2. [jobs[j] EXCEPT !.pc = "write", !.merged = Merged(j)] \in JobRecords
      BY <1>1, <3>1 DEF JobRecords
    <3>3. jobs' = [jobs EXCEPT ![j] = [jobs[j] EXCEPT !.pc = "write", !.merged = Merged(j)]]
      BY <2>2 DEF MergeUsers, Records
    <3> QED BY <3>2, <3>3 DEF Records
  <2>3. CASE WriteUsers(j)
    BY <2>3, NoneTyped DEF WriteUsers, Records
  <2> QED BY <2>1, <2>2, <2>3
<1>4. Records'
  BY <1>2, <1>3 DEF Records, ListUsers, MergeUsers, WriteUsers
<1>5. options' \in [Names -> SUBSET (Users \cup {Root})]
  <2>1. \A n \in Names : getUserInfos(n) \in SUBSET (Users \cup {Root})
    BY InfosTyped
  <2> QED BY <2>1 DEF TypeOK, ListUsers, MergeUsers, WriteUsers
<1>6. map' \in Maps
  BY <1>1 DEF TypeOK, ListUsers, MergeUsers, WriteUsers, disk, JobRecords, Maps, Accounts
<1>7. \A k \in Jobs : jobs'[k] \in JobRecords
  BY <1>3
<1>8. \A k \in Jobs : /\ jobs'[k].pc \in {"none", "list", "merge", "write"}
                       /\ jobs'[k].merged \in [Names -> Users \cup {Root, NoUser}]
  BY <1>7 DEF JobRecords, Maps, Accounts
<1>9. UNCHANGED <<dirs, passwd, link, stored, screen, running, view, op, wish, chosen, ops>>
  BY DEF ListUsers, MergeUsers, WriteUsers, disk
<1> QED
  BY <1>4, <1>5, <1>6, <1>8, <1>9 DEF TypeOK, Maps, Accounts

\* What a renaming starts: the name is stored under what was typed.
LEMMA RenameCalls ==
  ASSUME TypeInv, NEW old \in Names, NEW new \in Names, NEW way \in Ways, Rename(old, new, way)
  PROVE /\ jobs' \in [Jobs -> JobRecords] /\ jobs'["call"].pc = "list" /\ jobs'["call"].name \notin Listed
        /\ jobs'["refresh"] = jobs["refresh"]
<1> DEFINE key == IF way = "plain" THEN new ELSE Path
<1>1. \A last : getPreferredUser(last, getUserInfos(old)) \in Accounts \cup {Stub}
  BY InfosTyped, PreferredIsIn DEF Accounts, TypeInv
<1>2. PICK u \in Accounts \cup {Stub} : StartJob("call", key, u)
  <2>1. \E last : StartJob("call", key, getPreferredUser(last, getUserInfos(old))) \/ StartJob("call", key, Root)
    BY DEF Rename
  <2> QED BY <1>1, <2>1 DEF Accounts
<1>3. key \in Names \cup {NoName, Path} /\ key \notin Listed
  BY NoneIsNothing DEF Rename, Listed
<1> HIDE DEF key
<1> QED BY <1>2, <1>3, JobStarts DEF Jobs, TypeInv

LEMMA RenameTyped ==
  ASSUME TypeInv, NEW old \in Names, NEW new \in Names, NEW way \in Ways, Rename(old, new, way)
  PROVE TypeOK' /\ Records'
<1>1. jobs' \in [Jobs -> JobRecords]
  BY RenameCalls
<1>2. \A k \in Jobs : jobs'[k] \in JobRecords
  BY <1>1
<1>3. dirs' \in [Names -> Bodies \cup {NoBody}] /\ chosen' \in [Bodies -> Users \cup {Root, NoUser}]
  BY RenameIs DEF TypeOK, TypeInv
<1>4. ops' \in 0..MaxOps
  BY OneMore, RenameIs DEF TypeInv
<1>5. op' \in OpRecords
  <2>1. /\ op' = [kind |-> op'.kind, name |-> new, link |-> op'.link, body |-> dirs[old]]
        /\ op'.kind \in {"then select", "wait"} /\ op'.link \in {new, Path}
    BY RenameIs DEF TypeInv
  <2>3. op'.link \in Names \cup {NoName, Path}
    BY <2>1
  <2>2. dirs[old] \in Bodies \cup {NoBody}
    BY DEF TypeInv, TypeOK
  <2> DEFINE k == op'.kind
             l == op'.link
  <2> HIDE DEF k, l
  <2>4. [kind |-> k, name |-> new, link |-> l, body |-> dirs[old]] \in OpRecords
    BY <2>1, <2>2, <2>3 DEF OpRecords, k, l
  <2> QED BY <2>1, <2>4 DEF k, l
<1>6. fresh'.name = fresh.name /\ fresh'.body = fresh.body
  <2>1. fresh' = fresh \/ fresh' = [fresh EXCEPT !.renamed = TRUE]
    BY RenameIs DEF TypeInv
  <2>2. fresh = [name |-> fresh.name, body |-> fresh.body, renamed |-> fresh.renamed]
    BY DEF TypeInv, IInv, Shapes
  <2> QED BY <2>1, <2>2
<1>7. UNCHANGED <<passwd, link, stored, map, screen, running, view, options, wish, raced, removed>>
  BY RenameIs DEF TypeInv
<1>8. op'.kind \in {"none", "wait", "then select", "select", "selected", "delete"}
  BY <1>5 DEF OpRecords
<1>9. Records'
  BY <1>1, <1>5, <1>6, <1>7 DEF TypeInv, Records
<1>10. \A k \in Jobs : /\ jobs'[k].pc \in {"none", "list", "merge", "write"}
                        /\ jobs'[k].merged \in [Names -> Users \cup {Root, NoUser}]
  BY <1>2 DEF JobRecords, Maps, Accounts
<1> QED
  BY <1>3, <1>4, <1>7, <1>8, <1>9, <1>10 DEF TypeInv, TypeOK

LEMMA TypedNext == TypeInv /\ [Next]_vars => TypeOK' /\ Records'
<1> SUFFICES ASSUME TypeInv, [Next]_vars PROVE TypeOK' /\ Records'
  OBVIOUS
<1> USE DEF TypeInv
<1>1. CASE Die \/ \E c \in BOOLEAN : FinishPrepare(c)
  <2>1. CASE ProcessGone
    <3>1. UNCHANGED <<dirs, passwd, map, chosen, removed, ops, link, stored, wish>>
      BY <1>1 DEF Die, FinishPrepare, disk
    <3> QED BY <2>1, <3>1, GoneTyped DEF TypeOK
  <2>2. CASE ~ProcessGone
    <3>1. /\ op' = [kind |-> "select", name |-> fresh.name, link |-> fresh.name, body |-> fresh.body]
          /\ UNCHANGED <<disk, screen, running, view, options, jobs, fresh, history>>
      BY <1>1, <2>2 DEF Die, FinishPrepare, disk, history
    <3> QED BY <3>1 DEF TypeOK, Records, OpRecords, disk, history
  <2> QED BY <2>1, <2>2
<1>2. CASE SelectStore
  <2>1. op.name \in Names \cup {NoName} /\ op.body \in Bodies \cup {NoBody}
    BY DEF Records, OpRecords
  <2> QED BY <1>2, <2>1, GoneTyped DEF SelectStore, TypeOK
<1>3. CASE ShowPrepare
  BY <1>3 DEF ShowPrepare, TypeOK, Records, disk, history
<1>4. CASE startEmu
  <2>1. link' \in Names
    BY <1>4 DEF startEmu, getSelectedRootfs, Listed
  <2> QED BY <1>4, <2>1 DEF startEmu, TypeOK, Records, history
<1>5. CASE startTerminal
  <2>1. link \in Names
    BY <1>5 DEF startTerminal, IInv, Listed
  <2>2. dirs[link] \in Bodies \cup {NoBody}
    BY <2>1 DEF TypeOK
  <2> QED BY <1>5, <2>1, <2>2 DEF startTerminal, TypeOK, Records
<1>6. ASSUME NEW u \in Users, ChangePasswd(u) PROVE TypeOK' /\ Records'
  <2>1. running \in Bodies
    BY <1>6 DEF ChangePasswd, TypeOK
  <2>2. passwd' \in [Bodies -> SUBSET Users] /\ chosen' \in [Bodies -> Users \cup {Root, NoUser}]
    BY <1>6, <2>1 DEF ChangePasswd, TypeOK
  <2>3. removed' \in BOOLEAN
    BY <1>6, Zenon DEF ChangePasswd, Records
  <2>4. ops' \in 0..MaxOps
    BY <1>6, OneMore DEF ChangePasswd
  <2>5. UNCHANGED <<dirs, link, stored, map, process, wish, raced>>
    BY <1>6 DEF ChangePasswd
  <2> QED BY <2>2, <2>3, <2>4, <2>5 DEF TypeOK, Records, process
<1>7. ASSUME NEW j \in Jobs, ListUsers(j) \/ MergeUsers(j) \/ WriteUsers(j) PROVE TypeOK' /\ Records'
  BY <1>7, JobTyped
<1>8. CASE EmitMap
  BY <1>8 DEF EmitMap, TypeOK, Records, disk, history
<1>9. CASE ShowSettings
  <2>1. jobs' \in [Jobs -> JobRecords]
    BY <1>9, JobStarts DEF ShowSettings, Jobs, Accounts
  <2>2. \A k \in Jobs : jobs'[k] \in JobRecords
    BY <2>1
  <2> QED BY <1>9, <2>1, <2>2 DEF ShowSettings, TypeOK, Records, JobRecords, Maps, Accounts, disk, history
<1>10. ASSUME NEW to \in {"main", "prepare"}, LeaveSettings(to) PROVE TypeOK' /\ Records'
  <2>1. jobs' \in [Jobs -> JobRecords]
    BY <1>10, NoneTyped DEF LeaveSettings, Records
  <2>2. \A k \in Jobs : jobs'[k] \in JobRecords
    BY <2>1
  <2>3. raced' \in BOOLEAN
    BY <1>10, Zenon DEF LeaveSettings, Records
  <2> QED BY <1>10, <2>1, <2>2, <2>3 DEF LeaveSettings, TypeOK, Records, JobRecords, Maps, Accounts, disk
<1>11. ASSUME NEW n \in Names, NEW u \in Users \cup {Root}, ChooseUser(n, u) PROVE TypeOK' /\ Records'
  <2>1. jobs' \in [Jobs -> JobRecords]
    BY <1>11, JobStarts DEF ChooseUser, Jobs, Accounts
  <2>2. \A k \in Jobs : jobs'[k] \in JobRecords
    BY <2>1
  <2>3. ops' \in 0..MaxOps
    BY <1>11, OneMore DEF ChooseUser, Ready
  <2>4. chosen' \in [Bodies -> Users \cup {Root, NoUser}]
    BY <1>11 DEF ChooseUser, TypeOK
  <2> QED BY <1>11, <2>1, <2>2, <2>3, <2>4 DEF ChooseUser, TypeOK, Records, JobRecords, Maps, Accounts, disk
<1>12. ASSUME NEW old \in Names, NEW new \in Names, NEW way \in Ways, Rename(old, new, way) PROVE TypeOK' /\ Records'
  BY <1>12, RenameTyped
<1>13. CASE DeleteDone
  <2>1. op.kind = "delete" /\ op.name \in Names
    BY <1>13 DEF DeleteDone, IInv, Listed
  <2>2. jobs' \in [Jobs -> JobRecords]
    BY <1>13, <2>1, JobStarts DEF DeleteDone, Jobs
  <2>3. \A k \in Jobs : jobs'[k] \in JobRecords
    BY <2>2
  <2>4. op' = [kind |-> "wait", name |-> NoName, link |-> NoName, body |-> NoBody]
    BY <1>13 DEF DeleteDone, NoOp
  <2>5. dirs' \in [Names -> Bodies \cup {NoBody}]
    BY <1>13 DEF DeleteDone, TypeOK
  <2>6. UNCHANGED <<passwd, link, stored, map, screen, running, view, options, fresh, wish, chosen, raced, removed, ops>>
    BY <1>13 DEF DeleteDone, history
  <2> QED BY <2>2, <2>3, <2>4, <2>5, <2>6 DEF TypeOK, Records, JobRecords, OpRecords, Maps, Accounts
<1>19. CASE DeleteUsers
  <2>1. dirs[op.name] \in Bodies
    BY <1>19 DEF DeleteUsers, IInv, Listed, TypeOK
  <2>2. passwd' \in [Bodies -> SUBSET Users] /\ chosen' \in [Bodies -> Users \cup {Root, NoUser}]
    BY <1>19, <2>1 DEF DeleteUsers, TypeOK
  <2>3. removed' \in BOOLEAN
    BY <1>19 DEF DeleteUsers
  <2>4. UNCHANGED <<dirs, link, stored, map, process, wish, raced, ops>>
    BY <1>19 DEF DeleteUsers
  <2> QED BY <2>2, <2>3, <2>4 DEF TypeOK, Records, process
<1>20. CASE DeleteFails
  <2>1. op' \in OpRecords /\ op'.kind = "none"
    BY <1>20 DEF DeleteFails, OpRecords, NoOp
  <2> QED BY <1>20, <2>1 DEF DeleteFails, TypeOK, Records, disk, history
<1>21. ASSUME NEW n \in Names, Delete(n) PROVE TypeOK' /\ Records'
  <2>1. ops' \in 0..MaxOps
    BY <1>21, OneMore DEF Delete, Ready
  <2>2. op' \in OpRecords /\ op'.kind = "delete"
    BY <1>21 DEF Delete, OpRecords, NoOp
  <2> QED BY <1>21, <2>1, <2>2 DEF Delete, TypeOK, Records, disk
<1>14. ASSUME NEW n \in Names, Select(n) PROVE TypeOK' /\ Records'
  <2>1. ops' \in 0..MaxOps
    BY <1>14, OneMore DEF Select, Ready
  <2>2. op' \in OpRecords /\ op'.kind = "select"
    BY <1>14 DEF Select, OpRecords, TypeOK
  <2> QED BY <1>14, <2>1, <2>2 DEF Select, TypeOK, Records, disk
<1>15. CASE RenameDone
  <2>1. op' \in OpRecords /\ op'.kind \in {"none", "select"}
    BY <1>15 DEF RenameDone, Records, OpRecords, NoOp
  <2> QED BY <1>15, <2>1 DEF RenameDone, TypeOK, Records, disk, history
<1>16. CASE SelectLink
  <2>1. op' \in OpRecords /\ op'.kind = "selected"
    BY <1>16 DEF SelectLink, Records, OpRecords
  <2>2. link' \in Names \cup {NoName, Path}
    BY <1>16 DEF SelectLink, Records, OpRecords
  <2> QED BY <1>16, <2>1, <2>2 DEF SelectLink, TypeOK, Records, history
<1>17. ASSUME NEW us \in SUBSET Users, installRootfsArchive(us) PROVE TypeOK' /\ Records'
  <2>1. ops' \in 0..MaxOps
    BY <1>17, OneMore DEF installRootfsArchive
  <2>2. PICK n \in Names, b \in Bodies :
          /\ dirs' = [dirs EXCEPT ![n] = b] /\ passwd' = [passwd EXCEPT ![b] = us]
          /\ chosen' = [chosen EXCEPT ![b] = NoUser] /\ fresh' = [name |-> n, body |-> b, renamed |-> FALSE]
    BY <1>17 DEF installRootfsArchive
  <2> QED BY <1>17, <2>1, <2>2 DEF installRootfsArchive, TypeOK, Records
<1>18. CASE UNCHANGED vars
  BY <1>18 DEF vars, disk, process, history, TypeOK, Records
<1> QED
  BY <1>1, <1>2, <1>3, <1>4, <1>5, <1>6, <1>7, <1>8, <1>9, <1>10, <1>11, <1>12, <1>13, <1>14,
     <1>15, <1>16, <1>17, <1>18, <1>19, <1>20, <1>21 DEF Next

(***************************************************************************)
(* The types: names, users and containers are what they should be in the   *)
(* DataStore, the listing and the coroutines.  That a merged map has only  *)
(* users needs that getPreferredUser finds one in every listing.           *)
(***************************************************************************)
THEOREM TypeCorrect == Spec => []TypeOK
<1>1. Init => TypeInv
  BY KeptInit, TypedInit DEF TypeInv
<1>2. TypeInv /\ [Next]_vars => TypeInv'
  BY KeptNext, TypedNext DEF TypeInv
<1>3. TypeInv => TypeOK
  BY DEF TypeInv
<1> QED
  BY <1>1, <1>2, <1>3, PTL DEF Spec
-----------------------------------------------------------------------------
(* The login user that was chosen *)

\* No container has two names.
OneName == \A n, m \in Listed : dirs[n] = dirs[m] => n = m

Calling(n) == jobs["call"].pc # "none" /\ jobs["call"].name = n

\* The user u that was chosen for n is on its way to the map ...
OnItsWay(n, u) ==
  /\ jobs["call"].user = u
  /\ jobs["call"].pc \in {"merge", "write"} => u \in options[n]
  /\ jobs["call"].pc = "write" => jobs["call"].merged[n] = u

\* ... or there, and what is merged keeps it.
Arrived(n, u) ==
  /\ map[n] = u
  /\ \A j \in Jobs : /\ jobs[j].pc = "merge" => u \in options[n]
                     /\ jobs[j].pc = "write" => jobs[j].merged[n] = u

Followed(n, u) ==
  u # NoUser => u \in getUserInfos(n) /\ IF Calling(n) THEN OnItsWay(n, u) ELSE Arrived(n, u)

\* A container is deleted while there is no call.
DeleteAlone == op.kind = "delete" => jobs["call"].pc = "none"

ChoiceInv ==
  /\ TypeInv /\ DeleteAlone
  /\ OneName
  /\ jobs["refresh"].name = NoName
  /\ ~raced => \A n \in Listed : Followed(n, chosen[dirs[n]])

\* What the steps of a coroutine change in jobs.
LEMMA JobSteps ==
  ASSUME Records, NEW j \in Jobs
  PROVE /\ ListUsers(j) =>
             /\ jobs'[j].pc = "merge" /\ jobs'[j].name = jobs[j].name /\ jobs'[j].user = jobs[j].user
             /\ jobs'[j].merged = jobs[j].merged
             /\ \A k \in Jobs \ {j} : jobs'[k] = jobs[k]
        /\ MergeUsers(j) =>
             /\ jobs'[j].pc = "write" /\ jobs'[j].name = jobs[j].name /\ jobs'[j].user = jobs[j].user
             /\ jobs'[j].merged = Merged(j)
             /\ \A k \in Jobs \ {j} : jobs'[k] = jobs[k]
        /\ WriteUsers(j) => jobs'[j] = NoJob /\ \A k \in Jobs \ {j} : jobs'[k] = jobs[k]
<1>1. ListUsers(j) => jobs' = [jobs EXCEPT ![j] = [jobs[j] EXCEPT !.pc = "merge"]]
  BY DEF ListUsers, Records
<1>2. MergeUsers(j) => jobs' = [jobs EXCEPT ![j] = [jobs[j] EXCEPT !.pc = "write", !.merged = Merged(j)]]
  BY DEF MergeUsers, Records
<1>3. jobs[j] \in JobRecords
  BY DEF Records
<1>4. /\ [jobs[j] EXCEPT !.pc = "merge"].pc = "merge"
      /\ [jobs[j] EXCEPT !.pc = "merge"].name = jobs[j].name
      /\ [jobs[j] EXCEPT !.pc = "merge"].user = jobs[j].user
      /\ [jobs[j] EXCEPT !.pc = "merge"].merged = jobs[j].merged
  BY <1>3 DEF JobRecords
<1>5. /\ [jobs[j] EXCEPT !.pc = "write", !.merged = Merged(j)].pc = "write"
      /\ [jobs[j] EXCEPT !.pc = "write", !.merged = Merged(j)].name = jobs[j].name
      /\ [jobs[j] EXCEPT !.pc = "write", !.merged = Merged(j)].user = jobs[j].user
      /\ [jobs[j] EXCEPT !.pc = "write", !.merged = Merged(j)].merged = Merged(j)
  BY <1>3 DEF JobRecords
<1>6. ListUsers(j) => /\ jobs'[j] = [jobs[j] EXCEPT !.pc = "merge"]
                      /\ \A k \in Jobs \ {j} : jobs'[k] = jobs[k]
  BY <1>1 DEF Records
<1>7. MergeUsers(j) => /\ jobs'[j] = [jobs[j] EXCEPT !.pc = "write", !.merged = Merged(j)]
                       /\ \A k \in Jobs \ {j} : jobs'[k] = jobs[k]
  BY <1>2 DEF Records
<1>8. WriteUsers(j) => jobs'[j] = NoJob /\ \A k \in Jobs \ {j} : jobs'[k] = jobs[k]
  BY DEF WriteUsers, Records
<1> QED BY <1>4, <1>5, <1>6, <1>7, <1>8

\* The users of a container are those of its directory.
LEMMA SameInfos ==
  ASSUME NEW n \in Names, n \in Listed <=> n \in Listed', n \in Listed => dirs'[n] = dirs[n],
         n \in Listed => passwd'[dirs[n]] = passwd[dirs[n]]
  PROVE getUserInfos(n)' = getUserInfos(n)
  BY DEF getUserInfos

LEMMA ListFollowed ==
  ASSUME ChoiceInv, NEW j \in Jobs, ListUsers(j), ~raced', NEW n \in Listed'
  PROVE Followed(n, chosen[dirs[n]])'
<1>1. ~raced /\ UNCHANGED <<dirs, passwd, map, chosen>> /\ n \in Listed /\ n \in Names
  BY DEF ListUsers, Listed, disk
<1>2. Followed(n, chosen[dirs[n]]) /\ getUserInfos(n)' = getUserInfos(n)
  BY <1>1, SameInfos DEF ChoiceInv, Listed
<1>3. options'[n] = getUserInfos(n)
  BY <1>1 DEF ListUsers
<1>4. /\ jobs'[j].pc = "merge" /\ jobs'[j].name = jobs[j].name /\ jobs'[j].user = jobs[j].user
      /\ \A k \in Jobs \ {j} : jobs'[k] = jobs[k]
      /\ jobs[j].pc = "list"
  BY JobSteps DEF ChoiceInv, TypeInv, ListUsers
<1>5. Calling(n)' = Calling(n)
  BY <1>4 DEF Calling, Jobs
<1>6. ASSUME NEW u \in getUserInfos(n), OnItsWay(n, u) PROVE OnItsWay(n, u)'
  BY <1>3, <1>4, <1>6 DEF OnItsWay, Jobs
<1>7. ASSUME NEW u \in getUserInfos(n), Arrived(n, u) PROVE Arrived(n, u)'
  BY <1>1, <1>3, <1>4, <1>7 DEF Arrived
<1> QED BY <1>1, <1>2, <1>5, <1>6, <1>7 DEF Followed

LEMMA MergeFollowed ==
  ASSUME ChoiceInv, NEW j \in Jobs, MergeUsers(j), ~raced', NEW n \in Listed'
  PROVE Followed(n, chosen[dirs[n]])'
<1>1. ~raced /\ view = map /\ n \in Listed /\ n \in Names
      /\ UNCHANGED <<dirs, passwd, map, chosen, options>>
  BY DEF MergeUsers, Listed, disk
<1>2. Followed(n, chosen[dirs[n]]) /\ getUserInfos(n)' = getUserInfos(n)
  BY <1>1, SameInfos DEF ChoiceInv, Listed
<1>3. /\ jobs'[j].pc = "write" /\ jobs'[j].name = jobs[j].name /\ jobs'[j].user = jobs[j].user
      /\ jobs'[j].merged = Merged(j)
      /\ \A k \in Jobs \ {j} : jobs'[k] = jobs[k]
      /\ jobs[j].pc = "merge"
  BY JobSteps DEF ChoiceInv, TypeInv, MergeUsers
<1>4. Calling(n)' = Calling(n)
  BY <1>3 DEF Calling, Jobs
<1>5. n # jobs["refresh"].name
  BY <1>1, NoneIsNothing DEF ChoiceInv
<1>6. (IF n = jobs[j].name THEN jobs[j].user ELSE view[n]) \in options[n] =>
        Merged(j)[n] = (IF n = jobs[j].name THEN jobs[j].user ELSE view[n])
  BY <1>1, MergedTyped DEF ChoiceInv, TypeInv
<1>7. ASSUME NEW u, Calling(n), OnItsWay(n, u) PROVE OnItsWay(n, u)'
  <2>1. CASE j = "call"
    BY <1>1, <1>3, <1>6, <1>7, <2>1 DEF OnItsWay, Calling
  <2>2. CASE j # "call"
    BY <1>1, <1>3, <1>7, <2>2 DEF OnItsWay, Jobs
  <2> QED BY <2>1, <2>2
<1>8. ASSUME NEW u, ~Calling(n), Arrived(n, u) PROVE Arrived(n, u)'
  <2>1. n # jobs[j].name
    BY <1>3, <1>5, <1>8 DEF Calling, Jobs
  <2>2. view[n] = u /\ u \in options[n]
    BY <1>1, <1>3, <1>8 DEF Arrived
  <2>3. Merged(j)[n] = u
    BY <1>6, <2>1, <2>2
  <2> QED BY <1>1, <1>3, <1>8, <2>2, <2>3 DEF Arrived
<1> QED BY <1>1, <1>2, <1>4, <1>7, <1>8 DEF Followed

LEMMA WriteFollowed ==
  ASSUME ChoiceInv, NEW j \in Jobs, WriteUsers(j), ~raced', NEW n \in Listed'
  PROVE Followed(n, chosen[dirs[n]])'
<1>1. ~raced /\ n \in Listed /\ n \in Names /\ (\A k \in Jobs \ {j} : jobs[k].pc # "write")
      /\ map' = jobs[j].merged /\ jobs[j].pc = "write" /\ UNCHANGED <<dirs, passwd, chosen, options>>
  BY DEF WriteUsers, Listed
<1>2. Followed(n, chosen[dirs[n]]) /\ getUserInfos(n)' = getUserInfos(n)
  BY <1>1, SameInfos DEF ChoiceInv, Listed
<1>3. jobs'[j].pc = "none" /\ \A k \in Jobs \ {j} : jobs'[k] = jobs[k]
  BY JobSteps, NoneTyped DEF ChoiceInv, TypeInv
<1>4. CASE j = "call"
  <2>1. ~Calling(n)'
    BY <1>3, <1>4 DEF Calling
  <2>2. jobs'["refresh"] = jobs["refresh"] /\ jobs["refresh"].pc # "write"
    BY <1>1, <1>3, <1>4 DEF Jobs
  <2>3. ASSUME NEW u, Calling(n), OnItsWay(n, u) PROVE Arrived(n, u)'
    BY <1>1, <1>3, <1>4, <2>2, <2>3 DEF OnItsWay, Arrived, Jobs
  <2>4. ASSUME NEW u, Arrived(n, u) PROVE Arrived(n, u)'
    BY <1>1, <1>3, <1>4, <2>2, <2>4 DEF Arrived, Jobs
  <2> QED BY <1>1, <1>2, <2>1, <2>3, <2>4 DEF Followed
<1>5. CASE j # "call"
  <2>1. j = "refresh" /\ jobs'["call"] = jobs["call"]
    BY <1>3, <1>5 DEF Jobs
  <2>2. Calling(n)' = Calling(n)
    BY <2>1 DEF Calling
  <2>3. ASSUME NEW u, OnItsWay(n, u) PROVE OnItsWay(n, u)'
    BY <1>1, <2>1, <2>3 DEF OnItsWay
  <2>4. ASSUME NEW u, Arrived(n, u) PROVE Arrived(n, u)'
    BY <1>1, <1>3, <2>1, <2>4 DEF Arrived, Jobs
  <2> QED BY <1>1, <1>2, <2>2, <2>3, <2>4 DEF Followed
<1> QED BY <1>4, <1>5

\* What a step of the user does to the containers that it is not about.
LEMMA OthersFollowed ==
  ASSUME ChoiceInv, ~raced, NEW n \in Listed, UNCHANGED <<map, options>>,
         getUserInfos(n)' = getUserInfos(n), chosen'[dirs'[n]] = chosen[dirs[n]],
         jobs["call"].pc = "none",
         \/ jobs'["call"].pc = "none"
         \/ jobs'["call"].pc = "list" /\ jobs'["call"].name # n,
         \/ jobs'["refresh"] = jobs["refresh"]
         \/ jobs'["refresh"].pc \in {"none", "list"}
  PROVE Followed(n, chosen[dirs[n]])'
<1>1. Followed(n, chosen[dirs[n]])
  BY DEF ChoiceInv
<1>2. ~Calling(n) /\ ~Calling(n)'
  BY DEF Calling
<1>3. ASSUME NEW u, Arrived(n, u) PROVE Arrived(n, u)'
  BY <1>3 DEF Arrived, Jobs
<1> QED BY <1>1, <1>2, <1>3 DEF Followed

LEMMA FollowedIfSame ==
  ASSUME ChoiceInv, ~raced, UNCHANGED <<dirs, passwd, map, chosen, options, jobs>>, NEW n \in Listed'
  PROVE Followed(n, chosen[dirs[n]])'
<1>1. Followed(n, chosen[dirs[n]]) /\ getUserInfos(n)' = getUserInfos(n)
  BY SameInfos DEF ChoiceInv, Listed
<1> QED BY <1>1 DEF Followed, Calling, OnItsWay, Arrived

LEMMA PasswdFollowed ==
  ASSUME ChoiceInv, NEW v \in Users, ChangePasswd(v), ~raced', NEW n \in Listed'
  PROVE Followed(n, chosen[dirs[n]])'
<1>1. ~raced /\ n \in Listed /\ n \in Names /\ UNCHANGED <<dirs, map, options, jobs>>
      /\ running # NoBody
  BY DEF ChangePasswd, Listed, process
<1>2. Followed(n, chosen[dirs[n]])
  BY <1>1 DEF ChoiceInv
<1>3. dirs[n] \in Bodies /\ running \in Bodies /\ passwd \in [Bodies -> SUBSET Users]
      /\ chosen \in [Bodies -> Users \cup {Root, NoUser}]
  BY <1>1 DEF ChoiceInv, TypeInv, TypeOK, Listed
<1>4. chosen'[dirs[n]] # NoUser => chosen'[dirs[n]] = chosen[dirs[n]]
  BY <1>3 DEF ChangePasswd
<1>5. ASSUME chosen'[dirs[n]] # NoUser, chosen[dirs[n]] \in getUserInfos(n)
      PROVE chosen[dirs[n]] \in getUserInfos(n)'
  BY <1>1, <1>3, <1>5 DEF ChangePasswd, getUserInfos
<1> QED
  BY <1>1, <1>2, <1>4, <1>5 DEF Followed, Calling, OnItsWay, Arrived

LEMMA GoneFollowed ==
  ASSUME ChoiceInv, ProcessGone, UNCHANGED <<dirs, passwd, map, chosen>>, ~raced', NEW n \in Listed'
  PROVE Followed(n, chosen[dirs[n]])'
<1>1. ~raced /\ jobs["call"].pc = "none" /\ n \in Listed /\ n \in Names
  BY DEF ProcessGone, Listed
<1>2. \A j \in Jobs : jobs'[j].pc = "none"
  BY NoneTyped DEF ProcessGone
<1>3. Followed(n, chosen[dirs[n]]) /\ getUserInfos(n)' = getUserInfos(n)
  BY <1>1, SameInfos DEF ChoiceInv, Listed
<1>4. ~Calling(n) /\ ~Calling(n)'
  BY <1>1, <1>2 DEF Calling, Jobs
<1> QED BY <1>2, <1>3, <1>4 DEF Followed, Arrived

LEMMA ChooseFollowed ==
  ASSUME ChoiceInv, NEW m \in Names, NEW v \in Users \cup {Root}, ChooseUser(m, v), ~raced', NEW n \in Listed'
  PROVE Followed(n, chosen[dirs[n]])'
<1>1. ~raced /\ n \in Listed /\ n \in Names /\ jobs["call"].pc = "none" /\ m \in Listed
      /\ v \in getUserInfos(m) /\ UNCHANGED <<dirs, passwd, map, options>>
  BY DEF ChooseUser, Ready, Listed, disk
<1>2. /\ jobs'["call"].pc = "list" /\ jobs'["call"].name = m /\ jobs'["call"].user = v
      /\ jobs'["refresh"] = jobs["refresh"]
  BY JobStarts DEF ChoiceInv, TypeInv, ChooseUser, Jobs, Accounts
<1>3. getUserInfos(n)' = getUserInfos(n)
  BY <1>1, SameInfos DEF Listed
<1>4. dirs[n] \in Bodies /\ dirs[m] \in Bodies /\ chosen \in [Bodies -> Users \cup {Root, NoUser}]
  BY <1>1 DEF ChoiceInv, TypeInv, TypeOK, Listed
<1>5. CASE n = m
  BY <1>1, <1>2, <1>3, <1>4, <1>5 DEF ChooseUser, Followed, Calling, OnItsWay
<1>6. CASE n # m
  <2>1. dirs[n] # dirs[m]
    BY <1>1, <1>6 DEF ChoiceInv, OneName
  <2>2. chosen'[dirs'[n]] = chosen[dirs[n]]
    BY <1>1, <1>4, <2>1 DEF ChooseUser
  <2> QED BY <1>1, <1>2, <1>3, <1>6, <2>2, OthersFollowed
<1> QED BY <1>5, <1>6

\* Renaming: the container under the new name is the one of the old.
LEMMA RenameMoves ==
  ASSUME TypeInv, NEW old \in Names, NEW new \in Names, NEW way \in Ways, Rename(old, new, way)
  PROVE /\ jobs["call"].pc = "none" /\ jobs'["call"].pc = "list" /\ jobs'["call"].name \notin Listed
        /\ jobs'["refresh"] = jobs["refresh"]
        /\ UNCHANGED <<passwd, map, options, raced, view, screen, removed>>
        /\ \A n \in Listed' :
             \/ n = new /\ n \notin Listed /\ old \in Listed /\ dirs' # dirs /\ dirs'[n] = dirs[old]
             \/ n \in Listed /\ dirs'[n] = dirs[n] /\ (dirs' = dirs \/ n # old)
        /\ dirs' = dirs => UNCHANGED chosen
        /\ dirs' # dirs => old \in Listed /\ chosen' = [chosen EXCEPT ![dirs[old]] = NoUser]
<1>1. IInv
  BY DEF TypeInv
<1>2. /\ jobs'["call"].pc = "list" /\ jobs'["call"].name \notin Listed /\ jobs'["refresh"] = jobs["refresh"]
      /\ jobs["call"].pc = "none" /\ UNCHANGED <<passwd, map, options, raced, view, screen, removed>>
  BY <1>1, RenameCalls, RenameIs
<1>3. CASE ~(old \in Listed /\ way # "nowhere")
  <2>1. dirs' = dirs /\ chosen' = chosen
    BY <1>3 DEF Rename
  <2> QED BY <1>2, <2>1 DEF Listed
<1>4. CASE old \in Listed /\ way # "nowhere"
  <2>1. /\ chosen' = [chosen EXCEPT ![dirs[old]] = NoUser]
        /\ dirs'[old] = NoBody /\ \A n \in Names \ {old, new} : dirs'[n] = dirs[n]
        /\ new # old => dirs'[new] = IF way = "away" THEN dirs[new] ELSE dirs[old]
        /\ way \in {"plain", "respelled"} => new \notin Listed
    BY <1>1, <1>4, RenameIs
  <2>4. way # "away" => new \notin Listed
    BY <1>4, <2>1 DEF Ways
  <2>2. dirs' # dirs
    BY <1>4, <2>1 DEF Listed
  <2>3. ASSUME NEW n \in Listed'
        PROVE \/ n = new /\ n \notin Listed /\ dirs'[n] = dirs[old]
              \/ n \in Listed /\ dirs'[n] = dirs[n] /\ n # old
    <3>1. n \in Names /\ dirs'[n] # NoBody /\ n # old
      BY <2>1, <2>3 DEF Listed
    <3>2. CASE n = new /\ way # "away"
      BY <2>1, <2>4, <3>1, <3>2
    <3>3. CASE ~(n = new /\ way # "away")
      <4>1. dirs'[n] = dirs[n]
        BY <2>1, <3>1, <3>3
      <4> QED BY <3>1, <4>1 DEF Listed
    <3> QED BY <3>2, <3>3
  <2> QED BY <1>2, <1>4, <2>1, <2>2, <2>3
<1> QED BY <1>3, <1>4

LEMMA RenameFollowed ==
  ASSUME ChoiceInv, NEW old \in Names, NEW new \in Names, NEW way \in Ways, Rename(old, new, way), ~raced',
         NEW n \in Listed'
  PROVE Followed(n, chosen[dirs[n]])'
<1>1. /\ ~raced /\ jobs["call"].pc = "none" /\ jobs'["call"].pc = "list" /\ jobs'["call"].name \notin Listed
      /\ jobs'["refresh"] = jobs["refresh"] /\ UNCHANGED <<passwd, map, options>>
      /\ \/ n = new /\ n \notin Listed /\ old \in Listed /\ dirs' # dirs /\ dirs'[n] = dirs[old]
         \/ n \in Listed /\ dirs'[n] = dirs[n] /\ (dirs' = dirs \/ n # old)
      /\ dirs' = dirs => UNCHANGED chosen
      /\ dirs' # dirs => old \in Listed /\ chosen' = [chosen EXCEPT ![dirs[old]] = NoUser]
  BY RenameMoves DEF ChoiceInv
<1>2. chosen \in [Bodies -> Users \cup {Root, NoUser}] /\ \A k \in Listed : dirs[k] \in Bodies
  BY DEF ChoiceInv, TypeInv, TypeOK, Listed
<1>3. CASE n \notin Listed
  <2>1. chosen'[dirs'[n]] = NoUser
    BY <1>1, <1>2, <1>3
  <2> QED BY <2>1 DEF Followed
<1>4. CASE n \in Listed
  <2>1. n \in Names /\ dirs'[n] = dirs[n]
    BY <1>1, <1>4 DEF Listed
  <2>2. getUserInfos(n)' = getUserInfos(n)
    BY <1>1, <1>4, <2>1, SameInfos
  <2>3. chosen'[dirs'[n]] = chosen[dirs[n]]
    <3>1. CASE dirs' = dirs
      BY <1>1, <3>1
    <3>2. CASE dirs' # dirs
      <4>1. dirs[n] # dirs[old]
        BY <1>1, <1>4, <3>2 DEF ChoiceInv, OneName
      <4> QED BY <1>1, <1>2, <1>4, <2>1, <3>2, <4>1
    <3> QED BY <3>1, <3>2
  <2> QED BY <1>1, <1>4, <2>1, <2>2, <2>3, OthersFollowed
<1> QED BY <1>3, <1>4

\* Deleting and installing: what is under the other names.
LEMMA DeleteLeaves ==
  ASSUME TypeInv, DeleteAlone, DeleteDone
  PROVE /\ jobs["call"].pc = "none" /\ jobs'["call"].pc = "list" /\ jobs'["call"].name = op.name
        /\ jobs'["refresh"] = jobs["refresh"]
        /\ UNCHANGED <<passwd, map, options, raced, view, screen, fresh, chosen, removed>>
        /\ \A n \in Listed' : n # op.name /\ n \in Listed /\ dirs'[n] = dirs[n]
<1>1. op.kind = "delete" /\ op.name \in Names
  BY DEF DeleteDone, TypeInv, IInv, Listed
<1>2. jobs'["call"].pc = "list" /\ jobs'["call"].name = op.name /\ jobs'["refresh"] = jobs["refresh"]
  BY <1>1, JobStarts DEF TypeInv, DeleteDone, Jobs
<1>3. jobs["call"].pc = "none" /\ UNCHANGED <<passwd, map, options, raced, view, screen, fresh, chosen, removed>>
      /\ dirs' = [dirs EXCEPT ![op.name] = NoBody]
  BY <1>1 DEF DeleteDone, DeleteAlone, history
<1>4. \A n \in Listed' : n # op.name /\ n \in Listed /\ dirs'[n] = dirs[n]
  BY <1>1, <1>3 DEF TypeInv, TypeOK, Listed
<1> QED BY <1>2, <1>3, <1>4

\* A container whose users are deleted has no choice any more; the others keep theirs.
LEMMA DeleteUsersFollowed ==
  ASSUME ChoiceInv, DeleteUsers, ~raced', NEW n \in Listed'
  PROVE Followed(n, chosen[dirs[n]])'
<1>1. ~raced /\ n \in Listed /\ n \in Names /\ UNCHANGED <<dirs, map, options, jobs>> /\ op.name \in Listed
  BY DEF DeleteUsers, Listed, process, ChoiceInv, TypeInv, IInv
<1>2. Followed(n, chosen[dirs[n]])
  BY <1>1 DEF ChoiceInv
<1>3. /\ dirs[n] \in Bodies /\ dirs[op.name] \in Bodies /\ passwd \in [Bodies -> SUBSET Users]
      /\ chosen \in [Bodies -> Users \cup {Root, NoUser}]
  BY <1>1 DEF ChoiceInv, TypeInv, TypeOK, Listed
<1>4. CASE dirs[n] = dirs[op.name]
  <2>1. chosen'[dirs'[n]] = NoUser
    BY <1>1, <1>3, <1>4 DEF DeleteUsers
  <2> QED BY <2>1 DEF Followed
<1>5. CASE dirs[n] # dirs[op.name]
  <2>1. passwd'[dirs[n]] = passwd[dirs[n]] /\ chosen'[dirs'[n]] = chosen[dirs[n]]
    BY <1>1, <1>3, <1>5 DEF DeleteUsers
  <2>2. n \in Listed'
    OBVIOUS
  <2>3. getUserInfos(n)' = getUserInfos(n)
    BY <1>1, <2>1, <2>2, SameInfos
  <2> QED BY <1>1, <1>2, <2>1, <2>3 DEF Followed, Calling, OnItsWay, Arrived
<1> QED BY <1>4, <1>5

LEMMA InstallAdds ==
  ASSUME TypeInv, NEW us \in SUBSET Users, installRootfsArchive(us)
  PROVE /\ UNCHANGED <<map, options, raced, view, screen, jobs, removed>>
        /\ \E m \in Names \ Listed, b \in Bodies :
             /\ Listed' = Listed \cup {m} /\ dirs'[m] = b /\ chosen'[b] = NoUser
             /\ \A n \in Listed : /\ dirs[n] # b /\ dirs'[n] = dirs[n]
                                  /\ passwd'[dirs[n]] = passwd[dirs[n]] /\ chosen'[dirs[n]] = chosen[dirs[n]]
<1>1. UNCHANGED <<map, options, raced, view, screen, jobs, removed>>
  BY DEF installRootfsArchive
<1>2. PICK m \in Names, b \in Bodies \ {dirs[k] : k \in Names} :
        /\ FreeName(m) /\ dirs' = [dirs EXCEPT ![m] = b] /\ passwd' = [passwd EXCEPT ![b] = us]
        /\ chosen' = [chosen EXCEPT ![b] = NoUser]
  BY DEF installRootfsArchive
<1>3. m \notin Listed /\ \A n \in Listed : dirs[n] # b /\ dirs[n] \in Bodies
  BY <1>2 DEF FreeName, Listed, TypeInv, TypeOK
<1>4. /\ dirs \in [Names -> Bodies \cup {NoBody}] /\ passwd \in [Bodies -> SUBSET Users]
      /\ chosen \in [Bodies -> Users \cup {Root, NoUser}]
  BY DEF TypeInv, TypeOK
<1>5. dirs'[m] = b /\ chosen'[b] = NoUser /\ b # NoBody
  BY <1>2, <1>4, NoneIsNothing
<1>6. Listed' = Listed \cup {m}
  BY <1>2, <1>4, <1>5 DEF Listed
<1>7. \A n \in Listed : /\ dirs[n] # b /\ dirs'[n] = dirs[n]
                        /\ passwd'[dirs[n]] = passwd[dirs[n]] /\ chosen'[dirs[n]] = chosen[dirs[n]]
  BY <1>2, <1>3, <1>4 DEF Listed
<1> QED BY <1>1, <1>2, <1>3, <1>5, <1>6, <1>7

LEMMA InstallFollowed ==
  ASSUME ChoiceInv, NEW us \in SUBSET Users, installRootfsArchive(us), ~raced', NEW n \in Listed'
  PROVE Followed(n, chosen[dirs[n]])'
<1>1. ~raced /\ UNCHANGED <<map, options, jobs>>
  BY InstallAdds DEF ChoiceInv
<1>2. PICK m \in Names \ Listed, b \in Bodies :
        /\ Listed' = Listed \cup {m} /\ dirs'[m] = b /\ chosen'[b] = NoUser
        /\ \A k \in Listed : /\ dirs'[k] = dirs[k]
                             /\ passwd'[dirs[k]] = passwd[dirs[k]] /\ chosen'[dirs[k]] = chosen[dirs[k]]
  BY InstallAdds DEF ChoiceInv
<1>3. CASE n = m
  BY <1>2, <1>3 DEF Followed
<1>4. CASE n # m
  <2>1. n \in Listed /\ n \in Names /\ chosen'[dirs'[n]] = chosen[dirs[n]]
    BY <1>2, <1>4 DEF Listed
  <2>2. getUserInfos(n)' = getUserInfos(n)
    BY <1>2, <2>1, SameInfos
  <2>3. Followed(n, chosen[dirs[n]])
    BY <1>1, <2>1 DEF ChoiceInv
  <2> QED BY <1>1, <2>1, <2>2, <2>3 DEF Followed, Calling, OnItsWay, Arrived
<1> QED BY <1>3, <1>4

LEMMA AloneNext == TypeInv /\ DeleteAlone /\ [Next]_vars => DeleteAlone'
<1> SUFFICES ASSUME TypeInv, DeleteAlone, [Next]_vars, op'.kind = "delete" PROVE jobs'["call"].pc = "none"
  BY DEF DeleteAlone
<1>1. ASSUME NEW j \in Jobs, ListUsers(j) \/ MergeUsers(j) \/ WriteUsers(j) PROVE jobs'["call"].pc = "none"
  <2>1. op' = op /\ jobs["call"].pc = "none"
    BY <1>1 DEF ListUsers, MergeUsers, WriteUsers, DeleteAlone
  <2>2. j # "call"
    BY <1>1, <2>1 DEF ListUsers, MergeUsers, WriteUsers
  <2> QED BY <1>1, <2>1, <2>2, JobSteps DEF TypeInv, Jobs
<1>2. CASE ProcessGone
  BY <1>2, NoneIsNothing DEF ProcessGone
<1>3. CASE ShowSettings
  <2>1. op' = op
    BY <1>3 DEF ShowSettings
  <2> QED BY <1>3, <2>1, JobStarts DEF ShowSettings, DeleteAlone, TypeInv, Jobs, Accounts
<1>4. ASSUME NEW to \in {"main", "prepare"}, LeaveSettings(to) PROVE FALSE
  BY <1>4, NoneIsNothing DEF LeaveSettings
<1>5. ASSUME NEW n \in Names, NEW u \in Users \cup {Root}, ChooseUser(n, u) PROVE FALSE
  BY <1>5, NoneIsNothing DEF ChooseUser, Ready
<1>6. ASSUME NEW old \in Names, NEW new \in Names, NEW way \in Ways, Rename(old, new, way) PROVE FALSE
  BY <1>6, RenameIs DEF TypeInv
<1>7. CASE DeleteDone
  BY <1>7 DEF DeleteDone, NoOp
<1>8. ASSUME NEW n \in Names, Delete(n) PROVE jobs'["call"].pc = "none"
  BY <1>8 DEF Delete, Ready
<1>9. CASE UNCHANGED <<op, jobs>>
  BY <1>9 DEF DeleteAlone
<1>10. CASE \/ DeleteFails \/ RenameDone \/ SelectLink \/ (\E n \in Names : Select(n))
            \/ \E c \in BOOLEAN : FinishPrepare(c)
  <2>1. \/ ProcessGone
        \/ op' = NoOp \/ op'.kind \in {"select", "selected"}
    <3>1. op = [kind |-> op.kind, name |-> op.name, link |-> op.link, body |-> op.body]
      BY DEF TypeInv, Records, OpRecords
    <3>2. CASE DeleteFails
      BY <3>2 DEF DeleteFails
    <3>3. CASE RenameDone \/ SelectLink
      BY <3>1, <3>3 DEF RenameDone, SelectLink
    <3>4. ASSUME NEW n \in Names, Select(n) PROVE op'.kind = "select"
      BY <3>4 DEF Select
    <3>5. ASSUME NEW c \in BOOLEAN, FinishPrepare(c) PROVE ProcessGone \/ op'.kind = "select"
      BY <3>5 DEF FinishPrepare
    <3> QED BY <1>10, <3>2, <3>3, <3>4, <3>5
  <2> QED BY <1>2, <2>1, NoneIsNothing
<1> QED
  BY <1>1, <1>2, <1>3, <1>4, <1>5, <1>6, <1>7, <1>8, <1>9, <1>10 DEF Next, Die, ShowPrepare, startEmu,
     startTerminal, ChangePasswd, EmitMap, DeleteUsers, SelectStore, installRootfsArchive, process, vars

LEMMA OneNameNext == ChoiceInv /\ [Next]_vars => OneName'
<1> SUFFICES ASSUME ChoiceInv, [Next]_vars PROVE OneName'
  OBVIOUS
<1>1. ASSUME NEW old \in Names, NEW new \in Names, NEW way \in Ways, Rename(old, new, way) PROVE OneName'
  <2>1. \A n \in Listed' :
          \/ n = new /\ n \notin Listed /\ old \in Listed /\ dirs' # dirs /\ dirs'[n] = dirs[old]
          \/ n \in Listed /\ dirs'[n] = dirs[n] /\ (dirs' = dirs \/ n # old)
    BY <1>1, RenameMoves DEF ChoiceInv
  <2>2. CASE dirs' = dirs
    BY <2>2 DEF ChoiceInv, OneName, Listed
  <2>3. CASE dirs' # dirs
    BY <2>1, <2>3 DEF ChoiceInv, OneName
  <2> QED BY <2>2, <2>3
<1>2. CASE DeleteDone
  <2>1. \A n \in Listed' : n \in Listed /\ dirs'[n] = dirs[n]
    BY <1>2, DeleteLeaves DEF ChoiceInv
  <2> QED BY <2>1 DEF ChoiceInv, OneName
<1>3. ASSUME NEW us \in SUBSET Users, installRootfsArchive(us) PROVE OneName'
  <2>1. PICK m \in Names \ Listed, b \in Bodies :
          /\ Listed' = Listed \cup {m} /\ dirs'[m] = b
          /\ \A n \in Listed : dirs[n] # b /\ dirs'[n] = dirs[n]
    BY <1>3, InstallAdds DEF ChoiceInv
  <2> QED BY <2>1 DEF ChoiceInv, OneName
<1>4. CASE UNCHANGED dirs
  BY <1>4 DEF ChoiceInv, OneName, Listed
<1> QED
  BY <1>1, <1>2, <1>3, <1>4 DEF Next, Die, ShowPrepare, startEmu, startTerminal, ChangePasswd,
     ListUsers, MergeUsers, WriteUsers, EmitMap, ShowSettings, LeaveSettings, ChooseUser, Delete,
     DeleteUsers, DeleteFails, Select, RenameDone, SelectLink, SelectStore, FinishPrepare, disk, process, vars

LEMMA RefreshNext == ChoiceInv /\ [Next]_vars => jobs'["refresh"].name = NoName
<1> SUFFICES ASSUME ChoiceInv, [Next]_vars PROVE jobs'["refresh"].name = NoName
  OBVIOUS
<1>1. ASSUME NEW j \in Jobs, ListUsers(j) \/ MergeUsers(j) \/ WriteUsers(j)
      PROVE jobs'["refresh"].name = NoName
  <2>1. jobs'["refresh"].name = jobs["refresh"].name \/ jobs'["refresh"] = NoJob
    <3>1. CASE j = "refresh"
      BY <1>1, <3>1, JobSteps DEF ChoiceInv, TypeInv
    <3>2. CASE j # "refresh"
      BY <1>1, <3>2, JobSteps DEF ChoiceInv, TypeInv, Jobs
    <3> QED BY <3>1, <3>2
  <2> QED BY <2>1, NoneTyped DEF ChoiceInv
<1>2. CASE ShowSettings
  BY <1>2, JobStarts DEF ShowSettings, ChoiceInv, TypeInv, Jobs, Accounts
<1>3. ASSUME NEW to \in {"main", "prepare"}, LeaveSettings(to) PROVE jobs'["refresh"].name = NoName
  BY <1>3 DEF LeaveSettings, ChoiceInv, TypeInv, Records, Jobs
<1>4. ASSUME NEW n \in Names, NEW u \in Users \cup {Root}, ChooseUser(n, u)
      PROVE jobs'["refresh"].name = NoName
  <2>1. jobs'["refresh"] = jobs["refresh"]
    BY <1>4, JobStarts DEF ChooseUser, ChoiceInv, TypeInv, Jobs, Accounts
  <2> QED BY <2>1 DEF ChoiceInv
<1>5. ASSUME NEW old \in Names, NEW new \in Names, NEW way \in Ways, Rename(old, new, way)
      PROVE jobs'["refresh"].name = NoName
  <2>1. jobs'["refresh"] = jobs["refresh"]
    BY <1>5, RenameMoves DEF ChoiceInv
  <2> QED BY <2>1 DEF ChoiceInv
<1>6. CASE DeleteDone
  <2>1. jobs'["refresh"] = jobs["refresh"]
    BY <1>6, DeleteLeaves DEF ChoiceInv
  <2> QED BY <2>1 DEF ChoiceInv
<1>7. CASE ProcessGone
  BY <1>7, NoneTyped DEF ProcessGone, Jobs
<1>8. CASE UNCHANGED jobs
  BY <1>8 DEF ChoiceInv
<1> QED
  BY <1>1, <1>2, <1>3, <1>4, <1>5, <1>6, <1>7, <1>8 DEF Next, Die, ShowPrepare, startEmu, startTerminal,
     ChangePasswd, EmitMap, Delete, DeleteUsers, DeleteFails, Select, RenameDone, SelectLink, SelectStore,
     installRootfsArchive, FinishPrepare, process, vars

LEMMA FollowedNext ==
  ASSUME ChoiceInv, [Next]_vars, ~raced', NEW n \in Listed' PROVE Followed(n, chosen[dirs[n]])'
<1>1. CASE ProcessGone /\ UNCHANGED <<dirs, passwd, map, chosen>>
  BY <1>1, GoneFollowed
<1>2. CASE ~raced /\ UNCHANGED <<dirs, passwd, map, chosen, options, jobs>>
  BY <1>2, FollowedIfSame
<1>3. ASSUME NEW u \in Users, ChangePasswd(u) PROVE Followed(n, chosen[dirs[n]])'
  BY <1>3, PasswdFollowed
<1>4. ASSUME NEW j \in Jobs, ListUsers(j) \/ MergeUsers(j) \/ WriteUsers(j)
      PROVE Followed(n, chosen[dirs[n]])'
  BY <1>4, ListFollowed, MergeFollowed, WriteFollowed
<1>5. CASE \/ ShowSettings /\ jobs["call"].pc = "none"
           \/ \E to \in {"main", "prepare"} : LeaveSettings(to)
  <2>1. ~raced /\ n \in Listed /\ n \in Names /\ UNCHANGED <<dirs, passwd, map, chosen, options>>
        /\ jobs["call"].pc = "none"
    <3>1. CASE ShowSettings
      BY <1>5, <3>1 DEF ShowSettings, LeaveSettings, Listed, disk, history
    <3>2. CASE ~ShowSettings
      BY <1>5, <3>2 DEF LeaveSettings, Listed, disk
    <3> QED BY <3>1, <3>2
  <2>2. jobs'["call"].pc = "none"
    <3>1. CASE ShowSettings
      BY <2>1, <3>1, JobStarts DEF ShowSettings, ChoiceInv, TypeInv, Jobs, Accounts
    <3>2. CASE ~ShowSettings
      BY <1>5, <3>2, NoneTyped DEF LeaveSettings, ChoiceInv, TypeInv, Records, Jobs
    <3> QED BY <3>1, <3>2
  <2>3. jobs'["refresh"] = jobs["refresh"] \/ jobs'["refresh"].pc = "list"
    <3>1. CASE ShowSettings
      BY <2>1, <3>1, JobStarts DEF ShowSettings, ChoiceInv, TypeInv, Jobs, Accounts
    <3>2. CASE ~ShowSettings
      BY <1>5, <3>2 DEF LeaveSettings, ChoiceInv, TypeInv, Records, Jobs
    <3> QED BY <3>1, <3>2
  <2>4. getUserInfos(n)' = getUserInfos(n)
    BY <2>1, SameInfos DEF Listed
  <2> QED BY <2>1, <2>2, <2>3, <2>4, OthersFollowed
<1>6. CASE ShowSettings /\ jobs["call"].pc # "none"
  <2>1. ~raced /\ n \in Listed /\ n \in Names /\ UNCHANGED <<dirs, passwd, map, chosen, options>>
    BY <1>6 DEF ShowSettings, Listed, disk, history
  <2>2. jobs'["call"] = jobs["call"] /\ jobs'["refresh"].pc = "list"
    BY <1>6, JobStarts DEF ShowSettings, ChoiceInv, TypeInv, Jobs, Accounts
  <2>3. Followed(n, chosen[dirs[n]]) /\ getUserInfos(n)' = getUserInfos(n)
    BY <2>1, SameInfos DEF ChoiceInv, Listed
  <2>4. Calling(n)' = Calling(n)
    BY <2>2 DEF Calling
  <2>5. ASSUME NEW u, OnItsWay(n, u) PROVE OnItsWay(n, u)'
    BY <2>1, <2>2, <2>5 DEF OnItsWay
  <2>6. ASSUME NEW u, Arrived(n, u) PROVE Arrived(n, u)'
    BY <2>1, <2>2, <2>6 DEF Arrived, Jobs
  <2> QED BY <2>1, <2>3, <2>4, <2>5, <2>6 DEF Followed
<1>7. ASSUME NEW m \in Names, NEW u \in Users \cup {Root}, ChooseUser(m, u)
      PROVE Followed(n, chosen[dirs[n]])'
  BY <1>7, ChooseFollowed
<1>8. ASSUME NEW old \in Names, NEW new \in Names, NEW way \in Ways, Rename(old, new, way)
      PROVE Followed(n, chosen[dirs[n]])'
  BY <1>8, RenameFollowed
<1>9. CASE DeleteDone
  <2>1. /\ jobs["call"].pc = "none" /\ jobs'["call"].pc = "list" /\ jobs'["call"].name = op.name
        /\ jobs'["refresh"] = jobs["refresh"] /\ UNCHANGED <<passwd, map, options, raced, chosen>>
        /\ n # op.name /\ n \in Listed /\ dirs'[n] = dirs[n]
    BY <1>9, DeleteLeaves DEF ChoiceInv
  <2>2. getUserInfos(n)' = getUserInfos(n)
    BY <2>1, SameInfos DEF Listed
  <2> QED BY <2>1, <2>2, OthersFollowed
<1>10. ASSUME NEW us \in SUBSET Users, installRootfsArchive(us) PROVE Followed(n, chosen[dirs[n]])'
  BY <1>10, InstallFollowed
<1>11. CASE Die \/ SelectStore \/ \E c \in BOOLEAN : FinishPrepare(c)
  <2>1. CASE ProcessGone
    BY <1>1, <1>11, <2>1 DEF Die, SelectStore, FinishPrepare, disk
  <2>2. CASE ~ProcessGone
    BY <1>2, <1>11, <2>2 DEF Die, SelectStore, FinishPrepare, disk
  <2> QED BY <2>1, <2>2
<1>12. CASE \/ ShowPrepare \/ startEmu \/ startTerminal \/ EmitMap \/ RenameDone \/ SelectLink
            \/ DeleteFails \/ (\E m \in Names : Delete(m)) \/ (\E m \in Names : Select(m))
            \/ UNCHANGED vars
  <2>1. UNCHANGED <<dirs, passwd, map, chosen, options, jobs, raced>>
    BY <1>12 DEF ShowPrepare, startEmu, startTerminal, EmitMap, RenameDone, SelectLink, Select,
       Delete, DeleteFails, disk, process, history, vars
  <2> QED BY <1>2, <2>1
<1>13. CASE DeleteUsers
  BY <1>13, DeleteUsersFollowed
<1> QED
  BY <1>13, <1>3, <1>4, <1>5, <1>6, <1>7, <1>8, <1>9, <1>10, <1>11, <1>12 DEF Next

(***************************************************************************)
(* The next login is as the user that was chosen last for the container,   *)
(* for any number of containers and users, while the refreshing coroutine  *)
(* of the settings and the user's own run at the same time, unless one of  *)
(* them merged an outdated map or was cancelled.                           *)
(***************************************************************************)
THEOREM ChoiceIsKept == Spec => []ChoiceKept
<1>1. Init => ChoiceInv
  <2> SUFFICES ASSUME Init PROVE ChoiceInv
    OBVIOUS
  <2>1. Listed = {} /\ jobs["refresh"].name = NoName
    BY NoneTyped DEF Init, Listed, Jobs
  <2>2. DeleteAlone
    BY NoneIsNothing DEF Init, DeleteAlone
  <2> QED BY <2>1, <2>2, KeptInit, TypedInit DEF ChoiceInv, TypeInv, OneName
<1>2. ChoiceInv /\ [Next]_vars => ChoiceInv'
  <2>1. ChoiceInv /\ [Next]_vars => TypeInv'
    BY KeptNext, TypedNext DEF ChoiceInv, TypeInv
  <2> QED BY <2>1, AloneNext, OneNameNext, RefreshNext, FollowedNext DEF ChoiceInv
<1>3. ChoiceInv => ChoiceKept
  <2> SUFFICES ASSUME ChoiceInv, ~raced, jobs["call"].pc = "none", NEW n \in Listed,
                      chosen[dirs[n]] # NoUser
               PROVE getPreferredUser(map[n], getUserInfos(n)) = chosen[dirs[n]]
    BY DEF ChoiceKept
  <2>1. map[n] = chosen[dirs[n]] /\ map[n] \in getUserInfos(n)
    BY DEF ChoiceInv, Followed, Calling, Arrived
  <2> QED BY <2>1 DEF getPreferredUser
<1> QED
  BY <1>1, <1>2, <1>3, PTL DEF Spec
-----------------------------------------------------------------------------
(* What the settings are composed from *)

\* A call ends before the next container is installed.
CallShown ==
  jobs["call"].pc # "none" => screen = "settings" \/ (screen = "prepare" /\ fresh # NoFresh)

\* The listing is that of the containers, but for users that came since.
ListingOld ==
  /\ \A n \in Listed : options[n] \subseteq getUserInfos(n)
  /\ jobs["call"].pc # "list" => \A n \in Names \ Listed : options[n] = {}

Known(n) == {NoUser} \cup getUserInfos(n)

\* Each map, stored or merged, has users of the container ...
MapsKnown ==
  /\ \A n \in Listed : map[n] \in Known(n)
  /\ \A j \in Jobs : jobs[j].pc = "write" => \A n \in Listed : jobs[j].merged[n] \in Known(n)

\* ... and, once a renaming or deletion is stored, none for a name that is not in use ...
MapsClean ==
  /\ jobs["call"].pc = "none" => \A n \in Names \ Listed : map[n] = NoUser
  /\ jobs["call"].pc = "none" /\ jobs["refresh"].pc = "write" =>
       \A n \in Names \ Listed : jobs["refresh"].merged[n] = NoUser
  /\ jobs["call"].pc = "write" => \A n \in Names \ Listed : jobs["call"].merged[n] = NoUser

\* ... and its users are among the options.
Within(x, opts) == \A n \in Names : x[n] # NoUser /\ opts[n] # {} => x[n] \in opts[n]

MapsWithin ==
  /\ Within(view, options) /\ Within(map, options)
  /\ \A j \in Jobs : jobs[j].pc = "write" => Within(jobs[j].merged, options)

Composable == ListingOld /\ MapsKnown /\ MapsClean /\ MapsWithin

ComposeInv == TypeInv /\ DeleteAlone /\ CallShown /\ (~raced /\ ~removed => Composable)

LEMMA ListComposable ==
  ASSUME TypeInv, Composable, NEW j \in Jobs, ListUsers(j), view = map PROVE Composable'
<1>1. UNCHANGED <<dirs, passwd, map, view>> /\ Listed' = Listed
      /\ options' = [n \in Names |-> IF n \in Listed THEN getUserInfos(n) ELSE {}]
  BY DEF ListUsers, Listed, disk
<1>2. \A n \in Names : getUserInfos(n)' = getUserInfos(n)
  BY <1>1, SameInfos
<1>3. /\ jobs'[j].pc = "merge" /\ jobs[j].pc = "list"
      /\ \A k \in Jobs \ {j} : jobs'[k] = jobs[k]
  BY JobSteps DEF TypeInv, ListUsers
<1>4. Listed \subseteq Names
  BY DEF Listed
<1>5. ListingOld'
  BY <1>1, <1>2, <1>4 DEF ListingOld
<1>6. MapsKnown'
  BY <1>1, <1>2, <1>3, <1>4 DEF Composable, MapsKnown, Known
<1>7. MapsClean'
  BY <1>1, <1>3 DEF Composable, MapsClean, Jobs
<1>8. \A x : (\A n \in Listed : x[n] \in Known(n)) => Within(x, options')
  BY <1>1 DEF Within, Known
<1>9. MapsWithin'
  BY <1>1, <1>3, <1>8 DEF Composable, MapsKnown, MapsWithin
<1> QED BY <1>5, <1>6, <1>7, <1>9 DEF Composable

LEMMA MergeComposable ==
  ASSUME TypeInv, Composable, NEW j \in Jobs, MergeUsers(j) PROVE Composable'
<1>1. UNCHANGED <<dirs, passwd, map, view, options>> /\ Listed' = Listed
  BY DEF MergeUsers, Listed, disk
<1>2. \A n \in Names : getUserInfos(n)' = getUserInfos(n)
  BY <1>1, SameInfos
<1>3. /\ jobs'[j].pc = "write" /\ jobs[j].pc = "merge" /\ jobs'[j].merged = Merged(j)
      /\ \A k \in Jobs \ {j} : jobs'[k] = jobs[k]
  BY JobSteps DEF TypeInv, MergeUsers
<1>4. Listed \subseteq Names
  BY DEF Listed
<1>5. /\ \A n \in Names : Merged(j)[n] = NoUser \/ Merged(j)[n] \in options[n]
      /\ \A n \in Names : options[n] = {} => Merged(j)[n] = NoUser
  BY MergedTyped DEF TypeInv
<1>6. ListingOld'
  BY <1>1, <1>2, <1>3, <1>4 DEF Composable, ListingOld, Jobs
<1>7. \A n \in Listed : Merged(j)[n] \in Known(n)
  BY <1>4, <1>5 DEF Composable, ListingOld, Known
<1>8. MapsKnown'
  BY <1>1, <1>2, <1>3, <1>4, <1>7 DEF Composable, MapsKnown, Known
<1>9. jobs["call"].pc # "list" => \A n \in Names \ Listed : Merged(j)[n] = NoUser
  BY <1>5 DEF Composable, ListingOld
<1>10. MapsClean'
  BY <1>1, <1>3, <1>9 DEF Composable, MapsClean, Jobs
<1>11. MapsWithin'
  BY <1>1, <1>3, <1>5 DEF Composable, MapsWithin, Within
<1> QED BY <1>6, <1>8, <1>10, <1>11 DEF Composable

LEMMA WriteComposable ==
  ASSUME TypeInv, Composable, NEW j \in Jobs, WriteUsers(j), \A k \in Jobs \ {j} : jobs[k].pc # "write"
  PROVE Composable'
<1>1. UNCHANGED <<dirs, passwd, view, options>> /\ Listed' = Listed /\ map' = jobs[j].merged
      /\ jobs[j].pc = "write"
  BY DEF WriteUsers, Listed
<1>2. \A n \in Names : getUserInfos(n)' = getUserInfos(n)
  BY <1>1, SameInfos
<1>3. jobs'[j].pc = "none" /\ \A k \in Jobs \ {j} : jobs'[k] = jobs[k]
  BY JobSteps, NoneTyped DEF TypeInv
<1>4. Listed \subseteq Names
  BY DEF Listed
<1>5. \A k \in Jobs : jobs'[k].pc # "write"
  BY <1>3
<1>6. ListingOld'
  BY <1>1, <1>2, <1>3, <1>4 DEF Composable, ListingOld, Jobs
<1>7. MapsKnown'
  BY <1>1, <1>2, <1>4, <1>5 DEF Composable, MapsKnown, Known
<1>8. MapsClean'
  BY <1>1, <1>3, <1>5 DEF Composable, MapsClean, Jobs
<1>9. MapsWithin'
  BY <1>1, <1>5 DEF Composable, MapsWithin
<1> QED BY <1>6, <1>7, <1>8, <1>9 DEF Composable

\* A step of the user that leaves maps and listing: users may come, a coroutine may start
\* or end, and a name is freed or taken only if the new call will merge it, or if there is
\* no call and nothing is known of it.
LEMMA OthersComposable ==
  ASSUME TypeInv, Composable, UNCHANGED <<map, options>>, view' \in {view, map},
         \A n \in Listed' : /\ n \in Listed \/ jobs["call"].pc = "none"
                            /\ n \in Listed => getUserInfos(n) \subseteq getUserInfos(n)',
         \/ jobs'["call"] = jobs["call"] /\ Listed \subseteq Listed'
         \/ jobs'["call"].pc = "list"
         \/ jobs["call"].pc = "none" /\ jobs'["call"].pc = "none" /\ Listed \subseteq Listed',
         jobs'["refresh"] = jobs["refresh"] \/ jobs'["refresh"].pc \in {"none", "list"}
  PROVE Composable'
<1>1. Listed \subseteq Names /\ Listed' \subseteq Names
  BY DEF Listed
<1>2. \A n \in Listed' \ Listed : /\ options[n] = {} /\ map[n] = NoUser
                                  /\ jobs["refresh"].pc = "write" => jobs["refresh"].merged[n] = NoUser
  BY <1>1 DEF Composable, ListingOld, MapsClean
<1>3. jobs'["call"].pc = "write" => jobs'["call"] = jobs["call"]
  OBVIOUS
<1>4. jobs'["refresh"].pc = "write" => jobs'["refresh"] = jobs["refresh"]
  OBVIOUS
<1>5. ListingOld'
  BY <1>1, <1>2 DEF Composable, ListingOld
<1>6. \A n \in Listed' : map[n] \in Known(n)'
  BY <1>1, <1>2 DEF Composable, MapsKnown, Known
<1>7. jobs'["refresh"].pc = "write" => \A n \in Listed' : jobs'["refresh"].merged[n] \in Known(n)'
  BY <1>1, <1>2, <1>4 DEF Composable, MapsKnown, Known, Jobs
<1>8. jobs'["call"].pc = "write" => \A n \in Listed' : jobs'["call"].merged[n] \in Known(n)'
  <2> SUFFICES ASSUME jobs'["call"].pc = "write", NEW n \in Listed'
               PROVE jobs'["call"].merged[n] \in Known(n)'
    OBVIOUS
  <2>1. jobs'["call"] = jobs["call"] /\ n \in Listed
    BY <1>3
  <2> QED BY <2>1 DEF Composable, MapsKnown, Known, Jobs
<1>9. MapsKnown'
  BY <1>6, <1>7, <1>8 DEF MapsKnown, Jobs
<1>10. MapsClean'
  BY <1>1, <1>3, <1>4 DEF Composable, MapsClean
<1>11. MapsWithin'
  BY <1>3, <1>4 DEF Composable, MapsWithin, Jobs
<1> QED BY <1>5, <1>9, <1>10, <1>11 DEF Composable

LEMMA GoneComposable ==
  ASSUME TypeInv, Composable, ProcessGone, UNCHANGED <<dirs, passwd, map>>, jobs["call"].pc = "none"
  PROVE Composable'
<1>1. Listed' = Listed /\ Listed \subseteq Names
  BY DEF Listed
<1>2. \A n \in Names : getUserInfos(n)' = getUserInfos(n)
  BY <1>1, SameInfos
<1>3. \A j \in Jobs : jobs'[j].pc = "none"
  BY NoneTyped DEF ProcessGone
<1>4. \A n \in Names : options'[n] = {}
  BY DEF ProcessGone
<1>5. ListingOld'
  BY <1>1, <1>4 DEF ListingOld
<1>6. MapsKnown'
  BY <1>1, <1>2, <1>3 DEF Composable, MapsKnown, Known
<1>7. MapsClean'
  BY <1>1, <1>3 DEF Composable, MapsClean, Jobs
<1>8. MapsWithin'
  BY <1>3, <1>4 DEF MapsWithin, Within
<1> QED BY <1>5, <1>6, <1>7, <1>8 DEF Composable

LEMMA PasswdComposable ==
  ASSUME TypeInv, Composable, NEW u \in Users, ChangePasswd(u), ~removed' PROVE Composable'
<1>1. UNCHANGED <<dirs, map, view, options, jobs>> /\ Listed' = Listed /\ u \notin passwd[running]
      /\ passwd' = [passwd EXCEPT ![running] = @ \cup {u}]
  BY DEF ChangePasswd, Listed, process
<1>2. \A n \in Listed : dirs[n] \in Bodies /\ n \in Names
  BY DEF TypeInv, TypeOK, Listed
<1>3. \A b \in Bodies : passwd[b] \subseteq passwd'[b]
  BY <1>1 DEF TypeInv, TypeOK
<1>4. \A n \in Listed : getUserInfos(n) \subseteq getUserInfos(n)'
  BY <1>1, <1>2, <1>3 DEF getUserInfos
<1> QED BY <1>1, <1>4, OthersComposable

LEMMA ContainersComposable ==
  ASSUME TypeInv, DeleteAlone, CallShown, Composable,
         \/ \E old, new \in Names, way \in Ways : Rename(old, new, way)
         \/ DeleteDone
         \/ \E us \in SUBSET Users : installRootfsArchive(us)
  PROVE Composable'
<1>1. ASSUME NEW old \in Names, NEW new \in Names, NEW way \in Ways, Rename(old, new, way) PROVE Composable'
  <2>1. /\ jobs["call"].pc = "none" /\ jobs'["call"].pc = "list" /\ jobs'["refresh"] = jobs["refresh"]
        /\ UNCHANGED <<passwd, map, options, view>>
        /\ \A n \in Listed' : n \notin Listed \/ dirs'[n] = dirs[n]
    BY <1>1, RenameMoves
  <2>2. \A n \in Listed' : n \in Listed => getUserInfos(n)' = getUserInfos(n)
    BY <2>1, SameInfos DEF Listed
  <2> QED BY <2>1, <2>2, OthersComposable
<1>2. CASE DeleteDone
  <2>1. /\ jobs["call"].pc = "none" /\ jobs'["call"].pc = "list" /\ jobs'["refresh"] = jobs["refresh"]
        /\ UNCHANGED <<passwd, map, options, view>>
        /\ \A n \in Listed' : n \in Listed /\ dirs'[n] = dirs[n]
    BY <1>2, DeleteLeaves
  <2>2. \A n \in Listed' : getUserInfos(n)' = getUserInfos(n)
    BY <2>1, SameInfos DEF Listed
  <2> QED BY <2>1, <2>2, OthersComposable
<1>3. ASSUME NEW us \in SUBSET Users, installRootfsArchive(us) PROVE Composable'
  <2>1. UNCHANGED <<map, options, view, jobs>> /\ Listed \subseteq Listed'
        /\ \A n \in Listed : dirs'[n] = dirs[n] /\ passwd'[dirs[n]] = passwd[dirs[n]]
    BY <1>3, InstallAdds
  <2>2. jobs["call"].pc = "none"
    BY <1>3 DEF CallShown, installRootfsArchive
  <2>3. \A n \in Listed : getUserInfos(n)' = getUserInfos(n)
    BY <2>1, SameInfos DEF Listed
  <2> QED BY <2>1, <2>2, <2>3, OthersComposable
<1> QED BY <1>1, <1>2, <1>3

\* The steps that leave the containers and all maps, or start or end a coroutine.
LEMMA ScreensComposable ==
  ASSUME TypeInv, Composable, ~raced',
         \/ ShowPrepare \/ startEmu \/ startTerminal \/ EmitMap \/ ShowSettings
         \/ \E to \in {"main", "prepare"} : LeaveSettings(to)
         \/ \E n \in Names, u \in Users \cup {Root} : ChooseUser(n, u)
         \/ \E n \in Names : Delete(n) \/ Select(n)
         \/ DeleteFails \/ RenameDone \/ SelectLink \/ UNCHANGED vars
  PROVE Composable'
<1>1. UNCHANGED <<dirs, passwd, map, options>> /\ view' \in {view, map}
  BY DEF ShowPrepare, startEmu, startTerminal, EmitMap, ShowSettings, LeaveSettings, ChooseUser, Select,
         Delete, DeleteFails, RenameDone, SelectLink, disk, process, vars
<1>2. Listed' = Listed
  BY <1>1 DEF Listed
<1>3. \A n \in Listed : getUserInfos(n)' = getUserInfos(n)
  BY <1>1, <1>2, SameInfos DEF Listed
<1>4. /\ \/ jobs'["call"] = jobs["call"]
         \/ jobs'["call"].pc = "list"
         \/ jobs["call"].pc = "none" /\ jobs'["call"].pc = "none"
      /\ jobs'["refresh"] = jobs["refresh"] \/ jobs'["refresh"].pc \in {"none", "list"}
  <2>1. CASE ShowSettings
    BY <2>1, JobStarts DEF ShowSettings, TypeInv, Jobs, Accounts
  <2>2. ASSUME NEW to \in {"main", "prepare"}, LeaveSettings(to)
        PROVE jobs'["refresh"] = jobs["refresh"] /\ jobs["call"].pc = "none" /\ jobs'["call"].pc = "none"
    BY <2>2, NoneTyped DEF LeaveSettings, TypeInv, Records, Jobs
  <2>3. ASSUME NEW n \in Names, NEW u \in Users \cup {Root}, ChooseUser(n, u)
        PROVE jobs'["refresh"] = jobs["refresh"] /\ jobs'["call"].pc = "list"
    BY <2>3, JobStarts DEF ChooseUser, TypeInv, Jobs, Accounts
  <2>4. CASE UNCHANGED jobs
    BY <2>4
  <2> QED BY <2>1, <2>2, <2>3, <2>4 DEF ShowPrepare, startEmu, startTerminal, EmitMap, Select,
         Delete, DeleteFails, RenameDone, SelectLink, process, vars
<1> QED BY <1>1, <1>2, <1>3, <1>4, OthersComposable

LEMMA ComposableNext ==
  ASSUME ComposeInv, [Next]_vars, ~raced', ~removed' PROVE Composable'
<1>1. raced \in BOOLEAN /\ removed \in BOOLEAN
  BY DEF ComposeInv, TypeInv, Records
<1>2. ASSUME Composable, Die \/ SelectStore \/ \E c \in BOOLEAN : FinishPrepare(c) PROVE Composable'
  <2>1. CASE ProcessGone
    <3>1. UNCHANGED <<dirs, passwd, map>> /\ jobs["call"].pc = "none"
      BY <1>2, <2>1 DEF Die, SelectStore, FinishPrepare, ProcessGone, disk
    <3> QED BY <1>2, <2>1, <3>1, GoneComposable DEF ComposeInv
  <2>2. CASE ~ProcessGone
    <3>1. UNCHANGED <<dirs, passwd, map, view, options, jobs>>
      BY <1>2, <2>2 DEF Die, SelectStore, FinishPrepare, disk
    <3>2. Listed' = Listed
      BY <3>1 DEF Listed
    <3>3. \A n \in Listed : getUserInfos(n)' = getUserInfos(n)
      BY <3>1, <3>2, SameInfos DEF Listed
    <3> QED BY <1>2, <3>1, <3>2, <3>3, OthersComposable DEF ComposeInv
  <2> QED BY <2>1, <2>2
<1>3. ASSUME Composable, NEW j \in Jobs, ListUsers(j) \/ MergeUsers(j) \/ WriteUsers(j) PROVE Composable'
  <2>1. CASE ListUsers(j)
    BY <1>3, <2>1, ListComposable DEF ComposeInv, ListUsers
  <2>2. CASE MergeUsers(j)
    BY <1>3, <2>2, MergeComposable DEF ComposeInv
  <2>3. CASE WriteUsers(j)
    BY <1>3, <2>3, WriteComposable DEF ComposeInv, WriteUsers
  <2> QED BY <1>3, <2>1, <2>2, <2>3
<1>4. raced => raced'
  <2>1. ProcessGone => (raced => raced')
    BY Zenon DEF ProcessGone
  <2>2. CASE UNCHANGED raced
    BY <2>2
  <2>3. ASSUME NEW j \in Jobs, ListUsers(j) \/ MergeUsers(j) \/ WriteUsers(j) PROVE raced => raced'
    BY <2>3, Zenon DEF ListUsers, MergeUsers, WriteUsers
  <2>4. ASSUME NEW to \in {"main", "prepare"}, LeaveSettings(to) PROVE raced => raced'
    BY <2>4, Zenon DEF LeaveSettings
  <2> QED BY <2>1, <2>2, <2>3, <2>4 DEF Next, Die, ShowPrepare, startEmu, startTerminal, ChangePasswd,
     EmitMap, ShowSettings, ChooseUser, Rename, Delete, DeleteUsers, DeleteDone, DeleteFails, Select, RenameDone, SelectLink, SelectStore,
     installRootfsArchive, FinishPrepare, history, vars
<1>5. (removed => removed') /\ ~DeleteUsers
  <2>1. ASSUME NEW u \in Users, ChangePasswd(u) PROVE removed => removed'
    BY <2>1, Zenon DEF ChangePasswd
  <2>3. ~DeleteUsers
    BY DEF DeleteUsers
  <2>2. CASE UNCHANGED removed
    BY <2>2, <2>3
  <2> QED BY <2>1, <2>2, <2>3 DEF Next, Die, ShowPrepare, startEmu, startTerminal, ListUsers, MergeUsers,
     WriteUsers, EmitMap, ShowSettings, LeaveSettings, ChooseUser, Rename, Delete, DeleteDone, DeleteFails, Select, RenameDone,
     SelectLink, SelectStore, installRootfsArchive, FinishPrepare, history, vars
<1>6. Composable
  BY <1>4, <1>5 DEF ComposeInv
<1>7. ASSUME NEW u \in Users, ChangePasswd(u) PROVE Composable'
  BY <1>6, <1>7, PasswdComposable DEF ComposeInv
<1> QED
  BY <1>2, <1>3, <1>5, <1>6, <1>7, ScreensComposable, ContainersComposable DEF Next, ComposeInv

LEMMA CallShownNext == ComposeInv /\ [Next]_vars => CallShown'
<1> SUFFICES ASSUME ComposeInv, [Next]_vars, jobs'["call"].pc # "none"
             PROVE screen' = "settings" \/ (screen' = "prepare" /\ fresh' # NoFresh)
  BY DEF CallShown
<1>1. ~ProcessGone
  BY NoneTyped DEF ProcessGone, Jobs
<1>2. CASE jobs["call"].pc # "none" /\ UNCHANGED <<screen, fresh>>
  BY <1>2 DEF ComposeInv, CallShown
<1>3. ASSUME NEW j \in Jobs, ListUsers(j) \/ MergeUsers(j) \/ WriteUsers(j)
      PROVE jobs["call"].pc # "none" /\ UNCHANGED <<screen, fresh>>
  <2>1. CASE j = "call"
    BY <1>3, <2>1 DEF ListUsers, MergeUsers, WriteUsers
  <2>2. CASE j # "call"
    BY <1>3, <2>2, JobSteps DEF ListUsers, MergeUsers, WriteUsers, ComposeInv, TypeInv, Jobs
  <2> QED BY <2>1, <2>2
<1>4. CASE ShowSettings
  BY <1>4 DEF ShowSettings
<1>5. ASSUME NEW to \in {"main", "prepare"}, LeaveSettings(to) PROVE FALSE
  BY <1>5, NoneTyped DEF LeaveSettings, ComposeInv, TypeInv, Records, Jobs
<1>6. ASSUME NEW n \in Names, NEW u \in Users \cup {Root}, ChooseUser(n, u)
      PROVE screen' = "settings" \/ (screen' = "prepare" /\ fresh' # NoFresh)
  BY <1>6, NoneIsNothing DEF ChooseUser, Shown
<1>7. ASSUME NEW old \in Names, NEW new \in Names, NEW way \in Ways, Rename(old, new, way)
      PROVE screen' = "settings" \/ (screen' = "prepare" /\ fresh' # NoFresh)
  <2>1. /\ screen' = screen /\ (screen = "settings" \/ (screen = "prepare" /\ old = fresh.name))
        /\ fresh' = fresh \/ fresh' = [fresh EXCEPT !.renamed = TRUE]
    BY <1>7, RenameIs DEF ComposeInv, TypeInv
  <2>2. fresh'.name = fresh.name
    BY <2>1 DEF ComposeInv, TypeInv, IInv, Shapes
  <2> QED BY <2>1, <2>2, NoneIsNothing
<1>8. CASE DeleteDone
  BY <1>8 DEF DeleteDone, ComposeInv, TypeInv, IInv
<1>9. CASE ShowPrepare \/ startEmu \/ startTerminal
  BY <1>9 DEF ShowPrepare, startEmu, startTerminal, ComposeInv, CallShown
<1>10. CASE \E us \in SUBSET Users : installRootfsArchive(us)
  BY <1>10 DEF installRootfsArchive, ComposeInv, CallShown
<1>11. CASE UNCHANGED <<screen, fresh, jobs>>
  BY <1>11 DEF ComposeInv, CallShown
<1> QED
  BY <1>1, <1>2, <1>3, <1>4, <1>5, <1>6, <1>7, <1>8, <1>9, <1>10, <1>11 DEF Next, Die, ChangePasswd,
     EmitMap, Delete, DeleteUsers, DeleteFails, Select, RenameDone, SelectLink, SelectStore, FinishPrepare,
     process, vars

(***************************************************************************)
(* The row of a container is never composed from a login user that is not  *)
(* among its options, for any number of containers and users: the map and  *)
(* the listing are refreshed apart, by two coroutines, while containers    *)
(* are installed, renamed and deleted, and still agree unless a user was   *)
(* removed, a deletion is seen half done or fails in between, or a map was *)
(* outdated or lost.                                                       *)
(***************************************************************************)
THEOREM SettingsAreComposable == Spec => []SettingsComposable
<1>1. Init => ComposeInv
  <2> SUFFICES ASSUME Init PROVE ComposeInv
    OBVIOUS
  <2>1. /\ Listed = {} /\ \A j \in Jobs : jobs[j].pc = "none"
        /\ \A n \in Names : map[n] = NoUser /\ view[n] = NoUser /\ options[n] = {}
    BY NoneTyped DEF Init, Listed, NoMap
  <2>2. Composable
    BY <2>1 DEF Composable, ListingOld, MapsKnown, MapsClean, MapsWithin, Within, Jobs
  <2>3. CallShown
    BY <2>1 DEF CallShown, Jobs
  <2>4. DeleteAlone
    BY NoneIsNothing DEF Init, DeleteAlone
  <2> QED BY <2>2, <2>3, <2>4, KeptInit, TypedInit DEF ComposeInv, TypeInv
<1>2. ComposeInv /\ [Next]_vars => ComposeInv'
  <2>1. ComposeInv /\ [Next]_vars => TypeInv'
    BY KeptNext, TypedNext DEF ComposeInv, TypeInv
  <2> QED BY <2>1, AloneNext, CallShownNext, ComposableNext DEF ComposeInv
<1>3. ComposeInv => SettingsComposable
  BY DEF ComposeInv, Composable, MapsWithin, Within, SettingsComposable, Shown
<1> QED
  BY <1>1, <1>2, <1>3, PTL DEF Spec
=============================================================================
