------------------------------- MODULE Rootfs -------------------------------
(***************************************************************************)
(* The containers (rootfs directories) of the app: which one is started,   *)
(* as which user, and how the settings and preparation screens install,    *)
(* rename, delete and select them (SettingViewModel.kt, Utils.kt,          *)
(* ProotRootfs.kt, PrepareScreen.kt, GeneralSettings.kt, MainEmuActivity). *)
(*                                                                         *)
(* What survives the process is on disk: the directories with their        *)
(* /etc/passwd, the link "current" and two entries of the DataStore, the   *)
(* selected name and the login users.  The process keeps copies: the state *)
(* flow generalState (view), which follows the DataStore only while the    *)
(* settings are shown, and the listing rootfsUsersOptions (options).       *)
(* onChangeRootfsLoginUser lists, merges with view and writes, as a        *)
(* coroutine, and the process may die between any two steps.               *)
(*                                                                         *)
(* A name is a number, a container is known by what is in it (body), a     *)
(* user by the place of the name in the sorted list.  What is typed for a  *)
(* new name may be a path, of which makeCurrent keeps the last component.  *)
(***************************************************************************)
EXTENDS Integers, FiniteSetsExt

CONSTANTS MaxNames,    \* names of containers
          MaxBodies,   \* containers at a time
          MaxUsers,    \* users besides root
          MaxOps       \* bound on what the user does

ASSUME BoundsAssumption == {MaxNames, MaxBodies, MaxUsers, MaxOps} \subseteq Nat

Names == 1..MaxNames
NoName == 0
Path == MaxNames + 1       \* a path with a slash, which is no name in the list
Bodies == 1..MaxBodies
NoBody == 0
Users == 1..MaxUsers
Root == 0
NoUser == -1               \* no entry
Stub == -2                 \* "stub", the name of nobody

VARIABLES
  (* on disk *)
  dirs,      \* the container under each name
  passwd,    \* the users of each container
  link,      \* the target of rootfsCurrDir, which may be missing
  stored,    \* curr_rootfs_name
  map,       \* rootfs_login_user_json
  (* in the process *)
  screen,    \* what is shown
  running,   \* the container that proot runs
  view,      \* the map in generalState.value
  options,   \* rootfsUsersOptions
  jobs,      \* coroutines in onChangeRootfsLoginUser
  fresh,     \* what RootfsSelect has installed
  op,        \* the dialog's or button's action in progress
  (* history *)
  wish,      \* the container selected last; before that, the one started first
  mislaid,   \* may the stored name be another than that container's?
  chosen,    \* the login user chosen for each container since it got its name
  raced,     \* has onChangeRootfsLoginUser worked on an outdated map, or been cancelled?
  removed,   \* has a container lost a user: in it, or to a deletion that is not done?
  ops

disk == <<dirs, passwd, link, stored, map>>
process == <<screen, running, view, options, jobs, fresh, op>>
history == <<wish, mislaid, chosen, raced, removed, ops>>
vars == <<disk, process, history>>

Jobs == {"refresh", "call"}   \* of updateValuesWhenEnterSettings, of the user
NoMap == [n \in Names |-> NoUser]
NoJob == [pc |-> "none", name |-> NoName, user |-> NoUser, merged |-> NoMap]
NoFresh == [name |-> NoName, body |-> NoBody, renamed |-> FALSE]
NoOp == [kind |-> "none", name |-> NoName, link |-> NoName, body |-> NoBody]

Init ==
  /\ dirs = [n \in Names |-> NoBody]
  /\ passwd = [b \in Bodies |-> {}]
  /\ link = NoName /\ stored = NoName /\ map = NoMap
  /\ screen = "off" /\ running = NoBody
  /\ view = NoMap /\ options = [n \in Names |-> {}]
  /\ jobs = [j \in Jobs |-> NoJob]
  /\ fresh = NoFresh /\ op = NoOp
  /\ wish = NoBody /\ mislaid = FALSE /\ chosen = [b \in Bodies |-> NoUser]
  /\ raced = FALSE /\ removed = FALSE
  /\ ops = 0
-----------------------------------------------------------------------------
(* Utils.Rootfs and ProotRootfs *)

\* rootfsAllDir.list() without the link
Listed == {n \in Names : dirs[n] # NoBody}

\* rootfsCurrDir.canonicalFile.name, which is "current" if the target is missing
Current == IF link \in Listed THEN link ELSE NoName

\* getUserInfos: root is always there, also if there is no /etc/passwd.
getUserInfos(n) == {Root} \cup (IF n \in Listed THEN passwd[dirs[n]] ELSE {})

getPreferredUser(last, all) ==
  IF last \in all THEN last ELSE IF all = {Root} THEN Root ELSE Min(all \ {Root})

\* Mutant: the link is trusted more than the stored name.
SelectedByLink ==
  IF Current # NoName THEN {Current} ELSE IF stored \in Listed THEN {stored} ELSE Listed

\* getSelectedRootfs: the stored name, or any if that is gone
getSelectedRootfs == IF stored \in Listed THEN {stored} ELSE Listed

\* The names that installRootfsArchive may use: the one in the archive with its number, or
\* the next that is free.
FreeName(n) == n \notin Listed
-----------------------------------------------------------------------------
(* The process *)

ProcessGone ==
  /\ screen' = "off" /\ running' = NoBody
  /\ view' = NoMap /\ options' = [n \in Names |-> {}]
  /\ jobs' = [j \in Jobs |-> NoJob]
  /\ fresh' = NoFresh /\ op' = NoOp
  /\ raced' = (raced \/ jobs["call"].pc # "none")

\* The process is killed; onDestroy ends it too.
Die ==
  /\ screen # "off"
  /\ ProcessGone
  /\ UNCHANGED <<disk, wish, mislaid, chosen, removed, ops>>

\* PrepareViewModel.updateState finds no container.
ShowPrepare ==
  /\ screen = "off" /\ Listed = {}
  /\ screen' = "prepare"
  /\ UNCHANGED <<disk, running, view, options, jobs, fresh, op, history>>

\* startEmu: the first half of makeCurrent ...
startEmu ==
  /\ screen = "off"
  /\ link' \in getSelectedRootfs
  /\ screen' = "starting"
  /\ UNCHANGED <<dirs, passwd, stored, map, running, view, options, jobs, fresh, op, history>>

\* ... the second, and startTerminal with Proot.attach
startTerminal ==
  /\ screen = "starting"
  /\ stored' = link
  /\ running' = dirs[link]
  /\ wish' = IF wish = NoBody THEN dirs[link] ELSE wish
  /\ screen' = "main"
  /\ UNCHANGED <<dirs, passwd, link, map, view, options, jobs, fresh, op, mislaid, chosen, raced,
                 removed, ops>>

\* useradd and userdel in the container
ChangePasswd(u) ==
  /\ running # NoBody
  /\ ops < MaxOps /\ ops' = ops + 1
  /\ LET gone == u \in passwd[running] IN
       /\ passwd' = [passwd EXCEPT ![running] = IF gone THEN @ \ {u} ELSE @ \cup {u}]
       /\ chosen' = [chosen EXCEPT ![running] = IF gone /\ @ = u THEN NoUser ELSE @]
       /\ removed' = (removed \/ gone)
  /\ UNCHANGED <<dirs, link, stored, map, process, wish, mislaid, raced>>
-----------------------------------------------------------------------------
(* onChangeRootfsLoginUser *)

StartJob(j, n, u) == jobs' = [jobs EXCEPT ![j] = [NoJob EXCEPT !.pc = "list", !.name = n, !.user = u]]

\* getRootfsUsersOptions
ListUsers(j) ==
  /\ jobs[j].pc = "list"
  /\ options' = [n \in Names |-> IF n \in Listed THEN getUserInfos(n) ELSE {}]
  /\ jobs' = [jobs EXCEPT ![j].pc = "merge"]
  /\ raced' = (raced \/ view # map)
  /\ UNCHANGED <<disk, screen, running, view, fresh, op, wish, mislaid, chosen, removed, ops>>

\* Mutants: the containers that exist are not looked at; the others are forgotten.
MergedUnfiltered(j) == [n \in Names |-> IF n = jobs[j].name THEN jobs[j].user ELSE view[n]]
MergedAlone(j) ==
  [n \in Names |->
     IF options[n] = {} THEN NoUser
     ELSE getPreferredUser(IF n = jobs[j].name THEN jobs[j].user ELSE NoUser, options[n])]

Merged(j) ==
  [n \in Names |->
     IF options[n] = {} THEN NoUser
     ELSE getPreferredUser(IF n = jobs[j].name THEN jobs[j].user ELSE view[n], options[n])]

MergeUsers(j) ==
  /\ jobs[j].pc = "merge"
  /\ jobs' = [jobs EXCEPT ![j].pc = "write", ![j].merged = Merged(j)]
  /\ raced' = (raced \/ view # map)
  /\ UNCHANGED <<disk, screen, running, view, options, fresh, op, wish, mislaid, chosen, removed, ops>>

\* editDateStore.  A map merged by another coroutine meanwhile is outdated.
WriteUsers(j) ==
  /\ jobs[j].pc = "write"
  /\ map' = jobs[j].merged
  /\ jobs' = [jobs EXCEPT ![j] = NoJob]
  /\ raced' = (raced \/ \E k \in Jobs \ {j} : jobs[k].pc = "write")
  /\ UNCHANGED <<dirs, passwd, link, stored, screen, running, view, options, fresh, op, wish,
                 mislaid, chosen, removed, ops>>

\* generalState is collected by the settings, and up to five seconds longer.
EmitMap ==
  /\ screen = "settings" \/ (screen = "prepare" /\ running # NoBody)
  /\ view # map
  /\ view' = map
  /\ UNCHANGED <<disk, screen, running, options, jobs, fresh, op, history>>
-----------------------------------------------------------------------------
(* Settings *)

Ready == op = NoOp /\ jobs["call"].pc = "none" /\ ops < MaxOps

\* SettingScreen is composed, for the first time or again: updateValuesWhenEnterSettings.
ShowSettings ==
  /\ screen \in {"main", "settings"}
  /\ jobs["refresh"].pc = "none"
  /\ screen' = "settings"
  /\ StartJob("refresh", NoName, NoUser)
  /\ UNCHANGED <<disk, running, view, options, fresh, op, history>>

\* The user goes elsewhere, which cancels what the screen's scope has launched, or to the
\* preparation screen to add a container.
LeaveSettings(to) ==
  /\ screen = "settings" /\ op = NoOp
  /\ screen' = to
  /\ jobs' = [jobs EXCEPT !["call"] = NoJob]
  /\ raced' = (raced \/ jobs["call"].pc # "none")
  /\ UNCHANGED <<disk, running, view, options, fresh, op, wish, mislaid, chosen, removed, ops>>

\* A row is shown once both maps have it.
Shown(n) == screen = "settings" /\ options[n] # {} /\ view[n] # NoUser

ChooseUser(n, u) ==
  /\ Ready
  /\ \/ Shown(n)
     \/ screen = "prepare" /\ n = fresh.name /\ getUserInfos(n) # {Root}
  /\ n \in Listed /\ u \in getUserInfos(n)
  /\ StartJob("call", n, u)
  /\ chosen' = [chosen EXCEPT ![dirs[n]] = u]
  /\ ops' = ops + 1
  /\ UNCHANGED <<disk, screen, running, view, options, fresh, op, wish, mislaid, raced, removed>>

\* How a new name is typed: as it is, as a path to it ("./b"), as a path to another directory
\* ("../b", "a/b") or as one whose parent is missing ("x/b").  Only blanks are filtered.
Ways == {"plain", "respelled", "away", "nowhere"}

\* onChangeRootfsName, EDIT: what exists is refused, a failing renameTo is not noticed.
\* The users are stored under what was typed, for which there is no choice yet.
Rename(old, new, way) ==
  /\ Ready
  /\ \/ Shown(old) /\ old \in Listed
     \/ screen = "prepare" /\ old = fresh.name
  /\ way = "plain" => new # old
  /\ way \in {"plain", "respelled"} => new \notin Listed
  /\ LET key == IF way = "plain" THEN new ELSE Path
         moved == old \in Listed /\ way # "nowhere"
         inUse == screen = "settings" /\ old = Current
     IN  /\ IF moved
            THEN /\ dirs' = [n \in Names |-> IF n = old THEN NoBody
                                            ELSE IF n = new /\ way # "away" THEN dirs[old] ELSE dirs[n]]
                 /\ chosen' = [chosen EXCEPT ![dirs[old]] = NoUser]
                 /\ StartJob("call", key, getPreferredUser(IF key = new THEN map[new] ELSE NoUser,
                                                           getUserInfos(old)))
            ELSE /\ StartJob("call", key, Root)
                 /\ UNCHANGED <<dirs, chosen>>
         /\ op' = [kind |-> IF inUse THEN "then select" ELSE "wait", name |-> new,
                   link |-> IF way \in {"plain", "respelled"} THEN new ELSE Path, body |-> dirs[old]]
         /\ fresh' = IF moved /\ screen = "prepare" THEN [fresh EXCEPT !.renamed = TRUE] ELSE fresh
         /\ mislaid' = (mislaid \/ (moved /\ inUse))
  /\ ops' = ops + 1
  /\ UNCHANGED <<passwd, link, stored, map, screen, running, view, options, wish, raced, removed>>

\* Mutant: the container in use is not refused.
DeleteAny(n) ==
  /\ Ready
  /\ Shown(n) /\ n \in Listed
  /\ op' = [NoOp EXCEPT !.kind = "delete", !.name = n]
  /\ ops' = ops + 1
  /\ UNCHANGED <<disk, screen, running, view, options, jobs, fresh, wish, mislaid, chosen, raced, removed>>

\* onChangeRootfsName, DEL: rm -r is started ...
Delete(n) ==
  /\ Ready
  /\ Shown(n) /\ n \in Listed
  /\ n # Current
  /\ op' = [NoOp EXCEPT !.kind = "delete", !.name = n]
  /\ ops' = ops + 1
  /\ UNCHANGED <<disk, screen, running, view, options, jobs, fresh, wish, mislaid, chosen, raced, removed>>

\* ... it has come to /etc/passwd; the directory is still listed ...
DeleteUsers ==
  /\ op.kind = "delete"
  /\ LET b == dirs[op.name] IN
       /\ passwd[b] # {}
       /\ passwd' = [passwd EXCEPT ![b] = {}]
       /\ chosen' = [chosen EXCEPT ![b] = NoUser]
  /\ removed' = TRUE
  /\ UNCHANGED <<dirs, link, stored, map, process, wish, mislaid, raced, ops>>

\* ... it is done and the container's login user is dropped ...
DeleteDone ==
  /\ op.kind = "delete"
  /\ dirs' = [dirs EXCEPT ![op.name] = NoBody]
  /\ StartJob("call", op.name, Stub)
  /\ op' = [NoOp EXCEPT !.kind = "wait"]
  /\ UNCHANGED <<passwd, link, stored, map, screen, running, view, options, fresh, history>>

\* ... or it has printed an error, which is thrown, and what it has not removed stays.
DeleteFails ==
  /\ op.kind = "delete"
  /\ op' = NoOp
  /\ UNCHANGED <<disk, screen, running, view, options, jobs, fresh, history>>

\* onChangeRootfsSelect, from the list ...
Select(n) ==
  /\ Ready
  /\ Shown(n) /\ n \in Listed /\ n # Current
  /\ op' = [kind |-> "select", name |-> n, link |-> n, body |-> dirs[n]]
  /\ ops' = ops + 1
  /\ UNCHANGED <<disk, screen, running, view, options, jobs, fresh, wish, mislaid, chosen, raced, removed>>

\* ... or after the container in use was renamed; other renames and deletions are done.
RenameDone ==
  /\ op.kind \in {"wait", "then select"} /\ jobs["call"].pc = "none"
  /\ op' = IF op.kind = "wait" THEN NoOp ELSE [op EXCEPT !.kind = "select"]
  /\ UNCHANGED <<disk, screen, running, view, options, jobs, fresh, history>>

\* stopTerminal, then makeCurrent: first the link ...
SelectLink ==
  /\ op.kind = "select"
  /\ running' = NoBody
  /\ link' = op.link
  /\ op' = [op EXCEPT !.kind = "selected"]
  /\ UNCHANGED <<dirs, passwd, stored, map, screen, view, options, jobs, fresh, history>>

\* ... then the stored name, rootfsDir.name; the activity finishes.
SelectStore ==
  /\ op.kind = "selected"
  /\ stored' = op.name
  /\ wish' = op.body
  /\ mislaid' = (op.link = Path \/ fresh.renamed)
  /\ ProcessGone
  /\ UNCHANGED <<dirs, passwd, link, map, chosen, removed, ops>>
-----------------------------------------------------------------------------
(* Preparation: RootfsSelect *)

\* installRootfsArchive moves the extracted container to a name that is not in use.
installRootfsArchive(us) ==
  /\ screen = "prepare" /\ fresh = NoFresh
  /\ ops < MaxOps /\ ops' = ops + 1
  /\ \E n \in Names, b \in Bodies \ {dirs[m] : m \in Names} :
       /\ FreeName(n)
       /\ \A c \in 1..(b - 1) : \E m \in Names : dirs[m] = c
       /\ dirs' = [dirs EXCEPT ![n] = b]
       /\ passwd' = [passwd EXCEPT ![b] = us]
       /\ chosen' = [chosen EXCEPT ![b] = NoUser]
       /\ fresh' = [name |-> n, body |-> b, renamed |-> FALSE]
  /\ UNCHANGED <<link, stored, map, screen, running, view, options, jobs, op, wish, mislaid, raced, removed>>

\* The button "done": isSetCurrent runs the container on the next start.  rootfsName is
\* still the name before any renaming.
FinishPrepare(isSetCurrent) ==
  /\ screen = "prepare" /\ fresh # NoFresh /\ op = NoOp
  /\ IF isSetCurrent
     THEN /\ op' = [kind |-> "select", name |-> fresh.name, link |-> fresh.name, body |-> fresh.body]
          /\ UNCHANGED <<screen, running, view, options, jobs, fresh, raced>>
     ELSE ProcessGone
  /\ UNCHANGED <<disk, wish, mislaid, chosen, removed, ops>>
-----------------------------------------------------------------------------
Next ==
  \/ Die \/ ShowPrepare \/ startEmu \/ startTerminal
  \/ \E u \in Users : ChangePasswd(u)
  \/ \E j \in Jobs : ListUsers(j) \/ MergeUsers(j) \/ WriteUsers(j)
  \/ EmitMap
  \/ ShowSettings \/ \E to \in {"main", "prepare"} : LeaveSettings(to)
  \/ \E n \in Names, u \in Users \cup {Root} : ChooseUser(n, u)
  \/ \E old, new \in Names, way \in Ways : Rename(old, new, way)
  \/ \E n \in Names : Delete(n) \/ Select(n)
  \/ DeleteUsers \/ DeleteDone \/ DeleteFails
  \/ RenameDone \/ SelectLink \/ SelectStore
  \/ \E us \in SUBSET Users : installRootfsArchive(us)
  \/ \E isSetCurrent \in BOOLEAN : FinishPrepare(isSetCurrent)

Spec == Init /\ [][Next]_vars
-----------------------------------------------------------------------------
(* Properties *)

TypeOK ==
  /\ dirs \in [Names -> Bodies \cup {NoBody}]
  /\ passwd \in [Bodies -> SUBSET Users]
  /\ link \in Names \cup {NoName, Path} /\ stored \in Names \cup {NoName}
  /\ {map, view} \subseteq [Names -> Users \cup {Root, NoUser}]
  /\ screen \in {"off", "prepare", "starting", "main", "settings"}
  /\ {running, wish} \subseteq Bodies \cup {NoBody}
  /\ options \in [Names -> SUBSET (Users \cup {Root})]
  /\ \A j \in Jobs :
       /\ jobs[j].pc \in {"none", "list", "merge", "write"}
       /\ jobs[j].merged \in [Names -> Users \cup {Root, NoUser}]
  /\ op.kind \in {"none", "wait", "then select", "select", "selected", "delete"}
  /\ chosen \in [Bodies -> Users \cup {Root, NoUser}]
  /\ ops \in 0..MaxOps

(* The container that runs is the one that was selected last, wherever the  *)
(* process died in between and whatever was renamed, deleted or installed   *)
(* since: the stored name decides.  Not so if that name was mislaid, until  *)
(* the next selection: the process died after the container in use was      *)
(* renamed and before it was selected under its new name, what was typed    *)
(* for its new name is a path to another or to no directory, or it was      *)
(* renamed on the preparation screen and then selected there.               *)
StartsSelected == running # NoBody /\ ~mislaid => running = wish

(* The container in use is never deleted under proot: "该Rootfs当前正在运行，*)
(* 无法删除" rests on a link that renaming and selecting change.  It is in   *)
(* the list, or the rename in progress has just moved it out.               *)
RunningKept == running # NoBody => running \in {dirs[n] : n \in Listed} \cup {op.body}

(* The next login is as the user that was chosen for the container, unless  *)
(* it was renamed since, a login user was merged into an outdated map, or   *)
(* the screen was left before the choice was stored.                        *)
ChoiceKept ==
  ~raced /\ jobs["call"].pc = "none" =>
    \A n \in Listed :
      chosen[dirs[n]] # NoUser => getPreferredUser(map[n], getUserInfos(n)) = chosen[dirs[n]]

(* The settings are composed from two states that are refreshed apart; they *)
(* throw when a login user is not among the options ("请确保传入的           *)
(* loginUsersOptions包含userName").  It takes a user removed in a container, *)
(* a deletion that is seen half done or fails there, or a lost or outdated  *)
(* map whose names are used again.                                          *)
SettingsComposable ==
  \A n \in Names : Shown(n) /\ ~removed /\ ~raced => view[n] \in options[n]
=============================================================================
