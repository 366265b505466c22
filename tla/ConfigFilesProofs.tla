-------------------------- MODULE ConfigFilesProofs --------------------------
(***************************************************************************)
(* Theorems about ConfigFiles, for any workers, packages and settings and   *)
(* any faults: the two lists are kept as KeptLists says, and a changed      *)
(* black list is announced; and, with one saver, whole seconds and nobody   *)
(* editing freeze.conf under the running daemon, settings are kept.         *)
(***************************************************************************)
EXTENDS ConfigFiles, TLAPS

\* What a request names is of Posted, and of the type of its values.
LEMMA ReplacedIsSettings ==
  ASSUME NEW s \in Settings, NEW named \in Bodies
  PROVE  Replaced(s, named) \in Settings
<1>1. PICK keys \in SUBSET Posted : named \in [keys -> Values]
  BY DEF Bodies
<1>2. \A k \in Keys : Replaced(s, named)[k] \in Values
  BY <1>1 DEF Replaced, Settings
<1> QED BY <1>2 DEF Replaced, Settings

LEMMA NothingNamed == NoBody \in Bodies
<1>1. NoBody \in [{} -> Values]
  BY DEF NoBody
<1> QED BY <1>1 DEF Bodies

(***************************************************************************)
(* Types                                                                    *)
(***************************************************************************)
\* Every reachable state has the declared types; cfg and config_ always have all
\* keys, whatever a request names.
THEOREM ConfigTypes == Spec => []TypeOK
<1> USE DEF TypeOK
<1>1. Init => TypeOK
  <2> SUFFICES ASSUME Init PROVE TypeOK
    OBVIOUS
  <2>1. Defaults \in Settings
    BY KeysAssumption DEF Settings
  <2>2. body \in [Workers -> Bodies] /\ cfg \in [Workers -> Settings]
    BY <2>1, NothingNamed DEF Init
  <2>3. lists \in [Lists -> SUBSET Pkgs] /\ listFile \in [Lists -> SUBSET Pkgs]
    BY DEF Init, NoLists
  <2> QED BY <2>1, <2>2, <2>3 DEF Init
<1>2. TypeOK /\ [Next]_vars => TypeOK'
  <2> SUFFICES ASSUME TypeOK, [Next]_vars PROVE TypeOK'
    OBVIOUS
  <2>1. ASSUME NEW w \in Workers, NEW e \in Edits, EditOpen(w, e) PROVE TypeOK'
    <3>1. e.list \in Lists /\ Edited(lists[e.list], e) \in SUBSET Pkgs
      BY DEF Edits, Edited
    <3> QED BY <2>1, <3>1 DEF EditOpen, configVars
  <2>2. ASSUME NEW w \in Workers, EditClose(w) PROVE TypeOK'
    BY <2>2 DEF EditClose, configVars
  <2>3. ASSUME NEW w \in Workers, Mark(w) PROVE TypeOK'
    BY <2>3 DEF Mark, configVars
  <2>4. ASSUME NEW w \in Workers, NEW posted \in Bodies, Get(w, posted) PROVE TypeOK'
    <3> DEFINE base == [k \in Keys |-> IF k \in Seconds THEN InSeconds(config[k]) ELSE config[k]]
    <3>1. base \in Settings
      BY RoundingAssumption DEF Settings
    <3>2. Replaced(base, posted) \in Settings
      BY <3>1, ReplacedIsSettings
    <3> QED BY <2>4, <3>2 DEF Get, listVars
  <2>5. ASSUME NEW w \in Workers, SaveOpen(w) PROVE TypeOK'
    BY <2>5, KeysAssumption, NothingNamed DEF SaveOpen, listVars, Settings
  <2>6. ASSUME NEW w \in Workers, SaveClose(w) PROVE TypeOK'
    BY <2>6 DEF SaveClose, listVars
  <2>7. ASSUME NEW w \in Workers, SaveCommit(w) PROVE TypeOK'
    <3>1. Replaced(wanted, body[w]) \in Settings
      BY ReplacedIsSettings
    <3> QED BY <2>7, <3>1, KeysAssumption, NothingNamed DEF SaveCommit, listVars, Settings
  <2>8. ASSUME NEW k \in Keys, NEW v \in Values, HandEdit(k, v) PROVE TypeOK'
    BY <2>8 DEF HandEdit, listVars, Settings
  <2>9. CASE Exit
    BY <2>9 DEF Exit, listVars, configVars
  <2>10. CASE Crash
    BY <2>10, KeysAssumption, NothingNamed, WorkersAssumption DEF Crash, Settings
  <2>11. CASE Start
    BY <2>11 DEF Start, Lists
  <2>12. CASE UNCHANGED vars
    BY <2>12 DEF vars
  <2> QED
    BY <2>1, <2>2, <2>3, <2>4, <2>5, <2>6, <2>7, <2>8, <2>9, <2>10, <2>11, <2>12 DEF Next
<1> QED BY <1>1, <1>2, PTL DEF Spec

(***************************************************************************)
(* The invariant of the lists                                               *)
(***************************************************************************)
\* The types of what the lists are kept in.
ListTypes ==
  /\ up \in BOOLEAN
  /\ lists \in [Lists -> SUBSET Pkgs] /\ listFile \in [Lists -> SUBSET Pkgs]
  /\ mutex \in Workers \cup {NoOne}
  /\ pc \in [Workers -> {"idle", "write", "mark", "got", "opened", "flushed"}]
  /\ edit \in [Workers -> Edits \cup {NoEdit}]
  /\ target \in [Workers -> SUBSET Pkgs]

\* The mutex is held by the one worker that writes a list; what it writes, into a
\* file it emptied, is the list in memory with its edit made.
WriterHolds ==
  /\ \A w \in Workers : pc[w] = "write" <=> mutex = w
  /\ \A w \in Workers : pc[w] = "write" =>
       /\ edit[w] \in Edits
       /\ listFile[edit[w].list] = {}
       /\ target[w] = Edited(lists[edit[w].list], edit[w])
  /\ ~up => Quiet

\* A file has its set or nothing.
FilesWhole == up => \A l \in Lists : listFile[l] \in {lists[l], {}}

ListInv == ListTypes /\ WriterHolds /\ FilesWhole

\* What the steps that have nothing to do with the lists leave alone.
Aside ==
  /\ UNCHANGED <<up, lists, listFile, mutex, edit, target>>
  /\ pc' \in [Workers -> {"idle", "write", "mark", "got", "opened", "flushed"}]
  /\ \A w \in Workers : pc'[w] = "write" <=> pc[w] = "write"
  /\ ~up => Quiet'

LEMMA ListInit == Init => ListInv
<1> SUFFICES ASSUME Init PROVE ListInv
  OBVIOUS
<1> USE DEF Init, NoLists
<1>1. ListTypes
  BY DEF ListTypes
<1>2. WriterHolds
  BY WorkersAssumption DEF WriterHolds, Quiet
<1>3. FilesWhole
  BY DEF FilesWhole
<1> QED BY <1>1, <1>2, <1>3 DEF ListInv

\* With nobody writing a list the mutex is free.
LEMMA QuietIsFree ==
  ASSUME ListInv, \A w \in Workers : pc[w] # "write"
  PROVE  mutex = NoOne
  BY DEF ListInv, ListTypes, WriterHolds

\* An edit is made under the mutex.
LEMMA OpenKeeps ==
  ASSUME ListInv, NEW w \in Workers, NEW e \in Edits, EditOpen(w, e)
  PROVE  ListInv'
<1> USE DEF ListInv
<1>1. Edited(lists[e.list], e) \in SUBSET Pkgs
  BY DEF ListTypes, Edits, Edited
<1>2. ListTypes'
  BY <1>1 DEF ListTypes, EditOpen, Edits, configVars
<1>3. WriterHolds'
  BY WorkersAssumption DEF WriterHolds, ListTypes, EditOpen, Edits, Quiet
<1>4. FilesWhole'
  BY DEF FilesWhole, ListTypes, EditOpen
<1> QED BY <1>2, <1>3, <1>4

LEMMA CloseKeeps ==
  ASSUME ListInv, NEW w \in Workers, EditClose(w)
  PROVE  ListInv'
<1> USE DEF ListInv
<1>1. /\ mutex = w /\ edit[w] \in Edits
      /\ edit[w].list \in Lists /\ listFile[edit[w].list] = {}
  BY DEF WriterHolds, EditClose, Edits, ListTypes
<1>2. ListTypes'
  BY <1>1 DEF ListTypes, EditClose
<1>3. WriterHolds'
  BY <1>1, WorkersAssumption DEF WriterHolds, ListTypes, EditClose, Quiet
<1>4. FilesWhole'
  BY <1>1 DEF FilesWhole, ListTypes, EditClose
<1> QED BY <1>2, <1>3, <1>4

LEMMA AsideKeeps == ListInv /\ Aside => ListInv'
  BY DEF ListInv, Aside, ListTypes, WriterHolds, FilesWhole

LEMMA ExitKeeps == ListInv /\ Exit => ListInv'
  BY DEF ListInv, Exit, ListTypes, WriterHolds, FilesWhole, Quiet, listVars

LEMMA CrashKeeps ==
  ASSUME ListInv, Crash
  PROVE  ListInv'
<1>1. ListTypes'
  BY DEF ListInv, Crash, ListTypes
<1>2. WriterHolds' /\ FilesWhole'
  BY WorkersAssumption DEF Crash, WriterHolds, FilesWhole, Quiet
<1> QED BY <1>1, <1>2 DEF ListInv

LEMMA StartKeeps == ListInv /\ Start => ListInv'
  BY DEF ListInv, Start, ListTypes, WriterHolds, FilesWhole, Quiet

\* Marks, settings and edits of freeze.conf.
LEMMA OthersAside ==
  ASSUME ListInv,
         \/ \E w \in Workers :
              \/ Mark(w) \/ \E posted \in Bodies : Get(w, posted)
              \/ SaveOpen(w) \/ SaveClose(w) \/ SaveCommit(w)
         \/ \E k \in Keys, v \in Values : HandEdit(k, v)
         \/ UNCHANGED vars
  PROVE  Aside
<1> USE DEF ListInv, ListTypes, Quiet, Aside, listVars
<1>1. ASSUME NEW w \in Workers, Mark(w) PROVE Aside
  BY <1>1 DEF Mark, WriterHolds
<1>2. ASSUME NEW w \in Workers, NEW posted \in Bodies, Get(w, posted) PROVE Aside
  BY <1>2 DEF Get
<1>3. ASSUME NEW w \in Workers, SaveOpen(w) PROVE Aside
  BY <1>3 DEF SaveOpen, WriterHolds
<1>4. ASSUME NEW w \in Workers, SaveClose(w) PROVE Aside
  BY <1>4 DEF SaveClose, WriterHolds
<1>5. ASSUME NEW w \in Workers, SaveCommit(w) PROVE Aside
  BY <1>5 DEF SaveCommit, WriterHolds
<1>6. ASSUME NEW k \in Keys, NEW v \in Values, HandEdit(k, v) PROVE Aside
  BY <1>6 DEF HandEdit, WriterHolds
<1>7. CASE UNCHANGED vars
  BY <1>7 DEF vars, WriterHolds
<1> QED BY <1>1, <1>2, <1>3, <1>4, <1>5, <1>6, <1>7

\* Next, sorted by what it does to the lists.
LEMMA NextSorted ==
  ASSUME ListInv, [Next]_vars
  PROVE  \/ \E w \in Workers, e \in Edits : EditOpen(w, e)
         \/ \E w \in Workers : EditClose(w)
         \/ Aside \/ Exit \/ Crash \/ Start
  BY OthersAside DEF Next

LEMMA ListNext == ListInv /\ [Next]_vars => ListInv'
  BY NextSorted, OpenKeeps, CloseKeeps, AsideKeeps, ExitKeeps, CrashKeeps, StartKeeps

\* Concurrent requests edit the lists one at a time, none undoes another's edit, and
\* no file ever has a part of its list.
THEOREM ListsConsistent == Spec => []ListInv
  BY ListInit, ListNext, PTL DEF Spec

(***************************************************************************)
(* Refinement                                                               *)
(***************************************************************************)
\* The mapping of INSTANCE KeptLists.
Sets == IF up THEN lists ELSE listFile
Pending == IF mutex = NoOne THEN NoEdit ELSE edit[mutex]
Unsaved == IF up THEN {l \in Lists : listFile[l] # lists[l]} ELSE {}

LEMMA OpenBegins ==
  ASSUME ListInv, NEW w \in Workers, NEW e \in Edits, EditOpen(w, e)
  PROVE  Kept!Begin
<1>1. Pending = NoEdit /\ Pending' = e /\ UNCHANGED Sets
  BY WorkersAssumption DEF ListInv, ListTypes, EditOpen, Pending, Sets
<1>2. e.list \in Lists
  BY DEF Edits
<1>3. /\ Unsaved \subseteq Unsaved'
      /\ Unsaved' \subseteq Unsaved \cup {e.list}
  BY <1>2 DEF ListInv, ListTypes, FilesWhole, EditOpen, Unsaved
<1> QED BY <1>1, <1>3 DEF Kept!Begin, Pending, Sets, Unsaved, Edits

LEMMA CloseIsDone ==
  ASSUME ListInv, NEW w \in Workers, EditClose(w)
  PROVE  Kept!Done
<1>1. /\ up /\ up' /\ mutex = w /\ edit[w] \in Edits /\ edit[w].list \in Lists
      /\ target[w] = Edited(lists[edit[w].list], edit[w])
  BY DEF ListInv, ListTypes, WriterHolds, EditClose, Quiet, Edits
<1>2. Pending = edit[w] /\ Pending # NoEdit /\ Pending' = NoEdit
  BY <1>1, WorkersAssumption, EditsAssumption DEF EditClose, Pending
<1>3. Sets = lists /\ Sets' = [lists EXCEPT ![edit[w].list] = target[w]]
  BY <1>1 DEF EditClose, Sets
<1>4. Sets' = [Sets EXCEPT ![Pending.list] =
                 IF Pending.add THEN @ \cup {Pending.pkg} ELSE @ \ {Pending.pkg}]
  BY <1>1, <1>2, <1>3 DEF Edited, Edits, ListInv, ListTypes
<1>5. \A l \in Lists : l # Pending.list => (l \in Unsaved' <=> l \in Unsaved)
  BY <1>1, <1>2 DEF EditClose, Unsaved, ListInv, ListTypes
<1>6. Unsaved' \in {Unsaved \ {Pending.list}, Unsaved \cup {Pending.list}}
  <2>1. Unsaved \subseteq Lists /\ Unsaved' \subseteq Lists
    BY DEF Unsaved
  <2> QED BY <2>1, <1>5, Zenon
<1> QED BY <1>2, <1>4, <1>6 DEF Kept!Done, Pending, Sets, Unsaved

\* What a restart finds is in the files.
LEMMA DownIsRestarted ==
  ASSUME ListInv, Exit \/ Crash
  PROVE  Kept!Restarted
<1>1. up /\ ~up' /\ listFile' = listFile
  BY DEF Exit, Crash, ListInv, ListTypes, listVars
<1>2. mutex' = NoOne
  BY QuietIsFree DEF Exit, Crash, Quiet, listVars
<1>3. \A l \in Lists : listFile[l] = IF l \in Unsaved THEN {} ELSE lists[l]
  BY <1>1 DEF ListInv, FilesWhole, Unsaved
<1>4. Sets' = [l \in Lists |-> IF l \in Unsaved THEN {} ELSE Sets[l]]
  BY <1>1, <1>3 DEF Sets, ListInv, ListTypes
<1>5. Pending' = NoEdit /\ Unsaved' = {}
  BY <1>1, <1>2 DEF Pending, Unsaved
<1> QED BY <1>4, <1>5 DEF Kept!Restarted, Pending, Sets, Unsaved

LEMMA AsideStutters == Aside => UNCHANGED <<Sets, Pending, Unsaved>>
  BY DEF Aside, Sets, Pending, Unsaved

LEMMA StartStutters == ListInv /\ Start => UNCHANGED <<Sets, Pending, Unsaved>>
  BY DEF Start, Sets, Pending, Unsaved

LEMMA StepKept ==
  ASSUME ListInv, [Next]_vars
  PROVE  [Kept!KeptNext]_(Kept!keptVars)
<1>1. ASSUME Aside \/ Start PROVE UNCHANGED Kept!keptVars
  BY <1>1, AsideStutters, StartStutters DEF Kept!keptVars, Sets, Pending, Unsaved
<1> QED
  BY <1>1, NextSorted, OpenBegins, CloseIsDone, DownIsRestarted DEF Kept!KeptNext

\* The lists are what app_list.h:69 says, whatever the workers do at once, however
\* often the daemon is stopped, killed and started, and whatever writes fail.
THEOREM ListsKept == Spec => ImplementsKeptLists
<1>1. Init => Kept!KeptInit
  BY DEF Init, NoLists, Kept!KeptInit
<1>2. ListInv /\ [Next]_vars => [Kept!KeptNext]_(Kept!keptVars)
  BY StepKept
<1> QED
  BY <1>1, <1>2, ListsConsistent, PTL DEF ImplementsKeptLists, Kept!KeptSpec, Spec

(***************************************************************************)
(* Without faults nothing is lost                                           *)
(***************************************************************************)
WritesLast == "flush" \notin Faults /\ "crash" \notin Faults

\* A file differs from its set only while it is being written.
FilesAgree ==
  \A l \in Lists : listFile[l] = lists[l] \/ (mutex # NoOne /\ edit[mutex].list = l)

\* When writes reach their files and the daemon is not killed, the files have the
\* lists at every moment at which no edit is under way: a restart loses nothing.
THEOREM ListsOnFile ==
  ASSUME WritesLast
  PROVE  Spec => [](mutex = NoOne => listFile = lists)
<1>1. Init => FilesAgree
  BY DEF Init, FilesAgree
<1>2. ASSUME ListInv, FilesAgree, [Next]_vars PROVE FilesAgree'
  <2>1. ASSUME NEW w \in Workers, NEW e \in Edits, EditOpen(w, e) PROVE FilesAgree'
    BY <1>2, <2>1, WorkersAssumption DEF FilesAgree, ListInv, ListTypes, EditOpen
  <2>2. ASSUME NEW w \in Workers, EditClose(w) PROVE FilesAgree'
    <3>1. mutex = w /\ edit[w] \in Edits /\ edit[w].list \in Lists
      BY <1>2, <2>2 DEF ListInv, WriterHolds, EditClose, Edits
    <3> QED BY <1>2, <2>2, <3>1 DEF WritesLast, FilesAgree, ListInv, ListTypes, EditClose
  <2>3. CASE Aside
    BY <1>2, <2>3 DEF Aside, FilesAgree
  <2>4. CASE Exit \/ Start
    BY <1>2, <2>4 DEF Exit, Start, FilesAgree, listVars
  <2>5. ~Crash
    BY DEF WritesLast, Crash
  <2> QED BY <1>2, <2>1, <2>2, <2>3, <2>4, <2>5, NextSorted
<1>3. ListInv /\ FilesAgree => (mutex = NoOne => listFile = lists)
  BY DEF ListInv, ListTypes, FilesAgree
<1> QED
  BY <1>1, <1>2, <1>3, ListsConsistent, PTL DEF Spec

(***************************************************************************)
(* The mark for a restart                                                   *)
(***************************************************************************)
\* A changed black list is marked, or a worker is about to.
Announcing ==
  up /\ lists["black"] # atStart => flag \/ \E w \in Workers : pc[w] = "mark"

\* However many requests change the black list, and whatever fails and whenever the
\* daemon is killed: once the request is answered the change is announced.
THEOREM Announced == Spec => []ChangeAnnounced
<1>1. Init => Announcing
  BY DEF Init, NoLists, Lists, Announcing
<1>2. ASSUME ListInv, Announcing, [Next]_vars PROVE Announcing'
  <2> USE <1>2 DEF ListInv, ListTypes, Announcing
  <2>1. ASSUME NEW w \in Workers, NEW e \in Edits, EditOpen(w, e) PROVE Announcing'
    BY <2>1 DEF EditOpen, configVars
  <2>2. ASSUME NEW w \in Workers, EditClose(w) PROVE Announcing'
    <3>1. CASE edit[w].list = "black"
      <4>1. pc'[w] = "mark"
        BY <2>2, <3>1 DEF EditClose
      <4> QED BY <4>1
    <3>2. CASE edit[w].list # "black"
      <4>1. lists'["black"] = lists["black"] /\ UNCHANGED <<up, atStart, flag>>
        BY <2>2, <3>2 DEF EditClose, Lists
      <4>2. \A v \in Workers : pc[v] = "mark" => pc'[v] = "mark"
        BY <2>2 DEF EditClose
      <4> QED BY <4>1, <4>2
    <3> QED BY <3>1, <3>2
  <2>3. ASSUME NEW w \in Workers, Mark(w) PROVE Announcing'
    BY <2>3 DEF Mark, configVars
  <2>4. ASSUME NEW w \in Workers,
               \/ \E posted \in Bodies : Get(w, posted)
               \/ SaveOpen(w) \/ SaveClose(w) \/ SaveCommit(w)
        PROVE  Announcing'
    <3>1. UNCHANGED <<up, lists, flag, atStart>>
      BY <2>4 DEF Get, SaveOpen, SaveClose, SaveCommit, listVars
    <3>2. \A v \in Workers : pc[v] = "mark" => pc'[v] = "mark"
      BY <2>4 DEF Get, SaveOpen, SaveClose, SaveCommit
    <3> QED BY <3>1, <3>2
  <2>5. ASSUME NEW k \in Keys, NEW v \in Values, HandEdit(k, v) PROVE Announcing'
    BY <2>5 DEF HandEdit, listVars
  <2>6. CASE Exit \/ Crash
    BY <2>6 DEF Exit, Crash
  <2>7. CASE Start
    BY <2>7 DEF Start, Lists
  <2>8. CASE UNCHANGED vars
    BY <2>8 DEF vars
  <2> QED BY <2>1, <2>2, <2>3, <2>4, <2>5, <2>6, <2>7, <2>8 DEF Next
<1>3. Announcing => ChangeAnnounced
  BY DEF Announcing, ChangeAnnounced
<1> QED
  BY <1>1, <1>2, <1>3, ListsConsistent, PTL DEF Spec

(***************************************************************************)
(* The settings                                                             *)
(***************************************************************************)
\* One worker saves settings, all delays are whole seconds, and nobody edits
\* freeze.conf while the daemon runs.
SavesAlone ==
  /\ \A w, v \in Savers : w = v
  /\ \A v \in Values : InSeconds(v) = v
  /\ TRUE \notin ByHand

InSave(w) == pc[w] \in {"got", "opened", "flushed"}

\* The one save under way has the settings asked for last with its own put in, and
\* the file is in between only while it is open.
SavedInv ==
  /\ \A w \in Workers : InSave(w) => up /\ w \in Savers
  /\ up => inFile = {}
  /\ ~cut =>
       /\ up => config = wanted
       /\ \A w \in Workers : InSave(w) => cfg[w] = Replaced(wanted, body[w])
       /\ \A w \in Workers : pc[w] = "flushed" => confFile = cfg[w]
       /\ (\A w \in Workers : pc[w] \notin {"opened", "flushed"}) => confFile = wanted

\* What the steps that have nothing to do with the settings leave alone.
SettingsAside ==
  /\ UNCHANGED <<up, configVars>>
  /\ pc' \in [Workers -> {"idle", "write", "mark", "got", "opened", "flushed"}]
  /\ \A w \in Workers : InSave(w) \/ InSave(w)' => pc'[w] = pc[w]

LEMMA SavedAside == TypeOK /\ SavedInv /\ SettingsAside => SavedInv'
  BY DEF SavedInv, SettingsAside, InSave, configVars

LEMMA SavedStep ==
  ASSUME SavesAlone, TypeOK, SavedInv, [Next]_vars
  PROVE  SavedInv'
<1>1. ASSUME NEW w \in Workers,
             (\E e \in Edits : EditOpen(w, e)) \/ EditClose(w) \/ Mark(w)
      PROVE  SavedInv'
  <2>1. SettingsAside
    BY <1>1 DEF TypeOK, EditOpen, EditClose, Mark, SettingsAside, InSave, configVars
  <2> QED BY <2>1, SavedAside
<1>2. ASSUME NEW w \in Workers, NEW posted \in Bodies, Get(w, posted) PROVE SavedInv'
  <2>1. \A v \in Workers : ~InSave(v)
    BY <1>2 DEF SavesAlone, SavedInv, InSave, Get
  <2>2. ~cut => cfg'[w] = Replaced(wanted, posted)
    <3>1. ASSUME ~cut
          PROVE  [k \in Keys |-> IF k \in Seconds THEN InSeconds(config[k]) ELSE config[k]] = wanted
      BY <1>2, <3>1 DEF SavesAlone, SavedInv, TypeOK, Settings, Get
    <3> QED BY <1>2, <3>1 DEF Get, TypeOK
  <2>3. /\ \A v \in Workers : InSave(v)' => v = w
        /\ pc'[w] = "got" /\ body'[w] = posted
    BY <1>2, <2>1 DEF Get, TypeOK, InSave
  <2>4. \A v \in Workers : InSave(v)' => up' /\ v \in Savers
    BY <1>2, <2>3 DEF Get
  <2>5. UNCHANGED <<up, config, confFile, wanted, inFile, cut>> /\ up
    BY <1>2 DEF Get
  <2>6. \A v \in Workers : pc[v] \notin {"opened", "flushed"} /\ pc'[v] \notin {"opened", "flushed"}
    BY <2>1, <2>3 DEF InSave
  <2>7. \A v \in Workers : InSave(v)' /\ ~cut' => cfg'[v] = Replaced(wanted', body'[v])
    BY <2>2, <2>3, <2>5
  <2> QED BY <2>4, <2>5, <2>6, <2>7 DEF SavedInv
<1>3. ASSUME NEW w \in Workers, SaveOpen(w) PROVE SavedInv'
  <2>1. \A v \in Workers : InSave(v) => v = w
    BY <1>3 DEF SavesAlone, SavedInv, InSave, SaveOpen
  <2>2. confFile = wanted \/ cut
    BY <1>3, <2>1 DEF SavedInv, InSave, SaveOpen
  <2>3. CASE pc'[w] = "idle"
    BY <1>3, <2>1, <2>2, <2>3 DEF SaveOpen, TypeOK, SavedInv, InSave
  <2>4. CASE pc'[w] # "idle"
    BY <1>3, <2>1, <2>4 DEF SaveOpen, TypeOK, SavedInv, InSave
  <2> QED BY <2>3, <2>4
<1>4. ASSUME NEW w \in Workers, SaveClose(w) PROVE SavedInv'
  <2>1. \A v \in Workers : InSave(v) => v = w
    BY <1>4 DEF SavesAlone, SavedInv, InSave, SaveClose
  <2> QED BY <1>4, <2>1 DEF SaveClose, TypeOK, SavedInv, InSave
<1>5. ASSUME NEW w \in Workers, SaveCommit(w) PROVE SavedInv'
  <2>1. \A v \in Workers : InSave(v) => v = w
    BY <1>5 DEF SavesAlone, SavedInv, InSave, SaveCommit
  <2>2. \A v \in Workers : ~InSave(v)'
    BY <1>5, <2>1 DEF SaveCommit, TypeOK, InSave
  <2> QED BY <1>5, <2>2 DEF SaveCommit, TypeOK, SavedInv, InSave
<1>6. ASSUME NEW k \in Keys, NEW v \in Values, HandEdit(k, v) PROVE SavedInv'
  <2>1. up = FALSE
    BY <1>6 DEF SavesAlone, HandEdit, TypeOK
  <2> QED BY <1>6, <2>1 DEF HandEdit, SavedInv, InSave, TypeOK, Settings, listVars
<1>7. CASE Exit
  BY <1>7 DEF Exit, SavedInv, InSave, Quiet, configVars, listVars
<1>8. CASE Crash
  BY <1>8 DEF Crash, SavedInv, InSave, TypeOK
<1>9. CASE Start
  <2>1. \A w \in Workers : ~InSave(w)
    BY <1>9 DEF Start, SavedInv
  <2> QED BY <1>9, <2>1 DEF Start, SavedInv, InSave
<1>10. CASE UNCHANGED vars
  BY <1>10 DEF vars, SavedInv, InSave
<1> QED
  BY <1>1, <1>2, <1>3, <1>4, <1>5, <1>6, <1>7, <1>8, <1>9, <1>10 DEF Next

\* One client that posts whole seconds, and a freeze.conf edited only while the daemon
\* is stopped: no setting is lost, whichever keys each request names, whatever fails
\* to open and however often the daemon is stopped, killed and started, until a write
\* is cut short.
THEOREM SettingsSaved ==
  ASSUME SavesAlone
  PROVE  Spec => []SettingsKept
<1>1. Init => SavedInv
  BY DEF Init, SavedInv, InSave
<1>2. TypeOK /\ SavedInv /\ [Next]_vars => SavedInv'
  BY SavedStep
<1>3. SavedInv => SettingsKept
  <2> SUFFICES ASSUME SavedInv, Quiet, ~cut PROVE SettingsKept
    BY DEF SettingsKept
  <2>1. \A w \in Workers : pc[w] \notin {"opened", "flushed"}
    BY DEF Quiet
  <2> QED BY <2>1 DEF SavedInv, SettingsKept
<1> QED
  BY <1>1, <1>2, <1>3, ConfigTypes, PTL DEF Spec

=============================================================================
