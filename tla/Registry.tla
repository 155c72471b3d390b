------------------------------- MODULE Registry -------------------------------
(***************************************************************************)
(* The model registry, models/registry.json: every command is a process of *)
(* its own that loads the whole index, changes its copy and writes it back *)
(* without a lock.  A missing, empty or unreadable file loads as an empty  *)
(* index, so index is what _load would return: opening the file for        *)
(* writing empties it until the write is finished.                         *)
(***************************************************************************)
EXTENDS Naturals, FiniteSets

CONSTANTS
    Commands,  \* processes, each running one command; a bound
    Versions,  \* versions that have been trained; a bound
    NoVersion

ASSUME RegistryTyped == NoVersion \notin Versions

VARIABLES
    op,          \* the command of each process
    version,     \* its argument
    pc,          \* how far it is
    copy,        \* the versions it has loaded and changed
    index,       \* what _load returns
    artifacts,   \* versions whose model directory exists
    over,        \* processes whose open file another one has written since
    promoted,    \* history: version of the last promotion written
    overlapped,  \* history: a command loaded while another one was running
    halfWritten  \* history: a process died while writing

history == <<promoted, overlapped, halfWritten>>
vars == <<op, version, pc, copy, index, artifacts, over, history>>

Statuses == {"candidate", "production", "retired"}
Index == [Versions -> Statuses \cup {"absent"}]
Empty == [v \in Versions |-> "absent"]

Ops == {"register", "promote", "remove", "purge"}
Running == {"save", "writing", "rmtree"}

\* The version of an index the classifier is meant to run.
InProduction(i, v) == i[v] = "production"
OneProduction(i) ==
    \A v, w \in Versions : InProduction(i, v) /\ InProduction(i, w) => v = w

TypeOK ==
    /\ op \in [Commands -> Ops]
    /\ version \in [Commands -> Versions]
    /\ pc \in [Commands -> {"start", "done", "refused", "crashed"} \cup Running]
    /\ copy \in [Commands -> Index]
    /\ index \in Index
    /\ artifacts \subseteq Versions
    /\ over \subseteq Commands
    /\ promoted \in Versions \cup {NoVersion}
    /\ overlapped \in BOOLEAN /\ halfWritten \in BOOLEAN

\* An index left by earlier commands, whose versions are all on disk.
Init ==
    /\ op \in [Commands -> Ops]
    /\ version \in [Commands -> Versions]
    /\ pc = [p \in Commands |-> "start"]
    /\ copy = [p \in Commands |-> Empty]
    /\ index \in {i \in Index : OneProduction(i)}
    /\ artifacts = Versions
    /\ over = {}
    /\ promoted \in Versions \cup {NoVersion}
    /\ \A v \in Versions : promoted = v <=> InProduction(index, v)
    /\ overlapped = FALSE /\ halfWritten = FALSE

-------------------------------------------------------------------------------
\* Forgetting to retire the version promoted before.
Bug_Promoted(i, v) == [i EXCEPT ![v] = "production"]

\* promote: one version becomes production, the previous one is retired.
Promoted(i, v) ==
    [w \in Versions |-> IF w = v THEN "production"
                        ELSE IF InProduction(i, w) THEN "retired" ELSE i[w]]

\* Production can be removed like any other.
Bug_Accepted(o, i, v) == IF o = "register" THEN i[v] = "absent" ELSE i[v] # "absent"

\* The checks each command makes on the index it has loaded.
Accepted(o, i, v) ==
    CASE o = "register" -> v \in artifacts /\ i[v] = "absent"
      [] o = "promote" -> i[v] # "absent"
      [] OTHER -> i[v] # "absent" /\ ~InProduction(i, v)

\* Leaving a mark in place of the removed entry.
Bug_Changed(o, i, v) ==
    CASE o = "register" -> [i EXCEPT ![v] = "candidate"]
      [] o = "promote" -> Promoted(i, v)
      [] OTHER -> [i EXCEPT ![v] = "removed"]

\* The index it will write.
Changed(o, i, v) ==
    CASE o = "register" -> [i EXCEPT ![v] = "candidate"]
      [] o = "promote" -> Promoted(i, v)
      [] OTHER -> [i EXCEPT ![v] = "absent"]

\* Deleting the files before the index is saved.
Bug_FilesAfterLoad(p) == IF op[p] = "purge" THEN artifacts \ {version[p]} ELSE artifacts

\* What is left of the model directories when a command has only loaded.
FilesAfterLoad(p) == artifacts

\* Nobody else is between its load and its end.
Alone(p) == \A q \in Commands \ {p} : pc[q] \notin Running

\* _load, the checks and the change of the copy: nothing is written yet.
LoadIndex(p) ==
    /\ pc[p] = "start"
    /\ overlapped' = (overlapped \/ ~Alone(p))
    /\ Accepted(op[p], index, version[p])
    /\ copy' = [copy EXCEPT ![p] = Changed(op[p], index, version[p])]
    /\ pc' = [pc EXCEPT ![p] = "save"]
    /\ artifacts' = FilesAfterLoad(p)
    /\ UNCHANGED <<op, version, index, over, promoted, halfWritten>>

\* FileNotFoundError, ValueError, KeyError, or False from remove.
Refuse(p) ==
    /\ pc[p] = "start"
    /\ ~Accepted(op[p], index, version[p])
    /\ pc' = [pc EXCEPT ![p] = "refused"]
    /\ UNCHANGED <<op, version, copy, index, artifacts, over, history>>

\* write_text opens the file, which truncates it.
OpenIndex(p) ==
    /\ pc[p] = "save"
    /\ index' = Empty
    /\ over' = over \ {p}
    /\ pc' = [pc EXCEPT ![p] = "writing"]
    /\ UNCHANGED <<op, version, copy, artifacts, history>>

\* The text is written at the start of the file.  Over a longer text that
\* another process wrote meanwhile it leaves a tail, which does not parse.
WriteIndex(p) ==
    /\ pc[p] = "writing"
    /\ index' \in {copy[p]} \cup (IF p \in over THEN {Empty} ELSE {})
    /\ over' = {q \in Commands \ {p} : pc[q] = "writing"}
    /\ pc' = [pc EXCEPT ![p] = IF op[p] = "purge" THEN "rmtree" ELSE "done"]
    /\ promoted' = IF op[p] = "promote" THEN version[p] ELSE promoted
    /\ UNCHANGED <<op, version, copy, artifacts, overlapped, halfWritten>>

\* shutil.rmtree, after the save.
RemoveTree(p) ==
    /\ pc[p] = "rmtree"
    /\ artifacts' = artifacts \ {version[p]}
    /\ pc' = [pc EXCEPT ![p] = "done"]
    /\ UNCHANGED <<op, version, copy, index, over, history>>

\* The process is killed, or the disk is full.
Crash(p) ==
    /\ pc[p] \in Running
    /\ pc' = [pc EXCEPT ![p] = "crashed"]
    /\ halfWritten' = (halfWritten \/ pc[p] = "writing")
    /\ UNCHANGED <<op, version, copy, index, artifacts, over, promoted, overlapped>>

Command(p) ==
    \/ LoadIndex(p) \/ Refuse(p) \/ OpenIndex(p) \/ WriteIndex(p)
    \/ RemoveTree(p) \/ Crash(p)

Finished == \A p \in Commands : pc[p] \notin {"start"} \cup Running

Next == (\E p \in Commands : Command(p)) \/ (Finished /\ UNCHANGED vars)

Spec == Init /\ [][Next]_vars

-------------------------------------------------------------------------------
\* However the commands interleave, overwrite each other and die, the index
\* names at most one production version.
AtMostOneProduction == OneProduction(index)

\* Unless commands overlapped, a version the index names has its model
\* directory, also when a removal died between saving and deleting.
IndexedVersionsExist ==
    ~overlapped => \A v \in Versions : index[v] # "absent" => v \in artifacts

\* Unless commands overlapped or a save was cut short, the version last
\* promoted is the one in production whenever the file is not being written.
PromotionSticks ==
    (~overlapped /\ ~halfWritten /\ \A p \in Commands : pc[p] # "writing")
        => \A v \in Versions : promoted = v => InProduction(index, v)
===============================================================================
