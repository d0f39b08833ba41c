--------------------------- MODULE AutoRoundPatch --------------------------
(***************************************************************************)
(* scripts/07_patch_autoround.py: edits of files of the installed          *)
(* auto-round, each with a mark and a backup of the file it was made on.   *)
(* The program may be killed while it copies or writes a file, which is    *)
(* then cut off before or behind the place of the edit, and the package    *)
(* may be upgraded, which replaces its files and leaves the backups alone. *)
(***************************************************************************)
EXTENDS Integers

CONSTANTS
  Jobs,       \* 1 .. Jobs: the edits, a file each, in their order
  Versions,   \* 1 .. Versions: versions of auto-round, installed in this order
  Kills,      \* bound on the times the program is killed
  None

(* What a file or a backup may hold, and what may be being written.        *)
Texts == [version : 0 .. Versions, marked : BOOLEAN, whole : BOOLEAN]
Writings == [to : {"bak", "file"}, text : Texts]

(* The sizes are numbers; there is an edit and a version.  None is neither *)
(* an exit status nor a text that is being written.                        *)
SizesOK ==
  /\ {Jobs, Versions, Kills} \subseteq Nat /\ Jobs > 0 /\ Versions > 0
  /\ None \notin {0, 1, 2} /\ None \notin Writings

VARIABLES
  fits,       \* fits: the pairs <<job, version>> whose anchor is in the file
  version,    \* the installed version
  file,       \* file[j]: the file job j edits
  bak,        \* bak[j]: its backup, None if there is none
  op,         \* what the program was called for: --revert, apply, or nothing
  at,         \* the job it is at
  writing,    \* the text it has begun to write, and where to; None: no text
  code,       \* exit status of the last call, None if it was killed
  kills

vars == <<fits, version, file, bak, op, at, writing, code, kills>>

(* A file of version v, edited or not.                                     *)
Text(v, m) == [version |-> v, marked |-> m, whole |-> TRUE]

(* A text with the edit, or without it.                                    *)
Mark(text, m) == [version |-> text.version, marked |-> m, whole |-> text.whole]

(* What is on disk of a text of which not all was written: it ends before  *)
(* the place of the edit, neither marked nor anchored, or behind it.       *)
CutOff(text) ==
  {[version |-> 0, marked |-> FALSE, whole |-> FALSE],
   [version |-> text.version, marked |-> text.marked, whole |-> FALSE]}

Marked(j) == file[j].marked
Anchored(j) == ~Marked(j) /\ <<j, file[j].version>> \in fits

Init ==
  /\ fits \in SUBSET ((1 .. Jobs) \X (1 .. Versions))
  /\ version = 1
  /\ file = [j \in 1 .. Jobs |-> Text(1, FALSE)]
  /\ bak = [j \in 1 .. Jobs |-> None]
  /\ op = "none" /\ at = 0 /\ writing = None /\ code = 0 /\ kills = 0

Call ==
  /\ op = "none"
  /\ op' \in {"apply", "revert"} /\ at' = 1
  /\ UNCHANGED <<fits, version, file, bak, writing, code, kills>>

NextJob ==
  IF at = Jobs THEN op' = "none" /\ at' = 0 /\ code' = 0
  ELSE at' = at + 1 /\ UNCHANGED <<op, code>>

(* --check: 0 only if every file has its mark.                             *)
Status == IF \A j \in 1 .. Jobs : Marked(j) THEN 0 ELSE 1

Check ==
  /\ op = "none" /\ op' = "checked" /\ code' = Status
  /\ UNCHANGED <<fits, version, file, bak, at, writing, kills>>

Checked ==
  /\ op = "checked" /\ op' = "none"
  /\ UNCHANGED <<fits, version, file, bak, at, writing, code, kills>>

(* Nothing to do for this job.                                             *)
Skip ==
  /\ op \in {"apply", "revert"} /\ writing = None /\ (op = "apply" <=> Marked(at))
  /\ NextJob
  /\ UNCHANGED <<fits, version, file, bak, writing, kills>>

(* Fault: an edit that does not fit is left out.                           *)
RefuseNothing ==
  /\ op = "apply" /\ writing = None /\ ~Marked(at) /\ ~Anchored(at)
  /\ NextJob
  /\ UNCHANGED <<fits, version, file, bak, writing, kills>>

(* The code to be replaced is not there: the program ends, the edits it    *)
(* has made stay.                                                          *)
Refuse ==
  /\ op = "apply" /\ writing = None /\ ~Marked(at) /\ ~Anchored(at)
  /\ op' = "none" /\ at' = 0 /\ code' = 2
  /\ UNCHANGED <<fits, version, file, bak, writing, kills>>

(* A file is cut off from the moment it is opened until all is written.    *)
Begin(where, text) ==
  /\ writing = None /\ writing' = [to |-> where, text |-> text]
  /\ \E cut \in CutOff(text) :
       IF where = "bak" THEN bak' = [bak EXCEPT ![at] = cut] /\ UNCHANGED file
       ELSE file' = [file EXCEPT ![at] = cut] /\ UNCHANGED bak
  /\ UNCHANGED <<fits, version, op, at, code, kills>>

(* Fault: the backup is a copy of what the edit will give.                 *)
BackupEdited ==
  /\ op = "apply" /\ bak[at] = None /\ Anchored(at)
  /\ Begin("bak", Mark(file[at], TRUE))

(* shutil.copy2 of the file to its backup, unless there is one.            *)
Backup == op = "apply" /\ bak[at] = None /\ Anchored(at) /\ Begin("bak", file[at])

Edit ==
  /\ op = "apply" /\ bak[at] # None /\ Anchored(at)
  /\ Begin("file", Mark(file[at], TRUE))

(* From the backup if there is one, else the text is replaced back.        *)
Restore ==
  /\ op = "revert" /\ Marked(at)
  /\ Begin("file", IF bak[at] # None THEN bak[at] ELSE Mark(file[at], FALSE))

Written ==
  /\ writing # None /\ writing' = None
  /\ IF writing.to = "bak"
     THEN bak' = [bak EXCEPT ![at] = writing.text] /\ UNCHANGED <<file, op, at, code>>
     ELSE file' = [file EXCEPT ![at] = writing.text] /\ NextJob /\ UNCHANGED bak
  /\ UNCHANGED <<fits, version, kills>>

Kill ==
  /\ op \in {"apply", "revert"} /\ kills < Kills
  /\ op' = "none" /\ at' = 0 /\ writing' = None /\ code' = None
  /\ kills' = kills + 1
  /\ UNCHANGED <<fits, version, file, bak>>

(* pip installs the next version.                                          *)
Upgrade ==
  /\ op = "none" /\ version < Versions
  /\ version' = version + 1
  /\ file' = [j \in 1 .. Jobs |-> Text(version', FALSE)]
  /\ code' = None
  /\ UNCHANGED <<fits, bak, op, at, writing, kills>>

Step == Skip \/ Refuse \/ Backup \/ Edit \/ Restore \/ Written

Next == Call \/ Check \/ Checked \/ Step \/ Kill \/ Upgrade

-----------------------------------------------------------------------------
TypeOK ==
  /\ fits \subseteq (1 .. Jobs) \X (1 .. Versions) /\ version \in 1 .. Versions
  /\ file \in [1 .. Jobs -> Texts]
  /\ bak \in [1 .. Jobs -> {t \in Texts : ~t.marked} \cup {None}]
  /\ op \in {"none", "apply", "revert", "checked"} /\ at \in 0 .. Jobs
  /\ writing = None \/ writing \in Writings
  /\ code \in {0, 1, 2, None} /\ kills \in 0 .. Kills

(* The backup is one of an older version: an upgrade leaves it behind.     *)
Stale(j) == bak[j] # None /\ bak[j].version < version

(* What job j left is its file of the installed version, or, only where a  *)
(* backup is stale, a file of the version of the backup.                   *)
Left(j, m) ==
  \/ file'[j] = Text(version, m)
  \/ Stale(j) /\ file'[j] = Mark(bak[j], m)

(* After a revert that ended no file is edited, and every file is the one  *)
(* the installed version came with, "a comment-marked, revertible edit to  *)
(* the installed package" (07_patch_autoround.py:4), unless its backup is  *)
(* stale: as long as no call is killed, across upgrades.                   *)
Restores ==
  kills = 0 /\ op = "revert" /\ op' = "none" /\ code' = 0 => \A j \in 1 .. Jobs : Left(j, FALSE)

(* Whoever asks (--check) or applies with status 0 has every edit in       *)
(* place, after whatever was killed or upgraded before                     *)
(* (07_patch_autoround.py:149); if no call was killed, in the file of the  *)
(* installed version, unless the backup is stale.                          *)
SucceedsPatched ==
  /\ op \in {"apply", "none"} /\ op' \in {"none", "checked"} /\ op # op'
  /\ code' = 0
  => \A j \in 1 .. Jobs : file'[j].marked /\ (kills = 0 => Left(j, TRUE))

(* No call is under way.                                                   *)
CallOver == op \notin {"apply", "revert"}
=============================================================================
