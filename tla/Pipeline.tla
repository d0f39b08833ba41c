---------------------------- MODULE Pipeline ----------------------------
(***************************************************************************)
(* scripts/pipeline.sh from the preflight of the quantization to the       *)
(* sealed output, with scripts/09_seal_output.py.  A run writes into a     *)
(* directory named after the minute it started in, and seals it: checksums *)
(* of its files, a manifest, write protection, and a check against the     *)
(* manifest.  Several runs may be under way, and each may be killed.       *)
(*                                                                         *)
(* A file is opened, which empties it, and then written; write protection  *)
(* stops the opening, not a write to what is open already.                 *)
(***************************************************************************)
EXTENDS SequencesExt, FiniteSetsExt

CONSTANTS
  Runs,          \* runs of the pipeline
  Files,         \* files a quantization writes
  Minutes,       \* 1 .. Minutes: the minutes in which runs start
  None,          \* no file, no manifest, no directory yet
  Torn           \* a manifest that cannot be read

Dirs == 1 .. Minutes

Manifest == "MANIFEST.json"

VARIABLES
  pc,        \* pc[r]: the stage of run r
  dirOf,     \* dirOf[r]: its output directory (the minute it started in)
  did,       \* did[r]: the files it is done with in this stage
  handle,    \* handle[r]: the file it has open for writing, or None
  rec,       \* rec[r]: the checksums it computed or, to check, has read
  content,   \* content[d][f]: the runs that wrote f since it was emptied
  manifest,  \* manifest[d]: the checksums in MANIFEST.json
  readOnly,  \* readOnly[d]: the files of d that are write-protected
  sealed,    \* the directories that are write-protected
  opened,    \* the directories somebody unsealed
  late       \* those in which a protected file was written after a check of it

disk == <<content, manifest, readOnly, sealed, opened, late>>
vars == <<pc, dirOf, did, handle, rec, disk>>

NoFiles == [f \in Files |-> None]

Init ==
  /\ pc = [r \in Runs |-> "new"]
  /\ dirOf = [r \in Runs |-> None]
  /\ did = [r \in Runs |-> {}]
  /\ handle = [r \in Runs |-> None]
  /\ rec = [r \in Runs |-> NoFiles]
  /\ content = [d \in Dirs |-> NoFiles]
  /\ manifest = [d \in Dirs |-> None]
  /\ readOnly = [d \in Dirs |-> {}]
  /\ sealed = {} /\ opened = {} /\ late = {}

(* A stage begins with nothing done and nothing read.                      *)
Enter(r, to) ==
  /\ pc' = [pc EXCEPT ![r] = to]
  /\ did' = [did EXCEPT ![r] = {}] /\ rec' = [rec EXCEPT ![r] = NoFiles]

Goto(r, from, to) == pc[r] = from /\ Enter(r, to)

DoneWith(r, f) == did' = [did EXCEPT ![r] = @ \cup {f}] /\ UNCHANGED pc

(* A process that ends lets go of what it has open.                        *)
Die(r) == Enter(r, "dead") /\ handle' = [handle EXCEPT ![r] = None]

(* The stamp is the minute.  A preflight that fails ends the run.          *)
Begin(r) ==
  /\ pc[r] = "new"
  /\ \E d \in Dirs :
       /\ \A q \in Runs : dirOf[q] # None => dirOf[q] <= d
       /\ dirOf' = [dirOf EXCEPT ![r] = d]
  /\ (Goto(r, "new", "quantize") /\ UNCHANGED handle) \/ Die(r)
  /\ UNCHANGED disk

Writable(d, f) ==
  IF (IF f = Manifest THEN manifest[d] ELSE content[d][f]) = None
  THEN d \notin sealed ELSE f \notin readOnly[d]

(* Somebody has compared f of d with the manifest, or read it as that.     *)
Compared(d, f) ==
  \E q \in Runs : dirOf[q] = d /\ (pc[q] = "done" \/ (pc[q] = "check" /\ f \in did[q]))

Written(r, f) ==
  /\ handle' = [handle EXCEPT ![r] = None]
  /\ late' = IF f \in readOnly[dirOf[r]] /\ Compared(dirOf[r], f)
             THEN late \cup {dirOf[r]} ELSE late

(* Fault: an open that is refused is tried again.                          *)
OpenFileRetrying(r) ==
  /\ pc[r] = "quantize" /\ handle[r] = None
  /\ \E f \in Files \ did[r] :
       /\ Writable(dirOf[r], f)
       /\ content' = [content EXCEPT ![dirOf[r]][f] = <<>>]
       /\ handle' = [handle EXCEPT ![r] = f]
  /\ UNCHANGED <<pc, did, dirOf, rec, manifest, readOnly, sealed, opened, late>>

(* AutoRound writes its files one after the other; a protected one ends    *)
(* the run.                                                                *)
OpenFile(r) ==
  /\ pc[r] = "quantize" /\ handle[r] = None
  /\ \E f \in Files \ did[r] :
       IF Writable(dirOf[r], f)
       THEN /\ content' = [content EXCEPT ![dirOf[r]][f] = <<>>]
            /\ handle' = [handle EXCEPT ![r] = f] /\ UNCHANGED <<pc, did, rec>>
       ELSE Die(r) /\ UNCHANGED content
  /\ UNCHANGED <<dirOf, manifest, readOnly, sealed, opened, late>>

WriteFile(r) ==
  /\ pc[r] = "quantize" /\ handle[r] # None
  /\ content' = [content EXCEPT ![dirOf[r]][handle[r]] = Append(@, r)]
  /\ Written(r, handle[r]) /\ DoneWith(r, handle[r])
  /\ UNCHANGED <<dirOf, rec, manifest, readOnly, sealed, opened>>

(* The audit reports, whatever it finds, and the sealing begins.           *)
Quantized(r) ==
  /\ did[r] = Files
  /\ Goto(r, "quantize", "seal")
  /\ UNCHANGED <<dirOf, handle, disk>>

Checksum(r) ==
  /\ pc[r] = "seal"
  /\ \E f \in Files \ did[r] :
       rec' = [rec EXCEPT ![r][f] = content[dirOf[r]][f]] /\ DoneWith(r, f)
  /\ UNCHANGED <<dirOf, handle, disk>>

(* MANIFEST.json is written in place, unless it is protected, or the       *)
(* directory is and there is none: then the open raises.                   *)
OpenManifest(r) ==
  /\ pc[r] = "seal" /\ did[r] = Files /\ handle[r] = None
  /\ IF Writable(dirOf[r], Manifest)
     THEN /\ manifest' = [manifest EXCEPT ![dirOf[r]] = Torn]
          /\ handle' = [handle EXCEPT ![r] = Manifest] /\ UNCHANGED <<pc, did, rec>>
     ELSE Die(r) /\ UNCHANGED manifest
  /\ UNCHANGED <<dirOf, content, readOnly, sealed, opened, late>>

(* What is left when checksums are written over what another run wrote     *)
(* meanwhile: a mixture of both, or nothing that can be read.              *)
Overlaid(old, new) ==
  IF old = Torn THEN {new}
  ELSE {Torn} \cup {[f \in Files |-> IF f \in F THEN old[f] ELSE new[f]] : F \in SUBSET Files}

WriteManifest(r) ==
  /\ handle[r] = Manifest
  /\ \E m \in Overlaid(manifest[dirOf[r]], rec[r]) :
       manifest' = [manifest EXCEPT ![dirOf[r]] = m]
  /\ Written(r, Manifest) /\ Goto(r, "seal", "protect")
  /\ UNCHANGED <<dirOf, content, readOnly, sealed, opened>>

(* Fault: the directory is protected, the files in it are not.             *)
ProtectDirOnly(r) ==
  /\ Goto(r, "protect", "check")
  /\ sealed' = sealed \cup {dirOf[r]}
  /\ UNCHANGED <<dirOf, handle, content, manifest, readOnly, opened, late>>

(* chmod, the files first, then the manifest, the directory last.          *)
Protect(r) ==
  /\ \/ /\ pc[r] = "protect" /\ UNCHANGED sealed
        /\ \E f \in (IF Files \subseteq did[r] THEN {Manifest} ELSE Files) \ did[r] :
             readOnly' = [readOnly EXCEPT ![dirOf[r]] = @ \cup {f}] /\ DoneWith(r, f)
        /\ UNCHANGED rec
     \/ /\ Manifest \in did[r] /\ Goto(r, "protect", "check")
        /\ sealed' = sealed \cup {dirOf[r]} /\ UNCHANGED readOnly
  /\ UNCHANGED <<dirOf, handle, content, manifest, opened, late>>

(* --check reads the manifest, then compares file by file.                 *)
ReadManifest(r) ==
  /\ pc[r] = "check" /\ Manifest \notin did[r]
  /\ IF manifest[dirOf[r]] \in {None, Torn} THEN Die(r)
     ELSE /\ rec' = [rec EXCEPT ![r] = manifest[dirOf[r]]]
          /\ DoneWith(r, Manifest) /\ UNCHANGED handle
  /\ UNCHANGED <<dirOf, disk>>

Compare(r) ==
  /\ pc[r] = "check" /\ Manifest \in did[r]
  /\ \E f \in Files \ did[r] :
       IF content[dirOf[r]][f] = rec[r][f]
       THEN DoneWith(r, f) /\ UNCHANGED <<handle, rec>> ELSE Die(r)
  /\ UNCHANGED <<dirOf, disk>>

Done(r) ==
  /\ did[r] = Files \cup {Manifest} /\ Goto(r, "check", "done")
  /\ UNCHANGED <<dirOf, handle, disk>>

Unseal(d) ==
  /\ d \in sealed
  /\ readOnly' = [readOnly EXCEPT ![d] = {}]
  /\ sealed' = sealed \ {d}
  /\ opened' = opened \cup {d}
  /\ UNCHANGED <<pc, dirOf, did, handle, rec, content, manifest, late>>

Killed(r) ==
  /\ pc[r] \notin {"new", "done", "dead"}
  /\ Die(r)
  /\ UNCHANGED <<dirOf, disk>>

Step(r) ==
  \/ OpenFile(r) \/ WriteFile(r) \/ Quantized(r)
  \/ Checksum(r) \/ OpenManifest(r) \/ WriteManifest(r)
  \/ Protect(r) \/ ReadManifest(r) \/ Compare(r) \/ Done(r)

Next ==
  \/ \E r \in Runs : Begin(r) \/ Step(r) \/ Killed(r)
  \/ \E d \in Dirs : Unseal(d)

-----------------------------------------------------------------------------
Stages == {"new", "quantize", "seal", "protect", "check", "done", "dead"}

Owners == [Files -> Seq(Runs) \cup {None}]

TypeOK ==
  /\ pc \in [Runs -> Stages]
  /\ dirOf \in [Runs -> Dirs \cup {None}]
  /\ did \in [Runs -> SUBSET (Files \cup {Manifest})]
  /\ handle \in [Runs -> Files \cup {Manifest, None}]
  /\ rec \in [Runs -> Owners] /\ content \in [Dirs -> Owners]
  /\ manifest \in [Dirs -> Owners \cup {None, Torn}]
  /\ readOnly \in [Dirs -> SUBSET (Files \cup {Manifest})]
  /\ sealed \subseteq Dirs /\ opened \subseteq Dirs /\ late \subseteq Dirs

Intact(d) ==
  /\ manifest[d] \notin {None, Torn}
  /\ \A f \in Files : content[d][f] = manifest[d][f]

(* A run that reported DONE leaves a directory that is what its manifest   *)
(* says and stays so until somebody unseals it, even if another run writes *)
(* into the same directory: the check comes after the protection           *)
(* (09_seal_output.py:129, pipeline.sh:83).  What protection cannot stop   *)
(* is a write to a file that was opened before it, after the comparison.   *)
DoneIsIntact ==
  \A r \in Runs : pc[r] = "done" /\ dirOf[r] \notin opened \cup late => Intact(dirOf[r])

(* Every run that was started has come to an end (pipeline.sh:36-90).      *)
RunsOver == \A r \in Runs : pc[r] \in {"new", "done", "dead"}
=============================================================================
