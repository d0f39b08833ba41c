---------------------------- MODULE StagesProofs ----------------------------
(***************************************************************************)
(* Invariance proofs for the programs of Stages, one after the other: for  *)
(* each the inductive invariant, that its first states have it and that    *)
(* each of its steps keeps it.  The theorems about Spec come last.         *)
(***************************************************************************)
EXTENDS Stages, PrefixLemmas

-----------------------------------------------------------------------------
(* pipeline.sh and 09_seal_output.                                         *)

Protected(d) == d \in sealed /\ readOnly[d] = OutputFiles \cup {Seal!Manifest}

(* From the preflight on a run has a directory.                            *)
HasDir(q) ==
  pc[q] \in {"quantize", "seal", "protect", "check", "done"} => dirOf[q] \in Seal!Dirs

(* What a run has open is there: the open emptied it.                      *)
Holds(q) ==
  handle[q] # None =>
    \/ /\ pc[q] = "quantize" /\ handle[q] \in OutputFiles \ did[q]
       /\ content[dirOf[q]][handle[q]] \in Seq(Runs)
    \/ /\ pc[q] = "seal" /\ handle[q] = Seal!Manifest
       /\ manifest[dirOf[q]] \in Seal!Owners \cup {Torn}

(* The files are protected before the manifest, and stay so unless         *)
(* somebody unseals them.                                                  *)
ProtectedSoFar(q) ==
  pc[q] = "protect" =>
    /\ Seal!Manifest \in did[q] => OutputFiles \subseteq did[q]
    /\ dirOf[q] \notin opened => did[q] \subseteq readOnly[dirOf[q]]

(* The check, and what comes after it, finds a protected directory, unless *)
(* somebody unsealed it.                                                   *)
CheckedProtected(q) ==
  pc[q] \in {"check", "done"} /\ dirOf[q] \notin opened => Protected(dirOf[q])

(* What a check has compared is still what the manifest says, unless it    *)
(* was written by somebody who had it open.                                *)
CheckedSoFar(q) ==
  /\ pc[q] = "check" /\ did[q] # {} => Seal!Manifest \in did[q]
  /\ pc[q] = "check" /\ did[q] # {} /\ dirOf[q] \notin opened \cup late =>
       /\ manifest[dirOf[q]] = rec[q] /\ manifest[dirOf[q]] \notin {None, Torn}
       /\ \A f \in OutputFiles \cap did[q] : content[dirOf[q]][f] = rec[q][f]

IntactWhenDone(q) ==
  pc[q] = "done" /\ dirOf[q] \notin opened \cup late => Seal!Intact(dirOf[q])

RunInv(q) ==
  /\ HasDir(q) /\ Holds(q) /\ ProtectedSoFar(q) /\ CheckedProtected(q) /\ CheckedSoFar(q)
  /\ IntactWhenDone(q)

SealInv == Seal!TypeOK /\ \A q \in Runs : RunInv(q)

LEMMA ManifestIsNoFile == Seal!Manifest \notin OutputFiles
BY RunsAssumption

LEMMA SealInit ==
  ASSUME Seal!Init
  PROVE  SealInv
<1>1. Seal!TypeOK
  BY DEF Seal!Init, Seal!TypeOK, Seal!Owners, Seal!NoFiles, Seal!Stages
<1>2. ASSUME NEW q \in Runs PROVE pc[q] = "new" /\ handle[q] = None
  BY DEF Seal!Init
<1>3. ASSUME NEW q \in Runs PROVE RunInv(q)
  BY <1>2
     DEF RunInv, HasDir, Holds, ProtectedSoFar, CheckedProtected, CheckedSoFar, IntactWhenDone
<1> QED BY <1>1, <1>3 DEF SealInv

(* A run enters a stage with nothing done.                                 *)
LEMMA SealEnters ==
  ASSUME SealInv, NEW r \in Runs, NEW to \in Seal!Stages, Seal!Enter(r, to)
  PROVE  /\ pc' \in [Runs -> Seal!Stages]
         /\ did' \in [Runs -> SUBSET (OutputFiles \cup {Seal!Manifest})]
         /\ rec' \in [Runs -> Seal!Owners]
         /\ pc'[r] = to /\ did'[r] = {}
         /\ \A q \in Runs \ {r} : pc'[q] = pc[q] /\ did'[q] = did[q] /\ rec'[q] = rec[q]
<1>1. Seal!NoFiles \in Seal!Owners
  BY DEF Seal!NoFiles, Seal!Owners
<1> QED BY <1>1 DEF SealInv, Seal!TypeOK, Seal!Enter

LEMMA SealDoneWith ==
  ASSUME SealInv, NEW r \in Runs, NEW f \in OutputFiles \cup {Seal!Manifest}, Seal!DoneWith(r, f)
  PROVE  /\ did' \in [Runs -> SUBSET (OutputFiles \cup {Seal!Manifest})] /\ pc' = pc
         /\ did'[r] = did[r] \cup {f} /\ \A q \in Runs \ {r} : did'[q] = did[q]
BY DEF SealInv, Seal!TypeOK, Seal!DoneWith

LEMMA SealDies ==
  ASSUME SealInv, NEW r \in Runs, Seal!Die(r), dirOf' = dirOf,
         UNCHANGED <<content, manifest, readOnly, sealed, opened, late>>
  PROVE  SealInv'
<1>1. /\ pc' \in [Runs -> Seal!Stages]
      /\ did' \in [Runs -> SUBSET (OutputFiles \cup {Seal!Manifest})]
      /\ rec' \in [Runs -> Seal!Owners] /\ pc'[r] = "dead"
      /\ \A q \in Runs \ {r} : pc'[q] = pc[q] /\ did'[q] = did[q] /\ rec'[q] = rec[q]
  BY SealEnters DEF Seal!Die, Seal!Stages
<1>2. /\ handle' \in [Runs -> OutputFiles \cup {Seal!Manifest, None}] /\ handle'[r] = None
      /\ \A q \in Runs \ {r} : handle'[q] = handle[q]
  BY DEF SealInv, Seal!TypeOK, Seal!Die
<1>3. Seal!TypeOK'
  BY <1>1, <1>2 DEF SealInv, Seal!TypeOK
<1>4. RunInv(r)'
  BY <1>1, <1>2
     DEF RunInv, HasDir, Holds, ProtectedSoFar, CheckedProtected, CheckedSoFar, IntactWhenDone
<1>5. ASSUME NEW q \in Runs \ {r} PROVE RunInv(q)'
  <2>1. /\ pc'[q] = pc[q] /\ did'[q] = did[q] /\ rec'[q] = rec[q] /\ handle'[q] = handle[q]
        /\ RunInv(q)
    BY <1>1, <1>2 DEF SealInv
  <2> QED
    BY <2>1
       DEF RunInv, HasDir, Holds, ProtectedSoFar, CheckedProtected, CheckedSoFar,
           IntactWhenDone, Seal!Intact, Protected
<1> QED BY <1>3, <1>4, <1>5 DEF SealInv

(* A run that writes nothing to the directories.                           *)
LEMMA SealRunSteps ==
  ASSUME SealInv, NEW r \in Runs,
         \/ Seal!Begin(r) \/ Seal!Quantized(r) \/ Seal!Checksum(r) \/ Seal!ReadManifest(r)
         \/ Seal!Compare(r) \/ Seal!Done(r) \/ Seal!Killed(r)
  PROVE  SealInv'
<1>0. Seal!TypeOK /\ \A q \in Runs : RunInv(q)
  BY DEF SealInv
<1>d. UNCHANGED <<content, manifest, readOnly, sealed, opened, late>>
  BY DEF Seal!Begin, Seal!Quantized, Seal!Checksum, Seal!ReadManifest, Seal!Compare, Seal!Done,
         Seal!Killed, Seal!disk
<1>o. ASSUME NEW q \in Runs, pc'[q] = pc[q], did'[q] = did[q], rec'[q] = rec[q],
             dirOf'[q] = dirOf[q], handle'[q] = handle[q]
      PROVE  RunInv(q)'
  BY <1>0, <1>d, <1>o
     DEF RunInv, HasDir, Holds, ProtectedSoFar, CheckedProtected, CheckedSoFar, IntactWhenDone,
         Seal!Intact, Protected
<1>1. CASE Seal!Begin(r)
  <2>1. PICK d \in Seal!Dirs : dirOf' = [dirOf EXCEPT ![r] = d]
    BY <1>1 DEF Seal!Begin
  <2>2. pc[r] = "new" /\ \E to \in {"quantize", "dead"} : Seal!Enter(r, to)
    BY <1>1 DEF Seal!Begin, Seal!Goto, Seal!Die
  <2>3. /\ pc' \in [Runs -> Seal!Stages]
        /\ did' \in [Runs -> SUBSET (OutputFiles \cup {Seal!Manifest})]
        /\ rec' \in [Runs -> Seal!Owners] /\ pc'[r] \in {"quantize", "dead"}
        /\ \A q \in Runs \ {r} : pc'[q] = pc[q] /\ did'[q] = did[q] /\ rec'[q] = rec[q]
    <3>1. \A to \in {"quantize", "dead"} : to \in Seal!Stages
      BY DEF Seal!Stages
    <3> QED BY <2>2, <3>1, SealEnters
  <2>4. handle[r] = None
    BY <1>0, <2>2 DEF RunInv, Holds
  <2>5. handle' = handle
    <3>1. handle' = handle \/ handle' = [handle EXCEPT ![r] = None]
      BY <1>1 DEF Seal!Begin, Seal!Die
    <3> QED BY <1>0, <2>4, <3>1 DEF Seal!TypeOK
  <2>6. dirOf' \in [Runs -> Seal!Dirs \cup {None}] /\ dirOf'[r] \in Seal!Dirs
        /\ \A q \in Runs \ {r} : dirOf'[q] = dirOf[q]
    BY <1>0, <2>1 DEF Seal!TypeOK
  <2>7. Seal!TypeOK'
    BY <1>0, <1>d, <2>3, <2>5, <2>6 DEF Seal!TypeOK
  <2>8. RunInv(r)'
    BY <2>3, <2>4, <2>5, <2>6
       DEF RunInv, HasDir, Holds, ProtectedSoFar, CheckedProtected, CheckedSoFar, IntactWhenDone
  <2> QED BY <1>o, <2>3, <2>5, <2>6, <2>7, <2>8 DEF SealInv
<1>2. CASE Seal!Quantized(r) \/ Seal!Done(r)
  <2>1. UNCHANGED <<dirOf, handle>> /\ did[r] \subseteq OutputFiles \cup {Seal!Manifest}
    BY <1>0, <1>2 DEF Seal!Quantized, Seal!Done, Seal!TypeOK
  <2>2. /\ \/ pc[r] = "quantize" /\ Seal!Enter(r, "seal") /\ did[r] = OutputFiles
           \/ /\ pc[r] = "check" /\ Seal!Enter(r, "done")
              /\ did[r] = OutputFiles \cup {Seal!Manifest}
    BY <1>2 DEF Seal!Quantized, Seal!Done, Seal!Goto
  <2>3. /\ pc' \in [Runs -> Seal!Stages]
        /\ did' \in [Runs -> SUBSET (OutputFiles \cup {Seal!Manifest})]
        /\ rec' \in [Runs -> Seal!Owners] /\ did'[r] = {}
        /\ pc'[r] = IF pc[r] = "quantize" THEN "seal" ELSE "done"
        /\ \A q \in Runs \ {r} : pc'[q] = pc[q] /\ did'[q] = did[q] /\ rec'[q] = rec[q]
    <3>1. "seal" \in Seal!Stages /\ "done" \in Seal!Stages
      BY DEF Seal!Stages
    <3> QED BY <2>2, <3>1, SealEnters
  <2>4. Seal!TypeOK'
    BY <1>0, <1>d, <2>1, <2>3 DEF Seal!TypeOK
  <2>5. RunInv(r)'
    <3>1. CASE pc[r] = "quantize"
      <4>1. handle[r] = None
        BY <1>0, <2>2, <3>1 DEF RunInv, Holds
      <4> QED
        BY <1>0, <2>1, <2>3, <3>1, <4>1
           DEF RunInv, HasDir, Holds, ProtectedSoFar, CheckedProtected, CheckedSoFar,
               IntactWhenDone
    <3>2. CASE pc[r] = "check"
      <4>1. handle[r] = None
        BY <1>0, <3>2 DEF RunInv, Holds
      <4>2. dirOf[r] \notin opened \cup late => Seal!Intact(dirOf[r])
        BY <1>0, <2>2, <3>2 DEF RunInv, CheckedSoFar, Seal!Intact
      <4> QED
        BY <1>0, <1>d, <2>1, <2>3, <3>2, <4>1, <4>2
           DEF RunInv, HasDir, Holds, ProtectedSoFar, CheckedProtected, CheckedSoFar,
               IntactWhenDone, Seal!Intact, Protected
    <3> QED BY <2>2, <3>1, <3>2
  <2> QED BY <1>o, <2>1, <2>3, <2>4, <2>5 DEF SealInv
<1>3. CASE Seal!Checksum(r)
  <2>1. PICK f \in OutputFiles \ did[r] :
          rec' = [rec EXCEPT ![r][f] = content[dirOf[r]][f]] /\ Seal!DoneWith(r, f)
    BY <1>3 DEF Seal!Checksum
  <2>2. UNCHANGED <<dirOf, handle>> /\ pc[r] = "seal" /\ dirOf[r] \in Seal!Dirs
    BY <1>0, <1>3 DEF Seal!Checksum, RunInv, HasDir
  <2>3. rec' \in [Runs -> Seal!Owners] /\ \A q \in Runs \ {r} : rec'[q] = rec[q]
    <3>1. content[dirOf[r]][f] \in Seq(Runs) \cup {None}
      BY <1>0, <2>2 DEF Seal!TypeOK, Seal!Owners
    <3> QED BY <1>0, <2>1, <3>1 DEF Seal!TypeOK, Seal!Owners
  <2>4. /\ did' \in [Runs -> SUBSET (OutputFiles \cup {Seal!Manifest})] /\ pc' = pc
        /\ \A q \in Runs \ {r} : did'[q] = did[q]
    BY <2>1, SealDoneWith
  <2>5. Seal!TypeOK'
    BY <1>0, <1>d, <2>2, <2>3, <2>4 DEF Seal!TypeOK
  <2>6. RunInv(r)'
    BY <1>0, <1>d, <2>2, <2>4
       DEF RunInv, HasDir, Holds, ProtectedSoFar, CheckedProtected, CheckedSoFar, IntactWhenDone
  <2> QED BY <1>o, <2>2, <2>3, <2>4, <2>5, <2>6 DEF SealInv
<1>4. CASE Seal!ReadManifest(r)
  <2>1. pc[r] = "check" /\ UNCHANGED dirOf /\ Seal!Manifest \notin did[r]
    BY <1>4 DEF Seal!ReadManifest
  <2>2. CASE manifest[dirOf[r]] \in {None, Torn}
    BY <1>4, <1>d, <2>1, <2>2, SealDies DEF Seal!ReadManifest
  <2>3. CASE manifest[dirOf[r]] \notin {None, Torn}
    <3>1. /\ rec' = [rec EXCEPT ![r] = manifest[dirOf[r]]]
          /\ Seal!DoneWith(r, Seal!Manifest) /\ handle' = handle
      BY <1>4, <2>3 DEF Seal!ReadManifest
    <3>2. dirOf[r] \in Seal!Dirs /\ handle[r] = None /\ did[r] = {}
      BY <1>0, <2>1 DEF RunInv, HasDir, Holds, CheckedSoFar
    <3>3. /\ rec' \in [Runs -> Seal!Owners] /\ rec'[r] = manifest[dirOf[r]]
          /\ \A q \in Runs \ {r} : rec'[q] = rec[q]
      BY <1>0, <2>3, <3>1, <3>2 DEF Seal!TypeOK
    <3>4. /\ did' \in [Runs -> SUBSET (OutputFiles \cup {Seal!Manifest})] /\ pc' = pc
          /\ did'[r] = {Seal!Manifest} /\ \A q \in Runs \ {r} : did'[q] = did[q]
      BY <3>1, <3>2, SealDoneWith
    <3>5. Seal!TypeOK'
      BY <1>0, <1>d, <2>1, <3>1, <3>3, <3>4 DEF Seal!TypeOK
    <3>6. RunInv(r)'
      BY <1>0, <1>d, <2>1, <2>3, <3>1, <3>2, <3>3, <3>4, ManifestIsNoFile
         DEF RunInv, HasDir, Holds, ProtectedSoFar, CheckedProtected, CheckedSoFar,
             IntactWhenDone, Protected
    <3> QED BY <1>o, <2>1, <3>1, <3>3, <3>4, <3>5, <3>6 DEF SealInv
  <2> QED BY <2>2, <2>3
<1>5. CASE Seal!Compare(r)
  <2>1. PICK f \in OutputFiles \ did[r] :
          IF content[dirOf[r]][f] = rec[r][f]
          THEN Seal!DoneWith(r, f) /\ UNCHANGED <<handle, rec>> ELSE Seal!Die(r)
    BY <1>5 DEF Seal!Compare
  <2>2. pc[r] = "check" /\ UNCHANGED dirOf /\ Seal!Manifest \in did[r]
    BY <1>5 DEF Seal!Compare
  <2>3. CASE content[dirOf[r]][f] # rec[r][f]
    BY <1>d, <2>1, <2>2, <2>3, SealDies
  <2>4. CASE content[dirOf[r]][f] = rec[r][f]
    <3>1. /\ did' \in [Runs -> SUBSET (OutputFiles \cup {Seal!Manifest})] /\ pc' = pc
          /\ did'[r] = did[r] \cup {f} /\ \A q \in Runs \ {r} : did'[q] = did[q]
          /\ UNCHANGED <<handle, rec>>
      BY <2>1, <2>4, SealDoneWith
    <3>2. Seal!TypeOK'
      BY <1>0, <1>d, <2>2, <3>1 DEF Seal!TypeOK
    <3>3. RunInv(r)'
      BY <1>0, <1>d, <2>2, <2>4, <3>1
         DEF RunInv, HasDir, Holds, ProtectedSoFar, CheckedProtected, CheckedSoFar,
             IntactWhenDone, Protected
    <3> QED BY <1>o, <2>2, <3>1, <3>2, <3>3 DEF SealInv
  <2> QED BY <2>3, <2>4
<1>6. CASE Seal!Killed(r)
  BY <1>6, <1>d, SealDies DEF Seal!Killed
<1> QED BY <1>1, <1>2, <1>3, <1>4, <1>5, <1>6

(* A write leaves alone what has been compared: an open fails on it, and a *)
(* write to what was open before makes the directory late.                 *)
LEMMA ComparedStays ==
  ASSUME SealInv, NEW r \in Runs, dirOf[r] \in Seal!Dirs,
         NEW f \in OutputFiles \cup {Seal!Manifest},
         NEW q \in Runs, pc[q] = "done" \/ (pc[q] = "check" /\ f \in did[q]),
         dirOf[q] = dirOf[r], dirOf[q] \notin opened
  PROVE  /\ ~Seal!Writable(dirOf[r], f)
         /\ Seal!Written(r, f) => dirOf[q] \in late'
<1>1. Protected(dirOf[r])
  BY DEF SealInv, RunInv, CheckedProtected
<1>2. ~Seal!Writable(dirOf[r], f)
  BY <1>1 DEF Protected, Seal!Writable
<1>3. Seal!Compared(dirOf[r], f)
  BY DEF Seal!Compared
<1> QED BY <1>1, <1>2, <1>3 DEF Protected, Seal!Written

(* A run that writes: it opens or writes a file or the manifest.           *)
LEMMA SealWriteSteps ==
  ASSUME SealInv, NEW r \in Runs,
         \/ Seal!OpenFile(r) \/ Seal!WriteFile(r)
         \/ Seal!OpenManifest(r) \/ Seal!WriteManifest(r)
  PROVE  SealInv'
<1>0. Seal!TypeOK /\ \A q \in Runs : RunInv(q)
  BY DEF SealInv
<1>1. /\ UNCHANGED <<dirOf, readOnly, sealed, opened>>
      /\ pc[r] \in {"quantize", "seal"} /\ dirOf[r] \in Seal!Dirs
  BY <1>0
     DEF Seal!OpenFile, Seal!WriteFile, Seal!OpenManifest, Seal!WriteManifest, Seal!Goto, RunInv,
         HasDir
<1> DEFINE F == IF pc[r] = "quantize" THEN OutputFiles ELSE {Seal!Manifest}
(* What any of them does to the disk: it writes g, which nobody compared,  *)
(* or the directory becomes late.                                          *)
<1>2. ASSUME NEW g \in OutputFiles \cup {Seal!Manifest},
             Seal!TypeOK', late \subseteq late',
             \A q \in Runs \ {r} :
               pc'[q] = pc[q] /\ did'[q] = did[q] /\ rec'[q] = rec[q] /\ handle'[q] = handle[q],
             Seal!Writable(dirOf[r], g) \/ Seal!Written(r, g),
             \A d \in Seal!Dirs, f \in OutputFiles :
               \/ d = dirOf[r] /\ f = g /\ content'[d][f] \in Seq(Runs)
               \/ content'[d][f] = content[d][f],
             \A d \in Seal!Dirs :
               \/ d = dirOf[r] /\ g = Seal!Manifest /\ manifest'[d] \in Seal!Owners \cup {Torn}
               \/ manifest'[d] = manifest[d],
             pc'[r] \in {"quantize", "seal", "protect"},
             pc'[r] = "protect" => did'[r] = {},
             Holds(r)'
      PROVE  SealInv'
  <2>1. RunInv(r)'
    BY <1>1, <1>2
       DEF RunInv, HasDir, ProtectedSoFar, CheckedProtected, CheckedSoFar, IntactWhenDone
  <2>2. ASSUME NEW q \in Runs \ {r} PROVE RunInv(q)'
    <3>1. /\ pc'[q] = pc[q] /\ did'[q] = did[q] /\ rec'[q] = rec[q] /\ handle'[q] = handle[q]
          /\ dirOf'[q] = dirOf[q] /\ RunInv(q)
      BY <1>0, <1>1, <1>2
    <3>2. HasDir(q)' /\ ProtectedSoFar(q)' /\ CheckedProtected(q)'
      BY <1>1, <3>1 DEF RunInv, HasDir, ProtectedSoFar, CheckedProtected, Protected
    <3>3. Holds(q)'
      <4>1. CASE handle[q] = None
        BY <3>1, <4>1 DEF Holds
      <4>2. CASE handle[q] # None
        <5>1. dirOf[q] \in Seal!Dirs
          BY <3>1, <4>2 DEF RunInv, Holds, HasDir
        <5>2. CASE pc[q] = "quantize"
          <6>1. /\ handle[q] \in OutputFiles \ did[q]
                /\ content[dirOf[q]][handle[q]] \in Seq(Runs)
            BY <3>1, <4>2, <5>2 DEF RunInv, Holds
          <6>2. content'[dirOf[q]][handle[q]] \in Seq(Runs)
            BY <1>2, <5>1, <6>1
          <6> QED BY <3>1, <5>2, <6>1, <6>2 DEF Holds
        <5>3. CASE pc[q] # "quantize"
          <6>1. /\ pc[q] = "seal" /\ handle[q] = Seal!Manifest
                /\ manifest[dirOf[q]] \in Seal!Owners \cup {Torn}
            BY <3>1, <4>2, <5>3 DEF RunInv, Holds
          <6>2. manifest'[dirOf[q]] \in Seal!Owners \cup {Torn}
            BY <1>2, <5>1, <6>1
          <6>3. Seal!Owners' = Seal!Owners
            BY DEF Seal!Owners
          <6> QED BY <3>1, <6>1, <6>2, <6>3 DEF Holds
        <5> QED BY <5>2, <5>3
      <4> QED BY <4>1, <4>2
    <3>4. ASSUME pc[q] \in {"check", "done"}, dirOf[q] \notin opened \cup late'
          PROVE  /\ \A f \in OutputFiles : pc[q] = "done" \/ f \in did[q] =>
                      content'[dirOf[q]][f] = content[dirOf[q]][f]
                 /\ pc[q] = "done" \/ Seal!Manifest \in did[q] =>
                      manifest'[dirOf[q]] = manifest[dirOf[q]]
      <4>1. dirOf[q] \in Seal!Dirs
        BY <3>1, <3>4 DEF RunInv, HasDir
      <4>2. ASSUME dirOf[q] = dirOf[r] PROVE ~(pc[q] = "done" \/ g \in did[q])
        BY <1>1, <1>2, <3>4, <4>2, ComparedStays
      <4> QED BY <1>2, <4>1, <4>2, ManifestIsNoFile
    <3>5. CheckedSoFar(q)'
      <4>1. pc[q] = "check" /\ did[q] # {} => Seal!Manifest \in did[q]
        BY <3>1 DEF RunInv, CheckedSoFar
      <4>2. ASSUME pc[q] = "check", did[q] # {}, dirOf[q] \notin opened \cup late'
            PROVE  /\ manifest'[dirOf[q]] = rec[q] /\ manifest'[dirOf[q]] \notin {None, Torn}
                   /\ \A f \in OutputFiles \cap did[q] : content'[dirOf[q]][f] = rec[q][f]
        <5>1. dirOf[q] \notin opened \cup late
          BY <1>2, <4>2
        <5> QED BY <3>1, <3>4, <4>1, <4>2, <5>1 DEF RunInv, CheckedSoFar
      <4> QED BY <1>1, <3>1, <4>1, <4>2 DEF CheckedSoFar
    <3>6. IntactWhenDone(q)'
      <4>1. ASSUME pc[q] = "done", dirOf[q] \notin opened \cup late'
            PROVE  Seal!Intact(dirOf[q])'
        <5>1. dirOf[q] \notin opened \cup late
          BY <1>2, <4>1
        <5>2. Seal!Intact(dirOf[q])
          BY <3>1, <4>1, <5>1 DEF RunInv, IntactWhenDone
        <5> QED BY <1>1, <3>1, <3>4, <4>1, <5>2 DEF Seal!Intact
      <4> QED BY <1>1, <3>1, <4>1 DEF IntactWhenDone
    <3> QED BY <3>2, <3>3, <3>5, <3>6 DEF RunInv
  <2> QED BY <1>2, <2>1, <2>2 DEF SealInv
<1>3. CASE Seal!OpenFile(r)
  <2>1. PICK f \in OutputFiles \ did[r] :
          IF Seal!Writable(dirOf[r], f)
          THEN /\ content' = [content EXCEPT ![dirOf[r]][f] = <<>>]
               /\ handle' = [handle EXCEPT ![r] = f] /\ UNCHANGED <<pc, did, rec>>
          ELSE Seal!Die(r) /\ UNCHANGED content
    BY <1>3 DEF Seal!OpenFile
  <2>2. pc[r] = "quantize" /\ UNCHANGED <<manifest, late>>
    BY <1>3 DEF Seal!OpenFile
  <2>3. CASE ~Seal!Writable(dirOf[r], f)
    BY <1>1, <2>1, <2>2, <2>3, SealDies
  <2>4. CASE Seal!Writable(dirOf[r], f)
    <3>1. /\ content' = [content EXCEPT ![dirOf[r]][f] = <<>>]
          /\ handle' = [handle EXCEPT ![r] = f] /\ UNCHANGED <<pc, did, rec>>
      BY <2>1, <2>4
    <3>2. /\ content' \in [Seal!Dirs -> Seal!Owners]
          /\ \A d \in Seal!Dirs, g \in OutputFiles :
               content'[d][g] = IF d = dirOf[r] /\ g = f THEN <<>> ELSE content[d][g]
      BY <1>0, <1>1, <3>1 DEF Seal!TypeOK, Seal!Owners
    <3>3. Seal!TypeOK' /\ handle'[r] = f /\ \A q \in Runs \ {r} : handle'[q] = handle[q]
      BY <1>0, <1>1, <2>2, <3>1, <3>2 DEF Seal!TypeOK
    <3>4. content'[dirOf[r]][f] \in Seq(Runs)
      <4>1. <<>> \in Seq(Runs)
        OBVIOUS
      <4> QED BY <1>1, <3>2, <4>1
    <3>5. Holds(r)'
      BY <1>1, <2>1, <2>2, <3>1, <3>3, <3>4 DEF Holds
    <3> QED BY <1>1, <1>2, <2>2, <2>4, <3>1, <3>2, <3>3, <3>4, <3>5
  <2> QED BY <2>3, <2>4
<1>4. CASE Seal!WriteFile(r)
  <2>1. /\ pc[r] = "quantize" /\ handle[r] # None /\ UNCHANGED <<rec, manifest>>
        /\ content' = [content EXCEPT ![dirOf[r]][handle[r]] = Append(@, r)]
        /\ Seal!Written(r, handle[r]) /\ Seal!DoneWith(r, handle[r])
    BY <1>4 DEF Seal!WriteFile
  <2>2. handle[r] \in OutputFiles /\ content[dirOf[r]][handle[r]] \in Seq(Runs)
    BY <1>0, <2>1 DEF RunInv, Holds
  <2>3. PICK f \in OutputFiles : f = handle[r]
    BY <2>2
  <2>4. PICK s \in Seq(Runs) : s = Append(content[dirOf[r]][f], r)
    <3>1. \A c \in Seq(Runs) : Append(c, r) \in Seq(Runs)
      OBVIOUS
    <3>2. content[dirOf[r]][f] \in Seq(Runs)
      BY <2>2, <2>3
    <3> QED BY <3>1, <3>2
  <2>5. content' = [content EXCEPT ![dirOf[r]][f] = s]
    BY <2>1, <2>3, <2>4
  <2>6. /\ content' \in [Seal!Dirs -> Seal!Owners]
        /\ \A d \in Seal!Dirs, g \in OutputFiles :
             content'[d][g] = IF d = dirOf[r] /\ g = f THEN s ELSE content[d][g]
    BY <1>0, <1>1, <2>5 DEF Seal!TypeOK, Seal!Owners
  <2>7. /\ did' \in [Runs -> SUBSET (OutputFiles \cup {Seal!Manifest})] /\ pc' = pc
        /\ \A q \in Runs \ {r} : did'[q] = did[q]
    BY <2>1, <2>2, SealDoneWith
  <2>8. /\ handle' \in [Runs -> OutputFiles \cup {Seal!Manifest, None}] /\ handle'[r] = None
        /\ \A q \in Runs \ {r} : handle'[q] = handle[q]
        /\ late \subseteq late' /\ late' \subseteq Seal!Dirs
    BY <1>0, <1>1, <2>1 DEF Seal!Written, Seal!TypeOK
  <2>9. Seal!TypeOK' /\ Holds(r)'
    BY <1>0, <1>1, <2>1, <2>6, <2>7, <2>8 DEF Seal!TypeOK, Holds
  <2>10. Seal!Written(r, f) /\ f \in OutputFiles \cup {Seal!Manifest}
    BY <2>1, <2>3
  <2>11. \A q \in Runs \ {r} :
           pc'[q] = pc[q] /\ did'[q] = did[q] /\ rec'[q] = rec[q] /\ handle'[q] = handle[q]
    BY <2>1, <2>7, <2>8
  <2>12. \A d \in Seal!Dirs, g \in OutputFiles :
           \/ d = dirOf[r] /\ g = f /\ content'[d][g] \in Seq(Runs)
           \/ content'[d][g] = content[d][g]
    BY <2>6
  <2>13. /\ \A d \in Seal!Dirs : manifest'[d] = manifest[d]
         /\ pc'[r] = "quantize"
    BY <2>1, <2>7
  <2> QED BY <1>2, <2>8, <2>9, <2>10, <2>11, <2>12, <2>13
<1>5. CASE Seal!OpenManifest(r)
  <2>1. pc[r] = "seal" /\ UNCHANGED <<content, late>>
    BY <1>5 DEF Seal!OpenManifest
  <2>2. CASE ~Seal!Writable(dirOf[r], Seal!Manifest)
    BY <1>1, <1>5, <2>1, <2>2, SealDies DEF Seal!OpenManifest
  <2>3. CASE Seal!Writable(dirOf[r], Seal!Manifest)
    <3>1. /\ manifest' = [manifest EXCEPT ![dirOf[r]] = Torn]
          /\ handle' = [handle EXCEPT ![r] = Seal!Manifest] /\ UNCHANGED <<pc, did, rec>>
      BY <1>5, <2>3 DEF Seal!OpenManifest
    <3>2. /\ manifest' \in [Seal!Dirs -> Seal!Owners \cup {None, Torn}]
          /\ \A d \in Seal!Dirs : manifest'[d] = IF d = dirOf[r] THEN Torn ELSE manifest[d]
      BY <1>0, <1>1, <3>1 DEF Seal!TypeOK
    <3>3. /\ Seal!TypeOK' /\ handle'[r] = Seal!Manifest
          /\ \A q \in Runs \ {r} : handle'[q] = handle[q]
      BY <1>0, <1>1, <2>1, <3>1, <3>2 DEF Seal!TypeOK
    <3>4. Holds(r)'
      BY <1>1, <2>1, <3>1, <3>2, <3>3 DEF Holds
    <3> QED BY <1>1, <1>2, <2>1, <2>3, <3>1, <3>2, <3>3, <3>4
  <2> QED BY <2>2, <2>3
<1>6. CASE Seal!WriteManifest(r)
  <2>1. /\ handle[r] = Seal!Manifest /\ UNCHANGED content /\ Seal!Written(r, Seal!Manifest)
        /\ pc[r] = "seal" /\ Seal!Enter(r, "protect")
    BY <1>6 DEF Seal!WriteManifest, Seal!Goto
  <2>2. PICK m \in Seal!Overlaid(manifest[dirOf[r]], rec[r]) :
          manifest' = [manifest EXCEPT ![dirOf[r]] = m]
    BY <1>6 DEF Seal!WriteManifest
  <2>3. handle[r] # None => manifest[dirOf[r]] \in Seal!Owners \cup {Torn}
    BY <1>0, <2>1 DEF RunInv, Holds
  <2>4. CASE handle[r] = None
    <3>1. /\ handle' = handle /\ \A q \in Runs \ {r} : handle'[q] = handle[q]
      BY <1>0, <2>1, <2>4 DEF Seal!Written, Seal!TypeOK
    <3>2. Seal!Manifest = None
      BY <2>1, <2>4
    <3> QED BY <3>2, RunsAssumption
  <2>5. CASE handle[r] # None
    <3>1. m \in Seal!Owners \cup {Torn}
      <4>1. rec[r] \in Seal!Owners
        BY <1>0 DEF Seal!TypeOK
      <4>2. CASE manifest[dirOf[r]] = Torn
        BY <2>2, <4>1, <4>2 DEF Seal!Overlaid
      <4>3. CASE manifest[dirOf[r]] # Torn
        <5>1. manifest[dirOf[r]] \in Seal!Owners
          BY <2>3, <2>5, <4>3
        <5>2. m = Torn \/ \E G \in SUBSET OutputFiles :
                m = [f \in OutputFiles |-> IF f \in G THEN manifest[dirOf[r]][f] ELSE rec[r][f]]
          BY <2>2, <4>3 DEF Seal!Overlaid
        <5> QED BY <4>1, <5>1, <5>2 DEF Seal!Owners
      <4> QED BY <4>2, <4>3
    <3>2. /\ manifest' \in [Seal!Dirs -> Seal!Owners \cup {None, Torn}]
          /\ \A d \in Seal!Dirs : manifest'[d] = IF d = dirOf[r] THEN m ELSE manifest[d]
      BY <1>0, <1>1, <2>2, <3>1 DEF Seal!TypeOK
    <3>3. /\ pc' \in [Runs -> Seal!Stages]
          /\ did' \in [Runs -> SUBSET (OutputFiles \cup {Seal!Manifest})]
          /\ rec' \in [Runs -> Seal!Owners] /\ pc'[r] = "protect" /\ did'[r] = {}
          /\ \A q \in Runs \ {r} : pc'[q] = pc[q] /\ did'[q] = did[q] /\ rec'[q] = rec[q]
      <4>1. "protect" \in Seal!Stages
        BY DEF Seal!Stages
      <4> QED BY <2>1, <4>1, SealEnters
    <3>4. /\ handle' \in [Runs -> OutputFiles \cup {Seal!Manifest, None}] /\ handle'[r] = None
          /\ \A q \in Runs \ {r} : handle'[q] = handle[q]
          /\ late \subseteq late' /\ late' \subseteq Seal!Dirs
      BY <1>0, <1>1, <2>1 DEF Seal!Written, Seal!TypeOK
    <3>5. Seal!TypeOK' /\ Holds(r)'
      BY <1>0, <1>1, <2>1, <3>2, <3>3, <3>4 DEF Seal!TypeOK, Holds
    <3> QED BY <1>1, <1>2, <2>1, <3>1, <3>2, <3>3, <3>4, <3>5
  <2> QED BY <2>4, <2>5
<1> QED BY <1>3, <1>4, <1>5, <1>6

LEMMA SealProtects ==
  ASSUME SealInv, NEW r \in Runs, Seal!Protect(r)
  PROVE  SealInv'
<1>0. /\ Seal!TypeOK /\ \A q \in Runs : RunInv(q)
      /\ UNCHANGED <<dirOf, handle, content, manifest, opened, late>>
  BY DEF SealInv, Seal!Protect
<1>1. pc[r] = "protect" /\ dirOf[r] \in Seal!Dirs /\ handle[r] = None
  BY <1>0 DEF Seal!Protect, Seal!Goto, RunInv, HasDir, Holds
<1>2. CASE Seal!Goto(r, "protect", "check")
           /\ Seal!Manifest \in did[r] /\ sealed' = sealed \cup {dirOf[r]} /\ UNCHANGED readOnly
  <2>1. /\ pc' \in [Runs -> Seal!Stages]
        /\ did' \in [Runs -> SUBSET (OutputFiles \cup {Seal!Manifest})]
        /\ rec' \in [Runs -> Seal!Owners] /\ pc'[r] = "check" /\ did'[r] = {}
        /\ \A q \in Runs \ {r} : pc'[q] = pc[q] /\ did'[q] = did[q] /\ rec'[q] = rec[q]
    <3>1. "check" \in Seal!Stages
      BY DEF Seal!Stages
    <3> QED BY <1>2, <3>1, SealEnters DEF Seal!Goto
  <2>2. Seal!TypeOK'
    BY <1>0, <1>1, <1>2, <2>1 DEF Seal!TypeOK
  <2>3. dirOf[r] \notin opened => readOnly[dirOf[r]] = OutputFiles \cup {Seal!Manifest}
    BY <1>0, <1>1, <1>2 DEF RunInv, ProtectedSoFar, Seal!TypeOK
  <2>4. ASSUME NEW q \in Runs PROVE RunInv(q)'
    BY <1>0, <1>1, <1>2, <2>1, <2>3
       DEF RunInv, HasDir, Holds, ProtectedSoFar, CheckedProtected, CheckedSoFar, IntactWhenDone,
           Seal!Intact, Protected
  <2> QED BY <2>2, <2>4 DEF SealInv
<1>3. CASE ~(Seal!Goto(r, "protect", "check")
             /\ Seal!Manifest \in did[r] /\ sealed' = sealed \cup {dirOf[r]}
             /\ UNCHANGED readOnly)
  <2>1. PICK f \in (IF OutputFiles \subseteq did[r] THEN {Seal!Manifest} ELSE OutputFiles) \ did[r] :
          /\ readOnly' = [readOnly EXCEPT ![dirOf[r]] = @ \cup {f}] /\ Seal!DoneWith(r, f)
          /\ UNCHANGED <<rec, sealed>>
    BY <1>3 DEF Seal!Protect
  <2>2. f \in OutputFiles \cup {Seal!Manifest}
    BY <2>1
  <2>3. /\ did' \in [Runs -> SUBSET (OutputFiles \cup {Seal!Manifest})] /\ pc' = pc
        /\ did'[r] = did[r] \cup {f} /\ \A q \in Runs \ {r} : did'[q] = did[q]
    BY <2>1, <2>2, SealDoneWith
  <2>4. /\ readOnly' \in [Seal!Dirs -> SUBSET (OutputFiles \cup {Seal!Manifest})]
        /\ \A d \in Seal!Dirs : readOnly[d] \subseteq readOnly'[d] /\ f \in readOnly'[dirOf[r]]
    BY <1>0, <1>1, <2>1, <2>2 DEF Seal!TypeOK
  <2>5. Seal!TypeOK'
    BY <1>0, <2>1, <2>3, <2>4 DEF Seal!TypeOK
  <2>6. ASSUME NEW d \in Seal!Dirs, Protected(d) PROVE Protected(d)'
    BY <2>1, <2>4, <2>6 DEF Protected
  <2>7. ASSUME NEW q \in Runs, q # r PROVE RunInv(q)'
    BY <1>0, <2>1, <2>3, <2>4, <2>6, <2>7
       DEF RunInv, HasDir, Holds, ProtectedSoFar, CheckedProtected, CheckedSoFar, IntactWhenDone,
           Seal!Intact
  <2>8. RunInv(r)'
    <3>1. Seal!Manifest \in did'[r] => OutputFiles \subseteq did'[r]
      BY <1>0, <1>1, <2>1, <2>3, ManifestIsNoFile DEF RunInv, ProtectedSoFar
    <3>2. dirOf[r] \notin opened => did'[r] \subseteq readOnly'[dirOf[r]]
      BY <1>0, <1>1, <2>3, <2>4 DEF RunInv, ProtectedSoFar
    <3> QED
      BY <1>0, <1>1, <2>3, <3>1, <3>2
         DEF RunInv, HasDir, Holds, ProtectedSoFar, CheckedProtected, CheckedSoFar,
             IntactWhenDone
  <2> QED BY <2>5, <2>7, <2>8 DEF SealInv
<1> QED BY <1>2, <1>3

LEMMA SealNext ==
  ASSUME SealInv, Seal!Next
  PROVE  SealInv'
<1>1. ASSUME NEW d \in Seal!Dirs, Seal!Unseal(d)
      PROVE  SealInv'
  <2>1. /\ d \in sealed /\ readOnly' = [readOnly EXCEPT ![d] = {}]
        /\ sealed' = sealed \ {d} /\ opened' = opened \cup {d}
        /\ UNCHANGED <<pc, dirOf, did, handle, rec, content, manifest, late>>
    BY <1>1 DEF Seal!Unseal
  <2>2. Seal!TypeOK'
    BY <2>1 DEF SealInv, Seal!TypeOK
  <2>3. \A c \in Seal!Dirs \ {d} : readOnly'[c] = readOnly[c]
    BY <2>1 DEF SealInv, Seal!TypeOK
  <2>4. ASSUME NEW q \in Runs PROVE RunInv(q)'
    BY <2>1, <2>3
       DEF SealInv, RunInv, HasDir, Holds, ProtectedSoFar, CheckedProtected, CheckedSoFar,
           IntactWhenDone, Seal!Intact, Protected
  <2> QED BY <2>2, <2>4 DEF SealInv
<1>2. ASSUME NEW r \in Runs, Seal!Begin(r) \/ Seal!Step(r) \/ Seal!Killed(r)
      PROVE  SealInv'
  BY <1>2, SealRunSteps, SealWriteSteps, SealProtects DEF Seal!Step
<1> QED BY <1>1, <1>2 DEF Seal!Next

LEMMA SealIntact ==
  ASSUME SealInv
  PROVE  Seal!DoneIsIntact
BY DEF SealInv, RunInv, IntactWhenDone, Seal!DoneIsIntact

-----------------------------------------------------------------------------
(* 07_patch_autoround.py.                                                  *)

(* A call is at a job; nothing is being written when there is no call.     *)
AtAJob ==
  IF op \in {"apply", "revert"} THEN at \in 1 .. Jobs ELSE writing = None

(* An apply has left a mark in every file before the one it is at, and it  *)
(* is an apply that makes backups, of files without a mark.                *)
MarkedSoFar ==
  /\ op = "apply" =>
       /\ \A j \in 1 .. Jobs : j < at => file[j].marked
       /\ writing # None /\ writing.to = "file" => writing.text.marked
  /\ writing # None /\ writing.to = "bak" => op = "apply" /\ ~writing.text.marked

WritingTo(w, j) == writing # None /\ writing.to = w /\ j = at

(* A file of the installed version, or of the version of its backup.       *)
HasLeft(j, text, m) ==
  text = Patch!Text(version, m) \/ (bak[j] # None /\ text = Patch!Text(bak[j].version, m))

(* Before the first killed call: what is not being written, and what is,   *)
(* is a whole file, a backup is an unedited one of a version there was,    *)
(* and a revert has restored what it passed.                               *)
GoodBackup(j) == bak[j] = None \/ \E v \in 1 .. version : bak[j] = Patch!Text(v, FALSE)

GoodJob(j) ==
  /\ WritingTo("bak", j) \/ GoodBackup(j)
  /\ WritingTo("bak", j) => file[j] = Patch!Text(version, FALSE)
  /\ WritingTo("file", j) \/ HasLeft(j, file[j], TRUE) \/ HasLeft(j, file[j], FALSE)
  /\ op = "revert" /\ j < at => HasLeft(j, file[j], FALSE)

GoodWriting ==
  writing # None =>
    /\ writing.to = "bak" => writing.text = Patch!Text(version, FALSE)
    /\ writing.to = "file" /\ op = "apply" => HasLeft(at, writing.text, TRUE)
    /\ writing.to = "file" /\ op = "revert" => HasLeft(at, writing.text, FALSE)

Undisturbed == kills = 0 => GoodWriting /\ \A j \in 1 .. Jobs : GoodJob(j)

PatchInv == Patch!TypeOK /\ AtAJob /\ MarkedSoFar /\ Undisturbed

LEMMA PatchSizes ==
  /\ Jobs \in Nat /\ Versions \in Nat /\ Kills \in Nat
  /\ Jobs > 0 /\ Versions > 0 /\ None \notin {0, 1, 2} /\ None \notin Patch!Writings
BY SizesAssumption DEF Patch!SizesOK

LEMMA PatchTexts ==
  ASSUME NEW v \in 0 .. Versions, NEW m \in BOOLEAN
  PROVE  Patch!Text(v, m) \in Patch!Texts
BY DEF Patch!Text, Patch!Texts

LEMMA PatchFields ==
  ASSUME NEW v, NEW m \in BOOLEAN
  PROVE  /\ Patch!Text(v, m).marked = m /\ Patch!Text(v, m).version = v
         /\ \A n \in BOOLEAN : Patch!Mark(Patch!Text(v, m), n) = Patch!Text(v, n)
BY DEF Patch!Text, Patch!Mark

LEMMA HasLeftIsMarked ==
  ASSUME NEW j, NEW text, NEW m \in BOOLEAN, HasLeft(j, text, m)
  PROVE  text.marked = m
BY PatchFields DEF HasLeft

LEMMA PatchMarks ==
  ASSUME NEW text \in Patch!Texts, NEW m \in BOOLEAN
  PROVE  Patch!Mark(text, m) \in Patch!Texts /\ Patch!Mark(text, m).marked = m
BY DEF Patch!Texts, Patch!Mark

LEMMA PatchCuts ==
  ASSUME NEW text \in Patch!Texts, NEW cut \in Patch!CutOff(text)
  PROVE  cut \in Patch!Texts /\ (cut.marked => text.marked)
<1>1. 0 \in 0 .. Versions
  BY PatchSizes
<1>2. CASE cut = [version |-> 0, marked |-> FALSE, whole |-> FALSE]
  BY <1>1, <1>2 DEF Patch!Texts
<1>3. CASE cut = [version |-> text.version, marked |-> text.marked, whole |-> FALSE]
  BY <1>3 DEF Patch!Texts
<1> QED BY <1>2, <1>3 DEF Patch!CutOff

LEMMA PatchInit ==
  ASSUME Patch!Init
  PROVE  PatchInv
<1>1. fits \subseteq (1 .. Jobs) \X (1 .. Versions) /\ version \in 1 .. Versions
  BY PatchSizes DEF Patch!Init
<1>2. /\ file = [j \in 1 .. Jobs |-> Patch!Text(1, FALSE)] /\ bak = [j \in 1 .. Jobs |-> None]
      /\ op = "none" /\ at = 0 /\ writing = None /\ code = 0 /\ kills = 0 /\ version = 1
  BY DEF Patch!Init
<1>3. Patch!TypeOK
  <2>0. 1 \in 0 .. Versions
    BY PatchSizes
  <2>1. Patch!Text(1, FALSE) \in Patch!Texts
    BY <2>0, PatchTexts
  <2>2. file \in [1 .. Jobs -> Patch!Texts]
    BY <1>2, <2>1
  <2>3. bak \in [1 .. Jobs -> {t \in Patch!Texts : ~t.marked} \cup {None}]
    BY <1>2
  <2>4. at \in 0 .. Jobs /\ kills \in 0 .. Kills
    BY <1>2, PatchSizes
  <2> QED BY <1>1, <1>2, <2>2, <2>3, <2>4 DEF Patch!TypeOK
<1>4. AtAJob /\ MarkedSoFar /\ Undisturbed
  BY <1>2
     DEF AtAJob, MarkedSoFar, Undisturbed, GoodWriting, GoodJob, GoodBackup, WritingTo, HasLeft
<1> QED BY <1>3, <1>4 DEF PatchInv

(* A job whose files nobody writes.                                        *)
LEMMA JobStays ==
  ASSUME NEW j \in 1 .. Jobs, GoodJob(j), bak'[j] = bak[j], file'[j] = file[j],
         version' = version, ~WritingTo("bak", j), ~WritingTo("file", j), ~WritingTo("bak", j)',
         op' = "revert" /\ j < at' => HasLeft(j, file[j], FALSE)
  PROVE  GoodJob(j)'
<1>1. GoodBackup(j)'
  BY DEF GoodJob, GoodBackup
<1>2. \A m \in BOOLEAN : HasLeft(j, file[j], m)' <=> HasLeft(j, file[j], m)
  BY DEF HasLeft
<1> QED BY <1>1, <1>2 DEF GoodJob

(* The steps between two jobs, or two calls, which write no file.          *)
LEMMA PatchCallSteps ==
  ASSUME PatchInv,
         \/ Patch!Call \/ Patch!Check \/ Patch!Checked \/ Patch!Skip \/ Patch!Refuse \/ Patch!Kill
  PROVE  PatchInv'
<1>0. /\ Patch!TypeOK /\ AtAJob /\ MarkedSoFar /\ Undisturbed
      /\ UNCHANGED <<fits, version, file, bak>>
  BY DEF PatchInv, Patch!Call, Patch!Check, Patch!Checked, Patch!Skip, Patch!Refuse, Patch!Kill
<1>u. ASSUME writing = None, writing' = None, kills' = kills,
             \A j \in 1 .. Jobs :
               kills = 0 /\ op' = "revert" /\ j < at' => HasLeft(j, file[j], FALSE)
      PROVE  Undisturbed'
  <2>1. SUFFICES ASSUME kills = 0 PROVE GoodWriting' /\ \A j \in 1 .. Jobs : GoodJob(j)'
    BY <1>u DEF Undisturbed
  <2>2. \A j \in 1 .. Jobs : GoodJob(j)
    BY <1>0, <2>1 DEF Undisturbed
  <2> QED BY <1>0, <1>u, <2>1, <2>2, JobStays DEF GoodWriting, WritingTo
<1>1. CASE Patch!Call
  <2>1. /\ op = "none" /\ op' \in {"apply", "revert"} /\ at' = 1 /\ writing = None
        /\ UNCHANGED <<writing, code, kills>>
    BY <1>0, <1>1 DEF Patch!Call, AtAJob
  <2>2. at' \in 1 .. Jobs /\ \A j \in 1 .. Jobs : ~(j < at')
    BY <2>1, PatchSizes
  <2>3. Patch!TypeOK' /\ AtAJob' /\ MarkedSoFar'
    BY <1>0, <2>1, <2>2, PatchSizes DEF Patch!TypeOK, AtAJob, MarkedSoFar
  <2> QED BY <1>u, <2>1, <2>2, <2>3 DEF PatchInv
<1>2. CASE Patch!Check \/ Patch!Checked
  <2>1. /\ op' \in {"none", "checked"} /\ op \in {"none", "checked"} /\ code' \in {0, 1, 2, None}
        /\ UNCHANGED <<at, writing, kills>> /\ writing = None
    BY <1>0, <1>2 DEF Patch!Check, Patch!Checked, Patch!Status, Patch!TypeOK, AtAJob
  <2>2. Patch!TypeOK' /\ AtAJob' /\ MarkedSoFar'
    BY <1>0, <2>1 DEF Patch!TypeOK, AtAJob, MarkedSoFar
  <2> QED BY <1>u, <2>1, <2>2 DEF PatchInv
<1>3. CASE Patch!Skip
  <2>1. /\ op \in {"apply", "revert"} /\ writing = None /\ (op = "apply" <=> file[at].marked)
        /\ at \in 1 .. Jobs /\ UNCHANGED <<writing, kills>>
        /\ \/ op' = "none" /\ at' = 0 /\ code' = 0
           \/ at' = at + 1 /\ at # Jobs /\ UNCHANGED <<op, code>>
    BY <1>0, <1>3 DEF Patch!Skip, Patch!NextJob, AtAJob, Patch!Marked
  <2>2. Patch!TypeOK' /\ AtAJob' /\ MarkedSoFar'
    BY <1>0, <2>1, PatchSizes DEF Patch!TypeOK, AtAJob, MarkedSoFar
  <2>3. ASSUME NEW j \in 1 .. Jobs, kills = 0, op' = "revert", j < at'
        PROVE  HasLeft(j, file[j], FALSE)
    <3>1. GoodJob(j) /\ op = "revert" /\ j <= at /\ ~WritingTo("file", j)
      BY <1>0, <2>1, <2>3, PatchSizes DEF Undisturbed, WritingTo
    <3>2. CASE j < at
      BY <3>1, <3>2 DEF GoodJob
    <3>3. CASE j = at
      <4>1. ~file[j].marked
        BY <2>1, <3>1, <3>3
      <4>2. HasLeft(j, file[j], TRUE) \/ HasLeft(j, file[j], FALSE)
        BY <3>1 DEF GoodJob
      <4> QED BY <4>1, <4>2, HasLeftIsMarked
    <3>4. j < at \/ j = at
      <4>1. j \in Int /\ at \in Int /\ j <= at
        BY <2>1, <3>1, PatchSizes
      <4> QED BY <4>1
    <3> QED BY <3>2, <3>3, <3>4
  <2>4. Undisturbed'
    BY <1>u, <2>1, <2>3
  <2> QED BY <2>2, <2>4 DEF PatchInv
<1>4. CASE Patch!Refuse
  <2>1. /\ op' = "none" /\ at' = 0 /\ code' = 2 /\ writing = None /\ UNCHANGED <<writing, kills>>
    BY <1>4 DEF Patch!Refuse
  <2>2. Patch!TypeOK' /\ AtAJob' /\ MarkedSoFar'
    BY <1>0, <2>1, PatchSizes DEF Patch!TypeOK, AtAJob, MarkedSoFar
  <2> QED BY <1>u, <2>1, <2>2 DEF PatchInv
<1>5. CASE Patch!Kill
  <2>1. /\ op' = "none" /\ at' = 0 /\ code' = None /\ writing' = None
        /\ kills' = kills + 1 /\ kills < Kills /\ kills \in Nat
    BY <1>0, <1>5, PatchSizes DEF Patch!Kill, Patch!TypeOK
  <2>2. kills' # 0 /\ kills' \in 0 .. Kills /\ at' \in 0 .. Jobs
    BY <2>1, PatchSizes
  <2> QED
    BY <1>0, <2>1, <2>2 DEF PatchInv, Patch!TypeOK, AtAJob, MarkedSoFar, Undisturbed
<1> QED BY <1>1, <1>2, <1>3, <1>4, <1>5

LEMMA PatchUpgrade ==
  ASSUME PatchInv, Patch!Upgrade
  PROVE  PatchInv'
<1>1. /\ op = "none" /\ version' = version + 1 /\ code' = None /\ version < Versions
      /\ version \in 1 .. Versions
      /\ file' = [j \in 1 .. Jobs |-> Patch!Text(version', FALSE)]
      /\ UNCHANGED <<fits, bak, op, at, writing, kills>>
  BY DEF PatchInv, Patch!TypeOK, Patch!Upgrade
<1>2. version' \in 1 .. Versions /\ version' \in 0 .. Versions
  BY <1>1, PatchSizes
<1>3. Patch!Text(version', FALSE) \in Patch!Texts
  BY <1>2, PatchTexts
<1>4. Patch!TypeOK' /\ AtAJob' /\ MarkedSoFar' /\ writing = None
  BY <1>1, <1>2, <1>3 DEF PatchInv, Patch!TypeOK, AtAJob, MarkedSoFar
<1>5. ASSUME kills = 0, NEW j \in 1 .. Jobs
      PROVE  GoodJob(j)'
  <2>1. GoodBackup(j)
    BY <1>4, <1>5 DEF PatchInv, Undisturbed, GoodJob, WritingTo
  <2>2. \A v \in 1 .. version : v \in 1 .. version'
    BY <1>1
  <2>3. GoodBackup(j)'
    BY <1>1, <2>1, <2>2 DEF GoodBackup
  <2>4. file'[j] = Patch!Text(version', FALSE)
    BY <1>1
  <2>5. HasLeft(j, file[j], FALSE)'
    BY <2>4 DEF HasLeft
  <2> QED BY <1>1, <1>4, <2>3, <2>5 DEF GoodJob, WritingTo
<1>6. Undisturbed'
  BY <1>1, <1>4, <1>5 DEF Undisturbed, GoodWriting
<1> QED BY <1>4, <1>6 DEF PatchInv

(* A file is opened: it is cut off, and its text is remembered.            *)
LEMMA PatchBegins ==
  ASSUME PatchInv, Patch!Backup \/ Patch!Edit \/ Patch!Restore
  PROVE  PatchInv'
<1>0. /\ Patch!TypeOK /\ AtAJob /\ MarkedSoFar /\ Undisturbed
      /\ op \in {"apply", "revert"} /\ at \in 1 .. Jobs /\ writing = None
      /\ UNCHANGED <<fits, version, op, at, code, kills>>
  BY DEF PatchInv, Patch!Backup, Patch!Edit, Patch!Restore, Patch!Begin, AtAJob
<1>1. /\ file[at] \in Patch!Texts
      /\ \A m \in BOOLEAN : Patch!Mark(file[at], m) \in Patch!Texts
  BY <1>0, PatchMarks DEF Patch!TypeOK
<1>2. ASSUME kills = 0
      PROVE  /\ GoodBackup(at) /\ \A j \in 1 .. Jobs : GoodJob(j)
             /\ HasLeft(at, file[at], TRUE) \/ HasLeft(at, file[at], FALSE)
  <2>1. \A j \in 1 .. Jobs : GoodJob(j)
    BY <1>0, <1>2 DEF Undisturbed
  <2> QED BY <1>0, <2>1 DEF GoodJob, WritingTo
<1>3. ASSUME NEW w \in {"bak", "file"}, NEW text \in Patch!Texts, Patch!Begin(w, text),
             op = "apply" => (text.marked <=> w = "file"),
             w = "bak" => op = "apply" /\ bak[at] = None,
             kills = 0 =>
               IF w = "bak" THEN file[at] = text /\ text = Patch!Text(version, FALSE)
               ELSE \/ HasLeft(at, text, TRUE) /\ op = "apply"
                    \/ HasLeft(at, text, FALSE) /\ op = "revert"
      PROVE  PatchInv'
  <2>1. PICK cut \in Patch!CutOff(text) :
          \/ w = "bak" /\ bak' = [bak EXCEPT ![at] = cut] /\ UNCHANGED file
          \/ w = "file" /\ file' = [file EXCEPT ![at] = cut] /\ UNCHANGED bak
    BY <1>3 DEF Patch!Begin
  <2>2. /\ writing' = [to |-> w, text |-> text] /\ writing'.to = w /\ writing'.text = text
        /\ writing' \in Patch!Writings /\ writing' # None
    BY <1>3, PatchSizes DEF Patch!Begin, Patch!Writings
  <2>3. cut \in Patch!Texts /\ (cut.marked => text.marked)
    BY <1>3, <2>1, PatchCuts
  <2>4. Patch!TypeOK' /\ AtAJob'
    BY <1>0, <1>3, <2>1, <2>2, <2>3 DEF Patch!TypeOK, AtAJob
  <2>5. \A j \in 1 .. Jobs :
          /\ j # at \/ w = "bak" => file'[j] = file[j]
          /\ j # at \/ w = "file" => bak'[j] = bak[j]
    BY <1>0, <2>1 DEF Patch!TypeOK
  <2>6. MarkedSoFar'
    <3>1. ASSUME op = "apply", NEW j \in 1 .. Jobs, j < at PROVE file'[j].marked
      BY <1>0, <2>5, <3>1 DEF MarkedSoFar
    <3> QED BY <1>0, <1>3, <2>2, <3>1 DEF MarkedSoFar
  <2>7. Undisturbed'
    <3>1. SUFFICES ASSUME kills = 0 PROVE GoodWriting' /\ \A j \in 1 .. Jobs : GoodJob(j)'
      BY <1>0 DEF Undisturbed
    <3>2. ASSUME NEW j \in 1 .. Jobs, j # at
          PROVE  GoodJob(j)'
      <4>1. GoodJob(j) /\ (op = "revert" /\ j < at => HasLeft(j, file[j], FALSE))
        BY <1>2, <3>1 DEF GoodJob
      <4> QED BY <1>0, <2>5, <3>2, <4>1, JobStays DEF WritingTo
    <3>j. PICK j \in 1 .. Jobs : j = at /\ j = at'
      BY <1>0
    <3>3. CASE w = "bak"
      <4>1. file'[j] = Patch!Text(version, FALSE) /\ op = "apply" /\ WritingTo("bak", j)'
        BY <1>0, <1>3, <2>2, <2>5, <3>1, <3>3, <3>j DEF WritingTo
      <4>2. HasLeft(j, file[j], FALSE)'
        BY <1>0, <4>1 DEF HasLeft
      <4>3. GoodJob(j)'
        BY <1>0, <4>1, <4>2 DEF GoodJob
      <4>4. GoodWriting'
        BY <1>0, <1>3, <2>2, <3>1, <3>3 DEF GoodWriting
      <4> QED BY <3>2, <3>j, <4>3, <4>4
    <3>4. CASE w = "file"
      <4>1. bak'[j] = bak[j] /\ WritingTo("file", j)' /\ ~WritingTo("bak", j)'
        BY <1>0, <2>2, <2>5, <3>4, <3>j DEF WritingTo
      <4>2. GoodBackup(j)' /\ ~(j < at')
        <5>1. GoodBackup(j) /\ version' = version
          BY <1>0, <1>2, <3>1, <3>j
        <5>2. ~(j < at')
          BY <3>j, PatchSizes
        <5> QED BY <4>1, <5>1, <5>2 DEF GoodBackup
      <4>3. GoodJob(j)'
        BY <4>1, <4>2 DEF GoodJob
      <4>4. /\ op = "apply" => HasLeft(j, text, TRUE)
            /\ op = "revert" => HasLeft(j, text, FALSE)
        BY <1>3, <3>1, <3>4, <3>j
      <4>5. /\ op = "apply" => HasLeft(j, text, TRUE)'
            /\ op = "revert" => HasLeft(j, text, FALSE)'
        BY <1>0, <4>1, <4>4 DEF HasLeft
      <4>6. /\ op = "apply" => HasLeft(j, writing.text, TRUE)'
            /\ op = "revert" => HasLeft(j, writing.text, FALSE)'
        BY <2>2, <4>5
      <4>7. GoodWriting'
        BY <1>0, <2>2, <3>4, <3>j, <4>6 DEF GoodWriting
      <4> QED BY <3>2, <3>j, <4>3, <4>7
    <3> QED BY <3>3, <3>4
  <2> QED BY <2>4, <2>6, <2>7 DEF PatchInv
<1>4. CASE Patch!Backup
  <2>1. /\ Patch!Begin("bak", file[at]) /\ op = "apply" /\ bak[at] = None /\ ~file[at].marked
    BY <1>4 DEF Patch!Backup, Patch!Anchored, Patch!Marked
  <2>2. kills = 0 => file[at] = Patch!Text(version, FALSE)
    <3>1. kills = 0 => HasLeft(at, file[at], FALSE)
      BY <1>2, <2>1, HasLeftIsMarked
    <3> QED BY <2>1, <3>1 DEF HasLeft
  <2> QED BY <1>1, <1>3, <2>1, <2>2
<1>5. CASE Patch!Edit
  <2>1. PICK text : /\ text = Patch!Mark(file[at], TRUE) /\ Patch!Begin("file", text)
                    /\ op = "apply" /\ ~file[at].marked
    BY <1>5 DEF Patch!Edit, Patch!Anchored, Patch!Marked
  <2>2. text \in Patch!Texts /\ text.marked
    BY <1>1, <2>1, PatchMarks
  <2>3. ASSUME kills = 0 PROVE HasLeft(at, text, TRUE)
    <3>1. HasLeft(at, file[at], FALSE)
      BY <1>2, <2>1, <2>3, HasLeftIsMarked
    <3> QED BY <2>1, <3>1, PatchFields DEF HasLeft
  <2> QED BY <1>3, <2>1, <2>2, <2>3
<1>6. CASE Patch!Restore
  <2>1. PICK text : /\ text = IF bak[at] # None THEN bak[at] ELSE Patch!Mark(file[at], FALSE)
                    /\ Patch!Begin("file", text) /\ op = "revert"
    BY <1>6 DEF Patch!Restore
  <2>2. text \in Patch!Texts
    BY <1>0, <1>1, <2>1 DEF Patch!TypeOK
  <2>3. ASSUME kills = 0 PROVE HasLeft(at, text, FALSE)
    <3>1. CASE bak[at] = None
      <4>1. \E m \in BOOLEAN : file[at] = Patch!Text(version, m)
        BY <1>2, <2>3, <3>1 DEF HasLeft
      <4> QED BY <2>1, <3>1, <4>1, PatchFields DEF HasLeft
    <3>2. CASE bak[at] # None
      <4>1. PICK v \in 1 .. version : text = Patch!Text(v, FALSE) /\ text = bak[at]
        BY <1>2, <2>1, <2>3, <3>2 DEF GoodBackup
      <4>2. bak[at].version = v
        BY <4>1, PatchFields
      <4> QED BY <3>2, <4>1, <4>2 DEF HasLeft
    <3> QED BY <3>1, <3>2
  <2> QED BY <1>3, <2>1, <2>2, <2>3
<1> QED BY <1>4, <1>5, <1>6

(* The text is all written.                                                *)
LEMMA PatchWritten ==
  ASSUME PatchInv, Patch!Written
  PROVE  PatchInv'
<1>0. /\ Patch!TypeOK /\ AtAJob /\ MarkedSoFar /\ Undisturbed
      /\ writing # None /\ writing' = None /\ UNCHANGED <<fits, version, kills>>
      /\ op \in {"apply", "revert"} /\ at \in 1 .. Jobs
      /\ writing \in Patch!Writings
  BY DEF PatchInv, Patch!Written, AtAJob, Patch!TypeOK
<1>2. CASE writing.to = "bak"
  <2>1. bak' = [bak EXCEPT ![at] = writing.text] /\ UNCHANGED <<file, op, at, code>>
    BY <1>2 DEF Patch!Written
  <2>2. ~writing.text.marked /\ op = "apply" /\ writing.text \in Patch!Texts
    BY <1>0, <1>2 DEF MarkedSoFar, Patch!Writings
  <2>3. Patch!TypeOK' /\ AtAJob' /\ MarkedSoFar'
    BY <1>0, <2>1, <2>2 DEF Patch!TypeOK, AtAJob, MarkedSoFar
  <2>4. Undisturbed'
    <3>1. SUFFICES ASSUME kills = 0 PROVE GoodWriting' /\ \A j \in 1 .. Jobs : GoodJob(j)'
      BY <1>0 DEF Undisturbed
    <3>2. GoodWriting /\ (\A j \in 1 .. Jobs : GoodJob(j)) /\ WritingTo("bak", at)
      BY <1>0, <1>2, <3>1 DEF Undisturbed, WritingTo
    <3>3. version \in 1 .. version /\ writing.text = Patch!Text(version, FALSE)
      <4>1. version \in 1 .. Versions
        BY <1>0 DEF Patch!TypeOK
      <4>2. version \in 1 .. version
        BY <4>1, PatchSizes
      <4>3. writing.text = Patch!Text(version, FALSE)
        BY <1>0, <1>2, <3>2 DEF GoodWriting
      <4> QED BY <4>2, <4>3
    <3>4. ASSUME NEW j \in 1 .. Jobs, j = at PROVE GoodJob(j)'
      <4>1. bak'[j] = Patch!Text(version, FALSE) /\ file[j] = Patch!Text(version, FALSE)
        BY <1>0, <2>1, <3>2, <3>3, <3>4 DEF GoodJob, Patch!TypeOK
      <4>2. GoodBackup(j)' /\ HasLeft(j, file[j], FALSE)'
        BY <1>0, <2>1, <3>3, <4>1 DEF GoodBackup, HasLeft
      <4> QED BY <1>0, <2>1, <2>2, <4>2 DEF GoodJob, WritingTo
    <3>5. ASSUME NEW j \in 1 .. Jobs, j # at PROVE GoodJob(j)'
      <4>1. bak'[j] = bak[j]
        BY <1>0, <2>1, <3>5 DEF Patch!TypeOK
      <4> QED BY <1>0, <2>1, <2>2, <3>2, <3>5, <4>1, JobStays DEF WritingTo
    <3>6. GoodWriting'
      BY <1>0 DEF GoodWriting
    <3> QED BY <3>4, <3>5, <3>6
  <2> QED BY <2>3, <2>4 DEF PatchInv
<1>3. CASE writing.to = "file"
  <2>1. /\ file' = [file EXCEPT ![at] = writing.text] /\ UNCHANGED bak
        /\ \/ op' = "none" /\ at' = 0 /\ code' = 0
           \/ at' = at + 1 /\ at # Jobs /\ UNCHANGED <<op, code>>
    BY <1>3 DEF Patch!Written, Patch!NextJob
  <2>2. Patch!TypeOK' /\ AtAJob' /\ MarkedSoFar'
    BY <1>0, <1>3, <2>1, PatchSizes DEF Patch!TypeOK, AtAJob, MarkedSoFar, Patch!Writings
  <2>3. Undisturbed'
    <3>1. SUFFICES ASSUME kills = 0 PROVE GoodWriting' /\ \A j \in 1 .. Jobs : GoodJob(j)'
      BY <1>0 DEF Undisturbed
    <3>2. GoodWriting /\ (\A j \in 1 .. Jobs : GoodJob(j)) /\ WritingTo("file", at)
      BY <1>0, <1>3, <3>1 DEF Undisturbed, WritingTo
    <3>3. /\ file'[at] = writing.text
          /\ \A j \in 1 .. Jobs \ {at} : file'[j] = file[j]
      BY <1>0, <2>1 DEF Patch!TypeOK
    <3>4. /\ HasLeft(at, file'[at], TRUE) \/ HasLeft(at, file'[at], FALSE)
          /\ op = "revert" => HasLeft(at, file'[at], FALSE)
      BY <1>0, <1>3, <3>2, <3>3 DEF GoodWriting
    <3>5. ASSUME NEW j \in 1 .. Jobs, j = at PROVE GoodJob(j)'
      <4>1. GoodBackup(j) /\ bak'[j] = bak[j]
        BY <1>0, <1>3, <2>1, <3>2, <3>5 DEF GoodJob, WritingTo
      <4>2. GoodBackup(j)'
        BY <1>0, <4>1 DEF GoodBackup
      <4>3. \A m \in BOOLEAN : HasLeft(j, file'[j], m) => HasLeft(j, file[j], m)'
        BY <1>0, <4>1 DEF HasLeft
      <4>4. HasLeft(j, file[j], TRUE)' \/ HasLeft(j, file[j], FALSE)'
        BY <3>4, <3>5, <4>3
      <4>5. op' = "revert" => HasLeft(j, file[j], FALSE)'
        BY <2>1, <3>4, <3>5, <4>3
      <4> QED BY <1>0, <4>2, <4>4, <4>5 DEF GoodJob, WritingTo
    <3>6. ASSUME NEW j \in 1 .. Jobs, j # at PROVE GoodJob(j)'
      <4>1. op' = "revert" /\ j < at' => HasLeft(j, file[j], FALSE)
        <5>1. op' = "revert" /\ j < at' => op = "revert" /\ j < at
          BY <1>0, <2>1, <3>6, PatchSizes
        <5> QED BY <3>2, <5>1 DEF GoodJob
      <4> QED BY <1>0, <2>1, <3>2, <3>3, <3>6, <4>1, JobStays DEF WritingTo
    <3> QED BY <1>0, <3>5, <3>6 DEF GoodWriting
  <2> QED BY <2>2, <2>3 DEF PatchInv
<1> QED BY <1>0, <1>2, <1>3 DEF Patch!Writings

LEMMA PatchNext ==
  ASSUME PatchInv, Patch!Next
  PROVE  PatchInv'
BY PatchCallSteps, PatchUpgrade, PatchBegins, PatchWritten DEF Patch!Next, Patch!Step

(* How an apply or a revert comes to its end with status 0.                *)
LEMMA PatchEnds ==
  ASSUME PatchInv, Patch!Next, op \in {"apply", "revert"}, op' = "none", code' = 0
  PROVE  /\ at = Jobs /\ at \in 1 .. Jobs
         /\ \/ writing = None /\ UNCHANGED file /\ (op = "apply" <=> file[at].marked)
            \/ /\ writing # None /\ writing.to = "file"
               /\ file' = [file EXCEPT ![at] = writing.text]
<1>1. Patch!Skip \/ Patch!Written \/ Patch!Kill \/ Patch!Refuse
  BY DEF Patch!Next, Patch!Step, Patch!Call, Patch!Check, Patch!Checked, Patch!Backup,
         Patch!Edit, Patch!Restore, Patch!Begin, Patch!Upgrade
<1>2. ~Patch!Kill /\ ~Patch!Refuse
  BY PatchSizes DEF Patch!Kill, Patch!Refuse
<1>3. at \in 1 .. Jobs
  BY DEF PatchInv, AtAJob
<1>4. CASE Patch!Skip
  BY <1>3, <1>4 DEF Patch!Skip, Patch!NextJob, Patch!Marked
<1>5. CASE Patch!Written
  BY <1>3, <1>5 DEF Patch!Written, Patch!NextJob, PatchInv, Patch!TypeOK, Patch!Writings
<1> QED BY <1>1, <1>2, <1>4, <1>5

LEMMA LeftByBackup ==
  ASSUME NEW j \in 1 .. Jobs, version \in 1 .. Versions, Versions \in Nat, GoodBackup(j),
         NEW m \in BOOLEAN, HasLeft(j, file'[j], m)
  PROVE  Patch!Left(j, m)
<1>1. CASE file'[j] = Patch!Text(version, m)
  BY <1>1 DEF Patch!Left
<1>2. CASE file'[j] # Patch!Text(version, m)
  <2>1. bak[j] # None /\ file'[j] = Patch!Text(bak[j].version, m)
    BY <1>2 DEF HasLeft
  <2>2. PICK v \in 1 .. version : bak[j] = Patch!Text(v, FALSE)
    BY <2>1 DEF GoodBackup
  <2>3. bak[j].version = v /\ Patch!Mark(bak[j], m) = Patch!Text(v, m)
    BY <2>2, PatchFields
  <2>4. v < version
    BY <1>2, <2>1, <2>3
  <2> QED BY <2>1, <2>3, <2>4 DEF Patch!Left, Patch!Stale
<1> QED BY <1>1, <1>2

(* What an apply or a revert that ended with status 0 has left.            *)
LEMMA PatchLeft ==
  ASSUME PatchInv, Patch!Next, op \in {"apply", "revert"}, op' = "none", code' = 0, kills = 0,
         NEW j \in 1 .. Jobs
  PROVE  /\ op = "apply" => Patch!Left(j, TRUE)
         /\ op = "revert" => Patch!Left(j, FALSE)
<1>1. /\ Patch!TypeOK /\ MarkedSoFar /\ GoodWriting /\ GoodJob(j)
      /\ version \in 1 .. Versions /\ Versions \in Nat
  BY PatchSizes DEF PatchInv, Undisturbed, Patch!TypeOK
<1>2. /\ at = Jobs /\ Jobs \in Nat /\ at \in 1 .. Jobs
      /\ \/ writing = None /\ UNCHANGED file /\ (op = "apply" <=> file[at].marked)
         \/ /\ writing # None /\ writing.to = "file"
            /\ file' = [file EXCEPT ![at] = writing.text]
  BY PatchEnds, PatchSizes
<1>3. GoodBackup(j)
  BY <1>1, <1>2 DEF GoodJob, WritingTo
<1>4. /\ op = "apply" => HasLeft(j, file'[j], TRUE)
      /\ op = "revert" => HasLeft(j, file'[j], FALSE)
  <2>1. CASE writing # None /\ j = at
    <3>1. file'[j] = writing.text
      BY <1>1, <1>2, <2>1 DEF Patch!TypeOK
    <3> QED BY <1>1, <1>2, <2>1, <3>1 DEF GoodWriting
  <2>2. CASE writing = None \/ j # at
    <3>1. file'[j] = file[j] /\ (HasLeft(j, file[j], TRUE) \/ HasLeft(j, file[j], FALSE))
      BY <1>1, <1>2, <2>2 DEF GoodJob, WritingTo, Patch!TypeOK
    <3>2. j # at => j < at
      BY <1>2
    <3>3. CASE op = "apply"
      <4>1. file[j].marked
        BY <1>1, <1>2, <2>2, <3>2, <3>3 DEF MarkedSoFar
      <4> QED BY <3>1, <3>3, <4>1, HasLeftIsMarked
    <3>4. CASE op = "revert"
      <4>1. CASE j # at
        BY <1>1, <3>1, <3>2, <3>4, <4>1 DEF GoodJob
      <4>2. CASE j = at
        <5>1. ~file[j].marked
          BY <1>2, <2>2, <3>4, <4>2
        <5> QED BY <3>1, <3>4, <5>1, HasLeftIsMarked
      <4> QED BY <4>1, <4>2
    <3> QED BY <3>3, <3>4
  <2> QED BY <2>1, <2>2
<1> QED BY <1>1, <1>3, <1>4, LeftByBackup

LEMMA PatchRestores ==
  ASSUME PatchInv, Patch!Next
  PROVE  Patch!Restores
<1>1. SUFFICES ASSUME kills = 0, op = "revert", op' = "none", code' = 0, NEW j \in 1 .. Jobs
               PROVE  Patch!Left(j, FALSE)
  BY DEF Patch!Restores
<1> QED BY <1>1, PatchLeft

LEMMA PatchSucceeds ==
  ASSUME PatchInv, Patch!Next
  PROVE  Patch!SucceedsPatched
<1>1. SUFFICES ASSUME op \in {"apply", "none"}, op' \in {"none", "checked"}, op # op', code' = 0,
                      NEW j \in 1 .. Jobs
               PROVE  file'[j].marked /\ (kills = 0 => Patch!Left(j, TRUE))
  BY DEF Patch!SucceedsPatched
<1>2. Patch!TypeOK /\ MarkedSoFar
  BY DEF PatchInv
<1>3. CASE op = "none"
  <2>1. Patch!Check
    BY <1>1, <1>3
       DEF Patch!Next, Patch!Step, Patch!Call, Patch!Checked, Patch!Skip, Patch!Refuse,
           Patch!Backup, Patch!Edit, Patch!Restore, Patch!Written, Patch!Kill, Patch!Upgrade,
           PatchInv, AtAJob
  <2>2. file'[j] = file[j] /\ file[j].marked
    BY <1>1, <2>1 DEF Patch!Check, Patch!Status, Patch!Marked
  <2>3. ASSUME kills = 0 PROVE Patch!Left(j, TRUE)
    <3>1. /\ GoodBackup(j) /\ version \in 1 .. Versions
          /\ HasLeft(j, file[j], TRUE) \/ HasLeft(j, file[j], FALSE)
      BY <1>2, <1>3, <2>3 DEF PatchInv, AtAJob, Undisturbed, GoodJob, WritingTo, Patch!TypeOK
    <3>2. HasLeft(j, file[j], TRUE)
      BY <2>2, <3>1, HasLeftIsMarked
    <3> QED BY <2>2, <3>1, <3>2, LeftByBackup, PatchSizes
  <2> QED BY <2>2, <2>3
<1>4. CASE op = "apply"
  <2>1. op' = "none"
    BY <1>1, <1>4
       DEF Patch!Next, Patch!Step, Patch!Call, Patch!Check, Patch!Checked, Patch!Skip,
           Patch!Refuse, Patch!Backup, Patch!Edit, Patch!Restore, Patch!Begin, Patch!Written,
           Patch!NextJob, Patch!Kill, Patch!Upgrade
  <2>2. file'[j].marked
    <3>1. CASE j # at
      <4>1. file'[j] = file[j] /\ j < at
        BY <1>1, <1>2, <1>4, <2>1, <3>1, PatchEnds, PatchSizes DEF Patch!TypeOK
      <4> QED BY <1>2, <1>4, <4>1 DEF MarkedSoFar
    <3>2. CASE j = at
      BY <1>1, <1>2, <1>4, <2>1, <3>2, PatchEnds DEF MarkedSoFar, Patch!TypeOK
    <3> QED BY <3>1, <3>2
  <2>4. kills = 0 => Patch!Left(j, TRUE)
    BY <1>1, <1>4, <2>1, PatchLeft
  <2> QED BY <2>2, <2>4
<1> QED BY <1>1, <1>3, <1>4

-----------------------------------------------------------------------------
(* 05_quantize.py: the invariant and its proof are those of                *)
(* LayerConfigProofs.                                                      *)
Config == INSTANCE LayerConfigProofs WITH Layers <- Linears

LEMMA ConfigSame ==
  /\ Config!ConfigOK /\ (Config!Init <=> Order!Init) /\ (Config!Next <=> Order!Next)
  /\ (Config!TypeOK <=> Order!TypeOK) /\ (Config!TunedAsPlanned <=> Order!TunedAsPlanned)
  /\ (Config!DistinctIsAccepted <=> Order!DistinctIsAccepted)
  /\ (Config!ConfigMatchesDisk <=> Order!ConfigMatchesDisk)
<1>1. Config!ConfigOK
  BY ConfigAssumption DEF Config!ConfigOK, Order!ConfigOK, Config!Schemes, Order!Schemes
<1>2. Config!Init <=> Order!Init
  BY
     DEF Config!Init, Order!Init, Config!Flags, Order!Flags
<1>3. Config!Insert <=> Order!Insert
  BY
     DEF Config!Insert, Order!Insert, Config!Rule, Order!Rule, Config!Put, Order!Put,
         Config!Value, Order!Value
<1>4. Config!Check <=> Order!Check
  <2>1. \A x : Config!Resolves(x) <=> Order!Resolves(x)
    BY
     DEF Config!Resolves, Order!Resolves, Config!Matches, Order!Matches, Config!FirstMatch,
         Order!FirstMatch, Config!LastMatch, Order!LastMatch, Config!Value, Order!Value
  <2> QED BY <2>1 DEF Config!Check, Order!Check
<1>5. Config!Preflight <=> Order!Preflight
  BY DEF Config!Preflight, Order!Preflight
<1>6. \A x : Config!Config(x) = Order!Config(x) /\ (Config!Quantized(x) <=> Order!Quantized(x))
  BY
     DEF Config!Config, Order!Config, Config!Quantized, Order!Quantized, Config!LastMatch,
         Order!LastMatch, Config!Matches, Order!Matches, Config!Base, Order!Base,
         Config!ExpertAt, Order!ExpertAt
<1>7. (Config!Load <=> Order!Load) /\ (Config!Tune <=> Order!Tune)
  BY <1>6 DEF Config!Load, Order!Load, Config!Tune, Order!Tune
<1>8. Config!Next <=> Order!Next
  BY <1>3, <1>4, <1>5, <1>7 DEF Config!Next, Order!Next
<1>9. Config!TypeOK <=> Order!TypeOK
  BY
     DEF Config!TypeOK, Order!TypeOK, Config!Flags, Order!Flags, Config!Schemes, Order!Schemes
<1>10. Config!Distinct <=> Order!Distinct
  BY
     DEF Config!Distinct, Order!Distinct, Config!DistinctIn, Order!DistinctIn
<1>11. Config!TunedAsPlanned <=> Order!TunedAsPlanned
  <2>2. \A x : Config!Sure(x) <=> Order!Sure(x)
    BY <1>10 DEF Config!Sure, Order!Sure
  <2>1. \A x \in Linears : /\ Config!Planned(x) = Order!Planned(x)
                           /\ Config!FirstMatch(policy, x) = Order!FirstMatch(policy, x)
    BY
     DEF Config!Planned, Order!Planned, Config!FirstMatch, Order!FirstMatch, Config!Matches,
         Order!Matches, Config!Value, Order!Value
  <2> QED BY <2>1, <2>2 DEF Config!TunedAsPlanned, Order!TunedAsPlanned
<1>12. Config!DistinctIsAccepted <=> Order!DistinctIsAccepted
  BY <1>10 DEF Config!DistinctIsAccepted, Order!DistinctIsAccepted
<1>13. Config!ConfigMatchesDisk <=> Order!ConfigMatchesDisk
  <2>1. Config!LeavesOdd(policy) <=> Order!LeavesOdd(policy)
    BY DEF Config!LeavesOdd, Order!LeavesOdd, Config!FirstMatch, Order!FirstMatch,
           Config!Matches, Order!Matches
  <2>2. \A x : Config!Sure(x) <=> Order!Sure(x)
    BY <1>10 DEF Config!Sure, Order!Sure
  <2> QED BY <1>6, <2>1, <2>2 DEF Config!ConfigMatchesDisk, Order!ConfigMatchesDisk
<1> QED BY <1>1, <1>2, <1>8, <1>9, <1>11, <1>12, <1>13

LEMMA ConfigInit ==
  ASSUME Order!Init
  PROVE  Config!Inv
BY ConfigSame, Config!InitInv

LEMMA ConfigNext ==
  ASSUME Config!Inv, Order!Next
  PROVE  Config!Inv'
BY ConfigSame, Config!NextInv

-----------------------------------------------------------------------------
(* The shipped policy of 04_recipe.py: its rules one by one.               *)
LEMMA QualityRules ==
  /\ Len(Quality) = 19
  /\ Quality[1] = <<NgramShard, "SKIP">> /\ Quality[2] = <<Mtp, "SKIP">>
  /\ Quality[3] = <<EmbedTokens, "SKIP">> /\ Quality[4] = <<Router, "BF16">>
  /\ Quality[5] = <<Norm, "BF16">> /\ Quality[6] = <<GdnConv, "BF16">>
  /\ Quality[7] = <<GdnInProjAB, "BF16">> /\ Quality[8] = <<NgramHeadsPle, "BF16">>
  /\ Quality[9] = <<Ple, "BF16">> /\ Quality[10] = <<HyperConnection, "BF16">>
  /\ Quality[11] = <<SelfAttn, "BF16">> /\ Quality[12] = <<GdnOutProj, "BF16">>
  /\ Quality[13] = <<Embeddings, "BF16">> /\ Quality[14] = <<Visual, "BF16">>
  /\ Quality[15] = <<Gdn, "W8">> /\ Quality[16] = <<SharedExpert, "W8">>
  /\ Quality[17] = <<LmHead, "BF16">> /\ Quality[18] = <<ExpertsDown, "W2">>
  /\ Quality[19] = <<ExpertsGateUp, "W2">>
<1>1. /\ Len(Offloaded) = 3 /\ Len(Pinned) = 3 /\ Len(Experts) = 3
      /\ Offloaded = << <<NgramShard, "SKIP">>, <<Mtp, "SKIP">>, <<EmbedTokens, "SKIP">> >>
      /\ Pinned = << <<Router, "BF16">>, <<Norm, "BF16">>, <<GdnConv, "BF16">> >>
      /\ Experts = << <<LmHead, "BF16">>, <<ExpertsDown, "W2">>, <<ExpertsGateUp, "W2">> >>
  BY DEF Offloaded, Pinned, Experts
<1> QED BY <1>1 DEF Quality

(* Each pattern can be told from the others by a layer it matches.         *)
RuleOf(pattern) ==
  IF "q_proj" \in pattern THEN 11 ELSE IF "experts_down" \in pattern THEN 18 ELSE
  IF "visual_mlp" \in pattern THEN 14 ELSE IF "patch_embed" \in pattern THEN 13 ELSE
  IF "in_proj_qkv" \in pattern THEN 15 ELSE IF "ngram_shard" \in pattern THEN 1 ELSE
  IF "mtp_experts" \in pattern THEN 2 ELSE IF "embed_tokens" \in pattern THEN 3 ELSE
  IF "router" \in pattern THEN 4 ELSE IF "layernorm" \in pattern THEN 5 ELSE
  IF "gdn_conv1d" \in pattern THEN 6 ELSE IF "in_proj_a" \in pattern THEN 7 ELSE
  IF "ngram_heads" \in pattern THEN 8 ELSE IF "ple_conv1d" \in pattern THEN 9 ELSE
  IF "hyper_connection" \in pattern THEN 10 ELSE IF "gdn_out_proj" \in pattern THEN 12 ELSE
  IF "shared_up_proj" \in pattern THEN 16 ELSE IF "lm_head" \in pattern THEN 17 ELSE 19

LEMMA QualityDistinct == Shipped!DistinctIn(Quality)
<1>1. RuleOf(NgramShard) = 1 /\ RuleOf(Mtp) = 2 /\ RuleOf(EmbedTokens) = 3 /\ RuleOf(Router) = 4
  BY DEF RuleOf, NgramShard, Mtp, EmbedTokens, Router
<1>2. RuleOf(Norm) = 5 /\ RuleOf(GdnConv) = 6 /\ RuleOf(GdnInProjAB) = 7 /\ RuleOf(NgramHeadsPle) = 8
  BY DEF RuleOf, Norm, GdnConv, GdnInProjAB, NgramHeadsPle
<1>3. RuleOf(Ple) = 9 /\ RuleOf(HyperConnection) = 10 /\ RuleOf(SelfAttn) = 11 /\ RuleOf(GdnOutProj) = 12
  BY DEF RuleOf, Ple, HyperConnection, SelfAttn, GdnOutProj
<1>4. RuleOf(Embeddings) = 13 /\ RuleOf(Visual) = 14 /\ RuleOf(Gdn) = 15
  BY DEF RuleOf, Embeddings, Visual, Gdn, GdnConv, GdnInProjAB, GdnOutProj
<1>5. RuleOf(SharedExpert) = 16 /\ RuleOf(LmHead) = 17 /\ RuleOf(ExpertsDown) = 18 /\ RuleOf(ExpertsGateUp) = 19
  BY DEF RuleOf, SharedExpert, LmHead, ExpertsDown, ExpertsGateUp
<1>6. ASSUME NEW i \in 1 .. 19 PROVE RuleOf(Quality[i][1]) = i
  <2>1. \/ i = 1 \/ i = 2 \/ i = 3 \/ i = 4 \/ i = 5 \/ i = 6 \/ i = 7 \/ i = 8 \/ i = 9 \/ i = 10
        \/ i = 11 \/ i = 12 \/ i = 13 \/ i = 14 \/ i = 15 \/ i = 16 \/ i = 17 \/ i = 18 \/ i = 19
    OBVIOUS
  <2> QED BY <1>1, <1>2, <1>3, <1>4, <1>5, <2>1, QualityRules
<1> QED BY <1>6, QualityRules DEF Shipped!DistinctIn

(* The first 14 rules leave a layer in 16 bits, and among them are those   *)
(* that match what AutoRound cannot quantize.                              *)
LEMMA QualityLeavesOdd == Shipped!LeavesOdd(Quality)
<1> DEFINE odd == (Norm \cup GdnConv \cup GdnInProjAB \cup EmbedTokens \cup NgramShard
                     \cup {"ple_conv1d", "shared_expert_gate", "ple_embedding"})
                  \ (Visual \cup {"deepstack"})
<1>1. ASSUME NEW i \in 1 .. 14 PROVE Quality[i][2] \in {"SKIP", "BF16"}
  <2>1. \/ i = 1 \/ i = 2 \/ i = 3 \/ i = 4 \/ i = 5 \/ i = 6 \/ i = 7 \/ i = 8 \/ i = 9 \/ i = 10
        \/ i = 11 \/ i = 12 \/ i = 13 \/ i = 14
    OBVIOUS
  <2> QED BY <2>1, QualityRules
<1>2. ASSUME NEW x \in odd PROVE \E i \in 1 .. 14 : x \in Quality[i][1]
  <2>1. "ple_conv1d" \in Ple /\ "shared_expert_gate" \in Router /\ "ple_embedding" \in NgramHeadsPle
    BY DEF Ple, Router, NgramHeadsPle
  <2>2. \/ x \in Quality[5][1] \/ x \in Quality[6][1] \/ x \in Quality[7][1] \/ x \in Quality[3][1]
        \/ x \in Quality[1][1] \/ x \in Quality[9][1] \/ x \in Quality[4][1] \/ x \in Quality[8][1]
    BY <1>2, <2>1, QualityRules
  <2> QED BY <2>2
<1>3. ASSUME NEW x \in odd PROVE Shipped!FirstMatch(Quality, x) \in {"SKIP", "BF16"}
  <2> DEFINE M == Shipped!Matches(Quality, x)
  <2>1. M = {i \in 1 .. 19 : x \in Quality[i][1]}
    <3>1. \A i \in 1 .. 19 : Quality[i][1] \in KindPatterns
      <4> TAKE i \in 1 .. 19
      <4>1. \/ i = 1 \/ i = 2 \/ i = 3 \/ i = 4 \/ i = 5 \/ i = 6 \/ i = 7 \/ i = 8 \/ i = 9 \/ i = 10
            \/ i = 11 \/ i = 12 \/ i = 13 \/ i = 14 \/ i = 15 \/ i = 16 \/ i = 17 \/ i = 18 \/ i = 19
        OBVIOUS
      <4> QED BY <4>1, QualityRules DEF KindPatterns
    <3> QED BY <3>1, QualityRules DEF Shipped!Matches
  <2>2. PICK i \in 1 .. 14 : x \in Quality[i][1]
    BY <1>2
  <2>3. M \subseteq Nat /\ M # {}
    BY <2>1, <2>2
  <2>4. PICK m \in M : \A j \in M : m <= j
    BY <2>3, LeastExists
  <2>5. m \in 1 .. 14
    BY <2>1, <2>2, <2>4
  <2>6. (CHOOSE k \in M : \A j \in M : k <= j) = m
    BY <2>3, <2>4
  <2> HIDE DEF M
  <2>7. Shipped!FirstMatch(Quality, x) = Quality[m][2]
    BY <2>3, <2>6 DEF Shipped!FirstMatch, M
  <2> QED BY <1>1, <2>5, <2>7
<1> QED BY <1>3 DEF Shipped!LeavesOdd

ShippedConfig == INSTANCE LayerConfigProofs WITH
  Patterns <- KindPatterns, ExpertRules <- {ExpertsDown, ExpertsGateUp},
  Layers <- (UNION KindPatterns) \cup {"deepstack"},
  Listed <- (UNION KindPatterns) \cup {"deepstack"}, Match <- [k \in KindPatterns |-> k],
  Odd <- Norm \cup GdnConv \cup GdnInProjAB \cup EmbedTokens \cup NgramShard
           \cup {"ple_conv1d", "shared_expert_gate", "ple_embedding"},
  Vision <- Visual \cup {"deepstack"}, Outside <- LmHead \cup EmbedTokens \cup Visual \cup Mtp,
  Policies <- {Quality}

LEMMA ShippedOK == ShippedConfig!ConfigOK
<1>1. Quality \in Seq(KindPatterns \X ShippedConfig!Schemes)
  <2> DEFINE T == KindPatterns \X ShippedConfig!Schemes
  <2>1. /\ <<NgramShard, "SKIP">> \in T /\ <<Mtp, "SKIP">> \in T /\ <<EmbedTokens, "SKIP">> \in T
        /\ <<Router, "BF16">> \in T /\ <<Norm, "BF16">> \in T /\ <<GdnConv, "BF16">> \in T
        /\ <<LmHead, "BF16">> \in T /\ <<ExpertsDown, "W2">> \in T /\ <<ExpertsGateUp, "W2">> \in T
    BY DEF KindPatterns, ShippedConfig!Schemes
  <2>2. /\ <<GdnInProjAB, "BF16">> \in T /\ <<NgramHeadsPle, "BF16">> \in T /\ <<Ple, "BF16">> \in T
        /\ <<HyperConnection, "BF16">> \in T /\ <<SelfAttn, "BF16">> \in T
        /\ <<GdnOutProj, "BF16">> \in T /\ <<Embeddings, "BF16">> \in T
        /\ <<Visual, "BF16">> \in T /\ <<Gdn, "W8">> \in T /\ <<SharedExpert, "W8">> \in T
    BY DEF KindPatterns, ShippedConfig!Schemes
  <2> HIDE DEF T
  <2>3. \A a, b, c \in T : <<a, b, c>> \in Seq(T)
    OBVIOUS
  <2>4. \A a, b, c, d, e, f, g, h, i, j \in T : <<a, b, c, d, e, f, g, h, i, j>> \in Seq(T)
    OBVIOUS
  <2>5. Offloaded \in Seq(T) /\ Pinned \in Seq(T) /\ Experts \in Seq(T)
    BY <2>1, <2>3, Zenon DEF Offloaded, Pinned, Experts
  <2> DEFINE middle ==
           << <<GdnInProjAB, "BF16">>, <<NgramHeadsPle, "BF16">>, <<Ple, "BF16">>,
              <<HyperConnection, "BF16">>, <<SelfAttn, "BF16">>, <<GdnOutProj, "BF16">>,
              <<Embeddings, "BF16">>, <<Visual, "BF16">>, <<Gdn, "W8">>,
              <<SharedExpert, "W8">> >>
  <2>6. middle \in Seq(T)
    BY <2>2, <2>4, Zenon
  <2>7. Quality = ((Offloaded \o Pinned) \o middle) \o Experts
    BY Zenon DEF Quality
  <2>8. \A s, t \in Seq(T) : s \o t \in Seq(T)
    BY ConcatProperties
  <2> HIDE DEF middle
  <2>9. Quality \in Seq(T)
    BY <2>5, <2>6, <2>7, <2>8
  <2> QED BY <2>9 DEF T
<1>2. [k \in KindPatterns |-> k] \in [KindPatterns -> SUBSET ((UNION KindPatterns) \cup {"deepstack"})]
  BY Zenon
<1>3. {ExpertsDown, ExpertsGateUp} \subseteq KindPatterns
  BY DEF KindPatterns
<1>4. None \notin ShippedConfig!Schemes
  BY ConfigAssumption DEF Order!ConfigOK, Order!Schemes, ShippedConfig!Schemes
<1> QED BY <1>1, <1>2, <1>3, <1>4 DEF ShippedConfig!ConfigOK

LEMMA ShippedSame ==
  /\ (ShippedConfig!Init <=> Shipped!Init) /\ (ShippedConfig!Next <=> Shipped!Next)
  /\ (ShippedConfig!TypeOK <=> Shipped!TypeOK)
  /\ (ShippedConfig!SaysWhatIs <=> Shipped!SaysWhatIs)
  /\ (ShippedConfig!Distinct <=> Shipped!DistinctIn(policy))
  /\ (ShippedConfig!LeavesOdd(policy) <=> Shipped!LeavesOdd(policy))
<1>1. ShippedConfig!Init <=> Shipped!Init
  BY DEF ShippedConfig!Init, Shipped!Init, ShippedConfig!Flags, Shipped!Flags
<1>2. \A rules, x : /\ ShippedConfig!Matches(rules, x) = Shipped!Matches(rules, x)
                    /\ ShippedConfig!FirstMatch(rules, x) = Shipped!FirstMatch(rules, x)
                    /\ ShippedConfig!LastMatch(rules, x) = Shipped!LastMatch(rules, x)
  BY DEF ShippedConfig!Matches, Shipped!Matches, ShippedConfig!FirstMatch, Shipped!FirstMatch,
         ShippedConfig!LastMatch, Shipped!LastMatch
<1>3. ShippedConfig!Insert <=> Shipped!Insert
  BY DEF ShippedConfig!Insert, Shipped!Insert, ShippedConfig!Rule, Shipped!Rule,
         ShippedConfig!Put, Shipped!Put, ShippedConfig!Value, Shipped!Value
<1>4. ShippedConfig!Check <=> Shipped!Check
  <2>1. \A x : ShippedConfig!Resolves(x) <=> Shipped!Resolves(x)
    BY <1>2 DEF ShippedConfig!Resolves, Shipped!Resolves, ShippedConfig!Value, Shipped!Value
  <2> QED BY <2>1 DEF ShippedConfig!Check, Shipped!Check
<1>5. ShippedConfig!Preflight <=> Shipped!Preflight
  BY DEF ShippedConfig!Preflight, Shipped!Preflight
<1>6. \A x : /\ ShippedConfig!Config(x) = Shipped!Config(x)
             /\ ShippedConfig!Quantized(x) <=> Shipped!Quantized(x)
  <2>1. ShippedConfig!Base = Shipped!Base
    BY DEF ShippedConfig!Base, Shipped!Base, ShippedConfig!ExpertAt, Shipped!ExpertAt
  <2>2. \A x : ShippedConfig!Config(x) = Shipped!Config(x)
    BY <1>2, <2>1 DEF ShippedConfig!Config, Shipped!Config
  <2> QED BY <2>2 DEF ShippedConfig!Quantized, Shipped!Quantized
<1>7. (ShippedConfig!Load <=> Shipped!Load) /\ (ShippedConfig!Tune <=> Shipped!Tune)
  BY <1>6 DEF ShippedConfig!Load, Shipped!Load, ShippedConfig!Tune, Shipped!Tune
<1>8. ShippedConfig!Next <=> Shipped!Next
  BY <1>3, <1>4, <1>5, <1>7 DEF ShippedConfig!Next, Shipped!Next
<1>9. ShippedConfig!TypeOK <=> Shipped!TypeOK
  BY DEF ShippedConfig!TypeOK, Shipped!TypeOK, ShippedConfig!Flags, Shipped!Flags,
         ShippedConfig!Schemes, Shipped!Schemes
<1>10. ShippedConfig!SaysWhatIs <=> Shipped!SaysWhatIs
  BY <1>6 DEF ShippedConfig!SaysWhatIs, Shipped!SaysWhatIs
<1>11. ShippedConfig!Distinct <=> Shipped!DistinctIn(policy)
  BY DEF ShippedConfig!Distinct, ShippedConfig!DistinctIn, Shipped!DistinctIn
<1>12. ShippedConfig!LeavesOdd(policy) <=> Shipped!LeavesOdd(policy)
  BY <1>2 DEF ShippedConfig!LeavesOdd, Shipped!LeavesOdd
<1> QED BY <1>1, <1>8, <1>9, <1>10, <1>11, <1>12

LEMMA ShippedInit ==
  ASSUME Shipped!Init
  PROVE  ShippedConfig!Inv
BY ShippedOK, ShippedSame, ShippedConfig!InitInv

LEMMA ShippedNext ==
  ASSUME ShippedConfig!Inv, Shipped!Next
  PROVE  ShippedConfig!Inv'
BY ShippedOK, ShippedSame, ShippedConfig!NextInv

LEMMA ShippedMatches ==
  ASSUME ShippedConfig!Inv
  PROVE  Shipped!SaysWhatIs
<1>1. policy = Quality
  BY DEF ShippedConfig!Inv, ShippedConfig!TypeOK
<1>2. ShippedConfig!Distinct /\ ShippedConfig!LeavesOdd(policy)
  BY <1>1, QualityDistinct, QualityLeavesOdd, ShippedSame
<1> QED BY <1>2, ShippedOK, ShippedSame, ShippedConfig!InvSays

-----------------------------------------------------------------------------
(* 03_split_ple.py.                                                        *)
NumShards == Len(ShardRows)

(* The rows of the first i shards.                                         *)
RowsBefore(i) == PrefixSums(ShardRows, NumShards)[i]

(* The file holds the first k shards, row after row, and nothing else.     *)
HoldsShards(k) ==
  /\ Len(bin) = RowsBefore(k)
  /\ \A i \in 1 .. k : \A j \in 0 .. ShardRows[i] - 1 :
       bin[RowsBefore(i - 1) + j + 1] = <<Checkpoint, i, j>>

(* Offset i is where shard i begins.                                       *)
PointsAtShards(offs) == \A i \in DOMAIN offs : offs[i] = RowsBefore(i - 1)

(* What was written so far is there; what a killed split has left is too   *)
(* short, or whole; a manifest is right about the whole file.              *)
SplitInv ==
  /\ Split!TypeOK
  /\ source # None =>
       /\ mapped = None /\ Len(offsets) \in 0 .. NumShards
       /\ HoldsShards(Len(offsets)) /\ PointsAtShards(offsets)
  /\ source = None => Len(bin) < RowsBefore(NumShards) \/ HoldsShards(NumShards)
  /\ man \notin {None, Torn} =>
       /\ man.source = Checkpoint /\ man.rows = RowsBefore(NumShards)
       /\ Len(man.offsets) = NumShards /\ PointsAtShards(man.offsets)
  /\ mapped # None =>
       mapped \notin {None, Torn} /\ source = None /\ Len(bin) = RowsBefore(NumShards)

(* The constants, as the parameters of PleTable see them.                  *)
LEMMA SplitFacts ==
  /\ NumShards \in Nat \ {0} /\ SplitCrashes \in Nat /\ Checkpoint # None
  /\ \A i \in 1 .. NumShards : ShardRows[i] \in Nat \ {0}
  /\ Split!NumShards(Checkpoint) = NumShards
  /\ Split!Rows(Checkpoint) = RowsBefore(NumShards)
  /\ \A i : Split!RowsOf(Checkpoint, i) = [j \in 1 .. ShardRows[i] |-> <<Checkpoint, i, j - 1>>]
<1>1. ShardRows \in Seq(Nat \ {0}) /\ ShardRows # <<>>
  BY SourcesAssumption DEF Split!SourcesOK
<1>2. NumShards \in Nat \ {0} /\ \A i \in 1 .. NumShards : ShardRows[i] \in Nat \ {0}
  BY <1>1 DEF NumShards
<1>3. [s \in {Checkpoint} |-> ShardRows][Checkpoint] = ShardRows
  OBVIOUS
<1>4. Split!NumShards(Checkpoint) = NumShards
  BY <1>3 DEF Split!NumShards, NumShards
<1>5. Split!Rows(Checkpoint) = RowsBefore(NumShards)
  <2>1. \A d, n : Split!PrefixSums(d, n) = PrefixSums(d, n)
    BY DEF Split!PrefixSums, PrefixSums
  <2> QED BY <1>3, <1>4, <2>1 DEF Split!Rows, RowsBefore
<1>6. \A i : Split!RowsOf(Checkpoint, i) = [j \in 1 .. ShardRows[i] |-> <<Checkpoint, i, j - 1>>]
  BY <1>3 DEF Split!RowsOf
<1> QED BY <1>2, <1>4, <1>5, <1>6, SourcesAssumption

LEMMA RowSums ==
  /\ RowsBefore(0) = 0
  /\ \A i \in 0 .. NumShards : RowsBefore(i) \in Nat /\ RowsBefore(i) <= RowsBefore(NumShards)
  /\ \A i \in 1 .. NumShards : RowsBefore(i) = RowsBefore(i - 1) + ShardRows[i]
  /\ RowsBefore(NumShards) > 0
<1>1. NumShards \in Nat \ {0} /\ \A i \in 1 .. NumShards : ShardRows[i] \in Nat \ {0}
  BY SplitFacts
<1>2. /\ PrefixSums(ShardRows, NumShards) \in [0 .. NumShards -> Nat] /\ RowsBefore(0) = 0
      /\ \A i \in 1 .. NumShards : RowsBefore(i) = RowsBefore(i - 1) + ShardRows[i]
  BY <1>1, SumsDef DEF RowsBefore
<1>3. \A m \in 0 .. NumShards : RowsBefore(m) <= RowsBefore(NumShards)
  <2>1. ASSUME NEW m \in 0 .. NumShards PROVE RowsBefore(m) <= RowsBefore(NumShards)
    <3>1. NumShards \in m .. NumShards
      BY <1>1
    <3> QED BY <1>1, <3>1, SumsGrow DEF RowsBefore
  <2> QED BY <2>1
<1>4. RowsBefore(1) > 0 /\ 1 \in 0 .. NumShards
  <2>1. 1 \in 1 .. NumShards /\ 1 - 1 = 0
    BY <1>1
  <2>2. RowsBefore(1) = RowsBefore(0) + ShardRows[1]
    BY <1>2, <2>1
  <2> QED BY <1>1, <1>2, <2>1, <2>2
<1>5. \A i \in 0 .. NumShards : RowsBefore(i) \in Nat
  BY <1>2 DEF RowsBefore
<1>6. NumShards \in 0 .. NumShards
  BY <1>1
<1> QED BY <1>2, <1>3, <1>4, <1>5, <1>6

LEMMA SplitInit ==
  ASSUME Split!Init
  PROVE  SplitInv
<1>1. /\ bin = <<>> /\ man = None /\ source = None /\ offsets = <<>>
      /\ mapped = None /\ crashes = 0
  BY DEF Split!Init
<1>2. Len(bin) < RowsBefore(NumShards)
  BY <1>1, RowSums, SplitFacts
<1>3. Split!TypeOK
  <2>1. crashes \in 0 .. SplitCrashes
    BY <1>1, SplitFacts
  <2> QED BY <1>1, <2>1 DEF Split!TypeOK
<1> QED BY <1>1, <1>2, <1>3 DEF SplitInv

(* The rows of the next shard are appended.                                *)
LEMMA AppendedRows ==
  ASSUME NEW k \in 0 .. NumShards - 1, bin \in Seq({Checkpoint} \X Nat \X Nat), HoldsShards(k),
         NEW b, b = bin \o Split!RowsOf(Checkpoint, k + 1)
  PROVE  /\ b \in Seq({Checkpoint} \X Nat \X Nat)
         /\ Len(b) = RowsBefore(k + 1)
         /\ \A i \in 1 .. k + 1 : \A j \in 0 .. ShardRows[i] - 1 :
              b[RowsBefore(i - 1) + j + 1] = <<Checkpoint, i, j>>
<1> DEFINE n == ShardRows[k + 1]
           new == [j \in 1 .. n |-> <<Checkpoint, k + 1, j - 1>>]
<1>1. /\ NumShards \in Nat /\ k \in Nat /\ k \in 0 .. NumShards /\ k + 1 \in 1 .. NumShards
      /\ n \in Nat \ {0} /\ (k + 1) - 1 = k
  BY SplitFacts
<1>2. b = bin \o new /\ new \in Seq({Checkpoint} \X Nat \X Nat) /\ Len(new) = n
  <2>1. \A j \in 1 .. n : <<Checkpoint, k + 1, j - 1>> \in {Checkpoint} \X Nat \X Nat
    BY <1>1
  <2>2. new \in Seq({Checkpoint} \X Nat \X Nat) /\ Len(new) = n
    <3> HIDE DEF n
    <3> QED BY <1>1, <2>1
  <2> QED BY <2>2, SplitFacts
<1>3. Len(bin) = RowsBefore(k) /\ RowsBefore(k) \in Nat /\ RowsBefore(k + 1) = RowsBefore(k) + n
  BY <1>1, RowSums DEF HoldsShards
<1>4. /\ b \in Seq({Checkpoint} \X Nat \X Nat) /\ Len(b) = RowsBefore(k + 1)
      /\ \A x \in 1 .. Len(bin) : b[x] = bin[x]
      /\ \A x \in 1 .. n : b[Len(bin) + x] = new[x]
  <2> DEFINE R == {Checkpoint} \X Nat \X Nat
  <2>0. bin \in Seq(R) /\ new \in Seq(R)
    BY <1>2
  <2> HIDE DEF new, n, R
  <2>1. b \in Seq(R)
    BY <1>2, <2>0, ConcatProperties
  <2>2. Len(b) = Len(bin) + Len(new) /\ \A x \in 1 .. Len(b) :
          b[x] = IF x <= Len(bin) THEN bin[x] ELSE new[x - Len(bin)]
    <3>1. /\ Len(bin \o new) = Len(bin) + Len(new)
          /\ \A x \in 1 .. Len(bin) + Len(new) :
               (bin \o new)[x] = IF x <= Len(bin) THEN bin[x] ELSE new[x - Len(bin)]
      BY <2>0, ConcatProperties
    <3> QED BY <1>2, <3>1, Zenon
  <2>3. Len(b) = RowsBefore(k) + n
    BY <1>2, <1>3, <2>2
  <2>4. \A x \in 1 .. n : b[Len(bin) + x] = new[x]
    <3> TAKE x \in 1 .. n
    <3>1. Len(bin) + x \in 1 .. Len(b) /\ ~(Len(bin) + x <= Len(bin))
          /\ (Len(bin) + x) - Len(bin) = x
      BY <1>1, <1>3, <2>3
    <3> QED BY <2>2, <3>1
  <2>5. \A x \in 1 .. Len(bin) : b[x] = bin[x]
    <3> TAKE x \in 1 .. Len(bin)
    <3>1. x \in 1 .. Len(b) /\ x <= Len(bin)
      BY <1>1, <1>3, <2>3
    <3> QED BY <2>2, <3>1
  <2> QED BY <1>3, <2>1, <2>3, <2>4, <2>5 DEF R
<1>5. ASSUME NEW i \in 1 .. k + 1, NEW j \in 0 .. ShardRows[i] - 1
      PROVE  b[RowsBefore(i - 1) + j + 1] = <<Checkpoint, i, j>>
  <2>1. CASE i = k + 1
    <3>1. j + 1 \in 1 .. n /\ (j + 1) - 1 = j /\ j \in Nat
      BY <1>1, <2>1
    <3>2. RowsBefore(i - 1) + j + 1 = Len(bin) + (j + 1)
      BY <1>1, <1>3, <2>1, <3>1
    <3> QED BY <1>4, <2>1, <3>1, <3>2
  <2>2. CASE i # k + 1
    <3>1. i \in 1 .. k /\ i \in 1 .. NumShards /\ i - 1 \in 0 .. NumShards /\ i \in 0 .. NumShards
      BY <1>1, <2>2
    <3>2. ShardRows[i] \in Nat /\ RowsBefore(i) = RowsBefore(i - 1) + ShardRows[i]
      BY <3>1, RowSums, SplitFacts
    <3>3. RowsBefore(i) <= RowsBefore(k)
      <4>1. PrefixSums(ShardRows, NumShards)[i] <= PrefixSums(ShardRows, NumShards)[k]
        <5>1. k \in i .. NumShards /\ \A x \in 1 .. NumShards : ShardRows[x] \in Nat
          BY <1>1, <3>1, SplitFacts
        <5> QED BY <1>1, <3>1, <5>1, SumsGrow
      <4> QED BY <4>1 DEF RowsBefore
    <3>4. RowsBefore(i - 1) \in Nat /\ RowsBefore(i) \in Nat
      BY <3>1, RowSums
    <3>5. RowsBefore(i - 1) + j + 1 \in 1 .. Len(bin)
      <4>1. j \in Nat /\ j < ShardRows[i] /\ ShardRows[i] \in Nat
        BY <3>2
      <4>2. \A p, q, l, r, m \in Nat : q = p + r /\ q <= l /\ m < r => p + m + 1 \in 1 .. l
        OBVIOUS
      <4> QED BY <1>3, <3>2, <3>3, <3>4, <4>1, <4>2
    <3>6. bin[RowsBefore(i - 1) + j + 1] = <<Checkpoint, i, j>>
      BY <3>1 DEF HoldsShards
    <3> QED BY <1>4, <3>5, <3>6
  <2> QED BY <2>1, <2>2
<1> QED BY <1>4, <1>5

LEMMA SplitBegins ==
  ASSUME SplitInv, Split!Split(Checkpoint)
  PROVE  SplitInv'
<1>1. /\ mapped = None /\ source' = Checkpoint /\ bin' = <<>> /\ offsets' = <<>>
      /\ UNCHANGED <<man, mapped, crashes>>
  BY DEF Split!Split
<1>2. Split!TypeOK'
  BY <1>1 DEF SplitInv, Split!TypeOK
<1>3. Len(offsets') = 0 /\ Len(bin') = RowsBefore(0) /\ 0 \in 0 .. NumShards
  BY <1>1, RowSums, SplitFacts
<1>4. HoldsShards(Len(offsets))' /\ PointsAtShards(offsets)'
  BY <1>1, <1>3 DEF HoldsShards, PointsAtShards
<1>5. source' # None
  BY <1>1, SplitFacts
<1> QED
  BY <1>1, <1>2, <1>3, <1>4, <1>5 DEF SplitInv, PointsAtShards

LEMMA SplitWrites ==
  ASSUME SplitInv, Split!WriteShard
  PROVE  SplitInv'
<1> DEFINE k == Len(offsets)
<1>1. /\ source = Checkpoint /\ k < NumShards /\ offsets' = Append(offsets, Len(bin))
      /\ bin' = bin \o Split!RowsOf(Checkpoint, k + 1)
      /\ UNCHANGED <<man, source, mapped, crashes>>
  BY SplitFacts DEF Split!WriteShard, SplitInv, Split!TypeOK, Split!Offset
<1>2. /\ mapped = None /\ k \in 0 .. NumShards - 1 /\ HoldsShards(k) /\ PointsAtShards(offsets)
      /\ bin \in Seq({Checkpoint} \X Nat \X Nat) /\ offsets \in Seq(Nat)
  BY <1>1, SplitFacts DEF SplitInv, Split!TypeOK
<1>3. /\ bin' \in Seq({Checkpoint} \X Nat \X Nat) /\ Len(bin') = RowsBefore(k + 1)
      /\ \A i \in 1 .. k + 1 : \A j \in 0 .. ShardRows[i] - 1 :
           bin'[RowsBefore(i - 1) + j + 1] = <<Checkpoint, i, j>>
  <2> HIDE DEF k
  <2> QED BY <1>1, <1>2, AppendedRows
<1>4. Len(bin) \in Nat /\ Len(bin) = RowsBefore(k)
  BY <1>2 DEF HoldsShards
<1>5. /\ Len(offsets') = k + 1 /\ offsets' \in Seq(Nat)
      /\ \A i \in 1 .. k + 1 : offsets'[i] = IF i = k + 1 THEN Len(bin) ELSE offsets[i]
  BY <1>1, <1>2, <1>4
<1>6. HoldsShards(Len(offsets))'
  BY <1>3, <1>5 DEF HoldsShards
<1>7. PointsAtShards(offsets)'
  <2>1. SUFFICES ASSUME NEW i \in 1 .. k + 1 PROVE offsets'[i] = RowsBefore(i - 1)
    BY <1>5 DEF PointsAtShards
  <2>2. CASE i = k + 1
    <3>1. i - 1 = k
      BY <1>2, <2>2
    <3> QED BY <1>4, <1>5, <2>2, <3>1
  <2>3. CASE i # k + 1
    <3>1. i \in DOMAIN offsets
      BY <1>2, <2>3
    <3> QED BY <1>2, <1>5, <2>3, <3>1 DEF PointsAtShards
  <2> QED BY <2>2, <2>3
<1>8. Split!TypeOK'
  BY <1>1, <1>3, <1>5 DEF SplitInv, Split!TypeOK
<1>9. k + 1 \in 0 .. NumShards
  BY <1>2, SplitFacts
<1> QED
  BY <1>1, <1>2, <1>5, <1>6, <1>7, <1>8, <1>9, SplitFacts DEF SplitInv, PointsAtShards

(* The manifest is opened, which cuts it off, and written.                 *)
LEMMA SplitManifest ==
  ASSUME SplitInv, Split!OpenManifest \/ Split!WriteManifest
  PROVE  SplitInv'
<1>1. /\ source = Checkpoint /\ source # None /\ Len(offsets) = NumShards
      /\ UNCHANGED <<bin, offsets, mapped, crashes>> /\ mapped = None
      /\ HoldsShards(NumShards) /\ PointsAtShards(offsets)
  BY SplitFacts DEF Split!OpenManifest, Split!WriteManifest, SplitInv, Split!TypeOK
<1>2. HoldsShards(NumShards)' /\ PointsAtShards(offsets)'
  BY <1>1 DEF HoldsShards, PointsAtShards
<1>3. CASE Split!OpenManifest
  <2>1. man' = Torn /\ UNCHANGED source
    BY <1>3 DEF Split!OpenManifest
  <2>2. Split!TypeOK'
    BY <1>1, <2>1 DEF SplitInv, Split!TypeOK
  <2>3. Len(offsets') \in 0 .. NumShards /\ Len(offsets') = NumShards
    BY <1>1, SplitFacts
  <2> QED BY <1>1, <1>2, <2>1, <2>2, <2>3 DEF SplitInv
<1>4. CASE Split!WriteManifest
  <2>1. man' = Split!Manifest(Checkpoint, offsets) /\ source' = None
    BY <1>1, <1>4 DEF Split!WriteManifest
  <2>2. /\ man'.source = Checkpoint /\ man'.rows = RowsBefore(NumShards)
        /\ man'.offsets = offsets
    BY <2>1, SplitFacts DEF Split!Manifest
  <2>3. Split!TypeOK'
    BY <1>1, <2>1, <2>2 DEF SplitInv, Split!TypeOK
  <2> QED BY <1>1, <1>2, <2>1, <2>2, <2>3 DEF SplitInv, PointsAtShards
<1> QED BY <1>3, <1>4

(* Some of what was written survives, less than the table unless all of it *)
(* had been written.                                                       *)
LEMMA SplitCrash ==
  ASSUME SplitInv, Split!Crash
  PROVE  SplitInv'
<1> DEFINE k == Len(offsets)
<1>1. /\ source = Checkpoint /\ source # None /\ source' = None /\ crashes' = crashes + 1
      /\ crashes < SplitCrashes /\ crashes \in 0 .. SplitCrashes
      /\ UNCHANGED <<man, offsets, mapped>> /\ mapped = None
      /\ k \in 0 .. NumShards /\ HoldsShards(k)
      /\ bin \in Seq({Checkpoint} \X Nat \X Nat)
  BY SplitFacts DEF Split!Crash, SplitInv, Split!TypeOK
<1>2. /\ bin' \in Seq({Checkpoint} \X Nat \X Nat)
      /\ Len(bin') < RowsBefore(NumShards) \/ HoldsShards(NumShards)'
  <2>1. CASE k = NumShards
    <3>1. bin' = bin
      BY <1>1, <2>1, SplitFacts DEF Split!Crash
    <3> QED BY <1>1, <2>1, <3>1 DEF HoldsShards
  <2>2. CASE k # NumShards
    <3> DEFINE all == bin \o Split!RowsOf(Checkpoint, k + 1)
    <3>1. k \in 0 .. NumShards - 1 /\ k + 1 \in 1 .. NumShards /\ (k + 1) - 1 = k
          /\ k + 1 \in 0 .. NumShards
      BY <1>1, <2>2, SplitFacts
    <3>2. [s \in {Checkpoint} |-> ShardRows][Checkpoint] = ShardRows
      OBVIOUS
    <3>3. PICK n \in 0 .. Len(bin) + ShardRows[k + 1] - 1 : bin' = SubSeq(all, 1, n)
      BY <1>1, <2>2, <3>2, SplitFacts DEF Split!Crash
    <3>4. all \in Seq({Checkpoint} \X Nat \X Nat) /\ Len(all) = RowsBefore(k + 1)
      <4> HIDE DEF k
      <4> QED BY <1>1, <3>1, AppendedRows
    <3>5. RowsBefore(k + 1) = Len(bin) + ShardRows[k + 1] /\ RowsBefore(k + 1) \in Nat
          /\ ShardRows[k + 1] \in Nat /\ RowsBefore(k + 1) <= RowsBefore(NumShards)
      BY <1>1, <3>1, RowSums, SplitFacts DEF HoldsShards
    <3>6. Len(bin) \in Nat
      BY <1>1
    <3>7. n \in Nat /\ n < RowsBefore(k + 1)
      BY <3>3, <3>5, <3>6
    <3>8. bin' \in Seq({Checkpoint} \X Nat \X Nat) /\ Len(bin') = n
      <4> DEFINE R == {Checkpoint} \X Nat \X Nat
      <4>1. all \in Seq(R) /\ n \in 0 .. Len(all)
        BY <3>4, <3>5, <3>7
      <4> HIDE DEF R, all
      <4>2. SubSeq(all, 1, n) \in Seq(R) /\ Len(SubSeq(all, 1, n)) = n
        BY <4>1
      <4> QED BY <3>3, <4>2 DEF R
    <3>9. RowsBefore(NumShards) \in Nat
      BY SplitFacts, RowSums
    <3> QED BY <3>5, <3>7, <3>8, <3>9
  <2> QED BY <2>1, <2>2
<1>3. Split!TypeOK'
  BY <1>1, <1>2, SplitFacts DEF SplitInv, Split!TypeOK
<1> QED BY <1>1, <1>2, <1>3 DEF SplitInv, PointsAtShards

LEMMA SplitMaps ==
  ASSUME SplitInv, Split!Map \/ Split!Unmap
  PROVE  SplitInv'
<1>1. UNCHANGED <<bin, man, source, offsets, crashes>>
  BY DEF Split!Map, Split!Unmap
<1>2. \/ /\ source = None /\ man \notin {None, Torn} /\ Len(bin) = man.rows
         /\ mapped' = man
      \/ mapped # None /\ mapped' = None
  BY DEF Split!Map, Split!Unmap, Split!SizeFits
<1>3. Split!TypeOK'
  BY <1>1, <1>2 DEF SplitInv, Split!TypeOK
<1> QED BY <1>1, <1>2, <1>3 DEF SplitInv, HoldsShards, PointsAtShards

LEMMA SplitNext ==
  ASSUME SplitInv, Split!Next
  PROVE  SplitInv'
BY SplitBegins, SplitWrites, SplitManifest, SplitCrash, SplitMaps DEF Split!Next, Split!Continue

LEMMA SplitMapsTheRows ==
  ASSUME SplitInv
  PROVE  Split!MapsTheRows
<1>1. SUFFICES ASSUME mapped # None, NEW i \in 1 .. NumShards, NEW j \in 0 .. ShardRows[i] - 1
               PROVE  /\ mapped.offsets[i] + j < Len(bin)
                      /\ bin[mapped.offsets[i] + j + 1] = <<mapped.source, i, j>>
  <2>1. mapped # None => mapped.source = Checkpoint
    BY DEF SplitInv, Split!TypeOK
  <2>2. [s \in {Checkpoint} |-> ShardRows][Checkpoint] = ShardRows
    OBVIOUS
  <2> QED BY <2>1, <2>2, SplitFacts DEF Split!MapsTheRows, Split!Lookup
<1>2. /\ mapped = man /\ man \notin {None, Torn} /\ source = None
      /\ Len(bin) = RowsBefore(NumShards)
      /\ mapped.source = Checkpoint /\ mapped.offsets[i] = RowsBefore(i - 1)
  BY <1>1 DEF SplitInv, Split!TypeOK, PointsAtShards
<1>3. HoldsShards(NumShards)
  <2>1. RowsBefore(NumShards) \in Nat
    BY SplitFacts, RowSums
  <2> QED BY <1>2, <2>1 DEF SplitInv
<1>4. i \in 0 .. NumShards /\ i - 1 \in 0 .. NumShards
  BY SplitFacts
<1>5. /\ RowsBefore(i) = RowsBefore(i - 1) + ShardRows[i] /\ RowsBefore(i) <= RowsBefore(NumShards)
      /\ RowsBefore(i - 1) \in Nat /\ RowsBefore(i) \in Nat /\ RowsBefore(NumShards) \in Nat
      /\ ShardRows[i] \in Nat
  <2>1. NumShards \in 0 .. NumShards
    BY SplitFacts
  <2> QED BY <1>4, <2>1, RowSums, SplitFacts
<1>6. mapped.offsets[i] + j < Len(bin)
  <2>1. \A p, q, l \in Nat : q = p + ShardRows[i] /\ q <= l => p + j < l
    BY <1>5
  <2> QED BY <1>2, <1>5, <2>1
<1> QED BY <1>2, <1>3, <1>6 DEF HoldsShards

-----------------------------------------------------------------------------
(* 02_prepare_source.py.                                                   *)
NonPle == Keys \ PleKeys

(* What is still to do: no tensor twice, and at most as many output shards *)
(* to come as there are for them.                                          *)
ToDo ==
  /\ todo \in Seq(Seq(NonPle) \ {<<>>}) /\ rest \in Seq(NonPle)
  /\ \A j \in DOMAIN rest : <<rest[j]>> \in Rewrite!Targets
  /\ Rewrite!Apart(todo, rest)
  /\ IF todo = <<>> THEN read = 0 ELSE read <= Len(todo[1])
  /\ no + (IF shard = {} THEN 0 ELSE 1) + Len(todo) + Len(rest) <= Rewrite!MaxShards

(* The tensors of source shard f that are still to be read.                *)
Pending(f) == {k \in Rewrite!Unread : fileOf[k] = f}

OnlyPle(f) == \A k \in Keys : fileOf[k] = f => k \in PleKeys

(* The counters count what is pending; a shard that has nothing pending    *)
(* and is still there has only n-gram tensors, and none of those goes.     *)
Counters ==
  /\ pc = "run" => \A f \in Shards :
       remaining[f] = IF f \in files THEN Cardinality(Pending(f)) ELSE 0
  /\ pc \in {"run", "index", "done"} =>
       \A f \in files : ~keepSrc /\ Pending(f) = {} => OnlyPle(f)
  /\ \A f \in Shards \ files : ~OnlyPle(f)

(* A run with --keep-src, or before the first crash, finds all it needs.   *)
NothingMissing ==
  /\ keepSrc => files = Shards
  /\ keepSrc \/ crashes = 0 =>
       /\ pc # "failed" /\ (pc = "idle" => files = Shards)
       /\ pc = "run" => \A k \in Rewrite!Unread : fileOf[k] \in files

(* Where tensor t of the output is: still to do, in memory, or on disk     *)
(* where the weight map says.                                              *)
Placed(t) ==
  \/ \E i \in DOMAIN todo : todo[i] = t
  \/ \E j \in DOMAIN rest : <<rest[j]>> = t
  \/ t \in shard
  \/ weightMap[t] \in 1 .. no /\ t \in out[weightMap[t]]

AllPlaced ==
  /\ keepSrc /\ pc \in {"run", "index", "done"} => \A t \in Rewrite!Targets : Placed(t)
  /\ pc \in {"index", "done"} => todo = <<>> /\ rest = <<>> /\ shard = {}
  /\ index = "whole" => pc = "done"

RewriteInv == Rewrite!TypeOK /\ ToDo /\ Counters /\ NothingMissing /\ AllPlaced

(* Unread, of any stacks s and tensors r of which n pieces were read.       *)
Left(s, r, n) ==
  {k \in Keys : \/ \E j \in DOMAIN r : r[j] = k
                \/ \E i \in DOMAIN s : \E a \in DOMAIN s[i] : (i > 1 \/ a > n) /\ s[i][a] = k}

StackOf == Seq(NonPle) \ {<<>>}

LEMMA UnreadIsLeft == Rewrite!Unread = Left(todo, rest, read)
BY DEF Rewrite!Unread, Left

LEMMA LeftAfterRead ==
  ASSUME NEW s \in Seq(StackOf), s # <<>>, NEW r \in Seq(NonPle), Rewrite!Apart(s, r),
         NEW n \in Nat, n < Len(s[1])
  PROVE  /\ s[1][n + 1] \in Left(s, r, n) /\ s[1][n + 1] \in NonPle
         /\ Left(s, r, n + 1) = Left(s, r, n) \ {s[1][n + 1]}
<1> DEFINE k == s[1][n + 1]
<1>1. 1 \in DOMAIN s /\ s[1] \in Seq(NonPle) /\ n + 1 \in DOMAIN s[1] /\ n + 1 > n
  BY DEF StackOf
<1>2. k \in NonPle /\ k \in Keys
  BY <1>1 DEF NonPle
<1>3. k \in Left(s, r, n)
  BY <1>1, <1>2 DEF Left
<1>4. k \notin Left(s, r, n + 1)
  <2>1. \A j \in DOMAIN r : r[j] # k
    BY <1>1 DEF Rewrite!Apart
  <2>2. ASSUME NEW i \in DOMAIN s, NEW a \in DOMAIN s[i], i > 1 \/ a > n + 1, s[i][a] = k
        PROVE  FALSE
    <3>1. i = 1 /\ a = n + 1
      BY <1>1, <2>2 DEF Rewrite!Apart
    <3> QED BY <2>2, <3>1
  <2> HIDE DEF k
  <2> QED BY <2>1, <2>2 DEF Left
<1>5. ASSUME NEW x \in Left(s, r, n), x # k PROVE x \in Left(s, r, n + 1)
  <2>1. CASE \E j \in DOMAIN r : r[j] = x
    BY <2>1 DEF Left
  <2>2. CASE \E i \in DOMAIN s : \E a \in DOMAIN s[i] : (i > 1 \/ a > n) /\ s[i][a] = x
    <3>1. PICK i \in DOMAIN s : \E a \in DOMAIN s[i] : (i > 1 \/ a > n) /\ s[i][a] = x
      BY <2>2
    <3>2. PICK a \in DOMAIN s[i] : (i > 1 \/ a > n) /\ s[i][a] = x
      BY <3>1
    <3>3. i > 1 \/ a > n + 1
      <4>1. SUFFICES ASSUME ~(i > 1) PROVE a > n + 1
        OBVIOUS
      <4>2. i = 1
        BY <4>1
      <4>3. a # n + 1 /\ a > n
        BY <1>5, <3>2, <4>2
      <4>4. a \in Nat
        BY <1>1, <4>2
      <4> QED BY <4>3, <4>4
    <3> QED BY <3>2, <3>3 DEF Left
  <2> QED BY <2>1, <2>2 DEF Left
<1>6. Left(s, r, n + 1) \subseteq Left(s, r, n)
  <2>1. ASSUME NEW x \in Left(s, r, n + 1) PROVE x \in Left(s, r, n)
    <3>1. CASE \E j \in DOMAIN r : r[j] = x
      BY <3>1 DEF Left
    <3>2. CASE \E i \in DOMAIN s : \E a \in DOMAIN s[i] : (i > 1 \/ a > n + 1) /\ s[i][a] = x
      <4>1. PICK i \in DOMAIN s : \E a \in DOMAIN s[i] : (i > 1 \/ a > n + 1) /\ s[i][a] = x
        BY <3>2
      <4>2. PICK a \in DOMAIN s[i] : (i > 1 \/ a > n + 1) /\ s[i][a] = x
        BY <4>1
      <4>3. i > 1 \/ a > n
        <5>1. a \in Nat
          BY DEF StackOf
        <5> QED BY <4>2, <5>1
      <4> QED BY <4>2, <4>3 DEF Left
    <3> QED BY <3>1, <3>2 DEF Left
  <2> QED BY <2>1
<1> HIDE DEF k
<1>7. Left(s, r, n + 1) = Left(s, r, n) \ {k}
  BY <1>3, <1>4, <1>5, <1>6
<1> QED BY <1>2, <1>3, <1>7 DEF k

(* The indices of the tail of a sequence.                                  *)
LEMMA TailIndices ==
  ASSUME NEW S, NEW s \in Seq(S), s # <<>>
  PROVE  /\ Tail(s) \in Seq(S) /\ Len(Tail(s)) = Len(s) - 1 /\ Len(s) \in Nat \ {0}
         /\ DOMAIN Tail(s) = 1 .. Len(s) - 1 /\ DOMAIN s = 1 .. Len(s)
         /\ \A i \in DOMAIN Tail(s) : i + 1 \in DOMAIN s /\ Tail(s)[i] = s[i + 1]
         /\ \A i \in DOMAIN s : i # 1 => i - 1 \in DOMAIN Tail(s) /\ s[i] = Tail(s)[i - 1]
<1>1. /\ Tail(s) \in Seq(S) /\ Len(Tail(s)) = Len(s) - 1 /\ Len(s) \in Nat \ {0}
      /\ DOMAIN Tail(s) = 1 .. Len(s) - 1 /\ DOMAIN s = 1 .. Len(s)
  OBVIOUS
<1>2. \A i \in 1 .. Len(s) - 1 : i + 1 \in 1 .. Len(s) /\ Tail(s)[i] = s[i + 1]
  OBVIOUS
<1>3. ASSUME NEW i \in 1 .. Len(s), i # 1
      PROVE  i - 1 \in 1 .. Len(s) - 1 /\ s[i] = Tail(s)[i - 1]
  <2>1. i - 1 \in 1 .. Len(s) - 1 /\ (i - 1) + 1 = i
    BY <1>1, <1>3
  <2> QED BY <1>2, <2>1
<1> QED BY <1>1, <1>2, <1>3

LEMMA LeftAfterFinish ==
  ASSUME NEW s \in Seq(StackOf), s # <<>>, NEW r \in Seq(NonPle)
  PROVE  Left(Tail(s), r, 0) = Left(s, r, Len(s[1]))
<1>1. /\ DOMAIN Tail(s) = 1 .. Len(s) - 1 /\ DOMAIN s = 1 .. Len(s) /\ Len(s) \in Nat \ {0}
      /\ \A i \in DOMAIN Tail(s) : i + 1 \in DOMAIN s /\ Tail(s)[i] = s[i + 1]
      /\ \A i \in DOMAIN s : i # 1 => i - 1 \in DOMAIN Tail(s) /\ s[i] = Tail(s)[i - 1]
  BY TailIndices
<1>2. \A i \in DOMAIN s : DOMAIN s[i] = 1 .. Len(s[i]) /\ Len(s[i]) \in Nat
  BY DEF StackOf
<1>3. ASSUME NEW x \in Left(Tail(s), r, 0) PROVE x \in Left(s, r, Len(s[1]))
  <2>1. CASE \E j \in DOMAIN r : r[j] = x
    BY <2>1 DEF Left
  <2>2. CASE \E i \in DOMAIN Tail(s) : \E a \in DOMAIN Tail(s)[i] : Tail(s)[i][a] = x
    <3>1. PICK i \in DOMAIN Tail(s) : \E a \in DOMAIN Tail(s)[i] : Tail(s)[i][a] = x
      BY <2>2
    <3>2. i + 1 \in DOMAIN s /\ Tail(s)[i] = s[i + 1] /\ i + 1 > 1
      BY <1>1
    <3>3. PICK a \in DOMAIN s[i + 1] : s[i + 1][a] = x
      BY <3>1, <3>2
    <3> QED BY <1>3, <3>2, <3>3 DEF Left
  <2> QED BY <1>3, <2>1, <2>2 DEF Left
<1>4. ASSUME NEW x \in Left(s, r, Len(s[1])) PROVE x \in Left(Tail(s), r, 0)
  <2>1. CASE \E j \in DOMAIN r : r[j] = x
    BY <2>1 DEF Left
  <2>2. CASE \E i \in DOMAIN s : \E a \in DOMAIN s[i] : (i > 1 \/ a > Len(s[1])) /\ s[i][a] = x
    <3>1. PICK i \in DOMAIN s : \E a \in DOMAIN s[i] : (i > 1 \/ a > Len(s[1])) /\ s[i][a] = x
      BY <2>2
    <3>2. PICK a \in DOMAIN s[i] : (i > 1 \/ a > Len(s[1])) /\ s[i][a] = x
      BY <3>1
    <3>3. i # 1
      BY <1>2, <3>2
    <3>4. i - 1 \in DOMAIN Tail(s) /\ s[i] = Tail(s)[i - 1]
      BY <1>1, <3>3
    <3>5. a \in DOMAIN Tail(s)[i - 1] /\ Tail(s)[i - 1][a] = x /\ a > 0
      BY <1>2, <3>2, <3>4
    <3> QED BY <1>4, <3>4, <3>5 DEF Left
  <2> QED BY <1>4, <2>1, <2>2 DEF Left
<1> QED BY <1>3, <1>4

LEMMA LeftAfterPass ==
  ASSUME NEW r \in Seq(NonPle), r # <<>>, \A i, j \in DOMAIN r : r[i] = r[j] => i = j
  PROVE  /\ r[1] \in Left(<<>>, r, 0) /\ r[1] \in NonPle
         /\ Left(<<>>, Tail(r), 0) = Left(<<>>, r, 0) \ {r[1]}
<1>1. /\ DOMAIN Tail(r) = 1 .. Len(r) - 1 /\ DOMAIN r = 1 .. Len(r) /\ Len(r) \in Nat \ {0}
      /\ \A i \in DOMAIN Tail(r) : i + 1 \in DOMAIN r /\ Tail(r)[i] = r[i + 1]
      /\ \A i \in DOMAIN r : i # 1 => i - 1 \in DOMAIN Tail(r) /\ r[i] = Tail(r)[i - 1]
  BY TailIndices
<1>2. \A q : Left(<<>>, q, 0) = {k \in Keys : \E j \in DOMAIN q : q[j] = k}
  BY DEF Left
<1>3. 1 \in DOMAIN r /\ r[1] \in NonPle /\ r[1] \in Keys
  BY <1>1 DEF NonPle
<1>4. ASSUME NEW x \in Left(<<>>, Tail(r), 0) PROVE x \in Left(<<>>, r, 0) /\ x # r[1]
  <2>1. PICK i \in DOMAIN Tail(r) : Tail(r)[i] = x
    BY <1>2
  <2>2. i + 1 \in DOMAIN r /\ r[i + 1] = x /\ i + 1 # 1
    BY <1>1, <2>1
  <2> QED BY <1>2, <1>3, <2>2
<1>5. ASSUME NEW x \in Left(<<>>, r, 0), x # r[1] PROVE x \in Left(<<>>, Tail(r), 0)
  <2>1. PICK i \in DOMAIN r : r[i] = x
    BY <1>2
  <2>2. i - 1 \in DOMAIN Tail(r) /\ Tail(r)[i - 1] = x
    BY <1>1, <1>5, <2>1
  <2> QED BY <1>2, <1>5, <2>2
<1> QED BY <1>2, <1>3, <1>4, <1>5

LEMMA ApartTails ==
  ASSUME NEW s \in Seq(StackOf), NEW r \in Seq(NonPle), Rewrite!Apart(s, r)
  PROVE  /\ s # <<>> => Rewrite!Apart(Tail(s), r)
         /\ r # <<>> => Rewrite!Apart(s, Tail(r))
<1>1. ASSUME s # <<>> PROVE Rewrite!Apart(Tail(s), r)
  <2>1. \A i \in DOMAIN Tail(s) : i + 1 \in DOMAIN s /\ Tail(s)[i] = s[i + 1] /\ i \in Int
    <3>1. DOMAIN Tail(s) \subseteq Int
      BY <1>1, TailIndices
    <3> QED BY <1>1, <3>1, TailIndices
  <2>2. ASSUME NEW i \in DOMAIN Tail(s), NEW j \in DOMAIN Tail(s),
               NEW a \in DOMAIN Tail(s)[i], NEW b \in DOMAIN Tail(s)[j],
               Tail(s)[i][a] = Tail(s)[j][b]
        PROVE  i = j /\ a = b
    <3>1. i + 1 = j + 1 /\ a = b
      BY <2>1, <2>2 DEF Rewrite!Apart
    <3> QED BY <2>1, <3>1
  <2>3. ASSUME NEW i \in DOMAIN Tail(s), NEW a \in DOMAIN Tail(s)[i], NEW j \in DOMAIN r
        PROVE  Tail(s)[i][a] # r[j]
    BY <2>1 DEF Rewrite!Apart
  <2> QED BY <2>2, <2>3 DEF Rewrite!Apart
<1>2. ASSUME r # <<>> PROVE Rewrite!Apart(s, Tail(r))
  <2>1. \A i \in DOMAIN Tail(r) : i + 1 \in DOMAIN r /\ Tail(r)[i] = r[i + 1] /\ i \in Int
    <3>1. DOMAIN Tail(r) \subseteq Int
      BY <1>2, TailIndices
    <3> QED BY <1>2, <3>1, TailIndices
  <2>2. ASSUME NEW i \in DOMAIN Tail(r), NEW j \in DOMAIN Tail(r), Tail(r)[i] = Tail(r)[j]
        PROVE  i = j
    <3>1. i + 1 = j + 1
      BY <2>1, <2>2 DEF Rewrite!Apart
    <3> QED BY <2>1, <3>1
  <2> QED BY <2>1, <2>2 DEF Rewrite!Apart
<1> QED BY <1>1, <1>2

(* What the layout of the checkpoint says of targets and tensors.          *)
LEMMA RewriteFacts ==
  /\ Rewrite!MaxShards \in Nat /\ Rewrite!MaxShards = Len(Stacks) + Len(Rest)
  /\ Stacks \in Seq(StackOf) /\ Rest \in Seq(NonPle) /\ Rewrite!Apart(Stacks, Rest)
  /\ IsFiniteSet(Keys) /\ RewriteCrashes \in Nat
  /\ Stacks \in Seq(Rewrite!Targets)
  /\ \A j \in DOMAIN Rest : <<Rest[j]>> \in Rewrite!Targets
  /\ \A t \in Rewrite!Targets : \/ \E i \in DOMAIN Stacks : Stacks[i] = t
                               \/ \E j \in DOMAIN Rest : <<Rest[j]>> = t
  /\ \A k \in NonPle : \/ \E i \in DOMAIN Stacks : \E a \in DOMAIN Stacks[i] : Stacks[i][a] = k
                       \/ \E j \in DOMAIN Rest : Rest[j] = k
<1>1. /\ Stacks \in Seq(StackOf) /\ Rest \in Seq(NonPle) /\ Rewrite!Apart(Stacks, Rest)
      /\ IsFiniteSet(Keys) /\ RewriteCrashes \in Nat
      /\ Keys = PleKeys \cup UNION {Rewrite!ToSet(t) : t \in Rewrite!Targets}
  <2>1. Rewrite!LayoutOK
    BY LayoutAssumption
  <2>2. /\ Stacks \in Seq(Seq(Keys \ PleKeys) \ {<<>>}) /\ Rest \in Seq(Keys \ PleKeys)
        /\ Rewrite!Apart(Stacks, Rest)
        /\ Rewrite!IsFiniteSet(Keys) /\ RewriteCrashes \in Nat
        /\ Keys = PleKeys \cup UNION {Rewrite!ToSet(t) : t \in Rewrite!Targets}
    BY <2>1, Zenon DEF Rewrite!LayoutOK
  <2>3. IsFiniteSet(Keys)
    BY <2>2 DEF Rewrite!IsFiniteSet, IsFiniteSet
  <2> QED BY <2>2, <2>3, Zenon DEF StackOf, NonPle
<1>2. Rewrite!MaxShards \in Nat /\ Rewrite!MaxShards = Len(Stacks) + Len(Rest)
  BY <1>1 DEF Rewrite!MaxShards
<1>3. /\ \A t \in Rewrite!Targets : \/ \E i \in DOMAIN Stacks : Stacks[i] = t
                                   \/ \E j \in DOMAIN Rest : <<Rest[j]>> = t
      /\ \A i \in DOMAIN Stacks : Stacks[i] \in Rewrite!Targets
      /\ \A j \in DOMAIN Rest : <<Rest[j]>> \in Rewrite!Targets
  BY DEF Rewrite!Targets, Rewrite!Singles, Rewrite!ToSet
<1>4. Stacks \in Seq(Rewrite!Targets)
  <2>1. Len(Stacks) \in Nat /\ DOMAIN Stacks = 1 .. Len(Stacks)
    BY <1>1
  <2>2. Stacks \in [1 .. Len(Stacks) -> Rewrite!Targets]
    BY <1>1, <1>3, <2>1
  <2> QED BY <2>1, <2>2
<1>5. ASSUME NEW k \in NonPle
      PROVE  \/ \E i \in DOMAIN Stacks : \E a \in DOMAIN Stacks[i] : Stacks[i][a] = k
             \/ \E j \in DOMAIN Rest : Rest[j] = k
  <2>1. PICK t \in Rewrite!Targets : k \in Rewrite!ToSet(t)
    BY <1>1 DEF NonPle
  <2>2. PICK a \in DOMAIN t : t[a] = k
    BY <2>1 DEF Rewrite!ToSet
  <2>3. CASE \E i \in DOMAIN Stacks : Stacks[i] = t
    BY <2>2, <2>3
  <2>4. CASE \E j \in DOMAIN Rest : <<Rest[j]>> = t
    <3>1. PICK j \in DOMAIN Rest : <<Rest[j]>> = t
      BY <2>4
    <3>2. k = Rest[j]
      BY <2>2, <3>1
    <3> QED BY <3>2
  <2> QED BY <1>3, <2>3, <2>4
<1> QED BY <1>1, <1>2, <1>3, <1>4, <1>5

LEMMA RewriteInit == Rewrite!Init => RewriteInv
<1> SUFFICES ASSUME Rewrite!Init PROVE RewriteInv
  OBVIOUS
<1> USE DEF Rewrite!Init
<1>1. Rewrite!MaxShards \in Nat /\ RewriteCrashes \in Nat /\ Rewrite!MaxShards >= 0
  BY RewriteFacts
<1>2. Rewrite!TypeOK
  <2>1. out \in [1 .. Rewrite!MaxShards -> SUBSET Rewrite!Targets]
    OBVIOUS
  <2>2. weightMap \in [Rewrite!Targets -> 0 .. Rewrite!MaxShards]
    BY <1>1
  <2>3. 0 \in 0 .. Rewrite!MaxShards /\ 0 \in 0 .. RewriteCrashes
    BY <1>1
  <2> QED BY <2>1, <2>2, <2>3 DEF Rewrite!TypeOK
<1>3. ToDo
  <2>1. Rewrite!Apart(<<>>, <<>>)
    BY DEF Rewrite!Apart
  <2> QED BY <1>1, <2>1 DEF ToDo
<1>4. Counters
  BY DEF Counters
<1>5. NothingMissing
  BY DEF NothingMissing
<1>6. AllPlaced
  BY DEF AllPlaced
<1> QED BY <1>2, <1>3, <1>4, <1>5, <1>6 DEF RewriteInv

(* A tensor was read and counted.                                          *)
LEMMA DoneCounts ==
  ASSUME RewriteInv, pc = "run", pc' = "run", UNCHANGED <<keepSrc, fileOf, crashes>>,
         NEW k \in NonPle, k \in Rewrite!Unread, fileOf[k] \in files, Rewrite!Done(k),
         Rewrite!Unread' = Rewrite!Unread \ {k}
  PROVE  /\ remaining' \in [Shards -> Nat] /\ files' \subseteq Shards
         /\ Counters' /\ NothingMissing'
<1> DEFINE f0 == fileOf[k]
<1>0. /\ fileOf \in [Keys -> Shards] /\ files \subseteq Shards /\ remaining \in [Shards -> Nat]
      /\ f0 \in Shards /\ k \in Keys /\ Rewrite!Unread \subseteq Keys /\ IsFiniteSet(Keys)
      /\ keepSrc \in BOOLEAN /\ f0 \in files
  BY RewriteFacts DEF RewriteInv, Rewrite!TypeOK, NonPle, Rewrite!Unread
<1>1. \A f \in Shards : /\ IsFiniteSet(Pending(f)) /\ Cardinality(Pending(f)) \in Nat
                        /\ Pending(f)' = IF f = f0 THEN Pending(f) \ {k} ELSE Pending(f)
                        /\ IsFiniteSet(Pending(f)')
  <2> TAKE f \in Shards
  <2>1. Pending(f) \subseteq Keys /\ Pending(f)' \subseteq Keys
    BY <1>0 DEF Pending
  <2>2. IsFiniteSet(Pending(f)) /\ Cardinality(Pending(f)) \in Nat /\ IsFiniteSet(Pending(f)')
    BY <1>0, <2>1, FS_Subset, FS_CardinalityType
  <2>3. Pending(f)' = {x \in Rewrite!Unread \ {k} : fileOf[x] = f}
    BY DEF Pending
  <2>4. Pending(f)' = IF f = f0 THEN Pending(f) \ {k} ELSE Pending(f)
    BY <2>3 DEF Pending
  <2> QED BY <2>2, <2>4
<1>2. k \in Pending(f0)
  BY DEF Pending
<1>3. /\ Cardinality(Pending(f0)') = Cardinality(Pending(f0)) - 1
      /\ Cardinality(Pending(f0)') \in Nat
  BY <1>0, <1>1, <1>2, FS_RemoveElement, FS_CardinalityType
<1>4. remaining[f0] = Cardinality(Pending(f0))
  BY <1>0 DEF RewriteInv, Counters
<1>5. /\ remaining' = [remaining EXCEPT ![f0] = remaining[f0] - 1]
      /\ remaining'[f0] = Cardinality(Pending(f0)')
      /\ \A f \in Shards : f # f0 => remaining'[f] = remaining[f]
      /\ files' = IF remaining'[f0] <= 0 /\ ~keepSrc THEN files \ {f0} ELSE files
  BY <1>0, <1>3, <1>4 DEF Rewrite!Done
<1>6. remaining' \in [Shards -> Nat] /\ files' \subseteq Shards
  BY <1>0, <1>3, <1>5
<1>7. Cardinality(Pending(f0)') = 0 <=> Pending(f0)' = {}
  BY <1>0, <1>1, FS_EmptySet
<1>8. f0 \in files' <=> keepSrc \/ Pending(f0)' # {}
  <2>1. remaining'[f0] <= 0 <=> Pending(f0)' = {}
    <3>1. \A c \in Nat : c <= 0 <=> c = 0
      OBVIOUS
    <3>2. remaining'[f0] <= 0 <=> Cardinality(Pending(f0)') = 0
      <4> HIDE DEF f0, Pending
      <4> QED BY <1>3, <1>5, <3>1
    <3> HIDE DEF f0, Pending
    <3> QED BY <1>7, <3>2
  <2>2. keepSrc \/ remaining'[f0] > 0 => files' = files
    BY <1>3, <1>5
  <2>3. ~keepSrc /\ remaining'[f0] <= 0 => files' = files \ {f0}
    BY <1>5
  <2>4. remaining'[f0] <= 0 \/ remaining'[f0] > 0
    BY <1>3, <1>5
  <2> HIDE DEF f0
  <2> QED BY <1>0, <2>1, <2>2, <2>3, <2>4
<1>9. \A f \in Shards : f # f0 => (f \in files' <=> f \in files)
  BY <1>5
<1>10. Counters'
  <2>1. ASSUME NEW f \in Shards
        PROVE  remaining'[f] = IF f \in files' THEN Cardinality(Pending(f)') ELSE 0
    <3>1. CASE f = f0
      <4>1. f0 \notin files' => remaining'[f0] = 0
        BY <1>5, <1>7, <1>8
      <4> QED BY <1>5, <3>1, <4>1
    <3>2. CASE f # f0
      <4>1. remaining[f] = IF f \in files THEN Cardinality(Pending(f)) ELSE 0
        BY DEF RewriteInv, Counters
      <4> QED BY <1>1, <1>5, <1>9, <3>2, <4>1
    <3> QED BY <3>1, <3>2
  <2>2. ASSUME NEW f \in files', ~keepSrc, Pending(f)' = {} PROVE OnlyPle(f)
    <3>1. f # f0 /\ f \in Shards /\ f \in files
      BY <1>6, <1>8, <1>9, <2>2
    <3>2. Pending(f) = {}
      BY <1>1, <2>2, <3>1
    <3> QED BY <2>2, <3>1, <3>2 DEF RewriteInv, Counters
  <2>3. ASSUME NEW f \in Shards \ files' PROVE ~OnlyPle(f)
    <3>1. CASE f = f0
      BY <1>0, <3>1 DEF OnlyPle, NonPle
    <3>2. CASE f # f0
      BY <1>9, <2>3, <3>2 DEF RewriteInv, Counters
    <3> QED BY <3>1, <3>2
  <2>4. \A f : OnlyPle(f)' <=> OnlyPle(f)
    BY DEF OnlyPle
  <2> QED BY <2>1, <2>2, <2>3, <2>4 DEF Counters
<1>11. NothingMissing'
  <2>1. keepSrc => files' = Shards
    BY <1>5 DEF RewriteInv, NothingMissing
  <2>2. ASSUME keepSrc \/ crashes = 0, NEW x \in Rewrite!Unread' PROVE fileOf[x] \in files'
    <3>1. fileOf[x] \in files /\ fileOf[x] \in Shards
      BY <1>0, <2>2 DEF RewriteInv, NothingMissing
    <3>2. CASE fileOf[x] = f0
      <4>1. x \in Pending(f0)'
        BY <2>2, <3>2 DEF Pending
      <4> QED BY <1>8, <3>2, <4>1
    <3> QED BY <1>9, <3>1, <3>2
  <2> QED BY <2>1, <2>2 DEF NothingMissing
<1> QED BY <1>6, <1>10, <1>11

OnDisk(t) == weightMap[t] \in 1 .. no /\ t \in out[weightMap[t]]

(* The finished tensors of a full shard are on disk where the map says.    *)
LEMMA FlushKeeps ==
  ASSUME Rewrite!TypeOK, NEW tensors \in SUBSET Rewrite!Targets, shard \subseteq tensors,
         no < Rewrite!MaxShards, Rewrite!Flush(tensors)
  PROVE  /\ out' \in [1 .. Rewrite!MaxShards -> SUBSET Rewrite!Targets]
         /\ weightMap' \in [Rewrite!Targets -> 0 .. Rewrite!MaxShards]
         /\ no' = no + 1 /\ no' \in 0 .. Rewrite!MaxShards /\ shard' = {}
         /\ \A t \in Rewrite!Targets : t \in tensors \/ OnDisk(t) => OnDisk(t)'
<1> DEFINE n == no + 1
<1>1. /\ out \in [1 .. Rewrite!MaxShards -> SUBSET Rewrite!Targets]
      /\ weightMap \in [Rewrite!Targets -> 0 .. Rewrite!MaxShards]
      /\ no \in 0 .. Rewrite!MaxShards /\ Rewrite!MaxShards \in Nat
  BY RewriteFacts DEF Rewrite!TypeOK
<1>2. /\ n \in 1 .. Rewrite!MaxShards /\ n \in 0 .. Rewrite!MaxShards /\ no \in Nat
      /\ \A m \in 1 .. no : m # n /\ m \in 1 .. n /\ m \in 1 .. Rewrite!MaxShards
      /\ n \in 1 .. n
  BY <1>1
<1>3. /\ no' = n /\ shard' = {} /\ out' = [out EXCEPT ![n] = tensors]
      /\ weightMap' = [t \in Rewrite!Targets |-> IF t \in tensors THEN n ELSE weightMap[t]]
  BY DEF Rewrite!Flush
<1> HIDE DEF n
<1>4. out' \in [1 .. Rewrite!MaxShards -> SUBSET Rewrite!Targets]
  BY <1>1, <1>3
<1>5. weightMap' \in [Rewrite!Targets -> 0 .. Rewrite!MaxShards]
  BY <1>1, <1>2, <1>3
<1>6. ASSUME NEW t \in Rewrite!Targets, t \in tensors \/ OnDisk(t) PROVE OnDisk(t)'
  <2>1. CASE t \in tensors
    <3>1. weightMap'[t] = n /\ out'[n] = tensors
      BY <1>1, <1>2, <1>3, <2>1
    <3> QED BY <1>2, <1>3, <2>1, <3>1 DEF OnDisk
  <2>2. CASE t \notin tensors
    <3>1. weightMap[t] \in 1 .. no /\ t \in out[weightMap[t]] /\ weightMap'[t] = weightMap[t]
      BY <1>3, <1>6, <2>2 DEF OnDisk
    <3>2. out'[weightMap[t]] = out[weightMap[t]]
      BY <1>1, <1>2, <1>3, <3>1
    <3> QED BY <1>2, <1>3, <3>1, <3>2 DEF OnDisk
  <2> QED BY <2>1, <2>2
<1> QED BY <1>2, <1>3, <1>4, <1>5, <1>6 DEF n

Waiting(s) == IF s = {} THEN 0 ELSE 1

(* A finished tensor stays in memory or goes to disk with the others.      *)
LEMMA AddKeeps ==
  ASSUME Rewrite!TypeOK, NEW u \in Rewrite!Targets, no < Rewrite!MaxShards, Rewrite!Add(u)
  PROVE  /\ out' \in [1 .. Rewrite!MaxShards -> SUBSET Rewrite!Targets]
         /\ weightMap' \in [Rewrite!Targets -> 0 .. Rewrite!MaxShards]
         /\ no' \in 0 .. Rewrite!MaxShards /\ shard' \subseteq Rewrite!Targets
         /\ no' + Waiting(shard') <= no + 1
         /\ \A t \in Rewrite!Targets : t = u \/ t \in shard \/ OnDisk(t) => t \in shard' \/ OnDisk(t)'
<1>0. shard \cup {u} \in SUBSET Rewrite!Targets /\ no \in Nat /\ shard \in SUBSET Rewrite!Targets
  BY RewriteFacts DEF Rewrite!TypeOK
<1>1. CASE Rewrite!Flush(shard \cup {u})
  <2>1. /\ out' \in [1 .. Rewrite!MaxShards -> SUBSET Rewrite!Targets]
        /\ weightMap' \in [Rewrite!Targets -> 0 .. Rewrite!MaxShards]
        /\ no' = no + 1 /\ no' \in 0 .. Rewrite!MaxShards /\ shard' = {}
        /\ \A t \in Rewrite!Targets : t \in shard \cup {u} \/ OnDisk(t) => OnDisk(t)'
    BY <1>0, <1>1, FlushKeeps
  <2> QED BY <1>0, <2>1 DEF Waiting
<1>2. CASE shard' = shard \cup {u} /\ UNCHANGED <<no, out, weightMap>>
  <2>1. shard' = shard \cup {u} /\ no' = no /\ out' = out /\ weightMap' = weightMap
    BY <1>2
  <2>2. Waiting(shard') = 1
    BY <2>1 DEF Waiting
  <2>3. \A t : OnDisk(t)' <=> OnDisk(t)
    BY <2>1 DEF OnDisk
  <2> QED BY <1>0, <2>1, <2>2, <2>3 DEF Rewrite!TypeOK
<1> QED BY <1>1, <1>2 DEF Rewrite!Add

LEMMA RewriteReads ==
  ASSUME RewriteInv, Rewrite!ReadPiece, UNCHANGED <<keepSrc, fileOf>>
  PROVE  RewriteInv'
<1> DEFINE k == todo[1][read + 1]
<1>1. /\ pc = "run" /\ todo # <<>> /\ read < Len(todo[1]) /\ fileOf[k] \in files
      /\ Rewrite!Done(k) /\ read' = read + 1
      /\ out' = out /\ index' = index /\ pc' = pc /\ todo' = todo /\ rest' = rest
      /\ shard' = shard /\ no' = no /\ weightMap' = weightMap /\ crashes' = crashes
      /\ keepSrc' = keepSrc /\ fileOf' = fileOf
  BY DEF Rewrite!ReadPiece
<1>2. /\ todo \in Seq(StackOf) /\ rest \in Seq(NonPle) /\ Rewrite!Apart(todo, rest) /\ read \in Nat
      /\ Rewrite!TypeOK
  BY DEF RewriteInv, ToDo, Rewrite!TypeOK, StackOf
<1>3. Len(todo[1]) \in Nat
  BY <1>1, <1>2 DEF StackOf
<1>4. k \in Rewrite!Unread /\ k \in NonPle /\ Rewrite!Unread' = Rewrite!Unread \ {k}
  <2>1. Rewrite!Unread = Left(todo, rest, read) /\ Rewrite!Unread' = Left(todo', rest', read')
    BY UnreadIsLeft DEF Rewrite!Unread, Left
  <2>2. k \in Left(todo, rest, read) /\ k \in NonPle
        /\ Left(todo, rest, read + 1) = Left(todo, rest, read) \ {k}
    BY <1>1, <1>2, LeftAfterRead
  <2> HIDE DEF k
  <2> QED BY <1>1, <2>1, <2>2
<1> HIDE DEF k
<1>5. remaining' \in [Shards -> Nat] /\ files' \subseteq Shards /\ Counters' /\ NothingMissing'
  BY <1>1, <1>4, DoneCounts
<1>6. Rewrite!TypeOK'
  BY <1>1, <1>2, <1>5 DEF Rewrite!TypeOK
<1>7. ToDo'
  <2>1. read' <= Len(todo[1])
    BY <1>1, <1>2, <1>3
  <2>2. Rewrite!Apart(todo', rest')
    BY <1>1, <1>2
  <2> QED BY <1>1, <2>1, <2>2 DEF RewriteInv, ToDo
<1>8. AllPlaced'
  <2>1. \A t : Placed(t)' <=> Placed(t)
    BY <1>1 DEF Placed
  <2> QED BY <1>1, <2>1 DEF RewriteInv, AllPlaced
<1> QED BY <1>5, <1>6, <1>7, <1>8 DEF RewriteInv

(* A step that reads nothing leaves the counters right.                    *)
LEMMA CountersKept ==
  ASSUME RewriteInv, UNCHANGED <<keepSrc, fileOf, files, remaining>>,
         Rewrite!Unread' = Rewrite!Unread, pc' = pc \/ (pc \in {"run", "index"} /\ pc' # "run")
  PROVE  Counters'
<1>1. \A f : (Pending(f)' = Pending(f)) /\ (OnlyPle(f)' <=> OnlyPle(f))
  BY DEF Pending, OnlyPle
<1>2. \A f \in Shards : pc' = "run" =>
        remaining'[f] = IF f \in files' THEN Cardinality(Pending(f)') ELSE 0
  BY <1>1 DEF RewriteInv, Counters
<1>3. pc' \in {"run", "index", "done"} => pc \in {"run", "index", "done"}
  OBVIOUS
<1>4. \A f \in files' : pc' \in {"run", "index", "done"} /\ ~keepSrc' /\ Pending(f)' = {}
                        => OnlyPle(f)'
  BY <1>1, <1>3 DEF RewriteInv, Counters
<1>5. \A f \in Shards \ files' : ~OnlyPle(f)'
  BY <1>1 DEF RewriteInv, Counters
<1> QED BY <1>2, <1>4, <1>5 DEF Counters

LEMMA RewriteFinishes ==
  ASSUME RewriteInv, Rewrite!FinishStack, UNCHANGED <<keepSrc, fileOf>>
  PROVE  RewriteInv'
<1> DEFINE u == todo[1]
<1>1. /\ pc = "run" /\ todo # <<>> /\ read = Len(u) /\ Rewrite!Add(u)
      /\ todo' = Tail(todo) /\ read' = 0 /\ files' = files /\ index' = index /\ pc' = pc
      /\ rest' = rest /\ remaining' = remaining /\ crashes' = crashes
      /\ keepSrc' = keepSrc /\ fileOf' = fileOf
  BY DEF Rewrite!FinishStack
<1>2. /\ todo \in Seq(StackOf) /\ rest \in Seq(NonPle) /\ Rewrite!Apart(todo, rest)
      /\ Rewrite!TypeOK /\ todo \in Seq(Rewrite!Targets)
      /\ no + Waiting(shard) + Len(todo) + Len(rest) <= Rewrite!MaxShards
      /\ Rewrite!MaxShards \in Nat /\ no \in Nat /\ Waiting(shard) \in Nat
  BY RewriteFacts DEF RewriteInv, ToDo, Rewrite!TypeOK, StackOf, Waiting
<1>3. /\ Tail(todo) \in Seq(StackOf) /\ Len(Tail(todo)) = Len(todo) - 1 /\ Len(todo) \in Nat \ {0}
      /\ Tail(todo) \in Seq(Rewrite!Targets) /\ Len(rest) \in Nat
      /\ \A i \in DOMAIN todo : i # 1 => i - 1 \in DOMAIN Tail(todo) /\ todo[i] = Tail(todo)[i - 1]
      /\ u \in Rewrite!Targets
  <2>1. Tail(todo) \in Seq(Rewrite!Targets) /\ u \in Rewrite!Targets /\ Len(rest) \in Nat
    BY <1>1, <1>2
  <2> QED BY <1>1, <1>2, <2>1, TailIndices
<1>4. no < Rewrite!MaxShards
  BY <1>2, <1>3
<1>5. /\ out' \in [1 .. Rewrite!MaxShards -> SUBSET Rewrite!Targets]
      /\ weightMap' \in [Rewrite!Targets -> 0 .. Rewrite!MaxShards]
      /\ no' \in 0 .. Rewrite!MaxShards /\ shard' \subseteq Rewrite!Targets
      /\ no' + Waiting(shard') <= no + 1
      /\ \A t \in Rewrite!Targets : t = u \/ t \in shard \/ OnDisk(t) => t \in shard' \/ OnDisk(t)'
  BY <1>1, <1>2, <1>3, <1>4, AddKeeps
<1>6. Rewrite!Unread' = Rewrite!Unread
  <2>1. Rewrite!Unread = Left(todo, rest, read) /\ Rewrite!Unread' = Left(todo', rest', read')
    BY UnreadIsLeft DEF Rewrite!Unread, Left
  <2> QED BY <1>1, <1>2, <2>1, LeftAfterFinish
<1>7. Rewrite!TypeOK'
  <2>1. read' \in Nat /\ todo' \in Seq(Rewrite!Targets)
    BY <1>1, <1>3
  <2> QED BY <1>1, <1>2, <1>5, <2>1 DEF Rewrite!TypeOK
<1>8. ToDo'
  <2>1. Rewrite!Apart(todo', rest')
    BY <1>1, <1>2, ApartTails
  <2>2. IF todo' = <<>> THEN read' = 0 ELSE read' <= Len(todo'[1])
    <3>1. CASE todo' = <<>>
      BY <1>1, <3>1
    <3>2. CASE todo' # <<>>
      <4>1. todo' \in Seq(StackOf) /\ todo'[1] \in StackOf
        BY <1>1, <1>3, <3>2
      <4>2. Len(todo'[1]) \in Nat
        BY <4>1 DEF StackOf
      <4> QED BY <1>1, <3>2, <4>2
    <3> QED BY <3>1, <3>2
  <2>3. no' + Waiting(shard') + Len(todo') + Len(rest') <= Rewrite!MaxShards
    <3>1. no' \in Nat /\ Waiting(shard') \in Nat
      BY <1>2, <1>5 DEF Waiting
    <3>2. no' + Waiting(shard') + (Len(todo) - 1) + Len(rest) <= Rewrite!MaxShards
      <4>1. \A a, b, c, d, e, f, m \in Nat : a + b <= c + 1 /\ c + d + e + f <= m
                => a + b + (e - 1) + f <= m
        OBVIOUS
      <4> QED BY <1>2, <1>3, <1>5, <3>1, <4>1
    <3> QED BY <1>1, <1>3, <3>2
  <2>4. \A j \in DOMAIN rest' : <<rest'[j]>> \in Rewrite!Targets
    BY <1>1 DEF RewriteInv, ToDo
  <2>5. todo' \in Seq(Seq(NonPle) \ {<<>>}) /\ rest' \in Seq(NonPle)
    BY <1>1, <1>2, <1>3 DEF StackOf
  <2> QED BY <2>1, <2>2, <2>3, <2>4, <2>5 DEF ToDo, Waiting
<1>9. Counters'
  BY <1>1, <1>6, CountersKept
<1>10. NothingMissing'
  BY <1>1, <1>6 DEF RewriteInv, NothingMissing
<1>11. AllPlaced'
  <2>1. ASSUME NEW t \in Rewrite!Targets, Placed(t) PROVE Placed(t)'
    <3>1. CASE \E i \in DOMAIN todo : todo[i] = t
      <4>1. PICK i \in DOMAIN todo : todo[i] = t
        BY <3>1
      <4>2. CASE i = 1
        <5>1. t \in shard' \/ OnDisk(t)'
          BY <1>5, <4>1, <4>2
        <5> QED BY <5>1 DEF Placed, OnDisk
      <4>3. CASE i # 1
        <5>1. i - 1 \in DOMAIN todo' /\ todo'[i - 1] = t
          BY <1>1, <1>3, <4>1, <4>3
        <5> QED BY <5>1 DEF Placed
      <4> QED BY <4>2, <4>3
    <3>2. CASE \E j \in DOMAIN rest : <<rest[j]>> = t
      BY <1>1, <3>2 DEF Placed
    <3>3. CASE t \in shard \/ OnDisk(t)
      BY <1>5, <3>3 DEF Placed, OnDisk
    <3>4. \/ \E i \in DOMAIN todo : todo[i] = t
          \/ \E j \in DOMAIN rest : <<rest[j]>> = t
          \/ t \in shard \/ OnDisk(t)
      BY <2>1 DEF Placed, OnDisk
    <3> QED BY <3>1, <3>2, <3>3, <3>4
  <2> QED BY <1>1, <2>1 DEF RewriteInv, AllPlaced
<1> QED BY <1>7, <1>8, <1>9, <1>10, <1>11 DEF RewriteInv

LEMMA RewritePasses ==
  ASSUME RewriteInv, Rewrite!PassThrough, UNCHANGED <<keepSrc, fileOf>>
  PROVE  RewriteInv'
<1> DEFINE k == rest[1]
           u == <<k>>
<1>1. /\ pc = "run" /\ todo = <<>> /\ rest # <<>> /\ fileOf[k] \in files /\ Rewrite!Add(u)
      /\ Rewrite!Done(k) /\ rest' = Tail(rest) /\ index' = index /\ pc' = pc
      /\ todo' = todo /\ read' = read /\ crashes' = crashes
      /\ keepSrc' = keepSrc /\ fileOf' = fileOf
  BY DEF Rewrite!PassThrough
<1>2. /\ todo \in Seq(StackOf) /\ rest \in Seq(NonPle) /\ Rewrite!Apart(todo, rest)
      /\ Rewrite!TypeOK /\ todo \in Seq(Rewrite!Targets) /\ rest \in Seq(Keys) /\ read = 0
      /\ no + Waiting(shard) + Len(todo) + Len(rest) <= Rewrite!MaxShards
      /\ Rewrite!MaxShards \in Nat /\ no \in Nat /\ Waiting(shard) \in Nat /\ Len(todo) = 0
      /\ \A j \in DOMAIN rest : <<rest[j]>> \in Rewrite!Targets
  <2>1. /\ todo \in Seq(StackOf) /\ rest \in Seq(NonPle) /\ Rewrite!Apart(todo, rest)
        /\ Rewrite!TypeOK /\ todo \in Seq(Rewrite!Targets)
        /\ \A j \in DOMAIN rest : <<rest[j]>> \in Rewrite!Targets
    BY RewriteFacts DEF RewriteInv, ToDo, StackOf, Rewrite!TypeOK
  <2>2. read = 0 /\ Len(todo) = 0
    BY <1>1 DEF RewriteInv, ToDo
  <2>3. /\ no + Waiting(shard) + Len(todo) + Len(rest) <= Rewrite!MaxShards
        /\ Rewrite!MaxShards \in Nat /\ no \in Nat /\ Waiting(shard) \in Nat
    BY RewriteFacts DEF RewriteInv, ToDo, Rewrite!TypeOK, Waiting
  <2>4. rest \in Seq(Keys)
    BY <2>1 DEF NonPle
  <2> QED BY <2>1, <2>2, <2>3, <2>4
<1>3. /\ Tail(rest) \in Seq(NonPle) /\ Len(Tail(rest)) = Len(rest) - 1 /\ Len(rest) \in Nat \ {0}
      /\ Tail(rest) \in Seq(Keys)
      /\ \A i \in DOMAIN Tail(rest) : i + 1 \in DOMAIN rest /\ Tail(rest)[i] = rest[i + 1]
      /\ \A i \in DOMAIN rest : i # 1 => i - 1 \in DOMAIN Tail(rest) /\ rest[i] = Tail(rest)[i - 1]
      /\ u \in Rewrite!Targets
  <2>1. Tail(rest) \in Seq(Keys) /\ 1 \in DOMAIN rest
    BY <1>1, <1>2
  <2> QED BY <1>1, <1>2, <2>1, TailIndices
<1>4. no < Rewrite!MaxShards
  BY <1>2, <1>3
<1>5. /\ out' \in [1 .. Rewrite!MaxShards -> SUBSET Rewrite!Targets]
      /\ weightMap' \in [Rewrite!Targets -> 0 .. Rewrite!MaxShards]
      /\ no' \in 0 .. Rewrite!MaxShards /\ shard' \subseteq Rewrite!Targets
      /\ no' + Waiting(shard') <= no + 1
      /\ \A t \in Rewrite!Targets : t = u \/ t \in shard \/ OnDisk(t) => t \in shard' \/ OnDisk(t)'
  <2> HIDE DEF u
  <2> QED BY <1>1, <1>2, <1>3, <1>4, AddKeeps
<1>6. k \in Rewrite!Unread /\ k \in NonPle /\ Rewrite!Unread' = Rewrite!Unread \ {k}
  <2>1. Rewrite!Unread = Left(todo, rest, read) /\ Rewrite!Unread' = Left(todo', rest', read')
    BY UnreadIsLeft DEF Rewrite!Unread, Left
  <2>2. \A i, j \in DOMAIN rest : rest[i] = rest[j] => i = j
    BY <1>2 DEF Rewrite!Apart
  <2>3. k \in Left(<<>>, rest, 0) /\ k \in NonPle
        /\ Left(<<>>, Tail(rest), 0) = Left(<<>>, rest, 0) \ {k}
    BY <1>1, <1>2, <2>2, LeftAfterPass
  <2> HIDE DEF k
  <2> QED BY <1>1, <1>2, <2>1, <2>3
<1>7. remaining' \in [Shards -> Nat] /\ files' \subseteq Shards /\ Counters' /\ NothingMissing'
  <2> HIDE DEF k
  <2> QED BY <1>1, <1>6, DoneCounts
<1>8. Rewrite!TypeOK'
  <2>1. rest' \in Seq(Keys)
    BY <1>1, <1>3
  <2> QED BY <1>1, <1>2, <1>5, <1>7, <2>1 DEF Rewrite!TypeOK
<1>9. ToDo'
  <2>1. Rewrite!Apart(todo', rest')
    BY <1>1, <1>2, ApartTails
  <2>2. IF todo' = <<>> THEN read' = 0 ELSE read' <= Len(todo'[1])
    BY <1>1, <1>2
  <2>3. no' + Waiting(shard') + Len(todo') + Len(rest') <= Rewrite!MaxShards
    <3>1. no' \in Nat /\ Waiting(shard') \in Nat
      BY <1>2, <1>5 DEF Waiting
    <3>2. no' + Waiting(shard') + Len(todo) + (Len(rest) - 1) <= Rewrite!MaxShards
      <4>1. \A a, b, c, d, e, f, m \in Nat : a + b <= c + 1 /\ c + d + e + f <= m
                => a + b + e + (f - 1) <= m
        OBVIOUS
      <4> QED BY <1>2, <1>3, <1>5, <3>1, <4>1
    <3> QED BY <1>1, <1>3, <3>2
  <2>4. \A j \in DOMAIN rest' : <<rest'[j]>> \in Rewrite!Targets
    BY <1>1, <1>2, <1>3
  <2>5. todo' \in Seq(Seq(NonPle) \ {<<>>}) /\ rest' \in Seq(NonPle)
    BY <1>1, <1>2, <1>3 DEF StackOf
  <2> QED BY <2>1, <2>2, <2>3, <2>4, <2>5 DEF ToDo, Waiting
<1>10. AllPlaced'
  <2>1. ASSUME NEW t \in Rewrite!Targets, Placed(t) PROVE Placed(t)'
    <3>1. CASE \E i \in DOMAIN todo : todo[i] = t
      BY <1>1, <3>1 DEF Placed
    <3>2. CASE \E j \in DOMAIN rest : <<rest[j]>> = t
      <4>1. PICK j \in DOMAIN rest : <<rest[j]>> = t
        BY <3>2
      <4>2. j # 1 => j - 1 \in DOMAIN rest' /\ <<rest'[j - 1]>> = t
        BY <1>1, <1>3, <4>1
      <4>3. j = 1 => t = u
        BY <4>1
      <4> HIDE DEF u
      <4> QED BY <1>5, <4>2, <4>3 DEF Placed, OnDisk
    <3>3. CASE t \in shard \/ OnDisk(t)
      BY <1>5, <3>3 DEF Placed, OnDisk
    <3> QED BY <2>1, <3>1, <3>2, <3>3 DEF Placed, OnDisk
  <2> QED BY <1>1, <2>1 DEF RewriteInv, AllPlaced
<1> QED BY <1>7, <1>8, <1>9, <1>10 DEF RewriteInv

LEMMA RewriteFails ==
  ASSUME RewriteInv, Rewrite!Fail, UNCHANGED <<keepSrc, fileOf>>
  PROVE  RewriteInv'
<1>1. /\ pc = "run" /\ pc' = "failed" /\ files' = files /\ out' = out /\ index' = index
      /\ todo' = todo /\ rest' = rest /\ read' = read /\ remaining' = remaining
      /\ shard' = shard /\ no' = no /\ weightMap' = weightMap /\ crashes' = crashes
      /\ keepSrc' = keepSrc /\ fileOf' = fileOf
  BY DEF Rewrite!Fail, Rewrite!memory
<1>2. Rewrite!TypeOK'
  BY <1>1 DEF RewriteInv, Rewrite!TypeOK
<1>3. ToDo'
  BY <1>1 DEF RewriteInv, ToDo
<1>4. Rewrite!Unread' = Rewrite!Unread
  BY <1>1 DEF Rewrite!Unread
<1>5. Counters'
  <2>1. \A f : OnlyPle(f)' <=> OnlyPle(f)
    BY <1>1 DEF OnlyPle
  <2> QED BY <1>1, <2>1 DEF RewriteInv, Counters
<1>6. \E k \in Rewrite!Unread : fileOf[k] \notin files
  <2>1. /\ todo \in Seq(StackOf) /\ rest \in Seq(NonPle) /\ Rewrite!Apart(todo, rest)
        /\ read \in Nat /\ (todo = <<>> => read = 0)
        /\ \A i, j \in DOMAIN rest : rest[i] = rest[j] => i = j
    BY DEF RewriteInv, ToDo, Rewrite!TypeOK, StackOf, Rewrite!Apart
  <2>2. CASE todo # <<>> /\ read < Len(todo[1]) /\ fileOf[todo[1][read + 1]] \notin files
    <3>1. todo[1][read + 1] \in Rewrite!Unread
      BY <2>1, <2>2, LeftAfterRead, UnreadIsLeft
    <3> QED BY <2>2, <3>1
  <2>3. CASE todo = <<>> /\ rest # <<>> /\ fileOf[rest[1]] \notin files
    <3>1. rest[1] \in Left(<<>>, rest, 0)
      BY <2>1, <2>3, LeftAfterPass
    <3>2. rest[1] \in Rewrite!Unread
      BY <2>1, <2>3, <3>1, UnreadIsLeft
    <3> QED BY <2>3, <3>2
  <2> QED BY <2>2, <2>3 DEF Rewrite!Fail
<1>7. NothingMissing'
  BY <1>1, <1>6 DEF RewriteInv, NothingMissing
<1>8. AllPlaced'
  BY <1>1 DEF RewriteInv, AllPlaced
<1> QED BY <1>2, <1>3, <1>5, <1>7, <1>8 DEF RewriteInv

LEMMA RewriteEnds ==
  ASSUME RewriteInv, Rewrite!Finish, UNCHANGED <<keepSrc, fileOf>>
  PROVE  RewriteInv'
<1>1. /\ pc = "run" /\ todo = <<>> /\ rest = <<>> /\ pc' = "index" /\ index' = "torn"
      /\ files' = files /\ todo' = todo /\ rest' = rest /\ read' = read
      /\ remaining' = remaining /\ crashes' = crashes /\ keepSrc' = keepSrc /\ fileOf' = fileOf
      /\ IF shard = {} THEN UNCHANGED <<no, out, weightMap, shard>> ELSE Rewrite!Flush(shard)
  BY DEF Rewrite!Finish
<1>2. /\ Rewrite!TypeOK /\ shard \in SUBSET Rewrite!Targets /\ no \in Nat
      /\ no + Waiting(shard) + Len(todo) + Len(rest) <= Rewrite!MaxShards
      /\ Rewrite!MaxShards \in Nat /\ Len(todo) = 0 /\ Len(rest) = 0
  BY <1>1, RewriteFacts DEF RewriteInv, ToDo, Rewrite!TypeOK, Waiting
<1>3. /\ out' \in [1 .. Rewrite!MaxShards -> SUBSET Rewrite!Targets]
      /\ weightMap' \in [Rewrite!Targets -> 0 .. Rewrite!MaxShards]
      /\ no' \in 0 .. Rewrite!MaxShards /\ shard' = {}
      /\ \A t \in Rewrite!Targets : t \in shard \/ OnDisk(t) => OnDisk(t)'
  <2>1. CASE shard = {}
    <3>1. no' = no /\ out' = out /\ weightMap' = weightMap /\ shard' = shard
      BY <1>1, <2>1
    <3>2. \A t : OnDisk(t)' <=> OnDisk(t)
      BY <3>1 DEF OnDisk
    <3> QED BY <1>2, <2>1, <3>1, <3>2 DEF Rewrite!TypeOK
  <2>2. CASE shard # {}
    <3>1. no < Rewrite!MaxShards /\ Rewrite!Flush(shard)
      BY <1>1, <1>2, <2>2 DEF Waiting
    <3> QED BY <1>2, <3>1, FlushKeeps
  <2> QED BY <2>1, <2>2
<1>4. Rewrite!TypeOK'
  BY <1>1, <1>2, <1>3 DEF Rewrite!TypeOK
<1>5. ToDo'
  <2>1. no' + 0 + Len(todo') + Len(rest') <= Rewrite!MaxShards
    <3>1. no' <= Rewrite!MaxShards /\ no' \in Nat
      BY <1>2, <1>3
    <3>2. Len(todo') = 0 /\ Len(rest') = 0
      BY <1>1, <1>2
    <3>3. \A a, b, c, m \in Nat : a <= m /\ b = 0 /\ c = 0 => a + 0 + b + c <= m
      OBVIOUS
    <3>4. Len(todo') \in Nat /\ Len(rest') \in Nat /\ Rewrite!MaxShards \in Nat
      BY <1>2, <3>2
    <3> QED BY <3>1, <3>2, <3>3, <3>4
  <2> QED BY <1>1, <1>3, <2>1 DEF RewriteInv, ToDo
<1>6. Rewrite!Unread' = Rewrite!Unread
  BY <1>1 DEF Rewrite!Unread
<1>7. Counters'
  BY <1>1, <1>6, CountersKept
<1>8. NothingMissing'
  BY <1>1 DEF RewriteInv, NothingMissing
<1>9. AllPlaced'
  <2>1. ASSUME NEW t \in Rewrite!Targets, Placed(t) PROVE Placed(t)'
    <3>1. t \in shard \/ OnDisk(t)
      BY <1>1, <2>1 DEF Placed, OnDisk
    <3>2. OnDisk(t)'
      BY <1>3, <3>1
    <3> QED BY <3>2 DEF Placed, OnDisk
  <2> QED BY <1>1, <1>3, <2>1 DEF RewriteInv, AllPlaced
<1> QED BY <1>4, <1>5, <1>7, <1>8, <1>9 DEF RewriteInv

(* The index is written, or the process is killed.                         *)
LEMMA RewriteStops ==
  ASSUME RewriteInv, Rewrite!WriteIndex \/ Rewrite!Crash, UNCHANGED <<keepSrc, fileOf>>
  PROVE  RewriteInv'
<1>1. /\ files' = files /\ out' = out
      /\ todo' = todo /\ rest' = rest /\ read' = read /\ remaining' = remaining
      /\ shard' = shard /\ no' = no /\ weightMap' = weightMap
      /\ keepSrc' = keepSrc /\ fileOf' = fileOf
      /\ \/ pc = "index" /\ pc' = "done" /\ index' = "whole" /\ crashes' = crashes
         \/ /\ pc \in {"run", "index"} /\ pc' = "idle" /\ index' = index
            /\ crashes' = crashes + 1 /\ crashes < RewriteCrashes
  BY DEF Rewrite!WriteIndex, Rewrite!Crash, Rewrite!memory
<1>2. Rewrite!TypeOK'
  <2>1. crashes' \in 0 .. RewriteCrashes
    BY <1>1, RewriteFacts DEF RewriteInv, Rewrite!TypeOK
  <2> QED BY <1>1, <2>1 DEF RewriteInv, Rewrite!TypeOK
<1>3. ToDo'
  BY <1>1 DEF RewriteInv, ToDo
<1>4. Rewrite!Unread' = Rewrite!Unread
  BY <1>1 DEF Rewrite!Unread
<1>5. Counters'
  BY <1>1, <1>4, CountersKept
<1>6. NothingMissing'
  <2>1. crashes' = crashes + 1 => crashes' # 0
    BY DEF RewriteInv, Rewrite!TypeOK
  <2> QED BY <1>1, <2>1 DEF RewriteInv, NothingMissing
<1>7. AllPlaced'
  <2>1. \A t : Placed(t)' <=> Placed(t)
    BY <1>1 DEF Placed
  <2> QED BY <1>1, <2>1 DEF RewriteInv, AllPlaced
<1> QED BY <1>2, <1>3, <1>5, <1>6, <1>7 DEF RewriteInv

LEMMA RewriteStarts ==
  ASSUME RewriteInv, Rewrite!Start, UNCHANGED <<keepSrc, fileOf>>
  PROVE  RewriteInv'
<1> DEFINE there == {k \in Keys : fileOf[k] \in files}
           kept == Select(Rest, there)
<1>1. /\ pc \in {"idle", "failed"} /\ index = "absent" /\ pc' = "run"
      /\ todo' = Stacks /\ rest' = kept /\ read' = 0
      /\ remaining' = [f \in Shards |-> Cardinality(Rewrite!Counted(f))]
      /\ shard' = {} /\ no' = 0 /\ weightMap' = [t \in Rewrite!Targets |-> 0]
      /\ files' = files /\ out' = out /\ index' = index /\ crashes' = crashes
      /\ keepSrc' = keepSrc /\ fileOf' = fileOf
  <2>1. Rewrite!Select(Rest, there) = kept
    BY DEF Rewrite!Select, Rewrite!Selections, Select, Selections
  <2>2. \A f : Rewrite!Cardinality(Rewrite!Counted(f)) = Cardinality(Rewrite!Counted(f))
    BY DEF Rewrite!Cardinality, Cardinality
  <2> HIDE DEF kept
  <2> QED BY <2>1, <2>2 DEF Rewrite!Start
<1>2. /\ Rewrite!TypeOK /\ Rewrite!MaxShards \in Nat /\ Rewrite!MaxShards = Len(Stacks) + Len(Rest)
      /\ Stacks \in Seq(StackOf) /\ Rest \in Seq(NonPle) /\ Rewrite!Apart(Stacks, Rest)
      /\ IsFiniteSet(Keys) /\ Stacks \in Seq(Rewrite!Targets)
      /\ Len(Stacks) \in Nat /\ Len(Rest) \in Nat
      /\ fileOf \in [Keys -> Shards] /\ files \subseteq Shards
  <2>1. Len(Stacks) \in Nat /\ Len(Rest) \in Nat
    BY RewriteFacts
  <2> QED BY <2>1, RewriteFacts DEF RewriteInv, Rewrite!TypeOK
<1>3. /\ kept \in Seq(NonPle) /\ Len(kept) <= Len(Rest) /\ Len(kept) \in Nat
      /\ \A x : (\E j \in DOMAIN kept : kept[j] = x) <=> x \in there /\ \E j \in DOMAIN Rest : Rest[j] = x
      /\ \A i, j \in DOMAIN kept : kept[i] = kept[j] => i = j
      /\ (\A j \in DOMAIN Rest : Rest[j] \in there) => kept = Rest
  <2>1. DOMAIN Rest = 1 .. Len(Rest) /\ \A i, j \in DOMAIN Rest : Rest[i] = Rest[j] => i = j
    BY <1>2 DEF Rewrite!Apart
  <2>2. kept \in Seq(NonPle)
    BY <1>2, SelectProperties
  <2> HIDE DEF there
  <2>3. /\ kept \in Seq(NonPle) /\ Len(kept) <= Len(Rest)
        /\ \A x : (\E i \in 1 .. Len(kept) : kept[i] = x)
                  <=> x \in there /\ \E i \in 1 .. Len(Rest) : Rest[i] = x
        /\ (\A i, j \in 1 .. Len(Rest) : Rest[i] \in there /\ Rest[i] = Rest[j] => i = j) =>
              \A i, j \in 1 .. Len(kept) : kept[i] = kept[j] => i = j
        /\ (\A i \in 1 .. Len(Rest) : Rest[i] \in there) => kept = Rest
    BY <1>2, SelectProperties
  <2> HIDE DEF kept
  <2>4. DOMAIN kept = 1 .. Len(kept) /\ Len(kept) \in Nat
    BY <2>2
  <2> QED BY <2>1, <2>3, <2>4
<1> HIDE DEF kept
<1>4. Rewrite!Apart(Stacks, kept)
  <2>1. \A i \in DOMAIN Stacks : \A a \in DOMAIN Stacks[i], j \in DOMAIN kept :
          Stacks[i][a] # kept[j]
    <3>1. \A j \in DOMAIN kept : \E m \in DOMAIN Rest : Rest[m] = kept[j]
      BY <1>3
    <3>2. \A i \in DOMAIN Stacks : \A a \in DOMAIN Stacks[i], m \in DOMAIN Rest :
            Stacks[i][a] # Rest[m]
      BY <1>2 DEF Rewrite!Apart
    <3> QED BY <3>1, <3>2
  <2> QED BY <1>2, <1>3, <2>1 DEF Rewrite!Apart
<1>5. Rewrite!Unread' = Left(Stacks, kept, 0)
  <2>1. Rewrite!Unread' = Left(todo', rest', read')
    BY DEF Rewrite!Unread, Left
  <2> QED BY <1>1, <2>1
<1>6. \A k \in Keys : k \in Rewrite!Unread' <=>
          \/ \E i \in DOMAIN Stacks : \E a \in DOMAIN Stacks[i] : Stacks[i][a] = k
          \/ fileOf[k] \in files /\ \E j \in DOMAIN Rest : Rest[j] = k
  <2>1. \A i \in DOMAIN Stacks : \A a \in DOMAIN Stacks[i] : a > 0
    BY <1>2 DEF StackOf
  <2> QED BY <1>3, <1>5, <2>1 DEF Left
<1>7. Rewrite!Unread' \subseteq NonPle
  <2>1. \A i \in DOMAIN Stacks : \A a \in DOMAIN Stacks[i] : Stacks[i][a] \in NonPle
    BY <1>2 DEF StackOf
  <2>2. \A j \in DOMAIN Rest : Rest[j] \in NonPle
    BY <1>2
  <2>3. Rewrite!Unread' \subseteq Keys
    BY DEF Rewrite!Unread
  <2> QED BY <1>6, <2>1, <2>2, <2>3
<1>8. \A f \in files : Pending(f)' = {k \in NonPle : fileOf[k] = f}
  <2>1. \A f \in files, k \in NonPle : fileOf[k] = f => k \in Rewrite!Unread'
    BY <1>6, RewriteFacts DEF NonPle
  <2>2. \A f : Pending(f)' = {k \in Rewrite!Unread' : fileOf[k] = f}
    BY <1>1 DEF Pending
  <2> QED BY <1>7, <2>1, <2>2
<1>9. \A f \in Shards : Rewrite!Counted(f) = IF f \in files THEN Pending(f)' ELSE {}
  BY <1>8 DEF Rewrite!Counted, NonPle
<1>10. \A f \in Shards : Cardinality(Rewrite!Counted(f)) \in Nat
  <2>1. \A f : Rewrite!Counted(f) \subseteq Keys
    BY DEF Rewrite!Counted
  <2> QED BY <1>2, <2>1, FS_Subset, FS_CardinalityType
<1>11. Rewrite!TypeOK'
  <2>1. remaining' \in [Shards -> Nat]
    BY <1>1, <1>10
  <2>2. weightMap' \in [Rewrite!Targets -> 0 .. Rewrite!MaxShards] /\ no' \in 0 .. Rewrite!MaxShards
    BY <1>1, <1>2
  <2>3. rest' \in Seq(Keys)
    <3>1. kept \in Seq(Keys)
      BY <1>3 DEF NonPle
    <3> QED BY <1>1, <3>1
  <2> QED BY <1>1, <1>2, <2>1, <2>2, <2>3 DEF Rewrite!TypeOK
<1>12. ToDo'
  <2>1. IF todo' = <<>> THEN read' = 0 ELSE read' <= Len(todo'[1])
    <3>1. CASE todo' = <<>>
      BY <1>1, <3>1
    <3>2. CASE todo' # <<>>
      <4>1. Stacks[1] \in StackOf
        BY <1>1, <1>2, <3>2
      <4>2. Len(Stacks[1]) \in Nat
        BY <4>1 DEF StackOf
      <4> QED BY <1>1, <3>2, <4>2
    <3> QED BY <3>1, <3>2
  <2>2. no' + 0 + Len(todo') + Len(rest') <= Rewrite!MaxShards
    BY <1>1, <1>2, <1>3
  <2>3. \A j \in DOMAIN rest' : <<rest'[j]>> \in Rewrite!Targets
    <3>1. \A j \in DOMAIN kept : \E i \in DOMAIN Rest : Rest[i] = kept[j]
      BY <1>3
    <3> QED BY <1>1, <3>1, RewriteFacts
  <2>4. todo' \in Seq(Seq(NonPle) \ {<<>>}) /\ rest' \in Seq(NonPle)
    BY <1>1, <1>2, <1>3 DEF StackOf
  <2>5. Rewrite!Apart(todo', rest')
    BY <1>1, <1>4
  <2> QED BY <1>1, <2>1, <2>2, <2>3, <2>4, <2>5 DEF ToDo
<1>13. Counters'
  <2>1. \A f : OnlyPle(f)' <=> OnlyPle(f)
    BY <1>1 DEF OnlyPle
  <2>2. ASSUME NEW f \in Shards
        PROVE  remaining'[f] = IF f \in files' THEN Cardinality(Pending(f)') ELSE 0
    <3>1. remaining'[f] = Cardinality(Rewrite!Counted(f))
      BY <1>1
    <3>2. Cardinality({}) = 0
      BY FS_EmptySet
    <3> QED BY <1>1, <1>9, <3>1, <3>2
  <2>3. ASSUME NEW f \in files', Pending(f)' = {} PROVE OnlyPle(f)
    BY <1>1, <1>8, <2>3 DEF OnlyPle, NonPle
  <2>4. \A f \in Shards \ files' : ~OnlyPle(f)
    BY <1>1 DEF RewriteInv, Counters
  <2> QED BY <2>1, <2>2, <2>3, <2>4 DEF Counters
<1>14. keepSrc \/ crashes = 0 => files = Shards
  BY <1>1 DEF RewriteInv, NothingMissing
<1>15. NothingMissing'
  <2>1. keepSrc \/ crashes = 0 => \A k \in Rewrite!Unread' : fileOf[k] \in files
    BY <1>2, <1>7, <1>14 DEF NonPle
  <2> QED BY <1>1, <1>14, <2>1 DEF NothingMissing
<1>16. AllPlaced'
  <2>1. ASSUME keepSrc, NEW t \in Rewrite!Targets PROVE Placed(t)'
    <3>1. kept = Rest
      <4>1. \A j \in DOMAIN Rest : Rest[j] \in NonPle /\ Rest[j] \in Keys
        BY <1>2 DEF NonPle
      <4>2. \A j \in DOMAIN Rest : Rest[j] \in there
        BY <1>2, <1>14, <2>1, <4>1
      <4> QED BY <1>3, <4>2
    <3> QED BY <1>1, <3>1, RewriteFacts DEF Placed
  <2> QED BY <1>1, <2>1 DEF AllPlaced
<1> QED BY <1>11, <1>12, <1>13, <1>15, <1>16 DEF RewriteInv

LEMMA RewriteNext ==
  ASSUME RewriteInv, Rewrite!Next
  PROVE  RewriteInv'
BY RewriteStarts, RewriteReads, RewriteFinishes, RewritePasses, RewriteFails, RewriteEnds,
   RewriteStops DEF Rewrite!Next

LEMMA RewriteShards ==
  ASSUME RewriteInv
  PROVE  Rewrite!ShardsGoWhenRead
<1>1. pc = "run" /\ (keepSrc \/ crashes = 0) => \A k \in Rewrite!Unread : fileOf[k] \in files
  BY DEF RewriteInv, NothingMissing
<1>2. ASSUME pc = "done", ~keepSrc
      PROVE  files = {f \in Shards : \A k \in Keys : fileOf[k] = f => k \in PleKeys}
  <2>1. Rewrite!Unread = {}
    BY <1>2 DEF RewriteInv, AllPlaced, Rewrite!Unread
  <2>2. \A f : Pending(f) = {}
    BY <2>1 DEF Pending
  <2>3. files \subseteq Shards /\ \A f \in Shards : f \in files <=> OnlyPle(f)
    BY <1>2, <2>2 DEF RewriteInv, Counters, Rewrite!TypeOK
  <2> QED BY <2>3 DEF OnlyPle
<1> QED BY <1>1, <1>2 DEF Rewrite!ShardsGoWhenRead

LEMMA RewriteWhole ==
  ASSUME RewriteInv, keepSrc
  PROVE  Rewrite!WholeMeansComplete
<1> SUFFICES ASSUME index = "whole", NEW t \in Rewrite!Targets
             PROVE  weightMap[t] # 0 /\ t \in out[weightMap[t]]
  BY DEF Rewrite!WholeMeansComplete
<1>1. Placed(t) /\ todo = <<>> /\ rest = <<>> /\ shard = {} /\ no \in Nat
  BY RewriteFacts DEF RewriteInv, AllPlaced, Rewrite!TypeOK
<1>2. weightMap[t] \in 1 .. no /\ t \in out[weightMap[t]]
  BY <1>1 DEF Placed
<1> QED BY <1>1, <1>2

-----------------------------------------------------------------------------
(* 06_subset_tuning.py.                                                    *)

(* The layers of the first n groups.                                       *)
Upto(n) == {x \in BlockLinears : \E i \in 1 .. n : x \in groups[i]}

(* Every layer that is to be quantized is in one group.                    *)
Partition(gs, quantizable) ==
  /\ gs \in Seq(SUBSET BlockLinears)
  /\ \A x \in BlockLinears : x \in quantizable <=> \E i \in 1 .. Len(gs) : x \in gs[i]
  /\ \A x \in BlockLinears : \A i, j \in 1 .. Len(gs) : x \in gs[i] /\ x \in gs[j] => i = j

InRound == pc \in {"round", "block", "tune"} /\ round > 0

(* The filter is set in a round, and only then; the wrapper of the         *)
(* instance is the one the block found, or the filter with its class.      *)
Filter ==
  /\ allow = IF InRound THEN groups[round] ELSE None
  /\ first <=> (InRound => round = 1)
  /\ pc \in {"round", "block", "tune"} =>
       wrapper = IF round = 0 THEN prev ELSE Tuning!Filtered
  /\ pc = "round" \/ InRound => Len(groups) > 1

NormsSoFar ==
  /\ pc = "round" => norms = IF round = 0 THEN 0 ELSE 1
  /\ pc = "block" => norms = IF round <= 1 THEN 0 ELSE 1
  /\ pc \in {"tune", "done"} => norms = 1

(* What the rounds before this one have tuned is tuned once.               *)
TunedSoFar ==
  /\ wrapped = IF pc # "tune" THEN {}
               ELSE IF round = 0 THEN Tuning!Quantizable ELSE groups[round]
  /\ merged = IF pc \in {"idle", "done"} THEN Tuning!Quantizable
              ELSE Upto(IF pc = "round" THEN round ELSE round - 1)
  /\ tuned = [x \in BlockLinears |-> IF x \in merged THEN 1 ELSE 0]

TuningInv ==
  /\ Tuning!TypeOK /\ Partition(groups, Tuning!Quantizable) /\ Filter
  /\ NormsSoFar /\ TunedSoFar /\ Tuning!ClassIsKept

LEMMA TuningConstants ==
  /\ MaxExpert \in Nat /\ NumGroups \in Nat \ {0} /\ Blocks \in Nat
  /\ None \notin Tuning!Bound /\ None \notin SUBSET BlockLinears
BY SizesAssumption DEF Tuning!SizesOK

(* plan_groups puts every layer that is to be quantized into one group.    *)
LEMMA PlanPartitions ==
  ASSUME NEW ex \in [BlockLinears -> (Tuning!RestGroup .. MaxExpert) \cup {None}]
  PROVE  Partition(Tuning!Plan(ex), {x \in BlockLinears : ex[x] # None})
<1> DEFINE all == {x \in BlockLinears : ex[x] # None}
           others == {x \in all : ex[x] = Tuning!RestGroup}
           in(k) == {x \in all \ others : ex[x] % NumGroups = k}
           gr(k) == in(k - 1) \cup (IF k = 1 THEN others ELSE {})
           gs == [k \in 1 .. NumGroups |-> gr(k)]
           P == (SUBSET BlockLinears) \ {{}}
           chosen == Select(gs, P)
<1>1. Tuning!Plan(ex) = IF all = others \/ NumGroups = 1 THEN <<all>> ELSE chosen
  <2>1. Tuning!Plan(ex) = IF all = others \/ NumGroups = 1 THEN <<all>> ELSE Tuning!Select(gs, P)
    BY DEF Tuning!Plan
  <2>2. Tuning!Select(gs, P) = chosen
    BY DEF Tuning!Select, Tuning!Selections, Select, Selections
  <2> HIDE DEF gs, chosen, P, all, others
  <2> QED BY <2>1, <2>2
<1>2. Partition(<<all>>, all)
  <2>1. <<all>> \in Seq(SUBSET BlockLinears) /\ Len(<<all>>) = 1 /\ <<all>>[1] = all
    OBVIOUS
  <2> DEFINE one == <<all>>
  <2>2. 1 .. Len(one) = {1}
    OBVIOUS
  <2>3. \A x \in BlockLinears : x \in all <=> \E i \in {1} : x \in one[i]
    OBVIOUS
  <2>4. \A i, j \in {1} : i = j
    OBVIOUS
  <2> HIDE DEF all, one
  <2>5. Partition(one, all)
    BY <2>1, <2>2, <2>3, <2>4 DEF Partition, one
  <2> QED BY <2>5 DEF one
<1>3. /\ gs \in Seq(SUBSET BlockLinears) /\ Len(gs) = NumGroups /\ NumGroups \in Nat \ {0}
      /\ \A k \in 1 .. NumGroups : gs[k] = gr(k) /\ gr(k) \subseteq all
  BY TuningConstants
<1>4. \A x \in all : x \notin others => ex[x] \in 0 .. MaxExpert
  BY TuningConstants DEF Tuning!RestGroup
<1>5. \A x \in all : \E k \in 1 .. NumGroups : x \in gr(k)
  <2> TAKE x \in all
  <2>1. CASE x \in others
    <3>1. 1 \in 1 .. NumGroups /\ x \in gr(1)
      BY <1>3, <2>1
    <3> QED BY <3>1
  <2>2. CASE x \notin others
    <3> DEFINE m == ex[x] % NumGroups
    <3>1. m \in 0 .. NumGroups - 1
      BY <1>3, <1>4, <2>2
    <3>2. m + 1 \in 1 .. NumGroups /\ (m + 1) - 1 = m
      BY <1>3, <3>1
    <3>3. x \in in(m)
      BY <2>2
    <3>4. x \in gr(m + 1)
      <4> HIDE DEF m, in
      <4> QED BY <3>2, <3>3
    <3> QED BY <3>2, <3>4
  <2> QED BY <2>1, <2>2
<1>6. \A x \in all : \A k, l \in 1 .. NumGroups : x \in gr(k) /\ x \in gr(l) => k = l
  <2> TAKE x \in all
  <2>1. ASSUME NEW k \in 1 .. NumGroups, NEW l \in 1 .. NumGroups, x \in gr(k), x \in gr(l)
        PROVE  k = l
    <3>1. CASE x \in others
      BY <2>1, <3>1
    <3>2. CASE x \notin others
      <4>1. ex[x] % NumGroups = k - 1 /\ ex[x] % NumGroups = l - 1
        BY <2>1, <3>2
      <4>2. k - 1 = l - 1
        BY <4>1
      <4> QED BY <1>3, <4>2
    <3> QED BY <3>1, <3>2
  <2> QED BY <2>1
<1>7. /\ chosen \in Seq(SUBSET BlockLinears)
      /\ \A g : (\E i \in 1 .. Len(chosen) : chosen[i] = g)
                <=> g \in P /\ \E k \in 1 .. NumGroups : gs[k] = g
      /\ (\A k, l \in 1 .. NumGroups : gs[k] \in P /\ gs[k] = gs[l] => k = l) =>
           \A i, j \in 1 .. Len(chosen) : chosen[i] = chosen[j] => i = j
  <2> HIDE DEF gs, P
  <2>1. gs \in Seq(SUBSET BlockLinears) /\ Len(gs) = NumGroups
    BY <1>3
  <2>2. chosen \in Seq(SUBSET BlockLinears)
    BY <2>1, SelectProperties
  <2>3. \A g : (\E i \in 1 .. Len(chosen) : chosen[i] = g)
              <=> g \in P /\ \E k \in 1 .. Len(gs) : gs[k] = g
    BY <2>1, SelectProperties
  <2>4. (\A k, l \in 1 .. Len(gs) : gs[k] \in P /\ gs[k] = gs[l] => k = l) =>
          \A i, j \in 1 .. Len(chosen) : chosen[i] = chosen[j] => i = j
    BY <2>1, SelectProperties
  <2> HIDE DEF chosen
  <2> QED BY <2>1, <2>2, <2>3, <2>4
<1> HIDE DEF in, chosen, gs, gr
<1>8. \A k, l \in 1 .. NumGroups : gs[k] \in P /\ gs[k] = gs[l] => k = l
  <2>1. ASSUME NEW k \in 1 .. NumGroups, NEW l \in 1 .. NumGroups, gs[k] \in P, gs[k] = gs[l]
        PROVE  k = l
    <3>1. PICK x : x \in gs[k]
      BY <2>1
    <3>2. x \in all /\ x \in gr(k) /\ x \in gr(l)
      BY <1>3, <2>1, <3>1
    <3> HIDE DEF all
    <3> QED BY <1>6, <3>2
  <2> QED BY <2>1
<1>9. Partition(chosen, all)
  <2>1. ASSUME NEW x \in all PROVE \E i \in 1 .. Len(chosen) : x \in chosen[i]
    <3>1. PICK k \in 1 .. NumGroups : x \in gr(k)
      BY <1>5
    <3>2. gs[k] \in P /\ x \in gs[k]
      BY <1>3, <3>1
    <3>3. PICK i \in 1 .. Len(chosen) : chosen[i] = gs[k]
      BY <1>7, <3>2
    <3> QED BY <3>2, <3>3
  <2>2. ASSUME NEW i \in 1 .. Len(chosen), NEW x \in chosen[i]
        PROVE  x \in all /\ \E k \in 1 .. NumGroups : gs[k] = chosen[i] /\ x \in gr(k)
    <3>1. PICK k \in 1 .. NumGroups : gs[k] = chosen[i]
      BY <1>7
    <3> QED BY <1>3, <2>2, <3>1
  <2>3. ASSUME NEW x \in BlockLinears, NEW i \in 1 .. Len(chosen), NEW j \in 1 .. Len(chosen),
               x \in chosen[i], x \in chosen[j]
        PROVE  i = j
    <3>1. PICK k \in 1 .. NumGroups : gs[k] = chosen[i] /\ x \in gr(k)
      BY <2>2, <2>3
    <3>2. PICK l \in 1 .. NumGroups : gs[l] = chosen[j] /\ x \in gr(l)
      BY <2>2, <2>3
    <3>3. x \in all
      BY <2>2, <2>3
    <3>4. k = l
      <4> HIDE DEF all
      <4> QED BY <1>6, <3>1, <3>2, <3>3
    <3>5. chosen[i] = chosen[j]
      BY <3>1, <3>2, <3>4
    <3> QED BY <1>7, <1>8, <3>5
  <2>4. all \subseteq BlockLinears
    OBVIOUS
  <2> HIDE DEF all
  <2> QED BY <1>7, <2>1, <2>2, <2>3, <2>4 DEF Partition
<1> HIDE DEF all, others
<1>10. Partition(Tuning!Plan(ex), all)
  BY <1>1, <1>2, <1>9
<1> QED BY <1>10 DEF all

LEMMA TuningInit == Tuning!Init => TuningInv
<1> SUFFICES ASSUME Tuning!Init PROVE TuningInv
  OBVIOUS
<1> USE DEF Tuning!Init
<1>1. Tuning!Quantizable = {}
  BY DEF Tuning!Quantizable
<1>2. Tuning!TypeOK
  <2>1. Tuning!Range(groups) = {}
    BY DEF Tuning!Range
  <2>2. expert \in [BlockLinears -> (Tuning!RestGroup .. MaxExpert) \cup {None}]
    OBVIOUS
  <2>3. left \in 0 .. Blocks /\ round \in 0 .. Len(groups) /\ norms \in 0 .. 1
    BY TuningConstants
  <2>4. {wrapper, prev} \subseteq Tuning!Wrappers
    BY DEF Tuning!Wrappers, Tuning!Bound
  <2>5. tuned \in [BlockLinears -> 0 .. 1] /\ class \in [BlockLinears -> {"plain", "alg", None}]
    OBVIOUS
  <2> QED BY <2>1, <2>2, <2>3, <2>4, <2>5 DEF Tuning!TypeOK
<1>3. Partition(groups, Tuning!Quantizable)
  BY <1>1 DEF Partition
<1>4. Filter /\ NormsSoFar
  BY DEF Filter, InRound, NormsSoFar
<1>5. TunedSoFar /\ Tuning!ClassIsKept
  BY <1>1 DEF TunedSoFar, Tuning!ClassIsKept
<1> QED BY <1>2, <1>3, <1>4, <1>5 DEF TuningInv

(* The groups, as TypeOK has them.                                         *)
LEMMA GroupRange ==
  ASSUME NEW gs, gs \in Seq(SUBSET BlockLinears)
  PROVE  /\ Tuning!Range(gs) \subseteq SUBSET BlockLinears /\ Len(gs) \in Nat
         /\ \A i \in 1 .. Len(gs) : gs[i] \in Tuning!Range(gs) /\ gs[i] \subseteq BlockLinears
BY DEF Tuning!Range

LEMMA TuningEnters ==
  ASSUME TuningInv, Tuning!Enter
  PROVE  TuningInv'
<1> USE DEF Tuning!Enter, Tuning!state
<1>1. /\ Tuning!TypeOK /\ pc = "idle" /\ left > 0 /\ left' = left - 1
      /\ expert' \in [BlockLinears -> (Tuning!RestGroup .. MaxExpert) \cup {None}]
      /\ groups' = Tuning!Plan(expert')
      /\ pc' = IF Len(groups') <= 1 THEN "block" ELSE "round"
      /\ round' = 0 /\ prev' = wrapper
      /\ tuned' = [x \in BlockLinears |-> 0] /\ class' = [x \in BlockLinears |-> None]
      /\ norms' = 0 /\ merged' = {}
      /\ allow' = allow /\ first' = first /\ wrapper' = wrapper /\ wrapped' = wrapped
  BY DEF TuningInv
<1>2. Partition(groups', Tuning!Quantizable')
  <2>1. Partition(Tuning!Plan(expert'), {x \in BlockLinears : expert'[x] # None})
    BY <1>1, PlanPartitions
  <2>2. Tuning!Quantizable' = {x \in BlockLinears : expert'[x] # None}
    BY DEF Tuning!Quantizable
  <2> QED BY <1>1, <2>1, <2>2
<1>3. /\ groups' \in Seq(SUBSET BlockLinears) /\ Len(groups') \in Nat
      /\ Tuning!Range(groups') \subseteq SUBSET BlockLinears
  <2>1. groups' \in Seq(SUBSET BlockLinears)
    BY <1>2 DEF Partition
  <2> QED BY <2>1, GroupRange
<1>4. allow = None /\ first = TRUE /\ wrapped = {}
  BY <1>1, Zenon DEF TuningInv, Filter, InRound, TunedSoFar, Tuning!TypeOK
<1>5. Tuning!TypeOK'
  <2>1. left' \in 0 .. Blocks /\ round' \in 0 .. Len(groups') /\ norms' \in 0 .. 1
    BY <1>1, <1>3, TuningConstants DEF Tuning!TypeOK
  <2>2. tuned' \in [BlockLinears -> 0 .. 1] /\ class' \in [BlockLinears -> {"plain", "alg", None}]
    BY <1>1
  <2> QED BY <1>1, <1>3, <1>4, <2>1, <2>2 DEF Tuning!TypeOK
<1>6. Filter'
  <2>1. ~InRound'
    BY <1>1 DEF InRound
  <2>2. pc' = "round" => Len(groups') > 1
    BY <1>1, <1>3
  <2> QED BY <1>1, <1>4, <2>1, <2>2 DEF Filter
<1>7. NormsSoFar'
  BY <1>1 DEF NormsSoFar
<1>8. TunedSoFar'
  <2>1. Upto(0)' = {} /\ Upto(-1)' = {}
    BY DEF Upto
  <2>2. merged' = Upto(IF pc = "round" THEN round ELSE round - 1)'
    BY <1>1, <2>1
  <2>3. tuned' = [x \in BlockLinears |-> IF x \in merged' THEN 1 ELSE 0]
    BY <1>1
  <2>4. pc' \notin {"idle", "done", "tune"}
    BY <1>1
  <2> QED BY <1>1, <1>4, <2>2, <2>3, <2>4 DEF TunedSoFar
<1>9. Tuning!ClassIsKept'
  BY <1>1 DEF Tuning!ClassIsKept
<1> QED BY <1>2, <1>5, <1>6, <1>7, <1>8, <1>9 DEF TuningInv

LEMMA FilteredIsBound ==
  ASSUME TuningInv
  PROVE  /\ Tuning!Filtered \in Tuning!Bound /\ Tuning!Filtered[1] = "filtered"
         /\ Tuning!Filtered # None
         /\ Tuning!Filtered[2] = IF prev = None THEN "plain" ELSE prev[2]
BY TuningConstants DEF TuningInv, Tuning!TypeOK, Tuning!Wrappers, Tuning!Bound, Tuning!Filtered

LEMMA TuningRounds ==
  ASSUME TuningInv, Tuning!Round
  PROVE  TuningInv'
<1>1. /\ Tuning!TypeOK /\ pc = "round" /\ round < Len(groups) /\ round' = round + 1
      /\ allow' = groups[round + 1] /\ (first' <=> round = 0)
      /\ wrapper' = Tuning!Filtered /\ pc' = "block"
      /\ left' = left /\ expert' = expert /\ groups' = groups /\ prev' = prev
      /\ wrapped' = wrapped /\ tuned' = tuned /\ class' = class /\ norms' = norms
      /\ merged' = merged /\ first' \in BOOLEAN
  BY DEF TuningInv, Tuning!Round
<1>2. /\ Partition(groups, Tuning!Quantizable) /\ groups \in Seq(SUBSET BlockLinears)
      /\ Len(groups) \in Nat /\ round \in 0 .. Len(groups)
  BY <1>1 DEF TuningInv, Partition, Tuning!TypeOK
<1>3. round' \in 1 .. Len(groups) /\ round \in Nat
  BY <1>1, <1>2
<1>4. Tuning!TypeOK'
  <2>1. allow' \in Tuning!Range(groups')
    BY <1>1, <1>2, <1>3, GroupRange
  <2>2. round' \in 0 .. Len(groups')
    BY <1>1, <1>2, <1>3
  <2>3. wrapper' \in Tuning!Wrappers
    BY <1>1, FilteredIsBound DEF Tuning!Wrappers
  <2> QED BY <1>1, <2>1, <2>2, <2>3 DEF Tuning!TypeOK
<1>5. Tuning!Quantizable' = Tuning!Quantizable /\ Tuning!Filtered' = Tuning!Filtered
  BY <1>1 DEF Tuning!Quantizable, Tuning!Filtered
<1>6. Filter'
  <2>1. InRound' /\ Len(groups) > 1
    BY <1>1, <1>3 DEF InRound, TuningInv, Filter
  <2>2. first' <=> round' = 1
    BY <1>1, <1>3
  <2>3. round' # 0
    BY <1>3
  <2> QED BY <1>1, <1>5, <2>1, <2>2, <2>3 DEF Filter
<1>7. NormsSoFar'
  <2>1. norms = IF round = 0 THEN 0 ELSE 1
    BY <1>1 DEF TuningInv, NormsSoFar
  <2>2. round' <= 1 <=> round = 0
    BY <1>1, <1>3
  <2> QED BY <1>1, <2>1, <2>2 DEF NormsSoFar
<1>8. TunedSoFar'
  <2>1. merged = Upto(round) /\ wrapped = {}
        /\ tuned = [x \in BlockLinears |-> IF x \in merged THEN 1 ELSE 0]
    BY <1>1 DEF TuningInv, TunedSoFar
  <2>2. round' - 1 = round
    BY <1>1, <1>3
  <2>3. Upto(IF pc = "round" THEN round ELSE round - 1)' = Upto(round)
    BY <1>1, <2>2 DEF Upto
  <2> QED BY <1>1, <2>1, <2>3 DEF TunedSoFar
<1>9. Tuning!ClassIsKept'
  BY <1>1 DEF TuningInv, Tuning!ClassIsKept
<1> QED BY <1>1, <1>2, <1>4, <1>5, <1>6, <1>7, <1>8, <1>9 DEF TuningInv

LEMMA TuningWraps ==
  ASSUME TuningInv, Tuning!Wrap
  PROVE  TuningInv'
<1> DEFINE filters == wrapper = None \/ wrapper[1] = "filtered"
           bound == IF wrapper = None THEN "plain" ELSE wrapper[2]
<1>1. /\ Tuning!TypeOK /\ pc = "block" /\ pc' = "tune"
      /\ wrapped' = IF filters /\ allow # None THEN Tuning!Quantizable \cap allow
                    ELSE Tuning!Quantizable
      /\ norms' = IF filters /\ ~first THEN norms ELSE IF norms = 0 THEN 1 ELSE 2
      /\ class' = [x \in BlockLinears |-> IF x \notin wrapped' THEN class[x] ELSE bound]
      /\ left' = left /\ expert' = expert /\ groups' = groups /\ round' = round
      /\ allow' = allow /\ first' = first /\ wrapper' = wrapper /\ prev' = prev
      /\ tuned' = tuned /\ merged' = merged
  BY DEF TuningInv, Tuning!Wrap, Tuning!state
<1>2. /\ Partition(groups, Tuning!Quantizable) /\ groups \in Seq(SUBSET BlockLinears)
      /\ Len(groups) \in Nat /\ round \in 0 .. Len(groups)
      /\ Tuning!Quantizable \subseteq BlockLinears
  BY <1>1 DEF TuningInv, Partition, Tuning!TypeOK, Tuning!Quantizable
<1>3. InRound <=> round # 0
  BY <1>1, <1>2 DEF InRound
<1>4. round = 0 => allow = None /\ (first <=> TRUE) /\ wrapper = prev
  BY <1>1, <1>3 DEF TuningInv, Filter
<1>5. round # 0 => /\ allow = groups[round] /\ (first <=> round = 1)
                   /\ wrapper = Tuning!Filtered /\ Len(groups) > 1
  BY <1>1, <1>3 DEF TuningInv, Filter
<1>6. round # 0 => filters /\ allow # None /\ round \in 1 .. Len(groups)
                   /\ allow \subseteq Tuning!Quantizable
  <2> SUFFICES ASSUME round # 0
               PROVE  filters /\ allow # None /\ round \in 1 .. Len(groups)
                      /\ allow \subseteq Tuning!Quantizable
    OBVIOUS
  <2>1. round \in 1 .. Len(groups)
    BY <1>2
  <2>2. allow \in SUBSET BlockLinears /\ allow = groups[round]
    BY <1>2, <1>5, <2>1, GroupRange
  <2>3. \A x \in allow : x \in Tuning!Quantizable
    BY <1>2, <2>1, <2>2 DEF Partition
  <2>4. filters
    BY <1>5, FilteredIsBound
  <2>5. allow # None
    BY <2>2, TuningConstants
  <2> HIDE DEF filters
  <2> QED BY <2>1, <2>3, <2>4, <2>5
<1>7. wrapped' = IF round = 0 THEN Tuning!Quantizable ELSE groups[round]
  <2> HIDE DEF filters
  <2>1. round # 0 => Tuning!Quantizable \cap allow = allow
    BY <1>6
  <2> QED BY <1>1, <1>4, <1>5, <1>6, <2>1
<1>8. norms' = 1
  <2>1. norms = IF round <= 1 THEN 0 ELSE 1
    BY <1>1 DEF TuningInv, NormsSoFar
  <2>2. ~first <=> ~(round <= 1)
    <3>1. CASE round = 0
      BY <1>4, <3>1
    <3>2. CASE round # 0
      BY <1>2, <1>5, <3>2
    <3> QED BY <3>1, <3>2
  <2>3. ~first => filters
    BY <1>4, <1>6
  <2> HIDE DEF filters
  <2> QED BY <1>1, <2>1, <2>2, <2>3
<1>9. bound = IF prev = None THEN "plain" ELSE prev[2]
  BY <1>4, <1>5, FilteredIsBound
<1>10. bound \in {"plain", "alg"}
  BY <1>9 DEF TuningInv, Tuning!TypeOK, Tuning!Wrappers, Tuning!Bound
<1> HIDE DEF filters, bound
<1>11. Tuning!Quantizable' = Tuning!Quantizable /\ Tuning!Filtered' = Tuning!Filtered
  BY <1>1 DEF Tuning!Quantizable, Tuning!Filtered
<1>12. Tuning!TypeOK'
  <2>1. wrapped' \subseteq BlockLinears
    BY <1>2, <1>6, <1>7, <1>5
  <2>2. class' \in [BlockLinears -> {"plain", "alg", None}]
    BY <1>1, <1>10 DEF Tuning!TypeOK
  <2>3. norms' \in 0 .. 1
    BY <1>8
  <2> QED BY <1>1, <2>1, <2>2, <2>3 DEF Tuning!TypeOK
<1>13. Filter'
  <2>1. InRound' <=> InRound
    BY <1>1, <1>3 DEF InRound
  <2> QED BY <1>1, <1>4, <1>5, <1>3, <1>11, <2>1 DEF Filter
<1>14. NormsSoFar'
  BY <1>1, <1>8 DEF NormsSoFar
<1>15. TunedSoFar'
  <2>1. merged = Upto(round - 1) /\ tuned = [x \in BlockLinears |-> IF x \in merged THEN 1 ELSE 0]
    BY <1>1 DEF TuningInv, TunedSoFar
  <2>2. Upto(IF pc = "round" THEN round ELSE round - 1)' = Upto(round - 1)
    BY <1>1 DEF Upto
  <2> QED BY <1>1, <1>7, <1>11, <2>1, <2>2 DEF TunedSoFar
<1>16. Tuning!ClassIsKept'
  BY <1>1, <1>9 DEF TuningInv, Tuning!ClassIsKept
<1> QED BY <1>1, <1>2, <1>11, <1>12, <1>13, <1>14, <1>15, <1>16 DEF TuningInv

LEMMA TuningUnwraps ==
  ASSUME TuningInv, Tuning!Unwrap
  PROVE  TuningInv'
<1>1. /\ Tuning!TypeOK /\ pc = "tune" /\ pc' = IF round = 0 THEN "done" ELSE "round"
      /\ tuned' = [x \in BlockLinears |-> tuned[x] + IF x \in wrapped THEN 1 ELSE 0]
      /\ merged' = merged \cup wrapped /\ wrapped' = {}
      /\ left' = left /\ expert' = expert /\ groups' = groups /\ round' = round
      /\ allow' = allow /\ first' = first /\ wrapper' = wrapper /\ prev' = prev
      /\ class' = class /\ norms' = norms
  BY DEF TuningInv, Tuning!Unwrap, Tuning!state
<1>2. /\ Partition(groups, Tuning!Quantizable) /\ groups \in Seq(SUBSET BlockLinears)
      /\ Len(groups) \in Nat /\ round \in 0 .. Len(groups)
      /\ Tuning!Quantizable \subseteq BlockLinears
  BY <1>1 DEF TuningInv, Partition, Tuning!TypeOK, Tuning!Quantizable
<1>3. /\ wrapped = IF round = 0 THEN Tuning!Quantizable ELSE groups[round]
      /\ merged = Upto(round - 1) /\ tuned = [x \in BlockLinears |-> IF x \in merged THEN 1 ELSE 0]
      /\ wrapped \subseteq BlockLinears
  BY <1>1 DEF TuningInv, TunedSoFar, Tuning!TypeOK
<1>4. merged \cap wrapped = {}
  <2>1. CASE round = 0
    <3>1. merged = {}
      BY <1>3, <2>1 DEF Upto
    <3> QED BY <3>1
  <2>2. CASE round # 0
    <3>1. ASSUME NEW x \in merged, x \in wrapped PROVE FALSE
      <4>1. PICK i \in 1 .. round - 1 : x \in groups[i]
        BY <1>3 DEF Upto
      <4>2. /\ x \in groups[round] /\ x \in BlockLinears /\ i # round
            /\ i \in 1 .. Len(groups) /\ round \in 1 .. Len(groups)
        BY <1>2, <1>3, <2>2, <3>1
      <4> QED BY <1>2, <4>1, <4>2 DEF Partition
    <3> QED BY <3>1
  <2> QED BY <2>1, <2>2
<1>5. tuned' = [x \in BlockLinears |-> IF x \in merged' THEN 1 ELSE 0]
  <2>1. \A x \in BlockLinears : tuned[x] + (IF x \in wrapped THEN 1 ELSE 0)
                                  = IF x \in merged' THEN 1 ELSE 0
    BY <1>1, <1>3, <1>4
  <2> QED BY <1>1, <2>1
<1>6. merged' = IF round = 0 THEN Tuning!Quantizable ELSE Upto(round)
  <2>1. CASE round = 0
    <3>1. merged = {}
      BY <1>3, <2>1 DEF Upto
    <3> QED BY <1>1, <1>3, <2>1, <3>1
  <2>2. CASE round # 0
    <3>1. \A i : i \in 1 .. round <=> i \in 1 .. round - 1 \/ i = round
      BY <1>2, <2>2
    <3>2. Upto(round) = Upto(round - 1) \cup wrapped
      BY <1>3, <2>2, <3>1 DEF Upto
    <3> QED BY <1>1, <1>3, <2>2, <3>2
  <2> QED BY <2>1, <2>2
<1>7. Tuning!Quantizable' = Tuning!Quantizable /\ Tuning!Filtered' = Tuning!Filtered
  BY <1>1 DEF Tuning!Quantizable, Tuning!Filtered
<1>8. Tuning!TypeOK'
  <2>1. tuned' \in [BlockLinears -> 0 .. 1]
    BY <1>5
  <2>2. merged' \subseteq BlockLinears
    BY <1>1, <1>3 DEF Tuning!TypeOK
  <2> QED BY <1>1, <2>1, <2>2 DEF Tuning!TypeOK
<1>9. Filter'
  <2>1. InRound' <=> InRound
    BY <1>1, <1>2 DEF InRound
  <2>2. /\ allow = IF InRound THEN groups[round] ELSE None
        /\ first <=> (InRound => round = 1)
        /\ wrapper = IF round = 0 THEN prev ELSE Tuning!Filtered
        /\ InRound => Len(groups) > 1
    BY <1>1 DEF TuningInv, Filter
  <2>3. pc' = "round" => InRound
    BY <1>1, <1>2 DEF InRound
  <2> QED BY <1>1, <1>7, <2>1, <2>2, <2>3 DEF Filter
<1>10. NormsSoFar'
  BY <1>1 DEF TuningInv, NormsSoFar
<1>11. TunedSoFar'
  <2>1. Upto(IF pc = "round" THEN round ELSE round - 1)'
          = IF round = 0 THEN Upto(round - 1) ELSE Upto(round)
    BY <1>1 DEF Upto
  <2> QED BY <1>1, <1>5, <1>6, <1>7, <2>1 DEF TunedSoFar
<1>12. Tuning!ClassIsKept'
  BY <1>1 DEF TuningInv, Tuning!ClassIsKept
<1> QED BY <1>1, <1>2, <1>7, <1>8, <1>9, <1>10, <1>11, <1>12 DEF TuningInv

(* The filter is taken away, or the block is saved.                        *)
LEMMA TuningLeaves ==
  ASSUME TuningInv, Tuning!Leave \/ Tuning!Saved
  PROVE  TuningInv'
<1>1. /\ Tuning!TypeOK
      /\ left' = left /\ expert' = expert /\ groups' = groups /\ round' = round /\ prev' = prev
      /\ wrapped' = wrapped /\ tuned' = tuned /\ class' = class /\ norms' = norms
      /\ merged' = merged
      /\ \/ /\ pc = "round" /\ round = Len(groups) /\ pc' = "done" /\ allow' = None /\ first' = TRUE
            /\ wrapper' = IF prev # None THEN prev ELSE wrapper
         \/ /\ pc = "done" /\ pc' = "idle" /\ allow' = allow /\ first' = first
            /\ wrapper' = wrapper
  BY DEF TuningInv, Tuning!Leave, Tuning!Saved, Tuning!state
<1>2. /\ Partition(groups, Tuning!Quantizable) /\ groups \in Seq(SUBSET BlockLinears)
      /\ Len(groups) \in Nat /\ round \in 0 .. Len(groups)
      /\ Tuning!Quantizable \subseteq BlockLinears
  BY <1>1 DEF TuningInv, Partition, Tuning!TypeOK, Tuning!Quantizable
<1>3. Tuning!Quantizable' = Tuning!Quantizable
  BY <1>1 DEF Tuning!Quantizable
<1>4. Tuning!TypeOK'
  BY <1>1 DEF Tuning!TypeOK
<1>5. allow' = None /\ (first' <=> TRUE)
  BY <1>1 DEF TuningInv, Filter, InRound
<1>6. Filter'
  BY <1>1, <1>5 DEF Filter, InRound
<1>7. NormsSoFar'
  <2>1. pc = "round" => norms = 1
    <3>1. pc = "round" => Len(groups) > 1
      BY DEF TuningInv, Filter
    <3> QED BY <1>1, <1>2, <3>1 DEF TuningInv, NormsSoFar
  <2> QED BY <1>1, <2>1 DEF TuningInv, NormsSoFar
<1>8. TunedSoFar'
  <2>1. Upto(Len(groups)) = Tuning!Quantizable
    BY <1>2 DEF Upto, Partition
  <2>2. /\ wrapped = {} /\ merged = Tuning!Quantizable
        /\ tuned = [x \in BlockLinears |-> IF x \in merged THEN 1 ELSE 0]
    BY <1>1, <2>1 DEF TuningInv, TunedSoFar
  <2>3. pc' \in {"idle", "done"}
    BY <1>1
  <2> QED BY <1>1, <1>3, <2>2, <2>3 DEF TunedSoFar
<1>9. Tuning!ClassIsKept'
  BY <1>1 DEF TuningInv, Tuning!ClassIsKept
<1> QED BY <1>1, <1>2, <1>3, <1>4, <1>6, <1>7, <1>8, <1>9 DEF TuningInv

LEMMA TuningNext ==
  ASSUME TuningInv, Tuning!Next
  PROVE  TuningInv'
BY TuningEnters, TuningRounds, TuningWraps, TuningUnwraps, TuningLeaves DEF Tuning!Next

LEMMA TuningOnce ==
  ASSUME TuningInv
  PROVE  Tuning!TunedOnce /\ Tuning!NormsOnce /\ Tuning!ClassIsKept
<1>1. Tuning!TunedOnce
  BY DEF TuningInv, TunedSoFar, Tuning!TunedOnce
<1>2. Tuning!NormsOnce
  BY DEF TuningInv, NormsSoFar, Tuning!NormsOnce
<1> QED BY <1>1, <1>2 DEF TuningInv

-----------------------------------------------------------------------------
(* All of them together.                                                   *)
Parts == {"rewrite", "split", "seal", "order", "recipe", "tuning", "patch"}

Inv ==
  /\ part \in Parts
  /\ part = "rewrite" => RewriteInv
  /\ part = "split" => SplitInv
  /\ part = "seal" => SealInv
  /\ part = "order" => Config!Inv
  /\ part = "recipe" => ShippedConfig!Inv
  /\ part = "tuning" => TuningInv
  /\ part = "patch" => PatchInv

LEMMA InitInv == Init => Inv
BY RewriteInit, SplitInit, SealInit, ConfigInit, ShippedInit, TuningInit, PatchInit DEF Init, Inv, Parts

LEMMA RewriteStutters ==
  ASSUME RewriteInv, UNCHANGED <<pc, crashes, rewriteVars>>
  PROVE  RewriteInv'
<1>1. /\ pc' = pc /\ crashes' = crashes /\ keepSrc' = keepSrc /\ fileOf' = fileOf
      /\ files' = files /\ out' = out /\ index' = index /\ todo' = todo /\ rest' = rest
      /\ read' = read /\ remaining' = remaining /\ shard' = shard /\ no' = no
      /\ weightMap' = weightMap
  BY DEF rewriteVars
<1>2. Rewrite!Unread' = Rewrite!Unread
  BY <1>1 DEF Rewrite!Unread
<1>3. Counters'
  BY <1>1, <1>2, CountersKept
<1>4. AllPlaced'
  <2>1. \A t : Placed(t)' <=> Placed(t)
    BY <1>1 DEF Placed
  <2> QED BY <1>1, <2>1 DEF RewriteInv, AllPlaced
<1>5. NothingMissing'
  BY <1>1, <1>2 DEF RewriteInv, NothingMissing
<1>6. ToDo'
  BY <1>1 DEF RewriteInv, ToDo
<1>7. Rewrite!TypeOK'
  BY <1>1 DEF RewriteInv, Rewrite!TypeOK
<1> QED BY <1>3, <1>4, <1>5, <1>6, <1>7 DEF RewriteInv

LEMMA SplitStutters ==
  ASSUME SplitInv, UNCHANGED <<crashes, splitVars>>
  PROVE  SplitInv'
<1>1. /\ crashes' = crashes /\ bin' = bin /\ man' = man /\ source' = source
      /\ offsets' = offsets /\ mapped' = mapped
  BY DEF splitVars
<1>2. Split!TypeOK'
  BY <1>1 DEF SplitInv, Split!TypeOK
<1>3. \A k : HoldsShards(k)' <=> HoldsShards(k)
  BY <1>1 DEF HoldsShards
<1> QED BY <1>1, <1>2, <1>3 DEF SplitInv, PointsAtShards

LEMMA SealStutters ==
  ASSUME SealInv, UNCHANGED <<pc, sealVars>>
  PROVE  SealInv'
<1>1. /\ pc' = pc /\ dirOf' = dirOf /\ did' = did /\ handle' = handle /\ rec' = rec
      /\ content' = content /\ manifest' = manifest /\ readOnly' = readOnly
      /\ sealed' = sealed /\ opened' = opened /\ late' = late
  BY DEF sealVars
<1>2. Seal!TypeOK'
  BY <1>1 DEF SealInv, Seal!TypeOK
<1>3. ASSUME NEW q \in Runs PROVE RunInv(q)'
  BY <1>1
     DEF SealInv, RunInv, HasDir, Holds, ProtectedSoFar, CheckedProtected, CheckedSoFar,
         IntactWhenDone, Protected, Seal!Intact
<1> QED BY <1>2, <1>3 DEF SealInv

LEMMA ConfigStutters ==
  ASSUME Config!Inv, UNCHANGED <<pc, at, configVars>>
  PROVE  Config!Inv'
<1>1. UNCHANGED Config!vars
  BY DEF configVars, Config!vars
<1> QED BY <1>1, ConfigSame, Config!NextInv

LEMMA ShippedStutters ==
  ASSUME ShippedConfig!Inv, UNCHANGED <<pc, at, configVars>>
  PROVE  ShippedConfig!Inv'
<1>1. UNCHANGED ShippedConfig!vars
  BY DEF configVars, ShippedConfig!vars
<1> QED BY <1>1, ShippedOK, ShippedConfig!NextInv

LEMMA TuningStutters ==
  ASSUME TuningInv, UNCHANGED <<pc, tuningVars>>
  PROVE  TuningInv'
<1>1. /\ pc' = pc /\ left' = left /\ expert' = expert /\ groups' = groups /\ round' = round
      /\ allow' = allow /\ first' = first /\ wrapper' = wrapper /\ prev' = prev
      /\ wrapped' = wrapped /\ tuned' = tuned /\ class' = class /\ norms' = norms
      /\ merged' = merged
  BY DEF tuningVars
<1>2. Tuning!Quantizable' = Tuning!Quantizable /\ Tuning!Filtered' = Tuning!Filtered
  BY <1>1 DEF Tuning!Quantizable, Tuning!Filtered
<1>3. Tuning!TypeOK'
  BY <1>1 DEF TuningInv, Tuning!TypeOK
<1>4. Filter' /\ NormsSoFar'
  BY <1>1, <1>2 DEF TuningInv, Filter, InRound, NormsSoFar
<1>5. TunedSoFar'
  <2>1. Upto(IF pc = "round" THEN round ELSE round - 1)'
          = Upto(IF pc = "round" THEN round ELSE round - 1)
    BY <1>1 DEF Upto
  <2> QED BY <1>1, <1>2, <2>1 DEF TuningInv, TunedSoFar
<1>6. Tuning!ClassIsKept'
  BY <1>1 DEF TuningInv, Tuning!ClassIsKept
<1> QED BY <1>1, <1>2, <1>3, <1>4, <1>5, <1>6 DEF TuningInv

LEMMA PatchStutters ==
  ASSUME PatchInv, UNCHANGED <<at, patchVars>>
  PROVE  PatchInv'
<1>1. /\ at' = at /\ fits' = fits /\ version' = version /\ file' = file /\ bak' = bak
      /\ op' = op /\ writing' = writing /\ code' = code /\ kills' = kills
  BY DEF patchVars
<1> QED BY <1>1 DEF PatchInv, Patch!TypeOK, AtAJob, MarkedSoFar, Undisturbed, GoodWriting, GoodJob,
         GoodBackup, WritingTo, HasLeft

LEMMA NextInv ==
  ASSUME Inv, [Next]_vars
  PROVE  Inv'
<1>1. part' = part
  BY DEF Next, OnlyRewrite, OnlySplit, OnlySeal, OnlyConfig, OnlyTuning, OnlyPatch, vars
<1>2. CASE UNCHANGED vars
  <2>1. UNCHANGED <<pc, crashes, rewriteVars>> /\ UNCHANGED <<crashes, splitVars>>
        /\ UNCHANGED <<pc, sealVars>> /\ UNCHANGED <<pc, at, configVars>>
        /\ UNCHANGED <<pc, tuningVars>> /\ UNCHANGED <<at, patchVars>>
    BY <1>2 DEF vars
  <2> QED BY <1>1, <2>1, RewriteStutters, SplitStutters, SealStutters, ConfigStutters,
             ShippedStutters, TuningStutters, PatchStutters DEF Inv
<1>3. CASE Next
  BY <1>1, <1>3, RewriteNext, SplitNext, SealNext, ConfigNext, ShippedNext, TuningNext, PatchNext
     DEF Inv, Next
<1> QED BY <1>2, <1>3

(* The invariants of the programs are invariants of the chain, whatever    *)
(* checkpoint, policy, block, pipeline runs or edits there are.            *)
THEOREM Invariance == Spec => []Inv
<1>1. Inv /\ [Next]_vars => Inv'
  BY NextInv
<1> QED BY <1>1, InitInv, PTL DEF Spec

(* The variables of each part keep their types: among others a backup of   *)
(* 07_patch_autoround never holds an edited file (line 168), no layer of a *)
(* block is tuned twice, and 02_prepare_source never writes more output    *)
(* shards than there are tensors.                                          *)
THEOREM TypeCorrect == Spec => []TypeOK
<1>1. Inv => TypeOK
  <2> SUFFICES ASSUME Inv PROVE TypeOK
    OBVIOUS
  <2>1. CASE part = "rewrite"
    BY <2>1 DEF Inv, TypeOK, RewriteInv
  <2>2. CASE part = "split"
    BY <2>2 DEF Inv, TypeOK, SplitInv
  <2>3. CASE part = "seal"
    BY <2>3 DEF Inv, TypeOK, SealInv
  <2>4. CASE part = "order"
    <3>1. Order!TypeOK
      BY <2>4, ConfigSame DEF Inv, Config!Inv
    <3> QED BY <2>4, <3>1 DEF TypeOK
  <2>5. CASE part = "recipe"
    <3>1. Shipped!TypeOK
      BY <2>5, ShippedSame DEF Inv, ShippedConfig!Inv
    <3> QED BY <2>5, <3>1 DEF TypeOK
  <2>6. CASE part = "tuning"
    BY <2>6 DEF Inv, TypeOK, TuningInv
  <2>7. CASE part = "patch"
    BY <2>7 DEF Inv, TypeOK, PatchInv
  <2> QED BY <2>1, <2>2, <2>3, <2>4, <2>5, <2>6, <2>7 DEF Inv, Parts
<1> QED BY <1>1, Invariance, PTL

(* Whatever is spread over the source shards, and however the stacks are   *)
(* made up: no tensor is missing when it is read, and nothing but n-gram   *)
(* tensors is left at the end (02_prepare_source.py:141).                  *)
THEOREM SourceGoesWhenRead == Spec => []ShardsGoWhenRead
<1>1. Inv => ShardsGoWhenRead
  BY RewriteShards DEF Inv, ShardsGoWhenRead
<1> QED BY <1>1, Invariance, PTL

(* With --keep-src a whole index names, for every tensor of the source, an *)
(* output shard that holds it, after any number of crashes                 *)
(* (02_prepare_source.py:197).                                             *)
THEOREM IndexIsTrue == Spec => []WholeMeansComplete
<1>1. Inv => WholeMeansComplete
  BY RewriteWhole DEF Inv, WholeMeansComplete
<1> QED BY <1>1, Invariance, PTL

(* A table of shards of any number and size that can be mapped is whole,   *)
(* and its offsets point at the rows they should, after any number of      *)
(* killed splits (03_split_ple.py:233).                                    *)
THEOREM TableIsWhole == Spec => []MapsTheRows
<1>1. Inv => MapsTheRows
  BY SplitMapsTheRows DEF Inv, MapsTheRows
<1> QED BY <1>1, Invariance, PTL

(* Any number of runs may share minutes and directories, and any of them   *)
(* may be killed: a directory that was reported DONE is what its manifest  *)
(* says, until it is unsealed (09_seal_output.py:129, pipeline.sh:83).     *)
THEOREM SealedIsIntact == Spec => []DoneIsIntact
<1>1. Inv => DoneIsIntact
  BY SealIntact DEF Inv, DoneIsIntact
<1> QED BY <1>1, Invariance, PTL

(* For every policy, every model and every set of patterns: a layer with a *)
(* rule gets the scheme of its first rule, or the quantization is refused  *)
(* (05_quantize.py:50).                                                    *)
THEOREM ShippedAsPlanned == Spec => []TunedAsPlanned
<1>1. Inv => TunedAsPlanned
  BY ConfigSame, Config!InvPlanned DEF Inv, TunedAsPlanned
<1> QED BY <1>1, Invariance, PTL

(* And it is not refused by resolution_check when no pattern occurs twice  *)
(* (05_quantize.py:126).                                                   *)
THEOREM DistinctNeverRefused == Spec => []DistinctIsAccepted
<1>1. Inv => DistinctIsAccepted
  BY ConfigSame DEF Inv, DistinctIsAccepted, Config!Inv
<1> QED BY <1>1, Invariance, PTL

(* Under every policy that leaves alone what AutoRound cannot quantize     *)
(* what the config says of a layer is what is on disk, where the patterns  *)
(* are distinct or resolution_check compared the layer; and the policy     *)
(* 04_recipe.py ships is one of them, with distinct patterns               *)
(* (04_recipe.py:148).                                                     *)
THEOREM ConfigSaysWhatIs == Spec => []ConfigMatchesDisk
<1>1. Inv => ConfigMatchesDisk
  BY ConfigSame, Config!InvMatches, ShippedMatches DEF Inv, ConfigMatchesDisk
<1> QED BY <1>1, Invariance, PTL

(* For every block, numbering of the experts and number of groups: every   *)
(* layer is tuned once, with the class the instance had, and the norms     *)
(* once (06_subset_tuning.py:108, 132, 200).                               *)
THEOREM EveryLayerOnce == Spec => []TunedOnce
<1>1. Inv => TunedOnce
  BY TuningOnce DEF Inv, TunedOnce
<1> QED BY <1>1, Invariance, PTL

(* As long as no call is killed, a revert gives back every file of the     *)
(* installed version, whatever calls and upgrades there were before, but   *)
(* for a file whose backup is stale, which becomes that backup             *)
(* (07_patch_autoround.py:4).                                              *)
THEOREM RevertGivesBack == Spec => RevertRestores
<1>1. Inv /\ [Next]_vars => [part = "patch" => Patch!Restores]_vars
  BY PatchRestores DEF Inv, Next
<1> QED BY <1>1, Invariance, PTL DEF Spec, RevertRestores

(* Status 0 of --check or of an apply means that every edit is in place,   *)
(* after any upgrades and killed calls, and, if no call was killed, in the *)
(* file of the installed version or of the stale backup                    *)
(* (07_patch_autoround.py:149).                                            *)
THEOREM StatusIsTrue == Spec => SuccessMeansPatched
<1>1. Inv /\ [Next]_vars => [part = "patch" => Patch!SucceedsPatched]_vars
  BY PatchSucceeds DEF Inv, Next
<1> QED BY <1>1, Invariance, PTL DEF Spec, SuccessMeansPatched

=============================================================================
