------------------------------ MODULE PleTable ------------------------------
(***************************************************************************)
(* scripts/03_split_ple.py: the n-gram table is taken out of a checkpoint  *)
(* into one file of raw rows, shard after shard, and a manifest, written   *)
(* last, says where each shard starts and which scale its values have.     *)
(* MmapNGramEmbedding maps the file and looks rows up by number.           *)
(*                                                                         *)
(* A table may be split again over an old one; nobody has it mapped while  *)
(* that runs.  The process may be killed.                                  *)
(***************************************************************************)
EXTENDS Prefixes

CONSTANTS
  Sources,     \* checkpoints
  RowsPer,     \* RowsPer[s][i]: the rows of shard i of checkpoint s
  MaxCrashes,  \* bound on the number of crashes
  None,        \* no manifest, nothing mapped
  Torn         \* a manifest that was cut off

NumShards(s) == Len(RowsPer[s])

(* Every checkpoint has at least one shard, every shard a row.              *)
SourcesOK ==
  \A s \in Sources : RowsPer[s] \in Seq(Nat \ {0}) /\ RowsPer[s] # <<>>

VARIABLES
  bin,      \* the rows in the file, each as <<checkpoint, shard, row>>
  man,      \* the manifest: None, Torn, or a record
  source,   \* the checkpoint that is being split, None
  offsets,  \* the row offsets noted so far
  mapped,   \* the manifest of the table that is in use, None
  crashes

vars == <<bin, man, source, offsets, mapped, crashes>>

RowsOf(s, i) == [j \in 1 .. RowsPer[s][i] |-> <<s, i, j - 1>>]

Rows(s) == PrefixSums(RowsPer[s], NumShards(s))[NumShards(s)]

Manifest(s, offs) == [source |-> s, rows |-> Rows(s), offsets |-> offs]

Init ==
  /\ bin = <<>> /\ man = None /\ source = None /\ offsets = <<>>
  /\ mapped = None /\ crashes = 0

(* split_ple up to the open of the file, which empties it.  What it finds  *)
(* wrong before (space, geometry, missing shards) it reports, and stops.   *)
Split(s) ==
  /\ source = None /\ mapped = None
  /\ source' = s
  /\ bin' = <<>> /\ offsets' = <<>>
  /\ UNCHANGED <<man, mapped, crashes>>

Offset == Len(bin)

WriteShard ==
  /\ source # None /\ Len(offsets) < NumShards(source)
  /\ offsets' = Append(offsets, Offset)
  /\ bin' = bin \o RowsOf(source, Len(offsets) + 1)
  /\ UNCHANGED <<man, source, mapped, crashes>>

OpenManifest ==
  /\ source # None /\ Len(offsets) = NumShards(source) /\ man # Torn
  /\ man' = Torn
  /\ UNCHANGED <<bin, source, offsets, mapped, crashes>>

WriteManifest ==
  /\ source # None /\ Len(offsets) = NumShards(source) /\ man = Torn
  /\ man' = Manifest(source, offsets)
  /\ source' = None
  /\ UNCHANGED <<bin, offsets, mapped, crashes>>

(* Rows are buffered: a killed run leaves some of what it wrote.           *)
Crash ==
  /\ source # None /\ crashes < MaxCrashes
  /\ crashes' = crashes + 1
  /\ source' = None
  /\ IF Len(offsets) = NumShards(source)
     THEN UNCHANGED bin
     ELSE \E n \in 0 .. Len(bin) + RowsPer[source][Len(offsets) + 1] - 1 :
            bin' = SubSeq(bin \o RowsOf(source, Len(offsets) + 1), 1, n)
  /\ UNCHANGED <<man, offsets, mapped>>

(* Fault: the size of the file is not compared.                            *)
AnySize == man \notin {None, Torn}

SizeFits == man \notin {None, Torn} /\ Len(bin) = man.rows

(* MmapNGramEmbedding.__init__ raises when the size is wrong.              *)
Map ==
  /\ mapped = None /\ source = None
  /\ SizeFits
  /\ mapped' = man
  /\ UNCHANGED <<bin, man, source, offsets, crashes>>

Unmap ==
  /\ mapped # None
  /\ mapped' = None
  /\ UNCHANGED <<bin, man, source, offsets, crashes>>

Lookup(row) == bin[row + 1]

(* A split that is not killed goes on.                                     *)
Continue == WriteShard \/ OpenManifest \/ WriteManifest

Next ==
  \/ \E s \in Sources : Split(s)
  \/ Continue \/ Crash \/ Map \/ Unmap

-----------------------------------------------------------------------------
TypeOK ==
  /\ bin \in Seq(Sources \X Nat \X Nat)
  /\ source \in Sources \cup {None}
  /\ man \in {None, Torn} \/ man = Manifest(man.source, man.offsets)
  /\ offsets \in Seq(Nat)
  /\ mapped # None => mapped = man
  /\ crashes \in 0 .. MaxCrashes

(* Whatever was killed before, a table that can be mapped is whole, and    *)
(* row offset + j of every shard is row j of that shard of the checkpoint  *)
(* the manifest, and so the scale, belongs to (03_split_ple.py:233).       *)
MapsTheRows ==
  mapped # None =>
    \A i \in 1 .. NumShards(mapped.source) : \A j \in 0 .. RowsPer[mapped.source][i] - 1 :
      /\ mapped.offsets[i] + j < Len(bin)
      /\ Lookup(mapped.offsets[i] + j) = <<mapped.source, i, j>>

(* The split of s is over; if nothing was killed, with a manifest of its   *)
(* own beside the rows (03_split_ple.py:245).                              *)
SplitOver(s) == source = None /\ (crashes > 0 \/ (SizeFits /\ man.source = s))
=============================================================================
