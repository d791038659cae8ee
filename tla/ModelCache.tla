----------------------------- MODULE ModelCache -----------------------------
(***************************************************************************)
(* The model cache of the Android engine (LwPpocr.kt: createInternal,      *)
(* installModelsLocked, isCachedModelsValid, pruneOldCaches).  The models  *)
(* of the installed release are copied out of the package into a temporary *)
(* directory that a rename turns into the cache; caches of other releases  *)
(* are deleted once an engine is open.                                     *)
(*                                                                         *)
(* Threads create engines at the same time; the process may be killed, and *)
(* the application replaced by another release, between any two file       *)
(* operations; and any file operation may be refused, the reads that judge *)
(* the cache included.  A file is absent, partial or whole: a partial one  *)
(* is shorter than the manifest says.                                      *)
(* What was written survives a kill (the kernel has it), so the loss of    *)
(* unsynced pages with the power is not modelled.                          *)
(***************************************************************************)
EXTENDS Naturals, Sequences, SequencesExt, FiniteSets

CONSTANTS
  Releases,      \* asset set ids of the application's releases
  Models,        \* the model files, in the order of the manifest
  Threads,       \* threads that create engines
  Times,         \* values of System.nanoTime() in the names of directories
  MaxKills,      \* bound on the kills of the process
  MaxRefusals,   \* bound on the file operations that are refused
  Nobody         \* the lock is free

ASSUME ModelAssumption == Models \in Seq(STRING) /\ Models # <<>>
ASSUME ThreadAssumption == Nobody \notin Threads

Manifest == "manifest.json"
Marker == "installed.asset-set-id"
Copies == Models \o <<Manifest, Marker>>
Files == ToSet(Copies)

Cache(r) == [kind |-> "cache", release |-> r]
Temporary(r, time) == [kind |-> "temporary", release |-> r, time |-> time]
EmptyDirectory == [f \in Files |-> "absent"]

VARIABLES
  release,   \* the release that is installed
  disk,      \* the directories under the cache root and their files
  lock,      \* modelInstallLock
  pc,        \* where each thread is in createInternal
  copied,    \* how many files the thread has copied
  temporary, \* its temporary directory
  doomed,    \* what deleteRecursively has yet to visit: <<directory, file>>
  seen,      \* the files nativeCreate has read, as they were: <<file, state>>
  refused,   \* has a file operation of this create been refused?
  disturbed, \* a whole cache was misjudged while this create was opening it
  kills, refusals

thread == <<pc, copied, temporary, doomed, seen, refused, refusals, disturbed>>
vars == <<release, disk, lock, kills, refusals, thread>>

Directory == Cache(release)
Exists(d) == d \in DOMAIN disk
Without(d) == [e \in DOMAIN disk \ {d} |-> disk[e]]
With(d, files) == [e \in DOMAIN disk \cup {d} |-> IF e = d THEN files ELSE disk[e]]
Present(d) == {f \in Files : disk[d][f] # "absent"}
Occupied(d) == Exists(d) /\ Present(d) # {}

Init ==
  /\ release \in Releases
  /\ disk = [d \in {} |-> EmptyDirectory]
  /\ lock = Nobody /\ kills = 0 /\ refusals = 0
  /\ pc = [t \in Threads |-> "idle"]
  /\ copied = [t \in Threads |-> 0]
  /\ temporary = [t \in Threads |-> Nobody]
  /\ doomed = [t \in Threads |-> {}]
  /\ seen = [t \in Threads |-> {}]
  /\ refused = [t \in Threads |-> FALSE]
  /\ disturbed = [t \in Threads |-> FALSE]

Goes(t, place) == pc' = [pc EXCEPT ![t] = place]
Refuses(t) ==
  /\ refusals < MaxRefusals /\ refusals' = refusals + 1
  /\ refused' = [refused EXCEPT ![t] = TRUE]
Granted == UNCHANGED <<refused, refusals>>

-----------------------------------------------------------------------------
Start(t) ==
  /\ pc[t] = "idle"
  /\ Goes(t, "lock")
  /\ UNCHANGED <<release, disk, lock, kills, copied, temporary, doomed, seen, refused, refusals, disturbed>>

Acquire(t) ==
  /\ pc[t] = "lock" /\ lock = Nobody
  /\ lock' = t /\ Goes(t, "check")
  /\ UNCHANGED <<release, disk, kills, copied, temporary, doomed, seen, refused, refusals, disturbed>>

(* Mutation: the sizes of the model files are not compared. *)
ValidByMarker(d) == Exists(d) /\ \A f \in {Manifest, Marker} : disk[d][f] = "whole"

(* What isCachedModelsValid finds when every read is granted: the marker,  *)
(* the manifest and the size of each model.                                *)
Valid(d) == Exists(d) /\ \A f \in Files : disk[d][f] = "whole"

(* The cache that is held to be invalid is deleted, file by file.          *)
Discards(t) ==
  /\ Goes(t, "replace")
  /\ doomed' = [doomed EXCEPT ![t] = {Directory} \X Present(Directory)]

(* Mutation: an invalid cache is left where it is. *)
CheckKeepsInvalid(t) ==
  /\ pc[t] = "check"
  /\ \/ Valid(Directory) /\ Goes(t, "open") /\ lock' = Nobody
     \/ ~Valid(Directory) /\ Goes(t, "prepare") /\ UNCHANGED lock
  /\ UNCHANGED <<release, disk, kills, copied, temporary, doomed, seen, refused, refusals, disturbed>>

Check(t) ==
  /\ pc[t] = "check"
  /\ \/ /\ Valid(Directory)
        /\ Goes(t, "open") /\ lock' = Nobody
        /\ UNCHANGED doomed
     \/ /\ ~Valid(Directory) /\ Exists(Directory)
        /\ Discards(t)
        /\ UNCHANGED lock
     \/ /\ ~Exists(Directory)
        /\ Goes(t, "prepare")
        /\ UNCHANGED <<doomed, lock>>
  /\ UNCHANGED <<release, disk, kills, copied, temporary, seen, refused, refusals, disturbed>>

(* A read of isCachedModelsValid is refused: runCatching makes the cache   *)
(* invalid, whatever it holds, and it is deleted, under the creates that   *)
(* found it whole and have left the lock.  Where exists() is refused too,  *)
(* it is taken for missing.                                                *)
CheckRefused(t) ==
  /\ pc[t] = "check" /\ Exists(Directory)
  /\ Refuses(t)
  /\ \/ /\ Discards(t)
        /\ disturbed' = [u \in Threads |->
                           disturbed[u] \/ (Valid(Directory) /\ pc[u] = "open")]
     \/ Goes(t, "prepare") /\ UNCHANGED <<doomed, disturbed>>
  /\ UNCHANGED <<release, disk, lock, kills, copied, temporary, seen>>

-----------------------------------------------------------------------------
(* deleteRecursively: the files in any order, each of which may stay.      *)
DeleteFile(t) ==
  /\ pc[t] \in {"replace", "cleanup", "prune"}
  /\ \E x \in doomed[t] :
       /\ doomed' = [doomed EXCEPT ![t] = @ \ {x}]
       /\ \/ /\ Exists(x[1])
             /\ disk' = [disk EXCEPT ![x[1]][x[2]] = "absent"]
             /\ Granted
          \/ /\ ~Exists(x[1])
             /\ UNCHANGED disk /\ Granted
          \/ Refuses(t) /\ UNCHANGED disk
  /\ UNCHANGED <<release, lock, kills, pc, copied, temporary, seen, disturbed>>

(* An emptied directory goes; one that still has a file cannot.            *)
Removed(d) == IF Exists(d) /\ ~Occupied(d) THEN Without(d) ELSE disk

Replaced(t) ==
  /\ pc[t] = "replace" /\ doomed[t] = {}
  /\ disk' = Removed(Directory)
  /\ IF Occupied(Directory) THEN Goes(t, "failed") /\ lock' = Nobody
     ELSE Goes(t, "prepare") /\ UNCHANGED lock
  /\ UNCHANGED <<release, kills, copied, temporary, doomed, seen, refused, refusals, disturbed>>

(* A new directory, or an emptied one of an earlier process.               *)
Prepare(t) ==
  /\ pc[t] = "prepare"
  /\ \E time \in Times :
       LET d == Temporary(release, time)
       IN  /\ disk' = With(d, EmptyDirectory)
           /\ temporary' = [temporary EXCEPT ![t] = d]
  /\ Goes(t, "copy")
  /\ UNCHANGED <<release, lock, kills, copied, doomed, seen, refused, refusals, disturbed>>

(* The cache root or the temporary directory cannot be made: nothing to    *)
(* clean up yet.                                                           *)
PrepareRefused(t) ==
  /\ pc[t] \in {"check", "prepare"}
  /\ Refuses(t) /\ Goes(t, "failed") /\ lock' = Nobody
  /\ UNCHANGED <<release, disk, kills, copied, temporary, doomed, seen, disturbed>>

Current(t) == Copies[copied[t] + 1]

BeginCopy(t) ==
  /\ pc[t] = "copy" /\ copied[t] < Len(Copies)
  /\ disk' = [disk EXCEPT ![temporary[t]][Current(t)] = "partial"]
  /\ Goes(t, "copying")
  /\ UNCHANGED <<release, lock, kills, copied, temporary, doomed, seen, refused, refusals, disturbed>>

EndCopy(t) ==
  /\ pc[t] = "copying"
  /\ disk' = [disk EXCEPT ![temporary[t]][Current(t)] = "whole"]
  /\ copied' = [copied EXCEPT ![t] = @ + 1]
  /\ Goes(t, "copy")
  /\ UNCHANGED <<release, lock, kills, temporary, doomed, seen, refused, refusals, disturbed>>

(* The catch block of installModelsLocked. *)
CleanUp(t) ==
  /\ Goes(t, "cleanup")
  /\ doomed' = [doomed EXCEPT ![t] = {temporary[t]} \X Present(temporary[t])]

CopyRefused(t) ==
  /\ pc[t] = "copying"
  /\ CleanUp(t) /\ Refuses(t)
  /\ UNCHANGED <<release, disk, lock, kills, copied, temporary, seen, disturbed>>

(* renameTo replaces nothing but an empty directory.                       *)
Commit(t) ==
  /\ pc[t] = "copy" /\ copied[t] = Len(Copies)
  /\ ~Occupied(Directory)
  /\ disk' = [d \in (DOMAIN disk \cup {Directory}) \ {temporary[t]} |->
                IF d = Directory THEN disk[temporary[t]] ELSE disk[d]]
  /\ Goes(t, "open") /\ lock' = Nobody
  /\ UNCHANGED <<release, kills, copied, temporary, doomed, seen, refused, refusals, disturbed>>

CommitFails(t) ==
  /\ pc[t] = "copy" /\ copied[t] = Len(Copies)
  /\ \/ Occupied(Directory) /\ Granted
     \/ Refuses(t)
  /\ CleanUp(t)
  /\ UNCHANGED <<release, disk, lock, kills, copied, temporary, seen, disturbed>>

CleanedUp(t) ==
  /\ pc[t] = "cleanup" /\ doomed[t] = {}
  /\ disk' = Removed(temporary[t])
  /\ Goes(t, "failed") /\ lock' = Nobody
  /\ UNCHANGED <<release, kills, copied, temporary, doomed, seen, refused, refusals, disturbed>>

-----------------------------------------------------------------------------
(* nativeCreate, outside the lock, reads the models one after another.     *)
OpenModel(t) ==
  LET n == Cardinality(seen[t]) + 1 IN
  /\ pc[t] = "open" /\ n <= Len(Models)
  /\ seen' = [seen EXCEPT ![t] = @ \cup
                {<<Models[n], IF Exists(Directory) THEN disk[Directory][Models[n]] ELSE "absent">>}]
  /\ UNCHANGED <<release, disk, lock, kills, pc, copied, temporary, doomed, refused, refusals, disturbed>>

(* A read is refused, or a model is not there or does not load.            *)
OpenFails(t) ==
  /\ pc[t] = "open" /\ Goes(t, "failed")
  /\ \/ Refuses(t)
     \/ (\E x \in seen[t] : x[2] # "whole") /\ Granted
  /\ UNCHANGED <<release, disk, lock, kills, copied, temporary, doomed, seen, disturbed>>

(* pruneOldCaches: only names that begin with the model's id are old caches;*)
(* those of temporary directories begin with a dot.                        *)
Stale == {d \in DOMAIN disk \ {Directory} : d.kind = "cache"}

Opened(t) ==
  /\ pc[t] = "open" /\ Cardinality(seen[t]) = Len(Models)
  /\ \A x \in seen[t] : x[2] # "absent"
  /\ Goes(t, "prune")
  /\ doomed' = [doomed EXCEPT ![t] = UNION {{d} \X Present(d) : d \in Stale}]
  /\ UNCHANGED <<release, disk, lock, kills, copied, temporary, seen, refused, refusals, disturbed>>

Pruned(t) ==
  /\ pc[t] = "prune" /\ doomed[t] = {}
  /\ disk' = [d \in {e \in DOMAIN disk : e \in Stale => Occupied(e)} |-> disk[d]]
  /\ Goes(t, "running")
  /\ UNCHANGED <<release, lock, kills, copied, temporary, doomed, seen, refused, refusals, disturbed>>

(* The engine is closed, or the call has failed and may be made again.     *)
Close(t) ==
  /\ pc[t] \in {"running", "failed"}
  /\ Goes(t, "idle")
  /\ copied' = [copied EXCEPT ![t] = 0]
  /\ temporary' = [temporary EXCEPT ![t] = Nobody]
  /\ seen' = [seen EXCEPT ![t] = {}]
  /\ refused' = [refused EXCEPT ![t] = FALSE]
  /\ disturbed' = [disturbed EXCEPT ![t] = FALSE]
  /\ UNCHANGED <<release, disk, lock, kills, refusals, doomed>>

(* The process is gone between two file operations.  Before the next one   *)
(* starts the application may have been replaced by any release.           *)
Kill ==
  /\ kills < MaxKills /\ kills' = kills + 1
  /\ pc' = [t \in Threads |-> "idle"]
  /\ lock' = Nobody
  /\ copied' = [t \in Threads |-> 0]
  /\ temporary' = [t \in Threads |-> Nobody]
  /\ doomed' = [t \in Threads |-> {}]
  /\ seen' = [t \in Threads |-> {}]
  /\ refused' = [t \in Threads |-> FALSE]
  /\ disturbed' = [t \in Threads |-> FALSE]
  /\ release' \in Releases
  /\ UNCHANGED <<disk, refusals>>

Install(t) ==
  \/ Acquire(t) \/ Check(t) \/ CheckRefused(t) \/ Replaced(t) \/ Prepare(t) \/ PrepareRefused(t)
  \/ BeginCopy(t) \/ EndCopy(t) \/ CopyRefused(t) \/ Commit(t) \/ CommitFails(t)
  \/ CleanedUp(t)
Create(t) ==
  \/ Start(t) \/ Install(t) \/ DeleteFile(t)
  \/ OpenModel(t) \/ OpenFails(t) \/ Opened(t) \/ Pruned(t) \/ Close(t)
Next == Kill \/ \E t \in Threads : Create(t)
Spec == Init /\ [][Next]_vars

-----------------------------------------------------------------------------
(* nativeCreate never reads a model that is missing or short, whatever a   *)
(* kill left behind, whoever prunes meanwhile, and whichever release comes *)
(* back (isCachedModelsValid, the rename, and the lock): but for a create  *)
(* that was opening a whole cache when the check of another was refused a  *)
(* read, which deletes the cache under it.                                 *)
OpensWholeModels ==
  \A t \in Threads : pc[t] \in {"open", "prune", "running"} /\ ~disturbed[t] =>
    \A x \in seen[t] : x[2] = "whole"

(* createInternal fails only where the system refused it something in this *)
(* very call, or refused the check of another while this one was opening:  *)
(* no state of the disk, left by a kill, by a failed install or by a       *)
(* half-pruned or half-replaced cache, keeps the engine from being created.*)
FailsOnlyWhenRefused ==
  \A t \in Threads : pc[t] = "failed" => refused[t] \/ disturbed[t]
=============================================================================
