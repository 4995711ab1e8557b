------------------------------- MODULE Registry -------------------------------
(***************************************************************************)
(* The models a user has: the files below models_dir, registry.json, and   *)
(* the copy of it each process holds, as hivebear-registry changes them    *)
(* (registry/mod.rs, registry/local.rs, storage.rs, and ollama_lib.rs).    *)
(* Calls run concurrently in the desktop application, and a command line   *)
(* shares the disk with it: RegistryCommands.tla has the two callers.       *)
(*                                                                         *)
(* A model's id is the path of its directory below models_dir: an id of a  *)
(* Hugging Face repository, "owner/name", has two parts.  A download is    *)
(* what Download.tla shows a call to do: it leaves the file, or its        *)
(* partial with its meta, or nothing.                                      *)
(***************************************************************************)
EXTENDS Naturals, FiniteSets, Sequences, SequencesExt

CONSTANTS
  Procs,       \* processes; one index each, behind a mutex
  Tasks,       \* tasks of all processes, which run one call at a time
  ProcOf,      \* task |-> process
  Models,      \* ids that are installed
  Ggufs,       \* names of the GGUF files of a repository
  Shard,       \* 0, or the number of the shard
  Weight,      \* location |-> size
  Blobs,       \* ids of the models Ollama has
  Starts,      \* what may be on disk when it starts: sets of locations
  Candidates,  \* repositories a tokenizer is looked for in
  MaxCalls,    \* bound: calls
  MaxOutside,  \* bound: crashes, and files copied or deleted by the user
  NoTask, NoEntry, NoFile, AnyFile

Tokenizer == "tokenizer.json"
Names == Ggufs \cup {Tokenizer}
Here == [dir : Models, name : Names]
Tops == {SubSeq(m, 1, 1) : m \in Models}
Ids == Models \cup Tops

\* An entry: whether it has metadata worth keeping, and the file it names.
\* An imported model's path is its blob, and the file is looked for below it.
Misplaced == [dir |-> <<>>, name |-> Tokenizer]
Listed == [worth : BOOLEAN, file : Here \cup {NoFile, Misplaced}]

ASSUME RegistryAssumption ==
  /\ ProcOf \in [Tasks -> Procs] /\ NoTask \notin Tasks
  /\ \A m \in Models : Len(m) \in {1, 2}
  /\ Tokenizer \notin Ggufs /\ Shard \in [Ggufs -> Nat]
  /\ IsFiniteSet(Here) /\ Weight \in [Here -> Nat]
  /\ \A f, g \in Here : Weight[f] = Weight[g] => f = g
  /\ Blobs \cap Ids = {} /\ MaxCalls \in Nat /\ MaxOutside \in Nat
  /\ Starts \subseteq SUBSET Here /\ Candidates \in Nat \ {0}
  /\ NoFile \notin Here /\ NoEntry \notin Listed /\ AnyFile \notin Ggufs

VARIABLES
  whole,     \* locations of complete files
  partial,   \* locations F for which there is an F.partial
  meta,      \* and those for which there is an F.partial.meta
  blobs,     \* models whose blob Ollama has
  index,     \* process |-> the entries of its LocalIndex
  saved,     \* the entries in registry.json
  lock,      \* process |-> the task that holds its index over an await
  task,      \* task |-> its call
  calls, outside,
  cancelled  \* tasks that were told their download is cancelled

disk == <<whole, partial, meta>>
registryVars == <<disk, blobs, index, saved, lock, task, calls, outside, cancelled>>

Entries == Listed \cup {NoEntry}
Installed(entry) == entry # NoEntry /\ entry.file # NoFile
Idle == [at |-> "idle"]
Below(id) == {f \in Here : IsPrefix(id, f.dir)}

-----------------------------------------------------------------------------
(* What is found on disk.                                                  *)

\* pick_gguf: the largest single file, or else the first shard.
Picked(found) ==
  LET single == {f \in found : Shard[f.name] = 0}
  IN IF found = {} THEN NoFile
     ELSE IF single # {} THEN CHOOSE f \in single : \A g \in single : Weight[g] <= Weight[f]
     ELSE CHOOSE f \in found : \A g \in found : Shard[f.name] <= Shard[g.name]

\* discover_models: one model for each directory in models_dir, at any depth.
Discovered == [id \in Tops |-> Picked({f \in whole \cap Below(id) : f.name \in Ggufs})]

\* A slip: an entry is trusted without a look at its file.
AdoptedBlindly(old, id, found) ==
  IF found = NoFile \/ Installed(old) THEN old
  ELSE [worth |-> IF old = NoEntry THEN FALSE ELSE old.worth, file |-> found]
\* A slip: what the scan found takes the place of what the user chose.
AdoptedAlways(old, id, found) ==
  IF found = NoFile THEN old
  ELSE [worth |-> IF old = NoEntry THEN FALSE ELSE old.worth, file |-> found]
\* The first loop of reconcile: an entry that points at a real file is kept.
Adopted(old, id, found) ==
  IF found = NoFile \/ (Installed(old) /\ old.file \in whole) THEN old
  ELSE [worth |-> IF old = NoEntry THEN FALSE ELSE old.worth, file |-> found]

\* The second: entries below models_dir without a file are hidden, those that
\* were only adopted forgotten.
Hidden(old, id, found) ==
  IF ~Installed(old) \/ found # NoFile \/ old.file \in whole THEN old
  ELSE IF old.worth THEN [old EXCEPT !.file = NoFile] ELSE NoEntry

Reconciled(entries, snap) ==
  LET found(id) == IF id \in Tops THEN snap[id] ELSE NoFile
  IN [id \in DOMAIN entries |->
        IF id \in Blobs THEN entries[id]
        ELSE Hidden(Adopted(entries[id], id, found(id)), id, found(id))]

\* resolve: the file of an entry, if it is there, or what a scan finds below a
\* directory of that name.
Resolved(entries, id) ==
  IF Installed(entries[id]) /\ entries[id].file \in whole THEN entries[id].file
  ELSE IF id \in Tops THEN Discovered[id] ELSE NoFile

\* The orphaned directories of StorageManager::report: not of an entry, and
\* nothing is being downloaded to them.
Orphaned(entries) ==
  {id \in Tops : /\ ~Installed(entries[id])
                 /\ whole \cap Below(id) # {} /\ partial \cap Below(id) = {}}

\* interrupted_download: what can be resumed, any of which may have got furthest.
Resumable(id) == partial \cap meta \cap Below(id)

-----------------------------------------------------------------------------
(* Calls.                                                                  *)

P(t) == ProcOf[t]
Free(t) == lock[P(t)] = NoTask
Becomes(t, call) == task' = [task EXCEPT ![t] = call]
\* The lock is taken for a change of the index that is saved at once.
SaveIndex(t, entries) ==
  /\ index' = [index EXCEPT ![P(t)] = entries]
  /\ saved' = entries

Begin(t, call) ==
  /\ task[t] = Idle /\ calls < MaxCalls
  /\ calls' = calls + 1
  /\ Becomes(t, call)
  /\ cancelled' = cancelled \ {t}

\* install, up to the test that the model is not installed.
Install(t, id, want) ==
  /\ Free(t) /\ ~Installed(index[P(t)][id])
  /\ Begin(t, [at |-> "look", id |-> id, want |-> want])
  /\ UNCHANGED <<disk, blobs, index, saved, lock, outside>>

\* Locations two tasks may be writing to.
Busy == {task[t].file : t \in {u \in Tasks : task[u].at = "loading"}}

\* download of f begins: its meta is written, its partial opened.
StartLoad(t, f, stage) ==
  /\ Becomes(t, [at |-> "loading", id |-> task[t].id, file |-> f, stage |-> stage])
  /\ partial' = partial \cup {f} /\ meta' = meta \cup {f}

\* An interrupted download is resumed, unless a file was asked for.
Look(t) ==
  /\ task[t].at = "look"
  /\ IF task[t].want = AnyFile /\ Resumable(task[t].id) # {}
     THEN \E f \in Resumable(task[t].id) : StartLoad(t, f, "resume")
     ELSE Becomes(t, [task[t] EXCEPT !.at = "fresh"]) /\ UNCHANGED <<partial, meta>>
  /\ UNCHANGED <<whole, blobs, index, saved, lock, calls, outside, cancelled>>

\* The repository's file to download: the one asked for, one whose partial is
\* there, or the one pick_file prefers.
ToLoad(t) ==
  LET id == task[t].id
      begun == {f \in partial : f.dir = id /\ f.name \in Ggufs}
  IN IF task[t].want # AnyFile THEN {[dir |-> id, name |-> task[t].want]}
     ELSE IF begun # {} THEN begun
     ELSE [dir : {id}, name : Ggufs]

\* resolve_hf_repo looks a plain id up in the index,
Fresh(t) ==
  /\ task[t].at = "fresh" /\ (Len(task[t].id) = 1 => Free(t))
  /\ Becomes(t, [task[t] EXCEPT !.at = "asking"])
  /\ UNCHANGED <<disk, blobs, index, saved, lock, calls, outside, cancelled>>

\* and Hugging Face is asked for the repository's files, for as long as it takes:
\* the requests have no time-out.  The download begins, or they failed.
FilesListed(t) ==
  /\ task[t].at = "asking"
  /\ \/ \E f \in ToLoad(t) : StartLoad(t, f, "fresh")
     \/ Becomes(t, Idle) /\ UNCHANGED <<partial, meta>>
  /\ UNCHANGED <<whole, blobs, index, saved, lock, calls, outside, cancelled>>

\* The call after its download: of the model's file f, with what entry is to
\* be made for it.
Then(t, at, f, made) ==
  [at |-> at, id |-> task[t].id, file |-> f, made |-> made, left |-> Candidates]
Done(t, made) == IF made = "none" THEN Idle ELSE Then(t, "record", task[t].model, made)

\* fetch_tokenizer: after the model comes its tokenizer, if it is not there.
Tokenize(t) ==
  LET f == [dir |-> task[t].id, name |-> Tokenizer] IN
  /\ task[t].at = "tokenize" /\ f \notin whole
  /\ Becomes(t, [at |-> "loading", id |-> task[t].id, file |-> f, stage |-> "tokenizer",
                 model |-> task[t].file, made |-> task[t].made, left |-> task[t].left - 1])
  /\ partial' = partial \cup {f} /\ meta' = meta \cup {f}
  /\ UNCHANGED <<whole, blobs, index, saved, lock, calls, outside, cancelled>>
HasTokenizer(t) ==
  /\ task[t].at = "tokenize"
  /\ [dir |-> task[t].id, name |-> Tokenizer] \in whole
  /\ Becomes(t, IF task[t].made = "none" THEN Idle ELSE [task[t] EXCEPT !.at = "record"])
  /\ UNCHANGED <<disk, blobs, index, saved, lock, calls, outside, cancelled>>

\* A resumed model is listed under its bare id, if it is new; one from the
\* repository with what is known of that.
AfterLoad(t) ==
  CASE task[t].stage = "resume" -> Then(t, "record", task[t].file, "bare")
    [] task[t].stage = "fresh" -> Then(t, "tokenize", task[t].file, "known")
    [] task[t].stage = "tokenizer" -> Done(t, task[t].made)
\* A resumption that fails is followed by a fresh download; a tokenizer is
\* tried elsewhere, and done without in the end.
AfterFailure(t) ==
  CASE task[t].stage = "resume" -> [at |-> "fresh", id |-> task[t].id, want |-> AnyFile]
    [] task[t].stage = "fresh" -> Idle
    [] task[t].stage = "tokenizer" ->
         IF task[t].left = 0 THEN Done(t, task[t].made)
         ELSE [Then(t, "tokenize", task[t].model, task[t].made) EXCEPT !.left = task[t].left]

\* The rename finds the partial.
Promotable(t) == task[t].file \in partial

\* download ends well, and the size of the file is read.
Loaded(t) ==
  /\ task[t].at = "loading" /\ Promotable(t)
  /\ whole' = whole \cup {task[t].file}
  /\ partial' = partial \ {task[t].file} /\ meta' = meta \ {task[t].file}
  /\ Becomes(t, AfterLoad(t))
  /\ UNCHANGED <<blobs, index, saved, lock, calls, outside, cancelled>>

\* It fails: what there is of the file is kept, unless that is nothing.
LoadFails(t) ==
  /\ task[t].at = "loading"
  /\ Becomes(t, AfterFailure(t))
  /\ \/ UNCHANGED <<partial, meta>>
     \/ partial' = partial \ {task[t].file} /\ meta' = meta \ {task[t].file}
  /\ UNCHANGED <<whole, blobs, index, saved, lock, calls, outside, cancelled>>

\* cancel_download told the download of the model; the tokenizer's has another
\* key.
Cancel(t) ==
  /\ task[t].at = "loading" /\ task[t].stage # "tokenizer"
  /\ cancelled' = cancelled \cup {t}
  /\ partial' = partial \ {task[t].file} /\ meta' = meta \ {task[t].file}
  /\ Becomes(t, AfterFailure(t))
  /\ UNCHANGED <<whole, blobs, index, saved, lock, calls, outside>>

\* The end of install: the index has the model.
Record(t) ==
  /\ task[t].at = "record" /\ Free(t)
  /\ LET old == index[P(t)][task[t].id]
     IN SaveIndex(t, [index[P(t)] EXCEPT ![task[t].id] =
                    [worth |-> IF old = NoEntry THEN task[t].made = "known" ELSE old.worth,
                     file |-> task[t].file]])
  /\ Becomes(t, Idle)
  /\ UNCHANGED <<disk, blobs, lock, calls, outside, cancelled>>

\* ensure_tokenizer, for an installed model of a known repository.
EnsureTokenizer(t, id) ==
  /\ Free(t) /\ Installed(index[P(t)][id]) /\ index[P(t)][id].worth
  /\ LET f == index[P(t)][id].file IN
     /\ f \in whole /\ [dir |-> f.dir, name |-> Tokenizer] \notin whole
     /\ Begin(t, [at |-> "tokenize", id |-> f.dir, file |-> f, made |-> "none",
                     left |-> Candidates])
  /\ UNCHANGED <<disk, blobs, index, saved, lock, outside>>

\* list_installed reconciles first: the scan, without the lock,
Scan(t) ==
  /\ Begin(t, [at |-> "scanned", snap |-> Discovered])
  /\ UNCHANGED <<disk, blobs, index, saved, lock, outside>>
\* Registry::new reconciles, too.
ScanFirst(t) ==
  /\ task[t].at = "new"
  /\ Becomes(t, [at |-> "scanned", snap |-> Discovered])
  /\ UNCHANGED <<disk, blobs, index, saved, lock, calls, outside, cancelled>>
\* and what it found.
Merge(t) ==
  /\ task[t].at = "scanned" /\ Free(t)
  /\ LET entries == Reconciled(index[P(t)], task[t].snap)
     IN IF entries = index[P(t)] THEN UNCHANGED <<index, saved>> ELSE SaveIndex(t, entries)
  /\ Becomes(t, Idle)
  /\ UNCHANGED <<disk, blobs, lock, calls, outside, cancelled>>

\* remove holds the lock while it deletes the directory, which may fail half-way,
RemoveModel(t, id) ==
  /\ Free(t) /\ Installed(index[P(t)][id]) /\ id \in Ids
  /\ Begin(t, [at |-> "removing", id |-> id])
  /\ lock' = [lock EXCEPT ![P(t)] = t]
  /\ UNCHANGED <<disk, blobs, index, saved, outside>>
DeleteFiles(t) ==
  /\ task[t].at = "removing"
  /\ \/ /\ whole' = whole \ Below(task[t].id)
        /\ partial' = partial \ Below(task[t].id) /\ meta' = meta \ Below(task[t].id)
        /\ Becomes(t, [task[t] EXCEPT !.at = "removed"])
        /\ UNCHANGED lock
     \/ /\ \E rest \in SUBSET (whole \cap Below(task[t].id)) : whole' = whole \ rest
        /\ Becomes(t, Idle)
        /\ lock' = [lock EXCEPT ![P(t)] = NoTask]
        /\ UNCHANGED <<partial, meta>>
  /\ UNCHANGED <<blobs, index, saved, calls, outside, cancelled>>
\* and then takes the entry out.
Forget(t) ==
  /\ task[t].at = "removed"
  /\ SaveIndex(t, [index[P(t)] EXCEPT ![task[t].id] = NoEntry])
  /\ Becomes(t, Idle)
  /\ lock' = [lock EXCEPT ![P(t)] = NoTask]
  /\ UNCHANGED <<disk, blobs, calls, outside, cancelled>>
\* Of what is not installed there is the entry alone; the blob of an imported
\* model is no directory, and as long as it is there the call fails.
RemoveEntry(t, id) ==
  /\ task[t] = Idle /\ calls < MaxCalls /\ Free(t)
  /\ index[P(t)][id] # NoEntry
  /\ IF id \in Blobs THEN id \notin blobs ELSE ~Installed(index[P(t)][id])
  /\ SaveIndex(t, [index[P(t)] EXCEPT ![id] = NoEntry])
  /\ calls' = calls + 1
  /\ UNCHANGED <<disk, blobs, lock, task, outside, cancelled>>

\* import_ollama
ImportOllama(t, b) ==
  /\ task[t] = Idle /\ calls < MaxCalls /\ Free(t)
  /\ b \in blobs
  /\ SaveIndex(t, [index[P(t)] EXCEPT ![b] = [worth |-> TRUE, file |-> Misplaced]])
  /\ calls' = calls + 1
  /\ UNCHANGED <<disk, blobs, lock, task, outside, cancelled>>

\* search waits for Hugging Face with the index locked, for as long as it takes.
Search(t) ==
  /\ Free(t)
  /\ Begin(t, [at |-> "searching"])
  /\ lock' = [lock EXCEPT ![P(t)] = t]
  /\ UNCHANGED <<disk, blobs, index, saved, outside>>
\* A slip: the lock is not dropped before it is taken again.
AnsweredHolding(t) ==
  /\ task[t].at = "searching"
  /\ Becomes(t, [at |-> "found"])
  /\ UNCHANGED <<disk, blobs, index, saved, lock, calls, outside, cancelled>>
\* The answer, or an error that counts for an empty one; the lock is dropped,
Answered(t) ==
  /\ task[t].at = "searching"
  /\ Becomes(t, [at |-> "found"])
  /\ lock' = [lock EXCEPT ![P(t)] = NoTask]
  /\ UNCHANGED <<disk, blobs, index, saved, calls, outside, cancelled>>
\* and taken again to see which of the models found are installed.
SearchEnds(t) ==
  /\ task[t].at = "found" /\ Free(t)
  /\ Becomes(t, Idle)
  /\ UNCHANGED <<disk, blobs, index, saved, lock, calls, outside, cancelled>>

\* cleanup_partial: files that have not been written for long, of models whose
\* id has one part; a meta, written once, may be old when its partial is not.
CleanupPartial(t) ==
  /\ task[t] = Idle /\ calls < MaxCalls
  /\ calls' = calls + 1
  /\ \E old \in SUBSET {f \in partial \ Busy : Len(f.dir) = 1},
        bare \in SUBSET {f \in meta \ Busy : Len(f.dir) = 1} :
       partial' = partial \ old /\ meta' = meta \ bare
  /\ UNCHANGED <<whole, blobs, index, saved, lock, task, outside, cancelled>>

-----------------------------------------------------------------------------
(* The world outside.                                                      *)

Outside == outside < MaxOutside /\ outside' = outside + 1

UserCopies(f) ==
  /\ Outside /\ f \notin whole
  /\ whole' = whole \cup {f}
  /\ UNCHANGED <<partial, meta, blobs, index, saved, lock, task, calls, cancelled>>
UserDeletes(f) ==
  /\ Outside /\ f \in whole
  /\ whole' = whole \ {f}
  /\ UNCHANGED <<partial, meta, blobs, index, saved, lock, task, calls, cancelled>>
OllamaChanges(b) ==
  /\ Outside
  /\ blobs' = IF b \in blobs THEN blobs \ {b} ELSE blobs \cup {b}
  /\ UNCHANGED <<disk, index, saved, lock, task, calls, cancelled>>

\* The application ends and starts again: Registry::new loads and reconciles before
\* any of its calls, while no command runs.
Restart(p) ==
  /\ Outside
  /\ LET entries == Reconciled(saved, Discovered)
     IN index' = [index EXCEPT ![p] = entries] /\ saved' = entries
  /\ lock' = [lock EXCEPT ![p] = NoTask]
  /\ task' = [t \in Tasks |-> IF P(t) = p THEN Idle ELSE task[t]]
  /\ UNCHANGED <<disk, blobs, calls, cancelled>>

-----------------------------------------------------------------------------
Empty == [id \in Ids \cup Blobs |-> NoEntry]

\* Registry::new in the processes that run, without an index and with the files
\* there may be.
InitWith(running) ==
  /\ whole \in Starts /\ partial = {} /\ meta = {} /\ blobs = Blobs
  /\ saved = Reconciled(Empty, Discovered)
  /\ index = [p \in Procs |-> IF p \in running THEN saved ELSE Empty]
  /\ lock = [p \in Procs |-> NoTask]
  /\ task = [t \in Tasks |-> Idle]
  /\ calls = 0 /\ outside = 0 /\ cancelled = {}

\* A call goes on of itself, or by a request that has a time-out: those of downloads.
Step(t) ==
  \/ Look(t) \/ Fresh(t) \/ Loaded(t) \/ LoadFails(t) \/ Tokenize(t) \/ HasTokenizer(t) \/ Record(t)
  \/ ScanFirst(t) \/ Merge(t) \/ DeleteFiles(t) \/ Forget(t) \/ SearchEnds(t)

-----------------------------------------------------------------------------
(* Properties.                                                             *)

\* Idempotent reconciliation: when a call that lists ends and the disk has not
\* changed since its scan, every directory with a complete model is listed and no orphan, and what is
\* listed resolves to the file that is named -- whatever crashes, other
\* processes and the user did before.
InLine(entries) ==
  /\ \A id \in Tops : Discovered[id] # NoFile =>
                      Installed(entries[id]) /\ id \notin Orphaned(entries)
  /\ \A id \in Ids : Installed(entries[id]) => Resolved(entries, id) = entries[id].file
ListIsDisk ==
  [][\A t \in Tasks : /\ task[t].at = "scanned" /\ task[t].snap = Discovered
                      /\ task'[t] = Idle /\ outside' = outside
        => InLine(index'[P(t)])]_registryVars

\* Reconciling, in a call or at a start, never takes another file for one the
\* user installed and still has.
ChoiceKept ==
  [][\A p \in Procs, id \in Ids :
       (/\ Installed(index[p][id]) /\ Installed(index'[p][id])
        /\ index[p][id].file \in whole \cap whole' /\ saved = index[p])
       => \/ index'[p][id].file = index[p][id].file
          \/ \E t \in Tasks : P(t) = p /\ task[t].at = "record"]_registryVars

\* A call ends unless Hugging Face leaves it, or a search of the same process, without
\* an answer for ever: such a search keeps the index locked, but no other call that
\* waits, for files, a download, or another process, is in the way of one.
Siblings(t) == {u \in Tasks : P(u) = P(t)}
AnsweredCallsEnd ==
  \A t \in Tasks :
    (/\ \A u \in Siblings(t) : []<>(task[u].at # "searching")
     /\ []<>(task[t].at # "asking"))
    => []<>(task[t] = Idle)

===============================================================================
