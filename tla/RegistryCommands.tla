--------------------------- MODULE RegistryCommands ---------------------------
(***************************************************************************)
(* Who calls the registry: the desktop application, whose process keeps    *)
(* one Registry, and the commands of hivebear-cli (registry_commands.rs),  *)
(* each a process that makes its own, asks one thing of it and exits.      *)
(***************************************************************************)
EXTENDS Registry

CONSTANT Shells  \* tasks that are command lines, each a process of its own

ASSUME RegistryCommandsAssumption ==
  /\ Shells \subseteq Tasks
  /\ \A t \in Shells : \A u \in Tasks \ {t} : ProcOf[u] # ProcOf[t]

VARIABLE shell  \* command line |-> "none", or a command: "made" its registry, "asked"

shellVars == <<registryVars, shell>>

ProcsOf(ts) == {ProcOf[t] : t \in ts}

-----------------------------------------------------------------------------
(* The application: its commands, and the tokenizer of a model it loads *)

AppCall(t) ==
  /\ t \notin Shells
  /\ \/ \E id \in Models : Install(t, id, AnyFile)
     \/ \E id \in Ids : EnsureTokenizer(t, id) \/ RemoveModel(t, id)
     \/ \E id \in Ids \cup Blobs : RemoveEntry(t, id)
     \/ Scan(t) \/ Search(t)
  /\ UNCHANGED shell

\* Only the application can cancel a download; a command is killed.
AppCancel(t) == t \notin Shells /\ Cancel(t) /\ UNCHANGED shell

AppRestarts(p) == p \notin ProcsOf(Shells) /\ Restart(p) /\ UNCHANGED shell

-----------------------------------------------------------------------------
(* A command *)

\* make_registry: Registry::new loads the index that is saved; it reconciles before
\* anything is asked.
MakeRegistry(t) ==
  /\ shell[t] = "none" /\ calls < MaxCalls
  /\ index' = [index EXCEPT ![P(t)] = saved]
  /\ Becomes(t, [at |-> "new"])
  /\ shell' = [shell EXCEPT ![t] = "made"]
  /\ UNCHANGED <<disk, blobs, saved, lock, calls, outside, cancelled>>

\* The process ends, and its registry with it.
Ends(t) ==
  /\ shell' = [shell EXCEPT ![t] = "none"]
  /\ index' = [index EXCEPT ![P(t)] = Empty]

Asks(t) == shell[t] = "made" /\ shell' = [shell EXCEPT ![t] = "asked"]

\* Without a preference the files are shown first, an error is passed over.
CmdInstall(t, id, want) == Asks(t) /\ Install(t, id, want)

CmdSearch(t) == Asks(t) /\ Search(t)

CmdList(t) == Asks(t) /\ Scan(t)

\* Once the user has confirmed it.
CmdRemove(t, id) == Asks(t) /\ (RemoveEntry(t, id) \/ RemoveModel(t, id))

\* The report, and if it could be made and that was asked for, the cleanup.
CmdStorage(t) == Asks(t) /\ CleanupPartial(t)

CmdImportOllama(t, b) == Asks(t) /\ ImportOllama(t, b)

\* The call has ended, or there was none to make: declined, refused or only shown.
Exits(t) ==
  /\ shell[t] # "none" /\ task[t] = Idle
  /\ Ends(t)
  /\ UNCHANGED <<disk, blobs, saved, lock, task, calls, outside, cancelled>>

\* A command is killed in the middle of its call.
Killed(t) ==
  /\ shell[t] # "none" /\ task[t] # Idle /\ Outside
  /\ Becomes(t, Idle)
  /\ lock' = [lock EXCEPT ![P(t)] = NoTask]
  /\ Ends(t)
  /\ UNCHANGED <<disk, blobs, saved, calls, cancelled>>

-----------------------------------------------------------------------------
RegistryInit ==
  /\ InitWith(ProcsOf(Tasks \ Shells))
  /\ shell = [t \in Shells |-> "none"]

Command(t) ==
  \/ MakeRegistry(t) \/ Exits(t) \/ Killed(t)
  \/ \E id \in Models, want \in Ggufs \cup {AnyFile} : CmdInstall(t, id, want)
  \/ \E id \in Ids \cup Blobs : CmdRemove(t, id)
  \/ \E b \in Blobs : CmdImportOllama(t, b)
  \/ CmdList(t) \/ CmdSearch(t) \/ CmdStorage(t)

\* What goes on of itself leaves the command lines where they are.
Apart == UNCHANGED shell

RegistryNext ==
  \/ \E f \in Here : \/ UserCopies(f) /\ Apart
                     \/ UserDeletes(f) /\ Apart
  \/ \E b \in Blobs : OllamaChanges(b) /\ Apart
  \/ \E t \in Tasks : \/ AppCall(t)
                      \/ AppCancel(t)
                      \/ Look(t) /\ Apart
                      \/ Fresh(t) /\ Apart
                      \/ FilesListed(t) /\ Apart
                      \/ Loaded(t) /\ Apart
                      \/ LoadFails(t) /\ Apart
                      \/ Tokenize(t) /\ Apart
                      \/ HasTokenizer(t) /\ Apart
                      \/ Record(t) /\ Apart
                      \/ ScanFirst(t) /\ Apart
                      \/ Merge(t) /\ Apart
                      \/ DeleteFiles(t) /\ Apart
                      \/ Forget(t) /\ Apart
                      \/ Answered(t) /\ Apart
                      \/ SearchEnds(t) /\ Apart
  \/ \E p \in Procs : AppRestarts(p)
  \/ \E t \in Shells : Command(t)

\* Tasks run, downloads time out, and the mutex is first come, first served; an answer
\* of Hugging Face to any other request need not come.
RegistrySpec == RegistryInit /\ [][RegistryNext]_shellVars /\ \A t \in Tasks : WF_registryVars(Step(t))

===============================================================================
