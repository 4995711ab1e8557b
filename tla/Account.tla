------------------------------ MODULE Account ------------------------------
(***************************************************************************)
(* The account a user is signed in to, and the file that keeps it.  The    *)
(* desktop application holds one Config behind a mutex and writes it whole *)
(* to config.toml whenever a command changes it; a command sends its       *)
(* request with the lock released.  The settings page edits a copy of the  *)
(* Config and puts it back whole.  A command of the command line tool is a *)
(* process of its own: it loads the file and writes it back whole.         *)
(* fs::write cuts the file before it writes it: who reads it in between,   *)
(* or after a write that failed or a process that ended there, finds the   *)
(* defaults or a part of what was written.                                 *)
(***************************************************************************)
EXTENDS Naturals

CONSTANTS
  Calls,         \* the account commands the pages start
  Nothing,       \* no settings page, no tool
  MaxTools,      \* how many commands the user types in a terminal
  MaxRestarts    \* how often the application is started again

VARIABLES
  desk,      \* the Config in the application's memory
  file,      \* the Config that config.toml reads as
  saving,    \* the application has the file open and the mutex locked
  ink,       \* what two writes at once may leave, or Nothing
  form,      \* the copy the settings page edits
  keychain,  \* whether the keychain of the system holds the provider's key
  call,      \* where each command is
  tool,      \* the command typed in the terminal
  tools, restarts,
  quietOut,  \* nothing has signed in since an undisturbed logout
  quietIn,   \* nothing has signed out since an undisturbed sign-in, nor cut the file
  kept       \* the user has not given up the key of the old config file, and when it
             \* was in the file alone that was not cut

config == <<desk, file, saving, ink>>
others == <<form, keychain, tool, tools, restarts, kept>>
vars == <<config, others, call, quietOut, quietIn>>

\* Config: whether the account has its tokens, and a provider's key in plain text.
\* The two tokens, the mode, tier, licence and names of an account are stored and
\* dropped together, and the other settings are saved with them.
Configs == [signed : BOOLEAN, key : BOOLEAN]
Default == [signed |-> FALSE, key |-> FALSE]

\* A command of the tool: where it is, and the Config it holds.
Processes == [at : {"asked", "asking", "loaded", "saving"}, config : Configs]
ASSUME AccountAssumption == Nothing \notin Processes

At(c, step) == call[c] = step
Goes(c, step) == call' = [call EXCEPT ![c] = step]
Ends(c) == Goes(c, "done")
InFlight(c) == call[c] \notin {"idle", "done"}

\* What a part of k reads as, and what two writes at once have between them.
Below(k) == {j \in Configs : (j.signed => k.signed) /\ (j.key => k.key)}
Both(j, k) == [signed |-> j.signed \/ k.signed, key |-> j.key \/ k.key]

ToolWriting == tool # Nothing /\ tool.at = "saving"

\* fs::write opens the file, which empties it, while the other process writes k or not.
Opens(cfg, busy, k) ==
  /\ ink' = IF busy THEN Both(IF ink = Nothing THEN k ELSE ink, cfg) ELSE Nothing
  /\ file' = Default

\* It has written all of cfg, or fails on the way.
Closes(cfg, busy) ==
  /\ file' \in Below(IF ink = Nothing THEN cfg ELSE ink)
  /\ ink' = IF busy THEN ink ELSE Nothing

\* Nobody may count on the file who counted on it before.
Meets(torn) == quietIn' = (quietIn /\ ~torn) /\ kept' = (kept /\ (torn => keychain))

\* Config::save, with the config locked; its error is ignored.
Saves(cfg) ==
  /\ ~saving
  /\ desk' = cfg
  /\ (saving' = TRUE /\ Opens(cfg, ToolWriting, tool.config)) \/ UNCHANGED <<file, saving, ink>>

SaveEnds ==
  /\ saving /\ saving' = FALSE
  /\ Closes(desk, ToolWriting)
  /\ Meets(ink # Nothing \/ file' # desk)
  /\ UNCHANGED <<desk, form, keychain, tool, tools, restarts, call, quietOut>>

SaveAuth == Saves([desk EXCEPT !.signed = TRUE])

ClearAuth == Saves([desk EXCEPT !.signed = FALSE])

\* Nothing but command c is under way that may yet write the other value.
Undisturbed(c, signed) ==
  /\ \A d \in Calls \ {c} : ~InFlight(d)
  /\ form # Nothing => form.signed = signed
  /\ tool = Nothing \/ tool.at = "asking"

-----------------------------------------------------------------------------
(* The commands of the account page.                                       *)

\* login and register differ in the names they send along.
Login(c) ==
  /\ At(c, "idle")
  /\ Goes(c, "signin")
  /\ quietOut' = FALSE
  /\ UNCHANGED <<config, others, quietIn>>

ActivateDevice(c) ==
  /\ At(c, "idle")
  /\ Goes(c, "challenge")
  /\ quietOut' = FALSE
  /\ UNCHANGED <<config, others, quietIn>>

\* The signed challenge is sent back; an answer without a nonce is an error.
Challenged(c) ==
  /\ At(c, "challenge")
  /\ Goes(c, "verify") \/ Ends(c)
  /\ UNCHANGED <<config, others, quietOut, quietIn>>

\* The server's tokens or made-up ones are stored, and the hook then looks the account up.
SignsIn(c) ==
  /\ SaveAuth
  /\ quietIn' = (Undisturbed(c, TRUE) /\ (saving' \/ file' = desk'))
  /\ Goes(c, "begin")

\* An answer without both tokens is an error, and so is a refused signature.
SignedIn(c) ==
  /\ At(c, "signin") \/ At(c, "verify")
  /\ SignsIn(c) \/ (Ends(c) /\ UNCHANGED <<config, quietIn>>)
  /\ UNCHANGED <<others, quietOut>>

\* The server cannot be reached or answers with an error: made-up tokens.
Mocked(c) ==
  /\ At(c, "signin") \/ At(c, "challenge")
  /\ SignsIn(c)
  /\ UNCHANGED <<others, quietOut>>

\* The server is told first when there is a token to tell it with.
Logout(c) ==
  /\ At(c, "idle") /\ ~saving /\ desk.signed
  /\ Goes(c, "leave")
  /\ quietIn' = FALSE
  /\ UNCHANGED <<config, others, quietOut>>

\* Slip: the account stays when the server could not be told.
LoggedOutIfTold(c) ==
  /\ At(c, "leave") \/ (At(c, "idle") /\ ~desk.signed)
  /\ ClearAuth \/ UNCHANGED config
  /\ Ends(c)
  /\ quietOut' = (Undisturbed(c, FALSE) /\ (saving' \/ file' = desk'))
  /\ quietIn' = FALSE
  /\ UNCHANGED others

\* Whatever the server said, if it said anything.
LoggedOut(c) ==
  /\ At(c, "leave") \/ (At(c, "idle") /\ ~desk.signed)
  /\ ClearAuth
  /\ Ends(c)
  /\ quietOut' = (Undisturbed(c, FALSE) /\ (saving' \/ file' = desk'))
  /\ quietIn' = FALSE
  /\ UNCHANGED others

\* get_account, when the page opens or after a sign-in.
LookUp(c) ==
  /\ At(c, "idle") \/ At(c, "begin")
  /\ ~saving
  /\ IF desk.signed THEN Goes(c, "me") ELSE Ends(c)
  /\ UNCHANGED <<config, others, quietOut, quietIn>>

\* Answered, lost, or refused as expired: then the refresh token of now is tried.
LookedUp(c) ==
  /\ At(c, "me")
  /\ Ends(c) \/ (~saving /\ desk.signed /\ Goes(c, "refresh"))
  /\ UNCHANGED <<config, others, quietOut, quietIn>>

\* Slip: a refresh that fails drops the account.
RefreshedOrDropped(c) ==
  /\ At(c, "refresh")
  /\ (SaveAuth /\ Goes(c, "retry")) \/ (ClearAuth /\ Ends(c))
  /\ UNCHANGED <<others, quietOut, quietIn>>

\* try_refresh stores the new tokens over whatever was stored meanwhile; without them
\* the page shows what the config remembers.
Refreshed(c) ==
  /\ At(c, "refresh")
  /\ (SaveAuth /\ Goes(c, "retry")) \/ (Ends(c) /\ UNCHANGED config)
  /\ UNCHANGED <<others, quietOut, quietIn>>

\* Slip: the lookup with the renewed token is like the first one.
RetriedAgain(c) ==
  /\ At(c, "retry")
  /\ \/ Goes(c, "me") /\ UNCHANGED <<config, quietIn>>
     \/ Ends(c) /\ ClearAuth /\ quietIn' = FALSE
  /\ UNCHANGED <<others, quietOut>>

\* The new token works, its answer is lost, or the server does not accept it: then the
\* account is dropped, whichever it is by now.
Retried(c) ==
  /\ At(c, "retry")
  /\ UNCHANGED <<config, quietIn>> \/ (ClearAuth /\ quietIn' = FALSE)
  /\ Ends(c)
  /\ UNCHANGED <<others, quietOut>>

\* The usage, checkout and key commands only read the token.
AskServer(c) ==
  /\ At(c, "idle") /\ ~saving
  /\ IF desk.signed THEN Goes(c, "ask") ELSE Ends(c)
  /\ UNCHANGED <<config, others, quietOut, quietIn>>

ServerAnswers(c) ==
  /\ At(c, "ask")
  /\ Ends(c)
  /\ UNCHANGED <<config, others, quietOut, quietIn>>

Proceeds(c) ==
  /\ InFlight(c)
  /\ \/ Challenged(c) \/ SignedIn(c) \/ Mocked(c) \/ LoggedOut(c) \/ LookUp(c)
     \/ LookedUp(c) \/ Refreshed(c) \/ Retried(c) \/ ServerAnswers(c)

Starts(c) ==
  /\ At(c, "idle")
  /\ Login(c) \/ ActivateDevice(c) \/ Logout(c) \/ LoggedOut(c) \/ LookUp(c) \/ AskServer(c)

-----------------------------------------------------------------------------
(* The settings, the mesh page, the keychain and the next start.           *)

OpenSettings ==
  /\ form = Nothing /\ ~saving
  /\ form' = desk
  /\ UNCHANGED <<config, keychain, tool, tools, restarts, kept, call, quietOut, quietIn>>

\* The page is left; what was not saved is dropped with the copy.
CloseSettings ==
  /\ form # Nothing
  /\ form' = Nothing
  /\ UNCHANGED <<config, keychain, tool, tools, restarts, kept, call, quietOut, quietIn>>

\* save_config puts the whole of the page's copy in place of the config.  A copy taken
\* before the user signed in or out undoes that.
SaveSettings ==
  /\ form # Nothing
  /\ \E key \in BOOLEAN :
       /\ form' = [form EXCEPT !.key = key]
       /\ kept' = (kept /\ key = form.key)            \* or the user edited the key
  /\ Saves(form')
  /\ UNCHANGED <<keychain, tool, tools, restarts, call, quietOut, quietIn>>

\* save_mesh_config and start_mesh change the mesh part and save the config.
SaveMesh ==
  /\ Saves(desk)
  /\ UNCHANGED <<others, call, quietOut, quietIn>>

\* Slip: the key leaves the config whether or not the keychain took it.
MigrateEveryKey ==
  /\ desk.key
  /\ keychain' \in {TRUE, keychain}
  /\ Saves([desk EXCEPT !.key = FALSE])
  /\ UNCHANGED <<form, tool, tools, restarts, kept, call, quietOut, quietIn>>

\* migrate_api_keys_to_keychain takes the key out of the config only when the
\* keychain took it.
MigrateKeys ==
  /\ desk.key
  /\ \/ keychain' = TRUE /\ Saves([desk EXCEPT !.key = FALSE])
     \/ UNCHANGED <<config, keychain>>
  /\ UNCHANGED <<form, tool, tools, restarts, kept, call, quietOut, quietIn>>

\* set_cloud_api_key and delete_cloud_api_key.
SetKey ==
  /\ keychain' = TRUE
  /\ UNCHANGED <<config, form, tool, tools, restarts, kept, call, quietOut, quietIn>>

DeleteKey ==
  /\ keychain
  /\ keychain' = FALSE
  /\ kept' = FALSE
  /\ UNCHANGED <<config, form, tool, tools, restarts, call, quietOut, quietIn>>

\* The application ends at any point, a save included; the next one reads the file.
Restart ==
  /\ restarts < MaxRestarts
  /\ restarts' = restarts + 1
  /\ desk' = file
  /\ saving' = FALSE
  /\ ink' = IF ToolWriting THEN ink ELSE Nothing
  /\ form' = Nothing
  /\ call' = [c \in Calls |-> IF InFlight(c) THEN "done" ELSE call[c]]
  /\ Meets(saving \/ ToolWriting)
  /\ UNCHANGED <<file, keychain, tool, tools, quietOut>>

-----------------------------------------------------------------------------
(* The command line tool.                                                  *)

Tool(at, cfg) == [at |-> at, config |-> cfg]

\* A command starts: what it will write, if it already knows.
Types(process) ==
  /\ tool = Nothing /\ tools < MaxTools
  /\ tools' = tools + 1
  /\ tool' = process
  /\ UNCHANGED <<config, form, keychain, restarts, call>>

\* account login and account activate ask the server before they load the file.
ToolSignsIn ==
  /\ Types(Tool("asked", Default))
  /\ quietOut' = FALSE
  /\ UNCHANGED <<kept, quietIn>>

\* A token the answer lacks is stored as an empty one.
ToolSignedIn ==
  /\ tool # Nothing /\ tool.at = "asked"
  /\ \/ tool' = Tool("loaded", [file EXCEPT !.signed = TRUE])
     \/ tool' = Nothing
  /\ Meets(saving)
  /\ UNCHANGED <<config, form, keychain, tools, restarts, call, quietOut>>

\* account logout tells no server.
ToolLogsOut ==
  /\ Types(Tool("loaded", [file EXCEPT !.signed = FALSE]))
  /\ quietIn' = FALSE
  /\ kept' = (kept /\ (saving => keychain))
  /\ UNCHANGED quietOut

\* config reset writes the defaults: the key in the file is given up.
ToolResets ==
  /\ Types(Tool("loaded", Default))
  /\ kept' = (kept /\ keychain)
  /\ quietIn' = FALSE
  /\ UNCHANGED quietOut

\* serve loads the file, loads models, and writes it back with a key for its callers.
ToolServes ==
  /\ Types(Tool("loaded", file))
  /\ Meets(saving)
  /\ UNCHANGED quietOut

\* status, usage, upgrade and api-keys load the file, ask the server and write nothing.
ToolAsks ==
  /\ Types(Tool("asking", file))
  /\ UNCHANGED <<kept, quietOut, quietIn>>

ToolAnswered ==
  /\ tool # Nothing /\ tool.at = "asking"
  /\ tool' = Nothing
  /\ UNCHANGED <<config, form, keychain, tools, restarts, kept, call, quietOut, quietIn>>

ToolSaves ==
  /\ tool # Nothing /\ tool.at = "loaded"
  /\ \/ tool' = Tool("saving", tool.config) /\ Opens(tool.config, saving, desk)
     \/ tool' = Nothing /\ UNCHANGED <<file, ink>>
  /\ UNCHANGED <<desk, saving, form, keychain, tools, restarts, kept, call, quietOut, quietIn>>

\* It is written, or the write fails, or the tool is interrupted.
ToolSaved ==
  /\ ToolWriting
  /\ tool' = Nothing
  /\ Closes(tool.config, saving)
  /\ Meets(ink # Nothing \/ file' # tool.config)
  /\ UNCHANGED <<desk, saving, form, keychain, tools, restarts, call, quietOut>>

-----------------------------------------------------------------------------
\* A config file of an earlier version, with the provider's key in it.
Init ==
  /\ desk = [Default EXCEPT !.key = TRUE]
  /\ file = desk
  /\ saving = FALSE /\ ink = Nothing
  /\ form = Nothing
  /\ keychain = FALSE
  /\ call = [c \in Calls |-> "idle"]
  /\ tool = Nothing
  /\ tools = 0 /\ restarts = 0
  /\ quietOut = FALSE /\ quietIn = FALSE
  /\ kept = TRUE

Next ==
  \/ \E c \in Calls : Starts(c) \/ Proceeds(c)
  \/ OpenSettings \/ CloseSettings \/ SaveSettings \/ SaveMesh \/ SaveEnds
  \/ MigrateKeys \/ SetKey \/ DeleteKey \/ Restart
  \/ ToolSignsIn \/ ToolSignedIn \/ ToolLogsOut \/ ToolResets \/ ToolServes
  \/ ToolAsks \/ ToolAnswered \/ ToolSaves \/ ToolSaved

\* A request is answered or fails in the end, and the code after it then runs; a write
\* returns, and who waits for the mutex gets it in the end.
Spec ==
  /\ Init /\ [][Next]_vars
  /\ WF_vars(SaveEnds)
  /\ \A c \in Calls : SF_vars(Proceeds(c))

-----------------------------------------------------------------------------
\* logout: once one has ended with nothing else under way that holds tokens, the
\* user stays signed out until a sign-in, in memory and in the file, over stops and
\* starts, whatever is looked up, saved or typed meanwhile.
LogoutIsFinal == quietOut => ~desk.signed /\ ~file.signed

\* get_account, try_refresh, the requests: once a sign-in has ended with nothing else
\* under way, only a logout, a server that refuses the renewed token, or a file cut by a
\* write that was not finished, met by another process or met another write, signs the
\* user out: never a lost answer, a failed refresh, a save of the settings or a restart.
SignInLasts == quietIn => desk.signed /\ (file.signed \/ saving \/ ToolWriting)

\* migrate_plaintext_keys: while the user has not given the key up, and its file was not
\* cut, it is in the keychain, in the file the next start reads, or about to be there.
KeyIsKept ==
  kept => \/ keychain \/ file.key
          \/ saving /\ desk.key
          \/ ToolWriting /\ tool.config.key

\* get_account, login: every command ends, whatever the server answers.
CallsEnd == \A c \in Calls : []<>~InFlight(c)

=============================================================================
