--------------------------- MODULE Account_proofs ---------------------------
(***************************************************************************)
(* Proofs about the account for every set of commands and any number of    *)
(* tool commands and restarts.                                             *)
(***************************************************************************)
EXTENDS Account, TLAPS

Steps == {"idle", "signin", "challenge", "verify", "begin", "me", "refresh", "retry",
          "ask", "leave", "done"}

TypeOK ==
  /\ desk \in Configs /\ file \in Configs /\ saving \in BOOLEAN
  /\ ink # Nothing => ink \in Configs /\ (saving \/ ToolWriting)
  /\ form # Nothing => form \in Configs
  /\ tool # Nothing => tool \in Processes
  /\ call \in [Calls -> Steps]
  /\ keychain \in BOOLEAN /\ kept \in BOOLEAN
  /\ quietOut \in BOOLEAN /\ quietIn \in BOOLEAN
  /\ tools \in Nat /\ restarts \in Nat

\* The tool has loaded the file and will write what it holds, or is writing it.
ToolHolds == tool # Nothing /\ tool.at \in {"loaded", "saving"}

\* While a logout is final nothing that may still be saved holds tokens, and no command
\* is in a step that ends with tokens.
StaysOut ==
  /\ ~desk.signed /\ ~file.signed
  /\ form # Nothing => ~form.signed
  /\ tool # Nothing => tool.at # "asked"
  /\ ToolHolds => ~tool.config.signed
  /\ ink # Nothing => ~ink.signed
  /\ \A c \in Calls : call[c] \notin {"signin", "challenge", "verify", "refresh"}

\* While a sign-in lasts everything that may still be saved holds tokens, the file holds
\* them unless one is writing it, and no command is waiting to sign the user out.
StaysIn ==
  /\ desk.signed /\ (file.signed \/ saving \/ ToolWriting)
  /\ form # Nothing => form.signed
  /\ ToolHolds => tool.config.signed
  /\ \A c \in Calls : call[c] # "leave"

\* While the key is not in the keychain everything that may still be saved holds it, and
\* so does the file unless one is writing it.
KeyHeld ==
  /\ desk.key /\ (file.key \/ saving \/ ToolWriting)
  /\ form # Nothing => form.key
  /\ ToolHolds => tool.config.key

Inv ==
  /\ TypeOK
  /\ quietOut => StaysOut
  /\ quietIn => StaysIn
  /\ kept /\ ~keychain => KeyHeld

-----------------------------------------------------------------------------
LEMMA ConfigForms ==
  /\ Default \in Configs /\ ~Default.signed /\ ~Default.key
  /\ \A k \in Configs :
       /\ LET t == [k EXCEPT !.signed = TRUE] IN t \in Configs /\ t.signed /\ t.key = k.key
       /\ LET f == [k EXCEPT !.signed = FALSE] IN f \in Configs /\ ~f.signed /\ f.key = k.key
       /\ LET t == [k EXCEPT !.key = TRUE] IN t \in Configs /\ t.key /\ t.signed = k.signed
       /\ LET f == [k EXCEPT !.key = FALSE] IN f \in Configs /\ ~f.key /\ f.signed = k.signed
  BY DEF Default, Configs

LEMMA ToolForms ==
  \A a \in {"asked", "asking", "loaded", "saving"}, k \in Configs :
    /\ Tool(a, k) \in Processes
    /\ Tool(a, k).at = a
    /\ Tool(a, k).config = k
  BY DEF Tool, Processes

LEMMA Mixed ==
  \A j, k \in Configs :
    Both(j, k) \in Configs /\ (Both(j, k).signed => j.signed \/ k.signed)
<1> SUFFICES ASSUME NEW j \in Configs, NEW k \in Configs
             PROVE  Both(j, k) \in Configs /\ (Both(j, k).signed => j.signed \/ k.signed)
  OBVIOUS
<1>1. (j.signed \/ k.signed) \in BOOLEAN /\ (j.key \/ k.key) \in BOOLEAN
  OBVIOUS
<1>2. Both(j, k) \in Configs
  BY <1>1 DEF Both, Configs
<1>3. Both(j, k).signed = (j.signed \/ k.signed)
  BY DEF Both
<1>4. QED
  BY <1>2, <1>3

\* A file that is opened reads as the defaults.  What may come of it, when the other
\* process writes too, holds tokens only if one of the two writes them.
LEMMA Opened ==
  ASSUME TypeOK, NEW cfg \in Configs, NEW busy \in BOOLEAN, NEW k, busy => k \in Configs,
         Opens(cfg, busy, k)
  PROVE  /\ file' = Default
         /\ ink' # Nothing => busy /\ ink' \in Configs
         /\ ink' # Nothing /\ ink'.signed =>
              cfg.signed \/ (ink # Nothing /\ ink.signed) \/ k.signed
<1>1. file' = Default
  BY DEF Opens
<1>2. CASE ~busy
  BY <1>1, <1>2 DEF Opens
<1>3. CASE busy
  <2> DEFINE old == IF ink = Nothing THEN k ELSE ink
  <2>1. old \in Configs
    BY <1>3 DEF TypeOK
  <2>2. ink' = Both(old, cfg)
    BY <1>3 DEF Opens
  <2>3. old.signed => (ink # Nothing /\ ink.signed) \/ k.signed
    OBVIOUS
  <2> HIDE DEF old
  <2>4. ink' \in Configs /\ (ink'.signed => old.signed \/ cfg.signed)
    BY <2>1, <2>2, Mixed
  <2>5. QED
    BY <1>1, <1>3, <2>3, <2>4
<1>4. QED
  BY <1>2, <1>3

\* A file that is closed holds tokens only if what was written does.
LEMMA Closed ==
  ASSUME TypeOK, NEW cfg \in Configs, NEW busy \in BOOLEAN, Closes(cfg, busy)
  PROVE  /\ file' \in Configs
         /\ ink' = Nothing \/ (ink' = ink /\ busy)
         /\ file'.signed => (ink = Nothing /\ cfg.signed) \/ (ink # Nothing /\ ink.signed)
<1> DEFINE whole == IF ink = Nothing THEN cfg ELSE ink
<1>1. file' \in Configs /\ (file'.signed => whole.signed)
  BY Zenon DEF Closes, Below
<1>2. QED
  BY <1>1 DEF Closes

\* A save puts the new config in memory, and leaves the file as it was or has it open.
SavedAs(k) ==
  /\ desk' = k /\ ~saving /\ saving' \in BOOLEAN
  /\ file' = IF saving' THEN Default ELSE file
  /\ ink' # Nothing => ToolWriting /\ ink' \in Configs
  /\ ink' # Nothing /\ ink'.signed =>
       k.signed \/ (ink # Nothing /\ ink.signed) \/ (ToolWriting /\ tool.config.signed)

LEMMA Saved ==
  ASSUME TypeOK
  PROVE  /\ \A k \in Configs : Saves(k) => SavedAs(k)
         /\ SaveAuth =>
              /\ SavedAs(desk') /\ desk' \in Configs /\ desk'.signed /\ desk'.key = desk.key
         /\ ClearAuth =>
              /\ SavedAs(desk') /\ desk' \in Configs /\ ~desk'.signed /\ desk'.key = desk.key
<1>1. desk \in Configs
  BY DEF TypeOK
<1>2. ASSUME NEW k \in Configs, Saves(k)
      PROVE  SavedAs(k)
  <2>1. desk' = k /\ ~saving
    BY <1>2 DEF Saves
  <2>2. CASE UNCHANGED <<file, saving, ink>>
    BY <2>1, <2>2 DEF SavedAs, TypeOK
  <2>3. CASE saving' = TRUE /\ Opens(k, ToolWriting, tool.config)
    <3>1. ToolWriting \in BOOLEAN
      BY DEF ToolWriting
    <3>2. ToolWriting => tool.config \in Configs
      BY DEF ToolWriting, TypeOK, Processes
    <3>3. /\ file' = Default
          /\ ink' # Nothing => ToolWriting /\ ink' \in Configs
          /\ ink' # Nothing /\ ink'.signed =>
               k.signed \/ (ink # Nothing /\ ink.signed) \/ tool.config.signed
      BY <2>3, <3>1, <3>2, Opened
    <3>4. QED
      BY <2>1, <2>3, <3>3 DEF SavedAs
  <2>4. QED
    BY <1>2, <2>2, <2>3 DEF Saves
<1> DEFINE in == [desk EXCEPT !.signed = TRUE]
           out == [desk EXCEPT !.signed = FALSE]
<1>3. /\ in \in Configs /\ in.signed /\ in.key = desk.key
      /\ out \in Configs /\ ~out.signed /\ out.key = desk.key
  BY <1>1, ConfigForms, Zenon
<1>4. (SaveAuth => Saves(in)) /\ (ClearAuth => Saves(out))
  BY DEF SaveAuth, ClearAuth
<1> HIDE DEF in, out
<1>5. (SaveAuth => SavedAs(in)) /\ (ClearAuth => SavedAs(out))
  BY <1>2, <1>3, <1>4
<1>6. (SaveAuth => desk' = in) /\ (ClearAuth => desk' = out)
  BY <1>5 DEF SavedAs
<1>7. QED
  BY <1>2, <1>3, <1>5, <1>6

\* So what a save leaves has its type,
LEMMA SavedType ==
  ASSUME TypeOK, NEW k \in Configs, SavedAs(k), tool' = tool
  PROVE  /\ desk' \in Configs /\ file' \in Configs /\ saving' \in BOOLEAN
         /\ ink' # Nothing => ink' \in Configs /\ (saving' \/ ToolWriting')
<1>1. ToolWriting' = ToolWriting
  BY DEF ToolWriting
<1>2. QED
  BY <1>1, ConfigForms DEF TypeOK, SavedAs

\* no tokens when it was to hold none,
LEMMA SavedOut ==
  ASSUME StaysOut, NEW k \in Configs, ~k.signed, SavedAs(k)
  PROVE  ~desk'.signed /\ ~file'.signed /\ (ink' # Nothing => ~ink'.signed)
BY ConfigForms DEF StaysOut, SavedAs, ToolHolds, ToolWriting

\* and what it was to hold unless it is being written.
LEMMA SavedIn ==
  ASSUME StaysIn, NEW k \in Configs, k.signed, SavedAs(k), tool' = tool
  PROVE  desk'.signed /\ (file'.signed \/ saving' \/ ToolWriting')
BY DEF StaysIn, SavedAs, ToolWriting

LEMMA SavedKey ==
  ASSUME KeyHeld, NEW k \in Configs, k.key, SavedAs(k), tool' = tool
  PROVE  desk'.key /\ (file'.key \/ saving' \/ ToolWriting')
BY DEF KeyHeld, SavedAs, ToolWriting

\* A step of a command moves that command alone, and leaves the config or sets or drops
\* the tokens.
LEMMA CommandStep ==
  ASSUME NEW c \in Calls, Starts(c) \/ Proceeds(c)
  PROVE  /\ UNCHANGED others
         /\ UNCHANGED config \/ SaveAuth \/ ClearAuth
         /\ \E s \in Steps : Goes(c, s)
<1> USE DEF Ends, Steps
<1>1. CASE Login(c) \/ ActivateDevice(c) \/ Challenged(c) \/ Logout(c)
  BY <1>1 DEF Login, ActivateDevice, Challenged, Logout, config
<1>2. CASE SignedIn(c) \/ Mocked(c)
  BY <1>2 DEF SignedIn, Mocked, SignsIn, config
<1>3. CASE LoggedOut(c) \/ Refreshed(c) \/ Retried(c)
  BY <1>3 DEF LoggedOut, Refreshed, Retried, config
<1>4. CASE LookUp(c) \/ LookedUp(c) \/ AskServer(c) \/ ServerAnswers(c)
  BY <1>4 DEF LookUp, LookedUp, AskServer, ServerAnswers, config
<1>5. QED
  BY <1>1, <1>2, <1>3, <1>4 DEF Starts, Proceeds

LEMMA Moves ==
  ASSUME TypeOK, NEW c \in Calls, NEW s \in Steps, Goes(c, s)
  PROVE  /\ call' \in [Calls -> Steps]
         /\ call'[c] = s
         /\ \A d \in Calls \ {c} : call'[d] = call[d]
  BY DEF TypeOK, Goes

\* The steps of everything but the commands of the page.
Elsewhere ==
  \/ OpenSettings \/ CloseSettings \/ SaveSettings \/ SaveMesh \/ SaveEnds
  \/ MigrateKeys \/ SetKey \/ DeleteKey \/ Restart
  \/ ToolSignsIn \/ ToolSignedIn \/ ToolLogsOut \/ ToolResets \/ ToolServes
  \/ ToolAsks \/ ToolAnswered \/ ToolSaves \/ ToolSaved

-----------------------------------------------------------------------------
(* Types.                                                                  *)

LEMMA TypeInit == Init => TypeOK
<1> DEFINE old == [Default EXCEPT !.key = TRUE]
<1>1. old \in Configs
  BY ConfigForms, Zenon
<1>2. Init => desk = old /\ file = old
  BY DEF Init
<1>3. Init => call \in [Calls -> Steps]
  BY DEF Init, Steps
<1> HIDE DEF old
<1>4. Init => /\ keychain \in BOOLEAN /\ kept \in BOOLEAN
              /\ quietOut \in BOOLEAN /\ quietIn \in BOOLEAN /\ saving \in BOOLEAN
  BY Zenon DEF Init
<1>5. Init => /\ form = Nothing /\ tool = Nothing /\ ink = Nothing
              /\ tools \in Nat /\ restarts \in Nat
  BY DEF Init
<1>6. QED
  BY <1>1, <1>2, <1>3, <1>4, <1>5 DEF TypeOK

LEMMA CommandType ==
  ASSUME TypeOK, NEW c \in Calls, Starts(c) \/ Proceeds(c)
  PROVE  TypeOK'
<1>1. UNCHANGED others /\ (UNCHANGED config \/ SaveAuth \/ ClearAuth)
  BY CommandStep
<1>2. call' \in [Calls -> Steps]
  BY CommandStep, Moves
<1>3. /\ desk' \in Configs /\ file' \in Configs /\ saving' \in BOOLEAN
      /\ ink' # Nothing => ink' \in Configs /\ (saving' \/ ToolWriting')
  <2>1. CASE UNCHANGED config
    BY <1>1, <2>1 DEF TypeOK, ToolWriting, config, others
  <2>2. CASE SaveAuth \/ ClearAuth
    BY <1>1, <2>2, Saved, SavedType DEF others
  <2>3. QED
    BY <1>1, <2>1, <2>2
<1>4. quietOut' \in BOOLEAN
  BY DEF TypeOK, Starts, Proceeds, Login, ActivateDevice, Challenged, SignedIn, Mocked,
         Logout, LoggedOut, LookUp, LookedUp, Refreshed, Retried, AskServer, ServerAnswers
<1>5. quietIn' \in BOOLEAN
  BY DEF TypeOK, Starts, Proceeds, Login, ActivateDevice, Challenged, SignedIn, Mocked, SignsIn,
         Logout, LoggedOut, LookUp, LookedUp, Refreshed, Retried, AskServer, ServerAnswers
<1>6. QED
  BY <1>1, <1>2, <1>3, <1>4, <1>5 DEF TypeOK, others

LEMMA ElsewhereType ==
  ASSUME TypeOK, Elsewhere
  PROVE  TypeOK'
<1> USE DEF TypeOK, config
<1>a. UNCHANGED <<saving, ink>> /\ tool' = tool =>
        saving' \in BOOLEAN /\ (ink' # Nothing => ink' \in Configs /\ (saving' \/ ToolWriting'))
  BY DEF ToolWriting
<1>1. CASE OpenSettings \/ CloseSettings \/ SetKey \/ DeleteKey
  <2>1. keychain' \in BOOLEAN /\ kept' \in BOOLEAN
    BY <1>1, Zenon DEF OpenSettings, CloseSettings, SetKey, DeleteKey
  <2>2. form' # Nothing => form' \in Configs
    BY <1>1 DEF OpenSettings, CloseSettings, SetKey, DeleteKey
  <2>3. UNCHANGED <<config, tool, tools, restarts, call, quietOut, quietIn>>
    BY <1>1 DEF OpenSettings, CloseSettings, SetKey, DeleteKey
  <2>4. QED
    BY <1>a, <2>1, <2>2, <2>3
<1>2. CASE SaveSettings
  <2> PICK key \in BOOLEAN : /\ form' = [form EXCEPT !.key = key]
                             /\ kept' = (kept /\ key = form.key)
    BY <1>2 DEF SaveSettings
  <2>a. form \in Configs
    BY <1>2 DEF SaveSettings
  <2>1. form' \in Configs /\ kept' \in BOOLEAN
    BY <2>a, Zenon DEF Configs
  <2>2. SavedAs(form') /\ UNCHANGED <<keychain, tool, tools, restarts, call, quietOut, quietIn>>
    BY <1>2, <2>1, Saved DEF SaveSettings
  <2>3. QED
    BY <2>1, <2>2, SavedType
<1>3. CASE SaveMesh
  <2>1. SavedAs(desk) /\ UNCHANGED <<others, call, quietOut, quietIn>>
    BY <1>3, Saved DEF SaveMesh
  <2>2. QED
    BY <2>1, SavedType DEF others
<1>4. CASE MigrateKeys
  <2> DEFINE out == [desk EXCEPT !.key = FALSE]
  <2>1. out \in Configs
    BY ConfigForms, Zenon
  <2> HIDE DEF out
  <2>2. SavedAs(out) \/ UNCHANGED config
    BY <1>4, <2>1, Saved DEF MigrateKeys, out
  <2>3. UNCHANGED <<form, tool, tools, restarts, kept, call, quietOut, quietIn>>
    BY <1>4 DEF MigrateKeys
  <2>4. keychain' \in BOOLEAN
    BY <1>4, Zenon DEF MigrateKeys
  <2>5. CASE SavedAs(out)
    BY <2>1, <2>3, <2>4, <2>5, SavedType
  <2>6. CASE UNCHANGED config
    BY <1>a, <2>3, <2>4, <2>6
  <2>7. QED
    BY <2>2, <2>5, <2>6
<1>5. CASE Restart
  <2>1. call' \in [Calls -> Steps]
    BY <1>5 DEF Restart, Steps
  <2>2. quietIn' \in BOOLEAN /\ kept' \in BOOLEAN
    BY <1>5, Zenon DEF Restart, Meets
  <2>3. saving' \in BOOLEAN /\ (ink' # Nothing => ink' \in Configs /\ ToolWriting')
    BY <1>5 DEF Restart, ToolWriting
  <2>4. QED
    BY <1>5, <2>1, <2>2, <2>3 DEF Restart
<1>6. CASE ToolSignsIn \/ ToolLogsOut \/ ToolResets \/ ToolServes \/ ToolAsks
  <2> DEFINE out == [file EXCEPT !.signed = FALSE]
  <2>1. out \in Configs
    BY ConfigForms, Zenon
  <2>2. \/ tool' = Tool("asked", Default)
        \/ tool' = Tool("loaded", out)
        \/ tool' = Tool("loaded", Default)
        \/ tool' = Tool("loaded", file)
        \/ tool' = Tool("asking", file)
    BY <1>6 DEF ToolSignsIn, ToolLogsOut, ToolResets, ToolServes, ToolAsks, Types
  <2> HIDE DEF out
  <2>3. tool' \in Processes
    BY <2>1, <2>2, ConfigForms, ToolForms
  <2>4. quietOut' \in BOOLEAN /\ quietIn' \in BOOLEAN /\ kept' \in BOOLEAN
    BY <1>6, Zenon DEF ToolSignsIn, ToolLogsOut, ToolResets, ToolServes, ToolAsks, Meets
  <2>5. tool = Nothing /\ tools' \in Nat /\ UNCHANGED <<config, form, keychain, restarts, call>>
    BY <1>6 DEF ToolSignsIn, ToolLogsOut, ToolResets, ToolServes, ToolAsks, Types
  <2>6. ink' # Nothing => ink' \in Configs /\ saving'
    BY <2>5 DEF ToolWriting
  <2>7. QED
    BY <2>3, <2>4, <2>5, <2>6
<1>7. CASE ToolSignedIn
  <2> DEFINE in == [file EXCEPT !.signed = TRUE]
  <2>1. in \in Configs
    BY ConfigForms, Zenon
  <2>2. tool' = Nothing \/ tool' = Tool("loaded", in)
    BY <1>7 DEF ToolSignedIn
  <2> HIDE DEF in
  <2>3. tool' = Nothing \/ tool' \in Processes
    BY <2>1, <2>2, ToolForms
  <2>4. quietIn' \in BOOLEAN /\ kept' \in BOOLEAN
    BY <1>7, Zenon DEF ToolSignedIn, Meets
  <2>5. ink' # Nothing => ink' \in Configs /\ saving'
    BY <1>7 DEF ToolSignedIn, ToolWriting
  <2>6. QED
    BY <1>7, <2>3, <2>4, <2>5 DEF ToolSignedIn
<1>8. CASE ToolAnswered
  <2>1. ink' # Nothing => ink' \in Configs /\ saving'
    BY <1>8 DEF ToolAnswered, ToolWriting
  <2>2. QED
    BY <1>8, <2>1 DEF ToolAnswered
<1>9. CASE ToolSaves
  <2>1. tool \in Processes /\ tool.config \in Configs /\ ~ToolWriting
    BY <1>9 DEF ToolSaves, Processes, ToolWriting
  <2>2. UNCHANGED <<desk, saving, form, keychain, tools, restarts, kept, call, quietOut, quietIn>>
    BY <1>9 DEF ToolSaves
  <2>3. CASE tool' = Tool("saving", tool.config) /\ Opens(tool.config, saving, desk)
    <3>1. file' = Default /\ (ink' # Nothing => saving /\ ink' \in Configs)
      BY <2>1, <2>3, Opened
    <3>2. tool' \in Processes
      BY <2>1, <2>3, ToolForms
    <3>3. QED
      BY <2>2, <3>1, <3>2, ConfigForms
  <2>4. CASE tool' = Nothing /\ UNCHANGED <<file, ink>>
    BY <2>1, <2>2, <2>4
  <2>5. QED
    BY <1>9, <2>3, <2>4 DEF ToolSaves
<1>10. CASE SaveEnds \/ ToolSaved
  <2>1. quietIn' \in BOOLEAN /\ kept' \in BOOLEAN
    BY <1>10, Zenon DEF SaveEnds, ToolSaved, Meets
  <2>2. CASE SaveEnds
    <3>1. ToolWriting \in BOOLEAN /\ ToolWriting' = ToolWriting
      BY <2>2 DEF SaveEnds, ToolWriting
    <3>2. file' \in Configs /\ (ink' = Nothing \/ (ink' = ink /\ ToolWriting))
      BY <2>2, <3>1, Closed DEF SaveEnds
    <3>3. QED
      BY <2>1, <2>2, <3>1, <3>2 DEF SaveEnds
  <2>3. CASE ToolSaved
    <3>1. tool.config \in Configs
      BY <2>3 DEF ToolSaved, ToolWriting, Processes
    <3>2. file' \in Configs /\ (ink' = Nothing \/ (ink' = ink /\ saving))
      BY <2>3, <3>1, Closed DEF ToolSaved
    <3>3. QED
      BY <2>1, <2>3, <3>2 DEF ToolSaved
  <2>4. QED
    BY <1>10, <2>2, <2>3
<1>11. QED
  BY <1>1, <1>2, <1>3, <1>4, <1>5, <1>6, <1>7, <1>8, <1>9, <1>10 DEF Elsewhere

LEMMA TypeStep ==
  ASSUME TypeOK, [Next]_vars
  PROVE  TypeOK'
<1>1. CASE UNCHANGED vars
  BY <1>1 DEF TypeOK, ToolWriting, vars, config, others
<1>2. CASE \E c \in Calls : Starts(c) \/ Proceeds(c)
  BY <1>2, CommandType
<1>3. CASE Elsewhere
  BY <1>3, ElsewhereType
<1>4. QED
  BY <1>1, <1>2, <1>3 DEF Next, Elsewhere

-----------------------------------------------------------------------------
(* A logout is final.                                                      *)

\* A command that moves to a step without tokens in hand and at most drops the account.
LEMMA QuietOut ==
  ASSUME TypeOK, StaysOut, NEW c \in Calls, UNCHANGED others,
         UNCHANGED config \/ ClearAuth,
         NEW s \in Steps \ {"signin", "challenge", "verify", "refresh"}, Goes(c, s)
  PROVE  StaysOut'
<1>1. ~desk'.signed /\ ~file'.signed /\ (ink' # Nothing => ~ink'.signed)
  <2>1. CASE UNCHANGED config
    BY <2>1 DEF StaysOut, config
  <2>2. CASE ClearAuth
    BY <2>2, Saved, SavedOut
  <2>3. QED
    BY <2>1, <2>2
<1>2. \A d \in Calls : call'[d] \notin {"signin", "challenge", "verify", "refresh"}
  BY Moves DEF StaysOut
<1>3. QED
  BY <1>1, <1>2 DEF StaysOut, ToolHolds, others

\* The account is dropped with nothing else under way.
LEMMA OutByLogout ==
  ASSUME TypeOK, NEW c \in Calls, LoggedOut(c), quietOut'
  PROVE  StaysOut'
<1>1. /\ Undisturbed(c, FALSE) /\ (saving' \/ file' = desk')
      /\ ClearAuth /\ UNCHANGED others /\ Goes(c, "done")
  BY DEF LoggedOut, Ends
<1>2. SavedAs(desk') /\ ~desk'.signed
  BY <1>1, Saved
<1>3. /\ form # Nothing => ~form.signed
      /\ tool # Nothing => tool.at = "asking"
  BY <1>1 DEF Undisturbed
<1>4. ~file'.signed
  BY <1>1, <1>2, ConfigForms DEF SavedAs
<1>5. ink' = Nothing
  BY <1>2, <1>3 DEF SavedAs, ToolWriting
<1>6. \A d \in Calls \ {c} : call'[d] \in {"idle", "done"}
  BY <1>1, Moves DEF Undisturbed, InFlight, Steps
<1>7. call'[c] = "done"
  BY <1>1, Moves DEF Steps
<1>8. \A d \in Calls : call'[d] \notin {"signin", "challenge", "verify", "refresh"}
  BY <1>6, <1>7
<1>9. QED
  BY <1>1, <1>2, <1>3, <1>4, <1>5, <1>8 DEF StaysOut, ToolHolds, others

LEMMA OutByCommand ==
  ASSUME TypeOK, quietOut => StaysOut, NEW c \in Calls, Starts(c) \/ Proceeds(c), quietOut'
  PROVE  StaysOut'
<1>1. CASE Login(c) \/ ActivateDevice(c)
  BY <1>1 DEF Login, ActivateDevice
<1>2. CASE LoggedOut(c)
  BY <1>2, OutByLogout
<1>3. CASE ~Login(c) /\ ~ActivateDevice(c) /\ ~LoggedOut(c)
  <2>1. quietOut' = quietOut
    BY <1>3 DEF Starts, Proceeds, Challenged, SignedIn, Mocked, Logout, LookUp, LookedUp,
                Refreshed, Retried, AskServer, ServerAnswers
  <2>2. StaysOut
    BY <2>1
  <2>3. ~desk.signed /\ call[c] \notin {"signin", "challenge", "verify", "refresh"}
    BY <2>2 DEF StaysOut
  <2>4. ~Challenged(c) /\ ~SignedIn(c) /\ ~Mocked(c) /\ ~Refreshed(c) /\ ~Logout(c)
    BY <2>3 DEF Challenged, SignedIn, Mocked, Refreshed, Logout, At
  <2>5. UNCHANGED others
    BY CommandStep
  <2>6. (UNCHANGED config \/ ClearAuth) /\ Goes(c, "done")
    BY <1>3, <2>3, <2>4 DEF Starts, Proceeds, LookUp, LookedUp, Retried, AskServer,
                            ServerAnswers, Ends
  <2>7. QED
    BY <2>2, <2>5, <2>6, QuietOut DEF Steps
<1>4. QED
  BY <1>1, <1>2, <1>3

LEMMA OutElsewhere ==
  ASSUME TypeOK, quietOut => StaysOut, Elsewhere, quietOut'
  PROVE  StaysOut'
<1>1. ~ToolSignsIn
  BY DEF ToolSignsIn
<1>2. StaysOut
  BY <1>1 DEF Elsewhere, OpenSettings, CloseSettings, SaveSettings, SaveMesh, SaveEnds,
              MigrateKeys, SetKey, DeleteKey, Restart, ToolSignedIn, ToolLogsOut, ToolResets,
              ToolServes, ToolAsks, ToolAnswered, ToolSaves, ToolSaved
<1>a. tool' = tool => (ToolHolds' = ToolHolds)
  BY DEF ToolHolds
<1> USE DEF StaysOut
<1>3. CASE OpenSettings \/ CloseSettings \/ SetKey \/ DeleteKey
  <2>1. form' \in {form, desk, Nothing} /\ UNCHANGED <<config, tool, call>>
    BY <1>3 DEF OpenSettings, CloseSettings, SetKey, DeleteKey
  <2>2. QED
    BY <1>2, <1>a, <2>1 DEF config
<1>4. CASE SaveSettings
  <2>1. PICK key \in BOOLEAN : form' = [form EXCEPT !.key = key]
    BY <1>4 DEF SaveSettings
  <2>2. form \in Configs /\ ~form.signed
    BY <1>2, <1>4 DEF SaveSettings, TypeOK
  <2>3. form' \in Configs /\ ~form'.signed
    BY <2>1, <2>2, Zenon DEF Configs
  <2>4. ~desk'.signed /\ ~file'.signed /\ (ink' # Nothing => ~ink'.signed)
    BY <1>2, <1>4, <2>3, Saved, SavedOut DEF SaveSettings
  <2>5. QED
    BY <1>2, <1>4, <1>a, <2>3, <2>4 DEF SaveSettings
<1>5. CASE SaveMesh
  <2>1. ~desk'.signed /\ ~file'.signed /\ (ink' # Nothing => ~ink'.signed)
    BY <1>2, <1>5, Saved, SavedOut DEF SaveMesh, TypeOK
  <2>2. QED
    BY <1>2, <1>5, <1>a, <2>1 DEF SaveMesh, others
<1>6. CASE MigrateKeys
  <2> DEFINE out == [desk EXCEPT !.key = FALSE]
  <2>1. out \in Configs /\ ~out.signed
    BY <1>2, ConfigForms, Zenon DEF TypeOK
  <2> HIDE DEF out
  <2>2. SavedAs(out) \/ UNCHANGED config
    BY <1>6, <2>1, Saved DEF MigrateKeys, out
  <2>3. ~desk'.signed /\ ~file'.signed /\ (ink' # Nothing => ~ink'.signed)
    BY <1>2, <2>1, <2>2, SavedOut DEF config
  <2>4. QED
    BY <1>2, <1>6, <1>a, <2>3 DEF MigrateKeys
<1>7. CASE Restart
  <2>1. /\ desk' = file /\ file' = file /\ form' = Nothing /\ tool' = tool
        /\ ink' \in {ink, Nothing}
        /\ call' = [c \in Calls |-> IF InFlight(c) THEN "done" ELSE call[c]]
    BY <1>7 DEF Restart
  <2>2. \A c \in Calls : call'[c] \notin {"signin", "challenge", "verify", "refresh"}
    BY <1>2, <2>1
  <2>3. QED
    BY <1>2, <1>a, <2>1, <2>2
<1>8. CASE ToolLogsOut \/ ToolResets
  <2> DEFINE out == [file EXCEPT !.signed = FALSE]
  <2>1. out \in Configs /\ ~out.signed /\ ~Default.signed /\ Default \in Configs
    BY ConfigForms, Zenon DEF TypeOK
  <2>2. tool' \in {Tool("loaded", out), Tool("loaded", Default)}
    BY <1>8 DEF ToolLogsOut, ToolResets, Types
  <2> HIDE DEF out
  <2>3. tool'.at = "loaded" /\ ~tool'.config.signed
    BY <2>1, <2>2, ToolForms
  <2>4. QED
    BY <1>2, <1>8, <2>3 DEF ToolLogsOut, ToolResets, Types, config
<1>9. CASE ToolServes \/ ToolAsks
  <2>1. file \in Configs
    BY DEF TypeOK
  <2>2. PICK a \in {"asking", "loaded"} : tool' = Tool(a, file)
    BY <1>9 DEF ToolServes, ToolAsks, Types
  <2>3. tool'.at = a /\ tool'.config = file
    BY <2>1, <2>2, ToolForms
  <2>4. QED
    BY <1>2, <1>9, <2>3 DEF ToolServes, ToolAsks, Types, config
<1>10. CASE ToolSignedIn \/ ToolAnswered
  BY <1>2, <1>10 DEF ToolSignedIn, ToolAnswered, ToolHolds, config
<1>11. CASE ToolSaves
  <2>1. tool.config \in Configs /\ ~tool.config.signed /\ desk \in Configs /\ saving \in BOOLEAN
    BY <1>2, <1>11 DEF ToolSaves, ToolHolds, TypeOK, Processes
  <2>2. CASE tool' = Tool("saving", tool.config) /\ Opens(tool.config, saving, desk)
    <3>1. ~file'.signed /\ (ink' # Nothing => ~ink'.signed)
      BY <1>2, <2>1, <2>2, Opened, ConfigForms
    <3>2. tool'.at = "saving" /\ ~tool'.config.signed
      BY <2>1, <2>2, ToolForms
    <3>3. QED
      BY <1>2, <1>11, <3>1, <3>2 DEF ToolSaves
  <2>3. CASE tool' = Nothing /\ UNCHANGED <<file, ink>>
    BY <1>2, <1>11, <2>3 DEF ToolSaves, ToolHolds
  <2>4. QED
    BY <1>11, <2>2, <2>3 DEF ToolSaves
<1>12. CASE SaveEnds
  <2>1. ToolWriting \in BOOLEAN /\ desk \in Configs
    BY DEF ToolWriting, TypeOK
  <2>2. ~file'.signed /\ (ink' # Nothing => ~ink'.signed)
    BY <1>2, <1>12, <2>1, Closed DEF SaveEnds
  <2>3. QED
    BY <1>2, <1>12, <1>a, <2>2 DEF SaveEnds
<1>13. CASE ToolSaved
  <2>1. tool.config \in Configs /\ ~tool.config.signed /\ saving \in BOOLEAN
    BY <1>2, <1>13 DEF ToolSaved, ToolWriting, ToolHolds, TypeOK, Processes
  <2>2. ~file'.signed /\ (ink' # Nothing => ~ink'.signed)
    BY <1>2, <1>13, <2>1, Closed DEF ToolSaved
  <2>3. QED
    BY <1>2, <1>13, <2>2 DEF ToolSaved, ToolHolds
<1>14. QED
  BY <1>1, <1>3, <1>4, <1>5, <1>6, <1>7, <1>8, <1>9, <1>10, <1>11, <1>12, <1>13 DEF Elsewhere

-----------------------------------------------------------------------------
(* A sign-in lasts.                                                        *)

\* A command that does not start a logout and at most stores tokens.
LEMMA QuietIn ==
  ASSUME TypeOK, StaysIn, NEW c \in Calls, UNCHANGED others,
         UNCHANGED config \/ SaveAuth,
         NEW s \in Steps \ {"leave"}, Goes(c, s)
  PROVE  StaysIn'
<1>1. desk'.signed /\ (file'.signed \/ saving' \/ ToolWriting')
  <2>1. CASE UNCHANGED config
    BY <2>1 DEF StaysIn, ToolWriting, config, others
  <2>2. CASE SaveAuth
    BY <2>2, Saved, SavedIn DEF others
  <2>3. QED
    BY <2>1, <2>2
<1>2. \A d \in Calls : call'[d] # "leave"
  BY Moves DEF StaysIn
<1>3. QED
  BY <1>1, <1>2 DEF StaysIn, ToolHolds, others

\* The tokens are stored with nothing else under way.
LEMMA InBySignIn ==
  ASSUME TypeOK, NEW c \in Calls, SignsIn(c), UNCHANGED others, quietIn'
  PROVE  StaysIn'
<1>1. Undisturbed(c, TRUE) /\ (saving' \/ file' = desk') /\ SaveAuth /\ Goes(c, "begin")
  BY DEF SignsIn
<1>2. desk'.signed /\ (file'.signed \/ saving')
  BY <1>1, Saved
<1>3. \A d \in Calls \ {c} : call'[d] \in {"idle", "done"}
  BY <1>1, Moves DEF Undisturbed, InFlight, Steps
<1>4. call'[c] = "begin"
  BY <1>1, Moves DEF Steps
<1>5. \A d \in Calls : call'[d] # "leave"
  BY <1>3, <1>4
<1>6. /\ form # Nothing => form.signed
      /\ tool # Nothing => tool.at = "asking"
  <2>1. form # Nothing => form.signed = TRUE
    BY <1>1 DEF Undisturbed
  <2>2. tool # Nothing => tool.at = "asking"
    BY <1>1 DEF Undisturbed
  <2>3. QED
    BY <2>1, <2>2
<1>7. QED
  BY <1>2, <1>5, <1>6 DEF StaysIn, ToolHolds, others

LEMMA InByCommand ==
  ASSUME TypeOK, quietIn => StaysIn, NEW c \in Calls, Starts(c) \/ Proceeds(c), quietIn'
  PROVE  StaysIn'
<1> UNCHANGED others
  BY CommandStep
<1>1. CASE SignsIn(c)
  BY <1>1, InBySignIn
<1>2. CASE ~SignsIn(c)
  <2>1. ~Logout(c) /\ ~LoggedOut(c)
    BY DEF Logout, LoggedOut
  <2>2. quietIn' = quietIn
    BY <1>2, <2>1 DEF Starts, Proceeds, Login, ActivateDevice, Challenged, SignedIn, Mocked,
                      LookUp, LookedUp, Refreshed, Retried, AskServer, ServerAnswers
  <2>3. StaysIn
    BY <2>2
  <2>4. UNCHANGED config \/ SaveAuth
    BY <1>2, <2>1 DEF Starts, Proceeds, Login, ActivateDevice, Challenged, SignedIn, Mocked,
                      LookUp, LookedUp, Refreshed, Retried, AskServer, ServerAnswers, config
  <2>5. \E s \in Steps \ {"leave"} : Goes(c, s)
    BY <1>2, <2>1 DEF Starts, Proceeds, Login, ActivateDevice, Challenged, SignedIn, Mocked,
                      LookUp, LookedUp, Refreshed, Retried, AskServer, ServerAnswers, Ends, Steps
  <2>6. QED
    BY <2>3, <2>4, <2>5, QuietIn
<1>3. QED
  BY <1>1, <1>2

LEMMA InElsewhere ==
  ASSUME TypeOK, quietIn => StaysIn, Elsewhere, quietIn'
  PROVE  StaysIn'
<1>1. ~ToolLogsOut /\ ~ToolResets
  BY DEF ToolLogsOut, ToolResets
<1>2. StaysIn
  BY <1>1 DEF Elsewhere, OpenSettings, CloseSettings, SaveSettings, SaveMesh, SaveEnds,
              MigrateKeys, SetKey, DeleteKey, Restart, ToolSignsIn, ToolSignedIn, ToolServes,
              ToolAsks, ToolAnswered, ToolSaves, ToolSaved, Meets
<1>a. tool' = tool => ToolHolds' = ToolHolds /\ ToolWriting' = ToolWriting
  BY DEF ToolHolds, ToolWriting
<1> USE DEF StaysIn
<1>3. CASE OpenSettings \/ CloseSettings \/ SetKey \/ DeleteKey
  <2>1. form' \in {form, desk, Nothing} /\ UNCHANGED <<config, tool, call>>
    BY <1>3 DEF OpenSettings, CloseSettings, SetKey, DeleteKey
  <2>2. QED
    BY <1>2, <1>a, <2>1 DEF config
<1>4. CASE SaveSettings
  <2>1. PICK key \in BOOLEAN : form' = [form EXCEPT !.key = key]
    BY <1>4 DEF SaveSettings
  <2>2. form \in Configs /\ form.signed
    BY <1>2, <1>4 DEF SaveSettings, TypeOK
  <2>3. form' \in Configs /\ form'.signed
    BY <2>1, <2>2, Zenon DEF Configs
  <2>4. desk'.signed /\ (file'.signed \/ saving' \/ ToolWriting')
    BY <1>2, <1>4, <2>3, Saved, SavedIn DEF SaveSettings
  <2>5. QED
    BY <1>2, <1>4, <1>a, <2>3, <2>4 DEF SaveSettings
<1>5. CASE SaveMesh
  <2>1. desk'.signed /\ (file'.signed \/ saving' \/ ToolWriting')
    BY <1>2, <1>5, Saved, SavedIn DEF SaveMesh, others, TypeOK
  <2>2. QED
    BY <1>2, <1>5, <1>a, <2>1 DEF SaveMesh, others
<1>6. CASE MigrateKeys
  <2> DEFINE out == [desk EXCEPT !.key = FALSE]
  <2>1. out \in Configs /\ out.signed
    BY <1>2, ConfigForms, Zenon DEF TypeOK
  <2> HIDE DEF out
  <2>2. SavedAs(out) \/ UNCHANGED config
    BY <1>6, <2>1, Saved DEF MigrateKeys, out
  <2>3. desk'.signed /\ (file'.signed \/ saving' \/ ToolWriting')
    BY <1>2, <1>6, <1>a, <2>1, <2>2, SavedIn DEF MigrateKeys, config
  <2>4. QED
    BY <1>2, <1>6, <1>a, <2>3 DEF MigrateKeys
<1>7. CASE Restart
  <2>1. /\ desk' = file /\ file' = file /\ form' = Nothing /\ tool' = tool
        /\ call' = [c \in Calls |-> IF InFlight(c) THEN "done" ELSE call[c]]
    BY <1>7 DEF Restart
  <2>2. \A c \in Calls : call'[c] # "leave"
    BY <1>2, <2>1
  <2>3. ~saving /\ ~ToolWriting
    BY <1>7 DEF Restart, Meets
  <2>4. QED
    BY <1>2, <1>a, <2>1, <2>2, <2>3
<1>8. CASE ToolSignsIn
  <2>1. tool'.at = "asked" /\ tool = Nothing
    BY <1>8, ConfigForms, ToolForms DEF ToolSignsIn, Types
  <2>2. QED
    BY <1>2, <1>8, <2>1 DEF ToolSignsIn, Types, ToolHolds, ToolWriting, config
<1>9. CASE ToolServes \/ ToolAsks
  <2>1. file \in Configs /\ tool = Nothing
    BY <1>9 DEF TypeOK, ToolServes, ToolAsks, Types
  <2>2. PICK a \in {"asking", "loaded"} : tool' = Tool(a, file)
    BY <1>9 DEF ToolServes, ToolAsks, Types
  <2>3. tool'.at = a /\ tool'.config = file
    BY <2>1, <2>2, ToolForms
  <2>4. CASE ToolServes
    <3>1. ~saving
      BY <2>4 DEF ToolServes, Meets
    <3>2. file.signed
      BY <1>2, <2>1, <3>1 DEF ToolWriting
    <3>3. QED
      BY <1>2, <2>4, <2>3, <3>2 DEF ToolServes, Types, config
  <2>5. CASE ToolAsks
    <3>1. tool'.at = "asking"
      BY <2>5, <2>1, ToolForms DEF ToolAsks, Types
    <3>2. QED
      BY <1>2, <2>1, <2>5, <3>1 DEF ToolAsks, Types, ToolHolds, ToolWriting, config
  <2>6. QED
    BY <1>9, <2>4, <2>5
<1>10. CASE ToolSignedIn
  <2> DEFINE in == [file EXCEPT !.signed = TRUE]
  <2>1. in \in Configs /\ in.signed
    BY ConfigForms, Zenon DEF TypeOK
  <2>2. tool' \in {Nothing, Tool("loaded", in)}
    BY <1>10 DEF ToolSignedIn
  <2> HIDE DEF in
  <2>3. tool' # Nothing => tool'.config.signed
    BY <2>1, <2>2, ToolForms
  <2>4. ~saving /\ ~ToolWriting
    BY <1>10 DEF ToolSignedIn, Meets, ToolWriting
  <2>5. QED
    BY <1>2, <1>10, <2>3, <2>4 DEF ToolSignedIn, ToolHolds, config
<1>11. CASE ToolAnswered
  BY <1>2, <1>11 DEF ToolAnswered, ToolHolds, ToolWriting, config
<1>12. CASE ToolSaves
  <2>1. tool.config \in Configs /\ tool.config.signed /\ ~ToolWriting
    BY <1>2, <1>12 DEF ToolSaves, ToolHolds, ToolWriting, TypeOK, Processes
  <2>2. CASE tool' = Tool("saving", tool.config)
    <3>1. tool'.at = "saving" /\ tool'.config.signed
      BY <2>1, <2>2, ToolForms
    <3>2. tool' # Nothing
      BY <2>1, <2>2, ToolForms, AccountAssumption
    <3>3. QED
      BY <1>2, <1>12, <3>1, <3>2 DEF ToolSaves, ToolWriting
  <2>3. CASE tool' = Nothing /\ UNCHANGED <<file, ink>>
    BY <1>2, <1>12, <2>1, <2>3 DEF ToolSaves, ToolHolds, ToolWriting
  <2>4. QED
    BY <1>12, <2>2, <2>3 DEF ToolSaves
<1>13. CASE SaveEnds
  <2>1. file' = desk
    BY <1>13 DEF SaveEnds, Meets
  <2>2. QED
    BY <1>2, <1>13, <1>a, <2>1 DEF SaveEnds
<1>14. CASE ToolSaved
  <2>1. file' = tool.config /\ tool.config.signed
    BY <1>2, <1>13, <1>14 DEF ToolSaved, Meets, ToolWriting, ToolHolds
  <2>2. QED
    BY <1>2, <1>14, <2>1 DEF ToolSaved, ToolHolds
<1>15. QED
  BY <1>1, <1>3, <1>4, <1>5, <1>6, <1>7, <1>8, <1>9, <1>10, <1>11, <1>12, <1>13, <1>14
     DEF Elsewhere

-----------------------------------------------------------------------------
(* The key is kept.                                                        *)

LEMMA KeyByCommand ==
  ASSUME TypeOK, kept /\ ~keychain => KeyHeld, NEW c \in Calls, Starts(c) \/ Proceeds(c),
         kept' /\ ~keychain'
  PROVE  KeyHeld'
<1>1. UNCHANGED others /\ (UNCHANGED config \/ SaveAuth \/ ClearAuth)
  BY CommandStep
<1>2. KeyHeld
  BY <1>1 DEF others
<1>3. desk'.key /\ (file'.key \/ saving' \/ ToolWriting')
  <2>1. CASE UNCHANGED config
    BY <1>1, <1>2, <2>1 DEF KeyHeld, ToolWriting, config, others
  <2>2. CASE SaveAuth \/ ClearAuth
    <3>1. SavedAs(desk') /\ desk' \in Configs /\ desk'.key = desk.key
      BY <2>2, Saved
    <3>2. desk'.key
      BY <1>2, <3>1 DEF KeyHeld
    <3>3. QED
      BY <1>1, <1>2, <3>1, <3>2, SavedKey DEF others
  <2>3. QED
    BY <1>1, <2>1, <2>2
<1>4. QED
  BY <1>1, <1>2, <1>3 DEF KeyHeld, ToolHolds, others

LEMMA KeyElsewhere ==
  ASSUME TypeOK, kept /\ ~keychain => KeyHeld, Elsewhere, kept' /\ ~keychain'
  PROVE  KeyHeld'
<1>1. ~SetKey /\ ~DeleteKey /\ ~ToolResets
  <2>1. ~SetKey /\ ~DeleteKey
    BY Zenon DEF SetKey, DeleteKey
  <2>2. ~ToolResets
    <3> SUFFICES ASSUME ToolResets
                 PROVE  FALSE
      OBVIOUS
    <3>1. keychain' = keychain
      BY DEF ToolResets, Types
    <3>2. kept' = (kept /\ keychain)
      BY DEF ToolResets
    <3>3. kept /\ keychain
      BY ONLY <3>2, kept'
    <3>4. QED
      BY <3>1, <3>3
  <2>3. QED
    BY <2>1, <2>2
<1>2. KeyHeld
  <2>1. kept
    BY <1>1, Zenon DEF Elsewhere, OpenSettings, CloseSettings, SaveSettings, SaveMesh, SaveEnds,
           MigrateKeys, Restart, ToolSignsIn, ToolSignedIn, ToolLogsOut, ToolServes, ToolAsks,
           ToolAnswered, ToolSaves, ToolSaved, Meets, others
  <2>2. ~keychain
    BY <1>1, Zenon DEF Elsewhere, OpenSettings, CloseSettings, SaveSettings, SaveMesh, SaveEnds,
           MigrateKeys, Restart, ToolSignsIn, ToolSignedIn, ToolLogsOut, ToolServes, ToolAsks,
           ToolAnswered, ToolSaves, ToolSaved, Types, others
  <2>3. QED
    BY <2>1, <2>2
<1>a. tool' = tool => ToolHolds' = ToolHolds /\ ToolWriting' = ToolWriting
  BY DEF ToolHolds, ToolWriting
\* The key was not in the keychain, so nobody has met a file that was cut.
<1>b. ASSUME NEW torn, Meets(torn), keychain' = keychain
      PROVE  ~torn
  BY <1>b, Zenon DEF Meets
<1> USE DEF KeyHeld
<1>3. CASE OpenSettings \/ CloseSettings
  <2>1. form' \in {desk, Nothing} /\ UNCHANGED <<config, tool>>
    BY <1>3 DEF OpenSettings, CloseSettings
  <2>2. QED
    BY <1>2, <1>a, <2>1 DEF config
<1>4. CASE SaveSettings
  <2>1. PICK key \in BOOLEAN : /\ form' = [form EXCEPT !.key = key]
                               /\ kept' = (kept /\ key = form.key)
    BY <1>4 DEF SaveSettings
  <2>2. form \in Configs /\ form.key
    BY <1>2, <1>4 DEF SaveSettings, TypeOK
  <2>3. key = form.key
    BY <2>1, Zenon
  <2>4. form' \in Configs /\ form'.key
    BY <2>1, <2>2, <2>3, Zenon DEF Configs
  <2>5. desk'.key /\ (file'.key \/ saving' \/ ToolWriting')
    BY <1>2, <1>4, <2>4, Saved, SavedKey DEF SaveSettings
  <2>6. QED
    BY <1>2, <1>4, <1>a, <2>4, <2>5 DEF SaveSettings
<1>5. CASE SaveMesh
  <2>1. desk'.key /\ (file'.key \/ saving' \/ ToolWriting')
    BY <1>2, <1>5, Saved, SavedKey DEF SaveMesh, others, TypeOK
  <2>2. QED
    BY <1>2, <1>5, <1>a, <2>1 DEF SaveMesh, others
<1>6. CASE MigrateKeys
  <2>1. UNCHANGED config
    BY <1>6, Zenon DEF MigrateKeys
  <2>2. QED
    BY <1>2, <1>6, <1>a, <2>1 DEF MigrateKeys, config
<1>7. CASE Restart
  <2>1. desk' = file /\ file' = file /\ form' = Nothing /\ tool' = tool /\ keychain' = keychain
    BY <1>7 DEF Restart
  <2>2. ~(saving \/ ToolWriting)
    BY <1>7, <1>b, <2>1 DEF Restart
  <2>3. QED
    BY <1>2, <1>a, <2>1, <2>2
<1>8. CASE ToolLogsOut \/ ToolServes \/ ToolAsks
  <2> DEFINE out == [file EXCEPT !.signed = FALSE]
  <2>1. tool = Nothing /\ UNCHANGED <<config, form, keychain>>
    BY <1>8 DEF ToolLogsOut, ToolServes, ToolAsks, Types
  <2>2. file \in Configs /\ (saving \/ file.key)
    BY <1>2, <2>1 DEF TypeOK, ToolWriting
  <2>3. out \in Configs /\ out.key = file.key
    BY <2>2, ConfigForms, Zenon
  <2>4. CASE ToolAsks
    <3>1. tool'.at = "asking"
      BY <2>2, <2>4, ToolForms DEF ToolAsks, Types
    <3>2. QED
      BY <1>2, <2>1, <3>1 DEF ToolHolds, ToolWriting, config
  <2>5. CASE ToolLogsOut \/ ToolServes
    <3>1. ~saving
      <4>1. CASE ToolLogsOut
        <5>1. kept' = (kept /\ (saving => keychain))
          BY <4>1 DEF ToolLogsOut
        <5>2. QED
          BY <2>1, <5>1, Zenon
      <4>2. CASE ToolServes
        BY <2>1, <4>2, <1>b DEF ToolServes
      <4>3. QED
        BY <2>5, <4>1, <4>2
    <3>2. tool' = Tool("loaded", out) \/ tool' = Tool("loaded", file)
      BY <2>5 DEF ToolLogsOut, ToolServes, Types
    <3> HIDE DEF out
    <3>3. tool'.config.key
      BY <2>2, <2>3, <3>1, <3>2, ToolForms
    <3>4. QED
      BY <1>2, <2>1, <2>2, <3>1, <3>3 DEF config
  <2>6. QED
    BY <1>8, <2>4, <2>5
<1>9. CASE ToolSignsIn
  <2>1. tool'.at = "asked" /\ tool = Nothing
    BY <1>9, ConfigForms, ToolForms DEF ToolSignsIn, Types
  <2>2. QED
    BY <1>2, <1>9, <2>1 DEF ToolSignsIn, Types, ToolHolds, ToolWriting, config
<1>10. CASE ToolSignedIn
  <2> DEFINE in == [file EXCEPT !.signed = TRUE]
  <2>1. ~saving
    BY <1>10, <1>b DEF ToolSignedIn
  <2>2. ~ToolWriting
    BY <1>10 DEF ToolSignedIn, ToolWriting
  <2>3. file \in Configs /\ file.key
    BY <1>2, <2>1, <2>2 DEF TypeOK
  <2>4. in \in Configs /\ in.key = file.key
    BY <2>3, ConfigForms, Zenon
  <2>5. tool' \in {Nothing, Tool("loaded", in)}
    BY <1>10 DEF ToolSignedIn
  <2> HIDE DEF in
  <2>6. in.key
    BY <2>3, <2>4
  <2>7. tool' # Nothing => tool'.config.key
    BY <2>4, <2>5, <2>6, ToolForms
  <2>8. QED
    BY <1>2, <1>10, <2>3, <2>7 DEF ToolSignedIn, ToolHolds, config
<1>11. CASE ToolAnswered
  BY <1>2, <1>11 DEF ToolAnswered, ToolHolds, ToolWriting, config
<1>12. CASE ToolSaves
  <2>1. tool.config \in Configs /\ tool.config.key /\ ~ToolWriting
    BY <1>2, <1>12 DEF ToolSaves, ToolHolds, ToolWriting, TypeOK, Processes
  <2>2. CASE tool' = Tool("saving", tool.config)
    <3>1. tool'.at = "saving" /\ tool'.config.key
      BY <2>1, <2>2, ToolForms
    <3>2. tool' # Nothing
      BY <2>1, <2>2, ToolForms, AccountAssumption
    <3>3. QED
      BY <1>2, <1>12, <3>1, <3>2 DEF ToolSaves, ToolWriting
  <2>3. CASE tool' = Nothing /\ UNCHANGED <<file, ink>>
    BY <1>2, <1>12, <2>1, <2>3 DEF ToolSaves, ToolHolds, ToolWriting
  <2>4. QED
    BY <1>12, <2>2, <2>3 DEF ToolSaves
<1>13. CASE SaveEnds
  <2>1. keychain' = keychain
    BY <1>13 DEF SaveEnds
  <2>2. file' = desk
    BY <1>13, <1>b, <2>1 DEF SaveEnds
  <2>3. QED
    BY <1>2, <1>13, <1>a, <2>2 DEF SaveEnds
<1>14. CASE ToolSaved
  <2>1. keychain' = keychain
    BY <1>14 DEF ToolSaved
  <2>2. file' = tool.config
    BY <1>14, <1>b, <2>1 DEF ToolSaved
  <2>3. tool.config.key
    BY <1>2, <1>14 DEF ToolSaved, ToolWriting, ToolHolds
  <2>4. QED
    BY <1>2, <1>14, <2>2, <2>3 DEF ToolSaved, ToolHolds
<1>15. QED
  BY <1>1, <1>3, <1>4, <1>5, <1>6, <1>7, <1>8, <1>9, <1>10, <1>11, <1>12, <1>13, <1>14
     DEF Elsewhere

-----------------------------------------------------------------------------
LEMMA InitInv == Init => Inv
<1>1. Init => desk = [Default EXCEPT !.key = TRUE] /\ file = desk
  BY DEF Init
<1>2. [Default EXCEPT !.key = TRUE].key
  BY ConfigForms, Zenon
<1>3. Init => KeyHeld
  <2>1. Init => desk.key /\ file.key
    BY <1>1, <1>2, Zenon
  <2>2. QED
    BY <2>1 DEF KeyHeld, ToolHolds, Init
<1>4. Init => ~quietOut /\ ~quietIn
  BY DEF Init
<1>5. QED
  BY <1>3, <1>4, TypeInit DEF Inv

LEMMA InvStep == Inv /\ [Next]_vars => Inv'
<1> SUFFICES ASSUME Inv, [Next]_vars
             PROVE  Inv'
  OBVIOUS
<1> USE DEF Inv
<1>1. TypeOK'
  BY TypeStep
<1>2. CASE UNCHANGED vars
  BY <1>1, <1>2 DEF vars, config, others, StaysOut, StaysIn, KeyHeld, ToolHolds, ToolWriting
<1>3. CASE \E c \in Calls : Starts(c) \/ Proceeds(c)
  BY <1>1, <1>3, OutByCommand, InByCommand, KeyByCommand
<1>4. CASE Elsewhere
  BY <1>1, <1>4, OutElsewhere, InElsewhere, KeyElsewhere
<1>5. QED
  BY <1>2, <1>3, <1>4 DEF Next, Elsewhere

\* Every variable keeps its type, the state the three promises rest on included.
THEOREM Invariant == Spec => []Inv
  BY InitInv, InvStep, PTL DEF Spec

\* logout: after an undisturbed one the user is signed out, in memory and in the file,
\* until a sign-in starts, however many commands, restarts and tools there are.
THEOREM LogoutStays == Spec => []LogoutIsFinal
<1>1. Inv => LogoutIsFinal
  BY DEF Inv, StaysOut, LogoutIsFinal
<1>2. QED
  BY <1>1, Invariant, PTL

\* get_account, try_refresh: an undisturbed sign-in is undone by a logout, a server that
\* refuses the renewed token or a config file that was cut, and by nothing else.
THEOREM SignInStays == Spec => []SignInLasts
<1>1. Inv => SignInLasts
  BY DEF Inv, StaysIn, SignInLasts
<1>2. QED
  BY <1>1, Invariant, PTL

\* migrate_plaintext_keys: the key the old config file held is in the keychain, in the
\* file or being written there, until the user gives it up or the file that holds it is
\* cut.
THEOREM KeyStays == Spec => []KeyIsKept
<1>1. Inv => KeyIsKept
  BY DEF Inv, TypeOK, KeyHeld, KeyIsKept, ToolHolds, ToolWriting
<1>2. QED
  BY <1>1, Invariant, PTL

=============================================================================
