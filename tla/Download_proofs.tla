--------------------------- MODULE Download_proofs ---------------------------
(***************************************************************************)
(* Proofs about downloads for every set of calls, sources and lengths, and *)
(* any number of attempts and crashes.                                     *)
(***************************************************************************)
EXTENDS Download, TLAPS

USE DownloadAssumption

\* What a call's variables may become, one step after another.
LEMMA LocalForms ==
  /\ \A l \in Stages : Local(l) \in Locals
  /\ \A k \in Locals, l \in Stages : [k EXCEPT !.pc = l] \in Locals
  /\ \A k \in Locals, b \in BOOLEAN : [k EXCEPT !.told = b] \in Locals
<1>1. \A l \in Stages : Local(l) \in Locals
  <2>1. NoHandle \in Handles
    BY DEF NoHandle, Handles
  <2>2. StreamRetries \in 0..StreamRetries /\ Unknown \in Lengths
    BY DEF Lengths
  <2>3. QED
    BY <2>1, <2>2 DEF Local, Locals
<1>2. \A k \in Locals, l \in Stages : [k EXCEPT !.pc = l] \in Locals
  BY DEF Locals
<1>3. \A k \in Locals, b \in BOOLEAN : [k EXCEPT !.told = b] \in Locals
  BY DEF Locals
<1>4. QED
  BY <1>1, <1>2, <1>3

LEMMA LocalNumbers ==
  /\ \A k \in Locals, n \in Nat : [k EXCEPT !.bytes = n] \in Locals
  /\ \A k \in Locals, n \in Lengths : [k EXCEPT !.total = n] \in Locals
  /\ \A k \in Locals, n \in 0..StreamRetries : [k EXCEPT !.left = n] \in Locals
  BY DEF Locals

LEMMA LocalHandles ==
  /\ \A k \in Locals, h \in Handles : [k EXCEPT !.handle = h] \in Locals
  /\ \A k \in Locals, f \in {"none", "partial", "final", "gone"} : [k EXCEPT !.handle.file = f] \in Locals
  /\ \A k \in Locals, b \in BOOLEAN : [k EXCEPT !.handle.lost = b] \in Locals
  BY DEF Locals, Handles

\* A byte is written inside or at the end of a file, or past it.
LEMMA PutType ==
  ASSUME NEW f \in Seq(Bytes), NEW p \in Nat, NEW b \in Bytes
  PROVE  Put(f, p, b) \in Seq(Bytes)
<1>1. Hole \in Bytes
  BY DEF Bytes
<1>2. \A i \in 1..Len(f) : f[i] \in Bytes
  OBVIOUS
<1> DEFINE n == IF p < Len(f) THEN Len(f) ELSE p + 1
<1>3. n \in Nat
  OBVIOUS
<1>4. Put(f, p, b) \in [1..n -> Bytes]
  BY <1>1, <1>2, <1>3 DEF Put
<1>5. \A g \in [1..n -> Bytes] : g \in Seq(Bytes)
  BY <1>3, SMTT(30)
<1>6. QED
  BY <1>4, <1>5

LEMMA NextByte ==
  ASSUME TypeOK, NEW c \in Calls, call[c].bytes < Size[Url[c]]
  PROVE  Byte(Url[c], call[c].bytes + 1) \in Bytes
<1>1. call[c].bytes + 1 \in 1..Size[Url[c]] /\ Url[c] \in Urls
  BY DEF TypeOK, Locals
<1>2. QED
  BY <1>1 DEF Bytes

\* What cancels, the handles and the files become when a call ends or a name goes.
LEMMA CallForms ==
  ASSUME TypeOK, NEW c \in Calls
  PROVE  /\ \A l \in Stages : Goto(c, l) => call' \in [Calls -> Locals]
         /\ Returns(c) => call' \in [Calls -> Locals]
         /\ EndKeeping(c) => call' \in [Calls -> Locals]
         /\ StartCleanup(c) => call' \in [Calls -> Locals]
         /\ \A k \in Locals : [call EXCEPT ![c] = k] \in [Calls -> Locals]
<1>1. call \in [Calls -> Locals] /\ "ended" \in Stages /\ "cleanup" \in Stages
  BY DEF TypeOK, Stages
<1>2. \A l \in Stages : Goto(c, l) => call' \in [Calls -> Locals]
  BY <1>1, LocalForms DEF Goto
<1>3. Returns(c) => call' \in [Calls -> Locals]
  BY <1>1, LocalForms DEF Returns
<1>4. EndKeeping(c) => call' \in [Calls -> Locals]
  BY <1>3 DEF EndKeeping
<1>5. call[c].told \in BOOLEAN
  BY <1>1 DEF Locals
<1>6. StartCleanup(c) => call' \in [Calls -> Locals]
  BY <1>1, <1>5, LocalForms DEF StartCleanup
<1>7. \A k \in Locals : [call EXCEPT ![c] = k] \in [Calls -> Locals]
  BY <1>1
<1>8. QED
  BY <1>2, <1>3, <1>4, <1>6, <1>7

LEMMA RenamedType ==
  ASSUME TypeOK, NEW a \in {"partial", "final"}, NEW b \in {"final", "gone"}
  PROVE  Renamed(a, b) \in [Calls -> Locals]
<1>1. call \in [Calls -> Locals]
  BY DEF TypeOK
<1>2. ASSUME NEW d \in Calls
      PROVE  [call[d] EXCEPT !.handle.file = IF @ = a THEN b ELSE IF @ = b THEN "gone" ELSE @] \in Locals
  <2>1. call[d].handle.file \in {"none", "partial", "final", "gone"}
    BY <1>1 DEF Locals, Handles
  <2>2. QED
    BY <1>1, <2>1, LocalHandles
<1>3. QED
  BY <1>2 DEF Renamed

LEMMA RemovePartialType ==
  ASSUME TypeOK, NEW c \in Calls, NEW l \in Stages, NEW n \in Nat, RemovePartial(c, l, n)
  PROVE  call' \in [Calls -> Locals]
<1>1. Renamed("partial", "gone") \in [Calls -> Locals]
  BY RenamedType
<1>2. PICK g \in [Calls -> Locals] : call' = [g EXCEPT ![c].pc = l, ![c].bytes = n]
  BY <1>1 DEF RemovePartial
<1>3. [g[c] EXCEPT !.pc = l] \in Locals
  BY LocalForms
<1>4. [[g[c] EXCEPT !.pc = l] EXCEPT !.bytes = n] \in Locals
  BY <1>3, LocalNumbers
<1>5. QED
  BY <1>2, <1>4

LEMMA OnDiskType ==
  ASSUME TypeOK
  PROVE  OnDisk \in Nat /\ (partial # NoFile => OnDisk = Len(partial))
  BY DEF TypeOK, OnDisk

LEMMA MetaType ==
  ASSUME NEW c \in Calls, NEW n \in Lengths
  PROVE  Meta(c, n) \in Metas
  BY DEF Meta, Metas

LEMMA LocalFields ==
  ASSUME TypeOK, NEW c \in Calls
  PROVE  /\ call[c] \in Locals
         /\ call[c].pc \in Stages /\ call[c].bytes \in Nat /\ call[c].total \in Lengths
         /\ call[c].left \in 0..StreamRetries /\ call[c].handle \in Handles
         /\ call[c].told \in BOOLEAN
         /\ Url[c] \in Urls /\ Size[Url[c]] \in Nat \ {0}
  BY DEF TypeOK, Locals

\* The stages, by name.
LEMMA StageNames ==
  {"idle", "plan", "discard", "discardMeta", "record", "loop", "asking", "streaming",
   "check", "hash", "promote", "promoted", "cleanup", "cleanupPartial", "ended"} \subseteq Stages
  BY DEF Stages

LEMMA PlanType ==
  ASSUME TypeOK, NEW c \in Calls, Plan(c) PROVE call' \in [Calls -> Locals]
<1>1. PICK l \in Stages, n \in Lengths, b \in Nat :
        call' = [call EXCEPT ![c].pc = l, ![c].total = n, ![c].bytes = b]
  <2>1. (IF meta = NoMeta THEN Unknown ELSE meta.total) \in Lengths
    BY DEF TypeOK, Metas, Lengths
  <2>2. (IF Foreign(c) THEN 0 ELSE OnDisk) \in Nat
    BY OnDiskType
  <2>3. (IF ~(OnDisk = 0) /\ Foreign(c) THEN "discard" ELSE "record") \in Stages
    BY StageNames
  <2>4. QED
    BY <2>1, <2>2, <2>3 DEF Plan
<1>2. [call[c] EXCEPT !.pc = l] \in Locals
  BY LocalFields, LocalForms
<1>3. [[call[c] EXCEPT !.pc = l] EXCEPT !.total = n] \in Locals
  BY <1>2, LocalNumbers
<1>4. [[[call[c] EXCEPT !.pc = l] EXCEPT !.total = n] EXCEPT !.bytes = b] \in Locals
  BY <1>3, LocalNumbers
<1>5. QED
  BY <1>1, <1>4, CallForms DEF TypeOK

LEMMA RetryType ==
  ASSUME TypeOK, NEW c \in Calls, Retry(c) PROVE call' \in [Calls -> Locals]
<1>1. CASE EndKeeping(c)
  BY <1>1, CallForms
<1>2. CASE ~Last(c) /\ ~EndKeeping(c)
  <2>1. OnDisk \in Nat /\ Attempts(c) \in 0..StreamRetries
    BY <1>2, OnDiskType, LocalFields DEF Last, Attempts
  <2>2. NoHandle \in Handles
    BY DEF NoHandle, Handles
  <2>3. [call[c] EXCEPT !.pc = "loop"] \in Locals
    BY LocalFields, LocalForms, StageNames
  <2>4. [[call[c] EXCEPT !.pc = "loop"] EXCEPT !.bytes = OnDisk] \in Locals
    BY <2>1, <2>3, LocalNumbers
  <2>5. [[[call[c] EXCEPT !.pc = "loop"] EXCEPT !.bytes = OnDisk] EXCEPT !.left = Attempts(c)] \in Locals
    BY <2>1, <2>4, LocalNumbers
  <2>6. [[[[call[c] EXCEPT !.pc = "loop"] EXCEPT !.bytes = OnDisk] EXCEPT !.left = Attempts(c)]
          EXCEPT !.handle = NoHandle] \in Locals
    BY <2>2, <2>5, LocalHandles
  <2>7. call' = [call EXCEPT ![c].pc = "loop", ![c].bytes = OnDisk,
                             ![c].left = Attempts(c), ![c].handle = NoHandle]
    BY <1>2 DEF Retry
  <2>8. QED
    BY <2>6, <2>7, CallForms DEF TypeOK
<1>3. QED
  BY <1>1, <1>2 DEF Retry

LEMMA ToldType ==
  ASSUME TypeOK, NEW c \in Calls, NEW n \in Told(c) PROVE n \in Lengths
  BY LocalFields DEF Lengths, Told

LEMMA AnsweredType ==
  ASSUME TypeOK, NEW c \in Calls, NEW b \in {"range", "full"},
         NEW e \in 0..Size[Url[c]], NEW n \in Told(c), Answered(c, b, n, e)
  PROVE  call' \in [Calls -> Locals] /\ (meta' = NoMeta \/ meta' \in Metas)
<1>1. n \in Lengths
  BY ToldType
<1>2. meta' = NoMeta \/ meta' \in Metas
  BY <1>1, MetaType DEF Answered, TypeOK
<1>3. CASE StartCleanup(c)
  BY <1>2, <1>3, CallForms
<1>4. CASE ~StartCleanup(c)
  <2>1. PICK k \in Nat, h \in Handles :
          call' = [call EXCEPT ![c].pc = "streaming", ![c].bytes = k,
                               ![c].total = n, ![c].handle = h]
    <3>1. [body |-> b, end |-> e, mode |-> Mode(b), file |-> "partial", lost |-> FALSE] \in Handles
      BY DEF Mode, Handles
    <3>2. (IF b = "full" THEN 0 ELSE call[c].bytes) \in Nat
      BY LocalFields
    <3>3. call' = [call EXCEPT
             ![c].pc = "streaming",
             ![c].bytes = IF b = "full" THEN 0 ELSE @,
             ![c].total = n,
             ![c].handle = [body |-> b, end |-> e, mode |-> Mode(b), file |-> "partial", lost |-> FALSE]]
      BY <1>4 DEF Answered
    <3>4. call' = [call EXCEPT
             ![c].pc = "streaming",
             ![c].bytes = IF b = "full" THEN 0 ELSE call[c].bytes,
             ![c].total = n,
             ![c].handle = [body |-> b, end |-> e, mode |-> Mode(b), file |-> "partial", lost |-> FALSE]]
      BY <3>3, LocalFields DEF TypeOK, Locals
    <3>5. QED
      BY <3>1, <3>2, <3>4
  <2>2. [call[c] EXCEPT !.pc = "streaming"] \in Locals
    BY LocalFields, LocalForms, StageNames
  <2>3. [[call[c] EXCEPT !.pc = "streaming"] EXCEPT !.bytes = k] \in Locals
    BY <2>2, LocalNumbers
  <2>4. [[[call[c] EXCEPT !.pc = "streaming"] EXCEPT !.bytes = k] EXCEPT !.total = n] \in Locals
    BY <1>1, <2>3, LocalNumbers
  <2>5. [[[[call[c] EXCEPT !.pc = "streaming"] EXCEPT !.bytes = k] EXCEPT !.total = n]
          EXCEPT !.handle = h] \in Locals
    BY <2>4, LocalHandles
  <2>6. QED
    BY <1>2, <2>1, <2>5, CallForms DEF TypeOK
<1>5. QED
  BY <1>3, <1>4

\* A handle that names a file finds it there, and ends within the source.
HandlesOpen ==
  \A c \in Calls : /\ call[c].handle.file = "partial" => partial # NoFile
                   /\ call[c].handle.file = "final" => final # NoFile
                   /\ call[c].handle.end <= Size[Url[c]]

LEMMA ChunkType ==
  ASSUME TypeOK, HandlesOpen, NEW c \in Calls, Chunk(c)
  PROVE  /\ call' \in [Calls -> Locals]
         /\ (partial = NoFile /\ partial' = NoFile) \/ partial' \in Seq(Bytes)
         /\ (final = NoFile /\ final' = NoFile) \/ final' \in Seq(Bytes)
<1>1. CASE StartCleanup(c) /\ UNCHANGED <<partial, final>>
  BY <1>1, CallForms DEF TypeOK
<1>2. ASSUME NEW lost \in BOOLEAN,
             IF lost THEN UNCHANGED <<partial, final>> ELSE Write(c),
             call' = [call EXCEPT ![c].bytes = @ + 1, ![c].handle.lost = lost]
      PROVE  /\ call' \in [Calls -> Locals]
             /\ (partial = NoFile /\ partial' = NoFile) \/ partial' \in Seq(Bytes)
             /\ (final = NoFile /\ final' = NoFile) \/ final' \in Seq(Bytes)
  <2>1. Byte(Url[c], call[c].bytes + 1) \in Bytes
    <3>1. call[c].bytes < Size[Url[c]]
      BY LocalFields DEF Chunk, HandlesOpen, Handles
    <3>2. QED
      BY <3>1, NextByte
  <2>2. call[c].bytes \in Nat /\ call[c].bytes + 1 \in Nat
    BY LocalFields
  <2>3. [call[c] EXCEPT !.bytes = call[c].bytes + 1] \in Locals
    BY <2>2, LocalFields, LocalNumbers
  <2>4. call' \in [Calls -> Locals]
    <3>1. [[call[c] EXCEPT !.bytes = call[c].bytes + 1] EXCEPT !.handle.lost = lost] \in Locals
      BY <2>3, LocalHandles
    <3>2. call' = [call EXCEPT ![c] = [[call[c] EXCEPT !.bytes = call[c].bytes + 1]
                                        EXCEPT !.handle.lost = lost]]
      BY <1>2, LocalFields DEF TypeOK, Locals
    <3>3. QED
      BY <3>1, <3>2, CallForms
  <2>5. ASSUME NEW f \in Seq(Bytes)
        PROVE  Put(f, IF call[c].handle.mode = "append" THEN Len(f) ELSE call[c].bytes,
                   Byte(Url[c], call[c].bytes + 1)) \in Seq(Bytes)
    <3>1. (IF call[c].handle.mode = "append" THEN Len(f) ELSE call[c].bytes) \in Nat
      BY <2>2
    <3>2. QED
      BY <2>1, <3>1, PutType
  <2>6. /\ call[c].handle.file = "partial" => partial \in Seq(Bytes)
        /\ call[c].handle.file = "final" => final \in Seq(Bytes)
    BY DEF TypeOK, HandlesOpen
  <2>7. CASE ~lost
    <3>1. /\ (partial = NoFile /\ partial' = NoFile) \/ partial' \in Seq(Bytes)
          /\ (final = NoFile /\ final' = NoFile) \/ final' \in Seq(Bytes)
      BY <2>5, <2>6, <2>7, <1>2 DEF Write, TypeOK
    <3>2. QED
      BY <2>4, <3>1
  <2>8. CASE lost
    BY <1>2, <2>4, <2>8 DEF TypeOK
  <2>9. QED
    BY <2>7, <2>8
<1>3. QED
  BY <1>1, <1>2 DEF Chunk

LEMMA StreamEndsType ==
  ASSUME TypeOK, NEW c \in Calls, StreamEnds(c) PROVE call' \in [Calls -> Locals]
<1>1. CASE Retry(c)
  BY <1>1, RetryType
<1>2. CASE call' = [call EXCEPT ![c].pc = "check", ![c].handle = NoHandle]
  <2>1. NoHandle \in Handles
    BY DEF NoHandle, Handles
  <2>2. [call[c] EXCEPT !.pc = "check"] \in Locals
    BY LocalFields, LocalForms, StageNames
  <2>3. [[call[c] EXCEPT !.pc = "check"] EXCEPT !.handle = NoHandle] \in Locals
    BY <2>1, <2>2, LocalHandles
  <2>4. QED
    BY <1>2, <2>3, CallForms DEF TypeOK
<1>3. QED
  BY <1>1, <1>2 DEF StreamEnds

LEMMA PromoteType ==
  ASSUME TypeOK, NEW c \in Calls, Promote(c) PROVE call' \in [Calls -> Locals]
<1>1. CASE StartCleanup(c)
  BY <1>1, CallForms
<1>2. CASE call' = [Renamed("partial", "final") EXCEPT ![c].pc = "promoted"]
  <2>1. Renamed("partial", "final") \in [Calls -> Locals]
    BY RenamedType
  <2>2. PICK g \in [Calls -> Locals] : call' = [g EXCEPT ![c].pc = "promoted"]
    BY <1>2, <2>1
  <2>3. [g[c] EXCEPT !.pc = "promoted"] \in Locals
    BY LocalForms, StageNames
  <2>4. QED
    BY <2>2, <2>3
<1>3. QED
  BY <1>1, <1>2 DEF Promote

LEMMA CancelType ==
  ASSUME TypeOK, CancelDownload PROVE call' \in [Calls -> Locals]
<1>1. cancels \in Calls /\ Running(cancels) \in BOOLEAN
  BY DEF CancelDownload, TypeOK, Running, At
<1>2. [call[cancels] EXCEPT !.told = Running(cancels)] \in Locals
  BY <1>1, LocalFields, LocalForms
<1>3. QED
  BY <1>1, <1>2, CallForms DEF CancelDownload, TypeOK

LEMMA CrashType ==
  ASSUME TypeOK, Crash PROVE call' \in [Calls -> Locals]
<1>1. Local("ended") \in Locals
  BY LocalForms, StageNames
<1>2. QED
  BY <1>1 DEF Crash, TypeOK

\* The types of the calls' variables and of the files are kept by every step.
LEMMA TypeStep ==
  ASSUME TypeOK, HandlesOpen, [Next]_vars PROVE TypeOK'
<1> USE DEF disk
<1>1. CASE UNCHANGED vars
  BY <1>1 DEF vars, TypeOK
<1>2. CASE CancelDownload
  BY <1>2, CancelType DEF CancelDownload, TypeOK
<1>3. CASE Crash
  BY <1>3, CrashType DEF Crash, TypeOK
<1>4. ASSUME NEW c \in Calls, Start(c) \/ Step(c) PROVE TypeOK'
  <2>1. CASE Start(c)
    BY <2>1, CallForms, StageNames DEF Start, TypeOK
  <2>2. CASE Plan(c)
    BY <2>2, PlanType DEF Plan, TypeOK
  <2>3. CASE DiscardPartial(c)
    <3>1. call' \in [Calls -> Locals]
      BY <2>3, RemovePartialType, StageNames DEF DiscardPartial
    <3>2. QED
      BY <2>3, <3>1 DEF DiscardPartial, RemovePartial, TypeOK
  <2>4. CASE DiscardMeta(c)
    BY <2>4, CallForms, StageNames DEF DiscardMeta, TypeOK
  <2>5. CASE Record(c)
    BY <2>5, CallForms, StageNames, MetaType, LocalFields DEF Record, TypeOK
  <2>6. CASE CheckCancel(c)
    BY <2>6, CallForms, StageNames DEF CheckCancel, StartCleanup, TypeOK
  <2>7. CASE AskFails(c)
    BY <2>7, CallForms, StageNames DEF AskFails, StartCleanup, EndKeeping, TypeOK
  <2>8. CASE AskUnsatisfiable(c)
    <3>1. call' \in [Calls -> Locals]
      BY <2>8, RemovePartialType, StageNames DEF AskUnsatisfiable
    <3>2. QED
      BY <2>8, <3>1 DEF AskUnsatisfiable, RemovePartial, TypeOK
  <2>9. CASE \E b \in {"range", "full"}, e \in 0..Size[Url[c]], n \in Told(c) : Answered(c, b, n, e)
    <3>1. PICK b \in {"range", "full"}, e \in 0..Size[Url[c]], n \in Told(c) : Answered(c, b, n, e)
      BY <2>9
    <3>2. call' \in [Calls -> Locals] /\ (meta' = NoMeta \/ meta' \in Metas)
      BY <3>1, AnsweredType
    <3>3. (partial' = NoFile \/ partial' \in Seq(Bytes)) /\ blind' \in BOOLEAN
      <4>1. << >> \in Seq(Bytes)
        OBVIOUS
      <4>2. QED
        BY <4>1, <3>1 DEF Answered, TypeOK
    <3>4. final' = final /\ crashes' = crashes /\ cancels' = cancels
      BY <3>1 DEF Answered, StartCleanup
    <3>5. QED
      BY <3>2, <3>3, <3>4 DEF TypeOK
  <2>10. CASE Chunk(c)
    BY <2>10, ChunkType DEF Chunk, StartCleanup, TypeOK
  <2>11. CASE StreamError(c)
    BY <2>11, RetryType, CallForms DEF StreamError, StartCleanup, Retry, EndKeeping, TypeOK
  <2>12. CASE StreamEnds(c)
    BY <2>12, StreamEndsType DEF StreamEnds, Retry, EndKeeping, TypeOK
  <2>13. CASE CheckLength(c)
    BY <2>13, CallForms, StageNames DEF CheckLength, EndKeeping, TypeOK
  <2>14. CASE CheckHash(c)
    BY <2>14, CallForms, StageNames DEF CheckHash, StartCleanup, TypeOK
  <2>15. CASE Promote(c)
    BY <2>15, PromoteType DEF Promote, StartCleanup, TypeOK
  <2>16. CASE Finish(c)
    BY <2>16, CallForms DEF Finish, EndKeeping, TypeOK
  <2>17. CASE CleanupMeta(c)
    BY <2>17, CallForms, StageNames DEF CleanupMeta, TypeOK
  <2>18. CASE CleanupPartial(c)
    <3>1. call' \in [Calls -> Locals]
      BY <2>18, RemovePartialType, StageNames DEF CleanupPartial
    <3>2. QED
      BY <2>18, <3>1 DEF CleanupPartial, RemovePartial, TypeOK
  <2>19. QED
    BY <1>4, <2>1, <2>2, <2>3, <2>4, <2>5, <2>6, <2>7, <2>8, <2>9, <2>10, <2>11, <2>12, <2>13,
       <2>14, <2>15, <2>16, <2>17, <2>18 DEF Step
<1>5. QED
  BY <1>1, <1>2, <1>3, <1>4 DEF Next

\* No call gets a handle, and no other file than it had.
Loosens ==
  \A d \in Calls : /\ call'[d].handle.file \in {call[d].handle.file, "none"}
                   /\ call'[d].handle.end \in {call[d].handle.end, 0}

LEMMA LooseForms ==
  ASSUME TypeOK, NEW c \in Calls
  PROVE  /\ \A l \in Stages : Goto(c, l) => Loosens
         /\ Returns(c) => Loosens
         /\ StartCleanup(c) => Loosens
         /\ Retry(c) => Loosens
         /\ StreamEnds(c) => Loosens
<1>1. /\ call \in [Calls -> Locals] /\ NoHandle.file = "none" /\ NoHandle.end = 0
      /\ \A l : Local(l).handle.file = "none" /\ Local(l).handle.end = 0
  BY DEF TypeOK, NoHandle, Local
<1>2. \A l \in Stages : Goto(c, l) => Loosens
  BY <1>1 DEF Goto, Loosens, Locals
<1>3. Returns(c) => Loosens
  BY <1>1 DEF Returns, Loosens
<1>4. /\ [Local("cleanup") EXCEPT !.told = call[c].told].handle.file = "none"
      /\ [Local("cleanup") EXCEPT !.told = call[c].told].handle.end = 0
  BY DEF Local, NoHandle
<1>5. StartCleanup(c) => Loosens
  BY <1>1, <1>4 DEF StartCleanup, Loosens
<1>6. Retry(c) => Loosens
  <2>1. CASE EndKeeping(c)
    BY <1>3, <2>1 DEF EndKeeping
  <2>2. CASE call' = [call EXCEPT ![c].pc = "loop", ![c].bytes = OnDisk,
                             ![c].left = Attempts(c), ![c].handle = NoHandle]
    BY <1>1, <2>2 DEF Loosens, Locals
  <2>3. QED
    BY <2>1, <2>2 DEF Retry
<1>7. StreamEnds(c) => Loosens
  <2>1. CASE call' = [call EXCEPT ![c].pc = "check", ![c].handle = NoHandle]
    BY <1>1, <2>1 DEF Loosens, Locals
  <2>2. QED
    BY <1>6, <2>1 DEF StreamEnds
<1>8. QED
  BY <1>2, <1>3, <1>5, <1>6, <1>7

\* A step that opens no handle and removes no name keeps every handle open.
LEMMA LooseStep ==
  ASSUME HandlesOpen, Loosens, partial' = NoFile => partial = NoFile,
         final' = NoFile => final = NoFile
  PROVE  HandlesOpen'
  BY DEF HandlesOpen, Loosens

LEMMA RenamedHandles ==
  ASSUME TypeOK, NEW c \in Calls, NEW a \in {"partial", "final"}, NEW b \in {"final", "gone"}
  PROVE  /\ Renamed(a, b)[c].handle.file
              = LET f == call[c].handle.file IN IF f = a THEN b ELSE IF f = b THEN "gone" ELSE f
         /\ Renamed(a, b)[c].handle.end = call[c].handle.end
<1>1. call[c] \in Locals
  BY LocalFields
<1>2. LET k == [call[c] EXCEPT !.handle.file = IF @ = a THEN b ELSE IF @ = b THEN "gone" ELSE @]
          f == call[c].handle.file
      IN /\ k.handle.file = IF f = a THEN b ELSE IF f = b THEN "gone" ELSE f
         /\ k.handle.end = call[c].handle.end
  BY <1>1 DEF Locals, Handles
<1>3. QED
  BY <1>2 DEF Renamed

\* Where a call's file goes when the partial is removed.
LEMMA RemovePartialHandles ==
  ASSUME TypeOK, HandlesOpen, NEW c \in Calls, NEW l \in Stages, NEW n \in Nat,
         RemovePartial(c, l, n), final' = final
  PROVE  HandlesOpen'
<1>1. ASSUME NEW d \in Calls
      PROVE  call'[d].handle.file \in {"none", "final", "gone"} /\
             (call'[d].handle.file = "final" => call[d].handle.file = "final") /\
             call'[d].handle.end = call[d].handle.end
  <2>1. Renamed("partial", "gone") \in [Calls -> Locals]
    BY RenamedType
  <2>2. /\ call'[d].handle.file = Renamed("partial", "gone")[d].handle.file
        /\ call'[d].handle.end = Renamed("partial", "gone")[d].handle.end
    BY <2>1 DEF RemovePartial, Locals
  <2>3. call[d].handle.file \in {"none", "partial", "final", "gone"}
    BY LocalFields DEF Handles
  <2>4. Renamed("partial", "gone")[d].handle.file
          = IF call[d].handle.file = "partial" THEN "gone"
            ELSE IF call[d].handle.file = "gone" THEN "gone" ELSE call[d].handle.file
    BY RenamedHandles
  <2>6. Renamed("partial", "gone")[d].handle.end = call[d].handle.end
    BY RenamedHandles
  <2>5. QED
    BY <2>2, <2>3, <2>4, <2>6
<1>2. QED
  BY <1>1 DEF HandlesOpen

\* What a step leaves in the handles of the calls.
LEMMA HandlesStep ==
  ASSUME TypeOK, HandlesOpen, [Next]_vars PROVE HandlesOpen'
<1> USE DEF disk
<1>t. call \in [Calls -> Locals]
  BY DEF TypeOK
<1>1. CASE UNCHANGED vars
  BY <1>1 DEF vars, HandlesOpen
<1>2. CASE CancelDownload
  BY <1>t, <1>2 DEF CancelDownload, HandlesOpen, Locals
<1>3. CASE Crash
  BY <1>t, <1>3 DEF Crash, HandlesOpen, Local, NoHandle
<1>4. ASSUME NEW c \in Calls, Start(c) \/ Step(c) PROVE HandlesOpen'
  <2>1. CASE Start(c) \/ DiscardMeta(c) \/ CleanupMeta(c)
    BY <2>1, LooseForms, LooseStep, StageNames DEF Start, DiscardMeta, CleanupMeta
  <2>2. CASE Plan(c)
    BY <1>t, <2>2 DEF Plan, HandlesOpen, Locals
  <2>3. CASE DiscardPartial(c) \/ AskUnsatisfiable(c) \/ CleanupPartial(c)
    BY <2>3, RemovePartialHandles, StageNames DEF DiscardPartial, AskUnsatisfiable, CleanupPartial
  <2>4. CASE Record(c) \/ Finish(c)
    BY <2>4, LooseForms, LooseStep, StageNames DEF Record, Finish, EndKeeping
  <2>5. CASE CheckCancel(c) \/ AskFails(c)
    BY <2>5, LooseForms, LooseStep, StageNames DEF CheckCancel, AskFails, EndKeeping
  <2>6. CASE CheckLength(c) \/ CheckHash(c)
    BY <2>6, LooseForms, LooseStep, StageNames DEF CheckLength, CheckHash, EndKeeping
  <2>7. CASE \E b \in {"range", "full"}, e \in 0..Size[Url[c]], n \in Told(c) : Answered(c, b, n, e)
    <3>1. PICK b \in {"range", "full"}, e \in 0..Size[Url[c]], n \in Told(c) : Answered(c, b, n, e)
      BY <2>7
    <3>2. CASE StartCleanup(c) /\ partial' = partial
      BY <3>1, <3>2, LooseForms, LooseStep DEF Answered
    <3>3. CASE ~(StartCleanup(c) /\ partial' = partial)
      <4>1. \A d \in Calls : d # c => call'[d] = call[d]
        BY <1>t, <3>1, <3>3 DEF Answered
      <4>2. call'[c].handle.file = "partial" /\ call'[c].handle.end = e
        BY <1>t, <3>1, <3>3 DEF Answered, Locals
      <4>3. << >> \in Seq(Bytes)
        OBVIOUS
      <4>4. final' = final /\ partial' # NoFile
        BY <3>1, <3>3, <4>3 DEF Answered
      <4>5. QED
        BY <4>1, <4>2, <4>4, LocalFields DEF HandlesOpen
    <3>4. QED
      BY <3>2, <3>3
  <2>8. CASE Chunk(c)
    <3>1. CASE StartCleanup(c) /\ UNCHANGED <<partial, final>>
      BY <3>1, LooseForms, LooseStep
    <3>2. ASSUME NEW lost \in BOOLEAN,
                 call' = [call EXCEPT ![c].bytes = @ + 1, ![c].handle.lost = lost]
          PROVE  HandlesOpen'
      <4>1. Loosens
        BY <1>t, <3>2 DEF Loosens, Locals, Handles
      <4>2. QED
        BY <2>8, <4>1, ChunkType, LooseStep
    <3>3. QED
      BY <2>8, <3>1, <3>2 DEF Chunk
  <2>9. CASE StreamError(c) \/ StreamEnds(c)
    BY <2>9, LooseForms, LooseStep DEF StreamError, StreamEnds
  <2>10. CASE Promote(c)
    <3>1. CASE StartCleanup(c) /\ UNCHANGED <<partial, final>>
      BY <3>1, LooseForms, LooseStep
    <3>2. CASE ~(StartCleanup(c) /\ UNCHANGED <<partial, final>>)
      <4>1. Renamed("partial", "final") \in [Calls -> Locals]
        BY RenamedType
      <4>2. \A d \in Calls : /\ call'[d].handle.file = Renamed("partial", "final")[d].handle.file
                             /\ call'[d].handle.end = Renamed("partial", "final")[d].handle.end
        <5>1. call' = [Renamed("partial", "final") EXCEPT ![c].pc = "promoted"]
          BY <2>10, <3>2 DEF Promote
        <5>2. QED
          BY <4>1, <5>1 DEF Locals
      <4>3. \A d \in Calls : /\ call'[d].handle.file # "partial"
                             /\ call'[d].handle.end = call[d].handle.end
        BY <4>2, RenamedHandles
      <4>4. final' # NoFile
        BY <2>10, <3>2 DEF Promote
      <4>5. QED
        BY <4>3, <4>4 DEF HandlesOpen
    <3>3. QED
      BY <3>1, <3>2
  <2>11. QED
    BY <1>4, <2>1, <2>2, <2>3, <2>4, <2>5, <2>6, <2>7, <2>8, <2>9, <2>10 DEF Step
<1>5. QED
  BY <1>1, <1>2, <1>3, <1>4 DEF Next

LEMMA TypesInit ==
  ASSUME Init PROVE TypeOK /\ HandlesOpen
<1>1. Local("idle") \in Locals
  BY LocalForms, StageNames
<1>2. TypeOK
  BY <1>1 DEF Init, TypeOK
<1>3. HandlesOpen
  <2>1. \A c \in Calls : call[c].handle.file = "none" /\ call[c].handle.end = 0
    BY DEF Init, Local, NoHandle
  <2>2. ASSUME NEW c \in Calls PROVE 0 <= Size[Url[c]]
    BY <1>2, LocalFields
  <2>4. QED
    BY <2>1, <2>2 DEF HandlesOpen
<1>4. QED
  BY <1>2, <1>3

LEMMA TypesAlways == Spec => [](TypeOK /\ HandlesOpen)
<1>1. TypeOK /\ HandlesOpen /\ [Next]_vars => (TypeOK /\ HandlesOpen)'
  BY TypeStep, HandlesStep
<1>2. QED
  BY <1>1, TypesInit, PTL DEF Spec

\* The calls' variables and the files keep their types, whatever runs at once.
THEOREM TypeCorrect == Spec => []TypeOK
  BY TypesAlways, PTL

-----------------------------------------------------------------------------
(* One call at a time: what the meta says of the partial holds, and what is  *)
(* promoted comes from the source.  The strengthening follows a call: its    *)
(* offset is the length of the partial, but for a last write that failed, a  *)
(* body ends within its source, and from the time its url is on record the   *)
(* meta is its own.                                                          *)

Prefixed(u) ==
  partial # NoFile =>
    \A i \in 1..Len(partial) : i <= Size[u] /\ partial[i] = Byte(u, i)

Resuming == {"discardMeta", "record", "loop", "asking"}
Recorded == {"loop", "asking", "streaming", "check", "hash", "promote"}
Complete == {"check", "hash", "promote"}

Alone == \A c, d \in Calls : Running(c) /\ Running(d) => c = d

CallInv(c) ==
  LET k == call[c] IN
  /\ k.pc \in Resuming => k.bytes = OnDisk
  /\ k.pc = "discardMeta" => partial = NoFile
  /\ k.pc = "record" => blind \/ Prefixed(Url[c])
  /\ k.pc \in Recorded => meta # NoMeta /\ meta.url = Url[c]
  /\ k.pc = "streaming" =>
       /\ partial # NoFile /\ k.handle.file = "partial"
       /\ k.handle.end <= Size[Url[c]] /\ k.bytes <= k.handle.end
       /\ k.bytes = OnDisk + IF k.handle.lost THEN 1 ELSE 0
  /\ k.pc \in Complete => partial # NoFile /\ Len(partial) <= Size[Url[c]]
  /\ k.pc \in {"hash", "promote"} /\ k.total = Size[Url[c]] => Len(partial) = Size[Url[c]]
  /\ k.pc = "promote" /\ c \in Checked => partial = Whole(Url[c])

SerialInv == Alone /\ MetaNamesPartial /\ \A c \in Calls : CallInv(c)

\* A step of a call is taken while it runs, and moves no other.
LEMMA OwnStage ==
  ASSUME TypeOK, NEW c \in Calls, NEW d \in Calls, d # c
  PROVE  /\ \A l \in Stages : Goto(c, l) => call'[d] = call[d]
         /\ Returns(c) => call'[d] = call[d]
         /\ StartCleanup(c) => call'[d] = call[d]
         /\ Retry(c) => call'[d] = call[d]
         /\ \A l \in Stages, n \in Nat : RemovePartial(c, l, n) => call'[d].pc = call[d].pc
<1>1. call \in [Calls -> Locals]
  BY DEF TypeOK
<1>2. Renamed("partial", "gone")[d].pc = call[d].pc
  BY <1>1 DEF Renamed, Locals
<1>3. Renamed("partial", "gone") \in [Calls -> Locals]
  BY RenamedType
<1>4. \A l \in Stages, n \in Nat : RemovePartial(c, l, n) => call'[d].pc = call[d].pc
  BY <1>2, <1>3 DEF RemovePartial
<1>5. QED
  BY <1>1, <1>4 DEF Goto, Returns, StartCleanup, Retry, EndKeeping

LEMMA OwnSteps ==
  ASSUME TypeOK, NEW c \in Calls, NEW d \in Calls, d # c, Start(c) \/ Step(c)
  PROVE  call'[d].pc = call[d].pc
<1>1. call \in [Calls -> Locals]
  BY DEF TypeOK
<1>2. CASE Start(c) \/ DiscardMeta(c) \/ CleanupMeta(c) \/ Record(c) \/ Finish(c)
  BY <1>2, OwnStage, StageNames DEF Start, DiscardMeta, CleanupMeta, Record, Finish, EndKeeping
<1>3. CASE Plan(c)
  BY <1>1, <1>3 DEF Plan
<1>4. CASE DiscardPartial(c) \/ AskUnsatisfiable(c) \/ CleanupPartial(c)
  BY <1>4, OwnStage, StageNames DEF DiscardPartial, AskUnsatisfiable, CleanupPartial
<1>5. CASE CheckCancel(c) \/ AskFails(c) \/ CheckLength(c) \/ CheckHash(c)
  BY <1>5, OwnStage, StageNames DEF CheckCancel, AskFails, CheckLength, CheckHash, EndKeeping
<1>6. CASE \E b \in {"range", "full"}, e \in 0..Size[Url[c]], n \in Told(c) : Answered(c, b, n, e)
  BY <1>1, <1>6, OwnStage DEF Answered
<1>7. CASE Chunk(c)
  BY <1>1, <1>7, OwnStage DEF Chunk
<1>8. CASE StreamError(c) \/ StreamEnds(c)
  BY <1>1, <1>8, OwnStage DEF StreamError, StreamEnds
<1>9. CASE Promote(c)
  <2>1. CASE StartCleanup(c)
    BY <2>1, OwnStage
  <2>2. CASE call' = [Renamed("partial", "final") EXCEPT ![c].pc = "promoted"]
    <3>1. Renamed("partial", "final")[d].pc = call[d].pc
      BY <1>1 DEF Renamed, Locals
    <3>2. Renamed("partial", "final") \in [Calls -> Locals]
      BY RenamedType
    <3>3. QED
      BY <2>2, <3>1, <3>2
  <2>3. QED
    BY <1>9, <2>1, <2>2 DEF Promote
<1>10. QED
  BY <1>2, <1>3, <1>4, <1>5, <1>6, <1>7, <1>8, <1>9 DEF Step

LEMMA StepRuns ==
  ASSUME NEW c \in Calls, Step(c) PROVE Running(c)
  BY DEF Step, Plan, DiscardPartial, DiscardMeta, Record, CheckCancel, AskFails,
     AskUnsatisfiable, Answered, Chunk, StreamError, StreamEnds, CheckLength, CheckHash,
     Promote, Finish, CleanupMeta, CleanupPartial, Running, At

\* When calls do not overlap, the one that takes a step is the only one running.
LEMMA AloneStep ==
  ASSUME TypeOK, Alone, ~Overlap, NEW c \in Calls, Start(c) \/ Step(c)
  PROVE  \A d \in Calls : d # c => ~Running(d) /\ ~Running(d)'
<1>1. \A d \in Calls : d # c => ~Running(d)
  BY StepRuns DEF Alone, Start
<1>2. QED
  BY <1>1, OwnSteps DEF Running, At

\* A call that has not come to the partial, or has done with it, keeps nothing.
LEMMA InertCalls ==
  ASSUME NEW c \in Calls, call'[c].pc \notin Resuming \cup Recorded PROVE CallInv(c)'
  BY DEF CallInv, Resuming, Recorded, Complete

\* How the acting call's variables follow from the form of its step.
LEMMA GotoFields ==
  ASSUME TypeOK, NEW c \in Calls, NEW l \in Stages, Goto(c, l)
  PROVE  /\ call'[c].pc = l /\ call'[c].bytes = call[c].bytes
         /\ call'[c].total = call[c].total /\ call'[c].handle = call[c].handle
<1>1. call \in [Calls -> Locals]
  BY DEF TypeOK
<1>2. QED
  BY <1>1 DEF Goto, Locals

LEMMA EndFields ==
  ASSUME TypeOK, NEW c \in Calls, Returns(c) \/ EndKeeping(c) \/ StartCleanup(c)
  PROVE  CallInv(c)'
<1>1. call \in [Calls -> Locals]
  BY DEF TypeOK
<1>2. [Local("cleanup") EXCEPT !.told = call[c].told].pc = "cleanup"
  BY DEF Local
<1>3. call'[c].pc \in {"ended", "cleanup"}
  BY <1>1, <1>2 DEF Returns, EndKeeping, StartCleanup, Local
<1>4. QED
  BY <1>3, InertCalls DEF Resuming, Recorded

LEMMA RemoveFields ==
  ASSUME TypeOK, NEW c \in Calls, NEW l \in Stages, NEW n \in Nat, RemovePartial(c, l, n)
  PROVE  call'[c].pc = l /\ call'[c].bytes = n /\ partial' = NoFile /\ OnDisk' = 0
<1>1. Renamed("partial", "gone") \in [Calls -> Locals]
  BY RenamedType
<1>2. QED
  BY <1>1 DEF RemovePartial, Locals, OnDisk

LEMMA PlanSerial ==
  ASSUME TypeOK, MetaNamesPartial, NEW c \in Calls, Plan(c)
  PROVE  CallInv(c)' /\ MetaNamesPartial'
<1>1. call \in [Calls -> Locals]
  BY DEF TypeOK
<1>2. call'[c].pc = (IF OnDisk # 0 /\ Foreign(c) THEN "discard" ELSE "record")
  BY <1>1 DEF Plan, Locals
<1>3. call'[c].bytes = (IF Foreign(c) THEN 0 ELSE OnDisk)
  BY <1>1 DEF Plan, Locals
<1>4. partial' = partial /\ meta' = meta /\ blind' = (blind \/ (OnDisk # 0 /\ meta = NoMeta))
  BY DEF Plan, disk
<1>5. OnDisk' = OnDisk
  BY <1>4 DEF OnDisk
<1>6. MetaNamesPartial'
  BY <1>4 DEF MetaNamesPartial
<1>7. CASE OnDisk # 0 /\ Foreign(c)
  BY <1>2, <1>6, <1>7, InertCalls DEF Resuming, Recorded
<1>8. CASE ~(OnDisk # 0 /\ Foreign(c))
  <2>3. (blind \/ Prefixed(Url[c]))'
    <3>1. CASE OnDisk = 0
      <4>1. partial # NoFile => Len(partial) = 0
        BY <3>1, OnDiskType
      <4>2. QED
        BY <4>1, <1>4 DEF Prefixed
    <3>2. CASE OnDisk # 0 /\ ~Foreign(c)
      BY <3>2, <1>4 DEF Prefixed, MetaNamesPartial, Foreign
    <3>3. QED
      BY <1>8, <3>1, <3>2
  <2>4. call'[c].pc = "record" /\ call'[c].bytes = OnDisk'
    BY <1>2, <1>3, <1>5, <1>8
  <2>5. QED
    BY <1>6, <2>3, <2>4 DEF CallInv, Resuming, Recorded, Complete
<1>9. QED
  BY <1>7, <1>8

LEMMA RecordSerial ==
  ASSUME TypeOK, MetaNamesPartial, NEW c \in Calls, CallInv(c), Record(c)
  PROVE  CallInv(c)' /\ MetaNamesPartial'
<1>1. CASE meta' = Meta(c, call[c].total) /\ Goto(c, "loop")
  <2>1. call'[c].pc = "loop" /\ call'[c].bytes = call[c].bytes
    BY <1>1, GotoFields, StageNames
  <2>2. call[c].bytes = OnDisk /\ OnDisk' = OnDisk
    BY DEF Record, At, CallInv, Resuming, OnDisk
  <2>3. meta' \in Metas /\ meta'.url = Url[c]
    BY <1>1, MetaType, LocalFields DEF Meta
  <2>4. MetaNamesPartial'
    BY <2>3 DEF Record, At, CallInv, Prefixed, MetaNamesPartial
  <2>5. QED
    BY <2>1, <2>2, <2>3, <2>4 DEF CallInv, Recorded, Complete, Resuming
<1>2. CASE UNCHANGED meta /\ Returns(c)
  BY <1>2, EndFields DEF Record, MetaNamesPartial
<1>3. QED
  BY <1>1, <1>2 DEF Record

LEMMA DiscardSerial ==
  ASSUME TypeOK, MetaNamesPartial, NEW c \in Calls, CallInv(c), DiscardPartial(c) \/ DiscardMeta(c)
  PROVE  CallInv(c)' /\ MetaNamesPartial'
<1>1. CASE DiscardPartial(c)
  <2>1. call'[c].pc = "discardMeta" /\ call'[c].bytes = 0 /\ partial' = NoFile /\ OnDisk' = 0
    BY <1>1, RemoveFields, StageNames DEF DiscardPartial
  <2>2. QED
    BY <2>1 DEF CallInv, Resuming, Recorded, Complete, MetaNamesPartial
<1>2. CASE DiscardMeta(c)
  <2>1. call'[c].pc = "record" /\ call'[c].bytes = call[c].bytes
    BY <1>2, GotoFields, StageNames DEF DiscardMeta
  <2>2. partial = NoFile /\ partial' = NoFile /\ meta' = NoMeta /\ OnDisk' = OnDisk /\ call[c].bytes = OnDisk
    BY <1>2 DEF DiscardMeta, At, CallInv, Resuming, OnDisk
  <2>3. Prefixed(Url[c])'
    BY <2>2 DEF Prefixed
  <2>4. QED
    BY <2>1, <2>2, <2>3 DEF CallInv, Resuming, Recorded, Complete, MetaNamesPartial
<1>3. QED
  BY <1>1, <1>2

LEMMA AskSerial ==
  ASSUME TypeOK, MetaNamesPartial, NEW c \in Calls, CallInv(c),
         CheckCancel(c) \/ AskFails(c) \/ AskUnsatisfiable(c)
  PROVE  CallInv(c)' /\ MetaNamesPartial'
<1>1. CASE CheckCancel(c)
  <2>1. UNCHANGED disk /\ blind' = blind
    BY <1>1 DEF CheckCancel
  <2>2. MetaNamesPartial' /\ OnDisk' = OnDisk
    BY <2>1 DEF MetaNamesPartial, disk, OnDisk
  <2>3. CASE StartCleanup(c)
    BY <2>2, <2>3, EndFields
  <2>4. CASE Goto(c, "asking")
    <3>1. call'[c].pc = "asking" /\ call'[c].bytes = call[c].bytes
      BY <2>4, GotoFields, StageNames
    <3>2. call[c].bytes = OnDisk /\ meta # NoMeta /\ meta.url = Url[c]
      BY <1>1 DEF CheckCancel, At, CallInv, Resuming, Recorded
    <3>3. QED
      BY <2>1, <2>2, <3>1, <3>2 DEF CallInv, Resuming, Recorded, Complete, disk
  <2>5. QED
    BY <1>1, <2>3, <2>4 DEF CheckCancel
<1>2. CASE AskFails(c)
  BY <1>2, EndFields DEF AskFails, MetaNamesPartial, disk
<1>3. CASE AskUnsatisfiable(c)
  <2>1. call'[c].pc = "asking" /\ call'[c].bytes = 0 /\ partial' = NoFile /\ OnDisk' = 0
    BY <1>3, RemoveFields, StageNames DEF AskUnsatisfiable
  <2>2. meta' = meta /\ meta # NoMeta /\ meta.url = Url[c]
    BY <1>3 DEF AskUnsatisfiable, At, CallInv, Recorded
  <2>3. QED
    BY <2>1, <2>2 DEF CallInv, Resuming, Recorded, Complete, MetaNamesPartial
<1>4. QED
  BY <1>1, <1>2, <1>3

LEMMA AnsweredSerial ==
  ASSUME TypeOK, MetaNamesPartial, NEW c \in Calls, CallInv(c), NEW b \in {"range", "full"},
         NEW e \in 0..Size[Url[c]], NEW n \in Told(c), Answered(c, b, n, e)
  PROVE  CallInv(c)' /\ MetaNamesPartial'
<1>1. call \in [Calls -> Locals] /\ Size[Url[c]] \in Nat
  BY LocalFields DEF TypeOK
<1>2. n \in Lengths
  BY ToldType
<1>3. call[c].bytes = OnDisk /\ meta # NoMeta /\ meta.url = Url[c]
  BY DEF Answered, At, CallInv, Resuming, Recorded
<1>4. meta' # NoMeta /\ meta'.url = Url[c]
  <2>1. Meta(c, n) \in Metas /\ Meta(c, n).url = Url[c]
    BY <1>2, MetaType DEF Meta
  <2>2. QED
    BY <1>3, <2>1 DEF Answered
<1>5. CASE StartCleanup(c) /\ UNCHANGED <<partial, blind>>
  <2>1. MetaNamesPartial'
    BY <1>3, <1>4, <1>5 DEF MetaNamesPartial
  <2>2. QED
    BY <1>5, <2>1, EndFields
<1>6. CASE ~(StartCleanup(c) /\ UNCHANGED <<partial, blind>>)
  <2> DEFINE h == [body |-> b, end |-> e, mode |-> Mode(b), file |-> "partial", lost |-> FALSE]
             emptied == partial = NoFile \/ Mode(b) = "truncate"
  <2>1. /\ partial' = IF emptied THEN << >> ELSE partial
        /\ blind' = (blind /\ ~emptied)
        /\ call' = [call EXCEPT
             ![c].pc = "streaming",
             ![c].bytes = IF b = "full" THEN 0 ELSE @,
             ![c].total = n,
             ![c].handle = h]
    BY <1>6 DEF Answered
  <2>2. /\ call'[c].pc = "streaming" /\ call'[c].total = n /\ call'[c].handle = h
        /\ call'[c].bytes = IF b = "full" THEN 0 ELSE call[c].bytes
    BY <1>1, <2>1 DEF Locals
  <2>3. call'[c].handle.file = "partial" /\ call'[c].handle.end = e /\ ~call'[c].handle.lost
    BY <2>2
  <2>4. << >> \in Seq(Bytes) /\ Len(<< >>) = 0
    OBVIOUS
  <2>5. CASE b = "full"
    <3>1. partial' = << >> /\ OnDisk' = 0
      BY <2>1, <2>4, <2>5 DEF Mode, OnDisk
    <3>2. MetaNamesPartial'
      BY <3>1, <2>4 DEF MetaNamesPartial
    <3>3. partial' # NoFile
      BY <2>4, <3>1
    <3>4. call'[c].pc = "streaming" /\ call'[c].bytes = 0
      BY <2>2, <2>5
    <3>5. QED
      BY <1>1, <1>4, <2>3, <2>5, <3>1, <3>2, <3>3, <3>4 DEF CallInv, Resuming, Recorded, Complete
  <2>6. CASE b = "range"
    <3>1. call[c].bytes \in 1 .. Size[Url[c]] - 1 /\ call[c].bytes <= e
      BY <2>6 DEF Answered
    <3>2. partial # NoFile
      BY <1>3, <3>1 DEF OnDisk
    <3>3. ~emptied
      BY <2>6, <3>2 DEF Mode
    <3>4. partial' = partial /\ (blind => blind')
      BY <2>1, <3>3
    <3>5. OnDisk' = OnDisk
      BY <3>4 DEF OnDisk
    <3>6. MetaNamesPartial'
      BY <1>3, <1>4, <3>4 DEF MetaNamesPartial
    <3>7. call'[c].pc = "streaming" /\ call'[c].bytes = call[c].bytes /\ call'[c].total = n
      BY <2>2, <2>6
    <3>8. QED
      BY <1>1, <1>3, <1>4, <2>3, <2>6, <3>1, <3>2, <3>4, <3>5, <3>7, <3>6
      DEF CallInv, Resuming, Recorded, Complete
  <2>7. QED
    BY <2>5, <2>6
<1>7. QED
  BY <1>5, <1>6

LEMMA ChunkSerial ==
  ASSUME TypeOK, HandlesOpen, MetaNamesPartial, NEW c \in Calls, CallInv(c), Chunk(c)
  PROVE  CallInv(c)' /\ MetaNamesPartial'
<1>1. /\ call \in [Calls -> Locals] /\ Size[Url[c]] \in Nat /\ call[c].bytes \in Nat
      /\ call[c].handle \in Handles /\ call[c].handle.end \in Nat
  BY LocalFields DEF TypeOK, Handles
<1>2. /\ call[c].pc = "streaming" /\ partial # NoFile /\ call[c].handle.file = "partial"
      /\ call[c].bytes = OnDisk + IF call[c].handle.lost THEN 1 ELSE 0
      /\ meta # NoMeta /\ meta.url = Url[c]
      /\ call[c].handle.end <= Size[Url[c]] /\ call[c].bytes < call[c].handle.end
  BY DEF Chunk, At, CallInv, Recorded
<1>3. partial \in Seq(Bytes) /\ OnDisk = Len(partial)
  BY <1>2 DEF TypeOK, OnDisk
<1>4. meta' = meta /\ blind' = blind
  BY DEF Chunk
<1>5. CASE StartCleanup(c) /\ UNCHANGED <<partial, final>>
  BY <1>4, <1>5, EndFields DEF MetaNamesPartial
<1>6. ASSUME NEW lost \in BOOLEAN, ~call[c].handle.lost,
             IF lost THEN UNCHANGED <<partial, final>> ELSE Write(c),
             call' = [call EXCEPT ![c].bytes = @ + 1, ![c].handle.lost = lost]
      PROVE  CallInv(c)' /\ MetaNamesPartial'
  <2>1. /\ call'[c].pc = "streaming" /\ call'[c].bytes = call[c].bytes + 1
        /\ call'[c].handle.file = "partial" /\ call'[c].handle.end = call[c].handle.end
        /\ call'[c].handle.lost = lost
    BY <1>1, <1>2, <1>6 DEF Locals, Handles
  <2>2. call'[c].bytes <= call'[c].handle.end /\ call'[c].handle.end <= Size[Url[c]]
    BY <1>1, <1>2, <2>1
  <2>3. call[c].bytes = Len(partial)
    BY <1>2, <1>3, <1>6
  <2>4. CASE lost
    <3>1. partial' = partial /\ OnDisk' = OnDisk
      BY <1>6, <2>4 DEF OnDisk
    <3>2. QED
      BY <1>1, <1>2, <1>3, <1>4, <2>1, <2>2, <2>3, <2>4, <3>1
      DEF CallInv, Resuming, Recorded, Complete, MetaNamesPartial
  <2>5. CASE ~lost
    <3>1. partial' = Put(partial, Len(partial), Byte(Url[c], Len(partial) + 1))
      BY <1>2, <1>3, <1>6, <2>3, <2>5 DEF Write
    <3>2. partial' = [i \in 1..(Len(partial) + 1) |->
                       IF i = Len(partial) + 1 THEN Byte(Url[c], Len(partial) + 1) ELSE partial[i]]
      BY <1>3, <3>1 DEF Put
    <3>3. /\ Len(partial') = Len(partial) + 1
          /\ \A i \in 1..Len(partial') :
               partial'[i] = IF i = Len(partial) + 1 THEN Byte(Url[c], i) ELSE partial[i]
      BY <1>3, <3>2
    <3>4. partial' # NoFile
      BY <1>2, ChunkType
    <3>5. OnDisk' = Len(partial) + 1
      BY <3>3, <3>4 DEF OnDisk
    <3>6. MetaNamesPartial'
      BY <1>1, <1>2, <1>3, <1>4, <2>3, <3>3 DEF MetaNamesPartial
    <3>7. QED
      BY <1>1, <1>2, <1>3, <1>4, <2>1, <2>2, <2>3, <2>5, <3>4, <3>5, <3>6
      DEF CallInv, Resuming, Recorded, Complete
  <2>6. QED
    BY <2>4, <2>5
<1>7. QED
  BY <1>5, <1>6 DEF Chunk

LEMMA RetrySerial ==
  ASSUME TypeOK, NEW c \in Calls, CallInv(c), call[c].pc = "streaming", Retry(c), UNCHANGED disk
  PROVE  CallInv(c)'
<1>1. call \in [Calls -> Locals]
  BY DEF TypeOK
<1>2. CASE EndKeeping(c)
  BY <1>2, EndFields
<1>3. CASE call' = [call EXCEPT ![c].pc = "loop", ![c].bytes = OnDisk,
                             ![c].left = Attempts(c), ![c].handle = NoHandle]
  <2>1. call'[c].pc = "loop" /\ call'[c].bytes = OnDisk
    BY <1>1, <1>3 DEF Locals
  <2>2. OnDisk' = OnDisk /\ meta' = meta /\ meta # NoMeta /\ meta.url = Url[c]
    BY DEF disk, OnDisk, CallInv, Recorded
  <2>3. QED
    BY <2>1, <2>2 DEF CallInv, Resuming, Recorded, Complete
<1>4. QED
  BY <1>2, <1>3 DEF Retry

LEMMA StreamSerial ==
  ASSUME TypeOK, MetaNamesPartial, NEW c \in Calls, CallInv(c), StreamError(c) \/ StreamEnds(c)
  PROVE  CallInv(c)' /\ MetaNamesPartial'
<1>1. call[c].pc = "streaming" /\ UNCHANGED disk /\ blind' = blind
  BY DEF StreamError, StreamEnds, At
<1>2. MetaNamesPartial'
  BY <1>1 DEF MetaNamesPartial, disk
<1>3. CASE Retry(c)
  BY <1>1, <1>2, <1>3, RetrySerial
<1>4. CASE StartCleanup(c)
  BY <1>2, <1>4, EndFields
<1>5. CASE call' = [call EXCEPT ![c].pc = "check", ![c].handle = NoHandle]
  <2>1. /\ call \in [Calls -> Locals] /\ call[c].bytes \in Nat /\ Size[Url[c]] \in Nat
        /\ call[c].handle.end \in Nat /\ OnDisk \in Nat
    BY LocalFields, OnDiskType DEF TypeOK, Handles
  <2>2. call'[c].pc = "check"
    BY <1>5, <2>1 DEF Locals
  <2>3. /\ partial # NoFile /\ meta # NoMeta /\ meta.url = Url[c]
        /\ call[c].handle.end <= Size[Url[c]] /\ call[c].bytes <= call[c].handle.end
        /\ call[c].bytes = OnDisk + IF call[c].handle.lost THEN 1 ELSE 0
    BY <1>1 DEF CallInv, Recorded
  <2>4. OnDisk <= Size[Url[c]]
    BY <2>1, <2>3
  <2>5. Len(partial) <= Size[Url[c]]
    BY <2>3, <2>4 DEF OnDisk
  <2>6. QED
    BY <1>1, <1>2, <2>2, <2>3, <2>5 DEF CallInv, Resuming, Recorded, Complete, disk
<1>6. QED
  BY <1>3, <1>4, <1>5 DEF StreamError, StreamEnds

LEMMA CheckSerial ==
  ASSUME TypeOK, MetaNamesPartial, NEW c \in Calls, CallInv(c), CheckLength(c) \/ CheckHash(c)
  PROVE  CallInv(c)' /\ MetaNamesPartial'
<1>1. /\ call[c].pc \in {"check", "hash"} /\ UNCHANGED disk /\ blind' = blind
      /\ partial # NoFile /\ Len(partial) <= Size[Url[c]] /\ meta # NoMeta /\ meta.url = Url[c]
      /\ call \in [Calls -> Locals] /\ Len(partial) \in Nat /\ Size[Url[c]] \in Nat
  BY LocalFields DEF CheckLength, CheckHash, At, CallInv, Recorded, Complete, TypeOK
<1>2. MetaNamesPartial'
  BY <1>1 DEF MetaNamesPartial, disk
<1>3. CASE EndKeeping(c) \/ StartCleanup(c)
  BY <1>2, <1>3, EndFields
<1>4. call[c].total = Size[Url[c]] /\ ~EndKeeping(c) => Len(partial) = Size[Url[c]]
  <2>1. CASE CheckLength(c)
    <3>1. ~EndKeeping(c) => ~Short(c)
      BY <2>1 DEF CheckLength
    <3>2. QED
      BY <1>1, <3>1, DownloadAssumption DEF Short, OnDisk
  <2>2. CASE CheckHash(c)
    BY <2>2 DEF CheckHash, At, CallInv
  <2>3. QED
    BY <2>1, <2>2
<1>5. CASE Goto(c, "hash") /\ ~EndKeeping(c)
  <2>1. call'[c].pc = "hash" /\ call'[c].total = call[c].total
    BY <1>5, GotoFields, StageNames
  <2>2. QED
    BY <1>1, <1>2, <1>4, <1>5, <2>1 DEF CallInv, Resuming, Recorded, Complete, disk
<1>6. CASE Goto(c, "promote") /\ ~EndKeeping(c) /\ (c \in Checked => partial = Whole(Url[c]))
  <2>1. call'[c].pc = "promote" /\ call'[c].total = call[c].total
    BY <1>6, GotoFields, StageNames
  <2>2. QED
    BY <1>1, <1>2, <1>4, <1>6, <2>1 DEF CallInv, Resuming, Recorded, Complete, disk
<1>7. QED
  BY <1>3, <1>5, <1>6 DEF CheckLength, CheckHash

LEMMA CleanupSerial ==
  ASSUME TypeOK, MetaNamesPartial, NEW c \in Calls,
         Start(c) \/ CleanupMeta(c) \/ CleanupPartial(c) \/ Promote(c) \/ Finish(c)
  PROVE  CallInv(c)' /\ MetaNamesPartial'
<1>1. CASE Start(c)
  <2>1. call'[c].pc = "plan"
    BY <1>1, GotoFields, StageNames DEF Start
  <2>2. QED
    BY <1>1, <2>1, InertCalls DEF Start, disk, MetaNamesPartial, Resuming, Recorded
<1>2. CASE CleanupMeta(c)
  <2>1. call'[c].pc = "cleanupPartial"
    BY <1>2, GotoFields, StageNames DEF CleanupMeta
  <2>2. QED
    BY <1>2, <2>1, InertCalls DEF CleanupMeta, MetaNamesPartial, Resuming, Recorded
<1>3. CASE CleanupPartial(c)
  <2>1. call'[c].pc = "ended" /\ partial' = NoFile
    BY <1>3, RemoveFields, StageNames DEF CleanupPartial
  <2>2. QED
    BY <2>1, InertCalls DEF MetaNamesPartial, Resuming, Recorded
<1>4. CASE Promote(c)
  <2>1. CASE StartCleanup(c) /\ UNCHANGED <<partial, blind>>
    BY <1>4, <2>1, EndFields DEF Promote, MetaNamesPartial
  <2>2. CASE /\ partial' = NoFile
             /\ call' = [Renamed("partial", "final") EXCEPT ![c].pc = "promoted"]
    <3>1. Renamed("partial", "final") \in [Calls -> Locals]
      BY RenamedType
    <3>2. call'[c].pc = "promoted"
      BY <2>2, <3>1 DEF Locals
    <3>3. QED
      BY <2>2, <3>2, InertCalls DEF MetaNamesPartial, Resuming, Recorded
  <2>3. QED
    BY <1>4, <2>1, <2>2 DEF Promote
<1>5. CASE Finish(c)
  BY <1>5, EndFields DEF Finish, MetaNamesPartial
<1>6. QED
  BY <1>1, <1>2, <1>3, <1>4, <1>5

\* The invariant of the serial use is kept by every step.
LEMMA SerialStep ==
  ASSUME ~Overlap, TypeOK, HandlesOpen, SerialInv, [Next]_vars PROVE SerialInv'
<1>1. CASE UNCHANGED vars
  BY <1>1 DEF vars, disk, SerialInv, Alone, Running, At, MetaNamesPartial, CallInv, OnDisk, Prefixed
<1>2. CASE CancelDownload
  <2>1. \A c \in Calls : /\ call'[c].pc = call[c].pc /\ call'[c].bytes = call[c].bytes
                         /\ call'[c].total = call[c].total /\ call'[c].handle = call[c].handle
    BY <1>2 DEF CancelDownload, TypeOK, Locals
  <2>2. UNCHANGED <<partial, meta, final, blind>>
    BY <1>2 DEF CancelDownload, disk
  <2>3. Alone' /\ MetaNamesPartial'
    BY <2>1, <2>2 DEF SerialInv, Alone, Running, At, MetaNamesPartial
  <2>4. ASSUME NEW c \in Calls PROVE CallInv(c)'
    <3>1. OnDisk' = OnDisk
      BY <2>2 DEF OnDisk
    <3>2. blind \/ Prefixed(Url[c]) => (blind \/ Prefixed(Url[c]))'
      BY <2>2 DEF Prefixed
    <3>3. CallInv(c)
      BY DEF SerialInv
    <3>4. QED
      BY <2>1, <2>2, <3>1, <3>2, <3>3 DEF CallInv, Resuming, Recorded, Complete
  <2>5. QED
    BY <2>3, <2>4 DEF SerialInv
<1>3. CASE Crash
  <2>1. \A c \in Calls : call'[c].pc \in {"idle", "ended"}
    BY <1>3 DEF Crash, Running, At, Local
  <2>2. \A c \in Calls : CallInv(c)'
    BY <2>1, InertCalls DEF Resuming, Recorded
  <2>3. MetaNamesPartial'
    BY <1>3 DEF Crash, disk, SerialInv, MetaNamesPartial
  <2>4. QED
    BY <2>1, <2>2, <2>3 DEF SerialInv, Alone, Running, At
<1>4. ASSUME NEW c \in Calls, Start(c) \/ Step(c) PROVE SerialInv'
  <2>1. MetaNamesPartial /\ CallInv(c)
    BY DEF SerialInv
  <2>2. CallInv(c)' /\ MetaNamesPartial'
    BY <1>4, <2>1, PlanSerial, RecordSerial, DiscardSerial, AskSerial, AnsweredSerial, ChunkSerial,
       StreamSerial, CheckSerial, CleanupSerial DEF Step
  <2>3. \A d \in Calls : d # c => ~Running(d)'
    BY <1>4, AloneStep DEF SerialInv
  <2>4. \A d \in Calls : d # c => call'[d].pc \notin Resuming \cup Recorded
    BY <2>3 DEF Running, At, Resuming, Recorded
  <2>5. \A d \in Calls : CallInv(d)'
    BY <2>2, <2>4, InertCalls
  <2>6. QED
    BY <2>2, <2>3, <2>5 DEF SerialInv, Alone
<1>5. QED
  BY <1>1, <1>2, <1>3, <1>4 DEF Next

LEMMA SerialInit ==
  ASSUME Init PROVE SerialInv
  BY DEF Init, SerialInv, Alone, Running, At, Local, MetaNamesPartial, CallInv, Resuming, Recorded,
     Complete

LEMMA SerialAlways ==
  ASSUME ~Overlap PROVE Spec => [](TypeOK /\ HandlesOpen /\ SerialInv)
<1>1. Init => SerialInv
  BY SerialInit
<1>2. TypeOK /\ HandlesOpen /\ SerialInv /\ [Next]_vars => SerialInv'
  BY SerialStep
<1>3. QED
  BY <1>1, <1>2, TypesAlways, PTL DEF Spec

\* A file is promoted by Promote alone, and is the partial.
LEMMA PromotedBy ==
  ASSUME TypeOK, [Next]_vars, NEW c \in Calls, Promotes(c)
  PROVE  final' = partial
<1>1. call[c].pc = "promote" /\ call'[c].pc = "promoted" /\ call \in [Calls -> Locals]
  BY DEF Promotes, At, TypeOK
<1>2. Step(c)
  <2>1. ~UNCHANGED vars
    BY <1>1 DEF vars
  <2>2. ASSUME CancelDownload PROVE FALSE
    <3>1. call'[c].pc = call[c].pc
      BY <1>1, <2>2 DEF CancelDownload, TypeOK, Locals
    <3>2. QED
      BY <1>1, <3>1
  <2>3. ASSUME Crash PROVE FALSE
    <3>1. call'[c] = Local("ended") \/ call'[c] = call[c]
      BY <2>3 DEF Crash
    <3>2. call'[c].pc \in {"ended", call[c].pc}
      BY <3>1 DEF Local
    <3>3. QED
      BY <1>1, <3>2
  <2>4. \A d \in Calls : Start(d) \/ Step(d) => d = c
    BY <1>1, OwnSteps
  <2>5. ~Start(c)
    BY <1>1 DEF Start, At
  <2>6. QED
    BY <2>1, <2>2, <2>3, <2>4, <2>5 DEF Next
<1>3. Promote(c)
  BY <1>1, <1>2 DEF Step, Plan, DiscardPartial, DiscardMeta, Record, CheckCancel, AskFails,
     AskUnsatisfiable, Answered, Chunk, StreamError, StreamEnds, CheckLength, CheckHash,
     Finish, CleanupMeta, CleanupPartial, At
<1>4. ~StartCleanup(c)
  <2>1. [Local("cleanup") EXCEPT !.told = call[c].told].pc = "cleanup"
    BY DEF Local
  <2>2. QED
    BY <1>1, <2>1 DEF StartCleanup
<1>5. QED
  BY <1>3, <1>4 DEF Promote

\* What a serial call promotes comes from its source.
LEMMA PromotedFrom ==
  ASSUME TypeOK, SerialInv, [Next]_vars, NEW c \in Calls, Promotes(c)
  PROVE  /\ Sized(c) => Len(final') = Size[Url[c]]
         /\ c \in Checked \/ ~blind =>
              \A i \in 1..Len(final') : i <= Size[Url[c]] /\ final'[i] = Byte(Url[c], i)
<1>1. final' = partial
  BY PromotedBy
<1>2. /\ partial # NoFile /\ partial \in Seq(Bytes)
      /\ call[c].total = Size[Url[c]] => Len(partial) = Size[Url[c]]
      /\ meta # NoMeta /\ meta.url = Url[c]
      /\ c \in Checked => partial = Whole(Url[c])
  BY DEF Promotes, At, SerialInv, CallInv, Recorded, Complete, TypeOK
<1>3. /\ Len(Whole(Url[c])) = Size[Url[c]]
      /\ \A i \in 1..Size[Url[c]] : Whole(Url[c])[i] = Byte(Url[c], i)
  BY LocalFields DEF Whole
<1>4. CASE c \in Checked
  BY <1>1, <1>2, <1>3, <1>4, LocalFields
<1>5. CASE c \notin Checked
  BY <1>1, <1>2, <1>5 DEF SerialInv, MetaNamesPartial, Sized
<1>6. QED
  BY <1>4, <1>5

\* MetaNamesPartial for calls one after another: the meta on disk tells the
\* truth about the partial next to it, after every crash, cancellation, failed
\* write and change of url, whatever the number of calls and the lengths.
THEOREM SerialMeta == ASSUME ~Overlap PROVE Spec => []MetaNamesPartial
<1>1. SerialInv => MetaNamesPartial
  BY DEF SerialInv
<1>2. QED
  BY <1>1, SerialAlways, PTL

\* FullLength for calls one after another: a call that knows the length of its
\* source, or its checksum, gives the final name to no short or overlong file,
\* whatever responses end early and writes fail unnoticed.
THEOREM SerialFullLength == ASSUME ~Overlap PROVE Spec => FullLength
<1>1. TypeOK /\ HandlesOpen /\ SerialInv /\ [Next]_vars
        => [\A c \in Calls : Promotes(c) /\ Sized(c) => Len(final') = Size[Url[c]]]_vars
  BY PromotedFrom
<1>2. QED
  BY <1>1, SerialAlways, PTL DEF Spec, FullLength

\* PromotedIsSource for calls one after another: every byte of the promoted file
\* is its source's at that place, with a checksum always, without one unless
\* plan_resume took bytes up without their meta.
THEOREM SerialSource == ASSUME ~Overlap PROVE Spec => PromotedIsSource
<1>1. TypeOK /\ HandlesOpen /\ SerialInv /\ [Next]_vars
        => [\A c \in Calls :
              Promotes(c) /\ (c \in Checked \/ ~blind) =>
                \A i \in 1..Len(final') : i <= Size[Url[c]] /\ final'[i] = Byte(Url[c], i)]_vars
  BY PromotedFrom
<1>2. QED
  BY <1>1, SerialAlways, PTL DEF Spec, PromotedIsSource

=============================================================================
