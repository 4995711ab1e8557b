------------------------------ MODULE Download ------------------------------
(***************************************************************************)
(* DownloadManager::download of hivebear-registry/src/download.rs: calls   *)
(* that fetch one file of a models directory, through a `.partial` file,   *)
(* its `.partial.meta`, and a rename, with resumption after an             *)
(* interruption or a crash and cancellation by model id.                   *)
(*                                                                         *)
(* A byte is the pair of its source and its offset.  A step is the code    *)
(* between two points where another task, or the end of the process, can   *)
(* come in between and make a difference.                                  *)
(***************************************************************************)
EXTENDS Naturals, Sequences

CONSTANTS
  Calls,          \* calls of download, all for one file name and model id
  Urls,
  Url,            \* call |-> what it downloads
  Size,           \* url |-> length of the source, which does not change
  Checked,        \* calls that are given the SHA-256 of their source
  StreamRetries,  \* further attempts of a stream that stops
  Overlap,        \* bound: whether a call may start while another one runs
  MaxCrashes,     \* bound: ends of the process
  NoFile, NoMeta, NoCall, Unknown, Hole

Byte(u, i) == <<u, i>>
Bytes == {Hole} \cup UNION {{Byte(u, i) : i \in 1..Size[u]} : u \in Urls}
Whole(u) == [i \in 1..Size[u] |-> Byte(u, i)]

Lengths == Nat \cup {Unknown}
Metas == [url : Urls, total : Lengths]

ASSUME DownloadAssumption ==
  /\ Url \in [Calls -> Urls]
  /\ Size \in [Urls -> Nat \ {0}]
  /\ Checked \subseteq Calls
  /\ StreamRetries \in Nat /\ MaxCrashes \in Nat /\ Overlap \in BOOLEAN
  /\ NoCall \notin Calls /\ Unknown \notin Nat
  /\ NoFile \notin Seq(Bytes) /\ NoMeta \notin Metas

VARIABLES
  call,     \* call |-> its local variables
  cancels,  \* the call whose sender `cancellations` holds, or NoCall
  partial,  \* contents of the .partial file
  meta,     \* the .partial.meta
  final,    \* contents of the file
  blind,    \* the partial was resumed without a meta since it was empty
  crashes

disk == <<partial, meta, final>>
vars == <<call, cancels, disk, blind, crashes>>

\* body is the response the stream reads, end the offset at which it ends, mode
\* how the file was opened for it, file the one the handle writes to, and lost
\* whether the last write failed, which the next one is told.
NoHandle == [body |-> "full", end |-> 0, mode |-> "truncate", file |-> "none", lost |-> FALSE]

\* known_total is the total of the call's meta from the first response on.
Local(l) == [pc |-> l, bytes |-> 0, total |-> Unknown, left |-> StreamRetries,
             handle |-> NoHandle, told |-> FALSE]

At(c, l) == call[c].pc = l
Running(c) == ~At(c, "idle") /\ ~At(c, "ended")
Goto(c, l) == call' = [call EXCEPT ![c].pc = l]
OnDisk == IF partial = NoFile THEN 0 ELSE Len(partial)
Meta(c, n) == [url |-> Url[c], total |-> n]

-----------------------------------------------------------------------------
(* Slips a change of the code could make, each the mutant of the definition  *)
(* it is named after                                                         *)

\* The meta's url is not compared.
ForeignNever(c) == FALSE

\* What was counted is compared with the length, not what is on disk.
ShortCounted(c) == call[c].total # Unknown /\ call[c].bytes < call[c].total

\* The attempts are not counted down.
AttemptsSame(c) == call[c].left

-----------------------------------------------------------------------------
Init ==
  /\ call = [c \in Calls |-> Local("idle")]
  /\ cancels = NoCall
  /\ partial = NoFile /\ meta = NoMeta /\ final = NoFile
  /\ blind = FALSE
  /\ crashes = 0

-----------------------------------------------------------------------------
(* Files: an open handle keeps its file when the name is removed or taken      *)

\* The calls when the file named a is named b, and what b named is gone.
Renamed(a, b) ==
  [c \in Calls |-> [call[c] EXCEPT !.handle.file = IF @ = a THEN b ELSE IF @ = b THEN "gone" ELSE @]]

\* The partial is removed, and c goes on at l with the bytes n.
RemovePartial(c, l, n) ==
  /\ partial' = NoFile
  /\ blind' = FALSE
  /\ call' = [Renamed("partial", "gone") EXCEPT ![c].pc = l, ![c].bytes = n]

\* f with byte b at offset p, after zeroes if p is past its end.
Put(f, p, b) ==
  [i \in 1..(IF p < Len(f) THEN Len(f) ELSE p + 1) |->
    IF i = p + 1 THEN b ELSE IF i <= Len(f) THEN f[i] ELSE Hole]

\* A handle opened to append writes at the end, the other one where it stands.
Write(c) ==
  LET h == call[c].handle
      n == call[c].bytes
      After(f) == Put(f, IF h.mode = "append" THEN Len(f) ELSE n, Byte(Url[c], n + 1))
  IN /\ partial' = IF h.file = "partial" THEN After(partial) ELSE partial
     /\ final' = IF h.file = "final" THEN After(final) ELSE final

-----------------------------------------------------------------------------
(* The ends of a call *)

Returns(c) == call' = [call EXCEPT ![c] = Local("ended")]

\* cleanup_on_exit(false): the entry goes, whoever's it is; the files stay.
EndKeeping(c) == cancels' = NoCall /\ Returns(c)

\* cleanup_on_exit(true) removes the entry and the meta, then the partial.
StartCleanup(c) ==
  /\ call' = [call EXCEPT ![c] = [Local("cleanup") EXCEPT !.told = call[c].told]]
  /\ UNCHANGED cancels

\* The lock of `cancellations` is held until the partial is gone, too.
Unlocked == \A d \in Calls : ~At(d, "cleanupPartial")

CleanupMeta(c) ==
  /\ At(c, "cleanup") /\ Unlocked
  /\ cancels' = NoCall
  /\ meta' = NoMeta
  /\ Goto(c, "cleanupPartial")
  /\ UNCHANGED <<partial, final, blind, crashes>>

CleanupPartial(c) ==
  /\ At(c, "cleanupPartial")
  /\ RemovePartial(c, "ended", 0)
  /\ UNCHANGED <<cancels, meta, final, crashes>>

-----------------------------------------------------------------------------
(* What is already on disk *)

Start(c) ==
  /\ At(c, "idle") /\ Unlocked
  /\ Overlap \/ \A d \in Calls : ~Running(d)
  /\ cancels' = c
  /\ Goto(c, "plan")
  /\ UNCHANGED <<disk, blind, crashes>>

\* A readable meta names another url.
Foreign(c) == meta # NoMeta /\ meta.url # Url[c]

\* plan_resume.  The total of the meta is kept in each of its cases.
Plan(c) ==
  LET fresh == OnDisk = 0 IN
  /\ At(c, "plan")
  /\ call' = [call EXCEPT
       ![c].pc = IF ~fresh /\ Foreign(c) THEN "discard" ELSE "record",
       ![c].total = IF meta = NoMeta THEN Unknown ELSE meta.total,
       ![c].bytes = IF Foreign(c) THEN 0 ELSE OnDisk]
  /\ blind' = (blind \/ (~fresh /\ meta = NoMeta))
  /\ UNCHANGED <<cancels, disk, crashes>>

DiscardPartial(c) ==
  /\ At(c, "discard")
  /\ RemovePartial(c, "discardMeta", 0)
  /\ UNCHANGED <<cancels, meta, final, crashes>>

DiscardMeta(c) ==
  /\ At(c, "discardMeta")
  /\ meta' = NoMeta
  /\ Goto(c, "record")
  /\ UNCHANGED <<cancels, partial, final, blind, crashes>>

\* write_meta_atomic; when it fails, the entry in `cancellations` stays.
Record(c) ==
  /\ At(c, "record")
  /\ \/ meta' = Meta(c, call[c].total) /\ Goto(c, "loop")
     \/ UNCHANGED meta /\ Returns(c)
  /\ UNCHANGED <<cancels, partial, final, blind, crashes>>

-----------------------------------------------------------------------------
(* An attempt *)

CheckCancel(c) ==
  /\ At(c, "loop")
  /\ IF call[c].told THEN StartCleanup(c) ELSE Goto(c, "asking") /\ UNCHANGED cancels
  /\ UNCHANGED <<disk, blind, crashes>>

\* send_with_retry gives up: with bytes on disk they are kept for later.
AskFails(c) ==
  /\ At(c, "asking")
  /\ IF call[c].bytes > 0 THEN EndKeeping(c) ELSE StartCleanup(c)
  /\ UNCHANGED <<disk, blind, crashes>>

\* 416: the source has no byte at the offset; start again from the first.
AskUnsatisfiable(c) ==
  /\ At(c, "asking") /\ call[c].bytes >= Size[Url[c]]
  /\ RemovePartial(c, "asking", 0)
  /\ UNCHANGED <<cancels, meta, final, crashes>>

\* A range is appended to the file, a full body written from its start.
Mode(b) == IF b = "range" THEN "append" ELSE "truncate"

\* What a response b, whose body ends at e, tells of the length: a Content-Range
\* or the Content-Length of a 200 the file's; without Content-Range, the
\* Content-Length of a 206 is taken for the length of what it ends at; without
\* either, the length is the one the meta had, if any.
Tells(c, b, n, e) ==
  \/ n = Size[Url[c]] /\ (b = "full" => e = n)
  \/ n = e /\ b = "range"
  \/ n = call[c].total

Told(c) == {call[c].total} \cup 0..Size[Url[c]]

\* A response: 206, or 200.  The length goes to the meta when it is news, and
\* the file is opened.
Answered(c, b, n, e) ==
  /\ At(c, "asking")
  /\ b = "range" => call[c].bytes \in 1 .. Size[Url[c]] - 1 /\ e >= call[c].bytes
  /\ Tells(c, b, n, e)
  /\ meta' \in IF n = call[c].total THEN {meta} ELSE {Meta(c, n), meta}   \* or the write fails
  /\ LET emptied == partial = NoFile \/ Mode(b) = "truncate" IN
     \/ /\ partial' = IF emptied THEN << >> ELSE partial
        /\ blind' = (blind /\ ~emptied)
        /\ call' = [call EXCEPT
             ![c].pc = "streaming",
             ![c].bytes = IF b = "full" THEN 0 ELSE @,
             ![c].total = n,
             ![c].handle = [body |-> b, end |-> e, mode |-> Mode(b), file |-> "partial",
                            lost |-> FALSE]]
        /\ UNCHANGED cancels
     \/ StartCleanup(c) /\ UNCHANGED <<partial, blind>>   \* it does not open
  /\ UNCHANGED <<final, crashes>>

\* A chunk comes: a cancellation is noticed here, and so is the failure of the
\* write before, since write_all returns when the chunk is in a buffer.
Chunk(c) ==
  LET h == call[c].handle IN
  /\ At(c, "streaming") /\ call[c].bytes < h.end
  /\ IF call[c].told \/ h.lost
     THEN StartCleanup(c) /\ UNCHANGED <<partial, final>>
     ELSE \E lost \in BOOLEAN :
            /\ IF lost THEN UNCHANGED <<partial, final>> ELSE Write(c)
            /\ call' = [call EXCEPT ![c].bytes = @ + 1, ![c].handle.lost = lost]
            /\ UNCHANGED cancels
  /\ UNCHANGED <<meta, blind, crashes>>

Last(c) == call[c].left = 0
Attempts(c) == call[c].left - 1

\* Another attempt, from what is on disk, or the end with the partial kept.
Retry(c) ==
  \/ Last(c) /\ EndKeeping(c)
  \/ /\ ~Last(c)
     /\ call' = [call EXCEPT ![c].pc = "loop", ![c].bytes = OnDisk,
                             ![c].left = Attempts(c), ![c].handle = NoHandle]
     /\ UNCHANGED cancels

StreamError(c) ==
  /\ At(c, "streaming")
  /\ IF call[c].told THEN StartCleanup(c) ELSE Retry(c)
  /\ UNCHANGED <<disk, blind, crashes>>

\* The body ends without an error.  What flush says of the last write is dropped.
StreamEnds(c) ==
  LET k == call[c] IN
  /\ At(c, "streaming") /\ k.bytes = k.handle.end
  /\ IF k.total # Unknown /\ k.bytes < k.total
     THEN Retry(c)
     ELSE /\ call' = [call EXCEPT ![c].pc = "check", ![c].handle = NoHandle]
          /\ UNCHANGED cancels
  /\ UNCHANGED <<disk, blind, crashes>>

-----------------------------------------------------------------------------
(* The finished file *)

\* Less is on disk than the source is known to have.
Short(c) == call[c].total # Unknown /\ OnDisk < call[c].total

CheckLength(c) ==
  /\ At(c, "check")
  /\ IF Short(c)
     THEN EndKeeping(c)
     ELSE Goto(c, IF c \in Checked THEN "hash" ELSE "promote") /\ UNCHANGED cancels
  /\ UNCHANGED <<disk, blind, crashes>>

CheckHash(c) ==
  /\ At(c, "hash")
  /\ IF partial = Whole(Url[c]) THEN Goto(c, "promote") /\ UNCHANGED cancels
                                ELSE StartCleanup(c)
  /\ UNCHANGED <<disk, blind, crashes>>

Promote(c) ==
  /\ At(c, "promote")
  /\ \/ /\ partial # NoFile
        /\ final' = partial /\ partial' = NoFile
        /\ blind' = FALSE
        /\ call' = [Renamed("partial", "final") EXCEPT ![c].pc = "promoted"]
        /\ UNCHANGED cancels
     \/ StartCleanup(c) /\ UNCHANGED <<partial, final, blind>>   \* rename fails
  /\ UNCHANGED <<meta, crashes>>

Finish(c) ==
  /\ At(c, "promoted")
  /\ meta' = NoMeta
  /\ EndKeeping(c)
  /\ UNCHANGED <<partial, final, blind, crashes>>

-----------------------------------------------------------------------------
(* The user and the operating system *)

CancelDownload ==
  /\ cancels # NoCall
  /\ call' = [call EXCEPT ![cancels].told = Running(cancels)]
  /\ cancels' = NoCall
  /\ UNCHANGED <<disk, blind, crashes>>

Crash ==
  /\ crashes < MaxCrashes
  /\ crashes' = crashes + 1
  /\ call' = [c \in Calls |-> IF Running(c) THEN Local("ended") ELSE call[c]]
  /\ cancels' = NoCall
  /\ UNCHANGED <<disk, blind>>

-----------------------------------------------------------------------------
Step(c) ==
  \/ Plan(c) \/ DiscardPartial(c) \/ DiscardMeta(c) \/ Record(c)
  \/ CheckCancel(c) \/ AskFails(c) \/ AskUnsatisfiable(c)
  \/ \E b \in {"range", "full"}, e \in 0..Size[Url[c]], n \in Told(c) : Answered(c, b, n, e)
  \/ Chunk(c) \/ StreamError(c) \/ StreamEnds(c)
  \/ CheckLength(c) \/ CheckHash(c) \/ Promote(c) \/ Finish(c)
  \/ CleanupMeta(c) \/ CleanupPartial(c)

Next == (\E c \in Calls : Start(c) \/ Step(c)) \/ CancelDownload \/ Crash

Spec == Init /\ [][Next]_vars

\* Tasks are scheduled, and requests and reads time out.
FairSpec == Spec /\ \A c \in Calls : WF_vars(Step(c))

-----------------------------------------------------------------------------
Stages == {"idle", "plan", "discard", "discardMeta", "record", "loop", "asking",
           "streaming", "check", "hash", "promote", "promoted",
           "cleanup", "cleanupPartial", "ended"}
Handles == [body : {"range", "full"}, end : Nat, mode : {"append", "truncate"},
            file : {"none", "partial", "final", "gone"}, lost : BOOLEAN]
Locals == [pc : Stages, bytes : Nat, total : Lengths, left : 0..StreamRetries,
           handle : Handles, told : BOOLEAN]

\* Types of the calls' variables and of the files.
TypeOK ==
  /\ call \in [Calls -> Locals]
  /\ cancels \in Calls \cup {NoCall}
  /\ partial = NoFile \/ partial \in Seq(Bytes)
  /\ final = NoFile \/ final \in Seq(Bytes)
  /\ meta = NoMeta \/ meta \in Metas
  /\ blind \in BOOLEAN /\ crashes \in Nat

Promotes(c) == At(c, "promote") /\ call'[c].pc = "promoted"

\* The length of the source is known, or its checksum.
Sized(c) == c \in Checked \/ call[c].total = Size[Url[c]]

\* "The file we are about to promote must actually have the full length the
\* source advertised": short ranges, streams that stop and writes that fail
\* without anyone being told notwithstanding.
FullLength ==
  [][\A c \in Calls : Promotes(c) /\ Sized(c) => Len(final') = Size[Url[c]]]_vars

\* What takes the final name comes from the source, byte by byte from its first
\* one, after any number of interruptions, crashes and changes of url; without a
\* checksum, unless bytes of unknown origin were resumed, as plan_resume allows
\* when the meta is missing.
PromotedIsSource ==
  [][\A c \in Calls :
       Promotes(c) /\ (c \in Checked \/ ~blind) =>
         \A i \in 1..Len(final') : i <= Size[Url[c]] /\ final'[i] = Byte(Url[c], i)]_vars

\* "A stream can end cleanly while still being short [...] Never promote such a
\* file": whatever the source told, and whether or not there is a checksum.
NeverShort == [][\A c \in Calls : Promotes(c) => Len(final') >= Size[Url[c]]]_vars

\* What the meta says of the partial can be relied upon to resume it.
MetaNamesPartial ==
  partial # NoFile /\ meta # NoMeta /\ ~blind =>
    \A i \in 1..Len(partial) : i <= Size[meta.url] /\ partial[i] = Byte(meta.url, i)

\* Every call returns.
EveryCallEnds == \A c \in Calls : Running(c) ~> ~Running(c)
=============================================================================
