--------------------------- MODULE PersistentStore ---------------------------
(***************************************************************************)
(* One JSON store of a host (bonds, sessions, allowlist, ...): the data is *)
(* kept in memory and every change starts a flush, which writes the whole  *)
(* of it to a temporary file that then replaces the old one.  A flush that *)
(* finds a write under way waits for it; the context flush of a handler or *)
(* of a shutdown is one more.  A step runs from one await to the next.     *)
(*                                                                         *)
(* The data is a version number: the larger, the later.  0 is the default. *)
(***************************************************************************)
EXTENDS Naturals

CONSTANTS
  Blind,       \* whether the context may be flushed before the store was read
  MaxVersion,  \* bound: changes
  MaxFlush,    \* bound: flushes
  MaxFaults    \* bound: failing file operations and restarts

ASSUME BlindAssumption == Blind \in BOOLEAN
ASSUME BoundsAssumption == MaxVersion \in Nat /\ MaxFlush \in Nat /\ MaxFaults \in Nat

VARIABLES
  disk,        \* what the file holds
  data,        \* what the process holds
  loaded,      \* whether the file was read
  latest,      \* the latest version made
  flush,       \* per flush: where it is
  begun,       \* flushes begun so far
  promise,     \* flushPromise: the flush whose write is waited for, 0 for none
  faults,      \* failures and restarts so far
  overlapped,  \* history: whether two flushes waited for the same write
  gaveUp       \* history: whether a flush failed or a restart came

vars == <<disk, data, loaded, latest, flush, begun, promise, faults, overlapped, gaveUp>>

Version == 0 .. MaxVersion
Flush == 1 .. MaxFlush
Live == MaxVersion + 1   \* of a flush that writes the data as it will then be
Writing == {"mkdir", "tmp", "named"}
FlushState == [pc : {"off", "waits", "ok", "failed"} \cup Writing,
               on : 0 .. MaxFlush, of : Version \cup {Live}, tries : 0 .. 1]
Off == [pc |-> "off", on |-> 0, of |-> Live, tries |-> 0]

Fault == faults < MaxFaults /\ faults' = faults + 1

-----------------------------------------------------------------------------
(* Reading and changing                                                    *)

Known == IF loaded THEN data ELSE disk

(* The data becomes another object: a write under way keeps the one it had. *)
Freeze(fl) == [f \in Flush |-> IF fl[f].pc \in Writing /\ fl[f].of = Live
                                 THEN [fl[f] EXCEPT !.of = data] ELSE fl[f]]
Loaded == IF loaded THEN flush ELSE Freeze(flush)

(* Mutant of Begin: a write under way is not waited for.                   *)
BeginAtOnce(fl) ==
  /\ begun < MaxFlush /\ begun' = begun + 1
  /\ flush' = [fl EXCEPT ![begun'] = [Off EXCEPT !.pc = "mkdir"]]
  /\ promise' = begun'

(* flush up to its await, from the flushes fl.                             *)
Begin(fl) ==
  /\ begun < MaxFlush /\ begun' = begun + 1
  /\ flush' = [fl EXCEPT ![begun'] = IF promise = 0 THEN [Off EXCEPT !.pc = "mkdir"]
                                     ELSE [Off EXCEPT !.pc = "waits", !.on = promise]]
  /\ promise' = IF promise = 0 THEN begun' ELSE promise

(* loadSync                                                                *)
Read ==
  /\ ~loaded /\ loaded' = TRUE
  /\ data' = disk /\ flush' = Freeze(flush)
  /\ UNCHANGED <<disk, latest, begun, promise, faults, overlapped, gaveUp>>

(* Mutant of Mutate: no flush is begun.                                    *)
MutateOnly ==
  /\ latest < MaxVersion /\ latest' = latest + 1
  /\ data' = latest' /\ loaded' = TRUE /\ flush' = Loaded
  /\ UNCHANGED <<disk, begun, promise, faults, overlapped, gaveUp>>

(* mutate changes the object in place, ...                                 *)
Mutate ==
  /\ latest < MaxVersion /\ latest' = latest + 1
  /\ data' = latest' /\ loaded' = TRUE
  /\ Begin(Loaded)
  /\ UNCHANGED <<disk, faults, overlapped, gaveUp>>

(* ... replace puts another in its place.                                  *)
Replace ==
  /\ latest < MaxVersion /\ latest' = latest + 1
  /\ data' = latest' /\ loaded' = TRUE
  /\ Begin([f \in Flush |-> IF Loaded[f].pc \in Writing /\ Loaded[f].of = Live
                              THEN [Loaded[f] EXCEPT !.of = Known] ELSE Loaded[f]])
  /\ UNCHANGED <<disk, faults, overlapped, gaveUp>>

(* flushAgentContext: of a store that was never read, too.  Only           *)
(* pending.json is always read before.                                     *)
ContextFlush ==
  /\ Blind \/ loaded
  /\ Begin(flush)
  /\ UNCHANGED <<disk, data, loaded, latest, faults, overlapped, gaveUp>>

-----------------------------------------------------------------------------
(* Writing                                                                 *)

At(f, pc) == flush[f].pc = pc

(* The directory is there; the data is written as it is now.               *)
WriteTmp(f) ==
  /\ At(f, "mkdir")
  /\ flush' = [flush EXCEPT ![f].pc = "tmp", ![f].of = IF @ = Live THEN data ELSE @]
  /\ UNCHANGED <<disk, data, loaded, latest, begun, promise, faults, overlapped, gaveUp>>

Rename(f) ==
  /\ At(f, "tmp")
  /\ flush' = [flush EXCEPT ![f].pc = "named"]
  /\ disk' = flush[f].of
  /\ UNCHANGED <<data, loaded, latest, begun, promise, faults, overlapped, gaveUp>>

WaitFor(f) == {g \in Flush : At(g, "waits") /\ flush[g].on = f}

(* The write is over: flushPromise is cleared, then each that waited for   *)
(* it begins a write of its own.                                           *)
WriteOk(f) ==
  /\ At(f, "named")
  /\ flush' = [g \in Flush |-> CASE g = f -> [Off EXCEPT !.pc = "ok"]
                                 [] g \in WaitFor(f) -> [Off EXCEPT !.pc = "mkdir"]
                                 [] OTHER -> flush[g]]
  /\ \/ WaitFor(f) = {} /\ promise' = 0
     \/ promise' \in WaitFor(f) /\ \A g \in WaitFor(f) : g <= promise'
  /\ overlapped' = (overlapped \/ \E g, k \in WaitFor(f) : g # k)
  /\ UNCHANGED <<disk, data, loaded, latest, begun, faults, gaveUp>>

(* Mutant of WriteFailsAgain: it may be done again and again.              *)
WriteFailsEver(f) ==
  /\ flush[f].pc \in Writing /\ Fault
  /\ flush' = [flush EXCEPT ![f].pc = "mkdir", ![f].tries = @ + 1]
  /\ UNCHANGED <<disk, data, loaded, latest, begun, promise, overlapped, gaveUp>>

(* writeAtomicWithRetry: a failing write is done once more from the start. *)
WriteFailsAgain(f) ==
  /\ flush[f].pc \in Writing /\ flush[f].tries = 0 /\ Fault
  /\ flush' = [flush EXCEPT ![f].pc = "mkdir", ![f].tries = 1]
  /\ UNCHANGED <<disk, data, loaded, latest, begun, promise, overlapped, gaveUp>>

(* The second failure is the flush's, and of those that wait for it.       *)
WriteFails(f) ==
  /\ flush[f].pc \in Writing /\ flush[f].tries = 1 /\ Fault
  /\ flush' = [g \in Flush |-> IF g \in {f} \cup WaitFor(f) THEN [Off EXCEPT !.pc = "failed"]
                               ELSE flush[g]]
  /\ promise' = 0 /\ gaveUp' = TRUE
  /\ UNCHANGED <<disk, data, loaded, latest, begun, overlapped>>

(* The process starts again.                                               *)
Restart ==
  /\ Fault
  /\ loaded' = FALSE /\ data' = 0
  /\ flush' = [f \in Flush |-> IF f <= begun THEN [Off EXCEPT !.pc = "failed"] ELSE Off]
  /\ promise' = 0 /\ gaveUp' = TRUE
  /\ UNCHANGED <<disk, latest, begun, overlapped>>

Init ==
  /\ disk = 0 /\ data = 0 /\ loaded = FALSE /\ latest = 0
  /\ flush = [f \in Flush |-> Off] /\ begun = 0 /\ promise = 0
  /\ faults = 0 /\ overlapped = FALSE /\ gaveUp = FALSE

Write(f) == WriteTmp(f) \/ Rename(f) \/ WriteOk(f)

Next ==
  \/ Read \/ Mutate \/ Replace \/ ContextFlush \/ Restart
  \/ \E f \in Flush : Write(f) \/ WriteFailsAgain(f) \/ WriteFails(f)

Spec == Init /\ [][Next]_vars

(* The file system answers.                                                *)
FairSpec == Spec /\ \A f \in Flush : WF_vars(Write(f))

-----------------------------------------------------------------------------
(* Properties                                                              *)

(* Every variable has its type.                                            *)
TypeOK ==
  /\ disk \in Version /\ data \in Version /\ latest \in Version
  /\ loaded \in BOOLEAN /\ overlapped \in BOOLEAN /\ gaveUp \in BOOLEAN
  /\ flush \in [Flush -> FlushState]
  /\ begun \in 0 .. MaxFlush /\ promise \in 0 .. MaxFlush /\ faults \in 0 .. MaxFaults

(* The file never goes back to older data, through retries, failures and   *)
(* restarts, until two flushes have waited for the same write: they write  *)
(* at once, and the older data may be renamed last.                        *)
NeverOlder == [][ disk' >= disk \/ overlapped ]_disk

(* What was changed reaches the file, unless a flush failed twice, the     *)
(* process ended or two writes overlapped.                                 *)
ChangesAreSaved ==
  \A v \in 1 .. MaxVersion : data = v ~> disk >= v \/ gaveUp \/ overlapped

(* docs/user-guide.md: a bond persists until it is revoked.  A file that   *)
(* was written is never empty again.                                       *)
WrittenStays == [][ disk > 0 => disk' > 0 ]_disk
=============================================================================
