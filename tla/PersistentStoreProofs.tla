------------------------ MODULE PersistentStoreProofs ------------------------
(***************************************************************************)
(* Theorems about PersistentStore, for any number of changes, flushes and  *)
(* failures: the types, and that the file never goes back to older data    *)
(* while no two flushes have waited for the same write, if the context is  *)
(* not flushed before the store was read.                                  *)
(***************************************************************************)
EXTENDS PersistentStore, TLAPS

-----------------------------------------------------------------------------
(* Types                                                                   *)

Pc == {"off", "waits", "ok", "failed"} \cup Writing

LEMMA OffType == Off \in FlushState /\ Off.pc = "off" /\ Off.of = Live
BY BoundsAssumption DEF Off, FlushState

LEMMA StateType ==
  ASSUME NEW r \in FlushState, NEW pc \in Pc, NEW o \in Version \cup {Live}, NEW p \in 0 .. MaxFlush,
         NEW t \in 0 .. 1
  PROVE  /\ [r EXCEPT !.pc = pc] \in FlushState
         /\ [r EXCEPT !.of = o] \in FlushState
         /\ [r EXCEPT !.pc = pc, !.of = o] \in FlushState
         /\ [r EXCEPT !.pc = pc, !.on = p] \in FlushState
         /\ [r EXCEPT !.pc = pc, !.tries = t] \in FlushState
<1>1. FlushState = [pc : Pc, on : 0 .. MaxFlush, of : Version \cup {Live}, tries : 0 .. 1]
  BY DEF FlushState, Pc
<1>. QED
  BY <1>1

LEMMA FreezeType ==
  ASSUME TypeOK, NEW fl \in [Flush -> FlushState], NEW v \in Version \cup {Live}
  PROVE  /\ Freeze(fl) \in [Flush -> FlushState] /\ Loaded \in [Flush -> FlushState]
         /\ [f \in Flush |-> IF Loaded[f].pc \in Writing /\ Loaded[f].of = Live
                               THEN [Loaded[f] EXCEPT !.of = v] ELSE Loaded[f]] \in [Flush -> FlushState]
<1>1. \A g \in [Flush -> FlushState], w \in Version \cup {Live} :
        [f \in Flush |-> IF g[f].pc \in Writing /\ g[f].of = Live
                           THEN [g[f] EXCEPT !.of = w] ELSE g[f]] \in [Flush -> FlushState]
  <2>. SUFFICES ASSUME NEW g \in [Flush -> FlushState], NEW w \in Version \cup {Live}, NEW f \in Flush
                PROVE  [g[f] EXCEPT !.of = w] \in FlushState
    OBVIOUS
  <2>1. g[f] \in FlushState /\ "off" \in Pc /\ 0 \in 0 .. MaxFlush /\ 0 \in 0 .. 1
    BY BoundsAssumption DEF Pc
  <2>. QED
    BY <2>1, StateType
<1>2. data \in Version \cup {Live} /\ flush \in [Flush -> FlushState]
  BY DEF TypeOK
<1>3. Freeze(fl) \in [Flush -> FlushState] /\ Freeze(flush) \in [Flush -> FlushState]
  BY <1>1, <1>2 DEF Freeze
<1>4. Loaded \in [Flush -> FlushState]
  BY <1>2, <1>3 DEF Loaded
<1>. QED
  BY <1>1, <1>3, <1>4

LEMMA BeginType ==
  ASSUME TypeOK, NEW fl \in [Flush -> FlushState], Begin(fl)
  PROVE  begun' \in 0 .. MaxFlush /\ flush' \in [Flush -> FlushState] /\ promise' \in 0 .. MaxFlush
<1>1. begun' \in 0 .. MaxFlush /\ promise' \in 0 .. MaxFlush /\ promise \in 0 .. MaxFlush
  BY BoundsAssumption DEF Begin, TypeOK
<1>2. /\ Off \in FlushState /\ {"mkdir", "waits"} \subseteq Pc
      /\ Live \in Version \cup {Live} /\ 0 \in 0 .. 1
  <2>1. 0 \in Version \cup {Live} /\ "off" \in Pc /\ 0 \in 0 .. MaxFlush /\ 0 \in 0 .. 1
    BY BoundsAssumption DEF Version, Pc
  <2>. QED
    BY <2>1, OffType DEF Pc, Writing
<1>3. [Off EXCEPT !.pc = "mkdir"] \in FlushState /\ [Off EXCEPT !.pc = "waits", !.on = promise] \in FlushState
  BY <1>1, <1>2, StateType
<1>. QED
  BY <1>1, <1>3 DEF Begin

LEMMA FaultType ==
  ASSUME TypeOK, Fault
  PROVE  faults' \in 0 .. MaxFaults
BY BoundsAssumption DEF TypeOK, Fault

LEMMA VersionFacts ==
  /\ 0 \in Version /\ Version \subseteq Nat /\ Live \in Nat /\ Live \notin Version
  /\ \A v \in Version : v < MaxVersion => v + 1 \in Version
BY BoundsAssumption DEF Version, Live

(* What a flush has written to the temporary file no longer changes.       *)
WrittenInv == \A f \in Flush : flush[f].pc \in {"tmp", "named"} => flush[f].of # Live

TypeInv == TypeOK /\ WrittenInv

LEMMA FreezeWritten ==
  ASSUME TypeInv, NEW v
  PROVE  LET fl == [f \in Flush |-> IF Loaded[f].pc \in Writing /\ Loaded[f].of = Live
                               THEN [Loaded[f] EXCEPT !.of = v] ELSE Loaded[f]] IN
         \A f \in Flush : /\ Freeze(flush)[f].pc = flush[f].pc /\ Loaded[f].pc = flush[f].pc
                          /\ fl[f].pc = flush[f].pc
                          /\ flush[f].of # Live =>
                               /\ Freeze(flush)[f] = flush[f] /\ Loaded[f] = flush[f]
                               /\ fl[f] = flush[f]
<1>1. \A f \in Flush : Freeze(flush)[f].pc = flush[f].pc /\ (flush[f].of # Live => Freeze(flush)[f] = flush[f])
  BY DEF TypeInv, TypeOK, FlushState, Freeze
<1>2. \A f \in Flush : Loaded[f].pc = flush[f].pc /\ (flush[f].of # Live => Loaded[f] = flush[f])
  BY <1>1 DEF Loaded
<1>3. Loaded \in [Flush -> FlushState]
  BY FreezeType DEF TypeInv, TypeOK
<1>. QED
  BY <1>1, <1>2, <1>3 DEF FlushState

LEMMA BeginWritten ==
  ASSUME TypeInv, NEW fl \in [Flush -> FlushState], Begin(fl),
         \A f \in Flush : fl[f].pc = flush[f].pc /\ (flush[f].of # Live => fl[f] = flush[f])
  PROVE  WrittenInv'
BY DEF Begin, TypeInv, WrittenInv, Off

LEMMA TypeStep == TypeInv /\ [Next]_vars => TypeInv'
<1>. SUFFICES ASSUME TypeInv, [Next]_vars PROVE TypeInv'
  OBVIOUS
<1>. USE VersionFacts
<1>0. /\ {"off", "waits", "ok", "failed", "mkdir", "tmp", "named"} \subseteq Pc
      /\ 0 \in 0 .. MaxFlush /\ 0 \in 0 .. 1 /\ 1 \in 0 .. 1 /\ Live \in Version \cup {Live}
      /\ TypeOK /\ flush \in [Flush -> FlushState] /\ \A f \in Flush : flush[f] \in FlushState
  BY BoundsAssumption DEF Pc, Writing, TypeOK, TypeInv
<1>00. /\ Off \in FlushState /\ \A pc \in Pc : [Off EXCEPT !.pc = pc] \in FlushState
  BY <1>0, OffType, StateType
<1>1. CASE UNCHANGED vars
  BY <1>1 DEF vars, TypeOK, TypeInv, WrittenInv
<1>2. CASE Read
  <2>1. Freeze(flush) \in [Flush -> FlushState]
    BY <1>0, FreezeType
  <2>2. WrittenInv'
    BY <1>2, FreezeWritten DEF Read, TypeInv, WrittenInv
  <2>. QED
    BY <1>2, <2>1, <2>2 DEF Read, TypeOK, TypeInv
<1>3. CASE Mutate
  <2>1. Loaded \in [Flush -> FlushState]
    BY <1>0, FreezeType
  <2>2. begun' \in 0 .. MaxFlush /\ flush' \in [Flush -> FlushState] /\ promise' \in 0 .. MaxFlush
    BY <1>0, <1>3, <2>1, BeginType DEF Mutate
  <2>3. WrittenInv'
    BY <1>3, <2>1, FreezeWritten, BeginWritten DEF Mutate
  <2>. QED
    BY <1>3, <2>2, <2>3 DEF Mutate, TypeOK, TypeInv
<1>4. CASE Replace
  <2>. DEFINE fl == [f \in Flush |-> IF Loaded[f].pc \in Writing /\ Loaded[f].of = Live
                              THEN [Loaded[f] EXCEPT !.of = Known] ELSE Loaded[f]]
  <2>1. Known \in Version \cup {Live}
    BY <1>0 DEF Known, TypeOK
  <2>0. Begin(fl)
    BY <1>4 DEF Replace
  <2>2. fl \in [Flush -> FlushState] /\ Begin(fl)
    <3>1. fl \in [Flush -> FlushState]
      BY <1>0, <2>1, FreezeType
    <3>. QED
      BY <2>0, <3>1
  <2>3. begun' \in 0 .. MaxFlush /\ flush' \in [Flush -> FlushState] /\ promise' \in 0 .. MaxFlush
    BY <1>0, <2>2, BeginType
  <2>4. \A f \in Flush : fl[f].pc = flush[f].pc /\ (flush[f].of # Live => fl[f] = flush[f])
    BY FreezeWritten
  <2>5. WrittenInv'
    BY <2>2, <2>4, BeginWritten
  <2>. QED
    BY <1>4, <2>3, <2>5 DEF Replace, TypeOK, TypeInv
<1>5. CASE ContextFlush
  <2>1. Begin(flush)
    BY <1>5 DEF ContextFlush
  <2>. QED
    BY <1>0, <1>5, <2>1, BeginType, BeginWritten DEF ContextFlush, TypeOK, TypeInv
<1>6. CASE Restart
  <2>1. flush' \in [Flush -> FlushState]
    BY <1>0, <1>00, <1>6 DEF Restart
  <2>2. WrittenInv'
    BY <1>6 DEF Restart, WrittenInv, Off
  <2>. QED
    BY <1>0, <1>6, <2>1, <2>2, FaultType DEF Restart, TypeOK, TypeInv
<1>7. ASSUME NEW f \in Flush, WriteTmp(f) PROVE TypeInv'
  <2>. DEFINE o == IF flush[f].of = Live THEN data ELSE flush[f].of
  <2>1. o \in Version
    BY <1>0 DEF FlushState, TypeOK
  <2>2. flush' = [flush EXCEPT ![f] = [flush[f] EXCEPT !.pc = "tmp", !.of = o]]
    BY <1>0, <1>7 DEF WriteTmp, FlushState
  <2>3. [flush[f] EXCEPT !.pc = "tmp", !.of = o] \in FlushState
    BY <1>0, <2>1, StateType
  <2>4. flush'[f].of = o
    BY <1>0, <2>2 DEF FlushState
  <2>5. WrittenInv'
    BY <1>0, <2>1, <2>2, <2>4 DEF TypeInv, WrittenInv
  <2>. QED
    BY <1>0, <1>7, <2>2, <2>3, <2>5 DEF WriteTmp, TypeOK, TypeInv
<1>8. ASSUME NEW f \in Flush, Rename(f) PROVE TypeInv'
  <2>1. flush' \in [Flush -> FlushState]
    BY <1>0, <1>8, StateType DEF Rename
  <2>2. flush[f].of \in Version
    BY <1>0, <1>8 DEF FlushState, Rename, At, TypeInv, WrittenInv
  <2>3. WrittenInv'
    BY <1>0, <1>8, <2>2 DEF Rename, TypeInv, WrittenInv, FlushState
  <2>. QED
    BY <1>8, <2>1, <2>2, <2>3 DEF Rename, TypeOK, TypeInv
<1>9. ASSUME NEW f \in Flush, WriteOk(f) PROVE TypeInv'
  <2>1. flush' \in [Flush -> FlushState]
    BY <1>0, <1>00, <1>9 DEF WriteOk
  <2>2. WaitFor(f) \subseteq Flush /\ Flush \subseteq 0 .. MaxFlush
    BY BoundsAssumption DEF WaitFor, Flush
  <2>3. promise' \in 0 .. MaxFlush
    BY <1>0, <1>9, <2>2 DEF WriteOk
  <2>4. WrittenInv'
    BY <1>9 DEF WriteOk, TypeInv, WrittenInv, Off
  <2>5. overlapped' \in BOOLEAN
    BY <1>9 DEF WriteOk, TypeInv, TypeOK
  <2>. QED
    BY <1>0, <1>9, <2>1, <2>3, <2>4, <2>5 DEF WriteOk, TypeOK, TypeInv
<1>10. ASSUME NEW f \in Flush, WriteFailsAgain(f) PROVE TypeInv'
  <2>1. flush' \in [Flush -> FlushState]
    BY <1>0, <1>10, StateType DEF WriteFailsAgain
  <2>2. WrittenInv'
    BY <1>0, <1>10 DEF WriteFailsAgain, TypeInv, WrittenInv, FlushState
  <2>. QED
    BY <1>0, <1>10, <2>1, <2>2, FaultType DEF WriteFailsAgain, TypeOK, TypeInv
<1>11. ASSUME NEW f \in Flush, WriteFails(f) PROVE TypeInv'
  <2>1. flush' \in [Flush -> FlushState]
    BY <1>0, <1>00, <1>11 DEF WriteFails
  <2>2. WrittenInv'
    BY <1>11 DEF WriteFails, TypeInv, WrittenInv, Off
  <2>. QED
    BY <1>0, <1>11, <2>1, <2>2, FaultType DEF WriteFails, TypeOK, TypeInv
<1>. QED
  BY <1>1, <1>2, <1>3, <1>4, <1>5, <1>6, <1>7, <1>8, <1>9, <1>10, <1>11 DEF Next, Write

LEMMA TypeInit == Init => TypeInv
<1>. SUFFICES ASSUME Init PROVE TypeInv
  OBVIOUS
<1>1. flush \in [Flush -> FlushState] /\ WrittenInv
  BY OffType DEF Init, WrittenInv
<1>2. 0 \in Version /\ 0 \in 0 .. MaxFlush /\ 0 \in 0 .. MaxFaults
  BY VersionFacts, BoundsAssumption
<1>. QED
  BY <1>1, <1>2 DEF Init, TypeInv, TypeOK

(* Every variable has its type, for any bounds.                            *)
THEOREM TypeCorrect == Spec => []TypeOK
<1>1. TypeInv => TypeOK
  BY DEF TypeInv
<1>. QED
  BY <1>1, TypeInit, TypeStep, PTL DEF Spec

-----------------------------------------------------------------------------
(* The file never goes back                                                *)

(* One flush writes at a time, the one that promise names and every other  *)
(* waits for; what it writes is no older than the file and no newer than   *)
(* the data.                                                               *)
OneWriter ==
  /\ \A f \in Flush : flush[f].pc \in Writing => promise = f /\ loaded
  /\ \A f \in Flush : flush[f].pc = "waits" => flush[f].on = promise /\ promise \in Flush /\ loaded

Fresh ==
  /\ disk <= latest
  /\ loaded => disk <= data /\ data <= latest
  /\ \A f \in Flush : flush[f].pc \in Writing /\ flush[f].of # Live
                        => disk <= flush[f].of /\ flush[f].of <= data

OrderInv == ~overlapped => OneWriter /\ Fresh

LEMMA BeginOrder ==
  ASSUME TypeInv, OneWriter, Fresh, NEW fl \in [Flush -> FlushState], Begin(fl),
         \A f \in Flush : fl[f].pc = flush[f].pc /\ fl[f].on = flush[f].on,
         \A f \in Flush : fl[f].pc \in Writing /\ fl[f].of # Live
                              => disk <= fl[f].of /\ fl[f].of <= data',
         UNCHANGED <<disk, overlapped>>, loaded', disk <= data', data' <= latest', disk <= latest'
  PROVE  OneWriter' /\ Fresh'
<1>. DEFINE new == IF promise = 0 THEN [Off EXCEPT !.pc = "mkdir"]
                   ELSE [Off EXCEPT !.pc = "waits", !.on = promise]
<1>1. /\ \A f \in Flush : flush'[f] = IF f = begun' THEN new ELSE fl[f]
      /\ promise' = IF promise = 0 THEN begun' ELSE promise
  BY DEF Begin
<1>2. new.of = Live /\ (IF promise = 0 THEN new.pc = "mkdir" ELSE new.pc = "waits" /\ new.on = promise)
  BY DEF Off
<1>3. promise # 0 => promise \in Flush
  BY BoundsAssumption DEF TypeInv, TypeOK, Flush
<1>4. OneWriter'
  <2>1. CASE promise = 0
    <3>1. \A f \in Flush : flush[f].pc \notin Writing /\ flush[f].pc # "waits"
      BY <2>1 DEF OneWriter, Flush
    <3>. QED
      BY <1>1, <1>2, <2>1, <3>1 DEF OneWriter, Writing
  <2>2. CASE promise # 0
    BY <1>1, <1>2, <1>3, <2>2 DEF OneWriter, Writing
  <2>. QED
    BY <2>1, <2>2
<1>5. Fresh'
  BY <1>1, <1>2 DEF Fresh
<1>. QED
  BY <1>4, <1>5

LEMMA OrderStep ==
  ASSUME ~Blind, TypeInv, OrderInv, [Next]_vars
  PROVE  OrderInv'
<1>. SUFFICES ASSUME ~overlapped' PROVE OneWriter' /\ Fresh'
  BY DEF OrderInv
<1>0. /\ flush \in [Flush -> FlushState] /\ \A f \in Flush : flush[f] \in FlushState
      /\ disk \in Nat /\ data \in Nat /\ latest \in Nat /\ TypeOK
  BY VersionFacts DEF TypeInv, TypeOK
<1>00. OneWriter /\ Fresh
  <2>1. ~overlapped
    BY DEF vars, Next, Read, Mutate, Replace, ContextFlush, Restart, Write, WriteTmp, Rename, WriteOk,
           WriteFailsAgain, WriteFails
  <2>. QED
    BY <2>1 DEF OrderInv
<1>000. ~loaded => \A f \in Flush : flush[f].pc \notin Writing /\ flush[f].pc # "waits"
  BY <1>00 DEF OneWriter
<1>1. CASE UNCHANGED vars
  BY <1>00, <1>1 DEF vars, OneWriter, Fresh
<1>01. ~loaded => Freeze(flush) = flush
  BY <1>0, <1>000 DEF Freeze
<1>02. Loaded = flush
  BY <1>01 DEF Loaded
<1>2. CASE Read
  BY <1>0, <1>00, <1>000, <1>01, <1>2 DEF Read, OneWriter, Fresh
<1>03. disk <= latest /\ (loaded => disk <= data /\ data <= latest)
  BY <1>00 DEF Fresh
<1>3. CASE Mutate
  <2>1. /\ Begin(flush) /\ UNCHANGED <<disk, overlapped>> /\ loaded'
        /\ data' = latest + 1 /\ latest' = latest + 1
    BY <1>02, <1>3 DEF Mutate
  <2>2. \A f \in Flush : flush[f].pc \in Writing /\ flush[f].of # Live
                         => disk <= flush[f].of /\ flush[f].of <= data'
    <3>. SUFFICES ASSUME NEW f \in Flush, flush[f].pc \in Writing, flush[f].of # Live
                  PROVE  disk <= flush[f].of /\ flush[f].of <= data'
      OBVIOUS
    <3>1. loaded /\ disk <= flush[f].of /\ flush[f].of <= data /\ flush[f].of \in Nat
      BY <1>0, <1>00, VersionFacts DEF OneWriter, Fresh, FlushState
    <3>. QED
      BY <1>0, <1>03, <2>1, <3>1
  <2>. QED
    BY <1>0, <1>00, <1>03, <2>1, <2>2, BeginOrder
<1>4. CASE Replace
  <2>. DEFINE fl == [f \in Flush |-> IF flush[f].pc \in Writing /\ flush[f].of = Live
                              THEN [flush[f] EXCEPT !.of = Known] ELSE flush[f]]
  <2>1. /\ Begin(fl) /\ UNCHANGED <<disk, overlapped>> /\ loaded'
        /\ data' = latest + 1 /\ latest' = latest + 1
    BY <1>02, <1>4 DEF Replace
  <2>2. fl \in [Flush -> FlushState]
    <3>1. Known \in Version \cup {Live}
      BY <1>0 DEF Known, TypeOK
    <3>. QED
      BY <1>0, <1>02, <3>1, FreezeType
  <2>3. \A f \in Flush : fl[f].pc = flush[f].pc /\ fl[f].on = flush[f].on
    BY <1>0 DEF FlushState
  <2>4. \A f \in Flush : fl[f].pc \in Writing /\ fl[f].of # Live
                         => disk <= fl[f].of /\ fl[f].of <= data'
    <3>. SUFFICES ASSUME NEW f \in Flush, fl[f].pc \in Writing, fl[f].of # Live
                  PROVE  disk <= fl[f].of /\ fl[f].of <= data'
      OBVIOUS
    <3>1. flush[f].pc \in Writing /\ loaded
      BY <1>00, <2>3 DEF OneWriter
    <3>2. CASE flush[f].of = Live
      <4>1. fl[f].of = data
        BY <1>0, <3>1, <3>2 DEF Known, FlushState
      <4>. QED
        BY <1>0, <1>03, <2>1, <3>1, <4>1
    <3>3. CASE flush[f].of # Live
      <4>1. fl[f].of = flush[f].of /\ disk <= flush[f].of /\ flush[f].of <= data /\ flush[f].of \in Nat
        BY <1>0, <1>00, <3>1, <3>3, VersionFacts DEF Fresh, FlushState
      <4>. QED
        BY <1>0, <1>03, <2>1, <3>1, <4>1
    <3>. QED
      BY <3>2, <3>3
  <2>. HIDE DEF fl
  <2>. QED
    BY <1>0, <1>00, <1>03, <2>1, <2>2, <2>3, <2>4, BeginOrder
<1>5. CASE ContextFlush
  <2>1. loaded /\ Begin(flush) /\ UNCHANGED <<disk, data, loaded, latest, overlapped>>
    BY <1>5 DEF ContextFlush
  <2>. QED
    BY <1>0, <1>00, <1>03, <2>1, BeginOrder DEF Fresh
<1>6. CASE Restart
  <2>1. \A f \in Flush : flush'[f].pc \in {"failed", "off"}
    BY <1>6, OffType DEF Restart, Off
  <2>. QED
    BY <1>00, <1>6, <2>1 DEF Restart, OneWriter, Fresh, Writing
<1>7. ASSUME NEW f \in Flush, WriteTmp(f) PROVE OneWriter' /\ Fresh'
  <2>1. /\ flush[f].pc = "mkdir" /\ flush'[f].pc = "tmp" /\ flush'[f].on = flush[f].on
        /\ flush'[f].of \in {data, flush[f].of} /\ (flush[f].of = Live => flush'[f].of = data)
        /\ \A g \in Flush \ {f} : flush'[g] = flush[g]
    BY <1>0, <1>7 DEF WriteTmp, At, FlushState
  <2>. QED
    BY <1>0, <1>00, <1>03, <1>7, <2>1 DEF WriteTmp, OneWriter, Fresh, Writing
<1>8. ASSUME NEW f \in Flush, Rename(f) PROVE OneWriter' /\ Fresh'
  <2>1. /\ flush[f].pc = "tmp" /\ flush'[f].pc = "named" /\ flush'[f].on = flush[f].on
        /\ flush'[f].of = flush[f].of /\ disk' = flush[f].of /\ flush[f].of # Live
        /\ \A g \in Flush \ {f} : flush'[g] = flush[g]
    BY <1>0, <1>8 DEF Rename, At, FlushState, TypeInv, WrittenInv
  <2>2. disk' \in Nat /\ disk <= disk' /\ disk' <= data /\ loaded
        /\ \A g \in Flush \ {f} : flush[g].pc \notin Writing
    BY <1>0, <1>00, <2>1, VersionFacts DEF OneWriter, Fresh, FlushState, Writing
  <2>3. OneWriter'
    BY <1>00, <1>8, <2>1, <2>2 DEF Rename, OneWriter, Writing
  <2>4. Fresh'
    BY <1>0, <1>03, <1>8, <2>1, <2>2 DEF Rename, Fresh
  <2>. QED
    BY <2>3, <2>4
<1>9. ASSUME NEW f \in Flush, WriteOk(f) PROVE OneWriter' /\ Fresh'
  <2>1. promise = f /\ loaded /\ (\A g \in Flush \ {f} : flush[g].pc \notin Writing)
    BY <1>00, <1>9 DEF WriteOk, At, OneWriter, Writing
  <2>2. \A g \in Flush : flush[g].pc = "waits" => g \in WaitFor(f)
    BY <1>00, <2>1 DEF WaitFor, At, OneWriter
  <2>3. \A g \in Flush : /\ flush'[g].pc # "waits"
                         /\ flush'[g].pc \in Writing => g \in WaitFor(f) /\ flush'[g].of = Live
    BY <1>9, <2>1, <2>2, OffType DEF WriteOk, Writing, Off
  <2>4. \A g \in WaitFor(f) : promise' = g
    BY <1>9 DEF WriteOk
  <2>5. UNCHANGED <<disk, data, loaded, latest>>
    BY <1>9 DEF WriteOk
  <2>. QED
    BY <1>03, <2>1, <2>3, <2>4, <2>5 DEF OneWriter, Fresh
<1>10. ASSUME NEW f \in Flush, WriteFailsAgain(f) PROVE OneWriter' /\ Fresh'
  <2>1. /\ flush[f].pc \in Writing /\ flush'[f].pc = "mkdir" /\ flush'[f].of = flush[f].of
        /\ \A g \in Flush \ {f} : flush'[g] = flush[g]
    BY <1>0, <1>10 DEF WriteFailsAgain, FlushState
  <2>. QED
    BY <1>00, <1>10, <2>1 DEF WriteFailsAgain, OneWriter, Fresh, Writing
<1>11. ASSUME NEW f \in Flush, WriteFails(f) PROVE OneWriter' /\ Fresh'
  <2>1. promise = f /\ (\A g \in Flush \ {f} : flush[g].pc \notin Writing)
    BY <1>00, <1>11 DEF WriteFails, OneWriter
  <2>2. \A g \in Flush : flush[g].pc = "waits" => g \in WaitFor(f)
    BY <1>00, <2>1 DEF WaitFor, At, OneWriter
  <2>3. \A g \in Flush : flush'[g].pc # "waits" /\ flush'[g].pc \notin Writing
    BY <1>11, <2>1, <2>2 DEF WriteFails, Writing, Off
  <2>. QED
    BY <1>03, <1>11, <2>3 DEF WriteFails, OneWriter, Fresh
<1>. QED
  BY <1>1, <1>2, <1>3, <1>4, <1>5, <1>6, <1>7, <1>8, <1>9, <1>10, <1>11 DEF Next, Write

(* Only a rename changes the file, and it changes it to newer data.        *)
LEMMA RenameIsNewer ==
  ASSUME ~Blind, TypeInv, OrderInv, [Next]_vars
  PROVE  disk' >= disk \/ overlapped
<1>0. disk \in Nat
  BY VersionFacts DEF TypeInv, TypeOK
<1>1. CASE disk' = disk
  BY <1>0, <1>1
<1>2. ASSUME NEW f \in Flush, Rename(f), ~overlapped PROVE disk' >= disk
  <2>1. flush[f].of \in Nat /\ disk <= flush[f].of
    BY <1>2, VersionFacts DEF Rename, At, TypeInv, TypeOK, WrittenInv, FlushState, OrderInv, Fresh, Writing
  <2>. QED
    BY <1>0, <1>2, <2>1 DEF Rename
<1>. QED
  BY <1>1, <1>2 DEF vars, Next, Read, Mutate, Replace, ContextFlush, Restart, Write, WriteTmp, WriteOk,
     WriteFailsAgain, WriteFails

(* A file of a store that is read before its context is flushed holds no   *)
(* older data than it did, through retries, failures and restarts, until   *)
(* two flushes have waited for the same write.                             *)
THEOREM OrderSafety == ASSUME ~Blind PROVE Spec => NeverOlder
<1>1. Init => OrderInv
  BY OffType, BoundsAssumption DEF Init, OrderInv, OneWriter, Fresh, Writing
<1>2. TypeInv /\ OrderInv /\ [Next]_vars => OrderInv'
  BY OrderStep
<1>3. TypeInv /\ OrderInv /\ [Next]_vars => [disk' >= disk \/ overlapped]_disk
  BY RenameIsNewer
<1>. QED
  BY <1>1, <1>2, <1>3, TypeInit, TypeStep, PTL DEF Spec, NeverOlder
=============================================================================
