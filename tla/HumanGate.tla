------------------------------ MODULE HumanGate ------------------------------
(***************************************************************************)
(* The gate of a host: a pending item waits for its human, who proves with *)
(* a code from a file only the host can read that a decision is theirs     *)
(* (SPEC, A4).  pair_join queues items for one pairing code, the session   *)
(* others; calls of human_approve for an item run one after the other, and *)
(* the fifth wrong code removes it.  pending.json lags behind the queue.   *)
(* A step runs from one await to the next.                                 *)
(***************************************************************************)
EXTENDS Naturals, Sequences, FiniteSets

CONSTANTS
  PairItem,   \* ids of the items pair_join may queue for the code
  OpenItem,   \* ids of the session_open items the session may queue
  MaxTries,   \* MAX_APPROVAL_ATTEMPTS
  MaxCalls,   \* bound: calls of human_approve
  MaxFaults   \* bound: failing files and posts, restarts

Item == PairItem \cup OpenItem

ASSUME ItemAssumption == IsFiniteSet(PairItem) /\ PairItem \cap OpenItem = {}
ASSUME BoundsAssumption ==
  /\ MaxTries \in Nat \ {0}
  /\ MaxCalls \in Nat /\ MaxFaults \in Nat

VARIABLES
  queue,     \* the queue: per item, whether it is there and its wrong codes
  file,      \* the items with an approval file
  saved,     \* pending.json
  reg,       \* the pairing registry's entry for the code
  lapsed,    \* whether the code, and a request of the session, are overdue
  joins,     \* calls of pair_join between their check and the new item
  chain,     \* per item: what the calls for it ask, in order; the first runs
  run,       \* per item: where that call is, and what it read
  made,      \* calls of human_approve so far
  flow,      \* the pairing under way for the code
  faults,    \* failures and restarts so far
  compared,  \* history: wrong codes taken for an item, without those a restart forgot
  effects,   \* history: decisions that took effect, per item as loaded
  bondings,  \* history: pairings that ended bonded since the last restart
  stray      \* history: items whose file could not be deleted, or came back without

history == <<compared, effects, bondings, stray>>
calls == <<chain, run, made>>
vars == <<queue, file, saved, reg, lapsed, joins, calls, flow, faults, history>>

Row == [state : {"unborn", "here", "gone"}, tries : 0 .. MaxTries]
Unborn == [state |-> "unborn", tries |-> 0]
Gone == [state |-> "gone", tries |-> 0]
Ask == {"spoilt", "wrong", "approve", "reject"}   \* spoilt: malformed code, or unknown decision
Outcome == {"terminal", "transient"}
Idle == [pc |-> "idle", tries |-> 0, outcome |-> "terminal"]
Run == [pc : {"idle", "ready", "dispatched", "decline", "settle"}, tries : 0 .. MaxTries, outcome : Outcome]

-----------------------------------------------------------------------------
(* The queue and its files                                                 *)

Here(i) == queue[i].state = "here"
Fault == faults < MaxFaults /\ faults' = faults + 1

(* Mutant of Commit: the item first, though the file may fail.             *)
CommitFirst(i) ==
  /\ queue[i] = Unborn
  /\ file' \in {file, file \cup {i}}
  /\ queue' = [queue EXCEPT ![i].state = "here"]

(* commitItem: the file first, then the item.                              *)
Commit(i) ==
  /\ queue[i] = Unborn
  /\ file' = file \cup {i}
  /\ queue' = [queue EXCEPT ![i].state = "here"]

(* remove: of an item no longer there, nothing; a file that cannot be      *)
(* deleted is left.                                                        *)
Remove(i) ==
  IF Here(i)
    THEN /\ queue' = [queue EXCEPT ![i] = Gone]
         /\ \/ file' = file \ {i} /\ UNCHANGED <<faults, stray>>
            \/ i \in file /\ Fault /\ stray' = stray \cup {i} /\ UNCHANGED file
    ELSE UNCHANGED <<queue, file, faults, stray>>

(* setApprovalAttempts                                                     *)
SetTries(q, i, n) == IF q[i].state = "here" THEN [q EXCEPT ![i].tries = n] ELSE q

(* registry.consume: the tombstone goes with the code's time.              *)
Consumed == IF reg = "none" \/ lapsed THEN "none" ELSE "burnt"

-----------------------------------------------------------------------------
(* pair_join                                                               *)

NextPairItem == {i \in PairItem : queue[i] = Unborn}

(* Up to its await: the code is known or its manifest is fetched, no       *)
(* pairing is under way and no item of the code waits, or that is shown.   *)
(* Bound: as many calls go on as there are ids left.                       *)
PairJoin ==
  /\ reg # "burnt"
  /\ IF lapsed
       THEN reg = "live" /\ reg' = "none" /\ UNCHANGED joins
       ELSE /\ reg' = "live"
            /\ IF flow # "none" \/ \E i \in PairItem : Here(i)
                 THEN UNCHANGED joins
                 ELSE joins < Cardinality(NextPairItem) /\ joins' = joins + 1
  /\ UNCHANGED <<queue, file, saved, lapsed, calls, flow, faults, history>>

(* After it the item is queued, whatever has happened meanwhile.           *)
QueuePairing ==
  /\ joins > 0 /\ joins' = joins - 1
  /\ \/ NextPairItem # {} /\ Commit(CHOOSE i \in NextPairItem : TRUE) /\ UNCHANGED faults
     \/ Fault /\ UNCHANGED <<queue, file>>   \* approval_channel_unavailable
  /\ UNCHANGED <<saved, reg, lapsed, calls, flow, history>>

(* The session queues an opening, and takes it back when it ends.  Its     *)
(* other items differ in that they are never overdue.                      *)
QueueOpen(i) ==
  /\ i \in OpenItem /\ Commit(i)
  /\ UNCHANGED <<saved, reg, lapsed, joins, calls, flow, faults, history>>

Withdraw(i) ==
  /\ i \in OpenItem /\ Here(i) /\ Remove(i)
  /\ UNCHANGED <<saved, reg, lapsed, joins, calls, flow, compared, effects, bondings>>

-----------------------------------------------------------------------------
(* human_approve                                                           *)

(* Of an opening, the gate only tells a wrong code from a decision.        *)
AsksOf(i) == IF i \in PairItem THEN Ask ELSE {"wrong", "approve"}

(* A call waits for those that came before it for the item.                *)
HumanApprove(i, ask) ==
  /\ ask \in AsksOf(i)
  /\ made < MaxCalls /\ made' = made + 1
  /\ queue[i] # Unborn
  /\ chain' = [chain EXCEPT ![i] = Append(@, ask)]
  /\ UNCHANGED <<queue, file, saved, reg, lapsed, joins, run, flow, faults, history>>

At(i, pc) == chain[i] # <<>> /\ run[i].pc = pc
Asks(i) == Head(chain[i])
Goes(i, pc) == run' = [run EXCEPT ![i].pc = pc] /\ UNCHANGED chain

(* The call is answered, and the next one runs.                            *)
Answer(i) == chain' = [chain EXCEPT ![i] = Tail(@)] /\ run' = [run EXCEPT ![i] = Idle]

(* The call throws, and those behind it are rejected with it.              *)
Throw(i) == chain' = [chain EXCEPT ![i] = <<>>] /\ run' = [run EXCEPT ![i] = Idle]

(* executeHumanApprove up to its await.                                    *)
Begin(i) ==
  /\ At(i, "idle")
  /\ CASE ~Here(i) -> Answer(i) /\ UNCHANGED <<queue, file, reg, faults, stray>>
       [] Here(i) /\ (lapsed \/ (i \in PairItem /\ reg # "live")) ->
            /\ Answer(i) /\ Remove(i)
            /\ reg' = IF i \in PairItem /\ reg = "live" THEN Consumed ELSE reg
       [] OTHER ->
            /\ \/ Asks(i) = "spoilt" /\ Answer(i)
               \/ run' = [run EXCEPT ![i].pc = "ready", ![i].tries = queue[i].tries] /\ UNCHANGED chain
            /\ UNCHANGED <<queue, file, reg, faults, stray>>
  /\ UNCHANGED <<saved, lapsed, joins, made, flow, compared, effects, bondings>>

(* A wrong code: counted, the last one removes the item.  Of a pairing the *)
(* initiator is told before the code is consumed.                          *)
Missed(i, n, last) ==
  /\ At(i, "ready") /\ Asks(i) = "wrong"
  /\ compared' = [compared EXCEPT ![i] = @ + 1]
  /\ IF ~last
       THEN queue' = SetTries(queue, i, n) /\ Answer(i) /\ UNCHANGED <<file, faults, stray>>
       ELSE /\ Remove(i)
            /\ IF i \in PairItem /\ reg = "live" THEN Goes(i, "decline") ELSE Answer(i)
  /\ UNCHANGED <<saved, reg, lapsed, joins, made, flow, effects, bondings>>

(* Mutant of Miss: the codes are counted, and no more.                     *)
MissForever(i) == Missed(i, run[i].tries + 1, FALSE)

(* Mutant of Miss: one wrong code too many.                                *)
MissOnceMore(i) == LET n == run[i].tries + 1 IN Missed(i, n, n > MaxTries)

Miss(i) == LET n == run[i].tries + 1 IN Missed(i, n, n >= MaxTries)

Decline(i) ==
  /\ At(i, "decline")
  /\ \/ reg' = Consumed /\ Answer(i) /\ UNCHANGED faults
     \/ Fault /\ Throw(i) /\ UNCHANGED reg
  /\ UNCHANGED <<queue, file, saved, lapsed, joins, made, flow, history>>

(* The right code: the decision is dispatched.  A pairing already under    *)
(* way is joined, whatever it was started for.                             *)
Hit(i) ==
  /\ At(i, "ready") /\ Asks(i) # "wrong"
  /\ IF Asks(i) = "spoilt"
       THEN Answer(i) /\ UNCHANGED flow
       ELSE /\ Goes(i, "dispatched")
            /\ flow' = CASE i \in OpenItem \/ flow # "none" -> flow
                         [] reg = "live" /\ ~lapsed -> Asks(i)
                         [] OTHER -> "stale"
  /\ UNCHANGED <<queue, file, saved, reg, lapsed, joins, made, faults, history>>

(* The pairing ends for every call that waits for it: bonded, rejected or  *)
(* failed, or it throws and the code stays.                                *)
FlowEnds ==
  LET waits == {i \in PairItem : At(i, "dispatched")} IN
  /\ flow # "none" /\ flow' = "none"
  /\ \E outcome \in Outcome :
       /\ run' = [i \in Item |-> IF i \in waits THEN [run[i] EXCEPT !.pc = "settle", !.outcome = outcome]
                                 ELSE run[i]]
       /\ reg' = IF outcome = "terminal" THEN Consumed ELSE reg
       /\ IF outcome = "terminal" /\ flow # "stale"
            THEN /\ effects' = [i \in Item |-> IF i \in waits THEN effects[i] + 1 ELSE effects[i]]
                 /\ bondings' \in {bondings} \cup (IF flow = "approve" THEN {bondings + 1} ELSE {})
            ELSE UNCHANGED <<effects, bondings>>
  /\ UNCHANGED <<queue, file, saved, lapsed, joins, chain, made, faults, compared, stray>>

(* The session's handler ends: the decision took effect, or was refused,   *)
(* or the relay could not be reached.                                      *)
SessionEnds(i) ==
  /\ At(i, "dispatched") /\ i \in OpenItem
  /\ \E outcome \in Outcome :
       /\ run' = [run EXCEPT ![i].pc = "settle", ![i].outcome = outcome]
       /\ effects' \in {effects} \cup (IF outcome = "terminal" /\ Here(i)
                                         THEN {[effects EXCEPT ![i] = @ + 1]} ELSE {})
  /\ UNCHANGED <<queue, file, saved, reg, lapsed, joins, chain, made, flow, faults, compared,
                 bondings, stray>>

(* Mutant of Settle: the item stays.                                       *)
SettleKeeps(i) ==
  /\ At(i, "settle") /\ Answer(i)
  /\ UNCHANGED <<queue, file, faults, stray, saved, reg, lapsed, joins, made, flow,
                 compared, effects, bondings>>

(* classifyApprovalOutcome: the item is kept when the relay was not there. *)
Settle(i) ==
  /\ At(i, "settle") /\ Answer(i)
  /\ IF run[i].outcome = "terminal" THEN Remove(i) ELSE UNCHANGED <<queue, file, faults, stray>>
  /\ UNCHANGED <<saved, reg, lapsed, joins, made, flow, compared, effects, bondings>>

-----------------------------------------------------------------------------
(* Time, pending.json and restarts                                         *)

Lapse ==
  /\ ~lapsed /\ lapsed' = TRUE
  /\ reg' = IF reg = "burnt" THEN "none" ELSE reg
  /\ UNCHANGED <<queue, file, saved, joins, calls, flow, faults, history>>

Kept == [i \in Item |-> IF Here(i) THEN queue[i] ELSE Gone]

(* The file is written (followed while a restart may still read it).       *)
Save ==
  /\ faults < MaxFaults
  /\ saved # Kept /\ saved' = Kept
  /\ UNCHANGED <<queue, file, reg, lapsed, joins, calls, flow, faults, history>>

(* The queue is what pending.json had; files without an item are swept.    *)
Crash ==
  LET back == {i \in Item : saved[i].state = "here"} IN
  /\ Fault
  /\ queue' = [i \in Item |-> IF queue[i] = Unborn THEN Unborn ELSE saved[i]]
  /\ file' = file \cap back
  /\ reg' = "none" /\ joins' = 0 /\ flow' = "none"
  /\ chain' = [i \in Item |-> <<>>] /\ run' = [i \in Item |-> Idle]
  /\ compared' = [i \in Item |-> IF i \in back THEN saved[i].tries ELSE compared[i]]
  /\ effects' = [i \in Item |-> IF i \in back THEN 0 ELSE effects[i]]
  /\ bondings' = 0
  /\ stray' = (back \ file) \cup (stray \cap file \cap back)
  /\ UNCHANGED <<saved, lapsed, made>>

Init ==
  /\ queue = [i \in Item |-> Unborn] /\ saved = [i \in Item |-> Gone] /\ file = {}
  /\ reg = "none" /\ lapsed = FALSE /\ joins = 0
  /\ chain = [i \in Item |-> <<>>] /\ run = [i \in Item |-> Idle] /\ made = 0 /\ flow = "none" /\ faults = 0
  /\ compared = [i \in Item |-> 0] /\ effects = [i \in Item |-> 0]
  /\ bondings = 0 /\ stray = {}

Running(i) == Begin(i) \/ Miss(i) \/ Hit(i) \/ Decline(i) \/ SessionEnds(i) \/ Settle(i)

Next ==
  \/ PairJoin \/ QueuePairing \/ FlowEnds \/ Lapse \/ Save \/ Crash
  \/ \E i \in Item : \/ QueueOpen(i) \/ Withdraw(i) \/ Running(i)
                     \/ \E ask \in Ask : HumanApprove(i, ask)

Spec == Init /\ [][Next]_vars

-----------------------------------------------------------------------------
(* Properties                                                              *)

(* Every variable has its type.                                            *)
TypeOK ==
  /\ queue \in [Item -> Row] /\ saved \in [Item -> Row]
  /\ file \subseteq Item /\ stray \subseteq Item
  /\ reg \in {"none", "live", "burnt"} /\ lapsed \in BOOLEAN
  /\ joins \in Nat /\ faults \in 0 .. MaxFaults
  /\ chain \in [Item -> Seq(Ask)] /\ run \in [Item -> Run] /\ made \in 0 .. MaxCalls
  /\ flow \in {"none", "approve", "reject", "stale"}
  /\ compared \in [Item -> Nat] /\ effects \in [Item -> Nat] /\ bondings \in Nat

(* However many calls arrive together, an item takes MaxTries wrong codes  *)
(* and no more, those apart that a restart forgot.                         *)
TriesAreBounded == \A i \in Item : compared[i] <= MaxTries

(* One decision on an item takes effect, and a code bonds once, unless a   *)
(* restart brings the item back.                                           *)
OneEffect == bondings <= 1 /\ \A i \in Item : effects[i] <= 1

(* An item can be decided: its code is on file, and a file is an item's,   *)
(* unless it could not be deleted or the item came back without it.        *)
FileIsForItem == \A i \in Item \ stray : Here(i) <=> i \in file
=============================================================================
