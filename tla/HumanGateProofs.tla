--------------------------- MODULE HumanGateProofs ---------------------------
(***************************************************************************)
(* Theorems about HumanGate, for every set of items and every bound: the   *)
(* types, that an item takes no more than MaxTries wrong codes, that one   *)
(* decision on it takes effect, and that its code is on file.              *)
(***************************************************************************)
EXTENDS HumanGate, SequenceTheorems, TLAPS

-----------------------------------------------------------------------------
(* Types                                                                   *)

LEMMA RowType ==
  /\ Unborn \in Row /\ Gone \in Row /\ Idle \in Run
BY BoundsAssumption DEF Unborn, Gone, Row, Idle, Run, Outcome

(* A new item and its file.                                                *)
LEMMA CommitType ==
  ASSUME TypeOK, NEW i \in Item, Commit(i)
  PROVE  queue' \in [Item -> Row] /\ file' \subseteq Item
<1>1. [queue[i] EXCEPT !.state = "here"] \in Row
  BY DEF TypeOK, Row
<1>. QED
  BY <1>1 DEF TypeOK, Commit

(* An item that goes, with or without its file.                            *)
LEMMA RemoveType ==
  ASSUME TypeOK, NEW i \in Item, Remove(i)
  PROVE  /\ queue' \in [Item -> Row] /\ file' \subseteq Item
         /\ faults' \in 0 .. MaxFaults /\ stray' \subseteq Item
<1>1. queue' \in [Item -> Row] /\ file' \subseteq Item /\ stray' \subseteq Item
  BY RowType DEF TypeOK, Remove
<1>2. faults' \in 0 .. MaxFaults
  BY BoundsAssumption DEF TypeOK, Remove, Fault
<1>. QED
  BY <1>1, <1>2

(* A call that is answered, throws or goes on.                             *)
LEMMA AnswerType ==
  ASSUME TypeOK, NEW i \in Item, chain[i] # <<>>, Answer(i) \/ Throw(i)
  PROVE  chain' \in [Item -> Seq(Ask)] /\ run' \in [Item -> Run]
<1>1. Tail(chain[i]) \in Seq(Ask) /\ <<>> \in Seq(Ask)
  BY DEF TypeOK
<1>. QED
  BY <1>1, RowType DEF TypeOK, Answer, Throw

LEMMA GoesType ==
  ASSUME TypeOK, NEW i \in Item, NEW pc \in {"ready", "dispatched", "decline", "settle"},
         NEW n \in 0 .. MaxTries, NEW outcome \in Outcome
  PROVE  /\ [run EXCEPT ![i].pc = pc] \in [Item -> Run]
         /\ [run EXCEPT ![i].pc = pc, ![i].tries = n] \in [Item -> Run]
         /\ [run EXCEPT ![i].pc = pc, ![i].outcome = outcome] \in [Item -> Run]
         /\ [run[i] EXCEPT !.pc = pc, !.outcome = outcome] \in Run
<1>1. /\ [run[i] EXCEPT !.pc = pc] \in Run
      /\ [run[i] EXCEPT !.pc = pc, !.tries = n] \in Run
      /\ [run[i] EXCEPT !.pc = pc, !.outcome = outcome] \in Run
  BY DEF TypeOK, Run
<1>. QED
  BY <1>1 DEF TypeOK

LEMMA PairJoinType ==
  ASSUME TypeOK, PairJoin
  PROVE  TypeOK'
<1>1. joins' \in Nat
  BY DEF TypeOK, PairJoin
<1>2. reg' \in {"none", "live", "burnt"}
  BY DEF TypeOK, PairJoin
<1>. QED
  BY <1>1, <1>2 DEF TypeOK, PairJoin, calls, history

LEMMA QueuePairingType ==
  ASSUME TypeOK, QueuePairing
  PROVE  TypeOK'
<1>1. joins' \in Nat
  BY DEF TypeOK, QueuePairing
<1>2. queue' \in [Item -> Row] /\ file' \subseteq Item /\ faults' \in 0 .. MaxFaults
  <2>1. CASE NextPairItem # {} /\ Commit(CHOOSE i \in NextPairItem : TRUE) /\ UNCHANGED faults
    <3>1. (CHOOSE i \in NextPairItem : TRUE) \in Item
      BY <2>1 DEF NextPairItem, Item
    <3>. QED
      BY <2>1, <3>1, CommitType DEF TypeOK
  <2>2. CASE Fault /\ UNCHANGED <<queue, file>>
    BY <2>2, BoundsAssumption DEF TypeOK, Fault
  <2>. QED
    BY <2>1, <2>2 DEF QueuePairing
<1>. QED
  BY <1>1, <1>2 DEF TypeOK, QueuePairing, calls, history

LEMMA QueueOpenType ==
  ASSUME TypeOK, NEW i \in Item, QueueOpen(i) \/ Withdraw(i)
  PROVE  TypeOK'
<1>1. CASE QueueOpen(i)
  BY <1>1, CommitType DEF TypeOK, QueueOpen, calls, history
<1>2. CASE Withdraw(i)
  BY <1>2, RemoveType DEF TypeOK, Withdraw, calls
<1>. QED
  BY <1>1, <1>2

LEMMA HumanApproveType ==
  ASSUME TypeOK, NEW i \in Item, NEW ask \in Ask, HumanApprove(i, ask)
  PROVE  TypeOK'
<1>1. chain' \in [Item -> Seq(Ask)]
  BY DEF TypeOK, HumanApprove
<1>2. made' \in 0 .. MaxCalls
  BY BoundsAssumption DEF TypeOK, HumanApprove
<1>. QED
  BY <1>1, <1>2 DEF TypeOK, HumanApprove, history

LEMMA BeginType ==
  ASSUME TypeOK, NEW i \in Item, Begin(i)
  PROVE  TypeOK'
<1>1. chain[i] # <<>>
  BY DEF Begin, At
<1>2. queue[i].tries \in 0 .. MaxTries
  BY DEF TypeOK, Row
<1>3. CASE Answer(i) /\ UNCHANGED <<queue, file, reg, faults, stray>>
  BY <1>1, <1>3, AnswerType DEF TypeOK, Begin
<1>4. CASE /\ Answer(i) /\ Remove(i)
           /\ reg' = IF i \in PairItem /\ reg = "live" THEN Consumed ELSE reg
  <2>1. reg' \in {"none", "live", "burnt"}
    BY <1>4 DEF TypeOK, Consumed
  <2>. QED
    BY <1>1, <1>4, <2>1, AnswerType, RemoveType DEF TypeOK, Begin
<1>5. CASE /\ run' = [run EXCEPT ![i].pc = "ready", ![i].tries = queue[i].tries]
           /\ UNCHANGED <<chain, queue, file, reg, faults, stray>>
  <2>1. run' \in [Item -> Run]
    BY <1>2, <1>5, GoesType DEF Outcome
  <2>. QED
    BY <1>5, <2>1 DEF TypeOK, Begin
<1>. QED
  BY <1>3, <1>4, <1>5 DEF Begin

LEMMA MissType ==
  ASSUME TypeOK, NEW i \in Item, Miss(i)
  PROVE  TypeOK'
<1>. DEFINE n == run[i].tries + 1
<1>1. chain[i] # <<>> /\ Missed(i, n, n >= MaxTries)
  BY DEF Miss, Missed, At
<1>2. compared' \in [Item -> Nat]
  BY <1>1 DEF TypeOK, Missed
<1>3. run[i].tries \in 0 .. MaxTries /\ (~(n >= MaxTries) => n \in 0 .. MaxTries)
  BY BoundsAssumption DEF TypeOK, Run
<1>4. CASE ~(n >= MaxTries)
  <2>1. [queue[i] EXCEPT !.tries = n] \in Row
    BY <1>3, <1>4 DEF TypeOK, Row
  <2>2. queue' \in [Item -> Row]
    BY <1>1, <1>4, <2>1 DEF TypeOK, Missed, SetTries
  <2>. QED
    BY <1>1, <1>2, <1>4, <2>2, AnswerType DEF TypeOK, Missed
<1>5. CASE n >= MaxTries
  <2>1. chain' \in [Item -> Seq(Ask)] /\ run' \in [Item -> Run]
    <3>1. CASE Goes(i, "decline")
      BY <1>3, <3>1, GoesType DEF TypeOK, Goes, Outcome
    <3>2. CASE Answer(i)
      BY <1>1, <3>2, AnswerType
    <3>. QED
      BY <1>1, <1>5, <3>1, <3>2 DEF Missed
  <2>. QED
    BY <1>1, <1>2, <1>5, <2>1, RemoveType DEF TypeOK, Missed
<1>. QED
  BY <1>4, <1>5

LEMMA DeclineType ==
  ASSUME TypeOK, NEW i \in Item, Decline(i)
  PROVE  TypeOK'
<1>1. chain' \in [Item -> Seq(Ask)] /\ run' \in [Item -> Run]
  BY AnswerType DEF Decline, At
<1>2. reg' \in {"none", "live", "burnt"} /\ faults' \in 0 .. MaxFaults
  BY BoundsAssumption DEF TypeOK, Decline, Consumed, Fault
<1>. QED
  BY <1>1, <1>2 DEF TypeOK, Decline, history

LEMMA HitType ==
  ASSUME TypeOK, NEW i \in Item, Hit(i)
  PROVE  TypeOK'
<1>1. chain[i] # <<>> /\ Asks(i) \in Ask
  BY DEF TypeOK, Hit, At, Asks
<1>2. chain' \in [Item -> Seq(Ask)] /\ run' \in [Item -> Run]
  <2>1. CASE Answer(i)
    BY <1>1, <2>1, AnswerType
  <2>2. CASE Goes(i, "dispatched")
    <3>1. 0 \in 0 .. MaxTries
      BY BoundsAssumption
    <3>. QED
      BY <2>2, <3>1, GoesType DEF TypeOK, Goes, Outcome
  <2>. QED
    BY <2>1, <2>2 DEF Hit
<1>3. flow' \in {"none", "approve", "reject", "stale"}
  BY <1>1 DEF TypeOK, Hit, Ask
<1>. QED
  BY <1>2, <1>3 DEF TypeOK, Hit, history

LEMMA FlowEndsType ==
  ASSUME TypeOK, FlowEnds
  PROVE  TypeOK'
<1>1. PICK outcome \in Outcome :
        /\ \A i \in Item : run'[i] \in {run[i], [run[i] EXCEPT !.pc = "settle", !.outcome = outcome]}
        /\ run' = [i \in Item |-> run'[i]]
        /\ \/ effects' = effects
           \/ effects' = [i \in Item |-> effects'[i]] /\ \A i \in Item : effects'[i] \in {effects[i], effects[i] + 1}
        /\ bondings' \in {bondings, bondings + 1}
        /\ reg' \in {reg, Consumed}
  BY DEF FlowEnds
<1>2. run' \in [Item -> Run]
  <2>1. \A i \in Item : [run[i] EXCEPT !.pc = "settle", !.outcome = outcome] \in Run /\ run[i] \in Run
    BY DEF TypeOK, Run
  <2>. QED
    BY <1>1, <2>1
<1>3. reg' \in {"none", "live", "burnt"}
  BY <1>1 DEF TypeOK, Consumed
<1>4. effects' \in [Item -> Nat]
  <2>1. \A i \in Item : effects[i] \in Nat /\ effects[i] + 1 \in Nat
    BY DEF TypeOK
  <2>2. CASE effects' = effects
    BY <2>2 DEF TypeOK
  <2>3. CASE effects' # effects
    <3>1. \A i \in Item : effects'[i] \in Nat
      BY <1>1, <2>1, <2>3
    <3>. QED
      BY <1>1, <2>3, <3>1
  <2>. QED
    BY <2>2, <2>3
<1>5. bondings' \in Nat
  <2>1. bondings' = bondings \/ bondings' = bondings + 1
    BY <1>1
  <2>2. bondings \in Nat
    BY DEF TypeOK
  <2>. QED
    BY <2>1, <2>2
<1>. QED
  BY <1>2, <1>3, <1>4, <1>5 DEF TypeOK, FlowEnds

LEMMA SessionEndsType ==
  ASSUME TypeOK, NEW i \in Item, SessionEnds(i)
  PROVE  TypeOK'
<1>1. PICK outcome \in Outcome :
        /\ run' = [run EXCEPT ![i].pc = "settle", ![i].outcome = outcome]
        /\ effects' \in {effects, [effects EXCEPT ![i] = @ + 1]}
  BY DEF SessionEnds
<1>2. run' \in [Item -> Run]
  <2>1. 0 \in 0 .. MaxTries
    BY BoundsAssumption
  <2>. QED
    BY <1>1, <2>1, GoesType
<1>3. effects' \in [Item -> Nat]
  <2>1. [effects EXCEPT ![i] = @ + 1] \in [Item -> Nat]
    BY DEF TypeOK
  <2>. QED
    BY <1>1, <2>1 DEF TypeOK
<1>. QED
  BY <1>2, <1>3 DEF TypeOK, SessionEnds

LEMMA SettleType ==
  ASSUME TypeOK, NEW i \in Item, Settle(i)
  PROVE  TypeOK'
<1>1. chain' \in [Item -> Seq(Ask)] /\ run' \in [Item -> Run]
  BY AnswerType DEF Settle, At
<1>2. /\ queue' \in [Item -> Row] /\ file' \subseteq Item
      /\ faults' \in 0 .. MaxFaults /\ stray' \subseteq Item
  BY RemoveType DEF TypeOK, Settle
<1>. QED
  BY <1>1, <1>2 DEF TypeOK, Settle

LEMMA CrashType ==
  ASSUME TypeOK, Crash
  PROVE  TypeOK'
<1>1. queue' \in [Item -> Row]
  BY RowType DEF TypeOK, Crash
<1>2. compared' \in [Item -> Nat]
  BY DEF TypeOK, Crash, Row
<1>3. effects' \in [Item -> Nat]
  BY DEF TypeOK, Crash
<1>4. chain' \in [Item -> Seq(Ask)] /\ run' \in [Item -> Run]
  BY RowType DEF Crash
<1>5. faults' \in 0 .. MaxFaults
  BY BoundsAssumption DEF TypeOK, Crash, Fault
<1>6. file' \subseteq Item /\ stray' \subseteq Item
  BY DEF TypeOK, Crash
<1>. QED
  BY <1>1, <1>2, <1>3, <1>4, <1>5, <1>6 DEF TypeOK, Crash

LEMMA RestType ==
  ASSUME TypeOK, Lapse \/ Save \/ UNCHANGED vars
  PROVE  TypeOK'
<1>1. CASE Lapse
  BY <1>1 DEF TypeOK, Lapse, calls, history
<1>2. CASE Save
  <2>1. saved' \in [Item -> Row]
    BY <1>2, RowType DEF TypeOK, Save, Kept
  <2>. QED
    BY <1>2, <2>1 DEF TypeOK, Save, calls, history
<1>3. CASE UNCHANGED vars
  BY <1>3 DEF TypeOK, vars, calls, history
<1>. QED
  BY <1>1, <1>2, <1>3

LEMMA InitType ==
  ASSUME Init
  PROVE  TypeOK
<1>1. queue \in [Item -> Row] /\ saved \in [Item -> Row] /\ run \in [Item -> Run]
  BY RowType DEF Init
<1>2. chain \in [Item -> Seq(Ask)]
  <2>1. <<>> \in Seq(Ask)
    OBVIOUS
  <2>. QED
    BY <2>1 DEF Init
<1>3. compared \in [Item -> Nat] /\ effects \in [Item -> Nat]
  BY DEF Init
<1>4. faults \in 0 .. MaxFaults /\ made \in 0 .. MaxCalls
  BY BoundsAssumption DEF Init
<1>. QED
  BY <1>1, <1>2, <1>3, <1>4 DEF Init, TypeOK

LEMMA StepType ==
  ASSUME TypeOK, [Next]_vars
  PROVE  TypeOK'
<1>1. CASE PairJoin
  BY <1>1, PairJoinType
<1>2. CASE QueuePairing
  BY <1>2, QueuePairingType
<1>3. CASE FlowEnds
  BY <1>3, FlowEndsType
<1>4. CASE Crash
  BY <1>4, CrashType
<1>5. CASE Lapse \/ Save \/ UNCHANGED vars
  BY <1>5, RestType
<1>6. ASSUME NEW i \in Item, QueueOpen(i) \/ Withdraw(i) \/ \E ask \in Ask : HumanApprove(i, ask)
      PROVE  TypeOK'
  BY <1>6, QueueOpenType, HumanApproveType
<1>7. ASSUME NEW i \in Item, Running(i)
      PROVE  TypeOK'
  BY <1>7, BeginType, MissType, HitType, DeclineType, SessionEndsType, SettleType DEF Running
<1>. QED
  BY <1>1, <1>2, <1>3, <1>4, <1>5, <1>6, <1>7 DEF Next

(* Every variable keeps its type, for all items and bounds.                *)
THEOREM TypeCorrect == Spec => []TypeOK
<1>1. Init => TypeOK
  BY InitType
<1>2. TypeOK /\ [Next]_vars => TypeOK'
  BY StepType
<1>. QED
  BY <1>1, <1>2, PTL DEF Spec

-----------------------------------------------------------------------------
(* What a step does to the queue                                           *)

(* The items move one way: unborn, here, gone; only wrong codes change the *)
(* count of one that stays, only a new item or a removal its state.        *)
LEMMA RemoveEffect ==
  ASSUME TypeOK, NEW i \in Item, Remove(i)
  PROVE  /\ \A j \in Item \ {i} : queue'[j] = queue[j] /\ (j \in file' <=> j \in file)
                                                      /\ (j \in stray' <=> j \in stray)
         /\ Here(i) => queue'[i] = Gone
         /\ ~Here(i) => queue'[i] = queue[i] /\ (i \in file' <=> i \in file)
         /\ Here(i) => i \notin file' \/ i \in stray'
         /\ stray \subseteq stray'
BY DEF TypeOK, Remove

LEMMA CommitEffect ==
  ASSUME TypeOK, NEW i \in Item, Commit(i)
  PROVE  /\ \A j \in Item \ {i} : queue'[j] = queue[j] /\ (j \in file' <=> j \in file)
         /\ queue[i] = Unborn /\ queue'[i].state = "here" /\ queue'[i].tries = 0 /\ i \in file'
<1>1. queue'[i] = [queue[i] EXCEPT !.state = "here"]
  BY DEF TypeOK, Commit
<1>. QED
  BY <1>1 DEF TypeOK, Commit, Unborn

LEMMA AnswerEffect ==
  ASSUME TypeOK, NEW i \in Item, Answer(i) \/ Throw(i)
  PROVE  run'[i] = Idle /\ \A j \in Item \ {i} : run'[j] = run[j]
BY DEF TypeOK, Answer, Throw

-----------------------------------------------------------------------------
(* Wrong codes                                                             *)

(* The count of an item, and the one a call that compares has read, are    *)
(* the wrong codes there were; pending.json has no item that was used up.  *)
TriesInv ==
  \A i \in Item :
    /\ compared[i] <= MaxTries
    /\ Here(i) => compared[i] = queue[i].tries /\ compared[i] < MaxTries
    /\ run[i].pc = "ready" =>
         queue[i] # Unborn /\ compared[i] = run[i].tries /\ compared[i] < MaxTries
    /\ queue[i] = Unborn => compared[i] = 0 /\ saved[i].state # "here"
    /\ saved[i].state = "here" => saved[i].tries < MaxTries
    /\ saved[i] # Unborn

(* A step that compares no code and reads no file.                         *)
LEMMA TriesKept ==
  ASSUME TypeOK, TriesInv, UNCHANGED <<compared, saved>>,
         NEW i \in Item,
         \A j \in Item \ {i} : queue'[j] = queue[j] /\ run'[j] = run[j],
         \/ queue'[i] = queue[i]
         \/ queue'[i] = Gone
         \/ queue[i] = Unborn /\ queue'[i].state = "here" /\ queue'[i].tries = 0,
         run'[i].pc = "ready" => \/ run[i].pc = "ready" /\ run'[i].tries = run[i].tries
                                 \/ Here(i) /\ run'[i].tries = queue[i].tries
  PROVE  TriesInv'
<1>1. ASSUME NEW j \in Item, j # i
      PROVE  TriesInv!(j)'
  BY <1>1 DEF TriesInv, Here
<1>2. TriesInv!(i)'
  <2>1. CASE queue'[i] = queue[i]
    BY <2>1 DEF TriesInv, Here, Unborn
  <2>2. CASE queue'[i] = Gone
    BY <2>2 DEF TriesInv, Here, Gone, Unborn
  <2>3. CASE queue[i] = Unborn /\ queue'[i].state = "here" /\ queue'[i].tries = 0
    BY <2>3, BoundsAssumption DEF TriesInv, Here, Unborn
  <2>. QED
    BY <2>1, <2>2, <2>3
<1>. QED
  BY <1>1, <1>2 DEF TriesInv

(* One step of a call for item i.                                          *)
LEMMA TriesRunning ==
  ASSUME TypeOK, TriesInv, NEW i \in Item, Running(i)
  PROVE  TriesInv'
<1>1. CASE Begin(i)
  <2>1. \A j \in Item \ {i} : queue'[j] = queue[j] /\ run'[j] = run[j]
    BY <1>1, AnswerEffect, RemoveEffect DEF Begin, TypeOK
  <2>2. queue'[i] = queue[i] \/ queue'[i] = Gone
    BY <1>1, RemoveEffect DEF Begin
  <2>3. run'[i].pc = "ready" => Here(i) /\ run'[i].tries = queue[i].tries
    <3>1. CASE Answer(i)
      BY <3>1, AnswerEffect DEF Idle
    <3>2. CASE ~Answer(i)
      <4>1. run' = [run EXCEPT ![i].pc = "ready", ![i].tries = queue[i].tries] /\ Here(i)
        BY <1>1, <3>2 DEF Begin
      <4>. QED
        BY <4>1 DEF TypeOK, Run
    <3>. QED
      BY <3>1, <3>2
  <2>4. UNCHANGED <<compared, saved>>
    BY <1>1 DEF Begin
  <2>. QED
    BY <2>1, <2>2, <2>3, <2>4, TriesKept
<1>2. CASE Miss(i)
  <2>. DEFINE n == run[i].tries + 1
  <2>1. Missed(i, n, n >= MaxTries) /\ run[i].pc = "ready"
    BY <1>2 DEF Miss, Missed, At
  <2>2. compared[i] = run[i].tries /\ compared[i] < MaxTries /\ compared'[i] = n
    BY <2>1 DEF TypeOK, TriesInv, Missed
  <2>3. \A j \in Item \ {i} : queue'[j] = queue[j] /\ run'[j] = run[j] /\ compared'[j] = compared[j]
    BY <2>1, AnswerEffect, RemoveEffect DEF TypeOK, Missed, SetTries, Goes
  <2>4. run'[i].pc # "ready"
    <3>1. CASE Answer(i)
      BY <3>1, AnswerEffect DEF Idle
    <3>2. CASE Goes(i, "decline")
      BY <3>2 DEF TypeOK, Run, Goes
    <3>. QED
      BY <2>1, <3>1, <3>2 DEF Missed
  <2>5. n \in Nat /\ n <= MaxTries
    BY <2>2, BoundsAssumption DEF TypeOK, Run
  <2>6. \/ queue'[i] = Gone
        \/ ~Here(i) /\ queue'[i] = queue[i] /\ queue[i] # Unborn
        \/ Here(i) /\ queue'[i] = [queue[i] EXCEPT !.tries = n] /\ n < MaxTries
    <3>1. queue[i] # Unborn
      BY <2>1 DEF TriesInv
    <3>2. CASE n >= MaxTries
      <4>1. Remove(i)
        BY <2>1, <3>2 DEF Missed
      <4>. QED
        BY <3>1, <4>1, RemoveEffect
    <3>3. CASE ~(n >= MaxTries)
      <4>1. queue' = SetTries(queue, i, n) /\ n < MaxTries
        BY <2>1, <2>5, <3>3, BoundsAssumption DEF Missed
      <4>. QED
        BY <3>1, <4>1 DEF TypeOK, SetTries, Here
    <3>. QED
      BY <3>2, <3>3
  <2>7. ASSUME NEW j \in Item, j # i
        PROVE  TriesInv!(j)'
    BY <2>1, <2>3, <2>7 DEF TriesInv, Here, Missed
  <2>8. TriesInv!(i)'
    <3>1. saved' = saved
      BY <2>1 DEF Missed
    <3>2. CASE queue'[i] = Gone
      BY <2>2, <2>4, <2>5, <3>1, <3>2 DEF TriesInv, Here, Gone, Unborn
    <3>3. CASE ~Here(i) /\ queue'[i] = queue[i] /\ queue[i] # Unborn
      BY <2>2, <2>4, <2>5, <3>1, <3>3 DEF TriesInv, Here
    <3>4. CASE Here(i) /\ queue'[i] = [queue[i] EXCEPT !.tries = n] /\ n < MaxTries
      <4>1. queue'[i].state = "here" /\ queue'[i].tries = n
        BY <3>4 DEF TypeOK, Row, Here
      <4>. QED
        BY <2>2, <2>4, <2>5, <3>1, <3>4, <4>1 DEF TriesInv, Here, Unborn
    <3>. QED
      BY <2>6, <3>2, <3>3, <3>4
  <2>. QED
    BY <2>7, <2>8 DEF TriesInv
<1>3. CASE Hit(i)
  <2>1. \A j \in Item \ {i} : run'[j] = run[j]
    BY <1>3, AnswerEffect DEF TypeOK, Hit, Goes
  <2>2. run'[i].pc # "ready"
    BY <1>3, AnswerEffect DEF TypeOK, Run, Hit, Goes, Idle
  <2>. QED
    BY <1>3, <2>1, <2>2, TriesKept DEF Hit, history
<1>4. CASE Decline(i)
  BY <1>4, AnswerEffect, TriesKept DEF Decline, history, Idle
<1>5. CASE SessionEnds(i)
  <2>1. \A j \in Item \ {i} : run'[j] = run[j]
    BY <1>5 DEF TypeOK, SessionEnds
  <2>2. run'[i].pc # "ready"
    BY <1>5 DEF TypeOK, Run, SessionEnds
  <2>. QED
    BY <1>5, <2>1, <2>2, TriesKept DEF SessionEnds
<1>6. CASE Settle(i)
  <2>1. queue'[i] = queue[i] \/ queue'[i] = Gone
    BY <1>6, RemoveEffect DEF Settle
  <2>2. \A j \in Item \ {i} : queue'[j] = queue[j]
    BY <1>6, RemoveEffect DEF Settle
  <2>. QED
    BY <1>6, <2>1, <2>2, AnswerEffect, TriesKept DEF Settle, Idle
<1>. QED
  BY <1>1, <1>2, <1>3, <1>4, <1>5, <1>6 DEF Running

LEMMA TriesStep ==
  ASSUME TypeOK, TriesInv, [Next]_vars
  PROVE  TriesInv'
<1>1. CASE PairJoin \/ Lapse \/ UNCHANGED vars
  BY <1>1 DEF PairJoin, Lapse, vars, calls, history, TriesInv, Here
<1>2. CASE QueuePairing
  <2>1. CASE NextPairItem # {} /\ Commit(CHOOSE i \in NextPairItem : TRUE)
    <3>1. PICK i \in Item : Commit(i)
      BY <2>1 DEF NextPairItem, Item
    <3>. QED
      BY <1>2, <3>1, CommitEffect, TriesKept DEF QueuePairing, calls, history
  <2>2. CASE UNCHANGED <<queue, file>>
    BY <1>2, <2>2 DEF QueuePairing, calls, history, TriesInv, Here
  <2>. QED
    BY <1>2, <2>1, <2>2 DEF QueuePairing
<1>3. CASE FlowEnds
  <2>1. \A i \in Item : run'[i] = run[i] \/ run'[i].pc # "ready"
    BY <1>3 DEF FlowEnds, TypeOK, Run
  <2>2. UNCHANGED <<queue, saved, compared>>
    BY <1>3 DEF FlowEnds
  <2>. QED
    BY <2>1, <2>2 DEF TriesInv, Here
<1>4. CASE Save
  <2>1. UNCHANGED <<queue, run, compared>> /\ saved' = Kept
    BY <1>4 DEF Save, calls, history
  <2>2. \A i \in Item : saved'[i] = IF Here(i) THEN queue[i] ELSE Gone
    BY <2>1 DEF Kept
  <2>. QED
    BY <2>1, <2>2 DEF TriesInv, Here, Gone, Unborn
<1>5. CASE Crash
  <2>1. UNCHANGED saved
    BY <1>5 DEF Crash
  <2>2. ASSUME NEW i \in Item
        PROVE  /\ queue'[i] = IF queue[i] = Unborn THEN Unborn ELSE saved[i]
               /\ compared'[i] = IF saved[i].state = "here" THEN saved[i].tries ELSE compared[i]
               /\ run'[i] = Idle
    BY <1>5 DEF Crash
  <2>3. \A i \in Item : saved[i].tries \in Nat /\ compared[i] \in Nat
    BY DEF TypeOK, Row
  <2>. QED
    BY <2>1, <2>2, <2>3, BoundsAssumption DEF TriesInv, Here, Unborn, Idle
<1>6. ASSUME NEW i \in Item, QueueOpen(i)
      PROVE  TriesInv'
  BY <1>6, CommitEffect, TriesKept DEF QueueOpen, calls, history
<1>7. ASSUME NEW i \in Item, Withdraw(i)
      PROVE  TriesInv'
  BY <1>7, RemoveEffect, TriesKept DEF Withdraw, calls
<1>8. ASSUME NEW i \in Item, NEW ask \in Ask, HumanApprove(i, ask)
      PROVE  TriesInv'
  BY <1>8 DEF HumanApprove, history, TriesInv, Here
<1>9. ASSUME NEW i \in Item, Running(i)
      PROVE  TriesInv'
  BY <1>9, TriesRunning
<1>. QED
  BY <1>1, <1>2, <1>3, <1>4, <1>5, <1>6, <1>7, <1>8, <1>9 DEF Next

LEMMA InitTries ==
  ASSUME Init
  PROVE  TriesInv
BY BoundsAssumption DEF Init, TriesInv, Here, Unborn, Gone, Idle

(* An item takes MaxTries wrong codes and no more, however many calls      *)
(* arrive together.                                                        *)
THEOREM TriesSafety == Spec => []TriesAreBounded
<1>1. Init => TriesInv
  BY InitTries
<1>2. TypeOK /\ TriesInv /\ [Next]_vars => TriesInv'
  BY TriesStep
<1>3. TriesInv => TriesAreBounded
  BY DEF TriesInv, TriesAreBounded
<1>. QED
  BY <1>1, <1>2, <1>3, TypeCorrect, PTL DEF Spec

-----------------------------------------------------------------------------
(* Code files                                                              *)

(* An item that waits has its file; one that was never queued cannot come  *)
(* back.                                                                   *)
FileInv ==
  \A i \in Item :
    /\ i \notin stray => (Here(i) <=> i \in file)
    /\ queue[i] = Unborn => saved[i].state # "here"
    /\ saved[i] # Unborn

LEMMA FileAfterRemove ==
  ASSUME TypeOK, FileInv, NEW i \in Item, Remove(i), UNCHANGED saved
  PROVE  FileInv'
<1>1. ASSUME NEW j \in Item, j # i
      PROVE  FileInv!(j)'
  BY <1>1, RemoveEffect DEF FileInv, Here
<1>2. FileInv!(i)'
  BY RemoveEffect DEF FileInv, Here, Gone, Unborn
<1>. QED
  BY <1>1, <1>2 DEF FileInv

LEMMA FileAfterCommit ==
  ASSUME TypeOK, FileInv, NEW i \in Item, Commit(i), UNCHANGED <<saved, stray>>
  PROVE  FileInv'
<1>1. ASSUME NEW j \in Item, j # i
      PROVE  FileInv!(j)'
  BY <1>1, CommitEffect DEF FileInv, Here
<1>2. FileInv!(i)'
  BY CommitEffect DEF FileInv, Here, Unborn
<1>. QED
  BY <1>1, <1>2 DEF FileInv

LEMMA FileRunning ==
  ASSUME TypeOK, FileInv, NEW i \in Item, Running(i)
  PROVE  FileInv'
<1>1. UNCHANGED saved
  BY DEF Running, Begin, Miss, Missed, Hit, Decline, SessionEnds, Settle
<1>2. CASE Remove(i)
  BY <1>1, <1>2, FileAfterRemove
<1>3. CASE UNCHANGED <<queue, file, stray>>
  BY <1>1, <1>3 DEF FileInv, Here
<1>4. CASE queue' = SetTries(queue, i, run[i].tries + 1) /\ UNCHANGED <<file, stray>>
  <2>1. \A j \in Item : queue'[j].state = queue[j].state /\ (queue'[j] = Unborn => queue[j] = Unborn)
    BY <1>4 DEF TypeOK, Row, SetTries, Unborn
  <2>. QED
    BY <1>1, <1>4, <2>1 DEF FileInv, Here
<1>. QED
  BY <1>2, <1>3, <1>4 DEF Running, Begin, Miss, Missed, Hit, Decline, SessionEnds, Settle, history

LEMMA FileStep ==
  ASSUME TypeOK, FileInv, [Next]_vars
  PROVE  FileInv'
<1>1. CASE PairJoin \/ FlowEnds \/ Lapse \/ UNCHANGED vars
  BY <1>1 DEF PairJoin, FlowEnds, Lapse, vars, calls, history, FileInv, Here
<1>2. CASE QueuePairing
  <2>1. CASE NextPairItem # {} /\ Commit(CHOOSE i \in NextPairItem : TRUE)
    <3>1. PICK i \in Item : Commit(i)
      BY <2>1 DEF NextPairItem, Item
    <3>. QED
      BY <1>2, <3>1, FileAfterCommit DEF QueuePairing, history
  <2>2. CASE UNCHANGED <<queue, file>>
    BY <1>2, <2>2 DEF QueuePairing, history, FileInv, Here
  <2>. QED
    BY <1>2, <2>1, <2>2 DEF QueuePairing
<1>3. CASE Save
  <2>1. UNCHANGED <<queue, file, stray>> /\ saved' = Kept
    BY <1>3 DEF Save, history
  <2>2. \A i \in Item : saved'[i] = IF Here(i) THEN queue[i] ELSE Gone
    BY <2>1 DEF Kept
  <2>. QED
    BY <2>1, <2>2 DEF FileInv, Here, Gone, Unborn
<1>4. CASE Crash
  <2>1. ASSUME NEW i \in Item
        PROVE  /\ queue'[i] = IF queue[i] = Unborn THEN Unborn ELSE saved[i]
               /\ i \in file' <=> i \in file /\ saved[i].state = "here"
               /\ i \in stray' <=> \/ saved[i].state = "here" /\ i \notin file
                                   \/ i \in stray /\ i \in file /\ saved[i].state = "here"
               /\ saved'[i] = saved[i]
    BY <1>4 DEF Crash
  <2>. QED
    BY <2>1 DEF FileInv, Here, Unborn
<1>5. ASSUME NEW i \in Item, QueueOpen(i)
      PROVE  FileInv'
  BY <1>5, FileAfterCommit DEF QueueOpen, history
<1>6. ASSUME NEW i \in Item, Withdraw(i)
      PROVE  FileInv'
  BY <1>6, FileAfterRemove DEF Withdraw
<1>7. ASSUME NEW i \in Item, NEW ask \in Ask, HumanApprove(i, ask)
      PROVE  FileInv'
  BY <1>7 DEF HumanApprove, history, FileInv, Here
<1>8. ASSUME NEW i \in Item, Running(i)
      PROVE  FileInv'
  BY <1>8, FileRunning
<1>. QED
  BY <1>1, <1>2, <1>3, <1>4, <1>5, <1>6, <1>7, <1>8 DEF Next

(* An item that waits can be decided, for its code is on file, and no file *)
(* is left of one that is gone, with the exceptions the history names.     *)
THEOREM FileSafety == Spec => []FileIsForItem
<1>1. Init => FileInv
  BY DEF Init, FileInv, Here, Unborn, Gone
<1>2. TypeOK /\ FileInv /\ [Next]_vars => FileInv'
  BY FileStep
<1>3. FileInv => FileIsForItem
  BY DEF FileInv, FileIsForItem
<1>. QED
  BY <1>1, <1>2, <1>3, TypeCorrect, PTL DEF Spec

-----------------------------------------------------------------------------
(* Decisions                                                               *)

(* An item whose decision took effect is gone, or about to be removed by   *)
(* the call that dispatched it; no other call for it is past its check.    *)
ItemInv ==
  \A i \in Item :
    /\ effects[i] \in {0, 1}
    /\ run[i].pc \in {"ready", "dispatched"} => effects[i] = 0 /\ queue[i] # Unborn
    /\ Here(i) /\ effects[i] = 1 => run[i].pc = "settle" /\ run[i].outcome = "terminal"
    /\ queue[i] = Unborn => effects[i] = 0
    /\ saved[i] # Unborn

(* A code that bonded is spent, or its time is over.                       *)
CodeInv ==
  /\ flow \in {"approve", "reject"} => reg # "none" \/ lapsed
  /\ bondings \in {0, 1}
  /\ bondings = 1 => flow # "approve" /\ (reg = "burnt" \/ lapsed)

(* A step with no effect, that moves the call of one item.                 *)
LEMMA ItemKept ==
  ASSUME TypeOK, ItemInv, UNCHANGED <<effects, saved>>,
         NEW i \in Item,
         \A j \in Item \ {i} : run'[j] = run[j] /\ queue'[j] = queue[j],
         \/ queue'[i] = queue[i]
         \/ queue'[i] = Gone
         \/ queue'[i].state = queue[i].state /\ queue'[i] # Unborn
         \/ queue[i] = Unborn /\ queue'[i].state = "here",
         run'[i].pc \in {"ready", "dispatched"} => effects[i] = 0 /\ queue'[i] # Unborn,
         \/ run'[i] = run[i]
         \/ queue'[i].state # "here"
         \/ effects[i] = 0
  PROVE  ItemInv'
<1>1. ASSUME NEW j \in Item, j # i
      PROVE  ItemInv!(j)'
  BY <1>1 DEF ItemInv, Here, Unborn
<1>2. ItemInv!(i)'
  BY DEF ItemInv, Here, Unborn, Gone
<1>. QED
  BY <1>1, <1>2 DEF ItemInv

LEMMA ItemRunning ==
  ASSUME TypeOK, ItemInv, NEW i \in Item, Running(i)
  PROVE  ItemInv'
<1>1. CASE Begin(i)
  <2>1. run[i].pc = "idle" /\ UNCHANGED <<effects, saved>>
    BY <1>1 DEF Begin, At
  <2>2. \A j \in Item \ {i} : queue'[j] = queue[j] /\ run'[j] = run[j]
    BY <1>1, AnswerEffect, RemoveEffect DEF Begin, TypeOK
  <2>3. queue'[i] = queue[i] \/ queue'[i] = Gone
    BY <1>1, RemoveEffect DEF Begin
  <2>4. run'[i].pc \in {"ready", "dispatched"} => Here(i)
    BY <1>1, AnswerEffect DEF Begin, Idle
  <2>5. Here(i) => effects[i] = 0
    BY <2>1 DEF ItemInv
  <2>. QED
    BY <2>1, <2>2, <2>3, <2>4, <2>5, ItemKept DEF Gone, Here, Unborn
<1>2. CASE Miss(i)
  <2>. DEFINE n == run[i].tries + 1
  <2>1. Missed(i, n, n >= MaxTries) /\ run[i].pc = "ready" /\ UNCHANGED <<effects, saved>>
    BY <1>2 DEF Miss, Missed, At
  <2>2. effects[i] = 0 /\ queue[i] # Unborn
    BY <2>1 DEF ItemInv
  <2>3. \A j \in Item \ {i} : queue'[j] = queue[j] /\ run'[j] = run[j]
    BY <2>1, AnswerEffect, RemoveEffect DEF TypeOK, Missed, SetTries, Goes
  <2>4. \/ queue'[i] = queue[i] \/ queue'[i] = Gone
        \/ queue'[i].state = queue[i].state /\ queue'[i] # Unborn
    <3>1. CASE n >= MaxTries
      BY <2>1, <3>1, RemoveEffect DEF Missed
    <3>2. CASE ~(n >= MaxTries)
      <4>1. queue' = SetTries(queue, i, n)
        BY <2>1, <3>2 DEF Missed
      <4>2. CASE queue[i].state = "here"
        <5>1. queue'[i] = [queue[i] EXCEPT !.tries = n]
          BY <4>1, <4>2 DEF TypeOK, SetTries
        <5>2. queue'[i].state = "here"
          BY <4>2, <5>1 DEF TypeOK, Row
        <5>. QED
          BY <4>2, <5>2 DEF Unborn
      <4>3. CASE queue[i].state # "here"
        BY <4>1, <4>3 DEF SetTries
      <4>. QED
        BY <4>2, <4>3
    <3>. QED
      BY <3>1, <3>2
  <2>. QED
    BY <2>1, <2>2, <2>3, <2>4, ItemKept DEF Gone, Unborn
<1>3. CASE Hit(i)
  <2>1. run[i].pc = "ready" /\ UNCHANGED <<queue, effects, saved>>
    BY <1>3 DEF Hit, At, history
  <2>2. \A j \in Item \ {i} : run'[j] = run[j]
    BY <1>3, AnswerEffect DEF TypeOK, Hit, Goes
  <2>3. effects[i] = 0 /\ queue[i] # Unborn
    BY <2>1 DEF ItemInv
  <2>. QED
    BY <2>1, <2>2, <2>3, ItemKept
<1>4. CASE Decline(i)
  <2>1. run[i].pc = "decline" /\ UNCHANGED <<queue, effects, saved>> /\ (Answer(i) \/ Throw(i))
    BY <1>4 DEF Decline, At, history
  <2>2. Here(i) => effects[i] = 0
    BY <2>1 DEF ItemInv
  <2>. QED
    BY <2>1, <2>2, AnswerEffect, ItemKept DEF Idle, Here
<1>5. CASE SessionEnds(i)
  <2>1. run[i].pc = "dispatched" /\ UNCHANGED <<queue, saved>>
    BY <1>5 DEF SessionEnds, At
  <2>2. effects[i] = 0
    BY <2>1 DEF ItemInv
  <2>3. \A j \in Item \ {i} : run'[j] = run[j] /\ effects'[j] = effects[j]
    BY <1>5 DEF TypeOK, SessionEnds
  <2>4. PICK outcome \in Outcome :
          /\ run'[i] = [run[i] EXCEPT !.pc = "settle", !.outcome = outcome]
          /\ \/ effects'[i] = effects[i]
             \/ outcome = "terminal" /\ effects'[i] = effects[i] + 1
    BY <1>5 DEF TypeOK, SessionEnds
  <2>5. run'[i].pc = "settle" /\ run'[i].outcome = outcome
    BY <2>4 DEF TypeOK, Run
  <2>6. effects'[i] = 0 \/ (effects'[i] = 1 /\ outcome = "terminal")
    BY <2>2, <2>4
  <2>7. queue[i] = Unborn => effects'[i] = 0
    BY <1>5, <2>2 DEF SessionEnds, Here, Unborn
  <2>. QED
    BY <2>1, <2>3, <2>5, <2>6, <2>7 DEF ItemInv, Here
<1>6. CASE Settle(i)
  <2>1. Answer(i) /\ run[i].pc = "settle" /\ UNCHANGED <<effects, saved>>
    BY <1>6 DEF Settle, At
  <2>2. \A j \in Item \ {i} : queue'[j] = queue[j] /\ run'[j] = run[j]
    BY <1>6, AnswerEffect, RemoveEffect DEF Settle
  <2>3. queue'[i] = queue[i] \/ queue'[i] = Gone
    BY <1>6, RemoveEffect DEF Settle
  <2>4. queue'[i].state # "here" \/ effects[i] = 0
    <3>1. CASE run[i].outcome = "terminal"
      BY <1>6, <3>1, RemoveEffect DEF Settle, Here, Gone
    <3>2. CASE run[i].outcome # "terminal"
      BY <1>6, <3>2 DEF Settle, ItemInv, Here
    <3>. QED
      BY <3>1, <3>2
  <2>. QED
    BY <2>1, <2>2, <2>3, <2>4, AnswerEffect, ItemKept DEF Idle
<1>. QED
  BY <1>1, <1>2, <1>3, <1>4, <1>5, <1>6 DEF Running

(* The pairing ends for those that wait for it.                            *)
LEMMA ItemFlowEnds ==
  ASSUME TypeOK, ItemInv, FlowEnds
  PROVE  ItemInv'
<1>1. UNCHANGED <<queue, saved>>
  BY DEF FlowEnds
<1>2. PICK outcome \in Outcome :
        \A i \in Item :
          \/ run'[i] = run[i] /\ effects'[i] = effects[i]
          \/ /\ run[i].pc = "dispatched" /\ chain[i] # <<>>
             /\ run'[i] = [run[i] EXCEPT !.pc = "settle", !.outcome = outcome]
             /\ effects'[i] = effects[i] \/ (outcome = "terminal" /\ effects'[i] = effects[i] + 1)
  BY DEF FlowEnds, At, TypeOK
<1>3. ASSUME NEW i \in Item
      PROVE  ItemInv!(i)'
  <2>1. CASE run'[i] = run[i] /\ effects'[i] = effects[i]
    BY <1>1, <2>1 DEF ItemInv, Here
  <2>2. CASE /\ run[i].pc = "dispatched" /\ chain[i] # <<>>
             /\ run'[i] = [run[i] EXCEPT !.pc = "settle", !.outcome = outcome]
             /\ effects'[i] = effects[i] \/ (outcome = "terminal" /\ effects'[i] = effects[i] + 1)
    <3>1. run'[i].pc = "settle" /\ run'[i].outcome = outcome
      BY <2>2 DEF TypeOK, Run
    <3>2. effects[i] = 0
      BY <2>2 DEF ItemInv
    <3>. QED
      BY <1>1, <2>2, <3>1, <3>2 DEF ItemInv, Here
  <2>. QED
    BY <1>2, <2>1, <2>2
<1>. QED
  BY <1>3 DEF ItemInv

LEMMA ItemStep ==
  ASSUME TypeOK, FileInv, ItemInv, [Next]_vars
  PROVE  ItemInv'
<1>1. CASE PairJoin \/ Lapse \/ UNCHANGED vars
  BY <1>1 DEF PairJoin, Lapse, vars, calls, history, ItemInv, Here
<1>2. CASE QueuePairing
  <2>1. CASE NextPairItem # {} /\ Commit(CHOOSE i \in NextPairItem : TRUE)
    <3>1. PICK i \in Item : Commit(i)
      BY <2>1 DEF NextPairItem, Item
    <3>2. effects[i] = 0 /\ UNCHANGED <<run, effects, saved>>
      BY <1>2, <3>1, CommitEffect DEF QueuePairing, calls, history, ItemInv
    <3>. QED
      BY <3>1, <3>2, CommitEffect, ItemKept DEF ItemInv, Unborn
  <2>2. CASE UNCHANGED <<queue, file>>
    BY <1>2, <2>2 DEF QueuePairing, calls, history, ItemInv, Here
  <2>. QED
    BY <1>2, <2>1, <2>2 DEF QueuePairing
<1>3. CASE Save
  <2>1. UNCHANGED <<queue, run, effects>> /\ saved' = Kept
    BY <1>3 DEF Save, calls, history
  <2>2. \A i \in Item : saved'[i] = IF Here(i) THEN queue[i] ELSE Gone
    BY <2>1 DEF Kept
  <2>. QED
    BY <2>1, <2>2 DEF ItemInv, Here, Gone, Unborn
<1>4. CASE Crash
  <2>1. ASSUME NEW i \in Item
        PROVE  /\ queue'[i] = IF queue[i] = Unborn THEN Unborn ELSE saved[i]
               /\ effects'[i] = IF saved[i].state = "here" THEN 0 ELSE effects[i]
               /\ run'[i] = Idle
               /\ saved'[i] = saved[i]
    BY <1>4 DEF Crash
  <2>. QED
    BY <2>1 DEF ItemInv, FileInv, Here, Unborn, Idle
<1>5. ASSUME NEW i \in Item, QueueOpen(i)
      PROVE  ItemInv'
  <2>1. Commit(i) /\ UNCHANGED <<run, effects, saved>>
    BY <1>5 DEF QueueOpen, calls, history
  <2>2. effects[i] = 0
    BY <2>1, CommitEffect DEF ItemInv
  <2>. QED
    BY <2>1, <2>2, CommitEffect, ItemKept DEF ItemInv, Unborn
<1>6. ASSUME NEW i \in Item, Withdraw(i)
      PROVE  ItemInv'
  <2>1. Remove(i) /\ Here(i) /\ UNCHANGED <<run, effects, saved>>
    BY <1>6 DEF Withdraw, calls
  <2>. QED
    BY <2>1, RemoveEffect, ItemKept DEF ItemInv, Gone, Unborn
<1>7. ASSUME NEW i \in Item, NEW ask \in Ask, HumanApprove(i, ask)
      PROVE  ItemInv'
  BY <1>7 DEF HumanApprove, history, ItemInv, Here
<1>8. ASSUME NEW i \in Item, Running(i)
      PROVE  ItemInv'
  BY <1>8, ItemRunning
<1>. QED
  BY <1>1, <1>2, <1>3, <1>4, <1>5, <1>6, <1>7, <1>8, ItemFlowEnds DEF Next

LEMMA CodeStep ==
  ASSUME TypeOK, CodeInv, [Next]_vars
  PROVE  CodeInv'
<1>1. CASE PairJoin
  BY <1>1 DEF PairJoin, history, CodeInv
<1>2. CASE FlowEnds
  <2>1. flow' = "none" /\ lapsed' = lapsed
    BY <1>2 DEF FlowEnds
  <2>2. \/ bondings' = bondings /\ (reg' = reg \/ reg' = Consumed)
        \/ bondings' = bondings + 1 /\ reg' = Consumed /\ flow = "approve"
    BY <1>2 DEF FlowEnds
  <2>. QED
    BY <2>1, <2>2 DEF CodeInv, Consumed
<1>3. CASE Lapse
  BY <1>3 DEF Lapse, history, CodeInv
<1>4. CASE Crash
  BY <1>4 DEF Crash, CodeInv
<1>5. CASE QueuePairing \/ Save \/ UNCHANGED vars
  BY <1>5 DEF QueuePairing, Save, vars, history, CodeInv
<1>6. ASSUME NEW i \in Item, QueueOpen(i) \/ Withdraw(i) \/ \E ask \in Ask : HumanApprove(i, ask)
      PROVE  CodeInv'
  BY <1>6 DEF QueueOpen, Withdraw, HumanApprove, history, CodeInv
<1>7. ASSUME NEW i \in Item, Begin(i)
      PROVE  CodeInv'
  <2>1. UNCHANGED <<lapsed, flow, bondings>> /\ (reg' = reg \/ (reg = "live" /\ reg' = Consumed))
    BY <1>7 DEF Begin
  <2>. QED
    BY <2>1 DEF CodeInv, Consumed
<1>8. ASSUME NEW i \in Item, Miss(i) \/ SessionEnds(i) \/ Settle(i)
      PROVE  CodeInv'
  BY <1>8 DEF Miss, Missed, SessionEnds, Settle, CodeInv
<1>9. ASSUME NEW i \in Item, Hit(i)
      PROVE  CodeInv'
  <2>1. UNCHANGED <<reg, lapsed, bondings>>
    BY <1>9 DEF Hit, history
  <2>2. flow' = flow \/ flow' = "stale" \/ (reg = "live" /\ ~lapsed)
    BY <1>9 DEF Hit
  <2>. QED
    BY <2>1, <2>2 DEF CodeInv
<1>10. ASSUME NEW i \in Item, Decline(i)
       PROVE  CodeInv'
  BY <1>10 DEF Decline, Consumed, history, CodeInv
<1>. QED
  BY <1>1, <1>2, <1>3, <1>4, <1>5, <1>6, <1>7, <1>8, <1>9, <1>10 DEF Next, Running

(* One decision on an item takes effect, and a code bonds once, however    *)
(* many calls overlap, until a restart brings the item back.               *)
THEOREM EffectSafety == Spec => []OneEffect
<1>1. Init => FileInv /\ ItemInv /\ CodeInv
  BY DEF Init, FileInv, ItemInv, CodeInv, Here, Unborn, Gone, Idle
<1>2. TypeOK /\ FileInv /\ ItemInv /\ CodeInv /\ [Next]_vars => (FileInv /\ ItemInv /\ CodeInv)'
  BY FileStep, ItemStep, CodeStep
<1>3. ItemInv /\ CodeInv => OneEffect
  BY DEF ItemInv, CodeInv, OneEffect
<1>. QED
  BY <1>1, <1>2, <1>3, TypeCorrect, PTL DEF Spec
=============================================================================
