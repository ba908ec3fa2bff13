---------------------------- MODULE PairingProofs ----------------------------
(***************************************************************************)
(* Theorems about Pairing, for any third agent, any busy hosts and every   *)
(* bound: the types, that nobody is admitted before the joiner's human     *)
(* approved, that a pairing that failed leaves nothing behind, that the    *)
(* relay's copy of an allowlist agrees and that other bonds are kept.      *)
(***************************************************************************)
EXTENDS Pairing, TLAPS

-----------------------------------------------------------------------------
(* Types                                                                   *)

Pc == {"off", "asked", "thrown", "add", "done"} \cup Waiting \cup Posting \cup Pushing

(* A host about to post bond_fail knows how its pairing fails.             *)
Failed == Verdict \ {"bonded"}
FailInv == \A h \in Host : flow[h].pc = "fail" => flow[h].verdict \in Failed

TypeInv == TypeOK /\ FailInv

LEMMA HostFacts ==
  /\ Initiator \in Host /\ Joiner \in Host /\ Initiator # Joiner
  /\ \A h \in Host : Peer(h) \in Host /\ Peer(h) # h /\ Peer(h) \in Agent /\ Peer(h) # Third
BY ThirdAssumption DEF Host, Peer, Initiator, Joiner, Agent

LEMMA RecordType ==
  ASSUME NEW r \in Flow, NEW pc \in Pc, NEW v \in Verdict \cup {"none"},
         NEW s \in SUBSET Agent, NEW b \in BOOLEAN
  PROVE  /\ [r EXCEPT !.pc = pc] \in Flow
         /\ [r EXCEPT !.pc = pc, !.verdict = v] \in Flow
         /\ [r EXCEPT !.pc = pc, !.previous = s] \in Flow
         /\ [r EXCEPT !.pc = pc, !.sound = b] \in Flow
<1>1. Flow = [pc : Pc, previous : SUBSET Agent, sound : BOOLEAN, verdict : Verdict \cup {"none"}]
  BY DEF Flow, Pc
<1>. QED
  BY <1>1

(* A host's pairing goes on; what it must know to post bond_fail, it knows. *)
LEMMA FlowType ==
  ASSUME TypeInv, NEW h \in Host, NEW r \in Flow,
         r.pc = "fail" => r.verdict \in Failed,
         flow' = [flow EXCEPT ![h] = r]
  PROVE  flow' \in [Host -> Flow] /\ FailInv'
BY DEF TypeInv, TypeOK, FailInv

(* The pairing goes to pc, with a list or a key.                           *)
LEMMA GoesType ==
  ASSUME TypeInv, NEW h \in Host, NEW pc \in Pc, NEW v \in Verdict \cup {"none"},
         NEW s \in SUBSET Agent, NEW b \in BOOLEAN,
         \/ flow' = [flow EXCEPT ![h].pc = pc] /\ pc # "fail"
         \/ flow' = [flow EXCEPT ![h].pc = pc, ![h].verdict = v] /\ (pc = "fail" => v \in Failed)
         \/ flow' = [flow EXCEPT ![h].pc = pc, ![h].previous = s] /\ pc # "fail"
         \/ flow' = [flow EXCEPT ![h].pc = pc, ![h].sound = b] /\ pc # "fail"
  PROVE  flow' \in [Host -> Flow] /\ FailInv'
<1>1. flow[h] \in Flow
  BY DEF TypeInv, TypeOK
<1>. DEFINE r1 == [flow[h] EXCEPT !.pc = pc]
            r2 == [flow[h] EXCEPT !.pc = pc, !.verdict = v]
            r3 == [flow[h] EXCEPT !.pc = pc, !.previous = s]
            r4 == [flow[h] EXCEPT !.pc = pc, !.sound = b]
<1>2. r1 \in Flow /\ r2 \in Flow /\ r3 \in Flow /\ r4 \in Flow
  BY <1>1, RecordType
<1>3. r1.pc = pc /\ r2.pc = pc /\ r3.pc = pc /\ r4.pc = pc /\ r2.verdict = v
  BY <1>1 DEF Flow
<1>4. CASE flow' = [flow EXCEPT ![h].pc = pc] /\ pc # "fail"
  <2>1. flow' = [flow EXCEPT ![h] = r1]
    BY <1>4
  <2>. QED
    BY <1>2, <1>3, <1>4, <2>1, FlowType
<1>5. CASE flow' = [flow EXCEPT ![h].pc = pc, ![h].verdict = v] /\ (pc = "fail" => v \in Failed)
  <2>1. flow' = [flow EXCEPT ![h] = r2]
    BY <1>5 DEF TypeInv, TypeOK
  <2>. QED
    BY <1>2, <1>3, <1>5, <2>1, FlowType
<1>6. CASE flow' = [flow EXCEPT ![h].pc = pc, ![h].previous = s] /\ pc # "fail"
  <2>1. flow' = [flow EXCEPT ![h] = r3]
    BY <1>6 DEF TypeInv, TypeOK
  <2>. QED
    BY <1>2, <1>3, <1>6, <2>1, FlowType
<1>7. CASE flow' = [flow EXCEPT ![h].pc = pc, ![h].sound = b] /\ pc # "fail"
  <2>1. flow' = [flow EXCEPT ![h] = r4]
    BY <1>7 DEF TypeInv, TypeOK
  <2>. QED
    BY <1>2, <1>3, <1>7, <2>1, FlowType
<1>. QED
  BY <1>4, <1>5, <1>6, <1>7

LEMMA AdvanceType ==
  ASSUME TypeInv, NEW h \in Host, NEW next \in Verdict \cup (Pc \ {"fail"}), Advance(h, next)
  PROVE  reg' \in [Host -> {"none", "live", "burnt"}] /\ flow' \in [Host -> Flow] /\ FailInv'
<1>1. "done" \in Pc /\ {} \in SUBSET Agent /\ TRUE \in BOOLEAN /\ "none" \in Verdict \cup {"none"}
  BY DEF Pc
<1>2. CASE next \in Verdict
  <2>1. flow' = [flow EXCEPT ![h].pc = "done", ![h].verdict = next]
    BY <1>2 DEF Advance
  <2>2. flow' \in [Host -> Flow] /\ FailInv'
    BY <1>1, <1>2, <2>1, GoesType
  <2>. QED
    BY <1>2, <2>2 DEF Advance, Burnt, TypeInv, TypeOK
<1>3. CASE next \notin Verdict
  <2>1. next \in Pc /\ next # "fail" /\ flow' = [flow EXCEPT ![h].pc = next] /\ reg' = reg
    BY <1>3 DEF Advance
  <2>2. flow' \in [Host -> Flow] /\ FailInv'
    BY <1>1, <2>1, GoesType
  <2>. QED
    BY <2>1, <2>2 DEF TypeInv, TypeOK
<1>. QED
  BY <1>2, <1>3

LEMMA FailWithType ==
  ASSUME TypeInv, NEW h \in Host, NEW v \in Failed, FailWith(h, v)
  PROVE  reg' \in [Host -> {"none", "live", "burnt"}] /\ flow' \in [Host -> Flow] /\ FailInv'
<1>1. "fail" \in Pc /\ {} \in SUBSET Agent /\ TRUE \in BOOLEAN /\ v \in Verdict \cup {"none"}
  BY DEF Pc, Posting, Failed
<1>2. flow' = [flow EXCEPT ![h].pc = "fail", ![h].verdict = v] /\ reg' = reg
  BY DEF FailWith
<1>3. flow' \in [Host -> Flow] /\ FailInv'
  BY <1>1, <1>2, GoesType
<1>. QED
  BY <1>2, <1>3 DEF TypeInv, TypeOK

LEMMA FaultType ==
  ASSUME TypeInv, Fault
  PROVE  faults' \in 0 .. MaxFaults
BY BoundsAssumption DEF TypeInv, TypeOK, Fault

LEMMA ThrowType ==
  ASSUME TypeInv, NEW h \in Host, Throw(h)
  PROVE  /\ reg' \in [Host -> {"none", "live", "burnt"}] /\ flow' \in [Host -> Flow] /\ FailInv'
         /\ thrown' \subseteq Host
<1>1. "thrown" \in Pc \ {"fail"} /\ "none" \in Verdict \cup {"none"} /\ {} \in SUBSET Agent /\ TRUE \in BOOLEAN
  BY DEF Pc
<1>2. flow' \in [Host -> Flow] /\ FailInv'
  BY <1>1, GoesType DEF Throw
<1>. QED
  BY <1>2 DEF Throw, TypeInv, TypeOK

LEMMA PostType ==
  ASSUME TypeInv, NEW h \in Host, NEW pc, NEW phase \in Phase,
         NEW next \in Verdict \cup (Pc \ {"fail"}), Post(h, pc, phase, next)
  PROVE  TypeInv'
<1>. DEFINE m == [phase |-> phase, from |-> h, good |-> flow[h].sound, read |-> FALSE]
<1>1. m \in Message
  BY DEF TypeInv, TypeOK, Flow, Message
<1>2. slot' \in Message \cup {Empty}
  BY <1>1 DEF Post, Stored, TypeInv, TypeOK
<1>3. CASE Advance(h, next) /\ UNCHANGED <<faults, thrown>>
  BY <1>2, <1>3, AdvanceType DEF Post, TypeInv, TypeOK, lists, listHistory
<1>4. CASE Fault /\ Throw(h)
  BY <1>2, <1>4, FaultType, ThrowType DEF Post, TypeInv, TypeOK, lists, listHistory
<1>. QED
  BY <1>3, <1>4 DEF Post

LEMMA HearsType ==
  ASSUME TypeInv, NEW h \in Host, NEW pc, NEW phases, Hears(h, pc, phases)
  PROVE  /\ slot' \in Message \cup {Empty} /\ slot \in Message
         /\ slot.phase \in Phase /\ slot.good \in BOOLEAN
<1>1. slot \in Message
  BY DEF Hears, TypeInv, TypeOK
<1>. QED
  BY <1>1 DEF Hears, Message

LEMMA AdmitType ==
  ASSUME TypeInv, NEW h \in Host, Admit(h)
  PROVE  /\ flow' \in [Host -> Flow] /\ FailInv' /\ allow' \in [Host -> SUBSET Agent]
         /\ missed' \subseteq Host /\ UNCHANGED <<reg, admitted, bonds, revoking, undone, revoked>>
<1>1. "push" \in Pc \ {"fail"} /\ "none" \in Verdict \cup {"none"} /\ TRUE \in BOOLEAN
      /\ allow[h] \in SUBSET Agent /\ allow[h] \cup {Peer(h)} \in SUBSET Agent
  BY HostFacts DEF Pc, Pushing, TypeInv, TypeOK
<1>2. flow' \in [Host -> Flow] /\ FailInv'
  BY <1>1, GoesType DEF Admit
<1>. QED
  BY <1>1, <1>2 DEF Admit, TypeInv, TypeOK

LEMMA RestoreType ==
  ASSUME TypeInv, NEW h \in Host, NEW pc \in Pushing, Restore(h, pc)
  PROVE  /\ flow' \in [Host -> Flow] /\ FailInv' /\ allow' \in [Host -> SUBSET Agent]
         /\ undone' \subseteq Host
<1>1. pc \in Pc \ {"fail"} /\ "none" \in Verdict \cup {"none"} /\ TRUE \in BOOLEAN
      /\ flow[h].previous \in SUBSET Agent
  BY DEF Pc, Pushing, TypeInv, TypeOK, Flow
<1>2. flow' \in [Host -> Flow] /\ FailInv'
  BY <1>1, GoesType DEF Restore
<1>. QED
  BY <1>1, <1>2 DEF Restore, TypeInv, TypeOK

LEMMA PostFailType ==
  ASSUME TypeInv, NEW h \in Host, PostFail(h)
  PROVE  TypeInv'
<1>1. flow[h].pc = "fail"
  BY DEF PostFail, Post, At
<1>2. flow[h].verdict \in Verdict /\ "bond_fail" \in Phase
  BY <1>1 DEF TypeInv, FailInv, Failed, Phase
<1>. QED
  BY <1>2, PostType DEF PostFail

LEMMA PushOkType ==
  ASSUME TypeInv, NEW h \in Host, PushOk(h)
  PROVE  TypeInv'
<1>1. "tell" \in Pc \ {"fail"} /\ "add" \in Pc \ {"fail"} /\ "bonded" \in Verdict \cup {"none"}
      /\ {} \in SUBSET Agent /\ TRUE \in BOOLEAN /\ "none" \in Verdict \cup {"none"}
  BY DEF Pc, Posting, Verdict
<1>2. flow' = [flow EXCEPT ![h].pc = "tell"] \/ flow' = [flow EXCEPT ![h].pc = "add", ![h].verdict = "bonded"]
  BY DEF PushOk
<1>3. flow' \in [Host -> Flow] /\ FailInv'
  <2>1. CASE flow' = [flow EXCEPT ![h].pc = "tell"]
    BY <1>1, <2>1, GoesType
  <2>2. CASE flow' = [flow EXCEPT ![h].pc = "add", ![h].verdict = "bonded"]
    BY <1>1, <2>2, GoesType
  <2>. QED
    BY <1>2, <2>1, <2>2
<1>4. flow[h].previous \cup {Peer(h)} \in SUBSET Agent
  BY HostFacts DEF TypeInv, TypeOK, Flow
<1>5. admitted' \in [Host -> SUBSET Agent]
  BY <1>4 DEF PushOk, TypeInv, TypeOK
<1>6. reg' \in [Host -> {"none", "live", "burnt"}]
  <2>1. reg' = reg \/ reg' = Burnt(h)
    BY DEF PushOk
  <2>. QED
    BY <2>1 DEF Burnt, TypeInv, TypeOK
<1>7. bondings' \in [Host -> Nat]
  <2>1. bondings' = bondings \/ bondings' = [bondings EXCEPT ![h] = @ + 1]
    BY DEF PushOk
  <2>. QED
    BY <2>1 DEF TypeInv, TypeOK
<1>. QED
  BY <1>3, <1>5, <1>6, <1>7 DEF PushOk, bounds, listHistory, TypeInv, TypeOK

LEMMA RestorePushedType ==
  ASSUME TypeInv, NEW h \in Host, RestorePushed(h)
  PROVE  TypeInv'
<1>1. "rolled_back" \in Verdict /\ "rolled_back" \in Failed
  BY DEF Failed, Verdict
<1>2. FailWith(h, "rolled_back") \/ Advance(h, "rolled_back")
  BY DEF RestorePushed
<1>3. reg' \in [Host -> {"none", "live", "burnt"}] /\ flow' \in [Host -> Flow] /\ FailInv'
  BY <1>1, <1>2, AdvanceType, FailWithType
<1>4. flow[h].previous \in SUBSET Agent
  BY DEF TypeInv, TypeOK, Flow
<1>5. admitted' \in [Host -> SUBSET Agent] /\ missed' \subseteq Host /\ faults' \in 0 .. MaxFaults
  <2>1. CASE admitted' = [admitted EXCEPT ![h] = flow[h].previous] /\ UNCHANGED <<faults, missed>>
    BY <1>4, <2>1 DEF TypeInv, TypeOK
  <2>2. CASE Fault /\ missed' = missed \cup {h} /\ UNCHANGED admitted
    BY <2>2, FaultType DEF TypeInv, TypeOK
  <2>. QED
    BY <2>1, <2>2 DEF RestorePushed
<1>. QED
  BY <1>3, <1>5 DEF RestorePushed, TypeInv, TypeOK

LEMMA InitiatorType ==
  ASSUME TypeInv, [InitiatorStep]_vars
  PROVE  TypeInv'
<1>. USE HostFacts
<1>0. CASE UNCHANGED vars
  BY <1>0 DEF vars, lists, bounds, listHistory, TypeInv, TypeOK, FailInv
<1>1. CASE InitiatorHearsPake
  <2>1. PICK next \in {"rejected", "pake_failed", "answer"} :
             Advance(Initiator, next) \/ FailWith(Initiator, "pake_failed")
    BY <1>1 DEF InitiatorHearsPake
  <2>2. next \in Verdict \cup (Pc \ {"fail"}) /\ "pake_failed" \in Failed
    BY DEF Failed, Verdict, Pc, Posting
  <2>3. reg' \in [Host -> {"none", "live", "burnt"}] /\ flow' \in [Host -> Flow] /\ FailInv'
    BY <2>1, <2>2, AdvanceType, FailWithType
  <2>4. slot' \in Message \cup {Empty}
    BY <1>1, HearsType DEF InitiatorHearsPake
  <2>. QED
    BY <1>1, <2>3, <2>4 DEF InitiatorHearsPake, lists, bounds, listHistory, TypeInv, TypeOK
<1>2. CASE PostConfirm
  <2>1. "confirm" \in Phase /\ {"ok", "rolled_back"} \subseteq Verdict \cup (Pc \ {"fail"})
    BY DEF Phase, Verdict, Pc, Waiting
  <2>. QED
    BY <1>2, <2>1, PostType DEF PostConfirm
<1>3. CASE InitiatorHearsOk
  <2>1. "rolled_back" \in Verdict /\ "rolled_back" \in Failed
    BY DEF Failed, Verdict
  <2>2. slot' \in Message \cup {Empty} /\ UNCHANGED <<lapsed, core, bounds, approved, late, thrown, bondings>>
    BY <1>3, HearsType DEF InitiatorHearsOk
  <2>3. CASE Admit(Initiator)
    BY <2>2, <2>3, AdmitType DEF bounds, TypeInv, TypeOK
  <2>4. CASE /\ Advance(Initiator, "rolled_back") \/ FailWith(Initiator, "rolled_back")
             /\ UNCHANGED <<lists, listHistory>>
    <3>1. reg' \in [Host -> {"none", "live", "burnt"}] /\ flow' \in [Host -> Flow] /\ FailInv'
      BY <2>1, <2>4, AdvanceType, FailWithType
    <3>. QED
      BY <2>2, <2>4, <3>1 DEF lists, listHistory, bounds, TypeInv, TypeOK
  <2>. QED
    BY <1>3, <2>3, <2>4 DEF InitiatorHearsOk
<1>4. CASE InitiatorPostsOk
  <2>1. "bond_ok" \in Phase /\ "listen" \in Verdict \cup (Pc \ {"fail"})
    BY DEF Phase, Verdict, Pc, Waiting
  <2>. QED
    BY <1>4, <2>1, PostType DEF InitiatorPostsOk
<1>5. CASE InitiatorHearsFail
  <2>1. "retract" \in Pushing
    BY DEF Pushing
  <2>2. slot' \in Message \cup {Empty}
    BY <1>5, HearsType DEF InitiatorHearsFail
  <2>3. Restore(Initiator, "retract")
    BY <1>5 DEF InitiatorHearsFail
  <2>4. flow' \in [Host -> Flow] /\ FailInv' /\ allow' \in [Host -> SUBSET Agent] /\ undone' \subseteq Host
    BY <2>1, <2>3, RestoreType
  <2>. QED
    BY <1>5, <2>2, <2>4 DEF InitiatorHearsFail, bounds, TypeInv, TypeOK
<1>6. CASE InitiatorBonds
  <2>1. "bonded" \in Verdict \cup (Pc \ {"fail"})
    BY DEF Verdict
  <2>2. reg' \in [Host -> {"none", "live", "burnt"}] /\ flow' \in [Host -> Flow] /\ FailInv'
    BY <1>6, <2>1, AdvanceType DEF InitiatorBonds
  <2>3. bonds' \in [Host -> SUBSET Agent] /\ bondings' \in [Host -> Nat]
    BY <1>6 DEF InitiatorBonds, TypeInv, TypeOK, Agent
  <2>. QED
    BY <1>6, <2>2, <2>3 DEF InitiatorBonds, listHistory, bounds, TypeInv, TypeOK
<1>7. CASE PostFail(Initiator)
  BY <1>7, PostFailType
<1>8. CASE PushOk(Initiator)
  BY <1>8, PushOkType
<1>9. CASE RestorePushed(Initiator)
  BY <1>9, RestorePushedType
<1>. QED
  BY <1>0, <1>1, <1>2, <1>3, <1>4, <1>5, <1>6, <1>7, <1>8, <1>9 DEF InitiatorStep

LEMMA JoinerType ==
  ASSUME TypeInv, JoinerStep
  PROVE  TypeInv'
<1>. USE HostFacts
<1>1. CASE PostReject
  <2>1. "reject" \in Phase /\ "rejected" \in Verdict \cup (Pc \ {"fail"})
    BY DEF Phase, Verdict
  <2>. QED
    BY <1>1, <2>1, PostType DEF PostReject
<1>2. CASE JoinerHearsPake
  <2>1. /\ slot' \in Message \cup {Empty} /\ slot.good \in BOOLEAN
    BY <1>2, HearsType DEF JoinerHearsPake
  <2>2. "answer" \in Pc \ {"fail"} /\ "pake_failed" \in Verdict /\ {} \in SUBSET Agent
        /\ "none" \in Verdict \cup {"none"}
    BY DEF Pc, Posting, Verdict
  <2>3. reg' \in [Host -> {"none", "live", "burnt"}] /\ flow' \in [Host -> Flow] /\ FailInv'
    <3>1. CASE flow' = [flow EXCEPT ![Joiner].pc = "answer", ![Joiner].sound = slot.good] /\ UNCHANGED reg
      <4>1. flow' \in [Host -> Flow] /\ FailInv'
        BY <2>1, <2>2, <3>1, GoesType
      <4>. QED
        BY <3>1, <4>1 DEF TypeInv, TypeOK
    <3>2. CASE Advance(Joiner, "pake_failed")
      BY <2>2, <3>2, AdvanceType
    <3>. QED
      BY <1>2, <3>1, <3>2 DEF JoinerHearsPake
  <2>. QED
    BY <1>2, <2>1, <2>3 DEF JoinerHearsPake, lists, bounds, listHistory, TypeInv, TypeOK
<1>3. CASE PostPake
  <2>1. "pake" \in Phase /\ "confirm" \in Verdict \cup (Pc \ {"fail"})
    BY DEF Phase, Verdict, Pc, Waiting
  <2>. QED
    BY <1>3, <2>1, PostType DEF PostPake
<1>4. CASE JoinerHearsConfirm
  <2>1. PICK next \in {"agree", "rolled_back"} : Advance(Joiner, next) \/ FailWith(Joiner, "pake_failed")
    BY <1>4 DEF JoinerHearsConfirm
  <2>2. next \in Verdict \cup (Pc \ {"fail"}) /\ "pake_failed" \in Failed
    BY DEF Failed, Verdict, Pc, Posting
  <2>3. reg' \in [Host -> {"none", "live", "burnt"}] /\ flow' \in [Host -> Flow] /\ FailInv'
    BY <2>1, <2>2, AdvanceType, FailWithType
  <2>4. slot' \in Message \cup {Empty}
    BY <1>4, HearsType DEF JoinerHearsConfirm
  <2>. QED
    BY <1>4, <2>3, <2>4 DEF JoinerHearsConfirm, lists, bounds, listHistory, TypeInv, TypeOK
<1>5. CASE JoinerPostsOk
  <2>1. "bond_ok" \in Phase /\ "ok" \in Verdict \cup (Pc \ {"fail"})
    BY DEF Phase, Verdict, Pc, Waiting
  <2>. QED
    BY <1>5, <2>1, PostType DEF JoinerPostsOk
<1>6. CASE JoinerHearsOk
  <2>1. "rolled_back" \in Verdict /\ "rolled_back" \in Failed
    BY DEF Failed, Verdict
  <2>2. slot' \in Message \cup {Empty} /\ UNCHANGED <<lapsed, core, bounds, approved, late, thrown, bondings>>
    BY <1>6, HearsType DEF JoinerHearsOk
  <2>3. CASE Admit(Joiner)
    BY <2>2, <2>3, AdmitType DEF bounds, TypeInv, TypeOK
  <2>4. CASE Advance(Joiner, "rolled_back") /\ UNCHANGED <<lists, listHistory>>
    <3>1. reg' \in [Host -> {"none", "live", "burnt"}] /\ flow' \in [Host -> Flow] /\ FailInv'
      BY <2>1, <2>4, AdvanceType
    <3>. QED
      BY <2>2, <2>4, <3>1 DEF lists, listHistory, bounds, TypeInv, TypeOK
  <2>. QED
    BY <1>6, <2>3, <2>4 DEF JoinerHearsOk
<1>7. CASE JoinerBonds
  <2>1. "done" \in Pc \ {"fail"} /\ "none" \in Verdict \cup {"none"} /\ {} \in SUBSET Agent /\ TRUE \in BOOLEAN
    BY DEF Pc
  <2>2. flow' \in [Host -> Flow] /\ FailInv'
    BY <1>7, <2>1, GoesType DEF JoinerBonds
  <2>3. bonds' \in [Host -> SUBSET Agent]
    BY <1>7 DEF JoinerBonds, TypeInv, TypeOK, Agent
  <2>. QED
    BY <1>7, <2>2, <2>3 DEF JoinerBonds, listHistory, bounds, TypeInv, TypeOK
<1>8. CASE PostFail(Joiner)
  BY <1>8, PostFailType
<1>9. CASE PushOk(Joiner)
  BY <1>9, PushOkType
<1>10. CASE RestorePushed(Joiner)
  BY <1>10, RestorePushedType
<1>. QED
  BY <1>1, <1>2, <1>3, <1>4, <1>5, <1>6, <1>7, <1>8, <1>9, <1>10 DEF JoinerStep

(* What humans and agents begin.                                           *)
LEMMA StartType ==
  ASSUME TypeInv, PairInit \/ CompleteAgain \/ PairJoin \/ Approve \/ Reject
  PROVE  TypeInv'
<1>. USE HostFacts
<1>0. /\ {"pake", "asked", "reject"} \subseteq Pc \ {"fail"} /\ "none" \in Verdict \cup {"none"}
      /\ {} \in SUBSET Agent /\ TRUE \in BOOLEAN /\ "expired" \in Verdict
  BY DEF Pc, Waiting, Posting, Verdict
<1>1. CASE PairInit
  <2>1. flow' \in [Host -> Flow] /\ FailInv'
    BY <1>0, <1>1, GoesType DEF PairInit
  <2>2. slot' \in Message \cup {Empty}
    BY <1>1 DEF PairInit, Message, Phase
  <2>3. reg' \in [Host -> {"none", "live", "burnt"}]
    BY <1>1 DEF PairInit, TypeInv, TypeOK
  <2>. QED
    BY <1>1, <2>1, <2>2, <2>3 DEF PairInit, lists, bounds, listHistory, TypeInv, TypeOK
<1>2. CASE CompleteAgain
  <2>1. PICK next \in {"expired", "pake"} : Advance(Initiator, next)
    BY <1>2 DEF CompleteAgain
  <2>2. next \in Verdict \cup (Pc \ {"fail"})
    BY <1>0
  <2>3. reg' \in [Host -> {"none", "live", "burnt"}] /\ flow' \in [Host -> Flow] /\ FailInv'
    BY <2>1, <2>2, AdvanceType
  <2>. QED
    BY <1>2, <2>3 DEF CompleteAgain, lists, bounds, listHistory, TypeInv, TypeOK
<1>3. CASE PairJoin
  <2>1. flow' \in [Host -> Flow] /\ FailInv'
    BY <1>0, <1>3, GoesType DEF PairJoin
  <2>2. reg' \in [Host -> {"none", "live", "burnt"}]
    BY <1>3 DEF PairJoin, TypeInv, TypeOK
  <2>. QED
    BY <1>3, <2>1, <2>2 DEF PairJoin, lists, bounds, listHistory, TypeInv, TypeOK
<1>4. CASE Approve
  <2>1. reg' \in [Host -> {"none", "live", "burnt"}] /\ flow' \in [Host -> Flow] /\ FailInv'
    <3>1. CASE lapsed
      BY <1>0, <1>4, <3>1, AdvanceType DEF Approve
    <3>2. CASE ~lapsed
      <4>1. flow' = [flow EXCEPT ![Joiner].pc = "pake", ![Joiner].sound = TRUE] /\ reg' = reg
        BY <1>4, <3>2 DEF Approve
      <4>2. flow' \in [Host -> Flow] /\ FailInv'
        BY <1>0, <4>1, GoesType
      <4>. QED
        BY <4>1, <4>2 DEF TypeInv, TypeOK
    <3>. QED
      BY <3>1, <3>2
  <2>2. approved' \in BOOLEAN
    BY <1>4 DEF Approve, TypeInv, TypeOK
  <2>. QED
    BY <1>4, <2>1, <2>2 DEF Approve, lists, bounds, listHistory, TypeInv, TypeOK
<1>5. CASE Reject
  <2>1. flow' \in [Host -> Flow] /\ FailInv'
    BY <1>0, <1>5, GoesType DEF Reject
  <2>. QED
    BY <1>5, <2>1 DEF Reject, lists, bounds, listHistory, TypeInv, TypeOK
<1>. QED
  BY <1>1, <1>2, <1>3, <1>4, <1>5

(* What goes wrong, what others do meanwhile, and time.                    *)
LEMMA MishapType ==
  ASSUME TypeInv, NEW h \in Host,
         \/ PushRefused(h) \/ PushThrows(h) \/ TimesOut(h) \/ Crash(h) \/ Lapse \/ Garble
  PROVE  TypeInv'
<1>1. CASE PushRefused(h)
  <2>1. "undo" \in Pushing
    BY DEF Pushing
  <2>2. Restore(h, "undo") /\ Fault
    BY <1>1 DEF PushRefused
  <2>3. flow' \in [Host -> Flow] /\ FailInv' /\ allow' \in [Host -> SUBSET Agent] /\ undone' \subseteq Host
    BY <2>1, <2>2, RestoreType
  <2>. QED
    BY <1>1, <2>2, <2>3, FaultType DEF PushRefused, TypeInv, TypeOK
<1>2. CASE PushThrows(h)
  <2>1. Fault /\ Throw(h)
    BY <1>2 DEF PushThrows
  <2>2. /\ reg' \in [Host -> {"none", "live", "burnt"}] /\ flow' \in [Host -> Flow] /\ FailInv'
        /\ thrown' \subseteq Host /\ faults' \in 0 .. MaxFaults
    BY <2>1, FaultType, ThrowType
  <2>3. flow[h].previous \cup {Peer(h)} \in SUBSET Agent /\ flow[h].previous \in SUBSET Agent
    BY HostFacts DEF TypeInv, TypeOK, Flow
  <2>4. admitted' = admitted \/ admitted' = [admitted EXCEPT ![h] = flow[h].previous \cup {Peer(h)}]
        \/ admitted' = [admitted EXCEPT ![h] = flow[h].previous \cup {}]
    BY <1>2 DEF PushThrows
  <2>5. admitted' \in [Host -> SUBSET Agent]
    BY <2>3, <2>4 DEF TypeInv, TypeOK
  <2>. QED
    BY <1>2, <2>2, <2>5 DEF PushThrows, TypeInv, TypeOK
<1>3. CASE TimesOut(h)
  <2>1. "pake_failed" \in Verdict /\ "rolled_back" \in Verdict /\ "pake_failed" \in Failed
    BY DEF Failed, Verdict
  <2>2. Advance(h, "pake_failed") \/ FailWith(h, "pake_failed") \/ Advance(h, "rolled_back")
    BY <1>3 DEF TimesOut
  <2>3. reg' \in [Host -> {"none", "live", "burnt"}] /\ flow' \in [Host -> Flow] /\ FailInv'
    BY <2>1, <2>2, AdvanceType, FailWithType
  <2>. QED
    BY <1>3, <2>3 DEF TimesOut, lists, bounds, listHistory, TypeInv, TypeOK
<1>4. CASE Crash(h)
  <2>1. "off" \in Pc \ {"fail"} /\ "done" \in Pc \ {"fail"} /\ {} \in SUBSET Agent /\ TRUE \in BOOLEAN
        /\ "none" \in Verdict \cup {"none"} /\ "lost" \in Verdict
    BY DEF Pc, Verdict
  <2>2. flow' = flow \/ flow' = [flow EXCEPT ![h].pc = "off", ![h].verdict = "none"]
        \/ flow' = [flow EXCEPT ![h].pc = "done", ![h].verdict = "lost"]
    BY <1>4 DEF Crash
  <2>3. flow' \in [Host -> Flow] /\ FailInv'
    <3>1. CASE flow' = flow
      BY <3>1 DEF TypeInv, TypeOK, FailInv
    <3>2. CASE flow' = [flow EXCEPT ![h].pc = "off", ![h].verdict = "none"]
      BY <2>1, <3>2, GoesType
    <3>3. CASE flow' = [flow EXCEPT ![h].pc = "done", ![h].verdict = "lost"]
      BY <2>1, <3>3, GoesType
    <3>. QED
      BY <2>2, <3>1, <3>2, <3>3
  <2>4. reg' \in [Host -> {"none", "live", "burnt"}] /\ revoking' \in [Host -> [list : SUBSET Agent, tries : 0 .. 2]]
    BY <1>4 DEF Crash, NoRevoke, TypeInv, TypeOK
  <2>5. missed' \subseteq Host /\ thrown' \subseteq Host /\ Fault
    BY <1>4 DEF Crash, TypeInv, TypeOK
  <2>. QED
    BY <1>4, <2>3, <2>4, <2>5, FaultType DEF Crash, TypeInv, TypeOK
<1>5. CASE Lapse
  <2>1. reg' \in [Host -> {"none", "live", "burnt"}]
    BY <1>5 DEF Lapse, TypeInv, TypeOK
  <2>. QED
    BY <1>5, <2>1 DEF Lapse, lists, bounds, listHistory, TypeInv, TypeOK, FailInv
<1>6. CASE Garble
  <2>1. slot \in Message
    BY <1>6 DEF Garble, TypeInv, TypeOK
  <2>2. [slot EXCEPT !.good = FALSE] \in Message
    BY <2>1 DEF Message
  <2>3. slot' \in Message \cup {Empty} /\ Fault
    BY <1>6, <2>2 DEF Garble
  <2>. QED
    BY <1>6, <2>3, FaultType DEF Garble, lists, listHistory, TypeInv, TypeOK, FailInv
<1>. QED
  BY <1>1, <1>2, <1>3, <1>4, <1>5, <1>6

LEMMA ChangeType ==
  ASSUME TypeInv, changes < MaxChanges, changes' = changes + 1
  PROVE  changes' \in 0 .. MaxChanges
BY BoundsAssumption DEF TypeInv, TypeOK

LEMMA MeanwhileType ==
  ASSUME TypeInv, NEW h \in Host, NEW a \in Agent, RevokePush(h) \/ OtherPairing(h) \/ Revoke(h, a)
  PROVE  TypeInv'
<1>1. CASE RevokePush(h)
  <2>1. revoking[h] \in [list : SUBSET Agent, tries : 0 .. 2]
    BY DEF TypeInv, TypeOK
  <2>2. revoking[h].list \in SUBSET Agent /\ [revoking[h] EXCEPT !.tries = 1] \in [list : SUBSET Agent, tries : 0 .. 2]
    BY <2>1
  <2>3. NoRevoke \in [list : SUBSET Agent, tries : 0 .. 2]
    BY DEF NoRevoke
  <2>4. revoking' = [revoking EXCEPT ![h] = NoRevoke] \/ revoking' = [revoking EXCEPT ![h] = [revoking[h] EXCEPT !.tries = 1]]
    BY <1>1 DEF RevokePush
  <2>5. revoking' \in [Host -> [list : SUBSET Agent, tries : 0 .. 2]]
    BY <2>2, <2>3, <2>4 DEF TypeInv, TypeOK
  <2>6. admitted' = admitted \/ admitted' = [admitted EXCEPT ![h] = revoking[h].list]
    BY <1>1 DEF RevokePush
  <2>7. admitted' \in [Host -> SUBSET Agent]
    BY <2>2, <2>6 DEF TypeInv, TypeOK
  <2>8. missed' \subseteq Host /\ faults' \in 0 .. MaxFaults
    <3>1. missed' = missed \/ missed' = missed \cup {h}
      BY <1>1 DEF RevokePush
    <3>2. faults' = faults \/ Fault
      BY <1>1 DEF RevokePush
    <3>. QED
      BY <3>1, <3>2, FaultType DEF TypeInv, TypeOK
  <2>. QED
    BY <1>1, <2>5, <2>7, <2>8 DEF RevokePush, TypeInv, TypeOK, FailInv
<1>2. CASE OtherPairing(h)
  <2>1. changes' \in 0 .. MaxChanges
    BY <1>2, ChangeType DEF OtherPairing
  <2>2. bonds' \in [Host -> SUBSET Agent] /\ allow' \in [Host -> SUBSET Agent]
    BY <1>2 DEF OtherPairing, TypeInv, TypeOK, Agent
  <2>3. admitted' \in [Host -> SUBSET Agent] /\ missed' \subseteq Host
    BY <1>2, <2>2 DEF OtherPairing, TypeInv, TypeOK
  <2>. QED
    BY <1>2, <2>1, <2>2, <2>3 DEF OtherPairing, TypeInv, TypeOK, FailInv
<1>3. CASE Revoke(h, a)
  <2>1. changes' \in 0 .. MaxChanges
    BY <1>3, ChangeType DEF Revoke
  <2>2. bonds' \in [Host -> SUBSET Agent] /\ allow' \in [Host -> SUBSET Agent] /\ revoked' \in [Host -> SUBSET Agent]
    BY <1>3 DEF Revoke, TypeInv, TypeOK
  <2>3. [list |-> allow'[h], tries |-> 2] \in [list : SUBSET Agent, tries : 0 .. 2]
    BY <2>2
  <2>4. revoking' \in [Host -> [list : SUBSET Agent, tries : 0 .. 2]]
    BY <1>3, <2>3 DEF Revoke, TypeInv, TypeOK
  <2>5. missed' \subseteq Host
    BY <1>3 DEF Revoke, TypeInv, TypeOK
  <2>. QED
    BY <1>3, <2>1, <2>2, <2>4, <2>5 DEF Revoke, TypeInv, TypeOK, FailInv
<1>. QED
  BY <1>1, <1>2, <1>3

LEMMA TypeStep == TypeInv /\ [Next]_vars => TypeInv'
<1>. SUFFICES ASSUME TypeInv, [Next]_vars PROVE TypeInv'
  OBVIOUS
<1>1. CASE UNCHANGED vars
  BY <1>1 DEF vars, lists, bounds, listHistory, TypeInv, TypeOK, FailInv
<1>2. CASE InitiatorStep \/ JoinerStep
  BY <1>2, InitiatorType, JoinerType
<1>3. CASE PairInit \/ CompleteAgain \/ PairJoin \/ Approve \/ Reject
  BY <1>3, StartType
<1>4. CASE Lapse \/ Garble
  BY <1>4, MishapType, HostFacts
<1>5. ASSUME NEW h \in Host,
             PushRefused(h) \/ PushThrows(h) \/ RevokePush(h) \/ OtherPairing(h) \/ TimesOut(h) \/ Crash(h)
      PROVE  TypeInv'
  BY <1>5, MishapType, MeanwhileType, HostFacts
<1>6. ASSUME NEW h \in Host, NEW a \in Agent, Revoke(h, a) PROVE TypeInv'
  BY <1>6, MeanwhileType
<1>. QED
  BY <1>1, <1>2, <1>3, <1>4, <1>5, <1>6 DEF Next

LEMMA TypeInit == Init => TypeInv
<1>. SUFFICES ASSUME Init PROVE TypeInv
  OBVIOUS
<1>1. [pc |-> "off", previous |-> {}, sound |-> TRUE, verdict |-> "none"] \in Flow
  BY DEF Flow
<1>2. flow \in [Host -> Flow] /\ FailInv
  BY <1>1 DEF Init, FailInv
<1>3. allow \in [Host -> SUBSET Agent]
  BY DEF Init, Agent
<1>4. revoking \in [Host -> [list : SUBSET Agent, tries : 0 .. 2]]
  BY DEF Init, NoRevoke
<1>5. faults \in 0 .. MaxFaults /\ changes \in 0 .. MaxChanges
  BY BoundsAssumption DEF Init
<1>. QED
  BY <1>2, <1>3, <1>4, <1>5 DEF Init, TypeInv, TypeOK

(* Every variable has its type, for whatever third agent, busy hosts and   *)
(* bounds.                                                                 *)
THEOREM TypeCorrect == Spec => []TypeOK
<1>1. TypeInv => TypeOK
  BY DEF TypeInv
<1>. QED
  BY <1>1, TypeInit, TypeStep, PTL DEF Spec

-----------------------------------------------------------------------------
(* What a step does to the allowlists                                      *)

(* Where a pairing has not touched them yet.                               *)
Early == {"off", "asked", "pake", "confirm", "ok", "answer", "agree", "fail", "reject"}

(* A step that leaves them alone, and at most moves the pairing of h.      *)
Calm(h) ==
  /\ UNCHANGED <<lists, listHistory>> /\ thrown \subseteq thrown'
  /\ \A g \in Host \ {h} : flow'[g] = flow[g]
  /\ flow'[h].previous = flow[h].previous
  /\ \/ flow'[h] = flow[h]
     \/ At(h, "tell") /\ flow'[h].pc = "listen"
     \/ flow[h].pc \in Early \cup {"tell"} /\ flow'[h].pc = "thrown" /\ h \in thrown'
     \/ /\ flow[h].pc \in Early \cup {"thrown"}
        /\ flow'[h].pc \in Early \/ (flow'[h].pc = "done" /\ flow'[h].verdict \in Failed)

(* The peer's bond_ok is heard.                                            *)
Admits(h) ==
  /\ At(h, "ok") /\ Admit(h)
  /\ UNCHANGED <<lapsed, core, bounds, approved, late, thrown, bondings>>

(* A step that may not leave them alone.                                   *)
Touches(h) ==
  \/ Admits(h) \/ PushOk(h) \/ PushRefused(h) \/ RestorePushed(h) \/ PushThrows(h)
  \/ h = Initiator /\ (InitiatorHearsFail \/ InitiatorBonds)
  \/ h = Joiner /\ JoinerBonds
  \/ RevokePush(h) \/ OtherPairing(h) \/ Crash(h)
  \/ \E a \in Agent : Revoke(h, a)

LEMMA CalmAdvance ==
  ASSUME TypeInv, NEW h \in Host, NEW next \in Failed \cup Early,
         flow[h].pc \in Early \cup {"thrown"}, Advance(h, next) \/ FailWith(h, next),
         UNCHANGED <<lists, listHistory, thrown>>
  PROVE  Calm(h)
<1>1. flow \in [Host -> Flow] /\ flow[h] \in Flow
  BY DEF TypeInv, TypeOK
<1>2. next \in Verdict \/ next \in Early
  BY DEF Failed
<1>3. CASE next \in Early /\ Advance(h, next)
  BY <1>1, <1>3 DEF Advance, Calm, Early, Verdict, Failed, Flow
<1>4. CASE next \in Failed /\ Advance(h, next)
  BY <1>1, <1>4 DEF Advance, Calm, Failed, Flow
<1>5. CASE FailWith(h, next)
  BY <1>1, <1>5 DEF FailWith, Calm, Early, Flow
<1>. QED
  BY <1>2, <1>3, <1>4, <1>5

LEMMA CalmPost ==
  ASSUME TypeInv, NEW h \in Host, NEW pc \in Early, NEW phase, NEW next \in Failed \cup Early,
         Post(h, pc, phase, next)
  PROVE  Calm(h)
<1>1. flow \in [Host -> Flow] /\ flow[h] \in Flow /\ flow[h].pc = pc
  BY DEF TypeInv, TypeOK, Post, At
<1>2. CASE Advance(h, next) /\ UNCHANGED thrown
  BY <1>1, <1>2, CalmAdvance DEF Post
<1>3. CASE Throw(h)
  BY <1>1, <1>3 DEF Post, Throw, Calm, Flow
<1>. QED
  BY <1>2, <1>3 DEF Post

LEMMA InitiatorCalm ==
  ASSUME TypeInv, InitiatorStep
  PROVE  Calm(Initiator) \/ Touches(Initiator)
<1>. USE HostFacts
<1>0. /\ {"pake", "answer", "ok", "fail"} \subseteq Early
      /\ {"rejected", "pake_failed", "rolled_back", "expired"} \subseteq Failed
  BY DEF Early, Failed, Verdict
<1>1. CASE InitiatorHearsPake
  <2>1. flow[Initiator].pc = "pake"
    BY <1>1 DEF InitiatorHearsPake, Hears, At
  <2>2. PICK next \in {"rejected", "pake_failed", "answer"} :
             Advance(Initiator, next) \/ FailWith(Initiator, "pake_failed")
    BY <1>1 DEF InitiatorHearsPake
  <2>3. UNCHANGED <<lists, listHistory, thrown>>
    BY <1>1 DEF InitiatorHearsPake
  <2>. QED
    BY <1>0, <2>1, <2>2, <2>3, CalmAdvance
<1>2. CASE PostConfirm
  BY <1>0, <1>2, CalmPost DEF PostConfirm
<1>3. CASE InitiatorHearsOk
  <2>1. flow[Initiator].pc = "ok" /\ At(Initiator, "ok")
    BY <1>3 DEF InitiatorHearsOk, Hears, At
  <2>2. CASE Admit(Initiator)
    BY <1>3, <2>1, <2>2 DEF Touches, Admits, InitiatorHearsOk
  <2>3. CASE /\ Advance(Initiator, "rolled_back") \/ FailWith(Initiator, "rolled_back")
             /\ UNCHANGED <<lists, listHistory>>
    BY <1>0, <1>3, <2>1, <2>3, CalmAdvance DEF InitiatorHearsOk
  <2>. QED
    BY <1>3, <2>2, <2>3 DEF InitiatorHearsOk
<1>4. CASE InitiatorPostsOk
  <2>1. At(Initiator, "tell") /\ flow[Initiator].pc = "tell" /\ "listen" \notin Verdict
        /\ flow \in [Host -> Flow] /\ flow[Initiator] \in Flow
    BY <1>4 DEF InitiatorPostsOk, Post, At, Verdict, TypeInv, TypeOK
  <2>2. CASE Advance(Initiator, "listen") /\ UNCHANGED thrown
    BY <1>4, <2>1, <2>2 DEF InitiatorPostsOk, Post, Advance, Calm, Flow
  <2>3. CASE Throw(Initiator)
    BY <1>4, <2>1, <2>3 DEF InitiatorPostsOk, Post, Throw, Calm, Flow
  <2>. QED
    BY <1>4, <2>2, <2>3 DEF InitiatorPostsOk, Post
<1>5. CASE PostFail(Initiator)
  <2>1. flow[Initiator].verdict \in Failed
    BY <1>5 DEF PostFail, Post, At, TypeInv, FailInv
  <2>. QED
    BY <1>0, <1>5, <2>1, CalmPost DEF PostFail
<1>. QED
  BY <1>1, <1>2, <1>3, <1>4, <1>5 DEF InitiatorStep, Touches

LEMMA JoinerCalm ==
  ASSUME TypeInv, JoinerStep
  PROVE  Calm(Joiner) \/ Touches(Joiner)
<1>. USE HostFacts
<1>0. /\ {"pake", "answer", "agree", "ok", "confirm", "fail", "reject"} \subseteq Early
      /\ {"rejected", "pake_failed", "rolled_back", "expired"} \subseteq Failed
  BY DEF Early, Failed, Verdict
<1>1. CASE PostReject
  BY <1>0, <1>1, CalmPost DEF PostReject
<1>2. CASE JoinerHearsPake
  <2>1. flow[Joiner].pc = "pake" /\ flow \in [Host -> Flow] /\ flow[Joiner] \in Flow
    BY <1>2 DEF JoinerHearsPake, Hears, At, TypeInv, TypeOK
  <2>2. CASE flow' = [flow EXCEPT ![Joiner].pc = "answer", ![Joiner].sound = slot.good]
    BY <1>0, <1>2, <2>1, <2>2 DEF JoinerHearsPake, Calm, Flow
  <2>3. CASE Advance(Joiner, "pake_failed")
    BY <1>0, <1>2, <2>1, <2>3, CalmAdvance DEF JoinerHearsPake
  <2>. QED
    BY <1>2, <2>2, <2>3 DEF JoinerHearsPake
<1>3. CASE PostPake
  BY <1>0, <1>3, CalmPost DEF PostPake
<1>4. CASE JoinerHearsConfirm
  <2>1. flow[Joiner].pc = "confirm"
    BY <1>4 DEF JoinerHearsConfirm, Hears, At
  <2>2. PICK next \in {"agree", "rolled_back"} : Advance(Joiner, next) \/ FailWith(Joiner, "pake_failed")
    BY <1>4 DEF JoinerHearsConfirm
  <2>. QED
    BY <1>0, <1>4, <2>1, <2>2, CalmAdvance DEF JoinerHearsConfirm
<1>5. CASE JoinerPostsOk
  BY <1>0, <1>5, CalmPost DEF JoinerPostsOk
<1>6. CASE JoinerHearsOk
  <2>1. flow[Joiner].pc = "ok" /\ At(Joiner, "ok")
    BY <1>6 DEF JoinerHearsOk, Hears, At
  <2>2. CASE Admit(Joiner)
    BY <1>6, <2>1, <2>2 DEF Touches, Admits, JoinerHearsOk
  <2>3. CASE Advance(Joiner, "rolled_back") /\ UNCHANGED <<lists, listHistory>>
    BY <1>0, <1>6, <2>1, <2>3, CalmAdvance DEF JoinerHearsOk
  <2>. QED
    BY <1>6, <2>2, <2>3 DEF JoinerHearsOk
<1>7. CASE PostFail(Joiner)
  <2>1. flow[Joiner].verdict \in Failed
    BY <1>7 DEF PostFail, Post, At, TypeInv, FailInv
  <2>. QED
    BY <1>0, <1>7, <2>1, CalmPost DEF PostFail
<1>. QED
  BY <1>1, <1>2, <1>3, <1>4, <1>5, <1>6, <1>7 DEF JoinerStep, Touches

LEMMA StartCalm ==
  ASSUME TypeInv, NEW h \in Host,
         \/ (PairInit \/ CompleteAgain) /\ h = Initiator
         \/ (PairJoin \/ Approve \/ Reject) /\ h = Joiner
         \/ TimesOut(h)
  PROVE  Calm(h)
<1>0. /\ {"pake", "asked", "off", "fail", "reject"} \subseteq Early
      /\ {"rejected", "pake_failed", "rolled_back", "expired"} \subseteq Failed
      /\ flow \in [Host -> Flow] /\ flow[h] \in Flow
  BY DEF Early, Failed, Verdict, TypeInv, TypeOK
<1>1. CASE PairInit /\ h = Initiator
  BY <1>0, <1>1 DEF PairInit, Calm, Flow, At
<1>2. CASE CompleteAgain /\ h = Initiator
  <2>1. PICK next \in {"expired", "pake"} : Advance(Initiator, next)
    BY <1>2 DEF CompleteAgain
  <2>. QED
    BY <1>0, <1>2, <2>1, CalmAdvance DEF CompleteAgain, At
<1>3. CASE PairJoin /\ h = Joiner
  BY <1>0, <1>3 DEF PairJoin, Calm, Flow, At
<1>4. CASE Approve /\ h = Joiner
  <2>1. CASE lapsed
    BY <1>0, <1>4, <2>1, CalmAdvance DEF Approve, Early
  <2>2. CASE ~lapsed
    <3>1. flow' = [flow EXCEPT ![h].pc = "pake", ![h].sound = TRUE]
      BY <1>4, <2>2 DEF Approve
    <3>2. flow[h].pc \in Early \cup {"thrown"}
      BY <1>4 DEF Approve, Early
    <3>3. UNCHANGED <<lists, listHistory, thrown>>
      BY <1>4 DEF Approve
    <3>. QED
      BY <1>0, <3>1, <3>2, <3>3 DEF Calm, Flow
  <2>. QED
    BY <2>1, <2>2
<1>5. CASE Reject /\ h = Joiner
  <2>2. flow[h].pc \in Early \cup {"thrown"}
    BY <1>5 DEF Reject, Early
  <2>. QED
    BY <1>0, <1>5, <2>2 DEF Reject, Calm, Flow
<1>6. CASE TimesOut(h)
  <2>1. flow[h].pc \in Early
    BY <1>6 DEF TimesOut, At, Early
  <2>2. PICK next \in {"pake_failed", "rolled_back"} : Advance(h, next) \/ FailWith(h, next)
    BY <1>6 DEF TimesOut
  <2>. QED
    BY <1>0, <1>6, <2>1, <2>2, CalmAdvance DEF TimesOut
<1>. QED
  BY <1>1, <1>2, <1>3, <1>4, <1>5, <1>6

LEMMA Steps ==
  ASSUME TypeInv, [Next]_vars
  PROVE  \E h \in Host : Calm(h) \/ Touches(h)
<1>. USE HostFacts
<1>1. CASE UNCHANGED <<lists, listHistory, thrown, flow>>
  BY <1>1 DEF Calm
<1>2. CASE UNCHANGED vars \/ Lapse \/ Garble
  BY <1>1, <1>2 DEF vars, Lapse, Garble
<1>3. CASE InitiatorStep \/ JoinerStep
  BY <1>3, InitiatorCalm, JoinerCalm
<1>4. CASE PairInit \/ CompleteAgain \/ PairJoin \/ Approve \/ Reject
  <2>1. CASE PairInit \/ CompleteAgain
    <3>1. ASSUME PairInit PROVE Calm(Initiator)
      BY <3>1, StartCalm
    <3>2. ASSUME CompleteAgain PROVE Calm(Initiator)
      BY <3>2, StartCalm
    <3>. QED
      BY <2>1, <3>1, <3>2
  <2>2. CASE PairJoin \/ Approve \/ Reject
    <3>1. Calm(Joiner)
      BY <2>2, StartCalm
    <3>. QED
      BY <3>1
  <2>. QED
    BY <1>4, <2>1, <2>2
<1>5. ASSUME NEW h \in Host, TimesOut(h) PROVE Calm(h)
  BY <1>5, StartCalm
<1>6. ASSUME NEW h \in Host, PushRefused(h) \/ PushThrows(h) \/ RevokePush(h) \/ OtherPairing(h) \/ Crash(h)
      PROVE  Touches(h)
  BY <1>6 DEF Touches
<1>7. ASSUME NEW h \in Host, NEW a \in Agent, Revoke(h, a) PROVE Touches(h)
  BY <1>7 DEF Touches
<1>. QED
  BY <1>2, <1>3, <1>4, <1>5, <1>6, <1>7 DEF Next

-----------------------------------------------------------------------------
(* The other bonds                                                         *)

LEMMA OthersTouched ==
  ASSUME TypeInv, OthersKept, NEW h \in Host, Touches(h)
  PROVE  OthersKept'
<1>. USE HostFacts
<1>0. /\ allow \in [Host -> SUBSET Agent] /\ bonds \in [Host -> SUBSET Agent]
      /\ \A g \in Host : g # Third /\ Peer(g) # Third
  BY ThirdAssumption DEF TypeInv, TypeOK
<1>1. ASSUME NEW pc, Restore(h, pc), bonds' = bonds PROVE OthersKept'
  BY <1>0, <1>1 DEF Restore, OthersKept
<1>2. CASE Admits(h)
  BY <1>0, <1>2 DEF Admits, Admit, OthersKept
<1>3. CASE PushOk(h) \/ RestorePushed(h) \/ PushThrows(h) \/ RevokePush(h) \/ Crash(h)
  BY <1>3 DEF PushOk, RestorePushed, PushThrows, RevokePush, Crash, listHistory, OthersKept
<1>4. CASE PushRefused(h)
  BY <1>1, <1>4 DEF PushRefused
<1>5. CASE h = Initiator /\ InitiatorHearsFail
  BY <1>1, <1>5 DEF InitiatorHearsFail
<1>6. CASE (h = Initiator /\ InitiatorBonds) \/ (h = Joiner /\ JoinerBonds)
  BY <1>0, <1>6 DEF InitiatorBonds, JoinerBonds, listHistory, OthersKept
<1>7. CASE OtherPairing(h)
  BY <1>0, <1>7 DEF OtherPairing, OthersKept
<1>8. ASSUME NEW a \in Agent, Revoke(h, a) PROVE OthersKept'
  BY <1>0, <1>8 DEF Revoke, OthersKept
<1>9. CASE \E a \in Agent : Revoke(h, a)
  BY <1>8, <1>9
<1>. QED
  BY <1>9, <1>2, <1>3, <1>4, <1>5, <1>6, <1>7 DEF Touches

(* A host's other bonds stay in its allowlist, and revoked ones out of it, *)
(* through every pairing, failure, restart and revocation that no rollback *)
(* of pair_init or human_approve has undone.                               *)
THEOREM OthersSafety == Spec => []OthersKept
<1>1. Init => OthersKept
  BY DEF Init, OthersKept
<1>2. TypeInv /\ OthersKept /\ [Next]_vars => OthersKept'
  <2>1. SUFFICES ASSUME TypeInv, OthersKept, NEW h \in Host, Calm(h) \/ Touches(h)
                 PROVE  OthersKept'
    BY Steps
  <2>2. CASE Calm(h)
    <3>1. UNCHANGED <<allow, bonds, undone>>
      BY <2>2 DEF Calm, lists, listHistory
    <3>. QED
      BY <2>1, <3>1 DEF OthersKept
  <2>. QED
    BY <2>1, <2>2, OthersTouched
<1>. QED
  BY <1>1, <1>2, TypeInit, TypeStep, PTL DEF Spec

-----------------------------------------------------------------------------
(* Nobody is admitted unasked                                              *)

(* Before the human approved: no list has the peer, ...                    *)
Clean ==
  \A h \in Host :
    Peer(h) \notin allow[h] \cup admitted[h] \cup bonds[h] \cup flow[h].previous \cup revoking[h].list

(* ... the joiner has posted nothing but a reject, and the initiator's     *)
(* pairing, which waits for the joiner's pake, has got no further.         *)
Silent ==
  /\ flow[Joiner].pc \in {"off", "asked", "thrown", "reject", "done"}
  /\ flow[Initiator].pc \in {"off", "pake", "fail", "thrown", "done"}
  /\ slot # Empty /\ slot.from = Joiner => slot.phase = "reject"

AdmissionInv == ~approved => Clean /\ Silent

LEMMA CleanStep ==
  ASSUME TypeInv, Clean, Silent, NEW h \in Host, Calm(h) \/ Touches(h)
  PROVE  Clean'
<1>. USE HostFacts
<1>0. /\ allow \in [Host -> SUBSET Agent] /\ bonds \in [Host -> SUBSET Agent]
      /\ admitted \in [Host -> SUBSET Agent] /\ flow \in [Host -> Flow]
      /\ revoking \in [Host -> [list : SUBSET Agent, tries : 0 .. 2]]
      /\ \A g \in Host : flow[g] \in Flow /\ revoking[g] \in [list : SUBSET Agent, tries : 0 .. 2]
  BY DEF TypeInv, TypeOK
<1>1. flow[h].pc \in {"off", "asked", "pake", "reject", "fail", "thrown", "done"}
  BY DEF Silent, Host
<1>2. CASE Calm(h)
  BY <1>0, <1>2 DEF Calm, lists, Clean
<1>3. ~Admits(h) /\ ~PushOk(h) /\ ~PushRefused(h) /\ ~RestorePushed(h) /\ ~PushThrows(h)
      /\ ~(h = Initiator /\ (InitiatorHearsFail \/ InitiatorBonds)) /\ ~(h = Joiner /\ JoinerBonds)
  BY <1>1 DEF Admits, PushOk, PushRefused, RestorePushed, PushThrows, Pushing, At,
              InitiatorHearsFail, InitiatorBonds, JoinerBonds, Hears
<1>4. CASE RevokePush(h)
  <2>1. /\ UNCHANGED <<flow, allow, bonds>>
        /\ admitted' = admitted \/ admitted' = [admitted EXCEPT ![h] = revoking[h].list]
        /\ \A g \in Host : revoking'[g].list \in {revoking[g].list, {}}
    BY <1>0, <1>4 DEF RevokePush, NoRevoke
  <2>. QED
    BY <1>0, <2>1 DEF Clean
<1>5. CASE OtherPairing(h)
  BY <1>0, <1>5 DEF OtherPairing, Clean
<1>6. CASE Crash(h)
  <2>1. UNCHANGED <<allow, admitted, bonds>> /\ \A g \in Host : flow'[g].previous = flow[g].previous
    BY <1>0, <1>6 DEF Crash, Flow
  <2>2. \A g \in Host : revoking'[g].list \in {revoking[g].list, {}}
    BY <1>0, <1>6 DEF Crash, NoRevoke
  <2>. QED
    BY <2>1, <2>2 DEF Clean
<1>7. ASSUME NEW a \in Agent, Revoke(h, a) PROVE Clean'
  BY <1>0, <1>7 DEF Revoke, Clean
<1>. QED
  BY <1>2, <1>3, <1>4, <1>5, <1>6, <1>7 DEF Touches

(* A post that fails or rejects.                                           *)
LEMMA SilentPost ==
  ASSUME TypeInv, Silent, NEW h \in Host, NEW pc, NEW phase, NEW next \in Verdict,
         Post(h, pc, phase, next), h = Joiner => phase = "reject"
  PROVE  Silent'
<1>. USE HostFacts
<1>1. flow \in [Host -> Flow] /\ \A g \in Host : flow[g] \in Flow
  BY DEF TypeInv, TypeOK
<1>2. (\A g \in Host \ {h} : flow'[g] = flow[g]) /\ flow'[h].pc \in {"done", "thrown"}
  BY <1>1 DEF Post, Advance, Throw, Flow
<1>3. slot' = slot \/ slot' = Empty \/ (slot'.from = h /\ slot'.phase = phase)
  BY DEF Post, Stored
<1>. QED
  BY <1>2, <1>3 DEF Silent, Host

LEMMA SilentInitiator ==
  ASSUME TypeInv, Silent, InitiatorStep
  PROVE  Silent'
<1>. USE HostFacts
<1>1. flow \in [Host -> Flow] /\ \A g \in Host : flow[g] \in Flow
  BY DEF TypeInv, TypeOK
<1>2. CASE InitiatorHearsPake
  <2>1. slot \in Message /\ slot # Empty /\ slot' = [slot EXCEPT !.read = TRUE]
        /\ (slot.phase \in {"bond_fail", "reject"} \/ slot.from # Initiator)
        /\ slot.phase \in {"reject", "bond_fail", "pake"}
    BY <1>2 DEF InitiatorHearsPake, Hears, TypeInv, TypeOK
  <2>2. slot.phase # "pake" /\ slot'.from = slot.from /\ slot'.phase = slot.phase
    BY <2>1 DEF Silent, Message, Host
  <2>3. Advance(Initiator, "rejected") \/ Advance(Initiator, "pake_failed") \/ FailWith(Initiator, "pake_failed")
    BY <1>2, <2>2 DEF InitiatorHearsPake
  <2>4. flow'[Initiator].pc \in {"done", "fail"} /\ flow'[Joiner] = flow[Joiner]
    BY <1>1, <2>3 DEF Advance, FailWith, Verdict, Flow
  <2>. QED
    BY <2>1, <2>2, <2>4 DEF Silent
<1>3. CASE PostFail(Initiator)
  <2>1. flow[Initiator].verdict \in Verdict
    BY <1>3 DEF PostFail, Post, At, TypeInv, FailInv, Failed
  <2>. QED
    BY <1>3, <2>1, SilentPost DEF PostFail
<1>. QED
  BY <1>2, <1>3 DEF InitiatorStep, Silent, PostConfirm, InitiatorHearsOk, InitiatorPostsOk,
       InitiatorHearsFail, InitiatorBonds, PushOk, RestorePushed, Post, Hears, At

LEMMA SilentJoiner ==
  ASSUME TypeInv, Silent, JoinerStep
  PROVE  Silent'
<1>. USE HostFacts
<1>1. CASE PostReject
  BY <1>1, SilentPost DEF PostReject, Verdict
<1>. QED
  BY <1>1 DEF JoinerStep, Silent, JoinerHearsPake, PostPake, JoinerHearsConfirm, JoinerPostsOk,
       JoinerHearsOk, JoinerBonds, PushOk, RestorePushed, PostFail, Post, Hears, At

LEMMA SilentStep ==
  ASSUME TypeInv, Silent, ~approved', [Next]_vars
  PROVE  Silent'
<1>. USE HostFacts
<1>0. /\ flow \in [Host -> Flow] /\ \A g \in Host : flow[g] \in Flow
      /\ slot \in Message \cup {Empty}
  BY DEF TypeInv, TypeOK
<1>1. CASE UNCHANGED vars
  BY <1>1 DEF vars, Silent
<1>2. CASE InitiatorStep \/ JoinerStep
  BY <1>2, SilentInitiator, SilentJoiner
<1>3. CASE PairInit
  BY <1>0, <1>3 DEF PairInit, Silent, Flow
<1>4. CASE CompleteAgain
  BY <1>0, <1>4 DEF CompleteAgain, Advance, Silent, Flow, Verdict
<1>5. CASE PairJoin \/ Reject
  BY <1>0, <1>5 DEF PairJoin, Reject, Silent, Flow
<1>6. CASE Approve
  BY <1>0, <1>6 DEF Approve, Advance, Silent, Flow, Verdict
<1>7. CASE Lapse
  BY <1>7 DEF Lapse, Silent
<1>8. CASE Garble
  <2>1. slot \in Message
    BY <1>0, <1>8 DEF Garble
  <2>. QED
    BY <1>8, <2>1 DEF Garble, Silent, Message
<1>9. ASSUME NEW h \in Host, PushRefused(h) \/ PushThrows(h) PROVE Silent'
  BY <1>9 DEF PushRefused, PushThrows, Pushing, At, Silent, Host
<1>10. ASSUME NEW h \in Host, NEW a \in Agent, RevokePush(h) \/ OtherPairing(h) \/ Revoke(h, a) PROVE Silent'
  BY <1>10 DEF RevokePush, OtherPairing, Revoke, Silent
<1>11. ASSUME NEW h \in Host, TimesOut(h) PROVE Silent'
  <2>1. h = Initiator /\ Advance(h, "pake_failed") /\ slot' = slot
    BY <1>11 DEF TimesOut, At, Silent, Host
  <2>. QED
    BY <1>0, <2>1 DEF Advance, Verdict, Silent, Flow
<1>12. ASSUME NEW h \in Host, Crash(h) PROVE Silent'
  <2>1. CASE h = Joiner
    BY <1>0, <1>12, <2>1 DEF Crash, Silent, Flow
  <2>2. CASE h = Initiator
    BY <1>0, <1>12, <2>2 DEF Crash, Silent, Flow
  <2>. QED
    BY <2>1, <2>2 DEF Host
<1>. QED
  BY <1>1, <1>2, <1>3, <1>4, <1>5, <1>6, <1>7, <1>8, <1>9, <1>10, <1>11, <1>12, HostFacts DEF Next

LEMMA ApprovalStays ==
  ASSUME [Next]_vars, ~approved'
  PROVE  ~approved
BY DEF vars, Next, InitiatorStep, JoinerStep, InitiatorHearsPake, PostConfirm, InitiatorHearsOk,
   InitiatorPostsOk, InitiatorHearsFail, InitiatorBonds, PostFail, PushOk, RestorePushed, PostReject,
   JoinerHearsPake, PostPake, JoinerHearsConfirm, JoinerPostsOk, JoinerHearsOk, JoinerBonds, Post,
   PairInit, CompleteAgain, PairJoin, Approve, Reject, PushRefused, PushThrows, RevokePush,
   OtherPairing, TimesOut, Crash, Revoke, Lapse, Garble

(* Before the joiner's human has approved, no list of either host, nor the *)
(* relay's copy of one, has the other host.                                *)
THEOREM AdmissionSafety == Spec => []AdmittedNeedsApproval
<1>1. Init => AdmissionInv
  <2>. SUFFICES ASSUME Init PROVE AdmissionInv
    OBVIOUS
  <2>1. Clean
    BY HostFacts DEF Init, Clean, NoRevoke
  <2>2. Silent
    BY HostFacts DEF Init, Silent
  <2>. QED
    BY <2>1, <2>2 DEF AdmissionInv
<1>2. TypeInv /\ AdmissionInv /\ [Next]_vars => AdmissionInv'
  <2>. SUFFICES ASSUME TypeInv, AdmissionInv, [Next]_vars, ~approved' PROVE Clean' /\ Silent'
    BY DEF AdmissionInv
  <2>1. Clean /\ Silent
    BY ApprovalStays DEF AdmissionInv
  <2>2. PICK h \in Host : Calm(h) \/ Touches(h)
    BY Steps
  <2>. QED
    BY <2>1, <2>2, CleanStep, SilentStep
<1>3. AdmissionInv => AdmittedNeedsApproval
  BY DEF AdmissionInv, Clean, AdmittedNeedsApproval
<1>. QED
  BY <1>1, <1>2, <1>3, TypeInit, TypeStep, PTL DEF Spec

-----------------------------------------------------------------------------
(* The relay's copy                                                        *)

(* A step of one host leaves the other alone.                              *)
LEMMA Apart ==
  ASSUME TypeInv, NEW h \in Host, Calm(h) \/ Touches(h)
  PROVE  /\ \A g \in Host \ {h} :
              /\ flow'[g] = flow[g] /\ allow'[g] = allow[g] /\ admitted'[g] = admitted[g]
              /\ bonds'[g] = bonds[g] /\ revoking'[g] = revoking[g]
         /\ missed \subseteq missed' /\ thrown \subseteq thrown'
<1>. DEFINE Others == \A g \in Host \ {h} :
              /\ flow'[g] = flow[g] /\ allow'[g] = allow[g] /\ admitted'[g] = admitted[g]
              /\ bonds'[g] = bonds[g] /\ revoking'[g] = revoking[g]
            Grows == missed \subseteq missed' /\ thrown \subseteq thrown'
<1>0. /\ flow \in [Host -> Flow] /\ allow \in [Host -> SUBSET Agent] /\ bonds \in [Host -> SUBSET Agent]
      /\ admitted \in [Host -> SUBSET Agent] /\ revoking \in [Host -> [list : SUBSET Agent, tries : 0 .. 2]]
  BY DEF TypeInv, TypeOK
<1>1. CASE Calm(h)
  BY <1>1 DEF Calm, lists, listHistory
<1>2. CASE Admits(h)
  BY <1>0, <1>2 DEF Admits, Admit
<1>3. CASE PushOk(h)
  BY <1>0, <1>3 DEF PushOk, listHistory
<1>4. CASE PushRefused(h)
  BY <1>0, <1>4 DEF PushRefused, Restore
<1>5. CASE RestorePushed(h)
  BY <1>0, <1>5 DEF RestorePushed, FailWith, Advance
<1>6. CASE PushThrows(h)
  BY <1>0, <1>6 DEF PushThrows, Throw
<1>7. CASE h = Initiator /\ InitiatorHearsFail
  BY <1>0, <1>7 DEF InitiatorHearsFail, Restore
<1>8. CASE (h = Initiator /\ InitiatorBonds) \/ (h = Joiner /\ JoinerBonds)
  BY <1>0, <1>8 DEF InitiatorBonds, Advance, JoinerBonds, listHistory
<1>9. CASE RevokePush(h)
  BY <1>0, <1>9 DEF RevokePush
<1>10. CASE OtherPairing(h)
  BY <1>0, <1>10 DEF OtherPairing
<1>11. CASE Crash(h)
  BY <1>0, <1>11 DEF Crash
<1>12. CASE \E a \in Agent : Revoke(h, a)
  BY <1>0, <1>12 DEF Revoke
<1>. QED
  BY <1>1, <1>2, <1>3, <1>4, <1>5, <1>6, <1>7, <1>8, <1>9, <1>10, <1>11, <1>12 DEF Touches

(* What is about to be pushed is the list, and one push at a time is on    *)
(* its way, or something was missed.                                       *)
CopyOf(h) ==
  h \notin missed =>
    /\ ~InFlight(h) => admitted[h] = allow[h]
    /\ flow[h].pc = "push" => allow[h] = flow[h].previous \cup {Peer(h)}
    /\ flow[h].pc \in {"undo", "retract"} => allow[h] = flow[h].previous
    /\ flow[h].pc \in Pushing => revoking[h] = NoRevoke
    /\ revoking[h] # NoRevoke => revoking[h].list = allow[h]

LEMMA CopyCalm ==
  ASSUME TypeInv, NEW h \in Host, CopyOf(h), Calm(h)
  PROVE  CopyOf(h)'
<1>1. UNCHANGED <<allow, admitted, revoking, missed>> /\ flow'[h].previous = flow[h].previous
  BY DEF Calm, lists, listHistory
<1>2. flow'[h].pc = flow[h].pc \/ (flow[h].pc \notin Pushing /\ flow'[h].pc \notin Pushing)
  BY DEF Calm, Early, Pushing, At
<1>. QED
  BY <1>1, <1>2 DEF CopyOf, InFlight, Pushing

LEMMA CopyTouched ==
  ASSUME TypeInv, NEW h \in Host, CopyOf(h), Touches(h)
  PROVE  CopyOf(h)'
<1>. SUFFICES ASSUME h \notin missed' PROVE CopyOf(h)'
  BY DEF CopyOf
<1>0. /\ flow \in [Host -> Flow] /\ allow \in [Host -> SUBSET Agent] /\ flow[h] \in Flow
      /\ admitted \in [Host -> SUBSET Agent] /\ revoking \in [Host -> [list : SUBSET Agent, tries : 0 .. 2]]
      /\ revoking[h] \in [list : SUBSET Agent, tries : 0 .. 2]
  BY DEF TypeInv, TypeOK
<1>00. h \notin missed
  BY Apart
<1>1. CASE Admits(h)
  BY <1>0, <1>1 DEF Admits, Admit, CopyOf, InFlight, Pushing, Flow
<1>2. CASE PushOk(h)
  <2>1. /\ flow'[h].pc \in {"tell", "add"} /\ admitted'[h] = allow[h] /\ revoking'[h] = NoRevoke
        /\ allow'[h] = allow[h]
    BY <1>0, <1>00, <1>2 DEF PushOk, CopyOf, Flow, At, Pushing
  <2>. QED
    BY <2>1 DEF CopyOf, InFlight, Pushing
<1>13. ASSUME NEW pc \in {"undo", "retract"}, Restore(h, pc), revoking' = revoking, revoking[h] = NoRevoke
       PROVE  CopyOf(h)'
  <2>1. flow'[h].pc = pc /\ flow'[h].previous = flow[h].previous /\ allow'[h] = flow[h].previous
    BY <1>0, <1>13 DEF Restore, Flow
  <2>. QED
    BY <1>13, <2>1 DEF CopyOf, InFlight, Pushing
<1>3. CASE PushRefused(h)
  BY <1>3, <1>13 DEF PushRefused
<1>4. CASE RestorePushed(h)
  <2>1. /\ flow'[h].pc \in {"fail", "done"} /\ admitted'[h] = allow[h] /\ revoking'[h] = NoRevoke
        /\ allow'[h] = allow[h]
    BY <1>0, <1>00, <1>4 DEF RestorePushed, FailWith, Advance, Verdict, CopyOf, Flow, Pushing
  <2>. QED
    BY <2>1 DEF CopyOf, InFlight, Pushing
<1>5. CASE PushThrows(h)
  BY <1>5 DEF PushThrows
<1>6. CASE h = Initiator /\ InitiatorHearsFail
  BY <1>6, <1>13 DEF InitiatorHearsFail
<1>7. CASE (h = Initiator /\ InitiatorBonds) \/ (h = Joiner /\ JoinerBonds)
  <2>1. /\ flow'[h].pc = "done" /\ flow[h].pc \in {"listen", "add"}
        /\ UNCHANGED <<admitted, revoking, allow>>
    BY <1>0, <1>7 DEF InitiatorBonds, JoinerBonds, Advance, Verdict, Flow, At
  <2>. QED
    BY <1>00, <2>1 DEF CopyOf, InFlight, Pushing
<1>8. CASE RevokePush(h)
  <2>0. UNCHANGED <<flow, allow>> /\ revoking[h] # NoRevoke
    BY <1>8 DEF RevokePush
  <2>1. flow[h].pc \notin Pushing /\ revoking[h].list = allow[h]
    BY <1>00, <2>0 DEF CopyOf
  <2>2. CASE admitted' = [admitted EXCEPT ![h] = revoking[h].list] /\ revoking' = [revoking EXCEPT ![h] = NoRevoke]
    BY <1>0, <2>0, <2>1, <2>2 DEF CopyOf, InFlight, Pushing
  <2>3. CASE revoking[h].tries = 2 /\ revoking' = [revoking EXCEPT ![h].tries = 1]
    <3>1. revoking'[h].list = allow[h] /\ revoking'[h].tries = 1
      BY <1>0, <2>1, <2>3
    <3>2. revoking'[h] # NoRevoke
      BY <3>1 DEF NoRevoke
    <3>. QED
      BY <2>0, <2>1, <3>1, <3>2 DEF CopyOf, InFlight, Pushing
  <2>. QED
    BY <1>8, <2>2, <2>3 DEF RevokePush
<1>9. CASE OtherPairing(h)
  BY <1>0, <1>9 DEF OtherPairing, CopyOf, InFlight, Pushing
<1>10. CASE Crash(h)
  <2>1. ~InFlight(h) /\ UNCHANGED <<allow, admitted>> /\ revoking'[h] = NoRevoke
    BY <1>0, <1>10 DEF Crash
  <2>2. flow'[h].pc \in {"off", "done"}
    BY <1>0, <1>10 DEF Crash, At, Flow
  <2>. QED
    BY <1>00, <2>1, <2>2 DEF CopyOf, InFlight, Pushing
<1>11. ASSUME NEW a \in Agent, Revoke(h, a) PROVE CopyOf(h)'
  <2>1. flow[h].pc \notin Pushing /\ flow' = flow
    BY <1>11 DEF Revoke, InFlight
  <2>2. revoking'[h] = [list |-> allow'[h], tries |-> 2]
    BY <1>0, <1>11 DEF Revoke
  <2>3. revoking'[h].list = allow'[h] /\ revoking'[h].tries = 2
    BY <2>2
  <2>4. revoking'[h] # NoRevoke
    BY <2>3 DEF NoRevoke
  <2>. QED
    BY <2>1, <2>3, <2>4 DEF CopyOf, InFlight, Pushing
<1>12. CASE \E a \in Agent : Revoke(h, a)
  BY <1>11, <1>12
<1>. QED
  BY <1>1, <1>2, <1>3, <1>4, <1>5, <1>6, <1>7, <1>8, <1>9, <1>10, <1>12 DEF Touches

(* With no push on its way, the relay admits for a host whom the host's    *)
(* own allowlist names, unless a push failed or two overlapped.            *)
THEOREM RelayCopySafety == Spec => []RelayCopyAgrees
<1>. DEFINE CopyInv == \A g \in Host : CopyOf(g)
<1>1. Init => CopyInv
  BY DEF Init, CopyOf, InFlight, Pushing
<1>2. TypeInv /\ CopyInv /\ [Next]_vars => CopyInv'
  <2>. SUFFICES ASSUME TypeInv, CopyInv, NEW h \in Host, Calm(h) \/ Touches(h), NEW g \in Host
                PROVE  CopyOf(g)'
    BY Steps
  <2>1. CASE g = h
    BY <2>1, CopyCalm, CopyTouched
  <2>2. CASE g # h
    <3>1. /\ flow'[g] = flow[g] /\ allow'[g] = allow[g] /\ admitted'[g] = admitted[g]
          /\ revoking'[g] = revoking[g] /\ missed \subseteq missed'
      BY <2>2, Apart
    <3>. QED
      BY <3>1 DEF CopyOf, InFlight
  <2>. QED
    BY <2>1, <2>2
<1>3. CopyInv => RelayCopyAgrees
  BY DEF CopyOf, RelayCopyAgrees
<1>. HIDE DEF CopyInv
<1>. QED
  BY <1>1, <1>2, <1>3, TypeInit, TypeStep, PTL DEF Spec

-----------------------------------------------------------------------------
(* A pairing that failed leaves nothing                                    *)

Bonded(h) == flow[h].pc = "done" /\ flow[h].verdict = "bonded"

(* Where the allowlist may have the peer, ...                              *)
Holding(h) == flow[h].pc \in {"push", "tell", "listen", "add"} \/ Bonded(h)

(* ... and where the relay's copy may.                                     *)
Shown(h) == flow[h].pc \in {"tell", "listen", "add", "retract"} \/ Bonded(h)

LeavesNothing(h) ==
  h \notin thrown =>
    /\ flow[h].pc \in {"push", "tell", "listen", "undo", "retract"} => Peer(h) \notin flow[h].previous
    /\ ~Holding(h) => Peer(h) \notin allow[h]
    /\ ~Bonded(h) => Peer(h) \notin bonds[h]
    /\ Peer(h) \in admitted[h] => Shown(h) \/ h \in missed
    /\ Peer(h) \in revoking[h].list => (Shown(h) /\ flow[h].pc # "retract") \/ h \in missed
    /\ flow[h].pc = "add" => flow[h].verdict = "bonded"
    /\ flow[h].pc # "thrown"

LEMMA NothingCalm ==
  ASSUME TypeInv, NEW h \in Host, LeavesNothing(h), Calm(h)
  PROVE  LeavesNothing(h)'
<1>. SUFFICES ASSUME h \notin thrown' PROVE LeavesNothing(h)'
  BY DEF LeavesNothing
<1>1. UNCHANGED <<allow, admitted, bonds, revoking, missed>> /\ flow'[h].previous = flow[h].previous
      /\ h \notin thrown
  BY DEF Calm, lists, listHistory
<1>2. CASE flow'[h] = flow[h]
  BY <1>1, <1>2 DEF LeavesNothing, Holding, Shown, Bonded
<1>3. CASE flow[h].pc = "tell" /\ flow'[h].pc = "listen"
  BY <1>1, <1>3 DEF LeavesNothing, Holding, Shown, Bonded
<1>4. CASE /\ flow[h].pc \in Early
           /\ flow'[h].pc \in Early \/ (flow'[h].pc = "done" /\ flow'[h].verdict \in Failed)
  BY <1>1, <1>4 DEF LeavesNothing, Holding, Shown, Bonded, Early, Failed
<1>. QED
  BY <1>1, <1>2, <1>3, <1>4 DEF Calm, At, LeavesNothing

LEMMA NothingTouched ==
  ASSUME TypeInv, NEW h \in Host, LeavesNothing(h), Touches(h)
  PROVE  LeavesNothing(h)'
<1>. SUFFICES ASSUME h \notin thrown' PROVE LeavesNothing(h)'
  BY DEF LeavesNothing
<1>0. /\ flow \in [Host -> Flow] /\ allow \in [Host -> SUBSET Agent] /\ flow[h] \in Flow
      /\ bonds \in [Host -> SUBSET Agent]
      /\ admitted \in [Host -> SUBSET Agent] /\ revoking \in [Host -> [list : SUBSET Agent, tries : 0 .. 2]]
      /\ revoking[h] \in [list : SUBSET Agent, tries : 0 .. 2]
  BY DEF TypeInv, TypeOK
<1>00. h \notin thrown /\ missed \subseteq missed' /\ Peer(h) \in Agent /\ Peer(h) # Third
  BY Apart, HostFacts
<1>1. CASE Admits(h)
  <2>1. /\ flow[h].pc = "ok" /\ flow'[h].pc = "push" /\ flow'[h].previous = allow[h]
        /\ UNCHANGED <<admitted, bonds, revoking>>
    BY <1>0, <1>1 DEF Admits, Admit, At, Flow
  <2>. QED
    BY <1>00, <2>1 DEF LeavesNothing, Holding, Shown, Bonded
<1>2. CASE PushOk(h)
  <2>1. /\ flow[h].pc = "push" /\ flow'[h].previous = flow[h].previous
        /\ flow'[h].pc = "tell" \/ (flow'[h].pc = "add" /\ flow'[h].verdict = "bonded")
        /\ UNCHANGED <<allow, bonds, revoking, missed>>
    BY <1>0, <1>2 DEF PushOk, listHistory, At, Flow
  <2>. QED
    BY <1>00, <2>1 DEF LeavesNothing, Holding, Shown, Bonded
<1>3. CASE PushRefused(h)
  <2>1. /\ flow[h].pc = "push" /\ flow'[h].pc = "undo" /\ flow'[h].previous = flow[h].previous
        /\ allow'[h] = flow[h].previous /\ UNCHANGED <<admitted, bonds, revoking>>
    BY <1>0, <1>3 DEF PushRefused, Restore, At, Flow
  <2>. QED
    BY <1>00, <2>1 DEF LeavesNothing, Holding, Shown, Bonded
<1>4. CASE RestorePushed(h)
  <2>1. /\ flow[h].pc \in {"undo", "retract"} /\ flow'[h].pc \in {"fail", "done"}
        /\ flow'[h].verdict = "rolled_back" /\ UNCHANGED <<allow, bonds, revoking>>
    BY <1>0, <1>4 DEF RestorePushed, FailWith, Advance, Verdict, Flow
  <2>2. admitted'[h] = flow[h].previous \/ h \in missed'
    BY <1>0, <1>4 DEF RestorePushed
  <2>. QED
    BY <1>00, <2>1, <2>2 DEF LeavesNothing, Holding, Shown, Bonded
<1>5. CASE PushThrows(h)
  BY <1>5 DEF PushThrows, Throw
<1>6. CASE h = Initiator /\ InitiatorHearsFail
  <2>1. /\ flow[h].pc = "listen" /\ flow'[h].pc = "retract" /\ flow'[h].previous = flow[h].previous
        /\ allow'[h] = flow[h].previous /\ UNCHANGED <<admitted, bonds, revoking>>
    BY <1>0, <1>6 DEF InitiatorHearsFail, Hears, Restore, At, Flow
  <2>2. revoking[h].list = {} \/ h \in missed'
    BY <1>6 DEF InitiatorHearsFail, NoRevoke
  <2>. QED
    BY <1>00, <2>1, <2>2 DEF LeavesNothing, Holding, Shown, Bonded
<1>7. CASE (h = Initiator /\ InitiatorBonds) \/ (h = Joiner /\ JoinerBonds)
  <2>1. /\ flow[h].pc \in {"listen", "add"} /\ flow'[h].pc = "done" /\ thrown' = thrown
        /\ flow'[h].verdict = "bonded" \/ (flow[h].pc = "add" /\ flow'[h].verdict = flow[h].verdict)
    BY <1>0, <1>7 DEF InitiatorBonds, JoinerBonds, Advance, Verdict, Flow, At
  <2>2. Bonded(h)'
    BY <1>00, <2>1 DEF Bonded, LeavesNothing
  <2>. QED
    BY <2>1, <2>2 DEF LeavesNothing, Holding, Shown, Bonded
<1>8. CASE RevokePush(h)
  <2>1. /\ UNCHANGED <<flow, allow, bonds>>
        /\ admitted'[h] \in {admitted[h], revoking[h].list}
        /\ revoking'[h].list \in {{}, revoking[h].list}
    BY <1>0, <1>8 DEF RevokePush, NoRevoke
  <2>. QED
    BY <1>00, <2>1 DEF LeavesNothing, Holding, Shown, Bonded
<1>9. CASE OtherPairing(h)
  <2>1. /\ UNCHANGED <<flow, revoking>> /\ allow'[h] = allow[h] \cup {Third}
        /\ bonds'[h] = bonds[h] \cup {Third} /\ admitted'[h] = allow'[h]
        /\ InFlight(h) => h \in missed'
    BY <1>0, <1>9 DEF OtherPairing
  <2>2. Peer(h) \in allow'[h] => Shown(h)' \/ h \in missed'
    BY <1>00, <2>1 DEF LeavesNothing, Holding, Shown, Bonded, InFlight, Pushing
  <2>. QED
    BY <1>00, <2>1, <2>2 DEF LeavesNothing, Holding, Shown, Bonded
<1>10. CASE Crash(h)
  BY <1>10 DEF Crash
<1>11. ASSUME NEW a \in Agent, Revoke(h, a) PROVE LeavesNothing(h)'
  <2>1. /\ UNCHANGED <<flow, admitted>> /\ allow'[h] = allow[h] \ {a} /\ bonds'[h] = bonds[h] \ {a}
        /\ revoking'[h].list = allow'[h]
        /\ InFlight(h) => h \in missed'
    BY <1>0, <1>11 DEF Revoke
  <2>2. Peer(h) \in allow'[h] => (Shown(h)' /\ flow'[h].pc # "retract") \/ h \in missed'
    BY <1>00, <2>1 DEF LeavesNothing, Holding, Shown, Bonded, InFlight, Pushing
  <2>. QED
    BY <1>00, <2>1, <2>2 DEF LeavesNothing, Holding, Shown, Bonded
<1>12. CASE \E a \in Agent : Revoke(h, a)
  BY <1>11, <1>12
<1>. QED
  BY <1>1, <1>2, <1>3, <1>4, <1>5, <1>6, <1>7, <1>8, <1>9, <1>10, <1>12 DEF Touches

(* A pairing that ended without a bond, and without throwing, leaves no    *)
(* bond and no admission of the peer, at the relay unless a push failed.   *)
THEOREM FailureSafety == Spec => []FailureLeavesNothing
<1>. DEFINE FailureInv == \A g \in Host : LeavesNothing(g)
<1>1. Init => FailureInv
  BY HostFacts DEF Init, LeavesNothing, Holding, Shown, Bonded, NoRevoke
<1>2. TypeInv /\ FailureInv /\ [Next]_vars => FailureInv'
  <2>. SUFFICES ASSUME TypeInv, FailureInv, NEW h \in Host, Calm(h) \/ Touches(h), NEW g \in Host
                PROVE  LeavesNothing(g)'
    BY Steps
  <2>1. CASE g = h
    BY <2>1, NothingCalm, NothingTouched
  <2>2. CASE g # h
    <3>1. /\ flow'[g] = flow[g] /\ allow'[g] = allow[g] /\ admitted'[g] = admitted[g]
          /\ bonds'[g] = bonds[g] /\ revoking'[g] = revoking[g]
          /\ missed \subseteq missed' /\ thrown \subseteq thrown'
      BY <2>2, Apart
    <3>. QED
      BY <3>1 DEF LeavesNothing, Holding, Shown, Bonded
  <2>. QED
    BY <2>1, <2>2
<1>3. FailureInv => FailureLeavesNothing
  BY DEF LeavesNothing, FailureLeavesNothing, Holding, Shown, Bonded, At
<1>. HIDE DEF FailureInv
<1>. QED
  BY <1>1, <1>2, <1>3, TypeInit, TypeStep, PTL DEF Spec
=============================================================================
