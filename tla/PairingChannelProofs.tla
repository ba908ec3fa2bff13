------------------------ MODULE PairingChannelProofs ------------------------
(***************************************************************************)
(* Theorems about the exchange of Pairing over its one slot: no message    *)
(* but a bond_fail or a reject is replaced unread, and a bonded joiner is  *)
(* one that the initiator has admitted.  Both rest on one invariant, that  *)
(* says for each message in the slot where the two pairings may be, and    *)
(* for each of the five places to post from what the slot may hold.        *)
(***************************************************************************)
EXTENDS PairingProofs

-----------------------------------------------------------------------------
(* Whose turn it is                                                        *)

(* Where the two pairings are.                                             *)
InitiatorPc == flow[Initiator].pc
JoinerPc == flow[Joiner].pc

(* Slot s has a message of this phase that h posted; one that h has read.  *)
Has(s, phase, h) == s # Empty /\ s.phase = phase /\ s.from = h
HasRead(s, phase, h) == Has(s, phase, h) /\ s.read
Final(s) == s # Empty /\ s.phase \in {"bond_fail", "reject"}

(* The joiner has posted nothing yet since it was asked (again).           *)
Idle == {"off", "asked", "thrown", "pake", "reject", "done"}

(* The initiator at i, the joiner at j.  A message of the exchange in the  *)
(* slot bounds where both are; a host about to post the next one finds the *)
(* one it has read, or none, and a peer that cannot post before it does,   *)
(* but for a bond_fail or a reject.                                        *)
Turns(s, i, j) ==
  /\ i = "off" => s = Empty /\ j = "off"
  /\ (Has(s, "pake", Initiator) \/ j = "answer") => i \in {"pake", "done"}
  /\ j = "answer" => s = Empty \/ HasRead(s, "pake", Initiator)
  /\ Has(s, "pake", Joiner) => /\ i \in {"pake", "answer", "fail", "thrown", "done"}
                               /\ j \in Idle \cup {"confirm", "fail"}
  /\ i = "answer" => /\ s = Empty \/ Final(s) \/ HasRead(s, "pake", Joiner)
                     /\ j \in Idle \cup {"confirm", "fail"}
  /\ Has(s, "confirm", Initiator) => /\ i \in {"ok", "thrown", "pake", "done"}
                                     /\ j \in Idle \cup {"confirm", "fail", "agree"}
  /\ j = "agree" => /\ s = Empty \/ HasRead(s, "confirm", Initiator)
                    /\ i \in {"ok", "thrown", "pake", "done"}
  /\ Has(s, "bond_ok", Joiner) => /\ i \in {"ok", "push", "undo", "fail", "tell",
                                            "thrown", "pake", "done"}
                                  /\ j \in Idle \cup {"ok"}
  /\ i \in {"push", "tell"} => /\ s = Empty \/ Final(s) \/ HasRead(s, "bond_ok", Joiner)
                               /\ j \in Idle \cup {"ok"}

TurnInv == Turns(slot, InitiatorPc, JoinerPc)

-----------------------------------------------------------------------------
(* The moves of the exchange                                               *)

(* The slot is lost, garbled or read, at most.                             *)
Held(s, t) ==
  \/ t = Empty \/ t = s
  \/ /\ s # Empty /\ t # Empty
     /\ t.phase = s.phase /\ t.from = s.from /\ (s.read => t.read)

(* With s in the slot, the initiator goes from i to k without a post, ...  *)
InitiatorGoes(s, i, k) ==
  \/ k = i
  \/ k = "done" /\ i # "off"
  \/ k = "thrown" /\ i \in Posting \cup Pushing
  \/ k = "pake" /\ i = "thrown"
  \/ k \in {"answer", "fail"} /\ i = "pake" /\ HasRead(s, "pake", Joiner)
  \/ k \in {"push", "fail"} /\ i = "ok" /\ HasRead(s, "bond_ok", Joiner)
  \/ k \in {"tell", "undo"} /\ i = "push"
  \/ k = "fail" /\ i \in {"undo", "confirm"}
  \/ k = "retract" /\ i = "listen"

(* ... the joiner from j to k, while the initiator is at i.                *)
JoinerGoes(s, i, j, k) ==
  \/ k = j
  \/ k = "off"
  \/ k = "done" /\ j # "off"
  \/ k = "thrown" /\ j \in Posting \cup Pushing
  \/ k = "asked" /\ i # "off"
  \/ k \in {"pake", "reject"} /\ j \in {"asked", "thrown"}
  \/ k = "answer" /\ j = "pake" /\ HasRead(s, "pake", Initiator)
  \/ k = "agree" /\ j = "confirm" /\ HasRead(s, "confirm", Initiator)
  \/ k = "fail" /\ j \in {"undo", "confirm"}
  \/ k = "push" /\ j = "ok" /\ HasRead(s, "bond_ok", Initiator)
  \/ k \in {"add", "undo"} /\ j = "push"

(* Host h posts at pc and goes on to k, or throws.                         *)
Speaks(h, pc, phase, k) ==
  /\ flow[h].pc = pc /\ flow'[Peer(h)].pc = flow[Peer(h)].pc
  /\ flow'[h].pc \in {k, "thrown"}
  /\ \/ slot' = Empty
     \/ slot' = slot /\ flow'[h].pc = "thrown"
     \/ Has(slot', phase, h)

Move ==
  \/ /\ Held(slot, slot')
     /\ \/ InitiatorGoes(slot', InitiatorPc, InitiatorPc') /\ JoinerPc' = JoinerPc
        \/ JoinerGoes(slot', InitiatorPc, JoinerPc, JoinerPc') /\ InitiatorPc' = InitiatorPc
  \/ /\ InitiatorPc = "off" /\ InitiatorPc' = "pake" /\ JoinerPc' = JoinerPc
     /\ Has(slot', "pake", Initiator)
  \/ \E k \in {"ok", "done"} : Speaks(Initiator, "answer", "confirm", k)
  \/ Speaks(Initiator, "tell", "bond_ok", "listen")
  \/ Speaks(Joiner, "answer", "pake", "confirm")
  \/ Speaks(Joiner, "agree", "bond_ok", "ok")
  \/ Speaks(Joiner, "reject", "reject", "done")
  \/ \E h \in Host : Speaks(h, "fail", "bond_fail", "done")

(* The pairing of h goes to pc, the other host's stays where it is.        *)
Moved(h, pc) == flow'[h].pc = pc /\ flow'[Peer(h)].pc = flow[Peer(h)].pc

LEMMA PcMoves ==
  ASSUME TypeInv, NEW h \in Host, NEW pc, NEW v, NEW x,
         \/ Advance(h, pc) /\ pc \notin Verdict
         \/ Advance(h, v) /\ v \in Verdict /\ pc = "done"
         \/ FailWith(h, v) /\ pc = "fail"
         \/ Throw(h) /\ pc = "thrown"
         \/ flow' = [flow EXCEPT ![h].pc = pc]
         \/ flow' = [flow EXCEPT ![h].pc = pc, ![h].verdict = v]
         \/ flow' = [flow EXCEPT ![h].pc = pc, ![h].sound = x]
         \/ flow' = [flow EXCEPT ![h].pc = pc, ![h].previous = x]
  PROVE  Moved(h, pc)
<1>1. flow \in [Host -> Flow] /\ flow[h] \in Flow /\ Peer(h) \in Host /\ Peer(h) # h
  BY HostFacts DEF TypeInv, TypeOK
<1>2. \/ flow' = [flow EXCEPT ![h].pc = pc]
      \/ flow' = [flow EXCEPT ![h].pc = pc, ![h].verdict = v]
      \/ flow' = [flow EXCEPT ![h].pc = pc, ![h].sound = x]
      \/ flow' = [flow EXCEPT ![h].pc = pc, ![h].previous = x]
  BY DEF Advance, FailWith, Throw
<1>. QED
  BY <1>1, <1>2 DEF Moved, Flow

LEMMA HeardSlot ==
  ASSUME TypeInv, NEW h \in Host, NEW pc, NEW phases, Hears(h, pc, phases)
  PROVE  /\ Held(slot, slot') /\ flow[h].pc = pc
         /\ slot.phase \in phases /\ slot \in Message
         /\ slot.phase \notin {"bond_fail", "reject"} => HasRead(slot', slot.phase, Peer(h))
<1>1. slot \in Message /\ slot # Empty /\ slot' = [slot EXCEPT !.read = TRUE]
      /\ slot.phase \in phases /\ flow[h].pc = pc
      /\ (slot.phase \in {"bond_fail", "reject"} \/ slot.from # h)
  BY HearsType DEF Hears, At
<1>2. slot' \in Message /\ slot'.phase = slot.phase /\ slot'.from = slot.from /\ slot'.read
  BY <1>1 DEF Message
<1>3. slot' # Empty
  BY <1>2 DEF Message, Phase, Empty
<1>4. slot.from \in Host /\ (slot.from # h => slot.from = Peer(h))
  BY <1>1 DEF Message, Host, Peer
<1>. QED
  BY <1>1, <1>2, <1>3, <1>4 DEF Held, Has, HasRead

LEMMA PostSpeaks ==
  ASSUME TypeInv, NEW h \in Host, NEW pc, NEW phase, phase # "none", NEW next,
         Post(h, pc, phase, next)
  PROVE  Speaks(h, pc, phase, IF next \in Verdict THEN "done" ELSE next)
<1>. DEFINE m == [phase |-> phase, from |-> h, good |-> flow[h].sound, read |-> FALSE]
<1>1. Has(m, phase, h) /\ flow[h].pc = pc
  BY DEF Has, Empty, Post, At
<1>. HIDE DEF m
<1>2. CASE slot' \in Stored(m) /\ Advance(h, next)
  <2>1. Moved(h, IF next \in Verdict THEN "done" ELSE next)
    BY <1>2, PcMoves
  <2>. QED
    BY <1>1, <1>2, <2>1 DEF Moved, Speaks, Stored
<1>3. CASE slot' \in Stored(m) \cup {slot} /\ Throw(h)
  <2>1. Moved(h, "thrown")
    BY <1>3, PcMoves
  <2>. QED
    BY <1>1, <1>3, <2>1 DEF Moved, Speaks, Stored
<1>. QED
  BY <1>2, <1>3 DEF Post, m

LEMMA InitiatorMoves ==
  ASSUME TypeInv, InitiatorStep
  PROVE  Move
<1>. USE HostFacts DEF InitiatorPc, JoinerPc
<1>0. Peer(Initiator) = Joiner /\ Peer(Joiner) = Initiator
      /\ {"rejected", "pake_failed", "rolled_back", "expired", "bonded"} \subseteq Verdict
      /\ {"answer", "listen", "ok"} \cap Verdict = {}
  BY DEF Peer, Verdict
<1>1. ASSUME NEW pc, Moved(Initiator, pc), Held(slot, slot'), InitiatorGoes(slot', InitiatorPc, pc)
      PROVE  Move
  BY <1>0, <1>1 DEF Moved, Move
<1>2. CASE InitiatorHearsPake
  <2>1. PICK pc \in {"done", "answer", "fail"} :
          Moved(Initiator, pc) /\ (pc # "done" => slot.phase = "pake")
    <3>1. \/ Advance(Initiator, "rejected")
          \/ Advance(Initiator, "pake_failed")
          \/ Advance(Initiator, "answer") /\ slot.phase = "pake"
          \/ FailWith(Initiator, "pake_failed") /\ slot.phase = "pake"
      BY <1>2 DEF InitiatorHearsPake, Hears
    <3>. QED
      BY <1>0, <3>1, PcMoves
  <2>2. Hears(Initiator, "pake", {"reject", "bond_fail", "pake"})
    BY <1>2 DEF InitiatorHearsPake
  <2>. QED
    BY <1>0, <1>1, <2>1, <2>2, HeardSlot DEF InitiatorGoes
<1>3. CASE PostConfirm
  BY <1>0, <1>3, PostSpeaks DEF PostConfirm, Move
<1>4. CASE InitiatorHearsOk
  <2>1. Hears(Initiator, "ok", {"bond_fail", "bond_ok"})
    BY <1>4 DEF InitiatorHearsOk
  <2>2. PICK pc \in {"done", "push", "fail"} :
          Moved(Initiator, pc) /\ (pc # "done" => slot.phase = "bond_ok")
    <3>1. \/ Advance(Initiator, "rolled_back")
          \/ Admit(Initiator) /\ slot.phase = "bond_ok"
          \/ FailWith(Initiator, "rolled_back") /\ slot.phase = "bond_ok"
      BY <1>4, <2>1 DEF InitiatorHearsOk, Hears
    <3>. QED
      BY <1>0, <3>1, PcMoves DEF Admit
  <2>. QED
    BY <1>0, <1>1, <2>1, <2>2, HeardSlot DEF InitiatorGoes
<1>5. CASE InitiatorPostsOk
  BY <1>0, <1>5, PostSpeaks DEF InitiatorPostsOk, Move
<1>6. CASE InitiatorHearsFail
  <2>1. Hears(Initiator, "listen", {"bond_fail"}) /\ Moved(Initiator, "retract")
    BY <1>6, PcMoves DEF InitiatorHearsFail, Restore
  <2>. QED
    BY <1>1, <2>1, HeardSlot DEF InitiatorGoes
<1>7. CASE InitiatorBonds
  <2>1. InitiatorPc = "listen" /\ slot' = slot /\ Moved(Initiator, "done")
    BY <1>0, <1>7, PcMoves DEF InitiatorBonds, At
  <2>. QED
    BY <1>1, <2>1 DEF InitiatorGoes, Held
<1>8. CASE PostFail(Initiator)
  <2>1. flow[Initiator].verdict \in Verdict
    BY <1>8 DEF PostFail, Post, At, TypeInv, FailInv, Failed
  <2>2. Speaks(Initiator, "fail", "bond_fail", "done")
    BY <1>8, <2>1, PostSpeaks DEF PostFail
  <2>. QED
    BY <2>2 DEF Move
<1>9. CASE PushOk(Initiator)
  <2>1. InitiatorPc = "push" /\ slot' = slot /\ Moved(Initiator, "tell")
    BY <1>9, PcMoves DEF PushOk, At
  <2>. QED
    BY <1>1, <2>1 DEF InitiatorGoes, Held
<1>10. CASE RestorePushed(Initiator)
  <2>1. /\ InitiatorPc \in {"undo", "retract"} /\ slot' = slot
        /\ Moved(Initiator, "done") \/ (InitiatorPc = "undo" /\ Moved(Initiator, "fail"))
    BY <1>0, <1>10, PcMoves DEF RestorePushed, At
  <2>. QED
    BY <1>1, <2>1 DEF InitiatorGoes, Held
<1>. QED
  BY <1>2, <1>3, <1>4, <1>5, <1>6, <1>7, <1>8, <1>9, <1>10 DEF InitiatorStep

LEMMA JoinerMoves ==
  ASSUME TypeInv, JoinerStep
  PROVE  Move
<1>. USE HostFacts DEF InitiatorPc, JoinerPc
<1>0. Peer(Initiator) = Joiner /\ Peer(Joiner) = Initiator
      /\ {"rejected", "pake_failed", "rolled_back", "expired", "bonded"} \subseteq Verdict
      /\ {"answer", "listen", "ok", "agree", "confirm"} \cap Verdict = {}
  BY DEF Peer, Verdict
<1>1. ASSUME NEW pc, Moved(Joiner, pc), Held(slot, slot'),
             JoinerGoes(slot', InitiatorPc, JoinerPc, pc)
      PROVE  Move
  BY <1>0, <1>1 DEF Moved, Move
<1>2. CASE PostReject
  BY <1>0, <1>2, PostSpeaks DEF PostReject, Move
<1>3. CASE JoinerHearsPake
  <2>1. Hears(Joiner, "pake", {"pake"}) /\ (Moved(Joiner, "answer") \/ Moved(Joiner, "done"))
    BY <1>0, <1>3, PcMoves DEF JoinerHearsPake
  <2>. QED
    BY <1>0, <1>1, <2>1, HeardSlot DEF JoinerGoes
<1>4. CASE PostPake
  BY <1>0, <1>4, PostSpeaks DEF PostPake, Move
<1>5. CASE JoinerHearsConfirm
  <2>1. PICK pc \in {"done", "agree", "fail"} :
          Moved(Joiner, pc) /\ (pc = "agree" => slot.phase = "confirm")
    <3>1. \/ Advance(Joiner, "rolled_back")
          \/ Advance(Joiner, "agree") /\ slot.phase = "confirm"
          \/ FailWith(Joiner, "pake_failed")
      BY <1>5 DEF JoinerHearsConfirm
    <3>. QED
      BY <1>0, <3>1, PcMoves
  <2>2. Hears(Joiner, "confirm", {"bond_fail", "confirm"})
    BY <1>5 DEF JoinerHearsConfirm
  <2>. QED
    BY <1>0, <1>1, <2>1, <2>2, HeardSlot DEF JoinerGoes
<1>6. CASE JoinerPostsOk
  BY <1>0, <1>6, PostSpeaks DEF JoinerPostsOk, Move
<1>7. CASE JoinerHearsOk
  <2>1. Hears(Joiner, "ok", {"bond_fail", "bond_ok"})
    BY <1>7 DEF JoinerHearsOk
  <2>2. Moved(Joiner, "done") \/ (Moved(Joiner, "push") /\ slot.phase = "bond_ok")
    <3>1. CASE Advance(Joiner, "rolled_back")
      BY <1>0, <3>1, PcMoves
    <3>2. CASE Admit(Joiner) /\ slot.phase = "bond_ok"
      BY <3>2, PcMoves DEF Admit
    <3>. QED
      BY <1>7, <3>1, <3>2 DEF JoinerHearsOk
  <2>. QED
    BY <1>0, <1>1, <2>1, <2>2, HeardSlot DEF JoinerGoes
<1>8. CASE JoinerBonds
  <2>1. JoinerPc = "add" /\ slot' = slot /\ Moved(Joiner, "done")
    BY <1>8, PcMoves DEF JoinerBonds, At
  <2>. QED
    BY <1>1, <2>1 DEF JoinerGoes, Held
<1>9. CASE PostFail(Joiner)
  <2>1. flow[Joiner].verdict \in Verdict
    BY <1>9 DEF PostFail, Post, At, TypeInv, FailInv, Failed
  <2>2. Speaks(Joiner, "fail", "bond_fail", "done")
    BY <1>9, <2>1, PostSpeaks DEF PostFail
  <2>. QED
    BY <2>2 DEF Move
<1>10. CASE PushOk(Joiner)
  <2>1. JoinerPc = "push" /\ slot' = slot /\ Moved(Joiner, "add")
    BY <1>10, PcMoves DEF PushOk, At
  <2>. QED
    BY <1>1, <2>1 DEF JoinerGoes, Held
<1>11. CASE RestorePushed(Joiner)
  <2>1. /\ JoinerPc \in {"undo", "retract"} /\ slot' = slot
        /\ Moved(Joiner, "done") \/ (JoinerPc = "undo" /\ Moved(Joiner, "fail"))
    BY <1>0, <1>11, PcMoves DEF RestorePushed, At
  <2>. QED
    BY <1>1, <2>1 DEF JoinerGoes, Held
<1>. QED
  BY <1>2, <1>3, <1>4, <1>5, <1>6, <1>7, <1>8, <1>9, <1>10, <1>11 DEF JoinerStep

LEMMA Moves ==
  ASSUME TypeInv, [Next]_vars
  PROVE  Move
<1>. USE HostFacts DEF InitiatorPc, JoinerPc
<1>0. /\ Peer(Initiator) = Joiner /\ Peer(Joiner) = Initiator
      /\ {"rejected", "pake_failed", "rolled_back", "expired", "bonded"} \subseteq Verdict
      /\ {"pake", "ok"} \cap Verdict = {}
      /\ \A h \in Host : h = Initiator \/ h = Joiner
      /\ flow \in [Host -> Flow] /\ slot \in Message \cup {Empty}
  BY DEF Peer, Verdict, Host, TypeInv, TypeOK
<1>1. ASSUME UNCHANGED flow, Held(slot, slot') PROVE Move
  BY <1>1 DEF Move, InitiatorGoes
<1>2. ASSUME NEW pc, Moved(Initiator, pc), Held(slot, slot'), InitiatorGoes(slot', InitiatorPc, pc)
      PROVE  Move
  BY <1>0, <1>2 DEF Moved, Move
<1>3. ASSUME NEW pc, Moved(Joiner, pc), Held(slot, slot'),
             JoinerGoes(slot', InitiatorPc, JoinerPc, pc)
      PROVE  Move
  BY <1>0, <1>3 DEF Moved, Move
<1>4. ASSUME NEW h \in Host, slot' = slot, NEW pc, Moved(h, pc),
             \/ pc = "done" /\ ~At(h, "off")
             \/ pc = "thrown" /\ flow[h].pc \in Posting \cup Pushing
             \/ pc = "fail" /\ At(h, "confirm")
             \/ pc = "undo" /\ At(h, "push")
      PROVE  Move
  <2>1. Held(slot, slot')
    BY <1>4 DEF Held
  <2>. QED
    BY <1>0, <1>2, <1>3, <1>4, <2>1 DEF At, InitiatorGoes, JoinerGoes
<1>5. CASE UNCHANGED vars
  BY <1>1, <1>5 DEF vars, Held
<1>6. CASE InitiatorStep \/ JoinerStep
  BY <1>6, InitiatorMoves, JoinerMoves
<1>7. CASE PairInit
  <2>1. Moved(Initiator, "pake") /\ Has(slot', "pake", Initiator)
    BY <1>7, PcMoves DEF PairInit, Has, Empty
  <2>. QED
    BY <1>0, <1>7, <2>1 DEF Moved, Move, PairInit, At
<1>8. CASE CompleteAgain
  <2>1. InitiatorPc = "thrown" /\ slot' = slot
        /\ (Moved(Initiator, "done") \/ Moved(Initiator, "pake"))
    BY <1>0, <1>8, PcMoves DEF CompleteAgain, At
  <2>. QED
    BY <1>2, <2>1 DEF InitiatorGoes, Held
<1>9. CASE PairJoin
  <2>1. InitiatorPc # "off" /\ slot' = slot /\ Moved(Joiner, "asked")
    BY <1>9, PcMoves DEF PairJoin, At
  <2>. QED
    BY <1>3, <2>1 DEF JoinerGoes, Held
<1>10. CASE Approve
  <2>1. JoinerPc \in {"asked", "thrown"} /\ slot' = slot
        /\ (Moved(Joiner, "done") \/ Moved(Joiner, "pake"))
    BY <1>0, <1>10, PcMoves DEF Approve
  <2>. QED
    BY <1>3, <2>1 DEF JoinerGoes, Held
<1>11. CASE Reject
  <2>1. JoinerPc \in {"asked", "thrown"} /\ slot' = slot /\ Moved(Joiner, "reject")
    BY <1>11, PcMoves DEF Reject
  <2>. QED
    BY <1>3, <2>1 DEF JoinerGoes, Held
<1>12. CASE Lapse
  BY <1>1, <1>12 DEF Lapse, Held
<1>13. CASE Garble
  <2>1. slot \in Message
    BY <1>0, <1>13 DEF Garble
  <2>2. Held(slot, slot')
    BY <1>13, <2>1 DEF Garble, Held, Message, Empty
  <2>. QED
    BY <1>1, <1>13, <2>2 DEF Garble
<1>14. ASSUME NEW h \in Host, PushRefused(h) PROVE Move
  BY <1>4, <1>14, PcMoves DEF PushRefused, Restore
<1>15. ASSUME NEW h \in Host, PushThrows(h) PROVE Move
  BY <1>4, <1>15, PcMoves DEF PushThrows
<1>16. ASSUME NEW h \in Host, NEW a \in Agent, RevokePush(h) \/ OtherPairing(h) \/ Revoke(h, a)
       PROVE  Move
  BY <1>1, <1>16 DEF RevokePush, OtherPairing, Revoke, Held
<1>17. ASSUME NEW h \in Host, TimesOut(h) PROVE Move
  <2>1. /\ slot' = slot /\ ~At(h, "off")
        /\ Moved(h, "done") \/ (Moved(h, "fail") /\ At(h, "confirm"))
    BY <1>0, <1>17, PcMoves DEF TimesOut, At
  <2>. QED
    BY <1>4, <1>17, <2>1
<1>18. ASSUME NEW h \in Host, Crash(h) PROVE Move
  <2>1. Held(slot, slot')
    BY <1>18 DEF Crash, Held
  <2>2. CASE h = Joiner
    <3>1. Moved(Joiner, "off")
      BY <1>18, <2>2, PcMoves DEF Crash
    <3>. QED
      BY <1>3, <2>1, <3>1 DEF JoinerGoes
  <2>3. CASE h = Initiator /\ At(h, "off")
    BY <1>1, <1>18, <2>1, <2>3 DEF Crash
  <2>4. CASE h = Initiator /\ ~At(h, "off")
    <3>1. Moved(Initiator, "done")
      BY <1>18, <2>4, PcMoves DEF Crash
    <3>. QED
      BY <1>2, <2>1, <2>4, <3>1 DEF InitiatorGoes, At
  <2>. QED
    BY <1>0, <2>2, <2>3, <2>4
<1>. QED
  BY <1>5, <1>6, <1>7, <1>8, <1>9, <1>10, <1>11, <1>12, <1>13, <1>14, <1>15, <1>16, <1>17, <1>18
  DEF Next

-----------------------------------------------------------------------------
(* Every move keeps the turns                                              *)

LEMMA HeldTurns ==
  ASSUME NEW s, NEW t, NEW i, NEW j, Held(s, t), Turns(s, i, j)
  PROVE  Turns(t, i, j)
<1>1. CASE t = Empty
  BY <1>1 DEF Turns, Has, HasRead
<1>2. CASE t # Empty
  BY <1>2 DEF Held, Turns, Has, HasRead, Final
<1>. QED
  BY <1>1, <1>2

LEMMA InitiatorTurns ==
  ASSUME NEW s, NEW i, NEW j, NEW k, Turns(s, i, j), InitiatorGoes(s, i, k)
  PROVE  Turns(s, k, j)
<1>. USE HostFacts DEF Turns, Has, HasRead, Final, Idle, Posting, Pushing
<1>1. CASE k \in {i, "done", "thrown", "pake"}
  BY <1>1 DEF InitiatorGoes
<1>2. CASE k \in {"answer", "push"} /\ k # i
  BY <1>2 DEF InitiatorGoes
<1>3. CASE k \in {"fail", "tell", "undo", "retract"} /\ k # i
  BY <1>3 DEF InitiatorGoes
<1>. QED
  BY <1>1, <1>2, <1>3 DEF InitiatorGoes

LEMMA JoinerTurns ==
  ASSUME NEW s, NEW i, NEW j, NEW k, Turns(s, i, j), JoinerGoes(s, i, j, k)
  PROVE  Turns(s, i, k)
<1>. USE HostFacts DEF Turns, Has, HasRead, Final, Idle, Posting, Pushing
<1>1. CASE k \in {j, "off", "done", "thrown", "asked", "pake", "reject"}
  BY <1>1 DEF JoinerGoes
<1>2. CASE k \in {"answer", "agree"} /\ k # j
  BY <1>2 DEF JoinerGoes
<1>3. CASE k \in {"fail", "push", "add", "undo"} /\ k # j
  BY <1>3 DEF JoinerGoes
<1>. QED
  BY <1>1, <1>2, <1>3 DEF JoinerGoes

(* What the slot holds after a post, the poster at k or thrown.            *)
LEMMA PostTurns ==
  ASSUME TurnInv, NEW h \in Host, NEW pc, NEW phase, NEW k, Speaks(h, pc, phase, k),
         \/ h = Initiator /\ pc = "answer" /\ phase = "confirm" /\ k \in {"ok", "done"}
         \/ h = Initiator /\ pc = "tell" /\ phase = "bond_ok" /\ k = "listen"
         \/ h = Joiner /\ pc = "answer" /\ phase = "pake" /\ k = "confirm"
         \/ h = Joiner /\ pc = "agree" /\ phase = "bond_ok" /\ k = "ok"
         \/ h = Joiner /\ pc = "reject" /\ phase = "reject" /\ k = "done"
         \/ pc = "fail" /\ phase = "bond_fail" /\ k = "done"
  PROVE  TurnInv'
<1>. USE HostFacts DEF TurnInv, Turns, Has, HasRead, Final, Idle, InitiatorPc, JoinerPc
<1>0. Peer(Initiator) = Joiner /\ Peer(Joiner) = Initiator
  BY DEF Peer
<1>1. CASE h = Initiator
  <2>1. flow[Initiator].pc = pc /\ flow'[Joiner].pc = flow[Joiner].pc
        /\ flow'[Initiator].pc \in {k, "thrown"}
    BY <1>0, <1>1 DEF Speaks
  <2>2. CASE slot' = Empty
    BY <1>1, <2>1, <2>2
  <2>3. CASE slot' = slot /\ flow'[h].pc = "thrown"
    BY <1>1, <2>1, <2>3
  <2>4. CASE Has(slot', phase, h)
    BY <1>1, <2>1, <2>4
  <2>. QED
    BY <2>2, <2>3, <2>4 DEF Speaks
<1>2. CASE h = Joiner
  <2>1. flow[Joiner].pc = pc /\ flow'[Initiator].pc = flow[Initiator].pc
        /\ flow'[Joiner].pc \in {k, "thrown"}
    BY <1>0, <1>2 DEF Speaks
  <2>2. CASE slot' = Empty
    BY <1>2, <2>1, <2>2
  <2>3. CASE slot' = slot /\ flow'[h].pc = "thrown"
    BY <1>2, <2>1, <2>3
  <2>4. CASE Has(slot', phase, h)
    BY <1>2, <2>1, <2>4
  <2>. QED
    BY <2>2, <2>3, <2>4 DEF Speaks
<1>. QED
  BY <1>1, <1>2 DEF Host

LEMMA TurnStep ==
  ASSUME TurnInv, Move
  PROVE  TurnInv'
<1>1. CASE Held(slot, slot')
           /\ InitiatorGoes(slot', InitiatorPc, InitiatorPc') /\ JoinerPc' = JoinerPc
  BY <1>1, HeldTurns, InitiatorTurns DEF TurnInv
<1>2. CASE Held(slot, slot')
           /\ JoinerGoes(slot', InitiatorPc, JoinerPc, JoinerPc') /\ InitiatorPc' = InitiatorPc
  BY <1>2, HeldTurns, JoinerTurns DEF TurnInv
<1>3. CASE InitiatorPc = "off" /\ InitiatorPc' = "pake" /\ JoinerPc' = JoinerPc
           /\ Has(slot', "pake", Initiator)
  BY <1>3, HostFacts DEF TurnInv, Turns, Has, HasRead, Final
<1>. QED
  BY <1>1, <1>2, <1>3, PostTurns, HostFacts DEF Move

LEMMA TurnInit == Init => TurnInv
BY HostFacts DEF Init, TurnInv, Turns, Has, HasRead, InitiatorPc, JoinerPc

LEMMA TurnsHold == Spec => [](TypeInv /\ TurnInv)
<1>1. TypeInv /\ TurnInv /\ [Next]_vars => TurnInv'
  BY Moves, TurnStep
<1>. QED
  BY <1>1, TypeInit, TypeStep, TurnInit, PTL DEF Spec

(* The action of PingPong.                                                 *)
Replaced ==
  \/ slot = Empty \/ slot' = Empty \/ slot.read \/ slot'.from = slot.from
  \/ {slot.phase, slot'.phase} \cap {"bond_fail", "reject"} # {}

LEMMA TurnReplaced ==
  ASSUME TurnInv, Move
  PROVE  Replaced
<1>. USE HostFacts
<1>1. CASE Held(slot, slot')
  BY <1>1 DEF Held, Replaced
<1>2. CASE InitiatorPc = "off"
  BY <1>2 DEF TurnInv, Turns, Replaced
<1>3. ASSUME NEW h \in Host, NEW pc, NEW phase, NEW k, Speaks(h, pc, phase, k),
             phase \in {"bond_fail", "reject"} \/ slot = Empty \/ Final(slot) \/ slot.read
      PROVE  Replaced
  BY <1>3 DEF Speaks, Has, Final, Replaced
<1>4. ASSUME NEW h \in Host, NEW pc, NEW phase, NEW k, Speaks(h, pc, phase, k),
             \/ h = Initiator /\ pc \in {"answer", "tell"}
             \/ h = Joiner /\ pc \in {"answer", "agree"}
      PROVE  slot = Empty \/ Final(slot) \/ slot.read
  BY <1>4 DEF Speaks, TurnInv, Turns, HasRead, InitiatorPc, JoinerPc
<1>. QED
  BY <1>1, <1>2, <1>3, <1>4 DEF Move

(* SPEC 6.2: whatever the two hosts post, retry, time out of or forget at  *)
(* a restart, and whatever the relay loses or garbles, a message other     *)
(* than bond_fail and reject is read by the peer before it is replaced.    *)
THEOREM PingPongSafety == Spec => PingPong
<1>1. TypeInv /\ TurnInv /\ [Next]_vars => [Replaced]_vars
  BY Moves, TurnReplaced
<1>2. [][Replaced]_vars <=> PingPong
  BY DEF Replaced, PingPong
<1>. QED
  BY <1>1, <1>2, TurnsHold, PTL DEF Spec

-----------------------------------------------------------------------------
(* A bonded joiner is admitted                                             *)

(* The initiator has told the joiner that it admitted it, and sticks to    *)
(* it: what is left of its pairing cannot roll its allowlist back.         *)
Told ==
  /\ InitiatorPc \in {"listen", "thrown", "pake", "done"}
  /\ Joiner \in allow[Initiator] \cup revoked[Initiator]
  /\ InitiatorPc \in {"thrown", "pake"} => Initiator \in thrown
  /\ InitiatorPc = "done" /\ Initiator \notin thrown =>
       Joiner \in bonds[Initiator] \cup revoked[Initiator]

(* The joiner has been told, in the pairing under way or an earlier one.   *)
Heard == JoinerPc \in {"push", "add"} \/ Initiator \in bonds[Joiner]

BondInv ==
  /\ InitiatorPc \in {"push", "tell", "listen"} =>
       Joiner \in allow[Initiator] \cup revoked[Initiator]
  /\ Has(slot, "bond_ok", Initiator) \/ Heard => Told
  /\ Heard => slot = Empty \/ Has(slot, "bond_ok", Initiator) \/ Has(slot, "reject", Joiner)
  /\ Initiator \in bonds[Joiner] => JoinerPc \in Idle

(* What a step does to the initiator's lists, and to the joiner's bond.    *)
Lists ==
  /\ Joiner \in allow[Initiator] \cup revoked[Initiator] =>
       \/ Joiner \in allow'[Initiator] \cup revoked'[Initiator]
       \/ InitiatorPc = "push" /\ InitiatorPc' = "undo"
       \/ InitiatorPc = "listen" /\ InitiatorPc' = "retract" /\ slot.phase = "bond_fail"
  /\ InitiatorPc' = "push" /\ InitiatorPc # "push" =>
       Joiner \in allow'[Initiator] \cup revoked'[Initiator]
  /\ Joiner \in bonds[Initiator] \cup revoked[Initiator] =>
       Joiner \in bonds'[Initiator] \cup revoked'[Initiator]
  /\ Initiator \in thrown => Initiator \in thrown'
  /\ InitiatorPc' = "thrown" /\ InitiatorPc # "thrown" => Initiator \in thrown'
  /\ InitiatorPc = "listen" /\ InitiatorPc' # "listen" =>
       \/ InitiatorPc' = "done" /\ Initiator \in thrown'
       \/ InitiatorPc' = "done" /\ Joiner \in bonds'[Initiator] \cup revoked'[Initiator]
       \/ InitiatorPc' = "retract" /\ slot.phase = "bond_fail" /\ slot # Empty
  /\ Initiator \in bonds'[Joiner] =>
       \/ Initiator \in bonds[Joiner]
       \/ JoinerPc = "add" /\ JoinerPc' = "done"

LEMMA ListSteps ==
  ASSUME TypeInv, [Next]_vars
  PROVE  Lists
<1>. USE HostFacts DEF InitiatorPc, JoinerPc
<1>0. /\ allow \in [Host -> SUBSET Agent] /\ bonds \in [Host -> SUBSET Agent]
      /\ revoked \in [Host -> SUBSET Agent] /\ flow \in [Host -> Flow]
      /\ flow[Initiator] \in Flow /\ flow[Joiner] \in Flow /\ thrown \subseteq Host
      /\ \A h \in Host : h = Initiator \/ h = Joiner
      /\ Peer(Initiator) = Joiner /\ Peer(Joiner) = Initiator
  BY DEF TypeInv, TypeOK, Host, Peer
<1>1. PICK h \in Host : Calm(h) \/ Touches(h)
  BY Steps
<1>2. CASE Calm(h)
  <2>1. CASE h = Initiator
    BY <1>0, <1>2, <2>1 DEF Calm, lists, listHistory, At, Lists, Early
  <2>2. CASE h = Joiner
    BY <1>0, <1>2, <2>2 DEF Calm, lists, listHistory, Lists
  <2>. QED
    BY <1>0, <2>1, <2>2
<1>3. CASE Admits(h)
  <2>1. Moved(h, "push") /\ allow' = [allow EXCEPT ![h] = @ \cup {Peer(h)}]
        /\ UNCHANGED <<bonds, revoked, thrown>> /\ flow[h].pc = "ok"
    BY <1>3, PcMoves DEF Admits, Admit, At
  <2>. QED
    BY <1>0, <2>1 DEF Moved, Lists
<1>4. CASE PushOk(h)
  <2>1. Moved(h, "tell") \/ Moved(h, "add")
    BY <1>4, PcMoves DEF PushOk
  <2>2. UNCHANGED <<allow, bonds, revoked, thrown>> /\ flow[h].pc = "push"
    BY <1>4 DEF PushOk, At, listHistory
  <2>. QED
    BY <1>0, <2>1, <2>2 DEF Moved, Lists
<1>5. CASE PushRefused(h)
  <2>1. Moved(h, "undo") /\ flow[h].pc = "push"
        /\ UNCHANGED <<bonds, revoked, thrown>>
        /\ allow' = [allow EXCEPT ![h] = flow[h].previous]
    BY <1>5, PcMoves DEF PushRefused, Restore, At
  <2>. QED
    BY <1>0, <2>1 DEF Moved, Lists
<1>6. CASE RestorePushed(h)
  <2>1. Moved(h, "fail") \/ Moved(h, "done")
    BY <1>6, PcMoves DEF RestorePushed, Verdict
  <2>2. flow[h].pc \in {"undo", "retract"} /\ UNCHANGED <<allow, bonds, revoked, thrown>>
    BY <1>6 DEF RestorePushed
  <2>. QED
    BY <1>0, <2>1, <2>2 DEF Moved, Lists
<1>7. CASE PushThrows(h)
  <2>1. Moved(h, "thrown") /\ flow[h].pc \in Pushing
        /\ UNCHANGED <<allow, bonds, revoked>> /\ thrown' = thrown \cup {h}
    BY <1>7, PcMoves DEF PushThrows, Throw
  <2>. QED
    BY <1>0, <2>1 DEF Moved, Lists, Pushing
<1>8. CASE h = Initiator /\ InitiatorHearsFail
  <2>1. Moved(Initiator, "retract") /\ flow[Initiator].pc = "listen"
        /\ slot # Empty /\ slot.phase = "bond_fail" /\ UNCHANGED <<bonds, revoked, thrown>>
    BY <1>8, PcMoves DEF InitiatorHearsFail, Hears, Restore, At
  <2>. QED
    BY <1>0, <2>1 DEF Moved, Lists
<1>9. CASE h = Initiator /\ InitiatorBonds
  <2>1. Moved(Initiator, "done") /\ flow[Initiator].pc = "listen"
    BY <1>9, PcMoves DEF InitiatorBonds, At, Verdict
  <2>2. bonds' = [bonds EXCEPT ![Initiator] = @ \cup {Joiner}]
        /\ UNCHANGED <<allow, revoked, thrown>>
    BY <1>9 DEF InitiatorBonds, listHistory
  <2>. QED
    BY <1>0, <2>1, <2>2 DEF Moved, Lists
<1>10. CASE h = Joiner /\ JoinerBonds
  <2>1. Moved(Joiner, "done") /\ flow[Joiner].pc = "add"
        /\ bonds' = [bonds EXCEPT ![Joiner] = @ \cup {Initiator}]
        /\ UNCHANGED <<allow, revoked, thrown>>
    BY <1>10, PcMoves DEF JoinerBonds, At, listHistory
  <2>. QED
    BY <1>0, <2>1 DEF Moved, Lists
<1>11. CASE RevokePush(h)
  BY <1>11 DEF RevokePush, Lists
<1>12. CASE OtherPairing(h)
  BY <1>0, <1>12, ThirdAssumption DEF OtherPairing, Lists
<1>13. CASE Crash(h)
  <2>1. UNCHANGED <<allow, bonds, revoked>> /\ thrown' = thrown \cup {h}
    BY <1>13 DEF Crash
  <2>2. h = Initiator => Moved(h, "done") \/ UNCHANGED flow
    BY <1>13, PcMoves DEF Crash
  <2>3. h = Joiner => Moved(h, "off")
    BY <1>13, PcMoves DEF Crash
  <2>. QED
    BY <1>0, <2>1, <2>2, <2>3 DEF Moved, Lists
<1>14. ASSUME NEW a \in Agent, Revoke(h, a) PROVE Lists
  <2>1. /\ bonds' = [bonds EXCEPT ![h] = @ \ {a}] /\ allow' = [allow EXCEPT ![h] = @ \ {a}]
        /\ revoked' = [revoked EXCEPT ![h] = @ \cup {a}] /\ UNCHANGED <<flow, thrown>>
    BY <1>14 DEF Revoke
  <2>. QED
    BY <1>0, <2>1 DEF Lists
<1>. QED
  BY <1>1, <1>2, <1>3, <1>4, <1>5, <1>6, <1>7, <1>8, <1>9, <1>10, <1>11, <1>12, <1>13, <1>14
  DEF Touches

LEMMA BondStep ==
  ASSUME TypeInv, BondInv, Move, Lists
  PROVE  BondInv'
<1>. USE HostFacts
<1>0. Peer(Initiator) = Joiner /\ Peer(Joiner) = Initiator
      /\ \A h \in Host : h = Initiator \/ h = Joiner
  BY DEF Host, Peer
<1>1. CASE Held(slot, slot')
           /\ InitiatorGoes(slot', InitiatorPc, InitiatorPc') /\ JoinerPc' = JoinerPc
  BY <1>1 DEF BondInv, Told, Heard, Lists, Held, InitiatorGoes, Has, HasRead, Posting, Pushing, Idle
<1>2. CASE Held(slot, slot')
           /\ JoinerGoes(slot', InitiatorPc, JoinerPc, JoinerPc') /\ InitiatorPc' = InitiatorPc
  BY <1>2 DEF BondInv, Told, Heard, Lists, Held, JoinerGoes, Has, HasRead, Posting, Pushing, Idle
<1>3. CASE InitiatorPc = "off" /\ InitiatorPc' = "pake" /\ JoinerPc' = JoinerPc
           /\ Has(slot', "pake", Initiator)
  BY <1>3 DEF BondInv, Told, Heard, Lists, Has, Idle
<1>4. ASSUME NEW k \in {"ok", "done"}, Speaks(Initiator, "answer", "confirm", k) PROVE BondInv'
  BY <1>0, <1>4 DEF BondInv, Told, Heard, Lists, Speaks, Has, Idle, InitiatorPc, JoinerPc
<1>5. CASE Speaks(Initiator, "tell", "bond_ok", "listen")
  BY <1>0, <1>5 DEF BondInv, Told, Heard, Lists, Speaks, Has, Idle, InitiatorPc, JoinerPc
<1>6. CASE Speaks(Joiner, "answer", "pake", "confirm") \/ Speaks(Joiner, "agree", "bond_ok", "ok")
  BY <1>0, <1>6 DEF BondInv, Told, Heard, Lists, Speaks, Has, Idle, InitiatorPc, JoinerPc
<1>7. CASE Speaks(Joiner, "reject", "reject", "done")
  BY <1>0, <1>7 DEF BondInv, Told, Heard, Lists, Speaks, Has, Idle, InitiatorPc, JoinerPc
<1>8. CASE Speaks(Initiator, "fail", "bond_fail", "done")
  BY <1>0, <1>8 DEF BondInv, Told, Heard, Lists, Speaks, Has, Idle, InitiatorPc, JoinerPc
<1>9. CASE Speaks(Joiner, "fail", "bond_fail", "done")
  BY <1>0, <1>9 DEF BondInv, Told, Heard, Lists, Speaks, Has, Idle, InitiatorPc, JoinerPc
<1>. QED
  BY <1>0, <1>1, <1>2, <1>3, <1>4, <1>5, <1>6, <1>7, <1>8, <1>9 DEF Move

(* A joiner with a bond can be heard: the initiator has it in its          *)
(* allowlist, and among its bonds once its own pairing is over, unless a   *)
(* human revoked it, a request of the initiator threw or it restarted.     *)
THEOREM JoinerSafety == Spec => []JoinerBondedMeansAdmitted
<1>1. Init => BondInv
  BY HostFacts, ThirdAssumption
  DEF Init, BondInv, Heard, Has, Idle, InitiatorPc, JoinerPc
<1>2. TypeInv /\ BondInv /\ [Next]_vars => BondInv'
  BY Moves, ListSteps, BondStep
<1>3. BondInv => JoinerBondedMeansAdmitted
  BY DEF BondInv, Heard, Told, JoinerBondedMeansAdmitted, At, InitiatorPc
<1>. QED
  BY <1>1, <1>2, <1>3, TypeInit, TypeStep, PTL DEF Spec
=============================================================================
