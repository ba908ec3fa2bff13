------------------------- MODULE BudgetExtendProofs -------------------------
(***************************************************************************)
(* Theorems about BudgetExtend, for every set of numbers, every bound and  *)
(* every set of hosts whose handlers overlap: the types, that max_turns    *)
(* never holds a number the two humans did not both approve, and that it   *)
(* never falls at a host whose handlers do not overlap. Where no handlers  *)
(* overlap and at most one send failed, the race of two proposals is       *)
(* settled: whoever waits is answered, and the hosts agree at rest.        *)
(***************************************************************************)
EXTENDS BudgetExtend, SequenceTheorems, TLAPS

-----------------------------------------------------------------------------
(* Types                                                                   *)

LEMMA PeerType ==
  ASSUME NEW h \in Host
  PROVE  Peer(h) \in Host /\ Peer(h) # h /\ Peer(Peer(h)) = h
BY DEF Peer, Host, Initiator, Recipient

(* A host's record, put by its handler.                                    *)
LEMMA PutType ==
  ASSUME sess \in [Host -> Session], NEW h \in Host, NEW s \in Session, Put(h, s)
  PROVE  sess' \in [Host -> Session]
BY DEF Put

(* A record whose envelope is out is a record.                             *)
LEMMA EmittedType ==
  ASSUME NEW s \in Session
  PROVE  Emitted(s) \in Session
<1>1. CASE s.ext.st = "emitting"
  <2>1. s.ext \in [p : Proposal, st : Emitting \cup {"awaiting_peer"}]
    BY <1>1 DEF Session, Extension, NoExtension
  <2>2. [s.ext EXCEPT !.st = "awaiting_peer"] \in Extension
    BY <2>1 DEF Extension
  <2>. QED
    BY <1>1, <2>2 DEF Emitted, Session
<1>2. CASE s.ext.st # "emitting"
  <2>1. NoExtension \in Extension
    BY DEF Extension
  <2>. QED
    BY <1>2, <2>1 DEF Emitted, Session
<1>. QED
  BY <1>1, <1>2

(* The envelope of an extension that is to be sent.                        *)
LEMMA EnvelopeType ==
  ASSUME NEW e \in Extension, e # NoExtension
  PROVE  EnvelopeOf(e) \in Message /\ e.p \in Proposal
<1>1. e.p \in Proposal
  BY DEF Extension
<1>2. EnvelopeOf(e).type \in {"propose", "approved", "reject"}
  BY DEF EnvelopeOf
<1>. QED
  BY <1>1, <1>2 DEF EnvelopeOf, Message

(* Posting an envelope makes one inbox longer.                             *)
LEMMA PostedType ==
  ASSUME NEW b \in [Host -> Seq(Message)], NEW h \in Host, NEW m \in Message
  PROVE  /\ Posted(b, h, m) \in [Host -> Seq(Message)]
         /\ \A g \in Host : Len(b[g]) <= Len(Posted(b, h, m)[g])
<1>1. Peer(h) \in Host
  BY PeerType
<1>2. \A g \in Host : b[g] \in Seq(Message) /\ Append(b[g], m) \in Seq(Message)
                      /\ Len(Append(b[g], m)) = Len(b[g]) + 1 /\ Len(b[g]) \in Nat
  OBVIOUS
<1>. QED
  BY <1>1, <1>2 DEF Posted

(* What the pull takes is there.                                           *)
LEMMA TakenType ==
  ASSUME TypeOK, NEW h \in Host, NEW type, IsNext(h, type)
  PROVE  /\ Taken(h) \in [Host -> Seq(Message)]
         /\ Head(box[h]) \in Message /\ Head(box[h]).type = type
         /\ type # "turn" => Head(box[h]).p \in Proposal
         /\ left' \in [Host -> Nat]
         /\ \A g \in Host : left'[g] <= Len(Taken(h)[g])
         /\ \A g \in Host : \A i \in DOMAIN Taken(h)[g] :
              \E j \in DOMAIN box[g] : Taken(h)[g][i] = box[g][j]
         /\ \E j \in DOMAIN box[h] : Head(box[h]) = box[h][j]
<1>1. box[h] \in Seq(Message) /\ left[h] \in Nat /\ left[h] > 0 /\ left[h] <= Len(box[h])
  BY DEF TypeOK, IsNext
<1>2. box[h] # <<>> /\ Len(box[h]) > 0
  BY <1>1
<1>3. Tail(box[h]) \in Seq(Message) /\ Len(Tail(box[h])) = Len(box[h]) - 1
  BY <1>1, <1>2
<1>4. Head(box[h]) \in Message /\ Head(box[h]) = box[h][1] /\ 1 \in DOMAIN box[h]
  BY <1>1, <1>2
<1>5. \A i \in DOMAIN Tail(box[h]) : Tail(box[h])[i] = box[h][i + 1] /\ i + 1 \in DOMAIN box[h]
  BY <1>1, <1>2, <1>3
<1>6. type # "turn" => Head(box[h]).p \in Proposal
  BY <1>4 DEF IsNext, Message, TurnMessage
<1>7. left' \in [Host -> Nat] /\ \A g \in Host : left'[g] <= Len(Taken(h)[g])
  BY <1>1, <1>3 DEF TypeOK, IsNext, Taken
<1>8. Taken(h) \in [Host -> Seq(Message)]
  BY <1>3 DEF TypeOK, Taken
<1>9. \A g \in Host : \A i \in DOMAIN Taken(h)[g] :
        \E j \in DOMAIN box[g] : Taken(h)[g][i] = box[g][j]
  BY <1>5 DEF Taken, TypeOK
<1>. QED
  BY <1>4, <1>6, <1>7, <1>8, <1>9 DEF IsNext

(* A send, whatever it reports.                                            *)
LEMMA SendType ==
  ASSUME TypeOK, NEW h \in Host, NEW m \in Message, NEW w \in Write,
         Sent(h, m, w) \/ NotSent(h, m)
  PROVE  /\ box' \in [Host -> Seq(Message)]
         /\ \A g \in Host : Len(box[g]) <= Len(box'[g])
         /\ suspended' \in [Host -> SUBSET Write]
         /\ losses' \in Nat
<1>1. /\ box \in [Host -> Seq(Message)] /\ suspended \in [Host -> SUBSET Write]
      /\ losses \in Nat
  BY DEF TypeOK
<1>2. /\ Posted(box, h, m) \in [Host -> Seq(Message)]
      /\ \A g \in Host : Len(box[g]) <= Len(Posted(box, h, m)[g])
  BY <1>1, PostedType
<1>3. \A g \in Host : Len(box[g]) <= Len(box[g])
  <2>1. \A g \in Host : Len(box[g]) \in Nat
    BY <1>1
  <2>. QED
    BY <2>1
<1>4. CASE Sent(h, m, w)
  <2>1. suspended' \in [Host -> SUBSET Write]
    BY <1>1, <1>4 DEF Sent
  <2>. QED
    BY <1>1, <1>2, <1>4, <2>1 DEF Sent
<1>5. CASE NotSent(h, m)
  <2>1. box' = box \/ box' = Posted(box, h, m)
    BY <1>5 DEF NotSent
  <2>2. losses' \in Nat /\ suspended' = suspended
    BY <1>1, <1>5 DEF NotSent
  <2>. QED
    BY <1>1, <1>2, <1>3, <2>1, <2>2
<1>. QED
  BY <1>4, <1>5

(* emitBudgetEnvelope.                                                     *)
LEMMA EmitType ==
  ASSUME TypeOK, NEW h \in Host, NEW s \in Session, s.ext # NoExtension, Emit(h, s)
  PROVE  /\ sess' \in [Host -> Session]
         /\ box' \in [Host -> Seq(Message)]
         /\ \A g \in Host : Len(box[g]) <= Len(box'[g])
         /\ suspended' \in [Host -> SUBSET Write]
         /\ losses' \in Nat
<1> DEFINE w == [kind |-> "emit", p |-> s.ext.p, to |-> Emitted(s)]
<1>1. EnvelopeOf(s.ext) \in Message /\ w \in Write
  BY EnvelopeType, EmittedType DEF Session, Write
<1>2. Sent(h, EnvelopeOf(s.ext), w) \/ NotSent(h, EnvelopeOf(s.ext))
  BY DEF Emit
<1>3. sess' \in [Host -> Session]
  BY PutType DEF Emit, TypeOK
<1> HIDE DEF w
<1>. QED
  BY <1>1, <1>2, <1>3, SendType

(* The record Approve puts.                                                *)
LEMMA ApproveType ==
  ASSUME NEW s \in Session, NEW p \in Proposal,
         NEW st \in {"emitting", "approved_emitting", "rejected_emitting"}
  PROVE  /\ [s EXCEPT !.ext = [p |-> p, st |-> st]] \in Session
         /\ [s EXCEPT !.decided = @ \cup {p}, !.ext = [p |-> p, st |-> st]] \in Session
         /\ [s EXCEPT !.max = p.num, !.decided = @ \cup {p},
                      !.ext = [p |-> p, st |-> st]] \in Session
         /\ [s EXCEPT !.max = p.num, !.decided = @ \cup {p}, !.ext = NoExtension] \in Session
         /\ [s EXCEPT !.decided = @ \cup {p}, !.ext = NoExtension] \in Session
         /\ [s EXCEPT !.decided = @ \cup {p}] \in Session
         /\ [p |-> p, st |-> st] # NoExtension
<1>1. p.num \in Num
  BY DEF Proposal
<1>2. [p |-> p, st |-> st] \in Extension /\ [p |-> p, st |-> st] # NoExtension
  BY NoneAssumption DEF Extension, Emitting, NoExtension
<1>. QED
  BY <1>1, <1>2 DEF Session, Extension

(* A pull in progress never counts more envelopes than the inbox holds,    *)
(* when inboxes only grow.                                                 *)
LEMMA LeftKept ==
  ASSUME TypeOK, box' \in [Host -> Seq(Message)],
         \A g \in Host : Len(box[g]) <= Len(box'[g]),
         \/ left' = left
         \/ \E h \in Host : left' = [left EXCEPT ![h] = 0]
         \/ \E h \in Host : left' = [left EXCEPT ![h] = Len(box[h])]
  PROVE  left' \in [Host -> Nat] /\ \A g \in Host : left'[g] <= Len(box'[g])
<1>1. \A g \in Host : Len(box[g]) \in Nat /\ Len(box'[g]) \in Nat /\ left[g] \in Nat
  BY DEF TypeOK
<1>2. /\ left \in [Host -> Nat]
      /\ \A g \in Host : left[g] <= Len(box[g])
  BY DEF TypeOK
<1>3. ASSUME NEW g \in Host PROVE left[g] <= Len(box'[g])
  <2>1. left[g] <= Len(box[g]) /\ Len(box[g]) <= Len(box'[g])
    BY <1>2
  <2>2. left[g] \in Nat /\ Len(box[g]) \in Nat /\ Len(box'[g]) \in Nat
    BY <1>1
  <2>. QED
    BY <2>1, <2>2
<1>4. CASE left' = left
  BY <1>2, <1>3, <1>4
<1>5. ASSUME NEW h \in Host,
             left' = [left EXCEPT ![h] = 0] \/ left' = [left EXCEPT ![h] = Len(box[h])]
      PROVE  left' \in [Host -> Nat] /\ \A g \in Host : left'[g] <= Len(box'[g])
  <2>1. left' \in [Host -> Nat]
    BY <1>1, <1>2, <1>5
  <2>2. ASSUME NEW g \in Host PROVE left'[g] <= Len(box'[g])
    <3>1. left'[g] = left[g] \/ left'[g] = 0 \/ left'[g] = Len(box[g])
      BY <1>2, <1>5
    <3>. QED
      BY <1>1, <1>3, <3>1
  <2>. QED
    BY <2>1, <2>2
<1>. QED
  BY <1>4, <1>5

(* Actions of agent and human.                                             *)
LEMMA AgentTypes ==
  ASSUME TypeOK, NEW h \in Host,
         Extend(h) \/ Approve(h) \/ Reject(h) \/ Turn(h) \/ LeaveLive(h)
  PROVE  TypeOK'
<1>0. /\ sess[h] \in Session
      /\ \A g \in Host : Len(box[g]) \in Nat /\ Len(box[g]) <= Len(box[g])
  <2>1. \A g \in Host : Len(box[g]) \in Nat
    BY DEF TypeOK
  <2>. QED
    BY <2>1 DEF TypeOK
<1>1. CASE Extend(h)
  <2>1. PICK p \in [by : {h}, n : {drafts[h] + 1}, num : Num] :
          /\ p.n <= MaxDrafts /\ SetPend(h, p)
          /\ drafts' = [drafts EXCEPT ![h] = @ + 1]
          /\ UNCHANGED <<sess, suspended, box, left, losses, crashes, agreed>>
    BY <1>1 DEF Extend
  <2>2. p \in Proposal /\ drafts[h] \in Nat
    BY <2>1, BoundsAssumption DEF Proposal, TypeOK
  <2>. QED
    BY <2>1, <2>2 DEF SetPend, TypeOK
<1>2. CASE Approve(h)
  <2> DEFINE p == pend[h]
             s == IF p.by = h
                    THEN [sess[h] EXCEPT !.ext = [p |-> p, st |-> "emitting"]]
                    ELSE [sess[h] EXCEPT !.max = p.num, !.decided = @ \cup {p},
                                         !.ext = [p |-> p, st |-> "approved_emitting"]]
  <2>1. p \in Proposal /\ Emit(h, s)
    BY <1>2 DEF Approve
  <2>2. s \in Session /\ s.ext # NoExtension
    BY <1>0, <2>1, ApproveType DEF Session
  <2>3. /\ pend' = [pend EXCEPT ![h] = None]
        /\ agreed' = [agreed EXCEPT ![h] = @ \cup {p}]
        /\ UNCHANGED <<left, drafts, crashes>>
    BY <1>2 DEF Approve, SetPend
  <2> HIDE DEF s
  <2>4. /\ sess' \in [Host -> Session] /\ box' \in [Host -> Seq(Message)]
        /\ \A g \in Host : Len(box[g]) <= Len(box'[g])
        /\ suspended' \in [Host -> SUBSET Write] /\ losses' \in Nat
    BY <2>1, <2>2, EmitType
  <2>5. left' \in [Host -> Nat] /\ \A g \in Host : left'[g] <= Len(box'[g])
    BY <2>3, <2>4, LeftKept
  <2>. QED
    BY <2>1, <2>3, <2>4, <2>5 DEF TypeOK
<1>3. CASE Reject(h)
  <2>1. /\ pend' = [pend EXCEPT ![h] = None]
        /\ UNCHANGED <<left, drafts, crashes, agreed>>
    BY <1>3 DEF Reject, SetPend
  <2>2. CASE pend[h] \in Proposal /\ pend[h].by # h
    <3> DEFINE s == [sess[h] EXCEPT !.decided = @ \cup {pend[h]},
                                    !.ext = [p |-> pend[h], st |-> "rejected_emitting"]]
    <3>1. Emit(h, s)
      BY <1>3, <2>2 DEF Reject
    <3>2. s \in Session
      BY <1>0, <2>2, ApproveType
    <3>3. s.ext # NoExtension
      BY <1>0, <2>2, ApproveType DEF Session
    <3> HIDE DEF s
    <3>4. /\ sess' \in [Host -> Session] /\ box' \in [Host -> Seq(Message)]
          /\ \A g \in Host : Len(box[g]) <= Len(box'[g])
          /\ suspended' \in [Host -> SUBSET Write] /\ losses' \in Nat
      BY <3>1, <3>2, <3>3, EmitType
    <3>5. left' \in [Host -> Nat] /\ \A g \in Host : left'[g] <= Len(box'[g])
      BY <2>1, <3>4, LeftKept
    <3>. QED
      BY <2>1, <3>4, <3>5 DEF TypeOK
  <2>3. CASE ~(pend[h] \in Proposal /\ pend[h].by # h)
    BY <1>3, <2>1, <2>3 DEF Reject, TypeOK
  <2>. QED
    BY <2>2, <2>3
<1>4. CASE Turn(h)
  <2>1. TurnMessage \in Message /\ [sess[h] EXCEPT !.turns = @ + 1] \in Session
    BY <1>0 DEF Message, Session
  <2>2. /\ Posted(box, h, TurnMessage) \in [Host -> Seq(Message)]
        /\ \A g \in Host : Len(box[g]) <= Len(Posted(box, h, TurnMessage)[g])
    BY <2>1, PostedType DEF TypeOK
  <2>3. /\ box' = box \/ box' = Posted(box, h, TurnMessage)
        /\ left' = left
        /\ UNCHANGED <<suspended, bounds, agreed>>
    BY <1>4 DEF Turn
  <2>4. box' \in [Host -> Seq(Message)] /\ \A g \in Host : Len(box[g]) <= Len(box'[g])
    BY <1>0, <2>2, <2>3 DEF TypeOK
  <2>5. left' \in [Host -> Nat] /\ \A g \in Host : left'[g] <= Len(box'[g])
    BY <2>3, <2>4, LeftKept
  <2>6. sess' \in [Host -> Session]
    BY <1>4, <2>1, PutType DEF Turn, TypeOK
  <2>7. pend' \in [Host -> Proposal \cup {None, Numberless}]
    BY <1>4 DEF Turn, QueueBudget, SetPend, TypeOK
  <2>. QED
    BY <2>3, <2>4, <2>5, <2>6, <2>7 DEF TypeOK, bounds
<1>5. CASE LeaveLive(h)
  <2>1. [sess[h] EXCEPT !.live = FALSE, !.ext = NoExtension] \in Session
    BY <1>0 DEF Session, Extension
  <2>2. sess' \in [Host -> Session]
    BY <1>5, <2>1, PutType DEF LeaveLive, TypeOK
  <2>3. pend' \in [Host -> Proposal \cup {None, Numberless}]
    BY <1>5 DEF LeaveLive, SetPend, TypeOK
  <2>. QED
    BY <1>5, <2>2, <2>3 DEF LeaveLive, TypeOK, bounds
<1>. QED
  BY <1>1, <1>2, <1>3, <1>4, <1>5

(* The retry, the pull, and handlers that resume or die.                   *)
LEMMA LoopTypes ==
  ASSUME TypeOK, NEW h \in Host, Retry(h) \/ Pull(h) \/ Resume(h) \/ Crash(h)
  PROVE  TypeOK'
<1>0. /\ sess[h] \in Session /\ box \in [Host -> Seq(Message)]
      /\ \A g \in Host : Len(box[g]) \in Nat /\ Len(box[g]) <= Len(box[g])
  <2>1. \A g \in Host : Len(box[g]) \in Nat
    BY DEF TypeOK
  <2>. QED
    BY <2>1 DEF TypeOK
<1>1. CASE Retry(h)
  <2> DEFINE e == sess[h].ext
             w == [kind |-> "retry", p |-> e.p, to |-> Emitted(sess[h])]
  <2>1. e \in Extension /\ e # NoExtension
    BY <1>0, <1>1 DEF Retry, NeedsRetry, Emitting, NoExtension, Session
  <2>2. EnvelopeOf(e) \in Message /\ w \in Write
    BY <1>0, <2>1, EnvelopeType, EmittedType DEF Write
  <2>3. /\ Sent(h, EnvelopeOf(e), w) \/ NotSent(h, EnvelopeOf(e))
        /\ left' = left \/ left' = [left EXCEPT ![h] = Len(box[h])]
        /\ UNCHANGED <<sess, pend, drafts, crashes, agreed>>
    BY <1>1 DEF Retry
  <2> HIDE DEF e, w
  <2>4. /\ box' \in [Host -> Seq(Message)]
        /\ \A g \in Host : Len(box[g]) <= Len(box'[g])
        /\ suspended' \in [Host -> SUBSET Write] /\ losses' \in Nat
    BY <2>2, <2>3, SendType
  <2>5. left' \in [Host -> Nat] /\ \A g \in Host : left'[g] <= Len(box'[g])
    BY <2>3, <2>4, LeftKept
  <2>. QED
    BY <2>3, <2>4, <2>5 DEF TypeOK
<1>2. CASE Pull(h)
  <2>1. /\ UNCHANGED <<sess, pend, suspended, box, bounds, agreed>>
        /\ left' = [left EXCEPT ![h] = Len(box[h])]
    BY <1>2 DEF Pull
  <2>2. left' \in [Host -> Nat] /\ \A g \in Host : left'[g] <= Len(box'[g])
    BY <1>0, <2>1, LeftKept
  <2>. QED
    BY <2>1, <2>2 DEF TypeOK, bounds
<1>3. CASE Resume(h)
  <2>1. PICK w \in suspended[h] :
          /\ Put(h, w.to)
          /\ suspended' = [suspended EXCEPT ![h] = @ \ {w}]
          /\ left' = left \/ left' = [left EXCEPT ![h] = Len(box[h])]
          /\ UNCHANGED <<pend, box, bounds, agreed>>
    BY <1>3 DEF Resume
  <2>2. w \in Write /\ w.to \in Session
    BY <2>1 DEF TypeOK, Write
  <2>3. sess' \in [Host -> Session]
    BY <2>1, <2>2, PutType DEF TypeOK
  <2>4. left' \in [Host -> Nat] /\ \A g \in Host : left'[g] <= Len(box'[g])
    BY <1>0, <2>1, LeftKept
  <2>5. suspended' \in [Host -> SUBSET Write]
    BY <2>1 DEF TypeOK
  <2>. QED
    BY <2>1, <2>3, <2>4, <2>5 DEF TypeOK, bounds
<1>4. CASE Crash(h)
  <2>1. /\ left' = [left EXCEPT ![h] = 0]
        /\ crashes' = crashes + 1
        /\ suspended' = [suspended EXCEPT ![h] = {}]
        /\ UNCHANGED <<sess, box, drafts, losses, agreed>>
    BY <1>4 DEF Crash
  <2>2. left' \in [Host -> Nat] /\ \A g \in Host : left'[g] <= Len(box'[g])
    BY <1>0, <2>1, LeftKept
  <2>3. pend' \in [Host -> Proposal \cup {None, Numberless}]
    BY <1>4 DEF Crash, SetPend, TypeOK
  <2>4. suspended' \in [Host -> SUBSET Write] /\ crashes' \in Nat
    BY <2>1 DEF TypeOK
  <2>. QED
    BY <2>1, <2>2, <2>3, <2>4 DEF TypeOK
<1>. QED
  BY <1>1, <1>2, <1>3, <1>4

(* The envelopes of a pull.                                                *)
LEMMA DispatchTypes ==
  ASSUME TypeOK, NEW h \in Host, Dispatch(h)
  PROVE  TypeOK'
<1> DEFINE p == Head(box[h]).p
<1>0. sess[h] \in Session
  BY DEF TypeOK
<1>1. ASSUME NEW type, Take(h, type)
      PROVE  /\ box' \in [Host -> Seq(Message)] /\ left' \in [Host -> Nat]
             /\ \A g \in Host : left'[g] <= Len(box'[g])
             /\ type # "turn" => p \in Proposal
  BY <1>1, TakenType DEF Take
<1>2. CASE RecvTurn(h)
  <2>1. [sess[h] EXCEPT !.turns = @ + 1] \in Session
    BY <1>0 DEF Session
  <2>2. sess' \in [Host -> Session]
    BY <1>2, <2>1, PutType DEF RecvTurn, TypeOK
  <2>3. pend' \in [Host -> Proposal \cup {None, Numberless}]
    BY <1>2 DEF RecvTurn, QueueBudget, SetPend, TypeOK
  <2>. QED
    BY <1>1, <1>2, <2>2, <2>3 DEF RecvTurn, TypeOK, bounds
<1>3. CASE RecvProposeIgnored(h) \/ RecvProposeQueued(h)
  <2>1. Take(h, "propose") /\ UNCHANGED <<sess, suspended, bounds, agreed>>
    BY <1>3 DEF RecvProposeIgnored, RecvProposeQueued
  <2>2. p \in Proposal
    BY <1>1, <2>1
  <2>3. pend' \in [Host -> Proposal \cup {None, Numberless}]
    BY <1>3, <2>2 DEF RecvProposeIgnored, RecvProposeQueued, SetPend, TypeOK
  <2>. QED
    BY <1>1, <2>1, <2>3 DEF TypeOK, bounds
<1>4. CASE h = Initiator /\ RecvProposeWins
  <2> DEFINE m == [type |-> "reject", p |-> p]
             w == [kind |-> "race", p |-> p, to |-> [sess[h] EXCEPT !.decided = @ \cup {p}]]
  <2>1. IsNext(h, "propose")
    BY <1>4 DEF RecvProposeWins
  <2>2. /\ Taken(h) \in [Host -> Seq(Message)] /\ p \in Proposal
        /\ left' \in [Host -> Nat] /\ \A g \in Host : left'[g] <= Len(Taken(h)[g])
    BY <2>1, TakenType
  <2>3. m \in Message /\ w \in Write
    BY <1>0, <2>2, ApproveType DEF Message, Write
  <2>4. /\ box' = Taken(h) \/ box' = Posted(Taken(h), h, m)
        /\ losses' = losses \/ losses' = losses + 1
        /\ suspended' = [suspended EXCEPT ![h] = @ \cup {w}]
        /\ UNCHANGED <<sess, pend, drafts, crashes, agreed>>
    BY <1>4 DEF RecvProposeWins
  <2> HIDE DEF m, w
  <2>5. /\ Posted(Taken(h), h, m) \in [Host -> Seq(Message)]
        /\ \A g \in Host : Len(Taken(h)[g]) <= Len(Posted(Taken(h), h, m)[g])
    BY <2>2, <2>3, PostedType
  <2>6. ASSUME NEW g \in Host PROVE left'[g] <= Len(Posted(Taken(h), h, m)[g])
    <3>1. left'[g] <= Len(Taken(h)[g]) /\ Len(Taken(h)[g]) <= Len(Posted(Taken(h), h, m)[g])
      BY <2>2, <2>5
    <3>2. /\ left'[g] \in Nat /\ Len(Taken(h)[g]) \in Nat
          /\ Len(Posted(Taken(h), h, m)[g]) \in Nat
      BY <2>2, <2>5
    <3>. QED
      BY <3>1, <3>2
  <2>7. box' \in [Host -> Seq(Message)] /\ \A g \in Host : left'[g] <= Len(box'[g])
    BY <2>2, <2>4, <2>5, <2>6
  <2>8. suspended' \in [Host -> SUBSET Write] /\ losses' \in Nat
    BY <2>3, <2>4 DEF TypeOK
  <2>. QED
    BY <2>2, <2>4, <2>7, <2>8 DEF TypeOK
<1>5. CASE h = Recipient /\ RecvProposeYields
  <2>1. /\ Take(h, "propose") /\ HasOwnExtension(sess[h], h)
        /\ Put(h, [sess[h] EXCEPT !.ext = NoExtension,
                                  !.decided = @ \cup {sess[h].ext.p}])
        /\ SetPend(h, p)
        /\ UNCHANGED <<suspended, bounds, agreed>>
    BY <1>5 DEF RecvProposeYields
  <2>2. sess[h].ext.p \in Proposal
    BY <1>0, <2>1, EnvelopeType DEF HasOwnExtension, Session
  <2>3. [sess[h] EXCEPT !.ext = NoExtension, !.decided = @ \cup {sess[h].ext.p}] \in Session
    BY <1>0, <2>2 DEF Session, Extension
  <2>4. sess' \in [Host -> Session]
    BY <2>1, <2>3, PutType DEF TypeOK
  <2>5. pend' \in [Host -> Proposal \cup {None, Numberless}]
    BY <1>1, <2>1 DEF SetPend, TypeOK
  <2>. QED
    BY <1>1, <2>1, <2>4, <2>5 DEF TypeOK, bounds
<1>6. CASE RecvApproved(h) \/ RecvReject(h)
  <2>1. /\ Take(h, "approved") \/ Take(h, "reject")
        /\ UNCHANGED <<pend, suspended, bounds, agreed>>
    BY <1>6 DEF RecvApproved, RecvReject
  <2>2. p \in Proposal
    BY <1>1, <2>1
  <2>3. /\ [sess[h] EXCEPT !.max = p.num, !.decided = @ \cup {p}, !.ext = NoExtension] \in Session
        /\ [sess[h] EXCEPT !.decided = @ \cup {p}, !.ext = NoExtension] \in Session
    BY <1>0, <2>2, ApproveType
  <2>4. sess' \in [Host -> Session]
    BY <1>6, <2>3, PutType DEF RecvApproved, RecvReject, TypeOK
  <2>. QED
    BY <1>1, <2>1, <2>4 DEF TypeOK, bounds
<1>. QED
  BY <1>2, <1>3, <1>4, <1>5, <1>6 DEF Dispatch

(* Every variable stays in its type, and a pull never counts more          *)
(* envelopes than the inbox holds.                                         *)
THEOREM TypeCorrect == Spec => []TypeOK
<1>1. Init => TypeOK
  BY DEF Init, TypeOK, Session, Extension
<1>2. TypeOK /\ [Next]_vars => TypeOK'
  <2> SUFFICES ASSUME TypeOK, [Next]_vars PROVE TypeOK'
    OBVIOUS
  <2>1. CASE UNCHANGED vars
    BY <2>1 DEF TypeOK, vars, bounds
  <2>2. CASE Next
    BY <2>2, AgentTypes, LoopTypes, DispatchTypes DEF Next
  <2>. QED
    BY <2>1, <2>2
<1>. QED
  BY <1>1, <1>2, PTL DEF Spec

-----------------------------------------------------------------------------
(* Consent                                                                 *)

(* Approvals are only ever added.                                          *)
Grows == \A h \in Host : agreed[h] \subseteq agreed'[h]

(* What is grounded stays grounded when approvals are added.               *)
LEMMA GroundedGrows ==
  ASSUME Grows
  PROVE  /\ \A s : \A h \in Host : RecordGrounded(s, h, agreed) => RecordGrounded(s, h, agreed')
         /\ \A m : \A h \in Host : MessageGrounded(m, h, agreed) => MessageGrounded(m, h, agreed')
<1>1. /\ agreed[Initiator] \subseteq agreed'[Initiator]
      /\ agreed[Recipient] \subseteq agreed'[Recipient]
  BY DEF Grows, Host
<1>2. ASSUME NEW s, NEW h \in Host, RecordGrounded(s, h, agreed)
      PROVE  RecordGrounded(s, h, agreed')
  BY <1>1, <1>2 DEF RecordGrounded, Grows
<1>3. ASSUME NEW m, NEW h \in Host, MessageGrounded(m, h, agreed)
      PROVE  MessageGrounded(m, h, agreed')
  BY <1>1, <1>3, PeerType DEF MessageGrounded, Grows
<1>. QED
  BY <1>2, <1>3

(* A host's record, put by its handler.                                    *)
LEMMA PutGrounded ==
  ASSUME TypeOK, BudgetInv, Grows, NEW h \in Host, NEW s, RecordGrounded(s, h, agreed'),
         Put(h, s)
  PROVE  RecordsGrounded'
<1>1. \A g \in Host : sess'[g] = IF g = h THEN s ELSE sess[g]
  BY DEF Put, TypeOK
<1>2. \A g \in Host : RecordGrounded(sess[g], g, agreed')
  BY GroundedGrows DEF BudgetInv, RecordsGrounded
<1>. QED
  BY <1>1, <1>2 DEF RecordsGrounded

(* What no handler touches stays grounded.                                 *)
LEMMA FrameGrounded ==
  ASSUME TypeOK, BudgetInv, Grows
  PROVE  /\ UNCHANGED sess => RecordsGrounded'
         /\ (\A g \in Host : suspended'[g] \subseteq suspended[g]) => WritesGrounded'
         /\ UNCHANGED box => InboxesGrounded'
         /\ (\A g \in Host : pend'[g] \in {pend[g], None, Numberless}) => ItemsGrounded'
<1>1. UNCHANGED sess => RecordsGrounded'
  BY GroundedGrows DEF BudgetInv, RecordsGrounded
<1>2. (\A g \in Host : suspended'[g] \subseteq suspended[g]) => WritesGrounded'
  BY GroundedGrows DEF BudgetInv, WritesGrounded
<1>3. UNCHANGED box => InboxesGrounded'
  BY GroundedGrows DEF BudgetInv, InboxesGrounded
<1>4. (\A g \in Host : pend'[g] \in {pend[g], None, Numberless}) => ItemsGrounded'
  BY NoneAssumption, PeerType DEF BudgetInv, ItemsGrounded, Grows
<1>. QED
  BY <1>1, <1>2, <1>3, <1>4

(* An inbox that gets one more grounded envelope.                          *)
LEMMA PostedGrounded ==
  ASSUME NEW b \in [Host -> Seq(Message)], NEW h \in Host, NEW m \in Message, NEW ag,
         \A g \in Host : \A i \in DOMAIN b[g] : MessageGrounded(b[g][i], g, ag),
         MessageGrounded(m, Peer(h), ag)
  PROVE  \A g \in Host : \A i \in DOMAIN Posted(b, h, m)[g] :
           MessageGrounded(Posted(b, h, m)[g][i], g, ag)
<1> SUFFICES ASSUME NEW g \in Host, NEW i \in DOMAIN Posted(b, h, m)[g]
             PROVE  MessageGrounded(Posted(b, h, m)[g][i], g, ag)
  OBVIOUS
<1>1. CASE g = Peer(h)
  <2>1. Posted(b, h, m)[g] = Append(b[g], m)
    BY <1>1 DEF Posted
  <2>2. b[g] \in Seq(Message)
    OBVIOUS
  <2>3. i \in 1 .. Len(b[g]) + 1
    BY <2>1, <2>2
  <2>4. CASE i = Len(b[g]) + 1
    <3>1. Posted(b, h, m)[g][i] = m
      BY <2>1, <2>2, <2>4
    <3>. QED
      BY <1>1, <3>1
  <2>5. CASE i # Len(b[g]) + 1
    <3>1. i \in DOMAIN b[g] /\ Posted(b, h, m)[g][i] = b[g][i]
      BY <2>1, <2>2, <2>3, <2>5
    <3>. QED
      BY <3>1
  <2>. QED
    BY <2>4, <2>5
<1>2. CASE g # Peer(h)
  BY <1>2 DEF Posted
<1>. QED
  BY <1>1, <1>2

(* A send of a grounded envelope, with a grounded write behind it.         *)
LEMMA SendGrounded ==
  ASSUME TypeOK, BudgetInv, Grows, NEW h \in Host, NEW m \in Message, NEW w \in Write,
         MessageGrounded(m, Peer(h), agreed'), RecordGrounded(w.to, h, agreed'),
         Sent(h, m, w) \/ NotSent(h, m)
  PROVE  WritesGrounded' /\ InboxesGrounded'
<1>1. \A g \in Host : \A i \in DOMAIN box[g] : MessageGrounded(box[g][i], g, agreed')
  BY GroundedGrows DEF BudgetInv, InboxesGrounded
<1>2. \A g \in Host : \A i \in DOMAIN Posted(box, h, m)[g] :
        MessageGrounded(Posted(box, h, m)[g][i], g, agreed')
  BY <1>1, PostedGrounded DEF TypeOK
<1>3. box' = box \/ box' = Posted(box, h, m)
  BY DEF Sent, NotSent
<1>4. InboxesGrounded'
  BY <1>1, <1>2, <1>3 DEF InboxesGrounded
<1>5. \A g \in Host : \A v \in suspended'[g] : v \in suspended[g] \/ (g = h /\ v = w)
  BY DEF Sent, NotSent, TypeOK
<1>6. \A g \in Host : \A v \in suspended[g] : RecordGrounded(v.to, g, agreed')
  BY GroundedGrows DEF BudgetInv, WritesGrounded
<1>7. WritesGrounded'
  BY <1>5, <1>6 DEF WritesGrounded
<1>. QED
  BY <1>4, <1>7

(* Of a grounded record, the envelope of its extension and the record once *)
(* that is out.                                                            *)
LEMMA EmittedGrounded ==
  ASSUME NEW s \in Session, NEW h \in Host, NEW ag, RecordGrounded(s, h, ag),
         s.ext.st \in Emitting
  PROVE  MessageGrounded(EnvelopeOf(s.ext), Peer(h), ag) /\ RecordGrounded(Emitted(s), h, ag)
<1>1. /\ EnvelopeOf(s.ext).p = s.ext.p
      /\ EnvelopeOf(s.ext).type = "propose" => s.ext.st = "emitting"
      /\ EnvelopeOf(s.ext).type = "approved" => s.ext.st = "approved_emitting"
  BY DEF EnvelopeOf
<1>2. MessageGrounded(EnvelopeOf(s.ext), Peer(h), ag)
  BY <1>1, PeerType DEF MessageGrounded, RecordGrounded
<1>3. CASE s.ext.st = "emitting"
  <2>1. s.ext \in [p : Proposal, st : Emitting \cup {"awaiting_peer"}]
    BY <1>3 DEF Session, Extension, NoExtension
  <2>2. Emitted(s) = [s EXCEPT !.ext = [s.ext EXCEPT !.st = "awaiting_peer"]]
    BY <1>3 DEF Emitted, Session
  <2>3. /\ Emitted(s).max = s.max /\ Emitted(s).ext.p = s.ext.p
        /\ Emitted(s).ext.st = "awaiting_peer"
    BY <2>1, <2>2 DEF Session
  <2>. QED
    BY <1>2, <1>3, <2>3 DEF RecordGrounded
<1>4. CASE s.ext.st # "emitting"
  <2>1. Emitted(s).max = s.max /\ Emitted(s).ext = NoExtension
    BY <1>4 DEF Emitted, Session
  <2>. QED
    BY <1>2, <2>1 DEF RecordGrounded, NoExtension
<1>. QED
  BY <1>3, <1>4

(* emitBudgetEnvelope.                                                     *)
LEMMA EmitGrounded ==
  ASSUME TypeOK, BudgetInv, Grows, NEW h \in Host, NEW s \in Session,
         s.ext.st \in Emitting, RecordGrounded(s, h, agreed'), Emit(h, s)
  PROVE  RecordsGrounded' /\ WritesGrounded' /\ InboxesGrounded'
<1> DEFINE w == [kind |-> "emit", p |-> s.ext.p, to |-> Emitted(s)]
<1>1. s.ext \in Extension /\ s.ext # NoExtension
  BY DEF Session, NoExtension, Emitting
<1>2. EnvelopeOf(s.ext) \in Message /\ w \in Write
  BY <1>1, EnvelopeType, EmittedType DEF Write
<1>3. /\ MessageGrounded(EnvelopeOf(s.ext), Peer(h), agreed')
      /\ RecordGrounded(w.to, h, agreed')
  BY EmittedGrounded
<1>4. Sent(h, EnvelopeOf(s.ext), w) \/ NotSent(h, EnvelopeOf(s.ext))
  BY DEF Emit
<1>5. RecordsGrounded'
  BY PutGrounded DEF Emit
<1> HIDE DEF w
<1>. QED
  BY <1>2, <1>3, <1>4, <1>5, SendGrounded

(* What agent and human do.                                                *)
LEMMA AgentGrounded ==
  ASSUME TypeOK, BudgetInv, NEW h \in Host,
         Extend(h) \/ Approve(h) \/ Reject(h) \/ Turn(h) \/ LeaveLive(h)
  PROVE  BudgetInv'
<1>0. sess[h] \in Session /\ RecordGrounded(sess[h], h, agreed)
  BY DEF TypeOK, BudgetInv, RecordsGrounded
<1>1. CASE Extend(h)
  <2>1. PICK p \in [by : {h}, n : {drafts[h] + 1}, num : Num] :
          /\ SetPend(h, p)
          /\ UNCHANGED <<sess, suspended, box, agreed>>
    BY <1>1 DEF Extend
  <2>2. Grows
    BY <2>1 DEF Grows
  <2>3. RecordsGrounded' /\ WritesGrounded' /\ InboxesGrounded'
    BY <2>1, <2>2, FrameGrounded
  <2>4. \A g \in Host : pend'[g] = IF g = h THEN p ELSE pend[g]
    BY <2>1 DEF SetPend, TypeOK
  <2>5. ItemsGrounded'
    BY <2>1, <2>4 DEF BudgetInv, ItemsGrounded
  <2>. QED
    BY <2>3, <2>5 DEF BudgetInv
<1>2. CASE Approve(h)
  <2> DEFINE p == pend[h]
             own == [sess[h] EXCEPT !.ext = [p |-> p, st |-> "emitting"]]
             peers == [sess[h] EXCEPT !.max = p.num, !.decided = @ \cup {p},
                                      !.ext = [p |-> p, st |-> "approved_emitting"]]
  <2>1. /\ p \in Proposal /\ SetPend(h, None)
        /\ agreed' = [agreed EXCEPT ![h] = @ \cup {p}]
        /\ Emit(h, IF p.by = h THEN own ELSE peers)
    BY <1>2 DEF Approve
  <2>2. Grows /\ p \in agreed'[h]
    BY <2>1 DEF Grows, TypeOK
  <2>3. ItemsGrounded'
    BY <2>1, <2>2, FrameGrounded DEF SetPend, TypeOK
  <2>4. own \in Session /\ peers \in Session
    BY <1>0, <2>1, ApproveType
  <2>5. RecordGrounded(sess[h], h, agreed')
    BY <1>0, <2>2, GroundedGrows
  <2>6. CASE p.by = h
    <3>1. own.max = sess[h].max /\ own.ext.p = p /\ own.ext.st = "emitting"
      BY <1>0 DEF Session
    <3>2. RecordGrounded(own, h, agreed')
      BY <2>2, <2>5, <3>1 DEF RecordGrounded
    <3> HIDE DEF own, peers
    <3>3. RecordsGrounded' /\ WritesGrounded' /\ InboxesGrounded'
      BY <2>1, <2>2, <2>4, <2>6, <3>1, <3>2, EmitGrounded DEF Emitting
    <3>. QED
      BY <2>3, <3>3 DEF BudgetInv
  <2>7. CASE p.by # h
    <3>1. p \in agreed'[Initiator] \cap agreed'[Recipient]
      <4>1. p \in agreed[Peer(h)]
        BY <2>1, <2>7 DEF BudgetInv, ItemsGrounded
      <4>2. p \in agreed'[h] /\ p \in agreed'[Peer(h)]
        BY <2>2, <4>1, PeerType DEF Grows
      <4>. QED
        BY <4>2 DEF Host, Peer
    <3>2. peers.max = p.num /\ peers.ext.p = p /\ peers.ext.st = "approved_emitting"
      BY <1>0 DEF Session
    <3>3. RecordGrounded(peers, h, agreed')
      BY <3>1, <3>2 DEF RecordGrounded
    <3> HIDE DEF own, peers
    <3>4. RecordsGrounded' /\ WritesGrounded' /\ InboxesGrounded'
      BY <2>1, <2>2, <2>4, <2>7, <3>2, <3>3, EmitGrounded DEF Emitting
    <3>. QED
      BY <2>3, <3>4 DEF BudgetInv
  <2>. QED
    BY <2>6, <2>7
<1>3. CASE Reject(h)
  <2> DEFINE p == pend[h]
             s == [sess[h] EXCEPT !.decided = @ \cup {p},
                                  !.ext = [p |-> p, st |-> "rejected_emitting"]]
  <2>1. /\ SetPend(h, None) /\ UNCHANGED agreed
        /\ \/ p \in Proposal /\ Emit(h, s)
           \/ UNCHANGED <<sess, suspended, box>>
    BY <1>3 DEF Reject
  <2>2. Grows
    BY <2>1 DEF Grows
  <2>3. ItemsGrounded'
    BY <2>1, <2>2, FrameGrounded DEF SetPend, TypeOK
  <2>4. CASE UNCHANGED <<sess, suspended, box>>
    BY <2>2, <2>3, <2>4, FrameGrounded DEF BudgetInv
  <2>5. CASE p \in Proposal /\ Emit(h, s)
    <3>1. s \in Session
      BY <1>0, <2>5, ApproveType
    <3>2. s.max = sess[h].max /\ s.ext.st = "rejected_emitting"
      BY <1>0 DEF Session
    <3>3. RecordGrounded(s, h, agreed')
      BY <1>0, <2>1, <3>2 DEF RecordGrounded
    <3> HIDE DEF s
    <3>4. RecordsGrounded' /\ WritesGrounded' /\ InboxesGrounded'
      BY <2>2, <2>5, <3>1, <3>2, <3>3, EmitGrounded DEF Emitting
    <3>. QED
      BY <2>3, <3>4 DEF BudgetInv
  <2>. QED
    BY <2>1, <2>4, <2>5
<1>4. CASE Turn(h)
  <2> DEFINE s == [sess[h] EXCEPT !.turns = @ + 1]
  <2>1. /\ UNCHANGED <<suspended, agreed>>
        /\ \/ QueueBudget(h) /\ UNCHANGED <<sess, box>>
           \/ Put(h, s) /\ box' = Posted(box, h, TurnMessage) /\ UNCHANGED pend
    BY <1>4 DEF Turn
  <2>2. Grows /\ UNCHANGED agreed
    BY <2>1 DEF Grows
  <2>3. WritesGrounded' /\ ItemsGrounded'
    BY <2>1, <2>2, FrameGrounded DEF QueueBudget, SetPend, TypeOK
  <2>4. RecordGrounded(s, h, agreed')
    BY <1>0, <2>1 DEF RecordGrounded, Session
  <2>5. RecordsGrounded'
    BY <2>1, <2>2, <2>4, FrameGrounded, PutGrounded
  <2>6. TurnMessage \in Message /\ MessageGrounded(TurnMessage, Peer(h), agreed')
    BY DEF Message, TurnMessage, MessageGrounded
  <2>7. \A g \in Host : \A i \in DOMAIN box[g] : MessageGrounded(box[g][i], g, agreed')
    BY <2>2, GroundedGrows DEF BudgetInv, InboxesGrounded
  <2>8. \A g \in Host : \A i \in DOMAIN Posted(box, h, TurnMessage)[g] :
          MessageGrounded(Posted(box, h, TurnMessage)[g][i], g, agreed')
    BY <2>6, <2>7, PostedGrounded DEF TypeOK
  <2>9. InboxesGrounded'
    BY <2>1, <2>7, <2>8 DEF InboxesGrounded
  <2>. QED
    BY <2>3, <2>5, <2>9 DEF BudgetInv
<1>5. CASE LeaveLive(h)
  <2> DEFINE s == [sess[h] EXCEPT !.live = FALSE, !.ext = NoExtension]
  <2>1. Put(h, s) /\ SetPend(h, None) /\ UNCHANGED <<suspended, box, agreed>>
    BY <1>5 DEF LeaveLive
  <2>2. Grows
    BY <2>1 DEF Grows
  <2>3. RecordGrounded(s, h, agreed')
    BY <1>0, <2>1 DEF RecordGrounded, Session, NoExtension
  <2>4. RecordsGrounded'
    BY <2>1, <2>2, <2>3, PutGrounded
  <2>. QED
    BY <2>1, <2>2, <2>4, FrameGrounded DEF BudgetInv, SetPend, TypeOK
<1>. QED
  BY <1>1, <1>2, <1>3, <1>4, <1>5

(* The retry, the pull, and handlers that resume or die.                   *)
LEMMA LoopGrounded ==
  ASSUME TypeOK, BudgetInv, NEW h \in Host, Retry(h) \/ Pull(h) \/ Resume(h) \/ Crash(h)
  PROVE  BudgetInv'
<1>0. /\ sess[h] \in Session /\ RecordGrounded(sess[h], h, agreed)
      /\ UNCHANGED agreed /\ Grows
  BY DEF TypeOK, BudgetInv, RecordsGrounded, Retry, Pull, Resume, Crash, Grows
<1>1. CASE Retry(h)
  <2> DEFINE e == sess[h].ext
             w == [kind |-> "retry", p |-> e.p, to |-> Emitted(sess[h])]
  <2>1. e \in Extension /\ e # NoExtension /\ e.st \in Emitting
    BY <1>0, <1>1 DEF Retry, NeedsRetry, Emitting, NoExtension, Session
  <2>2. EnvelopeOf(e) \in Message /\ w \in Write
    BY <1>0, <2>1, EnvelopeType, EmittedType DEF Write
  <2>3. /\ MessageGrounded(EnvelopeOf(e), Peer(h), agreed')
        /\ RecordGrounded(w.to, h, agreed')
    BY <1>0, <2>1, EmittedGrounded
  <2>4. /\ Sent(h, EnvelopeOf(e), w) \/ NotSent(h, EnvelopeOf(e))
        /\ UNCHANGED <<sess, pend>>
    BY <1>1 DEF Retry
  <2> HIDE DEF e, w
  <2>5. WritesGrounded' /\ InboxesGrounded'
    BY <1>0, <2>2, <2>3, <2>4, SendGrounded
  <2>. QED
    BY <1>0, <2>4, <2>5, FrameGrounded DEF BudgetInv
<1>2. CASE Pull(h)
  BY <1>0, <1>2, FrameGrounded DEF Pull, BudgetInv
<1>3. CASE Resume(h)
  <2>1. PICK w \in suspended[h] :
          /\ Put(h, w.to)
          /\ suspended' = [suspended EXCEPT ![h] = @ \ {w}]
          /\ UNCHANGED <<pend, box>>
    BY <1>3 DEF Resume
  <2>2. RecordGrounded(w.to, h, agreed')
    BY <1>0, <2>1 DEF BudgetInv, WritesGrounded
  <2>3. RecordsGrounded'
    BY <1>0, <2>1, <2>2, PutGrounded
  <2>. QED
    BY <1>0, <2>1, <2>3, FrameGrounded DEF BudgetInv, TypeOK
<1>4. CASE Crash(h)
  BY <1>0, <1>4, FrameGrounded DEF Crash, BudgetInv, SetPend, TypeOK
<1>. QED
  BY <1>1, <1>2, <1>3, <1>4

(* The envelopes of a pull.                                                *)
LEMMA DispatchGrounded ==
  ASSUME TypeOK, BudgetInv, NEW h \in Host, Dispatch(h)
  PROVE  BudgetInv'
<1> DEFINE p == Head(box[h]).p
<1>0. /\ sess[h] \in Session /\ RecordGrounded(sess[h], h, agreed)
      /\ UNCHANGED agreed /\ Grows
  BY DEF TypeOK, BudgetInv, RecordsGrounded, Grows, Dispatch, RecvTurn, RecvProposeIgnored,
     RecvProposeQueued, RecvProposeWins, RecvProposeYields, RecvApproved, RecvReject
<1>1. ASSUME NEW type, IsNext(h, type)
      PROVE  /\ \A g \in Host : \A i \in DOMAIN Taken(h)[g] :
                  MessageGrounded(Taken(h)[g][i], g, agreed')
             /\ type = "propose" => p \in agreed[Peer(h)]
             /\ type = "approved" => p \in agreed[Initiator] \cap agreed[Recipient]
             /\ type # "turn" => p \in Proposal
             /\ Taken(h) \in [Host -> Seq(Message)]
  <2>1. /\ \A g \in Host : \A i \in DOMAIN Taken(h)[g] :
             \E j \in DOMAIN box[g] : Taken(h)[g][i] = box[g][j]
        /\ \E j \in DOMAIN box[h] : Head(box[h]) = box[h][j]
        /\ Head(box[h]).type = type
        /\ type # "turn" => p \in Proposal
        /\ Taken(h) \in [Host -> Seq(Message)]
    BY <1>1, TakenType
  <2>2. \A g \in Host : \A j \in DOMAIN box[g] :
          MessageGrounded(box[g][j], g, agreed) /\ MessageGrounded(box[g][j], g, agreed')
    BY <1>0, GroundedGrows DEF BudgetInv, InboxesGrounded
  <2>3. MessageGrounded(Head(box[h]), h, agreed)
    BY <2>1, <2>2
  <2>4. \A g \in Host : \A i \in DOMAIN Taken(h)[g] :
          MessageGrounded(Taken(h)[g][i], g, agreed')
    BY <2>1, <2>2
  <2>. QED
    BY <2>1, <2>3, <2>4 DEF MessageGrounded
<1>2. ASSUME NEW type, Take(h, type)
      PROVE  IsNext(h, type) /\ InboxesGrounded'
  BY <1>1, <1>2 DEF Take, InboxesGrounded
<1>3. CASE RecvTurn(h)
  <2> DEFINE s == [sess[h] EXCEPT !.turns = @ + 1]
  <2>1. RecordGrounded(s, h, agreed')
    BY <1>0 DEF RecordGrounded, Session
  <2>2. /\ UNCHANGED sess \/ Put(h, s)
        /\ UNCHANGED pend \/ QueueBudget(h)
        /\ UNCHANGED suspended
        /\ Take(h, "turn")
    BY <1>3 DEF RecvTurn
  <2>3. RecordsGrounded'
    BY <1>0, <2>1, <2>2, FrameGrounded, PutGrounded
  <2>4. WritesGrounded' /\ ItemsGrounded'
    BY <1>0, <2>2, FrameGrounded DEF QueueBudget, SetPend, TypeOK
  <2>. QED
    BY <1>2, <2>2, <2>3, <2>4 DEF BudgetInv
<1>4. CASE RecvProposeIgnored(h)
  BY <1>0, <1>2, <1>4, FrameGrounded DEF RecvProposeIgnored, BudgetInv
<1>5. ASSUME SetPend(h, p), p \in agreed[Peer(h)]
      PROVE  ItemsGrounded'
  <2>1. \A g \in Host : pend'[g] = IF g = h THEN p ELSE pend[g]
    BY <1>5 DEF SetPend, TypeOK
  <2>. QED
    BY <1>0, <1>5, <2>1 DEF BudgetInv, ItemsGrounded
<1>6. CASE RecvProposeQueued(h)
  <2>1. Take(h, "propose") /\ SetPend(h, p) /\ UNCHANGED <<sess, suspended>>
    BY <1>6 DEF RecvProposeQueued
  <2>2. InboxesGrounded' /\ ItemsGrounded'
    BY <1>1, <1>2, <1>5, <2>1
  <2>. QED
    BY <1>0, <2>1, <2>2, FrameGrounded DEF BudgetInv
<1>7. CASE h = Initiator /\ RecvProposeWins
  <2> DEFINE m == [type |-> "reject", p |-> p]
             w == [kind |-> "race", p |-> p, to |-> [sess[h] EXCEPT !.decided = @ \cup {p}]]
  <2>1. /\ IsNext(h, "propose")
        /\ suspended' = [suspended EXCEPT ![h] = @ \cup {w}]
        /\ box' = Taken(h) \/ box' = Posted(Taken(h), h, m)
        /\ UNCHANGED <<sess, pend>>
    BY <1>7 DEF RecvProposeWins
  <2>2. m \in Message /\ MessageGrounded(m, Peer(h), agreed')
    BY <1>1, <2>1 DEF Message, MessageGrounded
  <2>3. RecordGrounded(w.to, h, agreed')
    BY <1>0 DEF RecordGrounded, Session
  <2> HIDE DEF m, w
  <2>4. \A g \in Host : \A i \in DOMAIN Posted(Taken(h), h, m)[g] :
          MessageGrounded(Posted(Taken(h), h, m)[g][i], g, agreed')
    BY <1>1, <2>1, <2>2, PostedGrounded
  <2>5. InboxesGrounded'
    BY <1>1, <2>1, <2>4 DEF InboxesGrounded
  <2>6. \A g \in Host : \A v \in suspended'[g] : v \in suspended[g] \/ (g = h /\ v = w)
    BY <2>1 DEF TypeOK
  <2>7. WritesGrounded'
    BY <1>0, <2>3, <2>6 DEF BudgetInv, WritesGrounded
  <2>. QED
    BY <1>0, <2>1, <2>5, <2>7, FrameGrounded DEF BudgetInv
<1>8. CASE h = Recipient /\ RecvProposeYields
  <2> DEFINE s == [sess[h] EXCEPT !.ext = NoExtension, !.decided = @ \cup {sess[h].ext.p}]
  <2>1. Take(h, "propose") /\ Put(h, s) /\ SetPend(h, p) /\ UNCHANGED suspended
    BY <1>8 DEF RecvProposeYields
  <2>2. RecordGrounded(s, h, agreed')
    BY <1>0 DEF RecordGrounded, Session, NoExtension
  <2>3. InboxesGrounded' /\ ItemsGrounded'
    BY <1>1, <1>2, <1>5, <2>1
  <2>4. RecordsGrounded'
    BY <1>0, <2>1, <2>2, PutGrounded
  <2>. QED
    BY <1>0, <2>1, <2>3, <2>4, FrameGrounded DEF BudgetInv
<1>9. CASE RecvApproved(h) \/ RecvReject(h)
  <2> DEFINE up == [sess[h] EXCEPT !.max = p.num, !.decided = @ \cup {p}, !.ext = NoExtension]
             off == [sess[h] EXCEPT !.decided = @ \cup {p}, !.ext = NoExtension]
  <2>1. /\ \/ Take(h, "approved") /\ Put(h, up)
           \/ Take(h, "approved") /\ UNCHANGED sess
           \/ Take(h, "reject") /\ (Put(h, off) \/ UNCHANGED sess)
        /\ UNCHANGED <<pend, suspended>>
    BY <1>9 DEF RecvApproved, RecvReject
  <2>2. IsNext(h, "approved") => RecordGrounded(up, h, agreed')
    BY <1>0, <1>1 DEF RecordGrounded, Session, NoExtension
  <2>3. RecordGrounded(off, h, agreed')
    BY <1>0 DEF RecordGrounded, Session, NoExtension
  <2>4. RecordsGrounded'
    BY <1>0, <1>2, <2>1, <2>2, <2>3, FrameGrounded, PutGrounded
  <2>. QED
    BY <1>0, <1>2, <2>1, <2>4, FrameGrounded DEF BudgetInv
<1>. QED
  BY <1>3, <1>4, <1>6, <1>7, <1>8, <1>9 DEF Dispatch

(* Every record, suspended write, envelope and pending item that can raise *)
(* a max_turns goes back to the approvals of the humans.                   *)
THEOREM BudgetInvariant == Spec => []BudgetInv
<1>1. Init => BudgetInv
  BY NoneAssumption DEF Init, BudgetInv, RecordsGrounded, WritesGrounded, InboxesGrounded,
     ItemsGrounded, RecordGrounded, NoExtension
<1>2. TypeOK /\ BudgetInv /\ [Next]_vars => BudgetInv'
  <2> SUFFICES ASSUME TypeOK, BudgetInv, [Next]_vars PROVE BudgetInv'
    OBVIOUS
  <2>1. CASE UNCHANGED vars
    BY <2>1 DEF vars, bounds, BudgetInv, RecordsGrounded, WritesGrounded, InboxesGrounded,
       ItemsGrounded
  <2>2. CASE Next
    BY <2>2, AgentGrounded, LoopGrounded, DispatchGrounded DEF Next
  <2>. QED
    BY <2>1, <2>2
<1>. QED
  BY <1>1, <1>2, TypeCorrect, PTL DEF Spec

(* N4: the human of each host approved, in one proposal, whatever max_turns*)
(* a host has beyond the one of the opening.                               *)
THEOREM BudgetSafety == Spec => []MaxNeedsBothHumans
<1>1. BudgetInv => MaxNeedsBothHumans
  BY DEF BudgetInv, RecordsGrounded, RecordGrounded, MaxNeedsBothHumans, AgreedByBoth
<1>. QED
  BY <1>1, BudgetInvariant, PTL

-----------------------------------------------------------------------------
(* A host whose handlers wait for each other never lowers its max_turns    *)

OwnExtension(s, h) == s.ext.st \in {"emitting", "awaiting_peer"} => s.ext.p.by = h

(* The inductive invariant of such a host h: what waits for its human is   *)
(* above the present max_turns, and stands beside no extension of its own; *)
(* the write that waits for its send, the only one, changes neither.       *)
MonoInv(h) ==
  /\ pend[h] \in Proposal => pend[h].num > sess[h].max /\ ~HasOwnExtension(sess[h], h)
  /\ OwnExtension(sess[h], h)
  /\ \A w \in suspended[h] :
       /\ suspended[h] = {w} /\ w.to.max = sess[h].max
       /\ OwnExtension(w.to, h)
       /\ HasOwnExtension(w.to, h) => HasOwnExtension(sess[h], h)

Serial == Host \ Overlapping
Mono == \A h \in Serial : MonoInv(h)

(* What a step of host g promises host h.                                  *)
MonoStep(h) == MonoInv(h)' /\ sess'[h].max >= sess[h].max

LEMMA MaxType ==
  ASSUME TypeOK, NEW h \in Host
  PROVE  /\ sess[h] \in Session /\ sess[h].max \in Nat /\ sess[h].ext \in Extension
         /\ pend[h] \in Proposal => pend[h].num \in Nat
BY NumAssumption DEF TypeOK, Session, Proposal

LEMMA MonoFrame ==
  ASSUME TypeOK, NEW h \in Host, MonoInv(h),
         sess'[h] = sess[h], pend'[h] = pend[h] \/ pend'[h] \notin Proposal,
         suspended'[h] = suspended[h] \/ suspended'[h] = {}
  PROVE  MonoStep(h)
<1>1. sess'[h].max >= sess[h].max
  BY MaxType
<1>2. MonoInv(h)'
  BY DEF MonoInv
<1>. QED
  BY <1>1, <1>2 DEF MonoStep

(* The step of one host leaves the other host's record alone.              *)
LEMMA MonoPeer ==
  ASSUME TypeOK, Mono, NEW g \in Host, NEW h \in Serial, h # g,
         \/ Extend(g) \/ Approve(g) \/ Reject(g) \/ Turn(g) \/ LeaveLive(g)
         \/ Retry(g) \/ Pull(g) \/ Dispatch(g) \/ Resume(g) \/ Crash(g)
  PROVE  MonoStep(h)
<1>. USE DEF Put, SetPend, TypeOK, Serial
<1>0. ASSUME NEW s, Emit(g, s) PROVE sess'[h] = sess[h] /\ suspended'[h] = suspended[h]
  BY <1>0 DEF Emit, Sent, NotSent
<1>1. CASE Extend(g) \/ Turn(g) \/ LeaveLive(g)
  BY <1>1, MonoFrame DEF Extend, Turn, LeaveLive, QueueBudget, Mono
<1>2. CASE Approve(g)
  BY <1>0, <1>2, MonoFrame DEF Approve, Mono
<1>3. CASE Reject(g)
  BY <1>0, <1>3, MonoFrame DEF Reject, Mono
<1>4. CASE Retry(g)
  BY <1>4, MonoFrame DEF Retry, Sent, NotSent, Mono
<1>5. CASE Pull(g) \/ Resume(g) \/ Crash(g)
  BY <1>5, MonoFrame DEF Pull, Resume, Crash, Mono
<1>6. CASE RecvTurn(g) \/ RecvProposeIgnored(g) \/ RecvProposeQueued(g)
  BY <1>6, MonoFrame DEF RecvTurn, RecvProposeIgnored, RecvProposeQueued, QueueBudget, Mono
<1>7. CASE (g = Initiator /\ RecvProposeWins) \/ (g = Recipient /\ RecvProposeYields)
  BY <1>7, MonoFrame DEF RecvProposeWins, RecvProposeYields, Mono
<1>8. CASE RecvApproved(g) \/ RecvReject(g)
  BY <1>8, MonoFrame DEF RecvApproved, RecvReject, Mono
<1>. QED
  BY <1>1, <1>2, <1>3, <1>4, <1>5, <1>6, <1>7, <1>8 DEF Dispatch

(* A turn is counted, or an exhausted budget asks the human.               *)
LEMMA TurnMono ==
  ASSUME TypeOK, NEW h \in Host, MonoInv(h), suspended[h] = {}, UNCHANGED suspended,
         \/ UNCHANGED sess /\ (QueueBudget(h) \/ UNCHANGED pend)
         \/ Put(h, [sess[h] EXCEPT !.turns = @ + 1]) /\ UNCHANGED pend
  PROVE  MonoStep(h)
<1>0. sess[h] \in Session /\ sess[h].max \in Nat
  BY MaxType
<1>1. CASE UNCHANGED sess /\ (QueueBudget(h) \/ UNCHANGED pend)
  <2>1. pend'[h] = pend[h] \/ pend'[h] = Numberless
    BY <1>1 DEF QueueBudget, SetPend, TypeOK
  <2>. QED
    BY <1>1, <2>1, MonoFrame, NoneAssumption
<1>2. CASE Put(h, [sess[h] EXCEPT !.turns = @ + 1]) /\ UNCHANGED pend
  <2>. DEFINE s == [sess[h] EXCEPT !.turns = @ + 1]
  <2>1. s.max = sess[h].max /\ s.ext = sess[h].ext
    BY <1>0 DEF Session
  <2>2. sess'[h] = s
    BY <1>2 DEF Put, TypeOK
  <2>. HIDE DEF s
  <2>3. sess'[h].max >= sess[h].max
    BY <1>0, <2>1, <2>2
  <2>4. MonoInv(h)'
    BY <1>2, <2>1, <2>2 DEF MonoInv, OwnExtension, HasOwnExtension
  <2>. QED
    BY <2>3, <2>4 DEF MonoStep
<1>. QED
  BY <1>1, <1>2

(* The record written back after the send of an own envelope.              *)
LEMMA EmittedMono ==
  ASSUME NEW h \in Host, NEW s \in Session, OwnExtension(s, h)
  PROVE  /\ Emitted(s).max = s.max /\ OwnExtension(Emitted(s), h)
         /\ HasOwnExtension(Emitted(s), h) => HasOwnExtension(s, h)
<1>1. CASE s.ext.st = "emitting"
  <2>. DEFINE e == [s.ext EXCEPT !.st = "awaiting_peer"]
  <2>1. s.ext \in [p : Proposal, st : Emitting \cup {"awaiting_peer"}]
    BY <1>1 DEF Session, Extension, NoExtension
  <2>2. e.p = s.ext.p /\ e.st = "awaiting_peer"
    BY <2>1
  <2>3. Emitted(s) = [s EXCEPT !.ext = e]
    BY <1>1 DEF Emitted
  <2>. HIDE DEF e
  <2>4. Emitted(s).max = s.max /\ Emitted(s).ext = e
    BY <2>3 DEF Session
  <2>5. s.ext # NoExtension /\ s.ext.p.by = h
    BY <1>1 DEF NoExtension, OwnExtension
  <2>. QED
    BY <2>2, <2>4, <2>5 DEF OwnExtension, HasOwnExtension
<1>2. CASE s.ext.st # "emitting"
  <2>1. Emitted(s) = [s EXCEPT !.ext = NoExtension]
    BY <1>2 DEF Emitted
  <2>2. Emitted(s).max = s.max /\ Emitted(s).ext = NoExtension
    BY <2>1 DEF Session
  <2>. QED
    BY <2>2 DEF OwnExtension, HasOwnExtension, NoExtension
<1>. QED
  BY <1>1, <1>2

(* A send of host h, which had nothing suspended.                          *)
LEMMA SendMono ==
  ASSUME TypeOK, NEW h \in Host, suspended[h] = {}, NEW s \in Session, NEW m, NEW w,
         Sent(h, m, w) \/ NotSent(h, m), sess'[h] = s, s.max >= sess[h].max,
         OwnExtension(s, h), pend'[h] \notin Proposal \/ ~HasOwnExtension(s, h),
         pend'[h] \in Proposal => pend'[h].num > s.max,
         w.to.max = s.max, OwnExtension(w.to, h),
         HasOwnExtension(w.to, h) => HasOwnExtension(s, h)
  PROVE  MonoStep(h)
<1>1. suspended'[h] = {} \/ suspended'[h] = {w}
  BY DEF Sent, NotSent, TypeOK
<1>. QED
  BY <1>1 DEF MonoStep, MonoInv

LEMMA AgentMono ==
  ASSUME TypeOK, NEW h \in Serial, MonoInv(h),
         Extend(h) \/ Approve(h) \/ Reject(h) \/ Turn(h) \/ LeaveLive(h)
  PROVE  MonoStep(h)
<1>0. /\ h \in Host /\ suspended[h] = {}
      /\ sess[h] \in Session /\ sess[h].max \in Nat /\ sess[h].max >= sess[h].max
      /\ sess \in [Host -> Session] /\ pend \in [Host -> Proposal \cup {None, Numberless}]
  BY MaxType DEF Serial, Extend, Approve, Reject, Turn, LeaveLive, Free, TypeOK
<1>1. CASE Extend(h)
  <2>1. PICK p \in [by : {h}, n : {drafts[h] + 1}, num : Num] :
          ~Outstanding(h) /\ p.num > sess[h].max /\ SetPend(h, p)
          /\ UNCHANGED <<sess, suspended>>
    BY <1>1 DEF Extend
  <2>2. pend'[h] = p /\ ~HasOwnExtension(sess[h], h)
    BY <1>0, <2>1 DEF SetPend, Outstanding, HasOwnExtension
  <2>. QED
    BY <1>0, <2>1, <2>2 DEF MonoStep, MonoInv
<1>2. CASE Approve(h)
  <2>. DEFINE p == pend[h]
             own == [sess[h] EXCEPT !.ext = [p |-> p, st |-> "emitting"]]
             peers == [sess[h] EXCEPT !.max = p.num, !.decided = @ \cup {p},
                                      !.ext = [p |-> p, st |-> "approved_emitting"]]
             s == IF p.by = h THEN own ELSE peers
             w == [kind |-> "emit", p |-> s.ext.p, to |-> Emitted(s)]
  <2>1. p \in Proposal /\ pend'[h] = None
    BY <1>0, <1>2 DEF Approve, SetPend
  <2>2. p.num > sess[h].max /\ p.num \in Nat
    BY <1>0, <2>1, MaxType DEF MonoInv
  <2>3. own \in Session /\ peers \in Session
    BY <1>0, <2>1, ApproveType
  <2>4. /\ own.max = sess[h].max /\ own.ext.p = p /\ own.ext.st = "emitting"
        /\ peers.max = p.num /\ peers.ext.st = "approved_emitting"
    BY <1>0 DEF Session
  <2>5. s \in Session /\ s.max >= sess[h].max /\ OwnExtension(s, h)
    BY <1>0, <2>2, <2>3, <2>4 DEF OwnExtension
  <2>6. Put(h, s) /\ (Sent(h, EnvelopeOf(s.ext), w) \/ NotSent(h, EnvelopeOf(s.ext)))
    BY <1>2 DEF Approve, Emit
  <2>7. w.to = Emitted(s) /\ pend'[h] \notin Proposal
    BY <2>1, NoneAssumption
  <2>. HIDE DEF s, w
  <2>8. sess'[h] = s
    BY <1>0, <2>6 DEF Put
  <2>9. /\ w.to.max = s.max /\ OwnExtension(w.to, h)
        /\ HasOwnExtension(w.to, h) => HasOwnExtension(s, h)
    BY <1>0, <2>5, <2>7, EmittedMono
  <2>. QED
    BY <1>0, <2>5, <2>6, <2>7, <2>8, <2>9, SendMono
<1>3. CASE Reject(h)
  <2>. DEFINE p == pend[h]
             s == [sess[h] EXCEPT !.decided = @ \cup {p},
                                  !.ext = [p |-> p, st |-> "rejected_emitting"]]
             w == [kind |-> "emit", p |-> s.ext.p, to |-> Emitted(s)]
  <2>1. pend'[h] \notin Proposal
    BY <1>0, <1>3, NoneAssumption DEF Reject, SetPend
  <2>2. CASE p \in Proposal /\ p.by # h
    <3>1. s \in Session
      BY <1>0, <2>2, ApproveType
    <3>2. s.max = sess[h].max /\ s.ext.st = "rejected_emitting"
      BY <1>0 DEF Session
    <3>3. OwnExtension(s, h)
      BY <3>2 DEF OwnExtension
    <3>4. /\ Put(h, s) /\ (Sent(h, EnvelopeOf(s.ext), w) \/ NotSent(h, EnvelopeOf(s.ext)))
          /\ w.to = Emitted(s)
      BY <1>3, <2>2 DEF Reject, Emit
    <3>. HIDE DEF s, w
    <3>5. sess'[h] = s
      BY <1>0, <3>4 DEF Put
    <3>6. /\ w.to.max = s.max /\ OwnExtension(w.to, h)
          /\ HasOwnExtension(w.to, h) => HasOwnExtension(s, h)
      BY <1>0, <3>1, <3>3, <3>4, EmittedMono
    <3>. QED
      BY <1>0, <2>1, <3>1, <3>2, <3>3, <3>4, <3>5, <3>6, SendMono
  <2>3. CASE ~(p \in Proposal /\ p.by # h)
    BY <1>0, <1>3, <2>1, <2>3, MonoFrame DEF Reject
  <2>. QED
    BY <2>2, <2>3
<1>4. CASE Turn(h)
  <2>1. /\ UNCHANGED suspended
        /\ \/ UNCHANGED sess /\ QueueBudget(h)
           \/ Put(h, [sess[h] EXCEPT !.turns = @ + 1]) /\ UNCHANGED pend
    BY <1>4 DEF Turn
  <2>. QED
    BY <1>0, <2>1, TurnMono
<1>5. CASE LeaveLive(h)
  <2>. DEFINE s == [sess[h] EXCEPT !.live = FALSE, !.ext = NoExtension]
  <2>1. sess'[h] = s /\ pend'[h] = None /\ suspended'[h] = {}
    BY <1>0, <1>5 DEF LeaveLive, Put, SetPend
  <2>2. s.max = sess[h].max /\ s.ext = NoExtension
    BY <1>0 DEF Session
  <2>3. OwnExtension(s, h) /\ None \notin Proposal
    BY <2>2, NoneAssumption DEF OwnExtension, NoExtension
  <2>. HIDE DEF s
  <2>. QED
    BY <1>0, <2>1, <2>2, <2>3 DEF MonoStep, MonoInv
<1>. QED
  BY <1>1, <1>2, <1>3, <1>4, <1>5

(* The retry before a pull, the pull, what awaited a send, a restart.      *)
LEMMA LoopMono ==
  ASSUME TypeOK, NEW h \in Serial, MonoInv(h),
         Retry(h) \/ Pull(h) \/ Resume(h) \/ Crash(h)
  PROVE  MonoStep(h)
<1>0. /\ h \in Host /\ sess[h] \in Session /\ sess[h].max \in Nat
      /\ sess[h].max >= sess[h].max /\ OwnExtension(sess[h], h)
      /\ sess \in [Host -> Session] /\ suspended \in [Host -> SUBSET Write]
      /\ pend \in [Host -> Proposal \cup {None, Numberless}]
  BY MaxType DEF Serial, MonoInv, TypeOK
<1>1. CASE Retry(h)
  <2>. DEFINE s == sess[h]
             w == [kind |-> "retry", p |-> s.ext.p, to |-> Emitted(s)]
  <2>1. /\ suspended[h] = {} /\ UNCHANGED <<sess, pend>>
        /\ Sent(h, EnvelopeOf(s.ext), w) \/ NotSent(h, EnvelopeOf(s.ext))
        /\ w.to = Emitted(s)
    BY <1>1 DEF Retry, InboxFree, Free, Serial
  <2>2. /\ pend'[h] \notin Proposal \/ ~HasOwnExtension(s, h)
        /\ pend'[h] \in Proposal => pend'[h].num > s.max
    BY <2>1 DEF MonoInv
  <2>. HIDE DEF w
  <2>3. /\ w.to.max = s.max /\ OwnExtension(w.to, h)
        /\ HasOwnExtension(w.to, h) => HasOwnExtension(s, h)
    BY <1>0, <2>1, EmittedMono
  <2>. QED
    BY <1>0, <2>1, <2>2, <2>3, SendMono
<1>2. CASE Pull(h)
  BY <1>0, <1>2, MonoFrame DEF Pull
<1>3. CASE Resume(h)
  <2>1. PICK w \in suspended[h] :
          Put(h, w.to) /\ suspended' = [suspended EXCEPT ![h] = @ \ {w}] /\ UNCHANGED pend
    BY <1>3 DEF Resume
  <2>2. /\ suspended[h] = {w} /\ w.to.max = sess[h].max /\ OwnExtension(w.to, h)
        /\ HasOwnExtension(w.to, h) => HasOwnExtension(sess[h], h)
    BY <2>1 DEF MonoInv
  <2>3. sess'[h] = w.to /\ suspended'[h] = {} /\ pend'[h] = pend[h]
    BY <1>0, <2>1, <2>2 DEF Put
  <2>4. sess'[h].max >= sess[h].max
    BY <1>0, <2>2, <2>3
  <2>5. MonoInv(h)'
    BY <2>2, <2>3 DEF MonoInv
  <2>. QED
    BY <2>4, <2>5 DEF MonoStep
<1>4. CASE Crash(h)
  <2>1. sess' = sess /\ suspended'[h] = {} /\ (pend'[h] = pend[h] \/ pend'[h] = None)
    BY <1>0, <1>4 DEF Crash, SetPend
  <2>. QED
    BY <1>0, <2>1, MonoFrame, NoneAssumption
<1>. QED
  BY <1>1, <1>2, <1>3, <1>4

(* The envelopes of a pull, one after the other.                           *)
LEMMA DispatchMono ==
  ASSUME TypeOK, NEW h \in Serial, MonoInv(h), Dispatch(h)
  PROVE  MonoStep(h)
<1>. DEFINE m == Head(box[h])
<1>0. /\ h \in Host /\ sess[h] \in Session /\ sess[h].max \in Nat
      /\ sess[h].max >= sess[h].max /\ OwnExtension(sess[h], h)
      /\ sess \in [Host -> Session] /\ suspended \in [Host -> SUBSET Write]
      /\ pend \in [Host -> Proposal \cup {None, Numberless}]
  BY MaxType DEF Serial, MonoInv, TypeOK
<1>1. ASSUME NEW type, IsNext(h, type)
      PROVE  /\ suspended[h] = {} /\ m \in Message
             /\ type # "turn" => m.p \in Proposal /\ m.p.num \in Nat
  <2>1. suspended[h] = {} /\ left[h] > 0 /\ m.type = type
    BY <1>1 DEF IsNext, InboxFree, Free, Serial
  <2>2. box[h] \in Seq(Message) /\ left[h] \in Nat /\ left[h] <= Len(box[h])
    BY <1>0 DEF TypeOK
  <2>3. m \in Message
    <3>1. box[h] # <<>>
      BY <2>1, <2>2
    <3>. QED
      BY <2>2, <3>1
  <2>4. ASSUME type # "turn" PROVE m.p \in Proposal
    <3>. HIDE DEF m
    <3>1. m # TurnMessage
      BY <2>1, <2>4 DEF TurnMessage
    <3>. QED
      BY <2>3, <3>1 DEF Message
  <2>. QED
    BY <2>1, <2>3, <2>4, NumAssumption DEF Proposal
<1>2. CASE RecvTurn(h)
  <2>1. /\ suspended[h] = {} /\ UNCHANGED suspended
        /\ \/ UNCHANGED sess /\ (QueueBudget(h) \/ UNCHANGED pend)
           \/ Put(h, [sess[h] EXCEPT !.turns = @ + 1]) /\ UNCHANGED pend
    BY <1>1, <1>2 DEF RecvTurn, Take
  <2>. QED
    BY <1>0, <2>1, TurnMono
<1>3. CASE RecvProposeIgnored(h)
  BY <1>0, <1>3, MonoFrame DEF RecvProposeIgnored
<1>4. CASE RecvProposeQueued(h)
  <2>1. /\ suspended[h] = {} /\ m.p \in Proposal /\ m.p.num \in Nat
    BY <1>1, <1>4 DEF RecvProposeQueued, Take
  <2>2. /\ ~Ignored(h, m.p) /\ ~HasOwnExtension(sess[h], h)
        /\ pend'[h] = m.p /\ sess' = sess /\ suspended'[h] = {}
    BY <1>0, <1>4, <2>1 DEF RecvProposeQueued, SetPend
  <2>3. m.p.num > sess[h].max
    BY <1>0, <2>1, <2>2 DEF Ignored
  <2>. QED
    BY <1>0, <2>2, <2>3 DEF MonoStep, MonoInv
<1>5. CASE h = Initiator /\ RecvProposeWins
  <2>. DEFINE s == [sess[h] EXCEPT !.decided = @ \cup {m.p}]
             w == [kind |-> "race", p |-> m.p, to |-> s]
  <2>1. suspended[h] = {}
    BY <1>1, <1>5 DEF RecvProposeWins
  <2>2. /\ HasOwnExtension(sess[h], h) /\ sess' = sess /\ pend' = pend
        /\ suspended' = [suspended EXCEPT ![h] = @ \cup {w}]
    BY <1>5 DEF RecvProposeWins
  <2>3. s.max = sess[h].max /\ s.ext = sess[h].ext
    BY <1>0 DEF Session
  <2>. HIDE DEF s
  <2>4. w.to = s
    OBVIOUS
  <2>. HIDE DEF w
  <2>5. suspended'[h] = {w}
    BY <1>0, <2>1, <2>2
  <2>. QED
    BY <1>0, <2>2, <2>3, <2>4, <2>5 DEF MonoStep, MonoInv, OwnExtension, HasOwnExtension
<1>6. CASE h = Recipient /\ RecvProposeYields
  <2>. DEFINE s == [sess[h] EXCEPT !.ext = NoExtension, !.decided = @ \cup {sess[h].ext.p}]
  <2>1. suspended[h] = {} /\ m.p \in Proposal /\ m.p.num \in Nat
    BY <1>1, <1>6 DEF RecvProposeYields, Take
  <2>2. /\ ~Ignored(h, m.p) /\ sess'[h] = s
        /\ pend'[h] = m.p /\ suspended'[h] = {}
    BY <1>0, <1>6, <2>1 DEF RecvProposeYields, SetPend, Put
  <2>3. m.p.num > sess[h].max
    BY <1>0, <2>1, <2>2 DEF Ignored
  <2>4. s.max = sess[h].max /\ s.ext = NoExtension
    BY <1>0 DEF Session
  <2>. HIDE DEF s
  <2>. QED
    BY <1>0, <2>2, <2>3, <2>4
    DEF MonoStep, MonoInv, OwnExtension, HasOwnExtension, NoExtension
<1>7. CASE RecvApproved(h)
  <2>. DEFINE s == [sess[h] EXCEPT !.max = m.p.num, !.decided = @ \cup {m.p},
                                   !.ext = NoExtension]
  <2>1. suspended[h] = {} /\ m.p \in Proposal /\ m.p.num \in Nat
    BY <1>1, <1>7 DEF RecvApproved, Take
  <2>2. CASE sess[h].live /\ m.p.num > sess[h].max
             /\ sess[h].ext = [p |-> m.p, st |-> "awaiting_peer"]
    <3>1. sess'[h] = s /\ UNCHANGED <<pend, suspended>>
      BY <1>0, <1>7, <2>2 DEF RecvApproved, Put
    <3>2. s.max = m.p.num /\ s.ext = NoExtension
      BY <1>0 DEF Session
    <3>3. pend[h] \notin Proposal
      <4>1. sess[h].ext # NoExtension /\ sess[h].ext.st = "awaiting_peer"
        BY <2>2 DEF NoExtension
      <4>. QED
        BY <1>0, <4>1 DEF MonoInv, OwnExtension, HasOwnExtension
    <3>. HIDE DEF s
    <3>4. sess'[h].max >= sess[h].max
      BY <1>0, <2>1, <2>2, <3>1, <3>2
    <3>5. MonoInv(h)'
      BY <2>1, <3>1, <3>2, <3>3 DEF MonoInv, OwnExtension, NoExtension
    <3>. QED
      BY <3>4, <3>5 DEF MonoStep
  <2>3. CASE ~(sess[h].live /\ m.p.num > sess[h].max
               /\ sess[h].ext = [p |-> m.p, st |-> "awaiting_peer"])
    BY <1>0, <1>7, <2>3, MonoFrame DEF RecvApproved
  <2>. QED
    BY <2>2, <2>3
<1>8. CASE RecvReject(h)
  <2>. DEFINE s == [sess[h] EXCEPT !.decided = @ \cup {m.p}, !.ext = NoExtension]
  <2>1. suspended[h] = {}
    BY <1>1, <1>8 DEF RecvReject, Take
  <2>2. CASE sess[h].live /\ sess[h].ext.p = m.p
    <3>1. sess'[h] = s /\ UNCHANGED <<pend, suspended>>
      BY <1>0, <1>8, <2>2 DEF RecvReject, Put
    <3>2. s.max = sess[h].max /\ s.ext = NoExtension
      BY <1>0 DEF Session
    <3>. HIDE DEF s
    <3>. QED
      BY <1>0, <2>1, <3>1, <3>2 DEF MonoStep, MonoInv, OwnExtension, HasOwnExtension, NoExtension
  <2>3. CASE ~(sess[h].live /\ sess[h].ext.p = m.p)
    BY <1>0, <1>8, <2>3, MonoFrame DEF RecvReject
  <2>. QED
    BY <2>2, <2>3
<1>. QED
  BY <1>2, <1>3, <1>4, <1>5, <1>6, <1>7, <1>8 DEF Dispatch

LEMMA InitMono == Init => Mono
BY NoneAssumption DEF Init, Mono, MonoInv, OwnExtension, NoExtension, Serial

LEMMA StepMono ==
  ASSUME TypeOK, Mono, [Next]_vars
  PROVE  \A h \in Serial : MonoStep(h)
<1>. SUFFICES ASSUME NEW h \in Serial PROVE MonoStep(h)
  OBVIOUS
<1>0. h \in Host /\ MonoInv(h)
  BY DEF Mono, Serial
<1>1. CASE Next
  <2>1. PICK g \in Host :
          \/ Extend(g) \/ Approve(g) \/ Reject(g) \/ Turn(g) \/ LeaveLive(g)
          \/ Retry(g) \/ Pull(g) \/ Dispatch(g) \/ Resume(g) \/ Crash(g)
    BY <1>1 DEF Next
  <2>2. CASE h = g
    BY <1>0, <2>1, <2>2, AgentMono, LoopMono, DispatchMono
  <2>3. CASE h # g
    BY <2>1, <2>3, MonoPeer
  <2>. QED
    BY <2>2, <2>3
<1>2. CASE UNCHANGED vars
  BY <1>0, <1>2, MonoFrame DEF vars
<1>. QED
  BY <1>1, <1>2

(* No host whose handlers wait for each other lowers its max_turns.        *)
MaxRises == \A h \in Serial : sess'[h].max >= sess[h].max

(* A host whose handlers wait for each other never lowers its max_turns,   *)
(* whatever the other host does, and whatever was lost, sent twice or      *)
(* forgotten at a restart.                                                 *)
THEOREM MaxSafety == Spec => [][MaxRises]_vars
<1>1. TypeOK /\ Mono /\ [Next]_vars => Mono' /\ [MaxRises]_vars
  BY StepMono DEF Mono, MonoStep, MaxRises
<1>. QED
  BY <1>1, InitMono, TypeCorrect, PTL DEF Spec

(* MaxNeverFalls, when no handler starts while another one awaits its      *)
(* send: the late write back of a record is then the only one, and cannot  *)
(* undo an agreement that came in between.                                 *)
THEOREM SerialMaxSafety ==
  ASSUME Overlapping = {}
  PROVE  Spec => MaxNeverFalls
<1>1. MaxRises <=> \A h \in Host : sess'[h].max >= sess[h].max
  BY DEF MaxRises, Serial
<1>. QED
  BY <1>1, MaxSafety, PTL DEF MaxNeverFalls

-----------------------------------------------------------------------------
(* The race of two proposals: what a host holds, has been told and is told *)

Offer(p) == [type |-> "propose", p |-> p]
Yes(p) == [type |-> "approved", p |-> p]
No(p) == [type |-> "reject", p |-> p]
Verdict == {"approved", "reject"}

Ext(h) == sess[h].ext
Max(h) == sess[h].max
Proposing(h) == Ext(h).st \in {"emitting", "awaiting_peer"}
Answering(h) == Ext(h).st \in {"approved_emitting", "rejected_emitting"}

(* A handler awaits the send of the extension's envelope.                  *)
Sending(h) == \E w \in suspended[h] : w.kind # "race"

(* The proposals h is rejecting because it proposed itself.                *)
Racing(h) == {p \in Proposal : \E w \in suspended[h] : w.kind = "race" /\ w.p = p}

(* The proposals h decided, or will have once its handler resumes.         *)
Known(h) == sess[h].decided \cup Racing(h)

(* The envelopes on their way to h, which of them come before which, and   *)
(* those the pull in progress has yet to dispatch.                         *)
Mail(h) == {box[h][i] : i \in DOMAIN box[h]}
Order(h) == {<<box[h][i[1]], box[h][i[2]]>> :
               i \in {j \in (DOMAIN box[h]) \X (DOMAIN box[h]) : j[1] <= j[2]}}
Due(h) == {box[h][i] : i \in 1 .. left[h]}

(* Host h has been asked by its peer g, who has not been told what h says. *)
Granted(h, g, p) == Yes(p) \in Mail(h) \/ Ext(g) = [p |-> p, st |-> "approved_emitting"]
Denied(h, g, p) ==
  No(p) \in Mail(h) \/ Ext(g) = [p |-> p, st |-> "rejected_emitting"] \/ p \in Racing(g)

(* The initiator's proposal g is about to replace the recipient's.         *)
Overruled(h, g) == h = Recipient /\ Proposing(g) /\ Ext(g).p \notin Known(h)

(* The peer g applied what h proposed, and h is about to.                  *)
Unapplied(h, g) == Proposing(h) /\ Max(g) = Ext(h).p.num /\ Granted(h, g, Ext(h).p)
-----------------------------------------------------------------------------
(* The inductive invariant of the race                                     *)

(* Whose proposal an extension holds.                                      *)
WhoseInv(h, g) ==
  /\ Proposing(h) => Ext(h).p.by = h
  /\ Answering(h) => Ext(h).p.by = g /\ Ext(h).p \in Known(h)

(* Who writes what: an answer is about a proposal its sender knows.        *)
WireInv(h, g) == \A m \in Mail(h) :
  /\ m.type = "propose" => m.p.by = g
  /\ m.type \in Verdict => m.p.by = h /\ m.p \in Known(g)

(* No proposal of h that is out is younger than its last draft.            *)
NumberInv(h, g) == \A p \in Proposal :
  p.by = h /\ (p \in Known(g) \/ Offer(p) \in Mail(g) \/ pend[h] = p \/ Ext(h).p = p)
    => p.n <= drafts[h]

(* A draft is new to the peer, and nothing else is under way at h.         *)
DraftInv(h, g) ==
  pend[h] \in Proposal /\ pend[h].by = h =>
    Ext(h) = NoExtension /\ pend[h] \notin Known(g) /\ Offer(pend[h]) \notin Mail(g)

AboveInv(h, g) ==
  /\ pend[h] \in Proposal => pend[h].num > Max(h) /\ ~Proposing(h)
  /\ Proposing(h) => Ext(h).p.num > Max(h)

(* Who grants a proposal has raised its own budget.                        *)
GrantInv(h, g) == \A p \in Proposal : Granted(h, g, p) => Max(g) >= p.num

(* The human is asked about what the peer proposes, and no one answered.   *)
PendInv(h, g) ==
  pend[h] \in Proposal /\ pend[h].by = g =>
    Proposing(g) /\ Ext(g).p = pend[h] /\ pend[h] \notin Known(h)

(* A proposal of h its peer does not know yet is the one h still makes, or *)
(* meets the initiator's own one before any answer to that.                *)
FreshInv(h, g) == \A m \in Mail(g) :
  m.type = "propose" /\ m.p \notin Known(g) =>
    \/ Proposing(h) /\ Ext(h).p = m.p
    \/ /\ h = Recipient /\ Proposing(g)
       /\ <<Yes(Ext(g).p), m>> \notin Order(g) /\ <<No(Ext(g).p), m>> \notin Order(g)

(* A proposal the peer knows is answered, or overruled.                    *)
KnownInv(h, g) ==
  Proposing(h) /\ Ext(h).p \in Known(g) =>
    \/ Ext(g).p = Ext(h).p
    \/ Yes(Ext(h).p) \in Mail(h) \/ No(Ext(h).p) \in Mail(h)
    \/ Overruled(h, g)

(* A proposal that was sent arrives.                                       *)
ComingInv(h, g) ==
  Proposing(h) /\ (Ext(h).st = "awaiting_peer" \/ Sending(h)) =>
    \/ Offer(Ext(h).p) \in Mail(g) \/ pend[g] = Ext(h).p
    \/ Ext(h).p \in Known(g) \/ Overruled(h, g)

(* An answer that was sent and is not recorded as sent is on its way.      *)
SendsInv(h, g) ==
  Proposing(h) /\ Sending(g) /\ Ext(g).p = Ext(h).p => EnvelopeOf(Ext(g)) \in Mail(h)

(* The answer to h comes before the peer's own proposal.                   *)
OrderInv(h, g) ==
  Proposing(h) /\ Proposing(g) =>
    /\ <<Offer(Ext(g).p), Yes(Ext(h).p)>> \notin Order(h)
    /\ h = Initiator => <<Offer(Ext(g).p), No(Ext(h).p)>> \notin Order(h)

OnceInv(h, g) == \A p \in Proposal : ~(Denied(h, g, p) /\ Granted(h, g, p))

(* What h proposes is more than the peer has, until the peer decides.      *)
MarginInv(h, g) == Proposing(h) => Ext(h).p.num > Max(g) \/ Ext(h).p \in Known(g)

(* A send that failed was the one loss, and no grant overtakes its retry.  *)
FailedInv(h, g) ==
  Ext(h).st \in Emitting /\ ~Sending(h) => losses = 1 /\ Yes(Ext(h).p) \notin Due(h)

RaceInv(h, g) ==
  /\ WhoseInv(h, g) /\ WireInv(h, g) /\ NumberInv(h, g) /\ DraftInv(h, g) /\ AboveInv(h, g)
  /\ GrantInv(h, g) /\ PendInv(h, g) /\ FreshInv(h, g) /\ KnownInv(h, g) /\ ComingInv(h, g)
  /\ SendsInv(h, g) /\ OrderInv(h, g) /\ OnceInv(h, g) /\ MarginInv(h, g) /\ FailedInv(h, g)

(* The hosts differ only while an approval is on its way.                  *)
SameInv(h, g) == Max(h) = Max(g) \/ Unapplied(h, g) \/ Unapplied(g, h)

Settled(h, g) == RaceInv(h, g) /\ RaceInv(g, h) /\ SameInv(h, g)
-----------------------------------------------------------------------------
(* What a step of host a does to the two hosts and to their inboxes        *)

Unmoved(h) ==
  /\ Ext(h)' = Ext(h) /\ Max(h)' = Max(h) /\ Known(h)' = Known(h)
  /\ Racing(h)' = Racing(h) /\ (Sending(h)' <=> Sending(h))
  /\ pend'[h] = pend[h] /\ drafts'[h] = drafts[h]

(* Nothing but the extension, the budget or the pending item of h moves.   *)
Quiet(h) ==
  Racing(h)' = Racing(h) /\ (Sending(h)' <=> Sending(h)) /\ drafts'[h] = drafts[h]

SameMail(h) == Mail(h)' = Mail(h) /\ Order(h)' = Order(h) /\ Due(h)' = Due(h)

(* At most m arrives, behind what is there.                                *)
Posts(h, m) ==
  /\ Mail(h) \subseteq Mail(h)' /\ Mail(h)' \subseteq Mail(h) \cup {m}
  /\ Order(h)' \subseteq Order(h) \cup (Mail(h)' \X {m})
  /\ Due(h)' = Due(h)

(* The first envelope, m, is taken.                                        *)
Takes(h, m) ==
  /\ m \in Mail(h) /\ m \in Due(h)
  /\ Mail(h)' \subseteq Mail(h) /\ Mail(h) \subseteq Mail(h)' \cup {m}
  /\ Order(h)' \subseteq Order(h) /\ \A x \in Mail(h) : <<m, x>> \in Order(h)
  /\ Due(h)' \subseteq Due(h)

(* a sends m, and waits for the answer; or the send fails.                 *)
Goes(a, g, m) ==
  /\ Posts(g, m)
  /\ \/ Sending(a)' /\ m \in Mail(g)' /\ losses' = losses
     \/ ~Sending(a)' /\ losses' = losses + 1

(* The peer's proposal remains, a may stop asking its human otherwise.     *)
KeepsAsking(a, g) ==
  \/ pend'[a] = pend[a]
  \/ pend'[a] \notin Proposal /\ ~(pend[a] \in Proposal /\ pend[a].by = g)

Calm(a, g) ==
  /\ Ext(a)' = Ext(a) /\ Max(a)' = Max(a) /\ Known(a)' = Known(a)
  /\ Racing(a)' \subseteq Racing(a) /\ (Sending(a)' <=> Sending(a)) /\ drafts'[a] = drafts[a]
  /\ KeepsAsking(a, g)
  /\ Mail(a)' = Mail(a) /\ Order(a)' = Order(a)
  /\ Due(a)' = Due(a) \/ Ext(a).st \notin Emitting
  /\ Unmoved(g) /\ Posts(g, TurnMessage) /\ losses' = losses

(* An envelope that changes nothing here.                                  *)
Spent(a, m) ==
  \/ m.type = "turn"
  \/ /\ m.type = "propose"
     /\ \/ m.p.num <= Max(a) \/ m.p \in Known(a) \/ pend[a] = m.p
        \/ Ext(a) = [p |-> m.p, st |-> "awaiting_peer"]
  \/ /\ m.type = "approved"
     /\ ~(m.p.num > Max(a) /\ Ext(a) = [p |-> m.p, st |-> "awaiting_peer"])
  \/ m.type = "reject" /\ Ext(a).p # m.p

Skips(a, g, m) ==
  /\ Takes(a, m) /\ Spent(a, m) /\ ~Sending(a)
  /\ Ext(a)' = Ext(a) /\ Max(a)' = Max(a) /\ Known(a)' = Known(a) /\ Quiet(a)
  /\ KeepsAsking(a, g)
  /\ Unmoved(g) /\ SameMail(g) /\ losses' = losses

Drafts(a, g, p) ==
  /\ p \in Proposal /\ p.by = a /\ p.n = drafts[a] + 1 /\ p.num > Max(a)
  /\ Ext(a) = NoExtension /\ ~(pend[a] \in Proposal /\ pend[a].by = g)
  /\ pend'[a] = p /\ drafts'[a] = drafts[a] + 1
  /\ Ext(a)' = Ext(a) /\ Max(a)' = Max(a) /\ Known(a)' = Known(a)
  /\ Racing(a)' = Racing(a) /\ (Sending(a)' <=> Sending(a))
  /\ SameMail(a) /\ Unmoved(g) /\ SameMail(g) /\ losses' = losses

Proposes(a, g, p) ==
  /\ p \in Proposal /\ p.by = a /\ pend[a] = p /\ pend'[a] \notin Proposal
  /\ Ext(a)' = [p |-> p, st |-> "emitting"] /\ Max(a)' = Max(a) /\ Known(a)' = Known(a)
  /\ Racing(a)' = {} /\ drafts'[a] = drafts[a]
  /\ Goes(a, g, Offer(p)) /\ SameMail(a) /\ Unmoved(g)

Answers(a, g, p, st) ==
  /\ p \in Proposal /\ p.by = g /\ pend[a] = p /\ pend'[a] \notin Proposal
  /\ Ext(a)' = [p |-> p, st |-> st] /\ Known(a)' = Known(a) \cup {p}
  /\ Racing(a) = {} /\ Racing(a)' = {} /\ drafts'[a] = drafts[a]
  /\ SameMail(a) /\ Unmoved(g)
  /\ \/ st = "approved_emitting" /\ Max(a)' = p.num /\ Goes(a, g, Yes(p))
     \/ st = "rejected_emitting" /\ Max(a)' = Max(a) /\ Goes(a, g, No(p))

Resends(a, g) ==
  /\ Ext(a).st \in Emitting /\ ~Sending(a)
  /\ Ext(a)' = Ext(a) /\ Max(a)' = Max(a) /\ Known(a)' = Known(a)
  /\ Racing(a)' = Racing(a) /\ drafts'[a] = drafts[a] /\ pend'[a] = pend[a]
  /\ Goes(a, g, EnvelopeOf(Ext(a))) /\ Unmoved(g)
  /\ Mail(a)' = Mail(a) /\ Order(a)' = Order(a)

Finishes(a, g) ==
  /\ Ext(a).st \in Emitting /\ Sending(a) /\ ~Sending(a)'
  /\ \/ Ext(a).st = "emitting" /\ Ext(a)' = [p |-> Ext(a).p, st |-> "awaiting_peer"]
     \/ Answering(a) /\ Ext(a)' = NoExtension
  /\ Max(a)' = Max(a) /\ Known(a)' = Known(a) /\ Racing(a)' = {} /\ drafts'[a] = drafts[a]
  /\ pend'[a] = pend[a] /\ losses' = losses
  /\ Mail(a)' = Mail(a) /\ Order(a)' = Order(a) /\ Unmoved(g) /\ SameMail(g)

(* What a proposal that is not ignored says.                               *)
News(a, p) == p \in Proposal /\ p.num > Max(a) /\ p \notin Known(a) /\ pend[a] # p

Queues(a, g, p) ==
  /\ News(a, p) /\ Takes(a, Offer(p)) /\ ~Proposing(a) /\ ~Sending(a)
  /\ pend'[a] = p
  /\ Ext(a)' = Ext(a) /\ Max(a)' = Max(a) /\ Known(a)' = Known(a) /\ Quiet(a)
  /\ Unmoved(g) /\ SameMail(g) /\ losses' = losses

Wins(a, g, p) ==
  /\ a = Initiator /\ News(a, p) /\ Takes(a, Offer(p)) /\ Proposing(a)
  /\ ~Sending(a) /\ ~Sending(a)' /\ Racing(a) = {} /\ Racing(a)' = {p}
  /\ Known(a)' = Known(a) \cup {p}
  /\ Ext(a)' = Ext(a) /\ Max(a)' = Max(a) /\ pend'[a] = pend[a] /\ drafts'[a] = drafts[a]
  /\ Posts(g, No(p)) /\ Unmoved(g) /\ losses' \in {losses, losses + 1}

Yields(a, g, p) ==
  /\ a = Recipient /\ News(a, p) /\ Takes(a, Offer(p)) /\ Proposing(a) /\ ~Sending(a)
  /\ pend'[a] = p /\ Known(a)' = Known(a) \cup {Ext(a).p}
  /\ Ext(a)' = NoExtension /\ Max(a)' = Max(a) /\ Quiet(a)
  /\ Unmoved(g) /\ SameMail(g) /\ losses' = losses

Applies(a, g, p) ==
  /\ p \in Proposal /\ Takes(a, Yes(p)) /\ Ext(a) = [p |-> p, st |-> "awaiting_peer"]
  /\ ~Sending(a) /\ Known(a)' = Known(a) \cup {p} /\ pend'[a] = pend[a]
  /\ Ext(a)' = NoExtension /\ Max(a)' = p.num /\ p.num > Max(a) /\ Quiet(a)
  /\ Unmoved(g) /\ SameMail(g) /\ losses' = losses

Drops(a, g, p) ==
  /\ p \in Proposal /\ Takes(a, No(p)) /\ Ext(a).p = p
  /\ ~Sending(a) /\ Known(a)' = Known(a) \cup {p} /\ pend'[a] = pend[a]
  /\ Ext(a)' = NoExtension /\ Max(a)' = Max(a) /\ Quiet(a)
  /\ Unmoved(g) /\ SameMail(g) /\ losses' = losses
-----------------------------------------------------------------------------
(* The types of what is observed                                           *)

Shape(h) ==
  /\ Ext(h) \in Extension
  /\ \/ Ext(h) = NoExtension
     \/ /\ Ext(h) = [p |-> Ext(h).p, st |-> Ext(h).st] /\ Ext(h).p \in Proposal
        /\ Ext(h).st \in Emitting \cup {"awaiting_peer"}
  /\ Max(h) \in Nat /\ drafts[h] \in Nat
  /\ pend[h] \in Proposal \cup {None, Numberless}
  /\ Known(h) \subseteq Proposal /\ Racing(h) \subseteq Known(h)
  /\ Mail(h) \subseteq Message /\ Due(h) \subseteq Mail(h)
  /\ Order(h) \subseteq Mail(h) \X Mail(h)

Ready(a, g) ==
  /\ Shape(a) /\ Shape(g) /\ Shape(a)' /\ Shape(g)'
  /\ losses \in Nat /\ losses' \in Nat /\ losses' <= 1

LEMMA Pure ==
  /\ \A p \in Proposal : p.by \in Host /\ p.n \in Nat /\ p.num \in Nat
  /\ None \notin Proposal /\ Numberless \notin Proposal
<1>1. ASSUME NEW p \in Proposal
      PROVE  p.by \in Host /\ p.n \in Nat /\ p.num \in Nat
  <2>1. p.by \in Host /\ p.n \in 1 .. MaxDrafts /\ p.num \in Num
    BY DEF Proposal
  <2>2. p.num \in Nat
    BY <2>1, NumAssumption
  <2>3. MaxDrafts \in Nat
    BY BoundsAssumption
  <2>4. p.n \in Nat
    BY <2>1, <2>3
  <2>. QED
    BY <2>1, <2>2, <2>4
<1>. QED
  BY <1>1, NoneAssumption

(* The envelopes, by type.                                                 *)
LEMMA Letters ==
  /\ TurnMessage.type = "turn"
  /\ \A p : /\ Offer(p).type = "propose" /\ Offer(p).p = p
            /\ Yes(p).type = "approved" /\ Yes(p).p = p
            /\ No(p).type = "reject" /\ No(p).p = p
  /\ \A m \in Message :
       /\ m.type \in {"turn", "propose", "approved", "reject"}
       /\ m.type # "turn" => m.p \in Proposal
       /\ m.type = "propose" => m = Offer(m.p)
       /\ m.type = "approved" => m = Yes(m.p)
       /\ m.type = "reject" => m = No(m.p)
  /\ \A e \in Extension :
       /\ e.st = "emitting" => EnvelopeOf(e) = Offer(e.p)
       /\ e.st = "approved_emitting" => EnvelopeOf(e) = Yes(e.p)
       /\ e.st = "rejected_emitting" => EnvelopeOf(e) = No(e.p)
<1>1. \A m \in Message :
        /\ m.type \in {"turn", "propose", "approved", "reject"}
        /\ m.type # "turn" => m.p \in Proposal
        /\ m.type = "propose" => m = Offer(m.p)
        /\ m.type = "approved" => m = Yes(m.p)
        /\ m.type = "reject" => m = No(m.p)
  BY DEF Message, TurnMessage, Offer, Yes, No
<1>2. \A e \in Extension :
        /\ e.st = "emitting" => EnvelopeOf(e) = Offer(e.p)
        /\ e.st = "approved_emitting" => EnvelopeOf(e) = Yes(e.p)
        /\ e.st = "rejected_emitting" => EnvelopeOf(e) = No(e.p)
  BY DEF EnvelopeOf, Offer, Yes, No
<1>. QED
  BY <1>1, <1>2 DEF TurnMessage, Offer, Yes, No

(* Whose proposal an extension is.                                         *)
LEMMA Whose ==
  ASSUME NEW a \in Host, NEW g \in Host, a # g, Ready(a, g), Settled(a, g)
  PROVE  /\ Proposing(a) => Ext(a).p \in Proposal /\ Ext(a).p.by = a
         /\ Proposing(g) => Ext(g).p \in Proposal /\ Ext(g).p.by = g
         /\ Answering(a) => Ext(a).p \in Proposal /\ Ext(a).p.by = g /\ Ext(a).p \in Known(a)
         /\ Answering(g) => Ext(g).p \in Proposal /\ Ext(g).p.by = a /\ Ext(g).p \in Known(g)
         /\ Ext(a) = NoExtension \/ Proposing(a) \/ Answering(a)
         /\ Ext(g) = NoExtension \/ Proposing(g) \/ Answering(g)
         /\ Proposing(a) /\ Ext(g).p = Ext(a).p => Answering(g) /\ Ext(g) \in Extension
         /\ Proposing(g) /\ Ext(g).p = Ext(a).p => Answering(a) /\ Ext(a) \in Extension
<1>1. /\ Ext(a) = NoExtension \/ Proposing(a) \/ Answering(a)
      /\ Ext(g) = NoExtension \/ Proposing(g) \/ Answering(g)
  BY DEF Ready, Shape, Proposing, Answering, Emitting
<1>2. /\ Proposing(a) \/ Answering(a) => Ext(a).p \in Proposal
      /\ Proposing(g) \/ Answering(g) => Ext(g).p \in Proposal
  BY DEF Ready, Shape, Proposing, Answering, NoExtension
<1>3. /\ Proposing(a) => Ext(a).p.by = a
      /\ Proposing(g) => Ext(g).p.by = g
      /\ Answering(a) => Ext(a).p.by = g /\ Ext(a).p \in Known(a)
      /\ Answering(g) => Ext(g).p.by = a /\ Ext(g).p \in Known(g)
  BY DEF Settled, RaceInv, WhoseInv
<1>4. Ext(a) \in Extension /\ Ext(g) \in Extension /\ NoExtension.p \notin Proposal
  BY Pure DEF Ready, Shape, NoExtension
<1>. QED
  BY <1>1, <1>2, <1>3, <1>4

LEMMA CalmRace ==
  ASSUME NEW a \in Host, NEW g \in Host, a # g, Ready(a, g), Settled(a, g),
         Calm(a, g)
  PROVE  Settled(a, g)'
<1>1. /\ WhoseInv(a, g)' /\ WhoseInv(g, a)' /\ WireInv(a, g)' /\ WireInv(g, a)'
      /\ NumberInv(a, g)' /\ NumberInv(g, a)' /\ DraftInv(a, g)' /\ DraftInv(g, a)'
      /\ AboveInv(a, g)' /\ AboveInv(g, a)'
  BY Pure, Letters
  DEF Calm, WhoseInv, WireInv, NumberInv, DraftInv, AboveInv, Ready, Shape, Settled, RaceInv,
         KeepsAsking, Emitting, Unmoved, Posts, Proposing, Answering, Verdict, NoExtension
<1>2. /\ GrantInv(a, g)' /\ GrantInv(g, a)' /\ PendInv(a, g)' /\ PendInv(g, a)'
      /\ FreshInv(a, g)' /\ FreshInv(g, a)' /\ KnownInv(a, g)' /\ KnownInv(g, a)'
      /\ ComingInv(a, g)' /\ SendsInv(a, g)'
  BY Pure, Letters
  DEF Calm, GrantInv, PendInv, FreshInv, KnownInv, ComingInv, SendsInv, Ready, Shape, Settled,
         RaceInv, KeepsAsking, Emitting, Unmoved, Posts, Granted, Proposing, Recipient,
         Overruled
<1>3. /\ SendsInv(g, a)' /\ OrderInv(a, g)' /\ OrderInv(g, a)' /\ OnceInv(a, g)'
      /\ OnceInv(g, a)' /\ MarginInv(a, g)' /\ MarginInv(g, a)' /\ FailedInv(a, g)'
      /\ FailedInv(g, a)' /\ SameInv(a, g)'
  BY Pure, Letters
  DEF Calm, SendsInv, OrderInv, OnceInv, MarginInv, FailedInv, SameInv, Ready, Shape, Settled,
         RaceInv, KeepsAsking, Emitting, Unmoved, Posts, Proposing, Initiator, Denied, Granted,
         Unapplied
<1>4. ComingInv(g, a)'
  <2>1. Proposing(g) => Ext(g).p \in Proposal /\ Ext(g).p.by = g
    BY Whose
  <2>2. Proposing(g) /\ pend[a] = Ext(g).p => pend'[a] = Ext(g).p
    BY <2>1 DEF Calm, KeepsAsking
  <2>. QED
    BY <2>2 DEF Calm, ComingInv, Settled, RaceInv, Unmoved, Proposing, Overruled
<1>. QED
  BY <1>1, <1>2, <1>3, <1>4 DEF Settled, RaceInv

LEMMA SkipsRace ==
  ASSUME NEW a \in Host, NEW g \in Host, a # g, Ready(a, g), Settled(a, g),
         NEW m, Skips(a, g, m)
  PROVE  Settled(a, g)'
<1>a. Proposing(a) => m # Yes(Ext(a).p) /\ m # No(Ext(a).p)
  <2>1. SUFFICES ASSUME Proposing(a), m = Yes(Ext(a).p) \/ m = No(Ext(a).p)
                 PROVE  FALSE
    OBVIOUS
  <2>2. /\ m.p = Ext(a).p /\ m.type \in Verdict
        /\ m = Yes(Ext(a).p) => m.type = "approved"
        /\ m = No(Ext(a).p) => m.type = "reject"
    BY <2>1, Letters DEF Verdict
  <2>3. m.type = "approved" /\ m = Yes(Ext(a).p)
    BY <2>1, <2>2, Letters DEF Skips, Spent, Verdict
  <2>4. m.p.num > Max(a) /\ m \in Due(a) /\ ~Sending(a)
    BY <2>1, <2>2 DEF Skips, Takes, AboveInv, Settled, RaceInv
  <2>5. Ext(a).st # "awaiting_peer"
    BY <2>1, <2>2, <2>3, <2>4 DEF Skips, Spent, Ready, Shape, Settled, RaceInv, Proposing, NoExtension
  <2>6. Ext(a).st \in Emitting
    BY <2>1, <2>5 DEF Proposing, Emitting
  <2>. QED
    BY <2>3, <2>4, <2>6 DEF FailedInv, Settled, RaceInv
<1>1. /\ WhoseInv(a, g)' /\ WhoseInv(g, a)' /\ WireInv(a, g)' /\ WireInv(g, a)'
      /\ NumberInv(a, g)' /\ NumberInv(g, a)' /\ DraftInv(a, g)' /\ DraftInv(g, a)'
      /\ AboveInv(a, g)' /\ AboveInv(g, a)'
  BY Pure, Letters
  DEF Skips, WhoseInv, WireInv, NumberInv, DraftInv, AboveInv, Ready, Shape, Settled, RaceInv,
         Takes, Spent, Quiet, KeepsAsking, Unmoved, SameMail, Proposing, Answering, Verdict,
         NoExtension
<1>2. /\ GrantInv(a, g)' /\ GrantInv(g, a)' /\ PendInv(a, g)' /\ PendInv(g, a)'
      /\ FreshInv(a, g)' /\ FreshInv(g, a)' /\ KnownInv(g, a)' /\ ComingInv(a, g)'
      /\ SendsInv(g, a)' /\ OrderInv(a, g)'
  BY Pure, Letters
  DEF Skips, GrantInv, PendInv, FreshInv, KnownInv, ComingInv, SendsInv, OrderInv, Ready, Shape,
         Settled, RaceInv, Takes, Spent, Quiet, KeepsAsking, Unmoved, SameMail, Granted,
         Proposing, Recipient, Overruled, Initiator
<1>3. /\ OrderInv(g, a)' /\ OnceInv(a, g)' /\ OnceInv(g, a)' /\ MarginInv(a, g)'
      /\ MarginInv(g, a)' /\ FailedInv(a, g)' /\ FailedInv(g, a)'
  BY Pure, Letters
  DEF Skips, OrderInv, OnceInv, MarginInv, FailedInv, Ready, Shape, Settled, RaceInv, Takes,
         Spent, Quiet, KeepsAsking, Unmoved, SameMail, Proposing, Initiator, Denied, Granted,
         Emitting
<1>4. KnownInv(a, g)'
  <2>1. Proposing(a) => \A x \in {Yes(Ext(a).p), No(Ext(a).p)} : x \in Mail(a) => x \in Mail(a)'
    BY <1>a DEF Skips, Takes
  <2>. QED
    BY <2>1 DEF Skips, KnownInv, Settled, RaceInv, Unmoved, Proposing, Overruled
<1>5. ComingInv(g, a)'
  <2>1. Proposing(g) => Ext(g).p \in Proposal /\ Ext(g).p.by = g
    BY Whose
  <2>2. Proposing(g) /\ pend[a] = Ext(g).p => pend'[a] = Ext(g).p
    BY <2>1 DEF Skips, KeepsAsking
  <2>3. Proposing(g) /\ m = Offer(Ext(g).p) => pend[a] = Ext(g).p \/ Ext(g).p \in Known(a)
    <3>1. SUFFICES ASSUME Proposing(g), m = Offer(Ext(g).p)
                   PROVE  pend[a] = Ext(g).p \/ Ext(g).p \in Known(a)
      OBVIOUS
    <3>2. m.p = Ext(g).p /\ m.type = "propose"
      BY <3>1, Letters
    <3>3. Ext(a) # [p |-> m.p, st |-> "awaiting_peer"]
      BY <2>1, <3>1, <3>2, Whose DEF Proposing
    <3>4. m.p.num <= Max(a) \/ m.p \in Known(a) \/ pend[a] = m.p
      BY <3>2, <3>3 DEF Skips, Spent
    <3>5. m.p.num > Max(a) \/ m.p \in Known(a)
      BY <3>1, <3>2 DEF MarginInv, Settled, RaceInv
    <3>6. m.p.num \in Nat /\ Max(a) \in Nat
      BY <2>1, <3>1, <3>2, Pure DEF Ready, Shape
    <3>7. m.p.num <= Max(a) => ~(m.p.num > Max(a))
      BY <3>6
    <3>. QED
      BY <3>2, <3>4, <3>5, <3>7
  <2>. QED
    BY <2>2, <2>3 DEF Skips, Takes, ComingInv, Settled, RaceInv, Unmoved, Proposing, Overruled
<1>6. SendsInv(a, g)'
  <2>1. Proposing(a) /\ Ext(g).p = Ext(a).p =>
          Answering(g) /\ Ext(g) \in Extension
    BY Whose
  <2>2. Proposing(a) /\ Ext(g).p = Ext(a).p =>
          EnvelopeOf(Ext(g)) \in {Yes(Ext(a).p), No(Ext(a).p)}
    BY <2>1, Letters DEF Answering
  <2>3. Proposing(a) => \A x \in {Yes(Ext(a).p), No(Ext(a).p)} : x \in Mail(a) => x \in Mail(a)'
    BY <1>a DEF Skips, Takes
  <2>4. Proposing(a)' /\ Sending(g)' /\ Ext(g)'.p = Ext(a)'.p =>
          Proposing(a) /\ Sending(g) /\ Ext(g).p = Ext(a).p
    BY DEF Skips, Unmoved, Proposing
  <2>5. EnvelopeOf(Ext(g))' = EnvelopeOf(Ext(g))
    BY DEF Skips, Unmoved, EnvelopeOf
  <2>. QED
    BY <2>2, <2>3, <2>4, <2>5 DEF SendsInv, Settled, RaceInv
<1>7. SameInv(a, g)'
  <2>1. Unapplied(a, g) => Unapplied(a, g)'
    BY <1>a DEF Skips, Takes, Unmoved, Unapplied, Granted, Proposing
  <2>2. Unapplied(g, a) => Unapplied(g, a)'
    BY DEF Skips, Unmoved, SameMail, Unapplied, Granted, Proposing
  <2>. QED
    BY <2>1, <2>2 DEF SameInv, Settled, Skips, Unmoved
<1>. QED
  BY <1>1, <1>2, <1>3, <1>4, <1>5, <1>6, <1>7 DEF Settled, RaceInv

LEMMA DraftsRace ==
  ASSUME NEW a \in Host, NEW g \in Host, a # g, Ready(a, g), Settled(a, g),
         NEW p, Drafts(a, g, p)
  PROVE  Settled(a, g)'
<1>1. /\ WhoseInv(a, g)' /\ WhoseInv(g, a)' /\ WireInv(a, g)' /\ WireInv(g, a)'
      /\ NumberInv(a, g)' /\ NumberInv(g, a)' /\ DraftInv(g, a)' /\ AboveInv(a, g)'
      /\ AboveInv(g, a)' /\ GrantInv(a, g)'
  BY Pure, Letters
  DEF Drafts, WhoseInv, WireInv, NumberInv, DraftInv, AboveInv, GrantInv, Ready, Shape, Settled,
         RaceInv, NoExtension, SameMail, Unmoved, Proposing, Answering, Verdict, Granted
<1>2. /\ GrantInv(g, a)' /\ PendInv(a, g)' /\ PendInv(g, a)' /\ FreshInv(a, g)'
      /\ FreshInv(g, a)' /\ KnownInv(a, g)' /\ KnownInv(g, a)' /\ ComingInv(a, g)'
      /\ SendsInv(a, g)' /\ SendsInv(g, a)'
  BY Pure, Letters
  DEF Drafts, GrantInv, PendInv, FreshInv, KnownInv, ComingInv, SendsInv, Ready, Shape, Settled,
         RaceInv, NoExtension, SameMail, Unmoved, Granted, Proposing, Recipient, Overruled
<1>3. /\ OrderInv(a, g)' /\ OrderInv(g, a)' /\ OnceInv(a, g)' /\ OnceInv(g, a)'
      /\ MarginInv(a, g)' /\ MarginInv(g, a)' /\ FailedInv(a, g)'
      /\ FailedInv(g, a)' /\ SameInv(a, g)'
  BY Pure, Letters
  DEF Drafts, OrderInv, OnceInv, MarginInv, FailedInv, SameInv, Ready, Shape, Settled, RaceInv,
         NoExtension, SameMail, Unmoved, Proposing, Initiator, Denied, Granted, Emitting,
         Unapplied
<1>4. DraftInv(a, g)'
  BY Pure, Letters
  DEF Drafts, DraftInv, NumberInv, Ready, Shape, Settled, RaceInv, NoExtension, SameMail,
         Unmoved
<1>5. ComingInv(g, a)'
  BY Pure, Letters
  DEF Drafts, ComingInv, WhoseInv, Ready, Shape, Settled, RaceInv, NoExtension, SameMail,
         Unmoved, Proposing, Overruled, Answering, Recipient
<1>. QED
  BY <1>1, <1>2, <1>3, <1>4, <1>5 DEF Settled, RaceInv

LEMMA ProposesRace ==
  ASSUME NEW a \in Host, NEW g \in Host, a # g, Ready(a, g), Settled(a, g),
         NEW p, Proposes(a, g, p)
  PROVE  Settled(a, g)'
<1>1. /\ WhoseInv(a, g)' /\ WhoseInv(g, a)' /\ WireInv(a, g)' /\ WireInv(g, a)'
      /\ NumberInv(a, g)' /\ NumberInv(g, a)' /\ DraftInv(a, g)' /\ DraftInv(g, a)'
      /\ AboveInv(a, g)' /\ AboveInv(g, a)'
  BY Pure, Letters
  DEF Proposes, WhoseInv, WireInv, NumberInv, DraftInv, AboveInv, Ready, Shape, Settled,
         RaceInv, Goes, SameMail, Unmoved, Proposing, Answering, Verdict, NoExtension, Posts
<1>2. /\ GrantInv(a, g)' /\ GrantInv(g, a)' /\ PendInv(a, g)' /\ ComingInv(a, g)'
      /\ OnceInv(a, g)' /\ OnceInv(g, a)' /\ MarginInv(g, a)' /\ FailedInv(g, a)'
  BY Pure, Letters
  DEF Proposes, GrantInv, PendInv, ComingInv, OnceInv, MarginInv, FailedInv, Ready, Shape,
         Settled, RaceInv, Goes, SameMail, Unmoved, Granted, Proposing, Overruled, Denied,
         Emitting, Posts, Recipient
<1>3. PendInv(g, a)'
  BY Pure, Letters
  DEF Proposes, PendInv, AboveInv, Ready, Shape, Settled, RaceInv, Goes, SameMail, Unmoved,
         Proposing, Posts
<1>4. FreshInv(a, g)'
  BY Pure, Letters
  DEF Proposes, FreshInv, AboveInv, Ready, Shape, Settled, RaceInv, Goes, SameMail, Unmoved,
         Proposing, Recipient, Posts
<1>5. FreshInv(g, a)'
  <2>1. \A m \in Mail(a) : m.type = "propose" /\ m.p \notin Known(a)' =>
          m.p \notin Known(a) /\ m \in Mail(a) /\ ~(
            /\ g = Recipient /\ Proposing(a)
            /\ <<Yes(Ext(a).p), m>> \notin Order(a) /\ <<No(Ext(a).p), m>> \notin Order(a))
    BY DEF Proposes, AboveInv, Settled, RaceInv
  <2>2. Mail(a)' \subseteq Mail(a) /\ Ext(g)' = Ext(g)
    BY DEF Proposes, Takes, SameMail, Unmoved
  <2>3. \A m \in Mail(a) : m.type = "propose" /\ m.p \notin Known(a)' =>
          Proposing(g) /\ Ext(g).p = m.p
    BY <2>1 DEF FreshInv, Settled, RaceInv
  <2>. QED
    BY <2>2, <2>3 DEF FreshInv, Proposing
<1>6. KnownInv(a, g)'
  BY Pure, Letters
  DEF Proposes, KnownInv, DraftInv, Ready, Shape, Settled, RaceInv, Goes, SameMail, Unmoved,
         Proposing, Overruled, NoExtension, Posts, Recipient
<1>7. KnownInv(g, a)'
  BY Pure, Letters
  DEF Proposes, KnownInv, DraftInv, AboveInv, Ready, Shape, Settled, RaceInv, Goes, SameMail,
         Unmoved, Proposing, Overruled, NoExtension, Posts, Recipient
<1>8. ComingInv(g, a)'
  BY Pure, Letters
  DEF Proposes, ComingInv, WhoseInv, AboveInv, Ready, Shape, Settled, RaceInv, Goes, SameMail,
         Unmoved, Proposing, Overruled, Answering, Posts, Recipient
<1>9. SendsInv(a, g)'
  <2>1. Ext(g).p # p
    BY Whose, Pure DEF Proposes, DraftInv, Settled, RaceInv, NoExtension
  <2>. QED
    BY <2>1 DEF SendsInv, Proposes, Unmoved
<1>10. SendsInv(g, a)'
  BY Pure, Letters
  DEF Proposes, SendsInv, WhoseInv, Ready, Shape, Settled, RaceInv, Goes, SameMail, Unmoved,
         Proposing, Answering, Posts
<1>11. OrderInv(a, g)'
  BY Pure, Letters
  DEF Proposes, OrderInv, WireInv, DraftInv, Ready, Shape, Settled, RaceInv, Goes, SameMail,
         Unmoved, Proposing, Initiator, Verdict, NoExtension, Posts
<1>12. OrderInv(g, a)'
  BY Pure, Letters
  DEF Proposes, OrderInv, DraftInv, Ready, Shape, Settled, RaceInv, Goes, SameMail, Unmoved,
         Proposing, Initiator, NoExtension, Posts
<1>13. MarginInv(a, g)'
  BY Pure, Letters
  DEF Proposes, MarginInv, SameInv, AboveInv, Ready, Shape, Settled, RaceInv, Goes, SameMail,
         Unmoved, Proposing, Unapplied, Posts, Granted
<1>14. FailedInv(a, g)'
  BY Pure, Letters
  DEF Proposes, FailedInv, WireInv, DraftInv, Ready, Shape, Settled, RaceInv, Goes, SameMail,
         Unmoved, Emitting, Verdict, NoExtension, Posts
<1>15. SameInv(a, g)'
  BY Pure, Letters
  DEF Proposes, SameInv, AboveInv, DraftInv, Ready, Shape, Settled, RaceInv, Goes, SameMail,
         Unmoved, Unapplied, Proposing, NoExtension, Posts, Granted
<1>. QED
  BY <1>1, <1>2, <1>3, <1>4, <1>5, <1>6, <1>7, <1>8, <1>9, <1>10, <1>11, <1>12, <1>13, <1>14,
         <1>15 DEF Settled, RaceInv

LEMMA AnswersRace ==
  ASSUME NEW a \in Host, NEW g \in Host, a # g, Ready(a, g), Settled(a, g),
         NEW p, NEW st, Answers(a, g, p, st)
  PROVE  Settled(a, g)'
<1>1. /\ WhoseInv(a, g)' /\ WhoseInv(g, a)' /\ WireInv(a, g)' /\ WireInv(g, a)'
      /\ NumberInv(a, g)' /\ DraftInv(a, g)' /\ AboveInv(a, g)' /\ AboveInv(g, a)'
      /\ GrantInv(a, g)' /\ PendInv(a, g)'
  BY Pure, Letters
  DEF Answers, WhoseInv, WireInv, NumberInv, DraftInv, AboveInv, GrantInv, PendInv, Ready,
         Shape, Settled, RaceInv, SameMail, Unmoved, Goes, Proposing, Answering, Verdict,
         NoExtension, Granted, Posts
<1>2. /\ KnownInv(a, g)' /\ ComingInv(a, g)' /\ SendsInv(a, g)' /\ SendsInv(g, a)'
      /\ OrderInv(a, g)' /\ OrderInv(g, a)' /\ OnceInv(a, g)' /\ MarginInv(a, g)'
      /\ FailedInv(g, a)'
  BY Pure, Letters
  DEF Answers, KnownInv, ComingInv, SendsInv, OrderInv, OnceInv, MarginInv, FailedInv, Ready,
         Shape, Settled, RaceInv, SameMail, Unmoved, Goes, Proposing, Overruled, Initiator,
         Denied, Granted, Emitting, Posts, Recipient
<1>3. NumberInv(g, a)'
  BY Pure, Letters
  DEF Answers, NumberInv, PendInv, Ready, Shape, Settled, RaceInv, SameMail, Unmoved, Goes,
         Proposing, Posts
<1>4. DraftInv(g, a)'
  BY Pure, Letters
  DEF Answers, DraftInv, PendInv, Ready, Shape, Settled, RaceInv, SameMail, Unmoved, Goes,
         NoExtension, Proposing, Posts
<1>5. GrantInv(g, a)'
  BY Pure, Letters
  DEF Answers, GrantInv, AboveInv, Ready, Shape, Settled, RaceInv, SameMail, Unmoved, Goes,
         Granted, Proposing, Posts
<1>6. PendInv(g, a)'
  BY Pure, Letters
  DEF Answers, PendInv, AboveInv, Ready, Shape, Settled, RaceInv, SameMail, Unmoved, Goes,
         Proposing, Posts
<1>7. FreshInv(a, g)'
  BY Pure, Letters
  DEF Answers, FreshInv, AboveInv, Ready, Shape, Settled, RaceInv, SameMail, Unmoved, Goes,
         Proposing, Recipient, Posts
<1>8. FreshInv(g, a)'
  <2>1. \A m \in Mail(a) : m.type = "propose" /\ m.p \notin Known(a)' =>
          m.p \notin Known(a) /\ m \in Mail(a) /\ ~(
            /\ g = Recipient /\ Proposing(a)
            /\ <<Yes(Ext(a).p), m>> \notin Order(a) /\ <<No(Ext(a).p), m>> \notin Order(a))
    BY DEF Answers, AboveInv, Settled, RaceInv
  <2>2. Mail(a)' \subseteq Mail(a) /\ Ext(g)' = Ext(g)
    BY DEF Answers, Takes, SameMail, Unmoved
  <2>3. \A m \in Mail(a) : m.type = "propose" /\ m.p \notin Known(a)' =>
          Proposing(g) /\ Ext(g).p = m.p
    BY <2>1 DEF FreshInv, Settled, RaceInv
  <2>. QED
    BY <2>2, <2>3 DEF FreshInv, Proposing
<1>9. KnownInv(g, a)'
  BY Pure, Letters
  DEF Answers, KnownInv, PendInv, Ready, Shape, Settled, RaceInv, SameMail, Unmoved, Goes,
         Proposing, Overruled, Posts, Recipient
<1>10. ComingInv(g, a)'
  BY Pure, Letters
  DEF Answers, ComingInv, PendInv, Ready, Shape, Settled, RaceInv, SameMail, Unmoved, Goes,
         Proposing, Overruled, Posts, Recipient
<1>11. OnceInv(g, a)'
  BY Pure, Letters
  DEF Answers, OnceInv, WireInv, WhoseInv, PendInv, Ready, Shape, Settled, RaceInv, SameMail,
         Unmoved, Goes, Denied, Granted, Verdict, Proposing, Answering, Posts
<1>12. MarginInv(g, a)'
  BY Pure, Letters
  DEF Answers, MarginInv, PendInv, Ready, Shape, Settled, RaceInv, SameMail, Unmoved, Goes,
         Proposing, Posts
<1>13. FailedInv(a, g)'
  BY Pure, Letters
  DEF Answers, FailedInv, WireInv, Ready, Shape, Settled, RaceInv, SameMail, Unmoved, Goes,
         Emitting, Verdict, Posts
<1>14. SameInv(a, g)'
  BY Pure, Letters
  DEF Answers, SameInv, PendInv, WireInv, WhoseInv, AboveInv, Ready, Shape, Settled, RaceInv,
         SameMail, Unmoved, Goes, Unapplied, Proposing, Verdict, Answering, Posts, Granted
<1>. QED
  BY <1>1, <1>2, <1>3, <1>4, <1>5, <1>6, <1>7, <1>8, <1>9, <1>10, <1>11, <1>12, <1>13, <1>14 DEF Settled, RaceInv

LEMMA ResendsRace ==
  ASSUME NEW a \in Host, NEW g \in Host, a # g, Ready(a, g), Settled(a, g),
         Resends(a, g)
  PROVE  Settled(a, g)'
<1>1. /\ WhoseInv(a, g)' /\ WhoseInv(g, a)' /\ WireInv(a, g)' /\ NumberInv(a, g)'
      /\ NumberInv(g, a)' /\ DraftInv(a, g)' /\ DraftInv(g, a)' /\ AboveInv(a, g)'
      /\ AboveInv(g, a)' /\ GrantInv(a, g)'
  BY Pure, Letters
  DEF Resends, WhoseInv, WireInv, NumberInv, DraftInv, AboveInv, GrantInv, Ready, Shape,
         Settled, RaceInv, Emitting, Goes, Unmoved, Proposing, Answering, Verdict, NoExtension,
         Granted, Posts
<1>2. /\ PendInv(a, g)' /\ PendInv(g, a)' /\ FreshInv(a, g)' /\ FreshInv(g, a)'
      /\ KnownInv(a, g)' /\ KnownInv(g, a)' /\ OrderInv(a, g)' /\ OrderInv(g, a)'
      /\ OnceInv(a, g)' /\ MarginInv(a, g)'
  BY Pure, Letters
  DEF Resends, PendInv, FreshInv, KnownInv, OrderInv, OnceInv, MarginInv, Ready, Shape, Settled,
         RaceInv, Emitting, Goes, Unmoved, Proposing, Recipient, Overruled, Initiator, Denied,
         Granted, Posts
<1>3. /\ MarginInv(g, a)' /\ FailedInv(a, g)' /\ FailedInv(g, a)' /\ SameInv(a, g)'
  BY Pure, Letters
  DEF Resends, MarginInv, FailedInv, SameInv, Ready, Shape, Settled, RaceInv, Emitting, Goes,
         Unmoved, Proposing, Unapplied, Posts, Granted
<1>4. WireInv(g, a)'
  BY Pure, Letters
  DEF Resends, WireInv, WhoseInv, Ready, Shape, Settled, RaceInv, Emitting, Goes, Unmoved,
         Verdict, Proposing, Answering, Posts
<1>5. GrantInv(g, a)'
  <2>1. ASSUME NEW p \in Proposal
        PROVE  /\ Yes(p) \in Mail(g)' => Granted(g, a, p)
               /\ No(p) \in Mail(g)' => Denied(g, a, p)
    <3>1. EnvelopeOf(Ext(a)) = Yes(p) => Ext(a) = [p |-> p, st |-> "approved_emitting"]
      BY Letters DEF Resends, Ready, Shape, Emitting, NoExtension
    <3>2. EnvelopeOf(Ext(a)) = No(p) => Ext(a) = [p |-> p, st |-> "rejected_emitting"]
      BY Letters DEF Resends, Ready, Shape, Emitting, NoExtension
    <3>. QED
      BY <3>1, <3>2 DEF Resends, Goes, Posts, Granted, Denied
  <2>2. \A p \in Proposal : Granted(g, a, p)' => Granted(g, a, p)
    BY <2>1 DEF Granted, Resends
  <2>. QED
    BY <2>2 DEF GrantInv, Settled, RaceInv, Resends
<1>6. ComingInv(a, g)'
  BY Pure, Letters
  DEF Resends, ComingInv, FailedInv, Ready, Shape, Settled, RaceInv, Emitting, Goes, Unmoved,
         Proposing, Overruled, Posts, Recipient
<1>7. ComingInv(g, a)'
  BY Pure, Letters
  DEF Resends, ComingInv, FailedInv, Ready, Shape, Settled, RaceInv, Emitting, Goes, Unmoved,
         Proposing, Overruled, Posts, Recipient
<1>8. SendsInv(a, g)'
  BY Pure, Letters
  DEF Resends, SendsInv, FailedInv, Ready, Shape, Settled, RaceInv, Emitting, Goes, Unmoved,
         Proposing, Posts
<1>9. SendsInv(g, a)'
  BY Pure, Letters
  DEF Resends, SendsInv, FailedInv, Ready, Shape, Settled, RaceInv, Emitting, Goes, Unmoved,
         Proposing, Posts
<1>10. OnceInv(g, a)'
  <2>1. ASSUME NEW p \in Proposal
        PROVE  /\ Yes(p) \in Mail(g)' => Granted(g, a, p)
               /\ No(p) \in Mail(g)' => Denied(g, a, p)
    <3>1. EnvelopeOf(Ext(a)) = Yes(p) => Ext(a) = [p |-> p, st |-> "approved_emitting"]
      BY Letters DEF Resends, Ready, Shape, Emitting, NoExtension
    <3>2. EnvelopeOf(Ext(a)) = No(p) => Ext(a) = [p |-> p, st |-> "rejected_emitting"]
      BY Letters DEF Resends, Ready, Shape, Emitting, NoExtension
    <3>. QED
      BY <3>1, <3>2 DEF Resends, Goes, Posts, Granted, Denied
  <2>2. \A p \in Proposal : /\ Granted(g, a, p)' => Granted(g, a, p)
                            /\ Denied(g, a, p)' => Denied(g, a, p)
    BY <2>1 DEF Granted, Denied, Resends
  <2>. QED
    BY <2>2 DEF OnceInv, Settled, RaceInv
<1>. QED
  BY <1>1, <1>2, <1>3, <1>4, <1>5, <1>6, <1>7, <1>8, <1>9, <1>10 DEF Settled, RaceInv

LEMMA FinishesRace ==
  ASSUME NEW a \in Host, NEW g \in Host, a # g, Ready(a, g), Settled(a, g),
         Finishes(a, g)
  PROVE  Settled(a, g)'
<1>1. /\ WhoseInv(a, g)' /\ WhoseInv(g, a)' /\ WireInv(a, g)' /\ WireInv(g, a)'
      /\ NumberInv(a, g)' /\ NumberInv(g, a)' /\ DraftInv(a, g)' /\ DraftInv(g, a)'
      /\ AboveInv(a, g)' /\ AboveInv(g, a)'
  BY Pure, Letters
  DEF Finishes, WhoseInv, WireInv, NumberInv, DraftInv, AboveInv, Ready, Shape, Settled,
         RaceInv, Emitting, Answering, NoExtension, Unmoved, SameMail, Proposing, Verdict
<1>2. /\ GrantInv(a, g)' /\ GrantInv(g, a)' /\ PendInv(a, g)' /\ KnownInv(a, g)'
      /\ ComingInv(a, g)' /\ ComingInv(g, a)' /\ SendsInv(a, g)' /\ SendsInv(g, a)'
      /\ OrderInv(a, g)' /\ OrderInv(g, a)'
  BY Pure, Letters
  DEF Finishes, GrantInv, PendInv, KnownInv, ComingInv, SendsInv, OrderInv, Ready, Shape,
         Settled, RaceInv, Emitting, Answering, NoExtension, Unmoved, SameMail, Granted,
         Proposing, Overruled, Initiator, Recipient
<1>3. /\ OnceInv(a, g)' /\ OnceInv(g, a)' /\ MarginInv(a, g)' /\ MarginInv(g, a)'
      /\ FailedInv(a, g)' /\ FailedInv(g, a)'
  BY Pure, Letters
  DEF Finishes, OnceInv, MarginInv, FailedInv, Ready, Shape, Settled, RaceInv, Emitting,
         Answering, NoExtension, Unmoved, SameMail, Denied, Granted, Proposing
<1>4. PendInv(g, a)'
  BY Pure, Letters
  DEF Finishes, PendInv, WhoseInv, Ready, Shape, Settled, RaceInv, Emitting, Answering,
         NoExtension, Unmoved, SameMail, Proposing
<1>5. FreshInv(a, g)'
  BY Pure, Letters
  DEF Finishes, FreshInv, WhoseInv, Ready, Shape, Settled, RaceInv, Emitting, Answering,
         NoExtension, Unmoved, SameMail, Proposing, Recipient
<1>6. FreshInv(g, a)'
  <2>1. Proposing(a) => Proposing(a)' /\ Ext(a)'.p = Ext(a).p
    BY DEF Finishes, Proposing, Answering
  <2>. QED
    BY <2>1 DEF FreshInv, Settled, RaceInv, Finishes, Unmoved, SameMail, Proposing
<1>7. KnownInv(g, a)'
  BY Pure, Letters
  DEF Finishes, KnownInv, WhoseInv, SendsInv, Ready, Shape, Settled, RaceInv, Emitting,
         Answering, NoExtension, Unmoved, SameMail, Proposing, Overruled, Recipient
<1>8. SameInv(a, g)'
  BY Pure, Letters
  DEF Finishes, SameInv, SendsInv, Ready, Shape, Settled, RaceInv, Emitting, Answering,
         NoExtension, Unmoved, SameMail, Unapplied, Proposing, Granted
<1>. QED
  BY <1>1, <1>2, <1>3, <1>4, <1>5, <1>6, <1>7, <1>8 DEF Settled, RaceInv

LEMMA QueuesRace ==
  ASSUME NEW a \in Host, NEW g \in Host, a # g, Ready(a, g), Settled(a, g),
         NEW p, Queues(a, g, p)
  PROVE  Settled(a, g)'
<1>a. Proposing(g) /\ Ext(g).p = p /\ p.by = g
  <2>1. Offer(p) \in Mail(a) /\ Offer(p).type = "propose" /\ Offer(p).p = p /\ p \notin Known(a)
    BY Letters DEF Queues, Takes, News
  <2>2. ~(g = Recipient /\ Proposing(a))
    BY DEF Queues, Initiator, Recipient
  <2>3. p.by = g
    BY <2>1 DEF WireInv, Settled, RaceInv
  <2>. QED
    BY <2>1, <2>2, <2>3 DEF FreshInv, Settled, RaceInv
<1>1. /\ WhoseInv(a, g)' /\ WhoseInv(g, a)' /\ WireInv(a, g)' /\ WireInv(g, a)'
      /\ NumberInv(g, a)' /\ DraftInv(g, a)' /\ AboveInv(a, g)' /\ AboveInv(g, a)'
      /\ GrantInv(a, g)' /\ GrantInv(g, a)'
  BY Pure, Letters
  DEF Queues, WhoseInv, WireInv, NumberInv, DraftInv, AboveInv, GrantInv, Ready, Shape, Settled,
         RaceInv, News, Takes, Proposing, Quiet, Unmoved, SameMail, Answering, Verdict,
         NoExtension, Granted
<1>2. /\ PendInv(g, a)' /\ FreshInv(a, g)' /\ FreshInv(g, a)' /\ KnownInv(a, g)'
      /\ KnownInv(g, a)' /\ ComingInv(a, g)' /\ SendsInv(a, g)' /\ SendsInv(g, a)'
      /\ OrderInv(a, g)' /\ OrderInv(g, a)'
  BY Pure, Letters
  DEF Queues, PendInv, FreshInv, KnownInv, ComingInv, SendsInv, OrderInv, Ready, Shape, Settled,
         RaceInv, News, Takes, Proposing, Quiet, Unmoved, SameMail, Recipient, Overruled,
         Initiator
<1>3. /\ OnceInv(a, g)' /\ OnceInv(g, a)' /\ MarginInv(a, g)' /\ MarginInv(g, a)'
      /\ FailedInv(a, g)' /\ FailedInv(g, a)' /\ SameInv(a, g)'
  BY Pure, Letters
  DEF Queues, OnceInv, MarginInv, FailedInv, SameInv, Ready, Shape, Settled, RaceInv, News,
         Takes, Proposing, Quiet, Unmoved, SameMail, Denied, Granted, Emitting, Unapplied
<1>4. NumberInv(a, g)'
  BY Pure, Letters
  DEF Queues, NumberInv, WireInv, Ready, Shape, Settled, RaceInv, News, Takes, Proposing, Quiet,
         Unmoved, SameMail, Verdict
<1>5. DraftInv(a, g)'
  BY Pure, Letters
  DEF Queues, DraftInv, WireInv, Ready, Shape, Settled, RaceInv, News, Takes, Proposing, Quiet,
         Unmoved, SameMail, NoExtension, Verdict
<1>6. PendInv(a, g)'
  BY <1>a DEF Queues, News, PendInv, Unmoved, Proposing
<1>7. ComingInv(g, a)'
  BY Pure, Letters
  DEF Queues, ComingInv, FreshInv, Ready, Shape, Settled, RaceInv, News, Takes, Proposing,
         Quiet, Unmoved, SameMail, Overruled, Recipient
<1>. QED
  BY <1>1, <1>2, <1>3, <1>4, <1>5, <1>6, <1>7 DEF Settled, RaceInv

LEMMA WinsRace ==
  ASSUME NEW a \in Host, NEW g \in Host, a # g, Ready(a, g), Settled(a, g),
         NEW p, Wins(a, g, p)
  PROVE  Settled(a, g)'
<1>1. /\ WhoseInv(a, g)' /\ WhoseInv(g, a)' /\ WireInv(a, g)' /\ WireInv(g, a)'
      /\ NumberInv(a, g)' /\ DraftInv(a, g)' /\ DraftInv(g, a)' /\ AboveInv(a, g)'
      /\ AboveInv(g, a)' /\ GrantInv(a, g)'
  BY Pure, Letters
  DEF Wins, WhoseInv, WireInv, NumberInv, DraftInv, AboveInv, GrantInv, Ready, Shape, Settled,
         RaceInv, Initiator, News, Takes, Proposing, Posts, Unmoved, Answering, Verdict,
         NoExtension, Granted
<1>2. /\ GrantInv(g, a)' /\ PendInv(g, a)' /\ FreshInv(a, g)' /\ FreshInv(g, a)'
      /\ KnownInv(a, g)' /\ ComingInv(a, g)' /\ ComingInv(g, a)' /\ SendsInv(g, a)'
      /\ OrderInv(a, g)' /\ OrderInv(g, a)'
  BY Pure, Letters
  DEF Wins, GrantInv, PendInv, FreshInv, KnownInv, ComingInv, SendsInv, OrderInv, Ready, Shape,
         Settled, RaceInv, Initiator, News, Takes, Proposing, Posts, Unmoved, Granted,
         Recipient, Overruled
<1>3. /\ OnceInv(a, g)' /\ MarginInv(a, g)' /\ MarginInv(g, a)' /\ FailedInv(a, g)'
      /\ FailedInv(g, a)' /\ SameInv(a, g)'
  BY Pure, Letters
  DEF Wins, OnceInv, MarginInv, FailedInv, SameInv, Ready, Shape, Settled, RaceInv, Initiator,
         News, Takes, Proposing, Posts, Unmoved, Denied, Granted, Emitting, Unapplied
<1>4. NumberInv(g, a)'
  BY Pure, Letters
  DEF Wins, NumberInv, WireInv, Ready, Shape, Settled, RaceInv, Initiator, News, Takes,
         Proposing, Posts, Unmoved, Verdict
<1>5. PendInv(a, g)'
  BY Pure, Letters
  DEF Wins, PendInv, AboveInv, Ready, Shape, Settled, RaceInv, Initiator, News, Takes,
         Proposing, Posts, Unmoved
<1>6. KnownInv(g, a)'
  <2>1. CASE Proposing(g) /\ Ext(g).p = p /\ No(p) \notin Mail(g)'
    <3>1. Ext(g).p # Ext(a).p /\ g = Recipient
      BY <2>1, Whose DEF Wins, Host, Initiator, Recipient
    <3>2. Yes(Ext(a).p) \notin Mail(a) /\ No(Ext(a).p) \notin Mail(a)
      BY <2>1 DEF Wins, Takes, OrderInv, Settled, RaceInv
    <3>3. Ext(a).p \notin Known(g)
      BY <2>1, <3>1, <3>2 DEF Wins, KnownInv, Settled, RaceInv, Overruled, Initiator, Recipient
    <3>. QED
      BY <3>1, <3>3 DEF Wins, KnownInv, Overruled, Unmoved, Proposing
  <2>2. CASE Proposing(g) /\ Ext(g).p = p /\ No(p) \in Mail(g)'
    BY <2>2 DEF KnownInv, Wins, Unmoved
  <2>3. CASE ~(Proposing(g) /\ Ext(g).p = p)
    BY <2>3 DEF KnownInv, Settled, RaceInv, Wins, Unmoved, Posts, Proposing, Overruled
  <2>. QED
    BY <2>1, <2>2, <2>3
<1>7. SendsInv(a, g)'
  <2>1. Proposing(a) /\ Ext(g).p = Ext(a).p => EnvelopeOf(Ext(g)) # Offer(p)
    BY Whose, Letters DEF Answering
  <2>2. EnvelopeOf(Ext(g))' = EnvelopeOf(Ext(g))
    BY DEF Wins, Unmoved, EnvelopeOf
  <2>. QED
    BY <2>1, <2>2 DEF SendsInv, Settled, RaceInv, Wins, Takes, Unmoved, Proposing
<1>8. OnceInv(g, a)'
  BY Pure, Letters
  DEF Wins, OnceInv, WireInv, WhoseInv, Ready, Shape, Settled, RaceInv, Initiator, News, Takes,
         Proposing, Posts, Unmoved, Denied, Granted, Verdict, Answering
<1>. QED
  BY <1>1, <1>2, <1>3, <1>4, <1>5, <1>6, <1>7, <1>8 DEF Settled, RaceInv

LEMMA YieldsRace ==
  ASSUME NEW a \in Host, NEW g \in Host, a # g, Ready(a, g), Settled(a, g),
         NEW p, Yields(a, g, p)
  PROVE  Settled(a, g)'
<1>a. Proposing(g) /\ Ext(g).p = p /\ p.by = g
  <2>1. Offer(p) \in Mail(a) /\ Offer(p).type = "propose" /\ Offer(p).p = p /\ p \notin Known(a)
    BY Letters DEF Yields, Takes, News
  <2>2. ~(g = Recipient /\ Proposing(a))
    BY DEF Yields, Initiator, Recipient
  <2>3. p.by = g
    BY <2>1 DEF WireInv, Settled, RaceInv
  <2>. QED
    BY <2>1, <2>2, <2>3 DEF FreshInv, Settled, RaceInv
<1>1. /\ WhoseInv(a, g)' /\ WhoseInv(g, a)' /\ WireInv(a, g)' /\ WireInv(g, a)'
      /\ AboveInv(a, g)' /\ AboveInv(g, a)' /\ GrantInv(a, g)' /\ GrantInv(g, a)'
      /\ KnownInv(a, g)' /\ ComingInv(a, g)'
  BY Pure, Letters
  DEF Yields, WhoseInv, WireInv, AboveInv, GrantInv, KnownInv, ComingInv, Ready, Shape, Settled,
         RaceInv, Recipient, News, Takes, Proposing, NoExtension, Quiet, Unmoved, SameMail,
         Answering, Verdict, Granted, Overruled
<1>2. /\ SendsInv(a, g)' /\ SendsInv(g, a)' /\ OrderInv(a, g)' /\ OrderInv(g, a)'
      /\ OnceInv(a, g)' /\ OnceInv(g, a)' /\ MarginInv(a, g)' /\ MarginInv(g, a)'
      /\ FailedInv(a, g)' /\ FailedInv(g, a)'
  BY Pure, Letters
  DEF Yields, SendsInv, OrderInv, OnceInv, MarginInv, FailedInv, Ready, Shape, Settled, RaceInv,
         Recipient, News, Takes, Proposing, NoExtension, Quiet, Unmoved, SameMail, Initiator,
         Denied, Granted, Emitting
<1>3. NumberInv(a, g)'
  BY Pure, Letters
  DEF Yields, NumberInv, WireInv, Ready, Shape, Settled, RaceInv, Recipient, News, Takes,
         Proposing, NoExtension, Quiet, Unmoved, SameMail, Verdict
<1>4. NumberInv(g, a)'
  BY Pure, Letters
  DEF Yields, NumberInv, WhoseInv, Ready, Shape, Settled, RaceInv, Recipient, News, Takes,
         Proposing, NoExtension, Quiet, Unmoved, SameMail, Answering
<1>5. DraftInv(a, g)'
  BY Pure, Letters
  DEF Yields, DraftInv, WireInv, Ready, Shape, Settled, RaceInv, Recipient, News, Takes,
         Proposing, NoExtension, Quiet, Unmoved, SameMail, Verdict
<1>6. DraftInv(g, a)'
  BY Pure, Letters
  DEF Yields, DraftInv, WhoseInv, Ready, Shape, Settled, RaceInv, Recipient, News, Takes,
         Proposing, NoExtension, Quiet, Unmoved, SameMail, Answering
<1>7. PendInv(a, g)'
  <2>1. p # Ext(a).p
    BY <1>a, Whose DEF Yields
  <2>. QED
    BY <1>a, <2>1 DEF Yields, News, PendInv, Unmoved, Proposing
<1>8. PendInv(g, a)'
  BY Pure, Letters
  DEF Yields, PendInv, FreshInv, AboveInv, Ready, Shape, Settled, RaceInv, Recipient, News,
         Takes, Proposing, NoExtension, Quiet, Unmoved, SameMail
<1>9. FreshInv(a, g)'
  <2>1. Yes(p) \notin Mail(g) /\ No(p) \notin Mail(g)
    BY Letters DEF Yields, News, WireInv, Settled, RaceInv, Verdict
  <2>2. \A m : <<Yes(p), m>> \notin Order(g) /\ <<No(p), m>> \notin Order(g)
    BY <2>1 DEF Ready, Shape
  <2>3. /\ a = Recipient /\ Proposing(g)' /\ Ext(g)'.p = p
        /\ Order(g)' = Order(g)
    BY <1>a DEF Yields, Unmoved, SameMail, Proposing
  <2>. QED
    BY <2>2, <2>3 DEF FreshInv
<1>10. FreshInv(g, a)'
  <2>1. \A m \in Mail(a) : m.type = "propose" /\ m.p \notin Known(a)' =>
          m.p \notin Known(a) /\ m \in Mail(a) /\ ~(
            /\ g = Recipient /\ Proposing(a)
            /\ <<Yes(Ext(a).p), m>> \notin Order(a) /\ <<No(Ext(a).p), m>> \notin Order(a))
    BY DEF Yields, Initiator, Recipient
  <2>2. Mail(a)' \subseteq Mail(a) /\ Ext(g)' = Ext(g)
    BY DEF Yields, Takes, SameMail, Unmoved
  <2>3. \A m \in Mail(a) : m.type = "propose" /\ m.p \notin Known(a)' =>
          Proposing(g) /\ Ext(g).p = m.p
    BY <2>1 DEF FreshInv, Settled, RaceInv
  <2>. QED
    BY <2>2, <2>3 DEF FreshInv, Proposing
<1>11. KnownInv(g, a)'
  BY Pure, Letters
  DEF Yields, KnownInv, WhoseInv, FreshInv, Ready, Shape, Settled, RaceInv, Recipient, News,
         Takes, Proposing, NoExtension, Quiet, Unmoved, SameMail, Overruled, Answering
<1>12. ComingInv(g, a)'
  BY <1>a DEF Yields, ComingInv, Unmoved
<1>13. SameInv(a, g)'
  <2>1. Offer(p) # Yes(Ext(a).p)
    BY Letters
  <2>2. ~Unapplied(a, g)
    <3>1. Yes(Ext(a).p) \notin Mail(a)
      BY <1>a DEF Yields, Takes, OrderInv, Settled, RaceInv
    <3>2. Ext(g).st # "approved_emitting"
      BY <1>a DEF Proposing
    <3>. QED
      BY <3>1, <3>2 DEF Unapplied, Granted
  <2>3. Unapplied(g, a) => Unapplied(g, a)'
    BY DEF Yields, Unmoved, SameMail, Unapplied, Granted, Proposing
  <2>. QED
    BY <2>2, <2>3 DEF SameInv, Settled, Yields, Unmoved
<1>. QED
  BY <1>1, <1>2, <1>3, <1>4, <1>5, <1>6, <1>7, <1>8, <1>9, <1>10, <1>11, <1>12, <1>13 DEF Settled, RaceInv

LEMMA AppliesRace ==
  ASSUME NEW a \in Host, NEW g \in Host, a # g, Ready(a, g), Settled(a, g),
         NEW p, Applies(a, g, p)
  PROVE  Settled(a, g)'
<1>1. /\ WhoseInv(a, g)' /\ WhoseInv(g, a)' /\ WireInv(a, g)' /\ WireInv(g, a)'
      /\ NumberInv(a, g)' /\ DraftInv(a, g)' /\ AboveInv(a, g)' /\ AboveInv(g, a)'
      /\ GrantInv(a, g)' /\ GrantInv(g, a)'
  BY Pure, Letters
  DEF Applies, WhoseInv, WireInv, NumberInv, DraftInv, AboveInv, GrantInv, Ready, Shape,
         Settled, RaceInv, Takes, NoExtension, Quiet, Unmoved, SameMail, Proposing, Answering,
         Verdict, Granted
<1>2. /\ KnownInv(a, g)' /\ ComingInv(a, g)' /\ SendsInv(a, g)' /\ SendsInv(g, a)'
      /\ OrderInv(a, g)' /\ OrderInv(g, a)' /\ OnceInv(a, g)' /\ MarginInv(a, g)'
      /\ FailedInv(a, g)' /\ FailedInv(g, a)'
  BY Pure, Letters
  DEF Applies, KnownInv, ComingInv, SendsInv, OrderInv, OnceInv, MarginInv, FailedInv, Ready,
         Shape, Settled, RaceInv, Takes, NoExtension, Quiet, Unmoved, SameMail, Proposing,
         Overruled, Initiator, Denied, Granted, Emitting, Recipient
<1>3. NumberInv(g, a)'
  BY Pure, Letters
  DEF Applies, NumberInv, WireInv, Ready, Shape, Settled, RaceInv, Takes, NoExtension, Quiet,
         Unmoved, SameMail, Verdict
<1>4. DraftInv(g, a)'
  BY Pure, Letters
  DEF Applies, DraftInv, WireInv, Ready, Shape, Settled, RaceInv, Takes, NoExtension, Quiet,
         Unmoved, SameMail, Verdict
<1>5. PendInv(a, g)'
  BY Pure, Letters
  DEF Applies, PendInv, AboveInv, Ready, Shape, Settled, RaceInv, Takes, NoExtension, Quiet,
         Unmoved, SameMail, Proposing
<1>6. PendInv(g, a)'
  BY Pure, Letters
  DEF Applies, PendInv, WireInv, Ready, Shape, Settled, RaceInv, Takes, NoExtension, Quiet,
         Unmoved, SameMail, Proposing, Verdict
<1>7. FreshInv(a, g)'
  BY Pure, Letters
  DEF Applies, FreshInv, WireInv, Ready, Shape, Settled, RaceInv, Takes, NoExtension, Quiet,
         Unmoved, SameMail, Proposing, Recipient, Verdict
<1>8. FreshInv(g, a)'
  <2>1. \A m \in Mail(a) : m.type = "propose" /\ m.p \notin Known(a)' =>
          m.p \notin Known(a) /\ m \in Mail(a) /\ ~(
            /\ g = Recipient /\ Proposing(a)
            /\ <<Yes(Ext(a).p), m>> \notin Order(a) /\ <<No(Ext(a).p), m>> \notin Order(a))
    BY DEF Applies, Takes
  <2>2. Mail(a)' \subseteq Mail(a) /\ Ext(g)' = Ext(g)
    BY DEF Applies, Takes, SameMail, Unmoved
  <2>3. \A m \in Mail(a) : m.type = "propose" /\ m.p \notin Known(a)' =>
          Proposing(g) /\ Ext(g).p = m.p
    BY <2>1 DEF FreshInv, Settled, RaceInv
  <2>. QED
    BY <2>2, <2>3 DEF FreshInv, Proposing
<1>9. KnownInv(g, a)'
  BY Pure, Letters
  DEF Applies, KnownInv, WhoseInv, WireInv, Ready, Shape, Settled, RaceInv, Takes, NoExtension,
         Quiet, Unmoved, SameMail, Proposing, Overruled, Answering, Verdict, Recipient
<1>10. ComingInv(g, a)'
  BY Pure, Letters
  DEF Applies, ComingInv, WireInv, Ready, Shape, Settled, RaceInv, Takes, NoExtension, Quiet,
         Unmoved, SameMail, Proposing, Overruled, Verdict, Recipient
<1>11. OnceInv(g, a)'
  <2>1. \A q \in Proposal : /\ Granted(g, a, q)' => Granted(g, a, q)
                            /\ Denied(g, a, q)' => Denied(g, a, q)
    BY DEF Granted, Denied, Applies, SameMail, Quiet, NoExtension
  <2>. QED
    BY <2>1 DEF OnceInv, Settled, RaceInv
<1>12. MarginInv(g, a)'
  BY Pure, Letters
  DEF Applies, MarginInv, AboveInv, GrantInv, Ready, Shape, Settled, RaceInv, Takes,
         NoExtension, Quiet, Unmoved, SameMail, Proposing, Granted
<1>13. SameInv(a, g)'
  BY Pure, Letters
  DEF Applies, SameInv, AboveInv, GrantInv, Ready, Shape, Settled, RaceInv, Takes, NoExtension,
         Quiet, Unmoved, SameMail, Unapplied, Proposing, Granted
<1>. QED
  BY <1>1, <1>2, <1>3, <1>4, <1>5, <1>6, <1>7, <1>8, <1>9, <1>10, <1>11, <1>12, <1>13 DEF Settled, RaceInv

LEMMA DropsRace ==
  ASSUME NEW a \in Host, NEW g \in Host, a # g, Ready(a, g), Settled(a, g),
         NEW p, Drops(a, g, p)
  PROVE  Settled(a, g)'
<1>1. /\ WhoseInv(a, g)' /\ WhoseInv(g, a)' /\ WireInv(a, g)' /\ WireInv(g, a)'
      /\ NumberInv(a, g)' /\ DraftInv(a, g)' /\ AboveInv(a, g)' /\ AboveInv(g, a)'
      /\ GrantInv(a, g)' /\ GrantInv(g, a)'
  BY Pure, Letters
  DEF Drops, WhoseInv, WireInv, NumberInv, DraftInv, AboveInv, GrantInv, Ready, Shape, Settled,
         RaceInv, Takes, NoExtension, Quiet, Unmoved, SameMail, Proposing, Answering, Verdict,
         Granted
<1>2. /\ KnownInv(a, g)' /\ ComingInv(a, g)' /\ SendsInv(a, g)' /\ SendsInv(g, a)'
      /\ OrderInv(a, g)' /\ OrderInv(g, a)' /\ OnceInv(a, g)' /\ OnceInv(g, a)'
      /\ MarginInv(a, g)' /\ MarginInv(g, a)'
  BY Pure, Letters
  DEF Drops, KnownInv, ComingInv, SendsInv, OrderInv, OnceInv, MarginInv, Ready, Shape, Settled,
         RaceInv, Takes, NoExtension, Quiet, Unmoved, SameMail, Proposing, Overruled, Initiator,
         Denied, Granted, Recipient
<1>3. /\ FailedInv(a, g)' /\ FailedInv(g, a)'
  BY Pure, Letters
  DEF Drops, FailedInv, Ready, Shape, Settled, RaceInv, Takes, NoExtension, Quiet, Unmoved,
         SameMail, Emitting
<1>4. NumberInv(g, a)'
  BY Pure, Letters
  DEF Drops, NumberInv, WireInv, Ready, Shape, Settled, RaceInv, Takes, NoExtension, Quiet,
         Unmoved, SameMail, Verdict
<1>5. DraftInv(g, a)'
  BY Pure, Letters
  DEF Drops, DraftInv, WireInv, Ready, Shape, Settled, RaceInv, Takes, NoExtension, Quiet,
         Unmoved, SameMail, Verdict
<1>6. PendInv(a, g)'
  BY Pure, Letters
  DEF Drops, PendInv, WireInv, Ready, Shape, Settled, RaceInv, Takes, NoExtension, Quiet,
         Unmoved, SameMail, Proposing, Verdict
<1>7. PendInv(g, a)'
  BY Pure, Letters
  DEF Drops, PendInv, WireInv, Ready, Shape, Settled, RaceInv, Takes, NoExtension, Quiet,
         Unmoved, SameMail, Proposing, Verdict
<1>8. FreshInv(a, g)'
  BY Pure, Letters
  DEF Drops, FreshInv, WireInv, Ready, Shape, Settled, RaceInv, Takes, NoExtension, Quiet,
         Unmoved, SameMail, Proposing, Recipient, Verdict
<1>9. FreshInv(g, a)'
  <2>1. \A m \in Mail(a) : m.type = "propose" /\ m.p \notin Known(a)' =>
          m.p \notin Known(a) /\ m \in Mail(a) /\ ~(
            /\ g = Recipient /\ Proposing(a)
            /\ <<Yes(Ext(a).p), m>> \notin Order(a) /\ <<No(Ext(a).p), m>> \notin Order(a))
    BY DEF Drops, Takes
  <2>2. Mail(a)' \subseteq Mail(a) /\ Ext(g)' = Ext(g)
    BY DEF Drops, Takes, SameMail, Unmoved
  <2>3. \A m \in Mail(a) : m.type = "propose" /\ m.p \notin Known(a)' =>
          Proposing(g) /\ Ext(g).p = m.p
    BY <2>1 DEF FreshInv, Settled, RaceInv
  <2>. QED
    BY <2>2, <2>3 DEF FreshInv, Proposing
<1>10. KnownInv(g, a)'
  BY Pure, Letters
  DEF Drops, KnownInv, WhoseInv, WireInv, Ready, Shape, Settled, RaceInv, Takes, NoExtension,
         Quiet, Unmoved, SameMail, Proposing, Overruled, Answering, Verdict, Recipient
<1>11. ComingInv(g, a)'
  BY Pure, Letters
  DEF Drops, ComingInv, WireInv, WhoseInv, Ready, Shape, Settled, RaceInv, Takes, NoExtension,
         Quiet, Unmoved, SameMail, Proposing, Overruled, Verdict, Answering, Recipient
<1>12. SameInv(a, g)'
  BY Pure, Letters
  DEF Drops, SameInv, OnceInv, WhoseInv, WireInv, Ready, Shape, Settled, RaceInv, Takes,
         NoExtension, Quiet, Unmoved, SameMail, Unapplied, Denied, Granted, Proposing,
         Answering, Verdict
<1>. QED
  BY <1>1, <1>2, <1>3, <1>4, <1>5, <1>6, <1>7, <1>8, <1>9, <1>10, <1>11, <1>12 DEF Settled, RaceInv

-----------------------------------------------------------------------------
(* The inbox, as a set of envelopes and their order                        *)

LEMMA MailTypes ==
  ASSUME TypeOK, NEW h \in Host
  PROVE  Shape(h)
<1>1. /\ sess[h] \in Session /\ suspended[h] \in SUBSET Write /\ left[h] \in Nat
      /\ box[h] \in Seq(Message) /\ left[h] <= Len(box[h]) /\ drafts[h] \in Nat
      /\ pend[h] \in Proposal \cup {None, Numberless}
  BY DEF TypeOK
<1>2. /\ Ext(h) \in Extension /\ Max(h) \in Nat /\ sess[h].decided \subseteq Proposal
  BY <1>1, NumAssumption DEF Ext, Max, Session
<1>3. \/ Ext(h) = NoExtension
      \/ /\ Ext(h) = [p |-> Ext(h).p, st |-> Ext(h).st] /\ Ext(h).p \in Proposal
         /\ Ext(h).st \in Emitting \cup {"awaiting_peer"}
  BY <1>2 DEF Extension
<1>4. Known(h) \subseteq Proposal /\ Racing(h) \subseteq Known(h)
  BY <1>2 DEF Known, Racing
<1>5. /\ DOMAIN box[h] = 1 .. Len(box[h]) /\ Len(box[h]) \in Nat
      /\ \A i \in DOMAIN box[h] : box[h][i] \in Message
  BY <1>1
<1>6. Mail(h) \subseteq Message /\ Order(h) \subseteq Mail(h) \X Mail(h)
  BY <1>5 DEF Mail, Order
<1>7. Due(h) \subseteq Mail(h)
  <2>1. 1 .. left[h] \subseteq DOMAIN box[h]
    BY <1>1, <1>5
  <2>. QED
    BY <2>1 DEF Due, Mail
<1>. QED
  BY <1>1, <1>2, <1>3, <1>4, <1>6, <1>7 DEF Shape

LEMMA MailTypesNext == TypeOK' => \A h \in Host : Shape(h)'
<1>1. TypeOK => \A h \in Host : Shape(h)
  BY MailTypes
<1>2. (TypeOK => \A h \in Host : Shape(h))'
  BY <1>1, PTL
<1>. QED
  BY <1>2

LEMMA MailKept ==
  ASSUME NEW h \in Host, box'[h] = box[h]
  PROVE  /\ Mail(h)' = Mail(h) /\ Order(h)' = Order(h)
         /\ left'[h] = left[h] => Due(h)' = Due(h)
         /\ left'[h] = left[h] => \A m : Posts(h, m)
<1>1. /\ Mail(h)' = Mail(h) /\ Order(h)' = Order(h)
      /\ left'[h] = left[h] => Due(h)' = Due(h)
  BY DEF Mail, Order, Due
<1>. QED
  BY <1>1 DEF Posts

LEMMA MailPosted ==
  ASSUME TypeOK, NEW h \in Host, NEW m \in Message,
         box'[h] = Append(box[h], m), left'[h] = left[h]
  PROVE  Posts(h, m) /\ m \in Mail(h)'
<1>. DEFINE q == box[h]  r == box'[h]
<1>1. q \in Seq(Message) /\ left[h] \in Nat /\ left[h] <= Len(q) /\ Len(q) \in Nat
  BY DEF TypeOK
<1>2. r = Append(q, m) /\ Len(r) = Len(q) + 1 /\ r[Len(q) + 1] = m
  BY <1>1
<1>3. /\ DOMAIN q = 1 .. Len(q) /\ DOMAIN r = 1 .. Len(q) + 1
      /\ \A i \in DOMAIN q : i \in DOMAIN r /\ r[i] = q[i]
  BY <1>1, <1>2
<1>. HIDE DEF q, r
<1>4. Mail(h)' = {r[i] : i \in DOMAIN r} /\ Mail(h) = {q[i] : i \in DOMAIN q}
  BY DEF Mail, q, r
<1>5. \A i \in DOMAIN r : i \in DOMAIN q \/ (i = Len(q) + 1 /\ r[i] = m)
  BY <1>1, <1>2, <1>3
<1>6. Mail(h) \subseteq Mail(h)' /\ Mail(h)' \subseteq Mail(h) \cup {m} /\ m \in Mail(h)'
  <2>1. Len(q) + 1 \in DOMAIN r
    BY <1>1, <1>3
  <2>. QED
    BY <1>2, <1>3, <1>4, <1>5, <2>1
<1>7. Order(h)' \subseteq Order(h) \cup (Mail(h)' \X {m})
  <2>1. SUFFICES ASSUME NEW i \in DOMAIN r, NEW j \in DOMAIN r, i <= j,
                        <<r[i], r[j]>> \notin Mail(h)' \X {m}
                 PROVE  <<r[i], r[j]>> \in Order(h)
    <3>1. \A o \in Order(h)' : \E i \in DOMAIN r, j \in DOMAIN r : i <= j /\ o = <<r[i], r[j]>>
      BY DEF Order, r
    <3>. QED
      BY <3>1
  <2>2. r[i] \in Mail(h)'
    BY <1>4
  <2>3. r[j] # m
    BY <2>1, <2>2
  <2>4. j \in 1 .. Len(q) /\ i \in 1 .. Len(q)
    BY <1>1, <1>3, <1>5, <2>1, <2>3
  <2>5. i \in DOMAIN q /\ j \in DOMAIN q /\ r[i] = q[i] /\ r[j] = q[j]
    BY <1>3, <2>4
  <2>6. <<q[i], q[j]>> \in Order(h)
    <3>1. <<i, j>> \in (DOMAIN q) \X (DOMAIN q) /\ <<i, j>>[1] <= <<i, j>>[2]
      BY <2>1, <2>5
    <3>. QED
      BY <3>1 DEF Order, q
  <2>. QED
    BY <2>5, <2>6
<1>8. Due(h)' = Due(h)
  <2>1. \A i \in 1 .. left[h] : i \in DOMAIN q
    BY <1>1, <1>3
  <2>2. Due(h)' = {r[i] : i \in 1 .. left[h]} /\ Due(h) = {q[i] : i \in 1 .. left[h]}
    BY DEF Due, q, r
  <2>. QED
    BY <1>3, <2>1, <2>2
<1>. QED
  BY <1>6, <1>7, <1>8 DEF Posts

LEMMA MailTaken ==
  ASSUME TypeOK, NEW h \in Host, NEW type, IsNext(h, type), box'[h] = Tail(box[h])
  PROVE  /\ Takes(h, Head(box[h])) /\ Head(box[h]).type = type
         /\ Head(box[h]) \in Message
         /\ type # "turn" => Head(box[h]).p \in Proposal
         /\ suspended[h] = {} \/ Overlapping # {}
<1>. DEFINE q == box[h]  r == box'[h]  m == Head(q)
<1>1. /\ q \in Seq(Message) /\ left[h] \in Nat /\ left[h] > 0 /\ left[h] <= Len(q)
      /\ Len(q) \in Nat /\ left'[h] = left[h] - 1 /\ m.type = type
  BY DEF TypeOK, IsNext
<1>2. q # <<>> /\ m = q[1] /\ m \in Message
  BY <1>1
<1>3. r \in Seq(Message) /\ Len(r) = Len(q) - 1
  BY <1>1, <1>2
<1>4. /\ DOMAIN q = 1 .. Len(q) /\ DOMAIN r = 1 .. Len(q) - 1
      /\ \A i \in DOMAIN r : i + 1 \in DOMAIN q /\ r[i] = q[i + 1]
  BY <1>1, <1>2, <1>3
<1>. HIDE DEF q, r, m
<1>5. Mail(h)' = {r[i] : i \in DOMAIN r} /\ Mail(h) = {q[i] : i \in DOMAIN q}
  BY DEF Mail, q, r
<1>6. Mail(h)' \subseteq Mail(h)
  BY <1>4, <1>5
<1>7. Mail(h) \subseteq Mail(h)' \cup {m}
  <2>1. ASSUME NEW i \in DOMAIN q, i # 1 PROVE q[i] \in Mail(h)'
    <3>1. i - 1 \in DOMAIN r /\ (i - 1) + 1 = i
      BY <1>1, <1>4, <2>1
    <3>. QED
      BY <1>4, <1>5, <3>1
  <2>. QED
    BY <1>2, <1>5, <2>1
<1>8. m \in Mail(h) /\ m \in Due(h)
  <2>1. 1 \in DOMAIN q /\ 1 \in 1 .. left[h]
    BY <1>1, <1>4
  <2>. QED
    BY <1>2, <1>5, <2>1 DEF Due, q
<1>9. Order(h)' \subseteq Order(h)
  <2>1. SUFFICES ASSUME NEW i \in DOMAIN r, NEW j \in DOMAIN r, i <= j
                 PROVE  <<r[i], r[j]>> \in Order(h)
    <3>1. \A o \in Order(h)' : \E i \in DOMAIN r, j \in DOMAIN r : i <= j /\ o = <<r[i], r[j]>>
      BY DEF Order, r
    <3>. QED
      BY <3>1
  <2>2. /\ i + 1 \in DOMAIN q /\ j + 1 \in DOMAIN q /\ i + 1 <= j + 1
        /\ r[i] = q[i + 1] /\ r[j] = q[j + 1]
    BY <1>1, <1>4, <2>1
  <2>3. <<i + 1, j + 1>> \in (DOMAIN q) \X (DOMAIN q)
        /\ <<i + 1, j + 1>>[1] <= <<i + 1, j + 1>>[2]
    BY <2>2
  <2>4. <<q[i + 1], q[j + 1]>> \in Order(h)
    BY <2>3 DEF Order, q
  <2>. QED
    BY <2>2, <2>4
<1>10. \A x \in Mail(h) : <<m, x>> \in Order(h)
  <2>1. SUFFICES ASSUME NEW i \in DOMAIN q PROVE <<m, q[i]>> \in Order(h)
    BY <1>5
  <2>2. <<1, i>> \in (DOMAIN q) \X (DOMAIN q) /\ <<1, i>>[1] <= <<1, i>>[2]
    BY <1>1, <1>4
  <2>. QED
    BY <1>2, <2>2 DEF Order, q
<1>11. Due(h)' \subseteq Due(h)
  <2>1. Due(h)' = {r[i] : i \in 1 .. left[h] - 1} /\ Due(h) = {q[i] : i \in 1 .. left[h]}
    BY <1>1 DEF Due, q, r
  <2>2. ASSUME NEW i \in 1 .. left[h] - 1
        PROVE  i \in DOMAIN r /\ i + 1 \in 1 .. left[h]
    BY <1>1, <1>4
  <2>. QED
    BY <1>4, <2>1, <2>2
<1>12. Takes(h, m)
  BY <1>6, <1>7, <1>8, <1>9, <1>10, <1>11 DEF Takes
<1>13. type # "turn" => m.p \in Proposal
  BY <1>1, <1>2, Letters
<1>14. suspended[h] = {} \/ Overlapping # {}
  BY DEF IsNext, InboxFree, Free
<1>. QED
  BY <1>1, <1>2, <1>12, <1>13, <1>14 DEF m, q

(* A step of a leaves its peer alone.                                      *)
Acts(a) ==
  \/ Extend(a) \/ Approve(a) \/ Reject(a) \/ Turn(a) \/ LeaveLive(a)
  \/ Retry(a) \/ Pull(a) \/ Dispatch(a) \/ Resume(a)

LEMMA Others ==
  ASSUME TypeOK, NEW a \in Host, NEW g \in Host, a # g, Acts(a)
  PROVE  /\ sess'[g] = sess[g] /\ pend'[g] = pend[g] /\ suspended'[g] = suspended[g]
         /\ left'[g] = left[g] /\ drafts'[g] = drafts[g] /\ Unmoved(g)
<1>1. /\ sess'[g] = sess[g] /\ pend'[g] = pend[g] /\ suspended'[g] = suspended[g]
      /\ left'[g] = left[g] /\ drafts'[g] = drafts[g]
  <2>0. /\ DOMAIN sess = Host /\ DOMAIN pend = Host /\ DOMAIN suspended = Host
        /\ DOMAIN left = Host /\ DOMAIN drafts = Host
    BY DEF TypeOK
  <2>1. CASE Extend(a)
    BY <2>0, <2>1 DEF Extend, SetPend
  <2>2. CASE Approve(a) \/ Reject(a)
    BY <2>0, <2>2 DEF Approve, Reject, Emit, Sent, NotSent, Put, SetPend
  <2>3. CASE Turn(a) \/ LeaveLive(a) \/ Pull(a)
    BY <2>0, <2>3 DEF Turn, LeaveLive, Pull, QueueBudget, Put, SetPend, bounds
  <2>4. CASE Retry(a)
    BY <2>0, <2>4 DEF Retry, Sent, NotSent
  <2>5. CASE Resume(a)
    BY <2>0, <2>5 DEF Resume, Put, bounds
  <2>6. CASE RecvTurn(a) \/ RecvProposeIgnored(a) \/ RecvProposeQueued(a)
    BY <2>0, <2>6 DEF RecvTurn, RecvProposeIgnored, RecvProposeQueued, Take, IsNext,
                      QueueBudget, Put, SetPend, bounds
  <2>7. CASE a = Initiator /\ RecvProposeWins
    BY <2>0, <2>7 DEF RecvProposeWins, IsNext
  <2>8. CASE a = Recipient /\ RecvProposeYields
    BY <2>0, <2>8 DEF RecvProposeYields, Take, IsNext, Put, SetPend, bounds
  <2>9. CASE RecvApproved(a) \/ RecvReject(a)
    BY <2>0, <2>9 DEF RecvApproved, RecvReject, Take, IsNext, Put, bounds
  <2>. QED
    BY <2>1, <2>2, <2>3, <2>4, <2>5, <2>6, <2>7, <2>8, <2>9 DEF Acts, Dispatch
<1>. QED
  BY <1>1 DEF Unmoved, Ext, Max, Known, Racing, Sending

-----------------------------------------------------------------------------
(* What each action of a host does, when its handlers do not overlap       *)

(* What a suspended handler will write back is the record as it is, once   *)
(* its envelope is out, or its proposal rejected.                          *)
Calls(h) ==
  /\ ~sess[h].live => Ext(h) = NoExtension /\ suspended[h] = {}
  /\ \A w \in suspended[h] :
       /\ suspended[h] = {w}
       /\ \/ w.kind = "race" /\ w.to = [sess[h] EXCEPT !.decided = @ \cup {w.p}]
          \/ w.kind # "race" /\ Ext(h).st \in Emitting /\ w.to = Emitted(sess[h])

Moves(a, g) ==
  \/ Calm(a, g) \/ Resends(a, g) \/ Finishes(a, g)
  \/ \E m : Skips(a, g, m)
  \/ \E p : \/ Drafts(a, g, p) \/ Proposes(a, g, p) \/ Queues(a, g, p) \/ Wins(a, g, p)
            \/ Yields(a, g, p) \/ Applies(a, g, p) \/ Drops(a, g, p)
  \/ \E p, st : Answers(a, g, p, st)

LEMMA Idle ==
  ASSUME NEW h \in Host
  PROVE  /\ suspended[h] = {} => Racing(h) = {} /\ ~Sending(h) /\ Known(h) = sess[h].decided
         /\ suspended'[h] = {} =>
              Racing(h)' = {} /\ ~Sending(h)' /\ Known(h)' = sess'[h].decided
BY DEF Racing, Sending, Known

(* The records, the suspended handlers and the inboxes stay.               *)
LEMMA Still ==
  ASSUME NEW a \in Host, NEW g \in Host, UNCHANGED <<sess, suspended, box, left, losses>>,
         drafts'[a] = drafts[a], KeepsAsking(a, g), Unmoved(g)
  PROVE  Calm(a, g)
<1>1. /\ Ext(a)' = Ext(a) /\ Max(a)' = Max(a) /\ Known(a)' = Known(a)
      /\ Racing(a)' = Racing(a) /\ (Sending(a)' <=> Sending(a))
  BY DEF Ext, Max, Known, Racing, Sending
<1>2. Posts(g, TurnMessage) /\ SameMail(a)
  BY MailKept DEF SameMail
<1>. QED
  BY <1>1, <1>2 DEF Calm, SameMail

(* A send, whatever it reports.                                            *)
LEMMA SendGoes ==
  ASSUME TypeOK, NEW a \in Host, NEW g \in Host, a # g, suspended[a] = {},
         NEW m \in Message, NEW w, w.kind # "race", left'[g] = left[g],
         Sent(a, m, w) \/ NotSent(a, m)
  PROVE  /\ Goes(a, g, m) /\ box'[a] = box[a] /\ Racing(a) = {} /\ Racing(a)' = {}
         /\ ~Sending(a) /\ suspended'[a] \subseteq {w}
         /\ Known(a) = sess[a].decided /\ Known(a)' = sess'[a].decided
<1>1. /\ DOMAIN box = Host /\ DOMAIN suspended = Host /\ g = Peer(a)
  BY DEF TypeOK, Peer, Host
<1>2. Racing(a) = {} /\ ~Sending(a) /\ Known(a) = sess[a].decided
  BY Idle
<1>3. CASE Sent(a, m, w)
  <2>1. /\ suspended'[a] = {w} /\ box'[a] = box[a] /\ box'[g] = Append(box[g], m)
        /\ losses' = losses
    BY <1>1, <1>3 DEF Sent, Posted
  <2>2. Posts(g, m) /\ m \in Mail(g)'
    BY <2>1, MailPosted
  <2>3. Sending(a)' /\ Racing(a)' = {} /\ Known(a)' = sess'[a].decided
    BY <2>1 DEF Sending, Racing, Known
  <2>. QED
    BY <1>2, <2>1, <2>2, <2>3 DEF Goes
<1>4. CASE NotSent(a, m)
  <2>1. /\ suspended'[a] = {} /\ box'[a] = box[a] /\ losses' = losses + 1
        /\ box'[g] = box[g] \/ box'[g] = Append(box[g], m)
    BY <1>1, <1>4 DEF NotSent, Posted
  <2>2. Posts(g, m)
    BY <2>1, MailPosted, MailKept
  <2>3. ~Sending(a)' /\ Racing(a)' = {} /\ Known(a)' = sess'[a].decided
    BY <2>1, Idle
  <2>. QED
    BY <1>2, <2>1, <2>2, <2>3 DEF Goes
<1>. QED
  BY <1>3, <1>4

(* emitBudgetEnvelope for a live record s with an extension to be sent.    *)
LEMMA EmitGoes ==
  ASSUME TypeOK, NEW a \in Host, NEW g \in Host, a # g, suspended[a] = {},
         NEW s \in Session, s.live, s.ext.st \in Emitting, left' = left, Emit(a, s)
  PROVE  /\ Goes(a, g, EnvelopeOf(s.ext)) /\ SameMail(a)
         /\ Racing(a) = {} /\ Racing(a)' = {} /\ ~Sending(a)
         /\ Known(a) = sess[a].decided /\ Known(a)' = s.decided
         /\ Ext(a)' = s.ext /\ Max(a)' = s.max /\ Calls(a)'
<1>. DEFINE w == [kind |-> "emit", p |-> s.ext.p, to |-> Emitted(s)]
<1>1. sess'[a] = s
  BY DEF TypeOK, Emit, Put
<1>2. EnvelopeOf(s.ext) \in Message
  BY EnvelopeType DEF Session, Emitting, NoExtension
<1>3. w.kind # "race" /\ w.to = Emitted(s)
  OBVIOUS
<1>4. Sent(a, EnvelopeOf(s.ext), w) \/ NotSent(a, EnvelopeOf(s.ext))
  BY DEF Emit
<1>. HIDE DEF w
<1>5. /\ Goes(a, g, EnvelopeOf(s.ext)) /\ box'[a] = box[a]
      /\ Racing(a) = {} /\ Racing(a)' = {} /\ ~Sending(a) /\ suspended'[a] \subseteq {w}
      /\ Known(a) = sess[a].decided /\ Known(a)' = sess'[a].decided
  BY <1>2, <1>3, <1>4, SendGoes
<1>6. SameMail(a)
  BY <1>5, MailKept DEF SameMail
<1>7. Ext(a)' = s.ext /\ Max(a)' = s.max
  BY <1>1 DEF Ext, Max
<1>8. Calls(a)'
  BY <1>1, <1>3, <1>5, <1>7 DEF Calls
<1>. QED
  BY <1>1, <1>5, <1>6, <1>7, <1>8

LEMMA DecisionMove ==
  ASSUME TypeOK, Overlapping = {}, NEW a \in Host, NEW g \in Host, a # g, Calls(a),
         Approve(a) \/ Reject(a)
  PROVE  Calls(a)' /\ Moves(a, g)
<1>. DEFINE p == pend[a]
<1>0. /\ sess[a] \in Session /\ sess[a].live /\ suspended[a] = {} /\ left' = left
      /\ pend' = [pend EXCEPT ![a] = None] /\ pend'[a] = None /\ None \notin Proposal
      /\ drafts' = drafts
  BY NoneAssumption DEF TypeOK, Approve, Reject, Free, SetPend
<1>1. Unmoved(g)
  BY Others DEF Acts
<1>2. CASE Approve(a) /\ p.by = a
  <2>. DEFINE s == [sess[a] EXCEPT !.ext = [p |-> p, st |-> "emitting"]]
  <2>1. p \in Proposal /\ Emit(a, s)
    BY <1>2 DEF Approve
  <2>2. s \in Session
    BY <1>0, <2>1, ApproveType
  <2>3. /\ s.live /\ s.ext = [p |-> p, st |-> "emitting"] /\ s.max = sess[a].max
        /\ s.decided = sess[a].decided
    BY <1>0 DEF Session
  <2>4. s.ext.st \in Emitting /\ EnvelopeOf(s.ext) = Offer(p)
    BY <2>3 DEF Emitting, EnvelopeOf, Offer
  <2>. HIDE DEF s
  <2>5. /\ Goes(a, g, EnvelopeOf(s.ext)) /\ SameMail(a)
        /\ Racing(a) = {} /\ Racing(a)' = {} /\ ~Sending(a)
        /\ Known(a) = sess[a].decided /\ Known(a)' = s.decided
        /\ Ext(a)' = s.ext /\ Max(a)' = s.max /\ Calls(a)'
    BY <1>0, <2>1, <2>2, <2>3, <2>4, EmitGoes
  <2>6. Proposes(a, g, p)
    BY <1>0, <1>1, <1>2, <2>1, <2>3, <2>4, <2>5 DEF Proposes, Max
  <2>. QED
    BY <2>5, <2>6 DEF Moves
<1>3. CASE Approve(a) /\ p.by # a
  <2>. DEFINE s == [sess[a] EXCEPT !.max = p.num, !.decided = @ \cup {p},
                                   !.ext = [p |-> p, st |-> "approved_emitting"]]
  <2>1. p \in Proposal /\ Emit(a, s)
    BY <1>3 DEF Approve
  <2>2. s \in Session
    BY <1>0, <2>1, ApproveType
  <2>3. /\ s.live /\ s.ext = [p |-> p, st |-> "approved_emitting"] /\ s.max = p.num
        /\ s.decided = sess[a].decided \cup {p}
    BY <1>0 DEF Session
  <2>4. s.ext.st \in Emitting /\ EnvelopeOf(s.ext) = Yes(p)
    BY <2>3 DEF Emitting, EnvelopeOf, Yes
  <2>. HIDE DEF s
  <2>5. /\ Goes(a, g, EnvelopeOf(s.ext)) /\ SameMail(a)
        /\ Racing(a) = {} /\ Racing(a)' = {} /\ ~Sending(a)
        /\ Known(a) = sess[a].decided /\ Known(a)' = s.decided
        /\ Ext(a)' = s.ext /\ Max(a)' = s.max /\ Calls(a)'
    BY <1>0, <2>1, <2>2, <2>3, <2>4, EmitGoes
  <2>6. p.by = g
    BY <1>3, <2>1, Pure DEF Host
  <2>7. Answers(a, g, p, "approved_emitting")
    BY <1>0, <1>1, <2>1, <2>3, <2>4, <2>5, <2>6 DEF Answers
  <2>. QED
    BY <2>5, <2>7 DEF Moves
<1>4. CASE Reject(a) /\ p \in Proposal /\ p.by # a
  <2>. DEFINE s == [sess[a] EXCEPT !.decided = @ \cup {p},
                                   !.ext = [p |-> p, st |-> "rejected_emitting"]]
  <2>1. p \in Proposal /\ Emit(a, s)
    BY <1>4 DEF Reject
  <2>2. s \in Session
    BY <1>0, <2>1, ApproveType
  <2>3. /\ s.live /\ s.ext = [p |-> p, st |-> "rejected_emitting"] /\ s.max = sess[a].max
        /\ s.decided = sess[a].decided \cup {p}
    BY <1>0 DEF Session
  <2>4. s.ext.st \in Emitting /\ EnvelopeOf(s.ext) = No(p)
    BY <2>3 DEF Emitting, EnvelopeOf, No
  <2>. HIDE DEF s
  <2>5. /\ Goes(a, g, EnvelopeOf(s.ext)) /\ SameMail(a)
        /\ Racing(a) = {} /\ Racing(a)' = {} /\ ~Sending(a)
        /\ Known(a) = sess[a].decided /\ Known(a)' = s.decided
        /\ Ext(a)' = s.ext /\ Max(a)' = s.max /\ Calls(a)'
    BY <1>0, <2>1, <2>2, <2>3, <2>4, EmitGoes
  <2>6. p.by = g
    BY <1>4, Pure DEF Host
  <2>7. Answers(a, g, p, "rejected_emitting")
    BY <1>0, <1>1, <2>1, <2>3, <2>4, <2>5, <2>6 DEF Answers, Max
  <2>. QED
    BY <2>5, <2>7 DEF Moves
<1>5. CASE Reject(a) /\ ~(p \in Proposal /\ p.by # a)
  <2>1. UNCHANGED <<sess, suspended, box, losses>>
    BY <1>5 DEF Reject
  <2>2. KeepsAsking(a, g)
    BY <1>0, <1>5 DEF KeepsAsking
  <2>3. Calm(a, g)
    BY <1>0, <1>1, <2>1, <2>2, Still
  <2>. QED
    BY <2>1, <2>3 DEF Moves, Calls, Ext
<1>. QED
  BY <1>2, <1>3, <1>4, <1>5 DEF Approve

LEMMA AgentMove ==
  ASSUME TypeOK, Overlapping = {}, NEW a \in Host, NEW g \in Host, a # g, Calls(a),
         Extend(a) \/ Turn(a) \/ LeaveLive(a) \/ Pull(a)
  PROVE  Calls(a)' /\ (Moves(a, g) \/ ~sess'[a].live)
<1>0. /\ sess \in [Host -> Session] /\ sess[a] \in Session /\ suspended[a] = {}
      /\ DOMAIN box = Host /\ DOMAIN left = Host /\ g = Peer(a)
      /\ pend \in [Host -> Proposal \cup {None, Numberless}] /\ drafts \in [Host -> Nat]
  BY DEF TypeOK, Extend, Turn, LeaveLive, Pull, InboxFree, Free, Peer, Host
<1>1. Unmoved(g) /\ left'[g] = left[g]
  BY Others DEF Acts
<1>2. CASE Extend(a)
  <2>1. PICK p \in [by : {a}, n : {drafts[a] + 1}, num : Num] :
          /\ ~Outstanding(a) /\ p.num > sess[a].max /\ p.n <= MaxDrafts
          /\ SetPend(a, p) /\ drafts' = [drafts EXCEPT ![a] = @ + 1]
          /\ UNCHANGED <<sess, suspended, box, left, losses, crashes, agreed>>
    BY <1>2 DEF Extend
  <2>2. /\ Ext(a)' = Ext(a) /\ Max(a)' = Max(a) /\ Known(a)' = Known(a)
        /\ Racing(a)' = Racing(a) /\ (Sending(a)' <=> Sending(a)) /\ Calls(a)'
    BY <2>1 DEF Ext, Max, Known, Racing, Sending, Calls
  <2>3. SameMail(a) /\ SameMail(g)
    BY <2>1, MailKept DEF SameMail
  <2>4. p \in Proposal /\ p.by = a /\ p.n = drafts[a] + 1 /\ pend'[a] = p
        /\ drafts'[a] = drafts[a] + 1
    BY <1>0, <2>1, BoundsAssumption DEF Proposal, SetPend
  <2>5. Ext(a) = NoExtension /\ ~(pend[a] \in Proposal /\ pend[a].by = g) /\ p.num > Max(a)
    BY <2>1 DEF Outstanding, Ext, Max
  <2>6. Drafts(a, g, p)
    BY <1>1, <2>1, <2>2, <2>3, <2>4, <2>5 DEF Drafts
  <2>. QED
    BY <2>2, <2>6 DEF Moves
<1>3. CASE Turn(a) /\ sess[a].turns >= sess[a].max
  <2>1. UNCHANGED <<suspended, left, drafts, losses>>
    BY <1>3 DEF Turn, bounds
  <2>2. CASE UNCHANGED <<sess, box>> /\ QueueBudget(a)
    <3>. DEFINE i == IF sess[a].ext = NoExtension /\ pend[a] = None THEN Numberless ELSE pend[a]
    <3>0. pend' = [pend EXCEPT ![a] = i]
      BY <2>2 DEF QueueBudget, SetPend
    <3>1. pend'[a] = i
      BY <1>0, <3>0
    <3>2. KeepsAsking(a, g)
      BY <3>1, NoneAssumption DEF KeepsAsking
    <3>3. Calm(a, g)
      BY <1>1, <2>1, <2>2, <3>2, Still
    <3>. QED
      BY <2>1, <2>2, <3>3 DEF Moves, Calls, Ext
  <2>3. CASE sess[a].turns < sess[a].max
    <3>1. sess[a].turns \in Nat /\ sess[a].max \in Nat
      BY <1>0, MaxType DEF Session
    <3>. QED
      BY <1>3, <2>3, <3>1
  <2>. QED
    BY <1>3, <2>2, <2>3 DEF Turn
<1>4. CASE Turn(a) /\ ~(sess[a].turns >= sess[a].max)
  <2>1. /\ Put(a, [sess[a] EXCEPT !.turns = @ + 1])
        /\ box' = Posted(box, a, TurnMessage) /\ UNCHANGED <<pend, suspended, left, drafts, losses>>
    BY <1>4 DEF Turn, bounds
  <2>2. /\ sess'[a].max = sess[a].max /\ sess'[a].ext = sess[a].ext
        /\ sess'[a].decided = sess[a].decided
    BY <1>0, <2>1 DEF Put, Session
  <2>3. box'[a] = box[a] /\ box'[g] = Append(box[g], TurnMessage)
    BY <1>0, <2>1, PeerType DEF Posted
  <2>4. SameMail(a) /\ Posts(g, TurnMessage)
    BY <2>1, <2>3, MailKept, MailPosted DEF SameMail, Message
  <2>5. /\ Ext(a)' = Ext(a) /\ Max(a)' = Max(a) /\ Known(a)' = Known(a)
        /\ Racing(a)' = Racing(a) /\ (Sending(a)' <=> Sending(a))
    BY <2>1, <2>2 DEF Ext, Max, Known, Racing, Sending
  <2>6. Calm(a, g)
    BY <1>1, <2>1, <2>4, <2>5 DEF Calm, KeepsAsking, SameMail
  <2>7. Calls(a)'
    <3>1. suspended'[a] = {} /\ (sess'[a].live => sess[a].live) /\ (sess[a].live => sess'[a].live)
      BY <1>0, <2>1 DEF Put, Session
    <3>. QED
      BY <2>5, <3>1 DEF Calls
  <2>. QED
    BY <2>6, <2>7 DEF Moves
<1>5. CASE LeaveLive(a)
  <2>1. /\ sess'[a] = [sess[a] EXCEPT !.live = FALSE, !.ext = NoExtension]
        /\ suspended'[a] = {}
    BY <1>0, <1>5 DEF LeaveLive, Put
  <2>2. ~sess'[a].live /\ Ext(a)' = NoExtension
    BY <1>0, <2>1 DEF Session, Ext
  <2>. QED
    BY <2>1, <2>2 DEF Calls
<1>6. CASE Pull(a)
  <2>1. UNCHANGED <<sess, pend, suspended, box, drafts, losses>> /\ ~NeedsRetry(a)
    BY <1>6 DEF Pull, bounds
  <2>2. /\ Ext(a)' = Ext(a) /\ Max(a)' = Max(a) /\ Known(a)' = Known(a)
        /\ Racing(a)' = Racing(a) /\ (Sending(a)' <=> Sending(a)) /\ Calls(a)'
    BY <2>1 DEF Ext, Max, Known, Racing, Sending, Calls
  <2>3. Ext(a).st \notin Emitting
    BY <2>1 DEF NeedsRetry, Calls, Ext, NoExtension, Emitting
  <2>4. Mail(a)' = Mail(a) /\ Order(a)' = Order(a) /\ Posts(g, TurnMessage)
    BY <1>1, <2>1, MailKept
  <2>5. Calm(a, g)
    BY <1>1, <2>1, <2>2, <2>3, <2>4 DEF Calm, KeepsAsking
  <2>. QED
    BY <2>2, <2>5 DEF Moves
<1>. QED
  BY <1>2, <1>3, <1>4, <1>5, <1>6

LEMMA SendMove ==
  ASSUME TypeOK, Overlapping = {}, NEW a \in Host, NEW g \in Host, a # g, Calls(a),
         Retry(a) \/ Resume(a)
  PROVE  Calls(a)' /\ Moves(a, g)
<1>0. /\ sess \in [Host -> Session] /\ sess[a] \in Session
      /\ suspended \in [Host -> SUBSET Write] /\ DOMAIN left = Host
  BY DEF TypeOK
<1>1. Unmoved(g) /\ left'[g] = left[g]
  BY Others DEF Acts
<1>2. CASE Retry(a)
  <2>. DEFINE w == [kind |-> "retry", p |-> sess[a].ext.p, to |-> Emitted(sess[a])]
  <2>1. /\ suspended[a] = {} /\ sess[a].live /\ Ext(a).st \in Emitting
        /\ UNCHANGED <<sess, pend, drafts>>
        /\ Sent(a, EnvelopeOf(Ext(a)), w) \/ NotSent(a, EnvelopeOf(Ext(a)))
    BY <1>2 DEF Retry, InboxFree, Free, NeedsRetry, Ext
  <2>2. EnvelopeOf(Ext(a)) \in Message
    BY <1>0, <2>1, EnvelopeType DEF Session, Ext, Emitting, NoExtension
  <2>3. w.kind # "race" /\ w.to = Emitted(sess[a])
    OBVIOUS
  <2>. HIDE DEF w
  <2>4. /\ Goes(a, g, EnvelopeOf(Ext(a))) /\ box'[a] = box[a]
        /\ Racing(a) = {} /\ Racing(a)' = {} /\ ~Sending(a) /\ suspended'[a] \subseteq {w}
        /\ Known(a) = sess[a].decided /\ Known(a)' = sess'[a].decided
    BY <1>1, <2>1, <2>2, <2>3, SendGoes
  <2>5. /\ Ext(a)' = Ext(a) /\ Max(a)' = Max(a) /\ Known(a)' = Known(a)
    BY <2>1, <2>4 DEF Ext, Max
  <2>6. Mail(a)' = Mail(a) /\ Order(a)' = Order(a)
    BY <2>4, MailKept
  <2>7. Resends(a, g)
    BY <1>1, <2>1, <2>4, <2>5, <2>6 DEF Resends
  <2>8. Calls(a)'
    BY <2>1, <2>3, <2>4, <2>5 DEF Calls
  <2>. QED
    BY <2>7, <2>8 DEF Moves
<1>3. CASE Resume(a)
  <2>1. PICK w \in suspended[a] :
          /\ sess'[a] = w.to /\ suspended'[a] = suspended[a] \ {w}
          /\ w.kind # "retry" => left' = left
          /\ UNCHANGED <<pend, box, drafts, losses>>
    BY <1>0, <1>3 DEF Resume, Put, bounds
  <2>2. suspended[a] = {w} /\ suspended'[a] = {} /\ w.p \in Proposal
    <3>1. suspended[a] = {w}
      BY <2>1 DEF Calls
    <3>2. w \in Write
      BY <1>0, <2>1
    <3>. QED
      BY <2>1, <3>1, <3>2 DEF Write
  <2>3. sess[a].live
    BY <2>2 DEF Calls
  <2>4. /\ Mail(a)' = Mail(a) /\ Order(a)' = Order(a) /\ SameMail(g)
        /\ Posts(g, TurnMessage) /\ (w.kind # "retry" => Due(a)' = Due(a))
    BY <1>1, <2>1, MailKept DEF SameMail
  <2>5. Racing(a)' = {} /\ ~Sending(a)' /\ Known(a)' = sess'[a].decided
    BY <2>2, Idle
  <2>6. CASE w.kind = "race"
    <3>1. w.to = [sess[a] EXCEPT !.decided = @ \cup {w.p}]
      BY <2>1, <2>6 DEF Calls
    <3>2. /\ Ext(a)' = Ext(a) /\ Max(a)' = Max(a) /\ sess'[a].decided = sess[a].decided \cup {w.p}
          /\ sess'[a].live
      BY <1>0, <2>1, <2>3, <3>1 DEF Session, Ext, Max
    <3>3. Racing(a) = {w.p} /\ ~Sending(a)
      BY <2>2, <2>6 DEF Racing, Sending
    <3>4. Calm(a, g)
      BY <1>1, <2>1, <2>4, <2>5, <2>6, <3>2, <3>3 DEF Calm, KeepsAsking, Known
    <3>. QED
      BY <2>2, <3>2, <3>4 DEF Moves, Calls
  <2>7. CASE w.kind # "race"
    <3>1. w.to = Emitted(sess[a]) /\ Ext(a).st \in Emitting
      BY <2>1, <2>7 DEF Calls
    <3>2. /\ Sending(a) /\ Racing(a) = {} /\ Known(a) = sess[a].decided
      BY <2>2, <2>7 DEF Racing, Sending, Known
    <3>3. /\ Max(a)' = Max(a) /\ sess'[a].decided = sess[a].decided /\ sess'[a].live
          /\ Ext(a)' = IF Ext(a).st = "emitting" THEN [Ext(a) EXCEPT !.st = "awaiting_peer"]
                       ELSE NoExtension
      BY <1>0, <2>1, <2>3, <3>1 DEF Session, Ext, Max, Emitted
    <3>4. Ext(a) \in [p : Proposal, st : Emitting \cup {"awaiting_peer"}]
      BY <1>0, <3>1 DEF Session, Extension, NoExtension, Ext, Emitting
    <3>5. \/ Ext(a).st = "emitting" /\ Ext(a)' = [p |-> Ext(a).p, st |-> "awaiting_peer"]
          \/ Answering(a) /\ Ext(a)' = NoExtension
      BY <3>1, <3>3, <3>4 DEF Answering, Emitting
    <3>6. Finishes(a, g)
      BY <1>1, <2>1, <2>4, <2>5, <3>1, <3>2, <3>3, <3>5 DEF Finishes
    <3>. QED
      BY <2>2, <3>3, <3>6 DEF Moves, Calls
  <2>. QED
    BY <2>6, <2>7
<1>. QED
  BY <1>2, <1>3

(* The next envelope of a pull.                                            *)
LEMMA TakeTakes ==
  ASSUME TypeOK, Overlapping = {}, NEW a \in Host, NEW g \in Host, a # g, NEW type, Take(a, type)
  PROVE  /\ Takes(a, Head(box[a])) /\ Head(box[a]).type = type /\ Head(box[a]) \in Message
         /\ type # "turn" => Head(box[a]).p \in Proposal
         /\ suspended[a] = {} /\ box'[g] = box[g]
<1>1. box'[a] = Tail(box[a]) /\ box'[g] = box[g] /\ IsNext(a, type)
  BY DEF TypeOK, Take, Taken
<1>. QED
  BY <1>1, MailTaken

(* An envelope leaves the handler it is given to with what it writes back. *)
LEMMA DispatchCalls ==
  ASSUME TypeOK, Overlapping = {}, NEW a \in Host, Calls(a), Dispatch(a)
  PROVE  Calls(a)' /\ (sess'[a].live => sess[a].live)
<1>0. /\ sess \in [Host -> Session] /\ sess[a] \in Session /\ DOMAIN suspended = Host
  BY DEF TypeOK
<1>1. suspended[a] = {}
  BY DEF Dispatch, RecvTurn, RecvProposeIgnored, RecvProposeQueued, RecvProposeWins,
         RecvProposeYields, RecvApproved, RecvReject, Take, IsNext, InboxFree, Free
<1>2. CASE a = Initiator /\ RecvProposeWins
  <2>. DEFINE p == Head(box[a]).p
             w == [kind |-> "race", p |-> p, to |-> [sess[a] EXCEPT !.decided = @ \cup {p}]]
  <2>1. sess' = sess /\ sess[a].live /\ suspended'[a] = suspended[a] \cup {w}
    BY <1>0, <1>2 DEF RecvProposeWins, Ignored
  <2>2. w.kind = "race" /\ w.to = [sess[a] EXCEPT !.decided = @ \cup {w.p}]
    OBVIOUS
  <2>. HIDE DEF w
  <2>. QED
    BY <1>1, <2>1, <2>2 DEF Calls
<1>3. CASE ~(a = Initiator /\ RecvProposeWins)
  <2>1. suspended' = suspended
    BY <1>3 DEF Dispatch, RecvTurn, RecvProposeIgnored, RecvProposeQueued, RecvProposeYields,
                RecvApproved, RecvReject
  <2>2. /\ sess'[a].live <=> sess[a].live
        /\ sess'[a].ext = sess[a].ext \/ sess'[a].ext = NoExtension
    <3>1. CASE RecvTurn(a) \/ RecvProposeIgnored(a) \/ RecvProposeQueued(a)
      BY <1>0, <3>1 DEF RecvTurn, RecvProposeIgnored, RecvProposeQueued, Put, Session
    <3>2. CASE a = Recipient /\ RecvProposeYields
      BY <1>0, <3>2 DEF RecvProposeYields, Put, Session
    <3>3. CASE RecvApproved(a) \/ RecvReject(a)
      BY <1>0, <3>3 DEF RecvApproved, RecvReject, Put, Session
    <3>. QED
      BY <1>3, <3>1, <3>2, <3>3 DEF Dispatch
  <2>. QED
    BY <1>1, <2>1, <2>2 DEF Calls, Ext
<1>. QED
  BY <1>2, <1>3

LEMMA SkipMove ==
  ASSUME TypeOK, Overlapping = {}, NEW a \in Host, NEW g \in Host, a # g, sess[a].live,
         \/ RecvTurn(a) \/ RecvProposeIgnored(a)
         \/ RecvApproved(a) /\ ~(Head(box[a]).p.num > sess[a].max
               /\ sess[a].ext = [p |-> Head(box[a]).p, st |-> "awaiting_peer"])
         \/ RecvReject(a) /\ sess[a].ext.p # Head(box[a]).p
  PROVE  Moves(a, g)
<1>. DEFINE m == Head(box[a])
<1>0. /\ sess \in [Host -> Session] /\ sess[a] \in Session
      /\ pend \in [Host -> Proposal \cup {None, Numberless}] /\ losses' = losses
      /\ drafts' = drafts /\ suspended' = suspended
  BY DEF TypeOK, RecvTurn, RecvProposeIgnored, RecvApproved, RecvReject, bounds
<1>1. Unmoved(g) /\ left'[g] = left[g]
  BY Others DEF Acts, Dispatch
<1>2. /\ Takes(a, m) /\ m \in Message /\ suspended[a] = {} /\ box'[g] = box[g]
  BY TakeTakes DEF RecvTurn, RecvProposeIgnored, RecvApproved, RecvReject
<1>3. SameMail(g)
  BY <1>1, <1>2, MailKept DEF SameMail
<1>4. Spent(a, m)
  <2>1. CASE RecvTurn(a)
    BY <2>1, TakeTakes DEF RecvTurn, Spent
  <2>2. CASE RecvProposeIgnored(a)
    <3>1. m.type = "propose" /\ Ignored(a, m.p)
      BY <2>2, TakeTakes DEF RecvProposeIgnored
    <3>. QED
      BY <3>1 DEF Ignored, Spent, Known, Ext, Max
  <2>3. CASE RecvApproved(a) /\ ~(m.p.num > sess[a].max
               /\ sess[a].ext = [p |-> m.p, st |-> "awaiting_peer"])
    <3>1. m.type = "approved"
      BY <2>3, TakeTakes DEF RecvApproved
    <3>. QED
      BY <2>3, <3>1 DEF Spent, Ext, Max
  <2>4. CASE RecvReject(a) /\ sess[a].ext.p # m.p
    <3>1. m.type = "reject"
      BY <2>4, TakeTakes DEF RecvReject
    <3>. QED
      BY <2>4, <3>1 DEF Spent, Ext
  <2>. QED
    BY <2>1, <2>2, <2>3, <2>4
<1>5. /\ sess'[a].live /\ sess'[a].max = sess[a].max /\ sess'[a].ext = sess[a].ext
      /\ sess'[a].decided = sess[a].decided
  <2>1. sess' = sess \/ sess' = [sess EXCEPT ![a] = [sess[a] EXCEPT !.turns = @ + 1]]
    BY DEF RecvTurn, RecvProposeIgnored, RecvApproved, RecvReject, Put
  <2>. QED
    BY <1>0, <2>1 DEF Session
<1>6. KeepsAsking(a, g)
  <2>. DEFINE i == IF sess[a].ext = NoExtension /\ pend[a] = None THEN Numberless ELSE pend[a]
  <2>1. pend' = pend \/ pend' = [pend EXCEPT ![a] = i]
    BY DEF RecvTurn, RecvProposeIgnored, RecvApproved, RecvReject, QueueBudget, SetPend
  <2>2. pend'[a] = pend[a] \/ pend'[a] = i
    BY <1>0, <2>1
  <2>. QED
    BY <2>2, NoneAssumption DEF KeepsAsking
<1>7. /\ Ext(a)' = Ext(a) /\ Max(a)' = Max(a) /\ Known(a)' = Known(a) /\ Quiet(a)
      /\ ~Sending(a)
  BY <1>0, <1>2, <1>5 DEF Ext, Max, Known, Racing, Sending, Quiet
<1>8. Skips(a, g, m)
  BY <1>0, <1>1, <1>2, <1>3, <1>4, <1>6, <1>7 DEF Skips
<1>. QED
  BY <1>8 DEF Moves

LEMMA ProposalMove ==
  ASSUME TypeOK, Overlapping = {}, NEW a \in Host, NEW g \in Host, a # g,
         Ready(a, g), Settled(a, g),
         \/ RecvProposeQueued(a)
         \/ a = Initiator /\ RecvProposeWins
         \/ a = Recipient /\ RecvProposeYields
  PROVE  Moves(a, g)
<1>. DEFINE m == Head(box[a])  p == m.p
<1>0. /\ sess \in [Host -> Session] /\ sess[a] \in Session
      /\ pend \in [Host -> Proposal \cup {None, Numberless}]
      /\ suspended \in [Host -> SUBSET Write] /\ DOMAIN box = Host /\ g = Peer(a)
      /\ drafts' = drafts
  BY DEF TypeOK, RecvProposeQueued, RecvProposeWins, RecvProposeYields, bounds, Peer, Host
<1>1. Unmoved(g) /\ left'[g] = left[g]
  BY Others DEF Acts, Dispatch
<1>2. HasOwnExtension(sess[a], a) <=> Proposing(a)
  BY Whose DEF HasOwnExtension, Ext, Proposing, NoExtension
<1>3. ~Ignored(a, p) => sess[a].live
  BY DEF Ignored
<1>4. suspended[a] = {} /\ p \in Proposal /\ ~Ignored(a, p) => News(a, p)
  <2>1. p \in Proposal => p.num \in Nat /\ Max(a) \in Nat
    BY Pure DEF Ready, Shape
  <2>. QED
    BY <2>1, Idle DEF Ignored, News, Max
<1>5. CASE RecvProposeQueued(a) \/ (a = Recipient /\ RecvProposeYields)
  <2>1. /\ Takes(a, m) /\ m = Offer(p) /\ p \in Proposal
        /\ suspended[a] = {} /\ suspended'[a] = {} /\ SameMail(g) /\ losses' = losses
    <3>1. Take(a, "propose") /\ suspended' = suspended /\ losses' = losses
      BY <1>5 DEF RecvProposeQueued, RecvProposeYields, bounds
    <3>2. /\ Takes(a, m) /\ m.type = "propose" /\ m \in Message /\ p \in Proposal
          /\ suspended[a] = {} /\ box'[g] = box[g]
      BY <3>1, TakeTakes
    <3>. HIDE DEF m
    <3>3. m = Offer(m.p)
      BY <3>2, Letters
    <3>. QED
      BY <1>1, <3>1, <3>2, <3>3, MailKept DEF SameMail
  <2>2. pend'[a] = p /\ News(a, p)
    BY <1>0, <1>4, <1>5, <2>1 DEF RecvProposeQueued, RecvProposeYields, SetPend
  <2>3. /\ Racing(a) = {} /\ Racing(a)' = {} /\ ~Sending(a) /\ ~Sending(a)'
        /\ Known(a) = sess[a].decided /\ Known(a)' = sess'[a].decided
    BY <2>1, Idle
  <2>4. CASE RecvProposeQueued(a)
    <3>1. sess' = sess /\ ~Proposing(a)
      BY <1>2, <2>4 DEF RecvProposeQueued
    <3>2. Ext(a)' = Ext(a) /\ Max(a)' = Max(a) /\ Known(a)' = Known(a) /\ Quiet(a)
      BY <1>0, <2>3, <3>1 DEF Ext, Max, Quiet
    <3>. HIDE DEF p, m
    <3>3. Queues(a, g, p)
      BY <1>1, <2>1, <2>2, <2>3, <3>1, <3>2 DEF Queues
    <3>. QED
      BY <3>3 DEF Moves
  <2>5. CASE a = Recipient /\ RecvProposeYields
    <3>. DEFINE s == [sess[a] EXCEPT !.ext = NoExtension, !.decided = @ \cup {sess[a].ext.p}]
    <3>1. sess'[a] = s /\ Proposing(a) /\ sess[a].live
      BY <1>0, <1>2, <1>3, <2>5 DEF RecvProposeYields, Put
    <3>2. /\ s.ext = NoExtension /\ s.max = sess[a].max /\ s.live
          /\ s.decided = sess[a].decided \cup {sess[a].ext.p}
      BY <1>0, <3>1 DEF Session
    <3>. HIDE DEF s
    <3>3. /\ Ext(a)' = NoExtension /\ Max(a)' = Max(a)
          /\ Known(a)' = Known(a) \cup {Ext(a).p} /\ Quiet(a)
      BY <1>0, <2>3, <3>1, <3>2 DEF Ext, Max, Quiet
    <3>. HIDE DEF p, m
    <3>4. Yields(a, g, p)
      BY <1>1, <2>1, <2>2, <2>3, <2>5, <3>1, <3>3 DEF Yields
    <3>. QED
      BY <3>4 DEF Moves
  <2>. QED
    BY <1>5, <2>4, <2>5
<1>6. CASE a = Initiator /\ RecvProposeWins
  <2>. DEFINE w == [kind |-> "race", p |-> p, to |-> [sess[a] EXCEPT !.decided = @ \cup {p}]]
  <2>1. /\ IsNext(a, "propose") /\ ~Ignored(a, p) /\ Proposing(a)
        /\ suspended'[a] = suspended[a] \cup {w} /\ UNCHANGED <<sess, pend, drafts>>
        /\ \/ box' = Posted(Taken(a), a, No(p)) /\ losses' = losses
           \/ box' \in {Taken(a), Posted(Taken(a), a, No(p))} /\ losses' = losses + 1
    BY <1>0, <1>2, <1>6 DEF RecvProposeWins, No
  <2>2. /\ box'[a] = Tail(box[a])
        /\ box'[g] = box[g] \/ box'[g] = Append(box[g], No(p))
        /\ losses' \in {losses, losses + 1}
    BY <1>0, <2>1, PeerType DEF Posted, Taken
  <2>3. /\ Takes(a, m) /\ m.type = "propose" /\ m \in Message /\ p \in Proposal
        /\ suspended[a] = {}
    BY <2>1, <2>2, MailTaken
  <2>4. w.kind = "race" /\ w.p = p /\ w.to = [sess[a] EXCEPT !.decided = @ \cup {w.p}]
    OBVIOUS
  <2>. HIDE DEF w
  <2>5. suspended'[a] = {w}
    BY <2>1, <2>3
  <2>6. /\ Racing(a) = {} /\ Racing(a)' = {p} /\ ~Sending(a) /\ ~Sending(a)'
        /\ Known(a)' = Known(a) \cup {p}
    BY <2>1, <2>3, <2>4, <2>5 DEF Racing, Sending, Known
  <2>7. Posts(g, No(p))
    <3>1. No(p) \in Message
      BY <2>3 DEF No, Message
    <3>. QED
      BY <1>1, <2>2, <3>1, MailKept, MailPosted
  <2>8. News(a, p) /\ Ext(a)' = Ext(a) /\ Max(a)' = Max(a)
    BY <1>4, <2>1, <2>3 DEF Ext, Max
  <2>. HIDE DEF m
  <2>9. m = Offer(m.p)
    BY <2>3, Letters
  <2>10. Wins(a, g, p)
    BY <1>1, <1>6, <2>1, <2>2, <2>3, <2>6, <2>7, <2>8, <2>9 DEF Wins
  <2>. QED
    BY <2>10 DEF Moves
<1>. QED
  BY <1>5, <1>6

LEMMA AnswerMove ==
  ASSUME TypeOK, Overlapping = {}, NEW a \in Host, NEW g \in Host, a # g, sess[a].live,
         \/ RecvApproved(a) /\ Head(box[a]).p.num > sess[a].max
               /\ sess[a].ext = [p |-> Head(box[a]).p, st |-> "awaiting_peer"]
         \/ RecvReject(a) /\ sess[a].ext.p = Head(box[a]).p
  PROVE  Moves(a, g)
<1>. DEFINE m == Head(box[a])  p == m.p
<1>0. /\ sess \in [Host -> Session] /\ sess[a] \in Session
      /\ pend' = pend /\ losses' = losses /\ drafts' = drafts /\ suspended' = suspended
  BY DEF TypeOK, RecvApproved, RecvReject, bounds
<1>1. Unmoved(g) /\ left'[g] = left[g]
  BY Others DEF Acts, Dispatch
<1>2. /\ Takes(a, m) /\ m \in Message /\ p \in Proposal /\ suspended[a] = {}
      /\ box'[g] = box[g]
      /\ RecvApproved(a) => m.type = "approved"
      /\ RecvReject(a) => m.type = "reject"
  BY TakeTakes DEF RecvApproved, RecvReject
<1>3. SameMail(g)
  BY <1>1, <1>2, MailKept DEF SameMail
<1>4. /\ Racing(a) = {} /\ Racing(a)' = {} /\ ~Sending(a) /\ ~Sending(a)' /\ Quiet(a)
      /\ Known(a) = sess[a].decided /\ Known(a)' = sess'[a].decided
  BY <1>0, <1>2, Idle DEF Quiet
<1>5. CASE RecvApproved(a) /\ p.num > sess[a].max
           /\ sess[a].ext = [p |-> p, st |-> "awaiting_peer"]
  <2>. DEFINE s == [sess[a] EXCEPT !.max = p.num, !.decided = @ \cup {p}, !.ext = NoExtension]
  <2>1. sess'[a] = s
    BY <1>0, <1>5 DEF RecvApproved, Put
  <2>2. /\ s.ext = NoExtension /\ s.max = p.num /\ s.live
        /\ s.decided = sess[a].decided \cup {p}
    BY <1>0 DEF Session
  <2>. HIDE DEF s, m
  <2>3. m = Yes(m.p)
    BY <1>2, <1>5, Letters
  <2>4. Applies(a, g, p)
    BY <1>0, <1>1, <1>2, <1>3, <1>4, <1>5, <2>1, <2>2, <2>3 DEF Applies, Ext, Max
  <2>. QED
    BY <2>4 DEF Moves
<1>6. CASE RecvReject(a) /\ sess[a].ext.p = p
  <2>. DEFINE s == [sess[a] EXCEPT !.decided = @ \cup {p}, !.ext = NoExtension]
  <2>1. sess'[a] = s
    BY <1>0, <1>6 DEF RecvReject, Put
  <2>2. /\ s.ext = NoExtension /\ s.max = sess[a].max /\ s.live
        /\ s.decided = sess[a].decided \cup {p}
    BY <1>0 DEF Session
  <2>. HIDE DEF s, m
  <2>3. m = No(m.p)
    BY <1>2, <1>6, Letters
  <2>4. Drops(a, g, p)
    BY <1>0, <1>1, <1>2, <1>3, <1>4, <1>6, <2>1, <2>2, <2>3 DEF Drops, Ext, Max
  <2>. QED
    BY <2>4 DEF Moves
<1>. QED
  BY <1>5, <1>6

-----------------------------------------------------------------------------
(* The invariant of the race                                               *)

(* Assumed of a history: at most one send failed, and no process died.     *)
OneLoss == losses <= 1 /\ crashes = 0

RaceOK ==
  /\ \A h \in Host : Calls(h)
  /\ OneLoss /\ BothLive => Settled(Initiator, Recipient)

LEMMA SettledSwap ==
  ASSUME NEW a \in Host, NEW g \in Host, a # g
  PROVE  /\ Settled(a, g) <=> Settled(Initiator, Recipient)
         /\ Settled(a, g)' <=> Settled(Initiator, Recipient)'
         /\ BothLive <=> sess[a].live /\ sess[g].live
         /\ BothLive' <=> sess'[a].live /\ sess'[g].live
<1>1. /\ Settled(a, g) <=> Settled(g, a)
      /\ Settled(a, g)' <=> Settled(g, a)'
  BY DEF Settled, SameInv
<1>2. (a = Initiator /\ g = Recipient) \/ (a = Recipient /\ g = Initiator)
  BY DEF Host
<1>3. /\ BothLive <=> sess[Initiator].live /\ sess[Recipient].live
      /\ BothLive' <=> sess'[Initiator].live /\ sess'[Recipient].live
  BY DEF BothLive, Host
<1>. QED
  BY <1>1, <1>2, <1>3

LEMMA MovesRace ==
  ASSUME NEW a \in Host, NEW g \in Host, a # g, Ready(a, g), Settled(a, g), Moves(a, g)
  PROVE  Settled(a, g)'
BY CalmRace, SkipsRace, DraftsRace, ProposesRace, AnswersRace, ResendsRace, FinishesRace,
   QueuesRace, WinsRace, YieldsRace, AppliesRace, DropsRace DEF Moves

LEMMA InitRace == Init => RaceOK
<1>. SUFFICES ASSUME Init PROVE RaceOK
  OBVIOUS
<1>1. ASSUME NEW h \in Host
      PROVE  /\ sess[h].live /\ suspended[h] = {} /\ pend[h] = None /\ drafts[h] = 0
             /\ Ext(h) = NoExtension /\ Max(h) = Base /\ sess[h].decided = {}
             /\ box[h] = <<>>
  BY DEF Init, Ext, Max
<1>2. ASSUME NEW h \in Host
      PROVE  Known(h) = {} /\ Racing(h) = {} /\ ~Sending(h) /\ Mail(h) = {}
  BY <1>1, Idle DEF Mail
<1>3. ASSUME NEW h \in Host, NEW g \in Host
      PROVE  RaceInv(h, g)
  <2>1. /\ ~Proposing(h) /\ ~Answering(h) /\ ~Proposing(g) /\ Ext(h).st \notin Emitting
        /\ Ext(g).st = "none" /\ Ext(h).p = None /\ pend[h] \notin Proposal /\ None \notin Proposal
    BY <1>1, NoneAssumption DEF Proposing, Answering, NoExtension, Emitting
  <2>2. WhoseInv(h, g) /\ WireInv(h, g) /\ NumberInv(h, g) /\ DraftInv(h, g) /\ AboveInv(h, g)
    BY <1>1, <1>2, <2>1 DEF WhoseInv, WireInv, NumberInv, DraftInv, AboveInv
  <2>3. /\ GrantInv(h, g) /\ PendInv(h, g) /\ FreshInv(h, g) /\ KnownInv(h, g)
        /\ ComingInv(h, g) /\ SendsInv(h, g) /\ OrderInv(h, g)
    BY <1>1, <1>2, <2>1 DEF GrantInv, Granted, PendInv, FreshInv, KnownInv, ComingInv,
                            SendsInv, OrderInv
  <2>4. OnceInv(h, g) /\ MarginInv(h, g) /\ FailedInv(h, g)
    BY <1>1, <1>2, <2>1 DEF OnceInv, Granted, MarginInv, FailedInv
  <2>. QED
    BY <2>2, <2>3, <2>4 DEF RaceInv
<1>4. Settled(Initiator, Recipient)
  BY <1>1, <1>3 DEF Settled, SameInv, Host
<1>5. \A h \in Host : Calls(h)
  BY <1>1 DEF Calls
<1>. QED
  BY <1>4, <1>5 DEF RaceOK

(* A session that left live does not come back.                            *)
LEMMA LiveKept ==
  ASSUME TypeOK, Overlapping = {}, NEW a \in Host, NEW g \in Host, a # g, Calls(a), Acts(a)
  PROVE  /\ Calls(a)' /\ (sess'[a].live => sess[a].live)
         /\ crashes' = crashes /\ losses' \in {losses, losses + 1}
<1>0. sess[a] \in Session
  BY DEF TypeOK
<1>1. CASE Approve(a) \/ Reject(a)
  BY <1>1, DecisionMove DEF Approve, Reject, Emit, Sent, NotSent
<1>2. CASE Extend(a) \/ Turn(a) \/ LeaveLive(a)
  BY <1>2, AgentMove DEF Extend, Turn, LeaveLive, bounds
<1>3. CASE Pull(a)
  BY <1>3, AgentMove DEF Pull, bounds
<1>4. CASE Retry(a)
  BY <1>4, SendMove DEF Retry, Sent, NotSent
<1>5. CASE Resume(a)
  BY <1>5, SendMove DEF Resume, Calls, bounds
<1>6. CASE Dispatch(a)
  <2>1. crashes' = crashes /\ losses' \in {losses, losses + 1}
    BY <1>6 DEF Dispatch, RecvTurn, RecvProposeIgnored, RecvProposeQueued, RecvProposeWins,
                RecvProposeYields, RecvApproved, RecvReject, bounds
  <2>. QED
    BY <1>6, <2>1, DispatchCalls
<1>. QED
  BY <1>1, <1>2, <1>3, <1>4, <1>5, <1>6 DEF Acts

LEMMA ActsMoves ==
  ASSUME TypeOK, Overlapping = {}, NEW a \in Host, NEW g \in Host, a # g, Calls(a), Acts(a),
         Ready(a, g), Settled(a, g), sess[a].live, sess'[a].live
  PROVE  Moves(a, g)
<1>1. CASE Dispatch(a)
  <2>1. CASE RecvTurn(a) \/ RecvProposeIgnored(a)
    BY <2>1, SkipMove
  <2>2. CASE \/ RecvProposeQueued(a) \/ (a = Initiator /\ RecvProposeWins)
             \/ (a = Recipient /\ RecvProposeYields)
    BY <2>2, ProposalMove
  <2>3. CASE RecvApproved(a) \/ RecvReject(a)
    BY <2>3, SkipMove, AnswerMove
  <2>. QED
    BY <1>1, <2>1, <2>2, <2>3 DEF Dispatch
<1>2. CASE ~Dispatch(a)
  BY <1>2, DecisionMove, AgentMove, SendMove DEF Acts
<1>. QED
  BY <1>1, <1>2

LEMMA StepRace ==
  ASSUME Overlapping = {}, TypeOK, TypeOK', RaceOK, [Next]_vars
  PROVE  RaceOK'
<1>1. CASE UNCHANGED vars
  <2>1. \A h \in Host : Calls(h)'
    BY <1>1 DEF RaceOK, vars, Calls, Ext
  <2>2. ASSUME OneLoss', BothLive'
        PROVE  Settled(Initiator, Recipient)'
    <3>1. OneLoss /\ BothLive
      BY <1>1, <2>2 DEF vars, bounds, OneLoss, BothLive
    <3>2. Settled(Initiator, Recipient)
      BY <3>1 DEF RaceOK
    <3>3. Calm(Initiator, Recipient)
      <4>1. Unmoved(Recipient) /\ KeepsAsking(Initiator, Recipient)
        BY <1>1 DEF vars, bounds, Unmoved, KeepsAsking, Ext, Max, Known, Racing, Sending
      <4>. QED
        BY <1>1, <4>1, Still DEF vars, bounds, Host
    <3>4. Ready(Initiator, Recipient)
      BY <2>2, MailTypes, MailTypesNext DEF Ready, TypeOK, OneLoss, Host
    <3>. QED
      BY <3>2, <3>3, <3>4, MovesRace DEF Moves, Host, Initiator, Recipient
  <2>. QED
    BY <2>1, <2>2 DEF RaceOK
<1>2. CASE Next
  <2>1. PICK a \in Host : Acts(a) \/ Crash(a)
    BY <1>2 DEF Next, Acts
  <2>. DEFINE g == Peer(a)
  <2>2. g \in Host /\ g # a /\ Calls(a) /\ Calls(g)
    BY PeerType DEF RaceOK
  <2>. HIDE DEF g
  <2>3. CASE Crash(a)
    <3>1. /\ suspended'[a] = {} /\ suspended'[g] = suspended[g] /\ sess' = sess
          /\ crashes' = crashes + 1 /\ crashes \in Nat
      BY <2>2, <2>3 DEF Crash, TypeOK
    <3>2. Calls(a)' /\ Calls(g)'
      BY <2>2, <3>1 DEF Calls, Ext
    <3>3. ~OneLoss'
      BY <3>1 DEF OneLoss
    <3>4. \A h \in Host : h = a \/ h = g
      BY <2>2 DEF Host
    <3>. QED
      BY <3>2, <3>3, <3>4 DEF RaceOK
  <2>4. CASE Acts(a)
    <3>1. sess'[g] = sess[g] /\ suspended'[g] = suspended[g]
      BY <2>2, <2>4, Others
    <3>2. /\ Calls(a)' /\ (sess'[a].live => sess[a].live)
          /\ crashes' = crashes /\ losses' \in {losses, losses + 1}
      BY <2>2, <2>4, LiveKept
    <3>3. Calls(g)'
      BY <2>2, <3>1 DEF Calls, Ext
    <3>4. ASSUME OneLoss', BothLive'
          PROVE  Settled(Initiator, Recipient)'
      <4>1. sess'[a].live /\ sess'[g].live /\ BothLive
        BY <2>2, <3>1, <3>2, <3>4, SettledSwap
      <4>2. losses \in Nat /\ losses' \in Nat /\ losses' <= 1 /\ OneLoss
        BY <3>2, <3>4 DEF TypeOK, OneLoss
      <4>3. Settled(a, g)
        BY <2>2, <4>1, <4>2, SettledSwap DEF RaceOK
      <4>4. Ready(a, g)
        BY <2>2, <4>2, MailTypes, MailTypesNext DEF Ready
      <4>5. Settled(a, g)'
        BY <2>2, <2>4, <3>2, <4>1, <4>3, <4>4, ActsMoves, MovesRace
      <4>. QED
        BY <2>2, <4>5, SettledSwap
    <3>5. \A h \in Host : h = a \/ h = g
      BY <2>2 DEF Host
    <3>. QED
      BY <3>2, <3>3, <3>4, <3>5 DEF RaceOK
  <2>. QED
    BY <2>1, <2>3, <2>4
<1>. QED
  BY <1>1, <1>2

LEMMA InFlightMail ==
  ASSUME NEW h \in Host, NEW p
  PROVE  /\ InFlight(h, "propose", p) <=> Offer(p) \in Mail(h)
         /\ InFlight(h, "approved", p) <=> Yes(p) \in Mail(h)
         /\ InFlight(h, "reject", p) <=> No(p) \in Mail(h)
BY DEF InFlight, Mail, Offer, Yes, No

(* Where an awaited answer is, when the race is settled.                   *)
LEMMA SettledComing ==
  ASSUME TypeOK, NEW a \in Host, NEW g \in Host, a # g, Settled(a, g),
         Ext(a).st = "awaiting_peer"
  PROVE  \/ Offer(Ext(a).p) \in Mail(g) \/ pend[g] = Ext(a).p \/ Ext(g).p = Ext(a).p
         \/ Yes(Ext(a).p) \in Mail(a) \/ No(Ext(a).p) \in Mail(a)
         \/ /\ a = Recipient /\ Proposing(g)
            /\ Ext(g).st = "emitting" \/ Offer(Ext(g).p) \in Mail(a)
<1>. DEFINE Found == \/ Ext(g).p = Ext(a).p \/ Yes(Ext(a).p) \in Mail(a)
                     \/ No(Ext(a).p) \in Mail(a) \/ Overruled(a, g)
<1>1. Proposing(a) /\ (Ext(a).p \in Known(g) => Found)
  BY DEF Settled, RaceInv, KnownInv, Proposing
<1>2. Offer(Ext(a).p) \in Mail(g) \/ pend[g] = Ext(a).p \/ Found
  BY <1>1 DEF Settled, RaceInv, ComingInv
<1>3. Overruled(a, g) /\ Ext(g).st # "emitting" => Offer(Ext(g).p) \in Mail(a)
  <2>1. SUFFICES ASSUME Overruled(a, g), Ext(g).st = "awaiting_peer"
                 PROVE  Offer(Ext(g).p) \in Mail(a)
    BY DEF Overruled, Proposing
  <2>2. Proposing(g) /\ Ext(g).p \notin Known(a) /\ ~Overruled(g, a)
    BY <2>1 DEF Overruled
  <2>3. Offer(Ext(g).p) \in Mail(a) \/ pend[a] = Ext(g).p
    BY <2>1, <2>2 DEF Settled, RaceInv, ComingInv
  <2>4. pend[a] \notin Proposal /\ Ext(g).p \in Proposal
    <3>1. Shape(g)
      BY MailTypes
    <3>. QED
      BY <1>1, <2>2, <3>1 DEF Settled, RaceInv, AboveInv, Shape, Proposing, NoExtension
  <2>. QED
    BY <2>3, <2>4
<1>. QED
  BY <1>2, <1>3 DEF Overruled

(* AwaitedIsComing follows, and so do the two others.                      *)
LEMMA RaceAwaited ==
  ASSUME TypeOK, RaceOK, OneLoss
  PROVE  AwaitedIsComing
<1>1. SUFFICES ASSUME BothLive, NEW a \in Host, sess[a].ext.st = "awaiting_peer"
               PROVE  LET p == sess[a].ext.p  g == Peer(a) IN
                 \/ InFlight(g, "propose", p)
                 \/ pend[g] = p
                 \/ sess[g].ext.p = p
                 \/ \E type \in {"approved", "reject"} : InFlight(a, type, p)
                 \/ /\ a = Recipient /\ HasOwnExtension(sess[g], g)
                    /\ sess[g].ext.st = "emitting" \/ InFlight(a, "propose", sess[g].ext.p)
  BY DEF AwaitedIsComing
<1>. DEFINE g == Peer(a)
<1>2. g \in Host /\ g # a
  BY PeerType
<1>. HIDE DEF g
<1>3. Settled(a, g) /\ Settled(g, a)
  BY <1>1, <1>2, SettledSwap DEF RaceOK
<1>4. \/ Offer(Ext(a).p) \in Mail(g) \/ pend[g] = Ext(a).p \/ Ext(g).p = Ext(a).p
      \/ Yes(Ext(a).p) \in Mail(a) \/ No(Ext(a).p) \in Mail(a)
      \/ /\ a = Recipient /\ Proposing(g)
         /\ Ext(g).st = "emitting" \/ Offer(Ext(g).p) \in Mail(a)
  BY <1>1, <1>2, <1>3, SettledComing DEF Ext
<1>5. Proposing(g) => HasOwnExtension(sess[g], g)
  BY <1>3 DEF Settled, RaceInv, WhoseInv, Proposing, HasOwnExtension, NoExtension, Ext
<1>6. /\ InFlight(g, "propose", sess[a].ext.p) <=> Offer(Ext(a).p) \in Mail(g)
      /\ InFlight(a, "approved", sess[a].ext.p) <=> Yes(Ext(a).p) \in Mail(a)
      /\ InFlight(a, "reject", sess[a].ext.p) <=> No(Ext(a).p) \in Mail(a)
      /\ InFlight(a, "propose", sess[g].ext.p) <=> Offer(Ext(g).p) \in Mail(a)
  BY <1>2, InFlightMail DEF Ext
<1>. QED
  BY <1>4, <1>5, <1>6 DEF Ext, g

LEMMA RaceSettled ==
  ASSUME TypeOK, RaceOK, OneLoss
  PROVE  RaceIsSettled
<1>1. SUFFICES ASSUME \A h \in Host : box[h] = <<>> /\ suspended[h] = {},
                      \A h \in Host : Ext(h).st = "awaiting_peer"
               PROVE  FALSE
  BY DEF RaceIsSettled, Ext
<1>. DEFINE a == Recipient  g == Initiator
<1>2. a \in Host /\ g \in Host /\ a # g /\ g # Recipient
  BY DEF Host, Initiator, Recipient
<1>. HIDE DEF a, g
<1>3. Proposing(a) /\ Proposing(g) /\ Ext(a).st = "awaiting_peer" /\ Ext(g).st # "emitting"
  BY <1>1, <1>2 DEF Proposing
<1>4. Settled(a, g)
  <2>1. sess[a].live /\ sess[g].live
    BY <1>1, <1>2 DEF RaceOK, Calls, NoExtension
  <2>. QED
    BY <1>2, <2>1, SettledSwap DEF RaceOK
<1>5. Mail(a) = {} /\ Mail(g) = {}
  BY <1>1, <1>2 DEF Mail
<1>6. pend[g] \notin Proposal /\ Ext(a).p \in Proposal
  <2>1. Shape(a)
    BY <1>2, MailTypes
  <2>. QED
    BY <1>3, <1>4, <2>1 DEF Settled, RaceInv, AboveInv, Shape, Proposing, NoExtension
<1>7. Ext(g).p # Ext(a).p
  BY <1>2, <1>3, <1>4 DEF Settled, RaceInv, WhoseInv
<1>. QED
  BY <1>2, <1>3, <1>4, <1>5, <1>6, <1>7, SettledComing

LEMMA RaceSame ==
  ASSUME TypeOK, RaceOK, OneLoss
  PROVE  SameBudgetAtRest
<1>1. SUFFICES ASSUME BothLive, AtRest
               PROVE  sess[Initiator].max = sess[Recipient].max
  BY DEF SameBudgetAtRest
<1>2. ~Proposing(Initiator) /\ ~Proposing(Recipient)
  BY <1>1 DEF AtRest, Proposing, NoExtension, Ext, Host
<1>3. SameInv(Initiator, Recipient)
  BY <1>1 DEF RaceOK, Settled
<1>. QED
  BY <1>2, <1>3 DEF SameInv, Unapplied, Max

LEMMA RaceInvariant ==
  ASSUME Overlapping = {}
  PROVE  Spec => [](TypeOK /\ RaceOK)
<1>1. TypeOK /\ TypeOK' /\ RaceOK /\ [Next]_vars => RaceOK'
  BY StepRace
<1>. QED
  BY <1>1, InitRace, TypeCorrect, PTL DEF Spec

(* AwaitedIsComing, when no handler starts while another one awaits its    *)
(* send, as long as no process died and no second send failed: whoever     *)
(* waits for its peer has something to wait for.                           *)
THEOREM AwaitedSafety ==
  ASSUME Overlapping = {}
  PROVE  Spec => [](OneLoss => AwaitedIsComing)
<1>1. TypeOK /\ RaceOK => (OneLoss => AwaitedIsComing)
  BY RaceAwaited
<1>. QED
  BY <1>1, RaceInvariant, PTL

(* RaceIsSettled, under the same conditions: two proposals that crossed    *)
(* never leave both hosts waiting for each other with nothing on the way.  *)
THEOREM SettledSafety ==
  ASSUME Overlapping = {}
  PROVE  Spec => [](OneLoss => RaceIsSettled)
<1>1. TypeOK /\ RaceOK => (OneLoss => RaceIsSettled)
  BY RaceSettled
<1>. QED
  BY <1>1, RaceInvariant, PTL

(* SameBudgetAtRest, under the same conditions: when nothing is under way  *)
(* the two live hosts allow the same number of turns.                      *)
THEOREM SameBudgetSafety ==
  ASSUME Overlapping = {}
  PROVE  Spec => [](OneLoss => SameBudgetAtRest)
<1>1. TypeOK /\ RaceOK => (OneLoss => SameBudgetAtRest)
  BY RaceSame
<1>. QED
  BY <1>1, RaceInvariant, PTL
=============================================================================
