------------------------- MODULE NegoSessionProofs -------------------------
(***************************************************************************)
(* Proofs about NegoSession, for every set of hashes and every bound.      *)
(***************************************************************************)
EXTENDS NegoSession, SequenceTheorems, TLAPS

USE DEF Host, Initiator, Recipient, Closing

-----------------------------------------------------------------------------
(* Typing of the operators                                                 *)

LEMMA PeerType == \A h \in Host : Peer(h) \in Host /\ Peer(h) # h
BY DEF Peer

(* Updating one field of a record keeps it a session record.               *)
LEMMA AbsentType == Absent \in Session /\ Fresh \in Session
<1>1. 0 \in 0 .. MaxTurns
  BY BoundsAssumption
<1>2. Absent \in Session
  BY <1>1 DEF Absent, Session, Status, Reason
<1>. QED
  BY <1>2 DEF Fresh, Session, Status

LEMMA StatusUpdate ==
  ASSUME NEW s \in Session, NEW st \in Status
  PROVE  [s EXCEPT !.status = st] \in Session
BY DEF Session

LEMMA ClosingUpdate ==
  ASSUME NEW s \in Session, NEW st \in Status, NEW w \in Reason
  PROVE  [s EXCEPT !.status = st, !.why = w] \in Session
BY DEF Session

LEMMA TurnUpdate ==
  ASSUME NEW s \in Session, s.turns < MaxTurns
  PROVE  [s EXCEPT !.turns = @ + 1] \in Session
BY BoundsAssumption DEF Session

LEMMA WithSignType ==
  ASSUME NEW s \in Session, NEW r \in Host, NEW x \in Hash \cup {NoHash}
  PROVE  WithSign(s, r, x) \in Session
<1> DEFINE t == [s EXCEPT !.sign[r] = x, !.art = x]
<1>1. t \in Session
  BY DEF Session
<1>2. [t EXCEPT !.status = "signed"] \in Session /\ [t EXCEPT !.status = @] \in Session
  BY <1>1 DEF Session, Status
<1>3. WithSign(s, r, x) = [t EXCEPT !.status = IF BothSigned(t) THEN "signed" ELSE @]
  BY DEF WithSign
<1>. QED
  BY <1>1, <1>2, <1>3

LEMMA RatUpdate ==
  ASSUME NEW s \in Session, NEW r \in Host
  PROVE  [s EXCEPT !.rat[r] = TRUE] \in Session
BY DEF Session

LEMMA FinalUpdate ==
  ASSUME NEW s \in Session, NEW x \in Hash \cup {NoHash}
  PROVE  [s EXCEPT !.status = "closed", !.art = x, !.co = x] \in Session
BY DEF Session, Status

LEMMA EnsuredType ==
  ASSUME TypeOK, NEW h \in Host
  PROVE  Ensured(h) \in Session
BY ClosingUpdate DEF TypeOK, Ensured, Status, Reason

LEMMA RatPendType ==
  ASSUME TypeOK, NEW h \in Host, NEW s \in Session
  PROVE  RatPendAfter(h, s) \in Hash \cup {NoHash}
BY DEF TypeOK, RatPendAfter, Session

(* A send keeps the inboxes sequences of messages.                         *)
LEMMA SendType ==
  ASSUME TypeOK, NEW h \in Host,
         NEW type \in {"open", "open_approved", "open_reject", "open_expired",
                       "turn", "signed", "ratified", "close"},
         NEW x \in Hash \cup {NoHash},
         Send(h, type, x)
  PROVE  box' \in [Host -> Seq(Message)] /\ losses' \in Nat
<1> DEFINE q == Append(box[Peer(h)], [type |-> type, hash |-> x])
<1>1. [type |-> type, hash |-> x] \in Message
  BY DEF Message
<1>2. Peer(h) \in Host /\ box[Peer(h)] \in Seq(Message) /\ box \in [Host -> Seq(Message)]
  BY PeerType DEF TypeOK
<1>3. q \in Seq(Message)
  BY <1>1, <1>2
<1>4. box' = box \/ box' = [box EXCEPT ![Peer(h)] = q]
  BY DEF Send
<1>5. losses \in Nat /\ (losses' = losses \/ losses' = losses + 1)
  BY DEF Send, TypeOK
<1>6. box' \in [Host -> Seq(Message)]
  <2>. HIDE DEF q
  <2>. QED
    BY <1>2, <1>3, <1>4
<1>. QED
  BY <1>5, <1>6

LEMMA TakeType ==
  ASSUME TypeOK, NEW h \in Host, NEW type, Take(h, type)
  PROVE  batch' \in [Host -> Seq(Message)] /\ Head(batch[h]) \in Message
<1>1. batch[h] \in Seq(Message) /\ batch[h] # <<>>
  BY DEF TypeOK, Take
<1>2. Tail(batch[h]) \in Seq(Message) /\ Head(batch[h]) \in Message
  BY <1>1
<1>. QED
  BY <1>2 DEF TypeOK, Take

LEMMA PutType ==
  ASSUME TypeOK, NEW h \in Host, NEW s \in Session, Put(h, s)
  PROVE  sess' \in [Host -> Session]
BY DEF TypeOK, Put

LEMMA SweepType ==
  ASSUME TypeOK, NEW h \in Host, NEW s, SweepBudget(h, s) \/ QueueBudget(h)
  PROVE  budPend' \in [Host -> BOOLEAN]
BY DEF TypeOK, SweepBudget, QueueBudget

LEMMA GateType ==
  ASSUME TypeOK, NEW h \in Host, NEW s \in Session,
         EnsureRatify(h, s) \/ DropRatify(h) \/ UNCHANGED ratPend
  PROVE  ratPend' \in [Host -> Hash \cup {NoHash}]
BY RatPendType DEF TypeOK, EnsureRatify, DropRatify

-----------------------------------------------------------------------------
(* Type correctness                                                        *)

LEMMA OpeningType ==
  ASSUME TypeOK, Open \/ RecvOpen \/ DecideTooLate \/ ApproveOpen \/ RejectOpen
  PROVE  TypeOK'
<1>. USE DEF gates, wire, async, env, ghosts
<1>1. CASE Open
  <2>1. sess' \in [Host -> Session]
    BY <1>1, AbsentType, PutType DEF Open
  <2>2. box' \in [Host -> Seq(Message)] /\ losses' \in Nat
    BY <1>1, SendType DEF Open
  <2>. QED
    BY <1>1, <2>1, <2>2 DEF Open, TypeOK
<1>2. CASE RecvOpen
  <2>. DEFINE h == Recipient  s == Ensured(h)
  <2>0. s \in Session /\ Fresh \in Session /\ ExpiredOpen(h) \in Session
        /\ [Fresh EXCEPT !.status = "open_expired"] \in Session
    BY EnsuredType, AbsentType, StatusUpdate DEF TypeOK, ExpiredOpen, Status
  <2>1. sess' \in [Host -> Session]
    BY <1>2, <2>0, PutType DEF RecvOpen
  <2>2. box' \in [Host -> Seq(Message)] /\ losses' \in Nat
    BY <1>2, SendType DEF RecvOpen, TypeOK
  <2>3. batch' \in [Host -> Seq(Message)]
    BY <1>2, TakeType DEF RecvOpen
  <2>4. budPend' \in [Host -> BOOLEAN] /\ openPend' \in BOOLEAN
    BY <1>2, SweepType DEF RecvOpen, TypeOK, OpenExpired
  <2>. QED
    BY <1>2, <2>1, <2>2, <2>3, <2>4 DEF RecvOpen, TypeOK
<1>3. CASE DecideTooLate
  <2>1. sess' \in [Host -> Session]
    BY <1>3, StatusUpdate, PutType DEF DecideTooLate, ExpiredOpen, TypeOK, Status
  <2>2. box' \in [Host -> Seq(Message)] /\ losses' \in Nat
    BY <1>3, SendType DEF DecideTooLate
  <2>. QED
    BY <1>3, <2>1, <2>2 DEF DecideTooLate, TypeOK
<1>4. CASE ApproveOpen
  <2>1. sess' \in [Host -> Session]
    BY <1>4, StatusUpdate, PutType DEF ApproveOpen, TypeOK, Status
  <2>2. box' \in [Host -> Seq(Message)] /\ losses' \in Nat
    BY <1>4, SendType DEF ApproveOpen
  <2>. QED
    BY <1>4, <2>1, <2>2 DEF ApproveOpen, TypeOK
<1>5. CASE RejectOpen
  <2>1. sess' \in [Host -> Session]
    BY <1>5, ClosingUpdate, PutType DEF RejectOpen, TypeOK, Status, Reason
  <2>2. box' \in [Host -> Seq(Message)] /\ losses' \in Nat
    BY <1>5, SendType DEF RejectOpen
  <2>. QED
    BY <1>5, <2>1, <2>2 DEF RejectOpen, TypeOK
<1>. QED
  BY <1>1, <1>2, <1>3, <1>4, <1>5

(* A step of an envelope handler that stores one record of its own host    *)
(* and sends nothing.                                                      *)
LEMMA RecvOutcomeType ==
  ASSUME TypeOK, RecvOpenApproved \/ RecvOpenReject \/ RecvOpenExpired
  PROVE  TypeOK'
<1>. USE DEF gates, wire, async, env, ghosts
<1>. DEFINE h == Initiator  s == Ensured(h)
<1>0. /\ s \in Session
      /\ [s EXCEPT !.status = "live"] \in Session
      /\ [s EXCEPT !.status = "open_rejected", !.why = "rejected"] \in Session
      /\ [s EXCEPT !.status = "open_expired"] \in Session
  BY EnsuredType, StatusUpdate, ClosingUpdate DEF Status, Reason
<1>1. CASE RecvOpenApproved
  <2>1. sess' \in [Host -> Session]
    BY <1>1, <1>0, PutType DEF RecvOpenApproved
  <2>2. batch' \in [Host -> Seq(Message)] /\ budPend' \in [Host -> BOOLEAN]
    BY <1>1, TakeType, SweepType DEF RecvOpenApproved
  <2>. QED
    BY <1>1, <2>1, <2>2 DEF RecvOpenApproved, TypeOK
<1>2. CASE RecvOpenReject
  <2>1. sess' \in [Host -> Session]
    BY <1>2, <1>0, PutType DEF RecvOpenReject
  <2>2. batch' \in [Host -> Seq(Message)] /\ budPend' \in [Host -> BOOLEAN]
    BY <1>2, TakeType, SweepType DEF RecvOpenReject
  <2>. QED
    BY <1>2, <2>1, <2>2 DEF RecvOpenReject, TypeOK
<1>3. CASE RecvOpenExpired
  <2>1. sess' \in [Host -> Session]
    BY <1>3, <1>0, PutType DEF RecvOpenExpired
  <2>2. batch' \in [Host -> Seq(Message)] /\ budPend' \in [Host -> BOOLEAN]
    BY <1>3, TakeType, SweepType DEF RecvOpenExpired
  <2>. QED
    BY <1>3, <2>1, <2>2 DEF RecvOpenExpired, TypeOK
<1>. QED
  BY <1>1, <1>2, <1>3

LEMMA SweepingType ==
  ASSUME TypeOK, NEW h \in Host, ExpireSessions(h) \/ ReadStatus(h)
  PROVE  TypeOK'
<1>. USE DEF gates, wire, async, env, ghosts
<1>0. Ensured(h) \in Session /\ ExpiredOpen(h) \in Session
  BY EnsuredType, StatusUpdate DEF TypeOK, ExpiredOpen, Status
<1>1. CASE ExpireSessions(h)
  <2>1. sess' \in [Host -> Session] /\ budPend' \in [Host -> BOOLEAN]
    BY <1>1, <1>0, PutType, SweepType DEF ExpireSessions
  <2>2. ratPend' \in [Host -> Hash \cup {NoHash}]
    BY <1>1, <1>0, GateType DEF ExpireSessions
  <2>3. box' \in [Host -> Seq(Message)] /\ losses' \in Nat
    BY <1>1, SendType DEF ExpireSessions, TypeOK
  <2>. QED
    BY <1>1, <2>1, <2>2, <2>3 DEF ExpireSessions, TypeOK
<1>2. CASE ReadStatus(h)
  <2>1. sess' \in [Host -> Session] /\ budPend' \in [Host -> BOOLEAN]
    BY <1>2, <1>0, PutType, SweepType DEF ReadStatus
  <2>2. ratPend' \in [Host -> Hash \cup {NoHash}]
    BY <1>2, <1>0, GateType DEF ReadStatus
  <2>3. openPend' \in BOOLEAN
    BY <1>2 DEF ReadStatus, TypeOK, OpenExpired
  <2>. QED
    BY <1>2, <2>1, <2>2, <2>3 DEF ReadStatus, TypeOK
<1>. QED
  BY <1>1, <1>2

LEMMA TurnType ==
  ASSUME TypeOK, NEW h \in Host, Turn(h) \/ RecvTurn(h)
  PROVE  TypeOK'
<1>. USE DEF gates, wire, async, env, ghosts
<1>. DEFINE s == Ensured(h)
<1>0. s \in Session /\ (s.turns < MaxTurns => [s EXCEPT !.turns = @ + 1] \in Session)
  BY EnsuredType, TurnUpdate
<1>1. CASE Turn(h)
  <2>1. sess' \in [Host -> Session]
    BY <1>1, <1>0, PutType DEF Turn, TypeOK
  <2>2. budPend' \in [Host -> BOOLEAN]
    BY <1>1, SweepType DEF Turn, TypeOK
  <2>3. box' \in [Host -> Seq(Message)] /\ losses' \in Nat
    BY <1>1, SendType DEF Turn, TypeOK
  <2>. QED
    BY <1>1, <2>1, <2>2, <2>3 DEF Turn, TypeOK
<1>2. CASE RecvTurn(h)
  <2>1. sess' \in [Host -> Session]
    BY <1>2, <1>0, PutType DEF RecvTurn, TypeOK
  <2>2. budPend' \in [Host -> BOOLEAN]
    BY <1>2, SweepType DEF RecvTurn, TypeOK
  <2>3. batch' \in [Host -> Seq(Message)]
    BY <1>2, TakeType DEF RecvTurn
  <2>. QED
    BY <1>2, <2>1, <2>2, <2>3 DEF RecvTurn, TypeOK
<1>. QED
  BY <1>1, <1>2

(* The rows of an inbox behind any position are messages.                  *)
LEMMA RestType ==
  ASSUME NEW q \in Seq(Message), NEW k \in Nat
  PROVE  SubSeq(q, k + 1, Len(q)) \in Seq(Message)
<1>1. Len(q) \in Nat /\ \A i \in k + 1 .. Len(q) : q[i] \in Message
  OBVIOUS
<1>. QED
  BY <1>1, SubSeqProperties

LEMMA PullType ==
  ASSUME TypeOK, NEW h \in Host, Pull(h) \/ EndPull(h)
  PROVE  TypeOK'
<1>. USE DEF gates, wire, async, env, ghosts
<1>0. box[h] \in Seq(Message) /\ Len(box[h]) \in Nat /\ got[h] \in Nat
  BY DEF TypeOK
<1>1. CASE Pull(h)
  <2>1. batch' \in [Host -> Seq(Message)] /\ got' \in [Host -> Nat]
    BY <1>1, <1>0 DEF Pull, TypeOK
  <2>. QED
    BY <1>1, <2>1 DEF Pull, TypeOK
<1>2. CASE EndPull(h)
  <2>1. box' \in [Host -> Seq(Message)]
    BY <1>2, <1>0, RestType DEF EndPull, TypeOK
  <2>2. got' \in [Host -> Nat]
    BY <1>2 DEF EndPull, TypeOK
  <2>. QED
    BY <1>2, <2>1, <2>2 DEF EndPull, TypeOK
<1>. QED
  BY <1>1, <1>2

LEMMA SigningType ==
  ASSUME TypeOK, NEW h \in Host,
         (\E x \in Hash : Sign(h, x)) \/ SignFinish(h) \/ RecvSigned(h)
  PROVE  TypeOK'
<1>. USE DEF gates, wire, async, env, ghosts
<1>0. Ensured(h) \in Session /\ Absent \in Session
  BY EnsuredType, AbsentType
<1>1. ASSUME NEW x \in Hash, Sign(h, x) PROVE TypeOK'
  <2>. DEFINE t == WithSign(Ensured(h), h, x)
  <2>1. t \in Session
    BY <1>0, WithSignType
  <2>2. sess' \in [Host -> Session] /\ budPend' \in [Host -> BOOLEAN]
    BY <1>1, <1>0, <2>1, PutType, SweepType DEF Sign
  <2>3. box' \in [Host -> Seq(Message)] /\ losses' \in Nat
    BY <1>1, SendType DEF Sign, TypeOK
  <2>4. signing' \in [Host -> Session]
    <3>. HIDE DEF t
    <3>1. signing' = signing \/ signing' = [signing EXCEPT ![h] = t]
      BY <1>1 DEF Sign, t
    <3>. QED
      BY <2>1, <3>1 DEF TypeOK
  <2>5. signs' \in [Host -> Nat] /\ signedBy' \in [Host -> SUBSET Hash]
    BY <1>1 DEF Sign, TypeOK
  <2>. QED
    BY <1>1, <2>2, <2>3, <2>4, <2>5 DEF Sign, TypeOK
<1>2. CASE SignFinish(h)
  <2>1. ratPend' \in [Host -> Hash \cup {NoHash}]
    BY <1>2, GateType DEF SignFinish, TypeOK
  <2>2. signing' \in [Host -> Session]
    BY <1>2, <1>0 DEF SignFinish, TypeOK, NoSnap
  <2>. QED
    BY <1>2, <2>1, <2>2 DEF SignFinish, TypeOK
<1>3. CASE RecvSigned(h)
  <2>. DEFINE s == Ensured(h)  u == WithSign(s, Peer(h), Head(batch[h]).hash)
              t == IF s.status \in Terminal \cup {"absent"} THEN s ELSE u
  <2>1. batch' \in [Host -> Seq(Message)] /\ Head(batch[h]).hash \in Hash \cup {NoHash}
    BY <1>3, TakeType DEF RecvSigned, Message
  <2>2. u \in Session
    BY <2>1, <1>0, PeerType, WithSignType
  <2>3. t \in Session
    BY <2>2, <1>0
  <2>4. Put(h, t) /\ SweepBudget(h, t) /\ EnsureRatify(h, t)
    BY <1>3 DEF RecvSigned
  <2>5. /\ sess' \in [Host -> Session] /\ budPend' \in [Host -> BOOLEAN]
        /\ ratPend' \in [Host -> Hash \cup {NoHash}]
    <3>. HIDE DEF t
    <3>. QED
      BY <2>3, <2>4, PutType, SweepType, GateType
  <2>. QED
    BY <1>3, <2>1, <2>5 DEF RecvSigned, TypeOK
<1>. QED
  BY <1>1, <1>2, <1>3

(* Finalizing stores one session record and may end the bond.              *)
LEMMA FinalizeType ==
  ASSUME TypeOK, NEW h \in Host, NEW s \in Session, NEW x \in Hash \cup {NoHash},
         Finalize(h, s, x)
  PROVE  sess' \in [Host -> Session] /\ bond' \in [Host -> BOOLEAN]
<1>1. [s EXCEPT !.status = "closed", !.art = x, !.co = x] \in Session
  BY FinalUpdate
<1>. QED
  BY <1>1, PutType DEF Finalize, TypeOK

LEMMA RatifyingType ==
  ASSUME TypeOK, NEW h \in Host,
         Ratify(h) \/ RatifyFinish(h) \/ DeclineRatify(h) \/ RecvRatified(h)
  PROVE  TypeOK'
<1>. USE DEF gates, wire, async, env, ghosts
<1>0. Ensured(h) \in Session /\ Absent \in Session
  BY EnsuredType, AbsentType
<1>1. CASE Ratify(h)
  <2>. DEFINE s == [sess[h] EXCEPT !.rat[h] = TRUE]
  <2>1. s \in Session /\ ratPend[h] \in Hash
    BY <1>1, RatUpdate DEF TypeOK, Ratify
  <2>2. sess' \in [Host -> Session]
    BY <1>1, <2>1, PutType DEF Ratify
  <2>3. ratPend' \in [Host -> Hash \cup {NoHash}]
    BY <1>1, <2>1, GateType DEF Ratify
  <2>4. box' \in [Host -> Seq(Message)] /\ losses' \in Nat
    BY <1>1, <2>1, SendType DEF Ratify
  <2>5. ratifying' \in [Host -> [snap : Session, hash : Hash \cup {NoHash}]]
    <3>. HIDE DEF s
    <3>1. ratifying' = ratifying
            \/ ratifying' = [ratifying EXCEPT ![h] = [snap |-> s, hash |-> ratPend[h]]]
      BY <1>1 DEF Ratify, s
    <3>. QED
      BY <2>1, <3>1 DEF TypeOK
  <2>6. ratifiedBy' \in [Host -> SUBSET Hash]
    BY <1>1, <2>1 DEF Ratify, TypeOK
  <2>. QED
    BY <1>1, <2>2, <2>3, <2>4, <2>5, <2>6 DEF Ratify, TypeOK
<1>2. CASE RatifyFinish(h)
  <2>1. ratifying[h].snap \in Session /\ ratifying[h].hash \in Hash \cup {NoHash}
    BY DEF TypeOK
  <2>2. sess' \in [Host -> Session] /\ bond' \in [Host -> BOOLEAN]
    BY <1>2, <2>1, FinalizeType DEF RatifyFinish
  <2>3. ratifying' \in [Host -> [snap : Session, hash : Hash \cup {NoHash}]]
    BY <1>2, <1>0 DEF RatifyFinish, TypeOK, NoRatifying, NoSnap
  <2>. QED
    BY <1>2, <2>2, <2>3 DEF RatifyFinish, TypeOK
<1>3. CASE DeclineRatify(h)
  BY <1>3 DEF DeclineRatify, DropRatify, TypeOK
<1>4. CASE RecvRatified(h)
  <2>. DEFINE t == [Ensured(h) EXCEPT !.rat[Peer(h)] = TRUE]
  <2>1. t \in Session /\ t.art \in Hash \cup {NoHash}
    BY <1>0, PeerType, RatUpdate DEF Session
  <2>2. \/ Put(h, Ensured(h)) /\ UNCHANGED bond
        \/ Finalize(h, t, t.art)
        \/ Put(h, t) /\ UNCHANGED bond
    BY <1>4 DEF RecvRatified
  <2>3. sess' \in [Host -> Session] /\ bond' \in [Host -> BOOLEAN]
    <3>. HIDE DEF t
    <3>. QED
      BY <1>0, <2>1, <2>2, PutType, FinalizeType DEF TypeOK
  <2>4. batch' \in [Host -> Seq(Message)] /\ budPend' \in [Host -> BOOLEAN]
    BY <1>4, TakeType, SweepType DEF RecvRatified
  <2>. QED
    BY <1>4, <2>3, <2>4 DEF RecvRatified, TypeOK
<1>. QED
  BY <1>1, <1>2, <1>3, <1>4

LEMMA ClosingType ==
  ASSUME TypeOK, NEW h \in Host,
         CloseSend(h) \/ CloseMark(h) \/ RecvClose(h) \/ CloseFinish(h) \/ Revoke(h)
  PROVE  TypeOK'
<1>. USE DEF gates, wire, async, env, ghosts
<1>0. /\ Ensured(h) \in Session
      /\ [Ensured(h) EXCEPT !.status = "closed", !.why = "thread_closed"] \in Session
  BY EnsuredType, ClosingUpdate DEF Status, Reason
<1>1. CASE CloseSend(h)
  <2>. DEFINE q == Append(box[Peer(h)], [type |-> "close", hash |-> NoHash])
  <2>1. Peer(h) \in Host /\ q \in Seq(Message)
    BY PeerType DEF TypeOK, Message
  <2>2. box' = [box EXCEPT ![Peer(h)] = q]
    BY <1>1 DEF CloseSend
  <2>3. box' \in [Host -> Seq(Message)]
    <3>. HIDE DEF q
    <3>. QED
      BY <2>1, <2>2 DEF TypeOK
  <2>4. losses' \in Nat /\ closing' \in [Host -> Closing]
    BY <1>1 DEF CloseSend, TypeOK
  <2>. QED
    BY <1>1, <2>3, <2>4 DEF CloseSend, TypeOK
<1>2. CASE CloseMark(h)
  BY <1>2 DEF CloseMark, TypeOK
<1>3. CASE RecvClose(h)
  <2>1. batch' \in [Host -> Seq(Message)]
    BY <1>3, TakeType DEF RecvClose
  <2>2. closing' \in [Host -> Closing] /\ closedT' \in [Host -> BOOLEAN]
    BY <1>3 DEF RecvClose, TypeOK
  <2>. QED
    BY <1>3, <2>1, <2>2 DEF RecvClose, TypeOK
<1>4. CASE CloseFinish(h)
  <2>1. sess' \in [Host -> Session] /\ budPend' \in [Host -> BOOLEAN]
    BY <1>4, <1>0, PutType, SweepType DEF CloseFinish
  <2>2. ratPend' \in [Host -> Hash \cup {NoHash}] /\ openPend' \in BOOLEAN
    BY <1>4, <1>0, GateType DEF CloseFinish, DropOpen, TypeOK
  <2>3. closing' \in [Host -> Closing]
    BY <1>4 DEF CloseFinish, TypeOK
  <2>. QED
    BY <1>4, <2>1, <2>2, <2>3 DEF CloseFinish, TypeOK
<1>5. CASE Revoke(h)
  <2>. DEFINE t == [sess[h] EXCEPT !.status = "closed", !.why = "bond_revoked"]
  <2>1. sess[h] \in Session /\ t \in Session
    BY ClosingUpdate DEF TypeOK, Status, Reason
  <2>2. sess' \in [Host -> Session]
    BY <1>5, <2>1, PutType DEF Revoke
  <2>3. ratPend' \in [Host -> Hash \cup {NoHash}] /\ openPend' \in BOOLEAN
    BY <1>5, <2>1, GateType DEF Revoke, DropOpen, TypeOK
  <2>4. /\ budPend' \in [Host -> BOOLEAN] /\ bond' \in [Host -> BOOLEAN]
        /\ allow' \in [Host -> BOOLEAN] /\ losses' \in Nat
    <3>1. budPend' \in [Host -> BOOLEAN]
      BY <1>5 DEF Revoke, TypeOK
    <3>2. bond' \in [Host -> BOOLEAN]
      BY <1>5 DEF Revoke, TypeOK
    <3>3. allow' = [allow EXCEPT ![h] = FALSE] \/ allow' = allow
      BY <1>5 DEF Revoke
    <3>4. losses' = losses + 1 \/ losses' = losses
      BY <1>5 DEF Revoke
    <3>5. allow' \in [Host -> BOOLEAN]
      BY <3>3 DEF TypeOK
    <3>6. losses' \in Nat
      BY <3>4 DEF TypeOK
    <3>. QED
      BY <3>1, <3>2, <3>5, <3>6
  <2>5. box' \in [Host -> Seq(Message)]
    <3>1. <<>> \in Seq(Message) /\ \A g \in Host : box[g] \in Seq(Message)
      BY DEF TypeOK
    <3>2. \/ box' = box
          \/ box' = [g \in Host |-> IF g = h \/ ~allow[g] THEN <<>> ELSE box[g]]
      BY <1>5 DEF Revoke
    <3>. QED
      BY <3>1, <3>2 DEF TypeOK
  <2>6. got' \in [Host -> Nat]
    <3>1. got' = got \/ got' = [g \in Host |-> IF box'[g] = <<>> THEN 0 ELSE got[g]]
      BY <1>5 DEF Revoke
    <3>. QED
      BY <3>1 DEF TypeOK
  <2>. QED
    BY <1>5, <2>2, <2>3, <2>4, <2>5, <2>6 DEF Revoke, TypeOK
<1>. QED
  BY <1>1, <1>2, <1>3, <1>4, <1>5

LEMMA EnvType ==
  ASSUME TypeOK, NEW h \in Host, EnvStep(h)
  PROVE  TypeOK'
<1>. USE DEF gates, wire, async, env, ghosts
<1>1. CASE Crash(h)
  <2>0. Absent \in Session
    BY AbsentType
  <2>1. signing' \in [Host -> Session]
        /\ ratifying' \in [Host -> [snap : Session, hash : Hash \cup {NoHash}]]
    BY <1>1, <2>0 DEF Crash, TypeOK, NoSnap, NoRatifying
  <2>2. /\ closing' \in [Host -> Closing]
        /\ batch' \in [Host -> Seq(Message)] /\ got' \in [Host -> Nat]
    BY <1>1 DEF Crash, TypeOK
  <2>3. box' \in [Host -> Seq(Message)]
    <3>1. PICK k \in 0 .. got[h] : box' = [box EXCEPT ![h] = SubSeq(@, k + 1, Len(@))]
      BY <1>1 DEF Crash
    <3>2. k \in Nat /\ box[h] \in Seq(Message)
      BY DEF TypeOK
    <3>3. SubSeq(box[h], k + 1, Len(box[h])) \in Seq(Message)
      BY <3>2, RestType
    <3>. QED
      BY <3>1, <3>3 DEF TypeOK
  <2>4. openPend' \in BOOLEAN
    BY <1>1 DEF Crash, TypeOK
  <2>5. ratPend' \in [Host -> Hash \cup {NoHash}] /\ budPend' \in [Host -> BOOLEAN]
    BY <1>1 DEF Crash, TypeOK
  <2>6. crashes' \in Nat
    BY <1>1 DEF Crash, TypeOK
  <2>7. closedT' \in [Host -> BOOLEAN]
    BY <1>1 DEF Crash, TypeOK
  <2>. QED
    BY <1>1, <2>1, <2>2, <2>3, <2>4, <2>5, <2>6, <2>7 DEF Crash, TypeOK
<1>2. CASE DeadlinePasses(h)
  BY <1>2 DEF DeadlinePasses, TypeOK
<1>3. CASE OpenTtlPasses(h)
  BY <1>3 DEF OpenTtlPasses, TypeOK
<1>. QED
  BY <1>1, <1>2, <1>3 DEF EnvStep

LEMMA InitType == Init => TypeOK
<1>. SUFFICES ASSUME Init PROVE TypeOK
  OBVIOUS
<1>1. Absent \in Session /\ NoRatifying \in [snap : Session, hash : Hash \cup {NoHash}]
  BY AbsentType DEF NoRatifying, NoSnap
<1>2. sess \in [Host -> Session] /\ signing \in [Host -> Session]
      /\ ratifying \in [Host -> [snap : Session, hash : Hash \cup {NoHash}]]
  BY <1>1 DEF Init, NoSnap
<1>3. box \in [Host -> Seq(Message)] /\ batch \in [Host -> Seq(Message)]
  BY DEF Init
<1>4. ratPend \in [Host -> Hash \cup {NoHash}] /\ closing \in [Host -> Closing]
  BY DEF Init
<1>5. /\ budPend \in [Host -> BOOLEAN] /\ bond \in [Host -> BOOLEAN]
      /\ closedT \in [Host -> BOOLEAN] /\ allow \in [Host -> BOOLEAN]
      /\ late \in [Host -> BOOLEAN] /\ ttlOut \in [Host -> BOOLEAN]
  BY DEF Init
<1>6. openPend \in BOOLEAN /\ approved \in BOOLEAN /\ losses \in Nat /\ crashes \in Nat
  BY DEF Init
<1>7. /\ got \in [Host -> Nat] /\ signs \in [Host -> Nat]
      /\ signedBy \in [Host -> SUBSET Hash] /\ ratifiedBy \in [Host -> SUBSET Hash]
  BY DEF Init
<1>. QED
  BY <1>2, <1>3, <1>4, <1>5, <1>6, <1>7 DEF TypeOK

(* Every action is one of these; the proofs below split on them.           *)
LEMMA NextCases ==
  ASSUME Next
  PROVE  \/ Open \/ RecvOpen \/ DecideTooLate \/ ApproveOpen \/ RejectOpen
         \/ RecvOpenApproved \/ RecvOpenReject \/ RecvOpenExpired
         \/ \E h \in Host :
              \/ Pull(h) \/ EndPull(h) \/ ExpireSessions(h) \/ ReadStatus(h)
              \/ Turn(h) \/ RecvTurn(h)
              \/ (\E x \in Hash : Sign(h, x)) \/ SignFinish(h) \/ RecvSigned(h)
              \/ Ratify(h) \/ RatifyFinish(h) \/ DeclineRatify(h) \/ RecvRatified(h)
              \/ CloseSend(h) \/ CloseMark(h) \/ RecvClose(h) \/ CloseFinish(h)
              \/ Revoke(h) \/ EnvStep(h)
<1>1. PICK h \in Host : Pull(h) \/ EndPull(h) \/ Receive(h) \/ Resume(h)
                        \/ HumanStep(h) \/ AgentStep(h) \/ EnvStep(h)
  BY Zenon DEF Next
<1>2. CASE Receive(h)
  BY <1>2 DEF Receive
<1>3. CASE Resume(h)
  BY <1>3 DEF Resume
<1>4. CASE HumanStep(h)
  BY <1>4 DEF HumanStep
<1>5. CASE AgentStep(h)
  BY <1>5 DEF AgentStep
<1>. QED
  BY <1>1, <1>2, <1>3, <1>4, <1>5

LEMMA StutterType ==
  ASSUME TypeOK, UNCHANGED vars
  PROVE  TypeOK'
BY DEF TypeOK, vars, gates, wire, async, env, ghosts

LEMMA StepType ==
  ASSUME TypeOK, [Next]_vars
  PROVE  TypeOK'
<1>1. CASE Next
  BY <1>1, NextCases, OpeningType, RecvOutcomeType, PullType, SweepingType, TurnType,
     SigningType, RatifyingType, ClosingType, EnvType
<1>2. CASE UNCHANGED vars
  BY <1>2, StutterType
<1>. QED
  BY <1>1, <1>2

(* Type correctness: whatever the hashes and the bounds, no handler of     *)
(* either host leaves the types of the records, gates and inboxes.         *)
THEOREM TypeCorrect == Spec => []TypeOK
<1>1. Init => TypeOK
  BY InitType
<1>2. TypeOK /\ [Next]_vars => TypeOK'
  BY StepType
<1>. QED
  BY <1>1, <1>2, PTL DEF Spec

-----------------------------------------------------------------------------
(* Consent: the inductive invariant                                        *)

(* What the humans decided is never taken back.                            *)
Grows ==
  /\ approved => approved'
  /\ \A g \in Host : ratifiedBy[g] # {} => ratifiedBy'[g] # {}

LEMMA GroundedGrows ==
  ASSUME Grows, NEW s, RecordGrounded(s, approved, ratifiedBy)
  PROVE  RecordGrounded(s, approved', ratifiedBy')
BY DEF Grows, RecordGrounded

LEMMA TypeGrows ==
  ASSUME Grows, NEW type, NEW h \in Host, TypeGrounded(type, h, approved, ratifiedBy)
  PROVE  TypeGrounded(type, h, approved', ratifiedBy')
BY PeerType DEF Grows, TypeGrounded

(* What a step leaves alone stays grounded.                                *)
LEMMA FrameGrounded ==
  ASSUME ConsentInv, Grows
  PROVE  /\ UNCHANGED sess => RecordsGrounded'
         /\ UNCHANGED box => InboxesGrounded'
         /\ UNCHANGED batch => BatchesGrounded'
         /\ UNCHANGED <<ratPend, signing>> => GatesGrounded'
         /\ UNCHANGED ratifying => HandlersGrounded'
<1>1. UNCHANGED sess => RecordsGrounded'
  BY GroundedGrows DEF ConsentInv, RecordsGrounded
<1>2. UNCHANGED box => InboxesGrounded'
  BY TypeGrows DEF ConsentInv, InboxesGrounded
<1>3. UNCHANGED batch => BatchesGrounded'
  BY TypeGrows DEF ConsentInv, BatchesGrounded
<1>4. UNCHANGED <<ratPend, signing>> => GatesGrounded'
  BY DEF ConsentInv, GatesGrounded, Grows
<1>5. UNCHANGED ratifying => HandlersGrounded'
  BY DEF ConsentInv, HandlersGrounded, Grows
<1>. QED
  BY <1>1, <1>2, <1>3, <1>4, <1>5

LEMMA PutGrounded ==
  ASSUME TypeOK, ConsentInv, Grows, NEW h \in Host, NEW t, Put(h, t),
         RecordGrounded(t, approved', ratifiedBy')
  PROVE  RecordsGrounded'
<1>1. ASSUME NEW g \in Host PROVE RecordGrounded(sess'[g], approved', ratifiedBy')
  <2>1. CASE g = h
    BY <2>1 DEF Put, TypeOK
  <2>2. CASE g # h
    <3>1. sess'[g] = sess[g]
      BY <2>2 DEF Put, TypeOK
    <3>2. RecordGrounded(sess[g], approved, ratifiedBy)
      BY DEF ConsentInv, RecordsGrounded
    <3>. QED
      BY <3>1, <3>2, GroundedGrows
  <2>. QED
    BY <2>1, <2>2
<1>. QED
  BY <1>1 DEF RecordsGrounded

LEMMA SendGrounded ==
  ASSUME TypeOK, ConsentInv, Grows, NEW h \in Host, NEW type, NEW x,
         Send(h, type, x), TypeGrounded(type, Peer(h), approved', ratifiedBy')
  PROVE  InboxesGrounded'
<1>. DEFINE m == [type |-> type, hash |-> x]
<1>1. ASSUME NEW g \in Host, NEW i \in DOMAIN box'[g]
      PROVE  TypeGrounded(box'[g][i].type, g, approved', ratifiedBy')
  <2>1. Peer(h) \in Host /\ box[g] \in Seq(Message) /\ box[Peer(h)] \in Seq(Message)
    BY PeerType DEF TypeOK
  <2>2. \A j \in DOMAIN box[g] : TypeGrounded(box[g][j].type, g, approved, ratifiedBy)
    BY DEF ConsentInv, InboxesGrounded
  <2>3. box'[g] = box[g] \/ (g = Peer(h) /\ box'[g] = Append(box[g], m))
    BY <2>1 DEF Send, TypeOK
  <2>4. CASE box'[g] = box[g]
    BY <2>2, <2>4, TypeGrows
  <2>5. CASE g = Peer(h) /\ box'[g] = Append(box[g], m)
    <3>1. i \in 1 .. Len(box[g]) + 1
      BY <2>1, <2>5
    <3>2. CASE i = Len(box[g]) + 1
      <4>1. box'[g][i] = m
        BY <2>1, <2>5, <3>2
      <4>. QED
        BY <4>1, <2>5
    <3>3. CASE i \in 1 .. Len(box[g])
      <4>1. box'[g][i] = box[g][i] /\ i \in DOMAIN box[g]
        BY <2>1, <2>5, <3>3
      <4>. QED
        BY <4>1, <2>2, TypeGrows
    <3>. QED
      BY <2>1, <3>1, <3>2, <3>3
  <2>. QED
    BY <2>3, <2>4, <2>5
<1>. QED
  BY <1>1 DEF InboxesGrounded

LEMMA TakeGrounded ==
  ASSUME TypeOK, ConsentInv, Grows, NEW h \in Host, NEW type, Take(h, type)
  PROVE  BatchesGrounded' /\ TypeGrounded(type, h, approved, ratifiedBy)
<1>1. batch[h] \in Seq(Message) /\ batch[h] # <<>>
  BY DEF TypeOK, Take
<1>2. 1 \in DOMAIN batch[h] /\ batch[h][1].type = type
  BY <1>1 DEF Take
<1>3. TypeGrounded(type, h, approved, ratifiedBy)
  BY <1>2 DEF ConsentInv, BatchesGrounded
<1>4. ASSUME NEW g \in Host, NEW i \in DOMAIN batch'[g]
      PROVE  TypeGrounded(batch'[g][i].type, g, approved', ratifiedBy')
  <2>1. \A j \in DOMAIN batch[g] : TypeGrounded(batch[g][j].type, g, approved, ratifiedBy)
    BY DEF ConsentInv, BatchesGrounded
  <2>2. CASE g # h
    <3>1. batch'[g] = batch[g]
      BY <2>2 DEF Take, TypeOK
    <3>. QED
      BY <2>1, <3>1, TypeGrows
  <2>3. CASE g = h
    <3>1. batch'[g] = Tail(batch[g])
      BY <2>3 DEF Take, TypeOK
    <3>2. i + 1 \in DOMAIN batch[g] /\ batch'[g][i] = batch[g][i + 1]
      BY <1>1, <2>3, <3>1
    <3>. QED
      BY <2>1, <3>2, TypeGrows
  <2>. QED
    BY <2>2, <2>3
<1>. QED
  BY <1>3, <1>4 DEF BatchesGrounded

(* Which updates of a record keep it grounded.                             *)
LEMMA GroundedStatus ==
  ASSUME NEW s \in Session, NEW ap, NEW rb, RecordGrounded(s, ap, rb),
         NEW st \in Status \ {"absent"}, st \in {"live", "signed"} => ap, NEW w
  PROVE  /\ RecordGrounded([s EXCEPT !.status = st], ap, rb)
         /\ RecordGrounded([s EXCEPT !.status = st, !.why = w], ap, rb)
BY DEF Session, RecordGrounded

LEMMA GroundedFresh ==
  ASSUME NEW ap, NEW rb
  PROVE  /\ RecordGrounded(Absent, ap, rb) /\ RecordGrounded(Fresh, ap, rb)
         /\ RecordGrounded([Fresh EXCEPT !.status = "open_expired"], ap, rb)
BY DEF RecordGrounded, Fresh, Absent

LEMMA GroundedTurn ==
  ASSUME NEW s \in Session, NEW rb, RecordGrounded(s, TRUE, rb)
  PROVE  RecordGrounded([s EXCEPT !.turns = @ + 1], TRUE, rb)
BY DEF Session, RecordGrounded

LEMMA GroundedSign ==
  ASSUME NEW s \in Session, NEW rb, RecordGrounded(s, TRUE, rb),
         NEW r \in Host, NEW x
  PROVE  RecordGrounded(WithSign(s, r, x), TRUE, rb)
<1> DEFINE t == [s EXCEPT !.sign[r] = x, !.art = x]
<1>1. t.co = s.co /\ t.rat = s.rat /\ t.status = s.status
  BY DEF Session
<1>2. \/ WithSign(s, r, x) = [t EXCEPT !.status = "signed"]
      \/ WithSign(s, r, x) = [t EXCEPT !.status = @]
  BY DEF WithSign
<1>3. /\ WithSign(s, r, x).co = s.co /\ WithSign(s, r, x).rat = s.rat
      /\ WithSign(s, r, x).status \in {s.status, "signed"}
  BY <1>1, <1>2 DEF Session
<1>. QED
  BY <1>3 DEF RecordGrounded

LEMMA GroundedRat ==
  ASSUME NEW s \in Session, NEW ap, NEW rb, RecordGrounded(s, ap, rb),
         NEW r \in Host, rb[r] # {}
  PROVE  RecordGrounded([s EXCEPT !.rat[r] = TRUE], ap, rb)
<1> DEFINE t == [s EXCEPT !.rat[r] = TRUE]
<1>1. /\ t.status = s.status /\ t.turns = s.turns /\ t.sign = s.sign
      /\ t.art = s.art /\ t.co = s.co
      /\ \A g \in Host : t.rat[g] => (g = r \/ s.rat[g])
  BY DEF Session
<1>. QED
  BY <1>1 DEF RecordGrounded

LEMMA GroundedFinal ==
  ASSUME NEW s \in Session, NEW rb, NEW x, \A g \in Host : rb[g] # {}
  PROVE  RecordGrounded([s EXCEPT !.status = "closed", !.art = x, !.co = x], TRUE, rb)
BY DEF Session, RecordGrounded

LEMMA GroundedEnsured ==
  ASSUME TypeOK, ConsentInv, NEW h \in Host
  PROVE  /\ sess[h] \in Session /\ RecordGrounded(sess[h], approved, ratifiedBy)
         /\ Ensured(h) \in Session /\ RecordGrounded(Ensured(h), approved, ratifiedBy)
         /\ RecordGrounded(ExpiredOpen(h), approved, ratifiedBy)
<1>1. sess[h] \in Session /\ RecordGrounded(sess[h], approved, ratifiedBy)
  BY DEF TypeOK, ConsentInv, RecordsGrounded
<1>. QED
  BY <1>1, EnsuredType, GroundedStatus DEF Ensured, ExpiredOpen, Status

(* A re-queued ratify gate is grounded when the record it comes from is.   *)
LEMMA RequeueGrounded ==
  ASSUME TypeOK, ConsentInv, NEW h \in Host, NEW s, s.art # NoHash => approved,
         EnsureRatify(h, s) \/ DropRatify(h) \/ UNCHANGED ratPend,
         approved => approved', \A g \in Host : signing'[g] # NoSnap => approved'
  PROVE  GatesGrounded'
<1>1. ASSUME NEW g \in Host, ratPend'[g] # NoHash PROVE approved
  <2>1. RatPendAfter(h, s) # NoHash => (s.art # NoHash \/ ratPend[h] # NoHash)
    BY DEF RatPendAfter
  <2>2. ratPend'[g] = ratPend[g] \/ ratPend'[g] = NoHash
        \/ (g = h /\ ratPend'[g] = RatPendAfter(h, s))
    BY DEF EnsureRatify, DropRatify, TypeOK
  <2>. QED
    BY <1>1, <2>1, <2>2 DEF ConsentInv, GatesGrounded
<1>. QED
  BY <1>1 DEF GatesGrounded

-----------------------------------------------------------------------------
(* Consent: every step keeps the invariant                                 *)

LEMMA OpeningConsent ==
  ASSUME TypeOK, ConsentInv, Open \/ RecvOpen \/ DecideTooLate \/ ApproveOpen \/ RejectOpen
  PROVE  ConsentInv'
<1>. USE DEF gates, wire, async, env, ghosts
<1>1. CASE Open
  <2>1. Grows /\ UNCHANGED <<approved, ratifiedBy>>
    BY <1>1 DEF Open, Grows
  <2>2. RecordsGrounded'
    <3>1. Put(Initiator, Fresh) /\ RecordGrounded(Fresh, approved', ratifiedBy')
      BY <1>1, GroundedFresh DEF Open
    <3>. QED
      BY <2>1, <3>1, PutGrounded
  <2>3. InboxesGrounded'
    BY <1>1, <2>1, SendGrounded DEF Open, TypeGrounded
  <2>. QED
    BY <1>1, <2>1, <2>2, <2>3, FrameGrounded DEF Open, ConsentInv
<1>2. CASE RecvOpen
  <2>. DEFINE h == Recipient  s == Ensured(h)
  <2>1. Grows /\ UNCHANGED <<approved, ratifiedBy>>
    BY <1>2 DEF RecvOpen, Grows
  <2>2. /\ RecordGrounded(s, approved, ratifiedBy)
        /\ RecordGrounded(ExpiredOpen(h), approved, ratifiedBy)
        /\ RecordGrounded(Fresh, approved, ratifiedBy)
        /\ RecordGrounded([Fresh EXCEPT !.status = "open_expired"], approved, ratifiedBy)
    BY GroundedEnsured, GroundedFresh
  <2>3. RecordsGrounded'
    <3>1. PICK t : Put(h, t) /\ RecordGrounded(t, approved, ratifiedBy)
      BY <1>2, <2>2 DEF RecvOpen
    <3>. QED
      BY <2>1, <3>1, PutGrounded
  <2>4. InboxesGrounded'
    <3>1. UNCHANGED box \/ Send(h, "open_expired", NoHash)
      BY <1>2 DEF RecvOpen
    <3>. QED
      BY <2>1, <3>1, SendGrounded, FrameGrounded DEF TypeGrounded
  <2>5. BatchesGrounded'
    BY <1>2, <2>1, TakeGrounded DEF RecvOpen
  <2>6. GatesGrounded' /\ HandlersGrounded'
    BY <1>2, <2>1, FrameGrounded DEF RecvOpen
  <2>. QED
    BY <2>3, <2>4, <2>5, <2>6 DEF ConsentInv
<1>3. CASE DecideTooLate
  <2>1. Grows /\ UNCHANGED <<approved, ratifiedBy>>
    BY <1>3 DEF DecideTooLate, Grows
  <2>2. RecordsGrounded'
    BY <1>3, <2>1, GroundedEnsured, PutGrounded DEF DecideTooLate
  <2>3. InboxesGrounded'
    BY <1>3, <2>1, SendGrounded DEF DecideTooLate, TypeGrounded
  <2>. QED
    BY <1>3, <2>1, <2>2, <2>3, FrameGrounded DEF DecideTooLate, ConsentInv
<1>4. CASE ApproveOpen
  <2>. DEFINE h == Recipient
  <2>1. Grows /\ approved' = TRUE /\ UNCHANGED ratifiedBy
    BY <1>4 DEF ApproveOpen, Grows
  <2>2. RecordGrounded(sess[h], approved', ratifiedBy') /\ sess[h] \in Session
    BY <2>1, GroundedEnsured, GroundedGrows
  <2>3. RecordsGrounded'
    BY <1>4, <2>1, <2>2, GroundedStatus, PutGrounded DEF ApproveOpen, Status
  <2>4. InboxesGrounded'
    BY <1>4, <2>1, SendGrounded DEF ApproveOpen, TypeGrounded
  <2>. QED
    BY <1>4, <2>1, <2>3, <2>4, FrameGrounded DEF ApproveOpen, ConsentInv
<1>5. CASE RejectOpen
  <2>. DEFINE h == Recipient
  <2>1. Grows /\ UNCHANGED <<approved, ratifiedBy>>
    BY <1>5 DEF RejectOpen, Grows
  <2>2. RecordsGrounded'
    <3>. DEFINE t == [sess[h] EXCEPT !.status = "open_rejected", !.why = "rejected"]
    <3>1. RecordGrounded(t, approved', ratifiedBy')
      BY <2>1, GroundedEnsured, GroundedStatus DEF Status
    <3>2. Put(h, t)
      BY <1>5 DEF RejectOpen
    <3>. QED
      BY <2>1, <3>1, <3>2, PutGrounded
  <2>3. InboxesGrounded'
    BY <1>5, <2>1, SendGrounded DEF RejectOpen, TypeGrounded
  <2>. QED
    BY <1>5, <2>1, <2>2, <2>3, FrameGrounded DEF RejectOpen, ConsentInv
<1>. QED
  BY <1>1, <1>2, <1>3, <1>4, <1>5

(* An envelope handler that sends nothing, queues no ratify gate and stores *)
(* a grounded record.                                                       *)
LEMMA ReceiptConsent ==
  ASSUME TypeOK, ConsentInv, NEW h \in Host, NEW type, Take(h, type),
         UNCHANGED <<approved, ratifiedBy, ratPend, signing, ratifying, box>>,
         UNCHANGED sess \/ \E t : Put(h, t) /\ RecordGrounded(t, approved, ratifiedBy)
  PROVE  ConsentInv'
<1>1. Grows
  BY DEF Grows
<1>2. RecordsGrounded'
  <2>1. CASE UNCHANGED sess
    BY <1>1, <2>1, FrameGrounded
  <2>2. ASSUME NEW t, Put(h, t), RecordGrounded(t, approved, ratifiedBy)
        PROVE  RecordsGrounded'
    BY <1>1, <2>2, PutGrounded
  <2>. QED
    BY <2>1, <2>2
<1>3. BatchesGrounded'
  BY <1>1, TakeGrounded
<1>. QED
  BY <1>1, <1>2, <1>3, FrameGrounded DEF ConsentInv

LEMMA RecvOutcomeConsent ==
  ASSUME TypeOK, ConsentInv, RecvOpenApproved \/ RecvOpenReject \/ RecvOpenExpired
  PROVE  ConsentInv'
<1>. USE DEF gates, wire, async, env, ghosts
<1>. DEFINE h == Initiator  s == Ensured(h)
<1>0. /\ s \in Session /\ RecordGrounded(s, approved, ratifiedBy)
      /\ approved => RecordGrounded([s EXCEPT !.status = "live"], approved, ratifiedBy)
      /\ RecordGrounded([s EXCEPT !.status = "open_rejected", !.why = "rejected"],
                        approved, ratifiedBy)
      /\ RecordGrounded([s EXCEPT !.status = "open_expired"], approved, ratifiedBy)
  BY GroundedEnsured, GroundedStatus DEF Status
<1>1. CASE RecvOpenApproved
  <2>1. Take(h, "open_approved")
    BY <1>1 DEF RecvOpenApproved
  <2>2. approved
    <3>1. CASE UNCHANGED <<approved, ratifiedBy>>
      BY <2>1, <3>1, TakeGrounded DEF Grows, TypeGrounded
    <3>. QED
      BY <1>1, <3>1 DEF RecvOpenApproved
  <2>3. \E t : Put(h, t) /\ RecordGrounded(t, approved, ratifiedBy)
    BY <1>0, <1>1, <2>2 DEF RecvOpenApproved
  <2>. QED
    BY <1>1, <2>1, <2>3, ReceiptConsent DEF RecvOpenApproved
<1>2. CASE RecvOpenReject
  <2>1. \E t : Put(h, t) /\ RecordGrounded(t, approved, ratifiedBy)
    BY <1>0, <1>2 DEF RecvOpenReject
  <2>. QED
    BY <1>2, <2>1, ReceiptConsent DEF RecvOpenReject
<1>3. CASE RecvOpenExpired
  <2>1. \E t : Put(h, t) /\ RecordGrounded(t, approved, ratifiedBy)
    BY <1>0, <1>3 DEF RecvOpenExpired
  <2>. QED
    BY <1>3, <2>1, ReceiptConsent DEF RecvOpenExpired
<1>. QED
  BY <1>1, <1>2, <1>3

LEMMA SweepingConsent ==
  ASSUME TypeOK, ConsentInv, NEW h \in Host, ExpireSessions(h) \/ ReadStatus(h)
  PROVE  ConsentInv'
<1>. USE DEF gates, wire, async, env, ghosts
<1>1. Grows /\ UNCHANGED <<approved, ratifiedBy, batch, signing, ratifying>>
  BY DEF ExpireSessions, ReadStatus, Grows
<1>2. PICK s : /\ s \in {Ensured(h), ExpiredOpen(h)} /\ Put(h, s)
               /\ EnsureRatify(h, s) \/ DropRatify(h) \/ UNCHANGED ratPend
  BY DEF ExpireSessions, ReadStatus
<1>3. RecordGrounded(s, approved, ratifiedBy)
  BY <1>2, GroundedEnsured
<1>4. RecordsGrounded'
  BY <1>1, <1>2, <1>3, PutGrounded
<1>5. s.art # NoHash => approved
  BY <1>3 DEF RecordGrounded
<1>6. GatesGrounded'
  BY <1>1, <1>2, <1>5, RequeueGrounded DEF ConsentInv, GatesGrounded
<1>7. InboxesGrounded'
  <2>1. UNCHANGED box \/ Send(h, "open_expired", NoHash)
    BY DEF ExpireSessions, ReadStatus
  <2>. QED
    BY <1>1, <2>1, SendGrounded, FrameGrounded DEF TypeGrounded
<1>. QED
  BY <1>1, <1>4, <1>6, <1>7, FrameGrounded DEF ConsentInv

LEMMA TurnConsent ==
  ASSUME TypeOK, ConsentInv, NEW h \in Host, Turn(h) \/ RecvTurn(h)
  PROVE  ConsentInv'
<1>. USE DEF gates, wire, async, env, ghosts
<1>. DEFINE s == Ensured(h)  t == [s EXCEPT !.turns = @ + 1]
<1>0. s \in Session /\ RecordGrounded(s, approved, ratifiedBy)
  BY GroundedEnsured
<1>1. s.status \in {"live", "signed"} => approved = TRUE
  BY <1>0 DEF RecordGrounded, TypeOK
<1>2. s.status \in {"live", "signed"} => RecordGrounded(t, approved, ratifiedBy)
  BY <1>0, <1>1, GroundedTurn
<1>3. CASE Turn(h)
  <2>1. Grows /\ UNCHANGED <<approved, ratifiedBy>>
    BY <1>3 DEF Turn, Grows
  <2>2. RecordsGrounded'
    <3>1. UNCHANGED sess \/ Put(h, s) \/ (s.status \in {"live", "signed"} /\ Put(h, t))
      BY <1>3 DEF Turn
    <3>. QED
      BY <1>0, <1>2, <2>1, <3>1, PutGrounded, FrameGrounded
  <2>3. InboxesGrounded'
    <3>1. UNCHANGED box \/ (s.status \in {"live", "signed"} /\ Send(h, "turn", NoHash))
      BY <1>3 DEF Turn
    <3>. QED
      BY <1>1, <2>1, <3>1, SendGrounded, FrameGrounded DEF TypeGrounded
  <2>. QED
    BY <1>3, <2>1, <2>2, <2>3, FrameGrounded DEF Turn, ConsentInv
<1>4. CASE RecvTurn(h)
  <2>1. UNCHANGED sess \/ Put(h, s) \/ (s.status = "live" /\ Put(h, t))
    BY <1>4 DEF RecvTurn
  <2>2. UNCHANGED sess \/ \E u : Put(h, u) /\ RecordGrounded(u, approved, ratifiedBy)
    BY <1>0, <1>2, <2>1
  <2>. QED
    BY <1>4, <2>2, ReceiptConsent DEF RecvTurn
<1>. QED
  BY <1>3, <1>4

LEMMA SigningConsent ==
  ASSUME TypeOK, ConsentInv, NEW h \in Host,
         (\E x \in Hash : Sign(h, x)) \/ SignFinish(h) \/ RecvSigned(h)
  PROVE  ConsentInv'
<1>. USE DEF gates, wire, async, env, ghosts
<1>. DEFINE s == Ensured(h)
<1>0. s \in Session /\ RecordGrounded(s, approved, ratifiedBy)
  BY GroundedEnsured
<1>1. ASSUME NEW x \in Hash, Sign(h, x) PROVE ConsentInv'
  <2>. DEFINE t == WithSign(s, h, x)
  <2>1. Grows /\ UNCHANGED <<approved, ratifiedBy>>
    BY <1>1 DEF Sign, Grows
  <2>2. CASE s.status \notin {"live", "signed"}
    <3>1. Put(h, s) /\ UNCHANGED <<box, signing>>
      BY <1>1, <2>2 DEF Sign
    <3>2. RecordsGrounded'
      BY <1>0, <2>1, <3>1, PutGrounded
    <3>. QED
      BY <1>1, <2>1, <3>1, <3>2, FrameGrounded DEF Sign, ConsentInv
  <2>3. CASE s.status \in {"live", "signed"}
    <3>1. approved = TRUE
      BY <1>0, <2>3 DEF RecordGrounded, TypeOK
    <3>2. RecordGrounded(t, approved, ratifiedBy)
      BY <1>0, <3>1, GroundedSign
    <3>3. Put(h, t) /\ Send(h, "signed", x)
      BY <1>1, <2>3 DEF Sign
    <3>4. RecordsGrounded' /\ InboxesGrounded'
      BY <2>1, <3>1, <3>2, <3>3, PutGrounded, SendGrounded DEF TypeGrounded
    <3>5. GatesGrounded'
      BY <2>1, <3>1 DEF GatesGrounded
    <3>. QED
      BY <1>1, <2>1, <3>4, <3>5, FrameGrounded DEF Sign, ConsentInv
  <2>. QED
    BY <2>2, <2>3
<1>2. CASE SignFinish(h)
  <2>1. Grows /\ approved
    BY <1>2 DEF SignFinish, Grows, ConsentInv, GatesGrounded
  <2>2. GatesGrounded'
    BY <1>2, <2>1 DEF SignFinish, GatesGrounded
  <2>. QED
    BY <1>2, <2>1, <2>2, FrameGrounded DEF SignFinish, ConsentInv
<1>3. CASE RecvSigned(h)
  <2>. DEFINE x == Head(batch[h]).hash
              t == IF s.status \in Terminal \cup {"absent"} THEN s ELSE WithSign(s, Peer(h), x)
  <2>1. Grows /\ Take(h, "signed") /\ UNCHANGED <<approved, ratifiedBy>>
    BY <1>3 DEF RecvSigned, Grows
  <2>2. approved = TRUE
    BY <2>1, TakeGrounded DEF TypeGrounded, TypeOK
  <2>3. RecordGrounded(WithSign(s, Peer(h), x), approved, ratifiedBy)
    BY <1>0, <2>2, PeerType, GroundedSign
  <2>4. RecordGrounded(t, approved, ratifiedBy) /\ Put(h, t)
    BY <1>0, <1>3, <2>3 DEF RecvSigned
  <2>5. RecordsGrounded' /\ BatchesGrounded'
    <3>. HIDE DEF t
    <3>. QED
      BY <2>1, <2>4, PutGrounded, TakeGrounded
  <2>6. GatesGrounded'
    BY <2>1, <2>2 DEF GatesGrounded
  <2>. QED
    BY <1>3, <2>1, <2>5, <2>6, FrameGrounded DEF RecvSigned, ConsentInv
<1>. QED
  BY <1>1, <1>2, <1>3

LEMMA RatifyingConsent ==
  ASSUME TypeOK, ConsentInv, NEW h \in Host,
         Ratify(h) \/ RatifyFinish(h) \/ DeclineRatify(h) \/ RecvRatified(h)
  PROVE  ConsentInv'
<1>. USE DEF gates, wire, async, env, ghosts
<1>0. /\ sess[h] \in Session /\ RecordGrounded(sess[h], approved, ratifiedBy)
      /\ Ensured(h) \in Session /\ RecordGrounded(Ensured(h), approved, ratifiedBy)
  BY GroundedEnsured
<1>1. CASE Ratify(h)
  <2>. DEFINE s == [sess[h] EXCEPT !.rat[h] = TRUE]
  <2>0. approved /\ UNCHANGED approved
    BY <1>1 DEF Ratify, ConsentInv, GatesGrounded
  <2>1. Grows /\ ratifiedBy'[h] # {}
    BY <1>1 DEF Ratify, Grows, TypeOK
  <2>2. RecordGrounded(s, approved', ratifiedBy')
    BY <1>0, <2>1, GroundedGrows, GroundedRat
  <2>3. RecordsGrounded'
    BY <1>1, <2>1, <2>2, PutGrounded DEF Ratify
  <2>4. InboxesGrounded'
    <3>1. Peer(Peer(h)) = h
      BY DEF Peer
    <3>2. TypeGrounded("ratified", Peer(h), approved', ratifiedBy')
      BY <2>0, <2>1, <3>1 DEF TypeGrounded
    <3>. QED
      BY <1>1, <2>1, <3>2, SendGrounded DEF Ratify
  <2>5. GatesGrounded'
    BY <2>0 DEF GatesGrounded
  <2>6. HandlersGrounded'
    <3>1. CASE UNCHANGED ratifying
      BY <2>1, <3>1, FrameGrounded
    <3>2. CASE /\ BothRatified(s) /\ ratPend[h] # NoHash
               /\ ratifying' = [ratifying EXCEPT ![h] = [snap |-> s, hash |-> ratPend[h]]]
      <4>1. \A g \in Host : ratifiedBy'[g] # {}
        BY <2>2, <3>2 DEF BothRatified, RecordGrounded
      <4>2. \A g \in Host : ratifying'[g] = ratifying[g] \/ ratifying'[g].hash = ratPend[h]
        BY <3>2 DEF TypeOK
      <4>. QED
        BY <2>0, <3>2, <4>1, <4>2 DEF HandlersGrounded, ConsentInv
    <3>. QED
      BY <1>1, <3>1, <3>2 DEF Ratify
  <2>. QED
    BY <1>1, <2>1, <2>3, <2>4, <2>5, <2>6, FrameGrounded DEF Ratify, ConsentInv
<1>2. CASE RatifyFinish(h)
  <2>. DEFINE s == ratifying[h].snap  x == ratifying[h].hash
  <2>1. Grows /\ UNCHANGED <<approved, ratifiedBy>>
    BY <1>2 DEF RatifyFinish, Grows
  <2>2. s \in Session /\ approved = TRUE /\ \A g \in Host : ratifiedBy[g] # {}
    BY <1>2 DEF RatifyFinish, ConsentInv, HandlersGrounded, TypeOK
  <2>3. RecordsGrounded'
    <3>. DEFINE t == [s EXCEPT !.status = "closed", !.art = x, !.co = x]
    <3>1. Put(h, t)
      BY <1>2 DEF RatifyFinish, Finalize
    <3>2. RecordGrounded(t, approved', ratifiedBy')
      BY <2>1, <2>2, GroundedFinal
    <3>. QED
      BY <2>1, <3>1, <3>2, PutGrounded
  <2>4. HandlersGrounded'
    <3>1. \A g \in Host : ratifying'[g] = ratifying[g] \/ ratifying'[g] = NoRatifying
      BY <1>2 DEF RatifyFinish, TypeOK
    <3>. QED
      BY <2>1, <3>1 DEF ConsentInv, HandlersGrounded
  <2>. QED
    BY <1>2, <2>1, <2>3, <2>4, FrameGrounded DEF RatifyFinish, ConsentInv
<1>3. CASE DeclineRatify(h)
  <2>1. Grows /\ approved /\ UNCHANGED approved
    BY <1>3 DEF DeclineRatify, Grows, ConsentInv, GatesGrounded
  <2>2. GatesGrounded'
    BY <2>1 DEF GatesGrounded
  <2>. QED
    BY <1>3, <2>1, <2>2, FrameGrounded DEF DeclineRatify, ConsentInv
<1>4. CASE RecvRatified(h)
  <2>. DEFINE s == Ensured(h)  t == [s EXCEPT !.rat[Peer(h)] = TRUE]
              f == [t EXCEPT !.status = "closed", !.art = t.art, !.co = t.art]
  <2>1. Grows /\ Take(h, "ratified")
    BY <1>4 DEF RecvRatified, Grows
  <2>2. approved = TRUE /\ ratifiedBy[Peer(h)] # {}
    BY <2>1, TakeGrounded DEF TypeGrounded, TypeOK
  <2>3. t \in Session /\ RecordGrounded(t, approved, ratifiedBy)
    BY <1>0, <2>2, PeerType, GroundedRat, RatUpdate
  <2>4. BothRatified(t) => RecordGrounded(f, approved, ratifiedBy)
    BY <2>2, <2>3, GroundedFinal DEF BothRatified, RecordGrounded
  <2>5. Put(h, s) \/ Put(h, t) \/ (BothRatified(t) /\ Put(h, f))
    BY <1>4 DEF RecvRatified, Finalize
  <2>6. \E u : Put(h, u) /\ RecordGrounded(u, approved, ratifiedBy)
    <3>. HIDE DEF s, t, f
    <3>1. RecordGrounded(s, approved, ratifiedBy)
      BY <1>0 DEF s
    <3>. QED
      BY <2>3, <2>4, <2>5, <3>1
  <2>. QED
    BY <1>4, <2>1, <2>6, ReceiptConsent DEF RecvRatified
<1>. QED
  BY <1>1, <1>2, <1>3, <1>4

(* What is left of an inbox behind any position is grounded.               *)
LEMMA RestGrounded ==
  ASSUME TypeOK, ConsentInv, Grows, NEW h \in Host, NEW k \in Nat,
         box' = [box EXCEPT ![h] = SubSeq(@, k + 1, Len(@))]
  PROVE  InboxesGrounded'
<1>1. ASSUME NEW g \in Host, NEW i \in DOMAIN box'[g]
      PROVE  TypeGrounded(box'[g][i].type, g, approved', ratifiedBy')
  <2>1. \A j \in DOMAIN box[g] : TypeGrounded(box[g][j].type, g, approved, ratifiedBy)
    BY DEF ConsentInv, InboxesGrounded
  <2>2. CASE g # h
    <3>1. box'[g] = box[g]
      BY <2>2 DEF TypeOK
    <3>. QED
      BY <2>1, <3>1, TypeGrows
  <2>3. CASE g = h
    <3>. DEFINE q == box[h]
    <3>1. q \in Seq(Message) /\ Len(q) \in Nat /\ box'[g] = SubSeq(q, k + 1, Len(q))
      BY <2>3 DEF TypeOK
    <3>2. \A j \in k + 1 .. Len(q) : q[j] \in Message
      BY <3>1
    <3>3. /\ SubSeq(q, k + 1, Len(q)) \in Seq(Message)
          /\ \A j \in 1 .. Len(q) - (k + 1) + 1 : SubSeq(q, k + 1, Len(q))[j] = q[k + 1 + j - 1]
          /\ Len(SubSeq(q, k + 1, Len(q)))
               = IF k + 1 <= Len(q) THEN Len(q) - (k + 1) + 1 ELSE 0
      <4>. HIDE DEF q
      <4>. QED
        BY <3>1, <3>2, SubSeqProperties
    <3>4. i \in 1 .. Len(q) - k /\ k + i \in DOMAIN q /\ box'[g][i] = q[k + i]
      <4>. HIDE DEF q
      <4>1. i \in 1 .. Len(SubSeq(q, k + 1, Len(q)))
        BY <3>1, <3>3
      <4>2. k + 1 <= Len(q) /\ i \in 1 .. Len(q) - k
        BY <3>1, <3>3, <4>1
      <4>3. i \in 1 .. Len(q) - (k + 1) + 1 /\ k + 1 + i - 1 = k + i
        BY <3>1, <4>2
      <4>4. box'[g][i] = q[k + i]
        BY <3>1, <3>3, <4>3
      <4>5. k + i \in DOMAIN q
        BY <3>1, <4>2
      <4>. QED
        BY <4>2, <4>4, <4>5
    <3>. QED
      BY <2>1, <2>3, <3>4, TypeGrows
  <2>. QED
    BY <2>2, <2>3
<1>. QED
  BY <1>1 DEF InboxesGrounded

LEMMA PullConsent ==
  ASSUME TypeOK, ConsentInv, NEW h \in Host, Pull(h) \/ EndPull(h)
  PROVE  ConsentInv'
<1>. USE DEF gates, wire, async, env, ghosts
<1>0. Grows /\ UNCHANGED <<approved, ratifiedBy>>
  BY DEF Pull, EndPull, Grows
<1>1. CASE Pull(h)
  <2>1. \A g \in Host : batch'[g] = batch[g] \/ batch'[g] = box[g]
    BY <1>1 DEF Pull, TypeOK
  <2>2. BatchesGrounded'
    BY <1>0, <2>1 DEF BatchesGrounded, ConsentInv, InboxesGrounded
  <2>. QED
    BY <1>0, <1>1, <2>2, FrameGrounded DEF Pull, ConsentInv
<1>2. CASE EndPull(h)
  <2>1. got[h] \in Nat
    BY DEF TypeOK
  <2>2. InboxesGrounded'
    BY <1>0, <1>2, <2>1, RestGrounded DEF EndPull
  <2>. QED
    BY <1>0, <1>2, <2>2, FrameGrounded DEF EndPull, ConsentInv
<1>. QED
  BY <1>1, <1>2

LEMMA ClosingConsent ==
  ASSUME TypeOK, ConsentInv, NEW h \in Host,
         CloseSend(h) \/ CloseMark(h) \/ RecvClose(h) \/ CloseFinish(h) \/ Revoke(h)
  PROVE  ConsentInv'
<1>. USE DEF gates, wire, async, env, ghosts
<1>0. Grows /\ UNCHANGED <<approved, ratifiedBy, signing, ratifying>>
  BY DEF CloseSend, CloseMark, RecvClose, CloseFinish, Revoke, Grows
<1>1. CASE CloseSend(h)
  <2>1. InboxesGrounded'
    <3>. DEFINE m == [type |-> "close", hash |-> NoHash]
    <3>1. ASSUME NEW g \in Host, NEW i \in DOMAIN box'[g]
          PROVE  TypeGrounded(box'[g][i].type, g, approved', ratifiedBy')
      <4>1. box[g] \in Seq(Message) /\ Peer(h) \in Host
        BY PeerType DEF TypeOK
      <4>2. box'[g] = box[g] \/ box'[g] = Append(box[g], m)
        BY <1>1, <4>1 DEF CloseSend, TypeOK
      <4>3. box'[g][i] = m \/ (i \in DOMAIN box[g] /\ box'[g][i] = box[g][i])
        <5>. HIDE DEF m
        <5>. QED
          BY <4>1, <4>2
      <4>4. i \in DOMAIN box[g] => TypeGrounded(box[g][i].type, g, approved, ratifiedBy)
        BY DEF ConsentInv, InboxesGrounded
      <4>5. TypeGrounded(m.type, g, approved', ratifiedBy')
        BY DEF TypeGrounded
      <4>. QED
        BY <1>0, <4>3, <4>4, <4>5, TypeGrows
    <3>. QED
      BY <3>1 DEF InboxesGrounded
  <2>. QED
    BY <1>0, <1>1, <2>1, FrameGrounded DEF CloseSend, ConsentInv
<1>2. CASE CloseMark(h)
  BY <1>0, <1>2, FrameGrounded DEF CloseMark, ConsentInv
<1>3. CASE RecvClose(h)
  <2>1. BatchesGrounded'
    BY <1>0, <1>3, TakeGrounded DEF RecvClose
  <2>. QED
    BY <1>0, <1>3, <2>1, FrameGrounded DEF RecvClose, ConsentInv
<1>4. CASE CloseFinish(h)
  <2>. DEFINE s == Ensured(h)
              t == [s EXCEPT !.status = "closed", !.why = "thread_closed"]
  <2>1. RecordGrounded(s, approved', ratifiedBy') /\ RecordGrounded(t, approved', ratifiedBy')
    BY <1>0, GroundedEnsured, GroundedStatus DEF Status
  <2>2. Put(h, s) \/ Put(h, t)
    BY <1>4 DEF CloseFinish
  <2>3. RecordsGrounded'
    BY <1>0, <2>1, <2>2, PutGrounded
  <2>4. s.art # NoHash => approved
    BY <1>0, <2>1 DEF RecordGrounded
  <2>5. GatesGrounded'
    BY <1>0, <1>4, <2>4, RequeueGrounded DEF CloseFinish, ConsentInv, GatesGrounded
  <2>. QED
    BY <1>0, <1>4, <2>3, <2>5, FrameGrounded DEF CloseFinish, ConsentInv
<1>5. CASE Revoke(h)
  <2>. DEFINE s == sess[h]
              t == [s EXCEPT !.status = "closed", !.why = "bond_revoked"]
  <2>1. RecordGrounded(s, approved', ratifiedBy') /\ RecordGrounded(t, approved', ratifiedBy')
    BY <1>0, GroundedEnsured, GroundedStatus DEF Status
  <2>2. Put(h, s) \/ Put(h, t)
    BY <1>5 DEF Revoke
  <2>3. RecordsGrounded'
    BY <1>0, <2>1, <2>2, PutGrounded
  <2>4. s.art # NoHash => approved
    BY <1>0, <2>1 DEF RecordGrounded
  <2>5. GatesGrounded'
    BY <1>0, <1>5, <2>4, RequeueGrounded DEF Revoke, ConsentInv, GatesGrounded
  <2>6. InboxesGrounded'
    <3>1. \A g \in Host : box'[g] = box[g] \/ box'[g] = <<>>
      BY <1>5 DEF Revoke, TypeOK
    <3>. QED
      BY <1>0, <3>1 DEF InboxesGrounded, ConsentInv
  <2>. QED
    BY <1>0, <1>5, <2>3, <2>5, <2>6, FrameGrounded DEF Revoke, ConsentInv
<1>. QED
  BY <1>1, <1>2, <1>3, <1>4, <1>5

LEMMA EnvConsent ==
  ASSUME TypeOK, ConsentInv, NEW h \in Host, EnvStep(h)
  PROVE  ConsentInv'
<1>. USE DEF gates, wire, async, env, ghosts
<1>0. Grows /\ UNCHANGED <<approved, ratifiedBy>>
  BY DEF EnvStep, Crash, DeadlinePasses, OpenTtlPasses, Grows
<1>1. CASE Crash(h)
  <2>1. InboxesGrounded'
    <3>1. PICK k \in 0 .. got[h] : box' = [box EXCEPT ![h] = SubSeq(@, k + 1, Len(@))]
      BY <1>1 DEF Crash
    <3>2. k \in Nat
      BY DEF TypeOK
    <3>. QED
      BY <1>0, <3>1, <3>2, RestGrounded
  <2>2. BatchesGrounded'
    <3>1. \A g \in Host : batch'[g] = batch[g] \/ batch'[g] = <<>>
      BY <1>1 DEF Crash, TypeOK
    <3>. QED
      BY <1>0, <3>1 DEF BatchesGrounded, ConsentInv
  <2>3. GatesGrounded'
    <3>1. \A g \in Host : /\ signing'[g] = signing[g] \/ signing'[g] = NoSnap
                          /\ ratPend'[g] = ratPend[g] \/ ratPend'[g] = NoHash
      BY <1>1 DEF Crash, TypeOK
    <3>. QED
      BY <1>0, <3>1 DEF GatesGrounded, ConsentInv
  <2>4. HandlersGrounded'
    <3>1. \A g \in Host : ratifying'[g] = ratifying[g] \/ ratifying'[g] = NoRatifying
      BY <1>1 DEF Crash, TypeOK
    <3>. QED
      BY <1>0, <3>1 DEF HandlersGrounded, ConsentInv
  <2>. QED
    BY <1>0, <1>1, <2>1, <2>2, <2>3, <2>4, FrameGrounded DEF Crash, ConsentInv
<1>2. CASE DeadlinePasses(h)
  BY <1>0, <1>2, FrameGrounded DEF DeadlinePasses, ConsentInv
<1>3. CASE OpenTtlPasses(h)
  BY <1>0, <1>3, FrameGrounded DEF OpenTtlPasses, ConsentInv
<1>. QED
  BY <1>1, <1>2, <1>3 DEF EnvStep

LEMMA InitConsent == Init => ConsentInv
<1>. SUFFICES ASSUME Init PROVE ConsentInv
  OBVIOUS
<1>1. RecordsGrounded
  BY GroundedFresh DEF Init, RecordsGrounded
<1>2. InboxesGrounded /\ BatchesGrounded
  BY DEF Init, InboxesGrounded, BatchesGrounded
<1>3. GatesGrounded /\ HandlersGrounded
  BY DEF Init, GatesGrounded, HandlersGrounded
<1>. QED
  BY <1>1, <1>2, <1>3 DEF ConsentInv

LEMMA StepConsent ==
  ASSUME TypeOK, ConsentInv, [Next]_vars
  PROVE  ConsentInv'
<1>1. CASE Next
  BY <1>1, NextCases, OpeningConsent, RecvOutcomeConsent, PullConsent, SweepingConsent,
     TurnConsent, SigningConsent, RatifyingConsent, ClosingConsent, EnvConsent
<1>2. CASE UNCHANGED vars
  <2>1. Grows /\ UNCHANGED <<sess, box, batch, ratPend, signing, ratifying>>
    BY <1>2 DEF vars, gates, wire, async, ghosts, Grows
  <2>. QED
    BY <2>1, FrameGrounded DEF ConsentInv
<1>. QED
  BY <1>1, <1>2

(* Every record, gate, envelope and suspended handler is grounded in a     *)
(* decision of a human, whatever is lost, restarted or interleaved.        *)
THEOREM ConsentInvariant == Spec => []ConsentInv
<1>1. Init => TypeOK /\ ConsentInv
  BY InitType, InitConsent
<1>2. TypeOK /\ ConsentInv /\ [Next]_vars => (TypeOK /\ ConsentInv)'
  BY StepType, StepConsent
<1>. QED
  BY <1>1, <1>2, PTL DEF Spec

(* Ratification gate: no host holds a co-signed record unless the human of *)
(* each side ratified.                                                     *)
THEOREM CoSignSafety == Spec => []CoSignNeedsBothHumans
<1>1. ConsentInv => CoSignNeedsBothHumans
  BY DEF ConsentInv, RecordsGrounded, RecordGrounded, CoSignNeedsBothHumans
<1>. QED
  BY <1>1, ConsentInvariant, PTL

(* Opening gate: nothing is live, signed or counted before the recipient's *)
(* human approved.                                                         *)
THEOREM OpeningSafety == Spec => []LiveNeedsRecipientHuman
<1>1. ConsentInv => LiveNeedsRecipientHuman
  BY DEF ConsentInv, RecordsGrounded, RecordGrounded, LiveNeedsRecipientHuman
<1>. QED
  BY <1>1, ConsentInvariant, PTL

-----------------------------------------------------------------------------
(* The session implements the consent contract                             *)

LEMMA PutCo ==
  ASSUME TypeOK, NEW h \in Host, NEW t, Put(h, t), t.co = sess[h].co
  PROVE  \A g \in Host : sess'[g].co = sess[g].co
BY DEF TypeOK, Put

LEMMA UpdateCo ==
  ASSUME NEW s \in Session, NEW st, NEW w, NEW n, NEW r \in Host, NEW x
  PROVE  /\ [s EXCEPT !.status = st].co = s.co
         /\ [s EXCEPT !.status = st, !.why = w].co = s.co
         /\ [s EXCEPT !.turns = n].co = s.co
         /\ [s EXCEPT !.rat[r] = TRUE].co = s.co
         /\ WithSign(s, r, x).co = s.co
<1>1. /\ [s EXCEPT !.status = st].co = s.co
      /\ [s EXCEPT !.status = st, !.why = w].co = s.co
      /\ [s EXCEPT !.turns = n].co = s.co
      /\ [s EXCEPT !.rat[r] = TRUE].co = s.co
  BY DEF Session
<1>2. WithSign(s, r, x).co = s.co
  <2>. DEFINE t == [s EXCEPT !.sign[r] = x, !.art = x]
  <2>1. t.co = s.co /\ t \in [{"status", "turns", "sign", "art", "rat", "co", "why"} ->
                                {t[f] : f \in {"status", "turns", "sign", "art", "rat", "co", "why"}}]
    BY DEF Session
  <2>2. WithSign(s, r, x) = [t EXCEPT !.status = IF BothSigned(t) THEN "signed" ELSE @]
    BY DEF WithSign
  <2>. QED
    BY <2>1, <2>2 DEF Session
<1>. QED
  BY <1>1, <1>2

LEMMA EnsuredCo ==
  ASSUME TypeOK, NEW h \in Host
  PROVE  /\ sess[h] \in Session /\ Ensured(h) \in Session
         /\ Ensured(h).co = sess[h].co /\ ExpiredOpen(h).co = sess[h].co
<1>1. sess[h] \in Session /\ Ensured(h) \in Session
  BY EnsuredType DEF TypeOK
<1>. QED
  BY <1>1, UpdateCo DEF Ensured, ExpiredOpen

(* Only the two finalizing handlers touch the co-signed hash.              *)
LEMMA CoSignKept ==
  ASSUME TypeOK, ConsentInv, Next,
         \A h \in Host : ~RatifyFinish(h) /\ ~RecvRatified(h)
  PROVE  \A g \in Host : sess'[g].co = sess[g].co
<1>. DEFINE Kept == \A g \in Host : sess'[g].co = sess[g].co
<1>0. /\ \A h \in Host : sess[h] \in Session /\ Ensured(h) \in Session
      /\ \A h \in Host : Ensured(h).co = sess[h].co /\ ExpiredOpen(h).co = sess[h].co
      /\ \A h \in Host : sess[h].status = "absent" => sess[h].co = NoHash
      /\ \A h \in Host : Ensured(h).status = "absent" => sess[h].co = NoHash
  BY EnsuredCo DEF Ensured, ConsentInv, RecordsGrounded, RecordGrounded
<1>1. CASE Open \/ RecvOpen
  <2>1. Fresh.co = NoHash /\ [Fresh EXCEPT !.status = "open_expired"].co = NoHash
    BY DEF Fresh, Absent
  <2>2. CASE Open
    <3>1. Put(Initiator, Fresh) /\ sess[Initiator].co = NoHash
      BY <1>0, <2>2 DEF Open
    <3>. QED
      BY <2>1, <3>1, PutCo
  <2>3. CASE RecvOpen
    <3>. DEFINE h == Recipient
    <3>1. \/ sess[h].co = NoHash /\ Put(h, Fresh)
          \/ sess[h].co = NoHash /\ Put(h, [Fresh EXCEPT !.status = "open_expired"])
          \/ Put(h, ExpiredOpen(h)) \/ Put(h, Ensured(h))
      BY <1>0, <2>3 DEF RecvOpen
    <3>. QED
      BY <1>0, <2>1, <3>1, PutCo
  <2>. QED
    BY <1>1, <2>2, <2>3
<1>2. CASE DecideTooLate \/ ApproveOpen \/ RejectOpen
  <2>. DEFINE h == Recipient
  <2>1. /\ [sess[h] EXCEPT !.status = "live"].co = sess[h].co
        /\ [sess[h] EXCEPT !.status = "open_rejected", !.why = "rejected"].co = sess[h].co
    BY <1>0, UpdateCo
  <2>2. \/ Put(h, ExpiredOpen(h)) \/ Put(h, [sess[h] EXCEPT !.status = "live"])
        \/ Put(h, [sess[h] EXCEPT !.status = "open_rejected", !.why = "rejected"])
    BY <1>2 DEF DecideTooLate, ApproveOpen, RejectOpen
  <2>. QED
    BY <1>0, <2>1, <2>2, PutCo
<1>3. CASE RecvOpenApproved \/ RecvOpenReject \/ RecvOpenExpired
  <2>. DEFINE h == Initiator  s == Ensured(h)
  <2>1. /\ [s EXCEPT !.status = "live"].co = sess[h].co
        /\ [s EXCEPT !.status = "open_rejected", !.why = "rejected"].co = sess[h].co
        /\ [s EXCEPT !.status = "open_expired"].co = sess[h].co
    BY <1>0, UpdateCo
  <2>2. \/ Put(h, s) \/ Put(h, [s EXCEPT !.status = "live"])
        \/ Put(h, [s EXCEPT !.status = "open_rejected", !.why = "rejected"])
        \/ Put(h, [s EXCEPT !.status = "open_expired"])
    BY <1>3 DEF RecvOpenApproved, RecvOpenReject, RecvOpenExpired
  <2>. QED
    BY <1>0, <2>1, <2>2, PutCo
<1>4. ASSUME NEW h \in Host, Pull(h) \/ EndPull(h) \/ SignFinish(h) \/ DeclineRatify(h)
                             \/ CloseSend(h) \/ CloseMark(h) \/ RecvClose(h) \/ EnvStep(h)
      PROVE  Kept
  BY <1>4 DEF Pull, EndPull, SignFinish, DeclineRatify, CloseSend, CloseMark, RecvClose,
              EnvStep, Crash, DeadlinePasses, OpenTtlPasses
<1>5. ASSUME NEW h \in Host, ExpireSessions(h) \/ ReadStatus(h) PROVE Kept
  <2>1. PICK t : Put(h, t) /\ t.co = sess[h].co
    BY <1>0, <1>5 DEF ExpireSessions, ReadStatus
  <2>. QED
    BY <2>1, PutCo
<1>6. ASSUME NEW h \in Host, Turn(h) \/ RecvTurn(h) PROVE Kept
  <2>1. UNCHANGED sess \/ Put(h, Ensured(h)) \/ Put(h, [Ensured(h) EXCEPT !.turns = @ + 1])
    BY <1>6 DEF Turn, RecvTurn
  <2>2. [Ensured(h) EXCEPT !.turns = @ + 1].co = sess[h].co
    BY <1>0, UpdateCo
  <2>. QED
    BY <1>0, <2>1, <2>2, PutCo
<1>7. ASSUME NEW h \in Host, (\E x \in Hash : Sign(h, x)) \/ RecvSigned(h) PROVE Kept
  <2>1. Put(h, Ensured(h)) \/ \E r \in Host : \E x : Put(h, WithSign(Ensured(h), r, x))
    BY <1>7, PeerType DEF Sign, RecvSigned
  <2>2. ASSUME NEW r \in Host, NEW x, Put(h, WithSign(Ensured(h), r, x))
        PROVE  Kept
    <3>1. WithSign(Ensured(h), r, x).co = sess[h].co
      BY <1>0, UpdateCo
    <3>. QED
      BY <2>2, <3>1, PutCo
  <2>. QED
    BY <1>0, <2>1, <2>2, PutCo
<1>8. ASSUME NEW h \in Host, Ratify(h) PROVE Kept
  <2>1. PICK t : Put(h, t) /\ t.co = sess[h].co
    BY <1>0, <1>8, UpdateCo DEF Ratify
  <2>. QED
    BY <2>1, PutCo
<1>9. ASSUME NEW h \in Host, CloseFinish(h) \/ Revoke(h) PROVE Kept
  <2>1. /\ [Ensured(h) EXCEPT !.status = "closed", !.why = "thread_closed"].co = sess[h].co
        /\ [sess[h] EXCEPT !.status = "closed", !.why = "bond_revoked"].co = sess[h].co
    BY <1>0, UpdateCo
  <2>2. \/ Put(h, Ensured(h)) \/ Put(h, sess[h])
        \/ Put(h, [Ensured(h) EXCEPT !.status = "closed", !.why = "thread_closed"])
        \/ Put(h, [sess[h] EXCEPT !.status = "closed", !.why = "bond_revoked"])
    BY <1>9 DEF CloseFinish, Revoke
  <2>. QED
    BY <1>0, <2>1, <2>2, PutCo
<1>. QED
  BY NextCases, <1>1, <1>2, <1>3, <1>4, <1>5, <1>6, <1>7, <1>8, <1>9

(* A finalizing handler adds its own host to the holders of the co-signed  *)
(* record, or leaves them as they are.                                     *)
LEMMA FinalizeCo ==
  ASSUME TypeOK, ConsentInv, NEW h \in Host, RatifyFinish(h) \/ RecvRatified(h)
  PROVE  \/ \A g \in Host : sess'[g].co = sess[g].co
         \/ /\ \A g \in Host : ratifiedBy[g] # {}
            /\ sess'[h].co # NoHash
            /\ \A g \in Host \ {h} : sess'[g].co = sess[g].co
<1>0. Ensured(h) \in Session /\ Ensured(h).co = sess[h].co
  BY EnsuredCo
<1>1. ASSUME NEW s \in Session, NEW x \in Hash \cup {NoHash}, x # NoHash, Finalize(h, s, x)
      PROVE  /\ sess'[h].co # NoHash
             /\ \A g \in Host \ {h} : sess'[g].co = sess[g].co
  <2>. DEFINE t == [s EXCEPT !.status = "closed", !.art = x, !.co = x]
  <2>1. t.co = x
    BY DEF Session
  <2>2. sess' = [sess EXCEPT ![h] = t]
    BY <1>1 DEF Finalize, Put
  <2>. HIDE DEF t
  <2>. QED
    BY <1>1, <2>1, <2>2 DEF TypeOK
<1>2. CASE RatifyFinish(h)
  <2>. DEFINE s == ratifying[h].snap  x == ratifying[h].hash
  <2>1. /\ s \in Session /\ x \in Hash \cup {NoHash} /\ x # NoHash
        /\ Finalize(h, s, x) /\ \A g \in Host : ratifiedBy[g] # {}
    BY <1>2 DEF RatifyFinish, TypeOK, ConsentInv, HandlersGrounded
  <2>. QED
    BY <1>1, <2>1
<1>3. CASE RecvRatified(h)
  <2>. DEFINE s == Ensured(h)  t == [s EXCEPT !.rat[Peer(h)] = TRUE]
  <2>1. t \in Session /\ t.co = sess[h].co /\ t.art \in Hash \cup {NoHash}
    BY <1>0, PeerType, RatUpdate, UpdateCo DEF Session
  <2>2. \/ Put(h, s) \/ Put(h, t)
        \/ BothRatified(t) /\ t.art # NoHash /\ Finalize(h, t, t.art)
    BY <1>3 DEF RecvRatified
  <2>3. CASE Put(h, s) \/ Put(h, t)
    BY <1>0, <2>1, <2>3, PutCo
  <2>4. CASE BothRatified(t) /\ t.art # NoHash /\ Finalize(h, t, t.art)
    <3>1. Grows /\ Take(h, "ratified")
      BY <1>3 DEF RecvRatified, Grows, ghosts
    <3>2. ratifiedBy[Peer(h)] # {}
      BY <3>1, TakeGrounded DEF TypeGrounded
    <3>3. RecordGrounded(t, approved, ratifiedBy)
      BY <3>2, PeerType, GroundedEnsured, GroundedRat
    <3>4. \A g \in Host : ratifiedBy[g] # {}
      BY <2>4, <3>3 DEF BothRatified, RecordGrounded
    <3>. QED
      BY <1>1, <2>1, <2>4, <3>4
  <2>. QED
    BY <2>2, <2>3, <2>4
<1>. QED
  BY <1>2, <1>3

(* Only the two humans' own decisions move the histories of their          *)
(* decisions.                                                              *)
LEMMA HumanKept ==
  ASSUME Next, ~ApproveOpen, \A h \in Host : ~Ratify(h)
  PROVE  UNCHANGED <<approved, ratifiedBy>>
<1>. USE DEF ghosts
<1>1. CASE Open \/ RecvOpen \/ DecideTooLate \/ RejectOpen
           \/ RecvOpenApproved \/ RecvOpenReject \/ RecvOpenExpired
  BY <1>1 DEF Open, RecvOpen, DecideTooLate, RejectOpen,
              RecvOpenApproved, RecvOpenReject, RecvOpenExpired
<1>2. ASSUME NEW h \in Host, Pull(h) \/ EndPull(h) \/ ExpireSessions(h) \/ ReadStatus(h)
                             \/ Turn(h) \/ RecvTurn(h)
      PROVE  UNCHANGED <<approved, ratifiedBy>>
  BY <1>2 DEF Pull, EndPull, ExpireSessions, ReadStatus, Turn, RecvTurn
<1>3. ASSUME NEW h \in Host, (\E x \in Hash : Sign(h, x)) \/ SignFinish(h) \/ RecvSigned(h)
                             \/ RatifyFinish(h) \/ DeclineRatify(h) \/ RecvRatified(h)
      PROVE  UNCHANGED <<approved, ratifiedBy>>
  BY <1>3 DEF Sign, SignFinish, RecvSigned, RatifyFinish, DeclineRatify, RecvRatified
<1>4. ASSUME NEW h \in Host, CloseSend(h) \/ CloseMark(h) \/ RecvClose(h) \/ CloseFinish(h)
                             \/ Revoke(h) \/ EnvStep(h)
      PROVE  UNCHANGED <<approved, ratifiedBy>>
  BY <1>4 DEF CloseSend, CloseMark, RecvClose, CloseFinish, Revoke,
              EnvStep, Crash, DeadlinePasses, OpenTtlPasses
<1>. QED
  BY NextCases, <1>1, <1>2, <1>3, <1>4

(* A step maps to a step of the contract, or to none.                      *)
LEMMA StepRefines ==
  ASSUME TypeOK, ConsentInv, [Next]_vars
  PROVE  [Consent!Next]_(Consent!vars)
<1>. DEFINE rat == {h \in Host : ratifiedBy[h] # {}}
            cos == {h \in Host : sess[h].co # NoHash}
            Kept == \A g \in Host : sess'[g].co = sess[g].co
<1>0. Kept => cos' = cos
  OBVIOUS
<1>1. CASE ApproveOpen
  <2>1. /\ [sess[Recipient] EXCEPT !.status = "live"].co = sess[Recipient].co
        /\ Put(Recipient, [sess[Recipient] EXCEPT !.status = "live"])
    BY <1>1, EnsuredCo, UpdateCo DEF ApproveOpen
  <2>2. cos' = cos
    BY <1>0, <2>1, PutCo
  <2>3. approved' = TRUE /\ rat' = rat /\ approved \in BOOLEAN
    BY <1>1 DEF ApproveOpen, TypeOK
  <2>. QED
    BY <2>2, <2>3 DEF Consent!Next, Consent!AgreeToOpen, Consent!vars
<1>2. ASSUME NEW h \in Host, Ratify(h) PROVE [Consent!Next]_(Consent!vars)
  <2>1. /\ [sess[h] EXCEPT !.rat[h] = TRUE].co = sess[h].co
        /\ Put(h, [sess[h] EXCEPT !.rat[h] = TRUE])
    BY <1>2, EnsuredCo, UpdateCo DEF Ratify
  <2>2. cos' = cos
    BY <1>0, <2>1, PutCo
  <2>3. approved /\ approved' = approved
    BY <1>2 DEF Ratify, ConsentInv, GatesGrounded
  <2>4. rat' = rat \cup {h}
    BY <1>2 DEF Ratify, TypeOK
  <2>5. Consent!AgreeToRatify(h)
    BY <2>2, <2>3, <2>4 DEF Consent!AgreeToRatify
  <2>. QED
    BY <2>5 DEF Consent!Next
<1>3. CASE Next /\ ~ApproveOpen /\ \A h \in Host : ~Ratify(h)
  <2>1. approved' = approved /\ rat' = rat
    BY <1>3, HumanKept
  <2>2. CASE Kept
    BY <1>0, <2>1, <2>2 DEF Consent!vars
  <2>3. ASSUME NEW h \in Host,
               \A g \in Host : ratifiedBy[g] # {}, sess'[h].co # NoHash,
               \A g \in Host \ {h} : sess'[g].co = sess[g].co
        PROVE  [Consent!Next]_(Consent!vars)
    <3>1. rat = Host /\ cos' = cos \cup {h}
      BY <2>3
    <3>2. Consent!Record(h)
      BY <2>1, <3>1 DEF Consent!Record
    <3>. QED
      BY <3>2 DEF Consent!Next
  <2>. QED
    BY <1>3, <2>2, <2>3, CoSignKept, FinalizeCo
<1>4. CASE UNCHANGED vars
  BY <1>4 DEF vars, ghosts, Consent!vars
<1>. QED
  BY <1>1, <1>2, <1>3, <1>4

(* The session, with its losses, restarts, expired clocks, closed threads, *)
(* revoked bonds and suspended handlers, implements the consent contract.  *)
THEOREM ImplementsConsent == Spec => ConsentSpec
<1>1. Init => Consent!Init
  <2>. SUFFICES ASSUME Init PROVE Consent!Init
    OBVIOUS
  <2>1. \A h \in Host : ratifiedBy[h] = {} /\ sess[h].co = NoHash
    BY DEF Init, Absent
  <2>. QED
    BY <2>1 DEF Init, Consent!Init
<1>2. TypeOK /\ ConsentInv /\ [Next]_vars => [Consent!Next]_(Consent!vars)
  BY StepRefines
<1>. QED
  BY <1>1, <1>2, TypeCorrect, ConsentInvariant, PTL DEF Spec, ConsentSpec, Consent!Spec

=============================================================================
