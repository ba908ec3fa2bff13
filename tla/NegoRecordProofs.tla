-------------------------- MODULE NegoRecordProofs --------------------------
(***************************************************************************)
(* Proofs about the life of a session record in NegoSession: its opening   *)
(* gate, its terminal statuses, its deadline and its signatures.           *)
(***************************************************************************)
EXTENDS NegoSessionProofs

USE DEF Host, Initiator, Recipient, Closing

(* What a record of host h always satisfies: nothing is signed before the  *)
(* opening, a pending request bears no decision of its own host, and a     *)
(* signed session bears both signatures.                                   *)
RecordInv(h, s) ==
  /\ s.status = "absent" => \A r \in Host : s.sign[r] = NoHash
  /\ s.status = "pending" => s.sign[h] = NoHash /\ ~s.rat[h]
  /\ s.status = "signed" => BothSigned(s)

(* The copy handleRatify holds while it awaits its send bears every        *)
(* signature of the record it will overwrite.                              *)
SnapInv(h) == ratifying[h] # NoRatifying =>
  /\ sess[h].status \notin {"absent", "pending"}
  /\ \/ BothSigned(ratifying[h].snap)
     \/ (sess[h].status \in Terminal /\ ratifying[h].snap.sign = sess[h].sign)

(* An envelope that announces a signature names a hash.                    *)
SoundMessage == {m \in Message : m.type = "signed" => m.hash # NoHash}

RecordsLive == \A h \in Host : RecordInv(h, sess[h])
SnapsLive == \A h \in Host : SnapInv(h)
WireSound == box \in [Host -> Seq(SoundMessage)] /\ batch \in [Host -> Seq(SoundMessage)]

(* The inductive invariant of a record's life.                             *)
LifeInv == RecordsLive /\ SnapsLive /\ OpenGateIsForPending /\ WireSound

-----------------------------------------------------------------------------
(* How one step may change a record                                        *)

(* The record s of host h becomes t.                                       *)
RecordStep(h, s, t) ==
  /\ s.status \in Terminal => t.status \in Terminal
  /\ s.status = "closed" => t.status = "closed"
  /\ \A r \in Host : s.sign[r] # NoHash => t.sign[r] # NoHash
  /\ s.status # "absent" => t.status # "absent"
  /\ s.status \notin {"absent", "pending"} => t.status \notin {"absent", "pending"}
  /\ late[h] /\ s.status = "live" => t = s \/ t.status = "closed"
  /\ RecordInv(h, t)

(* A terminal record keeps its signatures as they are.                     *)
Frozen(s, t) == s.status \in Terminal => t.sign = s.sign

Fine(h, t) == RecordStep(h, sess[h], t) /\ Frozen(sess[h], t)

Moves == \A g \in Host : RecordStep(g, sess[g], sess'[g])
Freezes == \A g \in Host : Frozen(sess[g], sess'[g])

LEMMA SameStep ==
  ASSUME LifeInv, NEW h \in Host
  PROVE  Fine(h, sess[h])
BY DEF LifeInv, RecordsLive, RecordStep, Frozen, Fine

LEMMA SameMoves ==
  ASSUME LifeInv, UNCHANGED sess
  PROVE  Moves /\ Freezes
BY SameStep DEF Moves, Freezes, Fine

LEMMA PutMoves ==
  ASSUME TypeOK, LifeInv, NEW h \in Host, NEW t, Put(h, t), Fine(h, t)
  PROVE  Moves /\ Freezes
<1>1. ASSUME NEW g \in Host
      PROVE  RecordStep(g, sess[g], sess'[g]) /\ Frozen(sess[g], sess'[g])
  <2>1. CASE g = h
    <3>1. sess'[g] = t
      BY <2>1 DEF Put, TypeOK
    <3>. QED
      BY <2>1, <3>1 DEF Fine
  <2>2. CASE g # h
    <3>1. sess'[g] = sess[g]
      BY <2>2 DEF Put, TypeOK
    <3>. QED
      BY <3>1, SameStep DEF Fine
  <2>. QED
    BY <2>1, <2>2
<1>. QED
  BY <1>1 DEF Moves, Freezes

(* A session past its deadline is closed before the handler looks at it,   *)
(* and is then none of the statuses a handler works on.                    *)
LEMMA EnsuredStep ==
  ASSUME TypeOK, LifeInv, NEW h \in Host
  PROVE  /\ Fine(h, Ensured(h))
         /\ Ensured(h).status \notin Terminal => Ensured(h) = sess[h]
         /\ Ensured(h).status = "live" => ~late[h]
         /\ sess[h].status = "pending" => Ensured(h) = sess[h]
<1>0. sess[h] \in Session /\ Fine(h, sess[h])
  BY SameStep DEF TypeOK
<1>1. CASE sess[h].status = "live" /\ late[h]
  <2>. DEFINE t == [sess[h] EXCEPT !.status = "closed", !.why = "deadline_expired"]
  <2>1. t.status = "closed" /\ t.sign = sess[h].sign
    BY <1>0 DEF Session
  <2>2. Ensured(h) = t
    BY <1>1 DEF Ensured
  <2>. HIDE DEF t
  <2>. QED
    BY <1>1, <2>1, <2>2 DEF RecordStep, RecordInv, Frozen, Fine, Terminal
<1>2. CASE ~(sess[h].status = "live" /\ late[h])
  <2>1. Ensured(h) = sess[h]
    BY <1>2 DEF Ensured
  <2>. QED
    BY <1>0, <1>2, <2>1
<1>. QED
  BY <1>1, <1>2

(* The request is recorded.                                                *)
LEMMA FreshStep ==
  ASSUME TypeOK, LifeInv, NEW h \in Host, sess[h].status = "absent"
  PROVE  Fine(h, Fresh) /\ Fine(h, [Fresh EXCEPT !.status = "open_expired"])
<1>1. \A r \in Host : sess[h].sign[r] = NoHash
  BY DEF LifeInv, RecordsLive, RecordInv
<1>2. /\ Fresh.status = "pending" /\ Fresh.sign[h] = NoHash /\ ~Fresh.rat[h]
      /\ [Fresh EXCEPT !.status = "open_expired"].status = "open_expired"
  BY DEF Fresh, Absent
<1>. QED
  BY <1>1, <1>2 DEF RecordStep, RecordInv, Frozen, Fine, Terminal

(* The session ends, or goes live.                                         *)
LEMMA StatusStep ==
  ASSUME TypeOK, LifeInv, NEW h \in Host, NEW st \in Terminal \cup {"live"}, NEW w,
         sess[h].status = "closed" => st = "closed",
         st = "live" => sess[h].status \notin Terminal /\ ~(sess[h].status = "live" /\ late[h]),
         sess[h].status = "live" => st \in {"live", "closed"} \/ ~late[h]
  PROVE  /\ Fine(h, [sess[h] EXCEPT !.status = st])
         /\ Fine(h, [sess[h] EXCEPT !.status = st, !.why = w])
<1>0. sess[h] \in Session
  BY DEF TypeOK
<1>1. ASSUME NEW t, t.status = st, t.sign = sess[h].sign,
             st = "live" /\ sess[h].status = "live" => ~late[h]
      PROVE  Fine(h, t)
  BY <1>1 DEF RecordStep, RecordInv, Frozen, Fine, Terminal
<1>2. /\ [sess[h] EXCEPT !.status = st].status = st
      /\ [sess[h] EXCEPT !.status = st].sign = sess[h].sign
  BY <1>0 DEF Session
<1>3. /\ [sess[h] EXCEPT !.status = st, !.why = w].status = st
      /\ [sess[h] EXCEPT !.status = st, !.why = w].sign = sess[h].sign
  BY <1>0 DEF Session
<1>. QED
  BY <1>1, <1>2, <1>3

(* A turn is counted.                                                      *)
LEMMA TurnStep ==
  ASSUME TypeOK, LifeInv, NEW h \in Host, NEW n,
         ~(sess[h].status = "live" /\ late[h])
  PROVE  Fine(h, [sess[h] EXCEPT !.turns = n])
<1>. DEFINE s == sess[h]  t == [s EXCEPT !.turns = n]
<1>1. s \in Session
  BY DEF TypeOK
<1>2. t.status = s.status /\ t.sign = s.sign /\ t.rat = s.rat
  BY <1>1 DEF Session
<1>3. RecordInv(h, s)
  BY DEF LifeInv, RecordsLive
<1>. HIDE DEF t
<1>. QED
  BY <1>2, <1>3 DEF RecordStep, RecordInv, Frozen, Fine, BothSigned, t

(* Host h records a signature of role r.                                   *)
LEMMA SignStep ==
  ASSUME TypeOK, LifeInv, NEW h \in Host, NEW r \in Host, NEW x, x # NoHash,
         sess[h].status \notin Terminal \cup {"absent"},
         r = h => sess[h].status # "pending",
         ~(sess[h].status = "live" /\ late[h])
  PROVE  /\ Fine(h, WithSign(sess[h], r, x))
         /\ sess[h].status = "pending" => WithSign(sess[h], r, x).status = "pending"
<1>. DEFINE s == sess[h]  t == [s EXCEPT !.sign[r] = x, !.art = x]  u == WithSign(s, r, x)
<1>0. s \in Session /\ RecordInv(h, s)
  BY DEF TypeOK, LifeInv, RecordsLive
<1>1. /\ t.status = s.status /\ t.rat = s.rat /\ t.sign[r] = x
      /\ \A g \in Host : g # r => t.sign[g] = s.sign[g]
  BY <1>0 DEF Session
<1>2. /\ u.status = IF BothSigned(t) THEN "signed" ELSE s.status
      /\ u.rat = s.rat /\ u.sign = t.sign
  BY <1>0 DEF Session, WithSign
<1>3. BothSigned(u) <=> BothSigned(t)
  BY <1>2 DEF BothSigned
<1>4. \A g \in Host : s.sign[g] # NoHash => u.sign[g] # NoHash
  BY <1>1, <1>2
<1>5. s.status = "pending" => ~BothSigned(t) /\ u.sign[h] = NoHash /\ ~u.rat[h]
  BY <1>0, <1>1, <1>2 DEF RecordInv, BothSigned
<1>6. s.status = "signed" => BothSigned(t)
  BY <1>0, <1>1 DEF RecordInv, BothSigned
<1>. HIDE DEF s, t, u
<1>7. RecordInv(h, u)
  BY <1>2, <1>3, <1>5, <1>6 DEF RecordInv, s, Terminal
<1>8. Fine(h, u)
  BY <1>2, <1>4, <1>5, <1>7 DEF RecordStep, Frozen, Fine, s, Terminal
<1>. QED
  BY <1>2, <1>5, <1>8 DEF s, u

(* Host h records the ratification of role r.                              *)
LEMMA RatStep ==
  ASSUME TypeOK, LifeInv, NEW h \in Host, NEW r \in Host,
         r = h => sess[h].status # "pending",
         ~(sess[h].status = "live" /\ late[h])
  PROVE  Fine(h, [sess[h] EXCEPT !.rat[r] = TRUE])
<1>. DEFINE s == sess[h]  t == [s EXCEPT !.rat[r] = TRUE]
<1>0. s \in Session /\ RecordInv(h, s)
  BY DEF TypeOK, LifeInv, RecordsLive
<1>1. t.status = s.status /\ t.sign = s.sign /\ (r # h => t.rat[h] = s.rat[h])
  BY <1>0 DEF Session
<1>. HIDE DEF t
<1>. QED
  BY <1>0, <1>1 DEF RecordStep, RecordInv, Frozen, Fine, BothSigned, t

(* A record that bears the signatures of the present one is finalized.     *)
LEMMA FinalStep ==
  ASSUME TypeOK, LifeInv, NEW h \in Host, NEW s \in Session, NEW x,
         \A r \in Host : sess[h].sign[r] # NoHash => s.sign[r] # NoHash
  PROVE  /\ RecordStep(h, sess[h], [s EXCEPT !.status = "closed", !.art = x, !.co = x])
         /\ s.sign = sess[h].sign
              => Fine(h, [s EXCEPT !.status = "closed", !.art = x, !.co = x])
<1>. DEFINE t == [s EXCEPT !.status = "closed", !.art = x, !.co = x]
<1>1. t.status = "closed" /\ t.sign = s.sign
  BY DEF Session
<1>. HIDE DEF t
<1>. QED
  BY <1>1 DEF RecordStep, RecordInv, Frozen, Fine, Terminal, t

-----------------------------------------------------------------------------
(* Every handler changes its record that way                               *)

LEMMA OpeningMoves ==
  ASSUME TypeOK, LifeInv, Open \/ RecvOpen \/ DecideTooLate \/ ApproveOpen \/ RejectOpen
  PROVE  Moves /\ Freezes
<1>1. CASE Open
  BY <1>1, FreshStep, PutMoves DEF Open
<1>2. CASE RecvOpen
  <2>. DEFINE h == Recipient  s == Ensured(h)
  <2>1. s.status = "absent" => sess[h].status = "absent"
    BY EnsuredStep DEF Terminal
  <2>2. s.status = "pending" => sess[h].status = "pending"
    BY EnsuredStep DEF Terminal
  <2>3. sess[h].status = "pending" => Fine(h, ExpiredOpen(h))
    BY StatusStep DEF ExpiredOpen, Terminal
  <2>4. \/ sess[h].status = "absent" /\ Put(h, Fresh)
        \/ sess[h].status = "absent" /\ Put(h, [Fresh EXCEPT !.status = "open_expired"])
        \/ sess[h].status = "pending" /\ Put(h, ExpiredOpen(h))
        \/ Put(h, s)
    BY <1>2, <2>1, <2>2 DEF RecvOpen
  <2>. QED
    BY <2>3, <2>4, FreshStep, EnsuredStep, PutMoves
<1>3. CASE DecideTooLate \/ ApproveOpen \/ RejectOpen
  <2>. DEFINE h == Recipient
  <2>1. sess[h].status = "pending"
    BY <1>3 DEF DecideTooLate, ApproveOpen, RejectOpen, LifeInv, OpenGateIsForPending
  <2>2. /\ Fine(h, [sess[h] EXCEPT !.status = "open_expired"])
        /\ Fine(h, [sess[h] EXCEPT !.status = "live"])
        /\ Fine(h, [sess[h] EXCEPT !.status = "open_rejected", !.why = "rejected"])
    BY <2>1, StatusStep DEF Terminal
  <2>3. \/ Put(h, [sess[h] EXCEPT !.status = "open_expired"])
        \/ Put(h, [sess[h] EXCEPT !.status = "live"])
        \/ Put(h, [sess[h] EXCEPT !.status = "open_rejected", !.why = "rejected"])
    BY <1>3 DEF DecideTooLate, ApproveOpen, RejectOpen, ExpiredOpen
  <2>. QED
    BY <2>2, <2>3, PutMoves
<1>. QED
  BY <1>1, <1>2, <1>3

LEMMA RecvOutcomeMoves ==
  ASSUME TypeOK, LifeInv, RecvOpenApproved \/ RecvOpenReject \/ RecvOpenExpired
  PROVE  Moves /\ Freezes
<1>. DEFINE h == Initiator  s == Ensured(h)
<1>0. /\ Fine(h, s)
      /\ s.status \notin Terminal => s = sess[h]
      /\ s.status = "live" => ~late[h]
      /\ s = sess[h] \/ s.status = "closed"
  <2>1. sess[h] \in Session
    BY DEF TypeOK
  <2>2. [sess[h] EXCEPT !.status = "closed", !.why = "deadline_expired"].status = "closed"
    BY <2>1 DEF Session
  <2>. QED
    BY <2>2, EnsuredStep DEF Ensured
<1>1. CASE RecvOpenApproved
  <2>1. \/ Put(h, s)
        \/ s.status \notin Terminal /\ Put(h, [s EXCEPT !.status = "live"])
    BY <1>1 DEF RecvOpenApproved
  <2>2. s.status \notin Terminal => Fine(h, [s EXCEPT !.status = "live"])
    BY <1>0, StatusStep DEF Terminal
  <2>. QED
    BY <1>0, <2>1, <2>2, PutMoves
<1>2. CASE RecvOpenReject
  <2>1. \/ Put(h, s)
        \/ /\ s.status \notin {"open_rejected", "closed"}
           /\ Put(h, [s EXCEPT !.status = "open_rejected", !.why = "rejected"])
    BY <1>2 DEF RecvOpenReject
  <2>2. s.status \notin {"open_rejected", "closed"}
          => Fine(h, [s EXCEPT !.status = "open_rejected", !.why = "rejected"])
    BY <1>0, StatusStep DEF Terminal
  <2>. QED
    BY <1>0, <2>1, <2>2, PutMoves
<1>3. CASE RecvOpenExpired
  <2>1. \/ Put(h, s)
        \/ /\ s.status \notin {"open_expired", "closed"}
           /\ Put(h, [s EXCEPT !.status = "open_expired"])
    BY <1>3 DEF RecvOpenExpired
  <2>2. s.status \notin {"open_expired", "closed"}
          => Fine(h, [s EXCEPT !.status = "open_expired"])
    BY <1>0, StatusStep DEF Terminal
  <2>. QED
    BY <1>0, <2>1, <2>2, PutMoves
<1>. QED
  BY <1>1, <1>2, <1>3

LEMMA SweepingMoves ==
  ASSUME TypeOK, LifeInv, NEW h \in Host, ExpireSessions(h) \/ ReadStatus(h)
  PROVE  Moves /\ Freezes
<1>1. \/ Put(h, Ensured(h))
      \/ sess[h].status = "pending" /\ Put(h, [sess[h] EXCEPT !.status = "open_expired"])
  BY DEF ExpireSessions, ReadStatus, ExpiredOpen
<1>2. sess[h].status = "pending" => Fine(h, [sess[h] EXCEPT !.status = "open_expired"])
  BY StatusStep DEF Terminal
<1>. QED
  BY <1>1, <1>2, EnsuredStep, PutMoves

LEMMA TurnMoves ==
  ASSUME TypeOK, LifeInv, NEW h \in Host, Turn(h) \/ RecvTurn(h)
  PROVE  Moves /\ Freezes
<1>. DEFINE s == Ensured(h)
<1>1. \/ UNCHANGED sess
      \/ Put(h, s)
      \/ s.status \in {"live", "signed"} /\ Put(h, [s EXCEPT !.turns = s.turns + 1])
  BY DEF Turn, RecvTurn
<1>2. s.status \in {"live", "signed"}
        => s = sess[h] /\ ~(sess[h].status = "live" /\ late[h])
  BY EnsuredStep DEF Terminal
<1>3. s.status \in {"live", "signed"} => Fine(h, [s EXCEPT !.turns = s.turns + 1])
  <2>. DEFINE n == s.turns + 1
  <2>. HIDE DEF n
  <2>. QED
    BY <1>2, TurnStep
<1>. QED
  BY <1>1, <1>3, SameMoves, EnsuredStep, PutMoves

(* The envelope a handler takes from the pull.                             *)
LEMMA TakeSound ==
  ASSUME TypeOK, WireSound, NEW h \in Host, NEW type, Take(h, type)
  PROVE  /\ batch' \in [Host -> Seq(SoundMessage)]
         /\ type = "signed" => Head(batch[h]).hash # NoHash
<1>1. batch[h] \in Seq(SoundMessage) /\ batch[h] # <<>>
  BY DEF WireSound, Take
<1>2. Tail(batch[h]) \in Seq(SoundMessage) /\ Head(batch[h]) \in SoundMessage
  BY <1>1
<1>. QED
  BY <1>2 DEF WireSound, Take, SoundMessage

LEMMA SigningMoves ==
  ASSUME TypeOK, LifeInv, NEW h \in Host,
         (\E x \in Hash : Sign(h, x)) \/ SignFinish(h) \/ RecvSigned(h)
  PROVE  Moves /\ Freezes
<1>. DEFINE s == Ensured(h)
<1>0. s.status \notin Terminal => s = sess[h] /\ ~(sess[h].status = "live" /\ late[h])
  BY EnsuredStep
<1>1. ASSUME NEW x \in Hash, Sign(h, x) PROVE Moves /\ Freezes
  <2>1. x # NoHash
    BY NoHashAssumption
  <2>2. Put(h, s) \/ (s.status \in {"live", "signed"} /\ Put(h, WithSign(s, h, x)))
    BY <1>1 DEF Sign
  <2>3. s.status \in {"live", "signed"} => Fine(h, WithSign(s, h, x))
    BY <1>0, <2>1, SignStep DEF Terminal
  <2>. QED
    BY <2>2, <2>3, EnsuredStep, PutMoves
<1>2. CASE SignFinish(h)
  BY <1>2, SameMoves DEF SignFinish
<1>3. CASE RecvSigned(h)
  <2>. DEFINE x == Head(batch[h]).hash
  <2>1. x # NoHash
    BY <1>3, TakeSound DEF RecvSigned, LifeInv
  <2>2. \/ Put(h, s)
        \/ s.status \notin Terminal \cup {"absent"} /\ Put(h, WithSign(s, Peer(h), x))
    BY <1>3 DEF RecvSigned
  <2>3. s.status \notin Terminal \cup {"absent"} => Fine(h, WithSign(s, Peer(h), x))
    BY <1>0, <2>1, SignStep, PeerType
  <2>. QED
    BY <2>2, <2>3, EnsuredStep, PutMoves
<1>. QED
  BY <1>1, <1>2, <1>3

LEMMA RatifyingMoves ==
  ASSUME TypeOK, LifeInv, NEW h \in Host,
         Ratify(h) \/ DeclineRatify(h) \/ RecvRatified(h)
  PROVE  Moves /\ Freezes
<1>1. CASE Ratify(h)
  <2>1. sess[h].status \in {"signed", "closed"} /\ Put(h, [sess[h] EXCEPT !.rat[h] = TRUE])
    BY <1>1 DEF Ratify
  <2>. QED
    BY <2>1, RatStep, PutMoves
<1>2. CASE DeclineRatify(h)
  BY <1>2, SameMoves DEF DeclineRatify
<1>3. CASE RecvRatified(h)
  <2>. DEFINE s == Ensured(h)  t == [s EXCEPT !.rat[Peer(h)] = TRUE]
  <2>0. s.status \notin Terminal => s = sess[h] /\ ~(sess[h].status = "live" /\ late[h])
    BY EnsuredStep
  <2>1. \/ Put(h, s)
        \/ /\ s.status \notin Terminal
           /\ Put(h, t) \/ Put(h, [t EXCEPT !.status = "closed", !.art = t.art, !.co = t.art])
    BY <1>3 DEF RecvRatified, Finalize
  <2>2. s.status \notin Terminal => Fine(h, t)
    BY <2>0, RatStep, PeerType
  <2>3. s.status \notin Terminal => t \in Session /\ t.sign = sess[h].sign
    <3>1. sess[h] \in Session /\ Peer(h) \in Host
      BY PeerType DEF TypeOK
    <3>2. [sess[h] EXCEPT !.rat[Peer(h)] = TRUE].sign = sess[h].sign
      BY <3>1 DEF Session
    <3>. QED
      BY <2>0, <3>1, <3>2, RatUpdate
  <2>4. s.status \notin Terminal
          => Fine(h, [t EXCEPT !.status = "closed", !.art = t.art, !.co = t.art])
    <3>. HIDE DEF t
    <3>. QED
      BY <2>3, FinalStep
  <2>. QED
    BY <2>1, <2>2, <2>4, EnsuredStep, PutMoves
<1>. QED
  BY <1>1, <1>2, <1>3

LEMMA ClosingMoves ==
  ASSUME TypeOK, LifeInv, NEW h \in Host, CloseFinish(h) \/ Revoke(h)
  PROVE  Moves /\ Freezes
<1>1. CASE CloseFinish(h)
  <2>. DEFINE s == Ensured(h)
  <2>1. \/ Put(h, s)
        \/ /\ s.status \notin Terminal
           /\ Put(h, [s EXCEPT !.status = "closed", !.why = "thread_closed"])
    BY <1>1 DEF CloseFinish
  <2>2. s.status \notin Terminal
          => Fine(h, [s EXCEPT !.status = "closed", !.why = "thread_closed"])
    BY EnsuredStep, StatusStep DEF Terminal
  <2>. QED
    BY <2>1, <2>2, EnsuredStep, PutMoves
<1>2. CASE Revoke(h)
  <2>1. \/ Put(h, sess[h])
        \/ Put(h, [sess[h] EXCEPT !.status = "closed", !.why = "bond_revoked"])
    BY <1>2 DEF Revoke
  <2>2. Fine(h, [sess[h] EXCEPT !.status = "closed", !.why = "bond_revoked"])
    BY StatusStep DEF Terminal
  <2>. QED
    BY <2>1, <2>2, SameStep, PutMoves
<1>. QED
  BY <1>1, <1>2

(* The rest of handleRatify writes back the record captured before its     *)
(* send; that copy bears every signature the present record bears.         *)
LEMMA RatifyFinishMoves ==
  ASSUME TypeOK, LifeInv, NEW h \in Host, RatifyFinish(h)
  PROVE  /\ Moves /\ ratifying' = [ratifying EXCEPT ![h] = NoRatifying]
         /\ \A g \in Host \ {h} : Frozen(sess[g], sess'[g])
<1>. DEFINE s == ratifying[h].snap  x == ratifying[h].hash
            t == [s EXCEPT !.status = "closed", !.art = x, !.co = x]
<1>1. SnapInv(h) /\ ratifying[h] # NoRatifying /\ s \in Session
  BY DEF RatifyFinish, LifeInv, SnapsLive, TypeOK
<1>2. \A r \in Host : sess[h].sign[r] # NoHash => s.sign[r] # NoHash
  BY <1>1 DEF SnapInv, BothSigned
<1>3. RecordStep(h, sess[h], t)
  BY <1>1, <1>2, FinalStep
<1>4. sess' = [sess EXCEPT ![h] = t]
  BY DEF RatifyFinish, Finalize, Put
<1>5. \A g \in Host : RecordStep(g, sess[g], sess'[g])
  <2>. HIDE DEF t
  <2>. TAKE g \in Host
  <2>. QED
    BY <1>3, <1>4, SameStep DEF TypeOK, Fine
<1>6. \A g \in Host \ {h} : sess'[g] = sess[g]
  <2>. HIDE DEF t
  <2>. QED
    BY <1>4 DEF TypeOK
<1>. QED
  BY <1>5, <1>6, SameStep DEF Moves, Fine, RatifyFinish

-----------------------------------------------------------------------------
(* The gate, the captured copies and the wire                              *)

(* The opening gate stands only beside a pending request.                  *)
LEMMA GateStands ==
  ASSUME TypeOK, LifeInv, NEW h \in Host, NEW t, Put(h, t),
         openPend' => openPend, h = Recipient /\ openPend' => t.status = "pending"
  PROVE  OpenGateIsForPending'
BY DEF Put, TypeOK, LifeInv, OpenGateIsForPending

LEMMA GateFrame ==
  ASSUME LifeInv, UNCHANGED <<sess, openPend>>
  PROVE  OpenGateIsForPending'
BY DEF LifeInv, OpenGateIsForPending

LEMMA OpeningGate ==
  ASSUME TypeOK, LifeInv, Open \/ RecvOpen \/ DecideTooLate \/ ApproveOpen \/ RejectOpen
  PROVE  OpenGateIsForPending'
<1>0. sess \in [Host -> Session]
  BY DEF TypeOK
<1>1. CASE Open
  <2>1. UNCHANGED openPend /\ Put(Initiator, Fresh)
    BY <1>1 DEF Open, gates
  <2>. QED
    BY <2>1, GateStands
<1>2. CASE RecvOpen
  <2>. DEFINE h == Recipient  s == Ensured(h)
  <2>1. CASE s.status = "absent" /\ ~late[h]
    <3>1. sess' = [sess EXCEPT ![h] = Fresh]
      BY <1>2, <2>1 DEF RecvOpen, Put
    <3>2. sess'[h].status = "pending"
      BY <1>0, <3>1 DEF Fresh, Absent
    <3>. QED
      BY <3>2 DEF OpenGateIsForPending
  <2>2. CASE s.status = "absent" /\ late[h]
    <3>1. ~openPend /\ UNCHANGED openPend
      BY <1>2, <2>2, EnsuredStep DEF RecvOpen, LifeInv, OpenGateIsForPending, Terminal
    <3>. QED
      BY <3>1 DEF OpenGateIsForPending
  <2>3. CASE s.status = "pending"
    <3>1. openPend' => sess' = [sess EXCEPT ![h] = s]
      BY <1>2, <2>3 DEF RecvOpen, Put
    <3>. QED
      BY <1>0, <2>3, <3>1 DEF OpenGateIsForPending
  <2>4. CASE s.status \notin {"absent", "pending"}
    <3>1. ~openPend /\ UNCHANGED openPend
      BY <1>2, <2>4, EnsuredStep DEF RecvOpen, LifeInv, OpenGateIsForPending, Terminal
    <3>. QED
      BY <3>1 DEF OpenGateIsForPending
  <2>. QED
    BY <2>1, <2>2, <2>3, <2>4
<1>3. CASE DecideTooLate \/ ApproveOpen \/ RejectOpen
  BY <1>3 DEF DecideTooLate, ApproveOpen, RejectOpen, OpenGateIsForPending
<1>. QED
  BY <1>1, <1>2, <1>3

(* A handler that is not about the opening leaves a pending request of its *)
(* own host pending, or drops the gate.                                    *)
LEMMA HandlerGate ==
  ASSUME TypeOK, LifeInv, NEW h \in Host,
         \/ Turn(h) \/ RecvTurn(h) \/ (\E x \in Hash : Sign(h, x)) \/ RecvSigned(h)
         \/ Ratify(h) \/ RatifyFinish(h) \/ RecvRatified(h)
  PROVE  OpenGateIsForPending'
<1>. DEFINE s == Ensured(h)
<1>. USE DEF gates
<1>0. /\ openPend /\ h = Recipient => sess[h].status = "pending" /\ s = sess[h]
      /\ UNCHANGED openPend
  BY EnsuredStep DEF LifeInv, OpenGateIsForPending, Turn, RecvTurn, Sign, RecvSigned, Ratify,
     RatifyFinish, RecvRatified
<1>. DEFINE Keeps(t) == h = Recipient /\ openPend => t.status = "pending"
<1>1. ASSUME NEW t, Put(h, t), Keeps(t) PROVE OpenGateIsForPending'
  BY <1>0, <1>1, GateStands
<1>2. CASE Turn(h) \/ RecvTurn(h)
  <2>1. \/ UNCHANGED sess
        \/ Put(h, s)
        \/ s.status \in {"live", "signed"} /\ Put(h, [s EXCEPT !.turns = s.turns + 1])
    BY <1>2 DEF Turn, RecvTurn
  <2>2. CASE UNCHANGED sess
    BY <1>0, <2>2, GateFrame
  <2>3. CASE Put(h, s)
    BY <1>0, <1>1, <2>3
  <2>4. CASE s.status \in {"live", "signed"} /\ Put(h, [s EXCEPT !.turns = s.turns + 1])
    <3>1. Keeps([s EXCEPT !.turns = s.turns + 1])
      BY <1>0, <2>4
    <3>. QED
      BY <1>1, <2>4, <3>1
  <2>. QED
    BY <2>1, <2>2, <2>3, <2>4
<1>3. ASSUME NEW x \in Hash, Sign(h, x) PROVE OpenGateIsForPending'
  <2>1. Put(h, s) \/ (s.status \in {"live", "signed"} /\ Put(h, WithSign(s, h, x)))
    BY <1>3 DEF Sign
  <2>2. s.status \in {"live", "signed"} => Keeps(WithSign(s, h, x))
    BY <1>0
  <2>3. Keeps(s)
    BY <1>0
  <2>. QED
    BY <1>1, <2>1, <2>2, <2>3
<1>4. CASE RecvSigned(h)
  <2>. DEFINE x == Head(batch[h]).hash  t == WithSign(s, Peer(h), x)
  <2>1. x # NoHash
    BY <1>4, TakeSound DEF RecvSigned, LifeInv
  <2>2. Put(h, s) \/ (s.status \notin Terminal \cup {"absent"} /\ Put(h, t))
    BY <1>4 DEF RecvSigned
  <2>3. Keeps(t)
    BY <1>0, <2>1, SignStep, PeerType DEF Terminal
  <2>4. Keeps(s)
    BY <1>0
  <2>. QED
    BY <1>1, <2>2, <2>3, <2>4
<1>5. CASE Ratify(h)
  <2>1. ~(h = Recipient /\ openPend)
    BY <1>0, <1>5 DEF Ratify
  <2>2. PICK t : Put(h, t)
    BY <1>5 DEF Ratify
  <2>. QED
    BY <1>1, <2>1, <2>2
<1>6. CASE RatifyFinish(h)
  <2>1. ~(h = Recipient /\ openPend)
    BY <1>0, <1>6 DEF RatifyFinish, LifeInv, SnapsLive, SnapInv
  <2>2. PICK t : Put(h, t)
    BY <1>6 DEF RatifyFinish, Finalize
  <2>. QED
    BY <1>1, <2>1, <2>2
<1>7. CASE RecvRatified(h)
  <2>. DEFINE t == [s EXCEPT !.rat[Peer(h)] = TRUE]
  <2>1. Put(h, s) \/ Put(h, t) \/ (BothRatified(t) /\ \E u : Put(h, u))
    BY <1>7 DEF RecvRatified, Finalize
  <2>2. h = Recipient /\ openPend => t.status = "pending" /\ ~BothRatified(t)
    <3>. SUFFICES ASSUME h = Recipient, openPend PROVE t.status = "pending" /\ ~BothRatified(t)
      OBVIOUS
    <3>1. s = sess[h] /\ s \in Session /\ s.status = "pending" /\ Peer(h) # h
      BY <1>0, PeerType DEF TypeOK
    <3>2. ~s.rat[h]
      BY <3>1 DEF LifeInv, RecordsLive, RecordInv
    <3>3. t.status = s.status /\ t.rat[h] = s.rat[h]
      BY <3>1 DEF Session
    <3>. QED
      BY <3>1, <3>2, <3>3 DEF BothRatified
  <2>3. Keeps(t) /\ Keeps(s)
    BY <1>0, <2>2
  <2>4. CASE BothRatified(t) /\ \E u : Put(h, u)
    <3>1. PICK u : Put(h, u)
      BY <2>4
    <3>2. Keeps(u)
      BY <2>2, <2>4
    <3>. QED
      BY <1>1, <3>1, <3>2
  <2>. QED
    BY <1>1, <2>1, <2>3, <2>4
<1>. QED
  BY <1>2, <1>3, <1>4, <1>5, <1>6, <1>7

LEMMA SweepingGate ==
  ASSUME TypeOK, LifeInv, NEW h \in Host,
         ExpireSessions(h) \/ ReadStatus(h) \/ CloseFinish(h) \/ Revoke(h)
  PROVE  OpenGateIsForPending'
<1>. DEFINE s == Ensured(h)
<1>0. /\ sess[h].status = "pending" => s = sess[h]
      /\ openPend /\ h = Recipient => sess[h].status = "pending"
  BY EnsuredStep DEF LifeInv, OpenGateIsForPending
<1>1. CASE ExpireSessions(h)
  <2>. DEFINE t == IF sess[h].status = "pending" /\ OpenExpired(h) THEN ExpiredOpen(h) ELSE s
  <2>1. Put(h, t) /\ openPend' = (openPend /\ (h = Recipient => t.status = "pending"))
    BY <1>1 DEF ExpireSessions
  <2>. HIDE DEF t
  <2>. QED
    BY <2>1, GateStands
<1>2. CASE ReadStatus(h)
  <2>1. CASE sess[h].status = "pending" /\ h = Recipient
    <3>1. openPend' => Put(h, sess[h])
      BY <1>0, <1>2, <2>1 DEF ReadStatus
    <3>. QED
      BY <2>1, <3>1 DEF Put, TypeOK, OpenGateIsForPending
  <2>2. CASE ~(sess[h].status = "pending" /\ h = Recipient)
    <3>1. Put(h, s) /\ UNCHANGED openPend
      BY <1>2, <2>2 DEF ReadStatus
    <3>. QED
      BY <1>0, <2>2, <3>1, GateStands
  <2>. QED
    BY <2>1, <2>2
<1>3. CASE CloseFinish(h)
  <2>. DEFINE t == IF s.status \in Terminal \cup {"absent"} THEN s
                   ELSE [s EXCEPT !.status = "closed", !.why = "thread_closed"]
  <2>1. Put(h, t) /\ (IF s.status = "pending" THEN DropOpen(h) ELSE UNCHANGED openPend)
    BY <1>3 DEF CloseFinish
  <2>2. openPend' => openPend /\ ~(h = Recipient)
    BY <1>0, <2>1 DEF DropOpen
  <2>. HIDE DEF t
  <2>. QED
    BY <2>1, <2>2, GateStands
<1>4. CASE Revoke(h)
  <2>1. DropOpen(h) /\ \E t : Put(h, t)
    BY <1>4 DEF Revoke
  <2>. QED
    BY <2>1, GateStands DEF DropOpen
<1>. QED
  BY <1>1, <1>2, <1>3, <1>4

LEMMA SnapsStand ==
  ASSUME LifeInv,
         \A g \in Host : \/ ratifying'[g] = NoRatifying
                         \/ /\ ratifying'[g] = ratifying[g]
                            /\ RecordStep(g, sess[g], sess'[g]) /\ Frozen(sess[g], sess'[g])
  PROVE  SnapsLive'
<1>1. ASSUME NEW g \in Host, ratifying'[g] # NoRatifying PROVE SnapInv(g)'
  <2>1. /\ ratifying'[g] = ratifying[g] /\ ratifying[g] # NoRatifying
        /\ RecordStep(g, sess[g], sess'[g]) /\ Frozen(sess[g], sess'[g])
    BY <1>1
  <2>2. SnapInv(g)
    BY DEF LifeInv, SnapsLive
  <2>. QED
    BY <2>1, <2>2 DEF SnapInv, RecordStep, Frozen
<1>. QED
  BY <1>1 DEF SnapsLive, SnapInv

LEMMA SnapsFrame ==
  ASSUME LifeInv, Moves, Freezes, UNCHANGED ratifying
  PROVE  SnapsLive'
BY SnapsStand DEF Moves, Freezes

(* handleRatify captures the record it has just stored.                    *)
LEMMA RatifySnap ==
  ASSUME TypeOK, LifeInv, NEW h \in Host, Ratify(h)
  PROVE  SnapsLive'
<1>. DEFINE s == [sess[h] EXCEPT !.rat[h] = TRUE]
            z == [snap |-> s, hash |-> ratPend[h]]
<1>0. sess[h] \in Session /\ RecordInv(h, sess[h])
  BY DEF TypeOK, LifeInv, RecordsLive
<1>1. s.status = sess[h].status /\ s.sign = sess[h].sign /\ z.snap = s
  BY <1>0 DEF Session
<1>2. s.status \in {"signed", "closed"} /\ sess' = [sess EXCEPT ![h] = s]
  BY <1>1 DEF Ratify, Put
<1>3. BothSigned(s) \/ s.status \in Terminal
  BY <1>0, <1>1, <1>2 DEF RecordInv, BothSigned, Terminal
<1>4. ratifying' = ratifying \/ ratifying' = [ratifying EXCEPT ![h] = z]
  BY DEF Ratify
<1>5. ratifying[h] = NoRatifying
  BY DEF Ratify
<1>6. SnapInv(h)'
  <2>1. sess'[h] = s
    BY <1>2 DEF TypeOK
  <2>2. ratifying'[h] = NoRatifying \/ ratifying'[h] = z
    <3>. HIDE DEF z
    <3>. QED
      BY <1>4, <1>5 DEF TypeOK
  <2>3. s.status \notin {"absent", "pending"}
    BY <1>2
  <2>. HIDE DEF s, z
  <2>. QED
    BY <1>1, <1>3, <2>1, <2>2, <2>3 DEF SnapInv
<1>7. ASSUME NEW g \in Host, g # h PROVE SnapInv(g)'
  <2>1. sess'[g] = sess[g] /\ ratifying'[g] = ratifying[g]
    <3>. HIDE DEF s, z
    <3>. QED
      BY <1>2, <1>4, <1>7 DEF TypeOK
  <2>. QED
    BY <2>1 DEF SnapInv, LifeInv, SnapsLive
<1>. QED
  BY <1>6, <1>7 DEF SnapsLive

LEMMA SendSound ==
  ASSUME TypeOK, WireSound, NEW h \in Host,
         NEW type \in {"open", "open_approved", "open_reject", "open_expired",
                       "turn", "signed", "ratified", "close"},
         NEW x \in Hash \cup {NoHash}, type = "signed" => x # NoHash,
         Send(h, type, x)
  PROVE  box' \in [Host -> Seq(SoundMessage)]
<1> DEFINE m == [type |-> type, hash |-> x]  q == Append(box[Peer(h)], m)
<1>1. m \in SoundMessage
  BY DEF Message, SoundMessage
<1>2. Peer(h) \in Host /\ box[Peer(h)] \in Seq(SoundMessage)
  BY PeerType DEF WireSound
<1>3. q \in Seq(SoundMessage)
  <2>. HIDE DEF m
  <2>. QED
    BY <1>1, <1>2
<1>4. box' = box \/ box' = [box EXCEPT ![Peer(h)] = q]
  BY DEF Send
<1>. HIDE DEF q
<1>. QED
  BY <1>2, <1>3, <1>4 DEF WireSound

LEMMA RestSound ==
  ASSUME WireSound, NEW h \in Host, NEW k \in Nat,
         box' = [box EXCEPT ![h] = SubSeq(@, k + 1, Len(@))]
  PROVE  box' \in [Host -> Seq(SoundMessage)]
<1>. DEFINE q == box[h]
<1>1. q \in Seq(SoundMessage) /\ Len(q) \in Nat
  BY DEF WireSound
<1>2. \A i \in k + 1 .. Len(q) : q[i] \in SoundMessage
  BY <1>1
<1>3. SubSeq(q, k + 1, Len(q)) \in Seq(SoundMessage)
  <2>. HIDE DEF q
  <2>. QED
    BY <1>1, <1>2, SubSeqProperties
<1>. QED
  BY <1>3 DEF WireSound

LEMMA WireFrame ==
  ASSUME WireSound, UNCHANGED <<box, batch>>
  PROVE  WireSound'
BY DEF WireSound

LEMMA OpeningSound ==
  ASSUME TypeOK, WireSound,
         \/ Open \/ RecvOpen \/ DecideTooLate \/ ApproveOpen \/ RejectOpen
         \/ RecvOpenApproved \/ RecvOpenReject \/ RecvOpenExpired
  PROVE  WireSound'
<1>. USE DEF wire
<1>1. CASE Open \/ DecideTooLate \/ ApproveOpen \/ RejectOpen
  <2>1. box' \in [Host -> Seq(SoundMessage)]
    BY <1>1, SendSound DEF Open, DecideTooLate, ApproveOpen, RejectOpen
  <2>2. UNCHANGED batch
    BY <1>1 DEF Open, DecideTooLate, ApproveOpen, RejectOpen
  <2>. QED
    BY <2>1, <2>2 DEF WireSound
<1>2. CASE RecvOpen
  <2>1. box' \in [Host -> Seq(SoundMessage)]
    BY <1>2, SendSound DEF RecvOpen, WireSound
  <2>. QED
    BY <1>2, <2>1, TakeSound DEF RecvOpen, WireSound
<1>3. CASE RecvOpenApproved \/ RecvOpenReject \/ RecvOpenExpired
  BY <1>3, TakeSound DEF RecvOpenApproved, RecvOpenReject, RecvOpenExpired, WireSound
<1>. QED
  BY <1>1, <1>2, <1>3

LEMMA HandlerSound ==
  ASSUME TypeOK, WireSound, NEW h \in Host,
         \/ ExpireSessions(h) \/ ReadStatus(h) \/ Turn(h) \/ RecvTurn(h)
         \/ (\E x \in Hash : Sign(h, x)) \/ SignFinish(h) \/ RecvSigned(h)
         \/ Ratify(h) \/ RatifyFinish(h) \/ DeclineRatify(h) \/ RecvRatified(h)
  PROVE  WireSound'
<1>. USE DEF wire
<1>1. CASE ReadStatus(h) \/ SignFinish(h) \/ RatifyFinish(h) \/ DeclineRatify(h)
  BY <1>1, WireFrame DEF ReadStatus, SignFinish, RatifyFinish, DeclineRatify
<1>2. CASE RecvTurn(h) \/ RecvSigned(h) \/ RecvRatified(h)
  BY <1>2, TakeSound DEF RecvTurn, RecvSigned, RecvRatified, WireSound
<1>3. CASE ExpireSessions(h)
  BY <1>3, SendSound DEF ExpireSessions, WireSound
<1>4. CASE Turn(h)
  BY <1>4, SendSound DEF Turn, WireSound
<1>5. ASSUME NEW x \in Hash, Sign(h, x) PROVE WireSound'
  <2>1. x # NoHash
    BY NoHashAssumption
  <2>. QED
    BY <1>5, <2>1, SendSound DEF Sign, WireSound
<1>6. CASE Ratify(h)
  <2>1. ratPend[h] \in Hash
    BY <1>6 DEF Ratify, TypeOK
  <2>. QED
    BY <1>6, <2>1, SendSound DEF Ratify, WireSound
<1>. QED
  BY <1>1, <1>2, <1>3, <1>4, <1>5, <1>6

LEMMA ThreadSound ==
  ASSUME TypeOK, WireSound, NEW h \in Host,
         \/ Pull(h) \/ EndPull(h) \/ CloseSend(h) \/ CloseMark(h) \/ RecvClose(h)
         \/ CloseFinish(h) \/ Revoke(h) \/ EnvStep(h)
  PROVE  WireSound'
<1>. USE DEF wire
<1>1. CASE Pull(h)
  BY <1>1 DEF Pull, WireSound
<1>2. CASE EndPull(h)
  <2>1. got[h] \in Nat
    BY DEF TypeOK
  <2>. QED
    BY <1>2, <2>1, RestSound DEF EndPull, WireSound
<1>3. CASE CloseSend(h)
  <2>. DEFINE m == [type |-> "close", hash |-> NoHash]  q == Append(box[Peer(h)], m)
  <2>1. m \in SoundMessage /\ box[Peer(h)] \in Seq(SoundMessage)
    BY PeerType DEF Message, SoundMessage, WireSound
  <2>2. q \in Seq(SoundMessage)
    <3>. HIDE DEF m
    <3>. QED
      BY <2>1
  <2>3. box' = [box EXCEPT ![Peer(h)] = q] /\ UNCHANGED batch
    BY <1>3 DEF CloseSend
  <2>. HIDE DEF q
  <2>. QED
    BY <2>2, <2>3 DEF WireSound
<1>4. CASE CloseMark(h) \/ CloseFinish(h)
  BY <1>4, WireFrame DEF CloseMark, CloseFinish
<1>5. CASE RecvClose(h)
  BY <1>5, TakeSound DEF RecvClose, WireSound
<1>6. CASE Revoke(h)
  <2>1. <<>> \in Seq(SoundMessage) /\ \A g \in Host : box[g] \in Seq(SoundMessage)
    BY DEF WireSound
  <2>2. \/ box' = box
        \/ box' = [g \in Host |-> IF g = h \/ ~allow[g] THEN <<>> ELSE box[g]]
    BY <1>6 DEF Revoke
  <2>. QED
    BY <1>6, <2>1, <2>2 DEF Revoke, WireSound
<1>7. CASE Crash(h)
  <2>1. PICK k \in 0 .. got[h] : box' = [box EXCEPT ![h] = SubSeq(@, k + 1, Len(@))]
    BY <1>7 DEF Crash
  <2>2. k \in Nat
    BY DEF TypeOK
  <2>3. <<>> \in Seq(SoundMessage)
    OBVIOUS
  <2>. QED
    BY <1>7, <2>1, <2>2, <2>3, RestSound DEF Crash, WireSound
<1>8. CASE DeadlinePasses(h) \/ OpenTtlPasses(h)
  BY <1>8, WireFrame DEF DeadlinePasses, OpenTtlPasses
<1>. QED
  BY <1>1, <1>2, <1>3, <1>4, <1>5, <1>6, <1>7, <1>8 DEF EnvStep

-----------------------------------------------------------------------------
(* The inductive invariant                                                 *)

LEMMA InitLife == Init => LifeInv
<1>. SUFFICES ASSUME Init PROVE LifeInv
  OBVIOUS
<1>1. RecordsLive
  BY DEF Init, RecordsLive, RecordInv, Absent
<1>2. SnapsLive /\ OpenGateIsForPending
  BY DEF Init, SnapsLive, SnapInv, OpenGateIsForPending
<1>3. WireSound
  BY DEF Init, WireSound
<1>. QED
  BY <1>1, <1>2, <1>3 DEF LifeInv

(* Every step moves every record the way RecordStep allows.                *)
LEMMA StepMoves ==
  ASSUME TypeOK, LifeInv, [Next]_vars
  PROVE  Moves /\ (Freezes \/ \E h \in Host : RatifyFinish(h))
<1>1. ASSUME NEW h \in Host,
             \/ Pull(h) \/ EndPull(h) \/ CloseSend(h) \/ CloseMark(h) \/ RecvClose(h)
             \/ EnvStep(h)
      PROVE  Moves /\ Freezes
  BY <1>1, SameMoves DEF Pull, EndPull, CloseSend, CloseMark, RecvClose,
                         EnvStep, Crash, DeadlinePasses, OpenTtlPasses
<1>2. CASE UNCHANGED vars
  BY <1>2, SameMoves DEF vars
<1>3. CASE Next
  BY <1>1, <1>3, NextCases, OpeningMoves, RecvOutcomeMoves, SweepingMoves, TurnMoves,
     SigningMoves, RatifyingMoves, ClosingMoves, RatifyFinishMoves
<1>. QED
  BY <1>2, <1>3

LEMMA StepSnaps ==
  ASSUME TypeOK, LifeInv, [Next]_vars
  PROVE  SnapsLive'
<1>. USE DEF async
<1>1. CASE \E h \in Host : RatifyFinish(h)
  <2>1. PICK h \in Host : RatifyFinish(h)
    BY <1>1
  <2>2. /\ Moves /\ ratifying' = [ratifying EXCEPT ![h] = NoRatifying]
        /\ \A g \in Host \ {h} : Frozen(sess[g], sess'[g])
    BY <2>1, RatifyFinishMoves
  <2>. QED
    BY <2>2, SnapsStand DEF Moves, TypeOK
<1>2. CASE \E h \in Host : Ratify(h)
  BY <1>2, RatifySnap
<1>3. CASE \E h \in Host : Crash(h)
  <2>1. PICK h \in Host : Crash(h)
    BY <1>3
  <2>2. UNCHANGED sess /\ ratifying' = [ratifying EXCEPT ![h] = NoRatifying]
    BY <2>1 DEF Crash
  <2>. QED
    BY <2>2, SameMoves, SnapsStand DEF Moves, Freezes, TypeOK
<1>4. CASE ~\E h \in Host : RatifyFinish(h) \/ Ratify(h) \/ Crash(h)
  <2>1. Moves /\ Freezes
    BY <1>4, StepMoves
  <2>2. ASSUME Next PROVE UNCHANGED ratifying
    <3>1. CASE \/ Open \/ RecvOpen \/ DecideTooLate \/ ApproveOpen \/ RejectOpen
               \/ RecvOpenApproved \/ RecvOpenReject \/ RecvOpenExpired
      BY <3>1 DEF Open, RecvOpen, DecideTooLate, ApproveOpen, RejectOpen,
                  RecvOpenApproved, RecvOpenReject, RecvOpenExpired
    <3>2. ASSUME NEW h \in Host,
                 \/ Pull(h) \/ EndPull(h) \/ ExpireSessions(h) \/ ReadStatus(h)
                 \/ Turn(h) \/ RecvTurn(h)
          PROVE  UNCHANGED ratifying
      BY <3>2 DEF Pull, EndPull, ExpireSessions, ReadStatus, Turn, RecvTurn
    <3>3. ASSUME NEW h \in Host,
                 \/ (\E x \in Hash : Sign(h, x)) \/ SignFinish(h) \/ RecvSigned(h)
                 \/ DeclineRatify(h) \/ RecvRatified(h)
          PROVE  UNCHANGED ratifying
      BY <3>3 DEF Sign, SignFinish, RecvSigned, DeclineRatify, RecvRatified
    <3>4. ASSUME NEW h \in Host,
                 \/ CloseSend(h) \/ CloseMark(h) \/ RecvClose(h) \/ CloseFinish(h)
                 \/ Revoke(h) \/ DeadlinePasses(h) \/ OpenTtlPasses(h)
          PROVE  UNCHANGED ratifying
      BY <3>4 DEF CloseSend, CloseMark, RecvClose, CloseFinish, Revoke,
                  DeadlinePasses, OpenTtlPasses
    <3>. QED
      BY <1>4, <2>2, <3>1, <3>2, <3>3, <3>4, NextCases DEF EnvStep
  <2>3. UNCHANGED ratifying
    BY <2>2 DEF vars
  <2>. QED
    BY <2>1, <2>3, SnapsFrame
<1>. QED
  BY <1>1, <1>2, <1>3, <1>4

LEMMA StepGate ==
  ASSUME TypeOK, LifeInv, [Next]_vars
  PROVE  OpenGateIsForPending'
<1>. USE DEF gates
<1>1. CASE RecvOpenApproved \/ RecvOpenReject \/ RecvOpenExpired
  <2>1. UNCHANGED openPend /\ \E t : Put(Initiator, t)
    BY <1>1 DEF RecvOpenApproved, RecvOpenReject, RecvOpenExpired
  <2>. QED
    BY <2>1, GateStands
<1>2. ASSUME NEW h \in Host,
             \/ Pull(h) \/ EndPull(h) \/ SignFinish(h) \/ DeclineRatify(h)
             \/ CloseSend(h) \/ CloseMark(h) \/ RecvClose(h)
             \/ DeadlinePasses(h) \/ OpenTtlPasses(h)
      PROVE  OpenGateIsForPending'
  BY <1>2, GateFrame DEF Pull, EndPull, SignFinish, DeclineRatify, CloseSend, CloseMark,
                         RecvClose, DeadlinePasses, OpenTtlPasses
<1>3. ASSUME NEW h \in Host, Crash(h) PROVE OpenGateIsForPending'
  <2>1. UNCHANGED sess /\ (openPend' => openPend)
    BY <1>3 DEF Crash
  <2>. QED
    BY <2>1 DEF LifeInv, OpenGateIsForPending
<1>4. CASE UNCHANGED vars
  BY <1>4, GateFrame DEF vars
<1>5. CASE Next
  BY <1>1, <1>2, <1>3, <1>5, NextCases, OpeningGate, HandlerGate, SweepingGate DEF EnvStep
<1>. QED
  BY <1>4, <1>5

LEMMA StepSound ==
  ASSUME TypeOK, WireSound, [Next]_vars
  PROVE  WireSound'
<1>1. CASE Next
  BY <1>1, NextCases, OpeningSound, HandlerSound, ThreadSound
<1>2. CASE UNCHANGED vars
  BY <1>2, WireFrame DEF vars, wire
<1>. QED
  BY <1>1, <1>2

LEMMA StepLife ==
  ASSUME TypeOK, LifeInv, [Next]_vars
  PROVE  LifeInv'
<1>1. RecordsLive'
  BY StepMoves DEF Moves, RecordStep, RecordsLive, RecordInv
<1>. QED
  BY <1>1, StepSnaps, StepGate, StepSound DEF LifeInv

LEMMA LifeInvariant == Spec => [](TypeOK /\ LifeInv)
<1>1. Init => TypeOK /\ LifeInv
  BY InitType, InitLife
<1>2. TypeOK /\ LifeInv /\ [Next]_vars => (TypeOK /\ LifeInv)'
  BY StepType, StepLife
<1>. QED
  BY <1>1, <1>2, PTL DEF Spec

-----------------------------------------------------------------------------
(* Results                                                                 *)

(* The opening gate: whatever expires, closes, revokes or restarts while   *)
(* the human decides, the item he decides on is about a pending request.   *)
THEOREM OpenGateSafety == Spec => []OpenGateIsForPending
<1>1. LifeInv => OpenGateIsForPending
  BY DEF LifeInv
<1>. QED
  BY <1>1, LifeInvariant, PTL

(* A terminal session stays terminal and a closed one closed: no late or   *)
(* redelivered envelope, no gate and no suspended handler revives it.      *)
THEOREM TerminalSafety == Spec => TerminalIsFinal
<1>1. TypeOK /\ LifeInv /\ [Next]_vars
        => [\A h \in Host : sess[h].status \in Terminal =>
              /\ sess'[h].status \in Terminal
              /\ sess[h].status = "closed" => sess'[h].status = "closed"]_vars
  BY StepMoves DEF Moves, RecordStep
<1>. QED
  BY <1>1, LifeInvariant, PTL DEF Spec, TerminalIsFinal

(* A recorded signature is never erased, not even by the copy handleRatify *)
(* writes back after its send.                                             *)
THEOREM EvidenceSafety == Spec => EvidenceIsKept
<1>1. TypeOK /\ LifeInv /\ [Next]_vars
        => [\A h, r \in Host : sess[h].sign[r] # NoHash => sess'[h].sign[r] # NoHash]_vars
  BY StepMoves DEF Moves, RecordStep
<1>. QED
  BY <1>1, LifeInvariant, PTL DEF Spec, EvidenceIsKept

(* Past its deadline a live session can only be left alone or closed.      *)
THEOREM DeadlineSafety == Spec => DeadlineIsLocal
<1>1. TypeOK /\ LifeInv /\ [Next]_vars
        => [\A h \in Host : late[h] /\ sess[h].status = "live" =>
              sess'[h] = sess[h] \/ sess'[h].status = "closed"]_vars
  BY StepMoves DEF Moves, RecordStep
<1>. QED
  BY <1>1, LifeInvariant, PTL DEF Spec, DeadlineIsLocal

-----------------------------------------------------------------------------
(* A closed thread has no open session                                     *)

(* The opening request is the first envelope of its thread, so it is read  *)
(* before any core.close, and a thread closed unopened stays unopened.     *)
Later == {m \in Message : m.type # "open"}
OpenLeads(q) == \A i \in 2 .. Len(q) : q[i] \in Later
NoOpen(q) == \A i \in 1 .. Len(q) : q[i] \in Later

Unopened == sess[Initiator].status = "absent" =>
  /\ sess[Recipient].status = "absent"
  /\ \A h \in Host : box[h] = <<>> /\ batch[h] = <<>> /\ ~closedT[h]

OpenIsFirst == OpenLeads(box[Recipient]) /\ OpenLeads(batch[Recipient])

(* While the recipient works on a pull, its inbox still holds those rows.  *)
OpenIsRead == batch[Recipient] # <<>> /\ ~NoOpen(box[Recipient]) => got[Recipient] > 0

ClosedUnopened == closedT[Recipient] /\ sess[Recipient].status = "absent" =>
  /\ NoOpen(batch[Recipient])
  /\ NoOpen(box[Recipient]) \/ got[Recipient] > 0

CloserHasRecord == \A h \in Host : closing[h] = "sent" => sess[h].status # "absent"

(* The inductive invariant of a thread close, as long as nothing restarts. *)
ThreadInv ==
  /\ Unopened /\ OpenIsFirst /\ OpenIsRead /\ ClosedUnopened
  /\ CloserHasRecord /\ ClosedThreadIsOver

(* Nothing happens on a thread that was never opened.                      *)
LEMMA IdleThread ==
  ASSUME TypeOK, LifeInv, Unopened, CloserHasRecord, sess[Initiator].status = "absent",
         Next, ~Open, \A h \in Host : ~Crash(h)
  PROVE  \A h \in Host : /\ sess'[h].status = "absent" /\ ~closedT'[h]
                         /\ box'[h] = <<>> /\ batch'[h] = <<>> /\ closing'[h] # "sent"
<1>. DEFINE Idle == \A h \in Host : /\ sess'[h].status = "absent" /\ ~closedT'[h]
                                    /\ box'[h] = <<>> /\ batch'[h] = <<>> /\ closing'[h] # "sent"
<1>. USE DEF wire, async
<1>0. /\ sess \in [Host -> Session] /\ ~openPend
      /\ \A h \in Host : /\ sess[h].status = "absent" /\ ~closedT[h]
                         /\ box[h] = <<>> /\ batch[h] = <<>>
                         /\ ratifying[h] = NoRatifying /\ closing[h] # "sent"
                         /\ Ensured(h) = sess[h]
  BY DEF Unopened, TypeOK, LifeInv, OpenGateIsForPending, SnapsLive, SnapInv, CloserHasRecord,
         Ensured
<1>1. ASSUME NEW h \in Host, NEW type PROVE ~Take(h, type)
  BY <1>0 DEF Take
<1>2. ASSUME NEW h \in Host, Put(h, sess[h]) PROVE \A g \in Host : sess'[g].status = "absent"
  BY <1>0, <1>2 DEF Put
<1>3. /\ ~RecvOpen /\ ~DecideTooLate /\ ~ApproveOpen /\ ~RejectOpen
      /\ ~RecvOpenApproved /\ ~RecvOpenReject /\ ~RecvOpenExpired
  BY <1>0, <1>1 DEF RecvOpen, DecideTooLate, ApproveOpen, RejectOpen,
     RecvOpenApproved, RecvOpenReject, RecvOpenExpired
<1>4. ASSUME NEW h \in Host
      PROVE  /\ ~Pull(h) /\ ~ReadStatus(h) /\ ~RecvTurn(h) /\ ~RecvSigned(h) /\ ~Ratify(h)
             /\ ~RatifyFinish(h) /\ ~RecvRatified(h) /\ ~CloseSend(h) /\ ~CloseMark(h)
             /\ ~RecvClose(h) /\ ~OpenTtlPasses(h)
  BY <1>0, <1>1 DEF Pull, ReadStatus, RecvTurn, RecvSigned, Ratify, RatifyFinish, RecvRatified,
     CloseSend, CloseMark, RecvClose, OpenTtlPasses
<1>5. ASSUME NEW h \in Host, EndPull(h) PROVE Idle
  <2>1. box' = [box EXCEPT ![h] = SubSeq(@, got[h] + 1, Len(@))] /\ got[h] \in Nat /\ got[h] > 0
    BY <1>5 DEF EndPull, TypeOK
  <2>2. SubSeq(<<>>, got[h] + 1, Len(<<>>)) = <<>>
    BY <2>1
  <2>3. \A g \in Host : box'[g] = <<>>
    BY <1>0, <2>1, <2>2 DEF TypeOK
  <2>. QED
    BY <1>0, <1>5, <2>3 DEF EndPull
<1>6. ASSUME NEW h \in Host, ExpireSessions(h) PROVE Idle
  <2>1. Put(h, sess[h]) /\ UNCHANGED <<box, batch, closedT, closing>>
    BY <1>0, <1>6 DEF ExpireSessions
  <2>. QED
    BY <1>0, <1>2, <2>1
<1>7. ASSUME NEW h \in Host, Turn(h) \/ \E x \in Hash : Sign(h, x) PROVE Idle
  <2>1. Put(h, sess[h]) /\ UNCHANGED <<box, batch, closedT, closing>>
    BY <1>0, <1>7 DEF Turn, Sign
  <2>. QED
    BY <1>0, <1>2, <2>1
<1>8. ASSUME NEW h \in Host, SignFinish(h) \/ DeclineRatify(h) \/ DeadlinePasses(h) PROVE Idle
  BY <1>0, <1>8 DEF SignFinish, DeclineRatify, DeadlinePasses
<1>9. ASSUME NEW h \in Host, CloseFinish(h) PROVE Idle
  <2>1. Put(h, sess[h]) /\ UNCHANGED <<box, batch, closedT>>
    BY <1>0, <1>9 DEF CloseFinish
  <2>2. \A g \in Host : closing'[g] # "sent"
    BY <1>0, <1>9 DEF CloseFinish, TypeOK
  <2>. QED
    BY <1>0, <1>2, <2>1, <2>2
<1>10. ASSUME NEW h \in Host, Revoke(h) PROVE Idle
  <2>1. Put(h, sess[h]) /\ UNCHANGED <<batch, closedT, closing>>
    BY <1>0, <1>10 DEF Revoke
  <2>2. \A g \in Host : box'[g] = <<>>
    BY <1>0, <1>10 DEF Revoke, TypeOK
  <2>. QED
    BY <1>0, <1>2, <2>1, <2>2
<1>. QED
  BY <1>3, <1>4, <1>5, <1>6, <1>7, <1>8, <1>9, <1>10, NextCases DEF EnvStep

(* How one step other than Open may change what the recipient has to read. *)
InboxMoves ==
  LET r == Recipient IN
  \/ /\ batch'[r] = batch[r] /\ got'[r] = got[r]
     /\ box'[r] = box[r] \/ \E m \in Later : box'[r] = Append(box[r], m)
  \/ batch'[r] = batch[r] /\ box'[r] = <<>>
  \/ /\ box'[r] = box[r] /\ got'[r] = got[r]
     /\ batch[r] # <<>> /\ batch'[r] = Tail(batch[r])
  \/ /\ box[r] # <<>> /\ got[r] = 0 /\ got'[r] = Len(box[r])
     /\ box'[r] = box[r] /\ batch'[r] = box[r]
  \/ /\ got[r] > 0 /\ batch[r] = <<>> /\ batch'[r] = <<>>
     /\ box'[r] = SubSeq(box[r], got[r] + 1, Len(box[r]))

LEMMA SendLater ==
  ASSUME TypeOK, NEW h \in Host,
         NEW type \in {"open_approved", "open_reject", "open_expired",
                       "turn", "signed", "ratified", "close"},
         NEW x \in Hash \cup {NoHash}, Send(h, type, x)
  PROVE  /\ box'[h] = box[h]
         /\ \A g \in Host : box'[g] = box[g] \/ \E m \in Later : box'[g] = Append(box[g], m)
<1>. DEFINE m == [type |-> type, hash |-> x]
<1>1. m \in Later
  BY DEF Later, Message
<1>2. Peer(h) \in Host /\ Peer(h) # h
  BY PeerType
<1>3. box' = box \/ box' = [box EXCEPT ![Peer(h)] = Append(@, m)]
  BY DEF Send
<1>. HIDE DEF m
<1>. QED
  BY <1>1, <1>2, <1>3 DEF TypeOK

(* A handler that takes no envelope and perhaps sends one.                 *)
LEMMA SenderInbox ==
  ASSUME TypeOK, UNCHANGED <<batch, got>>,
         \A g \in Host : box'[g] = box[g] \/ \E m \in Later : box'[g] = Append(box[g], m)
  PROVE  InboxMoves
BY DEF InboxMoves

(* A handler that takes one envelope and perhaps answers it.               *)
LEMMA TakerInbox ==
  ASSUME TypeOK, NEW h \in Host, NEW type, Take(h, type), UNCHANGED got,
         box'[h] = box[h],
         \A g \in Host : box'[g] = box[g] \/ \E m \in Later : box'[g] = Append(box[g], m)
  PROVE  InboxMoves
<1>1. CASE h = Recipient
  <2>1. batch[h] # <<>> /\ batch'[h] = Tail(batch[h])
    BY DEF Take, TypeOK
  <2>. QED
    BY <1>1, <2>1 DEF InboxMoves
<1>2. CASE h # Recipient
  <2>1. batch'[Recipient] = batch[Recipient]
    BY <1>2 DEF Take, TypeOK
  <2>. QED
    BY <2>1 DEF InboxMoves
<1>. QED
  BY <1>1, <1>2

LEMMA StepInbox ==
  ASSUME TypeOK, Next, ~Open, \A h \in Host : ~Crash(h)
  PROVE  InboxMoves
<1>. USE DEF wire
<1>1. CASE DecideTooLate \/ ApproveOpen \/ RejectOpen
  <2>1. \A g \in Host : box'[g] = box[g] \/ \E m \in Later : box'[g] = Append(box[g], m)
    BY <1>1, SendLater DEF DecideTooLate, ApproveOpen, RejectOpen
  <2>. QED
    BY <1>1, <2>1, SenderInbox DEF DecideTooLate, ApproveOpen, RejectOpen
<1>2. CASE RecvOpen
  <2>1. /\ box'[Recipient] = box[Recipient]
        /\ \A g \in Host : box'[g] = box[g] \/ \E m \in Later : box'[g] = Append(box[g], m)
    BY <1>2, SendLater DEF RecvOpen
  <2>. QED
    BY <1>2, <2>1, TakerInbox DEF RecvOpen
<1>3. CASE RecvOpenApproved \/ RecvOpenReject \/ RecvOpenExpired
  BY <1>3, TakerInbox DEF RecvOpenApproved, RecvOpenReject, RecvOpenExpired
<1>4. ASSUME NEW h \in Host, RecvTurn(h) \/ RecvSigned(h) \/ RecvRatified(h) \/ RecvClose(h)
      PROVE  InboxMoves
  BY <1>4, TakerInbox DEF RecvTurn, RecvSigned, RecvRatified, RecvClose
<1>5. ASSUME NEW h \in Host,
             \/ ReadStatus(h) \/ SignFinish(h) \/ RatifyFinish(h) \/ DeclineRatify(h)
             \/ CloseMark(h) \/ CloseFinish(h) \/ DeadlinePasses(h) \/ OpenTtlPasses(h)
      PROVE  InboxMoves
  BY <1>5, SenderInbox DEF ReadStatus, SignFinish, RatifyFinish, DeclineRatify,
     CloseMark, CloseFinish, DeadlinePasses, OpenTtlPasses
<1>6. ASSUME NEW h \in Host, ExpireSessions(h) \/ Turn(h) PROVE InboxMoves
  <2>1. \A g \in Host : box'[g] = box[g] \/ \E m \in Later : box'[g] = Append(box[g], m)
    BY <1>6, SendLater DEF ExpireSessions, Turn
  <2>2. UNCHANGED <<batch, got>>
    BY <1>6 DEF ExpireSessions, Turn
  <2>. QED
    BY <2>1, <2>2, SenderInbox
<1>7. ASSUME NEW h \in Host, NEW x \in Hash, Sign(h, x) PROVE InboxMoves
  <2>1. \A g \in Host : box'[g] = box[g] \/ \E m \in Later : box'[g] = Append(box[g], m)
    BY <1>7, SendLater DEF Sign
  <2>. QED
    BY <1>7, <2>1, SenderInbox DEF Sign
<1>8. ASSUME NEW h \in Host, Ratify(h) PROVE InboxMoves
  <2>1. ratPend[h] \in Hash \cup {NoHash}
    BY DEF TypeOK
  <2>2. \A g \in Host : box'[g] = box[g] \/ \E m \in Later : box'[g] = Append(box[g], m)
    BY <1>8, <2>1, SendLater DEF Ratify
  <2>. QED
    BY <1>8, <2>2, SenderInbox DEF Ratify
<1>9. ASSUME NEW h \in Host, CloseSend(h) PROVE InboxMoves
  <2>. DEFINE m == [type |-> "close", hash |-> NoHash]
  <2>1. m \in Later
    BY DEF Later, Message
  <2>2. box' = [box EXCEPT ![Peer(h)] = Append(@, m)] /\ UNCHANGED <<batch, got>>
    BY <1>9 DEF CloseSend
  <2>. HIDE DEF m
  <2>. QED
    BY <2>1, <2>2, PeerType, SenderInbox DEF TypeOK
<1>10. ASSUME NEW h \in Host, Revoke(h) PROVE InboxMoves
  <2>1. UNCHANGED batch
    BY <1>10 DEF Revoke
  <2>2. \/ box' = box /\ got' = got
        \/ /\ box'[Recipient] = <<>> \/ box'[Recipient] = box[Recipient]
           /\ got'[Recipient] = IF box'[Recipient] = <<>> THEN 0 ELSE got[Recipient]
    BY <1>10 DEF Revoke
  <2>. QED
    BY <2>1, <2>2 DEF InboxMoves
<1>11. ASSUME NEW h \in Host, Pull(h) \/ EndPull(h) PROVE InboxMoves
  <2>1. CASE h = Recipient
    BY <1>11, <2>1 DEF Pull, EndPull, InboxMoves, TypeOK
  <2>2. CASE h # Recipient
    <3>1. /\ batch'[Recipient] = batch[Recipient] /\ got'[Recipient] = got[Recipient]
          /\ box'[Recipient] = box[Recipient]
      BY <1>11, <2>2 DEF Pull, EndPull, TypeOK
    <3>. QED
      BY <3>1 DEF InboxMoves
  <2>. QED
    BY <2>1, <2>2
<1>. QED
  BY <1>1, <1>2, <1>3, <1>4, <1>5, <1>6, <1>7, <1>8, <1>9, <1>10, <1>11, NextCases DEF EnvStep

(* What the three moves of an inbox do to the place of the opening.        *)
LEMMA LeadsAppend ==
  ASSUME NEW q \in Seq(Message), NEW m \in Later
  PROVE  /\ OpenLeads(q) => OpenLeads(Append(q, m))
         /\ NoOpen(q) => NoOpen(Append(q, m))
<1>1. Len(Append(q, m)) = Len(q) + 1 /\ Len(q) \in Nat
  OBVIOUS
<1>2. \A i \in 1 .. Len(q) + 1 : Append(q, m)[i] = IF i = Len(q) + 1 THEN m ELSE q[i]
  OBVIOUS
<1>. QED
  BY <1>1, <1>2 DEF OpenLeads, NoOpen

LEMMA LeadsTail ==
  ASSUME NEW q \in Seq(Message), q # <<>>, OpenLeads(q)
  PROVE  NoOpen(Tail(q)) /\ OpenLeads(Tail(q))
<1>1. Len(Tail(q)) = Len(q) - 1 /\ Len(q) \in Nat
  OBVIOUS
<1>2. \A i \in 1 .. Len(q) - 1 : Tail(q)[i] = q[i + 1]
  OBVIOUS
<1>. QED
  BY <1>1, <1>2 DEF OpenLeads, NoOpen

LEMMA LeadsRest ==
  ASSUME NEW q \in Seq(Message), NEW k \in Nat, k > 0, OpenLeads(q)
  PROVE  NoOpen(SubSeq(q, k + 1, Len(q))) /\ OpenLeads(SubSeq(q, k + 1, Len(q)))
<1>. DEFINE u == SubSeq(q, k + 1, Len(q))
<1>1. Len(q) \in Nat /\ k + 1 \in Nat /\ \A i \in k + 1 .. Len(q) : q[i] \in Later
  BY DEF OpenLeads
<1>2. u \in Seq(Later)
  BY <1>1, SubSeqProperties
<1>. HIDE DEF u
<1>3. \A i \in 1 .. Len(u) : u[i] \in Later
  BY <1>2
<1>. QED
  BY <1>2, <1>3 DEF OpenLeads, NoOpen, u

LEMMA LeadsNone == OpenLeads(<<>>) /\ NoOpen(<<>>)
BY DEF OpenLeads, NoOpen

LEMMA StepOpenPlace ==
  ASSUME TypeOK, OpenIsFirst, OpenIsRead, InboxMoves
  PROVE  /\ OpenIsFirst' /\ OpenIsRead'
         /\ NoOpen(batch[Recipient]) /\ (NoOpen(box[Recipient]) \/ got[Recipient] > 0)
              => NoOpen(batch'[Recipient]) /\ (NoOpen(box'[Recipient]) \/ got'[Recipient] > 0)
<1>. DEFINE q == box[Recipient]  b == batch[Recipient]
            q1 == box'[Recipient]  b1 == batch'[Recipient]
            n == got[Recipient]  n1 == got'[Recipient]
<1>0. /\ q \in Seq(Message) /\ b \in Seq(Message) /\ n \in Nat /\ Len(q) \in Nat
      /\ OpenLeads(q) /\ OpenLeads(b)
      /\ b # <<>> /\ ~NoOpen(q) => n > 0
  BY DEF TypeOK, OpenIsFirst, OpenIsRead
<1>. DEFINE Goal == /\ OpenLeads(q1) /\ OpenLeads(b1)
                    /\ b1 # <<>> /\ ~NoOpen(q1) => n1 > 0
                    /\ NoOpen(b) /\ (NoOpen(q) \/ n > 0) => NoOpen(b1) /\ (NoOpen(q1) \/ n1 > 0)
<1>1. \/ b1 = b /\ n1 = n /\ (q1 = q \/ \E m \in Later : q1 = Append(q, m))
      \/ b1 = b /\ q1 = <<>>
      \/ q1 = q /\ n1 = n /\ b # <<>> /\ b1 = Tail(b)
      \/ q # <<>> /\ n = 0 /\ n1 = Len(q) /\ q1 = q /\ b1 = q
      \/ n > 0 /\ b = <<>> /\ b1 = <<>> /\ q1 = SubSeq(q, n + 1, Len(q))
  BY DEF InboxMoves
<1>2. Goal => OpenIsFirst' /\ OpenIsRead'
  BY DEF OpenIsFirst, OpenIsRead
<1>3. Goal
  <2>. HIDE DEF q, b, q1, b1, n, n1
  <2>1. CASE b1 = b /\ n1 = n /\ q1 = q
    BY <1>0, <2>1
  <2>2. ASSUME b1 = b, n1 = n, NEW m \in Later, q1 = Append(q, m) PROVE Goal
    <3>1. OpenLeads(q1) /\ (NoOpen(q) => NoOpen(q1))
      BY <1>0, <2>2, LeadsAppend
    <3>. QED
      BY <1>0, <2>2, <3>1
  <2>3. CASE b1 = b /\ q1 = <<>>
    BY <1>0, <2>3, LeadsNone
  <2>4. CASE q1 = q /\ n1 = n /\ b # <<>> /\ b1 = Tail(b)
    <3>1. NoOpen(b1) /\ OpenLeads(b1)
      BY <1>0, <2>4, LeadsTail
    <3>. QED
      BY <1>0, <2>4, <3>1
  <2>5. CASE q # <<>> /\ n = 0 /\ n1 = Len(q) /\ q1 = q /\ b1 = q
    <3>1. n1 > 0
      BY <1>0, <2>5
    <3>2. NoOpen(q) \/ n > 0 => NoOpen(b1)
      BY <1>0, <2>5
    <3>. QED
      BY <1>0, <2>5, <3>1, <3>2
  <2>6. CASE n > 0 /\ b = <<>> /\ b1 = <<>> /\ q1 = SubSeq(q, n + 1, Len(q))
    <3>1. NoOpen(q1) /\ OpenLeads(q1)
      BY <1>0, <2>6, LeadsRest
    <3>. QED
      BY <2>6, <3>1, LeadsNone
  <2>. QED
    BY <1>1, <2>1, <2>2, <2>3, <2>4, <2>5, <2>6
<1>. QED
  BY <1>2, <1>3

(* Only a restart counts as one.                                           *)
LEMMA CrashesKept ==
  ASSUME Next, \A h \in Host : ~Crash(h)
  PROVE  UNCHANGED crashes
<1>. USE DEF env
<1>1. CASE \/ Open \/ RecvOpen \/ DecideTooLate \/ ApproveOpen \/ RejectOpen
           \/ RecvOpenApproved \/ RecvOpenReject \/ RecvOpenExpired
  BY <1>1 DEF Open, RecvOpen, DecideTooLate, ApproveOpen, RejectOpen,
              RecvOpenApproved, RecvOpenReject, RecvOpenExpired
<1>2. ASSUME NEW h \in Host,
             \/ Pull(h) \/ EndPull(h) \/ ExpireSessions(h) \/ ReadStatus(h)
             \/ Turn(h) \/ RecvTurn(h) \/ DeadlinePasses(h) \/ OpenTtlPasses(h)
      PROVE  UNCHANGED crashes
  BY <1>2 DEF Pull, EndPull, ExpireSessions, ReadStatus, Turn, RecvTurn,
              DeadlinePasses, OpenTtlPasses
<1>3. ASSUME NEW h \in Host,
             \/ (\E x \in Hash : Sign(h, x)) \/ SignFinish(h) \/ RecvSigned(h)
             \/ Ratify(h) \/ RatifyFinish(h) \/ DeclineRatify(h) \/ RecvRatified(h)
      PROVE  UNCHANGED crashes
  BY <1>3 DEF Sign, SignFinish, RecvSigned, Ratify, RatifyFinish, DeclineRatify, RecvRatified
<1>4. ASSUME NEW h \in Host,
             CloseSend(h) \/ CloseMark(h) \/ RecvClose(h) \/ CloseFinish(h) \/ Revoke(h)
      PROVE  UNCHANGED crashes
  BY <1>4 DEF CloseSend, CloseMark, RecvClose, CloseFinish, Revoke
<1>. QED
  BY <1>1, <1>2, <1>3, <1>4, NextCases DEF EnvStep

(* Only the four handlers of a thread close move its progress.             *)
LEMMA ClosePart ==
  ASSUME TypeOK, Next, \A h \in Host : ~Crash(h), NEW g \in Host
  PROVE  \/ closedT'[g] = closedT[g] /\ closing'[g] = closing[g]
         \/ CloseSend(g) \/ CloseMark(g) \/ RecvClose(g) \/ CloseFinish(g)
<1>. USE DEF async
<1>1. ASSUME NEW h \in Host, CloseSend(h) \/ CloseMark(h) \/ RecvClose(h) \/ CloseFinish(h)
      PROVE  h = g \/ (closedT'[g] = closedT[g] /\ closing'[g] = closing[g])
  BY <1>1 DEF CloseSend, CloseMark, RecvClose, CloseFinish, TypeOK
<1>2. CASE \/ Open \/ RecvOpen \/ DecideTooLate \/ ApproveOpen \/ RejectOpen
           \/ RecvOpenApproved \/ RecvOpenReject \/ RecvOpenExpired
  BY <1>2 DEF Open, RecvOpen, DecideTooLate, ApproveOpen, RejectOpen,
              RecvOpenApproved, RecvOpenReject, RecvOpenExpired
<1>3. ASSUME NEW h \in Host,
             \/ Pull(h) \/ EndPull(h) \/ ExpireSessions(h) \/ ReadStatus(h)
             \/ Turn(h) \/ RecvTurn(h) \/ Revoke(h) \/ DeadlinePasses(h) \/ OpenTtlPasses(h)
      PROVE  UNCHANGED <<closedT, closing>>
  BY <1>3 DEF Pull, EndPull, ExpireSessions, ReadStatus, Turn, RecvTurn, Revoke,
              DeadlinePasses, OpenTtlPasses
<1>4. ASSUME NEW h \in Host,
             \/ (\E x \in Hash : Sign(h, x)) \/ SignFinish(h) \/ RecvSigned(h)
             \/ Ratify(h) \/ RatifyFinish(h) \/ DeclineRatify(h) \/ RecvRatified(h)
      PROVE  UNCHANGED <<closedT, closing>>
  BY <1>4 DEF Sign, SignFinish, RecvSigned, Ratify, RatifyFinish, DeclineRatify, RecvRatified
<1>. QED
  BY <1>1, <1>2, <1>3, <1>4, NextCases DEF EnvStep

(* Only the two opening handlers create a record.                          *)
LEMMA StaysAbsent ==
  ASSUME TypeOK, LifeInv, Next, ~Open, ~RecvOpen,
         NEW g \in Host, sess[g].status = "absent"
  PROVE  sess'[g].status = "absent"
<1>0. sess \in [Host -> Session]
  BY DEF TypeOK
<1>1. ASSUME NEW h \in Host, NEW t, Put(h, t), h = g => t = sess[g]
      PROVE  sess'[g].status = "absent"
  BY <1>0, <1>1 DEF Put
<1>2. ASSUME NEW h \in Host, h = g
      PROVE  Ensured(h) = sess[h] /\ ratifying[h] = NoRatifying /\ (h = Recipient => ~openPend)
  BY <1>2 DEF Ensured, LifeInv, SnapsLive, SnapInv, OpenGateIsForPending
<1>3. CASE DecideTooLate \/ ApproveOpen \/ RejectOpen
  <2>1. g # Recipient /\ \E t : Put(Recipient, t)
    BY <1>2, <1>3 DEF DecideTooLate, ApproveOpen, RejectOpen
  <2>. QED
    BY <1>1, <2>1
<1>4. CASE RecvOpenApproved \/ RecvOpenReject \/ RecvOpenExpired
  <2>1. PICK t : Put(Initiator, t) /\ (Initiator = g => t = sess[g])
    BY <1>2, <1>4 DEF RecvOpenApproved, RecvOpenReject, RecvOpenExpired
  <2>. QED
    BY <1>1, <2>1
<1>5. ASSUME NEW h \in Host,
             \/ Pull(h) \/ EndPull(h) \/ SignFinish(h) \/ DeclineRatify(h) \/ CloseSend(h)
             \/ CloseMark(h) \/ RecvClose(h) \/ EnvStep(h)
      PROVE  UNCHANGED sess
  BY <1>5 DEF Pull, EndPull, SignFinish, DeclineRatify, CloseSend, CloseMark, RecvClose,
              EnvStep, Crash, DeadlinePasses, OpenTtlPasses
<1>6. ASSUME NEW h \in Host, ExpireSessions(h) \/ ReadStatus(h) \/ Turn(h) \/ RecvTurn(h)
      PROVE  UNCHANGED sess \/ \E t : Put(h, t) /\ (h = g => t = sess[g])
  BY <1>2, <1>6 DEF ExpireSessions, ReadStatus, Turn, RecvTurn
<1>7. ASSUME NEW h \in Host, (\E x \in Hash : Sign(h, x)) \/ RecvSigned(h) \/ Ratify(h)
      PROVE  \E t : Put(h, t) /\ (h = g => t = sess[g])
  BY <1>2, <1>7 DEF Sign, RecvSigned, Ratify
<1>8. ASSUME NEW h \in Host, RatifyFinish(h) \/ RecvRatified(h)
      PROVE  \E t : Put(h, t) /\ (h = g => t = sess[g])
  BY <1>2, <1>8 DEF RatifyFinish, RecvRatified, Finalize
<1>9. ASSUME NEW h \in Host, CloseFinish(h) \/ Revoke(h)
      PROVE  \E t : Put(h, t) /\ (h = g => t = sess[g])
  BY <1>2, <1>9 DEF CloseFinish, Revoke
<1>. QED
  BY <1>1, <1>3, <1>4, <1>5, <1>6, <1>7, <1>8, <1>9, NextCases

LEMMA OpenThread ==
  ASSUME TypeOK, LifeInv, ThreadInv, Open
  PROVE  ThreadInv'
<1>. USE DEF async
<1>0. Moves /\ UNCHANGED <<batch, closedT, closing>>
  BY OpeningMoves DEF Open
<1>1. /\ box[Recipient] = <<>> /\ batch[Recipient] = <<>>
      /\ \A h \in Host : ~closedT[h]
  BY DEF Open, ThreadInv, Unopened
<1>2. sess'[Initiator].status = "pending"
  BY DEF Open, Put, TypeOK, Fresh, Absent
<1>3. box'[Recipient] = <<>> \/ \E m : box'[Recipient] = <<m>>
  <2>. DEFINE m == [type |-> "open", hash |-> NoHash]
  <2>1. box' = box \/ box' = [box EXCEPT ![Recipient] = Append(@, m)]
    BY DEF Open, Send, Peer
  <2>2. Append(<<>>, m) = <<m>>
    OBVIOUS
  <2>. QED
    BY <1>1, <2>1, <2>2 DEF TypeOK
<1>4. OpenLeads(box'[Recipient])
  <2>1. \A m : OpenLeads(<<m>>)
    BY DEF OpenLeads
  <2>. QED
    BY <1>3, <2>1, LeadsNone
<1>5. CloserHasRecord'
  BY <1>0 DEF ThreadInv, CloserHasRecord, Moves, RecordStep
<1>6. Unopened' /\ OpenIsFirst' /\ OpenIsRead'
  BY <1>0, <1>1, <1>2, <1>4 DEF Unopened, OpenIsFirst, OpenIsRead, ThreadInv
<1>7. ClosedUnopened' /\ ClosedThreadIsOver'
  BY <1>0, <1>1 DEF ClosedUnopened, ClosedThreadIsOver
<1>. QED
  BY <1>5, <1>6, <1>7 DEF ThreadInv

LEMMA LaterThread ==
  ASSUME TypeOK, LifeInv, ThreadInv, Next, ~Open, \A h \in Host : ~Crash(h)
  PROVE  ThreadInv'
<1>. DEFINE r == Recipient
<1>0. /\ Moves /\ InboxMoves
      /\ OpenIsFirst' /\ OpenIsRead'
      /\ NoOpen(batch[r]) /\ (NoOpen(box[r]) \/ got[r] > 0)
           => NoOpen(batch'[r]) /\ (NoOpen(box'[r]) \/ got'[r] > 0)
  BY StepMoves, StepInbox, StepOpenPlace DEF ThreadInv
<1>1. \A h \in Host : sess'[h].status = "absent" => sess[h].status = "absent"
  BY <1>0 DEF Moves, RecordStep
<1>2. Unopened'
  BY <1>1, IdleThread DEF ThreadInv, Unopened
<1>3. CloserHasRecord'
  <2>1. ASSUME NEW h \in Host, closing'[h] = "sent", closing[h] # "sent"
        PROVE  sess[h].status # "absent"
    <3>1. closing[h] \in Closing
      BY DEF TypeOK
    <3>2. CloseSend(h)
      BY <2>1, <3>1, ClosePart DEF CloseMark, RecvClose, CloseFinish, TypeOK
    <3>. QED
      BY <3>2 DEF CloseSend
  <2>. QED
    BY <1>1, <2>1 DEF ThreadInv, CloserHasRecord
<1>4. ASSUME NEW h \in Host, closedT'[h], ~closedT[h]
      PROVE  (CloseMark(h) \/ RecvClose(h)) /\ closing'[h] # "no"
  <2>1. CloseMark(h) \/ RecvClose(h)
    BY <1>4, ClosePart DEF CloseSend, CloseFinish
  <2>. QED
    BY <1>4, <2>1 DEF CloseMark, RecvClose, TypeOK
<1>5. ClosedUnopened'
  <2>. SUFFICES ASSUME closedT'[r], sess'[r].status = "absent"
                PROVE  NoOpen(batch'[r]) /\ (NoOpen(box'[r]) \/ got'[r] > 0)
    BY DEF ClosedUnopened
  <2>1. sess[r].status = "absent"
    BY <1>1
  <2>2. CASE closedT[r]
    BY <1>0, <2>1, <2>2 DEF ThreadInv, ClosedUnopened
  <2>3. CASE ~closedT[r]
    <3>1. ~CloseMark(r)
      BY <2>1 DEF CloseMark, ThreadInv, CloserHasRecord
    <3>2. RecvClose(r)
      BY <1>4, <2>3, <3>1
    <3>3. /\ batch[r] # <<>> /\ batch'[r] = Tail(batch[r])
          /\ box'[r] = box[r] /\ got'[r] = got[r]
      BY <3>2 DEF RecvClose, Take, TypeOK
    <3>4. batch[r] \in Seq(Message) /\ OpenLeads(batch[r])
      BY DEF TypeOK, ThreadInv, OpenIsFirst
    <3>5. NoOpen(batch'[r])
      BY <3>3, <3>4, LeadsTail
    <3>. QED
      BY <3>3, <3>5 DEF ThreadInv, OpenIsRead
  <2>. QED
    BY <2>2, <2>3
<1>6. ASSUME NEW h \in Host, closedT'[h], closing'[h] = "no"
      PROVE  sess'[h].status \in Terminal \cup {"absent"}
  <2>1. closedT[h]
    BY <1>4, <1>6
  <2>2. CASE CloseFinish(h)
    <3>. DEFINE s == Ensured(h)
                u == [s EXCEPT !.status = "closed", !.why = "thread_closed"]
    <3>1. u.status = "closed"
      BY EnsuredType DEF Session
    <3>2. \/ s.status \in Terminal \cup {"absent"} /\ sess' = [sess EXCEPT ![h] = s]
          \/ sess' = [sess EXCEPT ![h] = u]
      BY <2>2 DEF CloseFinish, Put
    <3>. HIDE DEF s, u
    <3>. QED
      BY <3>1, <3>2 DEF TypeOK, Terminal
  <2>3. CASE ~CloseFinish(h)
    <3>1. closing[h] = "no"
      BY <1>6, <2>1, <2>3, ClosePart DEF CloseSend, CloseMark, RecvClose, TypeOK
    <3>2. sess[h].status \in Terminal \cup {"absent"}
      BY <2>1, <3>1 DEF ThreadInv, ClosedThreadIsOver, TypeOK, Session, Status, Terminal
    <3>3. sess[h].status \in Terminal => sess'[h].status \in Terminal
      BY <1>0 DEF Moves, RecordStep
    <3>4. CASE sess[h].status = "absent"
      <4>1. ~RecvOpen \/ h # r
        <5>. SUFFICES ASSUME RecvOpen, h = r PROVE FALSE
          OBVIOUS
        <5>1. batch[r] \in Seq(Message) /\ batch[r] # <<>> /\ Head(batch[r]).type = "open"
          BY DEF RecvOpen, Take, TypeOK
        <5>2. NoOpen(batch[r])
          BY <2>1, <3>4 DEF ThreadInv, ClosedUnopened
        <5>3. Head(batch[r]) \in Later
          BY <5>1, <5>2 DEF NoOpen
        <5>. QED
          BY <5>1, <5>3 DEF Later
      <4>2. CASE ~RecvOpen
        BY <3>4, <4>2, StaysAbsent
      <4>3. CASE RecvOpen /\ h # r
        <5>1. \E t : sess' = [sess EXCEPT ![r] = t]
          BY <4>3 DEF RecvOpen, Put
        <5>2. sess'[h] = sess[h]
          BY <4>3, <5>1 DEF TypeOK
        <5>. QED
          BY <3>4, <5>2
      <4>. QED
        BY <4>1, <4>2, <4>3
    <3>. QED
      BY <3>2, <3>3, <3>4
  <2>. QED
    BY <2>2, <2>3
<1>7. ClosedThreadIsOver'
  BY <1>6 DEF ClosedThreadIsOver, Terminal
<1>. QED
  BY <1>0, <1>2, <1>3, <1>5, <1>7 DEF ThreadInv

LEMMA StepThread ==
  ASSUME TypeOK, LifeInv, crashes = 0 => ThreadInv, [Next]_vars
  PROVE  (crashes = 0 => ThreadInv)'
<1>. SUFFICES ASSUME crashes' = 0 PROVE ThreadInv'
  OBVIOUS
<1>1. CASE UNCHANGED vars
  BY <1>1 DEF vars, wire, async, env, ThreadInv, Unopened, OpenIsFirst, OpenIsRead,
     ClosedUnopened, CloserHasRecord, ClosedThreadIsOver
<1>2. CASE Next
  <2>1. ASSUME NEW h \in Host, Crash(h) PROVE FALSE
    BY <2>1 DEF Crash, TypeOK
  <2>2. crashes' = crashes
    BY <1>2, <2>1, CrashesKept
  <2>. QED
    BY <1>2, <2>1, <2>2, OpenThread, LaterThread
<1>. QED
  BY <1>1, <1>2

LEMMA InitThread == Init => ThreadInv
<1>. SUFFICES ASSUME Init PROVE ThreadInv
  OBVIOUS
<1>1. /\ \A h \in Host : /\ sess[h].status = "absent" /\ ~closedT[h]
                         /\ box[h] = <<>> /\ batch[h] = <<>> /\ closing[h] = "no"
  BY DEF Init, Absent
<1>. QED
  BY <1>1, LeadsNone DEF ThreadInv, Unopened, OpenIsFirst, OpenIsRead, ClosedUnopened,
     CloserHasRecord, ClosedThreadIsOver

(* A core.close ends the session in any state: unless the host restarted,  *)
(* no session is left open on a thread that is marked closed.  A restart   *)
(* between the mark and the end of the session does leave one.             *)
THEOREM CloseSafety == Spec => [](crashes = 0 => ClosedThreadIsOver)
<1>1. Init => (crashes = 0 => ThreadInv)
  BY InitThread
<1>2. TypeOK /\ LifeInv /\ (crashes = 0 => ThreadInv) /\ [Next]_vars
        => (crashes = 0 => ThreadInv)'
  BY StepThread
<1>3. (crashes = 0 => ThreadInv) => (crashes = 0 => ClosedThreadIsOver)
  BY DEF ThreadInv
<1>. QED
  BY <1>1, <1>2, <1>3, LifeInvariant, PTL DEF Spec
=============================================================================
