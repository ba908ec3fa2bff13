------------------------ MODULE EnvelopeStreamProofs ------------------------
(***************************************************************************)
(* Theorems about EnvelopeStream, for any peers, any number of envelopes   *)
(* and disturbances: the types, that no envelope is accepted twice, and,   *)
(* as long as the relay gives no row number twice, that the cursor hides   *)
(* no mail of a bonded peer, and that of a peer without trouble nothing is *)
(* refused as stale which was not accepted before.                         *)
(***************************************************************************)
EXTENDS EnvelopeStream, FiniteSetTheorems, TLAPS

-----------------------------------------------------------------------------
(* Types                                                                   *)

Pull == [pc : {"idle", "asked", "loop", "fetch", "handle", "flush"}, since : Nat,
         history : BOOLEAN, peers : SUBSET Peer, todo : SUBSET Row, upto : Nat]
Revoke == [pc : {"idle", "ask", "purge", "push"}, peer : SUBSET Peer, tries : 0 .. 2]

(* What peers have sent is numbered from 1, by them and by the model, and  *)
(* a peer has recorded no number larger than it has sent envelopes.        *)
Sent(p) == {e \in posted : e.from = p}

SendInv ==
  /\ IsFiniteSet(posted)
  /\ \A e \in posted : e.seq <= e.n /\ e.n <= Cardinality(Sent(e.from))
  /\ \A p \in Peer : high[p] <= Cardinality(Sent(p))
  /\ \A p \in Peer : flight[p] \subseteq Sent(p)

(* Only wires that were sent are stored, and taken up.                     *)
MailInv == \A r \in inbox \cup pull.todo : r.env \in posted

TypeInv == TypeOK /\ SendInv /\ MailInv

LEMMA KeptFacts ==
  ASSUME NEW gc \in BOOLEAN
  PROVE  Kept(gc) \subseteq inbox
BY DEF Kept

LEMMA DisturbType ==
  ASSUME TypeInv, NEW what, Disturbs(what)
  PROVE  troubles' \in 0 .. MaxTroubles
BY BoundsAssumption DEF TypeInv, TypeOK, Disturbs

LEMMA PostInboxType ==
  ASSUME TypeInv, NEW e \in posted, PostInbox(e)
  PROVE  /\ inbox' \subseteq Row /\ (\A r \in inbox' : r.env \in posted)
         /\ due' \subseteq posted /\ top' \in Nat /\ reused' \in BOOLEAN
<1>0. /\ inbox \subseteq Row /\ e \in Envelope /\ top \in Nat
      /\ \A r \in inbox : r.env \in posted
  BY DEF TypeInv, TypeOK, MailInv
<1>1. PICK gc \in BOOLEAN :
        IF e.from \in admitted /\ \A r \in Kept(gc) : r.env # e
          THEN \E i \in NextRow(Kept(gc)) :
                 /\ inbox' = Kept(gc) \cup {[row |-> i, env |-> e]}
                 /\ due' = IF e.from \in bonds /\ (pull.pc = "asked" => e.from \in pull.peers)
                             THEN due \cup {e} ELSE due
                 /\ top' = IF i > top THEN i ELSE top
                 /\ reused' = (reused \/ i <= top)
          ELSE inbox' = Kept(gc) /\ UNCHANGED <<due, top, reused>>
  BY DEF PostInbox
<1>2. CASE inbox' = Kept(gc) /\ UNCHANGED <<due, top, reused>>
  BY <1>0, <1>2, KeptFacts DEF TypeInv, TypeOK
<1>3. ASSUME NEW i \in NextRow(Kept(gc)),
             /\ inbox' = Kept(gc) \cup {[row |-> i, env |-> e]}
             /\ due' = IF e.from \in bonds /\ (pull.pc = "asked" => e.from \in pull.peers)
                         THEN due \cup {e} ELSE due
             /\ top' = IF i > top THEN i ELSE top
             /\ reused' = (reused \/ i <= top)
      PROVE  /\ inbox' \subseteq Row /\ (\A r \in inbox' : r.env \in posted)
             /\ due' \subseteq posted /\ top' \in Nat /\ reused' \in BOOLEAN
  <2>1. i \in Nat \ {0}
    BY <1>0 DEF NextRow
  <2>2. [row |-> i, env |-> e] \in Row
    BY <1>0, <2>1 DEF Row
  <2>. QED
    BY <1>0, <1>3, <2>1, <2>2, KeptFacts DEF TypeInv, TypeOK
<1>. QED
  BY <1>1, <1>2, <1>3

LEMMA SendStartType ==
  ASSUME TypeInv, NEW p \in Peer, SendStart(p)
  PROVE  TypeInv'
<1>. DEFINE n == Cardinality(Sent(p)) + 1
            e == [from |-> p, n |-> n, seq |-> high[p] + 1]
<1>1. /\ n <= MaxSends /\ flight' = [flight EXCEPT ![p] = @ \cup {e}] /\ posted' = posted \cup {e}
      /\ UNCHANGED <<high, relay, reader, troubles, due, top, reused, readerHistory>>
      /\ blemished' \in {blemished, blemished \cup {p}}
  BY DEF SendStart, Sent
<1>2. \A q \in Peer : IsFiniteSet(Sent(q)) /\ Cardinality(Sent(q)) \in Nat
  BY FS_Subset, FS_CardinalityType DEF TypeInv, SendInv, Sent
<1>3. high[p] \in 0 .. MaxSends /\ high[p] <= Cardinality(Sent(p)) /\ MaxSends \in Nat
  BY BoundsAssumption DEF TypeInv, TypeOK, SendInv
<1>4. n \in 1 .. MaxSends /\ high[p] + 1 \in 1 .. MaxSends /\ high[p] + 1 <= n
  BY <1>1, <1>2, <1>3
<1>5. e \in Envelope
  BY <1>4 DEF Envelope
<1>6. e \notin posted
  <2>. SUFFICES ASSUME e \in posted PROVE FALSE
    OBVIOUS
  <2>1. e.n <= Cardinality(Sent(e.from)) /\ e.n = n /\ e.from = p
    BY DEF TypeInv, SendInv
  <2>. QED
    BY <1>2, <2>1
<1>7. /\ Sent(p)' = Sent(p) \cup {e} /\ e \notin Sent(p)
      /\ \A q \in Peer \ {p} : Sent(q)' = Sent(q)
  BY <1>1, <1>6 DEF Sent
<1>. HIDE DEF e
<1>8. Cardinality(Sent(p)') = n
  <2>1. IsFiniteSet(Sent(p)) /\ e \notin Sent(p)
    BY <1>2, <1>7
  <2>2. Cardinality(Sent(p) \cup {e}) = Cardinality(Sent(p)) + 1
    BY <2>1, FS_AddElement
  <2>. QED
    BY <1>7, <2>2
<1>9. e.from = p /\ e.n = n /\ e.seq = high[p] + 1
  BY DEF e
<1>. HIDE DEF n
<1>10. TypeOK'
  BY <1>1, <1>5 DEF TypeInv, TypeOK, relay, reader, readerHistory
<1>11. SendInv'
  <2>1. IsFiniteSet(posted')
    BY <1>1, FS_AddElement DEF TypeInv, SendInv
  <2>2. \A q \in Peer : Cardinality(Sent(q)) <= Cardinality(Sent(q)') /\ Cardinality(Sent(q)') \in Nat
    BY <1>2, <1>4, <1>7, <1>8 DEF n
  <2>3. posted \subseteq Envelope /\ high \in [Peer -> 0 .. MaxSends]
    BY DEF TypeInv, TypeOK
  <2>4. \A d \in posted' : d.seq <= d.n /\ d.n <= Cardinality(Sent(d.from)')
    <3>1. ASSUME NEW d \in posted PROVE d.seq <= d.n /\ d.n <= Cardinality(Sent(d.from)')
      <4>1. d.n \in Nat /\ d.from \in Peer
        BY <2>3 DEF Envelope
      <4>2. d.seq <= d.n /\ d.n <= Cardinality(Sent(d.from))
        BY DEF TypeInv, SendInv
      <4>. QED
        BY <1>2, <2>2, <4>1, <4>2
    <3>. QED
      BY <1>1, <1>4, <1>8, <1>9, <3>1
  <2>5. \A q \in Peer : high'[q] <= Cardinality(Sent(q)')
    <3>. SUFFICES ASSUME NEW q \in Peer PROVE high'[q] <= Cardinality(Sent(q)')
      OBVIOUS
    <3>1. high[q] \in Nat /\ high[q] <= Cardinality(Sent(q)) /\ high' = high
      BY <1>1, <2>3 DEF TypeInv, SendInv
    <3>. QED
      BY <1>2, <2>2, <3>1
  <2>6. \A q \in Peer : flight'[q] \subseteq Sent(q)'
    BY <1>1, <1>7 DEF TypeInv, TypeOK, SendInv
  <2>. QED
    BY <2>1, <2>4, <2>5, <2>6 DEF SendInv
<1>12. MailInv'
  BY <1>1 DEF TypeInv, MailInv, relay, reader
<1>. QED
  BY <1>10, <1>11, <1>12 DEF TypeInv

(* Once sent, envelopes stay sent; numbers are recorded as they arrive.    *)
LEMMA SendInvStays ==
  ASSUME TypeInv, posted' = posted,
         \A p \in Peer : flight'[p] \subseteq flight[p],
         \A p \in Peer : high'[p] <= high[p] \/ \E e \in Sent(p) : high'[p] = e.seq,
         high' \in [Peer -> 0 .. MaxSends]
  PROVE  SendInv'
<1>1. \A p \in Peer : Sent(p)' = Sent(p) /\ Cardinality(Sent(p)) \in Nat
  BY FS_Subset, FS_CardinalityType DEF TypeInv, SendInv, Sent
<1>2. \A p \in Peer : high'[p] <= Cardinality(Sent(p))
  <2>. SUFFICES ASSUME NEW p \in Peer PROVE high'[p] <= Cardinality(Sent(p))
    OBVIOUS
  <2>1. high[p] \in Nat /\ high'[p] \in Nat /\ high[p] <= Cardinality(Sent(p)) /\ Cardinality(Sent(p)) \in Nat
    BY <1>1, BoundsAssumption DEF TypeInv, TypeOK, SendInv
  <2>2. CASE high'[p] <= high[p]
    BY <2>1, <2>2
  <2>3. ASSUME NEW e \in Sent(p), high'[p] = e.seq PROVE high'[p] <= Cardinality(Sent(p))
    <3>1. e \in posted /\ e.from = p /\ e \in Envelope
      BY DEF Sent, TypeInv, TypeOK
    <3>2. e.seq <= e.n /\ e.n <= Cardinality(Sent(p)) /\ e.n \in Nat /\ e.seq \in Nat
      BY <3>1 DEF TypeInv, SendInv, Envelope
    <3>. QED
      BY <2>1, <2>3, <3>2
  <2>. QED
    BY <2>2, <2>3
<1>3. \A e \in posted : e.from \in Peer
  BY DEF TypeInv, TypeOK, Envelope
<1>. QED
  BY <1>1, <1>2, <1>3 DEF TypeInv, SendInv

LEMMA SendEndType ==
  ASSUME TypeInv, NEW p \in Peer, NEW e \in flight[p], SendOk(p, e) \/ SendRefused(p, e) \/ SendFails(p, e)
  PROVE  TypeInv'
<1>1. e \in posted /\ e \in Sent(p) /\ e \in Envelope
  BY DEF TypeInv, TypeOK, SendInv, Sent
<1>2. UNCHANGED <<challenge, admitted, expired, reader, posted, readerHistory>> /\ Landed(p, e)
  BY DEF SendOk, SendRefused, SendFails
<1>3. PostInbox(e) \/ UNCHANGED <<inbox, due, top, reused>>
  BY DEF SendOk, SendRefused, SendFails
<1>4. /\ inbox' \subseteq Row /\ (\A r \in inbox' : r.env \in posted)
      /\ due' \subseteq posted /\ top' \in Nat /\ reused' \in BOOLEAN
  <2>1. CASE PostInbox(e)
    BY <1>1, <2>1, PostInboxType
  <2>2. CASE UNCHANGED <<inbox, due, top, reused>>
    BY <2>2 DEF TypeInv, TypeOK, MailInv
  <2>. QED
    BY <1>3, <2>1, <2>2
<1>5. high' = high \/ high' = [high EXCEPT ![p] = IF e.seq > @ THEN e.seq ELSE @]
  BY DEF SendOk, SendRefused, SendFails
<1>6. high' \in [Peer -> 0 .. MaxSends]
  BY <1>1, <1>5, BoundsAssumption DEF TypeInv, TypeOK, Envelope
<1>7. flight' \in [Peer -> SUBSET Envelope] /\ \A q \in Peer : flight'[q] \subseteq flight[q]
  BY <1>2 DEF Landed, TypeInv, TypeOK
<1>8. SendInv'
  <2>1. \A q \in Peer : high'[q] <= high[q] \/ \E d \in Sent(q) : high'[q] = d.seq
    BY <1>1, <1>5, BoundsAssumption DEF TypeInv, TypeOK
  <2>. QED
    BY <1>2, <1>6, <1>7, <2>1, SendInvStays
<1>9. troubles' \in 0 .. MaxTroubles /\ blemished' \subseteq Peer
  <2>1. troubles' = troubles \/ Disturbs("fault")
    BY DEF SendOk, SendRefused, SendFails
  <2>2. blemished' \in {blemished, blemished \cup {p}}
    BY DEF SendOk, SendRefused, SendFails
  <2>. QED
    BY <2>1, <2>2, DisturbType DEF TypeInv, TypeOK
<1>10. TypeOK'
  BY <1>2, <1>4, <1>6, <1>7, <1>9 DEF TypeInv, TypeOK, reader, readerHistory
<1>11. MailInv'
  BY <1>2, <1>4 DEF TypeInv, MailInv, reader
<1>. QED
  BY <1>8, <1>10, <1>11 DEF TypeInv

LEMMA SendingType ==
  ASSUME TypeInv, Sending
  PROVE  TypeInv'
<1>0. \A p \in Peer : high[p] <= high[p]
  BY BoundsAssumption DEF TypeInv, TypeOK
<1>00. ASSUME UNCHANGED <<posted, flight, high>> PROVE SendInv'
  BY <1>0, <1>00, SendInvStays DEF TypeInv, TypeOK
<1>1. ASSUME NEW p \in Peer, SenderCrash(p) PROVE TypeInv'
  <2>1. high' \in [Peer -> 0 .. MaxSends] /\ (\A q \in Peer : high'[q] <= high[q])
        /\ flight' \in [Peer -> SUBSET Envelope] /\ \A q \in Peer : flight'[q] \subseteq flight[q]
    BY <1>1, BoundsAssumption DEF SenderCrash, TypeInv, TypeOK
  <2>2. SendInv'
    BY <1>1, <2>1, SendInvStays DEF SenderCrash, relayHistory
  <2>3. TypeOK'
    BY <1>1, <2>1, DisturbType
       DEF SenderCrash, TypeInv, TypeOK, relay, reader, relayHistory, readerHistory
  <2>4. MailInv'
    BY <1>1 DEF SenderCrash, TypeInv, MailInv, relay, reader, relayHistory
  <2>. QED
    BY <2>2, <2>3, <2>4 DEF TypeInv
<1>2. ASSUME NEW e \in posted, Repost(e) PROVE TypeInv'
  <2>1. /\ inbox' \subseteq Row /\ (\A r \in inbox' : r.env \in posted)
        /\ due' \subseteq posted /\ top' \in Nat /\ reused' \in BOOLEAN
    BY <1>2, PostInboxType DEF Repost
  <2>2. SendInv'
    BY <1>2, <1>00 DEF Repost
  <2>3. TypeOK'
    BY <1>2, <2>1, DisturbType DEF Repost, TypeInv, TypeOK, reader, readerHistory
  <2>4. MailInv'
    BY <1>2, <2>1 DEF Repost, TypeInv, MailInv, reader
  <2>. QED
    BY <2>2, <2>3, <2>4 DEF TypeInv
<1>3. ASSUME NEW e \in posted, Expire(e) PROVE TypeInv'
  <2>1. SendInv'
    BY <1>3, <1>00 DEF Expire, relayHistory
  <2>2. TypeOK'
    BY <1>3, DisturbType DEF Expire, TypeInv, TypeOK, reader, relayHistory, readerHistory
  <2>3. MailInv'
    BY <1>3 DEF Expire, TypeInv, MailInv, reader, relayHistory
  <2>. QED
    BY <2>1, <2>2, <2>3 DEF TypeInv
<1>4. CASE ChallengeExpires
  <2>1. SendInv'
    BY <1>4, <1>00 DEF ChallengeExpires, relayHistory
  <2>2. TypeOK'
    BY <1>4, DisturbType DEF ChallengeExpires, TypeInv, TypeOK, reader, relayHistory, readerHistory
  <2>3. MailInv'
    BY <1>4 DEF ChallengeExpires, TypeInv, MailInv, reader, relayHistory
  <2>. QED
    BY <2>1, <2>2, <2>3 DEF TypeInv
<1>. QED
  BY <1>1, <1>2, <1>3, <1>4, SendStartType, SendEndType DEF Sending

LEMMA PullType ==
  ASSUME NEW x \in Pull, NEW pc \in {"idle", "asked", "loop", "fetch", "handle", "flush"},
         NEW todo \in SUBSET Row, NEW upto \in Nat
  PROVE  /\ [x EXCEPT !.pc = pc] \in Pull
         /\ [x EXCEPT !.pc = pc, !.todo = todo] \in Pull
         /\ [x EXCEPT !.pc = pc, !.todo = todo, !.upto = upto] \in Pull
         /\ [x EXCEPT !.pc = pc].todo = x.todo
         /\ [x EXCEPT !.pc = pc, !.todo = todo].todo = todo
         /\ [x EXCEPT !.pc = pc, !.todo = todo, !.upto = upto].todo = todo
         /\ NoPull \in Pull /\ NoPull.todo = {}
BY DEF Pull, NoPull

LEMMA IssueType ==
  ASSUME TypeInv, NEW who \in {"pull", "purge"}, IssueChallenge(who)
  PROVE  inbox' \subseteq inbox /\ challenge' \in {"none", "pull", "purge"}
BY KeptFacts DEF IssueChallenge

(* A row is done with.                                                     *)
LEMMA AnsweredType ==
  ASSUME TypeInv, NEW r \in pull.todo, Answered(r)
  PROVE  pull' \in Pull /\ pull'.todo \subseteq pull.todo /\ examined' \subseteq posted
<1>1. pull \in Pull /\ pull.todo \subseteq Row
  BY DEF TypeInv, TypeOK, Pull
<1>2. pull' = [pull EXCEPT !.pc = "loop", !.todo = pull.todo \ {r}]
  BY DEF Answered
<1>3. pull.todo \ {r} \in SUBSET Row
  BY <1>1
<1>4. pull' \in Pull /\ pull'.todo = pull.todo \ {r}
  BY <1>1, <1>2, <1>3 DEF Pull
<1>. QED
  BY <1>4 DEF Answered, TypeInv, TypeOK, MailInv

LEMMA PullStartType ==
  ASSUME TypeInv, NEW since \in Since, NEW history \in BOOLEAN, PullStart(since, history)
  PROVE  TypeInv'
<1>1. since \in Nat
  BY DEF Since, Row, TypeInv, TypeOK
<1>2. AllowedPeers \in SUBSET Peer
  BY DEF AllowedPeers, TypeInv, TypeOK
<1>3. pull' \in Pull /\ pull'.todo = {}
  BY <1>1, <1>2 DEF PullStart, NoPull, Pull
<1>4. inbox' \subseteq inbox /\ challenge' \in {"none", "pull", "purge"}
  BY IssueType DEF PullStart
<1>5. SendInv'
  <2>1. \A p \in Peer : high[p] <= high[p]
    BY BoundsAssumption DEF TypeInv, TypeOK
  <2>. QED
    BY <2>1, SendInvStays DEF PullStart, relayHistory, TypeInv, TypeOK
<1>6. TypeOK'
  BY <1>3, <1>4 DEF PullStart, relayHistory, readerHistory, TypeInv, TypeOK, Pull
<1>7. MailInv'
  BY <1>3, <1>4 DEF PullStart, relayHistory, TypeInv, MailInv
<1>. QED
  BY <1>5, <1>6, <1>7 DEF TypeInv

LEMMA PullAnsweredType ==
  ASSUME TypeInv, PullAnswered
  PROVE  TypeInv'
<1>1. PICK gc \in BOOLEAN : inbox' = Kept(gc) /\ Loads({r \in Kept(gc) : r.row > pull.since})
  BY DEF PullAnswered
<1>. DEFINE rows == {r \in Kept(gc) : r.row > pull.since}
<1>2. rows \subseteq inbox /\ inbox' \subseteq inbox /\ inbox \subseteq Row
  BY <1>1, KeptFacts DEF TypeInv, TypeOK
<1>3. PICK last \in {pull.since} \cup RowsOf(rows) :
        pull' = [pull EXCEPT !.pc = "loop", !.todo = {r \in rows : Visible(r)}, !.upto = last]
  BY <1>1 DEF Loads
<1>4. last \in Nat /\ pull \in Pull
  BY <1>2 DEF RowsOf, Row, TypeInv, TypeOK, Pull
<1>5. {r \in rows : Visible(r)} \in SUBSET Row /\ {r \in rows : Visible(r)} \subseteq inbox
  BY <1>2
<1>. DEFINE todo == {r \in rows : Visible(r)}
<1>6. pull' \in Pull /\ pull'.todo \subseteq inbox
  <2>1. todo \in SUBSET Row /\ todo \subseteq inbox
    BY <1>5
  <2>2. pull' = [pull EXCEPT !.pc = "loop", !.todo = todo, !.upto = last]
    BY <1>3
  <2>. HIDE DEF todo
  <2>3. pull' \in Pull /\ pull'.todo = todo
    BY <1>4, <2>1, <2>2 DEF Pull
  <2>. QED
    BY <2>1, <2>3
<1>7. SendInv'
  <2>1. \A p \in Peer : high[p] <= high[p]
    BY BoundsAssumption DEF TypeInv, TypeOK
  <2>. QED
    BY <2>1, SendInvStays DEF PullAnswered, relayHistory, TypeInv, TypeOK
<1>8. TypeOK'
  BY <1>2, <1>6 DEF PullAnswered, relayHistory, readerHistory, TypeInv, TypeOK, Pull
<1>9. MailInv'
  BY <1>2, <1>6 DEF PullAnswered, relayHistory, TypeInv, MailInv
<1>. QED
  BY <1>7, <1>8, <1>9 DEF TypeInv

LEMMA AnsweringType ==
  ASSUME TypeInv, NEW r \in pull.todo, Answering(r)
  PROVE  TypeInv'
<1>0. /\ pull \in Pull /\ r \in Row /\ r.env \in posted /\ r.env \in Envelope /\ r.env.from \in Peer
      /\ r.env.seq \in 0 .. MaxSends
  BY BoundsAssumption DEF TypeInv, TypeOK, Pull, MailInv, Row, Envelope
<1>1. SendInv'
  <2>1. \A p \in Peer : high[p] <= high[p]
    BY BoundsAssumption DEF TypeInv, TypeOK
  <2>2. UNCHANGED <<posted, high, flight>>
    BY DEF Answering, Take, FetchFails, Accept, Handle, HandleFails, relayHistory
  <2>. QED
    BY <2>1, <2>2, SendInvStays DEF TypeInv, TypeOK
<1>2. pull' \in Pull /\ pull'.todo \subseteq pull.todo /\ examined' \subseteq posted
  <2>1. CASE Answered(r)
    BY <2>1, AnsweredType
  <2>2. ASSUME NEW pc \in {"fetch", "handle"}, pull' = [pull EXCEPT !.pc = pc], UNCHANGED examined
        PROVE  pull' \in Pull /\ pull'.todo \subseteq pull.todo /\ examined' \subseteq posted
    BY <1>0, <2>2, PullType DEF TypeInv, TypeOK
  <2>3. Answered(r) \/ \E pc \in {"fetch", "handle"} : pull' = [pull EXCEPT !.pc = pc] /\ UNCHANGED examined
    BY DEF Answering, Take, FetchFails, Accept, Handle, HandleFails
  <2>. QED
    BY <2>1, <2>2, <2>3
<1>3. /\ accepted' \subseteq posted /\ kept' \subseteq accepted' /\ seen' \subseteq posted
      /\ stale' \subseteq posted /\ retryable' \subseteq posted /\ blemished' \subseteq Peer
      /\ mark' \in [Peer -> 0 .. MaxSends] /\ troubles' \in 0 .. MaxTroubles
  <2>1. CASE Take(r)
    BY <1>0, <2>1 DEF Take, TypeInv, TypeOK
  <2>2. CASE FetchFails(r)
    BY <1>0, <2>2, DisturbType DEF FetchFails, TypeInv, TypeOK
  <2>3. CASE Accept(r)
    BY <1>0, <2>3 DEF Accept, TypeInv, TypeOK
  <2>4. CASE Handle(r)
    BY <1>0, <2>4 DEF Handle, TypeInv, TypeOK
  <2>5. CASE HandleFails(r)
    BY <2>5, DisturbType DEF HandleFails, TypeInv, TypeOK
  <2>. QED
    BY <2>1, <2>2, <2>3, <2>4, <2>5 DEF Answering
<1>4. /\ UNCHANGED <<high, flight, relay, bonds, allow, cursor, saved, revoking, relayHistory>>
  BY DEF Answering, Take, FetchFails, Accept, Handle, HandleFails
<1>5. TypeOK'
  BY <1>2, <1>3, <1>4 DEF relay, relayHistory, TypeInv, TypeOK, Pull
<1>6. MailInv'
  BY <1>2, <1>4 DEF relay, relayHistory, TypeInv, MailInv
<1>. QED
  BY <1>1, <1>5, <1>6 DEF TypeInv

LEMMA PullingType ==
  ASSUME TypeInv, Pulling
  PROVE  TypeInv'
<1>0. pull \in Pull /\ pull.todo \in SUBSET Row /\ NoPull \in Pull /\ NoPull.todo = {}
  BY DEF NoPull, Pull, TypeInv, TypeOK
<1>00. ASSUME UNCHANGED <<posted, flight, high>> PROVE SendInv'
  <2>1. \A p \in Peer : high[p] <= high[p]
    BY BoundsAssumption DEF TypeInv, TypeOK
  <2>. QED
    BY <1>00, <2>1, SendInvStays DEF TypeInv, TypeOK
<1>1. CASE PullRefused
  <2>1. SendInv'
    BY <1>1, <1>00 DEF PullRefused, relayHistory
  <2>2. TypeOK'
    BY <1>0, <1>1 DEF PullRefused, relay, relayHistory, readerHistory, TypeInv, TypeOK, Pull
  <2>3. MailInv'
    BY <1>0, <1>1 DEF PullRefused, relay, relayHistory, TypeInv, MailInv
  <2>. QED
    BY <2>1, <2>2, <2>3 DEF TypeInv
<1>2. CASE PullFails
  <2>1. SendInv'
    BY <1>2, <1>00 DEF PullFails, relayHistory
  <2>2. TypeOK'
    BY <1>0, <1>2, DisturbType DEF PullFails, relayHistory, readerHistory, TypeInv, TypeOK, Pull
  <2>3. MailInv'
    BY <1>0, <1>2 DEF PullFails, relayHistory, TypeInv, MailInv
  <2>. QED
    BY <2>1, <2>2, <2>3 DEF TypeInv
<1>3. CASE SaveCursor
  <2>1. SendInv'
    BY <1>3, <1>00 DEF SaveCursor, relayHistory
  <2>2. pull' \in Pull /\ pull'.todo = pull.todo /\ pull.upto \in Nat
    BY <1>0, <1>3 DEF SaveCursor, Pull
  <2>3. TypeOK'
    BY <1>3, <2>2 DEF SaveCursor, relay, relayHistory, readerHistory, TypeInv, TypeOK, Pull
  <2>4. MailInv'
    BY <1>3, <2>2 DEF SaveCursor, relay, relayHistory, TypeInv, MailInv
  <2>. QED
    BY <2>1, <2>3, <2>4 DEF TypeInv
<1>4. CASE PullEnds
  <2>1. SendInv'
    BY <1>4, <1>00 DEF PullEnds, relayHistory
  <2>2. TypeOK'
    BY <1>0, <1>4 DEF PullEnds, relay, relayHistory, readerHistory, TypeInv, TypeOK, Pull
  <2>3. MailInv'
    BY <1>0, <1>4 DEF PullEnds, relay, relayHistory, TypeInv, MailInv
  <2>. QED
    BY <2>1, <2>2, <2>3 DEF TypeInv
<1>5. CASE SaveMarks
  <2>1. SendInv'
    BY <1>5, <1>00 DEF SaveMarks, relayHistory
  <2>2. TypeOK'
    BY <1>5 DEF SaveMarks, relay, relayHistory, readerHistory, TypeInv, TypeOK
  <2>3. MailInv'
    BY <1>5 DEF SaveMarks, relay, relayHistory, TypeInv, MailInv
  <2>. QED
    BY <2>1, <2>2, <2>3 DEF TypeInv
<1>6. CASE ReaderCrash
  <2>1. SendInv'
    BY <1>6, <1>00 DEF ReaderCrash, relayHistory
  <2>2. NoRevoke \in Revoke
    BY DEF NoRevoke, Revoke
  <2>3. TypeOK'
    BY <1>0, <1>6, <2>2, DisturbType
       DEF ReaderCrash, relay, relayHistory, TypeInv, TypeOK, Pull, Revoke
  <2>4. MailInv'
    BY <1>0, <1>6 DEF ReaderCrash, relay, relayHistory, TypeInv, MailInv
  <2>. QED
    BY <2>1, <2>3, <2>4 DEF TypeInv
<1>. QED
  BY <1>1, <1>2, <1>3, <1>4, <1>5, <1>6, PullStartType, PullAnsweredType, AnsweringType DEF Pulling

(* A purge that is to be asked for was tried at most once.                 *)
AskInv == revoking.pc = "ask" => revoking.tries <= 1

LEMMA RevokingType ==
  ASSUME TypeInv, AskInv, Revoking
  PROVE  TypeInv'
<1>0. revoking \in Revoke /\ NoRevoke \in Revoke /\ revoking.tries \in 0 .. 2 /\ revoking.peer \in SUBSET Peer
  BY DEF NoRevoke, Revoke, TypeInv, TypeOK
<1>1. SendInv'
  <2>1. \A p \in Peer : high[p] <= high[p]
    BY BoundsAssumption DEF TypeInv, TypeOK
  <2>2. UNCHANGED <<posted, flight, high>>
    BY DEF Revoking, Bond, RevokeStart, PurgeAsk, Purge, PurgeRefused, PushAllowlist, RevokeFails, relayHistory
  <2>. QED
    BY <2>1, <2>2, SendInvStays DEF TypeInv, TypeOK
<1>2. inbox' \subseteq inbox /\ challenge' \in {"none", "pull", "purge"} /\ pull' = pull
  <2>1. CASE PurgeAsk
    BY <2>1, IssueType DEF PurgeAsk
  <2>2. CASE Purge
    BY <2>2, KeptFacts DEF Purge
  <2>3. CASE UNCHANGED <<inbox, challenge, pull>>
    BY <2>3 DEF TypeInv, TypeOK
  <2>. QED
    BY <2>1, <2>2, <2>3 DEF Revoking, Bond, RevokeStart, PurgeRefused, PushAllowlist, RevokeFails, relay
<1>3. revoking' \in Revoke
  <2>1. ASSUME NEW p \in Peer, RevokeStart(p) PROVE revoking' \in Revoke
    BY <2>1 DEF RevokeStart, Revoke
  <2>2. CASE PurgeAsk
    <3>1. revoking.tries + 1 \in 0 .. 2
      BY <1>0, <2>2 DEF PurgeAsk, AskInv
    <3>. QED
      BY <1>0, <2>2, <3>1 DEF PurgeAsk, Revoke
  <2>3. CASE Purge \/ PurgeRefused
    BY <1>0, <2>3 DEF Purge, PurgeRefused, Revoke
  <2>4. CASE PushAllowlist \/ RevokeFails
    BY <1>0, <2>4 DEF PushAllowlist, RevokeFails
  <2>5. ASSUME NEW p \in Peer, Bond(p) PROVE revoking' \in Revoke
    BY <1>0, <2>5 DEF Bond
  <2>. QED
    BY <2>1, <2>2, <2>3, <2>4, <2>5 DEF Revoking
<1>4. bonds' \subseteq Peer /\ allow' \subseteq Peer /\ admitted' \subseteq Peer
  BY DEF Revoking, Bond, RevokeStart, PurgeAsk, Purge, PurgeRefused, PushAllowlist, RevokeFails,
         relay, TypeInv, TypeOK
<1>5. troubles' \in 0 .. MaxTroubles
  <2>1. UNCHANGED troubles \/ Disturbs("revoke") \/ Disturbs("fault")
    BY DEF Revoking, Bond, RevokeStart, PurgeAsk, Purge, PurgeRefused, PushAllowlist, RevokeFails
  <2>. QED
    BY <2>1, DisturbType DEF TypeInv, TypeOK
<1>6. UNCHANGED <<high, flight, expired, cursor, mark, saved, seen, relayHistory, readerHistory, blemished>>
  BY DEF Revoking, Bond, RevokeStart, PurgeAsk, Purge, PurgeRefused, PushAllowlist, RevokeFails, relay
<1>7. TypeOK'
  BY <1>2, <1>3, <1>4, <1>5, <1>6 DEF relayHistory, readerHistory, TypeInv, TypeOK, Revoke
<1>8. MailInv'
  BY <1>2, <1>6 DEF relayHistory, TypeInv, MailInv
<1>. QED
  BY <1>1, <1>7, <1>8 DEF TypeInv

LEMMA AskStep ==
  ASSUME TypeInv, AskInv, [Next]_vars
  PROVE  AskInv'
<1>0. revoking \in Revoke /\ revoking.tries \in 0 .. 2
  BY DEF Revoke, TypeInv, TypeOK
<1>1. CASE UNCHANGED revoking
  BY <1>1 DEF AskInv
<1>2. ASSUME NEW p \in Peer, RevokeStart(p) PROVE AskInv'
  BY <1>2 DEF RevokeStart, AskInv
<1>3. CASE PurgeAsk \/ Purge
  BY <1>0, <1>3 DEF PurgeAsk, Purge, AskInv, Revoke
<1>4. CASE PurgeRefused
  BY <1>0, <1>4 DEF PurgeRefused, AskInv, Revoke
<1>5. CASE PushAllowlist \/ RevokeFails \/ ReaderCrash
  BY <1>5 DEF PushAllowlist, RevokeFails, ReaderCrash, NoRevoke, AskInv
<1>6. CASE UNCHANGED vars \/ Sending
  BY <1>1, <1>6 DEF vars, reader, Sending, SendStart, SenderCrash, SendOk, SendRefused, SendFails,
                    Repost, Expire, ChallengeExpires
<1>7. CASE Pulling /\ ~ReaderCrash
  BY <1>1, <1>7 DEF Pulling, PullStart, PullAnswered, PullRefused, PullFails, Answering, Take, FetchFails,
                    Accept, Handle, HandleFails, SaveCursor, PullEnds, SaveMarks
<1>8. ASSUME NEW p \in Peer, Bond(p) PROVE AskInv'
  BY <1>1, <1>8 DEF Bond
<1>. QED
  BY <1>2, <1>3, <1>4, <1>5, <1>6, <1>7, <1>8 DEF Next, Revoking

LEMMA TypeStep == TypeInv /\ AskInv /\ [Next]_vars => TypeInv' /\ AskInv'
<1>. SUFFICES ASSUME TypeInv, AskInv, [Next]_vars PROVE TypeInv'
  BY AskStep
<1>1. CASE UNCHANGED vars
  <2>1. TypeOK'
    BY <1>1 DEF vars, relay, reader, relayHistory, readerHistory, TypeInv, TypeOK
  <2>2. SendInv'
    BY <1>1 DEF vars, relayHistory, TypeInv, SendInv, Sent
  <2>3. MailInv'
    BY <1>1 DEF vars, relay, reader, relayHistory, TypeInv, MailInv
  <2>. QED
    BY <2>1, <2>2, <2>3 DEF TypeInv
<1>. QED
  BY <1>1, SendingType, PullingType, RevokingType DEF Next

LEMMA TypeInit == Init => TypeInv /\ AskInv
<1>. SUFFICES ASSUME Init PROVE TypeInv /\ AskInv
  OBVIOUS
<1>1. NoPull \in Pull /\ NoPull.todo = {} /\ NoRevoke \in Revoke /\ NoRevoke.pc = "idle"
  BY DEF NoPull, Pull, NoRevoke, Revoke
<1>2. 0 \in 0 .. MaxSends /\ 0 \in 0 .. MaxTroubles
  BY BoundsAssumption
<1>3. TypeOK
  BY <1>1, <1>2, PeerAssumption DEF Init, TypeOK, Pull, Revoke
<1>4. SendInv
  <2>1. \A p \in Peer : Sent(p) = {} /\ high[p] = 0 /\ flight[p] = {}
    BY DEF Init, Sent
  <2>. QED
    BY <2>1, FS_EmptySet DEF Init, SendInv
<1>5. MailInv /\ AskInv
  BY <1>1 DEF Init, MailInv, AskInv
<1>. QED
  BY <1>3, <1>4, <1>5 DEF TypeInv

(* Every variable has its type, for any peers and bounds; the purge of a   *)
(* revocation is asked for at most twice.                                  *)
THEOREM TypeCorrect == Spec => []TypeOK
<1>1. TypeInv => TypeOK
  BY DEF TypeInv
<1>. QED
  BY <1>1, TypeInit, TypeStep, PTL DEF Spec

-----------------------------------------------------------------------------
(* Nothing is accepted twice                                               *)

(* Rows are told apart by their numbers, so that one row is the first.     *)
Unique(rows) == \A a, b \in rows : a.row = b.row => a = b
RowInv == Unique(inbox) /\ Unique(pull.todo) /\ \A r \in inbox : r.row <= top

(* The mark of a peer is the highest number accepted from it, and the row  *)
(* that a pull is about to accept is beyond it.                            *)
MarkInv ==
  /\ \A e \in kept : e.seq <= mark[e.from]
  /\ pull.pc = "fetch" => \A r \in pull.todo : IsFirst(r) => Fresh(r.env)

(* A row that is stored anew has the highest number, unless one was given  *)
(* twice; and only the envelope stored may come to be due.                 *)
NewRows(e) ==
  /\ Unique(inbox)' /\ (\A r \in inbox' : r.row <= top') /\ top <= top' /\ (reused => reused')
  /\ \A r \in inbox' : r \in inbox \/ r.row > top \/ reused'
  /\ \A d \in due' : d \in due \/
       /\ d = e /\ e.from \in bonds /\ (pull.pc = "asked" => e.from \in pull.peers)
       /\ \A r \in inbox' : r.env = e => r.row > top \/ reused'

LEMMA PostInboxRows ==
  ASSUME TypeInv, RowInv, NEW e \in posted, PostInbox(e)
  PROVE  NewRows(e)
<1>0. inbox \subseteq Row /\ top \in Nat /\ \A r \in inbox : r.row \in Nat
  BY DEF TypeInv, TypeOK, Row
<1>1. PICK gc \in BOOLEAN :
        IF e.from \in admitted /\ \A r \in Kept(gc) : r.env # e
          THEN \E i \in NextRow(Kept(gc)) :
                 /\ inbox' = Kept(gc) \cup {[row |-> i, env |-> e]}
                 /\ due' = IF e.from \in bonds /\ (pull.pc = "asked" => e.from \in pull.peers)
                             THEN due \cup {e} ELSE due
                 /\ top' = IF i > top THEN i ELSE top
                 /\ reused' = (reused \/ i <= top)
          ELSE inbox' = Kept(gc) /\ UNCHANGED <<due, top, reused>>
  BY DEF PostInbox
<1>2. CASE inbox' = Kept(gc) /\ UNCHANGED <<due, top, reused>>
  BY <1>0, <1>2, KeptFacts DEF RowInv, Unique, NewRows
<1>3. ASSUME NEW i \in NextRow(Kept(gc)), \A r \in Kept(gc) : r.env # e,
             inbox' = Kept(gc) \cup {[row |-> i, env |-> e]},
             due' = due \/ (/\ due' = due \cup {e} /\ e.from \in bonds
                            /\ pull.pc = "asked" => e.from \in pull.peers),
             top' = IF i > top THEN i ELSE top,
             reused' = (reused \/ i <= top)
      PROVE  NewRows(e)
  <2>1. i \in Nat /\ (\A r \in Kept(gc) : r.row < i) /\ Kept(gc) \subseteq inbox
    BY <1>0, KeptFacts DEF NextRow, RowsOf
  <2>2. top <= top' /\ i <= top' /\ top' \in Nat /\ (i > top \/ reused')
    <3>1. top <= top' /\ i <= top' /\ top' \in Nat /\ (i > top \/ i <= top)
      BY <1>0, <1>3, <2>1
    <3>2. i <= top => reused'
      BY <1>3
    <3>. QED
      BY <3>1, <3>2
  <2>3. \A r \in Kept(gc) : r.row <= top'
    BY <1>0, <1>3, <2>1 DEF RowInv
  <2>4. Unique(inbox)'
    BY <1>0, <1>3, <2>1 DEF RowInv, Unique
  <2>5. \A r \in inbox' : r.row <= top' /\ (r \in inbox \/ r.row > top \/ reused')
    BY <1>3, <2>1, <2>2, <2>3
  <2>6. \A r \in inbox' : r.env = e => r.row > top \/ reused'
    BY <1>3, <2>2
  <2>. QED
    BY <1>3, <2>2, <2>4, <2>5, <2>6 DEF NewRows
<1>. QED
  BY <1>1, <1>2, <1>3

(* What an action does to the relay's rows and to the pull.                *)
SameMail == UNCHANGED <<inbox, due, top, reused>>
FewerRows == inbox' \subseteq inbox /\ UNCHANGED <<due, top, reused>>
SameReader == UNCHANGED <<cursor, pull, mark, kept, examined>>

LEMMA SendingRows ==
  ASSUME TypeInv, RowInv, Sending \/ UNCHANGED vars
  PROVE  /\ SameReader /\ UNCHANGED <<bonds, allow, admitted, revoking>>
         /\ SameMail \/ \E e \in posted : NewRows(e)
<1>1. ASSUME NEW p \in Peer, NEW e \in flight[p] PROVE e \in posted
  BY DEF TypeInv, SendInv, Sent
<1>2. SameReader /\ UNCHANGED <<bonds, allow, admitted, revoking>>
  BY DEF Sending, SendStart, SenderCrash, SendOk, SendRefused, SendFails, Repost, Expire,
         ChallengeExpires, SameReader, reader, readerHistory, relay, vars
<1>3. SameMail \/ \E e \in posted : PostInbox(e)
  <2>1. CASE UNCHANGED vars
    BY <2>1 DEF vars, relay, relayHistory, SameMail
  <2>2. ASSUME NEW p \in Peer, SendStart(p) \/ SenderCrash(p) PROVE SameMail
    BY <2>2 DEF SendStart, SenderCrash, relay, relayHistory, SameMail
  <2>3. ASSUME NEW p \in Peer, NEW e \in flight[p], SendOk(p, e) \/ SendRefused(p, e) \/ SendFails(p, e)
        PROVE  SameMail \/ PostInbox(e)
    BY <2>3 DEF SendOk, SendRefused, SendFails, SameMail
  <2>4. ASSUME NEW e \in posted, Repost(e) PROVE PostInbox(e)
    BY <2>4 DEF Repost
  <2>5. CASE ChallengeExpires \/ \E e \in posted : Expire(e)
    BY <2>5 DEF ChallengeExpires, Expire, relayHistory, SameMail
  <2>. QED
    BY <1>1, <2>1, <2>2, <2>3, <2>4, <2>5 DEF Sending
<1>. QED
  BY <1>2, <1>3, PostInboxRows

LEMMA RevokingRows ==
  ASSUME TypeInv, Revoking
  PROVE  SameReader /\ FewerRows
<1>1. SameReader /\ UNCHANGED <<due, top, reused>>
  BY DEF Revoking, Bond, RevokeStart, PurgeAsk, Purge, PurgeRefused, PushAllowlist, RevokeFails,
         SameReader, relayHistory, readerHistory
<1>2. inbox' \subseteq inbox
  <2>1. CASE PurgeAsk
    BY <2>1, IssueType DEF PurgeAsk
  <2>2. CASE Purge
    BY <2>2, KeptFacts DEF Purge
  <2>3. CASE UNCHANGED inbox
    BY <2>3
  <2>. QED
    BY <2>1, <2>2, <2>3 DEF Revoking, Bond, RevokeStart, PurgeRefused, PushAllowlist, RevokeFails, relay
<1>. QED
  BY <1>1, <1>2 DEF FewerRows

LEMMA PullingRows ==
  ASSUME TypeInv, Pulling
  PROVE  FewerRows /\ UNCHANGED <<bonds, allow, admitted>> /\ revoking' \in {revoking, NoRevoke}
<1>1. UNCHANGED <<due, top, reused, bonds, allow, admitted>> /\ revoking' \in {revoking, NoRevoke}
  BY DEF Pulling, PullStart, PullAnswered, PullRefused, PullFails, Answering, Take, FetchFails, Accept,
         Handle, HandleFails, SaveCursor, PullEnds, SaveMarks, ReaderCrash, relay, relayHistory
<1>2. inbox' \subseteq inbox
  <2>1. ASSUME NEW since, NEW history, PullStart(since, history) PROVE inbox' \subseteq inbox
    BY <2>1, IssueType DEF PullStart
  <2>2. CASE PullAnswered
    BY <2>2, KeptFacts DEF PullAnswered
  <2>3. CASE UNCHANGED inbox
    BY <2>3
  <2>. QED
    BY <2>1, <2>2, <2>3 DEF Pulling, PullRefused, PullFails, Answering, Take, FetchFails, Accept,
       Handle, HandleFails, SaveCursor, PullEnds, SaveMarks, ReaderCrash, relay
<1>. QED
  BY <1>1, <1>2 DEF FewerRows

LEMMA RowStep ==
  ASSUME TypeInv, RowInv, [Next]_vars
  PROVE  RowInv'
<1>0. pull \in Pull /\ top \in Nat /\ (\A r \in inbox : r.row \in Nat) /\ (\A r \in inbox' : r \in inbox => r.row \in Nat)
  BY DEF TypeInv, TypeOK, Pull, Row
<1>1. Unique(inbox)' /\ \A r \in inbox' : r.row <= top'
  <2>1. CASE Sending \/ UNCHANGED vars
    BY <2>1, SendingRows DEF SameMail, NewRows, RowInv, Unique
  <2>2. CASE Pulling \/ Revoking
    <3>1. inbox' \subseteq inbox /\ top' = top
      BY <2>2, PullingRows, RevokingRows DEF FewerRows
    <3>. QED
      BY <3>1 DEF RowInv, Unique
  <2>. QED
    BY <2>1, <2>2 DEF Next
<1>2. Unique(pull.todo)'
  <2>1. CASE UNCHANGED pull
    BY <2>1 DEF RowInv, Unique
  <2>2. CASE Sending \/ UNCHANGED vars \/ Revoking
    BY <2>1, <2>2, SendingRows, RevokingRows DEF SameReader
  <2>3. ASSUME NEW since, NEW history, PullStart(since, history) PROVE Unique(pull.todo)'
    BY <2>3 DEF PullStart, NoPull, Unique
  <2>4. CASE PullRefused \/ PullFails \/ PullEnds \/ ReaderCrash
    BY <2>4 DEF PullRefused, PullFails, PullEnds, ReaderCrash, NoPull, Unique
  <2>5. CASE PullAnswered
    <3>1. PICK gc \in BOOLEAN : Loads({r \in Kept(gc) : r.row > pull.since})
      BY <2>5 DEF PullAnswered
    <3>2. pull'.todo \subseteq Kept(gc)
      BY <1>0, <3>1 DEF Loads, Pull
    <3>. QED
      BY <3>2, KeptFacts DEF RowInv, Unique
  <2>6. ASSUME NEW r \in pull.todo, Answering(r) PROVE Unique(pull.todo)'
    <3>1. \/ pull' = [pull EXCEPT !.pc = "loop", !.todo = @ \ {r}]
          \/ \E pc \in {"fetch", "handle"} : pull' = [pull EXCEPT !.pc = pc]
      BY <2>6 DEF Answering, Take, FetchFails, Accept, Handle, HandleFails, Answered
    <3>2. pull'.todo \subseteq pull.todo
      BY <1>0, <3>1 DEF Pull
    <3>. QED
      BY <3>2 DEF RowInv, Unique
  <2>7. CASE SaveCursor
    BY <1>0, <2>7 DEF SaveCursor, Pull, RowInv, Unique
  <2>8. CASE SaveMarks
    BY <2>1, <2>8 DEF SaveMarks
  <2>. QED
    BY <2>2, <2>3, <2>4, <2>5, <2>6, <2>7, <2>8 DEF Next, Pulling
<1>. QED
  BY <1>1, <1>2 DEF RowInv

LEMMA MarkStep ==
  ASSUME TypeInv, RowInv, MarkInv, [Next]_vars
  PROVE  MarkInv'
<1>0. /\ pull \in Pull /\ pull.todo \subseteq Row /\ mark \in [Peer -> 0 .. MaxSends] /\ MaxSends \in Nat
      /\ kept \subseteq Envelope
  BY BoundsAssumption DEF TypeInv, TypeOK, Pull
<1>1. CASE UNCHANGED <<pull, mark, kept>>
  BY <1>1 DEF MarkInv, IsFirst, Fresh
<1>2. CASE Sending \/ UNCHANGED vars \/ Revoking
  BY <1>1, <1>2, SendingRows, RevokingRows DEF SameReader
<1>3. CASE pull'.pc # "fetch" /\ UNCHANGED <<mark, kept>>
  BY <1>3 DEF MarkInv
<1>4. ASSUME NEW since, NEW history, PullStart(since, history) PROVE MarkInv'
  BY <1>3, <1>4 DEF PullStart, NoPull, readerHistory
<1>5. CASE PullRefused \/ PullFails \/ PullEnds
  BY <1>3, <1>5 DEF PullRefused, PullFails, PullEnds, NoPull, readerHistory
<1>6. CASE PullAnswered
  <2>1. pull'.pc = "loop"
    BY <1>0, <1>6 DEF PullAnswered, Loads, Pull
  <2>. QED
    BY <1>3, <1>6, <2>1 DEF PullAnswered, readerHistory
<1>7. CASE SaveCursor
  BY <1>0, <1>3, <1>7 DEF SaveCursor, readerHistory, Pull
<1>8. CASE SaveMarks
  BY <1>1, <1>8 DEF SaveMarks, readerHistory
<1>9. CASE ReaderCrash
  BY <1>9 DEF ReaderCrash, NoPull, MarkInv
<1>10. ASSUME NEW r \in pull.todo, Take(r) PROVE MarkInv'
  <2>1. CASE Fresh(r.env)
    <3>1. UNCHANGED <<mark, kept>> /\ IsFirst(r)
      BY <1>10 DEF Take
    <3>2. (pull'.todo = pull.todo /\ pull'.peers = pull.peers) \/ pull'.pc # "fetch"
      BY <1>0, <1>10 DEF Take, Answered, Pull
    <3>3. \A s \in pull.todo : IsFirst(s) => s = r
      BY <1>0, <3>1 DEF IsFirst, RowInv, Unique, Row
    <3>. QED
      BY <1>3, <2>1, <3>1, <3>2, <3>3 DEF MarkInv, IsFirst, Fresh
  <2>2. CASE ~Fresh(r.env)
    BY <1>0, <1>3, <1>10, <2>2 DEF Take, Answered, Pull
  <2>. QED
    BY <2>1, <2>2
<1>11. ASSUME NEW r \in pull.todo, FetchFails(r) \/ Handle(r) \/ HandleFails(r) PROVE MarkInv'
  BY <1>0, <1>3, <1>11 DEF FetchFails, Handle, HandleFails, Answered, Pull
<1>12. ASSUME NEW r \in pull.todo, Accept(r) PROVE MarkInv'
  <2>1. Fresh(r.env) /\ pull'.pc = "handle" /\ kept' = kept \cup {r.env}
        /\ mark' = [mark EXCEPT ![r.env.from] = r.env.seq]
    BY <1>0, <1>12 DEF Accept, MarkInv, Pull
  <2>2. r.env \in Envelope /\ r.env.from \in Peer /\ r.env.seq \in Nat
    BY <1>0 DEF Row, Envelope
  <2>3. \A e \in kept : e.seq \in Nat /\ e.from \in Peer /\ mark[e.from] \in Nat /\ e.seq <= mark[e.from]
    BY <1>0 DEF Envelope, MarkInv
  <2>4. r.env.seq > mark[r.env.from] /\ mark[r.env.from] \in Nat
    BY <1>0, <2>1, <2>2 DEF Fresh
  <2>5. \A e \in kept' : e.seq <= mark'[e.from]
    <3>1. ASSUME NEW e \in kept PROVE e.seq <= mark'[e.from]
      <4>1. CASE e.from = r.env.from
        BY <1>0, <2>1, <2>2, <2>3, <2>4, <4>1
      <4>2. CASE e.from # r.env.from
        BY <1>0, <2>1, <2>3, <4>2
      <4>. QED
        BY <4>1, <4>2
    <3>2. r.env.seq <= mark'[r.env.from]
      BY <1>0, <2>1, <2>2
    <3>. QED
      BY <2>1, <3>1, <3>2
  <2>. QED
    BY <2>1, <2>5 DEF MarkInv
<1>. QED
  BY <1>2, <1>4, <1>5, <1>6, <1>7, <1>8, <1>9, <1>10, <1>11, <1>12 DEF Next, Pulling, Answering

LEMMA RowInit == Init => RowInv /\ MarkInv
BY DEF Init, NoPull, RowInv, MarkInv, Unique

(* No envelope is accepted twice, by any pull from any cursor and however  *)
(* often its wire reaches the relay, unless a restart forgot its number.   *)
THEOREM AcceptanceSafety == Spec => AcceptedOnce
<1>. DEFINE Inv == TypeInv /\ AskInv /\ RowInv /\ MarkInv
<1>1. Init => Inv
  BY TypeInit, RowInit
<1>2. Inv /\ [Next]_vars => Inv'
  BY TypeStep, RowStep, MarkStep
<1>3. Inv /\ [Next]_vars => [\A e \in kept : ~(\E r \in pull.todo : r.env = e /\ Accept(r))]_vars
  <2>. SUFFICES ASSUME Inv, NEW e \in kept, NEW r \in pull.todo, r.env = e, Accept(r) PROVE FALSE
    OBVIOUS
  <2>1. Fresh(e) /\ e.seq <= mark[e.from]
    BY DEF Accept, MarkInv
  <2>2. e \in Envelope /\ mark \in [Peer -> 0 .. MaxSends]
    BY DEF TypeInv, TypeOK
  <2>3. e.seq \in Nat /\ mark[e.from] \in Nat /\ e.seq > mark[e.from]
    BY <2>1, <2>2, BoundsAssumption DEF Envelope, Fresh
  <2>. QED
    BY <2>1, <2>3
<1>. HIDE DEF Inv
<1>. QED
  BY <1>1, <1>2, <1>3, PTL DEF Spec, AcceptedOnce

-----------------------------------------------------------------------------
(* The cursor hides no mail                                                *)

(* Who is bonded is allowed and admitted, apart from a peer whose          *)
(* revocation is under way, and nobody is bonded again: mail that was due  *)
(* and whose sender is bonded no more has a sender that is not allowed.    *)
PeerInv ==
  /\ bonds \subseteq allow /\ allow \subseteq admitted
  /\ revoking.peer \cap allow = {}
  /\ \A e \in due : e.from \in bonds \/ e.from \notin allow

(* A pull that waits for its rows asks for none beyond the cursor and      *)
(* knows the senders of all mail that is due.                              *)
AskedInv ==
  pull.pc = "asked" => /\ pull.since <= cursor
                       /\ \A e \in due : e.from \in bonds => e.from \in pull.peers

(* What the cursor has passed is answered for; what it will have passed    *)
(* when the pull is over is answered for or among its rows.                *)
Going == pull.pc \in {"loop", "fetch", "handle"}
Wanted(r) == r.env \in due /\ r.env.from \in bonds
ShownInv ==
  /\ cursor <= top /\ (Going => pull.upto <= top)
  /\ ~reused => \A r \in inbox : Wanted(r) =>
       /\ r.row <= cursor => r.env \in examined
       /\ Going /\ r.row <= pull.upto => r.env \in examined \/ r \in pull.todo

LEMMA PullingKinds ==
  ASSUME TypeInv, Pulling
  PROVE  \/ \E since \in Since, history \in BOOLEAN : PullStart(since, history)
         \/ PullAnswered
         \/ pull' = NoPull /\ UNCHANGED <<cursor, examined>>
         \/ /\ Going /\ pull'.pc \in {"loop", "fetch", "handle"} /\ pull'.upto = pull.upto
            /\ UNCHANGED cursor /\ examined \subseteq examined'
            /\ \A r \in pull.todo : r \in pull'.todo \/ r.env \in examined'
         \/ /\ Going /\ pull.todo = {} /\ cursor' = pull.upto
            /\ pull'.pc = "flush" /\ UNCHANGED examined
         \/ UNCHANGED <<pull, cursor, examined>>
<1>0. pull \in Pull
  BY DEF TypeInv, TypeOK, Pull
<1>1. CASE PullRefused \/ PullFails \/ PullEnds \/ ReaderCrash
  BY <1>1 DEF PullRefused, PullFails, PullEnds, ReaderCrash, readerHistory
<1>2. CASE SaveMarks
  BY <1>2 DEF SaveMarks, readerHistory
<1>3. CASE SaveCursor
  BY <1>0, <1>3 DEF SaveCursor, readerHistory, Pull, Going
<1>4. ASSUME NEW r \in pull.todo, Answering(r)
      PROVE  /\ Going /\ pull'.pc \in {"loop", "fetch", "handle"} /\ pull'.upto = pull.upto
             /\ UNCHANGED cursor /\ examined \subseteq examined'
             /\ \A s \in pull.todo : s \in pull'.todo \/ s.env \in examined'
  <2>1. Going /\ UNCHANGED cursor
    BY <1>4 DEF Answering, Take, FetchFails, Accept, Handle, HandleFails, Going
  <2>2. Answered(r) \/ (UNCHANGED examined /\ \E pc \in {"fetch", "handle"} : pull' = [pull EXCEPT !.pc = pc])
    BY <1>4 DEF Answering, Take, FetchFails, Accept, Handle, HandleFails
  <2>. QED
    BY <1>0, <2>1, <2>2 DEF Answered, Pull
<1>. QED
  BY <1>1, <1>2, <1>3, <1>4 DEF Pulling

LEMMA PeerStep ==
  ASSUME TypeInv, RowInv, PeerInv, [Next]_vars
  PROVE  PeerInv'
<1>0. revoking \in Revoke
  BY DEF TypeInv, TypeOK, Revoke
<1>1. CASE Sending \/ UNCHANGED vars
  BY <1>1, SendingRows DEF SameMail, NewRows, PeerInv
<1>2. CASE Pulling
  BY <1>2, PullingRows DEF FewerRows, PeerInv, NoRevoke
<1>3. CASE Revoking
  <2>1. UNCHANGED due
    BY <1>3, RevokingRows DEF FewerRows
  <2>2. ASSUME NEW p \in Peer, Bond(p) PROVE PeerInv'
    BY <2>1, <2>2 DEF Bond, relay, PeerInv
  <2>3. ASSUME NEW p \in Peer, RevokeStart(p) PROVE PeerInv'
    BY <2>1, <2>3 DEF RevokeStart, relay, PeerInv
  <2>4. CASE PurgeAsk \/ Purge \/ PurgeRefused
    <3>1. revoking'.peer = revoking.peer /\ UNCHANGED <<bonds, allow, admitted>>
      BY <1>0, <2>4 DEF PurgeAsk, Purge, PurgeRefused, relay, Revoke
    <3>. QED
      BY <2>1, <3>1 DEF PeerInv
  <2>5. CASE PushAllowlist
    BY <2>1, <2>5 DEF PushAllowlist, NoRevoke, PeerInv
  <2>6. CASE RevokeFails
    BY <2>1, <2>6 DEF RevokeFails, NoRevoke, relay, PeerInv
  <2>. QED
    BY <1>3, <2>2, <2>3, <2>4, <2>5, <2>6 DEF Revoking
<1>. QED
  BY <1>1, <1>2, <1>3 DEF Next

(* A step of a revocation or a pairing makes no mail wanted that was due.  *)
LEMMA RevokingWants ==
  ASSUME TypeInv, PeerInv, Revoking
  PROVE  \A e \in due : e.from \in bonds' => e.from \in bonds
<1>1. ASSUME NEW p \in Peer, Bond(p) PROVE \A e \in due : e.from \in bonds' => e.from \in bonds
  BY <1>1 DEF Bond, PeerInv
<1>2. CASE \E p \in Peer : RevokeStart(p)
  BY <1>2 DEF RevokeStart
<1>3. CASE UNCHANGED bonds
  BY <1>3
<1>. QED
  BY <1>1, <1>2, <1>3 DEF Revoking, PurgeAsk, Purge, PurgeRefused, PushAllowlist, RevokeFails

LEMMA AskedStep ==
  ASSUME TypeInv, RowInv, PeerInv, AskedInv, [Next]_vars
  PROVE  AskedInv'
<1>1. CASE Sending \/ UNCHANGED vars
  BY <1>1, SendingRows DEF SameReader, SameMail, NewRows, AskedInv
<1>2. CASE Revoking
  BY <1>2, RevokingRows, RevokingWants DEF SameReader, FewerRows, AskedInv
<1>3. CASE Pulling
  <2>0. UNCHANGED <<due, bonds>>
    BY <1>3, PullingRows DEF FewerRows
  <2>1. ASSUME NEW since \in Since, NEW history \in BOOLEAN, PullStart(since, history)
        PROVE  AskedInv'
    <3>1. pull'.since = since /\ pull'.peers = AllowedPeers /\ cursor' = cursor
      BY <2>1 DEF PullStart, NoPull
    <3>2. since <= cursor
      <4>1. cursor \in Nat /\ \A r \in inbox : r.row \in Nat
        BY DEF TypeInv, TypeOK, Row
      <4>. QED
        BY <4>1 DEF Since
    <3>3. bonds \subseteq AllowedPeers
      BY DEF AllowedPeers, PeerInv
    <3>. QED
      BY <2>0, <3>1, <3>2, <3>3 DEF AskedInv
  <2>2. CASE PullAnswered
    <3>1. pull'.pc = "loop"
      BY <2>2 DEF PullAnswered, Loads, TypeInv, TypeOK
    <3>. QED
      BY <3>1 DEF AskedInv
  <2>3. CASE pull'.pc # "asked" \/ pull' = NoPull
    BY <2>3 DEF AskedInv, NoPull
  <2>4. CASE UNCHANGED <<pull, cursor>>
    BY <2>0, <2>4 DEF AskedInv
  <2>. QED
    BY <1>3, <2>1, <2>2, <2>3, <2>4, PullingKinds
<1>. QED
  BY <1>1, <1>2, <1>3 DEF Next

LEMMA SendingShown ==
  ASSUME TypeInv, AskInv, RowInv, ShownInv, Sending \/ UNCHANGED vars
  PROVE  ShownInv'
<1>0. cursor \in Nat /\ top \in Nat /\ pull.upto \in Nat /\ \A r \in inbox : r.row \in Nat
  BY DEF TypeInv, TypeOK, Row
<1>1. SameReader /\ bonds' = bonds /\ (SameMail \/ \E e \in posted : NewRows(e))
  BY SendingRows
<1>2. CASE SameMail
  BY <1>1, <1>2 DEF SameReader, SameMail, ShownInv, Going, Wanted
<1>3. ASSUME NEW e \in posted, NewRows(e) PROVE ShownInv'
  <2>1. top' \in Nat /\ inbox' \subseteq Row
    <3>1. TypeInv'
      BY TypeStep DEF Next
    <3>. QED
      BY <3>1 DEF TypeInv, TypeOK
  <2>2. cursor' <= top' /\ (Going' => pull'.upto <= top')
    BY <1>0, <1>1, <1>3, <2>1 DEF NewRows, SameReader, ShownInv, Going
  <2>3. ASSUME ~reused', NEW r \in inbox', Wanted(r)'
        PROVE  /\ r.row <= cursor' => r.env \in examined'
               /\ Going' /\ r.row <= pull'.upto => r.env \in examined' \/ r \in pull'.todo
    <3>1. r.row \in Nat
      BY <2>1 DEF Row
    <3>2. CASE r.row > top
      BY <1>0, <1>1, <3>1, <3>2 DEF ShownInv, SameReader, Going
    <3>3. CASE r \in inbox /\ r.row <= top
      <4>1. r.env \in due
        BY <1>0, <1>3, <2>3, <3>1, <3>3 DEF NewRows, Wanted
      <4>2. Wanted(r) /\ ~reused
        BY <1>1, <1>3, <2>3, <4>1 DEF NewRows, Wanted
      <4>. QED
        BY <1>1, <3>3, <4>2 DEF ShownInv, SameReader, Going
    <3>. QED
      BY <1>0, <1>3, <2>3, <3>1, <3>2, <3>3 DEF NewRows
  <2>. QED
    BY <2>2, <2>3 DEF ShownInv
<1>. QED
  BY <1>1, <1>2, <1>3

LEMMA PullingShown ==
  ASSUME TypeInv, RowInv, PeerInv, AskedInv, ShownInv, Pulling
  PROVE  ShownInv'
<1>0. /\ pull \in Pull /\ cursor \in Nat /\ top \in Nat /\ pull.upto \in Nat /\ pull.since \in Nat
      /\ \A r \in inbox : r.row \in Nat
  BY DEF TypeInv, TypeOK, Row, Pull
<1>1. inbox' \subseteq inbox /\ UNCHANGED <<due, top, reused, bonds>>
  BY PullingRows DEF FewerRows
<1>2. CASE ~Going' /\ UNCHANGED <<cursor, examined>>
  BY <1>1, <1>2 DEF ShownInv, Wanted
<1>3. ASSUME NEW since \in Since, NEW history \in BOOLEAN, PullStart(since, history)
      PROVE  ShownInv'
  BY <1>2, <1>3 DEF PullStart, NoPull, Going, readerHistory
<1>4. CASE PullAnswered
  <2>1. PICK gc \in BOOLEAN : inbox' = Kept(gc) /\ Loads({r \in Kept(gc) : r.row > pull.since})
    BY <1>4 DEF PullAnswered
  <2>2. pull.pc = "asked" /\ UNCHANGED <<cursor, examined>>
    BY <1>4 DEF PullAnswered, readerHistory
  <2>3. PICK last \in {pull.since} \cup RowsOf({r \in Kept(gc) : r.row > pull.since}) :
          pull' = [pull EXCEPT !.pc = "loop", !.upto = last,
                               !.todo = {r \in {s \in Kept(gc) : s.row > pull.since} : Visible(r)}]
    BY <2>1 DEF Loads
  <2>4. /\ pull'.upto = last
        /\ \A r \in inbox' : r.row > pull.since /\ Visible(r) => r \in pull'.todo
    BY <1>0, <2>1, <2>3 DEF Pull
  <2>5. pull.since <= top /\ last <= top
    <3>1. pull.since <= cursor /\ cursor <= top
      BY <2>2 DEF AskedInv, ShownInv
    <3>2. \A r \in Kept(gc) : r.row <= top
      BY KeptFacts DEF RowInv
    <3>. QED
      BY <1>0, <2>3, <3>1, <3>2 DEF RowsOf
  <2>6. ASSUME ~reused', NEW r \in inbox', Wanted(r)'
        PROVE  (r.row <= cursor => r.env \in examined) /\ (r.env \in examined \/ r \in pull'.todo)
    <3>1. r \in inbox /\ Wanted(r) /\ ~reused
      BY <1>1, <2>6 DEF Wanted
    <3>2. r.row <= cursor => r.env \in examined
      BY <3>1 DEF ShownInv
    <3>3. r.env.from \in admitted \cap pull.peers
      BY <2>2, <3>1 DEF PeerInv, AskedInv, Wanted
    <3>4. CASE r.row > pull.since
      BY <2>4, <3>2, <3>3, <3>4 DEF Visible
    <3>5. CASE r.row <= pull.since
      <4>1. r.row <= cursor
        BY <1>0, <2>2, <3>1, <3>5 DEF AskedInv
      <4>. QED
        BY <3>2, <4>1
    <3>. QED
      BY <1>0, <3>1, <3>4, <3>5
  <2>. QED
    BY <1>1, <2>2, <2>4, <2>5, <2>6 DEF ShownInv
<1>5. CASE /\ Going /\ pull'.pc \in {"loop", "fetch", "handle"} /\ pull'.upto = pull.upto
           /\ UNCHANGED cursor /\ examined \subseteq examined'
           /\ \A r \in pull.todo : r \in pull'.todo \/ r.env \in examined'
  BY <1>1, <1>5 DEF ShownInv, Wanted
<1>6. CASE /\ Going /\ pull.todo = {} /\ cursor' = pull.upto
           /\ pull'.pc = "flush" /\ UNCHANGED examined
  BY <1>1, <1>6 DEF ShownInv, Wanted, Going
<1>7. CASE UNCHANGED <<pull, cursor, examined>>
  BY <1>1, <1>7 DEF ShownInv, Wanted, Going
<1>8. CASE pull' = NoPull /\ UNCHANGED <<cursor, examined>>
  BY <1>2, <1>8 DEF NoPull, Going
<1>. QED
  BY <1>3, <1>4, <1>5, <1>6, <1>7, <1>8, PullingKinds

LEMMA ShownStep ==
  ASSUME TypeInv, AskInv, RowInv, PeerInv, AskedInv, ShownInv, [Next]_vars
  PROVE  ShownInv'
<1>1. CASE Revoking
  <2>1. SameReader /\ FewerRows /\ \A e \in due : e.from \in bonds' => e.from \in bonds
    BY <1>1, RevokingRows, RevokingWants
  <2>. QED
    BY <2>1 DEF SameReader, FewerRows, ShownInv, Going, Wanted
<1>. QED
  BY <1>1, SendingShown, PullingShown DEF Next

LEMMA ShownInit == Init => PeerInv /\ AskedInv /\ ShownInv
<1>. SUFFICES ASSUME Init PROVE PeerInv /\ AskedInv /\ ShownInv
  OBVIOUS
<1>1. PeerInv
  BY PeerAssumption DEF Init, NoRevoke, PeerInv
<1>. QED
  BY <1>1 DEF Init, NoPull, AskedInv, ShownInv, Going

(* As long as no row number is given twice, the cursor passes no mail that *)
(* was due to a bonded peer and that no pull has answered for.             *)
THEOREM MailSafety == Spec => []NothingHidden
<1>. DEFINE Inv == TypeInv /\ AskInv /\ RowInv /\ PeerInv /\ AskedInv /\ ShownInv
<1>1. Init => Inv
  BY TypeInit, RowInit, ShownInit
<1>2. Inv /\ [Next]_vars => Inv'
  BY TypeStep, RowStep, PeerStep, AskedStep, ShownStep
<1>3. Inv => NothingHidden
  BY DEF ShownInv, Wanted, NothingHidden
<1>. HIDE DEF Inv
<1>. QED
  BY <1>1, <1>2, <1>3, PTL DEF Spec

-----------------------------------------------------------------------------
(* What is refused as stale was accepted before                            *)

(* The numbers of a peer that was never in trouble: no two envelopes share *)
(* one, and none but the one in flight is beyond what it has recorded.     *)
NumberInv ==
  \A p \in Peer \ blemished :
    /\ \A a, b \in Sent(p) : a.seq = b.seq => a = b
    /\ \A a \in Sent(p) :
         \/ a.seq <= high[p] /\ a \notin flight[p]
         \/ a.seq > high[p] /\ flight[p] = {a}

(* Peer p is bonded no more, and no pull that still may get rows took it   *)
(* for bonded.                                                             *)
Gone(p) ==
  /\ p \notin bonds \cup allow
  /\ ~(pull.pc = "asked" /\ challenge = "pull" /\ p \in pull.peers)

(* Envelope e cannot come to be due any more: it is stored, has expired,   *)
(* or its sender is gone.                                                  *)
Stored(e) == (\E r \in inbox : r.env = e) \/ e \in expired \/ Gone(e.from)

(* So is every envelope whose send has returned to an untroubled peer, and *)
(* whatever a pull has seen.                                               *)
StoredInv ==
  \A e \in posted :
    \/ e.from \notin blemished /\ e \notin flight[e.from]
    \/ e \in examined
    \/ \E r \in pull.todo : r.env = e
    => Stored(e)

(* Mail of which no bound, fault or expiry explains a refusal.             *)
Sound(e) == e \in due /\ e \notin expired /\ e.from \notin blemished /\ ~reused
Open(e) == Sound(e) /\ e \notin accepted

(* Rows of one peer are in the order of its numbers.                       *)
Before(rows, e, s) == \E r \in rows : r.env = e /\ r.row < s.row
Later(s, e) == s.env.from = e.from /\ s.env.seq > e.seq

OrderInv ==
  \A e \in due : Sound(e) => \A s \in inbox : Later(s, e) => Gone(e.from) \/ Before(inbox, e, s)

(* A pull that waits for its rows will get those of its peers' open mail.  *)
AheadInv ==
  pull.pc = "asked" /\ challenge = "pull" =>
    \A r \in inbox : Open(r.env) /\ r.env.from \in pull.peers => r.row > pull.since

(* A pull that has its rows has those of open mail in order, and takes     *)
(* for a stranger only who is not allowed any more.                        *)
TodoInv ==
  Going =>
    /\ \A r \in pull.todo : r.env \in due /\ r.env \notin expired =>
         r.env.from \in pull.peers \/ r.env.from \notin allow
    /\ \A e \in due : Open(e) /\ e.from \in pull.peers =>
         \A s \in pull.todo : Later(s, e) => Before(pull.todo, e, s)

(* Mail that was answered for and is open was a stranger's.                *)
MissedInv ==
  \A e \in examined : Open(e) => e.from \notin allow /\ e.from \notin pull.peers

(* Nothing was accepted that is beyond open mail; a mark stands for an     *)
(* envelope that was accepted, and what is handled is one, too.            *)
BeyondInv == \A e \in due : Open(e) => \A a \in accepted : a.from = e.from => a.seq < e.seq
MarkedInv ==
  \A p \in Peer : \A m \in {mark[p], saved[p]} :
    m = 0 \/ \E a \in accepted : a.from = p /\ a.seq = m
HandleInv == pull.pc = "handle" => \A r \in pull.todo : IsFirst(r) => r.env \in accepted

StaleInv == stale \subseteq examined /\ StaleWasAccepted

Base == TypeInv /\ AskInv /\ RowInv /\ MarkInv /\ PeerInv /\ AskedInv /\ ShownInv

LEMMA EnvelopeFacts ==
  ASSUME TypeInv
  PROVE  /\ \A e \in posted : e.from \in Peer /\ e.seq \in Nat /\ e.seq > 0
         /\ \A r \in inbox \cup pull.todo : r.row \in Nat /\ r.env \in posted
         /\ \A p \in Peer : high[p] \in Nat /\ mark[p] \in Nat /\ saved[p] \in Nat
         /\ top \in Nat /\ cursor \in Nat /\ pull.since \in Nat
         /\ due \subseteq posted /\ accepted \subseteq posted /\ examined \subseteq posted
         /\ pull \in Pull /\ pull.todo \subseteq Row
<1>1. MaxSends \in Nat /\ posted \subseteq Envelope /\ inbox \subseteq Row
      /\ pull \in Pull /\ pull.todo \subseteq Row
  BY BoundsAssumption DEF TypeInv, TypeOK, Pull
<1>. QED
  BY <1>1 DEF TypeInv, TypeOK, MailInv, Envelope, Row, Pull

(* What a post changes: rows of expired mail may go, one row of e may      *)
(* come, above all others unless a number is given twice; e may come to be *)
(* due if it was not stored.                                               *)
Mailed(e) ==
  /\ \A r \in inbox : r \in inbox' \/ r.env \in expired
  /\ reused => reused'
  /\ \A r \in inbox' : r \in inbox \/ (r.env = e /\ (r.row > top \/ reused'))
  /\ e.from \in admitted => \E r \in inbox' : r.env = e
  /\ \A d \in due' : d \in due \/
       /\ d = e /\ e.from \in bonds /\ (pull.pc = "asked" => e.from \in pull.peers)
       /\ \A r \in inbox : r.env = e => e \in expired
  /\ due \subseteq due'

LEMMA PostInboxMails ==
  ASSUME TypeInv, NEW e \in posted, PostInbox(e)
  PROVE  Mailed(e)
<1>0. \A r \in inbox : r.row \in Nat /\ top \in Nat
  BY EnvelopeFacts
<1>1. PICK gc \in BOOLEAN :
        IF e.from \in admitted /\ \A r \in Kept(gc) : r.env # e
          THEN \E i \in NextRow(Kept(gc)) :
                 /\ inbox' = Kept(gc) \cup {[row |-> i, env |-> e]}
                 /\ due' = IF e.from \in bonds /\ (pull.pc = "asked" => e.from \in pull.peers)
                             THEN due \cup {e} ELSE due
                 /\ top' = IF i > top THEN i ELSE top
                 /\ reused' = (reused \/ i <= top)
          ELSE inbox' = Kept(gc) /\ UNCHANGED <<due, top, reused>>
  BY DEF PostInbox
<1>2. /\ Kept(gc) \subseteq inbox
      /\ \A r \in inbox : r \in Kept(gc) \/ r.env \in expired
  BY DEF Kept
<1>3. CASE e.from \in admitted /\ \A r \in Kept(gc) : r.env # e
  <2>1. PICK i \in NextRow(Kept(gc)) :
          /\ inbox' = Kept(gc) \cup {[row |-> i, env |-> e]}
          /\ due' = IF e.from \in bonds /\ (pull.pc = "asked" => e.from \in pull.peers)
                      THEN due \cup {e} ELSE due
          /\ reused' = (reused \/ i <= top)
    BY <1>1, <1>3
  <2>2. i \in Nat /\ (i > top \/ i <= top)
    BY <1>0, EnvelopeFacts DEF NextRow
  <2>3. (i > top \/ reused') /\ (reused => reused')
    BY <2>1, <2>2
  <2>4. /\ \A r \in inbox' : r \in inbox \/ (r.env = e /\ r.row = i)
        /\ \A r \in inbox : r \in inbox' \/ r.env \in expired
        /\ \E r \in inbox' : r.env = e
    <3>. DEFINE new == [row |-> i, env |-> e]
    <3>1. new.row = i /\ new.env = e /\ inbox' = Kept(gc) \cup {new}
      BY <2>1
    <3>. HIDE DEF new
    <3>. QED
      BY <1>2, <3>1
  <2>5. \A r \in inbox' : r \in inbox \/ (r.env = e /\ (r.row > top \/ reused'))
    BY <2>3, <2>4
  <2>6. /\ due \subseteq due'
        /\ \A d \in due' : d \in due \/
             (d = e /\ e.from \in bonds /\ (pull.pc = "asked" => e.from \in pull.peers))
    BY <2>1
  <2>7. \A r \in inbox : r.env = e => e \in expired
    BY <1>2, <1>3
  <2>. QED
    BY <2>3, <2>4, <2>5, <2>6, <2>7 DEF Mailed
<1>4. CASE ~(e.from \in admitted /\ \A r \in Kept(gc) : r.env # e)
  <2>1. inbox' = Kept(gc) /\ UNCHANGED <<due, top, reused>>
    BY <1>1, <1>4
  <2>. QED
    BY <1>2, <1>4, <2>1 DEF Mailed
<1>. QED
  BY <1>3, <1>4

(* What the peers' steps do, but for the numbers.                          *)
SentStep ==
  /\ UNCHANGED <<reader, examined, accepted, stale>>
  /\ challenge' \in {challenge, "none"}
  /\ expired \subseteq expired' /\ blemished \subseteq blemished'
  /\ SameMail \/ (UNCHANGED posted /\ \E e \in posted : Mailed(e))
  /\ \A e \in posted' : e.from \notin blemished' /\ e \notin flight'[e.from] =>
       e \in posted /\ (e \notin flight[e.from] \/ \E r \in inbox' : r.env = e)

LEMMA SendingMails ==
  ASSUME TypeInv, Sending \/ UNCHANGED vars
  PROVE  SentStep
<1>0. /\ \A p \in Peer : flight[p] \subseteq posted /\ \A e \in flight[p] : e.from = p
      /\ flight \in [Peer -> SUBSET Envelope] /\ \A e \in posted : e.from \in Peer
  BY EnvelopeFacts DEF TypeInv, TypeOK, SendInv, Sent
<1>1. CASE UNCHANGED vars
  BY <1>1 DEF vars, relay, reader, relayHistory, readerHistory, SameMail, SentStep
<1>2. ASSUME NEW p \in Peer, SendStart(p) PROVE SentStep
  <2>1. PICK e \in posted' : /\ e.from = p /\ posted' = posted \cup {e}
                             /\ flight' = [flight EXCEPT ![p] = @ \cup {e}]
    BY <1>2 DEF SendStart
  <2>2. /\ UNCHANGED <<relay, reader, due, top, reused, readerHistory>>
        /\ blemished \subseteq blemished'
    BY <1>2 DEF SendStart
  <2>. QED
    BY <1>0, <2>1, <2>2 DEF SentStep, SameMail, relay, readerHistory
<1>3. ASSUME NEW p \in Peer, SenderCrash(p) PROVE SentStep
  BY <1>0, <1>3 DEF SenderCrash, SentStep, SameMail, relay, relayHistory, readerHistory
<1>4. ASSUME NEW p \in Peer, NEW e \in flight[p], SendOk(p, e) PROVE SentStep
  <2>1. Mailed(e) /\ e \in posted /\ e.from = p /\ e.from \in admitted
    BY <1>0, <1>4, PostInboxMails DEF SendOk
  <2>2. (\E r \in inbox' : r.env = e) /\ flight' = [flight EXCEPT ![p] = @ \ {e}]
    BY <1>4, <2>1 DEF SendOk, Landed, Mailed
  <2>3. /\ UNCHANGED <<reader, posted, readerHistory, blemished, challenge, expired>>
    BY <1>4 DEF SendOk
  <2>. QED
    BY <1>0, <2>1, <2>2, <2>3 DEF SentStep, readerHistory
<1>5. ASSUME NEW p \in Peer, NEW e \in flight[p], SendRefused(p, e) \/ SendFails(p, e) PROVE SentStep
  <2>1. (Mailed(e) \/ SameMail) /\ e \in posted
    BY <1>0, <1>5, PostInboxMails DEF SendRefused, SendFails, SameMail
  <2>2. /\ flight' = [flight EXCEPT ![p] = @ \ {e}] /\ blemished' = blemished \cup {p}
        /\ UNCHANGED <<reader, posted, readerHistory, challenge, expired>>
    BY <1>5 DEF SendRefused, SendFails, Landed
  <2>. QED
    BY <1>0, <2>1, <2>2 DEF SentStep, readerHistory
<1>6. ASSUME NEW e \in posted, Repost(e) PROVE SentStep
  BY <1>6, PostInboxMails DEF Repost, SentStep, readerHistory
<1>7. ASSUME NEW e \in posted, Expire(e) PROVE SentStep
  BY <1>7 DEF Expire, SentStep, SameMail, readerHistory, relayHistory
<1>8. CASE ChallengeExpires
  BY <1>8 DEF ChallengeExpires, SentStep, SameMail, readerHistory, relayHistory
<1>. QED
  BY <1>1, <1>2, <1>3, <1>4, <1>5, <1>6, <1>7, <1>8 DEF Sending

(* A pull takes no peer for bonded that is not allowed.                    *)
LEMMA PeersAllowed ==
  ASSUME PeerInv
  PROVE  AllowedPeers \subseteq allow /\ bonds \subseteq AllowedPeers
BY DEF AllowedPeers, PeerInv

(* What the steps of a pull and of a revocation have in common.            *)
LEMMA QuietStep ==
  ASSUME TypeInv, Pulling \/ Revoking
  PROVE  /\ UNCHANGED <<posted, due, reused, expired, high, flight>>
         /\ inbox' \subseteq inbox /\ blemished \subseteq blemished'
         /\ challenge' = "pull" =>
              challenge = "pull" \/ \E since \in Since, history \in BOOLEAN : PullStart(since, history)
<1>1. CASE Pulling
  <2>1. inbox' \subseteq inbox
    BY <1>1, PullingRows DEF FewerRows
  <2>. QED
    BY <1>1, <2>1 DEF Pulling, PullStart, PullAnswered, PullRefused, PullFails, Answering, Take,
       FetchFails, Accept, Handle, HandleFails, SaveCursor, PullEnds, SaveMarks, ReaderCrash,
       relay, relayHistory
<1>2. CASE Revoking
  <2>1. inbox' \subseteq inbox
    BY <1>2, RevokingRows DEF FewerRows
  <2>. QED
    BY <1>2, <2>1 DEF Revoking, Bond, RevokeStart, PurgeAsk, Purge, PurgeRefused, PushAllowlist,
       RevokeFails, IssueChallenge, relay, relayHistory
<1>. QED
  BY <1>1, <1>2

LEMMA GoneStays ==
  ASSUME TypeInv, RowInv, PeerInv, [Next]_vars, NEW p, Gone(p)
  PROVE  Gone(p)'
<1>1. CASE Sending \/ UNCHANGED vars
  BY <1>1, SendingMails DEF SentStep, reader, Gone
<1>2. CASE Revoking
  <2>1. pull' = pull /\ (challenge' = "pull" => challenge = "pull" \/ pull.pc # pull.pc)
    BY <1>2 DEF Revoking, Bond, RevokeStart, PurgeAsk, Purge, PurgeRefused, PushAllowlist,
       RevokeFails, IssueChallenge, relay
  <2>2. bonds' \subseteq bonds \cup allow /\ allow' \subseteq allow
    BY <1>2 DEF Revoking, Bond, RevokeStart, PurgeAsk, Purge, PurgeRefused, PushAllowlist, RevokeFails
  <2>. QED
    BY <2>1, <2>2 DEF Gone
<1>3. CASE Pulling
  <2>0. UNCHANGED <<bonds, allow>>
    BY <1>3, PullingRows
  <2>1. ASSUME NEW since \in Since, NEW history \in BOOLEAN, PullStart(since, history)
        PROVE  Gone(p)'
    <3>1. pull'.peers = AllowedPeers
      BY <2>1 DEF PullStart, NoPull
    <3>. QED
      BY <2>0, <3>1, PeersAllowed DEF Gone
  <2>2. CASE pull'.pc # "asked"
    BY <2>0, <2>2 DEF Gone
  <2>3. CASE pull' = pull /\ ~\E since \in Since, history \in BOOLEAN : PullStart(since, history)
    BY <1>3, <2>0, <2>3, QuietStep DEF Gone
  <2>4. PullAnswered => pull'.pc = "loop"
    BY DEF PullAnswered, Loads, TypeInv, TypeOK
  <2>. QED
    BY <1>3, <2>1, <2>2, <2>3, <2>4, PullingKinds DEF NoPull
<1>. QED
  BY <1>1, <1>2, <1>3 DEF Next

(* A row leaves when its envelope has expired, or in a purge.              *)
LEMMA RowsLeave ==
  ASSUME TypeInv, RowInv, PeerInv, [Next]_vars, NEW r \in inbox
  PROVE  r \in inbox' \/ r.env \in expired \/ Gone(r.env.from)'
<1>0. \A gc \in BOOLEAN : r \in Kept(gc) \/ r.env \in expired
  BY DEF Kept
<1>1. CASE Sending \/ UNCHANGED vars
  BY <1>1, SendingMails DEF SentStep, SameMail, Mailed
<1>2. CASE Pulling
  BY <1>0, <1>2 DEF Pulling, PullStart, PullAnswered, PullRefused, PullFails, Answering, Take,
     FetchFails, Accept, Handle, HandleFails, SaveCursor, PullEnds, SaveMarks, ReaderCrash,
     IssueChallenge, relay
<1>3. CASE Purge
  <2>1. PICK gc \in BOOLEAN : inbox' = {x \in Kept(gc) : x.env.from \notin revoking.peer}
    BY <1>3 DEF Purge
  <2>2. challenge' = "none" /\ UNCHANGED <<bonds, allow>>
    BY <1>3 DEF Purge
  <2>3. revoking.peer \cap (bonds \cup allow) = {}
    BY DEF PeerInv
  <2>. QED
    BY <1>0, <2>1, <2>2, <2>3 DEF Gone
<1>4. CASE Revoking /\ ~Purge
  BY <1>0, <1>4 DEF Revoking, Bond, RevokeStart, PurgeAsk, PurgeRefused, PushAllowlist,
     RevokeFails, IssueChallenge, relay
<1>. QED
  BY <1>1, <1>2, <1>3, <1>4 DEF Next

LEMMA StoredStays ==
  ASSUME TypeInv, RowInv, PeerInv, [Next]_vars, NEW e, Stored(e)
  PROVE  Stored(e)'
<1>1. expired \subseteq expired'
  BY SendingMails, QuietStep DEF SentStep, Next
<1>. QED
  BY <1>1, GoneStays, RowsLeave DEF Stored

LEMMA NumberStep ==
  ASSUME TypeInv, NumberInv, [Next]_vars
  PROVE  NumberInv'
<1>0. /\ flight \in [Peer -> SUBSET Envelope] /\ high \in [Peer -> 0 .. MaxSends]
      /\ \A p \in Peer : high[p] \in Nat /\ flight[p] \subseteq Sent(p)
      /\ \A p \in Peer : \A a \in Sent(p) : a.seq \in Nat /\ a.from = p
  BY EnvelopeFacts DEF TypeInv, TypeOK, SendInv, Sent
<1>1. ASSUME UNCHANGED <<posted, high, flight>>, blemished \subseteq blemished' PROVE NumberInv'
  BY <1>1 DEF NumberInv, Sent
<1>2. ASSUME NEW p \in Peer, posted' = posted, blemished' = blemished \cup {p},
             \A q \in Peer \ {p} : high'[q] = high[q] /\ flight'[q] = flight[q]
      PROVE  NumberInv'
  BY <1>2 DEF NumberInv, Sent
<1>3. ASSUME NEW p \in Peer, SendStart(p) PROVE NumberInv'
  <2>. DEFINE n == Cardinality({x \in posted : x.from = p}) + 1
              e == [from |-> p, n |-> n, seq |-> high[p] + 1]
  <2>1. /\ flight' = [flight EXCEPT ![p] = @ \cup {e}] /\ posted' = posted \cup {e} /\ high' = high
        /\ blemished' = IF flight[p] = {} THEN blemished ELSE blemished \cup {p}
    BY <1>3 DEF SendStart
  <2>2. e.from = p /\ e.seq = high[p] + 1
    OBVIOUS
  <2>. HIDE DEF e
  <2>3. ASSUME NEW q \in Peer \ blemished', q # p
        PROVE  /\ \A a, b \in Sent(q)' : a.seq = b.seq => a = b
               /\ \A a \in Sent(q)' : \/ a.seq <= high'[q] /\ a \notin flight'[q]
                                      \/ a.seq > high'[q] /\ flight'[q] = {a}
    <3>1. Sent(q)' = Sent(q) /\ flight'[q] = flight[q] /\ q \notin blemished
      BY <1>0, <2>1, <2>2, <2>3 DEF Sent
    <3>. QED
      BY <2>1, <3>1 DEF NumberInv
  <2>4. ASSUME p \notin blemished'
        PROVE  /\ \A a, b \in Sent(p)' : a.seq = b.seq => a = b
               /\ \A a \in Sent(p)' : \/ a.seq <= high'[p] /\ a \notin flight'[p]
                                      \/ a.seq > high'[p] /\ flight'[p] = {a}
    <3>1. flight[p] = {} /\ p \notin blemished
      BY <2>1, <2>4
    <3>2. Sent(p)' = Sent(p) \cup {e} /\ flight'[p] = {e}
      BY <1>0, <2>1, <2>2, <3>1 DEF Sent
    <3>3. \A a \in Sent(p) : a.seq <= high[p]
      BY <3>1 DEF NumberInv
    <3>4. \A a \in Sent(p) : a.seq < e.seq
      BY <1>0, <2>2, <3>3
    <3>5. \A a, b \in Sent(p)' : a.seq = b.seq => a = b
      BY <1>0, <2>2, <3>1, <3>2, <3>4 DEF NumberInv
    <3>6. e.seq > high[p] /\ \A a \in Sent(p) : a # e
      BY <1>0, <2>2, <3>4
    <3>. QED
      BY <2>1, <3>2, <3>3, <3>5, <3>6
  <2>. QED
    BY <2>3, <2>4 DEF NumberInv
<1>4. ASSUME NEW p \in Peer, NEW e \in flight[p], SendOk(p, e) PROVE NumberInv'
  <2>1. /\ flight' = [flight EXCEPT ![p] = @ \ {e}]
        /\ high' = [high EXCEPT ![p] = IF e.seq > @ THEN e.seq ELSE @]
        /\ UNCHANGED <<posted, blemished>>
    BY <1>4 DEF SendOk, Landed
  <2>2. ASSUME NEW q \in Peer \ blemished', q # p
        PROVE  /\ \A a, b \in Sent(q)' : a.seq = b.seq => a = b
               /\ \A a \in Sent(q)' : \/ a.seq <= high'[q] /\ a \notin flight'[q]
                                      \/ a.seq > high'[q] /\ flight'[q] = {a}
    <3>1. Sent(q)' = Sent(q) /\ flight'[q] = flight[q] /\ high'[q] = high[q] /\ q \notin blemished
      BY <1>0, <2>1, <2>2 DEF Sent
    <3>. QED
      BY <3>1 DEF NumberInv
  <2>3. ASSUME p \notin blemished'
        PROVE  /\ \A a, b \in Sent(p)' : a.seq = b.seq => a = b
               /\ \A a \in Sent(p)' : \/ a.seq <= high'[p] /\ a \notin flight'[p]
                                      \/ a.seq > high'[p] /\ flight'[p] = {a}
    <3>1. p \notin blemished /\ e \in Sent(p) /\ Sent(p)' = Sent(p)
      BY <1>0, <2>1, <2>3 DEF Sent
    <3>2. flight[p] = {e} /\ e.seq > high[p] /\ \A a, b \in Sent(p) : a.seq = b.seq => a = b
      BY <3>1 DEF NumberInv
    <3>3. flight'[p] = {} /\ high'[p] = e.seq
      BY <1>0, <2>1, <3>2
    <3>4. \A a \in Sent(p) : a # e => a.seq <= high[p]
      BY <3>1, <3>2 DEF NumberInv
    <3>5. \A a \in Sent(p) : a.seq <= e.seq
      BY <1>0, <3>1, <3>2, <3>4
    <3>. QED
      BY <3>1, <3>2, <3>3, <3>5
  <2>. QED
    BY <2>2, <2>3 DEF NumberInv
<1>5. ASSUME NEW p \in Peer, NEW e \in flight[p], SendRefused(p, e) \/ SendFails(p, e) PROVE NumberInv'
  BY <1>0, <1>2, <1>5 DEF SendRefused, SendFails, Landed
<1>6. ASSUME NEW p \in Peer, SenderCrash(p) PROVE NumberInv'
  BY <1>0, <1>2, <1>6 DEF SenderCrash, relayHistory
<1>7. ASSUME NEW e \in posted, Repost(e) \/ Expire(e) PROVE NumberInv'
  BY <1>1, <1>7 DEF Repost, Expire, relayHistory
<1>8. CASE ChallengeExpires \/ UNCHANGED vars
  BY <1>1, <1>8 DEF ChallengeExpires, relayHistory, vars
<1>9. CASE Pulling \/ Revoking
  BY <1>1, <1>9, QuietStep
<1>. QED
  BY <1>3, <1>4, <1>5, <1>6, <1>7, <1>8, <1>9 DEF Next, Sending

(* What a pull does to its rows, and what it may answer for.               *)
LEMMA TodoSteps ==
  ASSUME TypeInv, Pulling \/ Revoking
  PROVE  /\ \A e \in examined' : e \in examined \/ \E r \in pull.todo : r.env = e
         /\ \A r \in pull'.todo : r \in pull.todo \/ r \in inbox'
         /\ \A r \in pull'.todo : ~PullAnswered => r \in pull.todo
<1>0. pull \in Pull
  BY EnvelopeFacts
<1>1. CASE Revoking
  BY <1>1, RevokingRows DEF SameReader
<1>2. CASE PullAnswered
  <2>1. PICK gc \in BOOLEAN : inbox' = Kept(gc) /\ Loads({r \in Kept(gc) : r.row > pull.since})
    BY <1>2 DEF PullAnswered
  <2>2. pull'.todo \subseteq inbox'
    BY <1>0, <2>1 DEF Loads, Pull
  <2>. QED
    BY <1>2, <2>2 DEF PullAnswered, readerHistory
<1>3. CASE Pulling /\ ~PullAnswered
  <2>1. ASSUME NEW r \in pull.todo, Answering(r)
        PROVE  examined' \subseteq examined \cup {r.env} /\ pull'.todo \subseteq pull.todo
    <3>1. Answered(r) \/ (UNCHANGED examined /\ \E pc \in {"fetch", "handle"} : pull' = [pull EXCEPT !.pc = pc])
      BY <2>1 DEF Answering, Take, FetchFails, Accept, Handle, HandleFails
    <3>. QED
      BY <1>0, <3>1 DEF Answered, Pull
  <2>2. ASSUME pull'.todo = {} \/ pull'.todo = pull.todo, UNCHANGED examined
        PROVE  examined' \subseteq examined /\ pull'.todo \subseteq pull.todo
    BY <2>2
  <2>3. ASSUME NEW since, NEW history, PullStart(since, history)
        PROVE  examined' \subseteq examined /\ pull'.todo \subseteq pull.todo
    BY <2>3 DEF PullStart, NoPull, readerHistory
  <2>4. CASE PullRefused \/ PullFails \/ PullEnds \/ ReaderCrash \/ SaveMarks
    <3>1. (pull' = NoPull \/ pull' = pull) /\ UNCHANGED examined
      BY <2>4 DEF PullRefused, PullFails, PullEnds, ReaderCrash, SaveMarks, readerHistory
    <3>2. pull'.todo = {} \/ pull'.todo = pull.todo
      BY <3>1 DEF NoPull
    <3>. QED
      BY <2>2, <3>1, <3>2
  <2>5. CASE SaveCursor
    <3>1. pull'.todo = pull.todo /\ UNCHANGED examined
      BY <1>0, <2>5 DEF SaveCursor, readerHistory, Pull
    <3>. QED
      BY <2>2, <3>1
  <2>. QED
    BY <1>3, <2>1, <2>3, <2>4, <2>5 DEF Pulling
<1>. QED
  BY <1>1, <1>2, <1>3

LEMMA StoredStep ==
  ASSUME TypeInv, RowInv, PeerInv, StoredInv, [Next]_vars
  PROVE  StoredInv'
<1>0. examined \subseteq posted /\ \A r \in pull.todo : r.env \in posted
  BY EnvelopeFacts
<1>1. CASE Sending \/ UNCHANGED vars
  <2>. SUFFICES ASSUME NEW e \in posted',
                       \/ e.from \notin blemished' /\ e \notin flight'[e.from]
                       \/ e \in examined'
                       \/ \E r \in pull'.todo : r.env = e
                PROVE  Stored(e)'
    BY DEF StoredInv
  <2>1. SentStep /\ UNCHANGED <<pull, examined>>
    BY <1>1, SendingMails DEF SentStep, reader
  <2>2. Stored(e) \/ \E r \in inbox' : r.env = e
    BY <1>0, <2>1 DEF SentStep, StoredInv
  <2>. QED
    BY <2>2, StoredStays DEF Stored
<1>2. CASE Pulling \/ Revoking
  <2>. SUFFICES ASSUME NEW e \in posted,
                       \/ e.from \notin blemished' /\ e \notin flight[e.from]
                       \/ e \in examined'
                       \/ \E r \in pull'.todo : r.env = e
                PROVE  Stored(e)'
    BY <1>2, QuietStep DEF StoredInv
  <2>1. Stored(e) \/ \E r \in inbox' : r.env = e
    BY <1>2, QuietStep, TodoSteps DEF StoredInv
  <2>. QED
    BY <2>1, StoredStays DEF Stored
<1>. QED
  BY <1>1, <1>2 DEF Next

(* Mail that comes to be due had not been stored: it is the last its peer  *)
(* has made, and no pull has seen it.                                      *)
LEMMA DueStep ==
  ASSUME TypeInv, NumberInv, StoredInv, Sending \/ UNCHANGED vars,
         NEW d \in due', d \notin due, d \notin expired
  PROVE  /\ UNCHANGED posted /\ d \in posted
         /\ d \notin examined /\ \A r \in inbox \cup pull.todo : r.env # d
         /\ d.from \in bonds /\ (pull.pc = "asked" => d.from \in pull.peers)
         /\ d.from \notin blemished => \A a \in posted : a.from = d.from /\ a # d => a.seq < d.seq
<1>1. UNCHANGED posted /\ \E e \in posted : Mailed(e)
  BY SendingMails DEF SentStep, SameMail
<1>2. /\ d \in posted /\ d.from \in bonds /\ (pull.pc = "asked" => d.from \in pull.peers)
      /\ \A r \in inbox : r.env # d
  BY <1>1 DEF Mailed
<1>3. ~Stored(d)
  BY <1>2 DEF Stored, Gone
<1>4. d \notin examined /\ \A r \in pull.todo : r.env # d
  BY <1>2, <1>3 DEF StoredInv
<1>5. ASSUME d.from \notin blemished, NEW a \in posted, a.from = d.from, a # d PROVE a.seq < d.seq
  <2>1. d \in flight[d.from] /\ d.from \in Peer /\ d \in Sent(d.from) /\ a \in Sent(d.from)
        /\ a.seq \in Nat /\ d.seq \in Nat /\ high[d.from] \in Nat
    BY <1>2, <1>3, <1>5, EnvelopeFacts DEF StoredInv, Sent
  <2>2. flight[d.from] = {d} /\ d.seq > high[d.from]
    BY <1>5, <2>1 DEF NumberInv
  <2>3. a.seq <= high[d.from]
    BY <1>5, <2>1, <2>2 DEF NumberInv
  <2>. QED
    BY <2>1, <2>2, <2>3
<1>. QED
  BY <1>1, <1>2, <1>4, <1>5

(* Nothing makes sound what was due and not sound.                         *)
LEMMA SoundStays ==
  ASSUME TypeInv, [Next]_vars, NEW e \in due
  PROVE  /\ e \in due' /\ (Sound(e)' => Sound(e)) /\ (Open(e)' => Open(e))
         /\ accepted \subseteq accepted'
<1>1. CASE Sending \/ UNCHANGED vars
  <2>1. /\ due \subseteq due' /\ expired \subseteq expired' /\ blemished \subseteq blemished'
        /\ (reused => reused') /\ accepted' = accepted
    BY <1>1, SendingMails DEF SentStep, SameMail, Mailed
  <2>. QED
    BY <2>1 DEF Sound, Open
<1>2. CASE Pulling \/ Revoking
  <2>1. UNCHANGED <<due, reused, expired>> /\ blemished \subseteq blemished'
    BY <1>2, QuietStep
  <2>2. accepted \subseteq accepted'
    BY <1>2 DEF Pulling, PullStart, PullAnswered, PullRefused, PullFails, Answering, Take,
       FetchFails, Accept, Handle, HandleFails, SaveCursor, PullEnds, SaveMarks, ReaderCrash,
       Revoking, Bond, RevokeStart, PurgeAsk, Purge, PurgeRefused, PushAllowlist, RevokeFails,
       readerHistory
  <2>. QED
    BY <2>1, <2>2 DEF Sound, Open
<1>. QED
  BY <1>1, <1>2 DEF Next

LEMMA OrderStep ==
  ASSUME Base, NumberInv, StoredInv, OrderInv, [Next]_vars
  PROVE  OrderInv'
<1>. SUFFICES ASSUME NEW e \in due', Sound(e)', NEW s \in inbox', Later(s, e)
              PROVE  Gone(e.from)' \/ Before(inbox', e, s)
  BY DEF OrderInv, Later, Before
<1>0. TypeInv /\ TypeInv' /\ RowInv /\ PeerInv
  BY TypeStep DEF Base
<1>1. /\ s.env \in posted' /\ s.row \in Nat /\ s.env.seq \in Nat /\ e.seq \in Nat /\ e.from \in Peer
      /\ s.env.from = e.from /\ s.env.seq > e.seq /\ s.env # e
  <2>1. /\ s.env \in posted' /\ s.row \in Nat /\ s.env.seq \in Nat /\ e.seq \in Nat /\ e.from \in Peer
    BY <1>0 DEF TypeInv, TypeOK, MailInv, Row, Envelope
  <2>2. s.env.from = e.from /\ s.env.seq > e.seq
    BY DEF Later
  <2>3. s.env # e
    BY <2>1, <2>2
  <2>. QED
    BY <2>1, <2>2, <2>3
<1>2. ASSUME e \in due, NEW r \in inbox, r.env = e, r.row < s.row
      PROVE  Gone(e.from)' \/ Before(inbox', e, s)
  <2>1. e \notin expired
    BY <1>0, <1>2, SoundStays DEF Sound
  <2>. QED
    BY <1>0, <1>2, <2>1, RowsLeave DEF Before
<1>3. ASSUME e \in due, s \in inbox PROVE Gone(e.from)' \/ Before(inbox', e, s)
  <2>1. Gone(e.from) \/ Before(inbox, e, s)
    BY <1>0, <1>3, SoundStays DEF OrderInv
  <2>. QED
    BY <1>0, <1>2, <1>3, <2>1, GoneStays DEF Before
<1>4. CASE Pulling \/ Revoking
  BY <1>0, <1>3, <1>4, QuietStep
<1>5. CASE Sending \/ UNCHANGED vars
  <2>1. CASE e \notin due
    <3>1. /\ posted' = posted /\ e.from \notin blemished
          /\ e.from \notin blemished => \A a \in posted : a.from = e.from /\ a # e => a.seq < e.seq
      <4>1. e \notin expired /\ e.from \notin blemished
        BY <1>0, <1>5, SendingMails DEF Sound, SentStep
      <4>. QED
        BY <1>0, <1>5, <2>1, <4>1, DueStep
    <3>2. s.env.seq < e.seq
      BY <1>1, <3>1
    <3>. QED
      BY <1>1, <3>2
  <2>2. CASE e \in due /\ s \notin inbox
    <3>0. Sound(e) /\ ~reused'
      BY <1>0, <2>2, SoundStays DEF Sound
    <3>1. s.row > top /\ s.env \in posted /\ e \in posted
      <4>1. SameMail \/ (UNCHANGED posted /\ \E a \in posted : Mailed(a))
        BY <1>0, <1>5, SendingMails DEF SentStep
      <4>2. ~SameMail
        BY <2>2 DEF SameMail
      <4>. QED
        BY <1>0, <2>2, <3>0, <4>1, <4>2, EnvelopeFacts DEF Mailed
    <3>2. e \notin flight[e.from]
      <4>1. e \in Sent(e.from) /\ s.env \in Sent(e.from) /\ high[e.from] \in Nat
        BY <1>0, <1>1, <3>1, EnvelopeFacts DEF Sent
      <4>2. e.from \in Peer \ blemished
        BY <1>1, <3>0 DEF Sound
      <4>3. \/ e.seq <= high[e.from] /\ e \notin flight[e.from]
            \/ e.seq > high[e.from] /\ flight[e.from] = {e}
        BY <4>1, <4>2 DEF NumberInv
      <4>4. \/ s.env.seq <= high[e.from] /\ s.env \notin flight[e.from]
            \/ s.env.seq > high[e.from] /\ flight[e.from] = {s.env}
        BY <4>1, <4>2 DEF NumberInv
      <4>5. CASE s.env.seq <= high[e.from]
        BY <1>1, <4>1, <4>3, <4>5
      <4>6. CASE flight[e.from] = {s.env}
        BY <1>1, <4>6
      <4>. QED
        BY <4>4, <4>5, <4>6
    <3>3. Stored(e) /\ e \notin expired
      BY <3>0, <3>1, <3>2 DEF StoredInv, Sound
    <3>4. CASE Gone(e.from)
      BY <1>0, <3>4, GoneStays
    <3>5. ASSUME NEW r \in inbox, r.env = e PROVE Gone(e.from)' \/ Before(inbox', e, s)
      <4>1. r.row <= top /\ r.row \in Nat /\ top \in Nat
        BY <1>0, EnvelopeFacts DEF RowInv
      <4>2. r.row < s.row
        BY <1>1, <3>1, <4>1
      <4>. QED
        BY <1>2, <2>2, <3>5, <4>2
    <3>. QED
      BY <3>3, <3>4, <3>5 DEF Stored
  <2>. QED
    BY <1>3, <2>1, <2>2
<1>. QED
  BY <1>4, <1>5 DEF Next

LEMMA AheadStep ==
  ASSUME Base, NumberInv, StoredInv, AheadInv, MissedInv, [Next]_vars
  PROVE  AheadInv'
<1>. SUFFICES ASSUME pull'.pc = "asked", challenge' = "pull",
                     NEW r \in inbox', Open(r.env)', r.env.from \in pull'.peers
              PROVE  r.row > pull'.since
  BY DEF AheadInv
<1>0. TypeInv /\ TypeInv' /\ RowInv /\ PeerInv /\ AskedInv /\ ShownInv
  BY TypeStep DEF Base
<1>1. r.env \in due' /\ ~reused' /\ r.env \notin expired'
  BY DEF Open, Sound
<1>2. r.row \in Nat /\ top \in Nat /\ cursor \in Nat /\ pull.since \in Nat
  BY <1>0, EnvelopeFacts DEF TypeInv, TypeOK, Row
<1>3. ASSUME r \in inbox, r.env \in due, pull' = pull, challenge = "pull" PROVE r.row > pull'.since
  BY <1>0, <1>3, SoundStays DEF AheadInv
<1>4. CASE Sending \/ UNCHANGED vars
  <2>0. SentStep /\ pull' = pull /\ challenge = "pull" /\ r.env \notin expired
    BY <1>0, <1>1, <1>4, SendingMails DEF SentStep, reader
  <2>1. CASE r \in inbox
    BY <1>0, <1>1, <1>3, <1>4, <2>0, <2>1, DueStep
  <2>2. CASE r \notin inbox
    <3>1. r.row > top
      BY <1>1, <2>0, <2>2 DEF SentStep, SameMail, Mailed
    <3>2. cursor <= top /\ pull.since <= cursor
      BY <1>0, <2>0 DEF AskedInv, ShownInv
    <3>. QED
      BY <1>2, <2>0, <3>1, <3>2
  <2>. QED
    BY <2>1, <2>2
<1>5. ASSUME NEW since \in Since, NEW history \in BOOLEAN, PullStart(since, history), Pulling
      PROVE  r.row > pull'.since
  <2>1. pull'.since = since /\ pull'.peers = AllowedPeers
    BY <1>5 DEF PullStart, NoPull
  <2>2. since \in Nat /\ since <= cursor
    <3>1. \A x \in inbox : x.row \in Nat /\ x.row # 0
      BY <1>0 DEF TypeInv, TypeOK, Row
    <3>. QED
      BY <1>2, <3>1 DEF Since
  <2>3. r \in inbox /\ r.env \in due /\ Open(r.env) /\ ~reused
    BY <1>0, <1>1, <1>5, QuietStep, SoundStays
  <2>4. r.env.from \in allow /\ r.env.from \in bonds
    BY <1>0, <2>1, <2>3, PeersAllowed DEF PeerInv
  <2>5. r.env \notin examined
    BY <2>3, <2>4 DEF MissedInv
  <2>6. ~(r.row <= cursor)
    BY <1>0, <2>3, <2>4, <2>5 DEF ShownInv, Wanted
  <2>. QED
    BY <1>2, <2>1, <2>2, <2>6
<1>6. CASE Pulling /\ ~\E since \in Since, history \in BOOLEAN : PullStart(since, history)
  <2>1. pull' = pull
    <3>1. PullAnswered => pull'.pc = "loop"
      BY <1>0 DEF PullAnswered, Loads, TypeInv, TypeOK
    <3>. QED
      BY <1>0, <1>6, <3>1, PullingKinds DEF NoPull
  <2>. QED
    BY <1>0, <1>1, <1>3, <1>6, <2>1, QuietStep
<1>7. CASE Revoking
  <2>1. pull' = pull /\ (\A since, history : ~PullStart(since, history))
    BY <1>0, <1>7, RevokingRows DEF SameReader, PullStart
  <2>. QED
    BY <1>0, <1>1, <1>3, <1>7, <2>1, QuietStep
<1>. QED
  BY <1>4, <1>5, <1>6, <1>7 DEF Next

(* A mark never refuses open mail.                                         *)
LEMMA OpenIsBeyond ==
  ASSUME TypeInv, BeyondInv, MarkedInv, NEW e \in due, Open(e)
  PROVE  e.seq > mark[e.from]
<1>1. e \in posted /\ e.from \in Peer /\ e.seq \in Nat /\ e.seq > 0 /\ mark[e.from] \in Nat
  BY EnvelopeFacts
<1>2. CASE mark[e.from] = 0
  BY <1>1, <1>2
<1>3. ASSUME NEW a \in accepted, a.from = e.from, a.seq = mark[e.from] PROVE e.seq > mark[e.from]
  <2>1. a.seq < e.seq
    BY <1>3 DEF BeyondInv
  <2>. QED
    BY <1>1, <1>3, <2>1
<1>. QED
  BY <1>1, <1>2, <1>3 DEF MarkedInv

(* What a pull answers for without accepting it, though it is open, comes  *)
(* from a peer that is allowed no more.                                    *)
LEMMA AnsweredOpen ==
  ASSUME Base, TodoInv, BeyondInv, MarkedInv, HandleInv, [Next]_vars,
         NEW r \in pull.todo, Answering(r), Answered(r), Open(r.env)', r.env \in due
  PROVE  r.env.from \notin allow /\ r.env.from \notin pull.peers
<1>0. TypeInv /\ Open(r.env) /\ Going /\ r.env \notin expired
  <2>1. TypeInv /\ Going
    BY DEF Base, Answering, Take, FetchFails, Accept, Handle, HandleFails, Going
  <2>2. Open(r.env)
    BY <2>1, SoundStays
  <2>. QED
    BY <2>1, <2>2 DEF Open, Sound
<1>1. CASE Take(r)
  <2>1. pull.pc = "loop" /\ pull \in Pull
    BY <1>0, <1>1, EnvelopeFacts DEF Take
  <2>2. ~Fresh(r.env)
    BY <1>0, <1>1, <2>1 DEF Take, Answered, Pull
  <2>3. r.env.seq > mark[r.env.from]
    BY <1>0, OpenIsBeyond
  <2>4. r.env.from \notin pull.peers
    BY <2>2, <2>3 DEF Fresh
  <2>. QED
    BY <1>0, <2>4 DEF TodoInv
<1>2. CASE FetchFails(r)
  BY <1>2 DEF FetchFails, Open, Sound
<1>3. CASE Accept(r)
  BY <1>0, <1>3, EnvelopeFacts DEF Accept, Answered, Pull
<1>4. CASE Handle(r) \/ HandleFails(r)
  BY <1>0, <1>4 DEF Handle, HandleFails, HandleInv, Open
<1>. QED
  BY <1>1, <1>2, <1>3, <1>4 DEF Answering

(* What a step of the loop leaves of the pull.                             *)
LEMMA AnsweringSteps ==
  ASSUME TypeInv, NEW r \in pull.todo, Answering(r)
  PROVE  /\ pull'.peers = pull.peers /\ UNCHANGED <<bonds, allow, due>>
         /\ \/ Answered(r) /\ pull'.todo = pull.todo \ {r}
            \/ pull'.todo = pull.todo /\ UNCHANGED examined
<1>0. pull \in Pull
  BY EnvelopeFacts
<1>1. UNCHANGED <<bonds, allow, due>>
  BY DEF Answering, Take, FetchFails, Accept, Handle, HandleFails, relayHistory
<1>2. Answered(r) \/ (UNCHANGED examined /\ \E pc \in {"fetch", "handle"} : pull' = [pull EXCEPT !.pc = pc])
  BY DEF Answering, Take, FetchFails, Accept, Handle, HandleFails
<1>3. ASSUME Answered(r) PROVE pull'.peers = pull.peers /\ pull'.todo = pull.todo \ {r}
  BY <1>0, <1>3 DEF Answered, Pull
<1>4. ASSUME NEW pc \in {"fetch", "handle"}, pull' = [pull EXCEPT !.pc = pc]
      PROVE  pull'.peers = pull.peers /\ pull'.todo = pull.todo
  BY <1>0, <1>4 DEF Pull
<1>. QED
  BY <1>1, <1>2, <1>3, <1>4

LEMMA TodoStep ==
  ASSUME Base, NumberInv, StoredInv, OrderInv, AheadInv, TodoInv, BeyondInv, MarkedInv, HandleInv,
         [Next]_vars
  PROVE  TodoInv'
<1>. SUFFICES ASSUME Going'
              PROVE  /\ \A r \in pull'.todo : r.env \in due' /\ r.env \notin expired' =>
                          r.env.from \in pull'.peers \/ r.env.from \notin allow'
                     /\ \A e \in due' : Open(e)' /\ e.from \in pull'.peers =>
                          \A s \in pull'.todo : Later(s, e) => Before(pull'.todo, e, s)
  BY DEF TodoInv, Later, Before
<1>0. TypeInv /\ PeerInv /\ AskedInv /\ pull \in Pull
  BY EnvelopeFacts DEF Base
<1>1. CASE UNCHANGED pull /\ (Pulling \/ Revoking)
  <2>1. Going /\ allow' \subseteq allow /\ UNCHANGED <<due, expired>>
    <3>1. Pulling => UNCHANGED allow
      BY <1>0, PullingRows
    <3>2. Revoking => allow' \subseteq allow
      BY DEF Revoking, Bond, RevokeStart, PurgeAsk, Purge, PurgeRefused, PushAllowlist, RevokeFails
    <3>. QED
      BY <1>0, <1>1, <3>1, <3>2, QuietStep DEF Going
  <2>. QED
    BY <1>0, <1>1, <2>1, SoundStays DEF TodoInv
<1>2. CASE Sending \/ UNCHANGED vars
  <2>1. SentStep /\ UNCHANGED <<pull, allow>> /\ Going
    BY <1>0, <1>2, SendingMails DEF SentStep, reader, Going
  <2>2. ASSUME NEW r \in pull.todo, r.env \in due', r.env \notin expired'
        PROVE  r.env.from \in pull.peers \/ r.env.from \notin allow
    <3>1. r.env \notin expired
      BY <2>1, <2>2 DEF SentStep
    <3>2. r.env \in due
      BY <1>0, <1>2, <2>2, <3>1, DueStep
    <3>. QED
      BY <2>1, <3>1, <3>2 DEF TodoInv
  <2>3. ASSUME NEW e \in due', Open(e)', e.from \in pull.peers, NEW s \in pull.todo, Later(s, e)
        PROVE  Before(pull.todo, e, s)
    <3>1. CASE e \in due
      BY <1>0, <2>1, <2>3, <3>1, SoundStays DEF TodoInv
    <3>2. CASE e \notin due
      <4>1. e \notin expired /\ e.from \notin blemished
        BY <2>1, <2>3 DEF Open, Sound, SentStep
      <4>2. e \in posted /\ \A a \in posted : a.from = e.from /\ a # e => a.seq < e.seq
        BY <1>0, <1>2, <3>2, <4>1, DueStep
      <4>3. s.env \in posted /\ s.env.seq \in Nat /\ e.seq \in Nat
        BY <1>0, <4>2, EnvelopeFacts
      <4>4. s.env.from = e.from /\ s.env.seq > e.seq
        BY <2>3 DEF Later
      <4>5. s.env # e
        BY <4>3, <4>4
      <4>6. s.env.seq < e.seq
        BY <4>2, <4>3, <4>4, <4>5
      <4>. QED
        BY <4>3, <4>4, <4>6
    <3>. QED
      BY <3>1, <3>2
  <2>. QED
    BY <2>1, <2>2, <2>3
<1>3. CASE PullAnswered
  <2>1. PICK gc \in BOOLEAN : inbox' = Kept(gc) /\ Loads({r \in Kept(gc) : r.row > pull.since})
    BY <1>3 DEF PullAnswered
  <2>2. /\ pull.pc = "asked" /\ challenge = "pull"
        /\ UNCHANGED <<due, expired, allow, bonds>>
    BY <1>3 DEF PullAnswered, relayHistory
  <2>3. /\ pull'.peers = pull.peers
        /\ pull'.todo = {r \in {x \in Kept(gc) : x.row > pull.since} : Visible(r)}
    <3>. DEFINE todo == {r \in {x \in Kept(gc) : x.row > pull.since} : Visible(r)}
    <3>1. PICK last : pull' = [pull EXCEPT !.pc = "loop", !.todo = todo, !.upto = last]
      BY <2>1 DEF Loads
    <3>. HIDE DEF todo
    <3>2. pull'.peers = pull.peers /\ pull'.todo = todo
      BY <1>0, <3>1 DEF Pull
    <3>. QED
      BY <3>2 DEF todo
  <2>4. Kept(gc) \subseteq inbox /\ \A r \in inbox : r \in Kept(gc) \/ r.env \in expired
    BY DEF Kept
  <2>5. ASSUME NEW r \in pull'.todo, r.env \in due
        PROVE  r.env.from \in pull.peers \/ r.env.from \notin allow
    BY <1>0, <2>2, <2>5 DEF PeerInv, AskedInv
  <2>6. ASSUME NEW e \in due, Open(e)', e.from \in pull.peers, NEW s \in pull'.todo, Later(s, e)
        PROVE  Before(pull'.todo, e, s)
    <3>1. Open(e) /\ Sound(e) /\ e \notin expired
      BY <1>0, <2>6, SoundStays DEF Open, Sound
    <3>2. s \in inbox /\ Visible(s) /\ s.env.from = e.from
      BY <2>3, <2>4, <2>6 DEF Later
    <3>3. Before(inbox, e, s)
      BY <2>2, <2>6, <3>1, <3>2 DEF OrderInv, Gone
    <3>4. PICK r \in inbox : r.env = e /\ r.row < s.row
      BY <3>3 DEF Before
    <3>5. r.row > pull.since
      BY <2>2, <2>6, <3>1, <3>4 DEF AheadInv
    <3>6. r \in Kept(gc) /\ Visible(r)
      BY <2>4, <3>1, <3>2, <3>4 DEF Visible
    <3>. QED
      BY <2>3, <3>4, <3>5, <3>6 DEF Before
  <2>. QED
    BY <2>2, <2>3, <2>5, <2>6
<1>4. ASSUME NEW r \in pull.todo, Answering(r), Pulling
      PROVE  /\ \A x \in pull'.todo : x.env \in due' /\ x.env \notin expired' =>
                  x.env.from \in pull'.peers \/ x.env.from \notin allow'
             /\ \A e \in due' : Open(e)' /\ e.from \in pull'.peers =>
                  \A s \in pull'.todo : Later(s, e) => Before(pull'.todo, e, s)
  <2>1. /\ pull'.peers = pull.peers /\ UNCHANGED <<allow, due, expired>> /\ Going
        /\ pull'.todo \subseteq pull.todo
    <3>1. Going
      BY <1>4 DEF Answering, Take, FetchFails, Accept, Handle, HandleFails, Going
    <3>. QED
      BY <1>0, <1>4, <3>1, AnsweringSteps, QuietStep
  <2>2. ASSUME NEW e \in due, Open(e)', e.from \in pull.peers, NEW s \in pull'.todo, Later(s, e)
        PROVE  Before(pull'.todo, e, s)
    <3>1. Before(pull.todo, e, s)
      BY <1>0, <2>1, <2>2, SoundStays DEF TodoInv
    <3>2. PICK x \in pull.todo : x.env = e /\ x.row < s.row
      BY <3>1 DEF Before
    <3>3. CASE x \in pull'.todo
      BY <3>2, <3>3 DEF Before
    <3>4. CASE x \notin pull'.todo
      <4>1. x = r /\ Answered(r)
        BY <1>0, <1>4, <3>4, AnsweringSteps
      <4>2. e.from \notin pull.peers
        BY <1>4, <2>2, <3>2, <4>1, AnsweredOpen
      <4>. QED
        BY <2>2, <4>2
    <3>. QED
      BY <3>3, <3>4
  <2>. QED
    BY <2>1, <2>2 DEF TodoInv
<1>5. CASE Pulling /\ ~PullAnswered /\ ~\E r \in pull.todo : Answering(r)
  <2>1. (\E since, history : PullStart(since, history)) => pull'.pc = "asked"
    BY DEF PullStart, NoPull
  <2>2. SaveCursor => pull'.pc = "flush"
    BY <1>0 DEF SaveCursor, Pull
  <2>3. PullRefused \/ PullFails \/ PullEnds \/ ReaderCrash => pull'.pc = "idle"
    BY DEF PullRefused, PullFails, PullEnds, ReaderCrash, NoPull
  <2>4. SaveMarks => pull' = pull
    BY DEF SaveMarks
  <2>5. pull' = pull
    BY <1>5, <2>1, <2>2, <2>3, <2>4 DEF Pulling, Going
  <2>. QED
    BY <1>1, <1>5, <2>5
<1>6. CASE Revoking
  BY <1>0, <1>1, <1>6, RevokingRows DEF SameReader
<1>. QED
  BY <1>2, <1>3, <1>4, <1>5, <1>6 DEF Next

LEMMA MissedStep ==
  ASSUME Base, NumberInv, StoredInv, TodoInv, MissedInv, BeyondInv, MarkedInv, HandleInv, [Next]_vars
  PROVE  MissedInv'
<1>. SUFFICES ASSUME NEW e \in examined', Open(e)'
              PROVE  e.from \notin allow' /\ e.from \notin pull'.peers
  BY DEF MissedInv
<1>0. TypeInv /\ PeerInv /\ pull \in Pull /\ e \in due' /\ e \notin expired'
  BY EnvelopeFacts DEF Base, Open, Sound
<1>1. ASSUME e \in examined, e \in due, allow' \subseteq allow,
             pull'.peers \subseteq pull.peers \cup allow
      PROVE  e.from \notin allow' /\ e.from \notin pull'.peers
  BY <1>0, <1>1, SoundStays DEF MissedInv
<1>2. CASE Sending \/ UNCHANGED vars
  <2>1. SentStep /\ UNCHANGED <<pull, allow, examined>> /\ e \notin expired
    BY <1>0, <1>2, SendingMails DEF SentStep, reader
  <2>. QED
    BY <1>0, <1>1, <1>2, <2>1, DueStep
<1>3. CASE Revoking
  <2>1. UNCHANGED <<pull, examined, due>>
    BY <1>0, <1>3, RevokingRows DEF SameReader, FewerRows
  <2>2. allow' \subseteq allow
    BY <1>3 DEF Revoking, Bond, RevokeStart, PurgeAsk, Purge, PurgeRefused, PushAllowlist, RevokeFails
  <2>. QED
    BY <1>0, <1>1, <2>1, <2>2
<1>4. ASSUME NEW r \in pull.todo, Answering(r) PROVE e.from \notin allow' /\ e.from \notin pull'.peers
  <2>1. pull'.peers = pull.peers /\ UNCHANGED <<allow, due>>
    BY <1>0, <1>4, AnsweringSteps
  <2>2. CASE e \in examined
    BY <1>0, <1>1, <2>1, <2>2
  <2>3. CASE e \notin examined
    <3>1. Answered(r) /\ e = r.env
      BY <1>0, <1>4, <2>3, AnsweringSteps DEF Answered
    <3>. QED
      BY <1>0, <1>4, <2>1, <3>1, AnsweredOpen
  <2>. QED
    BY <2>2, <2>3
<1>5. CASE Pulling /\ ~\E r \in pull.todo : Answering(r)
  <2>1. UNCHANGED <<examined, due, allow>>
    <3>1. UNCHANGED examined
      BY <1>5 DEF Pulling, PullStart, PullAnswered, PullRefused, PullFails, SaveCursor, PullEnds,
         SaveMarks, ReaderCrash, readerHistory
    <3>. QED
      BY <1>0, <1>5, <3>1, PullingRows DEF FewerRows
  <2>2. pull'.peers \subseteq pull.peers \cup allow
    <3>1. ASSUME NEW since, NEW history, PullStart(since, history) PROVE pull'.peers \subseteq allow
      BY <1>0, <3>1, PeersAllowed DEF PullStart, NoPull
    <3>2. PullAnswered => pull'.peers = pull.peers
      BY <1>0 DEF PullAnswered, Loads, Pull
    <3>3. SaveCursor \/ SaveMarks => pull'.peers = pull.peers
      BY <1>0 DEF SaveCursor, SaveMarks, Pull
    <3>4. PullRefused \/ PullFails \/ PullEnds \/ ReaderCrash => pull'.peers = {}
      BY DEF PullRefused, PullFails, PullEnds, ReaderCrash, NoPull
    <3>. QED
      BY <1>5, <3>1, <3>2, <3>3, <3>4 DEF Pulling
  <2>. QED
    BY <1>0, <1>1, <2>1, <2>2
<1>. QED
  BY <1>2, <1>3, <1>4, <1>5 DEF Next, Pulling

(* Only one step accepts anything or moves a mark up.                      *)
LEMMA AcceptingSteps ==
  ASSUME TypeInv, Pulling \/ Revoking
  PROVE  \/ UNCHANGED accepted /\ mark' \in {mark, saved} /\ saved' \in {saved, mark}
         \/ \E r \in pull.todo : Accept(r)
BY DEF Pulling, PullStart, PullAnswered, PullRefused, PullFails, Answering, Take,
   FetchFails, Handle, HandleFails, SaveCursor, PullEnds, SaveMarks, ReaderCrash,
   Revoking, Bond, RevokeStart, PurgeAsk, Purge, PurgeRefused, PushAllowlist, RevokeFails,
   readerHistory

LEMMA BeyondStep ==
  ASSUME Base, NumberInv, StoredInv, TodoInv, BeyondInv, [Next]_vars
  PROVE  BeyondInv'
<1>. SUFFICES ASSUME NEW e \in due', Open(e)', NEW a \in accepted', a.from = e.from
              PROVE  a.seq < e.seq
  BY DEF BeyondInv
<1>0. TypeInv /\ TypeInv' /\ RowInv /\ MarkInv
  BY TypeStep DEF Base
<1>1. a.seq \in Nat /\ e.seq \in Nat /\ e.from \in Peer /\ a # e /\ e \notin expired'
  BY <1>0, EnvelopeFacts DEF Open, Sound, TypeInv, TypeOK, Envelope
<1>2. CASE e \in due /\ a \in accepted
  BY <1>0, <1>2, SoundStays DEF BeyondInv
<1>3. CASE Sending \/ UNCHANGED vars
  <2>1. a \in accepted /\ a \in posted /\ e \notin expired /\ e.from \notin blemished
    BY <1>0, <1>1, <1>3, SendingMails, EnvelopeFacts DEF SentStep, Open, Sound
  <2>. QED
    BY <1>0, <1>1, <1>2, <1>3, <2>1, DueStep
<1>4. ASSUME Pulling, NEW r \in pull.todo, Accept(r) PROVE a.seq < e.seq
  <2>1. /\ accepted' = accepted \cup {r.env} /\ e \in due /\ pull.pc = "fetch" /\ IsFirst(r)
        /\ UNCHANGED blemished
    BY <1>4 DEF Accept, relayHistory
  <2>2. CASE a = r.env
    <3>1. Open(e) /\ e.from \notin blemished
      BY <1>0, <2>1, SoundStays DEF Open, Sound
    <3>2. a.from \in pull.peers
      BY <1>0, <2>1, <2>2 DEF MarkInv, Fresh
    <3>3. ~(a.seq > e.seq)
      <4>. SUFFICES ASSUME a.seq > e.seq PROVE FALSE
        OBVIOUS
      <4>1. Before(pull.todo, e, r)
        BY <2>1, <2>2, <3>1, <3>2 DEF TodoInv, Going, Later
      <4>2. PICK s \in pull.todo : s.row < r.row
        BY <4>1 DEF Before
      <4>3. r.row <= s.row /\ s.row \in Nat /\ r.row \in Nat
        BY <1>0, <2>1, EnvelopeFacts DEF IsFirst
      <4>. QED
        BY <4>2, <4>3
    <3>4. a.seq # e.seq
      <4>1. a \in Sent(e.from) /\ e \in Sent(e.from)
        BY <1>0, <2>1, <2>2, EnvelopeFacts DEF Sent
      <4>. QED
        BY <1>1, <3>1, <4>1 DEF NumberInv
    <3>. QED
      BY <1>1, <3>3, <3>4
  <2>. QED
    BY <1>2, <2>1, <2>2
<1>5. CASE (Pulling \/ Revoking) /\ ~\E r \in pull.todo : Accept(r)
  BY <1>0, <1>2, <1>5, AcceptingSteps, QuietStep
<1>6. CASE Revoking /\ \E r \in pull.todo : Accept(r)
  <2>1. \A r \in pull.todo : Accept(r) => pull'.pc = "handle" /\ pull.pc = "fetch"
    BY <1>0, EnvelopeFacts DEF Accept, Pull
  <2>. QED
    BY <1>0, <1>6, <2>1, RevokingRows DEF SameReader
<1>. QED
  BY <1>3, <1>4, <1>5, <1>6 DEF Next

LEMMA MarkedStep ==
  ASSUME TypeInv, MarkedInv, [Next]_vars
  PROVE  MarkedInv'
<1>0. mark \in [Peer -> 0 .. MaxSends] /\ saved \in [Peer -> 0 .. MaxSends]
  BY DEF TypeInv, TypeOK
<1>1. CASE UNCHANGED accepted /\ mark' \in {mark, saved} /\ saved' \in {saved, mark}
  BY <1>0, <1>1 DEF MarkedInv
<1>2. ASSUME NEW r \in pull.todo, Accept(r) PROVE MarkedInv'
  <2>1. /\ accepted' = accepted \cup {r.env} /\ saved' = saved
        /\ mark' = [mark EXCEPT ![r.env.from] = r.env.seq]
    BY <1>2 DEF Accept
  <2>2. \A p \in Peer : mark'[p] = mark[p] \/ (r.env.from = p /\ r.env.seq = mark'[p])
    BY <1>0, <2>1
  <2>. QED
    BY <2>1, <2>2 DEF MarkedInv
<1>3. CASE Sending \/ UNCHANGED vars
  BY <1>1, <1>3, SendingMails DEF SentStep, reader
<1>. QED
  BY <1>1, <1>2, <1>3, AcceptingSteps DEF Next

LEMMA HandleStep ==
  ASSUME TypeInv, RowInv, HandleInv, [Next]_vars
  PROVE  HandleInv'
<1>0. pull \in Pull /\ \A r \in pull.todo : r.row \in Nat
  BY EnvelopeFacts
<1>1. CASE UNCHANGED <<pull, accepted>>
  BY <1>1 DEF HandleInv, IsFirst
<1>2. CASE pull'.pc # "handle"
  BY <1>2 DEF HandleInv
<1>3. CASE Sending \/ UNCHANGED vars
  BY <1>1, <1>3, SendingMails DEF SentStep, reader
<1>4. CASE Revoking
  BY <1>0, <1>1, <1>4, RevokingRows DEF SameReader, Revoking, Bond, RevokeStart, PurgeAsk, Purge,
     PurgeRefused, PushAllowlist, RevokeFails, readerHistory
<1>5. ASSUME NEW r \in pull.todo, Accept(r) PROVE HandleInv'
  <2>1. pull'.todo = pull.todo /\ accepted' = accepted \cup {r.env} /\ IsFirst(r)
    BY <1>0, <1>5 DEF Accept, Pull
  <2>2. \A s \in pull.todo : IsFirst(s) => s = r
    BY <1>0, <2>1 DEF IsFirst, RowInv, Unique
  <2>. QED
    BY <2>1, <2>2 DEF HandleInv, IsFirst
<1>6. ASSUME NEW r \in pull.todo, Take(r) \/ FetchFails(r) \/ Handle(r) \/ HandleFails(r) PROVE HandleInv'
  BY <1>0, <1>2, <1>6 DEF Take, FetchFails, Handle, HandleFails, Answered, Pull
<1>7. ASSUME NEW since, NEW history, PullStart(since, history) PROVE HandleInv'
  BY <1>2, <1>7 DEF PullStart, NoPull
<1>8. CASE PullAnswered
  BY <1>0, <1>2, <1>8 DEF PullAnswered, Loads, Pull
<1>9. CASE PullRefused \/ PullFails \/ PullEnds \/ ReaderCrash
  BY <1>2, <1>9 DEF PullRefused, PullFails, PullEnds, ReaderCrash, NoPull
<1>10. CASE SaveCursor
  BY <1>0, <1>2, <1>10 DEF SaveCursor, Pull
<1>11. CASE SaveMarks
  BY <1>1, <1>11 DEF SaveMarks, readerHistory
<1>. QED
  BY <1>3, <1>4, <1>5, <1>6, <1>7, <1>8, <1>9, <1>10, <1>11 DEF Next, Pulling, Answering

LEMMA StaleStep ==
  ASSUME Base, NumberInv, StoredInv, BeyondInv, MarkedInv, StaleInv, [Next]_vars
  PROVE  StaleInv'
<1>0. TypeInv
  BY DEF Base
<1>1. SUFFICES stale' \subseteq examined' /\ \A e \in stale' : ~Sound(e)'
  BY DEF StaleInv, StaleWasAccepted, Sound
<1>2. stale \subseteq examined /\ \A e \in stale : ~Sound(e)
  BY DEF StaleInv, StaleWasAccepted, Sound
<1>3. ASSUME NEW e \in stale, Sound(e)' PROVE FALSE
  <2>1. e \in due' /\ e \notin expired'
    BY <1>3 DEF Sound
  <2>2. CASE e \in due
    BY <1>0, <1>2, <1>3, <2>2, SoundStays
  <2>3. CASE e \notin due
    <3>1. Sending \/ UNCHANGED vars
      BY <2>1, <2>3, QuietStep, <1>0 DEF Next
    <3>2. e \notin expired
      BY <1>0, <2>1, <3>1, SendingMails DEF SentStep
    <3>. QED
      BY <1>0, <1>2, <2>1, <2>3, <3>1, <3>2, DueStep
  <2>. QED
    BY <2>2, <2>3
<1>4. ASSUME UNCHANGED stale, examined \subseteq examined'
      PROVE  stale' \subseteq examined' /\ \A e \in stale' : ~Sound(e)'
  BY <1>2, <1>3, <1>4
<1>5. CASE Sending \/ UNCHANGED vars
  BY <1>0, <1>4, <1>5, SendingMails DEF SentStep
<1>6. ASSUME NEW r \in pull.todo, Take(r)
      PROVE  stale' \subseteq examined' /\ \A e \in stale' : ~Sound(e)'
  <2>1. CASE UNCHANGED <<stale, examined>>
    BY <1>4, <2>1
  <2>2. CASE examined' = examined \cup {r.env} /\ stale' \subseteq stale \cup {r.env}
    <3>1. ASSUME r.env \in stale', r.env \notin stale, Sound(r.env)' PROVE FALSE
      <4>1. r.env.seq <= mark[r.env.from] /\ r.env \notin accepted /\ UNCHANGED due
        BY <1>6, <3>1 DEF Take, relayHistory
      <4>2. r.env \in due
        BY <3>1, <4>1 DEF Sound
      <4>3. Open(r.env)
        BY <1>0, <3>1, <4>1, <4>2, SoundStays DEF Open
      <4>4. r.env.seq > mark[r.env.from] /\ r.env.seq \in Nat /\ mark[r.env.from] \in Nat
        BY <1>0, <4>2, <4>3, OpenIsBeyond, EnvelopeFacts
      <4>. QED
        BY <4>1, <4>4
    <3>. QED
      BY <1>2, <1>3, <2>2, <3>1
  <2>. QED
    BY <1>6, <2>1, <2>2 DEF Take, Answered
<1>7. CASE (Pulling \/ Revoking) /\ ~\E r \in pull.todo : Take(r)
  <2>1. UNCHANGED stale /\ examined \subseteq examined'
    BY <1>7 DEF Pulling, PullStart, PullAnswered, PullRefused, PullFails, Answering, Answered,
       FetchFails, Accept, Handle, HandleFails, SaveCursor, PullEnds, SaveMarks, ReaderCrash,
       Revoking, Bond, RevokeStart, PurgeAsk, Purge, PurgeRefused, PushAllowlist, RevokeFails,
       readerHistory
  <2>. QED
    BY <1>4, <2>1
<1>. QED
  BY <1>5, <1>6, <1>7 DEF Next

StreamInv ==
  /\ NumberInv /\ StoredInv /\ OrderInv /\ AheadInv /\ TodoInv
  /\ MissedInv /\ BeyondInv /\ MarkedInv /\ HandleInv /\ StaleInv

LEMMA StreamInit == Init => StreamInv
<1>. SUFFICES ASSUME Init PROVE StreamInv
  OBVIOUS
<1>1. /\ posted = {} /\ due = {} /\ inbox = {} /\ examined = {} /\ accepted = {} /\ stale = {}
      /\ pull.pc = "idle" /\ pull.todo = {} /\ saved = mark /\ \A p \in Peer : mark[p] = 0
  BY DEF Init, NoPull
<1>2. \A p \in Peer : Sent(p) = {}
  BY <1>1 DEF Sent
<1>3. NumberInv /\ StoredInv /\ OrderInv
  BY <1>1, <1>2 DEF NumberInv, StoredInv, OrderInv
<1>4. AheadInv /\ TodoInv /\ MissedInv /\ BeyondInv /\ HandleInv
  BY <1>1 DEF AheadInv, TodoInv, Going, MissedInv, BeyondInv, HandleInv
<1>5. MarkedInv /\ StaleInv
  BY <1>1 DEF MarkedInv, StaleInv, StaleWasAccepted
<1>. QED
  BY <1>3, <1>4, <1>5 DEF StreamInv

LEMMA StreamStep == Base /\ StreamInv /\ [Next]_vars => StreamInv'
<1>. SUFFICES ASSUME Base, StreamInv, [Next]_vars PROVE StreamInv'
  OBVIOUS
<1>0. TypeInv /\ RowInv /\ PeerInv
  BY DEF Base
<1>1. NumberInv' /\ StoredInv'
  BY <1>0, NumberStep, StoredStep DEF StreamInv
<1>2. OrderInv' /\ AheadInv' /\ TodoInv'
  BY OrderStep, AheadStep, TodoStep DEF StreamInv
<1>3. MissedInv' /\ BeyondInv'
  BY MissedStep, BeyondStep DEF StreamInv
<1>4. MarkedInv' /\ HandleInv' /\ StaleInv'
  BY <1>0, MarkedStep, HandleStep, StaleStep DEF StreamInv
<1>. QED
  BY <1>1, <1>2, <1>3, <1>4 DEF StreamInv

(* As long as no row number is given twice, an envelope of a peer without  *)
(* failed, overlapping or forgotten sends and without failed fetches is    *)
(* refused as stale only after it was accepted, or when it has expired,    *)
(* whatever pulls are repeated, purged or cut off by a restart.            *)
THEOREM StaleSafety == Spec => []StaleWasAccepted
<1>1. Init => Base /\ StreamInv
  BY TypeInit, RowInit, ShownInit, StreamInit DEF Base
<1>2. Base /\ StreamInv /\ [Next]_vars => Base' /\ StreamInv'
  <2>1. Base /\ [Next]_vars => Base'
    BY TypeStep, RowStep, MarkStep, PeerStep, AskedStep, ShownStep DEF Base
  <2>. QED
    BY <2>1, StreamStep
<1>3. StreamInv => StaleWasAccepted
  BY DEF StreamInv, StaleInv
<1>. QED
  BY <1>1, <1>2, <1>3, PTL DEF Spec
=============================================================================
