---------------------------- MODULE NegoSession ----------------------------
(***************************************************************************)
(* One negotiation thread between the two bonded hosts that share it: the  *)
(* session record each host keeps, the human gates each host queues, and   *)
(* the relay inboxes that carry their envelopes.                           *)
(*                                                                         *)
(* A host is named by the role it plays on the thread, so the roles of a   *)
(* session record and the hosts are one set.  Every handler of a host runs *)
(* without interruption up to its first await; the part a handler executes *)
(* after an await that follows its send is an action of its own            *)
(* (SignFinish, RatifyFinish, CloseMark, CloseFinish), working on the      *)
(* session record it captured before the await.                            *)
(*                                                                         *)
(* The budget extension protocol and the atest signing gate are not part   *)
(* of this module: max_turns never changes here and the gate never         *)
(* refuses a signature.                                                    *)
(***************************************************************************)
EXTENDS Naturals, Sequences

CONSTANTS
  Hash,       \* artifact hashes an agent may sign
  NoHash,     \* the absent hash
  MaxTurns,   \* budget.max_turns of the session
  MaxSigns,   \* bound: calls of handleSign per host
  MaxLoss,    \* bound: envelopes the network loses
  MaxCrash,   \* bound: process restarts
  Clocks,     \* hosts whose clock may pass the deadline or the open TTL
  Closers,    \* hosts whose agent may close the thread
  Revokers,   \* hosts whose agent may revoke the bond
  Ephemeral   \* TRUE when the bond is an ephemeral one

Initiator == "initiator"
Recipient == "recipient"
Host == {Initiator, Recipient}

ASSUME NoHashAssumption == NoHash \notin Hash
ASSUME BoundsAssumption ==
  /\ MaxTurns \in Nat /\ MaxSigns \in Nat /\ MaxLoss \in Nat /\ MaxCrash \in Nat
  /\ Clocks \subseteq Host /\ Closers \subseteq Host /\ Revokers \subseteq Host
  /\ Ephemeral \in BOOLEAN

VARIABLES
  sess,       \* per host: its SessionRecord
  openPend,   \* the recipient holds a session_open pending item
  ratPend,    \* per host: the hash of its ratify pending item, or NoHash
  budPend,    \* per host: a numberless budget_extend pending item exists
  bond,       \* per host: its bond, and its own allowlist entry, for the peer
  closedT,    \* per host: the thread is in its closed-threads store
  allow,      \* per host: the relay's copy of its allowlist admits the peer
  box,        \* per host: its relay inbox after the saved cursor
  batch,      \* per host: envelopes of the pull in progress, not yet dispatched
  got,        \* per host: how many rows of box the pull in progress fetched
  signing,    \* per host: the record handleSign captured, while it awaits its send
  ratifying,  \* per host: record and hash handleRatify captured, while it awaits its send
  closing,    \* per host: progress of a thread close
  late,       \* per host: its clock is past budget.deadline
  ttlOut,     \* per host: its clock is past expiresAt
  losses,     \* envelopes lost so far
  crashes,    \* restarts so far
  signs,      \* per host: calls of handleSign so far
  approved,   \* history: the recipient's human approved the opening
  signedBy,   \* history: per host, the hashes its agent signed
  ratifiedBy  \* history: per host, the hashes its human ratified

gates == <<openPend, ratPend, budPend>>
wire == <<box, batch, got, losses, allow>>
async == <<signing, ratifying, closing>>
env == <<late, ttlOut, crashes>>
ghosts == <<signs, approved, signedBy, ratifiedBy>>
vars == <<sess, gates, bond, closedT, wire, async, env, ghosts>>

-----------------------------------------------------------------------------
(* Session records                                                         *)

Peer(h) == IF h = Initiator THEN Recipient ELSE Initiator

Status == {"absent", "pending", "live", "signed", "closed",
           "open_rejected", "open_expired"}
Terminal == {"closed", "open_rejected", "open_expired"}
Reason == {"none", "rejected", "bond_revoked", "deadline_expired", "thread_closed"}

Session ==
  [status : Status, turns : 0 .. MaxTurns, sign : [Host -> Hash \cup {NoHash}],
   art : Hash \cup {NoHash}, rat : [Host -> BOOLEAN],
   co : Hash \cup {NoHash}, why : Reason]

Absent ==
  [status |-> "absent", turns |-> 0, sign |-> [r \in Host |-> NoHash],
   art |-> NoHash, rat |-> [r \in Host |-> FALSE], co |-> NoHash, why |-> "none"]

Fresh == [Absent EXCEPT !.status = "pending"]

BothSigned(s) == \A r \in Host : s.sign[r] # NoHash
BothRatified(s) == \A r \in Host : s.rat[r]

Message ==
  [type : {"open", "open_approved", "open_reject", "open_expired",
           "turn", "signed", "ratified", "close"},
   hash : Hash \cup {NoHash}]

(* A host without a suspended handler captured nothing.                    *)
NoSnap == Absent
NoRatifying == [snap |-> NoSnap, hash |-> NoHash]

(* A thread close under way: handleClose sent core.close, or marked the    *)
(* thread closed; or the inbox marked it for a core.close it received.     *)
Closing == {"no", "sent", "marked", "heard"}

(* min(expiresAt, deadline) lies in the past.                              *)
OpenExpired(h) == late[h] \/ ttlOut[h]

(* Mutant of Ensured: the handler never looks at the deadline.             *)
EnsuredNever(h) == sess[h]

(* The record a handler works on: a live session past its deadline is      *)
(* closed before the handler looks at it.                                  *)
Ensured(h) ==
  IF sess[h].status = "live" /\ late[h]
    THEN [sess[h] EXCEPT !.status = "closed", !.why = "deadline_expired"]
    ELSE sess[h]

Put(h, s) == sess' = [sess EXCEPT ![h] = s]

(* Leaving live removes the thread's budget_extend pending item.           *)
SweepBudget(h, s) ==
  budPend' = [budPend EXCEPT ![h] = @ /\ (sess[h].status = "live" => s.status = "live")]

(* An exhausted budget queues a numberless budget_extend item.             *)
QueueBudget(h) == budPend' = [budPend EXCEPT ![h] = TRUE]

(* The ratify item host h holds after ensureRatifyPending saw record s.    *)
RatPendAfter(h, s) ==
  IF /\ s.status \in {"signed", "closed"}
     /\ s.why # "bond_revoked"
     /\ bond[h]
     /\ ~s.rat[h]
     /\ ratPend[h] = NoHash
  THEN s.art ELSE ratPend[h]

EnsureRatify(h, s) == ratPend' = [ratPend EXCEPT ![h] = RatPendAfter(h, s)]
DropRatify(h) == ratPend' = [ratPend EXCEPT ![h] = NoHash]
DropOpen(h) == openPend' = (openPend /\ h # Recipient)

-----------------------------------------------------------------------------
(* The wire                                                                *)

(* relay.send by host h: stored, refused by a closed thread or by the      *)
(* peer's allowlist, or lost.  The callers below ignore the result.        *)
Send(h, type, hash) ==
  \/ /\ allow[Peer(h)] /\ ~closedT[h]
     /\ box' = [box EXCEPT ![Peer(h)] = Append(@, [type |-> type, hash |-> hash])]
     /\ UNCHANGED losses
  \/ /\ ~allow[Peer(h)] \/ closedT[h]
     /\ UNCHANGED <<box, losses>>
  \/ /\ losses < MaxLoss
     /\ losses' = losses + 1
     /\ UNCHANGED box

(* handleInbox fetches what lies behind the cursor; the set of bonded      *)
(* peers is read here, once for the whole pull.                            *)
Pull(h) ==
  /\ bond[h] /\ got[h] = 0 /\ box[h] # <<>>
  /\ batch' = [batch EXCEPT ![h] = box[h]]
  /\ got' = [got EXCEPT ![h] = Len(box[h])]
  /\ UNCHANGED <<sess, gates, bond, closedT, box, losses, allow, async, env, ghosts>>

(* The loop over the pulled envelopes is done: the cursor is saved.        *)
EndPull(h) ==
  /\ got[h] > 0 /\ batch[h] = <<>> /\ closing[h] # "heard"
  /\ box' = [box EXCEPT ![h] = SubSeq(@, got[h] + 1, Len(@))]
  /\ got' = [got EXCEPT ![h] = 0]
  /\ UNCHANGED <<sess, gates, bond, closedT, batch, losses, allow, async, env, ghosts>>

(* The next envelope of the pull is of the given type and leaves the       *)
(* batch; the loop stands still while it handles a core.close.             *)
Take(h, type) ==
  /\ closing[h] # "heard"
  /\ batch[h] # <<>> /\ Head(batch[h]).type = type
  /\ batch' = [batch EXCEPT ![h] = Tail(@)]

-----------------------------------------------------------------------------
(* Opening                                                                 *)

Open ==
  /\ sess[Initiator].status = "absent"
  /\ bond[Initiator] /\ ~late[Initiator]
  /\ Put(Initiator, Fresh)
  /\ Send(Initiator, "open", NoHash)
  /\ UNCHANGED <<gates, bond, closedT, batch, got, allow, async, env, ghosts>>

(* An expired request: the record is open_expired and the gate is gone.    *)
ExpiredOpen(h) == [sess[h] EXCEPT !.status = "open_expired"]

(* Mutant of RecvOpen: the request goes live without asking the human.     *)
RecvOpenUngated ==
  LET h == Recipient IN
  /\ Take(h, "open")
  /\ Put(h, [Fresh EXCEPT !.status = "live"])
  /\ UNCHANGED <<gates, bond, closedT, box, losses, got, allow, async, env, ghosts>>

RecvOpen ==
  LET h == Recipient  s == Ensured(h) IN
  /\ Take(h, "open")
  /\ \/ /\ s.status = "absent" /\ ~late[h]
        /\ Put(h, Fresh) /\ openPend' = TRUE
        /\ UNCHANGED <<budPend, box, losses>>
     \/ /\ s.status = "absent" /\ late[h]
        /\ Put(h, [Fresh EXCEPT !.status = "open_expired"])
        /\ Send(h, "open_expired", NoHash)
        /\ UNCHANGED <<openPend, budPend>>
     \/ /\ s.status = "pending"
        /\ Put(h, IF OpenExpired(h) THEN ExpiredOpen(h) ELSE s)
        /\ openPend' = ~OpenExpired(h)
        /\ UNCHANGED <<budPend, box, losses>>
     \/ /\ s.status \notin {"absent", "pending"}
        /\ Put(h, s) /\ SweepBudget(h, s)
        /\ UNCHANGED <<openPend, box, losses>>
  /\ UNCHANGED <<ratPend, bond, closedT, got, allow, async, env, ghosts>>

(* The human decided on the session_open item after it had expired.        *)
DecideTooLate ==
  LET h == Recipient IN
  /\ openPend /\ OpenExpired(h)
  /\ Put(h, ExpiredOpen(h)) /\ openPend' = FALSE
  /\ Send(h, "open_expired", NoHash)
  /\ UNCHANGED <<ratPend, budPend, bond, closedT, batch, got, allow, async, env, ghosts>>

ApproveOpen ==
  LET h == Recipient IN
  /\ openPend /\ ~OpenExpired(h)
  /\ Put(h, [sess[h] EXCEPT !.status = "live"]) /\ openPend' = FALSE
  /\ Send(h, "open_approved", NoHash)
  /\ approved' = TRUE
  /\ UNCHANGED <<ratPend, budPend, bond, closedT, batch, got, allow, async, env,
                 signs, signedBy, ratifiedBy>>

RejectOpen ==
  LET h == Recipient IN
  /\ openPend /\ ~OpenExpired(h)
  /\ Put(h, [sess[h] EXCEPT !.status = "open_rejected", !.why = "rejected"])
  /\ openPend' = FALSE
  /\ Send(h, "open_reject", NoHash)
  /\ UNCHANGED <<ratPend, budPend, bond, closedT, batch, got, allow, async, env, ghosts>>

(* Mutant of RecvOpenApproved: the approval is read and not recorded.      *)
RecvOpenApprovedUnrecorded ==
  LET h == Initiator IN
  /\ Take(h, "open_approved")
  /\ Put(h, Ensured(h)) /\ SweepBudget(h, Ensured(h))
  /\ UNCHANGED <<openPend, ratPend, bond, closedT, box, got, losses, allow, async, env, ghosts>>

RecvOpenApproved ==
  LET h == Initiator  s == Ensured(h) IN
  /\ Take(h, "open_approved")
  /\ Put(h, IF s.status \in Terminal \cup {"absent"} THEN s
            ELSE [s EXCEPT !.status = "live"])
  /\ SweepBudget(h, s)
  /\ UNCHANGED <<openPend, ratPend, bond, closedT, box, got, losses, allow, async, env, ghosts>>

RecvOpenReject ==
  LET h == Initiator  s == Ensured(h) IN
  /\ Take(h, "open_reject")
  /\ Put(h, IF s.status \in {"absent", "open_rejected", "closed"} THEN s
            ELSE [s EXCEPT !.status = "open_rejected", !.why = "rejected"])
  /\ SweepBudget(h, s)
  /\ UNCHANGED <<openPend, ratPend, bond, closedT, box, got, losses, allow, async, env, ghosts>>

RecvOpenExpired ==
  LET h == Initiator  s == Ensured(h) IN
  /\ Take(h, "open_expired")
  /\ Put(h, IF s.status \in {"absent", "open_expired", "closed"} THEN s
            ELSE [s EXCEPT !.status = "open_expired"])
  /\ SweepBudget(h, s)
  /\ UNCHANGED <<openPend, ratPend, bond, closedT, box, got, losses, allow, async, env, ghosts>>

(* Mutant of ExpireSessions: the request expires, its gate stays.          *)
ExpireSessionsKeepsGate(h) ==
  /\ sess[h].status = "pending" /\ OpenExpired(h)
  /\ Put(h, ExpiredOpen(h))
  /\ UNCHANGED <<gates, bond, closedT, wire, async, env, ghosts>>

(* handleExpireSessions: run by the inbox and the status tools.            *)
ExpireSessions(h) ==
  LET s == IF sess[h].status = "pending" /\ OpenExpired(h) THEN ExpiredOpen(h)
           ELSE Ensured(h) IN
  /\ Put(h, s) /\ SweepBudget(h, s)
  /\ openPend' = (openPend /\ (h = Recipient => s.status = "pending"))
  /\ IF s.status = "closed" \/ s.rat[h] THEN DropRatify(h) ELSE UNCHANGED ratPend
  /\ IF s.status # sess[h].status /\ s.status = "open_expired" /\ h = Recipient
       THEN Send(h, "open_expired", NoHash)
       ELSE UNCHANGED <<box, losses>>
  /\ UNCHANGED <<bond, closedT, batch, got, allow, async, env, ghosts>>

(* handleStatus: re-queues gates that were lost, and may expire a request  *)
(* without telling the peer.                                               *)
ReadStatus(h) ==
  LET asked == sess[h].status = "pending" /\ h = Recipient
      s == IF asked /\ OpenExpired(h) THEN ExpiredOpen(h) ELSE Ensured(h) IN
  /\ sess[h].status # "absent"
  /\ Put(h, s) /\ SweepBudget(h, s) /\ EnsureRatify(h, s)
  /\ openPend' = IF asked THEN ~OpenExpired(h) ELSE openPend
  /\ UNCHANGED <<bond, closedT, wire, async, env, ghosts>>

-----------------------------------------------------------------------------
(* Turns                                                                   *)

Turn(h) ==
  LET s == Ensured(h) IN
  /\ \/ /\ s.status \notin {"live", "signed"}
        /\ Put(h, s) /\ SweepBudget(h, s)
        /\ UNCHANGED <<box, losses>>
     \/ /\ s.status \in {"live", "signed"} /\ s.turns >= MaxTurns
        /\ QueueBudget(h)
        /\ UNCHANGED <<sess, box, losses>>
     \/ /\ s.status \in {"live", "signed"} /\ s.turns < MaxTurns
        /\ Put(h, [s EXCEPT !.turns = @ + 1])
        /\ Send(h, "turn", NoHash)
        /\ UNCHANGED budPend
  /\ UNCHANGED <<openPend, ratPend, bond, closedT, batch, got, allow, async, env, ghosts>>

(* Mutant of RecvTurn: a received turn is counted without the budget guard.*)
RecvTurnUnguarded(h) ==
  LET s == Ensured(h) IN
  /\ Take(h, "turn")
  /\ Put(h, IF s.status = "live" THEN [s EXCEPT !.turns = @ + 1] ELSE s)
  /\ SweepBudget(h, s)
  /\ UNCHANGED <<openPend, ratPend, bond, closedT, box, got, losses, allow, async, env, ghosts>>

RecvTurn(h) ==
  LET s == Ensured(h) IN
  /\ Take(h, "turn")
  /\ \/ /\ s.status # "live"
        /\ Put(h, s) /\ SweepBudget(h, s)
     \/ /\ s.status = "live" /\ s.turns >= MaxTurns
        /\ QueueBudget(h)
        /\ UNCHANGED sess
     \/ /\ s.status = "live" /\ s.turns < MaxTurns
        /\ Put(h, [s EXCEPT !.turns = @ + 1])
        /\ UNCHANGED budPend
  /\ UNCHANGED <<openPend, ratPend, bond, closedT, box, got, losses, allow, async, env, ghosts>>

-----------------------------------------------------------------------------
(* Signing                                                                 *)

(* Record s after role r signed hash x: the current artifact becomes x,    *)
(* and the session is signed once both roles have a hash.                  *)
WithSign(s, r, x) ==
  LET t == [s EXCEPT !.sign[r] = x, !.art = x] IN
  [t EXCEPT !.status = IF BothSigned(t) THEN "signed" ELSE @]

Sign(h, x) ==
  LET s == Ensured(h)  t == WithSign(s, h, x) IN
  /\ signs[h] < MaxSigns /\ signing[h] = NoSnap
  /\ signs' = [signs EXCEPT ![h] = @ + 1]
  /\ \/ /\ s.status \notin {"live", "signed"}
        /\ Put(h, s) /\ SweepBudget(h, s)
        /\ UNCHANGED <<box, losses, signing, signedBy>>
     \/ /\ s.status \in {"live", "signed"}
        /\ Put(h, t) /\ SweepBudget(h, t)
        /\ Send(h, "signed", x)
        /\ signing' = IF t.status = "signed" THEN [signing EXCEPT ![h] = t] ELSE signing
        /\ signedBy' = [signedBy EXCEPT ![h] = @ \cup {x}]
  /\ UNCHANGED <<openPend, ratPend, bond, closedT, batch, got, allow, ratifying, closing,
                 env, approved, ratifiedBy>>

(* The rest of handleSign, after its send: the captured record decides     *)
(* whether a ratify item is queued.                                        *)
SignFinish(h) ==
  /\ signing[h] # NoSnap
  /\ EnsureRatify(h, signing[h])
  /\ signing' = [signing EXCEPT ![h] = NoSnap]
  /\ UNCHANGED <<sess, openPend, budPend, bond, closedT, wire, ratifying, closing, env, ghosts>>

(* Mutant of RecvSigned: no check for a terminal session.                  *)
RecvSignedAnyStatus(h) ==
  LET t == WithSign(sess[h], Peer(h), Head(batch[h]).hash) IN
  /\ Take(h, "signed")
  /\ Put(h, t) /\ SweepBudget(h, t) /\ EnsureRatify(h, t)
  /\ UNCHANGED <<openPend, bond, closedT, box, got, losses, allow, async, env, ghosts>>

RecvSigned(h) ==
  LET s == Ensured(h)
      x == Head(batch[h]).hash
      t == IF s.status \in Terminal \cup {"absent"} THEN s ELSE WithSign(s, Peer(h), x) IN
  /\ Take(h, "signed")
  /\ Put(h, t) /\ SweepBudget(h, t) /\ EnsureRatify(h, t)
  /\ UNCHANGED <<openPend, bond, closedT, box, got, losses, allow, async, env, ghosts>>

-----------------------------------------------------------------------------
(* Ratification                                                            *)

(* finalizeSession: record s becomes the co-signed one; an ephemeral bond  *)
(* and its allowlist entry go with it.                                     *)
Finalize(h, s, x) ==
  /\ Put(h, [s EXCEPT !.status = "closed", !.art = x, !.co = x])
  /\ bond' = IF Ephemeral THEN [bond EXCEPT ![h] = FALSE] ELSE bond

(* Mutant of Ratify: one human's ratification is taken for both.           *)
RatifyAlone(h) ==
  LET s == [sess[h] EXCEPT !.rat[h] = TRUE] IN
  /\ ratPend[h] # NoHash /\ ratifying[h] = NoRatifying
  /\ Put(h, s) /\ DropRatify(h)
  /\ Send(h, "ratified", ratPend[h])
  /\ ratifying' = [ratifying EXCEPT ![h] = [snap |-> s, hash |-> ratPend[h]]]
  /\ ratifiedBy' = [ratifiedBy EXCEPT ![h] = @ \cup {ratPend[h]}]
  /\ UNCHANGED <<openPend, budPend, bond, closedT, batch, got, allow, signing, closing,
                 env, signs, approved, signedBy>>

Ratify(h) ==
  LET s == [sess[h] EXCEPT !.rat[h] = TRUE] IN
  /\ ratPend[h] # NoHash /\ ratifying[h] = NoRatifying
  /\ sess[h].status \in {"signed", "closed"}
  /\ Put(h, s) /\ DropRatify(h)
  /\ Send(h, "ratified", ratPend[h])
  /\ ratifying' = IF BothRatified(s)
                    THEN [ratifying EXCEPT ![h] = [snap |-> s, hash |-> ratPend[h]]]
                    ELSE ratifying
  /\ ratifiedBy' = [ratifiedBy EXCEPT ![h] = @ \cup {ratPend[h]}]
  /\ UNCHANGED <<openPend, budPend, bond, closedT, batch, got, allow, signing, closing,
                 env, signs, approved, signedBy>>

(* Mutant of RatifyFinish: handleRatify returns after its send.            *)
RatifyFinishNever(h) ==
  /\ ratifying[h] # NoRatifying
  /\ ratifying' = [ratifying EXCEPT ![h] = NoRatifying]
  /\ UNCHANGED <<sess, gates, bond, closedT, wire, signing, closing, env, ghosts>>

(* The rest of handleRatify, after its send.                               *)
RatifyFinish(h) ==
  /\ ratifying[h] # NoRatifying
  /\ Finalize(h, ratifying[h].snap, ratifying[h].hash)
  /\ ratifying' = [ratifying EXCEPT ![h] = NoRatifying]
  /\ UNCHANGED <<gates, closedT, wire, signing, closing, env, ghosts>>

(* The human declines, or approves while the record is neither signed nor  *)
(* closed and is refused: only the pending item goes.                      *)
DeclineRatify(h) ==
  /\ ratPend[h] # NoHash
  /\ DropRatify(h)
  /\ UNCHANGED <<sess, openPend, budPend, bond, closedT, wire, async, env, ghosts>>

(* Mutant of RecvRatified: the peer's ratification finalizes on its own.   *)
RecvRatifiedAlone(h) ==
  LET s == Ensured(h)  t == [s EXCEPT !.rat[Peer(h)] = TRUE] IN
  /\ Take(h, "ratified")
  /\ SweepBudget(h, s)
  /\ IF s.status \notin Terminal \cup {"absent"} /\ t.art # NoHash
       THEN Finalize(h, t, t.art)
       ELSE Put(h, s) /\ UNCHANGED bond
  /\ UNCHANGED <<openPend, ratPend, closedT, box, got, losses, allow, async, env, ghosts>>

RecvRatified(h) ==
  LET s == Ensured(h)  t == [s EXCEPT !.rat[Peer(h)] = TRUE] IN
  /\ Take(h, "ratified")
  /\ SweepBudget(h, s)
  /\ \/ /\ s.status \in Terminal \cup {"absent"}
        /\ Put(h, s) /\ UNCHANGED bond
     \/ /\ s.status \notin Terminal \cup {"absent"}
        /\ IF BothRatified(t) /\ t.art # NoHash
             THEN Finalize(h, t, t.art)
             ELSE Put(h, t) /\ UNCHANGED bond
  /\ UNCHANGED <<openPend, ratPend, closedT, box, got, losses, allow, async, env, ghosts>>

-----------------------------------------------------------------------------
(* Closing and revoking                                                    *)

(* handleClose sends core.close before anything else; it stops there when  *)
(* the send reports a failure, which may hide a stored envelope.           *)
CloseSend(h) ==
  /\ h \in Closers /\ closing[h] = "no"
  /\ ~closedT[h] /\ bond[h] /\ sess[h].status # "absent"
  /\ \/ /\ allow[Peer(h)]
        /\ closing' = [closing EXCEPT ![h] = "sent"]
        /\ UNCHANGED losses
     \/ /\ allow[Peer(h)] /\ losses < MaxLoss
        /\ losses' = losses + 1
        /\ UNCHANGED closing
  /\ box' = [box EXCEPT ![Peer(h)] = Append(@, [type |-> "close", hash |-> NoHash])]
  /\ UNCHANGED <<sess, gates, bond, closedT, batch, got, allow, signing, ratifying, env, ghosts>>

CloseMark(h) ==
  /\ closing[h] = "sent"
  /\ closedT' = [closedT EXCEPT ![h] = TRUE]
  /\ closing' = [closing EXCEPT ![h] = "marked"]
  /\ UNCHANGED <<sess, gates, bond, wire, signing, ratifying, env, ghosts>>

(* core.close is no session type: the inbox handles it itself, and marks   *)
(* the thread closed before the session machine hears of it.               *)
RecvClose(h) ==
  /\ Take(h, "close")
  /\ closedT' = [closedT EXCEPT ![h] = TRUE]
  /\ closing' = IF closedT[h] THEN closing ELSE [closing EXCEPT ![h] = "heard"]
  /\ UNCHANGED <<sess, gates, bond, box, got, losses, allow, signing, ratifying, env, ghosts>>

(* Mutant of CloseFinish: only a live session is closed with its thread.   *)
CloseFinishLiveOnly(h) ==
  LET s == Ensured(h)
      t == IF s.status = "live"
             THEN [s EXCEPT !.status = "closed", !.why = "thread_closed"] ELSE s IN
  /\ closing[h] \in {"marked", "heard"}
  /\ closing' = [closing EXCEPT ![h] = "no"]
  /\ Put(h, t) /\ SweepBudget(h, t)
  /\ UNCHANGED <<openPend, ratPend, bond, closedT, wire, signing, ratifying, env, ghosts>>

(* handleThreadClose, once the closed-threads store is flushed.            *)
CloseFinish(h) ==
  LET s == Ensured(h)
      t == IF s.status \in Terminal \cup {"absent"} THEN s
           ELSE [s EXCEPT !.status = "closed", !.why = "thread_closed"] IN
  /\ closing[h] \in {"marked", "heard"}
  /\ closing' = [closing EXCEPT ![h] = "no"]
  /\ Put(h, t) /\ SweepBudget(h, t)
  /\ IF s.status = "pending" THEN DropOpen(h) ELSE UNCHANGED openPend
  /\ IF s.status = "signed" THEN DropRatify(h) ELSE UNCHANGED ratPend
  /\ UNCHANGED <<bond, closedT, wire, signing, ratifying, env, ghosts>>

(* Mutant of Revoke: the closed session is stripped of its signatures.     *)
RevokeForgets(h) ==
  /\ h \in Revokers
  /\ Put(h, [Absent EXCEPT !.status = "closed", !.why = "bond_revoked"])
  /\ DropOpen(h) /\ DropRatify(h)
  /\ bond' = [bond EXCEPT ![h] = FALSE]
  /\ UNCHANGED <<budPend, closedT, wire, async, env, ghosts>>

(* handleRevoke: the session machine closes the session and drops every    *)
(* gate, the bond and the allowlist entry go, then the relay is told; the  *)
(* relay part may fail and is then only reported.                          *)
Revoke(h) ==
  LET s == sess[h]
      t == IF s.status \in {"pending", "live", "signed"}
             THEN [s EXCEPT !.status = "closed", !.why = "bond_revoked"] ELSE s IN
  /\ h \in Revokers
  /\ Put(h, t) /\ DropOpen(h) /\ DropRatify(h)
  /\ budPend' = [budPend EXCEPT ![h] = FALSE]
  /\ bond' = [bond EXCEPT ![h] = FALSE]
  /\ \/ /\ allow' = [allow EXCEPT ![h] = FALSE]
        /\ box' = [g \in Host |-> IF g = h \/ ~allow[g] THEN <<>> ELSE box[g]]
        /\ got' = [g \in Host |-> IF box'[g] = <<>> THEN 0 ELSE got[g]]
        /\ UNCHANGED losses
     \/ /\ losses < MaxLoss
        /\ losses' = losses + 1
        /\ UNCHANGED <<allow, box, got>>
  /\ UNCHANGED <<closedT, batch, async, env, ghosts>>

-----------------------------------------------------------------------------
(* The environment                                                         *)

(* A process restart: suspended handlers and the pull in progress are      *)
(* gone, pending items and a closed-thread mark not yet flushed are gone,  *)
(* and the rows pulled since the saved cursor come back unless their       *)
(* sequence number was flushed.                                            *)
Crash(h) ==
  /\ crashes < MaxCrash
  /\ crashes' = crashes + 1
  /\ signing' = [signing EXCEPT ![h] = NoSnap]
  /\ ratifying' = [ratifying EXCEPT ![h] = NoRatifying]
  /\ closing' = [closing EXCEPT ![h] = "no"]
  /\ batch' = [batch EXCEPT ![h] = <<>>]
  /\ got' = [got EXCEPT ![h] = 0]
  /\ \E k \in 0 .. got[h] :
       /\ k + Len(batch[h]) <= got[h]
       /\ box' = [box EXCEPT ![h] = SubSeq(@, k + 1, Len(@))]
  /\ \E kept \in BOOLEAN : openPend' = (openPend /\ (h = Recipient => kept))
  /\ \E kept \in BOOLEAN :
       closedT' = [closedT EXCEPT ![h] = @ /\ (closing[h] \in {"marked", "heard"} => kept)]
  /\ \E x \in {ratPend[h], NoHash} : ratPend' = [ratPend EXCEPT ![h] = x]
  /\ \E kept \in BOOLEAN : budPend' = [budPend EXCEPT ![h] = @ /\ kept]
  /\ UNCHANGED <<sess, bond, losses, allow, late, ttlOut, ghosts>>

DeadlinePasses(h) ==
  /\ h \in Clocks /\ ~late[h]
  /\ late' = [late EXCEPT ![h] = TRUE]
  /\ UNCHANGED <<sess, gates, bond, closedT, wire, async, ttlOut, crashes, ghosts>>

OpenTtlPasses(h) ==
  /\ h \in Clocks /\ ~ttlOut[h] /\ sess[h].status # "absent"
  /\ ttlOut' = [ttlOut EXCEPT ![h] = TRUE]
  /\ UNCHANGED <<sess, gates, bond, closedT, wire, async, late, crashes, ghosts>>

-----------------------------------------------------------------------------
Init ==
  /\ sess = [h \in Host |-> Absent]
  /\ openPend = FALSE
  /\ ratPend = [h \in Host |-> NoHash]
  /\ budPend = [h \in Host |-> FALSE]
  /\ bond = [h \in Host |-> TRUE]
  /\ closedT = [h \in Host |-> FALSE]
  /\ allow = [h \in Host |-> TRUE]
  /\ box = [h \in Host |-> <<>>]
  /\ batch = [h \in Host |-> <<>>]
  /\ got = [h \in Host |-> 0]
  /\ signing = [h \in Host |-> NoSnap]
  /\ ratifying = [h \in Host |-> NoRatifying]
  /\ closing = [h \in Host |-> "no"]
  /\ late = [h \in Host |-> FALSE]
  /\ ttlOut = [h \in Host |-> FALSE]
  /\ losses = 0
  /\ crashes = 0
  /\ signs = [h \in Host |-> 0]
  /\ approved = FALSE
  /\ signedBy = [h \in Host |-> {}]
  /\ ratifiedBy = [h \in Host |-> {}]

(* The inbox loop of a host: a pull, and one envelope after the other.     *)
Receive(h) ==
  \/ (h = Recipient /\ RecvOpen)
  \/ (h = Initiator /\ (RecvOpenApproved \/ RecvOpenReject \/ RecvOpenExpired))
  \/ RecvTurn(h)
  \/ RecvSigned(h)
  \/ RecvRatified(h)
  \/ RecvClose(h)

(* What a host does without being asked again: suspended handlers resume.  *)
Resume(h) == SignFinish(h) \/ RatifyFinish(h) \/ CloseMark(h) \/ CloseFinish(h)

HumanStep(h) ==
  \/ (h = Recipient /\ (ApproveOpen \/ RejectOpen \/ DecideTooLate))
  \/ Ratify(h)
  \/ DeclineRatify(h)

AgentStep(h) ==
  \/ (h = Initiator /\ Open)
  \/ Turn(h)
  \/ \E x \in Hash : Sign(h, x)
  \/ CloseSend(h)
  \/ Revoke(h)
  \/ ExpireSessions(h)
  \/ ReadStatus(h)

EnvStep(h) == Crash(h) \/ DeadlinePasses(h) \/ OpenTtlPasses(h)

Next == \E h \in Host :
  Pull(h) \/ EndPull(h) \/ Receive(h) \/ Resume(h) \/ HumanStep(h) \/ AgentStep(h) \/ EnvStep(h)

Spec == Init /\ [][Next]_vars

(* The scheduling the code provides: suspended handlers resume, and a host *)
(* that keeps reading its inbox works through what is there.               *)
Fairness == \A h \in Host :
  WF_vars(Pull(h)) /\ WF_vars(EndPull(h)) /\ WF_vars(Receive(h)) /\ WF_vars(Resume(h))

FairSpec == Spec /\ Fairness

-----------------------------------------------------------------------------
(* Properties                                                              *)

(* What the two humans are promised: see CoSignConsent.                    *)
Consent == INSTANCE CoSignConsent WITH
  Party <- Host,
  opened <- approved,
  ratified <- {h \in Host : ratifiedBy[h] # {}},
  cosigned <- {h \in Host : sess[h].co # NoHash}

(* The session with all its losses, restarts and races implements the      *)
(* consent contract.                                                       *)
ConsentSpec == Consent!Spec

(* Every variable stays in its type.                                       *)
TypeOK ==
  /\ sess \in [Host -> Session]
  /\ openPend \in BOOLEAN
  /\ ratPend \in [Host -> Hash \cup {NoHash}]
  /\ budPend \in [Host -> BOOLEAN]
  /\ bond \in [Host -> BOOLEAN]
  /\ closedT \in [Host -> BOOLEAN]
  /\ allow \in [Host -> BOOLEAN]
  /\ box \in [Host -> Seq(Message)]
  /\ batch \in [Host -> Seq(Message)]
  /\ got \in [Host -> Nat]
  /\ signing \in [Host -> Session]
  /\ ratifying \in [Host -> [snap : Session, hash : Hash \cup {NoHash}]]
  /\ closing \in [Host -> Closing]
  /\ late \in [Host -> BOOLEAN]
  /\ ttlOut \in [Host -> BOOLEAN]
  /\ losses \in Nat
  /\ crashes \in Nat
  /\ signs \in [Host -> Nat]
  /\ approved \in BOOLEAN
  /\ signedBy \in [Host -> SUBSET Hash]
  /\ ratifiedBy \in [Host -> SUBSET Hash]

(* Ratification gate (SPEC 8.4): a host holds a co-signed record only when *)
(* the human of each side ratified the thread, whatever was lost, crashed, *)
(* re-signed or closed on the way.                                         *)
CoSignNeedsBothHumans ==
  \A h \in Host : sess[h].co # NoHash => \A g \in Host : ratifiedBy[g] # {}

(* Opening gate (SPEC 8.4): no host treats the session as live or signed,  *)
(* counts a turn or holds a signature unless the recipient's human         *)
(* approved the opening.                                                   *)
LiveNeedsRecipientHuman ==
  \A h \in Host :
    \/ sess[h].status \in {"live", "signed"}
    \/ sess[h].turns > 0
    \/ sess[h].sign # Absent.sign
    => approved

(* What a record may hold, given the recipient's approval ap and the       *)
(* ratifications rb so far.                                                *)
RecordGrounded(s, ap, rb) ==
  /\ \/ s.status \in {"live", "signed"} \/ s.turns > 0 \/ s.sign # Absent.sign
     \/ s.art # NoHash
     => ap
  /\ \A g \in Host : s.rat[g] => rb[g] # {}
  /\ s.co # NoHash => s.status # "absent" /\ \A g \in Host : rb[g] # {}

(* What an envelope on its way to host h stands for.                       *)
TypeGrounded(type, h, ap, rb) ==
  /\ type \in {"open_approved", "turn", "signed", "ratified"} => ap
  /\ type = "ratified" => rb[Peer(h)] # {}

RecordsGrounded == \A h \in Host : RecordGrounded(sess[h], approved, ratifiedBy)
InboxesGrounded == \A h \in Host : \A i \in DOMAIN box[h] :
  TypeGrounded(box[h][i].type, h, approved, ratifiedBy)
BatchesGrounded == \A h \in Host : \A i \in DOMAIN batch[h] :
  TypeGrounded(batch[h][i].type, h, approved, ratifiedBy)
GatesGrounded == \A h \in Host : ratPend[h] # NoHash \/ signing[h] # NoSnap => approved
HandlersGrounded == \A h \in Host : ratifying[h] # NoRatifying =>
  /\ approved /\ ratifying[h].hash # NoHash
  /\ \A g \in Host : ratifiedBy[g] # {}

(* The inductive invariant of the consent contract: every record, gate,    *)
(* envelope and suspended handler is grounded in what the humans decided,  *)
(* so nothing read late, twice or after a restart can be their substitute. *)
ConsentInv ==
  RecordsGrounded /\ InboxesGrounded /\ BatchesGrounded /\ GatesGrounded /\ HandlersGrounded

(* A human is asked to approve an opening only while the request is        *)
(* pending: no handler that ends the request leaves its gate behind, so    *)
(* handleApproveOpen, which does not look at the status, revives nothing.  *)
OpenGateIsForPending == openPend => sess[Recipient].status = "pending"

(* A terminal session stays terminal, and a closed one stays closed: late  *)
(* envelopes, redelivered ones, gates re-queued for it and suspended       *)
(* handlers all leave it alone.                                            *)
TerminalIsFinal ==
  [][\A h \in Host : sess[h].status \in Terminal =>
       /\ sess'[h].status \in Terminal
       /\ sess[h].status = "closed" => sess'[h].status = "closed"]_vars

(* Evidence (N5): a recorded signature is never erased, not by revoking,   *)
(* closing or expiring, and not by a suspended handler that writes back an *)
(* older copy of the record.                                               *)
EvidenceIsKept ==
  [][\A h, r \in Host : sess[h].sign[r] # NoHash => sess'[h].sign[r] # NoHash]_vars

(* The deadline is local (N7): once a host's clock is past it, the next    *)
(* step that touches a live session closes it; no turn, signature or       *)
(* status change slips in first.                                           *)
DeadlineIsLocal ==
  [][\A h \in Host : late[h] /\ sess[h].status = "live" =>
       sess'[h] = sess[h] \/ sess'[h].status = "closed"]_vars

(* Once both humans ratified, both hosts end with the co-signed record,    *)
(* in whichever order the two decisions, the two ratified envelopes and    *)
(* the two suspended handlers run.                                         *)
RatifiedByBothIsCoSigned ==
  (\A h \in Host : ratifiedBy[h] # {}) ~> (\A h \in Host : sess[h].co # NoHash)

(* The recipient's approval reaches the initiator, whatever the recipient  *)
(* sends after it.                                                         *)
ApprovalReachesInitiator ==
  approved ~> sess[Initiator].status \notin {"absent", "pending"}

(* SPEC 8.3, last row: a core.close ends the session in any state.  Once   *)
(* the thread is marked closed and no close is under way, no session is    *)
(* left open on it: the mark is what makes every later core.close a no-op. *)
(* (A restart between the mark and the end of the session leaves one open, *)
(* so this is about hosts that do not restart.)                            *)
ClosedThreadIsOver ==
  \A h \in Host : closedT[h] /\ closing[h] = "no" =>
    sess[h].status \notin {"pending", "live", "signed"}

(* SPEC 8.3, N5: a session closed because its bond was revoked stays       *)
(* closed for that reason, and is not co-signed afterwards.                *)
RevokedStaysRevoked ==
  [][\A h \in Host : sess[h].why = "bond_revoked" =>
       sess'[h].why = "bond_revoked" /\ sess'[h].co = sess[h].co]_vars
==============================================================================
