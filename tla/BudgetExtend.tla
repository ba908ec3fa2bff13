---------------------------- MODULE BudgetExtend ----------------------------
(***************************************************************************)
(* The budget extension of a live negotiation (SPEC 8.3, N4): a host's     *)
(* agent drafts a higher max_turns, its human approves, the proposal goes  *)
(* to the peer, whose human approves or rejects, and the answer comes back.*)
(*                                                                         *)
(* Two hosts, named by their roles, hold a copy of the session each.  A    *)
(* handler runs without interruption up to its send.  What it does once    *)
(* the send returned is to write back a record it computed from the one it *)
(* captured before: such a write is kept in suspended until it happens     *)
(* (Resume).  A send that fails, or whose answer is lost after the relay   *)
(* stored the envelope, writes nothing back; the next pull of the inbox    *)
(* sends the envelope again.                                               *)
(*                                                                         *)
(* A proposal stands for its proposal_id, its new_max_turns and the role   *)
(* that proposed it, which travel together in every item and payload.      *)
(***************************************************************************)
EXTENDS Naturals, Sequences

CONSTANTS
  Base,         \* budget.max_turns of the opening
  Num,          \* numbers an agent may draft
  MaxDrafts,    \* bound: drafts per host
  MaxLoss,      \* bound: sends that fail or whose answer is lost
  MaxCrash,     \* bound: process restarts
  Overlapping,  \* hosts whose handlers run while another one awaits its send
  Leavers,      \* hosts where the session may leave live
  None,         \* no proposal, no pending item
  Numberless    \* the pending item queued when the budget is exhausted

Initiator == "initiator"
Recipient == "recipient"
Host == {Initiator, Recipient}
Peer(h) == IF h = Initiator THEN Recipient ELSE Initiator

Proposal == [by : Host, n : 1 .. MaxDrafts, num : Num]

ASSUME NumAssumption == Base \in Nat /\ Num \subseteq Nat
ASSUME BoundsAssumption ==
  /\ MaxDrafts \in Nat /\ MaxLoss \in Nat /\ MaxCrash \in Nat
  /\ Overlapping \subseteq Host /\ Leavers \subseteq Host
ASSUME NoneAssumption == None \notin Proposal /\ Numberless \notin Proposal /\ None # Numberless

VARIABLES
  sess,       \* per host: what its SessionRecord holds of the budget
  pend,       \* per host: its budget_extend pending item
  suspended,  \* per host: the writes of handlers that await their send
  box,        \* per host: envelopes on their way to it
  left,       \* per host: how many of them the pull in progress has yet to dispatch
  drafts,     \* per host: drafts so far
  losses,     \* failed sends so far
  crashes,    \* restarts so far
  agreed      \* history: per host, the proposals its human approved

bounds == <<drafts, losses, crashes>>
vars == <<sess, pend, suspended, box, left, bounds, agreed>>

Emitting == {"emitting", "approved_emitting", "rejected_emitting"}
NoExtension == [p |-> None, st |-> "none"]
Extension == [p : Proposal, st : Emitting \cup {"awaiting_peer"}] \cup {NoExtension}

(* extensionDecided is read for the ids it holds only.                     *)
Session == [live : BOOLEAN, max : {Base} \cup Num, turns : Nat,
            ext : Extension, decided : SUBSET Proposal]

TurnMessage == [type |-> "turn", p |-> None]
Message == [type : {"propose", "approved", "reject"}, p : Proposal] \cup {TurnMessage}

Write == [kind : {"emit", "retry", "race"}, p : Proposal, to : Session]

-----------------------------------------------------------------------------
(* Helpers                                                                 *)

Put(h, s) == sess' = [sess EXCEPT ![h] = s]
SetPend(h, i) == pend' = [pend EXCEPT ![h] = i]

(* Handlers of a host that does not overlap wait for each other.           *)
Free(h) == h \in Overlapping \/ suspended[h] = {}

(* The inbox tool handles one envelope after the other, and waits for the  *)
(* retry before its pull and for the send of a handler it called.          *)
InboxFree(h) == Free(h) /\ \A w \in suspended[h] : w.kind = "emit"

HasOwnExtension(s, h) == s.ext # NoExtension /\ s.ext.p.by = h

Outstanding(h) ==
  sess[h].ext # NoExtension \/ (pend[h] \in Proposal /\ pend[h].by # h)

EnvelopeOf(e) ==
  [type |-> CASE e.st = "emitting" -> "propose"
              [] e.st = "approved_emitting" -> "approved"
              [] OTHER -> "reject",
   p |-> e.p]

(* The record once the envelope of its extension is out.                   *)
Emitted(s) ==
  [s EXCEPT !.ext = IF @.st = "emitting" THEN [@ EXCEPT !.st = "awaiting_peer"]
                    ELSE NoExtension]

(* Inboxes b once h posted m to its peer.                                  *)
Posted(b, h, m) == [b EXCEPT ![Peer(h)] = Append(@, m)]

(* The send reports success, and write w follows.                          *)
Sent(h, m, w) ==
  /\ box' = Posted(box, h, m)
  /\ suspended' = [suspended EXCEPT ![h] = @ \cup {w}]
  /\ UNCHANGED losses

(* It reports a failure, whether or not the relay stored the envelope.     *)
NotSent(h, m) ==
  /\ losses < MaxLoss /\ losses' = losses + 1
  /\ box' \in {box, Posted(box, h, m)}
  /\ UNCHANGED suspended

(* Mutant of Emit: the record written back after the send is the one from  *)
(* before the handler raised the budget.                                   *)
EmitStale(h, s) ==
  LET w == [kind |-> "emit", p |-> s.ext.p,
            to |-> Emitted([sess[h] EXCEPT !.ext = s.ext])] IN
  /\ Put(h, s)
  /\ Sent(h, EnvelopeOf(s.ext), w) \/ NotSent(h, EnvelopeOf(s.ext))

(* emitBudgetEnvelope for a record s whose extension is to be sent.        *)
Emit(h, s) ==
  LET w == [kind |-> "emit", p |-> s.ext.p, to |-> Emitted(s)] IN
  /\ Put(h, s)
  /\ Sent(h, EnvelopeOf(s.ext), w) \/ NotSent(h, EnvelopeOf(s.ext))

(* A turn beyond the budget asks the human, unless that is under way.      *)
QueueBudget(h) ==
  SetPend(h, IF sess[h].ext = NoExtension /\ pend[h] = None THEN Numberless ELSE pend[h])

-----------------------------------------------------------------------------
(* Agent and human                                                         *)

(* handleExtendBudget: the draft replaces an earlier one.                  *)
Extend(h) ==
  \E p \in [by : {h}, n : {drafts[h] + 1}, num : Num] :
    /\ Free(h) /\ sess[h].live /\ ~Outstanding(h)
    /\ p.num > sess[h].max /\ p.n <= MaxDrafts
    /\ SetPend(h, p)
    /\ drafts' = [drafts EXCEPT ![h] = @ + 1]
    /\ UNCHANGED <<sess, suspended, box, left, losses, crashes, agreed>>

(* Mutant of Approve: the human of the proposer is enough.                 *)
ApproveAlone(h) ==
  LET p == pend[h] IN
  /\ Free(h) /\ sess[h].live /\ p \in Proposal
  /\ SetPend(h, None)
  /\ agreed' = [agreed EXCEPT ![h] = @ \cup {p}]
  /\ Emit(h, [sess[h] EXCEPT !.max = p.num, !.decided = @ \cup {p},
              !.ext = [p |-> p, st |-> IF p.by = h THEN "emitting" ELSE "approved_emitting"]])
  /\ UNCHANGED <<left, drafts, crashes>>

(* handleApproveBudgetExtend: an own draft is proposed to the peer; the    *)
(* peer's proposal raises the budget here, and the peer is told.           *)
Approve(h) ==
  LET p == pend[h] IN
  /\ Free(h) /\ sess[h].live /\ p \in Proposal
  /\ SetPend(h, None)
  /\ agreed' = [agreed EXCEPT ![h] = @ \cup {p}]
  /\ Emit(h, IF p.by = h
               THEN [sess[h] EXCEPT !.ext = [p |-> p, st |-> "emitting"]]
               ELSE [sess[h] EXCEPT !.max = p.num, !.decided = @ \cup {p},
                                    !.ext = [p |-> p, st |-> "approved_emitting"]])
  /\ UNCHANGED <<left, drafts, crashes>>

(* handleRejectBudgetExtend: only the peer's proposal needs an answer.     *)
Reject(h) ==
  LET p == pend[h] IN
  /\ Free(h) /\ sess[h].live /\ p # None
  /\ SetPend(h, None)
  /\ IF p \in Proposal /\ p.by # h
       THEN Emit(h, [sess[h] EXCEPT !.decided = @ \cup {p},
                                    !.ext = [p |-> p, st |-> "rejected_emitting"]])
       ELSE UNCHANGED <<sess, suspended, box, losses>>
  /\ UNCHANGED <<left, drafts, crashes, agreed>>

Turn(h) ==
  /\ Free(h) /\ sess[h].live
  /\ \/ /\ sess[h].turns >= sess[h].max
        /\ QueueBudget(h)
        /\ UNCHANGED <<sess, box>>
     \/ /\ sess[h].turns < sess[h].max
        /\ Put(h, [sess[h] EXCEPT !.turns = @ + 1])
        /\ box' = Posted(box, h, TurnMessage)
        /\ UNCHANGED pend
  /\ UNCHANGED <<suspended, left, bounds, agreed>>

(* The session leaves live, for any of the reasons it can: the record is   *)
(* swept of its extension, the pending item goes.                          *)
LeaveLive(h) ==
  /\ h \in Leavers /\ Free(h) /\ sess[h].live
  /\ Put(h, [sess[h] EXCEPT !.live = FALSE, !.ext = NoExtension])
  /\ SetPend(h, None)
  /\ UNCHANGED <<suspended, box, left, bounds, agreed>>

-----------------------------------------------------------------------------
(* The inbox                                                               *)

(* Mutant of NeedsRetry: whatever the extension is, it is sent again.      *)
NeedsRetryAlways(h) == sess[h].live

NeedsRetry(h) == sess[h].live /\ sess[h].ext.st \in Emitting

(* Mutant of Retry: an answer that was not sent is forgotten.              *)
RetryProposalsOnly(h) ==
  LET s == sess[h]
      w == [kind |-> "retry", p |-> s.ext.p, to |-> Emitted(s)] IN
  /\ InboxFree(h) /\ left[h] = 0 /\ NeedsRetry(h)
  /\ IF s.ext.st = "emitting"
       THEN \/ Sent(h, EnvelopeOf(s.ext), w) /\ UNCHANGED <<left, sess>>
            \/ /\ NotSent(h, EnvelopeOf(s.ext))
               /\ left' = [left EXCEPT ![h] = Len(box[h])]
               /\ UNCHANGED sess
       ELSE /\ Put(h, Emitted(s))
            /\ left' = [left EXCEPT ![h] = Len(box[h])]
            /\ UNCHANGED <<suspended, box, losses>>
  /\ UNCHANGED <<pend, drafts, crashes, agreed>>

(* handleInbox first retries an envelope that did not get out, once, and   *)
(* goes on with its pull whether that succeeds or not.                     *)
Retry(h) ==
  LET s == sess[h]
      w == [kind |-> "retry", p |-> s.ext.p, to |-> Emitted(s)] IN
  /\ InboxFree(h) /\ left[h] = 0 /\ NeedsRetry(h)
  /\ \/ Sent(h, EnvelopeOf(s.ext), w) /\ UNCHANGED left
     \/ NotSent(h, EnvelopeOf(s.ext)) /\ left' = [left EXCEPT ![h] = Len(box[h])]
  /\ UNCHANGED <<sess, pend, drafts, crashes, agreed>>

Pull(h) ==
  /\ InboxFree(h) /\ left[h] = 0 /\ ~NeedsRetry(h) /\ box[h] # <<>>
  /\ left' = [left EXCEPT ![h] = Len(box[h])]
  /\ UNCHANGED <<sess, pend, suspended, box, bounds, agreed>>

(* The next envelope of the pull, if it is of this type.                   *)
IsNext(h, type) ==
  /\ InboxFree(h) /\ left[h] > 0 /\ Head(box[h]).type = type
  /\ left' = [left EXCEPT ![h] = @ - 1]

Taken(h) == [box EXCEPT ![h] = Tail(@)]
Take(h, type) == IsNext(h, type) /\ box' = Taken(h)

RecvTurn(h) ==
  /\ Take(h, "turn")
  /\ \/ ~sess[h].live /\ UNCHANGED <<sess, pend>>
     \/ /\ sess[h].live /\ sess[h].turns >= sess[h].max
        /\ QueueBudget(h) /\ UNCHANGED sess
     \/ /\ sess[h].live /\ sess[h].turns < sess[h].max
        /\ Put(h, [sess[h] EXCEPT !.turns = @ + 1]) /\ UNCHANGED pend
  /\ UNCHANGED <<suspended, bounds, agreed>>

(* A proposal nobody here has to look at (any more).                       *)
Ignored(h, p) ==
  \/ ~sess[h].live
  \/ p.num <= sess[h].max
  \/ p \in sess[h].decided
  \/ pend[h] = p
  \/ sess[h].ext = [p |-> p, st |-> "awaiting_peer"]

RecvProposeIgnored(h) ==
  /\ Take(h, "propose") /\ Ignored(h, Head(box[h]).p)
  /\ UNCHANGED <<sess, pend, suspended, bounds, agreed>>

(* It becomes the pending item, in the place of a draft.                   *)
RecvProposeQueued(h) ==
  LET p == Head(box[h]).p IN
  /\ Take(h, "propose") /\ ~Ignored(h, p) /\ ~HasOwnExtension(sess[h], h)
  /\ SetPend(h, p)
  /\ UNCHANGED <<sess, suspended, bounds, agreed>>

(* Both hosts proposed.  The initiator's proposal stands: it rejects the   *)
(* other one, and writes its captured record once the send is over,        *)
(* successful or not.                                                      *)
RecvProposeWins ==
  LET h == Initiator  p == Head(box[h]).p
      m == [type |-> "reject", p |-> p]
      w == [kind |-> "race", p |-> p, to |-> [sess[h] EXCEPT !.decided = @ \cup {p}]] IN
  /\ IsNext(h, "propose") /\ ~Ignored(h, p) /\ HasOwnExtension(sess[h], h)
  /\ suspended' = [suspended EXCEPT ![h] = @ \cup {w}]
  /\ \/ box' = Posted(Taken(h), h, m) /\ UNCHANGED losses
     \/ /\ losses < MaxLoss /\ losses' = losses + 1
        /\ box' \in {Taken(h), Posted(Taken(h), h, m)}
  /\ UNCHANGED <<sess, pend, drafts, crashes, agreed>>

(* Mutant of RecvProposeYields: the recipient's proposal stands, too.      *)
RecvProposeStands ==
  LET h == Recipient  p == Head(box[h]).p IN
  /\ Take(h, "propose") /\ ~Ignored(h, p) /\ HasOwnExtension(sess[h], h)
  /\ Put(h, [sess[h] EXCEPT !.decided = @ \cup {p}])
  /\ UNCHANGED <<pend, suspended, bounds, agreed>>

(* The recipient drops its own proposal for the initiator's.               *)
RecvProposeYields ==
  LET h == Recipient  p == Head(box[h]).p IN
  /\ Take(h, "propose") /\ ~Ignored(h, p) /\ HasOwnExtension(sess[h], h)
  /\ Put(h, [sess[h] EXCEPT !.ext = NoExtension, !.decided = @ \cup {sess[h].ext.p}])
  /\ SetPend(h, p)
  /\ UNCHANGED <<suspended, bounds, agreed>>

RecvApproved(h) ==
  LET p == Head(box[h]).p  s == sess[h] IN
  /\ Take(h, "approved")
  /\ IF s.live /\ p.num > s.max /\ s.ext = [p |-> p, st |-> "awaiting_peer"]
       THEN Put(h, [s EXCEPT !.max = p.num, !.decided = @ \cup {p}, !.ext = NoExtension])
       ELSE UNCHANGED sess
  /\ UNCHANGED <<pend, suspended, bounds, agreed>>

RecvReject(h) ==
  LET p == Head(box[h]).p  s == sess[h] IN
  /\ Take(h, "reject")
  /\ IF s.live /\ s.ext.p = p
       THEN Put(h, [s EXCEPT !.decided = @ \cup {p}, !.ext = NoExtension])
       ELSE UNCHANGED sess
  /\ UNCHANGED <<pend, suspended, bounds, agreed>>

-----------------------------------------------------------------------------
(* Suspended handlers and restarts                                         *)

(* A send is over: the record is written back as it was captured.  A retry *)
(* is followed by the pull it preceded.                                    *)
Resume(h) ==
  \E w \in suspended[h] :
    /\ Put(h, w.to)
    /\ suspended' = [suspended EXCEPT ![h] = @ \ {w}]
    /\ left' = IF w.kind = "retry" THEN [left EXCEPT ![h] = Len(box[h])] ELSE left
    /\ UNCHANGED <<pend, box, bounds, agreed>>

(* A restart: suspended handlers are gone, an unflushed pending item too.  *)
Crash(h) ==
  /\ crashes < MaxCrash /\ crashes' = crashes + 1
  /\ suspended' = [suspended EXCEPT ![h] = {}]
  /\ left' = [left EXCEPT ![h] = 0]
  /\ \E i \in {pend[h], None} : SetPend(h, i)
  /\ UNCHANGED <<sess, box, drafts, losses, agreed>>

-----------------------------------------------------------------------------
Init ==
  /\ sess = [h \in Host |-> [live |-> TRUE, max |-> Base, turns |-> 0,
                             ext |-> NoExtension, decided |-> {}]]
  /\ pend = [h \in Host |-> None]
  /\ suspended = [h \in Host |-> {}]
  /\ box = [h \in Host |-> <<>>]
  /\ left = [h \in Host |-> 0]
  /\ drafts = [h \in Host |-> 0]
  /\ losses = 0 /\ crashes = 0
  /\ agreed = [h \in Host |-> {}]

Dispatch(h) ==
  \/ RecvTurn(h)
  \/ RecvProposeIgnored(h)
  \/ RecvProposeQueued(h)
  \/ (h = Initiator /\ RecvProposeWins)
  \/ (h = Recipient /\ RecvProposeYields)
  \/ RecvApproved(h)
  \/ RecvReject(h)

Next == \E h \in Host :
  \/ Extend(h) \/ Approve(h) \/ Reject(h) \/ Turn(h) \/ LeaveLive(h)
  \/ Retry(h) \/ Pull(h) \/ Dispatch(h) \/ Resume(h) \/ Crash(h)

Spec == Init /\ [][Next]_vars

(* Sends return, and a host keeps reading its inbox.                       *)
Fairness == \A h \in Host :
  WF_vars(Resume(h)) /\ WF_vars(Retry(h)) /\ WF_vars(Pull(h)) /\ WF_vars(Dispatch(h))

FairSpec == Spec /\ Fairness
-----------------------------------------------------------------------------
(* Properties                                                              *)

(* Every variable stays in its type.                                       *)
TypeOK ==
  /\ sess \in [Host -> Session]
  /\ pend \in [Host -> Proposal \cup {None, Numberless}]
  /\ suspended \in [Host -> SUBSET Write]
  /\ box \in [Host -> Seq(Message)]
  /\ left \in [Host -> Nat] /\ \A h \in Host : left[h] <= Len(box[h])
  /\ drafts \in [Host -> Nat]
  /\ losses \in Nat /\ crashes \in Nat
  /\ agreed \in [Host -> SUBSET Proposal]

AgreedByBoth == agreed[Initiator] \cap agreed[Recipient]

(* N4: a host's max_turns is the one of the opening or one that both       *)
(* humans approved in one proposal, whatever was sent twice, lost, raced   *)
(* for, or written back late.                                              *)
MaxNeedsBothHumans ==
  \A h \in Host : sess[h].max # Base =>
    \E p \in AgreedByBoth : sess[h].max = p.num

(* What a record of host h may hold, given what the humans approved, ag.   *)
RecordGrounded(s, h, ag) ==
  LET both == ag[Initiator] \cap ag[Recipient] IN
  /\ s.max # Base => \E p \in both : s.max = p.num
  /\ s.ext.st \in {"emitting", "awaiting_peer"} => s.ext.p \in ag[h]
  /\ s.ext.st = "approved_emitting" => s.ext.p \in both

(* What an envelope on its way to host h stands for.                       *)
MessageGrounded(m, h, ag) ==
  /\ m.type = "propose" => m.p \in ag[Peer(h)]
  /\ m.type = "approved" => m.p \in ag[Initiator] \cap ag[Recipient]

RecordsGrounded == \A h \in Host : RecordGrounded(sess[h], h, agreed)
WritesGrounded == \A h \in Host : \A w \in suspended[h] : RecordGrounded(w.to, h, agreed)
InboxesGrounded == \A h \in Host : \A i \in DOMAIN box[h] : MessageGrounded(box[h][i], h, agreed)
ItemsGrounded == \A h \in Host :
  pend[h] \in Proposal /\ pend[h].by # h => pend[h] \in agreed[Peer(h)]

(* The inductive invariant of N4: whatever a record, a suspended write, an *)
(* envelope or a pending item can contribute to max_turns is grounded in   *)
(* what the humans approved.                                               *)
BudgetInv == RecordsGrounded /\ WritesGrounded /\ InboxesGrounded /\ ItemsGrounded

(* max_turns is never lowered: not by a proposal that comes late or twice, *)
(* and not by the record a handler writes back after its send.             *)
MaxNeverFalls == [][\A h \in Host : sess'[h].max >= sess[h].max]_vars

InFlight(h, type, p) ==
  \E i \in DOMAIN box[h] : box[h][i] = [type |-> type, p |-> p]

BothLive == \A h \in Host : sess[h].live

(* A proposer that waits for its peer has something to wait for: the       *)
(* proposal or the answer is on its way, the peer's human or the peer's    *)
(* retry still has it, or the initiator's own proposal, sent or to be sent *)
(* again, is about to replace the recipient's.                             *)
AwaitedIsComing ==
  BothLive => \A h \in Host : LET p == sess[h].ext.p  g == Peer(h) IN
    sess[h].ext.st = "awaiting_peer" =>
      \/ InFlight(g, "propose", p)
      \/ pend[g] = p
      \/ sess[g].ext.p = p
      \/ \E type \in {"approved", "reject"} : InFlight(h, type, p)
      \/ /\ h = Recipient /\ HasOwnExtension(sess[g], g)
         /\ sess[g].ext.st = "emitting" \/ InFlight(h, "propose", sess[g].ext.p)

AtRest ==
  \A h \in Host : box[h] = <<>> /\ suspended[h] = {} /\ sess[h].ext = NoExtension

(* When nothing is under way the two hosts allow the same number of turns. *)
SameBudgetAtRest ==
  BothLive /\ AtRest => sess[Initiator].max = sess[Recipient].max

(* The race is settled: the two hosts never both wait for the other one to *)
(* answer, with nothing on the way.                                        *)
RaceIsSettled ==
  (\A h \in Host : box[h] = <<>> /\ suspended[h] = {}) =>
    \E h \in Host : ~(HasOwnExtension(sess[h], h) /\ sess[h].ext.st = "awaiting_peer")

(* What both humans approved is applied by both hosts, unless the session  *)
(* is over.                                                                *)
ApprovedByBothIsApplied ==
  \A p \in Proposal :
    p \in AgreedByBoth ~> \A h \in Host : sess[h].max >= p.num \/ ~BothLive
=============================================================================
