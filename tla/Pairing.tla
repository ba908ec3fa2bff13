------------------------------- MODULE Pairing -------------------------------
(***************************************************************************)
(* Two hosts pair over the relay's channel (SPEC 6.2): the initiator       *)
(* publishes a code, the joiner's human approves, and the hosts exchange   *)
(* pake, confirm and bond_ok through one slot, each polling for what it    *)
(* waits for.  Each pushes its allowlist before its bond counts, and rolls *)
(* it back when the exchange fails.  Meanwhile a human may revoke a bond   *)
(* or another pairing of the host may end.                                 *)
(*                                                                         *)
(* The cryptography is taken at its word: a message that is not as its     *)
(* sender posted it fails verification.  A step runs from one await to the *)
(* next; every request may fail, with or without effect.                   *)
(***************************************************************************)
EXTENDS Naturals, FiniteSets

CONSTANTS
  Third,      \* another agent the hosts may be bonded with
  Busy,       \* hosts with other bonds, that end or begin meanwhile
  MaxFaults,  \* bound: failed requests, garbled messages and restarts
  MaxChanges  \* bound: revocations and other pairings

Initiator == "initiator"
Joiner == "joiner"
Host == {Initiator, Joiner}
Agent == Host \cup {Third}
Peer(h) == IF h = Initiator THEN Joiner ELSE Initiator

ASSUME ThirdAssumption == Third \notin Host
ASSUME BoundsAssumption == Busy \subseteq Host /\ MaxFaults \in Nat /\ MaxChanges \in Nat

VARIABLES
  slot,       \* the pairing channel: at most one message
  lapsed,     \* whether the code's five minutes are over
  core,       \* whether both hosts offer core/1
  reg,        \* per host: its entry for the code in the pairing registry
  flow,       \* per host: where its pairing is, the allowlist it captured, its verdict
  allow,      \* per host: its own allowlist
  admitted,   \* per host: the relay's copy of it
  bonds,      \* per host: its bonds
  revoking,   \* per host: the allowlist a revocation will push, and the attempts left
  faults,     \* failed requests, garbled messages and restarts so far
  changes,    \* revocations and other pairings so far
  approved,   \* history: whether the joiner's human approved
  late,       \* history: whether a poll ran out
  thrown,     \* history: hosts whose pairing threw or ended in a restart
  missed,     \* history: hosts with a push that failed, or that overlapped another
  undone,     \* history: hosts whose rollback undid a change made meanwhile
  revoked,    \* history: per host, the agents its human revoked
  bondings    \* history: per host, how often its pairing ended bonded

lists == <<allow, admitted, bonds, revoking>>
bounds == <<faults, changes>>
listHistory == <<missed, undone, revoked>>
vars == <<slot, lapsed, core, reg, flow, lists, bounds, approved, late, thrown, listHistory, bondings>>

Phase == {"pake", "confirm", "bond_ok", "bond_fail", "reject"}
Message == [phase : Phase, from : Host, good : BOOLEAN, read : BOOLEAN]
Empty == [phase |-> "none"]
Verdict == {"bonded", "rejected", "pake_failed", "rolled_back", "expired", "lost"}

(* Where a pairing is: before it, waiting for a human or for a message, in *)
(* a post, in a push of the allowlist, before the bond is added, over.     *)
Waiting == {"pake", "confirm", "ok", "listen"}
Posting == {"answer", "agree", "tell", "fail", "reject"}
Pushing == {"push", "undo", "retract"}
Flow == [pc : {"off", "asked", "thrown", "add", "done"} \cup Waiting \cup Posting \cup Pushing,
         previous : SUBSET Agent, sound : BOOLEAN, verdict : Verdict \cup {"none"}]

NoRevoke == [list |-> {}, tries |-> 0]

-----------------------------------------------------------------------------
(* The channel                                                             *)

At(h, pc) == flow[h].pc = pc
Fault == faults < MaxFaults /\ faults' = faults + 1

(* What the slot may hold once m was posted.  Past its time the row is     *)
(* served no more, unless a poll deleted it and the post made it anew.     *)
Stored(m) == IF lapsed THEN {m, Empty} ELSE {m}

(* returnTerminal: the code is consumed, its tombstone kept until it       *)
(* would have expired; otherwise the pairing goes on at pc next.           *)
Burnt(h) == [reg EXCEPT ![h] = IF lapsed THEN "none" ELSE "burnt"]
Advance(h, next) ==
  IF next \in Verdict
    THEN /\ reg' = Burnt(h)
         /\ flow' = [flow EXCEPT ![h].pc = "done", ![h].verdict = next]
    ELSE flow' = [flow EXCEPT ![h].pc = next] /\ UNCHANGED reg

(* A request threw: the call ends, the code stays usable.                  *)
Throw(h) ==
  /\ flow' = [flow EXCEPT ![h].pc = "thrown"] /\ UNCHANGED reg
  /\ thrown' = thrown \cup {h}

(* Host h posts a message and goes on, or its post throws.                 *)
Post(h, pc, phase, next) ==
  LET m == [phase |-> phase, from |-> h, good |-> flow[h].sound, read |-> FALSE] IN
  /\ At(h, pc)
  /\ \/ slot' \in Stored(m) /\ Advance(h, next) /\ UNCHANGED <<faults, thrown>>
     \/ slot' \in Stored(m) \cup {slot} /\ Fault /\ Throw(h)
  /\ UNCHANGED <<lapsed, core, lists, changes, approved, late, listHistory, bondings>>

(* pollWireMessage finds what it waits for: of the peer, but a bond_fail   *)
(* or a reject of anyone.                                                  *)
Hears(h, pc, phases) ==
  /\ At(h, pc) /\ slot # Empty /\ slot.phase \in phases
  /\ slot.phase \in {"bond_fail", "reject"} \/ slot.from # h
  /\ slot' = [slot EXCEPT !.read = TRUE]

(* bond_fail is posted before the pairing ends in failure.                 *)
FailWith(h, verdict) ==
  flow' = [flow EXCEPT ![h].pc = "fail", ![h].verdict = verdict] /\ UNCHANGED reg
PostFail(h) == Post(h, "fail", "bond_fail", flow[h].verdict)

-----------------------------------------------------------------------------
(* The allowlists                                                          *)

InFlight(h) == flow[h].pc \in Pushing \/ revoking[h] # NoRevoke

(* Mutant of Admit: the peer replaces the other bonds in the list.         *)
AdmitAlone(h) ==
  /\ flow' = [flow EXCEPT ![h].pc = "push", ![h].previous = allow[h]]
  /\ allow' = [allow EXCEPT ![h] = {Peer(h)}]
  /\ missed' = IF InFlight(h) THEN missed \cup {h} ELSE missed
  /\ UNCHANGED <<reg, admitted, bonds, revoking, undone, revoked>>

(* pushAllowlist: the local list is set, its push awaited.                 *)
Admit(h) ==
  /\ flow' = [flow EXCEPT ![h].pc = "push", ![h].previous = allow[h]]
  /\ allow' = [allow EXCEPT ![h] = @ \cup {Peer(h)}]
  /\ missed' = IF InFlight(h) THEN missed \cup {h} ELSE missed
  /\ UNCHANGED <<reg, admitted, bonds, revoking, undone, revoked>>

(* Mutant of Restore: only the relay's copy is rolled back.                *)
RestoreRelay(h, pc) ==
  /\ flow' = [flow EXCEPT ![h].pc = pc]
  /\ UNCHANGED <<allow, undone>>

(* rollbackAllowlist: likewise, with the list captured before the push.    *)
Restore(h, pc) ==
  /\ flow' = [flow EXCEPT ![h].pc = pc]
  /\ allow' = [allow EXCEPT ![h] = flow[h].previous]
  /\ undone' = IF flow[h].previous \ {Peer(h)} = allow[h] \ {Peer(h)} THEN undone ELSE undone \cup {h}

(* Mutant of PushOk: the peer alone is pushed.                             *)
PushAlone(h) ==
  /\ At(h, "push")
  /\ admitted' = [admitted EXCEPT ![h] = {Peer(h)}]
  /\ IF h = Initiator
       THEN flow' = [flow EXCEPT ![h].pc = "tell"] /\ UNCHANGED <<reg, bondings>>
       ELSE /\ flow' = [flow EXCEPT ![h].pc = "add", ![h].verdict = "bonded"]
            /\ reg' = Burnt(h)
            /\ bondings' = [bondings EXCEPT ![h] = @ + 1]
  /\ UNCHANGED <<slot, lapsed, core, allow, bonds, revoking, bounds, approved, late, thrown, listHistory>>

(* pushAllowlist took effect.                                              *)
PushOk(h) ==
  /\ At(h, "push")
  /\ admitted' = [admitted EXCEPT ![h] = flow[h].previous \cup {Peer(h)}]
  /\ IF h = Initiator
       THEN flow' = [flow EXCEPT ![h].pc = "tell"] /\ UNCHANGED <<reg, bondings>>
       ELSE /\ flow' = [flow EXCEPT ![h].pc = "add", ![h].verdict = "bonded"]
            /\ reg' = Burnt(h)
            /\ bondings' = [bondings EXCEPT ![h] = @ + 1]
  /\ UNCHANGED <<slot, lapsed, core, allow, bonds, revoking, bounds, approved, late, thrown, listHistory>>

(* The relay answers with an error: rolled back.                           *)
PushRefused(h) ==
  /\ At(h, "push") /\ Fault
  /\ Restore(h, "undo")
  /\ missed' = IF revoking[h] # NoRevoke THEN missed \cup {h} ELSE missed
  /\ UNCHANGED <<slot, lapsed, core, reg, admitted, bonds, revoking, changes, approved, late,
                 thrown, revoked, bondings>>

(* The rollback is pushed; whether the relay took it is not looked at.     *)
RestorePushed(h) ==
  /\ flow[h].pc \in {"undo", "retract"}
  /\ \/ /\ admitted' = [admitted EXCEPT ![h] = flow[h].previous]
        /\ UNCHANGED <<faults, missed>>
     \/ Fault /\ missed' = missed \cup {h} /\ UNCHANGED admitted
  /\ IF At(h, "undo") THEN FailWith(h, "rolled_back") ELSE Advance(h, "rolled_back")
  /\ UNCHANGED <<slot, lapsed, core, allow, bonds, revoking, changes, approved, late, thrown,
                 undone, revoked, bondings>>

(* The push of the list, or of the captured one, throws.                   *)
PushThrows(h) ==
  LET pushed == flow[h].previous \cup (IF At(h, "push") THEN {Peer(h)} ELSE {}) IN
  /\ flow[h].pc \in Pushing /\ Fault
  /\ admitted' \in {admitted, [admitted EXCEPT ![h] = pushed]}
  /\ Throw(h) /\ missed' = missed \cup {h}
  /\ UNCHANGED <<slot, lapsed, core, allow, bonds, revoking, changes, approved, late,
                 undone, revoked, bondings>>

(* Mutant of Revoke: three attempts to push.                               *)
RevokeThrice(h, a) ==
  /\ changes < MaxChanges /\ changes' = changes + 1
  /\ h \in Busy /\ revoking[h] = NoRevoke
  /\ a \in bonds[h]
  /\ bonds' = [bonds EXCEPT ![h] = @ \ {a}]
  /\ allow' = [allow EXCEPT ![h] = @ \ {a}]
  /\ revoking' = [revoking EXCEPT ![h] = [list |-> allow'[h], tries |-> 3]]
  /\ missed' = IF InFlight(h) THEN missed \cup {h} ELSE missed
  /\ revoked' = [revoked EXCEPT ![h] = @ \cup {a}]
  /\ UNCHANGED <<slot, lapsed, core, reg, flow, admitted, faults, approved, late, thrown,
                 undone, bondings>>

(* handleRevoke up to its first await; the list to push is captured.       *)
Revoke(h, a) ==
  /\ changes < MaxChanges /\ changes' = changes + 1
  /\ h \in Busy /\ revoking[h] = NoRevoke
  /\ a \in bonds[h]
  /\ bonds' = [bonds EXCEPT ![h] = @ \ {a}]
  /\ allow' = [allow EXCEPT ![h] = @ \ {a}]
  /\ revoking' = [revoking EXCEPT ![h] = [list |-> allow'[h], tries |-> 2]]
  /\ missed' = IF InFlight(h) THEN missed \cup {h} ELSE missed
  /\ revoked' = [revoked EXCEPT ![h] = @ \cup {a}]
  /\ UNCHANGED <<slot, lapsed, core, reg, flow, admitted, faults, approved, late, thrown,
                 undone, bondings>>

(* After the purge the captured list is pushed, twice if need be.          *)
RevokePush(h) ==
  /\ revoking[h] # NoRevoke
  /\ \/ /\ admitted' = [admitted EXCEPT ![h] = revoking[h].list]
        /\ revoking' = [revoking EXCEPT ![h] = NoRevoke]
        /\ UNCHANGED <<faults, missed>>
     \/ /\ Fault
        /\ \/ /\ revoking[h].tries = 2 /\ UNCHANGED <<admitted, missed>>
              /\ revoking' = [revoking EXCEPT ![h].tries = 1]
           \/ /\ revoking' = [revoking EXCEPT ![h] = NoRevoke]
              /\ missed' = missed \cup {h}
              /\ admitted' \in {admitted, [admitted EXCEPT ![h] = revoking[h].list]}
  /\ UNCHANGED <<slot, lapsed, core, reg, flow, allow, bonds, changes, approved, late, thrown,
                 undone, revoked, bondings>>

(* Another pairing of the host succeeds, with Third.                       *)
OtherPairing(h) ==
  /\ changes < MaxChanges /\ changes' = changes + 1
  /\ h \in Busy /\ Third \notin bonds[h] \cup allow[h]
  /\ bonds' = [bonds EXCEPT ![h] = @ \cup {Third}]
  /\ allow' = [allow EXCEPT ![h] = @ \cup {Third}]
  /\ admitted' = [admitted EXCEPT ![h] = allow'[h]]
  /\ missed' = IF InFlight(h) THEN missed \cup {h} ELSE missed
  /\ UNCHANGED <<slot, lapsed, core, reg, flow, revoking, faults, approved, late, thrown,
                 undone, revoked, bondings>>

-----------------------------------------------------------------------------
(* The initiator                                                           *)

(* pairInit and the manifest; the completion is scheduled at once.         *)
PairInit ==
  /\ At(Initiator, "off") /\ ~lapsed
  /\ slot' = [phase |-> "pake", from |-> Initiator, good |-> TRUE, read |-> FALSE]
  /\ reg' = [reg EXCEPT ![Initiator] = "live"]
  /\ flow' = [flow EXCEPT ![Initiator].pc = "pake"]
  /\ UNCHANGED <<lapsed, core, lists, bounds, approved, late, thrown, listHistory, bondings>>

(* pair_init_complete, after the completion threw.                         *)
CompleteAgain ==
  /\ At(Initiator, "thrown")
  /\ Advance(Initiator, IF lapsed THEN "expired" ELSE "pake")
  /\ UNCHANGED <<slot, lapsed, core, lists, bounds, approved, late, thrown, listHistory, bondings>>

InitiatorHearsPake ==
  /\ Hears(Initiator, "pake", {"reject", "bond_fail", "pake"})
  /\ CASE slot.phase = "reject" -> Advance(Initiator, "rejected")
       [] slot.phase = "bond_fail" -> Advance(Initiator, "pake_failed")
       [] slot.phase = "pake" /\ slot.good -> Advance(Initiator, "answer")
       [] OTHER -> FailWith(Initiator, "pake_failed")
  /\ UNCHANGED <<lapsed, core, lists, bounds, approved, late, thrown, listHistory, bondings>>

(* The profiles are compared once confirm is out.                          *)
PostConfirm == Post(Initiator, "answer", "confirm", IF core THEN "ok" ELSE "rolled_back")

InitiatorHearsOk ==
  /\ Hears(Initiator, "ok", {"bond_fail", "bond_ok"})
  /\ CASE slot.phase = "bond_fail" -> Advance(Initiator, "rolled_back") /\ UNCHANGED <<lists, listHistory>>
       [] slot.phase = "bond_ok" /\ slot.good -> Admit(Initiator)
       [] OTHER -> FailWith(Initiator, "rolled_back") /\ UNCHANGED <<lists, listHistory>>
  /\ UNCHANGED <<lapsed, core, bounds, approved, late, thrown, bondings>>

InitiatorPostsOk == Post(Initiator, "tell", "bond_ok", "listen")

(* For a second it listens for the joiner's bond_fail, ...                 *)
InitiatorHearsFail ==
  /\ Hears(Initiator, "listen", {"bond_fail"})
  /\ Restore(Initiator, "retract")
  /\ missed' = IF revoking[Initiator] # NoRevoke THEN missed \cup {Initiator} ELSE missed
  /\ UNCHANGED <<lapsed, core, reg, admitted, bonds, revoking, bounds, approved, late, thrown,
                 revoked, bondings>>

(* ... then the bond is added.                                             *)
InitiatorBonds ==
  /\ At(Initiator, "listen")
  /\ Advance(Initiator, "bonded")
  /\ bonds' = [bonds EXCEPT ![Initiator] = @ \cup {Joiner}]
  /\ bondings' = [bondings EXCEPT ![Initiator] = @ + 1]
  /\ UNCHANGED <<slot, lapsed, core, allow, admitted, revoking, bounds, approved, late, thrown, listHistory>>

-----------------------------------------------------------------------------
(* The joiner                                                              *)

(* Mutant of PairJoin: the human is not asked.                             *)
PairJoinUnasked ==
  /\ At(Joiner, "off") /\ ~At(Initiator, "off") /\ ~lapsed /\ reg[Joiner] # "burnt"
  /\ reg' = [reg EXCEPT ![Joiner] = "live"]
  /\ flow' = [flow EXCEPT ![Joiner].pc = "pake"]
  /\ UNCHANGED <<slot, lapsed, core, lists, bounds, approved, late, thrown, listHistory, bondings>>

(* pair_join: the manifest is fetched, the human asked.                    *)
PairJoin ==
  /\ At(Joiner, "off") /\ ~At(Initiator, "off") /\ ~lapsed /\ reg[Joiner] # "burnt"
  /\ reg' = [reg EXCEPT ![Joiner] = "live"]
  /\ flow' = [flow EXCEPT ![Joiner].pc = "asked"]
  /\ UNCHANGED <<slot, lapsed, core, lists, bounds, approved, late, thrown, listHistory, bondings>>

(* Mutant of Approve: the joiner posts its pake without reading the first. *)
ApproveAnswers ==
  /\ flow[Joiner].pc \in {"asked", "thrown"}
  /\ IF lapsed
       THEN Advance(Joiner, "expired") /\ UNCHANGED approved
       ELSE /\ flow' = [flow EXCEPT ![Joiner].pc = "answer", ![Joiner].sound = TRUE]
            /\ UNCHANGED reg /\ approved' = TRUE
  /\ UNCHANGED <<slot, lapsed, core, lists, bounds, late, thrown, listHistory, bondings>>

(* The human approves; after a throw, with the same pending item.          *)
Approve ==
  /\ flow[Joiner].pc \in {"asked", "thrown"}
  /\ IF lapsed
       THEN Advance(Joiner, "expired") /\ UNCHANGED approved
       ELSE /\ flow' = [flow EXCEPT ![Joiner].pc = "pake", ![Joiner].sound = TRUE]
            /\ UNCHANGED reg /\ approved' = TRUE
  /\ UNCHANGED <<slot, lapsed, core, lists, bounds, late, thrown, listHistory, bondings>>

Reject ==
  /\ flow[Joiner].pc \in {"asked", "thrown"} /\ ~lapsed
  /\ flow' = [flow EXCEPT ![Joiner].pc = "reject", ![Joiner].sound = TRUE]
  /\ UNCHANGED <<slot, lapsed, core, reg, lists, bounds, approved, late, thrown, listHistory, bondings>>

PostReject == Post(Joiner, "reject", "reject", "rejected")

(* A pake that is not the initiator's cannot be read, or gives another key. *)
JoinerHearsPake ==
  /\ Hears(Joiner, "pake", {"pake"})
  /\ \/ flow' = [flow EXCEPT ![Joiner].pc = "answer", ![Joiner].sound = slot.good] /\ UNCHANGED reg
     \/ ~slot.good /\ Advance(Joiner, "pake_failed")
  /\ UNCHANGED <<lapsed, core, lists, bounds, approved, late, thrown, listHistory, bondings>>

PostPake == Post(Joiner, "answer", "pake", "confirm")

JoinerHearsConfirm ==
  /\ Hears(Joiner, "confirm", {"bond_fail", "confirm"})
  /\ IF slot.phase = "confirm" /\ slot.good
       THEN Advance(Joiner, IF core THEN "agree" ELSE "rolled_back")
       ELSE FailWith(Joiner, "pake_failed")
  /\ UNCHANGED <<lapsed, core, lists, bounds, approved, late, thrown, listHistory, bondings>>

JoinerPostsOk == Post(Joiner, "agree", "bond_ok", "ok")

(* Mutant of JoinerHearsOk: a bond_fail is taken for the answer.           *)
JoinerHearsAny ==
  /\ Hears(Joiner, "ok", {"bond_fail", "bond_ok"})
  /\ Admit(Joiner)
  /\ UNCHANGED <<lapsed, core, bounds, approved, late, thrown, bondings>>

(* Mutant of JoinerHearsOk: another confirm is waited for.                 *)
JoinerHearsConfirmAgain ==
  /\ Hears(Joiner, "ok", {"bond_fail", "confirm"})
  /\ IF slot.phase = "confirm" /\ slot.good
       THEN Admit(Joiner)
       ELSE Advance(Joiner, "rolled_back") /\ UNCHANGED <<lists, listHistory>>
  /\ UNCHANGED <<lapsed, core, bounds, approved, late, thrown, bondings>>

(* The initiator's bond_ok, or its bond_fail.                              *)
JoinerHearsOk ==
  /\ Hears(Joiner, "ok", {"bond_fail", "bond_ok"})
  /\ IF slot.phase = "bond_ok" /\ slot.good
       THEN Admit(Joiner)
       ELSE Advance(Joiner, "rolled_back") /\ UNCHANGED <<lists, listHistory>>
  /\ UNCHANGED <<lapsed, core, bounds, approved, late, thrown, bondings>>

(* human_approve adds the bond once the flow has returned.                 *)
JoinerBonds ==
  /\ At(Joiner, "add")
  /\ flow' = [flow EXCEPT ![Joiner].pc = "done"]
  /\ bonds' = [bonds EXCEPT ![Joiner] = @ \cup {Initiator}]
  /\ UNCHANGED <<slot, lapsed, core, reg, allow, admitted, revoking, bounds, approved, late, thrown,
                 listHistory, bondings>>

-----------------------------------------------------------------------------
(* Time and failures                                                       *)

(* A poll runs out; the code outlives it or not.                           *)
TimesOut(h) ==
  /\ late' = TRUE
  /\ CASE At(h, "pake") -> Advance(h, "pake_failed")
       [] At(h, "confirm") -> FailWith(h, "pake_failed")
       [] At(h, "ok") -> Advance(h, "rolled_back")
       [] OTHER -> FALSE
  /\ UNCHANGED <<slot, lapsed, core, lists, bounds, approved, thrown, listHistory, bondings>>

Lapse ==
  /\ ~lapsed /\ lapsed' = TRUE
  /\ slot' = Empty
  /\ reg' = [h \in Host |-> IF reg[h] = "burnt" THEN "none" ELSE reg[h]]
  /\ UNCHANGED <<core, flow, lists, bounds, approved, late, thrown, listHistory, bondings>>

(* The relay loses the message, or it does not arrive as it was sent.      *)
Garble ==
  /\ slot # Empty /\ Fault
  /\ slot' \in {Empty, [slot EXCEPT !.good = FALSE]}
  /\ UNCHANGED <<lapsed, core, reg, flow, lists, changes, approved, late, thrown, listHistory, bondings>>

(* A restart forgets the registry and whatever was awaited.  The joiner    *)
(* finds the code again through its manifest, the initiator does not.      *)
Crash(h) ==
  /\ Fault
  /\ reg' = [reg EXCEPT ![h] = "none"]
  /\ flow' = IF h = Joiner THEN [flow EXCEPT ![h].pc = "off", ![h].verdict = "none"]
             ELSE IF At(h, "off") THEN flow
             ELSE [flow EXCEPT ![h].pc = "done", ![h].verdict = "lost"]
  /\ revoking' = [revoking EXCEPT ![h] = NoRevoke]
  /\ missed' = IF InFlight(h) THEN missed \cup {h} ELSE missed
  /\ thrown' = thrown \cup {h}
  /\ UNCHANGED <<slot, lapsed, core, allow, admitted, bonds, changes, approved, late, undone, revoked, bondings>>

Init ==
  /\ slot = Empty /\ lapsed = FALSE /\ core \in BOOLEAN
  /\ reg = [h \in Host |-> "none"]
  /\ flow = [h \in Host |-> [pc |-> "off", previous |-> {}, sound |-> TRUE, verdict |-> "none"]]
  /\ allow \in [Host -> {{}, {Third}}] /\ \A h \in Host : h \notin Busy => allow[h] = {}
  /\ admitted = allow /\ bonds = allow
  /\ revoking = [h \in Host |-> NoRevoke]
  /\ faults = 0 /\ changes = 0
  /\ approved = FALSE /\ late = FALSE /\ thrown = {} /\ missed = {} /\ undone = {}
  /\ revoked = [h \in Host |-> {}] /\ bondings = [h \in Host |-> 0]

InitiatorStep ==
  \/ InitiatorHearsPake \/ PostConfirm \/ InitiatorHearsOk \/ InitiatorPostsOk
  \/ InitiatorHearsFail \/ InitiatorBonds \/ PostFail(Initiator)
  \/ PushOk(Initiator) \/ RestorePushed(Initiator)

JoinerStep ==
  \/ PostReject \/ JoinerHearsPake \/ PostPake \/ JoinerHearsConfirm
  \/ JoinerPostsOk \/ JoinerHearsOk \/ JoinerBonds \/ PostFail(Joiner)
  \/ PushOk(Joiner) \/ RestorePushed(Joiner)

Next ==
  \/ InitiatorStep \/ JoinerStep
  \/ PairInit \/ CompleteAgain \/ PairJoin \/ Approve \/ Reject
  \/ \E h \in Host : \/ PushRefused(h) \/ PushThrows(h) \/ RevokePush(h) \/ OtherPairing(h)
                     \/ TimesOut(h) \/ Crash(h)
                     \/ \E a \in Agent : Revoke(h, a)
  \/ Lapse \/ Garble

Spec == Init /\ [][Next]_vars

(* A host's polls and requests go on until they run out.                   *)
FairSpec == Spec /\ WF_vars(InitiatorStep) /\ WF_vars(JoinerStep)

-----------------------------------------------------------------------------
(* Properties                                                              *)

(* Every variable has its type.                                            *)
TypeOK ==
  /\ slot \in Message \cup {Empty} /\ lapsed \in BOOLEAN /\ core \in BOOLEAN
  /\ reg \in [Host -> {"none", "live", "burnt"}] /\ flow \in [Host -> Flow]
  /\ allow \in [Host -> SUBSET Agent] /\ admitted \in [Host -> SUBSET Agent]
  /\ bonds \in [Host -> SUBSET Agent]
  /\ revoking \in [Host -> [list : SUBSET Agent, tries : 0 .. 2]]
  /\ faults \in 0 .. MaxFaults /\ changes \in 0 .. MaxChanges
  /\ approved \in BOOLEAN /\ late \in BOOLEAN
  /\ thrown \subseteq Host /\ missed \subseteq Host /\ undone \subseteq Host
  /\ revoked \in [Host -> SUBSET Agent] /\ bondings \in [Host -> Nat]

(* Neither host admits the other, nor does the relay for it, before the    *)
(* joiner's human has approved.                                            *)
AdmittedNeedsApproval ==
  \A h \in Host : Peer(h) \in allow[h] \cup admitted[h] \cup bonds[h] => approved

(* A joiner that is bonded can be heard by the initiator: its allowlist    *)
(* has it, and so do its bonds once its own pairing is over, unless a      *)
(* human revoked it, a request of the initiator threw or it restarted.     *)
JoinerBondedMeansAdmitted ==
  Initiator \in bonds[Joiner] =>
    /\ Joiner \in allow[Initiator] \cup revoked[Initiator]
    /\ At(Initiator, "done") /\ Initiator \notin thrown =>
         Joiner \in bonds[Initiator] \cup revoked[Initiator]

(* A pairing that ended otherwise leaves no trace of the peer, and none at *)
(* the relay when every push took effect.                                  *)
FailureLeavesNothing ==
  \A h \in Host \ thrown :
    At(h, "done") /\ flow[h].verdict # "bonded" =>
      /\ Peer(h) \notin allow[h] \cup bonds[h]
      /\ Peer(h) \in admitted[h] => h \in missed

(* At rest the relay's copy is the host's own allowlist, unless a push     *)
(* failed or two overlapped.                                               *)
RelayCopyAgrees ==
  \A h \in Host : ~InFlight(h) /\ admitted[h] # allow[h] => h \in missed

(* The other bonds of a host stay in its allowlist, and what was revoked   *)
(* stays out, unless a rollback undid a change made meanwhile.             *)
OthersKept ==
  \A h \in Host \ undone : Third \in allow[h] <=> Third \in bonds[h]

(* SPEC 6.2: bond_fail and reject apart, a message is not replaced before  *)
(* the peer has read it.  A bond_fail unread may be: by the confirm of an  *)
(* initiator that was slow.                                                *)
PingPong ==
  [][ \/ slot = Empty \/ slot' = Empty \/ slot.read \/ slot'.from = slot.from
      \/ {slot.phase, slot'.phase} \cap {"bond_fail", "reject"} # {} ]_vars

(* When no poll runs out and nothing fails, an approved pairing ends with  *)
(* both hosts bonded: neither waits for what the other will not send.      *)
ApprovedIsBonded ==
  approved ~> \/ \A h \in Host : bondings[h] = 1
              \/ late \/ lapsed \/ faults > 0 \/ ~core
=============================================================================
