# TLA+ verification of the Agent Pair Protocol

Agent Pair Protocol lets the agents of two people negotiate over an untrusted
relay: the hosts pair once (a *bond*), open a thread, exchange turns, sign an
artifact hash, and the two humans ratify it. The repository is a TypeScript
monorepo: `packages/protocol` (session state machine, pairing, cryptography),
`packages/mcp-server` (the host process an agent talks to: tools, stores, relay
client) and `packages/relay` (HTTP store-and-forward with SQLite).

This directory holds the formal models of that code, the TLC configurations
that check them on small instances and the TLAPS proofs about them. Paths below
are relative to `src/packages/`.

    tlc -workers 4 -config nego_end.cfg NegoSession.tla        # one run
    tlapm NegoSessionProofs.tla                                 # one module's proofs

| Runs | Module | Proofs |
|---|---|---|
| `nego_*.cfg` | `NegoSession` (with `CoSignConsent`) | `NegoSessionProofs`, `NegoRecordProofs` |
| `bud_*.cfg` | `BudgetExtend` | `BudgetExtendProofs` |
| `stream_*.cfg` | `EnvelopeStream` | `EnvelopeStreamProofs` |
| `pair_flow.cfg` | `Pairing` | `PairingProofs`, `PairingChannelProofs` |
| `gate_decide.cfg` | `HumanGate` | `HumanGateProofs` |
| `store_*.cfg` | `PersistentStore` | `PersistentStoreProofs` |

`PROJECT.json` lists components, runs, mutants, the map from definitions to
source lines, findings, hazards and theorems.

## 1. Inventory

### 1.1 Host process (`mcp-server`, `protocol`)

One Node.js process per agent. Tools are async handlers: between two awaits a
handler runs alone, at each await any other handler may run. This is where the
concurrency of the system comes from.

| Component | State | Operations | Interacts with |
|---|---|---|---|
| Negotiation session, `protocol/src/session/state-machine.ts` | `SessionRecord` per thread: status, turn count, sign hashes, ratified flags, artifact, co-signed hash | `handleOpen`, `handleApproveOpen`, `handleRejectOpen`, `handleMsg`, `handleSign`, `handleRatify`, `handleStatus`, `handleExpireSessions`, `handleBondRevoke`, `handleThreadClose`, `handleIncomingEnvelope` | pending items, bonds, allowlist, `relay.send` |
| Budget extension, `protocol/src/session/budget-extend.ts` | `session.extension`, `extensionDecided`, `budget_extend` pending items | propose, approve, reject, retry of a send, three incoming envelopes | session record, human gate |
| Atest gate, `protocol/src/session/atest-gate.ts`, `test-reports.ts` | test reports of a session | predicate in front of `handleSign` | session, runners |
| Envelope reception, `protocol/src/crypto/receive-envelope.ts`, `mcp-server/src/tools/inbox.ts` | sequence high-water marks, inbox cursor | `handleInbox`, `handleClose`, retry of budget emits at each pull | session, closed threads, relay inbox |
| Outbound sequence numbers, `mcp-server/src/tools/thread-seq.ts` | a map in memory | next number of a thread | every send |
| Thread close, `mcp-server/src/store/closed-threads.ts` | set of closed threads | mark, flush | inbox, session |
| Human gate, `mcp-server/src/tools/human-approve.ts`, `store/pending.ts`, `store/approval-code.ts` | pending items with code and attempts | approve, reject, wrong code | session, budget extension, pairing |
| Pairing, `protocol/src/pairing/flow.ts`, `mcp-server/src/tools/pair.ts`, `pair-completion.ts` | bonds, allowlist, pending pair joins | init, join, approve, complete, revoke | relay pair channel, relay allowlist |
| Persistence, `mcp-server/src/store/persistent-store.ts` | one JSON file per store, a debounced writer each | schedule, flush, load | every store |
| Relay client and preflight, `mcp-server/src/relay/` | cached verdict on the relay | send, pull, health check | relay |

### 1.2 Relay (`relay`)

| Component | State | Operations |
|---|---|---|
| Inbox, `relay/src/routes/inbox.ts` | rows by rowid, outstanding challenges | post (default deny by the recipient's allowlist), challenge, pull after a cursor, purge of a dyad, garbage collection |
| Allowlist, `relay/src/routes/allowlist.ts` | signed allowlist per agent | put, read |
| Pairing channel, `relay/src/routes/pair.ts` | one slot per session id | post, poll |
| Artifacts, `relay/src/routes/artifact.ts` | blobs, bytes per owner | put under a quota, get |
| Rate limiter, `relay/src/middleware/rate-limit.ts` | fixed windows | admit or refuse |

### 1.3 What is hard

* **Handlers overlap.** `handleSign` and `handleRatify` await their send and go
  on with the record they captured before it; `emitBudgetEnvelope` and
  `retryBudgetExtendEmit` write such a record back.
* **Two hosts, no coordinator.** Signatures, ratifications, closes and
  proposals cross on the wire; each host derives status, turn count and
  co-signature on its own.
* **Sends are ambiguous.** A send may fail after the relay stored the envelope,
  and `notifyPeer` ignores the result.
* **Time.** Deadlines and opening TTLs are only noticed when a handler touches
  the session, on two clocks.
* **Restarts.** Each store is a file of its own, flushed at its own moment; the
  cursor is flushed at the end of a pull, so envelopes come again.
* **Human gates are data.** A pending item may outlive, or be queued again
  after, the state it was about.

### 1.4 What would make each component correct

| Component | Properties |
|---|---|
| Negotiation session | nothing live without the recipient's human; nothing co-signed without both; terminal is final; evidence is kept; deadlines are local; ratified by both ends co-signed by both |
| Thread close | a closed thread has no open session, on either host, after losses and restarts |
| Budget extension | `max_turns` rises only after both humans approved that number; both hosts end with the same `max_turns`; at most one extension outstanding; a suspended emit undoes nothing |
| Envelope reception and sequence numbers | no envelope handled twice; none lost while the host keeps reading; the high-water mark never passes an envelope still to come |
| Relay inbox | nothing stored that the recipient does not admit; a cursor never hides a later row; purge removes the dyad and nothing else |
| Pairing | a bond on one side implies the human's approval there; both sides bonded or both not, unless a message is lost; a rollback leaves other bonds alone |
| Human gate | one decision per item; five attempts; no act without a valid code |
| Persistence | what a flush returned for is on disk; the newest snapshot wins |
| Artifacts, rate limiter | the quota and the limit hold under overlapping requests |

## 2. Plan

Most important first; each step is a module with its `.cfg` files and, where
noted, theorems in a module of their own.

1. `NegoSession`, `CoSignConsent`, `NegoSessionProofs`, `NegoRecordProofs`: section 3.
2. `BudgetExtend`, `BudgetExtendProofs`: section 4.
3. `EnvelopeStream`, `EnvelopeStreamProofs`: section 5.
4. `Pairing`, `PairingProofs`, `PairingChannelProofs`: section 6.
5. `HumanGate`, `HumanGateProofs`: section 7.
6. `PersistentStore`, `PersistentStoreProofs`: section 8.

The modules divide the system so that each has what its hazards need and takes
the rest at its word: the session takes an envelope in the inbox as one the
receiver accepts, and `EnvelopeStream` says when it is; the session has gates
that a human decides, and `HumanGate` has the codes, tries and files behind a
decision; the session is between bonded hosts, and `Pairing` makes the bond; all
of them have restarts, and `PersistentStore` says what a restart may lose.

Left: an abstract `BudgetConsent` (drafts, two approvals, a rise on each host)
that `BudgetExtend` refines; the atest envelopes and the signing gate.

## 3. The negotiation session

### 3.1 Modules

* `NegoSession`: one thread between two bonded hosts, with the relay between
  them. A host is named by its role on the thread.
* `CoSignConsent`: what the humans are promised, with everything else left
  out: an opening is agreed once, each human may ratify afterwards, a party
  records the co-signature only when all humans ratified, and nothing is taken
  back. `NegoSession` implements it (`Consent == INSTANCE CoSignConsent WITH`
  the history of decisions and the hosts that hold a co-signed record).
* `NegoSessionProofs`: the theorems about types and consent.
* `NegoRecordProofs`: the theorems about the life of a record, from opening to end.

### 3.2 State

| Variable | Code |
|---|---|
| `sess[h]` | `SessionRecord` in the session store: `status`, `turns` = `turnCount`, `sign` = `signHashes`, `art` = `artifactHash`, `rat` = `ratifyApproved`, `co` = `coSignedHash`, `why` = `rejectReason` |
| `openPend`, `ratPend[h]`, `budPend[h]` | the `session_open`, `ratify` (with its hash) and numberless `budget_extend` pending items |
| `bond[h]`, `allow[h]` | bond and local allowlist entry; the relay's copy of the allowlist |
| `closedT[h]`, `closing[h]` | the closed-threads store; how far `handleClose`, or the receipt of a `core.close`, has come |
| `box[h]`, `batch[h]`, `got[h]` | relay rows after the saved cursor; envelopes of the pull still to be dispatched; rows the pull fetched |
| `signing[h]`, `ratifying[h]` | the record `handleSign` and `handleRatify` captured, while they await their send |
| `late[h]`, `ttlOut[h]` | host `h`'s clock is past `budget.deadline`, past `expiresAt` |
| `losses`, `crashes`, `signs` | counters for the bounds |
| `approved`, `signedBy`, `ratifiedBy` | history of the decisions of humans and agents, read by properties only |

### 3.3 Actions

An action is a handler up to its first await that matters, with every state
change it makes on the way (deadline check, sweeps of gates, notifications).
`SignFinish`, `RatifyFinish`, `CloseMark` and `CloseFinish` are the parts behind
such an await. `Pull`, `Take` (inside every `Recv...`) and `EndPull` are the loop
of `handleInbox`: rows are fetched in a batch, dispatched one at a time, the
cursor moves at the end. A `Send` appends to the peer's inbox if the relay's
allowlist admits the sender; it may lose the envelope while `losses < MaxLoss`.
`Crash` is a restart: suspended handlers and the pull are gone, gates and the
closed-thread mark survive only if flushed, rows whose sequence number was not
flushed come again. `DeadlinePasses` and `OpenTtlPasses` move a host's clock.

Simplifications, each on purpose:

* one thread, one pull at a time per host (`inbox` and `inbox_wait` overlapping
  is undefined by the tool's own comment, `mcp-server/src/tools/inbox-wait.ts:64`);
* one suspended `handleSign` and one suspended `handleRatify` per host;
* `ExpireSessions` does its notification in the same step as its write;
* `handleClose` on a thread without a session is left out, as nothing else of
  that thread exists in the module;
* sequence numbers, encryption, payload validation and authentication are not
  modelled: an envelope in an inbox is one the receiver accepts;
* the budget never rises: the extension is a module of its own, and what the
  session does to its gates (guard, sweep) is here as `budPend`;
* the atest gate never refuses.

### 3.4 Runs

Bounds are constants of the module: `Hash`, `MaxTurns`, `MaxSigns`, `MaxLoss`,
`MaxCrash`, and the sets of hosts whose clock passes (`Clocks`), whose agent
closes (`Closers`) or revokes (`Revokers`). Each run switches on the sources of
trouble its question is about. Deadlock checking is off: a negotiation that is
over, or waits for a human for ever, is a legal end.

| Run | Question | Bounds |
|---|---|---|
| `nego_consent` | Does any crossing of signatures and human decisions, with a loss and a restart with redelivery, get a record co-signed or live without the humans? Refinement of `CoSignConsent` and the proof's invariant | two hashes, no turns, one signature per host, one loss, one restart |
| `nego_end` | Do expiry, a close and a revocation in the middle of everything end the session for good, with no gate left over and the evidence kept? | one hash, no turns, one signature per host, the recipient's clock passes and its agent closes, the initiator revokes |
| `nego_live` | Do both hosts end with the co-signed record once both humans ratified, and does the approval reach the initiator? Types, with turns | reliable, one hash, one turn per host, ephemeral bond |

One signature per host is enough to cross two signatures in every order, and two
hashes to let them disagree; one turn each is enough to have turns cross, and to
exhaust the budget on both sides with the gate behind it; one loss and one restart
put each envelope and each unflushed store to the test once, and the properties
they serve are proved for any number. A close and a revocation come from
different hosts so that they meet in every order; these two handlers do not depend
on the role.

One run ends in a counterexample: in `nego_revoke_race`, `handleRatify` finalizes the
record it captured, over the revocation that ran during its send (`src/SPEC.md`,
458-460; `findings` in `PROJECT.json`).

The module shows more places where the code is not what `src/SPEC.md` says; they
follow from one handler each and have no run of their own:

* `bothSigned` asks for two hashes, not for the same one, so a session is signed
  over two different hashes (`state-machine.ts:796`, SPEC 440);
* a session the deadline closed with one signature still gets a ratify gate on
  both hosts and can be co-signed (`state-machine.ts:1098`, SPEC 431 and 433);
* a restart between the flushed closed-thread mark and the end of the session
  leaves the session open, and later closes are no-ops (`inbox.ts:291`, SPEC 434):
  `ClosedThreadIsOver` holds for runs without a restart only;
* a turn sent in `signed` is counted by its sender (`handleMsg`) and refused by its
  receiver, so the two turn counts differ for good with nothing lost, against N6.

### 3.5 Fairness

Only `nego_live` uses fairness. `WF(Pull)`, `WF(EndPull)` and `WF(Receive)` say
that a host whose inbox holds something keeps reading it, which is what the
agent's `inbox` / `inbox_wait` loop is for; `WF(Resume)` says that an awaited send
returns, which the client's timeout guarantees. Humans, agents, clocks,
revocations and crashes are never fair: the liveness properties promise nothing
before a human decided. The run has no losses, because `notifyPeer` sends once
and nothing repeats a lost notification: with one loss the properties fail, as
the code intends no delivery guarantee there.

### 3.6 What is proved

For every set of hashes, every bound and every set of hosts with clocks, closers
and revokers, from `NoHashAssumption` (the absent hash is no hash) and
`BoundsAssumption` (types of the bounds):

| Theorem | States |
|---|---|
| `TypeCorrect` | `Spec => []TypeOK` |
| `ConsentInvariant` | `Spec => []ConsentInv` |
| `CoSignSafety` | `Spec => []CoSignNeedsBothHumans` |
| `OpeningSafety` | `Spec => []LiveNeedsRecipientHuman` |
| `ImplementsConsent` | `Spec => ConsentSpec`, the refinement |
| `OpenGateSafety` | `Spec => []OpenGateIsForPending` |
| `TerminalSafety` | `Spec => TerminalIsFinal` |
| `EvidenceSafety` | `Spec => EvidenceIsKept` |
| `DeadlineSafety` | `Spec => DeadlineIsLocal` |
| `CloseSafety` | `Spec => [](crashes = 0 => ClosedThreadIsOver)` |

Neither safety property is inductive: a co-signature may come from a suspended
`handleRatify`, whose captured record and hash must already be justified; a
ratified flag comes from an envelope, which may have been in the inbox, in the
batch, or back in the inbox after a restart; a ratify gate may be queued from the
record a suspended `handleSign` captured. `ConsentInv` therefore says of *every*
place that can carry consent (records, inboxes, batches, gates, suspended
handlers) that it is grounded in what the humans decided: `RecordsGrounded`,
`InboxesGrounded`, `BatchesGrounded`, `GatesGrounded`, `HandlersGrounded`. The proof
has one lemma per group of actions, on top of lemmas about `Put`, `Send` and
`Take`; since decisions are only ever added (`Grows`), what a step does not touch
stays grounded. The refinement follows from the invariant: each step of a
handler that sets `co` finds both ratifications (`CoSignKept`, `FinalizeCo`), and
each decision is an action of the contract (`HumanKept`, `StepRefines`).

The proof covers losses, restarts, closes, revocations and clocks without bound,
so consent does not rest on the small instances.

The second group (`NegoRecordProofs`) is about what later steps may do to a record.
The hazard is a handler that writes back what it captured before its send:
`RatifyFinish` may overwrite a record that was closed, signed or expired meanwhile.
`LifeInv` says what is true of every such copy and of every record: nothing is signed
before the opening and a signed session bears both signatures (`RecordsLive`); a
captured copy bears both signatures already, or its session is over and its
signatures are those of the record (`SnapsLive`); the opening gate stands only while
the request is pending; an announced signature names a hash (`WireSound`). From it,
each action changes a record in one of the ways `RecordStep` allows, which gives the
three action properties at once.

`CloseSafety` needs a history of the thread, because a close that arrives where no
session is yet would leave a later opening alive on a closed thread. `ThreadInv`
says that this cannot happen: nothing happens on a thread that was never opened
(`Unopened`), the opening is the first envelope to the recipient (`OpenIsFirst`) and
is read before any close behind it (`OpenIsRead`), and a recipient that closed the
thread without having a session has no opening left to read (`ClosedUnopened`), its
own having been lost. A restart breaks it: the mark of a closed thread is flushed before the
session is ended, and a restart in between leaves an open session that no later close
reaches. The theorem therefore says `crashes = 0`, which is what its run checks.

Model-checked only: the two liveness properties, `RatifiedByBothIsCoSigned` and
`ApprovalReachesInitiator` (fairness is out of the prover's reach).

## 4. The budget extension

A turn beyond `budget.max_turns` is refused. To go on, an agent drafts a higher
number, its human approves, `nego.budget_propose` goes to the peer, whose human
approves (`max_turns` rises there, `nego.budget_approved` goes back, `max_turns`
rises here) or rejects. Each host may start this at any time, so two proposals
may cross: the initiator's wins.

### 4.1 State

| Variable | Code |
|---|---|
| `sess[h]` | of `SessionRecord`: `live` (status is `live`), `max` = `budget.max_turns`, `turns` = `turnCount`, `ext` = `extension` (proposal and status), `decided` = the ids in `extensionDecided` |
| `pend[h]` | the `budget_extend` pending item of the thread: none, the numberless one, or a proposal of either side |
| `suspended[h]` | for each handler that awaits its send, the record it will upsert afterwards, as it computed it from the record it captured |
| `box[h]`, `left[h]` | envelopes on their way to `h`; how many of them the running pull has yet to dispatch |
| `drafts`, `losses`, `crashes` | counters for the bounds |
| `agreed[h]` | history of the proposals `h`'s human approved, read by properties only |

A proposal is its proposer, its ordinal (it stands for the random `proposal_id`)
and its number; the three travel together in every item and payload.

### 4.2 Actions

| Action | Code |
|---|---|
| `Extend` | `handleExtendBudget` |
| `Approve`, `Reject` | `handleApproveBudgetExtend`, `handleRejectBudgetExtend` up to the send in `emitBudgetEnvelope` |
| `Resume` | what follows a send that succeeded: the write-back of `emitBudgetEnvelope` and of `retryBudgetExtendEmit`; after the initiator's `superseded` rejection, its write, which follows a failed send, too |
| `Retry` | `retryBudgetExtendEmitForSessions` at the start of `handleInbox`, up to its send |
| `Pull`, `RecvTurn`, `RecvPropose...`, `RecvApproved`, `RecvReject` | the rest of `handleInbox`, one envelope at a time, with the three incoming handlers |
| `Turn` | `handleMsg` with its budget guard |
| `LeaveLive` | every way out of `live`: signing, closing, deadline, revocation, with the sweep of extension and item they have in common |
| `Crash` | a restart: suspended handlers and the pull are gone, the pending item may not have been flushed |

A send has three outcomes (`Sent`, and the two of `NotSent`): the envelope is
stored and the host knows; the host sees a failure and nothing was stored; the
host sees a failure and the envelope was stored all the same (an answer that was
lost, a timeout of the client). `emitBudgetEnvelope` treats the last two alike and
leaves the extension in its emitting status for the next pull to retry, so the
envelope may go out twice.

Tools are async, and the inbox tool may run while the human's approval awaits its
send. `Overlapping` is the set of hosts where that happens; on the others a call
starts when the one before has ended. Most of what the module checks holds for
overlapping hosts only in part, which the runs below show.

Simplifications: one thread; a turn is never lost (its loss is the subject of
`NegoSession`), and its own send is not awaited as nothing follows it;
after a restart no envelope comes a second time except by a retry; two concurrent
sends that share a sequence number are the subject of `EnvelopeStream`; the numberless
item a refused turn may queue in `signed` is left out, as no handler acts on it
there.

### 4.3 Runs

Bounds: `Num` (numbers drafted) and `Base`, `MaxDrafts` per host, `MaxLoss` (sends
that report a failure), `MaxCrash`, `Overlapping`, `Leavers` (hosts where the
session may leave live). Deadlock checking is off: a budget nobody extends is a
legal end.

| Run | Question | Bounds |
|---|---|---|
| `bud_serial` | Is a proposer ever left waiting for nothing, is every race settled, do the hosts agree on the budget when all is quiet, does it never fall, and do both hosts apply what both humans approved? | numbers 1 and 2, one draft per host, one failed send, no overlap, the initiator may leave live |
| `bud_overlap` | Does `max_turns` ever rise without both humans when captured records are written back late? The invariant of the proof | one number, one draft per host, one failed send, one restart, the initiator overlaps and may leave live |

One draft per host is enough for the race, in every order of drafts, approvals
and receipts; two numbers let the loser's number be below, equal to and above the
winner's; one failure puts each send to each outcome once.

Two things go wrong beyond these bounds, one with a second failed send, one with
overlapping calls (and a restart may lose a pending item, section 4.5):

* a second failed send is one too many: the first stored the proposal, the peer
  approved, and the approval found the proposer still `emitting` and was dropped
  (`budget-extend.ts:599`); the repeated proposal is then ignored by the peer as
  decided. One host has the higher budget, the other waits for ever, against the
  test `budget-extend.test.ts:105`. With one failed send it does not happen,
  because the pull that would read the approval is preceded by the retry
  (`bud_serial`);
* the session is closed while the proposal is being sent; the write-back
  (`budget-extend.ts:152`) makes it live again. The same write-back takes a turn
  counted during the send off the count, and gives a recipient that yielded to the
  initiator's proposal during the send its own back, so that both hosts wait for the
  other (`RaceIsSettled` with `Overlapping = {"recipient"}`).

### 4.4 Fairness

`bud_serial` uses `FairSpec`: `WF(Resume)` (a send returns, the
client has a timeout), `WF(Retry)`, `WF(Pull)` and `WF(Dispatch)` (an agent keeps
calling `inbox` or `inbox_wait`, and a pull runs to its end). Humans and agents are
never fair; losses are bounded, and a retry that keeps failing would be no fault of
the code.

### 4.5 What is proved

For any base and numbers, any bounds, any set of overlapping hosts and leavers,
from `NumAssumption` (numbers are naturals), `BoundsAssumption` (types of the
bounds) and `NoneAssumption` (the markers for no item are distinct and no
proposals):

| Theorem | States |
|---|---|
| `TypeCorrect` | `Spec => []TypeOK` |
| `BudgetInvariant` | `Spec => []BudgetInv` |
| `BudgetSafety` | `Spec => []MaxNeedsBothHumans`, the rule N4 |
| `MaxSafety` | `Spec => [][MaxRises]_vars`: `max` never falls at a host outside `Overlapping` |
| `SerialMaxSafety` | if `Overlapping = {}`, `Spec => MaxNeverFalls` |
| `AwaitedSafety` | if `Overlapping = {}`, `Spec => [](OneLoss => AwaitedIsComing)` |
| `SettledSafety` | if `Overlapping = {}`, `Spec => [](OneLoss => RaceIsSettled)` |
| `SameBudgetSafety` | if `Overlapping = {}`, `Spec => [](OneLoss => SameBudgetAtRest)` |

N4 speaks of the records alone. Where a record gets its `max_turns` from is an
envelope, a pending item, or a record some handler captured long ago; the
inductive `BudgetInv` says of all four that they are grounded in the humans'
approvals: an extension that is emitted or awaited was approved by its own human,
one that is answered with an approval by both; a proposal on its way, or queued at
the peer, by the proposer's human; an approval on its way by both. Approvals are
only ever added (`Grows`), so what a step leaves alone stays grounded, and each
action has to account only for the record, item, write or envelope it makes.

So the races described above can confuse the budget, and never raise it
without the humans.

That `max_turns` never falls has two sides: a proposal that comes late must not be
applied over a higher number, and a record written back after a send must not be
older than what was agreed during it. `MonoInv(h)` says of a host `h` whose handlers
wait for each other: what waits for its human is above the present `max_turns` and
stands beside no extension of its own, an extension that is emitted or awaited is its
own, and there is at most one suspended write, with the `max_turns` the record has.
Nothing is asked of the peer, of losses or of restarts, so `MaxSafety` has no
assumption; it says nothing of a host in `Overlapping`, where a handler may start
while another awaits its send and be overwritten by it.

The last three are about the race of two proposals, for any numbers and any number
of drafts, where the run has one draft per host. `OneLoss` is `losses <= 1 /\
crashes = 0`, and with `Overlapping = {}` it excludes what goes wrong beyond the
bounds (section 4.3): overlapping calls, and a second failed send, after which a
pull dispatches an approval while the extension is still `emitting`, where it is
ignored. Nor does it hold over a restart: a pending item that was queued, and not
flushed when its envelope was read, is gone, and its proposer waits for nothing (with
`MaxCrash = 1` TLC finds it in six steps).

The invariant, `RaceOK`, is a relation between what one host holds, what its peer
holds, and the two inboxes. The inboxes are abstracted to the set of what is on
its way (`Mail`), which envelope is ahead of which (`Order`), and what the pull in
progress has yet to dispatch (`Due`). `RaceInv(h, g)` has fifteen parts. Those that carry
the argument:

* `ComingInv`, `KnownInv`: a proposal that was sent is in the peer's inbox, before its
  human, or known to the peer; one the peer knows is being answered, or has an answer
  on its way, or the initiator's own proposal is about to replace it (`Overruled`);
* `FreshInv`: a proposal the peer does not know is the one its author still makes, or it
  is a recipient's that met the initiator's proposal, and then no answer to that
  proposal is ahead of it: the answer would end the proposal that has to win;
* `OrderInv`: an answer is not behind a proposal its sender made after it, so the host
  has left its own extension by the time it reads the next one;
* `FailedInv`: an extension whose send failed is the one loss, and no approval of it is
  among what the present pull dispatches, because the retry comes before the pull.

`SameInv` adds that the budgets differ only while an approval is on its way.
A live session may end on its own, so this is claimed while both are live; `Calls` (a
host has at most one suspended handler, and what that one will write back is the
record as it is, with its envelope marked sent or its proposal decided) holds regardless. The proof first reduces every action to one of twelve
kinds of step in terms of `Mail`, `Order` and `Due` (`ActsMoves`), and then shows for each
kind that it keeps the fifteen parts on both sides (`CalmRace` to `DropsRace`).

Model-checked only: `ApprovedByBothIsApplied` (liveness, out of the prover's reach).

## 5. Envelopes on their way

`EnvelopeStream` follows envelopes from several peers to one agent, the reader:
numbering at the sender, the relay's inbox table, the reader's pull with its
marks and cursor, and the revocation that purges the table meanwhile.

### 5.1 State

| Variable | Code |
|---|---|
| `high[p]`, `flight[p]` | `threadSeqHighWater` of the peer (`thread-seq.ts`, in memory), and its sends that have not returned |
| `inbox`, `challenge`, `admitted`, `expired` | the relay: rows with SQLite's implicit rowid, the agent's one unused challenge, the uploaded allowlist, envelopes past their ttl |
| `bonds`, `allow`, `cursor` | the reader's stores |
| `mark[p]`, `saved[p]` | `FileEnvelopeSeqStore`: the highest number accepted, in memory and on disk |
| `pull` | the inbox call in progress: where it is, `since`, the peers it captured, the rows left, the last row it was answered with |
| `revoking` | `handleRevoke` in progress: where it is, whose bond, attempts to purge |
| `seen` | envelopes the session has handled since the reader started |
| `posted` ... `blemished` | history, read by properties only |

### 5.2 Actions

`SendStart` reads the next number and starts the send; `SendOk`, `SendRefused` and
`SendFails` are its three ends, of which the last may or may not have stored the
envelope. `PullStart` captures cursor and peers and asks for a challenge;
`PullAnswered` is the relay's handler with both filters, `Take`, `FetchFails`,
`Accept`, `Handle` and `HandleFails` are the loop of `handleInbox` with
`receiveEnvelope` inside, one await each; `SaveCursor` and `PullEnds` the two
flushes at its end. `RevokeStart`, `PurgeAsk`, `Purge`, `PurgeRefused` and
`PushAllowlist` are `handleRevoke`. The relay may collect expired rows in any
handler that takes a request (`Kept`).

Troubles are counted: a request that fails, a fetch that fails for a passing
reason, a wire that comes twice, a ttl that passes, a restart of either side, a
revocation. The agent may pull again from before a row it was answered with
(`Rereads`), as the SPEC tells it to after a retryable refusal.

Left out: refusals that depend on the bytes alone (size, version, signature,
routing, payload), the relay's gap warnings, and the content of what is handled,
which is `NegoSession`'s subject.

### 5.3 Runs

| Run | Question | Bounds |
|---|---|---|
| `stream_inbox` | Does the cursor hide mail, is only what was accepted refused as stale, is anything accepted twice, and does a host that keeps reading get its mail? | one peer with overlapping calls, admitted before its bond is added; two envelopes, two troubles of any kind |
| `stream_retry` | Can an envelope refused as retryable be retried? It cannot | one peer, two envelopes, one failed fetch |

Two envelopes are the least that overlap, overtake and reuse a number; two troubles
put any pair of them in any order (a restart and a repeated wire, a revocation and
a collected row). Marks, rows and challenges of different peers only meet in the
row numbers, which one peer reaches as well.

`stream_retry`: the mark rises with the next envelope of the thread that is
accepted, which the same pull does, so the retry that the answer's `retryable: true`
and SPEC 523-524 promise meets `stale_seq`. `approval_channel_unavailable` is
answered with `retryable: true` too, after the number was committed.

The properties name what they cannot promise, and these are facts about the code:

* `NothingHidden` ends with the first row number given twice: the table has no
  `AUTOINCREMENT`, so after a purge or a collection of the highest rows the next
  envelope takes a number the cursor has passed, and is never shown;
* it speaks of mail whose sender was bonded when the pull was asked: the peers are
  captured before the challenge and the answer, and the cursor passes what the
  filter drops, so the first mail of a peer bonded in between is lost (`due`);
* `StaleWasAccepted` excepts a peer with a failed, overlapping or forgotten send
  (`blemished`): a number whose send failed is used again, and the relay may have
  stored the first; after a restart numbers start at 1 again, and everything is
  stale until they pass the mark;
* a pull and a purge take each other's challenge; both ask again;
* a post between the purge and the push of the allowlist is stored.

### 5.4 Fairness

`WF(PullGoesOn)`: the agent calls `inbox` or `inbox_wait` again and again, with the
saved cursor, and a call that has its rows goes through them. Failing requests,
retries from earlier rows, sends and revocations are not fair.

### 5.5 What is proved

For any set of peers and any bounds, from `PeerAssumption` and `BoundsAssumption`
(`EnvelopeStreamProofs`):

* `TypeCorrect`: `TypeOK`. It needs that what a peer has sent is numbered at most by
  how many envelopes it has sent (`SendInv`, with `Cardinality`), that only posted
  envelopes are in rows (`MailInv`), and that a purge is asked for a first time once
  (`AskInv`).
* `AcceptanceSafety`: `AcceptedOnce`. The mark of a peer is at least every number
  accepted from it, and the row about to be accepted is beyond it (`MarkInv`), which
  needs that rows have numbers of their own (`RowInv`).
* `MailSafety`: `NothingHidden`. Three invariants: whoever is bonded is allowed and
  admitted, and nobody due is bonded anew (`PeerInv`); a pull waiting for its rows
  starts no later than the cursor and knows the senders of what is due (`AskedInv`);
  what the cursor has passed is answered for, and what it will have passed at the
  end of the pull is answered for or still among its rows (`ShownInv`).

* `StaleSafety`: `StaleWasAccepted`. That a stale envelope was accepted rests on the
  order of a peer's envelopes being kept at every place on the way, which is an
  invariant for each place: the sender gives numbers out in order and reuses none, as
  long as no send failed, overlapped or was forgotten (`NumberInv`); whatever it has
  finished sending is in a row, has expired, or its sender is gone for good
  (`StoredInv`), so that nothing old comes to be due anew; rows of one peer are in
  the order of its numbers (`OrderInv`); a pull waiting for its rows will get those of
  every envelope not yet accepted (`AheadInv`), and has them in order once it got
  them (`TodoInv`); what was answered for without being accepted came from a peer
  that is allowed no more (`MissedInv`). Hence nothing beyond an unaccepted envelope
  was accepted (`BeyondInv`), and as each mark stands for an envelope that was
  (`MarkedInv`), no mark refuses it. Garbage collection, purges, repeated posts and
  restarts of the reader are in the proof without bound.

The liveness property `MailIsAnswered` is model-checked only.

## 6. Pairing

`Pairing` has the two flows of `protocol/src/pairing/flow.ts` over the relay's
channel, which is a single slot that each post overwrites, with the tools that
start them (`pair.ts`, `pair-completion.ts`) and the other users of the allowlist:
a revocation, and another pairing of the same host.

### 6.1 State and actions

| Variable | Code |
|---|---|
| `slot`, `lapsed` | the row of `/pair/:sessionId`, its TTL |
| `core` | whether the profiles of the two hosts intersect in `core/1` |
| `reg[h]` | the host's entry in `InMemoryPairingRegistry`: none, live, consumed |
| `flow[h]` | where `pairInitComplete` or `pairJoin` is, the allowlist it captured, its result |
| `allow[h]`, `admitted[h]`, `bonds[h]` | local allowlist, the relay's copy, bonds |
| `revoking[h]` | the list a `handleRevoke` pushes, attempts left |
| `approved` ... `bondings` | history, read by properties only |

Every post is `Post`: it succeeds, or throws with or without effect. Every poll is
a pair of actions, `...Hears...` and `TimesOut`. A push of the allowlist is `Admit`
(the local list, before the await), then `PushOk`, `PushRefused` (rolled back) or
`PushThrows` (not rolled back); a rollback is `Restore`, then `RestorePushed`.
`JoinerBonds` and `InitiatorBonds` add the bond after the flow has returned.
`Garble` loses or alters the message in the slot, `Lapse` ends the code's time,
`Crash` forgets registry and flow. The cryptography is taken at its word: a message
that is not as its sender posted it does not verify.

### 6.2 Run

`pair_flow`: both hosts may have another bond, at most two requests fail or are lost
or a host restarts, and one revocation or other pairing happens meanwhile. Two
faults reach every pair (a lost `bond_ok` and a failed rollback); a second
change would only repeat what the first does to the captured list.

| Property | Says |
|---|---|
| `AdmittedNeedsApproval` | nobody is admitted or bonded before the joiner's human approved |
| `JoinerBondedMeansAdmitted` | a bonded joiner can be heard: the two-generals gap (SPEC 321-324, 577-581) is on the other side only |
| `FailureLeavesNothing` | another end leaves no trace of the peer |
| `RelayCopyAgrees` | at rest the relay has the host's own list |
| `OthersKept` | the other bonds survive |
| `PingPong` | no message is overwritten unread (SPEC 248-251), failures apart |
| `ApprovedIsBonded` | a reliable pairing ends bonded on both sides |

Their exceptions are facts about the code as well. A rollback restores the list
captured before the push: a bond revoked meanwhile is admitted again, one made
meanwhile is dropped from the list (`undone`). Pushes that overlap carry lists
of their own start, so the relay's copy may be the older (`missed`). A post or put
that throws ends the flow without rollback or `bond_fail`, with the code still
usable (`thrown`). An unread `bond_fail` is overwritten by the `confirm` of a slow
initiator.

Fairness: `WF(InitiatorStep)` and `WF(JoinerStep)`; polls and requests of a flow
go on, which the timeouts in `flow.ts` and the client guarantee. Humans and agents are not
fair.

### 6.3 What is proved

For any third agent, any busy hosts and any bounds, from `ThirdAssumption` and
`BoundsAssumption` (`PairingProofs`):

* `TypeCorrect`: `TypeOK`, with the verdict of a flow that has failed (`FailInv`).
* `AdmissionSafety`: `AdmittedNeedsApproval`. Until the approval, no list of a host,
  captured and pushed lists included, has the peer (`Clean`), the joiner has posted at
  most a reject, and the initiator waits for the joiner's first message (`Silent`).
* `RelayCopySafety`: `RelayCopyAgrees`. What a push and its rollback carry is the
  local list, or the one captured before it (`CopyOf`).
* `FailureSafety`: `FailureLeavesNothing`. At each place of a flow, which lists may
  still have the peer (`LeavesNothing`).
* `OthersSafety`: `OthersKept`, inductive as it stands.

They rest on one lemma, `Steps`: a step of the specification leaves all lists alone
and moves one flow (`Calm`), or is one of the few actions that touch the lists of one
host (`Touches`), and what it does to the other host is nothing (`Apart`).

The two properties that relate both flows are in `PairingChannelProofs`:

* `PingPongSafety`: `PingPong`. `TurnInv` says for each message the slot may hold where
  the two flows may be, and for each place at which a flow posts what the slot may
  hold; it has to know that a poll that timed out, a lost answer and a repeated
  `pair_join` leave the other side where it was.
* `JoinerSafety`: `JoinerBondedMeansAdmitted`. A joiner is bonded by the initiator's
  `bond_ok`; from the moment that is in the slot, or heard, nothing left of the
  initiator's pairing rolls its allowlist back (`Told`, `BondInv`).

Both go through a lemma, `Moves`, that sorts the steps of the specification into a few
moves of slot, initiator and joiner.

The liveness property `ApprovedIsBonded` is model-checked only.

## 7. The human gate

`HumanGate` is `human_approve` with the queue of pending items: codes, tries, the
chain that runs the calls for one item one after the other, the code files and
`pending.json`. It has the items `pair_join` queues for one pairing code and
`session_open` items; the other kinds go through the same code and differ in that
they are never overdue.

### 7.1 State and actions

| Variable | Code |
|---|---|
| `queue[i]`, `file`, `saved` | the pending items with their wrong codes, approval files, `pending.json` |
| `reg`, `lapsed`, `flow` | the pairing registry's entry for the code, its time, `joinerPairJoinInFlight` |
| `joins` | `pair_join` calls between their check and the new item |
| `chain[i]`, `run[i]` | `pendingChains`: what the calls for an item ask; where the running one is |
| `compared` ... `stray` | history, read by properties only |

`Begin` is `executeHumanApprove` up to its first await; `Miss`, `Decline` and `Hit` the
comparison; `FlowEnds` and `SessionEnds` the end of what the decision started;
`Settle` is `classifyApprovalOutcome`: a terminal outcome removes the item, a
transient one keeps it. `Commit` writes the file before the item, `Remove` deletes
both and may fail on the file. A throw rejects the calls behind it (`Throw`).

### 7.2 Run

`gate_decide`: two pairing items, one opening, three calls, two tries and one fault.
Three calls are a pair that overlaps and one more; `MaxTries` is 2 for the code's 5,
the counting is the same and the theorem has no bound.

| Property | Says |
|---|---|
| `TriesAreBounded` | overlapping calls do not get an item more than `MaxTries` wrong codes |
| `OneEffect` | one decision takes effect per item, one bond per code |
| `FileIsForItem` | an item can be decided, and a file belongs to an item |

What the properties except: a restart brings the queue back as `pending.json` had it,
so tries may be forgotten and a decision may take effect again; a crash between the
deletion of a file and the flush of `pending.json` brings the item back without its
code. Beyond them, seen in the model: the fifth wrong code of a pairing posts a
rejection before it consumes the code, and when that post throws the code stays live,
so a new `pair_join` gives five fresh tries; two `pair_join` calls that overlap queue
two items, and a rejection of one is answered by the flow an approval of the other
started; after a restart a pairing item answers `expired` unless `pair_join` is
called again.

### 7.3 What is proved

For any items and any bounds, from `ItemAssumption` and `BoundsAssumption`
(`HumanGateProofs`):

* `TypeCorrect`: `TypeOK`.
* `TriesSafety`: `TriesAreBounded`. The wrong codes counted on an item that waits are
  those compared with it, less than `MaxTries`, and a call about to compare has read
  that number (`TriesInv`).
* `FileSafety`: `FileIsForItem`, with what `pending.json` may have of an item that was
  never queued (`FileInv`).
* `EffectSafety`: `OneEffect`. A call past its comparison finds its item without an
  effect; an item that waits and had its effect has a call that is about to remove it
  (`ItemInv`); a code that bonded is consumed or over (`CodeInv`).

There is no liveness: the human and the agent may stop at any point.

## 8. Stores on disk

`PersistentStore` is `createJsonPersistentStore` with its users: `Mutate` (in place)
and `Replace` (another object) are the two ways a store changes, each begins a flush,
and `ContextFlush` is `flushAgentContext`. A flush writes a temporary file
(`WriteTmp`) and renames it (`Rename`); one that finds a write under way waits for it
(`Begin`, `WriteOk`); a write that fails is done once more (`WriteFailsAgain`,
`WriteFails`). The data is a version number; `of` is what a write took, which follows
changes in place until the file is written (`Live`) and no longer once the data is
another object (`Freeze`).

| Run | Question | Bounds |
|---|---|---|
| `store_flush` | Does the file ever get older, and does each change reach it? | three changes, five flushes, two faults, the store is read before it is flushed |
| `store_unread` | Does a file that was written stay written when a process flushes a store it has not read? It does not | one change, two flushes, one restart |

Three changes and five flushes let two flushes wait for one write while a third
change comes; two faults are a write that fails and the retry that fails, or a restart
behind either.

Both properties end with the first two flushes that waited for the same write
(`overlapped`): when it is over, each starts a write of its own, at once, and the older
data may be renamed last.

`store_unread`: `flush` writes what the process holds, and it holds the empty default
until the first read. Only `pending.json` is read when the process starts. A process that
receives SIGTERM, or answers a human, before it has read its bonds, sessions, allowlist or
closed threads, replaces them with nothing.

Fairness: `WF(Write(f))`, the file system answers.

For any bounds, from `BlindAssumption` and `BoundsAssumption`
(`PersistentStoreProofs`):

* `TypeCorrect`: `TypeOK`, where a written file holds a version and not the live
  object (`WrittenInv`).
* `OrderSafety`: `NeverOlder`, when the context is not flushed before it was read
  (`~Blind`). Until two flushes have waited for one write, only the flush the promise
  names is writing, and the others wait for it (`OneWriter`); file, write and data are
  in order (`Fresh`).

`ChangesAreSaved` is a liveness property and model-checked only.

## 9. Not modelled

* Cryptography and PAKE: a model would assume what they promise.
* Parsing and schema validation: no state.
* The signing gate (`atest-gate.ts`, `test-reports.ts`): a predicate in front of
  `handleSign`; a refusal is a call the agent does not make.
* Artifacts: the quota check, deduplication and insert run without an await between
  them; a blob that cannot be fetched is `FetchFails` of `EnvelopeStream`.
* The rate limiter: a refused request is one of the faults of `EnvelopeStream` and
  `Pairing`; its windows admit twice the limit around their end by construction.
* The preflight: no state of the hosts or the relay depends on its cached verdict.
* Process start, HTTP and database opening, test runners, the conformance suite, the
  ESP32 runner and scripts: I/O and tooling.
* Overlapping `inbox` and `inbox_wait` calls of one agent, which the code calls undefined.
