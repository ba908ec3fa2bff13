--------------------------- MODULE EnvelopeStream ---------------------------
(***************************************************************************)
(* Envelopes on their way from peers to one agent, the reader: the peers'  *)
(* outbound numbers, the relay's inbox table with its cursor, challenges   *)
(* and garbage collection, the reader's pull with its high-water marks,    *)
(* and the revocation of a bond, which purges the inbox while a pull may   *)
(* be under way.  Each peer writes to one thread.                          *)
(*                                                                         *)
(* An envelope stands for its id and its wire; refusals that depend on its *)
(* bytes alone (size, version, signature, routing, payload) are left out.  *)
(* A step runs from one await to the next.                                 *)
(***************************************************************************)
EXTENDS Naturals, FiniteSets

CONSTANTS
  Peer,         \* agents that write to the reader
  Late,         \* peers the allowlist admits while their bond is yet to be added
  Overlapping,  \* peers whose tool calls overlap
  Rereads,      \* whether the agent pulls again from just before a row
  MaxSends,     \* bound: envelopes per peer
  Troubles,     \* what may disturb the stream, see Trouble
  MaxTroubles   \* bound: how often something does

(* A request that fails, is late or loses its answer; an artifact            *)
(* fetch that fails for a passing reason; a wire that reaches the relay once *)
(* more; a ttl that passes; a restart of the reader or of a peer; a          *)
(* revocation of the bond.                                                   *)
Trouble == {"fault", "fetch", "repost", "expiry", "crash", "revoke"}

ASSUME PeerAssumption ==
  /\ Late \subseteq Peer /\ Overlapping \subseteq Peer
  /\ Rereads \in BOOLEAN
ASSUME BoundsAssumption ==
  MaxSends \in Nat /\ MaxTroubles \in Nat /\ Troubles \subseteq Trouble

VARIABLES
  high,       \* per peer: the highest number it recorded as sent, in memory
  flight,     \* per peer: envelopes whose send has not returned
  inbox,      \* the relay's rows for the reader
  challenge,  \* the request that holds the reader's unused challenge
  admitted,   \* the relay's copy of the reader's allowlist
  expired,    \* envelopes whose ttl has passed
  bonds,      \* the reader's bonds
  allow,      \* the reader's own allowlist
  cursor,     \* its saved cursor
  mark,       \* per peer: the highest number accepted, in memory
  saved,      \* per peer: the same on disk
  pull,       \* the inbox call in progress
  seen,       \* envelopes a session has handled since the reader started
  revoking,   \* the revocation in progress
  troubles,   \* how often something has disturbed it
  posted,     \* history: wires peers have made
  due,        \* history: envelopes stored while their sender was bonded, no pull that
              \*          took it for a stranger being under way
  top,        \* history: the highest row number given so far
  reused,     \* history: whether a row number was given twice
  examined,   \* history: envelopes some pull has answered for
  accepted,   \* history: envelopes accepted
  kept,       \* history: those whose acceptance a restart has not undone
  stale,      \* history: envelopes refused as stale_seq without ever being accepted
  retryable,  \* history: envelopes last refused with retryable: true
  blemished   \* history: peers with a send that failed, overlapped or forgot its number,
              \*          or with a fetch that failed

relay == <<inbox, challenge, admitted, expired>>
reader == <<bonds, allow, cursor, mark, saved, pull, seen, revoking>>
relayHistory == <<posted, due, top, reused>>
readerHistory == <<examined, accepted, kept, stale, retryable>>
vars == <<high, flight, relay, reader, troubles, relayHistory, readerHistory, blemished>>

Envelope == [from : Peer, n : 1 .. MaxSends, seq : 1 .. MaxSends]
Row == [row : Nat \ {0}, env : Envelope]

NoPull == [pc |-> "idle", since |-> 0, history |-> FALSE, peers |-> {}, todo |-> {}, upto |-> 0]
NoRevoke == [pc |-> "idle", peer |-> {}, tries |-> 0]

-----------------------------------------------------------------------------
(* The relay                                                               *)

(* A handler that takes a request may first delete the expired rows.       *)
Kept(gc) == IF gc THEN {r \in inbox : r.env \notin expired} ELSE inbox

RowsOf(rows) == {r.row : r \in rows}

(* SQLite's implicit rowid: one more than the highest there is.            *)
NextRow(rows) ==
  {i \in 1 .. top + 1 : /\ \A j \in RowsOf(rows) : j < i
                        /\ i = 1 \/ i - 1 \in RowsOf(rows)}

(* The handler of POST /inbox for wire e: stored, stored before, or refused. *)
PostInbox(e) ==
  \E gc \in BOOLEAN :
    IF e.from \in admitted /\ \A r \in Kept(gc) : r.env # e
      THEN \E i \in NextRow(Kept(gc)) :
             /\ inbox' = Kept(gc) \cup {[row |-> i, env |-> e]}
             /\ due' = IF e.from \in bonds /\ (pull.pc = "asked" => e.from \in pull.peers)
                         THEN due \cup {e} ELSE due
             /\ top' = IF i > top THEN i ELSE top
             /\ reused' = (reused \/ i <= top)
      ELSE inbox' = Kept(gc) /\ UNCHANGED <<due, top, reused>>

Disturbs(what) ==
  what \in Troubles /\ troubles < MaxTroubles /\ troubles' = troubles + 1

(* A challenge replaces the agent's unused one.                            *)
IssueChallenge(who) == challenge' = who /\ \E gc \in BOOLEAN : inbox' = Kept(gc)

(* A challenge is good for 60 seconds.                                     *)
ChallengeExpires ==
  /\ challenge # "none" /\ challenge' = "none" /\ Disturbs("fault")
  /\ UNCHANGED <<high, flight, inbox, admitted, expired, reader, relayHistory, readerHistory, blemished>>

-----------------------------------------------------------------------------
(* Peers                                                                   *)

(* nextThreadSeq is read, then the send is awaited.                        *)
SendStart(p) ==
  LET n == Cardinality({e \in posted : e.from = p}) + 1
      e == [from |-> p, n |-> n, seq |-> high[p] + 1] IN
  /\ n <= MaxSends
  /\ flight[p] = {} \/ p \in Overlapping
  /\ flight' = [flight EXCEPT ![p] = @ \cup {e}]
  /\ posted' = posted \cup {e}
  /\ blemished' = IF flight[p] = {} THEN blemished ELSE blemished \cup {p}
  /\ UNCHANGED <<high, relay, reader, troubles, due, top, reused, readerHistory>>

Landed(p, e) == flight' = [flight EXCEPT ![p] = @ \ {e}]

(* The relay answers 204 and the peer records the number.                  *)
SendOk(p, e) ==
  /\ e \in flight[p] /\ p \in admitted
  /\ PostInbox(e) /\ Landed(p, e)
  /\ high' = [high EXCEPT ![p] = IF e.seq > @ THEN e.seq ELSE @]
  /\ UNCHANGED <<challenge, admitted, expired, reader, troubles, posted, readerHistory, blemished>>

(* The relay answers recipient_not_allowed.                                *)
SendRefused(p, e) ==
  /\ e \in flight[p] /\ p \notin admitted
  /\ PostInbox(e) /\ Landed(p, e)
  /\ blemished' = blemished \cup {p}
  /\ UNCHANGED <<high, challenge, admitted, expired, reader, troubles, posted, readerHistory>>

(* The send throws, whether or not the relay stored the envelope.          *)
SendFails(p, e) ==
  /\ e \in flight[p] /\ Disturbs("fault")
  /\ PostInbox(e) \/ UNCHANGED <<inbox, due, top, reused>>
  /\ Landed(p, e)
  /\ blemished' = blemished \cup {p}
  /\ UNCHANGED <<high, challenge, admitted, expired, reader, posted, readerHistory>>

(* A wire reaches the relay once more.                                     *)
Repost(e) ==
  /\ e \in posted /\ Disturbs("repost")
  /\ PostInbox(e)
  /\ UNCHANGED <<high, flight, challenge, admitted, expired, reader, posted, readerHistory, blemished>>

(* A peer restarts: its numbers were in memory only.                       *)
SenderCrash(p) ==
  /\ Disturbs("crash")
  /\ high' = [high EXCEPT ![p] = 0]
  /\ flight' = [flight EXCEPT ![p] = {}]
  /\ blemished' = blemished \cup {p}
  /\ UNCHANGED <<relay, reader, relayHistory, readerHistory>>

Expire(e) ==
  /\ e \in posted \ expired /\ Disturbs("expiry")
  /\ expired' = expired \cup {e}
  /\ UNCHANGED <<high, flight, inbox, challenge, admitted, reader, relayHistory, readerHistory, blemished>>

-----------------------------------------------------------------------------
(* The reader's pull                                                       *)

AllowedPeers ==
  IF bonds = {} THEN allow ELSE IF allow = {} THEN bonds ELSE bonds \cap allow

(* The rows a retry may start from: those answered with their cursor.      *)
Since == {cursor} \cup
  (IF Rereads THEN {r.row - 1 : r \in {x \in inbox : x.env \in examined /\ x.row <= cursor}} ELSE {})

(* Cursor and marks are read, the peers captured, the challenge fetched.   *)
PullStart(since, history) ==
  /\ pull.pc = "idle"
  /\ pull' = [NoPull EXCEPT !.pc = "asked", !.since = since, !.history = history,
                            !.peers = AllowedPeers]
  /\ IssueChallenge("pull")
  /\ UNCHANGED <<high, flight, admitted, expired, bonds, allow, cursor, mark, saved, seen, revoking,
                 troubles, relayHistory, readerHistory, blemished>>

Visible(r) ==
  \/ pull.history
  \/ r.env.from \in admitted \cap pull.peers

(* The pull once rows were answered: those it shows, and the last of them  *)
(* all, whoever sent it.                                                   *)
Loads(rows) ==
  \E last \in {pull.since} \cup RowsOf(rows) :
    /\ \A i \in RowsOf(rows) : i <= last
    /\ pull' = [pull EXCEPT !.pc = "loop", !.todo = {r \in rows : Visible(r)}, !.upto = last]

(* Mutant of PullAnswered: the cursor is saved before the rows are handled. *)
PullAnsweredSaves ==
  /\ pull.pc = "asked" /\ challenge = "pull"
  /\ challenge' = "none"
  /\ \E gc \in BOOLEAN :
       /\ inbox' = Kept(gc)
       /\ Loads({r \in Kept(gc) : r.row > pull.since})
  /\ cursor' = pull'.upto
  /\ UNCHANGED <<high, flight, admitted, expired, bonds, allow, mark, saved, seen, revoking,
                 troubles, relayHistory, readerHistory, blemished>>

(* The relay answers with the rows after since; what is not from a bonded  *)
(* peer is filtered by the relay or by filterBondedWires.                  *)
PullAnswered ==
  /\ pull.pc = "asked" /\ challenge = "pull"
  /\ challenge' = "none"
  /\ \E gc \in BOOLEAN :
       /\ inbox' = Kept(gc)
       /\ Loads({r \in Kept(gc) : r.row > pull.since})
  /\ UNCHANGED <<high, flight, admitted, expired, bonds, allow, cursor, mark, saved, seen, revoking,
                 troubles, relayHistory, readerHistory, blemished>>

(* Mutant of PullRefused: the refused call never returns.                  *)
PullRefusedHangs == FALSE /\ UNCHANGED vars

(* The challenge is gone: another request of the agent replaced it.        *)
PullRefused ==
  /\ pull.pc = "asked" /\ challenge # "pull"
  /\ pull' = NoPull
  /\ UNCHANGED <<high, flight, relay, bonds, allow, cursor, mark, saved, seen, revoking,
                 troubles, relayHistory, readerHistory, blemished>>

(* No answer, 429, or an answer that cannot be read; the inbox call ends.  *)
PullFails ==
  /\ pull.pc = "asked" /\ Disturbs("fault")
  /\ pull' = NoPull
  /\ challenge' \in {challenge, "none"}
  /\ UNCHANGED <<high, flight, inbox, admitted, expired, bonds, allow, cursor, mark, saved, seen,
                 revoking, relayHistory, readerHistory, blemished>>

(* Mutant of IsFirst: rows are taken in any order.                         *)
IsFirstAny(r) == r \in pull.todo

IsFirst(r) == r \in pull.todo /\ \A other \in pull.todo : r.row <= other.row

Answered(r) ==
  /\ pull' = [pull EXCEPT !.pc = "loop", !.todo = @ \ {r}]
  /\ examined' = examined \cup {r.env}

(* Mutant of Fresh: the number last accepted passes once more.             *)
FreshOrLast(e) == e.from \in pull.peers /\ e.seq >= mark[e.from]

Fresh(e) == e.from \in pull.peers /\ e.seq > mark[e.from]

(* receiveEnvelope: bonded, then not stale, then not expired, then the     *)
(* payload, which may await an artifact.                                   *)
Take(r) ==
  /\ pull.pc = "loop" /\ IsFirst(r)
  /\ IF Fresh(r.env) /\ r.env \notin expired
       THEN pull' = [pull EXCEPT !.pc = "fetch"] /\ UNCHANGED <<examined, stale, retryable>>
       ELSE /\ Answered(r)
            /\ stale' = IF /\ r.env.from \in pull.peers /\ r.env.seq <= mark[r.env.from]
                           /\ r.env \notin accepted
                          THEN stale \cup {r.env} ELSE stale
            /\ retryable' = retryable \ (IF r.env \in stale' THEN {} ELSE {r.env})
  /\ UNCHANGED <<high, flight, relay, bonds, allow, cursor, mark, saved, seen, revoking,
                 troubles, relayHistory, accepted, kept, blemished>>

(* artifact_fetch_failed: rejected with retryable: true.                   *)
FetchFails(r) ==
  /\ pull.pc = "fetch" /\ IsFirst(r) /\ Disturbs("fetch")
  /\ Answered(r)
  /\ retryable' = retryable \cup {r.env}
  /\ blemished' = blemished \cup {r.env.from}
  /\ UNCHANGED <<high, flight, relay, bonds, allow, cursor, mark, saved, seen, revoking,
                 relayHistory, accepted, kept, stale>>

(* commitAccepted                                                          *)
Accept(r) ==
  /\ pull.pc = "fetch" /\ IsFirst(r)
  /\ pull' = [pull EXCEPT !.pc = "handle"]
  /\ mark' = [mark EXCEPT ![r.env.from] = r.env.seq]
  /\ accepted' = accepted \cup {r.env} /\ kept' = kept \cup {r.env}
  /\ retryable' = retryable \ {r.env}
  /\ UNCHANGED <<high, flight, relay, bonds, allow, cursor, saved, seen, revoking,
                 troubles, relayHistory, examined, stale, blemished>>

(* The session handles it, once; the agent gets it in any case.            *)
Handle(r) ==
  /\ pull.pc = "handle" /\ IsFirst(r)
  /\ Answered(r)
  /\ seen' = seen \cup {r.env}
  /\ UNCHANGED <<high, flight, relay, bonds, allow, cursor, mark, saved, revoking,
                 troubles, relayHistory, accepted, kept, stale, retryable, blemished>>

(* The session's handler cannot queue its item for the human: the envelope *)
(* is reported as approval_channel_unavailable, also with retryable: true. *)
HandleFails(r) ==
  /\ pull.pc = "handle" /\ IsFirst(r) /\ Disturbs("fault")
  /\ r.env \notin seen
  /\ Answered(r)
  /\ UNCHANGED <<high, flight, relay, bonds, allow, cursor, mark, saved, seen, revoking,
                 relayHistory, accepted, kept, stale, retryable, blemished>>

(* The cursor is set and flushed, ...                                      *)
SaveCursor ==
  /\ pull.pc = "loop" /\ pull.todo = {}
  /\ cursor' = pull.upto
  /\ pull' = [pull EXCEPT !.pc = "flush"]
  /\ UNCHANGED <<high, flight, relay, bonds, allow, mark, saved, seen, revoking,
                 troubles, relayHistory, readerHistory, blemished>>

(* ... then the marks, and the call returns.                               *)
PullEnds ==
  /\ pull.pc = "flush"
  /\ saved' = mark /\ pull' = NoPull
  /\ UNCHANGED <<high, flight, relay, bonds, allow, cursor, mark, seen, revoking,
                 troubles, relayHistory, readerHistory, blemished>>

(* Every commit schedules a write of the marks.                            *)
SaveMarks ==
  /\ saved # mark /\ saved' = mark
  /\ UNCHANGED <<high, flight, relay, bonds, allow, cursor, mark, pull, seen, revoking,
                 troubles, relayHistory, readerHistory, blemished>>

(* A restart: files are read again, memory is lost.                        *)
ReaderCrash ==
  /\ Disturbs("crash")
  /\ mark' = saved /\ pull' = NoPull /\ seen' = {} /\ revoking' = NoRevoke
  /\ kept' = {e \in kept : e.seq <= saved[e.from]}
  /\ UNCHANGED <<high, flight, relay, bonds, allow, cursor, saved,
                 relayHistory, examined, accepted, stale, retryable, blemished>>

-----------------------------------------------------------------------------
(* The reader's bonds                                                      *)

(* A pairing ends: the allowlist was pushed before, now the bond is added. *)
Bond(p) ==
  /\ p \in Late \cap allow /\ p \notin bonds
  /\ bonds' = bonds \cup {p}
  /\ UNCHANGED <<high, flight, relay, allow, cursor, mark, saved, pull, seen, revoking,
                 troubles, relayHistory, readerHistory, blemished>>

(* handleRevoke up to its first await.                                     *)
RevokeStart(p) ==
  /\ revoking = NoRevoke /\ Disturbs("revoke")
  /\ p \in bonds \cup allow \cup admitted
  /\ bonds' = bonds \ {p} /\ allow' = allow \ {p}
  /\ revoking' = [pc |-> "ask", peer |-> {p}, tries |-> 0]
  /\ UNCHANGED <<high, flight, relay, cursor, mark, saved, pull, seen,
                 relayHistory, readerHistory, blemished>>

PurgeAsk ==
  /\ revoking.pc = "ask"
  /\ IssueChallenge("purge")
  /\ revoking' = [revoking EXCEPT !.pc = "purge", !.tries = @ + 1]
  /\ UNCHANGED <<high, flight, admitted, expired, bonds, allow, cursor, mark, saved, pull, seen,
                 troubles, relayHistory, readerHistory, blemished>>

(* The rows of the pair are deleted.                                       *)
Purge ==
  /\ revoking.pc = "purge" /\ challenge = "purge"
  /\ challenge' = "none"
  /\ \E gc \in BOOLEAN : inbox' = {r \in Kept(gc) : r.env.from \notin revoking.peer}
  /\ revoking' = [revoking EXCEPT !.pc = "push"]
  /\ UNCHANGED <<high, flight, admitted, expired, bonds, allow, cursor, mark, saved, pull, seen,
                 troubles, relayHistory, readerHistory, blemished>>

(* Mutant of PurgeRefused: one attempt more.                               *)
PurgeRefusedThrice ==
  /\ revoking.pc = "purge" /\ challenge # "purge"
  /\ revoking' = [revoking EXCEPT !.pc = IF revoking.tries < 3 THEN "ask" ELSE "push"]
  /\ UNCHANGED <<high, flight, relay, bonds, allow, cursor, mark, saved, pull, seen,
                 troubles, relayHistory, readerHistory, blemished>>

(* Refused, for a pull took the challenge: tried twice in all.             *)
PurgeRefused ==
  /\ revoking.pc = "purge" /\ challenge # "purge"
  /\ revoking' = [revoking EXCEPT !.pc = IF revoking.tries < 2 THEN "ask" ELSE "push"]
  /\ UNCHANGED <<high, flight, relay, bonds, allow, cursor, mark, saved, pull, seen,
                 troubles, relayHistory, readerHistory, blemished>>

(* The allowlist captured at the start reaches the relay.                  *)
PushAllowlist ==
  /\ revoking.pc = "push"
  /\ admitted' = admitted \ revoking.peer
  /\ revoking' = NoRevoke
  /\ UNCHANGED <<high, flight, inbox, challenge, expired, bonds, allow, cursor, mark, saved, pull, seen,
                 troubles, relayHistory, readerHistory, blemished>>

(* The relay cannot be reached: the call throws and is not taken up again. *)
RevokeFails ==
  /\ revoking.pc # "idle" /\ Disturbs("fault")
  /\ revoking' = NoRevoke
  /\ UNCHANGED <<high, flight, relay, bonds, allow, cursor, mark, saved, pull, seen,
                 relayHistory, readerHistory, blemished>>

-----------------------------------------------------------------------------
Init ==
  /\ high = [p \in Peer |-> 0] /\ flight = [p \in Peer |-> {}]
  /\ inbox = {} /\ challenge = "none" /\ admitted = Peer /\ expired = {}
  /\ bonds = Peer \ Late /\ allow = Peer
  /\ cursor = 0 /\ mark = [p \in Peer |-> 0] /\ saved = mark
  /\ pull = NoPull /\ seen = {} /\ revoking = NoRevoke
  /\ troubles = 0
  /\ posted = {} /\ due = {} /\ top = 0 /\ reused = FALSE
  /\ examined = {} /\ accepted = {} /\ kept = {} /\ stale = {} /\ retryable = {}
  /\ blemished = {}

Sending ==
  \/ \E p \in Peer : SendStart(p) \/ SenderCrash(p)
  \/ \E p \in Peer : \E e \in flight[p] : SendOk(p, e) \/ SendRefused(p, e) \/ SendFails(p, e)
  \/ \E e \in posted : Repost(e) \/ Expire(e)
  \/ ChallengeExpires

Answering(r) == Take(r) \/ FetchFails(r) \/ Accept(r) \/ Handle(r) \/ HandleFails(r)

Pulling ==
  \/ \E since \in Since, history \in BOOLEAN : PullStart(since, history)
  \/ PullAnswered \/ PullRefused \/ PullFails
  \/ \E r \in pull.todo : Answering(r)
  \/ SaveCursor \/ PullEnds \/ SaveMarks \/ ReaderCrash

Revoking ==
  \/ \E p \in Peer : Bond(p) \/ RevokeStart(p)
  \/ PurgeAsk \/ Purge \/ PurgeRefused \/ PushAllowlist \/ RevokeFails

Next == Sending \/ Pulling \/ Revoking

Spec == Init /\ [][Next]_vars

-----------------------------------------------------------------------------
(* Properties                                                              *)

(* Every variable has its type.                                            *)
TypeOK ==
  /\ high \in [Peer -> 0 .. MaxSends] /\ flight \in [Peer -> SUBSET Envelope]
  /\ inbox \subseteq Row /\ challenge \in {"none", "pull", "purge"}
  /\ admitted \subseteq Peer /\ expired \subseteq posted
  /\ bonds \subseteq Peer /\ allow \subseteq Peer /\ cursor \in Nat
  /\ mark \in [Peer -> 0 .. MaxSends] /\ saved \in [Peer -> 0 .. MaxSends]
  /\ pull \in [pc : {"idle", "asked", "loop", "fetch", "handle", "flush"}, since : Nat,
               history : BOOLEAN, peers : SUBSET Peer, todo : SUBSET Row, upto : Nat]
  /\ revoking \in [pc : {"idle", "ask", "purge", "push"}, peer : SUBSET Peer, tries : 0 .. 2]
  /\ troubles \in 0 .. MaxTroubles
  /\ posted \subseteq Envelope /\ due \subseteq posted /\ top \in Nat /\ reused \in BOOLEAN
  /\ examined \subseteq posted /\ accepted \subseteq posted /\ kept \subseteq accepted
  /\ seen \subseteq posted /\ stale \subseteq posted /\ retryable \subseteq posted
  /\ blemished \subseteq Peer

(* As long as the relay has not numbered two rows alike, the saved cursor  *)
(* has passed no row of a bonded peer that no pull has answered for,       *)
(* whatever restarts, failed pulls, lost challenges and purges there were. *)
NothingHidden ==
  \A r \in inbox :
    r.row <= cursor /\ r.env \in due /\ r.env.from \in bonds /\ ~reused => r.env \in examined

(* stale_seq refuses what was accepted before; another envelope of a       *)
(* bonded peer is only refused so when a send of that peer had failed,     *)
(* overlapped or lost its number, an artifact could not be fetched, or its *)
(* ttl had passed.                                                         *)
StaleWasAccepted ==
  \A e \in stale :
    e.from \in blemished \/ e \in expired \/ e \notin due \/ reused

(* No envelope is accepted twice while the reader runs, nor after a        *)
(* restart when its number was on disk: not by a pull from an earlier      *)
(* cursor, nor when its wire reaches the relay again after a purge.        *)
AcceptedOnce ==
  [][\A e \in kept : ~(\E r \in pull.todo : r.env = e /\ Accept(r))]_vars

(* An envelope refused with retryable: true is not refused as stale when   *)
(* the agent retries.                                                      *)
RetryableIsNotStale == retryable \cap stale = {}

(* Mail of a bonded peer does not wait for ever at a host that keeps       *)
(* reading its inbox: again and again, all of it has been answered for,    *)
(* although a purge may take the challenge of a pull.                      *)
MailIsAnswered ==
  []<>(\A e \in due : e \in examined \/ e \in expired \/ e.from \notin bonds \/ reused)

-----------------------------------------------------------------------------
(* The agent calls inbox or inbox_wait again and again, and a call that    *)
(* got its rows runs to its end.                                           *)
PullGoesOn ==
  \/ PullStart(cursor, FALSE) \/ PullAnswered \/ PullRefused
  \/ \E r \in pull.todo : Take(r) \/ Accept(r) \/ Handle(r)
  \/ SaveCursor \/ PullEnds

FairSpec == Spec /\ WF_vars(PullGoesOn)
=============================================================================
