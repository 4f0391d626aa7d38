# Dawn in TLA+

Dawn is a Windows DLL that stands in for the servers of a game client: inside
the client's process it answers the BAP connection protocol, advertises
activity hosts for regions, runs the gameplay datagram link, and keeps its own
State. This directory models three parts of it, checks them with TLC and proves
facts about them with TLAPS: the *activity records* that several threads
create, advertise, borrow and retire; the *gameplay link* to a client, from its
DTLS-like handshake through reliable delivery to the admission of group
sessions; and the *call gate* under which hooks are taken out of a running game. Paths below are relative to `src/Dawn/src/` unless
they start with `src/`.

## 1. Inventory

| Component | State it keeps | Operations | Hard behaviour | What makes it correct |
|---|---|---|---|---|
| Activity records, `state/activity/transactions` | 16 records, an id allocator, a revision | prepare, commit, retire_session_exact, contains | plans prepared under a shared lock and committed later | ids are used once; a commit never overwrites a live record it did not name |
| Host-session table, `server/gameplay/group/group_host_sessions.cpp`, `group_host_retirement_fence.h` | 8 rows, 8 evicted hosts, 16 source fences, row pins | claim, alias, look up, allocate, lease, retire a source, reset | its lock is never held across a State call, so every read of State is stale when used | no record is stranded, pinned rows stay, fences are lifted |
| BAP routing and retirement, `server/bap/bap_route.cpp`, `internal.h`, `region_lineage.h` | connection slots with an activity binding, pending roots | open, close, frame, poll, shutdown, recursive retirement, retries | a cascade stops half way at a pinned row and is retried by whoever comes next | derived records go before their source, every blocked root goes in the end |
| Encrypted frames and publication, `server/bap/encrypted` | the staged outcome of one frame and three leases | stage, recheck, commit, publish, release | preconditions checked before State commits, published after | the replaced lease is retired exactly when it must be |
| Plaintext handshake, `server/bap/plaintext.cpp` | authentication of a slot | hello | a repeated hello drops what the old one owned | nothing outlives its authentication |
| Gameplay advertisement, `server/gameplay/gameplay_advertisement.cpp` | none | request a host, take a snapshot, build a descriptor | readiness and snapshot read the table at two moments | a snapshot is of one exact host and source |
| Group admission, `server/gameplay/group/group_host.cpp` | admitted peers, migration descriptors | admit, re-establish, service slice, reset | host migration, retries of full queues | a migrated group keeps its host |
| Peer transport, `server/gameplay/peer/peer_transport.cpp` | sequence numbers, send queue, acknowledgements | send, receive, resend | loss, duplication, reordering, wrapping sequence numbers | each message delivered once, in order |
| Association, DTLS, endpoint, `server/gameplay/{association,dtls,endpoint}` | associations per security id, migration keys, preferences | handshake, register, prefer, choose, reset | abandoned and retried handshakes, keys that come late, a full table | both ends have one key, a registered key is in force, a reply goes where the client listens |
| Matchmaking contexts, `state/matchmaking` | a pool of contexts with generations | acquire, release, commit | release that fails and is retried | no context leaks |
| Membership, entity slots, bubble authority, `state/activity/*` | data of one record | prepared mutations | optimistic commits against one revision | a mutation applies to what it was prepared from |
| Queuez, `server/bap/encrypted/queuez` | account versions per connection | deferred pushes, resynchronisation | one account shared by all connections | each peer catches up |
| Call gates and detours, `client/hooking` | calls in flight, installed hooks | install, call, quiesce, remove | removal while threads run in the hook | no call runs in unloaded code |
| Persistence, account, logging, editor, mission runtime, client hooks, installer | see `PROJECT.json` | | | |

**How the modelled components interact.** The client's network hook calls
`bap::consume` for each connection event; it holds `g_lock` (an SRW lock) for
the whole event. A frame may allocate a record (service 6), join one, report a
region, or push a membership. Reporting a region claims a row in the host
table; the *gameplay service thread* later fills the row with a fresh record
that is *derived* from the connection's record, and the next report advertises
it. Another connection may then join that derived record: it *borrows* it. When
a connection closes, authenticates again, joins elsewhere or is opened again,
the record it owned is retired: `retire_activity_tree_locked` fences the
source, recursively retires every derived record, clears the rows, unbinds the
borrowers, removes the record from State and lifts the fence. If a row is
pinned by a lease, the cascade stops, the fence stays and the root waits in
`g_pendingActivityRetirements` for the next event, or for
`retry_pending_activity_retirements`. The service thread takes `g_lock` only
to retire a record (`retire_group_owned_activity`). Three locks are involved,
`g_lock`, `g_hostSessionLock` and `g_stateLock`; the last two are leaves and
never nest, which is what makes the interleavings rich.

The gameplay link runs on one thread, the gameplay pump: a datagram is opened
by its DTLS association (`on_record`), which hands the payload to the peer
transport (`peer::deliver`), which hands messages to group admission
(`group::consume`). Back, a group message is queued on the link of its session
(`enqueue_reliable`), sent by the transport's slice, and sealed with the
association `find_sending` chooses. Group admission also tells DTLS which
migration key a client gets and when to prefer it, and asks the host table for
the activity host of a session. What is hard there is not parallelism but
order: datagrams are lost, repeated and reordered, a client rebuilds its channel
or starts a handshake over whenever it likes, and publishes refused by a full
queue are retried later from flags.

The call gate is the opposite: any number of game threads run in Dawn's
replacement functions when one of Dawn's threads removes the hooks.

## 2. Modules

| Module | Contents |
|---|---|
| `ActivityRecords` | State's record table: `live`, `nextKey`, the two `plan`s |
| `HostSessions` | the host table: `rows`, `usedBefore`, `evicted`, `fences`, `lease`; one operator per critical section |
| `ActivityRetirement` | composes the two with the threads: connections, BAP events, the cascade, pending roots, service thread, callers; the properties |
| `RecordCustody` | abstract specification: who answers for each record |
| `DtlsAssociations` | handshakes, migration keys and the choice of an association; client and network |
| `ReliableDelivery` | abstract specification: one direction of a link delivers in order, once |
| `PeerChannel` | the established-packet exchange of one link, which implements `ReliableDelivery` in both directions |
| `PeerLinks` | the table of links: connect, rebuild, bind, resolve, drop, the release gate, the queue |
| `GroupAdmission` | composes `PeerLinks` with the admitted table: joins, players, migration, the retry slice |
| `CallGate` | the gate, the Detours transaction, protected removal, one owner's install and uninstall |
| `MC...` | model values and definitions for TLC |
| `...Proofs` | lemmas and theorems: `ActivityRetirementProofs`, `RetirementOrderProofs`, `CustodyProofs` and `ConservationProofs`, each on top of the one before, `CallGateProofs`, `DtlsAssociationsProofs`, `PeerChannelProofs`, `GroupAdmissionProofs` |

### Activity records

**A step** is one critical section of `g_hostSessionLock` or `g_stateLock`.
What a holder of `g_lock` does between two of them is merged into the step
before it, because nobody else can see it: bindings, pending roots and
cascades are only touched under `g_lock`.

**ActivityRecords.** A key is its allocator counter: ids are issued in
increasing order, once, and a fresh record always has incarnation 1. A plan
keeps the id it will commit, the record it overwrites and whether the
revisions it captured are still current; every mutation of State makes the
other plans stale (`Outdated`). A commit on a record that stays (membership,
entity slots) advances the revision only if it changes something
(`MutateRecord`), and any other State transaction may do so at any time
(`AdvanceRevision`).

**HostSessions.** A region is its group id. The use stamp is kept as the order
it induces on rows (the code only compares stamps), a row's generation as an
identity that no row and no lease still carries (the code only compares for
equality), and the evicted hosts as a set (they are distinct records). The
operators `ClaimRow`, `AliasRow`, `StoreHost`, `TakeFreeable`, `ResetRows`,
`AcquireLease`, `ReleaseLease`, `FenceSource`, `CommitDerived`, `CommitSource`
and `FinishSource` are the critical sections of the functions named in `map`.

**ActivityRetirement.**

- `sess[c]` is a connection slot: its phase (closed, open, authenticated, or
  quarantined when its matchmaking context could not be released), the record
  it is bound to, whether it owns it, and the source of its lineage.
- `cascade` is the recursion of `retire_activity_tree_locked` made explicit:
  the record being retired, its parent, the derived records each frame still
  has to visit, and the `visited` list. `CascadeBegin`, `CascadeChild`,
  `CascadeDerived`, `CascadeSource`, `CascadeRetire` and `CascadeFinish` are
  its critical sections; the first two may give up and queue the root.
- `ev` is the BAP event: `Open`, `Close`, `Hello`, `Poll`, `Shutdown`,
  `Allocate` (service 6), `Join`, `Report` (a region report or a deferred
  push), `Identify` (a client identity, which claims a row under the bound
  record even if it is borrowed). Each ends in `Tail`, which drains the
  pending roots before the lock goes. A handled frame may carry one deferred
  push (`Deferred`).
- `claim[a]` is `activity_host_session` run by an event or a caller: claim,
  check the source again, clean up, check the held host, clean up.
- `sv` is the service thread: the slice (`Slice` to `ServiceStore`), aliases,
  lookups, resets.
- `caller[a]` is a thread outside `g_lock` that claims rows, or leases one and
  retries the pending roots when it releases it. The interface of
  `group_host_sessions.h` allows such threads and
  `src/Dawn/unit/activity_retirement_integration_tests.cpp` runs them; the DLL
  itself calls these functions from BAP events only, so instances with
  `Callers = {}` are the product.

**Left out of these modules.** Connection, authentication and binding
generations (their counters only reject stale keys under the same lock);
exhaustion of the clocks, revisions and pin counts; region indices on leases;
the HUD anchor and its shared lock; account generations; the roster and its
publication clock; the rollback of an allocation whose publication fails,
unreachable because `can_publish_connection_fields` is checked again under the
lock just before the commit; the region debt (a report that is pending commits
and a later `Report` plays the poll that services it); the clock push of a
borrower, which takes and releases the bound lease as `Report` does;
`release_session(uint64)`, which nothing calls.

### The gameplay link

**DtlsAssociations.** Init, init ack, cookie echo, cookie ack, then records. A
client associates on a `<<endpoint, id>>`, its peer. `associations` is
`g_associations`; the ticks `touched` are kept as ages (`Tick` lets all of them
pass, and nothing tells ages beyond the timeout apart), the stamps `opened` and
`heard` as the two orders they induce (`find_sending` only compares them).
What is drawn at random is numbered: the client's tag by its attempt, tag and
cookie of the host by one number, its key pairs by another, least unused first,
so a draw hits nothing that is still in use. A key is the two key pairs and the
secret mixed in. `OnInit`, `OnCookieEcho`, `OnRecord`, `Register`, `Prefer` and
`Reset` are the functions of `dtls_host.cpp`; `Acquired` is `acquire`, with a
choice among established associations of one age, and `Sending` is
`find_sending`. The client and the network are external: an attempt may be
given up for a new one at any time, any datagram may be lost.

**PeerChannel.** One link from the moment `answer_connect` made it. `ends["host"]`
is the `PeerLink` with its packet head, acknowledgement history, send queue and
receive window; the peer is the game client and is given the same queue rules,
may pack several records into one packet, and sends when it likes. `HostEnqueue`,
`HostAnswerRepeatedConnect`, `HostService` and `HostConsume` are the functions
named in `map`; the heads, the ring of the acknowledged base and the message
sequences wrap. Two histories tell what became of a packet's messages: `dispatched`
has what the link drained, `reported` what its report to the group layer had an
entry for. `HostService` sends whenever it is due, as the code does: a datagram
that finds the wire full is lost. `Spec` is the exchange over any network.
`InTouchSpec` is the same with an assumption on the network, `InTouch`: whenever an
end sends, its news of the other is less than `MaxLag`, half a ring, of its own
packets old. Nothing in the code sees to that; what follows without it is the
finding of `channel_outage`.

**PeerLinks and GroupAdmission.** One step is one handler of the pump. A link has
its session slots, release gate and queue; the queue delivers in order, a
message at a time, which is what `PeerChannel` establishes under its assumptions. A record of
`admitted` keeps its flags as in the code, and `shown`, a history: what the
last snapshot queued told its client. Messages of one kind are one value. The
client sends the messages of `Sends`, in the order of a native join if `Orderly`;
`Faults` says which of a connect response that is not sent, a connect closed,
an expired association may befall a link. What the host table and the activity
state know of a session only ever becomes available (`hosted`, `identified`).
`quiet` is the point from which the client removes and reestablishes no more.

**Left out.** The empty small queue of a packet, view signatures, time
synchronisation, message bodies and every encoding; the ciphers, the records'
sequence numbers and the digest the first record reveals; the offer of the
association host (only its expiry is a fault of `GroupAdmission`); the socket
with its stop and restart. `GroupAdmission` does not carry keys, and
`DtlsAssociations` lets a key be registered and preferred at any moment instead,
which includes the moments at which `group_host.cpp:606` and `:858` do.

### The call gate

`at[f]` is the place of a frame: an activation of a replacement, or of
`invoke_sync` inside it. `FrameStep` is what a thread that is not suspended does
next: enter the gate, count itself, fetch the trampoline (waiting for it if
`install` has not published it), call the native function, work if side effects
are accepted, leave. `OwnerStep` is `install` and `uninstall` of
`teleport_lifecycle.cpp` with the transaction between them: enlist until a
snapshot shows no new thread, inspect instruction pointers and the counter,
detach or defer, clear the slots. Threads come and go (`Create`, `Exit`).
Detours is external: attach and detach are single steps taken while all
enlisted threads are suspended. Not modelled: what a compiler puts into a
replacement around the gate, unprotected uninstalls, and the other owners, which
follow the same protocol.

## 3. What is checked

Twelve runs, one for each question; `Workload`, `Sends` and `Faults` select what
an instance explores, so that each gets the depth it needs.

| Run | Instance | States | Properties |
|---|---|---|---|
| `connections` | 2 connections, 2 groups, 1 row, 4 ids over room for 3 records, 3 frames | 2,206,207 | `OneCustodian`, `FramesSuffice`, `DerivedRetireFirst`, `ImplementsCustody` |
| `callers` | 1 connection, 1 caller, 2 groups, 2 rows, room for 2 records; reports, aliases, lookups, resets | 3,517,463 | `TypeOK`, `OneCustodian`, `PinsProtectRows`, `RowsNamedApart` |
| `liveness` | 1 connection, 1 caller, 1 group, 1 row, 3 ids over room for 2 records; shutdown | 204,920 | `NoStrandedFence`, `CapacitiesSuffice`, `BlockedRootsRetire`, `ClaimedRowsSettle` |
| `atomic_replacement` | 1 connection, 1 group, 1 row | violation | `RowsMirrorLiveSources` |
| `channel_reordering` | 3 messages, 2 datagrams to the peer at once, lost or reordered, ends in touch | 1,782,915 | `NothingRetiredUnheard`, `DeliversToPeer`, `EveryMessageArrives` |
| `channel_bursts` | the establishes and one message of 2 fragments, 2 records a packet, losses, any number of duplicates towards the host, ends in touch | 2,191,520 | `TypeOK`, `DeliversToHost` |
| `channel_outage` | 3 messages, any losses | violation | `NothingRetiredUnheard` |
| `associations` | 3 peers of 2 clients that both migrate, 2 slots, 1 preference, up to 2 attempts | 1,070,148 | `TypeOK`, `OneAssociationPerId`, `RegisteredKeyInForce`, `KeysAgree`, `RepliesWhereOpened` |
| `admission_joins` | 2 sessions for 1 record, 2 links, 2 joins each, all faults; parameters, views and migration in the next run | 851,680 | `TypeOK`, `SettledIsShown`, `PublishedPlayerIsShown`, `ActivityHostFollowsPromotion`, `NoEmptyPromotion`, `OneLinkPerEndpoint` |
| `admission_liveness` | 1 session with its migration, rebuilds and expiry | 142,936 | `EstablishFirst`, `SessionsOutliveChannel`, `JoinsSettle` |
| `rejoin_after_leave` | 2 sessions on one link | violation | `SoleSessionResolves` |
| `gate` | 2 game threads, 2 installations | 226,535 | `TypeOK`, `NoCallWhenRemoved`, `TrampolineLive`, `WorkHasTargets`, `CallsReturn` |

### Activity records

- `OneCustodian`: a live record is in the hands of exactly one of a
  connection, the host table, the service thread or a retirement. State has 16
  records and never evicts one, so a record without custodian is lost for good
  and a record with two is retired under somebody's feet. The integration test
  checks the same conservation (`check_conservation`) on its own schedules.
- `DerivedRetireFirst` (action property): when a record leaves State without
  another taking its place, nothing derived from it is live and no binding
  names it.
- `ImplementsCustody`: the model implements `RecordCustody!Spec` under the
  refinement mapping `CustodyOf`; custody passes only along the listed arrows
  and a retired id never returns.
- `RowsNamedApart`: no group id is answered by two rows, through aliases,
  evictions and resets.
- `PinsProtectRows`: a leased row keeps what the lease copied, its host stays
  live, and the pin count equals the leases, so no pin is left behind.
- `NoStrandedFence`: fences exist only while a retirement runs or waits.
- `CapacitiesSuffice`: a fence and a pending entry are free whenever one is
  needed. The instances set both capacities to what the code derives from the
  record table (fences and pending roots = records), so the argument is tested
  without slack.
- `FramesSuffice`: a cascade always finds room in its visited list. The list has
  eight rows, eight evicted hosts and the source (`server/bap/internal.h:269`);
  `connections` sets it to exactly twice its rows and one. It is a property of
  the product (`Callers = {}`): a thread that claims beside a cascade can fill a
  place again which the cascade has emptied, and then the root is queued and
  retried.
- `BlockedRootsRetire`, `ClaimedRowsSettle`: liveness, see below.

**Bounds.** `MaxSessionId` bounds the ids ever issued and stands for the real
2^21 - 1: at the bound, `AllocationAvailable` is false as in the code when the
allocator is exhausted. One row with two groups forces evictions
(`connections`); two rows let an eviction race with another row's lease and let
aliases conflict (`callers`); three records allow a chain source - derived -
derived, which needs two connections, because the middle one must be borrowed by
a connection that identifies under it (`connections`); a fourth id over the three
records lets a row be filled again after an eviction, so that a cascade meets its
row, its evicted host and its source at once and three frames are all it has; three
ids over a table of two records let a retired record's place be used again while
retirements wait (`liveness`). No queue, set or counter is bounded otherwise.

**Symmetry** is used for the groups in `callers`, where no property and no constant
names one. Generations and slots are picked as the least unused one, so they add no
symmetric copies. `connections` is symmetric in its groups
and in its connections.

**Deadlock** is checked: an event can always begin.

**Fairness** (`FairSpec`). The client keeps sending events, at least the timed
poll, and the gameplay thread keeps running slices: `WF` on `EventBegins` and
`Slice`. A thread inside a call finishes it: `WF` on the steps of events,
cascades, drains, claims, callers and the service. Two steps need `SF`: the
commit of a host allocation loses only finitely often to other State
mutations (the window between prepare and commit is a few instructions and a
slice retries), and the service thread waiting for `g_lock` gets it, although
SRW locks promise no order, because events are short and driven by a network
client. No fairness is assumed for a particular kind of event or for new
claims and leases.

**Finding.** `atomic_replacement` violates `RowsMirrorLiveSources`. A row
keeps the source it was filled under (`claim_locked` re-sources only an
unfilled row), and an allocation that overwrites the connection's own record
runs no cascade, since State consumed the old record in the same commit. The
row then mirrors a dead source, although
`server/gameplay/group/group_host_sessions.cpp:33` says it is the "Exact source
activity lifetime whose destination this advertised host must mirror". The
next report of that region is told a host is ready and then fails as stale,
until the row is evicted; the derived record stays in custody of the table.

### The gameplay link

- `KeysAgree`: a client and a host that both finished one attempt have one key,
  whatever of earlier attempts is in flight; of a migrating id this is said while
  its key is registered, for an association whose preference row another endpoint
  overwrote goes on with the key it was made with. `RegisteredKeyInForce`: once a
  migration key is registered, no established association of its id works with
  the join key, not even one whose handshake was under way.
  `OneAssociationPerId`: the lookups take the first slot that fits, so there must
  be one. `RepliesWhereOpened`: a reply does not go on an association its client
  is still opening while there is one it has spoken on, unless the migration
  prefers it. Here `TypeOK` also says that the orders routing relies on hold
  exactly what is live, and in `GroupAdmission` that no queue outgrows its array, the
  records in use stand in one order of use and no session has two.
- `DeliversToPeer`, `DeliversToHost`: each direction of a link implements
  `ReliableDelivery` under the mapping that takes the messages queued and handed
  up or reported. `NothingRetiredUnheard`: a sender forgets a message only after the
  other end handed it up, although an acknowledgement names a packet by a few bits and
  is matched on a circle. `EveryMessageArrives`: no loss, no repeated connect and
  no wrap leaves a message queued for ever. All of them are checked of ends in
  touch; `channel_outage` shows that `NothingRetiredUnheard` fails of ends that are not.
- `SettledIsShown`, `PublishedPlayerIsShown`: the flags that say what was
  published agree with the last snapshot queued for the client, through refusals by a
  full queue and retries. That it is queued, not that it was received, is all the
  flags say. `ActivityHostFollowsPromotion`, `NoEmptyPromotion`: the
  orders of a native join the comments of `group_host.cpp` rely on.
  `OneLinkPerEndpoint`, `EstablishFirst`, `SessionsOutliveChannel`: what a rebuild
  of a channel must keep and must do first. `JoinsSettle`: a finished join is
  promoted, given its activity host and taken up the whole migration ladder.

**Bounds.** Moduli and rings keep their proportions (packet ring inside the packet
space, receive window inside the message space) at sizes at which heads and bases
wrap in both runs; a run in which record sequences wrap as well is too large, and the
theorems say it of any number of wraps. In `channel_bursts` a packet may carry the
establish and the first fragment of the message behind it, or both fragments, so that a
window is half full when a message completes. `PeerAssumption` and `InTouch` name what the
exchange relies on and does not check, of the network and of a client whose code is
not here:

- The ends are in touch. The host sends in every slice that follows a received
  packet, so an outage towards the peer of 65 packets is enough.
- A record that comes late is not a whole circle of sequences behind the window,
  where `accept_records` would take it for a new one. This follows from being in
  touch: with the 64 records a packet may carry (`kMaximumRecords`), half a ring of
  packets and 32 slots, 64 * 65 + 32 is less than the 8192 sequences.
- The records of a packet fit the window beside a message half received. The codec
  lets 64 into 32 slots, so it is up to the client.
- For what is reported, a packet completes no more messages than the report has
  entries (`ReportHolds`, needed for `DeliversToHost` only): eight, for both queues
  together. This is up to the client as well.

In `associations` three peers compete for two slots and one preference row, so an
established association is displaced and a preference overwritten while its association lives; two attempts
let an old handshake meet a new one. At most two datagrams and one record are in
flight. In `admission_joins` two sessions compete for one record of the admitted
table and two joins each let a stale join meet its successor; the queue holds two
messages, so it refuses. An eviction needs more records than public sessions, which
with these handlers is out of TLC's reach: no run evicts, and that the oldest record goes
(`EvictsTheOldest`) and that no safety property is broken by it rests on the theorems,
which are of any number of records.

**Deadlock** is not checked for the bounded clients: they stop once they have
used their messages, attempts or joins.

**Fairness.** `PeerChannel` (`FairSpec`, over `InTouchSpec`): an end that keeps having
something to send sends, what travels arrives, and from some point on the network is
timely: it loses and repeats
nothing, keeps the order, and an end hears back before it sends again. The last is needed
because a resend keeps the stamp of the first send (`peer_transport.cpp:967`) and
an acknowledgement is matched within half a ring: acknowledgements that come
half a ring late for ever are never taken. The service pump justifies that the host
sends; the rest is assumed of client and network. `FairSpec` is not machine closed: where
the ends are about to lose touch it has something arrive before the next send, which
is the assumption again and no promise of the code. `GroupAdmission`: the pump takes
its slices, a link that was rebuilt is established and takes what is queued (`WF`),
a slice that finds room for a record is not passed over for ever, since the
refusals are by a queue that drains (`SF`), a client that removed its player names
another (`SF`) and comes to be quiet, and the host and the activity of a session
are found in the end. `JoinsSettle` says nothing of a client that never is quiet.

**Finding.** `channel_outage` violates `NothingRetiredUnheard`. An acknowledgement names
the newest packet received by its number modulo 128, and `acknowledgement_covers`
reads it as one that reached a stamp when it is less than 64 ahead
(`middleware/gameplay/peer/established_packet.cpp:334`). `service` sends an
acknowledgement of its own in every slice that follows a received packet
(`server/gameplay/peer/peer_transport.cpp:961`), so when packets to the peer are lost
and the peer's still arrive, the host's head runs away from the base the peer goes
on publishing. A message queued then and first stamped 65 packets or more after that base finds it
*ahead* of its stamp, and is retired without ever having arrived, although
`established_packet.h:103` says "True when the peer has that packet." The window of
the peer then waits for it for ever. The instance has a ring of 4, of which two
lost packets are half.

**Finding.** `rejoin_after_leave` violates `SoleSessionResolves`. `bind_session`
takes the first free slot before it has looked at the slots behind it. A client
holds two sessions on one link, leaves the first and repeats the join of the
second, whose response was late: the second is now bound twice, and
`sole_session_locked`, which counts slots, no longer resolves the link to it,
although `server/gameplay/peer/peer_transport.cpp:186` says it returns "The session
id, or zero when the link carries none or several".

**Known departures.** The code breaks these too; the definitions are in the modules
and a configuration that lists one finds the behaviour.

| Property | When | Where |
|---|---|---|
| `EstablishFirst` | a connect response could not be sent (`"unsent"` in `Faults`): the rebuilt link is installed without its establish, and a retried snapshot is its first reliable record | `peer_transport.cpp:357`, against the comment at `:370` |
| `SessionsOutliveChannel` | a connect closed (`"closed"`): `drop_endpoint` clears the session ids with the link, the records stay, and the client's next channel carries none of them | `peer_transport.cpp:1015`, against `:540` and `:313` |
| `MessagesWaitForGate` | after a rebuild: the handlers and the slice queue group messages on a link that is not released | `group_host.cpp:1262`, against `peer_transport.h:53` |
| `PromotionPublished` | a reestablish that comes before the join is complete has the slice mark an unpromoted join as promoted | `group_host.cpp:1262`, against `:96` |
| `ReadyAfterExchange` | a repeat of the packet that established the link opens the gate early | `peer_transport.cpp:708`, against `peer_transport.h:49` |
| `NothingRetiredUnheard` | the ends lose touch: a run of its own, `channel_outage` | `established_packet.cpp:335` |
| `DeliversToHost` | a packet completes more messages than the report has entries (`PeerBurst` above `ReportCapacity`): the rest is drained, acknowledged and dropped | `peer_transport.cpp:692`, `:700` |
| | a packet carries more records than the window has room for (excluded by `PeerAssumption`): they are dropped and acknowledged | `reliable_assembly.cpp:45` |
| `KeysAgree` | `Duplicates`: a repeated cookie echo derives a new key pair for an established association, which the client does not follow | `dtls_host.cpp:334` |

### The call gate

`NoCallWhenRemoved`: while the jumps are out of the game no thread has a frame in
a replacement or in `invoke_sync`, counted or not, so the image may go.
`TrampolineLive`: a call uses the trampoline of the installation in place.
`WorkHasTargets`: Dawn's work runs only between `publish_targets` and
`clear_targets`. `CallsReturn`: a game thread that enters a replacement, even
before the trampoline is published, returns to the game. Two threads and two
installations let one thread be in a hook while the other is created during an
enlistment, and a late call meet the next installation; the theorems hold for
any number. Fairness: `SF` on the steps of a frame, since a transaction suspends
and resumes every thread again and again, `WF` on the owner; and the process
comes to create no more threads, without which an enlistment never ends
(`detour_thread_transaction.cpp:113` goes round while it finds new ones).

## 4. What is proved

`tlapm` checks every proof for all values of the constants that satisfy the
stated assumptions (`RecordsAssumption`, `HostAssumption`,
`RetirementAssumption`: capacities are positive, the sentinels are not among
the values, the lease objects are the three of an event and one per caller,
and finite; `CapacityAssumption`: the pending roots and the fences are each as
many as the records of State at least).

| Module | Theorem | States |
|---|---|---|
| `ActivityRetirementProofs` | `TypeCorrect`, `NamesStayApart` | `Spec => []TypeOK`, `[]RowsNamedApart` |
| `RetirementOrderProofs` | `RetiresInOrder` | `Spec => DerivedRetireFirst` |
| `CustodyProofs` | `PinsProtect` | `Spec => []PinsProtectRows` |
| `ConservationProofs` | `RecordsConserved`, `CapacitiesAlwaysSuffice`, `NoFenceStranded` | `Spec => []OneCustodian`, `[]CapacitiesSuffice`, `[]NoStrandedFence` |
| | `FramesAlwaysSuffice` | `Spec => []FramesSuffice`, if there are no callers and at least 2 * rows + 1 frames |
| | `CustodyIsImplemented` | `Spec => ImplementsCustody`, that is `Custody!Spec` |
| `CallGateProofs` | `GateTyped`, `RemovalIsSafe`, `TrampolinesAreLive`, `WorkIsInstalled` | `Spec => []TypeOK`, `[]NoCallWhenRemoved`, `[]TrampolineLive`, `[]WorkHasTargets` |
| `DtlsAssociationsProofs` | `AssociationsAreSingle`, `MigrationKeyIsUsed` | `Spec => []OneAssociationPerId`, `[]RegisteredKeyInForce` |
| | `AssociationsTyped`, `RepliesAreHeard` | `Spec => []TypeOK`, `[]RepliesWhereOpened` |
| | `BothHaveOneKey` | `~Duplicates => (Spec => []KeysAgree)` |
| `PeerChannelProofs` | `ChannelTyped`, `NothingForgotten` | `InTouchSpec => []TypeOK`, `[]NothingRetiredUnheard` |
| | `PeerIsServed`, `LinkIsServed` | `InTouchSpec => DeliversToPeer`, `PeerToLink!Spec`: `ReliableDelivery` of what the peer hands up, and of what the host's link drains |
| | `HostIsServed` | `InTouchSpec => DeliversToHost`, that is `ReliableDelivery` of what is reported to the group layer, if `ReportHolds` |
| `GroupAdmissionProofs` | `TypeCorrect`, `EvictsTheOldest` | `Spec => []TypeOK`; the record `Oldest` picks is in use and was named before all others |
| | `LinksAreSingle`, `PublishedIsShown` | `Spec => []OneLinkPerEndpoint`, `[]PublishedPlayerIsShown` |
| | `EstablishComesFirst` | `EstablishFirst`, if every connect response leaves |
| | `HostFollowsPromotion`, `PromotionWaits`, `SettledRecordsAreShown` | `ActivityHostFollowsPromotion`, `NoEmptyPromotion`, `SettledIsShown`, for a client that keeps to a native join |
| | `SessionsAreCarried` | `SessionsOutliveChannel`, if no connect is closed, for one endpoint or for any number that begin a session with a join |

The assumptions on constants are those the modules name (`DtlsAssumption`,
`LinksAssumption`, `AdmissionAssumption`, `CallGateAssumption`, `ChannelAssumption`
besides the four above): positive capacities, sentinels that are no values, finitely
many threads, rings that divide the circles they are cut from. The theorems of
`PeerChannelProofs` also rest on `PeerAssumption`, and are of ends in touch (section
3), that is of a network and a client that keep to both; the code does not see to
it.
`CapacityAssumption` is what the code's sizes say: 16 records in State
(`state/activity/definition.h:23`), 16 pending retirements
(`server/bap/bap_route.cpp:32`), and a fence table of the same 16
(`group_host_retirement_fence.h:11`). No theorem but `FramesAlwaysSuffice` needs
a number of frames beyond the positive one of `RetirementAssumption`; its
hypothesis is the size of the code, 8 + 8 + 1 for 8 rows, and the DLL's own use of
the interface, in which no thread outside a BAP event claims rows.
The hypotheses of the other theorems are the cases in which the code breaks the
property, listed in section 3: a connect response that is not sent, a connect
closed, a repeated cookie echo, a client that does not keep the order of a join, a
packet of more messages than a report holds.

None follows from its own statement alone.

**Types and names** (`ActivityRetirementProofs`). The typing of a cascade needs
that every frame it returns to is one it entered, that of a connection needs
that an event in progress knows its connection, and that of the host table
needs that the service thread stores a real record. The inductive invariant is

    Inv == TypeOK /\ FramesOK /\ EventOK /\ ServiceOK /\ ClaimOK

`FramesOK`: the root and the current record of a running cascade are among
those it visited, and so is the parent of every other visited record.
`EventOK`: an event in progress has a connection, and one that waits for a
retirement or a drain has a step to go on with. `ServiceOK`: the same for the
service thread, and the record it is about to store is one. `ClaimOK`: an event
whose claim is running waits for its answer. The first part of the module proves of
each critical section of the host table that it preserves `HostTypeOK` and that
no two rows answer to one group (the heart of it: `ClaimFree` and
`ClaimEvicting` write a fresh row only when `Named(g) = {}`, and `AliasRow` only
when the new name is unused or already on the same row). The step proof then
goes action by action, grouped by the part of the state it changes.

**The order of retirements** (`RetirementOrderProofs`). That a record leaves
State only after everything derived from it is a matter of three facts that
only hold together:

    OrderInv == Inv /\ Custodians /\ FencesHold

- *A fence keeps its promise* (`Quiet`, `Emptied`). From the moment a cascade
  has fenced a source and found none of its rows pinned, no critical section of
  any thread leaves a row of that source both pinned and holding a host; so
  `CommitSource`, which skips pinned rows, leaves no host behind, and afterwards
  none comes back: a claim of a fenced source is refused, a store looks at the
  fence again, an eviction passes fenced rows over. Of `ClearStaleHost`, the one
  step that may re-source a row to a fenced source, the proof uses that it
  leaves the row without a host.
- *The right fences are up* (`FencesHold`). The unfinished frames of a cascade
  form one path: no two return to the same frame and none to the innermost one.
  So finishing a source, which lifts its fence, never lifts that of a frame the
  cascade still returns to, even when hosts are derived from one another in a
  cycle or fences are left from an earlier blocked cascade.
- *No owner is bound to what retires* (`Custodians`). `Invalidated` unbinds only
  borrowers. That the record has no owner is because a record a connection owns
  is in no row, no evicted host, no hand of the service thread and no cascade:
  ids are issued once, in order, and a record passes from a connection to a
  cascade only in the step that takes it from the connection.

None of the three needs a capacity to be sufficient: a root that does not fit
in `g_pendingActivityRetirements` is lost, but never retired too early.

**Custody and pins** (`CustodyProofs`). That a pinned row keeps what its lease
copied is quick to see: every critical section but a claim passes pinned rows
over, and a claim re-sources a row only while it has no host. That its host stays
*live* is not: retirement takes records from State, and nothing there looks at
the table. The inductive invariant puts two layers on `OrderInv`:

    PlaceInv == OrderInv /\ RowsNamedApart /\ PlacesOnce
    LiveInv  == PlaceInv /\ HostsLive /\ StoreLive /\ PlanOwned /\ SeenIsGone
    LeaseInv == LiveInv /\ LeasesHold

- *One place* (`PlacesOnce`). A record is in one row or one evicted entry or in
  the hand of the service thread; the root of a retirement is in none of them
  (`RootsUnhosted`); and a record a frame found is in the table only under that
  frame's source and behind its fence (`FramesUnder`). So a record of the table
  that is behind no fence is on no retirement's list, which is what the service
  thread relies on when it takes evicted hosts and resets rows.
- *What is live* (`LiveInv`). A host of a row is committed, or its source is
  fenced. It rests on `PlanOwned` (a commit overwrites nothing but what its own
  connection owns) and on `SeenIsGone`: a thread that saw a host retired clears it
  much later, and by then the id has not come back, since ids are spent.
- *Leases* (`LeasesHold`). The only step that could retire a pinned host is the
  cascade's, whose frame was found under a source that is fenced, visited, and
  `Quiet`, so the row has no pin.

**Conservation** (`ConservationProofs`). That a live record has one custodian is
two claims: not two, which `PlaceInv` gives, and not none, which needs all of

    ConserveInv == LiveInv /\ LockOwned /\ FreedInHand /\ FramesApart /\ RecordsLive
                   /\ TodoComplete /\ Covered /\ FenceAnchored /\ Bounded

- `Covered` is the property; each step that makes a holder let go must show who
  takes over. `CommitDerived` and `CommitSource` let go of a record for good, so
  `RecordsLive` says that what somebody holds is live but for the one record that
  is just leaving.
- `LockOwned` says which of the many program points hold `g_lock`: a cascade or a
  drain belongs to one event or to the one retrying caller, so no second drain
  takes the roots the first has in hand.
- A root that finds no room in the pending list would be lost. There is room
  because the roots are live records, all different (`FramesApart`), and
  `Bounded` many: this is where `CapacityAssumption` enters.
- `TodoComplete`: a source that is fenced gets no new host, so the list its frame
  took when it began still names all its derived records when the source is
  committed, and none is left in a row whose source is gone.

**Fences** (`NoFenceStranded`). On top of that a fence is a root's or hangs from the
fence of the source it is derived under (`FenceAnchored`). That alone allows a ring
of fences that hold each other up. `StrandInv` adds that a record is younger than
the source it is derived from (`SourceBefore`), for which every source anybody
names must have been issued (`SourcesIssued`); so among stranded fences the
oldest would hang from an older one.

**Frames** (`FramesAlwaysSuffice`). A cascade forgets nothing it visited, although
rows and evicted entries empty and fill around it, so the visited list is not
bounded by what the table holds at any one time. `UsesFit` counts, while a cascade
runs, the visited records that have left the table, the rows that hold a host or
may still get one (`Staked`: claimed for a source that is not fenced), and the
evicted hosts, and bounds them together by twice the rows. Each step that turns one
of the first kind up empties one of the others: a derived record is committed
behind its source's fence, so its row is no longer staked. The bound needs
`ClaimsWait`, that no claim runs beside a cascade, which is what the hypothesis
`Callers = {}` gives.

**The refinement of custody** (`ConservationProofs`). `WhoHolds` reads the mapping `CustodyOf`,
which is nested in the order in which holders are looked up, as plain facts: under
`ConserveInv` whoever holds a record says its custody. With it each action is
matched to an arrow of `RecordCustody` by saying who lets go and who takes. All
but three move at most one record: `Reset` and `ServiceTake` take a set from the
table (`Withdraw`), and an allocation that replaces a connection's own record
moves two (`ReplaceOwned`).

**The removal of hooks** (`CallGateProofs`). The inductive invariant is

    TypeOK /\ CountIsExact /\ Nested /\ AbsentIdle /\ Enlisted /\ Phase
    /\ NoCallWhenRemoved /\ TrampolineKept /\ WorkHasTargets

`CountIsExact`: the counter is the number of frames between its two updates, so a
zero read while all threads are suspended means there is none; it needs
`Nested`, that `invoke_sync` runs only inside counted work, for the frames are
counted twice. `Enlisted`: a snapshot that found no new thread holds them all.
`Phase` says what the slots, the jumps and the targets are at each point of
`install` and `uninstall`; `TrampolineKept` that a frame which read a trampoline
keeps the installation in place, because it stays counted until its last use.

**The associations** (`DtlsAssociationsProofs`). The inductive invariant adds to the
two properties the shape of the tables and `OnePreference`: an endpoint has one
preference row. Without it an overwritten row could uncover another key of the
same endpoint. `OneAssociationPerId` is what lets a lookup that takes the first
slot be read as *the* slot; `RegisteredKeyInForce` holds through a registration
because it drops the very slot whose secret it changes, and through a handshake
because `on_cookie_echo` looks the key up when it derives, not when it answered
the init.

**The handshakes** (`DtlsAssociationsProofs`). The types rest on two facts about
finite sets: among the slots of a non-empty set one was opened, or heard, last
(`LatestFound`), and, since what travels and what is stored is finite, there is
always a number that nothing in use carries. The two properties then have an
invariant each, on top of the types:

- `NamedInv`, for any network: what a slot or a datagram carries names its peer
  and an attempt no later than the client's, so an association whose attempt the
  client has given up can never be taken for the present one; and a slot that was
  heard in the present attempt belongs to a client that is up.
- `AgreeInv`, for a network that does not duplicate: one handshake datagram of an
  attempt is in flight at most (`Unique`), and what it is says how far the client
  and the association can be (`Awaited`, `Behind`), so no answer finds the other
  end past the point it answers. With a duplicate `Unique` fails first, and the
  finding about `dtls_host.cpp:334` is what then follows.

**The exchange of a link** (`PeerChannelProofs`). All five theorems come from one
invariant,

    ChannelInv == Typed /\ \A e \in Ends : Flow(e)

`Flow(e)` says of the direction in which `e` sends that there is one stream `Q` of
all fragments it ever queued, in order, and three marks on it, `r <= h` and `g <= h`:
the first `g` fragments have left the send queue, the first `r` were drained, the
first `h` were heard.

- `Sending`: the send queue is `Q` from `g` on, and what the last stamp sent lies at
  its head. `Receiving`: the window holds `Q` from `r` to `h`, a part of one
  message, and what was handed up are the messages that end in the first `r`.
- `Travelling`: a datagram carries a run of `Q` that was at the head of the send
  queue when it left, and it is not too old; if nothing is overtaken, also not
  newer than the next one. So what it adds to the window is the next run or was
  there before, and a stale record is outside the window, not a circle later
  inside (`OneAccepted`, from the last conjunct of `PeerAssumption`).
- `Covering`: whatever reads as "the packet the prefix first left in, or a later
  one" (`Reached`, half a ring on a circle) carries that very prefix, or says that
  it was heard, `h = g + sentCount`. So an acknowledgement that `Covers` the stamp
  retires only what was heard. This is why a prefix stays what it was until it is
  retired; it does so through a forgotten flight (`HostAnswerRepeatedConnect`)
  because the host sends one record a packet.
- `Lagging`: nothing in play is further than `MaxLag` behind the newest head, which
  makes the readings on the circle the readings on the line. This is where `InTouch` is
  used, and nowhere else.

The stream and the marks are not variables: they are bound by `\E` in `Direction`, and
each action is proved to give new ones. TLC cannot evaluate it, so what was checked
first are the properties it implies. The other direction sees an action only as
news that leaves or arrives (`NewsLeaves`, `NewsArrives`) and a lost datagram as a
thinner queue (`Thinning`). The two loops of `consume_established` are read by
induction over the records of one packet (`AllAccepted`, `HandedUp`), with the least
counterexample that a well-founded order on numbers gives. What is reported is a
second, smaller invariant: under `ReportHolds` the report of a packet is the whole
of what it completed, so `reported` stays equal to what the link drained.

**Group admission** (`GroupAdmissionProofs`). The lemmas about
links say of each operation whether it leaves the links `InPlace` (makes none,
ends none, keeps each endpoint and a first message that was an establish), that a
table stays one with `Single` endpoints whose absent links are empty, and that it
`Carries` every session over but those it ends. Above them is

    IInv == LinksInv /\ RecordsInv /\ WorldInv

whose heart is `Sound` of every record, and `Ordered(Occupied, usedBefore)`:

    Sound(rec) == PlayerShown(rec) /\ (Orderly => InOrder(rec))

`PlayerShown` is `PublishedPlayerIsShown` and its counterpart, that a client which
was never named a player was not shown one: a snapshot that clears the player
must be followed by one for the next. `InOrder` says which flags may be set
before which, and that none is while the player is being replaced; each branch of
the slice's retry (`Retry`) and each handler is proved to keep it, queue full or
not. The eviction needs the whole order, not only the latest stamp: after a
record is left, the order of the others decides. `CarriageInv` adds to `IInv` that
the link of a joined record's endpoint carries the session, and, where sessions
begin with a join, that every record is a joined one: a descriptor that founds a
record binds nothing, and a second endpoint could then take the session over.

**Only model-checked:** the liveness properties (`BlockedRootsRetire`,
`ClaimedRowsSettle`, `EveryMessageArrives`, `JoinsSettle`, `CallsReturn`), which with
`ENABLED` are out of the prover's reach. Every other property a passing run checks is
also a theorem, some under the hypotheses of the table.

## 5. Plan, and what is not modelled

Done: the modules above, twelve runs, 32 theorems. What would come next, in
this order:

1. Models: the optimistic commits of membership and entity slots against one
   revision; account generations and queuez resynchronisation; the snapshot
   ring of the log.
2. `GroupAdmission` over two directions of `PeerChannel` in the place of the queue
   it assumes, as a refinement.

Not modelled, and why:

- *Most of the source is not control.* Of its lines the greater part are tables
  (`open_world_member_catalog.h`), probes and hooks that read and patch the closed
  client at fixed addresses (`client/hooks/bootflow`), and mission content; their
  behaviour is data, or lies in a program that is not here.
  `src/tools/omega-reference-20260906` is a dated copy that is not built.
- *Matchmaking contexts.* A release that fails is a choice of `Open` and `Close`;
  it fails only under the test's injection, so the context that a repeated hello
  forgets (`plaintext.cpp:235`) cannot leak in the product.
- *Codecs, ciphers, sockets, persistence.* Data transformation, or guarantees of
  the libraries below.
- *Editor, settings, user interface, installer.* Presentation and scripts.
