# A TLA+ model of vfx

vfx is a game backend in Go: *gateway* replicas serve the API (login, storage,
social graph, leaderboards, chat, matchmaking), *room* daemons host matches and
run the game's rules as a WebAssembly plugin, and a Valkey server and a
PostgreSQL database hold the shared state. This directory models the parts where
correctness depends on more than one actor, checks the models with TLC and proves
the central results with TLAPS. Paths below are relative to the repository.

## Inventory

| component | state | operations | interacts with | hard behaviour | what makes it correct |
|---|---|---|---|---|---|
| match queue on Valkey (`internal/infra/matchqueue/valkey.go`) | per ticket: key, snapshot event, event stream; per mode: pending pool | Enqueue, Cancel, Publish, Pending, Claim, Subscribe | every gateway replica | several commands per operation, no transaction but the claim script | one match per ticket, event order, a decided ticket stays decided, streams close |
| matchmaker (`internal/usecase/match/matchmaker.go`) | the group it works on | Run, processMode, pair | queue, allocator, signer, assignment store | crashes and cancelled contexts between Claim and Publish, partial failure | claimed tickets are told, Matched is recoverable, the metric is honest |
| matching rules (`internal/domain/match`) | none (pure) | SelectGroup, buildUnits, groupFromSeed, CompatibleWith | matchmaker | parties, ties, tiers that widen | sound, complete, oldest first |
| leader lock (`internal/infra/leaderlock`) | one leased key | acquire, renew, release, Run | gateways | expiry against late renewals, lost replies, crashes | one leader, no stolen lease, takeover |
| room manager and match (`internal/usecase/room`) | map of matches; players, two channels, plugin | FindOrCreate, Join, Leave, SubmitInput, tick, finalise, cleanup, Close | session handlers, plugin | goroutines between critical sections | one live instance, plugin closed once, what the plugin is told is true |
| room sessions (`internal/presentation/room`) | connection | handleRoom, readLoop, SendFrame | manager, match | reconnects, clients that accept no stream | a slot belongs to one session, a shutdown ends every session |
| auth (`internal/usecase/auth`) | players, identities, refresh tokens | LoginAnonymous, LoginOIDC, LinkIdentity, Refresh, Logout, UpdateProfile | database, OIDC verifier | concurrent logins, token rotation | one player per identity, a token is used once |
| storage (`internal/usecase/storage`) | file rows, blobs | Write, Commit, Delete, PublishTitle, DeleteTitle | database, object store, uploading clients | two-phase writes, quota | quota, no row without bytes |
| social (`internal/usecase/social`) | requests, friendships, blocks | send, accept, decline, cancel, remove, block, unblock | database | crossing requests, block against accept, crossing row locks | one relation per pair, friendship by consent, every call returns |
| groups and chat (`internal/usecase/group`, `chat`, `internal/infra/chatstream`) | groups, members, messages; a Valkey stream per channel | create, delete, join, leave, post, list, Subscribe | database, Valkey | deletion under use, push after commit, a tail over a trimmed stream | only committed messages are pushed, no orphan rows, no hole in a tail |
| leaderboard (`internal/infra/repository/leaderboard_valkey.go`) | rows, sorted-set index | SubmitScore, RankOf, TopRanks, rebuild | database, Valkey | index written before the commit, expiry and rebuild | best score kept, index agrees with the rows |
| assignment store, allocator, token signer, plugin host | current match per player; external services | Put/Get, Allocate, Sign, Create/Init/OnTick/Close | matchmaker, manager | fail at any point | seen through their callers |
| in-memory backends, gateway wiring, admin pages, configuration, metrics, SDKs, examples | none of interest | | | | not modelled, see below |

`PROJECT.json` lists every component with its status, every hazard at its line,
and the source lines of every definition.

## Modules

**`Matchmaking`** composes queue, matchmaker workers, cancelling clients and
watching clients for one game mode (modes share no key). One action is one Valkey
command, or one call of the allocator, signer or assignment store, because that is
the grain at which replicas interleave. `enq[t]` is the program counter of
`Valkey.Enqueue`, `call[p]` that of a `Publish` or `Cancel` in progress, `pc[w]`
that of `pair`. A failing command may have taken effect or not. `Faults` says
which calls can fail in a run: `enqueue`, `cancel` and `publish` for the commands of those
operations; `claim`, `allocate`, `sign`, `persist` for the calls of `pair`;
`abort` for a crash, a shutdown or a lost lease (a cancelled context makes each
later command fail, so nothing more reaches Valkey); `expire` for a ticket key's
TTL. `Workers` may be more than one: leadership overlaps are possible, and the
comment in `internal/cli/gateway.go:78` relies on Claim for them. `ReadPending`
picks any group that satisfies what SelectGroup promises, which `Matcher` checks.

**`TicketQueue`** is the abstract specification behind `match.Queue`: a ticket
enters the pool once, leaves it with its whole group or cancelled on its own, and
is decided only when nobody can claim it any more. A matchmaker first chooses a
group and then claims exactly that one or gives up; only a Cancel under way takes a
single ticket. `Matchmaking` implements it with `entered` mapped to the tickets whose
Enqueue has returned, `pool` to the sorted set, `decided` to the tickets whose stream
holds a terminal event, `chosen` to the group `pair` is about to claim and `withdrawn`
to the tickets a Cancel is about to ZREM (`ImplementsQueue`): every command of every
operation, failed or not, is one abstract step or none.

**`Matcher`** gives the matching rules as operators with the names of the code
(`buildUnits`, `anchor`, `groupFromSeed`, `SelectGroup`), and a small state machine
around them: tickets arrive (`CreateTicket`), time passes, a tick reads the clock
once (`StartTick`) and takes groups (`TakeGroup`). A unit is the set of its
tickets; a group is a set, since nothing downstream depends on its order. The
reference is `AllowedGroups`, a search over all sets of units. Ratings are integers.

**`LeaderLock`** models `leaderlock.Run` for several replicas in discrete time:
`left` is the key's remaining TTL, `age` the time since a leader's last renewal in
Valkey. `Ghost` stands for the id of a crashed process. A replica in `stopping`
has cancelled its loop and waits for it; its commands fail, so the properties
speak of replicas in `lead`. `late` holds releases that timed out and are still on
their way; since a Run keeps one id for its lifetime, such a release can delete the
key of the same replica after it has taken it again, and `robbed` remembers that.

**`Room`** models session handlers, the manager and the matches' goroutines. One
action is one critical section, one channel operation, one plugin call or one
frame sent. The plugin is external: `view` and `left` are what it has been told,
`OnTick` may end the game or fail, and answers with any number of frames. `out` is
the set of sessions the frame in progress has yet to reach. A broadcast copies the
players and sends without the lock; `dispatchEvent` keeps `Match.mu` while it
sends, so `Unlocked` guards Join and Leave. A frame that needs a stream waits
(`sendStream`) for a client in `Slow`, until its session ends. Inputs carry only
their player. `InputCap = 0` stands for a channel that is always full.

**`Postgres`** is what the next five modules share: transactions at READ COMMITTED
as `internal/infra/db` runs them. `rows` are the committed rows of all tables,
`ins[c]` and `del[c]` what the transaction of call `c` has written. A statement
sees the committed rows and its own; one that would write a row another
transaction has written waits; `InDeadlock` finds the calls that wait for each
other, one of which PostgreSQL fails. One action of these modules is one SQL
statement, one Valkey command or one object store call, and any of them may fail.

**`Auth`**: a call is one RPC. `findOrCreatePlayer` is Find, CreatePlayer,
SaveIdentity; the unique index on identities makes one of two first logins fail,
and `SaveIdentity` then starts its single retry. RevokeAllForPlayer is an UPDATE over many
rows: it takes a snapshot and then the rows one by one, and re-reads a row it had
to wait for. Player ids and tokens are random in the code and named after their
call here.

**`Social`**: requests, friendships and blocks as rows; the operations as chains of
the repository's statements. `raced` remembers pairs for which a request or an
acceptance ran between the statements of another call.

**`Storage`**: one owner's files and the title files. A size also stands for the
content. Clients upload through a signed URL whenever they like (`ClientPut`),
also after a commit. checkQuota reads twice, and its subtraction is modulo `Word`.
`met` remembers, per call, whether it overlapped another one of the same owner or
the same file.

**`Leaderboard`**: one board, its rows and the sorted set. The set is written inside
the transaction, before it commits. `float64` rounds a score as the conversion to
a sorted-set score does. `torn` is set by everything that can leave the set
different from the rows: a failed command, the key's expiry between EXISTS and
commit, a rebuild from rows that a commit has since changed.

**`Channel`**: one group, its members and messages, the direct messages of a pair,
and the group's stream. `log` is all that was ever added to the stream and `gone`
how much of it was trimmed or expired. A subscription is two goroutines: `Reader`
(XREAD, then push into a Go channel of `BufCap`) and `Handler` (send to the client).
The queries that page through the history are operators.

**`MatchmakingProofs`**, **`LeaderLockProofs`**, **`RoomProofs`**, **`AuthProofs`**,
**`SocialProofs`**, **`ChannelProofs`** and **`LeaderboardProofs`** hold the theorems;
**`PostgresProofs`** the lemmas about transactions that the last four rest on. The `MC*` modules give the small instances. Definitions whose comment begins with "Mutant"
are wrong variants of the definition that follows them. No specification uses
them; they show that each property notices the bug they stand for.

## Runs

| run | instance | checks |
|---|---|---|
| `mm_race` | 4 tickets, two of one player, 2 workers, 2 match ids, matches of 2; claim, publish and persist fail, workers abort | `TypeOK`, `NoDoubleMatch`, `MatchedIsRecoverable`, `CountedFullyFormed` |
| `mm_faults` | 2 tickets, 1 worker, 1 Cancel, every fault | `QueuedFirst`, `ImplementsQueue` (refinement) |
| `mm_live` | 2 tickets, one watched, 2 workers, 1 Cancel, fair; allocate and sign fail | `CancelEnds`, `NoStrandedTicket`, `ClaimResolves`, `QueueDrains`, `WatchCloses` |
| `matcher_pool` | 3 tickets of solos and parties, 3 ratings, 2 regions, 3 seconds, matches of 2 | `SelectExact`, `OldestPreferred`, `NeverWithdrawn` |
| `lock_election` | 2 replicas, TTL 3, renewals up to 4 old, every fault, fair | `TypeOK`, `LeadsOnLease`, `OwnLeaseOnly`, `AlwaysALeader` |
| `room_lifecycle` | 3 sessions of 2 players, 3 plugins, no event dropped, every fault | `SingleInstance`, `PluginClosedOnce`, `SlotOwned`, `ViewExact` |
| `room_live` | 2 sessions, one slow, no event dropped, failing Init, shutdown, fair | `ActionsAfterJoined`, `ShutdownEnds` |
| `auth` | 3 calls, 2 devices, 1 OIDC account, an earlier login | `NoOrphanPlayer`, `IdentityKept`, `RotationExact`, `LogoutRevokes` |
| `storage` | 2 calls at a time, 2 player files and a title file, sizes 0 to 3, limits of 2 per file, 1 byte and 1 file in all | `BytesBehindRows`, `QuotaKept` |
| `social` | 2 calls at a time, 2 players, fair | `OneRelation`, `FriendshipConsumesRequest`, `CallsReturn` |
| `leaderboard` | 2 calls at a time, 3 players, scores 3, 5, 6 of which 5 is rounded, 3 submissions | `IndexAgrees`, `BestKept` |
| `chat` | 2 calls at a time, 2 players and a recipient, 1 subscription, 2 messages, a stream that keeps one, fair | `OnlyCommittedPushed`, `GroupWhole`, `PagesContinue`, `DeliveredInOrder`, `TailReachesEnd` |

All of them pass. Some properties hold only in the setting their run gives them or
under the condition they state, and that is part of what the run shows:

- `NoStrandedTicket`, `CancelEnds` and `ClaimResolves` need that no worker aborts
  after Claim and that no Publish or Cancel fails. Otherwise the claimed tickets stay
  out of the pool without an outcome until their one-hour TTL: the context that made
  Allocate fail makes every Publish fail too.
- `SelectExact` (that no group is missed), `OldestPreferred` and `NeverWithdrawn` are
  stated for matches of two (`Pairs`). With more places a solo player ahead in line can
  take one and leave no room for the parties that fit; in matches of four, TLC finds
  pools in which that happens only once the solo player's window has widened, so that
  a group that was possible no longer is.
- `ViewExact` holds in both directions for a player with one session. `Leave` frees
  the slot and unlocks before it sends PlayerLeft, so the PlayerJoined of a reconnect
  may come first and the plugin then takes a present player for gone; it never takes
  a player for present who holds no slot.
- `ActionsAfterJoined` and `ViewExact` need a channel that never drops an event.
- `ShutdownEnds` is about a daemon that stops. While it runs, a connected client that
  accepts no stream keeps `dispatchEvent` waiting with the lock, and thereby every
  tick, join and leave of its match (`presentation/room/session.go:70`).
- `OneRelation`, `QuotaKept`, `BytesBehindRows` and `IndexAgrees` except what
  happened while calls overlapped (`raced`, `met`, `torn`); what they say then is
  in their statements, and what can happen is listed under "Disagreements".
- `DeliveredInOrder` and `TailReachesEnd` are about a subscription after its first
  entry; `PagesContinue` about messages of distinct times.

**Bounds.** Two workers are enough for two stale views and for one to abort while
the other goes on; with matches of two, four tickets let groups overlap
in one ticket or be disjoint. `Matches` limits how often Allocate succeeds; a worker that
finds none left waits, which removes behaviours but adds none, and `mm_live` has
as many as its tickets can fill. In `matcher_pool` three tickets give a pool with a
choice for every seed, and three seconds reach both the wider rating window (a gap of 120
fits after one second) and the region relaxation (after two). In `Room`, three
sessions give a race of two creators plus a late arrival, and a reconnect of one
player; `Instances` is at least the number of creations possible. Both runs have an
event capacity that their sessions cannot exceed; `room_lifecycle` has an input capacity
of 0, since its properties do not read the inputs. That full event channels do not harm
`SingleInstance`, `PluginClosedOnce` and `SlotOwned` is proved: their theorems are for any
capacity. `LeaderLock` uses a TTL
of three ticks and a renewal every tick, as the code's TTL/3, and renewals late
enough to lose the lease.

In `auth` each of three calls is made once: two that race for a token or an identity
and one that interferes. In the other database modules a call that returned can be
made again, so two calls at a time give every pairwise interleaving in sequences of
any length; in `Social` nothing bounds them. In `storage` every limit can be
exceeded on its own: a size of 3 is too large, a size of 2 alone is over the byte limit,
an empty file next to another one is over the file limit only, and two files of 2 are
over the bound that `QuotaKept` puts on racing commits. `Word` exceeds every sum of sizes
but not the result of a subtraction that wraps. `OneKind` keeps a behaviour of that run
to player files or to title files, which share no key, row or object. In `leaderboard` `MaxExact = 4` plays the part of 2^53: 5 is stored as 4, so
rounding is exercised while 3 and 6 stay exact; `MaxSubmits` bounds the timestamps. In `chat`
`StreamMaxLen = 1` makes trimming happen with two messages, and `ReadCount` above
`BufCap` lets the reader block on a full Go channel. The safety properties of `Channel`
were also checked with three messages (7.2 million states), where a batch of two
follows the first entry; that takes too long to be a run. Deadlock checking is off: in
all these systems everybody may be done.

**Fairness.** `mm_live`: handlers and worker goroutines that can take a step take
one (weak fairness per ticket, call and worker); nobody must cancel, and no fault
is required. `lock_election`: each Run goroutine and time make progress, and a
replica that tries a free key again and again does not have every reply lost
(strong fairness of `TakeLease`), which is an assumption on Valkey and the network, not on the
code. `room_live`: goroutines make progress; Go's `select`, which chooses at random
among ready cases, does not ignore a cancelled context for ever in favour of the
ticker (strong fairness of `CtxDone`); a plugin's answer has finitely many frames
(strong fairness of `EndTick`); and once the daemon stops, the WebTransport server
is closed, which ends its sessions. Clients need not disconnect by themselves.
`social`: PostgreSQL grants a row lock in turn to those who wait, so a call that can
proceed again and again does (strong fairness of a call's steps). `chat`: both
goroutines of a subscription run and its client reads what it is sent; nothing
obliges anybody to post.

## Disagreements

Where the code, or what happens when calls overlap, differs from what a comment or
the schema says. The models contain each of these behaviours; the properties are
stated so that they say what does hold. Paths are below `internal/` unless they
start with `schema/` or `docs/`.

| statement | what can happen |
|---|---|
| a party enters a match whole, "一部だけ入ることはない" (`schema/api/vfx/v1/match/match_service.proto:40`) | a failing Put fails one member and matches the others |
| "CancelTicket publishes a Failed event" (`usecase/match/match.go:77`) | a Cancel that failed after SET has made the snapshot terminal; its retry returns nil and publishes nothing |
| "or nil if none can be formed" (`domain/match/matcher.go:53`) | solo, duo, duo with matches of four: every greedy fill takes the solo player first |
| the widening window "keeps the oldest entry from starving" (`domain/match/matcher.go:56`) | the same pool with a solo player out of range: the duos can play at first, and no longer once the solo player's window has widened to them, until somebody else arrives |
| "returns the active Match" (`usecase/room/manager.go:57`) | a match that has ended but is not cleaned up is returned and joined; nobody closes that session |
| the room keeps a player's slot "for a configurable grace period (default 60s) after a disconnect" and tells the plugin PlayerDisconnected and PlayerReconnected, PlayerLeft only for good (`docs/architecture.md:216`; also `schema/api/plugin/v1/plugin.proto:90`, `schema/api/vfx/v1/match/match_service.proto:28`) | a session that ends for any reason calls Leave, which frees the slot and sends PlayerLeft at once (`usecase/room/match.go:95`); a reconnect is a new Join with PlayerJoined, and the other two events are never sent |
| clients are told game_ended first (`usecase/room/match.go:214`) | a session that joins between finalise's broadcast and closeAllPlayers is closed without it |
| LinkIdentity "is idempotent" for the same player (`usecase/auth/auth.go:152`) | two concurrent links of one identity to one player: the second insert fails with ErrIdentityAlreadyLinked |
| UpdateProfile "leaves a field unchanged when its argument is nil" (`usecase/auth/auth.go:237`) | it writes back the row it read, undoing a nickname set in between |
| "Logout revokes the player's refresh tokens" (`usecase/auth/auth.go:229`) | the new token of a Refresh that races the Logout stays live; two Logouts may deadlock, and one then fails |
| BlockPlayer "severs any existing relationship" (`usecase/social/social.go:105`) | a request sent or accepted concurrently survives the block |
| "the table never lists a file whose bytes are absent" (`schema/db/schema.sql:121`) | a Delete whose blob deletion comes after a new Commit of the same name leaves a row without bytes |
| checkQuota "rejects a write that would push the owner past their ... limit" (`usecase/storage/storage.go:252`) | concurrent commits exceed it, by at most one file of the largest size per extra call; a file that shrinks or goes between the two reads makes the subtraction wrap |
| "a write to an expired key cannot create a partial index" (`infra/repository/leaderboard_valkey.go:42`) | the key expires between EXISTS and ZADD; the new key has one member and no TTL |
| "Concurrent rebuilds are harmless" (`infra/repository/leaderboard_valkey.go:131`) | a rebuild from rows read earlier overwrites the score of a newer submission |
| "the entries within radius positions of the player on either side" (`usecase/leaderboard/leaderboard.go:97`) | near the top the window is shifted, and holds entries beyond the radius |
| the index ranks as the table does | equal scores rank by name in the index and by time in SQL; scores above 2^53 that round to the same float64 tie |
| reading from "$" again after a timeout "keeps the read pinned to 'new only'" (`infra/chatstream/valkey.go:108`) | before the first entry, a message added between two reads is never delivered |
| "trimming them is free" (`infra/chatstream/valkey.go:20`) | a subscriber that lags behind a thousand entries misses those trimmed |
| history pages by time (`infra/repository/chat.go:56`) | messages of the same time across a page boundary are skipped |
| members subscribe | one who leaves, or whose group is deleted, keeps receiving until the stream ends |

## Proofs

`NoDoubleMatchHolds` (`Spec => []NoDoubleMatch`), for any sets of tickets,
workers, cancellers and matches, any match size and any faults. `NoDoubleMatch` is
not inductive: nothing in it says that a ticket a worker holds is not in the pool.
The invariant adds `TypeOK`, `AssignHasMatch`, and `Custody`: a ticket enters the pool only as
its Enqueue ends, so one that is pending, held or on a roster is settled and
cannot be added again; what a worker holds is not pending; two workers hold
disjoint sets; what a worker is about to allocate for is on no roster. The step
proof has one lemma per group of actions. Claim is the only step at which a ticket changes
hands, and its subset test is what makes it go through. `TypeCorrect` is
the first half of the same induction.

`LeadsOnLeaseHolds`, `LeaderTypeCorrect` and `SingleLeaderHolds`, for any number of
replicas, TTL, delays and faults. The invariant relates the two clocks: a leader whose last
renewal is `age < TTL` old, and which its own late release has not robbed, owns
the key, and the key has exactly `TTL - age` left. That is what makes a tick
preserve the property: the key cannot expire before its leader is old.
`SingleLeaderHolds` (at most one replica leads) assumes in addition that renewals
arrive in time (`RenewEvery + MaxDelay < TTL`) and that no release is delivered after
its timeout; without either, leaders overlap and `NoDoubleMatch` has to, and does,
cope with two workers.

`OwnLeaseOnlyHolds` (`Spec => OwnLeaseOnly`, an action property): by cases on the
step; only the expiry, the release script, whose comparison of the owner is what
it needs, and the owner's crash take a lease with time left.

`QueueRefinement` (`Spec => ImplementsQueue`): every command of the Valkey queue is a
step of `TicketQueue` or a stutter, under every fault. It needs `QueueInv`, which adds to
the invariant of `NoDoubleMatch`: only a ticket whose Enqueue has returned and whose
Queued event is in the stream is offered, held or published to (`Announcement`); a
publication appends its event only after its ZREM (`RemovedFirst`); and pair's
loop stays within the group it claimed (`LoopInGroup`). That a ticket leaves only with
its chosen group or by a Cancel takes one more invariant, `OutOfPool`: what a worker
publishes to has left the pool already, so the ZREM of its Publish removes nothing. The
claim script is the abstract `Claim` when it finds every ticket and `GiveUp` otherwise. `QueuedFirst` is part of that
invariant, so `QueuedFirstHolds` comes with it.

`MatchedIsRecoverableHolds` and `CountedFullyFormedHolds`, for any faults. The
invariant `MatchInv` carries "on the roster and recoverable" back to where it is
established: whatever Matched event was told, is stored or is being published is
secured, and so is everything pair has put into `paired`.

`NoStrandedTicketHolds` and `CancelEndsHolds` assume `Reliable`: no worker aborts, no
command of Claim, Publish or Cancel fails, and no ticket key expires. Enqueue, Allocate,
the signer and the assignment store may fail. This is the setting of `mm_live`, for any
numbers of tickets, workers and cancels; without it both are false (see "Runs").
The invariant says that what pair's loop has passed was told or is being told, and that
a ticket with a terminal snapshot, or whose Cancel returned nil, has `Ended`, in which
case at most a second Cancel still has to remove it.

`SingleInstanceHolds`, `PluginClosedOnceHolds`, `SlotOwnedHolds` and `RoomTypeCorrect`, for
any sessions, players, matches, plugins, channel capacities and faults. `RoomInv`: a
handler that built a plugin owns it alone until it inserts it; the manager's map holds
exactly the matches whose Run has not cleaned up. The second look
`FindOrCreate` takes at the map under the lock is what keeps this.

`ActionsAfterJoinedHolds` and `ViewExactHolds` assume `EventRoom`: finitely many sessions
and an event channel with room for a Joined and a Left of each, so that nothing is
dropped. The bound is needed: `Join` and `Leave` drop an event that does
not fit. `EventInv` counts the events against the handlers that have sent them, which
shows that no drop occurs; relates the plugin's view, after the events that wait in the channel, to
the handlers (`ViewFollows`: exactly, for a player with one session, and for the others
that somebody in the view has a session which has announced it and not yet sent its
Left); and says that whoever acts has been, or is going to
be, announced before the action is drained (`ActorsKnown`).

`PostgresProofs`: what one insert, upsert, delete, commit and rollback do to
the rows, and that they preserve `DbInv`: unique keys, transactions that replace only
committed rows, and no two of them the same row.

`OneRelationHolds`, `FriendshipConsumesRequestHolds` and `SocialTypeCorrect`, for any
players and calls. `RelationInv` says per call what its transaction may have written
(`TxRows`) and, for a pair on which no calls raced, that the pair has at most one
row and that what a call in progress found is still there (`Found`). The action
property needs only the first part: a commit that adds a friendship also deletes
a request that was committed until then.

`NoOrphanPlayerHolds`, `IdentityKeptHolds`, `RotationExactHolds`, `LogoutRevokesHolds` and
`AuthTypeCorrect`, for any calls, subjects, players and tokens. `AuthInv` says, per
kind of call and step, what the transaction has written and what it has read that
nobody can undo, since identities, players and tokens never go away and a
revoked token stays revoked (`Grows`); that players, identities and tokens refer to
one another; and that a token was exchanged by at most one call. The decisive step is the
revocation: its lock on the old token excludes a second Refresh until the commit,
after which that one finds no live token.

`GroupWholeHolds`, `OnlyCommittedPushedHolds`, `DeliveredInOrderHolds`, `PagesContinueHolds`
and `ChannelTypeCorrect`, for any players, calls and subscribers and any sizes of
batches, buffers, streams and pages. `ChannelInv` says what each transaction has
written, that one which inserted a child of the group shares the group's lock, so
that no deletion commits before it, and that while the group is being created no
other call is past looking for it; what the stream has, and what a call that has
committed is about to add to it, was committed and goes only with the group.
`TailInv` says that the last entry sent, the buffer and the batch read follow one another in
the stream: without a gap, or the subscription has `lagged`. `PagesContinue` is not about a
step but about the queries: a page is the upper part of the history, so what is older
than its oldest time is what it left out; a page that is not empty has an oldest time
because its times are natural numbers.

`BestKeptHolds`, `IndexAgreesHolds` and `LeaderboardTypeCorrect`, for any finite set of
players, any calls, scores and sizes of page and window, and both sort orders.
`RowsInv`: a submission past its upsert has its player's row replaced in its
transaction, by a better entry or by the row itself, so two of them never have
the same player. That gives `BestKept`. `IndexInv` is about a set that is not torn: every member's score
is that of the player's row or of the better entry about to replace it (`Current`);
the set, with what a rebuild has loaded, has every row; a score a rebuild loaded is
current, or the set has another one for that player, which the rebuild's write
will show as torn; an improving submission about to commit has its score in the set; the set will
expire or somebody is about to set its TTL. When no submission runs, only rows are
current, so the set is the table. Its ranks follow from a bijection between
those ahead in the set and those ahead in the rows, for which `float64` has to keep the order
(`FloatOrder`): ZADD GT or LT compares the rounded scores, the upsert the exact ones.
The scores are from 0 to 2^54 (`ScoresFit`), the range in which `float64` is modelled.

Each inductive invariant was first checked with TLC on a small instance. Assumptions
on constants are the named ASSUMEs of the modules; TLC evaluates them in each run. The
only other hypotheses are the four named above: `NoLateRelease` and `TimelyRenewal`,
`Reliable`, `EventRoom`.

Only model-checked:

- liveness, which needs fairness and ENABLED: `ClaimResolves`, `QueueDrains`,
  `WatchCloses`, `AlwaysALeader`, `ShutdownEnds`, `CallsReturn`, `TailReachesEnd`;
- `SelectExact`, `OldestPreferred` and `NeverWithdrawn` of `Matcher`: they are about what
  a recursive greedy selection computes, which takes induction over the pool;
- `QuotaKept` of `Storage`: it is about sums over the rows of an owner, again by
  induction;
- `BytesBehindRows` of `Storage`: within reach of the same method, not attempted yet.

## Not modelled

- The in-memory backends (`infra/matchqueue/inmem.go`, `infra/assignmentstore/inmem.go`,
  `infra/chatstream/inmem.go`): one process, every operation one critical section.
- Payloads: endpoints, tokens, bodies, tags, JSON and protobuf conversion, queue depth.
- The assignment's own expiry (so "recoverable" means within its TTL), event-key
  expiry (event keys are written after the ticket key and outlive it), a refresh
  token's expiry (refused like an unknown one).
- Several game modes, boards, groups and owners at once: they share no key and no row.
- At shutdown, the factory cleanup that follows `Manager.Close` (`bootstrap/room.go:61`):
  closing the WebAssembly runtime frees every plugin instance without waiting for the
  matches' goroutines. `PluginClosedOnce` is about `Plugin.Close`.
- Lost datagrams, WebAssembly, signatures, connection pools and read replicas.
- Wiring, configuration, metrics, tracing, admin pages that only read, SDKs, examples:
  no state that two actors share.

`PROJECT.json` gives the reason component by component.

## Plan

1. A proof of `BytesBehindRows` of `Storage`, on `PostgresProofs`.
2. The in-memory queue as a second implementation of `TicketQueue`.
