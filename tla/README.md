# meshchat-server in TLA+

meshchat-server is a chat server in Go: groups with roles and permissions, group
messages, one-to-one messages, friend requests, public channels, and a websocket
that pushes what happens to the clients. State is in PostgreSQL (through GORM);
Redis holds cooldowns and login challenges and carries events. Every HTTP request
runs in a goroutine of its own and several server processes may share the
database, so the interesting behaviour is what handlers do to each other's rows
between their SELECT and their UPDATE, what a crash or a lost call leaves behind,
and what the websocket goroutines do to each other.

This directory has a model of each of these parts, the TLC configurations that
check them on small instances, and proofs that TLAPS checks for every instance.
`PROJECT.json` maps each definition to the source lines it models.

## Inventory

| Component | State | Operations | Talks to | Hard part |
|---|---|---|---|---|
| permissions (`model/enums.go`, `service/helpers.go`) | none | role defaults, allow/deny overrides, rank comparison | everything about groups | pure |
| group service (`service/group_service.go`, `repo/group_repo.go`) | rows `groups`, `group_members` | create, join, invite, leave, dissolve, transfer, settings, policy, permissions, mute, ban, admin | events, messages (policy, membership) | some writes run under a lock on the group row, others write a whole row read earlier |
| admin console (`service/admin_service.go`) | the same rows, an admin user | dissolve, transfer, set admin, edit group; login, lists, edit user | group service | bypasses membership, same unlocked writes |
| group messages (`service/message_service.go`, `repo/message_repo.go`) | `group_messages`, `group_message_edits`, `groups.last_message_seq`, Redis cooldown keys | send, edit, retract, delete, list | group rows, events | numbering, checks made before the transaction, edits racing deletions |
| direct messages (`service/dm_service.go`, `repo/dm_repo.go`) | `direct_conversations`, `direct_messages` | get-or-create conversation, send with `client_msg_id`, ack, pull | events | idempotent retries, crash between commit and publish |
| friend mailbox (`service/friend_mailbox_service.go`, repo) | `friend_mailbox_requests` | submit, accept, reject | events | one pending request per pair rests on a partial unique index |
| public channels (`service/public_channel_service.go`, repo) | `public_channels`, `_messages`, `_changes`, `_subscriptions` | create/update channel, create/update/delete message, subscribe, list messages, list changes | events | change log numbering, a subscriber's copy kept from several reads that are not one snapshot |
| event bus (`events/redis_bus.go`) | Redis Pub/Sub | publish, consume | services, hub | lossy, unordered between publishers |
| websocket hub and handler (`transport/ws`, `app/app.go`) | clients, rooms, send channels | connect, subscribe, unsubscribe, broadcast, close | bus, services (rendering) | three kinds of goroutines, closing while sending |
| authentication and users (`service/auth_service.go`, `profile_service.go`, `repo/user_repo.go`) | `server_users`, Redis challenges | challenge, login, profile; users are also created by the console (`ensureAdminUser`) and by invitations (`ensurePeerUserTx`) | group service, admin console | three ways to create one user, one of them inside a longer transaction |
| schema migrations (`db/migrations/migrate.go`, `ensureTable` and what it calls in `repo/group_repo.go`) | the columns of `groups`, `group_members` | migrate at startup; check and repair at every call of `GroupRepo` | everything that uses `GroupRepo` | DDL statement by statement, on other connections than the caller's transaction, beside running sends |
| files and IPFS | `files` | upload, pin | IPFS node | I/O |
| HTTP transport, middleware, admin page, startup and shutdown | none of their own | decode, call, encode; wiring | all services | – |

What makes each component correct, and where it is stated:

* group: nobody but the owner has the owner role; the owner is an active member,
  nobody gets in except by a join or invitation that is legal when it is applied, and
  a ban stays - all three unless a write outside the group lock, from a copy that is
  older than what it overwrites, undoes it, and never otherwise.
* messages: numbers are 1, 2, 3, ... without a gap; references within the group point
  backwards; the audit trail leads to the present payload; a deletion is final.
* direct messages: one conversation per pair; gap-free numbers; one message per
  idempotency key, and every answer names it; only the recipient acknowledges; a
  reader is never overtaken; a repeated send is answered in the end.
* mailbox: at most one pending request per pair, one final decision, answers agree.
* channels: the log is gap-free and complete; deletions stay; a subscriber at the
  end of the log has missed nothing; positions do not go back; copies converge.
* users: one user per peer whoever creates it; an answer never rests on a row that may
  be rolled back; an invitation of peers is all or nothing, and complete.
* schema: whoever gets past `ensureTable` finds the columns the program uses; the
  migrations replace no time a send has stored, and lose an avatar only where an empty
  new column was there from the start; every call ends, but for one cycle that
  PostgreSQL cannot see.
* real time: hub indexes agree; nothing older after something newer; nothing written
  after access was lost; slow clients are closed and hold nobody up.

## Modules

| Module | Models | Steps |
|---|---|---|
| `Permissions` | roles, ranks, `EffectivePermissions`, `MayManage` | operators; a bitset is the set of its bits' names |
| `GroupService` (EXTENDS `Permissions`) | one group and its members | one step per database round trip; a transaction under the group lock is one step, because everything it writes is behind that lock |
| `MessageService` (EXTENDS `GroupService`) | the group's messages, beside the group's own handlers | transactions are two steps (SELECT FOR UPDATE, commit) with explicit row locks; a clock |
| `DMLog` | what direct messages promise: logs that grow at the end | append a new key, acknowledge |
| `DMService` | direct messages; `ImplementsLog` is the refinement to `DMLog` | as above; crashes and lost calls are actions |
| `FriendMailbox` | friend requests | as above |
| `PublicChannel` | one channel, its change log, subscriptions, and subscribers with their copies | a write is check, lock, commit; a subscriber's request is one step per statement |
| `Realtime` | publish, Redis, the consumer, the hub, and each connection's reader and writer goroutine | a hub method holds the hub's mutex and is one step |
| `UserService` | challenges, logins, the console's user, invitations of peers | a login is one step per statement; an invitation is one transaction of many steps, whose rows carry `tx` until its commit; unique keys and the group row are waited for, and PostgreSQL breaks cycles |
| `Schema` | `migrations.Run` and `GroupRepo.ensureTable`, with the callers that send and invite | one step per statement; the queue for the lock on `groups`, with its modes, is explicit |
| `MCGroup`, `MCMessage`, `MCDM`, `MCMailbox`, `MCPublicChannel`, `MCRealtime`, `MCUser`, `MCSchema` | instances for TLC | |
| `GroupService_proofs`, `MessageService_proofs`, `DMService_proofs`, `FriendMailbox_proofs`, `PublicChannel_proofs`, `Realtime_proofs`, `UserService_proofs`, `Schema_proofs` | theorems about the module named | |

`MessageService` composes with `GroupService` by extending it: `MsgNext` takes a
step of a message handler or of a group handler, on the same `group` and `members`.

How code and model correspond:

* A handler's local variables are the fields of its record in `req`, `hreq`,
  `dreq`, `mreq`, `creq`, `session`, `call` or `proc`: what it read is there, and may be stale
  when it is used. `pc` says which database call comes next.
* An error return is not a step of its own in `GroupService`: any handler may end
  without a write at any time (`Fail`), so each check of the code is a guard of
  the step that makes it. In the other modules the refusals that release a lock
  or answer a client are actions.
* In `UserService` and `Schema` a crash, an error of the database and a cancelled
  request are one action that rolls back (`FailCall`, `Fail`), enabled at every step.
* `SELECT ... FOR UPDATE` waits for and takes `lock[row]`; commit, rollback and
  crash release it. Postgres re-reads the row after the wait, so the copy is
  taken in the same step.
* Unique indexes are guards on the insert, and the conflict is an action.
* A definition named `X_Y` with a comment "Fault:" is a mutated form of `X`: `X`
  with a bug that this code could plausibly have. No specification uses them;
  they show that each checked property depends on the code it is about.

Abstractions, beyond names and payloads:

* `GroupService`: group status is `active` or `closed`; title, about, avatar and the
  visibility of the member list are dropped; a mute has no expiry; the group starts
  created (`Init` covers every creator, join mode and policy the constants allow).
  `DefaultPermissions`, what a group gives its members, is what the creator or the
  console asked for: a constant that the theorems leave open and the runs set to the
  default. `OwnerWriteBack` is GORM's: `Updates(map)` on a model loaded with its
  `OwnerUser` association also saves `owner_user_id` from that association. Runs that
  must hold set it to TRUE, the worse case.
* `MessageService`: payloads are model values that validation accepts; the time is a
  counter; cooldown keys expire by it. A reply names a message of the group; a forward
  names one of this or of any other group. Messages of other groups are one value,
  `Elsewhere`: their group may be in any state, so its checks may pass or not.
* `DMService`: `pulled` is what an external reader has; it asks for what follows its
  newest or precedes its oldest message, with `after_seq=0` meaning "absent", as in
  the code.
* `PublicChannel`: content is its version. The subscriber is external code: it
  starts a copy from the head and the first page, follows the log, and fetches
  what each change names. `Followers` are those that keep a copy; others only report
  a position. The unique indexes on change numbers never fire under the lock.
* `UserService`: a username is what `buildBootstrapUsername` makes of a peer id, and may
  be the same for two of them; a username with a random suffix collides with none.
  Who may invite is in `GroupService`; here an invitation only creates users and member
  rows. PostgreSQL refuses every statement after a failed one in a transaction, so the
  second INSERT of `ensurePeerUserTx` never succeeds (`GiveUp`): an invitation that
  meets a taken username fails as a whole.
* `Schema`: one group; the columns that differ between versions. What `Run` changes
  shows at its commit. `ensureTable` runs on connections of its own: a caller inside a
  transaction may wait for itself, and PostgreSQL does not know. Locks of ALTER TABLE,
  CREATE INDEX, UPDATE and SELECT FOR UPDATE on `groups` are modelled with the queue in
  which PostgreSQL grants them; on `group_members` only what an instance and an
  invitation do to each other. `Found` is the set of tables the first process may find,
  of any kind that `FoundOK` allows: both avatar columns may be there, and the new one
  may be empty. `sent` are the times of the messages. A send stores its time whatever
  the others are, because `created_at` is taken before the row is locked; the backfill
  stores the greatest, in whole seconds, rounded, although the comment beside it
  (`migrate.go:288`) speaks of the last message's. Instances of an older version that
  go on writing `last_message_at_ms` meanwhile are not modelled.
* `Realtime`: groups, conversations and channels are rooms alike, with one object
  each, whose `version` counts its writes. Events carry ids only and are rendered
  from the database for each viewer; a user's rendering is cached within one
  broadcast. The reader writes its acknowledgement to the connection itself, and the
  library may or may not notice two writers (both outcomes are explored). Presence
  keys are left out: nothing reads them.

## Runs

Twelve runs; nine must pass, three show a disagreement between the code and what
the repository says.

| Run | Instance | Shows |
|---|---|---|
| `group` | 3 users, 2 handlers, every operation, version ≤ 3, overrides that deny the right to ban | `OwnerRoleIsOwner`, `OwnerKept`, `BanStands`, `AdmissionAuthorised`: in any order, and with the overlaps of handlers that may get in each other's way, unlocked writes of old copies included |
| `message` | 2 users, 2 handlers, 2 messages, 2 payloads, 2 edits, time ≤ 2, invitations between them | `SeqGapFree`, `ReferencesPrecede`, `AuditTrail`, `DeletedIsFinal` |
| `dm` | 2 users, 2 handlers, 2 conversation ids, 2 messages, 1 failure | `OneConversationPerPair`, `IdempotentReplies`, `AckByRecipient`, `NothingArrivesBehind`, the refinement `ImplementsLog` and the liveness `SendsAnswered` |
| `mailbox` | 2 peers, 3 requests, 2 handlers | `OnePendingPerPair`, `AnswersHold`, `DecisionIsFinal` |
| `channel` | 2 handlers, 2 writes, 2 devices of one user, pages of 1 and 2, 1 failure | gap-free and complete log (`ChangesGapFree`, `LogMatchesMessages`), `CaughtUp`, `SeenNeverBack`, `Converges` |
| `rt_hub` | 2 connections of one user, 1 room, channel capacity 1, 2 versions | `HubConsistent`, `NeverBackwards`, `NothingAfterRevocation` |
| `rt_close` | 1 connection, capacity 1 | `ClosedIsUnregistered`, `ConsumerReturns` |
| `users` | 2 peers and the console, one username for all three, 2 groups, 2 handlers, both orders of inviting | `PeerHasOneUser`, `IdentitiesHold`, `InvitationsAtomic`, `InvitationsKept`, and `CallsReturn` |
| `schema` | 2 callers, 1 starting instance, five tables (with the avatar in either, in both, or only in the old of two columns), times ≤ 2 in any order | `ReadyIsCanonical`, `TimeKept`, `AvatarKept`, and `CallsEnd` |
| `group_dissolve_undone` | 2 handlers, `UpdateGroup` and `DissolveGroup` | violated: a settings update read before the dissolution reopens the group |
| `dm_at_least_once` | 1 handler, 1 failure | violated: a crash between commit and publish loses the push for ever, and a retry does not repeat it |
| `rt_closed_channel` | 1 connection | violated: `Unregister` closes the channel between the broadcast's copy of the room and its send, and the process panics |

Each module's type invariant is checked with the run, as an invariant of its own or as
a conjunct of the first one (`OneConversationPerPair`, `OnePendingPerPair`,
`LogMatchesMessages`, `HubConsistent`, `PeerHasOneUser`); that of `Schema` is proved
(`SchemaSafe`).

Some action properties name an exception, which is what the code does wrong and not
an assumption about it. `OwnerStale(w)` and `StatusStale(w, u)` say, of the very step,
that handler `w` writes back a row it read before the owner, or the status of `u`,
changed; `OwnerKept`, `BanStands` and `AdmissionAuthorised` say that nothing else takes
an active owner away, lifts a ban or lets anybody in. Without its exception each is
violated in the run, so the stale writes are explored there (but for one, under Bounds).
`AvatarKept` has one too:
both avatar columns are there and the new one is empty, of which DROP COLUMN takes no
notice; no migration makes that table, it can only be found.

### Bounds

Two handlers are enough for every overlap the code knows: each check-then-write
window is between one reader and one writer of the same row, and each lock has one
holder. A third user in the group run is the one who is neither the operator nor
the target. Two message ids give one message that refers to another; two payloads
tell a lost edit from a kept one, and two edits make a trail of length two.
`MaxVersion` 3 in `group` is the creation, a dissolution and one write after it.

Two runs have a state constraint, which TLC does not search beyond. `MCGroup!Overlaps`:

* handlers overlap if both write under the group lock, both act on the settings or the
  status or go by them (joins and invitations do), or, in an open group, both write
  member rows; two unlocked member updates only of one target. So a mute that was read
  before a ban, a leave, a join or a transfer and written after it is in the run, and so
  are two settings updates, and one beside a dissolution or a join. In the last
  version, where the group cannot change any more, no two handlers are busy;
* ownership is not transferred while a settings update is under way. That update may
  write the old owner back; `OwnerStays` covers it, and `OwnerRole` excludes it;
* one member at a time is muted or restricted, none once the group has changed or while
  handlers overlap.

`MCMessage!Related`: two handlers overlap if both send, both change the same message, or
one sends and the other retracts what it refers to; no member joins meanwhile. The
messages have one payload, and only a message that is alone and refers to none is
edited: the second message is there for references and the first for edits. Once there
is no id left no send goes on and nobody joins. The theorems have no such bounds.

In `users` the console is configured with the username that the second peer gets too,
so every INSERT may meet a taken key; two groups and both orders of two peers are the
least that makes two invitations wait for each other. In `schema` two callers and an
instance are the least in which a caller's transaction, a second caller's ALTER TABLE
and a starting instance queue for one table.

Channel capacity 1 and pages of 1 put every queue and page at its limit at once.
One failure separates each step from the next; its repetition is covered by the
fact that a failed handler leaves no trace but its rows. In `channel`, three writes
and more are not needed for what the run shows, and what needs three (create, an
accepted edit, a deletion) is proved. Symmetry is used where ids, handlers or
connections are interchangeable and no liveness property is checked.

The realtime runs say CHECK_DEADLOCK FALSE: after a crash of the process, or when
every connection is gone and every event handled, the system really stops.

### Fairness

* `DMFairSpec`: a started handler goes on (Go schedules it, Postgres gives out
  locks), and a client repeats a send until it is answered, which is what
  `client_msg_id` is for. Failures are bounded, not excluded.
* `PCFairSpec`: handlers and requests go on; the lock of a subscription row, which
  the other device may ask for without end, is given out in the order of asking, as
  Postgres does (strong fairness); a subscriber keeps polling although it does
  other things as well. The owner writes finitely often by the bound, which is the
  premise of convergence.
* `UserFairSpec`: a call goes on. Those who wait for a group row or a unique key are
  served by PostgreSQL in turn, hence strong fairness of `Progress`. Nobody has to call
  and nothing has to fail. `CallsReturn` then holds because PostgreSQL ends cycles of
  waiting transactions by failing one of them.
* `SchemaFairSpec`: the same for `Statement`. `CallsEnd` excludes `Jammed`, a cycle of
  which one edge is a Go function that waits for its own query on a second connection:
  a caller that holds the group's row in an open transaction, whose inner `ensureTable`
  waits for a starting instance, or for another goroutine's ALTER TABLE, that waits for
  the transaction. Nothing in the server breaks it but the end of the request. The
  property says that this is the only way not to end: a call does not wait for itself,
  and nobody waits in a longer cycle.
* `RTFairSpec`: the consumer and the readers run. Nothing is assumed of peers,
  writers, services or Redis, and a reader's own write to its connection has no
  deadline, so it may block until the connection is closed (`Unblocked`).

## Proofs

Every invariant and every action property that a run must pass is also a theorem, and so
is the refinement. The proofs are for any number of users, handlers, messages,
connections, callers and failures. They rest on the named assumptions about
constants in the modules (which TLC evaluates in every run) and on nothing else. In
each module the inductive invariant was first checked by TLC on the instance of the
module's run.

**`GroupService_proofs`.** The inductive invariant is `TypeOK /\ RequestsOK`:
`RequestsOK` says what a handler remembers between steps (a copied target row never
has role owner, a ban about to be written is a ban), without which no unlocked
write is bounded. Three theorems hold of all operations in any overlap: `OwnerStays`,
`BanHolds` and `Admission`. Each looks at every write and asks what it rests on: a row
it has locked or looked at again in the transaction, or a copy, which is then stale or
still so. `BanHolds` also needs that a handler which finds a ban keeps it in its copy.
The others exclude operations, and each excluded one has a behaviour that breaks the
conclusion: `OwnerRole` (only the named owner has the owner role) excludes settings
updates if `OwnerWriteBack`; `LockedOwner` (the owner is always an active member,
`OwnerIsActive`) is for the operations that write under the lock, so it says what the
lock is worth; `Reopening` excludes a member's `UpdateGroup`, of which the run
`group_dissolve_undone` shows the effect.

**`MessageService_proofs`.** `MsgInv` adds to that `MsgTypeOK`, `CopiesCurrent` (a
transaction's copy agrees with the row it has locked) and that unused rows are
empty. `GapFree`, `DeletionFinal`, `ReferencesBackwards` and `AuditComplete` need
`CopiesCurrent`, because what they are about is written from the copy.
`ReferencesBackwards` is about references within the group: a message that is looked up
has its number, and the one that refers to it gets the next, whatever is sent, deleted
or expires in between. A forward of another group's message is not bounded by it.

**`DMService_proofs`.** `DMInv` says that idempotency keys and numbers are used once
per conversation, that a handler between the two steps of `CreateMessage` holds its
conversation and has the next number (`ReqOK`), and that whatever is to be answered or
was answered is a stored message with the key asked for. Hence `OneConversation`,
`RepliesIdempotent`, `AcksByRecipient` and `NothingBehind`. `Refinement` maps steps
to `DMLog` one by one: storing a message appends its entry, an acknowledgement marks
one entry, and every other step leaves number, presence and entries of all messages
alone and so stutters. Keys being used once is what makes the append legal.

**`FriendMailbox_proofs`.** `MailInv` adds to `OnePendingPerPair` what a deciding
handler knows (`DecidingOK`: between lock and save it holds a pending row addressed to
its caller). A decision is final because every step keeps `FinalStep`; answers then
stay true.

**`PublicChannel_proofs`.** Four parts, together `PCInv`:

* `SubInv`: a request that found its subscription row holds the row's lock and its copy is
  current, and a user without a row has seen nothing; hence `SeenMonotone`.
* `OwnerInv`: a write that is about to commit holds the channel's lock and its copy of
  the row is current, ids are given out by `last_message_id`, and the log numbers are
  complete; hence `LogGapFree` and `DeletionStays`.
* `HistoryInv`: the changes of each message have the versions 1, 2, ... in the order of
  their numbers, and the last is what the row says; hence `LogIsHistory`. That ids
  stay within the bound on writes needs an argument by counting (`WritesCounted`:
  ids given out plus writes under way are at most the writes accepted).
* `CopyInv`: `WillLearn(r, n, S)` says that whatever copy `r` lacks, the log tells after
  number `n` or in the set `S`. It holds of a copy with its position (`CopyOK`), of a page
  that waits to be applied with the page as `S` (`PageOK`), and of the profile in
  the head a subscription starts from (`HeadOK`), although head, messages and pages
  are read at different times. At the end of the log nothing is left to learn:
  `FollowersCatchUp`.

**`Realtime_proofs`.** Two invariants. `HubInv`: the indexes agree, and a client whose
reader still runs is registered, so that a late subscription cannot enter the hub
after `Unregister`; hence `HubAgrees`. `DeliveryInv`: the consumer's cache holds
only what its user may see (`MayHold`), and the clients that the broadcast has still
to serve have been pushed nothing newer than what they are about to get
(`PendingOK`). The consumer renders from the database after it has taken the event,
and there is one consumer: that is all the order rests on. Hence `StatesGoForward` and
`RevokedSeeNothing`, for any reordering and loss of events. A writer takes payloads
from the head and may lose them; what a client was pushed is then a subsequence of
what it was (`Thins`), and both properties pass to subsequences.

**`UserService_proofs`.** `UserInv` adds to `PeerHasOneUser`: an uncommitted row belongs
to an invitation that has added it or is about to (`OwnedOK`), whatever a call has
found or added is a row nobody else can roll back (`FoundOK`), and of the list of an
invitation the peers before `todo` have been added (`InviteOK`). The properties are not
inductive without it: `IdentitiesHold` needs that a row seen by SELECT is committed,
and `InvitationsAtomic` that everything a transaction inserted is in `added` when it
commits. Hence `OneUserPerPeer`, `Identities`, `InvitationsAllOrNothing` and
`InvitationsComplete`, for any number of peers, groups and handlers and any lists.

**`Schema_proofs`.** `SchemaInv` adds to the types what the columns always satisfy
(one of the avatar columns is there, as every version of the program has created one)
and, for each statement, what its caller has found or done before and nobody undoes
(`DoneOK`): a `DROP COLUMN` follows a completed copy, and old columns do not come back.
Hence `ReadyCanonical`, and from the invariant and the step `TimeStays` and
`AvatarStays`. Nothing is assumed of the order of times or of what the avatar columns
hold. The queue's places are minima of sets of numbers, whose existence (`LeastOf`)
comes from the well-foundedness of `<` in the library.

Only model-checked, because the prover has no fairness and no ENABLED: the liveness
properties `SendsAnswered`, `Converges`, `ClosedIsUnregistered`, `ConsumerReturns`,
`CallsReturn` and `CallsEnd`. The three violated properties have counterexamples and no
theorem. The invariants behind the theorems (`RequestsOK`, `CopiesCurrent`, `PCInv` and
so on) are not checked by a run of their own.

## Known overlaps

These follow from the model and are not hidden by it; no run claims otherwise.

* `UpdateMember` writes every column of a row read without a lock: a mute, a
  permission or an admin update that overlaps a leave, a ban or a transfer writes the
  older row back. The run `group` reaches it, and its properties name it as their
  exception.
* `GroupRepo.Update` writes every setting, the status and `settings_version` of a row
  read without a lock. Two settings updates may give one version twice, and one beside a
  dissolution or a transfer may take the version back; no property says that versions
  count, although `CodegenPrompt.md:683` has "settings_version + 1". That it reopens a
  dissolved group is the run `group_dissolve_undone`; that it may write the old owner
  back (`OwnerWriteBack`) is an exception of `OwnerKept`.
* `last_message_at` and the order of `created_at` may go back: the time is taken before
  the lock.
* `renameLegacyGroupAvatarColumn` drops `avatar_c_id` whenever `avatar_cid` exists. If
  that one is empty the avatar is lost (the run `schema` starts from such a table too).
  An interrupted RENAME does not leave it, a column that something else added does.
* The slow mode key is read before a send and set after it, so overlapping sends of
  one user both pass.
* A send does not look at the group again in its transaction, so a message may enter
  a group that was closed, or come from a member who was banned, meanwhile.
* `after_seq=0` is taken for an absent parameter: a first pull gets the newest page.
* Two goroutines may write to one websocket connection.
* An invitation of peers fails as a whole when one of the new users' usernames is
  taken, although the code tries a second one: the transaction has already failed
  (`group_service.go:399`; `docs/API.md` promises that peers without a user get one).
* A profile update reads a row, increments `profile_version` and writes the row back
  without a lock: two updates may give one version to two profiles.

## Not modelled

* Profile updates and the console's edit of a user (`profile_service.go`, part of
  `admin_service.go`): one read and one unlocked write of one row, of which no property
  holds. Lists of users and groups are read-only.
* Listing and rendering of group messages (`toMessageView`, forward expansion, lists cut
  by TTL): reads without a promise across requests. What events render is in
  `Realtime`. A file message that names a stored file reads one row more.
* Member events check the viewer before they read the member, unlike the events
  `Realtime` renders; their window is not modelled.
* Tables whose `group_id` has the wrong type, which both migrations drop with their
  rows: `Schema` starts after that. The DDL of the other tables only creates what is
  missing; their unique indexes are guards in the modules whose tables they are on.
* Files and IPFS: one upload and one insert. HTTP decoding, middleware, the admin page,
  configuration, startup order and shutdown: no state of their own, or input and output.

## Plan

1. Done: groups, messages, direct messages, mailbox, channels, real time, users and
   schema; theorems for all their safety properties and for the refinement.
2. Next proofs: an abstract specification of the channel's change log (numbers at the
   end, versions in order) that `PublicChannel` implements; that no two sends of a group
   message share a place, as a refinement to a log like `DMLog`; that what
   `CallsReturn` and `CallsEnd` say of waiting is safe at least: a cycle of waiting calls
   always has an edge that PostgreSQL can break, or is `Jammed`.
3. Next models, where they displace nothing deeper: the window of member events in
   `Realtime`, and lists of messages read while they are edited and deleted.
