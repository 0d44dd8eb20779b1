# OpenVK-IM in TLA+

OpenVK-IM is a messaging service written in Go on top of MariaDB (GORM) and
Redis, with an API shaped like VK's `messages.*`.  This directory holds its
TLA+ models, the TLC configurations that check them on small instances, and
the TLAPS proofs.  Paths below are relative to the repository (`src/` here is
its checkout, so that Go sources are under `src/src/`).

## 1. The system

| part | state it keeps | operations | talks to |
|---|---|---|---|
| Long-poll event store (`repo/redis/longpoll.go`) | per subject: sorted set `im:lp:events` (payload → score), counter `im:lp:ts`, counter `im:lp:pts` and its copy in `im_states`, keys → user, times to live | PushEvent, PushEphemeralEvent, GetUpdates, GetUserTS, SetUserTS, incrementUserPTS, GetUserPTS, SaveLongPollKey | Redis, database |
| Long-poll endpoint (`transport/longpoll/longpoll.go`, `endpoints/longpoll/getServer.go`) | one goroutine and one channel per parked request; the client holds `ts` | getLongPollServer, GET /nim | event store, broadcaster |
| Broadcaster and Pub/Sub (`transport/broadcaster`, `main.go`) | per process: subject → channels of capacity 1 | Subscribe, Unsubscribe, Notify; the goroutine that relays `lp_updates` | long-poll endpoint, Redis |
| Event emission (`endpoints/**`, `endpoints/core/handler.go`) | none | every handler that pushes events and wakes their readers | event store, broadcaster |
| Chat store (`repo/chat/main.go`, `send.go`, `delete-restore.go`, `add-remove-user.go`) | tables of conversations, messages, members, member periods, deleted messages | NextLocalID, Send, Delete, Restore, AddUserToConversation, RemoveUserFromConversation, CreateServiceMessage, RefreshChatLastMessage | database; emission after the transaction |
| Duplicate suppression (`send.go`) | Redis key per (user, random_id): processing or the message id | SET NX 15 s, deferred DEL, SET id | Redis, chat store |
| Online tracker (`endpoints/status/online.go`) | Redis sorted set user → deadline, per process a goroutine | TouchUserActivity, checkExpiredUsers | Redis, emission |
| Read state (`read-mark.go`, `core/handler.go`) | `last_read_id` per member, unread counts computed from it | MarkAsRead, BackgroundDeleteChat, BroadcastCounterUpdate | database, emission |
| Roles, permissions, settings, flags (`moderators.go`, `permissions.go`, `edit.go`, `photo.go`, `pins.go`, `flags.go`, `mutes.go`) | member role, chat settings and title, pinned message, conversation flags, silences | SetChatModerator, RemoveChatModerator, SetChatPermissions, EditChat, pin, unpin, UpdateChatFlags, permission checks | database, emission |
| Invites (`invites.go`) | links with a usage limit and a counter | getInviteLink (reuse, create, revoke), joinChatByInviteLink | chat store |
| Peer ids (`repo/chat`, `custom/peer.go`) | none (a bijection between row ids and API ids) | GetInternalChatID, ResolveChatID, DerivePeerID | everything |
| Reading endpoints (`chats/get.go`, `history/get.go`, `messages/get.go`, `models/db/message_vk.go`) | none | getConversations, getConversationsById, getChat, getHistory, messages.get, viewers, nearest message for a date | database |
| Search, encryption, migration, formatting, wiring | see `PROJECT.json` | | |

The hard behaviours are all between these parts.  No lock spans a handler:
each Redis command and each SQL statement outside a transaction interleaves
with every other handler, in any number of processes.  Redis may fail, forget
(times to live of 24 and 48 hours) and lose Pub/Sub messages; handlers drop
most Redis errors, and many queries of the database whose error is dropped
stand for "nothing found".  Handlers emit events in goroutines that end when the
process does.  Transactions run under REPEATABLE READ, so that what a
transaction reads without a lock may be older than what it locks.  The list,
line by line, is `hazards` in `PROJECT.json`.

What makes each part correct:

* long poll: an event that is stored while a request is parked wakes it; the
  history is cut off only where the cut can be seen; numbers belong to one
  event; a client's `ts` moves forward and, if it keeps polling, reaches the
  present; what is acknowledged was received, or declared lost;
* chat store: a local id belongs to one message of the chat; the last message
  of a chat is its newest one; presence periods follow membership; a member
  sees what was sent while they were in;
* duplicate suppression: a message with a random_id is sent once for each life
  of its key, unless the answer of a COMMIT is lost, and no key stays locked; every participant is told once, under the
  right peer;
* online tracker: what others were told is what the sorted set says; somebody
  silent is told offline;
* read state: what was read stays read, nothing is born read; receipts are
  true; the last counter event carries the last count;
* settings and roles: the chat is what its service messages say; a role ends
  with the membership; a change touches what it names; joins are counted;
* reading: the endpoints agree with one another on one state; a client that
  fetches pages while others write misses nothing.

## 2. Modules

| module | models |
|---|---|
| `LongPoll` | the event store, the broadcaster, Pub/Sub and the long-poll endpoint for one subject, every Redis command a step, with failures, crashes and expiry |
| `Emissions` | the catalogue of what each handler pushes and announces to one recipient |
| `EventFeed` | the abstract specification of the long poll: a numbered feed and cursors |
| `ChatStore` | one group chat in the database: messages and local ids, last message, members, presence periods, under concurrent endpoint calls, statement by statement |
| `PeerIds` | how conversations are named: peer ids, internal ids and the functions between them |
| `Permissions` | the levels of a chat's permissions, their defaults, and the acl |
| `Sending` | messages.send around its transaction: validation, the random_id key, the goroutine that tells the recipients (extends `PeerIds`, `Permissions`) |
| `Online` | the online set, the calls that renew it, the tracker of each process, and what others are told |
| `ReadState` | read marks, receipts and unread counters under concurrent sends, deletions and readings |
| `ChatAdmin` | roles, permissions, title, photo, pin, invite links, flags and silence of one chat (extends `Permissions`) |
| `Reading` | what the reading endpoints compute from the tables, and a client that fetches pages while others write |
| `MCLongPoll`, `MCChatStore`, `MCSending`, `MCOnline`, `MCReadState`, `MCChatAdmin`, `MCReading` | small instances for TLC |
| `LongPollProofs`, `ChatStoreProofs`, `PeerIdsProofs`, `SendingProofs`, `OnlineProofs`, `ReadStateProofs`, `ChatAdminProofs`, `ReadingProofs` | theorems |

The modules share no variables.  Each looks at one hazard closely and takes the
others' work as single steps: `ChatStore` opens the transactions that `Sending`,
`ReadState`, `Reading` and `ChatAdmin` see as one step; `LongPoll` opens the push
that `Sending`, `Online` and `ReadState` see as one step; `Emissions` says in
which order a handler does what `LongPoll` interleaves.  Every module is one
database and one Redis with any number of processes.

### LongPoll

Every Redis key and every subscriber list is kept per subject (`subjectKey`),
so one subject is modelled.  `ts`, `zset` and `ttl` are the Redis keys; `tok`
is whether a request's channel (capacity 1, `broadcaster.go:20`) is full;
`pending` counts Pub/Sub messages a process has yet to receive.  A request has
a control point `pc`: `check`, `range`, `ts`, `set` are the four commands of
GetUpdates, `old` the return of ErrTsTooOld, `wait` the `select`; `second`
says that it is in the GetUpdates after `<-notify`.  `buf` and `top` are the
events it decoded and `highestFetchedTS`.

A call is an endpoint handler reduced to its emission program for this
subject.  A push is two steps, `Incr` and `StoreEvent` (INCR; the pipeline
ZADD, ZREMRANGEBYRANK, EXPIRE, EXPIRE), a notification is `Notify` or
`Publish`.  Each command can fail; one that writes, before or after Redis
executed it (`IncrFails`, `StoreFails`, `SetTSFails`, `InitializeTSFails`).  A
failed read of the counter stands for 0 wherever the error is dropped: in
GetUpdates (`GetTSFails`), beside ErrTsTooOld (`RefuseOldFails`), at the timeout
(`TimeoutFails`) and in getLongPollServer (`GetLongPollServerFails`), which then
increments a counter that exists.  The other reads are `CheckFails`,
`ReadRangeFails` and `PollRejectedUnread` (the session key).  The SET of a new
session key is answered with an error and leaves the client where it was, so that
its failure is no step.  A publication can be lost for some processes
(`PublishLost`), a request can be cancelled (`Cancel`), a process can die
(`Crash`), keys can expire (`ExpireEvents`, `ExpireTS`) and so can a client's
session key (`PollRejected`).

A key expires 24 or 48 hours after it was last written; a request lasts 90
seconds at most and a call about as long.  `aging` is the set of requests and
calls that were running when a time to live was last given; a key expires only
when they are all over.  One case is thereby left out: a push that straddles
the expiry.  Its number would come from the counter that expired and be stored
under the new one.

`known`, `trimmed` and `movedBack` are history variables: what a client was
given or told to refetch, the highest score removed from the present sorted set,
and whether a ZADD has lowered the score of a member (a payload that two calls
share, stored last by the call that was numbered first).

### EventFeed, the abstract specification

A client of the API sees numbers and events.  `EventFeed` says what that
promises, without Redis: numbers grow, an answer moves the cursor forward over
numbers it had not covered and hands out some of the events in between.
`LongPoll` implements it (`FeedSpec`) with `ts` as head and `cts` as cursor
when Redis neither fails nor forgets.  It does not promise that *every* event
in between is handed out: the code does not keep that (finding `acked`).

### ChatStore

`rows`, `last`, `member`, `admin`, `periods` and `hidden` are the tables
`messages`, `conversations`, `conversation_members`,
`conversation_member_periods` and `deleted_messages` for one group chat; what
other chats hold is independent but for the waits between them.  A call of an
endpoint has a control point `pc` and what it has read: `val` (a local id),
`row` (a message), `seen` (a fact of its snapshot).

What the transactions see is the heart of the model.  Under REPEATABLE READ
(the default of MariaDB and MySQL; the code sets nothing else) a plain SELECT
reads the snapshot made by the transaction's first plain SELECT, while
`FOR UPDATE`, UPDATE and DELETE read, and lock, what is committed.  So:

* `NextLocalID` locks the conversation's row (`lock`) to the end of the
  transaction.  In messages.send and CreateServiceMessage the lock comes first
  and the snapshot of MAX(local_id) after it (`Lock`); in
  AddUserToConversation the member is read first, so that MAX(local_id) is as
  old as that read (`AddSnapshot`, `AddLock`).
* Nobody sees what a transaction wrote before it commits, and its rows are
  locked until then: its writes are made in its last step (`SendCommit`,
  `AddCommit`, `KickCommit`, `RefreshCommit`).
* RemoveChatUser is three writes, each on its own: `Leave`, then `Lock` and
  `KickCommit`, then `Close`.
* messages.delete reads the message before its transaction (`DeleteCheck`),
  writes it, computes the last message (`DeleteRow`, whose SELECT makes the
  snapshot and sees the transaction's own write) and waits for the row of the
  conversation (`RefreshCommit`).  messages.restore reads the message inside
  (`RestoreRead`), which makes the snapshot.
* `Fail` rolls a transaction back or kills a call between two statements;
  `RefreshTimesOut` is the lock wait that times out in RefreshChatLastMessage,
  whose error its callers drop, so that the rest is committed.
* Queries whose error the code drops stand for an answer: the look for a kick finds
  none (`AddUnread`, in the handler and again in the transaction), the owner is not
  recognised and loses `is_admin` as he leaves (`LeaveUnread`), a row that
  messages.delete could not write is skipped and the rest committed
  (`DeleteRowFails`), one's own hiding cannot be taken back and the deletion for all
  is tried (`RestoreOwnFails`), and a chat whose last message could not be read is
  written as empty (`RefreshUnread`).  MariaDB ends the transaction on a deadlock;
  these are the other errors, after which it goes on.

Left out: the members' own `last_message_id`, `last_read_id` and
`deleted_before_id`, texts, mentions, the search index; several messages in
one messages.delete; hiding a message twice at once, where the second waits
for the first; an UPDATE that changes nothing.  Handlers that only add a
service message (title, photo, pin) do what `send` does.  Newer MariaDB
versions can refuse a write to a row that changed after the snapshot
(innodb_snapshot_isolation, on by default from 11.6); there, the transaction of
finding `reused` would fail instead.

### PeerIds and Permissions

Both are constant modules: operators that the code calls.  The internal id of a
conversation is a string in the code (`c5`, `g-3_7`, `dm4_9`); only its prefix
and its numbers are ever looked at, so that it is a record here.  `Permissions`
has the three levels, what each permission may be set to, the defaults that
replace what is missing or unknown (`ParseChatPermissions`, `Normalized`), and
`ComputeChatACL`.

### Sending

A call is a request of messages.send; a client that repeats a request makes a
second call with the same random_id, at any time.  `key` is the Redis key
`rid:sender:peer:random` with its three values (missing, processing, the id of
the message); `rows` the committed messages with the key they were sent under;
`jobs` the goroutines that tell the recipients; `feed` the new_msg events of
each member.  With `peer_ids` a request has several peers, each sent to in
turn, and each random id is the server's choice.

The steps are the handler's: `Validate`, `Check` (may the sender write here),
`Lookup` (GET), `Claim` (SETNX, 15 s), `Examine` (is the reply visible),
`Commit`, `RollBack` or `CommitUnseen` (it took effect and its answer was lost, so
that the call takes it for a failure), `Drop` (the deferred DEL, which does not ask
whose key it is), `Save` (SET for 24 h with the context of the request, its error dropped),
`Spawn`, and then `Tell` for each recipient in any order.  A client may disconnect
(`Disconnect`), which fails what uses the request's context; a process may die at
any point (`Crash`), with its goroutines; a query may fail (`ValidateFails`,
`CheckFails`, `ExamineFails`, `SpawnFails`), which refuses the message or is taken
for an answer: mass mentions are allowed, members or mutes are not found; keys expire under a running call as
well (`Expire`); the goroutine gives up after ten seconds (`GiveUp`); members
leave meanwhile (`Leave`).

What a call has read before its transaction and uses after it is kept: `mass` are
the calls that may use mass mentions.  `unseen` (messages of a `CommitUnseen`) and
`unasked` (messages whose goroutine did not find all mutes) are history.

Abstracted: a peer that is missing or does not parse is `NoPeer`, more than 25 are
more than `MaxPeers`; the text is none, short or too long; attachments, reply and forward
are what validation tells apart.  Worth knowing, as modelled: a mute of a dialogue
is looked up with the recipient's own id as peer (`send.go:682`), so that only the
silence of group chats is promised, and only if the query for it did not fail
(`ToldAsFound`); `sound = 0` silences events but
not account.getPushSettings; a sticker with a forward given as JSON passes; an
attachment of commas counts as an attachment.

### Online

`score` is the sorted set `im:online_users`, `now` the clock.  A call works with
the time of its first step: `ReadScore` (ZSCORE, was the user online), `Touch`
(ZADD, then a goroutine if there is news), `SetOffline`.  The tracker of a process
is `checkExpiredUsers` (ZRANGEBYSCORE) and then, item by item, `Remove` (ZREM,
whatever the score is by now) and the emission.  `jobs` are emissions in progress,
each told recipient by recipient (`Tell`).  `crossed` is history: users about whom
opposite emissions ran at once, or whose entry went between the ZSCORE and the
ZADD of one call.  These two are the races that can leave others with the wrong
news; `Agreement` says that they are the only ones.  In particular the removal of
a user who has just been renewed is told as it happens, and the next activity
brings the user back with an announcement.

### ReadState

`rows`, `last`, `read` and `before` are the messages, `last_message_id`,
`last_read_id` and `deleted_before_id`.  messages.markAsRead resolves its
parameters into tasks, one per chat (`Resolve`, with `StartTask`, `IdTasks` and
`AllTasks` for its three ways of naming a message), then for each task reads
`last_message_id` (`ReadLast`) and updates the mark (`MarkAsRead`), and leaves the
tasks to a goroutine (`BroadcastMarkAsRead`).  messages.deleteConversation reads
MAX(local_id) and then writes both columns (`ForgetRead`, `Forget`).  The
goroutines of every endpoint count (`Count`) and push (`Push`) user by user; a
receipt is pushed by a goroutine of its own (`PushReceipt`).

Members are told in the order in which the database returns them, which is any
(`Others`).  What the instance starts with is a constant, `Earlier`, of which the
model assumes what the code guarantees: the messages of a chat are numbered
upwards, and a deleted one was withdrawn.

Its handlers drop the errors of their queries, and so the model takes them for
answers: a message that could not be looked up names no task, or a guess
(`Mistaken`), a `last_message_id` that could not be read caps nothing, a highest
local id that could not be read is written as 0, a COMMIT of `Forget` that fails
is counted and told all the same, and a mark that could not be read back is told
as 0.

The reservations of the properties are what the code does: a receipt is made from
the mark the client named, before `MarkAsRead` caps it, so that the deletion of a
conversation, even of one that was still empty when it looked for the highest
local id, can leave the reader's mark below it (`Forgotten`); a restored message
changes the counts of all members, but only the restorer's is pushed; nobody in a
dialogue with a community is sent a receipt.

### ChatAdmin

No handler here uses a transaction.  Each is three steps: `Check` (everything it
reads before its first write), `Write` (its UPDATE, from what was read) and `Tell`
(the service message, or the caller's own event).  Permissions and conversation
flags are written back as a whole.  Removal with its role (`Remove`), invitation
(`Add`) and deletion (`Delete`) are single steps.  A link is checked and picked in
two (`LinkCheck`, `LinkPick`), a join checks the link, adds the user and counts in
three (`JoinCheck`, `JoinAdd`, `JoinCount`).  `Fail` ends a call anywhere: what it
wrote stays.  `Misread` is a removal one of whose queries fails and is taken for an
answer, so that a moderator removes another, or the leaving owner loses `is_admin`.

A pinned message is there for who is in the chat and can see it: `Visible` is
BuildVisibilityFilter, with what is deleted for all, what a user has hidden, and
whether a period of his covers the earlier messages (`covered`); messages that a
user has cut off by deleting the conversation are left to `Reading`.  A pin names a
message by its local id or by the id of its row, and the first such row is taken
(`Chosen`), which may be another message than the one that was meant.  An owner
that is a community is none for the lists (`Owns`): it may remove moderators, but
its own list of members does not offer it.

Left out: the kick check of an invitation that fails (it is in `ChatStore`),
im.setMemberRole, which calls the handlers that are modelled, restoring a message.

`overlap` is history: the topics (a title, one member's role, one link, ...) that
two calls were at together.  The properties except those, and only those, because
the code does lose updates there (two changes of permissions write whole sets,
two joins compare the limit before either counts, an appointment does not ask for
`left_at` again).  `meant` is what the permissions and flags would be if each
change were made at once.

### Reading

One user's view.  The tables are variables; the endpoints are operators over them
(`Listed`, `Rank`, `LastMessage`, `UnreadCount`, `ResolveGlobalMsgID`, `State`,
`GetHistory`, `ReadStateOf`, `GetNearestMessageForDate`, `Get`, ...); the actions are
what others write (one step each) and a client that fetches a chat's history by
`start_cmid`, by offset, or the list by offset, page by page.  A request reads one
state; in the code it is several queries.  ORDER BY is `Up` and `Down`, which give
each row its rank.  Of its constants the module assumes that the chats are finitely
many and that the earlier messages of each are numbered upwards.  A deletion may leave `last_message_id`
behind a message that was sent meanwhile (see the findings): `Current` says
that it has not, and the properties that rely on `last_message_id` assume it.

`out_read_cmid` comes from marks that the list loads only for conversations with
something beyond the user's cut.  Where a deletion has left `last_message_id` below
the cut the list shows no last message and says 0, whatever the others have read;
`ReadMarksAgree` speaks of conversations with a last message.

As modelled, and not promised: getConversations ignores the `start_message_id`
that `vkapi586.docs.md:503` documents; a page past the end answers count and unread
0; filter=unread lists a chat whose newest message is one's own service message;
getConversationsById counts unread messages for a departed user and shows one who
never was a member as in; a later page of a history gives an in_read that goes
no further than its own first message; messages.get asks for neither periods nor
hidden messages; a departed owner keeps `is_admin`.

## 3. Runs

Run with `tlc -workers 2 -config <cfg> <module>`; none takes more than three
minutes.

| run | cfg, module | checks | bounds |
|---|---|---|---|
| `wakeup` | `LongPoll_wakeup`, `MCLongPoll` | `NoLostWakeup` for all twenty waking programs of the catalogue, against an event published in another process | one client, two calls, two processes |
| `prompt` | `LongPoll_prompt` | `RemovedIsOlder`, `NumbersUnique`; `FeedSpec`, the refinement of `EventFeed`; `PushWakes`: without a timer, a parked request is woken | one client, three calls of one to three pushes, two of them with a payload in common, a history of two |
| `catchup` | `LongPoll_catchup` | `TypeOK`; `CatchUp`: a client that keeps polling ends at the counter | one client, two calls (an online event against a push without a wake-up or with one that depends on its push), two processes; one fault (and the failure of a SET that comes of it), one crash, one expiry |
| `chat` | `ChatStore_chat`, `MCChatStore` | `TypeOK`, `LocalIdsGrow`, `DepartedAreClosed`, `MembersSeeTheirCalmTime`, `CallsEnd` | three users, three calls, each any of twelve requests; one fault |
| `sending` | `Sending`, `MCSending` | `OncePerKeyLife`, `AnswersAreSent`, `ToldAsFound`; `KeysAreFreed`, `Delivered` | three calls in four scenarios: a note to oneself three times, a dialogue repeated and answered, a chat and a dialogue in one request beside requests that are refused, a community that may only answer and names too many peers; one expiry of a used key, one fault |
| `online` | `Online`, `MCOnline` | `Agreement`; `SilenceIsNoticed` | one user watched by another, three calls (the third of three kinds), two trackers, a clock of twice the time to live; one fault |
| `readstate` | `ReadState`, `MCReadState` | `ReceiptsAreTrue`, `CounterSettles`; `BornUnread`, `ReadStaysRead` | two users with a group chat, a dialogue and an empty dialogue, nine triples of requests; one fault |
| `admin` | `ChatAdmin`, `MCChatAdmin` | `RowsAsAnnounced`, `DepartedHaveNoRole`, `UpdatesAreKept`, `JoinsAreCounted`, `KickIsShown` | an owner and a moderator that are communities, a member, a stranger; two messages, of which the second's number is the first's row; a link with one use left of two; 1170 triples of requests; one call dies or misreads |
| `reading` | `Reading`, `MCReading` | `UnreadAgrees`, `LastMessageIsNewest`, `ReadMarksAgree`, `PlaceIsTrue`, `JumpShowsTarget`, `ScrollIsComplete`, `ListIsComplete` | a group chat and a dialogue of two users with three messages, pages of one of the group's history and of the list, any three writes |
| `acked`, `reused`, `acl` | `LongPoll_acked`, `ChatStore_reused`, `ChatAdmin_acl` | the findings, below | as small as the counterexample allows |

Every property has a mutant in `PROJECT.json`: a plausible bug in one definition
under which the same run finds it violated.

Why these bounds are enough to mean something.  The interesting cases of the
long poll need one parked request, one push between its read and its `select`
and one more push to reorder with; two calls give that, and with a history of
two a third push removes a member.  The payload in common is the case in which
ZADD moves a member instead of adding one; it takes a third call, whose events
come between the two numbers, to see a member moved back and then removed.  One fault, crash or expiry reaches
each fault action in every state of the rest.  In `chat`, three calls are what
every known conflict takes (an addition, a sending and a deletion; two removals
and a return), and leaving the request of each call open covers every
combination of kinds.  In `sending`, a duplicate takes two calls and an expiry;
the third call is a bystander that shares the recipient.  In `online`, three calls
are a coming, a renewal and one more, and a clock of two reaches every order of
silence and activity.  In `reading`, three writes after three messages give
every pair of causes (deleted and hidden, departed and returned, cut off and
written to) with one more message, and a page of one makes every boundary a page
boundary.

A terminal state of these models is the end of the bounded workload, so TLC's
deadlock check is off.  What takes its place: `CallsEnd` for the locks of the
chat store, `KeysAreFreed` for the keys of messages.send, `PushWakes` and
`CatchUp` for requests that wait.

### Fairness

* `LongPoll`: `ServerFairness` is weak fairness of each handler's own next command,
  each request's own next command and each process's relay: goroutines are
  scheduled and commands return.  `TimelessSpec` has nothing else, in particular
  no timer: what it proves is due to wake-ups alone.  `PollingSpec` adds that a
  client polls again (`ClientStep`) and that a parked request is woken or times
  out; `time.After` guarantees the second, the first is a hypothesis about the
  client under which alone `CatchUp` has a meaning.  Failures are finitely many: if
  the SET that follows a failed GET failed every time, a client's `ts` would go up
  with an event and back with the next timeout for ever.
* `ChatStore`: `FairSpec` is weak fairness of each call's next statement: a call
  that can go on does, and InnoDB grants a lock that is free.
* `Sending`: `FairSpec` says that some call that can go on does, that goroutines
  go on telling, and that keys with a time to live expire.  It does not say that a
  given call is never passed over, nor that clients repeat anything.
* `Online`: time passes, a call that has read goes on to its ZADD, goroutines
  go on, and the ticker of each process that lives fires and works off what it
  has read.  A crash ends what the tracker was doing and the process starts
  again.  Nobody is forced to become active.

No fairness is assumed of faults, crashes, cancellations or disconnects anywhere,
nor of the expiry of the long poll's keys.

### Findings

Violation runs state what the documentation says and let TLC refute it on the
model of the code; `findings` in `PROJECT.json` quotes both.

* `acked`: the answer's `ts` can cover an event that was not in any answer.
* `reused`: a user is added while another member sends a message and deletes
  it: the local id of the deleted message is given out again.
* `acl`: a member changes the chat's photo although the acl he is shown denies it;
  messages.addChatUser does not ask for `can_invite`, messages.getInviteLink decides
  by `is_admin`, and im.setChatModerator takes the owner although
  `can_promote_users` (`vkapi586.docs.md:132`) may say that a moderator can.

Seen in the models and not made a run.  Long poll: one failed GetUserTS read
lets GetUpdates overwrite a newer counter (`longpoll.go:149`); ErrTsTooOld after a
wake-up is dropped (`transport/longpoll/longpoll.go:117`), where
`vkapi586.docs.md:885` promises {failed: 1}; most emitters call `Notify` and
not `Publish`, so that a request parked in another process waits for its timer
(`wakeup` runs them in the process that the request is parked in);
`chat_delete_all` and `notification_set` are pushed but not in the registry
that GetUpdates decodes with; `messages.markAsImportant` pushes its events and
wakes nobody; a client whose `ts` is ahead of a counter that expired and
restarted passes the check of GetUpdates and is never told that history was
lost; a payload that two calls share is moved back when the call numbered first
stores last, and the next trim then removes it although older events stay, so
that a client between the two numbers passes the check of GetUpdates
(`longpoll.go:180`; `RemovedIsOlder` without `~movedBack` is false in `prompt`).
Chat store: who returns before their leaving is over has the
new presence period closed with the old one and sees nothing of the chat they
are in (`main.go:352`; `MembersSeeTheirTime` without its reservation is false);
RefreshChatLastMessage overwrites `last_message_id` with what it read before it
waited (`main.go:518`; hence `Current` in `Reading`), and it writes every member's
row, so that a departed member's conversation moves in the list (`main.go:524`).
Sending: once a key has expired, a repeated random_id sends again, where
`vkapi586.docs.md:173` promises uniqueness, and so it does when the answer of the
COMMIT was lost, for the key is then freed (`send.go:586`; `OncePerKeyLife` says that
nothing but these two does so).  Read state: a deletion of a conversation writes the highest
local id it has looked up earlier, below what was read meanwhile
(`handler.go:743`; hence the last condition of `ReadStaysRead`).

Noted and not modelled: a push that straddles the expiry of the counter can
repeat a number; `getLongPollHistory` ignores the PTS it is given, and
`isHistoryEvent` lists the types read_in and read_out, which nothing emits; a
cache of replied and forwarded messages is filled by id and by local_id alike
(`message_vk.go:136`).

## 4. Theorems

`LongPollProofs` (for any sets of clients, calls, processes and programs, any
history length and any bounds, from `LongPollAssumption` alone):

* `TypeCorrect`: `Spec => []TypeOK`.  One lemma per action, grouped as in
  `Next`; `Frame` carries the types of what an action leaves alone.
* `NoWakeupIsLost`: if `MaxFaults = 0` and `Announced`, then
  `Spec => []NoLostWakeup`.  `Announced` is the syntactic condition on
  programs that every push is followed by a notification that reaches the
  client's process; the catalogue's waking programs satisfy it in one process,
  the publishing ones in any number of processes.  `NoLostWakeup` is not
  inductive: it speaks of parked requests, and a push may land after a
  request's read and before it parks.  `WakeupInv` also covers a request that
  found nothing and is about to park (`Listening`), for which a notification
  must be in the channel, ahead in a call, or in flight (`Heard`), and says
  that a request writes the counter back only on account of events it returns
  (`SetHasEvents`), so that this path never parks.

* `LongPollIsAFeed`: if `MaxFaults = 0` and `MaxExpiries = 0`, then
  `Spec => FeedSpec`, step by step: INCR is `Issue`, a first session or
  {failed: 1} is `Reset`, every other return is `Answer`, the rest stutters.
  `FeedInv` is what makes an answer one of the feed's: no number in a call or in
  the set is above the counter (`Numbered`), and what a request has read lies
  between its client's `ts` and the counter (`RequestAhead`), whence it never
  comes to write the counter back.
* `NumbersAreUnique`: under the same two hypotheses, `Spec => []NumbersUnique`.
  `Distinct` adds the numbers that calls have drawn and not stored yet.
* `RemovedAreOlder`: under the same, `Spec => []RemovedIsOlder`, by `HistoryInv`:
  the set never holds more than `HistoryCap` members, is full once something was
  removed, and lies above all that was removed unless a payload was moved back.
  The reservation is needed (see the findings above).

The two hypotheses are those of the run `prompt`: with failures or expiry the
three properties are false, as the findings say.

`ChatStoreProofs` (for any users, any set of calls, any requests and any number
of failures, from `ChatStoreAssumption` alone):

* `TypeCorrect`: `Spec => []TypeOK`, with `RowChosen` (a call that has chosen a
  message works on one that exists) and `Stages` (which kinds of request get
  to which control point), without which a write to `rows[row[k]]` could not
  be typed.
* `LocalIdsFollowCommits`: `Spec => []LocalIdsGrow`.  The order of the messages
  alone is not inductive.  `GrowInv` adds that who has allocated an id holds
  the lock and that the id is above every message (`HolderAbove`), and that
  `last_message_id` covers every message as long as nothing is deleted
  (`LastCovers`): an allocation after the lock is safe by MAX(local_id), one
  with an old snapshot by `last_message_id`, and finding `reused` is the case
  in which neither helps.
* `DepartureClosesPeriods`: `Spec => []DepartedAreClosed`, for two racing
  removals, returns and invitations as well.  `Removing` is a removal between
  its first and its last write; a step either keeps it or closes the period.
* `MembersSeeWhatTheyAreSent`: `Spec => []MembersSeeTheirCalmTime`.  `PresenceInv` adds
  that a member has an open period which some message lies in already
  (`SeenToday`), so that it covers all later ones, whose ids are higher by
  `GrowInv`; that who is being removed is no member any more (`Leaving`); and that
  nothing addressed to that user has an id above the one at which the period is
  about to be closed (`Closing`).

`PeerIdsProofs` (for all integers; no assumption):

* `RoundTrip`: `DerivePeerID` undoes `GetInternalChatID` for the user who asks;
  `PeersKeptApart` follows: no two peers of a user share an internal id.
* `BothEndsAgree`: both ends of a dialogue come to one internal id, unless both
  are communities.
* `DialoguesArePrivate`: an internal id below the range of group chats is that of
  one pair only.

`ChatAdminProofs` (from `ChatAdminAssumption`).  `TypeInv` is `TypeOK` with
`LinkChosen` (a link that is being looked at exists) and `Writing` (only calls that
change something come to the points `write` and `tell`):

* `TypeCorrect`: `Spec => []TypeOK`.
* `RolesEndWithMembership`: `Spec => []DepartedHaveNoRole`.  An appointment is a
  check and a write, so the roles alone are not inductive.  `RoleInv` adds that the
  owner keeps his flag, that no pending change is about him, and that who is about
  to be appointed is a member, unless his removal overlaps with the appointment
  (the case the property leaves out).
* `KickIsAsShown`: `Spec => []KickIsShown`, from `RoleInv`: the two computations of
  `can_kick` differ, for members, only where the owner is a community or has lost
  is_admin, and the two of the acl only for the latter.  He loses it to a failing
  query alone.
* `ChangesAreApplied`: `Spec => []UpdatesAreKept`.  `UpdateInv` adds that a pending
  change of permissions or flags has read what is still stored, unless another
  change of the same overlaps with it, and that two pending rivals overlap.
* `JoinsCounted`: `Spec => []JoinsAreCounted`.  `JoinInv`: the users who came by a link
  are those it counts and those who are added and still to be counted, finitely many
  (`Balanced`); two calls between their check and their count on one link overlap
  (`Apart`); and who is about to be added alone has seen a count below the limit
  that nobody has raised since (`Room`).
* `AnnouncementsAreTrue`: `Spec => []RowsAsAnnounced`.  The property speaks of rows
  that no call is about to announce.  `AnnounceInv` says of every topic (the title,
  the pinned message, each user's role, flags and mute) that nothing overlaps on:
  its row (`InRow`) is what the call that is about to announce it will say
  (`Telling`), or else what was announced last (`Told`).  Whom the rows call a
  moderator is one for im.getChatModerators too, because nobody departed keeps the
  flag (`RoleInv`).  What each member finds pinned is the announced message if he can
  see it, for the same row is filtered in the same way.

`SendingProofs` (for any members, calls, requests, expirations, failures and
crashes, from `SendingAssumption` alone).  `Types` are the types of the tables and
the calls:

* `OncePerKey`: `Spec => []OncePerKeyLife`.  The number of messages is not
  inductive: between SETNX and the commit a call owes one.  `LifeInv` gives every
  message with a key, and every call between its SETNX and its commit or DEL
  (`Holders`), a life of the key to itself (`Budget`).  A DEL may end somebody
  else's life of the key, but gives back the caller's own; an expiry ends one and
  counts it; a SETNX whose reply is lost opens one for nobody; a call that was told
  its COMMIT had failed has left a message (`unseen`) and frees the key as well.
* `AnswersSent`: `Spec => []AnswersAreSent`.  `SentInv` adds where answers come from:
  a committed call and a finished key name a message of that key, and a call has
  given one answer for each peer before the present one.

* `EndsToldAsFound`: `Spec => []ToldAsFound`, through disconnects, crashes, failed
  pushes and departures.  `ToldInv` follows the peer from the check that the sender
  may write there (`Writable`) over the committed row (`Filed`: it is stored in the
  conversation that this end knows by that peer) to the goroutine and the events;
  that both ends of a dialogue agree is `BothEndsAgree` of `PeerIdsProofs` once
  more.
* `TypeCorrect`: `Spec => []TypeOK`, from these types and those of the goroutines.

`OnlineProofs` (for any users, recipients, calls, processes, times to live and
clocks, from `OnlineAssumption`):

* `TypeCorrect`: `Spec => []TypeOK`.
* `OthersAgree`: `Spec => []Agreement`.  The property speaks of users about whom
  nothing is under way.  `AgreementInv` speaks of all but the crossed ones: each
  emission under way says what the sorted set says, and each recipient is either
  still to be told by one or was last told so (`Settled`).

`ReadStateProofs` (for any users, chats, members, earlier messages and requests,
from `ReadStateAssumption`):

* `TypeCorrect`: `Spec => []TypeOK`.
* `MarksInvariant`: `Spec => []MarksInv`: calls work on the tasks they resolved, and
  `last_message_id`, marks and what is about to be written as one are local ids the
  chat has reached.
* `NoMessageIsBornRead`: `Spec => BornUnread`, for the next local id is above all of
  these.
* `MarksOnlyFallByDeletion`: `Spec => ReadStaysRead`, from the same.
* `ReceiptsTellTheTruth`: `Spec => []ReceiptsAreTrue`.  A receipt comes from a task
  that a goroutine took from a call that had written it: `ReceiptsInv` says of each
  of these stages that the mark covers every message up to the task's own, or the
  conversation was forgotten, or the message withdrawn; and that what
  `last_message_id` leaves out, or cut off from a task, was withdrawn (`Lasts`,
  `CapsTrue`).
* `CounterComesToRest`: `Spec => []CounterSettles`.  `CounterInv` says of every user who
  is neither crossed nor unaware that he is yet to be counted (`Pending`), or that
  the count in hand, or else the last event, is right (`Fresh`); and that no two
  goroutines hold a count of his at once.

`ReadingProofs` (for any chats, users, earlier messages, page lengths and numbers of
writes, from `ReadingAssumption`): all that the run checks.

* `TypeCorrect`: `Spec => []TypeOK`.
* `StoreInvariant`: `Spec => []StoreInv`: local ids ascend within a chat,
  `last_message_id` and the marks name messages of their own chat, periods are
  finitely many, and who is away has a last message saying how he went.
* `UnreadIsAgreedOn`, `PlaceIsTold`, `LastMessageIsTheNewest`, `ReadMarksAreAgreedOn`:
  `UnreadAgrees`, `PlaceIsTrue`, `LastMessageIsNewest` and `ReadMarksAgree` follow from it:
  they compare operators on one state.  The first and the third assume `Current`,
  the last that the list shows a last message (`out_read_cmid`) and that the user is
  in the chat (viewers); without these they are false.
* `PagerInvariant`: `Spec => []PagerInv`.  What a client that fetches pages has not
  got yet, of what was there all along, is still ahead of it (`ToCome`): at or
  below `start_cmid`, or behind at least as many items as its offset.  The writes
  between two pages keep this because they add only at the newer end or take
  away (`lost`), and a page takes exactly the items between two places.
* `ScrollsAreComplete`, `ListsAreComplete`: `ScrollIsComplete` and `ListIsComplete`
  follow when nothing is ahead any more.
* `JumpsShowTheirTarget`: `Spec => []JumpShowsTarget`, from the ranks of the messages
  around the target.

Model-checked only: liveness (`PushWakes`, `CatchUp`, `CallsEnd`, `KeysAreFreed`,
`Delivered`, `SilenceIsNoticed`), for temporal reasoning with fairness is out of the
prover's reach.  Every other property of the passing runs is a theorem, under the
hypotheses named above, and there is no step on trust.  What TLC and the proofs
share is the module: a theorem is about the same `Spec` that the run checks.

## 5. Not modelled

* The layout of answers (version 0 to 3, `mode` bits, `api` models), the conversion
  of rows into answers, logging, HTTP, routing and configuration: formatting and
  wiring without state of its own.
* PTS (INCR, the copy in `im_states`, the refill of a missing key): no modelled
  part reads it, and getLongPollHistory ignores the value it is given.
* The search index and the encryption of texts: sequential code around
  cryptographic primitives.  Editing a message, and the table of important
  messages, are single-row writes.
* Migration: a command run once on a database that nobody else uses.
* `custom/counters.go` and `custom/chat.isAdmin.go`: queries whose results other
  endpoints return as well.
* EnsureMemberPeriod, which opens periods of direct messages; two chats in one
  messages.delete; a direct message whose conversation is created while sending.
* The composition of `LongPoll` with `ChatStore` and `Sending` (an event that is
  delivered before its transaction commits): the state spaces multiply.

## 6. Plan

Done: the long poll with its abstract feed and proofs; the chat store with its
proofs; sending, online, read state, settings and invites, reading, peer ids and
permissions.

Left, in this order:

1. `PtsCounter`: INCR, upsert, refill; what a client is given only grows.
2. messages.delete over two chats (waits in a circle), direct messages that create
   their conversation, and the order of events and commits (`ChatStore` with the
   programs of `Emissions`).
3. `Migration`: batches, caches and a failing batch.
